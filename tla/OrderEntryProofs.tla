--------------------------- MODULE OrderEntryProofs ----------------------------
(***************************************************************************)
(* Proofs about OrderEntry, LiveEvents and RiskRails for any numbers of     *)
(* orders, pages, markets, users, days and restarts, any settings.          *)
(*                                                                          *)
(* The books are sums over rows and fills, and a row or a fill changes one  *)
(* summand: the lemmas about sums say what that does to the sum.  With them *)
(* BooksInv says that the rows add up to the fills as long as one order at  *)
(* a time holds a row, and CapInv that what an order has read is still so   *)
(* when it writes as long as orders do not overlap.  FeedInv says who still *)
(* owes a page the state of the switch.  RailsInv says that what is armed   *)
(* is what was set, and that the switch knows the day's result.             *)
(***************************************************************************)
EXTENDS MCOrderEntry, NaturalsInduction, SequenceTheorems, FiniteSetTheorems, TLAPS

(* The books are sums, and SumFunction is a fold: the function it chooses   *)
(* adds the elements of every subset in an order of its own.                *)
OneIn(T) == CHOOSE x \in T : TRUE

Adds(f, S, F) ==
  F = [T \in SUBSET S |-> IF T = {} THEN 0 ELSE f[OneIn(T)] + F[T \ {OneIn(T)}]]

LEMMA SumIsFold ==
  ASSUME NEW f, NEW S
  PROVE  SumFunctionOnSet(f, S) = (CHOOSE F : Adds(f, S, F))[S]
BY DEF SumFunctionOnSet, FoldFunctionOnSet, MapThenFoldSet, Adds, OneIn

LEMMA LeastNumber ==
  ASSUME NEW N \in SUBSET Nat, N # {}
  PROVE  \E n \in N : \A m \in N : n <= m
<1>1. PICK n \in N : \A m \in N : ~(<<m, n>> \in OpToRel(<, Nat))
  BY NatLessThanWellFounded, WFMin
<1>2. \A m \in N : ~(m < n)
  <2> SUFFICES ASSUME NEW m \in N PROVE ~(m < n)
    OBVIOUS
  <2>1. <<m, n>> \in Nat \X Nat /\ <<m, n>>[1] = m /\ <<m, n>>[2] = n
    OBVIOUS
  <2> QED BY <1>1, <2>1 DEF OpToRel
<1> QED BY <1>2

(* A smaller subset of a finite set.                                        *)
LEMMA Without ==
  ASSUME NEW S, IsFiniteSet(S), NEW T \in SUBSET S, NEW x \in T
  PROVE  /\ IsFiniteSet(T) /\ T \ {x} \in SUBSET S
         /\ Cardinality(T) \in Nat /\ Cardinality(T \ {x}) \in Nat
         /\ Cardinality(T \ {x}) = Cardinality(T) - 1
<1>1. IsFiniteSet(T)
  BY FS_Subset
<1>2. IsFiniteSet(T \ {x}) /\ Cardinality(T \ {x}) = Cardinality(T) - 1
  BY <1>1, FS_RemoveElement
<1> QED BY <1>1, <1>2, FS_CardinalityType

LEMMA OneInIsIn == ASSUME NEW T, T # {} PROVE OneIn(T) \in T
BY DEF OneIn

(* There is such a function: were there none for the subsets of some size,  *)
(* the smallest such size would have one after all.                         *)
LEMMA SumExists ==
  ASSUME NEW S, IsFiniteSet(S), NEW f, \A x \in S : f[x] \in Int
  PROVE  \E F \in [SUBSET S -> Int] : Adds(f, S, F)
<1> DEFINE Upto(n) == {T \in SUBSET S : Cardinality(T) <= n}
           Good(n, F) ==
             \A T \in Upto(n) :
               F[T] = IF T = {} THEN 0 ELSE f[OneIn(T)] + F[T \ {OneIn(T)}]
           Bad == {n \in Nat : ~\E F \in [SUBSET S -> Int] : Good(n, F)}
<1>1. \A T \in SUBSET S : T # {} =>
        /\ OneIn(T) \in T /\ f[OneIn(T)] \in Int /\ T \ {OneIn(T)} \in SUBSET S
        /\ Cardinality(T) \in Nat /\ Cardinality(T \ {OneIn(T)}) = Cardinality(T) - 1
  BY OneInIsIn, Without
<1>2. 0 \notin Bad
  <2>1. [T \in SUBSET S |-> 0] \in [SUBSET S -> Int]
    OBVIOUS
  <2>2. \A T \in Upto(0) : T = {}
    <3> SUFFICES ASSUME NEW T \in Upto(0), T # {} PROVE FALSE
      OBVIOUS
    <3>1. Cardinality(T) <= 0 /\ Cardinality(T) \in Nat /\ IsFiniteSet(T)
      BY <1>1, FS_Subset
    <3> QED BY <3>1, FS_EmptySet
  <2>3. Good(0, [T \in SUBSET S |-> 0])
    BY <2>2
  <2> HIDE DEF Good
  <2> QED BY <2>1, <2>3
<1>3. \A n \in Nat : n + 1 \in Bad => n \in Bad
  <2> SUFFICES ASSUME NEW n \in Nat, NEW F \in [SUBSET S -> Int], Good(n, F)
               PROVE  \E G \in [SUBSET S -> Int] : Good(n + 1, G)
    OBVIOUS
  <2> DEFINE G == [T \in SUBSET S |->
                     IF T \in Upto(n) THEN F[T] ELSE f[OneIn(T)] + F[T \ {OneIn(T)}]]
  <2>1. \A T \in SUBSET S : T \notin Upto(n) => T # {}
    <3>1. Cardinality({}) = 0 /\ 0 <= n
      BY FS_EmptySet
    <3>2. {} \in Upto(n)
      BY <3>1
    <3> HIDE DEF Upto
    <3> QED BY <3>2
  <2>2. G \in [SUBSET S -> Int]
    <3> SUFFICES ASSUME NEW T \in SUBSET S, T \notin Upto(n)
                 PROVE  f[OneIn(T)] + F[T \ {OneIn(T)}] \in Int
      OBVIOUS
    <3> QED BY <1>1, <2>1
  <2>3. \A T \in SUBSET S : T # {} /\ Cardinality(T) <= n + 1 => T \ {OneIn(T)} \in Upto(n)
    BY <1>1
  <2>4. Good(n + 1, G)
    <3> SUFFICES ASSUME NEW T \in Upto(n + 1)
                 PROVE  G[T] = IF T = {} THEN 0 ELSE f[OneIn(T)] + G[T \ {OneIn(T)}]
      OBVIOUS
    <3>1. CASE T = {}
      <4>1. T \in Upto(n)
        BY <3>1, FS_EmptySet
      <4> QED BY <3>1, <4>1
    <3>2. CASE T # {}
      <4>1. T \ {OneIn(T)} \in Upto(n) /\ T \ {OneIn(T)} \in SUBSET S
        BY <2>3, <3>2
      <4>2. G[T \ {OneIn(T)}] = F[T \ {OneIn(T)}]
        BY <4>1
      <4> QED BY <3>2, <4>2
    <3> QED BY <3>1, <3>2
  <2> HIDE DEF G, Good
  <2> QED BY <2>2, <2>4
<1>4. Bad = {}
  <2> SUFFICES ASSUME Bad # {} PROVE FALSE
    OBVIOUS
  <2>1. PICK n \in Bad : \A m \in Bad : n <= m
    <3> HIDE DEF Bad
    <3>1. Bad \subseteq Nat
      BY DEF Bad
    <3> QED BY <3>1, LeastNumber
  <2>2. n \in Nat /\ n # 0
    BY <1>2, <2>1
  <2>3. n - 1 \in Nat /\ (n - 1) + 1 = n
    BY <2>2
  <2>4. n - 1 \in Bad
    <3> HIDE DEF Bad
    <3> QED BY <1>3, <2>1, <2>3
  <2> HIDE DEF Bad
  <2> QED BY <2>1, <2>2, <2>4
<1>5. Cardinality(S) \in Nat /\ Upto(Cardinality(S)) = SUBSET S
  BY FS_CardinalityType, FS_Subset
<1>6. PICK F \in [SUBSET S -> Int] : Good(Cardinality(S), F)
  BY <1>4, <1>5
<1>7. F = [T \in SUBSET S |-> IF T = {} THEN 0 ELSE f[OneIn(T)] + F[T \ {OneIn(T)}]]
  BY <1>5, <1>6
<1> QED BY <1>7 DEF Adds

(* It depends on nothing but the values that are added ...                  *)
LEMMA SumAgrees ==
  ASSUME NEW S, IsFiniteSet(S), NEW f, NEW F, Adds(f, S, F),
         NEW R, NEW g, NEW G, Adds(g, R, G),
         NEW U \in SUBSET S, U \in SUBSET R, \A x \in U : f[x] = g[x]
  PROVE  F[U] = G[U]
<1> DEFINE Bad == {n \in Nat : \E T \in SUBSET U : Cardinality(T) = n /\ F[T] # G[T]}
<1>1. SUFFICES ASSUME NEW n \in Bad, \A m \in Bad : n <= m PROVE FALSE
  <2>1. Bad = {}
    <3>1. Bad \subseteq Nat
      OBVIOUS
    <3> HIDE DEF Bad
    <3> QED BY <1>1, <3>1, LeastNumber
  <2>2. Cardinality(U) \in Nat
    BY FS_Subset, FS_CardinalityType
  <2> QED BY <2>1, <2>2
<1>2. PICK T \in SUBSET U : Cardinality(T) = n /\ F[T] # G[T]
  OBVIOUS
<1>3. T \in SUBSET S /\ T \in SUBSET R
  BY <1>2
<1>4. /\ F[T] = IF T = {} THEN 0 ELSE f[OneIn(T)] + F[T \ {OneIn(T)}]
      /\ G[T] = IF T = {} THEN 0 ELSE g[OneIn(T)] + G[T \ {OneIn(T)}]
  <2>1. F[T] = IF T = {} THEN 0 ELSE f[OneIn(T)] + F[T \ {OneIn(T)}]
    BY <1>3 DEF Adds
  <2>2. G[T] = IF T = {} THEN 0 ELSE g[OneIn(T)] + G[T \ {OneIn(T)}]
    BY <1>3 DEF Adds
  <2> QED BY <2>1, <2>2
<1>5. T # {} /\ OneIn(T) \in T
  BY <1>2, <1>4, OneInIsIn
<1>6. /\ Cardinality(T \ {OneIn(T)}) \in Nat /\ Cardinality(T \ {OneIn(T)}) = n - 1
      /\ n \in Nat
  BY <1>2, <1>3, <1>5, Without
<1>7. F[T \ {OneIn(T)}] = G[T \ {OneIn(T)}]
  <2> SUFFICES ASSUME F[T \ {OneIn(T)}] # G[T \ {OneIn(T)}] PROVE FALSE
    OBVIOUS
  <2>1. T \ {OneIn(T)} \in SUBSET U
    BY <1>2
  <2>2. n - 1 \in Bad
    BY <1>6, <2>1
  <2> HIDE DEF Bad
  <2> QED BY <1>1, <1>6, <2>2
<1>8. f[OneIn(T)] = g[OneIn(T)]
  BY <1>2, <1>5
<1> QED BY <1>2, <1>4, <1>5, <1>7, <1>8

Sums(f, S, F) == F \in [SUBSET S -> Int] /\ Adds(f, S, F)

(* ... and in no order.                                                     *)
LEMMA AnyOrder ==
  ASSUME NEW S, IsFiniteSet(S), NEW f, \A y \in S : f[y] \in Int,
         NEW F, Sums(f, S, F)
  PROVE  \A y \in S : F[S] = f[y] + F[S \ {y}]
<1> USE DEF Sums
<1> SUFFICES \A T \in SUBSET S : \A x \in T : F[T] = f[x] + F[T \ {x}]
  OBVIOUS
<1> DEFINE Bad == {n \in Nat : \E T \in SUBSET S : \E x \in T :
                     Cardinality(T) = n /\ F[T] # f[x] + F[T \ {x}]}
<1>1. SUFFICES ASSUME NEW n \in Bad, \A m \in Bad : n <= m PROVE FALSE
  <2>1. Bad = {}
    <3>1. Bad \subseteq Nat
      OBVIOUS
    <3> HIDE DEF Bad
    <3> QED BY <1>1, <3>1, LeastNumber
  <2> SUFFICES ASSUME NEW T \in SUBSET S, NEW x \in T, F[T] # f[x] + F[T \ {x}]
               PROVE  FALSE
    OBVIOUS
  <2>2. Cardinality(T) \in Nat
    BY FS_Subset, FS_CardinalityType
  <2>3. Cardinality(T) \in Bad
    BY <2>2
  <2> HIDE DEF Bad
  <2> QED BY <2>1, <2>3
<1>2. PICK T \in SUBSET S : \E x \in T : Cardinality(T) = n /\ F[T] # f[x] + F[T \ {x}]
  OBVIOUS
<1>3. PICK x \in T : Cardinality(T) = n /\ F[T] # f[x] + F[T \ {x}]
  BY <1>2
<1>4. PICK a : a = OneIn(T)
  OBVIOUS
<1>5. \A V \in SUBSET S : V # {} => F[V] = f[OneIn(V)] + F[V \ {OneIn(V)}]
  BY DEF Adds
<1>6. a \in T /\ F[T] = f[a] + F[T \ {a}]
  BY <1>3, <1>4, <1>5, OneInIsIn
<1>7. a # x
  BY <1>3, <1>6
<1>8. \A V \in SUBSET S : \A y \in V :
        Cardinality(V) \in Nat /\ Cardinality(V) < n => F[V] = f[y] + F[V \ {y}]
  <2> SUFFICES ASSUME NEW V \in SUBSET S, NEW y \in V,
                      Cardinality(V) \in Nat, Cardinality(V) < n,
                      F[V] # f[y] + F[V \ {y}]
               PROVE  FALSE
    OBVIOUS
  <2>1. Cardinality(V) \in Bad
    OBVIOUS
  <2>2. n \in Nat
    OBVIOUS
  <2> HIDE DEF Bad
  <2> QED BY <1>1, <2>1, <2>2
<1>9. /\ T \ {a} \in SUBSET S /\ Cardinality(T \ {a}) \in Nat /\ Cardinality(T \ {a}) < n
      /\ T \ {x} \in SUBSET S /\ Cardinality(T \ {x}) \in Nat /\ Cardinality(T \ {x}) < n
  <2>1. \A y \in T : /\ T \ {y} \in SUBSET S /\ Cardinality(T \ {y}) \in Nat
                     /\ Cardinality(T) \in Nat /\ Cardinality(T \ {y}) = Cardinality(T) - 1
    BY Without
  <2> QED BY <1>3, <1>6, <2>1
<1>10. F[T \ {a}] = f[x] + F[(T \ {a}) \ {x}]
  BY <1>3, <1>7, <1>8, <1>9
<1>11. F[T \ {x}] = f[a] + F[(T \ {x}) \ {a}]
  BY <1>6, <1>7, <1>8, <1>9
<1>12. (T \ {a}) \ {x} = (T \ {x}) \ {a} /\ (T \ {a}) \ {x} \in SUBSET S
  OBVIOUS
<1>13. /\ f[a] \in Int /\ f[x] \in Int /\ F[(T \ {a}) \ {x}] \in Int
  BY <1>3, <1>6, <1>12
<1>14. PICK p \in Int, q \in Int, r \in Int : p = f[a] /\ q = f[x] /\ r = F[(T \ {a}) \ {x}]
  BY <1>13
<1>15. /\ F[T] = p + (q + r) /\ F[T \ {x}] = p + r
       /\ F[T] # q + (p + r)
  <2>1. F[T] = p + F[T \ {a}] /\ F[T \ {a}] = q + r
    BY <1>6, <1>10, <1>14
  <2>2. F[T \ {x}] = p + r
    BY <1>11, <1>12, <1>14
  <2>3. F[T] # q + F[T \ {x}]
    BY <1>3, <1>14
  <2> QED BY <1>13, <1>14, <2>1, <2>2, <2>3
<1> HIDE DEF Bad
<1> QED BY <1>14, <1>15

-----------------------------------------------------------------------------
(* What is used of sums.                                                    *)
LEMMA SumIs ==
  ASSUME NEW S, IsFiniteSet(S), NEW f, \A x \in S : f[x] \in Int
  PROVE  \E F \in [SUBSET S -> Int] : Adds(f, S, F) /\ SumFunctionOnSet(f, S) = F[S]
<1>1. PICK F \in [SUBSET S -> Int] : Adds(f, S, F)
  BY SumExists
<1>2. PICK C : C = CHOOSE G : Adds(f, S, G)
  OBVIOUS
<1>3. Adds(f, S, C)
  BY <1>1, <1>2
<1>4. F[S] = C[S]
  BY <1>1, <1>3, SumAgrees
<1> QED BY <1>1, <1>2, <1>4, SumIsFold

LEMMA SumOfNone == ASSUME NEW f PROVE SumFunctionOnSet(f, {}) = 0
<1>1. PICK F \in [SUBSET {} -> Int] : Adds(f, {}, F) /\ SumFunctionOnSet(f, {}) = F[{}]
  BY SumIs, FS_EmptySet
<1>2. F[{}] = 0
  BY <1>1 DEF Adds
<1> QED BY <1>1, <1>2

LEMMA SumType ==
  ASSUME NEW S, IsFiniteSet(S), NEW f, \A x \in S : f[x] \in Int
  PROVE  SumFunctionOnSet(f, S) \in Int
<1>1. PICK F \in [SUBSET S -> Int] : Adds(f, S, F) /\ SumFunctionOnSet(f, S) = F[S]
  BY SumIs
<1> QED BY <1>1

LEMMA SumSame ==
  ASSUME NEW S, IsFiniteSet(S), NEW f, NEW g, \A x \in S : f[x] \in Int /\ f[x] = g[x]
  PROVE  SumFunctionOnSet(f, S) = SumFunctionOnSet(g, S)
<1>1. PICK F \in [SUBSET S -> Int] : Adds(f, S, F) /\ SumFunctionOnSet(f, S) = F[S]
  BY SumIs
<1>2. PICK G \in [SUBSET S -> Int] : Adds(g, S, G) /\ SumFunctionOnSet(g, S) = G[S]
  BY SumIs
<1> QED BY <1>1, <1>2, SumAgrees

LEMMA SumTakes ==
  ASSUME NEW S, IsFiniteSet(S), NEW f, \A y \in S : f[y] \in Int, NEW x \in S
  PROVE  SumFunctionOnSet(f, S) = f[x] + SumFunctionOnSet(f, S \ {x})
<1>1. PICK F \in [SUBSET S -> Int] : Adds(f, S, F) /\ SumFunctionOnSet(f, S) = F[S]
  BY SumIs
<1>2. IsFiniteSet(S \ {x})
  BY FS_RemoveElement
<1>3. PICK G \in [SUBSET (S \ {x}) -> Int] :
        Adds(f, S \ {x}, G) /\ SumFunctionOnSet(f, S \ {x}) = G[S \ {x}]
  BY <1>2, SumIs
<1>4. F[S \ {x}] = G[S \ {x}]
  BY <1>1, <1>3, SumAgrees
<1>5. Sums(f, S, F)
  BY <1>1 DEF Sums
<1>6. F[S] = f[x] + F[S \ {x}]
  BY <1>5, AnyOrder
<1> QED BY <1>1, <1>3, <1>4, <1>6

LEMMA SumGrows ==
  ASSUME NEW S, IsFiniteSet(S), NEW x, x \notin S, NEW f, NEW g, g[x] \in Int,
         \A y \in S : f[y] \in Int /\ f[y] = g[y]
  PROVE  SumFunctionOnSet(g, S \cup {x}) = SumFunctionOnSet(f, S) + g[x]
<1>1. IsFiniteSet(S \cup {x}) /\ (S \cup {x}) \ {x} = S
  BY FS_AddElement
<1>2. \A y \in S \cup {x} : g[y] \in Int
  OBVIOUS
<1>3. SumFunctionOnSet(g, S \cup {x}) = g[x] + SumFunctionOnSet(g, (S \cup {x}) \ {x})
  BY <1>1, <1>2, SumTakes
<1>4. SumFunctionOnSet(f, S) = SumFunctionOnSet(g, S)
  BY SumSame
<1>5. SumFunctionOnSet(f, S) \in Int
  BY SumType
<1>6. SumFunctionOnSet(g, S \cup {x}) = g[x] + SumFunctionOnSet(f, S)
  BY <1>1, <1>3, <1>4
<1> QED BY <1>5, <1>6

LEMMA SumMoves ==
  ASSUME NEW S, IsFiniteSet(S), NEW x \in S, NEW f, NEW g,
         \A y \in S : f[y] \in Int /\ g[y] \in Int,
         \A y \in S \ {x} : f[y] = g[y]
  PROVE  SumFunctionOnSet(g, S) = SumFunctionOnSet(f, S) - f[x] + g[x]
<1>1. IsFiniteSet(S \ {x})
  BY FS_RemoveElement
<1>2. SumFunctionOnSet(f, S) = f[x] + SumFunctionOnSet(f, S \ {x})
  BY SumTakes
<1>3. SumFunctionOnSet(g, S) = g[x] + SumFunctionOnSet(g, S \ {x})
  BY SumTakes
<1>4. SumFunctionOnSet(f, S \ {x}) = SumFunctionOnSet(g, S \ {x})
  BY <1>1, SumSame
<1>5. SumFunctionOnSet(f, S \ {x}) \in Int /\ f[x] \in Int /\ g[x] \in Int
  BY <1>1, SumType
<1> QED BY <1>2, <1>3, <1>4, <1>5

(* What the two ways to write a row do to the value and to the exposure.    *)
Exposure(s) == SumFunction([i \in DOMAIN s |-> Abs(s[i])])

LEMMA BooksType ==
  ASSUME NEW s \in Seq(Int)
  PROVE  /\ DOMAIN s = 1..Len(s) /\ IsFiniteSet(DOMAIN s)
         /\ SumFunction(s) \in Int /\ Exposure(s) \in Int
<1>1. DOMAIN s = 1..Len(s) /\ IsFiniteSet(DOMAIN s)
  BY FS_Interval
<1>2. \A i \in DOMAIN s : s[i] \in Int /\ Abs(s[i]) \in Int
  BY DEF Abs
<1>3. SumFunction(s) \in Int
  BY <1>1, <1>2, SumType DEF SumFunction
<1>4. PICK g : g = [i \in DOMAIN s |-> Abs(s[i])]
  OBVIOUS
<1>5. DOMAIN g = DOMAIN s /\ \A i \in DOMAIN s : g[i] \in Int
  BY <1>2, <1>4
<1>6. SumFunction(g) \in Int
  BY <1>1, <1>5, SumType DEF SumFunction
<1> QED BY <1>1, <1>3, <1>4, <1>6 DEF Exposure

LEMMA RowAdded ==
  ASSUME NEW s \in Seq(Int), NEW n \in Int
  PROVE  /\ Append(s, n) \in Seq(Int)
         /\ SumFunction(Append(s, n)) = SumFunction(s) + n
         /\ Exposure(Append(s, n)) = Exposure(s) + Abs(n)
<1>1. PICK t \in Seq(Int) : t = Append(s, n)
  BY AppendProperties
<1>2. PICK x : x = Len(s) + 1
  OBVIOUS
<1>3. /\ DOMAIN t = DOMAIN s \cup {x} /\ x \notin DOMAIN s
      /\ t[x] = n /\ \A i \in DOMAIN s : s[i] \in Int /\ t[i] = s[i]
  BY <1>1, <1>2
<1>4. IsFiniteSet(DOMAIN s)
  BY BooksType
<1>5. SumFunction(t) = SumFunction(s) + n
  BY <1>3, <1>4, SumGrows DEF SumFunction
<1>6. PICK f : f = [i \in DOMAIN s |-> Abs(s[i])]
  OBVIOUS
<1>7. PICK g : g = [i \in DOMAIN t |-> Abs(t[i])]
  OBVIOUS
<1>8. /\ DOMAIN f = DOMAIN s /\ DOMAIN g = DOMAIN s \cup {x}
      /\ g[x] = Abs(n) /\ \A i \in DOMAIN s : f[i] \in Int /\ f[i] = g[i]
  BY <1>3, <1>6, <1>7 DEF Abs
<1>9. Abs(n) \in Int
  BY DEF Abs
<1>10. SumFunction(g) = SumFunction(f) + Abs(n)
  BY <1>3, <1>4, <1>8, <1>9, SumGrows DEF SumFunction
<1> QED BY <1>1, <1>5, <1>6, <1>7, <1>10 DEF Exposure

LEMMA RowUpdated ==
  ASSUME NEW s \in Seq(Int), s # <<>>, NEW n \in Int
  PROVE  LET t == <<Head(s) + n>> \o Tail(s) IN
         /\ t \in Seq(Int)
         /\ SumFunction(t) = SumFunction(s) + n
         /\ Exposure(t) <= Exposure(s) + Abs(n)
<1>1. PICK q \in Int : q = Head(s) + n
  OBVIOUS
<1>2. PICK t \in Seq(Int) : t = <<q>> \o Tail(s)
  <2>1. Tail(s) \in Seq(Int) /\ <<q>> \in Seq(Int)
    BY HeadTailProperties
  <2>2. <<q>> \o Tail(s) \in Seq(Int)
    BY <2>1, ConcatProperties
  <2> QED BY <2>2
<1>3. /\ DOMAIN t = DOMAIN s /\ 1 \in DOMAIN s /\ t[1] = q /\ s[1] = Head(s)
      /\ \A i \in DOMAIN s \ {1} : s[i] = t[i]
  BY <1>2
<1>4. IsFiniteSet(DOMAIN s) /\ \A i \in DOMAIN s : s[i] \in Int /\ t[i] \in Int
  BY <1>3, BooksType
<1>5. SumFunction(t) = SumFunction(s) - s[1] + t[1]
  BY <1>3, <1>4, SumMoves DEF SumFunction
<1>6. PICK f : f = [i \in DOMAIN s |-> Abs(s[i])]
  OBVIOUS
<1>7. PICK g : g = [i \in DOMAIN t |-> Abs(t[i])]
  OBVIOUS
<1>8. /\ DOMAIN f = DOMAIN s /\ DOMAIN g = DOMAIN s
      /\ f[1] = Abs(s[1]) /\ g[1] = Abs(t[1])
      /\ \A i \in DOMAIN s : f[i] \in Int /\ g[i] \in Int
      /\ \A i \in DOMAIN s \ {1} : f[i] = g[i]
  BY <1>3, <1>4, <1>6, <1>7 DEF Abs
<1>9. SumFunction(g) = SumFunction(f) - f[1] + g[1]
  BY <1>3, <1>4, <1>8, SumMoves DEF SumFunction
<1>10. SumFunction(s) \in Int /\ SumFunction(f) \in Int
  BY <1>6, BooksType DEF Exposure
<1>11. SumFunction(t) = SumFunction(s) + n
  BY <1>1, <1>3, <1>4, <1>5, <1>10
<1>12. g[1] <= f[1] + Abs(n) /\ f[1] \in Int /\ g[1] \in Int /\ Abs(n) \in Int
  BY <1>1, <1>3, <1>4, <1>8 DEF Abs
<1>13. SumFunction(g) <= SumFunction(f) + Abs(n)
  BY <1>9, <1>10, <1>12
<1> QED BY <1>1, <1>2, <1>6, <1>7, <1>11, <1>13 DEF Exposure

-----------------------------------------------------------------------------
(* The shape of the state, as far as the books are concerned.               *)
Shape ==
  /\ rows \in Seq(Int)
  /\ pc \in [Orders -> {"new"} \cup UnderWay \cup Ended]
  /\ ticket \in [Orders -> [side : {"buy", "sell"}, qty : Nat]]
  /\ summary \in [Orders -> [equity : Int, gross : Int]]
  /\ found \in [Orders -> {NoRow} \cup {{q} : q \in Int}]
  /\ \A o \in Orders : found[o] # NoRow => rows # <<>>

(* Unless two held it, one order holds the oldest row, as it still is.      *)
Holds(o) == pc[o] = "write" /\ found[o] # NoRow
OneHolds == \A c, d \in Orders : Holds(c) /\ Holds(d) => c = d
HeldIsHead == \A o \in Orders : Holds(o) => rows # <<>> /\ found[o] = {Head(rows)}
Fills == SumFunction([o \in Booked |-> Signed(o)])

BooksInv == ~raced => OneHolds /\ HeldIsHead /\ Value = Fills

(* What an order has passed when it is sent, and when it is filled.         *)
Passed ==
  \A o \in Orders :
    /\ pc[o] \in {"send", "trade", "read", "write"} => WithinCaps(o)
    /\ pc[o] \in {"trade", "read", "write"} => ticket[o].qty <= MaxNotional

(* Unless two overlapped, one order is under way, and what it has read of   *)
(* the books is still so.                                                   *)
OneUnderWay == \A c, d \in Orders : pc[c] \in UnderWay /\ pc[d] \in UnderWay => c = d
ReadIsCurrent ==
  \A o \in Orders : pc[o] \in UnderWay => summary[o] = [equity |-> Equity, gross |-> Gross]
BelowCap == Gross * 100 <= (Equity + MaxNotional) * GrossPct

CapInv == ~overlapped => ~raced /\ OneUnderWay /\ ReadIsCurrent /\ BelowCap

EntryInv == Shape /\ BooksInv /\ Passed /\ CapInv

LEMMA ValueAndExposure ==
  /\ Value = SumFunction(rows) /\ Gross = Exposure(rows)
  /\ Value' = SumFunction(rows') /\ Gross' = Exposure(rows')
BY DEF Value, Gross, Exposure

LEMMA SignedType ==
  ASSUME Shape, NEW o \in Orders
  PROVE  /\ ticket[o].qty \in Nat /\ Signed(o) \in Int /\ Abs(Signed(o)) = ticket[o].qty
<1>1. ticket[o].qty \in Nat
  BY DEF Shape
<1> QED BY <1>1 DEF Signed, Abs

LEMMA EntryInitially == Init => EntryInv
<1> SUFFICES ASSUME Init PROVE EntryInv
  OBVIOUS
<1> USE EntryAssumption DEF Init
<1>1. Shape
  BY DEF Shape, NoRow
<1>2. Value = 0 /\ Gross = 0
  <2>1. PICK f : f = [i \in DOMAIN rows |-> Abs(rows[i])]
    OBVIOUS
  <2>2. DOMAIN rows = {} /\ DOMAIN f = {}
    BY <2>1
  <2> QED BY <2>1, <2>2, SumOfNone DEF Value, Gross, SumFunction
<1>3. Fills = 0
  <2>1. PICK f : f = [o \in Booked |-> Signed(o)]
    OBVIOUS
  <2>2. DOMAIN f = {}
    BY <2>1 DEF Booked
  <2> QED BY <2>1, <2>2, SumOfNone DEF Fills, SumFunction
<1>4. \A o \in Orders : pc[o] = "new"
  OBVIOUS
<1>5. OneHolds /\ HeldIsHead /\ Passed /\ OneUnderWay /\ ReadIsCurrent
  BY <1>4 DEF OneHolds, HeldIsHead, Holds, Passed, OneUnderWay, ReadIsCurrent, UnderWay
<1>6. BelowCap
  <2>1. 0 <= (Cash + MaxNotional) * GrossPct
    <3>1. Cash + MaxNotional \in Nat /\ GrossPct \in Nat
      OBVIOUS
    <3> QED BY <3>1
  <2> QED BY <1>2, <2>1 DEF BelowCap, Equity
<1> QED BY <1>1, <1>2, <1>3, <1>5, <1>6 DEF EntryInv, BooksInv, CapInv

(* Only the write of a row changes the books.                               *)
LEMMA BooksStay ==
  ASSUME rows' = rows
  PROVE  Value' = Value /\ Gross' = Gross /\ Equity' = Equity
BY DEF Value, Gross, Equity

(* The fills stay when no order is booked and no booked order's ticket      *)
(* changes.                                                                 *)
LEMMA FillsStay ==
  ASSUME Booked' = Booked, \A o \in Booked : ticket'[o] = ticket[o]
  PROVE  Fills' = Fills
<1>1. PICK f : f = [o \in Booked |-> Signed(o)]
  OBVIOUS
<1>2. PICK g : g = [o \in Booked |-> Signed(o)]'
  OBVIOUS
<1>3. f = g
  BY <1>1, <1>2 DEF Signed
<1> QED BY <1>1, <1>2, <1>3 DEF Fills

-----------------------------------------------------------------------------
(* The steps.                                                               *)
LEMMA ShapeKept ==
  ASSUME Shape, [Next]_vars
  PROVE  Shape'
<1> SUFFICES ASSUME Shape, Next PROVE Shape'
  BY DEF vars, Shape
<1> USE EntryAssumption DEF Shape, GoTo
<1>1. ASSUME NEW o \in Orders, NEW side \in {"buy", "sell"}, NEW qty \in 1..MaxQty,
             ReadBooks(o, side, qty)
      PROVE  Shape'
  <2>1. Equity \in Int /\ Gross \in Int
    BY BooksType, ValueAndExposure DEF Equity
  <2>2. summary' \in [Orders -> [equity : Int, gross : Int]]
    BY <1>1, <2>1 DEF ReadBooks
  <2>3. pc' \in [Orders -> {"new"} \cup UnderWay \cup Ended]
    BY <1>1 DEF ReadBooks, UnderWay
  <2>4. ticket' \in [Orders -> [side : {"buy", "sell"}, qty : Nat]]
    BY <1>1 DEF ReadBooks
  <2> QED BY <1>1, <2>2, <2>3, <2>4 DEF ReadBooks
<1>2. ASSUME NEW o \in Orders, ReadEquity(o) PROVE Shape'
  <2>1. Equity \in Int
    BY BooksType, ValueAndExposure DEF Equity
  <2>2. summary' \in [Orders -> [equity : Int, gross : Int]]
    BY <1>2, <2>1 DEF ReadEquity
  <2>3. pc' \in [Orders -> {"new"} \cup UnderWay \cup Ended]
    BY <1>2 DEF ReadEquity, UnderWay
  <2> QED BY <1>2, <2>2, <2>3 DEF ReadEquity
<1>3. ASSUME NEW o \in Orders,
             Authorize(o) \/ Refuse(o) \/ Reject(o) \/ Throttle(o) \/ Fill(o) \/ WriteTrade(o)
             \/ RaiseOnRow(o)
      PROVE  Shape'
  <2>1. UNCHANGED <<rows, ticket, summary, found>>
    BY <1>3 DEF Authorize, Refuse, Reject, Throttle, Fill, WriteTrade, RaiseOnRow
  <2>2. pc' \in [Orders -> {"new"} \cup UnderWay \cup Ended]
    BY <1>3 DEF Authorize, Refuse, Reject, Throttle, Fill, WriteTrade, RaiseOnRow,
                UnderWay, Ended
  <2> QED BY <2>1, <2>2
<1>4. ASSUME NEW o \in Orders, ReadRow(o) PROVE Shape'
  <2>1. pc' \in [Orders -> {"new"} \cup UnderWay \cup Ended]
    BY <1>4 DEF ReadRow, UnderWay
  <2>2. rows # <<>> => Head(rows) \in Int
    OBVIOUS
  <2>3. found' \in [Orders -> {NoRow} \cup {{q} : q \in Int}]
    BY <1>4, <2>2 DEF ReadRow
  <2> QED BY <1>4, <2>1, <2>3 DEF ReadRow
<1>5. ASSUME NEW o \in Orders, WriteRow(o) PROVE Shape'
  <2>1. pc' \in [Orders -> {"new"} \cup UnderWay \cup Ended]
    BY <1>5 DEF WriteRow, Ended
  <2>2. rows' \in Seq(Int) /\ rows' # <<>>
    <3>1. PICK n \in Int : n = Signed(o)
      BY SignedType
    <3>2. CASE found[o] = NoRow
      BY <1>5, <3>1, <3>2, AppendProperties DEF WriteRow, RowsAfter
    <3>3. CASE found[o] # NoRow
      <4>1. PICK q \in Int : found[o] = {q}
        BY <3>3
      <4>2. (CHOOSE x \in found[o] : TRUE) = q
        BY <4>1
      <4>3. rows' = <<q + n>> \o Tail(rows)
        BY <1>5, <3>1, <3>3, <4>2 DEF WriteRow, RowsAfter
      <4>4. Tail(rows) \in Seq(Int)
        BY <3>3, HeadTailProperties
      <4>5. <<q + n>> \in Seq(Int) /\ Len(<<q + n>>) = 1
        OBVIOUS
      <4>6. rows' \in Seq(Int) /\ Len(rows') = 1 + Len(Tail(rows)) /\ Len(Tail(rows)) \in Nat
        BY <4>3, <4>4, <4>5, ConcatProperties
      <4>7. Len(rows') # 0 /\ Len(<<>>) = 0
        BY <4>6
      <4> QED BY <4>6, <4>7
    <3> QED BY <3>2, <3>3
  <2> QED BY <1>5, <2>1, <2>2 DEF WriteRow
<1>6. ASSUME Engage \/ Disengage PROVE Shape'
  BY <1>6 DEF Engage, Disengage
<1> QED BY <1>1, <1>2, <1>3, <1>4, <1>5, <1>6 DEF Next, OrderStep

(* Passed concerns the order that moves, and what it has read.              *)
LEMMA PassedKept ==
  ASSUME Shape, Passed, [Next]_vars
  PROVE  Passed'
<1> SUFFICES ASSUME Next PROVE Passed'
  BY DEF vars, Passed, WithinCaps
<1> USE EntryAssumption DEF Shape, Passed, WithinCaps, GoTo
<1>1. ASSUME NEW o \in Orders, NEW side \in {"buy", "sell"}, NEW qty \in 1..MaxQty,
             ReadBooks(o, side, qty)
      PROVE  Passed'
  <2>1. \A d \in Orders : d # o => /\ pc'[d] = pc[d] /\ ticket'[d] = ticket[d]
                                   /\ summary'[d] = summary[d]
    BY <1>1 DEF ReadBooks
  <2>2. pc'[o] \in {"equity", "gate"}
    BY <1>1 DEF ReadBooks
  <2> QED BY <2>1, <2>2
<1>2. ASSUME NEW o \in Orders, ReadEquity(o) PROVE Passed'
  <2>1. \A d \in Orders : d # o => /\ pc'[d] = pc[d] /\ ticket'[d] = ticket[d]
                                   /\ summary'[d] = summary[d]
    BY <1>2 DEF ReadEquity
  <2>2. pc'[o] = "gate"
    BY <1>2 DEF ReadEquity
  <2> QED BY <2>1, <2>2
<1>3. ASSUME NEW o \in Orders,
             Authorize(o) \/ Refuse(o) \/ Reject(o) \/ Throttle(o) \/ Fill(o) \/ WriteTrade(o)
             \/ ReadRow(o) \/ RaiseOnRow(o) \/ WriteRow(o)
      PROVE  Passed'
  <2>1. UNCHANGED <<ticket, summary>> /\ \A d \in Orders : d # o => pc'[d] = pc[d]
    BY <1>3 DEF Authorize, Refuse, Reject, Throttle, Fill, WriteTrade, ReadRow, RaiseOnRow,
                WriteRow
  <2>2. /\ pc'[o] \in {"send", "trade", "read", "write"} =>
             pc[o] \in {"send", "trade", "read", "write"} \/ WithinCaps(o)
        /\ pc'[o] \in {"trade", "read", "write"} =>
             pc[o] \in {"trade", "read", "write"} \/ ticket[o].qty <= MaxNotional
    BY <1>3 DEF Authorize, Refuse, Reject, Throttle, Fill, WriteTrade, ReadRow, RaiseOnRow,
                WriteRow
  <2> QED BY <2>1, <2>2
<1>4. ASSUME Engage \/ Disengage PROVE Passed'
  BY <1>4 DEF Engage, Disengage
<1> QED BY <1>1, <1>2, <1>3, <1>4 DEF Next, OrderStep

(* A step that neither reads nor writes a row.                              *)
LEMMA BooksQuiet ==
  ASSUME Shape, BooksInv, UNCHANGED <<rows, found, raced>>, NEW o \in Orders,
         pc[o] # "write", pc[o] # "booked", pc'[o] # "write", pc'[o] # "booked",
         \A d \in Orders : d # o => pc'[d] = pc[d] /\ ticket'[d] = ticket[d]
  PROVE  BooksInv'
<1> SUFFICES ASSUME ~raced PROVE (OneHolds /\ HeldIsHead /\ Value = Fills)'
  BY DEF BooksInv
<1>1. OneHolds /\ HeldIsHead /\ Value = Fills
  BY DEF BooksInv
<1>2. \A d \in Orders : Holds(d)' <=> Holds(d)
  BY DEF Holds
<1>3. OneHolds' /\ HeldIsHead'
  BY <1>1, <1>2 DEF OneHolds, HeldIsHead
<1>4. Booked' = Booked /\ \A d \in Booked : ticket'[d] = ticket[d]
  BY DEF Booked
<1>5. Fills' = Fills /\ Value' = Value
  BY <1>4, FillsStay, BooksStay
<1> QED BY <1>1, <1>3, <1>5

LEMMA BooksAfterReadRow ==
  ASSUME Shape, BooksInv, NEW o \in Orders, ReadRow(o)
  PROVE  BooksInv'
<1> SUFFICES ASSUME ~raced' PROVE (OneHolds /\ HeldIsHead /\ Value = Fills)'
  BY DEF BooksInv
<1> USE DEF ReadRow, GoTo, Shape
<1>1. ~raced /\ OneHolds /\ HeldIsHead /\ Value = Fills
  BY DEF BooksInv
<1>2. rows # <<>> => \A d \in Orders : ~Holds(d)
  BY <1>1 DEF Holds
<1>3. rows = <<>> => \A d \in Orders : ~Holds(d)
  BY <1>1 DEF HeldIsHead
<1>4. \A d \in Orders : Holds(d)' => d = o /\ rows # <<>> /\ found'[o] = {Head(rows)}
  BY <1>2, <1>3 DEF Holds
<1>5. OneHolds' /\ HeldIsHead'
  BY <1>4 DEF OneHolds, HeldIsHead
<1>6. Booked' = Booked /\ ticket' = ticket
  BY DEF Booked
<1>7. Fills' = Fills /\ Value' = Value
  BY <1>6, FillsStay, BooksStay
<1> QED BY <1>1, <1>5, <1>7

(* What a write does, when the row it has read is still there.              *)
LEMMA WriteAdds ==
  ASSUME Shape, NEW o \in Orders, WriteRow(o),
         found[o] # NoRow => rows # <<>> /\ found[o] = {Head(rows)}
  PROVE  /\ Value' = Value + Signed(o)
         /\ Gross' <= Gross + Abs(Signed(o))
         /\ rows # <<>> => found[o] # NoRow \/ Head(rows') = Head(rows)
<1> USE DEF Shape
<1>1. PICK n \in Int : n = Signed(o)
  BY SignedType
<1>2. Abs(n) \in Int /\ Exposure(rows) \in Int
  BY BooksType DEF Abs
<1>3. CASE found[o] = NoRow
  <2>1. rows' = Append(rows, n)
    BY <1>1, <1>3 DEF WriteRow, RowsAfter
  <2>2. Value' = Value + n /\ Gross' = Gross + Abs(n)
    BY <2>1, RowAdded, ValueAndExposure
  <2>3. rows # <<>> => Head(rows') = Head(rows)
    BY <2>1, HeadTailAppend
  <2> QED BY <1>1, <1>2, <2>2, <2>3, ValueAndExposure
<1>4. CASE found[o] # NoRow
  <2>1. (CHOOSE q \in found[o] : TRUE) = Head(rows)
    BY <1>4
  <2>2. rows' = <<Head(rows) + n>> \o Tail(rows)
    BY <1>1, <1>4, <2>1 DEF WriteRow, RowsAfter
  <2>3. Value' = Value + n /\ Gross' <= Gross + Abs(n)
    BY <1>4, <2>2, RowUpdated, ValueAndExposure
  <2> QED BY <1>1, <1>4, <2>3
<1> QED BY <1>3, <1>4

LEMMA BooksAfterWriteRow ==
  ASSUME Shape, BooksInv, NEW o \in Orders, WriteRow(o)
  PROVE  BooksInv'
<1> SUFFICES ASSUME ~raced' PROVE (OneHolds /\ HeldIsHead /\ Value = Fills)'
  BY DEF BooksInv
<1> USE DEF Shape, GoTo
<1>1. ~raced /\ OneHolds /\ HeldIsHead /\ Value = Fills
  BY DEF BooksInv, WriteRow
<1>2. /\ pc[o] = "write" /\ pc'[o] = "booked" /\ found' = found /\ ticket' = ticket
      /\ \A d \in Orders : d # o => pc'[d] = pc[d]
  BY DEF WriteRow
<1>3. found[o] # NoRow => rows # <<>> /\ found[o] = {Head(rows)}
  BY <1>1, <1>2 DEF HeldIsHead, Holds
<1>4. /\ Value' = Value + Signed(o)
      /\ rows # <<>> => found[o] # NoRow \/ Head(rows') = Head(rows)
  BY <1>3, WriteAdds
<1>5. \A d \in Orders : Holds(d)' => Holds(d) /\ d # o
  BY <1>2 DEF Holds
<1>6. OneHolds'
  BY <1>1, <1>5 DEF OneHolds
<1>7. HeldIsHead'
  <2> SUFFICES ASSUME NEW d \in Orders, Holds(d)'
               PROVE  rows' # <<>> /\ found'[d] = {Head(rows')}
    BY DEF HeldIsHead
  <2>1. Holds(d) /\ d # o /\ ~Holds(o)
    BY <1>1, <1>5 DEF OneHolds
  <2>2. found[o] = NoRow
    BY <1>2, <2>1 DEF Holds
  <2>3. rows # <<>> /\ found[d] = {Head(rows)}
    BY <1>1, <2>1 DEF HeldIsHead
  <2>4. rows' # <<>>
    <3>1. Next
      BY DEF Next, OrderStep
    <3>2. Shape'
      BY <3>1, ShapeKept
    <3>3. found'[d] # NoRow
      BY <1>2, <2>3 DEF NoRow
    <3> QED BY <3>2, <3>3
  <2> QED BY <1>2, <1>4, <2>2, <2>3, <2>4
<1>8. Fills' = Fills + Signed(o)
  <2>1. PICK f : f = [d \in Booked |-> Signed(d)]
    OBVIOUS
  <2>2. PICK g : g = [d \in Booked |-> Signed(d)]'
    OBVIOUS
  <2>3. o \notin Booked /\ Booked' = Booked \cup {o} /\ IsFiniteSet(Booked)
    <3>1. IsFiniteSet(Orders)
      BY EntryAssumption, FS_Union DEF Orders
    <3>2. Booked \in SUBSET Orders
      BY DEF Booked
    <3>3. IsFiniteSet(Booked)
      BY <3>1, <3>2, FS_Subset
    <3> QED BY <1>2, <3>3 DEF Booked
  <2>4. /\ DOMAIN f = Booked /\ DOMAIN g = Booked \cup {o} /\ g[o] = Signed(o)
        /\ \A d \in Booked : f[d] = Signed(d) /\ f[d] = g[d]
    BY <1>2, <2>1, <2>2, <2>3 DEF Signed
  <2>5. \A d \in Orders : Signed(d) \in Int
    BY SignedType
  <2>6. /\ g[o] \in Int /\ \A d \in Booked : f[d] \in Int /\ f[d] = g[d]
    BY <2>4, <2>5 DEF Booked
  <2>7. SumFunctionOnSet(g, Booked \cup {o}) = SumFunctionOnSet(f, Booked) + g[o]
    BY <2>3, <2>6, SumGrows
  <2>8. Fills = SumFunctionOnSet(f, Booked) /\ Fills' = SumFunctionOnSet(g, Booked \cup {o})
    BY <2>1, <2>2, <2>4 DEF Fills, SumFunction
  <2> QED BY <2>4, <2>7, <2>8
<1> QED BY <1>1, <1>4, <1>6, <1>7, <1>8

LEMMA BooksKept ==
  ASSUME Shape, BooksInv, [Next]_vars
  PROVE  BooksInv'
<1>1. ASSUME UNCHANGED <<rows, pc, ticket, found, raced>> PROVE BooksInv'
  <2>1. Fills' = Fills /\ Value' = Value
    BY <1>1, FillsStay, BooksStay DEF Booked
  <2> QED BY <1>1, <2>1 DEF BooksInv, OneHolds, HeldIsHead, Holds
<1>2. CASE UNCHANGED vars
  BY <1>1, <1>2 DEF vars
<1>3. CASE Next
  <2>1. ASSUME NEW o \in Orders,
               (\E side \in {"buy", "sell"}, qty \in 1..MaxQty : ReadBooks(o, side, qty))
               \/ ReadEquity(o) \/ Authorize(o) \/ Refuse(o) \/ Reject(o) \/ Throttle(o)
               \/ Fill(o) \/ WriteTrade(o) \/ RaiseOnRow(o)
        PROVE  BooksInv'
    <3>1. /\ UNCHANGED <<rows, found, raced>>
          /\ pc[o] # "write" /\ pc[o] # "booked" /\ pc'[o] # "write" /\ pc'[o] # "booked"
          /\ \A d \in Orders : d # o => pc'[d] = pc[d] /\ ticket'[d] = ticket[d]
      BY <2>1 DEF Shape, ReadBooks, ReadEquity, Authorize, Refuse, Reject, Throttle, Fill,
                  WriteTrade, RaiseOnRow, GoTo
    <3> QED BY <3>1, BooksQuiet
  <2>2. ASSUME NEW o \in Orders, ReadRow(o) PROVE BooksInv'
    BY <2>2, BooksAfterReadRow
  <2>3. ASSUME NEW o \in Orders, WriteRow(o) PROVE BooksInv'
    BY <2>3, BooksAfterWriteRow
  <2>4. CASE Engage \/ Disengage
    BY <1>1, <2>4 DEF Engage, Disengage
  <2> QED BY <1>3, <2>1, <2>2, <2>3, <2>4 DEF Next, OrderStep
<1> QED BY <1>2, <1>3

-----------------------------------------------------------------------------
(* The cap.  A step that writes no row, of the one order under way.         *)
LEMMA CapQuiet ==
  ASSUME Shape, CapInv, UNCHANGED <<rows, ticket, overlapped>>, NEW o \in Orders,
         pc[o] \in UnderWay, \A d \in Orders : d # o => pc'[d] = pc[d],
         raced' => raced \/ \E d \in Orders : pc[d] = "write" /\ pc[o] = "read",
         summary' = summary \/ summary' = [summary EXCEPT ![o].equity = Equity]
  PROVE  CapInv'
<1> SUFFICES ASSUME ~overlapped PROVE (~raced /\ OneUnderWay /\ ReadIsCurrent /\ BelowCap)'
  BY DEF CapInv
<1>1. ~raced /\ OneUnderWay /\ ReadIsCurrent /\ BelowCap
  BY DEF CapInv
<1>2. \A d \in Orders : pc[d] \in UnderWay => d = o
  BY <1>1 DEF OneUnderWay
<1>3. ~raced'
  <2>1. \A d \in Orders : pc[d] = "write" => pc[o] # "read"
    BY <1>2 DEF UnderWay
  <2> QED BY <1>1, <2>1
<1>4. OneUnderWay'
  BY <1>2 DEF OneUnderWay
<1>5. Equity' = Equity /\ Gross' = Gross
  BY BooksStay
<1>6. summary' = summary
  <2>1. summary[o] = [equity |-> Equity, gross |-> Gross]
    BY <1>1 DEF ReadIsCurrent
  <2>2. summary \in [Orders -> [equity : Int, gross : Int]]
    BY DEF Shape
  <2>3. PICK e, g : e = Equity /\ g = Gross
    OBVIOUS
  <2>4. [summary EXCEPT ![o].equity = e] = summary
    BY <2>1, <2>2, <2>3
  <2> QED BY <2>3, <2>4
<1>7. ReadIsCurrent'
  <2> SUFFICES ASSUME NEW d \in Orders, pc'[d] \in UnderWay
               PROVE  summary'[d] = [equity |-> Equity', gross |-> Gross']
    BY DEF ReadIsCurrent
  <2>1. d = o
    BY <1>2
  <2> QED BY <1>1, <1>5, <1>6, <2>1 DEF ReadIsCurrent
<1>8. BelowCap'
  BY <1>1, <1>5 DEF BelowCap
<1> QED BY <1>3, <1>4, <1>7, <1>8

LEMMA CapAfterReadBooks ==
  ASSUME Shape, CapInv, NEW o \in Orders, NEW side \in {"buy", "sell"},
         NEW qty \in 1..MaxQty, ReadBooks(o, side, qty)
  PROVE  CapInv'
<1> SUFFICES ASSUME ~overlapped' PROVE (~raced /\ OneUnderWay /\ ReadIsCurrent /\ BelowCap)'
  BY DEF CapInv
<1> USE DEF Shape, ReadBooks, GoTo
<1>1. ~overlapped /\ ~raced /\ \A d \in Orders : pc[d] \notin UnderWay
  BY DEF CapInv
<1>2. ~raced' /\ BelowCap
  BY <1>1 DEF CapInv
<1>3. \A d \in Orders : pc'[d] \in UnderWay => d = o
  BY <1>1
<1>4. OneUnderWay'
  BY <1>3 DEF OneUnderWay
<1>5. Equity' = Equity /\ Gross' = Gross
  BY BooksStay
<1>6. summary'[o] = [equity |-> Equity, gross |-> Gross]
  OBVIOUS
<1>7. ReadIsCurrent'
  BY <1>3, <1>5, <1>6 DEF ReadIsCurrent
<1>8. BelowCap'
  BY <1>2, <1>5 DEF BelowCap
<1> QED BY <1>2, <1>4, <1>7, <1>8

LEMMA TimesIsMonotone ==
  ASSUME NEW a \in Int, NEW b \in Int, a <= b, NEW p \in Nat
  PROVE  a * p <= b * p
<1>1. PICK d \in Nat : b = a + d
  <2>1. b - a \in Nat /\ b = a + (b - a)
    OBVIOUS
  <2> QED BY <2>1
<1>2. b * p = a * p + d * p /\ d * p \in Nat /\ a * p \in Int
  BY <1>1
<1> QED BY <1>2

LEMMA CapArithmetic ==
  ASSUME NEW e \in Int, NEW f \in Int, NEW g \in Int, NEW h \in Int,
         NEW n \in Nat, NEW m \in Nat, NEW p \in Nat,
         h <= g + n, e <= f + n, n <= m, (g + n) * 100 <= e * p
  PROVE  h * 100 <= (f + m) * p
<1>1. e <= f + m /\ f + m \in Int
  OBVIOUS
<1>2. PICK x \in Int, y \in Int : x = e * p /\ y = (f + m) * p
  OBVIOUS
<1>3. x <= y
  BY <1>1, <1>2, TimesIsMonotone
<1>4. (g + n) * 100 <= x
  BY <1>2
<1>5. h * 100 <= y
  BY <1>3, <1>4
<1> QED BY <1>2, <1>5

(* The order that was authorized adds at most its size to the exposure, and *)
(* takes at most its size from the equity.                                  *)
LEMMA CapAfterWriteRow ==
  ASSUME Shape, BooksInv, Passed, CapInv, NEW o \in Orders, WriteRow(o)
  PROVE  CapInv'
<1> SUFFICES ASSUME ~overlapped' PROVE (~raced /\ OneUnderWay /\ ReadIsCurrent /\ BelowCap)'
  BY DEF CapInv
<1> USE EntryAssumption
<1>1. ~overlapped /\ ~raced /\ OneUnderWay /\ ReadIsCurrent /\ HeldIsHead
  BY DEF WriteRow, CapInv, BooksInv
<1>2. /\ pc[o] = "write" /\ pc'[o] = "booked" /\ raced' = raced
      /\ \A d \in Orders : d # o => pc'[d] = pc[d]
  BY DEF WriteRow, GoTo, Shape
<1>3. \A d \in Orders : pc'[d] \notin UnderWay
  BY <1>1, <1>2 DEF OneUnderWay, UnderWay
<1>4. OneUnderWay' /\ ReadIsCurrent'
  BY <1>3 DEF OneUnderWay, ReadIsCurrent
<1>5. found[o] # NoRow => rows # <<>> /\ found[o] = {Head(rows)}
  BY <1>1, <1>2 DEF HeldIsHead, Holds
<1>6. PICK n \in Nat : n = ticket[o].qty /\ Abs(Signed(o)) = n /\ Signed(o) >= -n
  BY SignedType DEF Signed
<1>7. Equity \in Int /\ Gross \in Int /\ Gross' \in Int /\ Value \in Int /\ Value' \in Int
  <2>1. Shape'
    <3>1. Next
      BY DEF Next, OrderStep
    <3> QED BY <3>1, ShapeKept
  <2>2. rows \in Seq(Int) /\ rows' \in Seq(Int)
    BY <2>1 DEF Shape
  <2> QED BY <2>2, BooksType, ValueAndExposure DEF Equity
<1>8. Value' = Value + Signed(o) /\ Gross' <= Gross + Abs(Signed(o))
  BY <1>5, WriteAdds
<1>9. Gross' <= Gross + n /\ Equity <= Equity' + n
  <2>1. Signed(o) \in Int
    BY SignedType
  <2> QED BY <1>6, <1>7, <1>8, <2>1 DEF Equity
<1>10. n <= MaxNotional
  BY <1>2, <1>6 DEF Passed
<1>11. (Gross + n) * 100 <= Equity * GrossPct
  <2>1. summary[o] = [equity |-> Equity, gross |-> Gross]
    BY <1>1, <1>2 DEF ReadIsCurrent, UnderWay
  <2>2. summary[o].equity = Equity /\ summary[o].gross = Gross
    BY <2>1
  <2>3. WithinCaps(o)
    BY <1>2 DEF Passed
  <2> QED BY <1>6, <2>2, <2>3 DEF WithinCaps
<1>12. BelowCap'
  <2>1. PICK e \in Int, f \in Int, g \in Int, h \in Int :
          e = Equity /\ f = Equity' /\ g = Gross /\ h = Gross'
    <3>1. Equity' \in Int
      BY <1>7 DEF Equity
    <3> QED BY <1>7, <3>1
  <2>2. h <= g + n /\ e <= f + n /\ (g + n) * 100 <= e * GrossPct
    BY <1>9, <1>11, <2>1
  <2>3. GrossPct \in Nat /\ MaxNotional \in Nat
    OBVIOUS
  <2>4. h * 100 <= (f + MaxNotional) * GrossPct
    BY <1>10, <2>2, <2>3, CapArithmetic
  <2> QED BY <2>1, <2>4 DEF BelowCap
<1> QED BY <1>1, <1>2, <1>4, <1>12

LEMMA CapKept ==
  ASSUME Shape, BooksInv, Passed, CapInv, [Next]_vars
  PROVE  CapInv'
<1>1. ASSUME UNCHANGED <<rows, pc, ticket, summary, overlapped, raced>> PROVE CapInv'
  <2>1. Equity' = Equity /\ Gross' = Gross
    BY <1>1, BooksStay
  <2> QED BY <1>1, <2>1 DEF CapInv, OneUnderWay, ReadIsCurrent, BelowCap
<1>2. CASE UNCHANGED vars
  BY <1>1, <1>2 DEF vars
<1>3. CASE Next
  <2>1. ASSUME NEW o \in Orders, NEW side \in {"buy", "sell"}, NEW qty \in 1..MaxQty,
               ReadBooks(o, side, qty)
        PROVE  CapInv'
    BY <2>1, CapAfterReadBooks
  <2>2. ASSUME NEW o \in Orders,
               ReadEquity(o) \/ Authorize(o) \/ Refuse(o) \/ Reject(o) \/ Throttle(o)
               \/ Fill(o) \/ WriteTrade(o) \/ ReadRow(o) \/ RaiseOnRow(o)
        PROVE  CapInv'
    <3>1. /\ UNCHANGED <<rows, ticket, overlapped>> /\ pc[o] \in UnderWay
          /\ \A d \in Orders : d # o => pc'[d] = pc[d]
      BY <2>2 DEF Shape, ReadEquity, Authorize, Refuse, Reject, Throttle, Fill, WriteTrade,
                  ReadRow, RaiseOnRow, GoTo, UnderWay
    <3>2. raced' => raced \/ \E d \in Orders : pc[d] = "write" /\ pc[o] = "read"
      BY <2>2 DEF ReadEquity, Authorize, Refuse, Reject, Throttle, Fill, WriteTrade,
                  ReadRow, RaiseOnRow
    <3>3. summary' = summary \/ summary' = [summary EXCEPT ![o].equity = Equity]
      BY <2>2 DEF ReadEquity, Authorize, Refuse, Reject, Throttle, Fill, WriteTrade,
                  ReadRow, RaiseOnRow
    <3> QED BY <3>1, <3>2, <3>3, CapQuiet
  <2>3. ASSUME NEW o \in Orders, WriteRow(o) PROVE CapInv'
    BY <2>3, CapAfterWriteRow
  <2>4. CASE Engage \/ Disengage
    BY <1>1, <2>4 DEF Engage, Disengage
  <2> QED BY <1>3, <2>1, <2>2, <2>3, <2>4 DEF Next, OrderStep
<1> QED BY <1>2, <1>3

LEMMA EntryIsInductive == Spec => []EntryInv
<1>1. Init => EntryInv
  BY EntryInitially
<1>2. EntryInv /\ [Next]_vars => EntryInv'
  BY ShapeKept, PassedKept, BooksKept, CapKept DEF EntryInv
<1> QED BY <1>1, <1>2, PTL DEF Spec

(* As long as no two orders hold a row at once, the rows add up to the      *)
(* fills (fill_trade), for any number of orders.                            *)
THEOREM RowsAddUpToFills == Spec => []BooksAreTheFills
<1>1. EntryInv => BooksAreTheFills
  BY DEF EntryInv, BooksInv, Fills, BooksAreTheFills
<1> QED BY <1>1, EntryIsInductive, PTL

(* As long as no order reads the books while another is under way, the      *)
(* exposure stays below the cap (authorize_order), whatever the limits.     *)
THEOREM CapHoldsWithoutOverlap == Spec => []CapOnlyOverrunByOverlap
<1>1. EntryInv => CapOnlyOverrunByOverlap
  BY DEF EntryInv, CapInv, BelowCap, CapOnlyOverrunByOverlap
<1> QED BY <1>1, EntryIsInductive, PTL

-----------------------------------------------------------------------------
(* The live feed.                                                           *)
Kinds == Live!Switch \cup {"other"}

FeedShape ==
  /\ circuit \in Live!Switch
  /\ event \in [Retail -> Kinds]
  /\ place \in [Retail -> {"idle", "publish", "offer", "drop", "again"}]
  /\ targets \in [Retail -> SUBSET Pages]
  /\ slow \in [Retail -> Pages \cup {Live!AnySlow}]
  /\ queue \in [Pages -> Seq(Kinds)]
  /\ stream \in [Pages -> {"new", "subscribed", "open"}]
  /\ told \in [Pages -> Live!Switch \cup {"nothing", "unready"}]
  /\ subscribers = {s \in Pages : stream[s] # "new"}

(* Requests serve the subscribers; a page that has gone leaves nothing.     *)
FeedServes ==
  /\ \A t \in Retail : targets[t] \subseteq subscribers
  /\ \A t \in Retail : place[t] \in {"drop", "again"} => slow[t] \in targets[t]
  /\ \A s \in Pages : stream[s] = "new" => queue[s] = <<>>

(* Without doubt one request has to tell of the switch, as it is.           *)
OneCommand ==
  ~doubt => \A c, d \in Live!Commanding : c = d /\ event[c] = circuit

(* It still has to tell page s; else what the page will be told at last is  *)
(* the state of the switch.                                                 *)
Owed(s) == \E c \in Live!Commanding : place[c] = "publish" \/ s \in targets[c]
EndsWith(q, v) ==
  \A i \in DOMAIN q : q[i] \in Live!Switch /\ q[i] # v => \E j \in DOMAIN q : j > i /\ q[j] = v
Knows(s) ==
  /\ EndsWith(queue[s], circuit)
  /\ stream[s] = "open" /\ ~Live!Tells(queue[s]) => told[s] \in {circuit, "unready"}
AllKnow == ~doubt => \A s \in Pages : Owed(s) \/ Knows(s)

FeedInv == FeedShape /\ FeedServes /\ OneCommand /\ AllKnow

LEMMA AddedLast ==
  ASSUME NEW q \in Seq(Kinds), NEW e \in Kinds
  PROVE  /\ Append(q, e) \in Seq(Kinds)
         /\ e \in Live!Switch => EndsWith(Append(q, e), e) /\ Live!Tells(Append(q, e))
         /\ e \notin Live!Switch => /\ Live!Tells(Append(q, e)) <=> Live!Tells(q)
                                    /\ \A v \in Live!Switch :
                                         EndsWith(q, v) => EndsWith(Append(q, e), v)
<1>1. PICK r \in Seq(Kinds) : r = Append(q, e)
  BY AppendProperties
<1>2. PICK n \in Nat : n = Len(q)
  OBVIOUS
<1>3. /\ DOMAIN r = 1..(n + 1) /\ DOMAIN q = 1..n
      /\ r[n + 1] = e /\ \A i \in 1..n : r[i] = q[i]
  BY <1>1, <1>2, AppendProperties
<1>4. e \in Live!Switch => EndsWith(r, e) /\ Live!Tells(r)
  <2> SUFFICES ASSUME e \in Live!Switch PROVE EndsWith(r, e) /\ Live!Tells(r)
    OBVIOUS
  <2>1. n + 1 \in DOMAIN r /\ \A i \in DOMAIN r : r[i] # e => n + 1 > i
    BY <1>3
  <2> QED BY <1>3, <2>1 DEF EndsWith, Live!Tells
<1>5. e \notin Live!Switch => (Live!Tells(r) <=> Live!Tells(q))
  BY <1>3 DEF Live!Tells
<1>6. ASSUME e \notin Live!Switch, NEW v \in Live!Switch, EndsWith(q, v)
      PROVE  EndsWith(r, v)
  <2> SUFFICES ASSUME NEW i \in DOMAIN r, r[i] \in Live!Switch, r[i] # v
               PROVE  \E j \in DOMAIN r : j > i /\ r[j] = v
    BY DEF EndsWith
  <2>1. i \in 1..n /\ q[i] = r[i]
    BY <1>3, <1>6
  <2>2. PICK j \in DOMAIN q : j > i /\ q[j] = v
    BY <1>3, <1>6, <2>1 DEF EndsWith
  <2> QED BY <1>3, <2>2
<1> QED BY <1>1, <1>4, <1>5, <1>6

LEMMA TakenFirst ==
  ASSUME NEW q \in Seq(Kinds), q # <<>>
  PROVE  /\ Tail(q) \in Seq(Kinds) /\ Head(q) \in Kinds
         /\ Head(q) \notin Live!Switch => (Live!Tells(q) <=> Live!Tells(Tail(q)))
         /\ \A v : EndsWith(q, v) =>
              /\ EndsWith(Tail(q), v)
              /\ v \in Live!Switch /\ Head(q) \in Live!Switch =>
                   Live!Tells(Tail(q)) \/ Head(q) = v
<1>1. PICK r \in Seq(Kinds) : r = Tail(q)
  BY HeadTailProperties
<1>2. PICK n \in Nat : n = Len(r)
  OBVIOUS
<1>3. /\ DOMAIN q = 1..(n + 1) /\ DOMAIN r = 1..n
      /\ q[1] = Head(q) /\ \A i \in 1..n : r[i] = q[i + 1]
  BY <1>1, <1>2, HeadTailProperties
<1>4. Head(q) \in Kinds
  BY HeadTailProperties
<1>5. \A i \in DOMAIN q : i # 1 => i - 1 \in DOMAIN r /\ r[i - 1] = q[i]
  BY <1>3
<1>6. Head(q) \notin Live!Switch => (Live!Tells(q) <=> Live!Tells(r))
  <2> SUFFICES ASSUME Head(q) \notin Live!Switch PROVE Live!Tells(q) <=> Live!Tells(r)
    OBVIOUS
  <2>1. ASSUME NEW i \in DOMAIN q, q[i] \in Live!Switch PROVE Live!Tells(r)
    BY <1>3, <1>5, <2>1 DEF Live!Tells
  <2>2. ASSUME NEW i \in DOMAIN r, r[i] \in Live!Switch PROVE Live!Tells(q)
    <3>1. i + 1 \in DOMAIN q /\ q[i + 1] = r[i]
      BY <1>3
    <3> QED BY <2>2, <3>1 DEF Live!Tells
  <2> QED BY <2>1, <2>2 DEF Live!Tells
<1>7. ASSUME NEW v, EndsWith(q, v) PROVE EndsWith(r, v)
  <2> SUFFICES ASSUME NEW i \in DOMAIN r, r[i] \in Live!Switch, r[i] # v
               PROVE  \E j \in DOMAIN r : j > i /\ r[j] = v
    BY DEF EndsWith
  <2>1. i + 1 \in DOMAIN q /\ q[i + 1] = r[i]
    BY <1>3
  <2>2. PICK j \in DOMAIN q : j > i + 1 /\ q[j] = v
    BY <1>7, <2>1 DEF EndsWith
  <2>3. j - 1 \in DOMAIN r /\ r[j - 1] = v /\ j - 1 > i
    BY <1>3, <1>5, <2>2
  <2> QED BY <2>3
<1>8. ASSUME NEW v \in Live!Switch, EndsWith(q, v), Head(q) \in Live!Switch, Head(q) # v
      PROVE  Live!Tells(r)
  <2>1. PICK j \in DOMAIN q : j > 1 /\ q[j] = v
    <3>1. 1 \in DOMAIN q
      BY <1>3
    <3> QED BY <1>3, <1>8, <3>1 DEF EndsWith
  <2> QED BY <1>5, <1>8, <2>1 DEF Live!Tells
<1> QED BY <1>1, <1>4, <1>6, <1>7, <1>8

LEMMA FeedInitially == Live!Init => FeedInv
<1> SUFFICES ASSUME Live!Init PROVE FeedInv
  OBVIOUS
<1> USE DEF Live!Init
<1>1. FeedShape
  BY DEF FeedShape, Live!Switch, Kinds
<1>2. FeedServes
  BY DEF FeedServes
<1>3. OneCommand
  BY DEF OneCommand, Live!Commanding
<1>4. AllKnow
  BY DEF AllKnow, Knows, EndsWith
<1> QED BY <1>1, <1>2, <1>3, <1>4 DEF FeedInv

(* The steps of the feed.                                                   *)
LEMMA FeedShapeKept ==
  ASSUME FeedShape, FeedServes, Live!Next
  PROVE  FeedShape'
<1> USE FacesAssumption DEF FeedShape, Live!requests, Live!pages, Live!GoTo
<1> DEFINE Begun(t, what) ==
      /\ event' = [event EXCEPT ![t] = what] /\ place' = [place EXCEPT ![t] = "publish"]
      /\ UNCHANGED <<targets, slow, subscribers, queue, stream, told>>
<1>1. CASE Live!Trip
  BY <1>1 DEF Live!Trip, Live!Switch
<1>2. ASSUME NEW t \in Retail, NEW on \in Live!Switch, Live!Command(t, on) PROVE FeedShape'
  <2>1. Begun(t, on) /\ circuit' = on
    BY <1>2 DEF Live!Command, Live!Begin
  <2>2. event' \in [Retail -> Kinds]
    BY <2>1 DEF Kinds
  <2> QED BY <2>1, <2>2
<1>3. ASSUME NEW t \in Retail, Live!Announce(t) PROVE FeedShape'
  <2>1. Begun(t, "other") /\ circuit' = circuit
    BY <1>3 DEF Live!Announce, Live!Begin
  <2>2. event' \in [Retail -> Kinds]
    BY <2>1 DEF Kinds
  <2> QED BY <2>1, <2>2
<1>4. ASSUME NEW t \in Retail, Live!Fails(t) PROVE FeedShape'
  BY <1>4 DEF Live!Fails
<1>5. ASSUME NEW t \in Retail, Live!Publish(t) PROVE FeedShape'
  BY <1>5 DEF Live!Publish
<1>6. ASSUME NEW t \in Retail, Live!DropOldest(t) PROVE FeedShape'
  <2>1. slow[t] \in Pages
    BY <1>6 DEF Live!DropOldest, FeedServes
  <2>2. queue' \in [Pages -> Seq(Kinds)]
    <3>1. CASE queue[slow[t]] = <<>>
      BY <1>6, <3>1 DEF Live!DropOldest
    <3>2. CASE queue[slow[t]] # <<>>
      <4>1. Tail(queue[slow[t]]) \in Seq(Kinds)
        BY <2>1, <3>2, TakenFirst
      <4> QED BY <1>6, <3>2, <4>1 DEF Live!DropOldest
    <3> QED BY <3>1, <3>2
  <2>3. UNCHANGED <<circuit, event, targets, slow, subscribers, stream, told>>
    BY <1>6 DEF Live!DropOldest
  <2>4. place' \in [Retail -> {"idle", "publish", "offer", "drop", "again"}]
    BY <1>6 DEF Live!DropOldest
  <2> QED BY <2>2, <2>3, <2>4
<1>7. ASSUME NEW t \in Retail, NEW s \in Pages, Live!Put(t, s)
      PROVE  queue' \in [Pages -> Seq(Kinds)] /\ UNCHANGED <<subscribers, stream, told>>
  <2>1. Append(queue[s], event[t]) \in Seq(Kinds)
    BY AddedLast
  <2> QED BY <1>7, <2>1 DEF Live!Put
<1>8. ASSUME NEW t \in Retail, Live!OfferAgain(t) PROVE FeedShape'
  <2>1. slow[t] \in Pages
    BY <1>8 DEF Live!OfferAgain, FeedServes
  <2>2. queue' \in [Pages -> Seq(Kinds)] /\ UNCHANGED <<subscribers, stream, told>>
    BY <1>7, <1>8, <2>1 DEF Live!OfferAgain
  <2>3. targets' \in [Retail -> SUBSET Pages]
    BY <1>8 DEF Live!OfferAgain, Live!Served
  <2> QED BY <1>8, <2>2, <2>3 DEF Live!OfferAgain
<1>9. ASSUME NEW t \in Retail, Live!Respond(t) PROVE FeedShape'
  BY <1>9 DEF Live!Respond, Kinds
<1>10. ASSUME NEW t \in Retail, NEW s \in Pages, Live!Offer(t, s) PROVE FeedShape'
  <2>1. UNCHANGED <<circuit, event>>
    BY <1>10 DEF Live!Offer
  <2>2. CASE Len(queue[s]) < QueueLen
    <3>1. Live!Put(t, s) /\ Live!Served(t, s) /\ UNCHANGED <<place, slow>>
      BY <1>10, <2>2 DEF Live!Offer
    <3>2. queue' \in [Pages -> Seq(Kinds)] /\ UNCHANGED <<subscribers, stream, told>>
      BY <1>7, <3>1
    <3>3. targets' \in [Retail -> SUBSET Pages]
      BY <3>1 DEF Live!Served
    <3> QED BY <2>1, <3>1, <3>2, <3>3
  <2>3. CASE ~(Len(queue[s]) < QueueLen)
    <3>1. /\ place' = [place EXCEPT ![t] = "drop"] /\ slow' = [slow EXCEPT ![t] = s]
          /\ UNCHANGED <<subscribers, queue, stream, told, targets>>
      BY <1>10, <2>3 DEF Live!Offer
    <3> QED BY <2>1, <3>1
  <2> QED BY <2>2, <2>3
<1>11. ASSUME NEW s \in Pages, Live!Subscribe(s) PROVE FeedShape'
  BY <1>11 DEF Live!Subscribe
<1>12. ASSUME NEW s \in Pages, Live!Snapshot(s) PROVE FeedShape'
  <2>1. told' \in [Pages -> Live!Switch \cup {"nothing", "unready"}]
    BY <1>12 DEF Live!Snapshot
  <2> QED BY <1>12, <2>1 DEF Live!Snapshot
<1>13. ASSUME NEW s \in Pages, Live!Send(s) PROVE FeedShape'
  <2>1. Tail(queue[s]) \in Seq(Kinds)
    BY <1>13, TakenFirst DEF Live!Send
  <2>2. queue' \in [Pages -> Seq(Kinds)]
    BY <1>13, <2>1 DEF Live!Send
  <2>3. told' \in [Pages -> Live!Switch \cup {"nothing", "unready"}]
    BY <1>13 DEF Live!Send
  <2> QED BY <1>13, <2>2, <2>3 DEF Live!Send
<1>14. ASSUME NEW s \in Pages, Live!Close(s) PROVE FeedShape'
  <2>1. place' \in [Retail -> {"idle", "publish", "offer", "drop", "again"}]
    BY <1>14 DEF Live!Close
  <2>2. queue' \in [Pages -> Seq(Kinds)] /\ targets' \in [Retail -> SUBSET Pages]
    BY <1>14 DEF Live!Close
  <2>3. /\ told' \in [Pages -> Live!Switch \cup {"nothing", "unready"}]
        /\ stream' \in [Pages -> {"new", "subscribed", "open"}]
        /\ subscribers' = {r \in Pages : stream'[r] # "new"}
    BY <1>14 DEF Live!Close
  <2> QED BY <1>14, <2>1, <2>2, <2>3 DEF Live!Close
<1> QED BY <1>1, <1>2, <1>3, <1>4, <1>5, <1>6, <1>8, <1>9, <1>10, <1>11, <1>12, <1>13, <1>14
        DEF Live!Next

LEMMA FeedServesKept ==
  ASSUME FeedShape, FeedServes, Live!Next
  PROVE  FeedServes'
<1> USE DEF FeedShape, FeedServes, Live!requests, Live!pages, Live!GoTo
<1>1. CASE Live!Trip
  BY <1>1 DEF Live!Trip
<1>2. ASSUME NEW t \in Retail, \/ \E on \in Live!Switch : Live!Command(t, on)
                               \/ Live!Announce(t)
      PROVE  FeedServes'
  BY <1>2 DEF Live!Command, Live!Announce, Live!Begin
<1>3. ASSUME NEW t \in Retail, Live!Fails(t) \/ Live!Respond(t) PROVE FeedServes'
  BY <1>3 DEF Live!Fails, Live!Respond
<1>4. ASSUME NEW t \in Retail, Live!Publish(t) PROVE FeedServes'
  BY <1>4 DEF Live!Publish
<1>5. ASSUME NEW t \in Retail, NEW s \in Pages, s \in targets[t], Live!Put(t, s)
      PROVE  \A r \in Pages : stream'[r] = "new" => queue'[r] = <<>>
  <2>1. stream[s] # "new"
    BY <1>5
  <2> QED BY <1>5, <2>1 DEF Live!Put
<1>6. ASSUME NEW t \in Retail, Live!DropOldest(t) PROVE FeedServes'
  <2>1. slow[t] \in Pages /\ stream[slow[t]] # "new"
    BY <1>6 DEF Live!DropOldest
  <2>2. \A r \in Pages : stream'[r] = "new" => queue'[r] = <<>>
    BY <1>6, <2>1 DEF Live!DropOldest
  <2>3. UNCHANGED <<targets, slow, subscribers>>
    BY <1>6 DEF Live!DropOldest
  <2>4. \A u \in Retail : place'[u] \in {"drop", "again"} => place[u] \in {"drop", "again"}
    BY <1>6 DEF Live!DropOldest
  <2> QED BY <2>2, <2>3, <2>4
<1>7. ASSUME NEW t \in Retail, Live!OfferAgain(t) PROVE FeedServes'
  <2>1. slow[t] \in targets[t] /\ slow[t] \in Pages
    BY <1>7 DEF Live!OfferAgain
  <2>2. \A r \in Pages : stream'[r] = "new" => queue'[r] = <<>>
    BY <1>5, <1>7, <2>1 DEF Live!OfferAgain
  <2>3. UNCHANGED <<slow, subscribers>>
    BY <1>7 DEF Live!OfferAgain, Live!Put
  <2>4. \A u \in Retail : u # t => place'[u] = place[u] /\ targets'[u] = targets[u]
    BY <1>7 DEF Live!OfferAgain, Live!Served
  <2>5. place'[t] = "offer" /\ targets'[t] \subseteq targets[t]
    BY <1>7 DEF Live!OfferAgain, Live!Served
  <2> QED BY <2>2, <2>3, <2>4, <2>5
<1>8. ASSUME NEW t \in Retail, NEW s \in Pages, Live!Offer(t, s) PROVE FeedServes'
  <2>1. CASE Len(queue[s]) < QueueLen
    <3>1. \A r \in Pages : stream'[r] = "new" => queue'[r] = <<>>
      BY <1>5, <1>8, <2>1 DEF Live!Offer
    <3>2. UNCHANGED <<slow, subscribers, place>>
      BY <1>8, <2>1 DEF Live!Offer, Live!Put
    <3>3. \A u \in Retail : u # t => targets'[u] = targets[u]
      BY <1>8, <2>1 DEF Live!Offer, Live!Served
    <3>4. place[t] = "offer" /\ targets'[t] \subseteq targets[t]
      BY <1>8, <2>1 DEF Live!Offer, Live!Served
    <3> QED BY <3>1, <3>2, <3>3, <3>4
  <2>2. CASE ~(Len(queue[s]) < QueueLen)
    BY <1>8, <2>2 DEF Live!Offer
  <2> QED BY <2>1, <2>2
<1>9. ASSUME NEW s \in Pages, Live!Subscribe(s) \/ Live!Snapshot(s) PROVE FeedServes'
  BY <1>9 DEF Live!Subscribe, Live!Snapshot
<1>10. ASSUME NEW s \in Pages, Live!Send(s) PROVE FeedServes'
  <2>1. UNCHANGED <<place, targets, slow, subscribers, stream>>
    BY <1>10 DEF Live!Send
  <2>2. stream[s] = "open" /\ \A r \in Pages : r # s => queue'[r] = queue[r]
    BY <1>10 DEF Live!Send
  <2> QED BY <2>1, <2>2
<1>11. ASSUME NEW s \in Pages, Live!Close(s) PROVE FeedServes'
  <2>1. \A t \in Retail : targets'[t] = targets[t] \ {s}
    BY <1>11 DEF Live!Close
  <2>2. slow' = slow /\ subscribers' = subscribers \ {s}
    BY <1>11 DEF Live!Close
  <2>3. \A t \in Retail : place'[t] \in {"drop", "again"} =>
          place[t] \in {"drop", "again"} /\ slow[t] # s
    BY <1>11 DEF Live!Close
  <2>4. queue'[s] = <<>> /\ \A r \in Pages : r # s => /\ queue'[r] = queue[r]
                                                      /\ stream'[r] = stream[r]
    BY <1>11 DEF Live!Close
  <2> QED BY <2>1, <2>2, <2>3, <2>4
<1> QED BY <1>1, <1>2, <1>3, <1>4, <1>6, <1>7, <1>8, <1>9, <1>10, <1>11 DEF Live!Next

LEMMA OneCommandKept ==
  ASSUME FeedShape, OneCommand, Live!Next
  PROVE  OneCommand'
<1> SUFFICES ASSUME ~doubt'
             PROVE  \A c, d \in Live!Commanding' : c = d /\ event'[c] = circuit'
  BY DEF OneCommand
<1> USE DEF FeedShape, Live!requests, Live!pages, Live!GoTo, Live!Commanding
<1>1. ASSUME ~doubt, circuit' = circuit, Live!Commanding' \subseteq Live!Commanding,
             \A c \in Live!Commanding' : event'[c] = event[c]
      PROVE  \A c, d \in Live!Commanding' : c = d /\ event'[c] = circuit'
  <2> HIDE DEF Live!Commanding
  <2> QED BY <1>1 DEF OneCommand
<1>2. ASSUME NEW t \in Retail, NEW on \in Live!Switch, Live!Command(t, on)
      PROVE  \A c, d \in Live!Commanding' : c = d /\ event'[c] = circuit'
  <2>1. circuit' = on /\ Live!Commanding = {}
    BY <1>2 DEF Live!Command
  <2>2. /\ event' = [event EXCEPT ![t] = on] /\ place' = [place EXCEPT ![t] = "publish"]
    BY <1>2 DEF Live!Command, Live!Begin
  <2>3. \A c \in Live!Commanding' : c = t
    BY <2>1, <2>2
  <2> QED BY <2>1, <2>2, <2>3
<1>3. ASSUME NEW t \in Retail, Live!Announce(t)
      PROVE  \A c, d \in Live!Commanding' : c = d /\ event'[c] = circuit'
  <2>1. /\ event' = [event EXCEPT ![t] = "other"] /\ place' = [place EXCEPT ![t] = "publish"]
        /\ circuit' = circuit /\ doubt' = doubt
    BY <1>3 DEF Live!Announce, Live!Begin
  <2>2. "other" \notin Live!Switch
    BY DEF Live!Switch
  <2>3. \A c \in Live!Commanding' : c \in Live!Commanding /\ event'[c] = event[c]
    BY <2>1, <2>2
  <2> QED BY <1>1, <2>1, <2>3
<1>4. ASSUME NEW t \in Retail,
             Live!Publish(t) \/ Live!DropOldest(t) \/ Live!OfferAgain(t)
             \/ (\E s \in Pages : Live!Offer(t, s))
      PROVE  \A c, d \in Live!Commanding' : c = d /\ event'[c] = circuit'
  <2>1. circuit' = circuit /\ event' = event /\ ~doubt /\ place[t] # "idle"
    <3>1. CASE Live!Publish(t)
      BY <3>1 DEF Live!Publish
    <3>2. CASE Live!DropOldest(t)
      BY <3>2 DEF Live!DropOldest
    <3>3. CASE Live!OfferAgain(t)
      BY <3>3 DEF Live!OfferAgain
    <3>4. CASE \E s \in Pages : Live!Offer(t, s)
      BY <3>4 DEF Live!Offer
    <3> QED BY <1>4, <3>1, <3>2, <3>3, <3>4
  <2>2. \A u \in Retail : u # t => place'[u] = place[u]
    BY <1>4 DEF Live!Publish, Live!DropOldest, Live!OfferAgain, Live!Offer
  <2>3. \A c \in Live!Commanding' : c \in Live!Commanding
    BY <2>1, <2>2
  <2> QED BY <1>1, <2>1, <2>3
<1>5. ASSUME NEW t \in Retail, Live!Respond(t)
      PROVE  \A c, d \in Live!Commanding' : c = d /\ event'[c] = circuit'
  <2>1. circuit' = circuit /\ ~doubt
    BY <1>5 DEF Live!Respond
  <2>2. /\ \A u \in Retail : u # t => place'[u] = place[u] /\ event'[u] = event[u]
        /\ place'[t] = "idle"
    BY <1>5 DEF Live!Respond
  <2>3. \A c \in Live!Commanding' : c \in Live!Commanding /\ event'[c] = event[c]
    BY <2>2
  <2> QED BY <1>1, <2>1, <2>3
<1>6. ASSUME NEW s \in Pages, Live!Subscribe(s) \/ Live!Snapshot(s) \/ Live!Send(s)
                              \/ Live!Close(s)
      PROVE  \A c, d \in Live!Commanding' : c = d /\ event'[c] = circuit'
  <2>1. circuit' = circuit /\ event' = event /\ ~doubt
    BY <1>6 DEF Live!Subscribe, Live!Snapshot, Live!Send, Live!Close
  <2>2. \A u \in Retail : place'[u] # "idle" => place[u] # "idle"
    BY <1>6 DEF Live!Subscribe, Live!Snapshot, Live!Send, Live!Close
  <2>3. \A c \in Live!Commanding' : c \in Live!Commanding
    BY <2>1, <2>2
  <2> QED BY <1>1, <2>1, <2>3
<1>7. ~Live!Trip /\ \A t \in Retail : ~Live!Fails(t)
  BY DEF Live!Trip, Live!Fails
<1> QED BY <1>2, <1>3, <1>4, <1>5, <1>6, <1>7 DEF Live!Next

LEMMA KnowsStays ==
  ASSUME NEW s, Knows(s), circuit' = circuit, queue'[s] = queue[s],
         stream'[s] = stream[s], told'[s] = told[s]
  PROVE  Knows(s)'
BY DEF Knows, EndsWith, Live!Tells

(* The one that tells of the switch leaves page s knowing, the others do    *)
(* not matter to it.                                                        *)
LEMMA KnowsAfterPut ==
  ASSUME FeedShape, OneCommand, ~doubt, circuit' = circuit,
         NEW t \in Retail, place[t] # "idle", NEW s \in Pages, Live!Put(t, s),
         event[t] \in Live!Switch \/ Knows(s)
  PROVE  Knows(s)'
<1> USE DEF FeedShape
<1>1. queue'[s] = Append(queue[s], event[t]) /\ stream' = stream /\ told' = told
  BY DEF Live!Put
<1>2. queue[s] \in Seq(Kinds) /\ event[t] \in Kinds
  OBVIOUS
<1>3. CASE event[t] \in Live!Switch
  <2>1. event[t] = circuit
    BY <1>3 DEF OneCommand, Live!Commanding
  <2>2. EndsWith(queue'[s], circuit) /\ Live!Tells(queue'[s])
    BY <1>1, <1>2, <1>3, <2>1, AddedLast
  <2> QED BY <2>2 DEF Knows
<1>4. CASE event[t] \notin Live!Switch
  <2>1. EndsWith(queue[s], circuit)
    BY <1>4 DEF Knows
  <2>2. EndsWith(queue'[s], circuit) /\ (Live!Tells(queue'[s]) <=> Live!Tells(queue[s]))
    BY <1>1, <1>2, <1>4, <2>1, AddedLast
  <2>3. stream[s] = "open" /\ ~Live!Tells(queue[s]) => told[s] \in {circuit, "unready"}
    BY <1>4 DEF Knows
  <2> QED BY <1>1, <2>2, <2>3 DEF Knows
<1> QED BY <1>3, <1>4

LEMMA AllKnowKept ==
  ASSUME FeedInv, Live!Next
  PROVE  AllKnow'
<1> SUFFICES ASSUME ~doubt', NEW s \in Pages, ~Owed(s)' PROVE Knows(s)'
  BY DEF AllKnow
<1> USE DEF FeedInv, FeedShape, Live!requests, Live!pages, Live!GoTo
<1>0. Live!Commanding \subseteq Retail
  BY DEF Live!Commanding
<1>1. ASSUME ~doubt, circuit' = circuit, ~Owed(s), queue'[s] = queue[s],
             stream'[s] = stream[s], told'[s] = told[s]
      PROVE  Knows(s)'
  BY <1>1, KnowsStays DEF AllKnow
<1>2. ASSUME NEW t \in Retail, NEW on \in Live!Switch, Live!Command(t, on) PROVE FALSE
  <2>1. /\ event' = [event EXCEPT ![t] = on] /\ place' = [place EXCEPT ![t] = "publish"]
    BY <1>2 DEF Live!Command, Live!Begin
  <2>2. t \in Live!Commanding' /\ place'[t] = "publish"
    BY <2>1 DEF Live!Commanding
  <2> QED BY <2>2 DEF Owed
<1>3. ASSUME NEW t \in Retail, Live!Announce(t) PROVE Knows(s)'
  <2>1. /\ place[t] = "idle" /\ UNCHANGED <<circuit, doubt, targets, queue, stream, told>>
        /\ \A u \in Retail : u # t => event'[u] = event[u] /\ place'[u] = place[u]
    BY <1>3 DEF Live!Announce, Live!Begin
  <2>2. \A c \in Live!Commanding : c \in Live!Commanding' /\ place'[c] = place[c]
    BY <2>1 DEF Live!Commanding
  <2>3. ~Owed(s)
    BY <2>1, <2>2 DEF Owed
  <2> QED BY <1>1, <2>1, <2>3
<1>4. ASSUME NEW t \in Retail, Live!Publish(t) PROVE Knows(s)'
  <2>1. /\ place[t] = "publish" /\ targets'[t] = subscribers
        /\ UNCHANGED <<circuit, doubt, event, queue, stream, told>>
        /\ \A u \in Retail : u # t => targets'[u] = targets[u] /\ place'[u] = place[u]
    BY <1>4 DEF Live!Publish
  <2>2. t \in Live!Commanding' <=> t \in Live!Commanding
    BY <1>4 DEF Live!Commanding, Live!Publish
  <2>3. \A c \in Live!Commanding : c # t => c \in Live!Commanding'
    BY <2>1 DEF Live!Commanding
  <2>4. CASE t \in Live!Commanding
    <3>1. s \notin subscribers
      BY <2>1, <2>2, <2>4 DEF Owed
    <3>2. stream[s] = "new" /\ queue[s] = <<>>
      BY <3>1 DEF FeedServes
    <3> QED BY <2>1, <3>2 DEF Knows, EndsWith
  <2>5. CASE t \notin Live!Commanding
    <3>1. ~Owed(s)
      BY <1>0, <2>1, <2>3, <2>5 DEF Owed
    <3> QED BY <1>1, <2>1, <3>1
  <2> QED BY <2>4, <2>5
<1>5. ASSUME NEW t \in Retail, place[t] \notin {"idle", "publish"}, event' = event,
             place'[t] \notin {"idle", "publish"},
             \A u \in Retail : u # t => targets'[u] = targets[u] /\ place'[u] = place[u],
             s \in targets[t] => s \in targets'[t] \/ event[t] \notin Live!Switch
      PROVE  ~Owed(s)
  <2>1. \A c \in Live!Commanding : c \in Live!Commanding'
    BY <1>5 DEF Live!Commanding
  <2>2. t \in Live!Commanding => event[t] \in Live!Switch
    BY DEF Live!Commanding
  <2> QED BY <1>0, <1>5, <2>1, <2>2 DEF Owed
<1>6. ASSUME NEW t \in Retail, NEW r \in Pages, place[t] \in {"offer", "again"},
             place'[t] = "offer", \A u \in Retail : u # t => place'[u] = place[u],
             Live!Put(t, r), Live!Served(t, r), UNCHANGED <<circuit, event, doubt>>
      PROVE  Knows(s)'
  <2>1. /\ \A u \in Retail : u # t => targets'[u] = targets[u]
        /\ targets'[t] = targets[t] \ {r}
    BY <1>6 DEF Live!Served
  <2>2. CASE r = s
    <3>1. event[t] \in Live!Switch \/ Knows(s)
      <4>1. event[t] \notin Live!Switch => ~Owed(s)
        BY <1>5, <1>6, <2>1
      <4> QED BY <1>6, <4>1 DEF AllKnow
    <3> QED BY <1>6, <2>2, <3>1, KnowsAfterPut
  <2>3. CASE r # s
    <3>1. ~Owed(s)
      BY <1>5, <1>6, <2>1, <2>3
    <3>2. queue'[s] = queue[s] /\ stream' = stream /\ told' = told
      BY <1>6, <2>3 DEF Live!Put
    <3> QED BY <1>1, <1>6, <3>1, <3>2
  <2> QED BY <2>2, <2>3
<1>7. ASSUME NEW t \in Retail, NEW r \in Pages, Live!Offer(t, r) PROVE Knows(s)'
  <2>1. CASE Len(queue[r]) < QueueLen
    <3>1. /\ place[t] = "offer" /\ place' = place
          /\ Live!Put(t, r) /\ Live!Served(t, r) /\ UNCHANGED <<circuit, event, doubt>>
      BY <1>7, <2>1 DEF Live!Offer
    <3> QED BY <1>6, <3>1
  <2>2. CASE ~(Len(queue[r]) < QueueLen)
    <3>1. /\ place[t] = "offer" /\ place' = [place EXCEPT ![t] = "drop"]
          /\ UNCHANGED <<circuit, event, doubt, targets, queue, stream, told>>
      BY <1>7, <2>2 DEF Live!Offer
    <3>2. ~Owed(s)
      BY <1>5, <3>1
    <3> QED BY <1>1, <3>1, <3>2
  <2> QED BY <2>1, <2>2
<1>8. ASSUME NEW t \in Retail, Live!OfferAgain(t) PROVE Knows(s)'
  <2>1. PICK r \in Pages : r = slow[t]
    BY <1>8 DEF Live!OfferAgain, FeedServes
  <2>2. /\ place[t] = "again" /\ place' = [place EXCEPT ![t] = "offer"]
        /\ Live!Served(t, r) /\ UNCHANGED <<circuit, event>>
    BY <1>8, <2>1 DEF Live!OfferAgain
  <2>3. CASE Len(queue[r]) < QueueLen
    <3>1. Live!Put(t, r) /\ doubt' = doubt
      BY <1>8, <2>1, <2>3 DEF Live!OfferAgain
    <3> QED BY <1>6, <2>2, <3>1
  <2>4. CASE ~(Len(queue[r]) < QueueLen)
    <3>1. /\ doubt' = (doubt \/ event[t] \in Live!Switch)
          /\ UNCHANGED <<subscribers, queue, stream, told>>
      BY <1>8, <2>1, <2>4 DEF Live!OfferAgain
    <3>2. ~doubt /\ event[t] \notin Live!Switch
      BY <3>1
    <3>3. \A u \in Retail : u # t => targets'[u] = targets[u]
      BY <2>2 DEF Live!Served
    <3>4. ~Owed(s)
      BY <1>5, <2>2, <3>2, <3>3
    <3> QED BY <1>1, <2>2, <3>1, <3>2, <3>4
  <2> QED BY <2>3, <2>4
<1>9. ASSUME NEW t \in Retail, Live!DropOldest(t) PROVE Knows(s)'
  <2>1. PICK r \in Pages : r = slow[t]
    BY <1>9 DEF Live!DropOldest, FeedServes
  <2>2. /\ place[t] = "drop" /\ place' = [place EXCEPT ![t] = "again"]
        /\ UNCHANGED <<circuit, event, targets, stream, told>>
    BY <1>9 DEF Live!DropOldest
  <2>3. ~Owed(s)
    BY <1>5, <2>2
  <2>4. CASE queue[r] = <<>> \/ r # s
    <3>1. queue'[s] = queue[s] /\ ~doubt
      BY <1>9, <2>1, <2>4 DEF Live!DropOldest
    <3> QED BY <1>1, <2>2, <2>3, <3>1
  <2>5. CASE queue[r] # <<>> /\ r = s
    <3>1. /\ queue' = [queue EXCEPT ![s] = Tail(queue[s])]
          /\ doubt' = (doubt \/ (Live!Tells(queue[s]) /\ ~Live!Tells(Tail(queue[s]))))
      BY <1>9, <2>1, <2>5 DEF Live!DropOldest
    <3>2. ~doubt /\ (Live!Tells(queue[s]) => Live!Tells(Tail(queue[s])))
      BY <3>1
    <3>3. Knows(s)
      BY <2>3, <3>2 DEF AllKnow
    <3>4. EndsWith(Tail(queue[s]), circuit)
      BY <2>5, <3>3, TakenFirst DEF Knows
    <3>5. queue'[s] = Tail(queue[s])
      BY <3>1
    <3> QED BY <2>2, <3>2, <3>3, <3>4, <3>5 DEF Knows
  <2> QED BY <2>4, <2>5
<1>10. ASSUME NEW t \in Retail, Live!Respond(t) PROVE Knows(s)'
  <2>1. /\ place[t] = "offer" /\ targets[t] = {}
        /\ UNCHANGED <<circuit, targets, doubt, queue, stream, told>>
        /\ \A u \in Retail : u # t => event'[u] = event[u] /\ place'[u] = place[u]
    BY <1>10 DEF Live!Respond
  <2>2. \A c \in Live!Commanding : c # t => c \in Live!Commanding'
    BY <2>1 DEF Live!Commanding
  <2>3. ~Owed(s)
    BY <1>0, <2>1, <2>2 DEF Owed
  <2> QED BY <1>1, <2>1, <2>3
<1>11. ASSUME UNCHANGED <<place, event, targets>> PROVE ~Owed(s)
  BY <1>11 DEF Owed, Live!Commanding
<1>12. ASSUME NEW r \in Pages, Live!Subscribe(r) PROVE Knows(s)'
  <2>1. /\ UNCHANGED <<circuit, place, event, targets, doubt, queue, told>>
        /\ stream[r] = "new" /\ stream' = [stream EXCEPT ![r] = "subscribed"]
    BY <1>12 DEF Live!Subscribe
  <2>2. ~Owed(s)
    BY <1>11, <2>1
  <2>3. CASE r # s
    BY <1>1, <2>1, <2>2, <2>3
  <2>4. CASE r = s
    <3>1. queue'[s] = <<>> /\ stream'[s] = "subscribed"
      BY <2>1, <2>4 DEF FeedServes
    <3> QED BY <3>1 DEF Knows, EndsWith
  <2> QED BY <2>3, <2>4
<1>13. ASSUME NEW r \in Pages, Live!Snapshot(r) PROVE Knows(s)'
  <2>1. /\ UNCHANGED <<circuit, place, event, targets, doubt, queue>>
        /\ stream' = [stream EXCEPT ![r] = "open"]
    BY <1>13 DEF Live!Snapshot
  <2>2. PICK says \in {circuit, "unready"} : told' = [told EXCEPT ![r] = says]
    BY <1>13 DEF Live!Snapshot
  <2>3. ~Owed(s)
    BY <1>11, <2>1
  <2>4. CASE r # s
    BY <1>1, <2>1, <2>2, <2>3, <2>4
  <2>5. CASE r = s
    <3>1. Knows(s)
      BY <2>1, <2>3 DEF AllKnow
    <3>2. told'[s] \in {circuit, "unready"} /\ queue'[s] = queue[s] /\ circuit' = circuit
      BY <2>1, <2>2, <2>5
    <3> QED BY <3>1, <3>2 DEF Knows
  <2> QED BY <2>4, <2>5
<1>14. ASSUME NEW r \in Pages, Live!Send(r) PROVE Knows(s)'
  <2>1. /\ UNCHANGED <<circuit, place, event, targets, doubt, stream>>
        /\ stream[r] = "open" /\ queue[r] # <<>> /\ queue' = [queue EXCEPT ![r] = Tail(@)]
        /\ told' = IF Head(queue[r]) \in Live!Switch
                   THEN [told EXCEPT ![r] = Head(queue[r])] ELSE told
    BY <1>14 DEF Live!Send
  <2>2. ~Owed(s)
    BY <1>11, <2>1
  <2>3. CASE r # s
    <3>1. queue'[s] = queue[s] /\ told'[s] = told[s]
      BY <2>1, <2>3
    <3> QED BY <1>1, <2>1, <2>2, <3>1
  <2>4. CASE r = s
    <3>1. Knows(s)
      BY <2>1, <2>2 DEF AllKnow
    <3>2. EndsWith(Tail(queue[s]), circuit)
      BY <2>1, <2>4, <3>1, TakenFirst DEF Knows
    <3>3. CASE Head(queue[s]) \in Live!Switch
      <4>1. Live!Tells(Tail(queue[s])) \/ Head(queue[s]) = circuit
        BY <2>1, <2>4, <3>1, <3>3, TakenFirst DEF Knows
      <4>2. queue'[s] = Tail(queue[s]) /\ told'[s] = Head(queue[s]) /\ circuit' = circuit
        BY <2>1, <2>4, <3>3
      <4> QED BY <3>2, <4>1, <4>2 DEF Knows
    <3>4. CASE Head(queue[s]) \notin Live!Switch
      <4>1. Live!Tells(queue[s]) <=> Live!Tells(Tail(queue[s]))
        BY <2>1, <2>4, <3>4, TakenFirst
      <4>2. /\ queue'[s] = Tail(queue[s]) /\ told'[s] = told[s] /\ circuit' = circuit
            /\ stream'[s] = stream[s]
        BY <2>1, <2>4, <3>4
      <4>3. stream[s] = "open" /\ ~Live!Tells(queue[s]) => told[s] \in {circuit, "unready"}
        BY <3>1 DEF Knows
      <4> QED BY <3>2, <4>1, <4>2, <4>3 DEF Knows
    <3> QED BY <3>3, <3>4
  <2> QED BY <2>3, <2>4
<1>15. ASSUME NEW r \in Pages, Live!Close(r) PROVE Knows(s)'
  <2>1. /\ UNCHANGED <<circuit, event, doubt>>
        /\ stream' = [stream EXCEPT ![r] = "new"] /\ told' = [told EXCEPT ![r] = "nothing"]
        /\ queue' = [queue EXCEPT ![r] = <<>>]
        /\ \A t \in Retail : targets'[t] = targets[t] \ {r}
    BY <1>15 DEF Live!Close
  <2>2. \A t \in Retail : /\ place'[t] = "idle" <=> place[t] = "idle"
                          /\ place'[t] = "publish" <=> place[t] = "publish"
    BY <1>15 DEF Live!Close
  <2>3. Live!Commanding' = Live!Commanding
    BY <2>1, <2>2 DEF Live!Commanding
  <2>4. CASE r # s
    <3>1. Live!Commanding \subseteq Retail
      BY DEF Live!Commanding
    <3>2. ~Owed(s)
      BY <2>1, <2>2, <2>3, <2>4, <3>1 DEF Owed
    <3> QED BY <1>1, <2>1, <2>4, <3>2
  <2>5. CASE r = s
    <3>1. queue'[s] = <<>> /\ stream'[s] = "new"
      BY <2>1, <2>5
    <3> QED BY <3>1 DEF Knows, EndsWith
  <2> QED BY <2>4, <2>5
<1>16. ~Live!Trip /\ \A t \in Retail : ~Live!Fails(t)
  BY DEF Live!Trip, Live!Fails
<1> QED BY <1>2, <1>3, <1>4, <1>7, <1>8, <1>9, <1>10, <1>12, <1>13, <1>14, <1>15, <1>16
        DEF Live!Next

LEMMA FeedIsInductive == Live!Spec => []FeedInv
<1>1. FeedInv /\ [Live!Next]_Live!vars => FeedInv'
  <2>1. CASE Live!Next
    BY <2>1, FeedShapeKept, FeedServesKept, OneCommandKept, AllKnowKept DEF FeedInv
  <2>2. ASSUME FeedInv, UNCHANGED Live!vars PROVE FeedInv'
    <3> USE <2>2 DEF FeedInv, Live!vars, Live!requests, Live!pages
    <3>1. FeedShape' /\ FeedServes'
      BY DEF FeedShape, FeedServes
    <3>2. OneCommand'
      BY DEF OneCommand, Live!Commanding
    <3>3. AllKnow'
      BY DEF AllKnow, Owed, Live!Commanding, Knows, EndsWith, Live!Tells
    <3> QED BY <3>1, <3>2, <3>3
  <2> QED BY <2>1, <2>2
<1> QED BY <1>1, FeedInitially, PTL DEF Live!Spec

(* For any number of pages and requests and any length of their queues, a   *)
(* page that has been sent all there is knows whether trading is halted     *)
(* (publish and event_stream), unless nobody can know.                      *)
THEOREM FeedTellsTheSwitch == Live!Spec => []PagesKnowTheSwitch
<1>1. FeedInv => PagesKnowTheSwitch
  <2> SUFFICES ASSUME FeedInv, \A t \in Retail : place[t] = "idle", ~doubt,
                      NEW s \in Pages, stream[s] = "open", queue[s] = <<>>
               PROVE  told[s] \in {circuit, "unready"}
    BY DEF PagesKnowTheSwitch, Live!PagesKnowTheSwitch
  <2>1. ~Owed(s)
    BY DEF Owed, Live!Commanding
  <2>2. Knows(s)
    BY <2>1 DEF FeedInv, AllKnow
  <2>3. ~Live!Tells(queue[s])
    BY DEF Live!Tells
  <2> QED BY <2>2, <2>3 DEF Knows
<1> QED BY <1>1, FeedIsInductive, PTL

-----------------------------------------------------------------------------
(* The risk rails.                                                          *)
Names == Rails!Numbers \cup {"markets", "require"}

RailsShape ==
  /\ yaml \in Files /\ env \in Environments
  /\ own \in [Users -> {{}} \cup {{p} : p \in Profiles}]
  /\ trader \in {{}} \cup {{u} : u \in Users}
  /\ held \in [Markets -> Int]
  /\ daySwitch \in [failures : Int, open : BOOLEAN, pnl : Int, day : Int]
  /\ today \in Int /\ realized \in Int

(* What is armed is what was set; the number checks have been passed, and   *)
(* in LIVE the others.                                                      *)
Armed ==
  rails # {} =>
    /\ rails = {Rails!Resolved}
    /\ \A name \in Rails!Numbers : Rails!Merged(name) \subseteq Rails!Sane[name]
    /\ mode = "live" => Rails!ArmsLive

(* Unless a restart forgot it, the switch knows the result of the day, if   *)
(* there is one.                                                            *)
DayIsKnown ==
  /\ daySwitch.day <= today
  /\ ~forgotten => IF daySwitch.day = today THEN daySwitch.pnl = realized ELSE realized = 0

HaltIsOpen == stopped => daySwitch.open

RailsInv == RailsShape /\ Armed /\ DayIsKnown /\ HaltIsOpen

(* What is armed for the process is what was set in the file or the         *)
(* environment.                                                             *)
LEMMA ResolvedIsSet ==
  ASSUME NEW name \in Rails!Numbers \cup {"markets"}
  PROVE  Rails!Resolved[name] = Rails!Set(name, {})
<1>1. name # "require"
  BY DEF Rails!Numbers
<1>2. Rails!Resolved[name] =
        IF Rails!Merged(name) # {} THEN Rails!The(Rails!Merged(name))
        ELSE IF name = "markets" THEN {} ELSE Rails!Default[name]
  BY <1>1 DEF Rails!Resolved, Rails!None
<1> QED BY <1>2 DEF Rails!Merged, Rails!Set, Rails!None

LEMMA TheIsIn == ASSUME NEW S, S # {} PROVE Rails!The(S) \in S
BY DEF Rails!The

LEMMA RailIsSet ==
  ASSUME Armed, rails # {}, NEW user, NEW name \in Rails!Numbers \cup {"markets"}
  PROVE  Rails!Rail(name, user) = Rails!Set(name, user)
<1>1. CASE user = {}
  <2>1. Rails!The(rails) = Rails!Resolved
    BY DEF Armed, Rails!The
  <2> QED BY <1>1, <2>1, ResolvedIsSet DEF Rails!Rail, Rails!None
<1>2. CASE user # {}
  BY <1>2 DEF Rails!Rail, Rails!Set, Rails!None
<1> QED BY <1>1, <1>2

LEMMA DailyIsNumber ==
  ASSUME RailsShape, Armed, rails # {},
         NEW user, user = {} \/ \E u \in Users : user = {u} /\ own[u] # {}
  PROVE  Rails!Set("daily", user) \in Int
<1>1. CASE user = {}
  <2>1. Rails!Merged("daily") # {} => Rails!The(Rails!Merged("daily")) \in 1..100
    <3>1. Rails!Merged("daily") \subseteq 1..100
      <4>1. "daily" \in Rails!Numbers
        BY DEF Rails!Numbers
      <4>2. Rails!Sane["daily"] = 1..100
        BY DEF Rails!Sane
      <4>3. Rails!Merged("daily") \subseteq Rails!Sane["daily"]
        BY <4>1 DEF Armed
      <4> QED BY <4>2, <4>3
    <3> QED BY <3>1, TheIsIn
  <2>2. Rails!Default["daily"] = 2
    BY DEF Rails!Default
  <2>3. Rails!Set("daily", user) =
          IF Rails!Merged("daily") # {} THEN Rails!The(Rails!Merged("daily"))
          ELSE Rails!Default["daily"]
    BY <1>1 DEF Rails!Set, Rails!Merged, Rails!None
  <2> QED BY <2>1, <2>2, <2>3
<1>2. CASE user # {}
  <2>1. PICK u \in Users : user = {u} /\ own[u] # {}
    BY <1>2
  <2>2. PICK p \in Profiles : own[u] = {p}
    BY <2>1 DEF RailsShape
  <2>3. Rails!The(user) = u /\ Rails!The(own[u]) = p
    BY <2>1, <2>2 DEF Rails!The
  <2>4. p.daily \in Int
    BY FacesAssumption
  <2>5. Rails!Set("daily", user) = p["daily"]
    BY <1>2, <2>3 DEF Rails!Set, Rails!None
  <2> QED BY <2>4, <2>5
<1> QED BY <1>1, <1>2

(* An allowlist that is armed in LIVE is not empty.                         *)
LEMMA LiveHasList ==
  ASSUME RailsShape, Armed, rails # {}, mode = "live"
  PROVE  Rails!Set("markets", {}) # {}
<1>1. Rails!Merged("markets") \notin {{}, {{}}}
  BY DEF Armed, Rails!ArmsLive, Rails!None
<1>2. \A v, w \in Rails!Merged("markets") : v = w
  BY FacesAssumption DEF RailsShape, Rails!Merged
<1>3. Rails!The(Rails!Merged("markets")) \in Rails!Merged("markets")
  BY <1>1, TheIsIn
<1>4. Rails!The(Rails!Merged("markets")) # {}
  BY <1>1, <1>2, <1>3
<1>5. Rails!Set("markets", {}) = Rails!The(Rails!Merged("markets"))
  BY <1>1 DEF Rails!Set, Rails!Merged, Rails!None
<1> QED BY <1>4, <1>5

LEMMA RailsEquityType == ASSUME RailsShape PROVE Rails!Equity \in Int
<1>1. DOMAIN held = Markets /\ IsFiniteSet(Markets) /\ \A m \in Markets : held[m] \in Int
  BY FacesAssumption DEF RailsShape
<1>2. SumFunction(held) \in Int
  BY <1>1, SumType DEF SumFunction
<1>3. Rails!SumFunction(held) = SumFunction(held)
  BY DEF SumFunction, SumFunctionOnSet, FoldFunctionOnSet, MapThenFoldSet,
         Rails!SumFunction, Rails!SumFunctionOnSet, Rails!FoldFunctionOnSet,
         Rails!MapThenFoldSet
<1>4. Balance \in Nat
  BY FacesAssumption
<1> QED BY <1>2, <1>3, <1>4 DEF Rails!Equity

(* What authorize_order lets through is within what was set.                *)
Allowed(o) ==
  LET list == Rails!Set("markets", o.user) IN
  /\ o.market \in list \/ (list = {} /\ (mode = "live" => o.user # {}))
  /\ (Rails!Gross + o.qty) * 100 <= Rails!Equity * Rails!Set("gross", o.user)
  /\ ~stopped
  /\ forgotten \/ Rails!Abs(realized) * 100 < Rails!Equity * Rails!Set("daily", o.user)
  /\ \A s \in o.age : s <= Rails!Set("staleness", {})
  /\ \A u \in o.user : own[u] # {}

LEMMA AuthorizedIsAllowed ==
  ASSUME RailsInv, rails # {}, NEW m, NEW qty, NEW age,
         NEW user, user = {} \/ \E u \in Users : user = {u},
         Rails!Authorized(m, qty, age, user),
         NEW o, o = [user |-> user, market |-> m, qty |-> qty, age |-> age]
  PROVE  Allowed(o)
<1> USE DEF RailsInv
<1>1. o.user = user /\ o.market = m /\ o.qty = qty /\ o.age = age
  OBVIOUS
<1>2. \A u \in user : own[u] # {}
  BY DEF Rails!Authorized, Rails!Refused, Rails!None
<1>3. /\ Rails!Rail("markets", user) = Rails!Set("markets", user)
      /\ Rails!Rail("gross", user) = Rails!Set("gross", user)
      /\ Rails!Rail("daily", user) = Rails!Set("daily", user)
  <2>1. {"gross", "daily"} \subseteq Rails!Numbers
    BY DEF Rails!Numbers
  <2> QED BY <2>1, RailIsSet
<1>4. LET list == Rails!Set("markets", user) IN
      m \in list \/ (list = {} /\ (mode = "live" => user # {}))
  <2>1. Rails!Set("markets", user) # {} => m \in Rails!Set("markets", user)
    BY <1>3 DEF Rails!Authorized
  <2> QED BY <2>1, LiveHasList
<1>5. (Rails!Gross + qty) * 100 <= Rails!Equity * Rails!Set("gross", user)
  BY <1>3 DEF Rails!Authorized
<1>6. ~stopped
  BY DEF Rails!Authorized, Rails!SwitchAllows, HaltIsOpen
<1>7. forgotten \/ Rails!Abs(realized) * 100 < Rails!Equity * Rails!Set("daily", user)
  <2> SUFFICES ASSUME ~forgotten
               PROVE  Rails!Abs(realized) * 100 < Rails!Equity * Rails!Set("daily", user)
    OBVIOUS
  <2>1. Rails!Set("daily", user) \in Int /\ Rails!Equity \in Int
    BY <1>2, DailyIsNumber, RailsEquityType
  <2>2. PICK x \in Int : x = Rails!Equity * Rails!Set("daily", user)
    BY <2>1
  <2>3. Rails!Abs(daySwitch.pnl) * 100 < x
    BY <1>3, <2>2 DEF Rails!Authorized
  <2>4. daySwitch.pnl \in Int /\ realized \in Int
    BY DEF RailsShape
  <2>5. CASE daySwitch.day = today
    BY <2>2, <2>3, <2>5 DEF DayIsKnown
  <2>6. CASE daySwitch.day # today
    <3>1. realized = 0
      BY <2>6 DEF DayIsKnown
    <3> QED BY <2>2, <2>3, <2>4, <3>1 DEF Rails!Abs
  <2> QED BY <2>5, <2>6
<1>8. \A s \in age : s <= Rails!Set("staleness", {})
  <2>1. "staleness" \in Rails!Numbers
    BY DEF Rails!Numbers
  <2>2. Rails!The(rails)["staleness"] = Rails!Set("staleness", {})
    BY <2>1, RailIsSet DEF Rails!Rail, Rails!None
  <2> QED BY <2>2 DEF Rails!Authorized
<1> QED BY <1>1, <1>2, <1>4, <1>5, <1>6, <1>7, <1>8 DEF Allowed

LEMMA SentIsAllowed ==
  ASSUME RailsInv, Rails!Next, NEW o \in order', o \notin order
  PROVE  Allowed(o)
<1> USE DEF RailsInv
<1>1. ASSUME NEW m \in Markets, NEW side \in {"buy", "sell"}, NEW c \in Confidences,
             NEW w \in WinRates, NEW age, Rails!CycleOrder(m, side, c, w, age)
      PROVE  Allowed(o)
  <2>1. PICK qty : qty = Rails!SizePosition(c)
    OBVIOUS
  <2>2. /\ rails # {} /\ Rails!Authorized(m, qty, age, trader)
        /\ order' = {[user |-> trader, market |-> m, qty |-> qty, age |-> age]}
    BY <1>1, <2>1 DEF Rails!CycleOrder, Rails!Send, Rails!None
  <2>3. trader = {} \/ \E u \in Users : trader = {u}
    BY DEF RailsShape
  <2>4. o = [user |-> trader, market |-> m, qty |-> qty, age |-> age]
    BY <2>2
  <2> QED BY <2>2, <2>3, <2>4, AuthorizedIsAllowed
<1>2. ASSUME NEW m \in Markets, NEW side \in {"buy", "sell"}, NEW u \in Users,
             NEW qty \in Quantities, Rails!RetailOrder(u, m, side, qty)
      PROVE  Allowed(o)
  <2>1. /\ rails # {} /\ Rails!Authorized(m, qty, {}, {u})
        /\ order' = {[user |-> {u}, market |-> m, qty |-> qty, age |-> {}]}
    BY <1>2 DEF Rails!RetailOrder, Rails!Send, Rails!None
  <2>2. o = [user |-> {u}, market |-> m, qty |-> qty, age |-> {}]
    BY <2>1
  <2> QED BY <2>1, <2>2, AuthorizedIsAllowed
<1>3. \/ Rails!Boot \/ Rails!NextDay \/ Rails!Engage \/ Rails!Disengage \/ Rails!Restart
      \/ \E m \in Markets, pnl \in Gains : Rails!ClosePosition(m, pnl)
      => FALSE
  BY DEF Rails!Boot, Rails!NextDay, Rails!Engage, Rails!Disengage, Rails!Restart,
         Rails!ClosePosition, Rails!None
<1> QED BY <1>1, <1>2, <1>3 DEF Rails!Next

-----------------------------------------------------------------------------
LEMMA RailsInitially == Rails!Init => RailsInv
<1> SUFFICES ASSUME Rails!Init PROVE RailsInv
  OBVIOUS
<1> USE DEF Rails!Init, Rails!None
<1>1. daySwitch = [failures |-> 0, open |-> FALSE, pnl |-> 0, day |-> 0]
  BY DEF Rails!NewSwitch
<1>2. RailsShape
  BY <1>1 DEF RailsShape
<1>3. Armed /\ DayIsKnown /\ HaltIsOpen
  BY <1>1 DEF Armed, DayIsKnown, HaltIsOpen
<1> QED BY <1>2, <1>3 DEF RailsInv

LEMMA ArmedStays ==
  ASSUME Armed, UNCHANGED <<rails, mode, yaml, env>>
  PROVE  Armed'
BY DEF Armed, Rails!Resolved, Rails!Merged, Rails!ArmsLive

LEMMA SizeIsNumber ==
  ASSUME NEW c \in Confidences
  PROVE  Rails!SizePosition(c) \in Int
<1>1. PICK a : a = c \div 5
  OBVIOUS
<1>2. a \in Int /\ Balance \in Nat
  BY <1>1, FacesAssumption
<1>3. PICK least \in {a, 25} : \A y \in {a, 25} : least <= y
  BY <1>2
<1>4. Rails!Min({a, 25}) \in {a, 25}
  BY <1>3 DEF Rails!Min
<1>5. PICK b \in Int : b = Rails!Min({c \div 5, 25})
  BY <1>1, <1>2, <1>4
<1>6. (Balance * b) \div 100 \in Int
  BY <1>2
<1>7. Rails!SizePosition(c) = (Balance * b) \div 100
  BY <1>5 DEF Rails!SizePosition
<1> QED BY <1>6, <1>7

LEMMA RailsKept ==
  ASSUME RailsInv, Rails!Next
  PROVE  RailsInv'
<1> USE FacesAssumption DEF RailsInv, Rails!settings
<1>1. CASE Rails!Boot
  <2>1. UNCHANGED <<yaml, env, own, trader, held, daySwitch, today, realized, stopped,
                    forgotten, mode>>
    BY <1>1 DEF Rails!Boot
  <2>2. Armed'
    <3>1. /\ rails' = {Rails!Resolved} /\ (mode = "live" => Rails!ArmsLive)
          /\ \A name \in Rails!Numbers : Rails!Merged(name) \subseteq Rails!Sane[name]
      BY <1>1 DEF Rails!Boot
    <3> QED BY <2>1, <3>1 DEF Armed, Rails!Resolved, Rails!Merged, Rails!ArmsLive
  <2> QED BY <2>1, <2>2 DEF RailsShape, DayIsKnown, HaltIsOpen
<1>2. ASSUME UNCHANGED <<yaml, env, own, trader, today, realized, forgotten, rails, mode>>,
             held' \in [Markets -> Int],
             daySwitch' \in [failures : Int, open : BOOLEAN, pnl : Int, day : Int],
             daySwitch'.day = daySwitch.day, daySwitch'.pnl = daySwitch.pnl,
             stopped' => daySwitch'.open
      PROVE  RailsInv'
  BY <1>2, ArmedStays DEF RailsShape, DayIsKnown, HaltIsOpen
<1>3. ASSUME NEW o, o.market \in Markets, o.qty \in Int, NEW side \in {"buy", "sell"},
             Rails!Send(o, side)
      PROVE  RailsInv'
  <2>1. UNCHANGED <<yaml, env, own, trader, today, realized, forgotten, rails, mode>>
    BY <1>3 DEF Rails!Send
  <2>2. held' \in [Markets -> Int]
    BY <1>3 DEF Rails!Send, RailsShape
  <2>3. /\ daySwitch' \in [failures : Int, open : BOOLEAN, pnl : Int, day : Int]
        /\ daySwitch'.day = daySwitch.day /\ daySwitch'.pnl = daySwitch.pnl
        /\ stopped' => daySwitch'.open
    <3>1. PICK n, b : n = daySwitch.failures + 1 /\ b = (daySwitch.open \/ n >= Failures)
      OBVIOUS
    <3>2. n \in Int /\ b \in BOOLEAN
      BY <3>1 DEF RailsShape
    <3>3. CASE daySwitch' = [daySwitch EXCEPT !.failures = 0] /\ UNCHANGED stopped
      BY <3>3 DEF RailsShape, HaltIsOpen
    <3>4. CASE /\ daySwitch' = [daySwitch EXCEPT !.failures = n, !.open = b]
               /\ stopped' = (stopped \/ n >= Failures)
      BY <3>1, <3>2, <3>4 DEF RailsShape, HaltIsOpen
    <3>5. CASE UNCHANGED <<daySwitch, stopped>>
      BY <3>5 DEF RailsShape, HaltIsOpen
    <3> QED BY <1>3, <3>1, <3>3, <3>4, <3>5 DEF Rails!Send
  <2> QED BY <1>2, <2>1, <2>2, <2>3
<1>4. ASSUME NEW m \in Markets, NEW side \in {"buy", "sell"}, NEW c \in Confidences,
             NEW w \in WinRates, NEW age, Rails!CycleOrder(m, side, c, w, age)
      PROVE  RailsInv'
  <2>1. PICK o : /\ o = [user |-> trader, market |-> m, qty |-> Rails!SizePosition(c), age |-> age]
                 /\ Rails!Send(o, side)
    BY <1>4 DEF Rails!CycleOrder
  <2>2. o.market = m /\ o.qty = Rails!SizePosition(c)
    BY <2>1
  <2>3. o.market \in Markets /\ o.qty \in Int
    BY <2>2, SizeIsNumber
  <2> QED BY <1>3, <2>1, <2>3
<1>5. ASSUME NEW m \in Markets, NEW side \in {"buy", "sell"}, NEW u \in Users,
             NEW qty \in Quantities, Rails!RetailOrder(u, m, side, qty)
      PROVE  RailsInv'
  <2>1. PICK o : /\ o = [user |-> {u}, market |-> m, qty |-> qty, age |-> {}]
                 /\ Rails!Send(o, side)
    BY <1>5 DEF Rails!RetailOrder, Rails!None
  <2>2. o.market = m /\ o.qty = qty
    BY <2>1
  <2>3. o.market \in Markets /\ o.qty \in Int
    BY <2>2
  <2> QED BY <1>3, <2>1, <2>3
<1>6. ASSUME NEW m \in Markets, NEW pnl \in Gains, Rails!ClosePosition(m, pnl)
      PROVE  RailsInv'
  <2>1. /\ UNCHANGED <<yaml, env, own, trader, today, forgotten, rails, mode, stopped>>
        /\ held' = [held EXCEPT ![m] = 0] /\ realized' = realized + pnl
        /\ pnl \in Int
    BY <1>6 DEF Rails!ClosePosition
  <2>2. PICK n : n = IF daySwitch.day = today THEN daySwitch.pnl + pnl ELSE pnl
    OBVIOUS
  <2>3. daySwitch' = [daySwitch EXCEPT !.day = today, !.pnl = n]
    BY <1>6, <2>2 DEF Rails!ClosePosition, Rails!Realized
  <2>4. n \in Int
    BY <2>1, <2>2 DEF RailsShape
  <2>5. RailsShape'
    <3>1. held' \in [Markets -> Int]
      BY <2>1 DEF RailsShape
    <3>2. daySwitch' \in [failures : Int, open : BOOLEAN, pnl : Int, day : Int]
      <4>1. daySwitch \in [failures : Int, open : BOOLEAN, pnl : Int, day : Int]
            /\ today \in Int
        BY DEF RailsShape
      <4> QED BY <2>3, <2>4, <4>1
    <3>3. today' \in Int /\ realized' \in Int
      BY <2>1 DEF RailsShape
    <3> QED BY <2>1, <3>1, <3>2, <3>3 DEF RailsShape
  <2>6. /\ daySwitch'.day = today /\ daySwitch'.pnl = n /\ daySwitch'.open = daySwitch.open
    BY <2>3, <2>4 DEF RailsShape
  <2>7. DayIsKnown'
    BY <2>1, <2>2, <2>6 DEF DayIsKnown, RailsShape
  <2> QED BY <2>1, <2>5, <2>6, <2>7, ArmedStays DEF HaltIsOpen
<1>7. CASE Rails!NextDay
  <2>1. /\ UNCHANGED <<yaml, env, own, trader, held, daySwitch, rails, mode, stopped>>
        /\ today' = today + 1 /\ realized' = 0
    BY <1>7 DEF Rails!NextDay
  <2>2. DayIsKnown'
    BY <2>1 DEF DayIsKnown, RailsShape
  <2> QED BY <2>1, <2>2, ArmedStays DEF RailsShape, HaltIsOpen
<1>8. CASE Rails!Engage \/ Rails!Disengage
  <2>1. UNCHANGED <<yaml, env, own, trader, today, realized, forgotten, rails, mode, held>>
    BY <1>8 DEF Rails!Engage, Rails!Disengage
  <2>2. /\ daySwitch' \in [failures : Int, open : BOOLEAN, pnl : Int, day : Int]
        /\ daySwitch'.day = daySwitch.day /\ daySwitch'.pnl = daySwitch.pnl
        /\ stopped' => daySwitch'.open
    <3>1. daySwitch \in [failures : Int, open : BOOLEAN, pnl : Int, day : Int]
      BY DEF RailsShape
    <3>2. CASE daySwitch' = [daySwitch EXCEPT !.open = TRUE]
      BY <3>1, <3>2
    <3>3. CASE daySwitch' = [daySwitch EXCEPT !.open = FALSE, !.failures = 0] /\ ~stopped'
      <4>1. PICK d : d = daySwitch
        OBVIOUS
      <4>2. PICK e : e = [d EXCEPT !.open = FALSE]
        OBVIOUS
      <4>3. /\ e \in [failures : Int, open : BOOLEAN, pnl : Int, day : Int]
            /\ e.day = d.day /\ e.pnl = d.pnl
        BY <3>1, <4>1, <4>2
      <4>4. daySwitch' = [e EXCEPT !.failures = 0]
        BY <3>3, <4>1, <4>2
      <4>5. /\ daySwitch' \in [failures : Int, open : BOOLEAN, pnl : Int, day : Int]
            /\ daySwitch'.day = e.day /\ daySwitch'.pnl = e.pnl
        BY <4>3, <4>4
      <4> QED BY <3>3, <4>1, <4>3, <4>5
    <3>4. \/ daySwitch' = [daySwitch EXCEPT !.open = TRUE]
          \/ daySwitch' = [daySwitch EXCEPT !.open = FALSE, !.failures = 0] /\ ~stopped'
      BY <1>8 DEF Rails!Engage, Rails!Disengage
    <3> QED BY <3>2, <3>3, <3>4
  <2> QED BY <1>2, <2>1, <2>2 DEF RailsShape
<1>9. CASE Rails!Restart
  <2>1. /\ UNCHANGED <<yaml, env, own, trader, held, today, realized, mode>>
        /\ rails' = {} /\ stopped' = FALSE
        /\ forgotten' = (forgotten \/ realized # 0)
        /\ daySwitch' = [failures |-> 0, open |-> FALSE, pnl |-> 0, day |-> today]
    BY <1>9 DEF Rails!Restart, Rails!None, Rails!NewSwitch
  <2>2. RailsShape'
    BY <2>1 DEF RailsShape
  <2>3. daySwitch'.day = today /\ daySwitch'.pnl = 0
    BY <2>1
  <2>4. DayIsKnown'
    <3>1. daySwitch'.day <= today'
      BY <2>1, <2>3 DEF RailsShape
    <3>2. ~forgotten' => realized = 0
      BY <2>1
    <3>3. ~forgotten' => daySwitch'.pnl = realized'
      BY <2>1, <2>3, <3>2
    <3> QED BY <2>1, <2>3, <3>1, <3>3 DEF DayIsKnown
  <2> QED BY <2>1, <2>2, <2>4 DEF Armed, HaltIsOpen
<1> QED BY <1>1, <1>4, <1>5, <1>6, <1>7, <1>8, <1>9 DEF Rails!Next

(* Whatever was set in the file, the environment or a profile, an order     *)
(* that is sent is within it (resolve_risk_rails, authorize_order), for any *)
(* settings, markets, users, results and restarts.                          *)
THEOREM RailsAlwaysHold == Rails!Spec => RailsHold
<1>1. RailsInv /\ [Rails!Next]_Rails!vars => RailsInv'
  <2>1. CASE Rails!Next
    BY <2>1, RailsKept
  <2>2. ASSUME RailsInv, UNCHANGED Rails!vars PROVE RailsInv'
    <3>1. UNCHANGED <<yaml, env, own, trader, held, daySwitch, today, realized, stopped,
                      forgotten, rails, mode>>
      BY <2>2 DEF Rails!vars, Rails!settings
    <3> QED BY <2>2, <3>1, ArmedStays DEF RailsInv, RailsShape, DayIsKnown, HaltIsOpen
  <2> QED BY <2>1, <2>2
<1>2. RailsInv /\ [Rails!Next]_Rails!vars =>
        [\A o \in order' \ order : Allowed(o)]_Rails!vars
  BY SentIsAllowed
<1>3. RailsHold <=> [][\A o \in order' \ order : Allowed(o)]_Rails!vars
  BY DEF RailsHold, Rails!RailsHold, Allowed, Rails!None
<1> QED BY <1>1, <1>2, <1>3, RailsInitially, PTL DEF Rails!Spec

=============================================================================
