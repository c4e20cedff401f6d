----------------------------- MODULE StoreProofs -----------------------------
(***************************************************************************)
(* Theorems about SharedDatabase, for any threads in any processes, either   *)
(* backend and any number of calls and crashes: a revoked credential is not  *)
(* accepted again, the audit log is one chain, and an acknowledged write is  *)
(* stored or overwritten since.  They rest on Sound, what is true of every   *)
(* transaction and of every call under way.  At the end, a theorem about     *)
(* Backups: the latest backup brings back what it is of.                    *)
(***************************************************************************)
EXTENDS SharedDatabase, WellFoundedInduction, SequenceTheorems, FiniteSetTheorems, TLAPS

-----------------------------------------------------------------------------
(* Writes applied one after the other.  WithWrites is a function defined by  *)
(* recursion on the number of writes applied: there is such a function, and  *)
(* what each write leaves in a set of states stays in it.                   *)

Runs(s, ws, f) ==
  f = [i \in 0..Len(ws) |-> IF i = 0 THEN s ELSE Applied(ws[i], f[i - 1])]

LEMMA WithWritesIsRun ==
  ASSUME NEW s, NEW ws
  PROVE  WithWrites(s, ws) = (CHOOSE f : Runs(s, ws, f))[Len(ws)]
BY DEF WithWrites, Runs

LEMMA LeastNumber ==
  ASSUME NEW N \in SUBSET Nat, N # {}
  PROVE  \E n \in N : \A m \in N : n <= m
<1>1. PICK n \in N : \A m \in N : ~(<<m, n>> \in OpToRel(<, Nat))
  BY NatLessThanWellFounded, WFMin
<1>2. \A m \in N : ~(m < n)
  <2> SUFFICES ASSUME NEW m \in N PROVE ~(m < n)
    OBVIOUS
  <2>1. <<m, n>> \in Nat \X Nat /\ <<m, n>>[1] = m /\ <<m, n>>[2] = n
    OBVIOUS
  <2> QED BY <1>1, <2>1 DEF OpToRel
<1> QED BY <1>2

(* Were there none, there would be a least number of writes without one.    *)
LEMMA RunExists ==
  ASSUME NEW s, NEW ws, Len(ws) \in Nat
  PROVE  \E f : Runs(s, ws, f)
<1> DEFINE Upto(n, f) ==
             f = [i \in 0..n |-> IF i = 0 THEN s ELSE Applied(ws[i], f[i - 1])]
           Bad == {n \in Nat : ~\E f : Upto(n, f)}
<1>1. 0 \notin Bad
  <2>1. Upto(0, [i \in 0..0 |-> s])
    OBVIOUS
  <2> QED BY <2>1
<1>2. \A n \in Nat : n + 1 \in Bad => n \in Bad
  <2> SUFFICES ASSUME NEW n \in Nat, NEW f, Upto(n, f) PROVE \E g : Upto(n + 1, g)
    OBVIOUS
  <2> DEFINE g == [i \in 0..n + 1 |-> IF i = 0 THEN s ELSE Applied(ws[i], f[i - 1])]
  <2>1. \A i \in 0..n : g[i] = f[i]
    OBVIOUS
  <2>2. \A i \in 1..n + 1 : g[i] = Applied(ws[i], f[i - 1]) /\ i - 1 \in 0..n
    OBVIOUS
  <2>3. \A i \in 1..n + 1 : g[i] = Applied(ws[i], g[i - 1])
    <3> HIDE DEF g, Upto
    <3> QED BY <2>1, <2>2
  <2>4. g[0] = s /\ \A i \in 0..n + 1 : i # 0 => i \in 1..n + 1
    OBVIOUS
  <2>5. g = [i \in 0..n + 1 |-> g[i]]
    OBVIOUS
  <2>6. Upto(n + 1, g)
    <3> HIDE DEF g
    <3> QED BY <2>3, <2>4, <2>5
  <2> QED BY <2>6
<1>3. Bad = {}
  <2> SUFFICES ASSUME NEW n \in Bad, \A m \in Bad : n <= m PROVE FALSE
    <3>1. Bad \in SUBSET Nat
      OBVIOUS
    <3> HIDE DEF Bad
    <3> QED BY <3>1, LeastNumber
  <2>1. n \in Nat /\ n # 0
    BY <1>1
  <2>2. n - 1 \in Nat /\ n = (n - 1) + 1
    BY <2>1
  <2> HIDE DEF Bad
  <2>3. n - 1 \in Bad
    BY <1>2, <2>2
  <2> QED BY <2>1, <2>2, <2>3
<1>4. \E f : Upto(Len(ws), f)
  BY <1>3
<1> QED BY <1>4 DEF Runs

LEMMA WithWritesRuns ==
  ASSUME NEW s, NEW ws, Len(ws) \in Nat
  PROVE  \E f : /\ f[0] = s /\ WithWrites(s, ws) = f[Len(ws)]
                /\ \A i \in 1..Len(ws) : f[i] = Applied(ws[i], f[i - 1])
<1>1. PICK f : f = CHOOSE g : Runs(s, ws, g)
  OBVIOUS
<1>2. Runs(s, ws, f)
  BY <1>1, RunExists
<1>3. f[0] = s /\ \A i \in 1..Len(ws) : f[i] = Applied(ws[i], f[i - 1])
  BY <1>2 DEF Runs
<1> QED BY <1>1, <1>3, WithWritesIsRun

LEMMA WithNoWrites == ASSUME NEW s PROVE WithWrites(s, <<>>) = s
BY WithWritesRuns

(* What every write keeps, all of them keep.                                *)
LEMMA WritesKeep ==
  ASSUME NEW P, NEW s \in P, NEW ws, Len(ws) \in Nat,
         \A i \in 1..Len(ws) : \A x \in P : Applied(ws[i], x) \in P
  PROVE  WithWrites(s, ws) \in P
<1>1. PICK f : /\ f[0] = s /\ WithWrites(s, ws) = f[Len(ws)]
               /\ \A i \in 1..Len(ws) : f[i] = Applied(ws[i], f[i - 1])
  BY WithWritesRuns
<1> DEFINE Bad == {n \in 0..Len(ws) : f[n] \notin P}
<1>2. Bad = {}
  <2> SUFFICES ASSUME NEW n \in Bad, \A m \in Bad : n <= m PROVE FALSE
    <3>1. Bad \in SUBSET Nat
      OBVIOUS
    <3> HIDE DEF Bad
    <3> QED BY <3>1, LeastNumber
  <2>1. n \in 1..Len(ws) /\ f[n] \notin P
    BY <1>1
  <2>2. n - 1 \in 0..Len(ws) /\ ~(n <= n - 1)
    BY <2>1
  <2>3. n - 1 \notin Bad
    <3> HIDE DEF Bad
    <3> QED BY <2>2
  <2>4. f[n - 1] \in P
    BY <2>2, <2>3
  <2> QED BY <1>1, <2>1, <2>4
<1> QED BY <1>1, <1>2

(* One more write is applied to what the others leave.                      *)
LEMMA OneMoreWrite ==
  ASSUME NEW s, NEW T, NEW ws \in Seq(T), NEW w \in T
  PROVE  WithWrites(s, Append(ws, w)) = Applied(w, WithWrites(s, ws))
<1>0. PICK n, more : n = Len(ws) /\ more = Append(ws, w)
  OBVIOUS
<1>1. /\ n \in Nat /\ Len(more) = n + 1 /\ more[n + 1] = w
      /\ \A i \in 1..n : more[i] = ws[i]
  <2>1. n \in Nat
    BY <1>0, LenProperties
  <2>2. Len(more) = n + 1 /\ more[n + 1] = w /\ \A i \in 1..n : more[i] = ws[i]
    BY <1>0, AppendProperties
  <2> QED BY <2>1, <2>2
<1>2. PICK f : /\ f[0] = s /\ WithWrites(s, ws) = f[n]
               /\ \A i \in 1..n : f[i] = Applied(ws[i], f[i - 1])
  <2>1. Len(ws) \in Nat
    BY <1>0, <1>1
  <2>2. PICK f : /\ f[0] = s /\ WithWrites(s, ws) = f[Len(ws)]
                 /\ \A i \in 1..Len(ws) : f[i] = Applied(ws[i], f[i - 1])
    BY <2>1, WithWritesRuns
  <2> QED BY <1>0, <2>2
<1>3. PICK g : /\ g[0] = s /\ WithWrites(s, more) = g[n + 1]
               /\ \A i \in 1..n + 1 : g[i] = Applied(more[i], g[i - 1])
  <2>1. Len(more) \in Nat
    BY <1>1
  <2>2. PICK g : /\ g[0] = s /\ WithWrites(s, more) = g[Len(more)]
                 /\ \A i \in 1..Len(more) : g[i] = Applied(more[i], g[i - 1])
    BY <2>1, WithWritesRuns
  <2> QED BY <1>1, <2>2
<1> DEFINE Bad == {i \in 0..n : f[i] # g[i]}
<1>4. Bad = {}
  <2> SUFFICES ASSUME NEW i \in Bad, \A m \in Bad : i <= m PROVE FALSE
    <3>1. Bad \in SUBSET Nat
      OBVIOUS
    <3> HIDE DEF Bad
    <3> QED BY <3>1, LeastNumber
  <2>1. i \in 1..n /\ f[i] # g[i]
    BY <1>1, <1>2, <1>3
  <2>2. i - 1 \in 0..n /\ ~(i <= i - 1)
    BY <1>1, <2>1
  <2>3. i - 1 \notin Bad
    <3> HIDE DEF Bad
    <3> QED BY <2>2
  <2>4. f[i - 1] = g[i - 1]
    BY <2>2, <2>3
  <2>5. i \in 1..n + 1
    BY <1>1, <2>1
  <2> QED BY <1>1, <1>2, <1>3, <2>1, <2>4, <2>5
<1>5. f[n] = g[n]
  BY <1>1, <1>4
<1>6. n + 1 \in 1..n + 1 /\ (n + 1) - 1 = n
  BY <1>1
<1>7. WithWrites(s, more) = Applied(w, WithWrites(s, ws))
  BY <1>1, <1>2, <1>3, <1>5, <1>6
<1> QED BY <1>0, <1>7

-----------------------------------------------------------------------------
(* The calls, from the tables of the services.                              *)

Ops == {"get", "add", "update", "delete", "record", "gauge", "query", "report", "history",
        "record_run", "get_runs", "purge", "create_user", "authenticate", "create_session",
        "validate_session", "revoke_session", "issue_api_key", "validate_api_key",
        "revoke_api_key"}
Deeds == {"nothing", "insert", "update", "delete", "append", "purge"}
Places == Keys \cup {"log", "samples"}

(* Each call is in the table of one service.                                *)
LEMMA ServiceCalls ==
  /\ DOMAIN RepositoryCalls = {"get", "add", "update", "delete"}
  /\ DOMAIN AuditCalls = {"record"}
  /\ DOMAIN MetricsCalls = {"gauge", "query"}
  /\ DOMAIN HealthCalls = {"report", "history"}
  /\ DOMAIN ManifestCalls = {"record_run", "get_runs"}
  /\ DOMAIN ArchiveCalls = {"purge"}
  /\ DOMAIN UserCalls = {"create_user", "authenticate"}
  /\ DOMAIN SessionCalls = {"create_session", "validate_session", "revoke_session"}
  /\ DOMAIN ApiKeyCalls = {"issue_api_key", "validate_api_key", "revoke_api_key"}
BY DEF RepositoryCalls, AuditCalls, MetricsCalls, HealthCalls, ManifestCalls, ArchiveCalls,
       UserCalls, SessionCalls, ApiKeyCalls

LEMMA InOneService ==
  ASSUME NEW s \in Services, NEW op \in DOMAIN s
  PROVE  op \in DOMAIN Known /\ Known[op] = s[op]
<1>1. \A r \in Services : op \in DOMAIN r => r = s
  BY ServiceCalls DEF Services
<1>2. (CHOOSE r \in Services : op \in DOMAIN r) = s
  BY <1>1
<1>3. op \in UNION {DOMAIN r : r \in Services}
  OBVIOUS
<1> QED BY <1>2, <1>3 DEF Known

LEMMA KnownOps == DOMAIN Known = Ops
BY ServiceCalls DEF Known, Services, Ops

Line(look, bare, do, at) == [look |-> look, bare |-> bare, do |-> do, at |-> at]
LEMMA KnownCalls ==
  /\ Known["get"] = Line("row", FALSE, "nothing", "row")
  /\ Known["add"] = Line("nothing", FALSE, "insert", "row")
  /\ Known["update"] = Line("nothing", FALSE, "update", "row")
  /\ Known["delete"] = Line("nothing", FALSE, "delete", "row")
  /\ Known["record"] = Line("log", TRUE, "append", "log")
  /\ Known["gauge"] = Line("nothing", FALSE, "append", "samples")
  /\ Known["query"] = Line("samples", TRUE, "nothing", "samples")
  /\ Known["report"] = Line("nothing", FALSE, "append", "samples")
  /\ Known["history"] = Line("samples", TRUE, "nothing", "samples")
  /\ Known["record_run"] = Line("nothing", FALSE, "append", "samples")
  /\ Known["get_runs"] = Line("samples", TRUE, "nothing", "samples")
  /\ Known["purge"] = Line("nothing", FALSE, "purge", "log")
  /\ Known["create_user"] = Line("user", FALSE, "insert", "user")
  /\ Known["authenticate"] = Line("user", FALSE, "nothing", "user")
  /\ Known["create_session"] = Line("nothing", FALSE, "insert", "session")
  /\ Known["validate_session"] = Line("session", FALSE, "delete", "session")
  /\ Known["revoke_session"] = Line("session", FALSE, "delete", "session")
  /\ Known["issue_api_key"] = Line("nothing", FALSE, "insert", "key")
  /\ Known["validate_api_key"] = Line("key", FALSE, "nothing", "key")
  /\ Known["revoke_api_key"] = Line("nothing", FALSE, "update", "key")
<1> USE DEF Line
<1>1. \A op \in DOMAIN RepositoryCalls : Known[op] = RepositoryCalls[op]
  BY InOneService DEF Services
<1>2. \A op \in DOMAIN AuditCalls : Known[op] = AuditCalls[op]
  BY InOneService DEF Services
<1>3. \A op \in DOMAIN MetricsCalls : Known[op] = MetricsCalls[op]
  BY InOneService DEF Services
<1>4. \A op \in DOMAIN HealthCalls : Known[op] = HealthCalls[op]
  BY InOneService DEF Services
<1>5. \A op \in DOMAIN ManifestCalls : Known[op] = ManifestCalls[op]
  BY InOneService DEF Services
<1>6. \A op \in DOMAIN ArchiveCalls : Known[op] = ArchiveCalls[op]
  BY InOneService DEF Services
<1>7. \A op \in DOMAIN UserCalls : Known[op] = UserCalls[op]
  BY InOneService DEF Services
<1>8. \A op \in DOMAIN SessionCalls : Known[op] = SessionCalls[op]
  BY InOneService DEF Services
<1>9. \A op \in DOMAIN ApiKeyCalls : Known[op] = ApiKeyCalls[op]
  BY InOneService DEF Services
<1>10. /\ Known["get"] = Line("row", FALSE, "nothing", "row")
       /\ Known["add"] = Line("nothing", FALSE, "insert", "row")
       /\ Known["update"] = Line("nothing", FALSE, "update", "row")
       /\ Known["delete"] = Line("nothing", FALSE, "delete", "row")
  BY <1>1, ServiceCalls DEF RepositoryCalls, Looks, Does
<1>11. Known["record"] = Line("log", TRUE, "append", "log")
  BY <1>2, ServiceCalls DEF AuditCalls, Reads
<1>12. /\ Known["gauge"] = Line("nothing", FALSE, "append", "samples")
       /\ Known["query"] = Line("samples", TRUE, "nothing", "samples")
  BY <1>3, ServiceCalls DEF MetricsCalls, Reads, Does
<1>13. /\ Known["report"] = Line("nothing", FALSE, "append", "samples")
       /\ Known["history"] = Line("samples", TRUE, "nothing", "samples")
  BY <1>4, ServiceCalls DEF HealthCalls, Reads, Does
<1>14. /\ Known["record_run"] = Line("nothing", FALSE, "append", "samples")
       /\ Known["get_runs"] = Line("samples", TRUE, "nothing", "samples")
  BY <1>5, ServiceCalls DEF ManifestCalls, Reads, Does
<1>15. Known["purge"] = Line("nothing", FALSE, "purge", "log")
  BY <1>6, ServiceCalls DEF ArchiveCalls, Does
<1>16. /\ Known["create_user"] = Line("user", FALSE, "insert", "user")
       /\ Known["authenticate"] = Line("user", FALSE, "nothing", "user")
  BY <1>7, ServiceCalls DEF UserCalls, LooksThen, Looks
<1>17. /\ Known["create_session"] = Line("nothing", FALSE, "insert", "session")
       /\ Known["validate_session"] = Line("session", FALSE, "delete", "session")
       /\ Known["revoke_session"] = Line("session", FALSE, "delete", "session")
  BY <1>8, ServiceCalls DEF SessionCalls, LooksThen, Looks, Does
<1>18. /\ Known["issue_api_key"] = Line("nothing", FALSE, "insert", "key")
       /\ Known["validate_api_key"] = Line("key", FALSE, "nothing", "key")
       /\ Known["revoke_api_key"] = Line("nothing", FALSE, "update", "key")
  BY <1>9, ServiceCalls DEF ApiKeyCalls, Looks, Does
<1> HIDE DEF Line
<1> QED BY <1>10, <1>11, <1>12, <1>13, <1>14, <1>15, <1>16, <1>17, <1>18

(* What is kept of a run that reaches it: one write brings it about, the    *)
(* others keep it.                                                          *)
KeepIn(P, Q, ws) ==
  \A i \in 1..Len(ws) : \A x \in Q : x \in P => Applied(ws[i], x) \in P
LeadsTo(P, Q, ws, k) == \A x \in Q : Applied(ws[k], x) \in P

LEMMA WritesReach ==
  ASSUME NEW Q, NEW P, NEW s \in Q, NEW ws, Len(ws) \in Nat, NEW k \in 1..Len(ws),
         KeepIn(Q, Q, ws), KeepIn(P, Q, ws), LeadsTo(P, Q, ws, k)
  PROVE  WithWrites(s, ws) \in P
<1>1. PICK f : /\ f[0] = s /\ WithWrites(s, ws) = f[Len(ws)]
               /\ \A i \in 1..Len(ws) : f[i] = Applied(ws[i], f[i - 1])
  BY WithWritesRuns
<1> DEFINE Bad == {n \in 0..Len(ws) : f[n] \notin Q \/ (k <= n /\ f[n] \notin P)}
<1>2. Bad = {}
  <2> SUFFICES ASSUME NEW n \in Bad, \A m \in Bad : n <= m PROVE FALSE
    <3>1. Bad \in SUBSET Nat
      OBVIOUS
    <3> HIDE DEF Bad
    <3> QED BY <3>1, LeastNumber
  <2>1. n \in 1..Len(ws)
    BY <1>1
  <2>2. n - 1 \in 0..Len(ws) /\ ~(n <= n - 1)
    BY <2>1
  <2>3. n - 1 \notin Bad
    <3> HIDE DEF Bad
    <3> QED BY <2>2
  <2>4. f[n - 1] \in Q /\ (k <= n - 1 => f[n - 1] \in P)
    BY <2>2, <2>3
  <2>5. f[n] = Applied(ws[n], f[n - 1])
    BY <1>1, <2>1
  <2>6. f[n] \in Q
    BY <2>1, <2>4, <2>5 DEF KeepIn
  <2>7. CASE n = k
    BY <2>4, <2>5, <2>6, <2>7 DEF LeadsTo
  <2>8. CASE n # k
    <3>1. k <= n => k <= n - 1
      BY <2>1, <2>8
    <3> QED BY <2>1, <2>4, <2>5, <2>6, <3>1 DEF KeepIn
  <2> QED BY <2>7, <2>8
<1> QED BY <1>1, <1>2

-----------------------------------------------------------------------------
(* Types.  The log is bounded, so that it has a last entry.                 *)

Entries == [id : Nat, previous_hash : Nat, seq : Nat]
Logs == {log \in SUBSET Entries : \E bound \in Nat : \A e \in log : e.seq <= bound}
States == [rows : [Keys -> Nat], samples : SUBSET Nat, log : Logs]
Writes ==
  {w \in [do : Deeds, at : Places, val : Nat \cup Entries] :
     \/ w.do \in {"insert", "update", "delete"} /\ w.at \in Keys /\ w.val \in Nat
     \/ w.do = "append" /\ w.at = "samples" /\ w.val \in Nat
     \/ w.do = "append" /\ w.at = "log" /\ w.val \in Entries
     \/ w.do = "purge" /\ w.at = "log" /\ w.val \in Nat}
Conns ==
  [txn : {"none", "began", "reading", "writing", "open", "aborted"}, writes : Seq(Writes),
   snap : States \cup {{}}, stale : BOOLEAN]
Steps == {"idle", "look", "leave", "look_user", "leave_user", "write", "commit", "settle"}
Jobs == [op : Ops \cup {"none"}, n : Nat, step : Steps, seen : Nat, gone : BOOLEAN]

Typed ==
  /\ backend \in {"sqlite", "postgres"} /\ mix \subseteq Ops
  /\ stored \in States /\ conn \in [Procs -> Conns] /\ job \in [Threads -> Jobs]
  /\ calls \in Seq(Ops) /\ Len(calls) # 0 /\ aged \in Nat /\ serial \in Nat
  /\ \A p \in Procs : conn[p].txn = "reading" => conn[p].snap \in States

LEMMA LastIs ==
  ASSUME NEW L \in Logs, L # {}
  PROVE  \E g \in L : LastOf(L) = g.id /\ \A f \in L : f.seq <= g.seq
<1> DEFINE Bounds == {b \in Nat : \A e \in L : e.seq <= b}
<1>1. PICK b \in Bounds : \A m \in Bounds : b <= m
  <2>1. Bounds \in SUBSET Nat /\ Bounds # {}
    BY DEF Logs
  <2> HIDE DEF Bounds
  <2> QED BY <2>1, LeastNumber
<1>2. \E g \in L : g.seq = b
  <2> SUFFICES ASSUME \A g \in L : g.seq # b PROVE FALSE
    OBVIOUS
  <2>1. \A g \in L : g.seq \in Nat /\ g.seq <= b - 1
    BY DEF Logs, Entries
  <2>2. b - 1 \in Nat
    BY <2>1
  <2>3. b - 1 \in Bounds
    BY <2>1, <2>2
  <2> QED BY <1>1, <2>3
<1>3. PICK g : g = CHOOSE e \in L : \A f \in L : f.seq <= e.seq
  OBVIOUS
<1>4. g \in L /\ \A f \in L : f.seq <= g.seq
  BY <1>1, <1>2, <1>3
<1> QED BY <1>3, <1>4 DEF LastOf

LEMMA LastType == ASSUME NEW L \in Logs PROVE LastOf(L) \in Nat
BY LastIs DEF LastOf, Logs, Entries

LEMMA AppliedType ==
  ASSUME NEW w \in Writes, NEW s \in States
  PROVE  Applied(w, s) \in States
<1>1. CASE w.do \in {"insert", "update", "delete"}
  BY <1>1 DEF Applied, States, Writes
<1>2. CASE w.do = "append" /\ w.at = "samples"
  BY <1>2 DEF Applied, States, Writes
<1>3. CASE w.do = "append" /\ w.at = "log"
  <2>1. s.log \cup {w.val} \in Logs
    <3>1. PICK b \in Nat : \A e \in s.log : e.seq <= b
      BY DEF States, Logs
    <3>2. w.val \in Entries /\ s.log \subseteq Entries
      BY <1>3 DEF States, Logs, Writes
    <3>3. \A e \in s.log \cup {w.val} : e.seq <= b + w.val.seq
      BY <3>1, <3>2 DEF Entries
    <3>4. b + w.val.seq \in Nat
      BY <3>2 DEF Entries
    <3> QED BY <3>2, <3>3, <3>4 DEF Logs
  <2> QED BY <1>3, <2>1 DEF Applied, States
<1>4. CASE w.do = "purge"
  <2>1. {e \in s.log : e.id > w.val} \in Logs
    BY DEF States, Logs
  <2> QED BY <1>4, <2>1 DEF Applied, States
<1> QED BY <1>1, <1>2, <1>3, <1>4 DEF Writes

LEMMA WithWritesType ==
  ASSUME NEW ws \in Seq(Writes), NEW s \in States
  PROVE  WithWrites(s, ws) \in States
<1>1. Len(ws) \in Nat /\ \A i \in 1..Len(ws) : ws[i] \in Writes
  BY LenProperties
<1> QED BY <1>1, WritesKeep, AppliedType

-----------------------------------------------------------------------------
(* The course of a call: where it may be, by what it is.  Threads make calls *)
(* of different numbers, and calls that touch the same are noted.           *)

Course ==
  \A t \in Threads : Busy(t) =>
    /\ job[t].op \in Ops /\ job[t].n \in DOMAIN calls
    /\ \/ calls[job[t].n] = job[t].op
       \/ job[t].op = "record" /\ calls[job[t].n] \in {"create_user", "authenticate"}
    /\ job[t].step \in {"write", "commit"} => Known[job[t].op].do # "nothing"
    /\ job[t].step = "settle" => job[t].op = "purge"
    /\ job[t].step \in {"look_user", "leave_user"} => job[t].op \in Validations
    /\ job[t].step \in {"look", "leave"} => Known[job[t].op].look # "nothing"
    /\ job[t].op = "record" => job[t].step # "leave"

Paired ==
  \A t, u \in Threads : t # u /\ Busy(t) /\ Busy(u) =>
    /\ job[t].n # job[u].n
    /\ Related(calls[job[t].n], calls[job[u].n]) => {job[t].n, job[u].n} \in together

LEMMA KnownType ==
  ASSUME NEW op \in Ops
  PROVE  Known[op] \in [look : Places \cup {"nothing"}, bare : BOOLEAN, do : Deeds, at : Places]
<1> DEFINE Calls == [look : Places \cup {"nothing"}, bare : BOOLEAN, do : Deeds, at : Places]
<1>1. \A look \in Places \cup {"nothing"}, bare \in BOOLEAN, do \in Deeds, at \in Places :
        Line(look, bare, do, at) \in Calls
  BY DEF Line
<1>2. /\ {"row", "user", "session", "key", "log", "samples"} \subseteq Places
      /\ {"nothing", "insert", "update", "delete", "append", "purge"} \subseteq Deeds
  BY DEF Places, Keys, Deeds
<1> HIDE DEF Calls
<1>3. /\ Known["get"] \in Calls /\ Known["add"] \in Calls /\ Known["update"] \in Calls
      /\ Known["delete"] \in Calls /\ Known["record"] \in Calls /\ Known["gauge"] \in Calls
      /\ Known["query"] \in Calls /\ Known["report"] \in Calls /\ Known["history"] \in Calls
      /\ Known["record_run"] \in Calls /\ Known["get_runs"] \in Calls
  BY <1>1, <1>2, KnownCalls, Zenon
<1>4. /\ Known["purge"] \in Calls /\ Known["create_user"] \in Calls
      /\ Known["authenticate"] \in Calls /\ Known["create_session"] \in Calls
      /\ Known["validate_session"] \in Calls /\ Known["revoke_session"] \in Calls
      /\ Known["issue_api_key"] \in Calls /\ Known["validate_api_key"] \in Calls
      /\ Known["revoke_api_key"] \in Calls
  BY <1>1, <1>2, KnownCalls, Zenon
<1>6. Known[op] \in Calls
  BY <1>3, <1>4 DEF Ops
<1> QED BY <1>6 DEF Calls

LEMMA HomeIsProc == ASSUME NEW t \in Threads PROVE Home[t] \in Procs
BY DEF Procs

LEMMA ViewType == ASSUME Typed, NEW p \in Procs PROVE View(p) \in States
<1>1. conn[p].writes \in Seq(Writes)
  BY DEF Typed, Conns
<1> QED BY <1>1, WithWritesType DEF Typed, View

LEMMA SeenType ==
  ASSUME NEW v \in States, NEW at \in Places
  PROVE  Seen(v, at) \in Nat
<1>1. LastOf(v.log) \in Nat
  BY LastType DEF States
<1> QED BY <1>1 DEF Seen, States, Places, Keys

LEMMA LooksAtType ==
  ASSUME Typed, Course, NEW t \in Threads, job[t].step \in {"look", "look_user"}
  PROVE  LooksAt(t) \in Places
<1>1. Busy(t)
  BY DEF Busy
<1> QED BY <1>1, KnownType DEF LooksAt, Course, Places, Keys

\* How a call goes on after its lookup.
Ending(t, seen) ==
  \E out \in {"answer", "taken", "nobody", "nothing", "user"} :
    /\ Ends(t, out)
    /\ out = "user" => job[t].step \in {"look_user", "leave_user"}
Writing(t, seen) ==
  /\ job[t].step \in {"look", "leave"}
  /\ job[t].op \in {"record", "create_user", "revoke_session", "validate_session"}
  /\ Goes(t, [job[t] EXCEPT !.step = "write", !.seen = seen])
Admitting(t, seen) ==
  /\ job[t].step \in {"look", "leave"} /\ job[t].op \in Validations /\ seen # 0
  /\ job[t].op = "validate_api_key" => ~Revoked(seen)
  /\ Goes(t, [job[t] EXCEPT !.step = "look_user", !.seen = seen])
Authenticating(t, seen) ==
  /\ job[t].step \in {"look", "leave"} /\ job[t].op = "authenticate"
  /\ Goes(t, [job[t] EXCEPT !.op = "record", !.step = "look"])

LEMMA LookingCalls ==
  ASSUME NEW op \in Ops, Known[op].look # "nothing"
  PROVE  op \in {"get", "query", "history", "get_runs", "record", "create_user", "authenticate",
                 "revoke_session", "validate_session", "validate_api_key"}
BY KnownCalls DEF Ops, Line

LEMMA AfterIs ==
  ASSUME Typed, Course, NEW t \in Threads, NEW seen,
         job[t].step \in {"look", "look_user", "leave", "leave_user"}, After(t, seen)
  PROVE  Ending(t, seen) \/ Writing(t, seen) \/ Admitting(t, seen) \/ Authenticating(t, seen)
<1>1. CASE job[t].step \in {"look_user", "leave_user"}
  BY <1>1 DEF After, Ending
<1>2. CASE job[t].step \in {"look", "leave"}
  <2>1. job[t].op \in {"get", "query", "history", "get_runs", "record", "create_user",
                       "authenticate", "revoke_session", "validate_session", "validate_api_key"}
    BY <1>2, LookingCalls DEF Course, Busy
  <2>2. CASE job[t].op \in {"get", "query", "history", "get_runs"}
    BY <1>2, <2>2 DEF After, Ending
  <2>3. CASE job[t].op = "record"
    BY <1>2, <2>3 DEF After, Writing
  <2>4. CASE job[t].op = "create_user"
    BY <1>2, <2>4 DEF After, Writing, Ending
  <2>5. CASE job[t].op = "authenticate"
    BY <1>2, <2>5 DEF After, Authenticating, Ending
  <2>6. CASE job[t].op = "revoke_session"
    BY <1>2, <2>6 DEF After, Writing, Ending
  <2>7. CASE job[t].op = "validate_session"
    BY <1>2, <2>7 DEF After, Writing, Ending, Admitting, Validations
  <2>8. CASE job[t].op = "validate_api_key"
    BY <1>2, <2>8 DEF After, Ending, Admitting, Validations
  <2> QED BY <2>1, <2>2, <2>3, <2>4, <2>5, <2>6, <2>7, <2>8
<1> QED BY <1>1, <1>2

-----------------------------------------------------------------------------
(* Types and courses are kept.                                              *)

LEMMA KnownDeeds ==
  ASSUME NEW op \in Ops
  PROVE  \/ Known[op].do = "nothing"
         \/ Known[op].do \in {"insert", "update", "delete"} /\ Known[op].at \in Keys
         \/ Known[op].do = "append" /\ Known[op].at = "samples"
         \/ op = "record" /\ Known[op].do = "append" /\ Known[op].at = "log"
         \/ op = "purge" /\ Known[op].do = "purge" /\ Known[op].at = "log"
BY KnownCalls DEF Ops, Line, Keys

LEMMA StatementType ==
  ASSUME Typed, Course, NEW t \in Threads, job[t].step = "write"
  PROVE  /\ Statement(t) \in Writes
         /\ Statement(t).do = Known[job[t].op].do /\ Statement(t).at = Known[job[t].op].at
         /\ Statement(t).at \in Keys => Statement(t).val = job[t].n
         /\ job[t].op = "record" => Statement(t).val = Entry(job[t].n, job[t].seen)
<1> DEFINE op == job[t].op
<1>1. op \in Ops /\ Known[op].do # "nothing" /\ job[t].n \in Nat /\ job[t].seen \in Nat
  BY DEF Course, Typed, Jobs, Busy
<1>2. Entry(job[t].n, job[t].seen) \in Entries
  BY <1>1 DEF Entry, Entries, Typed
<1>3. aged \in Nat
  BY DEF Typed
<1> HIDE DEF op
<1>4. CASE Known[op].do \in {"insert", "update", "delete"} /\ Known[op].at \in Keys
  BY <1>1, <1>4, KnownType, KnownCalls DEF op, Statement, Writes, Keys, Line
<1>5. CASE Known[op].do = "append" /\ Known[op].at = "samples"
  BY <1>1, <1>5, KnownType, KnownCalls DEF op, Statement, Writes, Keys, Line
<1>6. CASE op = "record" /\ Known[op].do = "append" /\ Known[op].at = "log"
  BY <1>1, <1>2, <1>6, KnownType DEF op, Statement, Writes, Keys
<1>7. CASE op = "purge" /\ Known[op].do = "purge" /\ Known[op].at = "log"
  BY <1>1, <1>3, <1>7, KnownType DEF op, Statement, Writes, Keys
<1> QED BY <1>1, <1>4, <1>5, <1>6, <1>7, KnownDeeds

ConnTyped ==
  conn \in [Procs -> Conns] /\ \A p \in Procs : conn[p].txn = "reading" => conn[p].snap \in States

LEMMA ClosedType == Closed \in Conns
BY DEF Closed, Conns

LEMMA CommittedType ==
  ASSUME Typed, NEW p \in Procs, Committed(p)
  PROVE  stored' \in States /\ ConnTyped'
<1>1. stored' \in States
  BY WithWritesType DEF Typed, Committed, Conns
<1>2. conn' \in [Procs -> Conns]
  BY ClosedType DEF Typed, Committed, Conns
<1>3. ASSUME NEW q \in Procs, conn'[q].txn = "reading" PROVE conn'[q].snap \in States
  BY <1>3 DEF Typed, Committed, Conns, Closed
<1> QED BY <1>1, <1>2, <1>3 DEF ConnTyped

LEMMA RolledBackType ==
  ASSUME Typed, NEW p \in Procs, RolledBack(p)
  PROVE  stored' \in States /\ ConnTyped'
BY ClosedType DEF Typed, RolledBack, ConnTyped, Closed

LEMMA SelectsType ==
  ASSUME Typed, NEW p \in Procs, Selects(p)
  PROVE  stored' \in States /\ ConnTyped'
<1>1. stored' \in States
  BY DEF Typed, Selects
<1>2. conn' \in [Procs -> Conns]
  <2>1. conn[p] \in Conns
    BY DEF Typed
  <2>2. /\ [conn[p] EXCEPT !.txn = "open"] \in Conns
        /\ [conn[p] EXCEPT !.txn = "reading", !.snap = stored] \in Conns
    BY <2>1 DEF Typed, Conns
  <2> QED BY <2>2 DEF Typed, Selects
<1>3. \A q \in Procs : conn'[q].txn = "reading" => conn'[q].snap \in States
  BY DEF Typed, Selects, Conns
<1> QED BY <1>1, <1>2, <1>3 DEF ConnTyped

\* What a step that is no call and no crash leaves alone, apart from the job of t.
OneJob(t) ==
  \/ job' = [job EXCEPT ![t] = Idle]
  \/ /\ \E j \in Jobs : job' = [job EXCEPT ![t] = j] /\ j.n = job[t].n /\ j.step # "idle"
                        /\ \/ j.op = job[t].op
                           \/ j.op = "record" /\ job[t].op \in {"create_user", "authenticate"}
     /\ Busy(t)
     /\ \/ job'[t].step = "look" /\ job'[t].op = "record"
        \/ job'[t].step = "leave" /\ Known[job'[t].op].look # "nothing" /\ job'[t].op # "record"
        \/ job'[t].step \in {"look_user", "leave_user"} /\ job'[t].op \in Validations
        \/ job'[t].step \in {"write", "commit"} /\ Known[job'[t].op].do # "nothing"
        \/ job'[t].step = "settle" /\ job'[t].op = "purge"

LEMMA OneJobCourse ==
  ASSUME Typed, Course, Paired, NEW t \in Threads, OneJob(t), UNCHANGED <<calls, together>>
  PROVE  job' \in [Threads -> Jobs] /\ Course' /\ Paired'
<1>1. Idle \in Jobs
  BY DEF Idle, Jobs, Steps
<1>2. CASE job' = [job EXCEPT ![t] = Idle]
  BY <1>1, <1>2 DEF Typed, Course, Paired, Busy, Idle, Related
<1>3. CASE job' # [job EXCEPT ![t] = Idle]
  <2>1. PICK j \in Jobs : job' = [job EXCEPT ![t] = j] /\ j.n = job[t].n /\ j.step # "idle"
                        /\ \/ j.op = job[t].op
                           \/ j.op = "record" /\ job[t].op \in {"create_user", "authenticate"}
    BY <1>3 DEF OneJob
  <2>2. /\ Busy(t)
        /\ \/ j.step = "look" /\ j.op = "record"
           \/ j.step = "leave" /\ Known[j.op].look # "nothing" /\ j.op # "record"
           \/ j.step \in {"look_user", "leave_user"} /\ j.op \in Validations
           \/ j.step \in {"write", "commit"} /\ Known[j.op].do # "nothing"
           \/ j.step = "settle" /\ j.op = "purge"
    BY <1>3, <2>1 DEF OneJob, Typed
  <2>3. job' \in [Threads -> Jobs]
    BY <2>1 DEF Typed
  <2>4. Known["record"].look # "nothing" /\ "record" \in Ops
    BY KnownCalls DEF Line, Ops
  <2>5. Course'
    BY <2>1, <2>2, <2>4 DEF Typed, Course, Busy
  <2>6. \A x \in Threads : Busy(x)' => Busy(x) /\ job'[x].n = job[x].n
    BY <2>1, <2>2 DEF Typed, Busy
  <2>7. Paired'
    BY <2>6 DEF Paired, Related
  <2> QED BY <2>3, <2>5, <2>7
<1> QED BY <1>2, <1>3

LEMMA AfterOneJob ==
  ASSUME Typed, Course, NEW t \in Threads, NEW seen \in Nat,
         job[t].step \in {"look", "look_user", "leave", "leave_user"}, After(t, seen)
  PROVE  OneJob(t)
<1>1. Busy(t) /\ job[t] \in Jobs
  BY DEF Busy, Typed
<1>2. CASE Ending(t, seen)
  BY <1>2 DEF Ending, Ends, OneJob
<1>3. CASE Writing(t, seen)
  <2>1. Known[job[t].op].do # "nothing"
    BY <1>3, KnownCalls DEF Writing, Line
  <2>2. [job[t] EXCEPT !.step = "write", !.seen = seen] \in Jobs
    BY <1>1 DEF Jobs, Steps
  <2> QED BY <1>1, <1>3, <2>1, <2>2 DEF Writing, Goes, OneJob, Typed, Jobs
<1>4. CASE Admitting(t, seen)
  <2>1. [job[t] EXCEPT !.step = "look_user", !.seen = seen] \in Jobs
    BY <1>1 DEF Jobs, Steps
  <2> QED BY <1>1, <1>4, <2>1 DEF Admitting, Goes, OneJob, Typed, Jobs
<1>5. CASE Authenticating(t, seen)
  <2>1. [job[t] EXCEPT !.op = "record", !.step = "look"] \in Jobs
    BY <1>1 DEF Jobs, Steps, Ops
  <2> QED BY <1>1, <1>5, <2>1 DEF Authenticating, Goes, OneJob, Typed, Jobs
<1> QED BY <1>2, <1>3, <1>4, <1>5, AfterIs


Sound == Typed /\ Course /\ Paired

LEMMA SoundInit == ASSUME Init PROVE Sound
<1>1. Idle \in Jobs
  BY DEF Idle, Jobs, Steps
<1>2. backend \in {"sqlite", "postgres"} /\ mix \subseteq Ops
  BY CallAssumption, KnownOps DEF Init
<1>3. stored \in States
  <2>1. [id |-> 1, previous_hash |-> 0, seq |-> 0] \in Entries
    BY DEF Entries
  <2>2. {[id |-> 1, previous_hash |-> 0, seq |-> 0]} \in Logs
    BY <2>1 DEF Logs
  <2> QED BY <2>2 DEF Init, States
<1>4. conn \in [Procs -> Conns] /\ \A p \in Procs : conn[p].txn # "reading"
  BY ClosedType DEF Init, Closed
<1>5. calls \in Seq(Ops) /\ Len(calls) # 0
  BY DEF Init, Ops
<1>6. job \in [Threads -> Jobs] /\ \A t \in Threads : ~Busy(t)
  BY <1>1 DEF Init, Busy, Idle
<1>7. Typed
  BY <1>2, <1>3, <1>4, <1>5, <1>6 DEF Init, Typed
<1>8. Course /\ Paired
  BY <1>6 DEF Course, Paired
<1> QED BY <1>7, <1>8 DEF Sound

LEMMA CallsGrow ==
  ASSUME NEW op \in Ops, calls \in Seq(Ops), calls' = Append(calls, op)
  PROVE  /\ calls' \in Seq(Ops) /\ Len(calls') = Len(calls) + 1 /\ Len(calls) \in Nat
         /\ DOMAIN calls = 1..Len(calls) /\ DOMAIN calls' = 1..Len(calls) + 1
         /\ \A n \in DOMAIN calls : n \in DOMAIN calls' /\ calls'[n] = calls[n]
         /\ calls'[Len(calls) + 1] = op
<1>1. /\ Append(calls, op) \in Seq(Ops) /\ Len(Append(calls, op)) = Len(calls) + 1
      /\ \A i \in 1..Len(calls) : Append(calls, op)[i] = calls[i]
      /\ Append(calls, op)[Len(calls) + 1] = op
  BY AppendProperties
<1>2. Len(calls) \in Nat /\ DOMAIN calls = 1..Len(calls) /\ DOMAIN calls' = 1..Len(calls')
  BY <1>1, LenProperties
<1> QED BY <1>1, <1>2

LEMMA CallSound ==
  ASSUME Sound, NEW t \in Threads, NEW op \in mix, Call(t, op)
  PROVE  Sound'
<1> USE DEF Sound
<1>1. op \in Ops /\ calls \in Seq(Ops) /\ calls' = Append(calls, op)
  BY DEF Typed, Call
<1>2. PICK n : n = Len(calls) + 1
  OBVIOUS
<1>3. /\ calls' \in Seq(Ops) /\ Len(calls') = n /\ n \in Nat \ {0}
      /\ DOMAIN calls = 1..(n - 1) /\ DOMAIN calls' = 1..n
      /\ \A m \in DOMAIN calls : m \in DOMAIN calls' /\ calls'[m] = calls[m]
      /\ calls'[n] = op
  BY <1>1, <1>2, CallsGrow
<1>4. PICK g : /\ job' = [u \in Threads |->
                     IF u # t THEN [job[u] EXCEPT !.gone = @ /\ op \notin Fresh]
                     ELSE [op |-> op, n |-> n, seen |-> 0,
                           step |-> IF Known[op].look = "nothing" THEN "write" ELSE "look",
                           gone |-> g]]
               /\ g \in BOOLEAN
  BY <1>2 DEF Call
<1>5. ~Busy(t) /\ together' = together \cup {{n, job[u].n} : u \in {u \in Away(t) : Related(op, calls[job[u].n])}}
  BY <1>2 DEF Call
<1>6. /\ job'[t].op = op /\ job'[t].n = n
      /\ job'[t].step = IF Known[op].look = "nothing" THEN "write" ELSE "look"
  BY <1>4
<1>7. \A u \in Threads : u # t => job'[u].op = job[u].op /\ job'[u].n = job[u].n /\ job'[u].step = job[u].step
  BY <1>4 DEF Typed, Jobs
<1>8. job' \in [Threads -> Jobs]
  <2>1. ASSUME NEW u \in Threads PROVE job'[u] \in Jobs
    <3>1. CASE u = t
      BY <1>1, <1>3, <1>4, <3>1 DEF Jobs, Steps
    <3>2. CASE u # t
      <4>1. job[u] \in Jobs
        BY DEF Typed
      <4> QED BY <1>4, <3>2, <4>1 DEF Jobs
    <3> QED BY <3>1, <3>2
  <2> QED BY <1>4, <2>1
<1>9. Typed'
  BY <1>3, <1>8 DEF Typed, Call
<1>10. Course'
  <2>1. op = "record" => Known[op].look # "nothing"
    BY KnownCalls DEF Line
  <2>2. Known[op].look = "nothing" => Known[op].do # "nothing"
    BY <1>1, KnownCalls DEF Line, Ops
  <2>3. ASSUME NEW u \in Threads, Busy(u)', u # t PROVE Busy(u) /\ job[u].n \in DOMAIN calls
    BY <1>7, <2>3 DEF Busy, Course
  <2> QED BY <1>1, <1>3, <1>6, <1>7, <2>1, <2>2, <2>3 DEF Course, Busy
<1>11. Paired'
  <2>1. \A u \in Threads : u # t => (Busy(u)' <=> Busy(u))
    BY <1>7 DEF Busy
  <2>2. \A u \in Threads : Busy(u) => job[u].n \in 1..(n - 1) /\ calls'[job[u].n] = calls[job[u].n]
    BY <1>3 DEF Course
  <2>3. \A u \in Threads : u # t /\ Busy(u) /\ Related(op, calls[job[u].n]) => {n, job[u].n} \in together'
    BY <1>5 DEF Away
  <2>4. \A x, y : Related(x, y) => Related(y, x)
    BY DEF Related
  <2>5. ASSUME NEW u \in Threads, NEW v \in Threads, u # v, Busy(u)', Busy(v)'
        PROVE  /\ job'[u].n # job'[v].n
               /\ Related(calls'[job'[u].n], calls'[job'[v].n]) => {job'[u].n, job'[v].n} \in together'
    <3>1. CASE u # t /\ v # t
      BY <1>5, <1>7, <2>1, <2>2, <2>5, <3>1 DEF Paired
    <3>2. CASE u = t
      BY <1>3, <1>6, <1>7, <2>1, <2>2, <2>3, <2>5, <3>2
    <3>3. CASE v = t
      <4>1. u # t /\ Busy(u) /\ job'[u].n = job[u].n /\ job'[v].n = n
        BY <1>6, <1>7, <2>1, <2>5, <3>3
      <4>2. {n, job[u].n} = {job[u].n, n}
        OBVIOUS
      <4> QED BY <1>3, <2>2, <2>3, <2>4, <4>1, <4>2
    <3> QED BY <3>1, <3>2, <3>3
  <2> QED BY <2>5 DEF Paired, Related
<1> QED BY <1>9, <1>10, <1>11


LEMMA StepKeepsSound ==
  ASSUME Sound, NEW t \in Threads, OneJob(t), stored' \in States, ConnTyped',
         UNCHANGED <<backend, mix, calls, aged, together>>, serial' \in Nat
  PROVE  Sound'
<1>1. job' \in [Threads -> Jobs] /\ Course' /\ Paired'
  BY OneJobCourse DEF Sound
<1> QED BY <1>1 DEF Sound, Typed, ConnTyped

LEMMA EndsOneJob == ASSUME NEW t, NEW out, Ends(t, out) PROVE OneJob(t)
BY DEF Ends, OneJob

LEMMA LookSound == ASSUME Sound, NEW t \in Threads, Look(t) PROVE Sound'
<1> DEFINE p == Home[t]
           seen == Seen(View(p), LooksAt(t))
<1> USE DEF Sound
<1>1. p \in Procs /\ seen \in Nat /\ Busy(t) /\ job[t] \in Jobs
  BY HomeIsProc, ViewType, LooksAtType, SeenType DEF Look, Busy, Typed
<1> HIDE DEF p, seen
<1>2. CASE conn[p].txn = "aborted"
  <2>1. Ends(t, "raised") /\ (UNCHANGED <<stored, conn>> \/ RolledBack(p))
    BY <1>2 DEF Look, p
  <2>2. stored' \in States /\ ConnTyped'
    BY <1>1, <2>1, RolledBackType DEF Typed, ConnTyped
  <2> QED BY <2>1, <2>2, EndsOneJob, StepKeepsSound DEF Look, Typed
<1>3. CASE conn[p].txn # "aborted"
  <2>1. stored' \in States /\ ConnTyped'
    BY <1>1, <1>3, SelectsType DEF Look, p
  <2>2. CASE backend = "sqlite" \/ IsBare(t)
    <3>1. After(t, seen) /\ job[t].step \in {"look", "look_user"}
      BY <1>3, <2>2 DEF Look, p, seen
    <3>2. OneJob(t)
      BY <1>1, <3>1, AfterOneJob
    <3> QED BY <2>1, <3>2, StepKeepsSound DEF Look, Typed
  <2>3. CASE ~(backend = "sqlite" \/ IsBare(t))
    <3> DEFINE j == [job[t] EXCEPT !.seen = seen,
                       !.step = IF @ = "look" THEN "leave" ELSE "leave_user"]
    <3>1. job' = [job EXCEPT ![t] = j] /\ job[t].step \in {"look", "look_user"}
      BY <1>3, <2>3 DEF Look, p, seen, Goes
    <3>2. j \in Jobs /\ j.n = job[t].n /\ j.op = job[t].op
          /\ j.step = IF job[t].step = "look" THEN "leave" ELSE "leave_user"
      BY <1>1 DEF Jobs, Steps
    <3>3. ~Known[job[t].op].bare
      BY <2>3 DEF IsBare
    <3>4. job[t].op # "record"
      BY <3>3, KnownCalls DEF Line
    <3>5. /\ job[t].step = "look" => Known[job[t].op].look # "nothing"
          /\ job[t].step = "look_user" => job[t].op \in Validations
      BY <1>1 DEF Course
    <3> HIDE DEF j
    <3>6. job'[t] = j
      BY <3>1 DEF Typed
    <3>7. OneJob(t)
      BY <1>1, <3>1, <3>2, <3>4, <3>5, <3>6 DEF OneJob
    <3> QED BY <2>1, <3>7, StepKeepsSound DEF Look, Typed
  <2> QED BY <2>2, <2>3
<1> QED BY <1>2, <1>3

LEMMA LeaveSound == ASSUME Sound, NEW t \in Threads, Leave(t) PROVE Sound'
<1> USE DEF Sound
<1>1. Home[t] \in Procs /\ job[t].seen \in Nat
  BY HomeIsProc DEF Typed, Jobs
<1>2. OneJob(t)
  BY <1>1, AfterOneJob DEF Leave
<1>3. stored' \in States /\ ConnTyped'
  BY <1>1, RolledBackType, CommittedType DEF Leave
<1> QED BY <1>2, <1>3, StepKeepsSound DEF Leave, Typed

LEMMA JobGoes ==
  ASSUME Sound, NEW t \in Threads, Busy(t), NEW step \in {"commit", "settle"},
         Goes(t, [job[t] EXCEPT !.step = step]),
         step = "settle" => job[t].op = "purge",
         step = "commit" => Known[job[t].op].do # "nothing"
  PROVE  OneJob(t)
<1>1. [job[t] EXCEPT !.step = step] \in Jobs
  BY DEF Sound, Typed, Jobs, Steps
<1>2. job'[t] = [job[t] EXCEPT !.step = step]
  BY DEF Goes, Sound, Typed
<1>3. /\ [job[t] EXCEPT !.step = step].n = job[t].n
      /\ [job[t] EXCEPT !.step = step].op = job[t].op
      /\ [job[t] EXCEPT !.step = step].step = step
  BY DEF Sound, Typed, Jobs
<1> QED BY <1>1, <1>2, <1>3 DEF Goes, OneJob

LEMMA FailsOneJob ==
  ASSUME Sound, NEW t \in Threads, Busy(t), Fails(t)
  PROVE  OneJob(t)
BY EndsOneJob, JobGoes DEF Fails

LEMMA WriteSound == ASSUME Sound, NEW t \in Threads, Write(t) PROVE Sound'
<1> USE DEF Sound
<1> DEFINE p == Home[t]
           w == Statement(t)
<1>1. p \in Procs /\ w \in Writes /\ Busy(t) /\ conn[p] \in Conns /\ stored' \in States
      /\ serial' \in Nat
  <2>1. Busy(t) /\ job[t].step = "write"
    BY DEF Write, Busy
  <2>2. serial' \in Nat
    BY DEF Write, WriteSQLite, WritePostgres, Typed
  <2> QED BY <2>1, <2>2, HomeIsProc, StatementType DEF Write, Typed
<1>2. Append(conn[p].writes, w) \in Seq(Writes)
  BY <1>1, AppendProperties DEF Conns
<1>3. Fails(t) => OneJob(t)
  BY <1>1, FailsOneJob
<1>4. Goes(t, [job[t] EXCEPT !.step = "commit"]) => OneJob(t)
  <2>1. Known[job[t].op].do # "nothing"
    BY <1>1 DEF Course, Write
  <2> QED BY <1>1, <2>1, JobGoes
<1> HIDE DEF w
<1>5. CASE WriteSQLite(t)
  <2>1. OneJob(t)
    BY <1>3, <1>4, <1>5 DEF WriteSQLite
  <2>2. \E c \in Conns : conn' = [conn EXCEPT ![p] = c] /\ (c.txn = "reading" => conn[p].txn = "reading" /\ c.snap = conn[p].snap)
    <3>1. CASE conn' = [conn EXCEPT ![p].txn = IF @ = "none" THEN "began" ELSE @]
      <4> DEFINE c == [conn[p] EXCEPT !.txn = IF @ = "none" THEN "began" ELSE @]
      <4>1. c \in Conns /\ (c.txn = "reading" => conn[p].txn = "reading" /\ c.snap = conn[p].snap)
        BY <1>1 DEF Conns
      <4>2. conn' = [conn EXCEPT ![p] = c]
        BY <3>1
      <4> HIDE DEF c
      <4> QED BY <4>1, <4>2
    <3>2. ASSUME NEW ws \in Seq(Writes), conn' = [conn EXCEPT ![p] = [Closed EXCEPT !.txn = "writing", !.writes = ws]]
          PROVE  \E c \in Conns : conn' = [conn EXCEPT ![p] = c] /\ (c.txn = "reading" => conn[p].txn = "reading" /\ c.snap = conn[p].snap)
      <4> DEFINE c == [Closed EXCEPT !.txn = "writing", !.writes = ws]
      <4>1. c \in Conns /\ c.txn = "writing"
        BY DEF Closed, Conns
      <4> QED BY <3>2, <4>1
    <3>3. \/ conn' = [conn EXCEPT ![p].txn = IF @ = "none" THEN "began" ELSE @]
          \/ conn' = [conn EXCEPT ![p] = [Closed EXCEPT !.txn = "writing", !.writes = conn[p].writes]]
          \/ conn' = [conn EXCEPT ![p] = [Closed EXCEPT !.txn = "writing", !.writes = Append(conn[p].writes, w)]]
      BY <1>5 DEF WriteSQLite, w
    <3>4. conn[p].writes \in Seq(Writes)
      BY <1>1 DEF Conns
    <3> QED BY <1>2, <3>1, <3>2, <3>3, <3>4
  <2>3. ConnTyped'
    BY <1>1, <2>2 DEF ConnTyped, Typed
  <2> QED BY <1>1, <2>1, <2>3, StepKeepsSound DEF Write
<1>6. CASE WritePostgres(t)
  <2>1. OneJob(t)
    BY <1>3, <1>4, <1>6 DEF WritePostgres
  <2>2. \E c \in Conns : conn' = [conn EXCEPT ![p] = c] /\ c.txn \in {"open", "aborted"}
    <3>1. CASE UNCHANGED conn /\ conn[p].txn = "aborted"
      <4>1. conn' = [conn EXCEPT ![p] = conn[p]]
        BY <3>1 DEF Typed
      <4> QED BY <1>1, <3>1, <4>1
    <3>2. CASE conn' = [conn EXCEPT ![p] = [Closed EXCEPT !.txn = "aborted"]]
      <4>1. [Closed EXCEPT !.txn = "aborted"] \in Conns /\ [Closed EXCEPT !.txn = "aborted"].txn = "aborted"
        BY ClosedType DEF Conns
      <4> QED BY <3>2, <4>1
    <3>3. ASSUME NEW ws \in Seq(Writes), conn' = [conn EXCEPT ![p].txn = "open", ![p].writes = ws]
          PROVE  \E c \in Conns : conn' = [conn EXCEPT ![p] = c] /\ c.txn \in {"open", "aborted"}
      <4> DEFINE c == [conn[p] EXCEPT !.txn = "open", !.writes = ws]
      <4>1. c \in Conns /\ c.txn = "open"
        BY <1>1 DEF Conns
      <4>2. conn' = [conn EXCEPT ![p] = c]
        BY <1>1, <3>3 DEF Typed
      <4> QED BY <4>1, <4>2
    <3>4. CASE conn' = [conn EXCEPT ![p].txn = "open",
                            ![p].writes = IF Misses(p, w) THEN @ ELSE Append(@, w)]
      <4>1. PICK ws : ws = IF Misses(p, w) THEN conn[p].writes ELSE Append(conn[p].writes, w)
        OBVIOUS
      <4>2. ws \in Seq(Writes)
        BY <1>1, <1>2, <4>1 DEF Conns
      <4>3. conn' = [conn EXCEPT ![p].txn = "open", ![p].writes = ws]
        BY <1>1, <3>4, <4>1 DEF Typed
      <4> QED BY <3>3, <4>2, <4>3
    <3> QED BY <1>6, <3>1, <3>2, <3>4 DEF WritePostgres, w
  <2>3. ConnTyped'
    BY <1>1, <2>2 DEF ConnTyped, Typed
  <2> QED BY <1>1, <2>1, <2>3, StepKeepsSound DEF Write
<1> QED BY <1>5, <1>6 DEF Write


LEMMA CommitSound == ASSUME Sound, NEW t \in Threads, Commit(t) PROVE Sound'
<1> USE DEF Sound
<1>1. Home[t] \in Procs /\ Busy(t)
  BY HomeIsProc DEF Commit, Busy
<1>2. stored' \in States /\ ConnTyped'
  BY <1>1, RolledBackType, CommittedType DEF Commit, Typed, ConnTyped
<1>3. CASE job[t].op = "purge" /\ job[t].step = "commit"
  <2>1. Goes(t, [job[t] EXCEPT !.step = "settle"])
    BY <1>3 DEF Commit
  <2>2. OneJob(t)
    BY <1>1, <1>3, <2>1, JobGoes
  <2> QED BY <1>2, <2>2, StepKeepsSound DEF Commit, Typed
<1>4. CASE job[t].op = "create_user"
  <2> DEFINE j == [job[t] EXCEPT !.op = "record", !.step = "look", !.seen = 0]
  <2>1. Goes(t, j)
    BY <1>4 DEF Commit
  <2>2. j \in Jobs /\ j.n = job[t].n /\ j.op = "record" /\ j.step = "look"
    BY DEF Typed, Jobs, Ops, Steps
  <2>3. job' = [job EXCEPT ![t] = j] /\ job'[t] = j
    BY <2>1 DEF Goes, Typed
  <2> HIDE DEF j
  <2>4. OneJob(t)
    BY <1>1, <1>4, <2>2, <2>3 DEF OneJob
  <2> QED BY <1>2, <2>4, StepKeepsSound DEF Commit, Typed
<1>5. CASE ~(job[t].op = "purge" /\ job[t].step = "commit") /\ job[t].op # "create_user"
  <2>1. \E out \in {"nobody", "ok"} : Ends(t, out)
    BY <1>5 DEF Commit
  <2> QED BY <1>2, <2>1, EndsOneJob, StepKeepsSound DEF Commit, Typed
<1> QED BY <1>3, <1>4, <1>5

LEMMA AgeSound == ASSUME Sound, Age PROVE Sound'
<1>1. Len(calls) \in Nat
  BY LenProperties DEF Sound, Typed
<1> QED BY <1>1 DEF Sound, Typed, Course, Paired, Age, Busy, Related, ghosts

LEMMA CrashSound == ASSUME Sound, NEW p \in Procs, Crash(p) PROVE Sound'
<1>1. Idle \in Jobs
  BY DEF Idle, Jobs, Steps
<1>2. job' \in [Threads -> Jobs]
  BY <1>1 DEF Sound, Typed, Crash
<1>3. ConnTyped'
  BY ClosedType DEF Sound, Typed, Crash, ConnTyped, Closed
<1>4. \A t \in Threads : Busy(t)' => Busy(t) /\ job'[t] = job[t]
  BY DEF Crash, Busy, Idle
<1>5. Typed'
  BY <1>2, <1>3 DEF Sound, Typed, Crash, ConnTyped
<1>6. Course' /\ Paired'
  BY <1>4 DEF Sound, Course, Paired, Crash, Related
<1> QED BY <1>5, <1>6 DEF Sound

LEMMA NextSound == ASSUME Sound, [Next]_vars PROVE Sound'
<1>1. CASE UNCHANGED vars
  BY <1>1 DEF Sound, Typed, Course, Paired, Busy, vars, Related
<1> QED BY <1>1, CallSound, LookSound, LeaveSound, WriteSound, CommitSound, AgeSound, CrashSound DEF Next

(* The database holds what it may hold, in every state (types of stored).   *)
LEMMA SoundAlways == Spec => []Sound
BY SoundInit, NextSound, PTL DEF Spec


-----------------------------------------------------------------------------
(* A revoked credential stays out.  Whoever was seen to revoke it has left a *)
(* dead row, or will by a write that is pending; no call that issues another *)
(* is under way, as such a call either overlapped with the revocation or     *)
(* makes the credential count as new.  What a validation sees of a dead row  *)
(* sends it away, unless it sees an old snapshot.                           *)

Dead(at, v) == v = 0 \/ (at = "key" /\ v \in DOMAIN calls /\ calls[v] = "revoke_api_key")
CutRevoked == \E n \in cut \cap DOMAIN calls : calls[n] \in Revocations
Excused(p) == IF backend = "sqlite" THEN p \in lockedOut ELSE CutRevoked
NoCut == backend = "sqlite" \/ ~CutRevoked
FreshBusy(at) == \E t \in Threads : Busy(t) /\ job[t].op \in Fresh /\ Known[job[t].op].at = at
Pending(p, at) == \E i \in DOMAIN conn[p].writes : conn[p].writes[i].at = at

\* What is pending on a row was written by a thread that has yet to commit.
Owns(t, p, w) ==
  /\ Home[t] = p /\ job[t].step = "commit" /\ job[t].n = w.val
  /\ Known[job[t].op].do = w.do /\ Known[job[t].op].at = w.at
Owned ==
  \A p \in Procs : \A i \in DOMAIN conn[p].writes :
    conn[p].writes[i].at \in Keys => \E t \in Threads : Owns(t, p, conn[p].writes[i])

\* Only a process that was locked out is in an old transaction.
Modes ==
  \A p \in Procs :
    /\ conn[p].txn \in IF backend = "sqlite" THEN {"none", "began", "reading", "writing"}
                                             ELSE {"none", "open", "aborted"}
    /\ conn[p].txn \in {"began", "reading"} => p \in lockedOut
    /\ conn[p].txn = "aborted" => conn[p].writes = <<>>

GoneIsDead ==
  /\ gone \subseteq Credentials
  /\ NoCut => \A at \in gone : Dead(at, stored.rows[at]) /\ ~FreshBusy(at)
RevokingKills ==
  NoCut => \A t \in Threads :
    LET at == Known[job[t].op].at
    IN  job[t].step = "commit" /\ job[t].op \in Revocations /\ ~Issued(at, job[t].n) =>
          Dead(at, stored.rows[at]) \/ Pending(Home[t], at)
FlaggedIsGone ==
  \A t \in Threads : job[t].gone =>
    Busy(t) /\ job[t].op \in Validations /\ Known[job[t].op].at \in gone
FlaggedSeesDead ==
  \A t \in Threads : job[t].gone /\ ~Excused(Home[t]) =>
    /\ job[t].step \notin {"look_user", "leave_user"}
    /\ job[t].step = "leave" => Dead(Known[job[t].op].at, job[t].seen)
AdmittedExcused == \A p \in admitted : Excused(p)

RevokedInv ==
  Owned /\ Modes /\ GoneIsDead /\ RevokingKills /\ FlaggedIsGone /\ FlaggedSeesDead /\ AdmittedExcused


LEMMA CredentialCalls ==
  ASSUME NEW op \in Ops, Known[op].at \in Credentials
  PROVE  /\ Known[op].at = "session" =>
              op \in {"create_session", "validate_session", "revoke_session"}
         /\ Known[op].at = "key" => op \in {"issue_api_key", "validate_api_key", "revoke_api_key"}
         /\ Known[op].do = "insert" => op \in Fresh
         /\ Known[op].do = "update" => op = "revoke_api_key" /\ Known[op].at = "key"
         /\ Known[op].do \in {"nothing", "insert", "update", "delete"}
BY KnownCalls DEF Ops, Line, Credentials, Fresh

Kills(at, w) == w.do = "delete" \/ (w.do = "update" /\ at = "key" /\ Dead(at, w.val))

LEMMA KillsOnly ==
  ASSUME Sound, Owned, NEW at \in Credentials, ~FreshBusy(at), NEW p \in Procs,
         NEW i \in DOMAIN conn[p].writes, conn[p].writes[i].at = at
  PROVE  Kills(at, conn[p].writes[i])
<1> DEFINE w == conn[p].writes[i]
<1>1. PICK t \in Threads : Owns(t, p, w)
  BY DEF Owned, Credentials, Keys
<1>2. w \in Writes
  BY LenProperties DEF Sound, Typed, Conns
<1> HIDE DEF w
<1>3. w.at = at
  BY DEF w
<1> DEFINE op == job[t].op
<1>4. /\ op \in Ops /\ Busy(t) /\ job[t].n \in DOMAIN calls
      /\ calls[job[t].n] = op \/ op = "record"
      /\ Known[op].do # "nothing" /\ Known[op].at = at /\ Known[op].do = w.do /\ w.val = job[t].n
  BY <1>1, <1>3 DEF Owns, Sound, Course, Busy
<1> HIDE DEF op
<1>5. op \notin Fresh
  BY <1>4 DEF FreshBusy, op
<1>6. op # "record"
  BY <1>4, KnownCalls DEF Line, Credentials
<1>7. w.do \in {"update", "delete"}
  BY <1>4, <1>5, CredentialCalls
<1>8. w.do = "update" => Dead(at, w.val) /\ at = "key"
  BY <1>4, <1>6, CredentialCalls DEF Dead
<1>9. Kills(at, w)
  BY <1>7, <1>8 DEF Kills
<1> QED BY <1>9 DEF w

DeadStates(at) == {s \in States : Dead(at, s.rows[at])}

LEMMA AppliedDead ==
  ASSUME NEW at \in Credentials, NEW w \in Writes, NEW s \in States, w.at = at => Kills(at, w)
  PROVE  /\ s \in DeadStates(at) => Applied(w, s) \in DeadStates(at)
         /\ w.at = at => Applied(w, s) \in DeadStates(at)
<1>1. Applied(w, s) \in States /\ at \in Keys
  BY AppliedType DEF Credentials, Keys
<1>2. CASE w.at = at
  <2>1. CASE w.do = "delete"
    <3>1. Applied(w, s).rows[at] = 0
      BY <1>1, <1>2, <2>1 DEF Applied, States
    <3> QED BY <1>1, <3>1 DEF DeadStates, Dead
  <2>2. CASE w.do = "update" /\ at = "key" /\ Dead(at, w.val)
    <3>1. Applied(w, s).rows[at] \in {0, w.val}
      BY <1>1, <1>2, <2>2 DEF Applied, States
    <3> QED BY <1>1, <2>2, <3>1 DEF DeadStates, Dead
  <2> QED BY <1>2, <2>1, <2>2 DEF Kills
<1>3. CASE w.at # at
  <2>1. Applied(w, s).rows[at] = s.rows[at]
    BY <1>1, <1>3 DEF Applied, States, Writes
  <2> QED BY <1>1, <1>3, <2>1 DEF DeadStates
<1> QED BY <1>2, <1>3

LEMMA DeadView ==
  ASSUME Sound, Owned, NEW at \in Credentials, ~FreshBusy(at), NEW p \in Procs,
         Dead(at, stored.rows[at]) \/ Pending(p, at)
  PROVE  Dead(at, WithWrites(stored, conn[p].writes).rows[at])
<1>1. PICK ws : ws = conn[p].writes
  OBVIOUS
<1>2. Len(ws) \in Nat /\ DOMAIN ws = 1..Len(ws) /\ stored \in States
  BY <1>1, LenProperties DEF Sound, Typed, Conns
<1>3. \A i \in 1..Len(ws) : ws[i] \in Writes /\ (ws[i].at = at => Kills(at, ws[i]))
  <2>1. \A i \in 1..Len(ws) : ws[i] \in Writes
    BY <1>1, <1>2, LenProperties DEF Sound, Typed, Conns
  <2> QED BY <1>1, <1>2, <2>1, KillsOnly
<1>4. \A i \in 1..Len(ws) : \A x \in DeadStates(at) : Applied(ws[i], x) \in DeadStates(at)
  BY <1>3, AppliedDead DEF DeadStates
<1>5. WithWrites(stored, ws) \in DeadStates(at)
  <2>1. CASE Dead(at, stored.rows[at])
    <3>1. stored \in DeadStates(at)
      BY <1>2, <2>1 DEF DeadStates
    <3> QED BY <1>2, <1>4, <3>1, WritesKeep
  <2>2. CASE Pending(p, at)
    <3>1. PICK k \in 1..Len(ws) : ws[k].at = at
      BY <1>1, <1>2, <2>2 DEF Pending
    <3>2. KeepIn(States, States, ws)
      BY <1>3, AppliedType DEF KeepIn
    <3>3. KeepIn(DeadStates(at), States, ws)
      BY <1>4 DEF KeepIn
    <3>4. LeadsTo(DeadStates(at), States, ws, k)
      BY <1>3, <3>1, AppliedDead DEF LeadsTo
    <3> QED BY <1>2, <3>2, <3>3, <3>4, WritesReach
  <2> QED BY <2>1, <2>2
<1> QED BY <1>1, <1>5 DEF DeadStates


\* Nothing is stored, or what the connection of p has pending.
DatabaseStep(p) ==
  \/ UNCHANGED stored /\ \A q \in Procs : conn'[q].writes = conn[q].writes
  \/ /\ stored' = WithWrites(stored, conn[p].writes) /\ conn'[p].writes = <<>>
     /\ \A q \in Procs \ {p} : conn'[q].writes = conn[q].writes

LEMMA StepLeavesDead ==
  ASSUME Sound, Owned, NEW p \in Procs, DatabaseStep(p), NEW at \in Credentials, ~FreshBusy(at)
  PROVE  /\ Dead(at, stored.rows[at]) => Dead(at, stored'.rows[at])
         /\ \A q \in Procs :
              Dead(at, stored.rows[at]) \/ Pending(q, at) =>
                Dead(at, stored'.rows[at]) \/ \E i \in DOMAIN conn'[q].writes : conn'[q].writes[i].at = at
<1>1. CASE UNCHANGED stored /\ \A q \in Procs : conn'[q].writes = conn[q].writes
  BY <1>1 DEF Pending
<1>2. CASE /\ stored' = WithWrites(stored, conn[p].writes) /\ conn'[p].writes = <<>>
           /\ \A q \in Procs \ {p} : conn'[q].writes = conn[q].writes
  BY <1>2, DeadView DEF Pending
<1> QED BY <1>1, <1>2 DEF DatabaseStep

LEMMA OneJobIs ==
  ASSUME Typed, NEW t \in Threads, OneJob(t)
  PROVE  /\ \A u \in Threads \ {t} : job'[u] = job[u]
         /\ \A at : FreshBusy(at)' => FreshBusy(at)
         /\ job'[t].op # job[t].op => job'[t] = Idle \/ job'[t].op = "record"
<1>1. CASE job' = [job EXCEPT ![t] = Idle]
  BY <1>1 DEF Typed, FreshBusy, Busy, Idle
<1>2. CASE job' # [job EXCEPT ![t] = Idle]
  <2>1. PICK j \in Jobs : job' = [job EXCEPT ![t] = j] /\ j.n = job[t].n /\ j.step # "idle"
                        /\ \/ j.op = job[t].op
                           \/ j.op = "record" /\ job[t].op \in {"create_user", "authenticate"}
    BY <1>2 DEF OneJob
  <2>2. Busy(t) /\ job'[t] = j
    BY <1>2, <2>1 DEF OneJob, Typed
  <2>3. \A u \in Threads \ {t} : job'[u] = job[u]
    BY <2>1
  <2>4. \A u \in Threads : Busy(u)' => Busy(u) /\ (job'[u].op = job[u].op \/ job'[u].op = "record")
    BY <2>1, <2>2, <2>3 DEF Busy
  <2>5. \A at : FreshBusy(at)' => FreshBusy(at)
    BY <2>4 DEF FreshBusy, Fresh
  <2> QED BY <2>1, <2>2, <2>3, <2>5
<1> QED BY <1>1, <1>2

(* No call that issues a credential is under way beside a revocation of it  *)
(* that has not met one.                                                    *)
LEMMA RevokingAlone ==
  ASSUME Sound, NEW t \in Threads, Busy(t), job[t].op \in Revocations,
         ~Issued(Known[job[t].op].at, job[t].n)
  PROVE  Known[job[t].op].at \in Credentials /\ ~FreshBusy(Known[job[t].op].at)
<1> DEFINE op == job[t].op
<1>1. op \in Ops /\ calls[job[t].n] = op
  BY DEF Sound, Course, Revocations
<1>2. Known[op].at \in Credentials /\ Known[op].do # "nothing"
  BY KnownCalls DEF Line, Credentials, Revocations
<1>3. ASSUME NEW u \in Threads, Busy(u), job[u].op \in Fresh, Known[job[u].op].at = Known[op].at PROVE FALSE
  <2>1. /\ job[u].op \in Ops /\ calls[job[u].n] = job[u].op /\ job[u].n \in DOMAIN calls
        /\ Known[job[u].op].do # "nothing"
    BY <1>3, KnownCalls DEF Sound, Course, Fresh, Line
  <2>2. u # t
    BY <1>3 DEF Fresh, Revocations
  <2>3. Related(calls[job[u].n], calls[job[t].n])
    BY <1>1, <1>2, <1>3, <2>1 DEF Related
  <2>4. {job[u].n, job[t].n} \in together
    BY <1>3, <2>2, <2>3 DEF Sound, Paired
  <2> QED BY <1>3, <2>1, <2>4 DEF Issued
<1> QED BY <1>2, <1>3 DEF FreshBusy

\* What a step of t other than a write has to show: t is not about to commit
\* afterwards, and its flag and what it brings about are in order.
Flagged(t) ==
  /\ job'[t].gone => job[t].gone /\ job'[t].op = job[t].op /\ job'[t].step # "idle"
  /\ job'[t].gone /\ ~Excused(Home[t]) =>
       /\ job'[t].step \notin {"look_user", "leave_user"}
       /\ job'[t].step = "leave" => Dead(Known[job[t].op].at, job'[t].seen)
  /\ \A p \in admitted' \ admitted : Excused(p)
  /\ job'[t].step # "commit"

LEMMA QuietKeepsRevoked ==
  ASSUME Sound, RevokedInv, NEW t \in Threads, OneJob(t), DatabaseStep(Home[t]), Modes',
         UNCHANGED <<backend, calls, together>>, cut \subseteq cut', lockedOut \subseteq lockedOut',
         Flagged(t),
         \/ job[t].step # "commit"
         \/ conn'[Home[t]].writes = <<>>
         \/ job[t].op = "purge",
         gone \subseteq gone', gone' \subseteq Credentials,
         \A at \in gone' \ gone : NoCut => Dead(at, stored'.rows[at]) /\ ~FreshBusy(at)
  PROVE  RevokedInv'
<1> USE DEF RevokedInv
<1>1. /\ \A u \in Threads \ {t} : job'[u] = job[u]
      /\ \A at : FreshBusy(at)' => FreshBusy(at)
  BY OneJobIs DEF Sound
<1>2. Home[t] \in Procs /\ \A u \in Threads : Home[u] \in Procs
  BY HomeIsProc
<1>3. (NoCut' => NoCut) /\ \A p : Excused(p) => Excused(p)'
  BY DEF NoCut, Excused, CutRevoked
<1>4. \A at, v : Dead(at, v)' <=> Dead(at, v)
  BY DEF Dead
<1>5. Owned'
  <2> SUFFICES ASSUME NEW p \in Procs, NEW i \in DOMAIN conn'[p].writes,
                      conn'[p].writes[i].at \in Keys
               PROVE  \E u \in Threads :
                        /\ Home[u] = p /\ job'[u].step = "commit" /\ job'[u].n = conn'[p].writes[i].val
                        /\ Known[job'[u].op].do = conn'[p].writes[i].do
                        /\ Known[job'[u].op].at = conn'[p].writes[i].at
    BY DEF Owned, Owns
  <2>1. conn'[p].writes = conn[p].writes
    BY <1>2 DEF DatabaseStep
  <2>2. PICK u \in Threads : Owns(u, p, conn[p].writes[i])
    BY <2>1 DEF Owned
  <2>3. u # t
    <3> SUFFICES ASSUME u = t PROVE FALSE
      OBVIOUS
    <3>1. job[t].step = "commit" /\ Home[t] = p /\ Known[job[t].op].at \in Keys
      BY <2>1, <2>2 DEF Owns
    <3>2. job[t].op # "purge"
      BY <3>1, KnownCalls DEF Line, Keys
    <3> QED BY <2>1, <3>1, <3>2
  <2> QED BY <1>1, <2>1, <2>2, <2>3 DEF Owns
<1>6. GoneIsDead'
  <2>1. ASSUME NoCut, NEW at \in gone' PROVE Dead(at, stored'.rows[at]) /\ ~FreshBusy(at)
    <3>1. CASE at \in gone
      BY <1>2, <2>1, <3>1, StepLeavesDead DEF GoneIsDead
    <3> QED BY <2>1, <3>1
  <2> QED BY <1>1, <1>3, <1>4, <2>1 DEF GoneIsDead
<1>7. RevokingKills'
  <2>1. ASSUME NoCut, NEW u \in Threads, job'[u].step = "commit", job'[u].op \in Revocations, NEW at,
               at = Known[job'[u].op].at, ~Issued(at, job[u].n)
        PROVE  \/ Dead(at, stored'.rows[at])
               \/ \E i \in DOMAIN conn'[Home[u]].writes : conn'[Home[u]].writes[i].at = at
    <3>1. u # t /\ job'[u] = job[u]
      BY <1>1, <2>1 DEF Flagged
    <3>2. Dead(at, stored.rows[at]) \/ Pending(Home[u], at)
      BY <2>1, <3>1 DEF RevokingKills
    <3>3. at \in Credentials /\ ~FreshBusy(at)
      BY <2>1, <3>1, RevokingAlone DEF Busy
    <3> QED BY <1>2, <3>2, <3>3, StepLeavesDead
  <2>2. \A u \in Threads : job'[u].step = "commit" => job'[u] = job[u]
    BY <1>1 DEF Flagged
  <2>3. \A at, n : Issued(at, n)' <=> Issued(at, n)
    BY DEF Issued
  <2> QED BY <1>3, <1>4, <2>1, <2>2, <2>3 DEF RevokingKills, Pending
<1>8. FlaggedIsGone'
  BY <1>1 DEF FlaggedIsGone, Flagged, Busy
<1>9. FlaggedSeesDead'
  BY <1>1, <1>3, <1>4 DEF FlaggedSeesDead, Flagged
<1>10. AdmittedExcused'
  BY <1>3 DEF AdmittedExcused, Flagged
<1> QED BY <1>5, <1>6, <1>7, <1>8, <1>9, <1>10


LEMMA AfterFlags ==
  ASSUME Sound, RevokedInv, NEW t \in Threads, NEW seen \in Nat,
         job[t].step \in {"look", "look_user", "leave", "leave_user"}, After(t, seen),
         job[t].gone /\ job[t].step \in {"look", "leave"} =>
           Excused(Home[t]) \/ Dead(Known[job[t].op].at, seen)
  PROVE  Flagged(t) /\ UNCHANGED gone
<1> USE DEF Sound
<1>1. job[t] \in Jobs /\ job \in [Threads -> Jobs] /\ Home[t] \in Procs
  BY HomeIsProc DEF Typed
<1>2. CASE Ending(t, seen)
  <2>1. PICK out \in {"answer", "taken", "nobody", "nothing", "user"} :
           Ends(t, out) /\ (out = "user" => job[t].step \in {"look_user", "leave_user"})
    BY <1>2 DEF Ending
  <2>2. job'[t] = Idle /\ UNCHANGED gone
    BY <1>1, <2>1 DEF Ends
  <2>3. \A p \in admitted' \ admitted : Excused(p)
    BY <2>1 DEF Ends, RevokedInv, FlaggedSeesDead
  <2> QED BY <2>2, <2>3 DEF Flagged, Idle
<1>3. CASE Writing(t, seen)
  <2>1. UNCHANGED <<gone, admitted>> /\ job'[t] = [job[t] EXCEPT !.step = "write", !.seen = seen]
    BY <1>1, <1>3 DEF Writing, Goes
  <2> QED BY <1>1, <2>1 DEF Flagged, Jobs
<1>4. CASE Admitting(t, seen)
  <2>1. UNCHANGED <<gone, admitted>> /\ job'[t] = [job[t] EXCEPT !.step = "look_user", !.seen = seen]
    BY <1>1, <1>4 DEF Admitting, Goes
  <2>2. job[t].gone => Excused(Home[t])
    <3> SUFFICES ASSUME Dead(Known[job[t].op].at, seen) PROVE FALSE
      BY <1>4 DEF Admitting
    <3>1. Known["validate_session"].at = "session" /\ Known["validate_api_key"].at = "key"
      BY KnownCalls DEF Line
    <3> QED BY <1>4, <3>1 DEF Admitting, Dead, Revoked, Validations
  <2> QED BY <1>1, <2>1, <2>2 DEF Flagged, Jobs
<1>5. CASE Authenticating(t, seen)
  <2>1. UNCHANGED <<gone, admitted>> /\ job'[t] = [job[t] EXCEPT !.op = "record", !.step = "look"]
    BY <1>1, <1>5 DEF Authenticating, Goes
  <2>2. ~job[t].gone
    BY <1>5 DEF Authenticating, RevokedInv, FlaggedIsGone, Validations
  <2> QED BY <1>1, <2>1, <2>2 DEF Flagged, Jobs
<1> QED BY <1>2, <1>3, <1>4, <1>5, AfterIs

LEMMA CommittedIsStep ==
  ASSUME Sound, Modes, NEW p \in Procs,
         Committed(p) \/ (RolledBack(p) /\ conn[p].writes = <<>>), UNCHANGED <<backend, lockedOut>>
  PROVE  DatabaseStep(p) /\ Modes' /\ conn'[p].writes = <<>>
<1>1. CASE Committed(p)
  <2>1. \A q \in Procs \ {p} : conn'[q].writes = conn[q].writes /\ conn'[q].txn = conn[q].txn
    BY <1>1 DEF Committed, Sound, Typed, Conns
  <2>2. conn'[p] = Closed
    BY <1>1 DEF Committed
  <2>3. DatabaseStep(p) /\ conn'[p].writes = <<>>
    BY <1>1, <2>1, <2>2 DEF Committed, DatabaseStep, Closed
  <2>4. ASSUME NEW q \in Procs
        PROVE  /\ conn'[q].txn \in IF backend = "sqlite" THEN {"none", "began", "reading", "writing"}
                                                         ELSE {"none", "open", "aborted"}
               /\ conn'[q].txn \in {"began", "reading"} => q \in lockedOut
               /\ conn'[q].txn = "aborted" => conn'[q].writes = <<>>
    BY <2>1, <2>2 DEF Modes, Closed
  <2> QED BY <2>3, <2>4 DEF Modes
<1>2. CASE RolledBack(p) /\ conn[p].writes = <<>>
  <2>1. \A q \in Procs \ {p} : conn'[q] = conn[q]
    BY <1>2 DEF RolledBack, Sound, Typed
  <2>2. conn'[p] = Closed
    BY <1>2 DEF RolledBack, Sound, Typed
  <2> QED BY <1>2, <2>1, <2>2 DEF RolledBack, DatabaseStep, Modes, Closed
<1> QED BY <1>1, <1>2

LEMMA LeaveRevoked ==
  ASSUME Sound, RevokedInv, NEW t \in Threads, Leave(t)
  PROVE  RevokedInv'
<1>1. Home[t] \in Procs /\ job[t].seen \in Nat /\ job[t].step \in {"leave", "leave_user"}
  BY HomeIsProc DEF Leave, Sound, Typed, Jobs
<1>2. After(t, job[t].seen)
  BY DEF Leave
<1>3. Flagged(t) /\ UNCHANGED gone
  BY <1>1, <1>2, AfterFlags DEF RevokedInv, FlaggedSeesDead
<1>4. OneJob(t)
  BY <1>1, <1>2, AfterOneJob DEF Sound
<1>5. DatabaseStep(Home[t]) /\ Modes'
  BY <1>1, CommittedIsStep DEF Leave, RevokedInv, Modes
<1>6. UNCHANGED <<backend, calls, cut, lockedOut, together>>
  BY DEF Leave
<1>7. gone \subseteq gone' /\ gone' \subseteq Credentials /\ gone' \ gone = {}
  BY <1>3 DEF RevokedInv, GoneIsDead
<1> QED BY <1>1, <1>3, <1>4, <1>5, <1>6, <1>7, QuietKeepsRevoked


LEMMA SelectsIsStep ==
  ASSUME Sound, Modes, NEW p \in Procs, Selects(p), conn[p].txn # "aborted",
         UNCHANGED <<backend, lockedOut>>
  PROVE  DatabaseStep(p) /\ Modes'
<1>1. conn[p] \in Conns /\ \A q \in Procs \ {p} : conn'[q] = conn[q]
  BY DEF Selects, Sound, Typed
<1>2. /\ UNCHANGED stored
      /\ \/ backend = "postgres" /\ conn'[p] = [conn[p] EXCEPT !.txn = "open"]
         \/ /\ backend = "sqlite" /\ conn[p].txn = "began"
            /\ conn'[p] = [conn[p] EXCEPT !.txn = "reading", !.snap = stored]
         \/ backend = "sqlite" /\ conn'[p] = conn[p]
  BY DEF Selects, Sound, Typed
<1>3. conn'[p].writes = conn[p].writes
  BY <1>1, <1>2 DEF Conns
<1>4. ASSUME NEW q \in Procs
      PROVE  /\ conn'[q].txn \in IF backend = "sqlite" THEN {"none", "began", "reading", "writing"}
                                                       ELSE {"none", "open", "aborted"}
             /\ conn'[q].txn \in {"began", "reading"} => q \in lockedOut
             /\ conn'[q].txn = "aborted" => conn'[q].writes = <<>>
  <2>1. CASE q # p
    BY <1>1, <2>1 DEF Modes
  <2>2. CASE q = p
    <3>1. CASE backend = "postgres" /\ conn'[p] = [conn[p] EXCEPT !.txn = "open"]
      BY <1>1, <2>2, <3>1 DEF Conns
    <3>2. CASE /\ backend = "sqlite" /\ conn[p].txn = "began"
               /\ conn'[p] = [conn[p] EXCEPT !.txn = "reading", !.snap = stored]
      BY <1>1, <2>2, <3>2 DEF Conns, Modes
    <3>3. CASE backend = "sqlite" /\ conn'[p] = conn[p]
      BY <2>2, <3>3 DEF Modes
    <3> QED BY <1>2, <3>1, <3>2, <3>3
  <2> QED BY <2>1, <2>2
<1> QED BY <1>1, <1>2, <1>3, <1>4 DEF DatabaseStep, Modes

(* What a validation that began after the revocation sees is dead.          *)
LEMMA FlaggedLooksDead ==
  ASSUME Sound, RevokedInv, NEW t \in Threads, job[t].gone, job[t].step = "look",
         ~Excused(Home[t])
  PROVE  Dead(Known[job[t].op].at, Seen(View(Home[t]), LooksAt(t)))
<1> DEFINE p == Home[t]
<1>1. p \in Procs /\ job[t].op \in Validations /\ Known[job[t].op].at \in gone
  BY HomeIsProc DEF RevokedInv, FlaggedIsGone
<1>2. PICK at \in Credentials : at = Known[job[t].op].at /\ LooksAt(t) = at
  BY <1>1, KnownCalls DEF Validations, Line, LooksAt, Credentials
<1>3. NoCut /\ conn[p].txn # "reading"
  <2>1. CASE backend = "sqlite"
    BY <1>1, <2>1 DEF Excused, NoCut, RevokedInv, Modes
  <2>2. CASE backend # "sqlite"
    BY <1>1, <2>2 DEF Excused, NoCut, RevokedInv, Modes
  <2> QED BY <2>1, <2>2
<1>4. Dead(at, stored.rows[at]) /\ ~FreshBusy(at)
  BY <1>1, <1>2, <1>3 DEF RevokedInv, GoneIsDead
<1>5. Dead(at, WithWrites(stored, conn[p].writes).rows[at])
  BY <1>1, <1>4, DeadView DEF RevokedInv
<1>6. Seen(View(p), at) = WithWrites(stored, conn[p].writes).rows[at]
  BY <1>2, <1>3 DEF Seen, View, Credentials
<1> QED BY <1>2, <1>5, <1>6

LEMMA LookRevoked ==
  ASSUME Sound, RevokedInv, NEW t \in Threads, Look(t)
  PROVE  RevokedInv'
<1> DEFINE p == Home[t]
           seen == Seen(View(p), LooksAt(t))
<1>1. /\ p \in Procs /\ seen \in Nat /\ Busy(t) /\ job[t] \in Jobs
      /\ job[t].step \in {"look", "look_user"}
  BY HomeIsProc, ViewType, LooksAtType, SeenType DEF Look, Busy, Sound, Typed
<1>2. job[t].gone /\ job[t].step = "look" => Excused(p) \/ Dead(Known[job[t].op].at, seen)
  BY FlaggedLooksDead
<1> HIDE DEF p, seen
<1>3. UNCHANGED <<backend, calls, cut, lockedOut, together>> /\ gone \subseteq Credentials
  BY DEF Look, RevokedInv, GoneIsDead
<1>4. CASE conn[p].txn = "aborted"
  <2>1. Ends(t, "raised") /\ (UNCHANGED <<stored, conn>> \/ RolledBack(p))
    BY <1>4 DEF Look, p
  <2>2. DatabaseStep(p) /\ Modes'
    <3>1. CASE UNCHANGED <<stored, conn>>
      BY <1>3, <3>1 DEF DatabaseStep, RevokedInv, Modes
    <3>2. CASE RolledBack(p)
      BY <1>1, <1>3, <1>4, <3>2, CommittedIsStep DEF RevokedInv, Modes
    <3> QED BY <2>1, <3>1, <3>2
  <2>3. OneJob(t) /\ UNCHANGED gone
    BY <2>1, EndsOneJob DEF Ends
  <2>4. Flagged(t)
    BY <2>1 DEF Ends, Flagged, Idle, Sound, Typed
  <2> QED BY <1>1, <1>3, <2>2, <2>3, <2>4, QuietKeepsRevoked DEF p
<1>5. CASE conn[p].txn # "aborted"
  <2>1. Selects(p)
    BY <1>5 DEF Look, p
  <2>2. DatabaseStep(p) /\ Modes'
    BY <1>1, <1>3, <1>5, <2>1, SelectsIsStep DEF RevokedInv
  <2>3. OneJob(t) /\ Flagged(t) /\ UNCHANGED gone
    <3>1. CASE backend = "sqlite" \/ IsBare(t)
      <4>1. After(t, seen)
        BY <1>5, <3>1 DEF Look, p, seen
      <4>2. OneJob(t)
        BY <1>1, <4>1, AfterOneJob DEF Sound
      <4> QED BY <1>1, <1>2, <4>1, <4>2, AfterFlags DEF p
    <3>2. CASE ~(backend = "sqlite" \/ IsBare(t))
      <4> DEFINE j == [job[t] EXCEPT !.seen = seen,
                         !.step = IF @ = "look" THEN "leave" ELSE "leave_user"]
      <4>1. job' = [job EXCEPT ![t] = j] /\ UNCHANGED <<gone, admitted>>
        BY <1>5, <3>2 DEF Look, p, seen, Goes
      <4>2. /\ j \in Jobs /\ j.n = job[t].n /\ j.op = job[t].op /\ j.gone = job[t].gone /\ j.seen = seen
            /\ j.step = IF job[t].step = "look" THEN "leave" ELSE "leave_user"
        BY <1>1 DEF Jobs, Steps
      <4>3. job[t].op # "record"
        <5>1. ~Known[job[t].op].bare
          BY <3>2 DEF IsBare
        <5> QED BY <5>1, KnownCalls DEF Line
      <4>4. /\ job[t].step = "look" => Known[job[t].op].look # "nothing"
            /\ job[t].step = "look_user" => job[t].op \in Validations
        BY <1>1 DEF Sound, Course
      <4> HIDE DEF j
      <4>5. job'[t] = j
        BY <4>1 DEF Sound, Typed
      <4>6. OneJob(t)
        BY <1>1, <4>1, <4>2, <4>3, <4>4, <4>5 DEF OneJob
      <4>7. job[t].gone /\ job[t].step = "look_user" => Excused(p)
        BY DEF RevokedInv, FlaggedSeesDead, p
      <4>8. Flagged(t)
        BY <1>1, <1>2, <4>1, <4>2, <4>5, <4>7 DEF Flagged, p
      <4> QED BY <4>1, <4>6, <4>8
    <3> QED BY <3>1, <3>2
  <2> QED BY <1>1, <1>3, <2>2, <2>3, QuietKeepsRevoked DEF p
<1> QED BY <1>4, <1>5


LEMMA CommitRevoked ==
  ASSUME Sound, RevokedInv, NEW t \in Threads, Commit(t)
  PROVE  RevokedInv'
<1> DEFINE p == Home[t]
<1>1. /\ p \in Procs /\ Busy(t) /\ job[t] \in Jobs /\ job[t].step \in {"commit", "settle"}
      /\ job[t].step = "settle" => job[t].op = "purge"
  BY HomeIsProc DEF Commit, Busy, Sound, Typed, Course
<1>2. UNCHANGED <<backend, calls, cut, lockedOut, together>> /\ gone \subseteq Credentials
  BY DEF Commit, RevokedInv, GoneIsDead
<1>3. /\ DatabaseStep(p) /\ Modes'
      /\ ~(job[t].op = "purge" /\ job[t].step = "commit") => conn'[p].writes = <<>>
  <2>1. CASE UNCHANGED <<stored, conn>> /\ job[t].op = "purge" /\ job[t].step = "commit"
    BY <1>2, <2>1 DEF DatabaseStep, RevokedInv, Modes
  <2>2. CASE Committed(p) \/ (RolledBack(p) /\ conn[p].txn = "aborted")
    <3>1. Committed(p) \/ (RolledBack(p) /\ conn[p].writes = <<>>)
      BY <1>1, <2>2 DEF RevokedInv, Modes
    <3> QED BY <1>1, <1>2, <3>1, CommittedIsStep DEF RevokedInv
  <2> QED BY <1>1, <2>1, <2>2 DEF Commit
<1> HIDE DEF p
<1>4. CASE job[t].op = "purge" /\ job[t].step = "commit"
  <2>1. Goes(t, [job[t] EXCEPT !.step = "settle"])
    BY <1>4 DEF Commit
  <2>2. OneJob(t) /\ UNCHANGED gone
    BY <1>1, <1>4, <2>1, JobGoes DEF Goes
  <2>3. Flagged(t)
    BY <1>1, <2>1 DEF Goes, Flagged, Sound, Typed, Jobs
  <2> QED BY <1>1, <1>2, <1>3, <1>4, <2>2, <2>3, QuietKeepsRevoked DEF p
<1>5. CASE job[t].op = "create_user"
  <2> DEFINE j == [job[t] EXCEPT !.op = "record", !.step = "look", !.seen = 0]
  <2>1. Goes(t, j)
    BY <1>5 DEF Commit
  <2>2. j \in Jobs /\ j.n = job[t].n /\ j.op = "record" /\ j.step = "look" /\ j.gone = job[t].gone
    BY <1>1 DEF Jobs, Ops, Steps
  <2>3. job' = [job EXCEPT ![t] = j] /\ job'[t] = j /\ UNCHANGED <<gone, admitted>>
    BY <2>1 DEF Goes, Sound, Typed
  <2> HIDE DEF j
  <2>4. OneJob(t)
    BY <1>1, <1>5, <2>2, <2>3 DEF OneJob
  <2>5. ~job[t].gone
    BY <1>5 DEF RevokedInv, FlaggedIsGone, Validations
  <2>6. Flagged(t)
    BY <2>2, <2>3, <2>5 DEF Flagged
  <2> QED BY <1>1, <1>2, <1>3, <1>5, <2>3, <2>4, <2>6, QuietKeepsRevoked DEF p
<1>6. CASE ~(job[t].op = "purge" /\ job[t].step = "commit") /\ job[t].op # "create_user"
  <2>1. PICK out \in {"nobody", "ok"} : Ends(t, out)
    BY <1>6 DEF Commit
  <2>2. OneJob(t) /\ job'[t] = Idle /\ UNCHANGED admitted
    BY <2>1, EndsOneJob DEF Ends, Sound, Typed
  <2>3. Flagged(t)
    BY <2>2 DEF Flagged, Idle
  <2>4. CASE UNCHANGED gone
    BY <1>1, <1>2, <1>3, <1>6, <2>2, <2>3, <2>4, QuietKeepsRevoked DEF p
  <2>5. CASE ~UNCHANGED gone
    <3>1. PICK at : at = Known[job[t].op].at
      OBVIOUS
    <3>2. /\ gone' = gone \cup {at} /\ job[t].op \in Revocations /\ ~Issued(at, job[t].n)
          /\ job[t].step = "commit"
      BY <1>1, <2>1, <2>5, <3>1 DEF Ends, Revocations
    <3>3. at \in Credentials /\ ~FreshBusy(at)
      BY <1>1, <3>1, <3>2, RevokingAlone
    <3>4. NoCut => Dead(at, stored.rows[at]) \/ Pending(p, at)
      BY <3>1, <3>2 DEF RevokedInv, RevokingKills, p
    <3>5. NoCut => Dead(at, stored'.rows[at])
      BY <1>1, <1>3, <1>6, <3>3, <3>4, StepLeavesDead DEF RevokedInv
    <3> QED BY <1>1, <1>2, <1>3, <1>6, <2>2, <2>3, <3>2, <3>3, <3>5, QuietKeepsRevoked DEF p
  <2> QED BY <2>4, <2>5
<1> QED BY <1>4, <1>5, <1>6


\* A write that is pending from now on, or a refused one, changes the connection
\* of its own process only.
Rewritten(p, c) == conn' = [conn EXCEPT ![p] = c] /\ UNCHANGED stored

LEMMA FailsQuietly ==
  ASSUME Sound, RevokedInv, NEW t \in Threads, job[t].step = "write", Fails(t)
  PROVE  OneJob(t) /\ Flagged(t) /\ UNCHANGED gone
<1>1. Busy(t) /\ job[t] \in Jobs
  BY DEF Busy, Sound, Typed
<1>2. OneJob(t)
  BY <1>1, FailsOneJob
<1>3. CASE Ends(t, "raised")
  BY <1>2, <1>3 DEF Ends, Flagged, Idle, Sound, Typed
<1>4. CASE Goes(t, [job[t] EXCEPT !.step = "settle"])
  BY <1>1, <1>2, <1>4 DEF Goes, Flagged, Jobs, Sound, Typed
<1> QED BY <1>3, <1>4 DEF Fails

LEMMA RefusedRevoked ==
  ASSUME Sound, RevokedInv, NEW t \in Threads, job[t].step = "write", Fails(t),
         NEW p \in Procs, p = Home[t], NEW c \in Conns, Rewritten(p, c),
         c.writes = conn[p].writes,
         backend = "sqlite" => c.txn \in {"began", "reading", "writing"},
         backend # "sqlite" => c = conn[p],
         c.txn \in {"began", "reading"} => p \in lockedOut',
         UNCHANGED <<backend, calls, together, cut>>, lockedOut \subseteq lockedOut'
  PROVE  RevokedInv'
<1>1. OneJob(t) /\ Flagged(t) /\ UNCHANGED gone
  BY FailsQuietly
<1>2. \A q \in Procs : conn'[q] = IF q = p THEN c ELSE conn[q]
  BY DEF Rewritten, Sound, Typed
<1>3. DatabaseStep(p)
  BY <1>2 DEF Rewritten, DatabaseStep
<1>4. ASSUME NEW q \in Procs
      PROVE  /\ conn'[q].txn \in IF backend = "sqlite" THEN {"none", "began", "reading", "writing"}
                                                       ELSE {"none", "open", "aborted"}
             /\ conn'[q].txn \in {"began", "reading"} => q \in lockedOut'
             /\ conn'[q].txn = "aborted" => conn'[q].writes = <<>>
  BY <1>2 DEF RevokedInv, Modes
<1>5. Modes'
  BY <1>4 DEF Modes
<1> QED BY <1>1, <1>3, <1>5, QuietKeepsRevoked DEF RevokedInv, GoneIsDead

(* A statement that PostgreSQL refuses drops what others of the process have *)
(* pending; a revocation among it is noted as cut.                          *)
LEMMA AbortRevoked ==
  ASSUME Sound, RevokedInv, NEW t \in Threads, job[t].step = "write", Fails(t),
         NEW p \in Procs, p = Home[t], Rewritten(p, [Closed EXCEPT !.txn = "aborted"]),
         backend = "postgres", UNCHANGED <<backend, calls, together, lockedOut>>,
         cut' = cut \cup {job[u].n : u \in {u \in Away(t) : Home[u] = p}}
  PROVE  RevokedInv'
<1> USE DEF RevokedInv
<1>1. OneJob(t) /\ Flagged(t) /\ UNCHANGED gone
  BY FailsQuietly
<1>2. \A q \in Procs : conn'[q] = IF q = p THEN [Closed EXCEPT !.txn = "aborted"] ELSE conn[q]
  BY DEF Rewritten, Sound, Typed
<1>3. /\ \A u \in Threads \ {t} : job'[u] = job[u]
      /\ \A at : FreshBusy(at)' => FreshBusy(at)
  BY <1>1, OneJobIs DEF Sound
<1>4. (NoCut' => NoCut) /\ \A q : Excused(q) => Excused(q)'
  BY DEF NoCut, Excused, CutRevoked
<1>5. \A at, v : Dead(at, v)' <=> Dead(at, v)
  BY DEF Dead
<1>6. UNCHANGED stored /\ \A at, n : Issued(at, n)' <=> Issued(at, n)
  BY DEF Issued, Rewritten
<1>7. Owned'
  <2>1. ASSUME NEW q \in Procs, NEW i \in DOMAIN conn'[q].writes, conn'[q].writes[i].at \in Keys
        PROVE  \E u \in Threads :
                 /\ Home[u] = q /\ job'[u].step = "commit" /\ job'[u].n = conn'[q].writes[i].val
                 /\ Known[job'[u].op].do = conn'[q].writes[i].do
                 /\ Known[job'[u].op].at = conn'[q].writes[i].at
    <3>1. q # p
      BY <1>2, <2>1 DEF Closed
    <3>2. PICK u \in Threads : Owns(u, q, conn[q].writes[i])
      BY <1>2, <2>1, <3>1 DEF Owned
    <3> QED BY <1>2, <1>3, <3>1, <3>2 DEF Owns
  <2> QED BY <2>1 DEF Owned, Owns
<1>8. Modes'
  BY <1>2 DEF Modes, Closed
<1>9. GoneIsDead'
  BY <1>1, <1>3, <1>4, <1>5, <1>6 DEF GoneIsDead
<1>10. RevokingKills'
  <2>1. ASSUME NoCut', NEW u \in Threads, job'[u].step = "commit", job'[u].op \in Revocations, NEW at,
               at = Known[job'[u].op].at, ~Issued(at, job[u].n)
        PROVE  \/ Dead(at, stored'.rows[at])
               \/ \E i \in DOMAIN conn'[Home[u]].writes : conn'[Home[u]].writes[i].at = at
    <3>1. u # t /\ job'[u] = job[u] /\ Busy(u)
      BY <1>1, <1>3, <2>1 DEF Flagged, Busy
    <3>2. Dead(at, stored.rows[at]) \/ Pending(Home[u], at)
      BY <1>4, <2>1, <3>1 DEF RevokingKills
    <3>3. Home[u] # p
      <4> SUFFICES ASSUME Home[u] = p PROVE FALSE
        OBVIOUS
      <4>1. job[u].n \in cut'
        BY <3>1 DEF Away
      <4>2. job[u].n \in DOMAIN calls /\ calls[job[u].n] = job[u].op
        BY <2>1, <3>1 DEF Sound, Course, Revocations
      <4>3. CutRevoked'
        BY <2>1, <3>1, <4>1, <4>2 DEF CutRevoked
      <4> QED BY <2>1, <4>3 DEF NoCut
    <3>4. conn'[Home[u]] = conn[Home[u]]
      BY <1>2, <3>3, HomeIsProc
    <3> QED BY <1>6, <3>2, <3>4 DEF Pending
  <2>2. \A u \in Threads : job'[u].step = "commit" => job'[u] = job[u]
    BY <1>1, <1>3 DEF Flagged
  <2> QED BY <1>5, <1>6, <2>1, <2>2 DEF RevokingKills, Pending
<1>11. FlaggedIsGone'
  BY <1>1, <1>3 DEF FlaggedIsGone, Flagged, Busy
<1>12. FlaggedSeesDead'
  BY <1>1, <1>3, <1>4, <1>5 DEF FlaggedSeesDead, Flagged
<1>13. AdmittedExcused'
  BY <1>1, <1>4 DEF AdmittedExcused, Flagged
<1> QED BY <1>7, <1>8, <1>9, <1>10, <1>11, <1>12, <1>13


\* What is added to the writes that are pending.
LEMMA WritesGrow ==
  ASSUME NEW w \in Writes, NEW ws \in Seq(Writes)
  PROVE  /\ Append(ws, w) \in Seq(Writes)
         /\ DOMAIN Append(ws, w) = (DOMAIN ws) \cup {Len(ws) + 1}
         /\ Append(ws, w)[Len(ws) + 1] = w
         /\ \A i \in DOMAIN ws : Append(ws, w)[i] = ws[i]
         /\ Len(ws) \in Nat /\ Len(Append(ws, w)) = Len(ws) + 1
<1>1. /\ Append(ws, w) \in Seq(Writes) /\ Len(Append(ws, w)) = Len(ws) + 1
      /\ \A i \in 1..Len(ws) : Append(ws, w)[i] = ws[i]
      /\ Append(ws, w)[Len(ws) + 1] = w
  BY AppendProperties
<1>2. Len(ws) \in Nat /\ DOMAIN ws = 1..Len(ws) /\ DOMAIN Append(ws, w) = 1..Len(Append(ws, w))
  BY <1>1, LenProperties
<1> QED BY <1>1, <1>2

(* A statement that found no row found none that is stored, or one that is   *)
(* to be deleted by the same connection.                                    *)
LEMMA MissedOnly ==
  ASSUME Sound, Modes, backend = "postgres", NEW p \in Procs, NEW w \in Writes, Misses(p, w)
  PROVE  /\ w.at \in Keys
         /\ \/ stored.rows[w.at] = 0
            \/ \E i \in DOMAIN conn[p].writes :
                 /\ conn[p].writes[i].at = w.at
                 /\ conn[p].writes[i].do = "delete" \/ conn[p].writes[i].val = 0
<1>1. PICK ws : ws = conn[p].writes
  OBVIOUS
<1>2. Len(ws) \in Nat /\ DOMAIN ws = 1..Len(ws) /\ stored \in States /\ \A i \in 1..Len(ws) : ws[i] \in Writes
  BY <1>1, LenProperties DEF Sound, Typed, Conns
<1>3. PICK at : at = w.at
  OBVIOUS
<1>4. at \in Keys
  BY <1>3 DEF Misses, Writes
<1>5. WithWrites(stored, ws).rows[at] = 0
  BY <1>1, <1>3 DEF Misses, View, Modes
<1>6. ASSUME stored.rows[at] # 0,
             \A i \in 1..Len(ws) : ws[i].at = at => ws[i].do # "delete" /\ ws[i].val # 0
      PROVE  FALSE
  <2>1. PICK P : P = {s \in States : s.rows[at] # 0}
    OBVIOUS
  <2>2. ASSUME NEW i \in 1..Len(ws), NEW x \in P PROVE Applied(ws[i], x) \in P
    <3>1. PICK v \in Writes : v = ws[i]
      BY <1>2
    <3>2. x \in States /\ x.rows[at] # 0 /\ Applied(v, x) \in States
      BY <2>1, <2>2, AppliedType
    <3>3. CASE v.do \in {"insert", "update"}
      BY <1>4, <1>6, <3>1, <3>2, <3>3, <2>1 DEF Applied, States, Writes
    <3>4. CASE v.do = "delete"
      BY <1>4, <1>6, <3>1, <3>2, <3>4, <2>1 DEF Applied, States, Writes
    <3>5. CASE v.do \in {"append", "purge"}
      BY <1>4, <3>1, <3>2, <3>5, <2>1 DEF Applied, States, Writes
    <3> QED BY <3>3, <3>4, <3>5 DEF Writes
  <2>3. WithWrites(stored, ws) \in P
    BY <1>2, <1>6, <2>1, <2>2, WritesKeep
  <2> QED BY <1>5, <2>1, <2>3
<1> QED BY <1>1, <1>2, <1>3, <1>4, <1>6

\* c is the connection of p once it took the statement w.
Accepts(p, w, c) ==
  \/ c.writes = Append(conn[p].writes, w)
  \/ c.writes = conn[p].writes /\ backend = "postgres" /\ Misses(p, w)
Grows(p, w, c) ==
  /\ \A i \in DOMAIN conn[p].writes : i \in DOMAIN c.writes /\ c.writes[i] = conn[p].writes[i]
  /\ \A i \in DOMAIN c.writes :
       \/ i \in DOMAIN conn[p].writes /\ c.writes[i] = conn[p].writes[i]
       \/ i = Len(conn[p].writes) + 1 /\ c.writes[i] = w
  /\ (\E i \in DOMAIN c.writes : c.writes[i] = w) \/ (backend = "postgres" /\ Misses(p, w))

LEMMA AcceptedGrows ==
  ASSUME Sound, NEW p \in Procs, NEW w \in Writes, NEW c \in Conns, Accepts(p, w, c)
  PROVE  Grows(p, w, c)
<1>1. PICK ws : ws = conn[p].writes
  OBVIOUS
<1>2. ws \in Seq(Writes)
  BY <1>1 DEF Sound, Typed, Conns
<1>3. CASE c.writes = Append(ws, w)
  <2>1. /\ DOMAIN c.writes = (DOMAIN ws) \cup {Len(ws) + 1} /\ c.writes[Len(ws) + 1] = w
        /\ \A i \in DOMAIN ws : c.writes[i] = ws[i]
    BY <1>2, <1>3, WritesGrow
  <2> QED BY <1>1, <2>1 DEF Grows
<1>4. CASE c.writes = ws /\ backend = "postgres" /\ Misses(p, w)
  BY <1>1, <1>4 DEF Grows
<1> QED BY <1>1, <1>3, <1>4 DEF Accepts

LEMMA AcceptedRevoked ==
  ASSUME Sound, RevokedInv, NEW t \in Threads, job[t].step = "write",
         Goes(t, [job[t] EXCEPT !.step = "commit"]),
         NEW p \in Procs, p = Home[t], NEW c \in Conns, Rewritten(p, c),
         Accepts(p, Statement(t), c),
         c.txn = IF backend = "sqlite" THEN "writing" ELSE "open",
         UNCHANGED <<backend, calls, together, cut, lockedOut>>
  PROVE  RevokedInv'
<1> USE DEF RevokedInv
<1>1. /\ job[t] \in Jobs /\ job'[t] = [job[t] EXCEPT !.step = "commit"]
      /\ \A u \in Threads \ {t} : job'[u] = job[u]
      /\ UNCHANGED <<gone, admitted, stored>>
  BY DEF Goes, Sound, Typed, Rewritten
<1>2. /\ job'[t].step = "commit" /\ job'[t].op = job[t].op /\ job'[t].n = job[t].n
      /\ job'[t].gone = job[t].gone /\ Busy(t)
  BY <1>1 DEF Jobs, Busy
<1>3. \A q \in Procs : conn'[q] = IF q = p THEN c ELSE conn[q]
  BY DEF Rewritten, Sound, Typed
<1>4. PICK w : w = Statement(t)
  OBVIOUS
<1>5. /\ w \in Writes /\ w.do = Known[job[t].op].do /\ w.at = Known[job[t].op].at
      /\ w.at \in Keys => w.val = job[t].n
  BY <1>4, StatementType DEF Sound
<1>6. Grows(p, w, c)
  BY <1>4, <1>5, AcceptedGrows
<1>7. /\ \A i \in DOMAIN conn[p].writes : i \in DOMAIN c.writes /\ c.writes[i] = conn[p].writes[i]
      /\ \A i \in DOMAIN c.writes :
           \/ i \in DOMAIN conn[p].writes /\ c.writes[i] = conn[p].writes[i]
           \/ c.writes[i] = w
      /\ (\E i \in DOMAIN c.writes : c.writes[i] = w) \/ (backend = "postgres" /\ Misses(p, w))
  BY <1>6 DEF Grows
<1>8. /\ NoCut' <=> NoCut
      /\ \A q : Excused(q)' <=> Excused(q)
      /\ \A at, v : Dead(at, v)' <=> Dead(at, v)
      /\ \A at, n : Issued(at, n)' <=> Issued(at, n)
  BY DEF NoCut, Excused, CutRevoked, Dead, Issued
<1>9. \A at : FreshBusy(at)' <=> FreshBusy(at)
  <2>1. \A u \in Threads : job'[u].op = job[u].op /\ (job'[u].step # "idle" <=> job[u].step # "idle")
    BY <1>1, <1>2 DEF Busy
  <2> QED BY <2>1 DEF FreshBusy, Busy
<1>10. Owned'
  <2>1. ASSUME NEW q \in Procs, NEW i \in DOMAIN conn'[q].writes, conn'[q].writes[i].at \in Keys
        PROVE  \E u \in Threads :
                 /\ Home[u] = q /\ job'[u].step = "commit" /\ job'[u].n = conn'[q].writes[i].val
                 /\ Known[job'[u].op].do = conn'[q].writes[i].do
                 /\ Known[job'[u].op].at = conn'[q].writes[i].at
    <3>1. CASE i \in DOMAIN conn[q].writes /\ conn'[q].writes[i] = conn[q].writes[i]
      <4>1. PICK u \in Threads : Owns(u, q, conn[q].writes[i])
        BY <2>1, <3>1 DEF Owned
      <4> QED BY <1>1, <3>1, <4>1 DEF Owns
    <3>2. CASE q = p /\ conn'[q].writes[i] = w
      BY <1>2, <1>5, <2>1, <3>2
    <3> QED BY <1>3, <1>7, <2>1, <3>1, <3>2
  <2> QED BY <2>1 DEF Owned, Owns
<1>11. Modes'
  <2>1. ASSUME NEW q \in Procs
        PROVE  /\ conn'[q].txn \in IF backend = "sqlite" THEN {"none", "began", "reading", "writing"}
                                                         ELSE {"none", "open", "aborted"}
               /\ conn'[q].txn \in {"began", "reading"} => q \in lockedOut
               /\ conn'[q].txn = "aborted" => conn'[q].writes = <<>>
    BY <1>3 DEF Modes
  <2> QED BY <2>1 DEF Modes
<1>12. GoneIsDead'
  BY <1>1, <1>8, <1>9 DEF GoneIsDead
<1>13. RevokingKills'
  <2>1. ASSUME NoCut, NEW u \in Threads, job'[u].step = "commit", job'[u].op \in Revocations, NEW at,
               at = Known[job'[u].op].at, ~Issued(at, job[u].n)
        PROVE  \/ Dead(at, stored'.rows[at])
               \/ \E i \in DOMAIN conn'[Home[u]].writes : conn'[Home[u]].writes[i].at = at
    <3>1. CASE u = t
      <4>1. at = w.at /\ at \in Keys /\ Home[u] = p
        <5>1. at \in Credentials
          BY <1>2, <2>1, <3>1, RevokingAlone
        <5> QED BY <1>2, <1>5, <2>1, <3>1, <5>1 DEF Credentials, Keys
      <4>2. CASE backend = "postgres" /\ Misses(p, w)
        <5>1. stored.rows[at] = 0 \/ Pending(p, at)
          BY <1>5, <4>1, <4>2, MissedOnly DEF Pending
        <5> QED BY <1>1, <1>3, <1>7, <4>1, <5>1 DEF Pending, Dead
      <4> QED BY <1>3, <1>7, <4>1, <4>2
    <3>2. CASE u # t
      <4>1. Dead(at, stored.rows[at]) \/ Pending(Home[u], at)
        BY <1>1, <2>1, <3>2 DEF RevokingKills
      <4>2. /\ Home[u] \in Procs
            /\ \A i \in DOMAIN conn[Home[u]].writes :
                 i \in DOMAIN conn'[Home[u]].writes /\ conn'[Home[u]].writes[i] = conn[Home[u]].writes[i]
        BY <1>3, <1>7, HomeIsProc
      <4> QED BY <1>1, <4>1, <4>2 DEF Pending
    <3> QED BY <3>1, <3>2
  <2>2. \A u \in Threads : job'[u].n = job[u].n
    BY <1>1, <1>2
  <2> QED BY <1>8, <2>1, <2>2 DEF RevokingKills, Pending
<1>14. FlaggedIsGone'
  BY <1>1, <1>2 DEF FlaggedIsGone, Busy
<1>15. FlaggedSeesDead'
  BY <1>1, <1>2, <1>8 DEF FlaggedSeesDead
<1>16. AdmittedExcused'
  BY <1>1, <1>8 DEF AdmittedExcused
<1> QED BY <1>10, <1>11, <1>12, <1>13, <1>14, <1>15, <1>16


LEMMA WriteRevoked ==
  ASSUME Sound, RevokedInv, NEW t \in Threads, Write(t)
  PROVE  RevokedInv'
<1> DEFINE p == Home[t]
           w == Statement(t)
<1>1. p \in Procs /\ conn[p] \in Conns /\ w \in Writes /\ job[t].step = "write"
  BY HomeIsProc, StatementType DEF Write, Sound, Typed
<1>2. conn[p].writes \in Seq(Writes) /\ Append(conn[p].writes, w) \in Seq(Writes)
  BY <1>1, WritesGrow DEF Conns
<1> HIDE DEF p, w
<1>3. UNCHANGED <<backend, stored, calls, together>>
  BY DEF Write
<1>4. CASE WriteSQLite(t)
  <2>1. CASE /\ conn' = [conn EXCEPT ![p].txn = IF @ = "none" THEN "began" ELSE @]
             /\ lockedOut' = lockedOut \cup {p} /\ Fails(t)
    <3> DEFINE c == [conn[p] EXCEPT !.txn = IF @ = "none" THEN "began" ELSE @]
    <3>1. Rewritten(p, c)
      BY <1>3, <2>1 DEF Rewritten
    <3>2. c \in Conns /\ c.writes = conn[p].writes /\ c.txn \in {"began", "reading", "writing"}
      BY <1>1, <1>4 DEF Conns, WriteSQLite, RevokedInv, Modes
    <3> HIDE DEF c
    <3> QED BY <1>1, <1>3, <1>4, <2>1, <3>1, <3>2, RefusedRevoked DEF WriteSQLite, p
  <2>2. CASE /\ conn' = [conn EXCEPT ![p] = [Closed EXCEPT !.txn = "writing", !.writes = conn[p].writes]]
             /\ Fails(t) /\ UNCHANGED lockedOut
    <3> DEFINE c == [Closed EXCEPT !.txn = "writing", !.writes = conn[p].writes]
    <3>1. Rewritten(p, c)
      BY <1>3, <2>2 DEF Rewritten
    <3>2. c \in Conns /\ c.writes = conn[p].writes /\ c.txn = "writing"
      BY <1>2 DEF Conns, Closed
    <3> HIDE DEF c
    <3> QED BY <1>1, <1>3, <1>4, <2>2, <3>1, <3>2, RefusedRevoked DEF WriteSQLite, p
  <2>3. CASE /\ conn' = [conn EXCEPT ![p] = [Closed EXCEPT !.txn = "writing",
                                                !.writes = Append(conn[p].writes, w)]]
             /\ Goes(t, [job[t] EXCEPT !.step = "commit"]) /\ UNCHANGED lockedOut
    <3> DEFINE c == [Closed EXCEPT !.txn = "writing", !.writes = Append(conn[p].writes, w)]
    <3>1. Rewritten(p, c)
      BY <1>3, <2>3 DEF Rewritten
    <3>2. c \in Conns /\ Accepts(p, w, c) /\ c.txn = "writing"
      BY <1>2 DEF Conns, Closed, Accepts
    <3> HIDE DEF c
    <3> QED BY <1>1, <1>3, <1>4, <2>3, <3>1, <3>2, AcceptedRevoked DEF WriteSQLite, p, w
  <2> QED BY <1>4, <2>1, <2>2, <2>3 DEF WriteSQLite, p, w
<1>5. CASE WritePostgres(t)
  <2>1. CASE Fails(t) /\ UNCHANGED <<conn, cut>>
    <3>1. Rewritten(p, conn[p])
      BY <1>3, <2>1 DEF Rewritten, Sound, Typed
    <3>2. conn[p].txn \notin {"began", "reading"}
      BY <1>1, <1>5 DEF WritePostgres, RevokedInv, Modes
    <3> QED BY <1>1, <1>3, <1>5, <2>1, <3>1, <3>2, RefusedRevoked DEF WritePostgres, p
  <2>2. CASE /\ conn' = [conn EXCEPT ![p] = [Closed EXCEPT !.txn = "aborted"]]
             /\ cut' = cut \cup {job[u].n : u \in {u \in Away(t) : Home[u] = p}} /\ Fails(t)
    <3>1. Rewritten(p, [Closed EXCEPT !.txn = "aborted"])
      BY <1>3, <2>2 DEF Rewritten
    <3> QED BY <1>1, <1>3, <1>5, <2>2, <3>1, AbortRevoked DEF WritePostgres, p
  <2>3. CASE /\ conn' = [conn EXCEPT ![p].txn = "open",
                            ![p].writes = IF Misses(p, w) THEN @ ELSE Append(@, w)]
             /\ Goes(t, [job[t] EXCEPT !.step = "commit"]) /\ UNCHANGED cut
    <3> DEFINE c == [conn[p] EXCEPT !.txn = "open",
                                  !.writes = IF Misses(p, w) THEN @ ELSE Append(@, w)]
    <3>1. Rewritten(p, c)
      BY <1>1, <1>3, <2>3 DEF Rewritten, Sound, Typed
    <3>2. c \in Conns /\ Accepts(p, w, c) /\ c.txn = "open"
      BY <1>1, <1>2, <1>5 DEF Conns, Accepts, WritePostgres
    <3>3. backend = "postgres"
      BY <1>5 DEF WritePostgres
    <3> HIDE DEF c
    <3> QED BY <1>1, <1>3, <1>5, <2>3, <3>1, <3>2, <3>3, AcceptedRevoked DEF WritePostgres, p, w
  <2> QED BY <1>5, <2>1, <2>2, <2>3 DEF WritePostgres, p, w
<1> QED BY <1>4, <1>5 DEF Write

LEMMA CallRevoked ==
  ASSUME Sound, RevokedInv, NEW t \in Threads, NEW op \in mix, Call(t, op)
  PROVE  RevokedInv'
<1> USE DEF RevokedInv
<1>1. op \in Ops /\ calls \in Seq(Ops) /\ calls' = Append(calls, op) /\ ~Busy(t)
  BY DEF Sound, Typed, Call
<1>2. \A m \in DOMAIN calls : m \in DOMAIN calls' /\ calls'[m] = calls[m]
  BY <1>1, CallsGrow
<1>3. UNCHANGED <<backend, stored, conn, cut, lockedOut, admitted>> /\ together \subseteq together'
  BY DEF Call
<1>4. /\ job'[t].op = op /\ job'[t].step \in {"write", "look"}
      /\ job'[t].gone => op \in Validations /\ Known[op].at \in gone
  BY DEF Call
<1>5. ASSUME NEW u \in Threads \ {t}
      PROVE  /\ job'[u].op = job[u].op /\ job'[u].n = job[u].n /\ job'[u].step = job[u].step
             /\ job'[u].seen = job[u].seen
             /\ job'[u].gone => job[u].gone /\ op \notin Fresh
  <2>1. job[u] \in Jobs /\ job'[u] = [job[u] EXCEPT !.gone = @ /\ op \notin Fresh]
    BY DEF Call, Sound, Typed
  <2> QED BY <2>1 DEF Jobs
<1>6. gone' = IF op \in Fresh THEN gone \ {Known[op].at} ELSE gone
  BY DEF Call
<1>7. /\ NoCut' => NoCut
      /\ \A q : Excused(q) => Excused(q)'
      /\ \A at, v : Dead(at, v) => Dead(at, v)'
      /\ \A at, m : Issued(at, m) => Issued(at, m)'
  BY <1>2, <1>3 DEF NoCut, Excused, CutRevoked, Dead, Issued
<1>8. \A at : FreshBusy(at)' => FreshBusy(at) \/ (op \in Fresh /\ Known[op].at = at)
  <2>1. \A u \in Threads : u # t => job'[u].op = job[u].op /\ job'[u].step = job[u].step
    BY <1>5
  <2> QED BY <1>4, <2>1 DEF FreshBusy, Busy
<1>9. Owned'
  <2>1. ASSUME NEW q \in Procs, NEW i \in DOMAIN conn[q].writes, conn[q].writes[i].at \in Keys
        PROVE  \E u \in Threads :
                 /\ Home[u] = q /\ job'[u].step = "commit" /\ job'[u].n = conn[q].writes[i].val
                 /\ Known[job'[u].op].do = conn[q].writes[i].do
                 /\ Known[job'[u].op].at = conn[q].writes[i].at
    <3>1. PICK u \in Threads : Owns(u, q, conn[q].writes[i])
      BY <2>1 DEF Owned
    <3>2. u # t
      BY <1>1, <3>1 DEF Owns, Busy
    <3> QED BY <1>5, <3>1, <3>2 DEF Owns
  <2> QED BY <1>3, <2>1 DEF Owned, Owns
<1>10. Modes'
  BY <1>3 DEF Modes
<1>11. GoneIsDead'
  BY <1>3, <1>6, <1>7, <1>8 DEF GoneIsDead
<1>12. RevokingKills'
  <2>1. ASSUME NoCut, NEW u \in Threads, job'[u].step = "commit", job'[u].op \in Revocations, NEW at,
               at = Known[job'[u].op].at, ~Issued(at, job[u].n)
        PROVE  Dead(at, stored.rows[at]) \/ Pending(Home[u], at)
    <3>1. u # t
      BY <1>4, <2>1
    <3> QED BY <1>5, <2>1, <3>1 DEF RevokingKills
  <2>2. \A u \in Threads : job'[u].step = "commit" => job'[u].n = job[u].n
    BY <1>4, <1>5
  <2>3. \A q, at : Pending(q, at)' <=> Pending(q, at)
    BY <1>3 DEF Pending
  <2> QED BY <1>3, <1>7, <2>1, <2>2, <2>3 DEF RevokingKills
<1>13. FlaggedIsGone'
  <2>1. ASSUME NEW u \in Threads, job'[u].gone
        PROVE  job'[u].step # "idle" /\ job'[u].op \in Validations /\ Known[job'[u].op].at \in gone'
    <3>1. CASE u = t
      BY <1>4, <1>6, <2>1, <3>1 DEF Validations, Fresh
    <3>2. CASE u # t
      BY <1>5, <1>6, <2>1, <3>2 DEF FlaggedIsGone, Busy
    <3> QED BY <3>1, <3>2
  <2> QED BY <2>1 DEF FlaggedIsGone, Busy
<1>14. FlaggedSeesDead'
  <2>1. ASSUME NEW u \in Threads, job'[u].gone, ~Excused(Home[u])
        PROVE  /\ job'[u].step \notin {"look_user", "leave_user"}
               /\ job'[u].step = "leave" => Dead(Known[job'[u].op].at, job'[u].seen)
    <3>1. CASE u = t
      BY <1>4, <3>1
    <3>2. CASE u # t
      BY <1>5, <2>1, <3>2 DEF FlaggedSeesDead
    <3> QED BY <3>1, <3>2
  <2> QED BY <1>7, <2>1 DEF FlaggedSeesDead
<1>15. AdmittedExcused'
  BY <1>3, <1>7 DEF AdmittedExcused
<1> QED BY <1>9, <1>10, <1>11, <1>12, <1>13, <1>14, <1>15


LEMMA CrashRevoked ==
  ASSUME Sound, RevokedInv, NEW p \in Procs, Crash(p)
  PROVE  RevokedInv'
<1> USE DEF RevokedInv
<1>1. \A u \in Threads : IF Home[u] = p THEN job'[u] = Idle ELSE job'[u] = job[u]
  BY DEF Crash
<1>2. \A q \in Procs : conn'[q] = IF q = p THEN Closed ELSE conn[q]
  BY DEF Crash, Sound, Typed
<1>3. /\ UNCHANGED <<backend, stored, calls, cut, together, gone>>
      /\ lockedOut' = lockedOut \ {p} /\ admitted' = admitted \ {p}
  BY DEF Crash
<1>4. /\ NoCut' <=> NoCut
      /\ \A q : q # p => (Excused(q)' <=> Excused(q))
      /\ \A at, v : Dead(at, v)' <=> Dead(at, v)
      /\ \A at, m : Issued(at, m)' <=> Issued(at, m)
  BY <1>3 DEF NoCut, Excused, CutRevoked, Dead, Issued
<1>5. \A at : FreshBusy(at)' => FreshBusy(at)
  BY <1>1 DEF FreshBusy, Busy, Idle
<1>6. Owned'
  <2>1. ASSUME NEW q \in Procs, NEW i \in DOMAIN conn'[q].writes, conn'[q].writes[i].at \in Keys
        PROVE  \E u \in Threads :
                 /\ Home[u] = q /\ job'[u].step = "commit" /\ job'[u].n = conn'[q].writes[i].val
                 /\ Known[job'[u].op].do = conn'[q].writes[i].do
                 /\ Known[job'[u].op].at = conn'[q].writes[i].at
    <3>1. q # p
      BY <1>2, <2>1 DEF Closed
    <3>2. PICK u \in Threads : Owns(u, q, conn[q].writes[i])
      BY <1>2, <2>1, <3>1 DEF Owned
    <3> QED BY <1>1, <1>2, <3>1, <3>2 DEF Owns
  <2> QED BY <2>1 DEF Owned, Owns
<1>7. Modes'
  BY <1>2, <1>3 DEF Modes, Closed
<1>8. GoneIsDead'
  BY <1>3, <1>4, <1>5 DEF GoneIsDead
<1>9. RevokingKills'
  <2>1. ASSUME NoCut, NEW u \in Threads, job'[u].step = "commit", job'[u].op \in Revocations, NEW at,
               at = Known[job'[u].op].at, ~Issued(at, job'[u].n)
        PROVE  \/ Dead(at, stored'.rows[at])
               \/ \E i \in DOMAIN conn'[Home[u]].writes : conn'[Home[u]].writes[i].at = at
    <3>1. Home[u] # p /\ job'[u] = job[u] /\ Home[u] \in Procs
      BY <1>1, <2>1, HomeIsProc DEF Idle
    <3>2. Dead(at, stored.rows[at]) \/ Pending(Home[u], at)
      BY <2>1, <3>1 DEF RevokingKills
    <3> QED BY <1>2, <1>3, <3>1, <3>2 DEF Pending
  <2>2. \A u \in Threads : job'[u].step = "commit" => job'[u] = job[u]
    BY <1>1 DEF Idle
  <2> QED BY <1>4, <2>1, <2>2 DEF RevokingKills, Pending
<1>10. \A u \in Threads : job'[u].gone => job'[u] = job[u] /\ Home[u] # p
  BY <1>1 DEF Idle
<1>11. FlaggedIsGone'
  BY <1>3, <1>10 DEF FlaggedIsGone, Busy
<1>12. FlaggedSeesDead'
  BY <1>4, <1>10 DEF FlaggedSeesDead
<1>13. AdmittedExcused'
  BY <1>3, <1>4 DEF AdmittedExcused
<1> QED BY <1>6, <1>7, <1>8, <1>9, <1>11, <1>12, <1>13

LEMMA RevokedStutters ==
  ASSUME RevokedInv, UNCHANGED <<backend, stored, conn, job, calls, cut, lockedOut, together, gone, admitted>>
  PROVE  RevokedInv'
<1>1. /\ NoCut' <=> NoCut
      /\ \A q : Excused(q)' <=> Excused(q)
      /\ \A at, v : Dead(at, v)' <=> Dead(at, v)
      /\ \A at, m : Issued(at, m)' <=> Issued(at, m)
      /\ \A at : FreshBusy(at)' <=> FreshBusy(at)
      /\ \A q, at : Pending(q, at)' <=> Pending(q, at)
  BY DEF NoCut, Excused, CutRevoked, Dead, Issued, FreshBusy, Busy, Pending
<1>2. Owned' /\ Modes' /\ GoneIsDead'
  BY <1>1 DEF RevokedInv, Owned, Owns, Modes, GoneIsDead
<1>3. RevokingKills'
  BY <1>1 DEF RevokedInv, RevokingKills
<1>4. FlaggedIsGone' /\ FlaggedSeesDead' /\ AdmittedExcused'
  BY <1>1 DEF RevokedInv, FlaggedIsGone, FlaggedSeesDead, AdmittedExcused, Busy
<1> QED BY <1>2, <1>3, <1>4 DEF RevokedInv

LEMMA RevokedInit == ASSUME Init PROVE RevokedInv
<1>1. \A t \in Threads : job[t].step = "idle" /\ job[t].gone = FALSE
  BY DEF Init, Idle
<1>2. \A p \in Procs : conn[p].writes = <<>> /\ conn[p].txn = "none"
  BY DEF Init, Closed
<1>3. gone = {} /\ admitted = {}
  BY DEF Init
<1>4. Owned /\ Modes /\ GoneIsDead
  BY <1>2, <1>3 DEF Owned, Modes, GoneIsDead
<1>5. RevokingKills /\ FlaggedIsGone /\ FlaggedSeesDead /\ AdmittedExcused
  BY <1>1, <1>3 DEF RevokingKills, FlaggedIsGone, FlaggedSeesDead, AdmittedExcused
<1> QED BY <1>4, <1>5 DEF RevokedInv

LEMMA RevokedNext == ASSUME Sound, RevokedInv, [Next]_vars PROVE RevokedInv'
<1>1. CASE UNCHANGED vars
  BY <1>1, RevokedStutters DEF vars
<1>2. CASE Age
  BY <1>2, RevokedStutters DEF Age, ghosts
<1> QED BY <1>1, <1>2, CallRevoked, LookRevoked, LeaveRevoked, WriteRevoked, CommitRevoked,
           CrashRevoked DEF Next

(* RevokedStaysOut, for every number of threads, processes and calls: after *)
(* a logout or a revocation was acknowledged, nobody gets in with the       *)
(* session or the key any more, but for the two causes that it names        *)
(* (account_service.validate_session, validate_api_key).                    *)
THEOREM RevokedCredentialStaysOut == Spec => []RevokedStaysOut
<1>1. Init => RevokedInv
  BY RevokedInit
<1>2. Sound /\ RevokedInv /\ [Next]_vars => RevokedInv'
  BY RevokedNext
<1>3. RevokedInv => RevokedStaysOut
  <2> SUFFICES ASSUME RevokedInv, NEW p \in admitted
               PROVE  IF backend = "sqlite" THEN p \in lockedOut
                      ELSE \E n \in cut : calls[n] \in Revocations
    BY DEF RevokedStaysOut
  <2> QED BY DEF RevokedInv, AdmittedExcused, Excused, CutRevoked
<1> QED BY <1>1, <1>2, <1>3, SoundAlways, PTL DEF Spec


-----------------------------------------------------------------------------
(* The audit chain holds.  As long as recorders keep apart, at most one of   *)
(* them is under way: what it sees last in the log is last until it has      *)
(* appended, since a commit of any other thread can only purge, from the     *)
(* start of the log; and what it has pending comes right behind the log.     *)

Apart ==
  /\ ~\E n, m \in DOMAIN calls :
        n # m /\ {n, m} \in together /\ calls[n] \in Recorders /\ calls[m] \in Recorders
  /\ behind = {}

\* Newer entries have greater numbers, and each has its place.
Ordered(log) ==
  \A e, f \in log : (e.seq < f.seq <=> e.id < f.id) /\ (e.seq = f.seq => e = f)

\* e is to come right behind what the log holds.
Appends(w) == w.do = "append" /\ w.at = "log"
Follows(e, log) ==
  /\ \A f \in log : f.seq < e.seq /\ f.id < e.id
  /\ log = {} \/ e.previous_hash = LastOf(log)

PurgeAlone ==
  \A t, u \in Threads : Busy(t) /\ Busy(u) /\ job[t].op = "purge" /\ Home[t] = Home[u] => t = u
LogOwned ==
  \A p \in Procs : \A i \in DOMAIN conn[p].writes :
    LET w == conn[p].writes[i]
    IN  /\ w.do = "purge" => \E t \in Threads : Home[t] = p /\ Busy(t) /\ job[t].op = "purge"
        /\ Appends(w) => \E t \in Threads : /\ Home[t] = p /\ job[t].n = w.val.id
                                           /\ job[t].op = "record" /\ job[t].step = "commit"
SnapsFresh ==
  \A p \in Procs : conn[p].txn = "reading" /\ ~conn[p].stale => conn[p].snap = stored

NextInLine ==
  \A p \in Procs : \A i \in DOMAIN conn[p].writes : Appends(conn[p].writes[i]) =>
    /\ conn[p].writes[i].val.seq <= serial
    /\ Follows(conn[p].writes[i].val, stored.log)
    /\ \A k \in DOMAIN conn[p].writes : Appends(conn[p].writes[k]) => k = i
BusyFirst ==
  \A t \in Threads : Busy(t) /\ calls[job[t].n] \in Recorders =>
    \A e \in stored.log :
      e.id <= job[t].n /\ (e.id = job[t].n => job[t].op = "record" /\ job[t].step = "commit")
SeenLast ==
  \A t \in Threads : job[t].op = "record" /\ job[t].step = "write" =>
    stored.log = {} \/ job[t].seen = LastOf(stored.log)

LogInOrder ==
  /\ Ordered(stored.log) /\ ChainHolds(stored.log)
  /\ \A e \in stored.log : e.seq <= serial /\ e.id <= Len(calls)
  /\ NextInLine /\ BusyFirst /\ SeenLast
ChainInv == PurgeAlone /\ LogOwned /\ SnapsFresh /\ (Apart => LogInOrder)

LEMMA LastOnly ==
  ASSUME NEW L \in Logs, Ordered(L), NEW g \in L, \A f \in L : f.seq <= g.seq
  PROVE  LastOf(L) = g.id
<1>1. PICK h \in L : LastOf(L) = h.id /\ \A f \in L : f.seq <= h.seq
  BY LastIs
<1>2. g.seq \in Nat /\ h.seq \in Nat /\ g.seq <= h.seq /\ h.seq <= g.seq
  BY <1>1 DEF Logs, Entries
<1>3. g.seq = h.seq
  BY <1>2
<1> QED BY <1>1, <1>3 DEF Ordered

LEMMA PartIsLog == ASSUME NEW L \in Logs, NEW M, M \subseteq L PROVE M \in Logs
BY DEF Logs

\* What is left of a log that was purged: its newer entries.
Remains(M, L) == M \subseteq L /\ \A e \in M, f \in L : e.id < f.id => f \in M

(* A purge takes the start of the chain away; the rest holds together.      *)
LEMMA RemainsHold ==
  ASSUME NEW L \in Logs, Ordered(L), ChainHolds(L), NEW M, Remains(M, L)
  PROVE  M \in Logs /\ Ordered(M) /\ ChainHolds(M) /\ (M = {} \/ LastOf(M) = LastOf(L))
<1>1. M \subseteq L /\ M \in Logs /\ Ordered(M)
  BY PartIsLog DEF Remains, Ordered
<1>2. \A e \in L : e.id \in Nat /\ e.seq \in Nat
  BY DEF Logs, Entries
<1>3. ASSUME NEW e \in M PROVE LET before == {f \in M : f.seq < e.seq}
                               IN  before = {} \/ e.previous_hash = LastOf(before)
  <2> DEFINE before == {f \in M : f.seq < e.seq}
             earlier == {f \in L : f.seq < e.seq}
  <2>1. CASE before = {}
    BY <2>1
  <2>2. CASE before # {}
    <3>1. PICK h \in before : TRUE
      BY <2>2
    <3>2. before \in Logs /\ earlier \in Logs /\ earlier # {} /\ h \in earlier
      BY <1>1, <3>1, PartIsLog
    <3>3. e.previous_hash = LastOf(earlier)
      BY <1>1, <3>2 DEF ChainHolds
    <3>4. PICK g \in earlier : LastOf(earlier) = g.id /\ \A f \in earlier : f.seq <= g.seq
      <4> HIDE DEF earlier
      <4> QED BY <3>2, LastIs
    <3>5. g \in before
      <4>1. h.seq <= g.seq /\ h \in M /\ g \in L /\ h \in L /\ g.seq < e.seq
        BY <1>1, <3>1, <3>2, <3>4
      <4>2. g = h \/ h.id < g.id
        BY <1>2, <4>1 DEF Ordered
      <4> QED BY <4>1, <4>2 DEF Remains
    <3>6. Ordered(before) /\ \A f \in before : f.seq <= g.seq
      BY <1>1, <3>4 DEF Ordered
    <3>7. LastOf(before) = g.id
      <4> HIDE DEF before
      <4> QED BY <3>2, <3>5, <3>6, LastOnly
    <3> QED BY <3>3, <3>4, <3>7
  <2> QED BY <2>1, <2>2
<1>4. ChainHolds(M)
  BY <1>3 DEF ChainHolds
<1>5. ASSUME M # {} PROVE LastOf(M) = LastOf(L)
  <2>1. PICK h \in M : h \in L
    BY <1>1, <1>5
  <2>2. PICK g \in L : LastOf(L) = g.id /\ \A f \in L : f.seq <= g.seq
    BY <2>1, LastIs
  <2>3. g = h \/ h.id < g.id
    BY <1>2, <2>1, <2>2 DEF Ordered
  <2>4. g \in M
    BY <2>1, <2>2, <2>3 DEF Remains
  <2> QED BY <1>1, <2>2, <2>4, LastOnly
<1> QED BY <1>1, <1>4, <1>5

(* An entry that follows the last one keeps the chain.                      *)
LEMMA FollowerHolds ==
  ASSUME NEW L \in Logs, Ordered(L), ChainHolds(L), NEW e \in Entries, Follows(e, L)
  PROVE  L \cup {e} \in Logs /\ Ordered(L \cup {e}) /\ ChainHolds(L \cup {e})
<1>1. \A f \in L \cup {e} : f.id \in Nat /\ f.seq \in Nat
  BY DEF Logs, Entries
<1>2. L \cup {e} \in Logs
  <2>1. \A f \in L \cup {e} : f.seq <= e.seq
    BY <1>1 DEF Follows
  <2> QED BY <1>1, <2>1 DEF Logs
<1>3. Ordered(L \cup {e})
  BY <1>1 DEF Ordered, Follows
<1>4. ASSUME NEW d \in L \cup {e}
      PROVE  LET before == {f \in L \cup {e} : f.seq < d.seq}
             IN  before = {} \/ d.previous_hash = LastOf(before)
  <2> DEFINE before == {f \in L \cup {e} : f.seq < d.seq}
  <2>1. CASE d \in L
    <3>1. before = {f \in L : f.seq < d.seq}
      BY <1>1, <2>1 DEF Follows
    <3> QED BY <2>1, <3>1 DEF ChainHolds
  <2>2. CASE d = e
    <3>1. before = L
      BY <1>1, <2>2 DEF Follows
    <3> QED BY <2>2, <3>1 DEF Follows
  <2> QED BY <2>1, <2>2
<1> QED BY <1>2, <1>3, <1>4 DEF ChainHolds


LEMMA AppliedRemains ==
  ASSUME NEW w \in Writes, ~Appends(w), NEW s \in States, NEW L, Remains(s.log, L)
  PROVE  Remains(Applied(w, s).log, L)
<1>1. CASE w.do = "purge"
  <2>1. Applied(w, s).log = {e \in s.log : e.id > w.val} /\ w.val \in Nat
    BY <1>1 DEF Applied, States, Writes
  <2>2. \A e \in s.log : e.id \in Nat
    BY DEF States, Logs, Entries
  <2>3. ASSUME NEW e \in s.log, NEW f \in L, e.id > w.val, e.id < f.id PROVE f \in s.log /\ f.id > w.val
    <3>1. f \in s.log
      BY <2>3 DEF Remains
    <3> QED BY <2>1, <2>2, <2>3, <3>1
  <2> QED BY <2>1, <2>3 DEF Remains
<1>2. CASE w.do # "purge"
  <2>1. Applied(w, s).log = s.log
    BY <1>2 DEF Applied, States, Writes, Appends
  <2> QED BY <2>1
<1> QED BY <1>1, <1>2

LEMMA AppliedAppends ==
  ASSUME NEW w \in Writes, w.do # "purge", NEW s \in States, NEW L, NEW e, Appends(w) => w.val = e,
         s.log \in {L, L \cup {e}}
  PROVE  Applied(w, s).log \in {L, L \cup {e}}
<1>1. CASE Appends(w)
  <2>1. Applied(w, s).log = s.log \cup {e}
    BY <1>1 DEF Applied, States, Writes, Appends
  <2> QED BY <2>1
<1>2. CASE ~Appends(w)
  <2>1. Applied(w, s).log = s.log
    BY <1>2 DEF Applied, States, Writes, Appends
  <2> QED BY <2>1
<1> QED BY <1>1, <1>2

\* The writes that are pending.
LEMMA PendingType ==
  ASSUME Sound, NEW p \in Procs
  PROVE  /\ Len(conn[p].writes) \in Nat /\ DOMAIN conn[p].writes = 1..Len(conn[p].writes)
         /\ \A i \in DOMAIN conn[p].writes : conn[p].writes[i] \in Writes
BY LenProperties DEF Sound, Typed, Conns

LEMMA RecordingIs ==
  ASSUME Sound, NEW t \in Threads, Busy(t), job[t].op = "record"
  PROVE  calls[job[t].n] \in Recorders
BY DEF Sound, Course, Recorders

LEMMA OneRecords ==
  ASSUME Sound, Apart, NEW t \in Threads, NEW u \in Threads, Busy(t), Busy(u),
         calls[job[t].n] \in Recorders, calls[job[u].n] \in Recorders
  PROVE  t = u
<1> SUFFICES ASSUME t # u PROVE FALSE
  OBVIOUS
<1>1. job[t].n # job[u].n /\ job[t].n \in DOMAIN calls /\ job[u].n \in DOMAIN calls
  BY DEF Sound, Course, Paired
<1>2. {job[t].n, job[u].n} \in together
  BY DEF Sound, Paired, Related
<1> QED BY <1>1, <1>2 DEF Apart

(* What a commit does to the log.                                           *)
LEMMA StepOnLog ==
  ASSUME Sound, ChainInv, Apart, NEW p \in Procs, DatabaseStep(p)
  PROVE  \/ Remains(stored'.log, stored.log)
         \/ \E i \in DOMAIN conn[p].writes :
              /\ Appends(conn[p].writes[i]) /\ conn'[p].writes = <<>>
              /\ stored'.log = stored.log \cup {conn[p].writes[i].val}
<1>0. stored \in States /\ Remains(stored.log, stored.log)
  BY DEF Sound, Typed, Remains
<1>1. CASE UNCHANGED stored
  BY <1>0, <1>1
<1>2. CASE stored' = WithWrites(stored, conn[p].writes) /\ conn'[p].writes = <<>>
  <2>1. PICK ws, L : ws = conn[p].writes /\ L = stored.log
    OBVIOUS
  <2>2. Len(ws) \in Nat /\ DOMAIN ws = 1..Len(ws) /\ \A i \in 1..Len(ws) : ws[i] \in Writes
    BY <2>1, PendingType
  <2>3. CASE \A i \in 1..Len(ws) : ~Appends(ws[i])
    <3> DEFINE P == {s \in States : Remains(s.log, L)}
    <3>1. \A i \in 1..Len(ws) : \A s \in P : Applied(ws[i], s) \in P
      BY <2>2, <2>3, AppliedRemains, AppliedType
    <3>2. stored \in P
      BY <1>0, <2>1
    <3> HIDE DEF P
    <3>3. WithWrites(stored, ws) \in P
      BY <2>2, <3>1, <3>2, WritesKeep
    <3> QED BY <1>2, <2>1, <3>3 DEF P
  <2>4. ASSUME NEW i \in 1..Len(ws), Appends(ws[i]) PROVE stored'.log \in {L, L \cup {ws[i].val}}
    <3>1. PICK e : e = ws[i].val
      OBVIOUS
    <3>2. \A k \in 1..Len(ws) : Appends(ws[k]) => k = i
      BY <2>1, <2>2, <2>4 DEF ChainInv, LogInOrder, NextInLine
    <3>3. \A k \in 1..Len(ws) : ws[k].do # "purge"
      <4>1. PICK t \in Threads : Home[t] = p /\ job[t].op = "record" /\ job[t].step = "commit"
        BY <2>1, <2>2, <2>4 DEF ChainInv, LogOwned
      <4> SUFFICES ASSUME NEW k \in 1..Len(ws), ws[k].do = "purge" PROVE FALSE
        OBVIOUS
      <4>2. PICK u \in Threads : Home[u] = p /\ Busy(u) /\ job[u].op = "purge"
        BY <2>1, <2>2 DEF ChainInv, LogOwned
      <4>3. Busy(t) /\ t # u
        BY <4>1, <4>2 DEF Busy
      <4> QED BY <4>1, <4>2, <4>3 DEF ChainInv, PurgeAlone
    <3> DEFINE P == {s \in States : s.log \in {L, L \cup {e}}}
    <3>4. \A k \in 1..Len(ws) : \A s \in P : Applied(ws[k], s) \in P
      BY <2>2, <3>1, <3>2, <3>3, AppliedAppends, AppliedType
    <3>5. stored \in P
      BY <1>0, <2>1
    <3> HIDE DEF P
    <3>6. WithWrites(stored, ws) \in P
      BY <2>2, <3>4, <3>5, WritesKeep
    <3> QED BY <1>2, <2>1, <3>1, <3>6 DEF P
  <2> QED BY <1>0, <1>2, <2>1, <2>2, <2>3, <2>4
<1> QED BY <1>1, <1>2 DEF DatabaseStep


LEMMA OneJobGoesOn ==
  ASSUME Typed, NEW t \in Threads, OneJob(t)
  PROVE  /\ \A u \in Threads \ {t} : job'[u] = job[u]
         /\ \A u \in Threads : job'[u].step # "idle" =>
              /\ Busy(u) /\ job'[u].n = job[u].n
              /\ \/ job'[u].op = job[u].op
                 \/ job'[u].op = "record" /\ job[u].op \in {"create_user", "authenticate"}
<1>1. CASE job' = [job EXCEPT ![t] = Idle]
  BY <1>1 DEF Typed, Busy, Idle
<1>2. CASE job' # [job EXCEPT ![t] = Idle]
  <2>1. PICK j \in Jobs : job' = [job EXCEPT ![t] = j] /\ j.n = job[t].n /\ j.step # "idle"
                        /\ \/ j.op = job[t].op
                           \/ j.op = "record" /\ job[t].op \in {"create_user", "authenticate"}
    BY <1>2 DEF OneJob
  <2>2. Busy(t) /\ job'[t] = j
    BY <1>2, <2>1 DEF OneJob, Typed
  <2> QED BY <2>1, <2>2 DEF Busy
<1> QED BY <1>1, <1>2

\* What a step of t other than a write has to show: it appended nothing that is
\* still pending, nor leaves a purge pending, and it knows the last entry.
Orderly(t) ==
  /\ ~(job'[t].op = "record" /\ job'[t].step = "commit")
  /\ job[t].op = "record" /\ job[t].step = "commit" =>
       job'[t].step = "idle" /\ conn'[Home[t]].writes = <<>>
  /\ job[t].op = "purge" =>
       (job'[t].op = "purge" /\ job'[t].step # "idle") \/ conn'[Home[t]].writes = <<>>
  /\ Apart' /\ job'[t].op = "record" /\ job'[t].step = "write" =>
       stored.log = {} \/ job'[t].seen = LastOf(stored.log)

LEMMA QuietKeepsOwned ==
  ASSUME Sound, ChainInv, NEW t \in Threads, OneJob(t), Orderly(t),
         \A p \in Procs : conn'[p].writes \in {conn[p].writes, <<>>}
  PROVE  PurgeAlone' /\ LogOwned'
<1>1. /\ \A u \in Threads \ {t} : job'[u] = job[u]
      /\ \A u \in Threads : job'[u].step # "idle" =>
           /\ Busy(u) /\ job'[u].n = job[u].n
           /\ job'[u].op = job[u].op \/ job'[u].op = "record"
  BY OneJobGoesOn DEF Sound
<1>2. PurgeAlone'
  BY <1>1 DEF ChainInv, PurgeAlone, Busy
<1>3. ASSUME NEW p \in Procs, NEW i \in DOMAIN conn'[p].writes
      PROVE  /\ conn'[p].writes[i].do = "purge" =>
                  \E u \in Threads : Home[u] = p /\ job'[u].step # "idle" /\ job'[u].op = "purge"
             /\ Appends(conn'[p].writes[i]) =>
                  \E u \in Threads : /\ Home[u] = p /\ job'[u].n = conn'[p].writes[i].val.id
                                     /\ job'[u].op = "record" /\ job'[u].step = "commit"
  <2>1. conn'[p].writes = conn[p].writes /\ conn'[p].writes # <<>>
    BY <1>3
  <2>2. ASSUME conn[p].writes[i].do = "purge"
        PROVE  \E u \in Threads : Home[u] = p /\ job'[u].step # "idle" /\ job'[u].op = "purge"
    <3>1. PICK u \in Threads : Home[u] = p /\ Busy(u) /\ job[u].op = "purge"
      BY <2>1, <2>2 DEF ChainInv, LogOwned
    <3>2. CASE u = t
      BY <2>1, <3>1, <3>2 DEF Orderly
    <3>3. CASE u # t
      BY <1>1, <3>1, <3>3 DEF Busy
    <3> QED BY <3>2, <3>3
  <2>3. ASSUME Appends(conn[p].writes[i])
        PROVE  \E u \in Threads : /\ Home[u] = p /\ job'[u].n = conn[p].writes[i].val.id
                                  /\ job'[u].op = "record" /\ job'[u].step = "commit"
    <3>1. PICK u \in Threads : /\ Home[u] = p /\ job[u].n = conn[p].writes[i].val.id
                               /\ job[u].op = "record" /\ job[u].step = "commit"
      BY <2>1, <2>3 DEF ChainInv, LogOwned
    <3>2. u # t
      BY <2>1, <3>1 DEF Orderly
    <3> QED BY <1>1, <3>1, <3>2
  <2> QED BY <2>1, <2>2, <2>3
<1>4. LogOwned'
  BY <1>3 DEF LogOwned, Busy, Appends
<1> QED BY <1>2, <1>4


(* After a commit that appended nothing, the log is in order.               *)
LEMMA PurgedInOrder ==
  ASSUME Sound, ChainInv, Apart, Apart', NEW t \in Threads, OneJob(t), Orderly(t),
         Remains(stored'.log, stored.log), UNCHANGED <<calls, serial>>,
         \A p \in Procs : conn'[p].writes \in {conn[p].writes, <<>>}
  PROVE  LogInOrder'
<1> USE DEF ChainInv, LogInOrder
<1>1. PICK L, M : L = stored.log /\ M = stored'.log
  OBVIOUS
<1>2. L \in Logs /\ M \subseteq L /\ M \in Logs /\ Ordered(M) /\ ChainHolds(M) /\ (M = {} \/ LastOf(M) = LastOf(L))
  BY <1>1, RemainsHold DEF Sound, Typed, States, Remains
<1>3. /\ \A u \in Threads \ {t} : job'[u] = job[u]
      /\ \A u \in Threads : job'[u].step # "idle" =>
           /\ Busy(u) /\ job'[u].n = job[u].n
           /\ job'[u].op = job[u].op \/ job'[u].op = "record"
  BY OneJobGoesOn DEF Sound
<1>4. Ordered(stored.log)' /\ ChainHolds(stored.log)'
  BY <1>1, <1>2 DEF Ordered, ChainHolds
<1>5. \A e \in M : e.seq <= serial' /\ e.id <= Len(calls')
  BY <1>1, <1>2
<1>6. NextInLine'
  <2>1. ASSUME NEW p \in Procs, NEW i \in DOMAIN conn'[p].writes, Appends(conn'[p].writes[i])
        PROVE  /\ conn'[p].writes[i].val.seq <= serial
               /\ Follows(conn'[p].writes[i].val, M)
               /\ \A k \in DOMAIN conn'[p].writes : Appends(conn'[p].writes[k]) => k = i
    <3>1. conn'[p].writes = conn[p].writes
      BY <2>1
    <3>2. /\ conn[p].writes[i].val.seq <= serial
          /\ Follows(conn[p].writes[i].val, L)
          /\ \A k \in DOMAIN conn[p].writes : Appends(conn[p].writes[k]) => k = i
      BY <1>1, <2>1, <3>1 DEF NextInLine
    <3>3. Follows(conn[p].writes[i].val, M)
      BY <1>2, <3>2 DEF Follows
    <3> QED BY <3>1, <3>2, <3>3
  <2> QED BY <1>1, <2>1 DEF NextInLine, Appends, Follows
<1>7. BusyFirst'
  <2>1. ASSUME NEW u \in Threads, job'[u].step # "idle", calls[job'[u].n] \in Recorders, NEW e \in M
        PROVE  e.id <= job'[u].n /\ (e.id = job'[u].n => job'[u].op = "record" /\ job'[u].step = "commit")
    <3>1. e \in L /\ Busy(u) /\ job'[u].n = job[u].n
      BY <1>2, <1>3, <2>1
    <3>2. e.id <= job[u].n /\ (e.id = job[u].n => job[u].op = "record" /\ job[u].step = "commit")
      BY <1>1, <2>1, <3>1 DEF BusyFirst
    <3>3. job[u].op = "record" /\ job[u].step = "commit" => u # t
      BY <2>1 DEF Orderly
    <3> QED BY <1>3, <3>1, <3>2, <3>3
  <2> QED BY <1>1, <2>1 DEF BusyFirst, Busy
<1>8. SeenLast'
  <2>1. ASSUME NEW u \in Threads, job'[u].op = "record", job'[u].step = "write"
        PROVE  M = {} \/ job'[u].seen = LastOf(M)
    <3>1. L = {} \/ job'[u].seen = LastOf(L)
      BY <1>1, <1>3, <2>1 DEF SeenLast, Orderly
    <3> QED BY <1>2, <3>1
  <2> QED BY <1>1, <2>1 DEF SeenLast
<1> QED BY <1>1, <1>4, <1>5, <1>6, <1>7, <1>8

(* After a commit that appended, the log is in order.                       *)
LEMMA AppendedInOrder ==
  ASSUME Sound, ChainInv, Apart, NEW t \in Threads, OneJob(t), Orderly(t),
         NEW p \in Procs, NEW i \in DOMAIN conn[p].writes, Appends(conn[p].writes[i]),
         conn'[p].writes = <<>>, stored'.log = stored.log \cup {conn[p].writes[i].val},
         UNCHANGED <<calls, serial>>, \A q \in Procs : conn'[q].writes \in {conn[q].writes, <<>>}
  PROVE  LogInOrder'
<1> USE DEF ChainInv, LogInOrder
<1>1. PICK L, e, M : L = stored.log /\ e = conn[p].writes[i].val /\ M = stored'.log
  OBVIOUS
<1>2. L \in Logs /\ e \in Entries
  BY <1>1, PendingType DEF Sound, Typed, States, Writes, Appends
<1>3. Follows(e, L) /\ e.seq <= serial
  BY <1>1 DEF NextInLine
<1>4. M = L \cup {e} /\ Ordered(M) /\ ChainHolds(M)
  BY <1>1, <1>2, <1>3, FollowerHolds
<1>5. PICK r \in Threads : Home[r] = p /\ job[r].n = e.id /\ job[r].op = "record" /\ job[r].step = "commit"
  BY <1>1 DEF LogOwned
<1>6. Busy(r) /\ calls[job[r].n] \in Recorders /\ e.id \in DOMAIN calls
  BY <1>5, RecordingIs DEF Busy, Sound, Course
<1>7. /\ \A u \in Threads \ {t} : job'[u] = job[u]
      /\ \A u \in Threads : job'[u].step # "idle" =>
           /\ Busy(u) /\ job'[u].n = job[u].n
           /\ \/ job'[u].op = job[u].op
              \/ job'[u].op = "record" /\ job[u].op \in {"create_user", "authenticate"}
  BY OneJobGoesOn DEF Sound
<1>8. ASSUME NEW u \in Threads, job'[u].step # "idle", calls[job'[u].n] \in Recorders
      PROVE  u = r /\ job'[u] = job[u]
  <2>1. u = r
    BY <1>6, <1>7, <1>8, OneRecords
  <2>2. u # t
    BY <1>5, <1>8, <2>1 DEF Orderly
  <2> QED BY <1>7, <2>1, <2>2
<1>9. Ordered(stored.log)' /\ ChainHolds(stored.log)'
  BY <1>1, <1>4 DEF Ordered, ChainHolds
<1>10. \A f \in M : f.seq <= serial' /\ f.id <= Len(calls')
  <2>1. DOMAIN calls = 1..Len(calls)
    BY LenProperties DEF Sound, Typed
  <2>2. e.id <= Len(calls)
    BY <1>6, <2>1
  <2> QED BY <1>1, <1>3, <1>4, <2>2
<1>11. NextInLine'
  <2>1. ASSUME NEW q \in Procs, NEW k \in DOMAIN conn'[q].writes, Appends(conn'[q].writes[k])
        PROVE  FALSE
    <3>1. q # p /\ conn'[q].writes = conn[q].writes
      BY <2>1
    <3>2. PICK u \in Threads : Home[u] = q /\ job[u].op = "record" /\ job[u].step = "commit"
      BY <2>1, <3>1 DEF LogOwned
    <3>3. Busy(u) /\ calls[job[u].n] \in Recorders
      BY <3>2, RecordingIs DEF Busy
    <3> QED BY <1>5, <1>6, <3>1, <3>2, <3>3, OneRecords
  <2> QED BY <2>1 DEF NextInLine, Appends
<1>12. BusyFirst'
  <2>1. ASSUME NEW u \in Threads, job'[u].step # "idle", calls[job'[u].n] \in Recorders, NEW f \in M
        PROVE  f.id <= job'[u].n /\ (f.id = job'[u].n => job'[u].op = "record" /\ job'[u].step = "commit")
    <3>1. u = r /\ job'[u] = job[u]
      BY <1>8, <2>1
    <3>2. f.id <= e.id
      BY <1>1, <1>2, <1>4, <1>5, <1>6 DEF BusyFirst, Logs, Entries
    <3> QED BY <1>5, <3>1, <3>2
  <2> QED BY <1>1, <2>1 DEF BusyFirst, Busy
<1>13. SeenLast'
  <2>1. ASSUME NEW u \in Threads, job'[u].op = "record", job'[u].step = "write" PROVE FALSE
    <3>1. Busy(u) /\ job'[u].n = job[u].n
      BY <1>7, <2>1
    <3>2. job[u].op \in Recorders
      BY <1>7, <2>1 DEF Recorders
    <3>3. calls[job[u].n] \in Recorders
      BY <3>1, <3>2 DEF Sound, Course, Recorders
    <3>4. u = r /\ job'[u] = job[u]
      BY <1>8, <2>1, <3>1, <3>3
    <3> QED BY <1>5, <2>1, <3>4
  <2> QED BY <2>1 DEF SeenLast
<1> QED BY <1>1, <1>9, <1>10, <1>11, <1>12, <1>13


LEMMA ApartBefore ==
  ASSUME \A n \in DOMAIN calls : n \in DOMAIN calls' /\ calls'[n] = calls[n],
         together \subseteq together', behind \subseteq behind', Apart'
  PROVE  Apart
BY DEF Apart

LEMMA QuietKeepsChain ==
  ASSUME Sound, ChainInv, NEW t \in Threads, OneJob(t), Orderly(t), SnapsFresh',
         \/ DatabaseStep(Home[t])
         \/ UNCHANGED stored /\ \A q \in Procs : conn'[q].writes \in {conn[q].writes, <<>>},
         UNCHANGED <<calls, serial, together>>, behind \subseteq behind'
  PROVE  ChainInv'
<1> DEFINE p == Home[t]
<1>1. p \in Procs
  BY HomeIsProc
<1> HIDE DEF p
<1>2. \A q \in Procs : conn'[q].writes \in {conn[q].writes, <<>>}
  BY <1>1 DEF DatabaseStep, p
<1>3. PurgeAlone' /\ LogOwned'
  BY <1>2, QuietKeepsOwned
<1>4. ASSUME Apart' PROVE LogInOrder'
  <2>1. Apart
    BY <1>4, ApartBefore
  <2>2. CASE Remains(stored'.log, stored.log)
    BY <1>2, <1>4, <2>1, <2>2, PurgedInOrder
  <2>3. CASE \E i \in DOMAIN conn[p].writes :
               /\ Appends(conn[p].writes[i]) /\ conn'[p].writes = <<>>
               /\ stored'.log = stored.log \cup {conn[p].writes[i].val}
    BY <1>1, <1>2, <2>1, <2>3, AppendedInOrder
  <2>4. CASE UNCHANGED stored
    <3>1. Remains(stored'.log, stored.log)
      BY <2>4 DEF Remains
    <3> QED BY <2>2, <3>1
  <2> QED BY <1>1, <2>1, <2>2, <2>3, <2>4, StepOnLog DEF p
<1> QED BY <1>3, <1>4 DEF ChainInv

LEMMA CommittedFresh ==
  ASSUME Sound, SnapsFresh, NEW p \in Procs, Committed(p) \/ RolledBack(p)
  PROVE  SnapsFresh'
<1>1. CASE RolledBack(p)
  BY <1>1 DEF RolledBack, SnapsFresh, Sound, Typed, Closed
<1>2. CASE Committed(p)
  <2>1. ASSUME NEW q \in Procs, conn'[q].txn = "reading", ~conn'[q].stale
        PROVE  conn'[q].snap = stored'
    <3>1. q # p /\ conn[q] \in Conns
      BY <1>2, <2>1 DEF Committed, Closed, Sound, Typed
    <3>2. conn'[q] = IF conn[q].txn = "reading" /\ conn[p].writes # <<>>
                     THEN [conn[q] EXCEPT !.stale = TRUE] ELSE conn[q]
      BY <1>2, <3>1 DEF Committed
    <3>3. conn'[q] = conn[q] /\ conn[p].writes = <<>>
      BY <2>1, <3>1, <3>2 DEF Conns
    <3>4. stored' = stored
      BY <1>2, <3>3, WithNoWrites DEF Committed
    <3> QED BY <2>1, <3>3, <3>4 DEF SnapsFresh
  <2> QED BY <2>1 DEF SnapsFresh
<1> QED BY <1>1, <1>2

LEMMA SelectsFresh ==
  ASSUME Sound, SnapsFresh, NEW p \in Procs, Selects(p)
  PROVE  SnapsFresh'
<1>1. conn[p] \in Conns /\ \A q \in Procs \ {p} : conn'[q] = conn[q]
  BY DEF Selects, Sound, Typed
<1>2. /\ UNCHANGED stored
      /\ \/ conn'[p] = [conn[p] EXCEPT !.txn = "open"]
         \/ conn'[p] = [conn[p] EXCEPT !.txn = "reading", !.snap = stored]
         \/ conn'[p] = conn[p]
  BY DEF Selects, Sound, Typed
<1>3. conn'[p].txn = "reading" /\ ~conn'[p].stale => conn'[p].snap = stored
  BY <1>1, <1>2 DEF SnapsFresh, Conns
<1> QED BY <1>1, <1>2, <1>3 DEF SnapsFresh

(* A lookup of the last entry finds the one that is stored.                 *)
LEMMA RecordSees ==
  ASSUME Sound, ChainInv, Apart, NEW t \in Threads, job[t].op = "record", job[t].step = "look",
         ~(conn[Home[t]].txn = "reading" /\ conn[Home[t]].stale)
  PROVE  Seen(View(Home[t]), LooksAt(t)) = LastOf(stored.log)
<1> USE DEF ChainInv
<1>1. PICK p : p = Home[t]
  OBVIOUS
<1>2. p \in Procs /\ Busy(t) /\ calls[job[t].n] \in Recorders
  BY <1>1, HomeIsProc, RecordingIs DEF Busy
<1>3. LooksAt(t) = "log"
  BY KnownCalls DEF LooksAt, Line
<1>4. CASE conn[p].txn = "reading"
  BY <1>1, <1>2, <1>3, <1>4 DEF SnapsFresh, Seen, View
<1>5. CASE conn[p].txn # "reading"
  <2>1. PICK ws, L : ws = conn[p].writes /\ L = stored.log
    OBVIOUS
  <2>2. Len(ws) \in Nat /\ DOMAIN ws = 1..Len(ws) /\ \A i \in 1..Len(ws) : ws[i] \in Writes
    BY <1>2, <2>1, PendingType
  <2>3. ASSUME NEW i \in 1..Len(ws) PROVE ws[i].do # "purge" /\ ~Appends(ws[i])
    <3>1. ASSUME Appends(ws[i]) PROVE FALSE
      <4>1. PICK u \in Threads : job[u].op = "record" /\ job[u].step = "commit"
        BY <1>2, <2>1, <2>2, <3>1 DEF LogOwned
      <4>2. Busy(u) /\ calls[job[u].n] \in Recorders /\ u # t
        BY <4>1, RecordingIs DEF Busy
      <4> QED BY <1>2, <4>2, OneRecords
    <3>2. ASSUME ws[i].do = "purge" PROVE FALSE
      <4>1. PICK u \in Threads : Home[u] = p /\ Busy(u) /\ job[u].op = "purge"
        BY <1>2, <2>1, <2>2, <3>2 DEF LogOwned
      <4> QED BY <1>1, <1>2, <4>1 DEF PurgeAlone
    <3> QED BY <3>1, <3>2
  <2> DEFINE P == {s \in States : s.log = L}
  <2>4. \A i \in 1..Len(ws) : \A s \in P : Applied(ws[i], s) \in P
    <3>1. ASSUME NEW i \in 1..Len(ws), NEW s \in P PROVE Applied(ws[i], s).log = L
      <4>1. ws[i] \in Writes /\ s \in States /\ s.log = L /\ ws[i].do # "purge" /\ ~Appends(ws[i])
        BY <2>2, <2>3, <3>1
      <4> QED BY <4>1 DEF Applied, States, Writes, Appends
    <3> QED BY <2>2, <3>1, AppliedType
  <2>5. stored \in P
    BY <2>1 DEF Sound, Typed
  <2> HIDE DEF P
  <2>6. WithWrites(stored, ws) \in P
    BY <2>2, <2>4, <2>5, WritesKeep
  <2>7. View(p).log = L
    BY <1>5, <2>1, <2>6 DEF P, View
  <2> QED BY <1>1, <1>3, <2>1, <2>7 DEF Seen
<1> QED BY <1>4, <1>5


LEMMA AfterOrderly ==
  ASSUME Sound, NEW t \in Threads, NEW seen \in Nat,
         job[t].step \in {"look", "look_user", "leave", "leave_user"}, After(t, seen),
         Apart' /\ job[t].op = "record" /\ job[t].step = "look" =>
           stored.log = {} \/ seen = LastOf(stored.log)
  PROVE  Orderly(t)
<1> USE DEF Sound
<1>1. job[t] \in Jobs /\ job \in [Threads -> Jobs] /\ Busy(t)
  BY DEF Typed, Busy
<1>2. job[t].op # "purge"
  <2>1. Known["purge"].look = "nothing"
    BY KnownCalls DEF Line
  <2> QED BY <1>1, <2>1 DEF Course, Validations
<1>3. CASE Ending(t, seen)
  <2>1. job'[t] = Idle
    BY <1>1, <1>3 DEF Ending, Ends
  <2> QED BY <1>2, <2>1 DEF Orderly, Idle
<1>4. CASE Writing(t, seen)
  <2>1. job'[t] = [job[t] EXCEPT !.step = "write", !.seen = seen]
    BY <1>1, <1>4 DEF Writing, Goes
  <2>2. job[t].op = "record" => job[t].step = "look"
    BY <1>1, <1>4 DEF Writing, Course
  <2> QED BY <1>1, <1>2, <2>1, <2>2 DEF Orderly, Jobs
<1>5. CASE Admitting(t, seen)
  <2>1. job'[t] = [job[t] EXCEPT !.step = "look_user", !.seen = seen]
    BY <1>1, <1>5 DEF Admitting, Goes
  <2> QED BY <1>1, <1>2, <2>1 DEF Orderly, Jobs
<1>6. CASE Authenticating(t, seen)
  <2>1. job'[t] = [job[t] EXCEPT !.op = "record", !.step = "look"]
    BY <1>1, <1>6 DEF Authenticating, Goes
  <2> QED BY <1>1, <1>2, <2>1 DEF Orderly, Jobs
<1> QED BY <1>3, <1>4, <1>5, <1>6, AfterIs

LEMMA LeaveChain ==
  ASSUME Sound, Modes, ChainInv, NEW t \in Threads, Leave(t)
  PROVE  ChainInv'
<1>1. Home[t] \in Procs /\ job[t].seen \in Nat /\ job[t].step \in {"leave", "leave_user"}
  BY HomeIsProc DEF Leave, Sound, Typed, Jobs
<1>2. After(t, job[t].seen)
  BY DEF Leave
<1>3. Orderly(t)
  BY <1>1, <1>2, AfterOrderly
<1>4. OneJob(t)
  BY <1>1, <1>2, AfterOneJob DEF Sound
<1>5. \/ Committed(Home[t])
      \/ RolledBack(Home[t]) /\ conn[Home[t]].writes = <<>>
  BY <1>1 DEF Leave, Modes
<1>6. UNCHANGED <<backend, lockedOut, calls, serial, together, behind>>
  BY DEF Leave
<1>7. DatabaseStep(Home[t])
  BY <1>1, <1>5, <1>6, CommittedIsStep
<1>8. SnapsFresh'
  BY <1>1, <1>5, CommittedFresh DEF ChainInv
<1> QED BY <1>3, <1>4, <1>6, <1>7, <1>8, QuietKeepsChain

LEMMA LookChain ==
  ASSUME Sound, Modes, ChainInv, NEW t \in Threads, Look(t)
  PROVE  ChainInv'
<1> DEFINE p == Home[t]
           seen == Seen(View(p), LooksAt(t))
<1>1. /\ p \in Procs /\ seen \in Nat /\ Busy(t) /\ job[t] \in Jobs
      /\ job[t].step \in {"look", "look_user"}
  BY HomeIsProc, ViewType, LooksAtType, SeenType DEF Look, Busy, Sound, Typed
<1>2. /\ UNCHANGED <<backend, lockedOut, calls, serial, together>>
      /\ behind' = IF job[t].op = "record" /\ conn[p].txn = "reading" /\ conn[p].stale
                   THEN behind \cup {job[t].n} ELSE behind
  BY DEF Look
<1>3. Apart' /\ job[t].op = "record" /\ job[t].step = "look" => seen = LastOf(stored.log)
  <2> SUFFICES ASSUME Apart', job[t].op = "record", job[t].step = "look" PROVE seen = LastOf(stored.log)
    OBVIOUS
  <2>1. ~(conn[p].txn = "reading" /\ conn[p].stale)
    BY <1>2 DEF Apart
  <2>2. Apart
    BY <1>2, ApartBefore
  <2> QED BY <2>1, <2>2, RecordSees
<1>4. job[t].op # "purge"
  <2>1. Known["purge"].look = "nothing"
    BY KnownCalls DEF Line
  <2> QED BY <1>1, <2>1 DEF Sound, Course, Validations
<1> HIDE DEF p, seen
<1>5. CASE conn[p].txn = "aborted"
  <2>1. Ends(t, "raised") /\ (UNCHANGED <<stored, conn>> \/ RolledBack(p))
    BY <1>5 DEF Look, p
  <2>2. DatabaseStep(p) /\ SnapsFresh'
    <3>1. CASE UNCHANGED <<stored, conn>>
      BY <3>1 DEF DatabaseStep, ChainInv, SnapsFresh
    <3>2. CASE RolledBack(p)
      BY <1>1, <1>2, <1>5, <3>2, CommittedIsStep, CommittedFresh DEF Modes, ChainInv
    <3> QED BY <2>1, <3>1, <3>2
  <2>3. OneJob(t)
    BY <2>1, EndsOneJob
  <2>4. Orderly(t)
    BY <1>1, <1>4, <2>1 DEF Ends, Orderly, Idle, Sound, Typed
  <2> QED BY <1>2, <2>2, <2>3, <2>4, QuietKeepsChain DEF p
<1>6. CASE conn[p].txn # "aborted"
  <2>1. Selects(p)
    BY <1>6 DEF Look, p
  <2>2. DatabaseStep(p) /\ SnapsFresh'
    BY <1>1, <1>2, <1>6, <2>1, SelectsIsStep, SelectsFresh DEF ChainInv
  <2>3. OneJob(t) /\ Orderly(t)
    <3>1. CASE backend = "sqlite" \/ IsBare(t)
      <4>1. After(t, seen)
        BY <1>6, <3>1 DEF Look, p, seen
      <4>2. OneJob(t)
        BY <1>1, <4>1, AfterOneJob DEF Sound
      <4> QED BY <1>1, <1>3, <4>1, <4>2, AfterOrderly
    <3>2. CASE ~(backend = "sqlite" \/ IsBare(t))
      <4> DEFINE j == [job[t] EXCEPT !.seen = seen,
                         !.step = IF @ = "look" THEN "leave" ELSE "leave_user"]
      <4>1. job' = [job EXCEPT ![t] = j]
        BY <1>6, <3>2 DEF Look, p, seen, Goes
      <4>2. /\ j \in Jobs /\ j.n = job[t].n /\ j.op = job[t].op
            /\ j.step = IF job[t].step = "look" THEN "leave" ELSE "leave_user"
        BY <1>1 DEF Jobs, Steps
      <4>3. job[t].op # "record"
        <5>1. ~Known[job[t].op].bare
          BY <3>2 DEF IsBare
        <5> QED BY <5>1, KnownCalls DEF Line
      <4>4. /\ job[t].step = "look" => Known[job[t].op].look # "nothing"
            /\ job[t].step = "look_user" => job[t].op \in Validations
        BY <1>1 DEF Sound, Course
      <4> HIDE DEF j
      <4>5. job'[t] = j
        BY <4>1 DEF Sound, Typed
      <4>6. OneJob(t)
        BY <1>1, <4>1, <4>2, <4>3, <4>4, <4>5 DEF OneJob
      <4>7. Orderly(t)
        BY <1>1, <1>4, <4>2, <4>5 DEF Orderly
      <4> QED BY <4>6, <4>7
    <3> QED BY <3>1, <3>2
  <2> QED BY <1>2, <2>2, <2>3, QuietKeepsChain DEF p
<1> QED BY <1>5, <1>6

LEMMA CommitChain ==
  ASSUME Sound, Modes, ChainInv, NEW t \in Threads, Commit(t)
  PROVE  ChainInv'
<1> DEFINE p == Home[t]
<1>1. /\ p \in Procs /\ Busy(t) /\ job[t] \in Jobs /\ job[t].step \in {"commit", "settle"}
  BY HomeIsProc DEF Commit, Busy, Sound, Typed
<1>2. UNCHANGED <<backend, lockedOut, calls, serial, together, behind>>
  BY DEF Commit
<1>3. /\ DatabaseStep(p) /\ SnapsFresh'
      /\ ~(job[t].op = "purge" /\ job[t].step = "commit") => conn'[p].writes = <<>>
  <2>1. CASE UNCHANGED <<stored, conn>> /\ job[t].op = "purge" /\ job[t].step = "commit"
    BY <2>1 DEF DatabaseStep, ChainInv, SnapsFresh
  <2>2. CASE Committed(p) \/ (RolledBack(p) /\ conn[p].txn = "aborted")
    <3>1. Committed(p) \/ (RolledBack(p) /\ conn[p].writes = <<>>)
      BY <1>1, <2>2 DEF Modes
    <3> QED BY <1>1, <1>2, <3>1, CommittedIsStep, CommittedFresh DEF ChainInv
  <2> QED BY <1>1, <2>1, <2>2 DEF Commit
<1> HIDE DEF p
<1>4. CASE job[t].op = "purge" /\ job[t].step = "commit"
  <2>1. Goes(t, [job[t] EXCEPT !.step = "settle"])
    BY <1>4 DEF Commit
  <2>2. OneJob(t)
    BY <1>1, <1>4, <2>1, JobGoes
  <2>3. Orderly(t)
    BY <1>1, <1>4, <2>1 DEF Goes, Orderly, Sound, Typed, Jobs
  <2> QED BY <1>2, <1>3, <2>2, <2>3, QuietKeepsChain DEF p
<1>5. CASE job[t].op = "create_user"
  <2> DEFINE j == [job[t] EXCEPT !.op = "record", !.step = "look", !.seen = 0]
  <2>1. Goes(t, j)
    BY <1>5 DEF Commit
  <2>2. j \in Jobs /\ j.n = job[t].n /\ j.op = "record" /\ j.step = "look"
    BY <1>1 DEF Jobs, Ops, Steps
  <2>3. job' = [job EXCEPT ![t] = j] /\ job'[t] = j
    BY <2>1 DEF Goes, Sound, Typed
  <2> HIDE DEF j
  <2>4. OneJob(t)
    BY <1>1, <1>5, <2>2, <2>3 DEF OneJob
  <2>5. Orderly(t)
    BY <1>5, <2>2, <2>3 DEF Orderly
  <2> QED BY <1>2, <1>3, <2>4, <2>5, QuietKeepsChain DEF p
<1>6. CASE ~(job[t].op = "purge" /\ job[t].step = "commit") /\ job[t].op # "create_user"
  <2>1. PICK out \in {"nobody", "ok"} : Ends(t, out)
    BY <1>6 DEF Commit
  <2>2. OneJob(t) /\ job'[t] = Idle
    BY <2>1, EndsOneJob DEF Ends, Sound, Typed
  <2>3. Orderly(t)
    BY <1>3, <1>6, <2>2 DEF Orderly, Idle, p
  <2> QED BY <1>2, <1>3, <2>2, <2>3, QuietKeepsChain DEF p
<1> QED BY <1>4, <1>5, <1>6


(* A refused statement, which may drop what the process has pending.        *)
LEMMA RefusedChain ==
  ASSUME Sound, ChainInv, NEW t \in Threads, job[t].step = "write", Fails(t),
         NEW p \in Procs, NEW c \in Conns, Rewritten(p, c), c.writes \in {conn[p].writes, <<>>},
         c.txn = "reading" => conn[p].txn = "reading" /\ c.snap = conn[p].snap /\ c.stale = conn[p].stale,
         UNCHANGED <<calls, serial, together, behind>>
  PROVE  ChainInv'
<1>1. Busy(t) /\ job[t] \in Jobs
  BY DEF Busy, Sound, Typed
<1>2. OneJob(t)
  BY <1>1, FailsOneJob
<1>3. Orderly(t)
  <2>1. CASE Ends(t, "raised") /\ job[t].op # "purge"
    BY <2>1 DEF Ends, Orderly, Idle, Sound, Typed
  <2>2. CASE Goes(t, [job[t] EXCEPT !.step = "settle"])
    BY <1>1, <2>2 DEF Goes, Orderly, Jobs, Sound, Typed
  <2> QED BY <2>1, <2>2 DEF Fails
<1>4. \A q \in Procs : conn'[q] = IF q = p THEN c ELSE conn[q]
  BY DEF Rewritten, Sound, Typed
<1>5. SnapsFresh'
  BY <1>4 DEF SnapsFresh, ChainInv, Rewritten
<1> QED BY <1>2, <1>3, <1>4, <1>5, QuietKeepsChain DEF Rewritten

LEMMA AcceptedChain ==
  ASSUME Sound, ChainInv, NEW t \in Threads, job[t].step = "write",
         Goes(t, [job[t] EXCEPT !.step = "commit"]),
         NEW p \in Procs, p = Home[t], NEW c \in Conns, Rewritten(p, c),
         Accepts(p, Statement(t), c), c.txn # "reading",
         serial' = IF Statement(t).at = "log" THEN serial + 1 ELSE serial,
         UNCHANGED <<calls, together, behind>>
  PROVE  ChainInv'
<1> USE DEF ChainInv
<1>1. /\ job[t] \in Jobs /\ job'[t] = [job[t] EXCEPT !.step = "commit"]
      /\ \A u \in Threads \ {t} : job'[u] = job[u]
      /\ UNCHANGED stored
  BY DEF Goes, Sound, Typed, Rewritten
<1>2. /\ job'[t].step = "commit" /\ job'[t].op = job[t].op /\ job'[t].n = job[t].n
      /\ Busy(t)
  BY <1>1 DEF Jobs, Busy
<1>3. \A q \in Procs : conn'[q] = IF q = p THEN c ELSE conn[q]
  BY DEF Rewritten, Sound, Typed
<1>4. PICK w : w = Statement(t)
  OBVIOUS
<1>5. /\ w \in Writes
      /\ w.do = "purge" => job[t].op = "purge"
      /\ Appends(w) => job[t].op = "record" /\ w.val = Entry(job[t].n, job[t].seen) /\ w.at = "log"
  <2>1. /\ job[t].op \in Ops /\ w \in Writes
        /\ w.do = Known[job[t].op].do /\ w.at = Known[job[t].op].at
        /\ job[t].op = "record" => w.val = Entry(job[t].n, job[t].seen)
    BY <1>2, <1>4, StatementType DEF Sound, Course
  <2> QED BY <2>1, KnownDeeds DEF Appends
<1>6. Grows(p, w, c)
  BY <1>4, <1>5, AcceptedGrows
<1>7. PICK k : k = Len(conn[p].writes) + 1
  OBVIOUS
<1>8. \A q \in Procs : \A i \in DOMAIN conn'[q].writes :
        \/ i \in DOMAIN conn[q].writes /\ conn'[q].writes[i] = conn[q].writes[i]
        \/ q = p /\ i = k /\ conn'[q].writes[i] = w
  BY <1>3, <1>6, <1>7 DEF Grows
<1>9. \A u \in Threads : job'[u].op = job[u].op /\ job'[u].n = job[u].n /\ (job'[u].step # "idle" <=> Busy(u))
  BY <1>1, <1>2 DEF Busy
<1>10. PurgeAlone'
  BY <1>9 DEF PurgeAlone, Busy
<1>11. ASSUME NEW q \in Procs, NEW i \in DOMAIN conn'[q].writes
       PROVE  /\ conn'[q].writes[i].do = "purge" =>
                   \E u \in Threads : Home[u] = q /\ job'[u].step # "idle" /\ job'[u].op = "purge"
              /\ Appends(conn'[q].writes[i]) =>
                   \E u \in Threads : /\ Home[u] = q /\ job'[u].n = conn'[q].writes[i].val.id
                                      /\ job'[u].op = "record" /\ job'[u].step = "commit"
  <2>1. CASE i \in DOMAIN conn[q].writes /\ conn'[q].writes[i] = conn[q].writes[i]
    <3>1. ASSUME conn[q].writes[i].do = "purge"
          PROVE  \E u \in Threads : Home[u] = q /\ job'[u].step # "idle" /\ job'[u].op = "purge"
      <4>1. PICK u \in Threads : Home[u] = q /\ Busy(u) /\ job[u].op = "purge"
        BY <2>1, <3>1 DEF LogOwned
      <4> QED BY <1>9, <4>1
    <3>2. ASSUME Appends(conn[q].writes[i])
          PROVE  \E u \in Threads : /\ Home[u] = q /\ job'[u].n = conn[q].writes[i].val.id
                                    /\ job'[u].op = "record" /\ job'[u].step = "commit"
      <4>1. PICK u \in Threads : /\ Home[u] = q /\ job[u].n = conn[q].writes[i].val.id
                                 /\ job[u].op = "record" /\ job[u].step = "commit"
        BY <2>1, <3>2 DEF LogOwned
      <4>2. u # t
        BY <4>1
      <4> QED BY <1>1, <4>1, <4>2
    <3> QED BY <2>1, <3>1, <3>2
  <2>2. CASE q = p /\ conn'[q].writes[i] = w
    <3>1. Entry(job[t].n, job[t].seen).id = job[t].n
      BY DEF Entry
    <3> QED BY <1>2, <1>5, <1>9, <2>2, <3>1
  <2> QED BY <1>8, <2>1, <2>2
<1>12. LogOwned'
  BY <1>11 DEF LogOwned, Busy, Appends
<1>13. SnapsFresh'
  BY <1>1, <1>3 DEF SnapsFresh
<1>14. ASSUME Apart' PROVE LogInOrder'
  <2>1. Apart
    BY <1>14, ApartBefore
  <2> USE DEF LogInOrder
  <2>2. PICK L : L = stored.log
    OBVIOUS
  <2>3. serial \in Nat /\ serial' \in Nat /\ serial <= serial' /\ L \in Logs
        /\ \A e \in L : e.seq \in Nat /\ e.id \in Nat
    BY <2>2 DEF Sound, Typed, States, Logs, Entries
  <2>4. ASSUME NEW q \in Procs, NEW i \in DOMAIN conn[q].writes, Appends(conn[q].writes[i])
        PROVE  ~Appends(w)
    <3>1. PICK u \in Threads : job[u].op = "record" /\ job[u].step = "commit"
      BY <2>4 DEF LogOwned
    <3>2. Busy(u) /\ calls[job[u].n] \in Recorders /\ u # t
      BY <3>1, RecordingIs DEF Busy
    <3>3. Appends(w) => calls[job[t].n] \in Recorders
      BY <1>2, <1>5, RecordingIs
    <3> QED BY <1>2, <2>1, <3>2, <3>3, OneRecords
  <2>5. ASSUME Appends(w) PROVE w.val.seq <= serial' /\ Follows(w.val, L)
    <3>1. /\ job[t].op = "record" /\ calls[job[t].n] \in Recorders /\ serial' = serial + 1
          /\ w.val.id = job[t].n /\ w.val.previous_hash = job[t].seen /\ w.val.seq = serial + 1
      BY <1>2, <1>4, <1>5, <2>5, RecordingIs DEF Entry
    <3>2. \A e \in L : e.id <= job[t].n /\ e.id # job[t].n
      BY <1>2, <2>1, <2>2, <3>1 DEF BusyFirst
    <3>3. \A e \in L : e.seq < serial + 1 /\ e.id < job[t].n
      <4>1. job[t].n \in Nat
        BY <1>1 DEF Jobs
      <4> QED BY <2>1, <2>2, <2>3, <3>2, <4>1
    <3>4. L = {} \/ job[t].seen = LastOf(L)
      BY <2>1, <2>2, <3>1 DEF SeenLast
    <3> QED BY <2>3, <3>1, <3>3, <3>4 DEF Follows
  <2>6. NextInLine'
    <3>1. ASSUME NEW q \in Procs, NEW i \in DOMAIN conn'[q].writes, Appends(conn'[q].writes[i])
          PROVE  /\ conn'[q].writes[i].val.seq <= serial'
                 /\ Follows(conn'[q].writes[i].val, L)
                 /\ \A l \in DOMAIN conn'[q].writes : Appends(conn'[q].writes[l]) => l = i
      <4>1. CASE i \in DOMAIN conn[q].writes /\ conn'[q].writes[i] = conn[q].writes[i]
        <5>1. /\ conn[q].writes[i].val.seq <= serial
              /\ Follows(conn[q].writes[i].val, L)
              /\ \A l \in DOMAIN conn[q].writes : Appends(conn[q].writes[l]) => l = i
          BY <2>1, <2>2, <3>1, <4>1 DEF NextInLine
        <5>2. ~Appends(w)
          BY <2>4, <3>1, <4>1
        <5>3. conn[q].writes[i].val.seq \in Nat
          BY <3>1, <4>1, PendingType DEF Writes, Appends, Entries
        <5> QED BY <1>8, <2>3, <4>1, <5>1, <5>2, <5>3
      <4>2. CASE q = p /\ i = k /\ conn'[q].writes[i] = w
        <5>1. \A l \in DOMAIN conn[p].writes : ~Appends(conn[p].writes[l])
          BY <2>4, <3>1, <4>2
        <5> QED BY <1>8, <2>5, <3>1, <4>2, <5>1
      <4> QED BY <1>8, <4>1, <4>2
    <3> QED BY <1>1, <2>2, <3>1 DEF NextInLine, Appends, Follows
  <2>7. BusyFirst'
    <3>1. ASSUME NEW u \in Threads, job'[u].step # "idle", calls[job'[u].n] \in Recorders, NEW e \in L
          PROVE  e.id <= job'[u].n /\ (e.id = job'[u].n => job'[u].op = "record" /\ job'[u].step = "commit")
      <4>1. e.id <= job[u].n /\ (e.id = job[u].n => job[u].op = "record" /\ job[u].step = "commit")
        BY <1>9, <2>1, <2>2, <3>1 DEF BusyFirst
      <4> QED BY <1>1, <1>2, <1>9, <4>1
    <3> QED BY <1>1, <2>2, <3>1 DEF BusyFirst, Busy
  <2>8. SeenLast'
    BY <1>1, <1>2, <2>1 DEF SeenLast
  <2>9. \A e \in L : e.seq <= serial' /\ e.id <= Len(calls')
    BY <2>1, <2>2, <2>3
  <2> QED BY <1>1, <2>1, <2>2, <2>6, <2>7, <2>8, <2>9 DEF Ordered, ChainHolds
<1> QED BY <1>10, <1>12, <1>13, <1>14


LEMMA WriteChain ==
  ASSUME Sound, Modes, ChainInv, NEW t \in Threads, Write(t)
  PROVE  ChainInv'
<1> DEFINE p == Home[t]
           w == Statement(t)
<1>1. p \in Procs /\ conn[p] \in Conns /\ w \in Writes /\ job[t].step = "write"
  BY HomeIsProc, StatementType DEF Write, Sound, Typed
<1>2. conn[p].writes \in Seq(Writes) /\ Append(conn[p].writes, w) \in Seq(Writes)
  BY <1>1, WritesGrow DEF Conns
<1> HIDE DEF p, w
<1>3. UNCHANGED <<backend, stored, calls, together, behind>>
  BY DEF Write
<1>4. CASE WriteSQLite(t)
  <2>1. CASE /\ conn' = [conn EXCEPT ![p].txn = IF @ = "none" THEN "began" ELSE @]
             /\ Fails(t) /\ UNCHANGED serial
    <3> DEFINE c == [conn[p] EXCEPT !.txn = IF @ = "none" THEN "began" ELSE @]
    <3>1. Rewritten(p, c)
      BY <1>3, <2>1 DEF Rewritten
    <3>2. /\ c \in Conns /\ c.writes = conn[p].writes
          /\ c.txn = "reading" =>
               conn[p].txn = "reading" /\ c.snap = conn[p].snap /\ c.stale = conn[p].stale
      BY <1>1 DEF Conns
    <3> HIDE DEF c
    <3> QED BY <1>1, <1>3, <2>1, <3>1, <3>2, RefusedChain
  <2>2. CASE /\ conn' = [conn EXCEPT ![p] = [Closed EXCEPT !.txn = "writing", !.writes = conn[p].writes]]
             /\ Fails(t) /\ UNCHANGED serial
    <3> DEFINE c == [Closed EXCEPT !.txn = "writing", !.writes = conn[p].writes]
    <3>1. Rewritten(p, c)
      BY <1>3, <2>2 DEF Rewritten
    <3>2. c \in Conns /\ c.writes = conn[p].writes /\ c.txn = "writing"
      BY <1>2 DEF Conns, Closed
    <3> HIDE DEF c
    <3> QED BY <1>1, <1>3, <2>2, <3>1, <3>2, RefusedChain
  <2>3. CASE /\ conn' = [conn EXCEPT ![p] = [Closed EXCEPT !.txn = "writing",
                                                !.writes = Append(conn[p].writes, w)]]
             /\ Goes(t, [job[t] EXCEPT !.step = "commit"])
             /\ serial' = IF w.at = "log" THEN serial + 1 ELSE serial
    <3> DEFINE c == [Closed EXCEPT !.txn = "writing", !.writes = Append(conn[p].writes, w)]
    <3>1. Rewritten(p, c)
      BY <1>3, <2>3 DEF Rewritten
    <3>2. c \in Conns /\ Accepts(p, w, c) /\ c.txn = "writing"
      BY <1>2 DEF Conns, Closed, Accepts
    <3> HIDE DEF c
    <3> QED BY <1>1, <1>3, <2>3, <3>1, <3>2, AcceptedChain DEF p, w
  <2> QED BY <1>4, <2>1, <2>2, <2>3 DEF WriteSQLite, p, w
<1>5. CASE WritePostgres(t)
  <2>1. CASE Fails(t) /\ UNCHANGED <<conn, serial>>
    <3>1. Rewritten(p, conn[p])
      BY <1>3, <2>1 DEF Rewritten, Sound, Typed
    <3> QED BY <1>1, <1>3, <2>1, <3>1, RefusedChain
  <2>2. CASE /\ conn' = [conn EXCEPT ![p] = [Closed EXCEPT !.txn = "aborted"]]
             /\ Fails(t) /\ UNCHANGED serial
    <3> DEFINE c == [Closed EXCEPT !.txn = "aborted"]
    <3>1. Rewritten(p, c)
      BY <1>3, <2>2 DEF Rewritten
    <3>2. c \in Conns /\ c.writes = <<>> /\ c.txn = "aborted"
      BY ClosedType DEF Conns, Closed
    <3> HIDE DEF c
    <3> QED BY <1>1, <1>3, <2>2, <3>1, <3>2, RefusedChain
  <2>3. CASE /\ conn' = [conn EXCEPT ![p].txn = "open",
                            ![p].writes = IF Misses(p, w) THEN @ ELSE Append(@, w)]
             /\ Goes(t, [job[t] EXCEPT !.step = "commit"])
             /\ serial' = IF w.at = "log" THEN serial + 1 ELSE serial
    <3> DEFINE c == [conn[p] EXCEPT !.txn = "open",
                                  !.writes = IF Misses(p, w) THEN @ ELSE Append(@, w)]
    <3>1. Rewritten(p, c)
      BY <1>1, <1>3, <2>3 DEF Rewritten, Sound, Typed
    <3>2. c \in Conns /\ Accepts(p, w, c) /\ c.txn = "open"
      BY <1>1, <1>2, <1>5 DEF Conns, Accepts, WritePostgres
    <3> HIDE DEF c
    <3> QED BY <1>1, <1>3, <2>3, <3>1, <3>2, AcceptedChain DEF p, w
  <2> QED BY <1>5, <2>1, <2>2, <2>3 DEF WritePostgres, p, w
<1> QED BY <1>4, <1>5 DEF Write

LEMMA CallChain ==
  ASSUME Sound, ChainInv, NEW t \in Threads, NEW op \in mix, Call(t, op)
  PROVE  ChainInv'
<1> USE DEF ChainInv
<1>1. op \in Ops /\ calls \in Seq(Ops) /\ calls' = Append(calls, op) /\ ~Busy(t)
  BY DEF Sound, Typed, Call
<1>2. PICK n : n = Len(calls) + 1
  OBVIOUS
<1>3. /\ \A m \in DOMAIN calls : m \in DOMAIN calls' /\ calls'[m] = calls[m]
      /\ Len(calls) \in Nat /\ Len(calls') = n /\ n \in Nat
  BY <1>1, <1>2, CallsGrow
<1>4. /\ UNCHANGED <<stored, conn, serial, behind>> /\ together \subseteq together'
      /\ job'[t].op = op /\ job'[t].n = n
      /\ job'[t].step = IF Known[op].look = "nothing" THEN "write" ELSE "look"
  BY <1>2 DEF Call
<1>5. ASSUME NEW u \in Threads \ {t}
      PROVE  /\ job'[u].op = job[u].op /\ job'[u].n = job[u].n /\ job'[u].step = job[u].step
             /\ job'[u].seen = job[u].seen
  <2>1. job[u] \in Jobs /\ job'[u] = [job[u] EXCEPT !.gone = @ /\ op \notin Fresh]
    BY DEF Call, Sound, Typed
  <2> QED BY <2>1 DEF Jobs
<1>6. PurgeAlone'
  <2>1. /\ op = "purge" => \A u \in Away(t) : Home[u] # Home[t]
        /\ \A u \in Away(t) : Home[u] = Home[t] => job[u].op # "purge"
    BY DEF Call, MayCall
  <2>2. ASSUME NEW u \in Threads, NEW v \in Threads, job'[u].step # "idle", job'[v].step # "idle",
               job'[u].op = "purge", Home[u] = Home[v]
        PROVE  u = v
    <3>1. CASE u # t /\ v # t
      BY <1>5, <2>2, <3>1 DEF PurgeAlone, Busy
    <3>2. CASE u = t /\ v # t
      <4>1. v \in Away(t) /\ op = "purge"
        BY <1>4, <1>5, <2>2, <3>2 DEF Away, Busy
      <4> QED BY <2>1, <2>2, <3>2, <4>1
    <3>3. CASE u # t /\ v = t
      <4>1. u \in Away(t) /\ job[u].op = "purge"
        BY <1>5, <2>2, <3>3 DEF Away, Busy
      <4> QED BY <2>1, <2>2, <3>3, <4>1
    <3> QED BY <3>1, <3>2, <3>3
  <2> QED BY <2>2 DEF PurgeAlone, Busy
<1>7. LogOwned'
  <2>1. ASSUME NEW u \in Threads, Busy(u)
        PROVE  /\ job'[u].op = job[u].op /\ job'[u].n = job[u].n /\ job'[u].step = job[u].step
               /\ job'[u].step # "idle"
    BY <1>1, <1>5, <2>1 DEF Busy
  <2>2. \A u \in Threads : job[u].step = "commit" => Busy(u)
    BY DEF Busy
  <2>3. ASSUME NEW q \in Procs, NEW i \in DOMAIN conn[q].writes
        PROVE  /\ conn[q].writes[i].do = "purge" =>
                    \E u \in Threads : Home[u] = q /\ job'[u].step # "idle" /\ job'[u].op = "purge"
               /\ Appends(conn[q].writes[i]) =>
                    \E u \in Threads : /\ Home[u] = q /\ job'[u].n = conn[q].writes[i].val.id
                                       /\ job'[u].op = "record" /\ job'[u].step = "commit"
    BY <2>1, <2>2, <2>3 DEF LogOwned
  <2> QED BY <1>4, <2>3 DEF LogOwned, Busy, Appends
<1>8. SnapsFresh'
  BY <1>4 DEF SnapsFresh
<1>9. ASSUME Apart' PROVE LogInOrder'
  <2>1. Apart
    BY <1>3, <1>4, <1>9, ApartBefore
  <2> USE DEF LogInOrder
  <2>2. PICK L : L = stored.log
    OBVIOUS
  <2>3. \A e \in L : e.id \in Nat /\ e.id < n /\ e.seq <= serial
    BY <1>2, <1>3, <2>1, <2>2 DEF Sound, Typed, States, Logs, Entries
  <2>4. BusyFirst'
    <3>1. ASSUME NEW u \in Threads, job'[u].step # "idle", calls'[job'[u].n] \in Recorders, NEW e \in L
          PROVE  e.id <= job'[u].n /\ (e.id = job'[u].n => job'[u].op = "record" /\ job'[u].step = "commit")
      <4>1. CASE u = t
        BY <1>3, <1>4, <2>3, <4>1
      <4>2. CASE u # t
        <5>1. Busy(u) /\ job'[u].n = job[u].n /\ job[u].n \in DOMAIN calls
          BY <1>5, <3>1, <4>2 DEF Busy, Sound, Course
        <5>2. calls[job[u].n] \in Recorders
          BY <1>3, <3>1, <5>1
        <5> QED BY <1>5, <2>1, <2>2, <4>2, <5>1, <5>2 DEF BusyFirst
      <4> QED BY <4>1, <4>2
    <3> QED BY <1>4, <2>2, <3>1 DEF BusyFirst, Busy
  <2>5. SeenLast'
    <3>1. Known["record"].look # "nothing"
      BY KnownCalls DEF Line
    <3>2. ASSUME NEW u \in Threads, job'[u].op = "record", job'[u].step = "write"
          PROVE  L = {} \/ job'[u].seen = LastOf(L)
      BY <1>4, <1>5, <2>1, <2>2, <3>1, <3>2 DEF SeenLast
    <3> QED BY <1>4, <2>2, <3>2 DEF SeenLast
  <2>6. NextInLine'
    BY <1>4, <2>1 DEF NextInLine
  <2>7. \A e \in L : e.seq <= serial' /\ e.id <= Len(calls')
    BY <1>3, <1>4, <2>3
  <2> QED BY <1>4, <2>1, <2>2, <2>4, <2>5, <2>6, <2>7 DEF Ordered, ChainHolds
<1> QED BY <1>6, <1>7, <1>8, <1>9


LEMMA CrashChain ==
  ASSUME Sound, ChainInv, NEW p \in Procs, Crash(p)
  PROVE  ChainInv'
<1> USE DEF ChainInv
<1>1. \A u \in Threads : IF Home[u] = p THEN job'[u] = Idle ELSE job'[u] = job[u]
  BY DEF Crash
<1>2. \A q \in Procs : conn'[q] = IF q = p THEN Closed ELSE conn[q]
  BY DEF Crash, Sound, Typed
<1>3. UNCHANGED <<stored, calls, serial, together, behind>>
  BY DEF Crash
<1>4. \A u \in Threads : job'[u].step # "idle" => job'[u] = job[u] /\ Busy(u)
  BY <1>1 DEF Idle, Busy
<1>5. PurgeAlone'
  BY <1>4 DEF PurgeAlone, Busy
<1>6. ASSUME NEW q \in Procs, NEW i \in DOMAIN conn'[q].writes
      PROVE  q # p /\ conn'[q] = conn[q]
  BY <1>2, <1>6 DEF Closed
<1>7. LogOwned'
  <2>1. ASSUME NEW q \in Procs, NEW i \in DOMAIN conn'[q].writes
        PROVE  /\ conn'[q].writes[i].do = "purge" =>
                    \E u \in Threads : Home[u] = q /\ job'[u].step # "idle" /\ job'[u].op = "purge"
               /\ Appends(conn'[q].writes[i]) =>
                    \E u \in Threads : /\ Home[u] = q /\ job'[u].n = conn'[q].writes[i].val.id
                                       /\ job'[u].op = "record" /\ job'[u].step = "commit"
    <3>1. q # p /\ conn'[q] = conn[q]
      BY <1>6, <2>1
    <3>2. \A u \in Threads : Home[u] = q => job'[u] = job[u]
      BY <1>1, <3>1
    <3>3. /\ conn[q].writes[i].do = "purge" =>
               \E u \in Threads : Home[u] = q /\ Busy(u) /\ job[u].op = "purge"
          /\ Appends(conn[q].writes[i]) =>
               \E u \in Threads : /\ Home[u] = q /\ job[u].n = conn[q].writes[i].val.id
                                  /\ job[u].op = "record" /\ job[u].step = "commit"
      BY <2>1, <3>1 DEF LogOwned
    <3> QED BY <3>1, <3>2, <3>3 DEF Busy
  <2> QED BY <2>1 DEF LogOwned, Busy, Appends
<1>8. SnapsFresh'
  BY <1>2, <1>3 DEF SnapsFresh, Closed
<1>9. ASSUME Apart' PROVE LogInOrder'
  <2>1. Apart
    BY <1>3, <1>9 DEF Apart
  <2> USE DEF LogInOrder
  <2>2. NextInLine'
    <3>1. ASSUME NEW q \in Procs, NEW i \in DOMAIN conn'[q].writes, Appends(conn'[q].writes[i])
          PROVE  /\ conn'[q].writes[i].val.seq <= serial
                 /\ Follows(conn'[q].writes[i].val, stored.log)
                 /\ \A k \in DOMAIN conn'[q].writes : Appends(conn'[q].writes[k]) => k = i
      <4>1. conn'[q] = conn[q]
        BY <1>6, <3>1
      <4> QED BY <2>1, <3>1, <4>1 DEF NextInLine
    <3> QED BY <1>3, <3>1 DEF NextInLine, Appends, Follows
  <2>3. BusyFirst'
    BY <1>3, <1>4, <2>1 DEF BusyFirst, Busy
  <2>4. SeenLast'
    BY <1>3, <1>4, <2>1 DEF SeenLast
  <2> QED BY <1>3, <2>1, <2>2, <2>3, <2>4 DEF Ordered, ChainHolds
<1> QED BY <1>5, <1>7, <1>8, <1>9

LEMMA ChainStutters ==
  ASSUME ChainInv, UNCHANGED <<stored, conn, job, calls, serial, together, behind>>
  PROVE  ChainInv'
<1>1. PurgeAlone' /\ LogOwned' /\ SnapsFresh' /\ (Apart' => Apart)
  <2>1. PurgeAlone' /\ SnapsFresh'
    BY DEF ChainInv, PurgeAlone, SnapsFresh, Busy
  <2>2. LogOwned'
    BY DEF ChainInv, LogOwned, Busy, Appends
  <2>3. Apart' => Apart
    BY DEF Apart
  <2> QED BY <2>1, <2>2, <2>3
<1>2. LogInOrder => LogInOrder'
  <2>1. NextInLine => NextInLine'
    BY DEF NextInLine, Appends, Follows
  <2>2. BusyFirst /\ SeenLast => BusyFirst' /\ SeenLast'
    BY DEF BusyFirst, SeenLast, Busy
  <2>3. Ordered(stored.log) /\ ChainHolds(stored.log) => Ordered(stored.log)' /\ ChainHolds(stored.log)'
    BY DEF Ordered, ChainHolds
  <2> QED BY <2>1, <2>2, <2>3 DEF LogInOrder
<1> QED BY <1>1, <1>2 DEF ChainInv

LEMMA ChainInit == ASSUME Init PROVE ChainInv
<1>1. /\ \A t \in Threads : ~Busy(t) /\ job[t].op = "none"
      /\ \A p \in Procs : conn[p].writes = <<>> /\ conn[p].txn = "none"
      /\ Len(calls) = 1 /\ serial = 0
  BY DEF Init, Idle, Busy, Closed
<1>2. PICK e : e = [id |-> 1, previous_hash |-> 0, seq |-> 0] /\ stored.log = {e}
  <2>1. stored.log = {[id |-> 1, previous_hash |-> 0, seq |-> 0]}
    BY DEF Init
  <2> QED BY <2>1
<1>3. Ordered(stored.log) /\ ChainHolds(stored.log) /\ e.seq <= serial /\ e.id <= Len(calls)
  <2>1. e.seq = 0 /\ e.id = 1
    BY <1>2
  <2>2. \A d \in stored.log : {f \in stored.log : f.seq < d.seq} = {}
    BY <1>2, <2>1
  <2> QED BY <1>1, <1>2, <2>1, <2>2 DEF Ordered, ChainHolds
<1>4. PurgeAlone /\ LogOwned /\ SnapsFresh /\ NextInLine
  BY <1>1 DEF PurgeAlone, LogOwned, SnapsFresh, NextInLine
<1>5. BusyFirst /\ SeenLast
  BY <1>1 DEF BusyFirst, SeenLast
<1> QED BY <1>2, <1>3, <1>4, <1>5 DEF ChainInv, LogInOrder

LEMMA ChainNext == ASSUME Sound, RevokedInv, ChainInv, [Next]_vars PROVE ChainInv'
<1>0. Modes
  BY DEF RevokedInv
<1>1. CASE UNCHANGED vars
  BY <1>1, ChainStutters DEF vars
<1>2. CASE Age
  BY <1>2, ChainStutters DEF Age, ghosts
<1> QED BY <1>0, <1>1, <1>2, CallChain, LookChain, LeaveChain, WriteChain, CommitChain, CrashChain
    DEF Next

(* ChainBrokenOnlyByOverlap, for every number of threads, processes, calls  *)
(* and crashes: the chain that verify_chain() walks breaks only if two       *)
(* recorders were under way at once or one looked in an old snapshot         *)
(* (SQLiteAuditService.record).                                             *)
THEOREM AuditChainHolds == Spec => []ChainBrokenOnlyByOverlap
<1>1. Init => RevokedInv /\ ChainInv
  BY RevokedInit, ChainInit
<1>2. Sound /\ RevokedInv /\ ChainInv /\ [Next]_vars => RevokedInv' /\ ChainInv'
  BY RevokedNext, ChainNext
<1>3. ChainInv => ChainBrokenOnlyByOverlap
  BY DEF ChainInv, Apart, LogInOrder, ChainBrokenOnlyByOverlap
<1> QED BY <1>1, <1>2, <1>3, SoundAlways, PTL DEF Spec

-----------------------------------------------------------------------------
(* What is said to be written stays written.  A call has parts: what it     *)
(* writes itself, and its entry in the audit log.  A part stands once its   *)
(* write is stored; a write that is stored later takes it away only by      *)
(* writing over it, since it is that of a later call or of one that was     *)
(* under way at the same time.  A thread that is about to commit has its    *)
(* part stored already, by another thread's commit of the same connection,  *)
(* or pending, unless a refused statement has cut it off.                   *)

(* Parts of calls, and what writes do to them.                              *)

\* What call n has to write.
Tasks(n) ==
  {op \in Ops : /\ Known[op].do \notin {"nothing", "purge"}
                /\ op = calls[n] \/ (op = "record" /\ calls[n] \in Recorders)}

\* Call m deletes what is kept at this place.
Deletes(m, at) ==
  m \in 2..Len(calls) /\ Known[calls[m]].at = at /\ Known[calls[m]].do = "delete"

\* What call n wrote as op stands in s, or what replaced it does.
StandsIn(n, op, s) ==
  LET v == s.rows[Known[op].at]
  IN  \/ v = n
      \/ v # 0 /\ InOrderOrTogether(n, v)
      \/ /\ v = 0
         /\ \/ Known[op].do \in {"delete", "update"}
            \/ \E m \in 2..Len(calls) : Deletes(m, Known[op].at) /\ InOrderOrTogether(n, m)
Part(n, op, s) ==
  /\ Known[op].at \in Keys => StandsIn(n, op, s)
  /\ Known[op].at = "samples" => n <= aged \/ n \in s.samples
  /\ Known[op].at = "log" => n <= aged \/ \E e \in s.log : e.id = n

\* Write x is that of call n as op, or makes a row that op finds missing.
Brings(x, n, op) ==
  /\ x.at = Known[op].at
  /\ \/ x.do = Known[op].do /\ IF x.at = "log" THEN x.val.id = n ELSE x.val = n
     \/ Known[op].do \in {"update", "delete"} /\ x.do = "delete"
Coming(p, n, op) == \E i \in DOMAIN conn[p].writes : Brings(conn[p].writes[i], n, op)

\* Write x takes nothing away from call n, unless by writing over it.
Yields(x, n, op) ==
  /\ x.do = "purge" => x.val <= aged
  /\ x.at = Known[op].at /\ x.at \in Keys =>
       \/ x.val = n /\ x.do = Known[op].do
       \/ /\ x.val # 0 /\ InOrderOrTogether(n, x.val)
          /\ x.do = "delete" => Deletes(x.val, x.at)

LEMMA TaskIs ==
  ASSUME NEW n, NEW op \in Tasks(n)
  PROVE  /\ op \in Ops
         /\ \/ Known[op].do \in {"insert", "update", "delete"} /\ Known[op].at \in Keys
            \/ Known[op].do = "append" /\ Known[op].at = "samples"
            \/ op = "record" /\ Known[op].do = "append" /\ Known[op].at = "log"
         /\ Known[op].at \in Keys \cup {"samples"} => op = calls[n]
<1>1. op \in Ops /\ Known[op].do \notin {"nothing", "purge"}
  BY DEF Tasks
<1>2. Known["record"].at = "log"
  BY KnownCalls DEF Line
<1>3. op = "record" \/ op = calls[n]
  BY DEF Tasks
<1> QED BY <1>1, <1>2, <1>3, KnownDeeds DEF Keys

LEMMA YieldApplied ==
  ASSUME NEW n \in Nat, NEW op \in Tasks(n), NEW x \in Writes, NEW s \in States,
         Sound, Yields(x, n, op), Part(n, op, s)
  PROVE  Part(n, op, Applied(x, s))
<1>1. PICK z : z = Applied(x, s)
  OBVIOUS
<1>2. PICK at : at = Known[op].at
  OBVIOUS
<1>3. z \in States /\ aged \in Nat
  BY <1>1, AppliedType DEF Sound, Typed
<1>4. CASE at \in Keys
  <2>1. Known[op].at \in Keys /\ at \notin {"samples", "log"} /\ StandsIn(n, op, s)
    BY <1>2, <1>4 DEF Keys, Part
  <2>2. CASE z.rows[at] = s.rows[at]
    <3>1. StandsIn(n, op, z)
      BY <1>2, <2>1, <2>2 DEF StandsIn
    <3> QED BY <1>1, <1>2, <2>1, <3>1 DEF Part
  <2>3. CASE z.rows[at] # s.rows[at]
    <3>1. /\ x.at = at
          /\ \/ x.do \in {"insert", "update"} /\ z.rows[at] = x.val
             \/ x.do = "delete" /\ z.rows[at] = 0
      BY <1>1, <1>3, <1>4, <2>3 DEF Applied, States, Writes
    <3>2. CASE x.do \in {"insert", "update"} /\ z.rows[at] = x.val
      <4>1. x.val = n \/ (x.val # 0 /\ InOrderOrTogether(n, x.val))
        BY <1>2, <1>4, <3>1 DEF Yields
      <4>2. StandsIn(n, op, z)
        BY <1>2, <3>2, <4>1 DEF StandsIn
      <4> QED BY <1>1, <1>2, <2>1, <4>2 DEF Part
    <3>3. CASE x.do = "delete" /\ z.rows[at] = 0
      <4>1. Known[op].do = "delete" \/ (Deletes(x.val, at) /\ InOrderOrTogether(n, x.val))
        BY <1>2, <1>4, <3>1, <3>3 DEF Yields
      <4>2. StandsIn(n, op, z)
        BY <1>2, <3>3, <4>1 DEF StandsIn, Deletes
      <4> QED BY <1>1, <1>2, <2>1, <4>2 DEF Part
    <3> QED BY <3>1, <3>2, <3>3
  <2> QED BY <1>1, <2>2, <2>3
<1>5. CASE at = "samples"
  <2>1. at \notin Keys /\ at # "log" /\ (n <= aged \/ n \in s.samples)
    BY <1>2, <1>5 DEF Keys, Part
  <2>2. CASE x.do = "purge"
    <3>1. z.samples = {m \in s.samples : m > x.val} /\ x.val \in Nat /\ x.val <= aged
      BY <1>1, <2>2 DEF Applied, States, Writes, Yields
    <3>2. n <= aged \/ n \in z.samples
      BY <1>3, <2>1, <3>1
    <3> QED BY <1>1, <1>2, <2>1, <3>2 DEF Part
  <2>3. CASE x.do # "purge"
    <3>1. s.samples \subseteq z.samples
      BY <1>1, <2>3 DEF Applied, States, Writes
    <3> QED BY <1>1, <1>2, <2>1, <3>1 DEF Part
  <2> QED BY <2>2, <2>3
<1>6. CASE at = "log"
  <2>1. at \notin Keys /\ at # "samples" /\ (n <= aged \/ \E e \in s.log : e.id = n)
    BY <1>2, <1>6 DEF Keys, Part
  <2>2. CASE x.do = "purge"
    <3>1. z.log = {e \in s.log : e.id > x.val} /\ x.val \in Nat /\ x.val <= aged
      BY <1>1, <2>2 DEF Applied, States, Writes, Yields
    <3>2. n <= aged \/ \E e \in z.log : e.id = n
      BY <1>3, <2>1, <3>1
    <3> QED BY <1>1, <1>2, <2>1, <3>2 DEF Part
  <2>3. CASE x.do # "purge"
    <3>1. s.log \subseteq z.log
      BY <1>1, <2>3 DEF Applied, States, Writes
    <3> QED BY <1>1, <1>2, <2>1, <3>1 DEF Part
  <2> QED BY <2>2, <2>3
<1>7. at \in Keys \cup {"samples", "log"}
  BY <1>2, TaskIs
<1> QED BY <1>4, <1>5, <1>6, <1>7

LEMMA BringsApplied ==
  ASSUME NEW n \in Nat, NEW op \in Tasks(n), NEW x \in Writes, NEW s \in States, Brings(x, n, op)
  PROVE  Part(n, op, Applied(x, s))
<1>1. PICK z : z = Applied(x, s)
  OBVIOUS
<1>2. PICK at : at = Known[op].at
  OBVIOUS
<1>3. z \in States /\ x.at = at
  BY <1>1, <1>2, AppliedType DEF Brings
<1>4. CASE at \in Keys
  <2>1. /\ Known[op].do \in {"insert", "update", "delete"} /\ at \notin {"samples", "log"}
        /\ \/ x.do = Known[op].do /\ x.val = n
           \/ Known[op].do \in {"update", "delete"} /\ x.do = "delete"
    BY <1>2, <1>3, <1>4, TaskIs DEF Brings, Keys
  <2>2. \/ z.rows[at] = n
        \/ z.rows[at] = 0 /\ Known[op].do \in {"update", "delete"}
    BY <1>1, <1>3, <1>4, <2>1 DEF Applied, States, Writes
  <2>3. StandsIn(n, op, z)
    BY <1>2, <2>2 DEF StandsIn
  <2> QED BY <1>1, <1>2, <2>1, <2>3 DEF Part
<1>5. CASE at = "samples"
  <2>1. Known[op].do = "append" /\ x.do = "append" /\ x.val = n /\ at \notin Keys
    BY <1>2, <1>3, <1>5, TaskIs DEF Brings, Keys
  <2>2. n \in z.samples
    BY <1>1, <1>3, <1>5, <2>1 DEF Applied, States, Writes
  <2> QED BY <1>1, <1>2, <1>5, <2>1, <2>2 DEF Part
<1>6. CASE at = "log"
  <2>1. Known[op].do = "append" /\ x.do = "append" /\ x.val.id = n /\ at \notin Keys
    BY <1>2, <1>3, <1>6, TaskIs DEF Brings, Keys
  <2>2. x.val \in z.log
    BY <1>1, <1>3, <1>6, <2>1 DEF Applied, States, Writes
  <2> QED BY <1>1, <1>2, <1>6, <2>1, <2>2 DEF Part
<1>7. at \in Keys \cup {"samples", "log"}
  BY <1>2, TaskIs
<1> QED BY <1>4, <1>5, <1>6, <1>7

-----------------------------------------------------------------------------
(* The inductive invariant.                                                 *)

\* The server has not ended the transaction of call n.
Spared(n) == backend = "sqlite" \/ n \notin cut
Stays(n, s) == Spared(n) => \A op \in Tasks(n) : Part(n, op, s)

\* What was acknowledged was a write, and stands.
IsWrite(n) ==
  n \in DOMAIN calls /\ (calls[n] \in Recorders \/ Known[calls[n]].do # "nothing")
AckedKept == \A n \in acked : IsWrite(n) /\ Stays(n, stored)

\* What is to be committed stands already, or it is pending.
OnTheWay ==
  \A t \in Threads : job[t].step = "commit" /\ job[t].op # "purge" /\ Spared(job[t].n) =>
    Part(job[t].n, job[t].op, stored) \/ Coming(Home[t], job[t].n, job[t].op)

\* A user that was created stands while the creation is recorded.
HalfWay ==
  \A t \in Threads :
    Busy(t) /\ job[t].op = "record" /\ calls[job[t].n] = "create_user" /\ Spared(job[t].n) =>
      Part(job[t].n, "create_user", stored)

\* Whoever called after a call under way overlaps with it.
Later ==
  \A t \in Threads : Busy(t) =>
    /\ job[t].n >= 2
    /\ \A n \in DOMAIN calls :
         n > job[t].n /\ Related(calls[n], calls[job[t].n]) => {n, job[t].n} \in together
PurgeOld ==
  \A p \in Procs : \A i \in DOMAIN conn[p].writes :
    conn[p].writes[i].do = "purge" => conn[p].writes[i].val <= aged

KeptInv == AckedKept /\ OnTheWay /\ HalfWay /\ Later /\ PurgeOld

(* What is pending on a row is of a call that overlaps with every later one. *)
LEMMA PendingYields ==
  ASSUME Sound, Owned, Later, PurgeOld, NEW n \in DOMAIN calls, NEW op \in Tasks(n),
         NEW p \in Procs, NEW i \in DOMAIN conn[p].writes
  PROVE  Yields(conn[p].writes[i], n, op)
<1>1. PICK x : x = conn[p].writes[i]
  OBVIOUS
<1>2. x \in Writes
  BY <1>1, PendingType
<1>3. x.do = "purge" => x.val <= aged
  BY <1>1 DEF PurgeOld
<1>4. ASSUME x.at = Known[op].at, x.at \in Keys
      PROVE  \/ x.val = n /\ x.do = Known[op].do
             \/ /\ x.val # 0 /\ InOrderOrTogether(n, x.val)
                /\ x.do = "delete" => Deletes(x.val, x.at)
  <2>1. PICK t \in Threads : Owns(t, p, x)
    BY <1>1, <1>4 DEF Owned
  <2>2. /\ job[t].n = x.val /\ Busy(t) /\ x.val >= 2 /\ x.val \in DOMAIN calls
        /\ Known[job[t].op].do = x.do /\ Known[job[t].op].at = x.at
    BY <2>1 DEF Owns, Busy, Sound, Course, Later
  <2>3. calls[x.val] = job[t].op
    <3>1. Known["record"].at \notin Keys
      BY KnownCalls DEF Line, Keys
    <3> QED BY <1>4, <2>2, <3>1 DEF Sound, Course
  <2>4. /\ op = calls[n] /\ op \in Ops
        /\ Known[op].do \in {"insert", "update", "delete"}
    BY <1>4, TaskIs DEF Keys
  <2>5. n \in Nat /\ x.val \in 2..Len(calls)
    BY <2>2 DEF Sound, Typed
  <2>6. CASE x.val = n
    BY <2>2, <2>3, <2>4, <2>6
  <2>7. CASE x.val # n
    <3>1. x.do # "nothing"
      BY <1>2, <1>4 DEF Writes, Keys
    <3>2. Related(calls[n], calls[x.val])
      BY <1>4, <2>2, <2>3, <2>4, <3>1 DEF Related
    <3>3. n < x.val \/ {n, x.val} \in together
      BY <2>2, <2>5, <2>7, <3>2 DEF Later
    <3>4. x.do = "delete" => Deletes(x.val, x.at)
      BY <2>2, <2>3, <2>5 DEF Deletes
    <3> QED BY <2>5, <3>3, <3>4 DEF InOrderOrTogether
  <2> QED BY <2>6, <2>7
<1> QED BY <1>1, <1>3, <1>4 DEF Yields

(* What stands or is pending stands after the commit.                       *)
LEMMA PartAfter ==
  ASSUME Sound, Owned, Later, PurgeOld, NEW n \in DOMAIN calls, NEW op \in Tasks(n),
         NEW p \in Procs, Part(n, op, stored) \/ Coming(p, n, op)
  PROVE  Part(n, op, WithWrites(stored, conn[p].writes))
<1>1. PICK ws : ws = conn[p].writes
  OBVIOUS
<1>2. /\ Len(ws) \in Nat /\ DOMAIN ws = 1..Len(ws) /\ stored \in States /\ n \in Nat
      /\ \A i \in 1..Len(ws) : ws[i] \in Writes
  BY <1>1, PendingType DEF Sound, Typed
<1>3. \A i \in 1..Len(ws) : Yields(ws[i], n, op)
  BY <1>1, <1>2, PendingYields
<1>4. PICK P : P = {s \in States : Part(n, op, s)}
  OBVIOUS
<1>5. \A i \in 1..Len(ws) : \A s \in P : Applied(ws[i], s) \in P
  BY <1>2, <1>3, <1>4, YieldApplied, AppliedType
<1>6. CASE Part(n, op, stored)
  <2>1. stored \in P
    BY <1>2, <1>4, <1>6
  <2>2. WithWrites(stored, ws) \in P
    BY <1>2, <1>5, <2>1, WritesKeep
  <2> QED BY <1>1, <1>4, <2>2
<1>7. CASE Coming(p, n, op)
  <2>1. PICK k \in 1..Len(ws) : Brings(ws[k], n, op)
    BY <1>1, <1>2, <1>7 DEF Coming
  <2>2. KeepIn(States, States, ws) /\ KeepIn(P, States, ws)
    BY <1>2, <1>5, AppliedType DEF KeepIn
  <2>3. LeadsTo(P, States, ws, k)
    BY <1>2, <1>4, <2>1, BringsApplied, AppliedType DEF LeadsTo
  <2>4. WithWrites(stored, ws) \in P
    BY <1>2, <2>2, <2>3, WritesReach
  <2> QED BY <1>1, <1>4, <2>4
<1> QED BY <1>6, <1>7

LEMMA StepKeepsPart ==
  ASSUME Sound, Owned, Later, PurgeOld, NEW p \in Procs, DatabaseStep(p),
         NEW n \in DOMAIN calls, NEW op \in Tasks(n)
  PROVE  /\ Part(n, op, stored) => Part(n, op, stored')
         /\ \A q \in Procs :
              Part(n, op, stored) \/ Coming(q, n, op) =>
                Part(n, op, stored') \/ \E i \in DOMAIN conn'[q].writes : Brings(conn'[q].writes[i], n, op)
<1>1. CASE UNCHANGED stored /\ \A q \in Procs : conn'[q].writes = conn[q].writes
  BY <1>1 DEF Coming
<1>2. CASE /\ stored' = WithWrites(stored, conn[p].writes) /\ conn'[p].writes = <<>>
           /\ \A q \in Procs \ {p} : conn'[q].writes = conn[q].writes
  BY <1>2, PartAfter DEF Coming
<1> QED BY <1>1, <1>2 DEF DatabaseStep

(* What stands goes on to stand as time passes and calls are made.          *)
LaterOn ==
  /\ aged \in Nat /\ aged' \in Nat /\ aged <= aged' /\ together \subseteq together'
  /\ calls \in Seq(Ops) /\ calls' \in Seq(Ops) /\ Len(calls) <= Len(calls')
  /\ \A m \in 1..Len(calls) : calls'[m] = calls[m]

LEMMA PartLater ==
  ASSUME LaterOn
  PROVE  \A n \in Nat : \A op, s : Part(n, op, s) => Part(n, op, s)'
<1> USE DEF LaterOn
<1>1. \A n, m : InOrderOrTogether(n, m) => InOrderOrTogether(n, m)'
  BY DEF InOrderOrTogether
<1>2. \A m \in 2..Len(calls) : \A at : Deletes(m, at) => m \in 2..Len(calls') /\ Deletes(m, at)'
  BY DEF Deletes
<1>3. ASSUME NEW n \in Nat, NEW op, NEW s, StandsIn(n, op, s) PROVE StandsIn(n, op, s)'
  BY <1>1, <1>2, <1>3 DEF StandsIn
<1> QED BY <1>3 DEF Part

LEMMA SameCalls == ASSUME Sound, UNCHANGED <<calls, together, aged>> PROVE LaterOn
BY DEF LaterOn, Sound, Typed

LEMMA TasksLater ==
  ASSUME LaterOn, NEW n \in 1..Len(calls)
  PROVE  /\ \A op : op \in Tasks(n)' <=> op \in Tasks(n)
         /\ IsWrite(n) => IsWrite(n)'
<1>1. calls'[n] = calls[n]
  BY DEF LaterOn
<1>2. \A op : op \in Tasks(n)' <=> op \in Tasks(n)
  BY <1>1 DEF Tasks
<1>3. IsWrite(n) => IsWrite(n)'
  BY <1>1 DEF IsWrite, LaterOn
<1> QED BY <1>2, <1>3

LEMMA CommitsTask ==
  ASSUME Sound, NEW t \in Threads, job[t].step = "commit", job[t].op # "purge"
  PROVE  job[t].n \in DOMAIN calls /\ job[t].op \in Tasks(job[t].n)
<1>1. /\ job[t].n \in DOMAIN calls /\ job[t].op \in Ops /\ Known[job[t].op].do # "nothing"
      /\ \/ calls[job[t].n] = job[t].op
         \/ job[t].op = "record" /\ calls[job[t].n] \in {"create_user", "authenticate"}
  BY DEF Sound, Course, Busy
<1>2. Known[job[t].op].do # "purge"
  BY <1>1, KnownDeeds
<1> QED BY <1>1, <1>2 DEF Tasks, Recorders

\* What a step of t other than a write has to show: what it acknowledges
\* stands, and so does the user whose creation it goes on to record.
Reports(t) ==
  /\ job'[t].step # "commit"
  /\ \A n \in acked' \ acked :
       n = job[t].n /\ IsWrite(n) /\ (Spared(n) => \A op \in Tasks(n) : Part(n, op, stored'))
  /\ job[t].op = "create_user" /\ job'[t].op = "record" /\ Spared(job[t].n) =>
       Part(job[t].n, "create_user", stored')

LEMMA QuietKeepsKept ==
  ASSUME Sound, Owned, KeptInv, NEW t \in Threads, OneJob(t), DatabaseStep(Home[t]), Reports(t),
         UNCHANGED <<backend, calls, together, aged>>, cut \subseteq cut'
  PROVE  KeptInv'
<1> USE DEF KeptInv
<1>1. /\ \A u \in Threads \ {t} : job'[u] = job[u]
      /\ \A u \in Threads : job'[u].step # "idle" =>
           /\ Busy(u) /\ job'[u].n = job[u].n
           /\ \/ job'[u].op = job[u].op
              \/ job'[u].op = "record" /\ job[u].op \in {"create_user", "authenticate"}
      /\ Home[t] \in Procs
  BY OneJobGoesOn, HomeIsProc DEF Sound
<1>2. /\ \A n \in Nat : \A op, s : Part(n, op, s) => Part(n, op, s)'
      /\ \A n \in DOMAIN calls :
           n \in Nat /\ (\A op : op \in Tasks(n)' <=> op \in Tasks(n)) /\ (IsWrite(n) => IsWrite(n)')
      /\ \A n : Spared(n)' => Spared(n)
  <2>1. LaterOn /\ DOMAIN calls = 1..Len(calls) /\ 1..Len(calls) \subseteq Nat
    BY SameCalls DEF LaterOn, Sound, Typed
  <2>2. \A n : Spared(n)' => Spared(n)
    BY DEF Spared
  <2> QED BY <2>1, <2>2, PartLater, TasksLater
<1>3. ASSUME NEW n \in DOMAIN calls, NEW op \in Tasks(n)
      PROVE  /\ Part(n, op, stored) => Part(n, op, stored')
             /\ \A q \in Procs : Part(n, op, stored) \/ Coming(q, n, op) =>
                  Part(n, op, stored') \/ \E i \in DOMAIN conn'[q].writes : Brings(conn'[q].writes[i], n, op)
  BY <1>1, <1>3, StepKeepsPart
<1>4. AckedKept'
  <2>1. ASSUME NEW n \in acked' PROVE IsWrite(n) /\ (Spared(n) => \A op \in Tasks(n) : Part(n, op, stored'))
    <3>1. CASE n \in acked
      <4>1. IsWrite(n) /\ Stays(n, stored) /\ n \in DOMAIN calls
        BY <3>1 DEF AckedKept, IsWrite
      <4> QED BY <1>3, <4>1 DEF Stays
    <3>2. CASE n \notin acked
      BY <2>1, <3>2 DEF Reports
    <3> QED BY <3>1, <3>2
  <2>2. ASSUME NEW n \in acked' PROVE IsWrite(n)' /\ Stays(n, stored)'
    <3>1. n \in DOMAIN calls
      BY <2>1, <2>2 DEF IsWrite
    <3> QED BY <1>2, <2>1, <2>2, <3>1 DEF Stays
  <2> QED BY <2>2 DEF AckedKept
<1>5. ASSUME NEW u \in Threads, job'[u].step = "commit"
      PROVE  u # t /\ job'[u] = job[u]
  BY <1>1, <1>5 DEF Reports
<1>6. OnTheWay'
  <2>1. ASSUME NEW u \in Threads, NEW n, NEW op, n = job'[u].n, op = job'[u].op,
               job'[u].step = "commit", op # "purge", Spared(n)'
        PROVE  \/ Part(n, op, stored)'
               \/ \E i \in DOMAIN conn'[Home[u]].writes : Brings(conn'[Home[u]].writes[i], n, op)
    <3>1. n = job[u].n /\ op = job[u].op
      BY <1>5, <2>1
    <3>2. job[u].step = "commit" /\ Spared(n) /\ op # "purge"
      BY <1>2, <1>5, <2>1
    <3>3. n \in DOMAIN calls /\ op \in Tasks(n)
      BY <3>1, <3>2, CommitsTask
    <3>4. Part(n, op, stored) \/ Coming(Home[u], n, op)
      BY <3>1, <3>2 DEF OnTheWay
    <3>5. \/ Part(n, op, stored')
          \/ \E i \in DOMAIN conn'[Home[u]].writes : Brings(conn'[Home[u]].writes[i], n, op)
      BY <1>3, <3>3, <3>4, HomeIsProc
    <3>6. Part(n, op, stored') => Part(n, op, stored)'
      BY <1>2, <3>3
    <3> QED BY <3>5, <3>6
  <2> QED BY <2>1 DEF OnTheWay, Coming, Brings
<1>7. HalfWay'
  <2>1. ASSUME NEW u \in Threads, NEW n, n = job'[u].n, job'[u].step # "idle",
               job'[u].op = "record", calls[n] = "create_user", Spared(n)'
        PROVE  Part(n, "create_user", stored)'
    <3>1. n = job[u].n
      BY <1>1, <2>1
    <3>2. Busy(u) /\ n \in DOMAIN calls
      BY <1>1, <2>1, <3>1 DEF Sound, Course
    <3>3. Spared(n) /\ calls[n] = "create_user" /\ "create_user" \in Tasks(n)
      BY <1>2, <2>1, <3>2, KnownCalls DEF Tasks, Line, Ops
    <3>4. Part(n, "create_user", stored')
      <4>1. CASE job[u].op = "record"
        <5>1. Part(n, "create_user", stored)
          BY <3>1, <3>2, <3>3, <4>1 DEF HalfWay
        <5> QED BY <1>3, <3>2, <3>3, <5>1
      <4>2. CASE job[u].op # "record"
        <5>1. job[u].op = "create_user" /\ u = t
          BY <1>1, <2>1, <3>1, <3>2, <3>3, <4>2 DEF Sound, Course
        <5> QED BY <2>1, <3>1, <3>3, <5>1 DEF Reports
      <4> QED BY <4>1, <4>2
    <3> QED BY <1>2, <3>2, <3>4
  <2> QED BY <2>1 DEF HalfWay, Busy
<1>8. Later'
  BY <1>1 DEF Later, Busy, Related
<1>9. PurgeOld'
  <2>1. ASSUME NEW q \in Procs, NEW i \in DOMAIN conn'[q].writes
        PROVE  conn'[q].writes = conn[q].writes
    BY <2>1 DEF DatabaseStep
  <2> QED BY <2>1 DEF PurgeOld
<1> QED BY <1>4, <1>6, <1>7, <1>8, <1>9

-----------------------------------------------------------------------------
(* The steps of a call.                                                     *)

LEMMA AfterReports ==
  ASSUME Sound, NEW t \in Threads, NEW seen,
         job[t].step \in {"look", "look_user", "leave", "leave_user"}, After(t, seen)
  PROVE  Reports(t)
<1> USE DEF Sound
<1>1. job[t] \in Jobs /\ job \in [Threads -> Jobs]
  BY DEF Typed
<1>2. CASE Ending(t, seen)
  <2>1. job'[t] = Idle /\ acked' = acked
    BY <1>1, <1>2 DEF Ending, Ends
  <2> QED BY <2>1 DEF Reports, Idle
<1>3. CASE Writing(t, seen)
  <2>1. job'[t] = [job[t] EXCEPT !.step = "write", !.seen = seen] /\ acked' = acked
    BY <1>1, <1>3 DEF Writing, Goes
  <2> QED BY <1>1, <2>1 DEF Reports, Jobs
<1>4. CASE Admitting(t, seen)
  <2>1. job'[t] = [job[t] EXCEPT !.step = "look_user", !.seen = seen] /\ acked' = acked
    BY <1>1, <1>4 DEF Admitting, Goes
  <2> QED BY <1>1, <2>1 DEF Reports, Jobs
<1>5. CASE Authenticating(t, seen)
  <2>1. /\ job'[t] = [job[t] EXCEPT !.op = "record", !.step = "look"] /\ acked' = acked
        /\ job[t].op = "authenticate"
    BY <1>1, <1>5 DEF Authenticating, Goes
  <2> QED BY <1>1, <2>1 DEF Reports, Jobs
<1> QED BY <1>2, <1>3, <1>4, <1>5, AfterIs

LEMMA LeaveKept ==
  ASSUME Sound, Owned, Modes, KeptInv, NEW t \in Threads, Leave(t)
  PROVE  KeptInv'
<1>1. Home[t] \in Procs /\ job[t].seen \in Nat /\ job[t].step \in {"leave", "leave_user"}
  BY HomeIsProc DEF Leave, Sound, Typed, Jobs
<1>2. After(t, job[t].seen)
  BY DEF Leave
<1>3. OneJob(t) /\ Reports(t)
  BY <1>1, <1>2, AfterOneJob, AfterReports DEF Sound
<1>4. \/ Committed(Home[t])
      \/ RolledBack(Home[t]) /\ conn[Home[t]].writes = <<>>
  BY <1>1 DEF Leave, Modes
<1>5. UNCHANGED <<backend, lockedOut, calls, aged, together, cut>>
  BY DEF Leave
<1>6. DatabaseStep(Home[t])
  BY <1>1, <1>4, <1>5, CommittedIsStep
<1> QED BY <1>3, <1>5, <1>6, QuietKeepsKept

LEMMA LookKept ==
  ASSUME Sound, Owned, Modes, KeptInv, NEW t \in Threads, Look(t)
  PROVE  KeptInv'
<1> DEFINE p == Home[t]
           seen == Seen(View(p), LooksAt(t))
<1>1. /\ p \in Procs /\ seen \in Nat /\ Busy(t) /\ job[t] \in Jobs
      /\ job[t].step \in {"look", "look_user"}
  BY HomeIsProc, ViewType, LooksAtType, SeenType DEF Look, Busy, Sound, Typed
<1>2. UNCHANGED <<backend, lockedOut, calls, aged, together, cut>>
  BY DEF Look
<1> HIDE DEF p, seen
<1>3. CASE conn[p].txn = "aborted"
  <2>1. Ends(t, "raised") /\ (UNCHANGED <<stored, conn>> \/ RolledBack(p))
    BY <1>3 DEF Look, p
  <2>2. DatabaseStep(p)
    <3>1. CASE UNCHANGED <<stored, conn>>
      BY <3>1 DEF DatabaseStep
    <3>2. CASE RolledBack(p)
      BY <1>1, <1>2, <1>3, <3>2, CommittedIsStep DEF Modes
    <3> QED BY <2>1, <3>1, <3>2
  <2>3. OneJob(t) /\ Reports(t)
    <3>1. job'[t] = Idle /\ acked' = acked
      BY <2>1 DEF Ends, Sound, Typed
    <3> QED BY <2>1, <3>1, EndsOneJob DEF Reports, Idle
  <2> QED BY <1>2, <2>2, <2>3, QuietKeepsKept DEF p
<1>4. CASE conn[p].txn # "aborted"
  <2>1. DatabaseStep(p)
    <3>1. Selects(p)
      BY <1>4 DEF Look, p
    <3> QED BY <1>1, <1>2, <1>4, <3>1, SelectsIsStep
  <2>2. OneJob(t) /\ Reports(t)
    <3>1. CASE backend = "sqlite" \/ IsBare(t)
      <4>1. After(t, seen)
        BY <1>4, <3>1 DEF Look, p, seen
      <4> QED BY <1>1, <4>1, AfterOneJob, AfterReports DEF Sound
    <3>2. CASE ~(backend = "sqlite" \/ IsBare(t))
      <4> DEFINE j == [job[t] EXCEPT !.seen = seen,
                         !.step = IF @ = "look" THEN "leave" ELSE "leave_user"]
      <4>1. job' = [job EXCEPT ![t] = j] /\ acked' = acked
        BY <1>4, <3>2 DEF Look, p, seen, Goes
      <4>2. /\ j \in Jobs /\ j.n = job[t].n /\ j.op = job[t].op
            /\ j.step = IF job[t].step = "look" THEN "leave" ELSE "leave_user"
        BY <1>1 DEF Jobs, Steps
      <4>3. job[t].op # "record"
        <5>1. ~Known[job[t].op].bare
          BY <3>2 DEF IsBare
        <5> QED BY <5>1, KnownCalls DEF Line
      <4>4. /\ job[t].step = "look" => Known[job[t].op].look # "nothing"
            /\ job[t].step = "look_user" => job[t].op \in Validations
        BY <1>1 DEF Sound, Course
      <4> HIDE DEF j
      <4>5. job'[t] = j
        BY <4>1 DEF Sound, Typed
      <4>6. OneJob(t)
        BY <1>1, <4>1, <4>2, <4>3, <4>4, <4>5 DEF OneJob
      <4>7. Reports(t)
        BY <4>1, <4>2, <4>3, <4>5 DEF Reports
      <4> QED BY <4>6, <4>7
    <3> QED BY <3>1, <3>2
  <2> QED BY <1>2, <2>1, <2>2, QuietKeepsKept DEF p
<1> QED BY <1>3, <1>4

(* Only a creation of a user has two things to write.                       *)
LEMMA TasksOfOne ==
  ASSUME Sound, NEW t \in Threads, Busy(t), job[t].op # "create_user", NEW op \in Tasks(job[t].n)
  PROVE  op = job[t].op \/ job[t].op = "record" \/ job[t].op = "authenticate"
BY DEF Sound, Course, Tasks, Recorders

(* What a commit is told to have written stands from then on.               *)
LEMMA CommitStands ==
  ASSUME Sound, Owned, KeptInv, NEW t \in Threads, job[t].step = "commit", job[t].op # "purge",
         DatabaseStep(Home[t]), conn'[Home[t]].writes = <<>>, Spared(job[t].n),
         NEW op \in Tasks(job[t].n), op = job[t].op \/ job[t].op = "record"
  PROVE  Part(job[t].n, op, stored')
<1>1. PICK n : n = job[t].n
  OBVIOUS
<1>2. n \in DOMAIN calls /\ job[t].op \in Tasks(n) /\ Home[t] \in Procs /\ Busy(t)
  BY <1>1, CommitsTask, HomeIsProc DEF Busy
<1>3. CASE op = job[t].op
  <2>1. Part(n, op, stored) \/ Coming(Home[t], n, op)
    BY <1>1, <1>3 DEF KeptInv, OnTheWay
  <2>2. Part(n, op, stored') \/ \E i \in DOMAIN conn'[Home[t]].writes : Brings(conn'[Home[t]].writes[i], n, op)
    BY <1>1, <1>2, <2>1, StepKeepsPart DEF KeptInv
  <2> QED BY <1>1, <2>2
<1>4. CASE op # job[t].op
  <2>1. op = "create_user" /\ calls[n] = "create_user" /\ job[t].op = "record"
    <3>1. calls[n] \in {"record", "create_user", "authenticate"} /\ op \in {"record", calls[n]}
      BY <1>1, <1>2, <1>4 DEF Sound, Course, Tasks
    <3>2. op # "authenticate"
      BY KnownCalls DEF Tasks, Line
    <3> QED BY <1>4, <3>1, <3>2
  <2>2. Part(n, op, stored)
    BY <1>1, <1>2, <2>1 DEF KeptInv, HalfWay
  <2> QED BY <1>1, <1>2, <2>2, StepKeepsPart DEF KeptInv
<1> QED BY <1>3, <1>4

LEMMA CommitKept ==
  ASSUME Sound, Owned, Modes, KeptInv, NEW t \in Threads, Commit(t)
  PROVE  KeptInv'
<1> DEFINE p == Home[t]
<1>1. /\ p \in Procs /\ Busy(t) /\ job[t] \in Jobs /\ job[t].step \in {"commit", "settle"}
      /\ job[t].step = "settle" => job[t].op = "purge"
  BY HomeIsProc DEF Commit, Busy, Sound, Typed, Course
<1>2. UNCHANGED <<backend, lockedOut, calls, aged, together, cut>>
  BY DEF Commit
<1>3. /\ DatabaseStep(p)
      /\ ~(job[t].op = "purge" /\ job[t].step = "commit") => conn'[p].writes = <<>>
  <2>1. CASE UNCHANGED <<stored, conn>> /\ job[t].op = "purge" /\ job[t].step = "commit"
    BY <2>1 DEF DatabaseStep
  <2>2. CASE Committed(p) \/ (RolledBack(p) /\ conn[p].txn = "aborted")
    <3>1. Committed(p) \/ (RolledBack(p) /\ conn[p].writes = <<>>)
      BY <1>1, <2>2 DEF Modes
    <3> QED BY <1>1, <1>2, <3>1, CommittedIsStep
  <2> QED BY <1>1, <2>1, <2>2 DEF Commit
<1> HIDE DEF p
<1>4. CASE job[t].op = "purge" /\ job[t].step = "commit"
  <2>1. Goes(t, [job[t] EXCEPT !.step = "settle"])
    BY <1>4 DEF Commit
  <2>2. OneJob(t)
    BY <1>1, <1>4, <2>1, JobGoes
  <2>3. Reports(t)
    BY <1>1, <1>4, <2>1 DEF Goes, Reports, Sound, Typed, Jobs
  <2> QED BY <1>2, <1>3, <2>2, <2>3, QuietKeepsKept DEF p
<1>5. CASE job[t].op = "create_user"
  <2> DEFINE j == [job[t] EXCEPT !.op = "record", !.step = "look", !.seen = 0]
  <2>1. Goes(t, j)
    BY <1>5 DEF Commit
  <2>2. j \in Jobs /\ j.n = job[t].n /\ j.op = "record" /\ j.step = "look"
    BY <1>1 DEF Jobs, Ops, Steps
  <2>3. job' = [job EXCEPT ![t] = j] /\ job'[t] = j /\ acked' = acked
    BY <2>1 DEF Goes, Sound, Typed
  <2> HIDE DEF j
  <2>4. OneJob(t)
    BY <1>1, <1>5, <2>2, <2>3 DEF OneJob
  <2>5. Spared(job[t].n) => Part(job[t].n, "create_user", stored')
    <3>1. job[t].step = "commit" /\ "create_user" \in Tasks(job[t].n)
      BY <1>1, <1>5, CommitsTask
    <3> QED BY <1>3, <1>5, <3>1, CommitStands DEF p
  <2>6. Reports(t)
    BY <1>5, <2>2, <2>3, <2>5 DEF Reports
  <2> QED BY <1>2, <1>3, <2>4, <2>6, QuietKeepsKept DEF p
<1>6. CASE ~(job[t].op = "purge" /\ job[t].step = "commit") /\ job[t].op # "create_user"
  <2>1. PICK out \in {"nobody", "ok"} : Ends(t, out)
    BY <1>6 DEF Commit
  <2>2. /\ OneJob(t) /\ job'[t] = Idle
        /\ \A n \in acked' \ acked : n = job[t].n
    BY <2>1, EndsOneJob DEF Ends, Sound, Typed
  <2>3. IsWrite(job[t].n)
    <3>1. /\ job[t].n \in DOMAIN calls
          /\ \/ calls[job[t].n] = job[t].op
             \/ job[t].op = "record" /\ calls[job[t].n] \in {"create_user", "authenticate"}
          /\ job[t].step = "commit" => Known[job[t].op].do # "nothing"
      BY <1>1 DEF Sound, Course
    <3>2. Known["purge"].do # "nothing"
      BY KnownCalls DEF Line
    <3> QED BY <1>1, <3>1, <3>2 DEF IsWrite, Recorders
  <2>4. ASSUME Spared(job[t].n), NEW op \in Tasks(job[t].n) PROVE Part(job[t].n, op, stored')
    <3>1. CASE job[t].op = "purge"
      <4>1. calls[job[t].n] = "purge"
        BY <1>1, <3>1 DEF Sound, Course
      <4>2. Known["purge"].do = "purge"
        BY KnownCalls DEF Line
      <4> QED BY <2>4, <4>1, <4>2 DEF Tasks, Recorders
    <3>2. CASE job[t].op # "purge"
      <4>1. op = job[t].op \/ job[t].op = "record"
        <5>1. Known["authenticate"].do = "nothing" /\ job[t].step = "commit"
          BY <1>1, <3>2, KnownCalls DEF Line
        <5>2. job[t].op # "authenticate"
          BY <1>1, <5>1 DEF Sound, Course
        <5> QED BY <1>1, <1>6, <5>2, TasksOfOne
      <4> QED BY <1>1, <1>3, <2>4, <3>2, <4>1, CommitStands DEF p
    <3> QED BY <3>1, <3>2
  <2>5. Reports(t)
    BY <2>2, <2>3, <2>4 DEF Reports, Idle
  <2> QED BY <1>2, <1>3, <2>2, <2>5, QuietKeepsKept DEF p
<1> QED BY <1>4, <1>5, <1>6

-----------------------------------------------------------------------------
(* Statements.                                                              *)

LEMMA FailsReports ==
  ASSUME Sound, NEW t \in Threads, job[t].step = "write", Fails(t)
  PROVE  OneJob(t) /\ Reports(t) /\ acked' = acked
<1>1. Busy(t) /\ job[t] \in Jobs
  BY DEF Busy, Sound, Typed
<1>2. OneJob(t)
  BY <1>1, FailsOneJob
<1>3. CASE Ends(t, "raised")
  BY <1>2, <1>3 DEF Ends, Reports, Idle, Sound, Typed
<1>4. CASE Goes(t, [job[t] EXCEPT !.step = "settle"]) /\ job[t].op = "purge"
  BY <1>1, <1>2, <1>4 DEF Goes, Reports, Jobs, Sound, Typed
<1> QED BY <1>3, <1>4 DEF Fails

LEMMA FailsOp ==
  ASSUME Sound, NEW t \in Threads, job[t].step = "write", Fails(t)
  PROVE  job'[t].op \in {job[t].op, "none"}
<1>1. job[t] \in Jobs /\ job \in [Threads -> Jobs]
  BY DEF Sound, Typed
<1>2. CASE Ends(t, "raised")
  BY <1>1, <1>2 DEF Ends, Idle
<1>3. CASE Goes(t, [job[t] EXCEPT !.step = "settle"])
  BY <1>1, <1>3 DEF Goes, Jobs
<1> QED BY <1>2, <1>3 DEF Fails

LEMMA RefusedKept ==
  ASSUME Sound, Owned, KeptInv, NEW t \in Threads, job[t].step = "write", Fails(t),
         NEW p \in Procs, p = Home[t], NEW c \in Conns, Rewritten(p, c),
         c.writes = conn[p].writes,
         UNCHANGED <<backend, calls, together, aged, cut>>
  PROVE  KeptInv'
<1>1. OneJob(t) /\ Reports(t)
  BY FailsReports
<1>2. \A q \in Procs : conn'[q] = IF q = p THEN c ELSE conn[q]
  BY DEF Rewritten, Sound, Typed
<1>3. DatabaseStep(p)
  BY <1>2 DEF Rewritten, DatabaseStep
<1> QED BY <1>1, <1>3, QuietKeepsKept

(* What stands when nothing is stored or acknowledged: only what is under   *)
(* way needs a look.                                                        *)
LEMMA StoredKept ==
  ASSUME Sound, KeptInv, LaterOn, UNCHANGED <<backend, stored, acked>>, cut \subseteq cut'
  PROVE  /\ AckedKept'
         /\ \A n \in DOMAIN calls : \A op : Part(n, op, stored) => Part(n, op, stored)'
         /\ \A n : Spared(n)' => Spared(n)
<1>1. /\ \A n \in Nat : \A op, s : Part(n, op, s) => Part(n, op, s)'
      /\ \A n \in DOMAIN calls :
           n \in Nat /\ (\A op : op \in Tasks(n)' <=> op \in Tasks(n)) /\ (IsWrite(n) => IsWrite(n)')
  <2>1. DOMAIN calls = 1..Len(calls) /\ 1..Len(calls) \subseteq Nat
    BY DEF LaterOn
  <2> QED BY <2>1, PartLater, TasksLater
<1>2. \A n : Spared(n)' => Spared(n)
  BY DEF Spared
<1>3. ASSUME NEW n \in acked PROVE IsWrite(n)' /\ Stays(n, stored)'
  <2>1. IsWrite(n) /\ Stays(n, stored) /\ n \in DOMAIN calls
    BY <1>3 DEF KeptInv, AckedKept, IsWrite
  <2> QED BY <1>1, <1>2, <2>1 DEF Stays
<1>4. AckedKept'
  BY <1>3 DEF AckedKept
<1>5. \A n \in DOMAIN calls : \A op : Part(n, op, stored) => Part(n, op, stored)'
  BY <1>1
<1> QED BY <1>2, <1>4, <1>5

(* A statement that PostgreSQL refuses drops what others of the process have *)
(* pending, and they are noted as cut.                                      *)
LEMMA AbortKept ==
  ASSUME Sound, KeptInv, NEW t \in Threads, job[t].step = "write", Fails(t),
         NEW p \in Procs, p = Home[t], Rewritten(p, [Closed EXCEPT !.txn = "aborted"]),
         backend = "postgres", UNCHANGED <<backend, calls, together, aged>>,
         cut' = cut \cup {job[u].n : u \in {u \in Away(t) : Home[u] = p}}
  PROVE  KeptInv'
<1> USE DEF KeptInv
<1>1. OneJob(t) /\ Reports(t) /\ acked' = acked
  BY FailsReports
<1>2. \A q \in Procs : conn'[q] = IF q = p THEN [Closed EXCEPT !.txn = "aborted"] ELSE conn[q]
  BY DEF Rewritten, Sound, Typed
<1>3. /\ \A u \in Threads \ {t} : job'[u] = job[u]
      /\ \A u \in Threads : job'[u].step # "idle" =>
           /\ Busy(u) /\ job'[u].n = job[u].n
           /\ \/ job'[u].op = job[u].op
              \/ job'[u].op = "record" /\ job[u].op \in {"create_user", "authenticate"}
  BY <1>1, OneJobGoesOn DEF Sound
<1>4. LaterOn /\ UNCHANGED stored
  BY SameCalls DEF Rewritten
<1>5. /\ AckedKept'
      /\ \A n \in DOMAIN calls : \A op : Part(n, op, stored) => Part(n, op, stored)'
      /\ \A n : Spared(n)' => Spared(n)
  BY <1>1, <1>4, StoredKept
<1>6. OnTheWay'
  <2>1. ASSUME NEW u \in Threads, NEW n, NEW op, n = job'[u].n, op = job'[u].op,
               job'[u].step = "commit", op # "purge", Spared(n)'
        PROVE  \/ Part(n, op, stored)'
               \/ \E i \in DOMAIN conn'[Home[u]].writes : Brings(conn'[Home[u]].writes[i], n, op)
    <3>1. u # t /\ job'[u] = job[u] /\ Busy(u)
      BY <1>1, <1>3, <2>1 DEF Reports, Busy
    <3>2. Home[u] # p
      BY <2>1, <3>1 DEF Spared, Away
    <3>3. Part(n, op, stored) \/ Coming(Home[u], n, op)
      BY <1>5, <2>1, <3>1 DEF OnTheWay
    <3>4. n \in DOMAIN calls /\ conn'[Home[u]] = conn[Home[u]]
      BY <1>2, <2>1, <3>1, <3>2, CommitsTask, HomeIsProc
    <3> QED BY <1>5, <3>3, <3>4 DEF Coming
  <2> QED BY <2>1 DEF OnTheWay, Coming, Brings
<1>7. HalfWay'
  <2>1. ASSUME NEW u \in Threads, NEW n, n = job'[u].n, job'[u].step # "idle",
               job'[u].op = "record", calls[n] = "create_user", Spared(n)'
        PROVE  Part(n, "create_user", stored)'
    <3>1. n = job[u].n /\ Busy(u) /\ n \in DOMAIN calls
      BY <1>3, <2>1 DEF Sound, Course
    <3>2. job[u].op = "record"
      <4>1. CASE u # t
        BY <1>3, <2>1, <4>1
      <4>2. CASE u = t
        <5>1. job'[t].op \in {job[t].op, "none"}
          BY <4>2, FailsOp
        <5> QED BY <2>1, <4>2, <5>1
      <4> QED BY <4>1, <4>2
    <3>3. Part(n, "create_user", stored)
      BY <1>5, <2>1, <3>1, <3>2 DEF HalfWay
    <3> QED BY <1>5, <3>1, <3>3
  <2> QED BY <2>1 DEF HalfWay, Busy
<1>8. Later'
  BY <1>3 DEF Later, Busy, Related
<1>9. PurgeOld'
  BY <1>2 DEF PurgeOld, Closed
<1> QED BY <1>5, <1>6, <1>7, <1>8, <1>9

LEMMA StatementBrings ==
  ASSUME Sound, NEW t \in Threads, job[t].step = "write", job[t].op # "purge"
  PROVE  Brings(Statement(t), job[t].n, job[t].op)
<1> DEFINE op == job[t].op
           w == Statement(t)
<1>1. /\ op \in Ops /\ Known[op].do # "nothing" /\ w.do = Known[op].do /\ w.at = Known[op].at
      /\ w.at \in Keys => w.val = job[t].n
      /\ op = "record" => w.val = Entry(job[t].n, job[t].seen)
  BY StatementType DEF Sound, Course, Busy
<1>2. op # "purge"
  OBVIOUS
<1>3. Known[op].do = "append" /\ Known[op].at = "samples" => w.val = job[t].n
  BY DEF Statement
<1> HIDE DEF op, w
<1>4. Entry(job[t].n, job[t].seen).id = job[t].n
  BY DEF Entry
<1>5. w.at # "log" => w.val = job[t].n
  BY <1>1, <1>2, <1>3, KnownDeeds DEF Keys
<1>6. w.at = "log" => w.val.id = job[t].n
  <2>1. Known[op].at = "log" => op = "record"
    BY <1>1, <1>2, KnownDeeds DEF Keys
  <2> QED BY <1>1, <1>4, <2>1
<1>7. Brings(w, job[t].n, op)
  BY <1>1, <1>5, <1>6 DEF Brings
<1> QED BY <1>7 DEF op, w

(* A statement that missed its row needs no write: nothing is there, or what *)
(* is will be deleted by the same commit.                                   *)
LEMMA MissedStands ==
  ASSUME Sound, Owned, Modes, Later, backend = "postgres",
         NEW t \in Threads, job[t].step = "write", Misses(Home[t], Statement(t))
  PROVE  Part(job[t].n, job[t].op, stored) \/ Coming(Home[t], job[t].n, job[t].op)
<1> DEFINE op == job[t].op
           p == Home[t]
<1>1. PICK w : w = Statement(t)
  OBVIOUS
<1>2. /\ p \in Procs /\ op \in Ops /\ w \in Writes /\ w.do = Known[op].do /\ w.at = Known[op].at
      /\ w.do \in {"update", "delete"}
  BY <1>1, StatementType, HomeIsProc DEF Sound, Course, Busy, Misses
<1>3. /\ w.at \in Keys
      /\ \/ stored.rows[w.at] = 0
         \/ \E i \in DOMAIN conn[p].writes :
              /\ conn[p].writes[i].at = w.at
              /\ conn[p].writes[i].do = "delete" \/ conn[p].writes[i].val = 0
  BY <1>1, <1>2, MissedOnly
<1> HIDE DEF op, p
<1>4. CASE stored.rows[w.at] = 0
  <2>1. StandsIn(job[t].n, op, stored)
    BY <1>2, <1>4 DEF StandsIn
  <2>2. Known[op].at \notin {"samples", "log"}
    BY <1>2, <1>3 DEF Keys
  <2>3. Part(job[t].n, op, stored)
    BY <2>1, <2>2 DEF Part
  <2> QED BY <2>3 DEF op
<1>5. ASSUME NEW i \in DOMAIN conn[p].writes, conn[p].writes[i].at = w.at
      PROVE  conn[p].writes[i].val # 0
  <2>1. PICK u \in Threads : Owns(u, p, conn[p].writes[i])
    BY <1>2, <1>3, <1>5 DEF Owned
  <2>2. Busy(u) /\ job[u].n = conn[p].writes[i].val /\ job[u].n >= 2 /\ job[u].n \in Nat
    BY <2>1 DEF Owns, Busy, Later, Sound, Typed, Jobs
  <2> QED BY <2>2
<1>6. CASE \E i \in DOMAIN conn[p].writes : conn[p].writes[i].at = w.at /\ conn[p].writes[i].do = "delete"
  <2>1. PICK i \in DOMAIN conn[p].writes : conn[p].writes[i].at = w.at /\ conn[p].writes[i].do = "delete"
    BY <1>6
  <2>2. Brings(conn[p].writes[i], job[t].n, op)
    BY <1>2, <2>1 DEF Brings
  <2>3. Coming(p, job[t].n, op)
    BY <2>2 DEF Coming
  <2> QED BY <2>3 DEF op, p
<1> QED BY <1>3, <1>4, <1>5, <1>6

LEMMA AcceptedKept ==
  ASSUME Sound, Owned, Modes, KeptInv, NEW t \in Threads, job[t].step = "write",
         Goes(t, [job[t] EXCEPT !.step = "commit"]),
         NEW p \in Procs, p = Home[t], NEW c \in Conns, Rewritten(p, c),
         Accepts(p, Statement(t), c), UNCHANGED <<backend, calls, together, aged, cut>>
  PROVE  KeptInv'
<1> USE DEF KeptInv
<1>1. /\ job[t] \in Jobs /\ job'[t] = [job[t] EXCEPT !.step = "commit"]
      /\ \A u \in Threads \ {t} : job'[u] = job[u]
      /\ UNCHANGED <<acked, stored>>
  BY DEF Goes, Sound, Typed, Rewritten
<1>2. /\ job'[t].step = "commit" /\ job'[t].op = job[t].op /\ job'[t].n = job[t].n
      /\ Busy(t) /\ job[t].n \in DOMAIN calls
  BY <1>1 DEF Jobs, Busy, Sound, Course
<1>3. \A q \in Procs : conn'[q] = IF q = p THEN c ELSE conn[q]
  BY DEF Rewritten, Sound, Typed
<1>4. PICK w : w = Statement(t)
  OBVIOUS
<1>5. w \in Writes /\ (w.do = "purge" => w.val = aged)
  <2>1. /\ job[t].op \in Ops /\ w \in Writes
        /\ w.do = Known[job[t].op].do /\ w.at = Known[job[t].op].at
    BY <1>2, <1>4, StatementType DEF Sound, Course
  <2>2. w.do = "purge" => w.val = aged
    BY <1>4, <2>1 DEF Statement
  <2> QED BY <2>1, <2>2
<1>6. Grows(p, w, c)
  BY <1>4, <1>5, AcceptedGrows
<1>7. LaterOn
  BY SameCalls
<1>8. /\ AckedKept'
      /\ \A n \in DOMAIN calls : \A op : Part(n, op, stored) => Part(n, op, stored)'
      /\ \A n : Spared(n)' => Spared(n)
  BY <1>1, <1>7, StoredKept
<1>9. \A q \in Procs : \A i \in DOMAIN conn[q].writes :
        i \in DOMAIN conn'[q].writes /\ conn'[q].writes[i] = conn[q].writes[i]
  BY <1>3, <1>6 DEF Grows
<1>10. ASSUME NEW q \in Procs, NEW n, NEW op, Coming(q, n, op)
       PROVE  \E i \in DOMAIN conn'[q].writes : Brings(conn'[q].writes[i], n, op)
  BY <1>9, <1>10 DEF Coming
<1>11. OnTheWay'
  <2>1. ASSUME NEW u \in Threads, NEW n, NEW op, n = job'[u].n, op = job'[u].op,
               job'[u].step = "commit", op # "purge", Spared(n)'
        PROVE  \/ Part(n, op, stored)'
               \/ \E i \in DOMAIN conn'[Home[u]].writes : Brings(conn'[Home[u]].writes[i], n, op)
    <3>1. CASE u # t
      <4>1. job[u].step = "commit" /\ n = job[u].n /\ op = job[u].op /\ Spared(n)
        BY <1>1, <1>8, <2>1, <3>1
      <4>2. n \in DOMAIN calls
        BY <2>1, <4>1, CommitsTask
      <4>3. Part(n, op, stored) \/ Coming(Home[u], n, op)
        BY <2>1, <4>1 DEF OnTheWay
      <4> QED BY <1>8, <1>10, <4>2, <4>3, HomeIsProc
    <3>2. CASE u = t
      <4>1. n = job[t].n /\ op = job[t].op /\ n \in DOMAIN calls
        BY <1>2, <2>1, <3>2
      <4>2. CASE \E i \in DOMAIN c.writes : c.writes[i] = w
        <5>1. Brings(w, n, op)
          BY <1>4, <2>1, <4>1, StatementBrings
        <5> QED BY <1>3, <3>2, <4>2, <5>1
      <4>3. CASE backend = "postgres" /\ Misses(p, w)
        <5>1. Part(n, op, stored) \/ Coming(Home[t], n, op)
          BY <1>4, <4>1, <4>3, MissedStands
        <5> QED BY <1>8, <1>10, <3>2, <4>1, <5>1, HomeIsProc
      <4> QED BY <1>6, <4>2, <4>3 DEF Grows
    <3> QED BY <3>1, <3>2
  <2> QED BY <2>1 DEF OnTheWay, Coming, Brings
<1>12. HalfWay'
  <2>1. ASSUME NEW u \in Threads, NEW n, n = job'[u].n, job'[u].step # "idle",
               job'[u].op = "record", calls[n] = "create_user", Spared(n)'
        PROVE  Part(n, "create_user", stored)'
    <3>1. n = job[u].n /\ Busy(u) /\ job[u].op = "record" /\ n \in DOMAIN calls
      BY <1>1, <1>2, <2>1 DEF Busy, Sound, Course
    <3>2. Part(n, "create_user", stored)
      BY <1>8, <2>1, <3>1 DEF HalfWay
    <3> QED BY <1>8, <3>1, <3>2
  <2> QED BY <2>1 DEF HalfWay, Busy
<1>13. Later'
  <2>1. \A u \in Threads : job'[u].step # "idle" => Busy(u) /\ job'[u].n = job[u].n
    BY <1>1, <1>2 DEF Busy
  <2> QED BY <2>1 DEF Later, Busy, Related
<1>14. PurgeOld'
  <2>1. ASSUME NEW q \in Procs, NEW i \in DOMAIN conn'[q].writes, conn'[q].writes[i].do = "purge"
        PROVE  conn'[q].writes[i].val <= aged
    <3>1. \/ i \in DOMAIN conn[q].writes /\ conn'[q].writes[i] = conn[q].writes[i]
          \/ conn'[q].writes[i] = w
      BY <1>3, <1>6, <2>1 DEF Grows
    <3>2. aged \in Nat
      BY DEF Sound, Typed
    <3> QED BY <1>5, <2>1, <3>1, <3>2 DEF PurgeOld
  <2> QED BY <2>1 DEF PurgeOld
<1> QED BY <1>8, <1>11, <1>12, <1>13, <1>14

LEMMA WriteKept ==
  ASSUME Sound, Owned, Modes, KeptInv, NEW t \in Threads, Write(t)
  PROVE  KeptInv'
<1> DEFINE p == Home[t]
           w == Statement(t)
<1>1. p \in Procs /\ conn[p] \in Conns /\ w \in Writes /\ job[t].step = "write"
  BY HomeIsProc, StatementType DEF Write, Sound, Typed
<1>2. conn[p].writes \in Seq(Writes) /\ Append(conn[p].writes, w) \in Seq(Writes)
  BY <1>1, WritesGrow DEF Conns
<1> HIDE DEF p, w
<1>3. UNCHANGED <<backend, stored, calls, aged, together>>
  BY DEF Write
<1>4. CASE WriteSQLite(t)
  <2>1. UNCHANGED cut
    BY <1>4 DEF WriteSQLite
  <2>2. CASE conn' = [conn EXCEPT ![p].txn = IF @ = "none" THEN "began" ELSE @] /\ Fails(t)
    <3> DEFINE c == [conn[p] EXCEPT !.txn = IF @ = "none" THEN "began" ELSE @]
    <3>1. Rewritten(p, c)
      BY <1>3, <2>2 DEF Rewritten
    <3>2. c \in Conns /\ c.writes = conn[p].writes
      BY <1>1 DEF Conns
    <3> HIDE DEF c
    <3> QED BY <1>1, <1>3, <2>1, <2>2, <3>1, <3>2, RefusedKept DEF p
  <2>3. CASE /\ conn' = [conn EXCEPT ![p] = [Closed EXCEPT !.txn = "writing", !.writes = conn[p].writes]]
             /\ Fails(t)
    <3> DEFINE c == [Closed EXCEPT !.txn = "writing", !.writes = conn[p].writes]
    <3>1. Rewritten(p, c)
      BY <1>3, <2>3 DEF Rewritten
    <3>2. c \in Conns /\ c.writes = conn[p].writes
      BY <1>2 DEF Conns, Closed
    <3> HIDE DEF c
    <3> QED BY <1>1, <1>3, <2>1, <2>3, <3>1, <3>2, RefusedKept DEF p
  <2>4. CASE /\ conn' = [conn EXCEPT ![p] = [Closed EXCEPT !.txn = "writing",
                                                !.writes = Append(conn[p].writes, w)]]
             /\ Goes(t, [job[t] EXCEPT !.step = "commit"])
    <3> DEFINE c == [Closed EXCEPT !.txn = "writing", !.writes = Append(conn[p].writes, w)]
    <3>1. Rewritten(p, c)
      BY <1>3, <2>4 DEF Rewritten
    <3>2. c \in Conns /\ Accepts(p, w, c)
      BY <1>2 DEF Conns, Closed, Accepts
    <3> HIDE DEF c
    <3> QED BY <1>1, <1>3, <2>1, <2>4, <3>1, <3>2, AcceptedKept DEF p, w
  <2> QED BY <1>4, <2>2, <2>3, <2>4 DEF WriteSQLite, p, w
<1>5. CASE WritePostgres(t)
  <2>1. CASE Fails(t) /\ UNCHANGED <<conn, cut>>
    <3>1. Rewritten(p, conn[p])
      BY <1>3, <2>1 DEF Rewritten, Sound, Typed
    <3> QED BY <1>1, <1>3, <2>1, <3>1, RefusedKept DEF p
  <2>2. CASE /\ conn' = [conn EXCEPT ![p] = [Closed EXCEPT !.txn = "aborted"]]
             /\ cut' = cut \cup {job[u].n : u \in {u \in Away(t) : Home[u] = p}}
             /\ Fails(t)
    <3>1. Rewritten(p, [Closed EXCEPT !.txn = "aborted"]) /\ backend = "postgres"
      BY <1>3, <1>5, <2>2 DEF Rewritten, WritePostgres
    <3> QED BY <1>1, <1>3, <2>2, <3>1, AbortKept DEF p
  <2>3. CASE /\ conn' = [conn EXCEPT ![p].txn = "open",
                            ![p].writes = IF Misses(p, w) THEN @ ELSE Append(@, w)]
             /\ Goes(t, [job[t] EXCEPT !.step = "commit"]) /\ UNCHANGED cut
    <3> DEFINE c == [conn[p] EXCEPT !.txn = "open",
                                  !.writes = IF Misses(p, w) THEN @ ELSE Append(@, w)]
    <3>1. Rewritten(p, c)
      BY <1>1, <1>3, <2>3 DEF Rewritten, Sound, Typed
    <3>2. c \in Conns /\ Accepts(p, w, c)
      BY <1>1, <1>2, <1>5 DEF Conns, Accepts, WritePostgres
    <3> HIDE DEF c
    <3> QED BY <1>1, <1>3, <2>3, <3>1, <3>2, AcceptedKept DEF p, w
  <2> QED BY <1>5, <2>1, <2>2, <2>3 DEF WritePostgres, p, w
<1> QED BY <1>4, <1>5 DEF Write

-----------------------------------------------------------------------------
(* Calls, crashes and time.                                                 *)

LEMMA CallKept ==
  ASSUME Sound, KeptInv, NEW t \in Threads, NEW op \in mix, Call(t, op)
  PROVE  KeptInv'
<1> USE DEF KeptInv
<1>1. op \in Ops /\ calls \in Seq(Ops) /\ calls' = Append(calls, op) /\ ~Busy(t) /\ Len(calls) # 0
  BY DEF Sound, Typed, Call
<1>2. PICK n : n = Len(calls) + 1
  OBVIOUS
<1>3. /\ \A m \in DOMAIN calls : m \in DOMAIN calls' /\ calls'[m] = calls[m]
      /\ Len(calls) \in Nat /\ Len(calls') = n /\ n \in Nat /\ calls'[n] = op
      /\ calls' \in Seq(Ops) /\ DOMAIN calls = 1..Len(calls) /\ DOMAIN calls' = 1..n /\ n >= 2
  BY <1>1, <1>2, CallsGrow, AppendProperties
<1>4. /\ UNCHANGED <<backend, stored, conn, aged, acked, cut>>
      /\ together' = together \cup {{n, job[u].n} : u \in {u \in Away(t) : Related(op, calls[job[u].n])}}
      /\ job'[t].op = op /\ job'[t].n = n
      /\ job'[t].step = IF Known[op].look = "nothing" THEN "write" ELSE "look"
  BY <1>2 DEF Call
<1>5. ASSUME NEW u \in Threads \ {t}
      PROVE  job'[u].op = job[u].op /\ job'[u].n = job[u].n /\ job'[u].step = job[u].step
  <2>1. job[u] \in Jobs /\ job'[u] = [job[u] EXCEPT !.gone = @ /\ op \notin Fresh]
    BY DEF Call, Sound, Typed
  <2> QED BY <2>1 DEF Jobs
<1>6. LaterOn
  BY <1>2, <1>3, <1>4 DEF LaterOn, Sound, Typed
<1>7. /\ AckedKept'
      /\ \A m \in DOMAIN calls : \A o : Part(m, o, stored) => Part(m, o, stored)'
      /\ \A m : Spared(m)' => Spared(m)
  BY <1>4, <1>6, StoredKept
<1>8. OnTheWay'
  <2>1. ASSUME NEW u \in Threads, NEW m, NEW o, m = job'[u].n, o = job'[u].op,
               job'[u].step = "commit", o # "purge", Spared(m)'
        PROVE  Part(m, o, stored)' \/ \E i \in DOMAIN conn[Home[u]].writes : Brings(conn[Home[u]].writes[i], m, o)
    <3>1. u # t
      BY <1>4, <2>1
    <3>2. m = job[u].n /\ o = job[u].op /\ job[u].step = "commit" /\ Spared(m)
      BY <1>5, <1>7, <2>1, <3>1
    <3>3. m \in DOMAIN calls
      BY <2>1, <3>2, CommitsTask
    <3> QED BY <1>7, <2>1, <3>2, <3>3 DEF OnTheWay, Coming
  <2> QED BY <1>4, <2>1 DEF OnTheWay, Coming, Brings
<1>9. HalfWay'
  <2>1. ASSUME NEW u \in Threads, NEW m, m = job'[u].n, job'[u].step # "idle",
               job'[u].op = "record", calls'[m] = "create_user", Spared(m)'
        PROVE  Part(m, "create_user", stored)'
    <3>1. u # t
      BY <1>3, <1>4, <2>1
    <3>2. m = job[u].n /\ Busy(u) /\ job[u].op = "record" /\ m \in DOMAIN calls
      BY <1>5, <2>1, <3>1 DEF Busy, Sound, Course
    <3>3. calls[m] = "create_user" /\ Spared(m)
      BY <1>3, <1>7, <2>1, <3>2
    <3>4. Part(m, "create_user", stored)
      BY <3>2, <3>3 DEF HalfWay
    <3> QED BY <1>7, <3>2, <3>4
  <2> QED BY <2>1 DEF HalfWay, Busy
<1>10. Later'
  <2>1. ASSUME NEW u \in Threads, job'[u].step # "idle"
        PROVE  /\ job'[u].n >= 2
               /\ \A m \in DOMAIN calls' :
                    m > job'[u].n /\ Related(calls'[m], calls'[job'[u].n]) => {m, job'[u].n} \in together'
    <3>1. CASE u = t
      BY <1>3, <1>4, <3>1
    <3>2. CASE u # t
      <4>1. /\ Busy(u) /\ job'[u].n = job[u].n /\ job[u].n \in DOMAIN calls
            /\ calls'[job[u].n] = calls[job[u].n] /\ u \in Away(t)
        BY <1>3, <1>5, <2>1, <3>2 DEF Busy, Sound, Course, Away
      <4>2. ASSUME NEW m \in DOMAIN calls', m > job[u].n, Related(calls'[m], calls[job[u].n])
            PROVE  {m, job[u].n} \in together'
        <5>1. CASE m \in DOMAIN calls
          BY <1>3, <1>4, <4>1, <4>2, <5>1 DEF Later
        <5>2. CASE m \notin DOMAIN calls
          <6>1. m = n
            BY <1>2, <1>3, <5>2
          <6> QED BY <1>3, <1>4, <4>1, <4>2, <6>1
        <5> QED BY <5>1, <5>2
      <4> QED BY <4>1, <4>2 DEF Later
    <3> QED BY <3>1, <3>2
  <2> QED BY <2>1 DEF Later, Busy, Related
<1>11. PurgeOld'
  BY <1>4 DEF PurgeOld
<1> QED BY <1>7, <1>8, <1>9, <1>10, <1>11

\* A step that stores and acknowledges nothing and lets calls be, but may end some.
LEMMA EndingKept ==
  ASSUME Sound, KeptInv, UNCHANGED <<backend, stored, calls, together, acked, cut>>,
         aged' \in Nat, aged <= aged',
         \A u \in Threads : job'[u].step # "idle" =>
           job'[u] = job[u] /\ Busy(u) /\ conn'[Home[u]].writes = conn[Home[u]].writes,
         \A q \in Procs : conn'[q].writes \in {conn[q].writes, <<>>}
  PROVE  KeptInv'
<1> USE DEF KeptInv
<1>1. LaterOn
  BY DEF LaterOn, Sound, Typed
<1>2. /\ AckedKept'
      /\ \A n \in DOMAIN calls : \A op : Part(n, op, stored) => Part(n, op, stored)'
      /\ \A n : Spared(n)' => Spared(n)
  BY <1>1, StoredKept
<1>3. OnTheWay'
  <2>1. ASSUME NEW u \in Threads, NEW n, NEW op, n = job'[u].n, op = job'[u].op,
               job'[u].step = "commit", op # "purge", Spared(n)'
        PROVE  \/ Part(n, op, stored)'
               \/ \E i \in DOMAIN conn'[Home[u]].writes : Brings(conn'[Home[u]].writes[i], n, op)
    <3>1. job'[u] = job[u] /\ conn'[Home[u]].writes = conn[Home[u]].writes /\ Spared(n)
      BY <1>2, <2>1
    <3>2. n \in DOMAIN calls
      BY <2>1, <3>1, CommitsTask
    <3> QED BY <1>2, <2>1, <3>1, <3>2 DEF OnTheWay, Coming
  <2> QED BY <2>1 DEF OnTheWay, Coming, Brings
<1>4. HalfWay'
  <2>1. ASSUME NEW u \in Threads, NEW n, n = job'[u].n, job'[u].step # "idle",
               job'[u].op = "record", calls[n] = "create_user", Spared(n)'
        PROVE  Part(n, "create_user", stored)'
    <3>1. job'[u] = job[u] /\ Busy(u) /\ Spared(n) /\ n \in DOMAIN calls
      BY <1>2, <2>1 DEF Sound, Course
    <3> QED BY <1>2, <2>1, <3>1 DEF HalfWay
  <2> QED BY <2>1 DEF HalfWay, Busy
<1>5. Later'
  BY DEF Later, Busy, Related
<1>6. PurgeOld'
  <2>1. ASSUME NEW q \in Procs, NEW i \in DOMAIN conn'[q].writes, conn'[q].writes[i].do = "purge"
        PROVE  conn'[q].writes[i].val <= aged'
    <3>1. i \in DOMAIN conn[q].writes /\ conn'[q].writes[i] = conn[q].writes[i]
      BY <2>1
    <3>2. conn[q].writes[i].val \in Nat /\ conn[q].writes[i].val <= aged
      BY <2>1, <3>1, PendingType DEF PurgeOld, Writes
    <3> QED BY <3>1, <3>2 DEF Sound, Typed
  <2> QED BY <2>1 DEF PurgeOld
<1> QED BY <1>2, <1>3, <1>4, <1>5, <1>6

LEMMA CrashKept ==
  ASSUME Sound, KeptInv, NEW p \in Procs, Crash(p)
  PROVE  KeptInv'
<1>1. \A u \in Threads : IF Home[u] = p THEN job'[u] = Idle ELSE job'[u] = job[u]
  BY DEF Crash
<1>2. \A q \in Procs : conn'[q] = IF q = p THEN Closed ELSE conn[q]
  BY DEF Crash, Sound, Typed
<1>3. UNCHANGED <<backend, stored, calls, together, acked, cut, aged>>
  BY DEF Crash
<1>4. \A u \in Threads : job'[u].step # "idle" =>
        job'[u] = job[u] /\ Busy(u) /\ conn'[Home[u]].writes = conn[Home[u]].writes
  BY <1>1, <1>2, HomeIsProc DEF Idle, Busy
<1>5. \A q \in Procs : conn'[q].writes \in {conn[q].writes, <<>>}
  BY <1>2 DEF Closed
<1>6. aged' \in Nat /\ aged <= aged'
  BY <1>3 DEF Sound, Typed
<1> QED BY <1>3, <1>4, <1>5, <1>6, EndingKept

LEMMA AgeKept ==
  ASSUME Sound, KeptInv, Age \/ UNCHANGED vars
  PROVE  KeptInv'
<1>1. UNCHANGED <<backend, stored, conn, job, calls, together, acked, cut>>
  BY DEF Age, vars, ghosts
<1>2. aged' \in Nat /\ aged <= aged'
  <2>1. aged \in Nat /\ Len(calls) \in Nat
    BY DEF Sound, Typed
  <2> QED BY <2>1 DEF Age, vars
<1> QED BY <1>1, <1>2, EndingKept DEF Busy

-----------------------------------------------------------------------------
(* The theorem.                                                             *)

LEMMA KeptInit == ASSUME Init PROVE KeptInv
<1>1. /\ \A t \in Threads : job[t] = Idle /\ ~Busy(t) /\ job[t].step = "idle"
      /\ \A p \in Procs : conn[p].writes = <<>>
      /\ acked = {}
  BY DEF Init, Idle, Busy, Closed
<1> QED BY <1>1 DEF KeptInv, AckedKept, OnTheWay, HalfWay, Later, PurgeOld

LEMMA KeptNext == ASSUME Sound, RevokedInv, KeptInv, [Next]_vars PROVE KeptInv'
<1>1. Owned /\ Modes
  BY DEF RevokedInv
<1>2. CASE Age \/ UNCHANGED vars
  BY <1>2, AgeKept
<1> QED BY <1>1, <1>2, CallKept, LookKept, LeaveKept, WriteKept, CommitKept, CrashKept DEF Next

LEMMA KeptIsStored == ASSUME Sound, KeptInv PROVE AcknowledgedIsStored
<1> SUFFICES ASSUME NEW n \in acked, Spared(n) PROVE Kept(n)
  BY DEF AcknowledgedIsStored, Spared, Sound, Typed
<1>1. /\ n \in DOMAIN calls /\ (calls[n] \in Recorders \/ Known[calls[n]].do # "nothing")
      /\ \A op \in Tasks(n) : Part(n, op, stored)
  BY DEF KeptInv, AckedKept, Stays, IsWrite
<1>2. PICK op \in Ops : op = calls[n]
  BY <1>1 DEF Sound, Typed
<1>3. op \in Recorders => Entered(n)
  <2> SUFFICES ASSUME op \in Recorders PROVE Entered(n)
    OBVIOUS
  <2>1. "record" \in Tasks(n) /\ Known["record"].at = "log"
    BY <1>2, KnownCalls DEF Tasks, Line, Ops
  <2> QED BY <1>1, <2>1 DEF Part, Entered
<1>4. Known[op].do \notin {"nothing", "purge"} => Part(n, op, stored)
  BY <1>1, <1>2 DEF Tasks
<1>5. Known[op].at = "samples" => n <= aged \/ n \in stored.samples
  <2> SUFFICES ASSUME Known[op].at = "samples" PROVE n <= aged \/ n \in stored.samples
    OBVIOUS
  <2>1. op \notin Recorders
    BY KnownCalls DEF Recorders, Line
  <2>2. Known[op].do \notin {"nothing", "purge"}
    BY <1>1, <1>2, <2>1, KnownDeeds DEF Keys
  <2> QED BY <1>4, <2>2 DEF Part
<1>6. Known[op].at \in Keys /\ Known[op].do # "nothing" => Stands(n, Known[op])
  <2> SUFFICES ASSUME Known[op].at \in Keys, Known[op].do # "nothing" PROVE Stands(n, Known[op])
    OBVIOUS
  <2>1. Known[op].do # "purge"
    BY <1>2, KnownDeeds DEF Keys
  <2>2. StandsIn(n, op, stored)
    BY <1>4, <2>1 DEF Part
  <2> QED BY <2>2 DEF StandsIn, Stands, Deletes
<1> QED BY <1>2, <1>3, <1>5, <1>6 DEF Kept

(* AcknowledgedIsStored, for every number of threads, processes, calls and   *)
(* crashes: what a caller was told is written is stored or written over      *)
(* since, unless a refused statement of another thread ended the transaction *)
(* on PostgreSQL (connection.py cursor(), the repositories' commits).        *)
THEOREM AcknowledgedWritesStay == Spec => []AcknowledgedIsStored
<1>1. Init => RevokedInv /\ KeptInv
  BY RevokedInit, KeptInit
<1>2. Sound /\ RevokedInv /\ KeptInv /\ [Next]_vars => RevokedInv' /\ KeptInv'
  BY RevokedNext, KeptNext
<1>3. Sound /\ KeptInv => AcknowledgedIsStored
  BY KeptIsStored
<1> QED BY <1>1, <1>2, <1>3, SoundAlways, PTL DEF Spec

-----------------------------------------------------------------------------
(* Backups, which share the backend at most with the rest of this module, for *)
(* any number of pages or tables, copies kept, commits, backups and restores.  *)

CONSTANTS Parts, MaxBackups, MaxCommits, MaxJobs, MaxRestores
VARIABLES engine, main, wal, filled, running, moved, files, copying, number, commits, jobs,
          restores, newest, exact, expected

Copies == INSTANCE Backups WITH job <- copying, serial <- number

CopiesAssumption == Parts \in Nat \ {0} /\ MaxBackups \in Nat

CopyContents == [Copies!Pages -> Nat]
CopyFiles == [name : Nat, mtime : Nat, whole : BOOLEAN, content : CopyContents]
CopyJobs == [step : {"idle", "copy", "compress", "write"}, name : Nat,
             reads : {"main", "old", "other"}, file : CopyContents, copied : Nat,
             content : CopyContents, of : CopyContents, exact : BOOLEAN]

CopiesType ==
  /\ main \in CopyContents /\ wal \in CopyContents /\ newest \in CopyContents
  /\ running \in BOOLEAN /\ exact \in BOOLEAN
  /\ files \in SUBSET CopyFiles /\ IsFiniteSet(files)
  /\ copying \in [Copies!Workers -> CopyJobs]
  /\ number \in Nat /\ commits \in Nat
  /\ copying["timer"].step # "idle" => running
  /\ ~Copies!Sqlite => wal = Copies!Nothing

(* Of a copy that is exact, what has been read is as the database was, and   *)
(* so is what it has yet to read; a dump is of one moment.                   *)
CopySource(j) == IF j.reads = "main" THEN main ELSE j.file
TrueSoFar(j) ==
  /\ Copies!Sqlite /\ j.step = "copy" /\ j.exact =>
       /\ CopySource(j) = j.of /\ j.copied < Parts
       /\ \A p \in Copies!Pages : p <= j.copied => j.content[p] = j.of[p]
  /\ j.step \in {"compress", "write"} /\ (j.exact \/ ~Copies!Sqlite) => j.content = j.of

(* The file of a backup that is not finished is there, or gave way to those  *)
(* begun later, unless none is kept.                                         *)
SomeKept == ~Copies!Sqlite \/ MaxBackups # 0
IsThere(j) == j.step = "write" /\ SomeKept =>
  \E f \in files : f.name = j.name \/ (Copies!Sqlite /\ j.name < f.name)

(* The copy written last is of the backup finished last, if that was exact.  *)
Stamped == \A f \in files : f.mtime <= number
LastIsNewest == exact \/ ~Copies!Sqlite =>
  \A f \in files : f.whole /\ (\A g \in files : g.mtime <= f.mtime) => f.content = newest

(* What a restore promised, nobody has written to.                           *)
Promised == \A was \in expected : main = was /\ wal = Copies!Nothing

CopiesInv ==
  /\ CopiesType /\ Stamped /\ LastIsNewest /\ Promised
  /\ \A w \in Copies!Workers : TrueSoFar(copying[w]) /\ IsThere(copying[w])

-----------------------------------------------------------------------------
LEMMA ContentIs ==
  ASSUME CopiesType
  PROVE  Copies!Content \in CopyContents /\ (wal = Copies!Nothing => Copies!Content = main)
<1>1. Copies!Content = [p \in Copies!Pages |-> IF wal[p] # 0 THEN wal[p] ELSE main[p]]
  BY DEF Copies!Content
<1>2. ASSUME wal = Copies!Nothing PROVE Copies!Content = main
  <2>1. \A p \in Copies!Pages : wal[p] = 0
    BY <1>2 DEF Copies!Nothing
  <2>2. main = [p \in Copies!Pages |-> main[p]]
    BY DEF CopiesType, CopyContents
  <2> QED BY <1>1, <2>1, <2>2
<1> QED BY <1>1, <1>2 DEF CopiesType, CopyContents

LEMMA NothingIs == Copies!Nothing \in CopyContents
BY DEF Copies!Nothing, CopyContents

(* Whoever leaves the database whole as it was.                              *)
LEMMA CloseKeeps ==
  ASSUME CopiesType, NEW stale, Copies!LastClose(stale)
  PROVE  /\ main' \in CopyContents /\ wal' \in CopyContents
         /\ (wal = Copies!Nothing => main' = main /\ wal' = Copies!Nothing)
BY ContentIs, NothingIs DEF Copies!LastClose, Copies!database, CopiesType

LEMMA CommandKeeps ==
  ASSUME CopiesType, Copies!CommandCloses
  PROVE  /\ main' \in CopyContents /\ wal' \in CopyContents
         /\ (wal = Copies!Nothing => main' = main /\ wal' = Copies!Nothing)
         /\ (running => main' = main)
BY CloseKeeps DEF Copies!CommandCloses, Copies!database, CopiesType

LEMMA CopiesCount == ASSUME NEW S PROVE Copies!Cardinality(S) = Cardinality(S)
BY DEF Copies!Cardinality, Cardinality

(* Rotation keeps the copy with the last name.                               *)
LEMMA KeptHasLast ==
  ASSUME CopiesAssumption, NEW all \in SUBSET CopyFiles, IsFiniteSet(all), NEW f \in all
  PROVE  /\ Copies!Kept(all) \in SUBSET all /\ IsFiniteSet(Copies!Kept(all))
         /\ SomeKept => \E m \in Copies!Kept(all) : f.name <= m.name
         /\ ~Copies!Sqlite => Copies!Kept(all) = all
<1> DEFINE Above(g) == {h \in all : g.name < h.name}
           N == {Cardinality(Above(g)) : g \in {h \in all : f.name <= h.name}}
<1>1. \A g \in all : g.name \in Nat
  BY DEF CopyFiles
<1>2. \A g \in all : Above(g) \in SUBSET all /\ IsFiniteSet(Above(g)) /\ Cardinality(Above(g)) \in Nat
  BY FS_Subset, FS_CardinalityType
<1>3. N \in SUBSET Nat /\ N # {}
  <2>1. f.name <= f.name
    BY <1>1
  <2>2. Cardinality(Above(f)) \in N
    BY <2>1
  <2>3. \A g \in all : Cardinality(Above(g)) \in Nat
    BY <1>2
  <2> HIDE DEF Above
  <2> QED BY <2>2, <2>3
<1>4. PICK n \in N : \A k \in N : n <= k
  <2> HIDE DEF N
  <2> QED BY <1>3, LeastNumber
<1>5. PICK m \in all : f.name <= m.name /\ n = Cardinality(Above(m))
  BY <1>4
<1>6. Above(m) = {}
  <2> SUFFICES ASSUME NEW g \in Above(m) PROVE FALSE
    OBVIOUS
  <2>1. g \in all /\ m.name < g.name /\ f.name <= g.name
    BY <1>1, <1>5
  <2>2. Above(g) \in SUBSET Above(m) /\ g \notin Above(g)
    BY <1>1, <2>1
  <2>3. Cardinality(Above(g)) < Cardinality(Above(m))
    <3> HIDE DEF Above
    <3> QED BY <1>2, <1>5, <2>1, <2>2, FS_Subset
  <2>4. Cardinality(Above(g)) \in N
    BY <2>1
  <2> HIDE DEF Above, N
  <2> QED BY <1>2, <1>4, <1>5, <2>1, <2>3, <2>4
<1>7. SomeKept => m \in Copies!Kept(all)
  <2>1. Cardinality(Above(m)) = 0 /\ (SomeKept => ~Copies!Sqlite \/ 0 < MaxBackups)
    BY <1>6, FS_EmptySet DEF CopiesAssumption, SomeKept
  <2> QED BY <2>1, CopiesCount DEF Copies!Kept
<1>8. Copies!Kept(all) \in SUBSET all
  BY DEF Copies!Kept
<1> QED BY <1>5, <1>7, <1>8, FS_Subset DEF Copies!Kept

-----------------------------------------------------------------------------
(* Actions that leave the copies and the jobs alone.                        *)
LEMMA QuietKeeps ==
  ASSUME CopiesInv, UNCHANGED <<engine, files, copying, number, newest, exact>>,
         main' \in CopyContents, wal' \in CopyContents, running' \in BOOLEAN, commits' \in Nat,
         running => running', ~Copies!Sqlite => wal' = Copies!Nothing,
         Copies!Sqlite => \A w \in Copies!Workers :
           copying[w].step = "copy" /\ copying[w].reads = "main" => main' = main,
         Promised'
  PROVE  CopiesInv'
<1>1. CopiesType' /\ Stamped' /\ LastIsNewest'
  BY DEF CopiesInv, CopiesType, Stamped, LastIsNewest, Copies!Sqlite
<1>2. ASSUME NEW w \in Copies!Workers PROVE TrueSoFar(copying[w])' /\ IsThere(copying[w])'
  BY DEF CopiesInv, TrueSoFar, IsThere, SomeKept, CopySource, Copies!Sqlite
<1> QED BY <1>1, <1>2 DEF CopiesInv

LEMMA CommitKeeps == ASSUME CopiesInv, Copies!Commit PROVE CopiesInv'
<1>1. PICK written \in SUBSET Copies!Pages \ {{}} :
        LET new == [p \in Copies!Pages |-> IF p \in written THEN commits' ELSE 0]
            over(old) == [p \in Copies!Pages |-> IF new[p] # 0 THEN new[p] ELSE old[p]]
        IN IF Copies!Sqlite
           THEN wal' = over(wal) /\ filled' = filled \ written /\ UNCHANGED main
           ELSE main' = over(main) /\ UNCHANGED <<wal, filled>>
  BY DEF Copies!Commit
<1>2. commits' \in Nat /\ main' \in CopyContents /\ wal' \in CopyContents
  BY <1>1 DEF Copies!Commit, CopiesInv, CopiesType, CopyContents
<1>3. /\ UNCHANGED <<engine, files, copying, number, newest, exact, running>> /\ expected' = {}
      /\ (Copies!Sqlite => main' = main) /\ (~Copies!Sqlite => wal' = wal)
  BY <1>1 DEF Copies!Commit
<1>4. Promised'
  BY <1>3 DEF Promised
<1> QED BY <1>2, <1>3, <1>4, QuietKeeps DEF CopiesInv, CopiesType

LEMMA RewindKeeps == ASSUME CopiesInv, Copies!Rewind PROVE CopiesInv'
<1>1. /\ UNCHANGED <<engine, files, copying, number, newest, exact, running, main, commits, expected>>
      /\ wal' = Copies!Nothing
  BY DEF Copies!Rewind, Copies!bounds, Copies!ghosts
<1> QED BY <1>1, NothingIs, QuietKeeps DEF CopiesInv, CopiesType, Promised

LEMMA OpenKeeps == ASSUME CopiesInv, Copies!Open PROVE CopiesInv'
<1>1. /\ UNCHANGED <<engine, files, copying, number, newest, exact, main, wal, commits, expected>>
      /\ running' = TRUE
  BY DEF Copies!Open, Copies!database, Copies!bounds, Copies!ghosts
<1> QED BY <1>1, QuietKeeps DEF CopiesInv, CopiesType, Promised

LEMMA NewDatabaseKeeps == ASSUME CopiesInv, Copies!NewDatabase PROVE CopiesInv'
<1>1. /\ UNCHANGED <<engine, files, copying, number, newest, exact, running, commits>>
      /\ main' = Copies!Nothing /\ wal' = Copies!Nothing /\ expected' = {}
      /\ \A w \in Copies!Workers : copying[w].step = "idle"
  BY DEF Copies!NewDatabase, Copies!bounds, CopiesInv, CopiesType, Copies!Workers
<1> QED BY <1>1, NothingIs, QuietKeeps DEF CopiesInv, CopiesType, Promised

LEMMA CheckpointKeeps ==
  ASSUME CopiesInv, NEW p \in Copies!Pages, Copies!Checkpoint(p)
  PROVE  CopiesInv'
<1>1. /\ UNCHANGED <<engine, wal, running, moved, files, number, commits, newest, exact, expected>>
      /\ wal[p] # 0 /\ main' = (IF moved THEN main ELSE [main EXCEPT ![p] = wal[p]])
      /\ copying' = [w \in Copies!Workers |->
           IF copying[w].step # "copy" \/ copying[w].reads # (IF moved THEN "old" ELSE "main") THEN copying[w]
           ELSE [copying[w] EXCEPT !.exact = FALSE, !.file = IF moved THEN [@ EXCEPT ![p] = wal[p]] ELSE @]]
  BY DEF Copies!Checkpoint, Copies!bounds, Copies!ghosts
<1>2. wal # Copies!Nothing /\ Copies!Sqlite /\ expected = {}
  BY <1>1 DEF Copies!Nothing, CopiesInv, CopiesType, Promised
<1>3. main' \in CopyContents
  BY <1>1 DEF CopiesInv, CopiesType, CopyContents
<1>4. ASSUME NEW w \in Copies!Workers
      PROVE  /\ copying'[w] \in CopyJobs /\ copying'[w].step = copying[w].step
             /\ copying'[w].name = copying[w].name
             /\ TrueSoFar(copying[w])'
  <2>1. copying[w] \in CopyJobs
    BY DEF CopiesInv, CopiesType
  <2>2. CASE copying[w].step # "copy" \/ copying[w].reads # (IF moved THEN "old" ELSE "main")
    <3>1. copying'[w] = copying[w]
      BY <1>1, <2>2
    <3>2. copying[w].step = "copy" => main' = main \/ copying[w].reads # "main"
      BY <1>1, <2>2
    <3>3. copying[w].step = "copy" => CopySource(copying[w])' = CopySource(copying[w])
      BY <3>1, <3>2 DEF CopySource
    <3>4. TrueSoFar(copying[w])' <=> TrueSoFar(copying[w])
      BY <1>1, <3>1, <3>3 DEF TrueSoFar, Copies!Sqlite
    <3> QED BY <2>1, <3>1, <3>4 DEF CopiesInv
  <2>3. CASE copying[w].step = "copy" /\ copying[w].reads = (IF moved THEN "old" ELSE "main")
    <3>1. copying'[w] = [copying[w] EXCEPT !.exact = FALSE, !.file = IF moved THEN [@ EXCEPT ![p] = wal[p]] ELSE @]
      BY <1>1, <2>3
    <3>2. (IF moved THEN [copying[w].file EXCEPT ![p] = wal[p]] ELSE copying[w].file) \in CopyContents
      BY <2>1 DEF CopiesInv, CopiesType, CopyContents, CopyJobs
    <3> QED BY <2>1, <2>3, <3>1, <3>2 DEF CopyJobs, TrueSoFar
  <2> QED BY <2>2, <2>3
<1>5. copying' \in [Copies!Workers -> CopyJobs]
  BY <1>1, <1>4
<1>6. CopiesType'
  BY <1>1, <1>3, <1>4, <1>5 DEF CopiesInv, CopiesType, Copies!Workers, Copies!Sqlite
<1>7. Stamped' /\ LastIsNewest' /\ Promised'
  BY <1>1, <1>2 DEF CopiesInv, Stamped, LastIsNewest, Promised, Copies!Sqlite
<1>8. ASSUME NEW w \in Copies!Workers PROVE IsThere(copying[w])'
  BY <1>1, <1>4 DEF CopiesInv, IsThere, SomeKept, Copies!Sqlite
<1> QED BY <1>4, <1>6, <1>7, <1>8 DEF CopiesInv

(* A job that ends, whatever becomes of its process.                        *)
LEMMA NoJobIs ==
  /\ Copies!NoJob \in CopyJobs /\ Copies!NoJob.step = "idle"
  /\ TrueSoFar(Copies!NoJob) /\ IsThere(Copies!NoJob)
BY NothingIs DEF Copies!NoJob, CopyJobs, TrueSoFar, IsThere

LEMMA JobEnds ==
  ASSUME CopiesInv, NEW w \in Copies!Workers, copying' = [copying EXCEPT ![w] = Copies!NoJob],
         UNCHANGED <<engine, files, number, newest, exact>>,
         main' \in CopyContents, wal' \in CopyContents, running' \in BOOLEAN, commits' \in Nat,
         running => running' \/ w = "timer", ~Copies!Sqlite => wal' = Copies!Nothing,
         \A v \in Copies!Workers \ {w} : copying[v].step # "idle" => main' = main,
         Promised'
  PROVE  CopiesInv'
<1>1. /\ copying' \in [Copies!Workers -> CopyJobs] /\ copying'[w] = Copies!NoJob
      /\ \A v \in Copies!Workers \ {w} : copying'[v] = copying[v]
  BY NoJobIs DEF CopiesInv, CopiesType
<1>2. CopiesType' /\ Stamped' /\ LastIsNewest'
  BY <1>1, NoJobIs DEF CopiesInv, CopiesType, Stamped, LastIsNewest, Copies!Sqlite, Copies!Workers
<1>3. TrueSoFar(copying[w])' /\ IsThere(copying[w])'
  BY <1>1, NoJobIs DEF TrueSoFar, IsThere
<1>4. ASSUME NEW v \in Copies!Workers \ {w} PROVE TrueSoFar(copying[v])' /\ IsThere(copying[v])'
  <2>1. copying'[v] = copying[v] /\ (copying[v].step # "idle" => main' = main)
    BY <1>1
  <2> QED BY <2>1 DEF CopiesInv, TrueSoFar, IsThere, SomeKept, CopySource, Copies!Sqlite
<1> QED BY <1>2, <1>3, <1>4 DEF CopiesInv

LEMMA CloseOrCrashKeeps == ASSUME CopiesInv, Copies!Close \/ Copies!Crash PROVE CopiesInv'
<1>1. /\ running' = FALSE /\ copying' = [copying EXCEPT !["timer"] = Copies!NoJob] /\ "timer" \in Copies!Workers
      /\ UNCHANGED <<engine, files, number, commits, newest, exact, expected>>
  BY DEF Copies!Close, Copies!Crash, Copies!Leave, Copies!bounds, Copies!ghosts, Copies!Workers
<1>2. /\ main' \in CopyContents /\ wal' \in CopyContents
      /\ (wal = Copies!Nothing => main' = main /\ wal' = Copies!Nothing)
      /\ copying["command"].step # "idle" => main' = main
  <2>1. CASE Copies!Crash
    BY <2>1 DEF Copies!Crash, Copies!database, CopiesInv, CopiesType
  <2>2. CASE Copies!Close
    <3>1. Copies!LastClose(moved \/ copying["command"].step # "idle")
      BY <2>2 DEF Copies!Close
    <3>2. copying["command"].step # "idle" => main' = main
      BY <3>1 DEF Copies!LastClose, Copies!database
    <3> QED BY <3>1, <3>2, CloseKeeps DEF CopiesInv
  <2> QED BY <2>1, <2>2
<1>3. Promised'
  BY <1>1, <1>2 DEF CopiesInv, Promised
<1>4. \A v \in Copies!Workers \ {"timer"} : copying[v].step # "idle" => main' = main
  BY <1>2 DEF Copies!Workers
<1> QED BY <1>1, <1>2, <1>3, <1>4, JobEnds DEF CopiesInv, CopiesType

LEMMA BackupFailsKeeps ==
  ASSUME CopiesInv, NEW w \in Copies!Workers, Copies!BackupFails(w)
  PROVE  CopiesInv'
<1>1. /\ copying' = [copying EXCEPT ![w] = Copies!NoJob]
      /\ UNCHANGED <<engine, running, files, number, commits, newest, exact, expected>>
      /\ UNCHANGED Copies!database \/ (w = "command" /\ Copies!CommandCloses)
  BY DEF Copies!BackupFails, Copies!bounds, Copies!ghosts
<1>2. /\ main' \in CopyContents /\ wal' \in CopyContents
      /\ (wal = Copies!Nothing => main' = main /\ wal' = Copies!Nothing)
      /\ main' # main => w = "command" /\ ~running
  BY <1>1, CommandKeeps DEF Copies!database, CopiesInv, CopiesType
<1>3. Promised'
  BY <1>1, <1>2 DEF CopiesInv, Promised
<1>4. \A v \in Copies!Workers \ {w} : copying[v].step # "idle" => main' = main
  BY <1>2 DEF CopiesInv, CopiesType, Copies!Workers
<1> QED BY <1>1, <1>2, <1>3, <1>4, JobEnds DEF CopiesInv, CopiesType

-----------------------------------------------------------------------------
(* A backup on its way.                                                     *)
FilesGrow ==
  /\ number' \in Nat /\ number <= number' /\ files \in SUBSET files' /\ files' \in SUBSET CopyFiles
  /\ IsFiniteSet(files')
  /\ \A f \in files' \ files : ~f.whole /\ f.mtime = number' /\ number' = number + 1

LEMMA JobGoesOn ==
  ASSUME CopiesInv, NEW w \in Copies!Workers, NEW j \in CopyJobs, copying' = [copying EXCEPT ![w] = j],
         UNCHANGED <<engine, main, wal, running, commits, newest, exact, expected>>,
         FilesGrow,
         j.step # "idle" /\ w = "timer" => running,
         TrueSoFar(j)', IsThere(j)'
  PROVE  CopiesInv'
<1>1. /\ copying' \in [Copies!Workers -> CopyJobs] /\ copying'[w] = j
      /\ \A v \in Copies!Workers \ {w} : copying'[v] = copying[v]
  BY DEF CopiesInv, CopiesType
<1>2. CopiesType' /\ Promised'
  BY <1>1 DEF CopiesInv, CopiesType, Promised, Copies!Sqlite, Copies!Workers, FilesGrow
<1>3. Stamped'
  BY DEF CopiesInv, CopiesType, Stamped, CopyFiles, FilesGrow
<1>4. LastIsNewest'
  <2> SUFFICES ASSUME exact \/ ~Copies!Sqlite, NEW f \in files', f.whole, \A g \in files' : g.mtime <= f.mtime
               PROVE  f.content = newest
    BY DEF LastIsNewest, Copies!Sqlite
  <2>1. f \in files /\ files \in SUBSET files'
    BY DEF FilesGrow
  <2> QED BY <2>1 DEF CopiesInv, LastIsNewest
<1>5. TrueSoFar(copying[w])' /\ IsThere(copying[w])'
  BY <1>1 DEF TrueSoFar, IsThere, CopySource
<1>6. ASSUME NEW v \in Copies!Workers \ {w} PROVE TrueSoFar(copying[v])' /\ IsThere(copying[v])'
  <2>1. copying'[v] = copying[v]
    BY <1>1
  <2> QED BY <2>1 DEF CopiesInv, TrueSoFar, IsThere, SomeKept, CopySource, Copies!Sqlite, FilesGrow
<1> QED BY <1>2, <1>3, <1>4, <1>5, <1>6 DEF CopiesInv

LEMMA BeginKeeps ==
  ASSUME CopiesInv, CopiesAssumption, NEW w \in Copies!Workers, Copies!BeginBackup(w)
  PROVE  CopiesInv'
<1>1. /\ copying' = [copying EXCEPT ![w] =
           [Copies!NoJob EXCEPT !.step = "copy", !.name = number + 1, !.of = Copies!Content,
                                !.exact = (main = Copies!Content)]]
      /\ number' = number + 1 /\ (w = "timer" => running)
      /\ UNCHANGED <<engine, main, wal, running, files, commits, newest, exact, expected>>
  BY DEF Copies!BeginBackup, Copies!database, Copies!bounds, Copies!ghosts
<1>2. number + 1 \in Nat /\ number <= number + 1
  BY DEF CopiesInv, CopiesType
<1>3. [Copies!NoJob EXCEPT !.step = "copy", !.name = number + 1, !.of = Copies!Content,
                            !.exact = (main = Copies!Content)] \in CopyJobs
  BY <1>2, ContentIs, NoJobIs DEF CopiesInv, CopyJobs
<1>4. PICK j \in CopyJobs :
        j = [Copies!NoJob EXCEPT !.step = "copy", !.name = number + 1, !.of = Copies!Content,
                                 !.exact = (main = Copies!Content)]
  BY <1>3
<1>5. /\ j.step = "copy" /\ j.reads = "main" /\ j.copied = 0
      /\ (j.exact => main = j.of)
  BY <1>4 DEF Copies!NoJob
<1>6. TrueSoFar(j)' /\ IsThere(j)'
  <2>1. \A p \in Copies!Pages : ~(p <= 0)
    BY DEF Copies!Pages
  <2>2. 0 < Parts
    BY DEF CopiesAssumption
  <2> QED BY <1>1, <1>5, <2>1, <2>2 DEF TrueSoFar, IsThere, CopySource
<1>7. copying' = [copying EXCEPT ![w] = j]
  BY <1>1, <1>4
<1>8. FilesGrow
  BY <1>1, <1>2 DEF CopiesInv, CopiesType, FilesGrow
<1> QED BY <1>1, <1>5, <1>6, <1>7, <1>8, JobGoesOn

LEMMA CopyPageKeeps ==
  ASSUME CopiesInv, CopiesAssumption, NEW w \in Copies!Workers, Copies!CopyPage(w)
  PROVE  CopiesInv'
<1> DEFINE p == copying[w].copied + 1
           page == IF copying[w].reads = "main" THEN main[p] ELSE copying[w].file[p]
           step == IF p = Parts THEN "compress" ELSE "copy"
<1>1. /\ copying[w].step = "copy" /\ Copies!Sqlite
      /\ copying' = [copying EXCEPT ![w].copied = p, ![w].content[p] = page, ![w].step = step]
      /\ UNCHANGED <<engine, main, wal, running, files, number, commits, newest, exact, expected>>
  BY DEF Copies!CopyPage, Copies!database, Copies!bounds, Copies!ghosts
<1>2. copying[w] \in CopyJobs /\ copying[w].copied \in Nat /\ copying[w].content \in CopyContents /\ copying[w].of \in CopyContents
  BY DEF CopiesInv, CopiesType, CopyJobs
<1>3. p \in Copies!Pages => page \in Nat
  BY <1>2 DEF CopiesInv, CopiesType, CopyContents, CopyJobs
<1>4. [copying[w].content EXCEPT ![p] = page] \in CopyContents
  BY <1>2, <1>3 DEF CopyContents
<1>5. PICK j : j = [copying[w] EXCEPT !.copied = p, !.content = [copying[w].content EXCEPT ![p] = page], !.step = step]
  OBVIOUS
<1>6. j \in CopyJobs
  <2> DEFINE c == [copying[w].content EXCEPT ![p] = page]
  <2>1. p \in Nat /\ step \in {"copy", "compress"} /\ c \in CopyContents
    BY <1>2, <1>4
  <2>2. j = [copying[w] EXCEPT !.copied = p, !.content = c, !.step = step]
    BY <1>5
  <2> HIDE DEF p, step, c
  <2> QED BY <1>2, <2>1, <2>2 DEF CopyJobs
<1>7. copying' = [copying EXCEPT ![w] = j]
  BY <1>1, <1>5 DEF CopiesInv, CopiesType, CopyJobs
<1>8. /\ j.step = step /\ j.copied = p /\ j.content = [copying[w].content EXCEPT ![p] = page]
      /\ j.of = copying[w].of /\ j.exact = copying[w].exact /\ j.reads = copying[w].reads /\ j.file = copying[w].file
  BY <1>2, <1>5 DEF CopyJobs
<1>9. ASSUME copying[w].exact
      PROVE  /\ CopySource(j) = j.of /\ p <= Parts
             /\ \A q \in Copies!Pages : q <= p => j.content[q] = j.of[q]
  <2>1. /\ CopySource(copying[w]) = copying[w].of /\ copying[w].copied < Parts
        /\ \A q \in Copies!Pages : q <= copying[w].copied => copying[w].content[q] = copying[w].of[q]
    BY <1>1, <1>9 DEF CopiesInv, TrueSoFar
  <2>2. CopySource(j) = j.of /\ p <= Parts /\ p \in Copies!Pages /\ page = copying[w].of[p]
    BY <1>2, <1>8, <2>1 DEF CopySource, Copies!Pages, CopiesAssumption
  <2>3. ASSUME NEW q \in Copies!Pages, q <= p PROVE j.content[q] = j.of[q]
    <3>1. q = p \/ q <= copying[w].copied
      BY <1>2, <2>3 DEF Copies!Pages
    <3> QED BY <1>2, <1>8, <2>1, <2>2, <3>1 DEF CopyContents
  <2> QED BY <2>2, <2>3
<1>10. TrueSoFar(j)
  <2>1. ASSUME step = "compress", j.exact PROVE j.content = j.of
    <3>1. \A q \in Copies!Pages : j.content[q] = j.of[q]
      BY <1>8, <1>9, <2>1 DEF Copies!Pages
    <3> QED BY <1>6, <3>1 DEF CopyJobs, CopyContents
  <2>2. ASSUME step = "copy", j.exact PROVE j.copied < Parts
    BY <1>2, <1>8, <1>9, <2>2 DEF CopiesAssumption
  <2> QED BY <1>1, <1>8, <1>9, <2>1, <2>2 DEF TrueSoFar
<1>11. TrueSoFar(j)' /\ IsThere(j)'
  <2> HIDE DEF p, page
  <2> QED BY <1>1, <1>8, <1>10 DEF TrueSoFar, CopySource, IsThere, SomeKept, Copies!Sqlite
<1>12. w = "timer" => running
  BY <1>1 DEF CopiesInv, CopiesType
<1>13. FilesGrow
  BY <1>1 DEF CopiesInv, CopiesType, FilesGrow
<1> HIDE DEF p, page, step
<1> QED BY <1>1, <1>6, <1>7, <1>11, <1>12, <1>13, JobGoesOn

LEMMA DumpKeeps == ASSUME CopiesInv, NEW w \in Copies!Workers, Copies!Dump(w) PROVE CopiesInv'
<1>1. /\ copying[w].step = "copy" /\ ~Copies!Sqlite
      /\ copying' = [copying EXCEPT ![w].content = copying[w].of, ![w].step = "compress"]
      /\ UNCHANGED <<engine, main, wal, running, files, number, commits, newest, exact, expected>>
  BY DEF Copies!Dump, Copies!database, Copies!bounds, Copies!ghosts
<1>2. copying[w] \in CopyJobs
  BY DEF CopiesInv, CopiesType
<1>3. PICK j : j = [copying[w] EXCEPT !.content = copying[w].of, !.step = "compress"]
  OBVIOUS
<1>4. j \in CopyJobs /\ j.step = "compress" /\ j.content = j.of
  BY <1>2, <1>3 DEF CopyJobs
<1>5. copying' = [copying EXCEPT ![w] = j]
  BY <1>1, <1>3 DEF CopiesInv, CopiesType, CopyJobs
<1>6. TrueSoFar(j)' /\ IsThere(j)'
  BY <1>4 DEF TrueSoFar, IsThere
<1>7. w = "timer" => running
  BY <1>1 DEF CopiesInv, CopiesType
<1>8. FilesGrow
  BY <1>1 DEF CopiesInv, CopiesType, FilesGrow
<1> QED BY <1>1, <1>4, <1>5, <1>6, <1>7, <1>8, JobGoesOn

LEMMA CompressKeeps ==
  ASSUME CopiesInv, NEW w \in Copies!Workers, Copies!Compress(w)
  PROVE  CopiesInv'
<1> DEFINE f == [name |-> copying[w].name, mtime |-> number + 1, whole |-> FALSE, content |-> Copies!Nothing]
<1>1. /\ copying[w].step = "compress" /\ number' = number + 1
      /\ files' = files \cup {f} /\ copying' = [copying EXCEPT ![w].step = "write"]
      /\ UNCHANGED <<engine, main, wal, running, commits, newest, exact, expected>>
  BY DEF Copies!Compress, Copies!database, Copies!bounds, Copies!ghosts
<1>2. copying[w] \in CopyJobs /\ number \in Nat
  BY DEF CopiesInv, CopiesType
<1>3. PICK j : j = [copying[w] EXCEPT !.step = "write"]
  OBVIOUS
<1>4. /\ j \in CopyJobs /\ j.step = "write" /\ j.content = copying[w].content /\ j.of = copying[w].of
      /\ j.exact = copying[w].exact /\ j.name = copying[w].name
  BY <1>2, <1>3 DEF CopyJobs
<1>5. copying' = [copying EXCEPT ![w] = j]
  BY <1>1, <1>3 DEF CopiesInv, CopiesType, CopyJobs
<1>6. f \in CopyFiles
  BY <1>2, NothingIs DEF CopyFiles, CopyJobs
<1>7. TrueSoFar(j)'
  BY <1>1, <1>4 DEF CopiesInv, TrueSoFar, Copies!Sqlite
<1>8. IsThere(j)'
  <2>1. f \in files' /\ f.name = j.name
    BY <1>1, <1>4
  <2> HIDE DEF f
  <2> QED BY <2>1 DEF IsThere
<1>9. w = "timer" => running
  BY <1>1 DEF CopiesInv, CopiesType
<1>10. IsFiniteSet(files') /\ files' \in SUBSET CopyFiles /\ files \in SUBSET files'
  BY <1>1, <1>6, FS_AddElement DEF CopiesInv, CopiesType
<1>11. \A g \in files' \ files : ~g.whole /\ g.mtime = number' /\ number' = number + 1
  BY <1>1
<1>12. FilesGrow
  BY <1>1, <1>2, <1>10, <1>11 DEF FilesGrow
<1> HIDE DEF f
<1> QED BY <1>1, <1>4, <1>5, <1>7, <1>8, <1>9, <1>12, JobGoesOn

-----------------------------------------------------------------------------
(* A backup that finishes.                                                  *)
LEMMA FinishKeeps ==
  ASSUME CopiesInv, CopiesAssumption, NEW w \in Copies!Workers, Copies!FinishBackup(w)
  PROVE  CopiesInv'
<1> DEFINE mine == [name |-> copying[w].name, mtime |-> number + 1, whole |-> TRUE, content |-> copying[w].content]
           others == {f \in files : f.name # mine.name}
           all == IF files # others THEN others \cup {mine} ELSE others
<1>1. /\ copying[w].step = "write" /\ number' = number + 1 /\ files' = Copies!Kept(all)
      /\ newest' = copying[w].of /\ copying' = [copying EXCEPT ![w] = Copies!NoJob]
      /\ exact' <=> (copying[w].exact \/ ~Copies!Sqlite) /\ (\A f \in files : f.name <= copying[w].name)
      /\ (IF w = "command" THEN Copies!CommandCloses ELSE UNCHANGED Copies!database)
      /\ UNCHANGED <<engine, running, commits, expected>>
  BY DEF Copies!FinishBackup, Copies!bounds
<1>2. /\ copying[w] \in CopyJobs /\ number \in Nat /\ files \in SUBSET CopyFiles /\ IsFiniteSet(files)
      /\ TrueSoFar(copying[w]) /\ IsThere(copying[w])
  BY DEF CopiesInv, CopiesType
<1>3. mine \in CopyFiles /\ others \in SUBSET files /\ IsFiniteSet(others)
  BY <1>2, FS_Subset DEF CopyFiles, CopyJobs
<1>4. all \in SUBSET CopyFiles /\ IsFiniteSet(all) /\ all \in SUBSET (others \cup {mine})
  <2> HIDE DEF mine, others
  <2> QED BY <1>2, <1>3, FS_AddElement
<1>5. files' \in SUBSET all /\ IsFiniteSet(files') /\ (~Copies!Sqlite => files' = all)
  <2>1. Copies!Kept(all) \in SUBSET all /\ (~Copies!Sqlite => Copies!Kept(all) = all)
    BY DEF Copies!Kept
  <2> HIDE DEF all
  <2> QED BY <1>1, <1>4, <2>1, FS_Subset
<1>6. ASSUME SomeKept, NEW f \in all PROVE \E m \in files' : f.name <= m.name
  <2> HIDE DEF all
  <2> QED BY <1>1, <1>4, <1>6, KeptHasLast
<1>7. \A f \in files : \E g \in all : g.name = f.name
  <2> SUFFICES ASSUME NEW f \in files PROVE \E g \in all : g.name = f.name
    OBVIOUS
  <2>1. CASE f \in others
    BY <2>1
  <2>2. CASE f \notin others
    <3>1. f.name = mine.name /\ mine \in all
      BY <2>2
    <3> QED BY <3>1
  <2> QED BY <2>1, <2>2
<1>8. /\ main' \in CopyContents /\ wal' \in CopyContents
      /\ (wal = Copies!Nothing => main' = main /\ wal' = Copies!Nothing)
      /\ main' # main => w = "command" /\ ~running
  <2>1. CASE w = "command"
    BY <1>1, <2>1, CommandKeeps DEF CopiesInv
  <2>2. CASE w # "command"
    BY <1>1, <2>2 DEF Copies!database, CopiesInv, CopiesType
  <2> QED BY <2>1, <2>2
<1>9. /\ copying' \in [Copies!Workers -> CopyJobs] /\ copying'[w] = Copies!NoJob
      /\ \A v \in Copies!Workers \ {w} : copying'[v] = copying[v]
  BY <1>1, NoJobIs DEF CopiesInv, CopiesType
<1>10. CopiesType' /\ Promised'
  <2>1. exact' \in BOOLEAN
    BY DEF Copies!FinishBackup
  <2> HIDE DEF all
  <2>2. newest' \in CopyContents /\ number' \in Nat /\ files' \in SUBSET CopyFiles
    BY <1>1, <1>2, <1>4, <1>5 DEF CopyJobs
  <2> QED BY <1>1, <1>5, <1>8, <1>9, <2>1, <2>2, NoJobIs DEF CopiesInv, CopiesType, Promised, Copies!Sqlite, Copies!Workers
<1>11. Stamped'
  <2>1. ASSUME NEW f \in files' PROVE f.mtime <= number'
    <3>1. f \in files \/ f = mine
      BY <1>3, <1>4, <1>5
    <3>2. f \in CopyFiles /\ f.mtime \in Nat /\ mine.mtime = number + 1
      BY <1>4, <1>5 DEF CopyFiles
    <3> HIDE DEF mine
    <3> QED BY <1>1, <1>2, <3>1, <3>2 DEF CopiesInv, Stamped
  <2> QED BY <2>1 DEF Stamped
<1>12. ASSUME SomeKept, exact' \/ ~Copies!Sqlite PROVE mine \in files'
  <2>1. PICK f \in files : f.name = copying[w].name \/ (Copies!Sqlite /\ copying[w].name < f.name)
    BY <1>1, <1>2, <1>12 DEF IsThere
  <2>2. f.name \in Nat /\ copying[w].name \in Nat
    BY <1>2 DEF CopyFiles, CopyJobs
  <2>3. f.name = mine.name
    BY <1>1, <1>12, <2>1, <2>2
  <2>4. mine \in all
    BY <2>3
  <2>5. CASE ~Copies!Sqlite
    BY <1>5, <2>4, <2>5
  <2>6. CASE Copies!Sqlite
    <3>1. PICK m \in files' : mine.name <= m.name
      BY <1>6, <1>12, <2>4
    <3>2. m \in others \/ m = mine
      BY <1>4, <1>5
    <3>3. m \in others => m.name <= mine.name /\ m.name # mine.name /\ m.name \in Nat
      BY <1>1, <1>2, <1>12, <2>6 DEF CopyFiles
    <3>4. mine.name \in Nat
      BY <2>2
    <3> HIDE DEF mine, others
    <3> QED BY <3>1, <3>2, <3>3, <3>4
  <2> QED BY <2>5, <2>6
<1>13. LastIsNewest'
  <2> SUFFICES ASSUME exact' \/ ~Copies!Sqlite, NEW f \in files', f.whole, \A g \in files' : g.mtime <= f.mtime
               PROVE  f.content = newest'
    BY <1>1 DEF LastIsNewest, Copies!Sqlite
  <2>0. SomeKept
    <3> SUFFICES ASSUME ~SomeKept PROVE FALSE
      OBVIOUS
    <3>1. Copies!Sqlite /\ MaxBackups = 0
      BY DEF SomeKept
    <3>2. Cardinality({g \in all : f.name < g.name}) < 0
      BY <1>1, <3>1, CopiesCount DEF Copies!Kept
    <3>3. Cardinality({g \in all : f.name < g.name}) \in Nat
      <4> HIDE DEF all
      <4> QED BY <1>4, FS_Subset, FS_CardinalityType
    <3> QED BY <3>2, <3>3
  <2>1. mine.mtime <= f.mtime
    BY <1>12, <2>0
  <2>2. ASSUME f \in files PROVE FALSE
    <3>1. f.mtime <= number /\ f.mtime \in Nat
      BY <1>2, <2>2 DEF CopiesInv, Stamped, CopyFiles
    <3> QED BY <1>2, <2>1, <3>1
  <2>3. f = mine
    BY <1>3, <1>4, <1>5, <2>2
  <2>4. copying[w].content = copying[w].of
    BY <1>1, <1>2 DEF TrueSoFar
  <2> QED BY <1>1, <2>3, <2>4
<1>14. TrueSoFar(copying[w])' /\ IsThere(copying[w])'
  BY <1>9, NoJobIs DEF TrueSoFar, IsThere
<1>15. ASSUME NEW v \in Copies!Workers \ {w} PROVE TrueSoFar(copying[v])' /\ IsThere(copying[v])'
  <2>1. copying'[v] = copying[v] /\ copying[v] \in CopyJobs /\ TrueSoFar(copying[v]) /\ IsThere(copying[v])
    BY <1>9 DEF CopiesInv, CopiesType
  <2>2. copying[v].step # "idle" => main' = main
    BY <1>8 DEF CopiesInv, CopiesType, Copies!Workers
  <2>3. TrueSoFar(copying[v])'
    BY <1>1, <2>1, <2>2 DEF TrueSoFar, CopySource, Copies!Sqlite
  <2>4. ASSUME SomeKept, copying[v].step = "write"
        PROVE  \E m \in files' : m.name = copying[v].name \/ (Copies!Sqlite /\ copying[v].name < m.name)
    <3>1. PICK f \in files : f.name = copying[v].name \/ (Copies!Sqlite /\ copying[v].name < f.name)
      BY <2>1, <2>4 DEF IsThere
    <3>2. PICK g \in all : g.name = f.name
      BY <1>7
    <3>3. PICK m \in files' : g.name <= m.name
      BY <1>6, <2>4
    <3>4. g.name \in Nat /\ m.name \in Nat /\ copying[v].name \in Nat
      BY <1>4, <1>5, <2>1 DEF CopyFiles, CopyJobs
    <3>5. CASE Copies!Sqlite
      <4> HIDE DEF all
      <4> QED BY <3>1, <3>2, <3>3, <3>4, <3>5
    <3>6. CASE ~Copies!Sqlite
      <4> HIDE DEF all
      <4> QED BY <1>5, <3>1, <3>2, <3>6
    <3> QED BY <3>5, <3>6
  <2>5. IsThere(copying[v])'
    BY <1>1, <2>1, <2>4 DEF IsThere, SomeKept, Copies!Sqlite
  <2> QED BY <2>3, <2>5
<1> QED BY <1>10, <1>11, <1>13, <1>14, <1>15 DEF CopiesInv

-----------------------------------------------------------------------------
(* A restore.                                                               *)
LEMMA LatestIs ==
  ASSUME CopiesType, Stamped, files # {}
  PROVE  Copies!Latest \in files /\ \A g \in files : g.mtime <= Copies!Latest.mtime
<1> DEFINE N == {number - f.mtime : f \in files}
<1>1. \A f \in files : f.mtime \in Nat /\ f.mtime <= number /\ number \in Nat
  BY DEF CopiesType, Stamped, CopyFiles
<1>2. N \in SUBSET Nat /\ N # {}
  BY <1>1
<1>3. PICK n \in N : \A k \in N : n <= k
  <2> HIDE DEF N
  <2> QED BY <1>2, LeastNumber
<1>4. PICK f \in files : n = number - f.mtime
  OBVIOUS
<1>5. \A g \in files : g.mtime <= f.mtime
  <2> TAKE g \in files
  <2>1. n <= number - g.mtime
    BY <1>3
  <2> QED BY <1>1, <1>4, <2>1
<1> QED BY <1>5 DEF Copies!Latest

LEMMA RestoreKeeps == ASSUME CopiesInv, Copies!Restore PROVE CopiesInv'
<1>1. /\ copying["command"].step = "idle" /\ files # {} /\ "timer" \in Copies!Workers
      /\ \/ Copies!RestoreSqlite \/ Copies!RestorePostgres
         \/ ~Copies!Latest.whole /\ Copies!CommandCloses /\ UNCHANGED <<moved, copying, expected>>
      /\ UNCHANGED <<engine, running, files, number, commits, newest, exact>>
  BY DEF Copies!Restore, Copies!Workers
<1>2. /\ Copies!Latest \in files /\ Copies!Latest \in CopyFiles /\ Copies!Latest.content \in CopyContents
      /\ \A g \in files : g.mtime <= Copies!Latest.mtime
  BY <1>1, LatestIs DEF CopiesInv, CopiesType, CopyFiles
<1>3. Copies!Latest.whole /\ (exact \/ ~Copies!Sqlite) => Copies!Latest.content = newest
  BY <1>2 DEF CopiesInv, LastIsNewest
<1>4. CASE Copies!RestoreSqlite
  <2>1. /\ Copies!Sqlite /\ main' = Copies!Latest.content /\ wal' = wal /\ Copies!Latest.whole
        /\ copying' = [copying EXCEPT !["timer"] = Copies!Replaced(copying["timer"])]
        /\ expected' = IF exact /\ wal = Copies!Nothing /\ ~running THEN {newest} ELSE {}
    BY <1>4 DEF Copies!RestoreSqlite
  <2>2. copying["timer"] \in CopyJobs /\ main \in CopyContents /\ TrueSoFar(copying["timer"]) /\ IsThere(copying["timer"])
    BY <1>1 DEF CopiesInv, CopiesType
  <2>3. PICK j : j = Copies!Replaced(copying["timer"])
    OBVIOUS
  <2>4. /\ j \in CopyJobs /\ j.step = copying["timer"].step /\ j.name = copying["timer"].name /\ j.copied = copying["timer"].copied
        /\ j.content = copying["timer"].content /\ j.of = copying["timer"].of /\ j.exact = copying["timer"].exact
        /\ j.step = "copy" => j.reads # "main" /\ j.file = CopySource(copying["timer"])
    <3>1. CASE copying["timer"].step = "copy" /\ copying["timer"].reads = "main"
      <4>1. j = [copying["timer"] EXCEPT !.reads = IF moved THEN "other" ELSE "old", !.file = main]
        BY <2>3, <3>1 DEF Copies!Replaced
      <4> QED BY <2>2, <3>1, <4>1 DEF CopyJobs, CopySource
    <3>2. CASE ~(copying["timer"].step = "copy" /\ copying["timer"].reads = "main")
      <4>1. j = copying["timer"]
        BY <2>3, <3>2 DEF Copies!Replaced
      <4> QED BY <2>2, <3>2, <4>1 DEF CopySource
    <3> QED BY <3>1, <3>2
  <2>5. /\ copying' \in [Copies!Workers -> CopyJobs] /\ copying'["timer"] = j
        /\ \A v \in Copies!Workers \ {"timer"} : copying'[v] = copying[v] /\ copying[v].step = "idle"
    BY <1>1, <2>1, <2>3, <2>4 DEF CopiesInv, CopiesType, Copies!Workers
  <2>6. CopiesType' /\ Stamped' /\ LastIsNewest'
    BY <1>1, <1>2, <2>1, <2>4, <2>5 DEF CopiesInv, CopiesType, Stamped, LastIsNewest, Copies!Sqlite
  <2>7. Promised'
    BY <1>3, <2>1 DEF Promised
  <2>8. TrueSoFar(j)'
    BY <1>1, <2>2, <2>4 DEF TrueSoFar, CopySource, Copies!Sqlite
  <2>9. IsThere(j)'
    BY <1>1, <2>2, <2>4 DEF IsThere, SomeKept, Copies!Sqlite
  <2>10. ASSUME NEW v \in Copies!Workers PROVE TrueSoFar(copying[v])' /\ IsThere(copying[v])'
    BY <2>5, <2>8, <2>9 DEF TrueSoFar, IsThere, CopySource
  <2> QED BY <2>6, <2>7, <2>10 DEF CopiesInv
<1>5. CASE Copies!RestorePostgres
  <2>1. /\ ~Copies!Sqlite /\ Copies!Latest.whole /\ wal' = wal /\ copying' = copying
        /\ main' = [p \in Copies!Pages |-> IF main[p] = 0 THEN Copies!Latest.content[p] ELSE main[p]]
        /\ expected' = IF main = Copies!Nothing THEN {newest} ELSE {}
    BY <1>5 DEF Copies!RestorePostgres
  <2>2. main' \in CopyContents /\ wal = Copies!Nothing
    BY <1>2, <2>1 DEF CopiesInv, CopiesType, CopyContents
  <2>3. ASSUME main = Copies!Nothing PROVE main' = newest
    <3>1. \A p \in Copies!Pages : main[p] = 0
      BY <2>3 DEF Copies!Nothing
    <3>2. main' = [p \in Copies!Pages |-> Copies!Latest.content[p]]
      BY <2>1, <3>1
    <3> QED BY <1>2, <1>3, <2>1, <3>2 DEF CopyContents
  <2>4. CopiesType' /\ Stamped' /\ LastIsNewest'
    BY <1>1, <2>1, <2>2 DEF CopiesInv, CopiesType, Stamped, LastIsNewest, Copies!Sqlite
  <2>5. Promised'
    BY <2>1, <2>2, <2>3 DEF Promised
  <2>6. ASSUME NEW v \in Copies!Workers PROVE TrueSoFar(copying[v])' /\ IsThere(copying[v])'
    BY <1>1, <2>1 DEF CopiesInv, TrueSoFar, IsThere, SomeKept, CopySource, Copies!Sqlite
  <2> QED BY <2>4, <2>5, <2>6 DEF CopiesInv
<1>6. CASE Copies!CommandCloses /\ UNCHANGED <<moved, copying, expected>>
  <2>1. /\ main' \in CopyContents /\ wal' \in CopyContents
        /\ (wal = Copies!Nothing => main' = main /\ wal' = Copies!Nothing)
        /\ (running => main' = main)
    BY <1>6, CommandKeeps DEF CopiesInv
  <2>2. \A v \in Copies!Workers : copying[v].step = "copy" => main' = main
    BY <1>1, <2>1 DEF CopiesInv, CopiesType, Copies!Workers
  <2>3. Promised'
    BY <1>6, <2>1 DEF CopiesInv, Promised
  <2> QED BY <1>1, <1>6, <2>1, <2>2, <2>3, QuietKeeps DEF CopiesInv, CopiesType
<1> QED BY <1>1, <1>4, <1>5, <1>6

-----------------------------------------------------------------------------
LEMMA CopiesBegin == ASSUME Copies!Init PROVE CopiesInv
<1>1. CopiesType
  <2>1. copying = [w \in Copies!Workers |-> Copies!NoJob]
    BY DEF Copies!Init
  <2> QED BY <2>1, NothingIs, NoJobIs, FS_EmptySet DEF Copies!Init, CopiesType, Copies!Workers, Copies!Sqlite
<1>2. \A w \in Copies!Workers : TrueSoFar(copying[w]) /\ IsThere(copying[w])
  BY NoJobIs DEF Copies!Init
<1> QED BY <1>1, <1>2 DEF Copies!Init, CopiesInv, Stamped, LastIsNewest, Promised

LEMMA CopiesGoOn == ASSUME CopiesInv, CopiesAssumption, [Copies!Next]_Copies!vars PROVE CopiesInv'
<1>1. CASE UNCHANGED Copies!vars
  <2>1. UNCHANGED <<engine, main, wal, running, files, copying, number, commits, newest, exact, expected>>
    BY <1>1 DEF Copies!vars, Copies!database, Copies!bounds, Copies!ghosts
  <2> QED BY <2>1, QuietKeeps DEF CopiesInv, CopiesType, Promised
<1>2. CASE Copies!Next
  BY <1>2, CommitKeeps, RewindKeeps, OpenKeeps, CloseOrCrashKeeps, RestoreKeeps, NewDatabaseKeeps,
     CheckpointKeeps, BeginKeeps, CopyPageKeeps, DumpKeeps, CompressKeeps, FinishKeeps, BackupFailsKeeps
  DEF Copies!Next
<1> QED BY <1>1, <1>2

(* LatestBringsBack, for every number of pages or tables, of copies kept, of  *)
(* commits, backups and restores, under checkpoints, crashes, two backups at *)
(* once and restores under a running program or a copy that has begun: what   *)
(* `traderos db restore --latest` promised is in the database until somebody *)
(* writes to it (backup.py backup_sqlite, _rotate_backups, list_backups,     *)
(* restore_sqlite, restore_postgres).                                       *)
THEOREM LatestComesBack ==
  ASSUME CopiesAssumption
  PROVE  Copies!Spec => []Copies!LatestBringsBack
<1>1. Copies!Init => CopiesInv
  BY CopiesBegin
<1>2. CopiesInv /\ [Copies!Next]_Copies!vars => CopiesInv'
  BY CopiesGoOn
<1>3. CopiesInv => Copies!LatestBringsBack
  BY ContentIs DEF CopiesInv, Promised, Copies!LatestBringsBack
<1> QED BY <1>1, <1>2, <1>3, PTL DEF Copies!Spec

=============================================================================
