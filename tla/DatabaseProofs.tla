---------------------------- MODULE DatabaseProofs ----------------------------
(***************************************************************************)
(* Proofs about what the program stores and serves.                         *)
(*                                                                          *)
(* What Database says of a migrated store holds for any processes, versions *)
(* to start from or go back to, tables that are followed, crashes and       *)
(* command lines: a row survives the migrations, and no process serves a    *)
(* store that is migrated in part.                                          *)
(*                                                                          *)
(* The candles that CandleFeed and History serve are the exchange's, for    *)
(* any symbols, faults, windows and lengths of a bar.  For the feed this    *)
(* rests on where a trade is between the exchange and the cache (Served);   *)
(* for the table, on the bar under way being the last (FormingIsLast).      *)
(***************************************************************************)
EXTENDS Database, MCMarketParts, SequenceTheorems, FiniteSetTheorems, WellFoundedInduction, TLAPS

-----------------------------------------------------------------------------
(* The chain: what there is to know of each version.                        *)

\* The tables that version v rebuilds, and those of an older shape it renews.
Rebuilt(v) == {Migration[v].rebuilds[k] : k \in DOMAIN Migration[v].rebuilds}
Renewed(v) == Migration[v].alters \cup Rebuilt(v)

LEMMA ResearchIs ==
  /\ DOMAIN Research = 1..5 /\ Len(Research) = 5
  /\ Research[1] = "observations" /\ Research[2] = "hypotheses" /\ Research[3] = "research_tests"
  /\ Research[4] = "research_results" /\ Research[5] = "lessons"
BY DEF Research

LEMMA ResearchOnce ==
  /\ \A i, j \in DOMAIN Research : Research[i] = Research[j] => i = j
  /\ \A i \in DOMAIN Research : Research[i] \notin {"strategies", "trades", "none"}
<1>1. \A i \in 1..5 : i = 1 \/ i = 2 \/ i = 3 \/ i = 4 \/ i = 5
  OBVIOUS
<1> QED BY <1>1, ResearchIs

LEMMA ResearchAre ==
  /\ ResearchTables \subseteq Followed
  /\ \A t \in ResearchTables : \E i \in DOMAIN Research : Research[i] = t
  /\ \A i \in DOMAIN Research : Research[i] \in Followed => Research[i] \in ResearchTables
  /\ "strategies" \notin ResearchTables /\ "trades" \notin ResearchTables /\ "none" \notin ResearchTables
BY ResearchOnce DEF ResearchTables

LEMMA ResearchNames ==
  ResearchTables \subseteq
    {"observations", "hypotheses", "research_tests", "research_results", "lessons"}
<1>1. \A i \in 1..5 : i = 1 \/ i = 2 \/ i = 3 \/ i = 4 \/ i = 5
  OBVIOUS
<1> QED BY <1>1, ResearchIs, ResearchAre

(* A table and its parent are neighbours in the order of the rebuild.       *)
LEMMA ParentIs ==
  ASSUME NEW t, Parent(t) # "none"
  PROVE  \E k \in DOMAIN Research :
           /\ k > 1 /\ k - 1 \in DOMAIN Research
           /\ Research[k] = t /\ Research[k - 1] = Parent(t)
           /\ t \in ResearchTables /\ Parent(t) \in ResearchTables
<1>1. t \in Followed /\ \E q \in ResearchTables : Refers(t, q)
  BY DEF Parent
<1>2. Parent(t) = CHOOSE q \in ResearchTables : Refers(t, q)
  BY <1>1 DEF Parent
<1>3. Parent(t) \in ResearchTables /\ Refers(t, Parent(t))
  BY <1>1, <1>2
<1>4. PICK k \in 2..Len(Research) : Research[k] = t /\ Research[k - 1] = Parent(t)
  BY <1>3 DEF Refers
<1>5. k \in DOMAIN Research /\ k > 1 /\ k - 1 \in DOMAIN Research
  BY <1>4, ResearchIs
<1> QED BY <1>1, <1>3, <1>4, <1>5, ResearchAre

LEMMA PlainIs ==
  ASSUME NEW v, NEW names
  PROVE  /\ Plain(v, names).version = v /\ Plain(v, names).rebuilds = <<>>
         /\ Plain(v, names).alters = {}
         /\ Plain(v, names).tables = names \cap Followed /\ Plain(v, names).drops = names \cap Followed
BY DEF Plain

LEMMA VersionNumbers ==
  /\ V001.version = 1 /\ V002.version = 2 /\ V003.version = 3 /\ V004.version = 4 /\ V005.version = 5
  /\ V006.version = 6 /\ V007.version = 7 /\ V008.version = 8 /\ V009.version = 9 /\ V012.version = 12
<1>1. /\ V001.version = 1 /\ V002.version = 2 /\ V003.version = 3 /\ V005.version = 5
      /\ V007.version = 7 /\ V008.version = 8 /\ V009.version = 9
  BY PlainIs DEF V001, V002, V003, V005, V007, V008, V009
<1>2. V004.version = 4 /\ V006.version = 6 /\ V012.version = 12
  BY DEF V004, V006, V012, Plain
<1> QED BY <1>1, <1>2

LEMMA VersionsAre == Versions = {1, 2, 3, 4, 5, 6, 7, 8, 9, 12}
BY VersionNumbers DEF Versions, Chain

LEMMA MigrationIs ==
  ASSUME NEW v \in Versions
  PROVE  Migration[v] \in Chain /\ Migration[v].version = v
<1>1. \E m \in Chain : m.version = v
  BY DEF Versions
<1> QED BY <1>1 DEF Migration

LEMMA FirstMigrations == Migration[1] = V001 /\ Migration[4] = V004
<1>1. \A m \in Chain : (m.version = 1 => m = V001) /\ (m.version = 4 => m = V004)
  BY VersionNumbers DEF Chain
<1> QED BY <1>1, VersionsAre, MigrationIs

LEMMA ChainIs ==
  ASSUME NEW m \in Chain
  PROVE  /\ m.tables \subseteq Followed /\ m.drops \subseteq Followed
         /\ m.alters \subseteq {"trades"} \cap Followed
         /\ \/ m.rebuilds = <<>>
            \/ m.rebuilds = <<"strategies">> /\ m.version = 6
            \/ m.rebuilds = Research /\ m.version = 12 /\ m.tables = {} /\ m.drops = {}
         /\ "strategies" \in m.tables => m.rebuilds = <<"strategies">>
         /\ m.alters # {} => m.drops = {} /\ m.version = 4
         /\ m.drops \cap ResearchTables = {} \/ ResearchTables \subseteq m.drops
<1>1. m = V001 \/ m = V002 \/ m = V003 \/ m = V004 \/ m = V005 \/ m = V006 \/ m = V007
      \/ m = V008 \/ m = V009 \/ m = V012
  BY DEF Chain
<1>2. CASE m = V001
  BY <1>2, PlainIs, ResearchAre DEF V001
<1>3. CASE m \in {V002, V003, V005, V007, V008, V009}
  BY <1>3, PlainIs, ResearchNames DEF V002, V003, V005, V007, V008, V009
<1>4. CASE m = V004
  BY <1>4 DEF V004, Plain
<1>5. CASE m = V006
  BY <1>5, ResearchIs, ResearchAre DEF V006, Plain
<1>6. CASE m = V012
  BY <1>6 DEF V012, Plain
<1> QED BY <1>1, <1>2, <1>3, <1>4, <1>5, <1>6


-----------------------------------------------------------------------------
(* Sound: where a process is fits the job it has to do, and a rebuild does   *)
(* not come back to a table of the older shape.                             *)

Rebuilding == {"check", "aside", "create", "copy"}
StepMatches(p) ==
  /\ at[p] \in Rebuilding \cup {"mark", "drop"} => plan[p] # {}
  /\ at[p] \in Rebuilding \cup {"mark"} => Job(p).op \in {"up", "repair"}
  /\ at[p] = "drop" => Job(p).op = "down" /\ reverted
  /\ at[p] \in Rebuilding => index[p] \in DOMAIN This(p).rebuilds
  /\ at[p] \in {"aside", "create", "copy"} => Table(p) \in Followed
  /\ at[p] \notin Rebuilding => index[p] = 1
  /\ at[p] = "down" => p \notin tool
  /\ \A j \in plan[p] : j.op = "repair" => Migration[j.version].tables # {}

\* Tables of the older shape are those that some version renews.
LegacyOnes == \A t \in legacy : \E v \in Versions : t \in Renewed(v)

\* Whoever has come past a table in a rebuild has left nothing to do there.
Past(p) ==
  at[p] \in Rebuilding \cup {"mark"} =>
    \A j \in DOMAIN This(p).rebuilds :
      at[p] = "mark" \/ j < index[p] \/ (j = index[p] /\ at[p] \in {"create", "copy"}) =>
        This(p).rebuilds[j] \notin legacy

Sound == TypeOK /\ LegacyOnes /\ \A p \in Processes : StepMatches(p) /\ Past(p)

LEMMA LeastNumber ==
  ASSUME NEW N \in SUBSET Nat, N # {}
  PROVE  \E n \in N : \A m \in N : n <= m
<1>1. PICK n \in N : \A m \in N : ~(<<m, n>> \in OpToRel(<, Nat))
  BY NatLessThanWellFounded, WFMin
<1>2. ASSUME NEW m \in N PROVE n <= m
  <2>1. n \in Nat /\ m \in Nat /\ ~(m < n)
    BY <1>1 DEF OpToRel
  <2> QED BY <2>1
<1> QED BY <1>2

LEMMA TurnType == ASSUME NEW j \in Jobs PROVE Turn(j) \in Nat
<1>1. j.version \in 1..12 /\ j.op \in {"up", "repair", "down"}
  BY VersionsAre DEF Jobs
<1> QED BY <1>1 DEF Turn, HeadVersion

(* The job that is done is the first of the plan.                           *)
LEMMA JobIs ==
  ASSUME TypeOK, NEW p \in Processes, plan[p] # {}
  PROVE  /\ Job(p) \in plan[p] /\ \A k \in plan[p] : Turn(Job(p)) <= Turn(k)
         /\ Job(p) \in Jobs /\ Job(p).version \in Versions
<1>1. plan[p] \subseteq Jobs
  BY DEF TypeOK
<1> DEFINE N == {Turn(j) : j \in plan[p]}
<1>2. N \in SUBSET Nat /\ N # {}
  BY <1>1, TurnType
<1>3. PICK n \in N : \A m \in N : n <= m
  BY <1>2, LeastNumber
<1>4. \E j \in plan[p] : \A k \in plan[p] : Turn(j) <= Turn(k)
  BY <1>3
<1>5. Job(p) \in plan[p] /\ \A k \in plan[p] : Turn(Job(p)) <= Turn(k)
  BY <1>4 DEF Job
<1> QED BY <1>1, <1>5 DEF Jobs

(* A process whose plan and place stay does the same.                       *)
LEMMA SameJob ==
  ASSUME NEW q, plan'[q] = plan[q]
  PROVE  Job(q)' = Job(q) /\ This(q)' = This(q) /\ (index'[q] = index[q] => Table(q)' = Table(q))
BY DEF Job, This, Table

(* The table that a rebuild has come to.                                    *)
LEMMA TableIs ==
  ASSUME Sound, NEW p \in Processes, at[p] \in Rebuilding
  PROVE  /\ Table(p) \in Rebuilt(Job(p).version) /\ Job(p) \in plan[p] /\ Job(p) \in Jobs
         /\ Job(p).version \in Versions /\ This(p) \in Chain /\ This(p).version = Job(p).version
         /\ \/ Table(p) = "strategies" /\ Job(p).version = 6 /\ index[p] = 1
               /\ This(p).rebuilds = <<"strategies">>
            \/ /\ Job(p).version = 12 /\ This(p).rebuilds = Research /\ This(p).tables = {}
               /\ index[p] \in DOMAIN Research /\ Table(p) = Research[index[p]]
<1>1. Job(p) \in plan[p] /\ Job(p) \in Jobs /\ Job(p).version \in Versions
  BY JobIs DEF Sound, StepMatches
<1>2. This(p) \in Chain /\ This(p).version = Job(p).version
  BY <1>1, MigrationIs DEF This
<1>3. index[p] \in DOMAIN This(p).rebuilds
  BY DEF Sound, StepMatches
<1>4. Table(p) \in Rebuilt(Job(p).version)
  BY <1>3 DEF Table, This, Rebuilt
<1>5. \/ This(p).rebuilds = <<>>
      \/ This(p).rebuilds = <<"strategies">> /\ This(p).version = 6
      \/ This(p).rebuilds = Research /\ This(p).version = 12 /\ This(p).tables = {}
  BY <1>2, ChainIs
<1>6. CASE This(p).rebuilds = <<>>
  BY <1>3, <1>6
<1>7. CASE This(p).rebuilds = <<"strategies">> /\ This(p).version = 6
  BY <1>1, <1>2, <1>3, <1>4, <1>7 DEF Table
<1>8. CASE This(p).rebuilds = Research /\ This(p).version = 12 /\ This(p).tables = {}
  BY <1>1, <1>2, <1>3, <1>4, <1>8 DEF Table
<1> QED BY <1>5, <1>6, <1>7, <1>8


(* A step of one process leaves what the others have to do alone.           *)
LEMMA StepSound ==
  ASSUME Sound, TypeOK', NEW p \in Processes,
         \A q \in Processes \ {p} : at'[q] = at[q] /\ plan'[q] = plan[q] /\ index'[q] = index[q],
         legacy' \subseteq legacy \cup {"trades"}, reverted => reverted', tool' \subseteq tool \cup {p},
         StepMatches(p)', Past(p)'
  PROVE  Sound'
<1>1. \A q \in Processes \ {p} : StepMatches(q)'
  <2> SUFFICES ASSUME NEW q \in Processes \ {p} PROVE StepMatches(q)'
    OBVIOUS
  <2>1. StepMatches(q) /\ Job(q)' = Job(q) /\ This(q)' = This(q) /\ Table(q)' = Table(q)
    BY SameJob DEF Sound
  <2> QED BY <2>1 DEF StepMatches
<1>2. \A q \in Processes \ {p} : Past(q)'
  <2> SUFFICES ASSUME NEW q \in Processes \ {p}, at[q] \in Rebuilding \cup {"mark"} PROVE Past(q)'
    BY DEF Past
  <2>1. Past(q) /\ StepMatches(q) /\ This(q)' = This(q)
    BY SameJob DEF Sound
  <2>2. \A j \in DOMAIN This(q).rebuilds : This(q).rebuilds[j] # "trades"
    <3>1. plan[q] # {}
      BY <2>1 DEF StepMatches
    <3>2. This(q) \in Chain
      BY <3>1, JobIs, MigrationIs DEF This, Sound
    <3> QED BY <3>2, ChainIs, ResearchOnce
  <2> QED BY <2>1, <2>2 DEF Past
<1>3. LegacyOnes'
  <2> SUFFICES ASSUME NEW t \in legacy' PROVE \E v \in Versions : t \in Renewed(v)
    BY DEF LegacyOnes, Renewed, Rebuilt
  <2>1. CASE t \in legacy
    BY <2>1 DEF Sound, LegacyOnes
  <2>2. CASE t \notin legacy
    <3>1. t = "trades" /\ t \in Followed
      BY <2>2 DEF TypeOK
    <3>2. V004 \in Chain /\ V004.version = 4 /\ V004.alters = {"trades"}
      BY <3>1 DEF Chain, V004, Plain
    <3>3. 4 \in Versions /\ Migration[4] = V004
      BY VersionsAre, FirstMigrations
    <3> QED BY <3>1, <3>2, <3>3 DEF Renewed
  <2> QED BY <2>1, <2>2
<1> QED BY <1>1, <1>2, <1>3 DEF Sound

(* Nothing is due to a process that is between two jobs, or at none.        *)
LEMMA BetweenJobs ==
  ASSUME Sound, NEW p \in Processes, at'[p] \in {"work", "down", "serving"}, index'[p] = 1,
         plan'[p] \subseteq plan[p], at'[p] = "down" => p \notin tool'
  PROVE  StepMatches(p)' /\ Past(p)'
BY DEF Sound, StepMatches, Past, Rebuilding


-----------------------------------------------------------------------------
(* Every step leaves things sound.                                          *)

LEMMA JobAtWork ==
  ASSUME Sound, NEW p \in Processes, plan[p] # {}
  PROVE  /\ Job(p) \in plan[p] /\ Job(p) \in Jobs /\ Job(p).version \in Versions
         /\ This(p) \in Chain /\ This(p).version = Job(p).version
         /\ This(p).tables \subseteq Followed /\ This(p).drops \subseteq Followed
         /\ This(p).alters \subseteq {"trades"} \cap Followed
BY JobIs, MigrationIs, ChainIs DEF This, Sound

LEMMA BeginSound ==
  ASSUME Sound, NEW p \in Processes, NEW target, Begin(p, target), tool' \subseteq tool \cup {p},
         tools' \in 0..MaxTools
  PROVE  Sound'
<1>1. PlanFor(target) \in SUBSET Jobs
  BY DEF PlanFor, Jobs, Drifted
<1>2. TypeOK'
  BY <1>1 DEF Begin, TypeOK, Sound, Steps, schema, rows
<1>3. \A q \in Processes \ {p} : at'[q] = at[q] /\ plan'[q] = plan[q] /\ index'[q] = index[q]
  BY DEF Begin, Sound, TypeOK
<1>4. at'[p] = "work" /\ plan'[p] = PlanFor(target) /\ index'[p] = index[p] /\ at[p] = "down"
  BY DEF Begin, Sound, TypeOK
<1>5. StepMatches(p)'
  <2>1. index[p] = 1
    BY <1>4 DEF Sound, StepMatches, Rebuilding
  <2>2. \A j \in PlanFor(target) : j.op = "repair" => Migration[j.version].tables # {}
    BY DEF PlanFor, Drifted
  <2> QED BY <1>4, <2>1, <2>2 DEF StepMatches, Rebuilding
<1>6. Past(p)'
  BY <1>4 DEF Past, Rebuilding
<1> QED BY <1>2, <1>3, <1>5, <1>6, StepSound DEF Begin, schema

LEMMA CreateTablesSound == ASSUME Sound, NEW p \in Processes, CreateTables(p) PROVE Sound'
<1>1. at[p] = "work" /\ plan[p] # {} /\ Job(p).op \in {"up", "repair"} /\ index[p] = 1
  BY DEF CreateTables, Doing, Sound, StepMatches, Rebuilding
<1>2. This(p).tables \subseteq Followed /\ This(p) \in Chain
  BY <1>1, JobAtWork
<1>3. TypeOK'
  BY <1>1, <1>2 DEF CreateTables, GoTo, TypeOK, Sound, Steps, rows, notes
<1>4. \A q \in Processes \ {p} : at'[q] = at[q] /\ plan'[q] = plan[q] /\ index'[q] = index[q]
  BY DEF CreateTables, GoTo, Sound, TypeOK
<1>5. /\ at'[p] = IF This(p).rebuilds = <<>> THEN "mark" ELSE "check"
      /\ plan'[p] = plan[p] /\ index'[p] = index[p]
      /\ Job(p)' = Job(p) /\ This(p)' = This(p)
  BY SameJob DEF CreateTables, GoTo, Sound, TypeOK
<1>6. This(p).rebuilds # <<>> => 1 \in DOMAIN This(p).rebuilds
  BY <1>2, ChainIs, ResearchIs
<1>7. StepMatches(p)'
  BY <1>1, <1>5, <1>6 DEF Sound, StepMatches, Rebuilding
<1>8. Past(p)'
  <2>1. CASE This(p).rebuilds = <<>>
    BY <1>5, <2>1 DEF Past
  <2>2. CASE This(p).rebuilds # <<>>
    <3>1. \A j \in DOMAIN This(p).rebuilds : j \in Nat /\ j >= 1
      BY <1>2, <2>2, ChainIs, ResearchIs
    <3> QED BY <1>1, <1>5, <2>2, <3>1 DEF Past
  <2> QED BY <2>1, <2>2
<1> QED BY <1>3, <1>4, <1>7, <1>8, StepSound DEF CreateTables, notes

(* After a table comes the next one, or the marker.                         *)
LEMMA NextTableSound ==
  ASSUME Sound, TypeOK', NEW p \in Processes, at[p] \in Rebuilding, NextTable(p), reverted' = reverted,
         legacy' \subseteq legacy, Table(p) \notin legacy', tool' = tool
  PROVE  Sound'
<1>1. \A q \in Processes \ {p} : at'[q] = at[q] /\ plan'[q] = plan[q] /\ index'[q] = index[q]
  BY DEF NextTable, Sound, TypeOK
<1>2. plan'[p] = plan[p] /\ Job(p)' = Job(p) /\ This(p)' = This(p)
  BY SameJob DEF NextTable, Sound, TypeOK
<1>3. /\ plan[p] # {} /\ Job(p).op \in {"up", "repair"} /\ index[p] \in DOMAIN This(p).rebuilds
      /\ \A j \in plan[p] : j.op = "repair" => Migration[j.version].tables # {}
  BY DEF Sound, StepMatches
<1>4. DOMAIN This(p).rebuilds = 1..Len(This(p).rebuilds) /\ Len(This(p).rebuilds) \in Nat
  BY TableIs, ResearchIs
<1>5. \A j \in DOMAIN This(p).rebuilds : j <= index[p] => This(p).rebuilds[j] \notin legacy'
  <2> SUFFICES ASSUME NEW j \in DOMAIN This(p).rebuilds, j <= index[p]
               PROVE  This(p).rebuilds[j] \notin legacy'
    OBVIOUS
  <2>1. CASE j = index[p]
    BY <2>1 DEF Table
  <2>2. CASE j < index[p]
    BY <2>2 DEF Sound, Past
  <2> QED BY <1>3, <1>4, <2>1, <2>2
<1>6. CASE index[p] < Len(This(p).rebuilds)
  <2>1. at'[p] = "check" /\ index'[p] = index[p] + 1
    BY <1>6 DEF NextTable, Sound, TypeOK
  <2>2. StepMatches(p)'
    BY <1>2, <1>3, <1>4, <1>6, <2>1 DEF StepMatches, Rebuilding
  <2>3. Past(p)'
    BY <1>2, <1>3, <1>4, <1>5, <2>1 DEF Past
  <2> QED BY <1>1, <2>2, <2>3, StepSound
<1>7. CASE ~(index[p] < Len(This(p).rebuilds))
  <2>1. at'[p] = "mark" /\ index'[p] = 1
    BY <1>7 DEF NextTable, Sound, TypeOK
  <2>2. StepMatches(p)'
    BY <1>2, <1>3, <2>1 DEF StepMatches, Rebuilding
  <2>3. Past(p)'
    BY <1>2, <1>3, <1>4, <1>5, <1>7, <2>1 DEF Past
  <2> QED BY <1>1, <2>2, <2>3, StepSound
<1> QED BY <1>6, <1>7

LEMMA NextTableTypes ==
  ASSUME Sound, NEW p \in Processes, at[p] \in Rebuilding, NextTable(p)
  PROVE  at' \in [Processes -> Steps] /\ index' \in [Processes -> Nat]
         /\ plan' \in [Processes -> SUBSET Jobs]
<1>1. at \in [Processes -> Steps] /\ index \in [Processes -> Nat] /\ plan \in [Processes -> SUBSET Jobs]
  BY DEF Sound, TypeOK
<1>2. index[p] + 1 \in Nat /\ 1 \in Nat /\ "check" \in Steps /\ "mark" \in Steps
  BY <1>1 DEF Steps
<1>3. CASE index[p] < Len(This(p).rebuilds)
  BY <1>1, <1>2, <1>3 DEF NextTable
<1>4. CASE ~(index[p] < Len(This(p).rebuilds))
  BY <1>1, <1>2, <1>4 DEF NextTable
<1> QED BY <1>3, <1>4


LEMMA CheckTableSound == ASSUME Sound, NEW p \in Processes, CheckTable(p) PROVE Sound'
<1>1. at[p] = "check" /\ at[p] \in Rebuilding
  BY DEF CheckTable, Rebuilding
<1>2. {Table(p)} \cap This(p).tables \subseteq Followed
  BY <1>1, TableIs, ChainIs
<1>3. CASE Table(p) \in legacy
  <2>1. at'[p] = "aside" /\ plan' = plan /\ index' = index /\ exist' = exist
        /\ \A q \in Processes \ {p} : at'[q] = at[q]
    BY <1>3 DEF CheckTable, GoTo, Sound, TypeOK
  <2>2. TypeOK'
    BY <1>3 DEF CheckTable, GoTo, Sound, TypeOK, Steps, rows, notes
  <2>3. Job(p)' = Job(p) /\ This(p)' = This(p) /\ Table(p)' = Table(p) /\ Table(p) \in Followed
    BY <1>3, <2>1, SameJob DEF Sound, TypeOK
  <2>4. StepMatches(p)' /\ Past(p)'
    BY <1>1, <2>1, <2>3 DEF CheckTable, notes, Sound, StepMatches, Past, Rebuilding
  <2> QED BY <2>1, <2>2, <2>4, StepSound DEF CheckTable, notes
<1>4. CASE Table(p) \notin legacy
  <2>1. NextTable(p) /\ exist' = exist \cup ({Table(p)} \cap This(p).tables)
    BY <1>4 DEF CheckTable
  <2>2. TypeOK'
    BY <1>1, <1>2, <2>1, NextTableTypes DEF CheckTable, Sound, TypeOK, rows, notes
  <2> QED BY <1>1, <1>4, <2>1, <2>2, NextTableSound DEF CheckTable, notes
<1> QED BY <1>3, <1>4

LEMMA SetAsideSound == ASSUME Sound, NEW p \in Processes, SetAside(p) PROVE Sound'
<1>1. at[p] = "aside" /\ at[p] \in Rebuilding
  BY DEF SetAside, Rebuilding
<1>2. at'[p] = "create" /\ plan' = plan /\ index' = index
      /\ \A q \in Processes \ {p} : at'[q] = at[q]
  BY DEF SetAside, GoTo, Sound, TypeOK
<1>3. TypeOK'
  BY DEF SetAside, CanSetAside, GoTo, Sound, TypeOK, Steps, notes
<1>4. Job(p)' = Job(p) /\ This(p)' = This(p) /\ Table(p)' = Table(p)
  BY <1>2, SameJob
<1>5. StepMatches(p)'
  BY <1>1, <1>2, <1>4 DEF SetAside, notes, Sound, StepMatches, Rebuilding
<1>6. Past(p)'
  BY <1>1, <1>2, <1>4 DEF SetAside, Sound, Past, Rebuilding, Table
<1> QED BY <1>2, <1>3, <1>5, <1>6, StepSound DEF SetAside, notes

LEMMA CreateAnewSound == ASSUME Sound, NEW p \in Processes, CreateAnew(p) PROVE Sound'
<1>1. at[p] = "create" /\ at[p] \in Rebuilding
  BY DEF CreateAnew, Rebuilding
<1>2. at'[p] = "copy" /\ plan' = plan /\ index' = index
      /\ \A q \in Processes \ {p} : at'[q] = at[q]
  BY DEF CreateAnew, GoTo, Sound, TypeOK
<1>3. Table(p) \in Followed
  BY <1>1 DEF Sound, StepMatches
<1>4. TypeOK'
  BY <1>3 DEF CreateAnew, GoTo, Sound, TypeOK, Steps, rows, notes
<1>5. Job(p)' = Job(p) /\ This(p)' = This(p) /\ Table(p)' = Table(p)
  BY <1>2, SameJob
<1>6. StepMatches(p)'
  BY <1>1, <1>2, <1>5 DEF CreateAnew, notes, Sound, StepMatches, Rebuilding
<1>7. Past(p)'
  BY <1>1, <1>2, <1>5 DEF CreateAnew, Sound, Past, Rebuilding
<1> QED BY <1>2, <1>4, <1>6, <1>7, StepSound DEF CreateAnew, notes

(* Who copies a table has it aside.                                         *)
LEMMA CopyStrategiesSound == ASSUME Sound, NEW p \in Processes, CopyStrategies(p) PROVE Sound'
<1>1. at[p] = "copy" /\ at[p] \in Rebuilding /\ Table(p) \in exist /\ NextTable(p)
  BY DEF CopyStrategies, CanCopyStrategies, Rebuilding
<1>2. TypeOK'
  BY <1>1, NextTableTypes DEF CopyStrategies, Sound, TypeOK, notes
<1>3. Table(p) \notin legacy
  BY <1>1, TableIs DEF Sound, Past, StepMatches, Rebuilding, Table
<1> QED BY <1>1, <1>2, <1>3, NextTableSound DEF CopyStrategies, notes

LEMMA DropEmptySound == ASSUME Sound, NEW p \in Processes, DropEmpty(p) PROVE Sound'
<1>1. at[p] = "copy" /\ at[p] \in Rebuilding /\ NextTable(p)
  BY DEF DropEmpty, Rebuilding
<1>2. TypeOK'
  BY <1>1, NextTableTypes DEF DropEmpty, Sound, TypeOK, rows, notes
<1>3. Table(p) \notin legacy
  BY <1>1, TableIs DEF Sound, Past, StepMatches, Rebuilding, Table
<1> QED BY <1>1, <1>2, <1>3, NextTableSound DEF DropEmpty, notes

(* A job that is done goes from the plan.                                   *)
LEMMA EndJobSound ==
  ASSUME Sound, TypeOK', NEW p \in Processes, plan[p] # {}, EndJob(p), reverted => reverted',
         legacy' \subseteq legacy \cup {"trades"}, tool' = tool
  PROVE  Sound'
<1>1. /\ at'[p] = "work" /\ index'[p] = 1 /\ plan'[p] \subseteq plan[p]
      /\ \A q \in Processes \ {p} : at'[q] = at[q] /\ plan'[q] = plan[q] /\ index'[q] = index[q]
  BY DEF EndJob, Sound, TypeOK
<1>2. StepMatches(p)' /\ Past(p)'
  BY <1>1, BetweenJobs
<1> QED BY <1>1, <1>2, StepSound

LEMMA EndJobTypes ==
  ASSUME Sound, NEW p \in Processes, EndJob(p)
  PROVE  at' \in [Processes -> Steps] /\ index' \in [Processes -> Nat]
         /\ plan' \in [Processes -> SUBSET Jobs]
<1>1. at \in [Processes -> Steps] /\ index \in [Processes -> Nat] /\ plan \in [Processes -> SUBSET Jobs]
  BY DEF Sound, TypeOK
<1>2. "work" \in Steps /\ 1 \in Nat /\ plan[p] \ {Job(p)} \in SUBSET Jobs
  BY <1>1 DEF Steps
<1> QED BY <1>1, <1>2 DEF EndJob

LEMMA CopyRowsSound == ASSUME Sound, NEW p \in Processes, CopyRows(p) PROVE Sound'
<1>1. at[p] = "copy" /\ at[p] \in Rebuilding /\ EndJob(p) /\ Table(p) \in exist /\ plan[p] # {}
  BY DEF CopyRows, CopyResearch, CanCopyResearch, Rebuilding, Sound, StepMatches
<1>2. Job(p).version \in Versions
  BY <1>1, TableIs
<1>3. Referring(Copied(p), Copied(p)) \subseteq stored \cup {Table(p)}
  BY DEF Referring, Copied
<1>4. TypeOK'
  BY <1>1, <1>2, <1>3, EndJobTypes DEF CopyRows, CopyResearch, Sound, TypeOK, notes
<1> QED BY <1>1, <1>4, EndJobSound DEF CopyRows, CopyResearch, notes

LEMMA MarkSound == ASSUME Sound, NEW p \in Processes, Mark(p) PROVE Sound'
<1>1. at[p] = "mark" /\ EndJob(p) /\ plan[p] # {}
  BY DEF Mark, Sound, StepMatches
<1>2. Job(p).version \in Versions
  BY <1>1, JobAtWork
<1>3. TypeOK'
  BY <1>1, <1>2, EndJobTypes DEF Mark, Sound, TypeOK, rows, notes
<1> QED BY <1>1, <1>3, EndJobSound DEF Mark, notes

LEMMA UnmarkSound == ASSUME Sound, NEW p \in Processes, Unmark(p) PROVE Sound'
<1>1. at[p] = "work" /\ plan[p] # {} /\ Job(p).op = "down" /\ index[p] = 1
  BY DEF Unmark, Doing, Sound, StepMatches, Rebuilding
<1>2. at'[p] = "drop" /\ plan' = plan /\ index' = index
      /\ \A q \in Processes \ {p} : at'[q] = at[q]
  BY DEF Unmark, GoTo, Sound, TypeOK
<1>3. TypeOK'
  BY DEF Unmark, GoTo, Sound, TypeOK, Steps, rows
<1>4. Job(p)' = Job(p)
  BY <1>2, SameJob
<1>5. StepMatches(p)' /\ Past(p)'
  BY <1>1, <1>2, <1>4 DEF Unmark, Sound, StepMatches, Past, Rebuilding
<1> QED BY <1>2, <1>3, <1>5, StepSound DEF Unmark

LEMMA DropTablesSound == ASSUME Sound, NEW p \in Processes, DropTables(p) PROVE Sound'
<1>1. at[p] = "drop" /\ EndJob(p) /\ plan[p] # {}
  BY DEF DropTables, Sound, StepMatches
<1>2. /\ This(p).alters \subseteq {"trades"} \cap Followed /\ This(p).drops \subseteq Followed
      /\ This(p).alters # {} => This(p).drops = {}
  BY <1>1, JobAtWork, ChainIs
<1>3. TypeOK'
  BY <1>1, <1>2, EndJobTypes DEF DropTables, Sound, TypeOK, notes
<1> QED BY <1>1, <1>2, <1>3, EndJobSound DEF DropTables, notes

LEMMA RepositoriesFollowed == RepositoryTables \subseteq Followed
BY DEF RepositoryTables

LEMMA ServeSound == ASSUME Sound, NEW p \in Processes, Serve(p) PROVE Sound'
<1>1. at[p] = "work" /\ index[p] = 1
  BY DEF Serve, Sound, StepMatches, Rebuilding
<1>2. at'[p] = "serving" /\ plan' = plan /\ index' = index
      /\ \A q \in Processes \ {p} : at'[q] = at[q]
  BY DEF Serve, GoTo, Sound, TypeOK
<1>3. TypeOK'
  BY RepositoriesFollowed DEF Serve, GoTo, Sound, TypeOK, Steps, rows, notes
<1>4. StepMatches(p)' /\ Past(p)'
  BY <1>1, <1>2, BetweenJobs
<1> QED BY <1>2, <1>3, <1>4, StepSound DEF Serve, notes

LEMMA EndToolSound == ASSUME Sound, NEW p \in Processes, EndTool(p) PROVE Sound'
<1>1. at[p] = "work" /\ index[p] = 1
  BY DEF EndTool, Sound, StepMatches, Rebuilding
<1>2. at'[p] = "down" /\ plan' = plan /\ index' = index
      /\ \A q \in Processes \ {p} : at'[q] = at[q]
  BY DEF EndTool, GoTo, Sound, TypeOK
<1>3. TypeOK'
  BY DEF EndTool, GoTo, Sound, TypeOK, Steps, schema, rows
<1>4. StepMatches(p)' /\ Past(p)'
  BY <1>1, <1>2, BetweenJobs DEF EndTool
<1> QED BY <1>2, <1>3, <1>4, StepSound DEF EndTool, schema


LEMMA StoreSound ==
  ASSUME Sound, NEW p \in Processes, NEW t \in Followed, Store(p, t) PROVE Sound'
<1>1. TypeOK'
  BY DEF Store, Sound, TypeOK, schema, procs, notes
<1>2. at' = at /\ plan' = plan /\ index' = index /\ tool' = tool /\ reverted' = reverted /\ legacy' = legacy
  BY DEF Store, schema, procs, notes
<1>3. \A q \in Processes : Job(q)' = Job(q) /\ This(q)' = This(q) /\ Table(q)' = Table(q)
  BY <1>2, SameJob
<1>4. \A q \in Processes : StepMatches(q)' /\ Past(q)'
  BY <1>2, <1>3 DEF Sound, StepMatches, Past
<1>5. LegacyOnes'
  BY <1>2 DEF Sound, LegacyOnes, Renewed, Rebuilt
<1> QED BY <1>1, <1>4, <1>5 DEF Sound

LEMMA EndsSound ==
  ASSUME Sound, NEW p \in Processes, Ends(p), legacy' = legacy,
         exist \subseteq exist', exist' \subseteq Followed, crashes' \in 0..MaxCrashes
  PROVE  Sound'
<1>1. /\ at'[p] = "down" /\ index'[p] = 1 /\ plan'[p] = {} /\ p \notin tool'
      /\ \A q \in Processes \ {p} : at'[q] = at[q] /\ plan'[q] = plan[q] /\ index'[q] = index[q]
  BY DEF Ends, Sound, TypeOK
<1>2. at[p] \in Rebuilding => Table(p) \in Followed \/ at[p] = "check"
  BY DEF Sound, StepMatches, Rebuilding
<1>3. interrupted' \subseteq Followed
  BY <1>2 DEF Ends, Sound, TypeOK, Rebuilding
<1>4. TypeOK'
  <2>1. at' \in [Processes -> Steps] /\ index' \in [Processes -> Nat] /\ plan' \in [Processes -> SUBSET Jobs]
    BY DEF Ends, Sound, TypeOK, Steps
  <2> QED BY <1>3, <2>1 DEF Ends, Sound, TypeOK, rows
<1>5. StepMatches(p)' /\ Past(p)'
  BY <1>1, BetweenJobs
<1> QED BY <1>1, <1>4, <1>5, StepSound DEF Ends

LEMMA RefuseSound == ASSUME Sound, NEW p \in Processes, Refuse(p) PROVE Sound'
BY EndsSound DEF Refuse, Sound, TypeOK

LEMMA CrashSound == ASSUME Sound, NEW p \in Processes, Crash(p) PROVE Sound'
<1>1. PICK made \in {{}} \cup (IF Doing(p, {"up", "repair"}) THEN SUBSET This(p).tables ELSE {}) :
        exist' = exist \cup (made \ {"strategies"})
  BY DEF Crash
<1>2. made \subseteq Followed
  <2>1. CASE Doing(p, {"up", "repair"})
    BY <1>1, <2>1, JobAtWork DEF Doing
  <2>2. CASE ~Doing(p, {"up", "repair"})
    BY <1>1, <2>2
  <2> QED BY <2>1, <2>2
<1>3. crashes' \in 0..MaxCrashes
  BY DatabaseAssumption DEF Crash, Sound, TypeOK
<1> QED BY <1>1, <1>2, <1>3, EndsSound DEF Crash, Sound, TypeOK

LEMMA SoundInit == ASSUME Init PROVE Sound
<1>1. PICK v \in StartVersions, old \in BOOLEAN :
        LET due == UNION {Migration[u].alters \cup {Migration[u].rebuilds[k] :
                            k \in DOMAIN Migration[u].rebuilds} : u \in {w \in Versions : w > v}}
        IN  /\ marks = {u \in Versions : u <= v}
            /\ exist = IF v = 0 THEN {}
                       ELSE TablesUpTo[v]
                              \cup (Followed \cap (IF old THEN {"trades", "strategies"} ELSE {"trades"}))
            /\ legacy = IF old THEN exist \cap due ELSE {}
  BY DEF Init
<1>2. \A t \in legacy : \E u \in Versions : t \in Renewed(u)
  BY <1>1 DEF Renewed, Rebuilt
<1>3. exist \subseteq Followed
  <2>1. CASE v = 0
    BY <1>1, <2>1
  <2>2. CASE v # 0
    <3>1. v \in Versions
      BY <2>2, DatabaseAssumption
    <3>2. TablesUpTo[v] \subseteq Followed
      BY <3>1, MigrationIs, ChainIs DEF TablesUpTo
    <3> QED BY <1>1, <2>2, <3>2
  <2> QED BY <2>1, <2>2
<1>4. TypeOK
  <2>1. legacy \subseteq exist /\ marks \subseteq Versions
    BY <1>1
  <2>2. at \in [Processes -> Steps] /\ index \in [Processes -> Nat] /\ plan \in [Processes -> SUBSET Jobs]
    BY DEF Init, Steps
  <2>3. crashes \in 0..MaxCrashes /\ tools \in 0..MaxTools
    BY DatabaseAssumption DEF Init
  <2> QED BY <1>3, <2>1, <2>2, <2>3 DEF Init, TypeOK
<1>5. \A p \in Processes : at[p] = "down" /\ plan[p] = {} /\ index[p] = 1 /\ tool = {}
  BY DEF Init
<1>6. \A p \in Processes : StepMatches(p) /\ Past(p)
  BY <1>5 DEF StepMatches, Past, Rebuilding
<1> QED BY <1>2, <1>4, <1>6 DEF Sound, LegacyOnes

LEMMA RunToolSound == ASSUME Sound, NEW p \in Processes, RunTool(p) PROVE Sound'
<1>1. PICK v \in Targets : Begin(p, v)
  BY DEF RunTool
<1>2. tools' \in 0..MaxTools
  BY DatabaseAssumption DEF RunTool, Sound, TypeOK
<1> QED BY <1>1, <1>2, BeginSound DEF RunTool

LEMMA BootSound == ASSUME Sound, NEW p \in Processes, Boot(p) PROVE Sound'
BY BeginSound DEF Boot, Sound, TypeOK

LEMMA StutterSound == ASSUME Sound, UNCHANGED vars PROVE Sound'
<1>1. \A q \in Processes : Job(q)' = Job(q) /\ This(q)' = This(q) /\ Table(q)' = Table(q)
  BY SameJob DEF vars, procs
<1>2. TypeOK'
  BY DEF Sound, TypeOK, vars, schema, rows, procs, notes
<1>3. \A q \in Processes : StepMatches(q)' /\ Past(q)'
  BY <1>1 DEF Sound, StepMatches, Past, vars, schema, procs, notes
<1> QED BY <1>2, <1>3 DEF Sound, LegacyOnes, Renewed, Rebuilt, vars, schema

LEMMA SoundNext == ASSUME Sound, [Next]_vars PROVE Sound'
<1>1. ASSUME NEW p \in Processes, Step(p) PROVE Sound'
  BY <1>1, BootSound, CreateTablesSound, CheckTableSound, SetAsideSound, CreateAnewSound,
     CopyStrategiesSound, DropEmptySound, CopyRowsSound, MarkSound, UnmarkSound, DropTablesSound,
     ServeSound, EndToolSound, RefuseSound DEF Step
<1> QED BY <1>1, CrashSound, RunToolSound, StoreSound, StutterSound DEF Next

LEMMA SoundAlways == Spec => []Sound
<1>1. Init => Sound
  BY SoundInit
<1>2. Sound /\ [Next]_vars => Sound'
  BY SoundNext
<1> QED BY <1>1, <1>2, PTL DEF Spec


-----------------------------------------------------------------------------
(* Rows survive.  A row is in its table, or aside with its table; only a     *)
(* process that is on its way from the one to the other, or was killed on    *)
(* that way, has it aside.  For the keys: parents are rebuilt before their   *)
(* children and in the same transaction, if there is no other migration and  *)
(* none was killed; so the tables that are of the older shape still are the  *)
(* last ones, and the row that one of them refers to is there, or its table  *)
(* was interrupted, or it waits beside the process that rebuilds its table.  *)

EverKept == ever \subseteq stored \cup kept \cup dropped
Moving == {"create", "copy"}
KeptIsRebuilt ==
  \A t \in kept \ interrupted : \E p \in Processes : at[p] \in Moving /\ Table(p) = t

\* What the rebuild has not come to yet are the last tables.
Suffix ==
  \A i, j \in DOMAIN Research :
    i < j /\ Research[i] \in legacy /\ Research[j] \in Followed => Research[j] \in legacy
LegacyParents ==
  \A t \in legacy \cap stored : Parent(t) # "none" /\ Parent(t) \in legacy => Parent(t) \in stored

Alone == \A p, q \in Migrating : p = q
Under(p) ==
  /\ at[p] = "aside" => Table(p) \in legacy
  /\ at[p] \in Moving =>
       \A i, j \in DOMAIN Research :
         i < j /\ Research[i] = Table(p) /\ Research[j] \in Followed => Research[j] \in legacy
Orphan(t) ==
  \/ Parent(t) = "none" \/ Parent(t) \in legacy \cup interrupted
  \/ \E p \in Processes : at[p] \in Moving /\ Table(p) = Parent(t) /\ Parent(t) \in kept
ParentInterrupted(p) ==
  at[p] \in Moving /\ Table(p) \in kept /\ Parent(Table(p)) # "none" =>
    Parent(Table(p)) \in interrupted

Undisturbed ==
  /\ Alone
  /\ \A p \in Processes : Under(p) /\ ParentInterrupted(p)
  /\ \A t \in legacy \cap stored : Orphan(t)
  /\ \A t \in dangling : Parent(t) \in interrupted

RowsInv == EverKept /\ KeptIsRebuilt /\ Suffix /\ LegacyParents /\ (~raced => Undisturbed)

LEMMA AloneNext ==
  ASSUME NEW p \in Processes, Alone, \A q \in Processes \ {p} : at'[q] = at[q],
         at'[p] \in {"down", "serving"} \/ p \in Migrating \/ Migrating = {}
  PROVE  Alone'
<1> SUFFICES ASSUME NEW q \in Migrating', NEW r \in Migrating' PROVE q = r
  BY DEF Alone
<1>1. \A u \in Migrating' : u \in Migrating \/ (u = p /\ at'[p] \notin {"down", "serving"})
  BY DEF Migrating
<1> QED BY <1>1 DEF Alone

(* A step that does not begin or end a rebuild of a table, and leaves the    *)
(* rows of the research tables alone.                                       *)
LEMMA MovesRows ==
  ASSUME Sound, RowsInv, NEW p \in Processes,
         \A q \in Processes \ {p} : at'[q] = at[q] /\ plan'[q] = plan[q] /\ index'[q] = index[q],
         at'[p] \notin Moving, Under(p)', EverKept', kept' \subseteq kept,
         interrupted \subseteq interrupted', dangling' = dangling,
         raced => raced', legacy' \ {"trades"} = legacy \ {"trades"},
         at'[p] \in {"down", "serving"} \/ p \in Migrating \/ Migrating = {} \/ raced',
         at[p] \in Moving => Table(p) \notin kept' \/ Table(p) \in interrupted',
         \A t \in ResearchTables : (t \in stored' <=> t \in stored) /\ (t \in kept' <=> t \in kept)
  PROVE  RowsInv'
<1> \A t \in ResearchTables : t \in legacy' <=> t \in legacy
  BY ResearchAre
<1>1. \A q \in Processes \ {p} : Job(q)' = Job(q) /\ Table(q)' = Table(q)
  BY SameJob
<1>2. KeptIsRebuilt'
  <2> SUFFICES ASSUME NEW t \in kept' \ interrupted'
               PROVE  \E q \in Processes : at'[q] \in Moving /\ Table(q)' = t
    BY DEF KeptIsRebuilt, Moving
  <2>1. PICK q \in Processes : at[q] \in Moving /\ Table(q) = t
    BY DEF RowsInv, KeptIsRebuilt
  <2>2. q # p
    BY <2>1
  <2> QED BY <1>1, <2>1, <2>2
<1>3. Suffix'
  <2> SUFFICES ASSUME NEW i \in DOMAIN Research, NEW j \in DOMAIN Research,
                      i < j, Research[i] \in legacy', Research[j] \in Followed
               PROVE  Research[j] \in legacy'
    BY DEF Suffix
  <2>1. Research[i] \in legacy /\ Research[j] \in ResearchTables
    BY ResearchOnce, ResearchAre
  <2> QED BY <2>1 DEF RowsInv, Suffix
<1>4. LegacyParents'
  <2> SUFFICES ASSUME NEW t \in legacy' \cap stored', Parent(t) # "none", Parent(t) \in legacy'
               PROVE  Parent(t) \in stored'
    BY DEF LegacyParents
  <2>1. t \in ResearchTables /\ Parent(t) \in ResearchTables
    BY ParentIs
  <2> QED BY <2>1 DEF RowsInv, LegacyParents
<1>5. ASSUME ~raced' PROVE Undisturbed'
  <2>1. Undisturbed
    BY <1>5 DEF RowsInv
  <2>2. Alone'
    BY <1>5, <2>1, AloneNext DEF Undisturbed
  <2>3. \A q \in Processes : ParentInterrupted(q)'
    <3> SUFFICES ASSUME NEW q \in Processes, at'[q] \in Moving, Table(q)' \in kept',
                        Parent(Table(q)') # "none"
                 PROVE  Parent(Table(q)') \in interrupted'
      BY DEF ParentInterrupted, Moving, Parent, Refers
    <3>1. q # p /\ Table(q)' = Table(q)
      BY <1>1
    <3> QED BY <2>1, <3>1 DEF Undisturbed, ParentInterrupted
  <2>4. \A q \in Processes : Under(q)'
    <3> SUFFICES ASSUME NEW q \in Processes \ {p} PROVE Under(q)'
      OBVIOUS
    <3>1. Under(q) /\ Table(q)' = Table(q) /\ at'[q] = at[q]
      BY <1>1, <2>1 DEF Undisturbed
    <3>2. at[q] \in {"aside"} \cup Moving => q \in Migrating
      BY DEF Migrating, Moving
    <3>3. at[q] = "aside" => Table(q) \in legacy'
      <4> SUFFICES ASSUME at[q] = "aside" PROVE Table(q) \in legacy'
        OBVIOUS
      <4>1. Table(q) # "trades"
        BY TableIs, ResearchOnce DEF Rebuilding
      <4> QED BY <3>1, <4>1 DEF Under
    <3>4. at[q] \in Moving =>
            \A i, j \in DOMAIN Research :
              i < j /\ Research[i] = Table(q) /\ Research[j] \in Followed => Research[j] \in legacy'
      BY <3>1, ResearchAre DEF Under
    <3> QED BY <3>1, <3>3, <3>4 DEF Under, Moving
  <2>5. \A t \in legacy' \cap stored' : Orphan(t)'
    <3> SUFFICES ASSUME NEW t \in legacy' \cap stored', Parent(t) # "none" PROVE Orphan(t)'
      BY DEF Orphan
    <3>1. t \in ResearchTables /\ Parent(t) \in ResearchTables
      BY ParentIs
    <3>2. Orphan(t)
      BY <2>1, <3>1 DEF Undisturbed
    <3>3. CASE Parent(t) \in legacy \cup interrupted
      BY <3>1, <3>3 DEF Orphan
    <3>4. CASE \E q \in Processes : at[q] \in Moving /\ Table(q) = Parent(t) /\ Parent(t) \in kept
      <4>1. PICK q \in Processes : at[q] \in Moving /\ Table(q) = Parent(t) /\ Parent(t) \in kept
        BY <3>4
      <4>2. CASE q = p
        BY <3>1, <4>1, <4>2 DEF Orphan
      <4>3. CASE q # p
        BY <1>1, <3>1, <4>1, <4>3 DEF Orphan
      <4> QED BY <4>2, <4>3
    <3> QED BY <3>2, <3>3, <3>4 DEF Orphan
  <2>6. \A t \in dangling' : Parent(t) \in interrupted'
    BY <2>1 DEF Undisturbed
  <2> QED BY <2>2, <2>3, <2>4, <2>5, <2>6 DEF Undisturbed
<1> QED BY <1>2, <1>3, <1>4, <1>5 DEF RowsInv


LEMMA BeginRows ==
  ASSUME Sound, RowsInv, NEW p \in Processes, NEW target, Begin(p, target) PROVE RowsInv'
<1>1. /\ at'[p] = "work" /\ at[p] = "down"
      /\ \A q \in Processes \ {p} : at'[q] = at[q] /\ plan'[q] = plan[q] /\ index'[q] = index[q]
  BY DEF Begin, Sound, TypeOK
<1>2. EverKept' /\ Under(p)'
  BY <1>1 DEF Begin, rows, RowsInv, EverKept, Under, Moving
<1>3. Migrating = {} \/ raced'
  BY DEF Begin
<1> QED BY <1>1, <1>2, <1>3, MovesRows DEF Begin, rows, schema, Moving

(* A step within a job, or at its end, of a process that is migrating.      *)
LEMMA WorkRows ==
  ASSUME Sound, RowsInv, NEW p \in Processes, at[p] \notin {"down", "serving"},
         \A q \in Processes \ {p} : at'[q] = at[q] /\ plan'[q] = plan[q] /\ index'[q] = index[q],
         at[p] \notin Moving, at'[p] \notin {"aside"} \cup Moving,
         UNCHANGED rows, interrupted' = interrupted, raced' = raced,
         legacy \ {"trades"} \subseteq legacy', legacy' \subseteq legacy
  PROVE  RowsInv'
<1>1. EverKept' /\ Under(p)'
  BY DEF rows, RowsInv, EverKept, Under
<1>2. p \in Migrating
  BY DEF Migrating
<1> QED BY <1>1, <1>2, MovesRows DEF rows

LEMMA CreateTablesRows ==
  ASSUME Sound, RowsInv, NEW p \in Processes, CreateTables(p) PROVE RowsInv'
<1>1. This(p).alters \subseteq {"trades"} /\ at[p] = "work"
  BY JobAtWork DEF CreateTables, Doing
<1>2. /\ at'[p] \in {"mark", "check"}
      /\ \A q \in Processes \ {p} : at'[q] = at[q] /\ plan'[q] = plan[q] /\ index'[q] = index[q]
  BY DEF CreateTables, GoTo, Sound, TypeOK
<1> QED BY <1>1, <1>2, WorkRows DEF CreateTables, notes, Moving

LEMMA CheckTableRows ==
  ASSUME Sound, RowsInv, NEW p \in Processes, CheckTable(p) PROVE RowsInv'
<1>1. CASE Table(p) \in legacy
  <2>1. /\ at'[p] = "aside" /\ at[p] = "check" /\ plan' = plan /\ index' = index
        /\ \A q \in Processes \ {p} : at'[q] = at[q]
    BY <1>1 DEF CheckTable, GoTo, Sound, TypeOK
  <2>2. Under(p)'
    BY <1>1, <2>1, SameJob DEF Under, CheckTable, Moving
  <2>3. EverKept' /\ p \in Migrating
    BY <2>1 DEF CheckTable, rows, RowsInv, EverKept, Migrating
  <2> QED BY <2>1, <2>2, <2>3, MovesRows DEF CheckTable, rows, notes, Moving
<1>2. CASE Table(p) \notin legacy
  <2>1. /\ at'[p] \in {"mark", "check"} /\ at[p] = "check"
        /\ \A q \in Processes \ {p} : at'[q] = at[q] /\ plan'[q] = plan[q] /\ index'[q] = index[q]
    BY <1>2 DEF CheckTable, NextTable, Sound, TypeOK
  <2> QED BY <2>1, WorkRows DEF CheckTable, notes, Moving
<1> QED BY <1>1, <1>2

LEMMA MarkRows == ASSUME Sound, RowsInv, NEW p \in Processes, Mark(p) PROVE RowsInv'
<1>1. /\ at'[p] = "work" /\ at[p] = "mark"
      /\ \A q \in Processes \ {p} : at'[q] = at[q] /\ plan'[q] = plan[q] /\ index'[q] = index[q]
  BY DEF Mark, EndJob, Sound, TypeOK
<1> QED BY <1>1, WorkRows DEF Mark, notes, Moving

LEMMA UnmarkRows == ASSUME Sound, RowsInv, NEW p \in Processes, Unmark(p) PROVE RowsInv'
<1>1. /\ at'[p] = "drop" /\ at[p] = "work"
      /\ \A q \in Processes \ {p} : at'[q] = at[q] /\ plan'[q] = plan[q] /\ index'[q] = index[q]
  BY DEF Unmark, Doing, GoTo, Sound, TypeOK
<1> QED BY <1>1, WorkRows DEF Unmark, Moving

LEMMA ServeRows == ASSUME Sound, RowsInv, NEW p \in Processes, Serve(p) PROVE RowsInv'
<1>1. /\ at'[p] = "serving" /\ at[p] = "work"
      /\ \A q \in Processes \ {p} : at'[q] = at[q] /\ plan'[q] = plan[q] /\ index'[q] = index[q]
  BY DEF Serve, GoTo, Sound, TypeOK
<1> QED BY <1>1, WorkRows DEF Serve, notes, Moving

LEMMA EndToolRows == ASSUME Sound, RowsInv, NEW p \in Processes, EndTool(p) PROVE RowsInv'
<1>1. /\ at'[p] = "down" /\ at[p] = "work"
      /\ \A q \in Processes \ {p} : at'[q] = at[q] /\ plan'[q] = plan[q] /\ index'[q] = index[q]
  BY DEF EndTool, GoTo, Sound, TypeOK
<1> QED BY <1>1, WorkRows DEF EndTool, schema, Moving

LEMMA EndsRows ==
  ASSUME Sound, RowsInv, NEW p \in Processes, Ends(p), legacy' = legacy PROVE RowsInv'
<1>1. /\ at'[p] = "down"
      /\ \A q \in Processes \ {p} : at'[q] = at[q] /\ plan'[q] = plan[q] /\ index'[q] = index[q]
  BY DEF Ends, Sound, TypeOK
<1>2. EverKept' /\ Under(p)'
  BY <1>1 DEF Ends, rows, RowsInv, EverKept, Under, Moving
<1>3. /\ interrupted \subseteq interrupted' /\ raced' = raced
      /\ at[p] \in Moving => Table(p) \in interrupted'
  BY DEF Ends, Moving
<1> QED BY <1>1, <1>2, <1>3, MovesRows DEF Ends, rows, Moving

LEMMA NextTablePlace ==
  ASSUME Sound, NEW p \in Processes, NextTable(p)
  PROVE  /\ at'[p] \in {"mark", "check"}
         /\ \A q \in Processes \ {p} : at'[q] = at[q] /\ plan'[q] = plan[q] /\ index'[q] = index[q]
BY DEF NextTable, Sound, TypeOK

LEMMA CopyStrategiesRows ==
  ASSUME Sound, RowsInv, NEW p \in Processes, CopyStrategies(p) PROVE RowsInv'
<1>1. /\ at'[p] \in {"mark", "check"} /\ at[p] = "copy" /\ Table(p) = "strategies"
      /\ \A q \in Processes \ {p} : at'[q] = at[q] /\ plan'[q] = plan[q] /\ index'[q] = index[q]
  BY NextTablePlace DEF CopyStrategies
<1>2. EverKept' /\ Under(p)' /\ p \in Migrating
  BY <1>1 DEF CopyStrategies, RowsInv, EverKept, Under, Moving, Migrating
<1>3. \A t \in ResearchTables : (t \in stored' <=> t \in stored) /\ (t \in kept' <=> t \in kept)
  BY <1>1, ResearchAre DEF CopyStrategies
<1> QED BY <1>1, <1>2, <1>3, MovesRows DEF CopyStrategies, notes, Moving

LEMMA DropEmptyRows ==
  ASSUME Sound, RowsInv, NEW p \in Processes, DropEmpty(p) PROVE RowsInv'
<1>1. /\ at'[p] \in {"mark", "check"} /\ at[p] = "copy" /\ Table(p) \notin kept
      /\ \A q \in Processes \ {p} : at'[q] = at[q] /\ plan'[q] = plan[q] /\ index'[q] = index[q]
  BY NextTablePlace DEF DropEmpty
<1>2. EverKept' /\ Under(p)' /\ p \in Migrating
  BY <1>1 DEF DropEmpty, rows, RowsInv, EverKept, Under, Moving, Migrating
<1> QED BY <1>1, <1>2, MovesRows DEF DropEmpty, rows, notes, Moving


LEMMA CreateAnewRows ==
  ASSUME Sound, RowsInv, NEW p \in Processes, CreateAnew(p) PROVE RowsInv'
<1>1. /\ at[p] = "create" /\ at'[p] = "copy" /\ plan' = plan /\ index' = index
      /\ \A q \in Processes \ {p} : at'[q] = at[q]
      /\ UNCHANGED rows /\ UNCHANGED <<legacy, interrupted, raced>>
  BY DEF CreateAnew, GoTo, Sound, TypeOK, notes
<1>2. \A q \in Processes : Table(q)' = Table(q) /\ (at'[q] \in Moving <=> at[q] \in Moving)
  BY <1>1, SameJob DEF Moving
<1>3. EverKept' /\ KeptIsRebuilt'
  BY <1>1, <1>2 DEF RowsInv, EverKept, KeptIsRebuilt, rows, Moving
<1>4. Suffix' /\ LegacyParents'
  BY <1>1 DEF RowsInv, Suffix, LegacyParents, rows
<1>5. ASSUME ~raced' PROVE Undisturbed'
  <2>1. Undisturbed /\ p \in Migrating
    BY <1>1, <1>5 DEF RowsInv, Migrating
  <2>2. Alone'
    BY <1>1, <2>1, AloneNext DEF Undisturbed
  <2>3. \A q \in Processes : Under(q)' /\ ParentInterrupted(q)'
    <3> SUFFICES ASSUME NEW q \in Processes PROVE Under(q)' /\ ParentInterrupted(q)'
      OBVIOUS
    <3>1. Under(q) /\ ParentInterrupted(q) /\ (at'[q] = "aside" => at[q] = "aside")
      BY <1>1, <2>1 DEF Undisturbed
    <3> QED BY <1>1, <1>2, <3>1 DEF Under, ParentInterrupted, Moving, rows
  <2>4. \A t \in legacy' \cap stored' : Orphan(t)'
    <3> SUFFICES ASSUME NEW t \in legacy \cap stored PROVE Orphan(t)'
      BY <1>1 DEF rows
    <3>1. Orphan(t)
      BY <2>1 DEF Undisturbed
    <3> QED BY <1>1, <1>2, <3>1 DEF Orphan, Moving, rows
  <2>5. \A t \in dangling' : Parent(t) \in interrupted'
    BY <1>1, <2>1 DEF Undisturbed, rows
  <2> QED BY <2>2, <2>3, <2>4, <2>5 DEF Undisturbed
<1> QED BY <1>3, <1>4, <1>5 DEF RowsInv

(* Who is alone finds nobody else on the way with a table.                  *)
LEMMA NobodyElse ==
  ASSUME Alone, NEW p \in Migrating, NEW q \in Processes \ {p}
  PROVE  at[q] \notin {"aside"} \cup Moving
BY DEF Alone, Migrating, Moving

LEMMA SetAsideRows ==
  ASSUME Sound, RowsInv, NEW p \in Processes, SetAside(p) PROVE RowsInv'
<1> DEFINE T == Table(p)
<1>1. /\ at[p] = "aside" /\ at'[p] = "create" /\ plan' = plan /\ index' = index
      /\ \A q \in Processes \ {p} : at'[q] = at[q]
      /\ T \notin aside /\ UNCHANGED <<interrupted, raced>>
      /\ legacy' = legacy \ {T} /\ stored' = stored \ {T} /\ kept' = kept \cup ({T} \cap stored)
      /\ dangling' = dangling \ {T} /\ ever' = ever /\ dropped' = dropped
  BY DEF SetAside, CanSetAside, GoTo, Sound, TypeOK, notes
<1>2. \A q \in Processes : Table(q)' = Table(q)
  BY <1>1, SameJob
<1>3. T \notin kept
  BY <1>1 DEF Sound, TypeOK
<1>4. \A k, i \in DOMAIN Research : T = Research[k] /\ i < k => Research[i] \notin legacy
  <2> SUFFICES ASSUME NEW k \in DOMAIN Research, NEW i \in DOMAIN Research, T = Research[k], i < k
               PROVE  Research[i] \notin legacy
    OBVIOUS
  <2>1. at[p] \in Rebuilding /\ T # "strategies"
    BY <1>1, ResearchOnce DEF Rebuilding
  <2>2. This(p).rebuilds = Research /\ index[p] = k
    BY <2>1, TableIs, ResearchOnce
  <2> QED BY <2>1, <2>2 DEF Sound, Past
<1>5. EverKept' /\ KeptIsRebuilt'
  <2>1. \A q \in Processes : at[q] \in Moving => at'[q] \in Moving
    BY <1>1 DEF Moving
  <2> QED BY <1>1, <1>2, <2>1 DEF RowsInv, EverKept, KeptIsRebuilt, Moving
<1>6. Suffix'
  <2> SUFFICES ASSUME NEW i \in DOMAIN Research, NEW j \in DOMAIN Research,
                      i < j, Research[i] \in legacy', Research[j] \in Followed
               PROVE  Research[j] \in legacy'
    BY DEF Suffix
  <2> QED BY <1>1, <1>4 DEF RowsInv, Suffix
<1>7. LegacyParents'
  BY <1>1 DEF RowsInv, LegacyParents
<1>8. ASSUME ~raced' PROVE Undisturbed'
  <2>1. Undisturbed /\ Alone /\ p \in Migrating
    BY <1>1, <1>8 DEF RowsInv, Migrating, Undisturbed
  <2>2. Alone'
    BY <1>1, <2>1, AloneNext
  <2>3. T \in legacy
    BY <1>1, <2>1 DEF Undisturbed, Under
  <2>4. \A q \in Processes \ {p} : at'[q] \notin {"aside"} \cup Moving
    BY <1>1, <2>1, NobodyElse
  <2>5. \A q \in Processes : at[q] \notin Moving
    BY <1>1, <2>1, NobodyElse DEF Moving
  <2>6. \A q \in Processes : Under(q)'
    <3>1. Under(p)'
      <4> SUFFICES ASSUME NEW i \in DOMAIN Research, NEW j \in DOMAIN Research,
                          i < j, Research[i] = T, Research[j] \in Followed
                   PROVE  Research[j] \in legacy'
        BY <1>1, <1>2 DEF Under, Moving
      <4>1. Research[j] \in legacy
        BY <2>3 DEF RowsInv, Suffix
      <4>2. Research[j] # T
        BY ResearchOnce, ResearchIs
      <4> QED BY <1>1, <4>1, <4>2
    <3> QED BY <2>4, <3>1 DEF Under, Moving
  <2>7. \A q \in Processes : ParentInterrupted(q)'
    <3>1. ASSUME T \in kept', Parent(T) # "none" PROVE Parent(T) \in interrupted
      <4>1. Orphan(T)
        BY <1>1, <1>3, <2>1, <2>3, <3>1 DEF Undisturbed
      <4>2. Parent(T) \notin legacy
        <5>1. PICK k \in DOMAIN Research : /\ k - 1 \in DOMAIN Research /\ Research[k] = T
                                           /\ Research[k - 1] = Parent(T)
          BY <3>1, ParentIs
        <5>2. k - 1 < k
          BY <5>1, ResearchIs
        <5> QED BY <1>4, <5>1, <5>2
      <4> QED BY <2>5, <3>1, <4>1, <4>2 DEF Orphan
    <3> QED BY <1>1, <1>2, <2>4, <3>1 DEF ParentInterrupted, Moving
  <2>8. \A t \in legacy' \cap stored' : Orphan(t)'
    <3> SUFFICES ASSUME NEW t \in legacy \cap stored, t # T, Parent(t) # "none" PROVE Orphan(t)'
      BY <1>1 DEF Orphan
    <3>1. Parent(t) \in legacy \cup interrupted
      BY <2>1, <2>5 DEF Undisturbed, Orphan
    <3>2. CASE Parent(t) = T
      <4>1. T \in kept'
        BY <1>1, <2>3, <3>2 DEF RowsInv, LegacyParents
      <4> QED BY <1>1, <1>2, <3>2, <4>1 DEF Orphan, Moving
    <3>3. CASE Parent(t) # T
      BY <1>1, <3>1, <3>3 DEF Orphan
    <3> QED BY <3>2, <3>3
  <2>9. \A t \in dangling' : Parent(t) \in interrupted'
    BY <1>1, <2>1 DEF Undisturbed
  <2> QED BY <2>2, <2>6, <2>7, <2>8, <2>9 DEF Undisturbed
<1> QED BY <1>5, <1>6, <1>7, <1>8 DEF RowsInv

LEMMA CopyRowsRows ==
  ASSUME Sound, RowsInv, NEW p \in Processes, CopyRows(p) PROVE RowsInv'
<1> DEFINE T == Table(p)
           copied == Copied(p)
<1>1. /\ at[p] = "copy" /\ at'[p] = "work"
      /\ \A q \in Processes \ {p} : at'[q] = at[q] /\ plan'[q] = plan[q] /\ index'[q] = index[q]
      /\ UNCHANGED <<interrupted, raced, ever, dropped>>
      /\ legacy' = legacy \ Rest(p) /\ stored' = stored \cup {T} /\ kept' = kept \ {T}
      /\ dangling' = Referring(copied, copied) /\ T \in ResearchTables /\ T \in kept
  BY DEF CopyRows, CopyResearch, EndJob, Sound, TypeOK, notes
<1>2. \A q \in Processes \ {p} : Table(q)' = Table(q)
  BY <1>1, SameJob
<1>3. /\ This(p).rebuilds = Research /\ index[p] \in DOMAIN Research /\ T = Research[index[p]]
      /\ at[p] \in Rebuilding
  BY <1>1, TableIs, ResearchAre DEF Rebuilding
<1>4. \A i \in DOMAIN Research : i > index[p] /\ Research[i] \in legacy => Research[i] \in Rest(p)
  BY <1>3, ResearchIs DEF Rest
<1>5. \A i \in DOMAIN Research : i <= index[p] => Research[i] \notin legacy
  <2> SUFFICES ASSUME NEW i \in DOMAIN Research, i <= index[p] PROVE Research[i] \notin legacy
    OBVIOUS
  <2>1. i < index[p] \/ i = index[p]
    BY <1>3, ResearchIs
  <2> QED BY <1>1, <1>3, <2>1 DEF Sound, Past
<1>6. legacy' \cap ResearchTables = {}
  <2> SUFFICES ASSUME NEW t \in legacy' \cap ResearchTables PROVE FALSE
    OBVIOUS
  <2>1. PICK i \in DOMAIN Research : Research[i] = t
    BY ResearchAre
  <2>2. i > index[p] \/ i <= index[p]
    BY <1>3, ResearchIs
  <2> QED BY <1>1, <1>4, <1>5, <2>1, <2>2
<1>7. EverKept' /\ KeptIsRebuilt'
  <2>1. EverKept'
    BY <1>1 DEF RowsInv, EverKept
  <2>2. KeptIsRebuilt'
    <3> SUFFICES ASSUME NEW t \in kept' \ interrupted'
                 PROVE  \E q \in Processes : at'[q] \in Moving /\ Table(q)' = t
      BY DEF KeptIsRebuilt, Moving
    <3>1. PICK q \in Processes : at[q] \in Moving /\ Table(q) = t
      BY <1>1 DEF RowsInv, KeptIsRebuilt
    <3>2. q # p
      BY <1>1, <3>1
    <3> QED BY <1>1, <1>2, <3>1, <3>2
  <2> QED BY <2>1, <2>2
<1>8. Suffix'
  <2> SUFFICES ASSUME NEW i \in DOMAIN Research, Research[i] \in legacy' PROVE FALSE
    BY DEF Suffix
  <2> QED BY <1>4, <1>5, <1>1, <1>3, ResearchIs
<1>9. LegacyParents'
  BY <1>6, ParentIs DEF LegacyParents
<1>10. ASSUME ~raced' PROVE Undisturbed'
  <2>1. Undisturbed /\ Alone /\ p \in Migrating
    BY <1>1, <1>10 DEF RowsInv, Migrating, Undisturbed
  <2>2. Alone'
    BY <1>1, <2>1, AloneNext
  <2>3. \A q \in Processes : at'[q] \notin {"aside"} \cup Moving
    BY <1>1, <2>1, NobodyElse DEF Moving
  <2>4. \A t \in legacy' \cap stored' : Orphan(t)'
    BY <1>6, ParentIs DEF Orphan
  <2>5. \A t \in dangling' : Parent(t) \in interrupted'
    <3> SUFFICES ASSUME NEW t \in Referring(copied, copied) PROVE Parent(t) \in interrupted
      BY <1>1
    <3>1. t \in stored \cup copied
      BY DEF Referring
    <3>2. CASE t \in dangling /\ t \notin copied
      BY <2>1, <3>2 DEF Undisturbed
    <3>3. CASE t \in copied
      <4>1. Parent(t) # "none" /\ Parent(t) \notin copied
        BY <3>3 DEF Referring
      <4>2. CASE t = T
        BY <1>1, <2>1, <4>1, <4>2 DEF Undisturbed, ParentInterrupted, Moving
      <4>3. CASE t # T
        <5>1. t \in Rest(p) /\ t \in stored /\ t \in legacy
          BY <3>3, <4>3 DEF Copied, Rest
        <5>2. PICK k \in DOMAIN Research : /\ k - 1 \in DOMAIN Research
                                           /\ Research[k] = t /\ Research[k - 1] = Parent(t)
                                           /\ Parent(t) \in ResearchTables
          BY <4>1, ParentIs
        <5>3. k > index[p] /\ k - 1 # index[p]
          BY <1>3, <1>5, <4>1, <5>1, <5>2, ResearchIs DEF Copied
        <5>4. k - 1 > index[p]
          BY <1>3, <5>2, <5>3, ResearchIs
        <5>5. Parent(t) \in legacy
          BY <1>1, <1>3, <2>1, <5>2, <5>4, ResearchAre, ResearchIs DEF Undisturbed, Under, Moving
        <5>6. Parent(t) \in Rest(p) \cap stored
          BY <1>4, <4>1, <5>1, <5>2, <5>4, <5>5 DEF RowsInv, LegacyParents
        <5> QED BY <4>1, <5>6 DEF Copied
      <4> QED BY <4>2, <4>3
    <3>4. CASE t \notin copied /\ t \notin dangling
      <4>1. Parent(t) \in copied /\ t \in stored
        BY <3>1, <3>4 DEF Referring
      <4>2. Parent(t) # "none"
        <5>1. \A i \in (index[p] + 1)..Len(Research) : Research[i] # "none"
          BY <1>3, ResearchIs, ResearchOnce
        <5> QED BY <1>1, <4>1, <5>1, ResearchAre DEF Copied, Rest
      <4>3. PICK k \in DOMAIN Research : /\ k - 1 \in DOMAIN Research
                                         /\ Research[k] = t /\ Research[k - 1] = Parent(t)
                                         /\ t \in ResearchTables
        BY <4>2, ParentIs
      <4>4. k - 1 >= index[p]
        <5>1. CASE Parent(t) = T
          BY <1>3, <4>3, <5>1, ResearchOnce, ResearchIs
        <5>2. CASE Parent(t) \in legacy
          BY <1>3, <1>5, <4>3, <5>2, ResearchIs
        <5> QED BY <4>1, <5>1, <5>2 DEF Copied, Rest
      <4>5. t \in legacy
        BY <1>1, <1>3, <2>1, <4>3, <4>4, ResearchAre, ResearchIs DEF Undisturbed, Under, Moving
      <4>6. t \in Rest(p)
        BY <1>3, <1>4, <4>3, <4>4, <4>5, ResearchIs
      <4> QED BY <3>4, <4>1, <4>6 DEF Copied
    <3> QED BY <3>2, <3>3, <3>4
  <2> QED BY <2>2, <2>3, <2>4, <2>5 DEF Undisturbed, Under, ParentInterrupted, Moving
<1> QED BY <1>7, <1>8, <1>9, <1>10 DEF RowsInv


LEMMA DropTablesRows ==
  ASSUME Sound, RowsInv, NEW p \in Processes, DropTables(p) PROVE RowsInv'
<1> DEFINE D == This(p).drops
<1>1. /\ at[p] = "drop" /\ at'[p] = "work" /\ plan[p] # {}
      /\ \A q \in Processes \ {p} : at'[q] = at[q] /\ plan'[q] = plan[q] /\ index'[q] = index[q]
      /\ UNCHANGED <<interrupted, raced, ever, kept>>
      /\ legacy' = (legacy \ D) \cup (This(p).alters \cap exist)
      /\ stored' = stored \ D /\ dangling' = dangling \ D /\ dropped' = dropped \cup (stored \cap D)
  BY DEF DropTables, EndJob, Sound, TypeOK, notes, StepMatches
<1>2. \A q \in Processes \ {p} : Table(q)' = Table(q)
  BY <1>1, SameJob
<1>3. /\ D \cap ResearchTables = {} \/ ResearchTables \subseteq D
      /\ This(p).alters \subseteq {"trades"}
  BY <1>1, JobAtWork, ChainIs
<1>4. \A t \in ResearchTables : t \in legacy' => t \in legacy /\ D \cap ResearchTables = {}
  BY <1>1, <1>3, ResearchAre
<1>5. EverKept'
  BY <1>1 DEF RowsInv, EverKept
<1>6. KeptIsRebuilt'
  <2> SUFFICES ASSUME NEW t \in kept \ interrupted
               PROVE  \E q \in Processes : at'[q] \in Moving /\ Table(q)' = t
    BY <1>1 DEF KeptIsRebuilt, Moving
  <2>1. PICK q \in Processes : at[q] \in Moving /\ Table(q) = t
    BY DEF RowsInv, KeptIsRebuilt
  <2>2. q # p
    BY <1>1, <2>1 DEF Moving
  <2> QED BY <1>1, <1>2, <2>1, <2>2
<1>7. Suffix'
  <2> SUFFICES ASSUME NEW i \in DOMAIN Research, NEW j \in DOMAIN Research,
                      i < j, Research[i] \in legacy', Research[j] \in Followed
               PROVE  Research[j] \in legacy'
    BY DEF Suffix
  <2>1. Research[i] \in legacy
    BY <1>1, <1>3, ResearchOnce
  <2>2. Research[i] \in ResearchTables /\ Research[j] \in ResearchTables
    BY <2>1, ResearchAre DEF Sound, TypeOK
  <2> QED BY <1>1, <1>4, <2>1, <2>2 DEF RowsInv, Suffix
<1>8. LegacyParents'
  <2> SUFFICES ASSUME NEW t \in legacy' \cap stored', Parent(t) # "none", Parent(t) \in legacy'
               PROVE  Parent(t) \in stored'
    BY DEF LegacyParents
  <2>1. t \in ResearchTables /\ Parent(t) \in ResearchTables
    BY ParentIs
  <2>2. t \in legacy \cap stored /\ Parent(t) \in legacy /\ D \cap ResearchTables = {}
    BY <1>1, <1>4, <2>1
  <2> QED BY <1>1, <2>1, <2>2 DEF RowsInv, LegacyParents
<1>9. ASSUME ~raced' PROVE Undisturbed'
  <2>1. Undisturbed /\ Alone /\ p \in Migrating
    BY <1>1, <1>9 DEF RowsInv, Migrating, Undisturbed
  <2>2. Alone'
    BY <1>1, <2>1, AloneNext
  <2>3. \A q \in Processes : at'[q] \notin {"aside"} \cup Moving /\ at[q] \notin Moving
    BY <1>1, <2>1, NobodyElse DEF Moving
  <2>4. \A t \in legacy' \cap stored' : Orphan(t)'
    <3> SUFFICES ASSUME NEW t \in legacy' \cap stored', Parent(t) # "none" PROVE Orphan(t)'
      BY DEF Orphan
    <3>1. t \in ResearchTables /\ Parent(t) \in ResearchTables
      BY ParentIs
    <3>2. t \in legacy \cap stored /\ D \cap ResearchTables = {}
      BY <1>1, <1>4, <3>1
    <3>3. Parent(t) \in legacy \cup interrupted
      BY <2>1, <2>3, <3>2 DEF Undisturbed, Orphan
    <3> QED BY <1>1, <3>1, <3>2, <3>3 DEF Orphan
  <2>5. \A t \in dangling' : Parent(t) \in interrupted'
    BY <1>1, <2>1 DEF Undisturbed
  <2> QED BY <2>2, <2>3, <2>4, <2>5 DEF Undisturbed, Under, ParentInterrupted, Moving
<1> QED BY <1>5, <1>6, <1>7, <1>8, <1>9 DEF RowsInv

LEMMA StoreRows ==
  ASSUME Sound, RowsInv, NEW p \in Processes, NEW s \in Followed, Store(p, s) PROVE RowsInv'
<1>1. /\ at' = at /\ plan' = plan /\ index' = index
      /\ UNCHANGED <<legacy, kept, dangling, dropped, interrupted, raced>>
      /\ s \notin legacy /\ stored' = stored \cup {s} /\ ever' = ever \cup {s}
  BY DEF Store, schema, procs, notes
<1>2. \A q \in Processes : Table(q)' = Table(q)
  BY <1>1, SameJob
<1>3. EverKept' /\ KeptIsRebuilt' /\ Suffix' /\ LegacyParents'
  BY <1>1, <1>2 DEF RowsInv, EverKept, KeptIsRebuilt, Suffix, LegacyParents, Moving
<1>4. ASSUME ~raced' PROVE Undisturbed'
  <2>1. Undisturbed
    BY <1>1, <1>4 DEF RowsInv
  <2>2. Alone'
    BY <1>1, <2>1 DEF Undisturbed, Alone, Migrating
  <2>3. \A q \in Processes : Under(q)' /\ ParentInterrupted(q)'
    BY <1>1, <1>2, <2>1 DEF Undisturbed, Under, ParentInterrupted, Moving
  <2>4. \A t \in legacy' \cap stored' : Orphan(t)'
    BY <1>1, <1>2, <2>1 DEF Undisturbed, Orphan, Moving
  <2> QED BY <1>1, <2>1, <2>2, <2>3, <2>4 DEF Undisturbed
<1> QED BY <1>3, <1>4 DEF RowsInv

LEMMA StutterRows == ASSUME RowsInv, UNCHANGED vars PROVE RowsInv'
<1>1. /\ at' = at /\ plan' = plan /\ index' = index
      /\ UNCHANGED <<legacy, stored, ever, kept, dangling, dropped, interrupted, raced>>
  BY DEF vars, schema, rows, procs, notes
<1>2. \A q \in Processes : Table(q)' = Table(q)
  BY <1>1, SameJob
<1>3. EverKept' /\ KeptIsRebuilt' /\ Suffix' /\ LegacyParents'
  BY <1>1, <1>2 DEF RowsInv, EverKept, KeptIsRebuilt, Suffix, LegacyParents, Moving
<1>4. ASSUME ~raced' PROVE Undisturbed'
  <2>1. Undisturbed
    BY <1>1, <1>4 DEF RowsInv
  <2>2. Alone'
    BY <1>1, <2>1 DEF Undisturbed, Alone, Migrating
  <2>3. \A q \in Processes : Under(q)' /\ ParentInterrupted(q)'
    BY <1>1, <1>2, <2>1 DEF Undisturbed, Under, ParentInterrupted, Moving
  <2>4. \A t \in legacy' \cap stored' : Orphan(t)'
    BY <1>1, <1>2, <2>1 DEF Undisturbed, Orphan, Moving
  <2> QED BY <1>1, <2>1, <2>2, <2>3, <2>4 DEF Undisturbed
<1> QED BY <1>3, <1>4 DEF RowsInv

(* What an earlier release has left: of the research tables, all or none    *)
(* are of the older shape.                                                  *)
LEMMA InitialLegacy ==
  ASSUME Init, NEW t \in legacy \cap ResearchTables
  PROVE  ResearchTables \subseteq legacy
<1>1. PICK v \in StartVersions, old \in BOOLEAN :
        LET due == UNION {Migration[u].alters \cup {Migration[u].rebuilds[k] :
                            k \in DOMAIN Migration[u].rebuilds} : u \in {w \in Versions : w > v}}
        IN  /\ marks = {u \in Versions : u <= v}
            /\ exist = IF v = 0 THEN {}
                       ELSE TablesUpTo[v]
                              \cup (Followed \cap (IF old THEN {"trades", "strategies"} ELSE {"trades"}))
            /\ legacy = IF old THEN exist \cap due ELSE {}
  BY DEF Init
<1>2. v # 0 /\ t \in exist /\ \E u \in Versions : u > v /\ t \in Renewed(u)
  BY <1>1 DEF Renewed, Rebuilt
<1>3. v \in Versions
  BY <1>2, DatabaseAssumption
<1>4. PICK u \in Versions : u > v /\ t \in Renewed(u)
  BY <1>2
<1>5. Migration[u] \in Chain /\ Migration[u].version = u
  BY MigrationIs
<1>6. t \notin {"trades", "strategies"}
  BY ResearchAre
<1>7. Migration[u].rebuilds = Research
  BY <1>4, <1>5, <1>6, ChainIs DEF Renewed, Rebuilt
<1>8. ResearchTables \subseteq exist
  <2>1. 1 \in Versions /\ 1 <= v
    BY <1>3, VersionsAre
  <2>2. Migration[1] = V001
    BY FirstMigrations
  <2>3. ResearchTables \subseteq Migration[1].tables
    BY <2>2, PlainIs, ResearchAre DEF V001
  <2>4. Migration[1].tables \subseteq TablesUpTo[v]
    BY <1>3, <2>1 DEF TablesUpTo
  <2> QED BY <1>1, <1>2, <2>3, <2>4
<1> DEFINE due == UNION {Migration[w].alters \cup {Migration[w].rebuilds[k] :
                           k \in DOMAIN Migration[w].rebuilds} : w \in {x \in Versions : x > v}}
<1>9. legacy = exist \cap due
  BY <1>1
<1>10. ResearchTables \subseteq due
  BY <1>4, <1>7, ResearchAre
<1> QED BY <1>8, <1>9, <1>10

LEMMA RowsInit == ASSUME Init PROVE RowsInv
<1>1. Sound
  BY SoundInit
<1>2. /\ kept = {} /\ dangling = {} /\ ever = stored /\ stored \in {{}, exist}
      /\ \A p \in Processes : at[p] = "down"
  BY DEF Init
<1>3. \A t \in legacy : t \in ResearchTables => ResearchTables \subseteq legacy
  BY InitialLegacy
<1>4. EverKept /\ KeptIsRebuilt
  BY <1>2 DEF EverKept, KeptIsRebuilt
<1>5. Suffix
  BY <1>1, <1>3, ResearchAre DEF Suffix, Sound, TypeOK
<1>6. LegacyParents
  BY <1>1, <1>2 DEF LegacyParents, Sound, TypeOK
<1>7. \A t \in legacy \cap stored : Orphan(t)
  BY <1>3, ParentIs DEF Orphan
<1>8. Undisturbed
  BY <1>2, <1>7 DEF Undisturbed, Alone, Under, ParentInterrupted, Migrating, Moving
<1> QED BY <1>4, <1>5, <1>6, <1>8 DEF RowsInv

LEMMA RowsNext == ASSUME Sound, RowsInv, [Next]_vars PROVE RowsInv'
<1>1. ASSUME NEW p \in Processes, Step(p) PROVE RowsInv'
  BY <1>1, BeginRows, CreateTablesRows, CheckTableRows, SetAsideRows, CreateAnewRows,
     CopyStrategiesRows, DropEmptyRows, CopyRowsRows, MarkRows, UnmarkRows, DropTablesRows,
     ServeRows, EndToolRows, EndsRows DEF Step, Boot, Refuse
<1>2. ASSUME NEW p \in Processes, Crash(p) PROVE RowsInv'
  BY <1>2, EndsRows DEF Crash
<1>3. ASSUME NEW p \in Processes, RunTool(p) PROVE RowsInv'
  BY <1>3, BeginRows DEF RunTool
<1> QED BY <1>1, <1>2, <1>3, StoreRows, StutterRows DEF Next

(* RowsSurvive, for every chain of crashes, races and command lines: no row  *)
(* is lost in a rebuild, none is left aside but where a process ended on the *)
(* way, and references follow the new keys (migration_manager.migrate, v006, *)
(* v012).                                                                   *)
THEOREM MigratedRowsSurvive == Spec => []RowsSurvive
<1>1. Init => RowsInv
  BY RowsInit
<1>2. Sound /\ RowsInv /\ [Next]_vars => RowsInv'
  BY RowsNext
<1>3. RowsInv => RowsSurvive
  BY DEF RowsInv, RowsSurvive, EverKept, KeptIsRebuilt, KeysMeet, Undisturbed, Moving
<1> QED BY <1>1, <1>2, <1>3, SoundAlways, PTL DEF Spec


-----------------------------------------------------------------------------
(* Nobody serves a part.  As long as nothing was reverted and no two         *)
(* processes migrated at once, the versions are marked in order, and what a  *)
(* marked one renews is new; a service that migrates has in its plan every   *)
(* version that is not marked, and every one that misses a table.            *)

\* The versions a process has still to apply; those it has to apply or repair.
Ups(p) == {v \in Versions : [op |-> "up", version |-> v] \in plan[p]}
Fixes(p) == {v \in Versions : \E j \in plan[p] : j.op # "down" /\ j.version = v}
\* A table that is set aside and not created anew yet.
Hole(p) == IF at[p] = "create" THEN {Table(p)} ELSE {}

MarksClosed == \A v \in marks, u \in Versions : u < v => u \in marks
MarkedIsNew == \A v \in marks : legacy \cap Renewed(v) = {}
UpsFollow(p) ==
  /\ Ups(p) \cap marks = {}
  /\ \A v \in Ups(p), u \in Versions : u < v => u \in marks \cup Ups(p)
  /\ p \notin tool =>
       /\ Versions \subseteq marks \cup Ups(p)
       /\ \A v \in Versions \ Fixes(p) : Migration[v].tables \subseteq exist \cup Hole(p)
Underway(p) ==
  at[p] \in Rebuilding \cup {"mark"} =>
    /\ This(p).tables \ {"strategies"} \subseteq exist
    /\ This(p).alters \cap legacy = {}
    /\ at[p] = "copy" => Table(p) \in exist
    /\ at[p] = "mark" => This(p).tables \subseteq exist
ServedWhole ==
  (\E p \in Processes : at[p] = "serving") =>
    /\ HeadTables \subseteq exist \ legacy /\ marks = Versions
    /\ \A p \in Migrating : Fixes(p) = {}

Ready ==
  /\ MarksClosed /\ MarkedIsNew /\ ServedWhole
  /\ \A p \in Migrating : UpsFollow(p) /\ Underway(p)
ServeInv == ~raced /\ ~reverted => Ready

(* A table is renewed by one version.                                       *)
LEMMA RenewedOnce ==
  ASSUME NEW u \in Versions, NEW w \in Versions, NEW t \in Renewed(u) \cap Renewed(w)
  PROVE  u = w
<1>1. ASSUME NEW v \in Versions, t \in Renewed(v)
      PROVE  \/ t = "trades" /\ v = 4
             \/ t = "strategies" /\ v = 6
             \/ t \notin {"trades", "strategies"} /\ v = 12
  <2>1. Migration[v] \in Chain /\ Migration[v].version = v
    BY MigrationIs
  <2>2. CASE t \in Migration[v].alters
    BY <2>1, <2>2, ChainIs
  <2>3. CASE t \in Rebuilt(v)
    <3>1. PICK k \in DOMAIN Migration[v].rebuilds : t = Migration[v].rebuilds[k]
      BY <2>3 DEF Rebuilt
    <3>2. Migration[v].rebuilds # <<>>
      BY <3>1
    <3>3. CASE Migration[v].rebuilds = <<"strategies">> /\ v = 6
      BY <3>1, <3>3
    <3>4. CASE Migration[v].rebuilds = Research /\ v = 12
      BY <3>1, <3>4, ResearchOnce
    <3> QED BY <2>1, <3>2, <3>3, <3>4, ChainIs
  <2> QED BY <1>1, <2>2, <2>3 DEF Renewed
<1> QED BY <1>1

LEMMA CurrentIs ==
  ASSUME marks \subseteq Versions
  PROVE  /\ Current \in Nat /\ \A u \in marks : u <= Current
         /\ marks # {} => Current \in marks
         /\ marks = {} => Current = 0
<1>1. CASE marks = {}
  BY <1>1 DEF Current
<1>2. CASE marks # {}
  <2> DEFINE N == {12 - u : u \in marks}
  <2>1. marks \subseteq 1..12
    BY VersionsAre
  <2>2. N \in SUBSET Nat /\ N # {}
    <3>1. \A u \in 1..12 : 12 - u \in Nat
      OBVIOUS
    <3> QED BY <1>2, <2>1, <3>1
  <2>3. PICK n \in N : \A m \in N : n <= m
    BY <2>2, LeastNumber
  <2>4. PICK v \in marks : n = 12 - v
    BY <2>3
  <2>5. ASSUME NEW u \in marks PROVE u <= v
    <3>1. 12 - v <= 12 - u /\ u \in 1..12 /\ v \in 1..12
      BY <2>1, <2>3, <2>4
    <3> QED BY <3>1
  <2>6. Current \in marks /\ \A u \in marks : u <= Current
    BY <1>2, <2>5 DEF Current
  <2> QED BY <1>2, <2>1, <2>6
<1> QED BY <1>1, <1>2

LEMMA HeadIs == \A v \in Versions : Migration[v].tables \subseteq HeadTables
BY VersionsAre DEF HeadTables, TablesUpTo, HeadVersion

(* While someone serves, nobody has anything to apply or to repair.         *)
LEMMA NobodyServes ==
  ASSUME Sound, ServedWhole, NEW p \in Migrating, plan[p] # {}, Job(p).op # "down"
  PROVE  \A q \in Processes : at[q] # "serving"
<1>1. Job(p) \in plan[p] /\ Job(p).version \in Versions /\ p \in Processes
  BY JobAtWork DEF Migrating
<1>2. Job(p).version \in Fixes(p)
  BY <1>1 DEF Fixes
<1> QED BY <1>2 DEF ServedWhole

(* A step of the only process that migrates.                                *)
LEMMA OnlyOne ==
  ASSUME Alone, NEW p \in Migrating, \A q \in Processes \ {p} : at'[q] = at[q],
         MarksClosed', MarkedIsNew', ServedWhole',
         p \in Migrating' => UpsFollow(p)' /\ Underway(p)'
  PROVE  Ready'
<1>1. \A q \in Migrating' : q = p
  BY DEF Alone, Migrating
<1> QED BY <1>1 DEF Ready


(* A table is done, and the rebuild goes on.                                *)
LEMMA NextTableReady ==
  ASSUME Sound, Alone, Ready, NEW p \in Processes, at[p] \in Rebuilding \ {"create"}, NextTable(p),
         exist \subseteq exist', legacy' \subseteq legacy, marks' = marks, tool' = tool,
         "strategies" \in This(p).tables => "strategies" \in exist'
  PROVE  Ready'
<1>1. /\ at'[p] \in {"mark", "check"} /\ plan'[p] = plan[p] /\ This(p)' = This(p)
      /\ \A q \in Processes \ {p} : at'[q] = at[q]
  BY NextTablePlace, SameJob DEF NextTable, Sound, TypeOK
<1>2. p \in Migrating /\ plan[p] # {} /\ Job(p).op # "down"
  BY DEF Migrating, Rebuilding, Sound, StepMatches
<1>3. MarksClosed' /\ MarkedIsNew'
  BY DEF Ready, MarksClosed, MarkedIsNew, Renewed, Rebuilt
<1>4. ServedWhole'
  BY <1>1, <1>2, NobodyServes DEF Ready, ServedWhole
<1>5. UpsFollow(p) /\ Underway(p)
  BY <1>2 DEF Ready
<1>6. Ups(p)' = Ups(p) /\ Fixes(p)' = Fixes(p) /\ Hole(p)' = {} /\ Hole(p) = {}
  BY <1>1 DEF Ups, Fixes, Hole
<1>7. UpsFollow(p)'
  BY <1>5, <1>6 DEF UpsFollow
<1>8. Underway(p)'
  BY <1>1, <1>5 DEF Underway
<1> QED BY <1>1, <1>2, <1>3, <1>4, <1>7, <1>8, OnlyOne

(* A version is applied or repaired, and goes from the plan.                *)
LEMMA EndJobReady ==
  ASSUME Sound, Alone, Ready, NEW p \in Migrating, plan[p] # {}, Job(p).op \in {"up", "repair"},
         at[p] # "create", EndJob(p), exist' = exist, legacy' \subseteq legacy, tool' = tool,
         marks' = marks \cup (IF Job(p).op = "up" THEN {Job(p).version} ELSE {}),
         Job(p).op = "up" => legacy' \cap Renewed(Job(p).version) = {},
         This(p).tables \subseteq exist
  PROVE  Ready'
<1> DEFINE w == Job(p).version
           InOrder == /\ Ups(p)' \cap marks' = {}
                      /\ \A v \in Ups(p)', u \in Versions : u < v => u \in marks' \cup Ups(p)'
                      /\ p \notin tool' => Versions \subseteq marks' \cup Ups(p)'
<1>1. /\ p \in Processes /\ Job(p) \in plan[p] /\ Job(p) \in Jobs /\ w \in Versions
      /\ \A k \in plan[p] : Turn(Job(p)) <= Turn(k)
  BY JobIs DEF Sound, Migrating
<1>2. /\ at'[p] = "work" /\ plan'[p] = plan[p] \ {Job(p)}
      /\ \A q \in Processes \ {p} : at'[q] = at[q]
  BY <1>1 DEF EndJob, Sound, TypeOK
<1>3. UpsFollow(p)
  BY DEF Ready
<1>4. Job(p).op = "up" => Job(p) = [op |-> "up", version |-> w]
  BY <1>1 DEF Jobs
<1>5. ASSUME Job(p).op = "up" PROVE MarksClosed' /\ MarkedIsNew' /\ InOrder
  <2>1. w \in Ups(p) /\ marks' = marks \cup {w}
    BY <1>1, <1>4, <1>5 DEF Ups
  <2>2. Ups(p)' = Ups(p) \ {w}
    BY <1>2, <1>4, <1>5 DEF Ups
  <2>3. \A u \in Versions : u < w => u \in marks
    <3> SUFFICES ASSUME NEW u \in Versions, u < w, u \in Ups(p) PROVE FALSE
      BY <1>1, <1>3, <2>1 DEF UpsFollow
    <3>1. Turn(Job(p)) <= Turn([op |-> "up", version |-> u])
      BY <1>1 DEF Ups
    <3>2. Turn(Job(p)) = 12 + w /\ Turn([op |-> "up", version |-> u]) = 12 + u
      BY <1>5 DEF Turn, HeadVersion
    <3> QED BY <1>1, <3>1, <3>2, VersionsAre
  <2>4. MarksClosed'
    BY <2>1, <2>3 DEF Ready, MarksClosed
  <2>5. MarkedIsNew'
    BY <1>5, <2>1 DEF Ready, MarkedIsNew, Renewed, Rebuilt
  <2>6. InOrder
    BY <1>3, <2>1, <2>2 DEF UpsFollow
  <2> QED BY <2>4, <2>5, <2>6
<1>6. ASSUME Job(p).op # "up" PROVE MarksClosed' /\ MarkedIsNew' /\ InOrder
  <2>1. Ups(p)' = Ups(p) /\ marks' = marks
    BY <1>2, <1>6 DEF Ups
  <2>2. MarksClosed' /\ MarkedIsNew'
    BY <2>1 DEF Ready, MarksClosed, MarkedIsNew, Renewed, Rebuilt
  <2>3. InOrder
    BY <1>3, <2>1 DEF UpsFollow
  <2> QED BY <2>2, <2>3
<1>7. p \notin tool' =>
        \A v \in Versions \ Fixes(p)' : Migration[v].tables \subseteq exist' \cup Hole(p)'
  <2> SUFFICES ASSUME p \notin tool, NEW v \in Versions \ Fixes(p)'
               PROVE  Migration[v].tables \subseteq exist
    OBVIOUS
  <2>1. CASE v = w
    BY <2>1 DEF This
  <2>2. CASE v # w
    <3>1. v \notin Fixes(p)
      BY <1>2, <2>2 DEF Fixes
    <3> QED BY <1>3, <3>1 DEF UpsFollow, Hole
  <2> QED BY <2>1, <2>2
<1>8. UpsFollow(p)' /\ Underway(p)'
  BY <1>2, <1>5, <1>6, <1>7 DEF UpsFollow, Underway, Rebuilding
<1>9. ServedWhole'
  BY <1>1, <1>2, NobodyServes DEF Ready, ServedWhole
<1> QED BY <1>2, <1>5, <1>6, <1>8, <1>9, OnlyOne


LEMMA CurrentClosed ==
  ASSUME Sound, MarksClosed, NEW u \in Versions
  PROVE  u \in marks <=> u <= Current
<1>1. marks \subseteq Versions
  BY DEF Sound, TypeOK
<1>2. u \in 1..12
  BY VersionsAre
<1>3. CASE u < Current
  BY <1>1, <1>2, <1>3, CurrentIs, VersionsAre DEF MarksClosed
<1>4. CASE u = Current
  BY <1>1, <1>2, <1>4, CurrentIs
<1>5. CASE Current < u
  BY <1>1, <1>2, <1>5, CurrentIs
<1> QED BY <1>1, <1>2, <1>3, <1>4, <1>5, CurrentIs

LEMMA BeginReady ==
  ASSUME Sound, Ready, Migrating = {}, NEW p \in Processes, NEW target \in Versions \cup {0},
         Begin(p, target), target = HeadVersion \/ p \in tool', tool' \subseteq tool \cup {p}
  PROVE  Ready'
<1>1. /\ at'[p] = "work" /\ plan'[p] = PlanFor(target) /\ at[p] = "down"
      /\ \A q \in Processes \ {p} : at'[q] = at[q]
      /\ exist' = exist /\ legacy' = legacy /\ marks' = marks
  BY DEF Begin, Sound, TypeOK, schema
<1>2. \A q \in Migrating' : q = p
  BY <1>1 DEF Migrating
<1>3. MarksClosed' /\ MarkedIsNew'
  BY <1>1 DEF Ready, MarksClosed, MarkedIsNew, Renewed, Rebuilt
<1>4. \A v \in Versions : v \in Ups(p)' <=> Current < v /\ v <= target
  <2>1. \A v \in Versions : [op |-> "up", version |-> v] \in PlanFor(target) <=> Current < v /\ v <= target
    BY DEF PlanFor
  <2> QED BY <1>1, <2>1 DEF Ups
<1>5. \A v \in Versions : v \in Fixes(p)' <=> v \in Drifted \/ (Current < v /\ v <= target)
  <2>1. \A v \in Versions :
          (\E j \in PlanFor(target) : j.op # "down" /\ j.version = v)
            <=> v \in Drifted \/ (Current < v /\ v <= target)
    <3> SUFFICES ASSUME NEW v \in Versions
                 PROVE  (\E j \in PlanFor(target) : j.op # "down" /\ j.version = v)
                          <=> v \in Drifted \/ (Current < v /\ v <= target)
      OBVIOUS
    <3>1. ASSUME NEW j \in PlanFor(target), j.op # "down", j.version = v
          PROVE  v \in Drifted \/ (Current < v /\ v <= target)
      <4>1. CASE j \in [op : {"repair"}, version : Drifted]
        BY <3>1, <4>1
      <4>2. CASE j \in [op : {"up"}, version : {u \in Versions : Current < u /\ u <= target}]
        BY <3>1, <4>2
      <4> QED BY <3>1, <4>1, <4>2 DEF PlanFor
    <3>2. ASSUME v \in Drifted PROVE [op |-> "repair", version |-> v] \in PlanFor(target)
      <4>1. [op |-> "repair", version |-> v] \in [op : {"repair"}, version : Drifted]
        BY <3>2
      <4> QED BY <4>1 DEF PlanFor
    <3>3. ASSUME Current < v, v <= target PROVE [op |-> "up", version |-> v] \in PlanFor(target)
      BY <3>3 DEF PlanFor
    <3> QED BY <3>1, <3>2, <3>3
  <2> QED BY <1>1, <2>1 DEF Fixes
<1>6. \A v \in Versions : v \in marks <=> v <= Current
  BY CurrentClosed DEF Ready
<1>7. Current \in Nat /\ Versions \subseteq 1..12 /\ target \in Nat
  BY CurrentIs, VersionsAre DEF Sound, TypeOK
<1>8. UpsFollow(p)'
  <2>1. Ups(p)' \subseteq Versions /\ marks \subseteq Versions
    BY DEF Ups, Sound, TypeOK
  <2>2. Ups(p)' \cap marks' = {}
    <3> SUFFICES ASSUME NEW v \in Versions, Current < v, v <= Current PROVE FALSE
      BY <1>1, <1>4, <1>6, <2>1
    <3>1. v \in 1..12
      BY <1>7
    <3> QED BY <1>7, <3>1
  <2>3. ASSUME NEW v \in Ups(p)', NEW u \in Versions, u < v PROVE u \in marks' \cup Ups(p)'
    <3>1. u <= Current \/ (Current < u /\ u <= target)
      <4>1. v \in 1..12 /\ u \in 1..12 /\ v <= target
        BY <1>4, <1>7, <2>1
      <4> QED BY <1>7, <2>3, <4>1
    <3> QED BY <1>1, <1>4, <1>6, <3>1
  <2>4. ASSUME p \notin tool', NEW v \in Versions PROVE v \in marks' \cup Ups(p)'
    <3>1. v <= Current \/ (Current < v /\ v <= target)
      BY <1>7, <2>4 DEF HeadVersion
    <3> QED BY <1>1, <1>4, <1>6, <3>1
  <2>5. ASSUME p \notin tool', NEW v \in Versions \ Fixes(p)'
        PROVE  Migration[v].tables \subseteq exist'
    <3>1. v \notin Drifted /\ v <= Current
      BY <1>5, <1>7, <2>5 DEF HeadVersion
    <3> QED BY <1>1, <3>1 DEF Drifted
  <2> QED BY <2>2, <2>3, <2>4, <2>5 DEF UpsFollow
<1>9. Underway(p)'
  BY <1>1 DEF Underway, Rebuilding
<1>10. ServedWhole'
  <2> SUFFICES ASSUME \E q \in Processes : at'[q] = "serving" PROVE ServedWhole'
    BY DEF ServedWhole
  <2>1. HeadTables \subseteq exist \ legacy /\ marks = Versions
    BY <1>1 DEF Ready, ServedWhole
  <2>2. Drifted = {}
    BY <2>1, HeadIs DEF Drifted
  <2>3. \A v \in Versions : ~(Current < v)
    BY <1>6, <1>7, <2>1
  <2>4. Fixes(p)' = {}
    BY <1>5, <2>2, <2>3 DEF Fixes
  <2> QED BY <1>1, <1>2, <2>1, <2>4, HeadIs DEF ServedWhole, HeadTables, TablesUpTo
<1> QED BY <1>2, <1>3, <1>8, <1>9, <1>10 DEF Ready


LEMMA CreateTablesReady ==
  ASSUME Sound, Alone, Ready, NEW p \in Processes, CreateTables(p) PROVE Ready'
<1>1. /\ at[p] = "work" /\ plan[p] # {} /\ Job(p).op # "down" /\ p \in Migrating
      /\ This(p) \in Chain
  BY JobAtWork DEF CreateTables, Doing, Migrating
<1>2. /\ at'[p] = IF This(p).rebuilds = <<>> THEN "mark" ELSE "check"
      /\ plan'[p] = plan[p] /\ This(p)' = This(p)
      /\ \A q \in Processes \ {p} : at'[q] = at[q]
      /\ exist' = exist \cup (This(p).tables \ {"strategies"})
      /\ legacy' = legacy \ This(p).alters /\ marks' = marks /\ tool' = tool
  BY SameJob DEF CreateTables, GoTo, Sound, TypeOK, notes
<1>3. MarksClosed' /\ MarkedIsNew'
  BY <1>2 DEF Ready, MarksClosed, MarkedIsNew, Renewed, Rebuilt
<1>4. ServedWhole'
  BY <1>1, <1>2, NobodyServes DEF Ready, ServedWhole
<1>5. Ups(p)' = Ups(p) /\ Fixes(p)' = Fixes(p) /\ Hole(p) = {}
  BY <1>1, <1>2 DEF Ups, Fixes, Hole
<1>6. UpsFollow(p)'
  BY <1>1, <1>2, <1>5 DEF Ready, UpsFollow
<1>7. This(p).rebuilds = <<>> => "strategies" \notin This(p).tables
  <2>1. <<"strategies">> # <<>>
    <3>1. Len(<<"strategies">>) = 1 /\ Len(<<>>) = 0
      OBVIOUS
    <3> QED BY <3>1
  <2> QED BY <1>1, <2>1, ChainIs
<1>8. Underway(p)'
  BY <1>2, <1>7 DEF Underway
<1> QED BY <1>1, <1>2, <1>3, <1>4, <1>6, <1>8, OnlyOne

(* strategies is created by the migration that rebuilds it, if at all.      *)
LEMMA StrategiesIs ==
  ASSUME Sound, NEW p \in Processes, at[p] \in Rebuilding, "strategies" \in This(p).tables
  PROVE  Table(p) = "strategies"
BY TableIs, ChainIs

(* A step within the rebuild of a table.                                    *)
LEMMA RebuildReady ==
  ASSUME Sound, Alone, Ready, NEW p \in Processes, at[p] \in Rebuilding, at'[p] \in Rebuilding,
         \A q \in Processes \ {p} : at'[q] = at[q],
         plan' = plan, index' = index, tool' = tool, marks' = marks, legacy' \subseteq legacy,
         exist \cup Hole(p) \subseteq exist' \cup Hole(p)',
         exist \ {Table(p)} \subseteq exist',
         at'[p] = "copy" => Table(p) \in exist'
  PROVE  Ready'
<1>1. p \in Migrating /\ p \in Migrating' /\ plan[p] # {} /\ Job(p).op # "down"
  BY DEF Migrating, Rebuilding, Sound, StepMatches
<1>2. This(p)' = This(p) /\ Table(p)' = Table(p) /\ Ups(p)' = Ups(p) /\ Fixes(p)' = Fixes(p)
  BY SameJob DEF Ups, Fixes
<1>3. MarksClosed' /\ MarkedIsNew'
  BY DEF Ready, MarksClosed, MarkedIsNew, Renewed, Rebuilt
<1>4. ServedWhole'
  BY <1>1, NobodyServes DEF Ready, ServedWhole, Rebuilding
<1>5. UpsFollow(p) /\ Underway(p)
  BY <1>1 DEF Ready
<1>6. UpsFollow(p)'
  BY <1>2, <1>5 DEF UpsFollow
<1>7. This(p).tables \ {"strategies"} \subseteq exist'
  BY <1>5, TableIs DEF Underway
<1>8. Underway(p)'
  BY <1>2, <1>5, <1>7 DEF Underway, Rebuilding
<1> QED BY <1>1, <1>3, <1>4, <1>6, <1>8, OnlyOne

LEMMA CheckTableReady ==
  ASSUME Sound, Alone, Ready, NEW p \in Processes, CheckTable(p) PROVE Ready'
<1>1. at[p] = "check" /\ at[p] \in Rebuilding
  BY DEF CheckTable, Rebuilding
<1>2. CASE Table(p) \in legacy
  <2>1. /\ at'[p] = "aside" /\ plan' = plan /\ index' = index /\ exist' = exist
        /\ \A q \in Processes \ {p} : at'[q] = at[q]
    BY <1>2 DEF CheckTable, GoTo, Sound, TypeOK
  <2>2. Hole(p) = {} /\ at'[p] \in Rebuilding
    BY <1>1, <2>1 DEF Hole, Rebuilding
  <2> QED BY <1>1, <2>1, <2>2, RebuildReady DEF CheckTable, notes
<1>3. CASE Table(p) \notin legacy
  <2>1. NextTable(p) /\ exist' = exist \cup ({Table(p)} \cap This(p).tables)
    BY <1>3 DEF CheckTable
  <2> QED BY <1>1, <2>1, StrategiesIs, NextTableReady DEF CheckTable, notes
<1> QED BY <1>2, <1>3

LEMMA SetAsideReady ==
  ASSUME Sound, Alone, Ready, NEW p \in Processes, SetAside(p) PROVE Ready'
<1>1. /\ at[p] = "aside" /\ at'[p] = "create" /\ plan' = plan /\ index' = index
      /\ \A q \in Processes \ {p} : at'[q] = at[q]
      /\ exist' = exist \ {Table(p)}
  BY DEF SetAside, GoTo, Sound, TypeOK
<1>2. Hole(p) = {} /\ Hole(p)' = {Table(p)} /\ at[p] \in Rebuilding /\ at'[p] \in Rebuilding
  BY <1>1, SameJob DEF Hole, Rebuilding
<1> QED BY <1>1, <1>2, RebuildReady DEF SetAside, notes

LEMMA CreateAnewReady ==
  ASSUME Sound, Alone, Ready, NEW p \in Processes, CreateAnew(p) PROVE Ready'
<1>1. /\ at[p] = "create" /\ at'[p] = "copy" /\ plan' = plan /\ index' = index
      /\ \A q \in Processes \ {p} : at'[q] = at[q]
      /\ exist' = exist \cup {Table(p)}
  BY DEF CreateAnew, GoTo, Sound, TypeOK
<1>2. Hole(p) = {Table(p)} /\ at[p] \in Rebuilding /\ at'[p] \in Rebuilding
  BY <1>1 DEF Hole, Rebuilding
<1> QED BY <1>1, <1>2, RebuildReady DEF CreateAnew, notes


LEMMA CopyStrategiesReady ==
  ASSUME Sound, Alone, Ready, NEW p \in Processes, CopyStrategies(p) PROVE Ready'
<1>1. at[p] = "copy" /\ at[p] \in Rebuilding /\ Table(p) \in exist /\ NextTable(p)
  BY DEF CopyStrategies, CanCopyStrategies, Rebuilding
<1> QED BY <1>1, StrategiesIs, NextTableReady DEF CopyStrategies, notes

LEMMA DropEmptyReady ==
  ASSUME Sound, Alone, Ready, NEW p \in Processes, DropEmpty(p) PROVE Ready'
<1>1. at[p] = "copy" /\ at[p] \in Rebuilding /\ Table(p) # "strategies" /\ NextTable(p)
  BY ResearchAre DEF DropEmpty, Rebuilding
<1> QED BY <1>1, StrategiesIs, NextTableReady DEF DropEmpty, notes

LEMMA CopyRowsReady ==
  ASSUME Sound, Alone, Ready, NEW p \in Processes, CopyRows(p) PROVE Ready'
<1>1. /\ at[p] = "copy" /\ at[p] \in Rebuilding /\ Table(p) \in ResearchTables /\ EndJob(p)
      /\ marks' = marks \cup {Job(p).version} /\ legacy' = legacy \ Rest(p)
      /\ exist' = exist /\ tool' = tool
  BY DEF CopyRows, CopyResearch, Rebuilding, notes
<1>2. Table(p) # "strategies" /\ p \in Migrating /\ plan[p] # {}
  BY <1>1, ResearchAre DEF Sound, StepMatches, Migrating
<1>3. /\ Job(p) \in plan[p] /\ Job(p).version = 12 /\ This(p).rebuilds = Research
      /\ This(p).tables = {} /\ index[p] \in DOMAIN Research /\ This(p) \in Chain
      /\ This(p).version = 12
  BY <1>1, <1>2, TableIs
<1>4. Job(p).op = "up"
  BY <1>1, <1>3 DEF Sound, StepMatches, This
<1>5. legacy' \cap Renewed(12) = {}
  <2>1. This(p).alters = {}
    BY <1>3, ChainIs
  <2>2. ASSUME NEW k \in DOMAIN Research PROVE Research[k] \notin legacy'
    <3>1. CASE k <= index[p]
      <4>1. k < index[p] \/ k = index[p]
        BY <1>3, <2>2, <3>1, ResearchIs
      <4> QED BY <1>1, <1>3, <2>2, <4>1 DEF Sound, Past
    <3>2. CASE index[p] < k
      <4>1. k \in (index[p] + 1)..Len(Research)
        BY <1>3, <2>2, <3>2, ResearchIs
      <4> QED BY <1>1, <4>1 DEF Rest
    <3> QED BY <1>3, <2>2, <3>1, <3>2, ResearchIs
  <2> QED BY <1>3, <2>1, <2>2 DEF Renewed, Rebuilt, This
<1> QED BY <1>1, <1>2, <1>3, <1>4, <1>5, EndJobReady

LEMMA MarkReady ==
  ASSUME Sound, Alone, Ready, NEW p \in Processes, Mark(p) PROVE Ready'
<1>1. /\ at[p] = "mark" /\ EndJob(p) /\ exist' = exist /\ legacy' = legacy /\ tool' = tool
      /\ marks' = marks \cup (IF Job(p).op = "up" THEN {Job(p).version} ELSE {})
      /\ p \in Migrating /\ plan[p] # {} /\ Job(p).op \in {"up", "repair"}
  BY DEF Mark, notes, Migrating, Sound, StepMatches
<1>2. This(p).tables \subseteq exist /\ This(p).alters \cap legacy = {}
  BY <1>1 DEF Ready, Underway
<1>3. legacy' \cap Renewed(Job(p).version) = {}
  BY <1>1, <1>2 DEF Sound, Past, Renewed, Rebuilt, This
<1> QED BY <1>1, <1>2, <1>3, EndJobReady

LEMMA ServeReady ==
  ASSUME Sound, Alone, Ready, NEW p \in Processes, Serve(p) PROVE Ready'
<1>1. /\ at[p] = "work" /\ plan[p] = {} /\ p \notin tool /\ p \in Migrating
      /\ at'[p] = "serving" /\ exist \subseteq exist' /\ legacy' = legacy /\ marks' = marks
      /\ \A q \in Processes \ {p} : at'[q] = at[q]
  BY DEF Serve, GoTo, Sound, TypeOK, Migrating
<1>2. Migrating' = {}
  BY <1>1 DEF Alone, Migrating
<1>3. Ups(p) = {} /\ Fixes(p) = {} /\ Hole(p) = {}
  BY <1>1 DEF Ups, Fixes, Hole
<1>4. Versions \subseteq marks /\ \A v \in Versions : Migration[v].tables \subseteq exist
  BY <1>1, <1>3 DEF Ready, UpsFollow
<1>5. legacy = {}
  BY <1>4 DEF Ready, MarkedIsNew, Sound, LegacyOnes
<1>6. HeadTables \subseteq exist
  BY <1>4, VersionsAre DEF HeadTables, TablesUpTo, HeadVersion
<1>7. ServedWhole'
  BY <1>1, <1>2, <1>4, <1>5, <1>6 DEF ServedWhole, Sound, TypeOK, HeadTables, TablesUpTo
<1>8. MarksClosed' /\ MarkedIsNew'
  BY <1>1 DEF Ready, MarksClosed, MarkedIsNew, Renewed, Rebuilt
<1> QED BY <1>2, <1>7, <1>8 DEF Ready

(* A process that ends leaves what the others have to do.                   *)
LEMMA LeaveReady ==
  ASSUME Sound, Ready, NEW p \in Processes, at'[p] = "down", tool' = tool \ {p},
         \A q \in Processes \ {p} : at'[q] = at[q] /\ plan'[q] = plan[q] /\ index'[q] = index[q],
         exist \subseteq exist', legacy' = legacy, marks' = marks
  PROVE  Ready'
<1>1. MarksClosed' /\ MarkedIsNew'
  BY DEF Ready, MarksClosed, MarkedIsNew, Renewed, Rebuilt
<1>2. ASSUME NEW q \in Migrating'
      PROVE  /\ q \in Migrating /\ q # p /\ at'[q] = at[q] /\ This(q)' = This(q) /\ Table(q)' = Table(q)
             /\ Ups(q)' = Ups(q) /\ Fixes(q)' = Fixes(q) /\ Hole(q)' = Hole(q)
  <2>1. q \in Processes \ {p}
    BY DEF Migrating
  <2> QED BY <2>1, SameJob DEF Migrating, Ups, Fixes, Hole
<1>3. ASSUME NEW q \in Migrating' PROVE UpsFollow(q)' /\ Underway(q)'
  <2>1. UpsFollow(q) /\ Underway(q)
    BY <1>2, <1>3 DEF Ready
  <2>2. UpsFollow(q)'
    BY <1>2, <1>3, <2>1 DEF UpsFollow
  <2>3. Underway(q)'
    BY <1>2, <1>3, <2>1 DEF Underway
  <2> QED BY <2>2, <2>3
<1>4. ServedWhole'
  <2> SUFFICES ASSUME \E q \in Processes : at'[q] = "serving" PROVE ServedWhole'
    BY DEF ServedWhole
  <2>1. \E q \in Processes : at[q] = "serving"
    OBVIOUS
  <2> QED BY <1>2, <2>1 DEF Ready, ServedWhole, HeadTables, TablesUpTo
<1> QED BY <1>1, <1>3, <1>4 DEF Ready


(* A step that changes neither the schema nor where a process is.           *)
LEMMA SameReady ==
  ASSUME Sound, Ready, UNCHANGED <<exist, legacy, marks, tool, procs>> PROVE Ready'
<1>1. Migrating' = Migrating /\ MarksClosed' /\ MarkedIsNew'
  BY DEF Ready, Migrating, MarksClosed, MarkedIsNew, Renewed, Rebuilt, procs
<1>2. ASSUME NEW q \in Processes
      PROVE  /\ This(q)' = This(q) /\ Table(q)' = Table(q)
             /\ Ups(q)' = Ups(q) /\ Fixes(q)' = Fixes(q) /\ Hole(q)' = Hole(q)
  BY <1>2, SameJob DEF Ups, Fixes, Hole, procs
<1>3. ASSUME NEW q \in Migrating' PROVE UpsFollow(q)' /\ Underway(q)'
  <2>1. UpsFollow(q) /\ Underway(q) /\ q \in Processes
    BY <1>1, <1>3 DEF Ready, Migrating
  <2> QED BY <1>2, <2>1 DEF UpsFollow, Underway, procs
<1>4. ServedWhole'
  BY <1>1, <1>2 DEF Ready, ServedWhole, Migrating, HeadTables, TablesUpTo, procs
<1> QED BY <1>1, <1>3, <1>4 DEF Ready

LEMMA ReadyInit == ASSUME Init PROVE Ready
<1>1. PICK v \in StartVersions, old \in BOOLEAN :
        LET due == UNION {Migration[u].alters \cup {Migration[u].rebuilds[k] :
                            k \in DOMAIN Migration[u].rebuilds} : u \in {w \in Versions : w > v}}
        IN  /\ marks = {u \in Versions : u <= v}
            /\ exist = IF v = 0 THEN {}
                       ELSE TablesUpTo[v]
                              \cup (Followed \cap (IF old THEN {"trades", "strategies"} ELSE {"trades"}))
            /\ legacy = IF old THEN exist \cap due ELSE {}
  BY DEF Init
<1>2. v \in 0..12
  BY DatabaseAssumption, VersionsAre
<1>3. \A p \in Processes : at[p] = "down"
  BY DEF Init
<1>4. MarksClosed
  <2> SUFFICES ASSUME NEW w \in marks, NEW u \in Versions, u < w PROVE u <= v
    BY <1>1 DEF MarksClosed
  <2>1. w \in 1..12 /\ u \in 1..12 /\ w <= v
    BY <1>1, VersionsAre
  <2> QED BY <1>2, <2>1
<1>5. MarkedIsNew
  <2> SUFFICES ASSUME NEW w \in marks, NEW t \in legacy \cap Renewed(w) PROVE FALSE
    BY DEF MarkedIsNew
  <2>1. PICK u \in Versions : u > v /\ t \in Renewed(u)
    BY <1>1 DEF Renewed, Rebuilt
  <2>2. w \in Versions /\ w <= v
    BY <1>1
  <2>3. u = w
    BY <2>1, <2>2, RenewedOnce
  <2>4. u \in 1..12
    BY VersionsAre
  <2> QED BY <1>2, <2>1, <2>2, <2>3, <2>4
<1> QED BY <1>3, <1>4, <1>5 DEF Ready, ServedWhole, Migrating

(* After a rollback nothing is promised.                                    *)
LEMMA StepReady ==
  ASSUME Sound, RowsInv, ServeInv, NEW p \in Processes, Step(p) PROVE ServeInv'
<1> SUFFICES ASSUME ~raced', ~reverted' PROVE Ready'
  BY DEF ServeInv
<1>1. ~raced /\ ~reverted
  <2>1. ASSUME Boot(p) PROVE (raced => raced') /\ reverted' = reverted
    BY <2>1 DEF Boot, Begin
  <2>2. ASSUME Unmark(p) PROVE (raced => raced') /\ reverted'
    BY <2>2 DEF Unmark
  <2>3. ASSUME Refuse(p) \/ EndTool(p) PROVE (raced => raced') /\ reverted' = reverted
    BY <2>3 DEF Refuse, Ends, EndTool
  <2>4. ASSUME \/ CreateTables(p) \/ CheckTable(p) \/ SetAside(p) \/ CreateAnew(p) \/ CopyStrategies(p)
               \/ DropEmpty(p) \/ CopyRows(p) \/ Mark(p) \/ DropTables(p) \/ Serve(p)
        PROVE  UNCHANGED notes
    BY <2>4 DEF CreateTables, CheckTable, SetAside, CreateAnew, CopyStrategies, DropEmpty, CopyRows,
       CopyResearch, Mark, DropTables, Serve
  <2> QED BY <2>1, <2>2, <2>3, <2>4 DEF Step, notes
<1>2. Ready /\ Alone
  BY <1>1 DEF ServeInv, RowsInv, Undisturbed
<1>3. CASE Boot(p)
  <2>1. HeadVersion \in Versions /\ Migrating = {}
    BY <1>3, VersionsAre DEF HeadVersion, Boot, Begin
  <2> QED BY <1>2, <1>3, <2>1, BeginReady DEF Boot
<1>4. ~Unmark(p)
  BY DEF Unmark
<1>5. ~DropTables(p)
  BY <1>1 DEF DropTables, Sound, StepMatches
<1>6. ASSUME EndTool(p) PROVE Ready'
  <2>1. /\ at'[p] = "down" /\ plan' = plan /\ index' = index
        /\ \A q \in Processes \ {p} : at'[q] = at[q]
    BY <1>6 DEF EndTool, GoTo, Sound, TypeOK
  <2> QED BY <1>2, <1>6, <2>1, LeaveReady DEF EndTool, schema
<1>7. ASSUME Refuse(p) PROVE Ready'
  <2>1. /\ at'[p] = "down"
        /\ \A q \in Processes \ {p} : at'[q] = at[q] /\ plan'[q] = plan[q] /\ index'[q] = index[q]
    BY <1>7 DEF Refuse, Ends, Sound, TypeOK
  <2> QED BY <1>2, <1>7, <2>1, LeaveReady DEF Refuse, Ends
<1> QED BY <1>2, <1>3, <1>4, <1>5, <1>6, <1>7, CreateTablesReady, CheckTableReady, SetAsideReady,
     CreateAnewReady, CopyStrategiesReady, DropEmptyReady, CopyRowsReady, MarkReady, ServeReady DEF Step

LEMMA ReadyNext == ASSUME Sound, RowsInv, ServeInv, [Next]_vars PROVE ServeInv'
<1>1. ASSUME NEW p \in Processes, Crash(p) PROVE ServeInv'
  <2>1. /\ at'[p] = "down" /\ exist \subseteq exist' /\ UNCHANGED <<legacy, marks, raced, reverted>>
        /\ \A q \in Processes \ {p} : at'[q] = at[q] /\ plan'[q] = plan[q] /\ index'[q] = index[q]
    BY <1>1 DEF Crash, Ends, Sound, TypeOK
  <2> QED BY <1>1, <2>1, LeaveReady DEF Crash, Ends, ServeInv
<1>2. ASSUME NEW p \in Processes, RunTool(p) PROVE ServeInv'
  <2>1. PICK v \in Targets : Begin(p, v)
    BY <1>2 DEF RunTool
  <2>2. v \in Versions \cup {0} /\ tool' = tool \cup {p}
    BY <1>2, DatabaseAssumption DEF RunTool
  <2>3. reverted' = reverted /\ (~raced' => ~raced /\ Migrating = {})
    BY <2>1 DEF Begin
  <2> QED BY <2>1, <2>2, <2>3, BeginReady DEF ServeInv
<1>3. ASSUME NEW p \in Processes, NEW t \in Followed, Store(p, t) PROVE ServeInv'
  BY <1>3, SameReady DEF Store, schema, notes, ServeInv
<1>4. ASSUME UNCHANGED vars PROVE ServeInv'
  BY <1>4, SameReady DEF vars, schema, procs, notes, ServeInv
<1> QED BY <1>1, <1>2, <1>3, <1>4, StepReady DEF Next

(* NeverServesPartly, for every chain of crashes and command lines: without  *)
(* a rollback or two migrations at once, whoever serves has every table of   *)
(* the head version in its new shape (boot.py; migration_manager.migrate).   *)
THEOREM NoPartialService == Spec => []NeverServesPartly
<1>1. Init => RowsInv /\ ServeInv
  BY RowsInit, ReadyInit DEF ServeInv
<1>2. Sound /\ RowsInv /\ ServeInv /\ [Next]_vars => RowsInv' /\ ServeInv'
  BY RowsNext, ReadyNext
<1>3. ServeInv => NeverServesPartly
  BY DEF ServeInv, Ready, ServedWhole, NeverServesPartly
<1> QED BY <1>1, <1>2, <1>3, SoundAlways, PTL DEF Spec

-----------------------------------------------------------------------------
(* The candles of the feed.                                                *)

(* Each instance of a module has a Cardinality of its own: the library's.   *)
LEMMA FeedCount == ASSUME NEW S PROVE Feed!Cardinality(S) = Cardinality(S)
BY DEF Feed!Cardinality, Cardinality

(* Of a finite set of numbers there is a greatest one.                      *)
LEMMA GreatestUpTo ==
  ASSUME NEW k \in Nat, NEW N \in SUBSET (0 .. k), N # {}
  PROVE  \E n \in N : \A m \in N : m <= n
<1> DEFINE M == {k - n : n \in N}
<1>1. M \in SUBSET Nat /\ M # {}
  <2>1. \A n \in N : k - n \in Nat
    OBVIOUS
  <2>2. M # {}
    OBVIOUS
  <2> QED BY <2>1, <2>2
<1>2. PICK d \in M : \A e \in M : d <= e
  <2> HIDE DEF M
  <2> QED BY <1>1, LeastNumber
<1>3. PICK n \in N : d = k - n
  BY <1>2
<1>4. ASSUME NEW m \in N PROVE m <= n
  <2>1. k - m \in M
    OBVIOUS
  <2>2. k - n <= k - m
    BY <1>2, <1>3, <2>1
  <2>3. n \in Nat /\ m \in Nat
    OBVIOUS
  <2> QED BY <2>2, <2>3
<1> QED BY <1>4

(* Minutes do not go back, and one that is over is over.                    *)
LEMMA MinuteType ==
  ASSUME NEW t \in Nat
  PROVE  Feed!Minute(t) \in Nat /\ Phases * Feed!Minute(t) <= t /\ t < Phases * (Feed!Minute(t) + 1)
BY FeedAssumption DEF Feed!Minute

LEMMA MinutesGoOn ==
  ASSUME NEW t \in Nat, NEW u \in Nat, t <= u
  PROVE  Feed!Minute(t) <= Feed!Minute(u)
<1> DEFINE a == Feed!Minute(t)
           b == Feed!Minute(u)
<1>1. /\ a \in Nat /\ b \in Nat /\ Phases \in Nat \ {0}
      /\ Phases * a <= t /\ u < Phases * (b + 1)
  BY MinuteType, FeedAssumption
<1> HIDE DEF a, b
<1>2. Phases * a < Phases * (b + 1)
  BY <1>1
<1>3. ~(b + 1 <= a)
  <2> SUFFICES ASSUME b + 1 <= a PROVE FALSE
    OBVIOUS
  <2>1. a - (b + 1) \in Nat /\ Phases * (a - (b + 1)) \in Nat
    BY <1>1
  <2>2. Phases * (a - (b + 1)) = Phases * a - Phases * (b + 1)
    BY <1>1
  <2> QED BY <1>1, <1>2, <2>1, <2>2
<1> QED BY <1>1, <1>3 DEF a, b

LEMMA MinuteIsOver ==
  ASSUME NEW t \in Nat, NEW m \in Nat, t - Phases * m >= Phases
  PROVE  m < Feed!Minute(t)
<1> DEFINE b == Feed!Minute(t)
<1>1. b \in Nat /\ Phases \in Nat \ {0} /\ t < Phases * (b + 1)
  BY MinuteType, FeedAssumption
<1> HIDE DEF b
<1>2. Phases * (m + 1) = Phases * m + Phases /\ Phases * m \in Nat
  BY <1>1
<1>3. Phases * (m + 1) < Phases * (b + 1)
  BY <1>1, <1>2
<1>4. ~(b <= m)
  <2> SUFFICES ASSUME b <= m PROVE FALSE
    OBVIOUS
  <2>1. m - b \in Nat /\ Phases * (m - b) \in Nat
    BY <1>1
  <2>2. Phases * (m - b) = Phases * (m + 1) - Phases * (b + 1)
    BY <1>1
  <2> QED BY <1>1, <1>3, <2>1, <2>2
<1> QED BY <1>1, <1>4 DEF b

(* The numbers of a finite set in order: the i-th has i - 1 before it.      *)
LEMMA InOrderIs ==
  ASSUME NEW M \in SUBSET Nat, IsFiniteSet(M)
  PROVE  /\ Feed!InOrder(M) \in Seq(M) /\ Len(Feed!InOrder(M)) = Cardinality(M)
         /\ \A m \in M : \E i \in DOMAIN Feed!InOrder(M) : Feed!InOrder(M)[i] = m
         /\ \A i, j \in DOMAIN Feed!InOrder(M) : i < j => Feed!InOrder(M)[i] < Feed!InOrder(M)[j]
<1> DEFINE n == Cardinality(M)
           Below(m) == {k \in M : k < m}
           rank == [m \in M |-> Cardinality(Below(m)) + 1]
           f == Feed!InOrder(M)
<1>1. n \in Nat
  BY FS_CardinalityType
<1>2. ASSUME NEW m \in M
      PROVE  /\ IsFiniteSet(Below(m)) /\ Cardinality(Below(m)) \in Nat
             /\ Cardinality(Below(m)) < n /\ rank[m] \in 1 .. n
  <2>1. Below(m) \in SUBSET M /\ m \notin Below(m)
    OBVIOUS
  <2>2. /\ IsFiniteSet(Below(m)) /\ Cardinality(Below(m)) <= n
        /\ (n = Cardinality(Below(m)) => M = Below(m))
    BY <2>1, FS_Subset
  <2>3. Cardinality(Below(m)) \in Nat
    BY <2>2, FS_CardinalityType
  <2> QED BY <1>1, <2>1, <2>2, <2>3
<1>3. ASSUME NEW k \in M, NEW m \in M, k < m PROVE rank[k] < rank[m]
  <2>1. Below(k) \in SUBSET Below(m) /\ k \in Below(m) /\ k \notin Below(k)
    <3>1. k \in Nat /\ m \in Nat /\ \A i \in M : i \in Nat
      OBVIOUS
    <3>2. \A i \in M : i < k => i < m
      BY <1>3, <3>1
    <3>3. ~(k < k)
      BY <3>1
    <3> QED BY <1>3, <3>2, <3>3
  <2>2. /\ Cardinality(Below(k)) <= Cardinality(Below(m))
        /\ (Cardinality(Below(m)) = Cardinality(Below(k)) => Below(m) = Below(k))
    BY <1>2, <2>1, FS_Subset
  <2> QED BY <1>2, <2>1, <2>2
<1>4. \A k, m \in M : rank[k] = rank[m] => k = m
  <2> SUFFICES ASSUME NEW k \in M, NEW m \in M, rank[k] = rank[m] PROVE k = m
    OBVIOUS
  <2>1. k \in Nat /\ m \in Nat /\ rank[k] \in Nat /\ rank[m] \in Nat
    BY <1>2
  <2> QED BY <1>3, <2>1
<1>5. rank \in Surjection(M, 1 .. n)
  <2>1. IsFiniteSet(1 .. n) /\ Cardinality(1 .. n) = n
    BY <1>1, FS_Interval
  <2>2. rank \in [M -> 1 .. n]
    BY <1>2
  <2>3. rank \in Injection(M, 1 .. n)
    BY <1>4, <2>2 DEF Injection, IsInjective
  <2> HIDE DEF rank, n
  <2> QED BY <2>1, <2>3, FS_Injection DEF n
<1>6. ASSUME NEW i \in 1 .. n PROVE f[i] \in M /\ rank[f[i]] = i
  <2>1. PICK m \in M : rank[m] = i
    BY <1>5 DEF Surjection
  <2>2. Cardinality(Below(m)) = i - 1
    BY <1>2, <2>1
  <2>3. f[i] = CHOOSE k \in M : Cardinality(Below(k)) = i - 1
    BY FeedCount DEF Feed!InOrder
  <2>4. f[i] \in M /\ Cardinality(Below(f[i])) = i - 1
    BY <2>2, <2>3
  <2> QED BY <2>4
<1>7. f \in Seq(M) /\ Len(f) = n /\ DOMAIN f = 1 .. n
  <2>1. DOMAIN f = 1 .. n /\ f = [i \in 1 .. n |-> f[i]]
    <3>1. Feed!Cardinality(M) = n
      BY FeedCount
    <3> DEFINE nth(i) == CHOOSE m \in M : Feed!Cardinality({k \in M : k < m}) = i - 1
    <3>2. f = [i \in 1 .. n |-> nth(i)]
      BY <3>1 DEF Feed!InOrder
    <3> HIDE DEF f, n, nth
    <3> QED BY <3>2
  <2>2. f \in [1 .. n -> M]
    BY <1>6, <2>1
  <2> HIDE DEF f, n
  <2> QED BY <1>1, <2>1, <2>2
<1>8. ASSUME NEW m \in M PROVE \E i \in DOMAIN f : f[i] = m
  BY <1>2, <1>4, <1>6, <1>7
<1>9. ASSUME NEW i \in DOMAIN f, NEW j \in DOMAIN f, i < j PROVE f[i] < f[j]
  <2>1. /\ f[i] \in M /\ f[j] \in M /\ rank[f[i]] = i /\ rank[f[j]] = j
        /\ i \in Nat /\ j \in Nat
    <3>1. i \in 1 .. n /\ j \in 1 .. n
      BY <1>7
    <3>2. i \in Nat /\ j \in Nat
      BY <1>1, <3>1
    <3> HIDE DEF f, rank, n
    <3> QED BY <1>6, <3>1, <3>2
  <2>3. f[i] \in Nat /\ f[j] \in Nat
    BY <2>1
  <2>4. ~(f[j] < f[i]) /\ f[i] # f[j]
    BY <1>3, <1>9, <2>1, <2>3
  <2> QED BY <2>3, <2>4
<1> QED BY <1>7, <1>8, <1>9


-----------------------------------------------------------------------------
Frames == [symbol : Symbols, time : Nat, good : BOOLEAN]
Candles == [start : Nat, trades : SUBSET Nat]

FeedType ==
  /\ subscribed \subseteq Symbols /\ now \in Nat
  /\ traded \in [Symbols -> SUBSET Nat]
  /\ wire \in Seq(Frames)
  /\ current \in [Symbols -> SUBSET Nat] /\ closed \in [Symbols -> SUBSET Nat]
  /\ candles \in [Symbols -> Seq(Candles)]

(* Every frame is of a trade.                                               *)
FramesAreTrades ==
  /\ \A s \in Symbols : \A t \in traded[s] : t <= now
  /\ \A i \in DOMAIN wire : wire[i].time \in traded[wire[i].symbol]
  /\ tick # <<>> => tick \in Frames /\ tick.time \in traded[tick.symbol]

(* A tick is in the thread's hands from ingest() to the end of _on_tick; a  *)
(* pass is over symbols that are cached.                                    *)
ThreadHolds ==
  /\ tick # <<>> <=> thread = "handling" \/ (thread = "reconciling" /\ pass.back = "handling")
  /\ thread = "reconciling" =>
       /\ pass.at \in Nat /\ pass.at <= now /\ pass.back \in {"handling", "reading"}
       /\ pass.todo \subseteq Symbols /\ \A s \in pass.todo : candles[s] # <<>>

(* What was accepted is in the open bucket, or its bucket was closed.       *)
Buckets(s) ==
  /\ current[s] \subseteq traded[s]
  /\ \A t, u \in current[s] : Feed!Minute(t) = Feed!Minute(u)
  /\ \A m \in closed[s] : current[s] # {} /\ m < Feed!Start(current[s])
  /\ \A t \in Feed!Accepted(s) : t \in current[s] \/ Feed!Minute(t) \in closed[s]

(* A candle is the exchange's of a minute that is over, or of a bucket that *)
(* was closed and then has all that was accepted.                           *)
AsTheExchange(s, c) == c.start < Feed!Minute(now) /\ c.trades = Feed!Truth(s, c.start)
AsAccepted(s, c) ==
  c.start \in closed[s] /\ \A t \in Feed!Accepted(s) : Feed!Minute(t) = c.start => t \in c.trades
Served(s) == \A i \in DOMAIN candles[s] :
  /\ candles[s][i].trades \subseteq Feed!Truth(s, candles[s][i].start)
  /\ AsTheExchange(s, candles[s][i]) \/ AsAccepted(s, candles[s][i])

(* The cache need not be in order, but a closed minute has only later ones  *)
(* behind its last candle: so it leaves the window before them.             *)
IsLast(line, i) == \A k \in DOMAIN line : k > i => line[k].start # line[i].start
LastOnesInOrder(s) == \A i \in DOMAIN candles[s] :
  candles[s][i].start \in closed[s] /\ IsLast(candles[s], i)
    => \A k \in DOMAIN candles[s] : k > i => candles[s][k].start > candles[s][i].start
ClosedAreServed(s) == \A m \in closed[s] :
  m \in Feed!Starts(candles[s]) \/ \A x \in Feed!Starts(candles[s]) : m < x

CacheOf(s) == Buckets(s) /\ Served(s) /\ LastOnesInOrder(s) /\ ClosedAreServed(s)
FeedInv == FeedType /\ FramesAreTrades /\ ThreadHolds /\ \A s \in Symbols : CacheOf(s)

-----------------------------------------------------------------------------
(* What is on its way to the aggregator.                                    *)
Sent(w) == {<<w[i].symbol, w[i].time>> : i \in DOMAIN w}
Handed(t) == IF t = <<>> THEN {} ELSE {<<t.symbol, t.time>>}
Away == lost \cup Sent(wire) \cup Handed(tick)

LEMMA AcceptedIs == \A s : Feed!Accepted(s) = {t \in traded[s] : <<s, t>> \notin Away}
BY DEF Feed!Accepted, Away, Sent, Handed, Feed!Range
LEMMA AcceptedThen == \A s : Feed!Accepted(s)' = {t \in traded'[s] : <<s, t>> \notin Away'}
BY DEF Feed!Accepted, Away, Sent, Handed, Feed!Range

LEMMA FewerAccepted ==
  ASSUME traded' = traded, Away \subseteq Away'
  PROVE  \A s : Feed!Accepted(s)' \subseteq Feed!Accepted(s)
<1> SUFFICES ASSUME NEW s PROVE Feed!Accepted(s)' \subseteq Feed!Accepted(s)
  OBVIOUS
<1>1. Feed!Accepted(s) = {t \in traded[s] : <<s, t>> \notin Away}
  BY AcceptedIs
<1>2. Feed!Accepted(s)' = {t \in traded[s] : <<s, t>> \notin Away'}
  BY AcceptedThen
<1> QED BY <1>1, <1>2

LEMMA SentLost == ASSUME NEW w PROVE {<<f.symbol, f.time>> : f \in Feed!Range(w)} = Sent(w)
BY DEF Feed!Range, Sent

LEMMA FrameIsNotNone == ASSUME NEW f \in Frames PROVE f # <<>>
<1>1. "symbol" \in DOMAIN f
  BY DEF Frames
<1>2. DOMAIN <<>> = {}
  OBVIOUS
<1> QED BY <1>1, <1>2

LEMMA SentTail ==
  ASSUME NEW w \in Seq(Frames), w # <<>>
  PROVE  /\ Head(w) \in Frames /\ Tail(w) \in Seq(Frames)
         /\ 1 \in DOMAIN w /\ Head(w) = w[1]
         /\ \A i \in DOMAIN Tail(w) : i + 1 \in DOMAIN w /\ Tail(w)[i] = w[i + 1]
         /\ Sent(w) = Sent(Tail(w)) \cup {<<Head(w).symbol, Head(w).time>>}
<1>1. /\ Len(w) \in Nat \ {0} /\ DOMAIN w = 1 .. Len(w)
      /\ Head(w) = w[1] /\ Head(w) \in Frames /\ Tail(w) \in Seq(Frames)
      /\ Len(Tail(w)) = Len(w) - 1 /\ DOMAIN Tail(w) = 1 .. Len(w) - 1
      /\ \A i \in 1 .. Len(Tail(w)) : Tail(w)[i] = w[i + 1]
  BY EmptySeq, HeadTailProperties, LenProperties
<1>2. \A i \in DOMAIN w : i = 1 \/ (i - 1 \in DOMAIN Tail(w) /\ w[i] = Tail(w)[i - 1])
  <2> SUFFICES ASSUME NEW i \in 1 .. Len(w), i # 1
               PROVE  i - 1 \in 1 .. Len(w) - 1 /\ w[i] = Tail(w)[i - 1]
    BY <1>1
  <2>1. i - 1 \in 1 .. Len(w) - 1 /\ (i - 1) + 1 = i
    BY <1>1
  <2>2. Tail(w)[i - 1] = w[(i - 1) + 1]
    BY <1>1, <2>1
  <2> QED BY <2>1, <2>2
<1>3. \A i \in DOMAIN Tail(w) : i + 1 \in DOMAIN w /\ Tail(w)[i] = w[i + 1]
  BY <1>1
<1>4. ASSUME NEW x \in Sent(w)
      PROVE  x \in Sent(Tail(w)) \cup {<<Head(w).symbol, Head(w).time>>}
  <2>1. PICK i \in DOMAIN w : x = <<w[i].symbol, w[i].time>>
    BY DEF Sent
  <2>2. CASE i = 1
    BY <1>1, <2>1, <2>2
  <2>3. CASE i - 1 \in DOMAIN Tail(w) /\ w[i] = Tail(w)[i - 1]
    BY <2>1, <2>3 DEF Sent
  <2> QED BY <1>2, <2>2, <2>3
<1>5. ASSUME NEW x \in Sent(Tail(w)) \cup {<<Head(w).symbol, Head(w).time>>}
      PROVE  x \in Sent(w)
  BY <1>1, <1>3 DEF Sent
<1> QED BY <1>1, <1>3, <1>4, <1>5

LEMMA CandleType ==
  ASSUME FeedType, NEW s \in Symbols, NEW i \in DOMAIN candles[s]
  PROVE  /\ candles[s][i] \in Candles /\ candles[s][i].start \in Nat
         /\ candles[s] \in Seq(Candles) /\ i \in 1 .. Len(candles[s])
<1>1. candles[s] \in Seq(Candles)
  BY DEF FeedType
<1>2. i \in 1 .. Len(candles[s])
  BY <1>1, LenProperties
<1>3. candles[s][i] \in Candles
  BY <1>1, <1>2, ElementOfSeq
<1> QED BY <1>1, <1>2, <1>3 DEF Candles

(* Nothing is accepted and the cache is left alone.                         *)
LEMMA CacheStays ==
  ASSUME NEW s, CacheOf(s), UNCHANGED <<now, traded>>, current'[s] = current[s],
         closed'[s] = closed[s], candles'[s] = candles[s], Feed!Accepted(s)' \subseteq Feed!Accepted(s)
  PROVE  CacheOf(s)'
<1>1. Buckets(s)'
  BY DEF CacheOf, Buckets
<1>2. Served(s)'
  BY DEF CacheOf, Served, AsTheExchange, AsAccepted, Feed!Truth
<1>3. LastOnesInOrder(s)' /\ ClosedAreServed(s)'
  BY DEF CacheOf, LastOnesInOrder, ClosedAreServed, IsLast
<1> QED BY <1>1, <1>2, <1>3 DEF CacheOf

-----------------------------------------------------------------------------
(* The steps that leave the cache alone.                                    *)

(* Frames that are sent come behind those on the wire.                      *)
LEMMA SentMore ==
  ASSUME NEW v \in Seq(Frames), NEW w \in Seq(Frames)
  PROVE  /\ v \o w \in Seq(Frames) /\ Sent(v) \cup Sent(w) \subseteq Sent(v \o w)
         /\ \A i \in DOMAIN (v \o w) :
              (\E j \in DOMAIN v : (v \o w)[i] = v[j]) \/ \E j \in DOMAIN w : (v \o w)[i] = w[j]
<1> DEFINE u == v \o w
<1>1. /\ u \in Seq(Frames) /\ Len(u) = Len(v) + Len(w)
      /\ \A i \in 1 .. Len(v) + Len(w) : u[i] = IF i <= Len(v) THEN v[i] ELSE w[i - Len(v)]
  BY ConcatProperties
<1>2. /\ Len(v) \in Nat /\ Len(w) \in Nat /\ DOMAIN v = 1 .. Len(v) /\ DOMAIN w = 1 .. Len(w)
      /\ DOMAIN u = 1 .. Len(v) + Len(w)
  BY <1>1, LenProperties
<1> HIDE DEF u
<1>3. ASSUME NEW i \in DOMAIN v PROVE i \in DOMAIN u /\ u[i] = v[i]
  BY <1>1, <1>2
<1>4. ASSUME NEW i \in DOMAIN w PROVE Len(v) + i \in DOMAIN u /\ u[Len(v) + i] = w[i]
  <2>1. /\ i \in Nat /\ Len(v) + i \in 1 .. Len(v) + Len(w)
        /\ ~(Len(v) + i <= Len(v)) /\ (Len(v) + i) - Len(v) = i
    BY <1>2
  <2> QED BY <1>1, <1>2, <2>1
<1>5. Sent(v) \cup Sent(w) \subseteq Sent(u)
  BY <1>3, <1>4 DEF Sent
<1>6. ASSUME NEW i \in DOMAIN u
      PROVE  (\E j \in DOMAIN v : u[i] = v[j]) \/ \E j \in DOMAIN w : u[i] = w[j]
  <2>1. CASE i <= Len(v)
    BY <1>1, <1>2, <2>1
  <2>2. CASE ~(i <= Len(v))
    <3>1. i - Len(v) \in DOMAIN w
      BY <1>2, <2>2
    <3> QED BY <1>1, <1>2, <2>2, <3>1
  <2> QED BY <2>1, <2>2
<1> QED BY <1>1, <1>5, <1>6 DEF u

(* All that is new is away: the trades that are made are on the wire or     *)
(* lost.                                                                    *)
LEMMA PassSends ==
  ASSUME FeedInv, NEW order \in Seq(subscribed), Feed!Pass(order)
  PROVE  /\ wire' \in Seq(Frames)
         /\ \A i \in DOMAIN wire' :
              \/ \E j \in DOMAIN wire : wire'[i] = wire[j]
              \/ wire'[i].time = now + 1 /\ wire'[i].symbol \in Feed!Range(order)
         /\ Away \cup {<<s, now + 1>> : s \in Feed!Range(order)} \subseteq Away'
<1> DEFINE more == [i \in 1 .. Len(order) |-> Feed!Frame(order[i])]
           made == {<<s, now + 1>> : s \in Feed!Range(order)}
<1>1. /\ now \in Nat /\ order \in Seq(Symbols) /\ wire \in Seq(Frames) /\ tick' = tick
      /\ DOMAIN order = 1 .. Len(order) /\ Len(order) \in Nat
  BY DEF FeedInv, FeedType, Feed!Pass, Feed!stream
<1>2. CASE conn = "up"
  <2>1. wire' = wire \o more /\ lost' = lost
    BY <1>1, <1>2 DEF Feed!Pass
  <2>2. more \in Seq(Frames) /\ DOMAIN more = DOMAIN order
    <3>1. \A i \in 1 .. Len(order) : Feed!Frame(order[i]) \in Frames
      BY <1>1 DEF Feed!Frame, Frames
    <3> QED BY <1>1, <3>1
  <2>3. made \subseteq Sent(more)
    <3> SUFFICES ASSUME NEW s \in Feed!Range(order) PROVE <<s, now + 1>> \in Sent(more)
      OBVIOUS
    <3>1. PICK k \in DOMAIN order : s = order[k]
      BY DEF Feed!Range
    <3>2. more[k].symbol = s /\ more[k].time = now + 1
      BY <1>1, <3>1 DEF Feed!Frame
    <3> HIDE DEF more
    <3> QED BY <2>2, <3>2 DEF Sent
  <2>4. \A j \in DOMAIN more : more[j].time = now + 1 /\ more[j].symbol \in Feed!Range(order)
    BY <1>1 DEF Feed!Frame, Feed!Range
  <2> HIDE DEF more, made
  <2>5. /\ wire' \in Seq(Frames) /\ Sent(wire) \cup Sent(more) \subseteq Sent(wire')
        /\ \A i \in DOMAIN wire' :
              (\E j \in DOMAIN wire : wire'[i] = wire[j]) \/ \E j \in DOMAIN more : wire'[i] = more[j]
    BY <1>1, <2>1, <2>2, SentMore
  <2>6. Away \cup made \subseteq Away'
    BY <1>1, <2>1, <2>3, <2>5 DEF Away
  <2> QED BY <2>4, <2>5, <2>6 DEF made
<1>3. CASE conn # "up"
  BY <1>1, <1>3 DEF Feed!Pass, Away
<1> QED BY <1>2, <1>3

LEMMA PassKeeps ==
  ASSUME FeedInv, NEW order \in Seq(subscribed), Feed!Pass(order)
  PROVE  FeedInv'
<1>1. /\ wire' \in Seq(Frames)
      /\ \A i \in DOMAIN wire' :
           \/ \E j \in DOMAIN wire : wire'[i] = wire[j]
           \/ wire'[i].time = now + 1 /\ wire'[i].symbol \in Feed!Range(order)
      /\ Away \cup {<<s, now + 1>> : s \in Feed!Range(order)} \subseteq Away'
  BY PassSends
<1>2. /\ now \in Nat /\ now' = now + 1
      /\ traded' = [s \in Symbols |-> traded[s] \cup IF s \in Feed!Range(order) THEN {now + 1} ELSE {}]
      /\ UNCHANGED <<subscribed, thread, tick, pass, current, closed, candles>>
      /\ Feed!Range(order) \subseteq Symbols
  BY DEF FeedInv, FeedType, Feed!Pass, Feed!stream, Feed!cache, Feed!Range
<1>3. \A s \in Symbols : traded[s] \subseteq traded'[s]
  BY <1>2
<1>4. FeedType'
  BY <1>1, <1>2 DEF FeedInv, FeedType
<1>5. FramesAreTrades'
  <2>1. \A s \in Symbols : \A t \in traded'[s] : t <= now'
    <3> SUFFICES ASSUME NEW s \in Symbols, NEW t \in traded'[s] PROVE t <= now + 1
      BY <1>2
    <3>1. t = now + 1 \/ (t \in traded[s] /\ t <= now)
      BY <1>2 DEF FeedInv, FramesAreTrades
    <3>2. t \in Nat
      BY <1>4 DEF FeedType
    <3> QED BY <1>2, <3>1, <3>2
  <2>2. ASSUME NEW i \in DOMAIN wire' PROVE wire'[i].time \in traded'[wire'[i].symbol]
    <3>1. ASSUME NEW j \in DOMAIN wire, wire'[i] = wire[j]
          PROVE wire'[i].time \in traded'[wire'[i].symbol]
      <4>1. wire[j] \in Frames
        BY DEF FeedInv, FeedType
      <4> QED BY <1>3, <3>1, <4>1 DEF FeedInv, FramesAreTrades, Frames
    <3>2. CASE wire'[i].time = now + 1 /\ wire'[i].symbol \in Feed!Range(order)
      BY <1>2, <3>2
    <3> QED BY <1>1, <3>1, <3>2
  <2>3. tick' # <<>> => tick' \in Frames /\ tick'.time \in traded'[tick'.symbol]
    BY <1>2, <1>3 DEF FeedInv, FramesAreTrades, Frames
  <2> QED BY <2>1, <2>2, <2>3 DEF FramesAreTrades
<1>6. ThreadHolds'
  BY <1>2 DEF FeedInv, ThreadHolds
<1>7. ASSUME NEW s \in Symbols PROVE Feed!Accepted(s)' \subseteq Feed!Accepted(s)
  <2> SUFFICES ASSUME NEW t \in traded'[s], <<s, t>> \notin Away' PROVE t \in Feed!Accepted(s)
    BY AcceptedThen
  <2>1. t \in traded[s]
    BY <1>1, <1>2
  <2> QED BY <1>1, <2>1, AcceptedIs
<1>8. Feed!Minute(now) \in Nat /\ Feed!Minute(now') \in Nat /\ Feed!Minute(now) <= Feed!Minute(now')
  <2>1. now \in Nat /\ now' \in Nat /\ now <= now'
    BY <1>2
  <2> QED BY <2>1, MinuteType, MinutesGoOn
<1>9. ASSUME NEW s \in Symbols, NEW m \in Nat
      PROVE  Feed!Truth(s, m) \subseteq Feed!Truth(s, m)' /\ (m < Feed!Minute(now) => Feed!Truth(s, m)' = Feed!Truth(s, m))
  BY <1>2, <1>8 DEF Feed!Truth
<1>10. ASSUME NEW s \in Symbols PROVE Buckets(s)'
  <2> SUFFICES /\ current[s] \subseteq traded'[s]
               /\ \A t, u \in current[s] : Feed!Minute(t) = Feed!Minute(u)
               /\ \A m \in closed[s] : current[s] # {} /\ m < Feed!Start(current[s])
               /\ \A t \in Feed!Accepted(s)' : t \in current[s] \/ Feed!Minute(t) \in closed[s]
    BY <1>2 DEF Buckets
  <2> QED BY <1>3, <1>7 DEF FeedInv, CacheOf, Buckets
<1>11. ASSUME NEW s \in Symbols, NEW c \in Candles, c.trades \subseteq Feed!Truth(s, c.start),
              AsTheExchange(s, c) \/ AsAccepted(s, c)
       PROVE  c.trades \subseteq Feed!Truth(s, c.start)' /\ (AsTheExchange(s, c)' \/ AsAccepted(s, c)')
  <2>1. c.start \in Nat
    BY DEF Candles
  <2>2. Feed!Truth(s, c.start) \subseteq Feed!Truth(s, c.start)'
    BY <1>9, <2>1
  <2>3. AsTheExchange(s, c) => AsTheExchange(s, c)'
    BY <1>8, <1>9, <2>1 DEF AsTheExchange
  <2>4. AsAccepted(s, c) => AsAccepted(s, c)'
    BY <1>2, <1>7 DEF AsAccepted
  <2> QED BY <1>11, <2>2, <2>3, <2>4
<1>12. ASSUME NEW s \in Symbols PROVE Served(s)'
  <2> SUFFICES ASSUME NEW i \in DOMAIN candles[s], NEW c, c = candles[s][i]
               PROVE  c.trades \subseteq Feed!Truth(s, c.start)' /\ (AsTheExchange(s, c)' \/ AsAccepted(s, c)')
    BY <1>2 DEF Served
  <2>1. c \in Candles
    BY CandleType DEF FeedInv
  <2> QED BY <1>11, <2>1 DEF FeedInv, CacheOf, Served
<1>13. ASSUME NEW s \in Symbols PROVE LastOnesInOrder(s)' /\ ClosedAreServed(s)'
  BY <1>2 DEF FeedInv, CacheOf, LastOnesInOrder, ClosedAreServed, IsLast
<1> QED BY <1>4, <1>5, <1>6, <1>10, <1>12, <1>13 DEF FeedInv, CacheOf

(* Steps after which no more has been accepted and the cache is as it was.  *)
LEMMA QuietKeeps ==
  ASSUME FeedInv, UNCHANGED <<subscribed, now, traded, current, closed, candles>>,
         wire' \in Seq(Frames),
         \A i \in DOMAIN wire' :
           \E j \in DOMAIN wire : wire'[i].symbol = wire[j].symbol /\ wire'[i].time = wire[j].time,
         tick' # <<>> => tick' \in Frames /\ tick'.time \in traded[tick'.symbol],
         ThreadHolds', Away \subseteq Away'
  PROVE  FeedInv'
<1>1. FeedType'
  BY DEF FeedInv, FeedType
<1>2. FramesAreTrades'
  BY DEF FeedInv, FramesAreTrades
<1>3. \A s \in Symbols : CacheOf(s)'
  BY FewerAccepted, CacheStays DEF FeedInv
<1> QED BY <1>1, <1>2, <1>3 DEF FeedInv

LEMMA FrameType ==
  ASSUME FeedType, NEW i \in DOMAIN wire
  PROVE  wire[i] \in Frames
BY ElementOfSeq, LenProperties DEF FeedType

LEMMA DropsKeep ==
  ASSUME FeedInv, UNCHANGED <<subscribed, now, traded, current, closed, candles, tick>>,
         ThreadHolds', Feed!Lose(Feed!Range(wire)), wire' = <<>>
  PROVE  FeedInv'
<1>1. lost' = lost \cup Sent(wire)
  BY SentLost DEF Feed!Lose
<1>2. Away \subseteq Away'
  BY <1>1 DEF Away
<1>3. wire' \in Seq(Frames) /\ DOMAIN wire' = {}
  BY EmptySeq
<1> QED BY <1>2, <1>3, QuietKeeps DEF FeedInv, FramesAreTrades

LEMMA SameFramesKeep ==
  ASSUME FeedInv, UNCHANGED <<subscribed, now, traded, current, closed, candles, tick, wire, lost>>,
         ThreadHolds'
  PROVE  FeedInv'
<1>1. Away \subseteq Away'
  BY DEF Away
<1> QED BY <1>1, QuietKeeps DEF FeedInv, FramesAreTrades, FeedType

LEMMA ThreadKeeps ==
  ASSUME FeedInv, Feed!Disconnect \/ Feed!StopFeed \/ Feed!StartFeed
            \/ Feed!Enter \/ Feed!Connect \/ Feed!Wake \/ Feed!ConnectionEnds
  PROVE  FeedInv'
<1>1. CASE Feed!Disconnect
  BY <1>1, DropsKeep DEF Feed!Disconnect, Feed!exchange, Feed!cache, FeedInv, ThreadHolds
<1>2. CASE Feed!StopFeed
  BY <1>2, DropsKeep DEF Feed!StopFeed, Feed!exchange, Feed!cache, FeedInv, ThreadHolds
<1>3. CASE Feed!StartFeed
  BY <1>3, SameFramesKeep DEF Feed!StartFeed, Feed!exchange, Feed!cache, FeedInv, ThreadHolds
<1>4. CASE Feed!Enter
  BY <1>4, SameFramesKeep DEF Feed!Enter, Feed!exchange, Feed!cache, FeedInv, ThreadHolds
<1>5. CASE Feed!Connect
  BY <1>5, SameFramesKeep DEF Feed!Connect, Feed!Outage, Feed!exchange, Feed!cache, FeedInv, ThreadHolds
<1>6. CASE Feed!Wake
  BY <1>6, SameFramesKeep DEF Feed!Wake, Feed!Loop, Feed!exchange, Feed!cache, FeedInv, ThreadHolds
<1>7. CASE Feed!ConnectionEnds
  BY <1>7, SameFramesKeep DEF Feed!ConnectionEnds, Feed!Exhausted, Feed!Outage, Feed!Loop,
       Feed!exchange, Feed!cache, FeedInv, ThreadHolds
<1> QED BY <1>1, <1>2, <1>3, <1>4, <1>5, <1>6, <1>7

LEMMA GarbleKeeps == ASSUME FeedInv, Feed!Garble PROVE FeedInv'
<1>1. /\ wire \in Seq(Frames) /\ wire # <<>> /\ wire' = [wire EXCEPT ![1].good = FALSE]
      /\ UNCHANGED <<lost, tick, thread, pass, subscribed, now, traded, current, closed, candles>>
  BY DEF Feed!Garble, Feed!exchange, Feed!stream, Feed!cache, FeedInv, FeedType
<1>2. /\ DOMAIN wire' = DOMAIN wire /\ DOMAIN wire = 1 .. Len(wire) /\ Len(wire) \in Nat
      /\ \A i \in DOMAIN wire : wire[i] \in Frames
  BY <1>1, FrameType, LenProperties DEF FeedInv
<1>3. \A i \in DOMAIN wire :
        wire'[i] \in Frames /\ wire'[i].symbol = wire[i].symbol /\ wire'[i].time = wire[i].time
  <2> SUFFICES ASSUME NEW i \in DOMAIN wire
               PROVE  wire'[i] \in Frames /\ wire'[i].symbol = wire[i].symbol /\ wire'[i].time = wire[i].time
    OBVIOUS
  <2>1. wire'[i] = IF i = 1 THEN [wire[1] EXCEPT !.good = FALSE] ELSE wire[i]
    BY <1>1
  <2> QED BY <1>2, <2>1 DEF Frames
<1>4. wire' \in Seq(Frames)
  <2>1. wire' = [i \in 1 .. Len(wire) |-> wire'[i]]
    BY <1>1, <1>2
  <2> QED BY <1>2, <1>3, <2>1
<1>5. Sent(wire) \subseteq Sent(wire')
  <2> SUFFICES ASSUME NEW i \in DOMAIN wire PROVE <<wire[i].symbol, wire[i].time>> \in Sent(wire')
    BY DEF Sent
  <2>1. <<wire'[i].symbol, wire'[i].time>> \in Sent(wire')
    BY <1>2 DEF Sent
  <2> QED BY <1>3, <2>1
<1>6. Away \subseteq Away' /\ ThreadHolds'
  BY <1>1, <1>5 DEF Away, FeedInv, ThreadHolds
<1> QED BY <1>1, <1>2, <1>3, <1>4, <1>6, QuietKeeps DEF FeedInv, FramesAreTrades

LEMMA ReorderKeeps == ASSUME FeedInv, Feed!Reorder PROVE FeedInv'
<1> DEFINE n == Len(wire)
           rest == SubSeq(wire, 3, n)
           two == <<wire[2], wire[1]>>
<1>1. /\ wire \in Seq(Frames) /\ n \in Nat /\ n > 1 /\ wire' = two \o rest
      /\ DOMAIN wire = 1 .. n /\ \A i \in 1 .. n : wire[i] \in Frames
      /\ UNCHANGED <<lost, tick, thread, pass, subscribed, now, traded, current, closed, candles>>
  BY FrameType, LenProperties DEF Feed!Reorder, Feed!exchange, Feed!stream, Feed!cache, FeedInv, FeedType
<1>2. /\ two \in Seq(Frames) /\ DOMAIN two = 1 .. 2 /\ two[1] = wire[2] /\ two[2] = wire[1]
      /\ 1 \in DOMAIN wire /\ 2 \in DOMAIN wire
  BY <1>1
<1>3. /\ rest \in Seq(Frames) /\ DOMAIN rest = 1 .. n - 2
      /\ \A i \in 1 .. n - 2 : rest[i] = wire[i + 2]
  BY <1>1
<1>4. \A j \in DOMAIN wire :
        (\E i \in DOMAIN two : wire[j] = two[i]) \/ \E i \in DOMAIN rest : wire[j] = rest[i]
  <2> SUFFICES ASSUME NEW j \in 1 .. n
               PROVE (\E i \in DOMAIN two : wire[j] = two[i]) \/ \E i \in DOMAIN rest : wire[j] = rest[i]
    BY <1>1
  <2>1. CASE j = 1 \/ j = 2
    BY <1>2, <2>1
  <2>2. CASE j > 2
    <3>1. j - 2 \in 1 .. n - 2 /\ (j - 2) + 2 = j
      BY <1>1, <2>2
    <3> QED BY <1>3, <3>1
  <2> QED BY <1>1, <2>1, <2>2
<1>5. \A i \in DOMAIN rest : i + 2 \in DOMAIN wire
  BY <1>1, <1>3
<1> HIDE DEF two, rest, n
<1>6. /\ wire' \in Seq(Frames) /\ Sent(two) \cup Sent(rest) \subseteq Sent(wire')
      /\ \A i \in DOMAIN wire' :
           (\E j \in DOMAIN two : wire'[i] = two[j]) \/ \E j \in DOMAIN rest : wire'[i] = rest[j]
  BY <1>1, <1>2, <1>3, SentMore
<1>7. \A i \in DOMAIN wire' : \E j \in DOMAIN wire : wire'[i] = wire[j]
  BY <1>2, <1>3, <1>5, <1>6
<1>8. Sent(wire) \subseteq Sent(wire')
  <2> SUFFICES ASSUME NEW j \in DOMAIN wire
               PROVE  <<wire[j].symbol, wire[j].time>> \in Sent(two) \cup Sent(rest)
    BY <1>6 DEF Sent
  <2> QED BY <1>4 DEF Sent
<1>9. Away \subseteq Away' /\ ThreadHolds'
  BY <1>1, <1>8 DEF Away, FeedInv, ThreadHolds
<1> QED BY <1>1, <1>6, <1>7, <1>9, QuietKeeps DEF FeedInv, FramesAreTrades

(* A frame that is skipped is lost, and one that is taken is in the hands   *)
(* of the thread.                                                           *)
LEMMA HeadTaken ==
  ASSUME FeedInv, wire # <<>>, wire' = Tail(wire)
  PROVE  /\ Head(wire) \in Frames /\ Head(wire).time \in traded[Head(wire).symbol]
         /\ wire' \in Seq(Frames)
         /\ \A i \in DOMAIN wire' :
              \E j \in DOMAIN wire : wire'[i].symbol = wire[j].symbol /\ wire'[i].time = wire[j].time
         /\ Sent(wire) = Sent(wire') \cup {<<Head(wire).symbol, Head(wire).time>>}
BY SentTail DEF FeedInv, FeedType, FramesAreTrades

LEMMA SkipKeeps ==
  ASSUME FeedInv, thread = "reading", wire # <<>>, wire' = Tail(wire), Feed!Lose({Head(wire)}),
         UNCHANGED <<Feed!exchange, tick, Feed!cache, pass>>, thread' \notin {"handling", "reconciling"}
  PROVE  FeedInv'
<1>1. lost' = lost \cup {<<Head(wire).symbol, Head(wire).time>>}
  BY DEF Feed!Lose
<1>2. Away \subseteq Away' /\ ThreadHolds'
  BY <1>1, HeadTaken DEF Away, FeedInv, ThreadHolds
<1>3. UNCHANGED <<subscribed, now, traded, current, closed, candles, tick>>
  BY DEF Feed!exchange, Feed!cache
<1> QED BY <1>2, <1>3, HeadTaken, QuietKeeps DEF FeedInv, FramesAreTrades

LEMMA IngestKeeps == ASSUME FeedInv, Feed!Ingest PROVE FeedInv'
<1>1. /\ wire # <<>> /\ wire' = Tail(wire) /\ tick' = Head(wire) /\ tick = <<>> /\ lost' = lost
      /\ UNCHANGED <<subscribed, now, traded, current, closed, candles>>
  BY DEF Feed!Ingest, Feed!exchange, FeedInv, ThreadHolds
<1>2. tick' # <<>> /\ tick' \in Frames /\ tick'.time \in traded[tick'.symbol]
  BY <1>1, HeadTaken, FrameIsNotNone
<1>3. Away \subseteq Away'
  BY <1>1, <1>2, HeadTaken DEF Away, Handed
<1>4. ThreadHolds'
  BY <1>1, <1>2 DEF Feed!Ingest, Feed!BeginPass, FeedInv, ThreadHolds, FeedType
<1> QED BY <1>1, <1>2, <1>3, <1>4, HeadTaken, QuietKeeps

LEMMA StreamKeeps == ASSUME FeedInv, Feed!Skip \/ Feed!Break \/ Feed!Ingest \/ Feed!Reconciled PROVE FeedInv'
<1>1. CASE Feed!Skip
  BY <1>1, SkipKeeps DEF Feed!Skip, Feed!stream
<1>2. CASE Feed!Break
  BY <1>2, SkipKeeps DEF Feed!Break, Feed!Exhausted, Feed!Outage, Feed!Loop
<1>3. CASE Feed!Ingest
  BY <1>3, IngestKeeps
<1>4. CASE Feed!Reconciled
  BY <1>4, SameFramesKeep DEF Feed!Reconciled, Feed!exchange, Feed!cache, FeedInv, ThreadHolds
<1> QED BY <1>1, <1>2, <1>3, <1>4


(* The symbols that are traded in a unit are in some order, each once.      *)
LEMMA TimeKeeps == ASSUME FeedInv, Feed!TimePasses PROVE FeedInv'
<1>0. PICK S \in SUBSET subscribed : \E order \in Feed!SetToSeqs(S) : Feed!Pass(order)
  BY DEF Feed!TimePasses
<1>1. PICK order \in Feed!SetToSeqs(S) : Feed!Pass(order)
  BY <1>0
<1>2. Cardinality(S) \in Nat
  <2>1. S \in SUBSET Symbols
    BY DEF FeedInv, FeedType
  <2> QED BY <2>1, FS_Subset, FS_CardinalityType, FeedAssumption
<1>3. order \in [1 .. Cardinality(S) -> S]
  BY FeedCount DEF Feed!SetToSeqs
<1>4. order \in Seq(subscribed)
  <2> DEFINE n == Cardinality(S)
  <2>1. \A i \in 1 .. n : order[i] \in subscribed
    BY <1>3
  <2>2. order = [i \in 1 .. n |-> order[i]]
    BY <1>3
  <2> HIDE DEF n
  <2> QED BY <1>2, <2>1, <2>2 DEF n
<1> QED BY <1>1, <1>4, PassKeeps

-----------------------------------------------------------------------------
(* Ticks.                                                                   *)

LEMMA StartOf ==
  ASSUME NEW times \in SUBSET Nat,
         \A t, u \in times : Feed!Minute(t) = Feed!Minute(u)
  PROVE  \A t \in times : Feed!Start(times) = Feed!Minute(t) /\ Feed!Start(times) \in Nat
<1> SUFFICES ASSUME NEW t \in times PROVE Feed!Start(times) = Feed!Minute(t) /\ Feed!Start(times) \in Nat
  OBVIOUS
<1>1. PICK u : u = (CHOOSE v \in times : TRUE)
  OBVIOUS
<1>2. u \in times
  BY <1>1
<1>3. Feed!Start(times) = Feed!Minute(u)
  BY <1>1 DEF Feed!Start
<1>4. Feed!Minute(u) \in Nat
  BY <1>2, MinuteType
<1> QED BY <1>2, <1>3, <1>4

(* A candle that is appended is the last one, and the window drops the      *)
(* first ones.                                                              *)
LEMMA KeptAppended ==
  ASSUME NEW line \in Seq(Candles), NEW c \in Candles
  PROVE  \E k \in 0 .. Len(line) + 1 :
           LET q == Feed!Keep(Append(line, c))
           IN /\ q \in Seq(Candles) /\ DOMAIN q = 1 .. Len(line) + 1 - k
              /\ \A i \in 1 .. Len(line) + 1 - k :
                   IF i = Len(line) + 1 - k THEN q[i] = c
                   ELSE i + k \in DOMAIN line /\ q[i] = line[i + k]
<1> DEFINE all == Append(line, c)
           n == Len(line) + 1
           q == Feed!Keep(all)
           Fits(k) == /\ q \in Seq(Candles) /\ DOMAIN q = 1 .. n - k
                      /\ \A i \in 1 .. n - k : q[i] = all[i + k]
<1>1. /\ Len(line) \in Nat /\ n \in Nat /\ all \in Seq(Candles) /\ Len(all) = n
      /\ DOMAIN line = 1 .. Len(line) /\ DOMAIN all = 1 .. n
      /\ all[n] = c /\ \A i \in 1 .. Len(line) : all[i] = line[i]
  BY AppendProperties, LenProperties
<1>2. Window \in Nat
  BY FeedAssumption
<1>3. PICK k \in 0 .. n : Fits(k)
  <2>1. CASE n > Window
    <3> DEFINE k == n - Window
    <3>1. k \in 0 .. n /\ n - Window + 1 = k + 1 /\ n - k = Window
      BY <1>1, <1>2, <2>1
    <3>2. q = SubSeq(all, k + 1, n)
      BY <1>1, <2>1, <3>1 DEF Feed!Keep
    <3> HIDE DEF all, q, k, n
    <3>3. k + 1 \in 1 .. n + 1 /\ n \in (k + 1) - 1 .. n /\ n - (k + 1) + 1 = n - k
      BY <1>1, <1>2, <2>1, <3>1
    <3>4. /\ q \in Seq(Candles) /\ Len(q) = n - k
          /\ \A i \in 1 .. n - k : q[i] = all[(k + 1) + i - 1]
      BY <1>1, <3>2, <3>3, SubSeqProperties
    <3>5. \A i \in 1 .. n - k : (k + 1) + i - 1 = i + k
      BY <1>1, <3>1
    <3>6. DOMAIN q = 1 .. n - k
      BY <3>4, LenProperties
    <3> QED BY <3>1, <3>4, <3>5, <3>6
  <2>2. CASE ~(n > Window)
    <3>1. q = all
      BY <1>1, <2>2 DEF Feed!Keep
    <3> QED BY <1>1, <3>1
  <2> QED BY <2>1, <2>2
<1>4. /\ DOMAIN q = 1 .. n - k /\ q \in Seq(Candles)
      /\ \A i \in 1 .. n - k : IF i = n - k THEN q[i] = c
                               ELSE i + k \in DOMAIN line /\ q[i] = line[i + k]
  <2> HIDE DEF q, all
  <2> SUFFICES ASSUME NEW i \in 1 .. n - k
               PROVE  IF i = n - k THEN q[i] = c ELSE i + k \in DOMAIN line /\ q[i] = line[i + k]
    BY <1>3
  <2>1. CASE i = n - k
    <3>1. i + k = n
      BY <1>1, <1>3, <2>1
    <3> QED BY <1>1, <1>3, <2>1, <3>1
  <2>2. CASE i # n - k
    <3>1. i + k \in 1 .. Len(line)
      BY <1>1, <1>3, <2>2
    <3> QED BY <1>1, <1>3, <2>2, <3>1
  <2> QED BY <2>1, <2>2
<1> QED BY <1>1, <1>4


LEMMA StillServed ==
  ASSUME NEW s, NEW c, c.trades \subseteq Feed!Truth(s, c.start), AsTheExchange(s, c) \/ AsAccepted(s, c),
         UNCHANGED <<now, traded>>, closed[s] \subseteq closed'[s],
         \A t \in Feed!Accepted(s)' : t \in Feed!Accepted(s) \/ Feed!Minute(t) \notin closed[s]
  PROVE  c.trades \subseteq Feed!Truth(s, c.start)' /\ (AsTheExchange(s, c)' \/ AsAccepted(s, c)')
BY DEF AsTheExchange, AsAccepted, Feed!Truth

(* With its tick the thread gives a trade out of its hands.                 *)
LEMMA TickAccepted ==
  ASSUME FeedInv, UNCHANGED <<traded, wire, lost>>, tick' = <<>>, tick # <<>>
  PROVE  \A r : Feed!Accepted(r)' \subseteq Feed!Accepted(r) \cup IF r = tick.symbol THEN {tick.time} ELSE {}
<1> SUFFICES ASSUME NEW r, NEW t \in Feed!Accepted(r)', t \notin Feed!Accepted(r)
             PROVE  r = tick.symbol /\ t = tick.time
  OBVIOUS
<1>1. t \in traded[r] /\ <<r, t>> \notin Away' /\ <<r, t>> \in Away
  BY AcceptedIs, AcceptedThen
<1>2. <<r, t>> \in Handed(tick)
  BY <1>1 DEF Away
<1> QED BY <1>2 DEF Handed

LEMMA TickTaken ==
  ASSUME FeedInv, thread = "handling"
  PROVE  /\ tick # <<>> /\ tick \in Frames /\ tick.symbol \in Symbols /\ tick.time \in Nat
         /\ tick.time \in traded[tick.symbol] /\ Feed!Minute(tick.time) \in Nat
<1>1. tick # <<>> /\ tick \in Frames /\ tick.time \in traded[tick.symbol]
  BY DEF FeedInv, ThreadHolds, FramesAreTrades
<1> QED BY <1>1, MinuteType DEF Frames

LEMMA LateKeeps ==
  ASSUME FeedInv, Feed!OnTick, Feed!LateTick(tick.symbol)
  PROVE  FeedInv'
<1>1. /\ tick # <<>> /\ tick' = <<>> /\ thread' = "reading"
      /\ UNCHANGED <<subscribed, now, traded, wire, current, closed, candles>>
  BY TickTaken DEF Feed!OnTick, Feed!LateTick, Feed!exchange
<1>2. lost' = lost \cup {<<tick.symbol, tick.time>>}
  BY DEF Feed!LateTick, Feed!Lose
<1>3. Away \subseteq Away' /\ ThreadHolds'
  BY <1>1, <1>2 DEF Away, Handed, ThreadHolds
<1> QED BY <1>1, <1>3, QuietKeeps DEF FeedInv, FeedType

LEMMA SameKeeps ==
  ASSUME FeedInv, Feed!OnTick, Feed!SameBucket(tick.symbol)
  PROVE  FeedInv'
<1>0. PICK s, moment : s = tick.symbol /\ moment = tick.time
  OBVIOUS
<1>1. /\ tick # <<>> /\ tick' = <<>> /\ thread' = "reading" /\ thread = "handling"
      /\ UNCHANGED <<subscribed, now, traded, wire, lost, closed, candles>>
      /\ current' = [current EXCEPT ![s] = @ \cup {moment}]
      /\ Feed!Minute(moment) \notin closed[s] /\ (current[s] = {} \/ Feed!Minute(moment) = Feed!Start(current[s]))
  BY <1>0, TickTaken DEF Feed!OnTick, Feed!SameBucket, Feed!exchange, Feed!IsLate, Feed!IsNext
<1>2. /\ s \in Symbols /\ moment \in Nat /\ moment \in traded[s] /\ Feed!Minute(moment) \in Nat
      /\ current \in [Symbols -> SUBSET Nat]
  BY <1>0, <1>1, TickTaken DEF FeedInv, FeedType
<1>3. \A r : Feed!Accepted(r)' \subseteq Feed!Accepted(r) \cup IF r = s THEN {moment} ELSE {}
  BY <1>0, <1>1, TickAccepted
<1>4. FeedType' /\ FramesAreTrades' /\ ThreadHolds'
  BY <1>1, <1>2 DEF FeedInv, FeedType, FramesAreTrades, ThreadHolds
<1>5. ASSUME NEW r \in Symbols, r # s PROVE CacheOf(r)'
  <2>1. current'[r] = current[r] /\ Feed!Accepted(r)' \subseteq Feed!Accepted(r)
    BY <1>1, <1>2, <1>3, <1>5
  <2> QED BY <1>1, <2>1, CacheStays DEF FeedInv
<1>6. current'[s] = current[s] \cup {moment} /\ current[s] \subseteq Nat /\ CacheOf(s)
  BY <1>1, <1>2 DEF FeedInv
<1>7. \A t \in Feed!Accepted(s)' : t \in Feed!Accepted(s) \/ t = moment
  BY <1>3
<1>8. \A t, u \in current'[s] : Feed!Minute(t) = Feed!Minute(u)
  <2>1. \A t \in current[s] : Feed!Minute(t) = Feed!Minute(moment)
    <3> SUFFICES ASSUME NEW t \in current[s] PROVE Feed!Minute(t) = Feed!Minute(moment)
      OBVIOUS
    <3>1. Feed!Start(current[s]) = Feed!Minute(t)
      BY <1>6, StartOf DEF CacheOf, Buckets
    <3> QED BY <1>1, <3>1
  <2> QED BY <1>6, <2>1
<1>9. Feed!Start(current'[s]) = Feed!Minute(moment)
  <2>1. current'[s] \in SUBSET Nat /\ moment \in current'[s]
    BY <1>2, <1>6
  <2> QED BY <1>8, <2>1, StartOf
<1>10. Buckets(s)'
  <2>1. \A m \in closed'[s] : current'[s] # {} /\ m < Feed!Start(current'[s])
    BY <1>1, <1>6, <1>9 DEF CacheOf, Buckets
  <2>2. \A t \in Feed!Accepted(s)' : t \in current'[s] \/ Feed!Minute(t) \in closed'[s]
    BY <1>1, <1>6, <1>7 DEF CacheOf, Buckets
  <2>3. current'[s] \subseteq traded'[s]
    BY <1>1, <1>2, <1>6 DEF CacheOf, Buckets
  <2> QED BY <1>8, <2>1, <2>2, <2>3 DEF Buckets
<1>11. Served(s)'
  <2> SUFFICES ASSUME NEW i \in DOMAIN candles[s], NEW c, c = candles[s][i]
               PROVE  c.trades \subseteq Feed!Truth(s, c.start)' /\ (AsTheExchange(s, c)' \/ AsAccepted(s, c)')
    BY <1>1 DEF Served
  <2>1. \A t \in Feed!Accepted(s)' : t \in Feed!Accepted(s) \/ Feed!Minute(t) \notin closed[s]
    BY <1>1, <1>7
  <2> QED BY <1>1, <1>6, <2>1, StillServed DEF CacheOf, Served
<1>12. LastOnesInOrder(s)' /\ ClosedAreServed(s)'
  BY <1>1, <1>6 DEF CacheOf, LastOnesInOrder, ClosedAreServed, IsLast
<1>13. CacheOf(s)'
  BY <1>10, <1>11, <1>12 DEF CacheOf
<1> QED BY <1>4, <1>5, <1>13 DEF FeedInv


(* A tick of a later minute closes the bucket of its symbol.                *)
LEMMA AfterClose ==
  ASSUME FeedInv, NEW s \in Symbols, NEW moment \in traded[s],
         current[s] # {}, Feed!Minute(moment) # Feed!Start(current[s]), ~(Feed!Minute(moment) < Feed!Start(current[s])),
         UNCHANGED <<now, traded>>,
         closed'[s] = closed[s] \cup {Feed!Start(current[s])}, current'[s] = {moment},
         candles'[s] = Feed!Keep(Append(candles[s], Feed!Candle(Feed!Start(current[s]), current[s]))),
         Feed!Accepted(s)' \subseteq Feed!Accepted(s) \cup {moment}
  PROVE  CacheOf(s)' /\ candles'[s] \in Seq(Candles) /\ closed'[s] \subseteq Nat
<1>0. PICK bucket, start, line, c, q, shut :
         /\ bucket = current[s] /\ start = Feed!Start(current[s]) /\ shut = closed[s]
         /\ line = candles[s] /\ q = candles'[s] /\ c = Feed!Candle(start, bucket)
  OBVIOUS
<1>1. /\ bucket \in SUBSET Nat /\ bucket # {} /\ bucket \subseteq traded[s] /\ moment \in Nat
      /\ shut \subseteq Nat /\ line \in Seq(Candles) /\ CacheOf(s)
      /\ \A t, u \in bucket : Feed!Minute(t) = Feed!Minute(u)
  BY <1>0 DEF FeedInv, FeedType, CacheOf, Buckets
<1>2. start \in Nat /\ \A t \in bucket : Feed!Minute(t) = start
  BY <1>0, <1>1, StartOf
<1>3. Feed!Minute(moment) \in Nat /\ start < Feed!Minute(moment)
  <2>1. Feed!Minute(moment) \in Nat
    BY <1>1, MinuteType
  <2> QED BY <1>0, <1>2, <2>1
<1>4. \A m \in shut : m < start
  BY <1>0, <1>1 DEF CacheOf, Buckets
<1>5. ASSUME NEW t \in Feed!Accepted(s)'
      PROVE  t = moment \/ (t \in Feed!Accepted(s) /\ (t \in bucket \/ Feed!Minute(t) \in shut))
  BY <1>0, <1>1 DEF CacheOf, Buckets
<1>6. c \in Candles /\ c.start = start /\ c.trades = bucket
  BY <1>0, <1>1, <1>2 DEF Candles, Feed!Candle
<1>7. PICK k \in 0 .. Len(line) + 1 :
        /\ q \in Seq(Candles) /\ DOMAIN q = 1 .. Len(line) + 1 - k
        /\ \A i \in 1 .. Len(line) + 1 - k :
             IF i = Len(line) + 1 - k THEN q[i] = c
             ELSE i + k \in DOMAIN line /\ q[i] = line[i + k]
  <2>1. q = Feed!Keep(Append(line, c))
    BY <1>0
  <2>2. \E k \in 0 .. Len(line) + 1 :
          LET all == Feed!Keep(Append(line, c))
          IN /\ all \in Seq(Candles) /\ DOMAIN all = 1 .. Len(line) + 1 - k
             /\ \A i \in 1 .. Len(line) + 1 - k :
                  IF i = Len(line) + 1 - k THEN all[i] = c
                  ELSE i + k \in DOMAIN line /\ all[i] = line[i + k]
    BY <1>1, <1>6, KeptAppended
  <2> QED BY <2>1, <2>2
<1>8. Len(line) \in Nat /\ DOMAIN line = 1 .. Len(line)
  BY <1>1, LenProperties
<1>9. /\ closed'[s] = shut \cup {start} /\ current'[s] = {moment}
      /\ \A i \in DOMAIN line : line[i].start \in Nat
  BY <1>0, CandleType DEF FeedInv
<1>10. Buckets(s)'
  <2>1. Feed!Start(current'[s]) = Feed!Minute(moment)
    BY <1>1, <1>9, StartOf
  <2>2. \A m \in closed'[s] : current'[s] # {} /\ m < Feed!Start(current'[s])
    <3> SUFFICES ASSUME NEW m \in shut \cup {start} PROVE m < Feed!Minute(moment)
      BY <1>9, <2>1
    <3>1. m \in Nat /\ (m < start \/ m = start)
      BY <1>1, <1>2, <1>4
    <3> QED BY <1>2, <1>3, <3>1
  <2>3. \A t \in Feed!Accepted(s)' : t \in current'[s] \/ Feed!Minute(t) \in closed'[s]
    BY <1>2, <1>5, <1>9
  <2> QED BY <1>9, <2>2, <2>3 DEF Buckets
<1>11. Served(s)'
  <2> SUFFICES ASSUME NEW i \in DOMAIN q, NEW d, d = q[i]
               PROVE  d.trades \subseteq Feed!Truth(s, d.start)' /\ (AsTheExchange(s, d)' \/ AsAccepted(s, d)')
    BY <1>0 DEF Served
  <2>1. CASE d = c
    <3>1. bucket \subseteq Feed!Truth(s, start)'
      BY <1>1, <1>2 DEF Feed!Truth
    <3>2. \A t \in Feed!Accepted(s)' : Feed!Minute(t) = start => t \in bucket
      BY <1>1, <1>2, <1>3, <1>4, <1>5
    <3> QED BY <1>6, <1>9, <2>1, <3>1, <3>2 DEF AsAccepted
  <2>2. CASE i + k \in DOMAIN line /\ d = line[i + k]
    <3>1. d.trades \subseteq Feed!Truth(s, d.start) /\ (AsTheExchange(s, d) \/ AsAccepted(s, d))
      BY <1>0, <1>1, <2>2 DEF CacheOf, Served
    <3>2. \A t \in Feed!Accepted(s)' : t \in Feed!Accepted(s) \/ Feed!Minute(t) \notin closed[s]
      BY <1>0, <1>1, <1>2, <1>3, <1>4, <1>5
    <3>3. closed[s] \subseteq closed'[s]
      BY <1>0, <1>9
    <3> QED BY <3>1, <3>2, <3>3, StillServed
  <2> QED BY <1>7, <2>1, <2>2
<1>12. LastOnesInOrder(s)'
  <2> SUFFICES ASSUME NEW i \in DOMAIN q, q[i].start \in shut \cup {start}, IsLast(q, i),
                      NEW j \in DOMAIN q, j > i
               PROVE  q[j].start > q[i].start
    BY <1>0, <1>9 DEF LastOnesInOrder, IsLast
  <2> DEFINE n == Len(line) + 1 - k
  <2>1. i \in 1 .. n /\ j \in 1 .. n /\ n \in Nat /\ n > i /\ n \in DOMAIN q /\ i # n
    BY <1>7, <1>8
  <2>2. q[n] = c /\ q[n].start = start /\ i + k \in DOMAIN line /\ q[i] = line[i + k]
    BY <1>6, <1>7, <2>1
  <2>3. q[i].start # start /\ q[i].start \in shut
    BY <2>1, <2>2 DEF IsLast
  <2>4. IsLast(line, i + k)
    <3> SUFFICES ASSUME NEW l \in DOMAIN line, l > i + k, line[l].start = line[i + k].start PROVE FALSE
      BY DEF IsLast
    <3>1. l - k \in 1 .. n /\ l - k # n /\ (l - k) + k = l /\ l - k > i
      BY <1>7, <1>8, <2>1
    <3>2. q[l - k] = line[l] /\ l - k \in DOMAIN q
      BY <1>7, <3>1
    <3> QED BY <2>2, <3>1, <3>2 DEF IsLast
  <2>5. \A l \in DOMAIN line : l > i + k => line[l].start > line[i + k].start
    BY <1>0, <1>1, <2>2, <2>3, <2>4 DEF CacheOf, LastOnesInOrder
  <2>6. CASE j = n
    BY <1>1, <1>2, <1>4, <2>2, <2>3, <2>6
  <2>7. CASE j # n
    <3>1. j + k \in DOMAIN line /\ q[j] = line[j + k] /\ j + k > i + k
      <4>1. j + k \in DOMAIN line /\ q[j] = line[j + k]
        BY <1>7, <2>1, <2>7
      <4>2. k \in Nat /\ i \in Nat /\ j \in Nat
        BY <1>7, <1>8, <2>1
      <4> QED BY <4>1, <4>2
    <3> QED BY <2>2, <2>5, <3>1
  <2> QED BY <2>6, <2>7
<1>13. ClosedAreServed(s)'
  <2> DEFINE n == Len(line) + 1 - k
  <2> SUFFICES ASSUME NEW m \in shut \cup {start}, NEW i \in DOMAIN q, ~(m < q[i].start)
               PROVE  \E j \in DOMAIN q : q[j].start = m
    BY <1>0, <1>9 DEF ClosedAreServed, Feed!Starts
  <2>1. i \in 1 .. n /\ n \in Nat /\ n \in DOMAIN q /\ q[n] = c
    BY <1>7, <1>8
  <2>2. CASE m = start
    BY <1>6, <2>1, <2>2
  <2>3. CASE m \in shut
    <3>1. i # n /\ i + k \in DOMAIN line /\ q[i] = line[i + k]
      BY <1>1, <1>2, <1>4, <1>6, <1>7, <2>1, <2>3
    <3>2. m \in Feed!Starts(line)
      BY <1>0, <1>1, <2>3, <3>1 DEF CacheOf, ClosedAreServed, Feed!Starts
    <3> DEFINE N == {l \in DOMAIN line : line[l].start = m}
    <3>3. PICK l \in N : \A h \in N : h <= l
      <4>1. N \in SUBSET (0 .. Len(line)) /\ N # {}
        BY <1>8, <3>2 DEF Feed!Starts
      <4> HIDE DEF N
      <4> QED BY <1>8, <4>1, GreatestUpTo
    <3>4. l \in DOMAIN line /\ line[l].start = m /\ IsLast(line, l)
      BY <1>8, <3>3 DEF IsLast
    <3>5. \A h \in DOMAIN line : h > l => line[h].start > m
      BY <1>0, <1>1, <2>3, <3>4 DEF CacheOf, LastOnesInOrder
    <3>6. ~(i + k > l)
      <4>1. m \in Nat /\ line[i + k].start \in Nat
        BY <1>1, <1>9, <2>3, <3>1
      <4> QED BY <3>1, <3>5, <4>1
    <3>7. l - k \in 1 .. n /\ l - k # n /\ (l - k) + k = l
      BY <1>7, <1>8, <2>1, <3>4, <3>6
    <3>8. q[l - k] = line[l] /\ l - k \in DOMAIN q
      BY <1>7, <3>7
    <3> QED BY <3>4, <3>8
  <2> QED BY <2>2, <2>3
<1> QED BY <1>0, <1>1, <1>2, <1>7, <1>9, <1>10, <1>11, <1>12, <1>13 DEF CacheOf

LEMMA CloseKeeps ==
  ASSUME FeedInv, Feed!OnTick, Feed!CloseBucket(tick.symbol)
  PROVE  FeedInv'
<1>0. PICK s, moment : s = tick.symbol /\ moment = tick.time
  OBVIOUS
<1>1. /\ tick # <<>> /\ tick' = <<>> /\ thread = "handling"
      /\ UNCHANGED <<subscribed, now, traded, wire, lost>>
      /\ current[s] # {} /\ Feed!Minute(moment) # Feed!Start(current[s]) /\ ~(Feed!Minute(moment) < Feed!Start(current[s]))
      /\ closed' = [closed EXCEPT ![s] = @ \cup {Feed!Start(current[s])}]
      /\ current' = [current EXCEPT ![s] = {moment}]
      /\ candles' = [candles EXCEPT ![s] = Feed!Keep(Append(@, Feed!Candle(Feed!Start(current[s]), current[s])))]
      /\ \/ thread' = "reading"
         \/ Feed!BeginPass(candles', "reading")
  BY <1>0, TickTaken DEF Feed!OnTick, Feed!CloseBucket, Feed!exchange, Feed!IsLate, Feed!IsNext
<1>2. /\ s \in Symbols /\ moment \in Nat /\ moment \in traded[s]
      /\ now \in Nat /\ current \in [Symbols -> SUBSET Nat] /\ closed \in [Symbols -> SUBSET Nat]
      /\ candles \in [Symbols -> Seq(Candles)]
  BY <1>0, <1>1, TickTaken DEF FeedInv, FeedType
<1>3. \A r : Feed!Accepted(r)' \subseteq Feed!Accepted(r) \cup IF r = s THEN {moment} ELSE {}
  BY <1>0, <1>1, TickAccepted
<1>4. CacheOf(s)' /\ candles'[s] \in Seq(Candles) /\ closed'[s] \subseteq Nat
  <2>1. /\ closed'[s] = closed[s] \cup {Feed!Start(current[s])} /\ current'[s] = {moment}
        /\ candles'[s] = Feed!Keep(Append(candles[s], Feed!Candle(Feed!Start(current[s]), current[s])))
        /\ Feed!Accepted(s)' \subseteq Feed!Accepted(s) \cup {moment}
    BY <1>1, <1>2, <1>3
  <2> QED BY <1>1, <1>2, <2>1, AfterClose
<1>5. ASSUME NEW r \in Symbols, r # s PROVE CacheOf(r)'
  <2>1. /\ current'[r] = current[r] /\ closed'[r] = closed[r] /\ candles'[r] = candles[r]
        /\ Feed!Accepted(r)' \subseteq Feed!Accepted(r)
    BY <1>1, <1>2, <1>3, <1>5
  <2> QED BY <1>1, <2>1, CacheStays DEF FeedInv
<1>6. FeedType'
  <2>1. candles' \in [Symbols -> Seq(Candles)]
    BY <1>1, <1>2, <1>4
  <2>2. closed' \in [Symbols -> SUBSET Nat]
    BY <1>1, <1>2, <1>4
  <2> QED BY <1>1, <1>2, <2>1, <2>2 DEF FeedInv, FeedType
<1>7. FramesAreTrades'
  BY <1>1 DEF FeedInv, FramesAreTrades
<1>8. ThreadHolds'
  BY <1>1, <1>2 DEF ThreadHolds, Feed!BeginPass
<1> QED BY <1>4, <1>5, <1>6, <1>7, <1>8 DEF FeedInv

LEMMA TickKeeps == ASSUME FeedInv, Feed!OnTick PROVE FeedInv'
BY LateKeeps, SameKeeps, CloseKeeps DEF Feed!OnTick


-----------------------------------------------------------------------------
(* Reconciliation.                                                          *)

(* Of a minute the last candle is in the cache.                             *)
LEMMA CachedIs ==
  ASSUME FeedType, NEW s \in Symbols, NEW m \in Feed!Starts(candles[s])
  PROVE  \E j \in DOMAIN candles[s] : Feed!Cached(candles[s], m) = candles[s][j] /\ candles[s][j].start = m
<1> DEFINE N == {i \in DOMAIN candles[s] : candles[s][i].start = m}
<1>1. Len(candles[s]) \in Nat /\ DOMAIN candles[s] = 1 .. Len(candles[s])
  BY LenProperties DEF FeedType
<1>2. N \in SUBSET (0 .. Len(candles[s])) /\ N # {}
  BY <1>1 DEF Feed!Starts
<1>3. PICK n \in N : \A i \in N : i <= n
  <2> HIDE DEF N
  <2> QED BY <1>1, <1>2, GreatestUpTo
<1>4. \A i \in N : n >= i
  BY <1>1, <1>3
<1>5. Feed!Max(N) \in N
  <2> HIDE DEF N
  <2> QED BY <1>3, <1>4 DEF Feed!Max
<1>6. Feed!Cached(candles[s], m) = candles[s][Feed!Max(N)]
  BY DEF Feed!Cached
<1> HIDE DEF Feed!Max
<1> QED BY <1>5, <1>6

(* What is fetched is over, and not of before the first candle.             *)
LEMMA OfficialIs ==
  ASSUME FeedInv, thread = "reconciling", NEW s \in pass.todo
  PROVE  /\ candles[s] # <<>> /\ 1 \in DOMAIN candles[s] /\ candles[s][1].start \in Nat
         /\ IsFiniteSet(Feed!Official(s))
         /\ \A m \in Feed!Official(s) : m \in Nat /\ candles[s][1].start <= m /\ m < Feed!Minute(now)
<1>1. s \in Symbols /\ candles[s] # <<>> /\ now \in Nat /\ pass.at \in Nat /\ pass.at <= now
  BY DEF FeedInv, ThreadHolds, FeedType
<1>2. 1 \in DOMAIN candles[s] /\ candles[s][1].start \in Nat
  <2>1. candles[s] \in Seq(Candles) /\ Len(candles[s]) \in Nat \ {0} /\ DOMAIN candles[s] = 1 .. Len(candles[s])
    BY <1>1, EmptySeq, LenProperties DEF FeedInv, FeedType
  <2>2. 1 \in DOMAIN candles[s]
    BY <2>1
  <2> QED BY <1>1, <2>2, CandleType DEF FeedInv
<1>3. Feed!Minute(now) \in Nat /\ Feed!Minute(pass.at) \in Nat /\ Feed!Minute(pass.at) <= Feed!Minute(now)
  BY <1>1, MinuteType, MinutesGoOn
<1>4. ASSUME NEW m \in Feed!Official(s)
      PROVE  m \in Nat /\ candles[s][1].start <= m /\ m < Feed!Minute(now)
  <2>1. m \in candles[s][1].start .. Feed!Minute(now) /\ pass.at - Phases * m >= Phases
    BY DEF Feed!Official
  <2>2. m \in Nat /\ candles[s][1].start <= m
    BY <1>2, <2>1
  <2>3. m < Feed!Minute(pass.at)
    BY <1>1, <2>1, <2>2, MinuteIsOver
  <2> QED BY <1>3, <2>2, <2>3
<1>5. IsFiniteSet(Feed!Official(s))
  <2>1. Feed!Official(s) \in SUBSET (0 .. Feed!Minute(now))
    BY <1>3, <1>4
  <2>2. IsFiniteSet(0 .. Feed!Minute(now))
    <3>1. 0 \in Int /\ Feed!Minute(now) \in Int
      BY <1>3
    <3> QED BY <3>1, FS_Interval
  <2> QED BY <2>1, <2>2, FS_Subset
<1> QED BY <1>1, <1>2, <1>4, <1>5

LEMMA StartsFinite ==
  ASSUME NEW line \in Seq(Candles)
  PROVE  IsFiniteSet(Feed!Starts(line)) /\ Feed!Starts(line) \in SUBSET Nat
<1>1. /\ Len(line) \in Nat /\ DOMAIN line = 1 .. Len(line)
      /\ \A i \in DOMAIN line : line[i] \in Candles
  BY LenProperties, ElementOfSeq
<1>2. IsFiniteSet(1 .. Len(line))
  BY <1>1, FS_Interval
<1>3. Feed!Starts(line) = {line[i].start : i \in 1 .. Len(line)}
  BY <1>1 DEF Feed!Starts
<1>4. IsFiniteSet({line[i].start : i \in 1 .. Len(line)})
  <2> DEFINE f == [i \in 1 .. Len(line) |-> line[i].start]
             T == {line[i].start : i \in 1 .. Len(line)}
  <2>1. f \in Surjection(1 .. Len(line), T)
    BY DEF Surjection
  <2> HIDE DEF f, T
  <2> QED BY <1>2, <2>1, FS_Surjection DEF T
<1> QED BY <1>1, <1>3, <1>4 DEF Feed!Starts, Candles

(* The merge has the minutes of both, in order.                             *)
LEMMA MergedIs ==
  ASSUME FeedInv, thread = "reconciling", NEW s \in pass.todo, NEW q,
         q = Feed!Merged(s, Feed!Official(s)), q # candles[s]
  PROVE  /\ q \in Seq(Candles)
         /\ \A i, j \in DOMAIN q : i < j => q[i].start < q[j].start
         /\ \A i \in DOMAIN q :
              \/ AsTheExchange(s, q[i])
              \/ \E j \in DOMAIN candles[s] : q[i] = candles[s][j]
         /\ Feed!Starts(q) = Feed!Starts(candles[s]) \cup Feed!Official(s)
<1>0. PICK line, official, both : /\ line = candles[s] /\ official = Feed!Official(s)
                                 /\ both = Feed!Starts(line) \cup official
  OBVIOUS
<1>1. /\ s \in Symbols /\ line \in Seq(Candles) /\ IsFiniteSet(official)
      /\ \A m \in official : m \in Nat /\ m < Feed!Minute(now)
  BY <1>0, OfficialIs DEF FeedInv, ThreadHolds, FeedType
<1>2. both \in SUBSET Nat /\ IsFiniteSet(both)
  BY <1>0, <1>1, StartsFinite, FS_Union
<1> DEFINE minutes == Feed!InOrder(both)
<1>3. /\ minutes \in Seq(both) /\ Len(minutes) \in Nat /\ DOMAIN minutes = 1 .. Len(minutes)
      /\ \A m \in both : \E i \in DOMAIN minutes : minutes[i] = m
      /\ \A i, j \in DOMAIN minutes : i < j => minutes[i] < minutes[j]
      /\ \A i \in DOMAIN minutes : minutes[i] \in both
  <2>1. minutes \in Seq(both)
    BY <1>2, InOrderIs
  <2>2. Len(minutes) \in Nat /\ DOMAIN minutes = 1 .. Len(minutes)
    BY <2>1, LenProperties
  <2>3. \A i \in DOMAIN minutes : minutes[i] \in both
    BY <2>1, <2>2, ElementOfSeq
  <2> QED BY <1>2, <2>1, <2>2, <2>3, InOrderIs
<1>4. q = [i \in DOMAIN minutes |->
             IF minutes[i] \in official THEN Feed!Candle(minutes[i], Feed!Truth(s, minutes[i]))
                                        ELSE Feed!Cached(line, minutes[i])]
  BY <1>0 DEF Feed!Merged
<1> HIDE DEF minutes
<1>5. ASSUME NEW i \in DOMAIN minutes
      PROVE  /\ q[i] \in Candles /\ q[i].start = minutes[i]
             /\ AsTheExchange(s, q[i]) \/ \E j \in DOMAIN line : q[i] = line[j]
  <2>1. minutes[i] \in both
    BY <1>3
  <2>2. CASE minutes[i] \in official
    <3>1. q[i] = Feed!Candle(minutes[i], Feed!Truth(s, minutes[i]))
      BY <1>4, <2>2
    <3>2. Feed!Truth(s, minutes[i]) \subseteq Nat
      BY <1>1 DEF Feed!Truth, FeedInv, FeedType
    <3> QED BY <1>1, <2>2, <3>1, <3>2 DEF Feed!Candle, Candles, AsTheExchange
  <2>3. CASE minutes[i] \notin official
    <3>1. q[i] = Feed!Cached(line, minutes[i]) /\ minutes[i] \in Feed!Starts(line)
      BY <1>0, <1>4, <2>1, <2>3
    <3>2. PICK j \in DOMAIN line : q[i] = line[j] /\ line[j].start = minutes[i]
      BY <1>0, <1>1, <3>1, CachedIs DEF FeedInv
    <3> QED BY <1>0, <1>1, <3>2, CandleType DEF FeedInv
  <2> QED BY <2>2, <2>3
<1>6. DOMAIN q = DOMAIN minutes
  BY <1>4
<1>7. q \in Seq(Candles)
  <2>1. q = [i \in 1 .. Len(minutes) |-> q[i]]
    BY <1>3, <1>4, <1>6
  <2> QED BY <1>3, <1>5, <2>1
<1>8. Feed!Starts(q) = both
  BY <1>3, <1>5, <1>6 DEF Feed!Starts
<1>9. \A i, j \in DOMAIN q : i < j => q[i].start < q[j].start
  BY <1>3, <1>5, <1>6
<1> QED BY <1>0, <1>5, <1>6, <1>7, <1>8, <1>9

LEMMA MergeServes ==
  ASSUME FeedInv, thread = "reconciling", NEW s \in pass.todo,
         UNCHANGED <<now, traded, current, closed>>, Feed!Accepted(s)' = Feed!Accepted(s),
         candles'[s] = Feed!Merged(s, Feed!Official(s)), candles'[s] # candles[s]
  PROVE  CacheOf(s)'
<1>0. PICK q : q = candles'[s]
  OBVIOUS
<1>1. /\ q \in Seq(Candles)
      /\ \A i, j \in DOMAIN q : i < j => q[i].start < q[j].start
      /\ \A i \in DOMAIN q :
           \/ AsTheExchange(s, q[i])
           \/ \E j \in DOMAIN candles[s] : q[i] = candles[s][j]
      /\ Feed!Starts(q) = Feed!Starts(candles[s]) \cup Feed!Official(s)
  BY <1>0, MergedIs
<1>2. s \in Symbols /\ CacheOf(s)
  BY DEF FeedInv, ThreadHolds
<1>3. Buckets(s)'
  BY <1>2 DEF CacheOf, Buckets
<1>4. Served(s)'
  <2> SUFFICES ASSUME NEW i \in DOMAIN q, NEW c, c = q[i]
               PROVE  c.trades \subseteq Feed!Truth(s, c.start)' /\ (AsTheExchange(s, c)' \/ AsAccepted(s, c)')
    BY <1>0 DEF Served
  <2>1. CASE AsTheExchange(s, c)
    BY <2>1 DEF AsTheExchange, Feed!Truth
  <2>2. ASSUME NEW j \in DOMAIN candles[s], c = candles[s][j]
        PROVE c.trades \subseteq Feed!Truth(s, c.start)' /\ (AsTheExchange(s, c)' \/ AsAccepted(s, c)')
    BY <1>2, <2>2 DEF CacheOf, Served, AsTheExchange, AsAccepted, Feed!Truth
  <2> QED BY <1>1, <2>1, <2>2
<1>5. LastOnesInOrder(s)'
  BY <1>0, <1>1 DEF LastOnesInOrder
<1>6. ClosedAreServed(s)'
  <2> SUFFICES ASSUME NEW m \in closed[s], m \notin Feed!Starts(q), NEW x \in Feed!Starts(q) PROVE m < x
    BY <1>0 DEF ClosedAreServed
  <2>1. \A y \in Feed!Starts(candles[s]) : m < y
    BY <1>1, <1>2 DEF CacheOf, ClosedAreServed
  <2>2. CASE x \in Feed!Starts(candles[s])
    BY <2>1, <2>2
  <2>3. CASE x \in Feed!Official(s)
    <3>1. /\ candles[s][1].start \in Nat /\ candles[s][1].start <= x /\ x \in Nat
          /\ candles[s][1].start \in Feed!Starts(candles[s])
      BY <2>3, OfficialIs DEF Feed!Starts
    <3>2. m \in Nat
      BY <1>2 DEF FeedInv, FeedType
    <3> QED BY <2>1, <3>1, <3>2
  <2> QED BY <1>1, <2>2, <2>3
<1> QED BY <1>3, <1>4, <1>5, <1>6 DEF CacheOf

LEMMA ReconcileKeeps ==
  ASSUME FeedInv, NEW s \in Symbols, Feed!Reconcile(s)
  PROVE  FeedInv'
<1>1. /\ UNCHANGED <<subscribed, now, traded, lost, wire, thread, tick, current, closed>>
      /\ thread = "reconciling" /\ s \in pass.todo
      /\ pass' = [pass EXCEPT !.todo = @ \ {s}]
      /\ candles' = candles \/ candles' = [candles EXCEPT ![s] = Feed!Merged(s, Feed!Official(s))]
  BY DEF Feed!Reconcile, Feed!exchange
<1>2. \A r : Feed!Accepted(r)' = Feed!Accepted(r)
  BY <1>1 DEF Feed!Accepted
<1>3. candles \in [Symbols -> Seq(Candles)]
  BY DEF FeedInv, FeedType
<1>4. \A r \in Symbols : r # s => candles'[r] = candles[r]
  BY <1>1, <1>3
<1>5. ASSUME NEW r \in Symbols PROVE CacheOf(r)'
  <2>1. CASE candles'[r] = candles[r]
    BY <1>1, <1>2, <2>1, CacheStays DEF FeedInv
  <2>2. CASE candles'[r] # candles[r]
    <3>1. r = s /\ candles'[s] = Feed!Merged(s, Feed!Official(s))
      BY <1>1, <1>3, <1>4, <2>2
    <3> QED BY <1>1, <1>2, <2>2, <3>1, MergeServes
  <2> QED BY <2>1, <2>2
<1>6. candles' \in [Symbols -> Seq(Candles)]
  <2>1. CASE candles' = candles
    BY <1>3, <2>1
  <2>2. CASE candles' = [candles EXCEPT ![s] = Feed!Merged(s, Feed!Official(s))]
    <3>1. Feed!Merged(s, Feed!Official(s)) \in Seq(Candles)
      BY <1>1, <1>3, MergedIs
    <3> QED BY <1>3, <2>2, <3>1
  <2> QED BY <1>1, <2>1, <2>2
<1>7. FeedType'
  BY <1>1, <1>6 DEF FeedInv, FeedType
<1>8. FramesAreTrades'
  BY <1>1 DEF FeedInv, FramesAreTrades
<1>9. ThreadHolds'
  BY <1>1, <1>4 DEF FeedInv, ThreadHolds
<1> QED BY <1>5, <1>7, <1>8, <1>9 DEF FeedInv

-----------------------------------------------------------------------------
LEMMA FeedInit == ASSUME Feed!Init PROVE FeedInv
<1> USE DEF Feed!Init, Feed!NewStream, Feed!NewAggregator, Feed!NewCollector
<1>1. FeedType /\ FramesAreTrades /\ ThreadHolds
  BY EmptySeq DEF FeedType, FramesAreTrades, ThreadHolds, Frames
<1>2. ASSUME NEW s \in Symbols PROVE CacheOf(s)
  <2>1. Buckets(s)
    BY DEF Buckets, Feed!Accepted
  <2>2. candles[s] = <<>> /\ DOMAIN candles[s] = {} /\ closed[s] = {}
    OBVIOUS
  <2> QED BY <2>1, <2>2 DEF CacheOf, Served, LastOnesInOrder, ClosedAreServed
<1> QED BY <1>1, <1>2 DEF FeedInv

LEMMA FeedStep == ASSUME FeedInv, [Feed!Next]_Feed!vars PROVE FeedInv'
<1>1. CASE UNCHANGED Feed!vars
  BY <1>1, SameFramesKeep DEF Feed!vars, Feed!exchange, Feed!stream, Feed!cache, FeedInv, ThreadHolds
<1> QED BY <1>1, TimeKeeps, ThreadKeeps, GarbleKeeps, ReorderKeeps, StreamKeeps, TickKeeps, ReconcileKeeps DEF Feed!Next

LEMMA FeedSafe == ASSUME FeedInv PROVE Feed!ServedIsWhatCame
<1> SUFFICES ASSUME NEW s \in Symbols, candles[s] # <<>>
             PROVE  /\ \A i \in DOMAIN candles[s] :
                         LET c == candles[s][i]
                         IN c.trades \subseteq Feed!Truth(s, c.start)
                            /\ Feed!Truth(s, c.start) \cap Feed!Accepted(s) \subseteq c.trades
                    /\ \A t \in Feed!Accepted(s) \ current[s] :
                         Feed!Minute(t) \in Feed!Starts(candles[s]) \/ Feed!Minute(t) < Feed!Min(Feed!Starts(candles[s]))
  BY DEF Feed!ServedIsWhatCame
<1>1. CacheOf(s) /\ candles[s] \in Seq(Candles)
  BY DEF FeedInv, FeedType
<1>2. ASSUME NEW i \in DOMAIN candles[s], NEW c, c = candles[s][i]
      PROVE  c.trades \subseteq Feed!Truth(s, c.start) /\ Feed!Truth(s, c.start) \cap Feed!Accepted(s) \subseteq c.trades
  BY <1>1, <1>2 DEF CacheOf, Served, AsTheExchange, AsAccepted, Feed!Truth
<1>3. ASSUME NEW t \in Feed!Accepted(s) \ current[s], Feed!Minute(t) \notin Feed!Starts(candles[s])
      PROVE  Feed!Minute(t) < Feed!Min(Feed!Starts(candles[s]))
  <2>1. \A x \in Feed!Starts(candles[s]) : Feed!Minute(t) < x
    BY <1>1, <1>3 DEF CacheOf, Buckets, ClosedAreServed
  <2>2. Feed!Starts(candles[s]) \in SUBSET Nat /\ Feed!Starts(candles[s]) # {}
    <3>1. 1 \in DOMAIN candles[s]
      BY <1>1, EmptySeq, LenProperties
    <3> QED BY <1>1, <3>1, StartsFinite DEF Feed!Starts
  <2>3. PICK n \in Feed!Starts(candles[s]) : \A x \in Feed!Starts(candles[s]) : n <= x
    BY <2>2, LeastNumber
  <2>4. Feed!Min(Feed!Starts(candles[s])) \in Feed!Starts(candles[s])
    BY <2>3 DEF Feed!Min
  <2> QED BY <2>1, <2>4
<1> QED BY <1>2, <1>3

-----------------------------------------------------------------------------
(* The bars of the table of history.                                       *)

(* Each instance of a module has a Cardinality of its own: the library's.   *)
LEMMA HistoryCount == ASSUME NEW S PROVE Asked!Cardinality(S) = Cardinality(S)
BY DEF Asked!Cardinality, Cardinality

(* Division by a length that is a parameter.                                *)
LEMMA Division ==
  ASSUME NEW x \in Int, NEW L \in Nat \ {0}
  PROVE  /\ x \div L \in Int /\ L * (x \div L) \in Int
         /\ L * (x \div L) <= x /\ x < L * (x \div L) + L
         /\ x % L = 0 => x = L * (x \div L)
OBVIOUS

LEMMA Scaled ==
  ASSUME NEW a \in Int, NEW b \in Int, NEW L \in Nat \ {0}
  PROVE  /\ L * a \in Int /\ L * b \in Int
         /\ (a < b <=> L * a < L * b)
         /\ a < b => L * a + L <= L * b
<1>1. L * a \in Int /\ L * b \in Int /\ L * b - L * a = L * (b - a)
  OBVIOUS
<1>2. CASE a < b
  <2>1. b - a - 1 \in Nat /\ L * (b - a - 1) \in Nat /\ L * (b - a - 1) = L * (b - a) - L
    BY <1>2
  <2> QED BY <1>1, <1>2, <2>1
<1>3. CASE b <= a
  <2>1. a - b \in Nat /\ L * (a - b) \in Nat /\ L * (b - a) = -(L * (a - b))
    BY <1>3
  <2> QED BY <1>1, <1>3, <2>1
<1> QED BY <1>1, <1>2, <1>3

(* Two bars are a length apart.                                             *)
LEMMA Apart ==
  ASSUME NEW x \in Int, NEW y \in Int, NEW L \in Nat \ {0},
         x % L = 0, y % L = 0, x < y
  PROVE  x + L <= y
<1>1. x = L * (x \div L) /\ y = L * (y \div L) /\ x \div L \in Int /\ y \div L \in Int
  BY Division
<1>2. x \div L < y \div L
  BY <1>1, Scaled
<1> QED BY <1>1, <1>2, Scaled

(* So many bars fit in a time.                                              *)
LEMMA Fits ==
  ASSUME NEW L \in Nat \ {0}, NEW lo \in Int, NEW hi \in Int, lo <= hi,
         NEW W \in SUBSET (lo .. hi), \A x \in W : x % L = 0
  PROVE  /\ IsFiniteSet(W) /\ Cardinality(W) \in Nat
         /\ Cardinality(W) <= (hi - lo) \div L + 1
         /\ (hi - lo) \div L \in Nat
<1> DEFINE n == (hi - lo) \div L
           f == [x \in W |-> (x - lo) \div L]
<1>1. n \in Nat /\ L * n <= hi - lo /\ hi - lo < L * n + L
  <2>1. n \in Int /\ L * n <= hi - lo /\ hi - lo < L * n + L
    BY Division
  <2>2. ~(n < 0)
    <3> HIDE DEF n
    <3> SUFFICES ASSUME n < 0 PROVE FALSE
      OBVIOUS
    <3>1. L * n + L <= L * 0 /\ L * n \in Int
      BY <2>1, Scaled
    <3> QED BY <2>1, <3>1
  <2> QED BY <2>1, <2>2
<1>2. ASSUME NEW x \in W PROVE f[x] \in 0 .. n /\ L * f[x] <= x - lo /\ x - lo < L * f[x] + L
  <2>1. x \in Int /\ x - lo \in Int /\ 0 <= x - lo /\ x - lo <= hi - lo
    OBVIOUS
  <2>2. f[x] \in Int /\ L * f[x] <= x - lo /\ x - lo < L * f[x] + L
    BY <2>1, Division
  <2> HIDE DEF n, f
  <2>3. ~(f[x] < 0)
    <3> SUFFICES ASSUME f[x] < 0 PROVE FALSE
      OBVIOUS
    <3>1. L * f[x] + L <= L * 0 /\ L * f[x] \in Int
      BY <2>2, Scaled
    <3> QED BY <2>1, <2>2, <3>1
  <2>4. ~(n < f[x])
    <3> SUFFICES ASSUME n < f[x] PROVE FALSE
      OBVIOUS
    <3>1. L * n + L <= L * f[x] /\ L * f[x] \in Int /\ L * n \in Int
      BY <1>1, <2>2, Scaled
    <3> QED BY <1>1, <2>1, <2>2, <3>1
  <2> QED BY <1>1, <2>2, <2>3, <2>4
<1>3. ASSUME NEW x \in W, NEW y \in W, f[x] = f[y] PROVE x = y
  <2>1. x \in Int /\ y \in Int /\ L * f[x] \in Int
    BY <1>2
  <2>2. x - lo < L * f[x] + L /\ y - lo < L * f[x] + L /\ L * f[x] <= x - lo /\ L * f[x] <= y - lo
    BY <1>2, <1>3
  <2> HIDE DEF f
  <2>3. x < y => x + L <= y
    BY <2>1, Apart
  <2>4. y < x => y + L <= x
    BY <2>1, Apart
  <2> QED BY <2>1, <2>2, <2>3, <2>4
<1>4. IsFiniteSet(0 .. n) /\ Cardinality(0 .. n) = n + 1
  <2> HIDE DEF n
  <2> QED BY <1>1, FS_Interval
<1>5. f \in Injection(W, 0 .. n)
  BY <1>2, <1>3 DEF Injection, IsInjective
<1>6. IsFiniteSet(W) /\ Cardinality(W) <= n + 1
  <2> HIDE DEF n, f
  <2> QED BY <1>4, <1>5, FS_Injection
<1> QED BY <1>1, <1>6, FS_CardinalityType


-----------------------------------------------------------------------------
Times(bars) == {c.ts : c \in bars}
Wanted(limit) == Asked!Opened(Asked!Max({-Depth, Asked!Start(limit)}))
HasSeen(c) == c.seen >= c.ts + Asked!Length

HistoryType ==
  /\ source \in {"binance", "alpaca"} /\ timeframe \in {"1h", "4h"} /\ time \in Nat
  /\ \A c \in cache : /\ c.ts \in Int /\ c.seen \in Int
                      /\ -Depth <= c.ts /\ c.ts <= time /\ c.ts % Asked!Length = 0
  /\ \A c, d \in cache : c.ts = d.ts => c = d

(* A candle that was still forming when it was fetched is replaced by the   *)
(* fetch that brings a later one, unless it is out of every window by then. *)
FormingIsLast ==
  Asked!Length = Asked!Spacing /\ ~short =>
    \A c, d \in cache : ~HasSeen(c) /\ c.ts < d.ts => \A n \in Limits : c.ts <= Asked!Start(n)

HistoryInv == HistoryType /\ FormingIsLast /\ Asked!BarsAreWholeAndRecent

LEMMA TwoOf ==
  ASSUME NEW a \in Int, NEW b \in Int
  PROVE  /\ Asked!Max({a, b}) \in Int /\ Asked!Max({a, b}) >= a /\ Asked!Max({a, b}) >= b
         /\ (Asked!Max({a, b}) = a \/ Asked!Max({a, b}) = b)
         /\ Asked!Min({a, b}) \in Int /\ Asked!Min({a, b}) <= a /\ Asked!Min({a, b}) <= b
         /\ (Asked!Min({a, b}) = a \/ Asked!Min({a, b}) = b)
<1>1. \E x \in {a, b} : \A y \in {a, b} : x >= y
  OBVIOUS
<1>2. \E x \in {a, b} : \A y \in {a, b} : x <= y
  OBVIOUS
<1>3. Asked!Max({a, b}) \in {a, b} /\ \A y \in {a, b} : Asked!Max({a, b}) >= y
  BY <1>1 DEF Asked!Max
<1>4. Asked!Min({a, b}) \in {a, b} /\ \A y \in {a, b} : Asked!Min({a, b}) <= y
  BY <1>2 DEF Asked!Min
<1> QED BY <1>3, <1>4

LEMMA LengthType ==
  ASSUME HistoryType
  PROVE  Asked!Length \in Nat \ {0} /\ Asked!Spacing \in Nat \ {0}
BY HistoryAssumption DEF HistoryType, Asked!Length, Asked!Spacing

LEMMA StartType ==
  ASSUME HistoryType, NEW limit \in Nat
  PROVE  /\ Asked!Start(limit) \in Int /\ Asked!Start(limit) <= time /\ time - Asked!Start(limit) = Asked!Spacing * limit
         /\ Asked!Spacing * limit \in Nat
<1>1. Asked!Spacing \in Nat \ {0} /\ time \in Nat
  BY LengthType DEF HistoryType
<1>2. Asked!Spacing * limit \in Nat
  BY <1>1
<1> QED BY <1>1, <1>2 DEF Asked!Start

LEMMA WholeNumber ==
  ASSUME NEW L \in Nat \ {0}, NEW n \in Nat
  PROVE  (L * n) \div L = n
<1> DEFINE q == (L * n) \div L
<1>1. L * n \in Int
  OBVIOUS
<1>2. q \in Int /\ L * q \in Int /\ L * q <= L * n /\ L * n < L * q + L
  BY <1>1, Division
<1> HIDE DEF q
<1>3. ~(n < q) /\ ~(q < n)
  BY <1>1, <1>2, Scaled
<1> QED BY <1>2, <1>3 DEF q

(* Four fifths are asked for, and not more than all.                        *)
LEMMA EnoughIs ==
  ASSUME HistoryType, NEW limit \in Limits
  PROVE  Asked!Enough(limit) \in Nat /\ 1 <= Asked!Enough(limit) /\ Asked!Enough(limit) <= limit
<1>1. limit \in Nat \ {0} /\ Asked!Spacing \in Nat \ {0}
  BY LengthType, HistoryAssumption
<1>2. (time - Asked!Start(limit)) \div Asked!Spacing = limit
  BY <1>1, StartType, WholeNumber
<1>3. Asked!Expected(limit) = limit
  <2>1. PICK this \in Int, next \in Int : this = limit /\ next = limit + 1
    BY <1>1
  <2>2. Asked!Min({this, next}) <= this /\ (Asked!Min({this, next}) = this \/ Asked!Min({this, next}) = next)
    BY TwoOf
  <2>3. Asked!Expected(limit) = Asked!Min({this, next})
    BY <1>2, <2>1 DEF Asked!Expected
  <2> QED BY <1>1, <2>1, <2>2, <2>3
<1>4. (limit * 8) \div 10 \in Nat /\ (limit * 8) \div 10 <= limit
  BY <1>1
<1>5. PICK one \in Int, n \in Int : one = 1 /\ n = (limit * 8) \div 10
  BY <1>4
<1>6. Asked!Enough(limit) = Asked!Max({one, n})
  BY <1>3, <1>5 DEF Asked!Enough
<1>7. Asked!Max({one, n}) \in Int /\ Asked!Max({one, n}) >= one /\ (Asked!Max({one, n}) = one \/ Asked!Max({one, n}) = n)
  BY TwoOf
<1> QED BY <1>1, <1>4, <1>5, <1>6, <1>7

(* The window has room for one bar more than is asked for.                  *)
LEMMA WantedIs ==
  ASSUME HistoryType, Asked!Length = Asked!Spacing, NEW limit \in Limits
  PROVE  /\ Asked!Max({-Depth, Asked!Start(limit)}) \in Int
         /\ Asked!Max({-Depth, Asked!Start(limit)}) >= Asked!Start(limit) /\ Asked!Max({-Depth, Asked!Start(limit)}) >= -Depth
         /\ Asked!Max({-Depth, Asked!Start(limit)}) = -Depth \/ Asked!Max({-Depth, Asked!Start(limit)}) = Asked!Start(limit)
         /\ Wanted(limit) \subseteq Int /\ IsFiniteSet(Wanted(limit))
         /\ Cardinality(Wanted(limit)) \in Nat /\ Cardinality(Wanted(limit)) <= limit + 1
<1>1. limit \in Nat \ {0} /\ Asked!Length \in Nat \ {0} /\ Depth \in Nat /\ time \in Nat
  BY LengthType, HistoryAssumption DEF HistoryType
<1>2. Asked!Start(limit) \in Int /\ Asked!Start(limit) <= time /\ time - Asked!Start(limit) = Asked!Length * limit
  BY <1>1, StartType
<1> DEFINE lo == Asked!Max({-Depth, Asked!Start(limit)})
<1>3. lo \in Int /\ lo >= Asked!Start(limit) /\ lo >= -Depth /\ (lo = -Depth \/ lo = Asked!Start(limit))
  <2>1. PICK deep \in Int : deep = -Depth
    BY <1>1
  <2>2. PICK start \in Int : start = Asked!Start(limit)
    BY <1>2
  <2>3. /\ Asked!Max({deep, start}) \in Int /\ Asked!Max({deep, start}) >= deep /\ Asked!Max({deep, start}) >= start
        /\ (Asked!Max({deep, start}) = deep \/ Asked!Max({deep, start}) = start)
    BY TwoOf
  <2> QED BY <2>1, <2>2, <2>3
<1> HIDE DEF lo
<1>4. /\ Wanted(limit) \in SUBSET (Asked!Start(limit) .. time)
      /\ \A x \in Wanted(limit) : x % Asked!Length = 0
  BY <1>1, <1>2, <1>3 DEF Wanted, Asked!Opened, lo
<1>5. (time - Asked!Start(limit)) \div Asked!Length = limit
  BY <1>1, <1>2, WholeNumber
<1>6. /\ IsFiniteSet(Wanted(limit)) /\ Cardinality(Wanted(limit)) \in Nat
      /\ Cardinality(Wanted(limit)) <= (time - Asked!Start(limit)) \div Asked!Length + 1
  BY <1>1, <1>2, <1>4, Fits
<1> QED BY <1>1, <1>2, <1>3, <1>4, <1>5, <1>6 DEF lo

(* Of n + 1 at most one has n on one side.                                  *)
LEMMA AtMostOne ==
  ASSUME NEW n \in Nat, NEW W \in SUBSET Int, IsFiniteSet(W), Cardinality(W) <= n + 1,
         NEW M \in SUBSET W,
         \/ \A x \in M : ~(Cardinality({u \in W : x < u}) < n)
         \/ \A x \in M : ~(Cardinality({u \in W : u < x}) < n)
  PROVE  IsFiniteSet(M) /\ Cardinality(M) \in Nat /\ Cardinality(M) <= 1
<1>1. ASSUME NEW S \in SUBSET W, ~(Cardinality(S) < n), NEW x \in W \ S, NEW y \in W \ S, x # y
      PROVE  FALSE
  <2>1. IsFiniteSet(S) /\ Cardinality(S) \in Nat
    BY FS_Subset, FS_CardinalityType
  <2>2. IsFiniteSet(S \cup {x}) /\ Cardinality(S \cup {x}) = Cardinality(S) + 1
    BY <2>1, FS_AddElement
  <2>3. Cardinality((S \cup {x}) \cup {y}) = Cardinality(S) + 2
    <3>1. y \notin S \cup {x}
      BY <1>1
    <3>2. Cardinality((S \cup {x}) \cup {y}) = Cardinality(S \cup {x}) + 1
      BY <2>2, <3>1, FS_AddElement
    <3> QED BY <2>1, <2>2, <3>2
  <2>4. (S \cup {x}) \cup {y} \in SUBSET W
    OBVIOUS
  <2>5. Cardinality((S \cup {x}) \cup {y}) <= Cardinality(W)
    BY <2>4, FS_Subset
  <2>6. Cardinality(W) \in Nat
    BY FS_CardinalityType
  <2> QED BY <1>1, <2>1, <2>3, <2>5, <2>6
<1>2. ASSUME NEW x \in M, NEW y \in M, x < y PROVE FALSE
  <2>1. x \in W /\ y \in W /\ x \in Int /\ y \in Int /\ x # y
    BY <1>2
  <2>2. CASE ~(Cardinality({u \in W : y < u}) < n)
    <3>1. x \notin {u \in W : y < u} /\ y \notin {u \in W : y < u}
      BY <1>2, <2>1
    <3> QED BY <1>1, <2>1, <2>2, <3>1
  <2>3. CASE ~(Cardinality({u \in W : u < x}) < n)
    <3>1. x \notin {u \in W : u < x} /\ y \notin {u \in W : u < x}
      BY <1>2, <2>1
    <3> QED BY <1>1, <2>1, <2>3, <3>1
  <2> QED BY <2>2, <2>3
<1>3. \A x, y \in M : x = y
  <2> SUFFICES ASSUME NEW x \in M, NEW y \in M PROVE x = y
    OBVIOUS
  <2>1. x \in Int /\ y \in Int
    OBVIOUS
  <2> QED BY <1>2, <2>1
<1>4. CASE M = {}
  BY <1>4, FS_EmptySet
<1>5. CASE M # {}
  <2>1. PICK x \in M : TRUE
    BY <1>5
  <2>2. M = {x}
    BY <1>3, <2>1
  <2>3. IsFiniteSet({x}) /\ Cardinality({x}) = 1
    BY FS_Singleton
  <2> QED BY <2>2, <2>3
<1> QED BY <1>4, <1>5


-----------------------------------------------------------------------------
(* What the provider gives: bars of its history, seen up to now.            *)
LEMMA ProvidedIs ==
  ASSUME HistoryType, NEW limit \in Limits
  PROVE  \A c \in Asked!Provided(limit) :
           /\ c = Asked!Seen(c.ts) /\ c.ts \in Int /\ c.seen \in Int
           /\ -Depth <= c.ts /\ c.ts <= time /\ c.ts % Asked!Length = 0
           /\ ~HasSeen(c) => time < c.ts + Asked!Length
<1> SUFFICES ASSUME NEW c \in Asked!Provided(limit)
             PROVE  /\ c = Asked!Seen(c.ts) /\ c.ts \in Int /\ c.seen \in Int
                    /\ -Depth <= c.ts /\ c.ts <= time /\ c.ts % Asked!Length = 0
                    /\ ~HasSeen(c) => time < c.ts + Asked!Length
  OBVIOUS
<1>1. Asked!Length \in Nat \ {0} /\ time \in Int /\ -Depth \in Int /\ Asked!Start(limit) \in Int
  BY LengthType, StartType, HistoryAssumption DEF HistoryType
<1> DEFINE lo == Asked!Max({-Depth, Asked!Start(limit)})
<1>2. lo \in Int /\ lo >= -Depth
  <2>1. PICK deep \in Int, start \in Int : deep = -Depth /\ start = Asked!Start(limit)
    BY <1>1
  <2>2. Asked!Max({deep, start}) \in Int /\ Asked!Max({deep, start}) >= deep
    BY TwoOf
  <2> QED BY <2>1, <2>2
<1>3. PICK ts \in Asked!Opened(-Depth) \cup Asked!Opened(lo) : c = Asked!Seen(ts)
  BY DEF Asked!Provided, Asked!Newest, Asked!Oldest
<1> HIDE DEF lo
<1>4. ts \in Int /\ -Depth <= ts /\ ts <= time /\ ts % Asked!Length = 0
  BY <1>1, <1>2 DEF Asked!Opened
<1>5. PICK end \in Int : end = ts + Asked!Length
  BY <1>1, <1>4
<1>6. Asked!Min({time, end}) \in Int /\ (Asked!Min({time, end}) = time \/ Asked!Min({time, end}) = end)
  BY <1>1, TwoOf
<1>7. c.ts = ts /\ c.seen = Asked!Min({time, end})
  BY <1>3, <1>5 DEF Asked!Seen
<1> QED BY <1>1, <1>3, <1>4, <1>5, <1>6, <1>7 DEF HasSeen


(* So many bars between two times, in both directions.                      *)
LEMMA BarsAfter ==
  ASSUME NEW L \in Nat \ {0}, NEW n \in Nat, NEW x \in Int, NEW hi \in Int, x <= hi, x % L = 0,
         NEW Y \in SUBSET (x .. hi), x \notin Y, \A y \in Y : y % L = 0, ~(Cardinality(Y) < n)
  PROVE  x + L * n <= hi
<1>1. Y \cup {x} \in SUBSET (x .. hi) /\ \A y \in Y \cup {x} : y % L = 0
  OBVIOUS
<1>2. /\ IsFiniteSet(Y \cup {x}) /\ Cardinality(Y \cup {x}) <= (hi - x) \div L + 1
      /\ IsFiniteSet(Y) /\ Cardinality(Y) \in Nat /\ (hi - x) \div L \in Nat
  BY <1>1, Fits, FS_Subset
<1>3. Cardinality(Y \cup {x}) = Cardinality(Y) + 1
  BY <1>2, FS_AddElement
<1> DEFINE q == (hi - x) \div L
<1>4. n <= q /\ q \in Nat
  BY <1>2, <1>3
<1>5. L * q <= hi - x /\ L * q \in Int
  BY Division
<1> HIDE DEF q
<1>6. L * n \in Int /\ (q < n <=> L * q < L * n) /\ (n < q <=> L * n < L * q)
  BY <1>4, Scaled
<1> QED BY <1>4, <1>5, <1>6

LEMMA BarsBefore ==
  ASSUME NEW L \in Nat \ {0}, NEW n \in Nat, NEW x \in Int, NEW lo \in Int, lo <= x, x % L = 0,
         NEW Y \in SUBSET (lo .. x), x \notin Y, \A y \in Y : y % L = 0, ~(Cardinality(Y) < n)
  PROVE  lo + L * n <= x
<1>1. Y \cup {x} \in SUBSET (lo .. x) /\ \A y \in Y \cup {x} : y % L = 0
  OBVIOUS
<1>2. /\ IsFiniteSet(Y \cup {x}) /\ Cardinality(Y \cup {x}) <= (x - lo) \div L + 1
      /\ IsFiniteSet(Y) /\ Cardinality(Y) \in Nat /\ (x - lo) \div L \in Nat
  BY <1>1, Fits, FS_Subset
<1>3. Cardinality(Y \cup {x}) = Cardinality(Y) + 1
  BY <1>2, FS_AddElement
<1> DEFINE q == (x - lo) \div L
<1>4. n <= q /\ q \in Nat
  BY <1>2, <1>3
<1>5. L * q <= x - lo /\ L * q \in Int
  BY Division
<1> HIDE DEF q
<1>6. L * n \in Int /\ (q < n <=> L * q < L * n) /\ (n < q <=> L * n < L * q)
  BY <1>4, Scaled
<1> QED BY <1>4, <1>5, <1>6

(* A fetch misses one bar of the window at most.                            *)
LEMMA FetchedAlmostAll ==
  ASSUME HistoryType, Asked!Length = Asked!Spacing, NEW limit \in Limits
  PROVE  Cardinality(Wanted(limit) \ Times(Asked!Provided(limit))) <= limit + 1 - Asked!Enough(limit)
<1> DEFINE M == Wanted(limit) \ Times(Asked!Provided(limit))
           lo == Asked!Max({-Depth, Asked!Start(limit)})
           W == Wanted(limit)
<1>1. /\ limit \in Nat \ {0} /\ time \in Int /\ -Depth \in Int
      /\ Asked!Enough(limit) \in Nat /\ Asked!Enough(limit) <= limit
      /\ lo \in Int /\ lo >= -Depth /\ W \subseteq Int /\ IsFiniteSet(W) /\ Cardinality(W) <= limit + 1
      /\ source \in {"binance", "alpaca"}
  <2>1. /\ limit \in Nat \ {0} /\ time \in Int /\ -Depth \in Int
        /\ source \in {"binance", "alpaca"}
    BY HistoryAssumption DEF HistoryType
  <2>2. Asked!Enough(limit) \in Nat /\ Asked!Enough(limit) <= limit
    BY EnoughIs
  <2>3. /\ lo \in Int /\ lo >= -Depth /\ W \subseteq Int
        /\ IsFiniteSet(W) /\ Cardinality(W) <= limit + 1
    BY WantedIs
  <2> QED BY <2>1, <2>2, <2>3
<1>2. W = Asked!Opened(lo) /\ \A ts \in W : ts \in Asked!Opened(-Depth)
  <2>1. W = Asked!Opened(lo)
    BY DEF Wanted
  <2> HIDE DEF lo
  <2> QED BY <1>1, <2>1 DEF Asked!Opened
<1>3. CASE source = "binance"
  <2>1. ASSUME NEW x \in M PROVE ~(Cardinality({u \in W : x < u}) < limit)
    <3>1. x \in W /\ x \in Asked!Opened(-Depth) /\ x \notin Asked!Newest(limit, Asked!Opened(-Depth))
      <4>1. ASSUME x \in Asked!Newest(limit, Asked!Opened(-Depth)) PROVE x \in Times(Asked!Provided(limit))
        <5>1. Asked!Seen(x) \in Asked!Provided(limit) /\ Asked!Seen(x).ts = x
          BY <1>3, <4>1 DEF Asked!Provided, Asked!Seen
        <5> QED BY <5>1 DEF Times
      <4> QED BY <1>2, <4>1
    <3>2. {u \in Asked!Opened(-Depth) : x < u} = {u \in W : x < u}
      <4> HIDE DEF lo, W
      <4>1. \A u \in Asked!Opened(-Depth) : x < u => u \in W
        BY <1>1, <1>2, <3>1 DEF Asked!Opened
      <4> QED BY <1>2, <4>1
    <3> HIDE DEF lo, W
    <3> QED BY <3>1, <3>2, HistoryCount DEF Asked!Newest
  <2> HIDE DEF W, lo
  <2>2. M \in SUBSET W
    BY DEF W
  <2> HIDE DEF M
  <2>3. limit \in Nat /\ W \in SUBSET Int
    BY <1>1
  <2>4. IsFiniteSet(M) /\ Cardinality(M) \in Nat /\ Cardinality(M) <= 1
    BY <1>1, <2>1, <2>2, <2>3, AtMostOne
  <2>5. Cardinality(M) <= limit + 1 - Asked!Enough(limit)
    BY <1>1, <2>4
  <2> QED BY <2>5 DEF M, W
<1>4. CASE source = "alpaca"
  <2>1. ASSUME NEW x \in M PROVE ~(Cardinality({u \in W : u < x}) < limit)
    <3>1. x \in W /\ x \notin Asked!Oldest(limit, Asked!Opened(lo))
      <4>1. ASSUME x \in Asked!Oldest(limit, Asked!Opened(lo)) PROVE x \in Times(Asked!Provided(limit))
        <5>1. Asked!Seen(x) \in Asked!Provided(limit) /\ Asked!Seen(x).ts = x
          BY <1>4, <4>1 DEF Asked!Provided, Asked!Seen
        <5> QED BY <5>1 DEF Times
      <4> QED BY <4>1
    <3> HIDE DEF lo, W
    <3> QED BY <1>2, <3>1, HistoryCount DEF Asked!Oldest
  <2> HIDE DEF W, lo
  <2>2. M \in SUBSET W
    BY DEF W
  <2> HIDE DEF M
  <2>3. limit \in Nat /\ W \in SUBSET Int
    BY <1>1
  <2>4. IsFiniteSet(M) /\ Cardinality(M) \in Nat /\ Cardinality(M) <= 1
    BY <1>1, <2>1, <2>2, <2>3, AtMostOne
  <2>5. Cardinality(M) <= limit + 1 - Asked!Enough(limit)
    BY <1>1, <2>4
  <2> QED BY <2>5 DEF M, W
<1> QED BY <1>1, <1>3, <1>4

(* What is answered from the table is in the window, each bar once.         *)
LEMMA LoadedEnough ==
  ASSUME HistoryType, Asked!Length = Asked!Spacing, NEW limit \in Limits,
         Cardinality(Asked!Loaded(limit)) >= Asked!Enough(limit)
  PROVE  Cardinality(Wanted(limit) \ Times(Asked!Loaded(limit))) <= limit + 1 - Asked!Enough(limit)
<1> DEFINE T == Times(Asked!Loaded(limit))
           W == Wanted(limit)
           f == [c \in Asked!Loaded(limit) |-> c.ts]
<1>1. /\ limit \in Nat \ {0} /\ Asked!Enough(limit) \in Nat /\ W \subseteq Int
      /\ IsFiniteSet(W) /\ Cardinality(W) \in Nat /\ Cardinality(W) <= limit + 1
  BY WantedIs, EnoughIs, HistoryAssumption
<1>2. T \subseteq W
  <2> SUFFICES ASSUME NEW c \in Asked!Loaded(limit) PROVE c.ts \in W
    BY DEF Times
  <2>1. /\ c.ts \in Int /\ -Depth <= c.ts /\ c.ts <= time /\ c.ts % Asked!Length = 0 /\ Asked!Start(limit) <= c.ts
    BY DEF Asked!Loaded, HistoryType
  <2> DEFINE lo == Asked!Max({-Depth, Asked!Start(limit)})
  <2>2. lo \in Int /\ (lo = -Depth \/ lo = Asked!Start(limit)) /\ time \in Nat
    BY WantedIs DEF HistoryType
  <2> HIDE DEF lo
  <2>3. c.ts \in lo .. time
    BY <2>1, <2>2
  <2> QED BY <2>1, <2>3 DEF Wanted, Asked!Opened, lo
<1>3. f \in Injection(Asked!Loaded(limit), T) /\ f \in Surjection(Asked!Loaded(limit), T)
  <2>1. f \in [Asked!Loaded(limit) -> T]
    BY DEF Times
  <2>2. \A c, d \in Asked!Loaded(limit) : f[c] = f[d] => c = d
    BY DEF Asked!Loaded, HistoryType
  <2>3. \A t \in T : \E c \in Asked!Loaded(limit) : f[c] = t
    BY DEF Times
  <2> QED BY <2>1, <2>2, <2>3 DEF Injection, IsInjective, Surjection
<1>4. IsFiniteSet(T) /\ Cardinality(T) \in Nat
  BY <1>1, <1>2, FS_Subset, FS_CardinalityType
<1>5. IsFiniteSet(Asked!Loaded(limit)) /\ Cardinality(Asked!Loaded(limit)) <= Cardinality(T)
  <2> HIDE DEF f, T
  <2> QED BY <1>3, <1>4, FS_Injection
<1>6. Cardinality(Asked!Loaded(limit)) \in Nat
  BY <1>5, FS_CardinalityType
<1>7. Cardinality(W \ T) = Cardinality(W) - Cardinality(T)
  <2>1. W \cap T = T
    BY <1>2
  <2> HIDE DEF W, T
  <2> QED BY <1>1, <2>1, FS_Difference
<1> HIDE DEF W, T, f
<1> QED BY <1>1, <1>4, <1>5, <1>6, <1>7 DEF W, T


-----------------------------------------------------------------------------
(* A forming candle that a fetch leaves behind is out of every window.      *)
LEMMA LeftBehind ==
  ASSUME HistoryType, Asked!Length = Asked!Spacing, NEW limit \in Limits,
         NEW c \in cache, \A b \in Asked!Provided(limit) : b.ts # c.ts, c.ts < time
  PROVE  c.ts + Asked!Length * limit <= time
<1>1. /\ limit \in Nat \ {0} /\ Asked!Length \in Nat \ {0} /\ time \in Int /\ -Depth \in Int
      /\ c.ts \in Int /\ -Depth <= c.ts /\ c.ts <= time /\ c.ts % Asked!Length = 0
      /\ source \in {"binance", "alpaca"}
  BY LengthType, HistoryAssumption DEF HistoryType
<1>2. Asked!Seen(c.ts).ts = c.ts
  BY DEF Asked!Seen
<1>3. CASE source = "binance"
  <2> DEFINE Y == {u \in Asked!Opened(-Depth) : c.ts < u}
  <2>1. c.ts \in Asked!Opened(-Depth)
    BY <1>1 DEF Asked!Opened
  <2>2. c.ts \notin Asked!Newest(limit, Asked!Opened(-Depth))
    BY <1>2, <1>3 DEF Asked!Provided
  <2>3. ~(Cardinality(Y) < limit)
    BY <2>1, <2>2, HistoryCount DEF Asked!Newest
  <2>4. Y \in SUBSET (c.ts .. time) /\ c.ts \notin Y /\ \A y \in Y : y % Asked!Length = 0
    BY <1>1 DEF Asked!Opened
  <2> HIDE DEF Y
  <2> QED BY <1>1, <2>3, <2>4, BarsAfter
<1>4. CASE source = "alpaca"
  <2>1. PICK lo : lo = Asked!Max({-Depth, Asked!Start(limit)})
    OBVIOUS
  <2>2. lo \in Int /\ lo >= Asked!Start(limit) /\ (lo = -Depth \/ lo = Asked!Start(limit))
    BY <2>1, WantedIs
  <2>3. Asked!Start(limit) \in Int /\ time - Asked!Start(limit) = Asked!Length * limit /\ Asked!Length * limit \in Nat
    BY <1>1, StartType
  <2>4. CASE lo <= c.ts
    <3> DEFINE Y == {u \in Asked!Opened(lo) : u < c.ts}
    <3>1. c.ts \in Asked!Opened(lo)
      BY <1>1, <2>2, <2>4 DEF Asked!Opened
    <3>2. c.ts \notin Asked!Oldest(limit, Asked!Opened(lo))
      BY <1>2, <1>4, <2>1 DEF Asked!Provided
    <3>3. ~(Cardinality(Y) < limit)
      BY <3>1, <3>2, HistoryCount DEF Asked!Oldest
    <3>4. Y \in SUBSET (lo .. c.ts) /\ c.ts \notin Y /\ \A y \in Y : y % Asked!Length = 0
      BY <1>1, <2>2 DEF Asked!Opened
    <3> HIDE DEF Y
    <3>5. lo + Asked!Length * limit <= c.ts
      BY <1>1, <2>2, <2>4, <3>3, <3>4, BarsBefore
    <3> QED BY <1>1, <2>2, <2>3, <3>5
  <2>5. CASE ~(lo <= c.ts)
    BY <1>1, <2>2, <2>3, <2>5
  <2> QED BY <2>4, <2>5
<1> QED BY <1>1, <1>3, <1>4

LEMMA FormingKept ==
  ASSUME HistoryType, FormingIsLast, Asked!Length = Asked!Spacing, ~short, NEW limit \in Limits,
         \A n \in Limits : ~(limit < n),
         NEW c \in Asked!Upserted(Asked!Provided(limit)), NEW d \in Asked!Upserted(Asked!Provided(limit)),
         ~HasSeen(c), c.ts < d.ts, NEW n \in Limits
  PROVE  c.ts <= Asked!Start(n)
<1>1. /\ Asked!Length \in Nat \ {0} /\ time \in Int /\ limit \in Nat /\ n \in Nat /\ ~(limit < n)
  BY LengthType, HistoryAssumption DEF HistoryType
<1>2. \A b \in Asked!Upserted(Asked!Provided(limit)) : b.ts \in Int /\ b.ts <= time /\ b.ts % Asked!Length = 0
  BY ProvidedIs DEF Asked!Upserted, HistoryType
<1>3. CASE c \in Asked!Provided(limit)
  <2>1. time < c.ts + Asked!Length
    BY <1>3, ProvidedIs
  <2>2. c.ts + Asked!Length <= d.ts
    BY <1>1, <1>2, Apart
  <2> QED BY <1>1, <1>2, <2>1, <2>2
<1>4. CASE c \notin Asked!Provided(limit)
  <2>1. c \in cache /\ \A b \in Asked!Provided(limit) : b.ts # c.ts
    BY <1>4 DEF Asked!Upserted
  <2>2. CASE d \in cache
    BY <2>1, <2>2 DEF FormingIsLast
  <2>3. CASE d \notin cache
    <3>1. c.ts \in Int /\ d.ts \in Int /\ d.ts <= time
      BY <1>2
    <3>2. c.ts < time
      BY <1>1, <3>1
    <3>3. c.ts + Asked!Length * limit <= time
      BY <2>1, <3>2, LeftBehind
    <3>4. /\ Asked!Length * n \in Int /\ Asked!Length * limit \in Int
          /\ (limit < n <=> Asked!Length * limit < Asked!Length * n)
          /\ (n < limit <=> Asked!Length * n < Asked!Length * limit)
      BY <1>1, Scaled
    <3>5. Asked!Start(n) = time - Asked!Length * n
      BY DEF Asked!Start
    <3> QED BY <1>1, <3>1, <3>3, <3>4, <3>5
  <2> QED BY <2>2, <2>3
<1> QED BY <1>3, <1>4

LEMMA FetchKeeps ==
  ASSUME HistoryInv, NEW limit \in Limits, Asked!Fetched(limit)
  PROVE  HistoryInv'
<1>1. /\ source' = source /\ timeframe' = timeframe /\ time' = time
      /\ cache' = Asked!Upserted(Asked!Provided(limit)) /\ asked' = limit /\ answer' = Asked!Provided(limit)
      /\ short' = (short \/ \E n \in Limits : limit < n)
      /\ HistoryType /\ FormingIsLast
  BY DEF Asked!Fetched, Asked!Answer, Asked!table, HistoryInv
<1>2. Asked!Length' = Asked!Length /\ Asked!Spacing' = Asked!Spacing /\ \A n : Asked!Start(n)' = Asked!Start(n)
  BY <1>1 DEF Asked!Length, Asked!Spacing, Asked!Start
<1>3. HistoryType'
  <2>1. \A c \in cache' : /\ c.ts \in Int /\ c.seen \in Int
                          /\ -Depth <= c.ts /\ c.ts <= time /\ c.ts % Asked!Length = 0
    BY <1>1, ProvidedIs DEF Asked!Upserted, HistoryType
  <2>2. \A c, d \in cache' : c.ts = d.ts => c = d
    <3> SUFFICES ASSUME NEW c \in Asked!Upserted(Asked!Provided(limit)),
                        NEW d \in Asked!Upserted(Asked!Provided(limit)), c.ts = d.ts
                 PROVE  c = d
      BY <1>1
    <3>1. CASE c \in Asked!Provided(limit) /\ d \in Asked!Provided(limit)
      <4>1. c = Asked!Seen(c.ts) /\ d = Asked!Seen(d.ts)
        BY <1>1, <3>1, ProvidedIs
      <4> QED BY <4>1
    <3>2. CASE c \in cache /\ d \in cache
      BY <1>1, <3>2 DEF HistoryType
    <3> QED BY <3>1, <3>2 DEF Asked!Upserted
  <2> QED BY <1>1, <1>2, <2>1, <2>2 DEF HistoryType
<1>4. FormingIsLast'
  <2> SUFFICES ASSUME Asked!Length = Asked!Spacing, ~short', NEW c \in cache', NEW d \in cache',
                      ~(c.seen >= c.ts + Asked!Length), c.ts < d.ts, NEW n \in Limits
               PROVE  c.ts <= Asked!Start(n)
    BY <1>1, <1>2 DEF FormingIsLast, HasSeen
  <2> QED BY <1>1, FormingKept DEF HasSeen
<1>5. Asked!BarsAreWholeAndRecent'
  <2> SUFFICES ASSUME Asked!Length = Asked!Spacing
               PROVE  /\ Cardinality(Wanted(limit) \ Times(Asked!Provided(limit))) <= limit + 1 - Asked!Enough(limit)
                      /\ \A c \in Asked!Provided(limit) : c.seen < c.ts + Asked!Length =>
                           \A d \in Asked!Provided(limit) : d.ts <= c.ts
    <3>1. Asked!Missing' = Wanted(limit) \ Times(Asked!Provided(limit))
      BY <1>1, <1>2 DEF Asked!Missing, Wanted, Times, Asked!Opened
    <3>2. Asked!Enough(asked)' = Asked!Enough(limit)
      BY <1>1, <1>2 DEF Asked!Enough, Asked!Expected
    <3> QED BY <1>1, <1>2, <3>1, <3>2, HistoryCount DEF Asked!BarsAreWholeAndRecent, Asked!UnderWay
  <2>1. ASSUME NEW c \in Asked!Provided(limit), c.seen < c.ts + Asked!Length, NEW d \in Asked!Provided(limit)
        PROVE  d.ts <= c.ts
    <3>1. /\ c.ts \in Int /\ c.seen \in Int /\ c.ts % Asked!Length = 0
          /\ d.ts \in Int /\ d.ts % Asked!Length = 0 /\ d.ts <= time
          /\ ~HasSeen(c) => time < c.ts + Asked!Length
      BY <1>1, ProvidedIs
    <3>2. Asked!Length \in Nat \ {0} /\ time \in Int
      BY <1>1, LengthType DEF HistoryType
    <3>3. time < c.ts + Asked!Length
      BY <2>1, <3>1, <3>2 DEF HasSeen
    <3>4. c.ts < d.ts => c.ts + Asked!Length <= d.ts
      BY <3>1, <3>2, Apart
    <3> QED BY <3>1, <3>2, <3>3, <3>4
  <2> QED BY <1>1, <2>1, FetchedAlmostAll
<1> QED BY <1>3, <1>4, <1>5 DEF HistoryInv

LEMMA LoadKeeps ==
  ASSUME HistoryInv, NEW limit \in Limits, Asked!FromCache(limit)
  PROVE  HistoryInv'
<1>1. /\ source' = source /\ timeframe' = timeframe /\ time' = time
      /\ cache' = cache /\ asked' = limit /\ answer' = Asked!Loaded(limit) /\ short' = short
      /\ Cardinality(Asked!Loaded(limit)) >= Asked!Enough(limit)
      /\ HistoryType /\ FormingIsLast
  BY HistoryCount DEF Asked!FromCache, Asked!Answer, Asked!table, HistoryInv
<1>2. Asked!Length' = Asked!Length /\ Asked!Spacing' = Asked!Spacing /\ \A n : Asked!Start(n)' = Asked!Start(n)
  BY <1>1 DEF Asked!Length, Asked!Spacing, Asked!Start
<1>3. HistoryType' /\ FormingIsLast'
  BY <1>1, <1>2 DEF HistoryType, FormingIsLast, HasSeen
<1>4. Asked!BarsAreWholeAndRecent'
  <2> SUFFICES ASSUME Asked!Length = Asked!Spacing
               PROVE  /\ Cardinality(Wanted(limit) \ Times(Asked!Loaded(limit))) <= limit + 1 - Asked!Enough(limit)
                      /\ ~short => \A c \in Asked!Loaded(limit) : c.seen < c.ts + Asked!Length =>
                           c.ts = Asked!Start(limit) \/ \A d \in Asked!Loaded(limit) : d.ts <= c.ts
    <3>1. Asked!Missing' = Wanted(limit) \ Times(Asked!Loaded(limit))
      BY <1>1, <1>2 DEF Asked!Missing, Wanted, Times, Asked!Opened
    <3>2. Asked!Enough(asked)' = Asked!Enough(limit)
      BY <1>1, <1>2 DEF Asked!Enough, Asked!Expected
    <3> QED BY <1>1, <1>2, <3>1, <3>2, HistoryCount DEF Asked!BarsAreWholeAndRecent, Asked!UnderWay
  <2>1. ASSUME ~short, NEW c \in Asked!Loaded(limit), c.seen < c.ts + Asked!Length,
               NEW d \in Asked!Loaded(limit), ~(d.ts <= c.ts)
        PROVE  c.ts = Asked!Start(limit)
    <3>1. /\ c \in cache /\ d \in cache /\ Asked!Start(limit) <= c.ts
          /\ c.ts \in Int /\ c.seen \in Int /\ d.ts \in Int
      BY <1>1 DEF Asked!Loaded, HistoryType
    <3>2. Asked!Length \in Nat \ {0} /\ Asked!Start(limit) \in Int
      BY <1>1, LengthType, StartType, HistoryAssumption
    <3>3. ~HasSeen(c) /\ c.ts < d.ts
      BY <2>1, <3>1, <3>2 DEF HasSeen
    <3>4. c.ts <= Asked!Start(limit)
      BY <1>1, <2>1, <3>1, <3>3 DEF FormingIsLast
    <3> QED BY <3>1, <3>2, <3>4
  <2> QED BY <1>1, <2>1, LoadedEnough
<1> QED BY <1>3, <1>4 DEF HistoryInv

LEMMA ClockKeeps == ASSUME HistoryInv, Asked!Clock PROVE HistoryInv'
<1>1. /\ source' = source /\ timeframe' = timeframe /\ time' = time + 1 /\ time \in Nat
      /\ cache' = cache /\ answer' = {} /\ short' = short /\ HistoryType /\ FormingIsLast
  BY DEF Asked!Clock, Asked!table, HistoryInv, HistoryType
<1>2. Asked!Length' = Asked!Length /\ Asked!Spacing' = Asked!Spacing
  BY <1>1 DEF Asked!Length, Asked!Spacing
<1>3. HistoryType'
  <2>1. \A c \in cache : c.ts <= time + 1
    BY <1>1 DEF HistoryType
  <2> QED BY <1>1, <1>2, <2>1 DEF HistoryType
<1>4. FormingIsLast'
  <2>1. ASSUME NEW n \in Limits
        PROVE  Asked!Start(n)' = time' - Asked!Spacing * n
    BY <1>2 DEF Asked!Start
  <2>2. \A c : HasSeen(c)' <=> HasSeen(c)
    BY <1>2 DEF HasSeen
  <2>3. ASSUME Asked!Length = Asked!Spacing, ~short, NEW c \in cache, NEW d \in cache,
               ~HasSeen(c), c.ts < d.ts, NEW n \in Limits
        PROVE  c.ts <= Asked!Start(n)'
    <3>1. c.ts <= Asked!Start(n)
      BY <1>1, <2>3 DEF FormingIsLast
    <3>2. c.ts \in Int /\ Asked!Spacing * n \in Nat /\ time \in Int
      BY <1>1, StartType, HistoryAssumption DEF HistoryType
    <3> QED BY <1>1, <2>1, <3>1, <3>2 DEF Asked!Start
  <2> QED BY <1>1, <1>2, <2>2, <2>3 DEF FormingIsLast
<1>5. Asked!BarsAreWholeAndRecent'
  BY <1>1 DEF Asked!BarsAreWholeAndRecent
<1> QED BY <1>3, <1>4, <1>5 DEF HistoryInv

LEMMA HistoryStep == ASSUME HistoryInv, [Asked!Next]_Asked!vars PROVE HistoryInv'
<1>1. ASSUME UNCHANGED <<source, timeframe, time, cache, short>>,
             answer' = {} \/ UNCHANGED <<asked, answer>>
      PROVE  HistoryInv'
  <2>1. Asked!Length' = Asked!Length /\ Asked!Spacing' = Asked!Spacing /\ \A n : Asked!Start(n)' = Asked!Start(n)
    BY <1>1 DEF Asked!Length, Asked!Spacing, Asked!Start
  <2>2. HistoryType' /\ FormingIsLast'
    BY <1>1, <2>1 DEF HistoryInv, HistoryType, FormingIsLast, HasSeen
  <2>3. Asked!BarsAreWholeAndRecent'
    <3>1. CASE answer' = {}
      BY <3>1 DEF Asked!BarsAreWholeAndRecent
    <3>2. CASE UNCHANGED <<asked, answer>>
      BY <1>1, <2>1, <3>2 DEF HistoryInv, Asked!BarsAreWholeAndRecent, Asked!Missing, Asked!UnderWay,
         Asked!Enough, Asked!Expected, Asked!Opened
    <3> QED BY <1>1, <3>1, <3>2
  <2> QED BY <2>2, <2>3 DEF HistoryInv
<1>2. CASE UNCHANGED Asked!vars
  BY <1>1, <1>2 DEF Asked!vars, Asked!table
<1>3. ASSUME NEW limit \in Limits, Asked!Unreachable(limit) PROVE HistoryInv'
  BY <1>1, <1>3 DEF Asked!Unreachable, Asked!Answer, Asked!table
<1> QED BY <1>2, <1>3, ClockKeeps, LoadKeeps, FetchKeeps DEF Asked!Next

LEMMA HistoryInit == ASSUME Asked!Init PROVE HistoryInv
BY DEF Asked!Init, HistoryInv, HistoryType, FormingIsLast, Asked!BarsAreWholeAndRecent

(* ServedIsWhatCame, for every set of symbols, length of the window and of   *)
(* the bars, and any faults: the candles served have every trade the feed    *)
(* accepted and none but the exchange's, and bars fetched are as many as     *)
(* were asked for, none under way but the last (streaming_market_data.py,    *)
(* candle_aggregator.py; historical_data.get_historical_candles).            *)
THEOREM CandlesAreWhatCame == FeedSpec /\ HistorySpec => []ServedIsWhatCame
<1>1. Feed!Init => FeedInv
  BY FeedInit
<1>2. FeedInv /\ [Feed!Next]_Feed!vars => FeedInv'
  BY FeedStep
<1>3. FeedInv => Feed!ServedIsWhatCame
  BY FeedSafe
<1>4. Feed!Spec => []Feed!ServedIsWhatCame
  BY <1>1, <1>2, <1>3, PTL DEF Feed!Spec
<1>5. Asked!Init => HistoryInv
  BY HistoryInit
<1>6. HistoryInv /\ [Asked!Next]_Asked!vars => HistoryInv'
  BY HistoryStep
<1>7. HistoryInv => Asked!BarsAreWholeAndRecent
  BY DEF HistoryInv
<1>8. Asked!Spec => []Asked!BarsAreWholeAndRecent
  BY <1>5, <1>6, <1>7, PTL DEF Asked!Spec
<1> QED BY <1>4, <1>8, PTL DEF FeedSpec, HistorySpec, ServedIsWhatCame


-----------------------------------------------------------------------------
(* The bars of the market brain.                                           *)

LEMMA BrainCount == ASSUME NEW S PROVE Brain!Cardinality(S) = Cardinality(S)
BY DEF Brain!Cardinality, Cardinality

(* R puts the members of S in one line.                                     *)
Lines(R, S) ==
  /\ \A x \in S : <<x, x>> \notin R
  /\ \A x, y, z \in S : <<x, y>> \in R /\ <<y, z>> \in R => <<x, z>> \in R
  /\ \A x, y \in S : x = y \/ <<x, y>> \in R \/ <<y, x>> \in R

(* In the line every member has one place, behind all that come before it.  *)
LEMMA LineIs ==
  ASSUME NEW S, IsFiniteSet(S), NEW R, Lines(R, S)
  PROVE  /\ Cardinality(S) \in Nat
         /\ Brain!InOrder(S, R) \in [1 .. Cardinality(S) -> S]
         /\ \A x \in S : \E i \in 1 .. Cardinality(S) : Brain!InOrder(S, R)[i] = x
         /\ \A i, j \in 1 .. Cardinality(S) :
              Brain!InOrder(S, R)[i] = Brain!InOrder(S, R)[j] => i = j
         /\ \A i, j \in 1 .. Cardinality(S) :
              <<Brain!InOrder(S, R)[i], Brain!InOrder(S, R)[j]>> \in R => i < j
<1> DEFINE n == Cardinality(S)
           Before(x) == {y \in S : <<y, x>> \in R}
           place == [x \in S |-> Cardinality(Before(x)) + 1]
           f == Brain!InOrder(S, R)
<1>1. n \in Nat
  BY FS_CardinalityType
<1>2. ASSUME NEW x \in S
      PROVE  /\ IsFiniteSet(Before(x)) /\ Cardinality(Before(x)) \in Nat
             /\ Cardinality(Before(x)) < n /\ place[x] \in 1 .. n
  <2>1. Before(x) \in SUBSET S /\ x \notin Before(x)
    BY DEF Lines
  <2>2. /\ IsFiniteSet(Before(x)) /\ Cardinality(Before(x)) <= n
        /\ (n = Cardinality(Before(x)) => S = Before(x))
    BY <2>1, FS_Subset
  <2>3. Cardinality(Before(x)) \in Nat
    BY <2>2, FS_CardinalityType
  <2> QED BY <1>1, <2>1, <2>2, <2>3
<1>3. ASSUME NEW x \in S, NEW y \in S, <<x, y>> \in R PROVE place[x] < place[y]
  <2>1. Before(x) \in SUBSET Before(y) /\ x \in Before(y) /\ x \notin Before(x)
    BY <1>3 DEF Lines
  <2>2. /\ Cardinality(Before(x)) <= Cardinality(Before(y))
        /\ (Cardinality(Before(y)) = Cardinality(Before(x)) => Before(y) = Before(x))
    BY <1>2, <2>1, FS_Subset
  <2>3. /\ Cardinality(Before(x)) \in Nat /\ Cardinality(Before(y)) \in Nat
        /\ Before(x) # Before(y)
    BY <1>2, <2>1
  <2>4. Cardinality(Before(x)) < Cardinality(Before(y))
    BY <2>2, <2>3
  <2> QED BY <2>3, <2>4
<1>4. \A x, y \in S : place[x] = place[y] => x = y
  <2> SUFFICES ASSUME NEW x \in S, NEW y \in S, place[x] = place[y] PROVE x = y
    OBVIOUS
  <2>1. place[x] \in Nat /\ place[y] \in Nat
    BY <1>1, <1>2
  <2>2. x = y \/ <<x, y>> \in R \/ <<y, x>> \in R
    BY DEF Lines
  <2> HIDE DEF place
  <2> QED BY <1>3, <2>1, <2>2
<1>5. place \in Surjection(S, 1 .. n)
  <2>1. IsFiniteSet(1 .. n) /\ Cardinality(1 .. n) = n
    BY <1>1, FS_Interval
  <2>2. place \in [S -> 1 .. n]
    BY <1>2
  <2>3. place \in Injection(S, 1 .. n)
    BY <1>4, <2>2 DEF Injection, IsInjective
  <2> HIDE DEF place, n
  <2> QED BY <2>1, <2>3, FS_Injection DEF n
<1>6. ASSUME NEW i \in 1 .. n PROVE f[i] \in S /\ place[f[i]] = i
  <2>1. PICK x \in S : place[x] = i
    BY <1>5 DEF Surjection
  <2>2. Cardinality(Before(x)) = i - 1
    BY <1>2, <2>1
  <2>3. f[i] = CHOOSE y \in S : Cardinality(Before(y)) = i - 1
    BY BrainCount DEF Brain!InOrder
  <2>4. f[i] \in S /\ Cardinality(Before(f[i])) = i - 1
    BY <2>2, <2>3
  <2> QED BY <2>4
<1>7. f \in [1 .. n -> S]
  <2>1. DOMAIN f = 1 .. n /\ f = [i \in 1 .. n |-> f[i]]
    <3>1. Brain!Cardinality(S) = n
      BY BrainCount
    <3> DEFINE nth(i) == CHOOSE x \in S : Brain!Cardinality({y \in S : <<y, x>> \in R}) = i - 1
    <3>2. f = [i \in 1 .. n |-> nth(i)]
      BY <3>1 DEF Brain!InOrder
    <3> HIDE DEF f, n, nth
    <3> QED BY <3>2
  <2> HIDE DEF f, n
  <2> QED BY <1>6, <2>1
<1>8. ASSUME NEW x \in S PROVE \E i \in 1 .. n : f[i] = x
  BY <1>2, <1>4, <1>6
<1>9. ASSUME NEW i \in 1 .. n, NEW j \in 1 .. n PROVE f[i] = f[j] => i = j
  BY <1>6
<1>10. ASSUME NEW i \in 1 .. n, NEW j \in 1 .. n, <<f[i], f[j]>> \in R PROVE i < j
  <2>1. f[i] \in S /\ f[j] \in S /\ place[f[i]] = i /\ place[f[j]] = j
    BY <1>6
  <2> HIDE DEF f, place
  <2> QED BY <1>3, <1>10, <2>1
<1> QED BY <1>1, <1>7, <1>8, <1>9, <1>10

(* A sequence of bars, each of one of the two timeframes.                   *)
IsBar(b) == b.tf \in {"1h", "1m"} /\ b.ts \in Nat
IsTape(bars) == \E S : bars \in Seq(S) /\ \A b \in S : IsBar(b)

LEMMA KeysAre ==
  ASSUME NEW bars, NEW k
  PROVE  k \in Brain!Keys(bars) <=> \E i \in DOMAIN bars : Brain!Key(bars[i]) = k
BY DEF Brain!Keys, Brain!Range

LEMMA SameKey ==
  ASSUME NEW a, NEW b PROVE Brain!Key(a) = Brain!Key(b) <=> a.tf = b.tf /\ a.ts = b.ts
BY DEF Brain!Key

LEMMA TapeIs ==
  ASSUME NEW bars, IsTape(bars)
  PROVE  /\ Len(bars) \in Nat /\ DOMAIN bars = 1 .. Len(bars)
         /\ \A i \in DOMAIN bars : IsBar(bars[i])
BY DEF IsTape

(* A function on 1 .. n whose values are bars is a sequence of bars.        *)
LEMMA TapeOf ==
  ASSUME NEW n \in Nat, NEW f, f = [i \in 1 .. n |-> f[i]], \A i \in 1 .. n : IsBar(f[i])
  PROVE  IsTape(f) /\ Len(f) = n /\ DOMAIN f = 1 .. n
<1> DEFINE S == {f[i] : i \in 1 .. n}
<1>1. f \in [1 .. n -> S] /\ \A b \in S : IsBar(b)
  OBVIOUS
<1>2. f \in Seq(S) /\ Len(f) = n
  <2> HIDE DEF S
  <2> QED BY <1>1
<1> QED BY <1>1, <1>2 DEF IsTape

(* The last bar of a timeframe and time is found, and it is the one.        *)
IsLastOf(bars, k, i) ==
  /\ i \in DOMAIN bars /\ Brain!Key(bars[i]) = k
  /\ \A j \in DOMAIN bars : Brain!Key(bars[j]) = k => j <= i

LEMMA LastIs ==
  ASSUME NEW bars, IsTape(bars), NEW k, NEW i, IsLastOf(bars, k, i)
  PROVE  Brain!LastOfKey(bars, k) = bars[i]
<1> DEFINE found == {j \in DOMAIN bars : Brain!Key(bars[j]) = k}
<1>1. i \in found /\ (\A j \in found : i >= j) /\ found \subseteq Int
  BY TapeIs DEF IsLastOf
<1>2. Brain!Max(found) = i
  <2> HIDE DEF found
  <2>1. Brain!Max(found) \in found /\ \A j \in found : Brain!Max(found) >= j
    BY <1>1 DEF Brain!Max
  <2>2. i \in Int /\ Brain!Max(found) \in Int /\ i >= Brain!Max(found) /\ Brain!Max(found) >= i
    BY <1>1, <2>1
  <2> QED BY <2>2
<1> QED BY <1>2 DEF Brain!LastOfKey

LEMMA LastThere ==
  ASSUME NEW bars, IsTape(bars), NEW k \in Brain!Keys(bars)
  PROVE  \E i : IsLastOf(bars, k, i) /\ Brain!LastOfKey(bars, k) = bars[i]
<1> DEFINE found == {j \in DOMAIN bars : Brain!Key(bars[j]) = k}
<1>1. found \in SUBSET (0 .. Len(bars)) /\ found # {} /\ Len(bars) \in Nat
  BY KeysAre, TapeIs
<1>2. PICK i \in found : \A j \in found : j <= i
  <2> HIDE DEF found
  <2> QED BY <1>1, GreatestUpTo
<1>3. IsLastOf(bars, k, i)
  BY <1>2 DEF IsLastOf
<1> QED BY <1>3, LastIs

LEMMA BarAlone ==
  ASSUME NEW bar, IsBar(bar)
  PROVE  Brain!LastOfKey(<<bar>>, Brain!Key(bar)) = bar
<1>1. <<bar>> = [i \in 1 .. 1 |-> <<bar>>[i]] /\ DOMAIN <<bar>> = {1} /\ <<bar>>[1] = bar
  OBVIOUS
<1>2. IsTape(<<bar>>)
  <2>1. 1 \in Nat /\ \A i \in 1 .. 1 : IsBar(<<bar>>[i])
    OBVIOUS
  <2> QED BY <1>1, <2>1, TapeOf
<1>3. IsLastOf(<<bar>>, Brain!Key(bar), 1)
  BY <1>1 DEF IsLastOf
<1> QED BY <1>1, <1>2, <1>3, LastIs

(* One more bar.                                                            *)
LEMMA OneMore ==
  ASSUME NEW bars, IsTape(bars), NEW bar, IsBar(bar)
  PROVE  /\ IsTape(Append(bars, bar))
         /\ Brain!Keys(Append(bars, bar)) = Brain!Keys(bars) \cup {Brain!Key(bar)}
         /\ Brain!LastOfKey(Append(bars, bar), Brain!Key(bar)) = bar
         /\ \A k \in Brain!Keys(bars) \ {Brain!Key(bar)} :
              Brain!LastOfKey(Append(bars, bar), k) = Brain!LastOfKey(bars, k)
<1> DEFINE n == Len(bars)
           more == Append(bars, bar)
<1>1. PICK S : bars \in Seq(S) /\ \A b \in S : IsBar(b)
  BY DEF IsTape
<1>2. /\ n \in Nat /\ DOMAIN bars = 1 .. n /\ DOMAIN more = 1 .. (n + 1)
      /\ more[n + 1] = bar /\ \A i \in 1 .. n : more[i] = bars[i]
  BY <1>1
<1>3. IsTape(more)
  <2>1. more \in Seq(S \cup {bar})
    BY <1>1
  <2> QED BY <1>1, <2>1 DEF IsTape
<1> HIDE DEF more, n
<1>4. ASSUME NEW k
      PROVE  k \in Brain!Keys(more) <=> k \in Brain!Keys(bars) \/ k = Brain!Key(bar)
  <2>1. \A i \in 1 .. (n + 1) : i = n + 1 \/ i \in 1 .. n
    BY <1>2
  <2> QED BY <1>2, <2>1, KeysAre
<1>5. Brain!LastOfKey(more, Brain!Key(bar)) = bar
  <2>1. IsLastOf(more, Brain!Key(bar), n + 1)
    BY <1>2 DEF IsLastOf
  <2> QED BY <1>2, <1>3, <2>1, LastIs
<1>6. ASSUME NEW k \in Brain!Keys(bars) \ {Brain!Key(bar)}
      PROVE  Brain!LastOfKey(more, k) = Brain!LastOfKey(bars, k)
  <2>1. PICK i : IsLastOf(bars, k, i) /\ Brain!LastOfKey(bars, k) = bars[i]
    BY LastThere
  <2>2. IsLastOf(more, k, i)
    BY <1>2, <2>1 DEF IsLastOf
  <2> QED BY <1>2, <1>3, <2>1, <2>2, LastIs DEF IsLastOf
<1> QED BY <1>3, <1>4, <1>5, <1>6 DEF more

(* What _merge_candles makes of two tapes: the bars of both, and of a        *)
(* timeframe and time the last one is the last of the first tape, or one of  *)
(* the second.                                                               *)
LEMMA MergeIs ==
  ASSUME NEW bars, IsTape(bars), NEW more, IsTape(more)
  PROVE  /\ IsTape(Brain!Merge(bars, more))
         /\ Brain!Keys(Brain!Merge(bars, more)) = Brain!Keys(bars) \cup Brain!Keys(more)
         /\ \A k \in Brain!Keys(bars) \cup Brain!Keys(more) :
              \/ /\ k \in Brain!Keys(bars)
                 /\ Brain!LastOfKey(Brain!Merge(bars, more), k) = Brain!LastOfKey(bars, k)
              \/ \E j \in DOMAIN more :
                   /\ Brain!Key(more[j]) = k
                   /\ Brain!LastOfKey(Brain!Merge(bars, more), k) = more[j]
<1> DEFINE b == Len(bars)
           n == b + Len(more)
           all == bars \o more
           merged == {i \in DOMAIN all : i <= Len(bars) \/ all[i] \notin Brain!Range(bars)}
           before == {p \in merged \X merged :
                        \/ all[p[1]].ts < all[p[2]].ts
                        \/ all[p[1]].ts = all[p[2]].ts /\ p[1] < p[2]}
           c == Cardinality(merged)
           order == Brain!InOrder(merged, before)
           m == Brain!Merge(bars, more)
<1>1. PICK S : bars \in Seq(S) /\ \A x \in S : IsBar(x)
  BY DEF IsTape
<1>2. PICK T : more \in Seq(T) /\ \A x \in T : IsBar(x)
  BY DEF IsTape
<1>3. /\ b \in Nat /\ n \in Nat /\ Len(more) \in Nat /\ n = b + Len(more)
      /\ DOMAIN bars = 1 .. b /\ DOMAIN more = 1 .. Len(more) /\ DOMAIN all = 1 .. n
      /\ \A i \in 1 .. b : all[i] = bars[i] /\ i \in 1 .. n
      /\ \A i \in 1 .. n : i > b => i - b \in DOMAIN more /\ all[i] = more[i - b]
      /\ \A j \in DOMAIN more : b + j \in 1 .. n /\ b + j > b /\ all[b + j] = more[j]
  BY <1>1, <1>2
<1>4. ASSUME NEW i \in 1 .. n PROVE IsBar(all[i]) /\ all[i].ts \in Nat
  <2>1. i <= b \/ i > b
    BY <1>3
  <2>2. bars \in [1 .. b -> S] /\ more \in [1 .. Len(more) -> T]
    BY <1>1, <1>2, <1>3
  <2>3. all[i] \in S \/ all[i] \in T
    BY <1>3, <2>1, <2>2
  <2> HIDE DEF all
  <2> QED BY <1>1, <1>2, <2>3 DEF IsBar
<1> HIDE DEF all, b, n
<1>5. /\ merged \subseteq 1 .. n /\ (\A i \in merged : i \in Nat)
      /\ \A i \in 1 .. b : i \in merged
      /\ \A i \in 1 .. n : i \in merged \/ \E j \in 1 .. b : all[i] = all[j]
  <2>1. /\ merged \subseteq 1 .. n
        /\ \A i \in 1 .. n : i <= b => i \in merged
        /\ \A i \in 1 .. n : i \in merged \/ all[i] \in Brain!Range(bars)
    BY <1>3 DEF b
  <2>2. \A x \in Brain!Range(bars) : \E j \in 1 .. b : x = all[j]
    BY <1>3 DEF Brain!Range
  <2>3. \A i \in merged : i \in Nat
    BY <1>3, <2>1
  <2>4. \A i \in 1 .. b : i <= b /\ i \in 1 .. n
    BY <1>3
  <2> HIDE DEF merged
  <2> QED BY <2>1, <2>2, <2>3, <2>4
<1> HIDE DEF merged
<1>6. IsFiniteSet(merged)
  <2>1. IsFiniteSet(1 .. n) /\ merged \in SUBSET (1 .. n)
    BY <1>3, <1>5, FS_Interval
  <2> QED BY <2>1, FS_Subset
<1>7. Lines(before, merged)
  <2>1. \A i \in merged : all[i].ts \in Nat /\ i \in Nat
    BY <1>4, <1>5
  <2>2. \A i, j \in merged : <<i, j>> \in before <=>
          all[i].ts < all[j].ts \/ (all[i].ts = all[j].ts /\ i < j)
    OBVIOUS
  <2> HIDE DEF before
  <2> QED BY <2>1, <2>2 DEF Lines
<1>8. /\ c \in Nat /\ order \in [1 .. c -> merged]
      /\ \A x \in merged : \E i \in 1 .. c : order[i] = x
      /\ \A i, j \in 1 .. c : order[i] = order[j] => i = j
      /\ \A i, j \in 1 .. c : <<order[i], order[j]>> \in before => i < j
  <2> HIDE DEF before
  <2> QED BY <1>6, <1>7, LineIs
<1>9. m = [k \in 1 .. c |-> all[order[k]]]
  <2>1. DOMAIN order = 1 .. c
    BY <1>8
  <2>2. m = [k \in DOMAIN order |-> all[order[k]]]
    BY DEF Brain!Merge, merged, all
  <2> HIDE DEF order, c
  <2> QED BY <2>1, <2>2
<1>10. \A i, j \in merged : <<i, j>> \in before <=>
         all[i].ts < all[j].ts \/ (all[i].ts = all[j].ts /\ i < j)
  OBVIOUS
<1> HIDE DEF before, order, c, m
<1>11. IsTape(m) /\ DOMAIN m = 1 .. c
  <2>1. \A k \in 1 .. c : IsBar(all[order[k]])
    BY <1>4, <1>5, <1>8
  <2>2. m = [k \in 1 .. c |-> m[k]] /\ \A k \in 1 .. c : IsBar(m[k])
    BY <1>9, <2>1
  <2> QED BY <1>8, <2>2, TapeOf
<1>12. ASSUME NEW k
       PROVE  k \in Brain!Keys(m) <=> \E i \in merged : Brain!Key(all[i]) = k
  BY <1>8, <1>9, <1>11, KeysAre
<1>13. ASSUME NEW k
       PROVE  k \in Brain!Keys(m) <=> k \in Brain!Keys(bars) \/ k \in Brain!Keys(more)
  <2>1. ASSUME k \in Brain!Keys(m) PROVE k \in Brain!Keys(bars) \/ k \in Brain!Keys(more)
    <3>1. PICK i \in merged : Brain!Key(all[i]) = k
      BY <1>12, <2>1
    <3>2. i \in 1 .. n /\ (i \in 1 .. b \/ i > b)
      BY <1>3, <1>5
    <3> QED BY <1>3, <3>1, <3>2, KeysAre
  <2>2. ASSUME k \in Brain!Keys(bars) PROVE k \in Brain!Keys(m)
    BY <1>3, <1>5, <1>12, <2>2, KeysAre
  <2>3. ASSUME k \in Brain!Keys(more) PROVE k \in Brain!Keys(m)
    <3>1. PICK j \in DOMAIN more : Brain!Key(more[j]) = k
      BY <2>3, KeysAre
    <3>2. b + j \in 1 .. n /\ all[b + j] = more[j]
      BY <1>3
    <3> QED BY <1>5, <1>12, <3>1, <3>2
  <2> QED BY <2>1, <2>2, <2>3
<1>14. ASSUME NEW k \in Brain!Keys(m)
       PROVE  \/ k \in Brain!Keys(bars) /\ Brain!LastOfKey(m, k) = Brain!LastOfKey(bars, k)
              \/ \E j \in DOMAIN more : Brain!Key(more[j]) = k /\ Brain!LastOfKey(m, k) = more[j]
  <2> DEFINE ofKey == {i \in merged : Brain!Key(all[i]) = k}
  <2>1. PICK i \in ofKey : \A j \in ofKey : j <= i
    <3>1. ofKey \in SUBSET (0 .. n) /\ ofKey # {}
      BY <1>3, <1>5, <1>12
    <3> HIDE DEF ofKey
    <3> QED BY <1>3, <3>1, GreatestUpTo
  <2>2. i \in merged /\ i \in 1 .. n /\ Brain!Key(all[i]) = k
    BY <1>5
  <2>3. PICK x \in 1 .. c : order[x] = i
    BY <1>8, <2>2
  <2>4. IsLastOf(m, k, x)
    <3>1. m[x] = all[i]
      BY <1>9, <2>3
    <3>2. ASSUME NEW y \in 1 .. c, Brain!Key(m[y]) = k PROVE y <= x
      <4>1. order[y] \in merged /\ m[y] = all[order[y]]
        BY <1>8, <1>9
      <4>2. order[y] <= i /\ all[order[y]].ts = all[i].ts
        BY <2>1, <2>2, <3>2, <4>1, SameKey
      <4>3. order[y] = i \/ <<order[y], order[x]>> \in before
        <5>1. order[y] \in Nat /\ i \in Nat
          BY <1>5, <2>2, <4>1
        <5> QED BY <1>10, <2>2, <2>3, <4>1, <4>2, <5>1
      <4>4. CASE order[y] = i
        BY <1>8, <2>3, <4>4
      <4>5. CASE <<order[y], order[x]>> \in before
        BY <1>8, <4>5
      <4> QED BY <4>3, <4>4, <4>5
    <3> QED BY <1>11, <2>2, <2>3, <3>1, <3>2 DEF IsLastOf
  <2>5. Brain!LastOfKey(m, k) = all[i]
    BY <1>9, <1>11, <2>3, <2>4, LastIs
  <2>6. CASE i > b
    <3>1. i - b \in DOMAIN more /\ all[i] = more[i - b]
      BY <1>3, <2>2, <2>6
    <3> QED BY <2>2, <2>5, <3>1
  <2>7. CASE i <= b
    <3>1. i \in 1 .. b /\ all[i] = bars[i]
      BY <1>3, <2>2, <2>7
    <3>2. IsLastOf(bars, k, i)
      <4>1. ASSUME NEW j \in 1 .. b, Brain!Key(bars[j]) = k PROVE j <= i
        <5>1. j \in merged /\ all[j] = bars[j]
          BY <1>3, <1>5
        <5> QED BY <2>1, <4>1, <5>1
      <4> QED BY <1>3, <2>2, <3>1, <4>1 DEF IsLastOf
    <3>3. Brain!LastOfKey(bars, k) = bars[i]
      BY <3>2, LastIs
    <3>4. k \in Brain!Keys(bars)
      BY <1>3, <2>2, <3>1, KeysAre
    <3> QED BY <2>5, <3>1, <3>3, <3>4
  <2>8. i > b \/ i <= b
    BY <1>3, <2>2
  <2> QED BY <2>6, <2>7, <2>8
<1>15. Brain!Keys(m) = Brain!Keys(bars) \cup Brain!Keys(more)
  BY <1>13
<1> HIDE DEF m
<1>16. /\ IsTape(m) /\ Brain!Keys(m) = Brain!Keys(bars) \cup Brain!Keys(more)
       /\ \A k \in Brain!Keys(bars) \cup Brain!Keys(more) :
            \/ k \in Brain!Keys(bars) /\ Brain!LastOfKey(m, k) = Brain!LastOfKey(bars, k)
            \/ \E j \in DOMAIN more : Brain!Key(more[j]) = k /\ Brain!LastOfKey(m, k) = more[j]
  BY <1>11, <1>14, <1>15
<1> QED BY <1>16 DEF m

LEMMA KeysFinite ==
  ASSUME NEW bars, IsTape(bars)
  PROVE  IsFiniteSet(Brain!Keys(bars)) /\ Brain!Keys(bars) \subseteq {"1h", "1m"} \X Nat
<1> DEFINE n == Len(bars)
           key == [i \in 1 .. n |-> Brain!Key(bars[i])]
<1>1. n \in Nat /\ DOMAIN bars = 1 .. n /\ \A i \in DOMAIN bars : IsBar(bars[i])
  BY TapeIs
<1>2. key \in Surjection(1 .. n, Brain!Keys(bars))
  BY <1>1, KeysAre DEF Surjection
<1>3. IsFiniteSet(1 .. n)
  BY <1>1, FS_Interval
<1>4. IsFiniteSet(Brain!Keys(bars))
  <2> HIDE DEF key, n
  <2> QED BY <1>2, <1>3, FS_Surjection
<1>5. Brain!Keys(bars) \subseteq {"1h", "1m"} \X Nat
  BY <1>1, KeysAre DEF IsBar, Brain!Key
<1> QED BY <1>4, <1>5

(* What load_candles makes of stored rows: one bar each, at its price.      *)
LEMMA LoadedBars ==
  ASSUME NEW keys \in SUBSET ({"1h", "1m"} \X Nat), IsFiniteSet(keys)
  PROVE  /\ IsTape(Brain!Loaded(keys)) /\ Brain!Keys(Brain!Loaded(keys)) = keys
         /\ \A j \in DOMAIN Brain!Loaded(keys) :
              Brain!Loaded(keys)[j].close = store[Brain!Key(Brain!Loaded(keys)[j])]
<1> DEFINE before == {p \in keys \X keys :
                        \/ p[1][2] < p[2][2]
                        \/ p[1][2] = p[2][2] /\ p[1][1] = "1h" /\ p[2][1] = "1m"}
           c == Cardinality(keys)
           lined == Brain!InOrder(keys, before)
           bars == Brain!Loaded(keys)
<1>1. Lines(before, keys)
  <2>1. \A k, l \in keys : <<k, l>> \in before <=>
          k[2] < l[2] \/ (k[2] = l[2] /\ k[1] = "1h" /\ l[1] = "1m")
    OBVIOUS
  <2>2. \A k \in keys : k[1] \in {"1h", "1m"} /\ k[2] \in Nat /\ k = <<k[1], k[2]>>
    OBVIOUS
  <2>3. \A k, l \in keys : k[1] = l[1] /\ k[2] = l[2] => k = l
    BY <2>2
  <2> HIDE DEF before
  <2> QED BY <2>1, <2>2, <2>3 DEF Lines
<1>2. /\ c \in Nat /\ lined \in [1 .. c -> keys]
      /\ \A k \in keys : \E i \in 1 .. c : lined[i] = k
  <2> HIDE DEF before
  <2> QED BY <1>1, LineIs
<1>3. bars = [i \in 1 .. c |-> Brain!Bar(lined[i][1], lined[i][2], store[lined[i]])]
  <2>1. DOMAIN lined = 1 .. c
    BY <1>2
  <2>2. bars = [i \in DOMAIN lined |-> Brain!Bar(lined[i][1], lined[i][2], store[lined[i]])]
    BY DEF Brain!Loaded
  <2> HIDE DEF lined, c, bars
  <2> QED BY <2>1, <2>2
<1> HIDE DEF before, c, lined, bars
<1>4. ASSUME NEW i \in 1 .. c
      PROVE  IsBar(bars[i]) /\ Brain!Key(bars[i]) = lined[i] /\ bars[i].close = store[lined[i]]
  <2>1. lined[i] \in keys /\ lined[i] \in {"1h", "1m"} \X Nat
    BY <1>2
  <2>2. bars[i].tf = lined[i][1] /\ bars[i].ts = lined[i][2] /\ bars[i].close = store[lined[i]]
    BY <1>3 DEF Brain!Bar
  <2>3. lined[i][1] \in {"1h", "1m"} /\ lined[i][2] \in Nat /\ lined[i] = <<lined[i][1], lined[i][2]>>
    BY <2>1
  <2> QED BY <2>2, <2>3 DEF IsBar, Brain!Key
<1>5. IsTape(bars) /\ DOMAIN bars = 1 .. c
  <2>1. bars = [i \in 1 .. c |-> bars[i]]
    BY <1>3
  <2> QED BY <1>2, <1>4, <2>1, TapeOf
<1>6. Brain!Keys(bars) = keys
  <2>1. ASSUME NEW k PROVE k \in Brain!Keys(bars) <=> k \in keys
    BY <1>2, <1>4, <1>5, KeysAre
  <2> QED BY <2>1
<1> QED BY <1>4, <1>5, <1>6 DEF bars

(* The source's bars.                                                       *)
LEMMA SourceTape ==
  ASSUME closes \in Seq(Prices), closes # <<>> PROVE IsTape(Brain!SourceBars)
<1> DEFINE q == Brain!now \div SourceHour
           pair == {0, q - HistoryBars + 1}
           first == Brain!Max(pair)
           n == q - first + 1
<1>1. Brain!now \in Nat
  BY DEF Brain!now
<1>2. q \in Nat
  BY <1>1, BrainAssumption
<1> HIDE DEF q
<1>3. first \in Nat /\ n \in Nat
  <2>1. \E x \in pair : \A y \in pair : x >= y
    BY <1>2, BrainAssumption
  <2>2. first \in pair /\ first >= 0
    BY <2>1 DEF Brain!Max
  <2>3. first \in Int /\ first <= q + 1
    BY <1>2, <2>2, BrainAssumption
  <2> HIDE DEF first
  <2> QED BY <1>2, <2>2, <2>3
<1> DEFINE hourly(h) == Brain!Bar("1h", h * SourceHour,
                                  Brain!PriceAt(Brain!Min({h * SourceHour + SourceHour - 1, Brain!now})))
           bars == [i \in 1 .. n |-> hourly(first + i - 1)]
<1>4. Brain!SourceBars = bars
  BY DEF Brain!SourceBars, q
<1> HIDE DEF n, first
<1>5. ASSUME NEW i \in 1 .. n PROVE IsBar(bars[i])
  <2>1. first + i - 1 \in Nat
    BY <1>3
  <2>2. ASSUME NEW h \in Nat PROVE IsBar(hourly(h))
    <3>1. h * SourceHour \in Nat
      BY BrainAssumption
    <3> QED BY <3>1 DEF IsBar, Brain!Bar
  <2> HIDE DEF hourly
  <2> QED BY <2>1, <2>2
<1>6. bars = [i \in 1 .. n |-> bars[i]]
  OBVIOUS
<1> HIDE DEF bars
<1> QED BY <1>3, <1>4, <1>5, <1>6, TapeOf

(* What the next process will read is what this one acts on.                *)
BrainAgrees ==
  /\ Brain!Keys(view) = DOMAIN store \cup unsaved
  /\ \A k \in DOMAIN store \ unsaved : Brain!LastOfKey(view, k).close = store[k]

BrainType ==
  /\ closes \in Seq(Prices) /\ closes # <<>>
  /\ IsTape(view)
  /\ IsFiniteSet(DOMAIN store) /\ DOMAIN store \subseteq {"1h", "1m"} \X Nat

(* A brain that is not warmed is as the process began, or a seeding has     *)
(* failed between two rows: then it agrees with the table all the same.     *)
BrainInv ==
  /\ BrainType
  /\ warmed \/ (view = <<>> /\ unsaved = {}) \/ BrainAgrees
  /\ warmed /\ ~truncated => BrainAgrees

LEMMA EmptyTape == IsTape(<<>>) /\ Brain!Keys(<<>>) = {}
<1>1. \A k : k \notin Brain!Keys(<<>>)
  BY KeysAre
<1>2. <<>> \in Seq({})
  OBVIOUS
<1> QED BY <1>1, <1>2 DEF IsTape

(* When the rows all fit, warming reads every one of them.                  *)
LEMMA AllLoaded ==
  ASSUME BrainType, NEW keys \in SUBSET DOMAIN store, Brain!Oldest(keys),
         ~(Brain!Cardinality(DOMAIN store) > HistoryBars)
  PROVE  keys = DOMAIN store
<1> DEFINE c == Cardinality(DOMAIN store)
           pair == {HistoryBars, c}
<1>1. c \in Nat /\ c <= HistoryBars
  BY FS_CardinalityType, BrainCount, BrainAssumption DEF BrainType
<1>2. Cardinality(keys) = Brain!Min(pair)
  BY BrainCount DEF Brain!Oldest
<1>3. Brain!Min(pair) = c
  <2>1. c \in pair /\ \A x \in pair : c <= x
    BY <1>1, BrainAssumption
  <2>2. Brain!Min(pair) \in pair /\ \A x \in pair : Brain!Min(pair) <= x
    BY <2>1 DEF Brain!Min
  <2>3. \A x \in pair : x \in Nat
    BY <1>1, BrainAssumption
  <2> HIDE DEF pair, c
  <2> QED BY <2>1, <2>2, <2>3
<1> QED BY <1>2, <1>3, FS_Subset DEF BrainType

LEMMA WarmFromStoreKeeps ==
  ASSUME BrainInv, ~warmed, Brain!WarmFromStore, UNCHANGED closes
  PROVE  BrainInv'
<1>1. PICK keys \in SUBSET DOMAIN store :
        Brain!Oldest(keys) /\ view' = Brain!Merge(view, Brain!Loaded(keys))
  BY DEF Brain!WarmFromStore
<1>2. /\ truncated' = (truncated \/ Brain!Cardinality(DOMAIN store) > HistoryBars)
      /\ warmed' = TRUE /\ store' = store /\ unsaved' = unsaved
  BY DEF Brain!WarmFromStore
<1> DEFINE more == Brain!Loaded(keys)
<1>3. /\ IsTape(view) /\ IsTape(more) /\ Brain!Keys(more) = keys
      /\ \A j \in DOMAIN more : more[j].close = store[Brain!Key(more[j])]
  <2>1. keys \in SUBSET ({"1h", "1m"} \X Nat) /\ IsFiniteSet(keys)
    BY FS_Subset DEF BrainInv, BrainType
  <2> QED BY <2>1, LoadedBars DEF BrainInv, BrainType
<1>4. view' = Brain!Merge(view, more)
  BY <1>1
<1> HIDE DEF more
<1>5. /\ IsTape(view') /\ Brain!Keys(view') = Brain!Keys(view) \cup keys
      /\ \A k \in Brain!Keys(view) \cup keys :
           \/ k \in Brain!Keys(view) /\ Brain!LastOfKey(view', k) = Brain!LastOfKey(view, k)
           \/ \E j \in DOMAIN more : Brain!Key(more[j]) = k /\ Brain!LastOfKey(view', k) = more[j]
  BY <1>3, <1>4, MergeIs
<1>6. BrainType'
  BY <1>2, <1>5 DEF BrainInv, BrainType
<1>7. ASSUME ~truncated' PROVE BrainAgrees'
  <2>1. keys = DOMAIN store
    BY <1>1, <1>2, <1>7, AllLoaded DEF BrainInv
  <2>2. (view = <<>> /\ unsaved = {}) \/ BrainAgrees
    BY DEF BrainInv
  <2>3. Brain!Keys(view') = DOMAIN store \cup unsaved
    BY <1>5, <2>1, <2>2, EmptyTape DEF BrainAgrees
  <2>4. ASSUME NEW k \in DOMAIN store \ unsaved
        PROVE  Brain!LastOfKey(view', k).close = store[k]
    <3>1. CASE k \in Brain!Keys(view) /\ Brain!LastOfKey(view', k) = Brain!LastOfKey(view, k)
      BY <2>2, <3>1, EmptyTape DEF BrainAgrees
    <3>2. CASE \E j \in DOMAIN more : Brain!Key(more[j]) = k /\ Brain!LastOfKey(view', k) = more[j]
      BY <1>3, <3>2
    <3> QED BY <1>5, <2>1, <3>1, <3>2
  <2> QED BY <1>2, <2>3, <2>4 DEF BrainAgrees
<1> QED BY <1>2, <1>6, <1>7 DEF BrainInv

LEMMA SeedKeeps ==
  ASSUME BrainInv, Brain!Seed, UNCHANGED closes
  PROVE  BrainInv'
<1> DEFINE bars == Brain!Merge(view, Brain!SourceBars)
<1>1. IsTape(bars)
  BY SourceTape, MergeIs DEF BrainInv, BrainType
<1>2. PICK keys \in SUBSET Brain!Keys(bars) :
        /\ store' = Brain!Saved(bars, keys)
        /\ unsaved' = Brain!Keys(bars) \ keys
  BY DEF Brain!Seed
<1>3. DOMAIN store = {} /\ view' = bars
  BY DEF Brain!Seed
<1> HIDE DEF bars
<1>4. DOMAIN store' = keys /\ \A k \in keys : store'[k] = Brain!LastOfKey(bars, k).close
  BY <1>2, <1>3 DEF Brain!Saved
<1>5. BrainType'
  <2>1. IsFiniteSet(keys) /\ keys \subseteq {"1h", "1m"} \X Nat
    BY <1>1, KeysFinite, FS_Subset
  <2> QED BY <1>1, <1>3, <1>4, <2>1 DEF BrainInv, BrainType
<1>6. BrainAgrees'
  BY <1>2, <1>3, <1>4 DEF BrainAgrees
<1> QED BY <1>5, <1>6 DEF BrainInv

LEMMA WarmKeeps ==
  ASSUME BrainInv, Brain!WarmBrain
  PROVE  BrainInv'
<1> USE DEF Brain!WarmBrain, Brain!Warm
<1>1. CASE Brain!WarmFromStore
  BY <1>1, WarmFromStoreKeeps
<1>2. CASE Brain!Seed
  BY <1>2, SeedKeeps
<1>3. CASE Brain!NothingToSeed
  <2>1. UNCHANGED <<closes, view, store, unsaved, truncated>> /\ DOMAIN store = {}
    BY <1>3 DEF Brain!NothingToSeed
  <2>2. BrainAgrees
    BY <2>1, EmptyTape DEF BrainInv, BrainAgrees
  <2> QED BY <2>1, <2>2 DEF BrainInv, BrainType, BrainAgrees
<1>4. CASE Brain!WarmingRaises
  BY <1>4 DEF Brain!WarmingRaises, BrainInv, BrainType, BrainAgrees
<1> QED BY <1>1, <1>2, <1>3, <1>4

(* A tick of a later minute: the bar goes into the view, and into the table *)
(* or among those that are not saved.                                       *)
LEMMA HandleTickKeeps ==
  ASSUME BrainInv, Brain!HandleTick
  PROVE  BrainInv'
<1>1. PICK minute \in Nat : Brain!UpdateTick(minute)
  BY DEF Brain!HandleTick
<1>2. UNCHANGED <<closes, warmed, truncated>> /\ warmed
  BY DEF Brain!HandleTick
<1>3. CASE UNCHANGED <<view, store, unsaved>>
  BY <1>2, <1>3 DEF BrainInv, BrainType, BrainAgrees
<1>4. CASE ~UNCHANGED <<view, store, unsaved>>
  <2>1. PICK all : /\ view' = Append(view, Brain!CandleFromTicks(all, minute))
                   /\ LET bar == Brain!CandleFromTicks(all, minute)
                      IN \/ store' = Brain!Saved(<<bar>>, {Brain!Key(bar)}) /\ UNCHANGED unsaved
                         \/ unsaved' = unsaved \cup {Brain!Key(bar)} /\ UNCHANGED store
    BY <1>1, <1>4 DEF Brain!UpdateTick
  <2> DEFINE bar == Brain!CandleFromTicks(all, minute)
             key == Brain!Key(bar)
  <2>2. IsBar(bar)
    BY DEF Brain!CandleFromTicks, Brain!Bar, IsBar
  <2>3. /\ view' = Append(view, bar)
        /\ \/ store' = Brain!Saved(<<bar>>, {key}) /\ UNCHANGED unsaved
           \/ unsaved' = unsaved \cup {key} /\ UNCHANGED store
    BY <2>1
  <2>4. key \in {"1h", "1m"} \X Nat
    BY <2>2 DEF IsBar, Brain!Key
  <2>5. Brain!LastOfKey(<<bar>>, key) = bar
    BY <2>2, BarAlone
  <2> HIDE DEF bar, key
  <2>6. /\ IsTape(view')
        /\ Brain!Keys(view') = Brain!Keys(view) \cup {key}
        /\ Brain!LastOfKey(view', key) = bar
        /\ \A k \in Brain!Keys(view) \ {key} :
             Brain!LastOfKey(view', k) = Brain!LastOfKey(view, k)
    BY <2>2, <2>3, OneMore DEF key, BrainInv, BrainType
  <2>7. CASE store' = Brain!Saved(<<bar>>, {key}) /\ UNCHANGED unsaved
    <3>1. /\ DOMAIN store' = DOMAIN store \cup {key}
          /\ store'[key] = bar.close
          /\ \A k \in DOMAIN store \ {key} : store'[k] = store[k]
      BY <2>5, <2>7 DEF Brain!Saved
    <3>2. IsFiniteSet(DOMAIN store')
      BY <3>1, FS_AddElement DEF BrainInv, BrainType
    <3>3. BrainType'
      BY <1>2, <2>4, <2>6, <3>1, <3>2 DEF BrainInv, BrainType
    <3>4. ASSUME BrainAgrees PROVE BrainAgrees'
      BY <2>6, <2>7, <3>1, <3>4 DEF BrainAgrees
    <3> QED BY <1>2, <3>3, <3>4 DEF BrainInv
  <2>8. CASE unsaved' = unsaved \cup {key} /\ UNCHANGED store
    <3>1. BrainType'
      BY <1>2, <2>6, <2>8 DEF BrainInv, BrainType
    <3>2. ASSUME BrainAgrees PROVE BrainAgrees'
      BY <2>6, <2>8, <3>2 DEF BrainAgrees
    <3> QED BY <1>2, <3>1, <3>2 DEF BrainInv
  <2> QED BY <2>3, <2>7, <2>8
<1> QED BY <1>3, <1>4

LEMMA BrainInit == ASSUME Brain!Init PROVE BrainInv
<1>1. closes \in Seq(Prices) /\ closes # <<>>
  <2>1. closes \in [1 .. 1 -> Prices]
    BY DEF Brain!Init
  <2>2. \A n \in Nat : closes \in [1 .. n -> Prices] => closes \in Seq(Prices) /\ Len(closes) = n
    OBVIOUS
  <2>3. closes \in Seq(Prices) /\ Len(closes) = 1
    BY <2>1, <2>2
  <2>4. ASSUME closes = <<>> PROVE FALSE
    <3>1. Len(closes) = 0
      BY <2>4
    <3> QED BY <2>3, <3>1
  <2> QED BY <2>3, <2>4
<1>2. DOMAIN store = {} /\ IsFiniteSet({})
  BY FS_EmptySet DEF Brain!Init
<1> QED BY <1>1, <1>2, EmptyTape DEF Brain!Init, BrainInv, BrainType

LEMMA BrainStep == ASSUME BrainInv, [Brain!Next]_Brain!vars PROVE BrainInv'
<1>1. CASE Brain!MinutePasses
  <2>1. closes' \in Seq(Prices) /\ closes' # <<>>
    BY <1>1 DEF Brain!MinutePasses, BrainInv, BrainType
  <2> QED BY <1>1, <2>1 DEF Brain!MinutePasses, BrainInv, BrainType, BrainAgrees
<1>2. CASE Brain!WarmBrain
  BY <1>2, WarmKeeps
<1>3. CASE Brain!HandleTick
  BY <1>3, HandleTickKeeps
<1>4. CASE Brain!Gate
  BY <1>4 DEF Brain!Gate, BrainInv, BrainType, BrainAgrees
<1>5. CASE Brain!Crash
  BY <1>5, EmptyTape DEF Brain!Crash, BrainInv, BrainType
<1>6. CASE UNCHANGED Brain!vars
  BY <1>6 DEF Brain!vars, BrainInv, BrainType, BrainAgrees
<1> QED BY <1>1, <1>2, <1>3, <1>4, <1>5, <1>6 DEF Brain!Next

(* RestartIsInvisible, for every number of bars asked for, of ticks kept,   *)
(* of failures and of crashes: a warmed brain holds the bars that are       *)
(* stored, at their last price, save those whose write failed and unless    *)
(* the store has outgrown one warming (market_brain_service.py).            *)
THEOREM RestartsAreInvisible == BrainSpec => []RestartIsInvisible
<1>1. Brain!Init => BrainInv
  BY BrainInit
<1>2. BrainInv /\ [Brain!Next]_Brain!vars => BrainInv'
  BY BrainStep
<1>3. BrainInv => RestartIsInvisible
  BY DEF BrainInv, BrainAgrees, RestartIsInvisible, Brain!RestartIsInvisible
<1> QED BY <1>1, <1>2, <1>3, PTL DEF BrainSpec, Brain!Spec

=============================================================================
