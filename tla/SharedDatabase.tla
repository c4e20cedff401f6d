-------------------------- MODULE SharedDatabase --------------------------
(***************************************************************************)
(* One database connection and everything that shares it.                  *)
(*                                                                         *)
(* The factory opens one connection for a process and hands it to every    *)
(* repository, to the audit, metrics, health and manifest services and to  *)
(* the accounts (application/factory.py).  The API's worker threads and    *)
(* the trading loop call them at the same time.  A call is a few           *)
(* statements and a commit, and only a statement is protected from the     *)
(* others: the transaction belongs to the connection, so a commit commits  *)
(* what every thread has pending, and so does an error end it for all.     *)
(* Another process (the command line, a second instance) has a connection  *)
(* of its own.                                                             *)
(*                                                                         *)
(* A row is known by the number of the call that last wrote it, 0 when     *)
(* there is none and 1 when it was there from the start.                   *)
(***************************************************************************)
EXTENDS Naturals, Sequences, FiniteSets

CONSTANTS Threads,   \* threads that call
          Home,      \* the process of a thread
          Backends,  \* of "sqlite", "postgres"
          Mixes,     \* sets of calls: a behaviour makes the calls of one of them
          MaxCalls,  \* bound on the number of calls
          MaxCrashes \* bound on the crashes of a process

Procs == {Home[t] : t \in Threads}
ASSUME HomeAssumption == DOMAIN Home = Threads /\ MaxCalls \in Nat \ {0, 1}

VARIABLES backend,   \* the database
          mix,       \* the calls of this behaviour
          stored,    \* what is committed
          conn,      \* each process's connection
          job,       \* what each thread is doing
          calls,     \* the calls made so far, by number
          aged,      \* calls up to this one are too old: expired, or to be purged
          serial,    \* entries appended to the audit log so far
          crashes,   \* crashes so far
          acked,     \* writes whose caller was told that they are done
          cut,       \* calls under way when the server refused another thread
          lockedOut, \* processes one of whose writes found the database locked
          behind,    \* calls that looked for the last entry of the log in an old snapshot
          together,  \* pairs of calls that touched the same and were under way at once
          gone,      \* credentials whose revocation was acknowledged
          admitted   \* processes that let somebody in with one after that

vars == <<backend, mix, stored, conn, job, calls, aged, serial, crashes,
          acked, cut, lockedOut, behind, together, gone, admitted>>
ghosts == <<acked, cut, lockedOut, behind, together, gone, admitted>>

Keys == {"row", "user", "session", "key"}
Credentials == {"session", "key"}

-----------------------------------------------------------------------------
(* The calls.  A call may look something up, write one thing and commit.    *)

\* A lookup inside "with conn" ends the transaction on PostgreSQL, a bare one
\* leaves it open.  What is written is a row, or an entry that is appended.
Looks(at)    == [look |-> at, bare |-> FALSE, do |-> "nothing", at |-> at]
Reads(at)    == [look |-> at, bare |-> TRUE,  do |-> "nothing", at |-> at]
Does(do, at) == [look |-> "nothing", bare |-> FALSE, do |-> do, at |-> at]
LooksThen(do, at) == [Looks(at) EXCEPT !.do = do]

RepositoryCalls ==
  [get |-> Looks("row"), add |-> Does("insert", "row"), update |-> Does("update", "row"),
   delete |-> Does("delete", "row")]
AuditCalls == [record |-> [Reads("log") EXCEPT !.do = "append"]]
MetricsCalls == [gauge |-> Does("append", "samples"), query |-> Reads("samples")]
HealthCalls == [report |-> Does("append", "samples"), history |-> Reads("samples")]
ManifestCalls == [record_run |-> Does("append", "samples"), get_runs |-> Reads("samples")]
ArchiveCalls == [purge |-> Does("purge", "log")]
UserCalls ==
  [create_user |-> LooksThen("insert", "user"), authenticate |-> Looks("user")]
SessionCalls ==
  [create_session |-> Does("insert", "session"), validate_session |-> LooksThen("delete", "session"),
   revoke_session |-> LooksThen("delete", "session")]
ApiKeyCalls ==
  [issue_api_key |-> Does("insert", "key"), validate_api_key |-> Looks("key"),
   revoke_api_key |-> Does("update", "key")]
Services == {RepositoryCalls, AuditCalls, MetricsCalls, HealthCalls, ManifestCalls,
             ArchiveCalls, UserCalls, SessionCalls, ApiKeyCalls}
Known == [op \in UNION {DOMAIN service : service \in Services} |->
            (CHOOSE service \in Services : op \in DOMAIN service)[op]]
ASSUME CallAssumption ==
  Backends \subseteq {"sqlite", "postgres"} /\ \A calling \in Mixes : calling \subseteq DOMAIN Known

Idle == [op |-> "none", n |-> 0, step |-> "idle", seen |-> 0, gone |-> FALSE]
Busy(t) == job[t].step # "idle"
Away(t) == {u \in Threads : u # t /\ Busy(u)}

\* The order of the audit log is that of its insertions.
Entry(n, previous) == [id |-> n, previous_hash |-> previous, seq |-> serial + 1]
\* Mutant: the last entry is looked up in ascending order.
FirstOf(log) == IF log = {} THEN 0 ELSE (CHOOSE e \in log : \A f \in log : e.seq <= f.seq).id
LastOf(log) == IF log = {} THEN 0 ELSE (CHOOSE e \in log : \A f \in log : f.seq <= e.seq).id

\* verify_chain: each entry names the one before it.
ChainHolds(log) ==
  \A e \in log : LET before == {f \in log : f.seq < e.seq}
                 IN  before = {} \/ e.previous_hash = LastOf(before)

-----------------------------------------------------------------------------
(* Connections. *)

\* "none", or a transaction: SQLite's has "began" without having read, is
\* "reading" a snapshot or "writing"; PostgreSQL's is "open" or "aborted".
Closed == [txn |-> "none", writes |-> <<>>, snap |-> {}, stale |-> FALSE]

Applied(w, s) ==
  CASE w.do \in {"insert", "update"} ->
         IF w.do = "update" /\ s.rows[w.at] = 0 THEN s ELSE [s EXCEPT !.rows[w.at] = w.val]
    [] w.do = "delete" -> [s EXCEPT !.rows[w.at] = 0]
    [] w.do = "append" /\ w.at = "samples" -> [s EXCEPT !.samples = @ \cup {w.val}]
    [] w.do = "append" /\ w.at = "log" -> [s EXCEPT !.log = @ \cup {w.val}]
    [] w.do = "purge" -> [s EXCEPT !.log = {e \in @ : e.id > w.val},
                                   !.samples = {n \in @ : n > w.val}]
WithWrites(s, ws) ==
  LET after[i \in 0..Len(ws)] == IF i = 0 THEN s ELSE Applied(ws[i], after[i - 1])
  IN  after[Len(ws)]

\* What a statement on the connection of p sees.
View(p) ==
  IF conn[p].txn = "reading" THEN conn[p].snap ELSE WithWrites(stored, conn[p].writes)

Others(p) == Procs \ {p}

\* A commit of p: its pending writes are stored, and other processes' open
\* snapshots grow old.
Committed(p) ==
  /\ stored' = WithWrites(stored, conn[p].writes)
  /\ conn' = [q \in Procs |->
                IF q = p THEN Closed
                ELSE IF conn[q].txn = "reading" /\ conn[p].writes # <<>>
                     THEN [conn[q] EXCEPT !.stale = TRUE] ELSE conn[q]]
RolledBack(p) == conn' = [conn EXCEPT ![p] = Closed] /\ UNCHANGED stored

\* SELECT.  In a transaction that began and read nothing yet, SQLite's takes a
\* snapshot that lasts until the transaction ends; PostgreSQL's begins one.
Selects(p) ==
  /\ UNCHANGED stored
  /\ \/ backend = "postgres" /\ conn' = [conn EXCEPT ![p].txn = "open"]
     \/ /\ backend = "sqlite" /\ conn[p].txn = "began"
        /\ conn' = [conn EXCEPT ![p].txn = "reading", ![p].snap = stored]
     \/ backend = "sqlite" /\ conn[p].txn # "began" /\ UNCHANGED conn

\* INSERT of a key that is there, UPDATE or DELETE of one that is not.
Clashes(p, w) == w.do = "insert" /\ View(p).rows[w.at] # 0
Misses(p, w) == w.do \in {"update", "delete"} /\ View(p).rows[w.at] = 0

\* SQLite has one writer at a time, and none from an old snapshot.
Locked(p) ==
  \/ \E q \in Others(p) : conn[q].txn = "writing"
  \/ conn[p].txn = "reading" /\ conn[p].stale

\* PostgreSQL makes a writer wait for the row another transaction has written.
RowLocked(p, w) ==
  \E q \in Others(p) : \E i \in DOMAIN conn[q].writes :
    LET theirs == conn[q].writes[i]
    IN  /\ w.at \in Keys /\ theirs.at = w.at
        /\ stored.rows[w.at] # 0 \/ (w.do = "insert" /\ theirs.do = "insert")

-----------------------------------------------------------------------------
(* The course of a call. *)

Init ==
  /\ backend \in Backends /\ mix \in Mixes
  /\ \E rows \in {[k \in Keys |-> 0], [k \in Keys |-> 1]} :
       stored = [rows |-> rows, samples |-> {},
                    log |-> {[id |-> 1, previous_hash |-> 0, seq |-> 0]}]
  /\ conn = [p \in Procs |-> Closed]
  /\ job = [t \in Threads |-> Idle]
  /\ calls = <<"history">>
  /\ aged = 0 /\ serial = 0 /\ crashes = 0
  /\ acked = {} /\ cut = {} /\ lockedOut = {} /\ behind = {} /\ together = {} /\ gone = {} /\ admitted = {}

\* A session is for a user that authenticated, a key for one that exists; the
\* purge is part of opening the connection.
MayCall(t, op) ==
  /\ op \in {"create_session", "issue_api_key"} => View(Home[t]).rows["user"] # 0
  /\ op = "purge" => conn[Home[t]] = Closed /\ \A u \in Away(t) : Home[u] # Home[t]
  /\ \A u \in Away(t) : Home[u] = Home[t] => job[u].op # "purge"
\* Tokens, keys and identities are drawn at random: a fresh one never clashes.
Fresh == {"create_session", "issue_api_key"}
Validations == {"validate_session", "validate_api_key"}
Revocations == {"revoke_session", "revoke_api_key"}
Issued(at, n) == \E m \in DOMAIN calls :
  /\ {m, n} \in together
  /\ calls[m] \in Fresh /\ Known[calls[m]].at = at

\* Calls that touch the same thing.
Recorders == {"record", "create_user", "authenticate"}
Related(op, other) ==
  \/ op \in Recorders /\ other \in Recorders
  \/ Known[op].at = Known[other].at /\ "nothing" \notin {Known[op].do, Known[other].do}

\* The call of t goes on, or it returns to its caller and answers out.
Goes(t, j) == job' = [job EXCEPT ![t] = j] /\ UNCHANGED <<acked, gone, admitted>>
Ends(t, out) ==
  LET op == job[t].op
      n  == job[t].n
  IN  /\ job' = [job EXCEPT ![t] = Idle]
      /\ acked' = IF out = "ok" THEN acked \cup {n} ELSE acked
      /\ gone' = IF out = "ok" /\ op \in Revocations /\ ~Issued(Known[op].at, n)
                 THEN gone \cup {Known[op].at} ELSE gone
      /\ admitted' = IF out = "user" /\ job[t].gone THEN admitted \cup {Home[t]} ELSE admitted

Call(t, op) ==
  LET n == Len(calls) + 1
  IN  /\ ~Busy(t) /\ n <= MaxCalls /\ MayCall(t, op)
      /\ op \in Fresh => \A s \in {stored} \cup {View(p) : p \in Procs} : s.rows[Known[op].at] = 0
      /\ calls' = Append(calls, op)
      /\ job' = [u \in Threads |-> IF u # t THEN [job[u] EXCEPT !.gone = @ /\ op \notin Fresh] ELSE
           [op |-> op, n |-> n, seen |-> 0,
            step |-> IF Known[op].look = "nothing" THEN "write" ELSE "look",
            gone |-> op \in Validations /\ Known[op].at \in gone]]
      /\ together' = together \cup {{n, job[u].n} : u \in {u \in Away(t) : Related(op, calls[job[u].n])}}
      /\ gone' = IF op \in Fresh THEN gone \ {Known[op].at} ELSE gone
      /\ UNCHANGED <<backend, mix, stored, conn, aged, serial, crashes, acked, cut, lockedOut, behind, admitted>>

Seen(v, at) == CASE at = "log" -> LastOf(v.log) [] at = "samples" -> 0 [] OTHER -> v.rows[at]
LooksAt(t) == IF job[t].step = "look_user" THEN "user" ELSE Known[job[t].op].look
IsBare(t) == Known[job[t].op].bare

Expired(n) == n <= aged
\* Mutant: the revoked flag of a key is not looked at.
NeverRevoked(n) == FALSE
Revoked(n) == calls[n] = "revoke_api_key"

\* How a call goes on from what its lookup saw.
After(t, seen) ==
  LET op   == job[t].op
      next(step) == Goes(t, [job[t] EXCEPT !.step = step, !.seen = seen])
  IN  IF job[t].step \in {"look_user", "leave_user"}
      THEN Ends(t, IF seen = 0 THEN "nobody" ELSE "user")
      ELSE CASE op \in {"get", "query", "history", "get_runs"} -> Ends(t, "answer")
             [] op = "record"           -> next("write")
             [] op = "create_user"      -> IF seen = 0 THEN next("write") ELSE Ends(t, "taken")
             [] op = "authenticate"     ->
                  IF seen = 0 THEN Ends(t, "nobody")
                  ELSE Goes(t, [job[t] EXCEPT !.op = "record", !.step = "look"])
             [] op = "revoke_session"   -> IF seen = 0 THEN Ends(t, "nothing") ELSE next("write")
             [] op = "validate_session" ->
                  IF seen = 0 THEN Ends(t, "nobody")
                  ELSE next(IF Expired(seen) THEN "write" ELSE "look_user")
             [] op = "validate_api_key" ->
                  IF seen = 0 \/ Revoked(seen) THEN Ends(t, "nobody") ELSE next("look_user")

\* A lookup.  After an error on the connection PostgreSQL answers nothing but
\* another one; leaving "with conn" by the exception rolls back.
Look(t) ==
  LET p    == Home[t]
      seen == Seen(View(p), LooksAt(t))
  IN  /\ job[t].step \in {"look", "look_user"}
      /\ IF conn[p].txn = "aborted"
         THEN /\ Ends(t, "raised")
              /\ IF IsBare(t) THEN UNCHANGED <<stored, conn>> ELSE RolledBack(p)
         ELSE /\ Selects(p)
              /\ IF backend = "sqlite" \/ IsBare(t) THEN After(t, seen)
                 ELSE Goes(t, [job[t] EXCEPT !.seen = seen,
                                !.step = IF @ = "look" THEN "leave" ELSE "leave_user"])
      /\ behind' = IF job[t].op = "record" /\ conn[p].txn = "reading" /\ conn[p].stale
                   THEN behind \cup {job[t].n} ELSE behind
      /\ UNCHANGED <<backend, mix, calls, aged, serial, crashes, cut, lockedOut, together>>

\* Mutant: what ends a lookup is a rollback.
LeaveByRollback(t) ==
  /\ job[t].step \in {"leave", "leave_user"}
  /\ After(t, job[t].seen)
  /\ RolledBack(Home[t])
  /\ UNCHANGED <<backend, mix, calls, aged, serial, crashes, cut, lockedOut, behind, together>>

\* Leaving "with conn" commits, for whoever has something pending.  A
\* transaction that another thread's error ended meanwhile is rolled back.
Leave(t) ==
  LET p == Home[t]
  IN  /\ job[t].step \in {"leave", "leave_user"}
      /\ After(t, job[t].seen)
      /\ IF conn[p].txn = "aborted" THEN RolledBack(p) ELSE Committed(p)
      /\ UNCHANGED <<backend, mix, calls, aged, serial, crashes, cut, lockedOut, behind, together>>

Statement(t) ==
  LET w == Known[job[t].op]
  IN  [do |-> w.do, at |-> w.at,
       val |-> CASE w.at = "log" /\ w.do = "append" -> Entry(job[t].n, job[t].seen)
                 [] w.do = "purge" -> aged
                 [] OTHER -> job[t].n]

\* The purge passes over an error of its statement.
Fails(t) ==
  IF job[t].op = "purge" THEN Goes(t, [job[t] EXCEPT !.step = "settle"]) ELSE Ends(t, "raised")

\* A write on SQLite.  An implicit BEGIN comes first and stays after an error:
\* a refused one holds the write lock, a locked out one has yet to read.
WriteSQLite(t) ==
  LET p == Home[t]
      w == Statement(t)
      writing(ws) == [Closed EXCEPT !.txn = "writing", !.writes = ws]
  IN  /\ backend = "sqlite"
      /\ \/ /\ Locked(p)
            /\ conn' = [conn EXCEPT ![p].txn = IF @ = "none" THEN "began" ELSE @]
            /\ lockedOut' = lockedOut \cup {p}
            /\ Fails(t)
            /\ UNCHANGED serial
         \/ /\ ~Locked(p) /\ Clashes(p, w)
            /\ conn' = [conn EXCEPT ![p] = writing(@.writes)]
            /\ Fails(t)
            /\ UNCHANGED <<serial, lockedOut>>
         \/ /\ ~Locked(p) /\ ~Clashes(p, w)
            /\ conn' = [conn EXCEPT ![p] = writing(Append(@.writes, w))]
            /\ serial' = IF w.at = "log" THEN serial + 1 ELSE serial
            /\ Goes(t, [job[t] EXCEPT !.step = "commit"])
            /\ UNCHANGED lockedOut
      /\ UNCHANGED cut

\* A write on PostgreSQL.  A refused one ends the transaction of the whole
\* connection, and with it what other threads have pending.  One that finds no
\* row finds none later either, when another process has stored it.
WritePostgres(t) ==
  LET p == Home[t]
      w == Statement(t)
  IN  /\ backend = "postgres"
      /\ \/ /\ conn[p].txn = "aborted"
            /\ Fails(t)
            /\ UNCHANGED <<conn, serial, cut>>
         \/ /\ conn[p].txn # "aborted" /\ ~RowLocked(p, w) /\ Clashes(p, w)
            /\ conn' = [conn EXCEPT ![p] = [Closed EXCEPT !.txn = "aborted"]]
            /\ cut' = cut \cup {job[u].n : u \in {u \in Away(t) : Home[u] = p}}
            /\ Fails(t)
            /\ UNCHANGED serial
         \/ /\ conn[p].txn # "aborted" /\ ~RowLocked(p, w) /\ ~Clashes(p, w)
            /\ conn' = [conn EXCEPT ![p].txn = "open",
                             ![p].writes = IF Misses(p, w) THEN @ ELSE Append(@, w)]
            /\ serial' = IF w.at = "log" THEN serial + 1 ELSE serial
            /\ Goes(t, [job[t] EXCEPT !.step = "commit"])
            /\ UNCHANGED cut
      /\ UNCHANGED lockedOut

Write(t) ==
  /\ job[t].step = "write"
  /\ WriteSQLite(t) \/ WritePostgres(t)
  /\ UNCHANGED <<backend, mix, stored, calls, aged, crashes, behind, together>>

\* commit().  PostgreSQL answers the commit of an aborted transaction with a
\* rollback, which the driver does not report.  The purge commits only what it
\* counted; the repositories built after it commit in any case.
Commit(t) ==
  LET p == Home[t]
      counted == \/ \E e \in stored.log : e.id <= aged
                 \/ \E n \in stored.samples : n <= aged
  IN  /\ job[t].step \in {"commit", "settle"}
      /\ IF job[t].op = "purge" /\ job[t].step = "commit" /\ ~counted
         THEN UNCHANGED <<stored, conn>>
         ELSE IF conn[p].txn = "aborted" THEN RolledBack(p) ELSE Committed(p)
      /\ CASE job[t].op = "purge" /\ job[t].step = "commit" ->
                Goes(t, [job[t] EXCEPT !.step = "settle"])
           [] job[t].op = "create_user" ->
                Goes(t, [job[t] EXCEPT !.op = "record", !.step = "look", !.seen = 0])
           [] job[t].op = "validate_session" -> Ends(t, "nobody")
           [] OTHER -> Ends(t, "ok")
      /\ UNCHANGED <<backend, mix, calls, aged, serial, crashes, cut, lockedOut, behind, together>>

\* Time passes: what was written so far is past its time (for the purge and for
\* sessions).
Age ==
  /\ aged < Len(calls) /\ mix \cap {"purge", "validate_session"} # {}
  /\ aged' = Len(calls)
  /\ UNCHANGED <<backend, mix, stored, conn, job, calls, serial, crashes, ghosts>>

\* A process dies with what it has pending, and starts again.
Crash(p) ==
  /\ crashes < MaxCrashes /\ (conn[p] # Closed \/ \E t \in Threads : Home[t] = p /\ Busy(t))
  /\ crashes' = crashes + 1
  /\ conn' = [conn EXCEPT ![p] = Closed]
  /\ job' = [t \in Threads |-> IF Home[t] = p THEN Idle ELSE job[t]]
  /\ lockedOut' = lockedOut \ {p} /\ admitted' = admitted \ {p}
  /\ UNCHANGED <<backend, mix, stored, calls, aged, serial, acked, cut, behind, together, gone>>

Next ==
  \/ \E t \in Threads :
       \/ \E op \in mix : Call(t, op)
       \/ Look(t) \/ Leave(t) \/ Write(t) \/ Commit(t)
  \/ Age
  \/ \E p \in Procs : Crash(p)
Spec == Init /\ [][Next]_vars

-----------------------------------------------------------------------------
(* What the callers rely on. *)

TypeOK ==
  /\ backend \in Backends
  /\ stored.rows \in [Keys -> 0..MaxCalls] /\ stored.samples \subseteq 1..MaxCalls
  /\ \A p \in Procs : conn[p].txn \in IF backend = "sqlite"
                                      THEN {"none", "began", "reading", "writing"}
                                      ELSE {"none", "open", "aborted"}
  /\ acked \cup cut \subseteq 1..MaxCalls /\ aged \in 0..MaxCalls

InOrderOrTogether(n, m) == n < m \/ {n, m} \in together

\* What call n wrote is stored, or another call has written over it since.
Entered(n) == n <= aged \/ \E e \in stored.log : e.id = n
Stands(n, w) ==
  LET v == stored.rows[w.at]
  IN  \/ v = n
      \/ v # 0 /\ InOrderOrTogether(n, v)
      \/ /\ v = 0
         /\ \/ w.do \in {"delete", "update"}
            \/ \E m \in 2..Len(calls) : /\ Known[calls[m]].at = w.at
                                       /\ Known[calls[m]].do = "delete"
                                       /\ InOrderOrTogether(n, m)
Kept(n) ==
  LET op == calls[n]
  IN  /\ op \in Recorders => Entered(n)
      /\ Known[op].at = "samples" => n <= aged \/ n \in stored.samples
      /\ Known[op].at \in Keys /\ Known[op].do # "nothing" => Stands(n, Known[op])

\* A write that was acknowledged is stored, over every crash and whatever the
\* other threads and processes do: on SQLite always (a failing statement leaves
\* the transaction of the connection alone), on PostgreSQL unless a statement of
\* another thread on the same connection was refused while the call was under
\* way.  Then the server has ended the transaction of both, and the commit that
\* follows rolls back without telling (connection.py cursor(), base.add).
AcknowledgedIsStored ==
  \A n \in acked : Kept(n) \/ (backend = "postgres" /\ n \in cut)

\* The audit chain that verify_chain() walks breaks only if two entries were
\* written at the same time, each after reading the same last entry, or if the
\* last entry was looked for in an old snapshot, which ended before the write
\* (SQLite): entries written one after the other, by whichever thread or process,
\* hold together over crashes, aborted transactions, locks and the purge
\* (SQLiteAuditService.record).
ChainBrokenOnlyByOverlap ==
  \/ ChainHolds(stored.log)
  \/ \E n, m \in DOMAIN calls :
       n # m /\ {n, m} \in together /\ calls[n] \in Recorders /\ calls[m] \in Recorders
  \/ behind # {}

\* After a logout or a revocation was acknowledged, nobody gets in with the
\* session or the key any more, unless the revocation shared the fate of
\* another thread's refused statement (PostgreSQL) or the process that
\* validates was locked out of the database earlier and reads an old snapshot
\* since (SQLite) (account_service.validate_session, validate_api_key).
RevokedStaysOut ==
  \A p \in admitted :
    IF backend = "sqlite" THEN p \in lockedOut
    ELSE \E n \in cut : calls[n] \in Revocations

=============================================================================
