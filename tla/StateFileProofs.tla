--------------------------- MODULE StateFileProofs ---------------------------
(***************************************************************************)
(* For any jobs, dependencies, beats and failing saves: the state file     *)
(* never goes back, and after a run whose saves were done it holds the     *)
(* final table and no heartbeat.                                           *)
(***************************************************************************)
EXTENDS StateFile, TLAPS

\* The threads that are inside a save, with the lock.
Snapshotting == {"read", "write"}
InSave == {"lock", "read", "write"}

\* The save lock excludes: its holder, and nobody else, takes or writes a snapshot.
Exclusive == \A t \in Threads : step[t] \in Snapshotting <=> saving = t

\* Where each thread can be, and where it goes after a save.
Places ==
  /\ \A j \in Jobs : /\ step[j] \in {"none", "begin", "work", "skip", "finish"} \cup InSave
                     /\ step[j] \in InSave => after[j] \in {<<"work", "skip">>, <<"none", "none">>}
  /\ step[Heart] \in {"wait"} \cup InSave
  /\ step[Heart] \in InSave => after[Heart] = <<"wait", "wait">>
  /\ step[Main] \in {"scan", "pool", "tick", "skip", "crash", "leave", "join", "ended"} \cup InSave
  /\ step[Main] \in InSave =>
       after[Main] \in {<<"tick", "crash">>, <<"leave", "leave">>, <<"ended", "ended">>}

\* The main thread waits as long as a pipeline runs.
OneSide == (\E j \in Jobs : step[j] # "none") => step[Main] = "pool"

\* A job whose pipeline is about to begin is pending and cannot be skipped: what it
\* depends on completed, and no thread skips the dependents of a completed job.
Startable ==
  /\ \A j \in Jobs : step[j] = "begin" =>
       mem[j] = "pending" /\ \A d \in Deps[j] : mem[d] = "completed"
  /\ \A j \in Jobs : step[j] \notin {"none", "begin"} =>
       \A k \in blocked[j] : mem[k] # "completed"
  /\ step[Main] = "skip" => \A k \in blocked[Main] : mem[k] # "completed"

\* A snapshot lies between the file and the memory, as far as it has got.
Between ==
  /\ \A j \in Jobs : Rank(file.jobs[j]) <= Rank(mem[j])
  /\ \A t \in Threads : step[t] \in Snapshotting =>
       /\ \A j \in Jobs : j < row[t] => /\ Rank(file.jobs[j]) <= Rank(seen[t].jobs[j])
                                        /\ Rank(seen[t].jobs[j]) <= Rank(mem[j])
       /\ step[t] = "write" => row[t] = NJobs + 1

\* Nothing changes under a save of the main thread except by the heartbeat, which is
\* told to stop before the last one.
LastSave ==
  /\ step[Main] \in Snapshotting =>
       \A j \in Jobs : j < row[Main] => seen[Main].jobs[j] = mem[j]
  /\ step[Main] = "join" => stop
  /\ step[Main] \in InSave /\ after[Main] = <<"ended", "ended">> =>
       /\ stop /\ ~owned
       /\ step[Main] = "write" => ~seen[Main].owned

Inv  == Exclusive /\ Places /\ OneSide /\ Startable /\ Between /\ LastSave /\ FinalFileIsTrue
IInv == TypeOK /\ Inv

-----------------------------------------------------------------------------

\* The threads are different from one another.
LEMMA ThreadFacts ==
  /\ Main \in Threads /\ Heart \in Threads /\ Jobs \subseteq Threads
  /\ Main \notin Jobs /\ Heart \notin Jobs /\ Main # Heart
  /\ \A t \in Threads : t \in Jobs \/ t = Main \/ t = Heart
  /\ NoThread \notin Threads
  /\ NJobs \in Nat /\ Jobs \subseteq Int
BY StateFileAssumption DEF Main, Heart, Threads, Jobs

\* Ranks are numbers, and what assignments do to them.
LEMMA RankFacts ==
  /\ \A s \in Statuses : Rank(s) \in 0 .. 2
  /\ Rank("pending") = 0 /\ Rank("running") = 1 /\ Rank("completed") = 2
  /\ Rank("failed") = 2 /\ Rank("skipped") = 2
BY DEF Rank, Statuses

\* Two tables with the same entries are the same.
LEMMA SameTable ==
  ASSUME NEW f \in [Jobs -> Statuses], NEW g \in [Jobs -> Statuses],
         \A j \in Jobs : f[j] = g[j]
  PROVE  f = g
OBVIOUS

\* The invariant in the initial state.
LEMMA InitInv == Init => IInv
<1> SUFFICES ASSUME Init PROVE IInv OBVIOUS
<1> USE StateFileAssumption, ThreadFacts
<1>1. mem = [j \in Jobs |-> "pending"] /\ owned = TRUE
      /\ file = [jobs |-> mem, owned |-> TRUE] /\ saving = NoThread
  BY DEF Init
<1>2. \A t \in Threads : step[t] = IF t = Main THEN "scan"
                                   ELSE IF t = Heart THEN "wait" ELSE "none"
  BY DEF Init
<1>3. file \in Snapshot /\ file.jobs = mem /\ mem \in [Jobs -> Statuses]
  BY <1>1 DEF Snapshot, Statuses
<1>4. 1 \in 1 .. NJobs + 1 OBVIOUS
<1>5. TypeOK BY <1>1, <1>3, <1>4 DEF Init, TypeOK, Steps
<1>6. \A j \in Jobs : step[j] = "none" BY <1>2
<1>7. step[Main] = "scan" /\ step[Heart] = "wait" BY <1>2
<1>8. Exclusive BY <1>1, <1>2 DEF Exclusive, Snapshotting
<1>9. Places /\ OneSide /\ Startable /\ LastSave /\ FinalFileIsTrue
  BY <1>6, <1>7 DEF Places, OneSide, Startable, LastSave, FinalFileIsTrue, InSave, Snapshotting
<1>10. Between
  BY <1>2, <1>3, RankFacts DEF Between, Snapshotting
<1> QED BY <1>5, <1>8, <1>9, <1>10 DEF IInv, Inv

\* What a step of a save makes of a snapshot.
LEMMA SnapshotRead ==
  ASSUME NEW s \in Snapshot, NEW j \in Jobs, NEW x \in Statuses
  PROVE  /\ [s EXCEPT !.jobs[j] = x] = [jobs |-> [s.jobs EXCEPT ![j] = x], owned |-> s.owned]
         /\ [s EXCEPT !.jobs[j] = x] \in Snapshot
BY DEF Snapshot

LEMMA SnapshotRest ==
  ASSUME NEW s \in Snapshot, NEW b \in BOOLEAN
  PROVE  /\ [s EXCEPT !.owned = b] = [jobs |-> s.jobs, owned |-> b]
         /\ [s EXCEPT !.owned = b] \in Snapshot
BY DEF Snapshot

\* Every step keeps the types.
LEMMA TypeStep == TypeOK /\ [Next]_vars => TypeOK'
<1> SUFFICES ASSUME TypeOK, [Next]_vars PROVE TypeOK' OBVIOUS
<1> USE StateFileAssumption, ThreadFacts DEF TypeOK
<1> USE DEF Steps
<1>1. ASSUME NEW t \in Threads, SaveStep(t) PROVE TypeOK'
  <2>1. CASE LockSave(t)
    <3>1. 1 \in 1 .. NJobs + 1 OBVIOUS
    <3> QED BY <2>1, <3>1 DEF LockSave, GoTo, table
  <2>2. CASE ReadRow(t)
    <3>1. row[t] \in Jobs /\ row[t] + 1 \in 1 .. NJobs + 1 BY <2>2 DEF ReadRow, Jobs
    <3>2. seen[t] \in Snapshot /\ mem[row[t]] \in Statuses BY <3>1
    <3>3. [seen[t] EXCEPT !.jobs[row[t]] = mem[row[t]]] \in Snapshot BY <3>1, <3>2, SnapshotRead
    <3>4. PICK r \in Snapshot : r = [seen[t] EXCEPT !.jobs[row[t]] = mem[row[t]]] BY <3>3
    <3>5. seen' = [seen EXCEPT ![t] = r]
      BY <2>2, <3>4 DEF ReadRow
    <3>6. seen' \in [Threads -> Snapshot] BY <3>5
    <3>7. row' \in [Threads -> 1 .. NJobs + 1] BY <2>2, <3>1 DEF ReadRow
    <3> QED BY <2>2, <3>6, <3>7 DEF ReadRow, table
  <2>3. CASE ReadRest(t)
    <3>1. [seen[t] EXCEPT !.owned = owned] \in Snapshot
      BY SnapshotRest
    <3>2. seen' = [seen EXCEPT ![t] = [seen[t] EXCEPT !.owned = owned]]
      BY <2>3 DEF ReadRest
    <3> QED BY <2>3, <3>1, <3>2 DEF ReadRest, GoTo, table
  <2>4. CASE WriteFile(t)
    BY <2>4 DEF WriteFile, GoTo, table
  <2>5. CASE WriteFails(t)
    BY <2>5 DEF WriteFails, GoTo, table
  <2> QED BY <1>1, <2>1, <2>2, <2>3, <2>4, <2>5 DEF SaveStep
<1>2. ASSUME NEW t \in Jobs \cup {Main}, Propagate(t) PROVE TypeOK'
  BY <1>2 DEF Propagate, GoTo, Assign, saver, AfterPropagation, Dependents, Statuses
<1>3. ASSUME NEW j \in Jobs, PoolStep(j) PROVE TypeOK'
  BY <1>3 DEF PoolStep, BeginJob, Work, FailOwn, FinishJob, GoTo, Assign, CallSave, saver,
              table, Statuses
<1>4. CASE Beat
  BY <1>4 DEF Beat, CallSave, GoTo
<1>5. CASE MainStep
  <2>1. CASE StartBatch
    <3>1. step' \in [Threads -> Steps] BY <2>1 DEF StartBatch
    <3> QED BY <2>1, <3>1 DEF StartBatch, table, saver
  <2>2. CASE PoolDone \/ Crash
    BY <2>2 DEF PoolDone, Crash, GoTo, CallSave, NoSave, table, saver
  <2>4. CASE TickDone \/ LeaveLoop
    BY <2>4 DEF TickDone, LeaveLoop, GoTo, table, saver
  <2>5. CASE StopHeart
    BY <2>5 DEF StopHeart, GoTo, table, saver
  <2>6. CASE Disown
    BY <2>6 DEF Disown, GoTo, CallSave
  <2>3. ASSUME NEW j \in Jobs, NEW s \in {"completed", "failed"}, Finish(j, s) PROVE TypeOK'
    BY <2>3 DEF Finish, Assign, GoTo, saver, Statuses
  <2> QED BY <1>5, <2>1, <2>2, <2>3, <2>4, <2>5, <2>6 DEF MainStep
<1>6. CASE UNCHANGED vars BY <1>6 DEF vars, table, saver
<1> QED BY <1>1, <1>2, <1>3, <1>4, <1>5, <1>6 DEF Next, Over

-----------------------------------------------------------------------------
(* A save.                                                                  *)

\* The lock is taken: nobody else is in a snapshot, and this one is empty.
LEMMA LockStep ==
  ASSUME IInv, step[Main] # "ended", NEW t \in Threads, LockSave(t), TypeOK'
  PROVE  Inv'
<1> USE ThreadFacts
<1>1. /\ step[t] = "lock" /\ saving = NoThread /\ saving' = t /\ step' = [step EXCEPT ![t] = "read"]
      /\ row' = [row EXCEPT ![t] = 1]
      /\ UNCHANGED <<mem, owned, file, after, seen, blocked, stop>>
  BY DEF LockSave, SaveLockFree, GoTo, table
<1>2. \A u \in Threads : step[u] \notin Snapshotting BY <1>1 DEF IInv, Inv, Exclusive
<1>3. \A u \in Threads : step'[u] = IF u = t THEN "read" ELSE step[u] BY <1>1 DEF IInv, TypeOK
<1>4. Exclusive' BY <1>1, <1>2, <1>3 DEF Exclusive, Snapshotting
<1>5. Places' BY <1>1, <1>3 DEF IInv, Inv, Places, InSave
<1>6. OneSide' BY <1>1, <1>3 DEF IInv, Inv, OneSide
<1>7. Startable' BY <1>1, <1>3 DEF IInv, Inv, Startable
<1>8. Between'
  <2>1. row'[t] = 1 /\ \A j \in Jobs : ~(j < 1) BY <1>1 DEF IInv, TypeOK, Jobs
  <2> QED BY <1>1, <1>2, <1>3, <2>1 DEF IInv, Inv, Between, Snapshotting
<1>9. LastSave'
  <2>1. t = Main => row'[t] = 1 /\ \A j \in Jobs : ~(j < 1) BY <1>1 DEF IInv, TypeOK, Jobs
  <2> QED BY <1>1, <1>2, <1>3, <2>1 DEF IInv, Inv, LastSave, Snapshotting, InSave
<1>10. FinalFileIsTrue' BY <1>3 DEF FinalFileIsTrue
<1> QED BY <1>4, <1>5, <1>6, <1>7, <1>8, <1>9, <1>10 DEF Inv

\* One more job is read: what memory has now, which is not behind the file.
LEMMA ReadStep ==
  ASSUME IInv, step[Main] # "ended", NEW t \in Threads, ReadRow(t), TypeOK'
  PROVE  Inv'
<1> USE ThreadFacts
<1>1. /\ step[t] = "read" /\ row[t] <= NJobs /\ row' = [row EXCEPT ![t] = @ + 1]
      /\ UNCHANGED <<mem, owned, file, saving, after, step, blocked, stop>>
  BY DEF ReadRow, table
<1>2. row[t] \in Jobs /\ row'[t] = row[t] + 1 /\ mem[row[t]] \in Statuses /\ seen[t] \in Snapshot
  BY <1>1 DEF IInv, TypeOK, Jobs
<1>3. /\ \A u \in Threads \ {t} : seen'[u] = seen[u] /\ row'[u] = row[u]
      /\ seen'[t] = [jobs |-> [seen[t].jobs EXCEPT ![row[t]] = mem[row[t]]], owned |-> seen[t].owned]
  <2> DEFINE r == [jobs |-> [seen[t].jobs EXCEPT ![row[t]] = mem[row[t]]], owned |-> seen[t].owned]
  <2>1. [seen[t] EXCEPT !.jobs[row[t]] = mem[row[t]]] = r
    BY <1>2, SnapshotRead
  <2>2. seen' = [seen EXCEPT ![t] = [seen[t] EXCEPT !.jobs[row[t]] = mem[row[t]]]] BY DEF ReadRow
  <2>3. seen' = [seen EXCEPT ![t] = r] BY <2>1, <2>2
  <2> HIDE DEF r
  <2>4. seen'[t] = r /\ \A u \in Threads \ {t} : seen'[u] = seen[u] BY <2>3 DEF IInv, TypeOK
  <2>5. \A u \in Threads \ {t} : row'[u] = row[u] BY <1>1 DEF IInv, TypeOK
  <2> QED BY <2>4, <2>5 DEF r
<1>4. \A j \in Jobs : seen'[t].jobs[j] = IF j = row[t] THEN mem[j] ELSE seen[t].jobs[j]
  BY <1>2, <1>3 DEF Snapshot
<1>5. \A j \in Jobs : j < row'[t] => j < row[t] \/ j = row[t] BY <1>2 DEF Jobs
<1>6. \A j \in Jobs : Rank(mem[j]) \in 0 .. 2 BY RankFacts DEF IInv, TypeOK
<1>7. Exclusive' /\ Places' /\ OneSide' /\ Startable' /\ FinalFileIsTrue'
  BY <1>1 DEF IInv, Inv, Exclusive, Places, OneSide, Startable, FinalFileIsTrue
<1>8. Between'
  <2>1. \A j \in Jobs : Rank(file'.jobs[j]) <= Rank(mem'[j]) BY <1>1 DEF IInv, Inv, Between
  <2>2. ASSUME NEW u \in Threads, step'[u] \in Snapshotting
        PROVE  /\ \A j \in Jobs : j < row'[u] => /\ Rank(file'.jobs[j]) <= Rank(seen'[u].jobs[j])
                                                 /\ Rank(seen'[u].jobs[j]) <= Rank(mem'[j])
               /\ step'[u] = "write" => row'[u] = NJobs + 1
    <3>1. CASE u = t
      <4>1. step[t] \in Snapshotting /\ step'[t] # "write" BY <1>1 DEF Snapshotting
      <4>2. ASSUME NEW j \in Jobs, j < row'[t]
            PROVE  /\ Rank(file.jobs[j]) <= Rank(seen'[t].jobs[j])
                   /\ Rank(seen'[t].jobs[j]) <= Rank(mem[j])
        <5>1. CASE j < row[t] /\ j # row[t]
          BY <1>4, <4>1, <5>1 DEF IInv, Inv, Between
        <5>2. CASE j = row[t]
          <6>1. Rank(file.jobs[j]) <= Rank(mem[j]) BY DEF IInv, Inv, Between
          <6>2. seen'[t].jobs[j] = mem[j] BY <1>4, <5>2
          <6>3. Rank(mem[j]) <= Rank(mem[j]) BY <1>6
          <6> QED BY <6>1, <6>2, <6>3
        <5> QED BY <1>2, <1>5, <4>2, <5>1, <5>2 DEF Jobs
      <4> QED BY <1>1, <3>1, <4>1, <4>2
    <3>2. CASE u # t
      BY <1>1, <1>3, <2>2, <3>2 DEF IInv, Inv, Between
    <3> QED BY <3>1, <3>2
  <2> QED BY <2>1, <2>2 DEF Between
<1>9. LastSave'
  <2>1. CASE t = Main
    BY <1>1, <1>4, <1>5, <2>1 DEF IInv, Inv, LastSave, Snapshotting
  <2>2. CASE t # Main
    BY <1>1, <1>3, <2>2 DEF IInv, Inv, LastSave
  <2> QED BY <2>1, <2>2
<1> QED BY <1>7, <1>8, <1>9 DEF Inv

\* The fields of the run are read, and the snapshot is complete.
LEMMA RestStep ==
  ASSUME IInv, step[Main] # "ended", NEW t \in Threads, ReadRest(t), TypeOK'
  PROVE  Inv'
<1> USE ThreadFacts
<1>1. /\ step[t] = "read" /\ row[t] = NJobs + 1 /\ step' = [step EXCEPT ![t] = "write"]
      /\ UNCHANGED <<mem, owned, file, saving, after, row, blocked, stop>>
  BY DEF ReadRest, GoTo, table
<1>2. \A u \in Threads : step'[u] = IF u = t THEN "write" ELSE step[u] BY <1>1 DEF IInv, TypeOK
<1>3. /\ \A u \in Threads \ {t} : seen'[u] = seen[u]
      /\ seen'[t] = [jobs |-> seen[t].jobs, owned |-> owned]
  <2> DEFINE r == [jobs |-> seen[t].jobs, owned |-> owned]
  <2>1. [seen[t] EXCEPT !.owned = owned] = r
    <3>1. seen[t] \in Snapshot /\ owned \in BOOLEAN BY DEF IInv, TypeOK
    <3> QED BY <3>1, SnapshotRest
  <2>2. seen' = [seen EXCEPT ![t] = [seen[t] EXCEPT !.owned = owned]] BY DEF ReadRest
  <2>3. seen' = [seen EXCEPT ![t] = r] BY <2>1, <2>2
  <2> HIDE DEF r
  <2>4. seen'[t] = r /\ \A u \in Threads \ {t} : seen'[u] = seen[u] BY <2>3 DEF IInv, TypeOK
  <2> QED BY <2>4 DEF r
<1>4. seen'[t].jobs = seen[t].jobs /\ seen'[t].owned = owned BY <1>3
<1>5. Exclusive' BY <1>1, <1>2 DEF IInv, Inv, Exclusive, Snapshotting
<1>6. Places' BY <1>1, <1>2 DEF IInv, Inv, Places, InSave
<1>7. OneSide' BY <1>1, <1>2 DEF IInv, Inv, OneSide
<1>8. Startable' BY <1>1, <1>2 DEF IInv, Inv, Startable
<1>9. Between'
  <2>1. \A u \in Threads : step'[u] \in Snapshotting => step[u] \in Snapshotting
    BY <1>1, <1>2 DEF Snapshotting
  <2>2. \A u \in Threads : seen'[u].jobs = seen[u].jobs BY <1>3, <1>4
  <2> QED BY <1>1, <1>2, <2>1, <2>2 DEF IInv, Inv, Between
<1>10. LastSave'
  <2>1. CASE t = Main
    <3>1. step[Main] \in Snapshotting /\ step[Main] \in InSave /\ step'[Main] = "write"
      BY <1>1, <1>2, <2>1 DEF Snapshotting, InSave
    <3>2. after'[Main] = <<"ended", "ended">> => stop' /\ ~owned' /\ ~seen'[Main].owned
      BY <1>1, <1>4, <2>1, <3>1 DEF IInv, Inv, LastSave
    <3>3. \A j \in Jobs : j < row'[Main] => seen'[Main].jobs[j] = mem'[j]
      BY <1>1, <1>4, <2>1, <3>1 DEF IInv, Inv, LastSave
    <3> QED BY <3>1, <3>2, <3>3 DEF LastSave
  <2>2. CASE t # Main
    <3>1. step'[Main] = step[Main] /\ seen'[Main] = seen[Main] BY <1>2, <1>3, <2>2
    <3> QED BY <1>1, <3>1 DEF IInv, Inv, LastSave
  <2> QED BY <2>1, <2>2
<1>11. FinalFileIsTrue' BY <1>2 DEF FinalFileIsTrue
<1> QED BY <1>5, <1>6, <1>7, <1>8, <1>9, <1>10, <1>11 DEF Inv

\* Where a save returns to is no place inside a save.
LEMMA Returns ==
  ASSUME IInv, NEW t \in Threads, step[t] = "write"
  PROVE  /\ after[t][1] \notin InSave /\ after[t][2] \notin InSave
         /\ t \in Jobs => after[t][1] \in {"none", "work"} /\ after[t][2] \in {"none", "skip"}
         /\ t = Heart => after[t][1] = "wait" /\ after[t][2] = "wait"
         /\ t = Main => /\ after[t][1] \in {"tick", "leave", "ended"}
                        /\ after[t][2] \in {"crash", "leave", "ended"}
                        /\ after[t][1] = "ended" => after[t] = <<"ended", "ended">>
                        /\ after[t][2] = "ended" => after[t] = <<"ended", "ended">>
<1> USE ThreadFacts DEF InSave
<1>1. CASE t \in Jobs
  <2>1. after[t] \in {<<"work", "skip">>, <<"none", "none">>} BY <1>1 DEF IInv, Inv, Places
  <2> QED BY <1>1, <2>1
<1>2. CASE t = Heart
  <2>1. after[t] = <<"wait", "wait">> BY <1>2 DEF IInv, Inv, Places
  <2> QED BY <1>2, <2>1
<1>3. CASE t = Main
  <2>1. after[t] \in {<<"tick", "crash">>, <<"leave", "leave">>, <<"ended", "ended">>}
    BY <1>3 DEF IInv, Inv, Places
  <2> QED BY <1>3, <2>1
<1> QED BY <1>1, <1>2, <1>3

\* What both ends of a save have in common: the lock is released and the thread goes
\* on outside.
LEMMA EndOfSave ==
  ASSUME IInv, NEW t \in Threads, step[t] = "write", saving' = NoThread,
         NEW s, s \in {after[t][1], after[t][2]}, step' = [step EXCEPT ![t] = s],
         UNCHANGED <<mem, owned, after, blocked, stop, row, seen>>
  PROVE  /\ Exclusive' /\ Places' /\ OneSide' /\ Startable' /\ LastSave'
         /\ \A u \in Threads : step'[u] \notin Snapshotting
<1> USE ThreadFacts
<1>1. \A u \in Threads : step'[u] = IF u = t THEN s ELSE step[u] BY DEF IInv, TypeOK
<1>2. saving = t /\ \A u \in Threads \ {t} : step[u] \notin Snapshotting
  BY DEF IInv, Inv, Exclusive, Snapshotting
<1>3. /\ s \notin InSave
      /\ t \in Jobs => s \in {"none", "work", "skip"}
      /\ t = Heart => s = "wait"
      /\ t = Main => s \in {"tick", "leave", "crash", "ended"}
  BY Returns
<1>4. \A u \in Threads : step'[u] \notin Snapshotting BY <1>1, <1>2, <1>3 DEF Snapshotting, InSave
<1>5. Exclusive' BY <1>4 DEF Exclusive
<1>6. Places' BY <1>1, <1>3 DEF IInv, Inv, Places, InSave
<1>7. OneSide' BY <1>1, <1>3 DEF IInv, Inv, OneSide
<1>8. Startable' BY <1>1, <1>3 DEF IInv, Inv, Startable
<1>9. LastSave' BY <1>1, <1>3, <1>4 DEF IInv, Inv, LastSave, InSave, Snapshotting
<1> QED BY <1>4, <1>5, <1>6, <1>7, <1>8, <1>9

\* The file is replaced by a complete snapshot, which is not behind it.
LEMMA WriteStep ==
  ASSUME IInv, step[Main] # "ended", NEW t \in Threads, WriteFile(t), TypeOK'
  PROVE  Inv' /\ \A j \in Jobs : Rank(file'.jobs[j]) >= Rank(file.jobs[j])
<1> USE ThreadFacts
<1>1. /\ step[t] = "write" /\ file' = seen[t] /\ saving' = NoThread
      /\ step' = [step EXCEPT ![t] = after[t][1]]
      /\ UNCHANGED <<mem, owned, after, seen, row, blocked, stop>>
  BY DEF WriteFile, GoTo, table
<1>2. /\ Exclusive' /\ Places' /\ OneSide' /\ Startable' /\ LastSave'
      /\ \A u \in Threads : step'[u] \notin Snapshotting
  BY <1>1, EndOfSave
<1>3. \A j \in Jobs : j < row[t] BY <1>1 DEF IInv, Inv, Between, Snapshotting, Jobs
<1>4. \A j \in Jobs : /\ Rank(file.jobs[j]) <= Rank(seen[t].jobs[j])
                       /\ Rank(seen[t].jobs[j]) <= Rank(mem[j])
  BY <1>1, <1>3 DEF IInv, Inv, Between, Snapshotting
<1>5. \A j \in Jobs : Rank(file.jobs[j]) \in 0 .. 2 /\ Rank(seen[t].jobs[j]) \in 0 .. 2
  <2>1. \A j \in Jobs : file.jobs[j] \in Statuses /\ seen[t].jobs[j] \in Statuses
    <3>1. file \in Snapshot /\ seen[t] \in Snapshot BY DEF IInv, TypeOK
    <3> QED BY <3>1 DEF Snapshot
  <2> QED BY <2>1, RankFacts
<1>6. Between' BY <1>1, <1>2, <1>4 DEF Between
<1>7. FinalFileIsTrue'
  <2> SUFFICES ASSUME step'[Main] = "ended" PROVE file' = [jobs |-> mem, owned |-> FALSE]
    BY <1>1 DEF FinalFileIsTrue
  <2>1. t = Main /\ after[Main][1] = "ended" BY <1>1 DEF IInv, TypeOK
  <2>2. after[Main] = <<"ended", "ended">> BY <1>1, <2>1, Returns
  <2>3. ~owned /\ ~seen[Main].owned BY <1>1, <2>1, <2>2 DEF IInv, Inv, LastSave, InSave
  <2>4. \A j \in Jobs : seen[Main].jobs[j] = mem[j]
    BY <1>1, <1>3, <2>1 DEF IInv, Inv, LastSave, Snapshotting
  <2>5. seen[Main] \in Snapshot /\ mem \in [Jobs -> Statuses] BY DEF IInv, TypeOK
  <2>6. seen[Main].jobs = mem
    <3>1. seen[Main].jobs \in [Jobs -> Statuses] BY <2>5 DEF Snapshot
    <3> QED BY <2>4, <2>5, <3>1, SameTable
  <2> QED BY <1>1, <2>1, <2>3, <2>5, <2>6 DEF Snapshot
<1>8. \A j \in Jobs : Rank(file'.jobs[j]) >= Rank(file.jobs[j]) BY <1>1, <1>4, <1>5
<1> QED BY <1>2, <1>6, <1>7, <1>8 DEF Inv

\* Or it stays, and if that was the last save, it is on record.
LEMMA FailStep ==
  ASSUME IInv, step[Main] # "ended", NEW t \in Threads, WriteFails(t), TypeOK'
  PROVE  Inv'
<1> USE ThreadFacts
<1>1. /\ step[t] = "write" /\ saving' = NoThread
      /\ step' = [step EXCEPT ![t] = after[t][2]]
      /\ UNCHANGED <<mem, owned, file, after, seen, row, blocked, stop>>
      /\ after[t][2] = "ended" => raised'
  BY DEF WriteFails, GoTo, table
<1>2. /\ Exclusive' /\ Places' /\ OneSide' /\ Startable' /\ LastSave'
      /\ \A u \in Threads : step'[u] \notin Snapshotting
  BY <1>1, EndOfSave
<1>3. Between' BY <1>1, <1>2 DEF IInv, Inv, Between
<1>4. FinalFileIsTrue' BY <1>1 DEF IInv, TypeOK, FinalFileIsTrue
<1> QED BY <1>2, <1>3, <1>4 DEF Inv

-----------------------------------------------------------------------------
(* Steps that only call a save, or none.                                    *)

\* No snapshot begins or changes, and no assignment takes a job back.
LEMMA BetweenSaves ==
  ASSUME IInv, TypeOK', UNCHANGED <<file, saving, seen, row>>,
         \A u \in Threads : step'[u] \in Snapshotting <=> step[u] \in Snapshotting,
         \A u \in Threads : step[u] \in Snapshotting => step'[u] = step[u],
         \A j \in Jobs : Rank(mem[j]) <= Rank(mem'[j])
  PROVE  Exclusive' /\ Between'
<1>1. Exclusive' BY DEF IInv, Inv, Exclusive
<1>2. \A j \in Jobs : Rank(file.jobs[j]) \in 0 .. 2 /\ Rank(mem[j]) \in 0 .. 2 /\ Rank(mem'[j]) \in 0 .. 2
  <2>1. \A j \in Jobs : file.jobs[j] \in Statuses
    <3>1. file \in Snapshot BY DEF IInv, TypeOK
    <3> QED BY <3>1 DEF Snapshot
  <2>2. \A j \in Jobs : mem[j] \in Statuses /\ mem'[j] \in Statuses BY DEF IInv, TypeOK
  <2> QED BY <2>1, <2>2, RankFacts
<1>3. \A j \in Jobs : Rank(file'.jobs[j]) <= Rank(mem'[j])
  BY <1>2 DEF IInv, Inv, Between
<1>4. ASSUME NEW u \in Threads, step'[u] \in Snapshotting
      PROVE  /\ \A j \in Jobs : j < row'[u] => /\ Rank(file'.jobs[j]) <= Rank(seen'[u].jobs[j])
                                               /\ Rank(seen'[u].jobs[j]) <= Rank(mem'[j])
             /\ step'[u] = "write" => row'[u] = NJobs + 1
  <2>1. step[u] \in Snapshotting /\ step'[u] = step[u] BY <1>4
  <2>2. ASSUME NEW j \in Jobs, j < row[u] PROVE Rank(seen[u].jobs[j]) <= Rank(mem'[j])
    <3>1. seen[u].jobs[j] \in Statuses
      <4>1. seen[u] \in Snapshot BY DEF IInv, TypeOK
      <4> QED BY <4>1 DEF Snapshot
    <3>2. Rank(seen[u].jobs[j]) \in 0 .. 2 BY <3>1, RankFacts
    <3>3. Rank(seen[u].jobs[j]) <= Rank(mem[j]) BY <2>1, <2>2 DEF IInv, Inv, Between
    <3> QED BY <1>2, <3>2, <3>3
  <2> QED BY <2>1, <2>2 DEF IInv, Inv, Between
<1> QED BY <1>1, <1>3, <1>4 DEF Between

\* A beat.
LEMMA BeatStep ==
  ASSUME IInv, step[Main] # "ended", Beat, TypeOK'
  PROVE  Inv'
<1> USE ThreadFacts
<1>1. /\ step[Heart] = "wait" /\ ~stop /\ owned' = TRUE /\ step' = [step EXCEPT ![Heart] = "lock"]
      /\ after' = [after EXCEPT ![Heart] = <<"wait", "wait">>]
      /\ UNCHANGED <<mem, file, saving, seen, row, blocked, stop>>
  BY DEF Beat, Stopped, CallSave, GoTo
<1>2. \A u \in Threads : step'[u] = IF u = Heart THEN "lock" ELSE step[u] BY <1>1 DEF IInv, TypeOK
<1>3. \A u \in Threads \ {Heart} : after'[u] = after[u] BY <1>1 DEF IInv, TypeOK
<1>4. after'[Heart] = <<"wait", "wait">> BY <1>1 DEF IInv, TypeOK
<1>5. \A j \in Jobs : Rank(mem[j]) <= Rank(mem'[j])
  <2>1. \A j \in Jobs : mem[j] \in Statuses BY DEF IInv, TypeOK
  <2>2. \A j \in Jobs : Rank(mem[j]) \in 0 .. 2 BY <2>1, RankFacts
  <2> QED BY <1>1, <2>2
<1>6. Exclusive' /\ Between' BY <1>1, <1>2, <1>5, BetweenSaves DEF Snapshotting
<1>7. Places' BY <1>2, <1>3, <1>4 DEF IInv, Inv, Places, InSave
<1>8. OneSide' /\ Startable' BY <1>1, <1>2 DEF IInv, Inv, OneSide, Startable
<1>9. LastSave'
  <2>1. step'[Main] = step[Main] /\ after'[Main] = after[Main] BY <1>2, <1>3
  <2>2. ~(step[Main] \in InSave /\ after[Main] = <<"ended", "ended">>)
    BY <1>1 DEF IInv, Inv, LastSave
  <2> QED BY <1>1, <2>1, <2>2 DEF IInv, Inv, LastSave
<1>10. FinalFileIsTrue' BY <1>2 DEF FinalFileIsTrue
<1> QED BY <1>6, <1>7, <1>8, <1>9, <1>10 DEF Inv

\* An assignment takes no job back if its own does not.
LEMMA AssignRank ==
  ASSUME TypeOK, NEW k \in Jobs, NEW s \in Statuses, Rank(mem[k]) <= Rank(s),
         mem' = [mem EXCEPT ![k] = s]
  PROVE  /\ \A j \in Jobs : Rank(mem[j]) <= Rank(mem'[j])
         /\ \A j \in Jobs : mem'[j] = IF j = k THEN s ELSE mem[j]
<1>1. \A j \in Jobs : mem[j] \in Statuses BY DEF TypeOK
<1>2. \A j \in Jobs : Rank(mem[j]) \in 0 .. 2 BY <1>1, RankFacts
<1>3. \A j \in Jobs : mem'[j] = IF j = k THEN s ELSE mem[j] BY DEF TypeOK
<1> QED BY <1>2, <1>3

LEMMA SameRank ==
  ASSUME TypeOK, mem' = mem
  PROVE  \A j \in Jobs : Rank(mem[j]) <= Rank(mem'[j])
<1>1. \A j \in Jobs : mem[j] \in Statuses BY DEF TypeOK
<1>2. \A j \in Jobs : Rank(mem[j]) \in 0 .. 2 BY <1>1, RankFacts
<1> QED BY <1>2

\* What the steps of a pipeline outside a save have in common: the main thread waits.
LEMMA PipelineStep ==
  ASSUME IInv, TypeOK', NEW j \in Jobs, step[j] \in {"begin", "work", "skip", "finish"},
         NEW s \in {"lock", "work", "skip", "finish"}, step' = [step EXCEPT ![j] = s],
         UNCHANGED <<file, saving, seen, row>>,
         \A k \in Jobs : Rank(mem[k]) <= Rank(mem'[k]),
         \A u \in Threads \ {j} : after'[u] = after[u],
         s = "lock" => after'[j] \in {<<"work", "skip">>, <<"none", "none">>}
  PROVE  /\ Exclusive' /\ Between' /\ Places' /\ OneSide' /\ LastSave' /\ FinalFileIsTrue'
         /\ step[Main] = "pool"
         /\ \A u \in Threads : step'[u] = IF u = j THEN s ELSE step[u]
<1> USE ThreadFacts
<1>1. step[Main] = "pool" BY DEF IInv, Inv, OneSide
<1>2. \A u \in Threads : step'[u] = IF u = j THEN s ELSE step[u] BY DEF IInv, TypeOK
<1>3. Exclusive' /\ Between' BY <1>2, BetweenSaves DEF Snapshotting
<1>4. Places'
  <2>1. s \in InSave => s = "lock" BY DEF InSave
  <2>2. \A u \in Threads \ {j} : after'[u] = after[u] /\ step'[u] = step[u] BY <1>2
  <2>3. /\ step'[Main] = "pool" /\ "pool" \notin InSave
        /\ step'[Heart] = step[Heart] /\ after'[Heart] = after[Heart]
    BY <1>1, <2>2 DEF InSave
  <2>4. step'[Main] \in {"scan", "pool", "tick", "skip", "crash", "leave", "join", "ended"} \cup InSave
    BY <2>3
  <2>5. ASSUME NEW i \in Jobs
        PROVE  /\ step'[i] \in {"none", "begin", "work", "skip", "finish"} \cup InSave
               /\ step'[i] \in InSave => after'[i] \in {<<"work", "skip">>, <<"none", "none">>}
    <3>1. CASE i = j BY <1>2, <2>1, <3>1 DEF InSave
    <3>2. CASE i # j
      <4>1. after'[i] = after[i] /\ step'[i] = step[i] BY <2>2, <3>2
      <4> QED BY <4>1 DEF IInv, Inv, Places
    <3> QED BY <3>1, <3>2
  <2> QED BY <2>3, <2>4, <2>5 DEF IInv, Inv, Places
<1>5. step'[Main] = "pool" BY <1>1, <1>2
<1>6. OneSide' /\ LastSave' /\ FinalFileIsTrue'
  BY <1>5 DEF OneSide, LastSave, FinalFileIsTrue, Snapshotting, InSave
<1> QED BY <1>1, <1>2, <1>3, <1>4, <1>6

\* The pipeline of one job.
LEMMA PoolStepKeeps ==
  ASSUME IInv, step[Main] # "ended", NEW j \in Jobs, PoolStep(j), TypeOK'
  PROVE  Inv'
<1> USE ThreadFacts
<1>0. TypeOK /\ Startable BY DEF IInv, Inv
<1>1. CASE BeginJob(j)
  <2>1. /\ step[j] = "begin" /\ mem' = [mem EXCEPT ![j] = "running"]
        /\ step' = [step EXCEPT ![j] = "lock"] /\ after' = [after EXCEPT ![j] = <<"work", "skip">>]
        /\ blocked' = [blocked EXCEPT ![j] = {j}] /\ UNCHANGED <<file, saving, seen, row>>
    BY <1>1 DEF BeginJob, Assign, CallSave, GoTo
  <2>2. mem[j] = "pending" BY <1>0, <2>1 DEF Startable
  <2>3. /\ \A k \in Jobs : Rank(mem[k]) <= Rank(mem'[k])
        /\ \A k \in Jobs : mem'[k] = IF k = j THEN "running" ELSE mem[k]
    <3>1. "running" \in Statuses /\ Rank(mem[j]) <= Rank("running")
      BY <2>2, RankFacts DEF Statuses
    <3> QED BY <1>0, <2>1, <3>1, AssignRank
  <2>4. /\ after'[j] = <<"work", "skip">> /\ \A u \in Threads \ {j} : after'[u] = after[u]
        /\ blocked'[j] = {j} /\ \A u \in Threads \ {j} : blocked'[u] = blocked[u]
    BY <1>0, <2>1 DEF TypeOK
  <2>5. /\ Exclusive' /\ Between' /\ Places' /\ OneSide' /\ LastSave' /\ FinalFileIsTrue'
        /\ step[Main] = "pool" /\ \A u \in Threads : step'[u] = IF u = j THEN "lock" ELSE step[u]
    BY <2>1, <2>3, <2>4, PipelineStep
  <2>6. Startable'
    <3>1. ASSUME NEW i \in Jobs, step'[i] = "begin"
          PROVE  mem'[i] = "pending" /\ \A d \in Deps[i] : mem'[d] = "completed"
      <4>1. i # j /\ step[i] = "begin" BY <2>5, <3>1
      <4>2. Deps[i] \subseteq Jobs BY StateFileAssumption
      <4>3. mem[i] = "pending" /\ \A d \in Deps[i] : mem[d] = "completed"
        BY <1>0, <4>1 DEF Startable
      <4> QED BY <2>2, <2>3, <4>1, <4>2, <4>3
    <3>2. ASSUME NEW i \in Jobs, step'[i] \notin {"none", "begin"}, NEW k \in blocked'[i]
          PROVE  mem'[k] # "completed"
      <4>1. CASE i = j BY <2>3, <2>4, <3>2, <4>1
      <4>2. CASE i # j
        <5>1. k \in blocked[i] /\ step[i] \notin {"none", "begin"} BY <2>4, <2>5, <3>2, <4>2
        <5>2. k \in Jobs BY <1>0, <5>1 DEF TypeOK
        <5> QED BY <1>0, <2>3, <5>1, <5>2 DEF Startable
      <4> QED BY <4>1, <4>2
    <3>3. step'[Main] = "pool" BY <2>5
    <3> QED BY <3>1, <3>2, <3>3 DEF Startable
  <2> QED BY <2>5, <2>6 DEF Inv
<1>2. CASE Work(j)
  <2>1. PICK s \in {"finish", "skip"} : step' = [step EXCEPT ![j] = s]
    BY <1>2 DEF Work, GoTo
  <2>2. step[j] = "work" /\ UNCHANGED <<mem, after, blocked, file, saving, seen, row>>
    BY <1>2 DEF Work, table, saver
  <2>3. /\ Exclusive' /\ Between' /\ Places' /\ OneSide' /\ LastSave' /\ FinalFileIsTrue'
        /\ step[Main] = "pool" /\ \A u \in Threads : step'[u] = IF u = j THEN s ELSE step[u]
    <3>1. s \in {"lock", "work", "skip", "finish"} /\ s # "lock" OBVIOUS
    <3>2. \A k \in Jobs : Rank(mem[k]) <= Rank(mem'[k]) BY <1>0, <2>2, SameRank
    <3>3. \A u \in Threads \ {j} : after'[u] = after[u] BY <2>2
    <3> QED BY <2>1, <2>2, <3>1, <3>2, <3>3, PipelineStep
  <2>4. Startable'
    <3>1. mem' = mem /\ blocked' = blocked BY <2>2
    <3>2. \A i \in Jobs : step'[i] = "begin" => step[i] = "begin" BY <2>1, <2>3
    <3>3. \A i \in Jobs : step'[i] \notin {"none", "begin"} => step[i] \notin {"none", "begin"}
      BY <2>2, <2>3
    <3>4. step'[Main] = "pool" BY <2>3
    <3>5. \A i \in Jobs : step'[i] = "begin" =>
            mem'[i] = "pending" /\ \A d \in Deps[i] : mem'[d] = "completed"
      BY <1>0, <3>1, <3>2 DEF Startable
    <3>6. \A i \in Jobs : step'[i] \notin {"none", "begin"} =>
            \A k \in blocked'[i] : mem'[k] # "completed"
      BY <1>0, <3>1, <3>3 DEF Startable
    <3> QED BY <3>4, <3>5, <3>6 DEF Startable
  <2> QED BY <2>3, <2>4 DEF Inv
<1>3. CASE FailOwn(j)
  <2>1. /\ step[j] = "skip" /\ mem[j] = "running" /\ mem' = [mem EXCEPT ![j] = "failed"]
        /\ UNCHANGED <<step, after, blocked, file, saving, seen, row>>
    BY <1>3 DEF FailOwn, Assign, saver
  <2>2. /\ \A k \in Jobs : Rank(mem[k]) <= Rank(mem'[k])
        /\ \A k \in Jobs : mem'[k] = IF k = j THEN "failed" ELSE mem[k]
    <3>1. "failed" \in Statuses /\ Rank(mem[j]) <= Rank("failed") BY <2>1, RankFacts DEF Statuses
    <3> QED BY <1>0, <2>1, <3>1, AssignRank
  <2>3. step' = [step EXCEPT ![j] = "skip"] BY <1>0, <2>1 DEF TypeOK
  <2>4. /\ Exclusive' /\ Between' /\ Places' /\ OneSide' /\ LastSave' /\ FinalFileIsTrue'
        /\ step[Main] = "pool"
    BY <2>1, <2>2, <2>3, PipelineStep
  <2>5. Startable'
    <3>1. \A i \in Jobs : Deps[i] \subseteq Jobs BY StateFileAssumption
    <3>2. \A i \in Jobs : blocked[i] \subseteq Jobs BY <1>0 DEF TypeOK
    <3>3. step'[Main] = "pool" BY <2>1, <2>4
    <3>4. \A i \in Jobs : step[i] = "begin" => i # j BY <2>1
    <3>5. \A i \in Jobs : mem'[i] = "completed" <=> mem[i] = "completed" BY <2>1, <2>2
    <3>6. ASSUME NEW i \in Jobs, step'[i] = "begin"
          PROVE  mem'[i] = "pending" /\ \A d \in Deps[i] : mem'[d] = "completed"
      <4>1. step[i] = "begin" /\ i # j BY <2>1, <3>4, <3>6
      <4>2. mem[i] = "pending" /\ \A d \in Deps[i] : mem[d] = "completed"
        BY <1>0, <4>1 DEF Startable
      <4> QED BY <2>2, <3>1, <3>5, <4>1, <4>2
    <3>7. ASSUME NEW i \in Jobs, step'[i] \notin {"none", "begin"}, NEW k \in blocked'[i]
          PROVE  mem'[k] # "completed"
      <4>1. k \in blocked[i] /\ step[i] \notin {"none", "begin"} BY <2>1, <3>7
      <4>2. mem[k] # "completed" BY <1>0, <4>1 DEF Startable
      <4> QED BY <3>2, <3>5, <4>1, <4>2
    <3> QED BY <3>3, <3>6, <3>7 DEF Startable
  <2> QED BY <2>4, <2>5 DEF Inv
<1>4. CASE FinishJob(j)
  <2>1. /\ step[j] = "finish" /\ step' = [step EXCEPT ![j] = "lock"]
        /\ after' = [after EXCEPT ![j] = <<"none", "none">>]
        /\ UNCHANGED <<mem, blocked, file, saving, seen, row>>
    BY <1>4 DEF FinishJob, CallSave, GoTo, table
  <2>2. after'[j] = <<"none", "none">> /\ \A u \in Threads \ {j} : after'[u] = after[u]
    BY <1>0, <2>1 DEF TypeOK
  <2>3. /\ Exclusive' /\ Between' /\ Places' /\ OneSide' /\ LastSave' /\ FinalFileIsTrue'
        /\ step[Main] = "pool" /\ \A u \in Threads : step'[u] = IF u = j THEN "lock" ELSE step[u]
    BY <1>0, <2>1, <2>2, SameRank, PipelineStep
  <2>4. Startable'
    <3>1. ASSUME NEW i \in Jobs, step'[i] = "begin"
          PROVE  mem'[i] = "pending" /\ \A d \in Deps[i] : mem'[d] = "completed"
      <4>1. step[i] = "begin" BY <2>3, <3>1
      <4>2. mem[i] = "pending" /\ \A d \in Deps[i] : mem[d] = "completed"
        BY <1>0, <4>1 DEF Startable
      <4>3. mem' = mem BY <2>1
      <4> QED BY <4>2, <4>3
    <3>2. ASSUME NEW i \in Jobs, step'[i] \notin {"none", "begin"}, NEW k \in blocked'[i]
          PROVE  mem'[k] # "completed"
      <4>1. mem' = mem /\ blocked' = blocked BY <2>1
      <4>2. step[i] \notin {"none", "begin"} BY <2>1, <2>3, <3>2
      <4>3. \A d \in blocked[i] : mem[d] # "completed" BY <1>0, <4>2 DEF Startable
      <4> QED BY <3>2, <4>1, <4>3
    <3>3. step'[Main] = "pool" BY <2>3
    <3> QED BY <3>1, <3>2, <3>3 DEF Startable
  <2> QED BY <2>3, <2>4 DEF Inv
<1> QED BY <1>1, <1>2, <1>3, <1>4 DEF PoolStep

\* What the steps of the main thread outside a save have in common: no pipeline runs.
LEMMA MainThreadStep ==
  ASSUME IInv, TypeOK', step[Main] \in {"scan", "pool", "tick", "skip", "crash", "leave", "join"},
         \A j \in Jobs : step[j] = "none",
         NEW s \in {"lock", "scan", "tick", "skip", "crash", "leave", "join"},
         step' = [step EXCEPT ![Main] = s],
         UNCHANGED <<file, saving, seen, row>>,
         \A k \in Jobs : Rank(mem[k]) <= Rank(mem'[k]),
         \A u \in Threads \ {Main} : after'[u] = after[u],
         s = "lock" => /\ after'[Main] \in {<<"tick", "crash">>, <<"leave", "leave">>, <<"ended", "ended">>}
                       /\ after'[Main] = <<"ended", "ended">> => stop' /\ ~owned',
         s = "join" => stop',
         s = "skip" => \A k \in blocked'[Main] : mem'[k] # "completed"
  PROVE  Inv'
<1> USE ThreadFacts
<1>1. \A u \in Threads : step'[u] = IF u = Main THEN s ELSE step[u] BY DEF IInv, TypeOK
<1>2. Exclusive' /\ Between' BY <1>1, BetweenSaves DEF Snapshotting
<1>3. /\ \A j \in Jobs : step'[j] = "none"
      /\ step'[Main] = s /\ step'[Heart] = step[Heart] /\ after'[Heart] = after[Heart]
      /\ s \in InSave => s = "lock"
  BY <1>1 DEF InSave
<1>4. Places' BY <1>3 DEF IInv, Inv, Places, InSave
<1>5. OneSide' /\ Startable' BY <1>3 DEF OneSide, Startable
<1>6. LastSave' BY <1>3 DEF LastSave, Snapshotting
<1>7. FinalFileIsTrue' BY <1>3 DEF FinalFileIsTrue
<1> QED BY <1>2, <1>4, <1>5, <1>6, <1>7 DEF Inv

\* A failure is propagated, by a pipeline or by the main thread: no job whose pipeline
\* is about to begin is reached.
LEMMA PropagateStep ==
  ASSUME IInv, step[Main] # "ended", NEW t \in Jobs \cup {Main}, Propagate(t), TypeOK'
  PROVE  Inv'
<1> USE ThreadFacts
<1>0. TypeOK /\ Startable BY DEF IInv, Inv
<1>1. step[t] = "skip" /\ UNCHANGED <<owned, file, saving, seen, row, after, stop>>
  BY DEF Propagate, saver
<1>2. ASSUME NEW k \in Dependents(t), mem' = [mem EXCEPT ![k] = "skipped"],
             blocked' = [blocked EXCEPT ![t] = @ \cup {k}], step' = step
      PROVE  Inv'
  <2>1. k \in Jobs /\ mem[k] = "pending" /\ Deps[k] \cap blocked[t] # {}
    BY <1>2 DEF Dependents
  <2>2. /\ \A j \in Jobs : Rank(mem[j]) <= Rank(mem'[j])
        /\ \A j \in Jobs : mem'[j] = IF j = k THEN "skipped" ELSE mem[j]
    <3>1. "skipped" \in Statuses /\ Rank(mem[k]) <= Rank("skipped") BY <2>1, RankFacts DEF Statuses
    <3> QED BY <1>0, <1>2, <2>1, <3>1, AssignRank
  <2>3. \A j \in Jobs : mem'[j] = "completed" <=> mem[j] = "completed" BY <2>1, <2>2
  <2>4. /\ blocked'[t] = blocked[t] \cup {k}
        /\ \A u \in Threads \ {t} : blocked'[u] = blocked[u]
        /\ \A u \in Threads : blocked[u] \subseteq Jobs
    BY <1>0, <1>2 DEF TypeOK
  <2>5. step' = [step EXCEPT ![t] = "skip"] BY <1>0, <1>1, <1>2 DEF TypeOK
  <2>6. \A i \in blocked'[t] : mem'[i] # "completed"
    <3>1. \A i \in blocked[t] : mem[i] # "completed" BY <1>0, <1>1 DEF Startable
    <3> QED BY <2>1, <2>2, <2>3, <2>4, <3>1
  <2>7. CASE t = Main
    <3>1. \A j \in Jobs : step[j] = "none" BY <1>1, <2>7 DEF IInv, Inv, OneSide
    <3> QED BY <1>1, <2>2, <2>5, <2>6, <2>7, <3>1, MainThreadStep
  <2>8. CASE t \in Jobs
    <3>1. /\ Exclusive' /\ Between' /\ Places' /\ OneSide' /\ LastSave' /\ FinalFileIsTrue'
          /\ step[Main] = "pool"
      BY <1>1, <2>2, <2>5, <2>8, PipelineStep
    <3>2. ASSUME NEW i \in Jobs, step'[i] = "begin"
          PROVE  mem'[i] = "pending" /\ \A d \in Deps[i] : mem'[d] = "completed"
      <4>1. step[i] = "begin" /\ Deps[i] \subseteq Jobs BY <1>2, <3>2, StateFileAssumption
      <4>2. mem[i] = "pending" /\ \A d \in Deps[i] : mem[d] = "completed"
        BY <1>0, <4>1 DEF Startable
      <4>3. \A d \in blocked[t] : mem[d] # "completed" BY <1>0, <1>1, <2>8 DEF Startable
      <4>4. i # k BY <2>1, <4>2, <4>3
      <4> QED BY <2>2, <2>3, <4>1, <4>2, <4>4
    <3>3. ASSUME NEW i \in Jobs, step'[i] \notin {"none", "begin"}, NEW d \in blocked'[i]
          PROVE  mem'[d] # "completed"
      <4>1. CASE i = t BY <2>6, <4>1
      <4>2. CASE i # t
        <5>1. d \in blocked[i] /\ d \in Jobs BY <2>4, <4>2
        <5> QED BY <1>0, <1>2, <2>3, <3>3, <5>1 DEF Startable
      <4> QED BY <4>1, <4>2
    <3>4. step'[Main] = "pool" BY <1>2, <3>1
    <3>5. Startable' BY <3>2, <3>3, <3>4 DEF Startable
    <3> QED BY <3>1, <3>5 DEF Inv
  <2> QED BY <2>7, <2>8
<1>3. ASSUME step' = [step EXCEPT ![t] = AfterPropagation(t)], mem' = mem, blocked' = blocked
      PROVE  Inv'
  <2>1. \A k \in Jobs : Rank(mem[k]) <= Rank(mem'[k]) BY <1>0, <1>3, SameRank
  <2>2. CASE t = Main
    <3>1. \A j \in Jobs : step[j] = "none" BY <1>1, <2>2 DEF IInv, Inv, OneSide
    <3>2. step' = [step EXCEPT ![Main] = "tick"] BY <1>3, <2>2 DEF AfterPropagation
    <3> QED BY <1>1, <2>1, <2>2, <3>1, <3>2, MainThreadStep
  <2>3. CASE t \in Jobs
    <3>1. step' = [step EXCEPT ![t] = "finish"] BY <1>3, <2>3 DEF AfterPropagation
    <3>2. /\ Exclusive' /\ Between' /\ Places' /\ OneSide' /\ LastSave' /\ FinalFileIsTrue'
          /\ step[Main] = "pool" /\ \A u \in Threads : step'[u] = IF u = t THEN "finish" ELSE step[u]
      BY <1>1, <2>1, <2>3, <3>1, PipelineStep
    <3>3. ASSUME NEW i \in Jobs, step'[i] = "begin"
          PROVE  mem'[i] = "pending" /\ \A d \in Deps[i] : mem'[d] = "completed"
      <4>1. step[i] = "begin" /\ mem' = mem BY <1>3, <3>2, <3>3
      <4>2. mem[i] = "pending" /\ \A d \in Deps[i] : mem[d] = "completed"
        BY <1>0, <4>1 DEF Startable
      <4> QED BY <4>1, <4>2
    <3>4. ASSUME NEW i \in Jobs, step'[i] \notin {"none", "begin"}, NEW k \in blocked'[i]
          PROVE  mem'[k] # "completed"
      <4>1. mem' = mem /\ blocked' = blocked BY <1>3
      <4>2. step[i] \notin {"none", "begin"} BY <1>1, <3>2, <3>4
      <4>3. \A d \in blocked[i] : mem[d] # "completed" BY <1>0, <4>2 DEF Startable
      <4> QED BY <3>4, <4>1, <4>3
    <3>5. step'[Main] = "pool" BY <2>3, <3>2
    <3>6. Startable' BY <3>3, <3>4, <3>5 DEF Startable
    <3> QED BY <3>2, <3>6 DEF Inv
  <2> QED BY <2>2, <2>3
<1> QED BY <1>2, <1>3 DEF Propagate, Assign, GoTo

\* The main thread.
LEMMA MainStepKeeps ==
  ASSUME IInv, step[Main] # "ended", MainStep, TypeOK'
  PROVE  Inv'
<1> USE ThreadFacts
<1>0. TypeOK BY DEF IInv
<1>1. mem' = mem => \A k \in Jobs : Rank(mem[k]) <= Rank(mem'[k]) BY <1>0, SameRank
<1>2. step[Main] # "pool" => \A j \in Jobs : step[j] = "none" BY DEF IInv, Inv, OneSide
<1>3. ASSUME NEW c \in Steps \X Steps, after' = [after EXCEPT ![Main] = c]
      PROVE  after'[Main] = c /\ \A u \in Threads \ {Main} : after'[u] = after[u]
  BY <1>0, <1>3 DEF TypeOK
<1>4. CASE StartBatch
  <2>1. /\ step[Main] = "scan"
        /\ step' = [t \in Threads |-> IF t \in Ready THEN "begin"
                                      ELSE IF t = Main THEN "pool" ELSE step[t]]
        /\ UNCHANGED <<mem, owned, file, saving, after, seen, row, blocked, stop>>
    BY <1>4 DEF StartBatch, table, saver
  <2>2. \A j \in Jobs : step[j] = "none" BY <1>2, <2>1
  <2>3. /\ \A j \in Jobs : step'[j] = IF j \in Ready THEN "begin" ELSE "none"
        /\ step'[Main] = "pool" /\ step'[Heart] = step[Heart]
    BY <2>1, <2>2 DEF Ready
  <2>4. ASSUME NEW u \in Threads
        PROVE  /\ step'[u] \in Snapshotting <=> step[u] \in Snapshotting
               /\ step[u] \in Snapshotting => step'[u] = step[u]
    <3>1. CASE u \in Jobs BY <2>2, <2>3, <3>1 DEF Snapshotting
    <3>2. CASE u = Main BY <2>1, <2>3, <3>2 DEF Snapshotting
    <3>3. CASE u = Heart BY <2>3, <3>3
    <3> QED BY <3>1, <3>2, <3>3
  <2>5. Exclusive' /\ Between'
    <3>1. \A k \in Jobs : Rank(mem[k]) <= Rank(mem'[k]) BY <1>1, <2>1
    <3> QED BY <2>1, <2>4, <3>1, BetweenSaves
  <2>6. Places' /\ OneSide' BY <2>1, <2>3 DEF IInv, Inv, Places, OneSide, InSave
  <2>7. Startable' BY <2>1, <2>3 DEF Startable, Ready
  <2>8. LastSave' /\ FinalFileIsTrue'
    BY <2>3 DEF LastSave, FinalFileIsTrue, Snapshotting, InSave
  <2> QED BY <2>5, <2>6, <2>7, <2>8 DEF Inv
<1>5. CASE PoolDone
  <2>1. /\ step[Main] = "pool" /\ \A j \in Jobs : step[j] = "none"
        /\ UNCHANGED <<mem, blocked, file, saving, seen, row>>
    BY <1>5 DEF PoolDone, table, NoSave, saver, CallSave
  <2>2. CASE raised
    <3>1. step' = [step EXCEPT ![Main] = "crash"] /\ after' = after
      BY <1>5, <2>2 DEF PoolDone, GoTo, NoSave, saver
    <3> QED BY <1>1, <2>1, <3>1, MainThreadStep
  <2>3. CASE ~raised
    <3>1. step' = [step EXCEPT ![Main] = "lock"] /\ after' = [after EXCEPT ![Main] = <<"tick", "crash">>]
      BY <1>5, <2>3 DEF PoolDone, GoTo, CallSave
    <3>2. <<"tick", "crash">> \in Steps \X Steps /\ <<"tick", "crash">> # <<"ended", "ended">>
      BY DEF Steps
    <3> QED BY <1>1, <1>3, <2>1, <3>1, <3>2, MainThreadStep
  <2> QED BY <2>2, <2>3
<1>6. ASSUME NEW j \in Jobs, NEW s \in {"completed", "failed"}, Finish(j, s) PROVE Inv'
  <2>1. /\ step[Main] = "tick" /\ mem[j] = "running" /\ mem' = [mem EXCEPT ![j] = s]
        /\ UNCHANGED <<file, saving, after, seen, row>>
    BY <1>6 DEF Finish, Assign, saver
  <2>2. /\ \A k \in Jobs : Rank(mem[k]) <= Rank(mem'[k])
        /\ \A k \in Jobs : mem'[k] = IF k = j THEN s ELSE mem[k]
    <3>1. s \in Statuses /\ Rank(mem[j]) <= Rank(s) BY <2>1, RankFacts DEF Statuses
    <3> QED BY <1>0, <2>1, <3>1, AssignRank
  <2>3. CASE s = "failed"
    <3>1. step' = [step EXCEPT ![Main] = "skip"] /\ blocked' = [blocked EXCEPT ![Main] = {j}]
      BY <1>6, <2>3 DEF Finish, GoTo
    <3>2. blocked'[Main] = {j} BY <1>0, <3>1 DEF TypeOK
    <3> QED BY <1>2, <2>1, <2>2, <2>3, <3>1, <3>2, MainThreadStep
  <2>4. CASE s = "completed"
    <3>1. step' = step BY <1>6, <2>4 DEF Finish
    <3>2. step' = [step EXCEPT ![Main] = "tick"] BY <1>0, <2>1, <3>1 DEF TypeOK
    <3> QED BY <1>2, <2>1, <2>2, <3>2, MainThreadStep
  <2> QED BY <2>3, <2>4
<1>7. CASE TickDone \/ LeaveLoop
  <2>1. PICK s \in {"scan", "leave"} : step' = [step EXCEPT ![Main] = s]
    BY <1>7 DEF TickDone, LeaveLoop, GoTo
  <2>2. step[Main] = "tick" /\ UNCHANGED <<mem, file, saving, after, seen, row>>
    BY <1>7 DEF TickDone, LeaveLoop, table, saver
  <2> QED BY <1>1, <1>2, <2>1, <2>2, MainThreadStep
<1>8. CASE Crash
  <2>1. /\ step[Main] = "crash" /\ step' = [step EXCEPT ![Main] = "lock"]
        /\ after' = [after EXCEPT ![Main] = <<"leave", "leave">>]
        /\ UNCHANGED <<mem, file, saving, seen, row>>
    BY <1>8 DEF Crash, CallSave, GoTo, table
  <2>2. <<"leave", "leave">> \in Steps \X Steps /\ <<"leave", "leave">> # <<"ended", "ended">>
    BY DEF Steps
  <2> QED BY <1>1, <1>2, <1>3, <2>1, <2>2, MainThreadStep
<1>9. CASE StopHeart
  <2>1. /\ step[Main] = "leave" /\ step' = [step EXCEPT ![Main] = "join"] /\ stop'
        /\ UNCHANGED <<mem, file, saving, after, seen, row>>
    BY <1>9 DEF StopHeart, GoTo, table, saver
  <2> QED BY <1>1, <1>2, <2>1, MainThreadStep
<1>10. CASE Disown
  <2>1. /\ step[Main] = "join" /\ step' = [step EXCEPT ![Main] = "lock"] /\ ~owned'
        /\ after' = [after EXCEPT ![Main] = <<"ended", "ended">>]
        /\ UNCHANGED <<mem, file, saving, seen, row, stop>>
    BY <1>10 DEF Disown, CallSave, GoTo
  <2>2. <<"ended", "ended">> \in Steps \X Steps BY DEF Steps
  <2>3. stop' BY <2>1 DEF IInv, Inv, LastSave
  <2> QED BY <1>1, <1>2, <1>3, <2>1, <2>2, <2>3, MainThreadStep
<1> QED BY <1>4, <1>5, <1>6, <1>7, <1>8, <1>9, <1>10 DEF MainStep

-----------------------------------------------------------------------------
(* The theorems.                                                            *)

LEMMA NextInv == IInv /\ [Next]_vars => IInv'
<1> SUFFICES ASSUME IInv, [Next]_vars PROVE IInv' OBVIOUS
<1>1. TypeOK' BY TypeStep DEF IInv
<1>2. ASSUME step[Main] # "ended", NEW t \in Threads, SaveStep(t) PROVE Inv'
  BY <1>1, <1>2, LockStep, ReadStep, RestStep, WriteStep, FailStep DEF SaveStep
<1>3. ASSUME UNCHANGED vars PROVE Inv'
  <2> USE <1>3 DEF IInv, Inv, vars, table, saver
  <2>1. Exclusive' /\ Places' /\ OneSide' BY DEF Exclusive, Places, OneSide
  <2>2. Startable' BY DEF Startable
  <2>3. Between' BY DEF Between
  <2>4. LastSave' /\ FinalFileIsTrue' BY DEF LastSave, FinalFileIsTrue
  <2> QED BY <2>1, <2>2, <2>3, <2>4
<1>4. ASSUME step[Main] # "ended", ~UNCHANGED vars PROVE Inv'
  <2>1. CASE \E t \in Threads : SaveStep(t) BY <1>2, <1>4, <2>1
  <2>2. CASE \E t \in Jobs \cup {Main} : Propagate(t) BY <1>1, <1>4, <2>2, PropagateStep
  <2>3. CASE \E j \in Jobs : PoolStep(j) BY <1>1, <1>4, <2>3, PoolStepKeeps
  <2>4. CASE Beat BY <1>1, <1>4, <2>4, BeatStep
  <2>5. CASE MainStep BY <1>1, <1>4, <2>5, MainStepKeeps
  <2> QED BY <1>4, <2>1, <2>2, <2>3, <2>4, <2>5 DEF Next, Over
<1>5. CASE step[Main] = "ended" /\ ~UNCHANGED vars BY <1>5 DEF Next, Over
<1> QED BY <1>1, <1>3, <1>4, <1>5 DEF IInv

\* The invariant holds in every reachable state.
THEOREM StateFileInvariant == Spec => []IInv
<1>1. Init => IInv BY InitInv
<1>2. IInv /\ [Next]_vars => IInv' BY NextInv
<1> QED BY <1>1, <1>2, PTL DEF Spec

\* Tables, snapshots and program points keep their types (state.py: save_state).
THEOREM StateFileTypeCorrect == Spec => []TypeOK
<1>1. IInv => TypeOK BY DEF IInv
<1> QED BY <1>1, StateFileInvariant, PTL

\* A run that ends with every save done leaves the final table and no heartbeat
\* (the finally clause of run_lifecycle).
THEOREM FinalFile == Spec => []FinalFileIsTrue
<1>1. IInv => FinalFileIsTrue BY DEF IInv, Inv
<1> QED BY <1>1, StateFileInvariant, PTL

\* No save takes the file back (_SAVE_LOCK around snapshot and replacement).
THEOREM FileNeverGoesBack == Spec => LatestSaveWins
<1>1. IInv /\ [Next]_vars
      => [\A j \in Jobs : Rank(file'.jobs[j]) >= Rank(file.jobs[j])]_file
  <2> SUFFICES ASSUME IInv, [Next]_vars, file' # file
               PROVE  \A j \in Jobs : Rank(file'.jobs[j]) >= Rank(file.jobs[j])
    OBVIOUS
  <2>1. TypeOK' BY TypeStep DEF IInv
  <2>2. ~(\E t \in Jobs \cup {Main} : Propagate(t)) BY DEF Propagate
  <2>3. ~(\E j \in Jobs : PoolStep(j))
    BY DEF PoolStep, BeginJob, Work, FailOwn, FinishJob, CallSave
  <2>4. ~Beat /\ ~UNCHANGED vars BY DEF Beat, CallSave, vars
  <2>5. ~MainStep
    BY DEF MainStep, StartBatch, PoolDone, TickDone, LeaveLoop, Crash, StopHeart, Disown, Finish,
           CallSave, NoSave
  <2>6. PICK t \in Threads : SaveStep(t) /\ step[Main] # "ended"
    BY <2>2, <2>3, <2>4, <2>5 DEF Next, Over
  <2>7. WriteFile(t) BY <2>6 DEF SaveStep, LockSave, ReadRow, ReadRest, WriteFails
  <2> QED BY <2>1, <2>6, <2>7, WriteStep
<1> QED BY <1>1, StateFileInvariant, PTL DEF Spec, LatestSaveWins
=============================================================================
