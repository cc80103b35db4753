-------------------------- MODULE SupervisionProofs --------------------------
(***************************************************************************)
(* The money and the timers of a job, for every value of the budgets and   *)
(* timeouts and for behaviours of any length: nothing is counted twice     *)
(* (IInv), the balance is exact while every pod is one that is charged     *)
(* (Exact), and a timer that counts belongs to the pod in use (Timed).     *)
(***************************************************************************)
EXTENDS Supervision, TLAPS

\* The pod bills and what it bills is still to be charged.
Billing(j) == ~released /\ j.finished = None /\ j.started # None

\* What is counted and what can still be counted was paid for.
Covered ==
  "interrupted" \notin odd =>
    /\ total <= paid
    /\ Billing(job) => total + Gain(job) <= paid

\* A pod that was let go is charged no more: the job is between two pods, and gets
\* a new start with the next one, or it is over.
LetGo ==
  "interrupted" \notin odd =>
    (released /\ job.started # None /\ job.status \in Live => place \in {"create", "backoff"})

\* The record of the job fits the pod.
Consistent ==
  /\ alive => ~released
  /\ ~released => job.pod
  /\ job.status \in Live => job.finished = None
  /\ job.status = "pending" => /\ place = "off" /\ ~job.pod
                               /\ job.started = None /\ job.finished = None
  /\ job.status = "running" => job.started # None
  /\ place \in {"create", "deploy"} => job.status = "provisioning"
  /\ place = "create" => (~job.pod <=> released)
  /\ place = "finish" => job.status \in Live
  /\ place \in {"asleep", "down"} => job.status \in {"provisioning", "running"}
  /\ place = "backoff" => job.status = "running" /\ released
  /\ job.status \in Over /\ job.pod /\ job.finished = None => job.started = None \/ stopped

IInv == TypeOK /\ Consistent /\ Covered /\ LetGo

-----------------------------------------------------------------------------

\* What a charge adds is a natural number and keeps the cost within the time there
\* was, and right after it nothing is left to charge.
LEMMA GainFacts ==
  ASSUME now \in Times, NEW j \in JobRecord
  PROVE  /\ Gain(j) \in Nat /\ j.cost + Gain(j) \in Times
         /\ Accrued(j) \in JobRecord
         /\ Accrued(j) = [j EXCEPT !.cost = j.cost + Gain(j)]
         /\ j.started = None => Gain(j) = 0
         /\ j.started = now => Gain(j) = 0
         /\ Elapsed(j) <= j.cost + Gain(j)
<1> USE SupervisionAssumption
<1>1. /\ j.cost \in Times /\ j.started \in Times \cup {None}
      /\ j.finished \in Times \cup {None}
  BY DEF JobRecord
<1>2. Elapsed(j) \in Int /\ Elapsed(j) <= MaxTime
      /\ (j.started = None => Elapsed(j) = 0) /\ (j.started = now => Elapsed(j) <= 0)
  <2>1. CASE j.started = None BY <1>1, <2>1 DEF Elapsed, Times, None
  <2>2. CASE j.started # None /\ j.finished # None /\ j.finished < now
    <3>1. Elapsed(j) = j.finished - j.started BY <2>2 DEF Elapsed
    <3> QED BY <1>1, <2>2, <3>1 DEF Times, None
  <2>3. CASE j.started # None /\ ~(j.finished # None /\ j.finished < now)
    <3>1. Elapsed(j) = now - j.started BY <2>3 DEF Elapsed
    <3> QED BY <1>1, <2>3, <3>1 DEF Times, None
  <2> QED BY <2>1, <2>2, <2>3
<1>3. Gain(j) \in Nat /\ j.cost + Gain(j) \in Times /\ Elapsed(j) <= j.cost + Gain(j)
  BY <1>1, <1>2 DEF Gain, Times
<1>4. Accrued(j) = [j EXCEPT !.cost = j.cost + Gain(j)] BY DEF Accrued
<1>5. Accrued(j) \in JobRecord BY <1>3, <1>4 DEF JobRecord
<1>6. (j.started = None => Gain(j) = 0) /\ (j.started = now => Gain(j) = 0)
  BY <1>1, <1>2 DEF Gain, Times
<1> QED BY <1>3, <1>4, <1>5, <1>6

\* The records the other helpers return.
LEMMA RecordFacts ==
  ASSUME now \in Times, NEW j \in JobRecord
  PROVE  /\ Pass(j) \in JobRecord /\ Pass(j).status = "provisioning" /\ ~Pass(j).pod
         /\ Pass(j).started = j.started /\ Pass(j).finished = j.finished
         /\ Pass(j).cost = j.cost
         /\ ResetForRetry(j) \in JobRecord /\ ResetForRetry(j).started = None
         /\ ResetForRetry(j).finished = None /\ ResetForRetry(j).status = "pending"
         /\ ResetForRetry(j).pod = j.pod
         /\ MarkFinished(j) \in JobRecord /\ MarkFinished(j).status = j.status
         /\ MarkFinished(j).pod = j.pod
         /\ MarkFinished(j).started = j.started /\ MarkFinished(j).cost = j.cost
         /\ j.started # None => MarkFinished(j).finished # None
<1> USE SupervisionAssumption
<1>1. /\ Pass(j) \in JobRecord /\ Pass(j).status = "provisioning" /\ ~Pass(j).pod
      /\ Pass(j).started = j.started /\ Pass(j).finished = j.finished
      /\ Pass(j).cost = j.cost
  <2> DEFINE a == IF j.attempts < MaxAttempts THEN j.attempts + 1 ELSE j.attempts
  <2>1. a \in 0 .. MaxAttempts BY DEF JobRecord
  <2>2. Pass(j) = [j EXCEPT !.status = "provisioning", !.pod = FALSE, !.attempts = a]
    BY DEF Pass
  <2> HIDE DEF a
  <2> QED BY <2>1, <2>2 DEF JobRecord, Live
<1>2. /\ ResetForRetry(j) \in JobRecord /\ ResetForRetry(j).started = None
      /\ ResetForRetry(j).finished = None /\ ResetForRetry(j).status = "pending"
      /\ ResetForRetry(j).pod = j.pod
  BY DEF ResetForRetry, FreshJob, JobRecord, None, Times
<1>3. /\ MarkFinished(j) \in JobRecord /\ MarkFinished(j).status = j.status
      /\ MarkFinished(j).pod = j.pod
      /\ MarkFinished(j).started = j.started /\ MarkFinished(j).cost = j.cost
      /\ j.started # None => MarkFinished(j).finished # None
  BY DEF MarkFinished, JobRecord, None, Times
<1> QED BY <1>1, <1>2, <1>3

-----------------------------------------------------------------------------

\* A step that leaves alone what has been charged, what the job's times are and
\* whether the pod was let go changes nothing about the money.
LEMMA MoneyKept ==
  ASSUME IInv, now' = now, total' = total, paid' = paid, released' = released,
         odd' = odd, job' \in JobRecord, job'.started = job.started,
         job'.finished = job.finished, job'.cost = job.cost,
         job'.status = job.status
  PROVE  Covered'
BY DEF IInv, Covered, Billing, Gain, Elapsed

\* Time: whatever can be charged grows by one unit only while the pod is paid for.
LEMMA AdvanceStep == IInv /\ Advance => IInv'
<1> SUFFICES ASSUME IInv, Advance PROVE IInv' OBVIOUS
<1> USE SupervisionAssumption
<1>1. TypeOK /\ Consistent /\ Covered /\ LetGo BY DEF IInv
<1>2. /\ now \in Times /\ now + 1 \in Times /\ now' = now + 1
      /\ job' = job /\ total' = total /\ odd' = odd /\ released' = released
      /\ place' = place /\ alive' = alive /\ stopped' = stopped
      /\ paid' = IF job.pod /\ ~released /\ job.finished = None THEN paid + 1 ELSE paid
  BY <1>1 DEF Advance, pod, tally, TypeOK, Times
<1>3. TypeOK' BY <1>1, <1>2 DEF TypeOK, Advance, pod, tally
<1>4. Consistent' /\ LetGo' BY <1>1, <1>2 DEF Consistent, LetGo, Live, Over
<1>5. Covered'
  <2> SUFFICES ASSUME "interrupted" \notin odd
               PROVE  total <= paid' /\ (Billing(job) => total + Gain(job)' <= paid')
    BY <1>2 DEF Covered, Billing
  <2>1. total \in Nat /\ paid \in Nat /\ job \in JobRecord BY <1>1 DEF TypeOK
  <2>2. total <= paid' BY <1>1, <1>2, <2>1 DEF Covered
  <2>3. ASSUME Billing(job) PROVE total + Gain(job)' <= paid'
    <3>1. job.pod /\ paid' = paid + 1 BY <1>1, <1>2, <2>3 DEF Consistent, Billing
    <3>2. total + Gain(job) <= paid BY <1>1, <2>3 DEF Covered
    <3>3. Elapsed(job)' = Elapsed(job) + 1 /\ Elapsed(job) \in Int
      BY <1>2, <2>1, <2>3 DEF Elapsed, Billing, JobRecord, Times, None
    <3>4. Gain(job)' <= Gain(job) + 1 /\ Gain(job) \in Nat /\ Gain(job)' \in Nat
      BY <1>2, <2>1, <3>3 DEF Gain, JobRecord, Times
    <3> QED BY <2>1, <3>1, <3>2, <3>4
  <2> QED BY <2>2, <2>3
<1> QED BY <1>3, <1>4, <1>5 DEF IInv

\* The process and the provider touch no money.
LEMMA EnvironmentStep == IInv /\ (ProcessMoves \/ SpotLoss) => IInv'
<1> SUFFICES ASSUME IInv, ProcessMoves \/ SpotLoss PROVE IInv' OBVIOUS
<1>1. TypeOK /\ Consistent /\ Covered /\ LetGo BY DEF IInv
<1>2. /\ now' = now /\ job' = job /\ total' = total /\ odd' = odd /\ paid' = paid
      /\ released' = released /\ place' = place /\ (alive' => alive) /\ stopped' = stopped
  BY DEF ProcessMoves, SpotLoss, tally
<1>3. TypeOK'
  <2>1. CASE ProcessMoves BY <1>1, <1>2, <2>1 DEF TypeOK, ProcessMoves, tally
  <2>2. CASE SpotLoss BY <1>1, <1>2, <2>2 DEF TypeOK, SpotLoss, tally
  <2> QED BY <2>1, <2>2
<1>4. Consistent' /\ LetGo' BY <1>1, <1>2 DEF Consistent, LetGo, Live, Over
<1>5. Covered' BY <1>1, <1>2, MoneyKept DEF TypeOK
<1> QED BY <1>3, <1>4, <1>5 DEF IInv

-----------------------------------------------------------------------------

\* A command resets the job it retries, which has nothing to charge then.
LEMMA StartStep == IInv /\ Start => IInv'
<1> SUFFICES ASSUME IInv, Start PROVE IInv' OBVIOUS
<1> USE SupervisionAssumption
<1>1. TypeOK /\ Consistent /\ Covered /\ LetGo BY DEF IInv
<1>2. PICK retry \in BOOLEAN :
        LET j == IF retry THEN ResetForRetry(job) ELSE job
        IN  /\ retry => job.status \in Over
            /\ CASE j.status # "pending" -> /\ place' = "loop" /\ job' = j
                                            /\ UNCHANGED <<pod, odd>>
                 [] j.status = "pending" /\ Reuses(j) ->
                      /\ place' = "deploy" /\ job' = [j EXCEPT !.status = "provisioning"]
                      /\ odd' = odd \cup {"reused"} /\ UNCHANGED pod
                 [] OTHER -> /\ place' = "create" /\ job' = Pass(j)
                             /\ NoPod /\ UNCHANGED odd
  BY DEF Start
<1> DEFINE j == IF retry THEN ResetForRetry(job) ELSE job
<1>3. /\ now \in Times /\ job \in JobRecord /\ now' = now /\ total' = total /\ paid' = paid
      /\ total \in Nat /\ paid \in Nat /\ place = "off"
      /\ first' = TRUE /\ stopped' = stopped /\ verdict' = verdict
  BY <1>1 DEF TypeOK, Start
<1>4. j \in JobRecord BY <1>3, RecordFacts
<1>5. /\ j.status = "pending" => j.started = None /\ j.finished = None
      /\ j.status # "pending" => j = job
      /\ j.pod = job.pod
  BY <1>1, <1>3, RecordFacts DEF Consistent
<1>6. CASE j.status # "pending"
  <2>1. place' = "loop" /\ job' = job /\ UNCHANGED <<pod, odd>> BY <1>2, <1>5, <1>6
  <2>2. TypeOK' BY <1>1, <1>3, <2>1 DEF TypeOK, pod
  <2>3. Consistent' /\ LetGo' BY <1>1, <1>3, <1>5, <1>6, <2>1 DEF Consistent, LetGo, pod, Live, Over
  <2>4. Covered' BY <1>3, <2>1, MoneyKept DEF pod
  <2> QED BY <2>2, <2>3, <2>4 DEF IInv
<1>7. CASE j.status = "pending" /\ Reuses(j)
  <2>1. /\ place' = "deploy" /\ job' = [j EXCEPT !.status = "provisioning"]
        /\ odd' = odd \cup {"reused"} /\ UNCHANGED pod
    BY <1>2, <1>7
  <2>2. /\ job' \in JobRecord /\ job'.status = "provisioning" /\ job'.pod = j.pod
        /\ job'.started = None /\ job'.finished = None
    BY <1>4, <1>5, <1>7, <2>1 DEF JobRecord, Live
  <2>3. TypeOK' BY <1>1, <1>3, <2>1, <2>2 DEF TypeOK, pod
  <2>4. Consistent' BY <1>1, <1>5, <2>1, <2>2 DEF Consistent, pod, Live, Over
  <2>5. LetGo' /\ Covered'
    BY <1>1, <1>3, <2>1, <2>2 DEF LetGo, Covered, Billing, pod
  <2> QED BY <2>3, <2>4, <2>5 DEF IInv
<1>8. CASE j.status = "pending" /\ ~Reuses(j)
  <2>1. place' = "create" /\ job' = Pass(j) /\ NoPod /\ odd' = odd BY <1>2, <1>8
  <2>2. /\ job' \in JobRecord /\ job'.status = "provisioning" /\ ~job'.pod
        /\ job'.started = None /\ job'.finished = None
    BY <1>3, <1>4, <1>5, <1>8, <2>1, RecordFacts
  <2>3. TypeOK' BY <1>1, <1>3, <2>1, <2>2 DEF TypeOK, NoPod
  <2>4. Consistent' BY <2>1, <2>2 DEF Consistent, NoPod, Live, Over
  <2>5. LetGo' /\ Covered'
    BY <1>1, <1>3, <2>1, <2>2 DEF LetGo, Covered, Billing, NoPod
  <2> QED BY <2>3, <2>4, <2>5 DEF IInv
<1> QED BY <1>6, <1>7, <1>8

\* A new pod starts with nothing to charge, the pod before it was let go, and what
\* fails is not charged.
LEMMA PipelineStep == IInv /\ Pipeline => IInv'
<1> SUFFICES ASSUME IInv, Pipeline PROVE IInv' OBVIOUS
<1> USE SupervisionAssumption
<1>1. TypeOK /\ Consistent /\ Covered /\ LetGo BY DEF IInv
<1>2. now \in Times /\ job \in JobRecord /\ total \in Nat /\ paid \in Nat BY <1>1 DEF TypeOK
<1>3. CASE CreatePod
  <2>1. /\ job' \in JobRecord /\ job'.status = "provisioning" /\ job'.pod
        /\ job'.started = now /\ job'.finished = job.finished /\ job'.cost = job.cost
    BY <1>1, <1>2, <1>3 DEF CreatePod, Consistent, JobRecord
  <2>2. TypeOK' BY <1>1, <1>3, <2>1 DEF TypeOK, CreatePod
  <2>3. Consistent' BY <1>1, <1>3, <2>1 DEF Consistent, CreatePod, Live, Over
  <2>4. LetGo' BY <1>3 DEF LetGo, CreatePod
  <2>5. now' = now /\ total' = total /\ paid' = paid /\ odd' \in {odd, odd \cup {"replaced"}}
    BY <1>3 DEF CreatePod
  <2>6. Gain(job)' = 0 BY <2>1, <2>2, <2>5, <1>2, GainFacts DEF Gain, Elapsed
  <2>7. Covered' BY <1>1, <1>2, <2>5, <2>6 DEF Covered
  <2> QED BY <2>2, <2>3, <2>4, <2>7 DEF IInv
<1>4. CASE PodUnreachable
  <2>1. /\ job' \in JobRecord /\ job'.status = job.status /\ ~job'.pod
        /\ job'.started = job.started /\ job'.finished = job.finished
    BY <1>2, <1>4 DEF PodUnreachable, JobRecord
  <2>2. TypeOK' BY <1>1, <1>4, <2>1 DEF TypeOK, PodUnreachable, NoPod
  <2>3. Consistent' BY <1>1, <1>4, <2>1 DEF Consistent, PodUnreachable, NoPod, Live, Over
  <2>4. LetGo' /\ Covered'
    BY <1>1, <1>4 DEF LetGo, Covered, Billing, PodUnreachable, NoPod
  <2> QED BY <2>2, <2>3, <2>4 DEF IInv
<1>5. CASE PodReady
  <2>1. TypeOK' BY <1>1, <1>5 DEF TypeOK, PodReady, pod, tally
  <2>2. Consistent' BY <1>1, <1>5 DEF Consistent, PodReady, pod, Live, Over
  <2>3. LetGo' BY <1>1, <1>5 DEF LetGo, Consistent, PodReady, pod, tally
  <2>4. Covered' BY <1>2, <1>5, MoneyKept DEF PodReady, pod, tally
  <2> QED BY <2>1, <2>2, <2>3, <2>4 DEF IInv
<1>6. CASE PipelineFails
  <2>1. [job EXCEPT !.status = "failed"] \in JobRecord BY <1>2 DEF JobRecord, Over
  <2>2. /\ job' \in JobRecord /\ job'.status = "failed" /\ job'.pod = job.pod
        /\ job'.started # None => job'.finished # None
    BY <1>2, <1>6, <2>1, RecordFacts DEF PipelineFails, JobRecord
  <2>3. place' \in {"loop", "check"} BY <1>6 DEF PipelineFails, AfterPipeline
  <2>4. TypeOK' BY <1>1, <1>6, <2>2, <2>3 DEF TypeOK, PipelineFails, NoPod
  <2>5. Consistent' BY <1>6, <2>2, <2>3 DEF Consistent, PipelineFails, NoPod, Live, Over
  <2>6. LetGo' /\ Covered'
    BY <1>1, <1>6, <2>2 DEF LetGo, Covered, Billing, PipelineFails, NoPod, Live
  <2> QED BY <2>4, <2>5, <2>6 DEF IInv
<1>7. CASE Launch
  <2>1. /\ job' \in JobRecord /\ job'.status = "running" /\ job'.pod = job.pod
        /\ job'.started = IF job.started = None THEN now ELSE job.started
        /\ job'.finished = job.finished /\ job'.cost = job.cost
    BY <1>2, <1>7 DEF Launch, JobRecord, Live
  <2>2. place' \in {"loop", "check"} BY <1>7 DEF Launch, AfterPipeline
  <2>3. TypeOK' BY <1>1, <1>7, <2>1, <2>2 DEF TypeOK, Launch, tally
  <2>4. job'.started # None BY <1>2, <2>1 DEF Times, None
  <2>5. Consistent' BY <1>1, <1>7, <2>1, <2>2, <2>4 DEF Consistent, Launch, Live, Over
  <2>6. LetGo' BY <1>1, <1>7 DEF LetGo, Consistent, Launch
  <2>7. /\ now' = now /\ total' = total /\ paid' = paid /\ odd' = odd /\ released' = released
    BY <1>7 DEF Launch, tally
  <2>8. Covered'
    <3>1. CASE job.started = None
      <4>1. Gain(job)' = 0 BY <1>2, <2>1, <2>7, <3>1, GainFacts DEF Gain, Elapsed
      <4> QED BY <1>1, <1>2, <2>7, <4>1 DEF Covered
    <3>2. CASE job.started # None
      BY <1>1, <2>1, <2>7, <3>2 DEF Covered, Billing, Gain, Elapsed
    <3> QED BY <3>1, <3>2
  <2> QED BY <2>3, <2>5, <2>6, <2>8 DEF IInv
<1> QED BY <1>3, <1>4, <1>5, <1>6, <1>7 DEF Pipeline

-----------------------------------------------------------------------------

\* Charging what is due keeps the total within what was paid for, and the record
\* differs in its cost only.
LEMMA ChargeFacts ==
  ASSUME IInv, job.status \in Live, place \notin {"create", "backoff"}
  PROVE  /\ Accrued(job) \in JobRecord /\ total + Gain(job) \in Nat
         /\ Accrued(job).status = job.status /\ Accrued(job).pod = job.pod
         /\ Accrued(job).started = job.started /\ Accrued(job).finished = None
         /\ "interrupted" \notin odd => total + Gain(job) <= paid
<1>1. TypeOK /\ Consistent /\ Covered /\ LetGo BY DEF IInv
<1>2. now \in Times /\ job \in JobRecord /\ total \in Nat BY <1>1 DEF TypeOK
<1>3. Gain(job) \in Nat /\ (job.started = None => Gain(job) = 0) BY <1>2, GainFacts
<1>4. job.finished = None BY <1>1 DEF Consistent
<1>5. /\ Accrued(job) \in JobRecord
      /\ Accrued(job).status = job.status /\ Accrued(job).pod = job.pod
      /\ Accrued(job).started = job.started /\ Accrued(job).finished = job.finished
  BY <1>2, GainFacts DEF JobRecord
<1>6. ASSUME "interrupted" \notin odd PROVE total + Gain(job) <= paid
  <2>1. CASE job.started = None BY <1>1, <1>2, <1>3, <1>6, <2>1 DEF Covered
  <2>2. CASE job.started # None
    <3>1. ~released BY <1>1, <1>6, <2>2 DEF LetGo
    <3> QED BY <1>1, <1>4, <1>6, <2>2, <3>1 DEF Covered, Billing
  <2> QED BY <2>1, <2>2
<1> QED BY <1>2, <1>3, <1>4, <1>5, <1>6

\* After a charge nothing is left to charge, whatever else changes in the record.
LEMMA NothingLeft ==
  ASSUME TypeOK, NEW k \in JobRecord, k.started = job.started, k.finished = job.finished,
         k.cost = job.cost + Gain(job)
  PROVE  Gain(k) = 0
<1>1. now \in Times /\ job \in JobRecord BY DEF TypeOK
<1>2. Elapsed(k) = Elapsed(job) BY DEF Elapsed
<1>3. Elapsed(job) <= k.cost BY <1>1, GainFacts
<1>4. Elapsed(k) \in Int /\ k.cost \in Int
  BY <1>1 DEF Elapsed, JobRecord, Times, None
<1> QED BY <1>2, <1>3, <1>4 DEF Gain

\* The record m is k as far as money and the pod go.
SameCharge(m, k) ==
  /\ m \in JobRecord /\ m.status = k.status /\ m.pod = k.pod
  /\ m.started = k.started /\ m.finished = k.finished /\ m.cost = k.cost

\* The branches of a tick that know the pod change timers and confirmations only.
LEMMA BranchFacts ==
  ASSUME TypeOK, NEW j \in JobRecord,
         TickRunning(j) \/ TickExited(j) \/ TickIdle(j) \/ TickUnknown(j)
  PROVE  SameCharge(job', j)
<1> USE SupervisionAssumption
<1>1. now \in Times /\ 0 \in 0 .. Confirmations BY DEF TypeOK
<1>2. CASE TickRunning(j)
  <2> DEFINE since == IF j.stalled = None THEN now ELSE j.stalled
  <2>1. since \in Times \cup {None} BY <1>1 DEF JobRecord
  <2>2. \E quiet \in {FALSE, proc = "quiet"} :
          job' = [j EXCEPT !.idle = None, !.gone = 0, !.stalled = IF quiet THEN since ELSE None]
    BY <1>2 DEF TickRunning
  <2>3. \E t \in {since, None} : job' = [j EXCEPT !.idle = None, !.gone = 0, !.stalled = t]
    <3> HIDE DEF since
    <3> QED BY <2>2
  <2>4. PICK t \in {since, None} : job' = [j EXCEPT !.idle = None, !.gone = 0, !.stalled = t]
    BY <2>3
  <2>5. t \in Times \cup {None} BY <2>1
  <2> HIDE DEF since
  <2> QED BY <1>1, <2>4, <2>5 DEF SameCharge, JobRecord
<1>3. CASE TickExited(j) BY <1>3 DEF TickExited, SameCharge
<1>4. CASE TickIdle(j)
  <2> DEFINE t == IF j.idle = None THEN now ELSE j.idle
  <2>1. t \in Times \cup {None} BY <1>1 DEF JobRecord
  <2>2. job' = [j EXCEPT !.gone = 0, !.idle = t] BY <1>4 DEF TickIdle
  <2> HIDE DEF t
  <2> QED BY <1>1, <2>1, <2>2 DEF SameCharge, JobRecord
<1>5. CASE TickUnknown(j)
  <2>1. job' = j \/ job' = [j EXCEPT !.gone = 0] BY <1>5 DEF TickUnknown
  <2> QED BY <1>1, <2>1 DEF SameCharge, JobRecord
<1> QED BY <1>2, <1>3, <1>4, <1>5

\* A confirmation that the pod is gone leaves the start of the job alone.
LEMMA GoneKeepsStart ==
  ASSUME TypeOK, NEW j \in JobRecord, TickGone(j)
  PROVE  job'.started = j.started
<1> USE SupervisionAssumption
<1> DEFINE g == IF j.gone + 1 >= Confirmations THEN Confirmations ELSE j.gone + 1
           k == [j EXCEPT !.gone = g]
           f == [k EXCEPT !.status = "failed"]
<1>1. now \in Times /\ g \in 0 .. Confirmations BY DEF TypeOK, JobRecord
<1>2. k \in JobRecord /\ k.started = j.started
  <2> HIDE DEF g
  <2> QED BY <1>1 DEF JobRecord
<1>3. f \in JobRecord /\ f.started = j.started
  <2> HIDE DEF k
  <2> QED BY <1>2 DEF JobRecord, Over
<1>4. MarkFinished(f).started = j.started
  <2> HIDE DEF f
  <2> QED BY <1>1, <1>3, RecordFacts
<1>5. job' = k \/ job' = MarkFinished(f) BY DEF TickGone
<1> QED BY <1>2, <1>4, <1>5

\* The branches of a tick leave the status, the pod and the times of the job alone,
\* or end the job, or let the pod go before the backoff.
LEMMA TickJobStep == IInv /\ TickJob => IInv'
<1> SUFFICES ASSUME IInv, TickJob PROVE IInv' OBVIOUS
<1> USE SupervisionAssumption
<1>1. TypeOK /\ Consistent /\ Covered /\ LetGo BY DEF IInv
<1> DEFINE j == Accrued(job)
<1>2. /\ place = "loop" /\ job.status = "running"
      /\ total' = total + Gain(job) /\ now' = now /\ paid' = paid /\ odd' = odd
      /\ alive' = alive /\ proc' = proc /\ first' = FALSE
  BY <1>1 DEF TickJob
<1>3. now \in Times /\ job \in JobRecord /\ total \in Nat /\ paid \in Nat BY <1>1 DEF TypeOK
<1>4. /\ j \in JobRecord /\ total' \in Nat /\ j.status = "running" /\ j.pod = job.pod
      /\ j.started = job.started /\ j.finished = None
      /\ "interrupted" \notin odd => total' <= paid
  BY <1>2, ChargeFacts DEF Live
<1>5. j.cost = job.cost + Gain(job) BY <1>3, GainFacts DEF JobRecord
<1>6. job.finished = None /\ job.started # None BY <1>1, <1>2 DEF Consistent, Live, Over
<1>7. "interrupted" \notin odd => ~released BY <1>1, <1>2, <1>6 DEF LetGo, Live
<1>8. ASSUME job' \in JobRecord, job'.status = "running", job'.pod = j.pod,
             job'.started = j.started, job'.finished = None, job'.cost = j.cost,
             place' \in {"check", "finish"}, released' = released, stopped' = stopped,
             verdict' \in {"none", "job_budget", "budget", "stall", "idle", "exit0", "exit1"}
      PROVE  IInv'
  <2>1. TypeOK' BY <1>1, <1>2, <1>4, <1>8 DEF TypeOK
  <2>2. Consistent' BY <1>1, <1>2, <1>4, <1>6, <1>8 DEF Consistent, Live, Over
  <2>3. LetGo' BY <1>2, <1>7, <1>8 DEF LetGo
  <2>4. Gain(job') = 0 BY <1>1, <1>4, <1>5, <1>6, <1>8, NothingLeft
  <2>5. Gain(job)' = 0 BY <1>2, <2>4 DEF Gain, Elapsed
  <2>6. Covered' BY <1>2, <1>4, <2>5 DEF Covered
  <2> QED BY <2>1, <2>2, <2>3, <2>6 DEF IInv
<1>9. CASE UNCHANGED <<stopped, released>> /\ (OverJobBudget(j) \/ TickRunning(j)
             \/ TickExited(j) \/ TickIdle(j) \/ TickUnknown(j)) /\ ~TickGone(j)
  <2>0. verdict \in {"none", "job_budget", "budget", "stall", "idle", "exit0", "exit1"}
        /\ proc \in {"none", "busy", "quiet", "vanished", "exit0", "exit1"}
    BY <1>1 DEF TypeOK
  <2>1. CASE job' = j /\ Finish("job_budget")
    BY <1>4, <1>8, <1>9, <2>1 DEF Finish
  <2>2. CASE TickRunning(j) \/ TickExited(j) \/ TickIdle(j) \/ TickUnknown(j)
    <3>1. SameCharge(job', j) BY <1>1, <1>4, <2>2, BranchFacts
    <3>2. \/ Finish("stall") \/ Finish("idle") \/ Resting
          \/ Finish(proc) /\ proc \in {"exit0", "exit1"}
      <4>1. CASE TickRunning(j) BY <4>1 DEF TickRunning
      <4>2. CASE TickExited(j) BY <4>2 DEF TickExited
      <4>3. CASE TickIdle(j) BY <4>3 DEF TickIdle
      <4>4. CASE TickUnknown(j) BY <4>4 DEF TickUnknown
      <4> QED BY <2>2, <4>1, <4>2, <4>3, <4>4
    <3> QED BY <1>4, <1>8, <1>9, <2>0, <3>1, <3>2 DEF Finish, Resting, SameCharge
  <2> QED BY <1>9, <2>1, <2>2 DEF TickJob
<1>10. CASE TickGone(j)
  <2> DEFINE confirmed == j.gone + 1 >= Confirmations
             counted == [j EXCEPT !.gone = IF confirmed THEN Confirmations ELSE @ + 1]
  <2>1. /\ counted \in JobRecord /\ counted.status = "running" /\ counted.pod = j.pod
        /\ counted.started = j.started /\ counted.finished = None /\ counted.cost = j.cost
    <3>1. (IF confirmed THEN Confirmations ELSE j.gone + 1) \in 0 .. Confirmations
      BY <1>4 DEF JobRecord
    <3>2. SameCharge(counted, j)
      <4> DEFINE g == IF confirmed THEN Confirmations ELSE j.gone + 1
      <4>1. j \in JobRecord /\ g \in 0 .. Confirmations /\ counted = [j EXCEPT !.gone = g]
        BY <1>4, <3>1
      <4> HIDE DEF j, confirmed, counted, g
      <4> QED BY <4>1 DEF SameCharge, JobRecord
    <3> QED BY <1>4, <3>2 DEF SameCharge
  <2>2. CASE ~confirmed
    <3>1. job' = counted /\ Resting /\ UNCHANGED <<stopped, released>>
      BY <1>10, <2>2 DEF TickGone
    <3> QED BY <1>1, <1>8, <2>1, <3>1 DEF Resting, TypeOK
  <2>3. CASE confirmed /\ j.attempts >= MaxAttempts
    <3>1. /\ job' = MarkFinished([counted EXCEPT !.status = "failed"])
          /\ Resting /\ UNCHANGED <<stopped, released>>
      BY <1>10, <2>3 DEF TickGone
    <3>2. [counted EXCEPT !.status = "failed"] \in JobRecord
      BY <2>1 DEF JobRecord, Over
    <3>3. job' \in JobRecord /\ job'.status = "failed" /\ job'.pod = j.pod
          /\ job'.finished # None
      <4> DEFINE k == [counted EXCEPT !.status = "failed"]
      <4>1. k.status = "failed" /\ k.pod = j.pod /\ k.started # None
        BY <1>4, <1>6, <2>1 DEF JobRecord
      <4>2. k \in JobRecord /\ job' = MarkFinished(k) BY <3>1, <3>2
      <4> HIDE DEF k
      <4> QED BY <1>3, <4>1, <4>2, RecordFacts
    <3>4. TypeOK' BY <1>1, <1>2, <1>4, <3>1, <3>3 DEF TypeOK, Resting
    <3>5. Consistent' BY <1>1, <1>2, <1>4, <3>1, <3>3 DEF Consistent, Resting, Live, Over
    <3>6. LetGo' /\ Covered'
      BY <1>2, <1>4, <3>1, <3>3 DEF LetGo, Covered, Billing, Live
    <3> QED BY <3>4, <3>5, <3>6 DEF IInv
  <2>4. CASE confirmed /\ ~(j.attempts >= MaxAttempts)
    <3>1. /\ job' = counted /\ stopped' = TRUE /\ released' = TRUE
          /\ place' = "backoff" /\ verdict' = verdict /\ ~alive
      BY <1>10, <2>4 DEF TickGone
    <3>2. TypeOK' BY <1>1, <1>2, <1>4, <2>1, <3>1 DEF TypeOK
    <3>3. Consistent' BY <1>2, <1>4, <1>6, <2>1, <3>1 DEF Consistent, Live, Over
    <3>4. LetGo' /\ Covered' BY <1>2, <1>4, <3>1 DEF LetGo, Covered, Billing
    <3> QED BY <3>2, <3>3, <3>4 DEF IInv
  <2> QED BY <2>2, <2>3, <2>4
<1> QED BY <1>9, <1>10 DEF TickJob

\* A job that an earlier orchestrator left in its pipeline is charged and goes on.
LEMMA TickResumeStep == IInv /\ TickResume => IInv'
<1> SUFFICES ASSUME IInv, TickResume PROVE IInv' OBVIOUS
<1> USE SupervisionAssumption
<1>1. TypeOK /\ Consistent /\ Covered /\ LetGo BY DEF IInv
<1> DEFINE j == Accrued(job)
<1>2. /\ place = "loop" /\ job.status = "provisioning"
      /\ total' = total + Gain(job) /\ now' = now /\ paid' = paid /\ odd' = odd
      /\ first' = FALSE /\ stopped' = stopped /\ verdict' = verdict
  BY <1>1 DEF TickResume
<1>3. now \in Times /\ job \in JobRecord /\ total \in Nat /\ paid \in Nat BY <1>1 DEF TypeOK
<1>4. /\ j \in JobRecord /\ total' \in Nat /\ j.status = "provisioning" /\ j.pod = job.pod
      /\ j.started = job.started /\ j.finished = None
      /\ "interrupted" \notin odd => total' <= paid
  BY <1>1, <1>2, ChargeFacts DEF Live
<1>5. j.cost = job.cost + Gain(job) BY <1>3, GainFacts DEF JobRecord
<1>6. job.finished = None BY <1>1, <1>2 DEF Consistent, Live
<1>7. /\ Pass(j) \in JobRecord /\ Pass(j).status = "provisioning" /\ ~Pass(j).pod
      /\ Pass(j).started = j.started /\ Pass(j).finished = j.finished /\ Pass(j).cost = j.cost
  BY <1>3, <1>4, RecordFacts
<1>8. /\ job' \in JobRecord /\ job'.status = "provisioning" /\ job'.finished = None
      /\ job'.started = job.started /\ job'.cost = job.cost + Gain(job)
  BY <1>2, <1>4, <1>5, <1>7 DEF TickResume
<1>9. \/ job'.pod = job.pod /\ place' \in {"deploy", "check"} /\ UNCHANGED pod
      \/ ~job'.pod /\ place' = "create" /\ released' /\ alive' \in BOOLEAN /\ ~alive'
           /\ proc' \in {proc, "none"} /\ released' \in BOOLEAN
  BY <1>1, <1>2, <1>4, <1>7 DEF TickResume, Consistent, NoPod, pod, TypeOK
<1>10. TypeOK' BY <1>1, <1>2, <1>4, <1>8, <1>9 DEF TypeOK, pod
<1>11. Consistent' BY <1>1, <1>2, <1>8, <1>9 DEF Consistent, pod, Live, Over
<1>12. LetGo' BY <1>1, <1>2, <1>8, <1>9 DEF LetGo, pod, Live
<1>13. Gain(job') = 0 BY <1>1, <1>6, <1>8, NothingLeft
<1>14. Gain(job)' = 0 BY <1>2, <1>13 DEF Gain, Elapsed
<1>15. Covered' BY <1>2, <1>4, <1>14 DEF Covered
<1> QED BY <1>10, <1>11, <1>12, <1>15 DEF IInv

\* After the backoff the job looks for a pod; the one before was let go.
LEMMA RecoverStep == IInv /\ Recover => IInv'
<1> SUFFICES ASSUME IInv, Recover PROVE IInv' OBVIOUS
<1> USE SupervisionAssumption
<1>1. TypeOK /\ Consistent /\ Covered /\ LetGo BY DEF IInv
<1>2. now \in Times /\ job \in JobRecord BY <1>1 DEF TypeOK
<1>3. /\ Pass(job) \in JobRecord /\ Pass(job).status = "provisioning" /\ ~Pass(job).pod
      /\ Pass(job).started = job.started /\ Pass(job).finished = job.finished
  BY <1>2, RecordFacts
<1>4. job' = [Pass(job) EXCEPT !.gone = 0] /\ NoPod /\ place' = "create" /\ 0 \in 0 .. Confirmations
  BY DEF Recover
<1>5. /\ job' \in JobRecord /\ job'.status = "provisioning" /\ ~job'.pod
      /\ job'.finished = job.finished
  <2> DEFINE k == Pass(job)
  <2>1. k \in JobRecord /\ job' = [k EXCEPT !.gone = 0] BY <1>3, <1>4
  <2>2. k.status = "provisioning" /\ ~k.pod /\ k.finished = job.finished BY <1>3
  <2> HIDE DEF k
  <2> QED BY <1>4, <2>1, <2>2 DEF JobRecord
<1>6. TypeOK' BY <1>1, <1>4, <1>5 DEF TypeOK, Recover, NoPod, tally
<1>7. Consistent' BY <1>1, <1>4, <1>5 DEF Consistent, Recover, NoPod, Live, Over
<1>8. LetGo' /\ Covered'
  BY <1>1, <1>4 DEF LetGo, Covered, Billing, Recover, NoPod, tally
<1> QED BY <1>6, <1>7, <1>8 DEF IInv

\* To end a job now charges what its next charge would have.
LEMMA EndFacts ==
  ASSUME TypeOK, job.finished = None, NEW k \in JobRecord, k.started = job.started,
         k.finished = now, k.cost = job.cost
  PROVE  Gain(k) = Gain(job)
<1>1. now \in Times /\ now # None BY DEF TypeOK, Times, None
<1>2. Elapsed(k) = Elapsed(job) BY <1>1 DEF Elapsed, Times
<1> QED BY <1>2 DEF Gain

\* The record m is k charged and over.
Charged(m, k) ==
  \/ m = [k EXCEPT !.cost = k.cost + Gain(k), !.status = "completed"]
  \/ m = [k EXCEPT !.cost = k.cost + Gain(k), !.status = "failed"]

\* The job ends with everything charged, or waits for a sync by hand on its pod.
LEMMA FinishJobStep == IInv /\ FinishJob => IInv'
<1> SUFFICES ASSUME IInv, FinishJob PROVE IInv' OBVIOUS
<1> USE SupervisionAssumption
<1>1. TypeOK /\ Consistent /\ Covered /\ LetGo BY DEF IInv
<1>2. /\ place = "finish" /\ place' = "check" /\ verdict' = "none" /\ now' = now
      /\ first' = first /\ odd' = odd /\ paid' = paid
  BY DEF FinishJob
<1>3. now \in Times /\ job \in JobRecord /\ total \in Nat /\ paid \in Nat BY <1>1 DEF TypeOK
<1>4. job.status \in Live /\ job.finished = None BY <1>1, <1>2 DEF Consistent
<1>5. /\ total + Gain(job) \in Nat
      /\ "interrupted" \notin odd => total + Gain(job) <= paid
  BY <1>2, <1>4, ChargeFacts
<1>6. CASE job' = [job EXCEPT !.status = "sync_failed"] /\ UNCHANGED <<pod, total, stopped>>
  <2>1. /\ job' \in JobRecord /\ job'.status = "sync_failed" /\ job'.pod = job.pod
        /\ job'.started = job.started /\ job'.finished = None /\ job'.cost = job.cost
    BY <1>3, <1>4, <1>6 DEF JobRecord, Live
  <2>2. TypeOK' BY <1>1, <1>2, <1>6, <2>1 DEF TypeOK, pod
  <2>3. Consistent' BY <1>1, <1>2, <1>6, <2>1 DEF Consistent, pod, Live, Over
  <2>4. LetGo' BY <1>1, <1>2, <1>4, <1>6, <2>1 DEF LetGo, pod, Live
  <2>5. Covered' BY <1>1, <1>2, <1>4, <1>6, <2>1 DEF Covered, Billing, Gain, Elapsed, pod
  <2> QED BY <2>2, <2>3, <2>4, <2>5 DEF IInv
<1> DEFINE k == [job EXCEPT !.finished = now]
<1>7. CASE /\ Charged(job', k)
           /\ total' = total + Gain(k) /\ stopped' = TRUE
           /\ UNCHANGED pod \/ NoPod
  <2>1. /\ k \in JobRecord /\ k.started = job.started /\ k.finished = now
        /\ k.cost = job.cost /\ k.pod = job.pod
    BY <1>3 DEF JobRecord
  <2>2. Gain(k) = Gain(job) BY <1>1, <1>4, <2>1, EndFacts
  <2>3. k.cost + Gain(k) \in Times BY <1>3, <2>1, GainFacts
  <2>4. total' = total + Gain(job) /\ stopped' = TRUE /\ (UNCHANGED pod \/ NoPod) BY <1>7, <2>2
  <2>5. /\ job' \in JobRecord /\ job'.status \in Over /\ job'.pod = job.pod
        /\ job'.finished = now
    <3>1. /\ job' \in JobRecord /\ job'.status \in Over /\ job'.pod = k.pod
          /\ job'.finished = k.finished
      <4>1. k \in JobRecord /\ Charged(job', k) BY <1>7, <2>1
      <4> DEFINE c == k.cost + Gain(k)
      <4>2. c \in Times BY <2>3
      <4>3. \/ job' = [k EXCEPT !.cost = c, !.status = "completed"]
            \/ job' = [k EXCEPT !.cost = c, !.status = "failed"]
        BY <4>1 DEF Charged
      <4> HIDE DEF k, c
      <4>4. CASE job' = [k EXCEPT !.cost = c, !.status = "completed"]
        BY <4>1, <4>2, <4>4 DEF JobRecord, Over
      <4>5. CASE job' = [k EXCEPT !.cost = c, !.status = "failed"]
        BY <4>1, <4>2, <4>5 DEF JobRecord, Over
      <4> QED BY <4>3, <4>4, <4>5
    <3> QED BY <2>1, <3>1
  <2>6. job'.finished # None BY <1>3, <2>5 DEF Times, None
  <2>7. TypeOK' BY <1>1, <1>2, <1>5, <2>4, <2>5 DEF TypeOK, pod, NoPod
  <2>8. Consistent' BY <1>1, <1>2, <2>4, <2>5, <2>6 DEF Consistent, pod, NoPod, Live, Over
  <2>9. LetGo' /\ Covered'
    BY <1>2, <1>5, <2>4, <2>5, <2>6 DEF LetGo, Covered, Billing, Live, Over
  <2> QED BY <2>7, <2>8, <2>9 DEF IInv
<1>8. PICK synced \in BOOLEAN :
        IF ~synced /\ ~Forced(verdict) /\ (Completes(verdict) \/ KeepOnFailure)
          THEN job' = [job EXCEPT !.status = "sync_failed"] /\ UNCHANGED <<pod, total, stopped>>
          ELSE /\ job' = [k EXCEPT !.cost = k.cost + Gain(k),
                            !.status = IF Completes(verdict) THEN "completed" ELSE "failed"]
               /\ total' = total + Gain(k) /\ stopped' = TRUE
               /\ IF Completes(verdict) /\ job.keep THEN UNCHANGED pod ELSE NoPod
  BY DEF FinishJob, FinalGain
<1>9. CASE ~synced /\ ~Forced(verdict) /\ (Completes(verdict) \/ KeepOnFailure)
  BY <1>6, <1>8, <1>9
<1>10. CASE ~(~synced /\ ~Forced(verdict) /\ (Completes(verdict) \/ KeepOnFailure))
  <2> DEFINE s == IF Completes(verdict) THEN "completed" ELSE "failed"
  <2>1. s = "completed" \/ s = "failed" OBVIOUS
  <2>2. job' = [k EXCEPT !.cost = k.cost + Gain(k), !.status = s]
    <3> HIDE DEF k
    <3> QED BY <1>8, <1>10
  <2>3. Charged(job', k)
    <3> HIDE DEF k, s
    <3> QED BY <2>1, <2>2 DEF Charged
  <2>4. total' = total + Gain(k) /\ stopped' = TRUE /\ (UNCHANGED pod \/ NoPod)
    <3> HIDE DEF k
    <3> QED BY <1>8, <1>10
  <2> HIDE DEF k
  <2> QED BY <1>7, <2>3, <2>4
<1> QED BY <1>9, <1>10

\* Between the ticks no money moves.
LEMMA LoopStep == IInv /\ (Check \/ Wake \/ LoopEnds) => IInv'
<1> SUFFICES ASSUME IInv, Check \/ Wake \/ LoopEnds PROVE IInv' OBVIOUS
<1>1. TypeOK /\ Consistent /\ Covered /\ LetGo BY DEF IInv
<1>2. /\ now' = now /\ job' = job /\ paid' = paid /\ first' = first
      /\ total' = total /\ stopped' = stopped /\ odd' = odd
      /\ alive' = alive /\ proc' = proc /\ released' = released
  BY DEF Check, Wake, LoopEnds, pod, tally
<1>3. /\ place \in {"check", "asleep", "loop"}
      /\ \/ place' = "finish" /\ verdict' = "budget" /\ job.status \in Live
         \/ place' = "asleep" /\ verdict' = verdict /\ job.status \in {"provisioning", "running"}
         \/ place' \in {"off", "loop"} /\ verdict' = verdict /\ job.status # "pending"
  <2>1. job.status # "pending" \/ place = "off" BY <1>1 DEF Consistent
  <2>2. CASE Check
    <3>1. job.status \in Live \ {"sync_failed"} => job.status \in {"provisioning", "running"}
      BY DEF Live
    <3> QED BY <2>1, <2>2, <3>1 DEF Check, Finish
  <2>3. CASE Wake BY <2>1, <2>3 DEF Wake
  <2>4. CASE LoopEnds BY <2>1, <2>4 DEF LoopEnds
  <2> QED BY <2>2, <2>3, <2>4
<1>4. TypeOK' BY <1>1, <1>2, <1>3 DEF TypeOK
<1>5. Consistent' BY <1>1, <1>2, <1>3 DEF Consistent, Live, Over
<1>6. LetGo' BY <1>1, <1>2, <1>3 DEF LetGo
<1>7. Covered' BY <1>1, <1>2, MoneyKept DEF TypeOK
<1> QED BY <1>4, <1>5, <1>6, <1>7 DEF IInv

\* Ctrl-C with no pod in use is the case the money is not followed in.
LEMMA InterruptStep == IInv /\ Interrupt => IInv'
<1> SUFFICES ASSUME IInv, Interrupt PROVE IInv' OBVIOUS
<1>1. TypeOK /\ Consistent /\ Covered /\ LetGo BY DEF IInv
<1>2. /\ now' = now /\ job' = job /\ paid' = paid /\ first' = first /\ verdict' = verdict
      /\ total' = total /\ stopped' = stopped
      /\ alive' = alive /\ proc' = proc /\ released' = released
      /\ place \in {"asleep", "create", "deploy", "backoff"} /\ place' \in {"off", "down"}
      /\ odd' = IF released /\ job.started # None THEN odd \cup {"interrupted"} ELSE odd
  BY DEF Interrupt, pod
<1>3. TypeOK' BY <1>1, <1>2 DEF TypeOK
<1>4. job.status \in {"provisioning", "running"} BY <1>1, <1>2 DEF Consistent
<1>5. Consistent' BY <1>1, <1>2, <1>4 DEF Consistent, Live, Over
<1>6. CASE released /\ job.started # None
  BY <1>2, <1>3, <1>5, <1>6 DEF IInv, LetGo, Covered
<1>7. CASE ~(released /\ job.started # None)
  <2>1. odd' = odd BY <1>2, <1>7
  <2>2. LetGo' BY <1>2, <1>7 DEF LetGo
  <2>3. Covered' BY <1>1, <1>2, <2>1, MoneyKept DEF TypeOK
  <2> QED BY <1>3, <1>5, <2>2, <2>3 DEF IInv
<1> QED BY <1>6, <1>7

\* The shutdown charges the job once more and ends it.
LEMMA GracefulShutdownStep == IInv /\ GracefulShutdown => IInv'
<1> SUFFICES ASSUME IInv, GracefulShutdown PROVE IInv' OBVIOUS
<1> USE SupervisionAssumption
<1>1. TypeOK /\ Consistent /\ Covered /\ LetGo BY DEF IInv
<1>2. /\ place = "down" /\ place' = "off" /\ now' = now /\ odd' = odd
      /\ first' = first /\ verdict' = verdict /\ paid' = paid
      /\ UNCHANGED pod \/ NoPod
  BY DEF GracefulShutdown
<1>3. now \in Times /\ job \in JobRecord /\ total \in Nat /\ paid \in Nat BY <1>1 DEF TypeOK
<1>4. job.status \in {"provisioning", "running"} /\ job.finished = None
  BY <1>1, <1>2 DEF Consistent, Live
<1>5. CASE job.pod /\ job.started # None
  <2> DEFINE k == Ended(job)
  <2>1. /\ k \in JobRecord /\ k.started = job.started /\ k.finished = now /\ k.status = "failed"
        /\ k.cost = job.cost /\ k.pod = job.pod
    BY <1>3 DEF JobRecord, Ended, Over
  <2>2. Gain(k) = Gain(job) BY <1>1, <1>4, <2>1, EndFacts
  <2>3. job' = Accrued(k) /\ total' = total + Gain(job) /\ stopped' = TRUE
    BY <1>5, <2>2 DEF GracefulShutdown
  <2>4. /\ job' \in JobRecord /\ job'.status = "failed" /\ job'.finished = now
        /\ job'.pod = job.pod
    <3>1. Accrued(k) \in JobRecord /\ Accrued(k) = [k EXCEPT !.cost = k.cost + Gain(k)]
      BY <1>3, <2>1, GainFacts
    <3> HIDE DEF k
    <3> QED BY <2>1, <2>3, <3>1 DEF JobRecord
  <2>5. job'.finished # None BY <1>3, <2>4 DEF Times, None
  <2>6. /\ total' \in Nat
        /\ "interrupted" \notin odd => total' <= paid
    BY <1>2, <1>4, <2>3, ChargeFacts DEF Live
  <2>7. TypeOK' BY <1>1, <1>2, <2>3, <2>4, <2>6 DEF TypeOK, pod, NoPod
  <2>8. Consistent' BY <1>1, <1>2, <2>4, <2>5 DEF Consistent, pod, NoPod, Live, Over
  <2>9. LetGo' /\ Covered' BY <1>2, <2>4, <2>5, <2>6 DEF LetGo, Covered, Billing, Live
  <2> QED BY <2>7, <2>8, <2>9 DEF IInv
<1>6. CASE ~(job.pod /\ job.started # None)
  <2>1. job' = [job EXCEPT !.status = "failed"] /\ total' = total /\ stopped' = stopped
    BY <1>6 DEF GracefulShutdown
  <2>2. /\ job' \in JobRecord /\ job'.status = "failed" /\ job'.finished = None
        /\ job'.pod = job.pod /\ job'.started = job.started
    BY <1>3, <1>4, <2>1 DEF JobRecord, Over
  <2>3. released' \/ job.started = None
    BY <1>1, <1>2, <1>6 DEF Consistent, pod, NoPod
  <2>4. TypeOK' BY <1>1, <1>2, <2>1, <2>2 DEF TypeOK, pod, NoPod
  <2>5. Consistent' BY <1>1, <1>2, <1>6, <2>2 DEF Consistent, pod, NoPod, Live, Over
  <2>6. LetGo' /\ Covered'
    BY <1>1, <1>2, <2>1, <2>2, <2>3 DEF LetGo, Covered, Billing, Live
  <2> QED BY <2>4, <2>5, <2>6 DEF IInv
<1> QED BY <1>5, <1>6

\* A teardown by hand charges a pod only if it was not let go before.
LEMMA ManualTeardownStep == IInv /\ ManualTeardown => IInv'
<1> SUFFICES ASSUME IInv, ManualTeardown PROVE IInv' OBVIOUS
<1> USE SupervisionAssumption
<1>1. TypeOK /\ Consistent /\ Covered /\ LetGo BY DEF IInv
<1>2. /\ place = "off" /\ place' = "off" /\ now' = now /\ odd' = odd
      /\ first' = first /\ verdict' = verdict /\ paid' = paid
      /\ job.pod /\ NoPod
  BY DEF ManualTeardown
<1>3. now \in Times /\ job \in JobRecord /\ total \in Nat /\ paid \in Nat BY <1>1 DEF TypeOK
<1>4. CASE AlreadyStopped(job)
  <2>1. /\ job' = IF job.status \in Live THEN [job EXCEPT !.status = "failed"] ELSE job
        /\ total' = total /\ stopped' = stopped
    BY <1>4 DEF ManualTeardown
  <2>2. /\ job' \in JobRecord /\ job'.status \notin Live
        /\ job'.finished = job.finished /\ job'.pod = job.pod /\ job'.started = job.started
        /\ job'.status \in Over \/ job'.status = job.status
    BY <1>3, <2>1 DEF JobRecord, Over, Live
  <2>3. TypeOK' BY <1>1, <1>2, <2>1, <2>2 DEF TypeOK, NoPod
  <2>4. Consistent'
    BY <1>1, <1>2, <1>4, <2>1, <2>2 DEF Consistent, NoPod, Live, Over, AlreadyStopped
  <2>5. LetGo' /\ Covered' BY <1>1, <1>2, <2>1, <2>2 DEF LetGo, Covered, Billing, NoPod
  <2> QED BY <2>3, <2>4, <2>5 DEF IInv
<1>5. CASE ~AlreadyStopped(job)
  <2> DEFINE k == [job EXCEPT !.finished = now]
  <2>1. /\ k \in JobRecord /\ k.started = job.started /\ k.finished = now
        /\ k.cost = job.cost /\ k.pod = job.pod /\ k.status = job.status
    BY <1>3 DEF JobRecord
  <2>2. job.finished = None /\ ~stopped BY <1>5 DEF AlreadyStopped
  <2>3. Gain(k) = Gain(job) BY <1>1, <2>1, <2>2, EndFacts
  <2>4. total' = total + Gain(job) /\ stopped' = TRUE
    BY <1>5, <2>3 DEF ManualTeardown
  <2>5. /\ job' \in JobRecord /\ job'.finished = now /\ job'.pod = job.pod
        /\ job'.status \notin Live /\ (job'.status = job.status \/ job'.status \in Over)
        /\ job'.started = job.started
    <3> DEFINE a == Accrued(k)
    <3>1. a \in JobRecord /\ a = [k EXCEPT !.cost = k.cost + Gain(k)]
      BY <1>3, <2>1, GainFacts
    <3>2. /\ a.finished = now /\ a.pod = job.pod /\ a.status = job.status
          /\ a.started = job.started
      <4> HIDE DEF k, a
      <4> QED BY <2>1, <3>1 DEF JobRecord
    <3>3. job' = [a EXCEPT !.status = IF a.status \in Live THEN "failed" ELSE a.status]
      BY <1>5 DEF ManualTeardown
    <3> DEFINE s == IF a.status \in Live THEN "failed" ELSE a.status
    <3>4. /\ s \notin Live /\ (s = job.status \/ s \in Over)
          /\ s \in {"pending"} \cup Live \cup Over
      BY <1>3, <3>2 DEF JobRecord, Live, Over
    <3>5. job' = [a EXCEPT !.status = s] BY <3>3
    <3> HIDE DEF a, s
    <3> QED BY <3>1, <3>2, <3>4, <3>5 DEF JobRecord
  <2>6. job'.finished # None BY <1>3, <2>5 DEF Times, None
  <2>7. Gain(job) \in Nat /\ (job.started = None => Gain(job) = 0) BY <1>3, GainFacts
  <2>8. ASSUME "interrupted" \notin odd PROVE total + Gain(job) <= paid
    <3>1. CASE job.started = None BY <1>1, <1>3, <2>7, <2>8, <3>1 DEF Covered
    <3>2. CASE job.started # None
      <4>1. job.status \in Live
        BY <1>1, <1>2, <1>3, <2>2, <3>2 DEF Consistent, JobRecord
      <4>2. ~released BY <1>1, <1>2, <2>8, <3>2, <4>1 DEF LetGo
      <4> QED BY <1>1, <2>2, <2>8, <3>2, <4>2 DEF Covered, Billing
    <3> QED BY <3>1, <3>2
  <2>9. total' \in Nat /\ stopped' = TRUE /\ job' \in JobRecord BY <1>3, <2>4, <2>5, <2>7
  <2>10. TypeOK' BY <1>1, <1>2, <2>9 DEF TypeOK, NoPod
  <2>11. job'.status # "pending" BY <1>1, <1>2, <2>5 DEF Consistent, Over
  <2>12. Consistent' BY <1>1, <1>2, <2>5, <2>6, <2>11 DEF Consistent, NoPod, Live, Over
  <2>13. LetGo' /\ Covered'
    BY <1>2, <2>4, <2>5, <2>6, <2>8 DEF LetGo, Covered, Billing
  <2> QED BY <2>10, <2>12, <2>13 DEF IInv
<1> QED BY <1>4, <1>5

-----------------------------------------------------------------------------

LEMMA InitInv == Init => IInv
<1> SUFFICES ASSUME Init PROVE IInv OBVIOUS
<1> USE SupervisionAssumption
<1>1. PICK k \in BOOLEAN : job = FreshJob(k) BY DEF Init
<1>2. /\ job \in JobRecord /\ job.status = "pending" /\ ~job.pod
      /\ job.started = None /\ job.finished = None
  BY <1>1 DEF FreshJob, JobRecord, Times, None
<1>3. TypeOK
  <2>1. now \in Times /\ total \in Nat /\ paid \in Nat BY DEF Init, Times
  <2>2. odd = {} /\ place = "off" /\ verdict = "none" /\ proc = "none"
        /\ alive = FALSE /\ first = TRUE /\ stopped = FALSE /\ released = TRUE
    BY DEF Init
  <2> QED BY <1>2, <2>1, <2>2 DEF TypeOK
<1>4. Consistent BY <1>2 DEF Init, Consistent, Live, Over
<1>5. Covered /\ LetGo BY <1>2 DEF Init, Covered, Billing, LetGo, Live
<1> QED BY <1>3, <1>4, <1>5 DEF IInv

LEMMA NextInv == IInv /\ [Next]_vars => IInv'
<1> SUFFICES ASSUME IInv, [Next]_vars PROVE IInv' OBVIOUS
<1>1. CASE Advance BY <1>1, AdvanceStep
<1>2. CASE ProcessMoves \/ SpotLoss BY <1>2, EnvironmentStep
<1>3. CASE Start BY <1>3, StartStep
<1>4. CASE Pipeline BY <1>4, PipelineStep
<1>5. CASE TickJob BY <1>5, TickJobStep
<1>6. CASE TickResume BY <1>6, TickResumeStep
<1>7. CASE Recover BY <1>7, RecoverStep
<1>8. CASE FinishJob BY <1>8, FinishJobStep
<1>9. CASE Check \/ Wake \/ LoopEnds BY <1>9, LoopStep
<1>10. CASE Interrupt BY <1>10, InterruptStep
<1>11. CASE GracefulShutdown BY <1>11, GracefulShutdownStep
<1>12. CASE ManualTeardown BY <1>12, ManualTeardownStep
<1>13. CASE UNCHANGED vars
  <2>1. /\ now' = now /\ job' = job /\ paid' = paid /\ first' = first /\ verdict' = verdict
        /\ total' = total /\ stopped' = stopped /\ odd' = odd /\ place' = place
        /\ alive' = alive /\ proc' = proc /\ released' = released
    BY <1>13 DEF vars, pod, tally
  <2>2. TypeOK' /\ Consistent' /\ LetGo'
    BY <2>1 DEF IInv, TypeOK, Consistent, LetGo
  <2>3. Covered' BY <2>1, MoneyKept DEF IInv, TypeOK
  <2> QED BY <2>2, <2>3 DEF IInv
<1> QED BY <1>1, <1>2, <1>3, <1>4, <1>5, <1>6, <1>7, <1>8, <1>9, <1>10, <1>11, <1>12, <1>13
        DEF Next, Tick, Done

\* In every reachable state the record of the job fits its pod, and what is counted
\* or can still be counted was paid for.
THEOREM SupervisionInvariant == Spec => []IInv
<1>1. Init => IInv BY InitInv
<1>2. IInv /\ [Next]_vars => IInv' BY NextInv
<1> QED BY <1>1, <1>2, PTL DEF Spec

\* The state stays well formed: no cost exceeds the time there was, and every
\* timestamp lies in the past of the bound.
THEOREM SupervisionTypeCorrect == Spec => []TypeOK
<1>1. IInv => TypeOK BY DEF IInv
<1> QED BY <1>1, SupervisionInvariant, PTL

\* Over any number of ticks, recoveries, detached periods, retries and teardowns
\* the total never exceeds what the pods of the job cost, unless Ctrl-C came
\* between two pods.
THEOREM NothingCountedTwice == Spec => []NeverCountsTwice
<1>1. IInv => NeverCountsTwice BY DEF IInv, Covered, NeverCountsTwice
<1> QED BY <1>1, SupervisionInvariant, PTL

\* A tick that leaves the job running leaves its pod below the job's budget.
THEOREM TicksEnforceTheBudget == Spec => PodStaysInBudget
<1> DEFINE Kept == place = "loop" /\ place' = "check" /\ job'.status = "running"
                     => now - job'.started < JobBudget
<1>1. ASSUME IInv, [Next]_vars, place = "loop", place' = "check", job'.status = "running"
      PROVE  now - job'.started < JobBudget
  <2> USE SupervisionAssumption
  <2>1. TypeOK /\ Consistent BY <1>1 DEF IInv
  <2>2. now \in Times /\ job \in JobRecord BY <2>1 DEF TypeOK
  <2>3. TickJob \/ TickResume
    BY <1>1 DEF Next, Advance, ProcessMoves, SpotLoss, Start, Pipeline, CreatePod, PodUnreachable,
         PodReady, PipelineFails, Launch, Tick, Recover, FinishJob, Check, Wake, LoopEnds,
         Interrupt, GracefulShutdown, ManualTeardown, Done, vars, pod, tally
  <2>4. ~TickResume
    <3>1. SUFFICES ASSUME TickResume PROVE FALSE OBVIOUS
    <3>2. job' = Accrued(job) /\ job.status = "provisioning" BY <1>1, <3>1 DEF TickResume
    <3>3. Accrued(job).status = job.status BY <1>1, <3>2, ChargeFacts DEF Live
    <3> QED BY <1>1, <3>2, <3>3
  <2> DEFINE j == Accrued(job)
  <2>5. TickJob /\ job.status = "running" BY <2>3, <2>4 DEF TickJob
  <2>6. /\ j \in JobRecord /\ j.started = job.started /\ j.cost = job.cost + Gain(job)
        /\ job.finished = None /\ job.started # None
    BY <1>1, <2>1, <2>2, <2>5, ChargeFacts, GainFacts DEF Consistent, Live, JobRecord
  <2>7. Elapsed(job) <= j.cost BY <2>2, <2>6, GainFacts
  <2>8. Elapsed(job) = now - job.started BY <2>6 DEF Elapsed
  <2>9. ~OverJobBudget(j) BY <1>1, <2>5 DEF TickJob, Finish
  <2>10. now - job.started < JobBudget
    BY <2>2, <2>6, <2>7, <2>8, <2>9 DEF OverJobBudget, JobRecord, Times, None
  <2>11. job'.started = job.started
    <3>1. job'.started = j.started
      <4>1. TickRunning(j) \/ TickExited(j) \/ TickIdle(j) \/ TickUnknown(j) \/ TickGone(j)
        BY <2>5, <2>9 DEF TickJob
      <4> QED BY <2>1, <2>6, <4>1, BranchFacts, GoneKeepsStart DEF SameCharge
    <3> QED BY <2>6, <3>1
  <2> QED BY <2>10, <2>11
<1>2. IInv /\ [Next]_vars => [Kept]_vars BY <1>1
<1> QED BY <1>2, SupervisionInvariant, PTL DEF Spec, PodStaysInBudget

-----------------------------------------------------------------------------
(* The money is all there.                                                  *)

\* What the pod in use has cost since the last charge.
Due == IF Billing(job) THEN Gain(job) ELSE 0

\* What was counted and is due is what was paid for, as long as every pod is one that
\* is charged: a pod in use has a start, the cost before it is nothing and the cost on
\* it no more than its time, and a job that is not over is logged as stopped only
\* after its pod was let go.
Exact ==
  odd = {} =>
    /\ total + Due = paid
    /\ ~released => job.started # None
    /\ job.started = None => job.cost = 0
    /\ Billing(job) => job.cost <= Elapsed(job)
    /\ stopped /\ job.finished = None => released

\* A step that touches neither the money nor the times keeps them in balance.
LEMMA ExactKept ==
  ASSUME Exact, now' = now, total' = total, paid' = paid, released' = released,
         stopped' = stopped, odd' = odd, job'.started = job.started,
         job'.finished = job.finished, job'.cost = job.cost
  PROVE  Exact'
<1>1. Due' = Due /\ Billing(job)' = Billing(job) /\ Elapsed(job)' = Elapsed(job)
  BY DEF Due, Billing, Gain, Elapsed
<1> QED BY <1>1 DEF Exact

\* The balance after a step that has charged all there was.
LEMMA Settled ==
  ASSUME IInv', odd' = {} => /\ total' = paid'
                             /\ ~released' => job'.started # None
                             /\ job'.started = None => job'.cost = 0
                             /\ Billing(job)' => job'.cost = Elapsed(job)'
                             /\ stopped' /\ job'.finished = None => released'
  PROVE  Exact'
<1>1. SUFFICES ASSUME odd' = {}
               PROVE  /\ total' + Due' = paid'
                      /\ Billing(job)' => job'.cost <= Elapsed(job)'
  BY DEF Exact
<1>2. /\ now' \in Times /\ job' \in JobRecord /\ total' \in Nat /\ paid' \in Nat
  BY DEF IInv, TypeOK
<1>3. Billing(job)' => Gain(job)' = 0 /\ job'.cost <= Elapsed(job)'
  BY <1>1, <1>2 DEF Gain, JobRecord, Times
<1>4. Due' = 0 BY <1>3 DEF Due
<1> QED BY <1>1, <1>2, <1>3, <1>4

\* A job that is over bills nothing.
LEMMA OverBillsNothing ==
  ASSUME IInv, Exact, odd = {}, job.status \in Over \cup {"pending"}
  PROVE  ~Billing(job) /\ Due = 0 /\ total = paid
<1>1. ~Billing(job) BY DEF IInv, Consistent, Exact, Billing, Over
<1>2. total \in Nat /\ paid \in Nat BY DEF IInv, TypeOK
<1> QED BY <1>1, <1>2 DEF Due, Exact

\* What a charge adds while the job is supervised is exactly what is due, and the
\* cost has then caught up with the time.
LEMMA DueIsCharged ==
  ASSUME IInv, Exact, odd = {}, job.finished = None,
         released /\ job.started # None => job.status \notin Live,
         job.status \in Live
  PROVE  /\ total + Gain(job) = paid
         /\ job.started = None => Gain(job) = 0 /\ job.cost = 0
         /\ job.started # None => job.cost + Gain(job) = Elapsed(job)
<1>1. TypeOK /\ Consistent BY DEF IInv
<1>2. now \in Times /\ job \in JobRecord /\ total \in Nat /\ paid \in Nat BY <1>1 DEF TypeOK
<1>3. CASE job.started = None
  <2>1. Gain(job) = 0 BY <1>2, <1>3, GainFacts
  <2>2. Due = 0 BY <1>3 DEF Due, Billing
  <2> QED BY <1>2, <1>3, <2>1, <2>2 DEF Exact
<1>4. CASE job.started # None
  <2>1. Billing(job) BY <1>4 DEF Billing
  <2>2. total + Gain(job) = paid BY <2>1 DEF Due, Exact
  <2>3. Elapsed(job) \in Int /\ job.cost <= Elapsed(job) /\ job.cost \in Int
    BY <1>2, <1>4, <2>1 DEF Exact, Elapsed, JobRecord, Times, None
  <2>4. job.cost + Gain(job) = Elapsed(job) BY <2>3 DEF Gain
  <2> QED BY <1>4, <2>2, <2>4
<1> QED BY <1>3, <1>4

\* Time: what is due grows with what is paid.
LEMMA AdvanceExact == IInv /\ IInv' /\ Exact /\ Advance => Exact'
<1> SUFFICES ASSUME IInv, IInv', Exact, Advance PROVE Exact' OBVIOUS
<1>1. TypeOK /\ Consistent BY DEF IInv
<1>2. /\ now' = now + 1 /\ job' = job /\ total' = total /\ odd' = odd
      /\ released' = released /\ stopped' = stopped
      /\ paid' = IF job.pod /\ ~released /\ job.finished = None THEN paid + 1 ELSE paid
  BY DEF Advance, pod, tally
<1>3. now \in Times /\ job \in JobRecord /\ total \in Nat /\ paid \in Nat BY <1>1 DEF TypeOK
<1>4. SUFFICES ASSUME odd = {}
               PROVE  total + Due' = paid' /\ (Billing(job)' => job.cost <= Elapsed(job)')
  BY <1>2 DEF Exact
<1>5. Billing(job)' <=> Billing(job) BY <1>2 DEF Billing
<1>6. CASE Billing(job)
  <2>1. paid' = paid + 1 BY <1>1, <1>2, <1>6 DEF Consistent, Billing
  <2>2. Elapsed(job)' = Elapsed(job) + 1 /\ Elapsed(job) \in Int
    BY <1>2, <1>3, <1>6 DEF Elapsed, Billing, JobRecord, Times, None
  <2>3. job.cost <= Elapsed(job) /\ total + Gain(job) = paid BY <1>4, <1>6 DEF Exact, Due
  <2>4. Gain(job)' = Gain(job) + 1 /\ Gain(job) \in Int /\ job.cost <= Elapsed(job)'
    BY <1>2, <1>3, <2>2, <2>3 DEF Gain, JobRecord, Times
  <2>5. Due' = Gain(job)' BY <1>5, <1>6 DEF Due
  <2> QED BY <1>3, <2>1, <2>3, <2>4, <2>5
<1>7. CASE ~Billing(job)
  <2>1. paid' = paid BY <1>2, <1>4, <1>7 DEF Billing, Exact
  <2>2. Due = 0 /\ Due' = 0 BY <1>5, <1>7 DEF Due
  <2> QED BY <1>4, <1>5, <1>7, <2>1, <2>2 DEF Exact
<1> QED BY <1>6, <1>7

\* A command that resets a job finds everything charged.
LEMMA StartExact == IInv /\ IInv' /\ Exact /\ Start => Exact'
<1> SUFFICES ASSUME IInv, IInv', Exact, Start PROVE Exact' OBVIOUS
<1>1. TypeOK /\ Consistent BY DEF IInv
<1>2. now \in Times /\ job \in JobRecord /\ now' = now /\ total' = total /\ paid' = paid
      /\ stopped' = stopped
  BY <1>1 DEF TypeOK, Start
<1>3. PICK retry \in BOOLEAN :
        LET j == IF retry THEN ResetForRetry(job) ELSE job
        IN  /\ retry => job.status \in Over
            /\ CASE j.status # "pending" -> /\ place' = "loop" /\ job' = j
                                            /\ UNCHANGED <<pod, odd>>
                 [] j.status = "pending" /\ Reuses(j) ->
                      /\ place' = "deploy" /\ job' = [j EXCEPT !.status = "provisioning"]
                      /\ odd' = odd \cup {"reused"} /\ UNCHANGED pod
                 [] OTHER -> /\ place' = "create" /\ job' = Pass(j)
                             /\ NoPod /\ UNCHANGED odd
  BY DEF Start
<1> DEFINE j == IF retry THEN ResetForRetry(job) ELSE job
<1>4. /\ j \in JobRecord /\ (j.status # "pending" => j = job)
      /\ retry => j.started = None /\ j.cost = 0
      /\ j.status = "pending" => job.status \in Over \cup {"pending"}
  BY <1>2, <1>3, RecordFacts DEF ResetForRetry, FreshJob
<1>5. CASE j.status # "pending"
  <2>1. job' = job /\ UNCHANGED <<pod, odd>> BY <1>3, <1>4, <1>5
  <2> QED BY <1>2, <2>1, ExactKept DEF pod
<1>6. CASE j.status = "pending" /\ Reuses(j)
  <2>1. odd' # {} BY <1>3, <1>6
  <2> QED BY <2>1 DEF Exact
<1>7. CASE j.status = "pending" /\ ~Reuses(j)
  <2>1. job' = Pass(j) /\ released' = TRUE /\ odd' = odd BY <1>3, <1>7 DEF NoPod
  <2>2. job'.started = j.started /\ job'.cost = j.cost BY <1>2, <1>4, <2>1, RecordFacts
  <2>3. ASSUME odd = {}
        PROVE  total = paid /\ (job'.started = None => job'.cost = 0)
    <3>1. total = paid BY <1>4, <1>7, <2>3, OverBillsNothing
    <3>2. job'.started = None => job'.cost = 0 BY <1>4, <2>2, <2>3 DEF Exact
    <3> QED BY <3>1, <3>2
  <2> QED BY <1>2, <2>1, <2>3, Settled DEF Billing
<1> QED BY <1>5, <1>6, <1>7

\* A first pod starts at nothing; the pods that are not charged are odd.
LEMMA PipelineExact == IInv /\ IInv' /\ Exact /\ Pipeline => Exact'
<1> SUFFICES ASSUME IInv, IInv', Exact, Pipeline PROVE Exact' OBVIOUS
<1>1. TypeOK /\ Consistent BY DEF IInv
<1>2. now \in Times /\ job \in JobRecord /\ total \in Nat /\ paid \in Nat BY <1>1 DEF TypeOK
<1>3. CASE CreatePod
  <2>1. /\ job'.started = now /\ job'.finished = job.finished /\ job'.cost = job.cost
        /\ now' = now /\ total' = total /\ paid' = paid /\ stopped' = FALSE /\ released
        /\ odd' = IF job.started = None THEN odd ELSE odd \cup {"replaced"}
    BY <1>1, <1>2, <1>3 DEF CreatePod, Consistent, JobRecord
  <2>2. ASSUME odd' = {}
        PROVE  total' = paid' /\ job'.started # None
               /\ (Billing(job)' => job'.cost = Elapsed(job)')
    <3>1. odd = {} /\ job.started = None BY <2>1, <2>2
    <3>2. Due = 0 /\ job.cost = 0 BY <2>1, <3>1 DEF Due, Billing, Exact
    <3>3. total = paid BY <1>2, <3>1, <3>2 DEF Exact
    <3>4. job'.started # None BY <1>2, <2>1 DEF Times, None
    <3>5. Billing(job)' => Elapsed(job)' = 0
      BY <1>2, <2>1, <3>4 DEF Billing, Elapsed, Times
    <3> QED BY <2>1, <3>2, <3>3, <3>4, <3>5
  <2> QED BY <2>1, <2>2, Settled
<1>4. CASE PodUnreachable \/ PipelineFails
  <2>1. odd' # {} BY <1>4 DEF PodUnreachable, PipelineFails
  <2> QED BY <2>1 DEF Exact
<1>5. CASE PodReady BY <1>5, ExactKept DEF PodReady, pod, tally
<1>6. CASE Launch
  <2>1. /\ job'.started = IF job.started = None THEN now ELSE job.started
        /\ job'.finished = job.finished /\ job'.cost = job.cost
        /\ now' = now /\ total' = total /\ paid' = paid /\ odd' = odd /\ released' = released
        /\ stopped' = stopped /\ ~released
    BY <1>1, <1>2, <1>6 DEF Launch, JobRecord, tally, Consistent
  <2>2. CASE odd # {} BY <2>1, <2>2 DEF Exact
  <2>3. CASE odd = {}
    <3>1. job'.started = job.started BY <2>1, <2>3 DEF Exact
    <3> QED BY <2>1, <3>1, ExactKept
  <2> QED BY <2>2, <2>3
<1> QED BY <1>3, <1>4, <1>5, <1>6 DEF Pipeline

\* After a charge the cost of a record that only differs from the job's in what is
\* not money is the time there was.
LEMMA CaughtUp ==
  ASSUME IInv, IInv', Exact, odd = {}, odd' = {}, now' = now, paid' = paid,
         job.status \in Live, place \notin {"create", "backoff"},
         total' = total + Gain(job), job'.started = job.started,
         job'.finished = None => job'.cost = job.cost + Gain(job),
         job'.started = None => job'.cost = 0
  PROVE  /\ total' = paid' /\ (~released => job'.started # None)
         /\ Billing(job)' => job'.cost = Elapsed(job)'
         /\ stopped => job'.started = None
<1>1. TypeOK /\ Consistent /\ LetGo BY DEF IInv
<1>2. job.finished = None BY <1>1 DEF Consistent
<1>3. released /\ job.started # None => job.status \notin Live BY <1>1 DEF LetGo
<1>4. /\ total + Gain(job) = paid
      /\ job.started # None => job.cost + Gain(job) = Elapsed(job)
  BY <1>2, <1>3, DueIsCharged
<1>5. Billing(job)' => Elapsed(job)' = Elapsed(job) BY <1>2 DEF Billing, Elapsed
<1>6. Billing(job)' => job'.finished = None /\ job'.started # None BY DEF Billing
<1>7. (~released => job.started # None) /\ (stopped => released) BY <1>2 DEF Exact
<1> QED BY <1>3, <1>4, <1>5, <1>6, <1>7

\* What a tick leaves in the record: the job's start, and the cost charged unless the
\* job is over.
LEMMA TickShape ==
  ASSUME IInv, TickJob
  PROVE  /\ job'.started = job.started
         /\ job'.cost = job.cost + Gain(job)
         /\ \/ released' = released /\ stopped' = stopped
            \/ released' = TRUE
<1> USE SupervisionAssumption
<1> DEFINE j == Accrued(job)
<1>1. TypeOK BY DEF IInv
<1>2. now \in Times /\ job \in JobRecord BY <1>1 DEF TypeOK
<1>3. j \in JobRecord /\ j.started = job.started /\ j.cost = job.cost + Gain(job)
  BY <1>2, GainFacts DEF JobRecord
<1>4. \/ job' = j /\ UNCHANGED <<stopped, released>>
      \/ /\ TickRunning(j) \/ TickExited(j) \/ TickIdle(j) \/ TickUnknown(j)
         /\ UNCHANGED <<stopped, released>>
      \/ TickGone(j)
  BY DEF TickJob
<1>5. CASE job' = j /\ UNCHANGED <<stopped, released>> BY <1>3, <1>5
<1>6. CASE /\ TickRunning(j) \/ TickExited(j) \/ TickIdle(j) \/ TickUnknown(j)
           /\ UNCHANGED <<stopped, released>>
  BY <1>1, <1>3, <1>6, BranchFacts DEF SameCharge
<1>7. CASE TickGone(j)
  <2> DEFINE g == IF j.gone + 1 >= Confirmations THEN Confirmations ELSE j.gone + 1
             k == [j EXCEPT !.gone = g]
             f == [k EXCEPT !.status = "failed"]
  <2>1. g \in 0 .. Confirmations BY <1>3 DEF JobRecord
  <2>2. k \in JobRecord /\ k.started = j.started /\ k.cost = j.cost
    <3> HIDE DEF g, j
    <3> QED BY <1>3, <2>1 DEF JobRecord
  <2>3. f \in JobRecord /\ f.started = j.started /\ f.cost = j.cost
    <3> HIDE DEF k, j
    <3> QED BY <2>2 DEF JobRecord, Over
  <2>4. MarkFinished(f).started = j.started /\ MarkFinished(f).cost = j.cost
    <3> HIDE DEF f, j
    <3> QED BY <1>2, <2>3, RecordFacts
  <2>5. job' = k \/ job' = MarkFinished(f) BY <1>7 DEF TickGone
  <2>6. \/ released' = released /\ stopped' = stopped
        \/ released' = TRUE
    BY <1>7 DEF TickGone
  <2>7. job'.started = j.started /\ job'.cost = j.cost
    <3> HIDE DEF k, f, j
    <3> QED BY <2>2, <2>4, <2>5
  <2> QED BY <1>3, <2>6, <2>7
<1> QED BY <1>4, <1>5, <1>6, <1>7

\* A tick charges what is due, whichever way it goes.
LEMMA TickJobExact == IInv /\ IInv' /\ Exact /\ TickJob => Exact'
<1> SUFFICES ASSUME IInv, IInv', Exact, TickJob PROVE Exact' OBVIOUS
<1>1. TypeOK /\ Consistent BY DEF IInv
<1>2. /\ place = "loop" /\ job.status \in Live /\ odd' = odd /\ now' = now /\ paid' = paid
      /\ total' = total + Gain(job) /\ job.started # None
  BY <1>1 DEF TickJob, Consistent, Live
<1>3. /\ job'.started = job.started /\ job'.cost = job.cost + Gain(job)
      /\ \/ released' = released /\ stopped' = stopped
         \/ released' = TRUE
  BY TickShape
<1>4. CASE odd # {} BY <1>2, <1>4 DEF Exact
<1>5. CASE odd = {}
  <2>1. /\ total' = paid' /\ ~stopped
        /\ Billing(job)' => job'.cost = Elapsed(job)'
    BY <1>2, <1>3, <1>5, CaughtUp
  <2> QED BY <1>2, <1>3, <2>1, Settled
<1> QED BY <1>4, <1>5

\* A job left in its pipeline is charged what is due before it goes on.
LEMMA TickResumeExact == IInv /\ IInv' /\ Exact /\ TickResume => Exact'
<1> SUFFICES ASSUME IInv, IInv', Exact, TickResume PROVE Exact' OBVIOUS
<1> DEFINE j == Accrued(job)
<1>1. TypeOK /\ Consistent /\ LetGo BY DEF IInv
<1>2. /\ place = "loop" /\ job.status \in Live /\ odd' = odd /\ now' = now /\ paid' = paid
      /\ total' = total + Gain(job) /\ stopped' = stopped
      /\ job' = j \/ job' = Pass(j)
      /\ UNCHANGED pod \/ NoPod
  BY DEF TickResume, Live
<1>3. now \in Times /\ job \in JobRecord BY <1>1 DEF TypeOK
<1>4. j \in JobRecord /\ j.started = job.started /\ j.cost = job.cost + Gain(job)
      /\ job.finished = None
  BY <1>1, <1>2, <1>3, GainFacts DEF JobRecord, Consistent
<1>5. job'.started = job.started /\ job'.cost = job.cost + Gain(job)
  BY <1>2, <1>3, <1>4, RecordFacts
<1>6. CASE odd # {} BY <1>2, <1>6 DEF Exact
<1>7. CASE odd = {}
  <2>1. /\ total + Gain(job) = paid
        /\ job.started = None => Gain(job) = 0 /\ job.cost = 0
    BY <1>1, <1>2, <1>4, <1>7, DueIsCharged DEF LetGo
  <2>2. job'.started = None => job'.cost = 0 BY <1>5, <2>1
  <2>3. /\ total' = paid' /\ (~released => job'.started # None)
        /\ Billing(job)' => job'.cost = Elapsed(job)'
    BY <1>2, <1>5, <1>7, <2>2, CaughtUp
  <2>4. released => released' BY <1>2 DEF pod, NoPod
  <2>5. stopped' => released' BY <1>2, <1>4, <1>7, <2>4 DEF Exact
  <2>6. ~released' => job'.started # None BY <2>3, <2>4
  <2> QED BY <2>2, <2>3, <2>5, <2>6, Settled
<1> QED BY <1>6, <1>7

\* After the backoff nothing is due: the pod was let go.
LEMMA RecoverExact == IInv /\ IInv' /\ Exact /\ Recover => Exact'
<1> SUFFICES ASSUME IInv, IInv', Exact, Recover PROVE Exact' OBVIOUS
<1> USE SupervisionAssumption
<1>1. TypeOK /\ Consistent BY DEF IInv
<1>2. now \in Times /\ job \in JobRecord BY <1>1 DEF TypeOK
<1>3. /\ Pass(job) \in JobRecord /\ Pass(job).started = job.started
      /\ Pass(job).finished = job.finished /\ Pass(job).cost = job.cost
  BY <1>2, RecordFacts
<1>4. /\ job' = [Pass(job) EXCEPT !.gone = 0] /\ released /\ released' = TRUE
      /\ now' = now /\ total' = total /\ paid' = paid /\ odd' = odd /\ stopped' = stopped
  BY <1>1 DEF Recover, NoPod, tally, Consistent
<1>5. /\ job'.started = job.started /\ job'.finished = job.finished /\ job'.cost = job.cost
  <2> DEFINE k == Pass(job)
  <2>1. k \in JobRecord /\ job' = [k EXCEPT !.gone = 0] BY <1>3, <1>4
  <2>2. /\ k.started = job.started /\ k.finished = job.finished /\ k.cost = job.cost BY <1>3
  <2> HIDE DEF k
  <2> QED BY <2>1, <2>2 DEF JobRecord
<1>6. CASE released = TRUE BY <1>4, <1>5, <1>6, ExactKept
<1>7. released = TRUE BY <1>1, <1>4 DEF TypeOK
<1> QED BY <1>6, <1>7

\* The end of a job charges what is due, the final sync and the teardown included.
LEMMA EndExact ==
  ASSUME IInv, IInv', Exact, job.status \in Live, place \notin {"create", "backoff"},
         job'.started = job.started, job'.finished # None,
         job'.cost = job.cost + Gain(job), total' = total + Gain(job),
         now' = now, paid' = paid, odd' = odd, released => released'
  PROVE  Exact'
<1>1. TypeOK /\ Consistent /\ LetGo BY DEF IInv
<1>2. job.finished = None BY <1>1 DEF Consistent
<1>3. CASE odd # {} BY <1>3 DEF Exact
<1>4. CASE odd = {}
  <2>1. /\ total + Gain(job) = paid
        /\ job.started = None => Gain(job) = 0 /\ job.cost = 0
    BY <1>1, <1>2, <1>4, DueIsCharged DEF LetGo
  <2>2. ~released' => job'.started # None BY <1>4 DEF Exact
  <2>3. ~Billing(job)' BY DEF Billing
  <2>4. job'.started = None => job'.cost = 0 BY <2>1
  <2> QED BY <2>1, <2>2, <2>3, <2>4, Settled
<1> QED BY <1>3, <1>4

LEMMA FinishJobExact == IInv /\ IInv' /\ Exact /\ FinishJob => Exact'
<1> SUFFICES ASSUME IInv, IInv', Exact, FinishJob PROVE Exact' OBVIOUS
<1>1. TypeOK /\ Consistent BY DEF IInv
<1>2. /\ place = "finish" /\ now' = now /\ odd' = odd /\ paid' = paid
  BY DEF FinishJob
<1>3. now \in Times /\ job \in JobRecord /\ now # None BY <1>1 DEF TypeOK, Times, None
<1>4. job.status \in Live /\ job.finished = None BY <1>1, <1>2 DEF Consistent
<1> DEFINE k == [job EXCEPT !.finished = now]
<1>5. /\ k \in JobRecord /\ k.started = job.started /\ k.finished = now /\ k.cost = job.cost
  BY <1>3 DEF JobRecord
<1>6. Gain(k) = Gain(job) BY <1>1, <1>4, <1>5, EndFacts
<1>7. PICK synced \in BOOLEAN :
        IF ~synced /\ ~Forced(verdict) /\ (Completes(verdict) \/ KeepOnFailure)
          THEN job' = [job EXCEPT !.status = "sync_failed"] /\ UNCHANGED <<pod, total, stopped>>
          ELSE /\ job' = [k EXCEPT !.cost = k.cost + Gain(k),
                            !.status = IF Completes(verdict) THEN "completed" ELSE "failed"]
               /\ total' = total + Gain(k) /\ stopped' = TRUE
               /\ IF Completes(verdict) /\ job.keep THEN UNCHANGED pod ELSE NoPod
  BY DEF FinishJob, FinalGain
<1>8. CASE ~synced /\ ~Forced(verdict) /\ (Completes(verdict) \/ KeepOnFailure)
  <2>1. job' = [job EXCEPT !.status = "sync_failed"] /\ UNCHANGED <<pod, total, stopped>>
    BY <1>7, <1>8
  <2>2. /\ job'.started = job.started /\ job'.finished = job.finished /\ job'.cost = job.cost
    BY <1>3, <2>1 DEF JobRecord
  <2> QED BY <1>2, <2>1, <2>2, ExactKept DEF pod
<1>9. CASE ~(~synced /\ ~Forced(verdict) /\ (Completes(verdict) \/ KeepOnFailure))
  <2> DEFINE s == IF Completes(verdict) THEN "completed" ELSE "failed"
             c == k.cost + Gain(k)
  <2>1. /\ job' = [k EXCEPT !.cost = c, !.status = s]
        /\ total' = total + Gain(k) /\ (UNCHANGED pod \/ NoPod)
    <3> HIDE DEF k
    <3> QED BY <1>7, <1>9
  <2>2. job'.started = k.started /\ job'.finished = k.finished /\ job'.cost = c
    <3> HIDE DEF k, c, s
    <3> QED BY <1>5, <2>1 DEF JobRecord
  <2>3. c = job.cost + Gain(job) BY <1>5, <1>6
  <2>4. released => released' BY <2>1 DEF pod, NoPod
  <2>5. /\ job'.started = job.started /\ job'.finished # None /\ job'.cost = job.cost + Gain(job)
    BY <1>3, <1>5, <2>2, <2>3
  <2> HIDE DEF k, c, s
  <2> QED BY <1>2, <1>4, <1>6, <2>1, <2>4, <2>5, EndExact
<1> QED BY <1>8, <1>9

LEMMA LoopExact == IInv /\ Exact /\ (Check \/ Wake \/ LoopEnds \/ Interrupt) => Exact'
<1> SUFFICES ASSUME IInv, Exact, Check \/ Wake \/ LoopEnds \/ Interrupt PROVE Exact' OBVIOUS
<1>1. /\ now' = now /\ job' = job /\ paid' = paid /\ total' = total /\ stopped' = stopped
      /\ released' = released /\ odd \subseteq odd'
  BY DEF Check, Wake, LoopEnds, Interrupt, pod, tally
<1>2. CASE odd' = odd BY <1>1, <1>2, ExactKept
<1>3. CASE odd' # odd BY <1>1, <1>3 DEF Exact
<1> QED BY <1>2, <1>3

LEMMA GracefulShutdownExact == IInv /\ IInv' /\ Exact /\ GracefulShutdown => Exact'
<1> SUFFICES ASSUME IInv, IInv', Exact, GracefulShutdown PROVE Exact' OBVIOUS
<1>1. TypeOK /\ Consistent BY DEF IInv
<1>2. /\ place = "down" /\ now' = now /\ odd' = odd /\ paid' = paid
      /\ UNCHANGED pod \/ NoPod
  BY DEF GracefulShutdown
<1>3. now \in Times /\ job \in JobRecord /\ now # None BY <1>1 DEF TypeOK, Times, None
<1>4. job.status \in Live /\ job.finished = None BY <1>1, <1>2 DEF Consistent, Live
<1>5. CASE job.pod /\ job.started # None
  <2> DEFINE k == Ended(job)
  <2>1. /\ k \in JobRecord /\ k.started = job.started /\ k.finished = now /\ k.cost = job.cost
    BY <1>3 DEF JobRecord, Ended, Over
  <2>2. Gain(k) = Gain(job) BY <1>1, <1>4, <2>1, EndFacts
  <2>3. job' = Accrued(k) /\ total' = total + Gain(job)
    BY <1>5, <2>2 DEF GracefulShutdown
  <2>4. /\ job'.started = job.started /\ job'.finished # None
        /\ job'.cost = job.cost + Gain(job)
    <3>1. Accrued(k) = [k EXCEPT !.cost = k.cost + Gain(k)] BY <1>3, <2>1, GainFacts
    <3> HIDE DEF k
    <3> QED BY <1>3, <2>1, <2>2, <2>3, <3>1 DEF JobRecord
  <2>5. released => released' BY <1>2 DEF pod, NoPod
  <2> QED BY <1>2, <1>4, <2>3, <2>4, <2>5, EndExact
<1>6. CASE ~(job.pod /\ job.started # None)
  <2>1. job' = [job EXCEPT !.status = "failed"] /\ total' = total /\ stopped' = stopped
    BY <1>6 DEF GracefulShutdown
  <2>2. /\ job'.started = job.started /\ job'.finished = job.finished /\ job'.cost = job.cost
    BY <1>3, <2>1 DEF JobRecord
  <2>3. CASE odd # {} BY <1>2, <2>3 DEF Exact
  <2>4. CASE odd = {}
    <3>1. released = TRUE BY <1>1, <1>6, <2>4 DEF Exact, Consistent, TypeOK
    <3>2. released' = released BY <1>2, <3>1 DEF pod, NoPod
    <3> QED BY <1>2, <2>1, <2>2, <3>2, ExactKept
  <2> QED BY <2>3, <2>4
<1> QED BY <1>5, <1>6

LEMMA ManualTeardownExact == IInv /\ IInv' /\ Exact /\ ManualTeardown => Exact'
<1> SUFFICES ASSUME IInv, IInv', Exact, ManualTeardown PROVE Exact' OBVIOUS
<1>1. TypeOK /\ Consistent /\ LetGo BY DEF IInv
<1>2. /\ place = "off" /\ now' = now /\ odd' = odd /\ paid' = paid /\ job.pod
      /\ released' = TRUE
  BY DEF ManualTeardown, NoPod
<1>3. /\ now \in Times /\ job \in JobRecord /\ now # None /\ total \in Nat /\ paid \in Nat
  BY <1>1 DEF TypeOK, Times, None
<1>4. CASE odd # {} BY <1>2, <1>4 DEF Exact
<1>5. CASE odd = {} /\ AlreadyStopped(job)
  <2>1. /\ job' = IF job.status \in Live THEN [job EXCEPT !.status = "failed"] ELSE job
        /\ total' = total
    BY <1>5 DEF ManualTeardown
  <2>2. job'.started = job.started /\ job'.cost = job.cost BY <1>3, <2>1 DEF JobRecord
  <2>3. ~Billing(job) BY <1>5 DEF AlreadyStopped, Exact, Billing
  <2>4. total = paid BY <1>3, <1>5, <2>3 DEF Exact, Due
  <2>5. job'.started = None => job'.cost = 0 BY <1>5, <2>2 DEF Exact
  <2>6. ~Billing(job)' BY <1>2 DEF Billing
  <2> QED BY <1>2, <2>1, <2>4, <2>5, <2>6, Settled
<1>6. CASE odd = {} /\ ~AlreadyStopped(job)
  <2> DEFINE k == [job EXCEPT !.finished = now]
  <2>1. /\ k \in JobRecord /\ k.started = job.started /\ k.finished = now /\ k.cost = job.cost
    BY <1>3 DEF JobRecord
  <2>2. job.finished = None /\ ~stopped BY <1>6 DEF AlreadyStopped
  <2>3. Gain(k) = Gain(job) BY <1>1, <2>1, <2>2, EndFacts
  <2>4. total' = total + Gain(job) BY <1>6, <2>3 DEF ManualTeardown
  <2>5. job'.started = job.started /\ job'.cost = job.cost + Gain(job)
    <3> DEFINE a == Accrued(k)
               s == IF a.status \in Live THEN "failed" ELSE a.status
    <3>1. a \in JobRecord /\ a = [k EXCEPT !.cost = k.cost + Gain(k)] BY <1>3, <2>1, GainFacts
    <3>2. a.started = job.started /\ a.cost = job.cost + Gain(job)
      <4> HIDE DEF k, a
      <4> QED BY <2>1, <2>3, <3>1 DEF JobRecord
    <3>3. job' = [a EXCEPT !.status = s] BY <1>6 DEF ManualTeardown
    <3> HIDE DEF a, s
    <3> QED BY <3>1, <3>2, <3>3 DEF JobRecord
  <2>6. total + Gain(job) = paid /\ (job.started = None => Gain(job) = 0 /\ job.cost = 0)
    <3>1. CASE job.started = None
      <4>1. Gain(job) = 0 BY <1>3, <3>1, GainFacts
      <4>2. Due = 0 /\ job.cost = 0 BY <1>6, <3>1 DEF Due, Billing, Exact
      <4> QED BY <1>3, <1>6, <4>1, <4>2 DEF Exact
    <3>2. CASE job.started # None
      <4>1. job.status \in Live
        BY <1>1, <1>2, <1>3, <2>2, <3>2 DEF Consistent, JobRecord
      <4>2. ~released BY <1>1, <1>2, <1>6, <3>2, <4>1 DEF LetGo
      <4>3. Billing(job) BY <2>2, <3>2, <4>2 DEF Billing
      <4> QED BY <1>6, <3>2, <4>3 DEF Exact, Due
    <3> QED BY <3>1, <3>2
  <2>7. job'.started = None => job'.cost = 0 BY <2>5, <2>6
  <2>8. ~Billing(job)' BY <1>2 DEF Billing
  <2> HIDE DEF k
  <2> QED BY <1>2, <2>4, <2>6, <2>7, <2>8, Settled
<1> QED BY <1>4, <1>5, <1>6

\* What is counted and due is what was paid for, after every step.
LEMMA NextExact == IInv /\ IInv' /\ Exact /\ [Next]_vars => Exact'
<1> SUFFICES ASSUME IInv, IInv', Exact, [Next]_vars PROVE Exact' OBVIOUS
<1>1. CASE Advance BY <1>1, AdvanceExact
<1>2. CASE ProcessMoves \/ SpotLoss BY <1>2, ExactKept DEF ProcessMoves, SpotLoss, tally
<1>3. CASE Start BY <1>3, StartExact
<1>4. CASE Pipeline BY <1>4, PipelineExact
<1>5. CASE TickJob BY <1>5, TickJobExact
<1>6. CASE TickResume BY <1>6, TickResumeExact
<1>7. CASE Recover BY <1>7, RecoverExact
<1>8. CASE FinishJob BY <1>8, FinishJobExact
<1>9. CASE Check \/ Wake \/ LoopEnds \/ Interrupt BY <1>9, LoopExact
<1>10. CASE GracefulShutdown BY <1>10, GracefulShutdownExact
<1>11. CASE ManualTeardown BY <1>11, ManualTeardownExact
<1>12. CASE UNCHANGED vars BY <1>12, ExactKept DEF vars, pod, tally
<1> QED BY <1>1, <1>2, <1>3, <1>4, <1>5, <1>6, <1>7, <1>8, <1>9, <1>10, <1>11, <1>12
        DEF Next, Tick, Done

\* The total is exactly what a job that is over had to pay, and while the job runs
\* it is short by what its pod has cost since the last charge.
THEOREM BalanceInvariant == Spec => []Exact
<1>1. Init => Exact
  <2>1. SUFFICES ASSUME Init PROVE Exact OBVIOUS
  <2>2. /\ job.started = None /\ job.cost = 0 /\ total = 0 /\ paid = 0
        /\ stopped = FALSE /\ released = TRUE
    BY <2>1 DEF Init, FreshJob
  <2>3. Due = 0 BY <2>2 DEF Due, Billing
  <2> QED BY <2>2, <2>3 DEF Exact, Billing
<1>2. IInv /\ IInv' /\ Exact /\ [Next]_vars => Exact' BY NextExact
<1> QED BY <1>1, <1>2, SupervisionInvariant, PTL DEF Spec

\* The total is all there was to pay for a job that is over: waiting for the pod, a
\* detached period, the final sync and the teardown are in it.
THEOREM TotalsAreTrue == Spec => []TotalIsTruth
<1>1. IInv /\ Exact => TotalIsTruth
  <2>1. ASSUME IInv, Exact, odd = {}, job.status \in Over PROVE total = paid
    BY <2>1, OverBillsNothing
  <2> QED BY <2>1 DEF TotalIsTruth
<1> QED BY <1>1, SupervisionInvariant, BalanceInvariant, PTL

-----------------------------------------------------------------------------
(* The timers.                                                              *)

\* The timer t started on the pod the job has.
OnThisPod(t) == t # None => job.started # None /\ job.started <= t

\* The timers of a job that never got another pod belong to the one it has, and a
\* verdict is only open while the job is being finished.
Timed ==
  /\ job.started <= now
  /\ verdict # "none" => place = "finish"
  /\ "replaced" \notin odd => OnThisPod(job.idle) /\ OnThisPod(job.stalled)
  /\ VerdictIsEarned

\* The record m has the start and the timers of k.
SameTimers(m, k) == m.started = k.started /\ m.idle = k.idle /\ m.stalled = k.stalled

\* The helpers that change a record leave its timers alone; only a reset clears them.
LEMMA TimerFacts ==
  ASSUME now \in Times, NEW j \in JobRecord
  PROVE  /\ SameTimers(Pass(j), j) /\ SameTimers(Accrued(j), j)
         /\ SameTimers(MarkFinished(j), j)
         /\ ResetForRetry(j).started = None /\ ResetForRetry(j).idle = None
         /\ ResetForRetry(j).stalled = None
<1>1. SameTimers(Pass(j), j)
  <2> DEFINE a == IF j.attempts < MaxAttempts THEN j.attempts + 1 ELSE j.attempts
  <2>1. Pass(j) = [j EXCEPT !.status = "provisioning", !.pod = FALSE, !.attempts = a]
    BY DEF Pass
  <2> HIDE DEF a
  <2> QED BY <2>1 DEF JobRecord, SameTimers
<1>2. SameTimers(Accrued(j), j)
  <2> DEFINE c == j.cost + Gain(j)
  <2>1. Accrued(j) = [j EXCEPT !.cost = c] BY DEF Accrued
  <2> HIDE DEF c
  <2> QED BY <2>1 DEF JobRecord, SameTimers
<1>3. SameTimers(MarkFinished(j), j) BY DEF MarkFinished, JobRecord, SameTimers
<1>4. /\ ResetForRetry(j).started = None /\ ResetForRetry(j).idle = None
      /\ ResetForRetry(j).stalled = None
  BY DEF ResetForRetry, FreshJob
<1> QED BY <1>1, <1>2, <1>3, <1>4

\* A step that keeps the timers and opens no verdict about them.
LEMMA TimedKept ==
  ASSUME Timed, now' = now, odd \subseteq odd', SameTimers(job', job),
         verdict' \notin {"stall", "idle"}, verdict' # "none" => place' = "finish"
  PROVE  Timed'
BY DEF Timed, SameTimers, OnThisPod, VerdictIsEarned

\* Outside the end of a job no verdict is open, so none is left by the step.
LEMMA NoVerdict ==
  ASSUME Timed, now' = now, odd \subseteq odd', SameTimers(job', job),
         place # "finish", verdict' = verdict
  PROVE  Timed'
<1>1. verdict' = "none" BY DEF Timed
<1> QED BY <1>1, TimedKept

LEMMA ClockTimed == IInv /\ Timed /\ (Advance \/ ProcessMoves \/ SpotLoss) => Timed'
<1> SUFFICES ASSUME IInv, Timed, Advance \/ ProcessMoves \/ SpotLoss PROVE Timed' OBVIOUS
<1>1. now \in Times /\ job \in JobRecord BY DEF IInv, TypeOK
<1>2. /\ now' \in {now, now + 1} /\ job' = job /\ odd' = odd /\ place' = place
      /\ verdict' = verdict
  BY DEF Advance, ProcessMoves, SpotLoss, tally
<1>3. job.started \in Int BY <1>1 DEF JobRecord, Times, None
<1>4. IdleTimeout \in Nat /\ StallTimeout \in Nat BY SupervisionAssumption
<1>5. job'.started <= now' /\ (verdict' # "none" => place' = "finish")
  BY <1>1, <1>2, <1>3 DEF Timed, Times
<1>6. "replaced" \notin odd' => OnThisPod(job.idle)' /\ OnThisPod(job.stalled)'
  BY <1>2 DEF Timed, OnThisPod
<1>7. VerdictIsEarned' BY <1>1, <1>2, <1>3, <1>4 DEF Timed, VerdictIsEarned, Times
<1> QED BY <1>5, <1>6, <1>7 DEF Timed

\* A command resets the timers of a job it retries.
LEMMA StartTimed == IInv /\ Timed /\ Start => Timed'
<1> SUFFICES ASSUME IInv, Timed, Start PROVE Timed' OBVIOUS
<1>1. now \in Times /\ job \in JobRecord BY DEF IInv, TypeOK
<1>2. /\ now' = now /\ verdict' = verdict /\ place = "off" /\ odd \subseteq odd'
  BY DEF Start
<1>3. PICK retry \in BOOLEAN :
        LET j == IF retry THEN ResetForRetry(job) ELSE job
        IN  \/ job' = j
            \/ job' = [j EXCEPT !.status = "provisioning"]
            \/ job' = Pass(j)
  BY DEF Start
<1> DEFINE j == IF retry THEN ResetForRetry(job) ELSE job
<1>4. j \in JobRecord BY <1>1, RecordFacts
<1>5. SameTimers(job', j)
  <2>1. job' = j \/ job' = [j EXCEPT !.status = "provisioning"] \/ job' = Pass(j) BY <1>3
  <2> HIDE DEF j
  <2>2. CASE job' = j BY <2>2 DEF SameTimers
  <2>3. CASE job' = [j EXCEPT !.status = "provisioning"]
    BY <1>4, <2>3 DEF SameTimers, JobRecord
  <2>4. CASE job' = Pass(j) BY <1>1, <1>4, <2>4, TimerFacts
  <2> QED BY <2>1, <2>2, <2>3, <2>4
<1>6. CASE retry
  <2>1. job'.started = None /\ job'.idle = None /\ job'.stalled = None
    BY <1>1, <1>5, <1>6, TimerFacts DEF SameTimers
  <2>2. verdict' = "none" BY <1>2 DEF Timed
  <2>3. job'.started <= now' BY <1>1, <1>2, <2>1 DEF Times, None
  <2> QED BY <2>1, <2>2, <2>3 DEF Timed, OnThisPod, VerdictIsEarned
<1>7. CASE ~retry
  <2>1. SameTimers(job', job) BY <1>5, <1>7
  <2> QED BY <1>2, <2>1, NoVerdict
<1> QED BY <1>6, <1>7

\* A start is given to a job only when it has none, and then no timer runs, or it has
\* its second pod.
LEMMA NewStart ==
  ASSUME IInv, Timed, now' = now, place # "finish", verdict' = verdict,
         job'.started = now, job'.idle = job.idle, job'.stalled = job.stalled,
         job.started = None \/ "replaced" \in odd', odd \subseteq odd'
  PROVE  Timed'
<1>1. now \in Times /\ job \in JobRecord BY DEF IInv, TypeOK
<1>2. verdict' = "none" BY DEF Timed
<1>3. "replaced" \notin odd' => job'.idle = None /\ job'.stalled = None
  BY DEF Timed, OnThisPod
<1>4. job'.started <= now' BY <1>1 DEF Times
<1> QED BY <1>2, <1>3, <1>4 DEF Timed, OnThisPod, VerdictIsEarned

LEMMA PipelineTimed == IInv /\ Timed /\ Pipeline => Timed'
<1> SUFFICES ASSUME IInv, Timed, Pipeline PROVE Timed' OBVIOUS
<1>1. now \in Times /\ job \in JobRecord BY DEF IInv, TypeOK
<1>2. /\ now' = now /\ verdict' = verdict /\ place # "finish" /\ odd \subseteq odd'
  BY DEF Pipeline, CreatePod, PodUnreachable, PodReady, PipelineFails, Launch, tally
<1>3. CASE CreatePod
  <2>1. /\ job'.started = now /\ job'.idle = job.idle /\ job'.stalled = job.stalled
        /\ job.started = None \/ "replaced" \in odd'
    BY <1>1, <1>3 DEF CreatePod, JobRecord
  <2> QED BY <1>2, <2>1, NewStart
<1>4. CASE PodUnreachable
  <2>1. SameTimers(job', job) BY <1>1, <1>4 DEF PodUnreachable, SameTimers, JobRecord
  <2> QED BY <1>2, <2>1, NoVerdict
<1>5. CASE PodReady
  <2>1. SameTimers(job', job) BY <1>5 DEF PodReady, SameTimers
  <2> QED BY <1>2, <2>1, NoVerdict
<1>6. CASE PipelineFails
  <2> DEFINE f == [job EXCEPT !.status = "failed"]
  <2>1. f \in JobRecord /\ SameTimers(f, job) BY <1>1 DEF JobRecord, Over, SameTimers
  <2>2. job' = MarkFinished(f) BY <1>6 DEF PipelineFails
  <2>3. SameTimers(job', job)
    <3> HIDE DEF f
    <3> QED BY <1>1, <2>1, <2>2, TimerFacts DEF SameTimers
  <2> QED BY <1>2, <2>3, NoVerdict
<1>7. CASE Launch
  <2>1. /\ job'.started = IF job.started = None THEN now ELSE job.started
        /\ job'.idle = job.idle /\ job'.stalled = job.stalled
    BY <1>1, <1>7 DEF Launch, JobRecord
  <2>2. CASE job.started = None BY <1>2, <2>1, <2>2, NewStart
  <2>3. CASE job.started # None
    <3>1. SameTimers(job', job) BY <2>1, <2>3 DEF SameTimers
    <3> QED BY <1>2, <3>1, NoVerdict
  <2> QED BY <2>2, <2>3
<1> QED BY <1>3, <1>4, <1>5, <1>6, <1>7 DEF Pipeline

\* A timer of the tick: it is cleared, stays, or starts now.
LEMMA NewTimers ==
  ASSUME IInv, Timed, now' = now, odd' = odd, job.started # None,
         job'.started = job.started,
         job'.idle \in {job.idle, None, now}, job'.stalled \in {job.stalled, None, now},
         verdict' # "none" => place' = "finish",
         verdict' = "stall" => job.stalled # None /\ now - job.stalled >= StallTimeout,
         verdict' = "idle"  => job.idle # None /\ now - job.idle >= IdleTimeout
  PROVE  Timed'
<1>1. /\ now \in Times /\ job \in JobRecord BY DEF IInv, TypeOK
<1>2. /\ job.started \in Int /\ job.stalled \in Int /\ job.idle \in Int /\ now \in Int
      /\ IdleTimeout \in Nat /\ StallTimeout \in Nat
  BY <1>1, SupervisionAssumption DEF JobRecord, Times, None
<1>3. job'.started <= now' BY DEF Timed
<1>4. "replaced" \notin odd' => OnThisPod(job.idle)' /\ OnThisPod(job.stalled)'
  BY <1>3 DEF Timed, OnThisPod
<1>5. VerdictIsEarned'
  <2>1. SUFFICES ASSUME "replaced" \notin odd
                 PROVE  /\ verdict' = "stall" => now - job.started >= StallTimeout
                        /\ verdict' = "idle"  => now - job.started >= IdleTimeout
    BY DEF VerdictIsEarned
  <2>2. /\ job.idle # None => job.started <= job.idle
        /\ job.stalled # None => job.started <= job.stalled
    BY <2>1 DEF Timed, OnThisPod
  <2> QED BY <1>2, <2>2
<1> QED BY <1>3, <1>4, <1>5 DEF Timed

\* A tick starts timers at its own time and ends a job for one that has run out.
LEMMA TickJobTimed == IInv /\ Timed /\ TickJob => Timed'
<1> SUFFICES ASSUME IInv, Timed, TickJob PROVE Timed' OBVIOUS
<1> USE SupervisionAssumption
<1> DEFINE j == Accrued(job)
<1>1. TypeOK /\ Consistent BY DEF IInv
<1>2. /\ now \in Times /\ job \in JobRecord /\ now' = now /\ odd' = odd
      /\ place = "loop" /\ job.started # None /\ verdict = "none"
  BY <1>1 DEF TickJob, TypeOK, Consistent, Timed
<1>3. j \in JobRecord /\ j.started = job.started /\ j.idle = job.idle /\ j.stalled = job.stalled
  BY <1>2, GainFacts, TimerFacts DEF SameTimers
<1>4. \/ job' = j /\ Finish("job_budget")
      \/ TickRunning(j) \/ TickExited(j) \/ TickIdle(j) \/ TickUnknown(j) \/ TickGone(j)
  BY DEF TickJob
<1>5. job'.started = job.started BY TickShape
<1>6. CASE job' = j /\ Finish("job_budget")
  BY <1>2, <1>3, <1>5, <1>6, NewTimers DEF Finish
<1>7. CASE TickRunning(j)
  <2> DEFINE since == IF j.stalled = None THEN now ELSE j.stalled
  <2>1. \E t \in {since, None} : job' = [j EXCEPT !.idle = None, !.gone = 0, !.stalled = t]
    <3>1. \E quiet \in {FALSE, proc = "quiet"} :
            job' = [j EXCEPT !.idle = None, !.gone = 0, !.stalled = IF quiet THEN since ELSE None]
      BY <1>7 DEF TickRunning
    <3> HIDE DEF since, j
    <3> QED BY <3>1
  <2>2. since \in {j.stalled, now} OBVIOUS
  <2>3. job'.idle = None /\ job'.stalled \in {j.stalled, None, now}
    <3> HIDE DEF since, j
    <3> QED BY <1>3, <2>1, <2>2 DEF JobRecord
  <2>4. \/ Finish("stall") /\ j.stalled # None /\ now - j.stalled >= StallTimeout
        \/ Resting
    BY <1>7 DEF TickRunning
  <2> HIDE DEF j, since
  <2> QED BY <1>2, <1>3, <1>5, <2>3, <2>4, NewTimers DEF Finish, Resting
<1>8. CASE TickExited(j)
  BY <1>2, <1>3, <1>5, <1>8, NewTimers DEF TickExited, Finish
<1>9. CASE TickIdle(j)
  <2> DEFINE t == IF j.idle = None THEN now ELSE j.idle
  <2>1. job' = [j EXCEPT !.gone = 0, !.idle = t] /\ t \in {j.idle, now} BY <1>9 DEF TickIdle
  <2>2. job'.stalled = j.stalled /\ job'.idle \in {j.idle, now}
    <3> HIDE DEF t, j
    <3> QED BY <1>3, <2>1 DEF JobRecord
  <2>3. \/ Finish("idle") /\ j.idle # None /\ now - j.idle >= IdleTimeout
        \/ Resting
    BY <1>9 DEF TickIdle
  <2> HIDE DEF j, t
  <2> QED BY <1>2, <1>3, <1>5, <2>2, <2>3, NewTimers DEF Finish, Resting
<1>10. CASE TickUnknown(j)
  <2>1. (job' = j \/ job' = [j EXCEPT !.gone = 0]) /\ Resting BY <1>10 DEF TickUnknown
  <2>2. job'.stalled = j.stalled /\ job'.idle = j.idle
    <3> HIDE DEF j
    <3> QED BY <1>3, <2>1 DEF JobRecord
  <2> HIDE DEF j
  <2> QED BY <1>2, <1>3, <1>5, <2>1, <2>2, NewTimers DEF Resting
<1>11. CASE TickGone(j)
  <2> DEFINE g == IF j.gone + 1 >= Confirmations THEN Confirmations ELSE j.gone + 1
             k == [j EXCEPT !.gone = g]
             f == [k EXCEPT !.status = "failed"]
  <2>1. g \in 0 .. Confirmations BY <1>3 DEF JobRecord
  <2>2. k \in JobRecord /\ SameTimers(k, j)
    <3> HIDE DEF g, j
    <3> QED BY <1>3, <2>1 DEF JobRecord, SameTimers
  <2>3. f \in JobRecord /\ SameTimers(f, j)
    <3> HIDE DEF k, j
    <3> QED BY <2>2 DEF JobRecord, Over, SameTimers
  <2>4. SameTimers(MarkFinished(f), j)
    <3> HIDE DEF f, j
    <3> QED BY <1>2, <2>3, TimerFacts DEF SameTimers
  <2>5. job' = k \/ job' = MarkFinished(f) BY <1>11 DEF TickGone
  <2>6. verdict' = verdict BY <1>11 DEF TickGone, Resting
  <2>7. SameTimers(job', job)
    <3> HIDE DEF k, f, j
    <3> QED BY <1>3, <2>2, <2>4, <2>5 DEF SameTimers
  <2> QED BY <1>2, <2>6, <2>7, NoVerdict
<1> QED BY <1>4, <1>6, <1>7, <1>8, <1>9, <1>10, <1>11

LEMMA ResumeTimed == IInv /\ Timed /\ (TickResume \/ Recover) => Timed'
<1> SUFFICES ASSUME IInv, Timed, TickResume \/ Recover PROVE Timed' OBVIOUS
<1> DEFINE j == Accrued(job)
           k == Pass(job)
<1>1. now \in Times /\ job \in JobRecord BY DEF IInv, TypeOK
<1>2. /\ now' = now /\ verdict' = verdict /\ odd' = odd /\ place # "finish"
      /\ \/ job' = j
         \/ job' = Pass(j)
         \/ job' = [k EXCEPT !.gone = 0]
  BY DEF TickResume, Recover, tally
<1>3. /\ j \in JobRecord /\ k \in JobRecord
      /\ SameTimers(j, job) /\ SameTimers(k, job) /\ SameTimers(Pass(j), j)
  BY <1>1, GainFacts, RecordFacts, TimerFacts
<1>4. SameTimers(job', job)
  <2> HIDE DEF j, k
  <2> QED BY <1>2, <1>3 DEF SameTimers, JobRecord
<1> QED BY <1>2, <1>4, NoVerdict

\* The end of a job, whoever ends it, leaves its timers alone.
LEMMA EndTimed == IInv /\ Timed /\ (FinishJob \/ GracefulShutdown \/ ManualTeardown) => Timed'
<1> SUFFICES ASSUME IInv, Timed, FinishJob \/ GracefulShutdown \/ ManualTeardown
             PROVE  Timed'
  OBVIOUS
<1> USE SupervisionAssumption
<1>1. now \in Times /\ job \in JobRecord BY DEF IInv, TypeOK
<1>2. now' = now /\ odd' = odd BY DEF FinishJob, GracefulShutdown, ManualTeardown
<1>3. verdict' = "none"
  BY DEF Timed, FinishJob, GracefulShutdown, ManualTeardown
<1> DEFINE k == [job EXCEPT !.finished = now]
<1>4. k \in JobRecord /\ SameTimers(k, job) BY <1>1 DEF JobRecord, SameTimers
<1>5. SameTimers(job', job)
  <2>1. CASE FinishJob
    <3>1. \/ job' = [job EXCEPT !.status = "sync_failed"]
          \/ \E c : job' = [k EXCEPT !.cost = c,
                              !.status = IF Completes(verdict) THEN "completed" ELSE "failed"]
      BY <2>1 DEF FinishJob, FinalGain
    <3>2. \/ job' = [job EXCEPT !.status = "sync_failed"]
          \/ \E c, s : job' = [k EXCEPT !.cost = c, !.status = s]
      <4> HIDE DEF k
      <4> QED BY <3>1
    <3> HIDE DEF k
    <3> QED BY <1>1, <1>4, <3>2 DEF SameTimers, JobRecord
  <2>2. CASE GracefulShutdown
    <3>1. \/ job' = Accrued(Ended(job))
          \/ job' = [job EXCEPT !.status = "failed"]
      BY <2>2 DEF GracefulShutdown
    <3>2. Ended(job) \in JobRecord /\ SameTimers(Ended(job), job)
      BY <1>1 DEF Ended, JobRecord, Over, SameTimers
    <3>3. SameTimers(Accrued(Ended(job)), Ended(job)) BY <1>1, <3>2, TimerFacts
    <3> QED BY <1>1, <3>1, <3>2, <3>3 DEF SameTimers, JobRecord
  <2>3. CASE ManualTeardown
    <3> DEFINE a == Accrued(k)
    <3>1. \/ job' = [job EXCEPT !.status = "failed"]
          \/ job' = job
          \/ \E s : job' = [a EXCEPT !.status = s]
      BY <2>3 DEF ManualTeardown
    <3>2. a \in JobRecord /\ SameTimers(a, k)
      <4> HIDE DEF k
      <4> QED BY <1>1, <1>4, GainFacts, TimerFacts
    <3> HIDE DEF a, k
    <3> QED BY <1>1, <1>4, <3>1, <3>2 DEF SameTimers, JobRecord
  <2> QED BY <2>1, <2>2, <2>3
<1> QED BY <1>2, <1>3, <1>5, TimedKept

LEMMA LoopTimed == IInv /\ Timed /\ (Check \/ Wake \/ LoopEnds \/ Interrupt) => Timed'
<1> SUFFICES ASSUME IInv, Timed, Check \/ Wake \/ LoopEnds \/ Interrupt PROVE Timed' OBVIOUS
<1>1. /\ now' = now /\ odd \subseteq odd' /\ job' = job /\ place # "finish"
      /\ verdict' = verdict \/ (verdict' = "budget" /\ place' = "finish")
  BY DEF Check, Wake, LoopEnds, Interrupt, tally, Finish
<1>2. SameTimers(job', job) BY <1>1 DEF SameTimers
<1>3. verdict = "none" BY <1>1 DEF Timed
<1> QED BY <1>1, <1>2, <1>3, TimedKept

\* Every timer that counts belongs to the pod the job has, after every step.
LEMMA NextTimed == IInv /\ Timed /\ [Next]_vars => Timed'
<1> SUFFICES ASSUME IInv, Timed, [Next]_vars PROVE Timed' OBVIOUS
<1>1. CASE Advance \/ ProcessMoves \/ SpotLoss BY <1>1, ClockTimed
<1>2. CASE Start BY <1>2, StartTimed
<1>3. CASE Pipeline BY <1>3, PipelineTimed
<1>4. CASE TickJob BY <1>4, TickJobTimed
<1>5. CASE TickResume \/ Recover BY <1>5, ResumeTimed
<1>6. CASE FinishJob \/ GracefulShutdown \/ ManualTeardown BY <1>6, EndTimed
<1>7. CASE Check \/ Wake \/ LoopEnds \/ Interrupt BY <1>7, LoopTimed
<1>8. CASE UNCHANGED vars
  BY <1>8 DEF vars, tally, Timed, OnThisPod, VerdictIsEarned
<1> QED BY <1>1, <1>2, <1>3, <1>4, <1>5, <1>6, <1>7, <1>8 DEF Next, Tick, Done

\* A job is finished for a stall, or because its process vanished, only after it has
\* had its pod for as long as the timer says, unless a recovery gave it another one.
THEOREM VerdictsAreEarned == Spec => []VerdictIsEarned
<1>1. Init => Timed
  <2>1. SUFFICES ASSUME Init PROVE Timed OBVIOUS
  <2>2. /\ job.started = None /\ job.idle = None /\ job.stalled = None
        /\ now = 0 /\ verdict = "none"
    BY <2>1 DEF Init, FreshJob
  <2> QED BY <2>2 DEF Timed, OnThisPod, VerdictIsEarned, None
<1>2. IInv /\ Timed /\ [Next]_vars => Timed' BY NextTimed
<1>3. Timed => VerdictIsEarned BY DEF Timed
<1> QED BY <1>1, <1>2, <1>3, SupervisionInvariant, PTL DEF Spec
=============================================================================
