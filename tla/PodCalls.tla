------------------------------ MODULE PodCalls ------------------------------
(***************************************************************************)
(* The calls to the cloud provider that create and terminate pods, as the  *)
(* pipeline of a run and the commands "conductor pod provision" and        *)
(* "conductor pod teardown" of another process make them at the same time: *)
(* answers that are lost after the call took effect, pods that boot, stop  *)
(* and go slowly, retries, polls with a deadline, rejected keys, Ctrl-C.   *)
(*                                                                         *)
(* A deadline is a number of polls, and the registry can be written.  The  *)
(* table of the job, its kept pods and its resumption are in Lifecycle,    *)
(* the registry file is in RegistryFile.                                   *)
(***************************************************************************)
EXTENDS Integers, FiniteSets

CONSTANTS
  Pods,
  None,
  Candidates,  \* bound: candidates that a run tries, over all passes
  Attempts,    \* of retry
  Rounds,      \* TERMINATE_ATTEMPTS
  Polls,       \* the polls before a deadline
  Rejections,  \* AUTH_FAILURES_BEFORE_FATAL
  MaxCommands  \* bound: commands

ASSUME PodCallsAssumption ==
  /\ None \notin Pods
  /\ Candidates \in Nat /\ MaxCommands \in Nat
  /\ Attempts \in Nat \ {0} /\ Rounds \in Nat \ {0}
  /\ Polls \in Nat \ {0} /\ Rejections \in Nat \ {0}

VARIABLES
  cloud,      \* what each pod does; "ending": its terminate is being carried out
  registry,   \* the status in the registry of each pod
  call,       \* what each caller does
  candidate,  \* candidates tried
  shutdown,   \* shutdown.requested() of the run
  reported,   \* pods that a provision command could not terminate, and named
  lost,       \* pods whose creation was not answered
  abandoned,  \* pods of a provision command that was interrupted
  assumed,    \* pods that a teardown command wrote off without a confirmation
  commands    \* commands given

Callers == {"run", "pod"}

\* A call that has begun.
Call(purpose, at, pod) ==
  [purpose |-> purpose, at |-> at, pod |-> pod, attempt |-> 1, round |-> 1, poll |-> 0,
   rejected |-> 0, ok |-> FALSE]

CallType ==
  [purpose : {"provision", "teardown"},
   at : {"over", "create", "address", "ssh", "terminate", "verify", "released", "ready"},
   pod : Pods \cup {None}, attempt : 1 .. Attempts, round : 1 .. Rounds,
   poll : 0 .. Polls - 1, rejected : 0 .. Rejections, ok : BOOLEAN]

TypeOK ==
  /\ cloud \in [Pods -> {"unborn", "booting", "up", "ending", "gone"}]
  /\ registry \in [Pods -> {"absent", "running", "terminated"}]
  /\ call \in [Callers -> CallType]
  /\ \A c \in Callers : call[c].at \notin {"over", "create"} => call[c].pod \in Pods
  /\ candidate \in 0 .. Candidates /\ commands \in 0 .. MaxCommands
  /\ shutdown \in BOOLEAN
  /\ reported \subseteq Pods /\ lost \subseteq Pods
  /\ abandoned \subseteq Pods /\ assumed \subseteq Pods

Init ==
  /\ cloud = [p \in Pods |-> "unborn"]
  /\ registry = [p \in Pods |-> "absent"]
  /\ call = [c \in Callers |-> Call("provision", "over", None)]
  /\ candidate = 0 /\ shutdown = FALSE
  /\ reported = {} /\ lost = {} /\ abandoned = {} /\ assumed = {} /\ commands = 0

books == <<reported, lost, abandoned, assumed>>
vars  == <<cloud, registry, call, candidate, shutdown, books, commands>>

Alive(p) == cloud[p] \in {"booting", "up", "ending"}
Up(p)    == cloud[p] \in {"up", "ending"}

Goto(c, at) == call' = [call EXCEPT ![c].at = at]
Return(c)   == call' = [call EXCEPT ![c] = Call("provision", "over", None)]

-----------------------------------------------------------------------------
(* provision_pod and provision_pod_direct.                                  *)

\* A run provisions its job; a command provisions a pod.
BeginProvision(c) ==
  /\ call[c].at = "over" /\ call' = [call EXCEPT ![c] = Call("provision", "create", None)]
  /\ IF c = "run" THEN candidate = 0 /\ candidate < Candidates /\ ~shutdown
                       /\ candidate' = 1 /\ UNCHANGED commands
     ELSE commands < MaxCommands /\ commands' = commands + 1 /\ UNCHANGED candidate
  /\ UNCHANGED <<cloud, registry, shutdown, books>>

\* No pod came of the candidate: the run tries the next one, in this pass or in
\* another, unless Ctrl-C ends the wait between two passes; the command has failed.
NextCandidate(c) ==
  \/ /\ c = "run" /\ candidate < Candidates /\ candidate' = candidate + 1
     /\ call' = [call EXCEPT ![c] = Call("provision", "create", None)]
  \/ /\ c = "run" => candidate = Candidates \/ shutdown
     /\ Return(c) /\ UNCHANGED candidate

\* create_instance is not retried.  A run persists and registers the pod at once.
CreateInstance(c) ==
  /\ call[c].at = "create"
  /\ \/ \E p \in Pods :
          /\ cloud[p] = "unborn" /\ cloud' = [cloud EXCEPT ![p] = "booting"]
          /\ \/ /\ call' = [call EXCEPT ![c] = Call("provision", "address", p)]
                /\ registry' = IF c = "run" THEN [registry EXCEPT ![p] = "running"] ELSE registry
                /\ UNCHANGED <<lost, candidate>>
             \/ lost' = lost \cup {p} /\ NextCandidate(c) /\ UNCHANGED registry
     \/ NextCandidate(c) /\ UNCHANGED <<cloud, lost, registry>>
  /\ UNCHANGED <<shutdown, reported, abandoned, assumed, commands>>

\* teardown_pod begins; of _release too.
TerminateNow(c) ==
  call' = [call EXCEPT ![c] = Call(call[c].purpose, "terminate", call[c].pod)]

\* Wrong variant: the deadline is set anew at every poll.
PolledAnew(c) == 1

\* The polls made, after one more.
Polled(c) == call[c].poll + 1

\* Wrong variant: one more poll after the deadline.
ExpiredByOne(c) == Polled(c) > Polls

\* The deadline has passed.
Expired(c) == Polled(c) >= Polls

\* Between two polls: Ctrl-C interrupts the run, which keeps its pod; after the
\* deadline the pod is released.
Pause(c, rejected) ==
  IF c = "run" /\ shutdown THEN Return(c)
  ELSE IF Expired(c) THEN TerminateNow(c)
  ELSE call' = [call EXCEPT ![c].poll = Polled(c), ![c].rejected = rejected]

\* wait_for_ssh.  A pod that has stopped may be listed as such, or not at all.
AwaitAddress(c) ==
  /\ call[c].at = "address"
  /\ \/ Up(call[c].pod) /\ call' = [call EXCEPT ![c] = Call("provision", "ssh", call[c].pod)]
     \/ cloud[call[c].pod] = "gone" /\ TerminateNow(c)
     \/ Pause(c, 0)
  /\ UNCHANGED <<cloud, registry, candidate, shutdown, books, commands>>

\* wait_ssh.  The key is rejected too often in a row: SshAuthError.
AwaitSsh(c) ==
  /\ call[c].at = "ssh"
  /\ \/ Up(call[c].pod) /\ Goto(c, "ready")
     \/ /\ Up(call[c].pod)
        /\ IF call[c].rejected + 1 >= Rejections
             THEN call' = [call EXCEPT ![c] = [Call("provision", "terminate", call[c].pod)
                                                 EXCEPT !.rejected = Rejections]]
             ELSE Pause(c, call[c].rejected + 1)
     \/ Pause(c, 0)
  /\ UNCHANGED <<cloud, registry, candidate, shutdown, books, commands>>

\* The pod is ready, and registered by either caller.
PodReady(c) ==
  /\ call[c].at = "ready" /\ Return(c)
  /\ registry' = [registry EXCEPT ![call[c].pod] = "running"]
  /\ UNCHANGED <<cloud, candidate, shutdown, books, commands>>

-----------------------------------------------------------------------------
(* teardown_pod, and what its callers make of the answer.                   *)

\* The attempt fails and another one follows, by retry or by the loop of teardown_pod,
\* or the pod could not be terminated.
NextRound(c) ==
  IF call[c].round < Rounds
    THEN call' = [call EXCEPT ![c].round = @ + 1, ![c].attempt = 1]
    ELSE call' = [call EXCEPT ![c].at = "released", ![c].ok = FALSE]

NextAttempt(c) ==
  IF call[c].attempt < Attempts THEN call' = [call EXCEPT ![c].attempt = @ + 1]
                                ELSE NextRound(c)

\* provider.terminate: accepted, or already gone; no answer, whether it took effect or
\* not; or refused with an error that is not retried.
Terminate(c) ==
  LET p == call[c].pod
      ended == [cloud EXCEPT ![p] = IF @ = "gone" THEN @ ELSE "ending"]
  IN /\ call[c].at = "terminate"
     /\ \/ cloud' = ended /\ Goto(c, "verify")
        \/ cloud' = ended /\ NextAttempt(c)
        \/ UNCHANGED cloud /\ (NextAttempt(c) \/ NextRound(c))
     /\ UNCHANGED <<registry, candidate, shutdown, books, commands>>

\* Wrong variant: no answer is taken for "gone".
SaysGoneOrNothing(p) == {~Alive(p), TRUE}

\* Whether an answer to check_exists is "gone": the truth, or there is no answer.
SaysGone(p) == {~Alive(p), FALSE}

\* The provider is polled until it says that the pod is gone.
Verify(c) ==
  /\ call[c].at = "verify"
  /\ \E gone \in SaysGone(call[c].pod) :
       call' = [call EXCEPT ![c] =
         IF gone THEN [@ EXCEPT !.at = "released", !.ok = TRUE]
         ELSE IF Expired(c) THEN [@ EXCEPT !.at = "released", !.ok = FALSE]
         ELSE [@ EXCEPT !.poll = Polled(c)]]
  /\ UNCHANGED <<cloud, registry, candidate, shutdown, books, commands>>

\* Wrong variant: the termination is not looked at.
StatusAfterReleaseAssumed(c) == "terminated"

\* What on_released does to the record: it stays unless the termination was confirmed.
StatusAfterRelease(c) == IF call[c].ok THEN "terminated" ELSE registry[call[c].pod]

\* _released of the pipeline, and _forget_released_pod: a rejected key ends it, else
\* the next candidate is tried.
ReleasedByRun ==
  LET p == call["run"].pod
  IN /\ call["run"].at = "released"
     /\ registry' = [registry EXCEPT ![p] = StatusAfterRelease("run")]
     /\ IF call["run"].rejected = Rejections THEN Return("run") /\ UNCHANGED candidate
                                             ELSE NextCandidate("run")
     /\ UNCHANGED <<cloud, shutdown, books, commands>>

\* A provision command names the pod that it could not terminate; a teardown command
\* marks the pod terminated in any case.
ReleasedByCommand ==
  LET p == call["pod"].pod
  IN /\ call["pod"].at = "released" /\ Return("pod")
     /\ IF call["pod"].purpose = "provision"
          THEN /\ reported' = IF call["pod"].ok THEN reported ELSE reported \cup {p}
               /\ UNCHANGED <<registry, assumed>>
          ELSE /\ registry' = [registry EXCEPT ![p] = "terminated"]
               /\ assumed' = IF call["pod"].ok THEN assumed ELSE assumed \cup {p}
               /\ UNCHANGED reported
     /\ UNCHANGED <<cloud, candidate, shutdown, lost, abandoned, commands>>

\* conductor pod teardown of a pod of the registry.
BeginTeardown ==
  /\ call["pod"].at = "over" /\ commands < MaxCommands /\ commands' = commands + 1
  /\ \E p \in Pods : /\ registry[p] # "absent"
                     /\ call' = [call EXCEPT !["pod"] = Call("teardown", "terminate", p)]
  /\ UNCHANGED <<cloud, registry, candidate, shutdown, books>>

-----------------------------------------------------------------------------
(* Ctrl-C and the provider.                                                 *)

\* The handler of the run sets the flag.
Sigint ==
  /\ ~shutdown /\ shutdown' = TRUE
  /\ UNCHANGED <<cloud, registry, call, candidate, books, commands>>

\* A command is stopped where it is.
InterruptCommand ==
  /\ call["pod"].at # "over" /\ Return("pod")
  /\ abandoned' = IF call["pod"].purpose = "provision" /\ call["pod"].pod # None
                    THEN abandoned \cup {call["pod"].pod} ELSE abandoned
  /\ UNCHANGED <<cloud, registry, candidate, shutdown, reported, lost, assumed, commands>>

\* A pod boots, is reclaimed, or is terminated.
PodMoves(p) ==
  /\ \/ cloud[p] = "booting" /\ cloud' = [cloud EXCEPT ![p] = "up"]
     \/ Up(p) /\ cloud' = [cloud EXCEPT ![p] = "gone"]
  /\ UNCHANGED <<registry, call, candidate, shutdown, books, commands>>

-----------------------------------------------------------------------------

CallStep(c) ==
  \/ CreateInstance(c) \/ AwaitAddress(c) \/ AwaitSsh(c) \/ PodReady(c)
  \/ Terminate(c) \/ Verify(c)
  \/ c = "run" /\ ReleasedByRun
  \/ c = "pod" /\ ReleasedByCommand

Next ==
  \/ \E c \in Callers : BeginProvision(c) \/ CallStep(c)
  \/ BeginTeardown \/ InterruptCommand \/ Sigint
  \/ \E p \in Pods : PodMoves(p)

Spec == Init /\ [][Next]_vars

\* A process goes on with its call.
FairSpec == Spec /\ \A c \in Callers : WF_vars(CallStep(c))

-----------------------------------------------------------------------------

\* teardown_pod answers that a pod is gone only when it runs no more: not on a lost
\* answer, nor because its terminate was accepted.
ConfirmedIsGone ==
  \A c \in Callers : call[c].at = "released" /\ call[c].ok => ~Alive(call[c].pod)

\* The pod that a provision command is at work on.
Held == IF call["pod"].at # "over" /\ call["pod"].purpose = "provision" THEN {call["pod"].pod}
                                                                    ELSE {}

\* Every pod that runs, and whose id was answered, is registered as running, also while
\* a run waits for it and after a run could not terminate it; or it is a provision
\* command's, that is at work on it, could not terminate it and said so, or was
\* interrupted; or a teardown command wrote it off.
EveryPodIsAccounted ==
  \A p \in Pods :
    Alive(p) => registry[p] = "running" \/ p \in reported \cup lost \cup abandoned \cup assumed \cup Held

\* Whatever the provider answers, or does not, every call returns.
CallsReturn == \A c \in Callers : call[c].at # "over" ~> call[c].at = "over"
=============================================================================
