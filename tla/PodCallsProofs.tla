--------------------------- MODULE PodCallsProofs ---------------------------
(***************************************************************************)
(* What a confirmed termination means and which pods are accounted for,    *)
(* for any number of pods, candidates, attempts, polls and commands.       *)
(***************************************************************************)
EXTENDS PodCalls, TLAPS

\* A call is about a pod that was created, and what teardown_pod confirmed is true.
Sound(r) ==
  /\ r \in CallType
  /\ r.at \notin {"over", "create"} => r.pod \in Pods /\ cloud[r.pod] # "unborn"
  /\ r.at \in {"create", "address", "ssh", "ready"} => r.purpose = "provision"
  /\ r.at = "create" => r.pod = None
  /\ r.at = "released" /\ r.ok => ~Alive(r.pod)

CallsSound == \A c \in Callers : Sound(call[c])

\* The registry knows only pods that were created.
Born == \A p \in Pods : registry[p] # "absent" => cloud[p] # "unborn"

IInv == TypeOK /\ CallsSound /\ Born /\ EveryPodIsAccounted

\* What pods do in a step that creates none: none starts to run again.
Aging == \A p \in Pods : cloud[p] # "unborn" => cloud'[p] # "unborn" /\ (Alive(p)' => Alive(p))

-----------------------------------------------------------------------------

LEMMA CallFacts ==
  ASSUME NEW purpose \in {"provision", "teardown"}, NEW pod \in Pods \cup {None},
         NEW at \in {"over", "create", "address", "ssh", "terminate", "verify",
                     "released", "ready"}
  PROVE  /\ Call(purpose, at, pod) \in CallType
         /\ Call(purpose, at, pod).purpose = purpose
         /\ Call(purpose, at, pod).at = at /\ Call(purpose, at, pod).pod = pod
         /\ ~Call(purpose, at, pod).ok
BY PodCallsAssumption DEF Call, CallType

\* One caller goes on to a sound call: the others stay sound, whatever pods end.
LEMMA OthersStaySound ==
  ASSUME IInv, NEW c \in Callers, NEW r, Sound(r)',
         call' = [call EXCEPT ![c] = r], Aging
  PROVE  /\ CallsSound' /\ call' \in [Callers -> CallType]
         /\ \A d \in Callers : call'[d].at \notin {"over", "create"} => call'[d].pod \in Pods
<1>1. call \in [Callers -> CallType] BY DEF IInv, TypeOK
<1>2. r \in CallType BY DEF Sound
<1>3. call' \in [Callers -> CallType] BY <1>1, <1>2
<1>4. ASSUME NEW d \in Callers PROVE Sound(call[d])'
  <2>1. CASE d = c BY <1>1, <2>1
  <2>2. CASE d # c
    <3>1. call'[d] = call[d] /\ Sound(call[d]) BY <1>1, <2>2 DEF IInv, CallsSound
    <3> QED BY <3>1 DEF Sound, Aging
  <2> QED BY <2>1, <2>2
<1>5. CallsSound' BY <1>4 DEF CallsSound
<1> QED BY <1>3, <1>5 DEF CallsSound, Sound

\* After an attempt that failed.
LEMMA AttemptFacts ==
  ASSUME IInv, NEW c \in Callers, call[c].at = "terminate", NextAttempt(c) \/ NextRound(c)
  PROVE  \E r \in CallType :
           /\ call' = [call EXCEPT ![c] = r]
           /\ r.pod = call[c].pod /\ r.purpose = call[c].purpose
           /\ r.at \in {"terminate", "released"} /\ (r.at = "released" => ~r.ok)
<1> USE PodCallsAssumption
<1>1. call \in [Callers -> CallType] BY DEF IInv, TypeOK
<1> DEFINE q == call[c]
<1>2. q \in CallType /\ q.at = "terminate" BY <1>1
<1>3. CASE NextRound(c) /\ q.round < Rounds
  <2> DEFINE r == [q EXCEPT !.round = q.round + 1, !.attempt = 1]
  <2>1. call' = [call EXCEPT ![c] = r]
    BY <1>1, <1>3 DEF NextRound
  <2>2. q.round + 1 \in 1 .. Rounds /\ 1 \in 1 .. Attempts BY <1>2, <1>3 DEF CallType
  <2>3. r \in CallType /\ r.pod = q.pod /\ r.purpose = q.purpose /\ r.at = "terminate"
    BY <1>2, <2>2 DEF CallType
  <2> HIDE DEF r
  <2> QED BY <2>1, <2>3
<1>4. CASE NextRound(c) /\ ~(q.round < Rounds)
  <2> DEFINE r == [q EXCEPT !.at = "released", !.ok = FALSE]
  <2>1. call' = [call EXCEPT ![c] = r] BY <1>1, <1>4 DEF NextRound
  <2>2. r \in CallType /\ r.pod = q.pod /\ r.purpose = q.purpose /\ r.at = "released" /\ ~r.ok
    BY <1>2 DEF CallType
  <2> HIDE DEF r
  <2> QED BY <2>1, <2>2
<1>5. CASE NextAttempt(c) /\ ~NextRound(c)
  <2> DEFINE r == [q EXCEPT !.attempt = q.attempt + 1]
  <2>1. q.attempt < Attempts /\ call' = [call EXCEPT ![c] = r] BY <1>1, <1>5 DEF NextAttempt
  <2>2. r \in CallType /\ r.pod = q.pod /\ r.purpose = q.purpose /\ r.at = "terminate"
    BY <1>2, <2>1 DEF CallType
  <2> HIDE DEF r
  <2> QED BY <2>1, <2>2
<1> QED BY <1>3, <1>4, <1>5

\* After a pause: another poll, or the deadline; only a run returns.
LEMMA PauseFacts ==
  ASSUME IInv, NEW c \in Callers, call[c].at \in {"address", "ssh"},
         NEW n \in 0 .. Rejections, Pause(c, n)
  PROVE  \E r \in CallType :
           /\ call' = [call EXCEPT ![c] = r]
           /\ \/ r.pod = call[c].pod /\ r.purpose = call[c].purpose /\ r.at \in {call[c].at, "terminate"}
              \/ c = "run" /\ r.at = "over"
<1> USE PodCallsAssumption
<1>1. call \in [Callers -> CallType] BY DEF IInv, TypeOK
<1> DEFINE q == call[c]
<1>2. q \in CallType BY <1>1
<1>3. CASE c = "run" /\ shutdown
  BY <1>3, CallFacts DEF Pause, Return
<1>4. CASE ~(c = "run" /\ shutdown) /\ Expired(c)
  <2>1. q.purpose \in {"provision", "teardown"} /\ q.pod \in Pods \cup {None} BY <1>2 DEF CallType
  <2> QED BY <1>4, <2>1, CallFacts DEF Pause, TerminateNow
<1>5. CASE ~(c = "run" /\ shutdown) /\ ~Expired(c)
  <2> DEFINE r == [q EXCEPT !.poll = q.poll + 1, !.rejected = n]
  <2>1. call' = [call EXCEPT ![c] = r] BY <1>1, <1>5 DEF Pause, Polled
  <2>2. q.poll + 1 < Polls /\ q.poll \in 0 .. Polls - 1 BY <1>2, <1>5 DEF Expired, Polled, CallType
  <2>3. q.poll + 1 \in 0 .. Polls - 1 BY <2>2
  <2>4. r \in CallType BY <1>2, <2>3 DEF CallType
  <2>5. r.pod = q.pod /\ r.purpose = q.purpose /\ r.at = q.at BY <1>2 DEF CallType
  <2> HIDE DEF r
  <2> QED BY <2>1, <2>4, <2>5
<1> QED BY <1>3, <1>4, <1>5

\* After a candidate that gave no pod.
LEMMA CandidateFacts ==
  ASSUME IInv, NEW c \in Callers, NextCandidate(c)
  PROVE  /\ candidate' \in 0 .. Candidates
         /\ \E r \in CallType :
              /\ call' = [call EXCEPT ![c] = r]
              /\ r.purpose = "provision" /\ r.pod = None
              /\ r.at \in {"over", "create"} /\ (r.at = "create" => c = "run")
<1>1. candidate \in 0 .. Candidates /\ Candidates \in Nat
  BY PodCallsAssumption DEF IInv, TypeOK
<1>2. CASE /\ c = "run" /\ candidate < Candidates /\ candidate' = candidate + 1
           /\ call' = [call EXCEPT ![c] = Call("provision", "create", None)]
  <2> DEFINE r == Call("provision", "create", None)
  <2>1. candidate' \in 0 .. Candidates BY <1>1, <1>2
  <2>2. r \in CallType /\ r.purpose = "provision" /\ r.pod = None /\ r.at = "create"
    BY CallFacts
  <2> HIDE DEF r
  <2>3. call' = [call EXCEPT ![c] = r] BY <1>2 DEF r
  <2> QED BY <1>2, <2>1, <2>2, <2>3
<1>3. CASE Return(c) /\ UNCHANGED candidate
  <2> DEFINE r == Call("provision", "over", None)
  <2>1. r \in CallType /\ r.purpose = "provision" /\ r.pod = None /\ r.at = "over"
    BY CallFacts
  <2> HIDE DEF r
  <2>2. call' = [call EXCEPT ![c] = r] BY <1>3 DEF Return, r
  <2> QED BY <1>1, <1>3, <2>1, <2>2
<1> QED BY <1>2, <1>3 DEF NextCandidate
-----------------------------------------------------------------------------

\* No pod is created, and none that ended runs again.
NoBirth == Aging /\ \A p \in Pods : cloud[p] = "unborn" => cloud'[p] = "unborn"

\* The call of caller c goes on with its pod.
GoesOn(c, r) == r.at # "over" /\ r.pod = call[c].pod /\ r.purpose = call[c].purpose

\* The provision command keeps the pod it is at work on when the run moves, or when it
\* goes on itself.
LEMMA HeldKept ==
  ASSUME IInv, NEW c \in Callers, NEW r, call' = [call EXCEPT ![c] = r],
         c = "run" \/ GoesOn(c, r) \/ call["pod"].at = "over"
  PROVE  \A p \in Pods : p \in Held => p \in Held'
<1>1. call \in [Callers -> CallType] /\ "pod" \in Callers BY DEF IInv, TypeOK, Callers
<1>2. CASE c = "run" BY <1>1, <1>2 DEF Held
<1>3. CASE c = "pod" BY <1>1, <1>3 DEF Held, GoesOn
<1> QED BY <1>2, <1>3 DEF Callers

\* Steps that touch neither the registry nor the books.
LEMMA Accounts ==
  ASSUME IInv, NoBirth, UNCHANGED <<registry, books>>,
         \A p \in Pods : p \in Held => p \in Held'
  PROVE  Born' /\ EveryPodIsAccounted'
<1>1. ASSUME NEW p \in Pods, Alive(p)' PROVE Alive(p)
  BY <1>1 DEF NoBirth, Aging, Alive
<1>2. EveryPodIsAccounted' BY <1>1 DEF IInv, EveryPodIsAccounted, books
<1>3. Born' BY DEF IInv, Born, NoBirth, Aging
<1> QED BY <1>2, <1>3

\* A step that moves one call on, without a new pod or an entry in the books.
LEMMA CallGoesOn ==
  ASSUME IInv, NoBirth, cloud' \in [Pods -> {"unborn", "booting", "up", "ending", "gone"}],
         UNCHANGED <<registry, candidate, shutdown, books, commands>>,
         NEW c \in Callers, NEW r, Sound(r)', call' = [call EXCEPT ![c] = r],
         c = "run" \/ GoesOn(c, r)
  PROVE  IInv'
<1>1. CallsSound' /\ call' \in [Callers -> CallType]
      /\ \A d \in Callers : call'[d].at \notin {"over", "create"} => call'[d].pod \in Pods
  BY OthersStaySound DEF NoBirth
<1>2. Born' /\ EveryPodIsAccounted' BY HeldKept, Accounts
<1>3. TypeOK' BY <1>1 DEF IInv, TypeOK, books
<1> QED BY <1>1, <1>2, <1>3 DEF IInv

\* What is known of a caller at work.
LEMMA Working ==
  ASSUME IInv, NEW c \in Callers, call[c].at \notin {"over", "create"}
  PROVE  /\ Sound(call[c]) /\ call[c] \in CallType /\ call[c].pod \in Pods
         /\ cloud[call[c].pod] # "unborn" /\ call[c].purpose \in {"provision", "teardown"}
BY DEF IInv, CallsSound, Sound, CallType

LEMMA InitInv == Init => IInv
<1> SUFFICES ASSUME Init PROVE IInv OBVIOUS
<1> USE PodCallsAssumption
<1>1. \A c \in Callers : call[c] = Call("provision", "over", None) BY DEF Init
<1>2. \A c \in Callers : call[c] \in CallType /\ call[c].at = "over" BY <1>1, CallFacts
<1>3. call \in [Callers -> CallType] BY <1>2 DEF Init
<1>4. TypeOK
  <2>1. /\ cloud \in [Pods -> {"unborn", "booting", "up", "ending", "gone"}]
        /\ registry \in [Pods -> {"absent", "running", "terminated"}]
    BY DEF Init
  <2>2. candidate \in 0 .. Candidates /\ commands \in 0 .. MaxCommands BY DEF Init
  <2>3. \A c \in Callers : call[c].at \notin {"over", "create"} => call[c].pod \in Pods
    BY <1>2
  <2> QED BY <1>3, <2>1, <2>2, <2>3 DEF Init, TypeOK
<1>5. CallsSound BY <1>2 DEF CallsSound, Sound
<1>6. Born /\ EveryPodIsAccounted BY DEF Init, Born, EveryPodIsAccounted, Alive
<1> QED BY <1>4, <1>5, <1>6 DEF IInv

LEMMA AwaitStep ==
  ASSUME IInv, NEW c \in Callers, AwaitAddress(c) \/ AwaitSsh(c)
  PROVE  IInv'
<1> USE PodCallsAssumption
<1> DEFINE q == call[c]
<1>1. /\ q \in CallType /\ q.pod \in Pods /\ cloud[q.pod] # "unborn"
      /\ q.purpose = "provision" /\ q.at \in {"address", "ssh"}
      /\ q.rejected \in 0 .. Rejections
  BY Working DEF AwaitAddress, AwaitSsh, Sound, CallType
<1>2. /\ UNCHANGED <<cloud, registry, candidate, shutdown, books, commands>>
      /\ NoBirth /\ cloud' \in [Pods -> {"unborn", "booting", "up", "ending", "gone"}]
  BY DEF AwaitAddress, AwaitSsh, NoBirth, Aging, Alive, IInv, TypeOK
<1>3. \E r \in CallType :
        /\ call' = [call EXCEPT ![c] = r]
        /\ \/ r.pod = q.pod /\ r.purpose = q.purpose
              /\ r.at \in {"address", "ssh", "ready", "terminate"}
           \/ c = "run" /\ r.at = "over"
  <2>1. CASE \E n \in 0 .. Rejections : Pause(c, n)
    BY <1>1, <2>1, PauseFacts
  <2>2. CASE TerminateNow(c)
    <3> DEFINE r == Call("provision", "terminate", q.pod)
    <3>1. r \in CallType /\ r.pod = q.pod /\ r.purpose = "provision" /\ r.at = "terminate"
      BY <1>1, CallFacts
    <3>2. call' = [call EXCEPT ![c] = r] BY <1>1, <2>2 DEF TerminateNow
    <3> HIDE DEF r
    <3> QED BY <1>1, <3>1, <3>2
  <2>3. CASE AwaitAddress(c) /\ call' = [call EXCEPT ![c] = Call("provision", "ssh", q.pod)]
    <3> DEFINE r == Call("provision", "ssh", q.pod)
    <3>1. r \in CallType /\ r.pod = q.pod /\ r.purpose = "provision" /\ r.at = "ssh"
      BY <1>1, CallFacts
    <3>2. call' = [call EXCEPT ![c] = r] BY <2>3
    <3> HIDE DEF r
    <3> QED BY <1>1, <3>1, <3>2
  <2>4. CASE Goto(c, "ready")
    <3> DEFINE r == [q EXCEPT !.at = "ready"]
    <3>1. r \in CallType /\ r.pod = q.pod /\ r.purpose = q.purpose /\ r.at = "ready"
      BY <1>1 DEF CallType
    <3>2. call' = [call EXCEPT ![c] = r] BY <2>4 DEF Goto, IInv, TypeOK
    <3> HIDE DEF r
    <3> QED BY <3>1, <3>2
  <2>5. CASE call' = [call EXCEPT ![c] = [Call("provision", "terminate", q.pod)
                                            EXCEPT !.rejected = Rejections]]
    <3> DEFINE b == Call("provision", "terminate", q.pod)
               r == [b EXCEPT !.rejected = Rejections]
    <3>1. b \in CallType /\ b.pod = q.pod /\ b.purpose = "provision" /\ b.at = "terminate"
      BY <1>1, CallFacts
    <3>2. call' = [call EXCEPT ![c] = r] BY <2>5
    <3> HIDE DEF b
    <3>3. r \in CallType /\ r.pod = q.pod /\ r.purpose = q.purpose /\ r.at = "terminate"
      BY <1>1, <3>1 DEF CallType
    <3> HIDE DEF r
    <3> QED BY <3>2, <3>3
  <2>6. CASE AwaitAddress(c)
    <3>1. 0 \in 0 .. Rejections OBVIOUS
    <3> QED BY <2>1, <2>2, <2>3, <2>6, <3>1 DEF AwaitAddress
  <2>7. CASE AwaitSsh(c)
    <3>1. 0 \in 0 .. Rejections OBVIOUS
    <3>2. ~(q.rejected + 1 >= Rejections) => q.rejected + 1 \in 0 .. Rejections BY <1>1
    <3> QED BY <2>1, <2>4, <2>5, <2>7, <3>1, <3>2 DEF AwaitSsh
  <2> QED BY <2>6, <2>7
<1>4. PICK r \in CallType :
        /\ call' = [call EXCEPT ![c] = r]
        /\ \/ r.pod = q.pod /\ r.purpose = q.purpose
              /\ r.at \in {"address", "ssh", "ready", "terminate"}
           \/ c = "run" /\ r.at = "over"
  BY <1>3
<1>5. Sound(r)' BY <1>1, <1>2, <1>4 DEF Sound
<1>6. c = "run" \/ GoesOn(c, r) BY <1>4 DEF GoesOn
<1> QED BY <1>2, <1>4, <1>5, <1>6, CallGoesOn

LEMMA TerminateStep ==
  ASSUME IInv, NEW c \in Callers, Terminate(c)
  PROVE  IInv'
<1> DEFINE q == call[c]
<1>1. /\ q \in CallType /\ q.pod \in Pods /\ cloud[q.pod] # "unborn"
      /\ q.purpose \in {"provision", "teardown"} /\ q.at = "terminate"
      /\ UNCHANGED <<registry, candidate, shutdown, books, commands>>
  BY Working DEF Terminate
<1>2. cloud' \in [Pods -> {"unborn", "booting", "up", "ending", "gone"}] /\ NoBirth
  <2>1. cloud \in [Pods -> {"unborn", "booting", "up", "ending", "gone"}] BY DEF IInv, TypeOK
  <2>2. CASE UNCHANGED cloud BY <2>1, <2>2 DEF NoBirth, Aging, Alive
  <2>3. CASE cloud' = [cloud EXCEPT ![q.pod] = IF cloud[q.pod] = "gone" THEN cloud[q.pod] ELSE "ending"]
    <3>1. ASSUME NEW p \in Pods, p # q.pod PROVE cloud'[p] = cloud[p]
      BY <1>1, <2>1, <2>3, <3>1
    <3>2. /\ cloud'[q.pod] \in {"gone", "ending"}
          /\ cloud[q.pod] = "gone" => cloud'[q.pod] = "gone"
      BY <1>1, <2>1, <2>3
    <3>3. cloud[q.pod] # "gone" => Alive(q.pod) BY <1>1, <2>1 DEF Alive
    <3>4. cloud' \in [Pods -> {"unborn", "booting", "up", "ending", "gone"}] BY <1>1, <2>1, <2>3
    <3>5. NoBirth BY <1>1, <3>1, <3>2, <3>3 DEF NoBirth, Aging, Alive
    <3> QED BY <3>4, <3>5
  <2> QED BY <2>2, <2>3 DEF Terminate
<1>3. \E r \in CallType :
        /\ call' = [call EXCEPT ![c] = r]
        /\ r.pod = q.pod /\ r.purpose = q.purpose
        /\ r.at \in {"terminate", "verify", "released"} /\ (r.at = "released" => ~r.ok)
  <2>1. CASE NextAttempt(c) \/ NextRound(c) BY <1>1, <2>1, AttemptFacts
  <2>2. CASE Goto(c, "verify")
    <3> DEFINE r == [q EXCEPT !.at = "verify"]
    <3>1. r \in CallType /\ r.pod = q.pod /\ r.purpose = q.purpose /\ r.at = "verify"
      BY <1>1 DEF CallType
    <3>2. call' = [call EXCEPT ![c] = r] BY <2>2 DEF Goto, IInv, TypeOK
    <3> HIDE DEF r
    <3> QED BY <3>1, <3>2
  <2> QED BY <2>1, <2>2 DEF Terminate
<1>4. PICK r \in CallType :
        /\ call' = [call EXCEPT ![c] = r]
        /\ r.pod = q.pod /\ r.purpose = q.purpose
        /\ r.at \in {"terminate", "verify", "released"} /\ (r.at = "released" => ~r.ok)
  BY <1>3
<1>5. Sound(r)' BY <1>1, <1>2, <1>4 DEF Sound, NoBirth, Aging
<1>6. GoesOn(c, r) BY <1>4 DEF GoesOn
<1> QED BY <1>1, <1>2, <1>4, <1>5, <1>6, CallGoesOn

LEMMA VerifyStep ==
  ASSUME IInv, NEW c \in Callers, Verify(c)
  PROVE  IInv'
<1> USE PodCallsAssumption
<1> DEFINE q == call[c]
<1>1. /\ q \in CallType /\ q.pod \in Pods /\ cloud[q.pod] # "unborn"
      /\ q.purpose \in {"provision", "teardown"} /\ q.at = "verify"
      /\ call \in [Callers -> CallType]
      /\ UNCHANGED <<cloud, registry, candidate, shutdown, books, commands>>
  BY Working DEF Verify, IInv, TypeOK
<1>2. cloud' \in [Pods -> {"unborn", "booting", "up", "ending", "gone"}] /\ NoBirth
  BY <1>1 DEF IInv, TypeOK, NoBirth, Aging, Alive
<1>3. PICK gone \in SaysGone(q.pod) :
        call' = [call EXCEPT ![c] =
          IF gone THEN [q EXCEPT !.at = "released", !.ok = TRUE]
          ELSE IF Expired(c) THEN [q EXCEPT !.at = "released", !.ok = FALSE]
          ELSE [q EXCEPT !.poll = Polled(c)]]
  BY <1>1 DEF Verify
<1>4. \E r \in CallType :
        /\ call' = [call EXCEPT ![c] = r] /\ r.pod = q.pod /\ r.purpose = q.purpose
        /\ r.at \in {"verify", "released"} /\ (r.at = "released" /\ r.ok => ~Alive(q.pod))
  <2>1. CASE gone
    <3> DEFINE r == [q EXCEPT !.at = "released", !.ok = TRUE]
    <3>1. r \in CallType /\ r.pod = q.pod /\ r.purpose = q.purpose /\ r.at = "released"
      BY <1>1 DEF CallType
    <3>2. call' = [call EXCEPT ![c] = r] BY <1>3, <2>1
    <3>3. ~Alive(q.pod) BY <1>3, <2>1 DEF SaysGone
    <3> HIDE DEF r
    <3> QED BY <3>1, <3>2, <3>3
  <2>2. CASE ~gone /\ Expired(c)
    <3> DEFINE r == [q EXCEPT !.at = "released", !.ok = FALSE]
    <3>1. r \in CallType /\ r.pod = q.pod /\ r.purpose = q.purpose /\ r.at = "released" /\ ~r.ok
      BY <1>1 DEF CallType
    <3>2. call' = [call EXCEPT ![c] = r] BY <1>3, <2>2
    <3> HIDE DEF r
    <3> QED BY <3>1, <3>2
  <2>3. CASE ~gone /\ ~Expired(c)
    <3> DEFINE r == [q EXCEPT !.poll = q.poll + 1]
    <3>1. q.poll + 1 \in 0 .. Polls - 1 BY <1>1, <2>3 DEF Expired, Polled, CallType
    <3>2. r \in CallType /\ r.pod = q.pod /\ r.purpose = q.purpose /\ r.at = "verify"
      BY <1>1, <3>1 DEF CallType
    <3>3. call' = [call EXCEPT ![c] = r] BY <1>3, <2>3 DEF Polled
    <3> HIDE DEF r
    <3> QED BY <3>2, <3>3
  <2> QED BY <2>1, <2>2, <2>3
<1>5. PICK r \in CallType :
        /\ call' = [call EXCEPT ![c] = r] /\ r.pod = q.pod /\ r.purpose = q.purpose
        /\ r.at \in {"verify", "released"} /\ (r.at = "released" /\ r.ok => ~Alive(q.pod))
  BY <1>4
<1>6. Sound(r)' BY <1>1, <1>5 DEF Sound, Alive
<1>7. GoesOn(c, r) BY <1>5 DEF GoesOn
<1> QED BY <1>1, <1>2, <1>5, <1>6, <1>7, CallGoesOn

\* A call that is new, or over, is sound.
LEMMA IdleIsSound ==
  ASSUME NEW r \in CallType, r.purpose = "provision", r.pod = None, r.at \in {"over", "create"}
  PROVE  Sound(r)'
BY DEF Sound

LEMMA BeginStep ==
  ASSUME IInv, NEW c \in Callers, BeginProvision(c) \/ (c = "pod" /\ BeginTeardown)
  PROVE  IInv'
<1> USE PodCallsAssumption
<1>1. /\ call[c].at = "over" /\ call \in [Callers -> CallType]
      /\ UNCHANGED <<cloud, registry, shutdown, books>>
  BY DEF BeginProvision, BeginTeardown, IInv, TypeOK
<1>2. NoBirth BY <1>1 DEF NoBirth, Aging, Alive
<1>3. candidate' \in 0 .. Candidates /\ commands' \in 0 .. MaxCommands
  <2>1. candidate \in 0 .. Candidates /\ commands \in 0 .. MaxCommands BY DEF IInv, TypeOK
  <2> QED BY <2>1 DEF BeginProvision, BeginTeardown
<1>4. \E r : call' = [call EXCEPT ![c] = r] /\ Sound(r)'
  <2>1. CASE BeginProvision(c)
    <3> DEFINE r == Call("provision", "create", None)
    <3>1. r \in CallType /\ r.purpose = "provision" /\ r.at = "create" /\ r.pod = None
      BY CallFacts
    <3>2. call' = [call EXCEPT ![c] = r] BY <2>1 DEF BeginProvision
    <3> HIDE DEF r
    <3> QED BY <3>1, <3>2, IdleIsSound
  <2>2. CASE c = "pod" /\ BeginTeardown
    <3>1. PICK p \in Pods : /\ registry[p] # "absent"
                            /\ call' = [call EXCEPT !["pod"] = Call("teardown", "terminate", p)]
      BY <2>2 DEF BeginTeardown
    <3> DEFINE r == Call("teardown", "terminate", p)
    <3>2. r \in CallType /\ r.pod = p /\ r.at = "terminate" BY CallFacts
    <3>3. call' = [call EXCEPT ![c] = r] BY <2>2, <3>1
    <3>4. cloud[p] # "unborn" BY <3>1 DEF IInv, Born
    <3> HIDE DEF r
    <3>5. Sound(r)' BY <1>1, <3>2, <3>4 DEF Sound
    <3> QED BY <3>3, <3>5
  <2> QED BY <2>1, <2>2
<1>5. PICK r : call' = [call EXCEPT ![c] = r] /\ Sound(r)' BY <1>4
<1>6. CallsSound' /\ call' \in [Callers -> CallType]
      /\ \A d \in Callers : call'[d].at \notin {"over", "create"} => call'[d].pod \in Pods
  BY <1>2, <1>5, OthersStaySound DEF NoBirth
<1>7. \A p \in Pods : p \in Held => p \in Held'
  <2>1. c = "run" \/ call["pod"].at = "over" BY <1>1 DEF Callers
  <2> QED BY <1>5, <2>1, HeldKept
<1>8. Born' /\ EveryPodIsAccounted' BY <1>1, <1>2, <1>7, Accounts
<1>9. TypeOK' BY <1>1, <1>3, <1>6 DEF IInv, TypeOK, books
<1> QED BY <1>6, <1>8, <1>9 DEF IInv

LEMMA ReadyStep ==
  ASSUME IInv, NEW c \in Callers, PodReady(c)
  PROVE  IInv'
<1> DEFINE p == call[c].pod
           r == Call("provision", "over", None)
<1>1. /\ p \in Pods /\ cloud[p] # "unborn" /\ call[c].purpose = "provision"
      /\ call' = [call EXCEPT ![c] = r] /\ call \in [Callers -> CallType]
      /\ registry' = [registry EXCEPT ![p] = "running"]
      /\ registry \in [Pods -> {"absent", "running", "terminated"}]
      /\ UNCHANGED <<cloud, candidate, shutdown, books, commands>>
  BY Working DEF PodReady, Return, Sound, IInv, TypeOK
<1>2. r \in CallType /\ r.purpose = "provision" /\ r.at = "over" /\ r.pod = None
  BY CallFacts
<1> HIDE DEF r
<1>3. NoBirth BY <1>1 DEF NoBirth, Aging, Alive
<1>4. Sound(r)' BY <1>2, IdleIsSound
<1>5. CallsSound' /\ call' \in [Callers -> CallType]
      /\ \A d \in Callers : call'[d].at \notin {"over", "create"} => call'[d].pod \in Pods
  BY <1>1, <1>3, <1>4, OthersStaySound DEF NoBirth
<1>6. ASSUME NEW x \in Pods, x \in Held, x # p PROVE x \in Held'
  BY <1>1, <1>6 DEF Held, Callers
<1>7. \A x \in Pods : Alive(x)' => Alive(x) BY <1>1 DEF Alive
<1>8. EveryPodIsAccounted'
  BY <1>1, <1>6, <1>7 DEF IInv, EveryPodIsAccounted, books
<1>9. Born' BY <1>1 DEF IInv, Born
<1>10. TypeOK' BY <1>1, <1>5 DEF IInv, TypeOK, books
<1> QED BY <1>5, <1>8, <1>9, <1>10 DEF IInv

\* Accounted in the books: the body of EveryPodIsAccounted, for one pod.
Accounted(p) ==
  registry[p] = "running" \/ p \in reported \cup lost \cup abandoned \cup assumed \cup Held

\* A pod is created, or the candidate gives none.
LEMMA CreateStep ==
  ASSUME IInv, NEW c \in Callers, CreateInstance(c)
  PROVE  IInv'
<1> USE PodCallsAssumption
<1>1. /\ call[c].at = "create" /\ call \in [Callers -> CallType]
      /\ cloud \in [Pods -> {"unborn", "booting", "up", "ending", "gone"}]
      /\ registry \in [Pods -> {"absent", "running", "terminated"}]
      /\ candidate \in 0 .. Candidates /\ lost \subseteq Pods
      /\ UNCHANGED <<shutdown, reported, abandoned, assumed, commands>>
  BY DEF CreateInstance, IInv, TypeOK
<1>2. call[c].pod = None /\ None \notin Pods BY <1>1 DEF IInv, CallsSound, Sound
<1>3. CASE \E p \in Pods :
        /\ cloud[p] = "unborn" /\ cloud' = [cloud EXCEPT ![p] = "booting"]
        /\ call' = [call EXCEPT ![c] = Call("provision", "address", p)]
        /\ registry' = IF c = "run" THEN [registry EXCEPT ![p] = "running"] ELSE registry
        /\ UNCHANGED <<lost, candidate>>
  <2>1. PICK p \in Pods :
          /\ cloud[p] = "unborn" /\ cloud' = [cloud EXCEPT ![p] = "booting"]
          /\ call' = [call EXCEPT ![c] = Call("provision", "address", p)]
          /\ registry' = IF c = "run" THEN [registry EXCEPT ![p] = "running"] ELSE registry
          /\ UNCHANGED <<lost, candidate>>
    BY <1>3
  <2> DEFINE r == Call("provision", "address", p)
  <2>2. r \in CallType /\ r.purpose = "provision" /\ r.pod = p /\ r.at = "address"
    BY CallFacts
  <2>3. call' = [call EXCEPT ![c] = r] BY <2>1
  <2> HIDE DEF r
  <2>4. /\ cloud' \in [Pods -> {"unborn", "booting", "up", "ending", "gone"}]
        /\ cloud'[p] = "booting" /\ \A x \in Pods : x # p => cloud'[x] = cloud[x]
    BY <1>1, <2>1
  <2>5. Aging BY <2>1, <2>4 DEF Aging, Alive
  <2>6. Sound(r)' BY <2>2, <2>4 DEF Sound
  <2>7. CallsSound' /\ call' \in [Callers -> CallType]
        /\ \A d \in Callers : call'[d].at \notin {"over", "create"} => call'[d].pod \in Pods
    BY <2>3, <2>5, <2>6, OthersStaySound
  <2>8. c = "pod" => p \in Held' BY <1>1, <2>2, <2>3 DEF Held
  <2>9. ASSUME NEW x \in Pods, x \in Held PROVE x \in Held'
    BY <1>1, <1>2, <2>3, <2>9 DEF Held, Callers
  <2>10. /\ registry' \in [Pods -> {"absent", "running", "terminated"}]
         /\ c = "run" => registry'[p] = "running"
         /\ \A x \in Pods : x # p => registry'[x] = registry[x]
    BY <1>1, <2>1
  <2>11. Accounted(p)' BY <2>8, <2>10 DEF Accounted, Callers
  <2>12. ASSUME NEW x \in Pods, x # p, Alive(x)' PROVE Accounted(x)'
    <3>1. Accounted(x) BY <2>4, <2>12 DEF IInv, EveryPodIsAccounted, Accounted, Alive
    <3> QED BY <1>1, <2>1, <2>9, <2>10, <2>12, <3>1 DEF Accounted
  <2>13. EveryPodIsAccounted' BY <2>11, <2>12 DEF EveryPodIsAccounted, Accounted
  <2>14. Born' BY <2>4, <2>10 DEF IInv, Born
  <2>15. TypeOK' BY <1>1, <2>1, <2>4, <2>7, <2>10 DEF IInv, TypeOK
  <2> QED BY <2>7, <2>13, <2>14, <2>15 DEF IInv
<1>4. CASE NextCandidate(c) /\ UNCHANGED registry
           /\ \/ UNCHANGED <<cloud, lost>>
              \/ \E p \in Pods : cloud[p] = "unborn" /\ cloud' = [cloud EXCEPT ![p] = "booting"]
                                 /\ lost' = lost \cup {p}
  <2>1. PICK r \in CallType :
          /\ call' = [call EXCEPT ![c] = r]
          /\ r.purpose = "provision" /\ r.pod = None
          /\ r.at \in {"over", "create"} /\ (r.at = "create" => c = "run")
    BY <1>4, CandidateFacts
  <2>2. candidate' \in 0 .. Candidates BY <1>4, CandidateFacts
  <2>3. Sound(r)' BY <2>1, IdleIsSound
  <2>4. /\ cloud' \in [Pods -> {"unborn", "booting", "up", "ending", "gone"}]
        /\ lost' \subseteq Pods /\ lost \subseteq lost'
        /\ \A x \in Pods : x \in lost' \/ cloud'[x] = cloud[x]
        /\ \A x \in Pods : cloud'[x] = cloud[x] \/ (cloud[x] = "unborn" /\ cloud'[x] = "booting")
    <3>1. CASE UNCHANGED <<cloud, lost>>
      <4>1. cloud' = cloud /\ lost' = lost BY <3>1
      <4> QED BY <1>1, <4>1
    <3>2. CASE \E p \in Pods : cloud[p] = "unborn" /\ cloud' = [cloud EXCEPT ![p] = "booting"]
                               /\ lost' = lost \cup {p}
      <4>1. PICK p \in Pods : cloud[p] = "unborn" /\ cloud' = [cloud EXCEPT ![p] = "booting"]
                              /\ lost' = lost \cup {p}
        BY <3>2
      <4>2. lost' \subseteq Pods /\ lost \subseteq lost' /\ p \in lost' BY <1>1, <4>1
      <4>3. /\ cloud' \in [Pods -> {"unborn", "booting", "up", "ending", "gone"}]
            /\ cloud'[p] = "booting" /\ \A x \in Pods : x # p => cloud'[x] = cloud[x]
        BY <1>1, <4>1
      <4> QED BY <4>1, <4>2, <4>3
    <3> QED BY <1>4, <3>1, <3>2
  <2>5. Aging BY <2>4 DEF Aging, Alive
  <2>6. CallsSound' /\ call' \in [Callers -> CallType]
        /\ \A d \in Callers : call'[d].at \notin {"over", "create"} => call'[d].pod \in Pods
    BY <2>1, <2>3, <2>5, OthersStaySound
  <2>7. ASSUME NEW x \in Pods, x \in Held PROVE x \in Held'
    BY <1>1, <1>2, <2>1, <2>7 DEF Held, Callers
  <2>8. ASSUME NEW x \in Pods, Alive(x)' PROVE Accounted(x)'
    <3>1. CASE x \in lost' BY <3>1 DEF Accounted
    <3>2. CASE x \notin lost'
      <4>1. Accounted(x) BY <2>4, <2>8, <3>2 DEF IInv, EveryPodIsAccounted, Accounted, Alive
      <4> QED BY <1>1, <1>4, <2>4, <2>7, <4>1 DEF Accounted
    <3> QED BY <3>1, <3>2
  <2>9. EveryPodIsAccounted' BY <2>8 DEF EveryPodIsAccounted, Accounted
  <2>10. Born' BY <1>4, <2>4 DEF IInv, Born
  <2>11. TypeOK' BY <1>1, <1>4, <2>2, <2>4, <2>6 DEF IInv, TypeOK
  <2> QED BY <2>6, <2>9, <2>10, <2>11 DEF IInv
<1> QED BY <1>3, <1>4 DEF CreateInstance

LEMMA RunReleases == IInv /\ ReleasedByRun => IInv'
<1> SUFFICES ASSUME IInv, ReleasedByRun PROVE IInv' OBVIOUS
<1> USE PodCallsAssumption
<1> DEFINE c == "run"
           p == call["run"].pod
<1>1. /\ c \in Callers /\ p \in Pods /\ cloud[p] # "unborn"
      /\ call["run"].at = "released" /\ (call["run"].ok => ~Alive(p))
      /\ call \in [Callers -> CallType]
      /\ registry \in [Pods -> {"absent", "running", "terminated"}]
      /\ registry' = [registry EXCEPT ![p] = StatusAfterRelease("run")]
      /\ UNCHANGED <<cloud, shutdown, books, commands>>
  BY Working DEF ReleasedByRun, Sound, Callers, IInv, TypeOK
<1>2. candidate' \in 0 .. Candidates
      /\ \E r \in CallType : /\ call' = [call EXCEPT !["run"] = r]
                             /\ r.purpose = "provision" /\ r.pod = None
                             /\ r.at \in {"over", "create"}
  <2>1. CASE NextCandidate("run") BY <1>1, <2>1, CandidateFacts
  <2>2. CASE Return("run") /\ UNCHANGED candidate
    <3> DEFINE r == Call("provision", "over", None)
    <3>1. r \in CallType /\ r.purpose = "provision" /\ r.at = "over" /\ r.pod = None
      BY CallFacts
    <3>2. call' = [call EXCEPT !["run"] = r] BY <2>2 DEF Return
    <3> HIDE DEF r
    <3>3. candidate' \in 0 .. Candidates BY <2>2 DEF IInv, TypeOK
    <3> QED BY <3>1, <3>2, <3>3
  <2> QED BY <2>1, <2>2 DEF ReleasedByRun
<1>3. PICK r \in CallType : /\ call' = [call EXCEPT !["run"] = r]
                            /\ r.purpose = "provision" /\ r.pod = None
                            /\ r.at \in {"over", "create"}
  BY <1>2
<1>4. Sound(r)' BY <1>3, IdleIsSound
<1>5. NoBirth BY <1>1 DEF NoBirth, Aging, Alive
<1>6. CallsSound' /\ call' \in [Callers -> CallType]
      /\ \A d \in Callers : call'[d].at \notin {"over", "create"} => call'[d].pod \in Pods
  BY <1>1, <1>3, <1>4, <1>5, OthersStaySound DEF NoBirth
<1>7. Held' = Held BY <1>1, <1>3 DEF Held, Callers
<1>8. /\ registry' \in [Pods -> {"absent", "running", "terminated"}]
      /\ \A x \in Pods : x # p => registry'[x] = registry[x]
      /\ ~call["run"].ok => registry'[p] = registry[p]
  BY <1>1 DEF StatusAfterRelease
<1>9. ASSUME NEW x \in Pods, Alive(x)' PROVE Accounted(x)'
  <2>1. Alive(x) /\ Accounted(x) BY <1>1, <1>9 DEF IInv, EveryPodIsAccounted, Accounted, Alive
  <2>2. registry'[x] = registry[x]
    <3>1. CASE x # p BY <1>8, <3>1
    <3>2. CASE x = p
      <4>1. ~call["run"].ok BY <1>1, <2>1, <3>2
      <4> QED BY <1>8, <3>2, <4>1
    <3> QED BY <3>1, <3>2
  <2> QED BY <1>1, <1>7, <2>1, <2>2 DEF Accounted, books
<1>10. EveryPodIsAccounted' BY <1>9 DEF EveryPodIsAccounted, Accounted
<1>11. Born' BY <1>1, <1>8 DEF IInv, Born
<1>12. TypeOK' BY <1>1, <1>2, <1>6, <1>8 DEF IInv, TypeOK, books
<1> QED BY <1>6, <1>10, <1>11, <1>12 DEF IInv

LEMMA CommandReturns == IInv /\ (ReleasedByCommand \/ InterruptCommand) => IInv'
<1> SUFFICES ASSUME IInv, ReleasedByCommand \/ InterruptCommand PROVE IInv' OBVIOUS
<1> USE PodCallsAssumption
<1> DEFINE p == call["pod"].pod
           r == Call("provision", "over", None)
<1>1. /\ "pod" \in Callers /\ call["pod"] \in CallType /\ call \in [Callers -> CallType]
      /\ registry \in [Pods -> {"absent", "running", "terminated"}]
      /\ call' = [call EXCEPT !["pod"] = r]
      /\ UNCHANGED <<cloud, candidate, shutdown, lost, commands>>
      /\ reported \subseteq Pods /\ abandoned \subseteq Pods /\ assumed \subseteq Pods
  BY DEF ReleasedByCommand, InterruptCommand, Return, Callers, IInv, TypeOK
<1>2. r \in CallType /\ r.purpose = "provision" /\ r.at = "over" /\ r.pod = None
  BY CallFacts
<1> HIDE DEF r
<1>3. NoBirth BY <1>1 DEF NoBirth, Aging, Alive
<1>4. Sound(r)' BY <1>2, IdleIsSound
<1>5. CallsSound' /\ call' \in [Callers -> CallType]
      /\ \A d \in Callers : call'[d].at \notin {"over", "create"} => call'[d].pod \in Pods
  BY <1>1, <1>3, <1>4, OthersStaySound DEF NoBirth
<1>6. ASSUME NEW x \in Pods, Alive(x)' PROVE Alive(x) /\ Accounted(x)
  BY <1>1, <1>6 DEF IInv, EveryPodIsAccounted, Accounted, Alive
<1>7. CASE ReleasedByCommand
  <2>1. /\ p \in Pods /\ cloud[p] # "unborn" /\ (call["pod"].ok => ~Alive(p))
        /\ call["pod"].purpose \in {"provision", "teardown"}
    BY <1>1, <1>7, Working DEF ReleasedByCommand, Sound
  <2>2. /\ registry' \in [Pods -> {"absent", "running", "terminated"}]
        /\ reported' \subseteq Pods /\ assumed' \subseteq Pods /\ UNCHANGED abandoned
        /\ reported \subseteq reported' /\ assumed \subseteq assumed'
        /\ \A x \in Pods : x # p => registry'[x] = registry[x]
    BY <1>1, <1>7, <2>1 DEF ReleasedByCommand
  <2>3. call["pod"].ok \/ p \in reported' \cup assumed'
    BY <1>7 DEF ReleasedByCommand
  <2>4. Held \cap Pods \subseteq {p} BY DEF Held
  <2>5. ASSUME NEW x \in Pods, Alive(x)' PROVE Accounted(x)'
    <3>1. Alive(x) /\ Accounted(x) BY <1>6, <2>5
    <3>2. CASE x = p
      <4>1. ~call["pod"].ok BY <2>1, <3>1, <3>2
      <4> QED BY <2>3, <3>2, <4>1 DEF Accounted
    <3>3. CASE x # p
      BY <1>1, <2>2, <2>4, <3>1, <3>3 DEF Accounted
    <3> QED BY <3>2, <3>3
  <2>6. EveryPodIsAccounted' BY <2>5 DEF EveryPodIsAccounted, Accounted
  <2>7. Born' BY <1>1, <2>1, <2>2 DEF IInv, Born
  <2>8. TypeOK' BY <1>1, <1>5, <2>2 DEF IInv, TypeOK
  <2> QED BY <1>5, <2>6, <2>7, <2>8 DEF IInv
<1>8. CASE InterruptCommand
  <2>1. call["pod"].pod \in Pods \cup {None} BY <1>1 DEF CallType
  <2>2. /\ UNCHANGED <<registry, reported, assumed>>
        /\ abandoned \subseteq abandoned' /\ abandoned' \subseteq Pods
        /\ \A x \in Pods : x \in Held => x \in abandoned'
    BY <1>1, <1>8, <2>1 DEF InterruptCommand, Held
  <2>3. ASSUME NEW x \in Pods, Alive(x)' PROVE Accounted(x)'
    <3>1. Accounted(x) BY <1>6, <2>3
    <3> QED BY <1>1, <2>2, <3>1 DEF Accounted
  <2>4. EveryPodIsAccounted' BY <2>3 DEF EveryPodIsAccounted, Accounted
  <2>5. Born' BY <1>1, <2>2 DEF IInv, Born
  <2>6. TypeOK' BY <1>1, <1>5, <2>2 DEF IInv, TypeOK
  <2> QED BY <1>5, <2>4, <2>5, <2>6 DEF IInv
<1> QED BY <1>7, <1>8

\* Steps of the surroundings: no call moves.
LEMMA SurroundingsStep ==
  ASSUME IInv, Sigint \/ (\E p \in Pods : PodMoves(p)) \/ UNCHANGED vars
  PROVE  IInv'
<1>1. /\ cloud \in [Pods -> {"unborn", "booting", "up", "ending", "gone"}]
      /\ UNCHANGED <<registry, call, candidate, books, commands>> /\ shutdown' \in BOOLEAN
  BY DEF Sigint, PodMoves, vars, IInv, TypeOK
<1>2. cloud' \in [Pods -> {"unborn", "booting", "up", "ending", "gone"}] /\ NoBirth
  <2>1. CASE UNCHANGED cloud BY <1>1, <2>1 DEF NoBirth, Aging, Alive
  <2>2. CASE \E p \in Pods : PodMoves(p)
    <3>1. PICK p \in Pods : PodMoves(p) BY <2>2
    <3>2. Alive(p) /\ cloud' \in [Pods -> {"unborn", "booting", "up", "ending", "gone"}]
          /\ cloud'[p] \in {"up", "gone"} /\ \A x \in Pods : x # p => cloud'[x] = cloud[x]
      BY <1>1, <3>1 DEF PodMoves, Alive, Up
    <3> QED BY <3>2 DEF NoBirth, Aging, Alive
  <2> QED BY <2>1, <2>2 DEF Sigint, vars
<1>3. \A c \in Callers : Sound(call[c]) => Sound(call[c])'
  BY <1>1, <1>2 DEF Sound, NoBirth, Aging
<1>4. CallsSound' BY <1>3 DEF IInv, CallsSound
<1>5. Held' = Held BY <1>1 DEF Held
<1>6. Born' /\ EveryPodIsAccounted' BY <1>1, <1>2, <1>5, Accounts
<1>7. TypeOK' BY <1>1, <1>2 DEF IInv, TypeOK, books
<1> QED BY <1>4, <1>6, <1>7 DEF IInv

LEMMA NextInv == IInv /\ [Next]_vars => IInv'
<1> SUFFICES ASSUME IInv, [Next]_vars PROVE IInv' OBVIOUS
<1>1. ASSUME NEW c \in Callers, BeginProvision(c) PROVE IInv'
  <2>1. BeginProvision(c) \/ (c = "pod" /\ BeginTeardown) BY <1>1
  <2> QED BY <2>1, BeginStep
<1>2. ASSUME NEW c \in Callers, CallStep(c) PROVE IInv'
  BY <1>2, CreateStep, AwaitStep, ReadyStep, TerminateStep, VerifyStep, RunReleases,
     CommandReturns DEF CallStep
<1>3. CASE BeginTeardown BY <1>3, BeginStep DEF Callers
<1>4. CASE InterruptCommand BY <1>4, CommandReturns
<1>5. CASE Sigint \/ (\E p \in Pods : PodMoves(p)) \/ UNCHANGED vars
  BY <1>5, SurroundingsStep
<1> QED BY <1>1, <1>2, <1>3, <1>4, <1>5 DEF Next

-----------------------------------------------------------------------------

\* In every reachable state the calls are about pods that were created, what was
\* confirmed is true, and the pods are accounted for.
THEOREM PodCallsInvariant == Spec => []IInv
<1>1. Init => IInv BY InitInv
<1>2. IInv /\ [Next]_vars => IInv' BY NextInv
<1> QED BY <1>1, <1>2, PTL DEF Spec

\* The state stays well formed: no attempt, round or poll is made beyond its limit.
THEOREM PodCallsTypeCorrect == Spec => []TypeOK
<1>1. IInv => TypeOK BY DEF IInv
<1> QED BY <1>1, PodCallsInvariant, PTL

\* However the answers of the provider are lost or late, a termination that
\* teardown_pod confirmed has happened.
THEOREM ConfirmationIsTrue == Spec => []ConfirmedIsGone
<1>1. IInv => ConfirmedIsGone BY DEF IInv, CallsSound, Sound, ConfirmedIsGone
<1> QED BY <1>1, PodCallsInvariant, PTL

\* Whatever a run and the commands next to it do, the pods that run are accounted for.
THEOREM PodsAreAccounted == Spec => []EveryPodIsAccounted
<1>1. IInv => EveryPodIsAccounted BY DEF IInv
<1> QED BY <1>1, PodCallsInvariant, PTL
=============================================================================
