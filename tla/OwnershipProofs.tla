--------------------------- MODULE OwnershipProofs ---------------------------
(***************************************************************************)
(* The heartbeat does its work for any number of terminals and any         *)
(* interval and window of which the window outlasts the lost beats.        *)
(***************************************************************************)
EXTENDS Ownership, TLAPS

\* The longest time since the last save of an owner that lost f beats in a row
\* and whose heartbeat thread woke up d ago.
Silence(f, d) == f * Interval + d

\* The heartbeat in the memory of an owner is as fresh as its last beat.
Beating == \A t \in Terminals : step[t] = "owner" => copy[t] \in 0 .. due[t]

\* The heartbeat it saved last is as fresh as the lost beats allow.
Heard ==
  \A t \in Terminals :
    writer = t /\ step[t] = "owner" => file \in 0 .. Silence(fails[t], due[t])

\* Unless commands raced, an owner is the last to have saved, so it is heard by
\* whatever command is started.
Alone ==
  ~raced => \A t \in Terminals :
              step[t] = "owner" => writer = t
Single ==
  ~raced => \A t, u \in Terminals : step[t] # "idle" /\ step[u] # "idle" => t = u

\* OneCommandAtATime needs to know that an owner's file is live, hence Heard,
\* hence Beating.
IInv == TypeOK /\ Beating /\ Heard /\ Alone /\ Single

-----------------------------------------------------------------------------

\* Losing the beat that is due adds nothing to the silence, time adds what
\* passes, and silence stays below the window.
LEMMA SilenceFacts ==
  ASSUME NEW f \in 0 .. MaxFails, NEW d \in 0 .. Interval
  PROVE  /\ Silence(f, d) \in Nat /\ d <= Silence(f, d) /\ Silence(f, d) < LiveWindow
         /\ Silence(f, d + 1) = Silence(f, d) + 1
         /\ Silence(f + 1, 0) = Silence(f, Interval)
         /\ Silence(f, 0) \in Nat
<1>1. Interval \in Nat /\ MaxFails \in Nat /\ LiveWindow \in Nat
      /\ Interval * (MaxFails + 1) < LiveWindow
  BY OwnershipAssumption
<1>2. f \in Nat /\ d \in Nat /\ f <= MaxFails /\ d <= Interval BY <1>1
<1>3. f * Interval \in Nat BY <1>1, <1>2
<1>4. f * Interval <= MaxFails * Interval BY <1>1, <1>2
<1>5. Interval * (MaxFails + 1) = MaxFails * Interval + Interval BY <1>1
<1>6. MaxFails * Interval \in Nat BY <1>1
<1>7. (f + 1) * Interval = f * Interval + Interval BY <1>1, <1>2
<1>8. f * Interval + d < LiveWindow BY <1>1, <1>2, <1>3, <1>4, <1>5, <1>6
<1> QED BY <1>1, <1>2, <1>3, <1>7, <1>8 DEF Silence

\* What an owner that saved last has in the file is live.
LEMMA HeardIsLive ==
  ASSUME TypeOK, Heard, writer \in Terminals, step[writer] = "owner"
  PROVE  Live(file)
<1>1. fails[writer] \in 0 .. MaxFails /\ due[writer] \in 0 .. Interval BY DEF TypeOK
<1>2. file \in 0 .. Silence(fails[writer], due[writer]) BY DEF Heard
<1>3. Silence(fails[writer], due[writer]) \in Nat
      /\ Silence(fails[writer], due[writer]) < LiveWindow
  BY <1>1, SilenceFacts
<1>4. file \in Nat /\ file < LiveWindow BY <1>2, <1>3, OwnershipAssumption
<1> QED BY <1>4 DEF Live, NoBeat

\* A fresh heartbeat is within any silence.
LEMMA FreshIsHeard ==
  ASSUME NEW f \in 0 .. MaxFails, NEW d \in 0 .. Interval
  PROVE  0 \in 0 .. Silence(f, d)
BY SilenceFacts

-----------------------------------------------------------------------------

\* Every step preserves the types.
LEMMA TypeStep == TypeOK /\ [Next]_vars => TypeOK'
<1> SUFFICES ASSUME TypeOK, [Next]_vars PROVE TypeOK' OBVIOUS
<1> USE OwnershipAssumption
<1>0. 0 \in Ages /\ NoBeat \in Ages /\ 0 \in 0 .. Interval /\ 0 \in 0 .. MaxFails
  BY DEF Ages, NoBeat
<1>1. ASSUME NEW t \in Terminals, Start(t) PROVE TypeOK'
  BY <1>1 DEF TypeOK, Start, GoTo, NoWrite, pulse, Steps
<1>2. ASSUME NEW t \in Terminals, Exit(t), NoWrite \/ \E b \in Ages : Write(t, b)
      PROVE  TypeOK'
  BY <1>0, <1>2 DEF TypeOK, Exit, GoTo, NoWrite, Write, Steps
<1>3. ASSUME NEW t \in Terminals, Dies(t) PROVE TypeOK'
  BY <1>2, <1>3 DEF Dies
<1>4. ASSUME NEW t \in Terminals, RunStep(t) PROVE TypeOK'
  <2>1. CASE FirstBeat(t)
    BY <1>0, <2>1 DEF TypeOK, FirstBeat, GoTo, Write, Steps
  <2>2. CASE FirstBeatFails(t)
    BY <1>0, <2>2 DEF TypeOK, FirstBeatFails, GoTo, Write, NoWrite, pulse, Steps
  <2>3. CASE Beat(t)
    <3>1. /\ copy' \in [Terminals -> Ages] /\ due' \in [Terminals -> 0 .. Interval]
          /\ UNCHANGED <<step, raced>>
      BY <1>0, <2>3 DEF TypeOK, Beat, BeatNow
    <3>2. fails' \in [Terminals -> 0 .. MaxFails]
      <4>1. CASE fails' = [fails EXCEPT ![t] = 0] BY <1>0, <4>1 DEF TypeOK
      <4>2. CASE fails[t] < MaxFails /\ fails' = [fails EXCEPT ![t] = @ + 1]
        <5>1. fails[t] + 1 \in 0 .. MaxFails BY <4>2 DEF TypeOK
        <5> QED BY <4>2, <5>1 DEF TypeOK
      <4> QED BY <2>3, <4>1, <4>2 DEF Beat
    <3>3. file' \in Ages /\ writer' \in Terminals \cup {Nobody}
      BY <1>0, <2>3 DEF TypeOK, Beat, BeatNow, Write, NoWrite
    <3> QED BY <3>1, <3>2, <3>3 DEF TypeOK
  <2>4. CASE OwnerSave(t)
    BY <1>0, <2>4 DEF TypeOK, OwnerSave, Write, pulse
  <2>5. CASE StopHeart(t)
    BY <2>5 DEF TypeOK, StopHeart, GoTo, NoWrite, pulse, Steps
  <2>6. CASE Disown(t)
    BY <1>0, <1>2, <2>6 DEF Disown
  <2> QED BY <1>4, <2>1, <2>2, <2>3, <2>4, <2>5, <2>6 DEF RunStep
<1>5. ASSUME NEW t \in Terminals, SyncSave(t) \/ TeardownSave(t) PROVE TypeOK'
  <2>1. copy[t] \in Ages BY DEF TypeOK
  <2> QED BY <1>2, <1>5, <2>1 DEF SyncSave, TeardownSave
<1>6. CASE Tick
  <2>1. \A b \in Ages : Older(b) \in Ages BY DEF Older, Ages, NoBeat
  <2>2. \A t \in Terminals : step[t] = "owner" => due[t] + 1 \in 0 .. Interval
    BY <1>6 DEF Tick, Punctual, TypeOK
  <2>3. due' \in [Terminals -> 0 .. Interval] BY <1>6, <2>2 DEF Tick, TypeOK
  <2>4. file' \in Ages /\ copy' \in [Terminals -> Ages] BY <1>6, <2>1 DEF Tick, TypeOK
  <2> QED BY <1>6, <2>3, <2>4 DEF Tick, TypeOK
<1>7. CASE UNCHANGED vars BY <1>7 DEF vars, pulse, TypeOK
<1> QED BY <1>1, <1>3, <1>4, <1>5, <1>6, <1>7 DEF Next

\* A beat or a save with a fresh timestamp makes the copy 0, any other step of
\* the owner leaves it, and time adds to it what it adds to due.
LEMMA BeatingStep == TypeOK /\ Beating /\ [Next]_vars => Beating'
<1> SUFFICES ASSUME TypeOK, Beating, [Next]_vars,
                    NEW t \in Terminals, step'[t] = "owner"
             PROVE  copy'[t] \in 0 .. due'[t]
  BY DEF Beating
<1> USE OwnershipAssumption
<1>0. due[t] \in 0 .. Interval BY DEF TypeOK
<1>1. ASSUME NEW u \in Terminals, Start(u) PROVE copy'[t] \in 0 .. due'[t]
  BY <1>1 DEF TypeOK, Beating, Start, GoTo, pulse, Commands
<1>2. ASSUME NEW u \in Terminals, Exit(u) PROVE copy'[t] \in 0 .. due'[t]
  BY <1>2 DEF TypeOK, Beating, Exit, GoTo
<1>3. ASSUME NEW u \in Terminals, RunStep(u) PROVE copy'[t] \in 0 .. due'[t]
  <2>1. CASE FirstBeat(u)
    BY <2>1 DEF TypeOK, Beating, FirstBeat, GoTo
  <2>2. CASE FirstBeatFails(u)
    BY <2>2 DEF TypeOK, Beating, FirstBeatFails, GoTo, pulse
  <2>3. CASE Beat(u)
    BY <2>3 DEF TypeOK, Beating, Beat, BeatNow
  <2>4. CASE OwnerSave(u)
    BY <1>0, <2>4 DEF TypeOK, Beating, OwnerSave, pulse
  <2>5. CASE StopHeart(u)
    BY <2>5 DEF TypeOK, Beating, StopHeart, GoTo, pulse
  <2>6. CASE Disown(u)
    BY <1>2, <2>6 DEF Disown
  <2> QED BY <1>3, <2>1, <2>2, <2>3, <2>4, <2>5, <2>6 DEF RunStep
<1>4. CASE Tick
  <2>1. step[t] = "owner" /\ due'[t] = due[t] + 1 /\ copy'[t] = Older(copy[t])
    BY <1>4 DEF Tick, TypeOK
  <2>2. copy[t] \in 0 .. due[t] BY <2>1 DEF Beating
  <2> QED BY <1>0, <2>1, <2>2 DEF Older, NoBeat
<1>5. CASE UNCHANGED vars BY <1>5 DEF vars, pulse, Beating
<1> QED BY <1>1, <1>2, <1>3, <1>4, <1>5 DEF Next, Dies, SyncSave, TeardownSave

\* An owner is heard after each of its saves; a lost beat and a tick of the clock
\* add to the silence what they add to the age of the file.
LEMMA HeardStep == TypeOK /\ Beating /\ Heard /\ [Next]_vars => Heard'
<1> SUFFICES ASSUME TypeOK, Beating, Heard, [Next]_vars,
                    NEW t \in Terminals, writer' = t, step'[t] = "owner"
             PROVE  file' \in 0 .. Silence(fails'[t], due'[t])
  BY DEF Heard
<1> USE OwnershipAssumption
<1>0. /\ due[t] \in 0 .. Interval /\ fails[t] \in 0 .. MaxFails
      /\ due'[t] \in 0 .. Interval /\ fails'[t] \in 0 .. MaxFails
  BY TypeStep DEF TypeOK
<1>a. 0 \in 0 .. Silence(fails'[t], due'[t]) BY <1>0, FreshIsHeard
<1>1. ASSUME writer = t, step[t] = "owner", file' = file,
             fails'[t] = fails[t], due'[t] = due[t]
      PROVE  file' \in 0 .. Silence(fails'[t], due'[t])
  BY <1>1 DEF Heard
<1>2. ASSUME NEW u \in Terminals, Start(u) PROVE file' \in 0 .. Silence(fails'[t], due'[t])
  BY <1>1, <1>2 DEF TypeOK, Start, GoTo, NoWrite, pulse, Commands
<1>3. ASSUME NEW u \in Terminals, Exit(u), NoWrite \/ \E b \in Ages : Write(u, b)
      PROVE  file' \in 0 .. Silence(fails'[t], due'[t])
  <2>1. u # t BY <1>3 DEF TypeOK, Exit, GoTo
  <2>2. writer = t /\ file' = file BY <1>3, <2>1 DEF NoWrite, Write
  <2>3. step[t] = "owner" /\ fails'[t] = fails[t] /\ due'[t] = due[t]
    BY <1>3, <2>1 DEF TypeOK, Exit, GoTo
  <2> QED BY <1>1, <2>2, <2>3
<1>4. ASSUME NEW u \in Terminals, RunStep(u)
      PROVE  file' \in 0 .. Silence(fails'[t], due'[t])
  <2>1. CASE FirstBeat(u)
    BY <1>a, <2>1 DEF FirstBeat, Write
  <2>2. CASE FirstBeatFails(u)
    <3>1. u # t BY <2>2 DEF TypeOK, FirstBeatFails, GoTo
    <3>2. NoWrite BY <2>2, <3>1 DEF FirstBeatFails, Write
    <3> QED BY <1>1, <2>2, <3>1, <3>2 DEF TypeOK, FirstBeatFails, GoTo, NoWrite, pulse
  <2>3. CASE Beat(u)
    <3>1. CASE Write(u, BeatNow(u))
      BY <1>a, <3>1 DEF Write, BeatNow
    <3>2. CASE fails[u] < MaxFails /\ fails' = [fails EXCEPT ![u] = @ + 1] /\ NoWrite
      <4>1. CASE u # t
        BY <1>1, <2>3, <3>2, <4>1 DEF TypeOK, Beat, NoWrite
      <4>2. CASE u = t
        <5>1. /\ fails'[t] = fails[t] + 1 /\ due'[t] = 0 /\ due[t] = Interval
              /\ writer = t /\ step[t] = "owner" /\ file' = file
          BY <2>3, <3>2, <4>2 DEF TypeOK, Beat, NoWrite
        <5>2. file \in 0 .. Silence(fails[t], Interval) BY <5>1 DEF Heard
        <5> QED BY <1>0, <5>1, <5>2, SilenceFacts
      <4> QED BY <4>1, <4>2
    <3> QED BY <2>3, <3>1, <3>2 DEF Beat
  <2>4. CASE OwnerSave(u)
    <3>1. PICK b \in {0, copy[u]} : Write(u, b) BY <2>4 DEF OwnerSave
    <3>2. u = t /\ file' = b BY <3>1 DEF Write
    <3>3. copy[t] \in 0 .. due[t] BY <2>4, <3>2 DEF OwnerSave, Beating
    <3>4. fails'[t] = fails[t] /\ due'[t] = due[t] BY <2>4 DEF OwnerSave, pulse
    <3>5. due[t] <= Silence(fails[t], due[t]) /\ Silence(fails[t], due[t]) \in Nat
      BY <1>0, SilenceFacts
    <3> QED BY <1>0, <1>a, <3>1, <3>2, <3>3, <3>4, <3>5
  <2>5. CASE StopHeart(u)
    BY <1>1, <2>5 DEF TypeOK, StopHeart, GoTo, NoWrite, pulse
  <2>6. CASE Disown(u)
    BY <1>3, <2>6 DEF Disown, Ages
  <2> QED BY <1>4, <2>1, <2>2, <2>3, <2>4, <2>5, <2>6 DEF RunStep
<1>5. CASE Tick
  <2>1. /\ step[t] = "owner" /\ writer = t /\ due'[t] = due[t] + 1
        /\ fails'[t] = fails[t] /\ file' = Older(file)
    BY <1>5 DEF Tick, TypeOK
  <2>2. file \in 0 .. Silence(fails[t], due[t]) BY <2>1 DEF Heard
  <2>3. Silence(fails[t], due[t] + 1) = Silence(fails[t], due[t]) + 1
        /\ Silence(fails[t], due[t]) \in Nat
    BY <1>0, SilenceFacts
  <2> QED BY <2>1, <2>2, <2>3 DEF Older, NoBeat
<1>6. CASE UNCHANGED vars BY <1>1, <1>6 DEF vars, pulse
<1>7. ASSUME NEW u \in Terminals, Dies(u) PROVE file' \in 0 .. Silence(fails'[t], due'[t])
  BY <1>3, <1>7 DEF Dies
<1>8. ASSUME NEW u \in Terminals, SyncSave(u) \/ TeardownSave(u)
      PROVE  file' \in 0 .. Silence(fails'[t], due'[t])
  <2>1. copy[u] \in Ages BY DEF TypeOK
  <2> QED BY <1>3, <1>8, <2>1 DEF SyncSave, TeardownSave
<1> QED BY <1>2, <1>4, <1>5, <1>6, <1>7, <1>8 DEF Next

\* The steps of a command that is already running keep it alone, and the file its
\* own.
LEMMA AloneInStep ==
  ASSUME TypeOK, Alone, Single, NEW u \in Terminals, step[u] # "idle",
         raced' = raced, step' \in [Terminals -> Steps],
         \A t \in Terminals \ {u} : step'[t] = step[t],
         step'[u] = "owner" => writer' = u \/ (step[u] = "owner" /\ writer' = writer)
  PROVE  Alone' /\ Single'
<1> SUFFICES ASSUME ~raced
             PROVE  /\ \A t \in Terminals : step'[t] = "owner" => writer' = t
                    /\ \A t, v \in Terminals : step'[t] # "idle" /\ step'[v] # "idle" => t = v
  BY DEF Alone, Single
<1>1. \A t \in Terminals \ {u} : step'[t] = "idle" BY DEF Single
<1> QED BY <1>1 DEF Alone

\* A command is let in only when nothing that it would disturb is running: an
\* owner is heard, so its file is live and an unforced command is refused.
LEMMA AloneStep == IInv /\ [Next]_vars => Alone' /\ Single'
<1> SUFFICES ASSUME IInv, [Next]_vars PROVE Alone' /\ Single' OBVIOUS
<1> USE DEF IInv
<1>0. step' \in [Terminals -> Steps] BY TypeStep DEF TypeOK
<1>1. ASSUME NEW u \in Terminals, Start(u) PROVE Alone' /\ Single'
  <2> SUFFICES ASSUME ~raced' PROVE Alone' /\ Single' BY DEF Alone, Single
  <2>1. PICK c \in Commands, forced \in BOOLEAN :
          /\ (forced \/ ~Refuses(c, file)) /\ GoTo(u, c)
          /\ raced' = (raced \/ Races(u, forced))
    BY <1>1 DEF Start
  <2>2. ~raced /\ ~Races(u, forced) BY <2>1
  <2>3. ASSUME NEW v \in Terminals \ {u} PROVE step[v] = "idle"
    <3>1. step[v] \notin Commands \cup {"ending"} /\ ~(forced /\ step[v] = "owner")
      BY <2>2, <2>3 DEF Races
    <3>2. ASSUME step[v] = "owner" PROVE FALSE
      <4>1. writer = v BY <2>2, <3>2 DEF Alone
      <4>2. Live(file) BY <3>2, <4>1, HeardIsLive
      <4> QED BY <2>1, <3>1, <3>2, <4>2 DEF Refuses
    <3>3. step[v] \in Steps BY DEF TypeOK
    <3> QED BY <3>1, <3>2, <3>3 DEF Steps
  <2>4. \A v \in Terminals \ {u} : step'[v] = "idle" BY <2>1, <2>3 DEF GoTo, TypeOK
  <2>5. step'[u] = c BY <2>1 DEF GoTo, TypeOK
  <2>6. \A t \in Terminals : step'[t] # "owner" BY <2>4, <2>5 DEF Commands
  <2> QED BY <2>4, <2>6 DEF Alone, Single
<1>2. ASSUME NEW u \in Terminals, step[u] # "idle", Exit(u) PROVE Alone' /\ Single'
  <2>1. raced' = raced /\ step'[u] = "idle" /\ \A t \in Terminals \ {u} : step'[t] = step[t]
    BY <1>2 DEF Exit, GoTo, TypeOK
  <2> QED BY <1>0, <1>2, <2>1, AloneInStep
<1>3. ASSUME NEW u \in Terminals, Dies(u) \/ SyncSave(u) \/ TeardownSave(u) \/ Disown(u)
      PROVE  Alone' /\ Single'
  BY <1>2, <1>3 DEF Dies, SyncSave, TeardownSave, Disown
<1>4. ASSUME NEW u \in Terminals, RunStep(u) PROVE Alone' /\ Single'
  <2>1. CASE FirstBeat(u)
    <3>1. /\ step[u] # "idle" /\ raced' = raced /\ writer' = u
          /\ \A t \in Terminals \ {u} : step'[t] = step[t]
      BY <2>1 DEF FirstBeat, GoTo, Write, TypeOK
    <3> QED BY <1>0, <3>1, AloneInStep
  <2>2. CASE FirstBeatFails(u) \/ StopHeart(u)
    <3>1. /\ step[u] # "idle" /\ raced' = raced /\ step'[u] # "owner"
          /\ \A t \in Terminals \ {u} : step'[t] = step[t]
      BY <2>2 DEF FirstBeatFails, StopHeart, GoTo, TypeOK
    <3> QED BY <1>0, <3>1, AloneInStep
  <2>3. CASE Beat(u) \/ OwnerSave(u)
    <3>1. /\ step[u] = "owner" /\ raced' = raced /\ step' = step
          /\ writer' = u \/ writer' = writer
      BY <2>3 DEF Beat, OwnerSave, Write, NoWrite
    <3> QED BY <1>0, <3>1, AloneInStep
  <2>4. CASE Disown(u) BY <1>3, <2>4
  <2> QED BY <1>4, <2>1, <2>2, <2>3, <2>4 DEF RunStep
<1>5. CASE Tick
  BY <1>5 DEF Tick, Alone, Single
<1>6. CASE UNCHANGED vars
  BY <1>6 DEF vars, Alone, Single
<1> QED BY <1>1, <1>3, <1>4, <1>5, <1>6 DEF Next

-----------------------------------------------------------------------------

\* No command runs at first.
LEMMA InitInv == Init => IInv
<1> SUFFICES ASSUME Init PROVE IInv OBVIOUS
<1>0. 0 \in 0 .. Interval /\ 0 \in 0 .. MaxFails /\ NoBeat \in Ages
  BY OwnershipAssumption DEF Ages
<1>1. TypeOK BY <1>0 DEF Init, TypeOK, Steps
<1>2. \A t \in Terminals : step[t] = "idle" BY DEF Init
<1> QED BY <1>1, <1>2 DEF IInv, Beating, Heard, Alone, Single

\* Each part of the invariant is preserved from the whole.
LEMMA NextInv == IInv /\ [Next]_vars => IInv'
BY TypeStep, BeatingStep, HeardStep, AloneStep DEF IInv

\* The invariant holds in every reachable state.
THEOREM OwnershipInvariant == Spec => []IInv
<1>1. Init => IInv BY InitInv
<1>2. IInv /\ [Next]_vars => IInv' BY NextInv
<1> QED BY <1>1, <1>2, PTL DEF Spec

\* Type correctness of the model of run ownership.
THEOREM OwnershipTypeCorrect == Spec => []TypeOK
<1>1. IInv => TypeOK BY DEF IInv
<1> QED BY <1>1, OwnershipInvariant, PTL

\* What a running `conductor run` saved last reads as live, for every window that
\* outlasts the beats it may lose.
THEOREM RunningMeansLive == Spec => []OwnerReadsAsLive
<1>1. IInv => OwnerReadsAsLive BY HeardIsLive DEF IInv, OwnerReadsAsLive
<1> QED BY <1>1, OwnershipInvariant, PTL

\* However many terminals there are, one command at a time works with the state
\* file unless commands overlapped in the windows of the check or were forced.
THEOREM OneAtATime == Spec => []OneCommandAtATime
<1>1. IInv => OneCommandAtATime BY DEF IInv, Single, OneCommandAtATime
<1> QED BY <1>1, OwnershipInvariant, PTL
=============================================================================
