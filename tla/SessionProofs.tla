----------------------------- MODULE SessionProofs -----------------------------
(***************************************************************************)
(* Proofs about the collector's session, for every ring size, any number   *)
(* of events and all options.                                              *)
(***************************************************************************)
EXTENDS Session, FiniteSetTheorems, TLAPS

\* What collector_init has acquired before its step n.
HeldBefore(n) ==
  CASE n = 1 -> {}
    [] n = 2 -> {"ctx"}
    [] n = 3 -> {"ctx", "table"}
    [] OTHER -> {"ctx", "table", "obj"}

\* While collector_init runs it holds exactly what its steps acquired: this is what each
\* error path has to release.
InitHolds == pc = "init" => nextInit <= Len(Acquires) /\ held = HeldBefore(nextInit)

HeldInv == TypeOK /\ InitHolds /\ NothingHeld

\* The number of steps and what they acquire.
LEMMA AcquiresFacts ==
  /\ Len(Acquires) = 6
  /\ \A n \in 1 .. 6 : Acquires[n] \subseteq Resources
  /\ \A n \in 1 .. 5 : HeldBefore(n + 1) = HeldBefore(n) \cup Acquires[n]
  /\ \A n \in 1 .. 6 : HeldBefore(n) \ Releases(n) = {}
<1>1. /\ Len(Acquires) = 6
      /\ Acquires[1] = {"ctx"} /\ Acquires[2] = {"table"} /\ Acquires[3] = {"obj"}
      /\ Acquires[4] = {} /\ Acquires[5] = {} /\ Acquires[6] = {"ringbuf"}
  BY DEF Acquires
<1>2. \A n \in 1 .. 6 : n = 1 \/ n = 2 \/ n = 3 \/ n = 4 \/ n = 5 \/ n = 6
  OBVIOUS
<1>3. /\ HeldBefore(1) = {} /\ HeldBefore(2) = {"ctx"} /\ HeldBefore(3) = {"ctx", "table"}
      /\ \A n \in 4 .. 6 : HeldBefore(n) = {"ctx", "table", "obj"}
  BY DEF HeldBefore
<1>4. \A n \in 1 .. 6 : Acquires[n] \subseteq Resources
  BY <1>1, <1>2 DEF Resources
<1>5. \A n \in 1 .. 5 : HeldBefore(n + 1) = HeldBefore(n) \cup Acquires[n]
  <2>1. HeldBefore(4) = {"ctx", "table", "obj"} /\ HeldBefore(5) = HeldBefore(4) /\ HeldBefore(6) = HeldBefore(5)
    BY <1>3
  <2>2. \A n \in 1 .. 5 : n = 1 \/ n = 2 \/ n = 3 \/ n = 4 \/ n = 5
    OBVIOUS
  <2> QED
    BY <1>1, <1>3, <2>1, <2>2
<1>6. \A n \in 1 .. 6 : HeldBefore(n) \ Releases(n) = {}
  BY <1>2, <1>3 DEF Releases
<1> QED
  BY <1>1, <1>4, <1>5, <1>6

\* A session starts with nothing.
LEMMA InitHeld == Init => HeldInv
<1> SUFFICES ASSUME Init PROVE HeldInv
  OBVIOUS
<1>1. TypeOK
  <2>1. emits \in [Sources -> 0 .. MaxEmits]
    BY SessionAssumption DEF Init
  <2>2. ring \in Seq(Sources) /\ Len(ring) <= RingCap
    BY SessionAssumption DEF Init
  <2>3. nextInit \in 1 .. Len(Acquires) + 1 /\ held \subseteq Resources
    BY AcquiresFacts DEF Init
  <2>4. pc = "init" /\ drains \in 0 .. DrainPolls /\ recorded \in Nat /\ accepted \in Nat
    BY DEF Init, DrainPolls
  <2> QED
    BY <2>1, <2>2, <2>3, <2>4 DEF Init, TypeOK
<1>2. InitHolds /\ NothingHeld
  BY AcquiresFacts DEF Init, InitHolds, NothingHeld, HeldBefore
<1> QED
  BY <1>1, <1>2 DEF HeldInv

\* Every step of main keeps the types.
LEMMA MainTypes ==
  ASSUME HeldInv, Main
  PROVE  TypeOK'
<1> USE AcquiresFacts, SessionAssumption DEF HeldInv, TypeOK, world, events, poll
<1>1. CASE InitStep
  <2>1. nextInit \in 1 .. 6
    BY <1>1 DEF InitStep, InitHolds
  <2>2. nextInit' \in 1 .. 7 /\ held' \subseteq Resources /\ pc' \in {"init", "attach", "exited"}
    BY <1>1, <2>1 DEF InitStep
  <2> QED
    BY <1>1, <2>2 DEF InitStep
<1>2. CASE AttachSome
  BY <1>2 DEF AttachSome, Resources
<1>3. CASE AttachDone
  BY <1>3 DEF AttachDone
<1>4. CASE Loop
  BY <1>4 DEF Loop
<1>5. CASE PollWait
  BY <1>5 DEF PollWait
<1>6. CASE Consume
  <2>1. CASE ring # <<>> /\ ring' = Tail(ring) /\ recorded' = recorded + Counted(Head(ring)) /\ UNCHANGED pc
    <3>1. ring' \in Seq(Sources) /\ Len(ring') <= RingCap
      BY <2>1
    <3>2. recorded' \in Nat
      BY <2>1 DEF Counted
    <3> QED
      BY <1>6, <2>1, <3>1, <3>2 DEF Consume
  <2>2. CASE pc' = "polled" /\ UNCHANGED <<ring, recorded>>
    BY <1>6, <2>2 DEF Consume
  <2> QED
    BY <1>6, <2>1, <2>2 DEF Consume
<1>7. CASE Check
  BY <1>7 DEF Check, DrainPolls
<1>8. CASE Drain
  BY <1>8 DEF Drain, DrainPolls
<1>9. CASE Stop
  BY <1>9 DEF Stop
<1>10. CASE Destroy
  BY <1>10 DEF Destroy
<1> QED
  BY <1>1, <1>2, <1>3, <1>4, <1>5, <1>6, <1>7, <1>8, <1>9, <1>10 DEF Main

\* So does every step of the processes, the signals and the clock.
LEMMA WorldTypes ==
  ASSUME HeldInv, (\E s \in Sources : EmitEvent(s)) \/ TargetExits \/ Signal \/ TimePasses
  PROVE  TypeOK'
<1> USE AcquiresFacts, SessionAssumption DEF HeldInv, TypeOK, world, events, poll
<1>1. CASE \E s \in Sources : EmitEvent(s)
  <2> PICK s \in Sources : EmitEvent(s)
    BY <1>1
  <2>1. emits' \in [Sources -> 0 .. MaxEmits]
    BY DEF EmitEvent
  <2>2. ring' \in Seq(Sources) /\ Len(ring') <= RingCap
    <3>1. CASE Len(ring) < RingCap /\ ring' = Append(ring, s)
      BY <3>1
    <3>2. CASE ring' = ring
      BY <3>2
    <3> QED
      BY <3>1, <3>2 DEF EmitEvent
  <2>3. accepted' \in Nat
    BY DEF EmitEvent, Counted
  <2> QED
    BY <2>1, <2>2, <2>3 DEF EmitEvent
<1>2. CASE TargetExits
  BY <1>2 DEF TargetExits
<1>3. CASE Signal
  BY <1>3 DEF Signal
<1>4. CASE TimePasses
  BY <1>4 DEF TimePasses
<1> QED
  BY <1>1, <1>2, <1>3, <1>4

\* What is held changes only in the collector's own steps.
LEMMA StepHolds ==
  ASSUME HeldInv, Next
  PROVE  InitHolds' /\ NothingHeld'
<1> USE DEF HeldInv, InitHolds, NothingHeld
<1>1. CASE InitStep
  <2>1. nextInit \in 1 .. 6 /\ held = HeldBefore(nextInit)
    BY <1>1, AcquiresFacts DEF InitStep, TypeOK
  <2>2. CASE /\ held' = held \cup Acquires[nextInit]
             /\ nextInit' = nextInit + 1
             /\ pc' = IF nextInit = Len(Acquires) THEN "attach" ELSE "init"
    <3>1. CASE nextInit = 6
      BY <2>2, <3>1, AcquiresFacts
    <3>2. CASE nextInit # 6
      <4>1. nextInit \in 1 .. 5 /\ pc' = "init" /\ nextInit' <= 6
        BY <2>1, <2>2, <3>2, AcquiresFacts
      <4> QED
        BY <2>1, <2>2, <4>1, AcquiresFacts
    <3> QED
      BY <3>1, <3>2
  <2>3. CASE held' = held \ Releases(nextInit) /\ pc' = "exited"
    BY <2>1, <2>3, AcquiresFacts
  <2> QED
    BY <1>1, <2>2, <2>3 DEF InitStep
<1>2. CASE Destroy
  BY <1>2 DEF Destroy, TypeOK, Resources
<1>3. CASE AttachSome \/ AttachDone \/ Loop \/ PollWait \/ Consume \/ Check \/ Drain \/ Stop
  BY <1>3 DEF AttachSome, AttachDone, Loop, PollWait, Consume, Check, Drain, Stop
<1>4. CASE (\E s \in Sources : EmitEvent(s)) \/ TargetExits \/ Signal \/ TimePasses
  BY <1>4 DEF EmitEvent, TargetExits, Signal, TimePasses
<1> QED
  BY <1>1, <1>2, <1>3, <1>4 DEF Next, Main

\* What is held is right in every state of a session.
LEMMA HeldInvariant == Spec => []HeldInv
<1>1. HeldInv /\ [Next]_vars => HeldInv'
  <2>1. CASE Next
    BY <2>1, MainTypes, WorldTypes, StepHolds DEF Next, HeldInv
  <2>2. CASE UNCHANGED vars
    BY <2>2 DEF vars, HeldInv, TypeOK, InitHolds, NothingHeld
  <2> QED
    BY <2>1, <2>2
<1> QED
  BY InitHeld, <1>1, PTL DEF Spec

(***************************************************************************)
(* The session keeps its types; the drain polls at most five times.        *)
(***************************************************************************)
THEOREM SessionTypes == Spec => []TypeOK
<1>1. HeldInv => TypeOK
  BY DEF HeldInv
<1> QED
  BY <1>1, HeldInvariant, PTL

(***************************************************************************)
(* Whichever step of collector_init fails, and whenever a signal comes,    *)
(* everything acquired has been released in the end (collector.c:321-411). *)
(***************************************************************************)
THEOREM EverythingReleased == Spec => []NothingHeld
<1>1. HeldInv => NothingHeld
  BY DEF HeldInv
<1> QED
  BY <1>1, HeldInvariant, PTL
------------------------------------------------------------------------------
(***************************************************************************)
(* The events of recorded processes in a ring, and how the ring's two      *)
(* operations change their number.                                         *)
(***************************************************************************)
Waiting(r) == {i \in 1 .. Len(r) : Accepts(r[i])}
Uncounted(r) == Cardinality(Waiting(r))

LEMMA WaitingFinite ==
  ASSUME NEW r \in Seq(Sources)
  PROVE  IsFiniteSet(Waiting(r)) /\ Uncounted(r) \in Nat /\ (r = <<>> => Uncounted(r) = 0)
<1>1. IsFiniteSet(1 .. Len(r))
  BY FS_Interval
<1>2. Waiting(r) \in SUBSET (1 .. Len(r))
  BY DEF Waiting
<1>3. IsFiniteSet(Waiting(r))
  BY <1>1, <1>2, FS_Subset
<1>4. r = <<>> => Waiting(r) = {}
  BY DEF Waiting
<1> QED
  BY <1>3, <1>4, FS_CardinalityType, FS_EmptySet DEF Uncounted

\* An event that enters adds itself.
LEMMA EnterCounts ==
  ASSUME NEW r \in Seq(Sources), NEW s \in Sources
  PROVE  Uncounted(Append(r, s)) = Uncounted(r) + Counted(s)
<1>1. IsFiniteSet(Waiting(r)) /\ Uncounted(r) \in Nat
  BY WaitingFinite
<1>2. Len(r) + 1 \notin Waiting(r)
  BY DEF Waiting
<1>3. CASE Accepts(s)
  <2>1. Waiting(Append(r, s)) = Waiting(r) \cup {Len(r) + 1}
    BY <1>3 DEF Waiting
  <2> QED
    BY <1>1, <1>2, <1>3, <2>1, FS_AddElement DEF Uncounted, Counted
<1>4. CASE ~Accepts(s)
  <2>1. Waiting(Append(r, s)) = Waiting(r)
    BY <1>4 DEF Waiting
  <2> QED
    BY <1>1, <1>4, <2>1 DEF Uncounted, Counted
<1> QED
  BY <1>3, <1>4

\* An event that is consumed takes itself away.
LEMMA LeaveCounts ==
  ASSUME NEW r \in Seq(Sources), r # <<>>
  PROVE  Uncounted(r) = Uncounted(Tail(r)) + Counted(Head(r))
<1> DEFINE Rest == Waiting(r) \ {1}
           Shift == [i \in Waiting(Tail(r)) |-> i + 1]
<1>1. Tail(r) \in Seq(Sources) /\ Len(Tail(r)) = Len(r) - 1 /\ Len(r) \in Nat \ {0}
  OBVIOUS
<1>2. \A i \in 1 .. Len(r) - 1 : Tail(r)[i] = r[i + 1]
  OBVIOUS
<1>3. Shift \in Bijection(Waiting(Tail(r)), Rest)
  <2>1. Shift \in [Waiting(Tail(r)) -> Rest]
    BY <1>1, <1>2 DEF Waiting
  <2>2. \A i, j \in Waiting(Tail(r)) : Shift[i] = Shift[j] => i = j
    BY <1>1 DEF Waiting
  <2>3. \A k \in Rest : \E i \in Waiting(Tail(r)) : Shift[i] = k
    <3> TAKE k \in Rest
    <3>1. k - 1 \in Waiting(Tail(r))
      BY <1>1, <1>2 DEF Waiting
    <3> WITNESS k - 1 \in Waiting(Tail(r))
    <3> QED
      BY <3>1 DEF Waiting
  <2> QED
    BY <2>1, <2>2, <2>3 DEF Bijection, Injection, Surjection, IsInjective
<1>4. Cardinality(Rest) = Uncounted(Tail(r))
  <2>1. ExistsBijection(Waiting(Tail(r)), Rest)
    BY <1>3 DEF ExistsBijection
  <2> QED
    BY <2>1, <1>1, WaitingFinite, FS_Bijection DEF Uncounted
<1>5. Cardinality(Rest) = IF 1 \in Waiting(r) THEN Uncounted(r) - 1 ELSE Uncounted(r)
  BY WaitingFinite, FS_RemoveElement DEF Uncounted
<1>6. 1 \in Waiting(r) <=> Accepts(Head(r))
  BY <1>1 DEF Waiting
<1> HIDE DEF Rest
<1> QED
  BY <1>4, <1>5, <1>6, WaitingFinite, <1>1 DEF Counted

------------------------------------------------------------------------------
\* Every event of a recorded process that entered the ring is recorded or waits in it.
CountInv == accepted = recorded + Uncounted(ring)

\* The loop polls once more only after it saw that the target is gone.
DrainInv ==
  /\ pc \in {"init", "attach"} => drains = 0
  /\ drains > 0 => Targeted /\ ~alive
  /\ reason = "exit" => drains > 0 /\ pc \in {"stop", "destroy", "exited"}

\* After one more poll nothing of the target waits, unless a signal broke the poll off.
DrainedInv ==
  running /\ drains > 0 /\ (pc = "polled" \/ reason = "exit") => Uncounted(ring) = 0

\* The file is written once, after the last event was handled.
CsvInv == csv # -1 => pc \in {"destroy", "exited"} /\ csv = recorded

ExitInv == HeldInv /\ CountInv /\ DrainInv /\ DrainedInv /\ CsvInv

\* A session starts with an empty ring and no poll.
LEMMA InitExit == Init => ExitInv
<1> SUFFICES ASSUME Init PROVE ExitInv
  OBVIOUS
<1>1. Uncounted(ring) = 0
  BY InitHeld, WaitingFinite DEF Init, HeldInv, TypeOK
<1> QED
  BY <1>1, InitHeld DEF Init, ExitInv, CountInv, DrainInv, DrainedInv, CsvInv

\* What enters the ring and what leaves it are counted.
LEMMA StepCounts ==
  ASSUME ExitInv, Next
  PROVE  CountInv'
<1> USE DEF ExitInv, HeldInv, TypeOK, CountInv
<1>1. CASE Consume
  <2>1. CASE ring # <<>> /\ ring' = Tail(ring) /\ recorded' = recorded + Counted(Head(ring))
    <3>1. Uncounted(ring) = Uncounted(ring') + Counted(Head(ring))
      BY <2>1, LeaveCounts
    <3>2. Uncounted(ring') \in Nat
      <4>1. ring' \in Seq(Sources)
        BY <2>1
      <4> QED
        BY <4>1, WaitingFinite
    <3> QED
      BY <1>1, <2>1, <3>1, <3>2 DEF Consume, Counted
  <2>2. CASE UNCHANGED <<ring, recorded>>
    BY <1>1, <2>2 DEF Consume
  <2> QED
    BY <1>1, <2>1, <2>2 DEF Consume
<1>2. CASE \E s \in Sources : EmitEvent(s)
  <2> PICK s \in Sources : EmitEvent(s)
    BY <1>2
  <2>1. CASE ring' = Append(ring, s) /\ accepted' = accepted + Counted(s)
    <3>1. Uncounted(ring') = Uncounted(ring) + Counted(s) /\ Uncounted(ring) \in Nat
      BY <2>1, EnterCounts, WaitingFinite
    <3> QED
      BY <2>1, <3>1 DEF EmitEvent, Counted
  <2>2. CASE UNCHANGED <<ring, accepted>>
    BY <2>2 DEF EmitEvent
  <2> QED
    BY <2>1, <2>2 DEF EmitEvent
<1>3. CASE InitStep \/ AttachSome \/ AttachDone \/ Loop \/ PollWait \/ Check \/ Drain \/ Stop \/ Destroy
  BY <1>3 DEF InitStep, AttachSome, AttachDone, Loop, PollWait, Check, Drain, Stop, Destroy, events
<1>4. CASE TargetExits \/ Signal \/ TimePasses
  BY <1>4 DEF TargetExits, Signal, TimePasses, events
<1> QED
  BY <1>1, <1>2, <1>3, <1>4 DEF Next, Main

\* The extra polls, and the file.
LEMMA StepDrains ==
  ASSUME ExitInv, Next
  PROVE  DrainInv' /\ DrainedInv' /\ CsvInv'
<1> USE DEF ExitInv, HeldInv, TypeOK, DrainInv, DrainedInv, CsvInv
<1>1. CASE InitStep \/ AttachSome \/ AttachDone \/ Loop \/ Destroy
  BY <1>1 DEF InitStep, AttachSome, AttachDone, Loop, Destroy, world, events, poll
<1>2. CASE PollWait
  <2>1. ring = <<>> => Uncounted(ring) = 0
    BY WaitingFinite
  <2> QED
    BY <1>2, <2>1 DEF PollWait, world, events
<1>3. CASE Consume
  <2>1. ring = <<>> => Uncounted(ring) = 0
    BY WaitingFinite
  <2> QED
    BY <1>3, <2>1 DEF Consume, world, poll
<1>4. CASE Check
  BY <1>4 DEF Check, world, events
<1>5. CASE Drain
  BY <1>5 DEF Drain, world, events, DrainPolls
<1>6. CASE Stop
  BY <1>6 DEF Stop, world, events, poll
<1>7. CASE \E s \in Sources : EmitEvent(s)
  <2> PICK s \in Sources : EmitEvent(s)
    BY <1>7
  <2>1. UNCHANGED <<pc, running, alive, recorded, drains, reason, csv>>
    BY DEF EmitEvent, world, poll
  <2>2. drains > 0 => Uncounted(ring') = Uncounted(ring)
    <3> SUFFICES ASSUME drains > 0 PROVE Uncounted(ring') = Uncounted(ring)
      OBVIOUS
    <3>1. ~Accepts(s)
      BY DEF EmitEvent, Accepts
    <3>2. Uncounted(Append(ring, s)) = Uncounted(ring)
      BY <3>1, EnterCounts, WaitingFinite DEF Counted
    <3> QED
      BY <3>2 DEF EmitEvent
  <2> QED
    BY <2>1, <2>2
<1>8. CASE TargetExits \/ Signal \/ TimePasses
  BY <1>8 DEF TargetExits, Signal, TimePasses, events, poll
<1> QED
  BY <1>1, <1>2, <1>3, <1>4, <1>5, <1>6, <1>7, <1>8 DEF Next, Main

\* The counts and the polls are right in every state of a session.
LEMMA ExitInvariant == Spec => []ExitInv
<1>1. ExitInv /\ [Next]_vars => ExitInv'
  <2>1. CASE ExitInv /\ Next
    <3>1. HeldInv'
      BY <2>1, MainTypes, WorldTypes, StepHolds DEF Next, HeldInv, ExitInv
    <3> QED
      BY <2>1, <3>1, StepCounts, StepDrains DEF ExitInv
  <2>2. CASE ExitInv /\ UNCHANGED vars
    BY <2>2 DEF vars, ExitInv, HeldInv, TypeOK, InitHolds, NothingHeld, CountInv, DrainInv, DrainedInv, CsvInv
  <2> QED
    BY <2>1, <2>2
<1> QED
  BY InitExit, <1>1, PTL DEF Spec

(***************************************************************************)
(* A session that ends because its target exited has written every event   *)
(* of it that entered the ring, unless a signal broke it off.              *)
(***************************************************************************)
THEOREM ExitIsComplete == Spec => []ExitComplete
<1>1. ExitInv => ExitComplete
  BY DEF ExitInv, HeldInv, TypeOK, CountInv, DrainInv, DrainedInv, CsvInv, ExitComplete
<1> QED
  BY <1>1, ExitInvariant, PTL
==============================================================================
