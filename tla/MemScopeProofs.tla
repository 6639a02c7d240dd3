---------------------------- MODULE MemScopeProofs ----------------------------
(***************************************************************************)
(* Proofs about the pipeline on one CPU, for any programs, processes,      *)
(* buffers and order of attachment: its events are usable, its records     *)
(* typed.                                                                  *)
(***************************************************************************)
EXTENDS MemScope, ProbesProofs, IndexLemmas

\* Every step of the pipeline is one of the probes, the collector being the consumer.
LEMMA StepsAreProbes == [Next]_vars => [ProbesNext]_pvars
<1> SUFFICES ASSUME [Next]_vars PROVE [ProbesNext]_pvars
  OBVIOUS
<1>1. CASE \E t \in Threads : ThreadStep(t) /\ UNCHANGED records
  BY <1>1 DEF ProbesNext
<1>2. CASE AttachNext
  BY <1>2 DEF ProbesNext
<1>3. CASE HandleEvent
  BY <1>3 DEF HandleEvent, RecordAlloc, RecordFree, RecordNothing, Received, ProbesNext, Drain
<1>4. CASE UNCHANGED vars
  BY <1>4 DEF vars, pvars
<1> QED
  BY <1>1, <1>2, <1>3, <1>4 DEF Next

BuildLabels == {"memset", "header", "body", "stack", "emit"}

\* A probe that has got as far as building its event has a block to speak of.
Speaks(t) ==
  pc[t] \in BuildLabels =>
    /\ op[t].done => op[t].ret # 0
    /\ Fn(t) \in {"malloc", "calloc"} => op[t].done
    /\ Fn(t) = "free" => op[t].ptr # 0
SpeakInv == \A t \in Threads : Speaks(t)

\* The events that handle_event acts on, and the records it makes of them.
Usable(e) ==
  /\ e.type \in AllocReturns =>
       e.addr \in Addrs /\ e.pid \in Procs /\ e.tid \in Threads /\ e.size \in Sizes
  /\ e.type = "FREE" => e.addr \in Addrs
UsableEvent == {e \in MemEvent : Usable(e)}
OwnRecord == [addr: Addrs, pid: Procs, tid: Threads, size: Sizes, live: BOOLEAN]

PipeInv == OneInv /\ SpeakInv /\ ring \in Seq(UsableEvent) /\ records \in Seq(OwnRecord)

\* Nothing is under way at first.
LEMMA InitPipe == Init => PipeInv
<1> SUFFICES ASSUME Init PROVE PipeInv
  OBVIOUS
<1>1. OneInv
  BY InitOne DEF Init
<1>2. SpeakInv
  BY DEF Init, ProbesInit, SpeakInv, Speaks, BuildLabels
<1> QED
  BY <1>1, <1>2 DEF PipeInv, Init, ProbesInit

\* Every step of a thread keeps its event about a block.
LEMMA StepSpeak ==
  ASSUME TypeInv, SpeakInv, NEW t \in Threads, ThreadStep(t)
  PROVE  SpeakInv'
<1> USE DEF TypeInv, ProbesTypeOK, BuildLabels
<1>1. ASSUME NEW u \in Threads \ {t} PROVE Speaks(u)'
  <2>1. pc'[u] = pc[u] /\ op'[u] = op[u]
    BY StepOwn DEF Own
  <2> QED
    BY <2>1 DEF SpeakInv, Speaks, Fn
<1>2. Speaks(t)'
  <2> USE DEF SpeakInv, Speaks, Fn, Goto
  <2>0. Fits(pc[t], op[t])
    BY DEF CallShape
  <2>1. ASSUME NEW f, NEW s, NEW p, NEW l, Call(t, f, s, p, l),
               l = "memset" => f \in MapFns, l \in {"pend", "untrack", "memset"}
        PROVE  Speaks(t)'
    BY <2>1 DEF Call, Enter, MapFns
  <2>2. CASE CallAlloc(t)
    BY <2>1, <2>2 DEF CallAlloc
  <2>3. CASE CallFree(t)
    BY <2>1, <2>3 DEF CallFree
  <2>4. CASE CallMap(t)
    BY <2>1, <2>4 DEF CallMap
  <2>5. CASE Libc(t)
    BY <2>5 DEF Libc, LibcAlloc, LibcRealloc, LibcFree, LibcMap, Return, Resume, Enter
  <2>6. CASE SavePending(t) \/ ClearStack(t) \/ WalkStack(t) \/ SetDepth(t)
    BY <2>6 DEF SavePending, ClearStack, WalkStack, SetDepth, Step
  <2>7. CASE SaveStack(t)
    BY <2>0, <2>7 DEF SaveStack, Leave, Fits, EntryLabels, app
  <2>8. CASE TakePending(t)
    <3>1. CASE pc'[t] = "run"
      BY <3>1
    <3>2. CASE op[t].ret # 0 /\ op' = [op EXCEPT ![t].sizeVal = pending[Fn(t)][t].size]
      <4>1. op[t].done
        BY <2>0, <2>8 DEF TakePending, Fits
      <4>2. op'[t].ret = op[t].ret /\ op'[t].done = op[t].done /\ op'[t].fn = op[t].fn
        BY <3>2
      <4>3. op[t].fn \in AllocFns
        BY <2>0, <2>8 DEF TakePending, Fits
      <4> QED
        BY <3>2, <4>1, <4>2, <4>3 DEF AllocFns
    <3> QED
      BY <2>8, <3>1, <3>2 DEF TakePending, Leave
  <2>9. CASE FreeProbe(t)
    BY <2>0, <2>9 DEF FreeProbe, Untrack, DeleteActive, Step, Leave, Fits, app
  <2>10. CASE EventSteps(t)
    BY <2>10 DEF EventSteps, ClearEvt, FillHeader, FillBody, FillStack, Emit, Step, Leave, app
  <2> QED
    BY <2>2, <2>3, <2>4, <2>5, <2>6, <2>7, <2>8, <2>9, <2>10
    DEF ThreadStep, ProbeStep, EntryProbe
<1> QED
  BY <1>1, <1>2 DEF SpeakInv

\* Only emit_event writes into the ring.
LEMMA RingKept ==
  ASSUME NEW t \in Threads, ThreadStep(t), ~Emit(t)
  PROVE  ring' = ring
<1>1. CASE CallAlloc(t) \/ CallFree(t) \/ CallMap(t)
  BY <1>1 DEF CallAlloc, CallFree, CallMap, Call
<1>2. CASE Libc(t)
  BY <1>2 DEF Libc, LibcAlloc, LibcRealloc, LibcFree, LibcMap, Return, Resume
<1>3. CASE EntryProbe(t) \/ TakePending(t) \/ FreeProbe(t)
  BY <1>3 DEF EntryProbe, SavePending, ClearStack, WalkStack, SetDepth, SaveStack, TakePending,
              FreeProbe, Untrack, DeleteActive
<1>4. CASE EventSteps(t)
  BY <1>4 DEF EventSteps, ClearEvt, FillHeader, FillBody, FillStack
<1> QED
  BY <1>1, <1>2, <1>3, <1>4 DEF ThreadStep, ProbeStep

\* What emit_event writes is usable.
LEMMA EmitUsable ==
  ASSUME OneInv, SpeakInv, NEW t \in Threads, Emit(t)
  PROVE  tmpEvt \in UsableEvent
<1>1. pc[t] = "emit"
  BY DEF Emit
<1>2. /\ tmpEvt.type = TypeOf(t) /\ tmpEvt.pid = ProcOf[t] /\ tmpEvt.tid = t
      /\ tmpEvt.addr = AddrOf(t) /\ tmpEvt.size = op[t].size
  BY <1>1 DEF OneInv, EvtInv, EvtAt
<1>3. /\ op[t].done => op[t].ret # 0 /\ Fn(t) \in AllocFns
      /\ Fn(t) \in {"malloc", "calloc"} => op[t].done
      /\ Fn(t) = "free" => op[t].ptr # 0
  BY <1>1 DEF SpeakInv, Speaks, BuildLabels, OneInv, TypeInv, CallShape, Fits, Fn
<1>4. /\ op[t].fn \in AllocFns => op[t].size \in Sizes
      /\ op[t].ptr \in Addrs \cup {0} /\ op[t].ret \in Addrs \cup {0}
      /\ ProcOf[t] \in Procs
  BY HereFits DEF OneInv
<1>5. TypeOf(t) \in AllocReturns => op[t].done /\ Fn(t) \in AllocFns
  BY <1>3 DEF TypeOf, AllocReturns
<1>6. TypeOf(t) = "FREE" => Fn(t) = "free"
  BY DEF TypeOf
<1>7. Fn(t) = "free" => ~op[t].done
  BY <1>3 DEF AllocFns
<1>8. Usable(tmpEvt)
  BY <1>2, <1>3, <1>4, <1>5, <1>6, <1>7 DEF Usable, AddrOf, Fn
<1>9. tmpEvt \in MemEvent
  BY DEF OneInv, TypeInv, ProbesTypeOK
<1> QED
  BY <1>8, <1>9 DEF UsableEvent

\* The newest live record of an address.
LEMMA NewestOf ==
  ASSUME records \in Seq(OwnRecord), NEW a, LiveAt(a) # {}
  PROVE  /\ Max(LiveAt(a)) \in 1 .. Len(records)
         /\ records[Max(LiveAt(a))].live /\ records[Max(LiveAt(a))].addr = a
         /\ \A j \in 1 .. Len(records) : records[j].live /\ records[j].addr = a => j <= Max(LiveAt(a))
<1>1. Len(records) \in Nat /\ LiveAt(a) \subseteq 1 .. Len(records)
  BY DEF LiveAt
<1>2. Max(LiveAt(a)) \in LiveAt(a) /\ \A x \in LiveAt(a) : x <= Max(LiveAt(a))
  BY <1>1, MaxOfIndices
<1> HIDE DEF Max
<1> QED
  BY <1>1, <1>2 DEF LiveAt

\* What handle_event does to the records.
LEMMA RecordsStep ==
  ASSUME PipeInv, HandleEvent
  PROVE  /\ records' \in Seq(OwnRecord)
         /\ \/ \E r \in OwnRecord : r.live /\ records' = Append(records, r)
            \/ \E a \in Addrs : /\ LiveAt(a) # {}
                                /\ records' = [records EXCEPT ![Max(LiveAt(a))].live = FALSE]
            \/ records' = records
<1> USE DEF PipeInv
<1>1. CASE RecordAlloc
  <2>1. PICK e : /\ Received(e) /\ e.type \in AllocReturns
                 /\ records' = Append(records, [addr |-> e.addr, pid |-> e.pid, tid |-> e.tid,
                                                size |-> e.size, live |-> TRUE])
    BY <1>1 DEF RecordAlloc
  <2>2. e \in UsableEvent
    BY <2>1 DEF Received
  <2> DEFINE r == [addr |-> e.addr, pid |-> e.pid, tid |-> e.tid, size |-> e.size, live |-> TRUE]
  <2>3. r \in OwnRecord /\ r.live
    BY <2>1, <2>2 DEF UsableEvent, Usable, OwnRecord
  <2>4. records' = Append(records, r)
    BY <2>1
  <2> HIDE DEF r
  <2> QED
    BY <2>3, <2>4
<1>2. CASE RecordFree
  <2>1. PICK e : /\ Received(e) /\ e.type = "FREE"
                 /\ \/ LiveAt(e.addr) = {} /\ UNCHANGED records
                    \/ /\ LiveAt(e.addr) # {}
                       /\ records' = [records EXCEPT ![Max(LiveAt(e.addr))].live = FALSE]
    BY <1>2 DEF RecordFree
  <2>2. e \in UsableEvent
    BY <2>1 DEF Received
  <2>3. e.addr \in Addrs
    BY <2>1, <2>2 DEF UsableEvent, Usable
  <2>4. CASE UNCHANGED records
    BY <2>4
  <2>5. CASE /\ LiveAt(e.addr) # {}
             /\ records' = [records EXCEPT ![Max(LiveAt(e.addr))].live = FALSE]
    <3> DEFINE m == Max(LiveAt(e.addr))
    <3>1. m \in 1 .. Len(records)
      BY <2>5, NewestOf
    <3> HIDE DEF m
    <3>2. records[m] \in OwnRecord
      BY <3>1
    <3>3. [records[m] EXCEPT !.live = FALSE] \in OwnRecord
      BY <3>2 DEF OwnRecord
    <3>4. [records EXCEPT ![m].live = FALSE] \in Seq(OwnRecord)
      BY <3>1, <3>3
    <3> USE DEF m
    <3> QED
      BY <2>3, <2>5, <3>4
  <2> QED
    BY <2>1, <2>4, <2>5
<1>3. CASE RecordNothing
  BY <1>3 DEF RecordNothing
<1> QED
  BY <1>1, <1>2, <1>3 DEF HandleEvent

\* Every step of the pipeline keeps its events usable and its records typed.
LEMMA StepPipe ==
  ASSUME OneCpu, PipeInv, [Next]_vars
  PROVE  PipeInv'
<1> USE DEF PipeInv
<1>1. OneInv'
  BY StepOne, StepsAreProbes
<1>2. CASE \E t \in Threads : ThreadStep(t) /\ UNCHANGED records
  <2> PICK t \in Threads : ThreadStep(t) /\ UNCHANGED records
    BY <1>2
  <2>1. SpeakInv'
    BY StepSpeak DEF OneInv
  <2>2. ring' \in Seq(UsableEvent)
    <3>1. CASE Emit(t)
      BY <3>1, EmitUsable DEF Emit
    <3>2. CASE ~Emit(t)
      BY <3>2, RingKept
    <3> QED
      BY <3>1, <3>2
  <2> QED
    BY <1>1, <2>1, <2>2
<1>3. CASE (AttachNext /\ UNCHANGED records) \/ UNCHANGED vars
  <2>1. UNCHANGED <<pc, op, ring, records>>
    BY <1>3 DEF AttachNext, vars, app
  <2> QED
    BY <1>1, <2>1 DEF SpeakInv, Speaks, Fn
<1>4. CASE HandleEvent
  <2>1. UNCHANGED <<pc, op>> /\ ring # <<>> /\ ring' = Tail(ring)
    BY <1>4 DEF HandleEvent, RecordAlloc, RecordFree, RecordNothing, Received, app
  <2>2. records' \in Seq(OwnRecord)
    BY <1>4, RecordsStep
  <2>3. SpeakInv'
    BY <2>1 DEF SpeakInv, Speaks, Fn
  <2>4. ring' \in Seq(UsableEvent)
    BY <2>1
  <2> QED
    BY <1>1, <2>2, <2>3, <2>4
<1> QED
  BY <1>2, <1>3, <1>4 DEF Next

LEMMA PipeInvariant == ASSUME OneCpu PROVE Spec => []PipeInv
<1>1. PipeInv /\ [Next]_vars => PipeInv'
  BY StepPipe
<1> QED
  BY InitPipe, <1>1, PTL DEF Spec

(***************************************************************************)
(* On one CPU the records are well-typed: no event that handle_event acts  *)
(* on lacks its address, size or thread (memscope.bpf.c:156-212), however  *)
(* many programs are traced and whichever fail to attach.                  *)
(***************************************************************************)
THEOREM RecordsTyped == ASSUME OneCpu PROVE Spec => []TypeOK
<1>1. PipeInv => TypeOK
  <2> SUFFICES ASSUME PipeInv PROVE TypeOK
    OBVIOUS
  <2>1. OwnRecord \subseteq Record
    BY ProbesAssumption DEF OwnRecord, Record, Procs
  <2>2. records \in Seq(Record)
    BY <2>1 DEF PipeInv
  <2> QED
    BY <2>2 DEF PipeInv, OneInv, TypeInv, TypeOK
<1> QED
  BY <1>1, PipeInvariant, PTL
==============================================================================
