----------------------------- MODULE ProbesProofs -----------------------------
(***************************************************************************)
(* Proofs about Probes for any number of threads, processes, addresses and *)
(* attached programs.                                                      *)
(***************************************************************************)
EXTENDS Probes, TLAPS

\* Only the allocation functions have a return probe.
LEMMA ReturnPrograms == \A f : <<f, 1>> \in Programs => f \in AllocFns
  BY DEF Programs, AttachOrder, AllocFns

\* attach_uprobes' table has a length.
LEMMA AttachLength == Len(AttachOrder) \in Nat
  BY DEF AttachOrder

\* What a map update does to the entry it writes, and to the others.
LEMMA UpdateFacts ==
  ASSUME NEW K, NEW V, NEW m \in MapOf(K, V), NEW k \in K, NEW v \in V, NEW cap
  PROVE  /\ Update(m, k, v, cap) \in MapOf(K, V)
         /\ \A j \in K : j # k => Update(m, k, v, cap)[j] = m[j]
         /\ Update(m, k, v, cap)[k] \in {m[k], v}
         /\ m[k] # Absent => Update(m, k, v, cap)[k] = v
  BY DEF Update, MapOf

(***************************************************************************)
(* What a call record holds, by its function.                              *)
(***************************************************************************)
LEMMA OpFields ==
  ASSUME NEW o \in Op
  PROVE  /\ o.fn \in AllocFns \cup MapFns \cup {"free", "none"}
         /\ o.ptr \in Addrs \cup {0} /\ o.ret \in Addrs \cup {0}
         /\ o.sizeVal \in Sizes \cup {0}
         /\ o.hooked \in BOOLEAN /\ o.entered \in BOOLEAN /\ o.done \in BOOLEAN
         /\ o.fn \in AllocFns => o.size \in Sizes /\ o.sizeVal \in Sizes
         /\ o.hooked => o.fn \in AllocFns
         /\ o.fn = "free" => o.size = 0
         /\ o.fn = "none" => o = NoOp
  <1>1. CASE o \in AllocOp
    BY <1>1 DEF AllocOp, AllocFns
  <1>2. CASE o \in MapOp
    BY <1>2 DEF MapOp, MapFns, AllocFns
  <1>3. CASE o \in FreeOp
    BY <1>3 DEF FreeOp, AllocFns
  <1>4. CASE o = NoOp
    BY <1>4 DEF NoOp, AllocFns
  <1> QED BY <1>1, <1>2, <1>3, <1>4 DEF Op

LEMMA OpNone == NoOp \in Op /\ NoOp.fn = "none"
  BY DEF Op, NoOp

\* libc's answer keeps the record a call record.
LEMMA OpReturn ==
  ASSUME NEW o \in Op, o # NoOp, NEW r \in Addrs \cup {0}, r = 0 \/ o.fn \in AllocFns
  PROVE  /\ [o EXCEPT !.ret = r, !.done = TRUE] \in Op
         /\ [o EXCEPT !.ret = r, !.done = TRUE].fn = o.fn
         /\ [o EXCEPT !.ret = r, !.done = TRUE].done
  <1>1. CASE o \in AllocOp
    BY <1>1 DEF AllocOp, Op
  <1>2. CASE o \in MapOp
    BY <1>2 DEF MapOp, MapFns, AllocFns, Op
  <1>3. CASE o \in FreeOp
    BY <1>3 DEF FreeOp, AllocFns, Op
  <1> QED BY <1>1, <1>2, <1>3 DEF Op

\* A call to an allocation function has an allocation's record.
LEMMA OpAlloc ==
  ASSUME NEW o \in Op, o.fn \in AllocFns
  PROVE  o \in AllocOp
  <1>1. o \notin MapOp
    BY DEF AllocFns, MapFns, MapOp
  <1>2. o \notin FreeOp
    BY DEF AllocFns, FreeOp
  <1>3. o # NoOp
    BY DEF AllocFns, NoOp
  <1> QED BY <1>1, <1>2, <1>3 DEF Op

\* The size read back from the pending entry keeps it one.
LEMMA OpSizeVal ==
  ASSUME NEW o \in Op, o.fn \in AllocFns, NEW s \in Sizes
  PROVE  /\ [o EXCEPT !.sizeVal = s] \in Op
         /\ [o EXCEPT !.sizeVal = s].fn = o.fn
         /\ [o EXCEPT !.sizeVal = s].done = o.done
         /\ [o EXCEPT !.sizeVal = s].sizeVal = s
         /\ [o EXCEPT !.sizeVal = s].size = o.size
  BY OpAlloc DEF AllocOp, Op

(***************************************************************************)
(* The call a thread is in fits the place it is at.                        *)
(***************************************************************************)
Fits(label, o) ==
  /\ label = "run" <=> o = NoOp
  /\ label \in EntryLabels => o.fn \in AllocFns /\ ~o.done
  /\ label \in {"take", "stack"} => o.fn \in AllocFns /\ o.done
  /\ label \in {"untrack", "delete"} => o.fn = "free" /\ ~o.done
  /\ label = "libc" => ~o.done
  /\ label = "return" => o.done
  /\ label \in {"memset", "header", "body", "emit"} /\ o.done => o.fn \in AllocFns
  /\ label = "delete" => o.ptr # 0

CallShape == \A t \in Threads : Fits(pc[t], op[t])

TypeInv == ProbesTypeOK /\ CallShape

\* Tracing starts well-typed.
LEMMA InitType == ProbesInit => TypeInv
  <1> SUFFICES ASSUME ProbesInit PROVE TypeInv
    OBVIOUS
  <1>1. ProbesTypeOK
    BY ProbesAssumption, AttachLength, OpNone
    DEF ProbesInit, ProbesTypeOK, Labels, MapOf, Block, StackValue, MemEvent, ZeroStack,
        ZeroEvt, Stack
  <1>2. CallShape
    BY DEF ProbesInit, CallShape, Fits, EntryLabels, NoOp
  <1> QED BY <1>1, <1>2 DEF TypeInv

\* Thread t moves to a label its call fits; the others stay.
LEMMA Moved ==
  ASSUME TypeInv, NEW t \in Threads, NEW l \in Labels, Goto(t, l),
         op' \in [Threads -> Op], \A u \in Threads \ {t} : op'[u] = op[u],
         Fits(l, op'[t])
  PROVE  pc' \in [Threads -> Labels] /\ CallShape'
  BY DEF TypeInv, ProbesTypeOK, CallShape, Goto

\* The same when the call is left as it is.
LEMMA MovedOnly ==
  ASSUME TypeInv, NEW t \in Threads, NEW l \in Labels, Goto(t, l), UNCHANGED op,
         Fits(l, op[t])
  PROVE  pc' \in [Threads -> Labels] /\ CallShape'
  BY Moved DEF TypeInv, ProbesTypeOK

\* What a thread at a probe's label knows of its call.
LEMMA HereFits ==
  ASSUME TypeInv, NEW t \in Threads
  PROVE  /\ Fits(pc[t], op[t]) /\ op[t] \in Op
         /\ op[t].fn \in AllocFns => op[t].size \in Sizes /\ op[t].sizeVal \in Sizes
         /\ op[t].ptr \in Addrs \cup {0} /\ op[t].ret \in Addrs \cup {0}
         /\ op[t].sizeVal \in Sizes \cup {0}
         /\ ProcOf[t] \in Nat \ {0} /\ ProcOf[t] \in Procs
  BY OpFields, ProbesAssumption DEF TypeInv, ProbesTypeOK, CallShape, Procs

\* CPUs are taken and given back.
LEMMA CpuType ==
  ASSUME TypeInv, NEW t \in Threads, NEW l,
         Enter(t, l) \/ Leave(t, l) \/ UNCHANGED cpu
  PROVE  cpu' \in [Threads -> Cpus \cup {0}]
  BY DEF TypeInv, ProbesTypeOK, Enter, Leave

\* Entry probes.
LEMMA TypeEntry ==
  ASSUME TypeInv, NEW t \in Threads, EntryProbe(t)
  PROVE  TypeInv'
  <1> USE DEF TypeInv, ProbesTypeOK, app, attach, pendings, scratch, tracked
  <1> USE HereFits DEF Fits, EntryLabels, Labels, ProbeLabels
  <1>1. CASE SavePending(t)
    <2>1. pc' \in [Threads -> Labels] /\ CallShape'
      BY <1>1, MovedOnly DEF SavePending, Step
    <2>2. Fn(t) \in AllocFns /\ [size |-> op[t].size] \in [size: Sizes]
      BY <1>1 DEF SavePending, Step, Fn
    <2>3. Update(pending[Fn(t)], t, [size |-> op[t].size], PendingCap)
            \in MapOf(Threads, [size: Sizes])
      <3> HIDE DEF pendings
      <3>1. pending[Fn(t)] \in MapOf(Threads, [size: Sizes])
        BY <2>2
      <3> DEFINE v == [size |-> op[t].size]
      <3>2. v \in [size: Sizes]
        BY <2>2
      <3> HIDE DEF v
      <3>3. Update(pending[Fn(t)], t, v, PendingCap) \in MapOf(Threads, [size: Sizes])
        BY <3>1, <3>2, UpdateFacts
      <3> QED BY <3>3 DEF v
    <2>4. pending' \in [AllocFns -> MapOf(Threads, [size: Sizes])]
      BY <1>1, <2>2, <2>3 DEF SavePending
    <2> QED BY <1>1, <2>1, <2>4 DEF SavePending, Step
  <1>2. CASE ClearStack(t)
    <2>1. pc' \in [Threads -> Labels] /\ CallShape'
      BY <1>2, MovedOnly DEF ClearStack, Step
    <2> QED BY <1>2, <2>1 DEF ClearStack, Step, ZeroStack, StackValue, Stack
  <1>3. CASE WalkStack(t)
    <2>1. pc' \in [Threads -> Labels] /\ CallShape'
      BY <1>3, MovedOnly DEF WalkStack
    <2>2. CallOf(t) \in Stack
      BY DEF CallOf, Stack
    <2> QED BY <1>3, <2>1, <2>2 DEF WalkStack, StackValue
  <1>4. CASE SetDepth(t)
    <2>1. pc' \in [Threads -> Labels] /\ CallShape'
      BY <1>4, MovedOnly DEF SetDepth
    <2> QED BY <1>4, <2>1 DEF SetDepth, StackValue
  <1>5. CASE SaveStack(t)
    <2>1. pc' \in [Threads -> Labels] /\ CallShape'
      BY <1>5, MovedOnly DEF SaveStack, Leave
    <2>2. Fn(t) \in AllocFns
      BY <1>5 DEF SaveStack, Fn
    <2>3. pstack' \in [AllocFns -> MapOf(Threads, StackValue)]
      BY <1>5, <2>2, UpdateFacts DEF SaveStack
    <2>4. cpu' \in [Threads -> Cpus \cup {0}]
      BY <1>5, CpuType DEF SaveStack
    <2> QED BY <1>5, <2>1, <2>3, <2>4 DEF SaveStack
  <1> QED BY <1>1, <1>2, <1>3, <1>4, <1>5 DEF EntryProbe

\* Return probes up to the event.
LEMMA TypeTake ==
  ASSUME TypeInv, NEW t \in Threads, TakePending(t)
  PROVE  TypeInv'
  <1> USE DEF TypeInv, ProbesTypeOK, app, attach, pendings, scratch, tracked
  <1> USE HereFits DEF Fits, EntryLabels, Labels, ProbeLabels
  <1> DEFINE p == pending[Fn(t)][t]
  <1>1. pc[t] = "take" /\ Fn(t) \in AllocFns /\ op[t].done
    BY DEF TakePending, Fn
  <1>2. CASE op[t].ret = 0 \/ p = Absent
    <2>1. Leave(t, "run") /\ op' = [op EXCEPT ![t] = NoOp] /\ UNCHANGED <<pending, active>>
      BY <1>2 DEF TakePending
    <2>2. pc' \in [Threads -> Labels] /\ CallShape' /\ op' \in [Threads -> Op]
      BY <2>1, Moved, OpNone DEF Leave, NoOp
    <2>3. cpu' \in [Threads -> Cpus \cup {0}]
      BY <2>1, CpuType
    <2> QED BY <2>1, <2>2, <2>3 DEF TakePending
  <1>3. CASE op[t].ret # 0 /\ p # Absent
    <2>1. p \in [size: Sizes] /\ p.size \in Sizes
      BY <1>1, <1>3 DEF MapOf
    <2>2. /\ pending' = [pending EXCEPT ![Fn(t)][t] = Absent]
          /\ active' = Update(active, op[t].ret,
                         [size |-> p.size, pid |-> ProcOf[t], tid |-> t], ActiveCap)
          /\ op' = [op EXCEPT ![t].sizeVal = p.size]
          /\ Goto(t, "memset") /\ UNCHANGED cpu
      BY <1>3 DEF TakePending
    <2>3. op'[t] \in Op /\ op'[t].fn = Fn(t) /\ op'[t].done
      BY <1>1, <2>1, <2>2, OpSizeVal DEF Fn
    <2>4. Fits("memset", op'[t])
      BY <1>1, <2>3 DEF NoOp, AllocFns
    <2>5. pc' \in [Threads -> Labels] /\ CallShape' /\ op' \in [Threads -> Op]
      BY <2>2, <2>3, <2>4, Moved
    <2>6. pending' \in [AllocFns -> MapOf(Threads, [size: Sizes])]
      BY <1>1, <2>2 DEF MapOf
    <2>7. active' \in MapOf(Addrs, AllocInfo)
      <3>1. op[t].ret \in Addrs
        BY <1>3
      <3>2. [size |-> p.size, pid |-> ProcOf[t], tid |-> t] \in AllocInfo
        BY <2>1 DEF AllocInfo
      <3> QED BY <2>2, <3>1, <3>2, UpdateFacts
    <2> QED BY <2>2, <2>5, <2>6, <2>7 DEF TakePending
  <1> QED BY <1>2, <1>3

\* free's probe up to the event.
LEMMA TypeFree ==
  ASSUME TypeInv, NEW t \in Threads, FreeProbe(t)
  PROVE  TypeInv'
  <1> USE DEF TypeInv, ProbesTypeOK, app, attach, pendings, scratch, tracked
  <1> USE HereFits DEF Fits, EntryLabels, Labels, ProbeLabels
  <1>1. CASE Untrack(t)
    <2>1. pc[t] = "untrack" /\ Fn(t) = "free" /\ ~op[t].done
      BY <1>1 DEF Untrack, Fn
    <2>2. pc' \in [Threads -> Labels] /\ CallShape'
      BY <1>1, <2>1, MovedOnly DEF Untrack, Leave, NoOp, Fn
    <2>3. cpu' \in [Threads -> Cpus \cup {0}]
      BY <1>1, CpuType DEF Untrack
    <2>4. completed' \in MapOf(Addrs, AllocInfo)
      <3>1. CASE op[t].ptr # 0 /\ active[op[t].ptr] # Absent
        <4>1. op[t].ptr \in Addrs /\ active[op[t].ptr] \in AllocInfo
          BY <3>1 DEF MapOf
        <4>2. completed' = Update(completed, op[t].ptr, active[op[t].ptr], CompletedCap)
          BY <1>1, <3>1 DEF Untrack
        <4> QED BY <4>1, <4>2, UpdateFacts
      <3> QED BY <1>1, <3>1 DEF Untrack
    <2> QED BY <1>1, <2>2, <2>3, <2>4 DEF Untrack
  <1>2. CASE DeleteActive(t)
    <2>1. pc[t] = "delete" /\ op[t].ptr \in Addrs
      BY <1>2 DEF DeleteActive, Step
    <2>2. pc' \in [Threads -> Labels] /\ CallShape'
      BY <1>2, <2>1, MovedOnly DEF DeleteActive, Step, NoOp
    <2>3. active' \in MapOf(Addrs, AllocInfo)
      BY <1>2, <2>1 DEF DeleteActive, MapOf
    <2> QED BY <1>2, <2>2, <2>3 DEF DeleteActive, Step
  <1> QED BY <1>1, <1>2 DEF FreeProbe

\* The event a thread is to emit has a type.
LEMMA TypeOfType == \A t \in Threads : TypeOf(t) \in EventTypes
  BY DEF TypeOf, EventTypes

\* The steps that build and emit an event.
LEMMA TypeEvent ==
  ASSUME TypeInv, NEW t \in Threads, EventSteps(t)
  PROVE  TypeInv'
  <1> USE DEF TypeInv, ProbesTypeOK, app, attach, pendings, scratch, tracked
  <1> USE HereFits DEF Fits, EntryLabels, Labels, ProbeLabels
  <1>1. CASE ClearEvt(t)
    <2>1. pc' \in [Threads -> Labels] /\ CallShape'
      BY <1>1, MovedOnly DEF ClearEvt, Step
    <2> QED BY <1>1, <2>1 DEF ClearEvt, Step, ZeroEvt, MemEvent, Stack
  <1>2. CASE FillHeader(t)
    <2>1. pc' \in [Threads -> Labels] /\ CallShape'
      BY <1>2, MovedOnly DEF FillHeader, Step
    <2>2. tmpEvt' \in MemEvent
      BY <1>2, TypeOfType DEF FillHeader, MemEvent
    <2> QED BY <1>2, <2>1, <2>2 DEF FillHeader, Step
  <1>3. CASE FillBody(t)
    <2>1. pc' \in [Threads -> Labels] /\ CallShape'
      BY <1>3, MovedOnly DEF FillBody, Step
    <2>2. AddrOf(t) \in Addrs \cup {0}
      BY DEF AddrOf
    <2>3. tmpEvt' \in MemEvent
      BY <1>3, <2>2 DEF FillBody, MemEvent
    <2> QED BY <1>3, <2>1, <2>3 DEF FillBody, Step
  <1>4. CASE FillStack(t)
    <2>1. pc' \in [Threads -> Labels] /\ CallShape'
      BY <1>4, MovedOnly DEF FillStack, Step
    <2>2. Fn(t) \in AllocFns
      BY <1>4 DEF FillStack, Step, Fn
    <2>3. pstack' \in [AllocFns -> MapOf(Threads, StackValue)]
      BY <1>4, <2>2 DEF FillStack, MapOf
    <2>4. pstack[Fn(t)][t] # Absent => pstack[Fn(t)][t].pcs \in Stack
      BY <2>2 DEF MapOf, StackValue
    <2>6. NoStack \in Stack
      BY DEF Stack
    <2>5. tmpEvt' \in MemEvent
      BY <1>4, <2>4, <2>6 DEF FillStack, MemEvent
    <2> QED BY <1>4, <2>1, <2>3, <2>5 DEF FillStack, Step
  <1>5. CASE Emit(t)
    <2>1. op' \in [Threads -> Op] /\ pc' \in [Threads -> Labels] /\ CallShape'
      <3>1. CASE op[t].done /\ Leave(t, "run") /\ op' = [op EXCEPT ![t] = NoOp]
        BY <3>1, Moved, OpNone DEF Leave, NoOp
      <3>2. CASE ~op[t].done /\ Leave(t, "libc") /\ UNCHANGED op
        BY <1>5, <3>2, MovedOnly DEF Emit, Leave
      <3> QED BY <1>5, <3>1, <3>2 DEF Emit
    <2>2. cpu' \in [Threads -> Cpus \cup {0}]
      BY <1>5, CpuType DEF Emit
    <2>3. ring' \in Seq(MemEvent) /\ Len(ring') <= RingCap
      BY <1>5, ProbesAssumption DEF Emit
    <2> QED BY <1>5, <2>1, <2>2, <2>3 DEF Emit
  <1> QED BY <1>1, <1>2, <1>3, <1>4, <1>5 DEF EventSteps

\* A call's record, whether its programs are attached or not.
LEMMA CallRecord ==
  ASSUME NEW f, NEW size, NEW ptr, NEW h \in BOOLEAN, NEW e \in BOOLEAN,
         h => f \in AllocFns,
         \/ f \in AllocFns /\ size \in Sizes /\ ptr \in Addrs \cup {0}
         \/ f \in MapFns /\ size \in Sizes /\ ptr = 0
         \/ f = "free" /\ size = 0 /\ ptr \in Addrs \cup {0}
  PROVE  [fn |-> f, size |-> size, ptr |-> ptr, ret |-> 0, sizeVal |-> size,
          hooked |-> h, entered |-> e, done |-> FALSE] \in Op
  <1>1. CASE f \in AllocFns
    BY <1>1 DEF Op, AllocOp, AllocFns, MapFns
  <1>2. CASE f \notin AllocFns
    <2>1. h = FALSE
      BY <1>2
    <2> QED BY <1>2, <2>1 DEF Op, MapOp, FreeOp
  <1> QED BY <1>1, <1>2

\* A call: any function with the arguments its programs may pass.
LEMMA TypeCall ==
  ASSUME TypeInv, NEW t \in Threads,
         NEW f, NEW size, NEW ptr, NEW label, Call(t, f, size, ptr, label),
         \/ f \in AllocFns /\ size \in Sizes /\ ptr \in Addrs \cup {0} /\ label = "pend"
         \/ f \in MapFns /\ size \in Sizes /\ ptr = 0 /\ label = "memset"
         \/ f = "free" /\ size = 0 /\ ptr \in Addrs \cup {0} /\ label = "untrack"
  PROVE  TypeInv'
  <1> USE DEF TypeInv, ProbesTypeOK, app, attach, pendings, scratch, tracked
  <1> DEFINE o == [fn |-> f, size |-> size, ptr |-> ptr, ret |-> 0, sizeVal |-> size,
                   hooked |-> <<f, 1>> \in attached, entered |-> <<f, 0>> \in attached,
                   done |-> FALSE]
  <1>1. o \in Op
    <2> DEFINE h == <<f, 1>> \in attached
               e == <<f, 0>> \in attached
    <2>1. h \in BOOLEAN /\ e \in BOOLEAN
      OBVIOUS
    <2>2. h => f \in AllocFns
      BY ReturnPrograms
    <2> HIDE DEF h, e
    <2>3. [fn |-> f, size |-> size, ptr |-> ptr, ret |-> 0, sizeVal |-> size,
           hooked |-> h, entered |-> e, done |-> FALSE] \in Op
      BY <2>1, <2>2, CallRecord
    <2> QED BY <2>3 DEF h, e
  <1>2. op' = [op EXCEPT ![t] = o] /\ o # NoOp
    BY DEF Call, NoOp, AllocFns, MapFns
  <1>3. Fits(label, o) /\ Fits("libc", o) /\ label \in Labels
    BY <1>2 DEF Fits, EntryLabels, Labels, ProbeLabels, AllocFns
  <1> HIDE DEF o
  <1>4. pc' \in [Threads -> Labels] /\ CallShape' /\ op' \in [Threads -> Op]
    BY <1>1, <1>2, <1>3, Moved DEF Call, Enter, Labels
  <1>5. cpu' \in [Threads -> Cpus \cup {0}]
    BY CpuType DEF Call
  <1>6. calls' \in [Threads -> Nat]
    BY DEF Call
  <1> QED BY <1>4, <1>5, <1>6 DEF Call

\* libc returns what the function may return.
LEMMA TypeReturn ==
  ASSUME TypeInv, NEW t \in Threads, NEW r \in Addrs \cup {0}, Return(t, r),
         pc[t] = "libc", r = 0 \/ Fn(t) \in AllocFns,
         heap' \in [Procs -> MapOf(Addrs, Block)]
  PROVE  TypeInv'
  <1> USE DEF TypeInv, ProbesTypeOK, app, attach, pendings, scratch, tracked
  <1>1. op[t] # NoOp /\ op[t] \in Op
    BY HereFits DEF Fits
  <1>2. op' = [op EXCEPT ![t] = [@ EXCEPT !.ret = r, !.done = TRUE]]
    BY DEF Return
  <1>3. op'[t] \in Op /\ op'[t].fn = Fn(t) /\ op'[t].done
    BY <1>1, <1>2, OpReturn DEF Fn
  <1>4. op'[t] # NoOp
    BY <1>3 DEF NoOp
  <1>5. Fits("return", op'[t]) /\ "return" \in Labels
    BY <1>3, <1>4 DEF Fits, EntryLabels, Labels
  <1>6. pc' \in [Threads -> Labels] /\ CallShape' /\ op' \in [Threads -> Op]
    BY <1>2, <1>3, <1>5, Moved DEF Return
  <1> QED BY <1>6 DEF Return

\* The traced programs and libc.
LEMMA TypeApp ==
  ASSUME TypeInv, NEW t \in Threads,
         CallAlloc(t) \/ CallFree(t) \/ CallMap(t) \/ Libc(t)
  PROVE  TypeInv'
  <1> USE DEF TypeInv, ProbesTypeOK
  <1>1. CASE CallAlloc(t)
    BY <1>1, TypeCall DEF CallAlloc, Owned, AllocFns
  <1>2. CASE CallFree(t)
    BY <1>2, TypeCall DEF CallFree, Owned
  <1>3. CASE CallMap(t)
    BY <1>3, TypeCall DEF CallMap
  <1>4. CASE LibcAlloc(t)
    <2>1. Fn(t) \in AllocFns /\ pc[t] = "libc" /\ op[t].size \in Sizes /\ op[t].entered \in BOOLEAN
          /\ op[t].hooked \in BOOLEAN /\ ProcOf[t] \in Procs
      BY <1>4, HereFits, OpFields DEF LibcAlloc, AllocFns, Fn
    <2>2. [size |-> op[t].size, tid |-> t, traced |-> op[t].entered /\ op[t].hooked] \in Block
      BY <2>1 DEF Block
    <2>3. ASSUME NEW a \in Addrs,
                 heap' = [heap EXCEPT ![ProcOf[t]][a] =
                   [size |-> op[t].size, tid |-> t, traced |-> op[t].entered /\ op[t].hooked]]
          PROVE  heap' \in [Procs -> MapOf(Addrs, Block)]
      BY <2>1, <2>2, <2>3 DEF MapOf
    <2> QED BY <1>4, <2>1, <2>3, TypeReturn DEF LibcAlloc
  <1>5. CASE LibcRealloc(t)
    <2>1. Fn(t) \in AllocFns /\ pc[t] = "libc" /\ op[t].size \in Sizes /\ op[t].entered \in BOOLEAN
          /\ op[t].hooked \in BOOLEAN /\ ProcOf[t] \in Procs
      BY <1>5, HereFits, OpFields DEF LibcRealloc, AllocFns, Fn
    <2>2. [size |-> op[t].size, tid |-> t, traced |-> op[t].entered /\ op[t].hooked] \in Block
      BY <2>1 DEF Block
    <2>3. ASSUME NEW a \in Addrs,
                 heap' = [heap EXCEPT ![ProcOf[t]] = [@ EXCEPT ![op[t].ptr] = Absent,
                   ![a] = [size |-> op[t].size, tid |-> t,
                           traced |-> op[t].entered /\ op[t].hooked]]]
          PROVE  heap' \in [Procs -> MapOf(Addrs, Block)]
      BY <2>1, <2>2, <2>3 DEF MapOf
    <2> QED BY <1>5, <2>1, <2>3, TypeReturn DEF LibcRealloc
  <1>6. CASE LibcFree(t)
    <2>1. heap' \in [Procs -> MapOf(Addrs, Block)]
      BY <1>6, HereFits DEF LibcFree, MapOf
    <2> QED BY <1>6, <2>1, TypeReturn DEF LibcFree
  <1>7. CASE LibcMap(t)
    BY <1>7, TypeReturn DEF LibcMap
  <1>8. CASE Resume(t)
    <2> USE DEF app, attach, pendings, scratch, tracked
    <2>1. CASE op[t].hooked /\ Enter(t, "take") /\ UNCHANGED op
      <3>1. Fits("take", op[t]) /\ "take" \in Labels
        BY <1>8, <2>1, HereFits, OpFields DEF Resume, Fits, EntryLabels, Labels, ProbeLabels
      <3>2. pc' \in [Threads -> Labels] /\ CallShape'
        BY <2>1, <3>1, MovedOnly DEF Enter
      <3>3. cpu' \in [Threads -> Cpus \cup {0}]
        BY <2>1, CpuType
      <3> QED BY <1>8, <2>1, <3>2, <3>3 DEF Resume
    <2>2. CASE ~op[t].hooked /\ Goto(t, "run") /\ op' = [op EXCEPT ![t] = NoOp] /\ UNCHANGED cpu
      <3>1. Fits("run", NoOp) /\ "run" \in Labels
        BY DEF Fits, EntryLabels, Labels
      <3>2. pc' \in [Threads -> Labels] /\ CallShape' /\ op' \in [Threads -> Op]
        BY <2>2, <3>1, Moved, OpNone
      <3> QED BY <1>8, <2>2, <3>2 DEF Resume
    <2> QED BY <1>8, <2>1, <2>2 DEF Resume
  <1> QED BY <1>1, <1>2, <1>3, <1>4, <1>5, <1>6, <1>7, <1>8 DEF Libc

\* Every step keeps the types.
LEMMA StepType == TypeInv /\ [ProbesNext]_pvars => TypeInv'
  <1> SUFFICES ASSUME TypeInv, [ProbesNext]_pvars PROVE TypeInv'
    OBVIOUS
  <1>1. ASSUME NEW t \in Threads, ThreadStep(t) PROVE TypeInv'
    BY <1>1, TypeApp, TypeEntry, TypeTake, TypeFree, TypeEvent DEF ThreadStep, ProbeStep
  <1>2. CASE AttachNext
    <2>1. AttachOrder[nextProbe] \in Programs
      BY <1>2, AttachLength DEF AttachNext, Programs, TypeInv, ProbesTypeOK
    <2>2. attached' \subseteq Programs /\ nextProbe' \in 1 .. Len(AttachOrder) + 1
      BY <1>2, <2>1, AttachLength DEF AttachNext, TypeInv, ProbesTypeOK
    <2> QED BY <1>2, <2>2 DEF AttachNext, TypeInv, ProbesTypeOK, CallShape, app, pendings,
            scratch, tracked
  <1>3. CASE Drain
    <2>1. ring' \in Seq(MemEvent) /\ Len(ring') <= RingCap
      BY <1>3, ProbesAssumption DEF Drain, TypeInv, ProbesTypeOK
    <2> QED BY <1>3, <2>1 DEF Drain, TypeInv, ProbesTypeOK, CallShape, app, attach, pendings,
            scratch, tracked
  <1>4. CASE UNCHANGED pvars
    BY <1>4 DEF pvars, TypeInv, ProbesTypeOK, CallShape
  <1> QED BY <1>1, <1>2, <1>3, <1>4 DEF ProbesNext

(***************************************************************************)
(* The probes' maps, buffers and ring keep their types, and the ring its   *)
(* bound, for any number of threads, CPUs and addresses and whichever      *)
(* programs are attached.                                                  *)
(***************************************************************************)
THEOREM ProbesTypes == ProbesSpec => []ProbesTypeOK
  <1>1. TypeInv => ProbesTypeOK
    BY DEF TypeInv
  <1> QED BY InitType, StepType, <1>1, PTL DEF ProbesSpec

------------------------------------------------------------------------------
(***************************************************************************)
(* One CPU.  tmp_stack_buf and tmp_evt_buf are used by one probe at a time *)
(* only where probes cannot overlap.  There the events are exact.          *)
(***************************************************************************)
OneCpu == \A c, d \in Cpus : c = d

\* A thread holds a CPU while it is in a probe, and no two the same.
CpuInv ==
  /\ \A t \in Threads : cpu[t] # 0 <=> pc[t] \in ProbeLabels
  /\ \A t, u \in Threads : cpu[t] # 0 /\ cpu[t] = cpu[u] => t = u

\* A pending entry is left by a call whose entry probe was attached; what a call
\* finds under its thread's id is its own, or nothing.
PendFits(t) ==
  /\ op[t].sizeVal = op[t].size
  /\ pc[t] = "pend" => <<Fn(t), 0>> \in attached
  /\ \A f \in AllocFns :
       /\ pending[f][t] # Absent => <<f, 0>> \in attached
       /\ Fn(t) = f /\ pc[t] # "pend" /\ pending[f][t] # Absent =>
            pending[f][t].size = op[t].size
PendInv == \A t \in Threads : PendFits(t)

\* The stack buffer belongs to the call that is about to save it.  A saved stack is left
\* by a call whose entry probe was attached; once the entry probe of a later call is past,
\* what it finds under its thread's id is its own.
StackAt(t) ==
  /\ pc[t] \in EntryLabels => <<Fn(t), 0>> \in attached
  /\ pc[t] = "deep" => tmpStack.pcs = CallOf(t)
  /\ pc[t] = "copy" /\ tmpStack.depth > 0 => tmpStack.pcs = CallOf(t)
SavedAt(t) ==
  \A f \in AllocFns : pstack[f][t] # Absent =>
    /\ <<f, 0>> \in attached
    /\ Fn(t) = f /\ pc[t] \notin EntryLabels /\ pstack[f][t].depth > 0 =>
         pstack[f][t].pcs = CallOf(t)
StackInv == \A t \in Threads : StackAt(t) /\ SavedAt(t)

\* The event buffer holds what the probe at work has put there.
EvtAt(t) ==
  /\ pc[t] \in {"header", "body"} => tmpEvt.stack = NoStack /\ tmpEvt.size = 0
  /\ pc[t] \in {"body", "stack", "emit"} =>
       tmpEvt.type = TypeOf(t) /\ tmpEvt.pid = ProcOf[t] /\ tmpEvt.tid = t
  /\ pc[t] \in {"stack", "emit"} => tmpEvt.addr = AddrOf(t) /\ tmpEvt.size = op[t].size
  /\ pc[t] = "emit" => tmpEvt.stack \in {NoStack, CallOf(t)}
EvtInv == \A t \in Threads : EvtAt(t)

OneInv == TypeInv /\ CpuInv /\ PendInv /\ StackInv /\ EvtInv

\* Tracing starts with no probe at work.
LEMMA InitOne == ProbesInit => OneInv
  <1> SUFFICES ASSUME ProbesInit PROVE OneInv
    OBVIOUS
  <1>1. TypeInv
    BY InitType
  <1>2. CpuInv
    BY DEF ProbesInit, CpuInv, ProbeLabels, EntryLabels
  <1>3. PendInv
    BY DEF ProbesInit, PendInv, PendFits, NoOp
  <1>4. StackInv
    BY DEF ProbesInit, StackInv, StackAt, SavedAt, EntryLabels
  <1>5. EvtInv
    BY DEF ProbesInit, EvtInv, EvtAt
  <1> QED BY <1>1, <1>2, <1>3, <1>4, <1>5 DEF OneInv

\* Where a thread's step leaves it and its CPU.
StaysIn(t) ==
  /\ UNCHANGED cpu
  /\ \E l \in Labels : Goto(t, l) /\ (pc[t] \in ProbeLabels <=> l \in ProbeLabels)
Starts(t) == pc[t] \notin ProbeLabels /\ \E l \in ProbeLabels : Enter(t, l)
Ends(t) == pc[t] \in ProbeLabels /\ \E l \in Labels \ ProbeLabels : Leave(t, l)

LEMMA CpuMoves ==
  ASSUME TypeInv, NEW t \in Threads, ThreadStep(t)
  PROVE  StaysIn(t) \/ Starts(t) \/ Ends(t)
  <1> USE DEF StaysIn, Starts, Ends, Labels, ProbeLabels, EntryLabels
  <1>1. CASE CallAlloc(t)
    BY <1>1 DEF CallAlloc, Call
  <1>2. CASE CallFree(t)
    BY <1>2 DEF CallFree, Call
  <1>3. CASE CallMap(t)
    BY <1>3 DEF CallMap, Call
  <1>4. CASE LibcAlloc(t)
    <2>1. pc[t] = "libc" /\ Goto(t, "return") /\ UNCHANGED cpu
      BY <1>4 DEF LibcAlloc, Return
    <2> QED BY <2>1
  <1>5. CASE LibcRealloc(t)
    <2>1. pc[t] = "libc" /\ Goto(t, "return") /\ UNCHANGED cpu
      BY <1>5 DEF LibcRealloc, Return
    <2> QED BY <2>1
  <1>6. CASE LibcFree(t) \/ LibcMap(t)
    BY <1>6 DEF LibcFree, LibcMap, Return
  <1>7. CASE Resume(t)
    BY <1>7 DEF Resume
  <1>8. CASE EntryProbe(t)
    <2>1. CASE SavePending(t) \/ ClearStack(t)
      BY <2>1 DEF SavePending, ClearStack, Step
    <2>2. CASE WalkStack(t) \/ SetDepth(t)
      BY <2>2 DEF WalkStack, SetDepth
    <2>3. CASE SaveStack(t)
      BY <2>3 DEF SaveStack
    <2> QED BY <1>8, <2>1, <2>2, <2>3 DEF EntryProbe
  <1>9. CASE TakePending(t)
    <2>1. pc[t] = "take" /\ (Leave(t, "run") \/ (Goto(t, "memset") /\ UNCHANGED cpu))
      BY <1>9 DEF TakePending
    <2> QED BY <2>1
  <1>10. CASE FreeProbe(t)
    BY <1>10 DEF FreeProbe, Untrack, DeleteActive, Step
  <1>11. CASE EventSteps(t)
    BY <1>11 DEF EventSteps, ClearEvt, FillHeader, FillBody, FillStack, Emit, Step
  <1> QED BY <1>1, <1>2, <1>3, <1>4, <1>5, <1>6, <1>7, <1>8, <1>9, <1>10, <1>11
          DEF ThreadStep, Libc, ProbeStep

\* A CPU runs one probe at a time.
LEMMA StepCpu == TypeInv /\ CpuInv /\ [ProbesNext]_pvars => CpuInv'
  <1> SUFFICES ASSUME TypeInv, CpuInv, [ProbesNext]_pvars PROVE CpuInv'
    OBVIOUS
  <1> USE DEF TypeInv, ProbesTypeOK, CpuInv
  <1>1. ASSUME NEW t \in Threads, ThreadStep(t) PROVE CpuInv'
    <2>1. CASE StaysIn(t)
      BY <2>1 DEF StaysIn, Goto
    <2>2. CASE Starts(t)
      BY <2>2, ProbesAssumption DEF Starts, Enter, Goto
    <2>3. CASE Ends(t)
      BY <2>3 DEF Ends, Leave, Goto
    <2> QED BY <1>1, <2>1, <2>2, <2>3, CpuMoves
  <1>2. CASE AttachNext \/ Drain \/ UNCHANGED pvars
    BY <1>2 DEF AttachNext, Drain, pvars
  <1> QED BY <1>1, <1>2 DEF ProbesNext

\* With one CPU, a thread in a probe is the only one.
LEMMA Alone ==
  ASSUME OneCpu, TypeInv, CpuInv, NEW t \in Threads, NEW u \in Threads,
         pc[t] \in ProbeLabels, pc[u] \in ProbeLabels
  PROVE  t = u
  BY DEF OneCpu, TypeInv, ProbesTypeOK, CpuInv

\* What a step of thread t leaves alone: every other thread's place, call and entries.
Own(t) ==
  /\ UNCHANGED attached
  /\ \A u \in Threads \ {t} :
       /\ pc'[u] = pc[u] /\ op'[u] = op[u] /\ calls'[u] = calls[u]
       /\ \A f \in AllocFns : pending'[f][u] = pending[f][u] /\ pstack'[f][u] = pstack[f][u]

LEMMA StepOwn ==
  ASSUME TypeInv, NEW t \in Threads, ThreadStep(t)
  PROVE  Own(t)
  <1> USE DEF TypeInv, ProbesTypeOK, Own, Goto, app, attach, pendings, scratch, tracked
  <1>1. CASE CallAlloc(t)
    BY <1>1 DEF CallAlloc, Call, Enter
  <1>2. CASE CallFree(t)
    BY <1>2 DEF CallFree, Call, Enter
  <1>3. CASE CallMap(t)
    BY <1>3 DEF CallMap, Call, Enter
  <1>4. ASSUME NEW r, Return(t, r) PROVE Own(t)
    BY <1>4 DEF Return
  <1>5. CASE LibcAlloc(t)
    BY <1>4, <1>5 DEF LibcAlloc
  <1>6. CASE LibcRealloc(t)
    BY <1>4, <1>6 DEF LibcRealloc
  <1>7. CASE LibcFree(t) \/ LibcMap(t)
    BY <1>4, <1>7 DEF LibcFree, LibcMap
  <1>8. CASE Resume(t)
    BY <1>8 DEF Resume, Enter
  <1>9. CASE SavePending(t)
    <2>1. Fn(t) \in AllocFns
      BY <1>9, HereFits DEF SavePending, Step, Fits, EntryLabels, Fn
    <2>2. \A u \in Threads \ {t} :
            Update(pending[Fn(t)], t, [size |-> op[t].size], PendingCap)[u] = pending[Fn(t)][u]
      BY <2>1 DEF Update, MapOf
    <2> QED BY <1>9, <2>1, <2>2 DEF SavePending, Step
  <1>10. CASE ClearStack(t) \/ WalkStack(t) \/ SetDepth(t)
    BY <1>10 DEF ClearStack, WalkStack, SetDepth, Step
  <1>11. CASE SaveStack(t)
    <2>1. Fn(t) \in AllocFns
      BY <1>11, HereFits DEF SaveStack, Fits, EntryLabels, Fn
    <2>2. \A u \in Threads \ {t} :
            Update(pstack[Fn(t)], t, tmpStack, PendingCap)[u] = pstack[Fn(t)][u]
      BY <2>1 DEF Update, MapOf
    <2> QED BY <1>11, <2>1, <2>2 DEF SaveStack, Leave
  <1>12. CASE TakePending(t)
    <2>1. UNCHANGED pending \/ pending' = [pending EXCEPT ![Fn(t)][t] = Absent]
      BY <1>12 DEF TakePending
    <2>2. \A u \in Threads \ {t} : pc'[u] = pc[u] /\ op'[u] = op[u]
      BY <1>12 DEF TakePending, Leave
    <2>3. \A u \in Threads \ {t}, f \in AllocFns : pending'[f][u] = pending[f][u]
      <3>1. CASE UNCHANGED pending
        BY <3>1
      <3>2. CASE pending' = [pending EXCEPT ![Fn(t)][t] = Absent]
        <4> USE DEF MapOf
        <4>1. TAKE u \in Threads \ {t}, f \in AllocFns
        <4>2. pending[f] \in [Threads -> [size: Sizes] \cup {Absent}]
          OBVIOUS
        <4>3. pending'[f] = IF f = Fn(t) THEN [pending[f] EXCEPT ![t] = Absent] ELSE pending[f]
          BY <3>2
        <4> QED BY <4>2, <4>3
      <3> QED BY <2>1, <3>1, <3>2
    <2>4. UNCHANGED <<attached, calls, pstack>>
      BY <1>12 DEF TakePending
    <2> QED BY <2>2, <2>3, <2>4
  <1>13. CASE FreeProbe(t)
    BY <1>13 DEF FreeProbe, Untrack, DeleteActive, Step, Leave
  <1>14. CASE EventSteps(t)
    BY <1>14 DEF EventSteps, ClearEvt, FillHeader, FillBody, FillStack, Emit, Step, Leave, MapOf
  <1> QED BY <1>1, <1>2, <1>3, <1>5, <1>6, <1>7, <1>8, <1>9, <1>10, <1>11, <1>12, <1>13, <1>14
          DEF ThreadStep, Libc, ProbeStep, EntryProbe

\* A call starts: what its function's map still holds will be overwritten first.
LEMMA PendCall ==
  ASSUME TypeInv, PendInv, NEW t \in Threads,
         CallAlloc(t) \/ CallFree(t) \/ CallMap(t)
  PROVE  PendFits(t)'
  <1> USE DEF TypeInv, ProbesTypeOK, attach, pendings
  <1>1. ASSUME NEW f, NEW s, NEW p, NEW l, Call(t, f, s, p, l), f \in AllocFns => l = "pend",
               l = "pend" => f \in AllocFns
        PROVE  PendFits(t)'
    <2>1. op'[t].sizeVal = s /\ op'[t].size = s /\ op'[t].fn = f
      BY <1>1 DEF Call
    <2>2. UNCHANGED <<attached, pending>>
      BY <1>1 DEF Call
    <2>3. \/ <<f, 0>> \in attached /\ pc'[t] = l
          \/ <<f, 0>> \notin attached /\ pc'[t] = "libc"
      BY <1>1 DEF Call, Enter, Goto
    <2> QED BY <1>1, <2>1, <2>2, <2>3 DEF PendInv, PendFits, Fn
  <1>2. CASE CallAlloc(t)
    BY <1>1, <1>2 DEF CallAlloc, AllocFns
  <1>3. CASE CallFree(t)
    BY <1>1, <1>3 DEF CallFree, AllocFns
  <1>4. CASE CallMap(t)
    BY <1>1, <1>4 DEF CallMap, AllocFns, MapFns
  <1> QED BY <1>2, <1>3, <1>4

\* A thread that leaves its call, or moves on with its call and entries as they are.
LEMMA PendKept ==
  ASSUME TypeInv, PendInv, NEW t \in Threads, UNCHANGED <<attached, pending>>,
         \/ op'[t] = NoOp /\ pc'[t] = "run"
         \/ /\ pc[t] # "pend" /\ pc'[t] # "pend"
            /\ op'[t].fn = op[t].fn /\ op'[t].size = op[t].size /\ op'[t].sizeVal = op[t].sizeVal
  PROVE  PendFits(t)'
  <1>1. PendFits(t)
    BY DEF PendInv
  <1>2. CASE op'[t] = NoOp /\ pc'[t] = "run"
    BY <1>1, <1>2 DEF PendFits, Fn, NoOp, AllocFns
  <1>3. CASE op'[t].fn = op[t].fn /\ op'[t].size = op[t].size /\ op'[t].sizeVal = op[t].sizeVal
    BY <1>1, <1>3, <1>2 DEF PendFits, Fn
  <1> QED BY <1>2, <1>3

\* The sizes that the return probes work with are the calls' own.
LEMMA StepPend == TypeInv /\ PendInv /\ [ProbesNext]_pvars => PendInv'
  <1> SUFFICES ASSUME TypeInv, PendInv, [ProbesNext]_pvars PROVE PendInv'
    OBVIOUS
  <1> USE DEF TypeInv, ProbesTypeOK, app, attach, pendings, scratch, tracked
  <1>1. ASSUME NEW t \in Threads, ThreadStep(t) PROVE PendInv'
    <2>1. ASSUME NEW u \in Threads \ {t} PROVE PendFits(u)'
      <3>1. /\ pc'[u] = pc[u] /\ op'[u] = op[u] /\ attached' = attached
            /\ \A f \in AllocFns : pending'[f][u] = pending[f][u]
        BY <1>1, StepOwn DEF Own
      <3>2. PendFits(u)
        BY DEF PendInv
      <3> HIDE DEF TypeInv, ProbesTypeOK
      <3> QED BY <3>1, <3>2 DEF PendFits, Fn
    <2>2. PendFits(t)'
      <3>1. CASE CallAlloc(t) \/ CallFree(t) \/ CallMap(t)
        BY <3>1, PendCall
      <3>2. ASSUME NEW r, Return(t, r), pc[t] = "libc" PROVE PendFits(t)'
        <4>1. /\ op'[t].fn = op[t].fn /\ op'[t].size = op[t].size /\ op'[t].sizeVal = op[t].sizeVal
              /\ pc'[t] = "return" /\ UNCHANGED <<attached, pending>>
          <5>1. op[t] \in Op /\ op[t] # NoOp
            BY <3>2, HereFits DEF Fits
          <5>2. [op[t] EXCEPT !.ret = r, !.done = TRUE].sizeVal = op[t].sizeVal
                /\ [op[t] EXCEPT !.ret = r, !.done = TRUE].size = op[t].size
                /\ [op[t] EXCEPT !.ret = r, !.done = TRUE].fn = op[t].fn
            BY <5>1 DEF Op, AllocOp, MapOp, FreeOp
          <5> QED BY <3>2, <5>2 DEF Return, Goto
        <4> QED BY <3>2, <4>1, PendKept
      <3>3. CASE Libc(t)
        BY <3>2, <3>3, PendKept
        DEF Libc, LibcAlloc, LibcRealloc, LibcFree, LibcMap, Resume, Goto, Enter
      <3>4. CASE SavePending(t)
        <4>1. Fn(t) \in AllocFns /\ pc[t] = "pend" /\ pc'[t] = "clear"
          BY <3>4, HereFits DEF SavePending, Step, Goto, Fits, EntryLabels, Fn
        <4>2. UNCHANGED <<op, attached>>
          BY <3>4 DEF SavePending
        <4> DEFINE m == pending[Fn(t)]
                   v == [size |-> op[t].size]
                   new == Update(m, t, v, PendingCap)
        <4>3. new[t] \in {m[t], v} /\ (m[t] # Absent => new[t] = v)
          <5>1. m \in [Threads -> [size: Sizes] \cup {Absent}]
            BY <4>1 DEF MapOf
          <5> QED BY <5>1 DEF Update
        <4>4. pending' = [pending EXCEPT ![Fn(t)] = new]
          BY <3>4 DEF SavePending
        <4>5. v.size = op[t].size
          OBVIOUS
        <4> HIDE DEF m, v, new
        <4>6. \A f \in AllocFns : pending'[f][t] = IF f = Fn(t) THEN new[t] ELSE pending[f][t]
          BY <4>4
        <4>7. m[t] = pending[Fn(t)][t]
          BY DEF m
        <4> QED BY <4>1, <4>2, <4>3, <4>5, <4>6, <4>7 DEF PendInv, PendFits, Fn
      <3>5. CASE ClearStack(t) \/ WalkStack(t) \/ SetDepth(t) \/ SaveStack(t)
        <4>1. /\ pc[t] # "pend" /\ pc'[t] # "pend" /\ UNCHANGED <<op, attached, pending>>
          BY <3>5 DEF ClearStack, WalkStack, SetDepth, SaveStack, Step, Goto, Leave
        <4> QED BY <4>1, PendKept
      <3>6. CASE TakePending(t)
        <4> DEFINE p == pending[Fn(t)][t]
        <4>1. pc[t] = "take" /\ Fn(t) \in AllocFns
          BY <3>6, HereFits DEF TakePending, Fits, Fn
        <4>2. CASE op[t].ret = 0 \/ p = Absent
          <5>1. op'[t] = NoOp /\ pc'[t] = "run" /\ UNCHANGED <<attached, pending>>
            BY <3>6, <4>2 DEF TakePending, Leave, Goto
          <5> QED BY <5>1, PendKept
        <4>3. CASE op[t].ret # 0 /\ p # Absent
          <5>1. /\ pending' = [pending EXCEPT ![Fn(t)][t] = Absent]
                /\ op' = [op EXCEPT ![t].sizeVal = p.size]
                /\ pc'[t] = "memset" /\ UNCHANGED attached
            BY <3>6, <4>3 DEF TakePending, Goto
          <5>2. p.size = op[t].size
            BY <4>1, <4>3 DEF PendInv, PendFits
          <5>3. op'[t].sizeVal = op[t].size /\ op'[t].size = op[t].size /\ op'[t].fn = op[t].fn
            <6>1. op[t] \in Op /\ op[t].fn \in AllocFns /\ op[t].size \in Sizes
              BY <4>1, HereFits DEF Fn
            <6>2. op'[t] = [op[t] EXCEPT !.sizeVal = op[t].size]
              BY <5>1, <5>2
            <6> QED BY <6>1, <6>2, OpSizeVal
          <5>4. \A f \in AllocFns : pending'[f][t] = IF f = Fn(t) THEN Absent ELSE pending[f][t]
            BY <4>1, <5>1 DEF MapOf
          <5> QED BY <4>1, <5>1, <5>3, <5>4 DEF PendInv, PendFits, Fn
        <4> QED BY <4>2, <4>3
      <3>7. CASE FreeProbe(t)
        <4>1. /\ pc[t] # "pend" /\ pc'[t] # "pend" /\ UNCHANGED <<op, attached, pending>>
          BY <3>7 DEF FreeProbe, Untrack, DeleteActive, Step, Goto, Leave
        <4> QED BY <4>1, PendKept
      <3>8. CASE EventSteps(t)
        <4>1. /\ UNCHANGED <<attached, pending>>
              /\ \/ op'[t] = NoOp /\ pc'[t] = "run"
                 \/ pc[t] # "pend" /\ pc'[t] # "pend" /\ UNCHANGED op
          BY <3>8 DEF EventSteps, ClearEvt, FillHeader, FillBody, FillStack, Emit, Step, Goto, Leave
        <4> QED BY <4>1, PendKept
      <3> QED BY <1>1, <3>1, <3>3, <3>4, <3>5, <3>6, <3>7, <3>8
              DEF ThreadStep, ProbeStep, EntryProbe
    <2> QED BY <2>1, <2>2 DEF PendInv
  <1>2. CASE AttachNext
    <2>1. attached \subseteq attached' /\ UNCHANGED <<pc, op, pending>>
      BY <1>2 DEF AttachNext
    <2> QED BY <2>1 DEF PendInv, PendFits, Fn
  <1>3. CASE Drain \/ UNCHANGED pvars
    BY <1>3 DEF Drain, pvars, PendInv, PendFits, Fn
  <1> QED BY <1>1, <1>2, <1>3 DEF ProbesNext

StackLabels == {"deep", "copy"}
EvtLabels == {"header", "body", "stack", "emit"}

\* A step outside the probes leaves the buffers and the saved stacks alone.
LEMMA StepOutside ==
  ASSUME TypeInv, NEW t \in Threads, ThreadStep(t), pc[t] \notin ProbeLabels
  PROVE  UNCHANGED <<tmpStack, tmpEvt, pstack>> /\ pc'[t] \notin StackLabels \cup EvtLabels
  <1> USE DEF TypeInv, ProbesTypeOK, attach, pendings, scratch, Goto, StackLabels, EvtLabels
  <1>1. CASE CallAlloc(t) \/ CallFree(t) \/ CallMap(t)
    BY <1>1 DEF CallAlloc, CallFree, CallMap, Call, Enter
  <1>2. CASE Libc(t)
    BY <1>2 DEF Libc, LibcAlloc, LibcRealloc, LibcFree, LibcMap, Return, Resume, Enter
  <1>3. ~ProbeStep(t)
    BY DEF ProbeStep, EntryProbe, FreeProbe, EventSteps, SavePending, ClearStack, WalkStack,
           SetDepth, SaveStack, TakePending, Untrack, DeleteActive, ClearEvt, FillHeader,
           FillBody, FillStack, Emit, Step, ProbeLabels, EntryLabels
  <1> QED BY <1>1, <1>2, <1>3 DEF ThreadStep

\* Of the steps inside, these do not end where a buffer's contents matter.
LEMMA StepInside ==
  ASSUME TypeInv, NEW t \in Threads, 
         SavePending(t) \/ ClearStack(t) \/ TakePending(t) \/ FreeProbe(t)
  PROVE  UNCHANGED <<tmpEvt, pstack>> /\ pc'[t] \notin StackLabels \cup EvtLabels
  BY DEF TypeInv, ProbesTypeOK, attach, pendings, scratch, Goto, StackLabels, EvtLabels,
         SavePending, ClearStack, TakePending, FreeProbe, Untrack, DeleteActive, Step, Leave

\* A call starts: what its function's map still holds will be overwritten first.
LEMMA StackCall ==
  ASSUME TypeInv, StackInv, NEW t \in Threads,
         CallAlloc(t) \/ CallFree(t) \/ CallMap(t)
  PROVE  StackAt(t)' /\ SavedAt(t)'
  <1> USE DEF TypeInv, ProbesTypeOK, attach, pendings
  <1>1. ASSUME NEW f, NEW s, NEW p, NEW l, Call(t, f, s, p, l),
               f \in AllocFns => l = "pend",
               l \in {"pend", "memset", "untrack"}
        PROVE  StackAt(t)' /\ SavedAt(t)'
    <2>1. op'[t].fn = f /\ UNCHANGED <<attached, pstack>>
      BY <1>1 DEF Call
    <2>2. \/ <<f, 0>> \in attached /\ pc'[t] = l
          \/ <<f, 0>> \notin attached /\ pc'[t] = "libc"
      BY <1>1 DEF Call, Enter, Goto
    <2>3. \A g \in AllocFns : pstack[g][t] # Absent => <<g, 0>> \in attached
      BY DEF StackInv, SavedAt
    <2> QED BY <1>1, <2>1, <2>2, <2>3 DEF StackAt, SavedAt, Fn, EntryLabels
  <1>2. CASE CallAlloc(t)
    BY <1>1, <1>2 DEF CallAlloc
  <1>3. CASE CallFree(t)
    BY <1>1, <1>3 DEF CallFree, AllocFns
  <1>4. CASE CallMap(t)
    BY <1>1, <1>4 DEF CallMap, AllocFns, MapFns
  <1> QED BY <1>2, <1>3, <1>4

\* A thread that leaves its call, or moves on past its entry probe with its stacks as
\* they are.
LEMMA StackKept ==
  ASSUME TypeInv, StackInv, NEW t \in Threads, UNCHANGED <<attached, calls, pstack>>,
         pc'[t] \notin EntryLabels,
         \/ op'[t] = NoOp
         \/ pc[t] \notin EntryLabels /\ op'[t].fn = op[t].fn
  PROVE  StackAt(t)' /\ SavedAt(t)'
  <1>1. SavedAt(t)
    BY DEF StackInv
  <1>2. CASE op'[t] = NoOp
    BY <1>1, <1>2 DEF StackAt, SavedAt, Fn, NoOp, AllocFns, EntryLabels
  <1>3. CASE pc[t] \notin EntryLabels /\ op'[t].fn = op[t].fn
    BY <1>1, <1>3 DEF StackAt, SavedAt, Fn, CallOf, EntryLabels
  <1> QED BY <1>2, <1>3

\* The entry probe at work.
LEMMA StackEntry ==
  ASSUME TypeInv, StackInv, NEW t \in Threads, EntryProbe(t)
  PROVE  StackAt(t)' /\ SavedAt(t)'
  <1> USE DEF TypeInv, ProbesTypeOK, app, attach, pendings, scratch, Goto, EntryLabels
  <1>1. StackAt(t) /\ SavedAt(t)
    BY DEF StackInv
  <1>2. CASE SavePending(t) \/ ClearStack(t)
    <2>1. /\ pc[t] \in {"pend", "clear"} /\ pc'[t] \in {"clear", "walk"}
          /\ UNCHANGED <<op, attached, pstack>>
      BY <1>2 DEF SavePending, ClearStack, Step
    <2> QED BY <1>1, <2>1 DEF StackAt, SavedAt, Fn
  <1>3. CASE WalkStack(t)
    <2>1. /\ pc[t] = "walk" /\ UNCHANGED <<op, calls, attached, pstack>>
          /\ \/ pc'[t] = "deep" /\ tmpStack'.pcs = CallOf(t)
             \/ pc'[t] = "flat"
      BY <1>3 DEF WalkStack, StackValue
    <2> QED BY <1>1, <2>1 DEF StackAt, SavedAt, Fn, CallOf
  <1>4. CASE SetDepth(t)
    <2>1. /\ pc[t] \in {"deep", "flat"} /\ pc'[t] = "copy"
          /\ UNCHANGED <<op, calls, attached, pstack>>
          /\ tmpStack'.pcs = tmpStack.pcs /\ (pc[t] = "flat" => tmpStack'.depth = 0)
      BY <1>4 DEF SetDepth, StackValue
    <2> QED BY <1>1, <2>1 DEF StackAt, SavedAt, Fn, CallOf
  <1>5. CASE SaveStack(t)
    <2>1. /\ Fn(t) \in AllocFns /\ pc[t] = "copy" /\ pc'[t] \in {"memset", "libc"}
          /\ UNCHANGED <<op, calls, attached>>
      BY <1>5, HereFits DEF SaveStack, Fits, Fn, Leave
    <2> DEFINE m == pstack[Fn(t)]
               new == Update(m, t, tmpStack, PendingCap)
    <2>2. new[t] \in {m[t], tmpStack} /\ (m[t] # Absent => new[t] = tmpStack)
      <3>1. m \in [Threads -> StackValue \cup {Absent}]
        BY <2>1 DEF MapOf
      <3> QED BY <3>1 DEF Update
    <2>3. pstack' = [pstack EXCEPT ![Fn(t)] = new]
      BY <1>5 DEF SaveStack
    <2>4. m[t] = pstack[Fn(t)][t]
      OBVIOUS
    <2> HIDE DEF m, new
    <2>5. \A f \in AllocFns : pstack'[f][t] = IF f = Fn(t) THEN new[t] ELSE pstack[f][t]
      BY <2>3
    <2>6. new[t] # Absent => new[t] = tmpStack
      BY <2>2
    <2>7. <<Fn(t), 0>> \in attached /\ (tmpStack.depth > 0 => tmpStack.pcs = CallOf(t))
      BY <1>1, <2>1 DEF StackAt
    <2> QED BY <1>1, <2>1, <2>5, <2>6, <2>7 DEF StackAt, SavedAt, Fn, CallOf
  <1> QED BY <1>2, <1>3, <1>4, <1>5 DEF EntryProbe

\* A stack is its call's.
LEMMA StepStack ==
  OneCpu /\ TypeInv /\ CpuInv /\ StackInv /\ [ProbesNext]_pvars => StackInv'
  <1> SUFFICES ASSUME OneCpu, TypeInv, CpuInv, StackInv, [ProbesNext]_pvars PROVE StackInv'
    OBVIOUS
  <1>1. ASSUME NEW t \in Threads, ThreadStep(t) PROVE StackInv'
    <2>1. ASSUME NEW u \in Threads \ {t} PROVE StackAt(u)' /\ SavedAt(u)'
      <3>1. /\ pc'[u] = pc[u] /\ op'[u] = op[u] /\ calls'[u] = calls[u] /\ attached' = attached
            /\ \A f \in AllocFns : pstack'[f][u] = pstack[f][u]
        BY <1>1, StepOwn DEF Own
      <3>2. SavedAt(u)'
        BY <3>1 DEF StackInv, SavedAt, Fn, CallOf
      <3>3. CASE pc[u] \in StackLabels
        <4>1. pc[t] \notin ProbeLabels
          BY <3>3, Alone DEF StackLabels, ProbeLabels, EntryLabels
        <4>2. UNCHANGED tmpStack
          BY <1>1, <4>1, StepOutside
        <4> QED BY <3>1, <3>2, <4>2 DEF StackInv, StackAt, Fn, CallOf
      <3>4. CASE pc[u] \notin StackLabels
        BY <3>1, <3>2, <3>4 DEF StackInv, StackAt, StackLabels, Fn
      <3> QED BY <3>3, <3>4
    <2>2. StackAt(t)' /\ SavedAt(t)'
      <3> USE DEF TypeInv, ProbesTypeOK, app, attach, pendings, scratch, Goto
      <3>1. CASE CallAlloc(t) \/ CallFree(t) \/ CallMap(t)
        BY <3>1, StackCall
      <3>2. ASSUME NEW r, Return(t, r), pc[t] = "libc" PROVE StackAt(t)' /\ SavedAt(t)'
        <4>1. op'[t].fn = op[t].fn /\ pc'[t] = "return" /\ UNCHANGED <<attached, calls, pstack>>
          <5>1. op[t] \in Op /\ op[t] # NoOp
            BY <3>2, HereFits DEF Fits
          <5>2. [op[t] EXCEPT !.ret = r, !.done = TRUE].fn = op[t].fn
            BY <5>1 DEF Op, AllocOp, MapOp, FreeOp
          <5> QED BY <3>2, <5>2 DEF Return
        <4> QED BY <3>2, <4>1, StackKept DEF EntryLabels
      <3>3. CASE Resume(t)
        <4>1. /\ pc[t] = "return" /\ pc'[t] \in {"take", "run"}
              /\ op'[t] = NoOp \/ UNCHANGED op
              /\ UNCHANGED <<attached, calls, pstack>>
          BY <3>3 DEF Resume, Enter
        <4> QED BY <4>1, StackKept DEF EntryLabels
      <3>4. CASE Libc(t)
        BY <3>2, <3>3, <3>4 DEF Libc, LibcAlloc, LibcRealloc, LibcFree, LibcMap
      <3>5. CASE EntryProbe(t)
        BY <3>5, StackEntry
      <3>6. CASE TakePending(t)
        <4>1. pc[t] = "take" /\ pc'[t] \in {"run", "memset"} /\ UNCHANGED <<attached, calls, pstack>>
          BY <3>6 DEF TakePending, Leave
        <4>2. op'[t] = NoOp \/ op'[t].fn = op[t].fn
          <5>1. op[t] \in Op /\ op[t].fn \in AllocFns
            BY <4>1, HereFits DEF Fits
          <5>2. ASSUME NEW s PROVE [op[t] EXCEPT !.sizeVal = s].fn = op[t].fn
            BY <5>1 DEF Op, AllocOp, MapOp, FreeOp, NoOp
          <5>3. \/ op' = [op EXCEPT ![t] = NoOp]
                \/ op' = [op EXCEPT ![t].sizeVal = pending[Fn(t)][t].size]
            BY <3>6 DEF TakePending
          <5>4. op'[t] = NoOp \/ op'[t] = [op[t] EXCEPT !.sizeVal = pending[Fn(t)][t].size]
            BY <5>3
          <5> QED BY <5>2, <5>4
        <4> QED BY <4>1, <4>2, StackKept DEF EntryLabels
      <3>7. CASE FreeProbe(t)
        <4>1. /\ pc[t] \notin EntryLabels /\ pc'[t] \notin EntryLabels
              /\ UNCHANGED <<op, attached, calls, pstack>>
          BY <3>7 DEF FreeProbe, Untrack, DeleteActive, Step, Leave, EntryLabels
        <4> QED BY <4>1, StackKept
      <3>8. CASE ClearEvt(t) \/ FillHeader(t) \/ FillBody(t) \/ Emit(t)
        <4>1. /\ pc[t] \notin EntryLabels /\ pc'[t] \notin EntryLabels
              /\ op'[t] = NoOp \/ UNCHANGED op
              /\ UNCHANGED <<attached, calls, pstack>>
          BY <3>8 DEF ClearEvt, FillHeader, FillBody, Emit, Step, Leave, EntryLabels
        <4> QED BY <4>1, StackKept
      <3>9. CASE FillStack(t)
        <4>1. /\ Fn(t) \in AllocFns /\ pc[t] = "stack" /\ pc'[t] = "emit"
              /\ UNCHANGED <<op, attached, calls>>
          BY <3>9, HereFits DEF FillStack, Step, Fits, Fn
        <4>2. pstack' = [pstack EXCEPT ![Fn(t)][t] = Absent]
          BY <3>9 DEF FillStack
        <4>3. \A f \in AllocFns : pstack'[f][t] = IF f = Fn(t) THEN Absent ELSE pstack[f][t]
          BY <4>1, <4>2 DEF MapOf
        <4>4. SavedAt(t)
          BY DEF StackInv
        <4> QED BY <4>1, <4>3, <4>4 DEF StackAt, SavedAt, Fn, CallOf, EntryLabels
      <3> QED BY <1>1, <3>1, <3>4, <3>5, <3>6, <3>7, <3>8, <3>9
              DEF ThreadStep, ProbeStep, EventSteps
    <2> QED BY <2>1, <2>2 DEF StackInv
  <1>2. CASE AttachNext
    <2>1. attached \subseteq attached' /\ UNCHANGED <<pc, op, calls, tmpStack, pstack>>
      BY <1>2 DEF AttachNext, app, pendings, scratch
    <2> QED BY <2>1 DEF StackInv, StackAt, SavedAt, Fn, CallOf
  <1>3. CASE Drain \/ UNCHANGED pvars
    BY <1>3 DEF Drain, pvars, app, attach, pendings, scratch, StackInv, StackAt, SavedAt, Fn, CallOf
  <1> QED BY <1>1, <1>2, <1>3 DEF ProbesNext

\* An event is its thread's, as far as it is filled.
LEMMA StepEvt ==
  OneCpu /\ OneInv /\ [ProbesNext]_pvars => EvtInv'
  <1> SUFFICES ASSUME OneCpu, OneInv, [ProbesNext]_pvars PROVE EvtInv'
    OBVIOUS
  <1> USE DEF OneInv
  <1>1. ASSUME NEW t \in Threads, ThreadStep(t) PROVE EvtInv'
    <2>1. ASSUME NEW u \in Threads \ {t} PROVE EvtAt(u)'
      <3>1. pc'[u] = pc[u] /\ op'[u] = op[u] /\ calls'[u] = calls[u]
        BY <1>1, StepOwn DEF Own
      <3>2. CASE pc[u] \in EvtLabels
        <4>1. pc[t] \notin ProbeLabels
          BY <3>2, Alone DEF EvtLabels, ProbeLabels, EntryLabels
        <4>2. UNCHANGED tmpEvt
          BY <1>1, <4>1, StepOutside
        <4> QED BY <3>1, <4>2 DEF EvtInv, EvtAt, TypeOf, AddrOf, Fn, CallOf
      <3>3. CASE pc[u] \notin EvtLabels
        BY <3>1, <3>3 DEF EvtAt, EvtLabels
      <3> QED BY <3>2, <3>3
    <2>2. EvtAt(t)'
      <3> USE DEF TypeInv, ProbesTypeOK, app, attach, pendings, scratch, Goto, EvtLabels
      <3>1. CASE pc[t] \notin ProbeLabels
        BY <1>1, <3>1, StepOutside DEF EvtAt
      <3>2. CASE SavePending(t) \/ ClearStack(t) \/ TakePending(t) \/ FreeProbe(t)
        BY <3>2, StepInside DEF EvtAt
      <3>3. CASE WalkStack(t) \/ SetDepth(t) \/ SaveStack(t) \/ Emit(t)
        <4>1. pc'[t] \notin EvtLabels
          BY <3>3 DEF WalkStack, SetDepth, SaveStack, Emit, Leave
        <4> QED BY <4>1 DEF EvtAt
      <3>4. CASE ClearEvt(t)
        BY <3>4 DEF ClearEvt, Step, EvtAt, ZeroEvt
      <3>5. CASE FillHeader(t)
        <4>1. pc[t] = "header" /\ pc'[t] = "body" /\ UNCHANGED op
          BY <3>5 DEF FillHeader, Step
        <4>2. tmpEvt' = [tmpEvt EXCEPT !.type = TypeOf(t), !.pid = ProcOf[t], !.tid = t]
          BY <3>5 DEF FillHeader
        <4>3. TypeOf(t)' = TypeOf(t)
          BY <4>1 DEF TypeOf, Fn
        <4> QED BY <4>1, <4>2, <4>3 DEF EvtInv, EvtAt, MemEvent
      <3>6. CASE FillBody(t)
        <4>1. pc[t] = "body" /\ pc'[t] \in {"stack", "emit"} /\ UNCHANGED op
          BY <3>6 DEF FillBody, Step
        <4> DEFINE size == IF Fn(t) = "free" THEN tmpEvt.size ELSE op[t].sizeVal
        <4>2. tmpEvt' = [tmpEvt EXCEPT !.addr = AddrOf(t), !.size = size]
          BY <3>6 DEF FillBody
        <4>3. TypeOf(t)' = TypeOf(t) /\ AddrOf(t)' = AddrOf(t)
          BY <4>1 DEF TypeOf, AddrOf, Fn
        <4>4. op[t].sizeVal = op[t].size
          BY DEF PendInv, PendFits
        <4>5. tmpEvt.size = 0
          BY <4>1 DEF EvtInv, EvtAt
        <4>6. Fn(t) = "free" => op[t].size = 0
          BY OpFields DEF Fn
        <4>7. size = op[t].size
          BY <4>4, <4>5, <4>6
        <4> HIDE DEF size
        <4> QED BY <4>7, <4>1, <4>2, <4>3, <4>4 DEF EvtInv, EvtAt, MemEvent
      <3>7. CASE FillStack(t)
        <4> DEFINE s == pstack[Fn(t)][t]
                   w == IF s # Absent /\ s.depth > 0 THEN s.pcs ELSE NoStack
        <4>1. pc[t] = "stack" /\ pc'[t] = "emit" /\ UNCHANGED <<op, calls>>
          BY <3>7 DEF FillStack, Step
        <4>2. Fn(t) \in AllocFns
          BY <4>1, HereFits DEF Fits, Fn
        <4>3. tmpEvt' = [tmpEvt EXCEPT !.stack = w]
          BY <3>7 DEF FillStack
        <4>4. w \in {NoStack, CallOf(t)}
          BY <4>1, <4>2 DEF StackInv, SavedAt, EntryLabels
        <4>5. TypeOf(t)' = TypeOf(t) /\ AddrOf(t)' = AddrOf(t) /\ CallOf(t)' = CallOf(t)
          BY <4>1 DEF TypeOf, AddrOf, Fn, CallOf
        <4> HIDE DEF w
        <4> QED BY <4>1, <4>3, <4>4, <4>5 DEF EvtInv, EvtAt, MemEvent
      <3>8. ProbeStep(t) \/ pc[t] \notin ProbeLabels
        BY <1>1 DEF ThreadStep, CallAlloc, CallFree, CallMap, Call, Libc, LibcAlloc, LibcRealloc,
           LibcFree, LibcMap, Resume, ProbeLabels, EntryLabels
      <3> QED BY <3>1, <3>2, <3>3, <3>4, <3>5, <3>6, <3>7, <3>8
              DEF ProbeStep, EntryProbe, EventSteps
    <2> QED BY <2>1, <2>2 DEF EvtInv
  <1>2. CASE AttachNext \/ Drain \/ UNCHANGED pvars
    BY <1>2 DEF AttachNext, Drain, pvars, app, scratch, EvtInv, EvtAt, TypeOf, AddrOf, Fn, CallOf
  <1> QED BY <1>1, <1>2 DEF ProbesNext

\* The inductive invariant of one CPU.
LEMMA StepOne == OneCpu /\ OneInv /\ [ProbesNext]_pvars => OneInv'
  BY StepType, StepCpu, StepPend, StepStack, StepEvt DEF OneInv

LEMMA OneCpuInvariant == ASSUME OneCpu PROVE ProbesSpec => []OneInv
  <1>1. OneInv /\ [ProbesNext]_pvars => OneInv'
    BY StepOne
  <1> QED BY InitOne, <1>1, PTL DEF ProbesSpec

(***************************************************************************)
(* On one CPU every event handed to the ring is one call's own, for any    *)
(* number of threads and processes, while programs attach or fail to, and  *)
(* however small the pending maps are.                                     *)
(***************************************************************************)
THEOREM EventsAreExact == ASSUME OneCpu PROVE ProbesSpec => []EventExact
  <1>1. OneInv => EventExact
    BY DEF OneInv, EvtInv, EvtAt, EventExact
  <1> QED BY OneCpuInvariant, <1>1, PTL
==============================================================================
