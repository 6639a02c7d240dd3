-------------------------------- MODULE Probes --------------------------------
(***************************************************************************)
(* The BPF programs of memscope.bpf.c and the traced programs that fire    *)
(* them.  A thread calls malloc, calloc, realloc, free, mmap or munmap;    *)
(* the entry probe runs on the calling thread's CPU, then libc executes    *)
(* the call, then the return probe runs.  Each probe is split into steps   *)
(* at its accesses to memory other probes share: the two one-element ARRAY *)
(* maps tmp_stack_buf and tmp_evt_buf (one buffer for all CPUs), the hash  *)
(* map active_allocs / completed_allocs keyed by address, the ring buffer. *)
(*                                                                         *)
(* A stack trace is abstracted to the call it was taken in: the thread and *)
(* the number of its call.  0 is a zeroed word: NULL, no CPU.              *)
(***************************************************************************)
EXTENDS Integers, Sequences, FiniteSets

CONSTANTS Threads,       \* thread ids, positive
          ProcOf,        \* pid of each thread
          Cpus,          \* positive; a CPU runs one probe at a time
          Addrs,         \* block addresses, the same range in every process
          Sizes,         \* requested sizes, positive
          Fns,           \* the libc functions the traced programs call
          Prior,         \* addresses allocated in each process before tracing
          AttachedFirst, \* programs attached before the threads start to run: of the
                       \* first attempts of attach_uprobes those that succeeded
          PendingCap,    \* max_entries of each pending_* map
          ActiveCap,     \* max_entries of active_allocs
          CompletedCap,  \* max_entries of completed_allocs
          RingCap,       \* events the ring buffer holds
          MaxCalls       \* bound: libc calls of each thread

AllocFns == {"malloc", "calloc", "realloc"}
MapFns == {"mmap", "munmap"}
Procs == {ProcOf[t] : t \in Threads}

\* Mutant: free's probe is missing from the table.
AttachOrderWithoutFree ==
  << <<"malloc", 0>>, <<"malloc", 1>>, <<"calloc", 0>>, <<"calloc", 1>>,
     <<"realloc", 0>>, <<"realloc", 1>>, <<"mmap", 0>>, <<"munmap", 0>> >>

\* The programs in the order attach_uprobes attaches them: <<function, retprobe>>.
AttachOrder == << <<"malloc", 0>>, <<"malloc", 1>>, <<"calloc", 0>>, <<"calloc", 1>>,
                  <<"realloc", 0>>, <<"realloc", 1>>, <<"free", 0>>,
                  <<"mmap", 0>>, <<"munmap", 0>> >>
Programs == {AttachOrder[i] : i \in 1 .. Len(AttachOrder)}

ASSUME ProbesAssumption ==
  /\ Threads \subseteq Nat \ {0} /\ Cpus \subseteq Nat \ {0}
  /\ Addrs \subseteq Nat \ {0} /\ Sizes \subseteq Nat \ {0}
  /\ \A t \in Threads : ProcOf[t] \in Nat \ {0} /\ MaxCalls[t] \in Nat
  /\ Fns \subseteq AllocFns \cup MapFns \cup {"free"}
  /\ Prior \subseteq Addrs /\ AttachedFirst \subseteq Programs
  /\ PendingCap \in Nat /\ ActiveCap \in Nat /\ CompletedCap \in Nat
  /\ RingCap \in Nat

VARIABLES pc,         \* where each thread is
          op,         \* the libc call each thread is in: its arguments, its result,
                      \* and size_val, the size the probe works with
          cpu,        \* the CPU whose probe the thread runs, or 0
          calls,      \* calls made, up to MaxCalls[t]
          heap,       \* libc's blocks: heap[p][a], external
          attached,   \* programs attached so far
          nextProbe,  \* i of attach_uprobes, from 1
          pending,    \* pending_mallocs, pending_callocs, pending_reallocs by tid
          pstack,     \* pending_stacks_* by tid
          tmpStack,   \* tmp_stack_buf[0]
          tmpEvt,     \* tmp_evt_buf[0]
          active,     \* active_allocs by address
          completed,  \* completed_allocs by address
          ring        \* events

app == <<op, calls, heap>>
attach == <<attached, nextProbe>>
pendings == <<pending, pstack>>
scratch == <<tmpStack, tmpEvt>>
tracked == <<active, completed>>
pvars == <<pc, op, cpu, calls, heap, attached, nextProbe, pending, pstack,
           tmpStack, tmpEvt, active, completed, ring>>

Absent == [absent |-> TRUE]
NoOp == [fn |-> "none", size |-> 0, ptr |-> 0, ret |-> 0, sizeVal |-> 0,
         hooked |-> FALSE, entered |-> FALSE, done |-> FALSE]
NoStack == <<0, 0>>
ZeroStack == [depth |-> 0, pcs |-> NoStack]
ZeroEvt == [type |-> "ZERO", pid |-> 0, tid |-> 0, addr |-> 0, size |-> 0,
            stack |-> NoStack]
Prehistoric == [size |-> 0, tid |-> 0, traced |-> FALSE]

EventTypes == {"MALLOC_RETURN", "CALLOC_RETURN", "REALLOC_RETURN", "REALLOC_ENTRY",
               "FREE", "MMAP", "MUNMAP"}
Stack == (Threads \X Nat) \cup {NoStack}
MemEvent == [type: EventTypes \cup {"ZERO"}, pid: Procs \cup {0}, tid: Threads \cup {0},
             addr: Addrs \cup {0}, size: Sizes \cup {0}, stack: Stack]
StackValue == [depth: {0, 1}, pcs: Stack]
AllocInfo == [size: Sizes, pid: Nat, tid: Threads]
Block == [size: Sizes, tid: Threads, traced: BOOLEAN] \cup {Prehistoric}
AllocOp == [fn: AllocFns, size: Sizes, sizeVal: Sizes, ptr: Addrs \cup {0},
            ret: Addrs \cup {0}, hooked: BOOLEAN, entered: BOOLEAN, done: BOOLEAN]
MapOp == [fn: MapFns, size: Sizes, sizeVal: Sizes, ptr: {0}, ret: {0},
          hooked: {FALSE}, entered: BOOLEAN, done: BOOLEAN]
FreeOp == [fn: {"free"}, size: {0}, sizeVal: {0}, ptr: Addrs \cup {0}, ret: {0},
           hooked: {FALSE}, entered: BOOLEAN, done: BOOLEAN]
Op == AllocOp \cup MapOp \cup FreeOp \cup {NoOp}

ProbesInit ==
  /\ pc = [t \in Threads |-> "run"]
  /\ op = [t \in Threads |-> NoOp]
  /\ cpu = [t \in Threads |-> 0]
  /\ calls = [t \in Threads |-> 0]
  /\ heap = [p \in Procs |-> [a \in Addrs |->
               IF a \in Prior THEN Prehistoric ELSE Absent]]
  /\ attached = AttachedFirst
  /\ nextProbe \in 1 .. Len(AttachOrder) + 1
  /\ AttachedFirst \subseteq {AttachOrder[i] : i \in 1 .. nextProbe - 1}
  /\ pending = [f \in AllocFns |-> [t \in Threads |-> Absent]]
  /\ pstack = [f \in AllocFns |-> [t \in Threads |-> Absent]]
  /\ tmpStack = ZeroStack
  /\ tmpEvt = ZeroEvt
  /\ active = [a \in Addrs |-> Absent]
  /\ completed = [a \in Addrs |-> Absent]
  /\ ring = <<>>
------------------------------------------------------------------------------
(***************************************************************************)
(* Helpers                                                                 *)
(***************************************************************************)
\* bpf_map_update_elem(BPF_ANY) on a hash map of cap entries: -E2BIG when full.
Update(m, k, v, cap) ==
  IF m[k] # Absent \/ Cardinality({j \in DOMAIN m : m[j] # Absent}) < cap
  THEN [m EXCEPT ![k] = v]
  ELSE m

Goto(t, label) == pc' = [pc EXCEPT ![t] = label]

\* Thread t at label `from`, inside a probe, moves on to `to`.
Step(t, from, to) == pc[t] = from /\ Goto(t, to) /\ UNCHANGED cpu

\* A probe starts on a CPU that runs no other probe; it ends and frees the CPU.
Enter(t, label) ==
  /\ \E c \in Cpus : /\ \A u \in Threads : cpu[u] # c
                     /\ cpu' = [cpu EXCEPT ![t] = c]
  /\ Goto(t, label)
Leave(t, label) == cpu' = [cpu EXCEPT ![t] = 0] /\ Goto(t, label)

Fn(t) == op[t].fn

\* The call thread t is in, or has made last.
CallOf(t) == <<t, calls[t]>>

\* The event a probe is to emit: before libc runs the call, the entry's.
TypeOf(t) ==
  CASE Fn(t) = "malloc"  -> "MALLOC_RETURN"
    [] Fn(t) = "calloc"  -> "CALLOC_RETURN"
    [] Fn(t) = "realloc" -> IF op[t].done THEN "REALLOC_RETURN" ELSE "REALLOC_ENTRY"
    [] Fn(t) = "free"    -> "FREE"
    [] Fn(t) = "mmap"    -> "MMAP"
    [] OTHER             -> "MUNMAP"

\* Addresses thread t may pass to free or realloc: blocks of its process that
\* no call in progress is about to return or has been given.
InUse(p, a) ==
  \E u \in Threads : ProcOf[u] = p /\ pc[u] # "run" /\ a \in {op[u].ptr, op[u].ret}
Owned(t) ==
  {a \in Addrs : heap[ProcOf[t]][a] # Absent /\ ~InUse(ProcOf[t], a)}
------------------------------------------------------------------------------
(***************************************************************************)
(* attach_uprobes: one program after the other, a failure is skipped.      *)
(***************************************************************************)
AttachNext ==
  /\ nextProbe <= Len(AttachOrder)
  /\ nextProbe' = nextProbe + 1
  /\ attached' \in {attached, attached \cup {AttachOrder[nextProbe]}}
  /\ UNCHANGED <<pc, app, cpu, pendings, scratch, tracked, ring>>

(***************************************************************************)
(* The traced program and libc (external).                                 *)
(***************************************************************************)
\* Thread t calls f; its entry probe, when attached, starts at `label`.
\* The kernel hijacks the return address iff the retprobe is attached now.
Call(t, f, size, ptr, label) ==
  /\ pc[t] = "run" /\ f \in Fns /\ calls[t] < MaxCalls[t]
  /\ calls' = [calls EXCEPT ![t] = @ + 1]
  /\ op' = [op EXCEPT ![t] = [fn |-> f, size |-> size, ptr |-> ptr, ret |-> 0,
              sizeVal |-> size, hooked |-> <<f, 1>> \in attached,
              entered |-> <<f, 0>> \in attached,
              done |-> FALSE]]
  /\ \/ <<f, 0>> \in attached /\ Enter(t, label)
     \/ <<f, 0>> \notin attached /\ Goto(t, "libc") /\ UNCHANGED cpu
  /\ UNCHANGED <<heap, attach, pendings, scratch, tracked, ring>>

CallAlloc(t) ==
  \/ \E f \in {"malloc", "calloc"}, s \in Sizes : Call(t, f, s, 0, "pend")
  \/ \E s \in Sizes, a \in Owned(t) : Call(t, "realloc", s, a, "pend")
CallFree(t) == \E a \in Owned(t) \cup {0} : Call(t, "free", 0, a, "untrack")
\* The address of a mapping is no block's: it is abstracted to 0.
CallMap(t) == \E f \in MapFns, s \in Sizes : Call(t, f, s, 0, "memset")

\* libc returns r to thread t: into the return probe if it is hooked.
Return(t, r) ==
  /\ op' = [op EXCEPT ![t].ret = r, ![t].done = TRUE]
  /\ Goto(t, "return")
  /\ UNCHANGED <<cpu, calls, attach, pendings, scratch, tracked, ring>>

\* malloc and calloc: a free address, or NULL.
LibcAlloc(t) ==
  /\ pc[t] = "libc" /\ Fn(t) \in {"malloc", "calloc"}
  /\ \/ \E a \in Addrs :
          /\ heap[ProcOf[t]][a] = Absent
          /\ heap' = [heap EXCEPT ![ProcOf[t]][a] =
               [size |-> op[t].size, tid |-> t, traced |-> op[t].entered /\ op[t].hooked]]
          /\ Return(t, a)
     \/ UNCHANGED heap /\ Return(t, 0)

\* realloc of a block: in place, moved to a free address, or NULL.
LibcRealloc(t) ==
  /\ pc[t] = "libc" /\ Fn(t) = "realloc"
  /\ \/ \E a \in Addrs :
          /\ a = op[t].ptr \/ heap[ProcOf[t]][a] = Absent
          /\ heap' = [heap EXCEPT ![ProcOf[t]] = [@ EXCEPT ![op[t].ptr] = Absent,
               ![a] = [size |-> op[t].size, tid |-> t,
                       traced |-> op[t].entered /\ op[t].hooked]]]
          /\ Return(t, a)
     \/ UNCHANGED heap /\ Return(t, 0)

LibcFree(t) ==
  /\ pc[t] = "libc" /\ Fn(t) = "free"
  /\ heap' = [heap EXCEPT ![ProcOf[t]] = [a \in Addrs |->
                IF a = op[t].ptr THEN Absent ELSE @[a]]]
  /\ Return(t, 0)

\* mmap and munmap do not touch the heap's blocks.
LibcMap(t) ==
  /\ pc[t] = "libc" /\ Fn(t) \in MapFns
  /\ UNCHANGED heap /\ Return(t, 0)

\* The call returns to the program, or traps into the return probe.
Resume(t) ==
  /\ pc[t] = "return"
  /\ \/ op[t].hooked /\ Enter(t, "take") /\ UNCHANGED op
     \/ ~op[t].hooked /\ Goto(t, "run") /\ op' = [op EXCEPT ![t] = NoOp] /\ UNCHANGED cpu
  /\ UNCHANGED <<calls, heap, attach, pendings, scratch, tracked, ring>>
------------------------------------------------------------------------------
(***************************************************************************)
(* Entry probes of malloc, calloc and realloc.                             *)
(***************************************************************************)
\* Mutant: the pending entry is keyed by the process instead of the thread.
SavePendingByPid(t) ==
  /\ Step(t, "pend", "clear")
  /\ pending' = [pending EXCEPT ![Fn(t)] =
                   Update(@, ProcOf[t], [size |-> op[t].size], PendingCap)]
  /\ UNCHANGED <<app, attach, pstack, scratch, tracked, ring>>

\* Line 134: what the return probe will need, under the thread's id.
SavePending(t) ==
  /\ Step(t, "pend", "clear")
  /\ pending' = [pending EXCEPT ![Fn(t)] = Update(@, t, [size |-> op[t].size], PendingCap)]
  /\ UNCHANGED <<app, attach, pstack, scratch, tracked, ring>>

\* Line 140: memset of the shared stack buffer.
ClearStack(t) ==
  /\ Step(t, "clear", "walk")
  /\ tmpStack' = ZeroStack
  /\ UNCHANGED <<app, attach, pendings, tmpEvt, tracked, ring>>

\* Line 141: bpf_get_stack into it; it fails with nothing written.
WalkStack(t) ==
  /\ pc[t] = "walk"
  /\ \/ tmpStack' = [tmpStack EXCEPT !.pcs = CallOf(t)] /\ Goto(t, "deep")
     \/ UNCHANGED tmpStack /\ Goto(t, "flat")
  /\ UNCHANGED <<cpu, app, attach, pendings, tmpEvt, tracked, ring>>

\* Mutant: the length in bytes is stored as the depth.
SetDepthInBytes(t) ==
  /\ pc[t] \in {"deep", "flat"} /\ Goto(t, "copy") /\ UNCHANGED cpu
  /\ tmpStack' = [tmpStack EXCEPT !.depth = IF pc[t] = "deep" THEN 8 ELSE 0]
  /\ UNCHANGED <<app, attach, pendings, tmpEvt, tracked, ring>>

\* Lines 144 and 148: the depth.
SetDepth(t) ==
  /\ pc[t] \in {"deep", "flat"} /\ Goto(t, "copy") /\ UNCHANGED cpu
  /\ tmpStack' = [tmpStack EXCEPT !.depth = IF pc[t] = "deep" THEN 1 ELSE 0]
  /\ UNCHANGED <<app, attach, pendings, tmpEvt, tracked, ring>>

\* Mutant: BPF_NOEXIST, a stack that an earlier call of the thread left is kept.
SaveStackOnce(t) ==
  /\ pc[t] = "copy"
  /\ pstack' = IF pstack[Fn(t)][t] # Absent THEN pstack
               ELSE [pstack EXCEPT ![Fn(t)] = Update(@, t, tmpStack, PendingCap)]
  /\ \/ Fn(t) = "realloc" /\ Goto(t, "memset") /\ UNCHANGED cpu
     \/ Fn(t) # "realloc" /\ Leave(t, "libc")
  /\ UNCHANGED <<app, attach, pending, scratch, tracked, ring>>

\* Lines 145 and 149: the buffer is copied under the thread's id.  realloc's
\* entry probe goes on to emit an event.
SaveStack(t) ==
  /\ pc[t] = "copy"
  /\ pstack' = [pstack EXCEPT ![Fn(t)] = Update(@, t, tmpStack, PendingCap)]
  /\ \/ Fn(t) = "realloc" /\ Goto(t, "memset") /\ UNCHANGED cpu
     \/ Fn(t) # "realloc" /\ Leave(t, "libc")
  /\ UNCHANGED <<app, attach, pending, scratch, tracked, ring>>

(***************************************************************************)
(* Return probes up to the event: a NULL result leaves at once, and so     *)
(* does a return whose entry was not seen.                                 *)
(***************************************************************************)
\* Mutant: the test for a NULL result is missing (line 164).
TakePendingOfNull(t) ==
  LET p == pending[Fn(t)][t] IN
  /\ pc[t] = "take"
  /\ \/ /\ p = Absent
        /\ Leave(t, "run")
        /\ op' = [op EXCEPT ![t] = NoOp]
        /\ UNCHANGED <<pending, active>>
     \/ /\ p # Absent
        /\ pending' = [pending EXCEPT ![Fn(t)][t] = Absent]
        /\ active' = IF op[t].ret = 0 THEN active ELSE
             Update(active, op[t].ret, [size |-> p.size, pid |-> ProcOf[t], tid |-> t], ActiveCap)
        /\ op' = [op EXCEPT ![t].sizeVal = p.size]
        /\ Goto(t, "memset") /\ UNCHANGED cpu
  /\ UNCHANGED <<calls, heap, attach, pstack, scratch, completed, ring>>

\* Lines 156-182: what the entry probe saved is taken out and the block tracked.
TakePending(t) ==
  LET p == pending[Fn(t)][t] IN
  /\ pc[t] = "take"
  /\ \/ /\ op[t].ret = 0 \/ p = Absent
        /\ Leave(t, "run")
        /\ op' = [op EXCEPT ![t] = NoOp]
        /\ UNCHANGED <<pending, active>>
     \/ /\ op[t].ret # 0 /\ p # Absent
        /\ pending' = [pending EXCEPT ![Fn(t)][t] = Absent]
        /\ active' = Update(active, op[t].ret,
                       [size |-> p.size, pid |-> ProcOf[t], tid |-> t], ActiveCap)
        /\ op' = [op EXCEPT ![t].sizeVal = p.size]
        /\ Goto(t, "memset") /\ UNCHANGED cpu
  /\ UNCHANGED <<calls, heap, attach, pstack, scratch, completed, ring>>

(***************************************************************************)
(* free's probe up to the event.                                           *)
(***************************************************************************)
\* Lines 223-228: NULL returns; a tracked block is copied to completed_allocs.
Untrack(t) ==
  LET a == op[t].ptr IN
  /\ pc[t] = "untrack"
  /\ \/ a = 0 /\ Leave(t, "libc") /\ UNCHANGED completed
     \/ /\ a # 0 /\ active[a] # Absent
        /\ completed' = Update(completed, a, active[a], CompletedCap)
        /\ Goto(t, "delete") /\ UNCHANGED cpu
     \/ /\ a # 0 /\ active[a] = Absent
        /\ Goto(t, "memset") /\ UNCHANGED <<cpu, completed>>
  /\ UNCHANGED <<app, attach, pendings, scratch, active, ring>>

\* Mutant: line 229 is missing.
KeepActive(t) ==
  /\ Step(t, "delete", "memset")
  /\ UNCHANGED <<app, attach, pendings, scratch, tracked, ring>>

\* Line 229.
DeleteActive(t) ==
  /\ Step(t, "delete", "memset")
  /\ active' = [active EXCEPT ![op[t].ptr] = Absent]
  /\ UNCHANGED <<app, attach, pendings, scratch, completed, ring>>

(***************************************************************************)
(* Every event is built in the one shared buffer and copied to the ring.   *)
(***************************************************************************)
\* Line 188.
ClearEvt(t) ==
  /\ Step(t, "memset", "header")
  /\ tmpEvt' = ZeroEvt
  /\ UNCHANGED <<app, attach, pendings, tmpStack, tracked, ring>>

\* Lines 189-193.
FillHeader(t) ==
  /\ Step(t, "header", "body")
  /\ tmpEvt' = [tmpEvt EXCEPT !.type = TypeOf(t), !.pid = ProcOf[t], !.tid = t]
  /\ UNCHANGED <<app, attach, pendings, tmpStack, tracked, ring>>

\* The address and size words the event's type has: FREE has no size.
AddrOf(t) == IF op[t].done THEN op[t].ret ELSE op[t].ptr
FillBody(t) ==
  /\ Step(t, "body", IF op[t].done THEN "stack" ELSE "emit")
  /\ tmpEvt' = [tmpEvt EXCEPT !.addr = AddrOf(t),
                               !.size = IF Fn(t) = "free" THEN @ ELSE op[t].sizeVal]
  /\ UNCHANGED <<app, attach, pendings, tmpStack, tracked, ring>>

\* Lines 197-210: the stack saved at entry, and its entry's removal.
FillStack(t) ==
  LET s == pstack[Fn(t)][t] IN
  /\ Step(t, "stack", "emit")
  /\ tmpEvt' = [tmpEvt EXCEPT !.stack = IF s # Absent /\ s.depth > 0 THEN s.pcs ELSE NoStack]
  /\ pstack' = [pstack EXCEPT ![Fn(t)][t] = Absent]
  /\ UNCHANGED <<app, attach, pending, tmpStack, tracked, ring>>

\* emit_event: bpf_ringbuf_output fails when the ring is full, unnoticed.
Emit(t) ==
  /\ pc[t] = "emit"
  /\ ring' = IF Len(ring) < RingCap THEN Append(ring, tmpEvt) ELSE ring
  /\ \/ op[t].done /\ Leave(t, "run") /\ op' = [op EXCEPT ![t] = NoOp]
     \/ ~op[t].done /\ Leave(t, "libc") /\ UNCHANGED op
  /\ UNCHANGED <<calls, heap, attach, pendings, scratch, tracked>>
------------------------------------------------------------------------------
EntryProbe(t) ==
  SavePending(t) \/ ClearStack(t) \/ WalkStack(t) \/ SetDepth(t) \/ SaveStack(t)
FreeProbe(t) == Untrack(t) \/ DeleteActive(t)
EventSteps(t) ==
  ClearEvt(t) \/ FillHeader(t) \/ FillBody(t) \/ FillStack(t) \/ Emit(t)
ProbeStep(t) == EntryProbe(t) \/ TakePending(t) \/ FreeProbe(t) \/ EventSteps(t)

Libc(t) == LibcAlloc(t) \/ LibcRealloc(t) \/ LibcFree(t) \/ LibcMap(t) \/ Resume(t)

ThreadStep(t) ==
  CallAlloc(t) \/ CallFree(t) \/ CallMap(t) \/ Libc(t) \/ ProbeStep(t)

\* Some consumer takes the oldest event off the ring.
Drain ==
  /\ ring # <<>> /\ ring' = Tail(ring)
  /\ UNCHANGED <<pc, cpu, app, attach, pendings, scratch, tracked>>

ProbesNext ==
  \/ \E t \in Threads : ThreadStep(t)
  \/ AttachNext
  \/ Drain

ProbesSpec == ProbesInit /\ [][ProbesNext]_pvars
------------------------------------------------------------------------------
EntryLabels == {"pend", "clear", "walk", "deep", "flat", "copy"}
ProbeLabels == EntryLabels \cup
  {"take", "untrack", "delete", "memset", "header", "body", "stack", "emit"}
Labels == ProbeLabels \cup {"run", "libc", "return"}
MapOf(K, V) == [K -> V \cup {Absent}]

\* Every variable keeps its type.
ProbesTypeOK ==
  /\ pc \in [Threads -> Labels]
  /\ op \in [Threads -> Op]
  /\ cpu \in [Threads -> Cpus \cup {0}]
  /\ calls \in [Threads -> Nat]
  /\ heap \in [Procs -> MapOf(Addrs, Block)]
  /\ attached \subseteq Programs
  /\ nextProbe \in 1 .. Len(AttachOrder) + 1
  /\ pending \in [AllocFns -> MapOf(Threads, [size: Sizes])]
  /\ pstack \in [AllocFns -> MapOf(Threads, StackValue)]
  /\ tmpStack \in StackValue
  /\ tmpEvt \in MemEvent
  /\ active \in MapOf(Addrs, AllocInfo)
  /\ completed \in MapOf(Addrs, AllocInfo)
  /\ ring \in Seq(MemEvent) /\ Len(ring) <= RingCap

(***************************************************************************)
(* What a probe hands to the ring buffer is one call's event: type, pid,   *)
(* tid, address, size and stack all of the call that fired the probe,      *)
(* though they were assembled in a buffer shared by all CPUs from an entry *)
(* saved when the call began (memscope.bpf.c:184-212).  Neither the size   *)
(* nor the stack is one that an earlier call of the thread left behind.    *)
(***************************************************************************)
EventExact ==
  \A t \in Threads : pc[t] = "emit" =>
    /\ tmpEvt.type = TypeOf(t)
    /\ tmpEvt.pid = ProcOf[t] /\ tmpEvt.tid = t
    /\ tmpEvt.addr = AddrOf(t)
    /\ tmpEvt.size = op[t].size
    /\ tmpEvt.stack \in {NoStack, CallOf(t)}

\* No call in progress is about to create, resize or free a of process p.
Settled(p, a) == ~InUse(p, a)

(***************************************************************************)
(* active_allocs holds no ghost: at no moment, also between the steps of   *)
(* probes on several CPUs, does an entry describe anything but the block   *)
(* that is allocated there now, with its own size and thread.              *)
(***************************************************************************)
NoGhosts ==
  \A p \in Procs, a \in Addrs :
    active[a] # Absent /\ active[a].pid = p =>
      /\ heap[p][a] # Absent
      /\ heap[p][a].size = active[a].size /\ heap[p][a].tid = active[a].tid

(***************************************************************************)
(* active_allocs misses nothing: a block whose allocation fired both       *)
(* probes is in the map, as long as the maps are large enough.             *)
(***************************************************************************)
NothingMissed ==
  Cardinality(Addrs) <= ActiveCap /\ Cardinality(Threads) <= PendingCap =>
    \A p \in Procs, a \in Addrs :
      heap[p][a] # Absent /\ heap[p][a].traced /\ Settled(p, a) =>
        active[a] # Absent /\ active[a].pid = p
==============================================================================
