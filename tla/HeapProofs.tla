------------------------------ MODULE HeapProofs ------------------------------
(***************************************************************************)
(* Proofs about active_allocs and the heap of the traced programs, on any  *)
(* number of CPUs: the map describes blocks that exist, and misses none.   *)
(***************************************************************************)
EXTENDS ProbesProofs, FiniteSetTheorems

\* The block thread t's call is about to leave on the heap.
BlockOf(t) == [size |-> op[t].size, tid |-> t, traced |-> op[t].entered /\ op[t].hooked]

\* A call is about a block that exists, its argument and then its result; libc gave the
\* result its size; and no two calls of a process are about one block.
HeapAt(t) ==
  /\ AddrOf(t) # 0 => heap[ProcOf[t]][AddrOf(t)] # Absent
  /\ op[t].done /\ op[t].ret # 0 => heap[ProcOf[t]][op[t].ret] = BlockOf(t)
  /\ AddrOf(t) # 0 =>
       \A u \in Threads \ {t} : ProcOf[u] = ProcOf[t] => AddrOf(u) # AddrOf(t)
HeapInv == \A t \in Threads : HeapAt(t)

\* The labels of free's probe once the map has been seen to, and libc.
PastMap == {"memset", "header", "body", "emit", "libc"}

\* The entries' owners are processes, and each entry describes the block that is there; a
\* free that has passed the map has left no entry of its process.
Describes(p, a) ==
  /\ heap[p][a] # Absent
  /\ heap[p][a].size = active[a].size /\ heap[p][a].tid = active[a].tid
GhostInv ==
  /\ \A a \in Addrs : active[a] # Absent => active[a].pid \in Procs /\ Describes(active[a].pid, a)
  /\ \A t \in Threads :
       Fn(t) = "free" /\ pc[t] \in PastMap /\ op[t].ptr # 0 =>
         active[op[t].ptr] = Absent \/ active[op[t].ptr].pid # ProcOf[t]
  /\ \A t \in Threads : Fn(t) \in Fns \cup {"none"}
  /\ <<"free", 0>> \in attached

\* Thread t's call has the block a and its return probe has not tracked it yet, or its free
\* is past the map.
InFlux(t, a) ==
  /\ AddrOf(t) = a
  /\ \/ op[t].done /\ pc[t] \in {"return", "take"}
     \/ Fn(t) = "free" /\ pc[t] \in PastMap \cup {"delete"}

\* Until its return probe has run, a call that fired its entry probe has an entry.
BeforeTake(t) == pc[t] # "pend" /\ (op[t].done => pc[t] \in {"return", "take"})
Saved(t) == op[t].entered /\ Fn(t) \in AllocFns /\ BeforeTake(t) => pending[Fn(t)][t] # Absent

\* A traced block is in the map, but while a call is about to put it there or to free it.
MissInv ==
  /\ \A t \in Threads : Saved(t)
  /\ \A a \in Addrs : active[a] # Absent => active[a].pid \in Procs
  /\ \A p \in Procs, a \in Addrs :
       heap[p][a] # Absent /\ heap[p][a].traced =>
         active[a] # Absent \/ \E t \in Threads : ProcOf[t] = p /\ InFlux(t, a)
------------------------------------------------------------------------------
(***************************************************************************)
(* What a step does to the call of its thread and to the heap.             *)
(***************************************************************************)
\* The call goes on as it is.
Keeps(t) ==
  /\ heap' = heap
  /\ op'[t].fn = op[t].fn /\ op'[t].size = op[t].size /\ op'[t].ptr = op[t].ptr
  /\ op'[t].ret = op[t].ret /\ op'[t].entered = op[t].entered /\ op'[t].hooked = op[t].hooked
  /\ op'[t].done = op[t].done

\* It starts, with a block that no other call has, or with none.
Begins(t) ==
  /\ heap' = heap /\ op[t] = NoOp
  /\ op'[t].fn \in Fns /\ op'[t].ret = 0 /\ ~op'[t].done
  /\ op'[t].ptr = 0 \/ op'[t].ptr \in Owned(t)

\* It is over.
Finishes(t) == heap' = heap /\ op'[t] = NoOp

\* libc answers with a new place for the block, with none, or takes the block back.
Answers(t, r) ==
  /\ pc[t] = "libc" /\ pc'[t] = "return"
  /\ op'[t].fn = op[t].fn /\ op'[t].size = op[t].size /\ op'[t].ptr = op[t].ptr
  /\ op'[t].ret = r /\ op'[t].entered = op[t].entered /\ op'[t].hooked = op[t].hooked
  /\ op'[t].done
Gives(t, a) ==
  /\ Answers(t, a) /\ Fn(t) \in AllocFns
  /\ heap[ProcOf[t]][a] = Absent \/ (Fn(t) = "realloc" /\ a = op[t].ptr)
  /\ \A p \in Procs, b \in Addrs :
       heap'[p][b] = IF p = ProcOf[t] /\ b = a THEN BlockOf(t)
                     ELSE IF p = ProcOf[t] /\ Fn(t) = "realloc" /\ b = op[t].ptr THEN Absent
                     ELSE heap[p][b]
Refuses(t) == Answers(t, 0) /\ heap' = heap /\ Fn(t) # "free"
TakesBack(t) ==
  /\ Answers(t, 0) /\ Fn(t) = "free"
  /\ \A p \in Procs, b \in Addrs :
       heap'[p][b] = IF p = ProcOf[t] /\ b = op[t].ptr THEN Absent ELSE heap[p][b]

\* libc's answer changes the result alone.
LEMMA AnswerFields ==
  ASSUME TypeInv, NEW t \in Threads, NEW r, Return(t, r), pc[t] = "libc"
  PROVE  Answers(t, r)
<1>1. op[t] \in Op /\ op[t] # NoOp
  BY HereFits DEF Fits
<1>2. op'[t] = [op[t] EXCEPT !.ret = r, !.done = TRUE]
  BY DEF Return, TypeInv, ProbesTypeOK
<1>3. pc'[t] = "return"
  BY DEF Return, Goto, TypeInv, ProbesTypeOK
<1>4. CASE op[t] \in AllocOp
  BY <1>2, <1>3, <1>4 DEF AllocOp, Answers
<1>5. CASE op[t] \in MapOp
  BY <1>2, <1>3, <1>5 DEF MapOp, Answers
<1>6. CASE op[t] \in FreeOp
  BY <1>2, <1>3, <1>6 DEF FreeOp, Answers
<1> QED
  BY <1>1, <1>4, <1>5, <1>6 DEF Op

LEMMA HeapMoves ==
  ASSUME TypeInv, NEW t \in Threads, ThreadStep(t)
  PROVE  \/ Keeps(t) \/ Begins(t) \/ Finishes(t) \/ Refuses(t) \/ TakesBack(t)
         \/ \E a \in Addrs : Gives(t, a)
<1>0. /\ op \in [Threads -> Op] /\ heap \in [Procs -> MapOf(Addrs, Block)]
      /\ ProcOf[t] \in Procs /\ Fits(pc[t], op[t])
  BY HereFits DEF TypeInv, ProbesTypeOK
<1>1. CASE UNCHANGED <<op, heap>>
  BY <1>1 DEF Keeps
<1>2. ASSUME NEW f, NEW s, NEW p, NEW l, Call(t, f, s, p, l), p = 0 \/ p \in Owned(t)
      PROVE  Begins(t)
  BY <1>0, <1>2 DEF Call, Begins, Fits
<1>3. CASE CallAlloc(t) \/ CallFree(t) \/ CallMap(t)
  BY <1>2, <1>3 DEF CallAlloc, CallFree, CallMap
<1>4. CASE LibcAlloc(t)
  <2>1. CASE UNCHANGED heap /\ Return(t, 0)
    BY <1>4, <2>1, AnswerFields DEF LibcAlloc, Refuses
  <2>2. CASE \E a \in Addrs :
               /\ heap[ProcOf[t]][a] = Absent
               /\ heap' = [heap EXCEPT ![ProcOf[t]][a] =
                    [size |-> op[t].size, tid |-> t, traced |-> op[t].entered /\ op[t].hooked]]
               /\ Return(t, a)
    <3> PICK a \in Addrs :
               /\ heap[ProcOf[t]][a] = Absent
               /\ heap' = [heap EXCEPT ![ProcOf[t]][a] = BlockOf(t)]
               /\ Return(t, a)
      BY <2>2 DEF BlockOf
    <3> DEFINE b == BlockOf(t)
    <3>1. heap' = [heap EXCEPT ![ProcOf[t]][a] = b]
      OBVIOUS
    <3> HIDE DEF b
    <3>2. \A p \in Procs, c \in Addrs :
            heap'[p][c] = IF p = ProcOf[t] /\ c = a THEN b ELSE heap[p][c]
      BY <1>0, <3>1 DEF MapOf
    <3>3. Answers(t, a)
      BY <1>4, AnswerFields DEF LibcAlloc
    <3>4. Fn(t) \in AllocFns /\ Fn(t) # "realloc"
      BY <1>4 DEF LibcAlloc, AllocFns
    <3> USE DEF b
    <3>5. Gives(t, a)
      BY <3>2, <3>3, <3>4 DEF Gives
    <3> QED
      BY <3>5
  <2> QED
    BY <1>4, <2>1, <2>2 DEF LibcAlloc
<1>5. CASE LibcRealloc(t)
  <2>1. CASE UNCHANGED heap /\ Return(t, 0)
    BY <1>5, <2>1, AnswerFields DEF LibcRealloc, Refuses
  <2>2. CASE \E a \in Addrs :
               /\ a = op[t].ptr \/ heap[ProcOf[t]][a] = Absent
               /\ heap' = [heap EXCEPT ![ProcOf[t]] = [@ EXCEPT ![op[t].ptr] = Absent,
                    ![a] = [size |-> op[t].size, tid |-> t,
                            traced |-> op[t].entered /\ op[t].hooked]]]
               /\ Return(t, a)
    <3> DEFINE b == BlockOf(t)
    <3> PICK a \in Addrs :
               /\ a = op[t].ptr \/ heap[ProcOf[t]][a] = Absent
               /\ heap' = [heap EXCEPT ![ProcOf[t]] = [@ EXCEPT ![op[t].ptr] = Absent, ![a] = b]]
               /\ Return(t, a)
      BY <2>2 DEF BlockOf
    <3> HIDE DEF b
    <3>2. \A p \in Procs, c \in Addrs :
            heap'[p][c] = IF p = ProcOf[t] /\ c = a THEN b
                          ELSE IF p = ProcOf[t] /\ c = op[t].ptr THEN Absent ELSE heap[p][c]
      BY <1>0 DEF MapOf
    <3>3. Answers(t, a)
      BY <1>5, AnswerFields DEF LibcRealloc
    <3>4. Fn(t) \in AllocFns /\ Fn(t) = "realloc"
      BY <1>5 DEF LibcRealloc, AllocFns
    <3> USE DEF b
    <3>5. Gives(t, a)
      BY <3>2, <3>3, <3>4 DEF Gives
    <3> QED
      BY <3>5
  <2> QED
    BY <1>5, <2>1, <2>2 DEF LibcRealloc
<1>6. CASE LibcFree(t)
  <2>1. Answers(t, 0) /\ Fn(t) = "free"
    BY <1>6, AnswerFields DEF LibcFree
  <2>2. \A p \in Procs, b \in Addrs :
          heap'[p][b] = IF p = ProcOf[t] /\ b = op[t].ptr THEN Absent ELSE heap[p][b]
    BY <1>0, <1>6 DEF LibcFree
  <2> QED
    BY <2>1, <2>2 DEF TakesBack
<1>7. CASE LibcMap(t)
  <2>1. Fn(t) # "free"
    BY <1>7 DEF LibcMap, MapFns
  <2> QED
    BY <1>7, <2>1, AnswerFields DEF LibcMap, Refuses
<1>8. CASE Resume(t)
  BY <1>0, <1>8 DEF Resume, Keeps, Finishes
<1>9. CASE EntryProbe(t) \/ FreeProbe(t)
  BY <1>1, <1>9 DEF EntryProbe, FreeProbe, SavePending, ClearStack, WalkStack, SetDepth, SaveStack,
                    Untrack, DeleteActive, app
<1>10. CASE TakePending(t)
  <2>1. CASE op' = [op EXCEPT ![t] = NoOp]
    BY <1>0, <1>10, <2>1 DEF TakePending, Finishes
  <2>2. CASE op' = [op EXCEPT ![t].sizeVal = pending[Fn(t)][t].size]
    <3>1. op[t].fn \in AllocFns
      BY <1>0, <1>10 DEF TakePending, Fits
    <3>2. op[t] \in AllocOp
      BY <1>0, <3>1, OpAlloc
    <3>3. op'[t] = [op[t] EXCEPT !.sizeVal = pending[Fn(t)][t].size]
      BY <1>0, <2>2
    <3> QED
      BY <1>10, <3>2, <3>3 DEF TakePending, Keeps, AllocOp
  <2> QED
    BY <1>10, <2>1, <2>2 DEF TakePending
<1>11. CASE EventSteps(t)
  <2>1. CASE Emit(t)
    BY <1>0, <1>1, <2>1 DEF Emit, Finishes
  <2>2. CASE ClearEvt(t) \/ FillHeader(t) \/ FillBody(t) \/ FillStack(t)
    BY <1>1, <2>2 DEF ClearEvt, FillHeader, FillBody, FillStack, app
  <2> QED
    BY <1>11, <2>1, <2>2 DEF EventSteps
<1> QED
  BY <1>3, <1>4, <1>5, <1>6, <1>7, <1>8, <1>9, <1>10, <1>11 DEF ThreadStep, Libc, ProbeStep

------------------------------------------------------------------------------
(***************************************************************************)
(* Whose a block is.                                                       *)
(***************************************************************************)
LEMMA InitHeap == ProbesInit => HeapInv
  BY DEF ProbesInit, HeapInv, HeapAt, AddrOf, NoOp

\* The addresses a call may be about.
LEMMA AddrOfType ==
  ASSUME TypeInv, NEW t \in Threads
  PROVE  AddrOf(t) \in Addrs \cup {0} /\ ProcOf[t] \in Procs
  BY HereFits DEF AddrOf

\* A block that a program may pass on is in no other call.
LEMMA OwnedFree ==
  ASSUME TypeInv, NEW t \in Threads, NEW a \in Owned(t), NEW u \in Threads, ProcOf[u] = ProcOf[t]
  PROVE  AddrOf(u) # a
<1>1. a # 0
  BY ProbesAssumption DEF Owned
<1>2. pc[u] = "run" => AddrOf(u) = 0
  BY DEF TypeInv, CallShape, Fits, AddrOf, NoOp
<1> QED
  BY <1>1, <1>2 DEF Owned, InUse, AddrOf

\* A block is not the absence of one.
LEMMA BlockPresent ==
  ASSUME NEW t PROVE BlockOf(t) # Absent
<1>1. BlockOf(t) \in [size: {op[t].size}, tid: {t}, traced: {op[t].entered /\ op[t].hooked}]
  BY DEF BlockOf
<1>2. Absent \notin [size: {op[t].size}, tid: {t}, traced: {op[t].entered /\ op[t].hooked}]
  BY DEF Absent
<1> QED
  BY <1>1, <1>2

\* No two calls are about one block.
LEMMA StepHeap == TypeInv /\ HeapInv /\ [ProbesNext]_pvars => HeapInv'
<1> SUFFICES ASSUME TypeInv, HeapInv, [ProbesNext]_pvars PROVE HeapInv'
  OBVIOUS
<1>1. ASSUME NEW t \in Threads, ThreadStep(t) PROVE HeapInv'
  <2>1. \A u \in Threads \ {t} : op'[u] = op[u] /\ AddrOf(u)' = AddrOf(u) /\ BlockOf(u)' = BlockOf(u)
    BY <1>1, StepOwn DEF Own, AddrOf, BlockOf
  <2>2. /\ \A u \in Threads : AddrOf(u) \in Addrs \cup {0} /\ ProcOf[u] \in Procs
        /\ \A u \in Threads : op[u].ret \in Addrs \cup {0} /\ op[u].ptr \in Addrs \cup {0}
        /\ 0 \notin Addrs
    BY AddrOfType, HereFits, ProbesAssumption
  <2> USE DEF HeapInv, HeapAt
  <2>3. CASE Keeps(t)
    <3>1. AddrOf(t)' = AddrOf(t) /\ BlockOf(t)' = BlockOf(t)
      BY <2>3 DEF Keeps, AddrOf, BlockOf
    <3> QED
      BY <2>1, <2>3, <3>1 DEF Keeps
  <2>4. CASE Begins(t)
    <3>1. AddrOf(t)' = 0 \/ AddrOf(t)' \in Owned(t)
      BY <2>4 DEF Begins, AddrOf
    <3>2. \A a \in Owned(t) : heap[ProcOf[t]][a] # Absent
      BY DEF Owned
    <3> QED
      BY <2>1, <2>4, <3>1, <3>2, OwnedFree DEF Begins
  <2>5. CASE Finishes(t)
    <3>1. AddrOf(t)' = 0
      BY <2>5 DEF Finishes, AddrOf, NoOp
    <3> QED
      BY <2>1, <2>5, <3>1 DEF Finishes, NoOp
  <2>6. CASE Refuses(t)
    <3>1. AddrOf(t)' = 0
      BY <2>6 DEF Refuses, Answers, AddrOf
    <3> QED
      BY <2>1, <2>6, <3>1 DEF Refuses, Answers
  <2>7. CASE TakesBack(t)
    <3>1. AddrOf(t)' = 0 /\ op'[t].ret = 0
      BY <2>7 DEF TakesBack, Answers, AddrOf
    <3>2. op[t].ptr = AddrOf(t)
      <4>1. ~op[t].done
        BY <2>7 DEF TakesBack, Answers, TypeInv, CallShape, Fits
      <4> QED
        BY <4>1 DEF AddrOf
    <3>3. ASSUME NEW u \in Threads \ {t} PROVE HeapAt(u)'
      <4>1. AddrOf(u) # 0 => heap'[ProcOf[u]][AddrOf(u)] = heap[ProcOf[u]][AddrOf(u)]
        BY <2>2, <2>7, <3>2 DEF TakesBack
      <4>2. op[u].done => AddrOf(u) = op[u].ret
        BY DEF AddrOf
      <4> QED
        BY <2>1, <3>1, <4>1, <4>2
    <3> QED
      BY <3>1, <3>3
  <2>8. CASE \E a \in Addrs : Gives(t, a)
    <3> PICK a \in Addrs : Gives(t, a)
      BY <2>8
    <3>1. AddrOf(t)' = a /\ op'[t].ret = a /\ BlockOf(t)' = BlockOf(t)
      BY DEF Gives, Answers, AddrOf, BlockOf
    <3>2. op[t].ptr = AddrOf(t)
      <4>1. ~op[t].done
        BY DEF Gives, Answers, TypeInv, CallShape, Fits
      <4> QED
        BY <4>1 DEF AddrOf
    <3>3. \A u \in Threads \ {t} : ProcOf[u] = ProcOf[t] /\ AddrOf(u) # 0 => AddrOf(u) # a
      BY <3>2, <2>2 DEF Gives
    <3>4. HeapAt(t)'
      <4>1. heap'[ProcOf[t]][a] = BlockOf(t)
        BY <2>2 DEF Gives
      <4> QED
        BY <2>1, <2>2, <3>1, <3>3, <4>1, BlockPresent
    <3>5. ASSUME NEW u \in Threads \ {t} PROVE HeapAt(u)'
      <4>1. AddrOf(u) # 0 => heap'[ProcOf[u]][AddrOf(u)] = heap[ProcOf[u]][AddrOf(u)]
        BY <2>2, <3>2, <3>3 DEF Gives
      <4>2. op[u].done => AddrOf(u) = op[u].ret
        BY DEF AddrOf
      <4> QED
        BY <2>1, <3>1, <3>3, <4>1, <4>2
    <3> QED
      BY <3>4, <3>5
  <2> QED
    BY <1>1, <2>3, <2>4, <2>5, <2>6, <2>7, <2>8, HeapMoves
<1>2. CASE AttachNext \/ Drain \/ UNCHANGED pvars
  BY <1>2 DEF AttachNext, Drain, pvars, app, HeapInv, HeapAt, AddrOf, BlockOf
<1> QED
  BY <1>1, <1>2 DEF ProbesNext

------------------------------------------------------------------------------
(***************************************************************************)
(* What a step does to active_allocs.                                      *)
(***************************************************************************)
Entry(t) == [size |-> pending[Fn(t)][t].size, pid |-> ProcOf[t], tid |-> t]

Tracks(t) ==
  /\ pc[t] = "take" /\ op[t].ret # 0 /\ Fn(t) \in AllocFns /\ pending[Fn(t)][t] # Absent
  /\ pc'[t] = "memset"
  /\ active' = Update(active, op[t].ret, Entry(t), ActiveCap)
Untracks(t) ==
  /\ pc[t] = "delete" /\ pc'[t] = "memset" /\ op' = op /\ Fn(t) = "free"
  /\ active' = [active EXCEPT ![op[t].ptr] = Absent]

LEMMA MapMoves ==
  ASSUME TypeInv, NEW t \in Threads, ThreadStep(t)
  PROVE  Tracks(t) \/ Untracks(t) \/ active' = active
<1>0. pc \in [Threads -> Labels] /\ Fits(pc[t], op[t])
  BY DEF TypeInv, ProbesTypeOK, CallShape
<1>1. CASE CallAlloc(t) \/ CallFree(t) \/ CallMap(t)
  BY <1>1 DEF CallAlloc, CallFree, CallMap, Call, tracked
<1>2. CASE Libc(t)
  BY <1>2 DEF Libc, LibcAlloc, LibcRealloc, LibcFree, LibcMap, Return, Resume, tracked
<1>3. CASE EntryProbe(t) \/ EventSteps(t)
  BY <1>3 DEF EntryProbe, SavePending, ClearStack, WalkStack, SetDepth, SaveStack, EventSteps,
              ClearEvt, FillHeader, FillBody, FillStack, Emit, tracked
<1>4. CASE TakePending(t)
  BY <1>0, <1>4 DEF TakePending, Goto, Tracks, Entry, Fits, Fn
<1>5. CASE FreeProbe(t)
  BY <1>0, <1>5 DEF FreeProbe, Untrack, DeleteActive, Step, Goto, Untracks, Fits, Fn, app
<1> QED
  BY <1>1, <1>2, <1>3, <1>4, <1>5 DEF ThreadStep, ProbeStep

\* The map after an insertion, whether it had room or not.
LEMMA TrackFacts ==
  ASSUME TypeInv, NEW t \in Threads, Tracks(t)
  PROVE  /\ op[t].ret \in Addrs /\ op[t].done /\ ProcOf[t] \in Procs
         /\ Entry(t) \in AllocInfo /\ Entry(t) # Absent
         /\ \A a \in Addrs \ {op[t].ret} : active'[a] = active[a]
         /\ active'[op[t].ret] \in {active[op[t].ret], Entry(t)}
         /\ active[op[t].ret] # Absent => active'[op[t].ret] = Entry(t)
<1>1. op[t].ret \in Addrs /\ op[t].done /\ ProcOf[t] \in Procs /\ ProcOf[t] \in Nat
  BY HereFits DEF Tracks, Fits
<1>2. pending[Fn(t)][t] \in [size: Sizes]
  BY DEF Tracks, TypeInv, ProbesTypeOK, MapOf
<1>3. Entry(t) \in AllocInfo
  BY <1>1, <1>2 DEF Entry, AllocInfo
<1>4. Absent \notin AllocInfo
  BY DEF Absent, AllocInfo
<1>5. active \in MapOf(Addrs, AllocInfo)
  BY DEF TypeInv, ProbesTypeOK
<1> QED
  BY <1>1, <1>3, <1>4, <1>5, UpdateFacts DEF Tracks

\* What brings a free past the map.
LEMMA FreePast ==
  ASSUME TypeInv, NEW t \in Threads, ThreadStep(t), <<"free", 0>> \in attached,
         op'[t].fn = "free", pc'[t] \in PastMap, op'[t].ptr # 0
  PROVE  /\ op'[t].ptr = op[t].ptr
         /\ \/ Untracks(t)
            \/ pc[t] = "untrack" /\ active[op[t].ptr] = Absent /\ active' = active
            \/ Fn(t) = "free" /\ pc[t] \in PastMap
<1> USE DEF PastMap, Goto
<1>0. /\ pc \in [Threads -> Labels] /\ op \in [Threads -> Op] /\ Fits(pc[t], op[t])
  BY DEF TypeInv, ProbesTypeOK, CallShape
<1>1. ASSUME NEW f, NEW s, NEW p, NEW l, Call(t, f, s, p, l), l = "untrack" \/ f # "free"
      PROVE  FALSE
  BY <1>0, <1>1 DEF Call, Enter
<1>2. CASE CallAlloc(t) \/ CallFree(t) \/ CallMap(t)
  BY <1>1, <1>2 DEF CallAlloc, CallFree, CallMap, MapFns
<1>3. CASE Libc(t)
  BY <1>0, <1>3 DEF Libc, LibcAlloc, LibcRealloc, LibcFree, LibcMap, Return, Resume, Enter, NoOp
<1>4. CASE EntryProbe(t)
  BY <1>0, <1>4 DEF EntryProbe, SavePending, ClearStack, WalkStack, SetDepth, SaveStack, Step, app,
                    Leave, Fits, EntryLabels, AllocFns
<1>5. CASE TakePending(t)
  <2>1. op[t].fn \in AllocFns
    BY <1>0, <1>5 DEF TakePending, Fits
  <2>2. CASE op' = [op EXCEPT ![t] = NoOp]
    BY <1>0, <2>2 DEF NoOp
  <2>3. CASE op' = [op EXCEPT ![t].sizeVal = pending[Fn(t)][t].size]
    <3>1. op[t] \in AllocOp
      BY <1>0, <2>1, OpAlloc
    <3>2. op'[t] = [op[t] EXCEPT !.sizeVal = pending[Fn(t)][t].size]
      BY <1>0, <2>3
    <3> QED
      BY <2>1, <3>1, <3>2 DEF AllocFns, AllocOp
  <2> QED
    BY <1>5, <2>2, <2>3 DEF TakePending
<1>6. CASE Untrack(t)
  BY <1>0, <1>6 DEF Untrack, Leave, app, tracked
<1>7. CASE DeleteActive(t)
  BY <1>0, <1>7 DEF DeleteActive, Step, app, Untracks, Fits, Fn
<1>8. CASE EventSteps(t)
  BY <1>0, <1>8 DEF EventSteps, ClearEvt, FillHeader, FillBody, FillStack, Emit, Step, Leave, app,
                    NoOp, Fn, Fits, AllocFns
<1> QED
  BY <1>2, <1>3, <1>4, <1>5, <1>6, <1>7, <1>8 DEF ThreadStep, ProbeStep, FreeProbe

\* Tracing starts with an empty map.
LEMMA InitGhost == ASSUME <<"free", 0>> \in AttachedFirst PROVE ProbesInit => GhostInv
  BY DEF ProbesInit, GhostInv, Fn, NoOp

\* A free on its way knows of one block, its argument.
LEMMA FreeAddr ==
  ASSUME TypeInv, NEW t \in Threads, Fn(t) = "free", pc[t] \in PastMap \cup {"delete"}
  PROVE  ~op[t].done /\ AddrOf(t) = op[t].ptr
BY HereFits DEF Fits, PastMap, Fn, AllocFns, AddrOf

\* Whatever the interleaving of probes on the CPUs, the map describes blocks that exist.
LEMMA StepGhost ==
  ASSUME TypeInv, HeapInv, PendInv, GhostInv, "realloc" \notin Fns, [ProbesNext]_pvars
  PROVE  GhostInv'
<1>1. ASSUME NEW t \in Threads, ThreadStep(t) PROVE GhostInv'
  <2>0. /\ \A u \in Threads \ {t} : pc'[u] = pc[u] /\ op'[u] = op[u]
        /\ attached' = attached
    BY <1>1, StepOwn DEF Own
  <2>1. \A u \in Threads : Fn(u)' \in Fns \cup {"none"}
    <3>1. op'[t].fn = op[t].fn \/ op'[t].fn \in Fns \/ op'[t].fn = "none"
      BY <1>1, HeapMoves
      DEF Keeps, Begins, Finishes, Refuses, TakesBack, Gives, Answers, NoOp
    <3> QED
      BY <2>0, <3>1 DEF GhostInv, Fn
  <2>2. ASSUME NEW a \in Addrs, active'[a] # Absent
        PROVE  active'[a].pid \in Procs /\ Describes(active[a].pid, a)'
    <3>0. /\ active[a] # Absent =>
               active[a].pid \in Procs /\ Describes(active[a].pid, a)
          /\ op[t].fn # "realloc"
      BY DEF GhostInv, Fn
    <3>1. CASE heap' = heap /\ active' = active
      BY <2>2, <3>0, <3>1 DEF Describes
    <3>2. CASE heap' = heap /\ Tracks(t)
      <4>1. CASE active'[a] = active[a]
        BY <2>2, <3>0, <3>2, <4>1 DEF Describes
      <4>2. CASE active'[a] # active[a]
        <5>1. a = op[t].ret /\ active'[a] = Entry(t) /\ ProcOf[t] \in Procs /\ op[t].done
          BY <3>2, <4>2, TrackFacts
        <5>2. heap[ProcOf[t]][a] = BlockOf(t) /\ BlockOf(t) # Absent
          BY <3>2, <5>1, BlockPresent DEF HeapInv, HeapAt, Tracks
        <5>3. pending[Fn(t)][t].size = op[t].size
          BY <3>2 DEF Tracks, PendInv, PendFits
        <5> QED
          BY <3>2, <5>1, <5>2, <5>3 DEF Describes, Entry, BlockOf
      <4> QED
        BY <4>1, <4>2
    <3>3. CASE heap' = heap /\ Untracks(t)
      <4>1. active'[a] = active[a]
        BY <2>2, <3>3 DEF Untracks, TypeInv, ProbesTypeOK, MapOf
      <4> QED
        BY <2>2, <3>0, <3>3, <4>1 DEF Describes
    <3>4. CASE active' = active /\ \E b \in Addrs : Gives(t, b)
      <4>1. heap'[active[a].pid][a] = heap[active[a].pid][a]
        BY <2>2, <3>0, <3>4 DEF Gives, Describes, Fn
      <4> QED
        BY <2>2, <3>0, <3>4, <4>1 DEF Describes
    <3>5. CASE active' = active /\ TakesBack(t)
      <4>1. ~(active[a].pid = ProcOf[t] /\ a = op[t].ptr)
        BY <2>2, <3>5, ProbesAssumption DEF GhostInv, TakesBack, Answers, PastMap
      <4>2. heap'[active[a].pid][a] = heap[active[a].pid][a]
        BY <2>2, <3>0, <3>5, <4>1 DEF TakesBack
      <4> QED
        BY <2>2, <3>0, <3>5, <4>2 DEF Describes
    <3>6. \/ heap' = heap
          \/ pc[t] = "libc" /\ TakesBack(t)
          \/ pc[t] = "libc" /\ \E b \in Addrs : Gives(t, b)
      BY <1>1, HeapMoves
      DEF Keeps, Begins, Finishes, Refuses, TakesBack, Gives, Answers
    <3>7. active' = active \/ (Tracks(t) /\ pc[t] = "take") \/ (Untracks(t) /\ pc[t] = "delete")
      BY <1>1, MapMoves DEF Tracks, Untracks
    <3> QED
      BY <3>1, <3>2, <3>3, <3>4, <3>5, <3>6, <3>7
  <2>3. ASSUME NEW u \in Threads \ {t}, Fn(u)' = "free", pc'[u] \in PastMap, op'[u].ptr # 0
        PROVE  active'[op'[u].ptr] = Absent \/ active'[op'[u].ptr].pid # ProcOf[u]
    <3> DEFINE a == op[u].ptr
    <3>1. /\ Fn(u) = "free" /\ pc[u] \in PastMap /\ a \in Addrs /\ op'[u].ptr = a
          /\ active[a] = Absent \/ active[a].pid # ProcOf[u]
      BY <2>0, <2>3, HereFits DEF GhostInv, Fn
    <3>2. CASE active' = active
      BY <3>1, <3>2
    <3>3. CASE Untracks(t)
      BY <3>1, <3>3 DEF Untracks, TypeInv, ProbesTypeOK, MapOf
    <3>4. CASE Tracks(t)
      <4>1. CASE a = op[t].ret
        <5>1. AddrOf(u) = a /\ AddrOf(t) = a /\ a # 0
          BY <2>3, <3>1, <3>4, <4>1, FreeAddr, TrackFacts, ProbesAssumption DEF AddrOf
        <5>2. ProcOf[u] # ProcOf[t]
          BY <5>1 DEF HeapInv, HeapAt
        <5>3. active'[a] \in {active[a], Entry(t)}
          BY <3>4, <4>1, TrackFacts
        <5> QED
          BY <3>1, <5>2, <5>3 DEF Entry
      <4>2. CASE a # op[t].ret
        BY <3>1, <3>4, <4>2, TrackFacts
      <4> QED
        BY <4>1, <4>2
    <3> QED
      BY <1>1, <3>2, <3>3, <3>4, MapMoves
  <2>4. ASSUME Fn(t)' = "free", pc'[t] \in PastMap, op'[t].ptr # 0
        PROVE  active'[op'[t].ptr] = Absent \/ active'[op'[t].ptr].pid # ProcOf[t]
    <3>0. op[t].ptr \in Addrs \cup {0} /\ op'[t].ptr = op[t].ptr
      BY <1>1, <2>4, HereFits, FreePast DEF GhostInv, Fn
    <3>1. CASE Untracks(t)
      BY <2>4, <3>0, <3>1 DEF Untracks, TypeInv, ProbesTypeOK, MapOf
    <3>2. CASE pc[t] = "untrack" /\ active[op[t].ptr] = Absent /\ active' = active
      BY <3>0, <3>2
    <3>3. CASE Fn(t) = "free" /\ pc[t] \in PastMap
      <4>1. active' = active
        BY <1>1, <3>3, MapMoves DEF Tracks, Untracks, PastMap
      <4> QED
        BY <2>4, <3>0, <3>3, <4>1 DEF GhostInv
    <3> QED
      BY <1>1, <2>4, <3>1, <3>2, <3>3, FreePast DEF GhostInv, Fn
  <2> QED
    BY <2>0, <2>1, <2>2, <2>3, <2>4 DEF GhostInv
<1>2. CASE AttachNext \/ Drain \/ UNCHANGED pvars
  <2>1. UNCHANGED <<pc, op, heap, active>> /\ attached \subseteq attached'
    BY <1>2 DEF AttachNext, Drain, pvars, app, attach, tracked
  <2> QED
    BY <2>1 DEF GhostInv, Describes, Fn
<1> QED
  BY <1>1, <1>2 DEF ProbesNext

\* active_allocs holds no ghost, on any number of CPUs and for any number of processes: an
\* entry describes the block that is there, when free's probe came before the threads and the
\* programs do not call realloc (memscope.bpf.c:182, 228).
THEOREM MapHasNoGhosts ==
  ASSUME <<"free", 0>> \in AttachedFirst, "realloc" \notin Fns
  PROVE  ProbesSpec => []NoGhosts
<1> DEFINE IInv == TypeInv /\ HeapInv /\ PendInv /\ GhostInv
<1>1. ProbesInit => IInv
  BY InitType, InitHeap, InitOne, InitGhost DEF OneInv
<1>2. IInv /\ [ProbesNext]_pvars => IInv'
  BY StepType, StepHeap, StepPend, StepGhost
<1>3. IInv => NoGhosts
  BY DEF GhostInv, NoGhosts, Describes
<1> QED
  BY <1>1, <1>2, <1>3, PTL DEF ProbesSpec

------------------------------------------------------------------------------
(***************************************************************************)
(* Nothing is missed where the maps are large enough.                      *)
(***************************************************************************)
\* A map with room for every key takes every entry.
LEMMA UpdateRoom ==
  ASSUME NEW K, IsFiniteSet(K), NEW V, NEW m \in MapOf(K, V), NEW k \in K, NEW v,
         NEW cap \in Nat, Cardinality(K) <= cap
  PROVE  Update(m, k, v, cap)[k] = v
<1> DEFINE D == {j \in DOMAIN m : m[j] # Absent}
<1>1. CASE m[k] # Absent
  BY <1>1 DEF Update, MapOf
<1>2. CASE m[k] = Absent
  <2>1. D \subseteq K \ {k}
    BY <1>2 DEF MapOf
  <2>2. IsFiniteSet(K \ {k}) /\ Cardinality(K \ {k}) = Cardinality(K) - 1
    BY FS_RemoveElement
  <2>3. Cardinality(D) <= Cardinality(K \ {k})
    BY <2>1, <2>2, FS_Subset
  <2>4. Cardinality(D) \in Nat /\ Cardinality(K) \in Nat
    BY <2>1, <2>2, FS_Subset, FS_CardinalityType
  <2>5. Cardinality(D) < cap
    BY <2>2, <2>3, <2>4
  <2> QED
    BY <2>5 DEF Update, MapOf
<1> QED
  BY <1>1, <1>2

\* Tracing starts with nothing to miss.
LEMMA InitMiss == ProbesInit => MissInv
  BY DEF ProbesInit, MissInv, Saved, NoOp, Prehistoric, Absent

\* What an entry probe saved stays for the return probe.
LEMMA StepSaved ==
  ASSUME TypeInv, NEW t \in Threads, ThreadStep(t), Saved(t),
         IsFiniteSet(Threads), Cardinality(Threads) <= PendingCap
  PROVE  Saved(t)'
<1> USE DEF Saved, BeforeTake, Fn, Goto
<1>0. /\ pc \in [Threads -> Labels] /\ op \in [Threads -> Op] /\ Fits(pc[t], op[t])
  BY DEF TypeInv, ProbesTypeOK, CallShape
<1>1. ASSUME NEW f, NEW s, NEW p, NEW l, Call(t, f, s, p, l), f \in AllocFns => l = "pend"
      PROVE  Saved(t)'
  BY <1>0, <1>1 DEF Call, Enter
<1>2. CASE CallAlloc(t) \/ CallFree(t) \/ CallMap(t)
  BY <1>1, <1>2 DEF CallAlloc, CallFree, CallMap, MapFns, AllocFns
<1>3. ASSUME NEW r, Return(t, r), pc[t] = "libc" PROVE Saved(t)'
  BY <1>0, <1>3, AnswerFields DEF Return, Answers, pendings, Fits
<1>4. CASE LibcAlloc(t) \/ LibcRealloc(t) \/ LibcFree(t) \/ LibcMap(t)
  BY <1>3, <1>4 DEF LibcAlloc, LibcRealloc, LibcFree, LibcMap
<1>5. CASE Resume(t)
  BY <1>0, <1>5 DEF Resume, Enter, NoOp, pendings, Fits
<1>6. CASE SavePending(t)
  <2>1. Fn(t) \in AllocFns
    BY <1>0, <1>6 DEF SavePending, Step, Fits, EntryLabels
  <2> DEFINE v == [size |-> op[t].size]
             m == pending[Fn(t)]
  <2>2. pending \in [AllocFns -> MapOf(Threads, [size: Sizes])]
    BY DEF TypeInv, ProbesTypeOK
  <2>3. v # Absent
    <3>1. v \in [size: {op[t].size}] /\ Absent \notin [size: {op[t].size}]
      BY DEF Absent
    <3> QED
      BY <3>1
  <2>4. Update(m, t, v, PendingCap)[t] = v
    <3>1. m \in MapOf(Threads, [size: Sizes])
      BY <2>1, <2>2
    <3> HIDE DEF m, v
    <3> QED
      BY <3>1, UpdateRoom, ProbesAssumption
  <2>5. pending' = [pending EXCEPT ![Fn(t)] = Update(m, t, v, PendingCap)] /\ op' = op
    BY <1>6 DEF SavePending, app
  <2> HIDE DEF m, v
  <2> QED
    BY <2>1, <2>2, <2>3, <2>4, <2>5
<1>7. CASE ClearStack(t) \/ WalkStack(t) \/ SetDepth(t) \/ SaveStack(t)
  BY <1>0, <1>7 DEF ClearStack, WalkStack, SetDepth, SaveStack, Step, Leave, app, pendings, Fits,
                    EntryLabels
<1>8. CASE TakePending(t)
  <2>1. CASE op' = [op EXCEPT ![t] = NoOp]
    BY <1>0, <2>1 DEF NoOp
  <2>2. CASE pc' = [pc EXCEPT ![t] = "memset"]
            /\ op' = [op EXCEPT ![t].sizeVal = pending[Fn(t)][t].size]
    <3>1. op[t].fn \in AllocFns /\ op[t].done
      BY <1>0, <1>8 DEF TakePending, Fits
    <3>2. op[t] \in AllocOp
      BY <1>0, <3>1, OpAlloc
    <3>3. op'[t] = [op[t] EXCEPT !.sizeVal = pending[Fn(t)][t].size]
      BY <1>0, <2>2
    <3>4. op'[t].done /\ pc'[t] = "memset"
      BY <1>0, <2>2, <3>1, <3>2, <3>3 DEF AllocOp
    <3> QED
      BY <3>4
  <2> QED
    BY <1>8, <2>1, <2>2 DEF TakePending
<1>9. CASE FreeProbe(t)
  BY <1>0, <1>9 DEF FreeProbe, Untrack, DeleteActive, Step, Leave, app, pendings, Fits, AllocFns
<1>10. CASE EventSteps(t)
  <2>1. CASE Emit(t)
    BY <1>0, <2>1 DEF Emit, Leave, NoOp, pendings
  <2>2. CASE ClearEvt(t) \/ FillHeader(t) \/ FillBody(t) \/ FillStack(t)
    BY <1>0, <2>2 DEF ClearEvt, FillHeader, FillBody, FillStack, Step, app, pendings, Fits
  <2> QED
    BY <1>10, <2>1, <2>2 DEF EventSteps
<1> QED
  BY <1>2, <1>4, <1>5, <1>6, <1>7, <1>8, <1>9, <1>10 DEF ThreadStep, Libc, ProbeStep, EntryProbe

\* In libc a free does nothing but give its block back.
LEMMA FreeAnswers ==
  ASSUME TypeInv, NEW t \in Threads, ThreadStep(t), Fn(t) = "free", pc[t] = "libc"
  PROVE  TakesBack(t)
<1>1. LibcFree(t)
  BY HereFits DEF ThreadStep, CallAlloc, CallFree, CallMap, Call, Libc, LibcAlloc, LibcRealloc,
     LibcMap, Resume, MapFns, ProbeStep, EntryProbe, SavePending, ClearStack, WalkStack, SetDepth,
     SaveStack, FreeProbe, Untrack, DeleteActive, TakePending, EventSteps, ClearEvt, FillHeader,
     FillBody, FillStack, Emit, Step
<1>2. Answers(t, 0)
  BY <1>1, AnswerFields DEF LibcFree
<1>3. heap \in [Procs -> MapOf(Addrs, Block)] /\ ProcOf[t] \in Procs
  BY HereFits DEF TypeInv, ProbesTypeOK
<1>4. \A p \in Procs, b \in Addrs :
        heap'[p][b] = IF p = ProcOf[t] /\ b = op[t].ptr THEN Absent ELSE heap[p][b]
  BY <1>1, <1>3 DEF LibcFree
<1> QED
  BY <1>2, <1>4 DEF TakesBack

\* How a call comes out of the stretch in which its block may be missing from the map.
LEMMA FluxMoves ==
  ASSUME TypeInv, NEW t \in Threads, ThreadStep(t), NEW a \in Addrs, InFlux(t, a)
  PROVE  \/ InFlux(t, a)' \/ TakesBack(t)
         \/ op[t].done /\ pc[t] = "return" /\ ~op[t].hooked
         \/ op[t].done /\ TakePending(t)
<1> USE DEF InFlux, PastMap, Fn, Goto, AddrOf
<1>0. /\ pc \in [Threads -> Labels] /\ op \in [Threads -> Op] /\ Fits(pc[t], op[t])
      /\ 0 \notin Addrs
  BY ProbesAssumption DEF TypeInv, ProbesTypeOK, CallShape
<1>1. CASE op[t].done
  <2>1. pc[t] \in {"return", "take"}
    BY <1>0, <1>1 DEF Fits, AllocFns
  <2>2. CASE TakePending(t)
    BY <1>1, <2>2
  <2>3. CASE Resume(t)
    BY <1>0, <1>1, <2>3 DEF Resume, Enter
  <2> QED
    BY <2>1, <2>2, <2>3 DEF ThreadStep, CallAlloc, CallFree, CallMap, Call, Libc, LibcAlloc,
       LibcRealloc, LibcFree, LibcMap, ProbeStep, EntryProbe, SavePending, ClearStack, WalkStack,
       SetDepth, SaveStack, FreeProbe, Untrack, DeleteActive, EventSteps, ClearEvt, FillHeader,
       FillBody, FillStack, Emit, Step
<1>2. CASE ~op[t].done
  <2>0. op[t].fn = "free" /\ pc[t] \in PastMap \cup {"delete"}
    BY <1>2
  <2>1. CASE Libc(t)
    <3>1. pc[t] = "libc"
      BY <2>0, <2>1 DEF Libc, LibcAlloc, LibcRealloc, LibcFree, LibcMap, Resume
    <3> QED
      BY <2>0, <3>1, FreeAnswers
  <2>2. CASE DeleteActive(t)
    BY <1>0, <1>2, <2>0, <2>2 DEF DeleteActive, Step, app
  <2>3. CASE EventSteps(t)
    BY <1>0, <1>2, <2>0, <2>3 DEF EventSteps, ClearEvt, FillHeader, FillBody, FillStack, Emit, Step,
       Leave, app
  <2> QED
    BY <1>0, <2>0, <2>1, <2>2, <2>3 DEF ThreadStep, CallAlloc, CallFree, CallMap, Call, ProbeStep,
       EntryProbe, SavePending, ClearStack, WalkStack, SetDepth, SaveStack, FreeProbe, Untrack,
       TakePending, Step
<1> QED
  BY <1>1, <1>2

\* One traced process: no other's block takes the place of its entry.
OneProcess == \A t, u \in Threads : ProcOf[t] = ProcOf[u]

\* No step of the probes loses a traced block.
LEMMA StepMiss ==
  ASSUME TypeInv, HeapInv, MissInv, OneProcess, [ProbesNext]_pvars,
         IsFiniteSet(Threads), Cardinality(Threads) <= PendingCap,
         IsFiniteSet(Addrs), Cardinality(Addrs) <= ActiveCap
  PROVE  MissInv'
<1>0. active \in MapOf(Addrs, AllocInfo)
  BY DEF TypeInv, ProbesTypeOK
<1>1. ASSUME NEW t \in Threads, ThreadStep(t) PROVE MissInv'
  <2>0. \A u \in Threads \ {t} :
          /\ pc'[u] = pc[u] /\ op'[u] = op[u]
          /\ \A f \in AllocFns : pending'[f][u] = pending[f][u]
    BY <1>1, StepOwn DEF Own
  <2>1. \A u \in Threads : Saved(u)'
    <3>1. \A u \in Threads \ {t} : Saved(u)'
      BY <2>0 DEF MissInv, Saved, BeforeTake, Fn
    <3>2. Saved(t)'
      BY <1>1, StepSaved DEF MissInv
    <3> QED
      BY <3>1, <3>2
  <2>2. \A a \in Addrs : active[a] # Absent => \/ active'[a] # Absent
                                               \/ Untracks(t) /\ a = op[t].ptr
    BY <1>0, <1>1, MapMoves, TrackFacts DEF Untracks, MapOf
  <2>3. \A a \in Addrs : active'[a] # Absent => active'[a].pid \in Procs
    <3>1. \A a \in Addrs : active'[a] \in {active[a], Entry(t), Absent}
      BY <1>0, <1>1, MapMoves, TrackFacts DEF Untracks, MapOf
    <3> QED
      BY <3>1, HereFits DEF MissInv, Entry
  <2>4. ASSUME NEW p \in Procs, NEW a \in Addrs, heap'[p][a] # Absent, heap'[p][a].traced
        PROVE  active'[a] # Absent \/ \E u \in Threads : ProcOf[u] = p /\ InFlux(u, a)'
    <3>0. \A u \in Threads : ProcOf[u] = p
      BY DEF OneProcess, Procs
    <3>1. CASE heap'[p][a] = heap[p][a] /\ active[a] # Absent
      <4>1. CASE Untracks(t) /\ a = op[t].ptr
        <5>1. ~op[t].done
          BY <4>1, HereFits DEF Untracks, Fits
        <5>2. InFlux(t, a)'
          BY <4>1, <5>1 DEF Untracks, InFlux, PastMap, AddrOf, Fn
        <5> QED
          BY <3>0, <5>2
      <4> QED
        BY <2>2, <3>1, <4>1
    <3>2. ASSUME heap'[p][a] = heap[p][a], NEW u \in Threads, InFlux(u, a), ~TakesBack(t)
          PROVE  active'[a] # Absent \/ InFlux(u, a)'
      <4>1. CASE u # t
        BY <2>0, <3>2, <4>1 DEF InFlux, AddrOf, Fn
      <4>2. CASE u = t /\ op[t].done
        <5>1. op[t].ret = a /\ heap[p][a] = BlockOf(t)
          BY <3>0, <3>2, <4>2, ProbesAssumption DEF InFlux, AddrOf, HeapInv, HeapAt
        <5>2. op[t].entered /\ op[t].hooked
          <6>1. BlockOf(t).traced
            BY <2>4, <3>2, <5>1
          <6>2. BlockOf(t).traced = (op[t].entered /\ op[t].hooked)
            BY DEF BlockOf
          <6> QED
            BY <6>1, <6>2
        <5>3. CASE TakePending(t)
          <6>1. Fn(t) \in AllocFns /\ pc[t] = "take"
            BY <5>3, HereFits DEF TakePending, Fits, Fn
          <6>2. pending[Fn(t)][t] # Absent
            BY <5>2, <6>1 DEF MissInv, Saved, BeforeTake
          <6>3. active' = Update(active, a, Entry(t), ActiveCap)
            BY <5>1, <5>3, <6>2, ProbesAssumption DEF TakePending, Entry
          <6>4. Tracks(t)
            BY <5>1, <5>3, <6>1, <6>2, <6>3, ProbesAssumption DEF Tracks, TakePending, Goto,
               TypeInv, ProbesTypeOK
          <6>5. Entry(t) # Absent
            BY <6>4, TrackFacts
          <6>6. active'[a] = Entry(t)
            BY <1>0, <6>3, UpdateRoom, ProbesAssumption
          <6> QED
            BY <6>5, <6>6
        <5> QED
          BY <1>1, <3>2, <4>2, <5>2, <5>3, FluxMoves
      <4>3. CASE u = t /\ ~op[t].done
        BY <1>1, <3>2, <4>3, FluxMoves
      <4> QED
        BY <4>1, <4>2, <4>3
    <3>3. CASE heap'[p][a] = heap[p][a] /\ active[a] = Absent /\ ~TakesBack(t)
      <4>1. PICK u \in Threads : InFlux(u, a)
        BY <2>4, <3>3 DEF MissInv
      <4> QED
        BY <3>0, <3>2, <3>3, <4>1
    <3>4. CASE TakesBack(t)
      <4>1. a # op[t].ptr /\ heap'[p][a] = heap[p][a]
        BY <2>4, <3>0, <3>4 DEF TakesBack
      <4>2. CASE active[a] = Absent
        <5>1. PICK u \in Threads : InFlux(u, a)
          BY <2>4, <4>1, <4>2 DEF MissInv
        <5>2. AddrOf(t) = op[t].ptr
          BY <3>4, HereFits DEF TakesBack, Answers, Fits, AddrOf
        <5>3. u # t
          BY <4>1, <5>1, <5>2 DEF InFlux
        <5>4. InFlux(u, a)'
          BY <2>0, <5>1, <5>3 DEF InFlux, AddrOf, Fn
        <5> QED
          BY <3>0, <5>4
      <4> QED
        BY <3>1, <4>1, <4>2
    <3>5. CASE \E b \in Addrs : Gives(t, b)
      <4> PICK b \in Addrs : Gives(t, b)
        BY <3>5
      <4>1. CASE a = b
        <5>1. InFlux(t, a)'
          BY <4>1 DEF Gives, Answers, InFlux, AddrOf
        <5> QED
          BY <3>0, <5>1
      <4>2. CASE a # b
        <5>1. heap'[p][a] = heap[p][a] /\ pc[t] = "libc" /\ Fn(t) # "free"
          BY <2>4, <3>0, <4>2 DEF Gives, Answers, AllocFns
        <5>2. ~TakesBack(t)
          BY <5>1 DEF TakesBack
        <5> QED
          BY <3>1, <3>3, <5>1, <5>2
      <4> QED
        BY <4>1, <4>2
    <3>6. CASE heap' = heap /\ ~TakesBack(t)
      BY <3>1, <3>3, <3>6
    <3> QED
      BY <1>1, <3>4, <3>5, <3>6, HeapMoves DEF Keeps, Begins, Finishes, Refuses
  <2> QED
    BY <2>1, <2>3, <2>4 DEF MissInv
<1>2. CASE AttachNext \/ Drain \/ UNCHANGED pvars
  <2>1. UNCHANGED <<pc, op, heap, active, pending>>
    BY <1>2 DEF AttachNext, Drain, pvars, app, tracked, pendings
  <2> QED
    BY <2>1 DEF MissInv, Saved, BeforeTake, InFlux, AddrOf, Fn
<1> QED
  BY <1>1, <1>2 DEF ProbesNext

\* active_allocs misses nothing of one traced process, on any number of CPUs, whichever
\* programs were attached when, and with realloc (memscope.bpf.c:156-182, 223-229).
THEOREM MapMissesNothing ==
  ASSUME OneProcess, IsFiniteSet(Threads), IsFiniteSet(Addrs)
  PROVE  ProbesSpec => []NothingMissed
<1> DEFINE Room == Cardinality(Addrs) <= ActiveCap /\ Cardinality(Threads) <= PendingCap
           IInv == TypeInv /\ HeapInv /\ (Room => MissInv)
<1>1. ProbesInit => IInv
  BY InitType, InitHeap, InitMiss
<1>2. IInv /\ [ProbesNext]_pvars => IInv'
  BY StepType, StepHeap, StepMiss
<1>3. IInv => NothingMissed
  <2> SUFFICES ASSUME IInv, Room, NEW p \in Procs, NEW a \in Addrs,
                      heap[p][a] # Absent, heap[p][a].traced, Settled(p, a)
               PROVE  active[a] # Absent /\ active[a].pid = p
    BY DEF NothingMissed
  <2>1. \A u \in Threads : ProcOf[u] = p => ~InFlux(u, a)
    <3> SUFFICES ASSUME NEW u \in Threads, ProcOf[u] = p, InFlux(u, a) PROVE FALSE
      OBVIOUS
    <3>1. pc[u] # "run" /\ a \in {op[u].ptr, op[u].ret}
      BY DEF InFlux, PastMap, AddrOf
    <3> QED
      BY <3>1 DEF Settled, InUse
  <2> QED
    BY <2>1 DEF MissInv, OneProcess, Procs
<1> QED
  BY <1>1, <1>2, <1>3, PTL DEF ProbesSpec
==============================================================================
