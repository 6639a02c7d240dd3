------------------------------- MODULE MemScope -------------------------------
(***************************************************************************)
(* The tracing pipeline: the probes write events into the ring buffer, and *)
(* the collector's handle_event reads them, one at a time and in order,    *)
(* into its allocation records.  The records are kept here as the ledger   *)
(* of AllocLedger, a sequence; AllocTable shows how the hash table of      *)
(* collector.c implements it.                                              *)
(***************************************************************************)
EXTENDS Probes, FiniteSetsExt

CONSTANT TargetPid       \* --pid; 0 records every process

ASSUME TargetAssumption == TargetPid \in Nat

VARIABLE records         \* cctx->table, in arrival order

vars == <<pc, op, cpu, calls, heap, attached, nextProbe, pending, pstack,
          tmpStack, tmpEvt, active, completed, ring, records>>

Record == [addr: Addrs, pid: Nat, tid: Threads, size: Sizes, live: BOOLEAN]

Init == ProbesInit /\ records = <<>>

Accepts(pid) == TargetPid = 0 \/ pid = TargetPid

AllocReturns == {"MALLOC_RETURN", "CALLOC_RETURN", "REALLOC_RETURN"}

LiveAt(a) == {i \in DOMAIN records : records[i].live /\ records[i].addr = a}

\* Mutant: the consumer position skips to the producer's, the batch is lost.
ReceivedBatch(e) == ring # <<>> /\ e = Head(ring) /\ ring' = <<>>

\* handle_event on the oldest event of the ring.
Received(e) == ring # <<>> /\ e = Head(ring) /\ ring' = Tail(ring)

\* Mutant: an address that is live already gets no second record.
RecordAllocOnce ==
  \E e \in {ring[i] : i \in DOMAIN ring} :
    /\ Received(e) /\ Accepts(e.pid) /\ e.type \in AllocReturns
    /\ records' = IF LiveAt(e.addr) # {} THEN records ELSE
         Append(records, [addr |-> e.addr, pid |-> e.pid, tid |-> e.tid,
                          size |-> e.size, live |-> TRUE])

RecordAlloc ==
  \E e \in {ring[i] : i \in DOMAIN ring} :
    /\ Received(e) /\ Accepts(e.pid) /\ e.type \in AllocReturns
    /\ records' = Append(records, [addr |-> e.addr, pid |-> e.pid, tid |-> e.tid,
                                   size |-> e.size, live |-> TRUE])

RecordFree ==
  \E e \in {ring[i] : i \in DOMAIN ring} :
    /\ Received(e) /\ Accepts(e.pid) /\ e.type = "FREE"
    /\ \/ LiveAt(e.addr) = {} /\ UNCHANGED records
       \/ /\ LiveAt(e.addr) # {}
          /\ records' = [records EXCEPT ![Max(LiveAt(e.addr))].live = FALSE]

RecordNothing ==
  \E e \in {ring[i] : i \in DOMAIN ring} :
    /\ Received(e)
    /\ ~Accepts(e.pid) \/ e.type \notin AllocReturns \cup {"FREE"}
    /\ UNCHANGED records

HandleEvent ==
  /\ RecordAlloc \/ RecordFree \/ RecordNothing
  /\ UNCHANGED <<pc, cpu, app, attach, pendings, scratch, tracked>>

Next ==
  \/ \E t \in Threads : ThreadStep(t) /\ UNCHANGED records
  \/ AttachNext /\ UNCHANGED records
  \/ HandleEvent

(***************************************************************************)
(* The collector keeps polling; a call that was entered goes on, in libc   *)
(* and in its probes.  Nothing makes a thread call again.                  *)
(***************************************************************************)
Spec ==
  /\ Init /\ [][Next]_vars
  /\ WF_vars(HandleEvent)
  /\ \A t \in Threads : WF_vars((Libc(t) \/ ProbeStep(t)) /\ UNCHANGED records)
------------------------------------------------------------------------------
TypeOK == ProbesTypeOK /\ records \in Seq(Record)

\* Nothing is under way: no call, no event on its way to the collector.
Quiet == ring = <<>> /\ \A t \in Threads : pc[t] = "run"

LiveBlocks(p) ==
  {[addr |-> a, tid |-> heap[p][a].tid, size |-> heap[p][a].size] :
     a \in {b \in Addrs : heap[p][b] # Absent /\ heap[p][b].traced}}

LiveRecords(p) == {i \in DOMAIN records : records[i].live /\ records[i].pid = p}

\* The live records of each recorded process are its traced blocks, one record
\* each, with the block's size and the thread that allocated it.
RecordsMatchHeap ==
  \A p \in Procs : Accepts(p) =>
    /\ {[addr |-> records[i].addr, tid |-> records[i].tid, size |-> records[i].size] :
          i \in LiveRecords(p)} = LiveBlocks(p)
    /\ Cardinality(LiveRecords(p)) = Cardinality(LiveBlocks(p))

(***************************************************************************)
(* The collector's answer is right: once nothing is under way, the records *)
(* that a user reads as live are exactly the blocks still allocated.       *)
(***************************************************************************)
LedgerExact == Quiet => RecordsMatchHeap

(***************************************************************************)
(* No leak is hidden: once nothing is under way, each block whose          *)
(* allocation was traced has a live record of its own size and thread,     *)
(* whichever programs were attached when, and whichever failed to attach   *)
(* (collector.c:291-316).  Stale live records may stand beside it.         *)
(***************************************************************************)
NoLeakHidden ==
  Quiet => \A p \in Procs : Accepts(p) =>
    LiveBlocks(p) \subseteq
      {[addr |-> records[i].addr, tid |-> records[i].tid, size |-> records[i].size] :
         i \in LiveRecords(p)}

(***************************************************************************)
(* At no moment, also with events in flight, are two records of a process  *)
(* live at one address: a block's FREE always reaches the collector before *)
(* the RETURN of the next block placed there.                              *)
(***************************************************************************)
OneLiveRecord ==
  \A p \in Procs : \A i, j \in LiveRecords(p) :
    records[i].addr = records[j].addr => i = j

(***************************************************************************)
(* The collector catches up: whenever the records differ from the heap     *)
(* because events are on their way, they agree with it again later.        *)
(***************************************************************************)
CatchesUp == ~RecordsMatchHeap ~> RecordsMatchHeap
==============================================================================
