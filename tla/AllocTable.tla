------------------------------ MODULE AllocTable ------------------------------
(***************************************************************************)
(* The allocation table of the collector (collector.c): a growing array of *)
(* records, chained through hash_next into hash buckets, and the event     *)
(* handler that feeds it from the ring buffer.                             *)
(*                                                                         *)
(* Arrays are functions over 0 .. length-1 as in C; -1 ends a chain.  The  *)
(* lengths really allocated (recLen, nextLen) are kept apart from          *)
(* tbl->capacity, because alloc_table_grow can fail between its two        *)
(* reallocs.  The walk of find_live_alloc is one step per link.            *)
(*                                                                         *)
(* Events come in any order of their timestamps: a probe reads the clock   *)
(* (memscope.bpf.c:178) before it emits (:212), and another CPU may emit   *)
(* in between.                                                             *)
(***************************************************************************)
EXTENDS Integers, Sequences

CONSTANTS Addrs,       \* addresses that occur in events
          Pids,        \* processes that occur in events, positive
          Buckets,     \* hash_buckets indices
          Hash,        \* alloc_hash(addr) & (hash_size - 1)
          TargetPid,   \* cctx->target_pid; 0 records every process
          InitialCap,  \* alloc_table_init's capacity
          Times,       \* event timestamps, positive
          MaxEvents    \* bound: how many allocations and frees are accepted

ASSUME TableAssumption ==
  /\ Hash \in [Addrs -> Buckets]
  /\ Pids \subseteq Nat \ {0}
  /\ TargetPid \in Nat
  /\ InitialCap \in Nat \ {0}
  /\ Times \subseteq Nat \ {0}
  /\ MaxEvents \in Nat

VARIABLES records,   \* tbl->records[0 .. count-1]
          count,     \* tbl->count
          capacity,  \* tbl->capacity
          recLen,    \* elements allocated for tbl->records
          nextLen,   \* elements allocated for tbl->hash_next
          next,      \* tbl->hash_next
          buckets,   \* tbl->hash_buckets
          pc,        \* "poll": in ring_buffer__poll; "walk": in find_live_alloc
          ev,        \* the event handle_event is working on
          idx,       \* idx of find_live_alloc
          log        \* history: the allocations and frees accepted, and the
                     \* record each one opened or closed (-1 for none)

table == <<records, count, capacity, recLen, nextLen, next, buckets>>
walk == <<pc, ev, idx>>
vars == <<records, count, capacity, recLen, nextLen, next, buckets, pc, ev, idx, log>>

Ledger == INSTANCE AllocLedger WITH records <- records, count <- count

AllocReturns == {"MALLOC_RETURN", "CALLOC_RETURN", "REALLOC_RETURN"}
Ignored == {"REALLOC_ENTRY", "MMAP", "MUNMAP", "STACK_SAMPLE"}
Event == [type: AllocReturns \cup Ignored \cup {"FREE"},
          addr: Addrs, pid: Pids, ts: Times]
NoEvent == [type |-> "NONE"]

\* What became of an event.
Entry(e, rec) ==
  [free |-> e.type = "FREE", addr |-> e.addr, pid |-> e.pid, ts |-> e.ts, rec |-> rec]

Init ==
  /\ records = [i \in {} |-> Ledger!NewRecord(i, i, i)]
  /\ count = 0
  /\ capacity = InitialCap /\ recLen = InitialCap /\ nextLen = InitialCap
  /\ next = [i \in 0 .. InitialCap-1 |-> -1]
  /\ buckets = [b \in Buckets |-> -1]
  /\ pc = "poll"
  /\ ev = NoEvent
  /\ idx = -1
  /\ log = <<>>
------------------------------------------------------------------------------
Accepts(e) == TargetPid = 0 \/ e.pid = TargetPid

\* Mutant: r->live is not tested.
MatchesDead(r, a) == r.addr = a

\* find_live_alloc's test on one record.
Matches(r, a) == r.live /\ r.addr = a

\* Mutant: the capacity test is off by one.
FullLate == count > capacity

Full == count >= capacity

\* Mutant: alloc_table_insert_hash forgets hash_next (line 81).
StoreUnlinked(rec, nx) ==
  /\ records' = [i \in 0 .. count |-> IF i = count THEN rec ELSE records[i]]
  /\ next' = [nx EXCEPT ![count] = -1]
  /\ buckets' = [buckets EXCEPT ![Hash[rec.addr]] = count]
  /\ count' = count + 1

\* Mutant: lines 81 and 82 swapped, the record is chained to itself.
StoreSelfLinked(rec, nx) ==
  /\ records' = [i \in 0 .. count |-> IF i = count THEN rec ELSE records[i]]
  /\ next' = [nx EXCEPT ![count] = count]
  /\ buckets' = [buckets EXCEPT ![Hash[rec.addr]] = count]
  /\ count' = count + 1

\* add_alloc_record past the capacity test: store the record, link it in
\* front of its chain.  nx and len are hash_next as the growth left it.
Store(rec, nx) ==
  LET b == Hash[rec.addr] IN
  /\ records' = [i \in 0 .. count |-> IF i = count THEN rec ELSE records[i]]
  /\ next' = [nx EXCEPT ![count] = buckets[b]]
  /\ buckets' = [buckets EXCEPT ![b] = count]
  /\ count' = count + 1

Receive(e) == pc = "poll" /\ Accepts(e) /\ Len(log) < MaxEvents

\* handle_event dealt with e: rec is the record it opened or closed.
Logged(e, rec) == log' = Append(log, Entry(e, rec))

\* MALLOC/CALLOC/REALLOC_RETURN with room left.
OnAlloc(e) ==
  /\ Receive(e) /\ e.type \in AllocReturns
  /\ ~Full
  /\ Store(Ledger!NewRecord(e.addr, e.pid, e.ts), next) /\ Logged(e, count)
  /\ UNCHANGED <<capacity, recLen, nextLen, walk>>

\* Mutant: the loop of lines 71-72 starts at 0 and cuts every chain.
GrowResets(e) ==
  /\ Receive(e) /\ e.type \in AllocReturns
  /\ Full
  /\ capacity' = 2 * capacity /\ recLen' = 2 * capacity /\ nextLen' = 2 * capacity
  /\ Store(Ledger!NewRecord(e.addr, e.pid, e.ts), [i \in 0 .. 2*capacity-1 |-> -1])
  /\ Logged(e, count)
  /\ UNCHANGED walk

\* The same with a full table: alloc_table_grow doubles both arrays.
OnAllocGrow(e) ==
  /\ Receive(e) /\ e.type \in AllocReturns
  /\ Full
  /\ capacity' = 2 * capacity /\ recLen' = 2 * capacity /\ nextLen' = 2 * capacity
  /\ Store(Ledger!NewRecord(e.addr, e.pid, e.ts),
           [i \in 0 .. 2*capacity-1 |-> IF i < capacity THEN next[i] ELSE -1])
  /\ Logged(e, count)
  /\ UNCHANGED walk

\* realloc(records) fails: -ENOMEM, which handle_event ignores; the event is lost.
OnAllocNoRecords(e) ==
  /\ Receive(e) /\ e.type \in AllocReturns
  /\ Full
  /\ Logged(e, -1)
  /\ UNCHANGED <<table, walk>>

\* Mutant: the new capacity is stored before hash_next has grown.
CapacityFirst(e) ==
  /\ Receive(e) /\ e.type \in AllocReturns
  /\ Full
  /\ recLen' = 2 * capacity /\ capacity' = 2 * capacity /\ Logged(e, -1)
  /\ UNCHANGED <<records, count, nextLen, next, buckets, walk>>

\* realloc(hash_next) fails after realloc(records) succeeded.
OnAllocNoNext(e) ==
  /\ Receive(e) /\ e.type \in AllocReturns
  /\ Full
  /\ recLen' = 2 * capacity /\ Logged(e, -1)
  /\ UNCHANGED <<records, count, capacity, nextLen, next, buckets, walk>>

\* FREE: enter find_live_alloc at the head of the address's chain.
OnFree(e) ==
  /\ Receive(e) /\ e.type = "FREE"
  /\ pc' = "walk" /\ ev' = e /\ idx' = buckets[Hash[e.addr]]
  /\ Logged(e, -1)
  /\ UNCHANGED table

\* One turn of the while loop past a record that does not match.
WalkOn ==
  /\ pc = "walk" /\ idx >= 0 /\ ~Matches(records[idx], ev.addr)
  /\ idx' = next[idx]
  /\ UNCHANGED <<table, pc, ev, log>>

\* Mutant: timestamp_free is not set (line 215).
HitUnstamped ==
  /\ pc = "walk" /\ idx >= 0 /\ Matches(records[idx], ev.addr)
  /\ records' = [records EXCEPT ![idx].live = FALSE]
  /\ pc' = "poll" /\ log' = [log EXCEPT ![Len(log)].rec = idx]
  /\ UNCHANGED <<count, capacity, recLen, nextLen, next, buckets, ev, idx>>

\* The record is found: handle_event marks it freed.
WalkHit ==
  /\ pc = "walk" /\ idx >= 0 /\ Matches(records[idx], ev.addr)
  /\ records' = [records EXCEPT ![idx].live = FALSE, ![idx].freed = ev.ts]
  /\ pc' = "poll" /\ log' = [log EXCEPT ![Len(log)].rec = idx]
  /\ UNCHANGED <<count, capacity, recLen, nextLen, next, buckets, ev, idx>>

\* End of the chain: NULL, the free is not recorded.
WalkMiss ==
  /\ pc = "walk" /\ idx < 0
  /\ pc' = "poll"
  /\ UNCHANGED <<table, ev, idx, log>>

\* An event the switch breaks out of.
OnIgnored(e) ==
  /\ pc = "poll" /\ Accepts(e) /\ e.type \in Ignored
  /\ UNCHANGED vars

\* An event of another process than the target's.
OnFiltered(e) ==
  /\ pc = "poll" /\ ~Accepts(e)
  /\ UNCHANGED vars

\* ring_buffer__poll times out with nothing to deliver.
PollTimeout == pc = "poll" /\ UNCHANGED vars

Walk == WalkOn \/ WalkHit \/ WalkMiss

Next ==
  \/ \E e \in Event :
       \/ OnAlloc(e)
       \/ OnAllocGrow(e)
       \/ OnAllocNoRecords(e)
       \/ OnAllocNoNext(e)
       \/ OnFree(e)
       \/ OnIgnored(e)
       \/ OnFiltered(e)
  \/ WalkOn \/ WalkHit \/ WalkMiss
  \/ PollTimeout

\* handle_event runs on the collector's only thread and blocks on nothing.
Spec == Init /\ [][Next]_vars /\ WF_vars(Walk)
------------------------------------------------------------------------------
Record == Ledger!Record
Logs == [free: BOOLEAN, addr: Addrs, pid: Pids, ts: Times, rec: Int]

\* Every variable keeps its type, and the records stored fit the capacity.
TypeOK ==
  /\ count \in Nat /\ capacity \in Nat \ {0} /\ count <= capacity
  /\ recLen \in Nat /\ nextLen \in Nat
  /\ records \in [0 .. count-1 -> Record]
  /\ next \in [0 .. nextLen-1 -> Int]
  /\ buckets \in [Buckets -> Int]
  /\ pc \in {"poll", "walk"}
  /\ ev \in Event \cup {NoEvent}
  /\ pc = "walk" => ev \in Event /\ Len(log) # 0
  /\ idx \in Int
  /\ log \in Seq(Logs)

(***************************************************************************)
(* Both arrays are at least as long as the capacity the next write is      *)
(* tested against, also after a growth that failed half-way                *)
(* (collector.c:61-69): no record or link is ever stored out of bounds.    *)
(***************************************************************************)
CapacityBacked == capacity <= recLen /\ capacity <= nextLen

BucketOf(i) == Hash[records[i].addr]

\* j is the last record before n in bucket b, or -1 when there is none.
LastIn(b, n, j) ==
  /\ j \in -1 .. n-1
  /\ j # -1 => BucketOf(j) = b
  /\ \A k \in 0 .. n-1 : j < k => BucketOf(k) # b

(***************************************************************************)
(* The hash chains are exact: a bucket leads to its newest record and each *)
(* record to the one before it in the same bucket.  So a chain ends, holds *)
(* every record of its bucket once, newest first, across every growth.     *)
(***************************************************************************)
ChainsExact ==
  /\ \A b \in Buckets : LastIn(b, count, buckets[b])
  /\ \A i \in 0 .. count-1 : LastIn(BucketOf(i), i, next[i])

(***************************************************************************)
(* find_live_alloc has left no match behind: while it walks, no record     *)
(* newer than the cursor is live at the address being freed, and the       *)
(* cursor is in that address's chain.                                      *)
(***************************************************************************)
NothingSkipped ==
  pc = "walk" =>
    /\ idx \in -1 .. count-1
    /\ idx # -1 => BucketOf(idx) = Hash[ev.addr]
    /\ \A k \in 0 .. count-1 : idx < k => ~Matches(records[k], ev.addr)

\* The inductive invariant of the table.
TableInv == TypeOK /\ CapacityBacked /\ ChainsExact /\ NothingSkipped

\* The entries of the log that opened and that closed record i.
Opens(p, i) == ~log[p].free /\ log[p].rec = i
Closes(q, i) == log[q].free /\ log[q].rec = i

\* Every record is the trace of one allocation, with its address, process and time.
RecordsOpened ==
  \A i \in 0 .. count-1 :
    /\ \E p \in DOMAIN log : Opens(p, i)
    /\ \A p \in DOMAIN log : Opens(p, i) =>
         records[i].addr = log[p].addr /\ records[i].pid = log[p].pid /\ records[i].born = log[p].ts

\* A record is dead iff a free closed it: one only, of its address, after its allocation;
\* timestamp_free is that free's time, 0 while the record is live.
RecordsClosed ==
  /\ \A i \in 0 .. count-1 :
       /\ records[i].live <=> \A q \in DOMAIN log : ~Closes(q, i)
       /\ records[i].live <=> records[i].freed = 0
  /\ \A q \in DOMAIN log : log[q].free /\ log[q].rec # -1 =>
       /\ records[log[q].rec].addr = log[q].addr /\ records[log[q].rec].freed = log[q].ts
       /\ \E p \in 1 .. q-1 : Opens(p, log[q].rec)
       /\ \A r \in DOMAIN log : Closes(r, log[q].rec) => r = q

\* A free passes over no allocation: whatever came before it at its address, and later
\* than the record it closed (or at all, when it closed none), had been closed by then
\* or was dropped for want of memory.
NewestFirst ==
  \A q \in DOMAIN log : log[q].free /\ (pc = "walk" => q # Len(log)) =>
    \A p \in 1 .. q-1 :
      ~log[p].free /\ log[p].addr = log[q].addr /\ log[p].rec > log[q].rec =>
        \E r \in 1 .. q-1 : Closes(r, log[p].rec)

(***************************************************************************)
(* Frees and allocations are paired: over everything that was received, in *)
(* any order of timestamps, a free belongs to the latest allocation of its *)
(* address that was stored and not yet freed.  Only an allocation dropped  *)
(* by a failed growth (collector.c:153) is passed over, so only then can   *)
(* a free close an older record than its own.                              *)
(***************************************************************************)
FreesPaired == RecordsOpened /\ RecordsClosed /\ NewestFirst

(***************************************************************************)
(* The table implements the ledger: whatever the chains, growths and lost  *)
(* reallocs, an allocation event appends one live record or is dropped     *)
(* whole, and a free closes the newest live record of its address only.    *)
(***************************************************************************)
ImplementsLedger == Ledger!Spec

(***************************************************************************)
(* handle_event returns to the poll loop: a lookup that was entered ends,  *)
(* so the collector cannot hang inside the callback on a cyclic chain.     *)
(***************************************************************************)
LookupEnds == pc = "walk" ~> pc = "poll"
==============================================================================
