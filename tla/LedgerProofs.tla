----------------------------- MODULE LedgerProofs -----------------------------
(***************************************************************************)
(* Proofs about what the collector's records say of the traced heap, on    *)
(* one CPU, of one recorded process: no block is forgotten, and where free *)
(* is probed from the start the records are exact.                         *)
(***************************************************************************)
EXTENDS MemScopeProofs, HeapProofs

\* The ring has room for the event: bpf_ringbuf_output does not fail.
NoDrop == \A t \in Threads : Emit(t) => Len(ring) < RingCap

\* The records are those of one process.
OneRecorded == \A p, q \in Procs : Accepts(p) /\ Accepts(q) => p = q

(***************************************************************************)
(* The events on their way that are about one block address.               *)
(***************************************************************************)
About(e, p, a) == e.pid = p /\ e.addr = a /\ e.type \in AllocReturns \cup {"FREE"}
Allocates(e, p, a) == About(e, p, a) /\ e.type # "FREE"
Frees(e, p, a) == About(e, p, a) /\ e.type = "FREE"
Silent(p, a, from) == \A j \in from .. Len(ring) : ~About(ring[j], p, a)
LiveOf(p, a) == {k \in 1 .. Len(records) : /\ records[k].live /\ records[k].pid = p
                                           /\ records[k].addr = a}

\* Once the events there are have been handled, a live record at a says size s, thread u.
Tells(p, a, s, u) ==
  \/ \E i \in 1 .. Len(ring) :
       /\ Allocates(ring[i], p, a) /\ ring[i].size = s /\ ring[i].tid = u
       /\ Silent(p, a, i + 1)
  \/ /\ Silent(p, a, 1)
     /\ \E k \in LiveOf(p, a) : records[k].size = s /\ records[k].tid = u

\* Once they have been handled, no record at a is live.
Closed(p, a) ==
  \/ \E i \in 1 .. Len(ring) : Frees(ring[i], p, a) /\ Silent(p, a, i + 1)
  \/ Silent(p, a, 1) /\ LiveOf(p, a) = {}

(***************************************************************************)
(* A call that is about to announce its result, or has announced that it   *)
(* frees a, keeps a from being a block that the records have to know.      *)
(***************************************************************************)
Busy(p, a) ==
  \E t \in Threads :
    /\ ProcOf[t] = p
    /\ \/ op[t].done /\ op[t].ret = a
       \/ Fn(t) = "free" /\ pc[t] = "libc" /\ op[t].ptr = a
Idle(p, a) == heap[p][a] = Absent \/ ~heap[p][a].traced \/ Busy(p, a)

SourceInv ==
  /\ \A i \in 1 .. Len(ring) : ring[i].pid \in Procs
  /\ \A k \in 1 .. Len(records) : Accepts(records[k].pid)

\* The records tell of every block.
ToldInv ==
  \A p \in Procs, a \in Addrs :
    Accepts(p) /\ ~Idle(p, a) => Tells(p, a, heap[p][a].size, heap[p][a].tid)

\* They tell of nothing else.
ClosedInv == \A p \in Procs, a \in Addrs : Accepts(p) /\ Idle(p, a) => Closed(p, a)

\* Allocations and frees of an address alternate: the events on their way, and the live
\* record before them.
Alternate(p, a) ==
  /\ \A k, l \in LiveOf(p, a) : k = l
  /\ \A i, j \in 1 .. Len(ring) :
       i < j /\ Allocates(ring[i], p, a) /\ Allocates(ring[j], p, a) =>
         \E k \in i + 1 .. j - 1 : Frees(ring[k], p, a)
  /\ \A i \in 1 .. Len(ring) :
       LiveOf(p, a) # {} /\ Allocates(ring[i], p, a) =>
         \E k \in 1 .. i - 1 : Frees(ring[k], p, a)
AlternateInv == \A p \in Procs, a \in Addrs : Accepts(p) => Alternate(p, a)

\* A call whose entry probe did not run finds no entry, and announces nothing; an event of a
\* result comes from a call whose return was probed.
TracedAt(t) ==
  /\ Fn(t) \in AllocFns /\ ~op[t].entered =>
       pending[Fn(t)][t] = Absent /\ pc[t] \in {"libc", "return", "take"}
  /\ op[t].done /\ pc[t] # "return" => op[t].hooked
TracedInv == \A t \in Threads : TracedAt(t)

------------------------------------------------------------------------------
(***************************************************************************)
(* An event enters the ring.                                               *)
(***************************************************************************)
\* The events of a ring after one more.
LEMMA Appended ==
  ASSUME ring \in Seq(UsableEvent), NEW e \in UsableEvent, ring' = Append(ring, e)
  PROVE  /\ Len(ring) \in Nat /\ Len(ring') = Len(ring) + 1
         /\ \A i \in 1 .. Len(ring) : ring'[i] = ring[i]
         /\ ring'[Len(ring) + 1] = e
OBVIOUS

\* An event about something else changes nothing for a.
LEMMA AppendOther ==
  ASSUME ring \in Seq(UsableEvent), NEW e \in UsableEvent, ring' = Append(ring, e),
         records' = records, NEW p, NEW a, ~About(e, p, a)
  PROVE  /\ \A s, u : Tells(p, a, s, u) => Tells(p, a, s, u)'
         /\ Closed(p, a) => Closed(p, a)'
         /\ Alternate(p, a) => Alternate(p, a)'
<1>1. /\ Len(ring) \in Nat /\ Len(ring') = Len(ring) + 1
      /\ \A i \in 1 .. Len(ring) : ring'[i] = ring[i]
      /\ ring'[Len(ring) + 1] = e
  BY Appended
<1>2. \A i \in 1 .. Len(ring) + 1 : Silent(p, a, i) => Silent(p, a, i)'
  BY <1>1 DEF Silent, About
<1>3. LiveOf(p, a)' = LiveOf(p, a)
  BY DEF LiveOf
<1>4. \A s, u : Tells(p, a, s, u) => Tells(p, a, s, u)'
  <2> SUFFICES ASSUME NEW s, NEW u, Tells(p, a, s, u) PROVE Tells(p, a, s, u)'
    OBVIOUS
  <2>1. CASE \E i \in 1 .. Len(ring) :
               /\ Allocates(ring[i], p, a) /\ ring[i].size = s /\ ring[i].tid = u
               /\ Silent(p, a, i + 1)
    <3> PICK i \in 1 .. Len(ring) :
               /\ Allocates(ring[i], p, a) /\ ring[i].size = s /\ ring[i].tid = u
               /\ Silent(p, a, i + 1)
      BY <2>1
    <3>1. i \in 1 .. Len(ring') /\ i + 1 \in 1 .. Len(ring) + 1 /\ ring'[i] = ring[i]
      BY <1>1
    <3>2. Silent(p, a, i + 1)'
      BY <1>2, <3>1 DEF Silent
    <3> QED
      BY <3>1, <3>2 DEF Tells, Allocates, About
  <2>2. CASE Silent(p, a, 1) /\ \E k \in LiveOf(p, a) : records[k].size = s /\ records[k].tid = u
    BY <1>1, <1>2, <1>3, <2>2 DEF Tells
  <2> QED
    BY <2>1, <2>2 DEF Tells
<1>5. Closed(p, a) => Closed(p, a)'
  <2>1. CASE \E i \in 1 .. Len(ring) : Frees(ring[i], p, a) /\ Silent(p, a, i + 1)
    <3> PICK i \in 1 .. Len(ring) : Frees(ring[i], p, a) /\ Silent(p, a, i + 1)
      BY <2>1
    <3>1. i \in 1 .. Len(ring') /\ i + 1 \in 1 .. Len(ring) + 1 /\ ring'[i] = ring[i]
      BY <1>1
    <3>2. Silent(p, a, i + 1)'
      BY <1>2, <3>1 DEF Silent
    <3> QED
      BY <3>1, <3>2 DEF Closed, Frees, About
  <2>2. CASE Silent(p, a, 1) /\ LiveOf(p, a) = {}
    BY <1>1, <1>2, <1>3, <2>2 DEF Closed
  <2> QED
    BY <2>1, <2>2 DEF Closed
<1>6. Alternate(p, a) => Alternate(p, a)'
  <2>1. \A i \in 1 .. Len(ring') : Allocates(ring'[i], p, a) => i \in 1 .. Len(ring)
    BY <1>1 DEF Allocates
  <2>2. \A i \in 1 .. Len(ring) : /\ Allocates(ring'[i], p, a) <=> Allocates(ring[i], p, a)
                                  /\ Frees(ring'[i], p, a) <=> Frees(ring[i], p, a)
    BY <1>1 DEF Allocates, Frees, About
  <2>3. \A i, j \in 1 .. Len(ring) : \A k \in i + 1 .. j - 1 : k \in 1 .. Len(ring)
    BY <1>1
  <2>4. \A i \in 1 .. Len(ring) : \A k \in 1 .. i - 1 : k \in 1 .. Len(ring)
    BY <1>1
  <2> SUFFICES ASSUME Alternate(p, a) PROVE Alternate(p, a)'
    OBVIOUS
  <2>5. \A k, l \in LiveOf(p, a)' : k = l
    BY <1>3 DEF Alternate
  <2>6. ASSUME NEW i \in 1 .. Len(ring'), NEW j \in 1 .. Len(ring'), i < j,
               Allocates(ring'[i], p, a), Allocates(ring'[j], p, a)
        PROVE  \E k \in i + 1 .. j - 1 : Frees(ring'[k], p, a)
    <3>1. /\ i \in 1 .. Len(ring) /\ j \in 1 .. Len(ring)
          /\ Allocates(ring[i], p, a) /\ Allocates(ring[j], p, a)
      BY <2>1, <2>2, <2>6
    <3>2. PICK k \in i + 1 .. j - 1 : Frees(ring[k], p, a)
      BY <2>6, <3>1 DEF Alternate
    <3> QED
      BY <2>2, <2>3, <3>1, <3>2
  <2>7. ASSUME NEW i \in 1 .. Len(ring'), LiveOf(p, a)' # {}, Allocates(ring'[i], p, a)
        PROVE  \E k \in 1 .. i - 1 : Frees(ring'[k], p, a)
    <3>1. i \in 1 .. Len(ring) /\ Allocates(ring[i], p, a) /\ LiveOf(p, a) # {}
      BY <1>3, <2>1, <2>2, <2>7
    <3>2. PICK k \in 1 .. i - 1 : Frees(ring[k], p, a)
      BY <3>1 DEF Alternate
    <3> QED
      BY <2>2, <2>4, <3>1, <3>2
  <2> QED
    BY <2>5, <2>6, <2>7, <1>1 DEF Alternate, Allocates, Frees, About
<1> QED
  BY <1>4, <1>5, <1>6

\* A free is the last word on its address.
LEMMA AppendFree ==
  ASSUME ring \in Seq(UsableEvent), NEW e \in UsableEvent, ring' = Append(ring, e),
         records' = records, NEW p, NEW a, Frees(e, p, a)
  PROVE  /\ Closed(p, a)'
         /\ Alternate(p, a) => Alternate(p, a)'
<1>1. /\ Len(ring) \in Nat /\ Len(ring') = Len(ring) + 1
      /\ \A i \in 1 .. Len(ring) : ring'[i] = ring[i]
      /\ ring'[Len(ring) + 1] = e
  BY Appended
<1>2. Closed(p, a)'
  BY <1>1 DEF Closed, Silent, Frees, About
<1>3. ASSUME Alternate(p, a) PROVE Alternate(p, a)'
  <2>1. LiveOf(p, a)' = LiveOf(p, a)
    BY DEF LiveOf
  <2>2. \A i \in 1 .. Len(ring') :
          Allocates(ring'[i], p, a) => i \in 1 .. Len(ring) /\ Allocates(ring[i], p, a)
    BY <1>1 DEF Allocates, Frees, About
  <2>3. \A k \in 1 .. Len(ring) : Frees(ring[k], p, a) => Frees(ring'[k], p, a)
    BY <1>1
  <2>4. \A i, j \in 1 .. Len(ring) : \A k \in i + 1 .. j - 1 : k \in 1 .. Len(ring)
    BY <1>1
  <2>5. \A i \in 1 .. Len(ring) : \A k \in 1 .. i - 1 : k \in 1 .. Len(ring)
    BY <1>1
  <2>6. ASSUME NEW i \in 1 .. Len(ring'), NEW j \in 1 .. Len(ring'), i < j,
               Allocates(ring'[i], p, a), Allocates(ring'[j], p, a)
        PROVE  \E k \in i + 1 .. j - 1 : Frees(ring'[k], p, a)
    BY <1>3, <2>2, <2>3, <2>4, <2>6 DEF Alternate
  <2>7. ASSUME NEW i \in 1 .. Len(ring'), LiveOf(p, a)' # {}, Allocates(ring'[i], p, a)
        PROVE  \E k \in 1 .. i - 1 : Frees(ring'[k], p, a)
    BY <1>3, <2>1, <2>2, <2>3, <2>5, <2>7 DEF Alternate
  <2>8. \A k, l \in LiveOf(p, a)' : k = l
    BY <1>3, <2>1 DEF Alternate
  <2> QED
    BY <2>6, <2>7, <2>8 DEF Alternate, Allocates, Frees, About
<1> QED
  BY <1>2, <1>3

\* So is an allocation; it follows a free, or the closing of the record there was.
LEMMA AppendAlloc ==
  ASSUME ring \in Seq(UsableEvent), NEW e \in UsableEvent, ring' = Append(ring, e),
         records' = records, NEW p, NEW a, Allocates(e, p, a)
  PROVE  /\ Tells(p, a, e.size, e.tid)'
         /\ Closed(p, a) /\ Alternate(p, a) => Alternate(p, a)'
<1>1. /\ Len(ring) \in Nat /\ Len(ring') = Len(ring) + 1
      /\ \A i \in 1 .. Len(ring) : ring'[i] = ring[i]
      /\ ring'[Len(ring) + 1] = e
  BY Appended
<1>2. Tells(p, a, e.size, e.tid)'
  BY <1>1 DEF Tells, Silent, Allocates, About
<1>3. ASSUME Closed(p, a), Alternate(p, a) PROVE Alternate(p, a)'
  <2>1. LiveOf(p, a)' = LiveOf(p, a)
    BY DEF LiveOf
  <2>2. \A i \in 1 .. Len(ring) : /\ Allocates(ring'[i], p, a) <=> Allocates(ring[i], p, a)
                                  /\ Frees(ring'[i], p, a) <=> Frees(ring[i], p, a)
    BY <1>1 DEF Allocates, Frees, About
  <2>3. \A i, j \in 1 .. Len(ring) : \A k \in i + 1 .. j - 1 : k \in 1 .. Len(ring)
    BY <1>1
  <2>4. \A i \in 1 .. Len(ring) : \A k \in 1 .. i - 1 : k \in 1 .. Len(ring)
    BY <1>1
  \* The free that closed the address comes after every allocation there is.
  <2>5. \/ \E m \in 1 .. Len(ring) :
             /\ Frees(ring[m], p, a)
             /\ \A i \in 1 .. Len(ring) : Allocates(ring[i], p, a) => i < m
        \/ LiveOf(p, a) = {} /\ \A i \in 1 .. Len(ring) : ~Allocates(ring[i], p, a)
    <3>1. CASE \E m \in 1 .. Len(ring) : Frees(ring[m], p, a) /\ Silent(p, a, m + 1)
      <4> PICK m \in 1 .. Len(ring) : Frees(ring[m], p, a) /\ Silent(p, a, m + 1)
        BY <3>1
      <4>1. ASSUME NEW i \in 1 .. Len(ring), Allocates(ring[i], p, a) PROVE i < m
        <5>1. i # m
          BY <4>1 DEF Allocates, Frees
        <5>2. i \notin m + 1 .. Len(ring)
          BY <4>1 DEF Silent, Allocates
        <5> QED
          BY <1>1, <5>1, <5>2
      <4> QED
        BY <4>1
    <3>2. CASE Silent(p, a, 1) /\ LiveOf(p, a) = {}
      BY <3>2 DEF Silent, Allocates
    <3> QED
      BY <1>3, <3>1, <3>2 DEF Closed
  <2>6. ASSUME NEW i \in 1 .. Len(ring'), NEW j \in 1 .. Len(ring'), i < j,
               Allocates(ring'[i], p, a), Allocates(ring'[j], p, a)
        PROVE  \E k \in i + 1 .. j - 1 : Frees(ring'[k], p, a)
    <3>1. i \in 1 .. Len(ring) /\ Allocates(ring[i], p, a)
      BY <1>1, <2>2, <2>6
    <3>2. CASE j \in 1 .. Len(ring)
      BY <1>3, <2>2, <2>3, <2>6, <3>1, <3>2 DEF Alternate
    <3>3. CASE j = Len(ring) + 1
      <4>1. PICK m \in 1 .. Len(ring) : Frees(ring[m], p, a) /\ i < m
        BY <2>5, <3>1
      <4>2. m \in i + 1 .. j - 1
        BY <1>1, <3>1, <3>3, <4>1
      <4> QED
        BY <2>2, <4>1, <4>2
    <3> QED
      BY <1>1, <3>2, <3>3
  <2>7. ASSUME NEW i \in 1 .. Len(ring'), LiveOf(p, a)' # {}, Allocates(ring'[i], p, a)
        PROVE  \E k \in 1 .. i - 1 : Frees(ring'[k], p, a)
    <3>1. CASE i \in 1 .. Len(ring)
      BY <1>3, <2>1, <2>2, <2>4, <2>7, <3>1 DEF Alternate
    <3>2. CASE i = Len(ring) + 1
      <4>1. PICK m \in 1 .. Len(ring) : Frees(ring[m], p, a)
        BY <2>1, <2>5, <2>7
      <4>2. m \in 1 .. i - 1
        BY <1>1, <3>2
      <4> QED
        BY <2>2, <4>1, <4>2
    <3> QED
      BY <1>1, <3>1, <3>2
  <2>8. \A k, l \in LiveOf(p, a)' : k = l
    BY <1>3, <2>1 DEF Alternate
  <2> QED
    BY <2>6, <2>7, <2>8 DEF Alternate, Allocates, Frees, About
<1> QED
  BY <1>2, <1>3

------------------------------------------------------------------------------
(***************************************************************************)
(* The collector handles an event.                                         *)
(***************************************************************************)
\* The events that are left.
LEMMA Shifted ==
  ASSUME PipeInv, HandleEvent
  PROVE  /\ Len(ring) \in Nat \ {0} /\ Len(ring') = Len(ring) - 1
         /\ \A i \in 1 .. Len(ring') : i + 1 \in 1 .. Len(ring) /\ ring'[i] = ring[i + 1]
         /\ ring[1] \in UsableEvent
<1>1. ring \in Seq(UsableEvent) /\ ring # <<>> /\ ring' = Tail(ring)
  BY DEF PipeInv, HandleEvent, RecordAlloc, RecordFree, RecordNothing, Received
<1> QED
  BY <1>1

\* What the oldest event does to the live records of one address of the recorded process.
LEMMA LiveStep ==
  ASSUME PipeInv, SourceInv, OneRecorded, HandleEvent,
         NEW p \in Procs, NEW a \in Addrs, Accepts(p)
  PROVE  /\ SourceInv'
         /\ Allocates(ring[1], p, a) =>
              \E n \in LiveOf(p, a)' :
                /\ LiveOf(p, a)' = LiveOf(p, a) \cup {n}
                /\ records'[n].size = ring[1].size /\ records'[n].tid = ring[1].tid
         /\ Frees(ring[1], p, a) =>
              \E m : LiveOf(p, a)' = LiveOf(p, a) \ {m} /\ (LiveOf(p, a) # {} => m \in LiveOf(p, a))
         /\ ~About(ring[1], p, a) =>
              /\ LiveOf(p, a)' = LiveOf(p, a)
              /\ \A k \in LiveOf(p, a) : records'[k].size = records[k].size
                                         /\ records'[k].tid = records[k].tid
<1> DEFINE e == ring[1]
<1>0. /\ records \in Seq(OwnRecord) /\ Len(records) \in Nat /\ e \in UsableEvent /\ e.pid \in Procs
      /\ Head(ring) = e
  BY Shifted DEF PipeInv, SourceInv
<1>dom. DOMAIN records = 1 .. Len(records) /\ \A k \in 1 .. Len(records) : records[k] \in OwnRecord
  BY <1>0
<1>1. \A i \in 1 .. Len(ring') : ring'[i].pid \in Procs
  BY Shifted DEF SourceInv
<1>2. CASE RecordAlloc
  <2> DEFINE r == [addr |-> e.addr, pid |-> e.pid, tid |-> e.tid, size |-> e.size, live |-> TRUE]
             n == Len(records) + 1
  <2>1. Accepts(e.pid) /\ e.type \in AllocReturns /\ records' = Append(records, r)
    BY <1>0, <1>2 DEF RecordAlloc, Received
  <2>2. /\ r.addr = e.addr /\ r.pid = e.pid /\ r.live /\ r.size = e.size /\ r.tid = e.tid
        /\ r \in OwnRecord
    BY <1>0, <2>1 DEF UsableEvent, Usable, OwnRecord
  <2> HIDE DEF r
  <2>3. /\ Len(records') = n /\ records'[n] = r
        /\ \A k \in 1 .. Len(records) : records'[k] = records[k]
    BY <1>0, <2>1, <2>2
  <2>4. SourceInv'
    BY <1>0, <1>1, <2>1, <2>2, <2>3 DEF SourceInv, Accepts
  <2>5. e.pid = p
    BY <1>0, <2>1 DEF OneRecorded
  <2>6. e.type # "FREE"
    BY <2>1 DEF AllocReturns
  <2>7. CASE e.addr = a
    <3>1. LiveOf(p, a)' = LiveOf(p, a) \cup {n}
      BY <1>0, <2>2, <2>3, <2>5, <2>7 DEF LiveOf
    <3> QED
      BY <2>1, <2>2, <2>3, <2>4, <2>5, <2>6, <2>7, <3>1 DEF About, Frees
  <2>8. CASE e.addr # a
    <3>1. LiveOf(p, a)' = LiveOf(p, a)
      BY <1>0, <2>2, <2>3, <2>5, <2>8 DEF LiveOf
    <3>2. \A k \in LiveOf(p, a) : records'[k] = records[k]
      BY <2>3 DEF LiveOf
    <3> QED
      BY <2>4, <2>8, <3>1, <3>2 DEF About, Frees, Allocates
  <2> QED
    BY <2>7, <2>8
<1>3. ASSUME records' = records, Allocates(e, p, a) => FALSE,
             Frees(e, p, a) => LiveOf(p, a) = {}
      PROVE  /\ SourceInv'
             /\ LiveOf(p, a)' = LiveOf(p, a)
             /\ Frees(e, p, a) => LiveOf(p, a)' = {}
             /\ \A k \in LiveOf(p, a) : records'[k] = records[k]
  BY <1>1, <1>3 DEF SourceInv, LiveOf, Accepts
<1>4. CASE RecordFree
  <2>1. /\ Accepts(e.pid) /\ e.type = "FREE"
        /\ \/ LiveAt(e.addr) = {} /\ UNCHANGED records
           \/ /\ LiveAt(e.addr) # {}
              /\ records' = [records EXCEPT ![Max(LiveAt(e.addr))].live = FALSE]
    BY <1>0, <1>4 DEF RecordFree, Received
  <2>2. e.pid = p
    BY <1>0, <2>1 DEF OneRecorded
  <2>3. LiveOf(p, a) = LiveAt(a)
    <3>1. \A k \in 1 .. Len(records) : records[k].pid = p
      <4>1. \A k \in 1 .. Len(records) : records[k].pid \in Procs
        BY <1>dom DEF OwnRecord
      <4> QED
        BY <4>1 DEF SourceInv, OneRecorded
    <3> QED
      BY <1>0, <3>1 DEF LiveOf, LiveAt
  <2>4. CASE LiveAt(e.addr) = {} /\ UNCHANGED records
    <3>1. ~Allocates(e, p, a) /\ (Frees(e, p, a) => LiveOf(p, a) = {})
      BY <2>1, <2>3, <2>4 DEF Allocates, Frees, About
    <3> QED
      BY <1>3, <2>4, <3>1
  <2>5. CASE /\ LiveAt(e.addr) # {}
             /\ records' = [records EXCEPT ![Max(LiveAt(e.addr))].live = FALSE]
    <3> DEFINE m == Max(LiveAt(e.addr))
    <3>1. m \in 1 .. Len(records) /\ records[m].live /\ records[m].addr = e.addr
      BY <1>0, <2>5, NewestOf
    <3>2. records' = [records EXCEPT ![m].live = FALSE]
      BY <2>5
    <3> HIDE DEF m
    <3>3. DOMAIN records' = 1 .. Len(records) /\ records' \in Seq(OwnRecord)
      BY <1>0, <3>2, RecordsStep
    <3>4. Len(records') = Len(records)
      BY <1>0, <3>3
    <3>5. /\ \A k \in 1 .. Len(records) : k # m => records'[k] = records[k]
          /\ ~records'[m].live /\ records'[m].addr = e.addr
          /\ records'[m].pid = records[m].pid
      <4>1. records[m] \in OwnRecord
        BY <1>dom, <3>1
      <4>2. records'[m] = [records[m] EXCEPT !.live = FALSE]
        BY <1>dom, <3>1, <3>2
      <4>3. \A k \in 1 .. Len(records) : k # m => records'[k] = records[k]
        BY <1>0, <3>2
      <4> QED
        BY <3>1, <4>1, <4>2, <4>3 DEF OwnRecord
    <3>6. SourceInv'
      BY <1>1, <3>1, <3>4, <3>5 DEF SourceInv, Accepts
    <3>7. ~Allocates(e, p, a)
      BY <2>1 DEF Allocates
    <3>8. CASE e.addr = a
      <4>1. LiveOf(p, a)' = LiveOf(p, a) \ {m}
        BY <3>1, <3>4, <3>5 DEF LiveOf
      <4>2. m \in LiveOf(p, a)
        <5>1. records[m].pid = p
          <6>1. records[m].pid \in Procs /\ Accepts(records[m].pid)
            BY <1>dom, <3>1 DEF OwnRecord, SourceInv
          <6> QED
            BY <6>1 DEF OneRecorded
        <5> QED
          BY <3>1, <3>8, <5>1 DEF LiveOf
      <4>3. About(e, p, a)
        BY <2>1, <2>2, <3>8 DEF About
      <4> QED
        BY <3>6, <3>7, <4>1, <4>2, <4>3
    <3>9. CASE e.addr # a
      <4>1. LiveOf(p, a)' = LiveOf(p, a)
        BY <3>1, <3>4, <3>5, <3>9 DEF LiveOf
      <4>2. \A k \in LiveOf(p, a) : records'[k] = records[k]
        BY <3>1, <3>5, <3>9 DEF LiveOf
      <4>3. ~About(e, p, a) /\ ~Frees(e, p, a)
        BY <3>9 DEF About, Frees
      <4> QED
        BY <3>6, <3>7, <4>1, <4>2, <4>3
    <3> QED
      BY <3>8, <3>9
  <2> QED
    BY <2>1, <2>4, <2>5
<1>5. CASE RecordNothing
  <2>1. records' = records /\ (~Accepts(e.pid) \/ e.type \notin AllocReturns \cup {"FREE"})
    BY <1>0, <1>5 DEF RecordNothing, Received
  <2>2. ~About(e, p, a)
    BY <2>1 DEF About
  <2> QED
    BY <1>3, <2>1, <2>2 DEF Allocates, Frees
<1> QED
  BY <1>2, <1>4, <1>5 DEF HandleEvent

\* What the events that are left say of an address, when the oldest is handled.
LEMMA SilentStep ==
  ASSUME PipeInv, HandleEvent, NEW p, NEW a, NEW i \in 1 .. Len(ring)
  PROVE  /\ Silent(p, a, i + 1) => Silent(p, a, i)'
         /\ Silent(p, a, 1) => Silent(p, a, 1)' /\ ~About(ring[1], p, a)
BY Shifted DEF Silent, About

\* The records go on telling of a block.
LEMMA TellsStep ==
  ASSUME PipeInv, SourceInv, OneRecorded, HandleEvent,
         NEW p \in Procs, NEW a \in Addrs, Accepts(p), NEW s, NEW u, Tells(p, a, s, u)
  PROVE  Tells(p, a, s, u)'
<1>1. CASE \E i \in 1 .. Len(ring) :
             /\ Allocates(ring[i], p, a) /\ ring[i].size = s /\ ring[i].tid = u
             /\ Silent(p, a, i + 1)
  <2> PICK i \in 1 .. Len(ring) :
             /\ Allocates(ring[i], p, a) /\ ring[i].size = s /\ ring[i].tid = u
             /\ Silent(p, a, i + 1)
    BY <1>1
  <2>1. Silent(p, a, i)'
    BY SilentStep
  <2>2. CASE i = 1
    <3>1. \E n \in LiveOf(p, a)' : records'[n].size = s /\ records'[n].tid = u
      BY <2>2, LiveStep
    <3> QED
      BY <2>1, <2>2, <3>1 DEF Tells
  <2>3. CASE i # 1
    <3>1. i - 1 \in 1 .. Len(ring') /\ ring'[i - 1] = ring[i] /\ (i - 1) + 1 = i
      BY <2>3, Shifted
    <3> QED
      BY <2>1, <3>1 DEF Tells, Allocates, About
  <2> QED
    BY <2>2, <2>3
<1>2. CASE Silent(p, a, 1) /\ \E k \in LiveOf(p, a) : records[k].size = s /\ records[k].tid = u
  <2>1. 1 \in 1 .. Len(ring)
    BY Shifted
  <2>2. Silent(p, a, 1)' /\ ~About(ring[1], p, a)
    BY <1>2, <2>1, SilentStep
  <2> QED
    BY <1>2, <2>2, LiveStep DEF Tells
<1> QED
  BY <1>1, <1>2 DEF Tells

\* A closed address stays closed.
LEMMA ClosedStep ==
  ASSUME PipeInv, SourceInv, OneRecorded, HandleEvent,
         NEW p \in Procs, NEW a \in Addrs, Accepts(p), Closed(p, a), Alternate(p, a)
  PROVE  Closed(p, a)'
<1>1. CASE \E i \in 1 .. Len(ring) : Frees(ring[i], p, a) /\ Silent(p, a, i + 1)
  <2> PICK i \in 1 .. Len(ring) : Frees(ring[i], p, a) /\ Silent(p, a, i + 1)
    BY <1>1
  <2>1. Silent(p, a, i)'
    BY SilentStep
  <2>2. CASE i = 1
    <3>1. LiveOf(p, a)' = {}
      BY <2>2, LiveStep DEF Alternate
    <3> QED
      BY <2>1, <2>2, <3>1 DEF Closed
  <2>3. CASE i # 1
    <3>1. i - 1 \in 1 .. Len(ring') /\ ring'[i - 1] = ring[i] /\ (i - 1) + 1 = i
      BY <2>3, Shifted
    <3> QED
      BY <2>1, <3>1 DEF Closed, Frees, About
  <2> QED
    BY <2>2, <2>3
<1>2. CASE Silent(p, a, 1) /\ LiveOf(p, a) = {}
  <2>1. 1 \in 1 .. Len(ring)
    BY Shifted
  <2>2. Silent(p, a, 1)' /\ ~About(ring[1], p, a)
    BY <1>2, <2>1, SilentStep
  <2> QED
    BY <1>2, <2>2, LiveStep DEF Closed
<1> QED
  BY <1>1, <1>2 DEF Closed

\* Allocations and frees go on alternating: no second record of an address becomes live.
LEMMA AlternateStep ==
  ASSUME PipeInv, SourceInv, OneRecorded, HandleEvent,
         NEW p \in Procs, NEW a \in Addrs, Accepts(p), Alternate(p, a)
  PROVE  Alternate(p, a)'
<1>0. /\ Len(ring) \in Nat \ {0} /\ 1 \in 1 .. Len(ring) /\ Len(ring') \in Nat
      /\ \A i \in 1 .. Len(ring') : i + 1 \in 1 .. Len(ring) /\ ring'[i] = ring[i + 1]
  BY Shifted
<1>1. \A i \in 1 .. Len(ring') :
        /\ Allocates(ring'[i], p, a) <=> Allocates(ring[i + 1], p, a)
        /\ Frees(ring'[i], p, a) <=> Frees(ring[i + 1], p, a)
  BY <1>0 DEF Allocates, Frees, About
\* A free between two events is between them after the shift.
<1>2. ASSUME NEW i \in 1 .. Len(ring), NEW j \in 1 .. Len(ring'), NEW k \in i + 1 .. j,
             Frees(ring[k], p, a)
      PROVE  k - 1 \in i .. j - 1 /\ Frees(ring'[k - 1], p, a)
  <2>1. k - 1 \in i .. j - 1 /\ k - 1 \in 1 .. Len(ring') /\ (k - 1) + 1 = k
    BY <1>0
  <2> QED
    BY <1>1, <1>2, <2>1
<1>3. ASSUME NEW i \in 1 .. Len(ring'), NEW j \in 1 .. Len(ring'), i < j,
             Allocates(ring'[i], p, a), Allocates(ring'[j], p, a)
      PROVE  \E k \in i + 1 .. j - 1 : Frees(ring'[k], p, a)
  <2>1. /\ i + 1 \in 1 .. Len(ring) /\ j + 1 \in 1 .. Len(ring) /\ i + 1 < j + 1
        /\ Allocates(ring[i + 1], p, a) /\ Allocates(ring[j + 1], p, a)
        /\ (j + 1) - 1 = j
    BY <1>0, <1>1, <1>3
  <2>2. PICK k \in (i + 1) + 1 .. j : Frees(ring[k], p, a)
    BY <2>1 DEF Alternate
  <2>3. k - 1 \in i + 1 .. j - 1 /\ Frees(ring'[k - 1], p, a)
    BY <1>2, <2>1, <2>2
  <2> QED
    BY <2>3
<1>4. CASE Allocates(ring[1], p, a)
  <2>1. LiveOf(p, a) = {}
    <3>1. \A k \in 1 .. 1 - 1 : FALSE
      OBVIOUS
    <3> QED
      BY <1>0, <1>4, <3>1 DEF Alternate
  <2>2. \A k, l \in LiveOf(p, a)' : k = l
    BY <1>4, <2>1, LiveStep
  <2>3. ASSUME NEW j \in 1 .. Len(ring'), Allocates(ring'[j], p, a)
        PROVE  \E k \in 1 .. j - 1 : Frees(ring'[k], p, a)
    <3>1. j + 1 \in 1 .. Len(ring) /\ 1 < j + 1 /\ (j + 1) - 1 = j /\ Allocates(ring[j + 1], p, a)
      BY <1>0, <1>1, <2>3
    <3>2. PICK k \in 1 + 1 .. j : Frees(ring[k], p, a)
      BY <1>0, <1>4, <3>1 DEF Alternate
    <3>3. k - 1 \in 1 .. j - 1 /\ Frees(ring'[k - 1], p, a)
      BY <1>0, <1>2, <3>2
    <3> QED
      BY <3>3
  <2> QED
    BY <1>3, <2>2, <2>3 DEF Alternate, Allocates, Frees, About
<1>5. CASE Frees(ring[1], p, a)
  <2>1. LiveOf(p, a)' = {}
    BY <1>5, LiveStep DEF Alternate
  <2> QED
    BY <1>3, <2>1 DEF Alternate, Allocates, Frees, About
<1>6. CASE ~About(ring[1], p, a)
  <2>1. LiveOf(p, a)' = LiveOf(p, a)
    BY <1>6, LiveStep
  <2>2. ASSUME NEW j \in 1 .. Len(ring'), LiveOf(p, a)' # {}, Allocates(ring'[j], p, a)
        PROVE  \E k \in 1 .. j - 1 : Frees(ring'[k], p, a)
    <3>1. j + 1 \in 1 .. Len(ring) /\ (j + 1) - 1 = j /\ Allocates(ring[j + 1], p, a)
      BY <1>0, <1>1, <2>2
    <3>2. PICK k \in 1 .. j : Frees(ring[k], p, a)
      BY <2>1, <2>2, <3>1 DEF Alternate
    <3>3. k \in 1 + 1 .. j
      <4>1. k # 1
        BY <1>6, <3>2 DEF Frees
      <4> QED
        BY <1>0, <3>1, <4>1
    <3>4. k - 1 \in 1 .. j - 1 /\ Frees(ring'[k - 1], p, a)
      BY <1>0, <1>2, <3>2, <3>3
    <3> QED
      BY <3>4
  <2>3. \A k, l \in LiveOf(p, a)' : k = l
    BY <2>1 DEF Alternate
  <2> QED
    BY <1>3, <2>2, <2>3 DEF Alternate, Allocates, Frees, About
<1> QED
  BY <1>4, <1>5, <1>6 DEF Allocates, Frees

------------------------------------------------------------------------------
(***************************************************************************)
(* What the calls do to the blocks that the records have to know.          *)
(***************************************************************************)
\* The event a probe emits speaks of its own call's block.
LEMMA EmitFacts ==
  ASSUME OneInv, SpeakInv, NEW t \in Threads, Emit(t), Len(ring) < RingCap
  PROVE  /\ tmpEvt \in UsableEvent /\ ring' = Append(ring, tmpEvt)
         /\ tmpEvt.pid = ProcOf[t] /\ tmpEvt.size = op[t].size /\ tmpEvt.tid = t
         /\ \A p, a : /\ Allocates(tmpEvt, p, a) <=> p = ProcOf[t] /\ op[t].done /\ a = op[t].ret
                      /\ Frees(tmpEvt, p, a) <=> p = ProcOf[t] /\ Fn(t) = "free" /\ a = op[t].ptr
                      /\ About(tmpEvt, p, a) <=> Allocates(tmpEvt, p, a) \/ Frees(tmpEvt, p, a)
<1>1. pc[t] = "emit" /\ ring' = Append(ring, tmpEvt)
  BY DEF Emit
<1>2. /\ tmpEvt.type = TypeOf(t) /\ tmpEvt.pid = ProcOf[t] /\ tmpEvt.tid = t
      /\ tmpEvt.addr = AddrOf(t) /\ tmpEvt.size = op[t].size
  BY <1>1 DEF OneInv, EvtInv, EvtAt
<1>3. /\ op[t].done => Fn(t) \in AllocFns
      /\ Fn(t) \in {"malloc", "calloc"} => op[t].done
  BY <1>1 DEF SpeakInv, Speaks, BuildLabels, OneInv, TypeInv, CallShape, Fits, Fn
<1>4. TypeOf(t) \in AllocReturns <=> op[t].done
  BY <1>3 DEF TypeOf, AllocReturns, AllocFns
<1>5. TypeOf(t) = "FREE" <=> Fn(t) = "free"
  BY DEF TypeOf
<1>6. Fn(t) = "free" => ~op[t].done
  BY <1>3 DEF AllocFns
<1>7. "FREE" \notin AllocReturns
  BY DEF AllocReturns
<1> QED
  BY <1>1, <1>2, <1>4, <1>5, <1>6, <1>7, EmitUsable DEF Allocates, Frees, About, AddrOf

\* An address that the records need not know becomes one they must know by an event alone.
LEMMA IdleStays ==
  ASSUME TypeInv, HeapInv, \A u \in Threads : Saved(u), NEW t \in Threads, ThreadStep(t), ~Emit(t),
         NEW p \in Procs, NEW a \in Addrs, Idle(p, a)
  PROVE  Idle(p, a)'
<1>0. \A u \in Threads \ {t} : pc'[u] = pc[u] /\ op'[u] = op[u]
  BY StepOwn DEF Own
<1>1. ASSUME NEW u \in Threads \ {t}, ProcOf[u] = p,
             (op[u].done /\ op[u].ret = a) \/ (Fn(u) = "free" /\ pc[u] = "libc" /\ op[u].ptr = a)
      PROVE  Busy(p, a)'
  BY <1>0, <1>1 DEF Busy, Fn
<1>2. ASSUME heap'[p][a] = heap[p][a],
             ProcOf[t] = p => ~op[t].done /\ ~(Fn(t) = "free" /\ pc[t] = "libc" /\ op[t].ptr = a)
      PROVE  Idle(p, a)'
  BY <1>1, <1>2 DEF Idle, Busy
<1>3. CASE TakesBack(t)
  <2>1. CASE p = ProcOf[t] /\ a = op[t].ptr
    BY <2>1, <1>3 DEF TakesBack, Idle
  <2>2. CASE ~(p = ProcOf[t] /\ a = op[t].ptr)
    <3>1. heap'[p][a] = heap[p][a] /\ ~op[t].done
      BY <1>3, <2>2, HereFits DEF TakesBack, Answers, Fits
    <3> QED
      BY <1>2, <2>2, <3>1
  <2> QED
    BY <2>1, <2>2
<1>4. CASE \E b \in Addrs : Gives(t, b)
  <2> PICK b \in Addrs : Gives(t, b)
    BY <1>4
  <2>1. CASE p = ProcOf[t] /\ a = b
    BY <2>1 DEF Gives, Answers, Idle, Busy
  <2>2. CASE p = ProcOf[t] /\ a # b /\ Fn(t) = "realloc" /\ a = op[t].ptr
    BY <2>2 DEF Gives, Idle
  <2>3. CASE ~(p = ProcOf[t] /\ a = b) /\ ~(p = ProcOf[t] /\ Fn(t) = "realloc" /\ a = op[t].ptr)
    <3>1. heap'[p][a] = heap[p][a] /\ ~op[t].done /\ Fn(t) # "free"
      BY <2>3, HereFits DEF Gives, Answers, Fits, AllocFns
    <3> QED
      BY <1>2, <3>1
  <2> QED
    BY <2>1, <2>2, <2>3
<1>5. CASE Refuses(t)
  <2>1. heap' = heap /\ ~op[t].done /\ Fn(t) # "free"
    BY <1>5, HereFits DEF Refuses, Answers, Fits
  <2> QED
    BY <1>2, <2>1
<1>6. CASE Begins(t)
  <2>1. heap' = heap /\ ~op[t].done /\ Fn(t) # "free"
    BY <1>6 DEF Begins, Fn, NoOp
  <2> QED
    BY <1>2, <2>1
<1>7. CASE Keeps(t) /\ ~TakesBack(t)
  <2>1. ASSUME Fn(t) = "free", pc[t] = "libc" PROVE FALSE
    BY <1>7, <2>1, FreeAnswers
  <2>2. op'[t].done = op[t].done /\ op'[t].ret = op[t].ret /\ heap' = heap
    BY <1>7 DEF Keeps
  <2> QED
    BY <1>1, <2>1, <2>2 DEF Idle, Busy
<1>8. CASE Finishes(t)
  <2>1. CASE p = ProcOf[t] /\ op[t].done /\ op[t].ret = a
    <3>1. heap[p][a] = BlockOf(t)
      BY <2>1, ProbesAssumption DEF HeapInv, HeapAt
    <3>2. ~(op[t].entered /\ op[t].hooked)
      <4>2. op[t] # NoOp
        BY <2>1 DEF NoOp
      <4>3. op'[t] = NoOp
        BY <1>8 DEF Finishes
      <4>4. CASE Resume(t)
        BY <4>2, <4>3, <4>4 DEF Resume
      <4>5. CASE TakePending(t)
        <5>1. Fn(t) \in AllocFns /\ pc[t] = "take"
          BY <4>5, HereFits DEF TakePending, Fits, Fn
        <5>2. pending[Fn(t)][t] = Absent
          <6>1. CASE pending[Fn(t)][t] # Absent
            <7>1. op' = [op EXCEPT ![t].sizeVal = pending[Fn(t)][t].size]
              BY <2>1, <4>5, <6>1, ProbesAssumption DEF TakePending
            <7>2. op[t] \in AllocOp
              BY <5>1, HereFits, OpAlloc DEF Fn
            <7>3. op'[t] = [op[t] EXCEPT !.sizeVal = pending[Fn(t)][t].size]
              BY <7>1 DEF TypeInv, ProbesTypeOK
            <7>4. op'[t].done
              BY <2>1, <7>2, <7>3 DEF AllocOp
            <7> QED
              BY <4>3, <7>4 DEF NoOp
          <6> QED
            BY <6>1
        <5> QED
          BY <5>1, <5>2 DEF Saved, BeforeTake
      <4>6. pc[t] \in {"return", "take"} \cup BuildLabels
        <5>1. pc[t] \in Labels
          BY DEF TypeInv, ProbesTypeOK
        <5>2. pc[t] \notin EntryLabels \cup {"untrack", "delete", "libc", "run"}
          BY <2>1, <4>2, HereFits DEF Fits
        <5> QED
          BY <5>1, <5>2 DEF BuildLabels, Labels, ProbeLabels
      <4>7. CASE EventSteps(t)
        <5>1. op' = op
          BY <4>7 DEF EventSteps, ClearEvt, FillHeader, FillBody, FillStack, app
        <5> QED
          BY <4>2, <4>3, <5>1
      <4> QED
        BY <4>4, <4>5, <4>6, <4>7 DEF ThreadStep, CallAlloc, CallFree, CallMap, Call, Libc, LibcAlloc,
           LibcRealloc, LibcFree, LibcMap, ProbeStep, EntryProbe, SavePending, ClearStack,
           WalkStack, SetDepth, SaveStack, FreeProbe, Untrack, DeleteActive, Step, BuildLabels
    <3>3. ~heap[p][a].traced
      <4>1. BlockOf(t).traced = (op[t].entered /\ op[t].hooked)
        BY DEF BlockOf
      <4> QED
        BY <3>1, <3>2, <4>1
    <3> QED
      BY <1>8, <3>3 DEF Finishes, Idle
  <2>2. CASE ~(p = ProcOf[t] /\ op[t].done /\ op[t].ret = a)
    <3>1. heap' = heap /\ op'[t] = NoOp
      BY <1>8 DEF Finishes
    <3>2. ~(Fn(t) = "free" /\ pc[t] = "libc")
      <4> SUFFICES ASSUME Fn(t) = "free", pc[t] = "libc" PROVE FALSE
        OBVIOUS
      <4>1. TakesBack(t)
        BY FreeAnswers
      <4> QED
        BY <3>1, <4>1 DEF TakesBack, Answers, NoOp
    <3> QED
      BY <1>1, <2>2, <3>1, <3>2 DEF Idle, Busy
  <2> QED
    BY <2>1, <2>2
<1> QED
  BY <1>3, <1>4, <1>5, <1>6, <1>7, <1>8, HeapMoves

\* What an event does to what the records must know.
LEMMA EmitIdle ==
  ASSUME OneInv, HeapInv, SpeakInv, NEW t \in Threads, Emit(t), Len(ring) < RingCap,
         NEW p \in Procs, NEW a \in Addrs
  PROVE  /\ heap' = heap
         /\ Busy(p, a)' => Busy(p, a) \/ Frees(tmpEvt, p, a)
         /\ Busy(p, a) => Busy(p, a)' \/ Allocates(tmpEvt, p, a)
         /\ Frees(tmpEvt, p, a) => Busy(p, a)'
         /\ Allocates(tmpEvt, p, a) => heap[p][a] = BlockOf(t) /\ ~Busy(p, a)' /\ Busy(p, a)
<1>0. /\ \A u \in Threads \ {t} : pc'[u] = pc[u] /\ op'[u] = op[u]
      /\ TypeInv /\ Fits(pc[t], op[t]) /\ pc[t] = "emit"
      /\ pc \in [Threads -> Labels] /\ op \in [Threads -> Op]
  <2>1. ThreadStep(t)
    BY DEF ThreadStep, ProbeStep, EventSteps
  <2> QED
    BY <2>1, StepOwn, HereFits DEF Own, OneInv, TypeInv, ProbesTypeOK, Emit
<1>1. /\ Allocates(tmpEvt, p, a) <=> p = ProcOf[t] /\ op[t].done /\ a = op[t].ret
      /\ Frees(tmpEvt, p, a) <=> p = ProcOf[t] /\ Fn(t) = "free" /\ a = op[t].ptr
  BY EmitFacts
<1>2. \/ op[t].done /\ op'[t] = NoOp /\ Fn(t) # "free"
      \/ ~op[t].done /\ op'[t] = op[t] /\ pc'[t] = "libc"
  BY <1>0 DEF Emit, Leave, Goto, Fits, AllocFns, Fn
<1>3. heap' = heap /\ NoOp.done = FALSE /\ NoOp.fn # "free"
  BY DEF Emit, app, NoOp
<1>4. Busy(p, a)' => Busy(p, a) \/ Frees(tmpEvt, p, a)
  BY <1>0, <1>1, <1>2, <1>3 DEF Busy, Fn
<1>5. Busy(p, a) => Busy(p, a)' \/ Allocates(tmpEvt, p, a)
  BY <1>0, <1>1, <1>2 DEF Busy, Fn
<1>6. Frees(tmpEvt, p, a) => Busy(p, a)'
  BY <1>1, <1>2 DEF Busy, Fn
<1>7. ASSUME Allocates(tmpEvt, p, a)
      PROVE  heap[p][a] = BlockOf(t) /\ ~Busy(p, a)' /\ Busy(p, a)
  <2>1. p = ProcOf[t] /\ op[t].done /\ a = op[t].ret /\ AddrOf(t) = a /\ a # 0
    BY <1>1, <1>7, ProbesAssumption DEF AddrOf
  <2>2. heap[p][a] = BlockOf(t)
    BY <2>1 DEF HeapInv, HeapAt
  <2>3. \A u \in Threads \ {t} : ProcOf[u] = p => AddrOf(u) # a
    BY <2>1 DEF HeapInv, HeapAt
  <2>4. \A u \in Threads : pc[u] = "libc" => ~op[u].done
    BY <1>0, HereFits DEF Fits
  <2>5. ~Busy(p, a)'
    BY <1>0, <1>2, <1>3, <2>1, <2>3, <2>4 DEF Busy, Fn, AddrOf
  <2> QED
    BY <2>1, <2>2, <2>5 DEF Busy
<1> QED
  BY <1>3, <1>4, <1>5, <1>6, <1>7

\* Everything but the ledger itself.
BaseInv == PipeInv /\ HeapInv /\ SourceInv

\* Nobody has announced anything at first.
LEMMA InitLedger ==
  Init => /\ BaseInv /\ (\A t \in Threads : Saved(t)) /\ ToldInv
          /\ ClosedInv /\ AlternateInv /\ TracedInv
<1> SUFFICES ASSUME Init
             PROVE  /\ BaseInv /\ (\A t \in Threads : Saved(t)) /\ ToldInv
                    /\ ClosedInv /\ AlternateInv /\ TracedInv
  OBVIOUS
<1>1. PipeInv /\ HeapInv /\ SourceInv
  BY InitPipe, InitHeap DEF Init, ProbesInit, SourceInv
<1>2. \A t \in Threads : Saved(t)
  BY InitMiss DEF Init, MissInv
<1>3. ToldInv
  BY DEF Init, ProbesInit, ToldInv, Idle, Prehistoric
<1>4. ClosedInv /\ AlternateInv
  BY DEF Init, ProbesInit, ClosedInv, Closed, Silent, AlternateInv, Alternate, LiveOf
<1>5. TracedInv
  BY DEF Init, ProbesInit, TracedInv, TracedAt, Fn, NoOp, AllocFns
<1> QED
  BY <1>1, <1>2, <1>3, <1>4, <1>5 DEF BaseInv

\* A step of the pipeline: a thread's, with an event or without, the collector's, or another.
LEMMA PipeMoves ==
  ASSUME [Next]_vars, [NoDrop]_vars, PipeInv
  PROVE  \/ \E t \in Threads : ThreadStep(t) /\ ~Emit(t) /\ UNCHANGED <<ring, records>>
         \/ \E t \in Threads : ThreadStep(t) /\ Emit(t) /\ Len(ring) < RingCap /\ records' = records
         \/ HandleEvent /\ UNCHANGED <<pc, op, heap, attached, pending>>
         \/ UNCHANGED <<pc, op, heap, ring, records, pending>> /\ attached \subseteq attached'
<1>1. CASE UNCHANGED vars
  BY <1>1 DEF vars
<1>2. CASE NoDrop /\ \E t \in Threads : ThreadStep(t) /\ UNCHANGED records
  BY <1>2, RingKept DEF NoDrop
<1>3. CASE HandleEvent
  BY <1>3 DEF HandleEvent, app, attach, pendings
<1>4. CASE AttachNext /\ UNCHANGED records
  BY <1>4 DEF AttachNext, app, pendings
<1> QED
  BY <1>1, <1>2, <1>3, <1>4 DEF Next

\* The events' and the records' processes are real, and recorded.
LEMMA StepBase ==
  ASSUME OneCpu, OneRecorded, [NoDrop]_vars, BaseInv, [Next]_vars
  PROVE  BaseInv'
<1> USE DEF BaseInv
<1>1. PipeInv' /\ HeapInv'
  BY StepPipe, StepsAreProbes, StepHeap DEF PipeInv, OneInv
<1>2. CASE \E t \in Threads : ThreadStep(t) /\ ~Emit(t) /\ UNCHANGED <<ring, records>>
  BY <1>1, <1>2 DEF SourceInv, Accepts
<1>3. ASSUME NEW t \in Threads, Emit(t), Len(ring) < RingCap, records' = records
      PROVE  SourceInv'
  <2>1. tmpEvt \in UsableEvent /\ ring' = Append(ring, tmpEvt) /\ tmpEvt.pid = ProcOf[t]
    BY <1>3, EmitFacts DEF PipeInv
  <2>2. /\ Len(ring) \in Nat /\ Len(ring') = Len(ring) + 1
        /\ \A i \in 1 .. Len(ring) : ring'[i] = ring[i]
        /\ ring'[Len(ring) + 1] = tmpEvt
    BY <2>1, Appended DEF PipeInv
  <2> QED
    BY <1>3, <2>1, <2>2, HereFits DEF SourceInv, Accepts, PipeInv, OneInv
<1>4. ASSUME HandleEvent PROVE SourceInv'
  <2>1. CASE \E p \in Procs, a \in Addrs : Accepts(p)
    BY <1>4, <2>1, LiveStep
  <2>2. CASE ~\E p \in Procs, a \in Addrs : Accepts(p)
    <3>1. records' = records
      <4>1. ring[1] \in UsableEvent /\ Head(ring) = ring[1] /\ ring[1].pid \in Procs
        BY <1>4, Shifted DEF PipeInv, SourceInv
      <4>2. Accepts(ring[1].pid) => ring[1].type \notin AllocReturns \cup {"FREE"}
        BY <2>2, <4>1 DEF UsableEvent, Usable
      <4> QED
        BY <1>4, <4>1, <4>2 DEF HandleEvent, RecordAlloc, RecordFree, RecordNothing, Received
    <3> QED
      BY <1>4, <3>1, Shifted DEF SourceInv, Accepts
  <2> QED
    BY <2>1, <2>2
<1>5. CASE UNCHANGED <<ring, records>>
  BY <1>1, <1>5 DEF SourceInv, Accepts
<1> QED
  BY <1>1, <1>2, <1>3, <1>4, <1>5, PipeMoves

\* What the entry probes saved stays in the pipeline.
LEMMA StepAllSaved ==
  ASSUME TypeInv, \A t \in Threads : Saved(t), [ProbesNext]_pvars,
         IsFiniteSet(Threads), Cardinality(Threads) <= PendingCap
  PROVE  \A t \in Threads : Saved(t)'
<1>1. ASSUME NEW t \in Threads, ThreadStep(t) PROVE \A u \in Threads : Saved(u)'
  <2>1. \A u \in Threads \ {t} : Saved(u)'
    BY <1>1, StepOwn DEF Own, Saved, BeforeTake, Fn
  <2> QED
    BY <1>1, <2>1, StepSaved
<1>2. CASE AttachNext \/ Drain \/ UNCHANGED pvars
  BY <1>2 DEF AttachNext, Drain, pvars, app, pendings, Saved, BeforeTake, Fn
<1> QED
  BY <1>1, <1>2 DEF ProbesNext

\* No block is forgotten by any step.
LEMMA StepTold ==
  ASSUME OneRecorded, [NoDrop]_vars, BaseInv, \A t \in Threads : Saved(t), ToldInv, [Next]_vars
  PROVE  ToldInv'
<1> SUFFICES ASSUME NEW p \in Procs, NEW a \in Addrs, Accepts(p), ~Idle(p, a)',
                    NEW s, NEW u, s = heap'[p][a].size, u = heap'[p][a].tid
             PROVE  Tells(p, a, s, u)'
  BY DEF ToldInv, Accepts, Tells
<1>0. PipeInv /\ OneInv /\ TypeInv /\ HeapInv /\ SpeakInv /\ SourceInv /\ ring \in Seq(UsableEvent)
  BY DEF BaseInv, PipeInv, OneInv
<1>1. ASSUME NEW t \in Threads, ThreadStep(t), ~Emit(t), UNCHANGED <<ring, records>>
      PROVE  Tells(p, a, s, u)'
  <2>1. ~Idle(p, a)
    BY <1>0, <1>1, IdleStays
  <2>2. heap'[p][a] = heap[p][a]
    <3>1. CASE \E b \in Addrs : Gives(t, b)
      <4> PICK b \in Addrs : Gives(t, b)
        BY <3>1
      <4>1. ~(p = ProcOf[t] /\ a = b)
        BY DEF Gives, Answers, Idle, Busy
      <4>2. ~(p = ProcOf[t] /\ Fn(t) = "realloc" /\ a = op[t].ptr)
        BY <4>1 DEF Gives, Idle
      <4> QED
        BY <4>1, <4>2 DEF Gives
    <3>2. CASE TakesBack(t)
      <4>1. ~(p = ProcOf[t] /\ a = op[t].ptr)
        BY <3>2 DEF TakesBack, Idle
      <4> QED
        BY <3>2, <4>1 DEF TakesBack
    <3>3. CASE heap' = heap
      BY <3>3
    <3> QED
      BY <1>0, <1>1, <3>1, <3>2, <3>3, HeapMoves DEF Keeps, Begins, Finishes, Refuses
  <2> QED
    BY <1>1, <2>1, <2>2 DEF ToldInv, Tells, Silent, LiveOf
<1>2. ASSUME NEW t \in Threads, Emit(t), Len(ring) < RingCap, records' = records
      PROVE  Tells(p, a, s, u)'
  <2> PICK e : e = tmpEvt
    OBVIOUS
  <2>1. /\ e \in UsableEvent /\ ring' = Append(ring, e) /\ e.size = op[t].size /\ e.tid = t
        /\ About(e, p, a) <=> Allocates(e, p, a) \/ Frees(e, p, a)
    BY <1>0, <1>2, EmitFacts
  <2>0. /\ heap' = heap /\ (Busy(p, a) => Busy(p, a)' \/ Allocates(tmpEvt, p, a))
        /\ Frees(tmpEvt, p, a) => Busy(p, a)'
        /\ Allocates(tmpEvt, p, a) => heap[p][a] = BlockOf(t)
    BY <1>0, <1>2, EmitIdle
  <2>2. CASE Allocates(e, p, a)
    <3>1. heap'[p][a] = BlockOf(t)
      BY <2>0, <2>2
    <3>2. s = e.size /\ u = e.tid
      BY <2>1, <3>1 DEF BlockOf
    <3> QED
      BY <1>0, <1>2, <2>1, <2>2, <3>2, AppendAlloc
  <2>3. CASE ~About(e, p, a)
    <3>1. ~Idle(p, a) /\ heap' = heap
      BY <2>0, <2>1, <2>3 DEF Idle
    <3>2. Tells(p, a, s, u)
      BY <3>1 DEF ToldInv
    <3> QED
      BY <1>0, <1>2, <2>1, <2>3, <3>2, AppendOther
  <2>4. CASE Frees(e, p, a)
    BY <2>0, <2>4 DEF Idle
  <2> QED
    BY <2>1, <2>2, <2>3, <2>4
<1>3. CASE HandleEvent /\ UNCHANGED <<pc, op, heap, attached, pending>>
  <2>1. ~Idle(p, a)
    BY <1>3 DEF Idle, Busy, Fn
  <2>2. Tells(p, a, s, u)
    BY <1>3, <2>1 DEF ToldInv
  <2> QED
    BY <1>0, <1>3, <2>2, TellsStep
<1>4. CASE UNCHANGED <<pc, op, heap, ring, records, pending>>
  BY <1>4 DEF ToldInv, Idle, Busy, Fn, Tells, Silent, LiveOf
<1> QED
  BY <1>0, <1>1, <1>2, <1>3, <1>4, PipeMoves

\* A block that is told of has a live record when no event is on its way.
LEMMA ToldAtRest ==
  ASSUME PipeInv, ToldInv, Quiet, NEW p \in Procs, NEW a \in Addrs, Accepts(p),
         heap[p][a] # Absent, heap[p][a].traced
  PROVE  \E k \in LiveRecords(p) :
           /\ records[k].addr = a
           /\ records[k].size = heap[p][a].size /\ records[k].tid = heap[p][a].tid
<1>1. \A t \in Threads : op[t] = NoOp
  BY DEF Quiet, PipeInv, OneInv, TypeInv, CallShape, Fits
<1>2. ~Idle(p, a)
  BY <1>1 DEF Idle, Busy, NoOp, Fn
<1>3. Tells(p, a, heap[p][a].size, heap[p][a].tid)
  BY <1>2 DEF ToldInv
<1>4. Len(ring) = 0
  BY DEF Quiet
<1>5. DOMAIN records = 1 .. Len(records)
  BY DEF PipeInv
<1> QED
  BY <1>3, <1>4, <1>5 DEF Tells, LiveOf, LiveRecords

\* No block is forgotten.
LEMMA ToldInvariant ==
  ASSUME OneCpu, OneRecorded, IsFiniteSet(Threads), Cardinality(Threads) <= PendingCap
  PROVE  Spec /\ [][NoDrop]_vars => [](BaseInv /\ ToldInv)
<1> DEFINE IInv == BaseInv /\ (\A t \in Threads : Saved(t)) /\ ToldInv
<1>1. Init => IInv
  BY InitLedger
<1>2. IInv /\ [Next]_vars /\ [NoDrop]_vars => IInv'
  <2> SUFFICES ASSUME IInv, [Next]_vars, [NoDrop]_vars PROVE IInv'
    OBVIOUS
  <2>1. BaseInv'
    BY StepBase
  <2>2. (\A t \in Threads : Saved(t))'
    <3>1. TypeInv
      BY DEF BaseInv, PipeInv, OneInv
    <3>2. [ProbesNext]_pvars
      BY StepsAreProbes
    <3> QED
      BY <3>1, <3>2, StepAllSaved
  <2>3. ToldInv'
    BY StepTold
  <2> QED
    BY <2>1, <2>2, <2>3
<1>3. IInv => BaseInv /\ ToldInv
  OBVIOUS
<1> QED
  BY <1>1, <1>2, <1>3, PTL DEF Spec

(***************************************************************************)
(* No leak is hidden, on one CPU and of one recorded process beside any    *)
(* others: whichever programs were attached when or failed to attach, with *)
(* realloc, and while threads free and reallocate each other's blocks, a   *)
(* block whose allocation fired both probes has a live record of its size  *)
(* and thread (memscope.bpf.c:134-212, collector.c:188-241).  No event is  *)
(* dropped and the pending maps have room for each thread.                 *)
(***************************************************************************)
THEOREM LeaksAreRecorded ==
  ASSUME OneCpu, OneRecorded, IsFiniteSet(Threads), Cardinality(Threads) <= PendingCap
  PROVE  Spec /\ [][NoDrop]_vars => []NoLeakHidden
<1>1. BaseInv /\ ToldInv => NoLeakHidden
  <2> SUFFICES ASSUME BaseInv, ToldInv, Quiet, NEW p \in Procs, Accepts(p), NEW b \in LiveBlocks(p)
               PROVE  b \in {[addr |-> records[i].addr, tid |-> records[i].tid,
                              size |-> records[i].size] : i \in LiveRecords(p)}
    BY DEF NoLeakHidden
  <2>1. PICK a \in Addrs : /\ heap[p][a] # Absent /\ heap[p][a].traced
                           /\ b = [addr |-> a, tid |-> heap[p][a].tid, size |-> heap[p][a].size]
    BY DEF LiveBlocks
  <2>2. \E k \in LiveRecords(p) :
          /\ records[k].addr = a
          /\ records[k].size = heap[p][a].size /\ records[k].tid = heap[p][a].tid
    BY <2>1, ToldAtRest DEF BaseInv
  <2> QED
    BY <2>1, <2>2
<1> QED
  BY <1>1, ToldInvariant, PTL

------------------------------------------------------------------------------
(***************************************************************************)
(* Where free is probed from the start, no record outlives its block.      *)
(***************************************************************************)
\* A call announces its result only if both its probes were attached in time.
LEMMA StepTraced ==
  ASSUME TypeInv, PendInv, TracedInv, [ProbesNext]_pvars
  PROVE  TracedInv'
<1>1. ASSUME NEW t \in Threads, ThreadStep(t) PROVE TracedInv'
  <2>1. \A u \in Threads \ {t} : TracedAt(u)'
    BY <1>1, StepOwn DEF Own, TracedInv, TracedAt, Fn
  <2>2. TracedAt(t)'
    <3> USE DEF TracedAt, Fn, Goto
    <3>0. /\ pc \in [Threads -> Labels] /\ op \in [Threads -> Op] /\ Fits(pc[t], op[t])
          /\ TracedAt(t)
      BY DEF TypeInv, ProbesTypeOK, CallShape, TracedInv
    <3>1. ASSUME NEW f, NEW s, NEW q, NEW l, Call(t, f, s, q, l) PROVE TracedAt(t)'
      <4>1. f \in AllocFns /\ <<f, 0>> \notin attached => pending[f][t] = Absent
        BY DEF PendInv, PendFits
      <4>2. /\ op'[t].fn = f /\ op'[t].entered = (<<f, 0>> \in attached) /\ ~op'[t].done
            /\ <<f, 0>> \notin attached => pc'[t] = "libc"
            /\ pending' = pending
        BY <3>0, <3>1 DEF Call, pendings
      <4> QED
        BY <4>1, <4>2
    <3>2. CASE CallAlloc(t) \/ CallFree(t) \/ CallMap(t)
      BY <3>1, <3>2 DEF CallAlloc, CallFree, CallMap
    <3>3. ASSUME NEW r, Return(t, r), pc[t] = "libc" PROVE TracedAt(t)'
      BY <3>0, <3>3, AnswerFields DEF Return, Answers, pendings
    <3>4. CASE LibcAlloc(t) \/ LibcRealloc(t) \/ LibcFree(t) \/ LibcMap(t)
      BY <3>3, <3>4 DEF LibcAlloc, LibcRealloc, LibcFree, LibcMap
    <3>5. CASE Resume(t)
      BY <3>0, <3>5 DEF Resume, Enter, NoOp, pendings, AllocFns
    <3>6. CASE EntryProbe(t)
      <4>1. op' = op /\ ~op[t].done /\ pc[t] \in EntryLabels /\ op[t].fn \in AllocFns
        BY <3>0, <3>6 DEF EntryProbe, SavePending, ClearStack, WalkStack, SetDepth, SaveStack, Step,
                          app, Fits, EntryLabels
      <4>2. op[t].entered
        BY <3>0, <4>1 DEF EntryLabels
      <4> QED
        BY <4>1, <4>2
    <3>7. CASE TakePending(t)
      <4>1. CASE op' = [op EXCEPT ![t] = NoOp]
        BY <3>0, <4>1 DEF NoOp, AllocFns
      <4>2. CASE /\ pending[Fn(t)][t] # Absent
                 /\ op' = [op EXCEPT ![t].sizeVal = pending[Fn(t)][t].size]
        <5>1. op[t].fn \in AllocFns /\ op[t].done /\ pc[t] = "take"
          BY <3>0, <3>7 DEF TakePending, Fits
        <5>2. op[t].entered /\ op[t].hooked
          BY <3>0, <4>2, <5>1
        <5>3. op[t] \in AllocOp
          BY <3>0, <5>1, OpAlloc
        <5>4. op'[t] = [op[t] EXCEPT !.sizeVal = pending[Fn(t)][t].size]
          BY <3>0, <4>2
        <5>5. op'[t].entered = op[t].entered /\ op'[t].hooked = op[t].hooked
          BY <5>3, <5>4 DEF AllocOp
        <5> QED
          BY <5>2, <5>5
      <4> QED
        BY <3>7, <4>1, <4>2 DEF TakePending
    <3>8. CASE FreeProbe(t)
      BY <3>0, <3>8 DEF FreeProbe, Untrack, DeleteActive, Step, Leave, app, Fits, AllocFns
    <3>9. CASE EventSteps(t)
      <4>1. pc[t] \in BuildLabels /\ pending' = pending
        BY <3>9 DEF EventSteps, ClearEvt, FillHeader, FillBody, FillStack, Emit, Step, BuildLabels,
                    pendings
      <4>2. op'[t] = NoOp \/ op'[t] = op[t]
        BY <3>0, <3>9 DEF EventSteps, ClearEvt, FillHeader, FillBody, FillStack, Emit, app
      <4> QED
        BY <3>0, <4>1, <4>2 DEF BuildLabels, NoOp, AllocFns
    <3> QED
      BY <1>1, <3>2, <3>4, <3>5, <3>6, <3>7, <3>8, <3>9 DEF ThreadStep, Libc, ProbeStep
  <2> QED
    BY <2>1, <2>2 DEF TracedInv
<1>2. CASE AttachNext \/ Drain \/ UNCHANGED pvars
  BY <1>2 DEF AttachNext, Drain, pvars, app, pendings, TracedInv, TracedAt, Fn
<1> QED
  BY <1>1, <1>2 DEF ProbesNext

\* No free gets to libc but by its event.
LEMMA FreeWaits ==
  ASSUME TypeInv, NEW t \in Threads, ThreadStep(t), ~Emit(t), <<"free", 0>> \in attached,
         op'[t].fn = "free", pc'[t] = "libc", op'[t].ptr # 0
  PROVE  FALSE
<1>1. /\ op'[t].ptr = op[t].ptr
      /\ \/ Untracks(t)
         \/ pc[t] = "untrack"
         \/ Fn(t) = "free" /\ pc[t] \in PastMap
  BY FreePast DEF PastMap
<1>2. pc \in [Threads -> Labels] /\ Fits(pc[t], op[t])
  BY DEF TypeInv, ProbesTypeOK, CallShape
<1>3. pc[t] # "libc"
  BY <1>1, FreeAnswers DEF Untracks, PastMap, TakesBack, Answers
<1>4. pc[t] \in {"delete", "untrack", "memset", "header", "body", "emit"}
  BY <1>1, <1>3 DEF Untracks, PastMap
<1>5. Untrack(t) \/ DeleteActive(t) \/ ClearEvt(t) \/ FillHeader(t) \/ FillBody(t)
  BY <1>4 DEF ThreadStep, CallAlloc, CallFree, CallMap, Call, Libc, LibcAlloc, LibcRealloc, LibcFree,
     LibcMap, Resume, ProbeStep, EntryProbe, SavePending, ClearStack, WalkStack, SetDepth, SaveStack,
     FreeProbe, TakePending, EventSteps, FillStack, Step
<1> QED
  BY <1>1, <1>2, <1>5 DEF Untrack, DeleteActive, ClearEvt, FillHeader, FillBody, Step, Goto

\* Without realloc, an address becomes one that the records need not know by an event alone.
LEMMA IdleComes ==
  ASSUME TypeInv, NEW t \in Threads, ThreadStep(t), ~Emit(t), <<"free", 0>> \in attached,
         Fn(t) # "realloc", NEW p \in Procs, NEW a \in Addrs, Idle(p, a)'
  PROVE  Idle(p, a)
<1>0. (\A u \in Threads \ {t} : pc'[u] = pc[u] /\ op'[u] = op[u]) /\ a # 0
  BY StepOwn, ProbesAssumption DEF Own
<1>1. ASSUME heap'[p][a] = heap[p][a],
             ProcOf[t] = p /\ op'[t].done /\ op'[t].ret = a => op[t].done /\ op[t].ret = a
      PROVE  Idle(p, a)
  <2>1. ProcOf[t] = p => ~(Fn(t)' = "free" /\ pc'[t] = "libc" /\ op'[t].ptr = a)
    BY <1>0, FreeWaits DEF Fn
  <2>2. Busy(p, a)' => Busy(p, a)
    BY <1>0, <1>1, <2>1 DEF Busy, Fn
  <2> QED
    BY <1>1, <2>2 DEF Idle
<1>2. CASE TakesBack(t)
  <2>1. CASE p = ProcOf[t] /\ a = op[t].ptr
    BY <1>2, <2>1 DEF TakesBack, Answers, Idle, Busy
  <2>2. CASE ~(p = ProcOf[t] /\ a = op[t].ptr)
    BY <1>0, <1>1, <1>2, <2>2 DEF TakesBack, Answers
  <2> QED
    BY <2>1, <2>2
<1>3. CASE \E b \in Addrs : Gives(t, b)
  <2> PICK b \in Addrs : Gives(t, b)
    BY <1>3
  <2>1. CASE p = ProcOf[t] /\ a = b
    BY <2>1 DEF Gives, Idle
  <2>2. CASE ~(p = ProcOf[t] /\ a = b)
    BY <1>1, <2>2 DEF Gives, Answers
  <2> QED
    BY <2>1, <2>2
<1>4. CASE Keeps(t) \/ Begins(t) \/ Finishes(t) \/ Refuses(t)
  BY <1>0, <1>1, <1>4 DEF Keeps, Begins, Finishes, Refuses, Answers, NoOp
<1> QED
  BY <1>2, <1>3, <1>4, HeapMoves

\* Closed addresses stay closed until an allocation's event, and allocations alternate with
\* frees.
LEMMA StepClosed ==
  ASSUME OneRecorded, [NoDrop]_vars, BaseInv, GhostInv, TracedInv, ClosedInv, AlternateInv,
         "realloc" \notin Fns, [Next]_vars
  PROVE  ClosedInv' /\ AlternateInv'
<1> SUFFICES ASSUME NEW p \in Procs, NEW a \in Addrs, Accepts(p)
             PROVE  (Idle(p, a)' => Closed(p, a)') /\ Alternate(p, a)'
  BY DEF ClosedInv, AlternateInv, Accepts
<1>0. /\ PipeInv /\ OneInv /\ TypeInv /\ HeapInv /\ SpeakInv /\ SourceInv
      /\ ring \in Seq(UsableEvent)
      /\ <<"free", 0>> \in attached /\ \A t \in Threads : Fn(t) # "realloc"
      /\ Alternate(p, a) /\ (Idle(p, a) => Closed(p, a))
  BY DEF BaseInv, PipeInv, OneInv, GhostInv, ClosedInv, AlternateInv
<1>1. ASSUME UNCHANGED <<ring, records>>, Idle(p, a)' => Idle(p, a)
      PROVE  (Idle(p, a)' => Closed(p, a)') /\ Alternate(p, a)'
  <2>1. Closed(p, a) => Closed(p, a)'
    BY <1>1 DEF Closed, Silent, LiveOf
  <2>2. Alternate(p, a)'
    BY <1>0, <1>1 DEF Alternate, LiveOf
  <2> QED
    BY <1>0, <1>1, <2>1, <2>2
<1>2. ASSUME NEW t \in Threads, ThreadStep(t), ~Emit(t), UNCHANGED <<ring, records>>
      PROVE  (Idle(p, a)' => Closed(p, a)') /\ Alternate(p, a)'
  BY <1>0, <1>1, <1>2, IdleComes
<1>3. ASSUME NEW t \in Threads, Emit(t), Len(ring) < RingCap, records' = records
      PROVE  (Idle(p, a)' => Closed(p, a)') /\ Alternate(p, a)'
  <2> PICK e : e = tmpEvt
    OBVIOUS
  <2>1. /\ e \in UsableEvent /\ ring' = Append(ring, e)
        /\ About(e, p, a) <=> Allocates(e, p, a) \/ Frees(e, p, a)
    BY <1>0, <1>3, EmitFacts
  <2>2. /\ heap' = heap
        /\ Busy(p, a)' => Busy(p, a) \/ Frees(tmpEvt, p, a)
        /\ Allocates(tmpEvt, p, a) => heap[p][a] = BlockOf(t) /\ ~Busy(p, a)' /\ Busy(p, a)
    BY <1>0, <1>3, EmitIdle
  <2>3. CASE Frees(e, p, a)
    BY <1>0, <1>3, <2>1, <2>3, AppendFree
  <2>4. CASE ~About(e, p, a)
    <3>1. Idle(p, a)' => Idle(p, a)
      BY <2>1, <2>2, <2>4 DEF Idle
    <3> QED
      BY <1>0, <1>3, <2>1, <2>4, <3>1, AppendOther
  <2>5. CASE Allocates(e, p, a)
    <3>1. Closed(p, a)
      BY <1>0, <2>2, <2>5 DEF Idle
    <3>2. Alternate(p, a)'
      BY <1>0, <1>3, <2>1, <2>5, <3>1, AppendAlloc
    <3>3. ~Idle(p, a)'
      <4>1. op[t].done
        BY <1>0, <1>3, <2>5, EmitFacts
      <4>2. Fn(t) \in AllocFns /\ pc[t] = "emit"
        BY <1>0, <1>3, <4>1, HereFits DEF Emit, Fits, Fn
      <4>3. op[t].entered /\ op[t].hooked
        BY <4>1, <4>2 DEF TracedInv, TracedAt
      <4>4. heap'[p][a] = BlockOf(t)
        BY <2>2, <2>5
      <4>5. BlockOf(t).traced = (op[t].entered /\ op[t].hooked) /\ BlockOf(t) # Absent
        BY BlockPresent DEF BlockOf
      <4>6. heap'[p][a] # Absent /\ heap'[p][a].traced
        BY <4>3, <4>4, <4>5
      <4> QED
        BY <2>2, <2>5, <4>6 DEF Idle
    <3> QED
      BY <3>2, <3>3
  <2> QED
    BY <2>1, <2>3, <2>4, <2>5
<1>4. CASE HandleEvent /\ UNCHANGED <<pc, op, heap, attached, pending>>
  <2>1. Idle(p, a)' <=> Idle(p, a)
    BY <1>4 DEF Idle, Busy, Fn
  <2> QED
    BY <1>0, <1>4, <2>1, ClosedStep, AlternateStep
<1>5. CASE UNCHANGED <<pc, op, heap, ring, records, pending>>
  <2>1. Idle(p, a)' <=> Idle(p, a)
    BY <1>5 DEF Idle, Busy, Fn
  <2> QED
    BY <1>1, <1>5, <2>1
<1> QED
  BY <1>0, <1>2, <1>3, <1>4, <1>5, PipeMoves

\* No record outlives its block.
EndInv == BaseInv /\ GhostInv /\ TracedInv /\ ClosedInv /\ AlternateInv

LEMMA EndInvariant ==
  ASSUME OneCpu, OneRecorded, <<"free", 0>> \in AttachedFirst, "realloc" \notin Fns
  PROVE  Spec /\ [][NoDrop]_vars => []EndInv
<1>1. Init => EndInv
  BY InitLedger, InitGhost DEF Init, EndInv
<1>2. EndInv /\ [Next]_vars /\ [NoDrop]_vars => EndInv'
  <2> SUFFICES ASSUME EndInv, [Next]_vars, [NoDrop]_vars PROVE EndInv'
    OBVIOUS
  <2> USE DEF EndInv
  <2>1. BaseInv'
    BY StepBase
  <2>2. TypeInv /\ PendInv /\ HeapInv
    BY DEF BaseInv, PipeInv, OneInv
  <2>3. GhostInv' /\ TracedInv'
    BY <2>2, StepsAreProbes, StepGhost, StepTraced
  <2>4. ClosedInv' /\ AlternateInv'
    BY StepClosed
  <2> QED
    BY <2>1, <2>3, <2>4
<1> QED
  BY <1>1, <1>2, PTL DEF Spec

\* A live record is of a real address of the recorded process.
LEMMA LiveRecordFacts ==
  ASSUME BaseInv, NEW p \in Procs, NEW i \in LiveRecords(p)
  PROVE  /\ i \in 1 .. Len(records) /\ Accepts(p)
         /\ records[i].addr \in Addrs /\ i \in LiveOf(p, records[i].addr)
<1>1. DOMAIN records = 1 .. Len(records) /\ \A k \in 1 .. Len(records) : records[k] \in OwnRecord
  BY DEF BaseInv, PipeInv
<1> QED
  BY <1>1 DEF LiveRecords, LiveOf, OwnRecord, BaseInv, SourceInv

\* Two live records of one address are one record.
LEMMA OneRecordEach == EndInv => OneLiveRecord
<1> SUFFICES ASSUME EndInv, NEW p \in Procs, NEW i \in LiveRecords(p), NEW j \in LiveRecords(p),
                    records[i].addr = records[j].addr
             PROVE  i = j
  BY DEF OneLiveRecord
<1>1. /\ Accepts(p) /\ records[i].addr \in Addrs
      /\ i \in LiveOf(p, records[i].addr) /\ j \in LiveOf(p, records[i].addr)
  BY LiveRecordFacts DEF EndInv
<1> QED
  BY <1>1 DEF EndInv, AlternateInv, Alternate

\* A live record has its block when no event is on its way.
LEMMA ClosedAtRest ==
  ASSUME EndInv, Quiet, NEW p \in Procs, NEW i \in LiveRecords(p)
  PROVE  heap[p][records[i].addr] # Absent /\ heap[p][records[i].addr].traced
<1> DEFINE a == records[i].addr
<1>1. Accepts(p) /\ a \in Addrs /\ i \in LiveOf(p, a)
  BY LiveRecordFacts DEF EndInv
<1>2. ~Closed(p, a)
  BY <1>1 DEF Closed, Quiet
<1> QED
  BY <1>1, <1>2 DEF EndInv, ClosedInv, Idle

(***************************************************************************)
(* On one CPU, when free's probe is attached first and the programs do not *)
(* call realloc, no two records of the recorded process are ever live at   *)
(* one address: a FREE reaches handle_event before the RETURN of the next  *)
(* block placed there (memscope.bpf.c:184-245, collector.c:188-241), also  *)
(* when pending maps overflow or the other programs fail to attach.        *)
(***************************************************************************)
THEOREM LiveRecordsAreOne ==
  ASSUME OneCpu, OneRecorded, <<"free", 0>> \in AttachedFirst, "realloc" \notin Fns
  PROVE  Spec /\ [][NoDrop]_vars => []OneLiveRecord
BY EndInvariant, OneRecordEach, PTL

(***************************************************************************)
(* On one CPU, of one recorded process beside any others, the live records *)
(* are the traced blocks, one each, whenever nothing is under way: free's  *)
(* probe comes before the threads, the programs do not call realloc, no    *)
(* event is dropped and the pending maps have room for each thread.        *)
(***************************************************************************)
THEOREM RecordsAreExact ==
  ASSUME OneCpu, OneRecorded, IsFiniteSet(Threads), Cardinality(Threads) <= PendingCap,
         <<"free", 0>> \in AttachedFirst, "realloc" \notin Fns
  PROVE  Spec /\ [][NoDrop]_vars => []LedgerExact
<1>1. EndInv /\ ToldInv => LedgerExact
  <2> SUFFICES ASSUME EndInv, ToldInv, Quiet, NEW p \in Procs, Accepts(p)
               PROVE  /\ {[addr |-> records[i].addr, tid |-> records[i].tid,
                           size |-> records[i].size] : i \in LiveRecords(p)} = LiveBlocks(p)
                      /\ Cardinality(LiveRecords(p)) = Cardinality(LiveBlocks(p))
    BY DEF LedgerExact, RecordsMatchHeap
  <2> DEFINE R == LiveRecords(p)
             B == LiveBlocks(p)
             Shape(i) == [addr |-> records[i].addr, tid |-> records[i].tid, size |-> records[i].size]
             f == [i \in R |-> Shape(i)]
  <2>0. PipeInv /\ BaseInv
    BY DEF EndInv, BaseInv
  <2>1. ASSUME NEW a \in Addrs, heap[p][a] # Absent, heap[p][a].traced
        PROVE  \E k \in R : /\ records[k].addr = a
                            /\ records[k].size = heap[p][a].size /\ records[k].tid = heap[p][a].tid
    BY <2>0, <2>1, ToldAtRest
  <2>2. \A i, j \in R : records[i].addr = records[j].addr => i = j
    BY OneRecordEach DEF OneLiveRecord
  <2>3. ASSUME NEW i \in R PROVE Shape(i) \in B
    <3> DEFINE a == records[i].addr
    <3>1. a \in Addrs /\ heap[p][a] # Absent /\ heap[p][a].traced
      BY <2>0, ClosedAtRest, LiveRecordFacts
    <3>2. PICK k \in R : /\ records[k].addr = a
                         /\ records[k].size = heap[p][a].size /\ records[k].tid = heap[p][a].tid
      BY <2>1, <3>1
    <3>3. k = i
      BY <2>2, <3>2
    <3>4. Shape(i) = [addr |-> a, tid |-> heap[p][a].tid, size |-> heap[p][a].size]
      BY <3>2, <3>3
    <3> QED
      BY <3>1, <3>4 DEF LiveBlocks
  <2>4. ASSUME NEW b \in B PROVE \E i \in R : Shape(i) = b
    <3>1. PICK a \in Addrs : /\ heap[p][a] # Absent /\ heap[p][a].traced
                             /\ b = [addr |-> a, tid |-> heap[p][a].tid, size |-> heap[p][a].size]
      BY DEF LiveBlocks
    <3> QED
      BY <2>1, <3>1
  <2>5. {Shape(i) : i \in R} = B
    BY <2>3, <2>4
  <2>6. f \in Bijection(R, B)
    <3>1. \A i, j \in R : Shape(i) = Shape(j) => i = j
      <4>1. \A i \in R : Shape(i).addr = records[i].addr
        OBVIOUS
      <4> HIDE DEF Shape, R
      <4> QED
        BY <2>2, <4>1
    <3> HIDE DEF Shape, R, B
    <3>2. f \in [R -> B] /\ \A i, j \in R : f[i] = f[j] => i = j
      BY <2>3, <3>1
    <3>3. \A b \in B : \E i \in R : f[i] = b
      BY <2>4
    <3> QED
      BY <3>2, <3>3 DEF Bijection, Injection, Surjection, IsInjective
  <2>7. IsFiniteSet(R)
    <3>1. R \subseteq 1 .. Len(records) /\ Len(records) \in Nat
      BY <2>0 DEF LiveRecords, PipeInv
    <3>2. IsFiniteSet(1 .. Len(records))
      BY <3>1, FS_Interval
    <3> HIDE DEF R
    <3> QED
      BY <3>1, <3>2, FS_Subset
  <2>8. Cardinality(R) = Cardinality(B)
    <3> HIDE DEF R, B, f
    <3> QED
      BY <2>6, <2>7, FS_Bijection DEF ExistsBijection
  <2> QED
    BY <2>5, <2>8
<1> QED
  BY <1>1, EndInvariant, ToldInvariant, PTL
==============================================================================
