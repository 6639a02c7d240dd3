--------------------------- MODULE AllocTableProofs ---------------------------
(***************************************************************************)
(* Proofs about AllocTable for every hash function, every set of addresses *)
(* and every initial capacity.                                             *)
(***************************************************************************)
EXTENDS AllocTable, TLAPS

\* The empty table satisfies the inductive invariant.
LEMMA InitInv == Init => TableInv
  BY TableAssumption DEF Init, TableInv, TypeOK, CapacityBacked, ChainsExact, LastIn, BucketOf,
         NothingSkipped, Record, Ledger!Record, NoEvent

\* What an event's entry in the log is.
LEMMA EntryType ==
  ASSUME NEW e \in Event, NEW rec \in Int
  PROVE  /\ Entry(e, rec) \in Logs
         /\ Entry(e, rec).free = (e.type = "FREE") /\ Entry(e, rec).addr = e.addr
         /\ Entry(e, rec).pid = e.pid /\ Entry(e, rec).ts = e.ts /\ Entry(e, rec).rec = rec
  BY DEF Event, Entry, Logs

\* Setting the record of the last entry of a log.
LEMMA SetRecType ==
  ASSUME NEW l \in Seq(Logs), NEW r \in Int, NEW n, n = Len(l), n # 0
  PROVE  /\ [l EXCEPT ![n].rec = r] \in Seq(Logs)
         /\ Len([l EXCEPT ![n].rec = r]) = n
         /\ \A q \in 1 .. n-1 : [l EXCEPT ![n].rec = r][q] = l[q]
         /\ [l EXCEPT ![n].rec = r][n].free = l[n].free
         /\ [l EXCEPT ![n].rec = r][n].addr = l[n].addr
         /\ [l EXCEPT ![n].rec = r][n].ts = l[n].ts
         /\ [l EXCEPT ![n].rec = r][n].rec = r
<1> DEFINE m == [l EXCEPT ![n].rec = r]
<1>1. /\ [l[n] EXCEPT !.rec = r] \in Logs
      /\ [l[n] EXCEPT !.rec = r].free = l[n].free
      /\ [l[n] EXCEPT !.rec = r].addr = l[n].addr
      /\ [l[n] EXCEPT !.rec = r].ts = l[n].ts
      /\ [l[n] EXCEPT !.rec = r].rec = r
  <2>1. l[n] \in Logs
    OBVIOUS
  <2> QED BY <2>1 DEF Logs
<1> DEFINE x == [l[n] EXCEPT !.rec = r]
<1>2. m = [l EXCEPT ![n] = x]
  OBVIOUS
<1> HIDE DEF m, x
<1>3. /\ m \in Seq(Logs) /\ Len(m) = n
      /\ \A q \in 1 .. n-1 : m[q] = l[q]
      /\ m[n] = x
  <2>1. x \in Logs /\ n \in 1 .. Len(l)
    BY <1>1 DEF x
  <2> QED BY <1>2, <2>1
<1> QED
  BY <1>1, <1>3 DEF m, x

\* A record built from an accepted event is a Record.
LEMMA NewRecordType ==
  ASSUME NEW e \in Event
  PROVE  Ledger!NewRecord(e.addr, e.pid, e.ts) \in Record
  BY DEF Event, Record, Ledger!Record, Ledger!NewRecord

(***************************************************************************)
(* Store keeps the chains exact, given hash_next as the growth left it.    *)
(***************************************************************************)
LEMMA StoreChains ==
  ASSUME TypeOK, ChainsExact,
         NEW STATE rec, rec \in Record, NEW STATE len, len \in Nat, count < len,
         NEW STATE nx, nx \in [0 .. len-1 -> Int],
         \A i \in 0 .. count-1 : nx[i] = next[i],
         Store(rec, nx)
  PROVE  /\ records' \in [0 .. count -> Record]
         /\ records'[count] = rec
         /\ \A i \in 0 .. count-1 : records'[i] = records[i]
         /\ next' \in [0 .. len-1 -> Int]
         /\ buckets' \in [Buckets -> Int]
         /\ count' = count + 1
         /\ ChainsExact'
<1> DEFINE b == Hash[rec.addr]
<1>0. count \in Nat /\ records \in [0 .. count-1 -> Record] /\ buckets \in [Buckets -> Int]
  BY DEF TypeOK
<1>1. b \in Buckets
  BY TableAssumption DEF Record, Ledger!Record
<1>2. /\ records' \in [0 .. count -> Record]
      /\ records'[count] = rec
      /\ \A i \in 0 .. count-1 : records'[i] = records[i]
      /\ next' \in [0 .. len-1 -> Int]
      /\ next'[count] = buckets[b]
      /\ \A i \in 0 .. count-1 : next'[i] = next[i]
      /\ buckets' \in [Buckets -> Int]
      /\ buckets'[b] = count
      /\ \A c \in Buckets : c # b => buckets'[c] = buckets[c]
      /\ count' = count + 1
  BY <1>0, <1>1 DEF Store
<1> HIDE DEF b
<1>3. count' = count + 1 /\ \A k \in 0 .. count-1 : records'[k] = records[k]
  BY <1>2
<1>4. ASSUME NEW c \in Buckets
      PROVE  LastIn(c, count, buckets[c])'
  <2>1. LastIn(c, count, buckets[c])
    BY DEF ChainsExact
  <2>2. CASE c = b
    <3>1. Hash[records'[count].addr] = c /\ buckets'[c] = count
      BY <1>2, <2>2 DEF b
    <3> QED BY <1>0, <1>3, <3>1 DEF LastIn, BucketOf
  <2>3. CASE c # b
    <3>1. Hash[records'[count].addr] # c /\ buckets'[c] = buckets[c]
      BY <1>2, <2>3 DEF b
    <3> QED BY <1>0, <1>3, <2>1, <3>1 DEF LastIn, BucketOf
  <2> QED BY <2>2, <2>3
<1>5. ASSUME NEW i \in 0 .. count
      PROVE  LastIn(BucketOf(i), i, next[i])'
  <2>1. CASE i = count
    <3>1. LastIn(b, count, buckets[b])
      BY <1>1 DEF ChainsExact
    <3>2. Hash[records'[i].addr] = b /\ next'[i] = buckets[b]
      BY <1>2, <2>1 DEF b
    <3> QED BY <1>0, <1>3, <2>1, <3>1, <3>2 DEF LastIn, BucketOf
  <2>2. CASE i # count
    <3>1. i \in 0 .. count-1 /\ LastIn(BucketOf(i), i, next[i])
      BY <1>0, <2>2 DEF ChainsExact
    <3>2. next'[i] = next[i]
      BY <1>2, <3>1
    <3>3. records'[i] = records[i]
      BY <1>3, <3>1
    <3>4. \A k \in 0 .. i-1 : records'[k] = records[k]
      BY <1>0, <1>3, <3>1
    <3> QED BY <3>1, <3>2, <3>3, <3>4 DEF LastIn, BucketOf
  <2> QED BY <2>1, <2>2
<1>6. ChainsExact'
  <2>1. 0 .. count'-1 = 0 .. count
    BY <1>0, <1>2
  <2> QED
    BY <1>4, <1>5, <2>1 DEF ChainsExact
<1> QED
  BY <1>2, <1>6

(***************************************************************************)
(* The chains depend on the records' addresses only.                       *)
(***************************************************************************)
LEMMA ChainsFrame ==
  ASSUME ChainsExact, count \in Nat, UNCHANGED <<count, next, buckets>>,
         \A k \in 0 .. count-1 : records'[k].addr = records[k].addr
  PROVE  ChainsExact'
<1>1. ASSUME NEW n \in 0 .. count, NEW c, NEW j, LastIn(c, n, j)
      PROVE  LastIn(c, n, j)'
  <2>1. \A k \in 0 .. n-1 : records'[k].addr = records[k].addr
    OBVIOUS
  <2> QED BY <1>1, <2>1 DEF LastIn, BucketOf
<1>2. ASSUME NEW c \in Buckets PROVE LastIn(c, count, buckets[c])'
  <2>1. LastIn(c, count, buckets[c])
    BY DEF ChainsExact
  <2> QED BY <1>1, <2>1 DEF LastIn, BucketOf
<1>3. ASSUME NEW i \in 0 .. count-1 PROVE LastIn(BucketOf(i), i, next[i])'
  <2>1. LastIn(BucketOf(i), i, next[i])
    BY DEF ChainsExact
  <2>2. \A k \in 0 .. i-1 : records'[k].addr = records[k].addr
    OBVIOUS
  <2> QED BY <2>1, <2>2 DEF LastIn, BucketOf
<1> QED BY <1>2, <1>3 DEF ChainsExact

(***************************************************************************)
(* The inductive step: every event, growth, failed growth and step of a    *)
(* lookup keeps the table's invariant.                                     *)
(***************************************************************************)
LEMMA StepInv == TableInv /\ [Next]_vars => TableInv'
<1> SUFFICES ASSUME TableInv, [Next]_vars PROVE TableInv'
  OBVIOUS
<1> USE DEF TableInv
<1>0. count \in Nat /\ capacity \in Nat /\ capacity # 0 /\ count <= capacity
  BY DEF TypeOK
<1>1. ASSUME NEW e \in Event, OnAlloc(e) PROVE TableInv'
  <2> DEFINE rec == Ledger!NewRecord(e.addr, e.pid, e.ts)
  <2>1. rec \in Record
    BY NewRecordType
  <2>2. nextLen \in Nat /\ count < nextLen /\ next \in [0 .. nextLen-1 -> Int]
    BY <1>0, <1>1 DEF OnAlloc, Full, TypeOK, CapacityBacked
  <2>3. Store(rec, next)
    BY <1>1 DEF OnAlloc
  <2> HIDE DEF rec
  <2>4. /\ records' \in [0 .. count -> Record]
        /\ next' \in [0 .. nextLen-1 -> Int]
        /\ buckets' \in [Buckets -> Int]
        /\ count' = count + 1
        /\ ChainsExact'
    BY <2>1, <2>2, <2>3, StoreChains
  <2>5. log' \in Seq(Logs)
    BY <1>0, <1>1, EntryType DEF OnAlloc, Logged, TypeOK
  <2>6. TypeOK'
    BY <1>0, <1>1, <2>4, <2>5 DEF TypeOK, OnAlloc, Receive, Full, walk, NoEvent
  <2> QED
    BY <1>1, <2>4, <2>6 DEF OnAlloc, Receive, walk, CapacityBacked, NothingSkipped
<1>2. ASSUME NEW e \in Event, OnAllocGrow(e) PROVE TableInv'
  <2> DEFINE rec == Ledger!NewRecord(e.addr, e.pid, e.ts)
             nx == [i \in 0 .. 2*capacity-1 |-> IF i < capacity THEN next[i] ELSE -1]
  <2>1. rec \in Record
    BY NewRecordType
  <2>2. /\ 2*capacity \in Nat /\ count < 2*capacity
        /\ nx \in [0 .. 2*capacity-1 -> Int]
        /\ \A i \in 0 .. count-1 : nx[i] = next[i]
    BY <1>0 DEF TypeOK, CapacityBacked
  <2>3. Store(rec, nx)
    BY <1>2 DEF OnAllocGrow
  <2> HIDE DEF rec, nx
  <2>4. /\ records' \in [0 .. count -> Record]
        /\ next' \in [0 .. 2*capacity-1 -> Int]
        /\ buckets' \in [Buckets -> Int]
        /\ count' = count + 1
        /\ ChainsExact'
    BY <2>1, <2>2, <2>3, StoreChains
  <2>5. log' \in Seq(Logs)
    BY <1>0, <1>2, EntryType DEF OnAllocGrow, Logged, TypeOK
  <2>6. TypeOK'
    BY <1>0, <1>2, <2>4, <2>5 DEF TypeOK, OnAllocGrow, Receive, Full, walk, NoEvent
  <2> QED
    BY <1>0, <1>2, <2>4, <2>6
    DEF OnAllocGrow, Receive, walk, CapacityBacked, NothingSkipped
<1>3. ASSUME NEW e \in Event, OnAllocNoNext(e) PROVE TableInv'
  <2>1. log' \in Seq(Logs)
    BY <1>3, EntryType DEF OnAllocNoNext, Logged, TypeOK
  <2>2. TypeOK'
    BY <1>0, <1>3, <2>1 DEF TypeOK, OnAllocNoNext, Receive, walk, NoEvent
  <2> QED
    BY <1>0, <1>3, <2>2 DEF OnAllocNoNext, Receive, walk, CapacityBacked, ChainsExact,
         LastIn, BucketOf, NothingSkipped, Matches
<1>4. ASSUME NEW e \in Event, OnFree(e) PROVE TableInv'
  <2>1. log' \in Seq(Logs) /\ Len(log') # 0
    BY <1>4, EntryType DEF OnFree, Logged, TypeOK
  <2>2. e.addr \in Addrs /\ Hash[e.addr] \in Buckets
    BY TableAssumption DEF Event
  <2>3. LastIn(Hash[e.addr], count, idx') /\ idx' = buckets[Hash[e.addr]]
    BY <1>4, <2>2 DEF OnFree, ChainsExact
  <2>4. TypeOK'
    BY <1>4, <2>1, <2>2 DEF TypeOK, OnFree, Receive, table
  <2>5. \A k \in 0 .. count-1 : idx' < k => ~Matches(records[k], e.addr)
    BY <2>3 DEF LastIn, BucketOf, Matches
  <2>6. NothingSkipped'
    BY <1>4, <2>3, <2>5 DEF OnFree, table, NothingSkipped, LastIn, BucketOf, Matches
  <2> QED
    BY <1>4, <2>4, <2>6 DEF OnFree, table, CapacityBacked, ChainsExact, LastIn, BucketOf
<1>5. CASE WalkOn
  <2>1. /\ pc = "walk" /\ idx \in 0 .. count-1 /\ idx' = next[idx]
        /\ BucketOf(idx) = Hash[ev.addr]
        /\ ~Matches(records[idx], ev.addr)
        /\ \A k \in 0 .. count-1 : idx < k => ~Matches(records[k], ev.addr)
    <3>1. pc = "walk" /\ idx >= 0 /\ ~Matches(records[idx], ev.addr) /\ idx' = next[idx]
      BY <1>5 DEF WalkOn
    <3>2. /\ idx \in -1 .. count-1
          /\ idx # -1 => BucketOf(idx) = Hash[ev.addr]
          /\ \A k \in 0 .. count-1 : idx < k => ~Matches(records[k], ev.addr)
      BY <3>1 DEF NothingSkipped
    <3>3. count \in Nat
      BY DEF TypeOK
    <3>4. idx \in 0 .. count-1 /\ idx # -1
      BY <3>1, <3>2, <3>3
    <3> QED
      BY <3>1, <3>2, <3>4
  <2>2. LastIn(BucketOf(idx), idx, next[idx])
    BY <2>1 DEF ChainsExact
  <2>3. /\ idx' \in -1 .. idx-1
        /\ idx' # -1 => BucketOf(idx') = Hash[ev.addr]
        /\ \A k \in 0 .. idx-1 : idx' < k => ~Matches(records[k], ev.addr)
    BY <2>1, <2>2 DEF LastIn, BucketOf, Matches
  <2>4. \A k \in 0 .. count-1 : idx' < k => ~Matches(records[k], ev.addr)
    <3> SUFFICES ASSUME NEW k \in 0 .. count-1, idx' < k
                 PROVE  ~Matches(records[k], ev.addr)
      OBVIOUS
    <3>1. CASE k < idx
      <4>1. k \in 0 .. idx-1
        BY <1>0, <2>1, <3>1
      <4> QED BY <2>3, <4>1
    <3>2. CASE k = idx
      BY <2>1, <3>2
    <3>3. CASE k > idx
      BY <2>1, <3>3
    <3> QED BY <1>0, <2>1, <3>1, <3>2, <3>3
  <2>5. idx' \in -1 .. count-1
    BY <1>0, <2>1, <2>3
  <2>6. NothingSkipped'
    BY <1>5, <2>3, <2>4, <2>5 DEF WalkOn, table, NothingSkipped, BucketOf
  <2>7. ChainsExact'
    BY <1>0, <1>5, ChainsFrame DEF WalkOn, table
  <2>8. TypeOK'
    BY <1>5, <2>5 DEF WalkOn, table, TypeOK
  <2> QED
    BY <1>5, <2>6, <2>7, <2>8 DEF WalkOn, table, CapacityBacked
<1>6. CASE WalkHit
  <2>1. /\ pc' = "poll" /\ idx \in 0 .. count-1
        /\ UNCHANGED <<count, next, buckets>>
        /\ records' = [records EXCEPT ![idx].live = FALSE, ![idx].freed = ev.ts]
    BY <1>0, <1>6 DEF WalkHit, NothingSkipped, TypeOK
  <2>2. ev.ts \in Times /\ records[idx] \in Record
    BY <1>6, <2>1 DEF TypeOK, WalkHit, Event
  <2>6. log' \in Seq(Logs)
    BY <1>6, <2>1, SetRecType DEF WalkHit, TypeOK
  <2>3. records' \in [0 .. count-1 -> Record]
    BY <2>1, <2>2 DEF TypeOK, Record, Ledger!Record
  <2>4. \A k \in 0 .. count-1 : records'[k].addr = records[k].addr
    BY <2>1, <2>2 DEF TypeOK, Record, Ledger!Record
  <2>5. ChainsExact'
    BY <1>0, <2>1, <2>4, ChainsFrame
  <2> QED
    BY <1>6, <2>1, <2>3, <2>5, <2>6 DEF WalkHit, TypeOK, CapacityBacked, NothingSkipped
<1>7. ASSUME UNCHANGED table, pc' = "poll" \/ UNCHANGED pc, UNCHANGED <<ev, idx>>,
             log' \in Seq(Logs), pc = "walk" => Len(log') # 0
      PROVE  TableInv'
  BY <1>7 DEF table, TypeOK, CapacityBacked, ChainsExact, LastIn, BucketOf,
       NothingSkipped, Matches
<1>8. ASSUME NEW e \in Event, OnAllocNoRecords(e) PROVE TableInv'
  <2>1. log' \in Seq(Logs) /\ pc = "poll"
    BY <1>8, EntryType DEF OnAllocNoRecords, Receive, Logged, TypeOK
  <2> QED
    BY <1>7, <1>8, <2>1 DEF OnAllocNoRecords, walk
<1>9. CASE WalkMiss \/ UNCHANGED vars
  BY <1>7, <1>9 DEF WalkMiss, vars, table, TypeOK
<1>10. ASSUME NEW e \in Event, OnIgnored(e) \/ OnFiltered(e) PROVE TableInv'
  BY <1>9, <1>10 DEF OnIgnored, OnFiltered
<1>11. CASE PollTimeout
  BY <1>9, <1>11 DEF PollTimeout
<1> QED
  BY <1>1, <1>2, <1>3, <1>4, <1>5, <1>6, <1>8, <1>9, <1>10, <1>11 DEF Next

(***************************************************************************)
(* For every hash function, initial capacity and stream of events: the     *)
(* chains are exact, both arrays back the capacity also after a growth     *)
(* that failed half-way, and a lookup never steps over a match.            *)
(***************************************************************************)
THEOREM TableInvariant == Spec => []TableInv
<1>1. Init => TableInv
  BY InitInv
<1>2. TableInv /\ [Next]_vars => TableInv'
  BY StepInv
<1> QED
  BY <1>1, <1>2, PTL DEF Spec

\* Every variable keeps its type: a record built from an event is a record.
THEOREM TableTypes == Spec => []TypeOK
  BY TableInvariant, PTL DEF TableInv

\* Both arrays back the capacity, also after alloc_table_grow failed half-way.
THEOREM CapacityIsBacked == Spec => []CapacityBacked
  BY TableInvariant, PTL DEF TableInv

\* The chains of hash_buckets and hash_next lead through every record, newest first.
THEOREM ChainsAreExact == Spec => []ChainsExact
  BY TableInvariant, PTL DEF TableInv

\* find_live_alloc leaves no live record of the address behind it.
THEOREM NothingIsSkipped == Spec => []NothingSkipped
  BY TableInvariant, PTL DEF TableInv

\* A step of the table is a step of the ledger, or changes no record.
LEMMA StepLedger ==
  TableInv /\ [Next]_vars => [Ledger!Next]_<<records, count>>
<1> SUFFICES ASSUME TableInv, [Next]_vars
             PROVE  Ledger!Next \/ UNCHANGED <<records, count>>
  OBVIOUS
<1>1. ASSUME NEW e \in Event, OnAlloc(e) \/ OnAllocGrow(e) PROVE Ledger!Next
  <2>1. e.addr \in Addrs /\ e.pid \in Pids /\ e.ts \in Times
    BY DEF Event
  <2>2. Ledger!Append(e.addr, e.pid, e.ts)
    BY <1>1 DEF OnAlloc, OnAllocGrow, Store, Ledger!Append, Ledger!NewRecord
  <2> QED BY <2>1, <2>2 DEF Ledger!Next
<1>2. CASE WalkHit
  <2>1. idx \in 0 .. count-1 /\ ev.addr \in Addrs /\ ev.ts \in Times
    BY <1>2 DEF WalkHit, TableInv, NothingSkipped, TypeOK, Event
  <2>2. Ledger!NewestLive(idx, ev.addr)
    BY <1>2, <2>1 DEF WalkHit, TableInv, NothingSkipped, Matches,
         Ledger!NewestLive, Ledger!LiveAt
  <2>3. Ledger!Close(idx, ev.ts)
    BY <1>2, <2>1, <2>2 DEF WalkHit, Ledger!Close
  <2> QED BY <2>1, <2>3 DEF Ledger!Next
<1>3. ASSUME NEW e \in Event,
             \/ OnAllocNoRecords(e) \/ OnAllocNoNext(e) \/ OnFree(e)
             \/ OnIgnored(e) \/ OnFiltered(e)
      PROVE  UNCHANGED <<records, count>>
  BY <1>3 DEF OnAllocNoRecords, OnAllocNoNext, OnFree, OnIgnored, OnFiltered, table, vars
<1>4. CASE WalkOn \/ WalkMiss \/ PollTimeout \/ UNCHANGED vars
  BY <1>4 DEF WalkOn, WalkMiss, PollTimeout, table, vars
<1> QED
  BY <1>1, <1>2, <1>3, <1>4 DEF Next

(***************************************************************************)
(* The hash table implements the ledger: frees close the newest live       *)
(* record of their address and nothing else ever changes a record.         *)
(***************************************************************************)
THEOREM TableImplementsLedger == Spec => ImplementsLedger
<1>1. Init => Ledger!Init
  BY DEF Init, Ledger!Init
<1>2. TableInv /\ [Next]_vars => [Ledger!Next]_<<records, count>>
  BY StepLedger
<1> QED
  BY <1>1, <1>2, TableInvariant, PTL
  DEF Spec, ImplementsLedger, Ledger!Spec, Ledger!ledgerVars

------------------------------------------------------------------------------
(***************************************************************************)
(* Frees and allocations are paired.  While a lookup runs, the last entry  *)
(* of the log is its free, with no record yet; every other entry is as     *)
(* FreesPaired has it, and no entry names a record that is not stored.     *)
(***************************************************************************)
PairInv ==
  /\ TableInv
  /\ FreesPaired
  /\ \A q \in DOMAIN log : log[q].rec \in -1 .. count-1
  /\ pc = "walk" => /\ log[Len(log)].free /\ log[Len(log)].rec = -1
                    /\ log[Len(log)].addr = ev.addr /\ log[Len(log)].ts = ev.ts

\* What the closed records of a log are, entry by entry.
LEMMA ClosedAt ==
  ASSUME TypeOK, RecordsClosed, NEW q \in 1 .. Len(log), log[q].free, log[q].rec # -1
  PROVE  /\ records[log[q].rec].addr = log[q].addr /\ records[log[q].rec].freed = log[q].ts
         /\ \E p \in 1 .. q-1 : ~log[p].free /\ log[p].rec = log[q].rec
         /\ \A r \in 1 .. Len(log) : log[r].free /\ log[r].rec = log[q].rec => r = q
<1>1. DOMAIN log = 1 .. Len(log)
  BY DEF TypeOK
<1>2. q \in DOMAIN log
  BY <1>1
<1>3. /\ records[log[q].rec].addr = log[q].addr /\ records[log[q].rec].freed = log[q].ts
      /\ \E p \in 1 .. q-1 : Opens(p, log[q].rec)
      /\ \A r \in DOMAIN log : Closes(r, log[q].rec) => r = q
  BY <1>2 DEF RecordsClosed
<1> QED BY <1>1, <1>3 DEF Opens, Closes

\* What a finished free passed over.
LEMMA NewestAt ==
  ASSUME TypeOK, NewestFirst, NEW q \in 1 .. Len(log), log[q].free, pc = "walk" => q # Len(log),
         NEW p \in 1 .. q-1, ~log[p].free, log[p].addr = log[q].addr, log[p].rec > log[q].rec
  PROVE  \E r \in 1 .. q-1 : log[r].free /\ log[r].rec = log[p].rec
<1>1. q \in DOMAIN log
  BY DEF TypeOK
<1> QED BY <1>1 DEF NewestFirst, Closes

\* A new entry of the log.
LEMMA LogGrows ==
  ASSUME TypeOK, NEW e \in Event, NEW rec \in Int, Logged(e, rec)
  PROVE  /\ Len(log) \in Nat /\ Len(log') = Len(log) + 1
         /\ DOMAIN log = 1 .. Len(log) /\ DOMAIN log' = 1 .. Len(log) + 1
         /\ \A q \in 1 .. Len(log) : log'[q] = log[q]
         /\ log'[Len(log) + 1].free = (e.type = "FREE") /\ log'[Len(log) + 1].addr = e.addr
         /\ log'[Len(log) + 1].pid = e.pid /\ log'[Len(log) + 1].ts = e.ts
         /\ log'[Len(log) + 1].rec = rec
<1>1. /\ Len(log) \in Nat /\ Len(log') = Len(log) + 1
      /\ DOMAIN log = 1 .. Len(log) /\ DOMAIN log' = 1 .. Len(log) + 1
      /\ \A q \in 1 .. Len(log) : log'[q] = log[q]
      /\ log'[Len(log) + 1] = Entry(e, rec)
  BY EntryType DEF TypeOK, Logged
<1> QED BY <1>1, EntryType

\* An allocation that is stored opens a record of its own.
LEMMA PairStored ==
  ASSUME PairInv, NEW e \in Event, Logged(e, count), e.type # "FREE", pc = "poll", pc' = "poll",
         count' = count + 1,
         records' = [i \in 0 .. count |-> IF i = count THEN Ledger!NewRecord(e.addr, e.pid, e.ts)
                                          ELSE records[i]]
  PROVE  FreesPaired' /\ \A q \in DOMAIN log' : log'[q].rec \in -1 .. count'-1
<1>0. PICK n : n = Len(log)
  OBVIOUS
<1>1. /\ n \in Nat /\ DOMAIN log = 1 .. n /\ DOMAIN log' = 1 .. n+1
      /\ \A q \in 1 .. n : log'[q] = log[q]
      /\ ~log'[n+1].free /\ log'[n+1].addr = e.addr /\ log'[n+1].pid = e.pid
      /\ log'[n+1].ts = e.ts /\ log'[n+1].rec = count
  <2>1. TypeOK /\ count \in Int
    BY DEF PairInv, TableInv, TypeOK
  <2> QED BY <1>0, <2>1, LogGrows
<1>2. /\ count \in Nat /\ e.ts # 0
      /\ \A q \in 1 .. n : log[q].rec \in -1 .. count-1
  BY <1>1, TableAssumption DEF PairInv, TableInv, TypeOK, Event
<1>3. /\ records'[count].live /\ records'[count].freed = 0 /\ records'[count].addr = e.addr
      /\ records'[count].pid = e.pid /\ records'[count].born = e.ts
      /\ \A i \in 0 .. count-1 : records'[i] = records[i]
  BY <1>2 DEF Ledger!NewRecord
<1>4. RecordsOpened'
  <2>1. RecordsOpened
    BY DEF PairInv, FreesPaired
  <2>2. ASSUME NEW i \in 0 .. count
        PROVE  /\ \E p \in 1 .. n+1 : Opens(p, i)'
               /\ \A p \in 1 .. n+1 : Opens(p, i)' =>
                    /\ records'[i].addr = log'[p].addr /\ records'[i].pid = log'[p].pid
                    /\ records'[i].born = log'[p].ts
    <3>1. CASE i = count
      <4>1. Opens(n+1, i)' /\ \A p \in 1 .. n+1 : Opens(p, i)' => p = n+1
        BY <1>1, <1>2, <3>1 DEF Opens
      <4> QED BY <1>1, <1>3, <3>1, <4>1
    <3>2. CASE i # count
      <4>1. i \in 0 .. count-1 /\ records'[i] = records[i]
        BY <1>2, <1>3, <3>2
      <4>2. \A p \in 1 .. n+1 : Opens(p, i)' <=> p # n+1 /\ Opens(p, i)
        BY <1>1, <1>2, <3>2 DEF Opens
      <4>3. /\ \E p \in 1 .. n : Opens(p, i)
            /\ \A p \in 1 .. n : Opens(p, i) =>
                 /\ records[i].addr = log[p].addr /\ records[i].pid = log[p].pid
                 /\ records[i].born = log[p].ts
        BY <1>1, <2>1, <4>1 DEF RecordsOpened
      <4> QED BY <1>1, <4>1, <4>2, <4>3
    <3> QED BY <3>1, <3>2
  <2> QED BY <1>1, <1>2, <2>2 DEF RecordsOpened
<1>5. RecordsClosed'
  <2>1. RecordsClosed
    BY DEF PairInv, FreesPaired
  <2>2. \A q \in 1 .. n+1, i \in Int : Closes(q, i)' <=> q # n+1 /\ Closes(q, i)
    BY <1>1 DEF Closes
  <2>3. ASSUME NEW i \in 0 .. count
        PROVE  /\ records'[i].live <=> \A q \in 1 .. n+1 : ~Closes(q, i)'
               /\ records'[i].live <=> records'[i].freed = 0
    <3>1. CASE i = count
      <4>1. \A q \in 1 .. n : ~Closes(q, i)
        BY <1>2, <3>1 DEF Closes
      <4> QED BY <1>1, <1>2, <1>3, <2>2, <3>1, <4>1
    <3>2. CASE i # count
      <4>1. i \in 0 .. count-1 /\ records'[i] = records[i]
        BY <1>2, <1>3, <3>2
      <4> QED BY <1>1, <2>1, <2>2, <4>1 DEF RecordsClosed
    <3> QED BY <3>1, <3>2
  <2>4. ASSUME NEW q \in 1 .. n+1, log'[q].free, log'[q].rec # -1
        PROVE  /\ records'[log'[q].rec].addr = log'[q].addr
               /\ records'[log'[q].rec].freed = log'[q].ts
               /\ \E p \in 1 .. q-1 : ~log'[p].free /\ log'[p].rec = log'[q].rec
               /\ \A r \in 1 .. n+1 : log'[r].free /\ log'[r].rec = log'[q].rec => r = q
    <3>1. q \in 1 .. n /\ log'[q] = log[q] /\ log[q].rec \in 0 .. count-1
      BY <1>1, <1>2, <2>4
    <3>2. /\ records[log[q].rec].addr = log[q].addr /\ records[log[q].rec].freed = log[q].ts
          /\ \E p \in 1 .. q-1 : ~log[p].free /\ log[p].rec = log[q].rec
          /\ \A r \in 1 .. n : log[r].free /\ log[r].rec = log[q].rec => r = q
      BY <2>1, <2>4, <3>1, <1>0, ClosedAt DEF PairInv, TableInv
    <3>3. records'[log[q].rec] = records[log[q].rec]
      BY <1>3, <3>1
    <3>4. \A p \in 1 .. q-1 : log'[p] = log[p]
      BY <1>1, <3>1
    <3>5. \A r \in 1 .. n+1 : log'[r].free => r \in 1 .. n /\ log'[r] = log[r]
      BY <1>1
    <3> QED BY <3>1, <3>2, <3>3, <3>4, <3>5
  <2>5. 0 .. count'-1 = 0 .. count
    BY <1>2
  <2>6. \A i \in 0 .. count'-1 : /\ records'[i].live <=> \A q \in DOMAIN log' : ~Closes(q, i)'
                                 /\ records'[i].live <=> records'[i].freed = 0
    BY <1>1, <2>3, <2>5
  <2>7. \A q \in DOMAIN log' : log'[q].free /\ log'[q].rec # -1 =>
          /\ records'[log'[q].rec].addr = log'[q].addr /\ records'[log'[q].rec].freed = log'[q].ts
          /\ \E p \in 1 .. q-1 : ~log'[p].free /\ log'[p].rec = log'[q].rec
          /\ \A r \in DOMAIN log' : log'[r].free /\ log'[r].rec = log'[q].rec => r = q
    BY <1>1, <2>4
  <2> QED BY <2>6, <2>7 DEF RecordsClosed, Opens, Closes
<1>6. NewestFirst'
  <2>1. ASSUME NEW q \in 1 .. n, log[q].free, NEW p \in 1 .. q-1, ~log[p].free,
               log[p].addr = log[q].addr, log[p].rec > log[q].rec
        PROVE  \E r \in 1 .. q-1 : log[r].free /\ log[r].rec = log[p].rec
    BY <1>1, <2>1, <1>0, NewestAt DEF PairInv, TableInv, FreesPaired
  <2> QED BY <1>1, <2>1 DEF NewestFirst, Closes
<1> QED BY <1>1, <1>2, <1>4, <1>5, <1>6 DEF FreesPaired

\* So does no event that touches no record: a dropped allocation, a free that starts.
LEMMA PairEntered ==
  ASSUME PairInv, NEW e \in Event, Logged(e, -1), pc = "poll", UNCHANGED <<records, count>>,
         IF e.type = "FREE" THEN pc' = "walk" ELSE pc' = "poll"
  PROVE  FreesPaired' /\ \A q \in DOMAIN log' : log'[q].rec \in -1 .. count'-1
<1>0. PICK n : n = Len(log)
  OBVIOUS
<1>1. /\ n \in Nat /\ DOMAIN log = 1 .. n /\ DOMAIN log' = 1 .. n+1 /\ Len(log') = n+1
      /\ \A q \in 1 .. n : log'[q] = log[q]
      /\ log'[n+1].free = (e.type = "FREE") /\ log'[n+1].rec = -1
  BY <1>0, LogGrows DEF PairInv, TableInv
<1>2. /\ count \in Nat
      /\ \A q \in 1 .. n : log[q].rec \in -1 .. count-1
  BY <1>1 DEF PairInv, TableInv, TypeOK
<1>3. RecordsOpened'
  <2>1. RecordsOpened
    BY DEF PairInv, FreesPaired
  <2> QED BY <1>1, <1>2, <2>1 DEF RecordsOpened, Opens
<1>4. RecordsClosed'
  <2>1. RecordsClosed
    BY DEF PairInv, FreesPaired
  <2>2. \A q \in 1 .. n+1, i \in 0 .. count-1 : Closes(q, i)' <=> q # n+1 /\ Closes(q, i)
    BY <1>1 DEF Closes
  <2>3. ASSUME NEW q \in 1 .. n+1, log'[q].free, log'[q].rec # -1
        PROVE  /\ records'[log'[q].rec].addr = log'[q].addr
               /\ records'[log'[q].rec].freed = log'[q].ts
               /\ \E p \in 1 .. q-1 : ~log'[p].free /\ log'[p].rec = log'[q].rec
               /\ \A r \in 1 .. n+1 : log'[r].free /\ log'[r].rec = log'[q].rec => r = q
    <3>1. q \in 1 .. n /\ log'[q] = log[q] /\ log[q].rec \in 0 .. count-1
      BY <1>1, <1>2, <2>3
    <3>2. /\ records[log[q].rec].addr = log[q].addr /\ records[log[q].rec].freed = log[q].ts
          /\ \E p \in 1 .. q-1 : ~log[p].free /\ log[p].rec = log[q].rec
          /\ \A r \in 1 .. n : log[r].free /\ log[r].rec = log[q].rec => r = q
      BY <2>1, <2>3, <3>1, <1>0, ClosedAt DEF PairInv, TableInv
    <3> QED BY <1>1, <1>2, <3>1, <3>2
  <2>4. ASSUME NEW i \in 0 .. count-1
        PROVE  /\ records'[i].live <=> \A q \in 1 .. n+1 : ~Closes(q, i)'
               /\ records'[i].live <=> records'[i].freed = 0
    BY <1>1, <2>1, <2>2 DEF RecordsClosed
  <2> QED BY <1>1, <1>2, <2>3, <2>4 DEF RecordsClosed, Opens, Closes
<1>5. NewestFirst'
  <2>1. ASSUME NEW q \in 1 .. n, log[q].free, NEW p \in 1 .. q-1, ~log[p].free,
               log[p].addr = log[q].addr, log[p].rec > log[q].rec
        PROVE  \E r \in 1 .. q-1 : log[r].free /\ log[r].rec = log[p].rec
    BY <1>1, <2>1, <1>0, NewestAt DEF PairInv, TableInv, FreesPaired
  <2>2. ASSUME NEW q \in DOMAIN log', log'[q].free, pc' = "walk" => q # Len(log')
        PROVE  q \in 1 .. n /\ \A r \in 1 .. q : log'[r] = log[r]
    <3>1. q # n+1
      BY <1>1, <2>2
    <3> QED BY <1>1, <3>1
  <2>3. ASSUME NEW q \in DOMAIN log', log'[q].free, pc' = "walk" => q # Len(log'),
               NEW p \in 1 .. q-1, ~log'[p].free, log'[p].addr = log'[q].addr,
               log'[p].rec > log'[q].rec
        PROVE  \E r \in 1 .. q-1 : log'[r].free /\ log'[r].rec = log'[p].rec
    <3>1. q \in 1 .. n /\ \A r \in 1 .. q : log'[r] = log[r]
      BY <2>2, <2>3
    <3>2. log'[q] = log[q] /\ log'[p] = log[p] /\ \A r \in 1 .. q-1 : log'[r] = log[r]
      BY <1>1, <3>1
    <3> QED BY <2>1, <2>3, <3>1, <3>2
  <2> QED BY <2>3 DEF NewestFirst, Closes
<1> QED BY <1>1, <1>2, <1>3, <1>4, <1>5 DEF FreesPaired

\* Whatever was allocated at the address of the lookup after the cursor is closed.
LEMMA Passed ==
  ASSUME PairInv, pc = "walk", idx \in -1 .. count-1,
         NEW p \in 1 .. Len(log)-1, ~log[p].free, log[p].addr = ev.addr, log[p].rec > idx
  PROVE  \E r \in 1 .. Len(log)-1 : Closes(r, log[p].rec)
<1> DEFINE k == log[p].rec
<1>1. /\ Len(log) \in Nat /\ p \in DOMAIN log /\ DOMAIN log = 1 .. Len(log)
      /\ count \in Nat
  BY DEF PairInv, TableInv, TypeOK
<1>2. k \in 0 .. count-1 /\ idx < k
  BY <1>1 DEF PairInv
<1>3. records[k].addr = ev.addr
  BY <1>1, <1>2 DEF PairInv, FreesPaired, RecordsOpened, Opens
<1>4. ~records[k].live
  BY <1>2, <1>3 DEF PairInv, TableInv, NothingSkipped, Matches
<1>5. PICK r \in DOMAIN log : Closes(r, k)
  BY <1>2, <1>4 DEF PairInv, FreesPaired, RecordsClosed
<1>6. r # Len(log)
  BY <1>2, <1>5 DEF PairInv, Closes
<1> QED BY <1>1, <1>5, <1>6

\* The lookup ends with the record idx closed by the free, or with none (-1).
LEMMA PairClosed ==
  ASSUME PairInv, pc = "walk", idx \in 0 .. count-1, Matches(records[idx], ev.addr),
         log' = [log EXCEPT ![Len(log)].rec = idx], UNCHANGED count,
         records' = [records EXCEPT ![idx].live = FALSE, ![idx].freed = ev.ts]
  PROVE  FreesPaired' /\ \A q \in DOMAIN log' : log'[q].rec \in -1 .. count'-1
<1>0. PICK n : n = Len(log)
  OBVIOUS
<1>1. /\ n \in Nat /\ n # 0 /\ DOMAIN log = 1 .. n /\ log \in Seq(Logs)
      /\ count \in Nat /\ records \in [0 .. count-1 -> Record]
      /\ ev.ts \in Times /\ ev.ts # 0
      /\ \A q \in 1 .. n : log[q].rec \in -1 .. count-1
      /\ log[n].free /\ log[n].rec = -1 /\ log[n].addr = ev.addr /\ log[n].ts = ev.ts
  BY <1>0, TableAssumption DEF PairInv, TableInv, TypeOK, Event
<1>2. /\ DOMAIN log' = 1 .. n
      /\ \A q \in 1 .. n-1 : log'[q] = log[q]
      /\ log'[n].free /\ log'[n].rec = idx /\ log'[n].addr = ev.addr /\ log'[n].ts = ev.ts
  BY <1>0, <1>1, SetRecType
<1>3. /\ records[idx].live /\ records[idx].addr = ev.addr
      /\ ~records'[idx].live /\ records'[idx].freed = ev.ts
      /\ \A i \in 0 .. count-1 :
           records'[i].addr = records[i].addr /\ records'[i].pid = records[i].pid
           /\ records'[i].born = records[i].born
      /\ \A i \in 0 .. count-1 : i # idx => records'[i] = records[i]
  BY <1>1 DEF Matches, Record, Ledger!Record
<1>4. \A p \in 1 .. n-1 : ~log[p].free /\ log[p].addr = ev.addr /\ log[p].rec > idx =>
        \E r \in 1 .. n-1 : Closes(r, log[p].rec)
  BY <1>0, Passed
<1>5. RecordsOpened'
  <2>1. RecordsOpened
    BY DEF PairInv, FreesPaired
  <2>2. \A p \in 1 .. n, i \in 0 .. count-1 : Opens(p, i) => p # n
    BY <1>1 DEF Opens
  <2>3. \A p \in 1 .. n, i \in 0 .. count-1 :
          /\ Opens(p, i) <=> Opens(p, i)'
          /\ Opens(p, i) => log'[p] = log[p]
    BY <1>1, <1>2, <2>2 DEF Opens
  <2> QED BY <1>1, <1>2, <1>3, <2>1, <2>3 DEF RecordsOpened
<1>6. RecordsClosed'
  <2>1. RecordsClosed
    BY DEF PairInv, FreesPaired
  <2>2. \A q \in 1 .. n : ~(log[q].free /\ log[q].rec = idx)
    BY <1>1, <1>3, <2>1 DEF RecordsClosed, Closes
  <2>3. \E p \in 1 .. n-1 : ~log'[p].free /\ log'[p].rec = idx
    <3>1. PICK p \in 1 .. n : ~log[p].free /\ log[p].rec = idx
      BY <1>1 DEF PairInv, FreesPaired, RecordsOpened, Opens
    <3> QED BY <1>1, <1>2, <3>1
  <2>4. \A q \in 1 .. n, i \in 0 .. count-1 :
          Closes(q, i)' <=> Closes(q, i) \/ (q = n /\ i = idx)
    BY <1>1, <1>2 DEF Closes
  <2>5. ASSUME NEW i \in 0 .. count-1
        PROVE  /\ records'[i].live <=> \A q \in 1 .. n : ~Closes(q, i)'
               /\ records'[i].live <=> records'[i].freed = 0
    <3>1. CASE i = idx
      BY <1>1, <1>3, <2>4, <3>1
    <3>2. CASE i # idx
      BY <1>1, <1>3, <2>1, <2>4, <3>2 DEF RecordsClosed
    <3> QED BY <3>1, <3>2
  <2>6. ASSUME NEW q \in 1 .. n, log'[q].free, log'[q].rec # -1
        PROVE  /\ records'[log'[q].rec].addr = log'[q].addr
               /\ records'[log'[q].rec].freed = log'[q].ts
               /\ \E p \in 1 .. q-1 : ~log'[p].free /\ log'[p].rec = log'[q].rec
               /\ \A r \in 1 .. n : log'[r].free /\ log'[r].rec = log'[q].rec => r = q
    <3>1. CASE q = n
      BY <1>1, <1>2, <1>3, <2>2, <2>3, <3>1
    <3>2. CASE q # n
      <4>1. q \in 1 .. n-1 /\ log'[q] = log[q] /\ log[q].free /\ log[q].rec \in 0 .. count-1
        BY <1>1, <1>2, <2>6, <3>2
      <4>2. log[q].rec # idx
        BY <2>2, <4>1
      <4>3. /\ records[log[q].rec].addr = log[q].addr /\ records[log[q].rec].freed = log[q].ts
            /\ \E p \in 1 .. q-1 : ~log[p].free /\ log[p].rec = log[q].rec
            /\ \A r \in 1 .. n : log[r].free /\ log[r].rec = log[q].rec => r = q
        <5>1. q \in 1 .. Len(log) /\ log[q].rec # -1
          BY <1>0, <1>1, <4>1
        <5> QED BY <1>0, <2>1, <4>1, <5>1, ClosedAt DEF PairInv, TableInv
      <4> QED BY <1>1, <1>2, <1>3, <4>1, <4>2, <4>3
    <3> QED BY <3>1, <3>2
  <2>7. \A i \in 0 .. count'-1 : /\ records'[i].live <=> \A q \in DOMAIN log' : ~Closes(q, i)'
                                 /\ records'[i].live <=> records'[i].freed = 0
    BY <1>2, <2>5
  <2>8. \A q \in DOMAIN log' : log'[q].free /\ log'[q].rec # -1 =>
          /\ records'[log'[q].rec].addr = log'[q].addr /\ records'[log'[q].rec].freed = log'[q].ts
          /\ \E p \in 1 .. q-1 : ~log'[p].free /\ log'[p].rec = log'[q].rec
          /\ \A r \in DOMAIN log' : log'[r].free /\ log'[r].rec = log'[q].rec => r = q
    <3>1. TAKE q \in DOMAIN log'
    <3>2. HAVE log'[q].free /\ log'[q].rec # -1
    <3>3. DOMAIN log' = 1 .. n
      BY <1>2
    <3>4. q \in 1 .. n
      BY <3>3
    <3> QED BY <2>6, <3>2, <3>3, <3>4
  <2> QED BY <2>7, <2>8 DEF RecordsClosed, Opens, Closes
<1>7. NewestFirst'
  <2>1. ASSUME NEW q \in 1 .. n-1, log[q].free, NEW p \in 1 .. q-1, ~log[p].free,
               log[p].addr = log[q].addr, log[p].rec > log[q].rec
        PROVE  \E r \in 1 .. q-1 : log[r].free /\ log[r].rec = log[p].rec
    <3>1. q \in 1 .. Len(log) /\ q # Len(log)
      BY <1>0, <1>1
    <3> QED BY <2>1, <3>1, NewestAt DEF PairInv, TableInv, FreesPaired
  <2>2. ASSUME NEW q \in 1 .. n, log'[q].free, NEW p \in 1 .. q-1,
               ~log'[p].free, log'[p].addr = log'[q].addr, log'[p].rec > log'[q].rec
        PROVE  \E r \in 1 .. q-1 : log'[r].free /\ log'[r].rec = log'[p].rec
    <3>1. p \in 1 .. n-1 /\ log'[p] = log[p]
      BY <1>1, <1>2
    <3>2. CASE q = n
      BY <1>2, <1>4, <2>2, <3>1, <3>2 DEF Closes
    <3>3. CASE q # n
      <4>1. q \in 1 .. n-1 /\ log'[q] = log[q] /\ \A r \in 1 .. q-1 : log'[r] = log[r]
        BY <1>1, <1>2, <3>3
      <4>2. \E r \in 1 .. q-1 : log[r].free /\ log[r].rec = log[p].rec
        BY <2>1, <2>2, <3>1, <4>1
      <4> QED BY <3>1, <4>1, <4>2
    <3> QED BY <3>2, <3>3
  <2> QED BY <1>2, <2>2 DEF NewestFirst, Closes
<1>8. \A q \in DOMAIN log' : log'[q].rec \in -1 .. count'-1
  BY <1>1, <1>2
<1> QED BY <1>5, <1>6, <1>7, <1>8 DEF FreesPaired

\* The inductive step of the pairing.
LEMMA StepPair == PairInv /\ [Next]_vars => PairInv'
<1> SUFFICES ASSUME PairInv, [Next]_vars PROVE PairInv'
  OBVIOUS
<1>0. TableInv /\ TableInv'
  BY StepInv DEF PairInv
<1>1. ASSUME NEW e \in Event, OnAlloc(e) \/ OnAllocGrow(e) PROVE PairInv'
  <2>1. /\ Logged(e, count) /\ e.type # "FREE" /\ pc = "poll" /\ pc' = "poll"
        /\ count' = count + 1
        /\ records' = [i \in 0 .. count |-> IF i = count
                         THEN Ledger!NewRecord(e.addr, e.pid, e.ts) ELSE records[i]]
    BY <1>1 DEF OnAlloc, OnAllocGrow, Store, Receive, walk, AllocReturns
  <2>2. FreesPaired' /\ \A q \in DOMAIN log' : log'[q].rec \in -1 .. count'-1
    BY <2>1, PairStored
  <2> QED BY <1>0, <2>1, <2>2 DEF PairInv
<1>2. ASSUME NEW e \in Event, OnAllocNoRecords(e) \/ OnAllocNoNext(e) PROVE PairInv'
  <2>1. /\ Logged(e, -1) /\ e.type # "FREE" /\ pc = "poll" /\ pc' = "poll"
        /\ UNCHANGED <<records, count>>
    BY <1>2 DEF OnAllocNoRecords, OnAllocNoNext, Receive, table, walk, AllocReturns
  <2>2. FreesPaired' /\ \A q \in DOMAIN log' : log'[q].rec \in -1 .. count'-1
    BY <2>1, PairEntered
  <2> QED BY <1>0, <2>1, <2>2 DEF PairInv
<1>3. ASSUME NEW e \in Event, OnFree(e) PROVE PairInv'
  <2>1. /\ Logged(e, -1) /\ e.type = "FREE" /\ pc = "poll" /\ pc' = "walk" /\ ev' = e
        /\ UNCHANGED <<records, count>>
    BY <1>3 DEF OnFree, Receive, table
  <2>2. FreesPaired' /\ \A q \in DOMAIN log' : log'[q].rec \in -1 .. count'-1
    BY <2>1, PairEntered
  <2>3. /\ log'[Len(log')].free /\ log'[Len(log')].rec = -1
        /\ log'[Len(log')].addr = e.addr /\ log'[Len(log')].ts = e.ts
    <3>1. TypeOK
      BY <1>0 DEF TableInv
    <3>2. /\ Len(log') = Len(log) + 1 /\ log'[Len(log) + 1].free = (e.type = "FREE")
          /\ log'[Len(log) + 1].addr = e.addr /\ log'[Len(log) + 1].ts = e.ts
          /\ log'[Len(log) + 1].rec = -1
      BY <2>1, <3>1, LogGrows
    <3> QED BY <2>1, <3>2
  <2> QED BY <1>0, <2>1, <2>2, <2>3 DEF PairInv
<1>4. CASE WalkHit
  <2>1. /\ pc = "walk" /\ pc' = "poll" /\ idx \in 0 .. count-1
        /\ Matches(records[idx], ev.addr)
        /\ log' = [log EXCEPT ![Len(log)].rec = idx] /\ UNCHANGED count
        /\ records' = [records EXCEPT ![idx].live = FALSE, ![idx].freed = ev.ts]
    BY <1>0, <1>4 DEF WalkHit, TableInv, NothingSkipped, TypeOK
  <2>2. FreesPaired' /\ \A q \in DOMAIN log' : log'[q].rec \in -1 .. count'-1
    BY <2>1, PairClosed
  <2> QED BY <1>0, <2>1, <2>2 DEF PairInv
<1>5. CASE WalkMiss
  <2>1. pc = "walk" /\ pc' = "poll" /\ idx = -1 /\ UNCHANGED <<records, count, log>>
    BY <1>0, <1>5 DEF WalkMiss, table, TableInv, NothingSkipped
  <2>2. \A p \in 1 .. Len(log)-1 : ~log[p].free /\ log[p].addr = ev.addr /\ log[p].rec > -1 =>
          \E r \in 1 .. Len(log)-1 : Closes(r, log[p].rec)
    BY <1>0, <2>1, Passed DEF TableInv, NothingSkipped
  <2>3. RecordsOpened' /\ RecordsClosed'
    BY <2>1 DEF PairInv, FreesPaired, RecordsOpened, RecordsClosed, Opens, Closes
  <2>4. NewestFirst'
    <3>1. NewestFirst
      BY DEF PairInv, FreesPaired
    <3> QED BY <2>1, <2>2, <3>1 DEF PairInv, NewestFirst, Closes
  <2> QED BY <1>0, <2>1, <2>3, <2>4 DEF PairInv, FreesPaired
<1>6. ASSUME UNCHANGED <<records, count, log, pc, ev>> PROVE PairInv'
  BY <1>0, <1>6 DEF PairInv, FreesPaired, RecordsOpened, RecordsClosed, NewestFirst, Opens, Closes
<1>7. CASE WalkOn \/ PollTimeout \/ UNCHANGED vars
  BY <1>6, <1>7 DEF WalkOn, PollTimeout, table, vars
<1>8. ASSUME NEW e \in Event, OnIgnored(e) \/ OnFiltered(e) PROVE PairInv'
  BY <1>6, <1>8 DEF OnIgnored, OnFiltered, vars
<1> QED
  BY <1>1, <1>2, <1>3, <1>4, <1>5, <1>7, <1>8 DEF Next

(***************************************************************************)
(* For any stream of events, in any order of their timestamps, and any     *)
(* failing growth: each free is paired with the latest stored allocation   *)
(* of its address that no earlier free was paired with, each record tells  *)
(* the two events it stands for, and only a dropped allocation is passed   *)
(* over.                                                                   *)
(***************************************************************************)
THEOREM FreesArePaired == Spec => []FreesPaired
<1>1. Init => PairInv
  BY InitInv DEF Init, PairInv, FreesPaired, RecordsOpened, RecordsClosed, NewestFirst
<1>2. PairInv /\ [Next]_vars => PairInv'
  BY StepPair
<1>3. PairInv => FreesPaired
  BY DEF PairInv
<1> QED
  BY <1>1, <1>2, <1>3, PTL DEF Spec
==============================================================================
