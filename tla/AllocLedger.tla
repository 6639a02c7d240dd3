----------------------------- MODULE AllocLedger -----------------------------
(***************************************************************************)
(* What the collector's allocation table promises to its user, without the *)
(* hash table that implements it: a log of allocation records in arrival   *)
(* order.  A return event of an allocator appends a live record; a free    *)
(* event closes the NEWEST live record of that address and no other; a     *)
(* record is never removed, reordered or edited otherwise, so the CSV dump *)
(* is a faithful history.                                                  *)
(***************************************************************************)
EXTENDS Integers

CONSTANTS Addrs,     \* heap addresses
          Pids,      \* process identifiers carried by the events
          Times      \* event timestamps; 0, not among them, means "not freed"

VARIABLES records,   \* 0 .. count-1 -> Record, in arrival order
          count

ledgerVars == <<records, count>>

Record == [addr: Addrs, pid: Pids, born: Times,
           freed: Times \cup {0}, live: BOOLEAN]

\* A record as handle_event builds it: live, timestamp_free still 0.
NewRecord(a, p, t) ==
  [addr |-> a, pid |-> p, born |-> t, freed |-> 0, live |-> TRUE]

LiveAt(i, a) == records[i].live /\ records[i].addr = a

\* i is the newest live record of address a.
NewestLive(i, a) ==
  /\ i \in 0 .. count-1
  /\ LiveAt(i, a)
  /\ \A k \in i+1 .. count-1 : ~LiveAt(k, a)

Init ==
  /\ records = [i \in {} |-> NewRecord(i, i, i)]
  /\ count = 0

Append(a, p, t) ==
  /\ records' = [i \in 0 .. count |->
                   IF i = count THEN NewRecord(a, p, t) ELSE records[i]]
  /\ count' = count + 1

Close(i, t) ==
  /\ \E a \in Addrs : NewestLive(i, a)
  /\ records' = [records EXCEPT ![i].live = FALSE, ![i].freed = t]
  /\ UNCHANGED count

Next ==
  \/ \E a \in Addrs, p \in Pids, t \in Times : Append(a, p, t)
  \/ \E i \in 0 .. count-1, t \in Times : Close(i, t)

Spec == Init /\ [][Next]_ledgerVars
==============================================================================
