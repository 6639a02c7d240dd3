----------------------------- MODULE MCAllocTable -----------------------------
(***************************************************************************)
(* AllocTable for TLC: three addresses, two of which share a bucket, two   *)
(* processes of which one is the target, and a table that starts with room *)
(* for one record, so that it grows twice.                                 *)
(***************************************************************************)
EXTENDS AllocTable, TLC

CONSTANTS a1, a2, a3

MCAddrs == {a1, a2, a3}
MCBuckets == {0, 1}
MCHash == (a1 :> 0) @@ (a2 :> 0) @@ (a3 :> 1)
MCPids == {1, 2}
==============================================================================
