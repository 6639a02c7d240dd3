------------------------------- MODULE MCProbes -------------------------------
(***************************************************************************)
(* Probes for TLC: two threads of one process, two block addresses.        *)
(***************************************************************************)
EXTENDS Probes, TLC

MCThreads == {1, 2}
MCAddrs == {1, 2}
MCProcOf == (1 :> 1) @@ (2 :> 1)
MCMaxCalls == (1 :> 2) @@ (2 :> 2)
MCFewCalls == (1 :> 2) @@ (2 :> 1)
MCFirstFive == {AttachOrder[i] : i \in 1 .. 5}

\* Nothing a probe does, and no property, depends on the ring's contents, on
\* completed_allocs or on programs of functions nobody calls: states that differ in them
\* alone count as one.
EventView == <<pc, op, cpu, calls, heap, {x \in attached : x[1] \in Fns}, nextProbe, pending,
               pstack, tmpStack, tmpEvt, active>>
\* Nor do the maps depend on the event and stack buffers.
MapView == <<pc, op, cpu, calls, heap, attached, nextProbe, pending, active>>
==============================================================================
