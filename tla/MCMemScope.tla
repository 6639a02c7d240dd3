------------------------------ MODULE MCMemScope ------------------------------
(***************************************************************************)
(* MemScope for TLC: threads 1 and 2 of the traced process, thread 3 of    *)
(* another one whose heap uses the same addresses.                         *)
(***************************************************************************)
EXTENDS MemScope, TLC

MCThreads == {1, 2, 3}
MCProcOf == (1 :> 1) @@ (2 :> 1) @@ (3 :> 2)
MCMaxCalls == (1 :> 2) @@ (2 :> 1) @@ (3 :> 1)
MCAttachCalls == (1 :> 3) @@ (2 :> 1)
\* Only the programs of the functions called matter.
AttachView == <<pc, op, cpu, calls, heap, {x \in attached : x[1] \in Fns}, nextProbe,
                pending, pstack, tmpStack, tmpEvt, active, ring, records>>
MCAttachThreads == {1, 2}
MCOneThread == {1}
MCTwoProcs == {1, 3}
==============================================================================
