----------------------------- MODULE MCFlowMaps -----------------------------
(* Small instances of FlowMaps.                                             *)
EXTENDS FlowMaps, TLC

CONSTANTS c1, c2, c3, i1, i2, d1, d2

MCCalls == {c1, c2, c3}
MCInsts == {i1, i2}
MCInstOf == (c1 :> i1) @@ (c2 :> i1) @@ (c3 :> i2)

\* Two processes: c1 and c2 are calls of one flow, c3 has a flow of its own.
MCPidOf == (i1 :> 1) @@ (i2 :> 2)
MCDestOf == (c1 :> d1) @@ (c2 :> d1) @@ (c3 :> d1)

\* i2 reuses the PID of i1; c1 and c3 have the same peer and ports.
MCReusedPidOf == (i1 :> 1) @@ (i2 :> 1)
MCReusedDestOf == (c1 :> d1) @@ (c2 :> d2) @@ (c3 :> d1)
=============================================================================
