---------------------------- MODULE MCAggregator ----------------------------
(* Small instances of Aggregator.                                           *)
EXTENDS Aggregator, TLC

CONSTANTS s1, s2, s3, i1, f1, f2, d1, tls

\* One process with two flows to one peer, which differ in local port.
MCSends == {s1, s2, s3}
MCInsts == {i1}
MCFlows == {f1, f2}
MCFlowOf == (s1 :> f1) @@ (s2 :> f1) @@ (s3 :> f2)
MCProcOf == (f1 :> i1) @@ (f2 :> i1)
MCDestOf == (f1 :> d1) @@ (f2 :> d1)

\* Only the first send of f1 has a payload that sniff() recognises.
MCHeadOf == (s1 :> tls) @@ (s2 :> NoHead) @@ (s3 :> NoHead)
=============================================================================
