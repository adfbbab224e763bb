---------------------------- MODULE MCRedisSink -----------------------------
(* Small instances of RedisSink.                                            *)
EXTENDS RedisSink

CONSTANTS p1, p2

\* Two processes, one of which may come back.
MCProcs == {p1, p2}
MCReturning == {p1}
=============================================================================
