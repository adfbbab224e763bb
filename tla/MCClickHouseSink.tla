-------------------------- MODULE MCClickHouseSink --------------------------
(* Small instances of ClickHouseSink.                                       *)
EXTENDS ClickHouseSink

\* The clock advances with every tick.
MCTsOf == [n \in Ticks |-> n]
=============================================================================
