----------------------------- MODULE Accounting -----------------------------
(***************************************************************************)
(* What the flow maps promise: every socket call that moves bytes is       *)
(* credited exactly once, to the process instance that made it, or its     *)
(* loss is counted in DROPS.  Credits appear in whole ticks.               *)
(***************************************************************************)
CONSTANTS Calls, Insts, InstOf

VARIABLES
  pending,    \* calls that happened and are not yet published
  dropped,    \* calls counted in DROPS
  delivered   \* <<call, instance>> pairs published

vars == <<pending, dropped, delivered>>

Init ==
  /\ pending = {}
  /\ dropped = {}
  /\ delivered = {}

\* Nothing is pending twice, and nothing settled becomes pending again.
Seen(c) == c \in pending \/ c \in dropped \/ \E i \in Insts : <<c, i>> \in delivered

Happen(c) ==
  /\ ~Seen(c)
  /\ pending' = pending \cup {c}
  /\ UNCHANGED <<dropped, delivered>>

Drop(c) ==
  /\ c \in pending
  /\ pending' = pending \ {c}
  /\ dropped' = dropped \cup {c}
  /\ UNCHANGED delivered

Tick ==
  \E S \in SUBSET pending :
    /\ pending' = pending \ S
    /\ delivered' = delivered \cup {<<c, InstOf[c]>> : c \in S}
    /\ UNCHANGED dropped

Next ==
  \/ \E c \in Calls : Happen(c) \/ Drop(c)
  \/ Tick

Spec == Init /\ [][Next]_vars
=============================================================================
