------------------------------- MODULE Slots --------------------------------
(***************************************************************************)
(* SlotAssigner of charts/palette.ts: the colour slots the charts of a     *)
(* page share.  Its state is a function from the names that hold a slot to *)
(* [slot, lastSeen].  A name is a number, so that names have an order.     *)
(***************************************************************************)
EXTENDS Lists

CONSTANTS
  SLOTS,       \* number of colours
  RELEASE_MS   \* a slot is kept this long after its name was last seen

NoSlots == [x \in {} |-> 0]
Slot(s, x) == IF x \in DOMAIN s THEN s[x].slot ELSE -1

\* The names whose slot is not yet free again.
HeldSlots(s, now) == {x \in DOMAIN s : now - s[x].lastSeen <= RELEASE_MS}

\* Mutant: a name that holds its slot is not seen again.
assign_NotRenewed(s, names, now) ==
  LET held == HeldSlots(s, now)
      free == Ordered((0 .. SLOTS - 1) \ {s[x].slot : x \in held}, <)
      new  == SelectSeq(names, LAMBDA x : x \notin held)
      got  == {i \in DOMAIN new : i <= Len(free)}
  IN  [x \in held \cup {new[i] : i \in got} |->
         IF x \in held THEN s[x] ELSE [slot |-> free[CHOOSE i \in got : new[i] = x], lastSeen |-> now]]

\* assign: names still held keep their slot; the new ones take the lowest free
\* slots in the order given, until none is left.
assign(s, names, now) ==
  LET held == HeldSlots(s, now)
      free == Ordered((0 .. SLOTS - 1) \ {s[x].slot : x \in held}, <)
      new  == SelectSeq(names, LAMBDA x : x \notin held)
      got  == {i \in DOMAIN new : i <= Len(free)}
  IN  [x \in held \cup {new[i] : i \in got} |->
         [slot |-> IF x \in held THEN s[x].slot
                   ELSE free[CHOOSE i \in got : new[i] = x],
          lastSeen |-> IF x \in Range(names) THEN now ELSE s[x].lastSeen]]

releaseNames(s, names) == [x \in DOMAIN s \ names |-> s[x]]

=============================================================================
