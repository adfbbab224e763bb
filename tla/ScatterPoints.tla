--------------------------- MODULE ScatterPoints ----------------------------
(***************************************************************************)
(* What the scatter of sent and received bytes draws of its points         *)
(* (history/scatterPoints.ts, TxRxScatter.tsx): the series, their hues,    *)
(* the extent of the axes, and the points in a rectangle.                  *)
(***************************************************************************)
EXTENDS Slots

CONSTANTS
  DECADE,        \* 10 in the code: a step of the logarithmic axes
  OTHER_SERIES   \* the series of the names without a hue

\* A total of 0 is drawn at 1 B.
clamp1(v) == Larger(v, 1)

\* The names with a hue: the first distinct ones.
topNames(points) ==
  Take(FoldLeft(LAMBDA seen, p : IF p.name \in Range(seen) THEN seen ELSE Append(seen, p.name), << >>, points), SLOTS)

\* Mutant: the slots that the page's names kept are handed out again.
colorSlots_Again(names, pageSlot) ==
  LET kept == SelectSeq(names, LAMBDA x : pageSlot[x] >= 0)
      rest == SelectSeq(names, LAMBDA x : pageSlot[x] < 0)
  IN  [x \in {names[n] : n \in DOMAIN names} |->
         IF pageSlot[x] >= 0 THEN pageSlot[x] ELSE (CHOOSE n \in DOMAIN rest : rest[n] = x) - 1]

\* A name keeps the slot it holds on the page, unless a name before it has
\* that slot; the others take the lowest slots left.
colorSlots(names, pageSlot) ==
  LET keep(out, x) == IF pageSlot[x] \in (0 .. SLOTS - 1) \ Range(out) THEN out @@ (x :> pageSlot[x]) ELSE out
      kept == FoldLeft(keep, NoSlots, names)
      give(out, x) == LET free == (0 .. SLOTS - 1) \ Range(out)
                      IN  IF x \in DOMAIN out \/ free = {} THEN out ELSE out @@ (x :> Min(free))
  IN  FoldLeft(give, kept, names)

\* Whole decades around every point.
extentOf(lo, hi) ==
  LET min == Max({DECADE ^ k : k \in {j \in 0 .. lo : DECADE ^ j <= lo}})
  IN  [min |-> min, max |-> Larger(min * DECADE, Min({DECADE ^ k : k \in {j \in 0 .. hi : DECADE ^ j >= hi}}))]
axisExtent(points) ==
  LET vs == UNION {{clamp1(points[i].tx), clamp1(points[i].rx)} : i \in DOMAIN points}
  IN  IF vs = {} THEN [min |-> 1, max |-> DECADE ^ 3] ELSE extentOf(Min(vs), Max(vs))

\* Sent = received, and ten times either, from edge to edge: <<received, sent>>.
refLines(e) ==
  {<<e.min, e.min, e.max, e.max>>} \cup
  (IF e.max \div e.min > DECADE
   THEN {<<e.min, e.min * DECADE, e.max \div DECADE, e.max>>, <<e.min * DECADE, e.min, e.max, e.max \div DECADE>>} ELSE {})

\* The series: a name with a hue, or the rest, and the indexes drawn in it.
seriesOf(points, own, slotOf) ==
  [x \in own \cup {OTHER_SERIES} |->
     [slot |-> IF x \in DOMAIN slotOf THEN slotOf[x] ELSE -1,
      at |-> {i \in DOMAIN points : IF x = OTHER_SERIES THEN points[i].name \notin own ELSE points[i].name = x}]]
hued(points, names, pageSlot) == seriesOf(points, Range(names), colorSlots(names, pageSlot))
scatterSeries(points, pageSlot) == hued(points, topNames(points), pageSlot)

\* The entries of the legend.
legendItems(points) ==
  LET names == Range(topNames(points))
  IN  names \cup (IF \E i \in DOMAIN points : points[i].name \notin names THEN {OTHER_SERIES} ELSE {})

\* The indexes of the points in a rectangle, whichever corner the drag began at.
inRect(points, a) ==
  LET between(v, p, q) == Smaller(p, q) <= v /\ v <= Larger(p, q)
  IN  SelectSeq([i \in DOMAIN points |-> i],
                LAMBDA i : between(clamp1(points[i].rx), a.x0, a.x1) /\ between(clamp1(points[i].tx), a.y0, a.y1))

=============================================================================
