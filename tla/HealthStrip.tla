---------------------------- MODULE HealthStrip -----------------------------
(***************************************************************************)
(* The Live page's health strip: the drop counter of HealthStrip.tsx over  *)
(* the ticks of the collector, of which the page may miss some, and        *)
(* across the collector's restarts.                                        *)
(***************************************************************************)
EXTENDS Route, Integers, Sequences

CONSTANTS
  MaxDrops,       \* bound: drops of one interval
  MaxStripTicks,  \* bound: ticks of the collector
  NoTick          \* null

ASSUME StripAssumption == MaxDrops \in Nat /\ MaxStripTicks \in Nat /\ NoTick \notin Nat

VARIABLES
  host,      \* the collector: [ts, drops, active, ended, counts, fresh]; ended: processes
             \* gone; counts: drops of all time at each tick; fresh: restarted since
             \* the last tick shown
  ring,      \* live.ticks: [ts, drops, active, gap]
  strip,     \* DropTrack: [lastTs, prev, increase, restartAt]
  opening    \* [open, base: last of the first ticks shown; masked: a restart that no
             \* smaller count shows]

stripVars == <<host, ring, strip, opening>>

-----------------------------------------------------------------------------

\* Mutant: a restart is taken for a counter that went back.
fold_Difference(first, d, t) ==
  IF d.lastTs # NoTick /\ t.ts <= d.lastTs THEN d
  ELSE [lastTs |-> t.ts, prev |-> t.drops,
        increase |-> IF d.lastTs = NoTick \/ first THEN d.increase ELSE d.increase + t.drops - d.prev,
        restartAt |-> d.restartAt]

\* trackDrops, one tick: a smaller counter is that of a new collector.
fold(first, d, t) ==
  LET again == d.lastTs # NoTick /\ t.drops < d.prev IN
  IF d.lastTs # NoTick /\ t.ts <= d.lastTs THEN d
  ELSE [lastTs |-> t.ts, prev |-> t.drops,
        increase |-> IF d.lastTs = NoTick \/ first THEN d.increase
                     ELSE d.increase + (IF again THEN t.drops ELSE t.drops - d.prev),
        restartAt |-> IF again THEN t.ts ELSE d.restartAt]

trackDrops(d, ticks) ==
  LET after[k \in 0 .. Len(ticks)] ==
        IF k = 0 THEN d ELSE fold(d.lastTs = NoTick, after[k - 1], ticks[k])
  IN  after[Len(ticks)]

-----------------------------------------------------------------------------

StripInit ==
  /\ host = [ts |-> 0, drops |-> 0, active |-> {}, ended |-> {}, counts |-> << >>, fresh |-> FALSE]
  /\ ring = << >>
  /\ strip = [lastTs |-> NoTick, prev |-> 0, increase |-> 0, restartAt |-> NoTick]
  /\ opening = [open |-> FALSE, base |-> NoTick, masked |-> FALSE]

\* An interval ends: some processes had traffic, some inserts were dropped.  The
\* tick reaches the page or is missed; before the page opens, it is buffered.
HostTick(active, dropped, seen) ==
  LET now == host.ts + 1
      drops == host.drops + dropped
      total == IF host.ts = 0 THEN dropped ELSE host.counts[host.ts] + dropped
      gap == ring # << >> /\ ring[Len(ring)].ts # host.ts
      ticks == IF seen THEN Append(ring, [ts |-> now, drops |-> drops, active |-> active, gap |-> gap]) ELSE ring
      shown == seen /\ opening.open
  IN  /\ active \cap host.ended = {}
      /\ host' = [host EXCEPT !.ts = now, !.drops = drops, !.active = active,
                             !.counts = Append(@, total), !.fresh = @ /\ ~shown]
      /\ ring' = ticks
      /\ strip' = IF shown THEN trackDrops(strip, ticks) ELSE strip
      /\ opening' = IF ~shown THEN opening
                    ELSE [opening EXCEPT !.base = IF @ = NoTick THEN now ELSE @,
                                         !.masked = @ \/ (host.fresh /\ drops >= strip.prev)]

\* The collector restarts: its counter begins again.
HostRestart ==
  /\ host.drops > 0
  /\ host' = [host EXCEPT !.drops = 0, !.fresh = TRUE]
  /\ opening' = [opening EXCEPT !.masked = @ \/ (opening.base # NoTick /\ strip.lastTs # host.ts)]
  /\ UNCHANGED <<ring, strip>>

\* The page opens, with the ticks of the first series answer or with none.
PageOpens ==
  /\ ~opening.open
  /\ \E ticks \in {ring, << >>} : ring' = ticks /\ strip' = trackDrops(strip, ticks)
  /\ opening' = [opening EXCEPT !.open = TRUE, !.base = strip'.lastTs,
                               !.masked = host.fresh /\ strip'.lastTs # NoTick]
  /\ UNCHANGED host

\* The strip reads no traffic.
StripNext ==
  \/ \E dropped \in 0 .. MaxDrops, seen \in BOOLEAN : host.ts < MaxStripTicks /\ HostTick({}, dropped, seen)
  \/ HostRestart \/ PageOpens

StripSpec == StripInit /\ [][StripNext]_stripVars

-----------------------------------------------------------------------------
(* Properties.                                                              *)

\* The drops that the health strip reports are those that the collectors counted
\* from the last tick of the first batch to the last tick shown, across missed
\* ticks and restarts; fewer, never more, when a collector restarted after drops
\* not yet shown, or dropped as many again before its next tick shown
\* (HealthStrip.tsx:45-66).
DropsCounted ==
  On("strip") /\ opening.base # NoTick =>
    LET real == host.counts[strip.lastTs] - host.counts[opening.base] IN
    /\ strip.increase <= real
    /\ opening.masked \/ strip.increase = real

=============================================================================
