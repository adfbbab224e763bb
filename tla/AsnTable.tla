------------------------------ MODULE AsnTable ------------------------------
(***************************************************************************)
(* The IP to ASN table of the dashboard's server as pure operators:        *)
(* geo/asn.ts (parseTable, AsnTable) and geo/ip.ts.  A line of the file is *)
(* [v, a, b, asn, cc, short]: an IPv4 or IPv6 range, its network, its      *)
(* country ("" when it has none) and whether columns are missing.  An      *)
(* address text is [form, n], form being "v4", "v6", "mapped" (IPv4-mapped  *)
(* IPv6) or "bad".                                                         *)
(***************************************************************************)
EXTENDS Integers, Sequences, FiniteSets, SequencesExt

CONSTANTS
  LocalAddrs   \* parsed addresses of private, loopback, link-local... ranges

NoGeo == [asn |-> 0, cc |-> ""]

\* Which lines parseTable keeps: five columns, a routed network, a range.
Kept(l) == ~l.short /\ l.asn > 0 /\ l.a <= l.b

\* Mutant: the constructor forgets to sort.
parseTable_Unsorted(lines) ==
  [v \in {"v4", "v6"} |-> SelectSeq(lines, LAMBDA l : Kept(l) /\ l.v = v)]

\* The kept lines of one address family, in the order of their start.
parseTable(lines) ==
  [v \in {"v4", "v6"} |-> SortSeq(SelectSeq(lines, LAMBDA l : Kept(l) /\ l.v = v),
                            LAMBDA l, m : l.a < m.a)]

TableSize(table) == Len(table["v4"]) + Len(table["v6"])

\* A mapped address is its IPv4 address.
parseIp(t) ==
  IF t.form = "mapped" THEN [v |-> "v4", n |-> t.n] ELSE [v |-> t.form, n |-> t.n]

ipScope(ip) == IF ip \in LocalAddrs THEN "local" ELSE "public"

\* The binary search for the last range that starts at or before the address.
lastStarting(rs, n) ==
  LET at[lo \in 1 .. Len(rs) + 1, hi \in 0 .. Len(rs), best \in 0 .. Len(rs)] ==
        LET mid == (lo + hi) \div 2 IN
        IF lo > hi THEN best
        ELSE IF rs[mid].a <= n THEN at[mid + 1, hi, mid] ELSE at[lo, mid - 1, best]
  IN  at[1, Len(rs), 0]
geoAt(rs, i, n) == IF i > 0 /\ n <= rs[i].b THEN [asn |-> rs[i].asn, cc |-> rs[i].cc] ELSE NoGeo
lookupParsed(table, ip) == geoAt(table[ip.v], lastStarting(table[ip.v], ip.n), ip.n)

lookup(table, t) == IF t.form = "bad" THEN NoGeo ELSE lookupParsed(table, parseIp(t))

\* The reference: the range of the file that holds the address.
InFile(lines, t) ==
  LET held == {i \in DOMAIN lines : /\ t.form # "bad" /\ Kept(lines[i])
                                    /\ lines[i].v = parseIp(t).v
                                    /\ parseIp(t).n \in lines[i].a .. lines[i].b}
  IN  IF held = {} THEN NoGeo
      ELSE LET i == CHOOSE i \in held : TRUE IN [asn |-> lines[i].asn, cc |-> lines[i].cc]

\* Where one address of an answer belongs.
classify(t, table) ==
  IF t.form = "bad" THEN [local |-> FALSE, geo |-> NoGeo]
  ELSE IF ipScope(parseIp(t)) # "public" THEN [local |-> TRUE, geo |-> NoGeo]
  ELSE [local |-> FALSE, geo |-> IF table = << >> THEN NoGeo ELSE lookupParsed(table, parseIp(t))]

=============================================================================
