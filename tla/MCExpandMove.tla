---------------------------- MODULE MCExpandMove ----------------------------
EXTENDS ExpandMove

MCKind == [C |-> "target", D |-> "data", R |-> "recovery", E |-> "data", S |-> "other"]

MCContent == ({"C", "D", "R", "E", "S"} \X (0 .. 11)) \union {<<"free", 0>>}

P(id, off, len) == [id |-> id, off |-> off, len |-> len]

\* Donor right behind the target, donor behind a recovery or a data partition
\* with and without gaps, a partition that must not be moved behind the donor.
MCLayouts == {{P("C", 1, 2), P("D", 3, 4)},
              {P("C", 1, 2), P("D", 4, 4), P("S", 10, 2)},
              {P("C", 1, 2), P("R", 3, 1), P("D", 4, 4), P("S", 9, 1)},
              {P("C", 1, 2), P("E", 3, 2), P("R", 6, 1), P("D", 7, 3)}}

\* The same behaviours as long as the power stays on: only calls fail.
PoweredSpec == ExpandInit /\ [][ExpandNext /\ at' # "off"]_expandVars

=============================================================================
