----------------------------- MODULE MCRawMove -----------------------------
(* A disk of seven two-byte sectors with pairwise different contents,      *)
(* every move on it, legal or not, and chunks of two sectors.              *)
EXTENDS RawMove

MCContent == 0 .. 13

MCInit == /\ disk = [a \in Addresses |-> a]
          /\ move \in [direction : Directions, src : 0 .. 12, len : 0 .. 10, delta : 0 .. 8]
          /\ Init

MCSpec == MCInit /\ [][Next]_vars /\ Fairness
=============================================================================
