---------------------------- MODULE MCFirstLogon ----------------------------
(* Both kinds of account, three faults and two sweeps.                     *)
EXTENDS FirstLogon
=============================================================================
