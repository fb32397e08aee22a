------------------------- MODULE MCOperationJournal -------------------------
(***************************************************************************)
(* Three steps, the middle one not idempotent: verify, format, apply, as   *)
(* in the unit tests of checkpoint.rs.                                     *)
(***************************************************************************)
EXTENDS OperationJournal

MCIdempotent == {1, 3}
=============================================================================
