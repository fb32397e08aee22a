------------------------------ MODULE MCPeBoot ------------------------------
(* Three tasks in a row, failing calls and power losses anywhere.          *)
EXTENDS PeBoot
=============================================================================
