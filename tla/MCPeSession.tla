----------------------------- MODULE MCPeSession -----------------------------
(***************************************************************************)
(* Two percentages: one inside a step and one above 100, which the u8 of   *)
(* the tools can hold and the progress state clamps.                       *)
(***************************************************************************)
EXTENDS PeSession

MCAllModes == {"install", "backup", "expand"}
MCPercents == {50, 120}
=============================================================================
