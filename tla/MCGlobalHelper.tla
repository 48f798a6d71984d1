--------------------------- MODULE MCGlobalHelper ---------------------------
(* Model-checking instance of GlobalHelper. *)
EXTENDS GlobalHelper
CONSTANTS g1, g2, g3
MCCallers == {g1, g2, g3}
=============================================================================
