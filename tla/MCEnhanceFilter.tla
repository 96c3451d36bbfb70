--------------------------- MODULE MCEnhanceFilter ---------------------------
(* EnhanceFilter for TLC.  Settings are model values, alike for every action, *)
(* but liveness is checked, so no symmetry is declared.                       *)
EXTENDS EnhanceFilter

=============================================================================
