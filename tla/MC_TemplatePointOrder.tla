------------------------ MODULE MC_TemplatePointOrder ------------------------
(* Coordinates chosen around eps = 1/10 so that a difference of 2 is      *)
(* within tolerance relative to 20 but not relative to 18, of either sign: *)
(* lessEq measures dimensions 1 and 2 relative to the first point's value. *)
EXTENDS TemplatePointOrder

MC_Coords == {-20, -18, 0, 18, 20}
=============================================================================
