----------------------- MODULE MC_TemplatePointStream -----------------------
(* Three-dimensional points with coordinates 0 and 1, up to two of them   *)
(* written into the stream, three cells of memory modelled after _x.      *)
EXTENDS TemplatePointStream

MC_Coords == {0, 1}
=============================================================================
