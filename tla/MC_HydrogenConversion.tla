------------------------- MODULE MC_HydrogenConversion -------------------------
(* Hydrogen concentrations 10^-9 .. 10^-4, the engine's pH values 6 and 7. *)
EXTENDS HydrogenConversion

MC_Exps == -9 .. -4
MC_PHVals == {6, 7}
MC_NonPositive == {"zero", "neg"}
=============================================================================
