---------------------------- MODULE MC_PhreeqcIO ----------------------------
(* Two chemical systems whose bulk node ids are swapped, component "Ca",  *)
(* transport processes for Ca and H, the schema pH, Ca, Calcite after two *)
(* echoed columns (state, soln).                                          *)
EXTENDS PhreeqcIO

MC_N == 2
MC_ChemSysMap == [l \in 0 .. 1 |-> 1 - l]
MC_GlobalIds == 0 .. 1
MC_Components == {"Ca"}
MC_ProcessMap == << <<0, "Ca">>, <<1, "H">> >>
MC_Phases == {"Calcite"}
MC_Schema == << [name |-> "pH", type |-> "pH"],
                [name |-> "Ca", type |-> "Component"],
                [name |-> "Calcite", type |-> "EquilibriumPhase"] >>
MC_Dropped == {0, 1}
MC_PHVals == {6, 7}
MC_PeVals == {4}
\* A chemical-system submesh whose bulk node ids are 0 and 2 of a bulk mesh
\* with three nodes.
MC_SubmeshMap == [l \in 0 .. 1 |-> 2 * l]
MC_SubmeshIds == 0 .. 2
\* One pH value: the control flow of every call, with the data collapsed.
MC_PHValsOne == {7}
\* Three chemical systems whose bulk node ids are rotated (a 3-cycle).
MC_N3 == 3
MC_CycleMap == [l \in 0 .. 2 |-> (l + 1) % 3]
MC_GlobalIds3 == 0 .. 2
\* With three systems the data is cut to what routing tells apart: the H
\* process only, and the schema pH, Calcite.
MC_ProcessMapH == << <<0, "H">> >>
MC_SchemaPHPhase == << [name |-> "pH", type |-> "pH"],
                       [name |-> "Calcite", type |-> "EquilibriumPhase"] >>
\* "H" is also a component of every solution, reported by the engine as a
\* component as well as through the pH.
MC_ComponentsH == {"H"}
MC_SchemaH == << [name |-> "pH", type |-> "pH"],
                 [name |-> "H", type |-> "Component"],
                 [name |-> "Calcite", type |-> "EquilibriumPhase"] >>
=============================================================================
