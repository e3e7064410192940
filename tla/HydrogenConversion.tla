--------------------------- MODULE HydrogenConversion ---------------------------
(***************************************************************************)
(* The "H" branches of setAqueousSolutionsOrUpdateProcessSolutions        *)
(* (src/ChemistryLib/PhreeqcIO.cpp lines 195-215) for one chemical system, *)
(* with the IEEE-754 results of std::log10 and std::pow on every value a   *)
(* transport solver can leave in the hydrogen process solution: a positive *)
(* power of ten, zero, a negative value (an undershoot), +inf and NaN.     *)
(* A call sets pH = -log10(c), runs the engine, which reports a pH only    *)
(* when the output schema has a pH item, and writes c = 10^-pH back.       *)
(***************************************************************************)
EXTENDS Integers

CONSTANTS
  Exps,       \* exponents e of the positive concentrations 10^e
  Specials,   \* the other doubles the transport may hold: a subset of
              \* {"zero", "neg", "inf", "nan"}
  PHVals,     \* the pH values the engine may report
  Schemas,    \* which output schemas to check: TRUE when it has a pH item
  MaxCalls    \* bound on the chemistry calls

(* A double: a finite number v, +inf, -inf or NaN; a concentration 10^e.   *)
Fin(v) == [k |-> "fin", v |-> v]
Pow10(e) == [k |-> "pow10", v |-> e]
Special(s) == [k |-> s, v |-> 0]

ConcVals == {Pow10(e) : e \in Exps} \cup {Special(s) : s \in Specials}

ASSUME Specials \subseteq {"zero", "neg", "inf", "nan"}

(* -std::log10(c) (line 202).                                              *)
NegLog10(c) ==
  CASE c.k = "pow10" -> Fin(-c.v)
    [] c.k = "zero"  -> Special("inf")     \* log10(0) = -inf
    [] c.k = "neg"   -> Special("nan")     \* log10(x < 0) = NaN
    [] c.k = "inf"   -> Special("ninf")
    [] c.k = "nan"   -> Special("nan")

(* std::pow(10, -pH) (line 210).                                           *)
PowTen(ph) ==
  CASE ph.k = "fin"  -> Pow10(-ph.v)
    [] ph.k = "inf"  -> Special("zero")    \* 10^-inf = 0
    [] ph.k = "ninf" -> Special("inf")
    [] ph.k = "nan"  -> Special("nan")

VARIABLES
  reported, \* the output schema has a pH item (fixed)
  pc,       \* "Set", "Execute", "Update", "Idle" or "Failed"
  calls,    \* chemistry calls made
  c,        \* the hydrogen process solution at the system's global_id
  pH        \* aqueous_solution.pH

vars == <<reported, pc, calls, c, pH>>

Init ==
  /\ reported \in Schemas
  /\ pc = "Set"
  /\ calls = 1
  /\ c \in ConcVals
  /\ pH = Fin(7)

SetAqueousSolution ==
  /\ pc = "Set"
  /\ pH' = NegLog10(c)
  /\ pc' = "Execute"
  /\ UNCHANGED <<reported, calls, c>>

(* The engine (a black box) reacts on the input, which holds pH; the      *)
(* reader overwrites pH only when the schema has a pH item.  Any failure  *)
(* is OGS_FATAL.                                                           *)
Execute ==
  /\ pc = "Execute"
  /\ \/ /\ reported
        /\ \E v \in PHVals : pH' = Fin(v)
        /\ pc' = "Update"
     \/ /\ ~reported
        /\ pc' = "Update"
        /\ UNCHANGED pH
     \/ pc' = "Failed" /\ UNCHANGED pH
  /\ UNCHANGED <<reported, calls, c>>

UpdateProcessSolution ==
  /\ pc = "Update"
  /\ c' = PowTen(pH)
  /\ pc' = "Idle"
  /\ UNCHANGED <<reported, calls, pH>>

(* The transport solver advances the solution; then the next call.        *)
TransportAndCall ==
  /\ pc = "Idle"
  /\ calls < MaxCalls
  /\ c' \in ConcVals
  /\ calls' = calls + 1
  /\ pc' = "Set"
  /\ UNCHANGED <<reported, pH>>

Next == SetAqueousSolution \/ Execute \/ UpdateProcessSolution \/ TransportAndCall

Spec == Init /\ [][Next]_vars

-----------------------------------------------------------------------------
(* The pH written into the engine's input for a system is a finite        *)
(* number: the transport's hydrogen concentration is a valid argument of  *)
(* -log10.                                                                 *)
InputPHFinite == pc = "Execute" => pH.k = "fin"

=============================================================================
