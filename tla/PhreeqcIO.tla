------------------------------ MODULE PhreeqcIO ------------------------------
(***************************************************************************)
(* The coupling of transport to the PHREEQC engine in                      *)
(* src/ChemistryLib/PhreeqcIO.cpp.  One coupling call runs the pipeline    *)
(*   set aqueous solutions -> (read dump) -> write input file -> execute  *)
(*   -> read selected output -> update process solutions                   *)
(* and every OGS_FATAL on the way ends the program (pc = "Failed").        *)
(*                                                                         *)
(* Data is abstracted to what the routing tells apart: a concentration is  *)
(* a power of ten [pow10 |-> e], so -log10 and 10^-pH are exact; the       *)
(* input file is a sequence of blocks, one per chemical system; the        *)
(* result file is a sequence of rows of tokens.  The engine is a black     *)
(* box: its reaction results are chosen nondeterministically and kept in   *)
(* the history variable reacted, keyed by the SOLUTION number.             *)
(***************************************************************************)
EXTENDS Integers, SequencesExt

CONSTANTS
  N,            \* number of chemical systems (_mesh.getNumberOfBaseNodes())
  ChemSysMap,   \* "bulk_node_ids": local_id \in 0..N-1 -> global_id
  GlobalIds,    \* indices of the transport process solution vectors
  Components,   \* names of the components of every aqueous solution
  ProcessMap,   \* _process_id_to_component_name_map: seq of <<id, name>>
  Hydrogen,     \* the transport process variable name "H"
  Phases,       \* names of the equilibrium phases
  Kinetics,     \* names of the kinetic reactants
  SecVars,      \* names of the user punch secondary variables
  HasSurface,   \* _surface is not empty
  HasDump,      \* _dump is not null
  Schema,       \* output.accepted_items: seq of [name, type]
  Dropped,      \* output.dropped_item_ids (0-based column positions)
  PHVals,       \* pH values the engine may report
  PeVals,       \* pe values the engine may report
  NDEBUG,       \* the build compiles assert() out
  Drift,        \* the engine's rows may disagree with the schema's width
  MaxSteps      \* bound on doWaterChemistryCalculation calls

LocalIds == 0 .. N - 1
Procs == {ProcessMap[j][1] : j \in DOMAIN ProcessMap}
ItemTypes == {"pH", "pe", "Component", "EquilibriumPhase",
              "KineticReactant", "SecondaryVariable"}
ArrayTypes == {"EquilibriumPhase", "KineticReactant", "SecondaryVariable"}
ArrayKeys == {<<"EquilibriumPhase", n>> : n \in Phases}
               \cup {<<"KineticReactant", n>> : n \in Kinetics}
               \cup {<<"SecondaryVariable", n>> : n \in SecVars}
Width == Len(Schema) + Cardinality(Dropped)

ASSUME /\ N \in Nat \ {0}
       /\ ChemSysMap \in [LocalIds -> GlobalIds]
       /\ \A l, m \in LocalIds : l # m => ChemSysMap[l] # ChemSysMap[m]
       /\ \A i, j \in DOMAIN ProcessMap : i # j => ProcessMap[i][1] # ProcessMap[j][1]
       /\ \A i \in DOMAIN Schema : Schema[i].type \in ItemTypes
       /\ Dropped \subseteq 0 .. Width - 1
       /\ MaxSteps \in Nat

(* A concentration 10^e, and the pH conversions of lines 202 and 210.     *)
Conc == {[pow10 |-> -p] : p \in PHVals}
PHOfConc(c) == -c.pow10
(* Mutant: the sign of the exponent in std::pow(10, -pH) lost.            *)
ConcOfPHSignLost(ph) == [pow10 |-> ph]
ConcOfPH(ph) == [pow10 |-> -ph]

ValuesOf(type) == CASE type = "pH" -> PHVals
                    [] type = "pe" -> PeVals
                    [] OTHER -> Conc
(* What the engine may compute for one system, one value per schema item. *)
RECURSIVE OutcomesUpTo(_)
OutcomesUpTo(k) ==
  IF k = 0 THEN {<<>>}
  ELSE {Append(f, v) : f \in OutcomesUpTo(k - 1), v \in ValuesOf(Schema[k].type)}
Outcomes == OutcomesUpTo(Len(Schema))
AqSolutions == [pH : PHVals, pe : PeVals, comp : [Components -> Conc]]

(* Tokens of the result file; std::stod succeeds on a num token only.     *)
NumTok(v) == [num |-> v]
TextTok(s) == [txt |-> s]
IsNum(t) == "num" \in DOMAIN t

(* SOLUTION number of a system, and (Dump, not under src/) the number of  *)
(* its previous-state SOLUTION_RAW block.                                  *)
SolNo(l) == ChemSysMap[l] + 1
PrevNo(l) == N + ChemSysMap[l] + 1

VARIABLES
  pc,         \* the step of the pipeline the program is in
  call,       \* "initial" or "step": which public call is running
  steps,      \* doWaterChemistryCalculation calls made
  fatal,      \* why OGS_FATAL ended the program ("none" while running)
  transport,  \* process_solutions: [Procs -> [GlobalIds -> Conc]]
  aq,         \* _aqueous_solutions: [LocalIds -> AqSolutions]
  arr,        \* amounts/values of phases, reactants, secondary variables
  prevLoaded, \* _dump->aqueous_solutions_prev is not empty
  dumpFile,   \* the dump file exists on disk
  script,     \* the input file _phreeqc_input_file
  result,     \* the selected output file
  readSys,    \* local_id of the row loop in operator>>
  line,       \* line of the result file the stream is at
  tSnap,      \* history: transport when the running call started
  reacted,    \* history: engine results per SOLUTION number
  truncated   \* history: a short row was applied without error

vars == <<pc, call, steps, fatal, transport, aq, arr, prevLoaded, dumpFile,
          script, result, readSys, line, tSnap, reacted, truncated>>

Fatal(why) == /\ pc' = "Failed"
              /\ fatal' = why

-----------------------------------------------------------------------------
(* Public calls and the transport solver between them.                    *)

(* Constructor: CreateIPhreeqc, LoadDatabase, SetSelectedOutputFileOn,    *)
(* SetDumpFileOn; any failure is fatal.                                    *)
Construct ==
  /\ pc = "Construct"
  /\ \/ pc' = "Ready" /\ UNCHANGED fatal
     \/ Fatal("init")
  /\ UNCHANGED <<call, steps, transport, aq, arr, prevLoaded, dumpFile, script,
                 result, readSys, line, tSnap, reacted, truncated>>

executeInitialCalculation ==
  /\ pc = "Ready"
  /\ pc' = "Set"
  /\ call' = "initial"
  /\ UNCHANGED <<steps, fatal, transport, aq, arr, prevLoaded, dumpFile,
                 script, result, readSys, line, tSnap, reacted, truncated>>

doWaterChemistryCalculation ==
  /\ pc = "Idle"
  /\ steps < MaxSteps
  /\ pc' = "Set"
  /\ call' = "step"
  /\ steps' = steps + 1
  /\ UNCHANGED <<fatal, transport, aq, arr, prevLoaded, dumpFile, script,
                 result, readSys, line, tSnap, reacted, truncated>>

(* The transport process advances its solutions between chemistry calls.  *)
TransportStep ==
  /\ pc = "Idle"
  /\ transport' \in [Procs -> [GlobalIds -> Conc]]
  /\ UNCHANGED <<pc, call, steps, fatal, aq, arr, prevLoaded, dumpFile,
                 script, result, readSys, line, tSnap, reacted, truncated>>

-----------------------------------------------------------------------------
(* setAqueousSolutionsOrUpdateProcessSolutions: both loops visit the      *)
(* ProcessMap entries in order, so the last entry naming a component (or  *)
(* "H") wins; for "H" the pH branch runs after the component branch.      *)

LastEntryFor(name) == SelectLastInSeq(ProcessMap, LAMBDA e : e[2] = name)

SetFromTransport(a, g) ==
  [a EXCEPT
     !.comp = [c \in Components |->
                 IF LastEntryFor(c) = 0 THEN a.comp[c]
                 ELSE transport[ProcessMap[LastEntryFor(c)][1]][g]],
     !.pH = IF LastEntryFor(Hydrogen) = 0 THEN a.pH
            ELSE PHOfConc(transport[ProcessMap[LastEntryFor(Hydrogen)][1]][g])]

SetAqueousSolutions ==
  /\ pc = "Set"
  /\ aq' = [l \in LocalIds |-> SetFromTransport(aq[l], ChemSysMap[l])]
  /\ tSnap' = transport
  /\ pc' = IF call = "step" THEN "Dump" ELSE "Write"
  /\ UNCHANGED <<call, steps, fatal, transport, arr, prevLoaded, dumpFile,
                 script, result, readSys, line, reacted, truncated>>

(* Mutant: the "H" branch tested before the component branch, so that a  *)
(* component named "H" pushes the engine's amount instead of 10^-pH.      *)
UpdatedValueComponentLast(p, l) ==
  LET j == SelectInSeq(ProcessMap, LAMBDA e : e[1] = p)
      n == ProcessMap[j][2]
  IN  CASE n \in Components -> aq[l].comp[n]
        [] n = Hydrogen -> ConcOfPH(aq[l].pH)
        [] OTHER -> transport[p][ChemSysMap[l]]

(* Value written into process p at the node of system l.                  *)
UpdatedValue(p, l) ==
  LET j == SelectInSeq(ProcessMap, LAMBDA e : e[1] = p)
      n == ProcessMap[j][2]
  IN  CASE n = Hydrogen -> ConcOfPH(aq[l].pH)
        [] n \in Components -> aq[l].comp[n]
        [] OTHER -> transport[p][ChemSysMap[l]]

UpdateProcessSolutions ==
  /\ pc = "Update"
  /\ transport' = [p \in Procs |-> [g \in GlobalIds |->
                     IF \E l \in LocalIds : ChemSysMap[l] = g
                     THEN UpdatedValue(p, CHOOSE l \in LocalIds : ChemSysMap[l] = g)
                     ELSE transport[p][g]]]
  /\ pc' = "Idle"
  /\ UNCHANGED <<call, steps, fatal, aq, arr, prevLoaded, dumpFile, script,
                 result, readSys, line, tSnap, reacted, truncated>>

-----------------------------------------------------------------------------
(* setAqueousSolutionsPrevFromDumpFile: a no-op without _dump; otherwise  *)
(* the dump file the engine wrote in the previous run is read back.       *)
ReadDumpFile ==
  /\ pc = "Dump"
  /\ IF ~HasDump
     THEN pc' = "Write" /\ UNCHANGED <<fatal, prevLoaded>>
     ELSE IF ~dumpFile
     THEN Fatal("io") /\ UNCHANGED prevLoaded
     ELSE \/ prevLoaded' = TRUE /\ pc' = "Write" /\ UNCHANGED fatal
          \/ Fatal("io") /\ UNCHANGED prevLoaded
  /\ UNCHANGED <<call, steps, transport, aq, arr, dumpFile, script, result,
                 readSys, line, tSnap, reacted, truncated>>

(* Mutant: the offset applied even before a previous state was loaded.   *)
SurfaceSolutionAlwaysPrev(g) == N + g + 1

(* The solution a SURFACE equilibrates with (lines 345-348).              *)
SurfaceSolution(g) == IF prevLoaded THEN N + g + 1 ELSE g + 1

(* The block operator<< writes for system l: SOLUTION, the previous       *)
(* state, USE, EQUILIBRIUM_PHASES, KINETICS, SURFACE ... SAVE, END.  The   *)
(* number 0 stands for a block that is not written.                        *)
Block(l) ==
  LET g == ChemSysMap[l] IN
  [sol      |-> SolNo(l),
   input    |-> aq[l],
   prev     |-> IF HasDump /\ prevLoaded THEN PrevNo(l) ELSE 0,
   use      |-> g + 1,
   phases   |-> IF Phases # {} THEN g + 1 ELSE 0,
   kinetics |-> IF Kinetics # {} THEN g + 1 ELSE 0,
   surface  |-> IF HasSurface THEN g + 1 ELSE 0,
   eqWith   |-> IF HasSurface THEN SurfaceSolution(g) ELSE 0]

(* writeInputsToFile: with a surface, line 346 reads                       *)
(* dump->aqueous_solutions_prev through a null _dump when there is none.   *)
WriteInputsToFile ==
  /\ pc = "Write"
  /\ IF HasSurface /\ ~HasDump
     THEN Fatal("null_dump") /\ UNCHANGED script
     ELSE \/ /\ script' = [i \in 1 .. N |-> Block(i - 1)]
             /\ pc' = "Execute"
             /\ UNCHANGED fatal
          \/ Fatal("io") /\ UNCHANGED script
  /\ UNCHANGED <<call, steps, transport, aq, arr, prevLoaded, dumpFile, result,
                 readSys, line, tSnap, reacted, truncated>>

-----------------------------------------------------------------------------
(* The engine (RunFile).  Per SOLUTION block it writes the initial        *)
(* solution row, with a surface the initial surface row, then the         *)
(* reaction row; the columns in Dropped echo the state and solution.      *)

Rank(pos) == Cardinality({q \in 0 .. pos : q \notin Dropped})
EchoTok(pos, sol, kind) == IF pos = Min(Dropped) THEN TextTok(kind) ELSE NumTok(sol)
Render(sol, kind, vals) ==
  [i \in 1 .. Width |-> IF (i - 1) \in Dropped THEN EchoTok(i - 1, sol, kind)
                        ELSE NumTok(vals[Rank(i - 1)])]

(* The initial-solution rows echo the solution that was written.          *)
InitVals(b, vals) ==
  [i \in DOMAIN Schema |->
     CASE Schema[i].type = "pH" -> b.input.pH
       [] Schema[i].type = "pe" -> b.input.pe
       [] Schema[i].type = "Component" /\ Schema[i].name \in Components
            -> b.input.comp[Schema[i].name]
       [] OTHER -> vals[i]]

(* How a reaction row may deviate from the schema's width.                *)
Shapes == IF Drift THEN {"exact", "short", "extraText", "extraNum"} ELSE {"exact"}
Reshape(toks, shape) ==
  CASE shape = "exact" -> toks
    [] shape = "short" -> SubSeq(toks, 1, Len(toks) - 1)
    [] shape = "extraText" -> Append(toks, TextTok("extra"))
    [] shape = "extraNum" -> Append(toks, NumTok(1))

RowsOf(b, vals, shape) ==
  <<[sol |-> b.sol, kind |-> "i_soln", tok |-> Render(b.sol, "i_soln", InitVals(b, vals))]>>
  \o (IF HasSurface
      THEN <<[sol |-> b.sol, kind |-> "i_surf",
              tok |-> Render(b.sol, "i_surf", InitVals(b, vals))]>>
      ELSE <<>>)
  \o <<[sol |-> b.sol, kind |-> "react",
        tok |-> Reshape(Render(b.sol, "react", vals), shape)]>>

Header == [sol |-> 0, kind |-> "header", tok |-> <<>>]

execute ==
  /\ pc = "Execute"
  /\ \/ Fatal("engine") /\ UNCHANGED <<result, reacted, dumpFile, line>>
     \/ \E r \in [1 .. N -> Outcomes], shape \in [1 .. N -> Shapes] :
          /\ result' = <<Header>> \o FlattenSeq([i \in 1 .. N |->
                                       RowsOf(script[i], r[i], shape[i])])
          /\ reacted' = [s \in {script[i].sol : i \in 1 .. N} |->
                           r[CHOOSE i \in 1 .. N : script[i].sol = s]]
          /\ dumpFile' = (dumpFile \/ HasDump)
          /\ line' = 1
          /\ pc' = "ReadOpen"
          /\ UNCHANGED fatal
  /\ UNCHANGED <<call, steps, transport, aq, arr, prevLoaded, script, readSys,
                 tSnap, truncated>>

-----------------------------------------------------------------------------
(* readOutputsFromFile and operator>>.                                     *)

(* Open the file and skip the headline.                                    *)
ReadOpen ==
  /\ pc = "ReadOpen"
  /\ \/ /\ line' = line + 1
        /\ readSys' = 0
        /\ pc' = "Read"
        /\ UNCHANGED fatal
     \/ Fatal("io") /\ UNCHANGED <<line, readSys>>
  /\ UNCHANGED <<call, steps, transport, aq, arr, prevLoaded, dumpFile, script,
                 result, tSnap, reacted, truncated>>

NumSkipped == IF HasSurface THEN 2 ELSE 1

(* assert(accepted_items.size() == output.accepted_items.size()).         *)
ArityChecked(items) == NDEBUG \/ Len(items) = Len(Schema)

(* Mutant: dropped_item_ids compared with 1-based column numbers.        *)
AcceptedOneBased(toks) ==
  LET ids == SelectSeq([i \in 1 .. Len(toks) |-> i], LAMBDA i : i \notin Dropped)
  IN  [k \in 1 .. Len(ids) |-> toks[ids[k]]]

(* The tokens whose column is not in dropped_item_ids, in order.          *)
Accepted(toks) ==
  LET ids == SelectSeq([i \in 1 .. Len(toks) |-> i], LAMBDA i : (i - 1) \notin Dropped)
  IN  [k \in 1 .. Len(ids) |-> toks[ids[k]]]

(* findElementOrError succeeds for schema item i.                          *)
Found(i) ==
  CASE Schema[i].type = "Component" -> Schema[i].name \in Components
    [] Schema[i].type \in ArrayTypes -> <<Schema[i].type, Schema[i].name>> \in ArrayKeys
    [] OTHER -> TRUE

(* The value the items 1..upto leave for (type, name): the last one wins. *)
ItemValue(old, type, name, vals, upto) ==
  LET K == {k \in 1 .. upto : Schema[k].type = type
                              /\ (type \in {"pH", "pe"} \/ Schema[k].name = name)}
  IN  IF K = {} THEN old ELSE vals[Max(K)]

RouteAq(a, vals, upto) ==
  [pH   |-> ItemValue(a.pH, "pH", "", vals, upto),
   pe   |-> ItemValue(a.pe, "pe", "", vals, upto),
   comp |-> [c \in Components |-> ItemValue(a.comp[c], "Component", c, vals, upto)]]

(* Mutant: the arrays indexed through bulk_node_ids the wrong way round.  *)
RouteArrInverse(g, vals, upto) ==
  LET m == CHOOSE m \in LocalIds : ChemSysMap[m] = readSys
  IN  [k \in ArrayKeys |-> [arr[k] EXCEPT ![m] = ItemValue(@, k[1], k[2], vals, upto)]]

RouteArr(g, vals, upto) ==
  [k \in ArrayKeys |-> [arr[k] EXCEPT ![g] = ItemValue(@, k[1], k[2], vals, upto)]]

(* One iteration of the row loop (lines 426-558) for local_id readSys.    *)
ReadSystem ==
  /\ pc = "Read"
  /\ readSys < N
  /\ LET l == readSys
         g == ChemSysMap[l]
         pos == line + NumSkipped
         items == Accepted(result[pos].tok)
         vals == [k \in DOMAIN items |-> items[k].num]
         miss == {k \in DOMAIN items : ~Found(k)}
         upto == IF miss = {} THEN Len(items) ELSE Min(miss) - 1
     IN  IF pos > Len(result) THEN Fatal("io") /\ UNCHANGED <<aq, arr, readSys, line, truncated>>
         ELSE IF \E k \in DOMAIN items : ~IsNum(items[k])
         THEN Fatal("parse") /\ UNCHANGED <<aq, arr, readSys, line, truncated>>
         ELSE IF ~ArityChecked(items)
         THEN Fatal("assert") /\ UNCHANGED <<aq, arr, readSys, line, truncated>>
         ELSE IF Len(items) > Len(Schema)
         THEN Fatal("crash") /\ UNCHANGED <<aq, arr, readSys, line, truncated>>
         ELSE /\ aq' = [aq EXCEPT ![l] = RouteAq(@, vals, upto)]
              /\ arr' = RouteArr(g, vals, upto)
              /\ truncated' = (truncated \/ Len(items) < Len(Schema))
              /\ IF miss = {}
                 THEN /\ readSys' = l + 1
                      /\ line' = pos + 1
                      /\ UNCHANGED <<pc, fatal>>
                 ELSE Fatal("lookup") /\ UNCHANGED <<readSys, line>>
  /\ UNCHANGED <<call, steps, transport, prevLoaded, dumpFile, script, result,
                 tSnap, reacted>>

(* The row loop is over; readOutputsFromFile checks the stream once more  *)
(* (lines 397-401): an I/O error (badbit) during the reads is fatal.      *)
ReadDone ==
  /\ pc = "Read"
  /\ readSys = N
  /\ \/ pc' = "Update" /\ UNCHANGED fatal
     \/ Fatal("io")
  /\ UNCHANGED <<call, steps, transport, aq, arr, prevLoaded, dumpFile,
                 script, result, readSys, line, tSnap, reacted, truncated>>

-----------------------------------------------------------------------------
Init ==
  /\ pc = "Construct"
  /\ call = "none"
  /\ steps = 0
  /\ fatal = "none"
  /\ transport \in [Procs -> [GlobalIds -> Conc]]
  /\ \E a \in AqSolutions : aq = [l \in LocalIds |-> a]
  /\ \E c \in Conc : arr = [k \in ArrayKeys |-> [g \in GlobalIds |-> c]]
  /\ prevLoaded = FALSE
  /\ dumpFile \in BOOLEAN
  /\ script = <<>>
  /\ result = <<>>
  /\ readSys = 0
  /\ line = 0
  /\ tSnap = transport
  /\ reacted = [s \in {} |-> <<>>]
  /\ truncated = FALSE

(* The steps of the pipeline itself, as opposed to the caller's.          *)
Pipeline ==
  \/ Construct
  \/ SetAqueousSolutions
  \/ ReadDumpFile
  \/ WriteInputsToFile
  \/ execute
  \/ ReadOpen
  \/ ReadSystem
  \/ ReadDone
  \/ UpdateProcessSolutions

Next ==
  \/ executeInitialCalculation
  \/ doWaterChemistryCalculation
  \/ TransportStep
  \/ Pipeline

(* The pipeline is synchronous code on one thread: once a call is made,   *)
(* its next statement always runs.                                         *)
Spec == Init /\ [][Next]_vars /\ WF_vars(Pipeline)

-----------------------------------------------------------------------------
(* Properties.                                                             *)

Busy == {"Set", "Dump", "Write", "Execute", "ReadOpen", "Read", "Update"}

TypeOK ==
  /\ pc \in {"Construct", "Ready", "Idle", "Failed"} \cup Busy
  /\ call \in {"none", "initial", "step"}
  /\ steps \in 0 .. MaxSteps
  /\ transport \in [Procs -> [GlobalIds -> Conc]]
  /\ tSnap \in [Procs -> [GlobalIds -> Conc]]
  /\ aq \in [LocalIds -> AqSolutions]
  /\ arr \in [ArrayKeys -> [GlobalIds -> Conc]]
  /\ {prevLoaded, dumpFile, truncated} \subseteq BOOLEAN
  /\ readSys \in 0 .. N
  /\ \A s \in DOMAIN reacted : reacted[s] \in Outcomes

(* Index of the last schema item the engine reports for (type, name).     *)
ReportedAt(type, name) ==
  SelectLastInSeq(Schema, LAMBDA s : s.type = type
                                     /\ (type \in {"pH", "pe"} \/ s.name = name))

(* What process p must hold at a node once a call is over, given the      *)
(* engine's result res for that node's SOLUTION and the value old the call *)
(* started from: the result when the engine reports the quantity, old      *)
(* otherwise (the -log10 / 10^-pH round trip for "H").                     *)
ExpectedValue(p, res, old) ==
  LET n == ProcessMap[SelectInSeq(ProcessMap, LAMBDA e : e[1] = p)][2]
  IN  CASE n = Hydrogen /\ ReportedAt("pH", "") # 0 -> ConcOfPH(res[ReportedAt("pH", "")])
        [] n # Hydrogen /\ n \in Components /\ ReportedAt("Component", n) # 0
             -> res[ReportedAt("Component", n)]
        [] OTHER -> old

ExpectedTransport(p, l) ==
  ExpectedValue(p, reacted[SolNo(l)], tSnap[p][ChemSysMap[l]])

(* End to end routing: when UpdateProcessSolutions completes a call, every *)
(* transport value at the node of every system, and every phase/reactant *)
(* amount at that node, is the engine's result for the SOLUTION numbered  *)
(* after that node (or the call's starting value for what the engine does *)
(* not report): the write loop, the engine's row order, the skipped lines,*)
(* the dropped columns and the two index spaces (local_id/global_id) of   *)
(* readOutputsFromFile and setAqueousSolutionsOrUpdateProcessSolutions    *)
(* must all agree for this to hold.                                        *)
UpdatePushesEngineResults ==
  [][pc = "Update" =>
       \A l \in LocalIds :
          /\ SolNo(l) \in DOMAIN reacted
          /\ \A p \in Procs :
               transport'[p][ChemSysMap[l]] = ExpectedTransport(p, l)
          /\ \A k \in ArrayKeys :
               ReportedAt(k[1], k[2]) # 0 =>
                 arr[k][ChemSysMap[l]] = reacted[SolNo(l)][ReportedAt(k[1], k[2])]
    ]_vars

(* Solution numbers in the input file: every system's SOLUTION and        *)
(* previous-state numbers are its own (no other system defines them), and *)
(* its SURFACE equilibrates with its previous state when one was loaded,  *)
(* with its current solution otherwise (operator<<, lines 301-353).       *)
DefinedBy(i) == {script[i].sol} \cup (IF script[i].prev # 0 THEN {script[i].prev} ELSE {})
SurfaceEquilibratesOwnSolution ==
  \A i \in DOMAIN script :
     /\ \A j \in DOMAIN script \ {i} : DefinedBy(i) \cap DefinedBy(j) = {}
     /\ script[i].surface # 0 =>
          script[i].eqWith = IF script[i].prev # 0 THEN script[i].prev ELSE script[i].sol

(* A result row whose accepted columns are fewer than the schema's items  *)
(* is never applied (the assert at line 479 is the only check).           *)
NoSilentTruncation == ~truncated

(* The engine's own output, with its echoed columns, never makes          *)
(* operator>> fail: dropped columns are the echoed ones and every schema  *)
(* item names an entity that exists.                                       *)
WellFormedOutputAccepted ==
  ~Drift => fatal \in {"none", "init", "io", "engine"}

(* The dump is optional (spec.md, Dump / PreviousState) and without it a  *)
(* SURFACE equilibrates with solution g+1: writing the input file never    *)
(* fails for want of a dump, although line 346 reads                       *)
(* dump->aqueous_solutions_prev whenever there is a surface.               *)
SurfaceWithoutDumpWritten == fatal # "null_dump"

=============================================================================
