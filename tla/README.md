# TLA+ models of the OGS–PHREEQC coupling

This directory checks the chemistry coupling in
`src/ChemistryLib/PhreeqcIO.cpp` with TLC, together with the point
utilities in `src/MathLib/TemplatePoint.h`.

## 1. Inventory

### Components

| Component | Source | State | Operations |
|---|---|---|---|
| Coupling orchestrator | `PhreeqcIO.cpp` 108-140 | none of its own; it sequences the others | `executeInitialCalculation`, `doWaterChemistryCalculation` |
| Transport mapping | 142-219 | `_aqueous_solutions` (pH, pe, component amounts per local_id); the process solution vectors (indexed by global_id) | `setAqueousSolutionsOrUpdateProcessSolutions` in Setting or Updating mode |
| Previous state (dump) | 221-245, plus `Dump` (not in the repository) | `_dump->aqueous_solutions_prev`; the dump file on disk | `setAqueousSolutionsPrevFromDumpFile` |
| Script serializer | 247-366 | the input file `<project>_phreeqc.inp` | `writeInputsToFile`, `operator<<` |
| Engine driver | 47-106, 368-379 | the process-wide IPhreeqc instance; the result and dump files it writes | constructor, `execute` (`RunFile`) |
| Result deserializer | 381-562 | the stream position; it writes `_aqueous_solutions` and the phase, reactant and secondary-variable arrays (indexed by global_id) | `readOutputsFromFile`, `operator>>` |
| Entity data types | `PhreeqcIOData/*` (not in the repository) | value types | print and read of each block |
| Point utilities | `TemplatePoint.h` | `_x` (DIM coordinates) | `operator[]`, `operator<`, `lessEq`, `operator==`, `maxNormDist`, `read`, `write` |

### How they interact

Everything runs on one thread. The code runs these steps in order:

1. The caller (the transport time loop, not in the repository) calls
   `executeInitialCalculation` once. After that it calls
   `doWaterChemistryCalculation(dt)` once per step.
2. Each call reads the transport vectors into the aqueous solutions. The "H"
   entry becomes pH = -log10(c).
3. A step (not the initial call) then reads the dump file that the previous
   engine run wrote.
4. The code writes the input file. It has one block per chemical system, in
   local_id order, numbered `global_id + 1`.
5. The engine runs the file and writes the selected-output table.
6. The code reads the table back positionally. Per system it skips one row, or
   two with a surface, and then takes one data row.
7. The code writes the amounts and 10^-pH back into the transport vectors.

Any error calls `OGS_FATAL` and ends the program. Nothing is retried.

### What is hard

- **Positional correspondence.** Three things must agree:
  - the block numbering in the writer (`global_id + 1`);
  - the engine's row order;
  - the skip count and dropped columns in the reader.

  Values are also routed through two index spaces: `_aqueous_solutions` by
  local_id, and the arrays and transport vectors by global_id. A slip in any of
  these still gives a run that looks plausible.
- **State across calls.** In the initial calculation the previous state is
  empty, so the SURFACE block equilibrates with solution `g+1`. In each later
  step it uses `N+g+1`, which assumes previous-state block numbering.
- **Checks that a build removes.** The only row-width check is the `assert` at
  line 479.
- **Sequential overwrite.** For a transport variable "H", the pH branch runs
  after the component branch. The last writer wins.

### Properties that make it correct

- Once a call is over, each transport value and array entry at node g holds the
  engine's result for SOLUTION g+1. Where the engine reports nothing, the value
  is the one the call started with. For "H" the value is 10^-pH, even when "H"
  is also a component whose amount the engine reports.
- Solution numbers are unique per system. A SURFACE equilibrates with the same
  system's previous state if one is loaded, and with its current solution
  otherwise.
- No result row with the wrong width is ever applied.
- The engine's own output, including its echoed columns, never makes the reader
  fail.

## 2. Modules and runs

`PhreeqcIO.tla` has the components listed above as actions over one state,
because they share one object. The table maps each action to the code.

| Action | Code |
|---|---|
| `Construct` | constructor; any failure is fatal |
| `executeInitialCalculation`, `doWaterChemistryCalculation` | the public calls |
| `TransportStep` | the transport solver between calls |
| `SetAqueousSolutions`, `UpdateProcessSolutions` | the two modes of the mapping loop |
| `ReadDumpFile` | `setAqueousSolutionsPrevFromDumpFile` |
| `WriteInputsToFile` | the file and `operator<<`; `Block(l)` is the text written per system |
| `execute` | `RunFile` and a black-box engine (see below) |
| `ReadOpen`, `ReadSystem`, `ReadDone` | the reader: open and skip the header, one iteration of the row loop, the end check |

- **State.** `pc` is the statement the program is at; `fatal` is why it stopped.
  The variables `transport`, `aq`, `arr`, `prevLoaded`, `dumpFile`, `script`,
  `result`, `readSys` and `line` are the program's data. The history variables
  are `tSnap` (transport at the start of the call), `reacted` (the engine's
  results per SOLUTION number) and `truncated`.
- **Data abstraction.**
  - A concentration is a power of ten, so -log10 and 10^-pH are exact.
    Floating-point rounding is not modelled.
  - A token is a number or a text.
  - Whitespace tokenisation is taken as already done.
- **Engine (spec-modelled).** Per SOLUTION it emits an `i_soln` row, plus an
  `i_surf` row when there is a surface. Both echo the input. Then it emits a
  `react` row with nondeterministic values. The dropped columns hold the echoed
  state (text) and solution number (numeric). With `Drift`, a react row can be
  one column short or can carry an extra text or numeric token. The engine can
  also fail.
- **Previous-state numbering (spec-modelled).** `Dump` is not in the
  repository. Its previous-state blocks are taken as `N + global_id + 1`, the
  numbering that line 348 assumes.
- **Undefined behaviour.** A row longer than the schema under NDEBUG reads out
  of bounds, and line 346 dereferences a null `_dump`. Both are modelled as
  crashes (fatal).

`MC_PhreeqcIO.tla` sets the constants:

- 2 chemical systems with swapped bulk node ids, so that local_id ≠ global_id;
- component Ca;
- transport processes Ca and H;
- the schema pH, Ca, Calcite, after two dropped columns (state, soln);
- pH values {6, 7}.

The submesh map is `0 -> 0, 1 -> 2` over three bulk nodes. The three run
uses three systems with the map `l -> (l + 1) % 3`, the H process only and the
schema pH, Calcite: with the full data three systems are beyond TLC's time.
The hydrogen run makes "H" a component as well (`MC_ComponentsH`) and
reports it in the schema pH, H (Component), Calcite (`MC_SchemaH`).

| Run | Config | Expect | What it shows |
|---|---|---|---|
| surface | `MC_PhreeqcIO_surface.cfg` | pass | With surface and dump over 2 steps: results are routed to the right nodes (`UpdatePushesEngineResults`), the numbering is consistent (`SurfaceEquilibratesOwnSolution`), and well-formed output is accepted (`WellFormedOutputAccepted`). |
| three | `MC_PhreeqcIO_three.cfg` | pass | Without surface or dump (the one-row skip), three systems rotated by `bulk_node_ids` (0→1→2→0) over two steps: results reach their own nodes. A swap of two systems is its own inverse; this map is not. |
| hydrogen | `MC_PhreeqcIO_hydrogen.cfg` | pass | In a debug build whose engine rows may be one column short or long, with "H" both a component and the pH process: every completed call pushes 10^-pH, not the engine's H amount, because the pH branch runs after the component branch (line 195). A malformed row never reaches the update, since the assert or the parse error stops it. |
| release | `MC_PhreeqcIO_release.cfg` | violation | With NDEBUG, a short row is applied silently and the last schema item keeps its stale value. |
| submesh | `MC_PhreeqcIO_submesh.cfg` | violation | With bulk ids of 2 or more (≥ N), the SURFACE of node 0 equilibrates with solution 3. That number is also node 2's current SOLUTION. |
| nulldump | `MC_PhreeqcIO_nulldump.cfg` | violation | Surface chemistry without a dump, which spec.md allows (SURFACE equilibrates with g+1), never gets its input file written: line 346 dereferences the null `_dump`. |

- **Bounds.** Two systems are the fewest that can be permuted. The three run
  adds a 3-cycle, because a swap hides a map used the wrong way round: the
  mutant `RouteArrInverse` survives the surface run and is caught by the three
  run. Two pH values let the engine's result differ from its input, so a
  misread row shows, and let 10^-pH differ from the engine's H amount. Two
  steps cover the initial call (no previous state) and a step that follows a
  step. The hydrogen run takes one step, enough for an initial call and a step
  with a loaded dump, because the drifting rows multiply the engine's outcomes.
- **Fairness.** `Spec` has `WF_vars(Pipeline)`: once a public call has
  started, its next statement always runs, because the code is synchronous and
  single-threaded. The caller's calls and the transport steps have no fairness.
  No liveness property is checked. Every loop of the pipeline is bounded by N
  or the schema's length, and its only unbounded step is the engine, a black
  box. That a call ends would follow from the fairness alone and says nothing
  about the code.
- **Deadlock.** Checking is off: `OGS_FATAL` really ends the program.

### Hydrogen conversion

`HydrogenConversion.tla` models the "H" branches of
`setAqueousSolutionsOrUpdateProcessSolutions` (lines 195-215) for one
chemical system with the IEEE-754 results of `std::log10` and `std::pow`:
a concentration is a power of ten, zero, a negative value, +inf or NaN, and a
pH is a finite number, +inf, -inf or NaN. A call is `SetAqueousSolution`
(pH = -log10(c)), `Execute` (the engine overwrites pH only when the schema has
a pH item, or fails), `UpdateProcessSolution` (c = 10^-pH); `TransportAndCall`
lets the transport solver set any value before the next call, up to
`MaxCalls` = 3.

| Run | Config | Expect | What it shows |
|---|---|---|---|
| hydrogen_nonpositive | `MC_HydrogenConversion_nonpositive.cfg` | violation | A zero or negative concentration puts pH inf or NaN into the engine's input; spec.md states the round trip for c > 0 only. A negative one also comes back as NaN when the engine does not report pH. |

The round trip for c > 0 is not checked as a property. On powers of ten
-log10 and 10^-pH are exact inverses by construction, and the rounding that
could break the round trip is not modelled.

### Point utilities

`TemplatePointOrder.tla` models `operator<` (lines 114-131) and `lessEq`
(141-170) on DIM-dimensional points, DIM a constant. Coordinates are integers
and eps is the rational `EpsNum / EpsDen`, so each tolerance test is exact.
`LessFrom` is the loop of `operator<` over DIM coordinates, with its two early
returns. `lessEq` keeps the three unrolled tests of the code whatever DIM is
(`LessEqDims`): dimension 0 scales eps by `min(|a0|,|b0|)`, dimensions 1 and 2
by `|a[k]|` (`RefOf`). `LessEqIndices` is the set of coordinates it reads. A
point is the three cells lessEq may read; for DIM < 3 the cells past `_x` hold
whatever lies in memory there, any coordinate value. One `Compare` step
evaluates both orders, both ways, on a pair of points chosen by `Init`.
`MC_TemplatePointOrder.tla` takes the coordinates {-20, -18, 0, 18, 20} and
eps = 1/10: 18 and 20 are within eps·20 but not within eps·18, the case where
the asymmetric tolerance matters. Both signs are needed: with positive values
only, the point with the larger coordinate is always the one whose tolerance is
the wider, and the two directions still agree on the order.

`TemplatePointStream.tla` models `write` / `operator<<` (79-82, 183-189) and
`read` / `operator>>` (84-88, 191-197) over a token stream. `Write` appends the
DIM coordinates of a point, `WriteText` appends a non-numeric token, `read`
copies every leading number into `_x` and the memory after it (`Spill` cells)
and sets the failbit. `MC_TemplatePointStream.tla` uses DIM 3, coordinates
{0, 1}, at most two points and three spill cells, enough to hold a second point.

| Run | Config | Expect | What it shows |
|---|---|---|---|
| point_order | `MC_TemplatePointOrder.cfg` | pass | For DIM 3, `operator<` equals the reference lexicographic order `LexLess`. `lessEq` equals `LexLess` or equality whenever every coordinate pair is equal or `Apart`, i.e. outside the tolerance band measured from either coordinate: outside the band the tolerance never reorders points. |
| point_total | `MC_TemplatePointOrder_total.cfg` | violation | `lessEq` is not total: neither of (-20,-20,-18) and (-20,-18,-20) is `lessEq` the other. Dimension 1 counts -20 and -18 as equal measured from \|-20\| but as different measured from \|-18\|. |
| point_dim2 | `MC_TemplatePointOrder_dim2.cfg` | violation | For `TemplatePoint<T, 2>`, two points equal within tolerance make `lessEq` read `a[2]`, past `_x`: the assert of `operator[]` (line 59) fails, and a release build orders the points by stray memory. |
| point_stream | `MC_TemplatePointStream.cfg` | pass | Reading from a stream of written points gives the first point written. |
| point_overrun | `MC_TemplatePointStream_overrun.cfg` | violation | Reading from a stream holding two points writes the second point's three numbers past `_x`. |

Both point modules have no fairness and no liveness: they model pure
functions and a single read.

## 3. Not modelled

- Retries and recovery after a failed call. Every error path of `PhreeqcIO.cpp`
  is `OGS_FATAL` or `assert`, and spec.md §7 states that there is no local
  recovery or retry anywhere. A failed call ends the program (`pc = "Failed"`).
  So there is no restart path whose state a property could examine, and a retry
  model would describe code that does not exist.
- An abstract specification of the coupling with a refinement. The promise a
  call makes to the transport process (every node gets its own SOLUTION's
  result, nothing changes on an error path) is what `UpdatePushesEngineResults`
  and the `UNCHANGED` clauses of the fatal paths already state. The
  call-ordering it would add ends by the fairness alone.
- The order of the public calls. The caller that makes
  `executeInitialCalculation` the first call is not in the repository; the
  model makes it so.
- The `PhreeqcIOData` printers and readers, other than block numbering.
- `dt` and `-steps`.
- The content of the previous-state blocks.
- Text formatting and logging.
- The engine's chemistry, and what it does with a pH of inf or NaN in its
  input.
- Lookup misses (a schema item naming no entity): `ReadSystem` models the
  partial application of the row and the `OGS_FATAL`, but since the program
  ends no property can observe the partial row; every run uses a consistent
  schema.
- The sizes of the arrays indexed by global_id.
- `assert(user_punch)` at line 545: no run has secondary variables.
- `TemplatePoint`'s constructors, `operator[]` and `getCoords`, which only
  expose `_x`; `operator==`, which calls `sqrDist` (not in the repository).
- `maxNormDist`. On integer coordinates it is the mathematical maximum of the
  three differences. Its only hazard is NaN: `std::max` ignores a NaN difference
  in y or z but not in x. Integer coordinates cannot express NaN, and no caller
  in the repository passes a NaN point.
