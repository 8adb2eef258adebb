# TLA+ verification of CubeConquerPB

CubeConquerPB (`cubePB`) solves CNF and pseudo-Boolean problems in parallel by
cube and conquer over MPI.  This directory holds TLA+ models of its own code
(`src/src/`), TLC configurations that check them on small instances, and
TLAPS proofs for every number of processes and every problem.  The vendored
solvers (`src/cadical-api/`, `src/roundingsat-dev-ipasir/`) are modelled only as
far as `src/src/` uses them.

## 1. Inventory

Rank 0 is the master, rank 1 the *original worker*, every other rank a *cube
worker*.  With two processes there are no cube workers.

| Part | State it keeps | Operations | Interacts with |
|---|---|---|---|
| Master, `run_master` (cubePB.cpp 1185-1617) | `cube_queue`, `cube_of_worker`, `active_workers`, `lb_of_worker`, `global_best_cost`, `global_best_solution`, `global_lower_bound`, `global_learned_from_original`, the flags (`sat_found`, `orig_unsat`, `unknown_seen`, ...) | the collection loop (until every worker has sent its cubes), the verdict between the loops, the initial dispatch, the main loop (one handler per message), the final verdict | all workers, by MPI |
| Original worker, `run_original_worker` (1620-1674) | one solver over the whole problem | solve, send result | master |
| Cube worker, `run_cube_worker` (1677-1865) | the cube, `global_best_cost`, a solver per cube | generate initial cubes, receive STOP or WORK, solve, offer a solution before a split (code 25), split (code 30), send result | master |
| Callbacks (414-556) | function-local statics that outlive a cube: `best`, `last_sent_lb/ub`, `last_imported_best` | `terminate_cb`, `terminate_decision_cb`, `import_external_constraints`, `report_external_UB` | solver (called), master (messages) |
| Cube generation, `generate_cubes_rec` (577-830) and `CubeConquerAPI.cpp` | a solver used for look-ahead, the current cube | branch on the best variable, cut off, distribute among workers | propagation |
| Native solver (`Solver.cpp`, `Propagate.cpp`, `ConflictAnalysis.cpp`, `Cleanup.cpp`, `Branching.cpp`, `MaxHeap.cpp`) | trail, counters, clause watches and binary lists, constraint database, heap, the objective's constraint, the best solution | propagate, analyse, learn, jump back, restart, clean up, import a bound, decide, raise the bound | callbacks |
| RoundingSat and CaDiCaL backends | adapter over the vendored solver | translate constraints, solve, bounds, terminate | callbacks, vendored code |
| Normalisation (`WConstraint.h`, `Constraint.h`, `build_linear_geq_parts`) | none | pure functions on constraints | parsers, cuts |
| Parsers, `main.cpp`, statistics | none of interest | text in, text out | - |
| Status thread, `startTimer` (956-1011) | reads the master's variables | prints a line per second | master's memory |

What is hard here:

* **Interleaving.**  MPI keeps the order of messages between two processes and
  no other order.  The original worker reports, asks and may finish while cubes
  are still generated; results of cube workers, splits and the original's result
  reach the master in any order; STOP and WORK cross with requests.
* **State that outlives its cube.**  The callbacks' statics are never reset, so
  a cost found in a later cube is compared with one of an earlier cube.
* **Blocking receives.**  The worker waits for an answer in three places and the
  master in one (`recv_solution`); each wait must be answered or interrupted.
* **Two variables for one fact.**  The incumbent's cost arrives without its
  solution (code 26, BOUNDS) and with it (codes 10, 15, 25).
* **A result whose meaning depends on history.**  Code 20 of the original worker
  means "nothing better than what I was told": optimality or infeasibility,
  depending on `feasible_seen`.
* **Lower bounds and learned clauses passed on** to cubes they were not derived in.
* **Three representations of one database** in the native solver: counters,
  watched clauses with cached literals, binary lists; learning, raising the
  bound and `doCleanup` (which moves and renumbers constraints that reasons
  point at) must keep them in step with the trail.
* **Arithmetic in two integer types** when constraints are cut.

What makes each part correct:

* master and workers: no better solution is lost (`Coverage`), nobody prunes on
  a cost nobody vouches for (`PruningJustified`), what is shared is sound
  (`LearnedSound`, `LowerBoundsValid`), the books match the workers (`Books`,
  `WorkConserving`), the result is true (`KeepsPromise`), it comes
  (`Announced`), and everybody stops (`StopHeeded`);
* callbacks: the statics hide no news (`CostReported`, `ReplyHeeded`);
* cube generation: the cubes of all workers together cover the search space and
  do not overlap (`Covered`, `Disjoint`: what `CubeConquer` assumes as
  `Partitions`), look-ahead undoes exactly what it did (`LevelsMatch`,
  `CountersAgree`, `TrailEntailed`), and a problem found satisfiable is
  (`SatJustified`, `SatFound`);
* native solver: loading keeps the meaning (`LoadedRight`), counters agree with
  the trail (`CountersAgree`), propagation is complete (`NothingMissed`), reasons
  justify what they propagated (`ReasonsValid`), analysis learns something from
  every conflict (`AnalysisSucceeds`) and only what is implied
  (`LearnedImplied`), what a cut of saturated constraints results in stays in its
  integer type (`ResultsFit`; what is computed on the way does not, `CutsFit`), no variable is
  forgotten (`HeapComplete`), solutions improve (`SolutionsImprove`), the answer is
  right (`AnswerRight`) and comes (`Terminates`).

`PROJECT.json` lists every part under `components` and every hazard, at its line
and with the properties that watch it, under `hazards`.

## 2. Modules

| Module | Models |
|---|---|
| `CubeConquer` | the protocol between master, original worker, cube workers and callbacks |
| `GlobalResult` | what the program promises: the incumbent only moves to the cost of a cheaper solution, and the one global result is true |
| `PBSolver` | the native solver as look-ahead uses it: constraints, trail, counters, propagation, undoing (operators on a solver's state) |
| `VariableChoice` | the look-ahead of one call: both values of every variable, and which to branch on (extends `PBSolver`) |
| `CubeGeneration` | `generate_cubes_rec` in every cube worker (extends `VariableChoice`) |
| `ClauseSolver` | binary and watched clauses, and full propagation (extends `PBSolver`) |
| `Normalisation` | from an inequality of the input to a constraint of the database; the objective |
| `Cuts` | the arithmetic of conflict analysis: cuts, rounding to clauses, levels to jump to |
| `ConflictAnalysis` | one conflict: cutting with reasons, lemma shortening, learning and jumping back |
| `Cleanup` | `doCleanup` and what it rebuilds |
| `NativeSolve` | `Solver::solve` over all of these: the search as a state machine |
| `MCCubeConquer`, `MCCubeGeneration`, `MCNativeSolve` | small instances for TLC |
| `CubeConquer_proofs` | the inductive invariant of the protocol (who may say what when) and its theorems |
| `CubeConquer_soundness` | the inductive invariant of what is said (every message is true) and its theorems; the refinement of `GlobalResult` |
| `PBSolver_proofs` | induction without an operator parameter, what folds, sums and constraints come to; propagation, undoing and loading preserve what a solver relies on; a literal tried without a conflict can be tried again |
| `CubeGeneration_proofs` | the invariant of one generating worker, the table of rows, and the theorems about single workers |
| `CubeGeneration_cover` | how two workers and how a group relate, and why a worker that announces SAT is right; `Disjoint`, `Covered` and `SatJustified` as theorems |
| `FormLemmas` | what forms weigh, what loading makes of an inequality, and what cuts come to |
| `SearchLemmas` | what the native solver's search preserves: full propagation with clauses, undoing, popping to a literal that can be cut |
| `NativeSolve_proofs` | the theorems about the native solver |

### CubeConquer

*Data.*  `Sol` is the set of feasible assignments and `Cost` their objective
values.  A cube is the set of solutions that extend its literals
(`Task.region`); a set of learned constraints is the set of solutions it
excludes (`excl`).  A solver is described by what it may answer: it may find any
of its `Candidates`, and refutes its cube when there are none.  The constants
`Clauses` and `LowerBounds` bound what a solver may learn or derive;
`MaxDepth` and `MaxParts` bound splitting.

*Messages.*  `toMaster[w]` and `toWorker[w]` are the two channels of worker
`w`, in order; the master picks any channel (`MPI_Probe(MPI_ANY_SOURCE)`) and a
receive with a tag takes the first message with that tag (`FirstTagged`).  A
RESULT and the SOLUTION, SPLIT and constraint messages sent right after it are
one record: the receiver takes them in one go and blocks until they are there.
`sol = None` says that no SOLUTION message follows.

*State.*  Each variable is named after the code's; the comments beside the
VARIABLES say where the name differs.  Each static variable of a callback is a
variable (`reported`, `reportedLB`, `imported`) that no cube resets.

*Actions.*  Workers: `Generate`, `Receive` (STOP or WORK), `Poll` (one call of
the periodic callback: report, then stop, split, ask or carry on), `Import` and
`ImportStop` (native) or `ExternalUB` (RoundingSat) for the master's answer,
`FindSolution`, `Decide`, `RaiseLowerBound`, `Refute`, and the split:
`OfferSolution`, `ReceiveIncumbent`, `SplitCube`, `SplitFindsSat`.  Master:
`ReplyBest`, `TakeBounds`, `TakeLearned`, `TakeBestCost`, `TakeOriginalResult`,
`TakeInitialCubes`, `TakeOffer`, `TakeSplit`, `TakeModel`, `TakeCubeResult`, and
between and after the loops `AnswerEarly`, `StartServing`, `Finish`.  `verdict` is
the line "Global result"; when a model is found in the main loop none is printed, and
the user is told by "SAT found by ..." and the assignment, which `Outcome` counts as
the result SAT.  A handler
is one action, with the dispatch of waiting cubes that ends it: `Dispatches`
says which assignments of tasks to idle workers the code's loop can produce
(workers in rank order, largest lower bound first; ties are broken by the heap,
so any order is allowed), and `HandOut` and `Sent` apply one.

*Left out.*  The status thread; wording; `print_solution`; what a split time
limit is (a split may be due at any call back); memory limits and time limits
(none is passed to a solver, so codes 0 and 15 are handled but never sent);
MPI failures (the program has no handling for them).

Definitions with the comment `wrong:` are not part of the model: each is the
definition after it with a plausible mistake, and with it some property fails.

### PBSolver, VariableChoice and CubeGeneration

`CubeGeneration` looks inside the step that `CubeConquer` calls `Generate` (and
the one in `SplitCube`).  The workers exchange no message while they generate:
each loads the problem, walks the top of the search tree and takes one side by
its number, so what is shared is only the code.  The variables of a worker are
the solver, the stack of calls (`stack`, one frame per recursive call),
`current`, `cubes`, `cube_sat_found` (`sat`) and `theta`.  A call is the actions
`Enter` (up to the cutoff), `LookAhead` (one round of the `while` loop: all
variables, or as far as the first failed literal), `Branch` (assume a branch,
call) and `Undo` (backtrack, next branch or return).  `split_cube` is the case
of one worker, with the cube's literals and the bound among the constraints.

`PBSolver` gives a solver's state as a record and each method as an operator on
it: `Loaded` (constraints are added, literals forced, nothing propagated),
`AssumeAndPropagate`, `Backtrack`.  The counters, the restoring after a
conflict, `lastPropagated`, the conflict flag that only `Backtrack` clears, and
the cursor of `propagatePBCtrCounter` are those of the code.  Constraints are
simplified as the code does it; `Solutions` is computed from those given.

*Left out.*  Watched and binary clauses (only learning makes them); the
activity, heap and statistics fields; the look-ahead of the other backends,
which propagate what they are given before look-ahead starts.  `theta` is kept
in thousandths, rounded down.  The early return when a model is already found
(588) and the lowering of `theta` beyond 20 decisions (606) cannot be reached, the
latter because calls stop at 11 decisions (`MAX_CUBE_GENERATION_DEPTH`, 34).

### NativeSolve and the modules under it

The solver's state is one record (`PBSolver`), and propagation, analysis and
cleanup are operators on it and on the database `db`; `NativeSolve` is the loop
around them.  `pc` says where `solve` is:

* `Start`: everything loaded is propagated and `doCleanup` sorts it into
  constraints, clauses and binary clauses;
* `Propagates` (one call of `propagate` to its fixpoint or first conflict),
  `Analyse` (one iteration of `conflictAnalysisAndBackjump`: pop a literal, cut
  with its reason, learn when the result propagates lower down);
* `Upkeep` (restart, cleanup, the callback, which may stop the search), `Import`
  (at level 0 only: the master's incumbent becomes a constraint);
* `Decide`, `Model` and `Better` (the assignment is total: a feasibility problem
  ends, an optimisation problem stores the solution and adds or raises the
  constraint that asks for a better one).

`pc = "error"` is `exit(-1)`, which `AnalysisSucceeds` shows out of reach;
`pc = "undefined"` is a cut that leaves the type it is computed in, `int` or `long
long`, in a product, in a sum, or in `newConstant`, from which all that is cancelled
is subtracted before the constants are added.  What follows an overflow is whatever
the build does, so the model stops there.

Any choice is: which variable and phase are decided (scores, phases, luck), when
to restart and clean up, when the callback stops or brings news, and which of the
constraints a cleanup may delete it does delete (`Deletions`: activities order
them, LBD and `isInitial` protect them).  Not a choice is everything else: the
order in which literals, lists and constraints are visited, the cursor of each
constraint, the watches of each clause and the cached literal in them, when a
clause replaces a constraint, the sorting of terms, saturation and division.
`Instances` gives the problems, with `BT0` (jump to level 0 after a solution: TRUE
in `cubePB`, FALSE in `pbsat`); `CutLimit` stands for the code's 2^30, so that
both integer types and the fallback between them are met with small numbers.

*Left out.*  Activities, phases, statistics, output, time and memory limits, and
the order in the heap (`MaxHeap`): only which variables are in it matters here.

### The correspondence in short

| Code | Model |
|---|---|
| `CubeTask`, `cube_queue` | `Task`, `queue` (a bag: the order of equal bounds is not specified) |
| `cube_of_worker[w] != -1`, `active_workers` | `cubeOf[w] # None`, `activeWorkers` |
| `handle_bounds_report` | `TakeBounds` |
| `bestSolution` | `Incumbent` |
| `send_work_to_worker` | `Work`, `Sent` |
| `terminate_cb`, `terminate_decision_cb` | `Poll`, `Reports` |
| `import_external_constraints` | `Import`, `ImportStop` |
| `report_external_UB` | `ExternalUB` |
| `solve_cube`, `Solver::solve` | `FindSolution`, `Decide`, `Refute`, `Dispose` |
| `split_cube`, `generate_cubes` | `SplitCube`, `Partitions`; in detail `CubeGeneration` |
| `generate_cubes_rec` | `Enter`, `LookAhead`, `Branch`, `Undo` |
| `visitPBCounterLists`, `propagatePBCtrCounter`, `propagate` | `Visit`, `PropagateCtr`, `PropagateNext` |
| `popAndUnassign`, `backjumpToDL`, `Solver::backtrack` | `PopAndUnassign`, `BackjumpToDL`, `Backtrack` |
| `visitBinClauses`, `visitClauses` | `VisitBins`, `VisitClauses` (`Rewatched`, `Replacement`: the cursor) |
| `build_linear_geq_parts`, `removeDuplicates`, `simplify` | `MovedRhs`, `Merged`, `Simplify` |
| `applyCut`, `fixRoundingProblemSAT`, `lowestDLAtWhich...` | `ApplyCut`, `FixRounding`, `LowestDL` |
| `conflictAnalysisAndBackjump`, `lemmaShortening` | `Analyse`, `Jumped`, `LemmaShortening` |
| `doCleanup` | `Cleaned` (`KeptPBs`, `KeptClauses`, `KeptBins`, `Stripped`, `WithClauses`, `WithCounters`) |
| `Solver::solve` after a solution | `Better`, `AsksForBetter`, `ObjectiveRaised` |

## 3. What is checked

| Run | Instance | Shows |
|---|---|---|
| `native_split` | 1 cube worker and the original, 2 solutions, 1 clause, split depth 1, 2 parts, native | types; no better solution is lost by splitting, sharing or pruning; the callbacks' statics hide no news |
| `rs_bounds` | 1 cube worker, RoundingSat, lower bounds, splits | bounds derived in one cube never cut off a better solution of another |
| `sat_split` | 2 cube workers, feasibility, CaDiCaL, splits | dispatch keeps nobody idle; the books match two racing workers; only SAT is announced |
| `live` | 2 cube workers, native, no splits, fair | a result is always announced and every STOP is heeded |
| `cube_generation` | 1 and 3 workers, 80 problems over 3 variables, depth cap 2, feasibility and optimisation | the cubes cover the problem and do not overlap; levels, counters and trail are right after every step; SAT is claimed only of satisfiable problems, unless loading left a conflict or no variable |
| `native_solve` | 9 problems over 4 variables, one restart, cleanup and import each, fair | the native solver is right on them whatever it decides, restarts, deletes or imports, and it ends |
| `sat_lost_in_split`, `stop_unheeded_split`, `cost_mismatch`, `sat_unchecked`, `merged_terms`, `cut_overflow` | see section 5 | six statements of the code and its comments that its behaviour violates |

*Bounds.*  Two solutions of different cost are the least at which a bound can
cut one off while the other is kept; two cube workers are the least at which one
waits while another splits; one level of splitting is the least at which a
subcube inherits bounds and clauses from a cube solved by another worker.  More
of each repeats these situations.  `native_split` is the largest run (3.8 million
states, two to four minutes).

In `cube_generation` three workers are the least for a group that parts unevenly;
a cap of two decisions over three variables makes a group stop together and
single workers stop at the cap, before it, and by propagation.  The problems are
all sequences of one or two constraints of a pool (units, clauses, a cardinality
constraint, one that `Simplify` changes, one that forces every variable, one that
is false) and eight longer ones with pending units and contradictions that only
look-ahead finds.  `Thetas` has the code's 1000, at which the cutoff is out of
reach at such depths, and 0, a threshold that has fallen below one, at which every
call below the first is cut off, so that the workers of a group stop together
there.  The workers are deterministic,
so all that varies is the problem and how their steps interleave.

The nine problems of `native_solve` (121 thousand states) were picked from some
two million states of random ones, none of which violated a property, for what
they reach between them: conflicts answered by a learned constraint and by a
learned clause; lemma shortening; rounding of a cut to a clause,
because of its slack and because of an overflow; cuts in both integer types; a
conflict that is still one after the jump back to level 0; learned clauses and
constraints that a cleanup deletes, false literals that it strips; imports, restarts, decision problems, maximisation, both values of
`BT0`; and an objective constraint whose cut leaves `int`.  Four variables are the
least at which a conflict involves three levels and a reason of its own on each.

*Deadlock* is not checked for `CubeConquer` and `CubeGeneration`: the program
ends, and then nothing more happens.  Getting stuck early is what `Announced` and
`StopHeeded` are about.  It is checked for `NativeSolve`, whose `Stay` is the only
step at its end.

*Fairness* (`Fairness`, only in the runs with liveness properties): no process
stops, so each worker's and the master's enabled step is eventually taken;
`MPI_Probe(MPI_ANY_SOURCE)` starves no sender, so each channel is served (weak
fairness per worker); a solver is complete, so while it is not interrupted it
finds a solution if its cube has one and refutes it otherwise, however often it
calls back in between (strong fairness of `FindSolution` and `Refute`: between
two calls the search makes progress, and it is a terminating CDCL search).

For `NativeSolve`, `FairSpec` says that the solver keeps taking steps until it has
stopped.  It runs alone and waits for nobody between two callbacks, so this is weak
fairness of `Next`; since nothing but its end disables `Next` (no deadlock), it is
written without ENABLED.  That restarts, cleanups and imports are finitely many is a
bound of the instance; in the code the intervals between restarts grow, and the
incumbent improves only so often.

*Mutants.*  Every property of a passing run fails for at least one `wrong:`
definition, under that run's own configuration.

## 4. What is proved

The theorems about `CubeConquer` hold for every `Sol`, `Cost`, number of cube
workers, backend and bound that satisfy the three assumptions of that module
(`ProblemAssumption`, `WorkerAssumption`, `BoundAssumption`) and `NoneAssumption`.
There, that solvers and generators are right about the cube in their hands is how
the actions `FindSolution`, `Refute`, `RaiseLowerBound`, `Learnable` and
`Partitions` describe them.  For the generators it is proved below; for the native
solver `NativeSolve` checks it on small problems.

The theorems about `CubeGeneration` hold for every number of variables
(`VarsAssumption`), every set of problems in normal form (`ProblemsAssumption`:
sequences of constraints with distinct variables, positive coefficients, the largest
first, and a positive constant, which is what `Normalisation` makes, but for the case
of the run `merged_terms`, and `sortByDecreasingCoefficient` puts in order), any numbers of cube workers and thresholds (`WorkersAssumption`),
weights (`WeightAssumption`) and a depth cap from 1 to 20 (`DepthAssumption`; the
code's is 11, and the threshold is lowered only beyond 20 decisions).

`CubeConquer_proofs`:

* `ProtocolKept`: `Spec => []Inv`;
* `TypeCorrect`: `Spec => []TypeOK`;
* `BooksCorrect`: `Spec => []Books`;
* `NobodyStarves`: `Spec => []WorkConserving`.

`CubeConquer_soundness`:

* `SoundAlways`: `Spec => []Sound`;
* `NothingLost`: `Spec => []Coverage`;
* `NobodyPrunesUnjustly`: `Spec => []PruningJustified`;
* `LearnedIsSound`: `Spec => []LearnedSound`;
* `BoundsAreValid`: `Spec => []LowerBoundsValid`;
* `NewsIsTold`: `Spec => []CostReported`;
* `ReplyIsHeeded`: `Spec => ReplyHeeded`, with the native solver (RoundingSat
  waits for the reply only, past whatever is before it in the channel, so that the
  first message need not be the one it heeds);
* `PromiseKept`: `Spec => KeepsPromise`, the refinement of `GlobalResult`.

`PBSolver_proofs` is about the operators of `PBSolver` and `VariableChoice`;
`CubeGeneration_proofs`:

* `TypesCorrect`: `Spec => []TypeOK`;
* `LevelsRight`: `Spec => []LevelsMatch`;
* `CountersCorrect`: `Spec => []CountersAgree`;
* `TrailFollows`: `Spec => []TrailEntailed`.

`CubeGeneration_cover`:

* `SharesDisjoint`: `Spec => []Disjoint`;
* `NothingLost`: `Spec => []Covered`;
* `SatIsJustified`: `Spec => []SatJustified`.

`FormLemmas`, for all forms, that is constraints with any integer coefficients:

* `ApplyCutRight`: a cut of two forms that have a variable with opposite signs is
  implied by the two, and falsified if one of them propagates the variable and the
  other is falsified by its value;
* `FixRoundingRight`: the clause that rounding takes from a form that propagates is
  implied by it and propagates the same literal;
* `FalsifiedCutRight`: whichever of the cuts analysis settles for, it is falsified
  and implied;
* `SaturatedCutFits`: the constant and the coefficients of a cut of saturated forms
  stay in `int` or `long long`, whichever the code chooses (`ResultFits`, which
  `ResultsFit` checks of the cuts of `native_solve`).

`NativeSolve_proofs`:

* `LoadingSound`: `Spec => []LoadedRight`;
* `PropagationRight`: what full propagation makes true has a reason, what it calls
  a conflict is falsified, and no solution is lost;
* `IterationRight`: one iteration of conflict analysis, from any falsified form, ends
  at level 0 with the form still falsified, or at a literal whose negation the form
  implies under what is left of the trail.  If the literal has a reason, the cut with
  it is falsified and implied; if it has none, it is a decision that the form refuted
  before it was taken, and the code calls `exit(-1)`.  That this does not happen,
  because propagation is complete before anything is decided, is checked
  (`AnalysisSucceeds`), not proved.

### The protocol

Types alone are not inductive.  That `active_workers` stays within
`0 .. NumCubeWorkers`, that the cube a split comes from is there to inherit from,
and that a worker offers a solution it has, all depend on who may send what
when.  The invariant `Inv == TypeOK /\ Protocol` says just that:

* while the master collects, a cube worker is generating, or has sent its cubes
  and waits; nothing was sent to it (`Collected`);
* while it serves, a worker without a cube is silent and has no work coming; a
  message that ends the work on a cube is the last of its sender until more work
  arrives; at most one WORK is under way to a worker, and only to one that waits;
  as long as nobody was told to stop, a worker that left has told of a model
  (`Served`); and `active_workers` is the number of workers with a cube.

The proof has one lemma per action.  Worker steps go through `WorkerStep` (a
working worker that `Behaves` keeps the protocol), messages that end no work
through `MasterHears`, and the three handlers that deal out cubes through
`HandOutFacts` (the cardinality argument for the counter) with `IdleServed`,
`OtherServed` and `StoppedServed` for the channels.  `WorkConserving` is inductive
on top of `Inv`: the queue and the books change only in handlers that deal, and
`HandOutServes` says that dealing serves every idle worker or empties the queue.

### What is said is true

None of the other safety properties is inductive either: the master believes what
it receives, so each depends on what every message under way claims, and what a
message claims depends on what its sender has been told.  `Sound` relates the two.

* A cost is *vouched for* by worker `w` if the incumbent is no worse, or a message
  of `w` under way tells one that is no worse (`Vouched`).  A solution is *settled*
  at a place in the channel if its cost is vouched for by then (`Settled`).
* Every message on its way to the master is true of the cube its sender is in
  charge of (`Charge`), by the time it is received: nothing unsettled is left of a
  cube reported finished, or outside the parts of a cube that was split;
  lower bounds and learned clauses cut off nothing unsettled (`Claim`,
  `ClaimsHold`).  "By the time" is what makes this work: the message that tells the
  cost precedes the one that relies on it, and MPI keeps their order.
* Every incumbent on its way to a worker is no better than the master's, no worse
  than what the worker imported, and they get better along the channel
  (`RepliesHold`).  This is why `last_imported_best`, which no cube resets, hides
  nothing.
* A working solver has the cube it is in charge of; its bound is vouched for or is
  the cost of the solution it holds and is about to tell; its lower bound cuts off
  nothing unsettled (`SolverSound`).  What its statics keep is vouched for
  (`StaticsSound`).
* Open tasks, shared constraints and lower bounds cut off nothing better than the
  incumbent (`TasksSound`, `SharedSound`); while cubes are collected every solution
  is in a waiting cube or the share of an awaited worker, and while they are served
  every solution better than the incumbent is in an open task (`CollectSound`,
  `CoverSound`); each flag of `run_master` means what its name says (`FlagsSound`).

There is again one lemma per action.  Worker steps change one worker's conjunct
(`WorkerAlone`) and go through what sending (`ClaimsAppend`), receiving
(`RepliesTail`, `RepliesRemove`) and falling idle (`AtRest`) preserve.  The
master's steps go through `HearingSound` (it takes in a message and leaves the
cubes where they are) or `DealingSound` (it hands out tasks, with `HandOutOpen`:
dealing loses no task and makes none up).  The theorems about single properties
follow from `Sound` state by state.  For the refinement, a handler that lowers the
incumbent is an `Improve` step, and `AnswerEarly` and `Finish` are `Announce` steps:
`AllSettled` shows that when `active_workers` is 0, work conservation leaves no open
task, so by `CoverSound` no better solution is left.

`Inv` and `Sound` were checked by TLC before they were proved, on the
configurations of `native_split`, `rs_bounds` and `sat_split` and on variants of
them with two native cube workers, with none, and with feasibility problems.

### The counters and the trail

Sums over the terms of a constraint, propagation, backjumps and loading are all
folds over sequences, and the provers have no induction over data.  Each fold is
therefore opened once: `FoldExists` says that `FoldLeft` is a recursive function,
`FoldSteps` gives its equations, and a property of its values is proved by
`InductionUpTo`, which speaks of a *set* of numbers closed under successor
(`Inductive`) and so needs no operator as a parameter.

The first sections of `PBSolver_proofs` have what sums do: `Weigh` grows with the literals weighed, a
literal more adds its coefficient, the gcd of `Simplify` exists and dividing by it
loses no solution (`SimplifySound`).  The others have what the solver's operators
keep:

* the types, that no literal is on the trail twice or with its negation, and that
  levels do not decrease along it and rise by one at a time (`Good`, `Orderly`);
* `CountersRight`: through `Visit`, where a conflict restores what was counted, and
  through undoing a literal that was propagated or was not;
* what follows from a constraint: a literal whose coefficient exceeds the slack is
  true in every solution that agrees with the trail, and a negative slack says that
  there is none;
* that undoing the last level after any propagation gives the trail, the counters
  and the number of propagated literals of before, up to the literals that were
  waiting to be propagated.

### One worker

None of the first four properties is inductive.  A worker's state is gathered in a
record and a step of `Next` is a function of it (`After`).  The invariant is `Fine`:
the solver is `Good`; the path is the sequence of the branches of the calls under
way (`Path`); the decision levels are the path's decisions and each call's failed
literals (`Bases`); what a call sees, the trail up to its level, follows from the
problem and the path, and the branches it has still to take are undefined there
(`Held`); and a call that looks has a solver without a conflict, if the problem has
a solution below it (`Open`).  That condition is needed: loading may leave a
conflict that `Backtrack` clears, against its comment, but only where there is
nothing to lose.

### The workers together

`Covered` and `Disjoint` relate workers that never talk.  They hold because all take
the same decisions as long as they share a group, whatever order they run in.  The
invariant `Lockstep` says so: there is a table with one row per step which every
worker follows from the same start, each at its own row (`Recorded`).  Two workers
are in step up to a row in which their group parts, then they are parted for good:
their paths disagree at that literal, and so do the cubes each returns.  For
`Covered`, the share of a worker at a row is what it has returned and what is
ahead; a step loses no solution of the share but to the other half of a group that
parts there, and that half has a worker in it, since a group of n > 1 splits into
two halves that are not empty.  So for every solution some worker keeps it in all
rows, hence in the row it is at.

### What look-ahead leaves unnoticed: nothing

`SatJustified` says that a worker that has nothing left to look at may announce SAT.
The code concludes so from the absence of undefined variables; a constraint that is
falsified by literals still to be propagated would be missed.  That there is none
has three parts, all kept by every step (`Justified`):

* the solver is `Solid`: its counters are right, no counted constraint is falsified
  (`Slacks`), and the walk over a constraint, which goes on where it stopped
  (`getMaxWIdx`), has passed over no undefined literal (`Cursor`, `Begun`).
  This needs the largest coefficient first: a walk ends at the first term that fits
  the slack;
* a call that looks has propagated everything (`Ready`), unless no literal was ever
  assumed and the trail is that of loading (`Fresh`);
* a literal that was forced because the opposite value failed had itself been tried
  without a conflict, and is assumed again *after* the trials were undone.  The
  second time the counters are the same but the walks start elsewhere and
  constraints may propagate in another order, so it must be shown that the result
  has no conflict either: the literals that the first trial ended with are left
  alone by every constraint (`Fixed`), and the second never leaves them
  (`RepeatNoConflict`, by `Retracing`).

When all variables are defined (`AllDefined`, a pigeonhole argument: one literal per
variable on the trail) a ready solver's trail is a model (`ReadyModel`), and a model
of the constraints as loaded is a solution of the problem (`ModelsAreSolutions`).

### What a form weighs

A form has a coefficient of either sign per variable; under an assignment it weighs
the sum of the coefficients of its true literals (`Weight`).  Sums over the
variables compare, add up and multiply (`TotalCompare`, `TotalPlus`, `TotalTimes`),
and everything about forms is reduced to that, variable by variable.

*Loading.*  `Gathered` is what the terms of an inequality give a literal in all;
`ValueGathered` says that these add up to the inequality's value, `MergedRight` that
moving negative coefficients and cancelling opposite literals keep the difference to
the right-hand side.  `TermsRight` says that sorting loses no term (`Ordered` is a
bijection because ranks grow along a total order, `OrderedRight`), and
`SimplifySound` that rounding to multiples of the gcd changes no model.  Hence
`LoadingSound`.  It needs `ProperInstances`: an inequality not seen to be trivial
asks for something once its terms are merged.  That is what `merged_terms` shows the
code not to ensure; TLC evaluates it for the instances of `native_solve`
(`SmallInstancesProper`).

*Cuts.*  The combination of two forms exceeds its constant by what the forms do,
multiplied, less what was cancelled twice where both signs count (`CombinedOver`).
So under a complete assignment nothing is lost, and where the variable of the cut
counts for both, the cut is falsified if one form has nothing to spare
(`OpposedCut`).  Division by the common divisor and shaving to the constant keep
models and, since every lighter coefficient is a multiple, falsity
(`DividedSound`, `DividedFalsified`).  A rounded form is a clause whose other
literals are false, so that it has exactly nothing to spare (`FixPushes`), and two
clauses always cut without overflow (`ClausesCut`); that is why the last resort of
`FalsifiedCut` cannot fail.

### The native solver's search

`SearchLemmas` says what the operations of the search preserve, for every database
and every state that is `Core`: the counters are right, the clauses have at least
three different literals and are in the two lists of their first two (`WellMade`),
every variable without a value is in the heap (`Heaped`), and every literal above
level 0 that has a reason was forced by it with the literals before it (`Founded`).

* *Propagation.*  A state `Reaches` another if its trail extends it by literals that
  are `Due`, and its conflict is falsified.  Binary clauses, the walk over a watch
  list, in which entries move to other lists while clauses are permuted
  (`WatchVisit`), and the walks over the constraints all reach; `Advances` adds the
  counters, which a conflict restores.  Whatever a literal is due to holds under
  every assignment that `Upholds` the database and level 0, so none is lost
  (`ReachesUpholds`), and a conflict at level 0 leaves none (`GroundConflict`).
* *Undoing.*  Reasons look back only, so a shorter trail is still founded
  (`UndoneCore`).
* *Analysis.*  Popping stops with the literal whose falsity falsified the form
  (`PopStep`), so the form propagates its negation (`FalsifierPushes`); its reason
  propagates the literal from what is left of the trail (`Founded`), and the two
  are opposed in its variable, which is what `FalsifiedCutRight` asks for
  (`PoppedRight`, `AnalyseCut`).

### What is only model-checked

The other invariants of `NativeSolve`: learning, cleaning up and the order of the
search are checked by TLC on the instances of `native_solve`.  `SatFound`, which does
not hold, and all liveness, which is beyond the proof system.

## 5. Where the code departs from what it says

Each is a run that TLC must find violated.

* `sat_lost_in_split`: a model met while a cube is split (1803-1808) is
  announced with code 10 and no assignment; the master prints "SAT found by worker",
  waits for the assignment (1536) and hangs: nobody is stopped, no assignment is
  printed and the run does not end.
* `stop_unheeded_split`: a worker that waits for the answer to code 25 (1784)
  reads no STOP; if the master has left its loop, the worker hangs.
* `cost_mismatch`: with OPTIMUM the cost printed and the assignment printed may
  differ, since cost and solution travel in different messages.
* `merged_terms`: the test for trivially true constraints comes before opposite
  terms of one variable are merged (Parser.cpp:21, WConstraint.h:302), so a
  constraint that is trivial only then reaches `simplify` with a constant below 1,
  becomes a clause, and a solution is lost.  A clause of a CNF file with a variable
  and its negation is another case: its constant becomes 0, and `simplify` divides by
  it (cubePB.cpp:300).
* `cut_overflow`: 5x1 + 4x2 + 5x3 + 3x4 >= 5 and 3~x1 + 3~x2 + 2~x3 + x4 >= 3 are
  saturated and, at `CutLimit` 16, cut in `int`; what opposite literals cancel, 37, is
  subtracted from `newConstant` (ConflictAnalysis.cpp:633, 637) before the constants
  are added (652), and leaves the type.  In the code this takes constants like 32767
  and 32766.  The comment that argues that all fits (573-578) looks only at what
  results, of which it is right (`SaturatedCutFits`); so does the one on `long long`
  (583-594).  Signed overflow is undefined; a build that wraps comes back to the right
  constant.
* `sat_unchecked`: constraints that force every variable when they are loaded are
  never propagated, and generation announces SAT of a problem that may have no
  solution (704).  `CubeConquer` takes what a generator says to be true; this run
  shows where it is not.

Seen while modelling, without a run of their own:

* in a feasibility problem the native solver returns before it stores the model
  (Solver.cpp:212), so the assignment sent and printed with SAT is the one it was
  constructed with, all false (`AllFalse` in `FindSolution`);
* `report_external_UB` waits for BEST_REPLY with its handling of STOP commented out
  (504-512): if the master leaves its loop before it reads the request, the worker
  hangs, the RoundingSat counterpart of `stop_unheeded_split` (`StopHeeded` fails with
  `Backend = "roundingsat"`, also without splits);
* a split into no subcubes that leaves no active worker sends no stop (1501, 1571), so
  the master goes on waiting for the original worker although every cube is done
  ("All cubes processed: stop all remaining workers", 1570);
* the objective's constraint is never simplified ("Why don't we simplify the objective
  function?", Solver.cpp:111), so that its coefficients may be larger than the
  constant, and what a cut with it results in can leave `int` as well
  (ConflictAnalysis.cpp:569-578; `native_solve` meets it);
* "No solution can exist yet at this point" (1207) is no longer true, since the
  original worker reports during collection;
* with only code 26 received, OPTIMUM is printed without an assignment.

## 6. Plan

1. `CubeConquer`, `GlobalResult` and their runs; the invariant and the first
   theorems (done).
2. `PBSolver`, `VariableChoice`, `CubeGeneration` (done, checked) and the theorems
   about them: counters, levels, the trail, `Disjoint`, `Covered`, `SatJustified`
   (done).
3. `Normalisation`, `Cuts`, `ClauseSolver`, `ConflictAnalysis`, `Cleanup` and
   `NativeSolve`, with one run over all of them (done, checked).
4. `Sound`, the theorems that follow from it and the refinement of `GlobalResult`
   (done).
5. Loading, cuts, propagation and one iteration of analysis (done); to prove: the
   invariants of `NativeSolve`, which need the same of learning and of cleanups.
6. Left to model: the order in the heap (`MaxHeap`), of which only the contents
   matter so far; the translation of constraints for CaDiCaL and RoundingSat.

That generation ends is evident from the depth cap and not checked.

Not modelled, and why: the parsers and `main.cpp` (text, one pass, no protocol; what
they hand over is the input of `Normalisation`), statistics and status lines
(output; the thread that prints them changes nothing), activities and phases (any
order of decisions is allowed instead), and the inside of CaDiCaL and RoundingSat.
These two are vendored and make up nine tenths of the repository: of some 91,000
lines about 7,900 are the program's own, and the models stand for roughly 3,000 of
them.
