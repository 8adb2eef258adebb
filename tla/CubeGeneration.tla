--------------------------- MODULE CubeGeneration ---------------------------
(***************************************************************************)
(* generate_cubes as every cube worker runs it on its own copy of the      *)
(* problem: at the start, to divide the search space among all of them,    *)
(* and alone, in split_cube, on the problem with the literals of a cube    *)
(* added.  No message is exchanged: that the shares fit together rests on  *)
(* all workers taking the same decisions as long as they are together.     *)
(*                                                                         *)
(* The recursion is a stack of frames, one for each call under way:        *)
(*   stage     "enter", "look", "branch", or "undo" when a branch is done  *)
(*   id, group worker_id and num_workers                                   *)
(*   failed    failedLits                                                  *)
(*   branches  the literals of the branches this worker takes, from the    *)
(*             one it is at                                                *)
(***************************************************************************)
EXTENDS VariableChoice

CONSTANTS
  Problems,       (* the problems, sequences of constraints *)
  WorkerCounts,   (* num_cube_workers; 1 for a split *)
  Thetas,         (* the threshold generate_cubes starts from, 1000.0 *)
  MaxDepth        (* MAX_CUBE_GENERATION_DEPTH *)

(* A problem comes as the normal form of its constraints. *)
ASSUME ProblemsAssumption == Problems \subseteq Seq(Constraint)
ASSUME WorkersAssumption == WorkerCounts \subseteq Nat \ {0} /\ Thetas \subseteq Nat
(* The code's depth is 11.  Calls deeper than 20 decisions would lower the
   threshold: there are none. *)
ASSUME DepthAssumption == MaxDepth \in 1 .. 20

VARIABLES
  problem, db,    (* what every worker loads *)
  optimizing,
  solver,         (* of each worker *)
  stack,
  current,        (* the decisions of the path *)
  cubes,
  sat,            (* cube_sat_found *)
  theta           (* in units of 1 / ThetaUnit *)

input == <<problem, db, optimizing>>
vars  == <<input, solver, stack, current, cubes, sat, theta>>

Gang == DOMAIN stack

ThetaUnit == 1000

Frame(id, group) ==
  [stage |-> "enter", id |-> id, group |-> group, failed |-> 0, branches |-> <<>>]

(* Worker w of n workers has worker_id w - 1. *)
Init ==
  /\ problem \in Problems
  /\ db = Database(problem)
  /\ optimizing \in BOOLEAN
  /\ \E n \in WorkerCounts, t \in Thetas :
       /\ solver  = [w \in 1 .. n |-> Loaded(db)]
       /\ stack   = [w \in 1 .. n |-> <<Frame(w - 1, n)>>]
       /\ current = [w \in 1 .. n |-> <<>>]
       /\ cubes   = [w \in 1 .. n |-> <<>>]
       /\ sat     = [w \in 1 .. n |-> FALSE]
       /\ theta   = [w \in 1 .. n |-> t * ThetaUnit]

-----------------------------------------------------------------------------
Call(w) == Last(stack[w])
At(w, stage) == stack[w] # <<>> /\ Call(w).stage = stage
Depth(w) == Len(current[w])

Return(w) == stack' = [stack EXCEPT ![w] = Front(@)]
Continue(w, frame) == stack' = [stack EXCEPT ![w] = Append(Front(@), frame)]

(* wrong: worker_id counted from one *)
FirstKeeps(frame) == frame.id = 1

(* Of the workers that reach the cap together, one keeps the cube. *)
KeepsAtCap(frame) == frame.id = 0

(* The cutoff heuristic, with the threshold t. *)
PastCutoff(w, t) == Depth(w) * AssignedVars(solver[w]) * ThetaUnit > t * NumVars

Raised(t) == (t * 105) \div 100
Lowered(t) == (t * 7) \div 10

(* A call starts: it returns at once, returns the path as a cube, or looks. *)
Enter(w) ==
  /\ At(w, "enter")
  /\ LET t       == Raised(theta[w])
         capped  == Depth(w) >= MaxDepth
         cut     == PastCutoff(w, t)
         keeps   == IF capped THEN KeepsAtCap(Call(w)) ELSE cut
         stopped == sat[w] /\ ~optimizing
     IN
       /\ theta' = [theta EXCEPT ![w] = IF stopped THEN @ ELSE t]
       /\ cubes' = [cubes EXCEPT ![w] = IF ~stopped /\ keeps THEN Append(@, current[w]) ELSE @]
       /\ IF stopped \/ capped \/ cut
            THEN Return(w)
            ELSE Continue(w, [Call(w) EXCEPT !.stage = "look"])
  /\ UNCHANGED <<input, solver, current, sat>>

-----------------------------------------------------------------------------
(* wrong: the second literal has the sign of the first *)
SameBranch(frame, best) ==
  IF frame.group = 1 THEN <<First(best), -best.var>>
  ELSE IF frame.id < frame.group \div 2 THEN <<First(best)>> ELSE <<-best.var>>

(* The branches the worker takes.  A group of workers parts, and its left half
   takes the first branch. *)
Branches(frame, best) ==
  IF frame.group = 1 THEN <<First(best), Second(best)>>
  ELSE IF frame.id < frame.group \div 2 THEN <<First(best)>> ELSE <<Second(best)>>

(* wrong: the failed literals of the call stay on the trail *)
FailedStay(s, frame) == s

(* A call gives up the levels of its failed literals when it returns. *)
Released(s, frame) == Backtrack(db, s, frame.failed)

LookAhead(w) ==
  /\ At(w, "look")
  /\ \E look \in {Looked(db, optimizing, solver[w], Depth(w))} :
     LET frame  == Call(w)
         solved == look.outcome = "open" /\ look.best.var = 0
     IN
       \/ /\ look.outcome = "refuted" \/ solved
          /\ Return(w)
          /\ solver' = [solver EXCEPT ![w] = Released(look.solver, frame)]
          /\ sat'    = [sat EXCEPT ![w] = @ \/ (solved /\ ~optimizing)]
          /\ cubes'  = [cubes EXCEPT ![w] =
                          IF solved /\ optimizing THEN Append(@, current[w]) ELSE @]
       \/ /\ look.outcome = "forced"
          /\ Continue(w, [frame EXCEPT !.failed = @ + 1])
          /\ solver' = [solver EXCEPT ![w] = look.solver]
          /\ UNCHANGED <<sat, cubes>>
       \/ /\ look.outcome = "open" /\ ~solved
          /\ Continue(w, [frame EXCEPT !.stage = "branch",
                                       !.branches = Branches(frame, look.best)])
          /\ solver' = [solver EXCEPT ![w] = look.solver]
          /\ UNCHANGED <<sat, cubes>>
  /\ UNCHANGED <<input, current, theta>>

-----------------------------------------------------------------------------
(* wrong: the right half keeps the numbers it had in the whole group *)
NotRenumbered(frame) ==
  LET left == frame.group \div 2 IN
  IF frame.group = 1        THEN Frame(frame.id, 1)
  ELSE IF frame.id < left   THEN Frame(frame.id, left)
  ELSE Frame(frame.id, frame.group - left)

(* The call of the next level: half of the group, renumbered. *)
Child(frame) ==
  LET left == frame.group \div 2 IN
  IF frame.group = 1        THEN Frame(frame.id, 1)
  ELSE IF frame.id < left   THEN Frame(frame.id, left)
  ELSE Frame(frame.id - left, frame.group - left)

(* The literal of a branch is assumed, and the branch searched unless it
   conflicts. *)
Branch(w) ==
  /\ At(w, "branch")
  /\ LET frame == [Call(w) EXCEPT !.stage = "undo"]
         lit   == Head(frame.branches)
         s     == AssumeAndPropagate(db, solver[w], lit)
     IN
       /\ current' = [current EXCEPT ![w] = Append(@, lit)]
       /\ solver' = [solver EXCEPT ![w] = s]
       /\ theta' = [theta EXCEPT ![w] = IF s.conflict THEN Lowered(@) ELSE @]
       /\ stack' = [stack EXCEPT ![w] =
                      Front(@) \o <<frame>> \o (IF s.conflict THEN <<>> ELSE <<Child(frame)>>)]
  /\ UNCHANGED <<input, cubes, sat>>

(* A branch is done: its literal is undone, and the other branch follows
   unless a model was found. *)
Undo(w) ==
  /\ At(w, "undo")
  /\ LET frame == Call(w)
         s     == Backtrack(db, solver[w], 1)
         rest  == Tail(frame.branches)
         leave == rest = <<>> \/ (sat[w] /\ ~optimizing)
     IN
       /\ current' = [current EXCEPT ![w] = Front(@)]
       /\ solver' = [solver EXCEPT ![w] = IF leave THEN Released(s, frame) ELSE s]
       /\ IF leave THEN Return(w)
                   ELSE Continue(w, [frame EXCEPT !.stage = "branch", !.branches = rest])
  /\ UNCHANGED <<input, cubes, sat, theta>>

Step(w) == Enter(w) \/ LookAhead(w) \/ Branch(w) \/ Undo(w)

Next == \E w \in Gang : Step(w)

Spec == Init /\ [][Next]_vars

-----------------------------------------------------------------------------
(***************************************************************************)
(* Properties.                                                             *)
(***************************************************************************)
Done(w) == stack[w] = <<>>

TypeOK ==
  /\ optimizing \in BOOLEAN
  /\ \A w \in Gang :
       /\ solver[w].trail \in Seq([lit : Lits, dl : Nat, reason : Reason])
       /\ solver[w].next \in 0 .. Len(solver[w].trail)
       /\ solver[w].conflict \in BOOLEAN
       /\ stack[w] \in Seq([stage : {"enter", "look", "branch", "undo"}, id : Nat,
                            group : Nat \ {0}, failed : Nat, branches : Seq(Lits)])
       /\ \A i \in DOMAIN stack[w] : stack[w][i].id < stack[w][i].group
       /\ current[w] \in Seq(Lits) /\ cubes[w] \in Seq(Seq(Lits))
       /\ sat[w] \in BOOLEAN /\ theta[w] \in Nat

(* What worker w has still to search: below the path of a call that looks, or
   below a branch that a call has not taken. *)
Ahead(w, m) ==
  \E i \in DOMAIN stack[w] :
    LET f == stack[w][i] IN
      /\ \A j \in 1 .. i - 1 : current[w][j] \in m
      /\ \/ f.stage \in {"enter", "look"}
         \/ f.stage = "branch" /\ ToSet(f.branches) \cap m # {}
         \/ f.stage = "undo" /\ ToSet(Tail(f.branches)) \cap m # {}

(* No solution falls between the workers: each lies in a cube that somebody
   returns or ahead of somebody, until a model is found (generate_cubes_rec). *)
Covered ==
  \A m \in Solutions(problem) : \E w \in Gang :
    \/ sat[w]
    \/ \E i \in DOMAIN cubes[w] : ToSet(cubes[w][i]) \subseteq m
    \/ Ahead(w, m)

(* Two cubes of a worker contradict each other, and so do those of different
   workers unless they are the same cube: a group that stops together. *)
Disjoint ==
  \A v, w \in Gang : \A i \in DOMAIN cubes[v], j \in DOMAIN cubes[w] :
    \/ v = w /\ i = j
    \/ v # w /\ cubes[v][i] = cubes[w][j]
    \/ \E lit \in ToSet(cubes[v][i]) : -lit \in ToSet(cubes[w][j])

(* The decision levels of the solver are the decisions of the path and the
   failed literals of the calls under way, so every backtrack of a number of
   levels undoes what its call did, and no more. *)
LevelsMatch ==
  \A w \in Gang :
    Level(solver[w]) =
      Depth(w) + FoldLeft(LAMBDA n, f : n + f.failed, 0, stack[w])

(* The counters agree with the trail whenever look-ahead is not under way,
   whatever was undone before (visitPBCounterLists, popAndUnassign). *)
CountersAgree == \A w \in Gang : CountersRight(db, solver[w])

(* What is on the trail follows from the problem and the path: a failed
   literal is not a decision, although it has a decision level. *)
TrailEntailed ==
  \A w \in Gang : \A m \in Solutions(problem) :
    At(w, "look") \/ At(w, "branch") =>
      (ToSet(current[w]) \subseteq m => TrueLits(solver[w]) \subseteq m)

(* A problem that is loaded without a conflict and leaves a variable to look
   at is only found satisfiable if it is. *)
SatJustified ==
  \A w \in Gang :
    sat[w] => \/ Solutions(problem) # {}
              \/ Loaded(db).conflict
              \/ AssignedVars(Loaded(db)) = NumVars

(* "no undefined variables remain and no conflict was found => SAT globally"
   (generate_cubes_rec). *)
SatFound == \A w \in Gang : sat[w] => Solutions(problem) # {}

=============================================================================
