--------------------------- MODULE VariableChoice ---------------------------
(***************************************************************************)
(* Look-ahead, as one call of generate_cubes_rec does it: both values of   *)
(* every variable that is undefined are assumed, propagated and undone.    *)
(* A value that fails forces the other one; the variable that propagates   *)
(* most is the one to branch on.                                           *)
(***************************************************************************)
EXTENDS PBSolver

CONSTANTS
  PriorityDepth,  (* OBJECTIVE_PRIORITY_DEPTH *)
  UsePriority,    (* global_use_objective_priority *)
  Weight          (* global_objective_weight *)

ASSUME WeightAssumption == Weight \in [Vars -> Nat]

(* How much an assumption assigns; a conflict counts for more than all. *)
Eval(s, base) == IF s.conflict THEN NumVars + 10 ELSE AssignedVars(s) - base

Undone(db, s) == Backtrack(db, s, 1)

(* wrong: the value that failed is assumed *)
Failing(v, no) == IF no.conflict THEN -v ELSE v
Surviving(v, no) == IF no.conflict THEN v ELSE -v

TotalWeight == FoldLeft(LAMBDA n, v : n + Weight[v], 0, [v \in Vars |-> v])

(* The objective's variables get a bonus near the root. *)
Bonus(optimizing, v, evals, depth) ==
  IF optimizing /\ UsePriority /\ depth < PriorityDepth /\ TotalWeight > 0
    THEN (evals * 20 * Weight[v]) \div TotalWeight
    ELSE 0

NoChoice == [var |-> 0, score |-> -1, tie |-> -1, pos |-> 0, neg |-> 0]

Better(c, best) ==
  c.score > best.score \/ (c.score = best.score /\ c.tie > best.tie)

Choice(optimizing, v, pos, neg, depth) ==
  [var |-> v, score |-> pos * neg + Bonus(optimizing, v, pos + neg, depth),
   tie |-> pos + neg, pos |-> pos, neg |-> neg]

Preferred(c, best) == IF Better(c, best) THEN c ELSE best

(* What follows from the two trials of v: if both values fail the call is
   refuted; if one does, the other is assumed. *)
Judged(db, look, v, yes, no, choice) ==
  IF yes.conflict /\ no.conflict
    THEN [look EXCEPT !.solver = Undone(db, no), !.outcome = "refuted"]
  ELSE IF yes.conflict \/ no.conflict
    THEN [look EXCEPT !.outcome = "forced",
                      !.solver = AssumeAndPropagate(db, Undone(db, no), Surviving(v, no))]
  ELSE [look EXCEPT !.solver = Undone(db, no), !.best = Preferred(choice, @)]

(* One variable of the look-ahead: both values are tried and undone. *)
TryVar(db, optimizing, look, v, depth, base) ==
  LET judge(yes, no) ==
        Judged(db, look, v, yes, no,
               Choice(optimizing, v, Eval(yes, base), Eval(no, base), depth))
      second(yes) == judge(yes, AssumeAndPropagate(db, Undone(db, yes), -v))
  IN IF look.outcome # "open" \/ ~IsUndefLit(look.solver, v) THEN look
     ELSE second(AssumeAndPropagate(db, look.solver, v))

NothingTried(s) == [solver |-> s, outcome |-> "open", best |-> NoChoice]

(* One round of the while loop: all variables, until one fails. *)
Looked(db, optimizing, s, depth) ==
  LET base == AssignedVars(s) IN
  FoldLeft(LAMBDA look, v : TryVar(db, optimizing, look, v, depth, base),
           NothingTried(s), [v \in Vars |-> v])

(* The literals of the two branches: the less constrained value first. *)
First(best)  == IF best.pos < best.neg THEN best.var ELSE -best.var
Second(best) == -First(best)

=============================================================================
