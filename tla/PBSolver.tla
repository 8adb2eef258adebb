------------------------------ MODULE PBSolver ------------------------------
(***************************************************************************)
(* The part of the native solver that look-ahead uses: the database of     *)
(* pseudo-Boolean constraints with a counter each, the trail, propagation  *)
(* and undoing (DBAddition.cpp, Propagate.cpp, Model.cpp, Solver.cpp and   *)
(* CubeConquerAPI.cpp).                                                    *)
(*                                                                         *)
(* A literal is a variable or its negative.  A constraint                  *)
(* sum coef * lit >= k is [k, lhs], lhs being a sequence of terms          *)
(* [coef, lit] in order of decreasing coefficient.  db is the sequence of  *)
(* the constraints in the order they were added, and a solver's state is   *)
(*   trail     the literals that are true, each with its decision level    *)
(*             and the reason: what propagated it, or none                 *)
(*   next      how many of them are propagated (lastPropagated + 1)        *)
(*   sums      sumOfWatches, one per constraint                            *)
(*   from      where the next propagation of each constraint starts        *)
(*   conflict  the flag, and culprit, what is falsified while it is set    *)
(*   heap      the variables in maxHeap, assigned ones possibly among them *)
(*   clauses, watches, bins   the clauses, which only learning makes: see   *)
(*             ClauseSolver                                                *)
(***************************************************************************)
EXTENDS Integers, Sequences, FiniteSets, SequencesExt

CONSTANT NumVars

ASSUME VarsAssumption == NumVars \in Nat \ {0}

Vars == 1 .. NumVars
Lits == Vars \cup {-v : v \in Vars}

-----------------------------------------------------------------------------
(* Constraints.  Every term has a positive coefficient, no variable occurs twice
   and the largest coefficient comes first; loading drops what holds trivially,
   so k is positive.  In the search they also say whether they are initial, and
   their LBD. *)
Term == [coef : Nat \ {0}, lit : Lits]

Bare   == [k : Nat \ {0}, lhs : Seq(Term)]
Marked == [k : Nat \ {0}, lhs : Seq(Term), init : BOOLEAN, lbd : Nat]

Constraint ==
  {c \in Bare \cup Marked :
     /\ c.lhs # <<>>
     /\ \A i, j \in DOMAIN c.lhs :
          i # j => c.lhs[i].lit # c.lhs[j].lit /\ c.lhs[i].lit # -c.lhs[j].lit
     /\ \A i, j \in DOMAIN c.lhs : i <= j => c.lhs[i].coef >= c.lhs[j].coef}

LitsOf(c) == {c.lhs[i].lit : i \in DOMAIN c.lhs}

MaxCoef(c) == c.lhs[1].coef

Coef(c, lit) == c.lhs[CHOOSE i \in DOMAIN c.lhs : c.lhs[i].lit = lit].coef

(* The sum of the coefficients of the literals among lits. *)
Weigh(c, lits) ==
  FoldLeft(LAMBDA n, t : IF t.lit \in lits THEN n + t.coef ELSE n, 0, c.lhs)

DivisionRoundedUp(n, d) == (n + d - 1) \div d

(* Coefficients are cut at k and divided by the gcd of those below k (by k if
   there is none: a negative k makes a clause of the constraint). *)
Simplify(c) ==
  LET divisors == {d \in 1 .. c.k : \A i \in DOMAIN c.lhs :
                                      c.lhs[i].coef < c.k => c.lhs[i].coef % d = 0}
      gcd == CHOOSE d \in divisors : \A e \in divisors : e <= d
      cut(n) == IF n > c.k THEN c.k ELSE n
      quotient(n) == IF c.k < 0 THEN 1 ELSE DivisionRoundedUp(cut(n), gcd)
  IN [c EXCEPT !.k   = quotient(c.k),
               !.lhs = [i \in DOMAIN c.lhs |-> [c.lhs[i] EXCEPT !.coef = quotient(@)]]]

-----------------------------------------------------------------------------
(* The trail. *)
TrueLits(s) == {s.trail[i].lit : i \in DOMAIN s.trail}

IsTrueLit(s, lit)  == lit \in TrueLits(s)
IsFalseLit(s, lit) == -lit \in TrueLits(s)
IsUndefLit(s, lit) == {lit, -lit} \cap TrueLits(s) = {}

Level(s) == IF s.trail = <<>> THEN 0 ELSE Last(s.trail).dl

AssignedVars(s) == Len(s.trail)

NoReason == <<"none", 0>>

(* What makes a literal true: nothing, a constraint, a clause, or the false
   literal of a binary clause. *)
Reason == {NoReason} \cup ({"PB", "clause"} \X Nat) \cup ({"bin"} \X Lits)

Assigned(lit, dl, reason) == [lit |-> lit, dl |-> dl, reason |-> reason]

Clash(s, culprit) == [s EXCEPT !.conflict = TRUE, !.culprit = culprit]

(* The literals whose falsity the counters know of. *)
Discounted(s) == {-s.trail[i].lit : i \in 1 .. s.next}

SetTrue(s, lit, reason) == [s EXCEPT !.trail = Append(@, Assigned(lit, Level(s), reason))]

(* The i-th term of c, the constraint id, if the walk over the terms has got there
   and the term is too heavy for the slack: its literal becomes true. *)
TakeTerm(c, s, id, slack, i) ==
  LET t    == c.lhs[i]
      past == [s EXCEPT !.from[id] = i + 1]
  IN IF i # s.from[id] \/ t.coef <= slack THEN s
     ELSE IF IsUndefLit(s, t.lit) THEN SetTrue(past, t.lit, <<"PB", id>>) ELSE past

(* The walk starts after the terms that were seen to since the last backjump. *)
PropagateCtr(c, s, id, slack) ==
  FoldLeft(LAMBDA r, i : TakeTerm(c, r, id, slack, i), s, [i \in DOMAIN c.lhs |-> i])

(* Once the counter of c is sum: nothing, a conflict, or literals. *)
Examine(c, s, id, sum) ==
  LET slack   == sum + MaxCoef(c)
      counted == [s EXCEPT !.sums[id] = sum]
  IN IF sum >= 0    THEN counted
     ELSE IF slack < 0 THEN Clash(counted, <<"PB", id>>)
     ELSE PropagateCtr(c, counted, id, slack)

(* The counter of constraint id, if lit occurs in it. *)
Discount(db, s, lit, id) ==
  IF s.conflict \/ lit \notin LitsOf(db[id]) THEN s
  ELSE Examine(db[id], s, id, s.sums[id] - Coef(db[id], lit))

VisitLists(db, s, lit) ==
  FoldLeft(LAMBDA r, id : Discount(db, r, lit, id), s, [id \in DOMAIN db |-> id])

(* wrong: the counters keep what the conflict interrupted *)
VisitNoRestore(db, s, lit) == VisitLists(db, s, lit)

RestoreCounters(r, sums) == IF r.conflict THEN [r EXCEPT !.sums = sums] ELSE r

(* visitPBCounterLists: lit became false.  The counters changed on the way to
   a conflict are changed back. *)
Visit(db, s, lit) == RestoreCounters(VisitLists(db, s, lit), s.sums)

(* wrong: the literal that met the conflict counts as propagated *)
PropagatedAnyway(db, s) ==
  IF s.conflict \/ s.next = Len(s.trail) THEN s
  ELSE Visit(db, [s EXCEPT !.next = @ + 1], -s.trail[s.next + 1].lit)

Unpropagate(r) == IF r.conflict THEN [r EXCEPT !.next = @ - 1] ELSE r

(* One round of propagate: a conflict leaves the literal unpropagated.  A
   conflict that was there before is met as if it were new. *)
PropagateNext(db, s) ==
  IF s.conflict \/ s.next = Len(s.trail) THEN s
  ELSE Unpropagate(Visit(db, [s EXCEPT !.next = @ + 1], -s.trail[s.next + 1].lit))

(* At most every variable is propagated. *)
Propagate(db, s) == FoldLeft(LAMBDA r, v : PropagateNext(db, r), s, [v \in Vars |-> v])

(* setTrueDueToDecision *)
Assume(s, lit) == [s EXCEPT !.trail = Append(@, Assigned(lit, Level(s) + 1, NoReason))]

AssumeAndPropagate(db, s, lit) == Propagate(db, Assume(s, lit))

-----------------------------------------------------------------------------
(* Undoing. *)

(* wrong: the variable does not return to the heap *)
PopNoInsert(db, s) ==
  LET lit == Last(s.trail).lit
      top == Len(s.trail)
  IN [s EXCEPT !.trail = Front(@),
               !.next  = IF @ = top THEN top - 1 ELSE @,
               !.sums  = [id \in DOMAIN db |->
                            IF s.next = top /\ -lit \in LitsOf(db[id])
                              THEN @[id] + Coef(db[id], -lit)
                              ELSE @[id]]]

PopAndUnassign(db, s) ==
  LET lit == Last(s.trail).lit
      top == Len(s.trail)
  IN [s EXCEPT !.trail = Front(@),
               !.heap  = @ \cup ({lit, -lit} \cap Vars),
               !.next  = IF @ = top THEN top - 1 ELSE @,
               !.sums  = [id \in DOMAIN db |->
                            IF s.next = top /\ -lit \in LitsOf(db[id])
                              THEN @[id] + Coef(db[id], -lit)
                              ELSE @[id]]]

PopAbove(db, s, dl) == IF Level(s) > dl THEN PopAndUnassign(db, s) ELSE s

(* At most every variable is unassigned. *)
PopLevels(db, s, dl) == FoldLeft(LAMBDA r, v : PopAbove(db, r, dl), s, [v \in Vars |-> v])

(* wrong: propagation goes on where it stopped before the levels were undone *)
JumpKeepsFrom(db, s, dl) == PopLevels(db, s, dl)

BackjumpToDL(db, s, dl) == [PopLevels(db, s, dl) EXCEPT !.from = [id \in DOMAIN db |-> 1]]

NoConflict(s) == [s EXCEPT !.conflict = FALSE, !.culprit = NoReason]

(* A conflict can only come from the last assumption, says its comment. *)
Backtrack(db, s, levels) ==
  IF levels = 0 THEN s
  ELSE NoConflict(BackjumpToDL(db, s, Level(s) - levels))

-----------------------------------------------------------------------------
(* A constraint joins the database.  Literals it forces join the trail; nothing
   is propagated (addPBConstraintCounter, propagateInitialConstraintCounter). *)
AddConstraint(db, s, id) ==
  LET c     == db[id]
      slack == Weigh(c, LitsOf(c) \ Discounted(s)) - c.k
      added == [s EXCEPT !.sums = Append(@, 0), !.from = Append(@, 1)]
  IN Examine(c, added, id, slack - MaxCoef(c))

NoConstraints ==
  [trail |-> <<>>, next |-> 0, sums |-> <<>>, from |-> <<>>,
   conflict |-> FALSE, culprit |-> NoReason, heap |-> Vars,
   clauses |-> <<>>, watches |-> [l \in Lits |-> <<>>], bins |-> [l \in Lits |-> <<>>]]

(* addAndPropagatePBConstraint for each constraint of the problem. *)
Database(problem) == [id \in DOMAIN problem |-> Simplify(problem[id])]

Loaded(db) ==
  FoldLeft(LAMBDA s, id : AddConstraint(db, s, id), NoConstraints, [id \in DOMAIN db |-> id])

-----------------------------------------------------------------------------
(***************************************************************************)
(* Reference definitions.                                                  *)
(***************************************************************************)
Assignments == {{IF f[v] THEN v ELSE -v : v \in Vars} : f \in [Vars -> BOOLEAN]}

Solutions(problem) ==
  {m \in Assignments : \A id \in DOMAIN problem : Weigh(problem[id], m) >= problem[id].k}

(* The counter of a constraint is its slack, as far as it is propagated, less
   its largest coefficient. *)
CountersRight(db, s) ==
  \A id \in DOMAIN db :
    s.sums[id] = Weigh(db[id], LitsOf(db[id]) \ Discounted(s)) - db[id].k - MaxCoef(db[id])

=============================================================================
