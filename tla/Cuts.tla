-------------------------------- MODULE Cuts --------------------------------
(***************************************************************************)
(* The arithmetic of conflict analysis (ConflictAnalysis.cpp): cuts of two *)
(* forms that eliminate a variable, their weakening to clauses, and the    *)
(* level to jump back to.                                                  *)
(*                                                                         *)
(* CutLimit stands for 2^30: a cut is computed in int, up to 2^31 - 1,     *)
(* when the product of the constants is below it, and in long long, up to  *)
(* 2^63 - 1, otherwise; a result with a larger constant is given up.       *)
(***************************************************************************)
EXTENDS Normalisation

CONSTANT CutLimit

ASSUME LimitAssumption == CutLimit \in Nat \ {0}

IntMax  == 2 * CutLimit - 1
LongMax == 8 * CutLimit * CutLimit - 1

-----------------------------------------------------------------------------
(* A form under an assignment. *)
DLOfLit(s, lit) ==
  s.trail[CHOOSE i \in DOMAIN s.trail : Magnitude(s.trail[i].lit) = Magnitude(lit)].dl

SlackUnder(f, true) ==
  SumFunctionOnSet(Weights(f), {v \in Used(f) : -LitOf(f, v) \notin true}) - f.k

Slack(f, s) == SlackUnder(f, TrueLits(s))

(* removeUnits: the literals of level 0 go. *)
RemoveUnits(f, s) ==
  LET units == {v \in Used(f) : ~IsUndefLit(s, v) /\ DLOfLit(s, v) = 0}
      true  == {v \in units : LitOf(f, v) \in TrueLits(s)}
  IN [k |-> f.k - SumFunctionOnSet(Weights(f), true),
      w |-> [v \in Vars |-> IF v \in units THEN 0 ELSE f.w[v]]]

-----------------------------------------------------------------------------
(* Cuts. *)
GCD(m, n) == Max({d \in 1 .. Lesser(m, n) : m % d = 0 /\ n % d = 0})

(* What a constraint with coefficient a is multiplied with, to meet one with
   coefficient b. *)
Multiplier(a, b) == b \div GCD(a, b)

(* What literals of opposite sign cancel. *)
Cancelled(c1, c2, m1, m2) ==
  SumFunctionOnSet([v \in Vars |-> Lesser(m1 * Weights(c1)[v], m2 * Weights(c2)[v])],
                   {v \in Vars : c1.w[v] * c2.w[v] < 0})

Combined(c1, c2, m1, m2) ==
  [k |-> m1 * c1.k + m2 * c2.k - Cancelled(c1, c2, m1, m2),
   w |-> [v \in Vars |-> m1 * c1.w[v] + m2 * c2.w[v]]]

(* The gcd of the coefficients up to the constant; the constant if there is
   none. *)
CommonDivisor(f) ==
  LET light == {Magnitude(f.w[v]) : v \in {u \in Used(f) : Magnitude(f.w[u]) <= f.k}}
  IN IF light = {} THEN f.k
     ELSE Max({d \in 1 .. Min(light) : \A n \in light : n % d = 0})

(* wrong: the coefficients are rounded down *)
RoundedDown(f, d) ==
  LET k == DivisionRoundedUp(f.k, d)
      cut(n) == Lesser(n \div d, k)
  IN [k |-> k,
      w |-> [v \in Vars |-> IF f.w[v] < 0 THEN -cut(-f.w[v]) ELSE cut(f.w[v])]]

(* Division, and shaving to the constant. *)
Divided(f, d) ==
  LET k == DivisionRoundedUp(f.k, d)
      cut(n) == Lesser(DivisionRoundedUp(n, d), k)
  IN [k |-> k,
      w |-> [v \in Vars |-> IF f.w[v] < 0 THEN -cut(-f.w[v]) ELSE cut(f.w[v])]]

(* wrong: a cut is computed in int whatever the constants *)
AlwaysInt(c1, c2) == TRUE

ComputedInInt(c1, c2) == c1.k * c2.k < CutLimit

TypeMax(c1, c2) == IF ComputedInInt(c1, c2) THEN IntMax ELSE LongMax

(* The products and sums of the result stay in a type that ends at max. *)
ResultFits(c1, c2, m1, m2, max) ==
  /\ m1 * c1.k + m2 * c2.k <= max
  /\ \A v \in Vars :
       /\ m1 * Magnitude(c1.w[v]) <= max
       /\ m2 * Magnitude(c2.w[v]) <= max
       /\ Magnitude(m1 * c1.w[v] + m2 * c2.w[v]) <= max

(* So does newConstant, which first goes below zero by all that is cancelled. *)
FitsType(c1, c2, m1, m2) ==
  /\ ResultFits(c1, c2, m1, m2, TypeMax(c1, c2))
  /\ Cancelled(c1, c2, m1, m2) <= TypeMax(c1, c2) + 1

(* Saturated: no coefficient is larger than the constant. *)
Saturated(f) == \A v \in Vars : Magnitude(f.w[v]) <= f.k

(* What is left of a sum of constraints.  overflow: it is a tautology, or its
   constant is too large. *)
Normed(f) ==
  IF f.k <= 0 THEN [overflow |-> TRUE, form |-> f]
  ELSE IF Used(f) = {} THEN [overflow |-> FALSE, form |-> [f EXCEPT !.k = 1]]
  ELSE LET g == Divided(f, CommonDivisor(f))
       IN [overflow |-> g.k > CutLimit, form |-> g]

(* applyCut.  clash: the two have another variable in common. *)
ApplyCut(x, c1, c2) ==
  LET m1 == Multiplier(Magnitude(c1.w[x]), Magnitude(c2.w[x]))
      m2 == Multiplier(Magnitude(c2.w[x]), Magnitude(c1.w[x]))
      cut == Normed(Combined(c1, c2, m1, m2))
  IN [overflow |-> cut.overflow, form |-> cut.form,
      clash |-> (Used(c1) \cap Used(c2)) \ {x} # {},
      fits  |-> FitsType(c1, c2, m1, m2)]

(* wrong: one literal less than what makes the constraint propagate *)
EnoughFalse(rest) == rest > 0

(* More false literals are needed as long as the others satisfy the rest. *)
NeedsMore(rest) == rest >= 0

(* fixRoundingProblemSAT: a clause of the literal of x and of so many false
   ones, in the order of the variables, that f propagates the former. *)
FixRounding(f, x, s) ==
  LET rest == SumFunctionOnSet(Weights(f), Used(f) \ {x}) - f.k
      take(r, v) ==
        IF v \in Used(f) \ {x} /\ IsFalseLit(s, LitOf(f, v)) /\ NeedsMore(r.rest)
          THEN [lits |-> r.lits \cup {LitOf(f, v)}, rest |-> r.rest - Magnitude(f.w[v])]
          ELSE r
  IN ClauseForm(FoldLeft(take, [lits |-> {LitOf(f, x)}, rest |-> rest],
                         [v \in Vars |-> v]).lits)

-----------------------------------------------------------------------------
(* How far to jump back, with a form that is falsified. *)
LevelsOf(f, s) == {DLOfLit(s, v) : v \in {u \in Used(f) : ~IsUndefLit(s, u)}}

NoLevel == -1

NextLower(levels, d) == Max({0} \cup {e \in levels : e < d})

(* lowestDLAtWhichClausePropagatesOrConflicting *)
LowestDLOfClause(f, s) ==
  LET levels == LevelsOf(f, s)
      top    == Max(levels)
      alone  == Cardinality({v \in Used(f) : DLOfLit(s, v) = top}) = 1
  IN IF alone THEN NextLower(levels, top)
     ELSE IF top # Level(s) THEN top
     ELSE NoLevel

(* The assignment after the levels from d on are undone. *)
TrueBelow(s, d) == {s.trail[i].lit : i \in {j \in DOMAIN s.trail : s.trail[j].dl < d}}

(* f is falsified, or has a literal that is undefined and heavier than the slack. *)
PropagatesUnder(f, true) ==
  \/ SlackUnder(f, true) < 0
  \/ \E v \in Used(f) : {v, -v} \cap true = {} /\ SlackUnder(f, true) < Weights(f)[v]

LowestDLOfPB(f, s) ==
  LET levels == LevelsOf(f, s) \cup {0}
      early  == {NextLower(levels, d) :
                   d \in {e \in levels \ {0} : PropagatesUnder(f, TrueBelow(s, e))}}
      best   == IF early = {} THEN Max(levels) ELSE Min(early)
  IN IF best = Level(s) THEN NoLevel ELSE best

(* lowestDLAtWhichConstraintPropagatesOrConflicting *)
LowestDL(f, s) == IF IsClause(f) THEN LowestDLOfClause(f, s) ELSE LowestDLOfPB(f, s)

(* computeLBD *)
LBD(f, s) == Cardinality(LevelsOf(f, s) \ {0})

=============================================================================
