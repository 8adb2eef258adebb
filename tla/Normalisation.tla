--------------------------- MODULE Normalisation ---------------------------
(***************************************************************************)
(* From the constraints and the objective of the input to those of the     *)
(* native solver (Parser.cpp, build_linear_geq_parts, WConstraint.h and    *)
(* Solver::addObjectiveFunction).                                          *)
(*                                                                         *)
(* An inequality is [terms, geq, rhs]: a sequence of terms [coef, var] in  *)
(* which coefficients have signs and variables may recur.  A form [k, w]   *)
(* is a constraint whose terms are merged: w[v] is the coefficient of v if *)
(* it is positive, that of its negation, negated, if it is negative, and 0 *)
(* if v does not occur.                                                    *)
(***************************************************************************)
EXTENDS PBSolver, FiniteSetsExt

Magnitude(n) == IF n < 0 THEN -n ELSE n
Lesser(m, n) == IF m < n THEN m ELSE n

(* The members of S in the order R, a set of pairs, the first before the second. *)
Ordered(S, R) ==
  [i \in 1 .. Cardinality(S) |->
     CHOOSE x \in S : Cardinality({y \in S : <<y, x>> \in R}) = i - 1]

(* What seq has at the positions in S. *)
Picked(seq, S) ==
  LET order == Ordered(S, {p \in S \X S : p[1] < p[2]})
  IN [n \in DOMAIN order |-> seq[order[n]]]

-----------------------------------------------------------------------------
(* Forms. *)
Used(f) == {v \in Vars : f.w[v] # 0}

LitOf(f, v) == IF f.w[v] > 0 THEN v ELSE -v

FormLits(f) == {LitOf(f, v) : v \in Used(f)}

Weights(f) == [v \in Vars |-> Magnitude(f.w[v])]

IsClause(f) == f.k = 1 /\ \A v \in Used(f) : f.w[v] \in {1, -1}

(* sortByDecreasingCoefficient, from the order of the variables. *)
Terms(f) ==
  LET heavier(u, v) == \/ Weights(f)[u] > Weights(f)[v]
                       \/ Weights(f)[u] = Weights(f)[v] /\ u < v
      order == Ordered(Used(f), {p \in Used(f) \X Used(f) : heavier(p[1], p[2])})
  IN [i \in DOMAIN order |-> [coef |-> Magnitude(f.w[order[i]]), lit |-> LitOf(f, order[i])]]

(* The constraint of the database, as a form. *)
Form(c) ==
  [k |-> c.k,
   w |-> [v \in Vars |-> IF v \in LitsOf(c) THEN Coef(c, v)
                         ELSE IF -v \in LitsOf(c) THEN -Coef(c, -v)
                         ELSE 0]]

ClauseForm(lits) ==
  [k |-> 1, w |-> [v \in Vars |-> IF v \in lits THEN 1 ELSE IF -v \in lits THEN -1 ELSE 0]]

NoForm == [k |-> 0, w |-> [v \in Vars |-> 0]]

-----------------------------------------------------------------------------
(* The input: coefficients have signs and variables may recur.  A problem
   without terms in the objective has none. *)
InputTerm  == [coef : Int, var : Vars]
Inequality == [terms : Seq(InputTerm), geq : BOOLEAN, rhs : Int]
Problem    == [ineqs : Seq(Inequality), objective : Seq(InputTerm), minimise : BOOLEAN]

(* What the terms give a literal in all, when the inequality is turned by sign
   and its negative coefficients move to the negated literals. *)
Gathered(terms, sign, lit) ==
  FoldLeft(LAMBDA n, t : IF t.var = Magnitude(lit) /\ sign * t.coef * lit > 0
                           THEN n + Magnitude(t.coef) ELSE n,
           0, terms)

(* The constant that results. *)
MovedRhs(terms, sign, rhs) ==
  sign * rhs + SumFunctionOnSet([v \in Vars |-> Gathered(terms, sign, -v)], Vars)

(* What the opposite literals of each variable have in common. *)
InCommon(terms, sign) ==
  [v \in Vars |-> Lesser(Gathered(terms, sign, v), Gathered(terms, sign, -v))]

(* wrong: what opposite literals have in common is not taken off *)
MergedOnly(terms, sign, rhs) ==
  [k |-> MovedRhs(terms, sign, rhs),
   w |-> [v \in Vars |-> Gathered(terms, sign, v) - Gathered(terms, sign, -v)]]

(* removeDuplicates *)
Merged(terms, sign, rhs) ==
  [k |-> MovedRhs(terms, sign, rhs) - SumFunctionOnSet(InCommon(terms, sign), Vars),
   w |-> [v \in Vars |-> Gathered(terms, sign, v) - Gathered(terms, sign, -v)]]

Sign(ineq) == IF ineq.geq THEN 1 ELSE -1

(* "Trivially true": such inequalities are dropped, before terms are merged. *)
Trivial(ineq) == MovedRhs(ineq.terms, Sign(ineq), ineq.rhs) < 1

(* An initial constraint of the database. *)
Initial(f) == [k |-> f.k, lhs |-> Terms(f), init |-> TRUE, lbd |-> 0]

FormOf(ineq) == Merged(ineq.terms, Sign(ineq), ineq.rhs)

Normalised(ineq) == Simplify(Initial(FormOf(ineq)))

(* What is not seen to be trivial still asks for something once its terms are
   merged, and has terms left. *)
Proper(ineq) == Trivial(ineq) \/ (FormOf(ineq).k > 0 /\ Used(FormOf(ineq)) # {})

-----------------------------------------------------------------------------
HasObjective(p) == p.objective # <<>>

ObjectiveSign(p) == IF p.minimise THEN -1 ELSE 1

(* The terms of the literals that loading has not assigned. *)
TermsOfRest(f, s) ==
  Picked(Terms(f), {i \in DOMAIN Terms(f) : IsUndefLit(s, Terms(f)[i].lit)})

(* wrong: what the literals that loading made true contribute is lost *)
ObjectiveOfRest(p, s) ==
  LET f == Merged(p.objective, ObjectiveSign(p), 0)
  IN [lhs |-> TermsOfRest(f, s), constant |-> -f.k]

(* The objective is maximised.  Literals that loading has assigned leave it. *)
Objective(p, s) ==
  LET f == Merged(p.objective, ObjectiveSign(p), 0)
  IN [lhs |-> TermsOfRest(f, s),
      constant |-> SumFunctionOnSet(Weights(f), {v \in Used(f) : LitOf(f, v) \in TrueLits(s)})
                     - f.k]

(* if minimizing and bestCost = B, force obj <= B-1; maximizing, obj >= B+1 *)
BoundInequality(p, cost) ==
  [terms |-> p.objective, geq |-> ~p.minimise,
   rhs |-> IF p.minimise THEN cost - 1 ELSE cost + 1]

-----------------------------------------------------------------------------
(***************************************************************************)
(* Reference definitions.                                                  *)
(***************************************************************************)
(* The sum of the terms under the assignment m. *)
Value(terms, m) == FoldLeft(LAMBDA n, t : IF t.var \in m THEN n + t.coef ELSE n, 0, terms)

Holds(ineq, m) ==
  IF ineq.geq THEN Value(ineq.terms, m) >= ineq.rhs ELSE Value(ineq.terms, m) <= ineq.rhs

Feasible(p) == {m \in Assignments : \A i \in DOMAIN p.ineqs : Holds(p.ineqs[i], m)}

CostOf(p, m) == Value(p.objective, m)

Cheaper(p, c, d) == IF p.minimise THEN c < d ELSE c > d

=============================================================================
