-------------------------- MODULE MCCubeGeneration --------------------------
(* Small instances of CubeGeneration for TLC. *)
EXTENDS CubeGeneration

Times(coef, lit) == [coef |-> coef, lit |-> lit]
Clause(lits) == [k |-> 1, lhs |-> [i \in DOMAIN lits |-> Times(1, lits[i])]]
AtLeast(k, lits) == [Clause(lits) EXCEPT !.k = k]

(* Unit clauses, implications, a cardinality constraint, constraints that
   Simplify changes, one that forces every variable and one that is false. *)
Pool == {
  Clause(<<1>>), Clause(<<-2>>),
  Clause(<<1, 2>>), Clause(<<-1, 2>>),
  AtLeast(2, <<1, 2, 3>>), AtLeast(3, <<1, 2, 3>>), AtLeast(3, <<1, 2>>),
  [k |-> 3, lhs |-> <<Times(4, -1), Times(2, 2), Times(2, 3)>>]}

(* Problems with more conflicts: contradictions that only look-ahead finds, and
   units whose consequences are pending when it starts. *)
Longer == {
  <<Clause(<<1, 2>>), Clause(<<-1, 2>>), Clause(<<1, -2>>)>>,
  <<Clause(<<1, 2>>), Clause(<<-1, 2>>), Clause(<<1, -2>>), Clause(<<-1, -2>>)>>,
  <<Clause(<<1>>), Clause(<<-1, 2>>), Clause(<<-2, 3>>)>>,
  <<Clause(<<1>>), Clause(<<-1, 2>>), Clause(<<-1, -2>>)>>,
  <<Clause(<<1, 2, 3>>), Clause(<<-1, -2>>), Clause(<<-1, -3>>), Clause(<<-2, -3>>)>>,
  <<AtLeast(2, <<1, 2, 3>>), AtLeast(2, <<-1, -2, -3>>)>>,
  <<[k |-> 4, lhs |-> <<Times(4, 3), Times(2, -2), Times(2, 1)>>], Clause(<<-3, 2>>)>>,
  <<[k |-> 5, lhs |-> <<Times(4, 1), Times(3, -2), Times(2, 3)>>], Clause(<<-1, 2, -3>>)>>}

SmallProblems == UNION {[1 .. n -> Pool] : n \in 1 .. 2} \cup Longer
WeightLast == [v \in Vars |-> IF v = NumVars THEN 2 ELSE 0]
=============================================================================
