---------------------------- MODULE MCNativeSolve ----------------------------
(* Small instances of NativeSolve for TLC. *)
EXTENDS NativeSolve

Times(coef, var) == [coef |-> coef, var |-> var]

(* Coefficients by variable; 0 for none. *)
Row(coefs) == SelectSeq([v \in DOMAIN coefs |-> Times(coefs[v], v)], LAMBDA t : t.coef # 0)

AtLeast(coefs, rhs) == [terms |-> Row(coefs), geq |-> TRUE, rhs |-> rhs]
AtMost(coefs, rhs)  == [terms |-> Row(coefs), geq |-> FALSE, rhs |-> rhs]

Minimise(ineqs, coefs) == [ineqs |-> ineqs, objective |-> Row(coefs), minimise |-> TRUE]
Maximise(ineqs, coefs) == [Minimise(ineqs, coefs) EXCEPT !.minimise = FALSE]
Decision(ineqs) == Minimise(ineqs, <<>>)

Unsatisfiable ==
  Decision(<<AtLeast(<<1, 1, 0, 0>>, 1), AtLeast(<<-1, 1, 0, 0>>, 0),
             AtLeast(<<1, -1, 0, 0>>, 0), AtLeast(<<-2, -2, 1, 1>>, -2)>>)

(* Opposite terms of one variable, a literal that loading assigns, a trivial
   inequality. *)
Redundancies ==
  [ineqs |-> <<[terms |-> <<Times(2, 1), Times(3, 3), Times(-3, 1), Times(2, 2)>>,
                geq |-> TRUE, rhs |-> 3],
               AtLeast(<<0, 0, 0, 3>>, 2), AtMost(<<1, 1, 1, 1>>, 4)>>,
   objective |-> <<Times(2, 2), Times(1, 3), Times(-1, 2), Times(-1, 1), Times(-5, 4)>>,
   minimise |-> TRUE]

SmallInstances == {
  <<Redundancies, TRUE>>,
  <<Unsatisfiable, TRUE>>,
  <<Decision(<<AtLeast(<<1, 1, 1, 1>>, 2), AtLeast(<<-1, -1, -1, 0>>, -1),
               AtMost(<<2, 1, 0, 3>>, 3), AtLeast(<<-2, 1, 1, 1>>, 0)>>), FALSE>>,
  <<Minimise(<<AtLeast(<<0, 2, -2, 4>>, 2), AtLeast(<<3, -4, -1, -3>>, -3),
               AtMost(<<4, -2, 3, 4>>, 4)>>, <<-4, -2, -3, -2>>), TRUE>>,
  <<Maximise(<<AtLeast(<<-2, -1, 1, 2>>, -1), AtLeast(<<-1, -2, -1, 2>>, -2),
               AtLeast(<<-1, -2, -1, 2>>, 0), AtLeast(<<-1, -1, -1, 2>>, -2),
               AtLeast(<<2, 2, -2, -1>>, 1)>>, <<-2, -1, 1, 1>>), TRUE>>,
  <<Minimise(<<AtLeast(<<1, 2, -1, -1>>, 1), AtLeast(<<2, -1, -1, 2>>, 1),
               AtMost(<<2, 2, 2, 1>>, 5), AtLeast(<<0, 2, 2, -1>>, 2)>>, <<-1, -2, -1, 0>>), TRUE>>,
  <<Minimise(<<AtLeast(<<0, 2, -2, 1>>, 0), AtLeast(<<-2, -1, 0, -2>>, -3),
               AtLeast(<<2, -2, -2, -2>>, -1), AtLeast(<<-1, 2, 0, -2>>, 0)>>,
             <<2, -1, -1, -2>>), FALSE>>,
  (* here learned clauses and constraints are deleted by a cleanup *)
  <<Minimise(<<AtLeast(<<3, 3, 4, -1>>, 6), AtMost(<<0, 2, 2, 4>>, 4),
               AtLeast(<<2, 0, -3, -3>>, -1)>>, <<1, 3, 1, -3>>), FALSE>>,
  (* and here a cut of the objective's constraint leaves its integer type *)
  <<Minimise(<<AtLeast(<<0, 3, 0, -4>>, -1), AtLeast(<<-3, 0, 4, -3>>, 0),
               AtLeast(<<4, -2, 3, -2>>, 1), AtLeast(<<0, 4, 1, -2>>, 1),
               AtLeast(<<4, 0, 0, 3>>, 3)>>, <<4, 4, 0, 2>>), FALSE>>}

(* The theorems about the search speak of these. *)
ASSUME SmallInstancesProper ==
  \A inst \in SmallInstances : \A i \in DOMAIN inst[1].ineqs : Proper(inst[1].ineqs[i])

(* 3 x1 - 3 x1 + x2 >= -2, which always holds. *)
OppositeTerms ==
  [ineqs |-> <<[terms |-> <<Times(3, 1), Times(-3, 1), Times(1, 2)>>, geq |-> TRUE, rhs |-> -2]>>,
   objective |-> <<Times(1, 2)>>, minimise |-> TRUE]

RepeatedTerms == {<<OppositeTerms, TRUE>>}

(* 5 x1 + 4 x2 + 5 x3 + 3 x4 >= 5 and 3 ~x1 + 3 ~x2 + 2 ~x3 + x4 >= 3, both
   saturated: three literals of opposite signs meet. *)
OppositeSigns == Decision(<<AtLeast(<<5, 4, 5, 3>>, 5), AtLeast(<<-3, -3, -2, 1>>, -5)>>)

Opposites == {<<OppositeSigns, TRUE>>}
=============================================================================
