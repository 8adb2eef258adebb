-------------------------- MODULE NativeSolve_proofs --------------------------
(***************************************************************************)
(* Proofs about the native solver's search.                                *)
(***************************************************************************)
EXTENDS NativeSolve, SearchLemmas

(* The inequalities of the problems leave something when they are merged. *)
ProperInstances ==
  \A inst \in Instances : \A i \in DOMAIN inst[1].ineqs : Proper(inst[1].ineqs[i])

(* Loading keeps the meaning of every problem whose inequalities are proper,
   whatever their signs, directions, repetitions and sizes, and the search never
   comes back to the start (PBProblem::addConstraint to simplify). *)
THEOREM LoadingSound ==
  ASSUME ProperInstances
  PROVE  Spec => []LoadedRight
<1>1. Init => LoadedRight
  <2> SUFFICES ASSUME Init PROVE Feasible(problem) = Solutions(db)
    BY DEF LoadedRight
  <2>1. PICK inst \in Instances : problem = inst[1]
    BY DEF Init
  <2>2. problem \in Problem /\ \A i \in DOMAIN problem.ineqs : Proper(problem.ineqs[i])
    BY <2>1, InstancesAssumption DEF ProperInstances
  <2> DEFINE ineqs == [i \in DOMAIN problem.ineqs |-> Normalised(problem.ineqs[i])]
             S == {i \in DOMAIN problem.ineqs : ~Trivial(problem.ineqs[i])}
  <2>3. db = Picked(ineqs, S)
    BY DEF Init, LoadedConstraints
  <2>4. PICK q, R, d : q = ineqs /\ R = S /\ d = Picked(q, R)
    OBVIOUS
  <2>5. Feasible(problem) = Solutions(d)
    BY <2>2, <2>4, LoadedSolutions
  <2> QED BY <2>3, <2>4, <2>5
<1>2. LoadedRight /\ [Next]_vars => LoadedRight'
  <2> SUFFICES ASSUME LoadedRight, [Next]_vars PROVE LoadedRight'
    OBVIOUS
  <2>1. CASE UNCHANGED vars
    <3>1. UNCHANGED <<problem, db, pc>>
      BY <2>1 DEF vars, input
    <3> QED BY <3>1 DEF LoadedRight, Feasible, Solutions
  <2>2. CASE Start
    BY <2>2 DEF Start, Refuted, LoadedRight
  <2>3. CASE Propagates
    BY <2>3 DEF Propagates, Refuted, LoadedRight
  <2>4. CASE Analyse
    <3>1. pc' \in {"loop", "analyse", "error", "undefined"}
      BY <2>4 DEF Analyse, Resolves, Continues
    <3> QED BY <3>1 DEF LoadedRight
  <2>5. CASE Upkeep
    BY <2>5 DEF Upkeep, LoadedRight
  <2>6. CASE Import
    BY <2>6 DEF Import, LoadedRight
  <2>7. CASE Decide
    BY <2>7 DEF Decide, LoadedRight
  <2>8. CASE Model
    BY <2>8 DEF Model, LoadedRight
  <2>9. CASE Better
    BY <2>9 DEF Better, LoadedRight
  <2>10. CASE Stay
    BY <2>1, <2>10 DEF Stay
  <2> QED BY <2>1, <2>2, <2>3, <2>4, <2>5, <2>6, <2>7, <2>8, <2>9, <2>10 DEF Next
<1> QED BY <1>1, <1>2, PTL DEF Spec
(* Propagation, whatever clauses and constraints there are, goes on to a conflict,
   which it names truly, or until every literal has been seen by all of them; every
   literal it makes true is due to a reason that comes from the literals before it,
   no complete assignment that upholds what is known is lost, and the counters and
   watches stay right (propagate, visitPBCounterLists, visitClauseWatchList). *)
THEOREM PropagationRight ==
  ASSUME NEW d \in Databases, NEW s, Sane(d, s)
  PROVE  LET r == PropagateAll(d, s) IN
           /\ Sane(d, r) /\ Extends(r, s)
           /\ r.conflict \/ r.next = Len(r.trail)
           /\ \A i \in Len(s.trail) + 1 .. Len(r.trail) :
                Due(d, r, r.trail[i].reason, r.trail[i].lit, Before(r.trail, i))
           /\ \A m : Upholds(d, s, m) => Upholds(d, r, m)
<1>1. PICK r : r = PropagateAll(d, s)
  OBVIOUS
<1>2. Advances(d, r, s) /\ (r.conflict \/ r.next = Len(r.trail))
  BY <1>1, PropagateAllRight
<1>3. s \in States(d) /\ Orderly(s) /\ Reaches(d, r, s)
  BY <1>2 DEF Sane, Good, Advances
<1>4. \A m : Upholds(d, s, m) => Upholds(d, r, m)
  BY <1>3, ReachesUpholds
<1>5. /\ Sane(d, r) /\ Extends(r, s)
      /\ \A i \in Len(s.trail) + 1 .. Len(r.trail) :
           Due(d, r, r.trail[i].reason, r.trail[i].lit, Before(r.trail, i))
  BY <1>2, <1>3 DEF Advances, Reaches
<1> QED BY <1>1, <1>2, <1>4, <1>5

(* One iteration of conflict analysis, with any form f that is falsified, whatever is
   popped.  Either f is falsified at level 0, or the popping ends at a literal that
   f has the negation of and implies the negation of under what is left.  Then, if
   that literal was propagated, its cut with f is falsified again and implied by what
   is known and f; if it has no reason (the exit(-1) of the code) it is a decision
   taken against what f implied already (conflictAnalysisAndBackjump, applyCut). *)
THEOREM IterationRight ==
  ASSUME NEW d \in Databases, NEW s, Core(d, s), NEW f \in Forms, Slack(f, s) < 0,
         NEW p, p = Popped(d, s, f),
         NEW cut, cut = FalsifiedCut(Magnitude(p.top.lit), f,
                                     WConstraint(d, p.s, p.top.reason, p.top.lit), p.s)
  PROVE  /\ Core(d, p.s)
         /\ \A m : Upholds(d, s, m) => Upholds(d, p.s, m)
         /\ \/ Level(p.s) = 0 /\ Slack(f, p.s) < 0
            \/ /\ Slack(f, p.s) >= 0
               /\ Pushes(f, Magnitude(p.top.lit), TrueLits(p.s))
               /\ LitOf(f, Magnitude(p.top.lit)) = -p.top.lit
               /\ p.top.reason # NoReason =>
                    /\ IsFalsified(cut.form, TrueLits(p.s))
                    /\ \A m : Upholds(d, s, m) /\ Admits(f, m) => Admits(cut.form, m)
<1>1. PICK t : t = p.s
  OBVIOUS
<1>2. /\ Core(d, t) /\ \A m : Upholds(d, s, m) => Upholds(d, t, m)
      /\ Slack(f, t) < 0 => Level(t) = 0
      /\ Slack(f, t) >= 0 =>
           \E lit \in Lits, x \in Vars :
             /\ lit = p.top.lit /\ x = Magnitude(lit)
             /\ Pushes(f, x, TrueLits(t)) /\ LitOf(f, x) = -lit
             /\ p.top.reason # NoReason =>
                  Due(d, t, p.top.reason, lit, TrueLits(t)) /\ lit \notin TrueLits(t)
  BY <1>1, PoppedRight
<1>3. Slack(f, t) \in Int
  BY SlackType DEF Slack
<1>4. ASSUME Slack(f, t) >= 0
      PROVE  /\ Pushes(f, Magnitude(p.top.lit), TrueLits(t))
             /\ LitOf(f, Magnitude(p.top.lit)) = -p.top.lit
             /\ p.top.reason # NoReason =>
                  /\ IsFalsified(cut.form, TrueLits(t))
                  /\ \A m : Upholds(d, s, m) /\ Admits(f, m) => Admits(cut.form, m)
  <2>1. PICK lit \in Lits, x \in Vars :
          /\ lit = p.top.lit /\ x = Magnitude(lit)
          /\ Pushes(f, x, TrueLits(t)) /\ LitOf(f, x) = -lit
          /\ p.top.reason # NoReason =>
               Due(d, t, p.top.reason, lit, TrueLits(t)) /\ lit \notin TrueLits(t)
    BY <1>2, <1>4
  <2>2. PICK why : why = p.top.reason
    OBVIOUS
  <2>3. cut = FalsifiedCut(x, f, WConstraint(d, t, why, lit), t)
    BY <1>1, <2>1, <2>2
  <2>4. ASSUME why # NoReason
        PROVE  /\ IsFalsified(cut.form, TrueLits(t))
               /\ \A m : Upholds(d, t, m) /\ Admits(f, m) => Admits(cut.form, m)
    <3>1. Due(d, t, why, lit, TrueLits(t)) /\ lit \notin TrueLits(t)
      BY <2>1, <2>2, <2>4
    <3> QED BY <1>2, <2>1, <2>3, <2>4, <3>1, AnalyseCut
  <2>5. p.top.reason # NoReason =>
          /\ IsFalsified(cut.form, TrueLits(t))
          /\ \A m : Upholds(d, s, m) /\ Admits(f, m) => Admits(cut.form, m)
    BY <1>2, <2>2, <2>4
  <2> QED BY <2>1, <2>5
<1>5. CASE Slack(f, t) < 0
  BY <1>1, <1>2, <1>5
<1>6. CASE Slack(f, t) >= 0
  BY <1>1, <1>2, <1>4, <1>6
<1> QED BY <1>3, <1>5, <1>6
=============================================================================
