---------------------------- MODULE NativeSolve ----------------------------
(***************************************************************************)
(* Solver::solve of the native solver: branch and bound with conflict      *)
(* analysis, restarts, cleanups, and bounds from other workers, from the   *)
(* loaded problem to the status it returns (Solver.cpp, NativeBackend.cpp, *)
(* Branching.cpp).                                                         *)
(*                                                                         *)
(* pc says where solve is: "start", "loop" (propagation), "analyse",       *)
(* "upkeep" (restart, cleanup, callback), "import", "decide", "done";      *)
(* "error" is its exit(-1), and in "undefined" a cut has left its integer  *)
(* type and nothing is known of what follows.                              *)
(***************************************************************************)
EXTENDS ConflictAnalysis, Cleanup

CONSTANTS
  None,
  Instances,      (* <<[ineqs, objective, minimise], BT0>>; BT0 is TRUE in
                     cubePB and FALSE in pbsat *)
  MaxRestarts, MaxCleanups, MaxImports   (* how often each may happen *)

ASSUME InstancesAssumption == Instances \subseteq (Problem \X BOOLEAN)

ASSUME BudgetAssumption ==
  MaxRestarts \in Nat /\ MaxCleanups \in Nat /\ MaxImports \in Nat

VARIABLES
  problem, bt0,
  db, solver,
  objective,      (* [lhs, constant], maximised *)
  objNum,         (* the constraint that asks for better solutions; 0: none *)
  pc, status,
  confl,          (* cCtr, during analysis *)
  short,          (* learnedShortConstraints *)
  best,           (* costOfBestSolution *)
  lastSolution,
  imported,       (* the costs imported; the last is last_imported_best *)
  restarts, cleanups

input    == <<problem, bt0, objective>>
answer   == <<status, best, lastSolution>>
counts   == <<restarts, cleanups>>
vars     == <<input, db, solver, objNum, pc, answer, confl, short, imported, counts>>

-----------------------------------------------------------------------------
LoadedConstraints(p) ==
  Picked([i \in DOMAIN p.ineqs |-> Normalised(p.ineqs[i])],
         {i \in DOMAIN p.ineqs : ~Trivial(p.ineqs[i])})

Init ==
  /\ \E inst \in Instances : problem = inst[1] /\ bt0 = inst[2]
  /\ db = LoadedConstraints(problem)
  /\ solver = Loaded(db)
  /\ objective = Objective(problem, solver)
  /\ objNum = 0
  /\ pc = "start"
  /\ status = "NO_SOLUTION_FOUND" /\ best = None /\ lastSolution = {}
  /\ confl = NoForm /\ short = {}
  /\ imported = {} /\ restarts = 0 /\ cleanups = 0

(* updateStatusConflictAtDLZero *)
Verdict == IF best = None THEN "INFEASIBLE" ELSE "OPTIMUM_FOUND"

Refuted(s) ==
  /\ solver' = s
  /\ status' = Verdict
  /\ pc' = "done"
  /\ UNCHANGED <<db, objNum, best, lastSolution>>

(* The problem is propagated, and its constraints sorted into constraints,
   clauses and binary clauses. *)
Start ==
  /\ pc = "start"
  /\ \E s \in {PropagateAll(db, solver)} :
       IF s.conflict THEN Refuted(s)
       ELSE \E c \in {Cleaned(db, s, objNum, {})} :
              /\ db' = c.db /\ solver' = c.s /\ objNum' = c.obj
              /\ pc' = "loop"
              /\ UNCHANGED answer
  /\ UNCHANGED <<input, confl, short, imported, counts>>

Propagates ==
  /\ pc = "loop"
  /\ \E s \in {PropagateAll(db, solver)} :
       IF s.conflict /\ Level(s) = 0
         THEN Refuted(s) /\ UNCHANGED confl
         ELSE /\ solver' = s
              /\ pc' = IF s.conflict THEN "analyse" ELSE "upkeep"
              /\ confl' = IF s.conflict THEN Falsified(db, s) ELSE NoForm
              /\ UNCHANGED <<db, objNum, answer>>
  /\ UNCHANGED <<input, short, imported, counts>>

-----------------------------------------------------------------------------
(* Where the analysis goes on from a. *)
Continues(a) ==
  /\ db' = a.db /\ solver' = a.s /\ confl' = a.confl /\ short' = a.short
  /\ pc' = IF a.confl = NoForm THEN "loop" ELSE "analyse"

(* The cut of confl with the reason of the literal at the top, which then is
   learned at a lower level, or is the next to be cut. *)
Resolves(s, cut) ==
  IF ~cut.fits
    THEN pc' = "undefined" /\ UNCHANGED <<db, solver, confl, short>>
  ELSE IF Used(cut.form) = {}
    THEN Continues([db |-> db, s |-> BackjumpToDL(db, s, 0), confl |-> NoForm, short |-> short])
  ELSE Continues(Jumped([db |-> db, s |-> s, confl |-> confl, short |-> short], cut))

(* One iteration of conflictAnalysisAndBackjump. *)
Analyse ==
  /\ pc = "analyse"
  /\ \E p \in {Popped(db, solver, confl)} :
       LET lit == p.top.lit
       IN IF Slack(confl, p.s) < 0
            THEN Continues([db |-> db, s |-> p.s, confl |-> NoForm, short |-> short])
          ELSE IF p.top.reason = NoReason
            THEN pc' = "error" /\ UNCHANGED <<db, solver, confl, short>>
          ELSE \E cut \in {FalsifiedCut(Magnitude(lit), confl,
                                        WConstraint(db, p.s, p.top.reason, lit), p.s)} :
                 Resolves(p.s, cut)
  /\ UNCHANGED <<input, objNum, answer, imported, counts>>

-----------------------------------------------------------------------------
(* Restart, cleanup, and then the callback, which may stop the search. *)
Upkeep ==
  /\ pc = "upkeep"
  /\ \E restart, reduce \in BOOLEAN :
       /\ restart => restarts < MaxRestarts
       /\ reduce  => cleanups < MaxCleanups
       /\ restarts' = restarts + (IF restart THEN 1 ELSE 0)
       /\ cleanups' = cleanups + (IF reduce THEN 1 ELSE 0)
       /\ \E s \in {IF restart \/ reduce THEN BackjumpToDL(db, solver, 0) ELSE solver} :
            \/ /\ reduce
               /\ \E gone \in Deletions(db, s, objNum) :
                    \E c \in {Cleaned(db, s, objNum, gone)} :
                      db' = c.db /\ solver' = c.s /\ objNum' = c.obj
            \/ /\ ~reduce
               /\ solver' = s
               /\ UNCHANGED <<db, objNum>>
  /\ pc' \in {"done", IF Level(solver') = 0 THEN "import" ELSE "decide"}
  /\ UNCHANGED <<input, answer, confl, short, imported>>

(* The cost of some solution that another worker found and the master told. *)
News ==
  {c \in {CostOf(problem, m) : m \in Feasible(problem)} :
     /\ bt0 /\ HasObjective(problem) /\ Cardinality(imported) < MaxImports
     /\ \A d \in imported : c < d}

(* import_external_constraints: nothing new, or a bound. *)
Import ==
  /\ pc = "import"
  /\ \/ pc' = "decide" /\ UNCHANGED <<db, solver, imported, objNum, answer>>
     \/ \E cost \in News :
          LET ineq  == BoundInequality(problem, cost)
              more  == IF Trivial(ineq) THEN db ELSE Append(db, Normalised(ineq))
              added == IF Trivial(ineq) THEN solver ELSE AddConstraint(more, solver, Len(more))
          IN /\ imported' = imported \cup {cost}
             /\ \E s \in {PropagateAll(more, added)} :
                  /\ db' = more /\ solver' = s
                  /\ pc' = IF s.conflict THEN "done" ELSE "decide"
                  /\ status' = IF s.conflict THEN Verdict ELSE status
             /\ UNCHANGED <<objNum, best, lastSolution>>
  /\ UNCHANGED <<input, confl, short, counts>>

-----------------------------------------------------------------------------
UndefVars == {v \in Vars : IsUndefLit(solver, v)}

(* getNextDecisionVar and takeDecisionForVar: a random variable, or the largest
   of the heap once assigned ones are dropped; either value. *)
Decide ==
  /\ pc = "decide"
  /\ \E v \in UndefVars, dropped \in SUBSET (solver.heap \ UndefVars) :
       /\ solver.heap # {}
       /\ v \notin solver.heap => dropped = {}
       /\ \E lit \in {v, -v} :
            solver' = Assume([solver EXCEPT !.heap = @ \ dropped], lit)
  /\ pc' = "loop"
  /\ UNCHANGED <<input, db, objNum, answer, confl, short, imported, counts>>

(* The heap is exhausted.  A problem without an objective is solved. *)
Model ==
  /\ pc = "decide" /\ solver.heap \cap UndefVars = {}
  /\ ~HasObjective(problem)
  /\ status' = "OPTIMUM_FOUND"
  /\ pc' = "done"
  /\ UNCHANGED <<input, db, solver, objNum, best, lastSolution, confl, short, imported, counts>>

(* The sum that a solution reaches. *)
GainOf(s) == Weigh([k |-> 0, lhs |-> objective.lhs], TrueLits(s))

Improving(rhs) == [k |-> rhs, lhs |-> objective.lhs, init |-> TRUE, lbd |-> 0]

(* wrong: equally good solutions are asked for *)
NotWorse(sum) == sum

(* The least sum of a better solution. *)
Improved(sum) == sum + 1

(* The solver s jumps back to where a constraint with this form propagates. *)
JumpsTo(s, f) ==
  LET dl == LowestDL(f, s)
  IN IF Level(s) = 0 \/ dl = NoLevel THEN s ELSE BackjumpToDL(db, s, dl)

(* wrong: the counter is not adjusted to the new constant *)
ConstantOnly(s, rhs) == s

(* The constant of the objective's constraint grows, so its counter falls. *)
ObjectiveRaised(s, rhs) == [s EXCEPT !.sums[objNum] = @ + db[objNum].k - rhs]

(* The constraint for better solutions joins the database, or is raised in it. *)
AsksForBetter(s, rhs) ==
  IF objNum = 0
    THEN \E back \in {JumpsTo(s, Form(Improving(rhs)))} :
           /\ db' = Append(db, Improving(rhs))
           /\ solver' = AddConstraint(db', back, Len(db'))
           /\ objNum' = Len(db')
    ELSE \E back \in {JumpsTo(ObjectiveRaised(s, rhs), Form(Improving(rhs)))} :
           /\ db' = [db EXCEPT ![objNum].k = rhs]
           /\ solver' = Examine(db'[objNum], [back EXCEPT !.from[objNum] = 1], objNum, back.sums[objNum])
           /\ UNCHANGED objNum

Better ==
  /\ pc = "decide" /\ solver.heap \cap UndefVars = {}
  /\ HasObjective(problem)
  /\ LET sum  == GainOf(solver)
         cost == IF problem.minimise THEN -(sum + objective.constant) ELSE sum + objective.constant
         s    == [solver EXCEPT !.heap = {}]
     IN /\ best' = cost
        /\ lastSolution' = TrueLits(solver)
        /\ IF SlackUnder(Form(Improving(Improved(sum))), TrueBelow(solver, 1)) < 0
             THEN /\ solver' = [BackjumpToDL(db, s, 0) EXCEPT !.conflict = TRUE]
                  /\ status' = "OPTIMUM_FOUND"
                  /\ pc' = "done"
                  /\ UNCHANGED <<db, objNum>>
             ELSE /\ AsksForBetter(IF bt0 THEN BackjumpToDL(db, s, 0) ELSE s, Improved(sum))
                  /\ status' = "SOME_SOLUTION_FOUND"
                  /\ pc' = "loop"
  /\ UNCHANGED <<input, confl, short, imported, counts>>

Stopped == pc \in {"done", "error", "undefined"}

Stay == Stopped /\ UNCHANGED vars

Next ==
  \/ Start \/ Propagates \/ Analyse \/ Upkeep \/ Import \/ Decide \/ Model \/ Better
  \/ Stay

Spec == Init /\ [][Next]_vars

(* solve runs alone and does not wait: weak fairness of Next, which only Stopped
   disables (there is no deadlock), in a form that spares TLC the ENABLED. *)
FairSpec == Spec /\ ([]<>Stopped \/ []<><<TRUE>>_vars)

-----------------------------------------------------------------------------
(***************************************************************************)
(* Properties.                                                             *)
(***************************************************************************)
TypeOK ==
  /\ pc \in {"start", "loop", "analyse", "upkeep", "import", "decide", "done", "error",
             "undefined"}
  /\ status \in {"NO_SOLUTION_FOUND", "INFEASIBLE", "SOME_SOLUTION_FOUND", "OPTIMUM_FOUND"}
  /\ best \in Int \cup {None} /\ lastSolution \subseteq Lits
  /\ objNum \in 0 .. Len(db)
  /\ solver.next \in 0 .. Len(solver.trail) /\ solver.heap \subseteq Vars
  /\ \A i \in DOMAIN solver.trail : solver.trail[i].lit \in Lits
  /\ \A id \in DOMAIN db : db[id].lhs \in Seq([coef : Nat \ {0}, lit : Lits])
  /\ DOMAIN solver.sums = DOMAIN db /\ DOMAIN solver.from = DOMAIN db

(* The solutions the search still has to find or to refute. *)
Wanted ==
  {m \in Feasible(problem) :
     /\ best = None \/ Cheaper(problem, CostOf(problem, m), best)
     /\ \A c \in imported : Cheaper(problem, CostOf(problem, m), c)}

Satisfies(m, f) == SlackUnder(f, m) >= 0

(* Loading keeps the meaning of the problem: repeated variables, signs, either
   direction, simplification (PBProblem::addConstraint to simplify). *)
LoadedRight == pc = "start" => Feasible(problem) = Solutions(db)

(* The counters agree with the trail whatever was learned, cleaned up, popped or
   raised (visitPBCounterLists, popAndUnassign, doCleanup, solve). *)
CountersAgree == CountersRight(db, solver)

UndefIn(lits) == {l \in lits : IsUndefLit(solver, l)}

(* checkAllConstraintsPropagated: when the search goes on to a decision, nothing
   is falsified and nothing left to propagate, in any list, watched by any
   literals. *)
NothingMissed ==
  pc \in {"upkeep", "import", "decide"} =>
    /\ solver.next = Len(solver.trail)
    /\ \A id \in DOMAIN db :
         LET slack == Slack(Form(db[id]), solver) IN
           /\ slack >= 0
           /\ \A i \in DOMAIN db[id].lhs :
                db[id].lhs[i].coef > slack => ~IsUndefLit(solver, db[id].lhs[i].lit)
    /\ \A i \in DOMAIN solver.clauses :
         \/ SatisfiedClause(solver, solver.clauses[i])
         \/ Cardinality(UndefIn(ToSet(solver.clauses[i].lits))) >= 2
    /\ \A l \in Lits : \A other \in ToSet(solver.bins[l]) :
         IsFalseLit(solver, l) => IsTrueLit(solver, other)

(* What is learned, inferred during analysis, shared with other workers or kept
   by a cleanup excludes no solution that is still wanted. *)
LearnedImplied ==
  \A m \in Wanted :
    /\ \A id \in DOMAIN db : Weigh(db[id], m) >= db[id].k
    /\ \A i \in DOMAIN solver.clauses : ToSet(solver.clauses[i].lits) \cap m # {}
    /\ \A l \in Lits : \A other \in ToSet(solver.bins[l]) : {l, other} \cap m # {}
    /\ Satisfies(m, confl)
    /\ \A f \in short : Satisfies(m, f)
    /\ TrueBelow(solver, 1) \subseteq m

(* A literal above level 0 is the decision of its level, or propagated by its
   reason from the literals before it: the reason exists and is the constraint
   it was (setTrueDueToReason, and everything that moves constraints). *)
ReasonsValid ==
  \A i \in DOMAIN solver.trail :
    LET e      == solver.trail[i]
        below  == IF i = 1 THEN 0 ELSE solver.trail[i - 1].dl
        before == {solver.trail[j].lit : j \in 1 .. i - 1}
        f      == WConstraint(db, solver, e.reason, e.lit)
    IN e.dl > 0 =>
         IF e.reason = NoReason THEN e.dl = below + 1
         ELSE /\ e.dl = below
              /\ e.lit \in FormLits(f)
              /\ SlackUnder(f, before) < Magnitude(f.w[Magnitude(e.lit)])

(* Analysis never comes to a decision with nothing learned, and what it works on
   is falsified ("Error: Reason Constraint is not a PBConstraint nor a Clause",
   ConflictAnalysis.cpp). *)
AnalysisSucceeds ==
  /\ pc # "error"
  /\ pc = "analyse" => Slack(confl, solver) < 0

(* The cut that analysis is about to try has this property, if both constraints
   are saturated. *)
SaturatedCut(Fits(_, _, _, _)) ==
  pc = "analyse" =>
    LET p    == Popped(db, solver, confl)
        x    == Magnitude(p.top.lit)
        reas == WConstraint(db, p.s, p.top.reason, p.top.lit)
        a1   == Magnitude(confl.w[x])
        a2   == Magnitude(reas.w[x])
    IN Slack(confl, p.s) >= 0 /\ p.top.reason # NoReason =>
         (Saturated(confl) /\ Saturated(reas)
            => Fits(confl, reas, Multiplier(a1, a2), Multiplier(a2, a1)))

(* The constant and the coefficients of a cut of saturated constraints stay in
   the integer type chosen for it (the comment in applyCut). *)
ResultsFit ==
  SaturatedCut(LAMBDA c1, c2, m1, m2 : ResultFits(c1, c2, m1, m2, TypeMax(c1, c2)))

(* Nothing in the cut of saturated constraints leaves that type (applyCut: "fits
   in an integer", "it should fit in a long long"). *)
CutsFit == SaturatedCut(FitsType)

(* A variable that is not assigned is in the heap: when the heap is exhausted
   the assignment is total (getNextDecisionVar, popAndUnassign). *)
HeapComplete == UndefVars \subseteq solver.heap

(* The status says what is true, whatever was restarted, cleaned up or imported
   on the way: infeasible or optimal among what others have not found, and the
   cost is that of the solution stored (solve, updateStatusConflictAtDLZero). *)
AnswerRight ==
  /\ best # None => lastSolution \in Feasible(problem) /\ CostOf(problem, lastSolution) = best
  /\ pc = "done" =>
       /\ status \in {"INFEASIBLE", "OPTIMUM_FOUND"} /\ HasObjective(problem) => Wanted = {}
       /\ status = "INFEASIBLE" => Wanted = {} /\ best = None
       /\ status = "OPTIMUM_FOUND" =>
            IF HasObjective(problem) THEN best # None ELSE TrueLits(solver) \in Feasible(problem)

(* Every solution found is better than the one before (reportSolutionFound). *)
SolutionsImprove ==
  [][lastSolution' # lastSolution => best = None \/ Cheaper(problem, best', best)]_vars

(* The search ends, however conflicts, jumps, cleanups and bounds follow each
   other (solve). *)
Terminates == <>Stopped

=============================================================================
