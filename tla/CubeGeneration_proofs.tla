------------------------ MODULE CubeGeneration_proofs ------------------------
(***************************************************************************)
(* Proofs about CubeGeneration: what look-ahead finds, the invariant of one*)
(* worker (Fine), and the table of rows that every reachable state is taken*)
(* from (Lockstep, Recorded).  The theorems about single workers follow:   *)
(* types, levels, counters, and what is on the trail.                      *)
(***************************************************************************)
EXTENDS CubeGeneration, PBSolver_proofs

(***************************************************************************)
(* Look-ahead.                                                             *)
(***************************************************************************)
TotalModels(d) == {m \in Models(d) : \A v \in Vars : v \in m \/ -v \in m}

BestChoices(opt, depth) ==
  {NoChoice} \cup {Choice(opt, v, p, n, depth) : v \in Vars, p \in Int, n \in Int}

Looks(d, opt, depth) ==
  [solver : GoodStates(d), outcome : {"open", "refuted", "forced"}, best : BestChoices(opt, depth)]

(* What look-ahead may say of a solver in state s. *)
Outcome(d, look, s) ==
  /\ look.outcome # "forced" => look.solver.trail = s.trail
  /\ look.outcome = "open" =>
       /\ look.best.var = 0 \/ (look.best.var \in Vars /\ IsUndefLit(s, look.best.var))
       /\ \A m \in TotalModels(d) : Agrees(s, m) => Agrees(look.solver, m)
  /\ look.outcome = "refuted" =>
       /\ \A m \in TotalModels(d) : ~Agrees(s, m)
       /\ ~look.solver.conflict
  /\ look.outcome = "forced" =>
       /\ Level(look.solver) = Level(s) + 1
       /\ Len(s.trail) <= Len(look.solver.trail)
       /\ \A i \in 1 .. Len(s.trail) : look.solver.trail[i] = s.trail[i]
       /\ \A i \in Len(s.trail) + 1 .. Len(look.solver.trail) :
            look.solver.trail[i].dl = Level(s) + 1
       /\ \A m \in TotalModels(d) : Agrees(s, m) => Agrees(look.solver, m)

(* Level and literals depend on the trail only. *)
LEMMA SameTrail ==
  ASSUME NEW s, NEW r, r.trail = s.trail
  PROVE  /\ Level(r) = Level(s) /\ TrueLits(r) = TrueLits(s)
         /\ \A lit : IsUndefLit(r, lit) <=> IsUndefLit(s, lit)
BY DEF Level, TrueLits, IsUndefLit

(* A literal is undefined if its negation is. *)
LEMMA UndefNegated ==
  ASSUME NEW s, NEW lit \in Lits, IsUndefLit(s, lit)
  PROVE  IsUndefLit(s, -lit)
BY LitFacts DEF IsUndefLit

(* One variable: whatever its two values do, what look-ahead says stays true, and
   the trail is as it was unless a literal is forced. *)
LEMMA TryVarMakes ==
  ASSUME NEW d \in Databases, NEW opt, NEW depth, NEW base \in Int, NEW s, Good(d, s), NEW v \in Vars,
         NEW look \in Looks(d, opt, depth), Outcome(d, look, s)
  PROVE  /\ TryVar(d, opt, look, v, depth, base) \in Looks(d, opt, depth)
         /\ Outcome(d, TryVar(d, opt, look, v, depth, base), s)
<1> DEFINE l == look.solver
           yes == AssumeAndPropagate(d, l, v)
           u1 == Undone(d, yes)
           no == AssumeAndPropagate(d, u1, -v)
           u2 == Undone(d, no)
           choice == Choice(opt, v, Eval(yes, base), Eval(no, base), depth)
           lit == Surviving(v, no)
           sure == AssumeAndPropagate(d, u2, lit)
<1>1. CASE look.outcome # "open" \/ ~IsUndefLit(l, v)
  BY <1>1 DEF TryVar
<1>2. CASE look.outcome = "open" /\ IsUndefLit(l, v)
  <2>1. TryVar(d, opt, look, v, depth, base) = Judged(d, look, v, yes, no, choice)
    BY <1>2 DEF TryVar
  <2>2. l \in GoodStates(d) /\ Good(d, l) /\ l.trail = s.trail
    BY <1>2 DEF Looks, GoodStates, Outcome
  <2>3. v \in Lits /\ -v \in Lits
    BY LitFacts DEF Lits
  <2>4. Tried(d, yes, l, v)
    BY <2>2, <2>3, <1>2, TryMakes
  <2>5. Good(d, u1) /\ u1.trail = s.trail /\ ~u1.conflict
    BY <2>2, <2>4, UndoTry DEF Undone
  <2>6. IsUndefLit(u1, -v)
    BY <2>2, <2>3, <2>5, <1>2, SameTrail, UndefNegated
  <2> HIDE DEF u1
  <2>7. Tried(d, no, u1, -v)
    BY <2>3, <2>5, <2>6, TryMakes
  <2>8. Good(d, u2) /\ u2.trail = s.trail /\ ~u2.conflict /\ u2 \in GoodStates(d)
    BY <2>5, <2>7, UndoTry DEF Undone, GoodStates, Good
  <2> HIDE DEF u2
  <2>9. lit \in Lits /\ IsUndefLit(u2, lit)
    BY <2>2, <2>3, <2>8, <1>2, SameTrail, UndefNegated DEF Surviving
  <2>10. Tried(d, sure, u2, lit)
    BY <2>8, <2>9, TryMakes
  <2>11. ASSUME NEW m \in TotalModels(d), Agrees(s, m)
         PROVE  /\ yes.conflict => -v \in m
                /\ no.conflict => v \in m
    <3>1. m \in Models(d) /\ (v \in m \/ -v \in m)
      BY DEF TotalModels
    <3>2. Agrees(l, m) /\ Agrees(u1, m)
      BY <2>2, <2>5, <2>11, <1>2, SameTrail DEF Outcome, Agrees
    <3>3. v \in m => ~yes.conflict
      BY <3>1, <3>2, <2>4 DEF Tried, Agrees
    <3>4. -v \in m => ~no.conflict
      BY <3>1, <3>2, <2>7 DEF Tried, Agrees
    <3> QED BY <3>1, <3>3, <3>4
  <2>12. \A m \in TotalModels(d) : Agrees(s, m) => Agrees(u2, m)
    BY <2>8, SameTrail DEF Agrees
  <2>13. choice \in BestChoices(opt, depth)
    <3>1. Eval(yes, base) \in Int /\ Eval(no, base) \in Int
      <4>1. yes \in State /\ no \in State /\ NumVars \in Nat
        BY <2>4, <2>7, VarsAssumption DEF Tried, Good, States
      <4>2. Len(yes.trail) \in Nat /\ Len(no.trail) \in Nat
        BY <4>1, StateFacts
      <4> QED BY <4>1, <4>2 DEF Eval, AssignedVars
    <3> QED BY <3>1 DEF BestChoices
  <2>14. choice.var = v
    BY DEF Choice
  <2>15. sure \in GoodStates(d)
    BY <2>10 DEF Tried, Good, GoodStates
  <2>16. \A m \in TotalModels(d) : m \in Models(d)
    BY DEF TotalModels
  <2> HIDE DEF yes, no, choice, lit, sure, l
  <2>17. /\ look \in [solver : GoodStates(d), outcome : {"open", "refuted", "forced"},
                      best : BestChoices(opt, depth)]
         /\ look.outcome = "open"
    BY <1>2 DEF Looks
  <2>18. CASE yes.conflict /\ no.conflict
    <3> DEFINE q == [look EXCEPT !.solver = u2, !.outcome = "refuted"]
    <3>1. Judged(d, look, v, yes, no, choice) = q
      BY <2>18 DEF Judged, u2
    <3>2. q \in Looks(d, opt, depth) /\ q.solver = u2 /\ q.outcome = "refuted"
      BY <2>8, <2>17 DEF Looks
    <3>3. \A m \in TotalModels(d) : ~Agrees(s, m)
      <4>1. ASSUME NEW m \in TotalModels(d), Agrees(s, m) PROVE FALSE
        <5>1. v \in m /\ -v \in m
          BY <4>1, <2>11, <2>18
        <5> QED BY <5>1, <2>16 DEF Models
      <4> QED BY <4>1
    <3> HIDE DEF q
    <3>4. Outcome(d, q, s)
      BY <3>2, <3>3, <2>8 DEF Outcome
    <3> QED BY <2>1, <3>1, <3>2, <3>4
  <2>19. CASE (yes.conflict \/ no.conflict) /\ ~(yes.conflict /\ no.conflict)
    <3> DEFINE q == [look EXCEPT !.outcome = "forced", !.solver = sure]
    <3>1. Judged(d, look, v, yes, no, choice) = q
      BY <2>19 DEF Judged, u2, sure, lit
    <3>2. q \in Looks(d, opt, depth) /\ q.solver = sure /\ q.outcome = "forced"
      BY <2>15, <2>17 DEF Looks
    <3> HIDE DEF q
    <3>3. ASSUME NEW m \in TotalModels(d), Agrees(s, m) PROVE Agrees(sure, m)
      <4>1. lit \in m
        BY <3>3, <2>11, <2>19 DEF lit, Surviving
      <4> QED BY <3>3, <4>1, <2>10, <2>12, <2>16 DEF Tried
    <3>4. Level(u2) = Level(s)
      BY <2>8, SameTrail
    <3>5. Outcome(d, q, s)
      <4>1. s \in State /\ sure \in State
        BY <2>10 DEF Good, States, Tried
      <4>2. Len(s.trail) \in Nat /\ Len(sure.trail) \in Nat
        BY <4>1, StateFacts
      <4>3. Len(s.trail) <= Len(sure.trail)
        BY <4>2, <2>8, <2>10 DEF Tried
      <4> QED BY <3>2, <3>3, <3>4, <4>3, <2>8, <2>10 DEF Outcome, Tried
    <3> QED BY <2>1, <3>1, <3>2, <3>5
  <2>20. CASE ~(yes.conflict \/ no.conflict)
    <3> DEFINE best == Preferred(choice, look.best)
               q == [look EXCEPT !.solver = u2, !.best = best]
    <3>1. Judged(d, look, v, yes, no, choice) = q
      BY <2>20, <2>17 DEF Judged, u2
    <3>2. best = choice \/ best = look.best
      BY DEF Preferred
    <3> HIDE DEF best
    <3>3. q \in Looks(d, opt, depth) /\ q.solver = u2 /\ q.outcome = "open" /\ q.best = best
      BY <2>8, <2>13, <2>17, <3>2 DEF Looks
    <3> HIDE DEF q
    <3>4. best.var = 0 \/ (best.var \in Vars /\ IsUndefLit(s, best.var))
      <4>1. IsUndefLit(s, v)
        BY <1>2, <2>2, SameTrail DEF l
      <4> QED BY <4>1, <3>2, <2>14, <2>17 DEF Outcome
    <3>5. Outcome(d, q, s)
      BY <3>3, <3>4, <2>8, <2>12 DEF Outcome
    <3> QED BY <2>1, <3>1, <3>3, <3>5
  <2> QED BY <2>18, <2>19, <2>20
<1> QED BY <1>1, <1>2 DEF Looks

LooksFrom(d, opt, depth, s) == {look \in Looks(d, opt, depth) : Outcome(d, look, s)}

(* Look-ahead starts with nothing said. *)
LEMMA NothingTriedYet ==
  ASSUME NEW d \in Databases, NEW opt, NEW depth, NEW s, Good(d, s)
  PROVE  NothingTried(s) \in LooksFrom(d, opt, depth, s)
<1>1. s \in GoodStates(d) /\ NoChoice \in BestChoices(opt, depth) /\ NoChoice.var = 0
  BY DEF GoodStates, Good, BestChoices, NoChoice
<1>2. NothingTried(s) \in Looks(d, opt, depth)
  BY <1>1 DEF NothingTried, Looks
<1>3. Outcome(d, NothingTried(s), s)
  BY <1>1 DEF NothingTried, Outcome
<1> QED BY <1>2, <1>3 DEF LooksFrom

(* Look-ahead takes the variables one after the other. *)
LEMMA LookedSteps ==
  ASSUME NEW d \in Databases, NEW opt, NEW depth, NEW s, Good(d, s)
  PROVE  \E h \in [0 .. NumVars -> LooksFrom(d, opt, depth, s)] :
           /\ h[0] = NothingTried(s)
           /\ \A i \in 1 .. NumVars : h[i] = TryVar(d, opt, h[i - 1], i, depth, AssignedVars(s))
           /\ Looked(d, opt, s, depth) = h[NumVars]
<1> DEFINE n == NumVars
           S == LooksFrom(d, opt, depth, s)
           step(r, i) == TryVar(d, opt, r, i, depth, AssignedVars(s))
           idx == [i \in Vars |-> i]
           g == [p \in S \X (1 .. n) |-> step(p[1], p[2])]
           E(f) == f = [t \in SUBSET DOMAIN idx |->
                          IF t = {} THEN NothingTried(s) ELSE step(f[t \ {Max(t)}], idx[Max(t)])]
           F == CHOOSE f : E(f)
<1>1. n \in Nat /\ NothingTried(s) \in S /\ DOMAIN idx = 1 .. n /\ \A i \in 1 .. n : idx[i] = i
  BY NothingTriedYet, VarsAssumption DEF Vars
<1>2. g \in [S \X (1 .. n) -> S]
  <2> SUFFICES ASSUME NEW l \in LooksFrom(d, opt, depth, s), NEW i \in 1 .. n
               PROVE  TryVar(d, opt, l, i, depth, AssignedVars(s)) \in LooksFrom(d, opt, depth, s)
    OBVIOUS
  <2>1. AssignedVars(s) \in Int /\ i \in Vars
    BY StateFacts DEF AssignedVars, Good, States, Vars
  <2> QED BY <2>1, TryVarMakes DEF LooksFrom
<1>3. \A t \in SUBSET (1 .. n), r \in S : t # {} => g[<<r, Max(t)>>] = step(r, idx[Max(t)])
  BY <1>1, MaxInSet
<1>4. Looked(d, opt, s, depth) = F[DOMAIN idx]
  BY Zenon DEF Looked, FoldLeft, MapThenFoldSet
<1> HIDE DEF step, g, S, n, idx
<1>5. \E f : E(f)
  <2>1. PICK f \in [SUBSET (1 .. n) -> S] : Solves(f, n, NothingTried(s), g)
    BY <1>1, <1>2, FoldExists
  <2>2. E(f)
    BY <2>1, <1>1, <1>3 DEF Solves
  <2> QED BY <2>2
<1>6. E(F)
  BY <1>5, Zenon
<1> HIDE DEF F
<1>7. Follows(F, n, S, NothingTried(s), g)
  BY <1>1, <1>2, <1>6, <1>3 DEF Follows
<1>8. PICK h : Steps(h, F, n, S, NothingTried(s), g)
  BY <1>7, FoldSteps
<1>9. /\ h \in [0 .. n -> S] /\ h[0] = NothingTried(s) /\ F[1 .. n] = h[n]
      /\ \A i \in 1 .. n : h[i] = g[<<h[i - 1], i>>] /\ h[i - 1] \in S
  BY <1>8, <1>1 DEF Steps
<1>10. \A i \in 1 .. n : h[i] = step(h[i - 1], i)
  BY <1>9 DEF g
<1> QED BY <1>1, <1>4, <1>9, <1>10 DEF n, S, step

(* What look-ahead says when it ends is true. *)
LEMMA LookedMakes ==
  ASSUME NEW d \in Databases, NEW opt, NEW depth, NEW s, Good(d, s)
  PROVE  /\ Looked(d, opt, s, depth) \in Looks(d, opt, depth)
         /\ Outcome(d, Looked(d, opt, s, depth), s)
<1>1. PICK h \in [0 .. NumVars -> LooksFrom(d, opt, depth, s)] : Looked(d, opt, s, depth) = h[NumVars]
  BY LookedSteps
<1>2. NumVars \in 0 .. NumVars
  BY VarsAssumption
<1> QED BY <1>1, <1>2 DEF LooksFrom


(***************************************************************************)
(* The solutions of a problem are models of what the solver loads.         *)
(***************************************************************************)
LEMMA AssignmentFacts ==
  ASSUME NEW m \in Assignments
  PROVE  /\ m \subseteq Lits
         /\ \A v \in Vars : v \in m \/ -v \in m
         /\ \A l \in m : -l \notin m
<1>1. PICK f \in [Vars -> BOOLEAN] : m = {IF f[v] THEN v ELSE -v : v \in Vars}
  BY DEF Assignments
<1>2. Vars \subseteq Nat \ {0}
  BY DEF Vars
<1>3. m \subseteq Lits
  BY <1>1 DEF Lits
<1>4. ASSUME NEW v \in Vars PROVE v \in m \/ -v \in m
  BY <1>1
<1>5. ASSUME NEW l \in m PROVE -l \notin m
  <2>1. PICK v \in Vars : l = IF f[v] THEN v ELSE -v
    BY <1>1
  <2>2. ASSUME -l \in m PROVE FALSE
    <3>1. PICK u \in Vars : -l = IF f[u] THEN u ELSE -u
      BY <1>1, <2>2
    <3>2. u \in Nat \ {0} /\ v \in Nat \ {0}
      BY <1>2
    <3>3. u = v
      BY <2>1, <3>1, <3>2
    <3> QED BY <2>1, <3>1, <3>2, <3>3
  <2> QED BY <2>2
<1> QED BY <1>3, <1>4, <1>5

(* The database keeps the solutions of the problem. *)
LEMMA SolutionsAreModels ==
  ASSUME NEW p \in Databases
  PROVE  Database(p) \in Databases /\ Solutions(p) \subseteq TotalModels(Database(p))
<1>1. Len(p) \in Nat /\ DOMAIN p = 1 .. Len(p) /\ \A id \in 1 .. Len(p) : p[id] \in Constraint
  BY DEF Databases
<1>2. \A id \in 1 .. Len(p) : Simplify(p[id]) \in Constraint
  BY <1>1, SimplifySound
<1>3. Database(p) \in Seq(Constraint) /\ Len(Database(p)) = Len(p)
      /\ \A id \in 1 .. Len(p) : Database(p)[id] = Simplify(p[id])
  BY <1>1, <1>2 DEF Database
<1>4. ASSUME NEW m \in Solutions(p) PROVE m \in TotalModels(Database(p))
  <2>1. m \in Assignments /\ \A id \in 1 .. Len(p) : Weigh(p[id], m) >= p[id].k
    BY <1>1 DEF Solutions
  <2>2. \A id \in 1 .. Len(p) : Weigh(Database(p)[id], m) >= Database(p)[id].k
    <3>1. ASSUME NEW id \in 1 .. Len(p)
          PROVE  Weigh(Simplify(p[id]), m) >= Simplify(p[id]).k
      BY <1>1, <2>1, SimplifySound
    <3> QED BY <3>1, <1>3
  <2> QED BY <2>1, <2>2, <1>3, AssignmentFacts DEF TotalModels, Models
<1> QED BY <1>3, <1>4 DEF Databases

-----------------------------------------------------------------------------
(***************************************************************************)
(* Sequences whose end changes.                                            *)
(***************************************************************************)
LEMMA AppendFacts ==
  ASSUME NEW S, NEW q \in Seq(S), NEW e \in S
  PROVE  LET r == Append(q, e) IN
           /\ r \in Seq(S) /\ Len(r) = Len(q) + 1 /\ Len(q) \in Nat /\ r # <<>>
           /\ \A i \in 1 .. Len(q) : r[i] = q[i]
           /\ r[Len(q) + 1] = e /\ Last(r) = e /\ Front(r) = q
<1> DEFINE r == Append(q, e)
<1>1. Len(q) \in Nat /\ Len(r) = Len(q) + 1
  OBVIOUS
<1>2. r \in Seq(S)
  OBVIOUS
<1>3. r[Len(q) + 1] = e /\ \A i \in 1 .. Len(q) : r[i] = q[i]
  OBVIOUS
<1>4. r # <<>>
  <2> HIDE DEF r
  <2>1. Len(r) # 0
    BY <1>1
  <2> QED BY <2>1
<1>5. Front(r) \in Seq(S) /\ Len(Front(r)) = Len(r) - 1
      /\ \A i \in 1 .. Len(r) - 1 : Front(r)[i] = r[i]
  <2> HIDE DEF r
  <2> QED BY <1>2, <1>4, FrontFacts
<1>6. Last(r) = r[Len(r)]
  BY DEF Last
<1>7. Front(r) = q
  <2> HIDE DEF r
  <2>1. Len(Front(r)) = Len(q) /\ \A i \in 1 .. Len(q) : Front(r)[i] = q[i]
    BY <1>1, <1>3, <1>5
  <2> QED BY <2>1, <1>5, SeqEqual
<1> HIDE DEF r
<1>8. Last(r) = e
  BY <1>1, <1>3, <1>6
<1> QED BY <1>1, <1>2, <1>3, <1>4, <1>7, <1>8 DEF r

(* A sequence with another last element. *)
LEMMA ReplaceLast ==
  ASSUME NEW S, NEW q \in Seq(S), q # <<>>, NEW e \in S
  PROVE  LET r == Append(Front(q), e) IN
           /\ r \in Seq(S) /\ Len(r) = Len(q) /\ Len(q) \in Nat \ {0} /\ r # <<>>
           /\ \A i \in 1 .. Len(q) - 1 : r[i] = q[i]
           /\ r[Len(q)] = e /\ Last(r) = e
<1> DEFINE f == Front(q)
           r == Append(f, e)
<1>1. f \in Seq(S) /\ Len(f) = Len(q) - 1 /\ Len(q) \in Nat \ {0}
      /\ \A i \in 1 .. Len(q) - 1 : f[i] = q[i]
  BY FrontFacts
<1> HIDE DEF f
<1>2. /\ r \in Seq(S) /\ Len(r) = Len(f) + 1 /\ r # <<>>
      /\ \A i \in 1 .. Len(f) : r[i] = f[i]
      /\ r[Len(f) + 1] = e /\ Last(r) = e
  BY <1>1, AppendFacts
<1> HIDE DEF r
<1>3. Len(f) + 1 = Len(q)
  BY <1>1
<1> QED BY <1>1, <1>2, <1>3 DEF r, f


-----------------------------------------------------------------------------
(***************************************************************************)
(* One worker: its variables as a record, and a step as a function of it.  *)
(* A worker goes on deterministically and reads nothing of the others, so  *)
(* what a step keeps is a fact about records.                              *)
(***************************************************************************)
FineFrame ==
  {f \in [stage : {"enter", "look", "branch", "undo"}, id : Nat, group : Nat \ {0},
          failed : Nat, branches : Seq(Lits)] :
     /\ f.id < f.group
     /\ f.stage = "enter" => f.failed = 0
     /\ f.stage \in {"branch", "undo"} =>
          \/ Len(f.branches) = 1
          \/ Len(f.branches) = 2 /\ f.group = 1 /\ f.branches[2] = -f.branches[1]}

Locals(d) ==
  [solver : GoodStates(d), stack : Seq(FineFrame), current : Seq(Lits), cubes : Seq(Seq(Lits)),
   sat : BOOLEAN, theta : Nat]

(* The calls above the last are in a branch, whose literal the path has. *)
Path(l) ==
  /\ \A i \in 1 .. Len(l.stack) - 1 : l.stack[i].stage = "undo"
  /\ \A i \in 1 .. Len(l.stack) :
       l.stack[i].stage = "undo" => l.stack[i].branches[1] = l.current[i]
  /\ l.stack = <<>> => l.current = <<>>
  /\ l.stack # <<>> =>
       Len(l.current) = IF Last(l.stack).stage = "undo" THEN Len(l.stack) ELSE Len(l.stack) - 1

(* b[i] is the decision level the i-th call looks at: the decisions of the calls
   above it and the failed literals up to its own. *)
Bases(b, frames) ==
  /\ b \in [1 .. Len(frames) -> Nat]
  /\ frames # <<>> => b[1] = frames[1].failed
  /\ \A i \in 2 .. Len(frames) : b[i] = b[i - 1] + 1 + frames[i].failed

LevelOf(frames, b) ==
  IF frames = <<>> THEN 0
  ELSE IF Last(frames).stage = "undo" THEN b[Len(frames)] + 1 ELSE b[Len(frames)]

(* The literals up to a decision level. *)
Below(s, dl) == {s.trail[i].lit : i \in {j \in 1 .. Len(s.trail) : s.trail[j].dl <= dl}}

(* The model m is among those the i-th call searches. *)
Reaches(l, i, m) == \A j \in 1 .. i - 1 : l.current[j] \in m

(* The branches a call has still to take. *)
Pending(f) == IF f.stage = "branch" THEN ToSet(f.branches)
              ELSE IF f.stage = "undo" THEN ToSet(Tail(f.branches)) ELSE {}

(* What the i-th call sees, the literals up to level dl, follows from the problem
   and the decisions above it, and the literals of its next branches are not
   defined there. *)
Held(d, l, i, dl) ==
  /\ \A m \in TotalModels(d) : Reaches(l, i, m) => Below(l.solver, dl) \subseteq m
  /\ \A lit \in Pending(l.stack[i]) :
       lit \notin Below(l.solver, dl) /\ -lit \notin Below(l.solver, dl)

(* The solver of a call that is looking has no conflict if a model is below. *)
Open(d, l) ==
  l.stack # <<>> /\ Last(l.stack).stage # "undo" =>
    \A m \in TotalModels(d) : Reaches(l, Len(l.stack), m) => Agrees(l.solver, m)

Placed(d, l, b) ==
  /\ Bases(b, l.stack)
  /\ Level(l.solver) = LevelOf(l.stack, b)
  /\ \A i \in 1 .. Len(l.stack) : Held(d, l, i, b[i])
  /\ Open(d, l)

Fine(d, l) == l \in Locals(d) /\ Path(l) /\ \E b : Placed(d, l, b)

-----------------------------------------------------------------------------
Started(d, id, n, t) ==
  [solver |-> Loaded(d), stack |-> <<Frame(id, n)>>, current |-> <<>>, cubes |-> <<>>,
   sat |-> FALSE, theta |-> t * ThetaUnit]

Stopped(opt, l) == l.sat /\ ~opt
Capped(l) == Len(l.current) >= MaxDepth
TooFar(l) == Len(l.current) * AssignedVars(l.solver) * ThetaUnit > Raised(l.theta) * NumVars

Entered(opt, l) ==
  [solver |-> l.solver, current |-> l.current, sat |-> l.sat,
   theta |-> IF Stopped(opt, l) THEN l.theta ELSE Raised(l.theta),
   cubes |-> IF ~Stopped(opt, l) /\ (IF Capped(l) THEN KeepsAtCap(Last(l.stack)) ELSE TooFar(l))
               THEN Append(l.cubes, l.current) ELSE l.cubes,
   stack |-> IF Stopped(opt, l) \/ Capped(l) \/ TooFar(l) THEN Front(l.stack)
             ELSE Append(Front(l.stack), [Last(l.stack) EXCEPT !.stage = "look"])]

Solved(look) == look.outcome = "open" /\ look.best.var = 0

Closed(d, opt, l, look) ==
  [solver |-> Backtrack(d, look.solver, Last(l.stack).failed),
   stack |-> Front(l.stack), current |-> l.current,
   cubes |-> IF Solved(look) /\ opt THEN Append(l.cubes, l.current) ELSE l.cubes,
   sat |-> (l.sat \/ (Solved(look) /\ ~opt)), theta |-> l.theta]

Forced(l, look) ==
  [solver |-> look.solver,
   stack |-> Append(Front(l.stack), [Last(l.stack) EXCEPT !.failed = @ + 1]),
   current |-> l.current, cubes |-> l.cubes, sat |-> l.sat, theta |-> l.theta]

Split(l, look) ==
  [solver |-> look.solver,
   stack |-> Append(Front(l.stack),
                    [Last(l.stack) EXCEPT !.stage = "branch",
                                          !.branches = Branches(Last(l.stack), look.best)]),
   current |-> l.current, cubes |-> l.cubes, sat |-> l.sat, theta |-> l.theta]

LookedAt(d, opt, l, look) ==
  IF look.outcome = "refuted" \/ Solved(look) THEN Closed(d, opt, l, look)
  ELSE IF look.outcome = "forced" THEN Forced(l, look) ELSE Split(l, look)

Chosen(l) == Head(Last(l.stack).branches)

InBranch(l) == Append(Front(l.stack), [Last(l.stack) EXCEPT !.stage = "undo"])

Branched(l, s) ==
  [solver |-> s,
   stack |-> IF s.conflict THEN InBranch(l) ELSE Append(InBranch(l), Child(InBranch(l)[Len(l.stack)])),
   current |-> Append(l.current, Chosen(l)), cubes |-> l.cubes, sat |-> l.sat,
   theta |-> IF s.conflict THEN Lowered(l.theta) ELSE l.theta]

Leaves(opt, l) == Tail(Last(l.stack).branches) = <<>> \/ Stopped(opt, l)

Onward(l) == [Last(l.stack) EXCEPT !.stage = "branch", !.branches = Tail(@)]

Left(d, opt, l, s) ==
  [solver |-> IF Leaves(opt, l) THEN Backtrack(d, s, Last(l.stack).failed) ELSE s,
   stack |-> IF Leaves(opt, l) THEN Front(l.stack)
             ELSE Append(Front(l.stack), Onward(l)),
   current |-> Front(l.current), cubes |-> l.cubes, sat |-> l.sat, theta |-> l.theta]

After(d, opt, l) ==
  IF l.stack = <<>> THEN l
  ELSE IF Last(l.stack).stage = "enter" THEN Entered(opt, l)
  ELSE IF Last(l.stack).stage = "look"
    THEN LookedAt(d, opt, l, Looked(d, opt, l.solver, Len(l.current)))
  ELSE IF Last(l.stack).stage = "branch"
    THEN Branched(l, AssumeAndPropagate(d, l.solver, Chosen(l)))
  ELSE Left(d, opt, l, Backtrack(d, l.solver, 1))


-----------------------------------------------------------------------------
(* What a call consists of. *)
LEMMA FrameFacts ==
  ASSUME NEW f \in FineFrame
  PROVE  /\ f.stage \in {"enter", "look", "branch", "undo"} /\ f.id \in Nat /\ f.group \in Nat \ {0}
         /\ f.failed \in Nat /\ f.branches \in Seq(Lits) /\ f.id < f.group
         /\ f.stage = "enter" => f.failed = 0
         /\ f.stage \in {"branch", "undo"} =>
              \/ Len(f.branches) = 1
              \/ Len(f.branches) = 2 /\ f.group = 1 /\ f.branches[2] = -f.branches[1]
BY DEF FineFrame

(* What a worker consists of. *)
LEMMA LocalFacts ==
  ASSUME NEW d \in Databases, NEW l \in Locals(d)
  PROVE  /\ l.solver \in GoodStates(d) /\ Good(d, l.solver) /\ l.solver \in State
         /\ l.stack \in Seq(FineFrame) /\ Len(l.stack) \in Nat
         /\ \A i \in 1 .. Len(l.stack) : l.stack[i] \in FineFrame
         /\ l.current \in Seq(Lits) /\ Len(l.current) \in Nat
         /\ \A i \in 1 .. Len(l.current) : l.current[i] \in Lits
         /\ l.cubes \in Seq(Seq(Lits)) /\ l.sat \in BOOLEAN /\ l.theta \in Nat
         /\ l.stack # <<>> => /\ Len(l.stack) \in Nat \ {0} /\ Last(l.stack) = l.stack[Len(l.stack)]
                              /\ Last(l.stack) \in FineFrame
<1>1. /\ l.solver \in GoodStates(d) /\ l.stack \in Seq(FineFrame) /\ l.current \in Seq(Lits)
      /\ l.cubes \in Seq(Seq(Lits)) /\ l.sat \in BOOLEAN /\ l.theta \in Nat
  BY DEF Locals
<1>2. Good(d, l.solver) /\ l.solver \in State
  BY <1>1 DEF GoodStates, Good, States
<1>3. Len(l.stack) \in Nat /\ Len(l.current) \in Nat
  BY <1>1
<1>4. \A i \in 1 .. Len(l.stack) : l.stack[i] \in FineFrame
  BY <1>1, ElementOfSeq
<1>5. \A i \in 1 .. Len(l.current) : l.current[i] \in Lits
  BY <1>1, ElementOfSeq
<1>6. ASSUME l.stack # <<>>
      PROVE  /\ Len(l.stack) \in Nat \ {0} /\ Last(l.stack) = l.stack[Len(l.stack)]
             /\ Last(l.stack) \in FineFrame
  BY <1>1, <1>6, FrontFacts
<1> QED BY <1>1, <1>2, <1>3, <1>4, <1>5, <1>6

(* The levels of the calls increase. *)
LEMMA BasesGrow ==
  ASSUME NEW frames \in Seq(FineFrame), NEW b, Bases(b, frames), NEW j \in 1 .. Len(frames)
  PROVE  \A i \in 1 .. j - 1 : b[i] < b[j]
<1> DEFINE n == Len(frames)
           T == {k \in 0 .. n : \A i \in 1 .. k - 1 : b[i] < b[k]}
<1>1. n \in Nat /\ \A i \in 1 .. n : b[i] \in Nat
  BY DEF Bases
<1>2. 0 \in T
  BY <1>1
<1>3. ASSUME NEW k \in 1 .. n, k - 1 \in T PROVE k \in T
  <2>1. ASSUME NEW i \in 1 .. k - 1 PROVE b[i] < b[k]
    <3>1. k \in 2 .. n /\ k - 1 \in 1 .. n /\ i \in 1 .. n
      BY <1>1
    <3>2. b[k] = b[k - 1] + 1 + frames[k].failed
      BY <3>1 DEF Bases
    <3>3. frames[k].failed \in Nat
      BY <3>1, ElementOfSeq, FrameFacts
    <3>4. i = k - 1 \/ b[i] < b[k - 1]
      BY <1>3, <3>1
    <3> PICK x, y, z, f : x = b[i] /\ y = b[k - 1] /\ z = b[k] /\ f = frames[k].failed
      OBVIOUS
    <3>5. x \in Nat /\ y \in Nat /\ f \in Nat /\ z = y + 1 + f /\ (x = y \/ x < y)
      BY <1>1, <3>1, <3>2, <3>3, <3>4
    <3>6. x < z
      BY <3>5
    <3> QED BY <3>6
  <2> QED BY <2>1, <1>1
<1>4. 0 .. n \subseteq T
  <2> HIDE DEF T
  <2>1. Inductive(n, T)
    BY <1>1, <1>2, <1>3 DEF Inductive
  <2> QED BY <2>1, InductionUpTo
<1> QED BY <1>1, <1>4

(* The level a call starts at. *)
Entry0(b, i) == IF i = 1 THEN 0 ELSE b[i - 1] + 1

(* How the levels of a call lie above those of the calls below it. *)
LEMMA BasesFacts ==
  ASSUME NEW frames \in Seq(FineFrame), NEW b, Bases(b, frames), NEW j \in 1 .. Len(frames)
  PROVE  /\ b[j] \in Nat /\ frames[j].failed \in Nat /\ b[j] - frames[j].failed = Entry0(b, j)
         /\ Entry0(b, j) \in Nat /\ frames[j].failed <= b[j]
         /\ \A i \in 1 .. j - 1 : b[i] \in Nat /\ b[i] < Entry0(b, j) /\ b[i] < b[j]
<1>1. Len(frames) \in Nat /\ (\A i \in 1 .. Len(frames) : b[i] \in Nat) /\ frames # <<>>
  BY SMTT(30) DEF Bases
<1>2. frames[j].failed \in Nat
  BY ElementOfSeq, FrameFacts
<1>3. CASE j = 1
  <2>1. b[j] = frames[j].failed
    BY <1>1, <1>3 DEF Bases
  <2> PICK x, f : x = b[j] /\ f = frames[j].failed
    OBVIOUS
  <2>2. x \in Nat /\ x - f = 0 /\ f <= x
    BY <1>1, <1>2, <2>1
  <2> QED BY <2>2, <1>2, <1>3 DEF Entry0
<1>4. CASE j # 1
  <2>1. j \in 2 .. Len(frames) /\ j - 1 \in 1 .. Len(frames)
    BY <1>1, <1>4
  <2>2. b[j] = b[j - 1] + 1 + frames[j].failed
    BY <2>1 DEF Bases
  <2> PICK x, y, f : x = b[j] /\ y = b[j - 1] /\ f = frames[j].failed
    OBVIOUS
  <2>3. x \in Nat /\ y \in Nat /\ f \in Nat /\ x = y + 1 + f
    BY <1>1, <1>2, <2>1, <2>2
  <2>4. x - f = y + 1 /\ f <= x /\ y + 1 \in Nat
    BY <2>3, SMTT(30)
  <2>5. ASSUME NEW i \in 1 .. j - 1 PROVE b[i] \in Nat /\ b[i] < y + 1 /\ b[i] < b[j]
    <3>1. i \in 1 .. Len(frames) /\ (i = j - 1 \/ i \in 1 .. (j - 1) - 1)
      BY <1>1, <2>1
    <3>2. b[i] \in Nat /\ b[i] < b[j]
      BY <3>1, <1>1, BasesGrow
    <3>3. i = j - 1 \/ b[i] < b[j - 1]
      BY <3>1, <2>1, BasesGrow
    <3> PICK z : z = b[i]
      OBVIOUS
    <3>4. z \in Nat /\ (z = y \/ z < y)
      BY <3>2, <3>3
    <3>5. z < y + 1
      BY <3>4, <2>3
    <3> QED BY <3>2, <3>5
  <2> QED BY <1>4, <2>3, <2>4, <2>5 DEF Entry0
<1> QED BY <1>3, <1>4

(* Literals of higher levels come and go. *)
LEMMA BelowCut ==
  ASSUME NEW s \in State, NEW r \in State, NEW dl \in Int, Len(r.trail) <= Len(s.trail),
         \A i \in 1 .. Len(r.trail) : r.trail[i] = s.trail[i],
         \A i \in Len(r.trail) + 1 .. Len(s.trail) : s.trail[i].dl > dl,
         NEW e \in Int, e <= dl
  PROVE  Below(r, e) = Below(s, e)
<1>1. Len(s.trail) \in Nat /\ Len(r.trail) \in Nat /\ \A i \in 1 .. Len(s.trail) : s.trail[i].dl \in Nat
  BY StateFacts
<1>2. ASSUME NEW x \in Below(r, e) PROVE x \in Below(s, e)
  <2>1. PICK i \in 1 .. Len(r.trail) : r.trail[i].dl <= e /\ x = r.trail[i].lit
    BY <1>2 DEF Below
  <2>2. i \in 1 .. Len(s.trail) /\ r.trail[i] = s.trail[i]
    BY <1>1
  <2> QED BY <2>1, <2>2 DEF Below
<1>3. ASSUME NEW x \in Below(s, e) PROVE x \in Below(r, e)
  <2>1. PICK i \in 1 .. Len(s.trail) : s.trail[i].dl <= e /\ x = s.trail[i].lit
    BY <1>3 DEF Below
  <2>2. ~(s.trail[i].dl > dl)
    <3> PICK z : z = s.trail[i].dl
      OBVIOUS
    <3>1. z \in Nat /\ z <= e
      BY <1>1, <2>1
    <3>2. ~(z > dl)
      BY <3>1
    <3> QED BY <3>2
  <2>3. i \in 1 .. Len(r.trail)
    BY <1>1, <2>2
  <2>4. r.trail[i] = s.trail[i]
    BY <2>3
  <2> QED BY <2>1, <2>3, <2>4 DEF Below
<1> QED BY <1>2, <1>3

(* All literals are below a level the trail does not exceed. *)
LEMMA BelowAll ==
  ASSUME NEW s \in State, Stepwise(s.trail), NEW e \in Int
  PROVE  /\ Below(s, e) \subseteq TrueLits(s)
         /\ Level(s) <= e => Below(s, e) = TrueLits(s)
<1>1. Len(s.trail) \in Nat /\ DOMAIN s.trail = 1 .. Len(s.trail)
      /\ \A i \in 1 .. Len(s.trail) : s.trail[i].dl \in Nat
  BY StateFacts
<1>2. Below(s, e) \subseteq TrueLits(s)
  BY <1>1 DEF Below, TrueLits
<1>3. ASSUME Level(s) <= e, NEW x \in TrueLits(s) PROVE x \in Below(s, e)
  <2>1. PICK i \in 1 .. Len(s.trail) : x = s.trail[i].lit
    BY <1>1 DEF TrueLits
  <2>2. Len(s.trail) \in 1 .. Len(s.trail) /\ i \in 1 .. Len(s.trail)
    BY <1>1
  <2>3. s.trail[i].dl <= s.trail[Len(s.trail)].dl
    BY <2>2, LevelsGrow
  <2>4. Level(s) = s.trail[Len(s.trail)].dl
    BY <2>2, LevelIs DEF LevelAt
  <2> PICK y, z : y = s.trail[i].dl /\ z = s.trail[Len(s.trail)].dl
    OBVIOUS
  <2>5. y \in Nat /\ z \in Nat /\ y <= z /\ z <= e
    BY <1>1, <1>3, <2>2, <2>3, <2>4
  <2>6. y <= e
    BY <2>5
  <2> QED BY <2>1, <2>6 DEF Below
<1> QED BY <1>2, <1>3


(* r is s with the levels above dl undone. *)
Shrunk(d, r, s, dl) ==
  /\ r \in GoodStates(d) /\ Level(r) = dl
  /\ Len(r.trail) <= Len(s.trail)
  /\ \A i \in 1 .. Len(r.trail) : r.trail[i] = s.trail[i]
  /\ \A i \in Len(r.trail) + 1 .. Len(s.trail) : s.trail[i].dl > dl

(* The failed literals of a call are given up. *)
LEMMA ReleasedMakes ==
  ASSUME NEW d \in Databases, NEW s, Good(d, s), NEW f \in Nat, f <= Level(s)
  PROVE  /\ Shrunk(d, Backtrack(d, s, f), s, Level(s) - f)
         /\ f # 0 => ~Backtrack(d, s, f).conflict
<1>1. s \in State /\ s \in GoodStates(d) /\ Level(s) \in Nat /\ Len(s.trail) \in Nat
  BY StateFacts DEF Good, States, GoodStates
<1>2. CASE f = 0
  <2>1. Backtrack(d, s, f) = s /\ Level(s) - f = Level(s)
    BY <1>1, <1>2, BacktrackMakes
  <2> QED BY <1>1, <1>2, <2>1 DEF Shrunk
<1>3. CASE f # 0
  <2>1. Retracted(d, Backtrack(d, s, f), s, Level(s) - f) /\ ~Backtrack(d, s, f).conflict
    BY <1>1, <1>3, BacktrackMakes
  <2> QED BY <2>1 DEF Retracted, Cut, Shrunk, GoodStates, Good
<1> QED BY <1>2, <1>3

(* Levels undone in two steps. *)
LEMMA ShrunkTwice ==
  ASSUME NEW d \in Databases, NEW s \in State, NEW r, NEW q, NEW dl \in Nat, NEW e \in Nat,
         Shrunk(d, r, s, dl), Shrunk(d, q, r, e), e <= dl
  PROVE  Shrunk(d, q, s, e)
<1>1. r \in State /\ q \in State
  BY DEF Shrunk, GoodStates, Good, States
<1>2. /\ Len(s.trail) \in Nat /\ Len(r.trail) \in Nat /\ Len(q.trail) \in Nat
      /\ Len(r.trail) <= Len(s.trail) /\ Len(q.trail) <= Len(r.trail)
      /\ \A i \in 1 .. Len(s.trail) : s.trail[i].dl \in Nat
  BY <1>1, StateFacts DEF Shrunk
<1>3. \A i \in 1 .. Len(q.trail) : q.trail[i] = s.trail[i]
  BY <1>2 DEF Shrunk
<1>4. ASSUME NEW i \in Len(q.trail) + 1 .. Len(s.trail) PROVE s.trail[i].dl > e
  <2>1. CASE i \in 1 .. Len(r.trail)
    <3>1. r.trail[i].dl > e /\ s.trail[i] = r.trail[i]
      BY <2>1, <1>2 DEF Shrunk
    <3> QED BY <3>1
  <2>2. CASE i \notin 1 .. Len(r.trail)
    <3>1. i \in Len(r.trail) + 1 .. Len(s.trail) /\ i \in 1 .. Len(s.trail)
      BY <1>2, <2>2
    <3>2. s.trail[i].dl > dl /\ s.trail[i].dl \in Nat
      BY <1>2, <3>1 DEF Shrunk
    <3> PICK x : x = s.trail[i].dl
      OBVIOUS
    <3>3. x > e
      BY <3>2
    <3> QED BY <3>3
  <2> QED BY <2>1, <2>2
<1> QED BY <1>2, <1>3, <1>4 DEF Shrunk

(* The literals of the levels that stay are the same. *)
LEMMA ShrunkBelow ==
  ASSUME NEW d \in Databases, NEW s \in State, NEW dl \in Nat, NEW r, Shrunk(d, r, s, dl)
  PROVE  \A e \in Int : e <= dl => Below(r, e) = Below(s, e)
<1>1. r \in State
  BY DEF Shrunk, GoodStates, Good, States
<1> SUFFICES ASSUME NEW e \in Int, e <= dl PROVE Below(r, e) = Below(s, e)
  OBVIOUS
<1> QED BY <1>1, BelowCut DEF Shrunk

(* A call that promises no more holds as before if it sees the same. *)
LEMMA HeldSame ==
  ASSUME NEW d, NEW l, NEW k, NEW i \in Nat, NEW x, NEW y, Held(d, l, i, x),
         Pending(k.stack[i]) \subseteq Pending(l.stack[i]),
         \A j \in 1 .. i - 1 : k.current[j] = l.current[j],
         Below(k.solver, y) = Below(l.solver, x)
  PROVE  Held(d, k, i, y)
BY DEF Held, Reaches

(* A call that is not undoing sees the whole trail. *)
LEMMA OpenIs ==
  ASSUME NEW d \in Databases, NEW l \in Locals(d), NEW b, Placed(d, l, b), l.stack # <<>>,
         Last(l.stack).stage # "undo"
  PROVE  /\ Level(l.solver) = b[Len(l.stack)]
         /\ Below(l.solver, b[Len(l.stack)]) = TrueLits(l.solver)
<1>1. Level(l.solver) = b[Len(l.stack)]
  BY DEF Placed, LevelOf
<1>2. l.solver \in State /\ Stepwise(l.solver.trail) /\ Level(l.solver) \in Nat
  BY LocalFacts, StateFacts DEF Good, Orderly
<1>3. b[Len(l.stack)] \in Int /\ Level(l.solver) <= b[Len(l.stack)]
  BY <1>1, <1>2
<1> QED BY <1>1, <1>2, <1>3, BelowAll

-----------------------------------------------------------------------------
(* Where the last call is among the first n. *)
LEMMA LastIndex ==
  ASSUME NEW n \in Nat, n - 1 \in Nat \ {0}
  PROVE  n - 1 \in 1 .. n - 1 /\ n \in 1 .. n
OBVIOUS

(* The first call is not the last of several. *)
LEMMA FirstIndex ==
  ASSUME NEW n \in Nat \ {0}, n # 1
  PROVE  1 \in 1 .. n - 1
OBVIOUS

(* A call returns, its levels undone. *)
LEMMA ReturnFine ==
  ASSUME NEW d \in Databases, NEW l, Fine(d, l), l.stack # <<>>, NEW b, Placed(d, l, b),
         NEW k \in Locals(d), k.stack = Front(l.stack),
         Len(k.current) = Len(l.stack) - 1, \A i \in 1 .. Len(l.stack) - 1 : k.current[i] = l.current[i],
         Shrunk(d, k.solver, l.solver, Entry0(b, Len(l.stack)))
  PROVE  Fine(d, k)
<1> DEFINE n == Len(l.stack)
<1>1. l \in Locals(d) /\ Path(l) /\ Bases(b, l.stack)
  BY DEF Fine, Placed
<1>2. /\ n \in Nat \ {0} /\ l.stack \in Seq(FineFrame) /\ l.solver \in State
      /\ k.stack \in Seq(FineFrame) /\ k.current \in Seq(Lits)
  BY <1>1, LocalFacts
<1>3. Len(k.stack) = n - 1 /\ (\A i \in 1 .. n - 1 : k.stack[i] = l.stack[i])
      /\ (\A i \in 1 .. n - 1 : i \in 1 .. n)
  <2>1. Len(Front(l.stack)) = n - 1 /\ \A i \in 1 .. n - 1 : Front(l.stack)[i] = l.stack[i]
    BY <1>2, FrontFacts
  <2>2. \A i \in 1 .. n - 1 : i \in 1 .. n
    BY <1>2
  <2> QED BY <2>1, <2>2
<1>4. \A i \in 1 .. n - 1 : k.stack[i].stage = "undo" /\ k.stack[i].branches[1] = k.current[i]
  BY <1>1, <1>3 DEF Path
<1>5. k.stack # <<>> => /\ n - 1 \in 1 .. n - 1 /\ Last(k.stack) = k.stack[n - 1]
                        /\ Last(k.stack).stage = "undo"
  <2>1. ASSUME k.stack # <<>> PROVE n - 1 \in 1 .. n - 1 /\ Last(k.stack) = k.stack[n - 1]
    <3>1. Len(k.stack) \in Nat \ {0} /\ Last(k.stack) = k.stack[Len(k.stack)]
      BY <2>1, LocalFacts
    <3>2. n - 1 \in Nat \ {0}
      BY <3>1, <1>3
    <3>3. Len(k.stack) = n - 1
      BY <1>3
    <3>4. n - 1 \in 1 .. n - 1
      BY <3>2, <1>2, LastIndex
    <3> QED BY <3>1, <3>3, <3>4
  <2>2. ASSUME k.stack # <<>> PROVE Last(k.stack).stage = "undo"
    <3>1. n - 1 \in 1 .. n - 1 /\ Last(k.stack) = k.stack[n - 1]
      BY <2>1, <2>2
    <3>2. k.stack[n - 1].stage = "undo"
      BY <3>1, <1>4
    <3> QED BY <3>1, <3>2
  <2> QED BY <2>1, <2>2
<1>6. k.stack = <<>> => n = 1
  BY <1>2, <1>3
<1>7. Path(k)
  <2>1. k.stack = <<>> => k.current = <<>>
    <3>1. ASSUME k.stack = <<>> PROVE k.current = <<>>
      <4>1. Len(k.current) = 0
        BY <1>2, <1>6, <3>1
      <4> QED BY <4>1, <1>2
    <3> QED BY <3>1
  <2>2. \A i \in 1 .. (n - 1) - 1 : i \in 1 .. n - 1
    BY <1>2
  <2> QED BY <2>1, <2>2, <1>3, <1>4, <1>5 DEF Path
<1> DEFINE c == [i \in 1 .. n - 1 |-> b[i]]
<1>8. n \in 1 .. n /\ Entry0(b, n) \in Nat /\ \A i \in 1 .. n - 1 : b[i] \in Nat /\ b[i] < Entry0(b, n)
  BY <1>1, <1>2, BasesFacts
<1>9. Bases(c, k.stack)
  <2>1. c \in [1 .. n - 1 -> Nat] /\ \A i \in 1 .. n - 1 : c[i] = b[i]
    BY <1>8
  <2>2. \A i \in 2 .. n - 1 : i \in 2 .. n /\ i \in 1 .. n - 1 /\ i - 1 \in 1 .. n - 1
    BY <1>2
  <2>3. k.stack # <<>> => 1 \in 1 .. n - 1
    BY <1>2, <1>5
  <2> HIDE DEF c
  <2> QED BY <1>1, <1>3, <2>1, <2>2, <2>3, ZenonT(30) DEF Bases
<1>10. Level(k.solver) = LevelOf(k.stack, c)
  <2>1. Level(k.solver) = Entry0(b, n)
    BY DEF Shrunk
  <2>2. CASE k.stack = <<>>
    BY <2>1, <2>2, <1>6 DEF LevelOf, Entry0
  <2>3. CASE k.stack # <<>>
    <3>1. LevelOf(k.stack, c) = c[n - 1] + 1 /\ c[n - 1] = b[n - 1] /\ n # 1
      BY <1>2, <1>3, <1>5, <2>3 DEF LevelOf
    <3> QED BY <2>1, <3>1 DEF Entry0
  <2> QED BY <2>2, <2>3
<1>11. ASSUME NEW i \in 1 .. Len(k.stack) PROVE Held(d, k, i, c[i])
  <2>1. i \in 1 .. n - 1 /\ i \in 1 .. n /\ i \in Nat
    BY <1>2, <1>3
  <2>2. c[i] = b[i] /\ b[i] \in Int /\ b[i] <= Entry0(b, n)
    BY <1>8, <2>1
  <2>3. Below(k.solver, c[i]) = Below(l.solver, b[i])
    BY <2>2, <1>2, <1>8, ShrunkBelow
  <2>4. Held(d, l, i, b[i])
    BY <2>1 DEF Placed
  <2>5. \A j \in 1 .. i - 1 : k.current[j] = l.current[j]
    BY <2>1, <1>2
  <2> QED BY <2>1, <2>3, <2>4, <2>5, <1>3, HeldSame
<1>12. Open(d, k)
  BY <1>5 DEF Open
<1> HIDE DEF c
<1>13. Placed(d, k, c)
  BY <1>9, <1>10, <1>11, <1>12 DEF Placed
<1> QED BY <1>7, <1>13 DEF Fine


(* A call goes on, with literals of its own level or without. *)
LEMMA GoesOnFine ==
  ASSUME NEW d \in Databases, NEW l, Fine(d, l), l.stack # <<>>, NEW b, Placed(d, l, b),
         NEW f \in FineFrame, f.stage # "undo",
         NEW k \in Locals(d), k.stack = Append(Front(l.stack), f),
         Len(k.current) = Len(l.stack) - 1, \A i \in 1 .. Len(l.stack) - 1 : k.current[i] = l.current[i],
         Level(k.solver) = Entry0(b, Len(l.stack)) + f.failed,
         \A i \in 1 .. Len(l.stack) - 1 : Below(k.solver, b[i]) = Below(l.solver, b[i]),
         \A m \in TotalModels(d) : Reaches(l, Len(l.stack), m) => Agrees(k.solver, m),
         \A lit \in Pending(f) : IsUndefLit(k.solver, lit)
  PROVE  Fine(d, k)
<1> DEFINE n == Len(l.stack)
<1>1. l \in Locals(d) /\ Path(l) /\ Bases(b, l.stack)
  BY DEF Fine, Placed
<1>2. n \in Nat \ {0} /\ n \in Nat /\ n \in 1 .. n /\ l.stack \in Seq(FineFrame) /\ k.solver \in State
      /\ f.failed \in Nat
  BY <1>1, LocalFacts, FrameFacts
<1>3. /\ Len(k.stack) = n /\ k.stack # <<>> /\ k.stack[n] = f /\ Last(k.stack) = f
      /\ \A i \in 1 .. n - 1 : k.stack[i] = l.stack[i]
  <2>1. LET r == Append(Front(l.stack), f) IN
          /\ Len(r) = n /\ r # <<>> /\ r[n] = f /\ Last(r) = f
          /\ \A i \in 1 .. n - 1 : r[i] = l.stack[i]
    BY <1>2, ReplaceLast
  <2> QED BY <2>1
<1>4. \A i \in 1 .. n - 1 : i \in 1 .. n /\ i \in Nat
  BY <1>2
<1>5. \A i \in 1 .. n : i = n \/ i \in 1 .. n - 1
  BY <1>2
<1>6. Path(k)
  <2>1. \A i \in 1 .. n - 1 : k.stack[i].stage = "undo" /\ k.stack[i].branches[1] = k.current[i]
    BY <1>1, <1>3, <1>4 DEF Path
  <2> QED BY <2>1, <1>3, <1>5 DEF Path
<1> DEFINE c == [i \in 1 .. n |-> IF i = n THEN Entry0(b, n) + f.failed ELSE b[i]]
<1>7. Entry0(b, n) \in Nat /\ \A i \in 1 .. n - 1 : b[i] \in Nat
  BY <1>1, <1>2, BasesFacts
<1>8. c \in [1 .. n -> Nat] /\ c[n] = Entry0(b, n) + f.failed
      /\ \A i \in 1 .. n - 1 : c[i] = b[i]
  <2>1. Entry0(b, n) + f.failed \in Nat
    BY <1>2, <1>7
  <2>2. \A i \in 1 .. n : c[i] \in Nat
    BY <2>1, <1>5, <1>7
  <2>3. \A i \in 1 .. n - 1 : i # n
    BY <1>2
  <2> QED BY <2>2, <2>3, <1>2, <1>4
<1> HIDE DEF c
<1>9. Bases(c, k.stack)
  <2>1. c[1] = k.stack[1].failed
    <3>1. CASE n = 1
      BY <3>1, <1>2, <1>3, <1>8 DEF Entry0
    <3>2. CASE n # 1
      <4>1. 1 \in 1 .. n - 1
        BY <3>2, <1>2, FirstIndex
      <4> QED BY <4>1, <1>1, <1>3, <1>8 DEF Bases
    <3> QED BY <3>1, <3>2
  <2>2. ASSUME NEW i \in 2 .. n PROVE c[i] = c[i - 1] + 1 + k.stack[i].failed
    <3>1. i \in 1 .. n /\ i - 1 \in 1 .. n - 1 /\ i # 1
      BY <1>2
    <3>2. c[i - 1] = b[i - 1]
      BY <3>1, <1>8
    <3>3. CASE i = n
      <4>1. c[i] = b[i - 1] + 1 + f.failed
        BY <3>1, <3>3, <1>8 DEF Entry0
      <4> QED BY <4>1, <3>2, <3>3, <1>3
    <3>4. CASE i # n
      <4>1. i \in 1 .. n - 1
        BY <3>1, <3>4, <1>5
      <4>2. b[i] = b[i - 1] + 1 + l.stack[i].failed
        BY <1>1 DEF Bases
      <4> QED BY <4>1, <4>2, <3>2, <1>3, <1>8
    <3> QED BY <3>3, <3>4
  <2> QED BY <2>1, <2>2, <1>3, <1>8 DEF Bases
<1>10. Level(k.solver) = LevelOf(k.stack, c)
  BY <1>3, <1>8 DEF LevelOf
<1>11. ASSUME NEW i \in 1 .. n - 1 PROVE Held(d, k, i, c[i])
  <2>1. Held(d, l, i, b[i])
    BY <1>4 DEF Placed
  <2>2. \A j \in 1 .. i - 1 : k.current[j] = l.current[j]
    BY <1>2
  <2>3. i \in Nat /\ k.stack[i] = l.stack[i] /\ Below(k.solver, c[i]) = Below(l.solver, b[i])
    BY <1>3, <1>4, <1>8
  <2> QED BY <2>1, <2>2, <2>3, HeldSame
<1>12. \A m : Reaches(k, n, m) <=> Reaches(l, n, m)
  BY DEF Reaches
<1>13. Held(d, k, n, c[n])
  <2>1. Below(k.solver, c[n]) = TrueLits(k.solver)
    <3>1. Stepwise(k.solver.trail)
      BY LocalFacts DEF Good, Orderly
    <3>2. c[n] \in Int /\ Level(k.solver) <= c[n]
      BY <1>2, <1>8
    <3> QED BY <3>1, <3>2, <1>2, BelowAll
  <2>2. \A m \in TotalModels(d) : Reaches(k, n, m) => Below(k.solver, c[n]) \subseteq m
    BY <2>1, <1>12 DEF Agrees
  <2>3. \A lit \in Pending(k.stack[n]) :
          lit \notin Below(k.solver, c[n]) /\ -lit \notin Below(k.solver, c[n])
    BY <2>1, <1>3 DEF IsUndefLit
  <2> QED BY <2>2, <2>3 DEF Held
<1>14. \A i \in 1 .. n : Held(d, k, i, c[i])
  BY <1>5, <1>11, <1>13
<1>15. Open(d, k)
  BY <1>3, <1>12 DEF Open
<1>16. Placed(d, k, c)
  BY <1>3, <1>9, <1>10, <1>14, <1>15 DEF Placed
<1> QED BY <1>6, <1>16 DEF Fine


(* Thresholds are natural numbers. *)
LEMMA ThetaType ==
  ASSUME NEW t \in Nat
  PROVE  Raised(t) \in Nat /\ Lowered(t) \in Nat
<1>1. t * 105 \in Nat /\ t * 7 \in Nat
  OBVIOUS
<1>2. (t * 105) \div 100 \in Nat /\ (t * 7) \div 10 \in Nat
  BY <1>1, Quotient
<1> QED BY <1>2 DEF Raised, Lowered

(* A call on to its next stage. *)
LEMMA FrameStages ==
  ASSUME NEW f \in FineFrame
  PROVE  /\ LET g == [f EXCEPT !.stage = "look"] IN
              g \in FineFrame /\ g.stage = "look" /\ g.failed = f.failed /\ g.id = f.id /\ g.group = f.group
         /\ f.stage \in {"branch", "undo"} =>
              LET g == [f EXCEPT !.stage = "undo"] IN
                /\ g \in FineFrame /\ g.stage = "undo" /\ g.failed = f.failed /\ g.branches = f.branches
                /\ g.id = f.id /\ g.group = f.group
         /\ f.stage # "enter" =>
              LET g == [f EXCEPT !.failed = @ + 1] IN
                /\ g \in FineFrame /\ g.stage = f.stage /\ g.failed = f.failed + 1 /\ g.branches = f.branches
                /\ g.id = f.id /\ g.group = f.group
BY DEF FineFrame

(* What an invariant worker with a call consists of. *)
LEMMA FineFacts ==
  ASSUME NEW d \in Databases, NEW l, Fine(d, l), l.stack # <<>>
  PROVE  /\ l \in Locals(d) /\ Path(l) /\ Len(l.stack) \in Nat \ {0} /\ Last(l.stack) \in FineFrame
         /\ Last(l.stack) = l.stack[Len(l.stack)] /\ Len(l.stack) \in 1 .. Len(l.stack)
         /\ Last(l.stack).stage # "undo" => Len(l.current) = Len(l.stack) - 1
         /\ Last(l.stack).stage = "undo" => Len(l.current) = Len(l.stack)
<1>1. l \in Locals(d) /\ Path(l)
  BY DEF Fine
<1>2. Len(l.stack) \in Nat \ {0} /\ Last(l.stack) = l.stack[Len(l.stack)] /\ Last(l.stack) \in FineFrame
  BY <1>1, LocalFacts
<1>3. Len(l.stack) \in 1 .. Len(l.stack)
  BY <1>2
<1> QED BY <1>1, <1>2, <1>3 DEF Path

(* Enter gives a worker its types. *)
LEMMA EnteredType ==
  ASSUME NEW d \in Databases, NEW opt, NEW l, Fine(d, l), l.stack # <<>>
  PROVE  Entered(opt, l) \in Locals(d)
<1> DEFINE k == Entered(opt, l)
           f == [Last(l.stack) EXCEPT !.stage = "look"]
<1>1. /\ l.solver \in GoodStates(d) /\ l.stack \in Seq(FineFrame) /\ l.current \in Seq(Lits)
      /\ l.cubes \in Seq(Seq(Lits)) /\ l.sat \in BOOLEAN /\ l.theta \in Nat
      /\ Last(l.stack) \in FineFrame
  BY FineFacts, LocalFacts
<1>2. Front(l.stack) \in Seq(FineFrame) /\ f \in FineFrame
  BY <1>1, FrontFacts, FrameStages
<1> HIDE DEF f
<1>3. Append(Front(l.stack), f) \in Seq(FineFrame)
  BY <1>2
<1>4. Append(l.cubes, l.current) \in Seq(Seq(Lits))
  BY <1>1
<1>5. Raised(l.theta) \in Nat
  BY <1>1, ThetaType
<1>6. k.cubes \in Seq(Seq(Lits)) /\ k.stack \in Seq(FineFrame) /\ k.theta \in Nat
      /\ k.solver = l.solver /\ k.current = l.current /\ k.sat = l.sat
  BY <1>1, <1>2, <1>3, <1>4, <1>5 DEF Entered, f
<1>7. k = [solver |-> k.solver, stack |-> k.stack, current |-> k.current, cubes |-> k.cubes,
           sat |-> k.sat, theta |-> k.theta]
  BY DEF Entered
<1> HIDE DEF k
<1> QED BY <1>1, <1>6, <1>7 DEF Locals, k

(* Enter preserves the invariant: nothing was assigned. *)
LEMMA EnteredFine ==
  ASSUME NEW d \in Databases, NEW opt, NEW l, Fine(d, l), l.stack # <<>>, Last(l.stack).stage = "enter"
  PROVE  Fine(d, Entered(opt, l))
<1> DEFINE k == Entered(opt, l)
           n == Len(l.stack)
<1>1. PICK b : Placed(d, l, b)
  BY DEF Fine
<1>2. /\ l \in Locals(d) /\ n \in Nat \ {0} /\ n \in 1 .. n /\ Last(l.stack) = l.stack[n]
      /\ Len(l.current) = n - 1 /\ Last(l.stack) \in FineFrame
      /\ l.stack \in Seq(FineFrame) /\ l.solver \in GoodStates(d) /\ l.solver \in State
  BY FineFacts, LocalFacts
<1>3. Last(l.stack).failed = 0
  BY <1>2, FrameFacts
<1>4. Level(l.solver) = Entry0(b, n)
  <2>1. Level(l.solver) = b[n]
    BY <1>1, <1>2, OpenIs
  <2>2. b[n] \in Nat /\ b[n] - 0 = Entry0(b, n)
    BY <1>1, <1>2, <1>3, BasesFacts DEF Placed
  <2> QED BY <2>1, <2>2
<1>5. k \in Locals(d) /\ k.solver = l.solver /\ k.current = l.current
  BY EnteredType DEF Entered
<1>6. k.stack \in {Front(l.stack), Append(Front(l.stack), [Last(l.stack) EXCEPT !.stage = "look"])}
  BY DEF Entered
<1> HIDE DEF k
<1>7. CASE k.stack = Front(l.stack)
  <2>1. Shrunk(d, l.solver, l.solver, Entry0(b, n))
    <3>1. Len(l.solver.trail) \in Nat
      BY <1>2, StateFacts
    <3> QED BY <1>2, <1>4, <3>1 DEF Shrunk
  <2> QED BY <2>1, <1>1, <1>2, <1>5, <1>7, ReturnFine DEF k
<1>8. CASE k.stack = Append(Front(l.stack), [Last(l.stack) EXCEPT !.stage = "look"])
  <2> DEFINE f == [Last(l.stack) EXCEPT !.stage = "look"]
  <2>1. f \in FineFrame /\ f.stage = "look" /\ f.failed = 0
    BY <1>2, <1>3, FrameStages
  <2>2. \A m \in TotalModels(d) : Reaches(l, n, m) => Agrees(k.solver, m)
    BY <1>1, <1>5 DEF Placed, Open
  <2>3. k.stack = Append(Front(l.stack), f)
    BY <1>8
  <2> HIDE DEF f
  <2>4. Pending(f) = {}
    BY <2>1 DEF Pending
  <2>5. Level(k.solver) = Entry0(b, n) + f.failed
    <3>1. Level(l.solver) \in Nat
      BY <1>2, StateFacts
    <3> QED BY <1>4, <1>5, <2>1, <3>1
  <2> QED BY <1>1, <1>2, <1>5, <2>1, <2>2, <2>3, <2>4, <2>5, GoesOnFine DEF k
<1> QED BY <1>6, <1>7, <1>8


(* What a call has found when it looked. *)
LEMMA LookFacts ==
  ASSUME NEW d \in Databases, NEW opt, NEW l, Fine(d, l), l.stack # <<>>, NEW look,
         look = Looked(d, opt, l.solver, Len(l.current))
  PROVE  /\ Outcome(d, look, l.solver) /\ look.solver \in GoodStates(d)
         /\ Good(d, look.solver) /\ look.solver \in State
         /\ look.outcome \in {"open", "refuted", "forced"}
         /\ look.outcome = "open" /\ look.best.var # 0 =>
              look.best.var \in Vars /\ IsUndefLit(l.solver, look.best.var)
<1>1. l \in Locals(d) /\ Good(d, l.solver)
  BY FineFacts, LocalFacts
<1>2. look \in Looks(d, opt, Len(l.current)) /\ Outcome(d, look, l.solver)
  BY <1>1, LookedMakes
<1>3. look.solver \in GoodStates(d) /\ look.outcome \in {"open", "refuted", "forced"}
  BY <1>2 DEF Looks
<1>4. Good(d, look.solver) /\ look.solver \in State
  BY <1>3 DEF GoodStates, Good, States
<1> QED BY <1>2, <1>3, <1>4 DEF Outcome

(* LookAhead preserves it when the call returns. *)
LEMMA ClosedFine ==
  ASSUME NEW d \in Databases, NEW opt, NEW l, Fine(d, l), l.stack # <<>>, Last(l.stack).stage = "look",
         NEW look, look = Looked(d, opt, l.solver, Len(l.current)), look.outcome # "forced"
  PROVE  Fine(d, Closed(d, opt, l, look))
<1> DEFINE k == Closed(d, opt, l, look)
           n == Len(l.stack)
<1>1. PICK b : Placed(d, l, b)
  BY DEF Fine
<1>2. /\ l \in Locals(d) /\ n \in Nat \ {0} /\ n \in 1 .. n /\ Last(l.stack) = l.stack[n]
      /\ Len(l.current) = n - 1 /\ Last(l.stack) \in FineFrame
      /\ l.stack \in Seq(FineFrame) /\ l.current \in Seq(Lits)
      /\ l.cubes \in Seq(Seq(Lits)) /\ l.sat \in BOOLEAN /\ l.theta \in Nat
  BY FineFacts, LocalFacts
<1>3. /\ look.solver \in GoodStates(d) /\ Good(d, look.solver) /\ look.solver.trail = l.solver.trail
      /\ Level(look.solver) = Level(l.solver)
  <2>1. look.solver \in GoodStates(d) /\ Good(d, look.solver) /\ Outcome(d, look, l.solver)
    BY LookFacts
  <2>2. look.solver.trail = l.solver.trail
    BY <2>1 DEF Outcome
  <2> QED BY <2>1, <2>2, SameTrail
<1>4. Level(look.solver) = b[n]
  BY <1>1, <1>2, <1>3, OpenIs
<1>5. Last(l.stack).failed \in Nat /\ Last(l.stack).failed <= Level(look.solver)
      /\ Level(look.solver) - Last(l.stack).failed = Entry0(b, n)
  BY <1>1, <1>2, <1>4, BasesFacts DEF Placed
<1>6. Shrunk(d, k.solver, l.solver, Entry0(b, n))
  <2>1. Shrunk(d, k.solver, look.solver, Entry0(b, n))
    BY <1>3, <1>5, ReleasedMakes DEF Closed
  <2> QED BY <2>1, <1>3 DEF Shrunk
<1>7. k.stack = Front(l.stack) /\ k.current = l.current /\ k.theta = l.theta /\ k.sat \in BOOLEAN
  BY <1>2 DEF Closed
<1>8. k \in Locals(d)
  <2>1. k.stack \in Seq(FineFrame) /\ k.solver \in GoodStates(d)
    BY <1>2, <1>6, <1>7, FrontFacts DEF Shrunk
  <2>2. k.cubes \in Seq(Seq(Lits))
    <3>1. Append(l.cubes, l.current) \in Seq(Seq(Lits))
      BY <1>2
    <3> QED BY <1>2, <3>1 DEF Closed
  <2>3. k = [solver |-> k.solver, stack |-> k.stack, current |-> k.current, cubes |-> k.cubes,
             sat |-> k.sat, theta |-> k.theta]
    BY DEF Closed
  <2> HIDE DEF k
  <2> QED BY <1>2, <1>7, <2>1, <2>2, <2>3 DEF Locals
<1> HIDE DEF k
<1> QED BY <1>1, <1>2, <1>6, <1>7, <1>8, ReturnFine DEF k

(* LookAhead preserves it when a literal is forced: the level is that of a failed
   literal, and what is on it follows from the path. *)
LEMMA ForcedFine ==
  ASSUME NEW d \in Databases, NEW opt, NEW l, Fine(d, l), l.stack # <<>>, Last(l.stack).stage = "look",
         NEW look, look = Looked(d, opt, l.solver, Len(l.current)), look.outcome = "forced"
  PROVE  Fine(d, Forced(l, look))
<1> DEFINE k == Forced(l, look)
           n == Len(l.stack)
           f == [Last(l.stack) EXCEPT !.failed = @ + 1]
<1>1. PICK b : Placed(d, l, b)
  BY DEF Fine
<1>2. /\ l \in Locals(d) /\ n \in Nat \ {0} /\ n \in 1 .. n /\ Last(l.stack) = l.stack[n]
      /\ Len(l.current) = n - 1 /\ Last(l.stack) \in FineFrame /\ l.solver \in State
      /\ l.stack \in Seq(FineFrame) /\ l.current \in Seq(Lits)
      /\ l.cubes \in Seq(Seq(Lits)) /\ l.sat \in BOOLEAN /\ l.theta \in Nat
  BY FineFacts, LocalFacts
<1>3. /\ look.solver \in GoodStates(d) /\ look.solver \in State /\ Outcome(d, look, l.solver)
  BY LookFacts
<1>4. f \in FineFrame /\ f.stage = "look" /\ f.failed = Last(l.stack).failed + 1
  BY <1>2, FrameStages
<1>5. Level(l.solver) = b[n] /\ Level(look.solver) = b[n] + 1
  BY <1>1, <1>2, <1>3, OpenIs DEF Outcome
<1>6. b[n] \in Nat /\ Last(l.stack).failed \in Nat /\ b[n] - Last(l.stack).failed = Entry0(b, n)
      /\ Entry0(b, n) \in Nat /\ \A i \in 1 .. n - 1 : b[i] \in Nat /\ b[i] < b[n]
  BY <1>1, <1>2, BasesFacts DEF Placed
<1>7. k.stack = Append(Front(l.stack), f) /\ k.current = l.current /\ k.solver = look.solver
      /\ k.cubes = l.cubes /\ k.theta = l.theta /\ k.sat = l.sat
  BY DEF Forced
<1> HIDE DEF f
<1>8. k \in Locals(d)
  <2>1. k.stack \in Seq(FineFrame)
    <3>1. Append(Front(l.stack), f) \in Seq(FineFrame)
      BY <1>2, <1>4, ReplaceLast
    <3> QED BY <3>1, <1>7
  <2>2. k = [solver |-> k.solver, stack |-> k.stack, current |-> k.current, cubes |-> k.cubes,
             sat |-> k.sat, theta |-> k.theta]
    BY DEF Forced
  <2> HIDE DEF k
  <2> QED BY <1>2, <1>3, <1>7, <2>1, <2>2 DEF Locals
<1> HIDE DEF k
<1>9. Level(k.solver) = Entry0(b, n) + f.failed
  <2> PICK x, y, e : x = b[n] /\ y = Last(l.stack).failed /\ e = Entry0(b, n)
    OBVIOUS
  <2>1. x + 1 = e + (y + 1)
    BY <1>6
  <2> QED BY <2>1, <1>4, <1>5, <1>7
<1>10. ASSUME NEW i \in 1 .. n - 1 PROVE Below(k.solver, b[i]) = Below(l.solver, b[i])
  <2>1. \A j \in Len(l.solver.trail) + 1 .. Len(look.solver.trail) : look.solver.trail[j].dl > b[n]
    <3>1. \A j \in Len(l.solver.trail) + 1 .. Len(look.solver.trail) :
            look.solver.trail[j].dl = b[n] + 1
      BY <1>3, <1>5 DEF Outcome
    <3>2. b[n] + 1 > b[n]
      BY <1>6
    <3> QED BY <3>1, <3>2
  <2>2. b[i] \in Int /\ b[i] <= b[n] /\ b[n] \in Int
    BY <1>6
  <2>3. Below(l.solver, b[i]) = Below(look.solver, b[i])
    <3>1. /\ Len(l.solver.trail) <= Len(look.solver.trail)
          /\ \A j \in 1 .. Len(l.solver.trail) : l.solver.trail[j] = look.solver.trail[j]
      BY <1>3 DEF Outcome
    <3> QED BY <1>2, <1>3, <2>1, <2>2, <3>1, BelowCut
  <2> QED BY <2>3, <1>7
<1>11. \A m \in TotalModels(d) : Reaches(l, n, m) => Agrees(k.solver, m)
  BY <1>1, <1>3, <1>7 DEF Outcome, Placed, Open
<1>12. Pending(f) = {}
  BY <1>4 DEF Pending
<1> QED BY <1>1, <1>2, <1>4, <1>7, <1>8, <1>9, <1>10, <1>11, <1>12, GoesOnFine DEF k


(* Sequences of up to two elements. *)
LEMMA ShortSequences ==
  /\ \A S : <<>> \in Seq(S)
  /\ \A S, x : x \in S => <<x>> \in Seq(S)
  /\ \A S, x, y : x \in S /\ y \in S => <<x, y>> \in Seq(S)
  /\ ToSet(<<>>) = {}
  /\ \A x : ToSet(<<x>>) = {x} /\ Tail(<<x>>) = <<>> /\ Len(<<x>>) = 1
  /\ \A x, y : ToSet(<<x, y>>) = {x, y} /\ Tail(<<x, y>>) = <<y>>
<1>1. \A S : <<>> \in Seq(S)
  OBVIOUS
<1>2. \A S, x : x \in S => <<x>> \in Seq(S)
  OBVIOUS
<1>3. \A S, x, y : x \in S /\ y \in S => <<x, y>> \in Seq(S)
  OBVIOUS
<1>4. ToSet(<<>>) = {}
  BY DEF ToSet
<1>5. \A x : ToSet(<<x>>) = {x}
  BY DEF ToSet
<1>6. \A x : Tail(<<x>>) = <<>> /\ Len(<<x>>) = 1
  OBVIOUS
<1>7. \A x, y : ToSet(<<x, y>>) = {x, y}
  BY DEF ToSet
<1>8. \A x, y : Tail(<<x, y>>) = <<y>>
  OBVIOUS
<1> QED BY <1>1, <1>2, <1>3, <1>4, <1>5, <1>6, <1>7, <1>8

(* The group of a call is divided into halves that are not empty. *)
LEMMA Halves ==
  ASSUME NEW g \in Nat \ {0}
  PROVE  /\ g \div 2 \in Nat
         /\ g # 1 => g \div 2 \in 1 .. g - 1
OBVIOUS

(* The call of the next level, in its part of the group. *)
LEMMA ChildType ==
  ASSUME NEW f \in FineFrame
  PROVE  /\ Child(f) \in FineFrame /\ Child(f).stage = "enter" /\ Child(f).failed = 0
         /\ f.group = 1 => Child(f).id = f.id /\ Child(f).group = 1
         /\ f.group # 1 => LET left == f.group \div 2 IN
              /\ f.id < left => Child(f).id = f.id /\ Child(f).group = left
              /\ ~(f.id < left) => Child(f).id = f.id - left /\ Child(f).group = f.group - left
<1>1. f.id \in Nat /\ f.group \in Nat \ {0} /\ f.id < f.group
  BY FrameFacts
<1>2. \A id \in Nat, g \in Nat \ {0} : id < g =>
        /\ Frame(id, g) \in FineFrame /\ Frame(id, g).stage = "enter" /\ Frame(id, g).failed = 0
        /\ Frame(id, g).id = id /\ Frame(id, g).group = g
  <2> SUFFICES ASSUME NEW id \in Nat, NEW g \in Nat \ {0}, id < g
               PROVE  /\ Frame(id, g) \in FineFrame /\ Frame(id, g).stage = "enter" /\ Frame(id, g).failed = 0
                      /\ Frame(id, g).id = id /\ Frame(id, g).group = g
    OBVIOUS
  <2>1. <<>> \in Seq(Lits)
    OBVIOUS
  <2> QED BY <2>1 DEF Frame, FineFrame
<1> PICK id, g, left : id = f.id /\ g = f.group /\ left = f.group \div 2
  OBVIOUS
<1>3. id \in Nat /\ g \in Nat \ {0} /\ id < g /\ left \in Nat /\ (g # 1 => left \in 1 .. g - 1)
  BY <1>1, Halves
<1>4. CASE g = 1
  <2>1. Child(f) = Frame(id, 1)
    BY <1>4 DEF Child
  <2> QED BY <2>1, <1>2, <1>3, <1>4
<1>5. CASE g # 1 /\ id < left
  <2>1. Child(f) = Frame(id, left)
    BY <1>5 DEF Child
  <2>2. left \in Nat \ {0}
    BY <1>3, <1>5
  <2> QED BY <2>1, <2>2, <1>2, <1>3, <1>5
<1>6. CASE g # 1 /\ ~(id < left)
  <2>1. Child(f) = Frame(id - left, g - left)
    BY <1>6 DEF Child
  <2>2. id - left \in Nat /\ g - left \in Nat \ {0} /\ id - left < g - left
    BY <1>3, <1>6
  <2> QED BY <2>1, <2>2, <1>2, <1>3, <1>6
<1> QED BY <1>4, <1>5, <1>6

(* Which branches a call takes: both, or that of its side. *)
LEMMA BranchesMake ==
  ASSUME NEW f \in FineFrame, NEW best, best.var \in Vars
  PROVE  /\ First(best) \in Lits /\ Second(best) = -First(best) /\ Second(best) \in Lits
         /\ First(best) \in {best.var, -best.var} /\ Second(best) \in {best.var, -best.var}
         /\ First(best) # Second(best)
         /\ Branches(f, best) \in Seq(Lits)
         /\ ToSet(Branches(f, best)) \subseteq {best.var, -best.var}
         /\ f.group = 1 => Branches(f, best) = <<First(best), Second(best)>>
         /\ f.group # 1 => \/ f.id < f.group \div 2 /\ Branches(f, best) = <<First(best)>>
                           \/ ~(f.id < f.group \div 2) /\ Branches(f, best) = <<Second(best)>>
         /\ LET g == [f EXCEPT !.stage = "branch", !.branches = Branches(f, best)] IN
              /\ g \in FineFrame /\ g.stage = "branch" /\ g.branches = Branches(f, best)
              /\ g.failed = f.failed /\ g.id = f.id /\ g.group = f.group
<1> PICK v : v = best.var
  OBVIOUS
<1>1. v \in Lits /\ -v \in Lits /\ -(-v) = v /\ v # -v
  BY LitFacts DEF Lits
<1>2. First(best) \in {v, -v}
  BY DEF First
<1>3. Second(best) = -First(best)
  BY DEF Second
<1> PICK x, y : x = First(best) /\ y = Second(best)
  OBVIOUS
<1>4. x \in {v, -v} /\ y = -x
  BY <1>2, <1>3
<1>5. x \in Lits /\ y \in Lits /\ y \in {v, -v} /\ x # y
  BY <1>1, <1>4
<1>6. /\ f.group = 1 => Branches(f, best) = <<x, y>>
      /\ f.group # 1 => \/ f.id < f.group \div 2 /\ Branches(f, best) = <<x>>
                        \/ ~(f.id < f.group \div 2) /\ Branches(f, best) = <<y>>
  BY DEF Branches
<1> PICK q : q = Branches(f, best)
  OBVIOUS
<1>7. q = <<x, y>> \/ q = <<x>> \/ q = <<y>>
  BY <1>6
<1>8. q \in Seq(Lits) /\ ToSet(q) \subseteq {v, -v}
  <2>1. CASE q = <<x, y>>
    BY <2>1, <1>4, <1>5, ShortSequences
  <2>2. CASE q = <<x>>
    BY <2>2, <1>4, <1>5, ShortSequences
  <2>3. CASE q = <<y>>
    BY <2>3, <1>4, <1>5, ShortSequences
  <2> QED BY <1>7, <2>1, <2>2, <2>3
<1>9. Len(q) = 1 \/ (Len(q) = 2 /\ f.group = 1 /\ q[2] = -q[1])
  BY <1>6, <1>4
<1>10. LET g == [f EXCEPT !.stage = "branch", !.branches = q] IN
         /\ g \in FineFrame /\ g.stage = "branch" /\ g.branches = q
         /\ g.failed = f.failed /\ g.id = f.id /\ g.group = f.group
  BY <1>8, <1>9 DEF FineFrame
<1> QED BY <1>2, <1>3, <1>4, <1>5, <1>6, <1>8, <1>10

(* LookAhead preserves the invariant when it finds a variable to branch on. *)
LEMMA SplitFine ==
  ASSUME NEW d \in Databases, NEW opt, NEW l, Fine(d, l), l.stack # <<>>, Last(l.stack).stage = "look",
         NEW look, look = Looked(d, opt, l.solver, Len(l.current)), look.outcome = "open",
         look.best.var # 0
  PROVE  Fine(d, Split(l, look))
<1> DEFINE k == Split(l, look)
           n == Len(l.stack)
           f == [Last(l.stack) EXCEPT !.stage = "branch", !.branches = Branches(Last(l.stack), look.best)]
<1>1. PICK b : Placed(d, l, b)
  BY DEF Fine
<1>2. /\ l \in Locals(d) /\ n \in Nat \ {0} /\ n \in 1 .. n /\ Last(l.stack) = l.stack[n]
      /\ Len(l.current) = n - 1 /\ Last(l.stack) \in FineFrame /\ l.solver \in State
      /\ l.stack \in Seq(FineFrame) /\ l.current \in Seq(Lits)
      /\ l.cubes \in Seq(Seq(Lits)) /\ l.sat \in BOOLEAN /\ l.theta \in Nat
  BY FineFacts, LocalFacts
<1>3. /\ look.solver \in GoodStates(d) /\ look.solver \in State /\ Outcome(d, look, l.solver)
      /\ look.best.var \in Vars /\ IsUndefLit(l.solver, look.best.var)
  BY LookFacts
<1>4. look.solver.trail = l.solver.trail
  BY <1>3 DEF Outcome
<1>5. /\ f \in FineFrame /\ f.stage = "branch" /\ f.failed = Last(l.stack).failed
      /\ ToSet(f.branches) \subseteq {look.best.var, -look.best.var}
  BY <1>2, <1>3, BranchesMake
<1>6. Level(look.solver) = b[n]
  BY <1>1, <1>2, <1>4, OpenIs, SameTrail
<1>7. b[n] \in Nat /\ Last(l.stack).failed \in Nat /\ b[n] - Last(l.stack).failed = Entry0(b, n)
      /\ Entry0(b, n) \in Nat
  BY <1>1, <1>2, BasesFacts DEF Placed
<1>8. k.stack = Append(Front(l.stack), f) /\ k.current = l.current /\ k.solver = look.solver
      /\ k.cubes = l.cubes /\ k.theta = l.theta /\ k.sat = l.sat
  BY DEF Split
<1> HIDE DEF f
<1>9. k \in Locals(d)
  <2>1. k.stack \in Seq(FineFrame)
    <3>1. Append(Front(l.stack), f) \in Seq(FineFrame)
      BY <1>2, <1>5, ReplaceLast
    <3> QED BY <3>1, <1>8
  <2>2. k = [solver |-> k.solver, stack |-> k.stack, current |-> k.current, cubes |-> k.cubes,
             sat |-> k.sat, theta |-> k.theta]
    BY DEF Split
  <2> HIDE DEF k
  <2> QED BY <1>2, <1>3, <1>8, <2>1, <2>2 DEF Locals
<1> HIDE DEF k
<1>10. Level(k.solver) = Entry0(b, n) + f.failed
  <2> PICK x, y, e : x = b[n] /\ y = Last(l.stack).failed /\ e = Entry0(b, n)
    OBVIOUS
  <2>1. x = e + y
    BY <1>7
  <2> QED BY <2>1, <1>5, <1>6, <1>8
<1>11. \A i \in 1 .. n - 1 : Below(k.solver, b[i]) = Below(l.solver, b[i])
  <2>1. k.solver.trail = l.solver.trail
    BY <1>4, <1>8
  <2> QED BY <2>1 DEF Below
<1>12. \A m \in TotalModels(d) : Reaches(l, n, m) => Agrees(k.solver, m)
  <2>1. \A m \in TotalModels(d) : Agrees(l.solver, m) => Agrees(look.solver, m)
    BY <1>3 DEF Outcome
  <2>2. \A m \in TotalModels(d) : Reaches(l, n, m) => Agrees(l.solver, m)
    BY <1>1 DEF Placed, Open
  <2> QED BY <2>1, <2>2, <1>8
<1>13. \A lit \in Pending(f) : IsUndefLit(k.solver, lit)
  <2>1. IsUndefLit(l.solver, look.best.var) /\ IsUndefLit(l.solver, -look.best.var)
    <3>1. look.best.var \in Lits
      BY <1>3 DEF Lits
    <3> QED BY <3>1, <1>3, UndefNegated
  <2>2. IsUndefLit(k.solver, look.best.var) /\ IsUndefLit(k.solver, -look.best.var)
    BY <2>1, <1>4, <1>8, SameTrail
  <2>3. Pending(f) \subseteq {look.best.var, -look.best.var}
    BY <1>5 DEF Pending
  <2> QED BY <2>2, <2>3
<1>14. f.stage # "undo"
  BY <1>5
<1>15. /\ Len(k.current) = Len(l.stack) - 1
       /\ \A i \in 1 .. Len(l.stack) - 1 : k.current[i] = l.current[i]
  BY <1>2, <1>8
<1> HIDE DEF n
<1>16. Fine(d, k)
  BY <1>1, <1>5, <1>8, <1>9, <1>10, <1>11, <1>12, <1>13, <1>14, <1>15, GoesOnFine, ZenonT(40) DEF n
<1> QED BY <1>16 DEF k


(* The branch at hand and those after it. *)
LEMMA ChosenFacts ==
  ASSUME NEW d \in Databases, NEW l, Fine(d, l), l.stack # <<>>,
         Last(l.stack).stage \in {"branch", "undo"}
  PROVE  /\ Chosen(l) = Last(l.stack).branches[1] /\ Chosen(l) \in Lits
         /\ Last(l.stack).branches # <<>>
         /\ Tail(Last(l.stack).branches) \in Seq(Lits)
         /\ Len(Last(l.stack).branches) = 1 =>
              Tail(Last(l.stack).branches) = <<>> /\ ToSet(Last(l.stack).branches) = {Chosen(l)}
         /\ Len(Last(l.stack).branches) # 1 =>
              /\ Last(l.stack).group = 1
              /\ Tail(Last(l.stack).branches) = <<-Chosen(l)>>
              /\ ToSet(Last(l.stack).branches) = {Chosen(l), -Chosen(l)}
         /\ ToSet(Tail(Last(l.stack).branches)) \subseteq ToSet(Last(l.stack).branches)
<1> PICK f : f = Last(l.stack)
  OBVIOUS
<1> PICK q : q = f.branches
  OBVIOUS
<1>1. f \in FineFrame
  BY FineFacts
<1>2. q \in Seq(Lits) /\ (Len(q) = 1 \/ (Len(q) = 2 /\ f.group = 1 /\ q[2] = -q[1]))
  BY <1>1, FrameFacts
<1>3. q # <<>> /\ Head(q) = q[1] /\ q[1] \in Lits
  BY <1>2
<1>4. CASE Len(q) = 1
  <2>1. q = <<q[1]>>
    BY <1>2, <1>4
  <2> PICK x : x = q[1]
    OBVIOUS
  <2>2. q = <<x>> /\ x \in Lits
    BY <2>1, <1>3
  <2>3. Tail(q) = <<>> /\ ToSet(q) = {x} /\ ToSet(Tail(q)) \subseteq {x}
    BY <2>2, ShortSequences
  <2>4. Tail(q) \in Seq(Lits)
    BY <2>3, ShortSequences
  <2> QED BY <1>3, <1>4, <2>3, <2>4 DEF Chosen
<1>5. CASE Len(q) # 1
  <2> PICK x : x = q[1]
    OBVIOUS
  <2>1. q = <<x, -x>> /\ x \in Lits /\ -x \in Lits
    BY <1>2, <1>3, <1>5, LitFacts
  <2> PICK y : y = -x
    OBVIOUS
  <2>4. q = <<x, y>>
    BY <2>1
  <2>5. Tail(q) = <<y>>
    BY <2>4
  <2>6. ToSet(q) = {x, y} /\ ToSet(<<y>>) = {y}
    BY <2>4, ShortSequences
  <2>2. Tail(q) = <<-x>> /\ ToSet(q) = {x, -x} /\ ToSet(Tail(q)) \subseteq {x, -x}
    BY <2>5, <2>6
  <2>3. Tail(q) \in Seq(Lits)
    BY <2>1, <2>2, ShortSequences
  <2> QED BY <1>2, <1>3, <1>5, <2>2, <2>3, <2>4 DEF Chosen
<1> QED BY <1>4, <1>5


(* The literal of a branch, assumed. *)
LEMMA TriedBranch ==
  ASSUME NEW d \in Databases, NEW l, Fine(d, l), l.stack # <<>>, Last(l.stack).stage = "branch",
         NEW s, s = AssumeAndPropagate(d, l.solver, Chosen(l)), NEW b, Placed(d, l, b)
  PROVE  /\ Tried(d, s, l.solver, Chosen(l)) /\ s \in GoodStates(d) /\ s \in State
         /\ Level(s) = b[Len(l.stack)] + 1
         /\ \A i \in 1 .. Len(l.stack) : Below(s, b[i]) = Below(l.solver, b[i])
<1> DEFINE n == Len(l.stack)
<1>1. /\ l \in Locals(d) /\ n \in Nat \ {0} /\ n \in 1 .. n /\ Last(l.stack) = l.stack[n]
      /\ Last(l.stack) \in FineFrame /\ l.solver \in State /\ Good(d, l.solver)
      /\ l.stack \in Seq(FineFrame)
  BY FineFacts, LocalFacts
<1>2. Chosen(l) \in Lits /\ Chosen(l) \in Pending(l.stack[n])
  <2>1. Chosen(l) \in ToSet(Last(l.stack).branches)
    BY ChosenFacts
  <2> QED BY <1>1, <2>1, ChosenFacts DEF Pending
<1>3. IsUndefLit(l.solver, Chosen(l))
  <2>1. Below(l.solver, b[n]) = TrueLits(l.solver)
    BY <1>1, OpenIs
  <2>2. Held(d, l, n, b[n])
    BY <1>1 DEF Placed
  <2> QED BY <2>1, <2>2, <1>2 DEF Held, IsUndefLit
<1>4. Tried(d, s, l.solver, Chosen(l))
  BY <1>1, <1>2, <1>3, TryMakes
<1>5. Level(l.solver) = b[n]
  BY <1>1, OpenIs
<1>6. s \in GoodStates(d) /\ s \in State /\ Level(s) = b[n] + 1
  BY <1>4, <1>5 DEF Tried, GoodStates, Good, States
<1>7. b[n] \in Nat /\ \A i \in 1 .. n : b[i] \in Nat /\ b[i] <= b[n]
  <2>1. b[n] \in Nat /\ \A i \in 1 .. n - 1 : b[i] \in Nat /\ b[i] < b[n]
    BY <1>1, BasesFacts DEF Placed
  <2>2. \A i \in 1 .. n : i = n \/ i \in 1 .. n - 1
    BY <1>1
  <2> QED BY <2>1, <2>2
<1>8. ASSUME NEW i \in 1 .. n PROVE Below(s, b[i]) = Below(l.solver, b[i])
  <2>1. Len(l.solver.trail) \in Nat /\ Len(s.trail) \in Nat
    BY <1>1, <1>6, StateFacts
  <2>2. /\ Len(l.solver.trail) <= Len(s.trail)
        /\ \A j \in 1 .. Len(l.solver.trail) : l.solver.trail[j] = s.trail[j]
    BY <1>4, <2>1 DEF Tried
  <2>3. \A j \in Len(l.solver.trail) + 1 .. Len(s.trail) : s.trail[j].dl > b[n]
    <3>1. \A j \in Len(l.solver.trail) + 1 .. Len(s.trail) : s.trail[j].dl = b[n] + 1
      BY <1>4, <1>5 DEF Tried
    <3>2. b[n] + 1 > b[n]
      BY <1>7
    <3> QED BY <3>1, <3>2
  <2>4. b[i] \in Int /\ b[i] <= b[n] /\ b[n] \in Int
    BY <1>7
  <2> QED BY <1>1, <1>6, <2>2, <2>3, <2>4, BelowCut
<1> QED BY <1>4, <1>6, <1>8

(* The stack while a branch is searched. *)
LEMMA InBranchFacts ==
  ASSUME NEW d \in Databases, NEW l, Fine(d, l), l.stack # <<>>, Last(l.stack).stage = "branch"
  PROVE  LET n == Len(l.stack)
             f == [Last(l.stack) EXCEPT !.stage = "undo"]
         IN /\ InBranch(l) \in Seq(FineFrame) /\ Len(InBranch(l)) = n /\ InBranch(l) # <<>>
            /\ Last(InBranch(l)) = f /\ InBranch(l)[n] = f
            /\ \A i \in 1 .. n - 1 : InBranch(l)[i] = l.stack[i]
            /\ f \in FineFrame /\ f.stage = "undo" /\ f.failed = Last(l.stack).failed
            /\ f.branches = Last(l.stack).branches /\ f.id = Last(l.stack).id
            /\ f.group = Last(l.stack).group
<1> DEFINE f == [Last(l.stack) EXCEPT !.stage = "undo"]
<1>1. l.stack \in Seq(FineFrame) /\ Last(l.stack) \in FineFrame
  BY FineFacts, LocalFacts
<1>2. /\ f \in FineFrame /\ f.stage = "undo" /\ f.failed = Last(l.stack).failed
      /\ f.branches = Last(l.stack).branches /\ f.id = Last(l.stack).id
      /\ f.group = Last(l.stack).group
  BY <1>1, FrameStages
<1>3. InBranch(l) = Append(Front(l.stack), f)
  BY DEF InBranch
<1> HIDE DEF f
<1>4. LET r == Append(Front(l.stack), f) IN
        /\ r \in Seq(FineFrame) /\ Len(r) = Len(l.stack) /\ r # <<>>
        /\ \A i \in 1 .. Len(l.stack) - 1 : r[i] = l.stack[i]
        /\ r[Len(l.stack)] = f /\ Last(r) = f
  BY <1>1, <1>2, ReplaceLast
<1> QED BY <1>2, <1>3, <1>4 DEF f

(* Branch gives a worker its types. *)
LEMMA BranchedType ==
  ASSUME NEW d \in Databases, NEW l, Fine(d, l), l.stack # <<>>, Last(l.stack).stage = "branch",
         NEW s \in GoodStates(d)
  PROVE  Branched(l, s) \in Locals(d)
<1> DEFINE k == Branched(l, s)
<1>1. /\ l.current \in Seq(Lits) /\ l.cubes \in Seq(Seq(Lits)) /\ l.sat \in BOOLEAN /\ l.theta \in Nat
      /\ Chosen(l) \in Lits
  BY FineFacts, LocalFacts, ChosenFacts
<1>2. Append(l.current, Chosen(l)) \in Seq(Lits)
  BY <1>1
<1>3. Lowered(l.theta) \in Nat
  BY <1>1, ThetaType
<1>4. InBranch(l) \in Seq(FineFrame) /\ InBranch(l)[Len(l.stack)] \in FineFrame
  BY InBranchFacts
<1>5. Append(InBranch(l), Child(InBranch(l)[Len(l.stack)])) \in Seq(FineFrame)
  BY <1>4, ChildType
<1>6. k.stack \in Seq(FineFrame) /\ k.theta \in Nat /\ k.current \in Seq(Lits)
      /\ k.solver = s /\ k.cubes = l.cubes /\ k.sat = l.sat
  BY <1>1, <1>2, <1>3, <1>4, <1>5 DEF Branched
<1>7. k = [solver |-> k.solver, stack |-> k.stack, current |-> k.current, cubes |-> k.cubes,
           sat |-> k.sat, theta |-> k.theta]
  BY DEF Branched
<1> HIDE DEF k
<1> QED BY <1>1, <1>6, <1>7 DEF Locals, k

(* Branch preserves the invariant: the new call sees what follows from the path
   with the branch's literal. *)
LEMMA BranchedFine ==
  ASSUME NEW d \in Databases, NEW l, Fine(d, l), l.stack # <<>>, Last(l.stack).stage = "branch",
         NEW s, s = AssumeAndPropagate(d, l.solver, Chosen(l))
  PROVE  Fine(d, Branched(l, s))
<1> DEFINE k == Branched(l, s)
           n == Len(l.stack)
           f == [Last(l.stack) EXCEPT !.stage = "undo"]
           child == Child(f)
<1>1. PICK b : Placed(d, l, b)
  BY DEF Fine
<1>2. /\ l \in Locals(d) /\ Path(l) /\ n \in Nat \ {0} /\ n \in 1 .. n /\ Last(l.stack) = l.stack[n]
      /\ Len(l.current) = n - 1 /\ Last(l.stack) \in FineFrame /\ l.solver \in State
      /\ l.stack \in Seq(FineFrame) /\ l.current \in Seq(Lits)
  BY FineFacts, LocalFacts
<1>3. /\ Tried(d, s, l.solver, Chosen(l)) /\ s \in GoodStates(d) /\ s \in State
      /\ Level(s) = b[n] + 1 /\ \A i \in 1 .. n : Below(s, b[i]) = Below(l.solver, b[i])
  BY <1>1, TriedBranch
<1>4. /\ InBranch(l) \in Seq(FineFrame) /\ Len(InBranch(l)) = n /\ InBranch(l) # <<>>
      /\ Last(InBranch(l)) = f /\ InBranch(l)[n] = f
      /\ \A i \in 1 .. n - 1 : InBranch(l)[i] = l.stack[i]
      /\ f \in FineFrame /\ f.stage = "undo" /\ f.failed = Last(l.stack).failed
      /\ f.branches = Last(l.stack).branches
  BY InBranchFacts
<1>5. child \in FineFrame /\ child.stage = "enter" /\ child.failed = 0
  BY <1>4, ChildType
<1>6. k \in Locals(d)
  BY <1>3, BranchedType
<1>7. /\ k.solver = s /\ k.current = Append(l.current, Chosen(l))
      /\ s.conflict => k.stack = InBranch(l)
      /\ ~s.conflict => k.stack = Append(InBranch(l), child)
  BY <1>4 DEF Branched
<1> HIDE DEF k, f, child
<1>8. /\ Chosen(l) \in Lits /\ Chosen(l) = f.branches[1]
      /\ Pending(f) \subseteq Pending(l.stack[n])
  <2>1. /\ Chosen(l) \in Lits /\ Chosen(l) = Last(l.stack).branches[1]
        /\ ToSet(Tail(Last(l.stack).branches)) \subseteq ToSet(Last(l.stack).branches)
    BY ChosenFacts
  <2>2. Pending(f) = ToSet(Tail(f.branches)) /\ Pending(l.stack[n]) = ToSet(l.stack[n].branches)
    BY <1>2, <1>4 DEF Pending
  <2> QED BY <2>1, <2>2, <1>2, <1>4
<1>9. /\ Len(k.current) = n /\ k.current[n] = Chosen(l)
      /\ \A i \in 1 .. n - 1 : k.current[i] = l.current[i]
  <2>1. LET r == Append(l.current, Chosen(l)) IN
          /\ Len(r) = Len(l.current) + 1 /\ r[Len(l.current) + 1] = Chosen(l)
          /\ \A i \in 1 .. Len(l.current) : r[i] = l.current[i]
    BY <1>2, <1>8, AppendFacts
  <2>2. Len(l.current) + 1 = n
    BY <1>2
  <2> QED BY <2>1, <2>2, <1>2, <1>7
<1>10. \A i \in 1 .. n : i = n \/ i \in 1 .. n - 1
  BY <1>2
<1>11. \A i \in 1 .. n - 1 : i \in 1 .. n /\ i \in Nat
  BY <1>2
<1>12. \A i \in 1 .. n - 1 : l.stack[i].stage = "undo" /\ l.stack[i].branches[1] = l.current[i]
  BY <1>2, <1>11 DEF Path
<1>13. \A i \in 1 .. n : InBranch(l)[i].stage = "undo" /\ InBranch(l)[i].branches[1] = k.current[i]
  BY <1>4, <1>8, <1>9, <1>10, <1>12
<1>14. Bases(b, InBranch(l))
  <2>1. Bases(b, l.stack)
    BY <1>1 DEF Placed
  <2>2. \A i \in 1 .. n : InBranch(l)[i].failed = l.stack[i].failed
    BY <1>2, <1>4, <1>10
  <2>3. \A i \in 2 .. n : i \in 1 .. n
    BY <1>2
  <2>4. 1 \in 1 .. n
    BY <1>2
  <2> QED BY <1>4, <2>1, <2>2, <2>3, <2>4 DEF Bases
<1>15. ASSUME NEW i \in 1 .. n, NEW y, y = b[i], k.stack[i] = InBranch(l)[i] PROVE Held(d, k, i, y)
  <2>1. Held(d, l, i, b[i])
    BY <1>1 DEF Placed
  <2>2. Pending(k.stack[i]) \subseteq Pending(l.stack[i])
    BY <1>4, <1>8, <1>10, <1>15
  <2>3. \A j \in 1 .. i - 1 : k.current[j] = l.current[j]
    <3>1. \A j \in 1 .. i - 1 : j \in 1 .. n - 1
      BY <1>2
    <3> QED BY <3>1, <1>9
  <2>4. Below(k.solver, y) = Below(l.solver, b[i]) /\ i \in Nat
    BY <1>3, <1>7, <1>15
  <2> QED BY <2>1, <2>2, <2>3, <2>4, HeldSame
<1>16. CASE s.conflict
  <2>1. k.stack = InBranch(l)
    BY <1>7, <1>16
  <2>2. Path(k)
    BY <2>1, <1>4, <1>9, <1>11, <1>13 DEF Path
  <2>3. Level(k.solver) = LevelOf(k.stack, b)
    BY <2>1, <1>3, <1>4, <1>7 DEF LevelOf
  <2>4. \A i \in 1 .. Len(k.stack) : Held(d, k, i, b[i])
    BY <2>1, <1>4, <1>15
  <2>5. Open(d, k)
    BY <2>1, <1>4 DEF Open
  <2>6. Placed(d, k, b)
    BY <2>1, <2>3, <2>4, <2>5, <1>14 DEF Placed
  <2> QED BY <2>2, <2>6, <1>6 DEF Fine, k
<1>17. CASE ~s.conflict
  <2>1. k.stack = Append(InBranch(l), child)
    BY <1>7, <1>17
  <2>2. /\ Len(k.stack) = n + 1 /\ k.stack # <<>> /\ k.stack[n + 1] = child /\ Last(k.stack) = child
        /\ \A i \in 1 .. n : k.stack[i] = InBranch(l)[i]
    <3>1. LET r == Append(InBranch(l), child) IN
            /\ Len(r) = Len(InBranch(l)) + 1 /\ r # <<>>
            /\ \A i \in 1 .. Len(InBranch(l)) : r[i] = InBranch(l)[i]
            /\ r[Len(InBranch(l)) + 1] = child /\ Last(r) = child
      BY <1>4, <1>5, AppendFacts
    <3> QED BY <2>1, <3>1, <1>4
  <2>3. \A i \in 1 .. n + 1 : i = n + 1 \/ i \in 1 .. n
    BY <1>2
  <2>4. (n + 1) - 1 = n /\ \A i \in 1 .. n : i # n + 1
    BY <1>2
  <2>5. Path(k)
    BY <2>2, <2>3, <2>4, <1>5, <1>9, <1>13 DEF Path
  <2> DEFINE c == [i \in 1 .. n + 1 |-> IF i = n + 1 THEN b[n] + 1 ELSE b[i]]
  <2>6. /\ b[n] + 1 \in Nat /\ \A i \in 1 .. n : b[i] \in Nat
    <3>1. \A i \in 1 .. n : b[i] \in Nat
      BY <1>4, <1>14 DEF Bases
    <3>2. b[n] \in Nat
      BY <3>1, <1>2
    <3> QED BY <3>1, <3>2
  <2>7. c \in [1 .. n + 1 -> Nat] /\ c[n + 1] = b[n] + 1 /\ \A i \in 1 .. n : c[i] = b[i]
    <3>1. n + 1 \in 1 .. n + 1 /\ \A i \in 1 .. n : i \in 1 .. n + 1
      BY <1>2
    <3> QED BY <2>3, <2>4, <2>6, <3>1
  <2> HIDE DEF c
  <2>8. Bases(c, k.stack)
    <3>1. c[1] = k.stack[1].failed
      <4>1. 1 \in 1 .. n
        BY <1>2
      <4> QED BY <4>1, <2>2, <2>7, <1>4, <1>14 DEF Bases
    <3>2. ASSUME NEW i \in 2 .. n + 1 PROVE c[i] = c[i - 1] + 1 + k.stack[i].failed
      <4>1. CASE i = n + 1
        <5>1. i - 1 = n /\ c[n] = b[n]
          BY <4>1, <1>2, <2>7
        <5>2. b[n] + 1 + 0 = b[n] + 1
          BY <2>6
        <5> QED BY <4>1, <5>1, <5>2, <2>2, <2>7, <1>5
      <4>2. CASE i # n + 1
        <5>1. i \in 2 .. n /\ i \in 1 .. n /\ i - 1 \in 1 .. n
          BY <4>2, <1>2
        <5>2. b[i] = b[i - 1] + 1 + InBranch(l)[i].failed
          BY <5>1, <1>4, <1>14 DEF Bases
        <5> QED BY <5>1, <5>2, <2>2, <2>7
      <4> QED BY <4>1, <4>2
    <3> QED BY <3>1, <3>2, <2>2, <2>7 DEF Bases
  <2>9. Level(k.solver) = LevelOf(k.stack, c) /\ Level(k.solver) = c[n + 1]
    BY <2>2, <2>7, <1>3, <1>5, <1>7 DEF LevelOf
  <2>10. \A m \in TotalModels(d) : Reaches(k, n + 1, m) => Agrees(s, m)
    <3> SUFFICES ASSUME NEW m \in TotalModels(d), Reaches(k, n + 1, m) PROVE Agrees(s, m)
      OBVIOUS
    <3>1. \A j \in 1 .. n : k.current[j] \in m
      BY <2>4 DEF Reaches
    <3>2. Chosen(l) \in m /\ Reaches(l, n, m)
      BY <3>1, <1>2, <1>9, <1>11 DEF Reaches
    <3>3. Agrees(l.solver, m) /\ m \in Models(d)
      BY <3>2, <1>1, <1>2 DEF Placed, Open, TotalModels
    <3> QED BY <3>2, <3>3, <1>3 DEF Tried
  <2>11. Held(d, k, n + 1, c[n + 1])
    <3>1. Below(k.solver, c[n + 1]) \subseteq TrueLits(k.solver)
      <4>1. k.solver \in State /\ Stepwise(k.solver.trail)
        BY <1>6, LocalFacts DEF Good, Orderly
      <4>2. c[n + 1] \in Int
        BY <2>6, <2>7
      <4> QED BY <4>1, <4>2, BelowAll
    <3>2. Pending(k.stack[n + 1]) = {}
      BY <2>2, <1>5 DEF Pending
    <3> QED BY <3>1, <3>2, <2>10, <1>7 DEF Held, Agrees
  <2>12. \A i \in 1 .. Len(k.stack) : Held(d, k, i, c[i])
    BY <2>2, <2>3, <2>7, <2>11, <1>15
  <2>13. Open(d, k)
    BY <2>2, <2>10, <1>7 DEF Open
  <2>14. Placed(d, k, c)
    BY <2>8, <2>9, <2>12, <2>13 DEF Placed
  <2> QED BY <2>5, <2>14, <1>6 DEF Fine, k
<1> QED BY <1>16, <1>17


(* A branch is done: its literal is undone, and the literals of the call too if
   the call returns. *)
LeftMade(d, opt, l, k) ==
  /\ k \in Locals(d)
  /\ Len(k.current) = Len(l.stack) - 1
  /\ \A i \in 1 .. Len(l.stack) - 1 : k.current[i] = l.current[i]
  /\ ~Leaves(opt, l) =>
       /\ Onward(l) \in FineFrame /\ Onward(l).stage = "branch"
       /\ Onward(l).failed = Last(l.stack).failed
       /\ Onward(l).id = Last(l.stack).id /\ Onward(l).group = Last(l.stack).group
       /\ Onward(l).branches = Tail(Last(l.stack).branches)
       /\ Pending(Onward(l)) = Pending(Last(l.stack))

(* Undo gives a worker its types. *)
LEMMA LeftType ==
  ASSUME NEW d \in Databases, NEW opt, NEW l, Fine(d, l), l.stack # <<>>, Last(l.stack).stage = "undo",
         NEW s \in GoodStates(d), Backtrack(d, s, Last(l.stack).failed) \in GoodStates(d),
         NEW k, k = Left(d, opt, l, s)
  PROVE  LeftMade(d, opt, l, k)
<1> DEFINE n == Len(l.stack)
           rest == Tail(Last(l.stack).branches)
           f == Onward(l)
<1>1. /\ l.current \in Seq(Lits) /\ l.cubes \in Seq(Seq(Lits)) /\ l.sat \in BOOLEAN /\ l.theta \in Nat
      /\ l.stack \in Seq(FineFrame) /\ Last(l.stack) \in FineFrame
      /\ n \in Nat \ {0} /\ Len(l.current) = n
  BY FineFacts, LocalFacts
<1>2. l.current # <<>>
  BY <1>1
<1>3. Front(l.current) \in Seq(Lits) /\ Len(Front(l.current)) = n - 1
      /\ \A i \in 1 .. n - 1 : Front(l.current)[i] = l.current[i]
  BY <1>1, <1>2, FrontFacts
<1>4. k.current = Front(l.current) /\ k.cubes = l.cubes /\ k.sat = l.sat /\ k.theta = l.theta
  BY DEF Left
<1>5. ASSUME ~Leaves(opt, l)
      PROVE  /\ f \in FineFrame /\ f.stage = "branch" /\ f.failed = Last(l.stack).failed
             /\ f.id = Last(l.stack).id /\ f.group = Last(l.stack).group
             /\ f.branches = rest /\ Pending(f) = Pending(Last(l.stack))
  <2>1. rest # <<>> /\ rest \in Seq(Lits)
    BY <1>5, ChosenFacts DEF Leaves
  <2>2. rest = <<-Chosen(l)>>
    BY <2>1, ChosenFacts
  <2>3. Len(rest) = 1
    BY <2>2, ShortSequences
  <2>4. f = [Last(l.stack) EXCEPT !.stage = "branch", !.branches = rest]
    BY DEF Onward
  <2> HIDE DEF rest
  <2>5. /\ f \in FineFrame /\ f.stage = "branch" /\ f.failed = Last(l.stack).failed
        /\ f.id = Last(l.stack).id /\ f.group = Last(l.stack).group /\ f.branches = rest
    BY <1>1, <2>1, <2>3, <2>4 DEF FineFrame
  <2> HIDE DEF f
  <2>6. Pending(f) = Pending(Last(l.stack))
    BY <2>5 DEF Pending, rest
  <2> QED BY <2>5, <2>6
<1>6. k.stack \in Seq(FineFrame)
  <2>1. CASE Leaves(opt, l)
    BY <1>1, <2>1, FrontFacts DEF Left
  <2>2. CASE ~Leaves(opt, l)
    <3>1. f \in FineFrame
      BY <1>5, <2>2
    <3>2. k.stack = Append(Front(l.stack), f)
      BY <2>2 DEF Left
    <3> HIDE DEF f
    <3>3. Append(Front(l.stack), f) \in Seq(FineFrame)
      BY <1>1, <3>1, ReplaceLast
    <3> QED BY <3>2, <3>3
  <2> QED BY <2>1, <2>2
<1>7. k.solver \in GoodStates(d)
  BY DEF Left
<1>8. k = [solver |-> k.solver, stack |-> k.stack, current |-> k.current, cubes |-> k.cubes,
           sat |-> k.sat, theta |-> k.theta]
  BY DEF Left
<1>9. k \in Locals(d)
  BY <1>1, <1>3, <1>4, <1>6, <1>7, <1>8 DEF Locals
<1>10. Len(k.current) = n - 1 /\ \A i \in 1 .. n - 1 : k.current[i] = l.current[i]
  BY <1>3, <1>4
<1> QED BY <1>5, <1>9, <1>10 DEF LeftMade

(* A branch is undone, and the call's own levels if it returns. *)
Undoing(d, l, s, b) ==
  LET n == Len(l.stack)
      r == Backtrack(d, s, Last(l.stack).failed)
  IN /\ Shrunk(d, s, l.solver, b[n]) /\ ~s.conflict
     /\ s \in GoodStates(d) /\ Good(d, s) /\ s \in State /\ Level(s) = b[n] /\ Stepwise(s.trail)
     /\ Shrunk(d, r, s, Entry0(b, n)) /\ r \in GoodStates(d)

(* One level is undone: that of the branch. *)
LEMMA UndoMakes ==
  ASSUME NEW d \in Databases, NEW l, Fine(d, l), l.stack # <<>>, Last(l.stack).stage = "undo",
         NEW s, s = Backtrack(d, l.solver, 1), NEW b, Placed(d, l, b)
  PROVE  Undoing(d, l, s, b)
<1> DEFINE n == Len(l.stack)
           failed == Last(l.stack).failed
           r == Backtrack(d, s, failed)
<1>2. /\ l \in Locals(d) /\ Path(l) /\ n \in Nat \ {0} /\ n \in 1 .. n /\ Last(l.stack) = l.stack[n]
      /\ Last(l.stack) \in FineFrame /\ l.solver \in State /\ Good(d, l.solver)
      /\ l.stack \in Seq(FineFrame) /\ l.current \in Seq(Lits)
  BY FineFacts, LocalFacts
<1>3. /\ b[n] \in Nat /\ failed \in Nat /\ b[n] - failed = Entry0(b, n) /\ failed <= b[n]
      /\ Entry0(b, n) \in Nat /\ \A i \in 1 .. n - 1 : b[i] \in Nat /\ b[i] < b[n]
  BY <1>2, BasesFacts DEF Placed
<1>4. Level(l.solver) = b[n] + 1
  BY <1>2 DEF Placed, LevelOf
<1>5. Shrunk(d, s, l.solver, b[n]) /\ ~s.conflict
  <2>1. 1 \in Nat /\ 1 <= Level(l.solver) /\ 1 # 0 /\ Level(l.solver) - 1 = b[n]
    <3> PICK x, y : x = Level(l.solver) /\ y = b[n]
      OBVIOUS
    <3>1. y \in Nat /\ x = y + 1
      BY <1>3, <1>4
    <3>2. 1 <= x /\ x - 1 = y
      BY <3>1
    <3> QED BY <3>2
  <2>2. Shrunk(d, s, l.solver, Level(l.solver) - 1) /\ ~s.conflict
    BY <1>2, <2>1, ReleasedMakes
  <2> QED BY <2>1, <2>2
<1>6. s \in GoodStates(d) /\ Good(d, s) /\ s \in State /\ Level(s) = b[n] /\ Stepwise(s.trail)
  BY <1>5 DEF Shrunk, GoodStates, Good, States, Orderly
<1>7. Shrunk(d, r, s, Entry0(b, n))
  BY <1>3, <1>6, ReleasedMakes
<1>8. r \in GoodStates(d)
  BY <1>7 DEF Shrunk
<1> HIDE DEF r
<1> QED BY <1>5, <1>6, <1>7, <1>8 DEF Undoing, r

(* Undo preserves the invariant, whether another branch follows or not. *)
LEMMA LeftFine ==
  ASSUME NEW d \in Databases, NEW opt, NEW l, Fine(d, l), l.stack # <<>>, Last(l.stack).stage = "undo",
         NEW s, s = Backtrack(d, l.solver, 1), NEW k, k = Left(d, opt, l, s)
  PROVE  Fine(d, k)
<1> DEFINE n == Len(l.stack)
           failed == Last(l.stack).failed
           r == Backtrack(d, s, failed)
           f == Onward(l)
<1>1. PICK b : Placed(d, l, b)
  BY DEF Fine
<1>2. /\ l \in Locals(d) /\ Path(l) /\ n \in Nat \ {0} /\ n \in 1 .. n /\ Last(l.stack) = l.stack[n]
      /\ Last(l.stack) \in FineFrame /\ l.solver \in State /\ Good(d, l.solver)
      /\ l.stack \in Seq(FineFrame) /\ l.current \in Seq(Lits)
  BY FineFacts, LocalFacts
<1>3. /\ b[n] \in Nat /\ failed \in Nat /\ b[n] - failed = Entry0(b, n) /\ failed <= b[n]
      /\ Entry0(b, n) \in Nat /\ \A i \in 1 .. n - 1 : b[i] \in Nat /\ b[i] < b[n]
  BY <1>1, <1>2, BasesFacts DEF Placed
<1>4. Undoing(d, l, s, b)
  BY <1>1, UndoMakes
<1>5. Shrunk(d, s, l.solver, b[n]) /\ ~s.conflict
  BY <1>4 DEF Undoing
<1>6. s \in GoodStates(d) /\ Good(d, s) /\ s \in State /\ Level(s) = b[n] /\ Stepwise(s.trail)
  BY <1>4 DEF Undoing
<1>7. Shrunk(d, r, s, Entry0(b, n))
  BY <1>4 DEF Undoing
<1>8. r \in GoodStates(d)
  BY <1>4 DEF Undoing
<1> HIDE DEF r, f
<1>9. /\ k \in Locals(d) /\ Len(k.current) = n - 1
      /\ \A i \in 1 .. n - 1 : k.current[i] = l.current[i]
      /\ ~Leaves(opt, l) => /\ f \in FineFrame /\ f.stage = "branch" /\ f.failed = failed
                            /\ Pending(f) = Pending(Last(l.stack))
  <2>1. s \in GoodStates(d) /\ Backtrack(d, s, Last(l.stack).failed) \in GoodStates(d)
    BY <1>6, <1>8 DEF r
  <2>2. LeftMade(d, opt, l, k)
    BY <2>1, LeftType
  <2> QED BY <2>2 DEF LeftMade, f
<1>10. CASE Leaves(opt, l)
  <2>1. k.stack = Front(l.stack) /\ k.solver = r
    BY <1>10 DEF Left, r
  <2>2. Shrunk(d, r, l.solver, Entry0(b, n))
    <3>1. Entry0(b, n) <= b[n]
      BY <1>3
    <3> QED BY <3>1, <1>2, <1>3, <1>5, <1>7, ShrunkTwice
  <2> QED BY <2>1, <2>2, <1>1, <1>9, ReturnFine
<1>11. CASE ~Leaves(opt, l)
  <2>1. k.stack = Append(Front(l.stack), f) /\ k.solver = s
    BY <1>11 DEF Left, f
  <2>2. Level(k.solver) = Entry0(b, n) + f.failed
    <3>1. f.failed = failed
      BY <1>9, <1>11
    <3> HIDE DEF failed
    <3> PICK x, y, e : x = b[n] /\ y = failed /\ e = Entry0(b, n)
      OBVIOUS
    <3>2. x = e + y
      BY <1>3
    <3> QED BY <3>1, <3>2, <2>1, <1>6
  <2>3. \A e \in Int : e <= b[n] => Below(k.solver, e) = Below(l.solver, e)
    BY <2>1, <1>2, <1>3, <1>5, ShrunkBelow
  <2>4. \A i \in 1 .. n - 1 : Below(k.solver, b[i]) = Below(l.solver, b[i])
    <3>1. \A i \in 1 .. n - 1 : b[i] \in Int /\ b[i] <= b[n]
      BY <1>3
    <3> QED BY <2>3, <3>1
  <2>5. TrueLits(k.solver) = Below(l.solver, b[n])
    <3>1. b[n] \in Int /\ b[n] <= b[n] /\ Level(s) <= b[n]
      BY <1>3, <1>6
    <3>2. Below(s, b[n]) = TrueLits(s)
      BY <3>1, <1>6, BelowAll
    <3> QED BY <2>1, <2>3, <3>1, <3>2
  <2>6. Held(d, l, n, b[n])
    BY <1>1, <1>2 DEF Placed
  <2>7. \A m \in TotalModels(d) : Reaches(l, n, m) => Agrees(k.solver, m)
    BY <2>1, <2>5, <2>6, <1>5 DEF Held, Agrees
  <2>8. \A lit \in Pending(f) : IsUndefLit(k.solver, lit)
    <3>1. Pending(f) = Pending(l.stack[n])
      BY <1>2, <1>9, <1>11
    <3> QED BY <3>1, <2>5, <2>6 DEF Held, IsUndefLit
  <2>9. f \in FineFrame /\ f.stage # "undo"
    BY <1>9, <1>11
  <2> QED BY <2>1, <2>2, <2>4, <2>7, <2>8, <2>9, <1>1, <1>9, GoesOnFine
<1> QED BY <1>10, <1>11

(* What holds of a worker holds after its next step. *)
LEMMA AfterFine ==
  ASSUME NEW d \in Databases, NEW opt, NEW l, Fine(d, l)
  PROVE  Fine(d, After(d, opt, l))
<1>1. CASE l.stack = <<>>
  BY <1>1 DEF After
<1>2. CASE l.stack # <<>>
  <2>1. Last(l.stack).stage \in {"enter", "look", "branch", "undo"}
    BY <1>2, FineFacts, FrameFacts
  <2>2. CASE Last(l.stack).stage = "enter"
    BY <1>2, <2>2, EnteredFine DEF After
  <2>3. CASE Last(l.stack).stage = "look"
    <3> DEFINE look == Looked(d, opt, l.solver, Len(l.current))
    <3>1. After(d, opt, l) = LookedAt(d, opt, l, look)
      BY <1>2, <2>3 DEF After
    <3>2. look.outcome \in {"open", "refuted", "forced"}
      BY <1>2, LookFacts
    <3>3. PICK g : g = look
      OBVIOUS
    <3> HIDE DEF look
    <3>4. g = Looked(d, opt, l.solver, Len(l.current))
      BY <3>3 DEF look
    <3>5. CASE g.outcome = "refuted" \/ Solved(g)
      <4>1. g.outcome # "forced"
        BY <3>5 DEF Solved
      <4>2. Fine(d, Closed(d, opt, l, g))
        BY <1>2, <2>3, <3>4, <4>1, ClosedFine
      <4> QED BY <3>1, <3>3, <3>5, <4>2 DEF LookedAt
    <3>6. CASE g.outcome = "forced"
      <4>1. Fine(d, Forced(l, g))
        BY <1>2, <2>3, <3>4, <3>6, ForcedFine
      <4> QED BY <3>1, <3>3, <3>6, <4>1 DEF LookedAt, Solved
    <3>7. CASE g.outcome = "open" /\ ~Solved(g)
      <4>1. g.best.var # 0
        BY <3>7 DEF Solved
      <4>2. Fine(d, Split(l, g))
        BY <1>2, <2>3, <3>4, <3>7, <4>1, SplitFine
      <4> QED BY <3>1, <3>3, <3>7, <4>2 DEF LookedAt
    <3> QED BY <3>2, <3>3, <3>5, <3>6, <3>7
  <2>4. CASE Last(l.stack).stage = "branch"
    BY <1>2, <2>4, BranchedFine DEF After
  <2>5. CASE Last(l.stack).stage = "undo"
    BY <1>2, <2>5, LeftFine DEF After
  <2> QED BY <2>1, <2>2, <2>3, <2>4, <2>5
<1> QED BY <1>1, <1>2


(* A worker starts with the invariant: what loading assigned follows from the problem. *)
LEMMA StartedFine ==
  ASSUME NEW d \in Databases, NEW n \in Nat, NEW id \in Nat, id < n, NEW t \in Nat
  PROVE  Fine(d, Started(d, id, n, t))
<1> DEFINE l == Started(d, id, n, t)
           f == Frame(id, n)
           b == [i \in {1} |-> 0]
<1>1. /\ Good(d, Loaded(d)) /\ Level(Loaded(d)) = 0 /\ \A m \in Models(d) : Agrees(Loaded(d), m)
  BY LoadedMakes
<1>2. f \in FineFrame /\ f.stage = "enter" /\ f.failed = 0
  <2>1. n \in Nat \ {0} /\ <<>> \in Seq(Lits)
    BY ShortSequences
  <2> QED BY <2>1 DEF Frame, FineFrame
<1>3. /\ l.solver = Loaded(d) /\ l.stack = <<f>> /\ l.current = <<>> /\ l.cubes = <<>>
      /\ l.sat = FALSE /\ l.theta = t * ThetaUnit
  BY DEF Started
<1>4. l.theta \in Nat
  BY <1>3 DEF ThetaUnit
<1>5. l = [solver |-> l.solver, stack |-> l.stack, current |-> l.current, cubes |-> l.cubes,
           sat |-> l.sat, theta |-> l.theta]
  BY DEF Started
<1>6. Loaded(d) \in GoodStates(d) /\ Loaded(d) \in State
  BY <1>1 DEF GoodStates, Good, States
<1> HIDE DEF f, l
<1>7. <<f>> \in Seq(FineFrame) /\ <<>> \in Seq(Lits) /\ <<>> \in Seq(Seq(Lits))
  BY <1>2, ShortSequences
<1>8. l \in Locals(d)
  BY <1>3, <1>4, <1>5, <1>6, <1>7 DEF Locals
<1>9. Len(l.stack) = 1 /\ l.stack # <<>> /\ l.stack[1] = f /\ Last(l.stack) = f
  BY <1>3 DEF Last
<1>10. Path(l)
  <2>1. Len(l.current) = 0 /\ 1 - 1 = 0 /\ 1 .. 1 = {1} /\ 1 .. 0 = {}
    BY <1>3
  <2> QED BY <2>1, <1>2, <1>3, <1>9 DEF Path
<1>11. b[1] = 0 /\ Bases(b, l.stack)
  <2>1. 1 .. 1 = {1} /\ 2 .. 1 = {}
    OBVIOUS
  <2> QED BY <2>1, <1>2, <1>9 DEF Bases
<1> HIDE DEF b
<1>12. Level(l.solver) = LevelOf(l.stack, b)
  BY <1>1, <1>2, <1>3, <1>9, <1>11 DEF LevelOf
<1>13. \A m \in TotalModels(d) : Agrees(l.solver, m)
  BY <1>1, <1>3 DEF TotalModels
<1>14. Held(d, l, 1, b[1])
  <2>1. Stepwise(l.solver.trail) /\ b[1] \in Int
    BY <1>1, <1>3, <1>11 DEF Good, Orderly
  <2>2. Below(l.solver, b[1]) \subseteq TrueLits(l.solver)
    BY <2>1, <1>3, <1>6, BelowAll
  <2>3. Pending(l.stack[1]) = {}
    BY <1>2, <1>9 DEF Pending
  <2> QED BY <2>2, <2>3, <1>13 DEF Held, Agrees
<1>15. \A i \in 1 .. Len(l.stack) : Held(d, l, i, b[i])
  <2>1. \A i \in 1 .. 1 : i = 1
    OBVIOUS
  <2> QED BY <2>1, <1>9, <1>14
<1>16. Open(d, l)
  BY <1>13 DEF Open
<1>17. Placed(d, l, b)
  BY <1>11, <1>12, <1>15, <1>16 DEF Placed
<1> QED BY <1>8, <1>10, <1>17 DEF Fine, l

-----------------------------------------------------------------------------
(***************************************************************************)
(* The workers.                                                            *)
(***************************************************************************)
Local(w) ==
  [solver |-> solver[w], stack |-> stack[w], current |-> current[w], cubes |-> cubes[w],
   sat |-> sat[w], theta |-> theta[w]]

IsArray(f, n) == f = [w \in 1 .. n |-> f[w]]

(* There are n workers. *)
Spread(n) ==
  /\ IsArray(solver, n) /\ IsArray(stack, n) /\ IsArray(current, n)
  /\ IsArray(cubes, n) /\ IsArray(sat, n) /\ IsArray(theta, n)

(* A step of w takes it on and leaves the others where they are. *)
Moved(w, n) ==
  /\ Local(w)' = After(db, optimizing, Local(w))
  /\ \A v \in 1 .. n : v # w => Local(v)' = Local(v)
  /\ Spread(n)'
  /\ problem' = problem /\ db' = db /\ optimizing' = optimizing

(* The new value of a worker's variable, and no other change. *)
Becomes(f, g, n, w, x) ==
  IsArray(g, n) /\ g[w] = x /\ \A v \in 1 .. n : v # w => g[v] = f[v]

(* One entry of an array changes. *)
LEMMA ArrayStep ==
  ASSUME NEW n, NEW f, IsArray(f, n), NEW w \in 1 .. n, NEW x, NEW g, g = [f EXCEPT ![w] = x]
  PROVE  Becomes(f, g, n, w, x)
<1>1. g = [v \in 1 .. n |-> IF v = w THEN x ELSE f[v]]
  BY DEF IsArray
<1> QED BY <1>1 DEF IsArray, Becomes

(* What a step leaves alone has not changed at any worker. *)
LEMMA ArraySame ==
  ASSUME NEW n, NEW f, IsArray(f, n), NEW w \in 1 .. n, NEW g, g = f, NEW x, x = f[w]
  PROVE  Becomes(f, g, n, w, x)
BY DEF Becomes

(* Six variables change as After says, at one worker. *)
LEMMA MovedIf ==
  ASSUME NEW n, NEW w \in 1 .. n, NEW k,
         k = [solver |-> k.solver, stack |-> k.stack, current |-> k.current, cubes |-> k.cubes,
              sat |-> k.sat, theta |-> k.theta],
         k = After(db, optimizing, Local(w)),
         Becomes(solver, solver', n, w, k.solver), Becomes(stack, stack', n, w, k.stack),
         Becomes(current, current', n, w, k.current), Becomes(cubes, cubes', n, w, k.cubes),
         Becomes(sat, sat', n, w, k.sat), Becomes(theta, theta', n, w, k.theta),
         problem' = problem, db' = db, optimizing' = optimizing
  PROVE  Moved(w, n)
<1>1. Local(w)' = [solver |-> k.solver, stack |-> k.stack, current |-> k.current,
                   cubes |-> k.cubes, sat |-> k.sat, theta |-> k.theta]
  BY DEF Local, Becomes
<1>2. \A v \in 1 .. n : v # w => Local(v)' = Local(v)
  BY DEF Local, Becomes
<1>3. Spread(n)'
  BY DEF Spread, Becomes
<1> QED BY <1>1, <1>2, <1>3 DEF Moved

(* Enter is the first case of After. *)
LEMMA EnterMoved ==
  ASSUME NEW n, Spread(n), NEW w \in 1 .. n, Enter(w)
  PROVE  Moved(w, n)
<1> DEFINE l == Local(w)
           k == Entered(optimizing, l)
<1>1. /\ l.solver = solver[w] /\ l.stack = stack[w] /\ l.current = current[w]
      /\ l.cubes = cubes[w] /\ l.sat = sat[w] /\ l.theta = theta[w]
  BY DEF Local
<1>2. stack[w] # <<>> /\ Last(stack[w]).stage = "enter"
  BY DEF Enter, At, Call
<1>3. k = After(db, optimizing, l)
  BY <1>1, <1>2 DEF After
<1>4. k = [solver |-> k.solver, stack |-> k.stack, current |-> k.current, cubes |-> k.cubes,
           sat |-> k.sat, theta |-> k.theta]
  BY DEF Entered
<1>5. /\ k.solver = solver[w] /\ k.current = current[w] /\ k.sat = sat[w]
      /\ k.theta = IF Stopped(optimizing, l) THEN theta[w] ELSE Raised(theta[w])
  BY <1>1 DEF Entered
<1>6. /\ k.cubes = IF ~Stopped(optimizing, l) /\ (IF Capped(l) THEN KeepsAtCap(Last(stack[w])) ELSE TooFar(l))
                     THEN Append(cubes[w], current[w]) ELSE cubes[w]
      /\ k.stack = IF Stopped(optimizing, l) \/ Capped(l) \/ TooFar(l) THEN Front(stack[w])
                   ELSE Append(Front(stack[w]), [Last(stack[w]) EXCEPT !.stage = "look"])
  BY <1>1 DEF Entered
<1>7. /\ Stopped(optimizing, l) <=> sat[w] /\ ~optimizing
      /\ Capped(l) <=> Depth(w) >= MaxDepth
      /\ TooFar(l) <=> PastCutoff(w, Raised(theta[w]))
  BY <1>1 DEF Stopped, Capped, TooFar, Depth, PastCutoff
<1> HIDE DEF k, l
<1>8. theta' = [theta EXCEPT ![w] = k.theta]
  BY <1>5, <1>7 DEF Enter
<1>9. cubes' = [cubes EXCEPT ![w] = k.cubes]
  BY <1>6, <1>7 DEF Enter, Call
<1>10. stack' = [stack EXCEPT ![w] = k.stack]
  <2>1. CASE (sat[w] /\ ~optimizing) \/ Depth(w) >= MaxDepth \/ PastCutoff(w, Raised(theta[w]))
    <3>1. k.stack = Front(stack[w])
      BY <1>6, <1>7, <2>1
    <3>2. Return(w)
      BY <2>1 DEF Enter
    <3> QED BY <3>1, <3>2 DEF Return
  <2>2. CASE ~((sat[w] /\ ~optimizing) \/ Depth(w) >= MaxDepth \/ PastCutoff(w, Raised(theta[w])))
    <3>1. k.stack = Append(Front(stack[w]), [Last(stack[w]) EXCEPT !.stage = "look"])
      BY <1>6, <1>7, <2>2
    <3>2. Continue(w, [Call(w) EXCEPT !.stage = "look"])
      BY <2>2 DEF Enter
    <3> QED BY <3>1, <3>2 DEF Continue, Call
  <2> QED BY <2>1, <2>2
<1>11. solver' = solver /\ current' = current /\ sat' = sat
       /\ problem' = problem /\ db' = db /\ optimizing' = optimizing
  BY DEF Enter, input
<1>12. /\ Becomes(solver, solver', n, w, k.solver) /\ Becomes(current, current', n, w, k.current)
       /\ Becomes(sat, sat', n, w, k.sat)
  BY <1>5, <1>11, ArraySame DEF Spread
<1>13. /\ Becomes(theta, theta', n, w, k.theta) /\ Becomes(cubes, cubes', n, w, k.cubes)
       /\ Becomes(stack, stack', n, w, k.stack)
  BY <1>8, <1>9, <1>10, ArrayStep DEF Spread
<1> QED BY <1>3, <1>4, <1>11, <1>12, <1>13, MovedIf DEF l

(* LookAhead is its second case, the outcome of the look-ahead given. *)
LEMMA LookAheadMoved ==
  ASSUME NEW n, Spread(n), NEW w \in 1 .. n, LookAhead(w),
         Looked(db, optimizing, solver[w], Len(current[w])).outcome \in {"open", "refuted", "forced"}
  PROVE  Moved(w, n)
<1> DEFINE l == Local(w)
           look == Looked(db, optimizing, solver[w], Len(current[w]))
           k == LookedAt(db, optimizing, l, look)
<1>1. /\ l.solver = solver[w] /\ l.stack = stack[w] /\ l.current = current[w]
      /\ l.cubes = cubes[w] /\ l.sat = sat[w] /\ l.theta = theta[w]
  BY DEF Local
<1>2. stack[w] # <<>> /\ Last(stack[w]).stage = "look"
  BY DEF LookAhead, At, Call
<1>3. k = After(db, optimizing, l)
  BY <1>1, <1>2 DEF After
<1>4. look = Looked(db, optimizing, solver[w], Depth(w))
  BY DEF Depth
<1>5. /\ current' = current /\ theta' = theta
      /\ problem' = problem /\ db' = db /\ optimizing' = optimizing
  BY DEF LookAhead, input
<1>6. look.outcome \in {"open", "refuted", "forced"}
  OBVIOUS
<1>7. \/ /\ look.outcome = "refuted" \/ Solved(look)
         /\ Return(w)
         /\ solver' = [solver EXCEPT ![w] = Released(look.solver, Call(w))]
         /\ sat'    = [sat EXCEPT ![w] = sat[w] \/ (Solved(look) /\ ~optimizing)]
         /\ cubes'  = [cubes EXCEPT ![w] =
                          IF Solved(look) /\ optimizing THEN Append(cubes[w], current[w]) ELSE cubes[w]]
      \/ /\ look.outcome = "forced"
         /\ Continue(w, [Call(w) EXCEPT !.failed = @ + 1])
         /\ solver' = [solver EXCEPT ![w] = look.solver]
         /\ UNCHANGED <<sat, cubes>>
      \/ /\ look.outcome = "open" /\ ~Solved(look)
         /\ Continue(w, [Call(w) EXCEPT !.stage = "branch",
                                       !.branches = Branches(Call(w), look.best)])
         /\ solver' = [solver EXCEPT ![w] = look.solver]
         /\ UNCHANGED <<sat, cubes>>
  <2> HIDE DEF look
  <2> QED BY <1>4 DEF LookAhead, Solved
<1> HIDE DEF look
<1>8. CASE look.outcome = "refuted" \/ Solved(look)
  <2>1. k = Closed(db, optimizing, l, look)
    BY <1>8 DEF LookedAt
  <2>2. /\ k.solver = Released(look.solver, Call(w)) /\ k.stack = Front(stack[w])
        /\ k.current = current[w] /\ k.theta = theta[w]
        /\ k.sat = (sat[w] \/ (Solved(look) /\ ~optimizing))
        /\ k.cubes = IF Solved(look) /\ optimizing THEN Append(cubes[w], current[w]) ELSE cubes[w]
    BY <1>1, <2>1 DEF Closed, Released, Call
  <2>3. k = [solver |-> k.solver, stack |-> k.stack, current |-> k.current, cubes |-> k.cubes,
             sat |-> k.sat, theta |-> k.theta]
    BY <2>1 DEF Closed
  <2> HIDE DEF k, l
  <2>4. /\ solver' = [solver EXCEPT ![w] = k.solver] /\ stack' = [stack EXCEPT ![w] = k.stack]
        /\ sat' = [sat EXCEPT ![w] = k.sat] /\ cubes' = [cubes EXCEPT ![w] = k.cubes]
    BY <1>7, <1>8, <2>2 DEF Return, Solved
  <2>5. /\ Becomes(solver, solver', n, w, k.solver) /\ Becomes(stack, stack', n, w, k.stack)
        /\ Becomes(sat, sat', n, w, k.sat) /\ Becomes(cubes, cubes', n, w, k.cubes)
    BY <2>4, ArrayStep DEF Spread
  <2>6. Becomes(current, current', n, w, k.current) /\ Becomes(theta, theta', n, w, k.theta)
    BY <1>5, <2>2, ArraySame DEF Spread
  <2> QED BY <1>3, <1>5, <2>3, <2>5, <2>6, MovedIf DEF l
<1>9. CASE look.outcome = "forced"
  <2>1. k = Forced(l, look)
    BY <1>9 DEF LookedAt, Solved
  <2>2. /\ k.solver = look.solver /\ k.current = current[w] /\ k.theta = theta[w]
        /\ k.stack = Append(Front(stack[w]), [Call(w) EXCEPT !.failed = @ + 1])
        /\ k.sat = sat[w] /\ k.cubes = cubes[w]
    BY <1>1, <2>1 DEF Forced, Call
  <2>3. k = [solver |-> k.solver, stack |-> k.stack, current |-> k.current, cubes |-> k.cubes,
             sat |-> k.sat, theta |-> k.theta]
    BY <2>1 DEF Forced
  <2> HIDE DEF k, l
  <2>4. /\ solver' = [solver EXCEPT ![w] = k.solver] /\ stack' = [stack EXCEPT ![w] = k.stack]
        /\ sat' = sat /\ cubes' = cubes
    BY <1>7, <1>9, <2>2 DEF Continue, Solved
  <2>5. Becomes(solver, solver', n, w, k.solver) /\ Becomes(stack, stack', n, w, k.stack)
    BY <2>4, ArrayStep DEF Spread
  <2>6. /\ Becomes(current, current', n, w, k.current) /\ Becomes(theta, theta', n, w, k.theta)
        /\ Becomes(sat, sat', n, w, k.sat) /\ Becomes(cubes, cubes', n, w, k.cubes)
    BY <1>5, <2>2, <2>4, ArraySame DEF Spread
  <2> QED BY <1>3, <1>5, <2>3, <2>5, <2>6, MovedIf DEF l
<1>10. CASE look.outcome = "open" /\ ~Solved(look)
  <2>1. k = Split(l, look)
    BY <1>10 DEF LookedAt
  <2>2. /\ k.solver = look.solver /\ k.current = current[w] /\ k.theta = theta[w]
        /\ k.stack = Append(Front(stack[w]),
                            [Call(w) EXCEPT !.stage = "branch",
                                            !.branches = Branches(Call(w), look.best)])
        /\ k.sat = sat[w] /\ k.cubes = cubes[w]
    BY <1>1, <2>1 DEF Split, Call
  <2>3. k = [solver |-> k.solver, stack |-> k.stack, current |-> k.current, cubes |-> k.cubes,
             sat |-> k.sat, theta |-> k.theta]
    BY <2>1 DEF Split
  <2> HIDE DEF k, l
  <2>4. /\ solver' = [solver EXCEPT ![w] = k.solver] /\ stack' = [stack EXCEPT ![w] = k.stack]
        /\ sat' = sat /\ cubes' = cubes
    BY <1>7, <1>10, <2>2 DEF Continue
  <2>5. Becomes(solver, solver', n, w, k.solver) /\ Becomes(stack, stack', n, w, k.stack)
    BY <2>4, ArrayStep DEF Spread
  <2>6. /\ Becomes(current, current', n, w, k.current) /\ Becomes(theta, theta', n, w, k.theta)
        /\ Becomes(sat, sat', n, w, k.sat) /\ Becomes(cubes, cubes', n, w, k.cubes)
    BY <1>5, <2>2, <2>4, ArraySame DEF Spread
  <2> QED BY <1>3, <1>5, <2>3, <2>5, <2>6, MovedIf DEF l
<1> QED BY <1>6, <1>8, <1>9, <1>10

(* Appending by concatenation. *)
LEMMA ConcatOne ==
  ASSUME NEW S, NEW q \in Seq(S), NEW x \in S
  PROVE  q \o <<x>> = Append(q, x) /\ q \o <<>> = q
OBVIOUS

(* Branch is its third case. *)
LEMMA BranchMoved ==
  ASSUME NEW n, Spread(n), NEW w \in 1 .. n, Fine(db, Local(w)), db \in Databases, Branch(w)
  PROVE  Moved(w, n)
<1> DEFINE l == Local(w)
           f == [Last(stack[w]) EXCEPT !.stage = "undo"]
           s == AssumeAndPropagate(db, solver[w], Head(f.branches))
           k == Branched(l, s)
<1>1. /\ l.solver = solver[w] /\ l.stack = stack[w] /\ l.current = current[w]
      /\ l.cubes = cubes[w] /\ l.sat = sat[w] /\ l.theta = theta[w]
  BY DEF Local
<1>2. stack[w] # <<>> /\ Last(stack[w]).stage = "branch"
  BY DEF Branch, At, Call
<1>3. /\ stack[w] \in Seq(FineFrame) /\ Last(stack[w]) \in FineFrame /\ Len(stack[w]) \in Nat \ {0}
      /\ Last(stack[w]).branches = f.branches
  BY <1>1, <1>2, FineFacts, LocalFacts, SMTT(30) DEF FineFrame
<1>4. Chosen(l) = Head(f.branches)
  BY <1>1, <1>3 DEF Chosen
<1>5. k = After(db, optimizing, l)
  BY <1>1, <1>2, <1>4 DEF After
<1>6. /\ InBranch(l) = Append(Front(stack[w]), f)
      /\ InBranch(l)[Len(stack[w])] = f
  <2>1. InBranch(l) = Append(Front(stack[w]), f)
    BY <1>1 DEF InBranch
  <2>2. Front(stack[w]) \in Seq(FineFrame) /\ Len(Front(stack[w])) = Len(stack[w]) - 1
    BY <1>2, <1>3, FrontFacts
  <2>3. (Len(stack[w]) - 1) + 1 = Len(stack[w])
    BY <1>3
  <2> HIDE DEF f, l
  <2>4. Append(Front(stack[w]), f)[Len(stack[w])] = f
    BY <2>2, <2>3
  <2> QED BY <2>1, <2>4
<1>7. Front(stack[w]) \o <<f>> \o (IF s.conflict THEN <<>> ELSE <<Child(f)>>)
      = IF s.conflict THEN InBranch(l) ELSE Append(InBranch(l), Child(f))
  <2>1. Front(stack[w]) \in Seq({Front(stack[w])[i] : i \in DOMAIN Front(stack[w])} \cup {f, Child(f)})
    <3>1. Front(stack[w]) \in Seq(FineFrame)
      BY <1>2, <1>3, FrontFacts
    <3> QED BY <3>1
  <2> DEFINE T == {Front(stack[w])[i] : i \in DOMAIN Front(stack[w])} \cup {f, Child(f)}
  <2>2. f \in T /\ Child(f) \in T
    OBVIOUS
  <2> HIDE DEF T, f, l, s
  <2>3. Front(stack[w]) \o <<f>> = Append(Front(stack[w]), f)
    BY <2>1, <2>2, ConcatOne DEF T
  <2>4. Append(Front(stack[w]), f) \in Seq(T)
    BY <2>1, <2>2 DEF T
  <2>5. /\ Append(Front(stack[w]), f) \o <<Child(f)>> = Append(Append(Front(stack[w]), f), Child(f))
        /\ Append(Front(stack[w]), f) \o <<>> = Append(Front(stack[w]), f)
    BY <2>2, <2>4, ConcatOne
  <2> QED BY <2>3, <2>5, <1>6
<1>8. k = [solver |-> k.solver, stack |-> k.stack, current |-> k.current, cubes |-> k.cubes,
           sat |-> k.sat, theta |-> k.theta]
  BY DEF Branched
<1>9. /\ k.solver = s /\ k.current = Append(current[w], Head(f.branches))
      /\ k.cubes = cubes[w] /\ k.sat = sat[w]
      /\ k.theta = IF s.conflict THEN Lowered(theta[w]) ELSE theta[w]
      /\ k.stack = IF s.conflict THEN InBranch(l) ELSE Append(InBranch(l), Child(f))
  BY <1>1, <1>4, <1>6 DEF Branched
<1>10. /\ current' = [current EXCEPT ![w] = Append(current[w], Head(f.branches))]
       /\ solver' = [solver EXCEPT ![w] = s]
       /\ theta' = [theta EXCEPT ![w] = IF s.conflict THEN Lowered(theta[w]) ELSE theta[w]]
       /\ stack' = [stack EXCEPT ![w] =
                      Front(stack[w]) \o <<f>> \o (IF s.conflict THEN <<>> ELSE <<Child(f)>>)]
       /\ cubes' = cubes /\ sat' = sat
       /\ problem' = problem /\ db' = db /\ optimizing' = optimizing
  BY DEF Branch, Call, input
<1> HIDE DEF k, l, s, f
<1>11. /\ current' = [current EXCEPT ![w] = k.current] /\ solver' = [solver EXCEPT ![w] = k.solver]
       /\ theta' = [theta EXCEPT ![w] = k.theta] /\ stack' = [stack EXCEPT ![w] = k.stack]
  BY <1>7, <1>9, <1>10
<1>12. /\ Becomes(solver, solver', n, w, k.solver) /\ Becomes(stack, stack', n, w, k.stack)
       /\ Becomes(current, current', n, w, k.current) /\ Becomes(theta, theta', n, w, k.theta)
  BY <1>11, ArrayStep DEF Spread
<1>13. Becomes(sat, sat', n, w, k.sat) /\ Becomes(cubes, cubes', n, w, k.cubes)
  BY <1>9, <1>10, ArraySame DEF Spread
<1> QED BY <1>5, <1>8, <1>10, <1>12, <1>13, MovedIf DEF l

(* Undo is its last. *)
LEMMA UndoMoved ==
  ASSUME NEW n, Spread(n), NEW w \in 1 .. n, Undo(w)
  PROVE  Moved(w, n)
<1> DEFINE l == Local(w)
           s == Backtrack(db, solver[w], 1)
           k == Left(db, optimizing, l, s)
           g == [Last(stack[w]) EXCEPT !.stage = "branch", !.branches = Tail(Last(stack[w]).branches)]
<1>1. /\ l.solver = solver[w] /\ l.stack = stack[w] /\ l.current = current[w]
      /\ l.cubes = cubes[w] /\ l.sat = sat[w] /\ l.theta = theta[w]
  BY DEF Local
<1>2. stack[w] # <<>> /\ Last(stack[w]).stage = "undo"
  BY DEF Undo, At, Call
<1>3. k = After(db, optimizing, l)
  BY <1>1, <1>2 DEF After
<1>4. k = [solver |-> k.solver, stack |-> k.stack, current |-> k.current, cubes |-> k.cubes,
           sat |-> k.sat, theta |-> k.theta]
  BY DEF Left
<1>5. Leaves(optimizing, l) <=> Tail(Last(stack[w]).branches) = <<>> \/ (sat[w] /\ ~optimizing)
  BY <1>1 DEF Leaves, Stopped
<1>6. /\ k.solver = IF Leaves(optimizing, l) THEN Backtrack(db, s, Last(stack[w]).failed) ELSE s
      /\ k.stack = IF Leaves(optimizing, l) THEN Front(stack[w]) ELSE Append(Front(stack[w]), g)
      /\ k.current = Front(current[w]) /\ k.cubes = cubes[w] /\ k.sat = sat[w] /\ k.theta = theta[w]
  BY <1>1 DEF Left, Onward
<1>7. /\ current' = [current EXCEPT ![w] = Front(current[w])]
      /\ solver' = [solver EXCEPT ![w] =
                      IF Leaves(optimizing, l) THEN Backtrack(db, s, Last(stack[w]).failed) ELSE s]
      /\ stack' = [stack EXCEPT ![w] =
                      IF Leaves(optimizing, l) THEN Front(stack[w]) ELSE Append(Front(stack[w]), g)]
      /\ cubes' = cubes /\ sat' = sat /\ theta' = theta
      /\ problem' = problem /\ db' = db /\ optimizing' = optimizing
  <2> HIDE DEF l
  <2>1. CASE Leaves(optimizing, l)
    BY <1>5, <2>1 DEF Undo, Call, Return, Released, input
  <2>2. CASE ~Leaves(optimizing, l)
    BY <1>5, <2>2 DEF Undo, Call, Continue, Released, input
  <2> QED BY <2>1, <2>2
<1> HIDE DEF k, l, s, g
<1>8. /\ current' = [current EXCEPT ![w] = k.current] /\ solver' = [solver EXCEPT ![w] = k.solver]
      /\ stack' = [stack EXCEPT ![w] = k.stack]
  BY <1>6, <1>7
<1>9. /\ Becomes(solver, solver', n, w, k.solver) /\ Becomes(stack, stack', n, w, k.stack)
      /\ Becomes(current, current', n, w, k.current)
  BY <1>8, ArrayStep DEF Spread
<1>10. /\ Becomes(theta, theta', n, w, k.theta) /\ Becomes(sat, sat', n, w, k.sat)
       /\ Becomes(cubes, cubes', n, w, k.cubes)
  BY <1>6, <1>7, ArraySame DEF Spread
<1> QED BY <1>3, <1>4, <1>7, <1>9, <1>10, MovedIf DEF l

(* Every step of a worker is After. *)
LEMMA StepMoved ==
  ASSUME NEW n, Spread(n), NEW w \in 1 .. n, Fine(db, Local(w)), db \in Databases, Step(w)
  PROVE  Moved(w, n)
<1>1. CASE Enter(w)
  BY <1>1, EnterMoved
<1>2. CASE LookAhead(w)
  <2> DEFINE l == Local(w)
  <2>1. l.stack = stack[w] /\ l.solver = solver[w] /\ l.current = current[w]
    BY DEF Local
  <2>2. l.stack # <<>> /\ Last(l.stack).stage = "look"
    BY <1>2, <2>1 DEF LookAhead, At, Call
  <2> HIDE DEF l
  <2>3. Looked(db, optimizing, l.solver, Len(l.current)).outcome \in {"open", "refuted", "forced"}
    <3>1. Fine(db, l)
      BY DEF l
    <3> QED BY <3>1, <2>2, LookFacts
  <2> QED BY <1>2, <2>1, <2>3, LookAheadMoved
<1>3. CASE Branch(w)
  BY <1>3, BranchMoved
<1>4. CASE Undo(w)
  BY <1>4, UndoMoved
<1> QED BY <1>1, <1>2, <1>3, <1>4 DEF Step

-----------------------------------------------------------------------------
(***************************************************************************)
(* The workers have taken different numbers of steps, but each is where    *)
(* the same number of steps takes it when all of them go together: row i   *)
(* of T is where the n workers are after i steps of each, and worker w is  *)
(* in row c[w].                                                            *)
(***************************************************************************)
FineLocals(d) == {l \in Locals(d) : Fine(d, l)}

Lockstep(T, N, d, opt, n, t) ==
  /\ N \in Nat
  /\ T \in [0 .. N -> [1 .. n -> FineLocals(d)]]
  /\ \A w \in 1 .. n : T[0][w] = Started(d, w - 1, n, t)
  /\ \A i \in 1 .. N : \A w \in 1 .. n : T[i][w] = After(d, opt, T[i - 1][w])

InRow(T, N, c, n) ==
  /\ c \in [1 .. n -> 0 .. N]
  /\ \A w \in 1 .. n : Local(w) = T[c[w]][w]

Recorded ==
  /\ problem \in Problems /\ db = Database(problem) /\ optimizing \in BOOLEAN
  /\ \E n \in WorkerCounts, t \in Thetas :
       /\ Spread(n)
       /\ \E N, T, c : Lockstep(T, N, db, optimizing, n, t) /\ InRow(T, N, c, n)

(* One more row. *)
Longer(U, T, N) == \A i \in 0 .. N : U[i] = T[i]

(* The table can be continued by a row. *)
LEMMA LockstepOn ==
  ASSUME NEW T, NEW N, NEW d \in Databases, NEW opt, NEW n \in Nat, NEW t, Lockstep(T, N, d, opt, n, t)
  PROVE  \E U : Lockstep(U, N + 1, d, opt, n, t) /\ Longer(U, T, N)
<1> DEFINE A == [l \in FineLocals(d) |-> After(d, opt, l)]
           r == [w \in 1 .. n |-> A[T[N][w]]]
           U == [i \in 0 .. N + 1 |-> IF i = N + 1 THEN r ELSE T[i]]
<1>1. N \in Nat /\ T \in [0 .. N -> [1 .. n -> FineLocals(d)]]
  BY DEF Lockstep
<1>2. A \in [FineLocals(d) -> FineLocals(d)] /\ \A l \in FineLocals(d) : A[l] = After(d, opt, l)
  <2>1. \A l \in FineLocals(d) : After(d, opt, l) \in FineLocals(d)
    BY AfterFine DEF FineLocals, Fine
  <2> QED BY <2>1
<1> HIDE DEF A
<1>3. T[N] \in [1 .. n -> FineLocals(d)]
  BY <1>1
<1>4. r \in [1 .. n -> FineLocals(d)] /\ \A w \in 1 .. n : r[w] = After(d, opt, T[N][w])
  BY <1>2, <1>3
<1> HIDE DEF r
<1>5. /\ U \in [0 .. N + 1 -> [1 .. n -> FineLocals(d)]]
      /\ U[N + 1] = r /\ \A i \in 0 .. N : U[i] = T[i]
  BY <1>1, <1>4
<1> HIDE DEF U
<1>6. \A w \in 1 .. n : U[0][w] = Started(d, w - 1, n, t)
  <2>1. 0 \in 0 .. N
    BY <1>1
  <2> QED BY <2>1, <1>5 DEF Lockstep
<1>7. ASSUME NEW i \in 1 .. N + 1, NEW w \in 1 .. n PROVE U[i][w] = After(d, opt, U[i - 1][w])
  <2>1. CASE i = N + 1
    <3>1. i - 1 = N /\ N \in 0 .. N
      BY <2>1, <1>1
    <3> QED BY <3>1, <2>1, <1>4, <1>5
  <2>2. CASE i # N + 1
    <3>1. i \in 1 .. N /\ i \in 0 .. N /\ i - 1 \in 0 .. N
      BY <2>2, <1>1
    <3>2. T[i][w] = After(d, opt, T[i - 1][w])
      BY <3>1 DEF Lockstep
    <3> QED BY <3>1, <3>2, <1>5
  <2> QED BY <2>1, <2>2
<1>8. N + 1 \in Nat
  BY <1>1
<1>9. Lockstep(U, N + 1, d, opt, n, t)
  BY <1>5, <1>6, <1>7, <1>8 DEF Lockstep
<1> QED BY <1>5, <1>9 DEF Longer

(* The initial states are the row 0. *)
LEMMA RecordedInit ==
  ASSUME Init PROVE Recorded
<1>1. problem \in Problems /\ db = Database(problem) /\ optimizing \in BOOLEAN
  BY DEF Init
<1>2. db \in Databases
  BY <1>1, ProblemsAssumption, SolutionsAreModels DEF Databases
<1>3. PICK n \in WorkerCounts, t \in Thetas :
        /\ solver  = [w \in 1 .. n |-> Loaded(db)]
        /\ stack   = [w \in 1 .. n |-> <<Frame(w - 1, n)>>]
        /\ current = [w \in 1 .. n |-> <<>>]
        /\ cubes   = [w \in 1 .. n |-> <<>>]
        /\ sat     = [w \in 1 .. n |-> FALSE]
        /\ theta   = [w \in 1 .. n |-> t * ThetaUnit]
  BY DEF Init
<1>4. n \in Nat /\ t \in Nat
  BY WorkersAssumption
<1>5. Spread(n)
  BY <1>3 DEF Spread, IsArray
<1>6. \A w \in 1 .. n : Local(w) = Started(db, w - 1, n, t)
  BY <1>3 DEF Local, Started
<1> DEFINE r == [w \in 1 .. n |-> Started(db, w - 1, n, t)]
           T == [i \in 0 .. 0 |-> r]
           c == [w \in 1 .. n |-> 0]
<1>7. r \in [1 .. n -> FineLocals(db)]
  <2>1. ASSUME NEW w \in 1 .. n PROVE Started(db, w - 1, n, t) \in FineLocals(db)
    <3>1. w - 1 \in Nat /\ w - 1 < n
      BY <1>4
    <3>2. Fine(db, Started(db, w - 1, n, t))
      BY <3>1, <1>2, <1>4, StartedFine
    <3> QED BY <3>2 DEF FineLocals, Fine
  <2> QED BY <2>1
<1>8. \A w \in 1 .. n : r[w] = Started(db, w - 1, n, t)
  OBVIOUS
<1> HIDE DEF r
<1>9. T \in [0 .. 0 -> [1 .. n -> FineLocals(db)]] /\ T[0] = r /\ 1 .. 0 = {}
  BY <1>7
<1>10. c \in [1 .. n -> 0 .. 0] /\ \A w \in 1 .. n : c[w] = 0
  OBVIOUS
<1> HIDE DEF T, c
<1>11. Lockstep(T, 0, db, optimizing, n, t)
  BY <1>8, <1>9 DEF Lockstep
<1>12. InRow(T, 0, c, n)
  BY <1>6, <1>8, <1>9, <1>10 DEF InRow
<1> QED BY <1>1, <1>5, <1>11, <1>12 DEF Recorded

(* A step of a worker moves it on to its next row. *)
LEMMA RecordedNext ==
  ASSUME Recorded, [Next]_vars PROVE Recorded'
<1>1. PICK n, t, N, T, c :
        /\ n \in WorkerCounts /\ t \in Thetas
        /\ Spread(n) /\ Lockstep(T, N, db, optimizing, n, t) /\ InRow(T, N, c, n)
  BY DEF Recorded
<1>2. /\ problem \in Problems /\ db = Database(problem) /\ optimizing \in BOOLEAN
      /\ n \in Nat
  BY <1>1, WorkersAssumption DEF Recorded
<1>3. db \in Databases
  BY <1>2, ProblemsAssumption, SolutionsAreModels DEF Databases
<1>4. CASE Next
  <2>1. PICK w \in Gang : Step(w)
    BY <1>4 DEF Next
  <2>2. w \in 1 .. n
    BY <2>1, <1>1 DEF Gang, Spread, IsArray
  <2>3. N \in Nat /\ c[w] \in 0 .. N /\ Local(w) = T[c[w]][w] /\ T[c[w]] \in [1 .. n -> FineLocals(db)]
    BY <1>1, <2>2 DEF InRow, Lockstep
  <2>4. Fine(db, Local(w))
    BY <2>2, <2>3 DEF FineLocals
  <2>5. Moved(w, n)
    BY <1>1, <1>2, <1>3, <2>1, <2>2, <2>4, StepMoved
  <2>6. PICK U : Lockstep(U, N + 1, db, optimizing, n, t) /\ Longer(U, T, N)
    BY <1>1, <1>2, <1>3, LockstepOn
  <2> DEFINE e == [c EXCEPT ![w] = c[w] + 1]
  <2>7. /\ c[w] + 1 \in 1 .. N + 1 /\ (c[w] + 1) - 1 = c[w]
    BY <2>3
  <2>8. U[c[w] + 1][w] = After(db, optimizing, T[c[w]][w])
    <3>1. U[c[w] + 1][w] = After(db, optimizing, U[(c[w] + 1) - 1][w])
      BY <2>2, <2>6, <2>7 DEF Lockstep
    <3> QED BY <3>1, <2>3, <2>6, <2>7 DEF Longer
  <2>9. /\ e \in [1 .. n -> 0 .. N + 1] /\ e[w] = c[w] + 1 /\ \A v \in 1 .. n : v # w => e[v] = c[v]
    <3>1. c \in [1 .. n -> 0 .. N + 1]
      BY <1>1, <2>3 DEF InRow
    <3> QED BY <3>1, <2>2, <2>7
  <2> HIDE DEF e
  <2>10. ASSUME NEW v \in 1 .. n PROVE Local(v)' = U[e[v]][v]
    <3>1. CASE v = w
      BY <3>1, <2>3, <2>5, <2>8, <2>9 DEF Moved
    <3>2. CASE v # w
      <4>1. Local(v)' = Local(v) /\ e[v] = c[v] /\ c[v] \in 0 .. N /\ Local(v) = T[c[v]][v]
        BY <3>2, <1>1, <2>5, <2>9 DEF Moved, InRow
      <4> QED BY <4>1, <2>6 DEF Longer
    <3> QED BY <3>1, <3>2
  <2>11. Lockstep(U, N + 1, db, optimizing, n, t)' /\ InRow(U, N + 1, e, n)'
    <3>1. db' = db /\ optimizing' = optimizing
      BY <2>5 DEF Moved
    <3>2. Lockstep(U, N + 1, db', optimizing', n, t)
      BY <2>6, <3>1
    <3> QED BY <3>2, <2>9, <2>10 DEF InRow
  <2> QED BY <1>1, <1>2, <1>3, <2>5, <2>11 DEF Recorded, Moved
<1>5. CASE UNCHANGED vars
  <2>1. /\ solver' = solver /\ stack' = stack /\ current' = current /\ cubes' = cubes
        /\ sat' = sat /\ theta' = theta
        /\ problem' = problem /\ db' = db /\ optimizing' = optimizing
    BY <1>5 DEF vars, input
  <2>2. \A w : Local(w)' = Local(w)
    BY <2>1 DEF Local
  <2>3. InRow(T, N, c, n)' /\ Spread(n)'
    BY <1>1, <2>1, <2>2 DEF InRow, Spread
  <2> QED BY <1>1, <1>2, <2>1, <2>3 DEF Recorded
<1> QED BY <1>4, <1>5

(* Every reachable state is Recorded. *)
THEOREM AlwaysRecorded == Spec => []Recorded
<1> QED BY RecordedInit, RecordedNext, PTL DEF Spec

-----------------------------------------------------------------------------
(***************************************************************************)
(* What the runs check of each worker.                                     *)
(***************************************************************************)
LEMMA RecordedFine ==
  ASSUME Recorded
  PROVE  /\ problem \in Databases /\ db = Database(problem) /\ db \in Databases
         /\ optimizing \in BOOLEAN
         /\ \A w \in Gang : Fine(db, Local(w))
<1>1. PICK n, t, N, T, c :
        /\ n \in WorkerCounts /\ t \in Thetas
        /\ Spread(n) /\ Lockstep(T, N, db, optimizing, n, t) /\ InRow(T, N, c, n)
  BY DEF Recorded
<1>2. problem \in Problems /\ db = Database(problem) /\ optimizing \in BOOLEAN
  BY DEF Recorded
<1>3. problem \in Databases
  BY <1>2, ProblemsAssumption DEF Databases
<1>4. db \in Databases
  BY <1>2, <1>3, SolutionsAreModels
<1>5. ASSUME NEW w \in Gang PROVE Fine(db, Local(w))
  <2>1. w \in 1 .. n
    BY <1>1 DEF Gang, Spread, IsArray
  <2>2. c[w] \in 0 .. N /\ Local(w) = T[c[w]][w]
    BY <1>1, <2>1 DEF InRow
  <2>3. T[c[w]] \in [1 .. n -> FineLocals(db)]
    BY <1>1, <2>2 DEF Lockstep
  <2> QED BY <2>1, <2>2, <2>3 DEF FineLocals
<1> QED BY <1>2, <1>3, <1>4, <1>5

(* The fields of a worker. *)
LEMMA LocalIs ==
  ASSUME NEW w
  PROVE  /\ Local(w).solver = solver[w] /\ Local(w).stack = stack[w]
         /\ Local(w).current = current[w] /\ Local(w).cubes = cubes[w]
         /\ Local(w).sat = sat[w] /\ Local(w).theta = theta[w]
BY DEF Local

(* Types follow from the invariant of each worker. *)
LEMMA TypeOKIs ==
  ASSUME Recorded PROVE TypeOK
<1>1. optimizing \in BOOLEAN /\ db \in Databases /\ \A w \in Gang : Fine(db, Local(w))
  BY RecordedFine
<1> DEFINE F == [stage : {"enter", "look", "branch", "undo"}, id : Nat,
                 group : Nat \ {0}, failed : Nat, branches : Seq(Lits)]
<1>2. FineFrame \subseteq F
  BY DEF FineFrame
<1>3. TrailEntry = [lit : Lits, dl : Nat, reason : Reason]
  BY DEF TrailEntry
<1>4. ASSUME NEW w \in Gang
      PROVE  /\ solver[w].trail \in Seq(TrailEntry) /\ solver[w].next \in 0 .. Len(solver[w].trail)
             /\ solver[w].conflict \in BOOLEAN
             /\ stack[w] \in Seq(F) /\ \A i \in DOMAIN stack[w] : stack[w][i].id < stack[w][i].group
             /\ current[w] \in Seq(Lits) /\ cubes[w] \in Seq(Seq(Lits))
             /\ sat[w] \in BOOLEAN /\ theta[w] \in Nat
  <2>1. Local(w) \in Locals(db)
    BY <1>1 DEF Fine
  <2>2. /\ solver[w] \in State /\ Good(db, solver[w]) /\ stack[w] \in Seq(FineFrame)
        /\ current[w] \in Seq(Lits) /\ cubes[w] \in Seq(Seq(Lits))
        /\ sat[w] \in BOOLEAN /\ theta[w] \in Nat
    BY <1>1, <2>1, LocalFacts, LocalIs
  <2>3. /\ solver[w].trail \in Seq(TrailEntry) /\ solver[w].next \in Nat /\ Len(solver[w].trail) \in Nat
        /\ solver[w].conflict \in BOOLEAN
    BY <2>2, StateFacts
  <2>4. solver[w].next <= Len(solver[w].trail)
    BY <2>2 DEF Good, Orderly
  <2>5. stack[w] \in Seq(F)
    <3> HIDE DEF F
    <3> QED BY <2>2, <1>2
  <2>6. ASSUME NEW i \in DOMAIN stack[w] PROVE stack[w][i].id < stack[w][i].group
    <3>1. stack[w][i] \in FineFrame
      BY <2>2, <2>6
    <3> QED BY <3>1, FrameFacts
  <2> QED BY <2>2, <2>3, <2>4, <2>5, <2>6
<1> QED BY <1>1, <1>3, <1>4 DEF TypeOK

(* The failed literals of the calls under way. *)
Failures(frames) == FoldLeft(LAMBDA n, f : n + f.failed, 0, frames)

(* The partial sums of the failed literals. *)
LEMMA FailuresSteps ==
  ASSUME NEW frames \in Seq(FineFrame)
  PROVE  \E h \in [0 .. Len(frames) -> Nat] :
           /\ h[0] = 0
           /\ \A i \in 1 .. Len(frames) : h[i] = h[i - 1] + frames[i].failed
           /\ Failures(frames) = h[Len(frames)]
<1> DEFINE n == Len(frames)
           step(r, i) == r + frames[i].failed
           g == [p \in Nat \X (1 .. n) |-> step(p[1], p[2])]
           E(f) == f = [t \in SUBSET (1 .. n) |->
                          IF t = {} THEN 0 ELSE step(f[t \ {Max(t)}], Max(t))]
           F == CHOOSE f : E(f)
<1>1. n \in Nat /\ 0 \in Nat /\ DOMAIN frames = 1 .. n /\ \A i \in 1 .. n : frames[i].failed \in Nat
  <2>1. \A i \in 1 .. n : frames[i] \in FineFrame
    OBVIOUS
  <2> QED BY <2>1, FrameFacts
<1>2. g \in [Nat \X (1 .. n) -> Nat]
  BY <1>1
<1>3. \A t \in SUBSET (1 .. n), r \in Nat : t # {} => g[<<r, Max(t)>>] = step(r, Max(t))
  BY <1>1, MaxInSet
<1>4. Failures(frames) = F[1 .. n]
  BY <1>1, Zenon DEF Failures, FoldLeft, MapThenFoldSet
<1> HIDE DEF step, g, n
<1>5. \E f : E(f)
  <2>1. PICK f \in [SUBSET (1 .. n) -> Nat] : Solves(f, n, 0, g)
    BY <1>1, <1>2, FoldExists
  <2>2. E(f)
    BY <2>1, <1>3 DEF Solves
  <2> QED BY <2>2
<1>6. E(F)
  BY <1>5, Zenon
<1> HIDE DEF F
<1>7. Follows(F, n, Nat, 0, g)
  BY <1>1, <1>2, <1>6, <1>3 DEF Follows
<1>8. PICK h : Steps(h, F, n, Nat, 0, g)
  BY <1>7, FoldSteps
<1>9. /\ h \in [0 .. n -> Nat] /\ h[0] = 0 /\ F[1 .. n] = h[n]
      /\ \A i \in 1 .. n : h[i] = g[<<h[i - 1], i>>] /\ h[i - 1] \in Nat
  BY <1>8, <1>1 DEF Steps
<1>10. \A i \in 1 .. n : h[i] = step(h[i - 1], i)
  BY <1>9 DEF g
<1> QED BY <1>4, <1>9, <1>10 DEF n, step

(* One more call adds its branch and its failed literals. *)
LEMMA NextSum ==
  ASSUME NEW k \in Nat, NEW j, NEW b, NEW h, NEW f \in Nat, h[j] \in Nat, b[j] \in Nat,
         b[j] = (k - 2) + h[j], b[k] = b[j] + 1 + f, h[k] = h[j] + f
  PROVE  b[k] = (k - 1) + h[k]
OBVIOUS

(* The level of the last call: the decisions above it and all failed literals. *)
LEMMA BasesSum ==
  ASSUME NEW frames \in Seq(FineFrame), frames # <<>>, NEW b, Bases(b, frames)
  PROVE  b[Len(frames)] = (Len(frames) - 1) + Failures(frames)
<1> DEFINE n == Len(frames)
<1>1. PICK h \in [0 .. n -> Nat] :
        /\ h[0] = 0
        /\ \A i \in 1 .. n : h[i] = h[i - 1] + frames[i].failed
        /\ Failures(frames) = h[n]
  BY FailuresSteps
<1> DEFINE T == {k \in 0 .. n : k = 0 \/ b[k] = (k - 1) + h[k]}
<1>2. n \in Nat \ {0} /\ \A i \in 1 .. n : frames[i].failed \in Nat
  <2>1. \A i \in 1 .. n : frames[i] \in FineFrame
    OBVIOUS
  <2> QED BY <2>1, FrameFacts
<1>3. ASSUME NEW k \in 1 .. n, k - 1 \in T PROVE k \in T
  <2>1. h[k] = h[k - 1] + frames[k].failed /\ h[k - 1] \in Nat /\ frames[k].failed \in Nat
    <3>1. k - 1 \in 0 .. n
      BY <1>2
    <3> QED BY <3>1, <1>1, <1>2
  <2>2. CASE k = 1
    <3>1. b[1] = frames[1].failed /\ 1 - 1 = 0
      BY <1>2 DEF Bases
    <3> PICK x, y, f : x = b[1] /\ y = h[1] /\ f = frames[1].failed
      OBVIOUS
    <3>2. f \in Nat /\ x = f /\ y = 0 + f
      BY <1>1, <2>1, <2>2, <3>1
    <3>3. x = (1 - 1) + y
      BY <3>2
    <3> QED BY <3>3, <2>2
  <2>3. CASE k # 1
    <3>1. k \in 2 .. n
      BY <2>3, <1>2
    <3>2. b[k] = b[k - 1] + 1 + frames[k].failed
      BY <3>1 DEF Bases
    <3>3. b[k - 1] = ((k - 1) - 1) + h[k - 1]
      BY <1>3, <3>1
    <3>4. b[k - 1] \in Nat /\ b[k] \in Nat
      <4>1. k - 1 \in 1 .. n /\ k \in 1 .. n
        BY <1>2, <3>1
      <4> QED BY <4>1 DEF Bases
    <3>5. k \in Nat /\ k \in 0 .. n
      BY <1>2
    <3>6. PICK j : j = k - 1
      OBVIOUS
    <3>7. b[j] = (k - 2) + h[j]
      BY <3>3, <3>5, <3>6
    <3>8. /\ h[k] = h[j] + frames[k].failed /\ h[j] \in Nat /\ frames[k].failed \in Nat
          /\ b[k] = b[j] + 1 + frames[k].failed /\ b[j] \in Nat
      BY <2>1, <3>2, <3>4, <3>6
    <3>9. b[k] = (k - 1) + h[k]
      BY <3>5, <3>7, <3>8, NextSum
    <3> QED BY <3>5, <3>9
  <2> QED BY <2>2, <2>3
<1>4. n \in T
  <2> HIDE DEF T
  <2>1. 0 \in T
    BY <1>2 DEF T
  <2>2. Inductive(n, T)
    BY <1>2, <1>3, <2>1 DEF Inductive
  <2> QED BY <2>2, InductionUpTo
<1> QED BY <1>1, <1>2, <1>4

(* The level of the last call is the sum over all calls. *)
LEMMA LevelsMatchIs ==
  ASSUME Recorded PROVE LevelsMatch
<1>1. db \in Databases /\ \A w \in Gang : Fine(db, Local(w))
  BY RecordedFine
<1>2. ASSUME NEW w \in Gang PROVE Level(solver[w]) = Depth(w) + Failures(stack[w])
  <2>1. PICK l : l = Local(w)
    OBVIOUS
  <2>2. l.solver = solver[w] /\ l.stack = stack[w] /\ l.current = current[w]
    BY <2>1, LocalIs
  <2>3. Fine(db, l) /\ l \in Locals(db) /\ Path(l)
    BY <1>1, <2>1 DEF Fine
  <2>4. PICK b : Placed(db, l, b)
    BY <2>3 DEF Fine
  <2>5. Level(l.solver) = LevelOf(l.stack, b) /\ Bases(b, l.stack)
    BY <2>4 DEF Placed
  <2>6. l.stack \in Seq(FineFrame)
    BY <1>1, <2>3, LocalFacts
  <2>7. PICK h \in [0 .. Len(l.stack) -> Nat] : h[0] = 0 /\ Failures(l.stack) = h[Len(l.stack)]
    BY <2>6, FailuresSteps
  <2>8. CASE l.stack = <<>>
    <3>1. l.current = <<>> /\ Level(l.solver) = 0 /\ Len(l.stack) = 0
      BY <2>3, <2>5, <2>8 DEF Path, LevelOf
    <3>2. Depth(w) = 0 /\ Failures(stack[w]) = 0
      BY <3>1, <2>2, <2>7 DEF Depth
    <3> QED BY <3>1, <3>2, <2>2
  <2>9. CASE l.stack # <<>>
    <3> DEFINE n == Len(l.stack)
    <3>1. b[n] = (n - 1) + Failures(l.stack)
      BY <2>5, <2>6, <2>9, BasesSum
    <3>2. n \in Nat \ {0} /\ Failures(l.stack) \in Nat
      <4>1. n \in Nat /\ n \in 0 .. n
        BY <2>6
      <4> QED BY <4>1, <2>6, <2>7, <2>9
    <3>3. Depth(w) = Len(l.current)
      BY <2>2 DEF Depth
    <3> PICK x, y, k, f : x = Level(l.solver) /\ y = b[n] /\ k = Len(l.current) /\ f = Failures(l.stack)
      OBVIOUS
    <3>4. f \in Nat /\ y = (n - 1) + f
      BY <3>1, <3>2
    <3>5. CASE Last(l.stack).stage = "undo"
      <4>1. x = y + 1 /\ k = n
        BY <3>5, <2>3, <2>5, <2>9 DEF Path, LevelOf
      <4>2. x = k + f
        BY <4>1, <3>2, <3>4
      <4> QED BY <4>2, <3>3, <2>2
    <3>6. CASE Last(l.stack).stage # "undo"
      <4>1. x = y /\ k = n - 1
        BY <3>6, <2>3, <2>5, <2>9 DEF Path, LevelOf
      <4>2. x = k + f
        BY <4>1, <3>2, <3>4
      <4> QED BY <4>2, <3>3, <2>2
    <3> QED BY <3>5, <3>6
  <2> QED BY <2>8, <2>9
<1> QED BY <1>2, Zenon DEF LevelsMatch, Failures

(* What the last call sees is the whole trail. *)
LEMMA TrailEntailedIs ==
  ASSUME Recorded PROVE TrailEntailed
<1>1. /\ problem \in Databases /\ db = Database(problem) /\ db \in Databases
      /\ \A w \in Gang : Fine(db, Local(w))
  BY RecordedFine
<1>2. Solutions(problem) \subseteq TotalModels(db)
  BY <1>1, SolutionsAreModels
<1>3. ASSUME NEW w \in Gang, NEW m \in Solutions(problem), At(w, "look") \/ At(w, "branch"),
             ToSet(current[w]) \subseteq m
      PROVE  TrueLits(solver[w]) \subseteq m
  <2>1. PICK l : l = Local(w)
    OBVIOUS
  <2>2. l.solver = solver[w] /\ l.stack = stack[w] /\ l.current = current[w]
    BY <2>1, LocalIs
  <2>3. Fine(db, l) /\ l \in Locals(db) /\ Path(l)
    BY <1>1, <2>1 DEF Fine
  <2>4. l.stack # <<>> /\ Last(l.stack).stage # "undo"
    BY <1>3, <2>2 DEF At, Call
  <2>5. Open(db, l)
    BY <2>3 DEF Fine, Placed
  <2>6. Reaches(l, Len(l.stack), m)
    <3>1. Len(l.current) = Len(l.stack) - 1 /\ DOMAIN l.current = 1 .. Len(l.current)
      BY <1>1, <2>3, <2>4, LocalFacts DEF Path
    <3>2. \A j \in 1 .. Len(l.stack) - 1 : l.current[j] \in ToSet(l.current)
      BY <3>1 DEF ToSet
    <3> QED BY <3>2, <1>3, <2>2 DEF Reaches
  <2>7. Agrees(l.solver, m)
    BY <1>2, <2>4, <2>5, <2>6 DEF Open
  <2> QED BY <2>2, <2>7 DEF Agrees
<1> QED BY <1>3 DEF TrailEntailed

(* A solver that is good has its counters right. *)
LEMMA CountersAgreeIs ==
  ASSUME Recorded PROVE CountersAgree
<1>1. ASSUME NEW w \in Gang PROVE CountersRight(db, solver[w])
  <2>1. db \in Databases /\ Fine(db, Local(w))
    BY RecordedFine
  <2>2. Good(db, Local(w).solver)
    BY <2>1, LocalFacts DEF Fine
  <2> QED BY <2>2, LocalIs DEF Good
<1> QED BY <1>1 DEF CountersAgree

(* The variables of every worker have their types, and a call's worker_id is
   below its num_workers. *)
THEOREM TypesCorrect == Spec => []TypeOK
<1> QED BY AlwaysRecorded, TypeOKIs, PTL

(* generate_cubes_rec backtracks by numbers of levels, and the levels it gives
   up are always its own. *)
THEOREM LevelsRight == Spec => []LevelsMatch
<1> QED BY AlwaysRecorded, LevelsMatchIs, PTL

(* The counters of visitPBCounterLists and popAndUnassign agree with the trail
   after any sequence of trials and backtracks. *)
THEOREM CountersCorrect == Spec => []CountersAgree
<1> QED BY AlwaysRecorded, CountersAgreeIs, PTL

(* A worker that looks ahead or branches only has literals on its trail that
   every solution below its path has. *)
THEOREM TrailFollows == Spec => []TrailEntailed
<1> QED BY AlwaysRecorded, TrailEntailedIs, PTL
====
