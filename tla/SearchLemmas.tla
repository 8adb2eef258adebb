---------------------------- MODULE SearchLemmas ----------------------------
(***************************************************************************)
(* Lemmas about the native solver's search: what forms force, what the     *)
(* clauses must be like, what propagation reaches, what undoing leaves,    *)
(* and where analysis finds the literal to cut.                            *)
(***************************************************************************)
EXTENDS FormLemmas, Cleanup

(***************************************************************************)
(* What forms force.                                                       *)
(***************************************************************************)
(* What f knows to be false: the literals in T falsify some of its own. *)
Heeds(f, T, m) == \A v \in Used(f) : -LitOf(f, v) \in T => -LitOf(f, v) \in m

(* f has the literal lit, and propagates it when those in T are true. *)
Forces(f, lit, T) ==
  /\ f \in Forms /\ lit \in Lits /\ -lit \notin T
  /\ Magnitude(lit) \in Used(f) /\ LitOf(f, Magnitude(lit)) = lit
  /\ SlackUnder(f, T) < Weights(f)[Magnitude(lit)]

Fails(f, T) == f \in Forms /\ SlackUnder(f, T) < 0

LEMMA SlackType ==
  ASSUME NEW f \in Forms, NEW T
  PROVE  SlackUnder(f, T) \in Int /\ SlackUnder(f, T) = Weight(f, Free(T)) - f.k
<1>1. SlackUnder(f, T) = Weight(f, Free(T)) - f.k
  BY SlackIsWeight DEF Free
<1>2. Weight(f, Free(T)) \in Nat /\ f.k \in Int
  BY FormFacts
<1> QED BY <1>1, <1>2

(* The more is false, the less slack. *)
LEMMA SlackMono ==
  ASSUME NEW f \in Forms, NEW T, NEW U, Heeds(f, T, U)
  PROVE  SlackUnder(f, U) <= SlackUnder(f, T)
<1>1. \A v \in Used(f) : LitOf(f, v) \in Lits
  BY FormFacts
<1>2. \A v \in Used(f) : LitOf(f, v) \in Free(U) => LitOf(f, v) \in Free(T)
  BY <1>1 DEF Free, Heeds
<1>3. Weight(f, Free(U)) <= Weight(f, Free(T))
  BY <1>2, WeightMono
<1>4. Weight(f, Free(U)) \in Nat /\ Weight(f, Free(T)) \in Nat /\ f.k \in Int
  BY FormFacts
<1>5. /\ SlackUnder(f, T) = Weight(f, Free(T)) - f.k
      /\ SlackUnder(f, U) = Weight(f, Free(U)) - f.k
  BY SlackType
<1> QED BY <1>3, <1>4, <1>5

(* A complete assignment has the literals that are not false under it. *)
LEMMA CompleteFree ==
  ASSUME NEW m, Complete(m)
  PROVE  \A l \in Lits : (l \in m <=> -l \notin m) /\ (l \in m <=> l \in Free(m))
<1>1. ASSUME NEW l \in Lits PROVE l \in m <=> -l \notin m
  <2>1. Magnitude(l) \in Vars /\ (l = Magnitude(l) \/ l = -Magnitude(l)) /\ -(-l) = l /\ l \in Int
    BY VarFacts
  <2>2. CASE l = Magnitude(l)
    BY <2>1, <2>2 DEF Complete
  <2>3. CASE l = -Magnitude(l)
    <3>1. -l = Magnitude(l)
      <4>1. \A a, b \in Int : a = -b => -a = b
        OBVIOUS
      <4>2. Magnitude(l) \in Int
        BY <2>1, VarFacts
      <4> QED BY <2>1, <2>3, <4>1, <4>2
    <3>2. Magnitude(l) \in m <=> -Magnitude(l) \notin m
      BY <2>1 DEF Complete
    <3> QED BY <2>3, <3>1, <3>2
  <2> QED BY <2>1, <2>2, <2>3
<1> QED BY <1>1 DEF Free

LEMMA AdmitsSlack ==
  ASSUME NEW f \in Forms, NEW m, Complete(m)
  PROVE  Admits(f, m) <=> SlackUnder(f, m) >= 0
<1>1. \A v \in Used(f) : LitOf(f, v) \in Lits
  BY FormFacts
<1>2. Weight(f, m) = Weight(f, Free(m))
  BY <1>1, CompleteFree, WeightSame
<1>3. SlackUnder(f, m) = Weight(f, Free(m)) - f.k /\ Weight(f, Free(m)) \in Nat /\ f.k \in Int
  BY SlackType, FormFacts
<1> QED BY <1>2, <1>3 DEF Admits

LEMMA FailsSound ==
  ASSUME NEW f, NEW T, Fails(f, T), NEW m, Complete(m), Heeds(f, T, m)
  PROVE  ~Admits(f, m)
<1>1. f \in Forms /\ SlackUnder(f, T) < 0
  BY DEF Fails
<1>2. SlackUnder(f, m) <= SlackUnder(f, T) /\ SlackUnder(f, m) \in Int /\ SlackUnder(f, T) \in Int
  BY <1>1, SlackMono, SlackType
<1> QED BY <1>1, <1>2, AdmitsSlack

LEMMA ForcesSound ==
  ASSUME NEW f, NEW lit, NEW T, Forces(f, lit, T), NEW m, Complete(m), Heeds(f, T, m), Admits(f, m)
  PROVE  lit \in m
<1>0. f \in Forms /\ lit \in Lits /\ Magnitude(lit) \in Used(f) /\ LitOf(f, Magnitude(lit)) = lit
  BY DEF Forces
<1> SUFFICES ASSUME lit \notin m PROVE FALSE
  OBVIOUS
<1>1. lit \in Free(T)
  BY <1>0 DEF Forces, Free
<1>2. Weight(f, Free(T) \ {lit}) = Weight(f, Free(T)) - Weights(f)[Magnitude(lit)]
  BY <1>0, <1>1, WeightWithout
<1>3. \A v \in Used(f) : LitOf(f, v) \in m => LitOf(f, v) \in Free(T) \ {lit}
  <2>1. \A v \in Used(f) : LitOf(f, v) \in Lits
    BY <1>0, FormFacts
  <2>2. \A v \in Used(f) : LitOf(f, v) \in m => -LitOf(f, v) \notin m
    BY <2>1, CompleteFree
  <2> QED BY <2>1, <2>2 DEF Heeds, Free
<1>4. Weight(f, m) <= Weight(f, Free(T) \ {lit})
  BY <1>0, <1>3, WeightMono
<1>5. /\ Weight(f, m) \in Nat /\ Weight(f, Free(T)) \in Nat /\ f.k \in Int
      /\ Weights(f)[Magnitude(lit)] \in Nat
  BY <1>0, FormFacts
<1>6. Weight(f, Free(T)) - f.k < Weights(f)[Magnitude(lit)]
  BY <1>0, SlackType DEF Forces
<1>7. Weight(f, m) >= f.k
  BY DEF Admits
<1> QED BY <1>2, <1>4, <1>5, <1>6, <1>7

LEMMA ForcesPushes ==
  ASSUME NEW f, NEW lit, NEW T, Forces(f, lit, T), lit \notin T
  PROVE  /\ Pushes(f, Magnitude(lit), T) /\ Magnitude(lit) \in Vars
         /\ LitOf(f, Magnitude(lit)) = lit
<1>1. lit \in Lits /\ lit \notin T /\ -lit \notin T
  BY DEF Forces
<1>2. {Magnitude(lit), -Magnitude(lit)} = {lit, -lit} /\ Magnitude(lit) \in Vars
  <2>1. Magnitude(lit) \in Vars /\ (lit = Magnitude(lit) \/ lit = -Magnitude(lit)) /\ -(-Magnitude(lit)) = Magnitude(lit)
    BY <1>1, VarFacts
  <2> QED BY <2>1
<1> QED BY <1>1, <1>2 DEF Forces, Pushes

(* A clause forces its last literal that is not false. *)
LEMMA ClauseForces ==
  ASSUME NEW L, Unopposed(L), NEW l \in L, NEW T, -l \notin T, \A k \in L \ {l} : -k \in T
  PROVE  Forces(ClauseForm(L), l, T)
<1>1. PICK g : g = ClauseForm(L)
  OBVIOUS
<1>2. /\ g \in Forms /\ g.k = 1 /\ FormLits(g) = L
      /\ Magnitude(l) \in Used(g) /\ LitOf(g, Magnitude(l)) = l /\ Weights(g)[Magnitude(l)] = 1
      /\ \A v \in Used(g) : LitOf(g, v) \in L
  BY <1>1, ClauseFormRight
<1>3. l \in Lits /\ -l \notin T
  BY DEF Unopposed
<1>4. Weight(g, Free(T)) <= Weight(g, {l})
  <2>1. \A v \in Used(g) : LitOf(g, v) \in Free(T) => LitOf(g, v) \in {l}
    BY <1>2 DEF Free
  <2> QED BY <1>2, <2>1, WeightMono
<1>5. Weight(g, {l}) = 1
  <2>1. Weight(g, {l} \ {LitOf(g, Magnitude(l))}) = Weight(g, {l}) - Weights(g)[Magnitude(l)]
    BY <1>2, WeightWithout
  <2>2. {l} \ {LitOf(g, Magnitude(l))} = {}
    BY <1>2
  <2>3. Weight(g, {}) = Weight(g, {}) /\ ~Admits(g, {})
    <3>1. L \cap {} = {}
      OBVIOUS
    <3> QED BY <1>1, <3>1, ClauseFormRight
  <2>4. Weight(g, {}) \in Nat /\ Weight(g, {l}) \in Nat
    BY <1>2, FormFacts
  <2>5. Weight(g, {}) = 0
    BY <1>2, <2>3, <2>4 DEF Admits
  <2> QED BY <1>2, <2>1, <2>2, <2>4, <2>5
<1>6. SlackUnder(g, T) < 1
  <2>1. SlackUnder(g, T) = Weight(g, Free(T)) - g.k /\ Weight(g, Free(T)) \in Nat
    BY <1>2, SlackType, FormFacts
  <2> QED BY <1>2, <1>4, <1>5, <2>1
<1>7. Forces(g, l, T)
  BY <1>2, <1>3, <1>6 DEF Forces
<1> QED BY <1>1, <1>7

LEMMA ClauseFails ==
  ASSUME NEW L, Unopposed(L), NEW T, \A k \in L : -k \in T
  PROVE  Fails(ClauseForm(L), T)
<1>1. PICK g : g = ClauseForm(L)
  OBVIOUS
<1>2. g \in Forms /\ g.k = 1
  BY <1>1, ClauseFormRight
<1>3. ~Admits(g, Free(T))
  <2>1. L \cap Free(T) = {}
    BY DEF Free
  <2> QED BY <1>1, <2>1, ClauseFormRight
<1>4. SlackUnder(g, T) = Weight(g, Free(T)) - g.k /\ Weight(g, Free(T)) \in Nat
  BY <1>2, SlackType, FormFacts
<1> QED BY <1>1, <1>2, <1>3, <1>4 DEF Admits, Fails

(* A clause that fails has only false literals. *)
LEMMA FailedClause ==
  ASSUME NEW f, NEW T, Fails(f, T), f.k = 1
  PROVE  \A v \in Used(f) : -LitOf(f, v) \in T
<1>0. f \in Forms
  BY DEF Fails
<1> SUFFICES ASSUME NEW v \in Used(f), -LitOf(f, v) \notin T PROVE FALSE
  OBVIOUS
<1>1. v \in Vars /\ LitOf(f, v) \in Lits /\ Weights(f)[v] \in Nat /\ Weights(f)[v] # 0
  BY <1>0, FormFacts
<1>2. LitOf(f, v) \in Free(T)
  BY <1>1 DEF Free
<1>3. Weight(f, Free(T) \ {LitOf(f, v)}) = Weight(f, Free(T)) - Weights(f)[v]
  BY <1>0, <1>2, WeightWithout
<1>4. Weight(f, Free(T) \ {LitOf(f, v)}) \in Nat /\ Weight(f, Free(T)) \in Nat
  BY <1>0, FormFacts
<1>5. SlackUnder(f, T) = Weight(f, Free(T)) - f.k
  BY <1>0, SlackType
<1> QED BY <1>1, <1>3, <1>4, <1>5 DEF Fails

(* The slack of a constraint is at most what its counter knows to remain. *)
LEMMA SlackRemaining ==
  ASSUME NEW db \in Databases, NEW id \in 1 .. Len(db), NEW s, NEW T, \A l \in Discounted(s) : -l \in Lits => -l \in T,
         Discounted(s) \subseteq Lits
  PROVE  /\ Form(db[id]) \in Forms
         /\ SlackUnder(Form(db[id]), T) <= Remaining(db, s, id)
<1>1. PICK c \in Constraint : c = db[id]
  BY DEF Databases
<1>2. Form(c) \in Forms /\ Form(c).k = c.k /\ FormLits(Form(c)) = LitsOf(c)
  BY FormOfConstraint
<1>3. SlackUnder(Form(c), T) = Weight(Form(c), Free(T)) - c.k
  BY <1>2, SlackType
<1>4. Weight(Form(c), Free(T)) <= Weight(Form(c), LitsOf(c) \ Discounted(s))
  <2>1. \A v \in Used(Form(c)) : LitOf(Form(c), v) \in LitsOf(c) /\ LitOf(Form(c), v) \in Lits
    BY <1>2, FormFacts DEF FormLits
  <2>2. \A l \in Free(T) : l \notin Discounted(s)
    <3>1. \A l \in Lits : -l \in Lits
      BY VarFacts
    <3> QED BY <3>1 DEF Free
  <2> QED BY <1>2, <2>1, <2>2, WeightMono
<1>5. Weigh(c, LitsOf(c) \ Discounted(s)) = Weight(Form(c), LitsOf(c) \ Discounted(s))
  BY WeighIsWeight
<1>6. Weight(Form(c), Free(T)) \in Nat /\ Weight(Form(c), LitsOf(c) \ Discounted(s)) \in Nat /\ c.k \in Int
  BY <1>2, FormFacts
<1>7. Remaining(db, s, id) = Weigh(c, LitsOf(c) \ Discounted(s)) - c.k
  BY <1>1 DEF Remaining
<1> QED BY <1>1, <1>2, <1>3, <1>4, <1>5, <1>6, <1>7

(* A term too heavy for what remains is forced. *)
LEMMA TermForced ==
  ASSUME NEW db \in Databases, NEW id \in 1 .. Len(db), NEW s, NEW T,
         \A l \in Discounted(s) : -l \in Lits => -l \in T, Discounted(s) \subseteq Lits,
         NEW i \in 1 .. Len(db[id].lhs), -db[id].lhs[i].lit \notin T,
         db[id].lhs[i].coef > Remaining(db, s, id)
  PROVE  Forces(Form(db[id]), db[id].lhs[i].lit, T)
<1>1. PICK c \in Constraint : c = db[id]
  BY DEF Databases
<1>2. /\ Form(c) \in Forms
      /\ Magnitude(c.lhs[i].lit) \in Used(Form(c))
      /\ LitOf(Form(c), Magnitude(c.lhs[i].lit)) = c.lhs[i].lit
      /\ Weights(Form(c))[Magnitude(c.lhs[i].lit)] = c.lhs[i].coef
  BY <1>1, FormOfConstraint
<1>3. c.lhs[i].lit \in Lits /\ c.lhs[i].coef \in Nat
  BY <1>1, ConstraintFacts
<1>4. SlackUnder(Form(c), T) <= Remaining(db, s, id)
  BY <1>1, SlackRemaining
<1>5. SlackUnder(Form(c), T) \in Int /\ Remaining(db, s, id) \in Int
  BY <1>2, SlackType, RemainingType
<1>6. SlackUnder(Form(c), T) < c.lhs[i].coef
  BY <1>1, <1>3, <1>4, <1>5
<1>7. Forces(Form(c), c.lhs[i].lit, T)
  BY <1>1, <1>2, <1>3, <1>6 DEF Forces
<1> QED BY <1>1, <1>7

-----------------------------------------------------------------------------
(***************************************************************************)
(* Reasons.                                                                *)
(***************************************************************************)
Distinct(q) == \A i, j \in 1 .. Len(q) : i # j => q[i] # q[j] /\ q[i] # -q[j]

ClausesMade(s) ==
  \A i \in 1 .. Len(s.clauses) : Len(s.clauses[i].lits) >= 3 /\ Distinct(s.clauses[i].lits)

BinsMade(s) == \A l \in Lits : \A o \in ToSet(s.bins[l]) : o # l /\ o # -l

Firsts(s, id) == {s.clauses[id].lits[1], s.clauses[id].lits[2]}

(* The list q of the literal l has clauses that watch l, each once. *)
Watched(s, l, q) ==
  \A i \in 1 .. Len(q) :
    /\ q[i].id \in 1 .. Len(s.clauses)
    /\ l \in Firsts(s, q[i].id)
    /\ \A j \in 1 .. Len(q) : i # j => q[i].id # q[j].id

WellMade(s) == ClausesMade(s) /\ BinsMade(s) /\ \A l \in Lits : Watched(s, l, s.watches[l])

(* What r has of s: its clauses as sets, and its binary clauses. *)
Retains(r, s) ==
  /\ Len(s.clauses) <= Len(r.clauses)
  /\ \A i \in 1 .. Len(s.clauses) : ToSet(r.clauses[i].lits) = ToSet(s.clauses[i].lits)
  /\ \A l \in Lits : ToSet(s.bins[l]) \subseteq ToSet(r.bins[l])

SameClauses(r, s) == Retains(r, s) /\ Retains(s, r)

Known(db, s, why, lit) ==
  \/ why[1] = "PB" /\ why[2] \in 1 .. Len(db)
  \/ why[1] = "clause" /\ why[2] \in 1 .. Len(s.clauses)
  \/ why[1] = "bin" /\ why[2] \in Lits /\ lit \in ToSet(s.bins[why[2]])

(* The constraint that made lit true did so rightly. *)
Due(db, s, why, lit, T) == Known(db, s, why, lit) /\ Forces(WConstraint(db, s, why, lit), lit, T)

Before(tr, i) == {tr[j].lit : j \in 1 .. i - 1}

(* Above level 0 a literal with a reason is due, on the level it is on. *)
Entitled(db, s, i) ==
  LET e == s.trail[i] IN
  e.dl > 0 /\ e.reason # NoReason =>
    e.dl = LevelAt(s.trail, i - 1) /\ Due(db, s, e.reason, e.lit, Before(s.trail, i))

OtherLit(s) == IF s.culprit[1] = "bin" THEN s.culprit[3] ELSE 0

(* The culprit is falsified. *)
Falsifies(db, s) ==
  Known(db, s, s.culprit, OtherLit(s)) /\ Fails(Falsified(db, s), TrueLits(s))

(* m satisfies every constraint, clause and binary clause. *)
Obeys(db, s, m) ==
  /\ Complete(m)
  /\ \A id \in 1 .. Len(db) : Admits(Form(db[id]), m)
  /\ \A i \in 1 .. Len(s.clauses) : ToSet(s.clauses[i].lits) \cap m # {}
  /\ \A l \in Lits : \A o \in ToSet(s.bins[l]) : {l, o} \cap m # {}

Upholds(db, s, m) == Obeys(db, s, m) /\ TrueBelow(s, 1) \subseteq m

(* The database d has the constraints of db, and perhaps more. *)
Prolongs(d, db) == Len(db) <= Len(d) /\ \A id \in 1 .. Len(db) : d[id] = db[id]

LEMMA SetOfSeq ==
  ASSUME NEW S, NEW q \in Seq(S)
  PROVE  /\ ToSet(q) = {q[i] : i \in 1 .. Len(q)} /\ ToSet(q) \subseteq S /\ Len(q) \in Nat
         /\ \A i \in 1 .. Len(q) : q[i] \in S
<1>1. DOMAIN q = 1 .. Len(q) /\ Len(q) \in Nat /\ \A i \in 1 .. Len(q) : q[i] \in S
  OBVIOUS
<1> QED BY <1>1 DEF ToSet

LEMMA ClauseFacts ==
  ASSUME NEW s \in State
  PROVE  /\ s.clauses \in Seq(Clause) /\ Len(s.clauses) \in Nat
         /\ \A i \in 1 .. Len(s.clauses) : /\ s.clauses[i] \in Clause /\ s.clauses[i].lits \in Seq(Lits)
                                           /\ s.clauses[i].idx \in Nat
                                           /\ Len(s.clauses[i].lits) \in Nat
                                           /\ ToSet(s.clauses[i].lits) \subseteq Lits
         /\ s.bins \in [Lits -> Seq(Lits)] /\ s.watches \in [Lits -> Seq(Watch)]
         /\ \A l \in Lits : /\ s.bins[l] \in Seq(Lits) /\ ToSet(s.bins[l]) \subseteq Lits
                            /\ s.watches[l] \in Seq(Watch) /\ Len(s.watches[l]) \in Nat
         /\ s.heap \in SUBSET Vars
<1>1. s.clauses \in Seq(Clause) /\ s.bins \in [Lits -> Seq(Lits)] /\ s.watches \in [Lits -> Seq(Watch)]
      /\ s.heap \in SUBSET Vars
  BY DEF State
<1>2. Len(s.clauses) \in Nat /\ \A i \in 1 .. Len(s.clauses) : s.clauses[i] \in Clause
  BY <1>1
<1>3. \A i \in 1 .. Len(s.clauses) : s.clauses[i].lits \in Seq(Lits) /\ s.clauses[i].idx \in Nat
  BY <1>2 DEF Clause
<1>4. \A i \in 1 .. Len(s.clauses) : Len(s.clauses[i].lits) \in Nat /\ ToSet(s.clauses[i].lits) \subseteq Lits
  BY <1>3, SetOfSeq
<1>5. \A l \in Lits : s.bins[l] \in Seq(Lits) /\ s.watches[l] \in Seq(Watch)
  BY <1>1
<1>6. \A l \in Lits : ToSet(s.bins[l]) \subseteq Lits /\ Len(s.watches[l]) \in Nat
  BY <1>5, SetOfSeq
<1> QED BY <1>1, <1>2, <1>3, <1>4, <1>5, <1>6

LEMMA DistinctSet ==
  ASSUME NEW q \in Seq(Lits), Distinct(q)
  PROVE  Unopposed(ToSet(q))
<1>1. ToSet(q) = {q[i] : i \in 1 .. Len(q)} /\ ToSet(q) \subseteq Lits
  BY SetOfSeq
<1>2. \A i, j \in 1 .. Len(q) : q[i] # -q[j]
  <2> SUFFICES ASSUME NEW i \in 1 .. Len(q), NEW j \in 1 .. Len(q), q[i] = -q[j] PROVE FALSE
    OBVIOUS
  <2>1. i = j
    BY DEF Distinct
  <2>2. q[i] \in Lits
    BY <1>1
  <2> QED BY <2>1, <2>2, VarFacts
<1> QED BY <1>1, <1>2 DEF Unopposed

LEMMA PairUnopposed ==
  ASSUME NEW l \in Lits, NEW o \in Lits, o # l, o # -l
  PROVE  Unopposed({l, o})
<1>1. -(-l) = l /\ -l # l /\ -o # o /\ -(-o) = o
  BY VarFacts
<1> QED BY <1>1 DEF Unopposed

LEMMA PBIs ==
  ASSUME NEW db, NEW s, NEW why, NEW lit, why[1] = "PB"
  PROVE  WConstraint(db, s, why, lit) = Form(db[why[2]])
  BY DEF WConstraint

LEMMA ClauseIs ==
  ASSUME NEW db, NEW s, NEW why, NEW lit, why[1] = "clause"
  PROVE  WConstraint(db, s, why, lit) = ClauseForm(ToSet(s.clauses[why[2]].lits))
  BY DEF WConstraint

LEMMA BinIs ==
  ASSUME NEW db, NEW s, NEW why, NEW lit, why[1] = "bin"
  PROVE  WConstraint(db, s, why, lit) = ClauseForm({lit, why[2]})
  BY DEF WConstraint

(* What is known is a constraint that the assignments searched for satisfy. *)
LEMMA KnownForm ==
  ASSUME NEW db \in Databases, NEW s \in State, ClausesMade(s), BinsMade(s), NEW why, NEW lit,
         Known(db, s, why, lit)
  PROVE  /\ WConstraint(db, s, why, lit) \in Forms
         /\ WConstraint(db, s, why, lit).k \in Nat \ {0}
         /\ \A m : Obeys(db, s, m) => Admits(WConstraint(db, s, why, lit), m)
<1>1. CASE why[1] = "PB" /\ why[2] \in 1 .. Len(db)
  <2>1. db[why[2]] \in Constraint
    BY <1>1 DEF Databases
  <2>2. Form(db[why[2]]) \in Forms /\ Form(db[why[2]]).k = db[why[2]].k /\ db[why[2]].k \in Nat \ {0}
    BY <2>1, FormOfConstraint, ConstraintFacts
  <2>3. WConstraint(db, s, why, lit) = Form(db[why[2]])
    BY <1>1, PBIs
  <2> QED BY <1>1, <2>2, <2>3 DEF Obeys
<1>2. CASE why[1] = "clause" /\ why[2] \in 1 .. Len(s.clauses)
  <2>1. PICK L : L = ToSet(s.clauses[why[2]].lits)
    OBVIOUS
  <2>2. Unopposed(L)
    <3>1. s.clauses[why[2]].lits \in Seq(Lits) /\ Distinct(s.clauses[why[2]].lits)
      BY <1>2, ClauseFacts DEF ClausesMade
    <3> QED BY <2>1, <3>1, DistinctSet
  <2>3. ClauseForm(L) \in Forms /\ ClauseForm(L).k = 1 /\ \A m : Admits(ClauseForm(L), m) <=> L \cap m # {}
    BY <2>2, ClauseFormRight
  <2>4. WConstraint(db, s, why, lit) = ClauseForm(L)
    BY <1>2, <2>1, ClauseIs
  <2>5. \A m : Obeys(db, s, m) => L \cap m # {}
    BY <1>2, <2>1 DEF Obeys
  <2> QED BY <2>3, <2>4, <2>5
<1>3. CASE why[1] = "bin" /\ why[2] \in Lits /\ lit \in ToSet(s.bins[why[2]])
  <2>1. PICK L : L = {lit, why[2]}
    OBVIOUS
  <2>2. Unopposed(L)
    <3>1. lit \in Lits /\ lit # why[2] /\ lit # -why[2]
      BY <1>3, ClauseFacts DEF BinsMade
    <3>2. L = {why[2], lit}
      BY <2>1
    <3> QED BY <1>3, <3>1, <3>2, PairUnopposed
  <2>3. ClauseForm(L) \in Forms /\ ClauseForm(L).k = 1 /\ \A m : Admits(ClauseForm(L), m) <=> L \cap m # {}
    BY <2>2, ClauseFormRight
  <2>4. WConstraint(db, s, why, lit) = ClauseForm(L)
    BY <1>3, <2>1, BinIs
  <2>5. \A m : Obeys(db, s, m) => L \cap m # {}
    <3>1. {why[2], lit} = L
      BY <2>1
    <3>2. \A m : Obeys(db, s, m) => {why[2], lit} \cap m # {}
      BY <1>3 DEF Obeys
    <3> QED BY <3>1, <3>2
  <2> QED BY <2>3, <2>4, <2>5
<1> QED BY <1>1, <1>2, <1>3 DEF Known

(* A reason stays one when clauses and constraints are added or reordered. *)
LEMMA KnownKept ==
  ASSUME NEW db, NEW d, Prolongs(d, db), Len(db) \in Nat, Len(d) \in Nat,
         NEW s \in State, NEW r \in State, Retains(r, s), NEW why, NEW lit,
         Known(db, s, why, lit)
  PROVE  Known(d, r, why, lit) /\ WConstraint(d, r, why, lit) = WConstraint(db, s, why, lit)
<1>0. Len(s.clauses) \in Nat /\ Len(r.clauses) \in Nat
  BY ClauseFacts
<1>1. CASE why[1] = "PB" /\ why[2] \in 1 .. Len(db)
  <2>1. why[2] \in 1 .. Len(d) /\ d[why[2]] = db[why[2]]
    BY <1>1 DEF Prolongs
  <2>2. WConstraint(d, r, why, lit) = Form(d[why[2]]) /\ WConstraint(db, s, why, lit) = Form(db[why[2]])
    BY <1>1, PBIs
  <2> QED BY <1>1, <2>1, <2>2 DEF Known
<1>2. CASE why[1] = "clause" /\ why[2] \in 1 .. Len(s.clauses)
  <2>1. why[2] \in 1 .. Len(r.clauses) /\ ToSet(r.clauses[why[2]].lits) = ToSet(s.clauses[why[2]].lits)
    BY <1>0, <1>2 DEF Retains
  <2>2. /\ WConstraint(d, r, why, lit) = ClauseForm(ToSet(r.clauses[why[2]].lits))
        /\ WConstraint(db, s, why, lit) = ClauseForm(ToSet(s.clauses[why[2]].lits))
    BY <1>2, ClauseIs
  <2> QED BY <1>2, <2>1, <2>2 DEF Known
<1>3. CASE why[1] = "bin" /\ why[2] \in Lits /\ lit \in ToSet(s.bins[why[2]])
  <2>1. lit \in ToSet(r.bins[why[2]])
    BY <1>3 DEF Retains
  <2>2. WConstraint(d, r, why, lit) = ClauseForm({lit, why[2]}) /\ WConstraint(db, s, why, lit) = ClauseForm({lit, why[2]})
    BY <1>3, BinIs
  <2> QED BY <1>3, <2>1, <2>2 DEF Known
<1> QED BY <1>1, <1>2, <1>3 DEF Known

LEMMA ProlongsSelf ==
  ASSUME NEW db \in Databases
  PROVE  Prolongs(db, db) /\ Len(db) \in Nat
  BY DEF Prolongs, Databases

LEMMA DueKept ==
  ASSUME NEW db, NEW d, Prolongs(d, db), Len(db) \in Nat, Len(d) \in Nat,
         NEW s \in State, NEW r \in State, Retains(r, s), NEW why, NEW lit, NEW T,
         Due(db, s, why, lit, T)
  PROVE  Due(d, r, why, lit, T)
  BY KnownKept DEF Due

LEMMA FalsifiesKept ==
  ASSUME NEW db \in Databases, NEW s \in State, NEW r \in State, Retains(r, s), r.culprit = s.culprit,
         TrueLits(s) \subseteq TrueLits(r), Falsifies(db, s)
  PROVE  Falsifies(db, r)
<1>1. OtherLit(r) = OtherLit(s)
  BY DEF OtherLit
<1>2. Known(db, s, s.culprit, OtherLit(s)) /\ Fails(Falsified(db, s), TrueLits(s))
  BY DEF Falsifies
<1>3. /\ Known(db, r, s.culprit, OtherLit(s))
      /\ WConstraint(db, r, s.culprit, OtherLit(s)) = WConstraint(db, s, s.culprit, OtherLit(s))
  BY <1>2, ProlongsSelf, KnownKept
<1>4. Falsified(db, r) = Falsified(db, s)
  <2>1. Falsified(db, s) = WConstraint(db, s, s.culprit, OtherLit(s))
    BY DEF Falsified, OtherLit
  <2>2. Falsified(db, r) = WConstraint(db, r, r.culprit, OtherLit(r))
    BY DEF Falsified, OtherLit
  <2> QED BY <1>1, <1>3, <2>1, <2>2
<1>5. PICK f : f = Falsified(db, s)
  OBVIOUS
<1>6. f \in Forms /\ SlackUnder(f, TrueLits(s)) < 0
  BY <1>2, <1>5 DEF Fails
<1>7. Heeds(f, TrueLits(s), TrueLits(r))
  BY DEF Heeds
<1>8. SlackUnder(f, TrueLits(r)) <= SlackUnder(f, TrueLits(s))
      /\ SlackUnder(f, TrueLits(r)) \in Int /\ SlackUnder(f, TrueLits(s)) \in Int
  BY <1>6, <1>7, SlackMono, SlackType
<1>9. Fails(f, TrueLits(r))
  BY <1>6, <1>8 DEF Fails
<1> QED BY <1>1, <1>3, <1>4, <1>5, <1>9 DEF Falsifies

LEMMA RetainsTrans ==
  ASSUME NEW s \in State, NEW r \in State, NEW q \in State, Retains(r, s), Retains(q, r)
  PROVE  Retains(q, s)
<1>1. Len(s.clauses) \in Nat /\ Len(r.clauses) \in Nat /\ Len(q.clauses) \in Nat
  BY ClauseFacts
<1>2. Len(s.clauses) <= Len(r.clauses) /\ Len(r.clauses) <= Len(q.clauses)
  BY DEF Retains
<1>3. \A i \in 1 .. Len(s.clauses) : ToSet(q.clauses[i].lits) = ToSet(s.clauses[i].lits)
  <2> SUFFICES ASSUME NEW i \in 1 .. Len(s.clauses) PROVE ToSet(q.clauses[i].lits) = ToSet(s.clauses[i].lits)
    OBVIOUS
  <2>1. i \in 1 .. Len(r.clauses)
    BY <1>1, <1>2
  <2>2. ToSet(r.clauses[i].lits) = ToSet(s.clauses[i].lits) /\ ToSet(q.clauses[i].lits) = ToSet(r.clauses[i].lits)
    BY <2>1 DEF Retains
  <2> QED BY <2>2
<1>4. \A l \in Lits : ToSet(s.bins[l]) \subseteq ToSet(q.bins[l])
  BY DEF Retains
<1>5. Len(s.clauses) <= Len(q.clauses)
  BY <1>1, <1>2
<1> QED BY <1>3, <1>4, <1>5 DEF Retains

LEMMA SameClausesTrans ==
  ASSUME NEW s \in State, NEW r \in State, NEW q \in State, SameClauses(r, s), SameClauses(q, r)
  PROVE  SameClauses(q, s)
  BY RetainsTrans DEF SameClauses

LEMMA SameClausesIf ==
  ASSUME NEW s \in State, NEW r, r.clauses = s.clauses, r.bins = s.bins
  PROVE  SameClauses(r, s)
<1>1. Len(s.clauses) \in Nat
  BY ClauseFacts
<1> QED BY <1>1 DEF SameClauses, Retains

(* What m obeys depends on the clauses as sets. *)
LEMMA ObeysSame ==
  ASSUME NEW db, NEW s \in State, NEW r \in State, SameClauses(r, s), NEW m, Obeys(db, s, m)
  PROVE  Obeys(db, r, m)
<1>0. Len(s.clauses) \in Nat /\ Len(r.clauses) \in Nat
  BY ClauseFacts
<1>1. Len(r.clauses) = Len(s.clauses)
  BY <1>0 DEF SameClauses, Retains
<1>2. \A i \in 1 .. Len(r.clauses) : ToSet(r.clauses[i].lits) \cap m # {}
  BY <1>1 DEF SameClauses, Retains, Obeys
<1>3. \A l \in Lits : \A o \in ToSet(r.bins[l]) : {l, o} \cap m # {}
  BY DEF SameClauses, Retains, Obeys
<1> QED BY <1>2, <1>3 DEF Obeys

LEMMA BinsSame ==
  ASSUME NEW s, NEW r, SameClauses(r, s), BinsMade(s)
  PROVE  BinsMade(r)
  BY DEF SameClauses, Retains, BinsMade

-----------------------------------------------------------------------------
(***************************************************************************)
(* Propagation.                                                            *)
(***************************************************************************)
(* From s to r what has become true is due, and a conflict is one. *)
Reaches(db, r, s) ==
  /\ r \in States(db) /\ Orderly(r) /\ Extends(r, s)
  /\ SameClauses(r, s) /\ ClausesMade(r) /\ BinsMade(r) /\ r.heap = s.heap
  /\ \A i \in Len(s.trail) + 1 .. Len(r.trail) :
       Due(db, r, r.trail[i].reason, r.trail[i].lit, Before(r.trail, i))
  /\ r.conflict => Falsifies(db, r)

(* q is r but for what does not matter to reasons. *)
Resembles(db, q, r) ==
  /\ q \in States(db) /\ q.next = r.next /\ q.heap = r.heap
  /\ SameClauses(q, r) /\ ClausesMade(q)

LEMMA BeforeFacts ==
  ASSUME NEW s \in State
  PROVE  /\ Before(s.trail, Len(s.trail) + 1) = TrueLits(s)
         /\ \A i \in 1 .. Len(s.trail) + 1 : Before(s.trail, i) \subseteq TrueLits(s)
<1>1. DOMAIN s.trail = 1 .. Len(s.trail) /\ Len(s.trail) \in Nat
  BY StateFacts
<1>2. Len(s.trail) + 1 - 1 = Len(s.trail)
  BY <1>1
<1>3. Before(s.trail, Len(s.trail) + 1) = TrueLits(s)
  BY <1>1, <1>2 DEF Before, TrueLits
<1>4. \A i \in 1 .. Len(s.trail) + 1 : 1 .. i - 1 \subseteq 1 .. Len(s.trail)
  BY <1>1
<1>5. \A i \in 1 .. Len(s.trail) + 1 : Before(s.trail, i) \subseteq TrueLits(s)
  BY <1>1, <1>4 DEF Before, TrueLits
<1> QED BY <1>3, <1>5

LEMMA BeforeSame ==
  ASSUME NEW tr, NEW ts, NEW n \in Nat, \A j \in 1 .. n : tr[j] = ts[j], NEW i \in 1 .. n + 1
  PROVE  Before(tr, i) = Before(ts, i)
<1>1. \A j \in 1 .. i - 1 : tr[j] = ts[j]
  OBVIOUS
<1> QED BY <1>1 DEF Before

LEMMA ReachesSelf ==
  ASSUME NEW db \in Databases, NEW s \in States(db), Orderly(s), ClausesMade(s), BinsMade(s), ~s.conflict
  PROVE  Reaches(db, s, s)
<1>1. s \in State /\ Len(s.trail) \in Nat
  BY StateFacts DEF States
<1>2. Extends(s, s) /\ SameClauses(s, s)
  BY <1>1, ExtendsSelf, SameClausesIf
<1> QED BY <1>1, <1>2 DEF Reaches

LEMMA ReachesSame ==
  ASSUME NEW db \in Databases, NEW s \in States(db), NEW r, Reaches(db, r, s),
         NEW q, Resembles(db, q, r), q.trail = r.trail, q.conflict => Falsifies(db, q)
  PROVE  Reaches(db, q, s)
<1>1. s \in State /\ r \in State /\ q \in State
  BY DEF States, Reaches, Resembles
<1>2. Orderly(q) /\ Extends(q, s)
  BY DEF Reaches, Resembles, Orderly, Extends
<1>3. SameClauses(q, s) /\ BinsMade(q)
  BY <1>1, SameClausesTrans, BinsSame DEF Reaches, Resembles
<1>4. \A i \in Len(s.trail) + 1 .. Len(q.trail) :
        Due(db, q, q.trail[i].reason, q.trail[i].lit, Before(q.trail, i))
  <2> SUFFICES ASSUME NEW i \in Len(s.trail) + 1 .. Len(q.trail)
               PROVE  Due(db, q, q.trail[i].reason, q.trail[i].lit, Before(q.trail, i))
    OBVIOUS
  <2>1. Due(db, r, r.trail[i].reason, r.trail[i].lit, Before(r.trail, i))
    BY DEF Reaches
  <2>2. Retains(q, r)
    BY DEF Resembles, SameClauses
  <2> QED BY <1>1, <2>1, <2>2, ProlongsSelf, DueKept
<1> QED BY <1>2, <1>3, <1>4 DEF Reaches, Resembles

LEMMA ReachesTrue ==
  ASSUME NEW db \in Databases, NEW s \in States(db), NEW r, Reaches(db, r, s),
         NEW q, Resembles(db, q, r), NEW lit \in Lits, IsUndefLit(r, lit), NEW why \in Reason,
         q.trail = Append(r.trail, Assigned(lit, Level(r), why)), ~q.conflict,
         Due(db, r, why, lit, TrueLits(r))
  PROVE  Reaches(db, q, s)
<1>1. s \in State /\ r \in State /\ q \in State
  BY DEF States, Reaches, Resembles
<1>2. Len(s.trail) \in Nat /\ Len(r.trail) \in Nat /\ Level(r) \in Nat
  BY <1>1, StateFacts
<1>3. /\ Orderly(q) /\ Len(q.trail) = Len(r.trail) + 1
      /\ \A i \in 1 .. Len(r.trail) : q.trail[i] = r.trail[i]
  <2>1. Orderly(r) /\ q.next = r.next
    BY DEF Reaches, Resembles
  <2>2. Level(r) \in {Level(r), Level(r) + 1}
    OBVIOUS
  <2> QED BY <1>1, <2>1, <2>2, OrderlyAppend
<1>4. q.trail[Len(r.trail) + 1] = Assigned(lit, Level(r), why)
  BY <1>1, <1>2, AppendEntry
<1>5. /\ q.trail[Len(r.trail) + 1].dl = Level(r) /\ q.trail[Len(r.trail) + 1].lit = lit
      /\ q.trail[Len(r.trail) + 1].reason = why
  BY <1>4 DEF Assigned
<1>6. Extends(q, r)
  BY <1>2, <1>3, <1>5 DEF Extends
<1>7. Extends(q, s)
  BY <1>1, <1>6, ExtendsTrans DEF Reaches
<1>8. SameClauses(q, s) /\ BinsMade(q)
  BY <1>1, SameClausesTrans, BinsSame DEF Reaches, Resembles
<1>9. \A i \in Len(s.trail) + 1 .. Len(q.trail) :
        Due(db, q, q.trail[i].reason, q.trail[i].lit, Before(q.trail, i))
  <2> SUFFICES ASSUME NEW i \in Len(s.trail) + 1 .. Len(q.trail)
               PROVE  Due(db, q, q.trail[i].reason, q.trail[i].lit, Before(q.trail, i))
    OBVIOUS
  <2>0. Retains(q, r)
    BY DEF Resembles, SameClauses
  <2>1. i \in 1 .. Len(r.trail) + 1
    BY <1>2, <1>3
  <2>2. Before(q.trail, i) = Before(r.trail, i)
    BY <1>2, <1>3, <2>1, BeforeSame
  <2>3. CASE i \in 1 .. Len(r.trail)
    <3>1. Due(db, r, r.trail[i].reason, r.trail[i].lit, Before(r.trail, i))
      BY <1>2, <2>3 DEF Reaches
    <3> QED BY <1>1, <1>3, <2>0, <2>2, <2>3, <3>1, ProlongsSelf, DueKept
  <2>4. CASE i = Len(r.trail) + 1
    <3>1. Before(q.trail, i) = TrueLits(r)
      BY <1>1, <2>2, <2>4, BeforeFacts
    <3>2. Due(db, q, why, lit, TrueLits(r))
      BY <1>1, <2>0, ProlongsSelf, DueKept
    <3> QED BY <1>5, <2>4, <3>1, <3>2
  <2> QED BY <1>2, <2>1, <2>3, <2>4
<1> QED BY <1>3, <1>7, <1>8, <1>9 DEF Reaches, Resembles

LEMMA ReachesTrans ==
  ASSUME NEW db \in Databases, NEW s \in States(db), NEW r, Reaches(db, r, s),
         NEW q, Reaches(db, q, r)
  PROVE  Reaches(db, q, s)
<1>1. s \in State /\ r \in State /\ q \in State
  BY DEF States, Reaches
<1>2. Len(s.trail) \in Nat /\ Len(r.trail) \in Nat /\ Len(q.trail) \in Nat
  BY <1>1, StateFacts
<1>3. Extends(q, s) /\ SameClauses(q, s)
  BY <1>1, ExtendsTrans, SameClausesTrans DEF Reaches
<1>4. Len(s.trail) <= Len(r.trail) /\ Len(r.trail) <= Len(q.trail)
      /\ \A i \in 1 .. Len(r.trail) : q.trail[i] = r.trail[i]
  BY DEF Reaches, Extends
<1>5. \A i \in Len(s.trail) + 1 .. Len(q.trail) :
        Due(db, q, q.trail[i].reason, q.trail[i].lit, Before(q.trail, i))
  <2> SUFFICES ASSUME NEW i \in Len(s.trail) + 1 .. Len(q.trail)
               PROVE  Due(db, q, q.trail[i].reason, q.trail[i].lit, Before(q.trail, i))
    OBVIOUS
  <2>1. CASE i \in Len(r.trail) + 1 .. Len(q.trail)
    BY <2>1 DEF Reaches
  <2>2. CASE i \in Len(s.trail) + 1 .. Len(r.trail)
    <3>1. Due(db, r, r.trail[i].reason, r.trail[i].lit, Before(r.trail, i))
      BY <2>2 DEF Reaches
    <3>2. Retains(q, r)
      BY DEF Reaches, SameClauses
    <3>3. i \in 1 .. Len(r.trail) /\ i \in 1 .. Len(r.trail) + 1
      BY <1>2, <2>2
    <3>4. Before(q.trail, i) = Before(r.trail, i) /\ q.trail[i] = r.trail[i]
      BY <1>2, <1>4, <3>3, BeforeSame
    <3> QED BY <1>1, <3>1, <3>2, <3>4, ProlongsSelf, DueKept
  <2> QED BY <1>2, <1>4, <2>1, <2>2
<1> QED BY <1>3, <1>5 DEF Reaches

-----------------------------------------------------------------------------
(* Binary clauses. *)
VisitBin(r, lit, other) ==
  IF r.conflict THEN r
  ELSE IF IsFalseLit(r, other) THEN Clash(r, <<"bin", lit, other>>)
  ELSE IF IsUndefLit(r, other) THEN SetTrue(r, other, <<"bin", lit>>)
  ELSE r

(* Of a state r on the way from s nothing has changed but the trail and the
   conflict. *)
Visiting(db, r, s) ==
  Reaches(db, r, s) /\ r.next = s.next /\ r.sums = s.sums /\ r.watches = s.watches /\ r.clauses = s.clauses

LEMMA LitCases ==
  ASSUME NEW s, NEW lit \in Lits
  PROVE  /\ IsUndefLit(s, lit) <=> ~IsTrueLit(s, lit) /\ ~IsFalseLit(s, lit)
         /\ IsUndefLit(s, lit) => lit \notin TrueLits(s) /\ -lit \notin TrueLits(s)
  BY DEF IsUndefLit, IsTrueLit, IsFalseLit

LEMMA SetTrueFacts ==
  ASSUME NEW db, NEW r \in States(db), NEW lit \in Lits, NEW why \in Reason
  PROVE  LET q == SetTrue(r, lit, why) IN
           /\ q \in States(db) /\ q.trail = Append(r.trail, Assigned(lit, Level(r), why))
           /\ q.next = r.next /\ q.heap = r.heap /\ q.sums = r.sums /\ q.watches = r.watches
           /\ q.clauses = r.clauses /\ q.bins = r.bins /\ q.conflict = r.conflict /\ q.from = r.from
           /\ q.culprit = r.culprit
<1>1. r \in State /\ Len(r.sums) = Len(db) /\ Len(r.from) = Len(db)
  BY DEF States
<1>2. Append(r.trail, Assigned(lit, Level(r), why)) \in Seq(TrailEntry)
  BY <1>1, StateFacts, AppendEntry
<1>3. SetTrue(r, lit, why) \in State
  BY <1>1, <1>2 DEF SetTrue, State
<1> QED BY <1>1, <1>3 DEF SetTrue, States, State

LEMMA SetTrueIs ==
  ASSUME NEW db, NEW r \in States(db), NEW lit \in Lits, NEW why \in Reason,
         NEW q, q = SetTrue(r, lit, why)
  PROVE  /\ q \in States(db) /\ q.trail = Append(r.trail, Assigned(lit, Level(r), why))
         /\ q.next = r.next /\ q.heap = r.heap /\ q.sums = r.sums /\ q.watches = r.watches
         /\ q.clauses = r.clauses /\ q.bins = r.bins /\ q.conflict = r.conflict /\ q.from = r.from
         /\ q.culprit = r.culprit
BY SetTrueFacts

LEMMA ClashFacts ==
  ASSUME NEW db, NEW r \in States(db), NEW why \in Culprit
  PROVE  LET q == Clash(r, why) IN
           /\ q \in States(db) /\ q.trail = r.trail /\ q.culprit = why
           /\ q.next = r.next /\ q.heap = r.heap /\ q.sums = r.sums /\ q.watches = r.watches
           /\ q.clauses = r.clauses /\ q.bins = r.bins /\ q.conflict /\ q.from = r.from
  BY DEF Clash, States, State

LEMMA ResemblesIf ==
  ASSUME NEW db, NEW r \in States(db), ClausesMade(r), NEW q \in States(db),
         q.next = r.next, q.heap = r.heap, q.clauses = r.clauses, q.bins = r.bins
  PROVE  Resembles(db, q, r)
<1>1. ClausesMade(q)
  BY DEF ClausesMade
<1>2. SameClauses(q, r)
  BY SameClausesIf DEF States
<1> QED BY <1>1, <1>2 DEF Resembles

LEMMA VisitBinRight ==
  ASSUME NEW db \in Databases, NEW s \in States(db), NEW lit \in Lits, -lit \in TrueLits(s),
         NEW r, Visiting(db, r, s), NEW other \in ToSet(s.bins[lit])
  PROVE  Visiting(db, VisitBin(r, lit, other), s)
<1>0. /\ s \in State /\ r \in State /\ r \in States(db) /\ Reaches(db, r, s) /\ ClausesMade(r)
      /\ Orderly(r) /\ Extends(r, s)
  BY DEF Visiting, Reaches, States
<1>1. other \in ToSet(r.bins[lit]) /\ other \in Lits /\ BinsMade(r)
  BY <1>0, ClauseFacts DEF Reaches, SameClauses, Retains
<1>2. -lit \in TrueLits(r)
  BY <1>0, ExtendsLits
<1>3. other # lit /\ other # -lit /\ Unopposed({other, lit})
  <2>1. other # lit /\ other # -lit
    BY <1>1 DEF BinsMade
  <2>2. {other, lit} = {lit, other}
    OBVIOUS
  <2> QED BY <1>1, <2>1, <2>2, PairUnopposed
<1>4. CASE r.conflict
  <2>1. VisitBin(r, lit, other) = r
    BY <1>4 DEF VisitBin
  <2> QED BY <2>1
<1>5. CASE ~r.conflict /\ IsFalseLit(r, other)
  <2>1. PICK q : q = Clash(r, <<"bin", lit, other>>)
    OBVIOUS
  <2>2. VisitBin(r, lit, other) = q
    BY <1>5, <2>1 DEF VisitBin
  <2>3. <<"bin", lit, other>> \in Culprit
    BY <1>1, ReasonFacts
  <2>4. /\ q \in States(db) /\ q.trail = r.trail /\ q.culprit = <<"bin", lit, other>>
        /\ q.next = r.next /\ q.heap = r.heap /\ q.sums = r.sums /\ q.watches = r.watches
        /\ q.clauses = r.clauses /\ q.bins = r.bins /\ q.conflict
    BY <1>0, <2>1, <2>3, ClashFacts
  <2>5. Resembles(db, q, r)
    BY <1>0, <2>4, ResemblesIf
  <2>6. q.culprit[1] = "bin" /\ q.culprit[2] = lit /\ q.culprit[3] = other /\ OtherLit(q) = other
    BY <2>4 DEF OtherLit
  <2>7. Falsified(db, q) = ClauseForm({other, lit})
    <3>1. Falsified(db, q) = WConstraint(db, q, q.culprit, other)
      BY <2>6 DEF Falsified
    <3> QED BY <2>6, <3>1, BinIs
  <2>8. Fails(ClauseForm({other, lit}), TrueLits(q))
    <3>1. TrueLits(q) = TrueLits(r)
      BY <2>4 DEF TrueLits
    <3>2. \A k \in {other, lit} : -k \in TrueLits(q)
      BY <1>2, <1>5, <3>1 DEF IsFalseLit
    <3> QED BY <1>3, <3>2, ClauseFails
  <2>9. Falsifies(db, q)
    BY <1>1, <2>4, <2>6, <2>7, <2>8 DEF Falsifies, Known
  <2>10. Reaches(db, q, s)
    BY <1>0, <2>4, <2>5, <2>9, ReachesSame
  <2> QED BY <2>2, <2>4, <2>10 DEF Visiting
<1>6. CASE ~r.conflict /\ ~IsFalseLit(r, other) /\ IsUndefLit(r, other)
  <2>1. PICK q : q = SetTrue(r, other, <<"bin", lit>>)
    OBVIOUS
  <2>2. VisitBin(r, lit, other) = q
    BY <1>6, <2>1 DEF VisitBin
  <2>3. <<"bin", lit>> \in Reason
    BY ReasonFacts
  <2>4. /\ q \in States(db) /\ q.trail = Append(r.trail, Assigned(other, Level(r), <<"bin", lit>>))
        /\ q.next = r.next /\ q.heap = r.heap /\ q.sums = r.sums /\ q.watches = r.watches
        /\ q.clauses = r.clauses /\ q.bins = r.bins /\ q.conflict = r.conflict
    BY <1>0, <1>1, <2>1, <2>3, SetTrueFacts
  <2>5. Resembles(db, q, r)
    BY <1>0, <2>4, ResemblesIf
  <2>6. Due(db, r, <<"bin", lit>>, other, TrueLits(r))
    <3>1. PICK why : why = <<"bin", lit>>
      OBVIOUS
    <3>2. why[1] = "bin" /\ why[2] = lit
      BY <3>1
    <3>3. WConstraint(db, r, why, other) = ClauseForm({other, lit})
      BY <3>2, BinIs
    <3>4. Forces(ClauseForm({other, lit}), other, TrueLits(r))
      <4>1. -other \notin TrueLits(r)
        BY <1>6 DEF IsFalseLit
      <4>2. \A k \in {other, lit} \ {other} : -k \in TrueLits(r)
        BY <1>2
      <4> QED BY <1>3, <4>1, <4>2, ClauseForces
    <3>5. Known(db, r, why, other)
      BY <1>1, <3>2 DEF Known
    <3> QED BY <3>1, <3>3, <3>4, <3>5 DEF Due
  <2>7. Reaches(db, q, s)
    BY <1>0, <1>1, <1>6, <2>3, <2>4, <2>5, <2>6, ReachesTrue
  <2> QED BY <2>2, <2>4, <2>7 DEF Visiting
<1>7. CASE ~r.conflict /\ ~IsFalseLit(r, other) /\ ~IsUndefLit(r, other)
  <2>1. VisitBin(r, lit, other) = r
    BY <1>7 DEF VisitBin
  <2> QED BY <2>1
<1> QED BY <1>4, <1>5, <1>6, <1>7

LEMMA VisitBinType ==
  ASSUME NEW db, NEW r \in States(db), NEW lit \in Lits, NEW other \in Lits
  PROVE  VisitBin(r, lit, other) \in States(db)
<1>1. <<"bin", lit, other>> \in Culprit /\ <<"bin", lit>> \in Reason
  BY ReasonFacts
<1>2. Clash(r, <<"bin", lit, other>>) \in States(db) /\ SetTrue(r, other, <<"bin", lit>>) \in States(db)
  BY <1>1, ClashFacts, SetTrueFacts
<1> QED BY <1>2 DEF VisitBin

(* The list is visited from its first entry to its last. *)
LEMMA VisitBinsSteps ==
  ASSUME NEW db, NEW s \in States(db), NEW lit \in Lits
  PROVE  \E h \in [0 .. Len(s.bins[lit]) -> States(db)] :
           /\ h[0] = s
           /\ \A i \in 1 .. Len(s.bins[lit]) : h[i] = VisitBin(h[i - 1], lit, s.bins[lit][i])
           /\ VisitBins(s, lit) = h[Len(s.bins[lit])]
<1> DEFINE n == Len(s.bins[lit])
           S == States(db)
           b == s
           step(r, i) == VisitBin(r, lit, i)
           idx == s.bins[lit]
           g == [p \in S \X (1 .. n) |-> step(p[1], idx[p[2]])]
           E(q) == q = [t \in SUBSET DOMAIN idx |->
                          IF t = {} THEN b ELSE step(q[t \ {Max(t)}], idx[Max(t)])]
           F == CHOOSE q : E(q)
<1>1. n \in Nat /\ b \in S /\ DOMAIN idx = 1 .. n /\ \A i \in 1 .. n : idx[i] = s.bins[lit][i]
  <2>1. s.bins[lit] \in Seq(Lits)
    BY ClauseFacts DEF States
  <2> QED BY <2>1
<1>2. g \in [S \X (1 .. n) -> S]
  <2>1. \A i \in 1 .. n : s.bins[lit][i] \in Lits
    <3>1. s.bins[lit] \in Seq(Lits)
      BY ClauseFacts DEF States
    <3> QED BY <3>1
  <2>2. \A r \in S, i \in 1 .. n : step(r, idx[i]) \in S
    BY <2>1, VisitBinType
  <2> HIDE DEF step
  <2> QED BY <1>1, <2>2
<1>3. \A t \in SUBSET (1 .. n), r \in S : t # {} => g[<<r, Max(t)>>] = step(r, idx[Max(t)])
  BY <1>1, MaxInSet
<1>4. VisitBins(s, lit) = F[DOMAIN idx]
  BY Zenon DEF VisitBins, VisitBin, FoldLeft, MapThenFoldSet
<1> HIDE DEF step, g, S, n, idx, b
<1>5. \E q : E(q)
  <2>1. PICK q \in [SUBSET (1 .. n) -> S] : Solves(q, n, b, g)
    BY <1>1, <1>2, FoldExists
  <2>2. E(q)
    BY <2>1, <1>1, <1>3 DEF Solves
  <2> QED BY <2>2
<1>6. E(F)
  BY <1>5, Zenon
<1> HIDE DEF F
<1>7. Follows(F, n, S, b, g)
  BY <1>1, <1>2, <1>6, <1>3 DEF Follows
<1>8. PICK h : Steps(h, F, n, S, b, g)
  BY <1>7, FoldSteps
<1>9. /\ h \in [0 .. n -> S] /\ h[0] = b /\ F[1 .. n] = h[n]
      /\ \A i \in 1 .. n : h[i] = g[<<h[i - 1], i>>] /\ h[i - 1] \in S
  BY <1>8, <1>1 DEF Steps
<1>10. \A i \in 1 .. n : h[i] = step(h[i - 1], s.bins[lit][i])
  BY <1>1, <1>9 DEF g
<1> QED BY <1>1, <1>4, <1>9, <1>10 DEF n, S, b, step

LEMMA VisitBinsRight ==
  ASSUME NEW db \in Databases, NEW s \in States(db), Orderly(s), ClausesMade(s), BinsMade(s), ~s.conflict,
         NEW lit \in Lits, -lit \in TrueLits(s)
  PROVE  Visiting(db, VisitBins(s, lit), s)
<1>1. PICK h \in [0 .. Len(s.bins[lit]) -> States(db)] :
         /\ h[0] = s
         /\ \A i \in 1 .. Len(s.bins[lit]) : h[i] = VisitBin(h[i - 1], lit, s.bins[lit][i])
         /\ VisitBins(s, lit) = h[Len(s.bins[lit])]
  BY VisitBinsSteps
<1>2. s.bins[lit] \in Seq(Lits) /\ Len(s.bins[lit]) \in Nat
  BY ClauseFacts DEF States
<1> DEFINE T == {i \in 0 .. Len(s.bins[lit]) : Visiting(db, h[i], s)}
<1>3. 0 \in T
  <2>1. Visiting(db, s, s)
    BY ReachesSelf DEF Visiting
  <2>2. 0 \in 0 .. Len(s.bins[lit])
    BY <1>2
  <2> QED BY <1>1, <2>1, <2>2
<1>4. ASSUME NEW k \in 1 .. Len(s.bins[lit]), k - 1 \in T PROVE k \in T
  <2>1. Visiting(db, h[k - 1], s)
    BY <1>4
  <2>2. s.bins[lit][k] \in ToSet(s.bins[lit])
    BY <1>2, SetOfSeq
  <2>3. Visiting(db, VisitBin(h[k - 1], lit, s.bins[lit][k]), s)
    BY <2>1, <2>2, VisitBinRight
  <2>4. h[k] = VisitBin(h[k - 1], lit, s.bins[lit][k]) /\ k \in 0 .. Len(s.bins[lit])
    BY <1>1, <1>2
  <2> QED BY <2>3, <2>4
<1>5. Len(s.bins[lit]) \in T
  BY <1>2, <1>3, <1>4, InductionUpTo DEF Inductive
<1> QED BY <1>1, <1>5

-----------------------------------------------------------------------------
(* Watched clauses. *)
LEMMA ReplacementIs ==
  ASSUME NEW cl \in Clause, NEW s, NEW i, i = Replacement(cl, s)
  PROVE  \/ i = 0 /\ \A j \in 3 .. Len(cl.lits) : IsFalseLit(s, cl.lits[j])
         \/ i \in 3 .. Len(cl.lits) /\ ~IsFalseLit(s, cl.lits[i])
<1>0. cl.lits \in Seq(Lits) /\ Len(cl.lits) \in Nat
  BY DEF Clause
<1> DEFINE free == {j \in 3 .. Len(cl.lits) : ~IsFalseLit(s, cl.lits[j])}
           late == {j \in free : j >= cl.idx}
           first(S) == CHOOSE j \in S : \A k \in S : j <= k
<1>1. ASSUME NEW S \in SUBSET (3 .. Len(cl.lits)), S # {} PROVE first(S) \in S
  <2>1. Within(S, 3, Len(cl.lits))
    BY <1>0 DEF Within
  <2>2. Min(S) \in S /\ \A y \in S : Min(S) <= y
    BY <1>1, <2>1, MinOf
  <2>3. \E j \in S : \A k \in S : j <= k
    BY <2>2
  <2> QED BY <2>3
<1>2. i = IF late # {} THEN first(late) ELSE IF free # {} THEN first(free) ELSE 0
  BY DEF Replacement
<1>3. late \in SUBSET (3 .. Len(cl.lits)) /\ free \in SUBSET (3 .. Len(cl.lits)) /\ late \subseteq free
  OBVIOUS
<1>4. late # {} => first(late) \in free
  BY <1>1, <1>3
<1>5. free # {} => first(free) \in free
  BY <1>1, <1>3
<1> HIDE DEF first
<1>6. i \in free \/ (i = 0 /\ free = {})
  BY <1>2, <1>3, <1>4, <1>5
<1> QED BY <1>6

(* The literals of a clause once it is watched by the i-th in place of lit. *)
Shuffled(q, i, lit, other) == [q EXCEPT ![1] = other, ![2] = q[i], ![i] = lit]

(* The first two of q are lit and other. *)
Places(q, lit, other) == \E a, b \in 1 .. 2 : a # b /\ q[a] = other /\ q[b] = lit

(* The literals of a clause change places. *)
LEMMA RewatchedLits ==
  ASSUME NEW q \in Seq(Lits), Distinct(q), Len(q) >= 3, NEW i \in 3 .. Len(q),
         NEW lit, NEW other, Places(q, lit, other),
         NEW p, p = Shuffled(q, i, lit, other)
  PROVE  /\ p \in Seq(Lits) /\ Len(p) = Len(q) /\ Distinct(p) /\ ToSet(p) = ToSet(q)
         /\ p[1] = other /\ p[2] = q[i]
         /\ lit \in Lits /\ other \in Lits /\ q[i] \in Lits
         /\ q[i] # lit /\ q[i] # other /\ lit # other /\ lit # -other
<1>0. PICK a \in 1 .. 2, b \in 1 .. 2 : a # b /\ q[a] = other /\ q[b] = lit
  BY DEF Places
<1>1. Len(q) \in Nat /\ i \in Nat /\ ((a = 1 /\ b = 2) \/ (a = 2 /\ b = 1))
  BY <1>0
<1>a. a \in 1 .. Len(q) /\ b \in 1 .. Len(q) /\ i \in 1 .. Len(q) /\ a # b /\ i # a /\ i # b
  BY <1>1
<1>b. /\ lit \in Lits /\ other \in Lits /\ q[i] \in Lits
      /\ q[i] # lit /\ q[i] # other /\ lit # other /\ lit # -other
  BY <1>0, <1>a DEF Distinct
<1>2. /\ p \in Seq(Lits) /\ Len(p) = Len(q)
      /\ \A j \in 1 .. Len(q) : p[j] = IF j = i THEN lit ELSE IF j = 2 THEN q[i] ELSE IF j = 1 THEN other ELSE q[j]
  <2>1. i \in 1 .. Len(q) /\ 1 \in 1 .. Len(q) /\ 2 \in 1 .. Len(q) /\ q[i] \in Lits
    OBVIOUS
  <2> QED BY <1>b, <2>1 DEF Shuffled
<1> DEFINE pi(j) == IF j = i THEN b ELSE IF j = 2 THEN i ELSE IF j = 1 THEN a ELSE j
<1>3. \A j \in 1 .. Len(q) : p[j] = q[pi(j)] /\ pi(j) \in 1 .. Len(q)
  BY <1>0, <1>1, <1>2
<1>4. \A j, k \in 1 .. Len(q) : j # k => pi(j) # pi(k)
  BY <1>1
<1>5. \A j \in 1 .. Len(q) : \E k \in 1 .. Len(q) : pi(k) = j
  <2> SUFFICES ASSUME NEW j \in 1 .. Len(q) PROVE \E k \in 1 .. Len(q) : pi(k) = j
    OBVIOUS
  <2>1. j = b => pi(i) = j
    OBVIOUS
  <2>2. j = i => pi(2) = j
    BY <1>1
  <2>3. j = a => pi(1) = j
    BY <1>1
  <2>4. j # b /\ j # i /\ j # a => pi(j) = j
    BY <1>1
  <2>5. i \in 1 .. Len(q) /\ 2 \in 1 .. Len(q) /\ 1 \in 1 .. Len(q)
    OBVIOUS
  <2> HIDE DEF pi
  <2> QED BY <2>1, <2>2, <2>3, <2>4, <2>5
<1> HIDE DEF pi
<1>6. Distinct(p)
  <2>1. ASSUME NEW j \in 1 .. Len(q), NEW k \in 1 .. Len(q), j # k PROVE p[j] # p[k] /\ p[j] # -p[k]
    <3>1. PICK x \in 1 .. Len(q), y \in 1 .. Len(q) : x = pi(j) /\ y = pi(k)
      BY <1>3
    <3>2. x # y /\ p[j] = q[x] /\ p[k] = q[y]
      BY <1>3, <1>4, <2>1, <3>1
    <3> QED BY <3>2 DEF Distinct
  <2> QED BY <1>2, <2>1 DEF Distinct
<1>7. ToSet(p) = ToSet(q)
  <2>1. ToSet(p) = {p[j] : j \in 1 .. Len(q)} /\ ToSet(q) = {q[j] : j \in 1 .. Len(q)}
    <3>1. ToSet(q) = {q[j] : j \in 1 .. Len(q)} /\ ToSet(p) = {p[j] : j \in 1 .. Len(p)}
      <4>1. \A x \in Seq(Lits) : ToSet(x) = {x[j] : j \in 1 .. Len(x)}
        BY SetOfSeq
      <4> QED BY <1>2, <4>1, Zenon
    <3>2. Len(p) = Len(q)
      BY <1>2
    <3> QED BY <3>1, <3>2, Zenon
  <2>2. \A j \in 1 .. Len(q) : p[j] \in {q[k] : k \in 1 .. Len(q)}
    BY <1>3
  <2>3. \A j \in 1 .. Len(q) : q[j] \in {p[k] : k \in 1 .. Len(q)}
    <3> SUFFICES ASSUME NEW j \in 1 .. Len(q) PROVE q[j] \in {p[k] : k \in 1 .. Len(q)}
      OBVIOUS
    <3>1. PICK k \in 1 .. Len(q) : pi(k) = j
      BY <1>5
    <3>2. p[k] = q[j]
      BY <1>3, <3>1
    <3> QED BY <3>2
  <2>4. {p[j] : j \in 1 .. Len(q)} = {q[j] : j \in 1 .. Len(q)}
    BY <2>2, <2>3
  <2> QED BY <2>1, <2>4
<1>8. p[1] = other /\ p[2] = q[i]
  <2>1. 1 \in 1 .. Len(q) /\ 2 \in 1 .. Len(q) /\ i # 1 /\ i # 2
    OBVIOUS
  <2> QED BY <1>2, <2>1
<1> QED BY <1>b, <1>2, <1>6, <1>7, <1>8

(* The lemma before, in the form its user needs. *)
Moves(q, i, lit, other) ==
  q \in Seq(Lits) /\ Distinct(q) /\ Len(q) >= 3 /\ i \in 3 .. Len(q) /\ Places(q, lit, other)

Moved(q, i, lit, other) ==
  LET p == Shuffled(q, i, lit, other) IN
  /\ p \in Seq(Lits) /\ Len(p) = Len(q) /\ Distinct(p) /\ ToSet(p) = ToSet(q)
  /\ p[1] = other /\ p[2] = q[i]
  /\ other \in Lits /\ q[i] \in Lits /\ q[i] # lit /\ q[i] # other /\ lit # other

LEMMA RewatchedApplied ==
  ASSUME NEW q, NEW i, NEW lit, NEW other, Moves(q, i, lit, other)
  PROVE  Moved(q, i, lit, other)
<1>1. PICK p : p = Shuffled(q, i, lit, other)
  OBVIOUS
<1>2. /\ p \in Seq(Lits) /\ Len(p) = Len(q) /\ Distinct(p) /\ ToSet(p) = ToSet(q)
      /\ p[1] = other /\ p[2] = q[i]
      /\ other \in Lits /\ q[i] \in Lits /\ q[i] # lit /\ q[i] # other /\ lit # other
  BY <1>1, RewatchedLits DEF Moves
<1> QED BY <1>1, <1>2 DEF Moved

LEMMA WatchedSame ==
  ASSUME NEW s, NEW t, NEW l, NEW q, Watched(s, l, q), Len(t.clauses) = Len(s.clauses),
         \A i \in 1 .. Len(q) : l \in Firsts(t, q[i].id)
  PROVE  Watched(t, l, q)
  BY DEF Watched

LEMMA WatchedAppend ==
  ASSUME NEW s, NEW l, NEW q \in Seq(Watch), Watched(s, l, q), NEW e \in Watch,
         e.id \in 1 .. Len(s.clauses), l \in Firsts(s, e.id),
         \A i \in 1 .. Len(q) : q[i].id # e.id
  PROVE  Watched(s, l, Append(q, e))
<1>1. /\ Len(Append(q, e)) = Len(q) + 1 /\ Len(q) \in Nat
      /\ \A i \in 1 .. Len(q) : Append(q, e)[i] = q[i]
      /\ Append(q, e)[Len(q) + 1] = e
  OBVIOUS
<1>2. PICK p : p = Append(q, e)
  OBVIOUS
<1>3. \A i \in 1 .. Len(p) : \/ i \in 1 .. Len(q) /\ p[i] = q[i]
                             \/ i = Len(q) + 1 /\ p[i] = e
  BY <1>1, <1>2
<1>4. \A i \in 1 .. Len(p) : p[i].id \in 1 .. Len(s.clauses) /\ l \in Firsts(s, p[i].id)
  BY <1>3 DEF Watched
<1>5. \A i, j \in 1 .. Len(p) : i # j => p[i].id # p[j].id
  BY <1>3 DEF Watched
<1> QED BY <1>2, <1>4, <1>5 DEF Watched

(* After n entries of the list q of lit: the new list has those of them that it
   keeps, and the rest is as it was. *)
WatchVisit(db, r, s, lit, q, n) ==
  /\ r \in [s : States(db), kept : Seq(Watch)]
  /\ Reaches(db, r.s, s) /\ r.s.next = s.next /\ r.s.sums = s.sums
  /\ r.kept \in Seq(Watch) /\ Len(r.s.clauses) = Len(s.clauses)
  /\ \A l \in Lits \ {lit} : Watched(r.s, l, r.s.watches[l])
  /\ Watched(r.s, lit, r.kept)
  /\ \A j \in n + 1 .. Len(q) :
       lit \in Firsts(r.s, q[j].id) /\ \A p \in 1 .. Len(r.kept) : r.kept[p].id # q[j].id

(* An entry stays in the list. *)
LEMMA WatchKeeps ==
  ASSUME NEW db \in Databases, NEW s \in States(db), NEW lit \in Lits, NEW q \in Seq(Watch),
         Watched(s, lit, q), NEW n \in 1 .. Len(q), NEW r, WatchVisit(db, r, s, lit, q, n - 1),
         NEW t, Reaches(db, t, s), t.next = s.next, t.sums = s.sums,
         Len(t.clauses) = Len(s.clauses), t.watches = r.s.watches,
         \A id \in 1 .. Len(s.clauses) : Firsts(t, id) = Firsts(r.s, id),
         NEW e \in Watch, e.id = q[n].id
  PROVE  WatchVisit(db, [s |-> t, kept |-> Append(r.kept, e)], s, lit, q, n)
<1>0. n \in Nat /\ Len(q) \in Nat
  OBVIOUS
<1>1. r.kept \in Seq(Watch) /\ Len(r.s.clauses) = Len(s.clauses) /\ Watched(r.s, lit, r.kept)
  BY DEF WatchVisit
<1>2. \A i \in 1 .. Len(q) : q[i].id \in 1 .. Len(s.clauses)
  BY DEF Watched
<1>3. /\ lit \in Firsts(r.s, e.id) /\ e.id \in 1 .. Len(s.clauses)
      /\ \A p \in 1 .. Len(r.kept) : r.kept[p].id # e.id
  <2>1. n \in n - 1 + 1 .. Len(q)
    BY <1>0
  <2> QED BY <1>2, <2>1 DEF WatchVisit
<1>4. \A l \in Lits \ {lit} : Watched(t, l, t.watches[l])
  <2> SUFFICES ASSUME NEW l \in Lits \ {lit} PROVE Watched(t, l, t.watches[l])
    OBVIOUS
  <2>1. Watched(r.s, l, r.s.watches[l])
    BY DEF WatchVisit
  <2>2. \A i \in 1 .. Len(t.watches[l]) : l \in Firsts(t, t.watches[l][i].id)
    BY <1>1, <2>1 DEF Watched
  <2> QED BY <1>1, <2>1, <2>2, WatchedSame
<1>5. Watched(t, lit, r.kept)
  <2>1. \A i \in 1 .. Len(r.kept) : lit \in Firsts(t, r.kept[i].id)
    BY <1>1 DEF Watched
  <2> QED BY <1>1, <2>1, WatchedSame
<1>6. Watched(t, lit, Append(r.kept, e))
  BY <1>1, <1>3, <1>5, WatchedAppend
<1>7. PICK k : k = Append(r.kept, e)
  OBVIOUS
<1>8. /\ k \in Seq(Watch)
      /\ \A p \in 1 .. Len(k) : \/ p \in 1 .. Len(r.kept) /\ k[p] = r.kept[p]
                                \/ k[p] = e
  BY <1>1, <1>7
<1>9. ASSUME NEW j \in n + 1 .. Len(q)
      PROVE  lit \in Firsts(t, q[j].id) /\ \A p \in 1 .. Len(k) : k[p].id # q[j].id
  <2>1. j \in n - 1 + 1 .. Len(q) /\ j \in 1 .. Len(q) /\ j # n
    BY <1>0
  <2>2. lit \in Firsts(r.s, q[j].id) /\ \A p \in 1 .. Len(r.kept) : r.kept[p].id # q[j].id
    BY <2>1 DEF WatchVisit
  <2>3. q[j].id # e.id
    BY <2>1 DEF Watched
  <2> QED BY <1>2, <1>8, <2>1, <2>2, <2>3
<1>10. PICK z : z = [s |-> t, kept |-> k]
  OBVIOUS
<1>11. z.s = t /\ z.kept = k /\ z \in [s : States(db), kept : Seq(Watch)]
  BY <1>8, <1>10 DEF Reaches
<1>12. WatchVisit(db, z, s, lit, q, n)
  BY <1>4, <1>6, <1>7, <1>8, <1>9, <1>11 DEF WatchVisit
<1> QED BY <1>7, <1>10, <1>12

LEMMA AppendIn ==
  ASSUME NEW S, NEW q \in Seq(S), NEW w \in S
  PROVE  Append(q, w) \in Seq(S)
OBVIOUS

(* The fields of the solver after that. *)
RewatchedTo(db, u, e, x, ls, t) ==
  /\ t \in States(db)
  /\ t.trail = u.trail /\ t.next = u.next /\ t.sums = u.sums /\ t.from = u.from /\ t.conflict = u.conflict
  /\ t.culprit = u.culprit /\ t.heap = u.heap /\ t.bins = u.bins
  /\ t.clauses \in Seq(Clause) /\ Len(t.clauses) = Len(u.clauses)
  /\ t.clauses[e.id].lits = ls
  /\ \A id \in 1 .. Len(u.clauses) : id # e.id => t.clauses[id] = u.clauses[id]
  /\ \E w \in Watch : w.id = e.id /\ t.watches[x] = Append(u.watches[x], w)
  /\ \A l \in Lits : l # x => t.watches[l] = u.watches[l]
  /\ u.watches[x] \in Seq(Watch)

LEMMA RewatchedIs ==
  ASSUME NEW db, NEW u \in States(db), NEW e \in Watch, e.id \in 1 .. Len(u.clauses),
         NEW cl \in Clause, cl = u.clauses[e.id], NEW lit \in Lits, NEW other,
         NEW i \in 3 .. Len(cl.lits), NEW x \in Lits, x = cl.lits[i],
         NEW ls \in Seq(Lits), ls = Shuffled(cl.lits, i, lit, other),
         NEW t, t = Rewatched(u, e, i, lit, other)
  PROVE  RewatchedTo(db, u, e, x, ls, t)
<1>1. u \in State
  BY DEF States
<1>3. Len(u.clauses) \in Nat /\ Len(cl.lits) \in Nat /\ e.id \in Nat
  BY <1>1, ClauseFacts DEF Watch
<1>4. PICK w : w = [id |-> e.id, cached |-> lit]
  OBVIOUS
<1>2. w \in Watch /\ w.id = e.id
  BY <1>3, <1>4 DEF Watch
<1>14. PICK c : c = [lits |-> ls, idx |-> i, init |-> cl.init, lbd |-> cl.lbd]
  OBVIOUS
<1>13. /\ t = [u EXCEPT !.clauses[e.id].idx = i, !.clauses[e.id].lits = ls, !.watches[x] = Append(@, w)]
  BY <1>4 DEF Rewatched, Shuffled
<1>15. c \in Clause /\ c.lits = ls
  <2>1. cl.init \in BOOLEAN /\ cl.lbd \in Nat
    BY DEF Clause
  <2>2. i \in Nat
    BY <1>3
  <2> QED BY <1>14, <2>1, <2>2 DEF Clause
<1>16. /\ t.clauses = [u.clauses EXCEPT ![e.id] = c] /\ t.watches = [u.watches EXCEPT ![x] = Append(@, w)]
       /\ t.trail = u.trail /\ t.next = u.next /\ t.sums = u.sums /\ t.from = u.from /\ t.conflict = u.conflict
       /\ t.culprit = u.culprit /\ t.heap = u.heap /\ t.bins = u.bins
       /\ t = [u EXCEPT !.clauses = t.clauses, !.watches = t.watches]
  <2>1. u.clauses \in Seq(Clause) /\ cl = u.clauses[e.id] /\ DOMAIN u.clauses = 1 .. Len(u.clauses)
    BY <1>1, ClauseFacts
  <2>2. PICK c1 : c1 = [cl EXCEPT !.idx = i]
    OBVIOUS
  <2>3. [c1 EXCEPT !.lits = ls] = c
    <3>1. cl \in [lits : Seq(Lits), idx : Nat, init : BOOLEAN, lbd : Nat]
      BY DEF Clause
    <3>2. PICK v1, v2, v3 : v1 = cl.lits /\ v2 = cl.init /\ v3 = cl.lbd
      OBVIOUS
    <3>3. c1 = [lits |-> v1, idx |-> i, init |-> v2, lbd |-> v3]
      BY <2>2, <3>1, <3>2
    <3>4. [[lits |-> v1, idx |-> i, init |-> v2, lbd |-> v3] EXCEPT !.lits = ls]
            = [lits |-> ls, idx |-> i, init |-> v2, lbd |-> v3]
      OBVIOUS
    <3>5. c = [lits |-> ls, idx |-> i, init |-> v2, lbd |-> v3]
      BY <1>14, <3>2
    <3> QED BY <3>3, <3>4, <3>5
  <2>4. PICK q1 : q1 = [u.clauses EXCEPT ![e.id] = c1]
    OBVIOUS
  <2>5. q1[e.id] = c1
    BY <2>1, <2>4
  <2>6. [q1 EXCEPT ![e.id] = [q1[e.id] EXCEPT !.lits = ls]] = [u.clauses EXCEPT ![e.id] = c]
    BY <2>1, <2>3, <2>4, <2>5
  <2>7. [q1 EXCEPT ![e.id].lits = ls] = [u.clauses EXCEPT ![e.id] = c]
    BY <2>6
  <2>8. [u.clauses EXCEPT ![e.id].idx = i] = q1
    BY <2>1, <2>2, <2>4
  <2>9. PICK q2 : q2 = [u.clauses EXCEPT ![e.id] = c]
    OBVIOUS
  <2>10. PICK ws : ws = [u.watches EXCEPT ![x] = Append(@, w)]
    OBVIOUS
  <2>11. t = [u EXCEPT !.clauses = q2, !.watches = ws]
    <3>1. PICK u1 : u1 = [u EXCEPT !.clauses = q1]
      OBVIOUS
    <3>2. u1.clauses = q1 /\ u1.watches = u.watches
      BY <1>1, <3>1 DEF State
    <3>3. [u EXCEPT !.clauses[e.id].idx = i] = u1
      BY <2>8, <3>1
    <3>4. PICK u2 : u2 = [u1 EXCEPT !.clauses = q2]
      OBVIOUS
    <3>5. [u1 EXCEPT !.clauses[e.id].lits = ls] = u2
      BY <2>7, <2>9, <3>2, <3>4
    <3>6. u2.watches = u.watches /\ u2 = [u EXCEPT !.clauses = q2]
      BY <1>1, <3>1, <3>4 DEF State
    <3>7. [u2 EXCEPT !.watches[x] = Append(@, w)] = [u2 EXCEPT !.watches = ws]
      BY <2>10, <3>6
    <3>8. t = [u2 EXCEPT !.watches[x] = Append(@, w)]
      <4>1. t = [[[u EXCEPT !.clauses[e.id].idx = i] EXCEPT !.clauses[e.id].lits = ls] EXCEPT !.watches[x] = Append(@, w)]
        BY <1>13
      <4> QED BY <3>3, <3>5, <4>1
    <3> QED BY <3>6, <3>7, <3>8
  <2> QED BY <1>1, <2>9, <2>10, <2>11 DEF State
<1>17. /\ t.clauses \in Seq(Clause) /\ Len(t.clauses) = Len(u.clauses)
       /\ t.clauses[e.id] = c
       /\ \A id \in 1 .. Len(u.clauses) : id # e.id => t.clauses[id] = u.clauses[id]
  <2>1. PICK q0 \in Seq(Clause) : q0 = u.clauses
    BY <1>1, ClauseFacts
  <2>9. PICK j : j = e.id
    OBVIOUS
  <2>2. PICK q1 : q1 = [q0 EXCEPT ![j] = c]
    OBVIOUS
  <2>3. j \in 1 .. Len(q0) /\ c \in Clause
    BY <1>15, <2>1, <2>9
  <2>4. /\ q1 \in Seq(Clause) /\ Len(q1) = Len(q0) /\ q1[j] = c
        /\ \A id \in 1 .. Len(q0) : id # j => q1[id] = q0[id]
    BY <2>2, <2>3
  <2>5. t.clauses = q1
    BY <1>16, <2>1, <2>2, <2>9
  <2>6. /\ t.clauses \in Seq(Clause) /\ Len(t.clauses) = Len(q0) /\ t.clauses[j] = c
        /\ \A id \in 1 .. Len(q0) : id # j => t.clauses[id] = q0[id]
    BY <2>4, <2>5, Zenon
  <2> QED BY <2>1, <2>6, <2>9, Zenon
<1>18. /\ t.watches \in [Lits -> Seq(Watch)] /\ t.watches[x] = Append(u.watches[x], w)
       /\ \A l \in Lits : l # x => t.watches[l] = u.watches[l]
       /\ u.watches[x] \in Seq(Watch)
  <2>1. u.watches \in [Lits -> Seq(Watch)] /\ \A l \in Lits : u.watches[l] \in Seq(Watch)
    BY <1>1, ClauseFacts
  <2>2. PICK ws \in [Lits -> Seq(Watch)] : ws = u.watches
    BY <2>1
  <2>a. ws[x] \in Seq(Watch)
    BY <2>2
  <2>b. Append(ws[x], w) \in Seq(Watch)
    BY <1>2, <2>a, AppendIn, Zenon
  <2>3. PICK y \in Seq(Watch) : y = Append(ws[x], w)
    BY <2>b, Zenon
  <2>4. PICK z : z = [ws EXCEPT ![x] = y]
    OBVIOUS
  <2>5. /\ z \in [Lits -> Seq(Watch)] /\ z[x] = y /\ \A l \in Lits : l # x => z[l] = ws[l]
        /\ ws[x] \in Seq(Watch)
    BY <2>2, <2>3, <2>4
  <2>6. t.watches = z
    BY <1>16, <2>2, <2>3, <2>4
  <2> QED BY <2>2, <2>3, <2>5, <2>6
<1>19. t \in States(db)
  BY <1>1, <1>16, <1>17, <1>18 DEF States, State
<1>20. t.clauses[e.id].lits = ls
  BY <1>15, <1>17
<1> QED BY <1>2, <1>16, <1>17, <1>18, <1>19, <1>20 DEF RewatchedTo

(* An entry moves to the list of another literal of its clause. *)
LEMMA WatchMoves ==
  ASSUME NEW db \in Databases, NEW s \in States(db), NEW lit \in Lits, NEW q \in Seq(Watch),
         Watched(s, lit, q), NEW n \in 1 .. Len(q), NEW r, WatchVisit(db, r, s, lit, q, n - 1),
         NEW e \in Watch, e = q[n], NEW cl, cl = r.s.clauses[e.id],
         NEW other, Places(cl.lits, lit, other),
         NEW i \in 3 .. Len(cl.lits)
  PROVE  WatchVisit(db, [r EXCEPT !.s = Rewatched(r.s, e, i, lit, other)], s, lit, q, n)
<1>0. n \in Nat /\ Len(q) \in Nat
  OBVIOUS
<1>1. PICK u : u = r.s
  OBVIOUS
<1>2. /\ Reaches(db, u, s) /\ u \in States(db) /\ u \in State /\ ClausesMade(u)
      /\ Len(u.clauses) = Len(s.clauses) /\ r.kept \in Seq(Watch) /\ Watched(u, lit, r.kept)
  BY <1>1 DEF WatchVisit, Reaches, States
<1>3. \A j \in 1 .. Len(q) : q[j].id \in 1 .. Len(s.clauses)
  BY DEF Watched
<1>4. /\ e.id \in 1 .. Len(u.clauses) /\ cl \in Clause /\ cl.lits \in Seq(Lits) /\ Distinct(cl.lits)
      /\ Len(cl.lits) >= 3 /\ Len(cl.lits) \in Nat
  BY <1>1, <1>2, <1>3, ClauseFacts DEF ClausesMade
<1>5. \A p \in 1 .. Len(r.kept) : r.kept[p].id # e.id
  <2>1. n \in n - 1 + 1 .. Len(q)
    BY <1>0
  <2> QED BY <2>1 DEF WatchVisit
<1>6. PICK x : x = cl.lits[i]
  OBVIOUS
<1>8. PICK ls : ls = Shuffled(cl.lits, i, lit, other)
  OBVIOUS
<1>9. /\ ls \in Seq(Lits) /\ Len(ls) = Len(cl.lits) /\ Distinct(ls) /\ ToSet(ls) = ToSet(cl.lits)
      /\ ls[1] = other /\ ls[2] = cl.lits[i]
      /\ other \in Lits /\ cl.lits[i] \in Lits /\ cl.lits[i] # lit /\ cl.lits[i] # other /\ lit # other
  <2>1. PICK q0 \in Seq(Lits) : q0 = cl.lits
    BY <1>4
  <2>2. Distinct(q0) /\ Len(q0) >= 3 /\ i \in 3 .. Len(q0) /\ Places(q0, lit, other)
        /\ ls = Shuffled(q0, i, lit, other)
    BY <1>4, <1>8, <2>1
  <2>3. /\ ls \in Seq(Lits) /\ Len(ls) = Len(q0) /\ Distinct(ls) /\ ToSet(ls) = ToSet(q0)
        /\ ls[1] = other /\ ls[2] = q0[i]
        /\ other \in Lits /\ q0[i] \in Lits /\ q0[i] # lit /\ q0[i] # other /\ lit # other
    <3>1. Moves(q0, i, lit, other)
      BY <2>1, <2>2 DEF Moves
    <3>2. Moved(q0, i, lit, other)
      BY <3>1, RewatchedApplied, Zenon
    <3> QED BY <2>2, <3>2, Zenon DEF Moved
  <2> QED BY <2>1, <2>3, Zenon
<1>7. /\ x \in Lits /\ other \in Lits /\ x # lit /\ x # other /\ lit # other
      /\ ls[1] = other /\ ls[2] = x
  BY <1>6, <1>9
<1>10. PICK t : t = Rewatched(u, e, i, lit, other)
  OBVIOUS
<1>15. lit \in Lits
  BY <1>9
<1>16. /\ t \in States(db)
       /\ t.trail = u.trail /\ t.next = u.next /\ t.sums = u.sums /\ t.from = u.from /\ t.conflict = u.conflict
       /\ t.culprit = u.culprit /\ t.heap = u.heap /\ t.bins = u.bins
       /\ t.clauses \in Seq(Clause) /\ Len(t.clauses) = Len(u.clauses)
       /\ t.clauses[e.id].lits = ls
       /\ \A id \in 1 .. Len(u.clauses) : id # e.id => t.clauses[id] = u.clauses[id]
       /\ \E w \in Watch : w.id = e.id /\ t.watches[x] = Append(u.watches[x], w)
       /\ \A l \in Lits : l # x => t.watches[l] = u.watches[l]
       /\ u.watches[x] \in Seq(Watch)
  <2>1. cl = u.clauses[e.id]
    BY <1>1
  <2>2. u \in States(db) /\ e.id \in 1 .. Len(u.clauses) /\ cl \in Clause
    BY <1>2, <1>4
  <2>3. x \in Lits /\ x = cl.lits[i] /\ ls \in Seq(Lits) /\ ls = Shuffled(cl.lits, i, lit, other)
    BY <1>6, <1>7, <1>8, <1>9
  <2>4. RewatchedTo(db, u, e, x, ls, t)
    BY <1>10, <1>15, <2>1, <2>2, <2>3, RewatchedIs
  <2> QED BY <2>4 DEF RewatchedTo
<1>12. PICK w \in Watch : w.id = e.id /\ t.watches[x] = Append(u.watches[x], w)
  BY <1>16
<1>20. /\ Firsts(t, e.id) = {other, x} /\ Firsts(u, e.id) = {other, lit}
       /\ \A id \in 1 .. Len(u.clauses) : id # e.id => Firsts(t, id) = Firsts(u, id)
  <2>1. Firsts(t, e.id) = {other, x}
    BY <1>7, <1>16 DEF Firsts
  <2>2. Firsts(u, e.id) = {other, lit}
    <3>1. Firsts(u, e.id) = {cl.lits[1], cl.lits[2]}
      BY <1>1 DEF Firsts
    <3>2. PICK a, b \in 1 .. 2 : a # b /\ cl.lits[a] = other /\ cl.lits[b] = lit
      BY DEF Places
    <3>a. a # b
      BY <3>2, Zenon
    <3>3. (a = 1 /\ b = 2) \/ (a = 2 /\ b = 1)
      BY <3>a
    <3>4. {other, lit} = {lit, other}
      OBVIOUS
    <3>5. {cl.lits[1], cl.lits[2]} = {other, lit}
      BY <3>2, <3>3, <3>4
    <3> QED BY <3>1, <3>5
  <2>3. \A id \in 1 .. Len(u.clauses) : id # e.id => Firsts(t, id) = Firsts(u, id)
    BY <1>16 DEF Firsts
  <2> QED BY <2>1, <2>2, <2>3
<1>21. ClausesMade(t)
  <2> SUFFICES ASSUME NEW id \in 1 .. Len(u.clauses)
               PROVE  Len(t.clauses[id].lits) >= 3 /\ Distinct(t.clauses[id].lits)
    BY <1>16 DEF ClausesMade
  <2>1. CASE id = e.id
    BY <1>4, <1>9, <1>16, <2>1
  <2>2. CASE id # e.id
    BY <1>2, <1>16, <2>2 DEF ClausesMade
  <2> QED BY <2>1, <2>2
<1>22. SameClauses(t, u)
  <2>1. \A id \in 1 .. Len(u.clauses) : ToSet(t.clauses[id].lits) = ToSet(u.clauses[id].lits)
    BY <1>1, <1>9, <1>16
  <2>2. Len(u.clauses) \in Nat /\ t.bins = u.bins
    BY <1>2, <1>16, ClauseFacts
  <2> QED BY <1>16, <2>1, <2>2 DEF SameClauses, Retains
<1>23. Reaches(db, t, s)
  <2>1. Resembles(db, t, u)
    BY <1>16, <1>21, <1>22 DEF Resembles
  <2>2. t.conflict => Falsifies(db, t)
    <3>1. TrueLits(t) = TrueLits(u) /\ Retains(t, u) /\ t \in State
      BY <1>16, <1>22 DEF TrueLits, SameClauses, States
    <3>2. u.conflict => Falsifies(db, u)
      BY <1>2 DEF Reaches
    <3> QED BY <1>2, <1>16, <3>1, <3>2, FalsifiesKept
  <2> QED BY <1>2, <1>16, <2>1, <2>2, ReachesSame
<1>24. ASSUME NEW l \in Lits \ {lit} PROVE Watched(t, l, t.watches[l])
  <2>1. Watched(u, l, u.watches[l])
    BY <1>1 DEF WatchVisit
  <2>2. \A j \in 1 .. Len(u.watches[l]) : l \in Firsts(t, u.watches[l][j].id)
    <3> SUFFICES ASSUME NEW j \in 1 .. Len(u.watches[l]) PROVE l \in Firsts(t, u.watches[l][j].id)
      OBVIOUS
    <3>1. l \in Firsts(u, u.watches[l][j].id) /\ u.watches[l][j].id \in 1 .. Len(u.clauses)
      BY <2>1 DEF Watched
    <3> QED BY <1>20, <3>1
  <2>3. Watched(t, l, u.watches[l])
    BY <1>16, <2>1, <2>2, WatchedSame
  <2>4. CASE l # x
    BY <1>16, <2>3, <2>4
  <2>5. CASE l = x
    <3>1. \A j \in 1 .. Len(u.watches[x]) : u.watches[x][j].id # e.id
      BY <1>7, <1>20, <2>1, <2>5 DEF Watched
    <3>2. w.id \in 1 .. Len(t.clauses) /\ x \in Firsts(t, w.id)
      BY <1>4, <1>12, <1>16, <1>20
    <3>3. Watched(t, x, Append(u.watches[x], w))
      BY <1>12, <1>16, <2>3, <2>5, <3>1, <3>2, WatchedAppend
    <3>4. t.watches[l] = Append(u.watches[x], w)
      BY <1>12, <2>5, Zenon
    <3> QED BY <2>5, <3>3, <3>4, Zenon
  <2> QED BY <2>4, <2>5
<1>25. Watched(t, lit, r.kept)
  <2>1. \A p \in 1 .. Len(r.kept) : lit \in Firsts(t, r.kept[p].id)
    BY <1>2, <1>5, <1>20 DEF Watched
  <2> QED BY <1>2, <1>16, <2>1, WatchedSame
<1>26. ASSUME NEW j \in n + 1 .. Len(q)
       PROVE  lit \in Firsts(t, q[j].id) /\ \A p \in 1 .. Len(r.kept) : r.kept[p].id # q[j].id
  <2>1. j \in n - 1 + 1 .. Len(q) /\ j \in 1 .. Len(q) /\ j # n
    BY <1>0
  <2>2. lit \in Firsts(u, q[j].id) /\ \A p \in 1 .. Len(r.kept) : r.kept[p].id # q[j].id
    BY <1>1, <2>1 DEF WatchVisit
  <2>3. q[j].id # e.id
    BY <2>1 DEF Watched
  <2> QED BY <1>2, <1>3, <1>20, <2>1, <2>2, <2>3
<1>27. PICK z : z = [r EXCEPT !.s = t]
  OBVIOUS
<1>28. z \in [s : States(db), kept : Seq(Watch)] /\ z.s = t /\ z.kept = r.kept
  <2>1. r \in [s : States(db), kept : Seq(Watch)]
    BY DEF WatchVisit
  <2> QED BY <1>16, <1>27, <2>1
<1>29. t.next = s.next /\ t.sums = s.sums /\ Len(t.clauses) = Len(s.clauses)
  BY <1>1, <1>2, <1>16 DEF WatchVisit
<1>30. WatchVisit(db, z, s, lit, q, n)
  BY <1>2, <1>23, <1>24, <1>25, <1>26, <1>28, <1>29 DEF WatchVisit
<1> QED BY <1>1, <1>10, <1>27, <1>30

(* Moving the cursor of a clause changes nothing else. *)
LEMMA CursorFacts ==
  ASSUME NEW db, NEW u \in States(db), NEW id \in 1 .. Len(u.clauses), NEW i \in Nat,
         NEW t, t = [u EXCEPT !.clauses[id].idx = i]
  PROVE  /\ t \in States(db) /\ t.trail = u.trail /\ t.next = u.next /\ t.sums = u.sums
         /\ t.conflict = u.conflict /\ t.culprit = u.culprit /\ t.heap = u.heap
         /\ t.watches = u.watches /\ t.bins = u.bins /\ Len(t.clauses) = Len(u.clauses)
         /\ \A j \in 1 .. Len(u.clauses) : t.clauses[j].lits = u.clauses[j].lits
<1>1. u \in State
  BY DEF States
<1>2. PICK q0 \in Seq(Clause) : q0 = u.clauses
  BY <1>1, ClauseFacts
<1>3. PICK cl \in Clause : cl = q0[id]
  BY <1>2, <1>1, ClauseFacts
<1>4. PICK c : c = [cl EXCEPT !.idx = i]
  OBVIOUS
<1>5. c \in Clause /\ c.lits = cl.lits
  BY <1>4 DEF Clause
<1>6. PICK q1 : q1 = [q0 EXCEPT ![id] = c]
  OBVIOUS
<1>7. id \in 1 .. Len(q0)
  BY <1>2
<1>8. /\ q1 \in Seq(Clause) /\ Len(q1) = Len(q0) /\ q1[id] = c
      /\ \A j \in 1 .. Len(q0) : j # id => q1[j] = q0[j]
  BY <1>5, <1>6, <1>7
<1>9. \A j \in 1 .. Len(q0) : q1[j].lits = q0[j].lits
  BY <1>3, <1>5, <1>8
<1>10. t = [u EXCEPT !.clauses = q1]
  <2>1. [q0 EXCEPT ![id].idx = i] = q1
    BY <1>3, <1>4, <1>6, <1>7
  <2> QED BY <1>2, <2>1
<1>11. /\ t \in State /\ t.trail = u.trail /\ t.next = u.next /\ t.sums = u.sums /\ t.from = u.from
       /\ t.conflict = u.conflict /\ t.culprit = u.culprit /\ t.heap = u.heap
       /\ t.watches = u.watches /\ t.bins = u.bins /\ t.clauses = q1
  BY <1>1, <1>8, <1>10 DEF State
<1>12. t \in States(db)
  BY <1>11 DEF States
<1> QED BY <1>2, <1>8, <1>9, <1>11, <1>12

LEMMA SameLits ==
  ASSUME NEW db, NEW u \in States(db), ClausesMade(u), NEW t, t.bins = u.bins, Len(t.clauses) = Len(u.clauses),
         \A j \in 1 .. Len(u.clauses) : t.clauses[j].lits = u.clauses[j].lits
  PROVE  /\ SameClauses(t, u) /\ ClausesMade(t)
         /\ \A j \in 1 .. Len(u.clauses) : Firsts(t, j) = Firsts(u, j)
<1>1. Len(u.clauses) \in Nat
  BY ClauseFacts DEF States
<1>2. SameClauses(t, u)
  BY <1>1 DEF SameClauses, Retains
<1>3. ClausesMade(t)
  BY DEF ClausesMade
<1> QED BY <1>2, <1>3 DEF Firsts

(* An entry whose clause has nothing to do stays; the cursor may move. *)
LEMMA WatchRests ==
  ASSUME NEW db \in Databases, NEW s \in States(db), NEW lit \in Lits, NEW q \in Seq(Watch),
         Watched(s, lit, q), NEW n \in 1 .. Len(q), NEW r, WatchVisit(db, r, s, lit, q, n - 1),
         NEW u, u = r.s,
         NEW t \in States(db), t.trail = u.trail, t.next = u.next, t.sums = u.sums,
         t.conflict = u.conflict, t.culprit = u.culprit, t.heap = u.heap,
         t.watches = u.watches, t.bins = u.bins, Len(t.clauses) = Len(u.clauses),
         \A j \in 1 .. Len(u.clauses) : t.clauses[j].lits = u.clauses[j].lits,
         NEW e \in Watch, e.id = q[n].id
  PROVE  WatchVisit(db, [s |-> t, kept |-> Append(r.kept, e)], s, lit, q, n)
<1>1. /\ Reaches(db, u, s) /\ u.next = s.next /\ u.sums = s.sums /\ Len(u.clauses) = Len(s.clauses)
      /\ u \in States(db) /\ u \in State /\ t \in State
  BY DEF WatchVisit, Reaches, States
<1>2. ClausesMade(u)
  BY <1>1 DEF Reaches
<1>3. /\ SameClauses(t, u) /\ ClausesMade(t)
      /\ \A j \in 1 .. Len(u.clauses) : Firsts(t, j) = Firsts(u, j)
  BY <1>1, <1>2, SameLits
<1>4. Resembles(db, t, u)
  BY <1>3 DEF Resembles
<1>5. t.conflict => Falsifies(db, t)
  <2>1. u.conflict => Falsifies(db, u)
    BY <1>1 DEF Reaches
  <2>2. TrueLits(t) = TrueLits(u)
    BY DEF TrueLits
  <2>3. Retains(t, u)
    BY <1>3 DEF SameClauses
  <2> QED BY <1>1, <2>1, <2>2, <2>3, FalsifiesKept
<1>6. Reaches(db, t, s)
  BY <1>1, <1>4, <1>5, ReachesSame
<1> QED BY <1>1, <1>3, <1>6, WatchKeeps

(* All literals but one are false: that one becomes true, or is false too and
   the clause is the conflict. *)
LEMMA WatchPushes ==
  ASSUME NEW db \in Databases, NEW s \in States(db), NEW lit \in Lits, NEW q \in Seq(Watch),
         Watched(s, lit, q), NEW n \in 1 .. Len(q), NEW r, WatchVisit(db, r, s, lit, q, n - 1),
         NEW u, u = r.s, ~u.conflict,
         NEW id, id = q[n].id, NEW other \in ToSet(u.clauses[id].lits), ~IsTrueLit(u, other),
         \A l \in ToSet(u.clauses[id].lits) \ {other} : -l \in TrueLits(u),
         NEW t, t = IF IsUndefLit(u, other) THEN SetTrue(u, other, <<"clause", id>>)
                                            ELSE Clash(u, <<"clause", id>>),
         NEW e \in Watch, e.id = q[n].id
  PROVE  WatchVisit(db, [s |-> t, kept |-> Append(r.kept, e)], s, lit, q, n)
<1>1. /\ Reaches(db, u, s) /\ u.next = s.next /\ u.sums = s.sums /\ Len(u.clauses) = Len(s.clauses)
      /\ u \in States(db) /\ u \in State /\ ClausesMade(u)
  BY DEF WatchVisit, Reaches, States
<1>2. id \in 1 .. Len(u.clauses) /\ id \in Nat
  <2>1. id \in 1 .. Len(u.clauses)
    BY <1>1 DEF Watched
  <2>2. Len(u.clauses) \in Nat
    BY <1>1, ClauseFacts
  <2> QED BY <2>1, <2>2
<1>3. PICK L : L = ToSet(u.clauses[id].lits)
  OBVIOUS
<1>4. L \subseteq Lits /\ Unopposed(L) /\ other \in L /\ other \in Lits
  BY <1>1, <1>2, <1>3, ClauseFacts, DistinctSet DEF ClausesMade
<1>5. PICK why : why = <<"clause", id>>
  OBVIOUS
<1>6. why \in Reason /\ why \in Culprit /\ why[1] = "clause" /\ why[2] = id
  BY <1>2, <1>5, ReasonFacts
<1>7. \A d, x, l : x.clauses = u.clauses => WConstraint(d, x, why, l) = ClauseForm(L)
  BY <1>3, <1>6, ClauseIs
<1>8. \A j \in 1 .. Len(u.clauses) : t.clauses = u.clauses => Firsts(t, j) = Firsts(u, j)
  BY DEF Firsts
<1>9. CASE IsUndefLit(u, other)
  <2>1. PICK t1 : t1 = SetTrue(u, other, why)
    OBVIOUS
  <2>2. /\ t \in States(db) /\ t.trail = Append(u.trail, Assigned(other, Level(u), why))
        /\ t.next = u.next /\ t.heap = u.heap /\ t.sums = u.sums /\ t.watches = u.watches
        /\ t.clauses = u.clauses /\ t.bins = u.bins /\ t.conflict = u.conflict
    <3>1. /\ t1 \in States(db) /\ t1.trail = Append(u.trail, Assigned(other, Level(u), why))
          /\ t1.next = u.next /\ t1.heap = u.heap /\ t1.sums = u.sums /\ t1.watches = u.watches
          /\ t1.clauses = u.clauses /\ t1.bins = u.bins /\ t1.conflict = u.conflict
      <4>1. u \in States(db) /\ other \in Lits /\ why \in Reason
        BY <1>1, <1>4, <1>6
      <4> QED BY <2>1, <4>1, SetTrueIs
    <3>2. t = t1
      BY <1>5, <1>9, <2>1
    <3> QED BY <3>1, <3>2, Zenon
  <2>3. Resembles(db, t, u)
    BY <1>1, <2>2, ResemblesIf
  <2>4. Forces(ClauseForm(L), other, TrueLits(u))
    <3>1. -other \notin TrueLits(u)
      BY <1>4, <1>9, LitCases
    <3>2. \A l \in L \ {other} : -l \in TrueLits(u)
      BY <1>3
    <3> QED BY <1>4, <3>1, <3>2, ClauseForces
  <2>5. Due(db, u, why, other, TrueLits(u))
    BY <1>2, <1>6, <1>7, <2>4 DEF Due, Known
  <2>6. Reaches(db, t, s)
    BY <1>1, <1>4, <1>6, <1>9, <2>2, <2>3, <2>5, ReachesTrue
  <2> QED BY <1>1, <1>8, <2>2, <2>6, WatchKeeps
<1>10. CASE ~IsUndefLit(u, other)
  <2>1. t = Clash(u, why)
    BY <1>5, <1>10
  <2>2. /\ t \in States(db) /\ t.trail = u.trail /\ t.culprit = why
        /\ t.next = u.next /\ t.heap = u.heap /\ t.sums = u.sums /\ t.watches = u.watches
        /\ t.clauses = u.clauses /\ t.bins = u.bins /\ t.conflict
    BY <1>1, <1>6, <2>1, ClashFacts
  <2>3. Resembles(db, t, u)
    BY <1>1, <2>2, ResemblesIf
  <2>4. Fails(ClauseForm(L), TrueLits(t))
    <3>1. TrueLits(t) = TrueLits(u)
      BY <2>2 DEF TrueLits
    <3>2. -other \in TrueLits(u)
      BY <1>4, <1>10, LitCases DEF IsFalseLit
    <3>3. \A l \in L : -l \in TrueLits(t)
      BY <1>3, <3>1, <3>2
    <3> QED BY <1>4, <3>3, ClauseFails
  <2>5. Falsifies(db, t)
    <3>1. Known(db, t, t.culprit, OtherLit(t))
      BY <1>2, <1>6, <2>2 DEF Known
    <3>2. Falsified(db, t) = ClauseForm(L)
      BY <1>7, <2>2 DEF Falsified
    <3> QED BY <2>4, <3>1, <3>2 DEF Falsifies
  <2>6. Reaches(db, t, s)
    BY <1>1, <2>2, <2>3, <2>5, ReachesSame
  <2>7. /\ t.next = s.next /\ t.sums = s.sums /\ Len(t.clauses) = Len(s.clauses) /\ t.watches = u.watches
        /\ \A j \in 1 .. Len(s.clauses) : Firsts(t, j) = Firsts(u, j)
    BY <1>1, <1>8, <2>2
  <2> QED BY <2>6, <2>7, WatchKeeps
<1> QED BY <1>9, <1>10

(* What a visit may find: clauses as long as those of s. *)
LongClauses(db, s) ==
  {r \in [s : States(db), kept : Seq(Watch)] :
     /\ Len(r.s.clauses) = Len(s.clauses)
     /\ \A j \in 1 .. Len(s.clauses) : Len(r.s.clauses[j].lits) >= 3}

LEMMA CachedFacts ==
  ASSUME NEW e \in Watch, NEW x \in Lits
  PROVE  [e EXCEPT !.cached = x] \in Watch /\ [e EXCEPT !.cached = x].id = e.id
BY DEF Watch

LEMMA LongClause ==
  ASSUME NEW db, NEW s \in States(db), NEW t \in States(db), NEW k \in Seq(Watch),
         Len(t.clauses) = Len(s.clauses), \A j \in 1 .. Len(s.clauses) : Len(t.clauses[j].lits) >= 3
  PROVE  [s |-> t, kept |-> k] \in LongClauses(db, s)
BY DEF LongClauses

LEMMA VisitWatchType ==
  ASSUME NEW db, NEW s \in States(db), NEW lit \in Lits, NEW r \in LongClauses(db, s), NEW e \in Watch,
         e.id \in 1 .. Len(s.clauses)
  PROVE  VisitWatch(r, e, lit) \in LongClauses(db, s)
<1>1. PICK u : u = r.s
  OBVIOUS
<1>2. PICK id : id = e.id
  OBVIOUS
<1>3. /\ u \in States(db) /\ u \in State /\ r.kept \in Seq(Watch) /\ Len(u.clauses) = Len(s.clauses)
      /\ \A j \in 1 .. Len(u.clauses) : Len(u.clauses[j].lits) >= 3
      /\ id \in 1 .. Len(u.clauses) /\ id \in Nat
  <2>1. e.id \in Nat
    BY DEF Watch
  <2> QED BY <1>1, <1>2, <2>1 DEF LongClauses, States
<1>4. PICK cl \in Clause : cl = u.clauses[id]
  BY <1>3, ClauseFacts
<1>5. PICK ls \in Seq(Lits) : ls = cl.lits
  BY DEF Clause
<1>6. Len(ls) >= 3 /\ Len(ls) \in Nat
  BY <1>3, <1>4, <1>5
<1>7. PICK other : other = IF ls[1] = lit THEN ls[2] ELSE ls[1]
  OBVIOUS
<1>8. other \in Lits
  <2>1. 1 \in 1 .. Len(ls) /\ 2 \in 1 .. Len(ls)
    BY <1>6
  <2>2. ls[1] \in Lits /\ ls[2] \in Lits
    BY <2>1
  <2> QED BY <1>7, <2>2
<1>9. PICK i : i = Replacement(cl, u)
  OBVIOUS
<1>10. i = 0 \/ i \in 3 .. Len(ls)
  BY <1>5, <1>9, ReplacementIs
<1>11. PICK c0 \in Lits : c0 = e.cached
  BY DEF Watch
<1>12. ASSUME NEW t \in States(db), Len(t.clauses) = Len(u.clauses),
              \A j \in 1 .. Len(u.clauses) : Len(t.clauses[j].lits) >= 3,
              NEW x \in Lits
       PROVE  [s |-> t, kept |-> Append(r.kept, [e EXCEPT !.cached = x])] \in LongClauses(db, s)
  <2>1. Append(r.kept, [e EXCEPT !.cached = x]) \in Seq(Watch)
    BY <1>3, CachedFacts, AppendIn
  <2> QED BY <1>3, <1>12, <2>1, LongClause
<1>13. VisitWatch(r, e, lit) =
         IF u.conflict \/ IsTrueLit(u, c0) THEN [s |-> u, kept |-> Append(r.kept, [e EXCEPT !.cached = c0])]
         ELSE IF IsTrueLit(u, other) THEN [s |-> u, kept |-> Append(r.kept, [e EXCEPT !.cached = other])]
         ELSE IF i = 0 THEN
           [s |-> IF IsUndefLit(u, other) THEN SetTrue(u, other, <<"clause", id>>)
                                          ELSE Clash(u, <<"clause", id>>),
            kept |-> Append(r.kept, [e EXCEPT !.cached = c0])]
         ELSE IF IsTrueLit(u, ls[i]) THEN
           [s |-> [u EXCEPT !.clauses[id].idx = i], kept |-> Append(r.kept, [e EXCEPT !.cached = ls[i]])]
         ELSE [r EXCEPT !.s = Rewatched(u, e, i, lit, other)]
  BY <1>1, <1>2, <1>4, <1>5, <1>7, <1>9, <1>11, Zenon DEF VisitWatch
<1>14. \A x \in Lits : [s |-> u, kept |-> Append(r.kept, [e EXCEPT !.cached = x])] \in LongClauses(db, s)
  BY <1>3, <1>12
<1>15. CASE u.conflict \/ IsTrueLit(u, c0)
  BY <1>13, <1>14, <1>15, Zenon
<1>16. CASE ~(u.conflict \/ IsTrueLit(u, c0)) /\ IsTrueLit(u, other)
  BY <1>8, <1>13, <1>14, <1>16, Zenon
<1>17. CASE ~(u.conflict \/ IsTrueLit(u, c0)) /\ ~IsTrueLit(u, other) /\ i = 0
  <2>1. PICK t : t = IF IsUndefLit(u, other) THEN SetTrue(u, other, <<"clause", id>>)
                                             ELSE Clash(u, <<"clause", id>>)
    OBVIOUS
  <2>2. <<"clause", id>> \in Reason /\ <<"clause", id>> \in Culprit
    BY <1>3, ReasonFacts
  <2>3. t \in States(db) /\ t.clauses = u.clauses
    <3>1. PICK t1, t2 : t1 = SetTrue(u, other, <<"clause", id>>) /\ t2 = Clash(u, <<"clause", id>>)
      OBVIOUS
    <3>2. t1 \in States(db) /\ t1.clauses = u.clauses
      BY <1>3, <1>8, <2>2, <3>1, SetTrueIs
    <3>3. t2 \in States(db) /\ t2.clauses = u.clauses
      BY <1>3, <2>2, <3>1, ClashFacts
    <3> QED BY <2>1, <3>1, <3>2, <3>3, Zenon
  <2>4. [s |-> t, kept |-> Append(r.kept, [e EXCEPT !.cached = c0])] \in LongClauses(db, s)
    BY <1>3, <1>12, <2>3
  <2> QED BY <1>13, <1>17, <2>1, <2>4, Zenon
<1>18. CASE ~(u.conflict \/ IsTrueLit(u, c0)) /\ ~IsTrueLit(u, other) /\ i # 0 /\ IsTrueLit(u, ls[i])
  <2>1. PICK t : t = [u EXCEPT !.clauses[id].idx = i]
    OBVIOUS
  <2>2. i \in 3 .. Len(ls) /\ i \in Nat /\ ls[i] \in Lits
    BY <1>10, <1>18
  <2>3. /\ t \in States(db) /\ Len(t.clauses) = Len(u.clauses)
        /\ \A j \in 1 .. Len(u.clauses) : t.clauses[j].lits = u.clauses[j].lits
    <3>1. u \in States(db) /\ id \in 1 .. Len(u.clauses) /\ i \in Nat
      BY <1>3, <2>2
    <3> QED BY <2>1, <3>1, CursorFacts
  <2>4. [s |-> t, kept |-> Append(r.kept, [e EXCEPT !.cached = ls[i]])] \in LongClauses(db, s)
    BY <1>3, <1>12, <2>2, <2>3
  <2> QED BY <1>13, <1>18, <2>1, <2>4, Zenon
<1>19. CASE ~(u.conflict \/ IsTrueLit(u, c0)) /\ ~IsTrueLit(u, other) /\ i # 0 /\ ~IsTrueLit(u, ls[i])
  <2>1. PICK t : t = Rewatched(u, e, i, lit, other)
    OBVIOUS
  <2>2. i \in 3 .. Len(ls) /\ ls[i] \in Lits
    BY <1>10, <1>19
  <2>3. PICK p : p = Shuffled(ls, i, lit, other)
    OBVIOUS
  <2>4. p \in Seq(Lits) /\ Len(p) = Len(ls)
    BY <1>6, <1>8, <2>2, <2>3 DEF Shuffled
  <2>5. RewatchedTo(db, u, e, ls[i], p, t)
    <3>1. PICK x \in Lits : x = ls[i]
      BY <2>2
    <3>2. e.id \in 1 .. Len(u.clauses) /\ cl = u.clauses[e.id] /\ i \in 3 .. Len(cl.lits) /\ x = cl.lits[i]
          /\ p = Shuffled(cl.lits, i, lit, other) /\ u \in States(db)
      BY <1>2, <1>3, <1>4, <1>5, <2>2, <2>3, <3>1
    <3>3. RewatchedTo(db, u, e, x, p, t)
      BY <2>1, <2>4, <3>1, <3>2, RewatchedIs
    <3> QED BY <3>1, <3>3
  <2>6. /\ t \in States(db) /\ Len(t.clauses) = Len(u.clauses) /\ t.clauses[id].lits = p
        /\ \A j \in 1 .. Len(u.clauses) : j # id => t.clauses[j] = u.clauses[j]
    BY <1>2, <2>5 DEF RewatchedTo
  <2>7. \A j \in 1 .. Len(s.clauses) : Len(t.clauses[j].lits) >= 3
    BY <1>3, <1>6, <2>4, <2>6
  <2>8. PICK z : z = [r EXCEPT !.s = t]
    OBVIOUS
  <2>9. z = [s |-> t, kept |-> r.kept]
    BY <2>8 DEF LongClauses
  <2>10. z \in LongClauses(db, s)
    BY <1>3, <2>6, <2>7, <2>9, LongClause
  <2> QED BY <1>13, <1>19, <2>1, <2>8, <2>10, Zenon
<1> QED BY <1>15, <1>16, <1>17, <1>18, <1>19

(* The list is visited from its first entry to its last. *)
LEMMA VisitClausesSteps ==
  ASSUME NEW db, NEW s \in States(db), ClausesMade(s), NEW lit \in Lits, Watched(s, lit, s.watches[lit])
  PROVE  \E h \in [0 .. Len(s.watches[lit]) -> LongClauses(db, s)] :
           /\ h[0] = [s |-> s, kept |-> <<>>]
           /\ \A i \in 1 .. Len(s.watches[lit]) : h[i] = VisitWatch(h[i - 1], s.watches[lit][i], lit)
           /\ VisitClauses(s, lit) = ListKept(h[Len(s.watches[lit])], lit)
<1> DEFINE n == Len(s.watches[lit])
           S == LongClauses(db, s)
           b == [s |-> s, kept |-> <<>>]
           step(r, i) == VisitWatch(r, i, lit)
           idx == s.watches[lit]
           g == [p \in S \X (1 .. n) |-> step(p[1], idx[p[2]])]
           E(q) == q = [t \in SUBSET DOMAIN idx |->
                          IF t = {} THEN b ELSE step(q[t \ {Max(t)}], idx[Max(t)])]
           F == CHOOSE q : E(q)
<1>1. n \in Nat /\ b \in S /\ DOMAIN idx = 1 .. n /\ \A i \in 1 .. n : idx[i] = s.watches[lit][i]
  <2>1. s.watches[lit] \in Seq(Watch)
    BY ClauseFacts DEF States
  <2>2. b \in S
    <3>1. <<>> \in Seq(Watch)
      OBVIOUS
    <3>2. \A j \in 1 .. Len(s.clauses) : Len(s.clauses[j].lits) >= 3
      BY DEF ClausesMade
    <3> QED BY <3>1, <3>2, LongClause
  <2> QED BY <2>1, <2>2
<1>2. g \in [S \X (1 .. n) -> S]
  <2>1. \A i \in 1 .. n : s.watches[lit][i] \in Watch /\ s.watches[lit][i].id \in 1 .. Len(s.clauses)
    <3>1. s.watches[lit] \in Seq(Watch)
      BY ClauseFacts DEF States
    <3> QED BY <3>1 DEF Watched
  <2>2. \A r \in S, i \in 1 .. n : step(r, idx[i]) \in S
    BY <2>1, VisitWatchType
  <2> HIDE DEF step
  <2> QED BY <1>1, <2>2
<1>3. \A t \in SUBSET (1 .. n), r \in S : t # {} => g[<<r, Max(t)>>] = step(r, idx[Max(t)])
  BY <1>1, MaxInSet
<1>4. VisitClauses(s, lit) = ListKept(F[DOMAIN idx], lit)
  BY Zenon DEF VisitClauses, FoldLeft, MapThenFoldSet
<1> HIDE DEF step, g, S, n, idx, b
<1>5. \E q : E(q)
  <2>1. PICK q \in [SUBSET (1 .. n) -> S] : Solves(q, n, b, g)
    BY <1>1, <1>2, FoldExists
  <2>2. E(q)
    BY <2>1, <1>1, <1>3 DEF Solves
  <2> QED BY <2>2
<1>6. E(F)
  BY <1>5, Zenon
<1> HIDE DEF F
<1>7. Follows(F, n, S, b, g)
  BY <1>1, <1>2, <1>6, <1>3 DEF Follows
<1>8. PICK h : Steps(h, F, n, S, b, g)
  BY <1>7, FoldSteps
<1>9. /\ h \in [0 .. n -> S] /\ h[0] = b /\ F[1 .. n] = h[n]
      /\ \A i \in 1 .. n : h[i] = g[<<h[i - 1], i>>] /\ h[i - 1] \in S
  BY <1>8, <1>1 DEF Steps
<1>10. \A i \in 1 .. n : h[i] = step(h[i - 1], s.watches[lit][i])
  BY <1>1, <1>9 DEF g
<1> QED BY <1>1, <1>4, <1>9, <1>10 DEF n, S, b, step

(* One entry of the list. *)
LEMMA WatchStep ==
  ASSUME NEW db \in Databases, NEW s \in States(db), NEW lit \in Lits, -lit \in TrueLits(s),
         NEW q \in Seq(Watch),
         Watched(s, lit, q), NEW n \in 1 .. Len(q), NEW r, WatchVisit(db, r, s, lit, q, n - 1)
  PROVE  WatchVisit(db, VisitWatch(r, q[n], lit), s, lit, q, n)
<1>1. PICK u : u = r.s
  OBVIOUS
<1>2. PICK e \in Watch : e = q[n]
  OBVIOUS
<1>3. PICK id : id = e.id
  OBVIOUS
<1>4. /\ Reaches(db, u, s) /\ u \in States(db) /\ u \in State /\ ClausesMade(u)
      /\ Len(u.clauses) = Len(s.clauses) /\ r.kept \in Seq(Watch)
      /\ r \in [s : States(db), kept : Seq(Watch)] /\ s \in State
  BY <1>1 DEF WatchVisit, Reaches, States
<1>5. /\ id \in 1 .. Len(u.clauses) /\ id \in Nat /\ lit \in Firsts(u, id)
  <2>1. id \in 1 .. Len(s.clauses) /\ id \in Nat
    BY <1>2, <1>3 DEF Watched, Watch
  <2>2. n \in n - 1 + 1 .. Len(q)
    OBVIOUS
  <2> QED BY <1>1, <1>2, <1>3, <1>4, <2>1, <2>2 DEF WatchVisit
<1>6. PICK cl \in Clause : cl = u.clauses[id]
  BY <1>4, <1>5, ClauseFacts
<1>7. PICK ls \in Seq(Lits) : ls = cl.lits
  BY DEF Clause
<1>8. Len(ls) >= 3 /\ Len(ls) \in Nat /\ Distinct(ls)
  BY <1>4, <1>5, <1>6, <1>7 DEF ClausesMade
<1>9. PICK other : other = IF ls[1] = lit THEN ls[2] ELSE ls[1]
  OBVIOUS
<1>10. PICK l1 \in Lits, l2 \in Lits : l1 = ls[1] /\ l2 = ls[2] /\ l1 # l2
  <2>1. 1 \in 1 .. Len(ls) /\ 2 \in 1 .. Len(ls)
    BY <1>8
  <2> QED BY <1>8, <2>1 DEF Distinct
<1>11. lit \in {l1, l2}
  <2>1. Firsts(u, id) = {l1, l2}
    BY <1>6, <1>7, <1>10 DEF Firsts
  <2> QED BY <1>5, <2>1
<1>12. (other = l2 /\ lit = l1) \/ (other = l1 /\ lit = l2)
  BY <1>9, <1>10, <1>11
<1>13. other \in Lits /\ Places(ls, lit, other) /\ other \in ToSet(ls)
  <2>1. other \in Lits
    BY <1>12
  <2>2. 1 \in 1 .. 2 /\ 2 \in 1 .. 2 /\ 1 # 2 /\ 1 \in 1 .. Len(ls) /\ 2 \in 1 .. Len(ls)
    BY <1>8
  <2>3. Places(ls, lit, other)
    BY <1>10, <1>12, <2>2 DEF Places
  <2>4. other \in ToSet(ls)
    BY <1>10, <1>12, <2>2, SetOfSeq
  <2> QED BY <2>1, <2>3, <2>4
<1>14. PICK i : i = Replacement(cl, u)
  OBVIOUS
<1>15. /\ i = 0 \/ (i \in 3 .. Len(ls) /\ ~IsFalseLit(u, ls[i]))
       /\ i = 0 => \A j \in 3 .. Len(ls) : IsFalseLit(u, ls[j])
  BY <1>7, <1>14, ReplacementIs
<1>16. PICK c0 \in Lits : c0 = e.cached
  BY DEF Watch
<1>17. VisitWatch(r, e, lit) =
         IF u.conflict \/ IsTrueLit(u, c0) THEN [s |-> u, kept |-> Append(r.kept, [e EXCEPT !.cached = c0])]
         ELSE IF IsTrueLit(u, other) THEN [s |-> u, kept |-> Append(r.kept, [e EXCEPT !.cached = other])]
         ELSE IF i = 0 THEN
           [s |-> IF IsUndefLit(u, other) THEN SetTrue(u, other, <<"clause", id>>)
                                          ELSE Clash(u, <<"clause", id>>),
            kept |-> Append(r.kept, [e EXCEPT !.cached = c0])]
         ELSE IF IsTrueLit(u, ls[i]) THEN
           [s |-> [u EXCEPT !.clauses[id].idx = i], kept |-> Append(r.kept, [e EXCEPT !.cached = ls[i]])]
         ELSE [r EXCEPT !.s = Rewatched(u, e, i, lit, other)]
  BY <1>1, <1>3, <1>6, <1>7, <1>9, <1>14, <1>16, Zenon DEF VisitWatch
<1>18. ASSUME NEW x \in Lits
       PROVE  WatchVisit(db, [s |-> u, kept |-> Append(r.kept, [e EXCEPT !.cached = x])], s, lit, q, n)
  <2>1. PICK z \in Watch : z = [e EXCEPT !.cached = x] /\ z.id = q[n].id
    BY <1>2, CachedFacts
  <2>2. WatchVisit(db, [s |-> u, kept |-> Append(r.kept, z)], s, lit, q, n)
    BY <1>1, <1>4, <2>1, WatchRests
  <2> QED BY <2>1, <2>2
<1>19. CASE u.conflict \/ IsTrueLit(u, c0)
  BY <1>2, <1>17, <1>18, <1>19, Zenon
<1>20. CASE ~(u.conflict \/ IsTrueLit(u, c0)) /\ IsTrueLit(u, other)
  BY <1>2, <1>13, <1>17, <1>18, <1>20, Zenon
<1>21. CASE ~(u.conflict \/ IsTrueLit(u, c0)) /\ ~IsTrueLit(u, other) /\ i = 0
  <2>1. PICK t : t = IF IsUndefLit(u, other) THEN SetTrue(u, other, <<"clause", id>>)
                                             ELSE Clash(u, <<"clause", id>>)
    OBVIOUS
  <2>2. \A l \in ToSet(ls) \ {other} : -l \in TrueLits(u)
    <3>1. -lit \in TrueLits(u)
      BY <1>4, ExtendsLits DEF Reaches
    <3>2. \A j \in 1 .. Len(ls) : ls[j] # other => -ls[j] \in TrueLits(u)
      <4> SUFFICES ASSUME NEW j \in 1 .. Len(ls), ls[j] # other PROVE -ls[j] \in TrueLits(u)
        OBVIOUS
      <4>1. CASE j \in 3 .. Len(ls)
        BY <1>15, <1>21, <4>1 DEF IsFalseLit
      <4>2. CASE j \notin 3 .. Len(ls)
        <5>1. j = 1 \/ j = 2
          BY <1>8, <4>2
        <5>2. ls[j] = lit
          BY <1>10, <1>12, <5>1
        <5> QED BY <3>1, <5>2
      <4> QED BY <4>1, <4>2
    <3> QED BY <3>2, SetOfSeq
  <2>3. PICK z \in Watch : z = [e EXCEPT !.cached = c0] /\ z.id = q[n].id
    BY <1>2, CachedFacts
  <2>4. /\ ~u.conflict /\ ~IsTrueLit(u, other) /\ id = q[n].id /\ other \in ToSet(u.clauses[id].lits)
        /\ \A l \in ToSet(u.clauses[id].lits) \ {other} : -l \in TrueLits(u)
    BY <1>2, <1>3, <1>6, <1>7, <1>13, <1>21, <2>2
  <2>5. WatchVisit(db, [s |-> t, kept |-> Append(r.kept, z)], s, lit, q, n)
    BY <1>1, <2>1, <2>3, <2>4, WatchPushes
  <2> QED BY <1>2, <1>17, <1>21, <2>1, <2>3, <2>5, Zenon
<1>22. CASE ~(u.conflict \/ IsTrueLit(u, c0)) /\ ~IsTrueLit(u, other) /\ i # 0 /\ IsTrueLit(u, ls[i])
  <2>1. PICK t : t = [u EXCEPT !.clauses[id].idx = i]
    OBVIOUS
  <2>2. i \in 3 .. Len(ls) /\ i \in Nat /\ ls[i] \in Lits
    BY <1>15, <1>22
  <2>3. /\ t \in States(db) /\ t.trail = u.trail /\ t.next = u.next /\ t.sums = u.sums
        /\ t.conflict = u.conflict /\ t.culprit = u.culprit /\ t.heap = u.heap
        /\ t.watches = u.watches /\ t.bins = u.bins /\ Len(t.clauses) = Len(u.clauses)
        /\ \A j \in 1 .. Len(u.clauses) : t.clauses[j].lits = u.clauses[j].lits
    <3>1. u \in States(db) /\ id \in 1 .. Len(u.clauses) /\ i \in Nat
      BY <1>4, <1>5, <2>2
    <3> QED BY <2>1, <3>1, CursorFacts
  <2>4. PICK z \in Watch : z = [e EXCEPT !.cached = ls[i]] /\ z.id = q[n].id
    BY <1>2, <2>2, CachedFacts
  <2>5. WatchVisit(db, [s |-> t, kept |-> Append(r.kept, z)], s, lit, q, n)
    BY <1>1, <2>3, <2>4, WatchRests
  <2> QED BY <1>2, <1>17, <1>22, <2>1, <2>4, <2>5, Zenon
<1>23. CASE ~(u.conflict \/ IsTrueLit(u, c0)) /\ ~IsTrueLit(u, other) /\ i # 0 /\ ~IsTrueLit(u, ls[i])
  <2>1. i \in 3 .. Len(cl.lits) /\ Places(cl.lits, lit, other) /\ cl = r.s.clauses[e.id]
    BY <1>1, <1>3, <1>6, <1>7, <1>13, <1>15, <1>23
  <2>2. WatchVisit(db, [r EXCEPT !.s = Rewatched(r.s, e, i, lit, other)], s, lit, q, n)
    BY <1>2, <2>1, WatchMoves
  <2> QED BY <1>1, <1>2, <1>17, <1>23, <2>2, Zenon
<1> QED BY <1>19, <1>20, <1>21, <1>22, <1>23

(* The long clauses are gone through. *)
LEMMA VisitClausesRight ==
  ASSUME NEW db \in Databases, NEW s \in States(db), Orderly(s), WellMade(s), ~s.conflict,
         NEW lit \in Lits, -lit \in TrueLits(s)
  PROVE  LET r == VisitClauses(s, lit) IN
           Reaches(db, r, s) /\ r.next = s.next /\ r.sums = s.sums /\ WellMade(r)
<1>0. ClausesMade(s) /\ BinsMade(s) /\ \A l \in Lits : Watched(s, l, s.watches[l])
  BY DEF WellMade
<1>1. PICK q \in Seq(Watch) : q = s.watches[lit]
  BY ClauseFacts DEF States
<1>2. Watched(s, lit, q) /\ Len(q) \in Nat
  BY <1>0, <1>1
<1>3. PICK h \in [0 .. Len(q) -> LongClauses(db, s)] :
         /\ h[0] = [s |-> s, kept |-> <<>>]
         /\ \A i \in 1 .. Len(q) : h[i] = VisitWatch(h[i - 1], q[i], lit)
         /\ VisitClauses(s, lit) = ListKept(h[Len(q)], lit)
  <2>1. \E h \in [0 .. Len(s.watches[lit]) -> LongClauses(db, s)] :
          /\ h[0] = [s |-> s, kept |-> <<>>]
          /\ \A i \in 1 .. Len(s.watches[lit]) : h[i] = VisitWatch(h[i - 1], s.watches[lit][i], lit)
          /\ VisitClauses(s, lit) = ListKept(h[Len(s.watches[lit])], lit)
    BY <1>0, VisitClausesSteps
  <2> QED BY <1>1, <2>1, Zenon
<1>4. WatchVisit(db, h[0], s, lit, q, 0)
  <2>1. h[0].s = s /\ h[0].kept = <<>> /\ h[0] \in [s : States(db), kept : Seq(Watch)]
    BY <1>3
  <2>2. Reaches(db, s, s)
    BY <1>0, ReachesSelf
  <2>3. Watched(s, lit, <<>>)
    BY DEF Watched
  <2>4. \A j \in 1 .. Len(q) : lit \in Firsts(s, q[j].id)
    BY <1>2 DEF Watched
  <2> QED BY <1>0, <2>1, <2>2, <2>3, <2>4 DEF WatchVisit
<1>5. \A i \in 1 .. Len(q) : WatchVisit(db, h[i - 1], s, lit, q, i - 1) => WatchVisit(db, h[i], s, lit, q, i)
  BY <1>2, <1>3, WatchStep
<1>6. \A i \in 0 .. Len(q) : WatchVisit(db, h[i], s, lit, q, i)
  <2> DEFINE P(i) == i \in 0 .. Len(q) => WatchVisit(db, h[i], s, lit, q, i)
  <2>1. P(0)
    BY <1>4
  <2>2. \A i \in Nat : P(i) => P(i + 1)
    <3> SUFFICES ASSUME NEW i \in Nat, P(i), i + 1 \in 0 .. Len(q) PROVE WatchVisit(db, h[i + 1], s, lit, q, i + 1)
      OBVIOUS
    <3>1. i \in 0 .. Len(q) /\ i + 1 \in 1 .. Len(q) /\ i + 1 - 1 = i
      BY <1>2
    <3> QED BY <1>5, <3>1
  <2> HIDE DEF P
  <2>3. \A i \in Nat : P(i)
    BY <2>1, <2>2, NatInduction
  <2> QED BY <2>3 DEF P
<1>7. PICK z : z = h[Len(q)]
  OBVIOUS
<1>8. WatchVisit(db, z, s, lit, q, Len(q))
  BY <1>2, <1>6, <1>7
<1>9. PICK u : u = z.s
  OBVIOUS
<1>10. PICK r : r = ListKept(z, lit)
  OBVIOUS
<1>11. /\ u \in States(db) /\ u \in State /\ Reaches(db, u, s) /\ u.next = s.next /\ u.sums = s.sums
       /\ z.kept \in Seq(Watch) /\ Watched(u, lit, z.kept)
       /\ \A l \in Lits \ {lit} : Watched(u, l, u.watches[l])
       /\ ClausesMade(u) /\ BinsMade(u)
  BY <1>8, <1>9 DEF WatchVisit, Reaches, States
<1>12. /\ r \in State /\ r.trail = u.trail /\ r.next = u.next /\ r.sums = u.sums /\ r.from = u.from
       /\ r.conflict = u.conflict /\ r.culprit = u.culprit /\ r.heap = u.heap /\ r.bins = u.bins
       /\ r.clauses = u.clauses /\ r.watches = [u.watches EXCEPT ![lit] = z.kept]
  <2>1. PICK k \in Seq(Watch) : k = z.kept
    BY <1>11
  <2>2. PICK ws : ws = [u.watches EXCEPT ![lit] = k]
    OBVIOUS
  <2>3. ws \in [Lits -> Seq(Watch)]
    BY <1>11, <2>1, <2>2, ClauseFacts
  <2>4. r = [u EXCEPT !.watches = ws]
    BY <1>9, <1>10, <2>1, <2>2 DEF ListKept
  <2> QED BY <1>11, <2>1, <2>2, <2>3, <2>4 DEF State
<1>13. r \in States(db) /\ Resembles(db, r, u)
  <2>1. r \in States(db)
    BY <1>11, <1>12 DEF States
  <2> QED BY <1>11, <1>12, <2>1, ResemblesIf
<1>14. r.conflict => Falsifies(db, r)
  <2>1. u.conflict => Falsifies(db, u)
    BY <1>11 DEF Reaches
  <2>2. TrueLits(r) = TrueLits(u) /\ Retains(r, u)
    BY <1>12, <1>13 DEF TrueLits, Resembles, SameClauses
  <2> QED BY <1>11, <1>12, <2>1, <2>2, FalsifiesKept
<1>15. Reaches(db, r, s)
  BY <1>11, <1>12, <1>13, <1>14, ReachesSame
<1>16. ClausesMade(r) /\ BinsMade(r)
  BY <1>11, <1>12 DEF ClausesMade, BinsMade
<1>17. ASSUME NEW l \in Lits PROVE Watched(r, l, r.watches[l])
  <2>1. u.watches \in [Lits -> Seq(Watch)]
    BY <1>11, ClauseFacts
  <2>2. r.watches[l] = IF l = lit THEN z.kept ELSE u.watches[l]
    BY <1>12, <2>1
  <2>3. Watched(u, l, r.watches[l])
    BY <1>11, <2>2
  <2> QED BY <1>12, <2>3 DEF Watched, Firsts
<1>18. WellMade(r)
  BY <1>16, <1>17 DEF WellMade
<1> QED BY <1>3, <1>7, <1>10, <1>11, <1>12, <1>15, <1>18

(* r on the way to q, which makes no conflict and touches no counter. *)
Pushing(db, q, r, s) ==
  /\ Reaches(db, q, s) /\ Extends(q, r) /\ q.next = r.next /\ q.sums = r.sums
  /\ q.watches = r.watches /\ q.clauses = r.clauses /\ ~q.conflict

LEMMA PastFacts ==
  ASSUME NEW db, NEW r \in States(db), NEW id \in 1 .. Len(db), NEW n \in Nat, Len(db) \in Nat,
         NEW p, p = [r EXCEPT !.from[id] = n]
  PROVE  /\ p \in States(db) /\ p.trail = r.trail /\ p.next = r.next /\ p.sums = r.sums
         /\ p.conflict = r.conflict /\ p.culprit = r.culprit /\ p.heap = r.heap
         /\ p.watches = r.watches /\ p.bins = r.bins /\ p.clauses = r.clauses
<1>1. r \in State /\ r.from \in Seq(Nat) /\ Len(r.from) = Len(db)
  BY StateFacts DEF States
<1>2. PICK f : f = [r.from EXCEPT ![id] = n]
  OBVIOUS
<1>3. f \in Seq(Nat) /\ Len(f) = Len(db)
  BY <1>1, <1>2, ExceptAny
<1>4. p = [r EXCEPT !.from = f]
  BY <1>2
<1>5. p \in State /\ p.from = f /\ p.trail = r.trail /\ p.next = r.next /\ p.sums = r.sums
      /\ p.conflict = r.conflict /\ p.culprit = r.culprit /\ p.heap = r.heap
      /\ p.watches = r.watches /\ p.bins = r.bins /\ p.clauses = r.clauses
  BY <1>1, <1>3, <1>4 DEF State
<1>6. p \in States(db)
  BY <1>3, <1>5 DEF States
<1> QED BY <1>5, <1>6

LEMMA NotTrueOf ==
  ASSUME NEW r \in State, Orderly(r)
  PROVE  /\ \A l \in Discounted(r) : -l \in Lits => -l \in TrueLits(r)
         /\ Discounted(r) \subseteq Lits
BY DiscountedFacts DEF Orderly

LEMMA TakeTermReaches ==
  ASSUME NEW db \in Databases, NEW s \in States(db), NEW r, Reaches(db, r, s), ~r.conflict,
         NEW id \in 1 .. Len(db), NEW i \in 1 .. Len(db[id].lhs)
  PROVE  Pushing(db, TakeTerm(db[id], r, id, Remaining(db, r, id), i), r, s)
<1>1. r \in State /\ r \in States(db) /\ Orderly(r) /\ ClausesMade(r) /\ Len(db) \in Nat
  BY DEF Reaches, States, Databases
<1>2. db[id] \in Constraint
  BY DEF Databases
<1>3. PICK t \in Term : t = db[id].lhs[i]
  BY <1>2, ConstraintFacts
<1>4. PICK slack \in Int : slack = Remaining(db, r, id)
  BY RemainingType
<1>5. t.lit \in Lits /\ t.coef \in Nat /\ i \in Nat
  BY <1>2, <1>3, ConstraintFacts DEF Term
<1>6. PICK p : p = [r EXCEPT !.from[id] = i + 1]
  OBVIOUS
<1>7. /\ p \in States(db) /\ p.trail = r.trail /\ p.next = r.next /\ p.sums = r.sums
      /\ p.conflict = r.conflict /\ p.culprit = r.culprit /\ p.heap = r.heap
      /\ p.watches = r.watches /\ p.bins = r.bins /\ p.clauses = r.clauses
  <2>1. PICK n \in Nat : n = i + 1
    BY <1>5
  <2>2. r \in States(db) /\ Len(db) \in Nat /\ p = [r EXCEPT !.from[id] = n]
    BY <1>1, <1>6, <2>1
  <2> QED BY <2>2, PastFacts
<1>8. Extends(r, r)
  BY <1>1, ExtendsSelf
<1>9. Pushing(db, r, r, s)
  BY <1>8 DEF Pushing
<1>10. Pushing(db, p, r, s)
  <2>1. Resembles(db, p, r)
    BY <1>1, <1>7, ResemblesIf
  <2>2. Reaches(db, p, s)
    BY <1>7, <2>1, ReachesSame
  <2>3. Extends(p, r)
    BY <1>7, <1>8 DEF Extends
  <2> QED BY <1>7, <2>2, <2>3 DEF Pushing
<1>11. PICK why : why = <<"PB", id>>
  OBVIOUS
<1>12. PICK q : q = SetTrue(p, t.lit, why)
  OBVIOUS
<1>13. TakeTerm(db[id], r, id, slack, i) =
         IF i # r.from[id] \/ t.coef <= slack THEN r
         ELSE IF IsUndefLit(r, t.lit) THEN q ELSE p
  BY <1>3, <1>6, <1>11, <1>12, Zenon DEF TakeTerm
<1>14. CASE i # r.from[id] \/ t.coef <= slack
  BY <1>4, <1>9, <1>13, <1>14, Zenon
<1>15. CASE ~(i # r.from[id] \/ t.coef <= slack) /\ ~IsUndefLit(r, t.lit)
  BY <1>4, <1>10, <1>13, <1>15, Zenon
<1>16. CASE ~(i # r.from[id] \/ t.coef <= slack) /\ IsUndefLit(r, t.lit)
  <2>1. why \in Reason /\ why[1] = "PB" /\ why[2] = id
    BY <1>11, ReasonPB
  <2>2. /\ q \in States(db) /\ q.trail = Append(p.trail, Assigned(t.lit, Level(p), why))
        /\ q.next = p.next /\ q.heap = p.heap /\ q.sums = p.sums /\ q.watches = p.watches
        /\ q.clauses = p.clauses /\ q.bins = p.bins /\ q.conflict = p.conflict
    BY <1>5, <1>7, <1>12, <2>1, SetTrueIs
  <2>3. q.trail = Append(r.trail, Assigned(t.lit, Level(r), why)) /\ ~q.conflict
    BY <1>7, <2>2 DEF Level
  <2>4. Resembles(db, q, r)
    BY <1>1, <1>7, <2>2, ResemblesIf
  <2>5. -t.lit \notin TrueLits(r)
    BY <1>5, <1>16, LitCases
  <2>6. db[id].lhs[i].coef > Remaining(db, r, id)
    BY <1>3, <1>4, <1>5, <1>16
  <2>7. Forces(Form(db[id]), t.lit, TrueLits(r))
    <3>1. \A l \in Discounted(r) : -l \in Lits => -l \in TrueLits(r)
      BY <1>1, NotTrueOf
    <3>2. Discounted(r) \subseteq Lits
      BY <1>1, NotTrueOf
    <3>3. -db[id].lhs[i].lit \notin TrueLits(r)
      BY <1>3, <2>5
    <3>4. Forces(Form(db[id]), db[id].lhs[i].lit, TrueLits(r))
      BY <2>6, <3>1, <3>2, <3>3, TermForced
    <3> QED BY <1>3, <3>4
  <2>8. Due(db, r, why, t.lit, TrueLits(r))
    BY <2>1, <2>7, PBIs DEF Due, Known
  <2>9. Reaches(db, q, s)
    BY <1>5, <1>16, <2>1, <2>3, <2>4, <2>8, ReachesTrue
  <2>10. Extends(q, r)
    <3>1. Level(r) \in Nat /\ Len(r.trail) \in Nat
      BY <1>1, StateFacts
    <3>2. /\ Len(q.trail) = Len(r.trail) + 1 /\ \A j \in 1 .. Len(r.trail) : q.trail[j] = r.trail[j]
          /\ q.trail[Len(r.trail) + 1] = Assigned(t.lit, Level(r), why)
      BY <1>1, <1>5, <2>1, <2>3, <3>1, AppendEntry
    <3>3. q.trail[Len(r.trail) + 1].dl = Level(r)
      BY <3>2 DEF Assigned
    <3> QED BY <3>1, <3>2, <3>3 DEF Extends
  <2>11. Pushing(db, q, r, s)
    BY <1>7, <2>2, <2>3, <2>9, <2>10 DEF Pushing
  <2> QED BY <1>4, <1>13, <1>16, <2>11, Zenon
<1> QED BY <1>14, <1>15, <1>16

LEMMA PushingTrans ==
  ASSUME NEW db, NEW s, NEW r \in State, NEW q \in State, NEW p, Pushing(db, q, r, s), Pushing(db, p, q, s)
  PROVE  Pushing(db, p, r, s)
<1>1. p \in State
  BY DEF Pushing, Reaches, States
<1>2. Extends(p, r)
  BY <1>1, ExtendsTrans DEF Pushing
<1> QED BY <1>2 DEF Pushing

(* The terms of a constraint are gone through. *)
LEMMA PropagateCtrReaches ==
  ASSUME NEW db \in Databases, NEW s \in States(db), NEW r, Reaches(db, r, s), ~r.conflict,
         NEW id \in 1 .. Len(db)
  PROVE  Pushing(db, PropagateCtr(db[id], r, id, Remaining(db, r, id)), r, s)
<1> DEFINE n == Len(db[id].lhs)
           slack == Remaining(db, r, id)
<1>0. r \in State /\ r \in States(db) /\ Orderly(r)
  BY DEF Reaches, States
<1>1. db[id] \in Constraint
  BY DEF Databases
<1>2. n \in Nat /\ slack \in Int
  BY <1>1, ConstraintFacts DEF Remaining
<1>3. PICK h \in [0 .. n -> States(db)] :
           /\ h[0] = r
           /\ \A i \in 1 .. n : h[i] = TakeTerm(db[id], h[i - 1], id, slack, i)
           /\ PropagateCtr(db[id], r, id, slack) = h[n]
  <2>1. id \in Nat
    BY DEF Databases
  <2>2. \E h : Walk(h, db, db[id], r, id, slack)
    BY <1>0, <1>1, <1>2, <2>1, PropagateCtrSteps
  <2> QED BY <2>2 DEF Walk
<1> DEFINE T == {i \in 0 .. n : Pushing(db, h[i], r, s)}
<1>4. 0 \in T
  <2>1. Pushing(db, r, r, s)
    BY <1>0, ExtendsSelf DEF Pushing
  <2> QED BY <2>1, <1>2, <1>3
<1>5. ASSUME NEW i \in 1 .. n, i - 1 \in T PROVE i \in T
  <2>1. PICK q : q = h[i - 1]
    OBVIOUS
  <2>2. Pushing(db, q, r, s) /\ q \in State
    BY <1>5, <2>1 DEF Pushing, Reaches, States
  <2>3. Remaining(db, q, id) = slack
    <3>1. Discounted(q) = Discounted(r)
      BY <1>0, <2>2, SameDiscounted DEF Pushing, Orderly
    <3> QED BY <3>1 DEF Remaining
  <2>4. Reaches(db, q, s) /\ ~q.conflict
    BY <2>2 DEF Pushing
  <2> HIDE DEF slack
  <2>5. Pushing(db, TakeTerm(db[id], q, id, slack, i), q, s)
    BY <2>3, <2>4, TakeTermReaches
  <2>6. Pushing(db, h[i], r, s)
    <3>1. h[i] = TakeTerm(db[id], q, id, slack, i)
      BY <1>3, <2>1
    <3> QED BY <1>0, <2>2, <2>5, <3>1, PushingTrans
  <2> QED BY <1>2, <2>6
<1>6. n \in T
  <2> HIDE DEF T
  <2>1. Inductive(n, T)
    BY <1>2, <1>4, <1>5 DEF Inductive
  <2> QED BY <2>1, InductionUpTo
<1> QED BY <1>3, <1>6

(* What examining constraint id does: it makes literals due true, or meets the
   conflict of a negative slack. *)
Examining(db, q, r, s, id) ==
  /\ Reaches(db, q, s) /\ Extends(q, r) /\ q.next = r.next /\ q.watches = r.watches
  /\ q.clauses = r.clauses
  /\ ~q.conflict => Remaining(db, r, id) >= 0
  /\ q.conflict => q.culprit = <<"PB", id>>

LEMMA ExamineReaches ==
  ASSUME NEW db \in Databases, NEW s \in States(db), NEW r, Reaches(db, r, s), ~r.conflict,
         NEW id \in 1 .. Len(db)
  PROVE  Examining(db, Examine(db[id], r, id, Remaining(db, r, id) - MaxCoef(db[id])), r, s, id)
<1>1. r \in State /\ r \in States(db) /\ Orderly(r) /\ ClausesMade(r) /\ Len(db) \in Nat
  BY DEF Reaches, States, Databases
<1>2. PICK slack \in Int, mc \in Nat : slack = Remaining(db, r, id) /\ mc = MaxCoef(db[id])
  BY RemainingType
<1>3. PICK sum \in Int : sum = slack - mc
  OBVIOUS
<1>4. sum + mc = slack
  BY <1>3
<1>5. PICK c : c = [r EXCEPT !.sums[id] = sum]
  OBVIOUS
<1>6. /\ c \in States(db) /\ c.trail = r.trail /\ c.next = r.next /\ c.conflict = r.conflict
      /\ c.culprit = r.culprit /\ c.heap = r.heap /\ c.watches = r.watches
      /\ c.bins = r.bins /\ c.clauses = r.clauses
  <2>1. r.sums \in Seq(Int) /\ Len(r.sums) = Len(db)
    BY <1>1, StateFacts DEF States
  <2>2. PICK f : f = [r.sums EXCEPT ![id] = sum]
    OBVIOUS
  <2>3. f \in Seq(Int) /\ Len(f) = Len(db)
    BY <2>1, <2>2, ExceptSeq
  <2>4. c = [r EXCEPT !.sums = f]
    BY <1>5, <2>2
  <2>5. c \in State /\ c.sums = f /\ c.from = r.from /\ c.trail = r.trail /\ c.next = r.next
        /\ c.conflict = r.conflict
        /\ c.culprit = r.culprit /\ c.heap = r.heap /\ c.watches = r.watches
        /\ c.bins = r.bins /\ c.clauses = r.clauses
    BY <1>1, <2>3, <2>4 DEF State
  <2> QED BY <1>1, <2>3, <2>5 DEF States
<1>7. Reaches(db, c, s) /\ Extends(c, r) /\ Discounted(c) = Discounted(r) /\ TrueLits(c) = TrueLits(r)
  <2>1. Resembles(db, c, r)
    BY <1>1, <1>6, ResemblesIf
  <2>2. Reaches(db, c, s)
    BY <1>6, <2>1, ReachesSame
  <2>3. Extends(c, r)
    BY <1>1, <1>6, ExtendsSelf DEF Extends
  <2> QED BY <1>6, <2>2, <2>3 DEF Discounted, TrueLits
<1>8. Remaining(db, c, id) = slack
  BY <1>2, <1>7 DEF Remaining
<1>9. PICK why : why = <<"PB", id>>
  OBVIOUS
<1>10. PICK q1, q2 : q1 = Clash(c, why) /\ q2 = PropagateCtr(db[id], c, id, slack)
  OBVIOUS
<1>11. Examine(db[id], r, id, sum) = IF sum >= 0 THEN c ELSE IF slack < 0 THEN q1 ELSE q2
  BY <1>2, <1>4, <1>5, <1>9, <1>10, Zenon DEF Examine
<1>12. CASE sum >= 0
  <2>1. slack >= 0
    BY <1>4, <1>12
  <2>2. Examining(db, c, r, s, id)
    BY <1>2, <1>6, <1>7, <2>1 DEF Examining
  <2> QED BY <1>2, <1>3, <1>11, <1>12, <2>2, Zenon
<1>13. CASE ~(sum >= 0) /\ slack < 0
  <2>1. why \in Culprit /\ why[1] = "PB" /\ why[2] = id
    BY <1>9, ReasonPB
  <2>2. /\ q1 \in States(db) /\ q1.trail = c.trail /\ q1.culprit = why
        /\ q1.next = c.next /\ q1.heap = c.heap /\ q1.watches = c.watches
        /\ q1.clauses = c.clauses /\ q1.bins = c.bins /\ q1.conflict
    BY <1>6, <1>10, <2>1, ClashFacts
  <2>3. Resembles(db, q1, c)
    BY <1>1, <1>6, <2>2, ResemblesIf DEF ClausesMade
  <2>4. Falsified(db, q1) = Form(db[id])
    BY <2>1, <2>2, PBIs DEF Falsified
  <2>5. Fails(Form(db[id]), TrueLits(q1))
    <3>1. TrueLits(q1) = TrueLits(r)
      BY <1>6, <2>2 DEF TrueLits
    <3>2. /\ Form(db[id]) \in Forms /\ SlackUnder(Form(db[id]), TrueLits(r)) <= Remaining(db, r, id)
      <4>1. \A l \in Discounted(r) : -l \in Lits => -l \in TrueLits(r)
        BY <1>1, NotTrueOf
      <4>2. Discounted(r) \subseteq Lits
        BY <1>1, NotTrueOf
      <4> QED BY <4>1, <4>2, SlackRemaining
    <3>3. SlackUnder(Form(db[id]), TrueLits(r)) \in Int
      BY <3>2, SlackType
    <3>4. SlackUnder(Form(db[id]), TrueLits(r)) < 0
      BY <1>2, <1>13, <3>2, <3>3
    <3> QED BY <3>1, <3>2, <3>4 DEF Fails
  <2>6. Falsifies(db, q1)
    BY <2>1, <2>2, <2>4, <2>5 DEF Falsifies, Known
  <2>7. Reaches(db, q1, s)
    BY <1>7, <2>2, <2>3, <2>6, ReachesSame
  <2>8. Extends(q1, r)
    BY <1>7, <2>2 DEF Extends
  <2>9. Examining(db, q1, r, s, id)
    BY <1>6, <1>9, <2>2, <2>7, <2>8 DEF Examining
  <2> QED BY <1>2, <1>3, <1>11, <1>13, <2>9, Zenon
<1>14. CASE ~(sum >= 0) /\ ~(slack < 0)
  <2>1. Pushing(db, q2, c, s)
    BY <1>6, <1>7, <1>8, <1>10, PropagateCtrReaches
  <2>2. c \in State /\ q2 \in State
    BY <1>6, <2>1 DEF Pushing, Reaches, States
  <2>3. Extends(q2, r)
    BY <1>1, <1>7, <2>1, <2>2, ExtendsTrans DEF Pushing
  <2>4. Remaining(db, r, id) >= 0
    BY <1>2, <1>14
  <2>5. Examining(db, q2, r, s, id)
    BY <1>6, <2>1, <2>3, <2>4 DEF Examining, Pushing
  <2> QED BY <1>2, <1>3, <1>11, <1>14, <2>5, Zenon
<1> QED BY <1>12, <1>13, <1>14

(* After the first n constraints. *)
Sifted(db, q, s, lit, n) ==
  /\ Reaches(db, q, s) /\ q.next = s.next /\ q.watches = s.watches /\ q.clauses = s.clauses
  /\ ~q.conflict => \A j \in 1 .. n : lit \in LitsOf(db[j]) => Remaining(db, s, j) >= 0

LEMMA DiscountSifts ==
  ASSUME NEW db \in Databases, NEW s \in States(db), NEW lit, Stale(db, s, lit), Orderly(s),
         NEW id \in 1 .. Len(db), NEW r, Visited(db, r, s, id - 1), Sifted(db, r, s, lit, id - 1)
  PROVE  Sifted(db, Discount(db, r, lit, id), s, lit, id)
<1>1. s \in State /\ r \in State /\ r \in States(db) /\ Len(db) \in Nat /\ id \in Nat
  BY StateFacts DEF States, Databases, Visited
<1>2. Discounted(r) = Discounted(s)
  BY <1>1, SameDiscounted DEF Visited, Orderly
<1>3. \A i \in 1 .. Len(db) : Remaining(db, r, i) = Remaining(db, s, i)
  BY <1>2 DEF Remaining
<1>4. \A j \in 1 .. id : j = id \/ j \in 1 .. id - 1
  BY <1>1
<1>5. CASE r.conflict
  <2>1. Discount(db, r, lit, id) = r
    BY <1>5 DEF Discount
  <2> QED BY <1>5, <2>1 DEF Sifted
<1>6. CASE ~r.conflict /\ lit \notin LitsOf(db[id])
  <2>1. Discount(db, r, lit, id) = r
    BY <1>6 DEF Discount
  <2> QED BY <1>4, <1>6, <2>1 DEF Sifted
<1>7. CASE ~r.conflict /\ lit \in LitsOf(db[id])
  <2>1. PICK rem \in Int, mc \in Nat, co \in Nat :
          rem = Remaining(db, r, id) /\ mc = MaxCoef(db[id]) /\ co = Coef(db[id], lit)
    <3>1. db[id] \in Constraint
      BY DEF Databases
    <3>2. Coef(db[id], lit) \in Nat
      BY <1>7, <3>1, ConstraintFacts
    <3> QED BY <3>2, RemainingType
  <2>2. r.sums[id] = rem - mc + co
    <3>1. r.sums[id] = s.sums[id]
      BY <1>1, <1>7 DEF Visited
    <3>2. s.sums[id] = Remaining(db, s, id) - MaxCoef(db[id]) + Coef(db[id], lit)
      BY <1>7 DEF Stale
    <3> QED BY <1>3, <2>1, <3>1, <3>2
  <2>3. r.sums[id] - Coef(db[id], lit) = Remaining(db, r, id) - MaxCoef(db[id])
    BY <2>1, <2>2
  <2>4. PICK q : q = Discount(db, r, lit, id)
    OBVIOUS
  <2>5. q = Examine(db[id], r, id, Remaining(db, r, id) - MaxCoef(db[id]))
    BY <1>7, <2>3, <2>4 DEF Discount
  <2>6. Examining(db, q, r, s, id)
    BY <1>7, <2>5, ExamineReaches DEF Sifted
  <2>7. ~q.conflict => \A j \in 1 .. id : lit \in LitsOf(db[j]) => Remaining(db, s, j) >= 0
    BY <1>3, <1>4, <1>7, <2>6 DEF Examining, Sifted
  <2> QED BY <2>4, <2>6, <2>7 DEF Examining, Sifted
<1> QED BY <1>5, <1>6, <1>7

LEMMA VisitListsSifts ==
  ASSUME NEW db \in Databases, NEW s0 \in States(db), NEW s, Reaches(db, s, s0), ~s.conflict,
         NEW lit, Stale(db, s, lit)
  PROVE  Sifted(db, VisitLists(db, s, lit), s, lit, Len(db)) /\ Visited(db, VisitLists(db, s, lit), s, Len(db))
<1> DEFINE n == Len(db)
<1>0. s \in States(db) /\ s \in State /\ Orderly(s) /\ ClausesMade(s) /\ BinsMade(s)
  BY DEF Reaches, States
<1>1. n \in Nat
  BY DEF Databases
<1>2. PICK h \in [0 .. n -> States(db)] :
           /\ h[0] = s
           /\ \A i \in 1 .. n : h[i] = Discount(db, h[i - 1], lit, i)
           /\ VisitLists(db, s, lit) = h[n]
  BY <1>0, VisitListsSteps
<1> DEFINE T == {i \in 0 .. n : Visited(db, h[i], s, i) /\ Sifted(db, h[i], s, lit, i)}
<1>3. 0 \in T
  <2>1. Visited(db, s, s, 0)
    BY <1>0, ExtendsSelf DEF Visited, Sound, CountersUpTo
  <2>2. Sifted(db, s, s, lit, 0)
    <3>1. Reaches(db, s, s)
      BY <1>0, ReachesSelf
    <3>2. \A j \in 1 .. 0 : FALSE
      OBVIOUS
    <3> QED BY <3>1, <3>2 DEF Sifted
  <2> QED BY <2>1, <2>2, <1>1, <1>2
<1>4. ASSUME NEW i \in 1 .. n, i - 1 \in T PROVE i \in T
  <2>1. h[i - 1] \in States(db) /\ Visited(db, h[i - 1], s, i - 1) /\ Sifted(db, h[i - 1], s, lit, i - 1)
    BY <1>4
  <2>2. Visited(db, Discount(db, h[i - 1], lit, i), s, i)
    BY <1>0, <2>1, DiscountVisits
  <2>3. Sifted(db, Discount(db, h[i - 1], lit, i), s, lit, i)
    BY <1>0, <2>1, DiscountSifts
  <2> QED BY <2>2, <2>3, <1>1, <1>2
<1>5. n \in T
  <2> HIDE DEF T
  <2>1. Inductive(n, T)
    BY <1>1, <1>3, <1>4 DEF Inductive
  <2> QED BY <2>1, InductionUpTo
<1> QED BY <1>2, <1>5

(* Where the trail, the heap, the clauses and the conflict are the same. *)
Alike(q, r) ==
  /\ q.trail = r.trail /\ q.heap = r.heap /\ q.clauses = r.clauses /\ q.bins = r.bins
  /\ q.conflict = r.conflict /\ q.culprit = r.culprit

LEMMA ReachesAlike ==
  ASSUME NEW db \in Databases, NEW s \in States(db), NEW t \in States(db), Alike(t, s),
         NEW r, Reaches(db, r, t), NEW q \in States(db), Alike(q, r), q.next <= Len(q.trail)
  PROVE  Reaches(db, q, s)
<1>1. s \in State /\ r \in State /\ q \in State /\ t \in State
  BY DEF States, Reaches
<1>2. Orderly(q)
  BY DEF Reaches, Orderly, Alike
<1>3. Extends(q, s)
  BY DEF Reaches, Extends, Alike, Level
<1>4. SameClauses(q, r) /\ SameClauses(t, s) /\ SameClauses(r, t)
  BY <1>1, SameClausesIf DEF Alike, Reaches
<1>5. SameClauses(q, s) /\ ClausesMade(q) /\ BinsMade(q)
  <2>1. SameClauses(r, s)
    BY <1>1, <1>4, SameClausesTrans
  <2>2. SameClauses(q, s)
    BY <1>1, <1>4, <2>1, SameClausesTrans
  <2> QED BY <2>2 DEF Reaches, Alike, ClausesMade, BinsMade
<1>6. Retains(q, r)
  BY <1>4 DEF SameClauses
<1>7. \A i \in Len(s.trail) + 1 .. Len(q.trail) :
        Due(db, q, q.trail[i].reason, q.trail[i].lit, Before(q.trail, i))
  <2> SUFFICES ASSUME NEW i \in Len(s.trail) + 1 .. Len(q.trail)
               PROVE  Due(db, q, q.trail[i].reason, q.trail[i].lit, Before(q.trail, i))
    OBVIOUS
  <2>1. Due(db, r, r.trail[i].reason, r.trail[i].lit, Before(r.trail, i))
    BY DEF Reaches, Alike
  <2>2. q.trail = r.trail
    BY DEF Alike
  <2> QED BY <1>1, <1>6, <2>1, <2>2, ProlongsSelf, DueKept
<1>8. q.conflict => Falsifies(db, q)
  <2>1. r.conflict => Falsifies(db, r)
    BY DEF Reaches
  <2>2. TrueLits(q) = TrueLits(r)
    BY DEF Alike, TrueLits
  <2> QED BY <1>1, <1>6, <2>1, <2>2, FalsifiesKept DEF Alike
<1>9. q.heap = s.heap
  BY DEF Reaches, Alike
<1> QED BY <1>2, <1>3, <1>5, <1>7, <1>8, <1>9 DEF Reaches

(* The watches are right where they and the clauses have not changed. *)
LEMMA SameWatches ==
  ASSUME NEW s, WellMade(s), NEW r, ClausesMade(r), BinsMade(r),
         r.clauses = s.clauses, r.watches = s.watches
  PROVE  WellMade(r)
<1>1. \A l \in Lits : Watched(r, l, r.watches[l])
  BY DEF WellMade, Watched, Firsts
<1> QED BY <1>1 DEF WellMade

(* One literal is seen to in every list. *)
SeenTo(db, r, s, lit) ==
  /\ Reaches(db, r, s) /\ r.next = s.next /\ WellMade(r)
  /\ r.conflict => r.sums = s.sums
  /\ ~r.conflict => /\ CountersUpTo(db, r, Len(db))
                    /\ \A j \in 1 .. Len(db) : lit \in LitsOf(db[j]) => Remaining(db, r, j) >= 0

LEMMA VisitRight ==
  ASSUME NEW db \in Databases, NEW s \in States(db), Orderly(s), WellMade(s), ~s.conflict,
         NEW lit, Stale(db, s, lit)
  PROVE  SeenTo(db, Visit(db, s, lit), s, lit)
<1>1. s \in State /\ ClausesMade(s) /\ BinsMade(s) /\ Len(db) \in Nat
  BY DEF States, WellMade, Databases
<1>2. Reaches(db, s, s)
  BY <1>1, ReachesSelf
<1>3. PICK c : c = VisitLists(db, s, lit)
  OBVIOUS
<1>4. Sifted(db, c, s, lit, Len(db)) /\ Visited(db, c, s, Len(db))
  BY <1>2, <1>3, VisitListsSifts
<1>5. Reaches(db, c, s) /\ c.next = s.next /\ c.watches = s.watches /\ c.clauses = s.clauses
  BY <1>4 DEF Sifted
<1>6. c \in States(db) /\ c \in State /\ Orderly(c) /\ ClausesMade(c) /\ BinsMade(c) /\ Extends(c, s)
  BY <1>5 DEF Reaches, States
<1>7. WellMade(c)
  BY <1>5, <1>6, SameWatches
<1>8. CASE c.conflict
  <2>1. PICK v : v = [c EXCEPT !.sums = s.sums]
    OBVIOUS
  <2>2. Visit(db, s, lit) = v
    BY <1>3, <1>8, <2>1 DEF Visit, RestoreCounters
  <2>3. /\ v \in States(db) /\ v.trail = c.trail /\ v.next = c.next /\ v.sums = s.sums
        /\ v.conflict = c.conflict /\ v.culprit = c.culprit /\ v.heap = c.heap
        /\ v.watches = c.watches /\ v.bins = c.bins /\ v.clauses = c.clauses
    BY <1>1, <1>6, <2>1 DEF States, State
  <2>4. Reaches(db, v, s)
    <3>1. Alike(s, s) /\ Alike(v, c)
      BY <2>3 DEF Alike
    <3>2. v.next <= Len(v.trail)
      BY <1>6, <2>3 DEF Orderly
    <3> QED BY <1>5, <2>3, <3>1, <3>2, ReachesAlike
  <2>5. WellMade(v)
    BY <1>7, <2>3, <2>4, SameWatches DEF Reaches
  <2> QED BY <1>5, <1>8, <2>2, <2>3, <2>4, <2>5 DEF SeenTo
<1>9. CASE ~c.conflict
  <2>1. Visit(db, s, lit) = c
    BY <1>3, <1>9 DEF Visit, RestoreCounters
  <2>2. Discounted(c) = Discounted(s)
    BY <1>1, <1>5, <1>6, SameDiscounted DEF Orderly
  <2>3. \A j \in 1 .. Len(db) : lit \in LitsOf(db[j]) => Remaining(db, c, j) >= 0
    BY <1>4, <1>9, <2>2 DEF Sifted, Remaining
  <2> QED BY <1>4, <1>5, <1>7, <1>9, <2>1, <2>3 DEF SeenTo, Visited
<1> QED BY <1>8, <1>9

LEMMA VisitAllRight ==
  ASSUME NEW db \in Databases, NEW s \in States(db), Orderly(s), WellMade(s), ~s.conflict,
         NEW lit, Stale(db, s, lit)
  PROVE  SeenTo(db, VisitAll(db, s, lit), s, lit)
<1>1. s \in State /\ ClausesMade(s) /\ BinsMade(s) /\ Len(db) \in Nat
  BY DEF States, WellMade, Databases
<1>2. lit \in Lits /\ -lit \in TrueLits(s)
  BY <1>1, DiscountedFacts DEF Stale, Orderly
<1>3. PICK a : a = VisitBins(s, lit)
  OBVIOUS
<1>4. Visiting(db, a, s)
  BY <1>1, <1>2, <1>3, VisitBinsRight
<1>5. /\ Reaches(db, a, s) /\ a.next = s.next /\ a.sums = s.sums /\ WellMade(a) /\ a \in States(db)
      /\ Orderly(a) /\ Extends(a, s) /\ a \in State
  BY <1>4, SameWatches DEF Visiting, Reaches, States
<1>6. CASE a.conflict
  <2>1. VisitAll(db, s, lit) = a
    BY <1>3, <1>6 DEF VisitAll
  <2> QED BY <1>5, <1>6, <2>1 DEF SeenTo
<1>7. CASE ~a.conflict
  <2>1. PICK b : b = VisitClauses(a, lit)
    OBVIOUS
  <2>2. -lit \in TrueLits(a)
    BY <1>1, <1>2, <1>5, ExtendsLits
  <2>3. Reaches(db, b, a) /\ b.next = a.next /\ b.sums = a.sums /\ WellMade(b)
    BY <1>2, <1>5, <1>7, <2>1, <2>2, VisitClausesRight
  <2>4. Reaches(db, b, s)
    BY <1>5, <2>3, ReachesTrans
  <2>5. b \in States(db) /\ b \in State /\ Orderly(b) /\ Extends(b, s)
    BY <2>4 DEF Reaches, States
  <2>6. CASE b.conflict
    <3>1. VisitAll(db, s, lit) = b
      BY <1>3, <1>7, <2>1, <2>6 DEF VisitAll
    <3> QED BY <1>5, <2>3, <2>4, <2>6, <3>1 DEF SeenTo
  <2>7. CASE ~b.conflict
    <3>1. VisitAll(db, s, lit) = Visit(db, b, lit)
      BY <1>3, <1>7, <2>1, <2>7 DEF VisitAll
    <3>2. Discounted(b) = Discounted(s)
      BY <1>1, <1>5, <2>3, <2>5, SameDiscounted DEF Orderly
    <3>3. Stale(db, b, lit)
      BY <1>5, <2>3, <3>2 DEF Stale, Remaining
    <3>4. PICK c : c = Visit(db, b, lit)
      OBVIOUS
    <3>5. SeenTo(db, c, b, lit)
      BY <2>3, <2>5, <2>7, <3>3, <3>4, VisitRight
    <3>6. Reaches(db, c, s)
      <4>1. Reaches(db, c, b)
        BY <3>5 DEF SeenTo
      <4> QED BY <2>4, <4>1, ReachesTrans
    <3> QED BY <1>5, <2>3, <3>1, <3>4, <3>5, <3>6 DEF SeenTo
  <2> QED BY <2>6, <2>7
<1> QED BY <1>6, <1>7

(* A state that propagation may go on from. *)
Sane(db, s) == Good(db, s) /\ WellMade(s) /\ (s.conflict => Falsifies(db, s))

Advances(db, r, s) ==
  Sane(db, r) /\ Reaches(db, r, s) /\ s.next <= r.next /\ (Slacks(db, s) => Slacks(db, r))

LEMMA SaneReaches ==
  ASSUME NEW db \in Databases, NEW s, Sane(db, s)
  PROVE  Advances(db, s, s) /\ s \in States(db) /\ s \in State
<1>1. s \in States(db) /\ s \in State /\ Orderly(s) /\ Len(s.trail) \in Nat /\ s.next \in Nat
  BY StateFacts DEF Sane, Good, States
<1>2. Extends(s, s) /\ SameClauses(s, s)
  BY <1>1, ExtendsSelf, SameClausesIf
<1>3. \A i \in Len(s.trail) + 1 .. Len(s.trail) : FALSE
  BY <1>1
<1>4. Reaches(db, s, s)
  BY <1>1, <1>2, <1>3 DEF Reaches, Sane, WellMade
<1> QED BY <1>1, <1>4 DEF Advances

LEMMA NextLitRight ==
  ASSUME NEW db \in Databases, NEW s, Sane(db, s)
  PROVE  /\ Advances(db, PropagateNextLit(db, s), s)
         /\ \/ s.conflict \/ s.next = Len(s.trail)
            \/ PropagateNextLit(db, s).conflict
            \/ PropagateNextLit(db, s).next = s.next + 1
<1>1. s \in States(db) /\ s \in State /\ Orderly(s) /\ Len(s.trail) \in Nat /\ s.next \in Nat
      /\ CountersRight(db, s) /\ WellMade(s) /\ Len(db) \in Nat
  BY StateFacts DEF Sane, Good, States, Databases
<1>2. CASE s.conflict \/ s.next = Len(s.trail)
  <2>1. PropagateNextLit(db, s) = s
    BY <1>2 DEF PropagateNextLit
  <2> QED BY <1>2, <2>1, SaneReaches
<1>3. CASE ~s.conflict /\ s.next # Len(s.trail)
  <2>1. PICK lit, t : lit = -s.trail[s.next + 1].lit /\ t = [s EXCEPT !.next = @ + 1]
    OBVIOUS
  <2>2. t \in States(db) /\ Orderly(t) /\ Stale(db, t, lit)
    BY <1>3, <2>1, NextStale DEF Sane
  <2>3. /\ t.trail = s.trail /\ t.next = s.next + 1 /\ t.sums = s.sums
        /\ t.conflict = s.conflict /\ t.culprit = s.culprit /\ t.heap = s.heap
        /\ t.watches = s.watches /\ t.bins = s.bins /\ t.clauses = s.clauses
    BY <1>1, <2>1 DEF State
  <2>4. Alike(t, s) /\ WellMade(t) /\ t \in State
    <3>1. ClausesMade(t) /\ BinsMade(t)
      BY <1>1, <2>3 DEF WellMade, ClausesMade, BinsMade
    <3>2. WellMade(t)
      BY <1>1, <2>3, <3>1, SameWatches
    <3> QED BY <2>2, <2>3, <3>2 DEF Alike, States
  <2>5. PICK v : v = VisitAll(db, t, lit)
    OBVIOUS
  <2>6. SeenTo(db, v, t, lit)
    BY <1>3, <2>2, <2>3, <2>4, <2>5, VisitAllRight
  <2>7. /\ Reaches(db, v, t) /\ v.next = s.next + 1 /\ v \in States(db) /\ v \in State /\ Orderly(v)
        /\ Extends(v, t) /\ WellMade(v) /\ Len(v.trail) \in Nat
    BY <2>3, <2>6, StateFacts DEF SeenTo, Reaches, States
  <2>8. PropagateNextLit(db, s) = Unpropagate(v)
    BY <1>3, <2>1, <2>5 DEF PropagateNextLit
  <2>9. CASE v.conflict
    <3>1. PICK n, r : n \in Nat /\ n = s.next /\ r = [v EXCEPT !.next = n]
      BY <1>1
    <3>2. PropagateNextLit(db, s) = r
      <4>1. v.next - 1 = n
        BY <1>1, <2>7, <3>1
      <4> QED BY <2>8, <2>9, <3>1, <4>1 DEF Unpropagate
    <3>3. /\ r \in States(db) /\ r.trail = v.trail /\ r.next = n /\ r.sums = v.sums
          /\ r.conflict = v.conflict /\ r.culprit = v.culprit /\ r.heap = v.heap
          /\ r.watches = v.watches /\ r.bins = v.bins /\ r.clauses = v.clauses
      BY <2>7, <3>1 DEF States, State
    <3>4. r.next <= Len(r.trail) /\ Alike(r, v) /\ r \in State
      BY <1>1, <2>7, <3>1, <3>3 DEF Orderly, Alike, States
    <3>5. Reaches(db, r, s)
      BY <1>1, <2>2, <2>4, <2>7, <3>3, <3>4, ReachesAlike
    <3>6. Orderly(r) /\ ClausesMade(r) /\ BinsMade(r) /\ Extends(r, s) /\ (r.conflict => Falsifies(db, r))
      BY <3>5 DEF Reaches
    <3>7. WellMade(r)
      BY <2>7, <3>3, <3>6, SameWatches
    <3>8. Discounted(r) = Discounted(s)
      BY <1>1, <3>1, <3>3, <3>4, <3>6, SameDiscounted DEF Orderly
    <3>9. r.sums = s.sums
      BY <2>3, <2>6, <2>9, <3>3 DEF SeenTo
    <3>10. CountersRight(db, r)
      BY <1>1, <3>8, <3>9 DEF CountersRight
    <3>11. Slacks(db, s) => Slacks(db, r)
      BY <3>8 DEF Slacks, Remaining
    <3>12. Sane(db, r)
      BY <3>3, <3>6, <3>7, <3>10 DEF Sane, Good
    <3> QED BY <1>1, <2>9, <3>1, <3>2, <3>3, <3>5, <3>11, <3>12 DEF Advances
  <2>10. CASE ~v.conflict
    <3>1. PropagateNextLit(db, s) = v
      BY <2>8, <2>10 DEF Unpropagate
    <3>2. CountersRight(db, v)
      BY <2>6, <2>10, CountersRightIs DEF SeenTo
    <3>3. Reaches(db, v, s)
      <4>1. Alike(v, v) /\ v.next <= Len(v.trail)
        BY <2>7 DEF Alike, Orderly
      <4> QED BY <1>1, <2>2, <2>4, <2>7, <4>1, ReachesAlike
    <3>4. Discounted(v) = Discounted(s) \cup {lit}
      <4>1. \A i \in 1 .. s.next + 1 : v.trail[i] = s.trail[i]
        <5>1. s.next + 1 <= Len(s.trail)
          BY <1>1, <1>3 DEF Orderly
        <5> QED BY <1>1, <2>3, <2>7, <5>1 DEF Extends
      <4> QED BY <1>1, <2>1, <2>7, <4>1, DiscountedNext
    <3>5. Slacks(db, s) => Slacks(db, v)
      <4> SUFFICES ASSUME Slacks(db, s), NEW id \in 1 .. Len(db) PROVE Remaining(db, v, id) >= 0
        BY DEF Slacks
      <4>1. CASE lit \in LitsOf(db[id])
        BY <2>6, <2>10, <4>1 DEF SeenTo
      <4>2. CASE lit \notin LitsOf(db[id])
        <5>1. Remaining(db, v, id) = Remaining(db, s, id)
          BY <3>4, <4>2, UntouchedRemains
        <5>2. Remaining(db, s, id) >= 0
          BY DEF Slacks
        <5> QED BY <5>1, <5>2
      <4> QED BY <4>1, <4>2
    <3>6. Sane(db, v)
      BY <2>7, <2>10, <3>2 DEF Sane, Good
    <3> QED BY <1>1, <2>7, <3>1, <3>3, <3>5, <3>6 DEF Advances
  <2> QED BY <2>9, <2>10
<1> QED BY <1>2, <1>3

SaneStates(db) == {s \in States(db) : Sane(db, s)}

LEMMA PropagateAllSteps ==
  ASSUME NEW db \in Databases, NEW s, Sane(db, s)
  PROVE  \E h \in [0 .. NumVars -> SaneStates(db)] :
           /\ h[0] = s
           /\ \A i \in 1 .. NumVars : h[i] = PropagateNextLit(db, h[i - 1])
           /\ PropagateAll(db, s) = h[NumVars]
<1> DEFINE n == NumVars
           S == SaneStates(db)
           step(r, i) == PropagateNextLit(db, r)
           idx == [i \in Vars |-> i]
           g == [p \in S \X (1 .. n) |-> step(p[1], p[2])]
           E(f) == f = [t \in SUBSET DOMAIN idx |->
                          IF t = {} THEN s ELSE step(f[t \ {Max(t)}], idx[Max(t)])]
           F == CHOOSE f : E(f)
<1>1. n \in Nat /\ s \in S /\ DOMAIN idx = 1 .. n /\ \A i \in 1 .. n : idx[i] = i
  BY VarsAssumption DEF Vars, SaneStates, Sane, Good
<1>2. g \in [S \X (1 .. n) -> S]
  BY NextLitRight DEF SaneStates, Advances, Sane, Good
<1>3. \A t \in SUBSET (1 .. n), r \in S : t # {} => g[<<r, Max(t)>>] = step(r, idx[Max(t)])
  BY <1>1, MaxInSet
<1>4. PropagateAll(db, s) = F[DOMAIN idx]
  BY Zenon DEF PropagateAll, FoldLeft, MapThenFoldSet
<1> HIDE DEF step, g, S, n, idx
<1>5. \E f : E(f)
  <2>1. PICK f \in [SUBSET (1 .. n) -> S] : Solves(f, n, s, g)
    BY <1>1, <1>2, FoldExists
  <2>2. E(f)
    BY <2>1, <1>1, <1>3 DEF Solves
  <2> QED BY <2>2
<1>6. E(F)
  BY <1>5, Zenon
<1> HIDE DEF F
<1>7. Follows(F, n, S, s, g)
  BY <1>1, <1>2, <1>6, <1>3 DEF Follows
<1>8. PICK h : Steps(h, F, n, S, s, g)
  BY <1>7, FoldSteps
<1>9. /\ h \in [0 .. n -> S] /\ h[0] = s /\ F[1 .. n] = h[n]
      /\ \A i \in 1 .. n : h[i] = g[<<h[i - 1], i>>] /\ h[i - 1] \in S
  BY <1>8, <1>1 DEF Steps
<1>10. \A i \in 1 .. n : h[i] = step(h[i - 1], i)
  BY <1>9 DEF g
<1>11. PropagateAll(db, s) = h[n]
  BY <1>1, <1>4, <1>9
<1> QED BY <1>9, <1>10, <1>11 DEF step, n, S

LEMMA AdvancesTrans ==
  ASSUME NEW db \in Databases, NEW s \in States(db), NEW r, Advances(db, r, s), NEW q, Advances(db, q, r)
  PROVE  Advances(db, q, s)
<1>1. s \in State /\ r \in State /\ q \in State
  BY DEF Advances, Reaches, States
<1>2. s.next \in Nat /\ r.next \in Nat /\ q.next \in Nat
  BY <1>1, StateFacts
<1>3. Reaches(db, q, s)
  BY ReachesTrans DEF Advances
<1> QED BY <1>2, <1>3 DEF Advances

(* Propagation to the end: what becomes true is due to what was true before, a
   conflict is real, and counters, watches and slacks are as they should be. *)
LEMMA PropagateAllRight ==
  ASSUME NEW db \in Databases, NEW s, Sane(db, s)
  PROVE  /\ Advances(db, PropagateAll(db, s), s)
         /\ PropagateAll(db, s).conflict \/ PropagateAll(db, s).next = Len(PropagateAll(db, s).trail)
<1>1. NumVars \in Nat
  BY VarsAssumption
<1>2. PICK h \in [0 .. NumVars -> SaneStates(db)] :
           /\ h[0] = s
           /\ \A i \in 1 .. NumVars : h[i] = PropagateNextLit(db, h[i - 1])
           /\ PropagateAll(db, s) = h[NumVars]
  BY PropagateAllSteps
<1> DEFINE Far(r, i) == r.conflict \/ r.next = Len(r.trail) \/ r.next >= s.next + i
           T == {i \in 0 .. NumVars : Advances(db, h[i], s) /\ Far(h[i], i)}
<1>3. s \in State /\ s.next \in Nat /\ s \in States(db)
  BY StateFacts DEF Sane, Good, States
<1>4. 0 \in T
  <2>1. Advances(db, s, s)
    BY SaneReaches
  <2> QED BY <2>1, <1>1, <1>2, <1>3
<1>5. ASSUME NEW i \in 1 .. NumVars, i - 1 \in T PROVE i \in T
  <2> DEFINE r == h[i - 1]
             q == PropagateNextLit(db, r)
  <2>1. Advances(db, r, s) /\ Far(r, i - 1) /\ q = h[i]
    BY <1>5, <1>2
  <2>2. Advances(db, q, r) /\ (\/ r.conflict \/ r.next = Len(r.trail)
                               \/ q.conflict \/ q.next = r.next + 1)
    BY <2>1, NextLitRight DEF Advances
  <2>3. Advances(db, q, s)
    BY <1>3, <2>1, <2>2, AdvancesTrans
  <2>4. r \in State /\ q \in State /\ r.next \in Nat /\ q.next \in Nat
    BY <2>1, <2>2, StateFacts DEF Advances, Sane, Good, States
  <2>5. r.conflict \/ r.next = Len(r.trail) => q = r
    BY DEF PropagateNextLit
  <2> HIDE DEF r, q
  <2>6. Far(q, i)
    BY <2>1, <2>2, <2>4, <2>5, <1>3
  <2> HIDE DEF Far
  <2> QED BY <2>1, <2>3, <2>6, <1>1
<1>6. NumVars \in T
  <2> HIDE DEF T
  <2>1. Inductive(NumVars, T)
    BY <1>1, <1>4, <1>5 DEF Inductive
  <2> QED BY <2>1, InductionUpTo
<1> DEFINE r == PropagateAll(db, s)
<1>7. Advances(db, r, s) /\ Far(r, NumVars)
  BY <1>2, <1>6
<1> HIDE DEF r
<1>8. r.next <= Len(r.trail) /\ Len(r.trail) <= NumVars /\ r.next \in Nat /\ Len(r.trail) \in Nat
  BY <1>7, TrailFits, StateFacts DEF Advances, Sane, Good, Orderly, States
<1>9. r.conflict \/ r.next = Len(r.trail)
  BY <1>1, <1>3, <1>7, <1>8
<1> QED BY <1>7, <1>9 DEF r

(* Every propagated literal above level 0 is due to its reason, and what is not
   assigned is in the heap. *)
Founded(db, s) == \A i \in 1 .. Len(s.trail) : Entitled(db, s, i)

Heaped(s) == \A v \in Vars : IsUndefLit(s, v) => v \in s.heap

LEMMA ReachesFounded ==
  ASSUME NEW db \in Databases, NEW s \in States(db), Founded(db, s), NEW r, Reaches(db, r, s)
  PROVE  Founded(db, r)
<1>1. s \in State /\ r \in State /\ Len(s.trail) \in Nat /\ Len(r.trail) \in Nat /\ Retains(r, s)
  BY StateFacts DEF Reaches, States, SameClauses
<1>2. Len(s.trail) <= Len(r.trail) /\ \A i \in 1 .. Len(s.trail) : r.trail[i] = s.trail[i]
  BY DEF Reaches, Extends
<1>3. Prolongs(db, db) /\ Len(db) \in Nat
  BY ProlongsSelf
<1> SUFFICES ASSUME NEW i \in 1 .. Len(r.trail), r.trail[i].dl > 0, r.trail[i].reason # NoReason
             PROVE  /\ r.trail[i].dl = LevelAt(r.trail, i - 1)
                    /\ Due(db, r, r.trail[i].reason, r.trail[i].lit, Before(r.trail, i))
  BY DEF Founded, Entitled
<1>4. CASE i <= Len(s.trail)
  <2>1. i \in 1 .. Len(s.trail) /\ r.trail[i] = s.trail[i]
    BY <1>1, <1>2, <1>4
  <2>2. s.trail[i].dl = LevelAt(s.trail, i - 1) /\ Due(db, s, s.trail[i].reason, s.trail[i].lit, Before(s.trail, i))
    BY <2>1 DEF Founded, Entitled
  <2>3. LevelAt(r.trail, i - 1) = LevelAt(s.trail, i - 1)
    BY <1>1, <1>2, <2>1 DEF LevelAt
  <2>4. Before(r.trail, i) = Before(s.trail, i)
    <3>1. i \in 1 .. Len(s.trail) + 1
      BY <1>1, <2>1
    <3> QED BY <1>1, <1>2, <3>1, BeforeSame
  <2>5. Due(db, r, s.trail[i].reason, s.trail[i].lit, Before(s.trail, i))
    BY <1>1, <1>3, <2>2, DueKept
  <2> QED BY <2>1, <2>2, <2>3, <2>4, <2>5
<1>5. CASE ~(i <= Len(s.trail))
  <2>1. i \in Len(s.trail) + 1 .. Len(r.trail)
    BY <1>1, <1>5
  <2>2. r.trail[i].dl = Level(s)
    BY <2>1 DEF Reaches, Extends
  <2>3. LevelAt(r.trail, i - 1) = Level(s)
    <3>1. CASE i - 1 = Len(s.trail)
      <4>1. Level(s) = LevelAt(s.trail, Len(s.trail))
        BY <1>1, LevelIs
      <4>2. LevelAt(r.trail, Len(s.trail)) = LevelAt(s.trail, Len(s.trail))
        BY <1>1, <1>2 DEF LevelAt
      <4> QED BY <3>1, <4>1, <4>2
    <3>2. CASE i - 1 # Len(s.trail)
      <4>1. i - 1 \in Len(s.trail) + 1 .. Len(r.trail) /\ i - 1 # 0
        BY <1>1, <2>1, <3>2
      <4> QED BY <4>1 DEF Reaches, Extends, LevelAt
    <3> QED BY <3>1, <3>2
  <2> QED BY <2>1, <2>2, <2>3 DEF Reaches
<1> QED BY <1>4, <1>5

LEMMA ReachesHeaped ==
  ASSUME NEW db \in Databases, NEW s \in States(db), Heaped(s), NEW r, Reaches(db, r, s)
  PROVE  Heaped(r)
<1>1. TrueLits(s) \subseteq TrueLits(r)
  BY ExtendsLits DEF Reaches, States
<1> QED BY <1>1, StillDefined DEF Heaped, Reaches

(* At level 0 every literal is of level 0. *)
LEMMA GroundLevel ==
  ASSUME NEW s \in State, Orderly(s)
  PROVE  /\ Level(s) = 0 => TrueBelow(s, 1) = TrueLits(s)
         /\ TrueBelow(s, 1) \subseteq TrueLits(s)
         /\ \A i \in 1 .. Len(s.trail) : s.trail[i].dl < 1 => s.trail[i].lit \in TrueBelow(s, 1)
         /\ \A l \in TrueBelow(s, 1) : \E i \in 1 .. Len(s.trail) : s.trail[i].dl = 0 /\ s.trail[i].lit = l
<1>1. Len(s.trail) \in Nat /\ DOMAIN s.trail = 1 .. Len(s.trail)
      /\ \A i \in 1 .. Len(s.trail) : s.trail[i].dl \in Nat
  BY StateFacts
<1>2. Level(s) = 0 => \A i \in 1 .. Len(s.trail) : s.trail[i].dl = 0
  <2> SUFFICES ASSUME Level(s) = 0, NEW i \in 1 .. Len(s.trail) PROVE s.trail[i].dl = 0
    OBVIOUS
  <2>1. Len(s.trail) \in 1 .. Len(s.trail) /\ i \in 1 .. Len(s.trail)
    BY <1>1
  <2>2. s.trail[Len(s.trail)].dl = 0
    BY <2>1, LevelIs DEF LevelAt
  <2>3. s.trail[i].dl <= s.trail[Len(s.trail)].dl
    BY <2>1, LevelsGrow DEF Orderly
  <2> QED BY <1>1, <2>1, <2>2, <2>3
<1>3. TrueBelow(s, 1) = {s.trail[i].lit : i \in {j \in 1 .. Len(s.trail) : s.trail[j].dl < 1}}
  BY <1>1 DEF TrueBelow
<1>4. TrueLits(s) = {s.trail[i].lit : i \in 1 .. Len(s.trail)}
  BY <1>1 DEF TrueLits
<1>5. Level(s) = 0 => \A i \in 1 .. Len(s.trail) : s.trail[i].dl < 1
  BY <1>2
<1>6. \A i \in 1 .. Len(s.trail) : s.trail[i].dl < 1 => s.trail[i].dl = 0
  BY <1>1
<1>7. Level(s) = 0 => TrueBelow(s, 1) = TrueLits(s)
  BY <1>3, <1>4, <1>5
<1>8. TrueBelow(s, 1) \subseteq TrueLits(s)
  BY <1>3, <1>4
<1>9. \A i \in 1 .. Len(s.trail) : s.trail[i].dl < 1 => s.trail[i].lit \in TrueBelow(s, 1)
  BY <1>3
<1>10. \A l \in TrueBelow(s, 1) : \E i \in 1 .. Len(s.trail) : s.trail[i].dl = 0 /\ s.trail[i].lit = l
  BY <1>3, <1>6
<1> QED BY <1>7, <1>8, <1>9, <1>10

(* What is due by true literals is true. *)
LEMMA DueTrue ==
  ASSUME NEW db \in Databases, NEW s \in State, ClausesMade(s), BinsMade(s), NEW m, Obeys(db, s, m),
         NEW why, NEW lit, NEW T, Due(db, s, why, lit, T), T \subseteq m
  PROVE  lit \in m
<1>1. PICK f : f = WConstraint(db, s, why, lit)
  OBVIOUS
<1>2. Forces(f, lit, T) /\ Known(db, s, why, lit)
  BY <1>1 DEF Due
<1>3. Admits(f, m) /\ Complete(m)
  <2>1. Admits(f, m)
    BY <1>1, <1>2, KnownForm
  <2> QED BY <2>1 DEF Obeys
<1>4. Heeds(f, T, m)
  BY DEF Heeds
<1> QED BY <1>2, <1>3, <1>4, ForcesSound

(* Solutions that agree with the clauses and level 0 still do. *)
LEMMA ReachesUpholds ==
  ASSUME NEW db \in Databases, NEW s \in States(db), Orderly(s), NEW m, Upholds(db, s, m),
         NEW r, Reaches(db, r, s)
  PROVE  Upholds(db, r, m)
<1>1. s \in State /\ r \in State /\ Len(s.trail) \in Nat /\ Len(r.trail) \in Nat /\ Orderly(r)
      /\ ClausesMade(r) /\ BinsMade(r) /\ Level(s) \in Nat
  BY StateFacts DEF Reaches, States
<1>2. Len(s.trail) <= Len(r.trail) /\ \A i \in 1 .. Len(s.trail) : r.trail[i] = s.trail[i]
  BY DEF Reaches, Extends
<1>3. Obeys(db, r, m)
  BY <1>1, ObeysSame DEF Upholds, Reaches
<1>4. CASE Level(s) # 0
  <2> SUFFICES ASSUME NEW l \in TrueBelow(r, 1) PROVE l \in m
    BY <1>3 DEF Upholds
  <2>1. PICK i \in 1 .. Len(r.trail) : r.trail[i].dl = 0 /\ r.trail[i].lit = l
    BY <1>1, GroundLevel
  <2>2. i \in 1 .. Len(s.trail)
    <3>1. i \in Len(s.trail) + 1 .. Len(r.trail) => r.trail[i].dl = Level(s)
      BY DEF Reaches, Extends
    <3> QED BY <1>1, <1>4, <2>1, <3>1
  <2>3. s.trail[i].dl < 1 /\ s.trail[i].lit = l
    BY <1>2, <2>1, <2>2
  <2>4. l \in TrueBelow(s, 1)
    BY <1>1, <2>2, <2>3, GroundLevel
  <2> QED BY <2>4 DEF Upholds
<1>5. CASE Level(s) = 0
  <2>1. TrueLits(s) \subseteq m
    BY <1>1, <1>5, GroundLevel DEF Upholds
  <2> DEFINE n == Len(r.trail)
             T == {i \in 0 .. n : \A j \in 1 .. i : r.trail[j].lit \in m}
  <2>2. 0 \in T
    BY <1>1
  <2>3. ASSUME NEW i \in 1 .. n, i - 1 \in T PROVE i \in T
    <3>1. \A j \in 1 .. i - 1 : r.trail[j].lit \in m
      BY <2>3
    <3>2. r.trail[i].lit \in m
      <4>1. CASE i <= Len(s.trail)
        <5>1. r.trail[i].lit \in TrueLits(s)
          <6>1. i \in 1 .. Len(s.trail)
            BY <1>1, <4>1
          <6>2. r.trail[i] = s.trail[i] /\ i \in DOMAIN s.trail
            BY <1>1, <1>2, <6>1, StateFacts
          <6> QED BY <6>2 DEF TrueLits
        <5> QED BY <2>1, <5>1
      <4>2. CASE ~(i <= Len(s.trail))
        <5>1. Due(db, r, r.trail[i].reason, r.trail[i].lit, Before(r.trail, i))
          BY <1>1, <4>2 DEF Reaches
        <5>2. Before(r.trail, i) \subseteq m
          BY <3>1 DEF Before
        <5> QED BY <1>1, <1>3, <5>1, <5>2, DueTrue
      <4> QED BY <4>1, <4>2
    <3>3. \A j \in 1 .. i : j = i \/ j \in 1 .. i - 1
      BY <1>1
    <3>4. \A j \in 1 .. i : r.trail[j].lit \in m
      BY <3>1, <3>2, <3>3
    <3> QED BY <1>1, <3>4
  <2>4. n \in T
    <3> HIDE DEF T
    <3>1. Inductive(n, T)
      BY <1>1, <2>2, <2>3 DEF Inductive
    <3> QED BY <1>1, <3>1, InductionUpTo
  <2>5. TrueLits(r) \subseteq m
    <3>1. TrueLits(r) = {r.trail[j].lit : j \in 1 .. Len(r.trail)}
      BY <1>1, StateFacts DEF TrueLits
    <3> QED BY <2>4, <3>1
  <2>6. TrueBelow(r, 1) \subseteq m
    <3>1. TrueBelow(r, 1) \subseteq TrueLits(r)
      BY <1>1, GroundLevel
    <3> QED BY <2>5, <3>1
  <2> QED BY <1>3, <2>6 DEF Upholds
<1> QED BY <1>4, <1>5

(* A conflict that rests on level 0 refutes every solution. *)
LEMMA GroundConflict ==
  ASSUME NEW db \in Databases, NEW s \in State, Orderly(s), ClausesMade(s), BinsMade(s), Level(s) = 0,
         Falsifies(db, s), NEW m
  PROVE  ~Upholds(db, s, m)
<1> SUFFICES ASSUME Upholds(db, s, m) PROVE FALSE
  OBVIOUS
<1>1. PICK f : f = Falsified(db, s)
  OBVIOUS
<1>2. Fails(f, TrueLits(s)) /\ Known(db, s, s.culprit, OtherLit(s))
  BY <1>1 DEF Falsifies
<1>3. f = WConstraint(db, s, s.culprit, OtherLit(s))
  BY <1>1 DEF Falsified, OtherLit
<1>4. Admits(f, m) /\ Complete(m)
  <2>1. Obeys(db, s, m)
    BY DEF Upholds
  <2>2. Admits(f, m)
    BY <1>2, <1>3, <2>1, KnownForm
  <2> QED BY <2>1, <2>2 DEF Obeys
<1>5. Heeds(f, TrueLits(s), m)
  <2>1. TrueLits(s) \subseteq m
    BY GroundLevel DEF Upholds
  <2> QED BY <2>1 DEF Heeds
<1> QED BY <1>2, <1>4, <1>5, FailsSound

-----------------------------------------------------------------------------
(* Undoing. *)

(* What holds of the solver whatever it is doing. *)
Core(db, s) == Good(db, s) /\ WellMade(s) /\ Founded(db, s) /\ Heaped(s)

(* r is s with the end of the trail, of levels above dl, undone. *)
Undone(r, s, dl) ==
  /\ Cut(r, s, dl) /\ r.clauses = s.clauses /\ r.bins = s.bins /\ r.watches = s.watches
  /\ s.heap \subseteq r.heap
  /\ \A i \in Len(r.trail) + 1 .. Len(s.trail) : Magnitude(s.trail[i].lit) \in r.heap

LEMMA UndoneLits ==
  ASSUME NEW s \in State, NEW r \in State, NEW dl, Undone(r, s, dl)
  PROVE  /\ Before(s.trail, Len(r.trail) + 1) = TrueLits(r)
         /\ TrueLits(r) \subseteq TrueLits(s)
         /\ \A l \in TrueLits(s) : \/ l \in TrueLits(r)
                                   \/ \E i \in Len(r.trail) + 1 .. Len(s.trail) : s.trail[i].lit = l
<1>1. Len(s.trail) \in Nat /\ Len(r.trail) \in Nat
      /\ TrueLits(s) = {s.trail[i].lit : i \in 1 .. Len(s.trail)}
      /\ TrueLits(r) = {r.trail[i].lit : i \in 1 .. Len(r.trail)}
  BY StateFacts DEF TrueLits
<1>2. Len(r.trail) <= Len(s.trail) /\ \A i \in 1 .. Len(r.trail) : r.trail[i] = s.trail[i]
  BY DEF Undone, Cut
<1>3. Before(s.trail, Len(r.trail) + 1) = Before(r.trail, Len(r.trail) + 1)
  <2>1. PICK n, i : n \in Nat /\ n = Len(r.trail) /\ i = n + 1
    BY <1>1
  <2>2. \A j \in 1 .. n : s.trail[j] = r.trail[j]
    BY <1>2, <2>1
  <2>3. i \in 1 .. n + 1
    BY <2>1
  <2>4. n \in Nat
    BY <2>1
  <2>5. Before(s.trail, i) = Before(r.trail, i)
    BY <2>2, <2>3, <2>4, BeforeSame
  <2> QED BY <2>1, <2>5
<1>4. Before(r.trail, Len(r.trail) + 1) = TrueLits(r)
  BY BeforeFacts
<1>5. TrueLits(r) \subseteq TrueLits(s)
  BY <1>1, <1>2
<1>6. ASSUME NEW l \in TrueLits(s)
      PROVE  l \in TrueLits(r) \/ \E i \in Len(r.trail) + 1 .. Len(s.trail) : s.trail[i].lit = l
  <2>1. PICK i \in 1 .. Len(s.trail) : s.trail[i].lit = l
    BY <1>1, <1>6
  <2>2. CASE i <= Len(r.trail)
    <3>1. i \in 1 .. Len(r.trail) /\ r.trail[i].lit = l
      BY <1>1, <1>2, <2>1, <2>2
    <3> QED BY <1>1, <3>1
  <2>3. CASE ~(i <= Len(r.trail))
    <3>1. i \in Len(r.trail) + 1 .. Len(s.trail)
      BY <1>1, <2>1, <2>3
    <3> QED BY <2>1, <3>1
  <2> QED BY <2>2, <2>3
<1> QED BY <1>3, <1>4, <1>5, <1>6

LEMMA UndoneSlacks ==
  ASSUME NEW db \in Databases, NEW s, Good(db, s), NEW r, Good(db, r), NEW dl, Undone(r, s, dl), Slacks(db, s)
  PROVE  Slacks(db, r)
<1>1. s \in State /\ r \in State /\ s.next \in Nat /\ r.next \in Nat /\ Len(r.trail) \in Nat
      /\ r.next <= Len(r.trail)
  BY StateFacts DEF Good, States, Orderly
<1>2. Discounted(r) \subseteq Discounted(s)
  <2>1. r.next <= s.next /\ \A i \in 1 .. Len(r.trail) : r.trail[i] = s.trail[i]
    BY <1>1 DEF Undone, Cut
  <2>2. \A i \in 1 .. r.next : i \in 1 .. s.next /\ r.trail[i] = s.trail[i]
    BY <1>1, <2>1
  <2> QED BY <2>2 DEF Discounted
<1> SUFFICES ASSUME NEW id \in 1 .. Len(db) PROVE Remaining(db, r, id) >= 0
  BY DEF Slacks
<1>3. db[id] \in Constraint
  BY DEF Databases
<1>4. Remaining(db, s, id) >= 0
  BY DEF Slacks
<1>5. Spare(db[id], Discounted(s)) \in Int /\ Spare(db[id], Discounted(r)) \in Int
      /\ Spare(db[id], Discounted(s)) <= Spare(db[id], Discounted(r))
  BY <1>2, <1>3, SpareFacts
<1>6. Remaining(db, r, id) = Spare(db[id], Discounted(r)) /\ Remaining(db, s, id) = Spare(db[id], Discounted(s))
  BY RemainingIs
<1> QED BY <1>4, <1>5, <1>6

LEMMA UndoneCore ==
  ASSUME NEW db \in Databases, NEW s, Core(db, s), NEW r, Good(db, r), NEW dl \in Nat, Undone(r, s, dl)
  PROVE  /\ Core(db, r) /\ Retains(r, s) /\ Retains(s, r)
         /\ \A m : Upholds(db, s, m) => Upholds(db, r, m)
<1>1. s \in State /\ r \in State /\ Len(s.trail) \in Nat /\ Len(r.trail) \in Nat
      /\ Orderly(s) /\ Orderly(r) /\ s \in States(db)
  BY StateFacts DEF Core, Good, States
<1>2. Len(r.trail) <= Len(s.trail) /\ \A i \in 1 .. Len(r.trail) : r.trail[i] = s.trail[i]
  BY DEF Undone, Cut
<1>3. Retains(r, s) /\ Retains(s, r) /\ SameClauses(r, s)
  BY <1>1, SameClausesIf DEF Undone, SameClauses
<1>4. WellMade(r)
  <2>1. ClausesMade(r) /\ BinsMade(r)
    BY DEF Core, WellMade, ClausesMade, BinsMade, Undone
  <2> QED BY <2>1, SameWatches DEF Core, Undone
<1>5. Prolongs(db, db) /\ Len(db) \in Nat
  BY ProlongsSelf
<1>6. Founded(db, r)
  <2> SUFFICES ASSUME NEW i \in 1 .. Len(r.trail), r.trail[i].dl > 0, r.trail[i].reason # NoReason
               PROVE  /\ r.trail[i].dl = LevelAt(r.trail, i - 1)
                      /\ Due(db, r, r.trail[i].reason, r.trail[i].lit, Before(r.trail, i))
    BY DEF Founded, Entitled
  <2>1. i \in 1 .. Len(s.trail) /\ r.trail[i] = s.trail[i]
    BY <1>1, <1>2
  <2>2. s.trail[i].dl = LevelAt(s.trail, i - 1) /\ Due(db, s, s.trail[i].reason, s.trail[i].lit, Before(s.trail, i))
    BY <2>1 DEF Core, Founded, Entitled
  <2>3. LevelAt(r.trail, i - 1) = LevelAt(s.trail, i - 1)
    BY <1>1, <1>2 DEF LevelAt
  <2>4. Before(r.trail, i) = Before(s.trail, i)
    <3>1. i \in 1 .. Len(r.trail) + 1
      BY <1>1
    <3> QED BY <1>1, <1>2, <3>1, BeforeSame
  <2>5. Due(db, r, s.trail[i].reason, s.trail[i].lit, Before(s.trail, i))
    BY <1>1, <1>3, <1>5, <2>2, DueKept
  <2> QED BY <2>1, <2>2, <2>3, <2>4, <2>5
<1>7. Heaped(r)
  <2> SUFFICES ASSUME NEW v \in Vars, IsUndefLit(r, v) PROVE v \in r.heap
    BY DEF Heaped
  <2>1. CASE IsUndefLit(s, v)
    BY <2>1 DEF Core, Heaped, Undone
  <2>2. CASE ~IsUndefLit(s, v)
    <3>1. PICK l \in TrueLits(s) : l = v \/ l = -v
      BY <2>2 DEF IsUndefLit
    <3>2. l \notin TrueLits(r)
      BY <3>1 DEF IsUndefLit
    <3>3. PICK i \in Len(r.trail) + 1 .. Len(s.trail) : s.trail[i].lit = l
      BY <1>1, <3>1, <3>2, UndoneLits
    <3>4. Magnitude(l) = v
      BY <3>1, VarFacts
    <3> QED BY <3>3, <3>4 DEF Undone
  <2> QED BY <2>1, <2>2
<1>8. ASSUME NEW m, Upholds(db, s, m) PROVE Upholds(db, r, m)
  <2>1. Obeys(db, r, m)
    BY <1>1, <1>3, <1>8, ObeysSame DEF Upholds
  <2>2. TrueBelow(r, 1) \subseteq TrueBelow(s, 1)
    <3> SUFFICES ASSUME NEW l \in TrueBelow(r, 1) PROVE l \in TrueBelow(s, 1)
      OBVIOUS
    <3>1. PICK i \in 1 .. Len(r.trail) : r.trail[i].dl = 0 /\ r.trail[i].lit = l
      BY <1>1, GroundLevel
    <3>2. i \in 1 .. Len(s.trail) /\ s.trail[i].dl < 1 /\ s.trail[i].lit = l
      BY <1>1, <1>2, <3>1
    <3> QED BY <1>1, <3>2, GroundLevel
  <2> QED BY <1>8, <2>1, <2>2 DEF Upholds
<1> QED BY <1>3, <1>4, <1>6, <1>7, <1>8 DEF Core

(* One literal is undone. *)
LEMMA PopUndoes ==
  ASSUME NEW db \in Databases, NEW s, Good(db, s), s.trail # <<>>, NEW dl \in Int,
         s.trail[Len(s.trail)].dl > dl, NEW r, r = PopAndUnassign(db, s)
  PROVE  Good(db, r) /\ Undone(r, s, dl) /\ Len(r.trail) = Len(s.trail) - 1
         /\ r.conflict = s.conflict /\ r.culprit = s.culprit
<1>1. s \in State /\ Len(s.trail) \in Nat /\ s.trail \in Seq(TrailEntry)
  BY StateFacts DEF Good, States
<1>2. Good(db, r) /\ Cut(r, s, dl) /\ Len(r.trail) = Len(s.trail) - 1
  BY PopMakes
<1>3. PICK lit : lit = Last(s.trail).lit
  OBVIOUS
<1>4. lit = s.trail[Len(s.trail)].lit /\ lit \in Lits
  <2>1. PICK q \in Seq(TrailEntry) : q = s.trail
    BY <1>1
  <2>2. Last(q) = q[Len(q)] /\ Last(q) \in TrailEntry
    BY <2>1, FrontFacts
  <2> QED BY <1>3, <2>1, <2>2 DEF TrailEntry
<1>5. /\ r.clauses = s.clauses /\ r.bins = s.bins /\ r.watches = s.watches
      /\ r.heap = s.heap \cup ({lit, -lit} \cap Vars) /\ r.conflict = s.conflict /\ r.culprit = s.culprit
  BY <1>1, <1>3 DEF PopAndUnassign, State
<1>6. Magnitude(lit) \in r.heap
  <2>1. Magnitude(lit) \in Vars /\ (lit = Magnitude(lit) \/ -lit = Magnitude(lit))
    BY <1>4, VarFacts
  <2> QED BY <1>5, <2>1
<1>7. \A i \in Len(r.trail) + 1 .. Len(s.trail) : i = Len(s.trail)
  BY <1>1, <1>2
<1> QED BY <1>2, <1>4, <1>5, <1>6, <1>7 DEF Undone

LEMMA UndoneTrans ==
  ASSUME NEW s \in State, NEW r \in State, NEW q \in State, NEW dl \in Int,
         Undone(r, s, dl), Undone(q, r, dl)
  PROVE  Undone(q, s, dl)
<1>1. Cut(q, s, dl)
  BY CutTrans DEF Undone
<1>2. Len(s.trail) \in Nat /\ Len(r.trail) \in Nat /\ Len(q.trail) \in Nat
  BY StateFacts
<1>3. ASSUME NEW i \in Len(q.trail) + 1 .. Len(s.trail) PROVE Magnitude(s.trail[i].lit) \in q.heap
  <2>1. CASE i <= Len(r.trail)
    <3>1. i \in Len(q.trail) + 1 .. Len(r.trail) /\ i \in 1 .. Len(r.trail)
      BY <1>2, <1>3, <2>1
    <3>2. r.trail[i] = s.trail[i]
      BY <3>1 DEF Undone, Cut
    <3> QED BY <3>1, <3>2 DEF Undone
  <2>2. CASE ~(i <= Len(r.trail))
    <3>1. i \in Len(r.trail) + 1 .. Len(s.trail)
      BY <1>2, <1>3, <2>2
    <3> QED BY <3>1 DEF Undone
  <2> QED BY <2>1, <2>2
<1> QED BY <1>1, <1>3 DEF Undone

LEMMA UndoneSelf ==
  ASSUME NEW s \in State, s.next <= Len(s.trail), NEW dl
  PROVE  Undone(s, s, dl)
<1>1. Len(s.trail) \in Nat /\ s.next \in Nat
  BY StateFacts
<1> QED BY <1>1 DEF Undone, Cut

LEMMA PopAboveUndoes ==
  ASSUME NEW db \in Databases, NEW s, Good(db, s), NEW dl \in Nat, NEW r, r = PopAbove(db, s, dl)
  PROVE  Good(db, r) /\ Undone(r, s, dl) /\ r.conflict = s.conflict /\ r.culprit = s.culprit
<1>1. s \in State /\ Len(s.trail) \in Nat /\ s.next <= Len(s.trail) /\ s.trail \in Seq(TrailEntry)
  BY StateFacts DEF Good, States, Orderly
<1>2. CASE Level(s) > dl
  <2>1. s.trail # <<>> /\ r = PopAndUnassign(db, s)
    BY <1>2 DEF Level, PopAbove
  <2>2. Len(s.trail) # 0
    BY <1>1, <2>1
  <2>3. s.trail[Len(s.trail)].dl > dl
    BY <1>1, <1>2, <2>2, LevelIs DEF LevelAt
  <2> QED BY <2>1, <2>3, PopUndoes
<1>3. CASE ~(Level(s) > dl)
  <2>1. r = s
    BY <1>3 DEF PopAbove
  <2> QED BY <1>1, <2>1, UndoneSelf
<1> QED BY <1>2, <1>3

(* What jumping back to level dl makes of s. *)
JumpedBack(db, r, s, dl) ==
  /\ Good(db, r) /\ Undone(r, s, dl) /\ Level(r) = dl
  /\ \A i \in 1 .. Len(r.trail) : r.trail[i].dl <= dl
  /\ r.conflict = s.conflict /\ r.culprit = s.culprit

LEMMA JumpUndoes ==
  ASSUME NEW db \in Databases, NEW s, Good(db, s), NEW dl \in Nat, dl <= Level(s)
  PROVE  JumpedBack(db, BackjumpToDL(db, s, dl), s, dl)
<1>1. NumVars \in Nat /\ s \in State /\ s.next <= Len(s.trail)
  BY VarsAssumption DEF Good, States, Orderly
<1>2. PICK h \in [0 .. NumVars -> GoodStates(db)] :
           /\ h[0] = s
           /\ \A i \in 1 .. NumVars : h[i] = PopAbove(db, h[i - 1], dl)
           /\ PopLevels(db, s, dl) = h[NumVars]
  BY PopLevelsSteps
<1> DEFINE Same(r) == Undone(r, s, dl) /\ r.conflict = s.conflict /\ r.culprit = s.culprit
           T == {i \in 0 .. NumVars : Same(h[i])}
<1>3. 0 \in T
  BY <1>1, <1>2, UndoneSelf
<1>4. ASSUME NEW i \in 1 .. NumVars, i - 1 \in T PROVE i \in T
  <2>1. PICK r, q : r = h[i - 1] /\ q = h[i]
    OBVIOUS
  <2>2. i - 1 \in 0 .. NumVars /\ i \in 0 .. NumVars
    BY <1>1
  <2>3. Good(db, r) /\ q = PopAbove(db, r, dl) /\ Same(r)
    BY <1>2, <1>4, <2>1, <2>2 DEF GoodStates
  <2>4. Good(db, q) /\ Undone(q, r, dl) /\ q.conflict = r.conflict /\ q.culprit = r.culprit
    BY <2>3, PopAboveUndoes
  <2>5. r \in State /\ q \in State
    BY <2>3, <2>4 DEF Good, States
  <2>6. Undone(q, s, dl)
    BY <1>1, <2>3, <2>4, <2>5, UndoneTrans
  <2> QED BY <2>1, <2>2, <2>3, <2>4, <2>6
<1>5. NumVars \in T
  <2> HIDE DEF T
  <2>1. Inductive(NumVars, T)
    BY <1>1, <1>3, <1>4 DEF Inductive
  <2> QED BY <1>1, <2>1, InductionUpTo
<1>6. PICK p : p = PopLevels(db, s, dl)
  OBVIOUS
<1>7. Undone(p, s, dl) /\ p.conflict = s.conflict /\ p.culprit = s.culprit
  BY <1>2, <1>5, <1>6
<1>8. Retracted(db, p, s, dl)
  BY <1>6, PopLevelsMakes
<1>9. p \in States(db) /\ p \in State /\ Good(db, p)
  BY <1>8 DEF Retracted, Good, States
<1>10. PICK f : f = [id \in DOMAIN db |-> 1]
  OBVIOUS
<1>11. f \in Seq(Nat) /\ Len(f) = Len(db)
  BY <1>10 DEF Databases
<1>12. PICK r : r = [p EXCEPT !.from = f]
  OBVIOUS
<1>13. /\ r \in States(db) /\ r.trail = p.trail /\ r.next = p.next /\ r.sums = p.sums
       /\ r.conflict = p.conflict /\ r.culprit = p.culprit /\ r.heap = p.heap
       /\ r.watches = p.watches /\ r.bins = p.bins /\ r.clauses = p.clauses
  BY <1>9, <1>11, <1>12 DEF States, State
<1>14. BackjumpToDL(db, s, dl) = r
  BY <1>6, <1>10, <1>12 DEF BackjumpToDL
<1>15. Good(db, r)
  <2>1. Orderly(r) /\ Discounted(r) = Discounted(p)
    BY <1>9, <1>13 DEF Good, Orderly, Discounted
  <2> QED BY <1>9, <1>13, <2>1 DEF Good, CountersRight
<1>16. Level(r) = dl /\ \A i \in 1 .. Len(r.trail) : r.trail[i].dl <= dl
  BY <1>8, <1>13 DEF Retracted, Level
<1>17. Undone(r, s, dl)
  BY <1>7, <1>13 DEF Undone, Cut
<1> QED BY <1>7, <1>13, <1>14, <1>15, <1>16, <1>17 DEF JumpedBack

-----------------------------------------------------------------------------
(* Conflict analysis. *)

(* Everything is taken back until f is not falsified, by the last literal taken
   back, or the level is 0. *)
Pop(db, f, r) ==
  IF Level(r.s) = 0 \/ Slack(f, r.s) >= 0 THEN r
  ELSE [s |-> PopAndUnassign(db, r.s), top |-> Last(r.s.trail)]

PopStates(db) == {r \in [s : State, top : [lit : Int, dl : Nat, reason : Reason]] : Good(db, r.s)}

LEMMA PopType ==
  ASSUME NEW db \in Databases, NEW f, NEW r \in PopStates(db)
  PROVE  Pop(db, f, r) \in PopStates(db)
<1>1. PICK s, top : r = [s |-> s, top |-> top] /\ s \in State /\ Good(db, s) /\ s = r.s
  BY DEF PopStates
<1>2. CASE Level(s) = 0 \/ Slack(f, s) >= 0
  BY <1>1, <1>2 DEF Pop
<1>3. CASE ~(Level(s) = 0 \/ Slack(f, s) >= 0)
  <2>1. s.trail # <<>> /\ s.trail \in Seq(TrailEntry) /\ Level(s) \in Nat /\ Level(s) # 0
    BY <1>1, <1>3, StateFacts DEF Level
  <2>2. Len(s.trail) \in Nat /\ Len(s.trail) # 0 /\ Len(s.trail) \in 1 .. Len(s.trail)
    BY <2>1
  <2>3. s.trail[Len(s.trail)].dl > 0
    BY <1>1, <2>1, <2>2, LevelIs DEF LevelAt
  <2>4. Good(db, PopAndUnassign(db, s))
    BY <1>1, <2>1, <2>3, PopUndoes
  <2>5. Last(s.trail) \in [lit : Int, dl : Nat, reason : Reason]
    <3>1. PICK q \in Seq(TrailEntry) : q = s.trail
      BY <2>1
    <3>2. Last(q) \in TrailEntry
      BY <2>1, <3>1, FrontFacts
    <3> QED BY <3>1, <3>2, LitFacts DEF TrailEntry
  <2>6. Pop(db, f, r) = [s |-> PopAndUnassign(db, s), top |-> Last(s.trail)]
    BY <1>1, <1>3 DEF Pop
  <2> QED BY <2>4, <2>5, <2>6 DEF PopStates, Good, States
<1> QED BY <1>2, <1>3

(* The literals are taken back one after the other. *)
LEMMA PoppedSteps ==
  ASSUME NEW db \in Databases, NEW f, NEW s, Good(db, s)
  PROVE  \E h \in [0 .. NumVars -> PopStates(db)] :
           /\ h[0] = [s |-> s, top |-> Assigned(0, 0, NoReason)]
           /\ \A i \in 1 .. NumVars : h[i] = Pop(db, f, h[i - 1])
           /\ Popped(db, s, f) = h[NumVars]
<1> DEFINE n == NumVars
           S == PopStates(db)
           b == [s |-> s, top |-> Assigned(0, 0, NoReason)]
           step(r, i) == Pop(db, f, r)
           idx == [v \in Vars |-> v]
           g == [p \in S \X (1 .. n) |-> step(p[1], idx[p[2]])]
           E(q) == q = [t \in SUBSET DOMAIN idx |->
                          IF t = {} THEN b ELSE step(q[t \ {Max(t)}], idx[Max(t)])]
           F == CHOOSE q : E(q)
<1>1. n \in Nat /\ b \in S /\ DOMAIN idx = 1 .. n /\ \A i \in 1 .. n : idx[i] = i
  <2>1. b \in S
    BY ReasonFacts DEF PopStates, Assigned, Good, States
  <2> QED BY <2>1, VarsAssumption DEF Vars
<1>2. g \in [S \X (1 .. n) -> S]
  <2>1. \A r \in S, i \in 1 .. n : step(r, idx[i]) \in S
    BY PopType
  <2> HIDE DEF step
  <2> QED BY <1>1, <2>1
<1>3. \A t \in SUBSET (1 .. n), r \in S : t # {} => g[<<r, Max(t)>>] = step(r, idx[Max(t)])
  BY <1>1, MaxInSet
<1>4. Popped(db, s, f) = F[DOMAIN idx]
  BY Zenon DEF Popped, Pop, FoldLeft, MapThenFoldSet
<1> HIDE DEF step, g, S, n, idx, b
<1>5. \E q : E(q)
  <2>1. PICK q \in [SUBSET (1 .. n) -> S] : Solves(q, n, b, g)
    BY <1>1, <1>2, FoldExists
  <2>2. E(q)
    BY <2>1, <1>1, <1>3 DEF Solves
  <2> QED BY <2>2
<1>6. E(F)
  BY <1>5, Zenon
<1> HIDE DEF F
<1>7. Follows(F, n, S, b, g)
  BY <1>1, <1>2, <1>6, <1>3 DEF Follows
<1>8. PICK h : Steps(h, F, n, S, b, g)
  BY <1>7, FoldSteps
<1>9. /\ h \in [0 .. n -> S] /\ h[0] = b /\ F[1 .. n] = h[n]
      /\ \A i \in 1 .. n : h[i] = g[<<h[i - 1], i>>] /\ h[i - 1] \in S
  BY <1>8, <1>1 DEF Steps
<1>10. \A i \in 1 .. n : h[i] = step(h[i - 1], i)
  BY <1>1, <1>9 DEF g
<1> QED BY <1>1, <1>4, <1>9, <1>10 DEF n, S, b, step


Topped(r, s, f) ==
  /\ Len(r.s.trail) < Len(s.trail) /\ r.top = s.trail[Len(r.s.trail) + 1] /\ r.top.dl > 0
  /\ SlackUnder(f, TrueLits(r.s) \cup {r.top.lit}) < 0

PopsTo(db, r, s, f) ==
  /\ Good(db, r.s) /\ Undone(r.s, s, 0) /\ r.s.conflict = s.conflict
  /\ Slack(f, r.s) >= 0 => Topped(r, s, f)

LEMMA PopStep ==
  ASSUME NEW db \in Databases, NEW s \in State, NEW f \in Forms, NEW r, PopsTo(db, r, s, f),
         NEW q, q = Pop(db, f, r)
  PROVE  /\ PopsTo(db, q, s, f)
         /\ Level(r.s) = 0 \/ Slack(f, r.s) >= 0 => q = r
         /\ \/ Level(r.s) = 0 \/ Slack(f, r.s) >= 0
            \/ Len(q.s.trail) = Len(r.s.trail) - 1
<1>1. PICK u : u = r.s
  OBVIOUS
<1>2. Good(db, u) /\ Undone(u, s, 0) /\ u \in State /\ u.trail \in Seq(TrailEntry) /\ Level(u) \in Nat
      /\ Len(u.trail) \in Nat /\ Len(s.trail) \in Nat
  BY <1>1, StateFacts DEF PopsTo, Good, States
<1>3. CASE Level(u) = 0 \/ Slack(f, u) >= 0
  <2>1. q = r
    BY <1>1, <1>3 DEF Pop
  <2> QED BY <1>1, <1>3, <2>1
<1>4. CASE ~(Level(u) = 0 \/ Slack(f, u) >= 0)
  <2>1. u.trail # <<>>
    BY <1>4 DEF Level
  <2>2. Len(u.trail) # 0 /\ Len(u.trail) \in 1 .. Len(u.trail)
    BY <1>2, <2>1
  <2>3. u.trail[Len(u.trail)].dl > 0
    BY <1>2, <1>4, <2>2, LevelIs DEF LevelAt
  <2>4. PICK v : v = PopAndUnassign(db, u)
    OBVIOUS
  <2>5. Good(db, v) /\ Undone(v, u, 0) /\ Len(v.trail) = Len(u.trail) - 1 /\ v.conflict = u.conflict
    BY <1>2, <2>1, <2>3, <2>4, PopUndoes
  <2>6. v \in State
    BY <2>5 DEF Good, States
  <2>7. Undone(v, s, 0)
    BY <1>2, <2>5, <2>6, UndoneTrans
  <2>8. PICK top : top = Last(u.trail)
    OBVIOUS
  <2>9. top = u.trail[Len(u.trail)]
    <3>1. PICK w \in Seq(TrailEntry) : w = u.trail
      BY <1>2
    <3>2. Last(w) = w[Len(w)]
      BY <2>1, <3>1, FrontFacts
    <3> QED BY <2>8, <3>1, <3>2
  <2>10. q = [s |-> v, top |-> top]
    BY <1>1, <1>4, <2>4, <2>8 DEF Pop
  <2>11. Len(v.trail) < Len(s.trail) /\ top = s.trail[Len(v.trail) + 1] /\ top.dl > 0
    <3>1. Len(u.trail) <= Len(s.trail) /\ u.trail[Len(u.trail)] = s.trail[Len(u.trail)]
      BY <1>2, <2>2 DEF Undone, Cut
    <3>2. Len(v.trail) + 1 = Len(u.trail)
      BY <1>2, <2>5
    <3> QED BY <1>2, <2>2, <2>3, <2>5, <2>9, <3>1, <3>2
  <2>12. TrueLits(u) = TrueLits(v) \cup {top.lit}
    <3>1. TrueLits(v) \subseteq TrueLits(u)
      BY <1>2, <2>5, <2>6, UndoneLits
    <3>2. top.lit \in TrueLits(u)
      BY <1>2, <2>2, <2>9, StateFacts DEF TrueLits
    <3>3. ASSUME NEW l \in TrueLits(u) PROVE l \in TrueLits(v) \cup {top.lit}
      <4>1. \/ l \in TrueLits(v)
            \/ \E i \in Len(v.trail) + 1 .. Len(u.trail) : u.trail[i].lit = l
        BY <1>2, <2>5, <2>6, <3>3, UndoneLits
      <4>2. \A i \in Len(v.trail) + 1 .. Len(u.trail) : i = Len(u.trail)
        BY <1>2, <2>5
      <4> QED BY <2>9, <4>1, <4>2
    <3> QED BY <3>1, <3>2, <3>3
  <2>13. SlackUnder(f, TrueLits(v) \cup {top.lit}) < 0
    <3>1. Slack(f, u) \in Int
      BY SlackType DEF Slack
    <3>2. Slack(f, u) < 0
      BY <1>4, <3>1
    <3> QED BY <2>12, <3>2 DEF Slack
  <2>14. q.s = v /\ q.top = top
    BY <2>10
  <2>15. PopsTo(db, q, s, f)
    BY <1>1, <2>5, <2>7, <2>11, <2>13, <2>14 DEF PopsTo, Topped
  <2> QED BY <1>1, <1>4, <2>5, <2>14, <2>15
<1> QED BY <1>3, <1>4

LEMMA PoppedTo ==
  ASSUME NEW db \in Databases, NEW s, Good(db, s), NEW f \in Forms, Slack(f, s) < 0,
         NEW p, p = Popped(db, s, f)
  PROVE  PopsTo(db, p, s, f) /\ (Level(p.s) = 0 \/ Slack(f, p.s) >= 0)
<1>1. NumVars \in Nat /\ s \in State /\ s.next <= Len(s.trail) /\ Orderly(s) /\ Len(s.trail) \in Nat
      /\ Len(s.trail) <= NumVars
  BY VarsAssumption, StateFacts, TrailFits DEF Good, States, Orderly
<1>2. PICK h \in [0 .. NumVars -> PopStates(db)] :
         /\ h[0] = [s |-> s, top |-> Assigned(0, 0, NoReason)]
         /\ \A i \in 1 .. NumVars : h[i] = Pop(db, f, h[i - 1])
         /\ Popped(db, s, f) = h[NumVars]
  BY PoppedSteps
<1> DEFINE Far(r, i) == Level(r.s) = 0 \/ Slack(f, r.s) >= 0 \/ Len(r.s.trail) <= Len(s.trail) - i
           T == {i \in 0 .. NumVars : PopsTo(db, h[i], s, f) /\ Far(h[i], i)}
<1>3. 0 \in T
  <2>1. PICK b : b = h[0] /\ b.s = s
    BY <1>2
  <2>2. Undone(s, s, 0)
    BY <1>1, UndoneSelf
  <2>3. PopsTo(db, b, s, f)
    <3>1. Slack(f, s) \in Int
      BY SlackType DEF Slack
    <3>2. ~(Slack(f, s) >= 0)
      BY <3>1
    <3> QED BY <2>1, <2>2, <3>2 DEF PopsTo
  <2>4. Far(b, 0)
    BY <1>1, <2>1
  <2> QED BY <1>1, <2>1, <2>3, <2>4
<1>4. ASSUME NEW i \in 1 .. NumVars, i - 1 \in T PROVE i \in T
  <2>1. PICK r, q : r = h[i - 1] /\ q = h[i]
    OBVIOUS
  <2>2. PopsTo(db, r, s, f) /\ Far(r, i - 1)
    BY <1>4, <2>1
  <2>3. q = Pop(db, f, r)
    BY <1>2, <2>1
  <2>4. /\ PopsTo(db, q, s, f)
        /\ Level(r.s) = 0 \/ Slack(f, r.s) >= 0 => q = r
        /\ \/ Level(r.s) = 0 \/ Slack(f, r.s) >= 0
           \/ Len(q.s.trail) = Len(r.s.trail) - 1
    BY <1>1, <2>2, <2>3, PopStep
  <2>5. Len(r.s.trail) \in Nat /\ Len(q.s.trail) \in Nat
    BY <2>2, <2>4, StateFacts DEF PopsTo, Good, States
  <2>6. Far(q, i)
    BY <1>1, <2>2, <2>4, <2>5
  <2> HIDE DEF Far
  <2> QED BY <1>1, <2>1, <2>4, <2>6
<1>5. NumVars \in T
  <2> HIDE DEF T
  <2>1. Inductive(NumVars, T)
    BY <1>1, <1>3, <1>4 DEF Inductive
  <2> QED BY <1>1, <2>1, InductionUpTo
<1>6. PopsTo(db, p, s, f) /\ Far(p, NumVars)
  BY <1>2, <1>5
<1>7. Len(p.s.trail) <= Len(s.trail) - NumVars => Level(p.s) = 0
  <2>1. p.s \in State /\ p.s.trail \in Seq(TrailEntry) /\ Len(p.s.trail) \in Nat
    BY <1>6, StateFacts DEF PopsTo, Good, States
  <2>2. Len(p.s.trail) <= Len(s.trail) - NumVars => Len(p.s.trail) = 0
    BY <1>1, <2>1
  <2>3. Level(p.s) = LevelAt(p.s.trail, Len(p.s.trail))
    BY <2>1, LevelIs
  <2> QED BY <2>2, <2>3 DEF LevelAt
<1> QED BY <1>6, <1>7

(* What a literal's falsity takes from the slack. *)
LEMMA FalsifierPushes ==
  ASSUME NEW f \in Forms, NEW T, NEW lit \in Lits, {lit, -lit} \cap T = {},
         SlackUnder(f, T) >= 0, SlackUnder(f, T \cup {lit}) < 0
  PROVE  LET x == Magnitude(lit) IN Pushes(f, x, T) /\ LitOf(f, x) = -lit /\ x \in Vars
<1>1. PICK x \in Vars : x = Magnitude(lit) /\ (lit = x \/ lit = -x)
  BY VarFacts
<1>2. x \in Int /\ -(-x) = x /\ x # -x /\ x \in Lits /\ -x \in Lits
  BY <1>1, VarFacts, LitFacts
<1>3. /\ SlackUnder(f, T) \in Int /\ SlackUnder(f, T \cup {lit}) \in Int
      /\ SlackUnder(f, T) = Weight(f, Free(T)) - f.k
      /\ SlackUnder(f, T \cup {lit}) = Weight(f, Free(T \cup {lit})) - f.k
      /\ Weight(f, Free(T)) \in Nat /\ Weight(f, Free(T \cup {lit})) \in Nat /\ f.k \in Int
  BY SlackType, FormFacts
<1>4. ASSUME NEW v \in Vars, v # x \/ LitOf(f, v) # -lit PROVE LitOf(f, v) \in Free(T) <=> LitOf(f, v) \in Free(T \cup {lit})
  <2>1. PICK l \in Lits : l = LitOf(f, v) /\ (l = v \/ l = -v)
    BY FormFacts
  <2>2. -l # lit
    <3>1. -l = lit => l = -lit
      BY <1>1, <2>1, LitFacts
    <3>2. -l = lit => Magnitude(l) = x
      BY <1>1, <2>1, VarFacts
    <3>3. Magnitude(l) = v
      BY <2>1, VarFacts
    <3> QED BY <1>4, <2>1, <3>1, <3>2, <3>3
  <2> QED BY <2>1, <2>2 DEF Free
<1>5. x \in Used(f) /\ LitOf(f, x) = -lit
  <2> SUFFICES ASSUME ~(x \in Used(f) /\ LitOf(f, x) = -lit) PROVE FALSE
    OBVIOUS
  <2>1. \A v \in Used(f) : LitOf(f, v) \in Free(T) <=> LitOf(f, v) \in Free(T \cup {lit})
    BY <1>4, FormFacts
  <2>2. Weight(f, Free(T)) = Weight(f, Free(T \cup {lit}))
    BY <2>1, WeightSame
  <2> QED BY <1>3, <2>2
<1>6. LitOf(f, x) \in Free(T)
  BY <1>5, LitFacts DEF Free
<1>7. Weight(f, Free(T) \ {LitOf(f, x)}) = Weight(f, Free(T)) - Weights(f)[x]
  BY <1>5, <1>6, WeightWithout
<1>8. Weight(f, Free(T) \ {LitOf(f, x)}) = Weight(f, Free(T \cup {lit}))
  <2>1. \A v \in Used(f) : LitOf(f, v) \in Free(T) \ {LitOf(f, x)} <=> LitOf(f, v) \in Free(T \cup {lit})
    <3> SUFFICES ASSUME NEW v \in Used(f)
                 PROVE  LitOf(f, v) \in Free(T) \ {LitOf(f, x)} <=> LitOf(f, v) \in Free(T \cup {lit})
      OBVIOUS
    <3>1. v \in Vars
      BY FormFacts
    <3>2. CASE v = x
      <4>1. LitOf(f, x) \notin Free(T \cup {lit})
        BY <1>5, LitFacts DEF Free
      <4> QED BY <3>2, <4>1
    <3>3. CASE v # x
      <4>1. LitOf(f, v) # LitOf(f, x)
        <5>1. PICK l \in Lits : l = LitOf(f, v) /\ (l = v \/ l = -v)
          BY <3>1, FormFacts
        <5>2. PICK k \in Lits : k = LitOf(f, x) /\ (k = x \/ k = -x)
          BY FormFacts
        <5>3. Magnitude(l) = v /\ Magnitude(k) = x
          BY <3>1, <5>1, <5>2, VarFacts
        <5> QED BY <3>3, <5>1, <5>2, <5>3
      <4> QED BY <1>4, <3>1, <3>3, <4>1
    <3> QED BY <3>2, <3>3
  <2> QED BY <2>1, WeightSame
<1>9. Weights(f)[x] \in Nat
  BY FormFacts
<1>10. SlackUnder(f, T) < Weights(f)[x]
  BY <1>3, <1>7, <1>8, <1>9
<1>11. {x, -x} \cap T = {}
  BY <1>1, <1>2
<1> QED BY <1>1, <1>5, <1>10, <1>11 DEF Pushes

(* What analysis comes to: level 0, or a literal taken back that f and, if it was
   propagated, its reason propagate in opposite ways. *)
LEMMA PoppedRight ==
  ASSUME NEW db \in Databases, NEW s, Core(db, s), NEW f \in Forms, Slack(f, s) < 0,
         NEW p, p = Popped(db, s, f), NEW t, t = p.s
  PROVE  /\ Core(db, t) /\ Undone(t, s, 0) /\ t.conflict = s.conflict
         /\ \A m : Upholds(db, s, m) => Upholds(db, t, m)
         /\ Slack(f, t) < 0 => Level(t) = 0
         /\ Slack(f, t) >= 0 =>
              \E lit \in Lits, x \in Vars :
                /\ lit = p.top.lit /\ x = Magnitude(lit)
                /\ Pushes(f, x, TrueLits(t)) /\ LitOf(f, x) = -lit
                /\ p.top.reason # NoReason =>
                     Due(db, t, p.top.reason, lit, TrueLits(t)) /\ lit \notin TrueLits(t)
<1>1. s \in State /\ Good(db, s) /\ Orderly(s) /\ Len(s.trail) \in Nat
  BY StateFacts DEF Core, Good, States
<1>2. PopsTo(db, p, s, f) /\ (Level(t) = 0 \/ Slack(f, t) >= 0)
  BY <1>1, PoppedTo
<1>3. Good(db, t) /\ Undone(t, s, 0) /\ t.conflict = s.conflict /\ (Slack(f, t) >= 0 => Topped(p, s, f))
  BY <1>2 DEF PopsTo
<1>4. /\ Core(db, t) /\ Retains(t, s) /\ Retains(s, t)
      /\ \A m : Upholds(db, s, m) => Upholds(db, t, m)
  BY <1>3, UndoneCore
<1>5. t \in State /\ Len(t.trail) \in Nat
  BY <1>3, StateFacts DEF Good, States
<1>6. Slack(f, t) < 0 => Level(t) = 0
  <2>1. Slack(f, t) \in Int
    BY SlackType DEF Slack
  <2> QED BY <1>2, <2>1
<1>7. ASSUME Slack(f, t) >= 0
      PROVE  \E lit \in Lits, x \in Vars :
                /\ lit = p.top.lit /\ x = Magnitude(lit)
                /\ Pushes(f, x, TrueLits(t)) /\ LitOf(f, x) = -lit
                /\ p.top.reason # NoReason =>
                     Due(db, t, p.top.reason, lit, TrueLits(t)) /\ lit \notin TrueLits(t)
  <2>1. Topped(p, s, f)
    BY <1>3, <1>7
  <2>2. PICK n \in 1 .. Len(s.trail) : n = Len(t.trail) + 1
    BY <1>1, <1>5, <2>1 DEF Topped
  <2>3. PICK e \in TrailEntry : e = s.trail[n]
    BY <1>1, <2>2, StateFacts
  <2>4. p.top = e /\ e.dl > 0 /\ SlackUnder(f, TrueLits(t) \cup {e.lit}) < 0
    BY <2>1, <2>2, <2>3 DEF Topped
  <2>5. PICK lit \in Lits : lit = e.lit
    BY DEF TrailEntry
  <2>6. {lit, -lit} \cap TrueLits(t) = {}
    <3> SUFFICES ASSUME NEW l \in TrueLits(t), l = lit \/ l = -lit PROVE FALSE
      OBVIOUS
    <3>1. PICK j \in 1 .. Len(t.trail) : t.trail[j].lit = l
      BY <1>5, StateFacts DEF TrueLits
    <3>2. j \in 1 .. Len(s.trail) /\ j # n /\ s.trail[j].lit = l
      <4>1. s.trail[j] = t.trail[j]
        BY <1>3 DEF Undone, Cut
      <4> QED BY <1>1, <1>5, <2>2, <3>1, <4>1
    <3>3. s.trail[j].lit # s.trail[n].lit /\ s.trail[j].lit # -s.trail[n].lit
      BY <1>1, <3>2 DEF Orderly, Consistent
    <3> QED BY <2>3, <2>5, <3>2, <3>3
  <2>7. PICK x \in Vars : x = Magnitude(lit) /\ Pushes(f, x, TrueLits(t)) /\ LitOf(f, x) = -lit
    <3>1. SlackUnder(f, TrueLits(t)) >= 0 /\ SlackUnder(f, TrueLits(t) \cup {lit}) < 0
      BY <1>7, <2>4, <2>5 DEF Slack
    <3> QED BY <2>6, <3>1, FalsifierPushes
  <2>8. ASSUME p.top.reason # NoReason
        PROVE  Due(db, t, p.top.reason, lit, TrueLits(t)) /\ lit \notin TrueLits(t)
    <3>1. Entitled(db, s, n)
      BY DEF Core, Founded
    <3>2. Due(db, s, p.top.reason, lit, Before(s.trail, n))
      BY <2>3, <2>4, <2>5, <2>8, <3>1 DEF Entitled
    <3>3. Before(s.trail, n) = TrueLits(t)
      BY <1>1, <1>3, <1>5, <2>2, UndoneLits
    <3>4. Prolongs(db, db) /\ Len(db) \in Nat
      BY ProlongsSelf
    <3>5. Due(db, t, p.top.reason, lit, TrueLits(t))
      BY <1>1, <1>4, <1>5, <3>2, <3>3, <3>4, DueKept
    <3> QED BY <2>6, <3>5
  <2> QED BY <2>4, <2>5, <2>7, <2>8
<1> QED BY <1>3, <1>4, <1>6, <1>7

(* The cut with the reason is falsified in turn, and follows. *)
LEMMA AnalyseCut ==
  ASSUME NEW db \in Databases, NEW s, Core(db, s), NEW f \in Forms, NEW lit \in Lits, NEW x \in Vars,
         x = Magnitude(lit), Pushes(f, x, TrueLits(s)), LitOf(f, x) = -lit,
         NEW why, Due(db, s, why, lit, TrueLits(s)), lit \notin TrueLits(s),
         NEW cut, cut = FalsifiedCut(x, f, WConstraint(db, s, why, lit), s)
  PROVE  /\ IsFalsified(cut.form, TrueLits(s))
         /\ \A m : Upholds(db, s, m) /\ Admits(f, m) => Admits(cut.form, m)
<1>1. s \in State /\ Orderly(s) /\ ClausesMade(s) /\ BinsMade(s) /\ Len(s.trail) \in Nat
  BY StateFacts DEF Core, Good, States, WellMade
<1>2. PICK g : g = WConstraint(db, s, why, lit)
  OBVIOUS
<1>3. Forces(g, lit, TrueLits(s)) /\ Known(db, s, why, lit)
  BY <1>2 DEF Due
<1>4. Pushes(g, x, TrueLits(s)) /\ LitOf(g, x) = lit
  BY <1>3, ForcesPushes
<1>5. Opposed(f, g, x)
  <2>1. f \in Forms /\ g \in Forms /\ x \in Used(f) /\ x \in Used(g)
    BY <1>4 DEF Pushes
  <2>2. lit # -lit
    BY LitFacts
  <2> QED BY <1>4, <2>1, <2>2, OpposedLits
<1>6. Covers(Free(TrueLits(s)))
  <2> SUFFICES ASSUME NEW v \in Vars, v \in TrueLits(s), -v \in TrueLits(s) PROVE FALSE
    BY VarFacts DEF Covers, Free
  <2>1. PICK i \in 1 .. Len(s.trail), j \in 1 .. Len(s.trail) : s.trail[i].lit = v /\ s.trail[j].lit = -v
    BY StateFacts, <1>1 DEF TrueLits
  <2>2. v # -v
    BY VarFacts
  <2>3. i # j
    BY <2>1, <2>2
  <2>4. s.trail[j].lit # -s.trail[i].lit
    BY <1>1, <2>3 DEF Orderly, Consistent
  <2> QED BY <2>1, <2>4
<1>7. IsFalsified(cut.form, TrueLits(s)) /\ Implies(f, g, cut.form)
  BY <1>2, <1>4, <1>5, <1>6, FalsifiedCutRight
<1>8. ASSUME NEW m, Upholds(db, s, m), Admits(f, m) PROVE Admits(cut.form, m)
  <2>1. Obeys(db, s, m) /\ Complete(m)
    BY <1>8 DEF Upholds, Obeys
  <2>2. Admits(g, m)
    BY <1>1, <1>2, <1>3, <2>1, KnownForm
  <2> QED BY <1>7, <1>8, <2>1, <2>2 DEF Implies
<1> QED BY <1>7, <1>8

=============================================================================
