-------------------------- MODULE ConflictAnalysis --------------------------
(***************************************************************************)
(* Conflict analysis in the native solver (ConflictAnalysis.cpp), as       *)
(* operators on its state: one iteration of the loop of                    *)
(* conflictAnalysisAndBackjump is Resolved, and Jumped its second half,    *)
(* where a constraint is learned.                                          *)
(***************************************************************************)
EXTENDS ClauseSolver, Cuts

(* A constraint, a clause, or a binary clause that contains lit. *)
WConstraint(db, s, why, lit) ==
  CASE why[1] = "PB"     -> Form(db[why[2]])
    [] why[1] = "clause" -> ClauseForm(ToSet(s.clauses[why[2]].lits))
    [] why[1] = "bin"    -> ClauseForm({lit, why[2]})

(* What is falsified when analysis starts. *)
Falsified(db, s) ==
  WConstraint(db, s, s.culprit, IF s.culprit[1] = "bin" THEN s.culprit[3] ELSE 0)

(* Literals are popped until the form f is no longer falsified, or the level
   is 0.  top is what was popped last. *)
Popped(db, s, f) ==
  LET pop(r, v) == IF Level(r.s) = 0 \/ Slack(f, r.s) >= 0 THEN r
                   ELSE [s |-> PopAndUnassign(db, r.s), top |-> Last(r.s.trail)]
  IN FoldLeft(pop, [s |-> s, top |-> Assigned(0, 0, NoReason)], [v \in Vars |-> v])

-----------------------------------------------------------------------------
(* The constraint is falsified by the cut without further ado. *)
Enough(cut, s) == ~cut.overflow /\ Slack(cut.form, s) < 0

Size(f) == Cardinality(Used(f))

(* A cut that is falsified: of the two, or with the longer weakened to a clause,
   or with both.  fits: none of the cuts tried has left its integer type. *)
FalsifiedCut(x, conf, reas, s) ==
  LET first  == ApplyCut(x, conf, reas)
      longer == Size(reas) > Size(conf)
      conf2  == IF longer THEN conf ELSE FixRounding(conf, x, s)
      reas2  == IF longer THEN FixRounding(reas, x, s) ELSE reas
      second == ApplyCut(x, conf2, reas2)
      third  == ApplyCut(x, FixRounding(conf2, x, s), FixRounding(reas2, x, s))
  IN IF Enough(first, s) THEN first
     ELSE IF ~second.overflow THEN [second EXCEPT !.fits = @ /\ first.fits]
     ELSE [third EXCEPT !.fits = @ /\ first.fits /\ second.fits]

-----------------------------------------------------------------------------
(* lemmaShortening. *)
Entry(s, v) == s.trail[CHOOSE i \in DOMAIN s.trail : s.trail[i].lit \in {v, -v}]

(* The variables that the value of v rests on, as far as they are visited: of a
   constraint all that are false. *)
Antecedents(db, s, v) ==
  LET why == Entry(s, v).reason
      of(lits) == {Magnitude(l) : l \in lits}
  IN CASE why[1] = "none"   -> {}
       [] why[1] = "bin"    -> of({why[2]})
       [] why[1] = "clause" -> of(ToSet(s.clauses[why[2]].lits))
       [] why[1] = "PB"     -> {v} \cup of({l \in LitsOf(db[why[2]]) : IsFalseLit(s, l)})

(* What is reached from v without passing marked variables and units. *)
Reached(db, s, v, marked) ==
  LET ignored == marked \cup {u \in Vars : ~IsUndefLit(s, u) /\ DLOfLit(s, u) = 0}
      step(S) == S \cup (UNION {Antecedents(db, s, u) : u \in S} \ ignored)
  IN FoldLeft(LAMBDA S, u : step(S), Antecedents(db, s, v) \ ignored, [u \in Vars |-> u])

(* The other literals imply this one, or it is false from the start. *)
Redundant(db, s, v, marked, lowest) ==
  /\ Entry(s, v).reason # NoReason
  /\ \/ DLOfLit(s, v) = 0
     \/ \A u \in Reached(db, s, v, marked) :
          DLOfLit(s, u) >= lowest /\ Entry(s, u).reason # NoReason

(* The literals after the first, the latest level first, less the redundant
   ones, which are no longer marked once they are found. *)
LemmaShortening(db, s, lemma) ==
  LET dl(i)  == DLOfLit(s, lemma[i])
      others == 2 .. Len(lemma)
      later(i, j) == dl(i) > dl(j) \/ (dl(i) = dl(j) /\ i < j)
      order  == Ordered(others, {p \in others \X others : later(p[1], p[2])})
      lowest == dl(Last(order))
      keep(r, i) ==
        LET v == Magnitude(lemma[i]) IN
        IF Redundant(db, s, v, r.marked, lowest) THEN [r EXCEPT !.marked = @ \ {v}]
        ELSE [r EXCEPT !.lits = Append(@, lemma[i])]
  IN IF Len(lemma) <= 1 \/ Level(s) = 0 THEN lemma
     ELSE FoldLeft(keep, [lits |-> <<lemma[1]>>, marked |-> {Magnitude(l) : l \in ToSet(lemma)}],
                   order).lits

(* The falsified clause f with its literal of the last level first. *)
Lemma(f, s) ==
  LET lits == Picked([v \in Vars |-> LitOf(f, v)], Used(f))
      uip  == CHOOSE i \in DOMAIN lits :
                \A j \in DOMAIN lits \ {i} : DLOfLit(s, lits[j]) < DLOfLit(s, lits[i])
  IN [lits EXCEPT ![1] = lits[uip], ![uip] = lits[1]]

OneOfLastLevel(f, s) ==
  Cardinality({v \in Used(f) : DLOfLit(s, v) = Max(LevelsOf(f, s))}) = 1

-----------------------------------------------------------------------------
(* A solver is [db, s, confl, short] during analysis: confl is the constraint
   that is falsified, short is learnedShortConstraints. *)

(* A lemma is learned and its first literal becomes true. *)
LearnClause(s, lemma, lbd) ==
  IF Len(lemma) = 1
    THEN IF IsFalseLit(s, lemma[1]) THEN Clash(s, NoReason)
                                    ELSE SetTrue(s, lemma[1], NoReason)
  ELSE IF Len(lemma) = 2
    THEN SetTrue(AddBinaryClause(s, lemma[1], lemma[2]), lemma[1], <<"bin", lemma[2]>>)
  ELSE SetTrue(AddClause(s, lemma, FALSE, lbd), lemma[1], <<"clause", Len(s.clauses) + 1>>)

(* The solver a falsified clause f leads to when it jumps back to level dl. *)
JumpedWithClause(a, f, dl) ==
  LET lemma  == LemmaShortening(a.db, a.s, Lemma(f, a.s))
      back   == BackjumpToDL(a.db, a.s, dl)
      short  == IF Size(f) <= 3 THEN a.short \cup {f} ELSE a.short
  IN IF OneOfLastLevel(f, a.s)
       THEN [a EXCEPT !.s     = LearnClause(NoConflict(back), lemma,
                                            LBD(ClauseForm(ToSet(lemma)), a.s)),
                      !.confl = NoForm, !.short = short]
       ELSE [a EXCEPT !.s = back, !.confl = f, !.short = short]

Learned(f, lbd) == Simplify([k |-> f.k, lhs |-> Terms(f), init |-> FALSE, lbd |-> lbd])

(* addAndPropagatePBConstraint for the learned form f. *)
LearnPB(a, back, f) ==
  LET c  == Learned(f, LBD(f, back))
      db == Append(a.db, c)
  IN [db    |-> db,
      s     |-> AddConstraint(db, NoConflict(back), Len(db)),
      confl |-> NoForm,
      short |-> IF Len(c.lhs) <= 3 THEN a.short \cup {Form(c)} ELSE a.short]

(* The same with another constraint; it may still be falsified there. *)
JumpedWithPB(a, f, dl) ==
  LET back == BackjumpToDL(a.db, a.s, dl)
      g    == RemoveUnits(f, back)
  IN IF Slack(f, back) >= 0 THEN LearnPB(a, back, g)
     ELSE [a EXCEPT !.s = back, !.confl = IF dl = 0 THEN NoForm ELSE g]

Jumped(a, cut) ==
  LET dl == IF cut.clash THEN LowestDL(cut.form, a.s) ELSE NoLevel
  IN IF dl = NoLevel THEN [a EXCEPT !.confl = cut.form]
     ELSE IF IsClause(cut.form) THEN JumpedWithClause(a, cut.form, dl)
     ELSE JumpedWithPB(a, cut.form, dl)

=============================================================================
