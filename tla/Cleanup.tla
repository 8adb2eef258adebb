------------------------------- MODULE Cleanup -------------------------------
(***************************************************************************)
(* doCleanup (Cleanup.cpp) as operators on the solver's state.  It runs at *)
(* level 0, with nothing left to propagate: what is satisfied and the      *)
(* worse half of what was learned goes, the literals that are assigned     *)
(* leave the rest, and lists, watches and counters are built anew.  obj is *)
(* the number of the objective's constraint, 0 if there is none.           *)
(***************************************************************************)
EXTENDS ClauseSolver, Cuts

NotFalsified(s, lits) == Picked(lits, {i \in DOMAIN lits : IsUndefLit(s, lits[i])})

Satisfied(s, c) == Weigh(c, TrueLits(s)) >= c.k

SatisfiedClause(s, cl) == \E l \in ToSet(cl.lits) : IsTrueLit(s, l)

(* Learned constraints and clauses that are not satisfied. *)
Learnts(db, s, obj) ==
  {<<"PB", i>> : i \in {j \in DOMAIN db : j # obj /\ ~db[j].init /\ ~Satisfied(s, db[j])}}
  \cup {<<"clause", i>> : i \in {j \in DOMAIN s.clauses :
                                   ~s.clauses[j].init /\ ~SatisfiedClause(s, s.clauses[j])}}

LBDOf(db, s, x) == IF x[1] = "PB" THEN db[x[2]].lbd ELSE s.clauses[x[2]].lbd

(* Of these, the ones that may be deleted. *)
Candidates(db, s, obj) ==
  {x \in Learnts(db, s, obj) :
     LBDOf(db, s, x) > 2 /\ (x[1] = "PB" => Len(db[x[2]].lhs) > 2)}

(* What is deleted: those with the largest LBD.  The activity decides among
   equals: any choice. *)
Deletions(db, s, obj) ==
  LET candidates == Candidates(db, s, obj)
      n == Lesser(Cardinality(Learnts(db, s, obj)) \div 2, Cardinality(candidates))
  IN {gone \in SUBSET candidates :
        /\ Cardinality(gone) = n
        /\ \A x \in gone, y \in candidates \ gone : LBDOf(db, s, x) >= LBDOf(db, s, y)}

-----------------------------------------------------------------------------
(* A constraint without its assigned literals. *)
Stripped(s, c) ==
  Simplify([c EXCEPT !.k   = @ - Weigh(c, TrueLits(s)),
                     !.lhs = Picked(@, {i \in DOMAIN c.lhs : IsUndefLit(s, c.lhs[i].lit)})])

(* The constraints that stay, stripped, but for the objective's. *)
KeptPBs(db, s, obj, gone) ==
  LET stripped == [i \in DOMAIN db |->
                     [obj |-> i = obj, c |-> IF i = obj THEN db[i] ELSE Stripped(s, db[i])]]
  IN Picked(stripped, {i \in DOMAIN db : i = obj \/ ~(<<"PB", i>> \in gone \/ Satisfied(s, db[i]))})

AsClause(c) == [lits |-> [i \in DOMAIN c.lhs |-> c.lhs[i].lit], init |-> c.init, lbd |-> c.lbd]

(* The clauses among them, and the old ones. *)
KeptClauses(s, pbs, gone) ==
  LET ofPBs == Picked(pbs, {i \in DOMAIN pbs : ~pbs[i].obj /\ pbs[i].c.k = 1})
      old   == Picked(s.clauses, {i \in DOMAIN s.clauses : ~(<<"clause", i>> \in gone
                                                              \/ SatisfiedClause(s, s.clauses[i]))})
  IN [i \in DOMAIN ofPBs |-> AsClause(ofPBs[i].c)]
       \o [i \in DOMAIN old |-> [lits |-> NotFalsified(s, old[i].lits),
                                 init |-> old[i].init, lbd |-> old[i].lbd]]

(* The binary clauses of undefined literals, each from its smaller variable. *)
KeptBins(s) ==
  LET of(lit) ==
        LET others == Picked(s.bins[lit], {i \in DOMAIN s.bins[lit] :
                                             /\ IsUndefLit(s, s.bins[lit][i])
                                             /\ Magnitude(lit) < Magnitude(s.bins[lit][i])})
        IN IF IsUndefLit(s, lit) THEN [i \in DOMAIN others |-> <<lit, others[i]>>] ELSE <<>>
  IN FoldLeft(LAMBDA q, v : q \o of(v), <<>>, [v \in Vars |-> v])
       \o FoldLeft(LAMBDA q, v : q \o of(-v), <<>>, [v \in Vars |-> v])

-----------------------------------------------------------------------------
(* buildBinaryClauses and buildWatchLists *)
WithClauses(s, all, bins) ==
  LET short == Picked(all, {i \in DOMAIN all : Len(all[i].lits) = 2})
      long  == Picked(all, {i \in DOMAIN all : Len(all[i].lits) > 2})
      pairs == [i \in DOMAIN short |-> short[i].lits] \o bins
      addBin(r, p)     == AddBinaryClause(r, p[1], p[2])
      addClause(r, cl) == AddClause(r, cl.lits, cl.init, cl.lbd)
  IN FoldLeft(addClause, FoldLeft(addBin, NoClauses(s), pairs), long)

WithCounters(s, db) ==
  [s EXCEPT !.sums = [i \in DOMAIN db |-> Weigh(db[i], LitsOf(db[i]) \ {-l : l \in TrueLits(s)})
                                            - db[i].k - MaxCoef(db[i])],
            !.from = [i \in DOMAIN db |-> 1]]

(* wrong: the objective's constraint is looked for where it was *)
ObjectiveNotMoved(db, s, obj, gone) ==
  LET pbs  == KeptPBs(db, s, obj, gone)
      rest == Picked(pbs, {i \in DOMAIN pbs : pbs[i].obj \/ pbs[i].c.k # 1})
      new  == [i \in DOMAIN rest |-> rest[i].c]
  IN [db  |-> new,
      s   |-> WithCounters(WithClauses(s, KeptClauses(s, pbs, gone), KeptBins(s)), new),
      obj |-> obj]

(* The solver and the number of the objective's constraint after a cleanup. *)
Cleaned(db, s, obj, gone) ==
  LET pbs  == KeptPBs(db, s, obj, gone)
      rest == Picked(pbs, {i \in DOMAIN pbs : pbs[i].obj \/ pbs[i].c.k # 1})
      new  == [i \in DOMAIN rest |-> rest[i].c]
      objs == {i \in DOMAIN rest : rest[i].obj}
  IN [db  |-> new,
      s   |-> WithCounters(WithClauses(s, KeptClauses(s, pbs, gone), KeptBins(s)), new),
      obj |-> IF objs = {} THEN 0 ELSE Max(objs)]

=============================================================================
