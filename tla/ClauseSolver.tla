---------------------------- MODULE ClauseSolver ----------------------------
(***************************************************************************)
(* Clauses in the native solver (Propagate.cpp, DBAddition.cpp,            *)
(* Cleanup.cpp): binary clauses in lists, longer ones with two watched     *)
(* literals.  Look-ahead has none.  In the solver's state                  *)
(*   clauses   [lits, idx, init, lbd]; the first two literals are watched, *)
(*             and the search for another one starts at idx                *)
(*   watches   for each literal the clauses [id, cached] that watch it:    *)
(*             if the cached literal is true there is nothing to do        *)
(*   bins      for each literal the other literals of its binary clauses   *)
(***************************************************************************)
EXTENDS PBSolver

NoClauses(s) ==
  [s EXCEPT !.clauses = <<>>, !.watches = [l \in Lits |-> <<>>], !.bins = [l \in Lits |-> <<>>]]

AddBinaryClause(s, l1, l2) ==
  [s EXCEPT !.bins[l1] = Append(@, l2), !.bins[l2] = Append(@, l1)]

AddClause(s, lits, init, lbd) ==
  LET entry == [id |-> Len(s.clauses) + 1, cached |-> Last(lits)]
  IN [s EXCEPT !.clauses = Append(@, [lits |-> lits, idx |-> 3, init |-> init, lbd |-> lbd]),
               !.watches[lits[1]] = Append(@, entry),
               !.watches[lits[2]] = Append(@, entry)]

-----------------------------------------------------------------------------
(* visitBinClause: lit became false. *)
VisitBins(s, lit) ==
  LET visit(r, other) ==
        IF r.conflict THEN r
        ELSE IF IsFalseLit(r, other) THEN Clash(r, <<"bin", lit, other>>)
        ELSE IF IsUndefLit(r, other) THEN SetTrue(r, other, <<"bin", lit>>)
        ELSE r
  IN FoldLeft(visit, s, s.bins[lit])

(* The first literal that is not false, from the cursor on and round; 0 if
   there is none. *)
Replacement(cl, s) ==
  LET free == {i \in 3 .. Len(cl.lits) : ~IsFalseLit(s, cl.lits[i])}
      late == {i \in free : i >= cl.idx}
      first(S) == CHOOSE i \in S : \A j \in S : i <= j
  IN IF late # {} THEN first(late) ELSE IF free # {} THEN first(free) ELSE 0

(* The clause is watched by the literal at i in place of lit. *)
Rewatched(s, e, i, lit, other) ==
  LET r == s.clauses[e.id].lits[i]
  IN [s EXCEPT !.clauses[e.id].idx  = i,
               !.clauses[e.id].lits = [@ EXCEPT ![1] = other, ![2] = r, ![i] = lit],
               !.watches[r] = Append(@, [id |-> e.id, cached |-> lit])]

(* One entry of the list of lit.  r.kept is the list as it will be. *)
VisitWatch(r, e, lit) ==
  LET s     == r.s
      cl    == s.clauses[e.id]
      other == IF cl.lits[1] = lit THEN cl.lits[2] ELSE cl.lits[1]
      i     == Replacement(cl, s)
      keep(t, cached) == [s |-> t, kept |-> Append(r.kept, [e EXCEPT !.cached = cached])]
  IN IF s.conflict \/ IsTrueLit(s, e.cached) THEN keep(s, e.cached)
     ELSE IF IsTrueLit(s, other)             THEN keep(s, other)
     ELSE IF i = 0 THEN
       keep(IF IsUndefLit(s, other) THEN SetTrue(s, other, <<"clause", e.id>>)
                                    ELSE Clash(s, <<"clause", e.id>>),
            e.cached)
     ELSE IF IsTrueLit(s, cl.lits[i]) THEN
       keep([s EXCEPT !.clauses[e.id].idx = i], cl.lits[i])
     ELSE [r EXCEPT !.s = Rewatched(s, e, i, lit, other)]

ListKept(r, lit) == [r.s EXCEPT !.watches[lit] = r.kept]

(* visitClauseWatchList *)
VisitClauses(s, lit) ==
  ListKept(FoldLeft(LAMBDA r, e : VisitWatch(r, e, lit), [s |-> s, kept |-> <<>>],
                    s.watches[lit]),
           lit)

-----------------------------------------------------------------------------
(* One round of propagate: binary clauses, clauses, constraints, as long as
   nothing conflicts. *)
VisitAll(db, s, lit) ==
  LET afterBins    == VisitBins(s, lit)
      afterClauses == IF afterBins.conflict THEN afterBins ELSE VisitClauses(afterBins, lit)
  IN IF afterClauses.conflict THEN afterClauses ELSE Visit(db, afterClauses, lit)

PropagateNextLit(db, s) ==
  IF s.conflict \/ s.next = Len(s.trail) THEN s
  ELSE Unpropagate(VisitAll(db, [s EXCEPT !.next = @ + 1], -s.trail[s.next + 1].lit))

(* solve calls propagate when there is no conflict. *)
PropagateAll(db, s) ==
  FoldLeft(LAMBDA r, v : PropagateNextLit(db, r), s, [v \in Vars |-> v])

=============================================================================
