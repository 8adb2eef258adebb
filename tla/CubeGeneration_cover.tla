------------------------- MODULE CubeGeneration_cover -------------------------
(***************************************************************************)
(* Proofs about what the workers of CubeGeneration do together: their      *)
(* cubes do not overlap, because two workers are in step, have parted, or  *)
(* are done with each other; and no solution is lost, because a worker     *)
(* that passes one over leaves it to a companion of its group.  Last, a    *)
(* worker that finds the problem satisfiable is right, because nothing is  *)
(* left to propagate when it looks ahead.                                  *)
(***************************************************************************)
EXTENDS CubeGeneration_proofs

(***************************************************************************)
(* How the stack of a worker moves.                                        *)
(***************************************************************************)
(* A call that has not branched yet searches everything below its path. *)
Wide(f) == f.stage \in {"enter", "look"}
Parting(f) == f.stage \in {"branch", "undo"}

(* The calls above the last go on, with their literals. *)
Kept(l, k) ==
  \A i \in 1 .. Len(l.stack) - 1 : k.stack[i] = l.stack[i] /\ k.current[i] = l.current[i]

Narrows(f, g) == Wide(f) \/ (Parting(f) /\ Parting(g) /\ Pending(g) \subseteq Pending(f))

Returns(l, k) ==
  /\ Len(k.stack) = Len(l.stack) - 1
  /\ Kept(l, k)
  /\ \/ k.cubes = l.cubes
     \/ Wide(Last(l.stack)) /\ k.cubes = Append(l.cubes, l.current)

Replaces(l, k) ==
  /\ Len(k.stack) = Len(l.stack)
  /\ Kept(l, k)
  /\ k.cubes = l.cubes
  /\ Narrows(Last(l.stack), k.stack[Len(l.stack)])

Descends(l, k) ==
  /\ Len(k.stack) = Len(l.stack) + 1
  /\ Kept(l, k)
  /\ k.cubes = l.cubes
  /\ ~Wide(Last(l.stack))
  /\ Narrows(Last(l.stack), k.stack[Len(l.stack)])
  /\ k.current[Len(l.stack)] \in Pending(Last(l.stack))

Goes(l, k) == Returns(l, k) \/ Replaces(l, k) \/ Descends(l, k)

(* A call that returns as Returns says. *)
LEMMA ReturnsIf ==
  ASSUME NEW d \in Databases, NEW l, Fine(d, l), l.stack # <<>>, NEW k, k.stack = Front(l.stack),
         \A i \in 1 .. Len(l.stack) - 1 : k.current[i] = l.current[i],
         k.cubes = l.cubes \/ (Wide(Last(l.stack)) /\ k.cubes = Append(l.cubes, l.current))
  PROVE  Goes(l, k)
<1>1. l.stack \in Seq(FineFrame)
  BY FineFacts, LocalFacts
<1>2. Len(k.stack) = Len(l.stack) - 1 /\ \A i \in 1 .. Len(l.stack) - 1 : k.stack[i] = l.stack[i]
  BY <1>1, FrontFacts
<1> QED BY <1>2 DEF Goes, Returns, Kept

(* A call that goes on as Replaces says. *)
LEMMA ReplacesIf ==
  ASSUME NEW d \in Databases, NEW l, Fine(d, l), l.stack # <<>>, NEW f \in FineFrame, NEW k,
         k.stack = Append(Front(l.stack), f),
         \A i \in 1 .. Len(l.stack) - 1 : k.current[i] = l.current[i],
         k.cubes = l.cubes, Narrows(Last(l.stack), f)
  PROVE  Goes(l, k)
<1>1. l.stack \in Seq(FineFrame)
  BY FineFacts, LocalFacts
<1>2. LET r == Append(Front(l.stack), f) IN
        /\ Len(r) = Len(l.stack) /\ r[Len(l.stack)] = f
        /\ \A i \in 1 .. Len(l.stack) - 1 : r[i] = l.stack[i]
  BY <1>1, ReplaceLast
<1> QED BY <1>2 DEF Goes, Replaces, Kept

(* Enter moves the stack so. *)
LEMMA EnteredGoes ==
  ASSUME NEW d \in Databases, NEW opt, NEW l, Fine(d, l), l.stack # <<>>, Last(l.stack).stage = "enter",
         NEW k, k = Entered(opt, l)
  PROVE  Goes(l, k)
<1>1. Wide(Last(l.stack)) /\ Last(l.stack) \in FineFrame
  BY FineFacts DEF Wide
<1>2. k.current = l.current
  BY DEF Entered
<1>3. CASE Stopped(opt, l) \/ Capped(l) \/ TooFar(l)
  <2>1. k.stack = Front(l.stack) /\ (k.cubes = l.cubes \/ k.cubes = Append(l.cubes, l.current))
    BY <1>3 DEF Entered
  <2> QED BY <2>1, <1>1, <1>2, ReturnsIf
<1>4. CASE ~(Stopped(opt, l) \/ Capped(l) \/ TooFar(l))
  <2> DEFINE f == [Last(l.stack) EXCEPT !.stage = "look"]
  <2>1. k.stack = Append(Front(l.stack), f) /\ k.cubes = l.cubes
    BY <1>4 DEF Entered
  <2>2. f \in FineFrame /\ Narrows(Last(l.stack), f)
    BY <1>1, FrameStages DEF Narrows
  <2> HIDE DEF f
  <2> QED BY <2>1, <2>2, <1>2, ReplacesIf
<1> QED BY <1>3, <1>4

(* LookAhead moves the stack so. *)
LEMMA LookedAtGoes ==
  ASSUME NEW d \in Databases, NEW opt, NEW l, Fine(d, l), l.stack # <<>>, Last(l.stack).stage = "look",
         NEW look, look = Looked(d, opt, l.solver, Len(l.current)), NEW k, k = LookedAt(d, opt, l, look)
  PROVE  Goes(l, k)
<1>1. Wide(Last(l.stack)) /\ Last(l.stack) \in FineFrame
  BY FineFacts DEF Wide
<1>2. /\ look.outcome \in {"open", "refuted", "forced"}
      /\ look.outcome = "open" /\ look.best.var # 0 => look.best.var \in Vars
  BY LookFacts
<1>3. CASE look.outcome = "refuted" \/ Solved(look)
  <2>1. k.stack = Front(l.stack) /\ (k.cubes = l.cubes \/ k.cubes = Append(l.cubes, l.current))
        /\ k.current = l.current
    BY <1>3 DEF LookedAt, Closed
  <2> QED BY <2>1, <1>1, ReturnsIf
<1>4. CASE look.outcome = "forced"
  <2> DEFINE f == [Last(l.stack) EXCEPT !.failed = @ + 1]
  <2>1. k.stack = Append(Front(l.stack), f) /\ k.cubes = l.cubes /\ k.current = l.current
    BY <1>4 DEF LookedAt, Forced, Solved
  <2>2. f \in FineFrame /\ Narrows(Last(l.stack), f)
    BY <1>1, FrameStages DEF Narrows
  <2> HIDE DEF f
  <2> QED BY <2>1, <2>2, ReplacesIf
<1>5. CASE look.outcome = "open" /\ ~Solved(look)
  <2> DEFINE f == [Last(l.stack) EXCEPT !.stage = "branch",
                                        !.branches = Branches(Last(l.stack), look.best)]
  <2>1. k.stack = Append(Front(l.stack), f) /\ k.cubes = l.cubes /\ k.current = l.current
    BY <1>5 DEF LookedAt, Split
  <2>2. look.best.var \in Vars
    BY <1>2, <1>5 DEF Solved
  <2>3. f \in FineFrame /\ Narrows(Last(l.stack), f)
    BY <1>1, <2>2, BranchesMake DEF Narrows
  <2> HIDE DEF f
  <2> QED BY <2>1, <2>3, ReplacesIf
<1> QED BY <1>2, <1>3, <1>4, <1>5

(* Branch moves the stack so. *)
LEMMA BranchedGoes ==
  ASSUME NEW d \in Databases, NEW l, Fine(d, l), l.stack # <<>>, Last(l.stack).stage = "branch",
         NEW s, NEW k, k = Branched(l, s)
  PROVE  Goes(l, k)
<1> DEFINE n == Len(l.stack)
           f == [Last(l.stack) EXCEPT !.stage = "undo"]
           child == Child(f)
<1>1. /\ n \in Nat \ {0} /\ Last(l.stack) \in FineFrame /\ Len(l.current) = n - 1
      /\ l.current \in Seq(Lits)
  BY FineFacts, LocalFacts
<1>2. /\ InBranch(l) \in Seq(FineFrame) /\ Len(InBranch(l)) = n /\ InBranch(l)[n] = f
      /\ \A i \in 1 .. n - 1 : InBranch(l)[i] = l.stack[i]
      /\ f \in FineFrame /\ f.stage = "undo" /\ f.branches = Last(l.stack).branches
  BY InBranchFacts
<1>3. child \in FineFrame
  BY <1>2, ChildType
<1>4. /\ k.current = Append(l.current, Chosen(l)) /\ k.cubes = l.cubes
      /\ s.conflict => k.stack = InBranch(l)
      /\ ~s.conflict => k.stack = Append(InBranch(l), child)
  BY <1>2 DEF Branched
<1> HIDE DEF f, child
<1>5. /\ Chosen(l) \in Lits /\ Chosen(l) \in Pending(Last(l.stack))
      /\ Narrows(Last(l.stack), f) /\ ~Wide(Last(l.stack))
  <2>1. /\ Chosen(l) \in Lits
        /\ ToSet(Tail(Last(l.stack).branches)) \subseteq ToSet(Last(l.stack).branches)
        /\ Chosen(l) \in ToSet(Last(l.stack).branches)
    BY ChosenFacts
  <2> QED BY <2>1, <1>2 DEF Narrows, Pending, Wide, Parting
<1>6. k.current[n] = Chosen(l) /\ \A i \in 1 .. n - 1 : k.current[i] = l.current[i]
  <2>1. LET r == Append(l.current, Chosen(l)) IN
          /\ r[Len(l.current) + 1] = Chosen(l)
          /\ \A i \in 1 .. Len(l.current) : r[i] = l.current[i]
    BY <1>1, <1>5, AppendFacts
  <2>2. Len(l.current) + 1 = n
    BY <1>1
  <2> QED BY <2>1, <2>2, <1>1, <1>4
<1>7. CASE s.conflict
  <2>1. k.stack = InBranch(l)
    BY <1>4, <1>7
  <2> QED BY <2>1, <1>2, <1>4, <1>5, <1>6 DEF Goes, Replaces, Kept
<1>8. CASE ~s.conflict
  <2>1. k.stack = Append(InBranch(l), child)
    BY <1>4, <1>8
  <2>2. /\ Len(k.stack) = n + 1
        /\ \A i \in 1 .. n : k.stack[i] = InBranch(l)[i]
    <3>1. LET r == Append(InBranch(l), child) IN
            /\ Len(r) = Len(InBranch(l)) + 1
            /\ \A i \in 1 .. Len(InBranch(l)) : r[i] = InBranch(l)[i]
      BY <1>2, <1>3, AppendFacts
    <3> QED BY <2>1, <3>1, <1>2
  <2>3. n \in 1 .. n /\ \A i \in 1 .. n - 1 : i \in 1 .. n
    BY <1>1
  <2> QED BY <2>2, <2>3, <1>2, <1>4, <1>5, <1>6 DEF Goes, Descends, Kept
<1> QED BY <1>7, <1>8

(* Undo moves the stack so. *)
LEMMA LeftGoes ==
  ASSUME NEW d \in Databases, NEW opt, NEW l, Fine(d, l), l.stack # <<>>, Last(l.stack).stage = "undo",
         NEW s, s = Backtrack(d, l.solver, 1), NEW k, k = Left(d, opt, l, s)
  PROVE  Goes(l, k)
<1>1. LeftMade(d, opt, l, k)
  <2>1. PICK b : Placed(d, l, b)
    BY DEF Fine
  <2>2. s \in GoodStates(d) /\ Backtrack(d, s, Last(l.stack).failed) \in GoodStates(d)
    BY <2>1, UndoMakes DEF Undoing
  <2> QED BY <2>2, LeftType
<1>2. k.cubes = l.cubes
  BY DEF Left
<1>3. CASE Leaves(opt, l)
  <2>1. k.stack = Front(l.stack)
    BY <1>3 DEF Left
  <2> QED BY <2>1, <1>1, <1>2, ReturnsIf DEF LeftMade
<1>4. CASE ~Leaves(opt, l)
  <2>1. k.stack = Append(Front(l.stack), Onward(l))
    BY <1>4 DEF Left
  <2>2. Onward(l) \in FineFrame /\ Narrows(Last(l.stack), Onward(l))
    BY <1>1, <1>4 DEF LeftMade, Narrows, Parting
  <2> QED BY <2>1, <2>2, <1>1, <1>2, ReplacesIf DEF LeftMade
<1> QED BY <1>3, <1>4

(* Every step moves the stack so. *)
LEMMA AfterGoes ==
  ASSUME NEW d \in Databases, NEW opt, NEW l, Fine(d, l), l.stack # <<>>, NEW k, k = After(d, opt, l)
  PROVE  Goes(l, k)
<1>1. Last(l.stack).stage \in {"enter", "look", "branch", "undo"}
  BY FineFacts, FrameFacts
<1>2. CASE Last(l.stack).stage = "enter"
  BY <1>2, EnteredGoes DEF After
<1>3. CASE Last(l.stack).stage = "look"
  BY <1>3, LookedAtGoes DEF After
<1>4. CASE Last(l.stack).stage = "branch"
  BY <1>4, BranchedGoes DEF After
<1>5. CASE Last(l.stack).stage = "undo"
  BY <1>5, LeftGoes DEF After
<1> QED BY <1>1, <1>2, <1>3, <1>4, <1>5

-----------------------------------------------------------------------------
(***************************************************************************)
(* What a worker may still return.                                         *)
(***************************************************************************)
(* Every call under way has a literal of X in its path, or only takes branches
   whose literal is in X from now on: every path to come meets X. *)
Bound(l, X) ==
  \A i \in 1 .. Len(l.stack) :
    \/ \E j \in 1 .. i - 1 : l.current[j] \in X
    \/ Parting(l.stack[i]) /\ Pending(l.stack[i]) \subseteq X

(* What binds a worker to X goes on binding it. *)
LEMMA BoundGoes ==
  ASSUME NEW d \in Databases, NEW l, Fine(d, l), l.stack # <<>>, NEW k, Goes(l, k),
         NEW X, Bound(l, X)
  PROVE  Bound(k, X)
<1> DEFINE n == Len(l.stack)
<1>1. /\ n \in Nat \ {0} /\ n \in 1 .. n /\ Last(l.stack) = l.stack[n] /\ Last(l.stack) \in FineFrame
  BY FineFacts
<1>2. Kept(l, k)
  BY DEF Goes, Returns, Replaces, Descends
<1>3. ASSUME NEW i \in 1 .. n - 1
      PROVE  \/ \E j \in 1 .. i - 1 : k.current[j] \in X
             \/ Parting(k.stack[i]) /\ Pending(k.stack[i]) \subseteq X
  <2>1. i \in 1 .. n /\ \A j \in 1 .. i - 1 : j \in 1 .. n - 1
    BY <1>1
  <2> QED BY <2>1, <1>2 DEF Bound, Kept
<1>4. ASSUME Narrows(Last(l.stack), k.stack[n])
      PROVE  \/ \E j \in 1 .. n - 1 : k.current[j] \in X
             \/ /\ ~Wide(Last(l.stack)) /\ Pending(Last(l.stack)) \subseteq X
                /\ Parting(k.stack[n]) /\ Pending(k.stack[n]) \subseteq X
  <2>1. \/ \E j \in 1 .. n - 1 : l.current[j] \in X
        \/ Parting(l.stack[n]) /\ Pending(l.stack[n]) \subseteq X
    BY <1>1 DEF Bound
  <2>2. CASE \E j \in 1 .. n - 1 : l.current[j] \in X
    BY <2>2, <1>2 DEF Kept
  <2>3. CASE Parting(l.stack[n]) /\ Pending(l.stack[n]) \subseteq X
    <3>1. ~Wide(l.stack[n])
      BY <2>3 DEF Wide, Parting
    <3> QED BY <2>3, <3>1, <1>1, <1>4 DEF Narrows
  <2> QED BY <2>1, <2>2, <2>3
<1>5. CASE Returns(l, k)
  BY <1>3, <1>5 DEF Bound, Returns
<1>6. CASE Replaces(l, k)
  <2>1. \A i \in 1 .. n : i = n \/ i \in 1 .. n - 1
    BY <1>1
  <2>2. Len(k.stack) = n /\ Narrows(Last(l.stack), k.stack[n])
    BY <1>6 DEF Replaces
  <2> QED BY <2>1, <2>2, <1>3, <1>4 DEF Bound
<1>7. CASE Descends(l, k)
  <2>1. /\ Len(k.stack) = n + 1 /\ Narrows(Last(l.stack), k.stack[n])
        /\ k.current[n] \in Pending(Last(l.stack))
    BY <1>7 DEF Descends
  <2>2. \A i \in 1 .. n + 1 : i = n + 1 \/ i = n \/ i \in 1 .. n - 1
    BY <1>1
  <2>3. n \in 1 .. (n + 1) - 1 /\ \A j \in 1 .. n - 1 : j \in 1 .. (n + 1) - 1
    BY <1>1
  <2>4. \E j \in 1 .. (n + 1) - 1 : k.current[j] \in X
    BY <2>1, <2>3, <1>4
  <2> QED BY <2>1, <2>2, <2>4, <1>3, <1>4 DEF Bound
<1> QED BY <1>5, <1>6, <1>7 DEF Goes

(* A cube that is returned meets X. *)
LEMMA BoundMeets ==
  ASSUME NEW d \in Databases, NEW l, Fine(d, l), l.stack # <<>>, Wide(Last(l.stack)), NEW X, Bound(l, X)
  PROVE  \E x \in ToSet(l.current) : x \in X
<1>1. /\ Len(l.stack) \in 1 .. Len(l.stack) /\ Last(l.stack) = l.stack[Len(l.stack)]
      /\ Last(l.stack).stage # "undo" => Len(l.current) = Len(l.stack) - 1
  BY FineFacts
<1>2. ~Parting(Last(l.stack)) /\ Last(l.stack).stage # "undo"
  BY DEF Wide, Parting
<1>3. PICK j \in 1 .. Len(l.stack) - 1 : l.current[j] \in X
  BY <1>1, <1>2 DEF Bound
<1>4. l.current \in Seq(Lits) /\ j \in 1 .. Len(l.current)
  BY <1>1, <1>2, <1>3, FineFacts, LocalFacts
<1>5. j \in DOMAIN l.current
  BY <1>4
<1>6. l.current[j] \in ToSet(l.current)
  BY <1>5 DEF ToSet
<1> QED BY <1>3, <1>6

(* What is returned has a literal of X, and so will all that is to come. *)
Confined(l, X) ==
  /\ Bound(l, X)
  /\ \A i \in 1 .. Len(l.cubes) : \E x \in ToSet(l.cubes[i]) : x \in X

(* The cubes with one more. *)
LEMMA NewCube ==
  ASSUME NEW d \in Databases, NEW l, Fine(d, l), NEW k, k.cubes = Append(l.cubes, l.current)
  PROVE  /\ Len(k.cubes) = Len(l.cubes) + 1 /\ Len(l.cubes) \in Nat
         /\ k.cubes[Len(l.cubes) + 1] = l.current
         /\ \A i \in 1 .. Len(l.cubes) : k.cubes[i] = l.cubes[i]
         /\ \A i \in 1 .. Len(k.cubes) : i = Len(l.cubes) + 1 \/ i \in 1 .. Len(l.cubes)
<1>1. l.cubes \in Seq(Seq(Lits)) /\ l.current \in Seq(Lits)
  BY LocalFacts DEF Fine
<1>2. LET r == Append(l.cubes, l.current) IN
        /\ Len(r) = Len(l.cubes) + 1 /\ Len(l.cubes) \in Nat
        /\ r[Len(l.cubes) + 1] = l.current
        /\ \A i \in 1 .. Len(l.cubes) : r[i] = l.cubes[i]
  BY <1>1, AppendFacts
<1>3. \A i \in 1 .. Len(l.cubes) + 1 : i = Len(l.cubes) + 1 \/ i \in 1 .. Len(l.cubes)
  BY <1>2
<1> QED BY <1>2, <1>3

(* The cubes of a step: those there were, or one more. *)
LEMMA GoesCubes ==
  ASSUME NEW l, NEW k, Goes(l, k)
  PROVE  k.cubes = l.cubes \/ (Wide(Last(l.stack)) /\ k.cubes = Append(l.cubes, l.current) /\ Returns(l, k))
BY DEF Goes, Returns, Replaces, Descends

(* A worker confined to X stays so. *)
LEMMA ConfinedGoes ==
  ASSUME NEW d \in Databases, NEW l, Fine(d, l), l.stack # <<>>, NEW k, Goes(l, k),
         NEW X, Confined(l, X)
  PROVE  Confined(k, X)
<1>1. Bound(k, X)
  BY BoundGoes DEF Confined
<1>2. CASE k.cubes = l.cubes
  BY <1>1, <1>2 DEF Confined
<1>3. CASE Wide(Last(l.stack)) /\ k.cubes = Append(l.cubes, l.current)
  <2>1. \E x \in ToSet(l.current) : x \in X
    BY <1>3, BoundMeets DEF Confined
  <2>2. /\ k.cubes[Len(l.cubes) + 1] = l.current
        /\ \A i \in 1 .. Len(l.cubes) : k.cubes[i] = l.cubes[i]
        /\ \A i \in 1 .. Len(k.cubes) : i = Len(l.cubes) + 1 \/ i \in 1 .. Len(l.cubes)
    BY <1>3, NewCube
  <2> QED BY <2>1, <2>2, <1>1 DEF Confined
<1> QED BY <1>2, <1>3, GoesCubes

(* The negations of a cube. *)
Against(cube) == {-x : x \in ToSet(cube)}

Opposite(p, q) == \E lit \in ToSet(p) : -lit \in ToSet(q)

(* The cubes of a worker contradict each other and all that is to come. *)
Own(l) ==
  /\ \A i \in 1 .. Len(l.cubes) : Bound(l, Against(l.cubes[i]))
  /\ \A i, j \in 1 .. Len(l.cubes) : i = j \/ Opposite(l.cubes[i], l.cubes[j])

(* Contradicting each other is symmetric. *)
LEMMA OppositeBoth ==
  ASSUME NEW p, NEW q, ToSet(p) \subseteq Lits, ToSet(q) \subseteq Lits,
         NEW x \in ToSet(q), x \in Against(p)
  PROVE  Opposite(p, q) /\ Opposite(q, p)
<1>1. PICK y \in ToSet(p) : x = -y
  BY DEF Against
<1>2. -x = y
  BY <1>1, LitFacts
<1> QED BY <1>1, <1>2 DEF Opposite

(* The path of a call that returns is contradicted by every branch to come. *)
LEMMA ReturnedBound ==
  ASSUME NEW d \in Databases, NEW l, Fine(d, l), l.stack # <<>>, Wide(Last(l.stack)), NEW k,
         Returns(l, k)
  PROVE  Bound(k, Against(l.current))
<1> DEFINE n == Len(l.stack)
<1>1. /\ l \in Locals(d) /\ Path(l) /\ n \in Nat \ {0} /\ Len(l.current) = n - 1
      /\ l.current \in Seq(Lits) /\ l.stack \in Seq(FineFrame)
      /\ \A i \in 1 .. n : l.stack[i] \in FineFrame
  BY FineFacts, LocalFacts DEF Wide
<1>2. Len(k.stack) = n - 1 /\ \A i \in 1 .. n - 1 : k.stack[i] = l.stack[i]
  BY DEF Returns, Kept
<1>3. ASSUME NEW i \in 1 .. n - 1
      PROVE  Parting(l.stack[i]) /\ Pending(l.stack[i]) \subseteq Against(l.current)
  <2>1. i \in 1 .. n
    BY <1>1
  <2> PICK f \in FineFrame : f = l.stack[i]
    BY <1>1, <2>1
  <2>2. f.stage = "undo" /\ f.branches[1] = l.current[i]
    BY <1>1, <2>1 DEF Path
  <2>3. l.current[i] \in ToSet(l.current)
    BY <1>1 DEF ToSet
  <2>4. Pending(f) \subseteq {-f.branches[1]}
    <3>1. f.branches \in Seq(Lits) /\ (Len(f.branches) = 1 \/ (Len(f.branches) = 2 /\ f.branches[2] = -f.branches[1]))
      BY <2>2, FrameFacts
    <3>2. PICK q \in Seq(Lits) : q = f.branches
      BY <3>1
    <3>3. CASE Len(q) = 1
      <4>1. q = <<q[1]>>
        BY <3>3
      <4>2. Tail(q) = <<>>
        BY <4>1, ShortSequences
      <4> QED BY <4>2, <3>2, <2>2, ShortSequences DEF Pending
    <3>4. CASE Len(q) = 2 /\ q[2] = -q[1]
      <4>1. q = <<q[1], q[2]>>
        BY <3>4
      <4>2. Tail(q) = <<q[2]>>
        BY <4>1, ShortSequences
      <4>3. ToSet(Tail(q)) = {-q[1]}
        BY <4>2, <3>4, ShortSequences
      <4> QED BY <4>3, <3>2, <2>2 DEF Pending
    <3> QED BY <3>1, <3>2, <3>3, <3>4
  <2> QED BY <2>2, <2>3, <2>4 DEF Parting, Against
<1> QED BY <1>2, <1>3 DEF Bound

(* A worker's own cubes go on contradicting each other: a path that is returned is
   left by branches that contradict it. *)
LEMMA OwnGoes ==
  ASSUME NEW d \in Databases, NEW l, Fine(d, l), l.stack # <<>>, NEW k, Goes(l, k), Own(l)
  PROVE  Own(k)
<1>1. \A i \in 1 .. Len(l.cubes) : Bound(k, Against(l.cubes[i]))
  BY BoundGoes DEF Own
<1>2. CASE k.cubes = l.cubes
  BY <1>1, <1>2 DEF Own
<1>3. CASE Wide(Last(l.stack)) /\ k.cubes = Append(l.cubes, l.current) /\ Returns(l, k)
  <2> DEFINE c == Len(l.cubes)
  <2>1. /\ k.cubes[c + 1] = l.current
        /\ \A i \in 1 .. c : k.cubes[i] = l.cubes[i]
        /\ \A i \in 1 .. Len(k.cubes) : i = c + 1 \/ i \in 1 .. c
    BY <1>3, NewCube
  <2>2. l.cubes \in Seq(Seq(Lits)) /\ l.current \in Seq(Lits)
    BY FineFacts, LocalFacts
  <2>3. ASSUME NEW i \in 1 .. c
        PROVE  Opposite(l.cubes[i], l.current) /\ Opposite(l.current, l.cubes[i])
    <3>1. PICK x \in ToSet(l.current) : x \in Against(l.cubes[i])
      BY <1>3, BoundMeets DEF Own
    <3>2. l.cubes[i] \in Seq(Lits)
      BY <2>2, ElementOfSeq
    <3>3. ToSet(l.cubes[i]) \subseteq Lits /\ ToSet(l.current) \subseteq Lits
      BY <3>2, <2>2 DEF ToSet
    <3> QED BY <3>1, <3>3, OppositeBoth
  <2>4. Bound(k, Against(l.current))
    BY <1>3, ReturnedBound
  <2> QED BY <2>1, <2>3, <2>4, <1>1 DEF Own
<1> QED BY <1>2, <1>3, GoesCubes

(* The same for a step, or none when no call is left. *)
LEMMA ConfinedAfter ==
  ASSUME NEW d \in Databases, NEW opt, NEW l, Fine(d, l), NEW k, k = After(d, opt, l), NEW X
  PROVE  /\ Bound(l, X) => Bound(k, X)
         /\ Confined(l, X) => Confined(k, X)
         /\ Own(l) => Own(k)
<1>1. CASE l.stack = <<>>
  BY <1>1 DEF After
<1>2. CASE l.stack # <<>>
  <2>1. Goes(l, k)
    BY <1>2, AfterGoes
  <2> QED BY <1>2, <2>1, BoundGoes, ConfinedGoes, OwnGoes
<1> QED BY <1>1, <1>2

-----------------------------------------------------------------------------
(***************************************************************************)
(* Two workers.  They do the same, apart from their numbers, as long as    *)
(* they are in one group, and then take opposite branches or stop.         *)
(***************************************************************************)
Alike(f, g) ==
  f.stage = g.stage /\ f.group = g.group /\ f.failed = g.failed /\ f.branches = g.branches

OnLeft(f) == f.id < f.group \div 2

InStep(l, k) ==
  /\ l.solver = k.solver /\ l.current = k.current /\ l.theta = k.theta /\ l.sat = k.sat
  /\ l.cubes = <<>> /\ k.cubes = <<>>
  /\ l.stack # <<>> /\ k.stack # <<>> /\ Len(l.stack) = Len(k.stack)
  /\ \A i \in 1 .. Len(l.stack) : Alike(l.stack[i], k.stack[i]) /\ l.stack[i].group # 1
  /\ Last(l.stack).stage # "undo"
  /\ Last(l.stack).id # Last(k.stack).id
  /\ Last(l.stack).stage = "branch" => (OnLeft(Last(l.stack)) <=> OnLeft(Last(k.stack)))

Parted(l, k) == \E lit \in Lits : Confined(l, {lit}) /\ Confined(k, {-lit})

Finished(l, k) ==
  /\ Bound(l, {}) /\ Bound(k, {})
  /\ \A i \in 1 .. Len(l.cubes), j \in 1 .. Len(k.cubes) : l.cubes[i] = k.cubes[j]

Related(l, k) == InStep(l, k) \/ Parted(l, k) \/ Finished(l, k)

(* Workers that have parted stay apart. *)
LEMMA PartedAfter ==
  ASSUME NEW d \in Databases, NEW opt, NEW l, Fine(d, l), NEW k, Fine(d, k), Parted(l, k)
  PROVE  Parted(After(d, opt, l), After(d, opt, k))
BY ConfinedAfter DEF Parted

(* Workers that are done with each other stay so. *)
LEMMA FinishedAfter ==
  ASSUME NEW d \in Databases, NEW opt, NEW l, Fine(d, l), NEW k, Fine(d, k), Finished(l, k)
  PROVE  Finished(After(d, opt, l), After(d, opt, k))
<1>1. ASSUME NEW x, Fine(d, x), Bound(x, {}) PROVE After(d, opt, x).cubes = x.cubes
  <2>1. CASE x.stack = <<>>
    BY <2>1 DEF After
  <2>2. CASE x.stack # <<>>
    <3>1. Goes(x, After(d, opt, x))
      BY <1>1, <2>2, AfterGoes
    <3>2. ~Wide(Last(x.stack))
      BY <1>1, <2>2, BoundMeets
    <3> QED BY <3>1, <3>2, GoesCubes
  <2> QED BY <2>1, <2>2
<1>2. Bound(After(d, opt, l), {}) /\ Bound(After(d, opt, k), {})
  BY ConfinedAfter DEF Finished
<1>3. After(d, opt, l).cubes = l.cubes /\ After(d, opt, k).cubes = k.cubes
  BY <1>1 DEF Finished
<1> QED BY <1>2, <1>3 DEF Finished

(* In a group a call takes one branch only. *)
LEMMA GroupFacts ==
  ASSUME NEW f \in FineFrame, f.group # 1, Parting(f)
  PROVE  /\ Len(f.branches) = 1 /\ ToSet(f.branches) = {f.branches[1]} /\ f.branches[1] \in Lits
         /\ Tail(f.branches) = <<>> /\ Head(f.branches) = f.branches[1]
         /\ f.stage = "undo" => Pending(f) = {}
         /\ f.stage = "branch" => Pending(f) = {f.branches[1]}
<1>1. f.branches \in Seq(Lits) /\ Len(f.branches) = 1
  BY FrameFacts DEF Parting
<1>2. PICK q \in Seq(Lits) : q = f.branches
  BY <1>1
<1>3. q[1] \in Lits /\ Head(q) = q[1]
  BY <1>1, <1>2
<1>4. ToSet(q) = {q[1]} /\ Tail(q) = <<>>
  <2>1. PICK e : e = q[1]
    OBVIOUS
  <2>2. q = <<e>>
    BY <1>1, <1>2, <2>1
  <2> QED BY <2>1, <2>2, ShortSequences
<1>5. ToSet(Tail(q)) = {}
  BY <1>4, ShortSequences
<1>6. /\ f.stage = "undo" => Pending(f) = {}
      /\ f.stage = "branch" => Pending(f) = {q[1]}
  BY <1>2, <1>4, <1>5 DEF Pending
<1> QED BY <1>1, <1>2, <1>3, <1>4, <1>6

(* The calls above the last are in their only branch. *)
Led(l) == \A i \in 1 .. Len(l.stack) : l.stack[i].group # 1

(* The calls above the last of a worker in a group have no branch to come. *)
LEMMA LedPending ==
  ASSUME NEW d \in Databases, NEW l, Fine(d, l), l.stack # <<>>, Led(l), NEW i \in 1 .. Len(l.stack) - 1
  PROVE  i \in 1 .. Len(l.stack) /\ Parting(l.stack[i]) /\ Pending(l.stack[i]) = {}
<1>1. Path(l) /\ i \in 1 .. Len(l.stack) /\ l.stack[i] \in FineFrame
  BY FineFacts, LocalFacts
<1>2. l.stack[i].stage = "undo" /\ l.stack[i].group # 1
  BY <1>1 DEF Path, Led
<1> QED BY <1>1, <1>2, GroupFacts DEF Parting

(* A step of a worker in a group bounds it by what the last call takes. *)
LEMMA LedReturns ==
  ASSUME NEW d \in Databases, NEW l, Fine(d, l), l.stack # <<>>, Led(l), NEW k, k.stack = Front(l.stack)
  PROVE  Bound(k, {})
<1>1. l.stack \in Seq(FineFrame)
  BY FineFacts, LocalFacts
<1>2. Len(k.stack) = Len(l.stack) - 1 /\ \A i \in 1 .. Len(l.stack) - 1 : k.stack[i] = l.stack[i]
  BY <1>1, FrontFacts
<1> QED BY <1>2, LedPending DEF Bound

(* So the worker is bound by the branches of its last call. *)
LEMMA LedTakes ==
  ASSUME NEW d \in Databases, NEW l, Fine(d, l), l.stack # <<>>, Led(l), NEW k, NEW f \in FineFrame,
         Parting(f), k.stack = Append(Front(l.stack), f)
  PROVE  Bound(k, Pending(f))
<1>1. l.stack \in Seq(FineFrame) /\ Len(l.stack) \in Nat \ {0}
  BY FineFacts, LocalFacts
<1>2. LET r == Append(Front(l.stack), f) IN
        /\ Len(r) = Len(l.stack) /\ r[Len(l.stack)] = f
        /\ \A i \in 1 .. Len(l.stack) - 1 : r[i] = l.stack[i]
  BY <1>1, ReplaceLast
<1>3. \A i \in 1 .. Len(l.stack) : i = Len(l.stack) \/ i \in 1 .. Len(l.stack) - 1
  BY <1>1
<1>4. \A i \in 1 .. Len(l.stack) - 1 : Parting(k.stack[i]) /\ Pending(k.stack[i]) \subseteq Pending(f)
  BY <1>2, LedPending
<1> QED BY <1>2, <1>3, <1>4 DEF Bound

(* What two workers in step share. *)
LEMMA InStepFacts ==
  ASSUME NEW d \in Databases, NEW l, Fine(d, l), NEW k, Fine(d, k), InStep(l, k)
  PROVE  /\ l.stack # <<>> /\ k.stack # <<>> /\ Len(l.stack) = Len(k.stack) /\ Len(l.stack) \in Nat \ {0}
         /\ l.stack \in Seq(FineFrame) /\ k.stack \in Seq(FineFrame)
         /\ Last(l.stack) \in FineFrame /\ Last(k.stack) \in FineFrame
         /\ Alike(Last(l.stack), Last(k.stack)) /\ Last(l.stack).id # Last(k.stack).id
         /\ Last(l.stack).group # 1 /\ Last(k.stack).group # 1
         /\ Led(l) /\ Led(k) /\ Last(l.stack).stage \in {"enter", "look", "branch"}
         /\ l.solver = k.solver /\ l.current = k.current /\ l.theta = k.theta /\ l.sat = k.sat
         /\ l.cubes = <<>> /\ k.cubes = <<>>
<1>1. /\ l.stack # <<>> /\ k.stack # <<>> /\ Len(l.stack) = Len(k.stack)
      /\ \A i \in 1 .. Len(l.stack) : Alike(l.stack[i], k.stack[i]) /\ l.stack[i].group # 1
      /\ Last(l.stack).stage # "undo" /\ Last(l.stack).id # Last(k.stack).id
  BY DEF InStep
<1>2. /\ Len(l.stack) \in Nat \ {0} /\ Last(l.stack) \in FineFrame /\ Last(k.stack) \in FineFrame
      /\ Last(l.stack) = l.stack[Len(l.stack)] /\ Last(k.stack) = k.stack[Len(k.stack)]
      /\ Len(l.stack) \in 1 .. Len(l.stack)
      /\ l.stack \in Seq(FineFrame) /\ k.stack \in Seq(FineFrame)
  BY <1>1, FineFacts, LocalFacts
<1>3. Alike(Last(l.stack), Last(k.stack)) /\ Last(l.stack).group # 1
  BY <1>1, <1>2
<1>4. Led(l) /\ Led(k) /\ Last(k.stack).group # 1
  BY <1>1, <1>3 DEF Led, Alike
<1>5. Last(l.stack).stage \in {"enter", "look", "branch"}
  BY <1>1, <1>2, FrameFacts
<1> QED BY <1>1, <1>2, <1>3, <1>4, <1>5 DEF InStep

(* The last call goes on at both. *)
LEMMA InStepGoesOn ==
  ASSUME NEW d \in Databases, NEW l, Fine(d, l), NEW k, Fine(d, k), InStep(l, k),
         NEW f \in FineFrame, NEW g \in FineFrame, Alike(f, g), f.stage # "undo", f.group # 1,
         f.id # g.id, f.stage = "branch" => (OnLeft(f) <=> OnLeft(g)),
         NEW x, NEW y, x.stack = Append(Front(l.stack), f), y.stack = Append(Front(k.stack), g),
         x.solver = y.solver, x.current = y.current, x.theta = y.theta, x.sat = y.sat,
         x.cubes = <<>>, y.cubes = <<>>
  PROVE  InStep(x, y)
<1> DEFINE n == Len(l.stack)
<1>1. /\ l.stack # <<>> /\ k.stack # <<>> /\ n = Len(k.stack) /\ n \in Nat \ {0}
      /\ l.stack \in Seq(FineFrame) /\ k.stack \in Seq(FineFrame) /\ Led(l)
  BY InStepFacts
<1>2. LET r == Append(Front(l.stack), f) IN
        /\ Len(r) = n /\ r[n] = f /\ r # <<>> /\ Last(r) = f
        /\ \A i \in 1 .. n - 1 : r[i] = l.stack[i]
  BY <1>1, ReplaceLast
<1>3. LET r == Append(Front(k.stack), g) IN
        /\ Len(r) = n /\ r[n] = g /\ r # <<>> /\ Last(r) = g
        /\ \A i \in 1 .. n - 1 : r[i] = k.stack[i]
  BY <1>1, ReplaceLast
<1>4. \A i \in 1 .. n : i = n \/ (i \in 1 .. n - 1 /\ i \in 1 .. n)
  BY <1>1
<1>5. \A i \in 1 .. n - 1 : i \in 1 .. n
  BY <1>1
<1>6. \A i \in 1 .. n - 1 : Alike(x.stack[i], y.stack[i]) /\ x.stack[i].group # 1
  BY <1>2, <1>3, <1>5 DEF InStep
<1>7. \A i \in 1 .. n : Alike(x.stack[i], y.stack[i]) /\ x.stack[i].group # 1
  BY <1>2, <1>3, <1>4, <1>6
<1> QED BY <1>2, <1>3, <1>7 DEF InStep

(* Both return: with the same cube, or one of them without. *)
LEMMA InStepReturns ==
  ASSUME NEW d \in Databases, NEW l, Fine(d, l), NEW k, Fine(d, k), InStep(l, k),
         NEW x, NEW y, x.stack = Front(l.stack), y.stack = Front(k.stack),
         x.cubes = <<>> \/ x.cubes = Append(l.cubes, l.current),
         y.cubes = <<>> \/ y.cubes = Append(k.cubes, k.current)
  PROVE  Finished(x, y)
<1>1. /\ l.stack # <<>> /\ k.stack # <<>> /\ Led(l) /\ Led(k) /\ l.current = k.current
      /\ l.cubes = <<>> /\ k.cubes = <<>>
  BY InStepFacts
<1>2. Bound(x, {}) /\ Bound(y, {})
  BY <1>1, LedReturns
<1>3. \A e : Append(<<>>, e) = <<e>>
  OBVIOUS
<1>4. \A c, e : c = <<>> \/ c = <<e>> => \A i \in 1 .. Len(c) : c[i] = e
  OBVIOUS
<1>5. /\ x.cubes = <<>> \/ x.cubes = <<l.current>>
      /\ y.cubes = <<>> \/ y.cubes = <<l.current>>
  BY <1>1, <1>3
<1>6. /\ \A i \in 1 .. Len(x.cubes) : x.cubes[i] = l.current
      /\ \A i \in 1 .. Len(y.cubes) : y.cubes[i] = l.current
  BY <1>4, <1>5
<1> QED BY <1>2, <1>6 DEF Finished

(* Enter keeps two workers in step, or finishes both: the cap keeps the cube of one. *)
LEMMA InStepEntered ==
  ASSUME NEW d \in Databases, NEW opt, NEW l, Fine(d, l), NEW k, Fine(d, k), InStep(l, k),
         Last(l.stack).stage = "enter",
         NEW x, x = Entered(opt, l), NEW y, y = Entered(opt, k)
  PROVE  InStep(x, y) \/ Finished(x, y)
<1>1. /\ Last(l.stack) \in FineFrame /\ Last(k.stack) \in FineFrame
      /\ Alike(Last(l.stack), Last(k.stack)) /\ Last(l.stack).id # Last(k.stack).id
      /\ Last(l.stack).group # 1
      /\ l.solver = k.solver /\ l.current = k.current /\ l.theta = k.theta /\ l.sat = k.sat
      /\ l.cubes = <<>> /\ k.cubes = <<>>
  BY InStepFacts
<1>2. /\ Stopped(opt, l) <=> Stopped(opt, k)
      /\ Capped(l) <=> Capped(k)
      /\ TooFar(l) <=> TooFar(k)
  BY <1>1 DEF Stopped, Capped, TooFar
<1>3. CASE Stopped(opt, l) \/ Capped(l) \/ TooFar(l)
  <2>1. /\ x.stack = Front(l.stack) /\ y.stack = Front(k.stack)
        /\ x.cubes = <<>> \/ x.cubes = Append(l.cubes, l.current)
        /\ y.cubes = <<>> \/ y.cubes = Append(k.cubes, k.current)
    BY <1>1, <1>2, <1>3 DEF Entered
  <2> QED BY <2>1, InStepReturns
<1>4. CASE ~(Stopped(opt, l) \/ Capped(l) \/ TooFar(l))
  <2> DEFINE f == [Last(l.stack) EXCEPT !.stage = "look"]
             g == [Last(k.stack) EXCEPT !.stage = "look"]
  <2>1. /\ x.stack = Append(Front(l.stack), f) /\ y.stack = Append(Front(k.stack), g)
        /\ x.cubes = <<>> /\ y.cubes = <<>> /\ x.solver = y.solver /\ x.current = y.current
        /\ x.theta = y.theta /\ x.sat = y.sat
    BY <1>1, <1>2, <1>4 DEF Entered
  <2>2. /\ f \in FineFrame /\ g \in FineFrame /\ Alike(f, g) /\ f.stage = "look"
        /\ f.group # 1 /\ f.id # g.id
    BY <1>1, FrameStages DEF Alike, FineFrame
  <2> HIDE DEF f, g
  <2> QED BY <2>1, <2>2, InStepGoesOn
<1> QED BY <1>3, <1>4

(* A side of a group takes its own branch. *)
LEMMA SideTakes ==
  ASSUME NEW d \in Databases, NEW l, Fine(d, l), l.stack # <<>>, Led(l), l.cubes = <<>>,
         NEW f \in FineFrame, f.stage = "branch", NEW lit, f.branches = <<lit>>,
         NEW x, x.stack = Append(Front(l.stack), f), x.cubes = <<>>
  PROVE  Confined(x, {lit})
<1>1. Parting(f) /\ Pending(f) = {lit}
  BY ShortSequences DEF Parting, Pending
<1>2. Bound(x, {lit})
  BY <1>1, LedTakes
<1> QED BY <1>2 DEF Confined

(* The last calls are in the branches of different sides. *)
OtherSides(l, k) ==
  /\ l.stack # <<>> /\ k.stack # <<>>
  /\ Last(l.stack).stage = "branch" /\ Last(k.stack).stage = "branch"
  /\ ~(OnLeft(Last(l.stack)) <=> OnLeft(Last(k.stack)))

(* LookAhead keeps them in step, finishes both, or parts them. *)
LEMMA InStepLookedAt ==
  ASSUME NEW d \in Databases, NEW opt, NEW l, Fine(d, l), NEW k, Fine(d, k), InStep(l, k),
         Last(l.stack).stage = "look", NEW look, look = Looked(d, opt, l.solver, Len(l.current)),
         NEW x, x = LookedAt(d, opt, l, look), NEW y, y = LookedAt(d, opt, k, look)
  PROVE  InStep(x, y) \/ Finished(x, y) \/ (Parted(x, y) /\ OtherSides(x, y))
<1>1. /\ Last(l.stack) \in FineFrame /\ Last(k.stack) \in FineFrame
      /\ Alike(Last(l.stack), Last(k.stack)) /\ Last(l.stack).id # Last(k.stack).id
      /\ Last(l.stack).group # 1 /\ l.stack # <<>> /\ k.stack # <<>> /\ Led(l) /\ Led(k)
      /\ l.current = k.current /\ l.theta = k.theta /\ l.sat = k.sat
      /\ l.cubes = <<>> /\ k.cubes = <<>>
  BY InStepFacts
<1>2. /\ look.outcome \in {"open", "refuted", "forced"}
      /\ look.outcome = "open" /\ look.best.var # 0 => look.best.var \in Vars
  BY <1>1, LookFacts
<1>3. CASE look.outcome = "refuted" \/ Solved(look)
  <2>1. /\ x.stack = Front(l.stack) /\ y.stack = Front(k.stack)
        /\ x.cubes = <<>> \/ x.cubes = Append(l.cubes, l.current)
        /\ y.cubes = <<>> \/ y.cubes = Append(k.cubes, k.current)
    BY <1>1, <1>3 DEF LookedAt, Closed
  <2> QED BY <2>1, InStepReturns
<1>4. CASE look.outcome = "forced"
  <2> DEFINE f == [Last(l.stack) EXCEPT !.failed = @ + 1]
             g == [Last(k.stack) EXCEPT !.failed = @ + 1]
  <2>1. /\ x.stack = Append(Front(l.stack), f) /\ y.stack = Append(Front(k.stack), g)
        /\ x.cubes = <<>> /\ y.cubes = <<>> /\ x.solver = y.solver /\ x.current = y.current
        /\ x.theta = y.theta /\ x.sat = y.sat
    BY <1>1, <1>4 DEF LookedAt, Forced, Solved
  <2>2. /\ f \in FineFrame /\ f.stage = "look" /\ f.failed = Last(l.stack).failed + 1
        /\ f.branches = Last(l.stack).branches /\ f.id = Last(l.stack).id
        /\ f.group = Last(l.stack).group
    BY <1>1, FrameStages
  <2>3. /\ g \in FineFrame /\ g.stage = "look" /\ g.failed = Last(k.stack).failed + 1
        /\ g.branches = Last(k.stack).branches /\ g.id = Last(k.stack).id
        /\ g.group = Last(k.stack).group
    <3>1. Last(k.stack).stage # "enter" /\ Last(k.stack).stage = "look"
      BY <1>1 DEF Alike
    <3> QED BY <1>1, <3>1, FrameStages
  <2> HIDE DEF f, g
  <2>4. Alike(f, g) /\ f.group # 1 /\ f.id # g.id
    BY <1>1, <2>2, <2>3 DEF Alike
  <2> QED BY <2>1, <2>2, <2>3, <2>4, InStepGoesOn
<1>5. CASE look.outcome = "open" /\ ~Solved(look)
  <2> DEFINE f == [Last(l.stack) EXCEPT !.stage = "branch",
                                        !.branches = Branches(Last(l.stack), look.best)]
             g == [Last(k.stack) EXCEPT !.stage = "branch",
                                        !.branches = Branches(Last(k.stack), look.best)]
             one == First(look.best)
             two == Second(look.best)
  <2>1. /\ x.stack = Append(Front(l.stack), f) /\ y.stack = Append(Front(k.stack), g)
        /\ x.cubes = <<>> /\ y.cubes = <<>> /\ x.solver = y.solver /\ x.current = y.current
        /\ x.theta = y.theta /\ x.sat = y.sat
    BY <1>1, <1>5 DEF LookedAt, Split
  <2>2. look.best.var \in Vars
    BY <1>2, <1>5 DEF Solved
  <2>7. \A e \in FineFrame : e.group # 1 =>
          LET h == [e EXCEPT !.stage = "branch", !.branches = Branches(e, look.best)] IN
            /\ h \in FineFrame /\ h.stage = "branch" /\ h.failed = e.failed
            /\ h.id = e.id /\ h.group = e.group
            /\ \/ OnLeft(h) /\ h.branches = <<one>>
               \/ ~OnLeft(h) /\ h.branches = <<two>>
    <3> TAKE e \in FineFrame
    <3> HAVE e.group # 1
    <3> DEFINE h == [e EXCEPT !.stage = "branch", !.branches = Branches(e, look.best)]
    <3>1. /\ h \in FineFrame /\ h.stage = "branch" /\ h.failed = e.failed
          /\ h.id = e.id /\ h.group = e.group /\ h.branches = Branches(e, look.best)
      BY <2>2, BranchesMake
    <3>2. \/ e.id < e.group \div 2 /\ Branches(e, look.best) = <<one>>
          \/ ~(e.id < e.group \div 2) /\ Branches(e, look.best) = <<two>>
      BY <2>2, BranchesMake
    <3> HIDE DEF h, one, two
    <3>3. OnLeft(h) <=> e.id < e.group \div 2
      BY <3>1 DEF OnLeft
    <3>4. \/ OnLeft(h) /\ h.branches = <<one>>
          \/ ~OnLeft(h) /\ h.branches = <<two>>
      BY <3>1, <3>2, <3>3
    <3> QED BY <3>1, <3>4 DEF h
  <2>8. one \in Lits /\ two \in Lits /\ two = -one /\ one = -two
    <3> PICK e \in FineFrame : e = Last(l.stack)
      BY <1>1
    <3>1. one \in Lits /\ two = -one
      BY <2>2, BranchesMake
    <3> HIDE DEF one, two
    <3> QED BY <3>1, LitFacts
  <2>3. /\ f \in FineFrame /\ f.stage = "branch" /\ f.failed = Last(l.stack).failed
        /\ f.id = Last(l.stack).id /\ f.group = Last(l.stack).group
        /\ \/ OnLeft(f) /\ f.branches = <<one>>
           \/ ~OnLeft(f) /\ f.branches = <<two>>
    BY <1>1, <2>7
  <2>4. /\ g \in FineFrame /\ g.stage = "branch" /\ g.failed = Last(k.stack).failed
        /\ g.id = Last(k.stack).id /\ g.group = Last(k.stack).group
        /\ \/ OnLeft(g) /\ g.branches = <<one>>
           \/ ~OnLeft(g) /\ g.branches = <<two>>
    BY <1>1, <2>7 DEF Alike
  <2> HIDE DEF f, g, one, two
  <2>5. CASE OnLeft(f) <=> OnLeft(g)
    <3>1. Alike(f, g) /\ f.group # 1 /\ f.id # g.id
      BY <1>1, <2>3, <2>4, <2>5 DEF Alike
    <3> QED BY <2>1, <2>3, <2>4, <2>5, <3>1, InStepGoesOn
  <2>6. CASE ~(OnLeft(f) <=> OnLeft(g))
    <3>1. PICK a, b : f.branches = <<a>> /\ g.branches = <<b>> /\ a \in Lits /\ b = -a
      BY <2>3, <2>4, <2>6, <2>8
    <3>2. Confined(x, {a}) /\ Confined(y, {b})
      BY <1>1, <2>1, <2>3, <2>4, <3>1, SideTakes
    <3>3. Last(x.stack) = f /\ Last(y.stack) = g /\ x.stack # <<>> /\ y.stack # <<>>
      <4>1. l.stack \in Seq(FineFrame) /\ k.stack \in Seq(FineFrame)
        BY InStepFacts
      <4>2. Last(Append(Front(l.stack), f)) = f /\ Append(Front(l.stack), f) # <<>>
        BY <4>1, <1>1, <2>3, ReplaceLast
      <4>3. Last(Append(Front(k.stack), g)) = g /\ Append(Front(k.stack), g) # <<>>
        BY <4>1, <1>1, <2>4, ReplaceLast
      <4> QED BY <4>2, <4>3, <2>1
    <3>4. OtherSides(x, y)
      BY <3>3, <2>3, <2>4, <2>6 DEF OtherSides
    <3> QED BY <3>1, <3>2, <3>4 DEF Parted
  <2> QED BY <2>5, <2>6
<1> QED BY <1>2, <1>3, <1>4, <1>5

(* The two sides of a group, renumbered. *)
Renumbered(f, h) ==
  /\ h \in FineFrame /\ h.stage = "enter" /\ h.failed = 0 /\ h.branches = <<>>
  /\ OnLeft(f) => h.id = f.id /\ h.group = f.group \div 2
  /\ ~OnLeft(f) => h.id = f.id - f.group \div 2 /\ h.group = f.group - f.group \div 2

(* A side is numbered from 0. *)
LEMMA SideNumbers ==
  ASSUME NEW f \in FineFrame, f.group # 1
  PROVE  Renumbered(f, Child(f))
BY ChildType DEF OnLeft, Child, Frame, Renumbered

(* Two of a side are a group, with different numbers. *)
LEMMA TwoOnASide ==
  ASSUME NEW a \in Nat, NEW b \in Nat, a # b, NEW g \in Nat, NEW p \in Nat
  PROVE  /\ a < p /\ b < p => p # 1
         /\ ~(a < p) /\ ~(b < p) /\ a < g /\ b < g => g - p # 1 /\ a - p # b - p
OBVIOUS

(* Branch keeps two of the same side in step, or finishes both. *)
LEMMA InStepBranched ==
  ASSUME NEW d \in Databases, NEW l, Fine(d, l), NEW k, Fine(d, k), InStep(l, k),
         Last(l.stack).stage = "branch", NEW s,
         NEW x, x = Branched(l, s), NEW y, y = Branched(k, s)
  PROVE  InStep(x, y) \/ Finished(x, y)
<1> DEFINE n == Len(l.stack)
           f == [Last(l.stack) EXCEPT !.stage = "undo"]
           g == [Last(k.stack) EXCEPT !.stage = "undo"]
<1>1. /\ Last(l.stack) \in FineFrame /\ Last(k.stack) \in FineFrame
      /\ Alike(Last(l.stack), Last(k.stack)) /\ Last(l.stack).id # Last(k.stack).id
      /\ Last(l.stack).group # 1 /\ l.stack # <<>> /\ k.stack # <<>> /\ Led(l) /\ Led(k)
      /\ l.current = k.current /\ l.theta = k.theta /\ l.sat = k.sat
      /\ l.cubes = <<>> /\ k.cubes = <<>> /\ n = Len(k.stack) /\ n \in Nat \ {0}
      /\ Last(k.stack).stage = "branch"
      /\ OnLeft(Last(l.stack)) <=> OnLeft(Last(k.stack))
  BY InStepFacts DEF InStep, Alike
<1>2. /\ InBranch(l) \in Seq(FineFrame) /\ Len(InBranch(l)) = n
      /\ InBranch(l)[n] = f /\ InBranch(l) = Append(Front(l.stack), f)
      /\ \A i \in 1 .. n - 1 : InBranch(l)[i] = l.stack[i]
      /\ f \in FineFrame /\ f.stage = "undo" /\ f.failed = Last(l.stack).failed
      /\ f.branches = Last(l.stack).branches /\ f.id = Last(l.stack).id
      /\ f.group = Last(l.stack).group
  BY <1>1, InBranchFacts DEF InBranch
<1>3. /\ InBranch(k) \in Seq(FineFrame) /\ Len(InBranch(k)) = n
      /\ InBranch(k)[n] = g /\ InBranch(k) = Append(Front(k.stack), g)
      /\ \A i \in 1 .. n - 1 : InBranch(k)[i] = k.stack[i]
      /\ g \in FineFrame /\ g.stage = "undo" /\ g.failed = Last(k.stack).failed
      /\ g.branches = Last(k.stack).branches /\ g.id = Last(k.stack).id
      /\ g.group = Last(k.stack).group
  BY <1>1, InBranchFacts DEF InBranch
<1>4. Chosen(l) = Chosen(k)
  BY <1>1 DEF Chosen, Alike
<1>5. /\ x.solver = s /\ y.solver = s /\ x.current = y.current /\ x.theta = y.theta
      /\ x.sat = y.sat /\ x.cubes = <<>> /\ y.cubes = <<>>
      /\ s.conflict => x.stack = InBranch(l) /\ y.stack = InBranch(k)
      /\ ~s.conflict => /\ x.stack = Append(InBranch(l), Child(f))
                        /\ y.stack = Append(InBranch(k), Child(g))
  BY <1>1, <1>2, <1>3, <1>4 DEF Branched
<1> HIDE DEF f, g
<1>6. Alike(f, g) /\ f.group # 1 /\ g.group # 1 /\ Pending(f) = {} /\ Pending(g) = {}
      /\ Parting(f) /\ Parting(g) /\ f.id # g.id /\ (OnLeft(f) <=> OnLeft(g))
  <2>1. Alike(f, g) /\ f.group # 1 /\ g.group # 1 /\ Parting(f) /\ Parting(g) /\ f.id # g.id
    BY <1>1, <1>2, <1>3 DEF Alike, Parting
  <2>2. OnLeft(f) <=> OnLeft(g)
    BY <1>1, <1>2, <1>3 DEF OnLeft
  <2>3. \A e \in FineFrame : e.group # 1 /\ Parting(e) /\ e.stage = "undo" => Pending(e) = {}
    BY GroupFacts
  <2>4. Pending(f) = {} /\ Pending(g) = {}
    BY <1>2, <1>3, <2>1, <2>3
  <2> QED BY <2>1, <2>2, <2>4
<1>7. CASE s.conflict
  <2>1. Bound(x, {}) /\ Bound(y, {})
    <3>1. x.stack = Append(Front(l.stack), f) /\ y.stack = Append(Front(k.stack), g)
      BY <1>2, <1>3, <1>5, <1>7
    <3>2. Bound(x, Pending(f)) /\ Bound(y, Pending(g))
      BY <3>1, <1>1, <1>2, <1>3, <1>6, LedTakes
    <3> QED BY <3>2, <1>6
  <2>2. Len(x.cubes) = 0
    BY <1>5
  <2>3. \A i \in 1 .. Len(x.cubes) : FALSE
    BY <2>2
  <2> QED BY <2>1, <2>3 DEF Finished
<1>8. CASE ~s.conflict
  <2> DEFINE p == Child(f)
             q == Child(g)
  <2>0. Renumbered(f, p) /\ Renumbered(g, q)
    BY <1>2, <1>3, <1>6, SideNumbers
  <2> HIDE DEF p, q
  <2>1. /\ p \in FineFrame /\ q \in FineFrame /\ p.stage = "enter" /\ q.stage = "enter"
        /\ p.failed = 0 /\ q.failed = 0 /\ p.branches = <<>> /\ q.branches = <<>>
    BY <2>0 DEF Renumbered
  <2>2. p.group = q.group /\ p.group # 1 /\ p.id # q.id
    <3> DEFINE h == f.group \div 2
    <3>1. /\ f.id \in Nat /\ g.id \in Nat /\ f.id # g.id /\ f.group \in Nat /\ f.group = g.group
          /\ f.id < f.group /\ g.id < f.group /\ h \in Nat
      BY <1>2, <1>3, <1>6, FrameFacts, Halves DEF Alike
    <3>2. OnLeft(f) <=> f.id < h
      BY DEF OnLeft
    <3>3. OnLeft(g) <=> g.id < h
      BY <3>1 DEF OnLeft
    <3>4. CASE OnLeft(f)
      <4>1. p.id = f.id /\ q.id = g.id /\ p.group = h /\ q.group = h
        BY <2>0, <3>1, <3>4, <1>6 DEF Renumbered
      <4>2. h # 1
        <5> HIDE DEF h
        <5> QED BY <3>1, <3>2, <3>3, <3>4, <1>6, TwoOnASide
      <4> QED BY <3>1, <4>1, <4>2
    <3>5. CASE ~OnLeft(f)
      <4>1. /\ p.id = f.id - h /\ q.id = g.id - h /\ p.group = f.group - h
            /\ q.group = f.group - h
        BY <2>0, <3>1, <3>5, <1>6 DEF Renumbered
      <4>2. f.group - h # 1 /\ f.id - h # g.id - h
        <5> HIDE DEF h
        <5> QED BY <3>1, <3>2, <3>3, <3>5, <1>6, TwoOnASide
      <4> QED BY <4>1, <4>2
    <3> QED BY <3>4, <3>5
  <2> PICK u \in Seq(FineFrame), v \in Seq(FineFrame) : u = InBranch(l) /\ v = InBranch(k)
    BY <1>2, <1>3
  <2>3. LET r == Append(u, p) IN
          /\ Len(r) = n + 1 /\ r # <<>> /\ r[n + 1] = p /\ Last(r) = p
          /\ \A i \in 1 .. n : r[i] = u[i]
    <3> PICK e \in FineFrame : e = p
      BY <2>1
    <3>1. Len(u) = n
      BY <1>2
    <3> HIDE DEF n
    <3> QED BY <3>1, AppendFacts
  <2>4. LET r == Append(v, q) IN
          /\ Len(r) = n + 1 /\ r # <<>> /\ r[n + 1] = q /\ Last(r) = q
          /\ \A i \in 1 .. n : r[i] = v[i]
    <3> PICK e \in FineFrame : e = q
      BY <2>1
    <3>1. Len(v) = n
      BY <1>3
    <3> HIDE DEF n
    <3> QED BY <3>1, AppendFacts
  <2>5. x.stack = Append(u, p) /\ y.stack = Append(v, q)
    BY <1>5, <1>8 DEF p, q
  <2>6. \A i \in 1 .. n + 1 : i = n + 1 \/ (i \in 1 .. n /\ (i = n \/ (i \in 1 .. n - 1 /\ i \in 1 .. n)))
    BY <1>1
  <2>7. n \in 1 .. n /\ \A i \in 1 .. n - 1 : i \in 1 .. n
    BY <1>1
  <2>8. \A i \in 1 .. n - 1 : Alike(x.stack[i], y.stack[i]) /\ x.stack[i].group # 1
    <3>1. \A i \in 1 .. n - 1 : x.stack[i] = l.stack[i] /\ y.stack[i] = k.stack[i]
      BY <1>2, <1>3, <2>3, <2>4, <2>5, <2>7
    <3> QED BY <3>1, <2>7 DEF InStep
  <2>9. Alike(x.stack[n], y.stack[n]) /\ x.stack[n].group # 1
    BY <1>2, <1>3, <1>6, <2>3, <2>4, <2>5, <2>7, SMTT(30)
  <2>10. Alike(x.stack[n + 1], y.stack[n + 1]) /\ x.stack[n + 1].group # 1
    BY <2>1, <2>2, <2>3, <2>4, <2>5 DEF Alike
  <2>11. \A i \in 1 .. n + 1 : Alike(x.stack[i], y.stack[i]) /\ x.stack[i].group # 1
    BY <2>6, <2>8, <2>9, <2>10
  <2> QED BY <1>5, <2>1, <2>2, <2>3, <2>4, <2>5, <2>11 DEF InStep
<1> QED BY <1>7, <1>8

(* What holds of two workers holds after one step of each. *)
LEMMA RelatedAfter ==
  ASSUME NEW d \in Databases, NEW opt, NEW l, Fine(d, l), NEW k, Fine(d, k), Related(l, k)
  PROVE  Related(After(d, opt, l), After(d, opt, k))
<1>1. CASE Parted(l, k)
  BY <1>1, PartedAfter DEF Related
<1>2. CASE Finished(l, k)
  BY <1>2, FinishedAfter DEF Related
<1>3. CASE InStep(l, k)
  <2>1. /\ l.stack # <<>> /\ k.stack # <<>> /\ Last(l.stack).stage \in {"enter", "look", "branch"}
        /\ Last(k.stack).stage = Last(l.stack).stage
        /\ l.solver = k.solver /\ l.current = k.current /\ Last(l.stack).branches = Last(k.stack).branches
    BY <1>3, InStepFacts DEF Alike
  <2>2. CASE Last(l.stack).stage = "enter"
    BY <1>3, <2>1, <2>2, InStepEntered DEF After, Related
  <2>3. CASE Last(l.stack).stage = "look"
    <3>1. PICK look : look = Looked(d, opt, l.solver, Len(l.current))
      OBVIOUS
    <3>2. After(d, opt, l) = LookedAt(d, opt, l, look) /\ After(d, opt, k) = LookedAt(d, opt, k, look)
      BY <2>1, <2>3, <3>1 DEF After
    <3> QED BY <1>3, <2>3, <3>1, <3>2, InStepLookedAt DEF Related
  <2>4. CASE Last(l.stack).stage = "branch"
    <3>1. PICK s : s = AssumeAndPropagate(d, l.solver, Chosen(l))
      OBVIOUS
    <3>2. After(d, opt, l) = Branched(l, s) /\ After(d, opt, k) = Branched(k, s)
      BY <2>1, <2>4, <3>1 DEF After, Chosen
    <3> QED BY <1>3, <2>4, <3>2, InStepBranched DEF Related
  <2> QED BY <2>1, <2>2, <2>3, <2>4
<1> QED BY <1>1, <1>2, <1>3 DEF Related


-----------------------------------------------------------------------------
(***************************************************************************)
(* All workers, row by row.                                                *)
(***************************************************************************)
(* Two workers start in step: there are two only in a group. *)
LEMMA StartedInStep ==
  ASSUME NEW d \in Databases, NEW n \in Nat, NEW t, NEW a \in Nat, NEW b \in Nat, a # b, a < n, b < n
  PROVE  InStep(Started(d, a, n, t), Started(d, b, n, t))
<1> DEFINE l == Started(d, a, n, t)
           k == Started(d, b, n, t)
           f == Frame(a, n)
           g == Frame(b, n)
<1>1. n # 1
  OBVIOUS
<1>2. /\ f.stage = "enter" /\ g.stage = "enter" /\ Alike(f, g) /\ f.group # 1 /\ f.id # g.id
  BY <1>1 DEF Frame, Alike
<1>3. /\ l.stack = <<f>> /\ k.stack = <<g>> /\ l.cubes = <<>> /\ k.cubes = <<>>
      /\ l.solver = k.solver /\ l.current = k.current /\ l.theta = k.theta /\ l.sat = k.sat
  BY DEF Started
<1> HIDE DEF f, g, l, k
<1>4. \A e : <<e>> # <<>> /\ Len(<<e>>) = 1 /\ <<e>>[1] = e /\ Last(<<e>>) = e
  BY DEF Last
<1>5. Last(l.stack) = f /\ Last(k.stack) = g
  BY <1>3, <1>4
<1>6. \A i \in 1 .. 1 : i = 1
  OBVIOUS
<1>7. /\ l.stack # <<>> /\ k.stack # <<>> /\ Len(l.stack) = 1 /\ Len(k.stack) = 1
      /\ l.stack[1] = f /\ k.stack[1] = g
  BY <1>3, <1>4
<1>8. InStep(l, k)
  BY <1>2, <1>3, <1>5, <1>6, <1>7 DEF InStep
<1> QED BY <1>8 DEF l, k

(* No cubes at the start. *)
LEMMA StartedOwn ==
  ASSUME NEW d, NEW id, NEW n, NEW t
  PROVE  Own(Started(d, id, n, t))
<1>1. Len(Started(d, id, n, t).cubes) = 0
  BY DEF Started
<1>2. \A i \in 1 .. Len(Started(d, id, n, t).cubes) : FALSE
  BY <1>1
<1> QED BY <1>2 DEF Own

(* The cubes of l are the first of k. *)
Grown(l, k) == \A i \in 1 .. Len(l.cubes) : i \in 1 .. Len(k.cubes) /\ k.cubes[i] = l.cubes[i]

(* A step removes no cube. *)
LEMMA GrownAfter ==
  ASSUME NEW d \in Databases, NEW opt, NEW l, Fine(d, l), NEW k, k = After(d, opt, l)
  PROVE  Grown(l, k)
<1>1. CASE l.stack = <<>>
  BY <1>1 DEF After, Grown
<1>2. CASE l.stack # <<>>
  <2>1. Goes(l, k)
    BY <1>2, AfterGoes
  <2>2. CASE k.cubes = l.cubes
    BY <2>2 DEF Grown
  <2>3. CASE k.cubes = Append(l.cubes, l.current)
    <3>1. /\ Len(k.cubes) = Len(l.cubes) + 1 /\ Len(l.cubes) \in Nat
          /\ \A i \in 1 .. Len(l.cubes) : k.cubes[i] = l.cubes[i]
      BY <2>3, NewCube
    <3>2. \A i \in 1 .. Len(l.cubes) : i \in 1 .. Len(l.cubes) + 1
      BY <3>1
    <3> QED BY <3>1, <3>2 DEF Grown
  <2> QED BY <2>1, <2>2, <2>3, GoesCubes
<1> QED BY <1>1, <1>2

(* What the rows of the table are. *)
LEMMA RowFacts ==
  ASSUME NEW T, NEW N, NEW d, NEW opt, NEW n, NEW t, Lockstep(T, N, d, opt, n, t)
  PROVE  /\ N \in Nat
         /\ \A i \in 0 .. N : \A w \in 1 .. n : Fine(d, T[i][w]) /\ T[i][w] \in Locals(d)
         /\ \A w \in 1 .. n : T[0][w] = Started(d, w - 1, n, t)
         /\ \A i \in 1 .. N : i - 1 \in 0 .. N /\ i \in 0 .. N
         /\ \A i \in 1 .. N : \A w \in 1 .. n : T[i][w] = After(d, opt, T[i - 1][w])
<1>1. N \in Nat /\ T \in [0 .. N -> [1 .. n -> FineLocals(d)]]
  BY DEF Lockstep
<1>2. ASSUME NEW i \in 0 .. N, NEW w \in 1 .. n PROVE T[i][w] \in FineLocals(d)
  BY <1>1
<1>3. \A i \in 1 .. N : i - 1 \in 0 .. N /\ i \in 0 .. N
  BY <1>1
<1> QED BY <1>1, <1>2, <1>3 DEF Lockstep, FineLocals

(* Rows the relations hold in. *)
Together(T, i, n) ==
  /\ \A v, w \in 1 .. n : v # w => Related(T[i][v], T[i][w])
  /\ \A w \in 1 .. n : Own(T[i][w])

(* In every row all pairs of workers are related. *)
LEMMA RowsTogether ==
  ASSUME NEW T, NEW N, NEW d \in Databases, NEW opt, NEW n \in Nat, NEW t, Lockstep(T, N, d, opt, n, t)
  PROVE  \A i \in 0 .. N : Together(T, i, n)
<1> DEFINE S == {i \in 0 .. N : Together(T, i, n)}
<1>1. 0 \in S
  <2>1. ASSUME NEW v \in 1 .. n, NEW w \in 1 .. n, v # w PROVE Related(T[0][v], T[0][w])
    <3>1. v - 1 \in Nat /\ w - 1 \in Nat /\ v - 1 # w - 1 /\ v - 1 < n /\ w - 1 < n
      BY <2>1
    <3>2. Related(Started(d, v - 1, n, t), Started(d, w - 1, n, t))
      BY <3>1, StartedInStep DEF Related
    <3> QED BY <3>2, RowFacts
  <2>2. \A w \in 1 .. n : Own(T[0][w])
    BY StartedOwn, RowFacts
  <2>3. 0 \in 0 .. N
    BY RowFacts
  <2> QED BY <2>1, <2>2, <2>3 DEF Together
<1>2. ASSUME NEW i \in 1 .. N, i - 1 \in S PROVE i \in S
  <2> PICK j : j = i - 1
    OBVIOUS
  <2>1. j \in 0 .. N /\ i \in 0 .. N /\ Together(T, j, n)
    BY <1>2, RowFacts
  <2>2. \A w \in 1 .. n : T[i][w] = After(d, opt, T[j][w]) /\ Fine(d, T[j][w])
    BY <2>1, RowFacts
  <2>3. ASSUME NEW v \in 1 .. n, NEW w \in 1 .. n, v # w PROVE Related(T[i][v], T[i][w])
    <3>1. Related(T[j][v], T[j][w])
      BY <2>1, <2>3 DEF Together
    <3> QED BY <3>1, <2>2, RelatedAfter
  <2>4. ASSUME NEW w \in 1 .. n PROVE Own(T[i][w])
    <3>1. Own(T[j][w])
      BY <2>1 DEF Together
    <3> QED BY <3>1, <2>2, ConfinedAfter
  <2> QED BY <2>1, <2>3, <2>4 DEF Together
<1> HIDE DEF S
<1>3. Inductive(N, S)
  BY <1>1, <1>2, RowFacts DEF Inductive
<1>4. 0 .. N \subseteq S
  BY <1>3, InductionUpTo
<1> QED BY <1>4 DEF S

(* The cubes of a row are among those of the later ones. *)
LEMMA RowsGrown ==
  ASSUME NEW T, NEW N, NEW d \in Databases, NEW opt, NEW n \in Nat, NEW t, Lockstep(T, N, d, opt, n, t),
         NEW w \in 1 .. n, NEW i \in 0 .. N
  PROVE  Grown(T[i][w], T[N][w])
<1> DEFINE S == {j \in 0 .. N : \A k \in 0 .. j : Grown(T[k][w], T[j][w])}
<1>1. \A l : Grown(l, l)
  BY DEF Grown
<1>2. 0 \in S
  <2>1. 0 \in 0 .. N /\ \A k \in 0 .. 0 : k = 0
    BY RowFacts
  <2> QED BY <1>1, <2>1
<1>3. ASSUME NEW j \in 1 .. N, j - 1 \in S PROVE j \in S
  <2> PICK p : p = j - 1
    OBVIOUS
  <2>1. p \in 0 .. N /\ j \in 0 .. N /\ \A k \in 0 .. p : Grown(T[k][w], T[p][w])
    BY <1>3, RowFacts
  <2>2. Grown(T[p][w], T[j][w])
    <3>1. T[j][w] = After(d, opt, T[p][w]) /\ Fine(d, T[p][w])
      BY <2>1, RowFacts
    <3> QED BY <3>1, GrownAfter
  <2>3. \A l, m, k : Grown(l, m) /\ Grown(m, k) => Grown(l, k)
    BY DEF Grown
  <2>4. \A k \in 0 .. j : k = j \/ k \in 0 .. p
    OBVIOUS
  <2>5. \A k \in 0 .. j : Grown(T[k][w], T[j][w])
    BY <1>1, <2>1, <2>2, <2>3, <2>4
  <2> QED BY <2>1, <2>5
<1> HIDE DEF S
<1>4. Inductive(N, S)
  BY <1>2, <1>3, RowFacts DEF Inductive
<1>5. N \in S
  BY <1>4, InductionUpTo
<1> QED BY <1>5 DEF S

(* Two workers may be at different rows: their cubes are among those of the later
   row, where the workers are related. *)
LEMMA DisjointIs ==
  ASSUME Recorded PROVE Disjoint
<1>1. PICK n, t, N, T, c :
        /\ n \in WorkerCounts /\ t \in Thetas
        /\ Spread(n) /\ Lockstep(T, N, db, optimizing, n, t) /\ InRow(T, N, c, n)
  BY DEF Recorded
<1>2. db \in Databases /\ n \in Nat /\ Gang = 1 .. n
  BY <1>1, RecordedFine, WorkersAssumption DEF Gang, Spread, IsArray
<1>3. Together(T, N, n) /\ N \in 0 .. N
  <2>1. N \in 0 .. N
    BY <1>1, RowFacts
  <2> QED BY <2>1, <1>1, <1>2, RowsTogether
<1>4. ASSUME NEW w \in 1 .. n
      PROVE  /\ DOMAIN cubes[w] = 1 .. Len(cubes[w])
             /\ \A i \in 1 .. Len(cubes[w]) :
                  i \in 1 .. Len(T[N][w].cubes) /\ T[N][w].cubes[i] = cubes[w][i]
  <2>1. c[w] \in 0 .. N /\ Local(w) = T[c[w]][w]
    BY <1>1 DEF InRow
  <2>2. Grown(T[c[w]][w], T[N][w]) /\ T[c[w]][w] \in Locals(db)
    BY <1>1, <1>2, <2>1, RowsGrown, RowFacts
  <2>3. T[c[w]][w].cubes = cubes[w]
    BY <2>1, LocalIs
  <2>4. cubes[w] \in Seq(Seq(Lits))
    BY <1>2, <2>2, <2>3, LocalFacts
  <2> QED BY <2>2, <2>3, <2>4 DEF Grown
<1>5. ASSUME NEW v \in 1 .. n, NEW w \in 1 .. n, NEW i \in 1 .. Len(cubes[v]), NEW j \in 1 .. Len(cubes[w])
      PROVE  (v = w /\ i = j) \/ (v # w /\ cubes[v][i] = cubes[w][j]) \/ Opposite(cubes[v][i], cubes[w][j])
  <2> PICK l, k : l = T[N][v] /\ k = T[N][w]
    OBVIOUS
  <2>1. /\ i \in 1 .. Len(l.cubes) /\ l.cubes[i] = cubes[v][i]
        /\ j \in 1 .. Len(k.cubes) /\ k.cubes[j] = cubes[w][j]
    BY <1>4
  <2>2. CASE v = w
    <3>1. Own(l) /\ k = l
      BY <2>2, <1>3 DEF Together
    <3> QED BY <2>1, <2>2, <3>1 DEF Own
  <2>3. CASE v # w
    <3>1. Related(l, k)
      BY <2>3, <1>3 DEF Together
    <3>2. CASE InStep(l, k)
      <4>1. Len(l.cubes) = 0
        BY <3>2 DEF InStep
      <4> QED BY <4>1, <2>1
    <3>3. CASE Parted(l, k)
      BY <2>1, <3>3 DEF Parted, Confined, Opposite
    <3>4. CASE Finished(l, k)
      BY <2>1, <2>3, <3>4 DEF Finished
    <3> QED BY <3>1, <3>2, <3>3, <3>4 DEF Related
  <2> QED BY <2>2, <2>3
<1>6. ASSUME NEW v \in Gang, NEW w \in Gang, NEW i \in DOMAIN cubes[v], NEW j \in DOMAIN cubes[w]
      PROVE  (v = w /\ i = j) \/ (v # w /\ cubes[v][i] = cubes[w][j]) \/ Opposite(cubes[v][i], cubes[w][j])
  <2>1. v \in 1 .. n /\ w \in 1 .. n /\ i \in 1 .. Len(cubes[v]) /\ j \in 1 .. Len(cubes[w])
    BY <1>2, <1>4
  <2> QED BY <2>1, <1>5
<1> QED BY <1>6 DEF Disjoint, Opposite

(* Cubes overlap only when they are the same cube, returned by workers of a
   group that stopped together: what run_master hands out is disjoint. *)
THEOREM SharesDisjoint == Spec => []Disjoint
<1> QED BY AlwaysRecorded, DisjointIs, PTL


-----------------------------------------------------------------------------
(***************************************************************************)
(* What a worker covers: the cubes it returned, and what is ahead of it.   *)
(***************************************************************************)
Promises(l, i, m) ==
  Reaches(l, i, m) /\ (Wide(l.stack[i]) \/ \E x \in Pending(l.stack[i]) : x \in m)

Share(l, m) ==
  \/ \E i \in 1 .. Len(l.cubes) : ToSet(l.cubes[i]) \subseteq m
  \/ \E i \in 1 .. Len(l.stack) : Promises(l, i, m)

(* Nothing is added to a share: the path of a cube that is returned was ahead. *)
LEMMA PathInShare ==
  ASSUME NEW d \in Databases, NEW l, Fine(d, l), l.stack # <<>>, Last(l.stack).stage # "undo", NEW m
  PROVE  ToSet(l.current) \subseteq m <=> Reaches(l, Len(l.stack), m)
<1>1. Len(l.current) = Len(l.stack) - 1 /\ l.current \in Seq(Lits)
  BY FineFacts, LocalFacts
<1>2. ToSet(l.current) = {l.current[j] : j \in 1 .. Len(l.stack) - 1}
  BY <1>1 DEF ToSet
<1> QED BY <1>2 DEF Reaches

(* The calls above the last are reached as before. *)
LEMMA ReachesKept ==
  ASSUME NEW d \in Databases, NEW l, Fine(d, l), l.stack # <<>>, NEW k, Kept(l, k),
         NEW m, NEW i \in 1 .. Len(l.stack)
  PROVE  Reaches(k, i, m) <=> Reaches(l, i, m)
<1>1. Len(l.stack) \in Nat
  BY FineFacts
<1>2. \A j \in 1 .. i - 1 : j \in 1 .. Len(l.stack) - 1
  BY <1>1
<1> QED BY <1>2 DEF Reaches, Kept

(* What is in the share after a step was in it before. *)
LEMMA ShareBack ==
  ASSUME NEW d \in Databases, NEW l, Fine(d, l), l.stack # <<>>, NEW k, Goes(l, k), NEW m, Share(k, m)
  PROVE  Share(l, m)
<1> DEFINE n == Len(l.stack)
<1>1. /\ n \in Nat \ {0} /\ n \in 1 .. n /\ Last(l.stack) = l.stack[n] /\ Last(l.stack) \in FineFrame
  BY FineFacts
<1>2. Kept(l, k)
  BY DEF Goes, Returns, Replaces, Descends
<1>3. ASSUME NEW i \in 1 .. n - 1, Promises(k, i, m) PROVE Share(l, m)
  <2>1. i \in 1 .. n /\ k.stack[i] = l.stack[i]
    BY <1>1, <1>2 DEF Kept
  <2>2. Promises(l, i, m)
    BY <2>1, <1>2, <1>3, ReachesKept DEF Promises
  <2> QED BY <2>1, <2>2 DEF Share
<1>4. ASSUME Wide(Last(l.stack)), Reaches(l, n, m) PROVE Share(l, m)
  BY <1>1, <1>4 DEF Share, Promises
<1>5. ASSUME Narrows(Last(l.stack), k.stack[n]), Promises(k, n, m) PROVE Share(l, m)
  <2>1. Reaches(l, n, m)
    BY <1>1, <1>2, <1>5, ReachesKept DEF Promises
  <2>2. CASE Wide(Last(l.stack))
    BY <2>1, <2>2, <1>4
  <2>3. CASE Parting(k.stack[n]) /\ Pending(k.stack[n]) \subseteq Pending(Last(l.stack))
    <3>1. ~Wide(k.stack[n])
      BY <2>3 DEF Wide, Parting
    <3>2. \E x \in Pending(l.stack[n]) : x \in m
      BY <3>1, <2>3, <1>1, <1>5 DEF Promises
    <3> QED BY <3>2, <2>1, <1>1 DEF Share, Promises
  <2> QED BY <2>2, <2>3, <1>5 DEF Narrows
<1>6. ASSUME NEW i \in 1 .. Len(k.cubes), ToSet(k.cubes[i]) \subseteq m PROVE Share(l, m)
  <2>1. CASE k.cubes = l.cubes
    BY <2>1, <1>6 DEF Share
  <2>2. CASE Wide(Last(l.stack)) /\ k.cubes = Append(l.cubes, l.current)
    <3>1. /\ k.cubes[Len(l.cubes) + 1] = l.current
          /\ \A j \in 1 .. Len(l.cubes) : k.cubes[j] = l.cubes[j]
          /\ i = Len(l.cubes) + 1 \/ i \in 1 .. Len(l.cubes)
      BY <2>2, NewCube
    <3>2. CASE i \in 1 .. Len(l.cubes)
      BY <3>1, <3>2, <1>6 DEF Share
    <3>3. CASE i = Len(l.cubes) + 1
      <4>1. ToSet(l.current) \subseteq m
        BY <3>1, <3>3, <1>6
      <4>2. Last(l.stack).stage # "undo"
        BY <2>2 DEF Wide
      <4>3. Reaches(l, n, m)
        BY <4>1, <4>2, PathInShare
      <4> QED BY <4>3, <2>2, <1>4
    <3> QED BY <3>1, <3>2, <3>3
  <2> QED BY <2>1, <2>2, GoesCubes
<1>7. ASSUME NEW i \in 1 .. Len(k.stack), Promises(k, i, m) PROVE Share(l, m)
  <2>1. CASE Returns(l, k)
    BY <2>1, <1>3, <1>7 DEF Returns
  <2>2. CASE Replaces(l, k)
    <3>1. Narrows(Last(l.stack), k.stack[n]) /\ Len(k.stack) = n
      BY <2>2 DEF Replaces
    <3>2. i = n \/ i \in 1 .. n - 1
      BY <3>1, <1>1
    <3> QED BY <3>1, <3>2, <1>3, <1>5, <1>7
  <2>3. CASE Descends(l, k)
    <3>1. /\ Narrows(Last(l.stack), k.stack[n]) /\ Len(k.stack) = n + 1
          /\ k.current[n] \in Pending(Last(l.stack))
      BY <2>3 DEF Descends
    <3>2. i = n + 1 \/ i = n \/ i \in 1 .. n - 1
      BY <3>1, <1>1
    <3>3. CASE i = n + 1
      <4>1. \A j \in 1 .. n : k.current[j] \in m
        <5>1. i - 1 = n
          BY <3>3, <1>1
        <5> QED BY <5>1, <1>7 DEF Promises, Reaches
      <4>2. Reaches(k, n, m) /\ k.current[n] \in m
        <5>1. \A j \in 1 .. n - 1 : j \in 1 .. n
          BY <1>1
        <5> QED BY <4>1, <5>1, <1>1 DEF Reaches
      <4>3. Reaches(l, n, m)
        BY <4>2, <1>1, <1>2, ReachesKept
      <4> QED BY <4>2, <4>3, <3>1, <1>1 DEF Share, Promises
    <3> QED BY <3>1, <3>2, <3>3, <1>3, <1>5, <1>7
  <2> QED BY <2>1, <2>2, <2>3 DEF Goes
<1> QED BY <1>6, <1>7 DEF Share


(* What is above the last call stays in the share. *)
LEMMA ShareAbove ==
  ASSUME NEW d \in Databases, NEW l, Fine(d, l), l.stack # <<>>, NEW k, Goes(l, k), NEW m, Share(l, m)
  PROVE  Share(k, m) \/ Promises(l, Len(l.stack), m)
<1> DEFINE n == Len(l.stack)
<1>1. n \in Nat \ {0}
  BY FineFacts
<1>2. Kept(l, k) /\ (Len(k.stack) = n - 1 \/ Len(k.stack) = n \/ Len(k.stack) = n + 1)
  BY DEF Goes, Returns, Replaces, Descends
<1>3. ASSUME NEW i \in 1 .. Len(l.cubes), ToSet(l.cubes[i]) \subseteq m PROVE Share(k, m)
  <2>1. CASE k.cubes = l.cubes
    BY <2>1, <1>3 DEF Share
  <2>2. CASE k.cubes = Append(l.cubes, l.current)
    <3>1. /\ Len(k.cubes) = Len(l.cubes) + 1 /\ Len(l.cubes) \in Nat
          /\ \A j \in 1 .. Len(l.cubes) : k.cubes[j] = l.cubes[j]
      BY <2>2, NewCube
    <3>2. i \in 1 .. Len(k.cubes)
      BY <3>1
    <3> QED BY <3>1, <3>2, <1>3 DEF Share
  <2> QED BY <2>1, <2>2, GoesCubes
<1>4. ASSUME NEW i \in 1 .. n - 1, Promises(l, i, m) PROVE Share(k, m)
  <2>1. i \in 1 .. n /\ i \in 1 .. Len(k.stack) /\ k.stack[i] = l.stack[i]
    BY <1>1, <1>2 DEF Kept
  <2>2. Promises(k, i, m)
    BY <2>1, <1>2, <1>4, ReachesKept DEF Promises
  <2> QED BY <2>1, <2>2 DEF Share
<1>5. \A i \in 1 .. n : i = n \/ i \in 1 .. n - 1
  BY <1>1
<1> QED BY <1>3, <1>4, <1>5 DEF Share

(* The last call goes on with what it promised. *)
LEMMA PromiseGoesOn ==
  ASSUME NEW d \in Databases, NEW l, Fine(d, l), l.stack # <<>>, NEW m, Promises(l, Len(l.stack), m),
         NEW f \in FineFrame, Wide(f) \/ \E x \in Pending(f) : x \in m,
         NEW k, k.stack = Append(Front(l.stack), f),
         \A i \in 1 .. Len(l.stack) - 1 : k.current[i] = l.current[i]
  PROVE  Share(k, m)
<1> DEFINE n == Len(l.stack)
<1>1. n \in Nat \ {0} /\ n \in 1 .. n /\ l.stack \in Seq(FineFrame)
  BY FineFacts, LocalFacts
<1>2. LET r == Append(Front(l.stack), f) IN Len(r) = n /\ r[n] = f
  BY <1>1, ReplaceLast
<1>3. Reaches(k, n, m)
  BY DEF Promises, Reaches
<1> QED BY <1>1, <1>2, <1>3 DEF Share, Promises

(* The last call returns its path. *)
LEMMA PromiseReturned ==
  ASSUME NEW d \in Databases, NEW l, Fine(d, l), l.stack # <<>>, Last(l.stack).stage # "undo",
         NEW m, Promises(l, Len(l.stack), m), NEW k, k.cubes = Append(l.cubes, l.current)
  PROVE  Share(k, m)
<1>1. ToSet(l.current) \subseteq m
  BY PathInShare DEF Promises
<1>2. /\ Len(k.cubes) = Len(l.cubes) + 1 /\ Len(l.cubes) \in Nat
      /\ k.cubes[Len(l.cubes) + 1] = l.current
  BY NewCube
<1>3. Len(l.cubes) + 1 \in 1 .. Len(k.cubes)
  BY <1>2
<1> QED BY <1>1, <1>2, <1>3 DEF Share

(* Enter gives up what the call promised only at the cap, for another to keep. *)
LEMMA EnteredShare ==
  ASSUME NEW d \in Databases, NEW opt, NEW l, Fine(d, l), l.stack # <<>>, Last(l.stack).stage = "enter",
         NEW k, k = Entered(opt, l), NEW m, Promises(l, Len(l.stack), m)
  PROVE  Share(k, m) \/ k.sat \/ (~Stopped(opt, l) /\ Capped(l) /\ ~KeepsAtCap(Last(l.stack)))
<1>1. k.sat = l.sat /\ k.current = l.current
  BY DEF Entered
<1>2. CASE Stopped(opt, l)
  BY <1>1, <1>2 DEF Stopped
<1>3. CASE ~Stopped(opt, l) /\ (IF Capped(l) THEN KeepsAtCap(Last(l.stack)) ELSE TooFar(l))
  <2>1. k.cubes = Append(l.cubes, l.current)
    BY <1>3 DEF Entered
  <2> QED BY <2>1, PromiseReturned
<1>4. CASE ~Stopped(opt, l) /\ ~Capped(l) /\ ~TooFar(l)
  <2> DEFINE f == [Last(l.stack) EXCEPT !.stage = "look"]
  <2>1. k.stack = Append(Front(l.stack), f)
    BY <1>4 DEF Entered
  <2>2. f \in FineFrame /\ Wide(f)
    BY FineFacts, FrameStages DEF Wide
  <2> HIDE DEF f
  <2> QED BY <2>1, <2>2, <1>1, PromiseGoesOn
<1> QED BY <1>2, <1>3, <1>4

(* What a model that a call promises says of its solver. *)
LEMMA PromiseAgrees ==
  ASSUME NEW d \in Databases, NEW l, Fine(d, l), l.stack # <<>>, Last(l.stack).stage # "undo",
         NEW m \in TotalModels(d), Promises(l, Len(l.stack), m)
  PROVE  Agrees(l.solver, m)
BY DEF Fine, Placed, Open, Promises

(* LookAhead gives up what the call promised only when a group parts: what is
   refuted has no solution. *)
LEMMA LookedAtShare ==
  ASSUME NEW d \in Databases, NEW opt, NEW l, Fine(d, l), l.stack # <<>>, Last(l.stack).stage = "look",
         NEW look, look = Looked(d, opt, l.solver, Len(l.current)), NEW k, k = LookedAt(d, opt, l, look),
         NEW m \in TotalModels(d), Promises(l, Len(l.stack), m)
  PROVE  \/ Share(k, m)
         \/ k.sat
         \/ look.outcome = "open" /\ ~Solved(look) /\ Last(l.stack).group # 1
<1>1. Last(l.stack) \in FineFrame
  BY FineFacts
<1>2. /\ look.outcome \in {"open", "refuted", "forced"}
      /\ look.outcome = "open" /\ look.best.var # 0 => look.best.var \in Vars
      /\ look.outcome # "refuted"
  <2>1. Outcome(d, look, l.solver) /\ Agrees(l.solver, m)
    BY LookFacts, PromiseAgrees
  <2>2. look.outcome # "refuted"
    BY <2>1 DEF Outcome
  <2> QED BY <2>2, LookFacts
<1>3. CASE Solved(look) /\ opt
  <2>1. k.cubes = Append(l.cubes, l.current)
    BY <1>3 DEF LookedAt, Closed
  <2> QED BY <2>1, PromiseReturned
<1>4. CASE Solved(look) /\ ~opt
  BY <1>4 DEF LookedAt, Closed
<1>5. CASE look.outcome = "forced"
  <2> DEFINE f == [Last(l.stack) EXCEPT !.failed = @ + 1]
  <2>1. k.stack = Append(Front(l.stack), f) /\ k.current = l.current
    BY <1>5 DEF LookedAt, Forced, Solved
  <2>2. f \in FineFrame /\ Wide(f)
    BY <1>1, FrameStages DEF Wide
  <2> HIDE DEF f
  <2> QED BY <2>1, <2>2, PromiseGoesOn
<1>6. CASE look.outcome = "open" /\ ~Solved(look) /\ Last(l.stack).group = 1
  <2> DEFINE f == [Last(l.stack) EXCEPT !.stage = "branch",
                                        !.branches = Branches(Last(l.stack), look.best)]
  <2>1. k.stack = Append(Front(l.stack), f) /\ k.current = l.current
    BY <1>6 DEF LookedAt, Split
  <2> PICK v, x, y : v \in Vars /\ v = look.best.var /\ x = First(look.best) /\ y = Second(look.best)
    BY <1>2, <1>6 DEF Solved
  <2>2. f \in FineFrame /\ f.stage = "branch" /\ f.branches = <<x, y>>
    <3>1. Last(l.stack) \in FineFrame /\ look.best.var \in Vars
      BY <1>1, <1>6
    <3>2. \A e \in FineFrame : \A best : best.var \in Vars =>
            LET g == [e EXCEPT !.stage = "branch", !.branches = Branches(e, best)] IN
              /\ g \in FineFrame /\ g.stage = "branch" /\ g.branches = Branches(e, best)
              /\ e.group = 1 => Branches(e, best) = <<First(best), Second(best)>>
      BY BranchesMake, Zenon
    <3> QED BY <1>6, <3>1, <3>2
  <2>3. x \in {v, -v} /\ y \in {v, -v} /\ x # y
    BY <1>1, BranchesMake
  <2>4. v \in m \/ -v \in m
    BY DEF TotalModels
  <2> HIDE DEF f
  <2>5. Pending(f) = {x, y}
    <3>1. Pending(f) = ToSet(<<x, y>>)
      BY <2>2 DEF Pending
    <3> QED BY <3>1, ShortSequences
  <2>6. \E z \in Pending(f) : z \in m
    BY <2>3, <2>4, <2>5
  <2> QED BY <2>1, <2>2, <2>6, PromiseGoesOn
<1> QED BY <1>2, <1>3, <1>4, <1>5, <1>6 DEF Solved


(* Branch gives up nothing: a branch that conflicts has no solution. *)
LEMMA BranchedShare ==
  ASSUME NEW d \in Databases, NEW l, Fine(d, l), l.stack # <<>>, Last(l.stack).stage = "branch",
         NEW s, s = AssumeAndPropagate(d, l.solver, Chosen(l)), NEW k, k = Branched(l, s),
         NEW m \in TotalModels(d), Promises(l, Len(l.stack), m)
  PROVE  Share(k, m)
<1> DEFINE n == Len(l.stack)
           f == [Last(l.stack) EXCEPT !.stage = "undo"]
           child == Child(f)
<1>1. /\ n \in Nat \ {0} /\ n \in 1 .. n /\ Last(l.stack) \in FineFrame /\ Last(l.stack) = l.stack[n]
      /\ Len(l.current) = n - 1 /\ l.current \in Seq(Lits)
  BY FineFacts, LocalFacts
<1>2. /\ InBranch(l) \in Seq(FineFrame) /\ Len(InBranch(l)) = n /\ InBranch(l)[n] = f
      /\ f \in FineFrame /\ f.stage = "undo" /\ f.branches = Last(l.stack).branches
  BY InBranchFacts
<1>3. child \in FineFrame /\ child.stage = "enter"
  BY <1>2, ChildType
<1>4. /\ k.current = Append(l.current, Chosen(l)) /\ k.cubes = l.cubes
      /\ s.conflict => k.stack = InBranch(l)
      /\ ~s.conflict => k.stack = Append(InBranch(l), child)
  BY <1>2 DEF Branched
<1> HIDE DEF f, child
<1>5. /\ Chosen(l) \in Lits
      /\ \/ Tail(f.branches) = <<>> /\ ToSet(f.branches) = {Chosen(l)}
         \/ Tail(f.branches) = <<-Chosen(l)>> /\ ToSet(f.branches) = {Chosen(l), -Chosen(l)}
  BY <1>2, ChosenFacts
<1>6. \E x \in ToSet(f.branches) : x \in m
  <2>1. ~Wide(Last(l.stack)) /\ Pending(Last(l.stack)) = ToSet(f.branches)
    BY <1>2 DEF Wide, Pending
  <2> QED BY <2>1, <1>1 DEF Promises
<1>7. Pending(f) = ToSet(Tail(f.branches))
  BY <1>2 DEF Pending
<1>8. Reaches(l, n, m)
  BY DEF Promises
<1>9. k.current[n] = Chosen(l) /\ \A i \in 1 .. n - 1 : k.current[i] = l.current[i]
  <2>1. LET r == Append(l.current, Chosen(l)) IN
          /\ r[Len(l.current) + 1] = Chosen(l)
          /\ \A i \in 1 .. Len(l.current) : r[i] = l.current[i]
    BY <1>1, <1>5, AppendFacts
  <2>2. Len(l.current) + 1 = n
    BY <1>1
  <2> QED BY <2>1, <2>2, <1>1, <1>4
<1>10. Reaches(k, n, m)
  BY <1>8, <1>9 DEF Reaches
<1>11. /\ Len(k.stack) \in {n, n + 1} /\ k.stack[n] = f
       /\ ~s.conflict => Len(k.stack) = n + 1 /\ k.stack[n + 1] = child
  <2>1. CASE s.conflict
    BY <2>1, <1>2, <1>4
  <2>2. CASE ~s.conflict
    <3>1. LET r == Append(InBranch(l), child) IN
            /\ Len(r) = Len(InBranch(l)) + 1 /\ r[Len(InBranch(l)) + 1] = child
            /\ \A i \in 1 .. Len(InBranch(l)) : r[i] = InBranch(l)[i]
      BY <1>2, <1>3, AppendFacts
    <3>2. /\ Len(k.stack) = n + 1 /\ k.stack[n + 1] = child /\ k.stack[n] = f
      BY <3>1, <2>2, <1>1, <1>2, <1>4
    <3> QED BY <3>2, <2>2
  <2> QED BY <2>1, <2>2
<1>12. n \in 1 .. Len(k.stack)
  BY <1>1, <1>11
<1>13. CASE Chosen(l) \in m
  <2>1. ~s.conflict
    <3>1. PICK b : Placed(d, l, b)
      BY DEF Fine
    <3>2. Tried(d, s, l.solver, Chosen(l))
      BY <3>1, TriedBranch
    <3>3. Agrees(l.solver, m) /\ m \in Models(d)
      BY PromiseAgrees DEF TotalModels
    <3> QED BY <3>2, <3>3, <1>13 DEF Tried, Agrees
  <2>2. \A j \in 1 .. (n + 1) - 1 : j = n \/ j \in 1 .. n - 1
    BY <1>1
  <2>3. Reaches(k, n + 1, m)
    BY <2>2, <1>9, <1>10, <1>13 DEF Reaches
  <2>4. Wide(child) /\ n + 1 \in 1 .. n + 1
    BY <1>1, <1>3 DEF Wide
  <2> QED BY <2>1, <2>3, <2>4, <1>11 DEF Share, Promises
<1>14. CASE Chosen(l) \notin m
  <2>1. Tail(f.branches) = <<-Chosen(l)>> /\ -Chosen(l) \in m
    BY <1>5, <1>6, <1>14
  <2>2. Pending(f) = {-Chosen(l)}
    BY <2>1, <1>7, ShortSequences
  <2>3. \E x \in Pending(f) : x \in m
    BY <2>1, <2>2
  <2> QED BY <2>3, <1>10, <1>11, <1>12 DEF Share, Promises
<1> QED BY <1>13, <1>14

(* Undo gives up nothing, unless a model was found. *)
LEMMA LeftShare ==
  ASSUME NEW d \in Databases, NEW opt, NEW l, Fine(d, l), l.stack # <<>>, Last(l.stack).stage = "undo",
         NEW s, s = Backtrack(d, l.solver, 1), NEW k, k = Left(d, opt, l, s),
         NEW m, Promises(l, Len(l.stack), m)
  PROVE  Share(k, m) \/ k.sat
<1>1. LeftMade(d, opt, l, k)
  <2>1. PICK b : Placed(d, l, b)
    BY DEF Fine
  <2>2. s \in GoodStates(d) /\ Backtrack(d, s, Last(l.stack).failed) \in GoodStates(d)
    BY <2>1, UndoMakes DEF Undoing
  <2> QED BY <2>2, LeftType
<1>2. k.sat = l.sat
  BY DEF Left
<1>3. \E x \in ToSet(Tail(Last(l.stack).branches)) : x \in m
  <2>1. Last(l.stack) = l.stack[Len(l.stack)]
    BY FineFacts
  <2>2. ~Wide(Last(l.stack)) /\ Pending(Last(l.stack)) = ToSet(Tail(Last(l.stack).branches))
    BY DEF Wide, Pending
  <2> QED BY <2>1, <2>2 DEF Promises
<1>4. CASE Leaves(opt, l)
  <2>1. Tail(Last(l.stack).branches) # <<>>
    BY <1>3, ShortSequences
  <2> QED BY <2>1, <1>2, <1>4 DEF Leaves, Stopped
<1>5. CASE ~Leaves(opt, l)
  <2>1. k.stack = Append(Front(l.stack), Onward(l))
    BY <1>5 DEF Left
  <2>2. /\ Onward(l) \in FineFrame /\ Pending(Onward(l)) = ToSet(Tail(Last(l.stack).branches))
        /\ \A i \in 1 .. Len(l.stack) - 1 : k.current[i] = l.current[i]
    BY <1>1, <1>5 DEF LeftMade, Pending
  <2> QED BY <2>1, <2>2, <1>3, PromiseGoesOn
<1> QED BY <1>4, <1>5

(* A solution is lost to a worker only when a group stops at the cap or parts. *)
Yields(opt, l) ==
  Last(l.stack).stage = "enter" /\ ~Stopped(opt, l) /\ Capped(l) /\ ~KeepsAtCap(Last(l.stack))

Divides(d, opt, l) ==
  LET look == Looked(d, opt, l.solver, Len(l.current)) IN
    /\ Last(l.stack).stage = "look" /\ look.outcome = "open" /\ ~Solved(look)
    /\ Last(l.stack).group # 1

Passed(d, opt, l) == Yields(opt, l) \/ Divides(d, opt, l)

(* The same of any step. *)
LEMMA ShareAfter ==
  ASSUME NEW d \in Databases, NEW opt, NEW l, Fine(d, l), NEW k, k = After(d, opt, l),
         NEW m \in TotalModels(d), Share(l, m)
  PROVE  \/ Share(k, m)
         \/ k.sat
         \/ l.stack # <<>> /\ Promises(l, Len(l.stack), m) /\ Passed(d, opt, l)
<1>1. CASE l.stack = <<>>
  BY <1>1 DEF After
<1>2. CASE l.stack # <<>>
  <2>1. Share(k, m) \/ Promises(l, Len(l.stack), m)
    BY <1>2, AfterGoes, ShareAbove
  <2>2. Last(l.stack).stage \in {"enter", "look", "branch", "undo"}
    BY <1>2, FineFacts, FrameFacts
  <2>3. ASSUME Promises(l, Len(l.stack), m), Last(l.stack).stage = "enter"
        PROVE  Share(k, m) \/ k.sat \/ Passed(d, opt, l)
    BY <1>2, <2>3, EnteredShare DEF After, Passed, Yields
  <2>4. ASSUME Promises(l, Len(l.stack), m), Last(l.stack).stage = "look"
        PROVE  Share(k, m) \/ k.sat \/ Passed(d, opt, l)
    BY <1>2, <2>4, LookedAtShare DEF After, Passed, Divides
  <2>5. ASSUME Promises(l, Len(l.stack), m), Last(l.stack).stage = "branch" PROVE Share(k, m)
    BY <1>2, <2>5, BranchedShare DEF After
  <2>6. ASSUME Promises(l, Len(l.stack), m), Last(l.stack).stage = "undo" PROVE Share(k, m) \/ k.sat
    BY <1>2, <2>6, LeftShare DEF After
  <2> QED BY <1>2, <2>1, <2>2, <2>3, <2>4, <2>5, <2>6
<1> QED BY <1>1, <1>2

(* A model that was found is not forgotten. *)
LEMMA SatStays ==
  ASSUME NEW d, NEW opt, NEW l, l.sat PROVE After(d, opt, l).sat
BY DEF After, Entered, LookedAt, Closed, Forced, Split, Branched, Left


-----------------------------------------------------------------------------
(***************************************************************************)
(* A group is complete: a worker that is in a group of g, at a call that   *)
(* has not been divided, has a companion for every number below g.         *)
(***************************************************************************)
Calling(l) == l.stack # <<>> /\ Last(l.stack).stage # "undo"

(* A call that returns leaves one that is in a branch. *)
LEMMA FrontInBranch ==
  ASSUME NEW d \in Databases, NEW l, Fine(d, l), l.stack # <<>>, NEW k, k.stack = Front(l.stack)
  PROVE  ~Calling(k)
<1>1. SUFFICES ASSUME k.stack # <<>> PROVE Last(k.stack).stage = "undo"
  BY DEF Calling
<1>2. /\ l.stack \in Seq(FineFrame) /\ Path(l)
      /\ k.stack \in Seq(FineFrame) /\ Len(k.stack) = Len(l.stack) - 1 /\ Len(l.stack) \in Nat
      /\ \A i \in 1 .. Len(l.stack) - 1 : k.stack[i] = l.stack[i]
  BY FineFacts, LocalFacts, FrontFacts
<1>3. Last(k.stack) = k.stack[Len(k.stack)] /\ Len(k.stack) \in Nat \ {0}
  BY <1>1, <1>2, FrontFacts
<1>4. Len(k.stack) \in 1 .. Len(l.stack) - 1
  <2> PICK x, y : x = Len(k.stack) /\ y = Len(l.stack)
    OBVIOUS
  <2>1. x \in Nat \ {0} /\ x = y - 1
    BY <1>2, <1>3
  <2>2. \A z \in Nat \ {0} : z \in 1 .. z
    OBVIOUS
  <2>3. x \in 1 .. x
    BY <2>1, <2>2
  <2> QED BY <2>1, <2>3
<1> QED BY <1>2, <1>3, <1>4 DEF Path

(* The last call after one that goes on. *)
LEMMA ReplacedLast ==
  ASSUME NEW d \in Databases, NEW l, Fine(d, l), l.stack # <<>>, NEW f \in FineFrame,
         NEW k, k.stack = Append(Front(l.stack), f)
  PROVE  k.stack # <<>> /\ Last(k.stack) = f
<1>1. l.stack \in Seq(FineFrame)
  BY FineFacts, LocalFacts
<1> QED BY <1>1, ReplaceLast

(* A call that goes on keeps its number and group. *)
LEMMA WideGoesOn ==
  ASSUME NEW d \in Databases, NEW opt, NEW l, Fine(d, l), l.stack # <<>>, Wide(Last(l.stack)),
         NEW k, k = After(d, opt, l), Calling(k)
  PROVE  /\ Last(k.stack).stage \in {"look", "branch"}
         /\ Last(k.stack).id = Last(l.stack).id /\ Last(k.stack).group = Last(l.stack).group
<1> PICK e \in FineFrame : e = Last(l.stack)
  BY FineFacts
<1>1. k.stack # Front(l.stack)
  BY FrontInBranch
<1>2. CASE e.stage = "enter"
  <2> DEFINE f == [e EXCEPT !.stage = "look"]
  <2>1. k = Entered(opt, l)
    BY <1>2 DEF After
  <2>2. k.stack = Append(Front(l.stack), f)
    BY <2>1, <1>1 DEF Entered
  <2>3. f \in FineFrame /\ f.stage = "look" /\ f.id = e.id /\ f.group = e.group
    BY FrameStages
  <2> HIDE DEF f
  <2> QED BY <2>2, <2>3, ReplacedLast
<1>3. CASE e.stage = "look"
  <2> PICK look : look = Looked(d, opt, l.solver, Len(l.current))
    OBVIOUS
  <2>1. k = LookedAt(d, opt, l, look)
    BY <1>3 DEF After
  <2>2. /\ look.outcome \in {"open", "refuted", "forced"}
        /\ look.outcome = "open" /\ look.best.var # 0 => look.best.var \in Vars
    BY LookFacts
  <2>3. ~(look.outcome = "refuted" \/ Solved(look))
    BY <2>1, <1>1 DEF LookedAt, Closed
  <2>4. CASE look.outcome = "forced"
    <3> DEFINE f == [e EXCEPT !.failed = @ + 1]
    <3>1. k.stack = Append(Front(l.stack), f)
      BY <2>1, <2>3, <2>4 DEF LookedAt, Forced
    <3>2. f \in FineFrame /\ f.stage = "look" /\ f.id = e.id /\ f.group = e.group
      BY <1>3, FrameStages
    <3> HIDE DEF f
    <3> QED BY <3>1, <3>2, ReplacedLast
  <2>5. CASE look.outcome = "open"
    <3> DEFINE f == [e EXCEPT !.stage = "branch", !.branches = Branches(e, look.best)]
    <3>1. k.stack = Append(Front(l.stack), f)
      BY <2>1, <2>3, <2>5 DEF LookedAt, Split
    <3>2. f \in FineFrame /\ f.stage = "branch" /\ f.id = e.id /\ f.group = e.group
      <4>1. look.best.var \in Vars
        BY <2>2, <2>3, <2>5 DEF Solved
      <4>2. \A best : best.var \in Vars =>
              LET g == [e EXCEPT !.stage = "branch", !.branches = Branches(e, best)] IN
                g \in FineFrame /\ g.stage = "branch" /\ g.id = e.id /\ g.group = e.group
        BY BranchesMake, ZenonT(40)
      <4> QED BY <4>1, <4>2
    <3> HIDE DEF f
    <3> QED BY <3>1, <3>2, ReplacedLast
  <2> QED BY <2>2, <2>3, <2>4, <2>5
<1> QED BY <1>2, <1>3 DEF Wide

(* A call in a group comes from one in a group. *)
LEMMA BranchGoesOn ==
  ASSUME NEW d \in Databases, NEW opt, NEW l, Fine(d, l), l.stack # <<>>, Last(l.stack).stage = "branch",
         NEW k, k = After(d, opt, l), Calling(k), Last(k.stack).group # 1
  PROVE  Last(l.stack).group # 1 /\ Renumbered(Last(l.stack), Last(k.stack))
<1> PICK e \in FineFrame : e = Last(l.stack)
  BY FineFacts
<1> DEFINE f == [e EXCEPT !.stage = "undo"]
           child == Child(f)
<1>1. /\ InBranch(l) \in Seq(FineFrame) /\ InBranch(l)[Len(l.stack)] = f /\ Last(InBranch(l)) = f
      /\ f \in FineFrame /\ f.stage = "undo" /\ f.id = e.id /\ f.group = e.group
  BY InBranchFacts
<1>2. child \in FineFrame /\ (f.group = 1 => child.group = 1) /\ (f.group # 1 => Renumbered(f, child))
  BY <1>1, ChildType, SideNumbers
<1> HIDE DEF f
<1> PICK s : s = AssumeAndPropagate(d, l.solver, Chosen(l))
  OBVIOUS
<1>3. k = Branched(l, s)
  BY DEF After
<1>4. ~s.conflict
  BY <1>1, <1>3 DEF Branched, Calling
<1>5. k.stack = Append(InBranch(l), child)
  BY <1>1, <1>3, <1>4 DEF Branched
<1> HIDE DEF child
<1>6. Last(k.stack) = child
  BY <1>1, <1>2, <1>5, AppendFacts
<1>7. Renumbered(f, child) /\ f.group # 1
  BY <1>2, <1>6
<1> QED BY <1>1, <1>6, <1>7 DEF Renumbered, OnLeft

(* Only a single worker goes on after a branch. *)
LEMMA UndoGoesOn ==
  ASSUME NEW d \in Databases, NEW opt, NEW l, Fine(d, l), l.stack # <<>>, Last(l.stack).stage = "undo",
         NEW k, k = After(d, opt, l), Calling(k)
  PROVE  Last(k.stack).group = 1
<1> PICK s : s = Backtrack(d, l.solver, 1)
  OBVIOUS
<1>1. k = Left(d, opt, l, s)
  BY DEF After
<1>2. LeftMade(d, opt, l, k)
  <2>1. PICK b : Placed(d, l, b)
    BY DEF Fine
  <2>2. s \in GoodStates(d) /\ Backtrack(d, s, Last(l.stack).failed) \in GoodStates(d)
    BY <2>1, UndoMakes DEF Undoing
  <2> QED BY <2>2, <1>1, LeftType
<1>3. k.stack # Front(l.stack)
  BY FrontInBranch
<1>4. ~Leaves(opt, l) /\ k.stack = Append(Front(l.stack), Onward(l))
  BY <1>1, <1>3 DEF Left
<1>5. Onward(l) \in FineFrame /\ Onward(l).group = Last(l.stack).group
  BY <1>2, <1>4 DEF LeftMade
<1>6. Last(k.stack) = Onward(l)
  BY <1>4, <1>5, ReplacedLast
<1>7. Last(l.stack).group = 1
  BY <1>4, ChosenFacts DEF Leaves
<1> QED BY <1>5, <1>6, <1>7

(* Of two workers that are done with each other none is in a group. *)
LEMMA FinishedNot ==
  ASSUME NEW d \in Databases, NEW l, NEW k, Fine(d, k), Finished(l, k), Calling(k)
  PROVE  Last(k.stack).group = 1
<1>1. SUFFICES ASSUME Last(k.stack).group # 1 PROVE FALSE
  OBVIOUS
<1>2. /\ Last(k.stack) \in FineFrame /\ Last(k.stack) = k.stack[Len(k.stack)]
      /\ Len(k.stack) \in 1 .. Len(k.stack)
  BY FineFacts DEF Calling
<1>3. Parting(Last(k.stack)) /\ Pending(Last(k.stack)) \subseteq {}
  BY <1>2 DEF Finished, Bound
<1>4. Last(k.stack).stage = "branch"
  BY <1>3 DEF Parting, Calling
<1> QED BY <1>1, <1>2, <1>3, <1>4, GroupFacts


(* The numbers of a group that share the last call: all, or those of its side
   once the call has divided them. *)
Shares(f, j) == j \in Nat /\ j < f.group /\ (f.stage = "branch" => (j < f.group \div 2 <=> OnLeft(f)))

Mates(l, k) == l = k \/ InStep(l, k)

(* r: where each of the n workers is. *)
Accompanied(r, n) ==
  \A w \in 1 .. n :
    Calling(r[w]) /\ Last(r[w].stack).group # 1 =>
      \A j \in Nat : Shares(Last(r[w].stack), j) =>
        \E v \in 1 .. n : Mates(r[v], r[w]) /\ Last(r[v].stack).id = j

(* Mates stay together, unless they are on different sides of their group. *)
LEMMA InStepAfter ==
  ASSUME NEW d \in Databases, NEW opt, NEW l, Fine(d, l), NEW k, Fine(d, k), InStep(l, k),
         NEW x, x = After(d, opt, l), NEW y, y = After(d, opt, k)
  PROVE  InStep(x, y) \/ Finished(x, y) \/ (OtherSides(x, y) /\ Last(l.stack).stage = "look")
<1>1. /\ l.stack # <<>> /\ k.stack # <<>> /\ Last(l.stack).stage \in {"enter", "look", "branch"}
      /\ Last(k.stack).stage = Last(l.stack).stage
      /\ l.solver = k.solver /\ l.current = k.current /\ Last(l.stack).branches = Last(k.stack).branches
  BY InStepFacts DEF Alike
<1>2. CASE Last(l.stack).stage = "enter"
  BY <1>1, <1>2, InStepEntered DEF After
<1>3. CASE Last(l.stack).stage = "look"
  <2> PICK look : look = Looked(d, opt, l.solver, Len(l.current))
    OBVIOUS
  <2>1. x = LookedAt(d, opt, l, look) /\ y = LookedAt(d, opt, k, look)
    BY <1>1, <1>3 DEF After
  <2> QED BY <2>1, <1>3, InStepLookedAt
<1>4. CASE Last(l.stack).stage = "branch"
  <2> PICK s : s = AssumeAndPropagate(d, l.solver, Chosen(l))
    OBVIOUS
  <2>1. x = Branched(l, s) /\ y = Branched(k, s)
    BY <1>1, <1>4 DEF After, Chosen
  <2> QED BY <2>1, <1>4, InStepBranched
<1> QED BY <1>1, <1>2, <1>3, <1>4

(* Mates that look go on as mates. *)
LEMMA WideMates ==
  ASSUME NEW d \in Databases, NEW opt, NEW l, Fine(d, l), NEW k, Fine(d, k), Mates(l, k),
         k.stack # <<>>, Wide(Last(k.stack)),
         NEW x, x = After(d, opt, l), NEW y, y = After(d, opt, k),
         Calling(y), Last(y.stack).group # 1, Shares(Last(y.stack), Last(l.stack).id)
  PROVE  Mates(x, y) /\ Last(x.stack).id = Last(l.stack).id
<1>1. /\ Last(y.stack).id = Last(k.stack).id /\ Last(y.stack).group = Last(k.stack).group
      /\ Last(y.stack).stage \in {"look", "branch"}
  BY WideGoesOn
<1>2. CASE l = k
  BY <1>1, <1>2 DEF Mates
<1>3. CASE InStep(l, k)
  <2>1. /\ l.stack # <<>> /\ Wide(Last(l.stack)) /\ Last(l.stack).group = Last(k.stack).group
    BY <1>3, InStepFacts DEF Alike, Wide
  <2>2. Fine(d, x) /\ Fine(d, y)
    BY AfterFine
  <2>3. ~Finished(x, y)
    BY <2>2, FinishedNot
  <2>4. CASE InStep(x, y)
    <3>1. Calling(x)
      BY <2>2, <2>4, InStepFacts DEF Calling
    <3>2. Last(x.stack).id = Last(l.stack).id
      BY <2>1, <3>1, WideGoesOn
    <3> QED BY <2>4, <3>2 DEF Mates
  <2>5. CASE OtherSides(x, y)
    <3>1. Calling(x) /\ Last(y.stack).stage = "branch"
      BY <2>5 DEF OtherSides, Calling
    <3>2. Last(x.stack).id = Last(l.stack).id /\ Last(x.stack).group = Last(y.stack).group
      BY <1>1, <2>1, <3>1, WideGoesOn
    <3>3. Last(l.stack).id < Last(y.stack).group \div 2 <=> OnLeft(Last(y.stack))
      BY <3>1 DEF Shares
    <3>4. OnLeft(Last(x.stack)) <=> Last(l.stack).id < Last(y.stack).group \div 2
      BY <3>2 DEF OnLeft
    <3> QED BY <2>5, <3>3, <3>4 DEF OtherSides
  <2> QED BY <1>3, <2>3, <2>4, <2>5, InStepAfter
<1> QED BY <1>2, <1>3 DEF Mates

(* Mates that branch to the same side go on as mates. *)
LEMMA BranchMates ==
  ASSUME NEW d \in Databases, NEW opt, NEW l, Fine(d, l), NEW k, Fine(d, k), Mates(l, k),
         k.stack # <<>>, Last(k.stack).stage = "branch",
         NEW x, x = After(d, opt, l), NEW y, y = After(d, opt, k),
         Calling(y), Last(y.stack).group # 1,
         NEW j \in Nat, NEW h, h = Last(k.stack).group \div 2,
         Last(l.stack).id = IF OnLeft(Last(k.stack)) THEN j ELSE j + h
  PROVE  Mates(x, y) /\ Last(x.stack).id = j
<1>1. h \in Nat
  <2>1. Last(k.stack) \in FineFrame
    BY FineFacts
  <2> QED BY <2>1, FrameFacts, Halves
<1>2. (j + h) - h = j
  BY <1>1
<1>3. ASSUME NEW e, NEW g, Renumbered(e, g), e.group \div 2 = h, e.id = Last(l.stack).id,
             OnLeft(e) <=> OnLeft(Last(k.stack))
      PROVE  g.id = j
  <2>1. CASE OnLeft(e)
    BY <2>1, <1>3 DEF Renumbered
  <2>2. CASE ~OnLeft(e)
    BY <2>2, <1>2, <1>3 DEF Renumbered
  <2> QED BY <2>1, <2>2
<1>4. CASE l = k
  <2>1. Renumbered(Last(l.stack), Last(x.stack)) /\ x = y
    BY <1>4, BranchGoesOn
  <2>2. Last(x.stack).id = j
    BY <2>1, <1>3, <1>4
  <2> QED BY <2>1, <2>2 DEF Mates
<1>5. CASE InStep(l, k)
  <2>1. /\ l.stack # <<>> /\ Last(l.stack).stage = "branch" /\ Last(l.stack).group = Last(k.stack).group
        /\ OnLeft(Last(l.stack)) <=> OnLeft(Last(k.stack))
    BY <1>5, InStepFacts DEF Alike, InStep
  <2>2. Fine(d, x) /\ Fine(d, y)
    BY AfterFine
  <2>3. ~Finished(x, y)
    BY <2>2, FinishedNot
  <2>4. InStep(x, y)
    BY <1>5, <2>1, <2>3, InStepAfter
  <2>5. Calling(x) /\ Last(x.stack).group # 1
    BY <2>2, <2>4, InStepFacts DEF Calling
  <2>6. Renumbered(Last(l.stack), Last(x.stack))
    BY <2>1, <2>5, BranchGoesOn
  <2>7. Last(x.stack).id = j
    BY <2>1, <2>6, <1>3
  <2> QED BY <2>4, <2>7 DEF Mates
<1> QED BY <1>4, <1>5 DEF Mates

(* A number of the side is one of the numbers of its group. *)
LEMMA SideShares ==
  ASSUME NEW f \in FineFrame, f.group # 1, f.stage = "branch", NEW g, Renumbered(f, g),
         NEW j \in Nat, j < g.group, NEW h, h = f.group \div 2
  PROVE  Shares(f, IF OnLeft(f) THEN j ELSE j + h)
<1>1. f.group \in Nat /\ h \in Nat /\ h < f.group
  BY FrameFacts, Halves
<1>2. CASE OnLeft(f)
  <2>1. g.group = h
    BY <1>2 DEF Renumbered
  <2>2. j < f.group /\ j < h
    BY <1>1, <2>1
  <2> QED BY <2>2, <1>2 DEF Shares
<1>3. CASE ~OnLeft(f)
  <2>1. g.group = f.group - h
    BY <1>3 DEF Renumbered
  <2> PICK p : p = f.group
    OBVIOUS
  <2>2. j + h \in Nat /\ j + h < p /\ ~(j + h < h)
    BY <1>1, <2>1
  <2> QED BY <2>2, <1>3 DEF Shares
<1> QED BY <1>2, <1>3

(* q: where the workers of r are after one step of each. *)
NextRow(d, opt, n, r, q) == \A w \in 1 .. n : Fine(d, r[w]) /\ q[w] = After(d, opt, r[w])

(* The groups of a row are complete in the next. *)
LEMMA GroupsComplete ==
  ASSUME NEW d \in Databases, NEW opt, NEW n \in Nat, NEW r, NEW q, Accompanied(r, n),
         NextRow(d, opt, n, r, q)
  PROVE  Accompanied(q, n)
<1> USE DEF NextRow
<1> SUFFICES ASSUME NEW w \in 1 .. n, Calling(q[w]), Last(q[w].stack).group # 1,
                    NEW j \in Nat, Shares(Last(q[w].stack), j)
             PROVE  \E v \in 1 .. n : Mates(q[v], q[w]) /\ Last(q[v].stack).id = j
  BY DEF Accompanied
<1> PICK k, y : k = r[w] /\ y = q[w]
  OBVIOUS
<1>1. Fine(d, k) /\ y = After(d, opt, k) /\ Calling(y) /\ Last(y.stack).group # 1
      /\ Shares(Last(y.stack), j) /\ Fine(d, y)
  BY AfterFine
<1>2. k.stack # <<>>
  BY <1>1 DEF After, Calling
<1>3. Last(k.stack) \in FineFrame /\ Last(y.stack) \in FineFrame
  BY <1>1, <1>2, FineFacts DEF Calling
<1>4. CASE Wide(Last(k.stack))
  <2>1. Last(y.stack).group = Last(k.stack).group
    BY <1>1, <1>2, <1>4, WideGoesOn
  <2>2. Calling(k) /\ Last(k.stack).group # 1 /\ Shares(Last(k.stack), j)
    BY <1>1, <1>2, <1>4, <2>1 DEF Calling, Wide, Shares
  <2>3. PICK v \in 1 .. n : Mates(r[v], k) /\ Last(r[v].stack).id = j
    BY <2>2 DEF Accompanied
  <2> PICK l, x : l = r[v] /\ x = q[v]
    OBVIOUS
  <2>4. Fine(d, l) /\ x = After(d, opt, l) /\ Mates(l, k) /\ Last(l.stack).id = j
    BY <2>3
  <2>5. Mates(x, y) /\ Last(x.stack).id = j
    BY <1>1, <1>2, <1>4, <2>4, WideMates
  <2> QED BY <2>5
<1>5. CASE Last(k.stack).stage = "branch"
  <2> PICK h : h = Last(k.stack).group \div 2
    OBVIOUS
  <2> PICK i : i = IF OnLeft(Last(k.stack)) THEN j ELSE j + h
    OBVIOUS
  <2>1. Last(k.stack).group # 1 /\ Renumbered(Last(k.stack), Last(y.stack))
    BY <1>1, <1>2, <1>5, BranchGoesOn
  <2>2. Shares(Last(k.stack), i)
    <3>1. j < Last(y.stack).group
      BY <1>1 DEF Shares
    <3> QED BY <1>3, <1>5, <2>1, <3>1, SideShares
  <2>3. Calling(k) /\ i \in Nat
    BY <1>2, <1>5, <2>2 DEF Calling, Shares
  <2>4. PICK v \in 1 .. n : Mates(r[v], k) /\ Last(r[v].stack).id = i
    BY <2>1, <2>2, <2>3 DEF Accompanied
  <2> PICK l, x : l = r[v] /\ x = q[v]
    OBVIOUS
  <2>5. Fine(d, l) /\ x = After(d, opt, l) /\ Mates(l, k)
        /\ Last(l.stack).id = IF OnLeft(Last(k.stack)) THEN j ELSE j + h
    BY <2>4
  <2>6. Mates(x, y) /\ Last(x.stack).id = j
    BY <1>1, <1>2, <1>5, <2>5, BranchMates
  <2> QED BY <2>6
<1>6. CASE Last(k.stack).stage = "undo"
  BY <1>1, <1>2, <1>6, UndoGoesOn
<1>7. Last(k.stack).stage \in {"enter", "look", "branch", "undo"}
  BY <1>3, FrameFacts
<1> QED BY <1>4, <1>5, <1>6, <1>7 DEF Wide


(* What one worker of a group passes over, another takes. *)
LEMMA CapTaken ==
  ASSUME NEW d \in Databases, NEW opt, NEW n \in Nat, NEW r, NEW q, Accompanied(r, n),
         NextRow(d, opt, n, r, q),
         NEW m, NEW w \in 1 .. n, r[w].stack # <<>>, Promises(r[w], Len(r[w].stack), m),
         Yields(opt, r[w])
  PROVE  \E v \in 1 .. n : Share(q[v], m)
<1> USE DEF NextRow
<1> PICK k : k = r[w]
  OBVIOUS
<1>1. Fine(d, k) /\ Last(k.stack) \in FineFrame /\ Len(k.stack) \in Nat
      /\ Last(k.stack) = k.stack[Len(k.stack)]
  BY FineFacts
<1>2. Last(k.stack).id # 0 /\ Last(k.stack).id \in Nat /\ Last(k.stack).id < Last(k.stack).group
      /\ Last(k.stack).group \in Nat
  BY <1>1, FrameFacts DEF KeepsAtCap, Yields
<1>3. Last(k.stack).group # 1 /\ 0 < Last(k.stack).group
  BY <1>2
<1>4. Calling(k) /\ Shares(Last(k.stack), 0)
  BY <1>3 DEF Calling, Shares, Yields
<1>5. PICK v \in 1 .. n : Mates(r[v], k) /\ Last(r[v].stack).id = 0
  BY <1>3, <1>4 DEF Accompanied
<1> PICK l, x : l = r[v] /\ x = q[v]
  OBVIOUS
<1>6. Fine(d, l) /\ x = After(d, opt, l) /\ InStep(l, k) /\ Last(l.stack).id = 0
  BY <1>2, <1>5 DEF Mates
<1>7. /\ l.stack # <<>> /\ Last(l.stack).stage = "enter" /\ l.current = k.current /\ l.sat = k.sat
      /\ Len(l.stack) = Len(k.stack)
  BY <1>1, <1>6, InStepFacts DEF Alike, Yields
<1>8. x.cubes = Append(l.cubes, l.current)
  <2>1. ~Stopped(opt, l) /\ Capped(l) /\ KeepsAtCap(Last(l.stack))
    BY <1>6, <1>7 DEF Stopped, Capped, KeepsAtCap, Yields
  <2> QED BY <2>1, <1>6, <1>7 DEF After, Entered
<1>9. Promises(l, Len(l.stack), m)
  <2>1. Last(l.stack) = l.stack[Len(l.stack)]
    BY <1>6, <1>7, FineFacts
  <2>2. Wide(l.stack[Len(l.stack)])
    BY <2>1, <1>7 DEF Wide
  <2> QED BY <2>2, <1>7 DEF Promises, Reaches
<1>10. Share(x, m)
  BY <1>6, <1>7, <1>8, <1>9, PromiseReturned
<1> QED BY <1>10

(* When a group parts, the side that a solution is on has a worker to take it. *)
LEMMA SplitTaken ==
  ASSUME NEW d \in Databases, NEW opt, NEW n \in Nat, NEW r, NEW q, Accompanied(r, n),
         NextRow(d, opt, n, r, q),
         NEW m \in TotalModels(d), NEW w \in 1 .. n, r[w].stack # <<>>,
         Promises(r[w], Len(r[w].stack), m), Divides(d, opt, r[w])
  PROVE  \E v \in 1 .. n : Share(q[v], m)
<1> USE DEF NextRow
<1> PICK k, f, look : k = r[w] /\ f = Last(k.stack) /\ look = Looked(d, opt, k.solver, Len(k.current))
  OBVIOUS
<1>0. f.stage = "look" /\ look.outcome = "open" /\ ~Solved(look) /\ f.group # 1
  BY DEF Divides
<1>1. Fine(d, k) /\ f \in FineFrame /\ f = k.stack[Len(k.stack)]
  BY FineFacts
<1> PICK h : h = f.group \div 2
  OBVIOUS
<1>2. h \in 1 .. f.group - 1 /\ f.group \in Nat /\ h \in Nat /\ 0 < h /\ h < f.group
  <2>1. f.group \in Nat \ {0} /\ f.group # 1
    BY <1>0, <1>1, FrameFacts
  <2>2. h \in 1 .. f.group - 1
    BY <2>1, Halves
  <2> QED BY <2>1, <2>2
<1>3. look.best.var \in Vars
  BY <1>0, <1>1, LookFacts DEF Solved
<1> PICK one, two : one = First(look.best) /\ two = Second(look.best)
  OBVIOUS
<1>4. one \in m \/ two \in m
  <2> PICK y \in Vars : y = look.best.var
    BY <1>3
  <2>1. one \in {y, -y} /\ two \in {y, -y} /\ one # two
    BY <1>1, BranchesMake
  <2>2. y \in m \/ -y \in m
    BY DEF TotalModels
  <2> QED BY <2>1, <2>2
<1>5. \E j \in Nat : j < f.group /\ (IF j < h THEN one \in m ELSE two \in m)
  <2>1. CASE one \in m
    <3>1. 0 \in Nat /\ 0 < f.group /\ 0 < h
      BY <1>2
    <3> QED BY <2>1, <3>1
  <2>2. CASE two \in m
    <3>1. ~(h < h)
      BY <1>2
    <3> QED BY <2>2, <3>1, <1>2
  <2> QED BY <1>4, <2>1, <2>2
<1>6. PICK j \in Nat : j < f.group /\ (IF j < h THEN one \in m ELSE two \in m)
  BY <1>5
<1>7. Calling(k) /\ Shares(f, j)
  BY <1>0, <1>6 DEF Calling, Shares
<1>8. PICK v \in 1 .. n : Mates(r[v], k) /\ Last(r[v].stack).id = j
  BY <1>0, <1>7 DEF Accompanied
<1> PICK l, x : l = r[v] /\ x = q[v]
  OBVIOUS
<1> PICK e : e = Last(l.stack)
  OBVIOUS
<1>9. /\ Fine(d, l) /\ x = After(d, opt, l) /\ l.stack # <<>> /\ e.stage = "look" /\ e.group = f.group
      /\ e.id = j /\ l.current = k.current /\ l.solver = k.solver /\ Len(l.stack) = Len(k.stack)
  <2>1. CASE l = k
    BY <1>0, <1>8, <2>1
  <2>2. CASE InStep(l, k)
    <3>1. Fine(d, l) /\ x = After(d, opt, l)
      OBVIOUS
    <3>2. \A a, b : Fine(d, a) /\ Fine(d, b) /\ InStep(a, b) =>
            /\ a.stack # <<>> /\ Alike(Last(a.stack), Last(b.stack)) /\ a.current = b.current
            /\ a.solver = b.solver /\ Len(a.stack) = Len(b.stack)
      BY InStepFacts
    <3>3. /\ l.stack # <<>> /\ Alike(e, f) /\ l.current = k.current /\ l.solver = k.solver
          /\ Len(l.stack) = Len(k.stack)
      BY <1>1, <2>2, <3>1, <3>2
    <3> QED BY <1>0, <1>8, <3>1, <3>3 DEF Alike
  <2> QED BY <1>8, <2>1, <2>2 DEF Mates
<1>10. e \in FineFrame /\ e = l.stack[Len(l.stack)]
  BY <1>9, FineFacts
<1>11. Promises(l, Len(l.stack), m)
  <2>1. Wide(l.stack[Len(l.stack)])
    BY <1>9, <1>10 DEF Wide
  <2> QED BY <2>1, <1>9 DEF Promises, Reaches
<1> DEFINE g == [e EXCEPT !.stage = "branch", !.branches = Branches(e, look.best)]
<1>12. x.stack = Append(Front(l.stack), g) /\ x.current = l.current
  <2>1. x = LookedAt(d, opt, l, look)
    BY <1>9 DEF After
  <2> QED BY <1>0, <2>1 DEF LookedAt, Split
<1>13. /\ g \in FineFrame /\ g.stage = "branch"
       /\ \/ j < h /\ g.branches = <<one>>
          \/ ~(j < h) /\ g.branches = <<two>>
  <2>1. \A b : b.var \in Vars =>
          LET a == [e EXCEPT !.stage = "branch", !.branches = Branches(e, b)] IN
            a \in FineFrame /\ a.stage = "branch" /\ a.branches = Branches(e, b)
    BY <1>10, BranchesMake
  <2>2. \/ e.id < e.group \div 2 /\ Branches(e, look.best) = <<one>>
        \/ ~(e.id < e.group \div 2) /\ Branches(e, look.best) = <<two>>
    <3>1. \A b : b.var \in Vars /\ e.group # 1 =>
            \/ e.id < e.group \div 2 /\ Branches(e, b) = <<First(b)>>
            \/ ~(e.id < e.group \div 2) /\ Branches(e, b) = <<Second(b)>>
      BY <1>10, BranchesMake
    <3>2. e.group # 1
      BY <1>0, <1>9
    <3> QED BY <1>3, <3>1, <3>2
  <2>3. g \in FineFrame /\ g.stage = "branch" /\ g.branches = Branches(e, look.best)
    BY <2>1, <1>3
  <2> HIDE DEF g
  <2>4. e.id < e.group \div 2 <=> j < h
    BY <1>9
  <2> QED BY <2>2, <2>3, <2>4
<1> HIDE DEF g
<1>14. PICK z : g.branches = <<z>> /\ z \in m
  BY <1>6, <1>13
<1>15. Pending(g) = {z}
  <2>1. Pending(g) = ToSet(<<z>>)
    BY <1>13, <1>14 DEF Pending
  <2> QED BY <2>1, ShortSequences
<1>16. Share(x, m)
  BY <1>9, <1>11, <1>12, <1>13, <1>14, <1>15, PromiseGoesOn
<1> QED BY <1>16

(* The same of every way to pass a solution over. *)
LEMMA PassedTaken ==
  ASSUME NEW d \in Databases, NEW opt, NEW n \in Nat, NEW r, NEW q, Accompanied(r, n),
         NextRow(d, opt, n, r, q),
         NEW m \in TotalModels(d), NEW w \in 1 .. n, r[w].stack # <<>>,
         Promises(r[w], Len(r[w].stack), m), Passed(d, opt, r[w])
  PROVE  \E v \in 1 .. n : Share(q[v], m)
<1>1. CASE Yields(opt, r[w])
  BY <1>1, CapTaken
<1>2. CASE Divides(d, opt, r[w])
  BY <1>2, SplitTaken
<1> QED BY <1>1, <1>2 DEF Passed


(* The group of all workers is complete. *)
LEMMA StartedAccompanied ==
  ASSUME NEW d \in Databases, NEW n \in Nat, NEW t, NEW r, \A w \in 1 .. n : r[w] = Started(d, w - 1, n, t)
  PROVE  Accompanied(r, n)
<1> SUFFICES ASSUME NEW w \in 1 .. n, NEW j \in Nat, Shares(Last(r[w].stack), j)
             PROVE  \E v \in 1 .. n : Mates(r[v], r[w]) /\ Last(r[v].stack).id = j
  BY DEF Accompanied
<1>1. ASSUME NEW v \in 1 .. n
      PROVE  /\ Last(r[v].stack) = Frame(v - 1, n)
             /\ Last(r[v].stack).id = v - 1 /\ Last(r[v].stack).group = n
  <2>1. \A e : Last(<<e>>) = e
    BY DEF Last
  <2> PICK f : f = Frame(v - 1, n)
    OBVIOUS
  <2>2. f.id = v - 1 /\ f.group = n
    BY DEF Frame
  <2>3. r[v].stack = <<f>>
    <3>1. r[v] = Started(d, v - 1, n, t)
      OBVIOUS
    <3>2. Started(d, v - 1, n, t).stack = <<Frame(v - 1, n)>>
      BY DEF Started
    <3> QED BY <3>1, <3>2
  <2> QED BY <2>1, <2>2, <2>3
<1>2. j < n
  BY <1>1 DEF Shares
<1> PICK v : v = j + 1
  OBVIOUS
<1>3. v \in 1 .. n /\ v - 1 = j /\ w - 1 \in Nat /\ w - 1 < n
  BY <1>2
<1>4. Last(r[v].stack).id = j
  BY <1>1, <1>3
<1>5. CASE v = w
  BY <1>3, <1>4, <1>5 DEF Mates
<1>6. CASE v # w
  <2>1. j # w - 1
    BY <1>3, <1>6
  <2>2. InStep(Started(d, j, n, t), Started(d, w - 1, n, t))
    BY <2>1, <1>2, <1>3, StartedInStep
  <2> QED BY <2>2, <1>3, <1>4 DEF Mates
<1> QED BY <1>5, <1>6

(* Everything is in the share of a worker that starts. *)
LEMMA StartedShare ==
  ASSUME NEW d, NEW id, NEW n, NEW t, NEW m
  PROVE  Share(Started(d, id, n, t), m)
<1> DEFINE l == Started(d, id, n, t)
<1>1. Len(l.stack) = 1 /\ l.stack[1].stage = "enter"
  BY DEF Started, Frame
<1> HIDE DEF l
<1>2. 1 \in 1 .. Len(l.stack) /\ \A j \in 1 .. 1 - 1 : FALSE
  BY <1>1
<1>3. Promises(l, 1, m)
  BY <1>1, <1>2 DEF Promises, Reaches, Wide
<1>4. Share(l, m)
  BY <1>2, <1>3 DEF Share
<1> QED BY <1>4 DEF l

(* Groups are complete in every row. *)
LEMMA RowsAccompanied ==
  ASSUME NEW T, NEW N, NEW d \in Databases, NEW opt, NEW n \in Nat, NEW t, Lockstep(T, N, d, opt, n, t)
  PROVE  \A i \in 0 .. N : Accompanied(T[i], n)
<1> DEFINE S == {i \in 0 .. N : Accompanied(T[i], n)}
<1>1. 0 \in S
  <2>1. 0 \in 0 .. N /\ \A w \in 1 .. n : T[0][w] = Started(d, w - 1, n, t)
    BY RowFacts
  <2> QED BY <2>1, StartedAccompanied
<1>2. ASSUME NEW i \in 1 .. N, i - 1 \in S PROVE i \in S
  <2> PICK j : j = i - 1
    OBVIOUS
  <2>1. j \in 0 .. N /\ i \in 0 .. N /\ Accompanied(T[j], n)
    BY <1>2, RowFacts
  <2>2. NextRow(d, opt, n, T[j], T[i])
    BY <2>1, RowFacts DEF NextRow
  <2>3. Accompanied(T[i], n)
    BY <2>1, <2>2, GroupsComplete
  <2> QED BY <2>1, <2>3
<1> HIDE DEF S
<1>3. Inductive(N, S)
  BY <1>1, <1>2, RowFacts DEF Inductive
<1>4. 0 .. N \subseteq S
  BY <1>3, InductionUpTo
<1> QED BY <1>4 DEF S

(* A share was as large in every row before. *)
LEMMA ShareBefore ==
  ASSUME NEW T, NEW N, NEW d \in Databases, NEW opt, NEW n \in Nat, NEW t, Lockstep(T, N, d, opt, n, t),
         NEW w \in 1 .. n, NEW m, NEW i \in 0 .. N
  PROVE  Share(T[i][w], m) => \A k \in 0 .. i : Share(T[k][w], m)
<1> DEFINE S == {j \in 0 .. N : Share(T[j][w], m) => \A k \in 0 .. j : Share(T[k][w], m)}
<1>1. 0 \in S
  <2>1. 0 \in 0 .. N /\ \A k \in 0 .. 0 : k = 0
    BY RowFacts
  <2> QED BY <2>1
<1>2. ASSUME NEW j \in 1 .. N, j - 1 \in S PROVE j \in S
  <2> PICK p : p = j - 1
    OBVIOUS
  <2>1. p \in 0 .. N /\ j \in 0 .. N /\ (Share(T[p][w], m) => \A k \in 0 .. p : Share(T[k][w], m))
    BY <1>2, RowFacts
  <2>2. Fine(d, T[p][w]) /\ T[j][w] = After(d, opt, T[p][w])
    BY <2>1, RowFacts
  <2>3. Share(T[j][w], m) => Share(T[p][w], m)
    <3>1. CASE T[p][w].stack = <<>>
      BY <2>2, <3>1 DEF After
    <3>2. CASE T[p][w].stack # <<>>
      <4>1. Goes(T[p][w], T[j][w])
        BY <2>2, <3>2, AfterGoes
      <4> QED BY <2>2, <3>2, <4>1, ShareBack
    <3> QED BY <3>1, <3>2
  <2>4. \A k \in 0 .. j : k = j \/ k \in 0 .. p
    OBVIOUS
  <2> QED BY <2>1, <2>3, <2>4
<1> HIDE DEF S
<1>3. Inductive(N, S)
  BY <1>1, <1>2, RowFacts DEF Inductive
<1>4. 0 .. N \subseteq S
  BY <1>3, InductionUpTo
<1> QED BY <1>4 DEF S

(* Some worker has had the solution in its share all the time, or a model. *)
Safe(T, i, n, m) ==
  \E w \in 1 .. n : \A k \in 0 .. i : Share(T[k][w], m) \/ T[k][w].sat

(* In every row some worker has kept the solution. *)
LEMMA RowsSafe ==
  ASSUME NEW T, NEW N, NEW d \in Databases, NEW opt, NEW n \in Nat, NEW t, Lockstep(T, N, d, opt, n, t),
         n # 0, NEW m \in TotalModels(d)
  PROVE  \A i \in 0 .. N : Safe(T, i, n, m)
<1> DEFINE S == {i \in 0 .. N : Safe(T, i, n, m)}
<1>1. 0 \in S
  <2>1. 0 \in 0 .. N /\ 1 \in 1 .. n /\ \A k \in 0 .. 0 : k = 0
    BY RowFacts
  <2>2. Share(T[0][1], m)
    <3>1. T[0][1] = Started(d, 1 - 1, n, t)
      BY <2>1, RowFacts
    <3> QED BY <3>1, StartedShare
  <2> QED BY <2>1, <2>2 DEF Safe
<1>2. ASSUME NEW i \in 1 .. N, i - 1 \in S PROVE i \in S
  <2> PICK j : j = i - 1
    OBVIOUS
  <2>1. j \in 0 .. N /\ i \in 0 .. N /\ Safe(T, j, n, m) /\ j \in 0 .. j
    BY <1>2, RowFacts
  <2>2. \A w \in 1 .. n : Fine(d, T[j][w]) /\ T[i][w] = After(d, opt, T[j][w])
    BY <2>1, RowFacts
  <2>3. PICK w \in 1 .. n : \A k \in 0 .. j : Share(T[k][w], m) \/ T[k][w].sat
    BY <2>1 DEF Safe
  <2>4. \A k \in 0 .. i : k = i \/ k \in 0 .. j
    OBVIOUS
  <2>5. ASSUME Share(T[i][w], m) \/ T[i][w].sat PROVE Safe(T, i, n, m)
    BY <2>3, <2>4, <2>5 DEF Safe
  <2>6. CASE T[j][w].sat
    BY <2>2, <2>5, <2>6, SatStays
  <2>7. CASE Share(T[j][w], m)
    <3>1. \/ Share(T[i][w], m) \/ T[i][w].sat
          \/ /\ T[j][w].stack # <<>> /\ Promises(T[j][w], Len(T[j][w].stack), m)
             /\ Passed(d, opt, T[j][w])
      BY <2>2, <2>7, ShareAfter
    <3>2. CASE /\ T[j][w].stack # <<>> /\ Promises(T[j][w], Len(T[j][w].stack), m)
               /\ Passed(d, opt, T[j][w])
      <4>1. Accompanied(T[j], n)
        BY <2>1, RowsAccompanied
      <4>2. NextRow(d, opt, n, T[j], T[i])
        BY <2>2 DEF NextRow
      <4>3. PICK v \in 1 .. n : Share(T[i][v], m)
        BY <4>1, <4>2, <3>2, PassedTaken
      <4>4. \A k \in 0 .. i : Share(T[k][v], m)
        BY <2>1, <4>3, ShareBefore
      <4> QED BY <4>4, SMTT(30) DEF Safe
    <3> QED BY <3>1, <3>2, <2>5
  <2>8. Safe(T, i, n, m)
    BY <2>1, <2>3, <2>6, <2>7
  <2> QED BY <2>1, <2>8
<1> HIDE DEF S
<1>3. Inductive(N, S)
  BY <1>1, <1>2, RowFacts DEF Inductive
<1>4. 0 .. N \subseteq S
  BY <1>3, InductionUpTo
<1> QED BY <1>4 DEF S

(* That worker covers the solution now, at whichever row it is. *)
LEMMA CoveredIs ==
  ASSUME Recorded PROVE Covered
<1>1. PICK n, t, N, T, c :
        /\ n \in WorkerCounts /\ t \in Thetas
        /\ Spread(n) /\ Lockstep(T, N, db, optimizing, n, t) /\ InRow(T, N, c, n)
  BY DEF Recorded
<1>2. /\ problem \in Databases /\ db = Database(problem) /\ db \in Databases
      /\ n \in Nat /\ n # 0 /\ Gang = 1 .. n
  BY <1>1, RecordedFine, WorkersAssumption DEF Gang, Spread, IsArray
<1>3. Solutions(problem) \subseteq TotalModels(db)
  BY <1>2, SolutionsAreModels
<1>4. ASSUME NEW m \in Solutions(problem)
      PROVE  \E w \in Gang : \/ sat[w]
                             \/ \E i \in DOMAIN cubes[w] : ToSet(cubes[w][i]) \subseteq m
                             \/ Ahead(w, m)
  <2>1. N \in 0 .. N /\ N \in Nat
    BY <1>1, RowFacts
  <2>2. Safe(T, N, n, m)
    BY <1>1, <1>2, <1>3, <2>1, RowsSafe
  <2>3. PICK w \in 1 .. n : \A k \in 0 .. N : Share(T[k][w], m) \/ T[k][w].sat
    BY <2>2 DEF Safe
  <2> PICK l : l = Local(w)
    OBVIOUS
  <2>4. c[w] \in 0 .. N /\ l = T[c[w]][w]
    BY <1>1 DEF InRow
  <2>5. Share(l, m) \/ l.sat
    BY <2>3, <2>4
  <2>6. /\ l.stack = stack[w] /\ l.current = current[w] /\ l.cubes = cubes[w] /\ l.sat = sat[w]
    BY LocalIs
  <2>7. l \in Locals(db)
    BY <1>1, <2>4, RowFacts
  <2>8. DOMAIN l.cubes = 1 .. Len(l.cubes) /\ DOMAIN l.stack = 1 .. Len(l.stack)
        /\ \A i \in 1 .. Len(l.stack) : l.stack[i] \in FineFrame
    <3>1. l.cubes \in Seq(Seq(Lits)) /\ l.stack \in Seq(FineFrame)
      BY <1>2, <2>7, LocalFacts
    <3> QED BY <3>1
  <2>9. ASSUME NEW i \in 1 .. Len(l.stack), Promises(l, i, m) PROVE Ahead(w, m)
    <3> PICK f \in FineFrame : f = l.stack[i]
      BY <2>8
    <3>1. /\ \A j \in 1 .. i - 1 : current[w][j] \in m
          /\ Wide(f) \/ \E x \in Pending(f) : x \in m
      BY <2>6, <2>9 DEF Promises, Reaches
    <3>2. f.stage \in {"enter", "look", "branch", "undo"}
      BY FrameFacts
    <3>3. \/ f.stage \in {"enter", "look"}
          \/ f.stage = "branch" /\ ToSet(f.branches) \cap m # {}
          \/ f.stage = "undo" /\ ToSet(Tail(f.branches)) \cap m # {}
      BY <3>1, <3>2 DEF Wide, Pending
    <3>4. i \in DOMAIN stack[w] /\ f = stack[w][i]
      BY <2>6, <2>8
    <3> QED BY <3>1, <3>3, <3>4 DEF Ahead
  <2>10. CASE Share(l, m)
    <3>1. CASE \E i \in 1 .. Len(l.cubes) : ToSet(l.cubes[i]) \subseteq m
      BY <1>2, <2>6, <2>8, <3>1
    <3>2. CASE \E i \in 1 .. Len(l.stack) : Promises(l, i, m)
      BY <1>2, <2>9, <3>2
    <3> QED BY <2>10, <3>1, <3>2 DEF Share
  <2>11. CASE l.sat
    BY <1>2, <2>6, <2>11
  <2> QED BY <2>5, <2>10, <2>11
<1> QED BY <1>4 DEF Covered

(* Whatever the workers have decided, every solution is in a cube that one of
   them returned or below a branch that one of them will take, although no
   worker knows what the others do: nothing falls between the shares. *)
THEOREM NothingLost == Spec => []Covered
<1> QED BY AlwaysRecorded, CoveredIs, PTL

-----------------------------------------------------------------------------
(***************************************************************************)
(* A worker that finds the problem satisfiable.                            *)
(***************************************************************************)
(* A solver that no conflict took by surprise. *)
Solid(d, s) == Good(d, s) /\ Cursor(d, s) /\ Begun(d, s) /\ Slacks(d, s)

(* Everything is propagated. *)
Ready(s) == ~s.conflict /\ s.next = Len(s.trail)

(* A trial and its undoing leave it so. *)
LEMMA TrySolid ==
  ASSUME NEW d \in Databases, NEW s, Solid(d, s), NEW lit \in Lits, IsUndefLit(s, lit)
  PROVE  /\ Solid(d, AssumeAndPropagate(d, s, lit)) /\ Tried(d, AssumeAndPropagate(d, s, lit), s, lit)
         /\ TriedOut(d, AssumeAndPropagate(d, s, lit), s)
         /\ ~AssumeAndPropagate(d, s, lit).conflict => Ready(AssumeAndPropagate(d, s, lit))
<1>1. Tried(d, AssumeAndPropagate(d, s, lit), s, lit) /\ TriedOut(d, AssumeAndPropagate(d, s, lit), s)
  BY TryMakes, TryKeeps DEF Solid
<1> QED BY <1>1 DEF Solid, Tried, TriedOut, Ready

(* Undoing levels leaves it so. *)
LEMMA UndoSolid ==
  ASSUME NEW d \in Databases, NEW s, Solid(d, s), NEW levels \in Nat, levels <= Level(s)
  PROVE  Solid(d, Backtrack(d, s, levels))
<1>1. /\ Cursor(d, Backtrack(d, s, levels)) /\ Begun(d, Backtrack(d, s, levels))
      /\ Slacks(d, Backtrack(d, s, levels))
  BY BacktrackKeeps DEF Solid
<1>2. Good(d, Backtrack(d, s, levels))
  <2>1. Good(d, s)
    BY DEF Solid
  <2> QED BY <2>1, BacktrackMakes DEF Retracted
<1> QED BY <1>1, <1>2 DEF Solid

(* u is s again, after a trial. *)
Restored(d, u, s) ==
  Solid(d, u) /\ u.trail = s.trail /\ ~u.conflict

(* Undoing a trial: what was propagated before the trial still is. *)
LEMMA TryUndone ==
  ASSUME NEW d \in Databases, NEW s, Solid(d, s), NEW lit \in Lits, IsUndefLit(s, lit),
         NEW r, r = AssumeAndPropagate(d, s, lit), NEW u, u = Undone(d, r)
  PROVE  /\ Restored(d, u, s)
         /\ ~r.conflict \/ s.next = Len(s.trail) => u.next = Len(u.trail)
<1>1. Solid(d, r) /\ Tried(d, r, s, lit) /\ TriedOut(d, r, s) /\ (~r.conflict => Ready(r))
  BY TrySolid
<1>2. /\ s \in State /\ Level(s) \in Nat /\ Len(s.trail) \in Nat /\ s.next \in Nat
      /\ r \in State /\ r.next \in Nat /\ Len(r.trail) \in Nat /\ Good(d, s) /\ Good(d, r)
  BY <1>1, StateFacts DEF Solid, Good, States
<1>3. 1 \in Nat /\ 1 <= Level(r) /\ 1 # 0
  BY <1>1, <1>2 DEF Tried
<1>4. u = Backtrack(d, r, 1)
  BY DEF Undone
<1>5. u.trail = s.trail /\ ~u.conflict /\ (r.next = Len(r.trail) => u.next = Len(u.trail))
  BY <1>1, <1>2, <1>4, UndoTry
<1>6. Solid(d, u)
  BY <1>1, <1>3, <1>4, UndoSolid
<1>7. ASSUME s.next = Len(s.trail) PROVE u.next = Len(u.trail)
  <2>1. Retracted(d, u, r, Level(r) - 1)
    BY <1>2, <1>3, <1>4, BacktrackMakes
  <2>2. u.next = IF r.next > Len(u.trail) THEN Len(u.trail) ELSE r.next
    BY <2>1 DEF Retracted, Cut
  <2>3. s.next <= r.next
    BY <1>1 DEF TriedOut
  <2> QED BY <2>2, <2>3, <1>2, <1>5, <1>7
<1> QED BY <1>1, <1>5, <1>6, <1>7 DEF Restored, Ready

(* If one value fails, the other is assumed without a conflict, as it was tried. *)
LEMMA SurvivorHolds ==
  ASSUME NEW d \in Databases, NEW s, Solid(d, s), NEW v \in Vars, IsUndefLit(s, v),
         NEW yes, yes = AssumeAndPropagate(d, s, v), NEW u1, u1 = Undone(d, yes),
         NEW no, no = AssumeAndPropagate(d, u1, -v), NEW u2, u2 = Undone(d, no)
  PROVE  /\ Restored(d, u1, s) /\ Restored(d, u2, s)
         /\ Solid(d, AssumeAndPropagate(d, u2, Surviving(v, no)))
         /\ ~(yes.conflict /\ no.conflict) /\ (yes.conflict \/ no.conflict) =>
              Ready(AssumeAndPropagate(d, u2, Surviving(v, no)))
<1>1. v \in Lits /\ -v \in Lits
  BY LitFacts DEF Lits
<1>2. Restored(d, u1, s) /\ (~yes.conflict => u1.next = Len(u1.trail))
  BY <1>1, TryUndone
<1>3. Solid(d, u1) /\ IsUndefLit(u1, v) /\ IsUndefLit(u1, -v)
  BY <1>1, <1>2, SameTrail, UndefNegated DEF Restored
<1>4. /\ Restored(d, u2, u1)
      /\ ~no.conflict \/ u1.next = Len(u1.trail) => u2.next = Len(u2.trail)
  BY <1>1, <1>3, TryUndone
<1>5. Restored(d, u2, s)
  BY <1>2, <1>4 DEF Restored
<1> PICK lit : lit = Surviving(v, no)
  OBVIOUS
<1>6. lit \in Lits /\ IsUndefLit(u2, lit)
  <2>1. lit \in {v, -v}
    BY DEF Surviving
  <2>2. IsUndefLit(u2, v) /\ IsUndefLit(u2, -v)
    BY <1>3, <1>4, SameTrail DEF Restored
  <2> QED BY <2>1, <2>2, <1>1
<1>7. Solid(d, u2) /\ ~u2.conflict
  BY <1>5 DEF Restored
<1>8. Solid(d, AssumeAndPropagate(d, u2, lit))
      /\ (~AssumeAndPropagate(d, u2, lit).conflict => Ready(AssumeAndPropagate(d, u2, lit)))
  BY <1>6, <1>7, TrySolid
<1>9. ASSUME yes.conflict, ~no.conflict PROVE ~AssumeAndPropagate(d, u2, lit).conflict
  <2>1. lit = -v
    BY <1>9 DEF Surviving
  <2>2. u2.trail = u1.trail /\ u2.next = Len(u2.trail)
    BY <1>4, <1>9 DEF Restored
  <2>3. ~AssumeAndPropagate(d, u1, -v).conflict
    BY <1>9
  <2> QED BY <2>1, <2>2, <2>3, <1>1, <1>3, <1>7, RepeatNoConflict DEF Solid
<1>10. ASSUME ~yes.conflict, no.conflict PROVE ~AssumeAndPropagate(d, u2, lit).conflict
  <2>1. lit = v
    BY <1>10 DEF Surviving
  <2>2. u2.trail = s.trail /\ u2.next = Len(u2.trail)
    BY <1>2, <1>4, <1>5, <1>10 DEF Restored
  <2>3. ~AssumeAndPropagate(d, s, v).conflict
    BY <1>10
  <2> QED BY <2>1, <2>2, <2>3, <1>1, <1>7, RepeatNoConflict DEF Solid
<1> QED BY <1>2, <1>5, <1>8, <1>9, <1>10

(* The weight of the objective. *)
LEMMA TotalWeightType ==
  TotalWeight \in Nat
<1> DEFINE n == NumVars
           step(r, i) == r + Weight[i]
           idx == [i \in Vars |-> i]
           g == [p \in Nat \X (1 .. n) |-> step(p[1], p[2])]
           E(f) == f = [t \in SUBSET DOMAIN idx |->
                          IF t = {} THEN 0 ELSE step(f[t \ {Max(t)}], idx[Max(t)])]
           F == CHOOSE f : E(f)
<1>1. n \in Nat /\ 0 \in Nat /\ DOMAIN idx = 1 .. n /\ \A i \in 1 .. n : idx[i] = i
  BY VarsAssumption DEF Vars
<1>0. \A i \in 1 .. n : Weight[i] \in Nat
  BY WeightAssumption DEF Vars
<1>2. g \in [Nat \X (1 .. n) -> Nat]
  BY <1>0
<1>3. \A t \in SUBSET (1 .. n), r \in Nat : t # {} => g[<<r, Max(t)>>] = step(r, idx[Max(t)])
  BY <1>1, MaxInSet
<1>4. TotalWeight = F[DOMAIN idx]
  BY Zenon DEF TotalWeight, FoldLeft, MapThenFoldSet
<1> HIDE DEF step, g, n, idx
<1>5. \E f : E(f)
  <2>1. PICK f \in [SUBSET (1 .. n) -> Nat] : Solves(f, n, 0, g)
    BY <1>1, <1>2, FoldExists
  <2>2. E(f)
    BY <2>1, <1>1, <1>3 DEF Solves
  <2> QED BY <2>2
<1>6. E(F)
  BY <1>5, Zenon
<1> HIDE DEF F
<1>7. Follows(F, n, Nat, 0, g)
  BY <1>1, <1>2, <1>6, <1>3 DEF Follows
<1>8. PICK h : Steps(h, F, n, Nat, 0, g)
  BY <1>7, FoldSteps
<1>9. h \in [0 .. n -> Nat] /\ F[1 .. n] = h[n]
  BY <1>8 DEF Steps
<1> QED BY <1>1, <1>4, <1>9

(* No bonus is negative. *)
LEMMA BonusType ==
  ASSUME NEW opt, NEW v \in Vars, NEW evals \in Nat, NEW depth
  PROVE  Bonus(opt, v, evals, depth) \in Nat
<1>1. TotalWeight \in Nat /\ Weight[v] \in Nat
  BY TotalWeightType, WeightAssumption
<1> PICK x, y : x = Weight[v] /\ y = TotalWeight
  OBVIOUS
<1>2. x \in Nat /\ y \in Nat
  BY <1>1
<1>3. evals * 20 \in Nat
  OBVIOUS
<1>4. \A a \in Nat, b \in Nat : a * b \in Nat
  OBVIOUS
<1>5. evals * 20 * x \in Nat
  BY <1>2, <1>3, <1>4
<1>6. \A a \in Nat, b \in Nat : b > 0 => a \div b \in Nat
  OBVIOUS
<1>7. y > 0 => (evals * 20 * x) \div y \in Nat
  BY <1>2, <1>5, <1>6
<1> HIDE DEF TotalWeight
<1> QED BY <1>7 DEF Bonus

(* Any variable that was tried is better than none. *)
LEMMA ChoiceBeatsNone ==
  ASSUME NEW opt, NEW v \in Vars, NEW pos \in Nat, NEW neg \in Nat, NEW depth
  PROVE  Better(Choice(opt, v, pos, neg, depth), NoChoice) /\ Choice(opt, v, pos, neg, depth).var # 0
<1>1. pos + neg \in Nat
  OBVIOUS
<1>2. pos * neg \in Nat
  <2>1. \A a \in Nat, b \in Nat : a * b \in Nat
    OBVIOUS
  <2> QED BY <2>1
<1>3. Bonus(opt, v, pos + neg, depth) \in Nat
  BY <1>1, BonusType
<1>4. Choice(opt, v, pos, neg, depth).score = pos * neg + Bonus(opt, v, pos + neg, depth)
      /\ Choice(opt, v, pos, neg, depth).var = v
  BY DEF Choice
<1>5. NoChoice.score = -1
  BY DEF NoChoice
<1> PICK x, y : x = pos * neg /\ y = Bonus(opt, v, pos + neg, depth)
  OBVIOUS
<1>6. x + y > -1
  BY <1>2, <1>3
<1>7. Choice(opt, v, pos, neg, depth).score > NoChoice.score
  BY <1>4, <1>5, <1>6
<1>8. v # 0
  BY DEF Vars
<1> QED BY <1>4, <1>7, <1>8 DEF Better

(* What look-ahead has shown after the first i variables. *)
Shown(d, look, s, i) ==
  /\ Solid(d, look.solver)
  /\ look.outcome = "forced" => Ready(look.solver)
  /\ look.outcome = "open" /\ look.best.var = 0 => \A v \in 1 .. i : ~IsUndefLit(s, v)

(* One variable. *)
LEMMA TryVarShows ==
  ASSUME NEW d \in Databases, NEW opt, NEW depth, NEW s, Good(d, s), NEW v \in Vars,
         NEW look \in Looks(d, opt, depth), Outcome(d, look, s), Shown(d, look, s, v - 1)
  PROVE  Shown(d, TryVar(d, opt, look, v, depth, AssignedVars(s)), s, v)
<1> DEFINE base == AssignedVars(s)
           l == look.solver
           yes == AssumeAndPropagate(d, l, v)
           u1 == Undone(d, yes)
           no == AssumeAndPropagate(d, u1, -v)
           u2 == Undone(d, no)
           choice == Choice(opt, v, Eval(yes, base), Eval(no, base), depth)
           lit == Surviving(v, no)
           sure == AssumeAndPropagate(d, u2, lit)
<1>0. \A i \in 1 .. v : i = v \/ i \in 1 .. v - 1
  BY VarsAssumption DEF Vars
<1>1. CASE look.outcome # "open" \/ ~IsUndefLit(l, v)
  <2>1. TryVar(d, opt, look, v, depth, base) = look
    BY <1>1 DEF TryVar
  <2>2. look.outcome = "open" => ~IsUndefLit(s, v)
    BY <1>1, SameTrail DEF Outcome
  <2> QED BY <2>1, <2>2, <1>0 DEF Shown
<1>2. CASE look.outcome = "open" /\ IsUndefLit(l, v)
  <2>1. TryVar(d, opt, look, v, depth, base) = Judged(d, look, v, yes, no, choice)
    BY <1>2 DEF TryVar
  <2>2. Solid(d, l) /\ l.trail = s.trail
    BY <1>2 DEF Shown, Outcome
  <2>3. /\ Restored(d, u1, l) /\ Restored(d, u2, l) /\ Solid(d, sure)
        /\ ~(yes.conflict /\ no.conflict) /\ (yes.conflict \/ no.conflict) => Ready(sure)
    BY <2>2, <1>2, SurvivorHolds
  <2>4. v \in Lits /\ -v \in Lits
    BY LitFacts DEF Lits
  <2>5. IsUndefLit(u1, -v)
    BY <2>3, <2>4, <1>2, SameTrail, UndefNegated DEF Restored
  <2>6. Tried(d, yes, l, v) /\ Tried(d, no, u1, -v)
    BY <2>2, <2>3, <2>4, <2>5, <1>2, TrySolid DEF Restored
  <2>7. ~yes.conflict /\ ~no.conflict => Eval(yes, base) \in Nat /\ Eval(no, base) \in Nat
    <3>1. Len(s.trail) \in Nat /\ Len(yes.trail) \in Nat /\ Len(no.trail) \in Nat
      BY <2>6, StateFacts DEF Tried, Good, States
    <3>2. Len(s.trail) < Len(yes.trail) /\ Len(s.trail) < Len(no.trail)
      BY <2>2, <2>3, <2>6 DEF Tried, Restored
    <3> HIDE DEF yes, no
    <3> QED BY <3>1, <3>2 DEF Eval, AssignedVars
  <2>8. look.best = NoChoice \/ look.best.var # 0
    <3>1. look.best \in BestChoices(opt, depth)
      BY DEF Looks
    <3>2. \A w \in Vars : w # 0
      BY DEF Vars
    <3> QED BY <3>1, <3>2 DEF BestChoices, Choice
  <2>9. Solid(d, u2)
    BY <2>3 DEF Restored
  <2>10. look.outcome = "open" /\ look \in [solver : GoodStates(d), outcome : {"open", "refuted", "forced"},
                                            best : BestChoices(opt, depth)]
    BY <1>2 DEF Looks
  <2> HIDE DEF yes, no, sure, l
  <2>11. CASE yes.conflict /\ no.conflict
    <3> PICK q : q = [look EXCEPT !.solver = u2, !.outcome = "refuted"]
      OBVIOUS
    <3>1. Judged(d, look, v, yes, no, choice) = q
      BY <2>11 DEF Judged
    <3> HIDE DEF u2
    <3>2. q.solver = u2 /\ q.outcome = "refuted"
      BY <2>10
    <3>3. Shown(d, q, s, v)
      BY <3>2, <2>9 DEF Shown
    <3> QED BY <2>1, <3>1, <3>3
  <2>12. CASE (yes.conflict \/ no.conflict) /\ ~(yes.conflict /\ no.conflict)
    <3> PICK q : q = [look EXCEPT !.outcome = "forced", !.solver = sure]
      OBVIOUS
    <3>1. Judged(d, look, v, yes, no, choice) = q
      BY <2>12 DEF Judged, sure
    <3> HIDE DEF u2
    <3>2. q.solver = sure /\ q.outcome = "forced"
      BY <2>10
    <3>3. Shown(d, q, s, v)
      BY <3>2, <2>3, <2>12 DEF Shown
    <3> QED BY <2>1, <3>1, <3>3
  <2>13. CASE ~(yes.conflict \/ no.conflict)
    <3> PICK best : best = Preferred(choice, look.best)
      OBVIOUS
    <3> PICK q : q = [look EXCEPT !.solver = u2, !.best = best]
      OBVIOUS
    <3>1. Judged(d, look, v, yes, no, choice) = q
      BY <2>10, <2>13 DEF Judged
    <3>2. best.var # 0
      <4>1. Better(choice, NoChoice) /\ choice.var # 0
        BY <2>7, <2>13, ChoiceBeatsNone
      <4> HIDE DEF choice
      <4> QED BY <4>1, <2>8 DEF Preferred
    <3> HIDE DEF u2, choice
    <3>3. q.solver = u2 /\ q.outcome = "open" /\ q.best = best
      BY <2>10
    <3>4. Shown(d, q, s, v)
      BY <3>2, <3>3, <2>9 DEF Shown
    <3> QED BY <2>1, <3>1, <3>4
  <2> QED BY <2>11, <2>12, <2>13
<1> QED BY <1>1, <1>2

(* All variables: unless one was tried they all are defined. *)
LEMMA LookedShows ==
  ASSUME NEW d \in Databases, NEW opt, NEW depth, NEW s, Solid(d, s)
  PROVE  Shown(d, Looked(d, opt, s, depth), s, NumVars)
<1>1. NumVars \in Nat
  BY VarsAssumption
<1>0. Good(d, s)
  BY DEF Solid
<1>2. PICK h \in [0 .. NumVars -> LooksFrom(d, opt, depth, s)] :
           /\ h[0] = NothingTried(s)
           /\ \A i \in 1 .. NumVars : h[i] = TryVar(d, opt, h[i - 1], i, depth, AssignedVars(s))
           /\ Looked(d, opt, s, depth) = h[NumVars]
  BY <1>0, LookedSteps
<1> DEFINE T == {i \in 0 .. NumVars : Shown(d, h[i], s, i)}
<1>3. 0 \in T
  <2>1. NothingTried(s).solver = s /\ NothingTried(s).outcome = "open"
    BY DEF NothingTried
  <2>2. 1 .. 0 = {}
    OBVIOUS
  <2>3. Shown(d, NothingTried(s), s, 0)
    BY <2>1, <2>2 DEF Shown
  <2> QED BY <2>3, <1>1, <1>2
<1>4. ASSUME NEW i \in 1 .. NumVars, i - 1 \in T PROVE i \in T
  <2>1. h[i - 1] \in Looks(d, opt, depth) /\ Outcome(d, h[i - 1], s) /\ Shown(d, h[i - 1], s, i - 1)
    BY <1>4 DEF LooksFrom
  <2>2. i \in Vars
    BY DEF Vars
  <2>3. Shown(d, TryVar(d, opt, h[i - 1], i, depth, AssignedVars(s)), s, i)
    BY <2>1, <2>2, <1>0, TryVarShows
  <2> QED BY <2>3, <1>1, <1>2
<1>5. NumVars \in T
  <2> HIDE DEF T
  <2>1. Inductive(NumVars, T)
    BY <1>1, <1>3, <1>4 DEF Inductive
  <2> QED BY <2>1, InductionUpTo
<1> QED BY <1>2, <1>5

(* If every variable is defined, the trail has them all. *)
LEMMA AllDefined ==
  ASSUME NEW s \in State, Orderly(s), \A v \in 1 .. NumVars : ~IsUndefLit(s, v)
  PROVE  Len(s.trail) = NumVars
<1> DEFINE n == Len(s.trail)
           at == [v \in Vars |-> CHOOSE i \in 1 .. n : s.trail[i].lit \in {v, -v}]
<1>1. n \in Nat /\ NumVars \in Nat /\ DOMAIN s.trail = 1 .. n /\ n <= NumVars
  BY StateFacts, VarsAssumption, TrailFits
<1>2. SUFFICES ASSUME n < NumVars PROVE FALSE
  BY <1>1
<1>3. ASSUME NEW v \in Vars PROVE at[v] \in 1 .. n /\ s.trail[at[v]].lit \in {v, -v}
  <2>1. \E i \in 1 .. n : s.trail[i].lit \in {v, -v}
    <3>1. {v, -v} \cap TrueLits(s) # {}
      BY DEF Vars, IsUndefLit
    <3> QED BY <3>1, <1>1 DEF TrueLits
  <2> QED BY <2>1
<1>4. at \in [Vars -> 1 .. n]
  BY <1>3
<1> HIDE DEF at
<1>5. IsFiniteSet(Vars) /\ Cardinality(Vars) = NumVars /\ IsFiniteSet(1 .. n) /\ Cardinality(1 .. n) = n
  <2>1. IsFiniteSet(Vars) /\ Cardinality(Vars) = NumVars
    BY <1>1, FS_Interval DEF Vars
  <2>2. IsFiniteSet(1 .. n) /\ Cardinality(1 .. n) = n
    BY <1>1, FS_Interval
  <2> QED BY <2>1, <2>2
<1>6. PICK v \in Vars, w \in Vars : v # w /\ at[v] = at[w]
  BY <1>1, <1>2, <1>4, <1>5, FS_PigeonHole
<1>7. {v, -v} \cap {w, -w} # {}
  BY <1>3, <1>6
<1>8. v \in Nat \ {0} /\ w \in Nat \ {0}
  BY DEF Vars
<1> QED BY <1>6, <1>7, <1>8

(* A solver that has propagated all variables without a conflict has a model. *)
LEMMA ReadyModel ==
  ASSUME NEW d \in Databases, NEW s, Solid(d, s), Ready(s), \A v \in 1 .. NumVars : ~IsUndefLit(s, v)
  PROVE  TrueLits(s) \in TotalModels(d)
<1> DEFINE m == TrueLits(s)
<1>1. /\ Good(d, s) /\ s \in State /\ m \subseteq Lits /\ DOMAIN s.trail = 1 .. Len(s.trail)
      /\ \A i \in 1 .. Len(s.trail) : s.trail[i].lit \in Lits
      /\ s.next = Len(s.trail)
  BY StateFacts DEF Solid, Good, States, Ready
<1>2. \A l \in m : -l \notin m
  <2>1. \A i, j \in 1 .. Len(s.trail) : s.trail[i].lit # -s.trail[j].lit
    <3> TAKE i, j \in 1 .. Len(s.trail)
    <3>1. CASE i = j
      BY <3>1, <1>1, LitFacts
    <3>2. CASE i # j
      BY <3>2, <1>1 DEF Good, Orderly, Consistent
    <3> QED BY <3>1, <3>2
  <2> QED BY <2>1, <1>1 DEF TrueLits
<1>3. Discounted(s) = Negs(m)
  BY <1>1 DEF Discounted, Negs, TrueLits
<1>4. \A v \in Vars : v \in m \/ -v \in m
  BY DEF Vars, IsUndefLit
<1>5. \A l \in Lits : l \notin Negs(m) => l \in m
  <2> SUFFICES ASSUME NEW l \in Lits, l \notin Negs(m) PROVE l \in m
    OBVIOUS
  <2>1. -l \notin m
    BY LitFacts DEF Negs
  <2>2. PICK v \in Vars : l = v \/ l = -v
    BY DEF Lits
  <2>3. -(-v) = v
    BY DEF Vars
  <2> QED BY <1>4, <2>1, <2>2, <2>3
<1> HIDE DEF m
<1>6. ASSUME NEW id \in 1 .. Len(d) PROVE Weigh(d[id], m) >= d[id].k
  <2> PICK c : c = d[id]
    OBVIOUS
  <2>1. c \in Constraint
    BY DEF Databases
  <2>2. /\ c.lhs \in Seq(Term) /\ c.k \in Nat /\ Weigh(c, m) \in Nat
        /\ Weigh(c, LitsOf(c) \ Negs(m)) \in Nat /\ \A i \in 1 .. Len(c.lhs) : c.lhs[i].lit \in Lits
    BY <2>1, ConstraintFacts, WeighType
  <2>3. Weigh(c, LitsOf(c) \ Negs(m)) - c.k >= 0
    BY <1>3 DEF Solid, Slacks, Remaining
  <2>4. \A i \in 1 .. Len(c.lhs) : c.lhs[i].lit \in LitsOf(c) \ Negs(m) => c.lhs[i].lit \in m
    BY <2>2, <1>5
  <2>5. Weigh(c, LitsOf(c) \ Negs(m)) <= Weigh(c, m)
    BY <2>2, <2>4, WeighMono
  <2> QED BY <2>2, <2>3, <2>5
<1> QED BY <1>1, <1>2, <1>4, <1>6 DEF TotalModels, Models, m

(* A model of the database gives a solution of the problem. *)
LEMMA ModelsAreSolutions ==
  ASSUME NEW p \in Databases, NEW m \in TotalModels(Database(p))
  PROVE  m \in Solutions(p)
<1>1. /\ m \subseteq Lits /\ (\A l \in m : -l \notin m) /\ (\A v \in Vars : v \in m \/ -v \in m)
      /\ \A id \in 1 .. Len(Database(p)) : Weigh(Database(p)[id], m) >= Database(p)[id].k
  BY DEF TotalModels, Models
<1>2. m \in Assignments
  <2> DEFINE f == [v \in Vars |-> v \in m]
             x(v) == IF f[v] THEN v ELSE -v
  <2>1. f \in [Vars -> BOOLEAN]
    OBVIOUS
  <2>2. ASSUME NEW l \in m PROVE \E v \in Vars : l = x(v)
    <3>1. PICK v \in Vars : l = v \/ l = -v
      BY <1>1 DEF Lits
    <3>2. v \in Int /\ -(-v) = v
      BY DEF Vars
    <3>3. l = -v => v \notin m
      BY <1>1, <3>2
    <3> QED BY <3>1, <3>3
  <2>3. ASSUME NEW v \in Vars PROVE x(v) \in m
    BY <1>1
  <2>4. m = {x(v) : v \in Vars}
    <3> HIDE DEF x
    <3> QED BY <2>2, <2>3
  <2> HIDE DEF f
  <2> QED BY <2>1, <2>4 DEF Assignments
<1>3. Len(p) \in Nat /\ DOMAIN p = 1 .. Len(p) /\ \A id \in 1 .. Len(p) : p[id] \in Constraint
  BY DEF Databases
<1>4. Len(Database(p)) = Len(p) /\ \A id \in 1 .. Len(p) : Database(p)[id] = Simplify(p[id])
  <2>1. \A id \in 1 .. Len(p) : Simplify(p[id]) \in Constraint
    BY <1>3, SimplifySound
  <2> QED BY <1>3, <2>1 DEF Database
<1>5. ASSUME NEW id \in 1 .. Len(p) PROVE Weigh(p[id], m) >= p[id].k
  <2>1. Weigh(Simplify(p[id]), m) >= Simplify(p[id]).k
    BY <1>1, <1>4
  <2> QED BY <2>1, <1>3, SimplifySound
<1> QED BY <1>2, <1>3, <1>5 DEF Solutions

(* Loading finds no conflict and leaves a variable to look at. *)
Unsettled(d) == ~Loaded(d).conflict /\ AssignedVars(Loaded(d)) # NumVars

(* A worker that looks ahead has propagated everything, unless it has not tried
   anything yet. *)
Fresh(d, s) == Ready(s) \/ s.trail = Loaded(d).trail

(* The worker is right if it has found a model. *)
Justified(d, l) ==
  /\ Solid(d, l.solver)
  /\ l.sat => TotalModels(d) # {}
  /\ l.stack # <<>> /\ Wide(Last(l.stack)) => Fresh(d, l.solver)

(* If look-ahead leaves nothing to look at, there is a model. *)
LEMMA SolvedModel ==
  ASSUME NEW d \in Databases, Unsettled(d), NEW opt, NEW depth, NEW s, Solid(d, s), Fresh(d, s),
         Solved(Looked(d, opt, s, depth))
  PROVE  TotalModels(d) # {}
<1>1. s \in State /\ Orderly(s)
  BY DEF Solid, Good, States
<1>2. \A v \in 1 .. NumVars : ~IsUndefLit(s, v)
  <2>1. Shown(d, Looked(d, opt, s, depth), s, NumVars)
    BY LookedShows
  <2> QED BY <2>1 DEF Shown, Solved
<1>3. Len(s.trail) = NumVars
  BY <1>1, <1>2, AllDefined
<1>4. Ready(s)
  BY <1>3 DEF Fresh, Unsettled, AssignedVars
<1> QED BY <1>2, <1>4, ReadyModel

(* A worker starts so. *)
LEMMA StartedJustified ==
  ASSUME NEW d \in Databases, Unsettled(d), NEW id, NEW n, NEW t
  PROVE  Justified(d, Started(d, id, n, t))
<1>1. Solid(d, Loaded(d))
  BY LoadedMakes DEF Solid, Unsettled
<1>2. Started(d, id, n, t).solver = Loaded(d) /\ Started(d, id, n, t).sat = FALSE
  BY DEF Started
<1> QED BY <1>1, <1>2 DEF Justified, Fresh

(* Enter changes nothing of it. *)
LEMMA EnteredJustified ==
  ASSUME NEW d \in Databases, NEW opt, NEW l, Fine(d, l), l.stack # <<>>, Last(l.stack).stage = "enter",
         Justified(d, l)
  PROVE  Justified(d, Entered(opt, l))
<1>1. Entered(opt, l).solver = l.solver /\ Entered(opt, l).sat = l.sat
  BY DEF Entered
<1>2. Fresh(d, l.solver)
  BY DEF Justified, Wide
<1> QED BY <1>1, <1>2 DEF Justified

(* LookAhead, when the call returns: a model was found if it is said to be. *)
LEMMA ClosedJustified ==
  ASSUME NEW d \in Databases, Unsettled(d), NEW opt, NEW l, Fine(d, l), l.stack # <<>>,
         Last(l.stack).stage = "look", Justified(d, l),
         NEW look, look = Looked(d, opt, l.solver, Len(l.current)), look.outcome # "forced"
  PROVE  Justified(d, Closed(d, opt, l, look))
<1> DEFINE n == Len(l.stack)
           failed == Last(l.stack).failed
<1>1. PICK b : Placed(d, l, b)
  BY DEF Fine
<1>2. /\ l \in Locals(d) /\ n \in 1 .. n /\ Last(l.stack) = l.stack[n] /\ l.stack \in Seq(FineFrame)
  BY FineFacts, LocalFacts
<1>3. Solid(d, l.solver) /\ Fresh(d, l.solver)
  BY DEF Justified, Wide
<1>4. look.solver.trail = l.solver.trail
  <2>1. Outcome(d, look, l.solver)
    BY LookFacts
  <2> QED BY <2>1 DEF Outcome
<1>5. Level(look.solver) = b[n]
  BY <1>1, <1>2, <1>4, OpenIs, SameTrail
<1>6. failed \in Nat /\ failed <= Level(look.solver)
  BY <1>1, <1>2, <1>5, BasesFacts DEF Placed
<1>7. Solid(d, look.solver)
  BY <1>3, LookedShows DEF Shown
<1>8. Solid(d, Backtrack(d, look.solver, failed))
  BY <1>6, <1>7, UndoSolid
<1>9. Solved(look) => TotalModels(d) # {}
  BY <1>3, SolvedModel
<1>10. /\ Closed(d, opt, l, look).solver = Backtrack(d, look.solver, failed)
       /\ Closed(d, opt, l, look).stack = Front(l.stack)
       /\ Closed(d, opt, l, look).sat => l.sat \/ Solved(look)
  BY DEF Closed
<1>11. ~Calling(Closed(d, opt, l, look))
  BY <1>10, FrontInBranch
<1> QED BY <1>8, <1>9, <1>10, <1>11 DEF Justified, Calling, Wide

(* LookAhead, when a literal is forced: it was tried without a conflict. *)
LEMMA ForcedJustified ==
  ASSUME NEW d \in Databases, NEW opt, NEW l, Fine(d, l), l.stack # <<>>,
         Last(l.stack).stage = "look", Justified(d, l),
         NEW look, look = Looked(d, opt, l.solver, Len(l.current)), look.outcome = "forced"
  PROVE  Justified(d, Forced(l, look))
<1>1. Shown(d, look, l.solver, NumVars)
  BY LookedShows DEF Justified
<1>2. Forced(l, look).solver = look.solver /\ Forced(l, look).sat = l.sat
  BY DEF Forced
<1> QED BY <1>1, <1>2 DEF Justified, Shown, Fresh

(* LookAhead, when there is a variable to branch on. *)
LEMMA SplitJustified ==
  ASSUME NEW d \in Databases, NEW opt, NEW l, Fine(d, l), l.stack # <<>>,
         Last(l.stack).stage = "look", Justified(d, l),
         NEW look, look = Looked(d, opt, l.solver, Len(l.current)), look.outcome = "open",
         look.best.var # 0
  PROVE  Justified(d, Split(l, look))
<1> DEFINE f == [Last(l.stack) EXCEPT !.stage = "branch", !.branches = Branches(Last(l.stack), look.best)]
<1>1. Shown(d, look, l.solver, NumVars)
  BY LookedShows DEF Justified
<1>2. f \in FineFrame /\ f.stage = "branch"
  <2>1. Last(l.stack) \in FineFrame /\ look.best.var \in Vars
    BY FineFacts, LookFacts
  <2> QED BY <2>1, BranchesMake
<1>3. Split(l, look).solver = look.solver /\ Split(l, look).sat = l.sat
      /\ Split(l, look).stack = Append(Front(l.stack), f)
  BY DEF Split
<1> HIDE DEF f
<1>4. Last(Split(l, look).stack) = f
  BY <1>2, <1>3, ReplacedLast
<1> QED BY <1>1, <1>2, <1>3, <1>4 DEF Justified, Shown, Wide

(* Branch: a call is only made when everything is propagated. *)
LEMMA BranchedJustified ==
  ASSUME NEW d \in Databases, NEW l, Fine(d, l), l.stack # <<>>, Last(l.stack).stage = "branch",
         Justified(d, l), NEW s, s = AssumeAndPropagate(d, l.solver, Chosen(l))
  PROVE  Justified(d, Branched(l, s))
<1> DEFINE n == Len(l.stack)
           k == Branched(l, s)
<1>1. PICK b : Placed(d, l, b)
  BY DEF Fine
<1>2. l \in Locals(d) /\ n \in 1 .. n /\ Last(l.stack) = l.stack[n]
  BY FineFacts
<1>3. Chosen(l) \in Lits /\ Chosen(l) \in Pending(l.stack[n])
  <2>1. Chosen(l) \in ToSet(Last(l.stack).branches)
    BY ChosenFacts
  <2> QED BY <1>2, <2>1, ChosenFacts DEF Pending
<1>4. IsUndefLit(l.solver, Chosen(l))
  <2>1. Below(l.solver, b[n]) = TrueLits(l.solver)
    BY <1>1, <1>2, OpenIs
  <2>2. Held(d, l, n, b[n])
    BY <1>1, <1>2 DEF Placed
  <2> QED BY <2>1, <2>2, <1>3 DEF Held, IsUndefLit
<1>5. Solid(d, s) /\ (~s.conflict => Ready(s))
  BY <1>3, <1>4, TrySolid DEF Justified
<1>6. k.solver = s /\ k.sat = l.sat /\ (s.conflict => k.stack = InBranch(l))
  BY DEF Branched
<1>7. s.conflict => ~Wide(Last(k.stack))
  <2>1. Last(InBranch(l)).stage = "undo"
    BY InBranchFacts
  <2> HIDE DEF k
  <2> QED BY <1>6, <2>1 DEF Wide
<1> HIDE DEF k
<1> QED BY <1>5, <1>6, <1>7 DEF Justified, Fresh, k

(* Undo. *)
LEMMA LeftJustified ==
  ASSUME NEW d \in Databases, NEW opt, NEW l, Fine(d, l), l.stack # <<>>, Last(l.stack).stage = "undo",
         Justified(d, l), NEW s, s = Backtrack(d, l.solver, 1)
  PROVE  Justified(d, Left(d, opt, l, s))
<1> DEFINE n == Len(l.stack)
           failed == Last(l.stack).failed
           k == Left(d, opt, l, s)
<1>1. PICK b : Placed(d, l, b)
  BY DEF Fine
<1>2. /\ l \in Locals(d) /\ n \in 1 .. n /\ Last(l.stack) = l.stack[n] /\ l.stack \in Seq(FineFrame)
  BY FineFacts, LocalFacts
<1>3. b[n] \in Nat /\ failed \in Nat /\ failed <= b[n]
  BY <1>1, <1>2, BasesFacts DEF Placed
<1>4. 1 <= Level(l.solver)
  <2>1. Level(l.solver) = b[n] + 1
    BY <1>1 DEF Placed, LevelOf
  <2>2. \A x \in Nat : 1 <= x + 1
    OBVIOUS
  <2> QED BY <1>3, <2>1, <2>2
<1>5. Undoing(d, l, s, b)
  BY <1>1, UndoMakes
<1>6. Solid(d, s) /\ Level(s) = b[n] /\ s \in GoodStates(d)
  BY <1>4, <1>5, UndoSolid DEF Justified, Undoing
<1>7. Solid(d, Backtrack(d, s, failed)) /\ Backtrack(d, s, failed) \in GoodStates(d)
  BY <1>3, <1>5, <1>6, UndoSolid DEF Undoing
<1>8. LeftMade(d, opt, l, k)
  BY <1>6, <1>7, LeftType
<1>9. k.sat = l.sat
  BY DEF Left
<1>10. CASE Leaves(opt, l)
  <2>1. k.solver = Backtrack(d, s, failed) /\ k.stack = Front(l.stack)
    BY <1>10 DEF Left
  <2>2. ~Calling(k)
    BY <2>1, FrontInBranch
  <2> HIDE DEF k
  <2> QED BY <1>7, <1>9, <2>1, <2>2 DEF Justified, Calling, Wide, k
<1>11. CASE ~Leaves(opt, l)
  <2>1. k.solver = s /\ k.stack = Append(Front(l.stack), Onward(l))
    BY <1>11 DEF Left
  <2>2. Onward(l) \in FineFrame /\ Onward(l).stage = "branch"
    BY <1>8, <1>11 DEF LeftMade
  <2> HIDE DEF k
  <2>3. Last(k.stack) = Onward(l)
    BY <2>1, <2>2, ReplacedLast
  <2> QED BY <1>6, <1>9, <2>1, <2>2, <2>3 DEF Justified, Wide, k
<1> QED BY <1>10, <1>11

(* Every step of a worker keeps it. *)
LEMMA JustifiedAfter ==
  ASSUME NEW d \in Databases, Unsettled(d), NEW opt, NEW l, Fine(d, l), Justified(d, l)
  PROVE  Justified(d, After(d, opt, l))
<1>1. CASE l.stack = <<>>
  BY <1>1 DEF After
<1>2. CASE l.stack # <<>>
  <2>1. Last(l.stack).stage \in {"enter", "look", "branch", "undo"}
    BY <1>2, FineFacts, FrameFacts
  <2>2. CASE Last(l.stack).stage = "enter"
    BY <1>2, <2>2, EnteredJustified DEF After
  <2>3. CASE Last(l.stack).stage = "look"
    <3> PICK g : g = Looked(d, opt, l.solver, Len(l.current))
      OBVIOUS
    <3>1. After(d, opt, l) = LookedAt(d, opt, l, g)
      BY <1>2, <2>3 DEF After
    <3>2. g.outcome \in {"open", "refuted", "forced"}
      BY <1>2, LookFacts
    <3>3. CASE g.outcome = "refuted" \/ Solved(g)
      <4>1. g.outcome # "forced"
        BY <3>3 DEF Solved
      <4>2. Justified(d, Closed(d, opt, l, g))
        BY <1>2, <2>3, <4>1, ClosedJustified
      <4> QED BY <3>1, <3>3, <4>2 DEF LookedAt
    <3>4. CASE g.outcome = "forced"
      <4>1. Justified(d, Forced(l, g))
        BY <1>2, <2>3, <3>4, ForcedJustified
      <4> QED BY <3>1, <3>4, <4>1 DEF LookedAt, Solved
    <3>5. CASE g.outcome = "open" /\ ~Solved(g)
      <4>1. g.best.var # 0
        BY <3>5 DEF Solved
      <4>2. Justified(d, Split(l, g))
        BY <1>2, <2>3, <3>5, <4>1, SplitJustified
      <4> QED BY <3>1, <3>5, <4>2 DEF LookedAt
    <3> QED BY <3>2, <3>3, <3>4, <3>5
  <2>4. CASE Last(l.stack).stage = "branch"
    BY <1>2, <2>4, BranchedJustified DEF After
  <2>5. CASE Last(l.stack).stage = "undo"
    BY <1>2, <2>5, LeftJustified DEF After
  <2> QED BY <2>1, <2>2, <2>3, <2>4, <2>5
<1> QED BY <1>1, <1>2

(* And so does every row. *)
LEMMA RowsJustified ==
  ASSUME NEW T, NEW N, NEW d \in Databases, Unsettled(d), NEW opt, NEW n \in Nat, NEW t,
         Lockstep(T, N, d, opt, n, t), NEW w \in 1 .. n
  PROVE  \A i \in 0 .. N : Justified(d, T[i][w])
<1> DEFINE S == {i \in 0 .. N : Justified(d, T[i][w])}
<1>1. 0 \in S
  <2>1. 0 \in 0 .. N /\ T[0][w] = Started(d, w - 1, n, t)
    BY RowFacts
  <2> QED BY <2>1, StartedJustified
<1>2. ASSUME NEW i \in 1 .. N, i - 1 \in S PROVE i \in S
  <2> PICK j : j = i - 1
    OBVIOUS
  <2>1. j \in 0 .. N /\ i \in 0 .. N /\ Justified(d, T[j][w])
    BY <1>2, RowFacts
  <2>2. T[i][w] = After(d, opt, T[j][w]) /\ Fine(d, T[j][w])
    BY <2>1, RowFacts
  <2> QED BY <2>1, <2>2, JustifiedAfter
<1> HIDE DEF S
<1>3. Inductive(N, S)
  BY <1>1, <1>2, RowFacts DEF Inductive
<1>4. 0 .. N \subseteq S
  BY <1>3, InductionUpTo
<1> QED BY <1>4 DEF S

(* A model of the constraints that are loaded is a solution of the problem. *)
LEMMA SatJustifiedIs ==
  ASSUME Recorded PROVE SatJustified
<1>1. PICK n, t, N, T, c :
        /\ n \in WorkerCounts /\ t \in Thetas
        /\ Spread(n) /\ Lockstep(T, N, db, optimizing, n, t) /\ InRow(T, N, c, n)
  BY DEF Recorded
<1>2. /\ problem \in Databases /\ db = Database(problem) /\ db \in Databases
      /\ n \in Nat /\ Gang = 1 .. n
  BY <1>1, RecordedFine, WorkersAssumption DEF Gang, Spread, IsArray
<1>3. ASSUME NEW w \in Gang, sat[w], Unsettled(db) PROVE Solutions(problem) # {}
  <2>1. w \in 1 .. n /\ c[w] \in 0 .. N /\ Local(w) = T[c[w]][w]
    BY <1>1, <1>2 DEF InRow
  <2>2. Justified(db, Local(w))
    <3>1. \A i \in 0 .. N : Justified(db, T[i][w])
      BY <1>1, <1>2, <1>3, <2>1, RowsJustified
    <3> QED BY <2>1, <3>1
  <2>3. TotalModels(db) # {}
    BY <1>3, <2>2, LocalIs DEF Justified
  <2> QED BY <1>2, <2>3, ModelsAreSolutions
<1> QED BY <1>3 DEF SatJustified, Unsettled

(* A worker says that no variable is left to look at (cube_sat_found) only if
   the problem is satisfiable, or loading it found a conflict or assigned
   every variable: no conflict stays unnoticed in between. *)
THEOREM SatIsJustified == Spec => []SatJustified
<1> QED BY AlwaysRecorded, SatJustifiedIs, PTL
====
