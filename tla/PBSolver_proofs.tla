--------------------------- MODULE PBSolver_proofs ---------------------------
(***************************************************************************)
(* Proofs about the operators of PBSolver, one section for each thing the  *)
(* solver does to its state: one constraint propagates, the constraints of *)
(* a literal are visited, propagation runs to its end, levels are undone,  *)
(* a problem is loaded.  Each keeps the trail free of repetitions, the     *)
(* counters right and the literals implied by those assumed.               *)
(* A further section shows that propagation that meets no conflict leaves  *)
(* nothing to propagate, and that a literal can be tried again.            *)
(*   All of it rests on lemmas about folds, sums and constraints, which    *)
(* come first.                                                             *)
(*   Folds.  FoldLeft(op, base, seq) is defined by recursion over the sets *)
(* of indices; the lemmas, from an induction for sets of naturals, say     *)
(* that the recursion has a solution, and what it is on 1 .. k.            *)
(*   Sums.  SumFunctionOnSet(g, S) is a recursion that takes any member of *)
(* the set next; the order makes no difference, and sums compare, add up   *)
(* and multiply.                                                           *)
(*   Constraints.  Weigh is computed term by term, a model of the          *)
(* simplified constraint is a model of the given one and vice versa, and a *)
(* normal form stays one.                                                  *)
(***************************************************************************)
EXTENDS PBSolver, SequenceTheorems, FiniteSetTheorems, WellFoundedInduction, TLAPS

(* Folds. *)
(* The naturals are ordered by a well-founded relation. *)
LEMMA NatOrder ==
  \E R : IsWellFoundedOn(R, Nat) /\ \A n \in Nat : <<n, n + 1>> \in R
<1>1. \A n \in Nat : <<n, n + 1>> \in {ss \in Nat \X Nat : ss[1] < ss[2]}
  OBVIOUS
<1>2. OpToRel(<, Nat) = {ss \in Nat \X Nat : ss[1] < ss[2]}
  BY Zenon DEF OpToRel
<1> QED BY <1>1, <1>2, NatLessThanWellFounded, Zenon

(* A set that holds zero and the successor of each of its members holds every
   natural number. *)
LEMMA Induction ==
  ASSUME NEW S, 0 \in S, \A n \in Nat : n \in S => n + 1 \in S
  PROVE  Nat \subseteq S
<1> DEFINE T == Nat \ S
<1> SUFFICES ASSUME T # {} PROVE FALSE
  OBVIOUS
<1>1. PICK R : IsWellFoundedOn(R, Nat) /\ \A n \in Nat : <<n, n + 1>> \in R
  BY NatOrder, Zenon
<1>2. PICK x \in T : \A y \in T : ~(<<y, x>> \in R)
  BY <1>1, WFMin
<1>3. x - 1 \in Nat /\ x = (x - 1) + 1
  OBVIOUS
<1>4. x - 1 \notin T
  BY <1>1, <1>2, <1>3
<1> QED BY <1>3, <1>4

(* The same up to a bound. *)
Inductive(n, S) ==
  /\ n \in Nat
  /\ 0 \in S
  /\ \A k \in 1 .. n : k - 1 \in S => k \in S

(* The same up to n. *)
LEMMA InductionUpTo ==
  ASSUME NEW n, NEW S, Inductive(n, S)
  PROVE  n \in S /\ 0 .. n \subseteq S
<1>0. n \in Nat /\ 0 \in S /\ \A k \in 1 .. n : k - 1 \in S => k \in S
  BY DEF Inductive
<1> DEFINE T == {k \in Nat : k <= n => k \in S}
<1>1. 0 \in T
  BY <1>0
<1>2. ASSUME NEW k \in Nat, k \in T PROVE k + 1 \in T
  <2> SUFFICES ASSUME k + 1 <= n PROVE k + 1 \in S
    OBVIOUS
  <2>1. k + 1 \in 1 .. n /\ (k + 1) - 1 = k /\ k \in S
    BY <1>0, <1>2
  <2> QED BY <2>1, <1>0
<1>3. Nat \subseteq T
  <2> HIDE DEF T
  <2> QED BY <1>1, <1>2, Induction
<1> QED BY <1>0, <1>3

(* The largest number of 1 .. k, and what is left without it. *)
LEMMA MaxOfInterval ==
  ASSUME NEW k \in Nat \ {0}
  PROVE  /\ 1 .. k # {} /\ Max(1 .. k) = k /\ (1 .. k) \ {Max(1 .. k)} = 1 .. (k - 1)
<1>1. k \in 1 .. k /\ \A y \in 1 .. k : k >= y
  OBVIOUS
<1>2. \A x \in 1 .. k : (\A y \in 1 .. k : x >= y) => x = k
  BY <1>1
<1>3. Max(1 .. k) = k
  BY <1>1, <1>2 DEF Max
<1> QED BY <1>1, <1>3

(* A nonempty set of indices has its largest member. *)
LEMMA MaxInSet ==
  ASSUME NEW n \in Nat, NEW t \in SUBSET (1 .. n), t # {}
  PROVE  Max(t) \in t /\ \A y \in t : Max(t) >= y
<1> DEFINE T == {k \in Nat : \A s \in SUBSET (1 .. k) :
                    s # {} => \E x \in s : \A y \in s : x >= y}
<1>1. 0 \in T
  <2>1. 1 .. 0 = {}
    OBVIOUS
  <2> QED BY <2>1
<1>2. ASSUME NEW k \in Nat, k \in T PROVE k + 1 \in T
  <2> SUFFICES ASSUME NEW s \in SUBSET (1 .. (k + 1)), s # {}
               PROVE  \E x \in s : \A y \in s : x >= y
    OBVIOUS
  <2>1. CASE k + 1 \in s
    BY <2>1
  <2>2. CASE k + 1 \notin s
    <3>1. s \in SUBSET (1 .. k)
      BY <2>2
    <3> QED BY <3>1, <1>2
  <2> QED BY <2>1, <2>2
<1>3. n \in T
  <2> HIDE DEF T
  <2> QED BY <1>1, <1>2, Induction
<1>4. \E x \in t : \A y \in t : x >= y
  BY <1>3
<1> QED BY <1>4 DEF Max

(* f solves the recursion in which g takes a value and an index to the next
   value; h is the sequence of the values on 1 .. k. *)
Solves(f, n, b, g) ==
  /\ f[{}] = b
  /\ \A t \in SUBSET (1 .. n) : t # {} => f[t] = g[<<f[t \ {Max(t)}], Max(t)>>]

Follows(f, n, S, b, g) ==
  /\ n \in Nat /\ b \in S /\ g \in [S \X (1 .. n) -> S]
  /\ f[{}] = b
  /\ \A t \in SUBSET (1 .. n) :
       t # {} /\ f[t \ {Max(t)}] \in S => f[t] = g[<<f[t \ {Max(t)}], Max(t)>>]

Steps(h, f, n, S, b, g) ==
  /\ h \in [0 .. n -> S]
  /\ h[0] = b
  /\ \A i \in 1 .. n : h[i] = g[<<h[i - 1], i>>]
  /\ f[1 .. n] = h[n]

(* Recursion over the sets of indices has a solution. *)
LEMMA FoldExists ==
  ASSUME NEW n \in Nat, NEW S, NEW b \in S, NEW g \in [S \X (1 .. n) -> S]
  PROVE  \E f \in [SUBSET (1 .. n) -> S] : Solves(f, n, b, g)
<1> DEFINE T == {k \in 0 .. n : \E f \in [SUBSET (1 .. k) -> S] : Solves(f, k, b, g)}
<1>1. 0 \in T
  <2> DEFINE f == [t \in SUBSET (1 .. 0) |-> b]
  <2>1. 1 .. 0 = {} /\ 0 \in 0 .. n
    OBVIOUS
  <2>2. f \in [SUBSET (1 .. 0) -> S] /\ Solves(f, 0, b, g)
    BY <2>1 DEF Solves
  <2> QED BY <2>1, <2>2
<1>2. ASSUME NEW k \in 1 .. n, k - 1 \in T PROVE k \in T
  <2>1. PICK f \in [SUBSET (1 .. (k - 1)) -> S] : Solves(f, k - 1, b, g)
    BY <1>2
  <2> DEFINE h == [t \in SUBSET (1 .. k) |->
                     IF k \in t THEN g[<<f[t \ {k}], k>>] ELSE f[t]]
  <2>2. \A t \in SUBSET (1 .. k) : /\ k \in t => t \ {k} \in SUBSET (1 .. (k - 1))
                                   /\ k \notin t => t \in SUBSET (1 .. (k - 1))
    OBVIOUS
  <2>3. h \in [SUBSET (1 .. k) -> S]
    BY <2>2
  <2>4. h[{}] = b
    <3>1. {} \in SUBSET (1 .. k) /\ k \notin {}
      OBVIOUS
    <3>2. h[{}] = f[{}]
      BY <3>1
    <3> HIDE DEF h
    <3> QED BY <3>2, <2>1 DEF Solves
  <2>5. ASSUME NEW t \in SUBSET (1 .. k), t # {}
        PROVE  h[t] = g[<<h[t \ {Max(t)}], Max(t)>>]
    <3>1. CASE k \in t
      <4>1. Max(t) = k
        <5>1. k \in Nat /\ t # {}
          BY <3>1
        <5>2. PICK m : m = Max(t)
          OBVIOUS
        <5>3. Max(t) \in t /\ \A y \in t : Max(t) >= y
          BY <5>1, MaxInSet
        <5>4. m \in t /\ m >= k
          BY <5>2, <5>3, <3>1
        <5>5. m \in 1 .. k
          BY <5>4
        <5> QED BY <5>2, <5>4, <5>5
      <4>2. h[t] = g[<<f[t \ {k}], k>>] /\ h[t \ {k}] = f[t \ {k}]
        BY <3>1, <2>2
      <4> QED BY <4>1, <4>2, <3>1
    <3>2. CASE k \notin t
      <4>1. t \in SUBSET (1 .. (k - 1)) /\ h[t] = f[t]
        BY <3>2, <2>2
      <4>2. f[t] = g[<<f[t \ {Max(t)}], Max(t)>>]
        BY <4>1, <2>1, <2>5 DEF Solves
      <4>3. t \ {Max(t)} \in SUBSET (1 .. k) /\ k \notin t \ {Max(t)}
        BY <3>2
      <4>4. h[t \ {Max(t)}] = f[t \ {Max(t)}]
        BY <4>3
      <4> QED BY <4>1, <4>2, <4>4
    <3> QED BY <3>1, <3>2
  <2>6. Solves(h, k, b, g)
    <3> HIDE DEF h
    <3> QED BY <2>4, <2>5 DEF Solves
  <2>7. k \in 0 .. n
    OBVIOUS
  <2> HIDE DEF h
  <2> QED BY <2>3, <2>6, <2>7
<1>3. n \in T
  <2> HIDE DEF T
  <2>1. Inductive(n, T)
    BY <1>1, <1>2 DEF Inductive
  <2> QED BY <2>1, InductionUpTo
<1> QED BY <1>3

(* A solution of the recursion, step by step. *)
LEMMA FoldSteps ==
  ASSUME NEW n, NEW S, NEW b, NEW g, NEW f, Follows(f, n, S, b, g)
  PROVE  \E h : Steps(h, f, n, S, b, g)
<1>0. n \in Nat /\ b \in S /\ g \in [S \X (1 .. n) -> S]
  BY DEF Follows
<1> DEFINE h == [k \in 0 .. n |-> f[1 .. k]]
           T == {k \in 0 .. n : h[k] \in S}
<1>1. h[0] = b
  <2>1. 1 .. 0 = {} /\ 0 \in 0 .. n
    BY <1>0
  <2> QED BY <2>1 DEF Follows
<1>2. ASSUME NEW k \in 1 .. n, h[k - 1] \in S PROVE h[k] = g[<<h[k - 1], k>>]
  <2>1. /\ 1 .. k # {} /\ Max(1 .. k) = k /\ (1 .. k) \ {Max(1 .. k)} = 1 .. (k - 1)
    <3>1. k \in Nat \ {0}
      BY <1>0
    <3> QED BY <3>1, MaxOfInterval, Zenon
  <2>2. 1 .. k \in SUBSET (1 .. n) /\ k - 1 \in 0 .. n /\ k \in 0 .. n
    BY <1>0
  <2>3. h[k - 1] = f[1 .. (k - 1)] /\ h[k] = f[1 .. k]
    BY <2>2, <1>0
  <2>4. f[1 .. (k - 1)] \in S
    BY <1>2, <2>3
  <2> HIDE DEF h
  <2>5. f[1 .. k] = g[<<f[1 .. (k - 1)], k>>]
    BY <2>1, <2>2, <2>4 DEF Follows
  <2> QED BY <2>3, <2>5
<1>3. 0 .. n \subseteq T
  <2>1. 0 \in T
    BY <1>1, <1>0
  <2>2. ASSUME NEW k \in 1 .. n, k - 1 \in T PROVE k \in T
    <3>1. h[k - 1] \in S /\ k \in 0 .. n
      BY <2>2, <1>0
    <3>2. h[k] = g[<<h[k - 1], k>>]
      BY <3>1, <1>2
    <3> HIDE DEF h
    <3> QED BY <3>1, <3>2, <1>0
  <2> HIDE DEF T
  <2>3. Inductive(n, T)
    BY <1>0, <2>1, <2>2 DEF Inductive
  <2> QED BY <2>3, InductionUpTo
<1>4. h \in [0 .. n -> S]
  BY <1>3
<1>5. f[1 .. n] = h[n]
  BY <1>0
<1>6. Steps(h, f, n, S, b, g)
  <2>1. \A i \in 1 .. n : i - 1 \in 0 .. n
    BY <1>0
  <2>2. \A i \in 1 .. n : h[i - 1] \in S
    BY <2>1, <1>4
  <2> HIDE DEF h
  <2> QED BY <1>1, <1>2, <1>4, <1>5, <2>2 DEF Steps
<1> HIDE DEF h
<1> QED BY <1>6

-----------------------------------------------------------------------------
(* Sums. *)
AnyOf(t) == CHOOSE x \in t : TRUE

(* F solves the recursion. *)
Sums(F, n, g) ==
  /\ F \in [SUBSET (1 .. n) -> Int]
  /\ F[{}] = 0
  /\ \A t \in SUBSET (1 .. n) : t # {} => F[t] = g[AnyOf(t)] + F[t \ {AnyOf(t)}]

(* Sets of indices are finite, and have one less without a member. *)
LEMMA IndexSets ==
  ASSUME NEW n \in Nat, NEW t \in SUBSET (1 .. n)
  PROVE  /\ IsFiniteSet(t) /\ Cardinality(t) \in Nat /\ Cardinality(t) <= n
         /\ Cardinality(t) = 0 <=> t = {}
         /\ \A x \in t : Cardinality(t \ {x}) = Cardinality(t) - 1
         /\ t # {} => AnyOf(t) \in t
<1>1. IsFiniteSet(1 .. n) /\ Cardinality(1 .. n) = n
  BY FS_Interval
<1>2. IsFiniteSet(t) /\ Cardinality(t) <= n
  BY <1>1, FS_Subset
<1>3. Cardinality(t) \in Nat /\ (Cardinality(t) = 0 <=> t = {})
  BY <1>2, FS_CardinalityType, FS_EmptySet
<1>4. \A x \in t : Cardinality(t \ {x}) = Cardinality(t) - 1
  BY <1>2, FS_RemoveElement
<1>5. t # {} => AnyOf(t) \in t
  BY DEF AnyOf
<1> QED BY <1>2, <1>3, <1>4, <1>5

(* The same for all sets of indices at once. *)
LEMMA AllIndexSets ==
  ASSUME NEW n \in Nat
  PROVE  \A t \in SUBSET (1 .. n) :
           /\ IsFiniteSet(t) /\ Cardinality(t) \in Nat /\ Cardinality(t) <= n
           /\ Cardinality(t) = 0 <=> t = {}
           /\ \A x \in t : Cardinality(t \ {x}) = Cardinality(t) - 1 /\ t \ {x} \in SUBSET (1 .. n)
           /\ t # {} => AnyOf(t) \in t
BY IndexSets

SmallSets(n, k) == {t \in SUBSET (1 .. n) : Cardinality(t) <= k}

(* F solves the recursion for sets of up to k indices. *)
SumsUpTo(F, n, g, k) ==
  /\ F \in [SmallSets(n, k) -> Int]
  /\ F[{}] = 0
  /\ \A t \in SmallSets(n, k) : t # {} => F[t] = g[AnyOf(t)] + F[t \ {AnyOf(t)}]

(* One index more. *)
LEMMA SumsGrow ==
  ASSUME NEW n \in Nat, NEW g \in [1 .. n -> Int], NEW k \in 1 .. n, NEW F, SumsUpTo(F, n, g, k - 1)
  PROVE  \E G : SumsUpTo(G, n, g, k)
<1> DEFINE G == [t \in SmallSets(n, k) |-> IF t = {} THEN 0 ELSE g[AnyOf(t)] + F[t \ {AnyOf(t)}]]
<1>1. /\ F \in [SmallSets(n, k - 1) -> Int] /\ F[{}] = 0
      /\ \A t \in SmallSets(n, k - 1) : t # {} => F[t] = g[AnyOf(t)] + F[t \ {AnyOf(t)}]
  BY DEF SumsUpTo
<1>2. \A t \in SmallSets(n, k) : t # {} => AnyOf(t) \in 1 .. n /\ t \ {AnyOf(t)} \in SmallSets(n, k - 1)
  <2> SUFFICES ASSUME NEW t \in SUBSET (1 .. n), Cardinality(t) <= k, t # {}
               PROVE  AnyOf(t) \in 1 .. n /\ t \ {AnyOf(t)} \in SmallSets(n, k - 1)
    BY DEF SmallSets
  <2>1. AnyOf(t) \in t /\ Cardinality(t) \in Nat
    BY AllIndexSets
  <2>2. Cardinality(t \ {AnyOf(t)}) = Cardinality(t) - 1 /\ t \ {AnyOf(t)} \in SUBSET (1 .. n)
    BY <2>1, AllIndexSets
  <2>3. Cardinality(t \ {AnyOf(t)}) <= k - 1
    BY <2>1, <2>2
  <2>4. AnyOf(t) \in 1 .. n
    BY <2>1
  <2> QED BY <2>2, <2>3, <2>4 DEF SmallSets
<1>3. G \in [SmallSets(n, k) -> Int]
  <2>1. \A t \in SmallSets(n, k) : t # {} => g[AnyOf(t)] \in Int /\ F[t \ {AnyOf(t)}] \in Int
    BY <1>1, <1>2
  <2>2. \A t \in SmallSets(n, k) : G[t] \in Int
    <3> DEFINE p(t) == g[AnyOf(t)]
               q(t) == F[t \ {AnyOf(t)}]
    <3>1. \A t \in SmallSets(n, k) : G[t] = IF t = {} THEN 0 ELSE p(t) + q(t)
      OBVIOUS
    <3>2. \A t \in SmallSets(n, k) : t # {} => p(t) \in Int /\ q(t) \in Int
      BY <2>1
    <3> HIDE DEF G, p, q
    <3> QED BY <3>1, <3>2
  <2> QED BY <2>2, Zenon
<1>4. {} \in SmallSets(n, k) /\ G[{}] = 0
  <2>1. {} \in SUBSET (1 .. n) /\ Cardinality({}) = 0 /\ 0 <= k
    BY AllIndexSets
  <2> QED BY <2>1 DEF SmallSets
<1>5. \A t \in SmallSets(n, k - 1) : t \in SmallSets(n, k) /\ G[t] = F[t]
  <2>1. \A t \in SmallSets(n, k - 1) : t \in SmallSets(n, k)
    <3>1. \A t \in SUBSET (1 .. n) : Cardinality(t) \in Nat
      BY AllIndexSets
    <3> QED BY <3>1 DEF SmallSets
  <2> QED BY <2>1, <1>1
<1>6. \A t \in SmallSets(n, k) : t # {} => G[t] = g[AnyOf(t)] + G[t \ {AnyOf(t)}]
  BY <1>2, <1>5
<1> HIDE DEF G
<1>7. SumsUpTo(G, n, g, k)
  BY <1>3, <1>4, <1>6 DEF SumsUpTo
<1> QED BY <1>7

(* The recursion has a solution. *)
LEMMA SumsExist ==
  ASSUME NEW n \in Nat, NEW g \in [1 .. n -> Int]
  PROVE  \E F : Sums(F, n, g)
<1> DEFINE T == {k \in 0 .. n : \E F : SumsUpTo(F, n, g, k)}
<1>0. \A t \in SUBSET (1 .. n) : Cardinality(t) \in Nat /\ Cardinality(t) <= n /\ (Cardinality(t) = 0 <=> t = {})
  BY AllIndexSets
<1>1. 0 \in T
  <2> DEFINE F == [t \in SmallSets(n, 0) |-> 0]
  <2>1. \A t \in SmallSets(n, 0) : t = {}
    BY <1>0 DEF SmallSets
  <2>2. {} \in SmallSets(n, 0)
    BY <1>0 DEF SmallSets
  <2>3. SumsUpTo(F, n, g, 0)
    BY <2>1, <2>2 DEF SumsUpTo
  <2> QED BY <2>3
<1>2. ASSUME NEW k \in 1 .. n, k - 1 \in T PROVE k \in T
  <2>1. \E F : SumsUpTo(F, n, g, k)
    BY <1>2, SumsGrow
  <2> QED BY <2>1
<1>3. n \in T
  <2> HIDE DEF T
  <2>1. Inductive(n, T)
    BY <1>1, <1>2 DEF Inductive
  <2> QED BY <2>1, InductionUpTo
<1>4. SmallSets(n, n) = SUBSET (1 .. n)
  BY <1>0 DEF SmallSets
<1> QED BY <1>3, <1>4 DEF Sums, SumsUpTo

(* The recursion over the subsets of S alone comes to the same. *)
LEMMA SumIs ==
  ASSUME NEW n \in Nat, NEW g \in [1 .. n -> Int], NEW F, Sums(F, n, g), NEW S \in SUBSET (1 .. n)
  PROVE  SumFunctionOnSet(g, S) = F[S]
<1> DEFINE E(f) == f = [s \in SUBSET S |-> IF s = {} THEN 0 ELSE g[AnyOf(s)] + f[s \ {AnyOf(s)}]]
           I == CHOOSE f : E(f)
<1>1. SumFunctionOnSet(g, S) = I[S]
  BY DEF SumFunctionOnSet, FoldFunctionOnSet, MapThenFoldSet, AnyOf
<1>2. \E f : E(f)
  <2> DEFINE f == [s \in SUBSET S |-> F[s]]
  <2>1. \A s \in SUBSET S : s \in SUBSET (1 .. n) /\ s \ {AnyOf(s)} \in SUBSET S
    OBVIOUS
  <2>2. E(f)
    BY <2>1 DEF Sums
  <2> QED BY <2>2
<1>3. E(I)
  BY <1>2, Zenon
<1> HIDE DEF I
<1>4. \A s \in SUBSET S : s # {} => I[s] = g[AnyOf(s)] + I[s \ {AnyOf(s)}]
  BY <1>3
<1>5. I[{}] = 0
  BY <1>3
<1> HIDE DEF E
<1> DEFINE T == {k \in 0 .. n : \A s \in SUBSET S : Cardinality(s) <= k => I[s] = F[s]}
<1>6. 0 \in T
  <2>1. ASSUME NEW s \in SUBSET S, Cardinality(s) <= 0 PROVE I[s] = F[s]
    <3>1. s \in SUBSET (1 .. n)
      OBVIOUS
    <3>2. s = {}
      BY <2>1, <3>1, AllIndexSets
    <3> QED BY <3>2, <1>5 DEF Sums
  <2>2. 0 \in 0 .. n
    OBVIOUS
  <2> QED BY <2>1, <2>2
<1>7. ASSUME NEW k \in 1 .. n, k - 1 \in T PROVE k \in T
  <2> SUFFICES ASSUME NEW s \in SUBSET S, Cardinality(s) <= k PROVE I[s] = F[s]
    BY <1>7
  <2>1. CASE s = {}
    BY <2>1, <1>5 DEF Sums
  <2>2. CASE s # {}
    <3>1. s \in SUBSET (1 .. n) /\ s \ {AnyOf(s)} \in SUBSET S
      OBVIOUS
    <3>2. Cardinality(s \ {AnyOf(s)}) = Cardinality(s) - 1 /\ Cardinality(s) \in Nat
      <4>1. AnyOf(s) \in s
        BY <3>1, <2>2, AllIndexSets
      <4> QED BY <4>1, <3>1, AllIndexSets
    <3>3. I[s \ {AnyOf(s)}] = F[s \ {AnyOf(s)}]
      <4>1. Cardinality(s \ {AnyOf(s)}) <= k - 1
        BY <3>2
      <4> QED BY <3>1, <4>1, <1>7
    <3>4. F[s] = g[AnyOf(s)] + F[s \ {AnyOf(s)}]
      BY <3>1, <2>2 DEF Sums
    <3> QED BY <3>3, <3>4, <1>4, <2>2
  <2> QED BY <2>1, <2>2
<1>8. n \in T
  <2> HIDE DEF T
  <2>1. Inductive(n, T)
    BY <1>6, <1>7 DEF Inductive
  <2> QED BY <2>1, InductionUpTo
<1>9. S \in SUBSET S /\ Cardinality(S) <= n
  BY AllIndexSets
<1> QED BY <1>1, <1>8, <1>9

(* Any member may come first. *)
LEMMA SumsAnyOrder ==
  ASSUME NEW n \in Nat, NEW g \in [1 .. n -> Int], NEW F, Sums(F, n, g),
         NEW t \in SUBSET (1 .. n), NEW x \in t
  PROVE  F[t] = F[t \ {x}] + g[x]
<1> DEFINE T == {k \in 0 .. n : \A s \in SUBSET (1 .. n) : Cardinality(s) <= k =>
                                  \A y \in s : F[s] = F[s \ {y}] + g[y]}
<1>0. \A s \in SUBSET (1 .. n) :
        /\ Cardinality(s) \in Nat /\ Cardinality(s) <= n /\ (Cardinality(s) = 0 <=> s = {})
        /\ \A u \in s : Cardinality(s \ {u}) = Cardinality(s) - 1 /\ s \ {u} \in SUBSET (1 .. n)
        /\ s # {} => AnyOf(s) \in s
  BY AllIndexSets
<1>1. 0 \in T
  BY <1>0
<1>2. ASSUME NEW k \in 1 .. n, k - 1 \in T PROVE k \in T
  <2> SUFFICES ASSUME NEW s \in SUBSET (1 .. n), Cardinality(s) <= k, NEW u \in s
               PROVE  F[s] = F[s \ {u}] + g[u]
    BY <1>2
  <2> DEFINE c == AnyOf(s)
  <2>1. c \in s /\ F[s] = g[c] + F[s \ {c}] /\ u \in 1 .. n /\ c \in 1 .. n
    <3>1. AnyOf(s) \in s
      BY <1>0
    <3>2. F[s] = g[AnyOf(s)] + F[s \ {AnyOf(s)}]
      BY DEF Sums
    <3> QED BY <3>1, <3>2
  <2> HIDE DEF c
  <2>2. \A y \in s : s \ {y} \in SUBSET (1 .. n) /\ Cardinality(s \ {y}) <= k - 1 /\ F[s \ {y}] \in Int
    <3>1. \A y \in s : s \ {y} \in SUBSET (1 .. n) /\ Cardinality(s \ {y}) <= k - 1
      <4> PICK m : m = Cardinality(s)
        OBVIOUS
      <4>1. m \in Nat /\ m <= k
        BY <1>0
      <4>2. \A y \in s : Cardinality(s \ {y}) = m - 1 /\ s \ {y} \in SUBSET (1 .. n)
        BY <1>0
      <4> QED BY <4>1, <4>2
    <3> QED BY <3>1 DEF Sums
  <2> HIDE <1>2
  <2>3. CASE c = u
    <3>1. F[s \ {c}] \in Int /\ g[c] \in Int
      BY <2>1, <2>2
    <3> QED BY <2>1, <2>3, <3>1
  <2>4. CASE c # u
    <3>1. F[s \ {c}] = F[(s \ {c}) \ {u}] + g[u]
      BY <2>1, <2>2, <2>4, <1>2
    <3>2. F[s \ {u}] = F[(s \ {u}) \ {c}] + g[c]
      BY <2>1, <2>2, <2>4, <1>2
    <3>3. (s \ {c}) \ {u} = (s \ {u}) \ {c}
      OBVIOUS
    <3>4. PICK e : e = (s \ {u}) \ {c}
      OBVIOUS
    <3>5. e \in SUBSET (1 .. n)
      BY <3>4
    <3>6. F[e] \in Int /\ g[c] \in Int /\ g[u] \in Int
      BY <3>5, <2>1 DEF Sums
    <3>7. PICK a, b, p, q, z : a = F[s \ {c}] /\ b = F[s \ {u}] /\ p = g[c] /\ q = g[u] /\ z = F[e]
      OBVIOUS
    <3>8. a = z + q /\ b = z + p /\ z \in Int /\ p \in Int /\ q \in Int
      BY <3>1, <3>2, <3>3, <3>4, <3>6, <3>7
    <3>9. F[s] = p + a
      BY <2>1, <3>7
    <3>10. p + a = b + q
      BY <3>8
    <3> QED BY <3>7, <3>9, <3>10
  <2> QED BY <2>3, <2>4
<1>3. n \in T
  <2> HIDE DEF T
  <2>1. Inductive(n, T)
    BY <1>1, <1>2 DEF Inductive
  <2> QED BY <2>1, InductionUpTo
<1>4. Cardinality(t) <= n
  BY <1>0
<1> QED BY <1>3, <1>4

(* A sum is an integer, and grows by what is added. *)
LEMMA SumFacts ==
  ASSUME NEW n \in Nat, NEW g \in [1 .. n -> Int]
  PROVE  /\ SumFunctionOnSet(g, {}) = 0
         /\ \A S \in SUBSET (1 .. n) : SumFunctionOnSet(g, S) \in Int
         /\ \A S \in SUBSET (1 .. n) : \A x \in S :
              SumFunctionOnSet(g, S) = SumFunctionOnSet(g, S \ {x}) + g[x]
<1>1. PICK F : Sums(F, n, g)
  BY SumsExist
<1>2. \A S \in SUBSET (1 .. n) : SumFunctionOnSet(g, S) = F[S]
  BY <1>1, SumIs
<1>3. {} \in SUBSET (1 .. n) /\ \A S \in SUBSET (1 .. n) : \A x : S \ {x} \in SUBSET (1 .. n)
  OBVIOUS
<1>4. ASSUME NEW t \in SUBSET (1 .. n), NEW x \in t PROVE F[t] = F[t \ {x}] + g[x]
  BY <1>1, SumsAnyOrder
<1>5. F[{}] = 0 /\ \A S \in SUBSET (1 .. n) : F[S] \in Int
  BY <1>1 DEF Sums
<1>6. ASSUME NEW S \in SUBSET (1 .. n), NEW x \in S
      PROVE  SumFunctionOnSet(g, S) = SumFunctionOnSet(g, S \ {x}) + g[x]
  <2>1. S \ {x} \in SUBSET (1 .. n)
    BY <1>3
  <2>2. F[S] = F[S \ {x}] + g[x]
    BY <1>4
  <2> QED BY <1>2, <2>1, <2>2
<1>7. SumFunctionOnSet(g, {}) = 0
  BY <1>2, <1>3, <1>5
<1>8. \A S \in SUBSET (1 .. n) : SumFunctionOnSet(g, S) \in Int
  BY <1>2, <1>5
<1> QED BY <1>6, <1>7, <1>8

(* A sum index by index. *)
SumGoes(h, g, n, S) ==
  /\ h \in [0 .. n -> Int]
  /\ h[0] = 0
  /\ \A i \in 1 .. n : h[i] = h[i - 1] + (IF i \in S THEN g[i] ELSE 0)
  /\ h[n] = SumFunctionOnSet(g, S)

LEMMA SumSteps ==
  ASSUME NEW n \in Nat, NEW g \in [1 .. n -> Int], NEW S \in SUBSET (1 .. n)
  PROVE  \E h : SumGoes(h, g, n, S)
<1> DEFINE h == [i \in 0 .. n |-> SumFunctionOnSet(g, S \cap 1 .. i)]
<1>1. \A i \in 0 .. n : S \cap 1 .. i \in SUBSET (1 .. n)
  OBVIOUS
<1>2. h \in [0 .. n -> Int]
  BY <1>1, SumFacts
<1>3. h[0] = 0
  <2>1. S \cap 1 .. 0 = {} /\ 0 \in 0 .. n
    OBVIOUS
  <2> QED BY <2>1, SumFacts
<1>4. ASSUME NEW i \in 1 .. n PROVE h[i] = h[i - 1] + (IF i \in S THEN g[i] ELSE 0)
  <2>0. i \in 0 .. n /\ i - 1 \in 0 .. n
    OBVIOUS
  <2>1. CASE i \in S
    <3>1. i \in S \cap 1 .. i /\ (S \cap 1 .. i) \ {i} = S \cap 1 .. (i - 1)
      BY <2>1
    <3> QED BY <2>0, <2>1, <3>1, <1>1, SumFacts
  <2>2. CASE i \notin S
    <3>1. S \cap 1 .. i = S \cap 1 .. (i - 1)
      BY <2>2
    <3>2. h[i - 1] \in Int
      BY <1>2, <2>0
    <3>3. h[i] = h[i - 1]
      BY <2>0, <3>1
    <3> HIDE DEF h
    <3> QED BY <2>2, <3>2, <3>3
  <2> QED BY <2>1, <2>2
<1>5. h[n] = SumFunctionOnSet(g, S)
  <2>1. S \cap 1 .. n = S
    OBVIOUS
  <2>2. n \in 0 .. n
    OBVIOUS
  <2>3. h[n] = SumFunctionOnSet(g, S \cap 1 .. n)
    BY <2>2
  <2> QED BY <2>1, <2>3
<1> HIDE DEF h
<1> QED BY <1>2, <1>3, <1>4, <1>5 DEF SumGoes

(* What the index i adds to the sum over S. *)
Part(g, S, i) == IF i \in S THEN g[i] ELSE 0

LEMMA SumCompare ==
  ASSUME NEW n \in Nat, NEW p \in [1 .. n -> Int], NEW q \in [1 .. n -> Int],
         NEW P \in SUBSET (1 .. n), NEW Q \in SUBSET (1 .. n),
         \A i \in 1 .. n : Part(p, P, i) <= Part(q, Q, i)
  PROVE  SumFunctionOnSet(p, P) <= SumFunctionOnSet(q, Q)
<1>1. PICK g : SumGoes(g, p, n, P)
  BY SumSteps
<1>2. PICK h : SumGoes(h, q, n, Q)
  BY SumSteps
<1>3. /\ g \in [0 .. n -> Int] /\ g[0] = 0 /\ g[n] = SumFunctionOnSet(p, P)
      /\ \A i \in 1 .. n : g[i] = g[i - 1] + Part(p, P, i)
      /\ h \in [0 .. n -> Int] /\ h[0] = 0 /\ h[n] = SumFunctionOnSet(q, Q)
      /\ \A i \in 1 .. n : h[i] = h[i - 1] + Part(q, Q, i)
  BY <1>1, <1>2 DEF SumGoes, Part
<1>4. \A i \in 1 .. n : Part(p, P, i) \in Int /\ Part(q, Q, i) \in Int
  BY DEF Part
<1> DEFINE T == {k \in 0 .. n : g[k] <= h[k]}
<1>5. 0 \in T
  BY <1>3
<1>6. ASSUME NEW k \in 1 .. n, k - 1 \in T PROVE k \in T
  <2>1. k \in 0 .. n /\ k - 1 \in 0 .. n /\ g[k - 1] <= h[k - 1]
    BY <1>6
  <2>2. g[k] <= h[k]
    BY <1>3, <1>4, <2>1
  <2> QED BY <2>1, <2>2
<1>7. n \in T
  <2> HIDE DEF T
  <2>1. Inductive(n, T)
    BY <1>5, <1>6 DEF Inductive
  <2> QED BY <2>1, InductionUpTo
<1> QED BY <1>7, <1>3

(* Equal parts, equal sums. *)
LEMMA SumSame ==
  ASSUME NEW n \in Nat, NEW p \in [1 .. n -> Int], NEW q \in [1 .. n -> Int],
         NEW P \in SUBSET (1 .. n), NEW Q \in SUBSET (1 .. n),
         \A i \in 1 .. n : Part(p, P, i) = Part(q, Q, i)
  PROVE  SumFunctionOnSet(p, P) = SumFunctionOnSet(q, Q)
<1>1. \A i \in 1 .. n : Part(p, P, i) \in Int /\ Part(q, Q, i) \in Int
  BY DEF Part
<1>2. \A i \in 1 .. n : Part(p, P, i) <= Part(q, Q, i) /\ Part(q, Q, i) <= Part(p, P, i)
  BY <1>1
<1>3. SumFunctionOnSet(p, P) <= SumFunctionOnSet(q, Q)
  BY <1>2, SumCompare
<1>4. SumFunctionOnSet(q, Q) <= SumFunctionOnSet(p, P)
  BY <1>2, SumCompare
<1>5. SumFunctionOnSet(p, P) \in Int /\ SumFunctionOnSet(q, Q) \in Int
  BY SumFacts
<1> QED BY <1>3, <1>4, <1>5

(* Sums add up. *)
IsSum(z, x, y) == z = x + y

AddUp(n, p, P, q, Q, r, R) == \A i \in 1 .. n : Part(r, R, i) = Part(p, P, i) + Part(q, Q, i)

LEMMA SumPlus ==
  ASSUME NEW n \in Nat, NEW p \in [1 .. n -> Int], NEW q \in [1 .. n -> Int], NEW r \in [1 .. n -> Int],
         NEW P \in SUBSET (1 .. n), NEW Q \in SUBSET (1 .. n), NEW R \in SUBSET (1 .. n),
         AddUp(n, p, P, q, Q, r, R)
  PROVE  IsSum(SumFunctionOnSet(r, R), SumFunctionOnSet(p, P), SumFunctionOnSet(q, Q))
<1>1. PICK f : SumGoes(f, p, n, P)
  BY SumSteps
<1>2. PICK g : SumGoes(g, q, n, Q)
  BY SumSteps
<1>3. PICK h : SumGoes(h, r, n, R)
  BY SumSteps
<1>4. /\ f \in [0 .. n -> Int] /\ f[0] = 0 /\ f[n] = SumFunctionOnSet(p, P)
      /\ \A i \in 1 .. n : f[i] = f[i - 1] + Part(p, P, i)
      /\ g \in [0 .. n -> Int] /\ g[0] = 0 /\ g[n] = SumFunctionOnSet(q, Q)
      /\ \A i \in 1 .. n : g[i] = g[i - 1] + Part(q, Q, i)
      /\ h \in [0 .. n -> Int] /\ h[0] = 0 /\ h[n] = SumFunctionOnSet(r, R)
      /\ \A i \in 1 .. n : h[i] = h[i - 1] + Part(r, R, i)
  BY <1>1, <1>2, <1>3 DEF SumGoes, Part
<1>0. \A i \in 1 .. n : Part(r, R, i) = Part(p, P, i) + Part(q, Q, i)
  BY DEF AddUp
<1>5. \A i \in 1 .. n : Part(p, P, i) \in Int /\ Part(q, Q, i) \in Int
  BY DEF Part
<1> DEFINE T == {k \in 0 .. n : h[k] = f[k] + g[k]}
<1>6. 0 \in T
  BY <1>4
<1>7. ASSUME NEW k \in 1 .. n, k - 1 \in T PROVE k \in T
  <2>1. k \in 0 .. n /\ k - 1 \in 0 .. n /\ h[k - 1] = f[k - 1] + g[k - 1]
    BY <1>7
  <2>2. h[k] = f[k] + g[k]
    BY <1>0, <1>4, <1>5, <2>1
  <2> QED BY <2>1, <2>2
<1>8. n \in T
  <2> HIDE DEF T
  <2>1. Inductive(n, T)
    BY <1>6, <1>7 DEF Inductive
  <2> QED BY <2>1, InductionUpTo
<1> QED BY <1>8, <1>4 DEF IsSum

(* A sum of multiples. *)
IsTimes(y, a, x) == y = a * x

Multiply(n, a, p, P, q, Q) == \A i \in 1 .. n : Part(q, Q, i) = a * Part(p, P, i)

LEMMA SumTimes ==
  ASSUME NEW n \in Nat, NEW p \in [1 .. n -> Int], NEW q \in [1 .. n -> Int], NEW a \in Int,
         NEW P \in SUBSET (1 .. n), NEW Q \in SUBSET (1 .. n),
         Multiply(n, a, p, P, q, Q)
  PROVE  IsTimes(SumFunctionOnSet(q, Q), a, SumFunctionOnSet(p, P))
<1>1. PICK g : SumGoes(g, p, n, P)
  BY SumSteps
<1>2. PICK h : SumGoes(h, q, n, Q)
  BY SumSteps
<1>3. /\ g \in [0 .. n -> Int] /\ g[0] = 0 /\ g[n] = SumFunctionOnSet(p, P)
      /\ \A i \in 1 .. n : g[i] = g[i - 1] + Part(p, P, i)
      /\ h \in [0 .. n -> Int] /\ h[0] = 0 /\ h[n] = SumFunctionOnSet(q, Q)
      /\ \A i \in 1 .. n : h[i] = h[i - 1] + Part(q, Q, i)
  BY <1>1, <1>2 DEF SumGoes, Part
<1>0. \A i \in 1 .. n : Part(q, Q, i) = a * Part(p, P, i)
  BY DEF Multiply
<1>4. \A i \in 1 .. n : Part(p, P, i) \in Int
  BY DEF Part
<1> DEFINE T == {k \in 0 .. n : h[k] = a * g[k]}
<1>5. 0 \in T
  BY <1>3
<1>6. ASSUME NEW k \in 1 .. n, k - 1 \in T PROVE k \in T
  <2>1. k \in 0 .. n /\ k - 1 \in 0 .. n /\ h[k - 1] = a * g[k - 1]
    BY <1>6
  <2>2. PICK x, y : x = g[k - 1] /\ y = Part(p, P, k)
    OBVIOUS
  <2>3. x \in Int /\ y \in Int /\ g[k] = x + y /\ h[k] = a * x + a * y
    BY <1>0, <1>3, <1>4, <2>1, <2>2
  <2>4. h[k] = a * g[k]
    BY <2>3
  <2> QED BY <2>1, <2>4
<1>7. n \in T
  <2> HIDE DEF T
  <2>1. Inductive(n, T)
    BY <1>5, <1>6 DEF Inductive
  <2> QED BY <2>1, InductionUpTo
<1> QED BY <1>7, <1>3 DEF IsTimes

-----------------------------------------------------------------------------
(* Constraints. *)
(* A constraint has a constant and terms. *)
LEMMA ConstraintShape ==
  ASSUME NEW c \in Constraint
  PROVE  /\ c \in Bare \cup Marked
         /\ c.k \in Nat \ {0} /\ c.lhs \in Seq(Term) /\ Len(c.lhs) \in Nat \ {0}
         /\ DOMAIN c.lhs = 1 .. Len(c.lhs)
         /\ \A i \in 1 .. Len(c.lhs) : c.lhs[i] \in Term
<1>1. c \in Bare \cup Marked /\ c.lhs # <<>>
  BY DEF Constraint
<1>2. c.k \in Nat \ {0} /\ c.lhs \in Seq(Term)
  BY <1>1 DEF Bare, Marked
<1> QED BY <1>1, <1>2

(* Weigh, term by term. *)
WeighGoes(h, lhs, lits) ==
  /\ h \in [0 .. Len(lhs) -> Nat]
  /\ h[0] = 0
  /\ \A i \in 1 .. Len(lhs) :
       h[i] = IF lhs[i].lit \in lits THEN h[i - 1] + lhs[i].coef ELSE h[i - 1]

(* Such a sequence of partial sums exists. *)
LEMMA WeighSteps ==
  ASSUME NEW c, c.lhs \in Seq(Term), NEW lits
  PROVE  \E h :
           WeighGoes(h, c.lhs, lits) /\ Weigh(c, lits) = h[Len(c.lhs)]
<1> DEFINE n == Len(c.lhs)
           next(m, i) == IF c.lhs[i].lit \in lits THEN m + c.lhs[i].coef ELSE m
           g == [p \in Nat \X (1 .. n) |-> next(p[1], p[2])]
           E(f) == f = [t \in SUBSET (1 .. n) |->
                          IF t = {} THEN 0 ELSE next(f[t \ {Max(t)}], Max(t))]
           F == CHOOSE f : E(f)
<1>1. n \in Nat /\ 0 \in Nat /\ DOMAIN c.lhs = 1 .. n /\ \A i \in 1 .. n : c.lhs[i] \in Term
  OBVIOUS
<1>2. g \in [Nat \X (1 .. n) -> Nat]
  BY <1>1 DEF Term
<1>3. \A t \in SUBSET (1 .. n), m \in Nat : t # {} => g[<<m, Max(t)>>] = next(m, Max(t))
  BY <1>1, MaxInSet
<1>4. Weigh(c, lits) = F[1 .. n]
  BY <1>1, Zenon DEF Weigh, FoldLeft, MapThenFoldSet
<1> HIDE DEF next, g
<1>5. \E f : E(f)
  <2>1. PICK f \in [SUBSET (1 .. n) -> Nat] : Solves(f, n, 0, g)
    BY <1>1, <1>2, FoldExists
  <2>2. E(f)
    BY <2>1, <1>3 DEF Solves
  <2> QED BY <2>2
<1>6. E(F)
  BY <1>5, Zenon
<1> HIDE DEF F
<1>7. Follows(F, n, Nat, 0, g)
  BY <1>1, <1>2, <1>6, <1>3 DEF Follows
<1>8. PICK h : Steps(h, F, n, Nat, 0, g)
  BY <1>7, FoldSteps
<1>9. h \in [0 .. n -> Nat] /\ \A i \in 1 .. n : h[i - 1] \in Nat
  BY <1>8 DEF Steps
<1>10. WeighGoes(h, c.lhs, lits)
  BY <1>8, <1>9 DEF g, next, WeighGoes, Steps
<1>11. F[1 .. n] = h[n]
  BY <1>8 DEF Steps
<1> QED BY <1>4, <1>10, <1>11

(* What a sequence of terms consists of. *)
LEMMA TermFacts ==
  ASSUME NEW lhs \in Seq(Term)
  PROVE  /\ Len(lhs) \in Nat /\ DOMAIN lhs = 1 .. Len(lhs)
         /\ \A i \in 1 .. Len(lhs) : lhs[i].coef \in Nat \ {0} /\ lhs[i].lit \in Lits
<1>1. \A i \in 1 .. Len(lhs) : lhs[i] \in Term
  OBVIOUS
<1> QED BY <1>1 DEF Term

(* Weights are natural numbers. *)
LEMMA WeighType ==
  ASSUME NEW c, c.lhs \in Seq(Term), NEW lits
  PROVE  Weigh(c, lits) \in Nat
<1>1. PICK h : WeighGoes(h, c.lhs, lits) /\ Weigh(c, lits) = h[Len(c.lhs)]
  BY WeighSteps
<1> QED BY <1>1 DEF WeighGoes

(* More literals weigh no less. *)
LEMMA WeighMono ==
  ASSUME NEW c, c.lhs \in Seq(Term), NEW A, NEW B,
         \A i \in 1 .. Len(c.lhs) : c.lhs[i].lit \in A => c.lhs[i].lit \in B
  PROVE  Weigh(c, A) <= Weigh(c, B)
<1> DEFINE n == Len(c.lhs)
<1>1. n \in Nat /\ \A i \in 1 .. n : c.lhs[i].coef \in Nat
  BY TermFacts
<1>2. PICK g : WeighGoes(g, c.lhs, A) /\ Weigh(c, A) = g[n]
  BY WeighSteps
<1>3. PICK h : WeighGoes(h, c.lhs, B) /\ Weigh(c, B) = h[n]
  BY WeighSteps
<1> DEFINE T == {k \in 0 .. n : g[k] <= h[k]}
<1>4. 0 \in T
  BY <1>1, <1>2, <1>3 DEF WeighGoes
<1>5. ASSUME NEW k \in 1 .. n, k - 1 \in T PROVE k \in T
  <2>1. g[k - 1] \in Nat /\ h[k - 1] \in Nat /\ g[k - 1] <= h[k - 1]
    BY <1>1, <1>2, <1>3, <1>5 DEF WeighGoes
  <2> QED BY <2>1, <1>1, <1>2, <1>3 DEF WeighGoes
<1>6. n \in T
  <2> HIDE DEF T, n
  <2>1. Inductive(n, T)
    BY <1>1, <1>4, <1>5 DEF Inductive
  <2> QED BY <2>1, InductionUpTo
<1> QED BY <1>2, <1>3, <1>6

(* The weight depends on the literals of the constraint only. *)
LEMMA WeighSame ==
  ASSUME NEW c, c.lhs \in Seq(Term), NEW A, NEW B,
         \A i \in 1 .. Len(c.lhs) : c.lhs[i].lit \in A <=> c.lhs[i].lit \in B
  PROVE  Weigh(c, A) = Weigh(c, B)
<1>1. Weigh(c, A) <= Weigh(c, B) /\ Weigh(c, B) <= Weigh(c, A)
  BY WeighMono
<1> QED BY <1>1, WeighType

(* Without a literal it had, a set weighs less by the literal's coefficient. *)
LEMMA WeighWithout ==
  ASSUME NEW c \in Constraint, NEW A, NEW j \in 1 .. Len(c.lhs), c.lhs[j].lit \in A
  PROVE  Weigh(c, A \ {c.lhs[j].lit}) = Weigh(c, A) - c.lhs[j].coef
<1> DEFINE n == Len(c.lhs)
           B == A \ {c.lhs[j].lit}
<1>1. /\ n \in Nat /\ DOMAIN c.lhs = 1 .. n /\ c.lhs \in Seq(Term)
      /\ \A i \in 1 .. n : c.lhs[i].coef \in Nat
  <2>1. c.lhs \in Seq(Term)
    BY ConstraintShape
  <2> QED BY <2>1, TermFacts
<1>2. PICK g : WeighGoes(g, c.lhs, A) /\ Weigh(c, A) = g[n]
  BY <1>1, WeighSteps
<1>3. PICK h : WeighGoes(h, c.lhs, B) /\ Weigh(c, B) = h[n]
  BY <1>1, WeighSteps
<1>4. \A i \in 1 .. n : c.lhs[i].lit \in B <=> c.lhs[i].lit \in A /\ i # j
  BY <1>1 DEF Constraint
<1> DEFINE T == {k \in 0 .. n : h[k] = g[k] - (IF k >= j THEN c.lhs[j].coef ELSE 0)}
<1>5. 0 \in T
  BY <1>1, <1>2, <1>3 DEF WeighGoes
<1>6. ASSUME NEW k \in 1 .. n, k - 1 \in T PROVE k \in T
  <2>1. /\ g[k - 1] \in Nat /\ h[k - 1] \in Nat
        /\ h[k - 1] = g[k - 1] - (IF k - 1 >= j THEN c.lhs[j].coef ELSE 0)
    BY <1>1, <1>2, <1>3, <1>6 DEF WeighGoes
  <2>2. g[k] = IF c.lhs[k].lit \in A THEN g[k - 1] + c.lhs[k].coef ELSE g[k - 1]
    BY <1>2 DEF WeighGoes
  <2>3. h[k] = IF c.lhs[k].lit \in B THEN h[k - 1] + c.lhs[k].coef ELSE h[k - 1]
    BY <1>3 DEF WeighGoes
  <2>4. CASE k = j
    <3> HIDE DEF B
    <3> QED BY <2>1, <2>2, <2>3, <2>4, <1>1, <1>4
  <2>5. CASE k # j
    <3>1. k - 1 >= j <=> k >= j
      BY <2>5, <1>1
    <3> HIDE DEF B
    <3> QED BY <2>1, <2>2, <2>3, <2>5, <3>1, <1>1, <1>4
  <2> QED BY <2>4, <2>5
<1>7. n \in T
  <2> HIDE DEF T, n
  <2>1. Inductive(n, T)
    BY <1>1, <1>5, <1>6 DEF Inductive
  <2> QED BY <2>1, InductionUpTo
<1> QED BY <1>2, <1>3, <1>7, <1>1

(* The coefficient of a literal is that of its only term. *)
LEMMA CoefOfTerm ==
  ASSUME NEW c \in Constraint, NEW j \in 1 .. Len(c.lhs)
  PROVE  /\ Coef(c, c.lhs[j].lit) = c.lhs[j].coef
         /\ c.lhs[j].lit \in LitsOf(c)
<1>1. DOMAIN c.lhs = 1 .. Len(c.lhs)
  BY ConstraintShape
<1>2. \A i \in DOMAIN c.lhs : c.lhs[i].lit = c.lhs[j].lit => i = j
  BY <1>1 DEF Constraint
<1>3. (CHOOSE i \in DOMAIN c.lhs : c.lhs[i].lit = c.lhs[j].lit) = j
  BY <1>1, <1>2
<1> QED BY <1>1, <1>3 DEF Coef, LitsOf

(* Coef finds a term of the literal. *)
LEMMA TermOfLit ==
  ASSUME NEW c \in Constraint, NEW lit \in LitsOf(c)
  PROVE  \E j \in 1 .. Len(c.lhs) : c.lhs[j].lit = lit /\ c.lhs[j].coef = Coef(c, lit)
<1>1. PICK j \in 1 .. Len(c.lhs) : c.lhs[j].lit = lit
  BY ConstraintShape DEF LitsOf
<1> QED BY <1>1, CoefOfTerm

(* What a constraint in normal form consists of. *)
LEMMA ConstraintFacts ==
  ASSUME NEW c \in Constraint
  PROVE  /\ c.k \in Nat \ {0} /\ c.lhs \in Seq(Term) /\ Len(c.lhs) \in Nat \ {0}
         /\ DOMAIN c.lhs = 1 .. Len(c.lhs)
         /\ \A i \in 1 .. Len(c.lhs) : c.lhs[i].coef \in Nat \ {0} /\ c.lhs[i].lit \in Lits
         /\ MaxCoef(c) \in Nat \ {0}
         /\ LitsOf(c) \subseteq Lits
         /\ \A lits : Weigh(c, lits) \in Nat
         /\ \A lit \in LitsOf(c) : Coef(c, lit) \in Nat \ {0}
<1>1. /\ c.k \in Nat \ {0} /\ c.lhs \in Seq(Term) /\ Len(c.lhs) \in Nat \ {0}
      /\ DOMAIN c.lhs = 1 .. Len(c.lhs)
  BY ConstraintShape
<1>2. \A i \in 1 .. Len(c.lhs) : c.lhs[i].coef \in Nat \ {0} /\ c.lhs[i].lit \in Lits
  BY <1>1, TermFacts
<1>3. MaxCoef(c) \in Nat \ {0} /\ LitsOf(c) \subseteq Lits
  BY <1>1, <1>2 DEF MaxCoef, LitsOf
<1>4. \A lits : Weigh(c, lits) \in Nat
  BY <1>1, WeighType
<1>5. \A lit \in LitsOf(c) : Coef(c, lit) \in Nat \ {0}
  BY <1>2, TermOfLit
<1> QED BY <1>1, <1>2, <1>3, <1>4, <1>5
-----------------------------------------------------------------------------
(***************************************************************************)
(* Simplification keeps the solutions.                                     *)
(***************************************************************************)
LEMMA Quotient ==
  ASSUME NEW m \in Nat, NEW g \in Nat \ {0}
  PROVE  m \div g \in Nat /\ g * (m \div g) <= m /\ m < g * (m \div g) + g
OBVIOUS

(* Division by a divisor is exact. *)
LEMMA ExactQuotient ==
  ASSUME NEW m \in Nat, NEW g \in Nat \ {0}, m % g = 0
  PROVE  g * (m \div g) = m
OBVIOUS

(* Factors compare as their products do. *)
LEMMA ProductOrder ==
  ASSUME NEW a \in Nat, NEW b \in Nat, NEW g \in Nat \ {0}, g * a < g * b + g
  PROVE  a <= b
<1> SUFFICES ASSUME a >= b + 1 PROVE FALSE
  OBVIOUS
<1>1. g * (a - (b + 1)) >= 0
  OBVIOUS
<1>2. g * (a - (b + 1)) = g * a - g * b - g
  OBVIOUS
<1> QED BY <1>1, <1>2

(* divisionRoundedUp *)
LEMMA RoundedUp ==
  ASSUME NEW m \in Nat \ {0}, NEW g \in Nat \ {0}
  PROVE  /\ DivisionRoundedUp(m, g) \in Nat \ {0}
         /\ g * DivisionRoundedUp(m, g) >= m
         /\ g * DivisionRoundedUp(m, g) < m + g
         /\ m % g = 0 => g * DivisionRoundedUp(m, g) = m
<1> DEFINE q == (m + g - 1) \div g
<1>1. q \in Nat /\ g * q <= m + g - 1 /\ m + g - 1 < g * q + g
  <2>1. m + g - 1 \in Nat
    OBVIOUS
  <2> HIDE DEF q
  <2> QED BY <2>1, Quotient DEF q
<1> HIDE DEF q
<1>2. g * q \in Nat /\ g * q >= m /\ g * q < m + g
  BY <1>1
<1>3. q # 0
  <2> SUFFICES ASSUME q = 0 PROVE FALSE
    OBVIOUS
  <2>1. g * q = 0
    OBVIOUS
  <2> QED BY <2>1, <1>2
<1>4. ASSUME m % g = 0 PROVE g * q = m
  <2>1. m \div g \in Nat /\ g * (m \div g) = m
    BY <1>4, ExactQuotient, Quotient
  <2>2. g * q < g * (m \div g) + g
    BY <2>1, <1>2
  <2>3. q <= m \div g
    BY <2>1, <2>2, <1>1, ProductOrder
  <2>4. g * (m \div g) < g * q + g
    BY <2>1, <1>2
  <2>5. m \div g <= q
    BY <2>1, <2>4, <1>1, ProductOrder
  <2>6. q = m \div g
    BY <2>1, <2>3, <2>5, <1>1
  <2> QED BY <2>1, <2>6
<1> QED BY <1>1, <1>2, <1>3, <1>4 DEF DivisionRoundedUp, q

(* A constraint with another constant and other terms. *)
Renewed(d, c, k, L) == d = [c EXCEPT !.k = k, !.lhs = L]

LEMMA Replaced ==
  ASSUME NEW c \in Bare \cup Marked, NEW k, NEW L, NEW d, Renewed(d, c, k, L)
  PROVE  /\ d.k = k /\ d.lhs = L
         /\ k \in Nat \ {0} /\ L \in Seq(Term) => d \in Bare \cup Marked
<1>1. CASE c \in Bare
  BY <1>1 DEF Bare, Renewed
<1>2. CASE c \in Marked
  BY <1>2 DEF Marked, Renewed
<1> QED BY <1>1, <1>2

(* Simplify cuts at the constant and divides by some number that divides every
   coefficient below it. *)
LEMMA SimplifyForm ==
  ASSUME NEW c \in Constraint
  PROVE  \E g \in Nat \ {0} :
           /\ \A i \in 1 .. Len(c.lhs) : c.lhs[i].coef < c.k => c.lhs[i].coef % g = 0
           /\ Renewed(Simplify(c), c, DivisionRoundedUp(c.k, g),
                       [i \in 1 .. Len(c.lhs) |->
                          [coef |-> DivisionRoundedUp(IF c.lhs[i].coef > c.k THEN c.k ELSE c.lhs[i].coef, g),
                           lit |-> c.lhs[i].lit]])
<1> DEFINE divisors == {d \in 1 .. c.k : \A i \in DOMAIN c.lhs :
                                      c.lhs[i].coef < c.k => c.lhs[i].coef % d = 0}
           g == CHOOSE d \in divisors : \A e \in divisors : e <= d
<1>1. /\ c.k \in Nat \ {0} /\ DOMAIN c.lhs = 1 .. Len(c.lhs)
      /\ \A i \in 1 .. Len(c.lhs) : c.lhs[i].coef \in Nat \ {0}
  BY ConstraintFacts
<1>2. 1 \in divisors
  BY <1>1
<1>3. \E d \in divisors : \A e \in divisors : e <= d
  <2>1. divisors \in SUBSET (1 .. c.k) /\ divisors # {} /\ c.k \in Nat
    BY <1>1, <1>2
  <2> HIDE DEF divisors
  <2>2. Max(divisors) \in divisors /\ \A e \in divisors : Max(divisors) >= e
    BY <2>1, MaxInSet
  <2>3. \A e \in divisors : e <= Max(divisors)
    BY <2>1, <2>2
  <2> QED BY <2>2, <2>3
<1>4. g \in divisors
  <2> HIDE DEF divisors
  <2> QED BY <1>3
<1>5. /\ g \in Nat \ {0}
      /\ \A i \in 1 .. Len(c.lhs) : c.lhs[i].coef < c.k => c.lhs[i].coef % g = 0
  <2> HIDE DEF g
  <2> QED BY <1>1, <1>4
<1> DEFINE quotient(n) == IF c.k < 0 THEN 1 ELSE DivisionRoundedUp(IF n > c.k THEN c.k ELSE n, g)
<1>6. Simplify(c) = [c EXCEPT !.k   = quotient(c.k),
               !.lhs = [i \in DOMAIN c.lhs |-> [c.lhs[i] EXCEPT !.coef = quotient(@)]]]
  BY Zenon DEF Simplify
<1> HIDE DEF g
<1>8. \A i \in 1 .. Len(c.lhs) : c.lhs[i] = [coef |-> c.lhs[i].coef, lit |-> c.lhs[i].lit]
  <2>1. \A i \in 1 .. Len(c.lhs) : c.lhs[i] \in Term
    BY ConstraintShape
  <2> QED BY <2>1 DEF Term
<1>9. \A n \in Nat : quotient(n) = DivisionRoundedUp(IF n > c.k THEN c.k ELSE n, g)
  BY <1>1
<1>10. quotient(c.k) = DivisionRoundedUp(c.k, g)
  BY <1>1
<1> HIDE DEF quotient
<1>11. \A i \in 1 .. Len(c.lhs) :
        [c.lhs[i] EXCEPT !.coef = quotient(@)] =
        [coef |-> DivisionRoundedUp(IF c.lhs[i].coef > c.k THEN c.k ELSE c.lhs[i].coef, g),
                                         lit |-> c.lhs[i].lit]
  <2> TAKE i \in 1 .. Len(c.lhs)
  <2>1. PICK a : a = c.lhs[i].coef
    OBVIOUS
  <2>2. PICK l : l = c.lhs[i].lit
    OBVIOUS
  <2>3. c.lhs[i] = [coef |-> a, lit |-> l]
    BY <1>8, <2>1, <2>2
  <2>4. [[coef |-> a, lit |-> l] EXCEPT !.coef = quotient(@)] = [coef |-> quotient(a), lit |-> l]
    OBVIOUS
  <2>5. quotient(a) = DivisionRoundedUp(IF a > c.k THEN c.k ELSE a, g)
    BY <1>9, <1>1, <2>1
  <2> QED BY <2>1, <2>2, <2>3, <2>4, <2>5
<1>12. Simplify(c) = [c EXCEPT !.k = DivisionRoundedUp(c.k, g),
                             !.lhs = [i \in 1 .. Len(c.lhs) |->
                                        [coef |-> DivisionRoundedUp(IF c.lhs[i].coef > c.k THEN c.k ELSE c.lhs[i].coef, g),
                                         lit |-> c.lhs[i].lit]]]
  <2> DEFINE L == [i \in DOMAIN c.lhs |-> [c.lhs[i] EXCEPT !.coef = quotient(@)]]
  <2>1. L = [i \in 1 .. Len(c.lhs) |->
                                        [coef |-> DivisionRoundedUp(IF c.lhs[i].coef > c.k THEN c.k ELSE c.lhs[i].coef, g),
                                         lit |-> c.lhs[i].lit]]
    BY <1>1, <1>11
  <2>2. Simplify(c) = [c EXCEPT !.k = quotient(c.k), !.lhs = L]
    BY <1>6
  <2> HIDE DEF L
  <2> QED BY <1>10, <2>1, <2>2
<1> QED BY <1>5, <1>12 DEF Renewed

(* A constraint in normal form stays one and keeps its models. *)
LEMMA SimplifySound ==
  ASSUME NEW c \in Constraint
  PROVE  /\ Simplify(c) \in Constraint
         /\ \A lits : Weigh(c, lits) >= c.k <=> Weigh(Simplify(c), lits) >= Simplify(c).k
<1> DEFINE n == Len(c.lhs)
           d == Simplify(c)
           cut(i) == IF c.lhs[i].coef > c.k THEN c.k ELSE c.lhs[i].coef
<1>1. /\ c.k \in Nat \ {0} /\ n \in Nat \ {0} /\ DOMAIN c.lhs = 1 .. n /\ c.lhs \in Seq(Term)
      /\ \A i \in 1 .. n : c.lhs[i].coef \in Nat \ {0} /\ c.lhs[i].lit \in Lits
  BY ConstraintFacts
<1>2. PICK g \in Nat \ {0} :
           /\ \A i \in 1 .. n : c.lhs[i].coef < c.k => c.lhs[i].coef % g = 0
           /\ Renewed(d, c, DivisionRoundedUp(c.k, g),
                       [i \in 1 .. n |-> [coef |-> DivisionRoundedUp(cut(i), g), lit |-> c.lhs[i].lit]])
  BY SimplifyForm, Zenon
<1>3. \A i \in 1 .. n : cut(i) \in Nat \ {0}
  BY <1>1
<1> HIDE DEF d
<1>4. /\ d.k = DivisionRoundedUp(c.k, g)
      /\ d.lhs = [i \in 1 .. n |-> [coef |-> DivisionRoundedUp(cut(i), g), lit |-> c.lhs[i].lit]]
  <2>1. c \in Bare \cup Marked
    BY DEF Constraint
  <2> DEFINE k == DivisionRoundedUp(c.k, g)
             L == [i \in 1 .. n |-> [coef |-> DivisionRoundedUp(cut(i), g), lit |-> c.lhs[i].lit]]
  <2>2. Renewed(d, c, k, L)
    BY <1>2
  <2> HIDE DEF k, L
  <2>3. d.k = k /\ d.lhs = L
    BY <2>1, <2>2, Replaced
  <2>4. d.lhs = L
    BY <2>3
  <2>5. d.k = k
    BY <2>3
  <2> QED BY <2>4, <2>5, Zenon DEF k, L
<1>5. /\ d.k \in Nat \ {0} /\ g * d.k >= c.k /\ g * d.k < c.k + g
  <2>1. c.k \in Nat \ {0}
    BY <1>1
  <2>2. /\ DivisionRoundedUp(c.k, g) \in Nat \ {0} /\ g * DivisionRoundedUp(c.k, g) >= c.k
        /\ g * DivisionRoundedUp(c.k, g) < c.k + g
    BY <2>1, RoundedUp
  <2> QED BY <2>2, <1>4
<1>6. \A i \in 1 .. n : /\ d.lhs[i].lit = c.lhs[i].lit
                        /\ d.lhs[i].coef = DivisionRoundedUp(cut(i), g)
                        /\ d.lhs[i].coef \in Nat \ {0}
                        /\ g * d.lhs[i].coef >= cut(i)
                        /\ cut(i) < c.k => g * d.lhs[i].coef = cut(i)
  <2> TAKE i \in 1 .. n
  <2>1. d.lhs[i].lit = c.lhs[i].lit /\ d.lhs[i].coef = DivisionRoundedUp(cut(i), g)
    BY <1>4
  <2>2. cut(i) < c.k => cut(i) % g = 0
    BY <1>1, <1>2
  <2>3. cut(i) \in Nat \ {0}
    BY <1>3
  <2> HIDE DEF cut
  <2> QED BY <2>1, <2>2, <2>3, RoundedUp
<1>7. d.lhs \in Seq(Term) /\ Len(d.lhs) = n /\ DOMAIN d.lhs = 1 .. n
  <2>1. \A i \in 1 .. n : [coef |-> DivisionRoundedUp(cut(i), g), lit |-> c.lhs[i].lit] \in Term
    BY <1>1, <1>4, <1>6 DEF Term
  <2> HIDE DEF cut
  <2>2. d.lhs \in [1 .. n -> Term]
    BY <1>4, <2>1
  <2> QED BY <2>2, <1>1
<1>8. d \in Constraint
  <2>1. d \in Bare \cup Marked
    <3>1. c \in Bare \cup Marked
      BY DEF Constraint
    <3>2. /\ DivisionRoundedUp(c.k, g) \in Nat \ {0}
          /\ [i \in 1 .. n |-> [coef |-> DivisionRoundedUp(cut(i), g), lit |-> c.lhs[i].lit]] \in Seq(Term)
      BY <1>4, <1>5, <1>7
    <3> HIDE DEF cut
    <3> QED BY <1>2, <3>1, <3>2, Replaced
  <2>2. d.lhs # <<>>
    BY <1>1, <1>7
  <2>3. \A i, j \in 1 .. n :
          i # j => c.lhs[i].lit # c.lhs[j].lit /\ c.lhs[i].lit # -c.lhs[j].lit
    BY <1>1 DEF Constraint
  <2>4. \A i, j \in DOMAIN d.lhs :
          i # j => d.lhs[i].lit # d.lhs[j].lit /\ d.lhs[i].lit # -d.lhs[j].lit
    <3> HIDE DEF cut
    <3> QED BY <2>3, <1>6, <1>7
  <2> HIDE DEF cut
  <2>5. \A i, j \in DOMAIN d.lhs : i <= j => d.lhs[i].coef >= d.lhs[j].coef
    <3> SUFFICES ASSUME NEW i \in 1 .. n, NEW j \in 1 .. n, i <= j
                 PROVE  d.lhs[j].coef <= d.lhs[i].coef
      BY <1>6, <1>7
    <3>1. c.lhs[i].coef >= c.lhs[j].coef
      BY <1>1 DEF Constraint
    <3>2. cut(j) <= cut(i) /\ cut(i) \in Nat \ {0} /\ cut(j) \in Nat \ {0}
      BY <3>1, <1>1, <1>3 DEF cut
    <3>3. /\ g * DivisionRoundedUp(cut(i), g) >= cut(i)
          /\ g * DivisionRoundedUp(cut(j), g) < cut(j) + g
          /\ DivisionRoundedUp(cut(i), g) \in Nat /\ DivisionRoundedUp(cut(j), g) \in Nat
      BY <3>2, RoundedUp
    <3>4. PICK x, y : x = DivisionRoundedUp(cut(j), g) /\ y = DivisionRoundedUp(cut(i), g)
      OBVIOUS
    <3>5. x \in Nat /\ y \in Nat /\ g * x < g * y + g
      <4>1. g * x \in Nat /\ g * y \in Nat
        BY <3>3, <3>4
      <4> QED BY <3>2, <3>3, <3>4, <4>1
    <3>6. x <= y
      BY <3>5, ProductOrder
    <3> QED BY <3>4, <3>6, <1>6
  <2> QED BY <2>1, <2>2, <2>4, <2>5 DEF Constraint
<1>9. ASSUME NEW lits PROVE Weigh(c, lits) >= c.k <=> Weigh(d, lits) >= d.k
  <2>1. PICK h : WeighGoes(h, c.lhs, lits) /\ Weigh(c, lits) = h[n]
    BY <1>1, WeighSteps
  <2>2. PICK e : WeighGoes(e, d.lhs, lits) /\ Weigh(d, lits) = e[n]
    BY <1>7, WeighSteps
  <2>3. /\ h \in [0 .. n -> Nat] /\ e \in [0 .. n -> Nat] /\ h[0] = 0 /\ e[0] = 0
        /\ \A i \in 1 .. n : h[i] = IF c.lhs[i].lit \in lits THEN h[i - 1] + c.lhs[i].coef ELSE h[i - 1]
        /\ \A i \in 1 .. n : e[i] = IF c.lhs[i].lit \in lits THEN e[i - 1] + d.lhs[i].coef ELSE e[i - 1]
    BY <2>1, <2>2, <1>6, <1>7 DEF WeighGoes
  <2> DEFINE T == {i \in 0 .. n : /\ g * e[i] >= h[i] \/ g * e[i] >= c.k
                                  /\ h[i] >= c.k \/ h[i] >= g * e[i]}
  <2>4. 0 \in T
    <3>1. g * 0 = 0
      OBVIOUS
    <3> QED BY <2>3, <3>1, <1>1
  <2>5. ASSUME NEW i \in 1 .. n, i - 1 \in T PROVE i \in T
    <3>1. PICK x, y, a, q : x = h[i - 1] /\ y = e[i - 1] /\ a = c.lhs[i].coef /\ q = d.lhs[i].coef
      OBVIOUS
    <3>2. /\ x \in Nat /\ y \in Nat /\ a \in Nat /\ q \in Nat /\ i \in 0 .. n
          /\ g * y >= x \/ g * y >= c.k
          /\ x >= c.k \/ x >= g * y
      <4>1. i - 1 \in 0 .. n /\ i \in 0 .. n
        BY <1>1
      <4>2. x \in Nat /\ y \in Nat
        BY <4>1, <3>1, <2>3
      <4>3. a \in Nat /\ q \in Nat
        BY <3>1, <1>1, <1>6
      <4>4. /\ g * e[i - 1] >= h[i - 1] \/ g * e[i - 1] >= c.k
            /\ h[i - 1] >= c.k \/ h[i - 1] >= g * e[i - 1]
        BY <2>5
      <4> QED BY <4>1, <4>2, <4>3, <4>4, <3>1
    <3>3. g * q >= a \/ g * q >= c.k
      BY <3>1, <1>6, <1>1
    <3>4. a >= c.k \/ g * q = a
      BY <3>1, <1>6, <1>1
    <3>5. g * (y + q) = g * y + g * q /\ g * y \in Nat /\ g * q \in Nat
      BY <3>2
    <3>6. CASE c.lhs[i].lit \in lits
      <4>1. h[i] = x + a /\ e[i] = y + q
        BY <3>1, <3>6, <2>3
      <4>2. PICK gy, gq : gy = g * y /\ gq = g * q
        OBVIOUS
      <4>3. gy \in Nat /\ gq \in Nat /\ g * (y + q) = gy + gq /\ c.k \in Nat
        BY <4>2, <3>5, <1>1
      <4>4. /\ gy >= x \/ gy >= c.k
            /\ x >= c.k \/ x >= gy
            /\ gq >= a \/ gq >= c.k
            /\ a >= c.k \/ gq = a
        BY <4>2, <3>2, <3>3, <3>4
      <4>5. /\ gy + gq >= x + a \/ gy + gq >= c.k
            /\ x + a >= c.k \/ x + a >= gy + gq
        BY <4>3, <4>4, <3>2
      <4>6. /\ g * e[i] >= h[i] \/ g * e[i] >= c.k
            /\ h[i] >= c.k \/ h[i] >= g * e[i]
        BY <4>1, <4>3, <4>5, Zenon
      <4> QED BY <4>6, <3>2
    <3>7. CASE c.lhs[i].lit \notin lits
      <4>1. h[i] = x /\ e[i] = y
        BY <3>1, <3>7, <2>3
      <4> QED BY <4>1, <3>2
    <3> QED BY <3>6, <3>7
  <2>6. n \in T
    <3> HIDE DEF T, n
    <3>1. Inductive(n, T)
      BY <1>1, <2>4, <2>5 DEF Inductive
    <3> QED BY <3>1, InductionUpTo
  <2>7. PICK x, y, k : x = Weigh(c, lits) /\ y = Weigh(d, lits) /\ k = d.k
    OBVIOUS
  <2>8. /\ x \in Nat /\ y \in Nat /\ k \in Nat \ {0}
        /\ g * y >= x \/ g * y >= c.k
        /\ x >= c.k \/ x >= g * y
        /\ g * k >= c.k /\ g * k < c.k + g
    <3>1. n \in 0 .. n
      BY <1>1
    <3>2. x = h[n] /\ y = e[n]
      BY <2>1, <2>2, <2>7
    <3>3. h[n] \in Nat /\ e[n] \in Nat
      BY <2>3, <3>1
    <3>4. /\ g * e[n] >= h[n] \/ g * e[n] >= c.k
          /\ h[n] >= c.k \/ h[n] >= g * e[n]
      BY <2>6
    <3>5. d.k \in Nat \ {0} /\ g * d.k >= c.k /\ g * d.k < c.k + g
      BY <1>5
    <3> QED BY <3>2, <3>3, <3>4, <3>5, <2>7, Zenon
  <2>9. ASSUME x >= c.k PROVE y >= k
    <3>1. g * k < g * y + g
      BY <2>8, <2>9, <1>1
    <3> QED BY <3>1, <2>8, ProductOrder
  <2>10. ASSUME y >= k PROVE x >= c.k
    <3>1. g * y >= g * k
      <4>1. g * (y - k) >= 0 /\ g * (y - k) = g * y - g * k
        BY <2>8, <2>10
      <4> QED BY <4>1, <2>8
    <3> QED BY <3>1, <2>8, <1>1
  <2> QED BY <2>7, <2>9, <2>10
<1> QED BY <1>8, <1>9 DEF d

-----------------------------------------------------------------------------
(* The states of a solver. *)
(* Of a binary clause that is falsified, both literals are named. *)
Culprit == Reason \cup ({"bin"} \X Lits \X Lits)

TrailEntry == [lit : Lits, dl : Nat, reason : Reason]

Clause == [lits : Seq(Lits), idx : Nat, init : BOOLEAN, lbd : Nat]

Watch == [id : Nat, cached : Lits]

State ==
  [trail : Seq(TrailEntry), next : Nat, sums : Seq(Int), from : Seq(Nat), conflict : BOOLEAN,
   culprit : Culprit, heap : SUBSET Vars, clauses : Seq(Clause),
   watches : [Lits -> Seq(Watch)], bins : [Lits -> Seq(Lits)]]

(* The states of a solver that has the constraints of db. *)
States(db) == {s \in State : Len(s.sums) = Len(db) /\ Len(s.from) = Len(db)}

Databases == Seq(Constraint)

(* What a solver's state consists of. *)
LEMMA StateFacts ==
  ASSUME NEW s \in State
  PROVE  /\ s.trail \in Seq(TrailEntry) /\ Len(s.trail) \in Nat /\ DOMAIN s.trail = 1 .. Len(s.trail)
         /\ \A i \in 1 .. Len(s.trail) : s.trail[i] \in TrailEntry
         /\ \A i \in 1 .. Len(s.trail) :
              s.trail[i].lit \in Lits /\ s.trail[i].dl \in Nat /\ s.trail[i].reason \in Reason
         /\ s.next \in Nat /\ s.sums \in Seq(Int) /\ s.from \in Seq(Nat) /\ s.conflict \in BOOLEAN
         /\ s.culprit \in Culprit
         /\ TrueLits(s) \subseteq Lits
         /\ Level(s) \in Nat
<1>1. /\ s.trail \in Seq(TrailEntry) /\ Len(s.trail) \in Nat /\ DOMAIN s.trail = 1 .. Len(s.trail)
      /\ s.next \in Nat /\ s.sums \in Seq(Int) /\ s.from \in Seq(Nat) /\ s.conflict \in BOOLEAN
      /\ s.culprit \in Culprit
  BY DEF State
<1>2. \A i \in 1 .. Len(s.trail) : s.trail[i] \in TrailEntry
  BY <1>1
<1>3. \A i \in 1 .. Len(s.trail) :
              s.trail[i].lit \in Lits /\ s.trail[i].dl \in Nat /\ s.trail[i].reason \in Reason
  BY <1>2 DEF TrailEntry
<1>4. TrueLits(s) \subseteq Lits
  BY <1>1, <1>3 DEF TrueLits
<1>5. Level(s) \in Nat
  <2>1. CASE s.trail = <<>>
    BY <2>1 DEF Level
  <2>2. CASE s.trail # <<>>
    <3>1. Len(s.trail) \in 1 .. Len(s.trail)
      BY <2>2, <1>1
    <3> QED BY <3>1, <2>2, <1>3 DEF Level, Last
  <2> QED BY <2>1, <2>2
<1> QED BY <1>1, <1>2, <1>3, <1>4, <1>5

(* Opposite literals, and literals in general. *)
LEMMA LitFacts ==
  /\ Lits \subseteq Int
  /\ \A l \in Lits : -l \in Lits /\ l # -l /\ -(-l) = l
BY VarsAssumption DEF Lits, Vars

(* Reasons, which name what is falsified as well. *)
LEMMA ReasonFacts ==
  /\ NoReason \in Reason /\ Reason \subseteq Culprit
  /\ \A n \in Nat : <<"PB", n>> \in Reason /\ <<"clause", n>> \in Reason
  /\ \A l \in Lits : <<"bin", l>> \in Reason
  /\ \A l, k \in Lits : <<"bin", l, k>> \in Culprit
BY DEF Reason, Culprit

(* A constraint of the database as a reason. *)
LEMMA ReasonPB ==
  ASSUME NEW db \in Databases, NEW id \in 1 .. Len(db)
  PROVE  <<"PB", id>> \in Reason /\ <<"PB", id>> \in Culprit
<1>1. id \in Nat
  BY DEF Databases
<1> QED BY <1>1, ReasonFacts

(* A trail with one more entry. *)
LEMMA AppendEntry ==
  ASSUME NEW s \in State, NEW lit \in Lits, NEW dl \in Nat, NEW reason \in Reason
  PROVE  /\ Append(s.trail, Assigned(lit, dl, reason)) \in Seq(TrailEntry)
         /\ Len(Append(s.trail, Assigned(lit, dl, reason))) = Len(s.trail) + 1
         /\ \A i \in 1 .. Len(s.trail) :
              Append(s.trail, Assigned(lit, dl, reason))[i] = s.trail[i]
         /\ Append(s.trail, Assigned(lit, dl, reason))[Len(s.trail) + 1] =
              Assigned(lit, dl, reason)
<1>1. Assigned(lit, dl, reason) \in TrailEntry
  BY DEF Assigned, TrailEntry
<1>2. s.trail \in Seq(TrailEntry)
  BY StateFacts
<1> QED BY <1>1, <1>2, AppendProperties

-----------------------------------------------------------------------------
(***************************************************************************)
(* One constraint propagates.                                              *)
(***************************************************************************)
LEMMA ExceptAny ==
  ASSUME NEW S, NEW q \in Seq(S), NEW i \in Nat, NEW e \in S
  PROVE  [q EXCEPT ![i] = e] \in Seq(S) /\ Len([q EXCEPT ![i] = e]) = Len(q)
<1>1. CASE i \in 1 .. Len(q)
  BY <1>1, ExceptSeq
<1>2. CASE i \notin 1 .. Len(q)
  <2>1. [q EXCEPT ![i] = e] = q
    BY <1>2
  <2> QED BY <2>1
<1> QED BY <1>1, <1>2

(* One term leaves a state of the same constraints. *)
LEMMA TakeTermType ==
  ASSUME NEW db \in Databases, NEW s \in States(db), NEW c \in Constraint, NEW id \in Nat,
         NEW slack \in Int, NEW i \in 1 .. Len(c.lhs)
  PROVE  TakeTerm(c, s, id, slack, i) \in States(db)
<1> DEFINE t == c.lhs[i]
           past == [s EXCEPT !.from[id] = i + 1]
<1>1. i + 1 \in Nat
  OBVIOUS
<1>2. t.lit \in Lits /\ t.coef \in Nat
  BY ConstraintFacts
<1>3. s \in State /\ s.from \in Seq(Nat) /\ Len(s.from) = Len(db)
  BY StateFacts DEF States
<1>4. [s.from EXCEPT ![id] = i + 1] \in Seq(Nat) /\ Len([s.from EXCEPT ![id] = i + 1]) = Len(db)
  <2> PICK q, e : q = s.from /\ e = i + 1
    OBVIOUS
  <2>1. q \in Seq(Nat) /\ e \in Nat
    BY <1>1, <1>3
  <2>2. [q EXCEPT ![id] = e] \in Seq(Nat) /\ Len([q EXCEPT ![id] = e]) = Len(q)
    <3>1. CASE id \in 1 .. Len(q)
      BY <2>1, <3>1, ExceptSeq
    <3>2. CASE id \notin 1 .. Len(q)
      <4>1. [q EXCEPT ![id] = e] = q
        BY <2>1, <3>2
      <4> QED BY <2>1, <4>1
    <3> QED BY <3>1, <3>2
  <2> QED BY <2>2, <1>3
<1>5. past \in States(db)
  BY <1>3, <1>4 DEF States, State
<1>6. past \in State /\ Level(past) \in Nat /\ <<"PB", id>> \in Reason
  BY <1>5, StateFacts, ReasonFacts DEF States
<1> HIDE DEF past
<1>7. SetTrue(past, t.lit, <<"PB", id>>) \in States(db)
  <2>1. Append(past.trail, Assigned(t.lit, Level(past), <<"PB", id>>)) \in Seq(TrailEntry)
    BY <1>2, <1>6, AppendEntry
  <2> HIDE DEF t
  <2> QED BY <1>5, <2>1 DEF SetTrue, States, State
<1> QED BY <1>5, <1>7 DEF TakeTerm, past

(* h is the sequence of states on the walk over the terms of c. *)
Walk(h, db, c, s, id, slack) ==
  /\ h \in [0 .. Len(c.lhs) -> States(db)]
  /\ h[0] = s
  /\ \A i \in 1 .. Len(c.lhs) : h[i] = TakeTerm(c, h[i - 1], id, slack, i)
  /\ PropagateCtr(c, s, id, slack) = h[Len(c.lhs)]

(* The states that the walk over the terms of c goes through. *)
LEMMA PropagateCtrSteps ==
  ASSUME NEW db \in Databases, NEW s \in States(db), NEW c \in Constraint, NEW id \in Nat,
         NEW slack \in Int
  PROVE  \E h : Walk(h, db, c, s, id, slack)
<1> DEFINE n == Len(c.lhs)
           S == States(db)
           step(r, i) == TakeTerm(c, r, id, slack, i)
           idx == [i \in DOMAIN c.lhs |-> i]
           g == [p \in S \X (1 .. n) |-> step(p[1], p[2])]
           E(f) == f = [t \in SUBSET DOMAIN idx |->
                          IF t = {} THEN s ELSE step(f[t \ {Max(t)}], idx[Max(t)])]
           F == CHOOSE f : E(f)
<1>1. n \in Nat /\ s \in S /\ DOMAIN idx = 1 .. n /\ \A i \in 1 .. n : idx[i] = i
  BY ConstraintFacts
<1>2. g \in [S \X (1 .. n) -> S]
  BY TakeTermType
<1>3. \A t \in SUBSET (1 .. n), r \in S : t # {} => g[<<r, Max(t)>>] = step(r, idx[Max(t)])
  BY <1>1, MaxInSet
<1>4. PropagateCtr(c, s, id, slack) = F[DOMAIN idx]
  BY Zenon DEF PropagateCtr, FoldLeft, MapThenFoldSet
<1> HIDE DEF step, g, S, n, idx
<1>5. \E f : E(f)
  <2>1. PICK f \in [SUBSET (1 .. n) -> S] : Solves(f, n, s, g)
    BY <1>1, <1>2, FoldExists
  <2>2. E(f)
    BY <2>1, <1>1, <1>3 DEF Solves
  <2> QED BY <2>2
<1>6. E(F)
  BY <1>5, Zenon
<1> HIDE DEF F
<1>7. Follows(F, n, S, s, g)
  BY <1>1, <1>2, <1>6, <1>3 DEF Follows
<1>8. PICK h : Steps(h, F, n, S, s, g)
  BY <1>7, FoldSteps
<1>9. /\ h \in [0 .. n -> S] /\ h[0] = s /\ F[1 .. n] = h[n]
      /\ \A i \in 1 .. n : h[i] = g[<<h[i - 1], i>>] /\ h[i - 1] \in S
  BY <1>8, <1>1 DEF Steps
<1>10. \A i \in 1 .. n : h[i] = step(h[i - 1], i)
  BY <1>9 DEF g
<1>11. Walk(h, db, c, s, id, slack)
  BY <1>1, <1>4, <1>9, <1>10 DEF n, S, step, Walk
<1> QED BY <1>11

-----------------------------------------------------------------------------
(* A trail has no literal twice, nor with its negation; the levels of its
   entries start at 0 or 1 and never grow by more than 1. *)
Consistent(tr) ==
  \A i, j \in 1 .. Len(tr) : i # j => tr[i].lit # tr[j].lit /\ tr[i].lit # -tr[j].lit

LevelAt(tr, i) == IF i = 0 THEN 0 ELSE tr[i].dl

Stepwise(tr) ==
  \A i \in 1 .. Len(tr) : tr[i].dl \in {LevelAt(tr, i - 1), LevelAt(tr, i - 1) + 1}

Orderly(s) == s.next <= Len(s.trail) /\ Consistent(s.trail) /\ Stepwise(s.trail)

(* The trail of r is that of s and more of the same level. *)
Extends(r, s) ==
  /\ Len(s.trail) <= Len(r.trail)
  /\ \A i \in 1 .. Len(s.trail) : r.trail[i] = s.trail[i]
  /\ \A i \in Len(s.trail) + 1 .. Len(r.trail) : r.trail[i].dl = Level(s)

(* What satisfies the constraints, partial assignments included. *)
Models(db) ==
  {m \in SUBSET Lits : /\ \A l \in m : -l \notin m
                      /\ \A id \in 1 .. Len(db) : Weigh(db[id], m) >= db[id].k}

Agrees(s, m) == ~s.conflict /\ TrueLits(s) \subseteq m

(* A model that agrees with s agrees with r. *)
Sound(db, r, s) == \A m \in Models(db) : Agrees(s, m) => Agrees(r, m)

(* What remains of a constraint when the propagated literals are counted. *)
Remaining(db, s, id) == Weigh(db[id], LitsOf(db[id]) \ Discounted(s)) - db[id].k

(* The level is that of the last entry, 0 if there is none. *)
LEMMA LevelIs ==
  ASSUME NEW s \in State
  PROVE  Level(s) = LevelAt(s.trail, Len(s.trail))
<1>1. CASE s.trail = <<>>
  BY <1>1 DEF Level, LevelAt
<1>2. CASE s.trail # <<>>
  <2>1. Len(s.trail) # 0
    BY <1>2, StateFacts, EmptySeq
  <2> QED BY <1>2, <2>1 DEF Level, LevelAt, Last
<1> QED BY <1>1, <1>2

(* An extended trail is on the same level. *)
LEMMA ExtendsLevel ==
  ASSUME NEW s \in State, NEW r \in State, Extends(r, s)
  PROVE  Level(r) = Level(s)
<1>1. Len(s.trail) \in Nat /\ Len(r.trail) \in Nat
  BY StateFacts
<1>2. Level(s) = LevelAt(s.trail, Len(s.trail)) /\ Level(r) = LevelAt(r.trail, Len(r.trail))
  BY LevelIs
<1>3. CASE Len(s.trail) = Len(r.trail)
  BY <1>1, <1>2, <1>3 DEF Extends, LevelAt
<1>4. CASE Len(s.trail) < Len(r.trail)
  BY <1>1, <1>2, <1>4 DEF Extends, LevelAt
<1> QED BY <1>1, <1>3, <1>4 DEF Extends

(* Extending twice is extending. *)
LEMMA ExtendsTrans ==
  ASSUME NEW s \in State, NEW r \in State, NEW q \in State, Extends(r, s), Extends(q, r)
  PROVE  Extends(q, s)
<1>1. Len(s.trail) \in Nat /\ Len(r.trail) \in Nat /\ Len(q.trail) \in Nat
  BY StateFacts
<1>2. Level(r) = Level(s)
  BY ExtendsLevel
<1> QED BY <1>1, <1>2 DEF Extends

(* Extending by nothing. *)
LEMMA ExtendsSelf ==
  ASSUME NEW s \in State
  PROVE  Extends(s, s)
BY StateFacts DEF Extends

(* Two sound steps are one. *)
LEMMA SoundTrans ==
  ASSUME NEW db, NEW s, NEW r, NEW q, Sound(db, r, s), Sound(db, q, r)
  PROVE  Sound(db, q, s)
BY DEF Sound

(* As far as it is propagated, an extended trail is the same. *)
LEMMA SameDiscounted ==
  ASSUME NEW s \in State, NEW r \in State, Extends(r, s), r.next = s.next,
         s.next <= Len(s.trail)
  PROVE  Discounted(r) = Discounted(s)
<1>1. \A i \in 1 .. s.next : i \in 1 .. Len(s.trail)
  BY StateFacts
<1>2. \A i \in 1 .. s.next : r.trail[i] = s.trail[i]
  BY <1>1 DEF Extends
<1> QED BY <1>2 DEF Discounted

(* What is discounted is false. *)
LEMMA DiscountedFacts ==
  ASSUME NEW s \in State, s.next <= Len(s.trail)
  PROVE  /\ Discounted(s) \subseteq Lits
         /\ \A l \in Discounted(s) : -l \in TrueLits(s)
<1>1. \A i \in 1 .. s.next : i \in 1 .. Len(s.trail)
  BY StateFacts
<1>2. \A i \in 1 .. s.next : s.trail[i].lit \in Lits /\ s.trail[i].lit \in TrueLits(s)
  BY <1>1, StateFacts DEF TrueLits
<1> QED BY <1>2, LitFacts DEF Discounted

(* A model that agrees with the trail weighs no more than what remains. *)
LEMMA ModelRemains ==
  ASSUME NEW db \in Databases, NEW s \in States(db), NEW id \in 1 .. Len(db),
         s.next <= Len(s.trail), NEW m \in Models(db), TrueLits(s) \subseteq m
  PROVE  /\ Remaining(db, s, id) \in Nat
         /\ \A i \in 1 .. Len(db[id].lhs) :
              db[id].lhs[i].coef > Remaining(db, s, id) => db[id].lhs[i].lit \in m \cup Discounted(s)
<1> DEFINE c == db[id]
           R == LitsOf(c) \ Discounted(s)
<1>1. c \in Constraint
  BY DEF Databases
<1>2. s \in State /\ m \subseteq Lits /\ (\A l \in m : -l \notin m) /\ Weigh(c, m) >= c.k
  BY DEF States, Models
<1>3. \A l \in m : l \notin Discounted(s)
  <2>1. \A l \in Discounted(s) : -l \in m
    BY <1>2, DiscountedFacts
  <2> QED BY <1>2, <2>1
<1>4. c.k \in Nat /\ c.lhs \in Seq(Term) /\ Weigh(c, m) \in Nat /\ Weigh(c, R) \in Nat
  BY <1>1, ConstraintFacts
<1>5. \A i \in 1 .. Len(c.lhs) : c.lhs[i].lit \in LitsOf(c)
  BY <1>1, CoefOfTerm
<1>6. Weigh(c, m) <= Weigh(c, R)
  <2> HIDE DEF c
  <2>1. \A i \in 1 .. Len(c.lhs) : c.lhs[i].lit \in m => c.lhs[i].lit \in R
    BY <1>3, <1>5
  <2> HIDE DEF R
  <2> QED BY <2>1, <1>4, WeighMono
<1>7. Remaining(db, s, id) = Weigh(c, R) - c.k
  BY DEF Remaining
<1>8. ASSUME NEW i \in 1 .. Len(c.lhs), c.lhs[i].coef > Remaining(db, s, id),
             c.lhs[i].lit \notin m \cup Discounted(s)
      PROVE  FALSE
  <2> HIDE DEF c
  <2>1. c.lhs[i].lit \in R
    BY <1>5, <1>8
  <2>2. \A j \in 1 .. Len(c.lhs) : c.lhs[j].lit \in m => c.lhs[j].lit \in R \ {c.lhs[i].lit}
    BY <1>3, <1>5, <1>8
  <2> HIDE DEF R
  <2>3. Weigh(c, R \ {c.lhs[i].lit}) = Weigh(c, R) - c.lhs[i].coef
    BY <1>1, <2>1, WeighWithout
  <2>4. Weigh(c, m) <= Weigh(c, R \ {c.lhs[i].lit})
    BY <2>2, <1>4, WeighMono
  <2>5. c.lhs[i].coef \in Nat
    BY <1>1, ConstraintFacts
  <2> QED BY <2>3, <2>4, <2>5, <1>2, <1>4, <1>7, <1>8
<1> HIDE DEF c, R
<1>9. Remaining(db, s, id) \in Nat
  BY <1>2, <1>4, <1>6, <1>7
<1> QED BY <1>8, <1>9 DEF c

(* What a walk over the terms of constraint id makes of s. *)
Walked(db, r, s) ==
  /\ r \in States(db) /\ r.next = s.next /\ r.sums = s.sums /\ r.conflict = s.conflict
  /\ Orderly(r) /\ Extends(r, s) /\ Sound(db, r, s)

(* A literal joins the trail at a level, this or the next one. *)
LEMMA OrderlyAppend ==
  ASSUME NEW s \in State, NEW r \in State, Orderly(s), NEW lit \in Lits, IsUndefLit(s, lit),
         NEW dl \in {Level(s), Level(s) + 1}, NEW reason \in Reason,
         r.trail = Append(s.trail, Assigned(lit, dl, reason)), r.next = s.next
  PROVE  /\ Orderly(r) /\ TrueLits(r) = TrueLits(s) \cup {lit}
         /\ Level(r) = dl /\ Len(r.trail) = Len(s.trail) + 1
         /\ r.trail[Len(r.trail)].dl = dl
         /\ \A i \in 1 .. Len(s.trail) : r.trail[i] = s.trail[i]
<1> DEFINE n == Len(s.trail)
<1>1. dl \in Nat /\ Level(s) \in Nat
  BY StateFacts
<1>2. /\ Len(r.trail) = n + 1 /\ \A i \in 1 .. n : r.trail[i] = s.trail[i]
      /\ r.trail[n + 1] = Assigned(lit, dl, reason)
  BY <1>1, AppendEntry
<1>3. n \in Nat /\ s.next \in Nat /\ s.next <= n
  BY StateFacts DEF Orderly
<1>4. r.trail[n + 1].lit = lit /\ r.trail[n + 1].dl = dl
  BY <1>2 DEF Assigned
<1>5. \A i \in 1 .. n : s.trail[i].lit \in Lits /\ s.trail[i].lit # lit /\ s.trail[i].lit # -lit
  BY StateFacts DEF IsUndefLit, TrueLits
<1>6. Consistent(r.trail)
  <2> SUFFICES ASSUME NEW i \in 1 .. n + 1, NEW j \in 1 .. n + 1, i # j
               PROVE  r.trail[i].lit # r.trail[j].lit /\ r.trail[i].lit # -r.trail[j].lit
    BY <1>2 DEF Consistent
  <2>1. \A l \in Lits : l # lit /\ l # -lit => lit # -l
    BY LitFacts
  <2>2. CASE i \in 1 .. n /\ j \in 1 .. n
    BY <2>2, <1>2 DEF Orderly, Consistent
  <2>3. CASE i = n + 1 /\ j \in 1 .. n
    BY <2>1, <2>3, <1>2, <1>4, <1>5
  <2>4. CASE i \in 1 .. n /\ j = n + 1
    BY <2>4, <1>2, <1>4, <1>5
  <2> QED BY <2>2, <2>3, <2>4, <1>3
<1>7. Stepwise(r.trail)
  <2> SUFFICES ASSUME NEW i \in 1 .. n + 1
               PROVE  r.trail[i].dl \in {LevelAt(r.trail, i - 1), LevelAt(r.trail, i - 1) + 1}
    BY <1>2 DEF Stepwise
  <2>1. LevelAt(r.trail, i - 1) = LevelAt(s.trail, i - 1)
    BY <1>2, <1>3 DEF LevelAt
  <2>2. CASE i \in 1 .. n
    BY <2>1, <2>2, <1>2 DEF Orderly, Stepwise
  <2>3. CASE i = n + 1
    <3>1. LevelAt(s.trail, n) = Level(s) /\ i - 1 = n
      BY LevelIs, <1>3, <2>3
    <3> QED BY <2>1, <2>3, <3>1, <1>4
  <2> QED BY <2>2, <2>3, <1>3
<1>8. TrueLits(r) = TrueLits(s) \cup {lit}
  <2>1. DOMAIN r.trail = 1 .. n + 1 /\ DOMAIN s.trail = 1 .. n
    BY <1>2, StateFacts
  <2> QED BY <2>1, <1>2, <1>3, <1>4 DEF TrueLits
<1>9. Level(r) = dl
  BY LevelIs, <1>2, <1>3, <1>4 DEF LevelAt
<1> QED BY <1>2, <1>3, <1>4, <1>6, <1>7, <1>8, <1>9 DEF Orderly

(* One term: a literal that is taken follows from the constraint and the trail,
   since without it too little remains. *)
LEMMA TakeTermWalks ==
  ASSUME NEW db \in Databases, NEW s \in States(db), NEW id \in 1 .. Len(db), Orderly(s),
         NEW r \in States(db), Walked(db, r, s), NEW i \in 1 .. Len(db[id].lhs)
  PROVE  Walked(db, TakeTerm(db[id], r, id, Remaining(db, s, id), i), s)
<1> DEFINE t == db[id].lhs[i]
           past == [r EXCEPT !.from[id] = i + 1]
           slack == Remaining(db, s, id)
           q == SetTrue(past, t.lit, <<"PB", id>>)
<1>1. db[id] \in Constraint /\ i + 1 \in Nat
  BY DEF Databases
<1>2. t.lit \in Lits /\ t.coef \in Nat
  BY <1>1, ConstraintFacts
<1>3. r \in State /\ s \in State /\ r.from \in Seq(Nat) /\ Len(r.from) = Len(db)
  BY StateFacts DEF States
<1>4. [r.from EXCEPT ![id] = i + 1] \in Seq(Nat) /\ Len([r.from EXCEPT ![id] = i + 1]) = Len(db)
  BY <1>1, <1>3, ExceptSeq
<1>5. /\ past \in States(db) /\ past.trail = r.trail /\ past.next = r.next /\ past.sums = r.sums
      /\ past.conflict = r.conflict
  BY <1>3, <1>4 DEF States, State
<1>6. past \in State /\ Level(past) = Level(r) /\ TrueLits(past) = TrueLits(r)
  BY <1>5 DEF States, Level, TrueLits
<1> HIDE DEF past
<1>7. Walked(db, past, s)
  BY <1>5, <1>6 DEF Walked, Orderly, Extends, Sound, Agrees
<1>8. ASSUME t.coef > slack, IsUndefLit(past, t.lit) PROVE Walked(db, q, s)
  <2>1. Level(past) \in Nat /\ <<"PB", id>> \in Reason
    BY <1>6, StateFacts, ReasonPB
  <2>2. Append(past.trail, Assigned(t.lit, Level(past), <<"PB", id>>)) \in Seq(TrailEntry)
    BY <1>2, <1>6, <2>1, AppendEntry
  <2>3. /\ q.trail = Append(past.trail, Assigned(t.lit, Level(past), <<"PB", id>>))
        /\ q.next = past.next /\ q.sums = past.sums /\ q.conflict = past.conflict
        /\ q \in States(db)
    <3> HIDE DEF t
    <3> QED BY <1>5, <2>2 DEF SetTrue, States, State
  <2>4. q \in State
    BY <2>3 DEF States
  <2> HIDE DEF q, t
  <2>5. /\ Orderly(q) /\ TrueLits(q) = TrueLits(past) \cup {t.lit}
        /\ Level(q) = Level(past) /\ Len(q.trail) = Len(past.trail) + 1
        /\ q.trail[Len(q.trail)].dl = Level(past)
        /\ \A j \in 1 .. Len(past.trail) : q.trail[j] = past.trail[j]
    <3>1. Orderly(past) /\ Level(past) \in {Level(past), Level(past) + 1}
      BY <1>7 DEF Walked
    <3> QED BY <3>1, <1>2, <1>6, <1>8, <2>1, <2>3, <2>4, OrderlyAppend
  <2>6. Extends(q, past)
    BY <2>5, <1>6, StateFacts DEF Extends
  <2>7. Extends(q, s)
    BY <2>6, <1>7, <1>6, <1>3, <2>4, ExtendsTrans DEF Walked
  <2>8. Sound(db, q, s)
    <3> SUFFICES ASSUME NEW m \in Models(db), Agrees(s, m) PROVE Agrees(q, m)
      BY DEF Sound
    <3>1. Agrees(past, m)
      BY <1>7 DEF Walked, Sound
    <3>2. t.lit \in m \cup Discounted(s)
      BY <1>8, ModelRemains DEF Agrees, Orderly, t
    <3>3. t.lit \notin Discounted(s)
      <4>1. Discounted(past) = Discounted(s) /\ past.next <= Len(past.trail)
        BY <1>7, <1>3, <1>6, SameDiscounted DEF Walked, Orderly
      <4>2. \A l \in Discounted(past) : -l \in TrueLits(past)
        BY <4>1, <1>6, DiscountedFacts
      <4> QED BY <4>1, <4>2, <1>8 DEF IsUndefLit
    <3> QED BY <3>1, <3>2, <3>3, <2>3, <2>5 DEF Agrees
  <2> QED BY <2>3, <2>5, <2>7, <2>8, <1>7 DEF Walked
<1> HIDE DEF q, slack, t
<1>9. Walked(db, IF i # r.from[id] \/ t.coef <= slack THEN r
                 ELSE IF IsUndefLit(past, t.lit) THEN q ELSE past, s)
  <2>1. slack \in Int
    BY <1>1, ConstraintFacts DEF Remaining, slack
  <2> QED BY <1>7, <1>8, <1>2, <2>1
<1>10. IsUndefLit(past, t.lit) <=> IsUndefLit(r, t.lit)
  BY <1>6 DEF IsUndefLit
<1> QED BY <1>9, <1>10 DEF TakeTerm, q, t, past, slack

(* All terms of one constraint. *)
LEMMA PropagateCtrWalks ==
  ASSUME NEW db \in Databases, NEW s \in States(db), NEW id \in 1 .. Len(db), Orderly(s)
  PROVE  Walked(db, PropagateCtr(db[id], s, id, Remaining(db, s, id)), s)
<1> DEFINE n == Len(db[id].lhs)
           slack == Remaining(db, s, id)
<1>1. db[id] \in Constraint
  BY DEF Databases
<1>2. n \in Nat /\ slack \in Int
  BY <1>1, ConstraintFacts DEF Remaining
<1>3. PICK h \in [0 .. n -> States(db)] :
           /\ h[0] = s
           /\ \A i \in 1 .. n : h[i] = TakeTerm(db[id], h[i - 1], id, slack, i)
           /\ PropagateCtr(db[id], s, id, slack) = h[n]
  <2>1. id \in Nat
    BY DEF Databases
  <2>2. \E h : Walk(h, db, db[id], s, id, slack)
    BY <1>1, <1>2, <2>1, PropagateCtrSteps
  <2> QED BY <2>2 DEF Walk
<1> DEFINE T == {i \in 0 .. n : Walked(db, h[i], s)}
<1>4. 0 \in T
  <2>1. Walked(db, s, s)
    BY ExtendsSelf DEF Walked, States, Sound
  <2> QED BY <2>1, <1>2, <1>3
<1>5. ASSUME NEW i \in 1 .. n, i - 1 \in T PROVE i \in T
  <2>1. h[i - 1] \in States(db) /\ Walked(db, h[i - 1], s)
    BY <1>5
  <2>2. Walked(db, TakeTerm(db[id], h[i - 1], id, slack, i), s)
    BY <2>1, TakeTermWalks
  <2> QED BY <2>2, <1>3, <1>2
<1>6. n \in T
  <2> HIDE DEF T
  <2>1. Inductive(n, T)
    BY <1>2, <1>4, <1>5 DEF Inductive
  <2> QED BY <2>1, InductionUpTo
<1> QED BY <1>3, <1>6

(* What a constraint whose counter is known makes of s. *)
Examined(db, r, s, id) ==
  /\ r \in States(db) /\ r.next = s.next
  /\ r.sums = [s.sums EXCEPT ![id] = Remaining(db, s, id) - MaxCoef(db[id])]
  /\ s.conflict => r.conflict
  /\ Orderly(r) /\ Extends(r, s) /\ Sound(db, r, s)

(* What remains is an integer. *)
LEMMA RemainingType ==
  ASSUME NEW db \in Databases, NEW s, NEW id \in 1 .. Len(db)
  PROVE  Remaining(db, s, id) \in Int /\ MaxCoef(db[id]) \in Nat \ {0}
<1>1. db[id] \in Constraint
  BY DEF Databases
<1> QED BY <1>1, ConstraintFacts DEF Remaining

(* A constraint whose counter is right is examined: a conflict excludes every
   model that agrees with the trail. *)
LEMMA ExamineMakes ==
  ASSUME NEW db \in Databases, NEW s \in States(db), NEW id \in 1 .. Len(db), Orderly(s)
  PROVE  Examined(db, Examine(db[id], s, id, Remaining(db, s, id) - MaxCoef(db[id])), s, id)
<1> DEFINE slack == Remaining(db, s, id)
           sum == slack - MaxCoef(db[id])
           counted == [s EXCEPT !.sums[id] = sum]
<1>1. slack \in Int /\ sum \in Int /\ sum + MaxCoef(db[id]) = slack
  BY RemainingType
<1>2. s \in State /\ s.sums \in Seq(Int) /\ Len(s.sums) = Len(db)
  BY StateFacts DEF States
<1>3. [s.sums EXCEPT ![id] = sum] \in Seq(Int) /\ Len([s.sums EXCEPT ![id] = sum]) = Len(db)
  BY <1>1, <1>2, ExceptSeq
<1>4. /\ counted \in States(db) /\ counted.sums = [s.sums EXCEPT ![id] = sum]
      /\ counted.trail = s.trail /\ counted.next = s.next /\ counted.conflict = s.conflict
  BY <1>2, <1>3 DEF States, State
<1> HIDE DEF counted
<1>5. counted \in State /\ Discounted(counted) = Discounted(s) /\ Level(counted) = Level(s)
  BY <1>4 DEF States, Discounted, Level
<1>6. Orderly(counted) /\ Extends(counted, s) /\ Sound(db, counted, s) /\ TrueLits(counted) = TrueLits(s)
  BY <1>4, <1>2, ExtendsSelf DEF Orderly, Extends, Sound, Agrees, TrueLits
<1>7. Examined(db, counted, s, id)
  BY <1>4, <1>6 DEF Examined
<1>8. CASE slack < 0
  <2> DEFINE q == Clash(counted, <<"PB", id>>)
  <2>1. <<"PB", id>> \in Culprit
    BY ReasonPB
  <2>2. /\ q \in States(db) /\ q.sums = counted.sums /\ q.trail = counted.trail /\ q.next = counted.next
        /\ q.conflict = TRUE
    BY <1>4, <2>1 DEF Clash, States, State
  <2> HIDE DEF q
  <2>3. Orderly(q) /\ Extends(q, s)
    BY <2>2, <1>6 DEF Orderly, Extends
  <2>4. Sound(db, q, s)
    <3> SUFFICES ASSUME NEW m \in Models(db), Agrees(s, m) PROVE FALSE
      BY DEF Sound
    <3>1. slack \in Nat
      BY ModelRemains DEF Agrees, Orderly
    <3> QED BY <3>1, <1>8
  <2> QED BY <1>1, <1>7, <1>8, <2>2, <2>3, <2>4 DEF Examine, Examined, q, counted
<1>9. CASE sum < 0 /\ ~(slack < 0)
  <2> DEFINE q == PropagateCtr(db[id], counted, id, slack)
  <2>1. slack = Remaining(db, counted, id)
    BY <1>5 DEF Remaining
  <2>2. Walked(db, q, counted)
    BY <2>1, <1>4, <1>6, PropagateCtrWalks
  <2> HIDE DEF q
  <2>3. q \in State /\ Extends(q, s) /\ Sound(db, q, s)
    BY <2>2, <1>2, <1>5, <1>6, ExtendsTrans, SoundTrans DEF Walked, States
  <2>4. Examined(db, q, s, id)
    BY <2>2, <2>3, <1>4 DEF Walked, Examined
  <2> HIDE DEF slack, sum
  <2> QED BY <1>1, <1>9, <2>4 DEF Examine, q, counted, slack, sum
<1>10. CASE sum >= 0
  BY <1>1, <1>7, <1>10 DEF Examine, counted
<1>11. MaxCoef(db[id]) \in Nat
  BY RemainingType
<1> QED BY <1>1, <1>8, <1>9, <1>10

(* The counters of the constraints up to id, once s.next is propagated. *)
CountersUpTo(db, s, n) ==
  \A id \in 1 .. n : s.sums[id] = Remaining(db, s, id) - MaxCoef(db[id])

(* State r on the way from s, the last of whose propagated literals is new: the
   constraints up to n have been visited. *)
Visited(db, r, s, n) ==
  /\ r \in States(db) /\ r.next = s.next
  /\ Orderly(r) /\ Extends(r, s) /\ Sound(db, r, s)
  /\ s.conflict => r.conflict
  /\ ~r.conflict => /\ CountersUpTo(db, r, n)
                    /\ \A id \in n + 1 .. Len(db) : r.sums[id] = s.sums[id]

(* The counters do not know yet that lit is false. *)
Stale(db, s, lit) ==
  /\ lit \in Discounted(s)
  /\ \A id \in 1 .. Len(db) :
       s.sums[id] = Remaining(db, s, id) - MaxCoef(db[id])
                      + (IF lit \in LitsOf(db[id]) THEN Coef(db[id], lit) ELSE 0)

(* One constraint in the list of a literal. *)
LEMMA DiscountVisits ==
  ASSUME NEW db \in Databases, NEW s \in States(db), NEW lit, Stale(db, s, lit), Orderly(s),
         NEW id \in 1 .. Len(db), NEW r \in States(db), Visited(db, r, s, id - 1)
  PROVE  Visited(db, Discount(db, r, lit, id), s, id)
<1>1. s \in State /\ r \in State /\ r.sums \in Seq(Int) /\ Len(r.sums) = Len(db) /\ Len(db) \in Nat
  BY StateFacts DEF States, Databases
<1>2. CASE r.conflict
  BY <1>2 DEF Discount, Visited
<1>3. Discounted(r) = Discounted(s)
  BY <1>1, SameDiscounted DEF Visited, Orderly
<1>4. \A i \in 1 .. Len(db) : Remaining(db, r, i) = Remaining(db, s, i)
  BY <1>3 DEF Remaining
<1>5. (id - 1) + 1 = id /\ r.conflict \in BOOLEAN
  BY <1>1, StateFacts
<1>6. \A i \in 1 .. Len(db) : Remaining(db, s, i) \in Int /\ MaxCoef(db[i]) \in Nat
  BY RemainingType
<1>7. CASE ~r.conflict /\ lit \notin LitsOf(db[id])
  <2>1. r.sums[id] = Remaining(db, r, id) - MaxCoef(db[id])
    BY <1>4, <1>5, <1>6, <1>7 DEF Visited, Stale
  <2>2. CountersUpTo(db, r, id)
    <3>1. CountersUpTo(db, r, id - 1)
      BY <1>7 DEF Visited
    <3>2. \A i \in 1 .. id : i = id \/ i \in 1 .. id - 1
      BY <1>1
    <3> QED BY <2>1, <3>1, <3>2 DEF CountersUpTo
  <2>3. Visited(db, r, s, id)
    BY <2>2, <1>5, <1>7 DEF Visited
  <2> QED BY <2>3, <1>7 DEF Discount
<1>8. CASE ~r.conflict /\ lit \in LitsOf(db[id])
  <2> DEFINE q == Discount(db, r, lit, id)
  <2>1. db[id] \in Constraint
    BY DEF Databases
  <2>2. Coef(db[id], lit) \in Nat
    BY <2>1, <1>8, ConstraintFacts
  <2>3. r.sums[id] = Remaining(db, s, id) - MaxCoef(db[id]) + Coef(db[id], lit)
    BY <1>5, <1>8 DEF Visited, Stale
  <2>4. r.sums[id] - Coef(db[id], lit) = Remaining(db, r, id) - MaxCoef(db[id])
    BY <2>2, <2>3, <1>4, <1>6
  <2>5. q = Examine(db[id], r, id, Remaining(db, r, id) - MaxCoef(db[id]))
    BY <2>4, <1>8 DEF Discount
  <2>6. Examined(db, q, r, id)
    BY <2>5, ExamineMakes DEF Visited
  <2> HIDE DEF q
  <2>7. q \in State /\ Extends(q, s) /\ Sound(db, q, s) /\ q.next = s.next
    BY <2>6, <1>1, ExtendsTrans, SoundTrans DEF Examined, Visited, States
  <2>8. Discounted(q) = Discounted(s)
    BY <1>1, <2>7, SameDiscounted DEF Orderly
  <2>9. \A i \in 1 .. Len(db) : Remaining(db, q, i) = Remaining(db, r, i)
    BY <1>3, <2>8 DEF Remaining
  <2>10. \A i \in 1 .. Len(db) : q.sums[i] = IF i = id THEN Remaining(db, r, id) - MaxCoef(db[id])
                                              ELSE r.sums[i]
    BY <2>6, <1>1 DEF Examined
  <2>11. CountersUpTo(db, q, id)
    BY <2>9, <2>10, <1>8 DEF Visited, CountersUpTo
  <2>12. \A i \in id + 1 .. Len(db) : q.sums[i] = s.sums[i]
    BY <2>10, <1>8, <1>5 DEF Visited
  <2>13. Visited(db, q, s, id)
    BY <2>6, <2>7, <2>11, <2>12, <1>8 DEF Visited, Examined
  <2> QED BY <2>13 DEF q
<1> QED BY <1>2, <1>7, <1>8, <1>5

(* Examining leaves a state of the same constraints. *)
LEMMA ExamineType ==
  ASSUME NEW db \in Databases, NEW s \in States(db), NEW c \in Constraint, NEW id \in Nat,
         NEW sum \in Int
  PROVE  Examine(c, s, id, sum) \in States(db)
<1> DEFINE counted == [s EXCEPT !.sums[id] = sum]
           slack == sum + MaxCoef(c)
<1>1. slack \in Int
  BY ConstraintFacts
<1>2. s \in State /\ s.sums \in Seq(Int) /\ Len(s.sums) = Len(db)
  BY StateFacts DEF States
<1>3. [s.sums EXCEPT ![id] = sum] \in Seq(Int) /\ Len([s.sums EXCEPT ![id] = sum]) = Len(db)
  BY <1>1, <1>2, ExceptAny
<1>4. counted \in States(db)
  BY <1>2, <1>3 DEF States, State
<1> HIDE DEF counted
<1>5. Clash(counted, <<"PB", id>>) \in States(db)
  <2>1. <<"PB", id>> \in Culprit
    BY ReasonFacts
  <2> QED BY <1>4, <2>1 DEF Clash, States, State
<1>6. PropagateCtr(c, counted, id, slack) \in States(db)
  <2>1. PICK h : Walk(h, db, c, counted, id, slack)
    BY <1>1, <1>4, PropagateCtrSteps
  <2>3. Len(c.lhs) \in 0 .. Len(c.lhs)
    BY ConstraintFacts
  <2> QED BY <2>1, <2>3 DEF Walk
<1> QED BY <1>4, <1>5, <1>6 DEF Examine, counted

(* So does discounting. *)
LEMMA DiscountType ==
  ASSUME NEW db \in Databases, NEW s \in States(db), NEW lit, NEW id \in 1 .. Len(db)
  PROVE  Discount(db, s, lit, id) \in States(db)
<1>1. CASE s.conflict \/ lit \notin LitsOf(db[id])
  BY <1>1 DEF Discount
<1>2. CASE ~(s.conflict \/ lit \notin LitsOf(db[id]))
  <2>1. db[id] \in Constraint
    BY DEF Databases
  <2>2. Coef(db[id], lit) \in Nat
    BY <2>1, <1>2, ConstraintFacts
  <2>3. s.sums[id] - Coef(db[id], lit) \in Int
    BY <2>2, StateFacts DEF States
  <2>4. id \in Nat
    BY DEF Databases
  <2> QED BY <1>2, <2>1, <2>3, <2>4, ExamineType DEF Discount
<1> QED BY <1>1, <1>2

(* The constraints are visited one after the other. *)
LEMMA VisitListsSteps ==
  ASSUME NEW db \in Databases, NEW s \in States(db), NEW lit
  PROVE  \E h \in [0 .. Len(db) -> States(db)] :
           /\ h[0] = s
           /\ \A i \in 1 .. Len(db) : h[i] = Discount(db, h[i - 1], lit, i)
           /\ VisitLists(db, s, lit) = h[Len(db)]
<1> DEFINE n == Len(db)
           S == States(db)
           step(r, i) == Discount(db, r, lit, i)
           idx == [i \in DOMAIN db |-> i]
           g == [p \in S \X (1 .. n) |-> step(p[1], p[2])]
           E(f) == f = [t \in SUBSET DOMAIN idx |->
                          IF t = {} THEN s ELSE step(f[t \ {Max(t)}], idx[Max(t)])]
           F == CHOOSE f : E(f)
<1>1. n \in Nat /\ s \in S /\ DOMAIN idx = 1 .. n /\ \A i \in 1 .. n : idx[i] = i
  BY DEF Databases
<1>2. g \in [S \X (1 .. n) -> S]
  BY DiscountType
<1>3. \A t \in SUBSET (1 .. n), r \in S : t # {} => g[<<r, Max(t)>>] = step(r, idx[Max(t)])
  BY <1>1, MaxInSet
<1>4. VisitLists(db, s, lit) = F[DOMAIN idx]
  BY Zenon DEF VisitLists, FoldLeft, MapThenFoldSet
<1> HIDE DEF step, g, S, n, idx
<1>5. \E f : E(f)
  <2>1. PICK f \in [SUBSET (1 .. n) -> S] : Solves(f, n, s, g)
    BY <1>1, <1>2, FoldExists
  <2>2. E(f)
    BY <2>1, <1>1, <1>3 DEF Solves
  <2> QED BY <2>2
<1>6. E(F)
  BY <1>5, Zenon
<1> HIDE DEF F
<1>7. Follows(F, n, S, s, g)
  BY <1>1, <1>2, <1>6, <1>3 DEF Follows
<1>8. PICK h : Steps(h, F, n, S, s, g)
  BY <1>7, FoldSteps
<1>9. /\ h \in [0 .. n -> S] /\ h[0] = s /\ F[1 .. n] = h[n]
      /\ \A i \in 1 .. n : h[i] = g[<<h[i - 1], i>>] /\ h[i - 1] \in S
  BY <1>8, <1>1 DEF Steps
<1>10. \A i \in 1 .. n : h[i] = step(h[i - 1], i)
  BY <1>9 DEF g
<1> QED BY <1>1, <1>4, <1>9, <1>10 DEF n, S, step

(* All constraints in the list of a literal. *)
LEMMA VisitListsVisits ==
  ASSUME NEW db \in Databases, NEW s \in States(db), NEW lit, Stale(db, s, lit), Orderly(s)
  PROVE  Visited(db, VisitLists(db, s, lit), s, Len(db))
<1> DEFINE n == Len(db)
<1>1. n \in Nat
  BY DEF Databases
<1>2. PICK h \in [0 .. n -> States(db)] :
           /\ h[0] = s
           /\ \A i \in 1 .. n : h[i] = Discount(db, h[i - 1], lit, i)
           /\ VisitLists(db, s, lit) = h[n]
  BY VisitListsSteps
<1> DEFINE T == {i \in 0 .. n : Visited(db, h[i], s, i)}
<1>3. 0 \in T
  <2>1. Visited(db, s, s, 0)
    BY ExtendsSelf DEF Visited, States, Sound, CountersUpTo
  <2> QED BY <2>1, <1>1, <1>2
<1>4. ASSUME NEW i \in 1 .. n, i - 1 \in T PROVE i \in T
  <2>1. h[i - 1] \in States(db) /\ Visited(db, h[i - 1], s, i - 1)
    BY <1>4
  <2>2. Visited(db, Discount(db, h[i - 1], lit, i), s, i)
    BY <2>1, DiscountVisits
  <2> QED BY <2>2, <1>1, <1>2
<1>5. n \in T
  <2> HIDE DEF T
  <2>1. Inductive(n, T)
    BY <1>1, <1>3, <1>4 DEF Inductive
  <2> QED BY <2>1, InductionUpTo
<1> QED BY <1>2, <1>5

-----------------------------------------------------------------------------
(***************************************************************************)
(* Propagation to the end.                                                 *)
(***************************************************************************)
Good(db, s) == s \in States(db) /\ Orderly(s) /\ CountersRight(db, s)

(* What propagation makes of s. *)
Propagated(db, r, s) ==
  Good(db, r) /\ Extends(r, s) /\ Sound(db, r, s) /\ s.next <= r.next

(* The number of propagated literals changes nothing else. *)
LEMMA WithNext ==
  ASSUME NEW db, NEW s \in States(db), NEW n \in Nat
  PROVE  LET t == [s EXCEPT !.next = n] IN
           /\ t \in States(db) /\ t.trail = s.trail /\ t.next = n /\ t.sums = s.sums
           /\ t.conflict = s.conflict
BY DEF States, State

(* All counters are right if they are up to the last. *)
LEMMA CountersRightIs ==
  ASSUME NEW db \in Databases, NEW s
  PROVE  CountersRight(db, s) <=> CountersUpTo(db, s, Len(db))
<1>1. DOMAIN db = 1 .. Len(db)
  BY DEF Databases
<1> QED BY <1>1, Zenon DEF CountersRight, CountersUpTo, Remaining

(* The next literal becomes known to be false, but not yet to the counters. *)
LEMMA NextStale ==
  ASSUME NEW db \in Databases, NEW s, Good(db, s), s.next # Len(s.trail)
  PROVE  LET lit == -s.trail[s.next + 1].lit
             t   == [s EXCEPT !.next = @ + 1]
         IN t \in States(db) /\ Orderly(t) /\ Stale(db, t, lit)
<1> DEFINE lit == -s.trail[s.next + 1].lit
           t == [s EXCEPT !.next = @ + 1]
<1>1. s \in State /\ s \in States(db) /\ s.next \in Nat /\ Len(s.trail) \in Nat
  BY StateFacts DEF Good, States
<1>2. s.next + 1 \in 1 .. Len(s.trail)
  BY <1>1 DEF Good, Orderly
<1>3. /\ t \in States(db) /\ t.trail = s.trail /\ t.next = s.next + 1 /\ t.sums = s.sums
      /\ t.conflict = s.conflict
  <2>1. s.next + 1 \in Nat
    BY <1>1
  <2> QED BY <1>1, <2>1, WithNext
<1> HIDE DEF t
<1>4. Orderly(t)
  BY <1>1, <1>2, <1>3 DEF Good, Orderly
<1>5. 1 .. s.next + 1 = (1 .. s.next) \cup {s.next + 1}
  BY <1>1
<1>6. Discounted(t) = Discounted(s) \cup {lit}
  BY <1>3, <1>5 DEF Discounted
<1>7. lit \notin Discounted(s)
  <2>1. \A i \in 1 .. s.next : i \in 1 .. Len(s.trail) /\ i # s.next + 1
    BY <1>1, <1>2
  <2>2. \A i \in 1 .. s.next : s.trail[i].lit # s.trail[s.next + 1].lit
    BY <2>1, <1>2 DEF Good, Orderly, Consistent
  <2>3. \A i \in 1 .. s.next : s.trail[i].lit \in Int /\ s.trail[s.next + 1].lit \in Int
    BY <2>1, <1>1, <1>2, StateFacts, LitFacts
  <2>4. \A i \in 1 .. s.next : -s.trail[i].lit # -s.trail[s.next + 1].lit
    BY <2>2, <2>3
  <2> QED BY <2>4 DEF Discounted
<1> HIDE DEF lit
<1>8. ASSUME NEW id \in 1 .. Len(db)
      PROVE  t.sums[id] = Remaining(db, t, id) - MaxCoef(db[id])
                            + (IF lit \in LitsOf(db[id]) THEN Coef(db[id], lit) ELSE 0)
  <2> DEFINE c == db[id]
             R == LitsOf(c) \ Discounted(s)
  <2>1. c \in Constraint
    BY DEF Databases
  <2>2. t.sums[id] = Weigh(c, R) - c.k - MaxCoef(c)
    BY <1>3, CountersRightIs DEF Good, CountersUpTo, Remaining
  <2>3. LitsOf(c) \ Discounted(t) = R \ {lit}
    BY <1>6
  <2>4. Remaining(db, t, id) = Weigh(c, R \ {lit}) - c.k
    BY <2>3 DEF Remaining
  <2>5. Weigh(c, R) \in Nat /\ Weigh(c, R \ {lit}) \in Nat /\ c.k \in Nat /\ MaxCoef(c) \in Nat
    BY <2>1, ConstraintFacts
  <2>6. CASE lit \notin LitsOf(c)
    <3>1. R \ {lit} = R
      BY <2>6
    <3>2. Remaining(db, t, id) = Weigh(c, R) - c.k
      BY <3>1, <2>4
    <3> HIDE DEF R
    <3> QED BY <3>2, <2>2, <2>5, <2>6
  <2>7. CASE lit \in LitsOf(c)
    <3>1. PICK j \in 1 .. Len(c.lhs) : c.lhs[j].lit = lit /\ c.lhs[j].coef = Coef(c, lit)
      BY <2>1, <2>7, TermOfLit
    <3>2. lit \in R
      BY <1>7, <2>7
    <3> HIDE DEF c, R
    <3>3. Weigh(c, R \ {lit}) = Weigh(c, R) - Coef(c, lit)
      BY <3>1, <3>2, <2>1, WeighWithout
    <3>4. Coef(c, lit) \in Nat
      BY <2>1, <2>7, ConstraintFacts
    <3> QED BY <3>3, <3>4, <2>2, <2>4, <2>5, <2>7 DEF c
  <2> QED BY <2>6, <2>7
<1>9. Stale(db, t, lit)
  BY <1>6, <1>8 DEF Stale
<1> QED BY <1>3, <1>4, <1>9 DEF t, lit

(* One round: a literal more is propagated, or there is a conflict and the
   counters are as they were. *)
LEMMA PropagateNextMakes ==
  ASSUME NEW db \in Databases, NEW s, Good(db, s)
  PROVE  /\ Propagated(db, PropagateNext(db, s), s)
         /\ \/ s.conflict \/ s.next = Len(s.trail)
            \/ PropagateNext(db, s).conflict
            \/ PropagateNext(db, s).next = s.next + 1
<1>1. s \in State /\ s \in States(db) /\ s.next \in Nat /\ Len(s.trail) \in Nat /\ s.sums \in Seq(Int)
      /\ Len(s.sums) = Len(db)
  BY StateFacts DEF Good, States
<1>2. CASE s.conflict \/ s.next = Len(s.trail)
  <2>1. Propagated(db, s, s)
    BY <1>1, ExtendsSelf DEF Propagated, Sound
  <2> QED BY <2>1, <1>2 DEF PropagateNext
<1>3. CASE ~(s.conflict \/ s.next = Len(s.trail))
  <2> DEFINE lit == -s.trail[s.next + 1].lit
             t == [s EXCEPT !.next = @ + 1]
             v == VisitLists(db, t, lit)
             r == PropagateNext(db, s)
  <2>1. t \in States(db) /\ Orderly(t) /\ Stale(db, t, lit)
    BY <1>3, NextStale
  <2>2. /\ t.trail = s.trail /\ t.next = s.next + 1 /\ t.sums = s.sums
        /\ t.conflict = s.conflict
    BY <1>1 DEF States, State
  <2>3. r = Unpropagate(RestoreCounters(v, t.sums))
    BY <1>3 DEF PropagateNext, Visit
  <2> HIDE DEF t, lit, r
  <2>4. Visited(db, v, t, Len(db))
    BY <2>1, VisitListsVisits
  <2> HIDE DEF v
  <2>5. t \in State /\ v \in State /\ v \in States(db)
    BY <2>1, <2>4 DEF Visited, States
  <2>6. Extends(v, s) /\ Sound(db, v, s) /\ v.next = s.next + 1
    <3>1. Level(t) = Level(s) /\ TrueLits(t) = TrueLits(s)
      BY <2>2 DEF Level, TrueLits
    <3> QED BY <3>1, <2>2, <2>4 DEF Visited, Extends, Sound, Agrees
  <2>7. CASE v.conflict
    <3>1. /\ r.trail = v.trail /\ r.sums = s.sums /\ r.next = s.next /\ r.conflict = TRUE
          /\ r \in States(db)
      <4> DEFINE u == [v EXCEPT !.sums = s.sums]
      <4>1. u \in States(db) /\ u.trail = v.trail /\ u.sums = s.sums /\ u.next = s.next + 1 /\ u.conflict
        BY <2>5, <2>6, <2>7, <1>1 DEF States, State
      <4>2. r = [u EXCEPT !.next = @ - 1]
        BY <2>2, <2>3, <2>7, <4>1 DEF Unpropagate, RestoreCounters
      <4> HIDE DEF u
      <4>3. u.next - 1 = s.next
        BY <4>1, <1>1
      <4>4. r = [u EXCEPT !.next = s.next]
        BY <4>2, <4>3
      <4> QED BY <4>1, <4>4, <1>1 DEF States, State
    <3>2. r \in State /\ TrueLits(r) = TrueLits(v)
      BY <3>1 DEF States, TrueLits
    <3>3. Orderly(r)
      BY <3>1, <2>4, <2>5, <2>6, <1>1, StateFacts DEF Visited, Orderly
    <3>4. Extends(r, s)
      BY <3>1, <2>6 DEF Extends
    <3>5. Sound(db, r, s)
      BY <3>1, <3>2, <2>6, <2>7 DEF Sound, Agrees
    <3>6. Discounted(r) = Discounted(s)
      BY <3>1, <3>2, <3>4, <1>1, SameDiscounted DEF Good, Orderly
    <3>7. CountersRight(db, r)
      BY <3>1, <3>6 DEF Good, CountersRight
    <3> QED BY <3>1, <3>3, <3>4, <3>5, <3>7, <1>1 DEF Propagated, Good, r
  <2>8. CASE ~v.conflict
    <3>1. r = v
      BY <2>3, <2>8 DEF Unpropagate, RestoreCounters
    <3>2. CountersRight(db, v)
      BY <2>4, <2>8, CountersRightIs DEF Visited
    <3> QED BY <3>1, <3>2, <2>4, <2>5, <2>6, <1>1 DEF Propagated, Good, Visited, r
  <2> QED BY <2>7, <2>8
<1> QED BY <1>2, <1>3

(* Propagating on. *)
LEMMA PropagatedTrans ==
  ASSUME NEW db \in Databases, NEW s, Good(db, s), NEW r, Propagated(db, r, s),
         NEW q, Propagated(db, q, r)
  PROVE  Propagated(db, q, s)
<1>1. s \in State /\ r \in State /\ q \in State
  BY DEF Propagated, Good, States
<1>2. Extends(q, s) /\ Sound(db, q, s)
  BY <1>1, ExtendsTrans, SoundTrans DEF Propagated
<1>3. s.next \in Nat /\ r.next \in Nat /\ q.next \in Nat
  BY <1>1, StateFacts
<1> QED BY <1>2, <1>3 DEF Propagated

(* A trail without repetition has at most one literal of each variable. *)
LEMMA TrailFits ==
  ASSUME NEW s \in State, Orderly(s)
  PROVE  Len(s.trail) <= NumVars
<1> DEFINE n == Len(s.trail)
           var == [i \in 1 .. n |-> IF s.trail[i].lit > 0 THEN s.trail[i].lit ELSE -s.trail[i].lit]
<1>1. n \in Nat /\ NumVars \in Nat /\ \A i \in 1 .. n : s.trail[i].lit \in Lits
  BY StateFacts, VarsAssumption
<1>2. SUFFICES ASSUME n > NumVars PROVE FALSE
  BY <1>1
<1>3. IsFiniteSet(1 .. n) /\ Cardinality(1 .. n) = n
  BY <1>1, FS_Interval
<1>4. IsFiniteSet(Vars) /\ Cardinality(Vars) = NumVars
  BY <1>1, FS_Interval DEF Vars
<1>5. \A i \in 1 .. n : var[i] \in Vars
  BY <1>1 DEF Lits, Vars
<1>6. var \in [1 .. n -> Vars]
  BY <1>5
<1> HIDE DEF var
<1>7. PICK i \in 1 .. n, j \in 1 .. n : i # j /\ var[i] = var[j]
  BY <1>2, <1>3, <1>4, <1>6, <1>1, FS_PigeonHole
<1>8. s.trail[i].lit \in Int /\ s.trail[j].lit \in Int
  BY <1>1, LitFacts
<1>9. s.trail[i].lit = s.trail[j].lit \/ s.trail[i].lit = -s.trail[j].lit
  BY <1>7, <1>8 DEF var
<1> QED BY <1>7, <1>9 DEF Orderly, Consistent

GoodStates(db) == {s \in States(db) : Good(db, s)}

(* Propagation goes round by round. *)
LEMMA PropagateSteps ==
  ASSUME NEW db \in Databases, NEW s, Good(db, s)
  PROVE  \E h \in [0 .. NumVars -> GoodStates(db)] :
           /\ h[0] = s
           /\ \A i \in 1 .. NumVars : h[i] = PropagateNext(db, h[i - 1])
           /\ Propagate(db, s) = h[NumVars]
<1> DEFINE n == NumVars
           S == GoodStates(db)
           step(r, i) == PropagateNext(db, r)
           idx == [i \in Vars |-> i]
           g == [p \in S \X (1 .. n) |-> step(p[1], p[2])]
           E(f) == f = [t \in SUBSET DOMAIN idx |->
                          IF t = {} THEN s ELSE step(f[t \ {Max(t)}], idx[Max(t)])]
           F == CHOOSE f : E(f)
<1>1. n \in Nat /\ s \in S /\ DOMAIN idx = 1 .. n /\ \A i \in 1 .. n : idx[i] = i
  BY VarsAssumption DEF Vars, GoodStates, Good
<1>2. g \in [S \X (1 .. n) -> S]
  BY PropagateNextMakes DEF GoodStates, Propagated, Good
<1>3. \A t \in SUBSET (1 .. n), r \in S : t # {} => g[<<r, Max(t)>>] = step(r, idx[Max(t)])
  BY <1>1, MaxInSet
<1>4. Propagate(db, s) = F[DOMAIN idx]
  BY Zenon DEF Propagate, FoldLeft, MapThenFoldSet
<1> HIDE DEF step, g, S, n, idx
<1>5. \E f : E(f)
  <2>1. PICK f \in [SUBSET (1 .. n) -> S] : Solves(f, n, s, g)
    BY <1>1, <1>2, FoldExists
  <2>2. E(f)
    BY <2>1, <1>1, <1>3 DEF Solves
  <2> QED BY <2>2
<1>6. E(F)
  BY <1>5, Zenon
<1> HIDE DEF F
<1>7. Follows(F, n, S, s, g)
  BY <1>1, <1>2, <1>6, <1>3 DEF Follows
<1>8. PICK h : Steps(h, F, n, S, s, g)
  BY <1>7, FoldSteps
<1>9. /\ h \in [0 .. n -> S] /\ h[0] = s /\ F[1 .. n] = h[n]
      /\ \A i \in 1 .. n : h[i] = g[<<h[i - 1], i>>] /\ h[i - 1] \in S
  BY <1>8, <1>1 DEF Steps
<1>10. \A i \in 1 .. n : h[i] = step(h[i - 1], i)
  BY <1>9 DEF g
<1> QED BY <1>1, <1>4, <1>9, <1>10 DEF n, S, step

(* Propagation only adds what follows, on the level it is at, and ends in a
   conflict or with every literal propagated. *)
LEMMA PropagateMakes ==
  ASSUME NEW db \in Databases, NEW s, Good(db, s)
  PROVE  /\ Propagated(db, Propagate(db, s), s)
         /\ Propagate(db, s).conflict \/ Propagate(db, s).next = Len(Propagate(db, s).trail)
<1>1. NumVars \in Nat
  BY VarsAssumption
<1>2. PICK h \in [0 .. NumVars -> GoodStates(db)] :
           /\ h[0] = s
           /\ \A i \in 1 .. NumVars : h[i] = PropagateNext(db, h[i - 1])
           /\ Propagate(db, s) = h[NumVars]
  BY PropagateSteps
<1> DEFINE Far(r, i) == r.conflict \/ r.next = Len(r.trail) \/ r.next >= s.next + i
           T == {i \in 0 .. NumVars : Propagated(db, h[i], s) /\ Far(h[i], i)}
<1>3. s \in State /\ s.next \in Nat
  BY StateFacts DEF Good, States
<1>4. 0 \in T
  <2>1. Propagated(db, s, s)
    BY <1>3, ExtendsSelf DEF Propagated, Sound
  <2> QED BY <2>1, <1>1, <1>2, <1>3
<1>5. ASSUME NEW i \in 1 .. NumVars, i - 1 \in T PROVE i \in T
  <2> DEFINE r == h[i - 1]
             q == PropagateNext(db, r)
  <2>1. Propagated(db, r, s) /\ Far(r, i - 1) /\ q = h[i]
    BY <1>5, <1>2
  <2>2. Propagated(db, q, r) /\ (\/ r.conflict \/ r.next = Len(r.trail)
                                 \/ q.conflict \/ q.next = r.next + 1)
    BY <2>1, PropagateNextMakes DEF Propagated
  <2>3. Propagated(db, q, s)
    BY <2>1, <2>2, PropagatedTrans
  <2>4. r \in State /\ q \in State /\ r.next \in Nat /\ q.next \in Nat
    BY <2>1, <2>2, StateFacts DEF Propagated, Good, States
  <2>5. r.conflict \/ r.next = Len(r.trail) => q = r
    BY DEF PropagateNext
  <2> HIDE DEF r, q
  <2>6. Far(q, i)
    BY <2>1, <2>2, <2>4, <2>5, <1>3
  <2> HIDE DEF Far
  <2> QED BY <2>1, <2>3, <2>6, <1>1
<1>6. NumVars \in T
  <2> HIDE DEF T
  <2>1. Inductive(NumVars, T)
    BY <1>1, <1>4, <1>5 DEF Inductive
  <2> QED BY <2>1, InductionUpTo
<1> DEFINE r == Propagate(db, s)
<1>7. Propagated(db, r, s) /\ Far(r, NumVars)
  BY <1>2, <1>6
<1> HIDE DEF r
<1>8. r.next <= Len(r.trail) /\ Len(r.trail) <= NumVars /\ r.next \in Nat /\ Len(r.trail) \in Nat
  BY <1>7, TrailFits, StateFacts DEF Propagated, Good, Orderly, States
<1>9. r.conflict \/ r.next = Len(r.trail)
  BY <1>1, <1>3, <1>7, <1>8
<1> QED BY <1>7, <1>9 DEF r

(* What assuming lit and propagating makes of s. *)
Tried(db, r, s, lit) ==
  /\ Good(db, r) /\ Level(r) = Level(s) + 1 /\ lit \in TrueLits(r)
  /\ Len(s.trail) < Len(r.trail)
  /\ \A i \in 1 .. Len(s.trail) : r.trail[i] = s.trail[i]
  /\ \A i \in Len(s.trail) + 1 .. Len(r.trail) : r.trail[i].dl = Level(s) + 1
  /\ \A m \in Models(db) : Agrees(s, m) /\ lit \in m => Agrees(r, m)
  /\ r.conflict \/ r.next = Len(r.trail)

(* A literal is assumed on a level of its own and propagated. *)
LEMMA TryMakes ==
  ASSUME NEW db \in Databases, NEW s, Good(db, s), NEW lit \in Lits, IsUndefLit(s, lit)
  PROVE  Tried(db, AssumeAndPropagate(db, s, lit), s, lit)
<1> DEFINE a == Assume(s, lit)
           r == AssumeAndPropagate(db, s, lit)
           n == Len(s.trail)
<1>1. s \in State /\ s \in States(db) /\ Level(s) \in Nat /\ s.next \in Nat /\ n \in Nat /\ Orderly(s)
  BY StateFacts DEF Good, States
<1>2. Level(s) + 1 \in Nat /\ NoReason \in Reason
  BY <1>1, ReasonFacts
<1>3. Append(s.trail, Assigned(lit, Level(s) + 1, NoReason)) \in Seq(TrailEntry)
  BY <1>1, <1>2, AppendEntry
<1>4. /\ a.trail = Append(s.trail, Assigned(lit, Level(s) + 1, NoReason)) /\ a.next = s.next
      /\ a.conflict = s.conflict /\ a.sums = s.sums /\ a \in States(db)
  <2> PICK tr : tr = Append(s.trail, Assigned(lit, Level(s) + 1, NoReason))
    OBVIOUS
  <2>1. a = [s EXCEPT !.trail = tr] /\ tr \in Seq(TrailEntry)
    BY <1>3 DEF Assume
  <2> HIDE DEF a
  <2> QED BY <2>1, <1>1 DEF States, State
<1>5. a \in State
  BY <1>4 DEF States
<1> HIDE DEF a
<1>6. /\ Orderly(a) /\ TrueLits(a) = TrueLits(s) \cup {lit}
      /\ Level(a) = Level(s) + 1 /\ Len(a.trail) = n + 1
      /\ a.trail[Len(a.trail)].dl = Level(s) + 1
      /\ \A i \in 1 .. n : a.trail[i] = s.trail[i]
  <2>1. Level(s) + 1 \in {Level(s), Level(s) + 1}
    OBVIOUS
  <2> QED BY <2>1, <1>1, <1>2, <1>4, <1>5, OrderlyAppend
<1>7. Discounted(a) = Discounted(s)
  <2>1. \A i \in 1 .. s.next : i \in 1 .. n
    BY <1>1 DEF Orderly
  <2>2. \A i \in 1 .. s.next : a.trail[i] = s.trail[i]
    BY <2>1, <1>6
  <2> QED BY <2>2, <1>4 DEF Discounted
<1>8. CountersRight(db, a)
  BY <1>4, <1>7 DEF Good, CountersRight
<1>9. Good(db, a)
  BY <1>4, <1>6, <1>8 DEF Good
<1>10. r = Propagate(db, a)
  BY DEF AssumeAndPropagate, a
<1>11. Propagated(db, r, a) /\ (r.conflict \/ r.next = Len(r.trail))
  BY <1>9, <1>10, PropagateMakes
<1> HIDE DEF r
<1>12. r \in State /\ Len(r.trail) \in Nat
  BY <1>11, StateFacts DEF Propagated, Good, States
<1>13. Level(r) = Level(s) + 1
  BY <1>5, <1>6, <1>11, <1>12, ExtendsLevel DEF Propagated
<1>14. /\ n < Len(r.trail)
       /\ \A i \in 1 .. n : r.trail[i] = s.trail[i]
       /\ \A i \in n + 1 .. Len(r.trail) : r.trail[i].dl = Level(s) + 1
  <2>1. /\ n + 1 <= Len(r.trail) /\ \A i \in 1 .. n + 1 : r.trail[i] = a.trail[i]
        /\ \A i \in (n + 1) + 1 .. Len(r.trail) : r.trail[i].dl = Level(s) + 1
    BY <1>6, <1>11 DEF Propagated, Extends
  <2>2. a.trail[n + 1].dl = Level(s) + 1
    BY <1>6
  <2>3. \A i \in n + 1 .. Len(r.trail) : i = n + 1 \/ i \in (n + 1) + 1 .. Len(r.trail)
    BY <1>1, <1>12
  <2>4. n + 1 \in 1 .. n + 1 /\ (\A i \in 1 .. n : i \in 1 .. n + 1) /\ n < Len(r.trail)
    BY <1>1, <1>12, <2>1
  <2> QED BY <2>1, <2>2, <2>3, <2>4, <1>6
<1>15. lit \in TrueLits(r)
  <2>1. r.trail[n + 1] = Append(s.trail, Assigned(lit, Level(s) + 1, NoReason))[n + 1]
    BY <1>1, <1>4, <1>6, <1>11 DEF Propagated, Extends
  <2>2. r.trail[n + 1].lit = lit
    BY <2>1, <1>1, <1>2, AppendEntry DEF Assigned
  <2>3. n + 1 \in DOMAIN r.trail
    BY <1>1, <1>12, <1>14, StateFacts
  <2> QED BY <2>2, <2>3 DEF TrueLits
<1>16. ASSUME NEW m \in Models(db), Agrees(s, m) /\ lit \in m PROVE Agrees(r, m)
  <2>1. Agrees(a, m)
    BY <1>4, <1>6, <1>16 DEF Agrees
  <2> QED BY <2>1, <1>11 DEF Propagated, Sound
<1> QED BY <1>11, <1>13, <1>14, <1>15, <1>16 DEF Tried, Propagated, r

-----------------------------------------------------------------------------
(***************************************************************************)
(* Undoing.                                                                *)
(***************************************************************************)

(* r is s with the top of the trail gone, which is above level dl. *)
Cut(r, s, dl) ==
  /\ Len(r.trail) <= Len(s.trail)
  /\ \A i \in 1 .. Len(r.trail) : r.trail[i] = s.trail[i]
  /\ \A i \in Len(r.trail) + 1 .. Len(s.trail) : s.trail[i].dl > dl
  /\ r.next = IF s.next > Len(r.trail) THEN Len(r.trail) ELSE s.next

(* A sequence without its last element. *)
LEMMA FrontFacts ==
  ASSUME NEW S, NEW q \in Seq(S), q # <<>>
  PROVE  /\ Front(q) \in Seq(S) /\ Len(Front(q)) = Len(q) - 1 /\ Len(q) \in Nat \ {0}
         /\ \A i \in 1 .. Len(q) - 1 : Front(q)[i] = q[i]
         /\ Last(q) = q[Len(q)] /\ Last(q) \in S
<1>1. Len(q) \in Nat \ {0}
  BY EmptySeq
<1>2. \A i \in 1 .. Len(q) - 1 : q[i] \in S
  BY <1>1, ElementOfSeq
<1>3. Last(q) = q[Len(q)] /\ Last(q) \in S
  BY <1>1, ElementOfSeq DEF Last
<1>4. Front(q) = SubSeq(q, 1, Len(q) - 1)
  BY DEF Front
<1> PICK k : k = Len(q) - 1
  OBVIOUS
<1>5. k \in Nat /\ (\A i \in 1 .. k : q[i] \in S) /\ \A i \in 1 .. k : 1 + i - 1 = i
  BY <1>1, <1>2
<1>6. /\ SubSeq(q, 1, k) \in Seq(S)
      /\ Len(SubSeq(q, 1, k)) = IF 1 <= k THEN k - 1 + 1 ELSE 0
      /\ \A i \in 1 .. k - 1 + 1 : SubSeq(q, 1, k)[i] = q[1 + i - 1]
  BY <1>5, SubSeqProperties
<1>7. k - 1 + 1 = k /\ Len(SubSeq(q, 1, k)) = k
  BY <1>5, <1>6
<1>8. \A i \in 1 .. k : SubSeq(q, 1, k)[i] = q[i]
  BY <1>5, <1>6, <1>7
<1> QED BY <1>1, <1>3, <1>4, <1>6, <1>7, <1>8

(* One literal is unassigned, and its counters are restored. *)
LEMMA PopMakes ==
  ASSUME NEW db \in Databases, NEW s, Good(db, s), s.trail # <<>>, NEW dl \in Int,
         s.trail[Len(s.trail)].dl > dl
  PROVE  /\ Good(db, PopAndUnassign(db, s)) /\ Cut(PopAndUnassign(db, s), s, dl)
         /\ Len(PopAndUnassign(db, s).trail) = Len(s.trail) - 1
<1> DEFINE r == PopAndUnassign(db, s)
           top == Len(s.trail)
           lit == Last(s.trail).lit
           sums == [id \in DOMAIN db |->
                            IF s.next = top /\ -lit \in LitsOf(db[id])
                              THEN s.sums[id] + Coef(db[id], -lit)
                              ELSE s.sums[id]]
           next == IF s.next = top THEN top - 1 ELSE s.next
           heap == s.heap \cup ({lit, -lit} \cap Vars)
<1>1. /\ s \in State /\ s \in States(db) /\ s.trail \in Seq(TrailEntry) /\ s.next \in Nat /\ s.next <= top
      /\ s.sums \in Seq(Int) /\ Len(s.sums) = Len(db) /\ Len(db) \in Nat /\ DOMAIN db = 1 .. Len(db)
  BY StateFacts DEF Good, States, Orderly, Databases
<1>2. /\ Front(s.trail) \in Seq(TrailEntry) /\ Len(Front(s.trail)) = top - 1 /\ top \in Nat \ {0}
      /\ \A i \in 1 .. top - 1 : Front(s.trail)[i] = s.trail[i]
      /\ Last(s.trail) = s.trail[top]
  BY <1>1, FrontFacts
<1>3. lit = s.trail[top].lit /\ lit \in Lits /\ -lit \in Lits
  <2>1. lit = s.trail[top].lit /\ top \in 1 .. top
    BY <1>2
  <2>2. s.trail[top].lit \in Lits
    BY <2>1, <1>1, StateFacts
  <2> QED BY <2>1, <2>2, LitFacts
<1>4. next \in Nat
  BY <1>1, <1>2
<1>5. \A id \in 1 .. Len(db) : -lit \in LitsOf(db[id]) => Coef(db[id], -lit) \in Nat
  BY ConstraintFacts DEF Databases
<1>6. sums \in Seq(Int) /\ Len(sums) = Len(db)
  <2>1. \A id \in 1 .. Len(db) : sums[id] \in Int
    BY <1>1, <1>5
  <2> QED BY <2>1, <1>1
<1>7. heap \in SUBSET Vars
  BY <1>1, <1>3, LitFacts DEF State
<1>8. r = [[[[s EXCEPT !.trail = Front(s.trail)] EXCEPT !.heap = heap] EXCEPT !.next = next]
              EXCEPT !.sums = sums]
  BY <1>1 DEF PopAndUnassign, States, State
<1> HIDE DEF sums, next, heap, r
<1>9. /\ r \in States(db) /\ r.trail = Front(s.trail) /\ r.next = next /\ r.sums = sums
      /\ r.conflict = s.conflict
  <2> DEFINE a == [s EXCEPT !.trail = Front(s.trail)]
             b == [a EXCEPT !.heap = heap]
             c == [b EXCEPT !.next = next]
  <2>1. a \in States(db) /\ a.trail = Front(s.trail) /\ a.conflict = s.conflict
    BY <1>1, <1>2 DEF States, State
  <2> HIDE DEF a
  <2>2. b \in States(db) /\ b.trail = Front(s.trail) /\ b.conflict = s.conflict
    BY <2>1, <1>7 DEF States, State
  <2> HIDE DEF b
  <2>3. c \in States(db) /\ c.trail = Front(s.trail) /\ c.next = next /\ c.conflict = s.conflict
    BY <2>2, <1>4 DEF States, State
  <2>4. r = [c EXCEPT !.sums = sums]
    BY <1>8 DEF a, b
  <2> HIDE DEF c
  <2> QED BY <2>3, <2>4, <1>6 DEF States, State
<1>10. r \in State /\ Len(r.trail) = top - 1 /\ \A i \in 1 .. top - 1 : r.trail[i] = s.trail[i]
  BY <1>2, <1>9 DEF States
<1>11. Cut(r, s, dl)
  <2>1. \A i \in Len(r.trail) + 1 .. top : i = top
    BY <1>2, <1>10
  <2> QED BY <2>1, <1>1, <1>2, <1>9, <1>10 DEF Cut, next
<1>12. Orderly(r)
  <2>0. \A i \in 1 .. top - 1 : i \in 1 .. top /\ (i = 1 \/ i - 1 \in 1 .. top - 1)
    BY <1>2
  <2>1. Consistent(r.trail)
    BY <2>0, <1>10 DEF Good, Orderly, Consistent
  <2>2. Stepwise(r.trail)
    <3>1. \A i \in 1 .. top - 1 : LevelAt(r.trail, i - 1) = LevelAt(s.trail, i - 1)
      BY <2>0, <1>10 DEF LevelAt
    <3>2. \A i \in 1 .. top - 1 : s.trail[i].dl \in {LevelAt(s.trail, i - 1), LevelAt(s.trail, i - 1) + 1}
      BY <2>0 DEF Good, Orderly, Stepwise
    <3> QED BY <3>1, <3>2, <1>10 DEF Stepwise
  <2> QED BY <2>1, <2>2, <1>1, <1>2, <1>9, <1>10 DEF Orderly, next
<1>13. CASE s.next # top
  <2>1. \A i \in 1 .. s.next : i \in 1 .. top - 1
    BY <1>1, <1>2, <1>13
  <2>2. r.next = s.next /\ \A id \in 1 .. Len(db) : r.sums[id] = s.sums[id]
    BY <1>9, <1>13, <1>1 DEF next, sums
  <2>3. Discounted(r) = Discounted(s)
    BY <2>1, <2>2, <1>10 DEF Discounted
  <2>4. CountersRight(db, r)
    BY <2>2, <2>3, <1>1 DEF Good, CountersRight
  <2> QED BY <2>4, <1>9, <1>10, <1>11, <1>12 DEF Good, r
<1>14. CASE s.next = top
  <2>1. r.next = top - 1 /\ 1 .. top = (1 .. top - 1) \cup {top}
    BY <1>2, <1>9, <1>14 DEF next
  <2>2. Discounted(s) = Discounted(r) \cup {-lit}
    BY <2>1, <1>3, <1>10, <1>14 DEF Discounted
  <2>3. -lit \notin Discounted(r)
    <3>0. \A i \in 1 .. top - 1 : i \in 1 .. top /\ i # top /\ top \in 1 .. top
      BY <1>2
    <3>1. \A i \in 1 .. top - 1 : s.trail[i].lit # lit /\ s.trail[i].lit \in Lits
      <4>1. \A i \in 1 .. top - 1 : s.trail[i].lit \in Lits
        BY <3>0, <1>1, StateFacts
      <4> HIDE DEF lit
      <4> QED BY <4>1, <3>0, <1>3 DEF Good, Orderly, Consistent
    <3>2. \A i \in 1 .. top - 1 : s.trail[i].lit \in Int /\ lit \in Int
      BY <3>1, <1>3, LitFacts
    <3>3. \A i \in 1 .. top - 1 : -s.trail[i].lit # -lit
      <4> HIDE DEF lit
      <4> QED BY <3>1, <3>2
    <3> HIDE DEF lit
    <3> QED BY <3>3, <2>1, <1>10 DEF Discounted
  <2>4. ASSUME NEW id \in 1 .. Len(db)
        PROVE  r.sums[id] = Remaining(db, r, id) - MaxCoef(db[id])
    <3> DEFINE c == db[id]
               A == LitsOf(c) \ Discounted(r)
    <3>1. c \in Constraint
      BY DEF Databases
    <3>2. s.sums[id] = Weigh(c, A \ {-lit}) - c.k - MaxCoef(c)
      <4>1. LitsOf(c) \ Discounted(s) = A \ {-lit}
        BY <2>2
      <4>2. s.sums[id] = Remaining(db, s, id) - MaxCoef(db[id])
        BY CountersRightIs DEF Good, CountersUpTo
      <4> HIDE DEF A
      <4> QED BY <4>1, <4>2 DEF Remaining
    <3>3. Weigh(c, A) \in Nat /\ Weigh(c, A \ {-lit}) \in Nat /\ c.k \in Nat /\ MaxCoef(c) \in Nat
      BY <3>1, ConstraintFacts
    <3>4. Remaining(db, r, id) = Weigh(c, A) - c.k
      BY DEF Remaining
    <3>5. CASE -lit \notin LitsOf(c)
      <4>1. A \ {-lit} = A
        BY <3>5
      <4>2. r.sums[id] = s.sums[id]
        BY <3>5, <1>1, <1>9 DEF sums
      <4> HIDE DEF A, c
      <4> QED BY <4>1, <4>2, <3>2, <3>3, <3>4 DEF c
    <3>6. CASE -lit \in LitsOf(c)
      <4>1. PICK j \in 1 .. Len(c.lhs) : c.lhs[j].lit = -lit /\ c.lhs[j].coef = Coef(c, -lit)
        BY <3>1, <3>6, TermOfLit
      <4>2. -lit \in A
        BY <2>3, <3>6
      <4>3. r.sums[id] = s.sums[id] + Coef(c, -lit) /\ Coef(c, -lit) \in Nat
        BY <3>6, <1>1, <1>5, <1>9, <1>14 DEF sums
      <4> HIDE DEF A, c
      <4>4. Weigh(c, A \ {-lit}) = Weigh(c, A) - Coef(c, -lit)
        BY <4>1, <4>2, <3>1, WeighWithout
      <4> QED BY <4>3, <4>4, <3>2, <3>3, <3>4 DEF c
    <3> QED BY <3>5, <3>6
  <2>5. CountersRight(db, r)
    BY <2>4, CountersRightIs DEF CountersUpTo
  <2> QED BY <2>5, <1>9, <1>10, <1>11, <1>12 DEF Good, r
<1> QED BY <1>13, <1>14

(* Cutting twice is cutting. *)
LEMMA CutTrans ==
  ASSUME NEW s \in State, NEW r \in State, NEW q \in State, NEW dl \in Int,
         Cut(r, s, dl), Cut(q, r, dl)
  PROVE  Cut(q, s, dl)
<1>1. /\ Len(s.trail) \in Nat /\ Len(r.trail) \in Nat /\ Len(q.trail) \in Nat
      /\ s.next \in Nat /\ r.next \in Nat /\ q.next \in Nat
  BY StateFacts
<1>2. \A i \in 1 .. Len(q.trail) : q.trail[i] = s.trail[i]
  BY <1>1 DEF Cut
<1>3. \A i \in Len(q.trail) + 1 .. Len(s.trail) : s.trail[i].dl > dl
  <2>1. \A i \in Len(q.trail) + 1 .. Len(s.trail) :
          i \in Len(r.trail) + 1 .. Len(s.trail) \/ i \in Len(q.trail) + 1 .. Len(r.trail)
    BY <1>1
  <2>2. \A i \in Len(q.trail) + 1 .. Len(r.trail) : i \in 1 .. Len(r.trail)
    BY <1>1
  <2>3. \A i \in Len(q.trail) + 1 .. Len(r.trail) : s.trail[i].dl > dl
    BY <2>2 DEF Cut
  <2> QED BY <2>1, <2>3 DEF Cut
<1> QED BY <1>1, <1>2, <1>3 DEF Cut

(* Levels never fall along a trail. *)
LEMMA LevelsGrow ==
  ASSUME NEW s \in State, Stepwise(s.trail), NEW j \in 1 .. Len(s.trail)
  PROVE  \A i \in 1 .. j : s.trail[i].dl <= s.trail[j].dl
<1>1. Len(s.trail) \in Nat /\ \A i \in 1 .. Len(s.trail) : s.trail[i].dl \in Nat
  BY StateFacts
<1> DEFINE n == Len(s.trail)
           T == {k \in 0 .. n : \A i \in 1 .. k : s.trail[i].dl <= s.trail[k].dl}
<1>2. 0 \in T
  BY <1>1
<1>3. ASSUME NEW k \in 1 .. n, k - 1 \in T PROVE k \in T
  <2>1. s.trail[k].dl \in {LevelAt(s.trail, k - 1), LevelAt(s.trail, k - 1) + 1}
    BY DEF Stepwise
  <2>2. ASSUME NEW i \in 1 .. k PROVE s.trail[i].dl <= s.trail[k].dl
    <3>1. i \in 1 .. n /\ s.trail[i].dl \in Nat /\ s.trail[k].dl \in Nat
      BY <1>1
    <3>2. CASE i = k
      BY <3>1, <3>2
    <3>3. CASE i # k
      <4>1. i \in 1 .. k - 1 /\ k - 1 \in 1 .. n /\ k - 1 # 0
        BY <1>1, <3>3
      <4>2. s.trail[i].dl <= s.trail[k - 1].dl /\ s.trail[k - 1].dl \in Nat
        BY <1>3, <4>1, <1>1
      <4>3. s.trail[k].dl \in {s.trail[k - 1].dl, s.trail[k - 1].dl + 1}
        BY <2>1, <4>1 DEF LevelAt
      <4> PICK a, b, c : a = s.trail[i].dl /\ b = s.trail[k - 1].dl /\ c = s.trail[k].dl
        OBVIOUS
      <4>4. a \in Nat /\ b \in Nat /\ c \in Nat /\ a <= b /\ (c = b \/ c = b + 1)
        BY <3>1, <4>2, <4>3
      <4>5. a <= c
        BY <4>4
      <4> QED BY <4>5
    <3> QED BY <3>2, <3>3
  <2> QED BY <2>2, <1>1
<1>4. 0 .. n \subseteq T
  <2> HIDE DEF T
  <2>1. Inductive(n, T)
    BY <1>1, <1>2, <1>3 DEF Inductive
  <2> QED BY <2>1, InductionUpTo
<1> QED BY <1>1, <1>4

(* One literal, if it is above the level. *)
LEMMA PopAboveMakes ==
  ASSUME NEW db \in Databases, NEW s, Good(db, s), NEW dl \in Nat
  PROVE  /\ Good(db, PopAbove(db, s, dl)) /\ Cut(PopAbove(db, s, dl), s, dl)
         /\ \/ Level(s) <= dl /\ PopAbove(db, s, dl) = s
            \/ Len(PopAbove(db, s, dl).trail) = Len(s.trail) - 1
<1>1. s \in State /\ Level(s) \in Nat /\ Len(s.trail) \in Nat /\ s.next \in Nat /\ s.trail \in Seq(TrailEntry)
      /\ s.next <= Len(s.trail)
  BY StateFacts DEF Good, States, Orderly
<1>2. CASE Level(s) <= dl
  <2>1. PopAbove(db, s, dl) = s
    BY <1>1, <1>2 DEF PopAbove
  <2>2. Cut(s, s, dl)
    BY <1>1 DEF Cut
  <2> QED BY <1>2, <2>1, <2>2
<1>3. CASE Level(s) > dl
  <2>1. s.trail # <<>>
    BY <1>3 DEF Level
  <2>2. Len(s.trail) # 0
    BY <2>1, <1>1, EmptySeq
  <2>3. s.trail[Len(s.trail)].dl > dl
    BY <2>2, <1>1, <1>3, LevelIs DEF LevelAt
  <2> QED BY <2>1, <2>3, <1>3, PopMakes DEF PopAbove
<1> QED BY <1>1, <1>2, <1>3

(* Levels are undone literal by literal. *)
LEMMA PopLevelsSteps ==
  ASSUME NEW db \in Databases, NEW s, Good(db, s), NEW dl \in Nat
  PROVE  \E h \in [0 .. NumVars -> GoodStates(db)] :
           /\ h[0] = s
           /\ \A i \in 1 .. NumVars : h[i] = PopAbove(db, h[i - 1], dl)
           /\ PopLevels(db, s, dl) = h[NumVars]
<1> DEFINE n == NumVars
           S == GoodStates(db)
           step(r, i) == PopAbove(db, r, dl)
           idx == [i \in Vars |-> i]
           g == [p \in S \X (1 .. n) |-> step(p[1], p[2])]
           E(f) == f = [t \in SUBSET DOMAIN idx |->
                          IF t = {} THEN s ELSE step(f[t \ {Max(t)}], idx[Max(t)])]
           F == CHOOSE f : E(f)
<1>1. n \in Nat /\ s \in S /\ DOMAIN idx = 1 .. n /\ \A i \in 1 .. n : idx[i] = i
  BY VarsAssumption DEF Vars, GoodStates, Good
<1>2. g \in [S \X (1 .. n) -> S]
  BY PopAboveMakes DEF GoodStates, Good
<1>3. \A t \in SUBSET (1 .. n), r \in S : t # {} => g[<<r, Max(t)>>] = step(r, idx[Max(t)])
  BY <1>1, MaxInSet
<1>4. PopLevels(db, s, dl) = F[DOMAIN idx]
  BY Zenon DEF PopLevels, FoldLeft, MapThenFoldSet
<1> HIDE DEF step, g, S, n, idx
<1>5. \E f : E(f)
  <2>1. PICK f \in [SUBSET (1 .. n) -> S] : Solves(f, n, s, g)
    BY <1>1, <1>2, FoldExists
  <2>2. E(f)
    BY <2>1, <1>1, <1>3 DEF Solves
  <2> QED BY <2>2
<1>6. E(F)
  BY <1>5, Zenon
<1> HIDE DEF F
<1>7. Follows(F, n, S, s, g)
  BY <1>1, <1>2, <1>6, <1>3 DEF Follows
<1>8. PICK h : Steps(h, F, n, S, s, g)
  BY <1>7, FoldSteps
<1>9. /\ h \in [0 .. n -> S] /\ h[0] = s /\ F[1 .. n] = h[n]
      /\ \A i \in 1 .. n : h[i] = g[<<h[i - 1], i>>] /\ h[i - 1] \in S
  BY <1>8, <1>1 DEF Steps
<1>10. \A i \in 1 .. n : h[i] = step(h[i - 1], i)
  BY <1>9 DEF g
<1> QED BY <1>1, <1>4, <1>9, <1>10 DEF n, S, step

(* What undoing the levels above dl makes of s. *)
Retracted(db, r, s, dl) ==
  /\ Good(db, r) /\ Cut(r, s, dl) /\ Level(r) = dl
  /\ \A i \in 1 .. Len(r.trail) : r.trail[i].dl <= dl

(* All literals above the level: as many rounds as there are variables do. *)
LEMMA PopLevelsMakes ==
  ASSUME NEW db \in Databases, NEW s, Good(db, s), NEW dl \in Nat, dl <= Level(s)
  PROVE  Retracted(db, PopLevels(db, s, dl), s, dl)
<1>1. NumVars \in Nat
  BY VarsAssumption
<1>2. PICK h \in [0 .. NumVars -> GoodStates(db)] :
           /\ h[0] = s
           /\ \A i \in 1 .. NumVars : h[i] = PopAbove(db, h[i - 1], dl)
           /\ PopLevels(db, s, dl) = h[NumVars]
  BY PopLevelsSteps
<1> DEFINE Far(r, i) == Level(r) <= dl \/ Len(r.trail) <= Len(s.trail) - i
           T == {i \in 0 .. NumVars : Good(db, h[i]) /\ Cut(h[i], s, dl) /\ Far(h[i], i)}
<1>3. s \in State /\ s.next \in Nat /\ Len(s.trail) \in Nat /\ s.next <= Len(s.trail)
      /\ Level(s) \in Nat /\ Len(s.trail) <= NumVars
  BY StateFacts, TrailFits DEF Good, States, Orderly
<1>4. 0 \in T
  <2>1. Cut(s, s, dl)
    BY <1>3 DEF Cut
  <2> QED BY <2>1, <1>1, <1>2, <1>3
<1>5. ASSUME NEW i \in 1 .. NumVars, i - 1 \in T PROVE i \in T
  <2> DEFINE r == h[i - 1]
             q == PopAbove(db, r, dl)
  <2>1. Good(db, r) /\ Cut(r, s, dl) /\ Far(r, i - 1) /\ q = h[i]
    BY <1>5, <1>2
  <2>2. /\ Good(db, q) /\ Cut(q, r, dl)
        /\ (Level(r) <= dl /\ q = r) \/ Len(q.trail) = Len(r.trail) - 1
    BY <2>1, PopAboveMakes
  <2>3. r \in State /\ q \in State /\ Len(r.trail) \in Nat /\ Len(q.trail) \in Nat
        /\ Level(r) \in Nat /\ Level(q) \in Nat
    BY <2>1, <2>2, StateFacts DEF Good, States
  <2>4. Level(r) <= dl => q = r
    BY <2>3 DEF PopAbove
  <2> HIDE DEF r, q
  <2>5. Cut(q, s, dl)
    BY <2>1, <2>2, <2>3, <1>3, CutTrans
  <2>6. Far(q, i)
    <3>1. CASE Level(r) <= dl /\ q = r
      BY <3>1, <2>1
    <3>2. CASE Len(q.trail) = Len(r.trail) - 1
      <4>1. i \in Nat \ {0} /\ i - 1 \in Nat
        BY <1>3
      <4> QED BY <3>2, <4>1, <2>1, <2>3, <2>4
    <3> QED BY <3>1, <3>2, <2>2
  <2> HIDE DEF Far
  <2> QED BY <2>1, <2>2, <2>5, <2>6, <1>1
<1>6. NumVars \in T
  <2> HIDE DEF T
  <2>1. Inductive(NumVars, T)
    BY <1>1, <1>4, <1>5 DEF Inductive
  <2> QED BY <2>1, InductionUpTo
<1> DEFINE r == PopLevels(db, s, dl)
<1>7. Good(db, r) /\ Cut(r, s, dl) /\ Far(r, NumVars)
  BY <1>2, <1>6
<1> HIDE DEF r
<1>8. r \in State /\ Len(r.trail) \in Nat /\ Level(r) \in Nat
  BY <1>7, StateFacts DEF Good, States
<1>9. Level(r) <= dl
  <2>1. CASE Len(r.trail) = 0
    BY <2>1, <1>8, LevelIs DEF LevelAt
  <2>2. CASE Len(r.trail) # 0
    BY <2>2, <1>1, <1>3, <1>7, <1>8
  <2> QED BY <2>1, <2>2
<1>10. Level(r) = dl
  <2>1. Level(r) = LevelAt(r.trail, Len(r.trail)) /\ Level(s) = LevelAt(s.trail, Len(s.trail))
    BY <1>3, <1>8, LevelIs
  <2>2. CASE Len(r.trail) = Len(s.trail)
    <3>1. Level(r) = Level(s)
      BY <2>1, <2>2, <1>7, <1>8 DEF Cut, LevelAt
    <3> QED BY <3>1, <1>3, <1>9
  <2>3. CASE Len(r.trail) < Len(s.trail)
    <3> DEFINE k == Len(r.trail) + 1
    <3>1. k \in Len(r.trail) + 1 .. Len(s.trail) /\ k \in 1 .. Len(s.trail) /\ k - 1 = Len(r.trail)
      BY <1>3, <1>8, <2>3
    <3>2. s.trail[k].dl > dl
      BY <3>1, <1>7 DEF Cut
    <3>3. s.trail[k].dl \in {LevelAt(s.trail, k - 1), LevelAt(s.trail, k - 1) + 1}
      BY <3>1, <1>3 DEF Good, Orderly, Stepwise
    <3>4. LevelAt(s.trail, k - 1) = Level(r)
      BY <3>1, <2>1, <1>7, <1>8 DEF Cut, LevelAt
    <3> HIDE DEF k
    <3> QED BY <3>2, <3>3, <3>4, <1>8, <1>9
  <2> QED BY <2>2, <2>3, <1>3, <1>7, <1>8 DEF Cut
<1>11. \A i \in 1 .. Len(r.trail) : r.trail[i].dl <= dl
  <2> SUFFICES ASSUME NEW i \in 1 .. Len(r.trail) PROVE r.trail[i].dl <= dl
    OBVIOUS
  <2>1. Len(r.trail) \in 1 .. Len(r.trail) /\ Len(r.trail) # 0 /\ i \in 1 .. Len(r.trail)
    BY <1>8
  <2>2. r.trail[i].dl <= r.trail[Len(r.trail)].dl
    BY <2>1, <1>7, <1>8, LevelsGrow DEF Good, Orderly
  <2>3. r.trail[Len(r.trail)].dl = dl
    BY <2>1, <1>8, <1>10, LevelIs DEF LevelAt
  <2> QED BY <2>2, <2>3
<1> QED BY <1>7, <1>10, <1>11 DEF Retracted, r

(* A backtrack of some levels leaves the trail below them, counters right and no
   conflict. *)
LEMMA BacktrackMakes ==
  ASSUME NEW db \in Databases, NEW s, Good(db, s), NEW levels \in Nat, levels <= Level(s)
  PROVE  /\ levels = 0 => Backtrack(db, s, levels) = s
         /\ levels # 0 => /\ Retracted(db, Backtrack(db, s, levels), s, Level(s) - levels)
                          /\ ~Backtrack(db, s, levels).conflict
<1>1. CASE levels = 0
  BY <1>1 DEF Backtrack
<1>2. CASE levels # 0
  <2> DEFINE dl == Level(s) - levels
             p == PopLevels(db, s, dl)
             from == [id \in DOMAIN db |-> 1]
             b == [p EXCEPT !.from = from]
             c == [b EXCEPT !.conflict = FALSE]
             r == Backtrack(db, s, levels)
  <2>1. s \in State /\ Level(s) \in Nat
    BY StateFacts DEF Good, States
  <2>2. dl \in Nat /\ dl <= Level(s)
    BY <2>1
  <2> HIDE DEF dl
  <2>3. Retracted(db, p, s, dl)
    BY <2>2, PopLevelsMakes
  <2>4. from \in Seq(Nat) /\ Len(from) = Len(db)
    BY DEF Databases
  <2>5. r = [c EXCEPT !.culprit = NoReason]
    <3>1. r = NoConflict(b)
      BY <1>2 DEF Backtrack, BackjumpToDL, dl
    <3> QED BY <3>1 DEF NoConflict
  <2> HIDE DEF p, from, r
  <2>6. p \in States(db)
    BY <2>3 DEF Retracted, Good
  <2>7. b \in States(db) /\ b.trail = p.trail /\ b.next = p.next /\ b.sums = p.sums
    BY <2>4, <2>6 DEF States, State
  <2> HIDE DEF b
  <2>8. c \in States(db) /\ c.trail = p.trail /\ c.next = p.next /\ c.sums = p.sums /\ ~c.conflict
    BY <2>7 DEF States, State
  <2> HIDE DEF c
  <2>9. r \in States(db) /\ r.trail = p.trail /\ r.next = p.next /\ r.sums = p.sums /\ ~r.conflict
    <3>1. NoReason \in Culprit
      BY ReasonFacts
    <3> QED BY <2>5, <2>8, <3>1 DEF States, State
  <2>10. Good(db, r)
    <3>1. Discounted(r) = Discounted(p)
      BY <2>9 DEF Discounted
    <3> QED BY <3>1, <2>3, <2>9 DEF Retracted, Good, Orderly, CountersRight
  <2>11. Level(r) = Level(p)
    BY <2>9 DEF Level
  <2>12. Retracted(db, r, s, dl)
    BY <2>3, <2>9, <2>10, <2>11 DEF Retracted, Cut
  <2> QED BY <1>2, <2>9, <2>12 DEF dl, r
<1> QED BY <1>1, <1>2

(* Undoing the one level of a trial leaves the trail as it was. *)
LEMMA UndoTry ==
  ASSUME NEW db \in Databases, NEW s, Good(db, s), NEW lit, NEW r, Tried(db, r, s, lit)
  PROVE  LET u == Backtrack(db, r, 1) IN
           /\ Good(db, u) /\ u.trail = s.trail /\ ~u.conflict /\ Level(u) = Level(s)
           /\ r.next = Len(r.trail) => u.next = Len(u.trail)
<1> DEFINE u == Backtrack(db, r, 1)
<1>1. s \in State /\ Level(s) \in Nat /\ Len(s.trail) \in Nat /\ s.trail \in Seq(TrailEntry) /\ Orderly(s)
  BY StateFacts DEF Good, States
<1>2. Good(db, r) /\ Level(r) = Level(s) + 1 /\ r \in State
  BY DEF Tried, Good, States
<1>3. 1 <= Level(r) /\ Level(r) - 1 = Level(s)
  BY <1>1, <1>2
<1>4. Retracted(db, u, r, Level(s)) /\ ~u.conflict
  BY <1>2, <1>3, BacktrackMakes
<1> HIDE DEF u
<1>5. u \in State /\ Len(u.trail) \in Nat /\ Len(r.trail) \in Nat /\ u.trail \in Seq(TrailEntry)
      /\ r.next \in Nat
  BY <1>2, <1>4, StateFacts DEF Retracted, Good, States
<1>6. Len(u.trail) <= Len(s.trail)
  <2> SUFFICES ASSUME Len(u.trail) > Len(s.trail) PROVE FALSE
    BY <1>1, <1>5
  <2> DEFINE k == Len(s.trail) + 1
  <2>1. k \in 1 .. Len(u.trail) /\ k \in Len(s.trail) + 1 .. Len(r.trail)
    BY <1>1, <1>4, <1>5 DEF Retracted, Cut
  <2>2. u.trail[k].dl <= Level(s) /\ u.trail[k] = r.trail[k] /\ r.trail[k].dl = Level(s) + 1
    BY <2>1, <1>4 DEF Retracted, Cut, Tried
  <2> QED BY <2>2, <1>1
<1>7. Len(u.trail) >= Len(s.trail)
  <2> SUFFICES ASSUME Len(u.trail) < Len(s.trail) PROVE FALSE
    BY <1>1, <1>5
  <2> DEFINE k == Len(s.trail)
  <2>1. k \in 1 .. k /\ k \in Len(u.trail) + 1 .. Len(r.trail)
    BY <1>1, <1>4, <1>5 DEF Tried
  <2>2. r.trail[k].dl > Level(s) /\ r.trail[k] = s.trail[k]
    BY <2>1, <1>4 DEF Retracted, Cut, Tried
  <2>3. Level(s) = s.trail[k].dl
    BY <2>1, <1>1, LevelIs DEF LevelAt
  <2> QED BY <2>2, <2>3, <1>1
<1>8. \A i \in 1 .. Len(s.trail) : u.trail[i] = s.trail[i]
  <2>1. \A i \in 1 .. Len(s.trail) : i \in 1 .. Len(u.trail)
    BY <1>1, <1>5, <1>7
  <2> QED BY <2>1, <1>4 DEF Retracted, Cut, Tried
<1>9. u.trail = s.trail
  <2>1. Len(u.trail) = Len(s.trail)
    BY <1>1, <1>5, <1>6, <1>7
  <2> QED BY <2>1, <1>1, <1>5, <1>8, SeqEqual
<1>10. r.next = Len(r.trail) => u.next = Len(u.trail)
  BY <1>4, <1>5 DEF Retracted, Cut
<1> QED BY <1>4, <1>9, <1>10 DEF Retracted, u

-----------------------------------------------------------------------------
(***************************************************************************)
(* What propagation leaves to do: nothing.                                 *)
(***************************************************************************)
(* What remains of a constraint when the literals of D are false. *)
Spare(c, D) == Weigh(c, LitsOf(c) \ D) - c.k

Negs(m) == {-l : l \in m}

(* The assignments that c leaves alone: it is not falsified, and no literal
   must be true for it that is undefined. *)
Fixed(c) ==
  {m \in SUBSET Lits :
     /\ \A l \in m : -l \notin m
     /\ Spare(c, Negs(m)) >= 0
     /\ \A i \in 1 .. Len(c.lhs) :
          c.lhs[i].coef > Spare(c, Negs(m)) => c.lhs[i].lit \in m \cup Negs(m)}

(* The walk over the terms of a constraint has passed over no undefined literal. *)
Cursor(db, s) ==
  \A id \in 1 .. Len(db) : \A i \in 1 .. Len(db[id].lhs) :
    i < s.from[id] => ~IsUndefLit(s, db[id].lhs[i].lit)

(* What was counted in constraint id has been acted on. *)
Acted(db, s, id) ==
  /\ Remaining(db, s, id) >= 0
  /\ \A i \in 1 .. Len(db[id].lhs) :
       db[id].lhs[i].coef > Remaining(db, s, id) => ~IsUndefLit(s, db[id].lhs[i].lit)

(* No constraint is falsified by the literals that are propagated. *)
Slacks(db, s) == \A id \in 1 .. Len(db) : Remaining(db, s, id) >= 0

(* What is left is an integer, and more if less is false. *)
LEMMA SpareFacts ==
  ASSUME NEW c \in Constraint, NEW D, NEW E, D \subseteq E
  PROVE  Spare(c, D) \in Int /\ Spare(c, E) \in Int /\ Spare(c, E) <= Spare(c, D)
<1>1. c.lhs \in Seq(Term) /\ c.k \in Nat /\ Weigh(c, LitsOf(c) \ D) \in Nat /\ Weigh(c, LitsOf(c) \ E) \in Nat
  BY ConstraintFacts
<1>2. Weigh(c, LitsOf(c) \ E) <= Weigh(c, LitsOf(c) \ D)
  BY <1>1, WeighMono
<1> QED BY <1>1, <1>2 DEF Spare

(* What remains is what is left. *)
LEMMA RemainingIs ==
  ASSUME NEW db, NEW s, NEW id
  PROVE  Remaining(db, s, id) = Spare(db[id], Discounted(s))
BY DEF Remaining, Spare

(* A constraint that leaves m alone forces only literals of m, as long as what is
   false is false in m. *)
LEMMA FixedTakes ==
  ASSUME NEW c \in Constraint, NEW m \in Fixed(c), NEW D, D \subseteq Negs(m)
  PROVE  /\ Spare(c, D) >= 0
         /\ \A i \in 1 .. Len(c.lhs) :
              c.lhs[i].coef > Spare(c, D) => c.lhs[i].lit \in m \cup D
<1> DEFINE N == Negs(m)
<1>1. Spare(c, D) \in Int /\ Spare(c, N) \in Int /\ Spare(c, N) <= Spare(c, D) /\ Spare(c, N) >= 0
  BY SpareFacts DEF Fixed
<1>2. ASSUME NEW i \in 1 .. Len(c.lhs), c.lhs[i].coef > Spare(c, D), c.lhs[i].lit \notin m \cup D
      PROVE  FALSE
  <2> DEFINE t == c.lhs[i]
             A == LitsOf(c) \ D
  <2>1. t.coef \in Nat /\ t.lit \in LitsOf(c)
    BY ConstraintFacts, CoefOfTerm
  <2>2. t.coef > Spare(c, N)
    BY <1>1, <1>2, <2>1
  <2>3. t.lit \in N
    BY <1>2, <2>2 DEF Fixed
  <2>4. t.lit \in A
    BY <1>2, <2>1
  <2>5. Weigh(c, A \ {t.lit}) = Weigh(c, A) - t.coef
    BY <2>4, WeighWithout
  <2>6. \A lit : lit \in LitsOf(c) \ N => lit \in A \ {t.lit}
    BY <2>3
  <2>7. c.lhs \in Seq(Term) /\ c.k \in Nat
    BY ConstraintFacts
  <2> HIDE DEF A, N, t
  <2>8. Weigh(c, LitsOf(c) \ N) <= Weigh(c, A \ {t.lit})
    BY <2>6, <2>7, WeighMono
  <2>9. Weigh(c, LitsOf(c) \ N) \in Nat /\ Weigh(c, A) \in Nat
    BY ConstraintFacts
  <2>10. Spare(c, D) = Weigh(c, A) - c.k /\ Spare(c, N) = Weigh(c, LitsOf(c) \ N) - c.k
    BY DEF Spare, A
  <2>11. t.coef > Spare(c, D)
    BY <1>2 DEF t
  <2> QED BY <1>1, <2>1, <2>5, <2>7, <2>8, <2>9, <2>10, <2>11
<1> QED BY <1>1, <1>2

(* A literal more leaves nothing undefined that was defined. *)
LEMMA StillDefined ==
  ASSUME NEW s, NEW r, TrueLits(s) \subseteq TrueLits(r), NEW lit, ~IsUndefLit(s, lit)
  PROVE  ~IsUndefLit(r, lit)
BY DEF IsUndefLit

(* What the i-th term t of constraint id does, if anything. *)
Took(q, r, id, i, t, slack) ==
  \/ q = r /\ (i # r.from[id] \/ t.coef <= slack)
  \/ /\ i = r.from[id] /\ t.coef > slack
     /\ q.from = [r.from EXCEPT ![id] = i + 1] /\ q.conflict = r.conflict
     /\ \/ ~IsUndefLit(r, t.lit) /\ TrueLits(q) = TrueLits(r)
        \/ IsUndefLit(r, t.lit) /\ TrueLits(q) = TrueLits(r) \cup {t.lit}

(* It does that. *)
LEMMA TakeTermShape ==
  ASSUME NEW db \in Databases, NEW r \in States(db), NEW id \in 1 .. Len(db), Orderly(r),
         NEW slack \in Int, NEW i \in 1 .. Len(db[id].lhs)
  PROVE  Took(TakeTerm(db[id], r, id, slack, i), r, id, i, db[id].lhs[i], slack)
<1> DEFINE t == db[id].lhs[i]
           past == [r EXCEPT !.from[id] = i + 1]
           q == TakeTerm(db[id], r, id, slack, i)
<1>1. db[id] \in Constraint /\ i + 1 \in Nat
  BY DEF Databases
<1>2. t.lit \in Lits /\ t.coef \in Nat
  BY <1>1, ConstraintFacts
<1>3. r \in State /\ r.from \in Seq(Nat) /\ Len(r.from) = Len(db)
  BY StateFacts DEF States
<1>4. [r.from EXCEPT ![id] = i + 1] \in Seq(Nat) /\ Len([r.from EXCEPT ![id] = i + 1]) = Len(db)
  BY <1>1, <1>3, ExceptSeq
<1>5. /\ past \in States(db) /\ past.trail = r.trail /\ past.next = r.next
      /\ past.conflict = r.conflict /\ past.from = [r.from EXCEPT ![id] = i + 1]
  BY <1>3, <1>4 DEF States, State
<1>6. past \in State /\ Level(past) = Level(r) /\ TrueLits(past) = TrueLits(r)
  BY <1>5 DEF States, Level, TrueLits
<1>7. IsUndefLit(past, t.lit) <=> IsUndefLit(r, t.lit)
  BY <1>6 DEF IsUndefLit
<1>8. CASE i # r.from[id] \/ t.coef <= slack
  BY <1>8 DEF TakeTerm, Took
<1>9. CASE ~(i # r.from[id] \/ t.coef <= slack) /\ ~IsUndefLit(r, t.lit)
  <2>1. q = past
    BY <1>7, <1>9 DEF TakeTerm
  <2> HIDE DEF past, q, t
  <2> QED BY <2>1, <1>9, <1>5, <1>6, <1>2 DEF q, t, Took
<1>10. CASE ~(i # r.from[id] \/ t.coef <= slack) /\ IsUndefLit(r, t.lit)
  <2> DEFINE u == SetTrue(past, t.lit, <<"PB", id>>)
  <2>1. q = u
    BY <1>7, <1>10 DEF TakeTerm
  <2>2. Level(past) \in Nat /\ <<"PB", id>> \in Reason
    BY <1>6, StateFacts, ReasonPB
  <2>3. Append(past.trail, Assigned(t.lit, Level(past), <<"PB", id>>)) \in Seq(TrailEntry)
    BY <1>2, <1>6, <2>2, AppendEntry
  <2>4. /\ u.trail = Append(past.trail, Assigned(t.lit, Level(past), <<"PB", id>>))
        /\ u.from = past.from /\ u.conflict = past.conflict /\ u.next = past.next /\ u \in States(db)
    <3> HIDE DEF t, past
    <3> QED BY <1>5, <2>3 DEF SetTrue, States, State
  <2>5. u \in State
    BY <2>4 DEF States
  <2>6. Orderly(past)
    BY <1>5 DEF Orderly
  <2> HIDE DEF u, t, past, q
  <2>7. TrueLits(u) = TrueLits(past) \cup {t.lit}
    <3>1. Level(past) \in {Level(past), Level(past) + 1}
      OBVIOUS
    <3> QED BY <3>1, <1>2, <1>6, <1>7, <1>10, <2>2, <2>4, <2>5, <2>6, OrderlyAppend
  <2>8. t.coef > slack
    BY <1>2, <1>10
  <2> QED BY <2>1, <2>4, <2>7, <2>8, <1>5, <1>6, <1>10 DEF t, q, Took
<1> QED BY <1>8, <1>9, <1>10

(* How far the walk over the terms of constraint id has got from s: it is over, or
   stops at a term that is light enough, and what it takes every assignment takes
   that the constraint leaves alone. *)
Acting(db, r, s, id, i) ==
  /\ Cursor(db, r)
  /\ r.from[id] <= i => db[id].lhs[r.from[id]].coef <= Remaining(db, s, id)
  /\ r.from[id] \in Nat \ {0}
  /\ \A m \in Fixed(db[id]) : Agrees(s, m) => Agrees(r, m)

(* The cursors start at 1. *)
Begun(db, s) == \A id \in 1 .. Len(db) : s.from[id] # 0

(* One term. *)
LEMMA TakeTermActs ==
  ASSUME NEW db \in Databases, NEW s \in States(db), NEW id \in 1 .. Len(db), Orderly(s),
         NEW r \in States(db), Walked(db, r, s), NEW i \in 1 .. Len(db[id].lhs),
         Acting(db, r, s, id, i - 1)
  PROVE  Acting(db, TakeTerm(db[id], r, id, Remaining(db, s, id), i), s, id, i)
<1> DEFINE c == db[id]
           t == c.lhs[i]
           slack == Remaining(db, s, id)
           q == TakeTerm(c, r, id, slack, i)
<1>1. c \in Constraint /\ slack \in Int /\ i \in Nat \ {0} /\ t.coef \in Nat /\ DOMAIN c.lhs = 1 .. Len(c.lhs)
  <2>1. c \in Constraint
    BY DEF Databases
  <2> QED BY <2>1, RemainingType, ConstraintFacts
<1>2. r \in State /\ s \in State /\ r.from \in Seq(Nat) /\ Len(r.from) = Len(db) /\ Orderly(r)
      /\ r.from[id] \in Nat
  <2>1. r \in State /\ s \in State /\ Len(r.from) = Len(db) /\ Orderly(r)
    BY DEF States, Walked
  <2>2. r.from \in Seq(Nat)
    BY <2>1, StateFacts
  <2>3. id \in 1 .. Len(r.from)
    BY <2>1
  <2> QED BY <2>1, <2>2, <2>3
<1>3. Took(q, r, id, i, t, slack)
  BY <1>1, <1>2, TakeTermShape
<1>4. CASE q = r /\ (i # r.from[id] \/ t.coef <= slack)
  <2>1. r.from[id] <= i => r.from[id] <= i - 1 \/ r.from[id] = i
    BY <1>1, <1>2
  <2>2. r.from[id] <= i => c.lhs[r.from[id]].coef <= slack
    BY <2>1, <1>4 DEF Acting
  <2> QED BY <2>2, <1>4 DEF Acting
<1>5. CASE /\ i = r.from[id] /\ t.coef > slack
           /\ q.from = [r.from EXCEPT ![id] = i + 1] /\ q.conflict = r.conflict
           /\ \/ ~IsUndefLit(r, t.lit) /\ TrueLits(q) = TrueLits(r)
              \/ IsUndefLit(r, t.lit) /\ TrueLits(q) = TrueLits(r) \cup {t.lit}
  <2> HIDE DEF q
  <2>1. TrueLits(r) \subseteq TrueLits(q) /\ ~IsUndefLit(q, t.lit)
    BY <1>5 DEF IsUndefLit
  <2>2. q.from[id] = i + 1 /\ \A j \in 1 .. Len(db) : j # id => q.from[j] = r.from[j]
    BY <1>2, <1>5
  <2>3. Cursor(db, q)
    <3> SUFFICES ASSUME NEW j \in 1 .. Len(db), NEW k \in 1 .. Len(db[j].lhs), k < q.from[j]
                 PROVE  ~IsUndefLit(q, db[j].lhs[k].lit)
      BY DEF Cursor
    <3>1. CASE k < r.from[j]
      BY <3>1, <2>1, StillDefined DEF Acting, Cursor
    <3>2. CASE ~(k < r.from[j])
      <4>1. j = id /\ k = i
        BY <3>2, <2>2, <1>1, <1>5
      <4> QED BY <4>1, <2>1
    <3> QED BY <3>1, <3>2
  <2>4. ~(q.from[id] <= i) /\ q.from[id] \in Nat \ {0}
    BY <2>2, <1>1
  <2>5. ASSUME NEW m \in Fixed(c), Agrees(s, m) PROVE Agrees(q, m)
    <3>1. Agrees(r, m)
      BY <2>5 DEF Acting
    <3>2. Discounted(s) \subseteq Negs(m)
      <4>1. Discounted(s) \subseteq Lits /\ \A l \in Discounted(s) : -l \in TrueLits(s)
        BY <1>2, DiscountedFacts DEF Walked, Orderly
      <4>2. \A l \in Discounted(s) : -l \in m /\ -(-l) = l
        BY <4>1, <2>5, LitFacts DEF Agrees
      <4> QED BY <4>2 DEF Negs
    <3>3. t.lit \in m \cup Discounted(s)
      BY <3>2, <1>1, <1>5, FixedTakes, RemainingIs
    <3>4. IsUndefLit(r, t.lit) => t.lit \notin Discounted(s)
      <4>1. Discounted(r) = Discounted(s) /\ r.next <= Len(r.trail)
        BY <1>2, SameDiscounted DEF Walked, Orderly
      <4>2. \A l \in Discounted(r) : -l \in TrueLits(r)
        BY <4>1, <1>2, DiscountedFacts
      <4> QED BY <4>1, <4>2 DEF IsUndefLit
    <3> QED BY <3>1, <3>3, <3>4, <1>5 DEF Agrees
  <2> QED BY <2>3, <2>4, <2>5 DEF Acting, q
<1> QED BY <1>3, <1>4, <1>5 DEF Took

(* What the walk over all terms makes of s. *)
WalkedOver(db, r, s, id) ==
  /\ Cursor(db, r) /\ Begun(db, r)
  /\ \A i \in 1 .. Len(db[id].lhs) :
       db[id].lhs[i].coef > Remaining(db, s, id) => ~IsUndefLit(r, db[id].lhs[i].lit)
  /\ \A m \in Fixed(db[id]) : Agrees(s, m) => Agrees(r, m)

(* The cursors of the other constraints do not move. *)
LEMMA TakeTermBegun ==
  ASSUME NEW db \in Databases, NEW r \in States(db), NEW id \in 1 .. Len(db), Orderly(r), Begun(db, r),
         NEW slack \in Int, NEW i \in 1 .. Len(db[id].lhs)
  PROVE  Begun(db, TakeTerm(db[id], r, id, slack, i))
<1> DEFINE q == TakeTerm(db[id], r, id, slack, i)
<1>0. Took(q, r, id, i, db[id].lhs[i], slack)
  BY TakeTermShape
<1>1. q = r \/ q.from = [r.from EXCEPT ![id] = i + 1]
  BY <1>0 DEF Took
<1>2. i + 1 # 0 /\ r.from \in Seq(Nat) /\ Len(r.from) = Len(db)
  BY StateFacts DEF States, Databases
<1> HIDE DEF q
<1>3. \A j \in 1 .. Len(db) : r.from[j] # 0 /\ j \in DOMAIN r.from
  BY <1>2 DEF Begun
<1>4. \A j \in 1 .. Len(db) : q.from[j] # 0
  <2>1. CASE q = r
    BY <2>1, <1>3
  <2>2. CASE q.from = [r.from EXCEPT ![id] = i + 1]
    <3> PICK f, e : f = r.from /\ e = i + 1
      OBVIOUS
    <3> QED BY <2>2, <1>2, <1>3
  <2> QED BY <2>1, <2>2, <1>1
<1> QED BY <1>4 DEF Begun, q

(* All terms: the coefficients fall, so nothing is missed after the first that is
   light enough. *)
LEMMA PropagateCtrActs ==
  ASSUME NEW db \in Databases, NEW s \in States(db), NEW id \in 1 .. Len(db), Orderly(s),
         Cursor(db, s), Begun(db, s)
  PROVE  WalkedOver(db, PropagateCtr(db[id], s, id, Remaining(db, s, id)), s, id)
<1> DEFINE n == Len(db[id].lhs)
           slack == Remaining(db, s, id)
<1>1. db[id] \in Constraint
  BY DEF Databases
<1>2. n \in Nat \ {0} /\ slack \in Int
  BY <1>1, ConstraintFacts, RemainingType
<1>3. PICK h \in [0 .. n -> States(db)] :
           /\ h[0] = s
           /\ \A i \in 1 .. n : h[i] = TakeTerm(db[id], h[i - 1], id, slack, i)
           /\ PropagateCtr(db[id], s, id, slack) = h[n]
  <2>1. id \in Nat
    BY DEF Databases
  <2>2. \E h : Walk(h, db, db[id], s, id, slack)
    BY <1>1, <1>2, <2>1, PropagateCtrSteps
  <2> QED BY <2>2 DEF Walk
<1> DEFINE T == {i \in 0 .. n : Walked(db, h[i], s) /\ Acting(db, h[i], s, id, i) /\ Begun(db, h[i])}
<1>4. 0 \in T
  <2>1. Walked(db, s, s)
    BY ExtendsSelf DEF Walked, States, Sound
  <2>2. s.from[id] \in Nat \ {0}
    BY StateFacts DEF States, Begun
  <2>3. ~(s.from[id] <= 0)
    BY <2>2
  <2>4. Acting(db, s, s, id, 0)
    BY <2>2, <2>3 DEF Acting
  <2> QED BY <2>1, <2>4, <1>2, <1>3
<1>5. ASSUME NEW i \in 1 .. n, i - 1 \in T PROVE i \in T
  <2>1. h[i - 1] \in States(db) /\ Walked(db, h[i - 1], s) /\ Acting(db, h[i - 1], s, id, i - 1)
        /\ Begun(db, h[i - 1])
    BY <1>5
  <2>2. Walked(db, TakeTerm(db[id], h[i - 1], id, slack, i), s)
    BY <2>1, TakeTermWalks
  <2>3. Acting(db, TakeTerm(db[id], h[i - 1], id, slack, i), s, id, i)
    BY <2>1, TakeTermActs
  <2>4. Begun(db, TakeTerm(db[id], h[i - 1], id, slack, i))
    <3>1. Orderly(h[i - 1])
      BY <2>1 DEF Walked
    <3> QED BY <2>1, <3>1, <1>2, TakeTermBegun
  <2> QED BY <2>2, <2>3, <2>4, <1>3, <1>2
<1>6. n \in T
  <2> HIDE DEF T
  <2>1. Inductive(n, T)
    BY <1>2, <1>4, <1>5 DEF Inductive
  <2> QED BY <2>1, InductionUpTo
<1> DEFINE r == h[n]
<1>7. Walked(db, r, s) /\ Acting(db, r, s, id, n) /\ Begun(db, r)
  BY <1>6
<1> HIDE DEF r
<1>8. r.from[id] \in Nat \ {0}
  BY <1>7 DEF Acting
<1>9. ASSUME NEW i \in 1 .. n, db[id].lhs[i].coef > slack PROVE ~IsUndefLit(r, db[id].lhs[i].lit)
  <2>1. CASE i < r.from[id]
    BY <2>1, <1>7 DEF Acting, Cursor
  <2>2. CASE ~(i < r.from[id])
    <3> PICK j : j = r.from[id]
      OBVIOUS
    <3>1. j \in 1 .. n /\ j <= i
      BY <2>2, <1>2, <1>8
    <3>2. db[id].lhs[j].coef <= slack
      BY <3>1, <1>7, <1>8, <1>2 DEF Acting
    <3>3. db[id].lhs[j].coef >= db[id].lhs[i].coef
      BY <3>1, <1>1 DEF Constraint
    <3>4. db[id].lhs[j].coef \in Nat /\ db[id].lhs[i].coef \in Nat
      BY <3>1, <1>1, ConstraintFacts
    <3> QED BY <3>2, <3>3, <3>4, <1>2, <1>9
  <2> QED BY <2>1, <2>2
<1>10. WalkedOver(db, r, s, id)
  BY <1>7, <1>9 DEF WalkedOver, Acting
<1> QED BY <1>3, <1>10 DEF r

(* What examining constraint id makes of s. *)
Heeded(db, r, s, id) ==
  /\ Cursor(db, r) /\ Begun(db, r)
  /\ ~r.conflict => Acted(db, r, id)
  /\ \A m \in Fixed(db[id]) : Agrees(s, m) => Agrees(r, m)

(* An assignment that agrees with the trail makes false what is discounted. *)
LEMMA DiscountedIn ==
  ASSUME NEW s \in State, s.next <= Len(s.trail), NEW m \in SUBSET Lits, TrueLits(s) \subseteq m
  PROVE  Discounted(s) \subseteq Negs(m)
<1>1. Discounted(s) \subseteq Lits /\ \A l \in Discounted(s) : -l \in TrueLits(s)
  BY DiscountedFacts
<1>2. \A l \in Discounted(s) : -l \in m /\ -(-l) = l
  BY <1>1, LitFacts
<1> QED BY <1>2 DEF Negs

(* The largest coefficient is the first. *)
LEMMA MaxCoefFirst ==
  ASSUME NEW c \in Constraint, NEW i \in 1 .. Len(c.lhs)
  PROVE  c.lhs[i].coef <= MaxCoef(c)
<1>1. Len(c.lhs) \in Nat /\ DOMAIN c.lhs = 1 .. Len(c.lhs)
      /\ \A j \in 1 .. Len(c.lhs) : c.lhs[j].coef \in Nat
  BY ConstraintFacts
<1>2. 1 \in DOMAIN c.lhs /\ i \in DOMAIN c.lhs /\ 1 <= i
  BY <1>1
<1>3. c.lhs[1].coef >= c.lhs[i].coef
  BY <1>2 DEF Constraint
<1> QED BY <1>1, <1>2, <1>3 DEF MaxCoef

(* A constraint is examined: what it forces becomes true, unless there is a
   conflict. *)
LEMMA ExamineHeeds ==
  ASSUME NEW db \in Databases, NEW s \in States(db), NEW id \in 1 .. Len(db), Orderly(s),
         Cursor(db, s), Begun(db, s)
  PROVE  Heeded(db, Examine(db[id], s, id, Remaining(db, s, id) - MaxCoef(db[id])), s, id)
<1> DEFINE slack == Remaining(db, s, id)
           sum == slack - MaxCoef(db[id])
           counted == [s EXCEPT !.sums[id] = sum]
           q == Examine(db[id], s, id, sum)
<1>1. slack \in Int /\ sum \in Int /\ sum + MaxCoef(db[id]) = slack /\ MaxCoef(db[id]) \in Nat
      /\ db[id] \in Constraint
  BY RemainingType DEF Databases
<1>2. s \in State /\ s.sums \in Seq(Int) /\ Len(s.sums) = Len(db)
  BY StateFacts DEF States
<1>3. [s.sums EXCEPT ![id] = sum] \in Seq(Int) /\ Len([s.sums EXCEPT ![id] = sum]) = Len(db)
  BY <1>1, <1>2, ExceptSeq
<1>4. /\ counted \in States(db) /\ counted.trail = s.trail /\ counted.next = s.next
      /\ counted.conflict = s.conflict /\ counted.from = s.from
  BY <1>2, <1>3 DEF States, State
<1> HIDE DEF counted
<1>5. counted \in State /\ Discounted(counted) = Discounted(s) /\ TrueLits(counted) = TrueLits(s)
      /\ Orderly(counted)
  BY <1>4 DEF States, Discounted, TrueLits, Orderly
<1>6. Cursor(db, counted) /\ Begun(db, counted)
  BY <1>4, <1>5 DEF Cursor, Begun, IsUndefLit
<1>7. Remaining(db, counted, id) = slack
  BY <1>5 DEF Remaining
<1>8. CASE slack < 0
  <2> DEFINE u == Clash(counted, <<"PB", id>>)
  <2>1. u.trail = s.trail /\ u.from = s.from /\ u.conflict = TRUE
    <3>1. <<"PB", id>> \in Culprit
      BY ReasonPB
    <3> QED BY <1>4, <1>5, <3>1 DEF Clash, State
  <2>2. q = u
    BY <1>1, <1>8 DEF Examine, counted
  <2> HIDE DEF u
  <2>3. Cursor(db, u) /\ Begun(db, u)
    <3>1. \A l : IsUndefLit(u, l) <=> IsUndefLit(s, l)
      BY <2>1 DEF IsUndefLit, TrueLits
    <3> QED BY <3>1, <2>1 DEF Cursor, Begun
  <2>4. ASSUME NEW m \in Fixed(db[id]), Agrees(s, m) PROVE FALSE
    <3>1. Discounted(s) \subseteq Negs(m)
      BY <1>2, <2>4, DiscountedIn DEF Orderly, Agrees, Fixed
    <3>2. Spare(db[id], Discounted(s)) >= 0
      BY <3>1, <1>1, FixedTakes
    <3>3. slack = Spare(db[id], Discounted(s))
      BY RemainingIs
    <3> QED BY <3>2, <3>3, <1>1, <1>8
  <2> QED BY <2>1, <2>2, <2>3, <2>4 DEF Heeded
<1>9. CASE sum < 0 /\ ~(slack < 0)
  <2> DEFINE u == PropagateCtr(db[id], counted, id, slack)
  <2>1. q = u
    BY <1>1, <1>9 DEF Examine, counted
  <2>2. Walked(db, u, counted) /\ WalkedOver(db, u, counted, id)
    BY <1>4, <1>5, <1>6, <1>7, PropagateCtrWalks, PropagateCtrActs
  <2> HIDE DEF u
  <2>3. u \in State /\ Extends(u, counted) /\ u.next = counted.next
    BY <2>2 DEF Walked, States
  <2>4. Discounted(u) = Discounted(counted)
    BY <2>3, <1>5, SameDiscounted DEF Orderly
  <2>5. Remaining(db, u, id) = slack
    BY <2>4, <1>5 DEF Remaining
  <2>6. Acted(db, u, id)
    BY <2>2, <2>5, <1>1, <1>7, <1>9 DEF WalkedOver, Acted
  <2>7. \A m \in Fixed(db[id]) : Agrees(s, m) => Agrees(u, m)
    BY <2>2, <1>4, <1>5 DEF WalkedOver, Agrees
  <2> QED BY <2>1, <2>2, <2>6, <2>7 DEF Heeded, WalkedOver
<1>10. CASE sum >= 0
  <2>1. q = counted
    BY <1>1, <1>10 DEF Examine, counted
  <2>2. Acted(db, counted, id)
    <3>1. \A i \in 1 .. Len(db[id].lhs) : ~(db[id].lhs[i].coef > slack)
      <4> TAKE i \in 1 .. Len(db[id].lhs)
      <4>1. db[id].lhs[i].coef <= MaxCoef(db[id]) /\ db[id].lhs[i].coef \in Nat
        BY <1>1, MaxCoefFirst, ConstraintFacts
      <4> QED BY <4>1, <1>1, <1>10
    <3> QED BY <3>1, <1>1, <1>7, <1>10 DEF Acted
  <2>3. \A m \in Fixed(db[id]) : Agrees(s, m) => Agrees(counted, m)
    BY <1>4, <1>5 DEF Agrees
  <2> QED BY <2>1, <2>2, <2>3, <1>6 DEF Heeded
<1> QED BY <1>1, <1>8, <1>9, <1>10

(* State r on the way from s, when the constraints of lit up to n are visited. *)
Noticed(db, r, s, lit, n) ==
  /\ Cursor(db, r) /\ Begun(db, r)
  /\ ~r.conflict => \A id \in 1 .. n : lit \in LitsOf(db[id]) => Acted(db, r, id)
  /\ \A m : /\ \A id \in 1 .. Len(db) : lit \in LitsOf(db[id]) => m \in Fixed(db[id])
            /\ Agrees(s, m)
            => Agrees(r, m)

(* A literal more on the trail leaves a constraint acted on. *)
LEMMA StillActed ==
  ASSUME NEW db, NEW s, NEW r, NEW id, Discounted(r) = Discounted(s), TrueLits(s) \subseteq TrueLits(r),
         Acted(db, s, id)
  PROVE  Acted(db, r, id)
<1>1. Remaining(db, r, id) = Remaining(db, s, id)
  BY DEF Remaining
<1> QED BY <1>1, StillDefined DEF Acted

(* An extended trail has the literals it had. *)
LEMMA ExtendsLits ==
  ASSUME NEW s \in State, NEW r \in State, Extends(r, s)
  PROVE  TrueLits(s) \subseteq TrueLits(r)
<1>1. DOMAIN s.trail = 1 .. Len(s.trail) /\ DOMAIN r.trail = 1 .. Len(r.trail)
      /\ Len(s.trail) \in Nat /\ Len(r.trail) \in Nat
  BY StateFacts
<1>2. \A i \in DOMAIN s.trail : i \in DOMAIN r.trail /\ r.trail[i] = s.trail[i]
  BY <1>1 DEF Extends
<1> QED BY <1>2 DEF TrueLits

(* One constraint. *)
LEMMA DiscountNotices ==
  ASSUME NEW db \in Databases, NEW s \in States(db), NEW lit, Stale(db, s, lit), Orderly(s),
         NEW id \in 1 .. Len(db), NEW r \in States(db), Visited(db, r, s, id - 1),
         Noticed(db, r, s, lit, id - 1)
  PROVE  Noticed(db, Discount(db, r, lit, id), s, lit, id)
<1> DEFINE q == Discount(db, r, lit, id)
<1>1. s \in State /\ r \in State /\ Len(db) \in Nat /\ id \in Nat /\ r.conflict \in BOOLEAN
  BY StateFacts DEF States, Databases
<1>2. \A i \in 1 .. id : i = id \/ i \in 1 .. id - 1
  BY <1>1
<1>3. CASE r.conflict \/ lit \notin LitsOf(db[id])
  <2>1. q = r
    BY <1>3 DEF Discount
  <2>2. ~r.conflict => \A i \in 1 .. id : lit \in LitsOf(db[i]) => Acted(db, r, i)
    BY <1>2, <1>3 DEF Noticed
  <2> QED BY <2>1, <2>2 DEF Noticed
<1>4. CASE ~r.conflict /\ lit \in LitsOf(db[id])
  <2>1. Discounted(r) = Discounted(s)
    BY <1>1, SameDiscounted DEF Visited, Orderly
  <2>2. Remaining(db, r, id) = Remaining(db, s, id) /\ Remaining(db, s, id) \in Int
        /\ MaxCoef(db[id]) \in Nat
    BY <2>1, RemainingType DEF Remaining
  <2>3. db[id] \in Constraint
    BY DEF Databases
  <2>4. Coef(db[id], lit) \in Nat
    BY <2>3, <1>4, ConstraintFacts
  <2>5. r.sums[id] = Remaining(db, s, id) - MaxCoef(db[id]) + Coef(db[id], lit)
    <3>1. id \in (id - 1) + 1 .. Len(db)
      BY <1>1
    <3>2. r.sums[id] = s.sums[id]
      BY <3>1, <1>4 DEF Visited
    <3> QED BY <3>2, <1>4 DEF Stale
  <2>6. q = Examine(db[id], r, id, Remaining(db, r, id) - MaxCoef(db[id]))
    <3>1. r.sums[id] - Coef(db[id], lit) = Remaining(db, r, id) - MaxCoef(db[id])
      BY <2>2, <2>4, <2>5
    <3> QED BY <3>1, <1>4 DEF Discount
  <2>7. Examined(db, q, r, id) /\ Heeded(db, q, r, id)
    BY <2>6, ExamineMakes, ExamineHeeds DEF Visited, Noticed
  <2> HIDE DEF q
  <2>8. q \in State /\ Extends(q, r) /\ q.next = r.next
    BY <2>7 DEF Examined, States
  <2>9. Discounted(q) = Discounted(r) /\ TrueLits(r) \subseteq TrueLits(q)
    BY <2>8, <1>1, SameDiscounted, ExtendsLits DEF Visited, Orderly
  <2>10. ~q.conflict => \A i \in 1 .. id : lit \in LitsOf(db[i]) => Acted(db, q, i)
    <3> SUFFICES ASSUME ~q.conflict, NEW i \in 1 .. id, lit \in LitsOf(db[i]) PROVE Acted(db, q, i)
      OBVIOUS
    <3>1. CASE i = id
      BY <3>1, <2>7 DEF Heeded
    <3>2. CASE i \in 1 .. id - 1
      <4>1. Acted(db, r, i)
        BY <3>2, <1>4 DEF Noticed
      <4> QED BY <4>1, <2>9, StillActed
    <3> QED BY <3>1, <3>2, <1>2
  <2>11. ASSUME NEW m, \A i \in 1 .. Len(db) : lit \in LitsOf(db[i]) => m \in Fixed(db[i]), Agrees(s, m)
         PROVE  Agrees(q, m)
    <3>1. Agrees(r, m) /\ m \in Fixed(db[id])
      BY <2>11, <1>4 DEF Noticed
    <3> QED BY <3>1, <2>7 DEF Heeded
  <2>12. Noticed(db, q, s, lit, id)
    BY <2>7, <2>10, <2>11 DEF Noticed, Heeded
  <2> QED BY <2>12 DEF q
<1> QED BY <1>1, <1>3, <1>4

(* All constraints. *)
LEMMA VisitListsNotices ==
  ASSUME NEW db \in Databases, NEW s \in States(db), NEW lit, Stale(db, s, lit), Orderly(s),
         Cursor(db, s), Begun(db, s)
  PROVE  Noticed(db, VisitLists(db, s, lit), s, lit, Len(db))
<1> DEFINE n == Len(db)
<1>1. n \in Nat
  BY DEF Databases
<1>2. PICK h \in [0 .. n -> States(db)] :
           /\ h[0] = s
           /\ \A i \in 1 .. n : h[i] = Discount(db, h[i - 1], lit, i)
           /\ VisitLists(db, s, lit) = h[n]
  BY VisitListsSteps
<1> DEFINE T == {i \in 0 .. n : Visited(db, h[i], s, i) /\ Noticed(db, h[i], s, lit, i)}
<1>3. 0 \in T
  <2>1. Visited(db, s, s, 0)
    BY ExtendsSelf DEF Visited, States, Sound, CountersUpTo
  <2>2. Noticed(db, s, s, lit, 0)
    BY DEF Noticed
  <2> QED BY <2>1, <2>2, <1>1, <1>2
<1>4. ASSUME NEW i \in 1 .. n, i - 1 \in T PROVE i \in T
  <2>1. h[i - 1] \in States(db) /\ Visited(db, h[i - 1], s, i - 1) /\ Noticed(db, h[i - 1], s, lit, i - 1)
    BY <1>4
  <2>2. Visited(db, Discount(db, h[i - 1], lit, i), s, i)
    BY <2>1, DiscountVisits
  <2>3. Noticed(db, Discount(db, h[i - 1], lit, i), s, lit, i)
    BY <2>1, DiscountNotices
  <2> QED BY <2>2, <2>3, <1>1, <1>2
<1>5. n \in T
  <2> HIDE DEF T
  <2>1. Inductive(n, T)
    BY <1>1, <1>3, <1>4 DEF Inductive
  <2> QED BY <2>1, InductionUpTo
<1> QED BY <1>2, <1>5

(* The constraints of the literals that were propagated after the first b have been
   acted on. *)
Seen(db, s, b) ==
  \A j \in b + 1 .. s.next : \A id \in 1 .. Len(db) :
    -s.trail[j].lit \in LitsOf(db[id]) => Acted(db, s, id)

(* What propagation keeps of s. *)
Keeps(db, r, s) ==
  /\ Cursor(db, r) /\ Begun(db, r)
  /\ Slacks(db, s) => Slacks(db, r)
  /\ \A b \in 0 .. s.next : Seen(db, s, b) => Seen(db, r, b)

(* The constraints of the literal to propagate next leave m alone. *)
Harmless(db, s, m) ==
  s.next # Len(s.trail) =>
    \A id \in 1 .. Len(db) : -s.trail[s.next + 1].lit \in LitsOf(db[id]) => m \in Fixed(db[id])

(* What is discounted with the literal after the next. *)
LEMMA DiscountedNext ==
  ASSUME NEW s, NEW r, s.next \in Nat, r.next = s.next + 1,
         \A i \in 1 .. s.next + 1 : r.trail[i] = s.trail[i]
  PROVE  Discounted(r) = Discounted(s) \cup {-s.trail[s.next + 1].lit}
<1>1. 1 .. s.next + 1 = (1 .. s.next) \cup {s.next + 1}
  OBVIOUS
<1>2. \A i \in 1 .. s.next : i \in 1 .. s.next + 1
  OBVIOUS
<1>3. s.next + 1 \in 1 .. s.next + 1
  OBVIOUS
<1>4. Discounted(r) = {-s.trail[i].lit : i \in 1 .. s.next + 1}
  BY DEF Discounted
<1> QED BY <1>1, <1>4 DEF Discounted

(* A constraint without the literal is acted on as before. *)
LEMMA UntouchedRemains ==
  ASSUME NEW db, NEW s, NEW r, NEW lit, NEW id, Discounted(r) = Discounted(s) \cup {lit},
         lit \notin LitsOf(db[id])
  PROVE  Remaining(db, r, id) = Remaining(db, s, id)
<1>1. LitsOf(db[id]) \ Discounted(r) = LitsOf(db[id]) \ Discounted(s)
  OBVIOUS
<1> QED BY <1>1 DEF Remaining

(* One round keeps all that, and an assignment that the constraints leave alone
   goes on agreeing. *)
LEMMA PropagateNextKeeps ==
  ASSUME NEW db \in Databases, NEW s, Good(db, s), Cursor(db, s), Begun(db, s)
  PROVE  /\ Keeps(db, PropagateNext(db, s), s)
         /\ \A m : Harmless(db, s, m) /\ Agrees(s, m) => Agrees(PropagateNext(db, s), m)
<1>1. s \in State /\ s \in States(db) /\ s.next \in Nat /\ Len(s.trail) \in Nat /\ s.sums \in Seq(Int)
      /\ Len(s.sums) = Len(db) /\ s.next <= Len(s.trail)
  BY StateFacts DEF Good, States, Orderly
<1>2. CASE s.conflict \/ s.next = Len(s.trail)
  <2>1. PropagateNext(db, s) = s
    BY <1>2 DEF PropagateNext
  <2> QED BY <2>1 DEF Keeps
<1>3. CASE ~(s.conflict \/ s.next = Len(s.trail))
  <2> DEFINE lit == -s.trail[s.next + 1].lit
             t == [s EXCEPT !.next = @ + 1]
             v == VisitLists(db, t, lit)
             r == PropagateNext(db, s)
  <2>1. t \in States(db) /\ Orderly(t) /\ Stale(db, t, lit)
    BY <1>3, NextStale
  <2>2. /\ t.trail = s.trail /\ t.next = s.next + 1 /\ t.sums = s.sums
        /\ t.conflict = s.conflict /\ t.from = s.from
    BY <1>1 DEF States, State
  <2>3. r = Unpropagate(RestoreCounters(v, t.sums))
    BY <1>3 DEF PropagateNext, Visit
  <2>0. lit = -s.trail[s.next + 1].lit
    OBVIOUS
  <2> HIDE DEF t, lit, r
  <2>4. Visited(db, v, t, Len(db))
    BY <2>1, VisitListsVisits
  <2>5. Cursor(db, t) /\ Begun(db, t) /\ TrueLits(t) = TrueLits(s)
    BY <2>2 DEF Cursor, Begun, IsUndefLit, TrueLits
  <2>6. Noticed(db, v, t, lit, Len(db))
    BY <2>1, <2>5, VisitListsNotices
  <2> HIDE DEF v
  <2>7. t \in State /\ v \in State /\ v \in States(db) /\ Len(v.trail) \in Nat /\ Len(s.trail) <= Len(v.trail)
        /\ \A i \in 1 .. Len(s.trail) : v.trail[i] = s.trail[i]
    BY <2>1, <2>2, <2>4, StateFacts DEF Visited, States, Extends
  <2>8. v.next = s.next + 1 /\ TrueLits(s) \subseteq TrueLits(v)
    BY <2>2, <2>4, <2>5, <2>7, ExtendsLits DEF Visited
  <2>9. ASSUME NEW m, Harmless(db, s, m), Agrees(s, m) PROVE Agrees(v, m)
    <3>1. \A id \in 1 .. Len(db) : lit \in LitsOf(db[id]) => m \in Fixed(db[id])
      BY <2>0, <2>9, <1>3 DEF Harmless
    <3>2. Agrees(t, m)
      BY <2>2, <2>5, <2>9 DEF Agrees
    <3> QED BY <3>1, <3>2, <2>6 DEF Noticed
  <2>10. CASE v.conflict
    <3>1. /\ r.trail = v.trail /\ r.next = s.next /\ r.from = v.from
      <4> DEFINE u == [v EXCEPT !.sums = s.sums]
      <4>1. u \in States(db) /\ u.trail = v.trail /\ u.next = s.next + 1 /\ u.conflict /\ u.from = v.from
        BY <2>7, <2>8, <2>10, <1>1 DEF States, State
      <4>2. r = [u EXCEPT !.next = @ - 1]
        BY <2>2, <2>3, <2>10, <4>1 DEF Unpropagate, RestoreCounters
      <4> HIDE DEF u
      <4>3. u.next - 1 = s.next
        BY <4>1, <1>1
      <4>4. r = [u EXCEPT !.next = s.next]
        BY <4>2, <4>3
      <4> QED BY <4>1, <4>4, <1>1 DEF States, State
    <3>2. TrueLits(r) = TrueLits(v)
      BY <3>1 DEF TrueLits
    <3>3. Cursor(db, r) /\ Begun(db, r)
      BY <3>1, <3>2, <2>6 DEF Noticed, Cursor, Begun, IsUndefLit
    <3>4. Discounted(r) = Discounted(s)
      <4>1. \A i \in 1 .. s.next : i \in 1 .. Len(s.trail)
        BY <1>1
      <4> QED BY <3>1, <4>1, <2>7 DEF Discounted
    <3>5. Slacks(db, s) => Slacks(db, r)
      BY <3>4 DEF Slacks, Remaining
    <3>6. ASSUME NEW b \in 0 .. s.next, Seen(db, s, b) PROVE Seen(db, r, b)
      <4> SUFFICES ASSUME NEW j \in b + 1 .. r.next, NEW id \in 1 .. Len(db),
                          -r.trail[j].lit \in LitsOf(db[id])
                   PROVE  Acted(db, r, id)
        BY DEF Seen
      <4>1. j \in b + 1 .. s.next /\ j \in 1 .. Len(s.trail)
        BY <3>1, <1>1
      <4>2. -s.trail[j].lit \in LitsOf(db[id])
        BY <4>1, <3>1, <2>7
      <4>3. Acted(db, s, id)
        BY <4>1, <4>2, <3>6 DEF Seen
      <4> QED BY <4>3, <3>2, <3>4, <2>8, StillActed
    <3>7. \A m : Harmless(db, s, m) /\ Agrees(s, m) => Agrees(r, m)
      BY <2>9, <2>10 DEF Agrees
    <3> QED BY <3>3, <3>5, <3>6, <3>7 DEF Keeps, r
  <2>11. CASE ~v.conflict
    <3>1. r = v
      BY <2>3, <2>11 DEF Unpropagate, RestoreCounters
    <3>2. Discounted(v) = Discounted(s) \cup {lit}
      <4>1. \A i \in 1 .. s.next + 1 : i \in 1 .. Len(s.trail)
        BY <1>1, <1>3
      <4>2. \A i \in 1 .. s.next + 1 : v.trail[i] = s.trail[i]
        BY <4>1, <2>7
      <4> QED BY <4>2, <2>0, <2>8, <1>1, DiscountedNext
    <3>3. \A id \in 1 .. Len(db) : lit \in LitsOf(db[id]) => Acted(db, v, id)
      BY <2>6, <2>11 DEF Noticed
    <3>4. \A id \in 1 .. Len(db) : lit \notin LitsOf(db[id]) => Remaining(db, v, id) = Remaining(db, s, id)
      BY <3>2, UntouchedRemains
    <3>5. Slacks(db, s) => Slacks(db, v)
      BY <3>3, <3>4 DEF Slacks, Acted
    <3>6. ASSUME NEW b \in 0 .. s.next, Seen(db, s, b) PROVE Seen(db, v, b)
      <4> SUFFICES ASSUME NEW j \in b + 1 .. v.next, NEW id \in 1 .. Len(db),
                          -v.trail[j].lit \in LitsOf(db[id]), lit \notin LitsOf(db[id])
                   PROVE  Acted(db, v, id)
        BY <3>3 DEF Seen
      <4>1. j \in 1 .. s.next + 1 /\ s.next + 1 <= Len(s.trail)
        BY <2>8, <1>1, <1>3
      <4>2. v.trail[j] = s.trail[j]
        BY <4>1, <2>7, <1>1
      <4>3. j # s.next + 1
        BY <4>2, <2>0
      <4>4. j \in b + 1 .. s.next
        BY <4>1, <4>3, <1>1
      <4>5. Acted(db, s, id)
        BY <4>2, <4>4, <3>6 DEF Seen
      <4>6. Remaining(db, v, id) = Remaining(db, s, id)
        BY <3>4
      <4> QED BY <4>5, <4>6, <2>8, StillDefined DEF Acted
    <3> QED BY <3>1, <3>5, <3>6, <2>6, <2>9 DEF Keeps, Noticed, r
  <2> QED BY <2>10, <2>11
<1> QED BY <1>2, <1>3

(* Keeping on. *)
LEMMA KeepsTrans ==
  ASSUME NEW db, NEW s, NEW r, NEW q, s.next \in Nat, r.next \in Nat, s.next <= r.next,
         Keeps(db, r, s), Keeps(db, q, r)
  PROVE  Keeps(db, q, s)
<1>1. \A b \in 0 .. s.next : b \in 0 .. r.next
  OBVIOUS
<1> QED BY <1>1 DEF Keeps

(* So does propagation as a whole. *)
LEMMA PropagateKeeps ==
  ASSUME NEW db \in Databases, NEW s, Good(db, s), Cursor(db, s), Begun(db, s)
  PROVE  Keeps(db, Propagate(db, s), s)
<1>1. NumVars \in Nat
  BY VarsAssumption
<1>2. PICK h \in [0 .. NumVars -> GoodStates(db)] :
           /\ h[0] = s
           /\ \A i \in 1 .. NumVars : h[i] = PropagateNext(db, h[i - 1])
           /\ Propagate(db, s) = h[NumVars]
  BY PropagateSteps
<1> DEFINE T == {i \in 0 .. NumVars : Keeps(db, h[i], s) /\ s.next <= h[i].next}
<1>3. s \in State /\ s.next \in Nat
  BY StateFacts DEF Good, States
<1>4. 0 \in T
  <2>1. Keeps(db, s, s)
    BY DEF Keeps
  <2> QED BY <2>1, <1>1, <1>2, <1>3
<1>5. ASSUME NEW i \in 1 .. NumVars, i - 1 \in T PROVE i \in T
  <2> DEFINE r == h[i - 1]
             q == PropagateNext(db, r)
  <2>1. Good(db, r) /\ Keeps(db, r, s) /\ q = h[i] /\ s.next <= r.next
    BY <1>5, <1>2 DEF GoodStates
  <2>2. Cursor(db, r) /\ Begun(db, r)
    BY <2>1 DEF Keeps
  <2>3. Keeps(db, q, r) /\ Propagated(db, q, r)
    BY <2>1, <2>2, PropagateNextKeeps, PropagateNextMakes
  <2>4. r.next \in Nat /\ q.next \in Nat /\ r.next <= q.next
    BY <2>1, <2>3, StateFacts DEF Propagated, Good, States
  <2> HIDE DEF r, q
  <2>5. Keeps(db, q, s)
    BY <2>1, <2>3, <2>4, <1>3, KeepsTrans
  <2> QED BY <2>1, <2>4, <2>5, <1>1, <1>3
<1>6. NumVars \in T
  <2> HIDE DEF T
  <2>1. Inductive(NumVars, T)
    BY <1>1, <1>4, <1>5 DEF Inductive
  <2> QED BY <2>1, InductionUpTo
<1> QED BY <1>2, <1>6

(* What an assumption makes of s. *)
Assumed(db, a, s, lit) ==
  /\ Good(db, a) /\ Cursor(db, a) /\ Begun(db, a)
  /\ a.next = s.next /\ a.conflict = s.conflict /\ TrueLits(a) = TrueLits(s) \cup {lit}
  /\ Len(a.trail) = Len(s.trail) + 1
  /\ \A i \in 1 .. Len(s.trail) : a.trail[i] = s.trail[i]
  /\ Slacks(db, s) => Slacks(db, a)

(* A literal is assumed. *)
LEMMA AssumeMakes ==
  ASSUME NEW db \in Databases, NEW s, Good(db, s), NEW lit \in Lits, IsUndefLit(s, lit),
         Cursor(db, s), Begun(db, s)
  PROVE  Assumed(db, Assume(s, lit), s, lit)
<1> DEFINE a == Assume(s, lit)
           n == Len(s.trail)
<1>1. s \in State /\ s \in States(db) /\ Level(s) \in Nat /\ s.next \in Nat /\ n \in Nat /\ Orderly(s)
  BY StateFacts DEF Good, States
<1>2. Level(s) + 1 \in Nat /\ NoReason \in Reason
  BY <1>1, ReasonFacts
<1>3. Append(s.trail, Assigned(lit, Level(s) + 1, NoReason)) \in Seq(TrailEntry)
  BY <1>1, <1>2, AppendEntry
<1>4. /\ a.trail = Append(s.trail, Assigned(lit, Level(s) + 1, NoReason)) /\ a.next = s.next
      /\ a.conflict = s.conflict /\ a.sums = s.sums /\ a.from = s.from /\ a \in States(db)
  <2> PICK tr : tr = Append(s.trail, Assigned(lit, Level(s) + 1, NoReason))
    OBVIOUS
  <2>1. a = [s EXCEPT !.trail = tr] /\ tr \in Seq(TrailEntry)
    BY <1>3 DEF Assume
  <2> HIDE DEF a
  <2> QED BY <2>1, <1>1 DEF States, State
<1>5. a \in State
  BY <1>4 DEF States
<1> HIDE DEF a
<1>6. /\ Orderly(a) /\ TrueLits(a) = TrueLits(s) \cup {lit} /\ Len(a.trail) = n + 1
      /\ \A i \in 1 .. n : a.trail[i] = s.trail[i]
  <2>1. Level(s) + 1 \in {Level(s), Level(s) + 1}
    OBVIOUS
  <2> QED BY <2>1, <1>1, <1>2, <1>4, <1>5, OrderlyAppend
<1>7. Discounted(a) = Discounted(s)
  <2>1. \A i \in 1 .. s.next : i \in 1 .. n
    BY <1>1 DEF Orderly
  <2>2. \A i \in 1 .. s.next : a.trail[i] = s.trail[i]
    BY <2>1, <1>6
  <2> QED BY <2>2, <1>4 DEF Discounted
<1>8. Good(db, a)
  <2>1. CountersRight(db, s)
    BY DEF Good
  <2>2. CountersRight(db, a)
    BY <2>1, <1>4, <1>7 DEF CountersRight
  <2> QED BY <2>2, <1>4, <1>6 DEF Good
<1>9. Cursor(db, a) /\ Begun(db, a)
  <2>1. TrueLits(s) \subseteq TrueLits(a)
    BY <1>6
  <2>2. Cursor(db, a)
    BY <2>1, <1>4, StillDefined, ZenonT(40) DEF Cursor
  <2> QED BY <2>2, <1>4 DEF Begun
<1>10. Slacks(db, s) => Slacks(db, a)
  BY <1>7 DEF Slacks, Remaining
<1> QED BY <1>4, <1>6, <1>8, <1>9, <1>10 DEF Assumed, a

(* What assuming a literal and propagating it leaves: the constraints of all that
   was propagated have been acted on. *)
TriedOut(db, r, s) ==
  /\ Cursor(db, r) /\ Begun(db, r)
  /\ Slacks(db, s) => Slacks(db, r)
  /\ Seen(db, r, s.next) /\ s.next <= r.next

(* It leaves that. *)
LEMMA TryKeeps ==
  ASSUME NEW db \in Databases, NEW s, Good(db, s), NEW lit \in Lits, IsUndefLit(s, lit),
         Cursor(db, s), Begun(db, s)
  PROVE  TriedOut(db, AssumeAndPropagate(db, s, lit), s)
<1> PICK a : a = Assume(s, lit)
  OBVIOUS
<1>1. AssumeAndPropagate(db, s, lit) = Propagate(db, a)
  BY DEF AssumeAndPropagate
<1>2. Assumed(db, a, s, lit)
  BY AssumeMakes
<1>3. s.next \in Nat
  BY StateFacts DEF Good, States
<1>4. Keeps(db, Propagate(db, a), a)
  BY <1>2, PropagateKeeps DEF Assumed
<1>5. Seen(db, a, a.next)
  BY <1>2, <1>3 DEF Seen, Assumed
<1>6. a.next \in 0 .. a.next
  BY <1>2, <1>3 DEF Assumed
<1>7. a.next <= Propagate(db, a).next
  BY <1>2, PropagateMakes DEF Assumed, Propagated
<1> QED BY <1>1, <1>2, <1>4, <1>5, <1>6, <1>7 DEF Keeps, Assumed, TriedOut

(* Everything that is propagated and acted on leaves the trail alone. *)
LEMMA ActedIsFixed ==
  ASSUME NEW db \in Databases, NEW t, Good(db, t), t.next = Len(t.trail), NEW id \in 1 .. Len(db),
         Acted(db, t, id)
  PROVE  TrueLits(t) \in Fixed(db[id])
<1> DEFINE m == TrueLits(t)
<1>1. t \in State /\ m \subseteq Lits /\ DOMAIN t.trail = 1 .. Len(t.trail) /\ db[id] \in Constraint
      /\ \A i \in 1 .. Len(t.trail) : t.trail[i].lit \in Lits
  BY StateFacts DEF Good, States, Databases
<1>2. \A l \in m : -l \notin m
  <2>1. \A i, j \in 1 .. Len(t.trail) : t.trail[i].lit # -t.trail[j].lit
    <3> TAKE i, j \in 1 .. Len(t.trail)
    <3>1. CASE i = j
      BY <3>1, <1>1, LitFacts
    <3>2. CASE i # j
      BY <3>2 DEF Good, Orderly, Consistent
    <3> QED BY <3>1, <3>2
  <2> QED BY <2>1, <1>1 DEF TrueLits
<1>3. Discounted(t) = Negs(m)
  BY <1>1 DEF Discounted, Negs, TrueLits
<1>4. Remaining(db, t, id) = Spare(db[id], Negs(m))
  BY <1>3, RemainingIs
<1>5. \A i \in 1 .. Len(db[id].lhs) : ~IsUndefLit(t, db[id].lhs[i].lit) => db[id].lhs[i].lit \in m \cup Negs(m)
  <2> TAKE i \in 1 .. Len(db[id].lhs)
  <2> DEFINE l == db[id].lhs[i].lit
  <2>1. l \in Lits /\ -(-l) = l
    BY <1>1, ConstraintFacts, LitFacts
  <2>2. l \in m \/ -l \in m => l \in m \cup Negs(m)
    BY <2>1 DEF Negs
  <2> QED BY <2>2 DEF IsUndefLit
<1> QED BY <1>1, <1>2, <1>4, <1>5 DEF Acted, Fixed

(* h goes the way t went: both start with the same n literals, what h has made true
   is true in t, and what t made true after them has been acted on. *)
Retracing(db, h, t, n) ==
  /\ Good(db, h) /\ Cursor(db, h) /\ Begun(db, h)
  /\ n <= h.next /\ n <= Len(h.trail) /\ \A i \in 1 .. n : h.trail[i] = t.trail[i]
  /\ Agrees(h, TrueLits(t))

(* t has ended. *)
Ended(db, t, n) ==
  Good(db, t) /\ t.next = Len(t.trail) /\ n <= Len(t.trail) /\ Seen(db, t, n)

(* What h propagates next, t has propagated without a conflict. *)
LEMMA RetracingHarmless ==
  ASSUME NEW db \in Databases, NEW n \in Nat, NEW t, Ended(db, t, n), NEW h, Retracing(db, h, t, n)
  PROVE  Harmless(db, h, TrueLits(t))
<1> DEFINE m == TrueLits(t)
           l == h.trail[h.next + 1].lit
<1>1. /\ h \in State /\ h.next \in Nat /\ Len(h.trail) \in Nat /\ h.next <= Len(h.trail)
      /\ DOMAIN h.trail = 1 .. Len(h.trail)
  BY StateFacts DEF Retracing, Good, States, Orderly
<1>2. t \in State /\ Len(t.trail) \in Nat /\ DOMAIN t.trail = 1 .. Len(t.trail)
  BY StateFacts DEF Ended, Good, States
<1> SUFFICES ASSUME h.next # Len(h.trail), NEW id \in 1 .. Len(db), -l \in LitsOf(db[id])
             PROVE  m \in Fixed(db[id])
  BY DEF Harmless
<1>3. h.next + 1 \in 1 .. Len(h.trail) /\ h.next + 1 > n
  BY <1>1 DEF Retracing
<1>4. l \in m
  <2>1. l \in TrueLits(h)
    BY <1>1, <1>3 DEF TrueLits
  <2> QED BY <2>1 DEF Retracing, Agrees
<1>5. PICK k \in 1 .. Len(t.trail) : t.trail[k].lit = l
  BY <1>2, <1>4 DEF TrueLits
<1>6. ~(k <= n)
  <2> SUFFICES ASSUME k <= n PROVE FALSE
    OBVIOUS
  <2>1. k \in 1 .. n /\ k \in 1 .. Len(h.trail) /\ k # h.next + 1
    BY <1>1, <1>2, <1>3, <1>5 DEF Retracing
  <2>2. h.trail[k].lit = h.trail[h.next + 1].lit
    BY <2>1, <1>5 DEF Retracing
  <2> QED BY <2>1, <2>2, <1>3 DEF Retracing, Good, Orderly, Consistent
<1>7. k \in n + 1 .. t.next
  BY <1>2, <1>5, <1>6 DEF Ended
<1>8. -t.trail[k].lit \in LitsOf(db[id])
  BY <1>5
<1> HIDE DEF l
<1>9. Acted(db, t, id)
  BY <1>7, <1>8 DEF Ended, Seen
<1> QED BY <1>9, ActedIsFixed DEF Ended

(* What was tried without a conflict is repeated without one, as it is when the
   other value has failed. *)
LEMMA RepeatNoConflict ==
  ASSUME NEW db \in Databases,
         NEW s, Good(db, s), Cursor(db, s), Begun(db, s),
         NEW lit \in Lits, IsUndefLit(s, lit), ~AssumeAndPropagate(db, s, lit).conflict,
         NEW u, Good(db, u), Cursor(db, u), Begun(db, u),
         u.trail = s.trail, u.next = Len(u.trail), ~u.conflict
  PROVE  ~AssumeAndPropagate(db, u, lit).conflict
<1> PICK t, a, n : t = AssumeAndPropagate(db, s, lit) /\ a = Assume(u, lit) /\ n = Len(s.trail)
  OBVIOUS
<1>0. NumVars \in Nat
  BY VarsAssumption
<1>1. s \in State /\ n \in Nat /\ s.next \in Nat /\ s.next <= n
  BY StateFacts DEF Good, States, Orderly
<1>2. Tried(db, t, s, lit) /\ TriedOut(db, t, s) /\ ~t.conflict
  BY TryMakes, TryKeeps
<1>3. Good(db, t) /\ t \in State /\ t.next = Len(t.trail) /\ n < Len(t.trail) /\ Len(t.trail) \in Nat
      /\ DOMAIN t.trail = 1 .. Len(t.trail)
  BY <1>2, StateFacts DEF Tried, Good, States
<1>4. Ended(db, t, n)
  <2>1. Seen(db, t, s.next)
    BY <1>2 DEF TriedOut
  <2>2. \A j \in n + 1 .. t.next : j \in s.next + 1 .. t.next
    BY <1>1, <1>3
  <2>3. Seen(db, t, n)
    BY <2>1, <2>2 DEF Seen
  <2> QED BY <2>3, <1>1, <1>3 DEF Ended
<1>5. IsUndefLit(u, lit)
  BY DEF IsUndefLit, TrueLits
<1>6. Assumed(db, a, u, lit)
  BY <1>5, AssumeMakes
<1>7. Retracing(db, a, t, n)
  <2>1. \A i \in 1 .. n : a.trail[i] = t.trail[i]
    BY <1>2, <1>6 DEF Assumed, Tried
  <2>2. TrueLits(u) \subseteq TrueLits(t) /\ lit \in TrueLits(t)
    <3>1. \A i \in 1 .. n : i \in 1 .. Len(t.trail) /\ t.trail[i].lit = s.trail[i].lit
      BY <1>1, <1>2, <1>3 DEF Tried
    <3>2. TrueLits(u) = {s.trail[i].lit : i \in 1 .. n}
      BY <1>1, StateFacts DEF TrueLits
    <3> QED BY <3>1, <3>2, <1>2, <1>3 DEF TrueLits, Tried
  <2>3. n <= a.next /\ n <= Len(a.trail)
    BY <1>1, <1>6 DEF Assumed
  <2> QED BY <2>1, <2>2, <2>3, <1>6 DEF Retracing, Assumed, Agrees
<1>8. PICK h \in [0 .. NumVars -> GoodStates(db)] :
           /\ h[0] = a
           /\ \A i \in 1 .. NumVars : h[i] = PropagateNext(db, h[i - 1])
           /\ Propagate(db, a) = h[NumVars]
  BY <1>6, PropagateSteps DEF Assumed
<1> DEFINE T == {i \in 0 .. NumVars : Retracing(db, h[i], t, n)}
<1>9. 0 \in T
  BY <1>0, <1>7, <1>8
<1>10. ASSUME NEW i \in 1 .. NumVars, i - 1 \in T PROVE i \in T
  <2> PICK r, q : r = h[i - 1] /\ q = PropagateNext(db, r)
    OBVIOUS
  <2>1. Retracing(db, r, t, n) /\ q = h[i]
    BY <1>10, <1>8
  <2>2. Good(db, r) /\ Cursor(db, r) /\ Begun(db, r) /\ Agrees(r, TrueLits(t))
    BY <2>1 DEF Retracing
  <2>3. Harmless(db, r, TrueLits(t))
    BY <2>1, <1>1, <1>4, RetracingHarmless
  <2>4. Keeps(db, q, r) /\ Agrees(q, TrueLits(t))
    BY <2>2, <2>3, PropagateNextKeeps
  <2>5. Propagated(db, q, r)
    BY <2>2, PropagateNextMakes
  <2>6. /\ r.next \in Nat /\ q.next \in Nat /\ r.next <= q.next /\ Good(db, q)
        /\ Len(r.trail) \in Nat /\ Len(q.trail) \in Nat
    BY <2>2, <2>5, StateFacts DEF Propagated, Good, States
  <2>7. Len(r.trail) <= Len(q.trail) /\ \A j \in 1 .. Len(r.trail) : q.trail[j] = r.trail[j]
    BY <2>5 DEF Propagated, Extends
  <2>8. \A j \in 1 .. n : j \in 1 .. Len(r.trail)
    BY <2>1, <2>6, <1>1 DEF Retracing
  <2>9. Retracing(db, q, t, n)
    BY <2>1, <2>4, <2>6, <2>7, <2>8, <1>1 DEF Retracing, Keeps
  <2> QED BY <2>1, <2>9, <1>0
<1>11. NumVars \in T
  <2> HIDE DEF T
  <2>1. Inductive(NumVars, T)
    BY <1>0, <1>9, <1>10 DEF Inductive
  <2> QED BY <2>1, InductionUpTo
<1>12. AssumeAndPropagate(db, u, lit) = h[NumVars]
  BY <1>8 DEF AssumeAndPropagate
<1> QED BY <1>11, <1>12 DEF Retracing, Agrees

(* What undoing keeps. *)
LEMMA BacktrackKeeps ==
  ASSUME NEW db \in Databases, NEW s, Good(db, s), NEW levels \in Nat, levels <= Level(s),
         Cursor(db, s), Begun(db, s), Slacks(db, s)
  PROVE  /\ Cursor(db, Backtrack(db, s, levels)) /\ Begun(db, Backtrack(db, s, levels))
         /\ Slacks(db, Backtrack(db, s, levels))
<1> PICK r : r = Backtrack(db, s, levels)
  OBVIOUS
<1>1. s \in State /\ Level(s) \in Nat /\ s.next \in Nat /\ Len(s.trail) \in Nat
  BY StateFacts DEF Good, States
<1>2. CASE levels = 0
  BY <1>2 DEF Backtrack
<1>3. CASE levels # 0
  <2>1. Retracted(db, r, s, Level(s) - levels)
    BY <1>3, BacktrackMakes
  <2>2. r \in State /\ Len(r.trail) \in Nat /\ r.next \in Nat /\ r.from \in Seq(Nat) /\ Len(r.from) = Len(db)
        /\ DOMAIN r.from = 1 .. Len(db)
    BY <2>1, StateFacts DEF Retracted, Good, States
  <2>3. \A id \in 1 .. Len(db) : r.from[id] = 1
    <3> PICK p : p = PopLevels(db, s, Level(s) - levels)
      OBVIOUS
    <3>1. p \in State
      <4>1. Level(s) - levels \in Nat /\ Level(s) - levels <= Level(s)
        BY <1>1
      <4>2. Retracted(db, p, s, Level(s) - levels)
        BY <4>1, PopLevelsMakes
      <4> QED BY <4>2 DEF Retracted, Good, States
    <3>2. DOMAIN db = 1 .. Len(db)
      BY DEF Databases
    <3>3. r = NoConflict([p EXCEPT !.from = [id \in DOMAIN db |-> 1]])
      BY <1>3 DEF Backtrack, BackjumpToDL
    <3>4. r.from = [id \in DOMAIN db |-> 1]
      BY <3>1, <3>3 DEF NoConflict, State
    <3> QED BY <3>2, <3>4
  <2>4. Cursor(db, r) /\ Begun(db, r)
    BY <2>3 DEF Cursor, Begun
  <2>5. Discounted(r) \subseteq Discounted(s)
    <3>1. r.next <= s.next /\ r.next <= Len(r.trail)
      BY <2>1, <2>2, <1>1 DEF Retracted, Cut
    <3>2. \A i \in 1 .. r.next : i \in 1 .. s.next /\ i \in 1 .. Len(r.trail)
      BY <3>1, <2>2, <1>1
    <3>3. \A i \in 1 .. r.next : r.trail[i] = s.trail[i]
      BY <3>2, <2>1 DEF Retracted, Cut
    <3> QED BY <3>2, <3>3 DEF Discounted
  <2>6. Slacks(db, r)
    <3> SUFFICES ASSUME NEW id \in 1 .. Len(db) PROVE Remaining(db, r, id) >= 0
      BY DEF Slacks
    <3>1. db[id] \in Constraint
      BY DEF Databases
    <3>2. Remaining(db, s, id) >= 0
      BY DEF Slacks
    <3>3. Spare(db[id], Discounted(r)) \in Int /\ Spare(db[id], Discounted(s)) \in Int
          /\ Spare(db[id], Discounted(s)) <= Spare(db[id], Discounted(r))
      BY <2>5, <3>1, SpareFacts
    <3>4. Remaining(db, s, id) = Spare(db[id], Discounted(s)) /\ Remaining(db, r, id) = Spare(db[id], Discounted(r))
      BY RemainingIs
    <3> QED BY <3>2, <3>3, <3>4
  <2> QED BY <2>4, <2>6
<1> QED BY <1>2, <1>3


-----------------------------------------------------------------------------
(***************************************************************************)
(* Loading.                                                                *)
(***************************************************************************)
Take(db, n) == [i \in 1 .. n |-> db[i]]

(* The first n constraints are loaded: what is on the trail follows from the
   problem, on level 0. *)
LoadedUpTo(db, s, n) ==
  /\ Good(Take(db, n), s) /\ s.next = 0 /\ Level(s) = 0
  /\ \A i \in 1 .. Len(s.trail) : s.trail[i].dl = 0
  /\ \A m \in Models(db) : Agrees(s, m)
  /\ Cursor(Take(db, n), s) /\ Begun(Take(db, n), s)
  /\ ~s.conflict => Slacks(Take(db, n), s)

(* One more constraint is loaded. *)
LEMMA AddMakes ==
  ASSUME NEW db \in Databases, NEW n \in 1 .. Len(db), NEW s, LoadedUpTo(db, s, n - 1)
  PROVE  LoadedUpTo(db, AddConstraint(db, s, n), n)
<1> DEFINE p == Take(db, n)
           o == Take(db, n - 1)
           c == db[n]
           a1 == [s EXCEPT !.sums = Append(s.sums, 0)]
           a == [a1 EXCEPT !.from = Append(s.from, 1)]
           r == AddConstraint(db, s, n)
<1>1. n \in Nat \ {0} /\ n - 1 \in Nat /\ c \in Constraint /\ \A i \in 1 .. n : db[i] \in Constraint
  BY DEF Databases
<1>2. p \in Databases /\ Len(p) = n /\ \A i \in 1 .. n : p[i] = db[i]
  BY <1>1 DEF Take, Databases
<1>3. o \in Databases /\ Len(o) = n - 1 /\ \A i \in 1 .. n - 1 : o[i] = db[i]
  BY <1>1 DEF Take, Databases
<1>4. Good(o, s) /\ s.next = 0 /\ Level(s) = 0 /\ \A m \in Models(db) : Agrees(s, m)
  BY DEF LoadedUpTo
<1>5. n \in 1 .. Len(p) /\ p[n] = c
  BY <1>1, <1>2
<1> HIDE DEF p, o
<1>6. s \in State /\ s.sums \in Seq(Int) /\ Len(s.sums) = n - 1 /\ s.from \in Seq(Nat)
      /\ Len(s.from) = n - 1
  BY <1>3, <1>4, StateFacts DEF Good, States
<1>7. /\ Append(s.sums, 0) \in Seq(Int) /\ Len(Append(s.sums, 0)) = n
      /\ \A i \in 1 .. n - 1 : Append(s.sums, 0)[i] = s.sums[i]
  BY <1>1, <1>6, AppendProperties
<1>8. Append(s.from, 1) \in Seq(Nat) /\ Len(Append(s.from, 1)) = n
  BY <1>1, <1>6, AppendProperties
<1>9. a1 \in State /\ a1.sums = Append(s.sums, 0) /\ a1.trail = s.trail /\ a1.next = 0
      /\ a1.conflict = s.conflict
  BY <1>4, <1>6, <1>7 DEF State
<1>10. [s EXCEPT !.sums = Append(@, 0), !.from = Append(@, 1)] = a
  BY <1>6 DEF State
<1> HIDE DEF a1
<1>11. a \in State /\ a.sums = Append(s.sums, 0) /\ a.trail = s.trail /\ a.next = 0
      /\ a.from = Append(s.from, 1) /\ a.conflict = s.conflict
  BY <1>9, <1>8 DEF State
<1> HIDE DEF a
<1>12. a \in States(p) /\ Orderly(a) /\ Level(a) = 0 /\ TrueLits(a) = TrueLits(s)
  BY <1>2, <1>4, <1>7, <1>8, <1>11 DEF States, Good, Orderly, Level, TrueLits
<1>13. Discounted(s) = {} /\ Discounted(a) = {}
  BY <1>4, <1>11 DEF Discounted
<1>14. r = Examine(p[n], a, n, Remaining(p, a, n) - MaxCoef(p[n]))
  BY <1>5, <1>10, <1>13 DEF AddConstraint, Remaining
<1> HIDE DEF r
<1>15. Examined(p, r, a, n)
  BY <1>2, <1>5, <1>12, <1>14, ExamineMakes
<1>16. r \in State /\ r.next = 0 /\ Orderly(r) /\ Extends(r, a) /\ r \in States(p)
  BY <1>11, <1>15 DEF Examined, States
<1>17. Discounted(r) = {}
  BY <1>16 DEF Discounted
<1>18. ASSUME NEW i \in 1 .. Len(p) PROVE r.sums[i] = Remaining(p, r, i) - MaxCoef(p[i])
  <2>1. r.sums = [a.sums EXCEPT ![n] = Remaining(p, a, n) - MaxCoef(p[n])] /\ Len(a.sums) = n
    BY <1>7, <1>11, <1>15 DEF Examined
  <2>2. CASE i = n
    <3>1. Remaining(p, r, n) = Remaining(p, a, n)
      BY <1>13, <1>17 DEF Remaining
    <3>2. n \in DOMAIN a.sums
      BY <2>1, <1>1, <1>7, <1>11
    <3> QED BY <2>1, <2>2, <3>1, <3>2
  <2>3. CASE i # n
    <3>1. i \in 1 .. n - 1 /\ i \in DOMAIN a.sums
      BY <2>1, <2>3, <1>1, <1>2, <1>7, <1>11
    <3>2. r.sums[i] = s.sums[i]
      BY <2>1, <2>3, <3>1, <1>7, <1>11
    <3>3. s.sums[i] = Remaining(o, s, i) - MaxCoef(o[i])
      BY <3>1, <1>3, <1>4, CountersRightIs DEF Good, CountersUpTo
    <3>4. o[i] = p[i]
      BY <3>1, <1>1, <1>2, <1>3
    <3>5. Remaining(o, s, i) = Remaining(p, r, i)
      BY <3>4, <1>13, <1>17 DEF Remaining
    <3> QED BY <3>2, <3>3, <3>4, <3>5
  <2> QED BY <2>2, <2>3
<1>19. Good(p, r)
  <2>1. CountersRight(p, r)
    BY <1>2, <1>18, CountersRightIs DEF CountersUpTo
  <2> QED BY <2>1, <1>16 DEF Good
<1>20. Level(r) = 0
  BY <1>11, <1>12, <1>16, ExtendsLevel
<1>21. \A i \in 1 .. Len(r.trail) : r.trail[i].dl = 0
  <2>1. Len(s.trail) \in Nat /\ Len(r.trail) \in Nat
    BY <1>6, <1>16, StateFacts
  <2> SUFFICES ASSUME NEW i \in 1 .. Len(r.trail) PROVE r.trail[i].dl = 0
    OBVIOUS
  <2>2. CASE i \in 1 .. Len(s.trail)
    <3>1. r.trail[i] = s.trail[i]
      BY <2>2, <1>11, <1>16 DEF Extends
    <3> QED BY <2>2, <3>1 DEF LoadedUpTo
  <2>3. CASE i \in Len(s.trail) + 1 .. Len(r.trail)
    BY <2>3, <1>11, <1>12, <1>16 DEF Extends
  <2> QED BY <2>1, <2>2, <2>3
<1>22. \A m \in Models(db) : Agrees(r, m)
  <2> SUFFICES ASSUME NEW m \in Models(db) PROVE Agrees(r, m)
    OBVIOUS
  <2>1. m \in Models(p)
    <3>1. \A i \in 1 .. n : i \in 1 .. Len(db)
      BY DEF Databases
    <3> QED BY <3>1, <1>2 DEF Models
  <2>2. Agrees(a, m)
    BY <1>4, <1>11, <1>12 DEF Agrees
  <2> QED BY <2>1, <2>2, <1>15 DEF Examined, Sound
<1>23. Cursor(p, a) /\ Begun(p, a)
  <2>1. a.from[n] = 1 /\ \A i \in 1 .. n - 1 : a.from[i] = s.from[i]
    BY <1>1, <1>6, <1>11, AppendProperties
  <2>2. \A i \in 1 .. n : i = n \/ i \in 1 .. n - 1
    BY <1>1
  <2>3. Cursor(o, s) /\ Begun(o, s)
    BY DEF LoadedUpTo, o
  <2>4. \A i \in 1 .. n - 1 : p[i] = o[i]
    BY <1>1, <1>2, <1>3
  <2>5. Begun(p, a)
    BY <2>1, <2>2, <2>3, <1>2, <1>3 DEF Begun
  <2>6. Cursor(p, a)
    <3> SUFFICES ASSUME NEW i \in 1 .. n, NEW j \in 1 .. Len(p[i].lhs), j < a.from[i]
                 PROVE  ~IsUndefLit(a, p[i].lhs[j].lit)
      BY <1>2 DEF Cursor
    <3>1. CASE i = n
      BY <3>1, <2>1
    <3>2. CASE i \in 1 .. n - 1
      <4>1. ~IsUndefLit(s, p[i].lhs[j].lit)
        BY <3>2, <2>1, <2>3, <2>4, <1>3 DEF Cursor
      <4> QED BY <4>1, <1>12, StillDefined
    <3> QED BY <3>1, <3>2, <2>2
  <2> QED BY <2>5, <2>6
<1>24. Heeded(p, r, a, n)
  BY <1>2, <1>5, <1>12, <1>14, <1>23, ExamineHeeds
<1>25. ASSUME ~r.conflict PROVE Slacks(p, r)
  <2>1. ~s.conflict
    BY <1>25, <1>11, <1>15 DEF Examined
  <2>2. Slacks(o, s)
    BY <2>1 DEF LoadedUpTo, o
  <2> SUFFICES ASSUME NEW i \in 1 .. n PROVE Remaining(p, r, i) >= 0
    BY <1>2 DEF Slacks
  <2>3. CASE i = n
    BY <2>3, <1>24, <1>25 DEF Heeded, Acted
  <2>4. CASE i # n
    <3>1. i \in 1 .. n - 1
      BY <2>4, <1>1
    <3>2. Remaining(o, s, i) >= 0
      BY <3>1, <2>2, <1>3 DEF Slacks
    <3>3. Remaining(p, r, i) = Remaining(o, s, i)
      BY <3>1, <1>1, <1>2, <1>3, <1>13, <1>17 DEF Remaining
    <3> QED BY <3>2, <3>3
  <2> QED BY <2>3, <2>4
<1> QED BY <1>16, <1>19, <1>20, <1>21, <1>22, <1>24, <1>25 DEF LoadedUpTo, Heeded, p, r

(* Adding a constraint adds one counter and one cursor. *)
LEMMA AddType ==
  ASSUME NEW db \in Databases, NEW s \in {t \in State : Len(t.sums) = Len(t.from)},
         NEW n \in 1 .. Len(db)
  PROVE  AddConstraint(db, s, n) \in {t \in State : Len(t.sums) = Len(t.from)}
<1> DEFINE c == db[n]
           a1 == [s EXCEPT !.sums = Append(s.sums, 0)]
           a == [a1 EXCEPT !.from = Append(s.from, 1)]
           sum == Weigh(c, LitsOf(c) \ Discounted(s)) - c.k - MaxCoef(c)
           size == Len(s.sums) + 1
           any == [i \in 1 .. size |-> c]
<1>1. c \in Constraint /\ n \in Nat
  BY DEF Databases
<1>2. sum \in Int
  BY <1>1, ConstraintFacts
<1>3. s \in State /\ s.sums \in Seq(Int) /\ s.from \in Seq(Nat) /\ Len(s.sums) = Len(s.from)
      /\ size \in Nat
  BY StateFacts
<1>4. Append(s.sums, 0) \in Seq(Int) /\ Len(Append(s.sums, 0)) = size
  BY <1>3, AppendProperties
<1>5. Append(s.from, 1) \in Seq(Nat) /\ Len(Append(s.from, 1)) = size
  BY <1>3, AppendProperties
<1>6. a1 \in State /\ a1.sums = Append(s.sums, 0)
  BY <1>3, <1>4 DEF State
<1>7. [s EXCEPT !.sums = Append(@, 0), !.from = Append(@, 1)] = a
  BY <1>3 DEF State
<1>8. AddConstraint(db, s, n) = Examine(c, a, n, sum)
  BY <1>7 DEF AddConstraint
<1> HIDE DEF a1
<1>9. a \in State /\ a.sums = Append(s.sums, 0) /\ a.from = Append(s.from, 1)
  BY <1>5, <1>6 DEF State
<1>10. any \in Databases /\ Len(any) = size
  BY <1>1, <1>3 DEF Databases
<1> HIDE DEF a, any, size, sum, c
<1>11. a \in States(any)
  BY <1>4, <1>5, <1>9, <1>10 DEF States
<1>12. Examine(c, a, n, sum) \in States(any)
  BY <1>1, <1>2, <1>10, <1>11, ExamineType
<1> QED BY <1>8, <1>12 DEF States

(* The solver starts in such a state. *)
LEMMA NoConstraintsType ==
  NoConstraints \in {t \in State : Len(t.sums) = Len(t.from)}
<1>1. <<>> \in Seq(TrailEntry) /\ <<>> \in Seq(Int) /\ <<>> \in Seq(Nat)
  OBVIOUS
<1>2. Vars \in SUBSET Int
  BY VarsAssumption DEF Vars
<1>3. NoReason \in Culprit
  BY ReasonFacts
<1> QED BY <1>1, <1>2, <1>3 DEF NoConstraints, State

(* The constraints are added one after the other. *)
LEMMA LoadedSteps ==
  ASSUME NEW db \in Databases
  PROVE  \E h \in [0 .. Len(db) -> {t \in State : Len(t.sums) = Len(t.from)}] :
           /\ h[0] = NoConstraints
           /\ \A i \in 1 .. Len(db) : h[i] = AddConstraint(db, h[i - 1], i)
           /\ Loaded(db) = h[Len(db)]
<1> DEFINE n == Len(db)
           S == {t \in State : Len(t.sums) = Len(t.from)}
           step(r, i) == AddConstraint(db, r, i)
           idx == [i \in DOMAIN db |-> i]
           g == [p \in S \X (1 .. n) |-> step(p[1], p[2])]
           E(f) == f = [t \in SUBSET DOMAIN idx |->
                          IF t = {} THEN NoConstraints ELSE step(f[t \ {Max(t)}], idx[Max(t)])]
           F == CHOOSE f : E(f)
<1>1. n \in Nat /\ NoConstraints \in S /\ DOMAIN idx = 1 .. n /\ \A i \in 1 .. n : idx[i] = i
  BY NoConstraintsType DEF Databases
<1>2. g \in [S \X (1 .. n) -> S]
  BY AddType
<1>3. \A t \in SUBSET (1 .. n), r \in S : t # {} => g[<<r, Max(t)>>] = step(r, idx[Max(t)])
  BY <1>1, MaxInSet
<1>4. Loaded(db) = F[DOMAIN idx]
  BY Zenon DEF Loaded, FoldLeft, MapThenFoldSet
<1> HIDE DEF step, g, S, n, idx
<1>5. \E f : E(f)
  <2>1. PICK f \in [SUBSET (1 .. n) -> S] : Solves(f, n, NoConstraints, g)
    BY <1>1, <1>2, FoldExists
  <2>2. E(f)
    BY <2>1, <1>1, <1>3 DEF Solves
  <2> QED BY <2>2
<1>6. E(F)
  BY <1>5, Zenon
<1> HIDE DEF F
<1>7. Follows(F, n, S, NoConstraints, g)
  BY <1>1, <1>2, <1>6, <1>3 DEF Follows
<1>8. PICK h : Steps(h, F, n, S, NoConstraints, g)
  BY <1>7, FoldSteps
<1>9. /\ h \in [0 .. n -> S] /\ h[0] = NoConstraints /\ F[1 .. n] = h[n]
      /\ \A i \in 1 .. n : h[i] = g[<<h[i - 1], i>>] /\ h[i - 1] \in S
  BY <1>8, <1>1 DEF Steps
<1>10. \A i \in 1 .. n : h[i] = step(h[i - 1], i)
  BY <1>9 DEF g
<1> QED BY <1>1, <1>4, <1>9, <1>10 DEF n, S, step

(* Loading a problem puts on the trail what follows from it, on level 0, and
   no constraint is falsified unless there is a conflict. *)
LEMMA LoadedMakes ==
  ASSUME NEW db \in Databases
  PROVE  /\ Good(db, Loaded(db)) /\ Level(Loaded(db)) = 0
         /\ \A i \in 1 .. Len(Loaded(db).trail) : Loaded(db).trail[i].dl = 0
         /\ \A m \in Models(db) : Agrees(Loaded(db), m)
         /\ Cursor(db, Loaded(db)) /\ Begun(db, Loaded(db))
         /\ ~Loaded(db).conflict => Slacks(db, Loaded(db))
<1> DEFINE n == Len(db)
<1>1. n \in Nat
  BY DEF Databases
<1>2. PICK h \in [0 .. n -> {t \in State : Len(t.sums) = Len(t.from)}] :
           /\ h[0] = NoConstraints
           /\ \A i \in 1 .. n : h[i] = AddConstraint(db, h[i - 1], i)
           /\ Loaded(db) = h[n]
  BY LoadedSteps
<1> DEFINE T == {i \in 0 .. n : LoadedUpTo(db, h[i], i)}
<1>3. 0 \in T
  <2> DEFINE s == NoConstraints
  <2>0. s.trail = <<>> /\ s.next = 0 /\ s.conflict = FALSE /\ s.sums = <<>> /\ s.from = <<>>
    BY DEF NoConstraints
  <2>1. s \in State
    BY NoConstraintsType
  <2> HIDE DEF s
  <2>2. Len(Take(db, 0)) = 0 /\ DOMAIN Take(db, 0) = {}
    BY DEF Take
  <2>3. Good(Take(db, 0), s)
    BY <2>0, <2>1, <2>2 DEF Good, States, Orderly, Consistent, Stepwise, CountersRight
  <2>4. Level(s) = 0 /\ TrueLits(s) = {}
    BY <2>0 DEF Level, TrueLits
  <2>5. LoadedUpTo(db, s, 0)
    BY <2>0, <2>2, <2>3, <2>4 DEF LoadedUpTo, Agrees, Cursor, Begun, Slacks
  <2> QED BY <2>5, <1>1, <1>2 DEF s
<1>4. ASSUME NEW i \in 1 .. n, i - 1 \in T PROVE i \in T
  <2>1. LoadedUpTo(db, h[i - 1], i - 1)
    BY <1>4
  <2>2. LoadedUpTo(db, AddConstraint(db, h[i - 1], i), i)
    BY <2>1, AddMakes
  <2> QED BY <2>2, <1>1, <1>2
<1>5. n \in T
  <2> HIDE DEF T
  <2>1. Inductive(n, T)
    BY <1>1, <1>3, <1>4 DEF Inductive
  <2> QED BY <2>1, InductionUpTo
<1>6. Take(db, n) = db
  BY DEF Take, Databases
<1> QED BY <1>2, <1>5, <1>6 DEF LoadedUpTo
====
