----------------------------- MODULE FormLemmas -----------------------------
(***************************************************************************)
(* Lemmas about forms: sequences in an order, the weight of a form's       *)
(* literals, what the operators on forms preserve, and the cuts of         *)
(* conflict analysis.                                                      *)
(***************************************************************************)
EXTENDS ConflictAnalysis, PBSolver_proofs

(* R puts the members of the finite set S in a total order. *)
Orders(R, S) ==
  /\ IsFiniteSet(S)
  /\ \A x \in S : <<x, x>> \notin R
  /\ \A x, y \in S : x # y => <<x, y>> \in R \/ <<y, x>> \in R
  /\ \A x, y, z \in S : <<x, y>> \in R /\ <<y, z>> \in R => <<x, z>> \in R

Below(S, R, x) == {y \in S : <<y, x>> \in R}

(* The number of predecessors grows along the order. *)
LEMMA RanksGrow ==
  ASSUME NEW S, NEW R, Orders(R, S)
  PROVE  /\ \A x \in S : Cardinality(Below(S, R, x)) \in 0 .. (Cardinality(S) - 1)
         /\ \A x, y \in S : <<x, y>> \in R => Cardinality(Below(S, R, x)) < Cardinality(Below(S, R, y))
<1>0. IsFiniteSet(S)
  BY DEF Orders
<1>1. \A T \in SUBSET S : IsFiniteSet(T) /\ Cardinality(T) \in Nat
  BY <1>0, FS_Subset, FS_CardinalityType
<1>2. ASSUME NEW T \in SUBSET S, NEW U \in SUBSET T, NEW x \in T, x \notin U
      PROVE  Cardinality(U) < Cardinality(T)
  <2>1. IsFiniteSet(T) /\ IsFiniteSet(U) /\ Cardinality(T) \in Nat /\ Cardinality(U) \in Nat
    BY <1>1
  <2>2. Cardinality(U) <= Cardinality(T) /\ (Cardinality(T) = Cardinality(U) => T = U)
    BY <2>1, FS_Subset
  <2> QED BY <1>2, <2>1, <2>2
<1>3. ASSUME NEW x \in S PROVE Cardinality(Below(S, R, x)) \in 0 .. (Cardinality(S) - 1)
  <2>1. Below(S, R, x) \in SUBSET S /\ x \notin Below(S, R, x) /\ S \in SUBSET S
    BY DEF Below, Orders
  <2>2. Cardinality(Below(S, R, x)) < Cardinality(S)
    BY <1>2, <2>1
  <2>3. Cardinality(Below(S, R, x)) \in Nat /\ Cardinality(S) \in Nat
    BY <1>1, <2>1
  <2> QED BY <2>2, <2>3
<1>4. ASSUME NEW x \in S, NEW y \in S, <<x, y>> \in R
      PROVE  Cardinality(Below(S, R, x)) < Cardinality(Below(S, R, y))
  <2>1. /\ Below(S, R, y) \in SUBSET S /\ Below(S, R, x) \in SUBSET Below(S, R, y)
        /\ x \in Below(S, R, y) /\ x \notin Below(S, R, x)
    BY <1>4 DEF Below, Orders
  <2> QED BY <2>1, <1>2
<1> QED BY <1>3, <1>4

(* Every member has its place, and the places follow the order. *)
LEMMA OrderedRight ==
  ASSUME NEW S, NEW R, Orders(R, S)
  PROVE  /\ Cardinality(S) \in Nat
         /\ DOMAIN Ordered(S, R) = 1 .. Cardinality(S)
         /\ \A i \in 1 .. Cardinality(S) : Ordered(S, R)[i] \in S
         /\ \A x \in S : \E i \in 1 .. Cardinality(S) : Ordered(S, R)[i] = x
         /\ \A i, j \in 1 .. Cardinality(S) : i < j => <<Ordered(S, R)[i], Ordered(S, R)[j]>> \in R
<1> DEFINE n == Cardinality(S)
           rank(x) == Cardinality(Below(S, R, x))
           f == [x \in S |-> rank(x) + 1]
           o == Ordered(S, R)
<1>0. IsFiniteSet(S) /\ n \in Nat
  BY FS_CardinalityType DEF Orders
<1>1. \A x \in S : rank(x) \in 0 .. (n - 1)
  BY RanksGrow
<1>2. \A x, y \in S : <<x, y>> \in R => rank(x) < rank(y)
  BY RanksGrow
<1>3. o = [i \in 1 .. n |-> CHOOSE x \in S : rank(x) = i - 1]
  BY DEF Ordered, Below
<1> HIDE DEF rank, n, o
<1>4. \A x, y \in S : x # y => rank(x) # rank(y)
  <2> SUFFICES ASSUME NEW x \in S, NEW y \in S, x # y PROVE rank(x) # rank(y)
    OBVIOUS
  <2>1. <<x, y>> \in R \/ <<y, x>> \in R
    BY DEF Orders
  <2>2. rank(x) \in 0 .. (n - 1) /\ rank(y) \in 0 .. (n - 1)
    BY <1>1
  <2> QED BY <1>2, <2>1, <2>2, <1>0
<1>5. f \in [S -> 1 .. n]
  <2>1. \A x \in S : rank(x) + 1 \in 1 .. n
    BY <1>0, <1>1
  <2> QED BY <2>1
<1>6. f \in Injection(S, 1 .. n)
  <2>1. ASSUME NEW x \in S, NEW y \in S, f[x] = f[y] PROVE x = y
    <3>1. rank(x) + 1 = rank(y) + 1 /\ rank(x) \in 0 .. (n - 1) /\ rank(y) \in 0 .. (n - 1)
      BY <1>1, <2>1
    <3>2. rank(x) = rank(y)
      BY <3>1, <1>0
    <3> QED BY <3>2, <1>4
  <2>2. DOMAIN f = S
    OBVIOUS
  <2> HIDE DEF f
  <2>3. IsInjective(f)
    BY <2>1, <2>2 DEF IsInjective
  <2> QED BY <1>5, <2>3 DEF Injection
<1>7. IsFiniteSet(1 .. n) /\ Cardinality(1 .. n) = n
  BY <1>0, FS_Interval
<1>8. f \in Surjection(S, 1 .. n)
  BY <1>6, <1>7, FS_Injection DEF n
<1>9. \A i \in 1 .. n : \E x \in S : f[x] = i
  BY <1>8 DEF Surjection
<1>10. \A i \in 1 .. n : \E x \in S : rank(x) = i - 1
  <2> SUFFICES ASSUME NEW i \in 1 .. n PROVE \E x \in S : rank(x) = i - 1
    OBVIOUS
  <2>1. PICK x \in S : rank(x) + 1 = i
    BY <1>9
  <2>2. rank(x) \in 0 .. (n - 1)
    BY <1>1
  <2>3. rank(x) = i - 1
    BY <2>1, <2>2, <1>0
  <2> QED BY <2>3
<1>11. \A i \in 1 .. n : o[i] \in S /\ rank(o[i]) = i - 1
  <2> SUFFICES ASSUME NEW i \in 1 .. n PROVE o[i] \in S /\ rank(o[i]) = i - 1
    OBVIOUS
  <2>1. \E x \in S : rank(x) = i - 1
    BY <1>10
  <2>2. o[i] = CHOOSE x \in S : rank(x) = i - 1
    BY <1>3
  <2> QED BY <2>1, <2>2
<1>12. ASSUME NEW x \in S PROVE \E i \in 1 .. n : o[i] = x
  <2>1. rank(x) + 1 \in 1 .. n /\ (rank(x) + 1) - 1 = rank(x)
    BY <1>0, <1>1
  <2>2. o[rank(x) + 1] \in S /\ rank(o[rank(x) + 1]) = rank(x)
    BY <2>1, <1>11
  <2>3. o[rank(x) + 1] = x
    BY <2>2, <1>4
  <2> QED BY <2>1, <2>3
<1>13. ASSUME NEW i \in 1 .. n, NEW j \in 1 .. n, i < j PROVE <<o[i], o[j]>> \in R
  <2>1. o[i] \in S /\ o[j] \in S /\ rank(o[i]) = i - 1 /\ rank(o[j]) = j - 1
    BY <1>11
  <2>2. o[i] # o[j]
    BY <2>1, <1>13, <1>0
  <2>3. ~ (rank(o[j]) < rank(o[i]))
    BY <2>1, <1>13, <1>0
  <2> QED BY <2>1, <2>2, <2>3, <1>2 DEF Orders
<1>14. DOMAIN o = 1 .. n
  BY <1>3
<1> QED BY <1>0, <1>11, <1>12, <1>13, <1>14 DEF n, o

(* o lists the c members of the set of positions S in order. *)
Lists(o, c, S) ==
  /\ c \in Nat /\ o \in [1 .. c -> S]
  /\ \A i, j \in 1 .. c : i < j => o[i] < o[j]
  /\ \A x \in S : \E i \in 1 .. c : o[i] = x

(* r is what seq has at the positions in S, in order. *)
IsPicked(r, seq, S) == \E o, c : Lists(o, c, S) /\ r = [i \in 1 .. c |-> seq[o[i]]]

LEMMA PickedRight ==
  ASSUME NEW n \in Nat, NEW seq, DOMAIN seq = 1 .. n, NEW S \in SUBSET (1 .. n)
  PROVE  IsPicked(Picked(seq, S), seq, S)
<1> DEFINE R == {p \in S \X S : p[1] < p[2]}
           o == Ordered(S, R)
<1>1. IsFiniteSet(S)
  BY IndexSets
<1>2. Orders(R, S)
  <2>1. \A x \in S : <<x, x>> \notin R
    OBVIOUS
  <2>2. \A x, y \in S : x # y => <<x, y>> \in R \/ <<y, x>> \in R
    OBVIOUS
  <2>3. \A x, y, z \in S : <<x, y>> \in R /\ <<y, z>> \in R => <<x, z>> \in R
    OBVIOUS
  <2> HIDE DEF R
  <2> QED BY <1>1, <2>1, <2>2, <2>3 DEF Orders
<1>3. \A x, y : <<x, y>> \in R => x < y
  OBVIOUS
<1>4. Picked(seq, S) = [i \in DOMAIN o |-> seq[o[i]]]
  BY DEF Picked
<1> HIDE DEF R
<1>5. /\ Cardinality(S) \in Nat /\ DOMAIN o = 1 .. Cardinality(S)
      /\ \A i \in 1 .. Cardinality(S) : o[i] \in S
      /\ \A x \in S : \E i \in 1 .. Cardinality(S) : o[i] = x
      /\ \A i, j \in 1 .. Cardinality(S) : i < j => <<o[i], o[j]>> \in R
  BY <1>2, OrderedRight
<1>6. o = [i \in 1 .. Cardinality(S) |-> o[i]]
  BY <1>5 DEF Ordered
<1> HIDE DEF o
<1>7. o \in [1 .. Cardinality(S) -> S]
  BY <1>5, <1>6
<1>8. \A i, j \in 1 .. Cardinality(S) : i < j => o[i] < o[j]
  BY <1>3, <1>5
<1>9. Picked(seq, S) = [i \in 1 .. Cardinality(S) |-> seq[o[i]]]
  BY <1>4, <1>5
<1>10. Lists(o, Cardinality(S), S)
  BY <1>5, <1>7, <1>8 DEF Lists
<1> QED BY <1>9, <1>10 DEF IsPicked

-----------------------------------------------------------------------------
(* Sums over the variables. *)
Total(g) == SumFunctionOnSet(g, Vars)

LEMMA TotalType ==
  ASSUME NEW g \in [Vars -> Int]
  PROVE  Total(g) \in Int
<1>1. NumVars \in Nat /\ Vars = 1 .. NumVars /\ Vars \in SUBSET (1 .. NumVars)
  BY VarsAssumption DEF Vars
<1> QED BY <1>1, SumFacts DEF Total

LEMMA TotalCompare ==
  ASSUME NEW g \in [Vars -> Int], NEW h \in [Vars -> Int], \A v \in Vars : g[v] <= h[v]
  PROVE  Total(g) <= Total(h)
<1>1. NumVars \in Nat /\ Vars = 1 .. NumVars /\ Vars \in SUBSET (1 .. NumVars)
  BY VarsAssumption DEF Vars
<1>2. \A i \in 1 .. NumVars : Part(g, Vars, i) <= Part(h, Vars, i)
  BY <1>1 DEF Part
<1> QED BY <1>1, <1>2, SumCompare DEF Total

Adds(s, g, h) == \A v \in Vars : s[v] = g[v] + h[v]

LEMMA TotalPlus ==
  ASSUME NEW g \in [Vars -> Int], NEW h \in [Vars -> Int], NEW s \in [Vars -> Int],
         Adds(s, g, h)
  PROVE  IsSum(Total(s), Total(g), Total(h))
<1>1. NumVars \in Nat /\ Vars = 1 .. NumVars /\ Vars \in SUBSET (1 .. NumVars)
  BY VarsAssumption DEF Vars
<1>2. AddUp(NumVars, g, Vars, h, Vars, s, Vars)
  BY <1>1 DEF Part, AddUp, Adds
<1>3. g \in [1 .. NumVars -> Int] /\ h \in [1 .. NumVars -> Int] /\ s \in [1 .. NumVars -> Int]
  BY <1>1
<1>4. IsSum(SumFunctionOnSet(s, Vars), SumFunctionOnSet(g, Vars), SumFunctionOnSet(h, Vars))
  <2>1. NumVars \in Nat /\ Vars \in SUBSET (1 .. NumVars)
    BY <1>1
  <2> QED BY <2>1, <1>2, <1>3, SumPlus
<1> QED BY <1>4 DEF Total

Multiplies(s, a, g) == \A v \in Vars : s[v] = a * g[v]

LEMMA TotalTimes ==
  ASSUME NEW g \in [Vars -> Int], NEW s \in [Vars -> Int], NEW a \in Int, Multiplies(s, a, g)
  PROVE  IsTimes(Total(s), a, Total(g))
<1>1. NumVars \in Nat /\ Vars = 1 .. NumVars /\ Vars \in SUBSET (1 .. NumVars)
  BY VarsAssumption DEF Vars
<1>2. Multiply(NumVars, a, g, Vars, s, Vars)
  BY <1>1 DEF Part, Multiply, Multiplies
<1>3. g \in [1 .. NumVars -> Int] /\ s \in [1 .. NumVars -> Int]
  BY <1>1
<1>4. IsTimes(SumFunctionOnSet(s, Vars), a, SumFunctionOnSet(g, Vars))
  <2>1. NumVars \in Nat /\ Vars \in SUBSET (1 .. NumVars)
    BY <1>1
  <2> QED BY <2>1, <1>2, <1>3, SumTimes
<1> QED BY <1>4 DEF Total

(* A sum over some variables is a sum over all. *)
LEMMA TotalMasked ==
  ASSUME NEW g \in [Vars -> Int], NEW S \in SUBSET Vars, NEW s \in [Vars -> Int],
         \A v \in Vars : s[v] = IF v \in S THEN g[v] ELSE 0
  PROVE  SumFunctionOnSet(g, S) = Total(s)
<1>1. NumVars \in Nat /\ Vars = 1 .. NumVars /\ Vars \in SUBSET (1 .. NumVars)
  BY VarsAssumption DEF Vars
<1>2. \A i \in 1 .. NumVars : Part(g, S, i) = Part(s, Vars, i)
  BY <1>1 DEF Part
<1> QED BY <1>1, <1>2, SumSame DEF Total

(* One summand more or less. *)
LEMMA TotalUpdate ==
  ASSUME NEW g \in [Vars -> Int], NEW s \in [Vars -> Int], NEW x \in Vars,
         \A v \in Vars \ {x} : s[v] = g[v]
  PROVE  Total(s) = Total(g) + s[x] - g[x]
<1>1. NumVars \in Nat /\ Vars = 1 .. NumVars /\ Vars \in SUBSET (1 .. NumVars)
  BY VarsAssumption DEF Vars
<1>2. Vars \ {x} \in SUBSET (1 .. NumVars)
  BY <1>1
<1>3. \A i \in 1 .. NumVars : Part(s, Vars \ {x}, i) = Part(g, Vars \ {x}, i)
  BY DEF Part
<1>4. SumFunctionOnSet(s, Vars \ {x}) = SumFunctionOnSet(g, Vars \ {x})
  <2>1. NumVars \in Nat /\ g \in [1 .. NumVars -> Int] /\ s \in [1 .. NumVars -> Int]
    BY <1>1
  <2>2. PICK P : P = Vars \ {x}
    OBVIOUS
  <2>3. P \in SUBSET (1 .. NumVars) /\ \A i \in 1 .. NumVars : Part(s, P, i) = Part(g, P, i)
    BY <1>2, <1>3, <2>2
  <2>4. SumFunctionOnSet(s, P) = SumFunctionOnSet(g, P)
    BY <2>1, <2>3, SumSame
  <2> QED BY <2>2, <2>4
<1>5. SumFunctionOnSet(s, Vars) = SumFunctionOnSet(s, Vars \ {x}) + s[x]
  BY <1>1, SumFacts
<1>6. SumFunctionOnSet(g, Vars) = SumFunctionOnSet(g, Vars \ {x}) + g[x]
  BY <1>1, SumFacts
<1>7. SumFunctionOnSet(g, Vars \ {x}) \in Int /\ s[x] \in Int /\ g[x] \in Int
  BY <1>1, <1>2, SumFacts
<1> QED BY <1>4, <1>5, <1>6, <1>7 DEF Total

LEMMA TotalZero ==
  ASSUME NEW s \in [Vars -> Int], \A v \in Vars : s[v] = 0
  PROVE  Total(s) = 0
<1>1. NumVars \in Nat /\ Vars = 1 .. NumVars /\ Vars \in SUBSET (1 .. NumVars)
  BY VarsAssumption DEF Vars
<1>2. {} \in SUBSET (1 .. NumVars)
  OBVIOUS
<1>3. \A i \in 1 .. NumVars : Part(s, Vars, i) = Part(s, {}, i)
  BY <1>1 DEF Part
<1>4. SumFunctionOnSet(s, Vars) = SumFunctionOnSet(s, {})
  BY <1>1, <1>2, <1>3, SumSame
<1> QED BY <1>1, <1>4, SumFacts DEF Total

-----------------------------------------------------------------------------
(* Forms, and what the literals in S weigh in one. *)
Forms == [k : Int, w : [Vars -> Int]]

Gain(f, v, S) ==
  IF f.w[v] > 0 /\ v \in S THEN f.w[v] ELSE IF f.w[v] < 0 /\ -v \in S THEN -f.w[v] ELSE 0

Gains(f, S) == [v \in Vars |-> Gain(f, v, S)]

Weight(f, S) == Total(Gains(f, S))

Admits(f, S) == Weight(f, S) >= f.k

(* Variables and literals. *)
LEMMA VarFacts ==
  /\ Vars \subseteq Nat \ {0}
  /\ \A v \in Vars : v \in Lits /\ -v \in Lits /\ Magnitude(v) = v /\ Magnitude(-v) = v /\ v # -v /\ v > 0
                    /\ -(-v) = v
  /\ \A l \in Lits : /\ l \in Int /\ l # 0 /\ -l \in Lits /\ -(-l) = l /\ -l # l
                     /\ Magnitude(l) \in Vars /\ Magnitude(-l) = Magnitude(l)
                     /\ (l = Magnitude(l) \/ l = -Magnitude(l))
  /\ \A l \in Lits : \A v \in Vars : Magnitude(l) = v <=> l = v \/ l = -v
<1>1. NumVars \in Nat
  BY VarsAssumption
<1> QED BY <1>1 DEF Vars, Lits, Magnitude

LEMMA FormFacts ==
  ASSUME NEW f \in Forms
  PROVE  /\ f.k \in Int /\ f.w \in [Vars -> Int] /\ \A v \in Vars : f.w[v] \in Int
         /\ Weights(f) \in [Vars -> Int]
         /\ \A v \in Vars : Weights(f)[v] \in Nat /\ (Weights(f)[v] = 0 <=> v \notin Used(f))
         /\ \A v \in Vars : /\ Weights(f)[v] = Magnitude(f.w[v])
                            /\ LitOf(f, v) \in {v, -v} /\ LitOf(f, v) \in Lits
         /\ Used(f) \subseteq Vars
         /\ \A S : Gains(f, S) \in [Vars -> Int]
         /\ \A S : \A v \in Vars : Gains(f, S)[v] \in Nat /\ Gains(f, S)[v] <= Weights(f)[v]
         /\ \A S : \A v \in Vars : Gains(f, S)[v] = IF v \in Used(f) /\ LitOf(f, v) \in S THEN Weights(f)[v] ELSE 0
         /\ \A S : Weight(f, S) \in Nat
<1>1. f.k \in Int /\ f.w \in [Vars -> Int] /\ \A v \in Vars : f.w[v] \in Int
  BY DEF Forms
<1>2. \A v \in Vars : /\ Weights(f)[v] = Magnitude(f.w[v]) /\ Weights(f)[v] \in Nat
                      /\ (Weights(f)[v] = 0 <=> v \notin Used(f))
  BY <1>1 DEF Weights, Magnitude, Used
<1>3. Weights(f) \in [Vars -> Int]
  <2>1. \A v \in Vars : Magnitude(f.w[v]) \in Int
    BY <1>1 DEF Magnitude
  <2> QED BY <2>1 DEF Weights
<1>4. \A v \in Vars : LitOf(f, v) \in {v, -v} /\ LitOf(f, v) \in Lits
  BY VarFacts DEF LitOf
<1>5. \A S : \A v \in Vars : Gains(f, S)[v] = Gain(f, v, S)
  BY DEF Gains
<1>6. ASSUME NEW S, NEW v \in Vars
      PROVE  /\ Gain(f, v, S) \in Nat /\ Gain(f, v, S) <= Weights(f)[v]
             /\ Gain(f, v, S) = IF v \in Used(f) /\ LitOf(f, v) \in S THEN Weights(f)[v] ELSE 0
  <2>1. f.w[v] \in Int /\ Weights(f)[v] = IF f.w[v] < 0 THEN -f.w[v] ELSE f.w[v]
    BY <1>1, <1>2 DEF Magnitude
  <2>2. v \in Used(f) <=> f.w[v] # 0
    BY DEF Used
  <2>3. CASE f.w[v] > 0
    BY <2>1, <2>2, <2>3 DEF Gain, LitOf
  <2>4. CASE f.w[v] < 0
    BY <2>1, <2>2, <2>4 DEF Gain, LitOf
  <2>5. CASE f.w[v] = 0
    BY <2>1, <2>2, <2>5 DEF Gain, LitOf
  <2> QED BY <2>1, <2>3, <2>4, <2>5
<1>7. \A S : Gains(f, S) \in [Vars -> Int]
  <2>1. \A S : \A v \in Vars : Gain(f, v, S) \in Int
    BY <1>6
  <2> QED BY <2>1 DEF Gains
<1>8. ASSUME NEW S PROVE Weight(f, S) \in Nat
  <2> DEFINE z == [v \in Vars |-> 0]
  <2>1. z \in [Vars -> Int] /\ Total(z) = 0
    <3>1. z \in [Vars -> Int] /\ \A v \in Vars : z[v] = 0
      OBVIOUS
    <3> HIDE DEF z
    <3> QED BY <3>1, TotalZero
  <2>2. \A v \in Vars : z[v] <= Gains(f, S)[v]
    BY <1>5, <1>6
  <2> HIDE DEF z
  <2>3. Total(z) <= Total(Gains(f, S)) /\ Total(Gains(f, S)) \in Int
    BY <1>7, <2>1, <2>2, TotalCompare, TotalType
  <2> QED BY <2>1, <2>3 DEF Weight
<1> QED BY <1>1, <1>2, <1>3, <1>4, <1>5, <1>6, <1>7, <1>8 DEF Used

(* The slack of a form, as a weight. *)
LEMMA SlackIsWeight ==
  ASSUME NEW f \in Forms, NEW true
  PROVE  SlackUnder(f, true) = Weight(f, {l \in Lits : -l \notin true}) - f.k
<1> DEFINE S == {l \in Lits : -l \notin true}
           U == {v \in Used(f) : -LitOf(f, v) \notin true}
<1>1. U \in SUBSET Vars
  BY DEF Used
<1>2. \A v \in Vars : Gains(f, S)[v] = IF v \in U THEN Weights(f)[v] ELSE 0
  BY FormFacts
<1>3. Weights(f) \in [Vars -> Int] /\ Gains(f, S) \in [Vars -> Int]
  BY FormFacts
<1>4. SumFunctionOnSet(Weights(f), U) = Total(Gains(f, S))
  BY <1>1, <1>2, <1>3, TotalMasked
<1> QED BY <1>4 DEF SlackUnder, Weight

(* More literals weigh no less. *)
LEMMA WeightMono ==
  ASSUME NEW f \in Forms, NEW S, NEW T, \A v \in Used(f) : LitOf(f, v) \in S => LitOf(f, v) \in T
  PROVE  Weight(f, S) <= Weight(f, T)
<1>1. Gains(f, S) \in [Vars -> Int] /\ Gains(f, T) \in [Vars -> Int]
  BY FormFacts
<1>2. \A v \in Vars : Gains(f, S)[v] <= Gains(f, T)[v]
  BY FormFacts
<1> QED BY <1>1, <1>2, TotalCompare DEF Weight

LEMMA WeightSame ==
  ASSUME NEW f \in Forms, NEW S, NEW T, \A v \in Used(f) : LitOf(f, v) \in S <=> LitOf(f, v) \in T
  PROVE  Weight(f, S) = Weight(f, T)
<1>1. Weight(f, S) <= Weight(f, T) /\ Weight(f, T) <= Weight(f, S)
  BY WeightMono
<1>2. Weight(f, S) \in Nat /\ Weight(f, T) \in Nat
  BY FormFacts
<1> QED BY <1>1, <1>2

(* Without a literal that occurs, its coefficient less. *)
LEMMA WeightWithout ==
  ASSUME NEW f \in Forms, NEW S, NEW x \in Used(f), LitOf(f, x) \in S
  PROVE  Weight(f, S \ {LitOf(f, x)}) = Weight(f, S) - Weights(f)[x]
<1> DEFINE T == S \ {LitOf(f, x)}
<1>1. Gains(f, S) \in [Vars -> Int] /\ Gains(f, T) \in [Vars -> Int] /\ x \in Vars
  BY FormFacts
<1>2. \A v \in Vars \ {x} : LitOf(f, v) # LitOf(f, x)
  BY <1>1, VarFacts DEF LitOf
<1>3. \A v \in Vars \ {x} : Gains(f, T)[v] = Gains(f, S)[v]
  BY <1>2, FormFacts
<1>4. Gains(f, T)[x] = 0 /\ Gains(f, S)[x] = Weights(f)[x]
  BY <1>1, FormFacts
<1>5. Total(Gains(f, T)) = Total(Gains(f, S)) + Gains(f, T)[x] - Gains(f, S)[x]
  BY <1>1, <1>3, TotalUpdate
<1>6. Total(Gains(f, S)) \in Int /\ Weights(f)[x] \in Int
  BY <1>1, TotalType, FormFacts
<1> QED BY <1>4, <1>5, <1>6 DEF Weight

-----------------------------------------------------------------------------
(* The form of a constraint: it has the constraint's literals and coefficients,
   and any literals weigh the same in both. *)
LEMMA FormOfConstraint ==
  ASSUME NEW c \in Constraint
  PROVE  /\ Form(c) \in Forms /\ Form(c).k = c.k
         /\ \A i \in 1 .. Len(c.lhs) :
              LET x == Magnitude(c.lhs[i].lit) IN
                /\ x \in Used(Form(c)) /\ LitOf(Form(c), x) = c.lhs[i].lit
                /\ Weights(Form(c))[x] = c.lhs[i].coef
         /\ Used(Form(c)) = {Magnitude(c.lhs[i].lit) : i \in 1 .. Len(c.lhs)}
         /\ FormLits(Form(c)) = LitsOf(c)
<1> DEFINE n == Len(c.lhs)
           f == Form(c)
           lit(i) == c.lhs[i].lit
<1>1. /\ c.k \in Nat \ {0} /\ n \in Nat \ {0} /\ DOMAIN c.lhs = 1 .. n
      /\ \A i \in 1 .. n : c.lhs[i].coef \in Nat \ {0} /\ c.lhs[i].lit \in Lits
      /\ \A l \in LitsOf(c) : Coef(c, l) \in Nat \ {0}
  BY ConstraintFacts
<1>2. \A i, j \in 1 .. n : i # j => lit(i) # lit(j) /\ lit(i) # -lit(j)
  BY <1>1 DEF Constraint
<1>3. LitsOf(c) = {lit(i) : i \in 1 .. n}
  BY <1>1 DEF LitsOf
<1>4. f = [k |-> c.k, w |-> [v \in Vars |-> IF v \in LitsOf(c) THEN Coef(c, v)
                                           ELSE IF -v \in LitsOf(c) THEN -Coef(c, -v) ELSE 0]]
  BY DEF Form
<1>5. f.k = c.k /\ \A v \in Vars : f.w[v] = IF v \in LitsOf(c) THEN Coef(c, v)
                                           ELSE IF -v \in LitsOf(c) THEN -Coef(c, -v) ELSE 0
  BY <1>4
<1>6. f \in Forms
  <2>1. \A v \in Vars : (IF v \in LitsOf(c) THEN Coef(c, v)
                                           ELSE IF -v \in LitsOf(c) THEN -Coef(c, -v) ELSE 0) \in Int
    BY <1>1
  <2>2. f.w \in [Vars -> Int]
    BY <1>4, <2>1
  <2> QED BY <1>1, <1>4, <2>2 DEF Forms
<1> HIDE DEF f
<1>7. ASSUME NEW i \in 1 .. n
      PROVE  /\ Magnitude(lit(i)) \in Vars /\ Magnitude(lit(i)) \in Used(f)
             /\ LitOf(f, Magnitude(lit(i))) = lit(i)
             /\ Weights(f)[Magnitude(lit(i))] = c.lhs[i].coef
  <2> DEFINE x == Magnitude(lit(i))
  <2>1. /\ lit(i) \in Lits /\ x \in Vars /\ (lit(i) = x \/ lit(i) = -x) /\ x # -x /\ -(-x) = x /\ x > 0
    BY <1>1, VarFacts
  <2>2. lit(i) \in LitsOf(c) /\ Coef(c, lit(i)) = c.lhs[i].coef /\ c.lhs[i].coef \in Nat \ {0}
    BY <1>1, CoefOfTerm
  <2>3. -lit(i) \notin LitsOf(c)
    <3>1. -lit(i) # lit(i) /\ -(-lit(i)) = lit(i)
      BY <2>1, VarFacts
    <3>2. \A j \in 1 .. n : lit(j) \in Lits /\ -(-lit(j)) = lit(j)
      BY <1>1, VarFacts
    <3> QED BY <3>1, <3>2, <1>2, <1>3
  <2>4. Weights(f)[x] = Magnitude(f.w[x]) /\ (x \in Used(f) <=> f.w[x] # 0)
    BY <2>1 DEF Weights, Used
  <2> HIDE DEF x, lit
  <2>5. CASE lit(i) = x
    <3>1. f.w[x] = c.lhs[i].coef
      BY <1>5, <2>1, <2>2, <2>5
    <3> QED BY <2>1, <2>2, <2>4, <2>5, <3>1 DEF LitOf, Magnitude, x
  <2>6. CASE lit(i) = -x
    <3>1. x \notin LitsOf(c)
      BY <2>1, <2>3, <2>6
    <3>2. f.w[x] = -c.lhs[i].coef
      BY <1>5, <2>1, <2>2, <2>6, <3>1
    <3> QED BY <2>1, <2>2, <2>4, <2>6, <3>2 DEF LitOf, Magnitude, x
  <2> QED BY <2>1, <2>5, <2>6
<1>8. \A v \in Used(f) : v \in Vars /\ \E i \in 1 .. n : v = Magnitude(lit(i))
  <2> SUFFICES ASSUME NEW v \in Used(f) PROVE v \in Vars /\ \E i \in 1 .. n : v = Magnitude(lit(i))
    OBVIOUS
  <2>1. v \in Vars /\ f.w[v] # 0
    BY DEF Used
  <2>2. v \in LitsOf(c) \/ -v \in LitsOf(c)
    BY <1>5, <2>1
  <2>3. \E i \in 1 .. n : lit(i) = v \/ lit(i) = -v
    BY <1>3, <2>2
  <2> QED BY <2>1, <2>3, VarFacts
<1>9. Used(f) = {Magnitude(lit(i)) : i \in 1 .. n}
  BY <1>7, <1>8
<1>10. FormLits(f) = LitsOf(c)
  <2>1. FormLits(f) = {LitOf(f, v) : v \in Used(f)}
    BY DEF FormLits
  <2> HIDE DEF lit
  <2> QED BY <2>1, <1>3, <1>7, <1>9
<1> QED BY <1>5, <1>6, <1>7, <1>9, <1>10 DEF f

LEMMA WeighIsWeight ==
  ASSUME NEW c \in Constraint, NEW S
  PROVE  Weigh(c, S) = Weight(Form(c), S)
<1> DEFINE n == Len(c.lhs)
           f == Form(c)
           x(i) == Magnitude(c.lhs[i].lit)
           P(i) == {x(j) : j \in 1 .. i}
           g == Gains(f, S)
<1>1. /\ n \in Nat \ {0} /\ c.lhs \in Seq(Term)
      /\ \A i \in 1 .. n : c.lhs[i].coef \in Nat \ {0} /\ c.lhs[i].lit \in Lits
  BY ConstraintFacts
<1>2. PICK h : WeighGoes(h, c.lhs, S) /\ Weigh(c, S) = h[n]
  BY <1>1, WeighSteps
<1>3. /\ h[0] = 0 /\ \A i \in 0 .. n : h[i] \in Nat
      /\ \A i \in 1 .. n : h[i] = IF c.lhs[i].lit \in S THEN h[i - 1] + c.lhs[i].coef ELSE h[i - 1]
  BY <1>1, <1>2 DEF WeighGoes
<1>4. /\ f \in Forms /\ Used(f) = {x(i) : i \in 1 .. n}
      /\ \A i \in 1 .. n : x(i) \in Used(f) /\ LitOf(f, x(i)) = c.lhs[i].lit /\ Weights(f)[x(i)] = c.lhs[i].coef
  BY FormOfConstraint
<1>5. NumVars \in Nat /\ Vars = 1 .. NumVars
  BY VarsAssumption DEF Vars
<1> HIDE DEF f
<1>6. g \in [Vars -> Int] /\ \A v \in Vars : g[v] = IF v \in Used(f) /\ LitOf(f, v) \in S THEN Weights(f)[v] ELSE 0
  BY <1>4, FormFacts
<1>7. \A i \in 1 .. n : x(i) \in Vars /\ g[x(i)] = IF c.lhs[i].lit \in S THEN c.lhs[i].coef ELSE 0
  <2>1. Used(f) \subseteq Vars
    BY <1>4, FormFacts
  <2> HIDE DEF g, x
  <2> QED BY <1>4, <1>6, <2>1
<1>8. \A i, j \in 1 .. n : i # j => x(i) # x(j)
  <2>1. \A i, j \in 1 .. n : i # j => c.lhs[i].lit # c.lhs[j].lit
    BY ConstraintFacts DEF Constraint
  <2>2. \A i \in 1 .. n : LitOf(f, x(i)) = c.lhs[i].lit
    BY <1>4
  <2> HIDE DEF x
  <2> QED BY <2>1, <2>2
<1>9. \A i \in 0 .. n : P(i) \in SUBSET (1 .. NumVars)
  BY <1>1, <1>5, <1>7
<1> HIDE DEF g, x
<1> DEFINE T == {i \in 0 .. n : h[i] = SumFunctionOnSet(g, P(i))}
<1>10. 0 \in T
  <2>1. P(0) = {} /\ 0 \in 0 .. n
    BY <1>1
  <2>2. SumFunctionOnSet(g, {}) = 0
    BY <1>5, <1>6, SumFacts
  <2> QED BY <1>3, <2>1, <2>2
<1>11. ASSUME NEW i \in 1 .. n, i - 1 \in T PROVE i \in T
  <2>0. i \in 0 .. n /\ i - 1 \in 0 .. n /\ i \in 1 .. i
    BY <1>1
  <2>1. h[i - 1] = SumFunctionOnSet(g, P(i - 1)) /\ h[i - 1] \in Nat
    BY <1>3, <1>11, <2>0
  <2>2. x(i) \in P(i) /\ P(i) \ {x(i)} = P(i - 1)
    <3>1. \A j \in 1 .. (i - 1) : x(j) # x(i) /\ j \in 1 .. i
      BY <1>1, <1>8
    <3>2. \A j \in 1 .. i : j = i \/ j \in 1 .. (i - 1)
      BY <1>1
    <3> QED BY <2>0, <3>1, <3>2
  <2>3. PICK Q, R : Q = P(i) /\ R = P(i - 1)
    OBVIOUS
  <2>4. Q \in SUBSET (1 .. NumVars) /\ x(i) \in Q /\ Q \ {x(i)} = R
    BY <1>9, <2>0, <2>2, <2>3
  <2>5. SumFunctionOnSet(g, Q) = SumFunctionOnSet(g, R) + g[x(i)]
    <3>1. g \in [1 .. NumVars -> Int] /\ NumVars \in Nat
      BY <1>5, <1>6
    <3>2. SumFunctionOnSet(g, Q) = SumFunctionOnSet(g, Q \ {x(i)}) + g[x(i)]
      BY <3>1, <2>4, SumFacts
    <3> QED BY <3>2, <2>4
  <2>6. h[i] = h[i - 1] + g[x(i)]
    BY <1>1, <1>3, <1>7, <2>1
  <2> QED BY <2>0, <2>1, <2>3, <2>5, <2>6
<1>12. n \in T
  <2> HIDE DEF T
  <2>1. Inductive(n, T)
    BY <1>1, <1>10, <1>11 DEF Inductive
  <2> QED BY <2>1, InductionUpTo
<1>13. P(n) = Used(f)
  BY <1>4
<1>14. SumFunctionOnSet(g, Used(f)) = Total(g)
  <2>1. Used(f) \in SUBSET Vars
    BY <1>4, FormFacts
  <2>2. \A v \in Vars : g[v] = IF v \in Used(f) THEN g[v] ELSE 0
    BY <1>6
  <2> QED BY <1>6, <2>1, <2>2, TotalMasked
<1> QED BY <1>2, <1>12, <1>13, <1>14 DEF Weight, f, g

-----------------------------------------------------------------------------
(* The terms of a form, the heaviest first. *)
LEMMA TermsRight ==
  ASSUME NEW f \in Forms
  PROVE  /\ Terms(f) \in Seq(Term)
         /\ Used(f) # {} => Terms(f) # <<>>
         /\ \A i \in 1 .. Len(Terms(f)) :
              LET x == Magnitude(Terms(f)[i].lit) IN
                /\ x \in Used(f) /\ LitOf(f, x) = Terms(f)[i].lit
                /\ Weights(f)[x] = Terms(f)[i].coef
         /\ Used(f) = {Magnitude(Terms(f)[i].lit) : i \in 1 .. Len(Terms(f))}
         /\ \A i, j \in DOMAIN Terms(f) :
              i # j => Terms(f)[i].lit # Terms(f)[j].lit /\ Terms(f)[i].lit # -Terms(f)[j].lit
         /\ \A i, j \in DOMAIN Terms(f) : i <= j => Terms(f)[i].coef >= Terms(f)[j].coef
<1> DEFINE heavier(u, v) == \/ Weights(f)[u] > Weights(f)[v]
                            \/ Weights(f)[u] = Weights(f)[v] /\ u < v
           S == Used(f)
           R == {p \in S \X S : heavier(p[1], p[2])}
           o == Ordered(S, R)
           n == Cardinality(S)
           t == Terms(f)
<1>1. S \subseteq Vars /\ IsFiniteSet(S) /\ \A v \in S : v \in Nat /\ Weights(f)[v] \in Nat \ {0}
  <2>1. S \subseteq Vars /\ \A v \in S : Weights(f)[v] \in Nat \ {0}
    BY FormFacts
  <2>2. NumVars \in Nat /\ Vars = 1 .. NumVars
    BY VarsAssumption DEF Vars
  <2>3. IsFiniteSet(S)
    BY <2>1, <2>2, IndexSets
  <2> QED BY <2>1, <2>2, <2>3
<1>2. Orders(R, S)
  <2> HIDE DEF S
  <2>1. \A x \in S : <<x, x>> \notin R
    BY <1>1
  <2>2. \A x, y \in S : x # y => <<x, y>> \in R \/ <<y, x>> \in R
    BY <1>1
  <2>3. \A x, y, z \in S : <<x, y>> \in R /\ <<y, z>> \in R => <<x, z>> \in R
    BY <1>1
  <2> HIDE DEF R
  <2> QED BY <1>1, <2>1, <2>2, <2>3 DEF Orders
<1>3. \A x, y : <<x, y>> \in R => x # y /\ Weights(f)[x] >= Weights(f)[y]
  <2> HIDE DEF S
  <2> QED BY <1>1
<1>4. t = [i \in DOMAIN o |-> [coef |-> Magnitude(f.w[o[i]]), lit |-> LitOf(f, o[i])]]
  BY DEF Terms
<1> HIDE DEF R, t
<1>5. /\ n \in Nat /\ DOMAIN o = 1 .. n
      /\ \A i \in 1 .. n : o[i] \in S
      /\ \A x \in S : \E i \in 1 .. n : o[i] = x
      /\ \A i, j \in 1 .. n : i < j => <<o[i], o[j]>> \in R
  BY <1>2, OrderedRight
<1> HIDE DEF o, n
<1>6. /\ \A i \in 1 .. n : o[i] \in Vars /\ o[i] \in Used(f)
      /\ \A x \in Used(f) : \E i \in 1 .. n : o[i] = x
      /\ \A i, j \in 1 .. n : i < j => o[i] # o[j] /\ Weights(f)[o[i]] >= Weights(f)[o[j]]
  BY <1>1, <1>3, <1>5
<1>7. \A i, j \in 1 .. n : i # j => o[i] # o[j]
  <2>1. \A i, j \in 1 .. n : i # j => i < j \/ j < i
    BY <1>5
  <2> QED BY <2>1, <1>6
<1>8. \A i \in 1 .. n : /\ t[i].coef = Weights(f)[o[i]] /\ t[i].lit = LitOf(f, o[i]) /\ t[i] \in Term
                        /\ Magnitude(t[i].lit) = o[i] /\ t[i].lit \in {o[i], -o[i]}
  <2> SUFFICES ASSUME NEW i \in 1 .. n
               PROVE  /\ t[i].coef = Weights(f)[o[i]] /\ t[i].lit = LitOf(f, o[i]) /\ t[i] \in Term
                      /\ Magnitude(t[i].lit) = o[i] /\ t[i].lit \in {o[i], -o[i]}
    OBVIOUS
  <2>1. t[i] = [coef |-> Magnitude(f.w[o[i]]), lit |-> LitOf(f, o[i])]
    BY <1>4, <1>5
  <2>2. /\ Weights(f)[o[i]] = Magnitude(f.w[o[i]]) /\ Weights(f)[o[i]] \in Nat \ {0}
        /\ LitOf(f, o[i]) \in {o[i], -o[i]} /\ LitOf(f, o[i]) \in Lits
    BY <1>1, <1>6, FormFacts
  <2>3. Magnitude(o[i]) = o[i] /\ Magnitude(-o[i]) = o[i]
    BY <1>6, VarFacts
  <2> QED BY <2>1, <2>2, <2>3 DEF Term
<1>9. DOMAIN t = 1 .. n /\ t \in Seq(Term) /\ Len(t) = n
  <2>1. DOMAIN t = 1 .. n
    BY <1>4, <1>5
  <2>2. t = [i \in 1 .. n |-> t[i]]
    BY <1>4, <1>5
  <2> QED BY <2>1, <2>2, <1>5, <1>8
<1>10. Used(f) # {} => t # <<>>
  BY <1>5, <1>9, <1>6
<1>11. \A i \in 1 .. n : /\ Magnitude(t[i].lit) \in Used(f) /\ LitOf(f, Magnitude(t[i].lit)) = t[i].lit
                         /\ Weights(f)[Magnitude(t[i].lit)] = t[i].coef
  BY <1>6, <1>8
<1>12. Used(f) = {Magnitude(t[i].lit) : i \in 1 .. n}
  BY <1>6, <1>8
<1>13. \A i, j \in 1 .. n : i # j => t[i].lit # t[j].lit /\ t[i].lit # -t[j].lit
  <2> SUFFICES ASSUME NEW i \in 1 .. n, NEW j \in 1 .. n, i # j
               PROVE  t[i].lit # t[j].lit /\ t[i].lit # -t[j].lit
    OBVIOUS
  <2>1. o[i] # o[j] /\ Magnitude(t[i].lit) = o[i] /\ Magnitude(t[j].lit) = o[j]
    BY <1>7, <1>8
  <2>2. Magnitude(-t[j].lit) = o[j]
    <3>1. t[j].lit \in Lits
      BY <1>8 DEF Term
    <3> QED BY <2>1, <3>1, VarFacts
  <2> QED BY <2>1, <2>2
<1>14. \A i, j \in 1 .. n : i <= j => t[i].coef >= t[j].coef
  <2> SUFFICES ASSUME NEW i \in 1 .. n, NEW j \in 1 .. n, i <= j PROVE t[i].coef >= t[j].coef
    OBVIOUS
  <2>1. t[i].coef \in Nat /\ t[i].coef = Weights(f)[o[i]] /\ t[j].coef = Weights(f)[o[j]]
    BY <1>8 DEF Term
  <2>2. CASE i = j
    BY <2>1, <2>2
  <2>3. CASE i < j
    BY <2>1, <2>3, <1>6
  <2> QED BY <2>2, <2>3, <1>5
<1> QED BY <1>9, <1>10, <1>11, <1>12, <1>13, <1>14 DEF t

(* Every term stands for a literal of the form, with its coefficient. *)
Spells(lhs, f) ==
  /\ \A i \in 1 .. Len(lhs) :
       LET x == Magnitude(lhs[i].lit) IN
         x \in Used(f) /\ LitOf(f, x) = lhs[i].lit /\ Weights(f)[x] = lhs[i].coef
  /\ Used(f) = {Magnitude(lhs[i].lit) : i \in 1 .. Len(lhs)}

LEMMA SpellsWeigh ==
  ASSUME NEW c \in Constraint, NEW f \in Forms, Spells(c.lhs, f)
  PROVE  /\ \A S : Weigh(c, S) = Weight(f, S)
         /\ LitsOf(c) = FormLits(f)
<1> DEFINE g == Form(c)
           n == Len(c.lhs)
<1>1. g \in Forms /\ FormLits(g) = LitsOf(c) /\ Spells(c.lhs, g)
  BY FormOfConstraint DEF Spells
<1>2. \A S : Weigh(c, S) = Weight(g, S)
  BY WeighIsWeight
<1> HIDE DEF g
<1>3. Used(g) = Used(f)
  BY <1>1 DEF Spells
<1>4. \A v \in Used(f) : LitOf(f, v) = LitOf(g, v) /\ Weights(f)[v] = Weights(g)[v]
  <2> SUFFICES ASSUME NEW i \in 1 .. n
               PROVE  LET v == Magnitude(c.lhs[i].lit) IN LitOf(f, v) = LitOf(g, v) /\ Weights(f)[v] = Weights(g)[v]
    BY <1>1 DEF Spells
  <2> QED BY <1>1 DEF Spells
<1>5. ASSUME NEW S PROVE Weight(g, S) = Weight(f, S)
  <2>1. \A v \in Vars : Gains(f, S)[v] = IF v \in Used(f) /\ LitOf(f, v) \in S THEN Weights(f)[v] ELSE 0
    BY FormFacts
  <2>2. \A v \in Vars : Gains(g, S)[v] = IF v \in Used(g) /\ LitOf(g, v) \in S THEN Weights(g)[v] ELSE 0
    BY <1>1, FormFacts
  <2>3. \A v \in Vars : Gains(f, S)[v] = Gains(g, S)[v]
    BY <1>3, <1>4, <2>1, <2>2
  <2>4. Gains(f, S) = Gains(g, S)
    BY <2>3 DEF Gains
  <2> QED BY <2>4 DEF Weight
<1>6. FormLits(f) = FormLits(g)
  BY <1>3, <1>4 DEF FormLits
<1> QED BY <1>1, <1>2, <1>5, <1>6

(* A constraint made of a form. *)
LEMMA ConstraintOfForm ==
  ASSUME NEW f \in Forms, f.k \in Nat \ {0}, Used(f) # {},
         NEW init \in BOOLEAN, NEW lbd \in Nat,
         NEW c, c = [k |-> f.k, lhs |-> Terms(f), init |-> init, lbd |-> lbd]
  PROVE  /\ c \in Constraint /\ c.k = f.k /\ c.lhs = Terms(f)
         /\ \A S : Weigh(c, S) = Weight(f, S)
         /\ LitsOf(c) = FormLits(f)
<1>1. c.k = f.k /\ c.lhs = Terms(f)
  OBVIOUS
<1>2. c \in Marked
  BY TermsRight DEF Marked
<1>3. c \in Constraint
  <2> PICK t : t = Terms(f)
    OBVIOUS
  <2>1. /\ t # <<>>
        /\ \A i, j \in DOMAIN t : i # j => t[i].lit # t[j].lit /\ t[i].lit # -t[j].lit
        /\ \A i, j \in DOMAIN t : i <= j => t[i].coef >= t[j].coef
    BY TermsRight
  <2>2. c.lhs = t
    BY <1>1
  <2> QED BY <1>2, <2>1, <2>2 DEF Constraint
<1>4. Spells(c.lhs, f)
  BY <1>1, TermsRight DEF Spells
<1> QED BY <1>1, <1>3, <1>4, SpellsWeigh

-----------------------------------------------------------------------------
(* Merging: the terms of the input, where coefficients have signs and variables
   recur. *)
(* A term of the input contributes to a literal. *)
Meets(t, sign, lit) == t.var = Magnitude(lit) /\ sign * t.coef * lit > 0

GatherGoes(h, terms, sign, lit) ==
  /\ h \in [0 .. Len(terms) -> Nat]
  /\ h[0] = 0
  /\ \A i \in 1 .. Len(terms) :
       h[i] = IF Meets(terms[i], sign, lit) THEN h[i - 1] + Magnitude(terms[i].coef) ELSE h[i - 1]

LEMMA GatherSteps ==
  ASSUME NEW terms \in Seq(InputTerm), NEW sign, NEW lit
  PROVE  \E h : GatherGoes(h, terms, sign, lit) /\ Gathered(terms, sign, lit) = h[Len(terms)]
<1> DEFINE n == Len(terms)
           next(m, i) == IF terms[i].var = Magnitude(lit) /\ sign * terms[i].coef * lit > 0
                           THEN m + Magnitude(terms[i].coef) ELSE m
           g == [p \in Nat \X (1 .. n) |-> next(p[1], p[2])]
           E(f) == f = [t \in SUBSET (1 .. n) |->
                          IF t = {} THEN 0 ELSE next(f[t \ {Max(t)}], Max(t))]
           F == CHOOSE f : E(f)
<1>1. n \in Nat /\ 0 \in Nat /\ DOMAIN terms = 1 .. n /\ \A i \in 1 .. n : terms[i] \in InputTerm
  OBVIOUS
<1>2. g \in [Nat \X (1 .. n) -> Nat]
  <2>1. \A i \in 1 .. n : Magnitude(terms[i].coef) \in Nat
    BY <1>1 DEF InputTerm, Magnitude
  <2>2. \A m \in Nat, i \in 1 .. n : next(m, i) \in Nat
    BY <2>1
  <2> HIDE DEF next
  <2> QED BY <2>2
<1>3. \A t \in SUBSET (1 .. n), m \in Nat : t # {} => g[<<m, Max(t)>>] = next(m, Max(t))
  <2>1. \A t \in SUBSET (1 .. n) : t # {} => Max(t) \in 1 .. n
    BY <1>1, MaxInSet
  <2> HIDE DEF next
  <2> QED BY <2>1
<1>4. Gathered(terms, sign, lit) = F[1 .. n]
  BY <1>1, Zenon DEF Gathered, FoldLeft, MapThenFoldSet
<1> HIDE DEF next, g
<1>5. \E f : E(f)
  <2>1. PICK f \in [SUBSET (1 .. n) -> Nat] : Solves(f, n, 0, g)
    BY <1>1, <1>2, FoldExists
  <2>2. E(f)
    BY <2>1, <1>3 DEF Solves
  <2> QED BY <2>2
<1>6. E(F)
  BY <1>5, Zenon
<1> HIDE DEF F
<1>7. Follows(F, n, Nat, 0, g)
  BY <1>1, <1>2, <1>6, <1>3 DEF Follows
<1>8. PICK h : Steps(h, F, n, Nat, 0, g)
  BY <1>7, FoldSteps
<1>9. h \in [0 .. n -> Nat] /\ \A i \in 1 .. n : h[i - 1] \in Nat
  BY <1>8 DEF Steps
<1>10. GatherGoes(h, terms, sign, lit)
  <2>1. \A i \in 1 .. n : h[i] = next(h[i - 1], i)
    BY <1>8, <1>9 DEF g, Steps
  <2> QED BY <1>8, <1>9, <2>1 DEF next, GatherGoes, Steps, Meets
<1>11. F[1 .. n] = h[n]
  BY <1>8 DEF Steps
<1> QED BY <1>4, <1>10, <1>11

ValueGoes(h, terms, m) ==
  /\ h \in [0 .. Len(terms) -> Int]
  /\ h[0] = 0
  /\ \A i \in 1 .. Len(terms) :
       h[i] = IF terms[i].var \in m THEN h[i - 1] + terms[i].coef ELSE h[i - 1]

LEMMA ValueSteps ==
  ASSUME NEW terms \in Seq(InputTerm), NEW m
  PROVE  \E h : ValueGoes(h, terms, m) /\ Value(terms, m) = h[Len(terms)]
<1> DEFINE n == Len(terms)
           next(a, i) == IF terms[i].var \in m THEN a + terms[i].coef ELSE a
           g == [p \in Int \X (1 .. n) |-> next(p[1], p[2])]
           E(f) == f = [t \in SUBSET (1 .. n) |->
                          IF t = {} THEN 0 ELSE next(f[t \ {Max(t)}], Max(t))]
           F == CHOOSE f : E(f)
<1>1. n \in Nat /\ 0 \in Int /\ DOMAIN terms = 1 .. n /\ \A i \in 1 .. n : terms[i] \in InputTerm
  OBVIOUS
<1>2. g \in [Int \X (1 .. n) -> Int]
  BY <1>1 DEF InputTerm
<1>3. \A t \in SUBSET (1 .. n), a \in Int : t # {} => g[<<a, Max(t)>>] = next(a, Max(t))
  <2>1. \A t \in SUBSET (1 .. n) : t # {} => Max(t) \in 1 .. n
    BY <1>1, MaxInSet
  <2> HIDE DEF next
  <2> QED BY <2>1
<1>4. Value(terms, m) = F[1 .. n]
  BY <1>1, Zenon DEF Value, FoldLeft, MapThenFoldSet
<1> HIDE DEF next, g
<1>5. \E f : E(f)
  <2>1. PICK f \in [SUBSET (1 .. n) -> Int] : Solves(f, n, 0, g)
    BY <1>1, <1>2, FoldExists
  <2>2. E(f)
    BY <2>1, <1>3 DEF Solves
  <2> QED BY <2>2
<1>6. E(F)
  BY <1>5, Zenon
<1> HIDE DEF F
<1>7. Follows(F, n, Int, 0, g)
  BY <1>1, <1>2, <1>6, <1>3 DEF Follows
<1>8. PICK h : Steps(h, F, n, Int, 0, g)
  BY <1>7, FoldSteps
<1>9. h \in [0 .. n -> Int] /\ \A i \in 1 .. n : h[i - 1] \in Int
  BY <1>8 DEF Steps
<1>10. ValueGoes(h, terms, m)
  <2>1. \A i \in 1 .. n : h[i] = next(h[i - 1], i)
    BY <1>8, <1>9 DEF g, Steps
  <2> QED BY <1>8, <1>9, <2>1 DEF next, ValueGoes, Steps
<1>11. F[1 .. n] = h[n]
  BY <1>8 DEF Steps
<1> QED BY <1>4, <1>10, <1>11

(* A term contributes to its variable or to the negation. *)
LEMMA MeetsWhich ==
  ASSUME NEW t \in InputTerm, NEW sign \in {1, -1}, NEW v \in Vars
  PROVE  /\ Meets(t, sign, v) <=> t.var = v /\ sign * t.coef > 0
         /\ Meets(t, sign, -v) <=> t.var = v /\ sign * t.coef < 0
<1>1. t.coef \in Int /\ v \in Nat \ {0} /\ Magnitude(v) = v /\ Magnitude(-v) = v
  BY VarFacts DEF InputTerm
<1>2. PICK a \in Int : a = sign * t.coef
  BY <1>1
<1>3. (a * v > 0 <=> a > 0) /\ (a * (-v) > 0 <=> a < 0)
  <2>1. CASE a > 0
    <3>1. a * v >= v /\ a * (-v) = -(a * v)
      <4>1. (a - 1) * v >= 0 /\ (a - 1) * v = a * v - v
        BY <1>1, <2>1
      <4> QED BY <4>1, <1>1
    <3> QED BY <3>1, <2>1, <1>1
  <2>2. CASE a < 0
    <3>1. a * v <= -v /\ a * (-v) = -(a * v)
      <4>1. (a + 1) * v <= 0 /\ (a + 1) * v = a * v + v
        BY <1>1, <2>2
      <4> QED BY <4>1, <1>1
    <3> QED BY <3>1, <2>2, <1>1
  <2>3. CASE a = 0
    BY <2>3, <1>1
  <2> QED BY <2>1, <2>2, <2>3
<1> QED BY <1>1, <1>2, <1>3 DEF Meets

(* What is gathered for each literal, all at once. *)
LEMMA GatherAll ==
  ASSUME NEW terms \in Seq(InputTerm), NEW sign
  PROVE  \E H : \A l \in Lits : /\ GatherGoes(H[l], terms, sign, l)
                               /\ Gathered(terms, sign, l) = H[l][Len(terms)]
<1> DEFINE Q(h, l) == GatherGoes(h, terms, sign, l) /\ Gathered(terms, sign, l) = h[Len(terms)]
           H == [l \in Lits |-> CHOOSE h : Q(h, l)]
<1>1. \A l \in Lits : \E h : Q(h, l)
  BY GatherSteps
<1> HIDE DEF Q
<1>2. \A l \in Lits : Q(H[l], l)
  BY <1>1
<1> HIDE DEF H
<1>3. \A l \in Lits : /\ GatherGoes(H[l], terms, sign, l)
                      /\ Gathered(terms, sign, l) = H[l][Len(terms)]
  BY <1>2 DEF Q
<1> QED BY <1>3

(* The value of the terms, turned by sign, from what is gathered. *)
Turned(terms, sign, m) ==
  [v \in Vars |-> IF v \in m THEN Gathered(terms, sign, v) - Gathered(terms, sign, -v) ELSE 0]

LEMMA GatheredType ==
  ASSUME NEW terms \in Seq(InputTerm), NEW sign
  PROVE  \A l \in Lits : Gathered(terms, sign, l) \in Nat
<1>1. Len(terms) \in Nat /\ Len(terms) \in 0 .. Len(terms)
  OBVIOUS
<1> SUFFICES ASSUME NEW l \in Lits PROVE Gathered(terms, sign, l) \in Nat
  OBVIOUS
<1>2. PICK h : GatherGoes(h, terms, sign, l) /\ Gathered(terms, sign, l) = h[Len(terms)]
  BY GatherSteps
<1> QED BY <1>1, <1>2 DEF GatherGoes

LEMMA ValueGathered ==
  ASSUME NEW terms \in Seq(InputTerm), NEW sign \in {1, -1}, NEW m
  PROVE  /\ Turned(terms, sign, m) \in [Vars -> Int]
         /\ Value(terms, m) \in Int
         /\ sign * Value(terms, m) = Total(Turned(terms, sign, m))
<1> DEFINE n == Len(terms)
<1>1. PICK H : \A l \in Lits : GatherGoes(H[l], terms, sign, l) /\ Gathered(terms, sign, l) = H[l][n]
  BY GatherAll
<1>2. PICK V : ValueGoes(V, terms, m) /\ Value(terms, m) = V[n]
  BY ValueSteps
<1> DEFINE D(i) == [v \in Vars |-> IF v \in m THEN H[v][i] - H[-v][i] ELSE 0]
<1>3. n \in Nat /\ \A i \in 1 .. n : terms[i] \in InputTerm /\ i \in 0 .. n /\ i - 1 \in 0 .. n
  OBVIOUS
<1>4. \A l \in Lits : /\ \A i \in 0 .. n : H[l][i] \in Nat
                      /\ H[l][0] = 0
                      /\ \A i \in 1 .. n : H[l][i] = IF Meets(terms[i], sign, l)
                            THEN H[l][i - 1] + Magnitude(terms[i].coef) ELSE H[l][i - 1]
  BY <1>1, <1>3 DEF GatherGoes
<1>5. /\ V[0] = 0 /\ \A i \in 0 .. n : V[i] \in Int
      /\ \A i \in 1 .. n : V[i] = IF terms[i].var \in m THEN V[i - 1] + terms[i].coef ELSE V[i - 1]
  BY <1>2, <1>3 DEF ValueGoes
<1>6. \A v \in Vars : v \in Lits /\ -v \in Lits
  BY VarFacts
<1>7. \A i \in 0 .. n : D(i) \in [Vars -> Int] /\ \A v \in Vars : D(i)[v] = IF v \in m THEN H[v][i] - H[-v][i] ELSE 0
  <2> SUFFICES ASSUME NEW i \in 0 .. n
               PROVE  D(i) \in [Vars -> Int] /\ \A v \in Vars : D(i)[v] = IF v \in m THEN H[v][i] - H[-v][i] ELSE 0
    OBVIOUS
  <2>1. \A v \in Vars : (IF v \in m THEN H[v][i] - H[-v][i] ELSE 0) \in Int
    BY <1>4, <1>6
  <2> QED BY <2>1
<1>8. Turned(terms, sign, m) = D(n)
  <2>1. \A v \in Vars : Gathered(terms, sign, v) = H[v][n] /\ Gathered(terms, sign, -v) = H[-v][n]
    BY <1>1, <1>6
  <2> QED BY <2>1 DEF Turned
<1> HIDE DEF D
<1> DEFINE T == {i \in 0 .. n : sign * V[i] = Total(D(i))}
<1>9. 0 \in T
  <2>1. 0 \in 0 .. n
    BY <1>3
  <2>2. \A v \in Vars : D(0)[v] = 0
    BY <1>4, <1>6, <1>7, <2>1
  <2>3. Total(D(0)) = 0
    BY <1>7, <2>1, <2>2, TotalZero
  <2> QED BY <1>5, <2>1, <2>3
<1>10. ASSUME NEW i \in 1 .. n, i - 1 \in T PROVE i \in T
  <2> DEFINE x == terms[i].var
             a == terms[i].coef
  <2>0. i \in 0 .. n /\ i - 1 \in 0 .. n /\ terms[i] \in InputTerm
    BY <1>3
  <2>1. x \in Vars /\ a \in Int
    BY <2>0 DEF InputTerm
  <2>2. \A v \in Vars : /\ Meets(terms[i], sign, v) <=> x = v /\ sign * a > 0
                        /\ Meets(terms[i], sign, -v) <=> x = v /\ sign * a < 0
    BY <2>0, MeetsWhich
  <2> HIDE DEF x
  <2>3. \A v \in Vars \ {x} : H[v][i] = H[v][i - 1] /\ H[-v][i] = H[-v][i - 1]
    BY <1>4, <1>6, <2>2
  <2>4. \A v \in Vars \ {x} : D(i)[v] = D(i - 1)[v]
    BY <1>7, <2>0, <2>3
  <2>5. D(i) \in [Vars -> Int] /\ D(i - 1) \in [Vars -> Int]
    BY <1>7, <2>0
  <2>6. Total(D(i)) = Total(D(i - 1)) + D(i)[x] - D(i - 1)[x]
    BY <2>1, <2>4, <2>5, TotalUpdate
  <2>7. H[x][i] - H[-x][i] = H[x][i - 1] - H[-x][i - 1] + sign * a
    <3>1. /\ H[x][i] = IF sign * a > 0 THEN H[x][i - 1] + Magnitude(a) ELSE H[x][i - 1]
          /\ H[-x][i] = IF sign * a < 0 THEN H[-x][i - 1] + Magnitude(a) ELSE H[-x][i - 1]
      BY <1>4, <1>6, <2>1, <2>2
    <3>2. H[x][i - 1] \in Nat /\ H[-x][i - 1] \in Nat
      BY <1>4, <1>6, <2>0, <2>1
    <3>3. PICK p, q, r, t : p = H[x][i] /\ q = H[-x][i] /\ r = H[x][i - 1] /\ t = H[-x][i - 1]
      OBVIOUS
    <3> HIDE DEF a
    <3>4. /\ p = (IF sign * a > 0 THEN r + Magnitude(a) ELSE r) /\ r \in Nat
          /\ q = (IF sign * a < 0 THEN t + Magnitude(a) ELSE t) /\ t \in Nat
      BY <3>1, <3>2, <3>3
    <3>5. p - q = r - t + sign * a
      <4>1. CASE sign = 1
        BY <3>4, <2>1, <4>1 DEF Magnitude
      <4>2. CASE sign = -1
        BY <3>4, <2>1, <4>2 DEF Magnitude
      <4> QED BY <4>1, <4>2
    <3> QED BY <3>3, <3>5
  <2>8. D(i)[x] - D(i - 1)[x] = IF x \in m THEN sign * a ELSE 0
    <3>1. /\ D(i)[x] = IF x \in m THEN H[x][i] - H[-x][i] ELSE 0
          /\ D(i - 1)[x] = IF x \in m THEN H[x][i - 1] - H[-x][i - 1] ELSE 0
      BY <1>7, <2>0, <2>1
    <3>2. H[x][i - 1] \in Nat /\ H[-x][i - 1] \in Nat /\ H[x][i] \in Nat /\ H[-x][i] \in Nat
      BY <1>4, <1>6, <2>0, <2>1
    <3> QED BY <3>1, <3>2, <2>7, <2>1
  <2>9. V[i] = (IF x \in m THEN V[i - 1] + a ELSE V[i - 1]) /\ V[i - 1] \in Int
    BY <1>5, <2>0 DEF x
  <2>10. sign * V[i - 1] = Total(D(i - 1)) /\ Total(D(i - 1)) \in Int /\ D(i)[x] \in Int /\ D(i - 1)[x] \in Int
    BY <1>10, <2>1, <2>5, TotalType
  <2>11. sign * V[i] = Total(D(i))
    <3>1. PICK p, q, r, t : p = V[i - 1] /\ q = V[i] /\ r = Total(D(i)) /\ t = Total(D(i - 1))
      OBVIOUS
    <3>2. PICK d \in Int : d = D(i)[x] - D(i - 1)[x]
      BY <2>10
    <3>3. r = t + d
      <4>1. D(i)[x] \in Int /\ D(i - 1)[x] \in Int /\ t \in Int
        BY <2>10, <3>1
      <4> QED BY <2>6, <3>1, <3>2, <4>1
    <3>4. /\ p \in Int /\ t = sign * p /\ a \in Int
          /\ q = IF x \in m THEN p + a ELSE p
          /\ d = IF x \in m THEN sign * a ELSE 0
      BY <2>1, <2>8, <2>9, <2>10, <3>1, <3>2
    <3>5. sign * q = r
      <4> HIDE DEF a
      <4>1. CASE sign = 1
        BY <3>3, <3>4, <4>1
      <4>2. CASE sign = -1
        BY <3>3, <3>4, <4>2
      <4> QED BY <4>1, <4>2
    <3> QED BY <3>1, <3>5
  <2> QED BY <2>0, <2>11
<1>11. n \in T
  <2> HIDE DEF T
  <2>1. Inductive(n, T)
    BY <1>3, <1>9, <1>10 DEF Inductive
  <2> QED BY <2>1, InductionUpTo
<1> QED BY <1>2, <1>3, <1>5, <1>7, <1>8, <1>11

(* The merged form has the slack that the turned inequality has. *)
LEMMA MergedRight ==
  ASSUME NEW terms \in Seq(InputTerm), NEW sign \in {1, -1}, NEW rhs \in Int
  PROVE  /\ Merged(terms, sign, rhs) \in Forms
         /\ MovedRhs(terms, sign, rhs) \in Int /\ Merged(terms, sign, rhs).k <= MovedRhs(terms, sign, rhs)
         /\ \A m \in Assignments :
              LET f == Merged(terms, sign, rhs)
              IN Weight(f, m) - f.k = sign * Value(terms, m) - sign * rhs
<1> DEFINE f == Merged(terms, sign, rhs)
           G(l) == Gathered(terms, sign, l)
           C == InCommon(terms, sign)
           N == [v \in Vars |-> Gathered(terms, sign, -v)]
<1>1. \A v \in Vars : G(v) \in Nat /\ G(-v) \in Nat
  BY GatheredType, VarFacts
<1>2. N \in [Vars -> Int] /\ \A v \in Vars : N[v] = G(-v)
  BY <1>1
<1>3. C \in [Vars -> Int] /\ \A v \in Vars : C[v] = IF G(v) < G(-v) THEN G(v) ELSE G(-v)
  BY <1>1 DEF InCommon, Lesser
<1>4. Total(N) \in Int /\ Total(C) \in Nat
  <2> DEFINE z == [v \in Vars |-> 0]
  <2>1. z \in [Vars -> Int] /\ \A v \in Vars : z[v] = 0 /\ z[v] <= C[v]
    BY <1>1, <1>3
  <2> HIDE DEF z, C, N
  <2>2. Total(z) = 0 /\ Total(z) <= Total(C) /\ Total(C) \in Int /\ Total(N) \in Int
    BY <2>1, <1>2, <1>3, TotalZero, TotalCompare, TotalType
  <2> QED BY <2>2
<1>5. /\ f.k = sign * rhs + Total(N) - Total(C)
      /\ f.w = [v \in Vars |-> G(v) - G(-v)]
      /\ f = [k |-> f.k, w |-> f.w]
      /\ MovedRhs(terms, sign, rhs) = sign * rhs + Total(N)
  <2>1. MovedRhs(terms, sign, rhs) = sign * rhs + Total(N)
    BY DEF MovedRhs, Total
  <2>2. f = [k |-> MovedRhs(terms, sign, rhs) - Total(C), w |-> [v \in Vars |-> G(v) - G(-v)]]
    BY DEF Merged, Total
  <2> HIDE DEF f, G, C, N
  <2>3. f.k = MovedRhs(terms, sign, rhs) - Total(C) /\ f.w = [v \in Vars |-> G(v) - G(-v)]
    BY <2>2
  <2> HIDE DEF f
  <2>4. f.k = sign * rhs + Total(N) - Total(C)
    BY <1>4, <2>1, <2>3
  <2>5. f = [k |-> f.k, w |-> f.w]
    BY Zenon, <2>2, <2>3
  <2> QED BY <2>1, <2>3, <2>4, <2>5
<1>6. \A v \in Vars : f.w[v] = G(v) - G(-v)
  BY <1>5
<1>7. f \in Forms
  <2>1. f.w \in [Vars -> Int]
    BY <1>1, <1>5
  <2>2. f.k \in Int
    <3> HIDE DEF f
    <3> QED BY <1>5, <1>4
  <2> HIDE DEF f
  <2> QED BY <1>5, <2>1, <2>2 DEF Forms
<1> HIDE DEF f, G, C, N
<1>8. ASSUME NEW m \in Assignments
      PROVE  Weight(f, m) - f.k = sign * Value(terms, m) - sign * rhs
  <2> DEFINE D == Turned(terms, sign, m)
             B == [v \in Vars |-> D[v] + N[v]]
  <2>1. D \in [Vars -> Int] /\ sign * Value(terms, m) = Total(D) /\ Value(terms, m) \in Int
    BY ValueGathered
  <2>2. \A v \in Vars : D[v] = IF v \in m THEN G(v) - G(-v) ELSE 0
    BY DEF Turned, G
  <2>3. \A v \in Vars : v \in m <=> -v \notin m
    <3>1. PICK e \in [Vars -> BOOLEAN] : m = {IF e[v] THEN v ELSE -v : v \in Vars}
      BY DEF Assignments
    <3> SUFFICES ASSUME NEW v \in Vars PROVE v \in m <=> -v \notin m
      OBVIOUS
    <3>2. \A u \in Vars : u \in Nat \ {0}
      BY VarFacts
    <3>3. v \in m <=> e[v]
      BY <3>1, <3>2
    <3>4. -v \in m <=> ~e[v]
      BY <3>1, <3>2
    <3> QED BY <3>3, <3>4
  <2>4. Gains(f, m) \in [Vars -> Int] /\ \A v \in Vars : Gains(f, m)[v] = Gain(f, v, m)
    BY <1>7, FormFacts DEF Gains
  <2>5. \A v \in Vars : Gains(f, m)[v] + C[v] = D[v] + N[v]
    <3> SUFFICES ASSUME NEW v \in Vars PROVE Gain(f, v, m) + C[v] = D[v] + N[v]
      BY <2>4
    <3>1. PICK p \in Nat, q \in Nat : p = G(v) /\ q = G(-v)
      BY <1>1
    <3>2. /\ f.w[v] = p - q /\ C[v] = (IF p < q THEN p ELSE q) /\ N[v] = q
          /\ D[v] = IF v \in m THEN p - q ELSE 0
      BY <1>2, <1>3, <1>6, <2>2, <3>1
    <3>3. Gain(f, v, m) = IF p - q > 0 /\ v \in m THEN p - q ELSE IF p - q < 0 /\ v \notin m THEN -(p - q) ELSE 0
      BY <3>2, <2>3 DEF Gain
    <3> QED BY <3>2, <3>3
  <2> HIDE DEF D
  <2>6. B \in [Vars -> Int] /\ Adds(B, D, N) /\ Adds(B, Gains(f, m), C)
    BY <2>1, <2>4, <2>5, <1>2, <1>3 DEF Adds
  <2> HIDE DEF B
  <2>7. IsSum(Total(B), Total(D), Total(N)) /\ IsSum(Total(B), Total(Gains(f, m)), Total(C))
    BY <2>1, <2>4, <2>6, <1>2, <1>3, TotalPlus
  <2>8. Total(D) \in Int /\ Total(Gains(f, m)) \in Int
    BY <2>1, <2>4, TotalType
  <2>9. PICK d, w, n, c : d = Total(D) /\ w = Total(Gains(f, m)) /\ n = Total(N) /\ c = Total(C)
    OBVIOUS
  <2>10. d + n = w + c /\ d \in Int /\ n \in Int /\ w \in Int /\ c \in Int
    BY <1>4, <2>7, <2>8, <2>9 DEF IsSum
  <2>11. f.k = sign * rhs + n - c /\ sign * Value(terms, m) = d /\ Weight(f, m) = w /\ sign * rhs \in Int
    BY <1>5, <2>1, <2>9 DEF Weight
  <2> QED BY <2>10, <2>11
<1>9. MovedRhs(terms, sign, rhs) \in Int /\ f.k <= MovedRhs(terms, sign, rhs)
  BY <1>5, <1>4
<1> QED BY <1>7, <1>8, <1>9 DEF f

-----------------------------------------------------------------------------
(* Merging keeps the meaning of an inequality, and the trivial ones hold. *)
LEMMA HoldsMerged ==
  ASSUME NEW ineq \in Inequality, NEW m \in Assignments
  PROVE  /\ FormOf(ineq) \in Forms
         /\ Holds(ineq, m) <=> Admits(FormOf(ineq), m)
         /\ Trivial(ineq) => Holds(ineq, m)
<1> DEFINE f == FormOf(ineq)
           sign == Sign(ineq)
<1>1. ineq.terms \in Seq(InputTerm) /\ ineq.geq \in BOOLEAN /\ ineq.rhs \in Int /\ sign \in {1, -1}
  BY DEF Inequality, Sign
<1>2. f = Merged(ineq.terms, sign, ineq.rhs) /\ (Trivial(ineq) <=> MovedRhs(ineq.terms, sign, ineq.rhs) < 1)
  BY DEF FormOf, Trivial
<1>3. /\ f \in Forms
      /\ MovedRhs(ineq.terms, sign, ineq.rhs) \in Int /\ f.k <= MovedRhs(ineq.terms, sign, ineq.rhs)
      /\ Weight(f, m) - f.k = sign * Value(ineq.terms, m) - sign * ineq.rhs
  <2> HIDE DEF f, sign
  <2> QED BY <1>1, <1>2, MergedRight
<1>4. Value(ineq.terms, m) \in Int
  <2> HIDE DEF f, sign
  <2> QED BY <1>1, ValueGathered
<1>5. f.k \in Int /\ Weight(f, m) \in Nat
  <2> HIDE DEF f
  <2> QED BY <1>3, FormFacts
<1>6. Holds(ineq, m) <=> IF ineq.geq THEN Value(ineq.terms, m) >= ineq.rhs ELSE Value(ineq.terms, m) <= ineq.rhs
  BY DEF Holds
<1>7. sign = IF ineq.geq THEN 1 ELSE -1
  BY DEF Sign
<1> HIDE DEF f, sign
<1>8. PICK w, k, x, r : w = Weight(f, m) /\ k = f.k /\ x = Value(ineq.terms, m) /\ r = ineq.rhs
  OBVIOUS
<1>9. Holds(ineq, m) <=> w >= k
  BY <1>1, <1>3, <1>4, <1>5, <1>6, <1>7, <1>8
<1>10. Trivial(ineq) => w >= k
  BY <1>2, <1>3, <1>5, <1>8
<1> QED BY <1>3, <1>8, <1>9, <1>10 DEF Admits, f

(* What is loaded for an inequality is a constraint, with the same models. *)
LEMMA NormalisedRight ==
  ASSUME NEW ineq \in Inequality, Proper(ineq), ~Trivial(ineq)
  PROVE  /\ Normalised(ineq) \in Constraint
         /\ \A m \in Assignments : Weigh(Normalised(ineq), m) >= Normalised(ineq).k <=> Holds(ineq, m)
<1> DEFINE f == FormOf(ineq)
           c == Initial(f)
<1>0. Normalised(ineq) = Simplify(c)
  BY DEF Normalised
<1>1. f \in Forms /\ f.k \in Nat \ {0} /\ Used(f) # {}
  <2>1. f \in Forms
    BY MergedRight DEF FormOf, Sign, Inequality
  <2>2. f.k > 0 /\ Used(f) # {}
    BY DEF Proper
  <2> HIDE DEF f
  <2> QED BY <2>1, <2>2, FormFacts
<1>2. c = [k |-> f.k, lhs |-> Terms(f), init |-> TRUE, lbd |-> 0]
  BY DEF Initial
<1> HIDE DEF f, c
<1>3. c \in Constraint /\ c.k = f.k /\ \A S : Weigh(c, S) = Weight(f, S)
  <2>1. PICK init \in BOOLEAN, lbd \in Nat : init = TRUE /\ lbd = 0
    OBVIOUS
  <2>2. c = [k |-> f.k, lhs |-> Terms(f), init |-> init, lbd |-> lbd]
    BY <1>2, <2>1
  <2> QED BY <1>1, <2>2, ConstraintOfForm
<1>4. Simplify(c) \in Constraint /\ \A S : Weigh(c, S) >= c.k <=> Weigh(Simplify(c), S) >= Simplify(c).k
  BY <1>3, SimplifySound
<1>5. \A m \in Assignments : Holds(ineq, m) <=> Weight(f, m) >= f.k
  BY HoldsMerged DEF Admits, f
<1> QED BY <1>0, <1>3, <1>4, <1>5
-----------------------------------------------------------------------------
(* The constraints that are loaded are those of the inequalities that are not
   trivial, and have the models of the problem. *)
LEMMA LoadedSolutions ==
  ASSUME NEW p \in Problem, \A i \in DOMAIN p.ineqs : Proper(p.ineqs[i]),
         NEW ineqs, ineqs = [i \in DOMAIN p.ineqs |-> Normalised(p.ineqs[i])],
         NEW S, S = {i \in DOMAIN p.ineqs : ~Trivial(p.ineqs[i])},
         NEW db, db = Picked(ineqs, S)
  PROVE  db \in Seq(Constraint) /\ Feasible(p) = Solutions(db)
<1>1. p.ineqs \in Seq(Inequality)
  BY DEF Problem
<1> DEFINE n == Len(p.ineqs)
<1>2. n \in Nat /\ DOMAIN p.ineqs = 1 .. n /\ \A i \in 1 .. n : p.ineqs[i] \in Inequality
  BY <1>1
<1> HIDE DEF n
<1>3. S \in SUBSET (1 .. n) /\ DOMAIN ineqs = 1 .. n
  BY <1>2
<1>4a. PICK o, c : Lists(o, c, S) /\ db = [i \in 1 .. c |-> ineqs[o[i]]]
  <2>1. IsPicked(Picked(ineqs, S), ineqs, S)
    BY <1>2, <1>3, PickedRight
  <2> QED BY <2>1 DEF IsPicked
<1>4. /\ c \in Nat /\ o \in [1 .. c -> S]
      /\ \A x \in S : \E i \in 1 .. c : o[i] = x
      /\ db = [i \in 1 .. c |-> ineqs[o[i]]]
  BY <1>4a DEF Lists
<1>5. \A i \in S : /\ ineqs[i] \in Constraint
                   /\ \A m \in Assignments : Weigh(ineqs[i], m) >= ineqs[i].k <=> Holds(p.ineqs[i], m)
  <2> SUFFICES ASSUME NEW i \in S
               PROVE  /\ ineqs[i] \in Constraint
                      /\ \A m \in Assignments : Weigh(ineqs[i], m) >= ineqs[i].k <=> Holds(p.ineqs[i], m)
    OBVIOUS
  <2>1. p.ineqs[i] \in Inequality /\ Proper(p.ineqs[i]) /\ ~Trivial(p.ineqs[i])
    BY <1>2
  <2>2. ineqs[i] = Normalised(p.ineqs[i])
    BY <1>2
  <2> QED BY <2>1, <2>2, NormalisedRight
<1>6. DOMAIN db = 1 .. c /\ \A i \in 1 .. c : db[i] = ineqs[o[i]] /\ o[i] \in S
  BY <1>4
<1>7. db \in Seq(Constraint)
  <2>1. \A i \in 1 .. c : ineqs[o[i]] \in Constraint
    BY <1>5, <1>6
  <2>2. db \in [1 .. c -> Constraint]
    BY <1>4, <2>1, Zenon
  <2> QED BY <1>4, <2>2
<1>8. ASSUME NEW m \in Assignments
      PROVE  (\A i \in DOMAIN p.ineqs : Holds(p.ineqs[i], m))
               <=> (\A i \in DOMAIN db : Weigh(db[i], m) >= db[i].k)
  <2>1. \A i \in DOMAIN p.ineqs : i \notin S => Holds(p.ineqs[i], m)
    BY <1>2, HoldsMerged
  <2>2. (\A i \in DOMAIN p.ineqs : Holds(p.ineqs[i], m)) <=> (\A i \in S : Holds(p.ineqs[i], m))
    BY <2>1
  <2>3. (\A i \in S : Holds(p.ineqs[i], m)) <=> (\A i \in S : Weigh(ineqs[i], m) >= ineqs[i].k)
    BY <1>5
  <2>4. (\A i \in S : Weigh(ineqs[i], m) >= ineqs[i].k)
          <=> (\A i \in 1 .. c : Weigh(ineqs[o[i]], m) >= ineqs[o[i]].k)
    BY <1>4
  <2> QED BY <1>6, <2>2, <2>3, <2>4
<1> QED BY <1>7, <1>8 DEF Feasible, Solutions



(***************************************************************************)
(* Cuts.                                                                   *)
(***************************************************************************)
(* What a signed coefficient contributes: p if the variable may be true, n if it
   may be false. *)
Share(w, p, n) == IF w > 0 /\ p THEN w ELSE IF w < 0 /\ n THEN -w ELSE 0

LEMMA Multiples ==
  ASSUME NEW w \in Int, NEW m \in Nat \ {0}
  PROVE  /\ m * w \in Int /\ m * Magnitude(w) = Magnitude(m * w)
         /\ (w > 0 => m * w > 0) /\ (w < 0 => m * w < 0) /\ (w = 0 => m * w = 0)
         /\ \A p, n \in BOOLEAN : m * Share(w, p, n) = Share(m * w, p, n)
<1>1. CASE w > 0
  <2>1. m * w > 0 /\ m * w \in Int
    BY <1>1
  <2>2. m * 0 = 0
    OBVIOUS
  <2> QED BY <1>1, <2>1, <2>2 DEF Magnitude, Share
<1>2. CASE w < 0
  <2>1. PICK u \in Nat \ {0} : w = -u
    <3>1. -w \in Nat \ {0} /\ w = -(-w)
      BY <1>2
    <3> QED BY <3>1
  <2>2. m * u > 0 /\ m * u \in Int
    OBVIOUS
  <2>3. m * w = -(m * u)
    BY <2>1
  <2>4. m * 0 = 0 /\ -w = u
    BY <2>1
  <2> QED BY <1>2, <2>2, <2>3, <2>4 DEF Magnitude, Share
<1>3. CASE w = 0
  <2>1. m * w = 0 /\ m * 0 = 0
    BY <1>3
  <2> QED BY <1>3, <2>1 DEF Magnitude, Share
<1> QED BY <1>1, <1>2, <1>3

LEMMA OppositeSigns ==
  ASSUME NEW a \in Int, NEW b \in Int
  PROVE  a * b < 0 <=> (a > 0 /\ b < 0) \/ (a < 0 /\ b > 0)
<1>1. CASE a > 0 /\ b < 0
  <2>1. PICK c \in Nat \ {0} : b = -c
    <3>1. -b \in Nat \ {0} /\ b = -(-b)
      BY <1>1
    <3> QED BY <3>1
  <2>2. a * c > 0 /\ a * b = -(a * c) /\ a * c \in Int
    BY <1>1, <2>1
  <2> QED BY <1>1, <2>2
<1>2. CASE a < 0 /\ b > 0
  <2>1. PICK c \in Nat \ {0} : a = -c
    <3>1. -a \in Nat \ {0} /\ a = -(-a)
      BY <1>2
    <3> QED BY <3>1
  <2>2. c * b > 0 /\ a * b = -(c * b) /\ c * b \in Int
    BY <1>2, <2>1
  <2> QED BY <1>2, <2>2
<1>3. CASE a >= 0 /\ b >= 0
  <2>1. a * b >= 0
    BY <1>3
  <2> QED BY <1>3, <2>1
<1>4. CASE a <= 0 /\ b <= 0
  <2>1. PICK c \in Nat, d \in Nat : a = -c /\ b = -d
    <3>1. -a \in Nat /\ a = -(-a) /\ -b \in Nat /\ b = -(-b)
      BY <1>4
    <3> QED BY <3>1
  <2>2. c * d >= 0 /\ a * b = c * d
    BY <2>1
  <2> QED BY <1>4, <2>2
<1> QED BY <1>1, <1>2, <1>3, <1>4

(* What two coefficients of a variable cancel. *)
Common(a, b) ==
  IF (a > 0 /\ b < 0) \/ (a < 0 /\ b > 0) THEN Lesser(Magnitude(a), Magnitude(b)) ELSE 0

LEMMA CommonShare ==
  ASSUME NEW a \in Int, NEW b \in Int, NEW p \in BOOLEAN, NEW n \in BOOLEAN
  PROVE  /\ Common(a, b) \in Nat
         /\ p \/ n => Share(a + b, p, n) + Common(a, b) <= Share(a, p, n) + Share(b, p, n)
         /\ p # n => Share(a + b, p, n) + Common(a, b) = Share(a, p, n) + Share(b, p, n)
         /\ p /\ n => Share(a + b, p, n) + Common(a, b) + Common(a, b)
                        = Share(a, p, n) + Share(b, p, n)
BY DEF Common, Share, Magnitude, Lesser

(* What a literal weighs in a multiple of a form. *)
LEMMA GainMultiple ==
  ASSUME NEW f \in Forms, NEW m \in Nat \ {0}, NEW v \in Vars, NEW S
  PROVE  \A p, n \in BOOLEAN :
           (p <=> v \in S) /\ (n <=> -v \in S) => m * Gains(f, S)[v] = Share(m * f.w[v], p, n)
<1>1. f.w[v] \in Int /\ Gains(f, S)[v] = Gain(f, v, S)
  BY FormFacts DEF Gains
<1> SUFFICES ASSUME NEW p \in BOOLEAN, NEW n \in BOOLEAN, p <=> v \in S, n <=> -v \in S
             PROVE  m * Gains(f, S)[v] = Share(m * f.w[v], p, n)
  OBVIOUS
<1>3. Gain(f, v, S) = Share(f.w[v], p, n)
  BY DEF Gain, Share
<1>4. m * Share(f.w[v], p, n) = Share(m * f.w[v], p, n)
  BY <1>1, Multiples
<1> QED BY <1>1, <1>3, <1>4

(* f is the sum of two forms, of which opposite literals cancel B. *)
IsSumOf(f, B, c1, c2, m1, m2) ==
  /\ f \in Forms /\ B \in [Vars -> Int]
  /\ \A v \in Vars : B[v] = Common(m1 * c1.w[v], m2 * c2.w[v])
  /\ f.k = m1 * c1.k + m2 * c2.k - Total(B)
  /\ \A v \in Vars : f.w[v] = m1 * c1.w[v] + m2 * c2.w[v]

LEMMA CombinedForm ==
  ASSUME NEW c1 \in Forms, NEW c2 \in Forms, NEW m1 \in Nat \ {0}, NEW m2 \in Nat \ {0}
  PROVE  \E B : IsSumOf(Combined(c1, c2, m1, m2), B, c1, c2, m1, m2)
<1> DEFINE B == [v \in Vars |-> Common(m1 * c1.w[v], m2 * c2.w[v])]
           g == [v \in Vars |-> Lesser(m1 * Weights(c1)[v], m2 * Weights(c2)[v])]
           O == {v \in Vars : c1.w[v] * c2.w[v] < 0}
           f == Combined(c1, c2, m1, m2)
<1>1. c1.k \in Int /\ c2.k \in Int /\ \A v \in Vars : c1.w[v] \in Int /\ c2.w[v] \in Int
  BY FormFacts
<1>2. ASSUME NEW v \in Vars
      PROVE  /\ m1 * c1.w[v] \in Int /\ m2 * c2.w[v] \in Int
             /\ g[v] = Lesser(Magnitude(m1 * c1.w[v]), Magnitude(m2 * c2.w[v]))
             /\ B[v] = (IF v \in O THEN g[v] ELSE 0)
             /\ B[v] \in Int /\ g[v] \in Int
  <2>1. c1.w[v] \in Int /\ c2.w[v] \in Int
    BY <1>1
  <2>2. PICK a, b : a = m1 * c1.w[v] /\ b = m2 * c2.w[v]
    OBVIOUS
  <2>3. /\ a \in Int /\ m1 * Magnitude(c1.w[v]) = Magnitude(a)
        /\ (c1.w[v] > 0 => a > 0) /\ (c1.w[v] < 0 => a < 0) /\ (c1.w[v] = 0 => a = 0)
    BY <2>1, <2>2, Multiples
  <2>4. /\ b \in Int /\ m2 * Magnitude(c2.w[v]) = Magnitude(b)
        /\ (c2.w[v] > 0 => b > 0) /\ (c2.w[v] < 0 => b < 0) /\ (c2.w[v] = 0 => b = 0)
    BY <2>1, <2>2, Multiples
  <2>5. Weights(c1)[v] = Magnitude(c1.w[v]) /\ Weights(c2)[v] = Magnitude(c2.w[v])
    BY FormFacts
  <2>6. g[v] = Lesser(Magnitude(a), Magnitude(b))
    BY <2>3, <2>4, <2>5
  <2>7. v \in O <=> (c1.w[v] > 0 /\ c2.w[v] < 0) \/ (c1.w[v] < 0 /\ c2.w[v] > 0)
    BY <2>1, OppositeSigns
  <2>8. v \in O <=> (a > 0 /\ b < 0) \/ (a < 0 /\ b > 0)
    BY <2>1, <2>3, <2>4, <2>7
  <2>9. B[v] = Common(a, b)
    <3>1. B[v] = Common(m1 * c1.w[v], m2 * c2.w[v])
      BY Zenon
    <3> HIDE DEF B
    <3> QED BY <3>1, <2>2, Zenon
  <2>10. Magnitude(a) \in Int /\ Magnitude(b) \in Int
    BY <2>3, <2>4 DEF Magnitude
  <2>11. g[v] \in Int
    BY <2>6, <2>10 DEF Lesser
  <2> HIDE DEF B, g, O
  <2> QED BY <2>2, <2>3, <2>4, <2>6, <2>8, <2>9, <2>11 DEF Common
<1>3. B \in [Vars -> Int] /\ g \in [Vars -> Int]
  BY <1>2
<1>4. Cancelled(c1, c2, m1, m2) = SumFunctionOnSet(g, O)
  BY DEF Cancelled
<1>5. O \in SUBSET Vars
  OBVIOUS
<1> HIDE DEF B, g, O
<1>6. Cancelled(c1, c2, m1, m2) = Total(B)
  <2>1. \A v \in Vars : B[v] = IF v \in O THEN g[v] ELSE 0
    BY <1>2
  <2> QED BY <1>3, <1>4, <1>5, <2>1, TotalMasked
<1>7. f = [k |-> m1 * c1.k + m2 * c2.k - Total(B), w |-> [v \in Vars |-> m1 * c1.w[v] + m2 * c2.w[v]]]
  BY <1>6 DEF Combined
<1>8. m1 * c1.k + m2 * c2.k - Total(B) \in Int
  <2>1. Total(B) \in Int /\ m1 * c1.k \in Int /\ m2 * c2.k \in Int
    BY <1>1, <1>3, TotalType
  <2> QED BY <2>1
<1>9. f \in Forms
  <2>1. \A v \in Vars : m1 * c1.w[v] + m2 * c2.w[v] \in Int
    BY <1>2
  <2> QED BY <1>7, <1>8, <2>1 DEF Forms
<1>10. /\ f.k = m1 * c1.k + m2 * c2.k - Total(B)
       /\ \A v \in Vars : f.w[v] = m1 * c1.w[v] + m2 * c2.w[v]
  BY <1>7
<1>11. \A v \in Vars : B[v] = Common(m1 * c1.w[v], m2 * c2.w[v])
  BY DEF B
<1>12. IsSumOf(f, B, c1, c2, m1, m2)
  BY <1>3, <1>9, <1>10, <1>11 DEF IsSumOf
<1> QED BY <1>12

(* Literals of which every variable has one at least; of which it has one. *)
Covers(S) == \A v \in Vars : v \in S \/ -v \in S
Complete(S) == \A v \in Vars : v \in S <=> -v \notin S

(* What the literals in S weigh more in f than the constant. *)
Over(f, S) == Weight(f, S) - f.k

(* m1 * a + m2 * b *)
IsMix(y, m1, a, m2, b) == y = m1 * a + m2 * b

LEMMA TotalMix ==
  ASSUME NEW g \in [Vars -> Int], NEW h \in [Vars -> Int], NEW m1 \in Nat, NEW m2 \in Nat,
         NEW r \in [Vars -> Int], \A v \in Vars : IsMix(r[v], m1, g[v], m2, h[v])
  PROVE  IsMix(Total(r), m1, Total(g), m2, Total(h))
<1> DEFINE a == [v \in Vars |-> m1 * g[v]]
           b == [v \in Vars |-> m2 * h[v]]
<1>1. a \in [Vars -> Int] /\ b \in [Vars -> Int]
  OBVIOUS
<1>2. Multiplies(a, m1, g) /\ Multiplies(b, m2, h)
  BY DEF Multiplies
<1>3. Adds(r, a, b)
  BY DEF Adds, IsMix
<1> HIDE DEF a, b
<1>4. IsTimes(Total(a), m1, Total(g)) /\ IsTimes(Total(b), m2, Total(h))
  <2>1. m1 \in Int /\ m2 \in Int
    OBVIOUS
  <2> QED BY <1>1, <1>2, <2>1, TotalTimes
<1>5. IsSum(Total(r), Total(a), Total(b))
  BY <1>1, <1>3, TotalPlus
<1> QED BY <1>4, <1>5 DEF IsTimes, IsSum, IsMix

(* A cut is over its constant by what its constraints are, multiplied, less what
   opposite literals in S cancel. *)
LEMMA CombinedOver ==
  ASSUME NEW c1 \in Forms, NEW c2 \in Forms, NEW m1 \in Nat \ {0}, NEW m2 \in Nat \ {0}, NEW S,
         NEW f, f = Combined(c1, c2, m1, m2),
         NEW y, IsMix(y, m1, Over(c1, S), m2, Over(c2, S))
  PROVE  /\ f \in Forms /\ y \in Int
         /\ Covers(S) => Over(f, S) <= y
         /\ Complete(S) => Over(f, S) = y
         /\ \A x \in Vars :
              Covers(S) /\ x \in S /\ -x \in S
                => Over(f, S) + Common(m1 * c1.w[x], m2 * c2.w[x]) <= y
<1>0. PICK B : IsSumOf(f, B, c1, c2, m1, m2)
  BY CombinedForm
<1>1. /\ \A v \in Vars : B[v] = Common(m1 * c1.w[v], m2 * c2.w[v])
      /\ f \in Forms /\ B \in [Vars -> Int]
      /\ f.k = m1 * c1.k + m2 * c2.k - Total(B)
      /\ \A v \in Vars : f.w[v] = m1 * c1.w[v] + m2 * c2.w[v]
  BY <1>0 DEF IsSumOf
<1>2. PICK G1, G2, G : G1 = Gains(c1, S) /\ G2 = Gains(c2, S) /\ G = Gains(f, S)
  OBVIOUS
<1>3. G1 \in [Vars -> Int] /\ G2 \in [Vars -> Int] /\ G \in [Vars -> Int]
  BY <1>1, <1>2, FormFacts
<1> DEFINE r == [v \in Vars |-> m1 * G1[v] + m2 * G2[v]]
           s == [v \in Vars |-> G[v] + B[v]]
<1>4. r \in [Vars -> Int] /\ s \in [Vars -> Int]
  BY <1>1, <1>3
<1>5. /\ \A v \in Vars : IsMix(r[v], m1, G1[v], m2, G2[v]) /\ r[v] = m1 * G1[v] + m2 * G2[v]
      /\ Adds(s, G, B) /\ \A v \in Vars : s[v] = G[v] + B[v]
  BY DEF IsMix, Adds
<1> HIDE DEF r, s
<1>6. ASSUME NEW v \in Vars
      PROVE  /\ Covers(S) => s[v] <= r[v]
             /\ Complete(S) => s[v] = r[v]
             /\ v \in S /\ -v \in S => s[v] + B[v] = r[v]
             /\ B[v] \in Nat /\ s[v] \in Int /\ r[v] \in Int
  <2>0. PICK a, b : a = m1 * c1.w[v] /\ b = m2 * c2.w[v]
    OBVIOUS
  <2>00. PICK p \in BOOLEAN, n \in BOOLEAN : (p <=> v \in S) /\ (n <=> -v \in S)
    <3>1. \E p \in BOOLEAN : p <=> v \in S
      <4>1. CASE v \in S
        BY <4>1
      <4>2. CASE v \notin S
        BY <4>2
      <4> QED BY <4>1, <4>2
    <3>2. \E n \in BOOLEAN : n <=> -v \in S
      <4>1. CASE -v \in S
        BY <4>1
      <4>2. CASE -v \notin S
        BY <4>2
      <4> QED BY <4>1, <4>2
    <3> QED BY <3>1, <3>2
  <2>1. a = m1 * c1.w[v] /\ b = m2 * c2.w[v] /\ (p <=> v \in S) /\ (n <=> -v \in S)
    BY <2>0, <2>00
  <2>2. a \in Int /\ b \in Int
    <3>1. c1.w[v] \in Int /\ c2.w[v] \in Int
      BY FormFacts
    <3> QED BY <2>1, <3>1
  <2>3. m1 * G1[v] = Share(a, p, n) /\ m2 * G2[v] = Share(b, p, n)
    BY <1>2, <2>1, GainMultiple
  <2>4. G[v] = Share(a + b, p, n)
    <3>1. G[v] = Gain(f, v, S)
      BY <1>2 DEF Gains
    <3>2. f.w[v] = a + b
      BY <1>1, <2>1
    <3> QED BY <2>1, <3>1, <3>2 DEF Gain, Share
  <2>5. B[v] = Common(a, b) /\ B[v] \in Nat
    BY <1>1, <2>1, <2>2, CommonShare
  <2>6. /\ p \/ n => Share(a + b, p, n) + Common(a, b) <= Share(a, p, n) + Share(b, p, n)
        /\ p # n => Share(a + b, p, n) + Common(a, b) = Share(a, p, n) + Share(b, p, n)
        /\ p /\ n => Share(a + b, p, n) + Common(a, b) + Common(a, b)
                        = Share(a, p, n) + Share(b, p, n)
    BY <2>2, CommonShare
  <2>7. r[v] = Share(a, p, n) + Share(b, p, n) /\ s[v] = Share(a + b, p, n) + Common(a, b)
    BY <1>5, <2>3, <2>4, <2>5
  <2>8. (Covers(S) => p \/ n) /\ (Complete(S) => p # n)
    BY <2>1 DEF Covers, Complete
  <2>9. s[v] \in Int /\ r[v] \in Int
    BY <1>4
  <2> QED BY <2>1, <2>5, <2>6, <2>7, <2>8, <2>9
<1>7. PICK W1, W2, W, tb : W1 = Total(G1) /\ W2 = Total(G2) /\ W = Total(G) /\ tb = Total(B)
  OBVIOUS
<1>8. W1 \in Int /\ W2 \in Int /\ W \in Int /\ tb \in Int
  BY <1>1, <1>3, <1>7, TotalType
<1>9. Total(r) = m1 * W1 + m2 * W2
  <2>1. m1 \in Nat /\ m2 \in Nat
    OBVIOUS
  <2>2. IsMix(Total(r), m1, Total(G1), m2, Total(G2))
    BY <1>3, <1>4, <1>5, <2>1, TotalMix
  <2> QED BY <1>7, <2>2 DEF IsMix
<1>10. Total(s) = W + tb
  <2>1. IsSum(Total(s), Total(G), Total(B))
    BY <1>1, <1>3, <1>4, <1>5, TotalPlus
  <2> QED BY <1>7, <2>1 DEF IsSum
<1>11. Total(r) \in Int /\ Total(s) \in Int
  BY <1>4, TotalType
<1>12. /\ Over(f, S) = W - f.k /\ Over(c1, S) = W1 - c1.k /\ Over(c2, S) = W2 - c2.k
       /\ c1.k \in Int /\ c2.k \in Int /\ f.k \in Int
  BY <1>1, <1>2, <1>7, FormFacts DEF Over, Weight
<1>13. y = (m1 * W1 + m2 * W2) - (m1 * c1.k + m2 * c2.k) /\ y \in Int
  <2>1. y = m1 * (W1 - c1.k) + m2 * (W2 - c2.k)
    BY <1>12 DEF IsMix
  <2>2. m1 * (W1 - c1.k) = m1 * W1 - m1 * c1.k
    BY <1>8, <1>12
  <2>3. m2 * (W2 - c2.k) = m2 * W2 - m2 * c2.k
    BY <1>8, <1>12
  <2>4. m1 * W1 \in Int /\ m1 * c1.k \in Int /\ m2 * W2 \in Int /\ m2 * c2.k \in Int
    BY <1>8, <1>12
  <2> QED BY <2>1, <2>2, <2>3, <2>4
<1>14. PICK p, q : p = m1 * c1.k /\ q = m2 * c2.k
  OBVIOUS
<1>15. p \in Int /\ q \in Int /\ f.k = p + q - tb
  <2>1. p \in Int /\ q \in Int
    BY <1>12, <1>14
  <2> QED BY <1>1, <1>7, <1>14, <2>1
<1>16. PICK u \in Int : y = Total(r) - u /\ Over(f, S) = Total(s) - u
  <2>1. y = Total(r) - (p + q)
    BY <1>9, <1>13, <1>14
  <2>2. Over(f, S) = Total(s) - (p + q)
    BY <1>8, <1>10, <1>12, <1>15
  <2> QED BY <1>15, <2>1, <2>2
<1>17. ASSUME Covers(S) PROVE Over(f, S) <= y
  <2>1. Total(s) <= Total(r)
    BY <1>4, <1>6, <1>17, TotalCompare
  <2> QED BY <1>11, <1>16, <2>1
<1>18. ASSUME Complete(S) PROVE Over(f, S) = y
  <2>1. Total(s) <= Total(r) /\ Total(r) <= Total(s)
    <3>1. \A v \in Vars : s[v] <= r[v] /\ r[v] <= s[v]
      BY <1>6, <1>18
    <3> QED BY <1>4, <3>1, TotalCompare
  <2> QED BY <1>11, <1>16, <2>1
<1>19. ASSUME NEW x \in Vars, Covers(S), x \in S, -x \in S
       PROVE  Over(f, S) + Common(m1 * c1.w[x], m2 * c2.w[x]) <= y
  <2> DEFINE t == [s EXCEPT ![x] = @ + B[x]]
  <2>1. t \in [Vars -> Int] /\ t[x] = s[x] + B[x] /\ \A v \in Vars \ {x} : t[v] = s[v]
    BY <1>1, <1>4
  <2> HIDE DEF t
  <2>2. Total(t) = Total(s) + t[x] - s[x]
    BY <1>4, <2>1, TotalUpdate
  <2>3. \A v \in Vars : t[v] <= r[v]
    <3>1. t[x] <= r[x]
      BY <1>6, <1>19, <2>1
    <3> QED BY <1>6, <1>19, <2>1, <3>1
  <2>4. Total(t) <= Total(r) /\ Total(t) \in Int
    BY <1>4, <2>1, <2>3, TotalCompare, TotalType
  <2>5. B[x] = Common(m1 * c1.w[x], m2 * c2.w[x]) /\ B[x] \in Int /\ s[x] \in Int
    BY <1>1, <1>4
  <2>6. Total(t) = Total(s) + B[x]
    BY <1>11, <2>1, <2>2, <2>5
  <2> QED BY <1>11, <1>16, <2>4, <2>5, <2>6
<1> QED BY <1>1, <1>13, <1>17, <1>18, <1>19

-----------------------------------------------------------------------------
(* The largest and the least of some integers. *)
Within(S, lo, hi) == lo \in Int /\ hi \in Int /\ \A x \in S : x \in Int /\ lo <= x /\ x <= hi

LEMMA MaxOf ==
  ASSUME NEW lo, NEW hi, NEW S, Within(S, lo, hi), S # {}
  PROVE  Max(S) \in S /\ \A y \in S : Max(S) >= y
<1> DEFINE T == {x - lo + 1 : x \in S}
<1>1. PICK n : n = hi - lo + 1
  OBVIOUS
<1>2. n \in Nat /\ \A x \in S : x - lo + 1 \in 1 .. n
  <2>1. PICK x : x \in S
    OBVIOUS
  <2> QED BY <1>1, <2>1 DEF Within
<1>3. T \in SUBSET (1 .. n) /\ T # {}
  BY <1>2
<1> HIDE DEF T
<1>4. Max(T) \in T /\ \A y \in T : Max(T) >= y
  BY <1>2, <1>3, MaxInSet
<1>5. PICK x \in S : Max(T) = x - lo + 1
  BY <1>4 DEF T
<1>6. \A y \in S : x >= y
  <2> SUFFICES ASSUME NEW y \in S PROVE x >= y
    OBVIOUS
  <2>1. y - lo + 1 \in T
    BY DEF T
  <2>2. x \in Int /\ y \in Int /\ lo \in Int
    BY DEF Within
  <2> QED BY <1>4, <1>5, <2>1, <2>2
<1>7. \E z \in S : \A y \in S : z >= y
  BY <1>6
<1> QED BY <1>7 DEF Max

LEMMA MinOf ==
  ASSUME NEW lo, NEW hi, NEW S, Within(S, lo, hi), S # {}
  PROVE  Min(S) \in S /\ \A y \in S : Min(S) <= y
<1> DEFINE T == {-x : x \in S}
<1>1. PICK a, b : a = -hi /\ b = -lo
  OBVIOUS
<1>2. Within(T, a, b) /\ T # {}
  BY <1>1 DEF Within
<1> HIDE DEF T
<1>3. Max(T) \in T /\ \A y \in T : Max(T) >= y
  BY <1>2, MaxOf
<1>4. PICK x \in S : Max(T) = -x
  BY <1>3 DEF T
<1>5. \A y \in S : x <= y
  <2> SUFFICES ASSUME NEW y \in S PROVE x <= y
    OBVIOUS
  <2>1. -y \in T
    BY DEF T
  <2>2. x \in Int /\ y \in Int
    BY DEF Within
  <2> QED BY <1>3, <1>4, <2>1, <2>2
<1>6. \E z \in S : \A y \in S : z <= y
  BY <1>5
<1> QED BY <1>6 DEF Min

(* The divisor divides every coefficient up to the constant. *)
LEMMA DivisorRight ==
  ASSUME NEW f \in Forms, f.k \in Nat \ {0}
  PROVE  /\ CommonDivisor(f) \in Nat \ {0}
         /\ \A v \in Used(f) : Weights(f)[v] <= f.k => Weights(f)[v] % CommonDivisor(f) = 0
<1> DEFINE light == {Magnitude(f.w[v]) : v \in {u \in Used(f) : Magnitude(f.w[u]) <= f.k}}
           D == {d \in 1 .. Min(light) : \A n \in light : n % d = 0}
<1>1. \A v \in Used(f) : v \in Vars /\ Weights(f)[v] = Magnitude(f.w[v]) /\ Weights(f)[v] \in Nat \ {0}
  BY FormFacts
<1>2. f.k \in Int /\ \A n \in light : n \in Nat \ {0} /\ n <= f.k
  BY <1>1
<1>3. CommonDivisor(f) = IF light = {} THEN f.k ELSE Max(D)
  BY DEF CommonDivisor
<1>4. CASE light = {}
  <2>1. \A v \in Used(f) : ~(Weights(f)[v] <= f.k)
    BY <1>1, <1>4
  <2> QED BY <1>3, <1>4, <2>1
<1>5. CASE light # {}
  <2> HIDE DEF light
  <2>1. Min(light) \in light
    <3>1. PICK a, b : a = 1 /\ b = f.k
      OBVIOUS
    <3>2. Within(light, a, b)
      BY <1>2, <3>1 DEF Within
    <3> QED BY <3>2, <1>5, MinOf
  <2>2. Min(light) \in Nat \ {0}
    BY <1>2, <2>1
  <2>3. \A n \in light : n \in Nat /\ n % 1 = 0
    BY <1>2
  <2>4. D \in SUBSET (1 .. Min(light)) /\ D # {}
    BY <2>2, <2>3
  <2>5. Max(D) \in D
    <3>1. PICK a, b : a = 1 /\ b = Min(light)
      OBVIOUS
    <3>2. Within(D, a, b)
      BY <2>2, <2>4, <3>1 DEF Within
    <3> HIDE DEF D
    <3> QED BY <3>2, <2>4, MaxOf
  <2>6. Max(D) \in Nat \ {0} /\ \A n \in light : n % Max(D) = 0
    BY <2>2, <2>5
  <2>7. \A v \in Used(f) : Weights(f)[v] <= f.k => Weights(f)[v] \in light
    BY <1>1 DEF light
  <2> HIDE DEF D
  <2> QED BY <1>3, <1>5, <2>6, <2>7
<1> QED BY <1>4, <1>5

(* A literal's coefficient is part of the weight. *)
LEMMA GainBelow ==
  ASSUME NEW f \in Forms, NEW S, NEW x \in Used(f), LitOf(f, x) \in S
  PROVE  Weights(f)[x] <= Weight(f, S)
<1>1. Weight(f, S \ {LitOf(f, x)}) = Weight(f, S) - Weights(f)[x]
  BY WeightWithout
<1>2. Weight(f, S \ {LitOf(f, x)}) \in Nat /\ Weight(f, S) \in Nat /\ Weights(f)[x] \in Nat
  BY FormFacts
<1> QED BY <1>1, <1>2

(* Division leaves the literals, and makes of each coefficient the rounded
   quotient, or the constant if that is less. *)
IsDivided(g, f, d) ==
  /\ g \in Forms /\ g.k \in Nat \ {0} /\ g.k = DivisionRoundedUp(f.k, d)
  /\ Used(g) = Used(f) /\ \A v \in Vars : LitOf(g, v) = LitOf(f, v)
  /\ \A v \in Used(f) : Weights(g)[v] = Lesser(DivisionRoundedUp(Weights(f)[v], d), g.k)

LEMMA DividedForm ==
  ASSUME NEW f \in Forms, f.k \in Nat \ {0}, NEW d \in Nat \ {0}
  PROVE  IsDivided(Divided(f, d), f, d)
<1> DEFINE k == DivisionRoundedUp(f.k, d)
           cut(n) == Lesser(DivisionRoundedUp(n, d), k)
           g == Divided(f, d)
<1>1. g = [k |-> k, w |-> [v \in Vars |-> IF f.w[v] < 0 THEN -cut(-f.w[v]) ELSE cut(f.w[v])]]
  BY DEF Divided
<1>2. g.k = k /\ \A v \in Vars : g.w[v] = IF f.w[v] < 0 THEN -cut(-f.w[v]) ELSE cut(f.w[v])
  BY <1>1
<1>3. k \in Nat \ {0}
  BY RoundedUp
<1>4. \A n \in Nat \ {0} : DivisionRoundedUp(n, d) \in Nat \ {0} /\ cut(n) \in Nat \ {0}
  <2>1. \A n \in Nat \ {0} : DivisionRoundedUp(n, d) \in Nat \ {0}
    BY RoundedUp
  <2> QED BY <1>3, <2>1 DEF Lesser
<1>5. cut(0) = 0
  <2>1. PICK q : q = (d - 1) \div d
    OBVIOUS
  <2>2. q \in Nat /\ d * q <= d - 1
    <3>1. d - 1 \in Nat
      OBVIOUS
    <3> QED BY <2>1, <3>1, Quotient
  <2>3. q = 0
    <3>1. CASE q >= 1
      <4>1. d * q >= d
        BY <2>2, <3>1
      <4> QED BY <2>2, <4>1
    <3> QED BY <2>2, <3>1
  <2>4. DivisionRoundedUp(0, d) = q
    <3>1. 0 + d - 1 = d - 1
      OBVIOUS
    <3> QED BY <2>1, <3>1 DEF DivisionRoundedUp
  <2> HIDE DEF k
  <2> QED BY <1>3, <2>3, <2>4 DEF Lesser
<1> HIDE DEF g, k, cut
<1>6. ASSUME NEW v \in Vars
      PROVE  /\ f.w[v] \in Int /\ g.w[v] \in Int
             /\ (g.w[v] > 0 <=> f.w[v] > 0) /\ (g.w[v] # 0 <=> f.w[v] # 0)
             /\ v \in Used(f) => Magnitude(g.w[v]) = cut(Weights(f)[v])
  <2>1. f.w[v] \in Int /\ Weights(f)[v] = Magnitude(f.w[v]) /\ (v \in Used(f) => f.w[v] # 0)
    BY FormFacts DEF Used
  <2>2. CASE f.w[v] > 0
    <3>1. g.w[v] = cut(f.w[v]) /\ cut(f.w[v]) \in Nat \ {0} /\ Weights(f)[v] = f.w[v]
      BY <1>2, <1>4, <2>1, <2>2 DEF Magnitude
    <3> QED BY <2>1, <2>2, <3>1 DEF Magnitude
  <2>3. CASE f.w[v] < 0
    <3>1. g.w[v] = -cut(-f.w[v]) /\ cut(-f.w[v]) \in Nat \ {0} /\ Weights(f)[v] = -f.w[v]
      BY <1>2, <1>4, <2>1, <2>3 DEF Magnitude
    <3> QED BY <2>1, <2>3, <3>1 DEF Magnitude
  <2>4. CASE f.w[v] = 0
    <3>1. g.w[v] = 0
      BY <1>2, <1>5, <2>1, <2>4
    <3> QED BY <2>1, <2>4, <3>1
  <2> QED BY <2>1, <2>2, <2>3, <2>4
<1>7. g \in Forms
  <2>1. \A v \in Vars : (IF f.w[v] < 0 THEN -cut(-f.w[v]) ELSE cut(f.w[v])) \in Int
    BY <1>2, <1>6
  <2>2. g.w \in [Vars -> Int]
    BY <1>1, <2>1
  <2> QED BY <1>1, <1>3, <2>2 DEF Forms
<1>8. Used(g) = Used(f)
  BY <1>6 DEF Used
<1>9. \A v \in Vars : LitOf(g, v) = LitOf(f, v)
  BY <1>6 DEF LitOf
<1>10. \A v \in Used(f) : Weights(g)[v] = Lesser(DivisionRoundedUp(Weights(f)[v], d), g.k)
  <2> SUFFICES ASSUME NEW v \in Used(f)
               PROVE  Weights(g)[v] = Lesser(DivisionRoundedUp(Weights(f)[v], d), g.k)
    OBVIOUS
  <2>1. v \in Vars
    BY DEF Used
  <2>2. Weights(g)[v] = cut(Weights(f)[v])
    BY <1>6, <1>7, <2>1, FormFacts
  <2> QED BY <1>2, <2>2 DEF cut
<1>11. IsDivided(g, f, d)
  BY <1>2, <1>3, <1>7, <1>8, <1>9, <1>10 DEF IsDivided, k
<1> QED BY <1>11 DEF g

(* What satisfies a form satisfies the quotient. *)
LEMMA DividedSound ==
  ASSUME NEW f \in Forms, f.k \in Nat \ {0}, NEW d \in Nat \ {0}, NEW g, IsDivided(g, f, d),
         NEW S, Admits(f, S)
  PROVE  Admits(g, S)
<1>1. /\ g \in Forms /\ g.k \in Nat \ {0} /\ g.k = DivisionRoundedUp(f.k, d)
      /\ Used(g) = Used(f) /\ \A v \in Vars : LitOf(g, v) = LitOf(f, v)
      /\ \A v \in Used(f) : Weights(g)[v] = Lesser(DivisionRoundedUp(Weights(f)[v], d), g.k)
  BY DEF IsDivided
<1>2. \A v \in Used(f) : v \in Vars /\ Weights(f)[v] \in Nat \ {0}
  BY FormFacts
<1>3. Weight(g, S) \in Nat /\ Weight(f, S) \in Nat
  BY <1>1, FormFacts
<1>4. CASE \E v \in Used(f) : LitOf(f, v) \in S /\ Weights(g)[v] = g.k
  <2>1. PICK v \in Used(f) : LitOf(f, v) \in S /\ Weights(g)[v] = g.k
    BY <1>4
  <2>2. v \in Used(g) /\ LitOf(g, v) \in S
    BY <1>1, <1>2, <2>1
  <2>3. Weights(g)[v] <= Weight(g, S)
    BY <1>1, <2>2, GainBelow
  <2> QED BY <1>1, <1>3, <2>1, <2>3 DEF Admits
<1>5. CASE \A v \in Used(f) : LitOf(f, v) \in S => Weights(g)[v] # g.k
  <2> DEFINE s == [v \in Vars |-> d * Gains(g, S)[v]]
  <2>1. s \in [Vars -> Int] /\ Gains(g, S) \in [Vars -> Int] /\ Gains(f, S) \in [Vars -> Int]
    <3>1. Gains(g, S) \in [Vars -> Int] /\ Gains(f, S) \in [Vars -> Int]
      BY <1>1, FormFacts
    <3> QED BY <3>1
  <2>2. Multiplies(s, d, Gains(g, S))
    BY DEF Multiplies
  <2>3. \A v \in Vars : Gains(f, S)[v] <= s[v]
    <3> SUFFICES ASSUME NEW v \in Vars PROVE Gains(f, S)[v] <= s[v]
      OBVIOUS
    <3>1. s[v] = d * Gains(g, S)[v]
      OBVIOUS
    <3>2. /\ Gains(f, S)[v] = IF v \in Used(f) /\ LitOf(f, v) \in S THEN Weights(f)[v] ELSE 0
          /\ Gains(g, S)[v] = IF v \in Used(f) /\ LitOf(f, v) \in S THEN Weights(g)[v] ELSE 0
      BY <1>1, FormFacts
    <3> HIDE DEF s
    <3>3. CASE v \in Used(f) /\ LitOf(f, v) \in S
      <4>1. Weights(g)[v] = DivisionRoundedUp(Weights(f)[v], d)
        BY <1>1, <1>5, <3>3 DEF Lesser
      <4>2. d * DivisionRoundedUp(Weights(f)[v], d) >= Weights(f)[v]
        BY <1>2, <3>3, RoundedUp
      <4> QED BY <3>1, <3>2, <3>3, <4>1, <4>2
    <3>4. CASE ~(v \in Used(f) /\ LitOf(f, v) \in S)
      <4>1. Gains(f, S)[v] = 0 /\ Gains(g, S)[v] = 0
        BY <3>2, <3>4
      <4>2. d * 0 = 0
        OBVIOUS
      <4> QED BY <3>1, <4>1, <4>2
    <3> QED BY <3>3, <3>4
  <2> HIDE DEF s
  <2>4. Weight(f, S) <= Total(s)
    BY <2>1, <2>3, TotalCompare DEF Weight
  <2>5. Total(s) = d * Weight(g, S)
    <3>1. d \in Int
      OBVIOUS
    <3>2. IsTimes(Total(s), d, Total(Gains(g, S)))
      BY <2>1, <2>2, <3>1, TotalTimes
    <3> QED BY <3>2 DEF IsTimes, Weight
  <2>6. d * g.k < f.k + d
    BY <1>1, RoundedUp
  <2>7. f.k <= Weight(f, S) /\ f.k \in Int
    BY FormFacts DEF Admits
  <2>8. PICK a, b : a = d * g.k /\ b = d * Weight(g, S)
    OBVIOUS
  <2>9. a \in Int /\ b \in Int
    BY <1>1, <1>3, <2>8
  <2>10. a < b + d
    BY <1>3, <2>4, <2>5, <2>6, <2>7, <2>8, <2>9
  <2>11. g.k <= Weight(g, S)
    BY <1>1, <1>3, <2>8, <2>10, ProductOrder
  <2> QED BY <1>1, <1>3, <2>11 DEF Admits
<1> QED BY <1>4, <1>5

(* If the literals in S do not satisfy a form, they do not satisfy the quotient
   by its common divisor: they are lighter than the constant, and the quotients of
   their coefficients exact. *)
LEMMA DividedFalsified ==
  ASSUME NEW f \in Forms, f.k \in Nat \ {0}, NEW d, d = CommonDivisor(f), NEW g, IsDivided(g, f, d),
         NEW S, ~Admits(f, S)
  PROVE  ~Admits(g, S)
<1>1. /\ g \in Forms /\ g.k \in Nat \ {0} /\ g.k = DivisionRoundedUp(f.k, d)
      /\ Used(g) = Used(f) /\ \A v \in Vars : LitOf(g, v) = LitOf(f, v)
      /\ \A v \in Used(f) : Weights(g)[v] = Lesser(DivisionRoundedUp(Weights(f)[v], d), g.k)
  BY DEF IsDivided
<1>2. \A v \in Used(f) : v \in Vars /\ Weights(f)[v] \in Nat \ {0}
  BY FormFacts
<1>3. Weight(g, S) \in Nat /\ Weight(f, S) \in Nat
  BY <1>1, FormFacts
<1>4. d \in Nat \ {0} /\ \A v \in Used(f) : Weights(f)[v] <= f.k => Weights(f)[v] % d = 0
  BY DivisorRight
<1>5. Weight(f, S) < f.k
  BY <1>3 DEF Admits
<1> DEFINE s == [v \in Vars |-> d * Gains(g, S)[v]]
<1>6. s \in [Vars -> Int] /\ Gains(g, S) \in [Vars -> Int] /\ Gains(f, S) \in [Vars -> Int]
  <2>1. Gains(g, S) \in [Vars -> Int] /\ Gains(f, S) \in [Vars -> Int]
    BY <1>1, FormFacts
  <2> QED BY <1>4, <2>1
<1>7. Multiplies(s, d, Gains(g, S))
  BY DEF Multiplies
<1>8. \A v \in Vars : s[v] <= Gains(f, S)[v]
  <2> SUFFICES ASSUME NEW v \in Vars PROVE s[v] <= Gains(f, S)[v]
    OBVIOUS
  <2>1. s[v] = d * Gains(g, S)[v]
    OBVIOUS
  <2>2. /\ Gains(f, S)[v] = IF v \in Used(f) /\ LitOf(f, v) \in S THEN Weights(f)[v] ELSE 0
        /\ Gains(g, S)[v] = IF v \in Used(f) /\ LitOf(f, v) \in S THEN Weights(g)[v] ELSE 0
    BY <1>1, FormFacts
  <2> HIDE DEF s
  <2>3. CASE v \in Used(f) /\ LitOf(f, v) \in S
    <3>1. Weights(f)[v] <= Weight(f, S)
      BY <2>3, GainBelow
    <3>2. Weights(f)[v] % d = 0
      BY <1>2, <1>3, <1>4, <1>5, <2>3, <3>1
    <3>3. PICK q \in Nat \ {0} : q = DivisionRoundedUp(Weights(f)[v], d) /\ d * q = Weights(f)[v]
      BY <1>2, <1>4, <2>3, <3>2, RoundedUp
    <3>4. PICK u : u = Weights(g)[v]
      OBVIOUS
    <3>5. u \in Nat /\ u <= q
      BY <1>1, <2>3, <3>3, <3>4 DEF Lesser
    <3>6. d * u <= d * q
      BY <1>4, <3>5
    <3> QED BY <2>1, <2>2, <2>3, <3>3, <3>4, <3>6
  <2>4. CASE ~(v \in Used(f) /\ LitOf(f, v) \in S)
    <3>1. Gains(f, S)[v] = 0 /\ Gains(g, S)[v] = 0
      BY <2>2, <2>4
    <3>2. d * 0 = 0
      BY <1>4
    <3> QED BY <2>1, <3>1, <3>2
  <2> QED BY <2>3, <2>4
<1> HIDE DEF s
<1>9. Total(s) <= Weight(f, S)
  BY <1>6, <1>8, TotalCompare DEF Weight
<1>10. Total(s) = d * Weight(g, S)
  <2>1. d \in Int
    BY <1>4
  <2>2. IsTimes(Total(s), d, Total(Gains(g, S)))
    BY <1>6, <1>7, <2>1, TotalTimes
  <2> QED BY <2>2 DEF IsTimes, Weight
<1>11. d * g.k >= f.k
  BY <1>1, <1>4, RoundedUp
<1>12. Weight(g, S) < g.k
  <2>1. PICK a, b : a = Weight(g, S) /\ b = g.k
    OBVIOUS
  <2>2. a \in Nat /\ b \in Nat /\ f.k \in Nat
    BY <1>1, <1>3, <2>1
  <2>3. d * a < d * b
    <3>1. PICK p, q : p = d * a /\ q = d * b
      OBVIOUS
    <3>2. p \in Int /\ q \in Int
      BY <1>4, <2>2, <3>1
    <3>3. p <= Weight(f, S) /\ q >= f.k
      BY <1>9, <1>10, <1>11, <2>1, <3>1
    <3>4. p < q
      BY <1>3, <1>5, <2>2, <3>2, <3>3
    <3> QED BY <3>1, <3>4
  <2>4. CASE b <= a
    <3>1. d * b <= d * a /\ d * b \in Int /\ d * a \in Int
      BY <1>4, <2>2, <2>4
    <3> QED BY <2>3, <3>1
  <2> QED BY <2>1, <2>2, <2>4
<1> QED BY <1>1, <1>3, <1>12 DEF Admits

(* Without literals a form weighs nothing. *)
LEMMA WeightOfNone ==
  ASSUME NEW f \in Forms, Used(f) = {}, NEW S
  PROVE  Weight(f, S) = 0
<1>1. Gains(f, S) \in [Vars -> Int] /\ \A v \in Vars : Gains(f, S)[v] = 0
  BY FormFacts
<1> QED BY <1>1, TotalZero DEF Weight

(* What is left of a sum holds where the sum holds, and only there where the
   divisor is common. *)
LEMMA NormedRight ==
  ASSUME NEW f \in Forms, NEW cut, cut = Normed(f)
  PROVE  /\ cut.form \in Forms /\ cut.overflow \in BOOLEAN
         /\ ~cut.overflow => /\ cut.form.k \in Nat \ {0}
                             /\ \A S : Admits(f, S) <=> Admits(cut.form, S)
         /\ f.k = 1 => ~cut.overflow
<1>0. f.k \in Int
  BY FormFacts
<1>1. CASE f.k <= 0
  <2>1. cut = [overflow |-> TRUE, form |-> f]
    BY <1>1 DEF Normed
  <2> QED BY <1>1, <2>1
<1>2. CASE f.k > 0 /\ Used(f) = {}
  <2>1. cut = [overflow |-> FALSE, form |-> [f EXCEPT !.k = 1]]
    BY <1>0, <1>2 DEF Normed
  <2>2. cut.form \in Forms /\ cut.form.k = 1 /\ cut.form.w = f.w /\ ~cut.overflow
    BY <2>1 DEF Forms
  <2>3. Used(cut.form) = {}
    BY <1>2, <2>2 DEF Used
  <2>4. \A S : Weight(f, S) = 0 /\ Weight(cut.form, S) = 0
    BY <1>2, <2>2, <2>3, WeightOfNone
  <2>5. \A S : Admits(f, S) <=> Admits(cut.form, S)
    BY <1>0, <1>2, <2>2, <2>4 DEF Admits
  <2> QED BY <2>1, <2>2, <2>5
<1>3. CASE f.k > 0 /\ Used(f) # {}
  <2>1. PICK d, g : d = CommonDivisor(f) /\ g = Divided(f, d)
    OBVIOUS
  <2>2. cut = [overflow |-> g.k > CutLimit, form |-> g]
    BY <1>0, <1>3, <2>1 DEF Normed
  <2>3. f.k \in Nat \ {0}
    BY <1>0, <1>3
  <2>4. d \in Nat \ {0}
    BY <2>1, <2>3, DivisorRight
  <2>5. IsDivided(g, f, d)
    BY <2>1, <2>3, <2>4, DividedForm
  <2>6. g \in Forms /\ g.k \in Nat \ {0} /\ g.k = DivisionRoundedUp(f.k, d)
    BY <2>5 DEF IsDivided
  <2>7. \A S : Admits(f, S) => Admits(g, S)
    BY <2>3, <2>4, <2>5, DividedSound
  <2>8. \A S : ~Admits(f, S) => ~Admits(g, S)
    BY <2>1, <2>3, <2>5, DividedFalsified
  <2>9. ASSUME f.k = 1 PROVE g.k = 1
    <3>1. d * g.k < 1 + d
      BY <2>3, <2>4, <2>6, <2>9, RoundedUp
    <3>2. CASE g.k >= 2
      <4>1. d * g.k >= d * 2
        BY <2>4, <2>6, <3>2
      <4> QED BY <2>4, <2>6, <3>1, <4>1
    <3> QED BY <2>6, <3>2
  <2>10. f.k = 1 => ~(g.k > CutLimit)
    BY <2>9, LimitAssumption
  <2>11. PICK o \in BOOLEAN : o <=> g.k > CutLimit
    <3>1. CASE g.k > CutLimit
      BY <3>1
    <3>2. CASE ~(g.k > CutLimit)
      BY <3>2
    <3> QED BY <3>1, <3>2
  <2>12. cut.form = g /\ cut.overflow = o
    <3>1. (g.k > CutLimit) = o
      BY <2>11
    <3>2. cut = [overflow |-> o, form |-> g]
      BY <2>2, <3>1, Zenon
    <3> QED BY <3>2
  <2> QED BY <2>6, <2>7, <2>8, <2>10, <2>11, <2>12
<1> QED BY <1>0, <1>1, <1>2, <1>3

(* Two coefficients are multiplied to the same. *)
LEMMA MultiplierRight ==
  ASSUME NEW a \in Nat \ {0}, NEW b \in Nat \ {0}
  PROVE  /\ Multiplier(a, b) \in Nat \ {0} /\ Multiplier(b, a) \in Nat \ {0}
         /\ Multiplier(a, b) * a = Multiplier(b, a) * b
<1> DEFINE D == {d \in 1 .. Lesser(a, b) : a % d = 0 /\ b % d = 0}
<1>1. Lesser(a, b) \in Nat \ {0} /\ Lesser(b, a) = Lesser(a, b)
  BY DEF Lesser
<1>2. a % 1 = 0 /\ b % 1 = 0
  OBVIOUS
<1>3. 1 \in D
  BY <1>1, <1>2
<1>4. \A d \in D : d \in Nat \ {0} /\ d <= Lesser(a, b) /\ a % d = 0 /\ b % d = 0
  BY <1>1
<1>5. GCD(a, b) = Max(D)
  BY DEF GCD
<1>6. GCD(b, a) = Max(D)
  <2>1. {d \in 1 .. Lesser(b, a) : b % d = 0 /\ a % d = 0} = D
    BY <1>1
  <2> HIDE DEF D
  <2> QED BY <2>1 DEF GCD
<1> HIDE DEF D
<1>7. Max(D) \in D
  <2>1. PICK lo, hi : lo = 1 /\ hi = Lesser(a, b)
    OBVIOUS
  <2>2. Within(D, lo, hi)
    BY <1>1, <1>4, <2>1 DEF Within
  <2> QED BY <1>3, <2>2, MaxOf
<1>8. PICK g \in Nat \ {0} : g = Max(D) /\ a % g = 0 /\ b % g = 0
  BY <1>4, <1>7
<1>9. PICK p, q : p = b \div g /\ q = a \div g
  OBVIOUS
<1>10. p \in Nat /\ g * p = b /\ q \in Nat /\ g * q = a
  BY <1>8, <1>9, Quotient, ExactQuotient
<1>11. Multiplier(a, b) = p /\ Multiplier(b, a) = q
  BY <1>5, <1>6, <1>8, <1>9 DEF Multiplier
<1>12. p # 0 /\ q # 0
  <2>1. g * 0 = 0
    OBVIOUS
  <2> QED BY <1>10, <2>1
<1>13. p * a = q * b
  <2>1. p \in Int /\ q \in Int /\ g \in Int
    BY <1>8, <1>10
  <2>2. p * (g * q) = q * (g * p)
    BY <2>1
  <2>3. a = g * q /\ b = g * p
    BY <1>10
  <2> QED BY <2>2, <2>3, Zenon
<1> QED BY <1>10, <1>11, <1>12, <1>13

LEMMA ProductMono ==
  ASSUME NEW a \in Nat, NEW b \in Nat, NEW c \in Nat, NEW d \in Nat, a <= b, c <= d
  PROVE  a * c <= b * d /\ a * c \in Nat /\ b * d \in Nat
<1>1. PICK u \in Nat : b = a + u
  <2>1. b - a \in Nat /\ b = a + (b - a)
    OBVIOUS
  <2> QED BY <2>1
<1>2. PICK v \in Nat : d = c + v
  <2>1. d - c \in Nat /\ d = c + (d - c)
    OBVIOUS
  <2> QED BY <2>1
<1>3. b * d = a * c + (a * v + u * d)
  <2>1. (a + u) * d = a * d + u * d
    OBVIOUS
  <2>2. a * (c + v) = a * c + a * v
    OBVIOUS
  <2>3. a * d = a * c + a * v
    BY <1>2, <2>2
  <2>4. b * d = a * d + u * d
    BY <1>1, <2>1
  <2> QED BY <2>3, <2>4
<1>4. a * c \in Nat /\ a * v \in Nat /\ u * d \in Nat
  OBVIOUS
<1> QED BY <1>3, <1>4

(* A coefficient of one constraint is multiplied with at most the other's. *)
LEMMA MultiplierBound ==
  ASSUME NEW a \in Nat \ {0}, NEW b \in Nat \ {0}
  PROVE  Multiplier(a, b) <= b
<1>1. PICK m, n : m = Multiplier(a, b) /\ n = Multiplier(b, a)
  OBVIOUS
<1> DEFINE D == {d \in 1 .. Lesser(a, b) : a % d = 0 /\ b % d = 0}
<1>2. 1 \in D /\ \A d \in D : d \in Nat \ {0} /\ d <= Lesser(a, b) /\ b % d = 0
  BY DEF Lesser
<1>3. GCD(a, b) = Max(D) /\ Lesser(a, b) \in Nat
  BY DEF GCD, Lesser
<1> HIDE DEF D
<1>4. Max(D) \in D
  <2>1. PICK lo, hi : lo = 1 /\ hi = Lesser(a, b)
    OBVIOUS
  <2>2. Within(D, lo, hi)
    BY <1>2, <1>3, <2>1 DEF Within
  <2> QED BY <1>2, <2>1, <2>2, MaxOf
<1>5. PICK g \in Nat \ {0} : g = GCD(a, b) /\ b % g = 0
  BY <1>2, <1>3, <1>4
<1>6. m = b \div g
  BY <1>1, <1>5 DEF Multiplier
<1>7. m \in Nat /\ g * m = b
  BY <1>5, <1>6, Quotient, ExactQuotient
<1>8. 1 * m <= g * m
  BY <1>5, <1>7, ProductMono
<1> QED BY <1>1, <1>7, <1>8

(* What the comment in applyCut says is so, whatever the limit: the constant and
   the coefficients of a cut of saturated constraints stay in int when it is
   chosen, and in long long otherwise. *)
THEOREM SaturatedCutFits ==
  ASSUME NEW c1 \in Forms, NEW c2 \in Forms, NEW x \in Used(c1) \cap Used(c2),
         Saturated(c1), Saturated(c2), c1.k <= IntMax, c2.k <= IntMax,
         NEW m1, m1 = Multiplier(Magnitude(c1.w[x]), Magnitude(c2.w[x])),
         NEW m2, m2 = Multiplier(Magnitude(c2.w[x]), Magnitude(c1.w[x]))
  PROVE  ResultFits(c1, c2, m1, m2, TypeMax(c1, c2))
<1>1. /\ \A v \in Vars : c1.w[v] \in Int /\ c2.w[v] \in Int
      /\ x \in Vars /\ c1.w[x] # 0 /\ c2.w[x] # 0 /\ c1.k \in Int /\ c2.k \in Int
  BY FormFacts DEF Used
<1>2. PICK a, b : a = Magnitude(c1.w[x]) /\ b = Magnitude(c2.w[x])
  OBVIOUS
<1>3. a \in Nat \ {0} /\ b \in Nat \ {0} /\ a <= c1.k /\ b <= c2.k
  BY <1>1, <1>2 DEF Magnitude, Saturated
<1>4. m1 \in Nat \ {0} /\ m2 \in Nat \ {0} /\ m1 <= b /\ m2 <= a
  BY <1>2, <1>3, MultiplierRight, MultiplierBound
<1>5. PICK h \in Nat, k \in Nat : h = c1.k /\ k = c2.k
  BY <1>1, <1>3
<1>6. m1 <= k /\ m2 <= h
  BY <1>3, <1>4, <1>5
<1>7. PICK P \in Nat : P = h * k
  OBVIOUS
<1>8. ASSUME NEW n \in Nat
      PROVE  (n <= h => m1 * n <= P) /\ (n <= k => m2 * n <= P)
  <2>1. ASSUME n <= h PROVE m1 * n <= P
    <3>1. m1 * n <= k * h
      BY <1>4, <1>6, <2>1, ProductMono
    <3>2. k * h = h * k
      OBVIOUS
    <3> QED BY <1>7, <3>1, <3>2
  <2>2. ASSUME n <= k PROVE m2 * n <= P
    BY <1>4, <1>6, <1>7, <2>2, ProductMono
  <2> QED BY <2>1, <2>2
<1>9. PICK max : max = TypeMax(c1, c2)
  OBVIOUS
<1>10. max \in Nat /\ P + P <= max
  <2>1. PICK L \in Nat \ {0} : L = CutLimit
    BY LimitAssumption
  <2>2. CASE ComputedInInt(c1, c2)
    <3>1. P < L /\ max = 2 * L - 1
      BY <1>5, <1>7, <1>9, <2>1, <2>2 DEF ComputedInInt, TypeMax, IntMax
    <3> QED BY <3>1
  <2>3. CASE ~ComputedInInt(c1, c2)
    <3>1. PICK t \in Nat : t = 2 * L - 1
      BY <2>1
    <3>2. h <= t /\ k <= t
      BY <1>5, <2>1, <3>1 DEF IntMax
    <3>3. P <= t * t /\ t * t \in Nat
      BY <1>7, <3>2, ProductMono
    <3>4. t * t = 4 * (L * L) - 4 * L + 1 /\ L * L \in Nat
      BY <3>1
    <3>5. max = 8 * L * L - 1
      BY <1>9, <2>1, <2>3 DEF TypeMax, LongMax
    <3>6. 8 * L * L = 8 * (L * L)
      OBVIOUS
    <3> QED BY <3>3, <3>4, <3>5, <3>6
  <2> QED BY <2>2, <2>3
<1>11. m1 * c1.k + m2 * c2.k <= max
  <2>1. m1 * h <= P /\ m2 * k <= P /\ m1 * h \in Nat /\ m2 * k \in Nat
    BY <1>4, <1>8
  <2>2. m1 * h + m2 * k <= max
    BY <1>10, <2>1
  <2> QED BY <1>5, <2>2
<1>12. ASSUME NEW v \in Vars
       PROVE  /\ m1 * Magnitude(c1.w[v]) <= max /\ m2 * Magnitude(c2.w[v]) <= max
              /\ Magnitude(m1 * c1.w[v] + m2 * c2.w[v]) <= max
  <2>1. PICK w1 \in Int, w2 \in Int : w1 = c1.w[v] /\ w2 = c2.w[v]
    BY <1>1
  <2>2. Magnitude(w1) \in Nat /\ Magnitude(w1) <= h /\ Magnitude(w2) \in Nat /\ Magnitude(w2) <= k
    BY <1>5, <2>1 DEF Magnitude, Saturated
  <2>3. PICK p \in Int, q \in Int : p = m1 * w1 /\ q = m2 * w2
    BY <1>4
  <2>4. m1 * Magnitude(w1) = Magnitude(p) /\ m2 * Magnitude(w2) = Magnitude(q)
    BY <1>4, <2>3, Multiples
  <2>5. Magnitude(p) <= P /\ Magnitude(q) <= P
    BY <1>8, <2>2, <2>4
  <2>6. Magnitude(p + q) <= P + P
    BY <2>5 DEF Magnitude
  <2>7. Magnitude(p) <= max /\ Magnitude(q) <= max /\ Magnitude(p + q) <= max
    BY <1>10, <2>5, <2>6 DEF Magnitude
  <2> QED BY <2>1, <2>3, <2>4, <2>7
<1> QED BY <1>9, <1>11, <1>12 DEF ResultFits

(* One of the two contains x, the other its negation. *)
Opposed(c1, c2, x) ==
  x \in Vars /\ ((c1.w[x] > 0 /\ c2.w[x] < 0) \/ (c1.w[x] < 0 /\ c2.w[x] > 0))

(* c has no more than its constant asks for, and d propagates x. *)
Propagating(c, d, S, x) == Over(c, S) <= 0 /\ Over(d, S) < Weights(d)[x]

LEMMA OpposedCut ==
  ASSUME NEW c1 \in Forms, NEW c2 \in Forms, NEW x, Opposed(c1, c2, x),
         NEW m1, m1 = Multiplier(Magnitude(c1.w[x]), Magnitude(c2.w[x])),
         NEW m2, m2 = Multiplier(Magnitude(c2.w[x]), Magnitude(c1.w[x]))
  PROVE  /\ m1 \in Nat \ {0} /\ m2 \in Nat \ {0}
         /\ Weights(c1)[x] \in Nat \ {0} /\ Weights(c2)[x] \in Nat \ {0}
         /\ Common(m1 * c1.w[x], m2 * c2.w[x]) = m1 * Weights(c1)[x]
         /\ Common(m1 * c1.w[x], m2 * c2.w[x]) = m2 * Weights(c2)[x]
<1>1. /\ x \in Vars /\ c1.w[x] \in Int /\ c2.w[x] \in Int
      /\ Weights(c1)[x] = Magnitude(c1.w[x]) /\ Weights(c2)[x] = Magnitude(c2.w[x])
  BY FormFacts DEF Opposed
<1>2. PICK a, b : a = Magnitude(c1.w[x]) /\ b = Magnitude(c2.w[x])
  OBVIOUS
<1>3. a \in Nat \ {0} /\ b \in Nat \ {0}
  BY <1>1, <1>2 DEF Opposed, Magnitude
<1>4. m1 \in Nat \ {0} /\ m2 \in Nat \ {0} /\ m1 * a = m2 * b
  BY <1>2, <1>3, MultiplierRight
<1>5. PICK u, v : u = m1 * c1.w[x] /\ v = m2 * c2.w[x]
  OBVIOUS
<1>6. /\ u \in Int /\ m1 * a = Magnitude(u)
      /\ (c1.w[x] > 0 => u > 0) /\ (c1.w[x] < 0 => u < 0)
  BY <1>1, <1>2, <1>4, <1>5, Multiples
<1>7. /\ v \in Int /\ m2 * b = Magnitude(v)
      /\ (c2.w[x] > 0 => v > 0) /\ (c2.w[x] < 0 => v < 0)
  BY <1>1, <1>2, <1>4, <1>5, Multiples
<1>8. (u > 0 /\ v < 0) \/ (u < 0 /\ v > 0)
  BY <1>6, <1>7 DEF Opposed
<1>9. Magnitude(u) = Magnitude(v) /\ Magnitude(u) \in Int
  BY <1>4, <1>6, <1>7 DEF Magnitude
<1>10. Common(u, v) = Magnitude(u)
  BY <1>8, <1>9 DEF Common, Lesser
<1> QED BY <1>1, <1>2, <1>3, <1>4, <1>5, <1>6, <1>7, <1>9, <1>10

(* A cut of two constraints that eliminates a variable (applyCut), for every
   coefficient: whoever satisfies both satisfies it, and it is falsified where
   one of the two has no more than it asks for and the other propagates the
   variable.  Only a tautology, or too large a constant, is given up. *)
THEOREM ApplyCutRight ==
  ASSUME NEW c1 \in Forms, NEW c2 \in Forms, NEW x, Opposed(c1, c2, x),
         NEW cut, cut = ApplyCut(x, c1, c2)
  PROVE  /\ cut.form \in Forms /\ cut.overflow \in BOOLEAN
         /\ ~cut.overflow => cut.form.k \in Nat \ {0}
         /\ \A S : Complete(S) /\ Admits(c1, S) /\ Admits(c2, S) /\ ~cut.overflow => Admits(cut.form, S)
         /\ \A S : /\ Covers(S) /\ x \in S /\ -x \in S /\ ~cut.overflow
                   /\ Propagating(c1, c2, S, x) \/ Propagating(c2, c1, S, x)
                   => ~Admits(cut.form, S)
<1>1. PICK m1, m2 : /\ m1 = Multiplier(Magnitude(c1.w[x]), Magnitude(c2.w[x]))
                    /\ m2 = Multiplier(Magnitude(c2.w[x]), Magnitude(c1.w[x]))
  OBVIOUS
<1>2. /\ m1 \in Nat \ {0} /\ m2 \in Nat \ {0}
      /\ Weights(c1)[x] \in Nat \ {0} /\ Weights(c2)[x] \in Nat \ {0}
      /\ Common(m1 * c1.w[x], m2 * c2.w[x]) = m1 * Weights(c1)[x]
      /\ Common(m1 * c1.w[x], m2 * c2.w[x]) = m2 * Weights(c2)[x]
  BY <1>1, OpposedCut
<1>3. PICK f, n : f = Combined(c1, c2, m1, m2) /\ n = Normed(f)
  OBVIOUS
<1>4. cut.overflow = n.overflow /\ cut.form = n.form
  BY <1>1, <1>3 DEF ApplyCut
<1>5. f \in Forms
  <2>1. PICK B : IsSumOf(f, B, c1, c2, m1, m2)
    BY <1>2, <1>3, CombinedForm
  <2> QED BY <2>1 DEF IsSumOf
<1>6. /\ n.form \in Forms /\ n.overflow \in BOOLEAN
      /\ ~n.overflow => /\ n.form.k \in Nat \ {0}
                        /\ \A S : Admits(f, S) <=> Admits(n.form, S)
  BY <1>3, <1>5, NormedRight
<1>7. ASSUME NEW S
      PROVE  /\ Over(c1, S) \in Int /\ Over(c2, S) \in Int /\ Over(f, S) \in Int
             /\ \A g \in {c1, c2, f} : Admits(g, S) <=> Over(g, S) >= 0
  <2>1. \A g \in {c1, c2, f} : Weight(g, S) \in Nat /\ g.k \in Int
    BY <1>5, FormFacts
  <2> QED BY <2>1 DEF Over, Admits
<1>8. ASSUME NEW S, Complete(S), Admits(c1, S), Admits(c2, S)
      PROVE  Admits(f, S)
  <2>1. PICK y : y = m1 * Over(c1, S) + m2 * Over(c2, S)
    OBVIOUS
  <2>2. IsMix(y, m1, Over(c1, S), m2, Over(c2, S))
    BY <2>1 DEF IsMix
  <2>3. Over(f, S) = y
    BY <1>2, <1>3, <1>8, <2>2, CombinedOver
  <2>4. Over(c1, S) \in Nat /\ Over(c2, S) \in Nat
    BY <1>7, <1>8
  <2>5. m1 * Over(c1, S) \in Nat /\ m2 * Over(c2, S) \in Nat
    BY <1>2, <2>4
  <2>6. y >= 0
    BY <2>1, <2>5
  <2> QED BY <1>7, <2>3, <2>6
<1>9. ASSUME NEW S, Covers(S), x \in S, -x \in S,
             Propagating(c1, c2, S, x) \/ Propagating(c2, c1, S, x)
      PROVE  ~Admits(f, S)
  <2>1. PICK y, a, b : y = m1 * a + m2 * b /\ a = Over(c1, S) /\ b = Over(c2, S)
    OBVIOUS
  <2>2. IsMix(y, m1, Over(c1, S), m2, Over(c2, S))
    BY <2>1 DEF IsMix
  <2>3. y \in Int /\ Over(f, S) + Common(m1 * c1.w[x], m2 * c2.w[x]) <= y
    <3>1. x \in Vars
      BY DEF Opposed
    <3> QED BY <1>2, <1>3, <1>9, <2>2, <3>1, CombinedOver
  <2>4. a \in Int /\ b \in Int
    BY <1>7, <2>1
  <2>5. PICK c, u, v : c = Common(m1 * c1.w[x], m2 * c2.w[x]) /\ u = Weights(c1)[x] /\ v = Weights(c2)[x]
    OBVIOUS
  <2>6. /\ u \in Nat \ {0} /\ v \in Nat \ {0} /\ c = m1 * u /\ c = m2 * v
        /\ m1 \in Nat \ {0} /\ m2 \in Nat \ {0}
    BY <1>2, <2>5
  <2>7. c \in Int
    BY <2>6
  <2>8. (a <= 0 /\ b < v) \/ (b <= 0 /\ a < u)
    BY <1>9, <2>1, <2>5 DEF Propagating
  <2>9. y < c
    <3>1. m1 * a \in Int /\ m2 * b \in Int
      BY <2>4, <2>6
    <3>2. CASE a <= 0 /\ b < v
      <4>1. m1 * a <= 0
        BY <2>4, <2>6, <3>2
      <4>2. m2 * b < m2 * v
        BY <2>4, <2>6, <3>2
      <4> QED BY <2>1, <2>6, <2>7, <3>1, <4>1, <4>2
    <3>3. CASE b <= 0 /\ a < u
      <4>1. m2 * b <= 0
        BY <2>4, <2>6, <3>3
      <4>2. m1 * a < m1 * u
        BY <2>4, <2>6, <3>3
      <4> QED BY <2>1, <2>6, <2>7, <3>1, <4>1, <4>2
    <3> QED BY <2>8, <3>2, <3>3
  <2>10. Over(f, S) + c <= y
    BY <2>3, <2>5
  <2>11. Over(f, S) < 0
    BY <1>7, <2>3, <2>7, <2>9, <2>10
  <2> QED BY <1>7, <2>11
<1> QED BY <1>4, <1>6, <1>8, <1>9

(* The literals that are not false when those in T are true. *)
Free(T) == {l \in Lits : -l \notin T}

(* No literal in L is the opposite of another. *)
Unopposed(L) == L \subseteq Lits /\ \A l \in L : -l \notin L

(* A clause has its literals with coefficient 1, and needs one of them. *)
LEMMA ClauseFormRight ==
  ASSUME NEW L, Unopposed(L), NEW g, g = ClauseForm(L)
  PROVE  /\ g \in Forms /\ g.k = 1 /\ IsClause(g)
         /\ \A v \in Used(g) : LitOf(g, v) \in L /\ Weights(g)[v] = 1
         /\ \A l \in L : Magnitude(l) \in Used(g) /\ LitOf(g, Magnitude(l)) = l /\ Weights(g)[Magnitude(l)] = 1
         /\ FormLits(g) = L
         /\ \A S : Admits(g, S) <=> L \cap S # {}
<1>1. g = [k |-> 1, w |-> [v \in Vars |-> IF v \in L THEN 1 ELSE IF -v \in L THEN -1 ELSE 0]]
  BY DEF ClauseForm
<1>2. /\ g \in Forms /\ g.k = 1
      /\ \A v \in Vars : g.w[v] = IF v \in L THEN 1 ELSE IF -v \in L THEN -1 ELSE 0
  BY <1>1 DEF Forms
<1>3. \A v \in Used(g) : v \in Vars /\ g.w[v] \in {1, -1}
  BY <1>2 DEF Used
<1>4. \A v \in Used(g) : LitOf(g, v) \in L /\ Weights(g)[v] = 1
  <2> SUFFICES ASSUME NEW v \in Used(g) PROVE LitOf(g, v) \in L /\ Weights(g)[v] = 1
    OBVIOUS
  <2>1. v \in Vars /\ v \in Int /\ Weights(g)[v] = Magnitude(g.w[v])
    BY <1>2, <1>3, FormFacts, VarFacts
  <2>2. CASE v \in L
    BY <1>2, <2>1, <2>2 DEF LitOf, Magnitude
  <2>3. CASE v \notin L
    <3>1. g.w[v] = IF -v \in L THEN -1 ELSE 0
      BY <1>2, <2>1, <2>3
    <3>2. g.w[v] # 0
      BY <1>3
    <3>3. -v \in L /\ g.w[v] = -1
      BY <3>1, <3>2
    <3>4. Magnitude(-1) = 1 /\ ~(-1 > 0)
      <4>1. PICK m \in Int : m = -1
        OBVIOUS
      <4>2. m < 0 /\ -m = 1
        <5>1. m + 1 = 0 /\ m < 0
          BY <4>1
        <5>2. \A a, b \in Int : a + b = 0 => -a = b
          OBVIOUS
        <5> QED BY <5>1, <5>2
      <4>3. Magnitude(m) = 1 /\ ~(m > 0)
        BY <4>2 DEF Magnitude
      <4> QED BY <4>1, <4>3, Zenon
    <3>5. Weights(g)[v] = 1
      BY <2>1, <3>3, <3>4, Zenon
    <3>6. LitOf(g, v) = -v
      BY <3>3, <3>4 DEF LitOf
    <3> QED BY <3>3, <3>5, <3>6
  <2> QED BY <2>2, <2>3
<1>5. ASSUME NEW l \in L
      PROVE  Magnitude(l) \in Used(g) /\ LitOf(g, Magnitude(l)) = l
  <2>1. PICK v \in Vars : v = Magnitude(l) /\ (l = v \/ l = -v) /\ l \in Lits
    BY VarFacts DEF Unopposed
  <2>2. v \in Lits /\ -v \in Lits /\ v > 0 /\ -(-v) = v /\ v \in Int
    BY VarFacts
  <2>3. CASE l = v
    <3>1. g.w[v] = 1
      BY <1>2, <2>3
    <3> QED BY <2>1, <2>3, <3>1 DEF Used, LitOf
  <2>4. CASE l = -v
    <3>1. v \notin L
      BY <2>2, <2>4 DEF Unopposed
    <3>2. g.w[v] = -1
      BY <1>2, <2>4, <3>1
    <3> QED BY <2>1, <2>4, <3>2 DEF Used, LitOf
  <2> QED BY <2>1, <2>3, <2>4
<1>6. FormLits(g) = L
  BY <1>4, <1>5 DEF FormLits
<1>7. ASSUME NEW S PROVE Admits(g, S) <=> L \cap S # {}
  <2>1. CASE L \cap S # {}
    <3>1. PICK l \in L : l \in S
      BY <2>1
    <3>2. Weights(g)[Magnitude(l)] <= Weight(g, S) /\ Weights(g)[Magnitude(l)] = 1
      BY <1>2, <1>4, <1>5, <3>1, GainBelow
    <3> QED BY <1>2, <2>1, <3>2 DEF Admits
  <2>2. CASE L \cap S = {}
    <3>1. Gains(g, S) \in [Vars -> Int] /\ \A v \in Vars : Gains(g, S)[v] = 0
      BY <1>2, <1>4, <2>2, FormFacts
    <3>2. Weight(g, S) = 0
      BY <3>1, TotalZero DEF Weight
    <3> QED BY <1>2, <2>2, <3>2 DEF Admits
  <2> QED BY <2>1, <2>2
<1>8. IsClause(g)
  BY <1>2, <1>3 DEF IsClause
<1> QED BY <1>2, <1>4, <1>5, <1>6, <1>7, <1>8

-----------------------------------------------------------------------------
(* Rounding. *)
Choice == [lits : SUBSET Lits, rest : Int]

TakeFalse(f, x, s, r, v) ==
  IF v \in Used(f) \ {x} /\ IsFalseLit(s, LitOf(f, v)) /\ NeedsMore(r.rest)
    THEN [lits |-> r.lits \cup {LitOf(f, v)}, rest |-> r.rest - Magnitude(f.w[v])]
    ELSE r

LEMMA RestIs ==
  ASSUME NEW f \in Forms, NEW x \in Used(f)
  PROVE  SumFunctionOnSet(Weights(f), Used(f) \ {x}) = Weight(f, Lits \ {LitOf(f, x)})
<1>1. Weights(f) \in [Vars -> Int] /\ Used(f) \ {x} \in SUBSET Vars
  BY FormFacts
<1>2. PICK G, S, U : G = Gains(f, S) /\ S = Lits \ {LitOf(f, x)} /\ U = Used(f) \ {x}
  OBVIOUS
<1>3. \A v \in Vars \ {x} : LitOf(f, v) # LitOf(f, x) /\ LitOf(f, v) \in Lits
  <2>1. x \in Vars /\ \A v \in Vars : LitOf(f, v) \in Lits /\ LitOf(f, v) \in {v, -v}
    BY FormFacts
  <2>2. \A v \in Vars : Magnitude(v) = v /\ Magnitude(-v) = v
    BY VarFacts
  <2> QED BY <2>1, <2>2
<1>4. G \in [Vars -> Int] /\ \A v \in Vars : G[v] = IF v \in U THEN Weights(f)[v] ELSE 0
  BY <1>2, <1>3, FormFacts
<1>5. SumFunctionOnSet(Weights(f), U) = Total(G)
  BY <1>1, <1>2, <1>4, TotalMasked
<1> QED BY <1>2, <1>5 DEF Weight

LEMMA TakeFalseType ==
  ASSUME NEW f \in Forms, NEW x, NEW s, NEW r \in Choice, NEW v
  PROVE  TakeFalse(f, x, s, r, v) \in Choice
<1>1. CASE v \in Used(f)
  <2>1. LitOf(f, v) \in Lits /\ f.w[v] \in Int
    BY <1>1, FormFacts
  <2>2. r.lits \cup {LitOf(f, v)} \in SUBSET Lits /\ r.rest - Magnitude(f.w[v]) \in Int
    BY <2>1 DEF Choice, Magnitude
  <2> QED BY <2>2 DEF TakeFalse, Choice
<1>2. CASE v \notin Used(f)
  BY <1>2 DEF TakeFalse
<1> QED BY <1>1, <1>2

(* The variables are looked at one after the other. *)
LEMMA FixRoundingSteps ==
  ASSUME NEW f \in Forms, NEW x \in Used(f), NEW s, NEW n0, n0 \in Int,
         n0 = SumFunctionOnSet(Weights(f), Used(f) \ {x}) - f.k
  PROVE  \E h \in [0 .. NumVars -> Choice] :
           /\ h[0] = [lits |-> {LitOf(f, x)}, rest |-> n0]
           /\ \A i \in 1 .. NumVars : h[i] = TakeFalse(f, x, s, h[i - 1], i)
           /\ FixRounding(f, x, s) = ClauseForm(h[NumVars].lits)
<1> DEFINE n == NumVars
           S == Choice
           b == [lits |-> {LitOf(f, x)}, rest |-> n0]
           step(r, i) == TakeFalse(f, x, s, r, i)
           idx == [v \in Vars |-> v]
           g == [p \in S \X (1 .. n) |-> step(p[1], idx[p[2]])]
           E(q) == q = [t \in SUBSET DOMAIN idx |->
                          IF t = {} THEN b ELSE step(q[t \ {Max(t)}], idx[Max(t)])]
           F == CHOOSE q : E(q)
<1>1. n \in Nat /\ b \in S /\ DOMAIN idx = 1 .. n /\ \A i \in 1 .. n : idx[i] = i
  <2>1. LitOf(f, x) \in Lits
    BY FormFacts
  <2>2. b \in Choice
    BY <2>1 DEF Choice
  <2> QED BY <2>2, VarsAssumption DEF Vars
<1>2. g \in [S \X (1 .. n) -> S]
  <2>1. \A r \in S, i \in 1 .. n : TakeFalse(f, x, s, r, i) \in S
    BY TakeFalseType
  <2> QED BY <1>1, <2>1
<1>3. \A t \in SUBSET (1 .. n), r \in S : t # {} => g[<<r, Max(t)>>] = step(r, idx[Max(t)])
  BY <1>1, MaxInSet
<1>4. FixRounding(f, x, s) = ClauseForm(F[DOMAIN idx].lits)
  BY Zenon DEF FixRounding, TakeFalse, FoldLeft, MapThenFoldSet
<1> HIDE DEF step, g, S, n, idx, b
<1>5. \E q : E(q)
  <2>1. PICK q \in [SUBSET (1 .. n) -> S] : Solves(q, n, b, g)
    BY <1>1, <1>2, FoldExists
  <2>2. E(q)
    BY <2>1, <1>1, <1>3 DEF Solves
  <2> QED BY <2>2
<1>6. E(F)
  BY <1>5, Zenon
<1> HIDE DEF F
<1>7. Follows(F, n, S, b, g)
  BY <1>1, <1>2, <1>6, <1>3 DEF Follows
<1>8. PICK h : Steps(h, F, n, S, b, g)
  BY <1>7, FoldSteps
<1>9. /\ h \in [0 .. n -> S] /\ h[0] = b /\ F[1 .. n] = h[n]
      /\ \A i \in 1 .. n : h[i] = g[<<h[i - 1], i>>] /\ h[i - 1] \in S
  BY <1>8, <1>1 DEF Steps
<1>10. \A i \in 1 .. n : h[i] = step(h[i - 1], i)
  BY <1>1, <1>9 DEF g
<1> QED BY <1>1, <1>4, <1>9, <1>10 DEF n, S, b, step

(* The choice after the variables up to i, for a form f that propagates x when
   the literals in T are true. *)
Chosen(f, x, T, r, i) ==
  /\ r \in Choice /\ LitOf(f, x) \in r.lits
  /\ \A l \in r.lits :
       \E u \in Used(f) : l = LitOf(f, u) /\ (u = x \/ (u # x /\ u <= i /\ -l \in T))
  /\ r.rest = Weight(f, Lits \ r.lits) - f.k
  /\ r.rest >= 0 =>
       \A u \in Used(f) \ {x} : u <= i /\ -LitOf(f, u) \in T => LitOf(f, u) \in r.lits

LEMMA TakeFalseChooses ==
  ASSUME NEW f \in Forms, NEW x \in Used(f), NEW s, NEW i \in Vars, NEW r,
         Chosen(f, x, TrueLits(s), r, i - 1)
  PROVE  Chosen(f, x, TrueLits(s), TakeFalse(f, x, s, r, i), i)
<1>q. PICK q, T : q = TakeFalse(f, x, s, r, i) /\ T = TrueLits(s)
  OBVIOUS
<1> DEFINE lit == LitOf(f, i)
<1>0. i \in Nat /\ (\A u \in Used(f) : u \in Vars /\ u \in Nat) /\ lit \in Lits
  BY VarFacts, FormFacts
<1>1. /\ r \in Choice /\ LitOf(f, x) \in r.lits
      /\ \A l \in r.lits :
           \E u \in Used(f) : l = LitOf(f, u) /\ (u = x \/ (u # x /\ u <= i - 1 /\ -l \in T))
      /\ r.rest = Weight(f, Lits \ r.lits) - f.k
      /\ r.rest >= 0 =>
           \A u \in Used(f) \ {x} : u <= i - 1 /\ -LitOf(f, u) \in T => LitOf(f, u) \in r.lits
  BY <1>q DEF Chosen
<1>2. r.lits \subseteq Lits /\ r.rest \in Int
  BY <1>1 DEF Choice
<1>3. q \in Choice
  BY <1>1, <1>q, TakeFalseType
<1>4. CASE i \in Used(f) \ {x} /\ -lit \in T /\ r.rest >= 0
  <2>1. q = [lits |-> r.lits \cup {lit}, rest |-> r.rest - Magnitude(f.w[i])]
    BY <1>4, <1>q DEF TakeFalse, IsFalseLit, NeedsMore
  <2>2. q.lits = r.lits \cup {lit} /\ q.rest = r.rest - Magnitude(f.w[i])
    BY <2>1
  <2>3. lit \notin r.lits
    <3> SUFFICES ASSUME lit \in r.lits PROVE FALSE
      OBVIOUS
    <3>1. PICK u \in Used(f) : lit = LitOf(f, u) /\ (u = x \/ u <= i - 1)
      BY <1>1
    <3>2. u # i
      BY <1>0, <1>4, <3>1
    <3>3. LitOf(f, u) \in {u, -u} /\ LitOf(f, i) \in {i, -i} /\ u \in Vars
      BY <1>0, FormFacts
    <3>4. Magnitude(lit) = u /\ Magnitude(lit) = i
      BY <3>1, <3>3, VarFacts
    <3> QED BY <3>2, <3>4
  <2>4. Lits \ q.lits = (Lits \ r.lits) \ {lit}
    BY <2>2
  <2>5. Weight(f, (Lits \ r.lits) \ {lit}) = Weight(f, Lits \ r.lits) - Weights(f)[i]
    <3>1. lit \in Lits \ r.lits /\ i \in Used(f)
      BY <1>0, <1>4, <2>3
    <3> QED BY <3>1, WeightWithout
  <2>6. /\ Weight(f, Lits \ r.lits) \in Nat /\ f.k \in Int /\ Weights(f)[i] \in Nat
        /\ Weights(f)[i] = Magnitude(f.w[i])
    BY FormFacts
  <2>7. q.rest = Weight(f, Lits \ q.lits) - f.k
    <3>1. Weight(f, Lits \ q.lits) = Weight(f, (Lits \ r.lits) \ {lit})
      BY <2>4, Zenon
    <3>2. PICK a, b, c : a = Weight(f, Lits \ r.lits) /\ b = Weight(f, Lits \ q.lits) /\ c = Weights(f)[i]
      OBVIOUS
    <3>3. b = a - c
      BY <2>5, <3>1, <3>2, Zenon
    <3> QED BY <1>1, <2>2, <2>6, <3>2, <3>3
  <2>8. \A l \in q.lits :
           \E u \in Used(f) : l = LitOf(f, u) /\ (u = x \/ (u # x /\ u <= i /\ -l \in T))
    <3>1. \A u \in Used(f) : u <= i - 1 => u <= i
      BY <1>0
    <3>2. i <= i
      BY <1>0
    <3> QED BY <1>1, <1>4, <2>2, <3>1, <3>2
  <2>9. ASSUME NEW u \in Used(f) \ {x}, u <= i, -LitOf(f, u) \in T
        PROVE  LitOf(f, u) \in q.lits
    <3>1. u = i \/ u <= i - 1
      BY <1>0, <2>9
    <3> QED BY <1>1, <1>4, <2>2, <2>9, <3>1
  <2> QED BY <1>1, <1>q, <1>3, <2>2, <2>7, <2>8, <2>9 DEF Chosen
<1>5. CASE ~(i \in Used(f) \ {x} /\ -lit \in T /\ r.rest >= 0)
  <2>1. q = r
    BY <1>5, <1>q DEF TakeFalse, IsFalseLit, NeedsMore
  <2>2. \A u \in Used(f) : u <= i - 1 => u <= i
    BY <1>0
  <2>3. ASSUME NEW u \in Used(f) \ {x}, u <= i, -LitOf(f, u) \in T, r.rest >= 0
        PROVE  LitOf(f, u) \in r.lits
    <3>1. u # i
      BY <1>5, <2>3
    <3>2. u <= i - 1
      BY <1>0, <2>3, <3>1
    <3> QED BY <1>1, <2>3, <3>2
  <2>4. \A l \in r.lits :
           \E u \in Used(f) : l = LitOf(f, u) /\ (u = x \/ (u # x /\ u <= i /\ -l \in T))
    BY <1>1, <2>2
  <2> QED BY <1>1, <1>q, <2>1, <2>3, <2>4 DEF Chosen
<1> QED BY <1>4, <1>5

(* What rounding makes of f: a clause of the literal of x and false ones. *)
Rounded(g, f, x, T) ==
  /\ g \in Forms /\ g.k = 1 /\ x \in Used(g) /\ LitOf(g, x) = LitOf(f, x)
  /\ \A v \in Used(g) : /\ Weights(g)[v] = 1 /\ v \in Used(f) /\ LitOf(g, v) = LitOf(f, v)
                        /\ v # x => -LitOf(g, v) \in T

(* A constraint that propagates a literal is weakened to a clause that it implies,
   of that literal and false ones (fixRoundingProblemSAT). *)
THEOREM FixRoundingRight ==
  ASSUME NEW f \in Forms, NEW x \in Used(f), NEW s, SlackUnder(f, TrueLits(s)) < Weights(f)[x],
         {x, -x} \cap TrueLits(s) = {}, NEW g, g = FixRounding(f, x, s)
  PROVE  /\ Rounded(g, f, x, TrueLits(s))
         /\ \A S : Complete(S) /\ Admits(f, S) => Admits(g, S)
<1> DEFINE T == TrueLits(s)
<1>0. NumVars \in Nat \ {0} /\ Vars = 1 .. NumVars /\ Used(f) \subseteq Vars /\ x \in Vars
  BY VarsAssumption, FormFacts DEF Vars
<1>1. PICK n0 : n0 = SumFunctionOnSet(Weights(f), Used(f) \ {x}) - f.k
  OBVIOUS
<1>2. n0 = Weight(f, Lits \ {LitOf(f, x)}) - f.k /\ n0 \in Int
  <2>1. Weight(f, Lits \ {LitOf(f, x)}) \in Nat /\ f.k \in Int
    BY FormFacts
  <2> QED BY <1>1, <2>1, RestIs
<1>3. PICK h \in [0 .. NumVars -> Choice] :
         /\ h[0] = [lits |-> {LitOf(f, x)}, rest |-> n0]
         /\ \A i \in 1 .. NumVars : h[i] = TakeFalse(f, x, s, h[i - 1], i)
         /\ g = ClauseForm(h[NumVars].lits)
  BY <1>1, <1>2, FixRoundingSteps
<1> DEFINE I == {i \in 0 .. NumVars : Chosen(f, x, T, h[i], i)}
<1>4. 0 \in I
  <2>0. 0 \in 0 .. NumVars
    BY <1>0
  <2>1. h[0] \in Choice /\ h[0].lits = {LitOf(f, x)} /\ h[0].rest = n0
    <3>1. PICK b : b = [lits |-> {LitOf(f, x)}, rest |-> n0]
      OBVIOUS
    <3>2. b.lits = {LitOf(f, x)} /\ b.rest = n0
      BY <3>1
    <3> QED BY <2>0, <1>3, <3>1, <3>2
  <2>2. \A u \in Used(f) : ~(u <= 0)
    <3>1. \A u \in Used(f) : u \in 1 .. NumVars
      BY <1>0
    <3> QED BY <3>1, <1>0
  <2>3. Chosen(f, x, T, h[0], 0)
    BY <1>2, <2>1, <2>2 DEF Chosen
  <2> QED BY <1>0, <2>3
<1>5. ASSUME NEW i \in 1 .. NumVars, i - 1 \in I PROVE i \in I
  <2>1. Chosen(f, x, T, h[i - 1], i - 1) /\ h[i] = TakeFalse(f, x, s, h[i - 1], i)
    BY <1>3, <1>5
  <2>2. Chosen(f, x, T, h[i], i)
    BY <1>0, <2>1, TakeFalseChooses
  <2> QED BY <1>0, <2>2
<1>6. NumVars \in I
  <2> HIDE DEF I
  <2>1. Inductive(NumVars, I)
    BY <1>0, <1>4, <1>5 DEF Inductive
  <2> QED BY <2>1, InductionUpTo
<1>7. PICK r : r = h[NumVars]
  OBVIOUS
<1>8. /\ r \in Choice /\ LitOf(f, x) \in r.lits /\ g = ClauseForm(r.lits)
      /\ \A l \in r.lits :
           \E u \in Used(f) : l = LitOf(f, u) /\ (u = x \/ (u # x /\ -l \in T))
      /\ r.rest = Weight(f, Lits \ r.lits) - f.k
      /\ r.rest >= 0 =>
           \A u \in Used(f) \ {x} : -LitOf(f, u) \in T => LitOf(f, u) \in r.lits
  <2>1. \A u \in Used(f) : u <= NumVars
    BY <1>0
  <2> QED BY <1>3, <1>6, <1>7, <2>1 DEF Chosen
<1>9. \A u \in Vars : LitOf(f, u) \in {u, -u} /\ LitOf(f, u) \in Lits /\ Magnitude(LitOf(f, u)) = u
  <2>1. \A u \in Vars : LitOf(f, u) \in {u, -u} /\ LitOf(f, u) \in Lits
    BY FormFacts
  <2>2. \A u \in Vars : Magnitude(u) = u /\ Magnitude(-u) = u
    BY VarFacts
  <2> QED BY <2>1, <2>2
<1>10. Unopposed(r.lits)
  <2>1. r.lits \subseteq Lits
    BY <1>8 DEF Choice
  <2>2. ASSUME NEW l \in r.lits, -l \in r.lits PROVE FALSE
    <3>1. PICK u \in Used(f) : l = LitOf(f, u)
      BY <1>8
    <3>2. PICK v \in Used(f) : -l = LitOf(f, v)
      BY <1>8, <2>2
    <3>3. Magnitude(-l) = Magnitude(l) /\ -l # l
      BY <2>1, VarFacts
    <3> QED BY <1>0, <1>9, <3>1, <3>2, <3>3
  <2> QED BY <2>1, <2>2 DEF Unopposed
<1>11. /\ g \in Forms /\ g.k = 1
       /\ \A v \in Used(g) : LitOf(g, v) \in r.lits /\ Weights(g)[v] = 1
       /\ \A l \in r.lits : Magnitude(l) \in Used(g) /\ LitOf(g, Magnitude(l)) = l
       /\ \A S : Admits(g, S) <=> r.lits \cap S # {}
  BY <1>8, <1>10, ClauseFormRight
<1>12. x \in Used(g) /\ LitOf(g, x) = LitOf(f, x)
  BY <1>0, <1>8, <1>9, <1>11
<1>13. ASSUME NEW v \in Used(g)
       PROVE  v \in Used(f) /\ LitOf(g, v) = LitOf(f, v) /\ (v # x => -LitOf(g, v) \in T)
  <2>1. PICK u \in Used(f) : LitOf(g, v) = LitOf(f, u) /\ (u = x \/ -LitOf(g, v) \in T)
    BY <1>8, <1>11
  <2>2. v \in Vars /\ LitOf(g, v) \in {v, -v}
    BY <1>11, FormFacts
  <2>3. Magnitude(LitOf(g, v)) = v
    BY <2>2, VarFacts
  <2>4. u = v
    BY <1>0, <1>9, <2>1, <2>3
  <2> QED BY <2>1, <2>4
<1>14. r.rest < 0
  <2> SUFFICES ASSUME r.rest >= 0 PROVE FALSE
    <3>1. r.rest \in Int
      BY <1>8 DEF Choice
    <3> QED BY <3>1
  <2> DEFINE S == {l \in Lits : -l \notin T}
  <2>1. SlackUnder(f, T) = Weight(f, S) - f.k
    BY SlackIsWeight
  <2>2. LitOf(f, x) \in S
    <3>1. LitOf(f, x) \in {x, -x} /\ LitOf(f, x) \in Lits /\ -(-x) = x
      BY <1>0, <1>9, VarFacts
    <3> QED BY <3>1
  <2>3. Weight(f, S \ {LitOf(f, x)}) = Weight(f, S) - Weights(f)[x]
    BY <2>2, WeightWithout
  <2>4. \A u \in Used(f) : LitOf(f, u) \in Lits \ r.lits => LitOf(f, u) \in S \ {LitOf(f, x)}
    BY <1>8
  <2>5. Weight(f, Lits \ r.lits) <= Weight(f, S \ {LitOf(f, x)})
    <3> HIDE DEF S
    <3> QED BY <2>4, WeightMono
  <2>6. Weight(f, Lits \ r.lits) \in Nat /\ Weight(f, S) \in Nat /\ f.k \in Int /\ Weights(f)[x] \in Nat
    BY <1>0, FormFacts
  <2> HIDE DEF S
  <2> QED BY <1>8, <2>1, <2>3, <2>5, <2>6
<1>15. ASSUME NEW S, Complete(S), Admits(f, S) PROVE Admits(g, S)
  <2> SUFFICES ASSUME r.lits \cap S = {} PROVE FALSE
    BY <1>11
  <2>1. \A u \in Used(f) : LitOf(f, u) \in S => LitOf(f, u) \in Lits \ r.lits
    BY <1>0, <1>9
  <2>2. Weight(f, S) <= Weight(f, Lits \ r.lits)
    BY <2>1, WeightMono
  <2>3. Weight(f, Lits \ r.lits) \in Nat /\ Weight(f, S) \in Nat /\ f.k \in Int
    BY FormFacts
  <2> QED BY <1>8, <1>14, <1>15, <2>2, <2>3 DEF Admits
<1> QED BY <1>11, <1>12, <1>13, <1>15 DEF Rounded

-----------------------------------------------------------------------------
(* f propagates its literal of x when the literals in T are true. *)
Pushes(f, x, T) ==
  /\ f \in Forms /\ x \in Used(f) /\ {x, -x} \cap T = {}
  /\ SlackUnder(f, T) < Weights(f)[x]

LEMMA RoundedPushes ==
  ASSUME NEW f, NEW x, NEW T, Pushes(f, x, T), NEW g, Rounded(g, f, x, T)
  PROVE  Pushes(g, x, T) /\ Over(g, Free(T)) = 0
<1>1. /\ g \in Forms /\ g.k = 1 /\ x \in Used(g) /\ x \in Vars /\ LitOf(g, x) \in {x, -x}
      /\ \A v \in Used(g) : v \in Vars /\ Weights(g)[v] = 1 /\ (v # x => -LitOf(g, v) \in T)
      /\ LitOf(g, x) \in Lits
  BY FormFacts DEF Rounded
<1>2. PICK F, G : F = Free(T) /\ G = Gains(g, F)
  OBVIOUS
<1>3. LitOf(g, x) \in F /\ -(-x) = x
  <2>1. -LitOf(g, x) \in {x, -x} /\ -(-x) = x
    BY <1>1, VarFacts
  <2> QED BY <1>1, <1>2, <2>1 DEF Pushes, Free
<1>4. \A v \in Used(g) : v # x => LitOf(g, v) \notin F
  BY <1>1, <1>2 DEF Free
<1>5. G \in [Vars -> Int] /\ G[x] = 1 /\ \A v \in Vars \ {x} : G[v] = 0
  BY <1>1, <1>2, <1>3, <1>4, FormFacts
<1>6. Total(G) = 1
  <2>1. PICK z : z = [v \in Vars |-> 0]
    OBVIOUS
  <2>2. z \in [Vars -> Int] /\ \A v \in Vars : z[v] = 0
    BY <2>1
  <2>3. Total(z) = 0
    BY <2>2, TotalZero
  <2>4. Total(G) = Total(z) + G[x] - z[x]
    BY <1>1, <1>5, <2>2, TotalUpdate
  <2> QED BY <1>1, <1>5, <2>2, <2>3, <2>4
<1>7. Weight(g, F) = 1
  BY <1>2, <1>6 DEF Weight
<1>8. Over(g, F) = 0
  BY <1>1, <1>7 DEF Over
<1>9. SlackUnder(g, T) = Weight(g, F) - g.k
  BY <1>1, <1>2, SlackIsWeight DEF Free
<1> QED BY <1>1, <1>2, <1>7, <1>8, <1>9 DEF Pushes

LEMMA UnitMultiplier ==
  Multiplier(1, 1) = 1
<1> DEFINE D == {d \in 1 .. Lesser(1, 1) : 1 % d = 0 /\ 1 % d = 0}
<1>1. Lesser(1, 1) = 1
  BY DEF Lesser
<1>2. 1 % 1 = 0
  OBVIOUS
<1>3. 1 \in D /\ \A d \in D : d = 1
  BY <1>1, <1>2
<1>4. GCD(1, 1) = Max(D)
  BY DEF GCD
<1> HIDE DEF D
<1>5. Max(D) \in D
  <2>1. PICK lo, hi : lo = 1 /\ hi = 1
    OBVIOUS
  <2>2. Within(D, lo, hi)
    BY <1>3, <2>1 DEF Within
  <2> QED BY <1>3, <2>2, MaxOf
<1>6. GCD(1, 1) = 1
  BY <1>3, <1>4, <1>5
<1>7. 1 \div 1 = 1
  OBVIOUS
<1> QED BY <1>6, <1>7 DEF Multiplier

(* Two clauses that are opposed in x, and nothing else. *)
LEMMA ClausesCut ==
  ASSUME NEW T, Covers(Free(T)), NEW x \in Vars,
         NEW f1, NEW c1, Rounded(c1, f1, x, T), NEW f2, NEW c2, Rounded(c2, f2, x, T),
         Opposed(c1, c2, x), NEW cut, cut = ApplyCut(x, c1, c2)
  PROVE  ~cut.overflow
<1>1. /\ c1 \in Forms /\ c1.k = 1 /\ c2 \in Forms /\ c2.k = 1
      /\ x \in Used(c1) /\ x \in Used(c2)
      /\ \A v \in Used(c1) : v \in Vars /\ Weights(c1)[v] = 1 /\ (v # x => -LitOf(c1, v) \in T)
      /\ \A v \in Used(c2) : v \in Vars /\ Weights(c2)[v] = 1 /\ (v # x => -LitOf(c2, v) \in T)
  BY FormFacts DEF Rounded
<1>2. /\ \A v \in Vars : c1.w[v] \in Int /\ c2.w[v] \in Int
      /\ Weights(c1)[x] = Magnitude(c1.w[x]) /\ Weights(c2)[x] = Magnitude(c2.w[x])
  BY <1>1, FormFacts
<1>3. Magnitude(c1.w[x]) = 1 /\ Magnitude(c2.w[x]) = 1
  BY <1>1, <1>2
<1>4. PICK m1, m2 : /\ m1 = Multiplier(Magnitude(c1.w[x]), Magnitude(c2.w[x]))
                    /\ m2 = Multiplier(Magnitude(c2.w[x]), Magnitude(c1.w[x]))
  OBVIOUS
<1>5. m1 = 1 /\ m2 = 1
  BY <1>3, <1>4, UnitMultiplier
<1>6. PICK f : f = Combined(c1, c2, m1, m2)
  OBVIOUS
<1>7. PICK B : IsSumOf(f, B, c1, c2, m1, m2)
  <2>1. m1 \in Nat \ {0} /\ m2 \in Nat \ {0}
    BY <1>5
  <2> QED BY <1>1, <1>6, <2>1, CombinedForm
<1>8. /\ f \in Forms /\ B \in [Vars -> Int]
      /\ \A v \in Vars : B[v] = Common(m1 * c1.w[v], m2 * c2.w[v])
      /\ f.k = m1 * c1.k + m2 * c2.k - Total(B)
  BY <1>7 DEF IsSumOf
<1>9. \A v \in Vars : B[v] = Common(c1.w[v], c2.w[v])
  <2> SUFFICES ASSUME NEW v \in Vars PROVE B[v] = Common(c1.w[v], c2.w[v])
    OBVIOUS
  <2>1. m1 * c1.w[v] = c1.w[v] /\ m2 * c2.w[v] = c2.w[v]
    BY <1>2, <1>5
  <2> QED BY <1>8, <2>1, Zenon
<1>10. B[x] = 1
  BY <1>2, <1>3, <1>9 DEF Common, Opposed, Magnitude, Lesser
<1>11. ASSUME NEW v \in Vars \ {x} PROVE B[v] = 0
  <2>1. CASE v \in Used(c1) /\ v \in Used(c2)
    <3>1. -LitOf(c1, v) \in T /\ -LitOf(c2, v) \in T
      BY <1>1, <1>11, <2>1
    <3>2. -v \in Lits /\ v \in Lits /\ -(-v) = v
      BY VarFacts
    <3>3. ~(v \in T /\ -v \in T)
      BY <3>2 DEF Covers, Free
    <3>4. LitOf(c1, v) = LitOf(c2, v)
      BY <1>1, <3>1, <3>2, <3>3, FormFacts
    <3>5. v # -v
      BY VarFacts
    <3> QED BY <1>2, <1>9, <3>4, <3>5 DEF Common, LitOf
  <2>2. CASE v \notin Used(c1) \/ v \notin Used(c2)
    <3>1. c1.w[v] = 0 \/ c2.w[v] = 0
      BY <2>2 DEF Used
    <3> QED BY <1>2, <1>9, <3>1 DEF Common
  <2> QED BY <2>1, <2>2
<1>12. Total(B) = 1
  <2>1. PICK z : z = [v \in Vars |-> 0]
    OBVIOUS
  <2>2. z \in [Vars -> Int] /\ \A v \in Vars : z[v] = 0
    BY <2>1
  <2>3. Total(z) = 0
    BY <2>2, TotalZero
  <2>4. Total(B) = Total(z) + B[x] - z[x]
    BY <1>8, <1>11, <2>2, TotalUpdate
  <2> QED BY <1>10, <2>2, <2>3, <2>4
<1>13. f.k = 1
  BY <1>1, <1>5, <1>8, <1>12
<1>14. PICK n : n = Normed(f)
  OBVIOUS
<1>15. ~n.overflow
  BY <1>8, <1>13, <1>14, NormedRight
<1>16. cut.overflow = n.overflow
  BY <1>4, <1>6, <1>14 DEF ApplyCut
<1> QED BY <1>15, <1>16

(* A form that the literals in T falsify. *)
IsFalsified(f, T) == f \in Forms /\ f.k \in Nat \ {0} /\ SlackUnder(f, T) < 0

(* Every assignment that satisfies f and g satisfies h. *)
Implies(f, g, h) == \A S : Complete(S) /\ Admits(f, S) /\ Admits(g, S) => Admits(h, S)

LEMMA PushesOver ==
  ASSUME NEW f, NEW x, NEW T, Pushes(f, x, T)
  PROVE  /\ Over(f, Free(T)) < Weights(f)[x] /\ SlackUnder(f, T) = Over(f, Free(T))
         /\ x \in Vars /\ x \in Free(T) /\ -x \in Free(T)
<1>1. SlackUnder(f, T) = Over(f, Free(T))
  BY SlackIsWeight DEF Pushes, Over, Free
<1>2. x \in Vars
  BY FormFacts DEF Pushes
<1>3. x \in Lits /\ -x \in Lits /\ -(-x) = x
  BY <1>2, VarFacts
<1> QED BY <1>1, <1>2, <1>3 DEF Pushes, Free

LEMMA FixPushes ==
  ASSUME NEW f, NEW x, NEW s, Pushes(f, x, TrueLits(s)), NEW g, g = FixRounding(f, x, s)
  PROVE  /\ Rounded(g, f, x, TrueLits(s)) /\ Pushes(g, x, TrueLits(s)) /\ Over(g, Free(TrueLits(s))) = 0
         /\ \A S : Complete(S) /\ Admits(f, S) => Admits(g, S)
<1>1. Rounded(g, f, x, TrueLits(s)) /\ \A S : Complete(S) /\ Admits(f, S) => Admits(g, S)
  BY FixRoundingRight DEF Pushes
<1> QED BY <1>1, RoundedPushes

LEMMA OpposedLits ==
  ASSUME NEW x \in Vars, NEW f1 \in Forms, NEW f2 \in Forms, x \in Used(f1), x \in Used(f2)
  PROVE  Opposed(f1, f2, x) <=> LitOf(f1, x) # LitOf(f2, x)
<1>1. f1.w[x] \in Int /\ f2.w[x] \in Int /\ f1.w[x] # 0 /\ f2.w[x] # 0
  BY FormFacts DEF Used
<1>2. x # -x
  BY VarFacts
<1> QED BY <1>1, <1>2 DEF Opposed, LitOf

(* A cut of forms of which one is not over its constant. *)
LEMMA CutRefutes ==
  ASSUME NEW T, Covers(Free(T)), NEW x, NEW c1, NEW c2, Pushes(c1, x, T), Pushes(c2, x, T),
         Opposed(c1, c2, x), NEW cut, cut = ApplyCut(x, c1, c2), ~cut.overflow,
         Over(c1, Free(T)) <= 0 \/ Over(c2, Free(T)) <= 0
  PROVE  IsFalsified(cut.form, T) /\ Implies(c1, c2, cut.form)
<1>1. c1 \in Forms /\ c2 \in Forms
  BY DEF Pushes
<1>2. /\ Over(c1, Free(T)) < Weights(c1)[x] /\ Over(c2, Free(T)) < Weights(c2)[x]
      /\ x \in Free(T) /\ -x \in Free(T)
  BY PushesOver
<1>3. Propagating(c1, c2, Free(T), x) \/ Propagating(c2, c1, Free(T), x)
  BY <1>2 DEF Propagating
<1>4. /\ cut.form \in Forms /\ cut.form.k \in Nat \ {0}
      /\ ~Admits(cut.form, Free(T))
      /\ \A S : Complete(S) /\ Admits(c1, S) /\ Admits(c2, S) => Admits(cut.form, S)
  BY <1>1, <1>2, <1>3, ApplyCutRight
<1>5. SlackUnder(cut.form, T) = Weight(cut.form, Free(T)) - cut.form.k
  BY <1>4, SlackIsWeight DEF Free
<1>6. Weight(cut.form, Free(T)) \in Nat /\ cut.form.k \in Nat
  BY <1>4, FormFacts
<1>7. SlackUnder(cut.form, T) < 0
  BY <1>4, <1>5, <1>6 DEF Admits
<1> QED BY <1>4, <1>7 DEF IsFalsified, Implies

(* The cut that analysis ends with is implied by the conflicting constraint and
   the reason, and is falsified once the literal is popped: of the three cuts
   tried, the last is of two clauses, and cannot fail
   (conflictAnalysisAndBackjump). *)
THEOREM FalsifiedCutRight ==
  ASSUME NEW s, Covers(Free(TrueLits(s))), NEW x, NEW conf, NEW reas,
         Pushes(conf, x, TrueLits(s)), Pushes(reas, x, TrueLits(s)), Opposed(conf, reas, x),
         NEW cut, cut = FalsifiedCut(x, conf, reas, s)
  PROVE  IsFalsified(cut.form, TrueLits(s)) /\ Implies(conf, reas, cut.form)
<1>T. PICK T : T = TrueLits(s)
  OBVIOUS
<1> DEFINE Sound1(g, f) == \A S : Complete(S) /\ Admits(f, S) => Admits(g, S)
<1>0. x \in Vars /\ conf \in Forms /\ reas \in Forms /\ x \in Used(conf) /\ x \in Used(reas)
  BY PushesOver DEF Pushes
<1>1. ASSUME NEW f, Pushes(f, x, T), NEW g, g = FixRounding(f, x, s)
      PROVE  /\ Rounded(g, f, x, T) /\ Pushes(g, x, T) /\ Over(g, Free(T)) = 0 /\ Sound1(g, f)
             /\ g \in Forms /\ x \in Used(g) /\ LitOf(g, x) = LitOf(f, x)
  <2>1. Rounded(g, f, x, T) /\ Pushes(g, x, T) /\ Over(g, Free(T)) = 0 /\ Sound1(g, f)
    BY <1>T, <1>1, FixPushes
  <2> HIDE DEF Sound1
  <2> QED BY <2>1 DEF Rounded
<1>2. PICK longer : longer = (Size(reas) > Size(conf))
  OBVIOUS
<1>3. PICK conf2, reas2 : /\ conf2 = IF longer THEN conf ELSE FixRounding(conf, x, s)
                          /\ reas2 = IF longer THEN FixRounding(reas, x, s) ELSE reas
  OBVIOUS
<1>4. PICK conf3, reas3 : conf3 = FixRounding(conf2, x, s) /\ reas3 = FixRounding(reas2, x, s)
  OBVIOUS
<1>5. PICK first, second, third : /\ first = ApplyCut(x, conf, reas)
                                  /\ second = ApplyCut(x, conf2, reas2)
                                  /\ third = ApplyCut(x, conf3, reas3)
  OBVIOUS
<1>6. cut = IF Enough(first, s) THEN first
            ELSE IF ~second.overflow THEN [second EXCEPT !.fits = @ /\ first.fits]
            ELSE [third EXCEPT !.fits = @ /\ first.fits /\ second.fits]
  <2>1. cut = IF Enough(ApplyCut(x, conf, reas), s) THEN ApplyCut(x, conf, reas)
            ELSE IF ~ApplyCut(x, conf2, reas2).overflow
                 THEN [ApplyCut(x, conf2, reas2) EXCEPT !.fits = @ /\ ApplyCut(x, conf, reas).fits]
            ELSE [ApplyCut(x, conf3, reas3) EXCEPT !.fits = @ /\ ApplyCut(x, conf, reas).fits
                                                          /\ ApplyCut(x, conf2, reas2).fits]
    BY <1>2, <1>3, <1>4 DEF FalsifiedCut
  <2> QED BY <1>5, <2>1
<1>7. cut.form = IF Enough(first, s) THEN first.form
                 ELSE IF ~second.overflow THEN second.form ELSE third.form
  BY <1>5, <1>6 DEF ApplyCut
<1>8. CASE Enough(first, s)
  <2>1. ~first.overflow /\ SlackUnder(first.form, T) < 0
    BY <1>8, <1>T DEF Enough, Slack
  <2>2. /\ first.form \in Forms /\ first.form.k \in Nat \ {0}
        /\ \A S : Complete(S) /\ Admits(conf, S) /\ Admits(reas, S) => Admits(first.form, S)
    BY <1>0, <1>5, <2>1, ApplyCutRight
  <2> QED BY <1>7, <1>8, <1>T, <2>1, <2>2 DEF IsFalsified, Implies
<1>9. /\ Pushes(conf2, x, T) /\ Pushes(reas2, x, T) /\ Opposed(conf2, reas2, x)
      /\ Over(conf2, Free(T)) <= 0 \/ Over(reas2, Free(T)) <= 0
      /\ Sound1(conf2, conf) /\ Sound1(reas2, reas)
  <2>1. CASE longer
    <3>1. conf2 = conf /\ reas2 = FixRounding(reas, x, s)
      BY <1>3, <2>1
    <3>2. Pushes(reas2, x, T) /\ Over(reas2, Free(T)) = 0 /\ Sound1(reas2, reas)
          /\ reas2 \in Forms /\ x \in Used(reas2) /\ LitOf(reas2, x) = LitOf(reas, x)
      BY <1>1, <1>T, <3>1
    <3>3. Opposed(conf2, reas2, x)
      BY <1>0, <3>1, <3>2, OpposedLits
    <3> QED BY <1>T, <3>1, <3>2, <3>3
  <2>2. CASE ~longer
    <3>1. reas2 = reas /\ conf2 = FixRounding(conf, x, s)
      BY <1>3, <2>2
    <3>2. Pushes(conf2, x, T) /\ Over(conf2, Free(T)) = 0 /\ Sound1(conf2, conf)
          /\ conf2 \in Forms /\ x \in Used(conf2) /\ LitOf(conf2, x) = LitOf(conf, x)
      BY <1>1, <1>T, <3>1
    <3>3. Opposed(conf2, reas2, x)
      BY <1>0, <3>1, <3>2, OpposedLits
    <3> QED BY <1>T, <3>1, <3>2, <3>3
  <2> QED BY <2>1, <2>2
<1>10. CASE ~Enough(first, s) /\ ~second.overflow
  <2>1. IsFalsified(second.form, T) /\ Implies(conf2, reas2, second.form)
    BY <1>5, <1>9, <1>10, <1>T, CutRefutes
  <2>2. Implies(conf, reas, second.form)
    BY <1>9, <2>1 DEF Implies
  <2> QED BY <1>7, <1>10, <1>T, <2>1, <2>2
<1>11. CASE ~Enough(first, s) /\ second.overflow
  <2>1. /\ Rounded(conf3, conf2, x, T) /\ Pushes(conf3, x, T) /\ Over(conf3, Free(T)) = 0 /\ Sound1(conf3, conf2)
        /\ conf3 \in Forms /\ x \in Used(conf3) /\ LitOf(conf3, x) = LitOf(conf2, x)
    BY <1>1, <1>4, <1>9
  <2>2. /\ Rounded(reas3, reas2, x, T) /\ Pushes(reas3, x, T) /\ Over(reas3, Free(T)) = 0 /\ Sound1(reas3, reas2)
        /\ reas3 \in Forms /\ x \in Used(reas3) /\ LitOf(reas3, x) = LitOf(reas2, x)
    BY <1>1, <1>4, <1>9
  <2>3. Opposed(conf3, reas3, x)
    <3>1. conf2 \in Forms /\ reas2 \in Forms /\ x \in Used(conf2) /\ x \in Used(reas2)
      BY <1>9 DEF Pushes
    <3> QED BY <1>0, <1>9, <2>1, <2>2, <3>1, OpposedLits
  <2>4. ~third.overflow
    BY <1>0, <1>5, <1>T, <2>1, <2>2, <2>3, ClausesCut
  <2>5. IsFalsified(third.form, T) /\ Implies(conf3, reas3, third.form)
    BY <1>5, <1>T, <2>1, <2>2, <2>3, <2>4, CutRefutes
  <2>6. Implies(conf, reas, third.form)
    BY <1>9, <2>1, <2>2, <2>5 DEF Implies
  <2> QED BY <1>7, <1>11, <1>T, <2>5, <2>6
<1> QED BY <1>8, <1>10, <1>11
=============================================================================
