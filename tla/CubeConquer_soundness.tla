------------------------ MODULE CubeConquer_soundness ------------------------
(***************************************************************************)
(* Proofs about CubeConquer: what the processes tell each other is true,   *)
(* so that no better solution is lost, nobody prunes without a reason, and *)
(* the result announced is right, for every problem and every number of    *)
(* processes.                                                              *)
(***************************************************************************)
EXTENDS CubeConquer_proofs

-----------------------------------------------------------------------------
(***************************************************************************)
(* What a message says.                                                    *)
(***************************************************************************)

(* The cost a message tells the master; Inf if it tells none. *)
CostIn(m) ==
  IF m.tag = "BOUNDS" THEN m.ub
  ELSE IF m.tag = "RESULT" /\ (m.code \in {25, 26} \/ (m.code = 10 /\ Optimizing)) THEN m.cost
  ELSE Inf

(* A cost no larger than c is the incumbent's inc, or is told by the first i
   messages of the channel ch. *)
KnownTo(inc, ch, i, c) == inc <= c \/ \E j \in 1 .. i : CostIn(ch[j]) <= c

(* ... or by any of them. *)
Vouched(inc, ch, c) == KnownTo(inc, ch, Len(ch), c)

(* The solutions that do not improve on such a cost. *)
Settled(inc, ch, i) == {s \in Sol : KnownTo(inc, ch, i, Cost[s])}

(* The learned constraints and the lower bound of a task cut off no solution of
   its cube that is better than inc. *)
TaskSoundTo(inc, task) ==
  \A s \in task.region : s \in task.excl \/ Cost[s] < task.lb => inc <= Cost[s]

(* What worker w claims with a message, when R are the solutions it is in charge
   of and S those that its messages, up to this one, have settled. *)
ResultClaim(m, w, R, S) ==
  /\ m.code \in {10, 20, 25, 26, 30}
  /\ w = Original => m.code \in {10, 20, 26}
  /\ m.code \in {25, 26} => Optimizing
  /\ m.code \in {25, 26} \/ (m.code = 10 /\ Optimizing) => m.cost < Inf
  /\ m.code = 10 => Sol # {}
  /\ m.code = 20 \/ (m.code = 10 /\ Optimizing) => R \subseteq S
  /\ m.code = 30 => /\ R \ UNION m.parts \subseteq S
                    /\ R \cap m.excl \subseteq S
                    /\ UNION m.parts \subseteq R

Claim(m, w, R, S) ==
  /\ m.tag = "INIT_RESULT" =>
       IF m.sat THEN ~Optimizing /\ Sol # {} ELSE Share[w] \subseteq UNION m.parts
  /\ m.tag = "BOUNDS" => Optimizing /\ \A s \in R \ S : m.lb <= Cost[s]
  /\ m.tag = "LEARNED_UPDATE" => m.excl \subseteq S
  /\ m.tag = "RESULT" => ResultClaim(m, w, R, S)

(* Every message on its way to the master says what is true by the time the
   master receives it: after all it was sent before. *)
ClaimsHold(inc, ch, w, R) == \A i \in 1 .. Len(ch) : Claim(ch[i], w, R, Settled(inc, ch, i))

(* What is on its way to a worker: incumbents no better than the master's,
   better and better, and no worse than what it imported before; and tasks that
   are the ones it is in charge of. *)
RepliesHold(inc, imp, ch, R) ==
  /\ \A i \in 1 .. Len(ch) : ch[i].tag # "STOP" => inc <= ch[i].best /\ ch[i].best <= imp
  /\ \A i, j \in 1 .. Len(ch) :
       i < j /\ ch[i].tag # "STOP" /\ ch[j].tag # "STOP" => ch[j].best <= ch[i].best
  /\ \A i \in 1 .. Len(ch) :
       ch[i].tag = "WORK" => ch[i].task.region = R /\ TaskSoundTo(inc, ch[i].task)

-----------------------------------------------------------------------------
(***************************************************************************)
(* The invariant.                                                          *)
(***************************************************************************)

(* The solutions worker w is in charge of: by the master's books. *)
Charge(w) ==
  IF w = Original THEN Sol ELSE IF cubeOf[w] = None THEN {} ELSE cubeOf[w].region

VouchedBy(w, c) == Vouched(best, toMaster[w], c)

(* A solver works on the cube its worker is in charge of, and has told the cost
   of whatever it prunes with, or finds it in its hands and is about to. *)
SolverSound(w) ==
  /\ cube[w].region = Charge(w)
  /\ TaskSoundTo(best, cube[w])
  /\ found[w] # None => Optimizing /\ bound[w] <= Cost[found[w]]
  /\ VouchedBy(w, bound[w]) \/ (found[w] # None /\ Cost[found[w]] = bound[w] /\ pc[w] = "search")
  /\ \A s \in Charge(w) : lower[w] <= Cost[s] \/ VouchedBy(w, Cost[s])
  /\ pc[w] # "search" /\ found[w] # None => reported[w] <= Cost[found[w]]
  /\ bound[w] <= imported[w]

StaticsSound(w) ==
  /\ best <= given[w]
  /\ best <= imported[w]
  /\ VouchedBy(w, reported[w])

WorkerSound(w) ==
  /\ ClaimsHold(best, toMaster[w], w, Charge(w))
  /\ RepliesHold(best, imported[w], toWorker[w], Charge(w))
  /\ StaticsSound(w)
  /\ pc[w] \in Working => SolverSound(w)

(* Tasks, shared constraints and lower bounds cut off nothing better than the
   incumbent. *)
TasksSound == \A task \in Open : TaskSoundTo(best, task)

SharedSound ==
  /\ \A s \in Sol : s \in learned \/ Cost[s] < globalLB => best <= Cost[s]
  /\ \A w \in CubeWorkers : \A s \in Charge(w) : Cost[s] < lbOf[w] => best <= Cost[s]

(* Nothing is lost while cubes are collected, or handed out. *)
CollectSound ==
  phase = "collect" /\ CubeWorkers # {} /\ ~flags.satInGeneration =>
    \A s \in Sol : \/ \E task \in BagToSet(queue) : s \in task.region
                   \/ \E w \in awaited : s \in Share[w]

CoverSound ==
  phase = "serve" /\ CubeWorkers # {} =>
    \A s \in Sol : Cost[s] < best => \E task \in Open : s \in task.region

FlagsSound ==
  /\ flags.feasibleSeen <=> best < Inf
  /\ best < Inf => Optimizing
  /\ flags.satFound \/ flags.satInGeneration => ~Optimizing /\ Sol # {}
  /\ flags.origUnsat => Sol = {}
  /\ flags.origOptimum => Optimizing /\ best < Inf /\ \A s \in Sol : best <= Cost[s]
  /\ ~flags.unknownSeen
  /\ flags.stopSent => phase # "collect" /\ activeWorkers = 0 /\ CubeWorkers # {}
  /\ ~flags.origActive => flags.satFound \/ flags.origUnsat \/ flags.origOptimum
  /\ phase # "done" => verdict = "none"

MasterSound == TasksSound /\ SharedSound /\ CollectSound /\ CoverSound /\ FlagsSound

Sound == MasterSound /\ \A w \in Workers : WorkerSound(w)

-----------------------------------------------------------------------------
(***************************************************************************)
(* Claims and channels.                                                    *)
(***************************************************************************)

LEMMA CostInType ==
  ASSUME NEW m \in ToMasterMsg
  PROVE  CostIn(m) \in Costs /\ CostIn(m) \in Int
BY CostFacts, ToMasterPayload DEF CostIn

LEMMA CostTypes ==
  /\ \A c \in Costs : c \in Int /\ c <= Inf
  /\ \A s \in Sol : Cost[s] \in Int /\ Cost[s] < Inf /\ ObjMin <= Cost[s] /\ NegInf < Cost[s]
  /\ \A c \in Costs : c < Inf => \E s \in Sol : c = Cost[s]
BY ProblemAssumption DEF Costs

(* A claim stays true when more solutions are settled. *)
LEMMA ClaimMonotone ==
  ASSUME NEW m, NEW w, NEW R, NEW S, NEW T, S \subseteq T, Claim(m, w, R, S)
  PROVE  Claim(m, w, R, T)
<1>1. m.tag = "RESULT" => ResultClaim(m, w, R, T)
  BY DEF Claim, ResultClaim
<1> QED BY <1>1 DEF Claim

(* What is known stays known when the incumbent improves. *)
LEMMA ClaimsLower ==
  ASSUME NEW inc \in Int, NEW low \in Int, low <= inc,
         NEW ch \in Seq(ToMasterMsg), NEW w, NEW R
  PROVE  /\ \A i, c \in Int : KnownTo(inc, ch, i, c) => KnownTo(low, ch, i, c)
         /\ \A c \in Int : Vouched(inc, ch, c) => Vouched(low, ch, c)
         /\ ClaimsHold(inc, ch, w, R) => ClaimsHold(low, ch, w, R)
<1>1. \A i, c \in Int : KnownTo(inc, ch, i, c) => KnownTo(low, ch, i, c)
  BY DEF KnownTo
<1>2. Len(ch) \in Int
  BY LenProperties
<1>3. \A c \in Int : Vouched(inc, ch, c) => Vouched(low, ch, c)
  BY <1>1, <1>2 DEF Vouched
<1>4. \A i \in 1 .. Len(ch) : Settled(inc, ch, i) \subseteq Settled(low, ch, i)
  BY <1>1, <1>2, CostTypes DEF Settled
<1>5. ClaimsHold(inc, ch, w, R) => ClaimsHold(low, ch, w, R)
  BY <1>4, ClaimMonotone DEF ClaimsHold
<1> QED BY <1>1, <1>3, <1>5

(* A message that is true of what its sender has told before, and tells itself,
   may be sent. *)
LEMMA ClaimsAppend ==
  ASSUME NEW inc \in Int, NEW ch \in Seq(ToMasterMsg), NEW m \in ToMasterMsg,
         NEW w, NEW R
  PROVE  /\ \A c \in Int : Vouched(inc, Append(ch, m), c) <=> Vouched(inc, ch, c) \/ CostIn(m) <= c
         /\ /\ ClaimsHold(inc, ch, w, R)
            /\ Claim(m, w, R, {s \in Sol : Vouched(inc, ch, Cost[s]) \/ CostIn(m) <= Cost[s]})
            => ClaimsHold(inc, Append(ch, m), w, R)
<1> DEFINE c == Append(ch, m)
<1>1. c \in Seq(ToMasterMsg) /\ Len(c) = Len(ch) + 1 /\ Len(ch) \in Nat
  BY AppendProperties, LenProperties
<1>2. \A i \in 1 .. Len(ch) : c[i] = ch[i]
  BY AppendProperties
<1>3. c[Len(ch) + 1] = m
  BY AppendProperties
<1> HIDE DEF c
<1>4. \A i : i \in 1 .. Len(c) <=> i \in 1 .. Len(ch) \/ i = Len(ch) + 1
  BY <1>1
<1>5. \A i \in 1 .. Len(ch) : \A d : KnownTo(inc, c, i, d) <=> KnownTo(inc, ch, i, d)
  BY <1>1, <1>2 DEF KnownTo
<1>6. \A d \in Int : Vouched(inc, c, d) <=> Vouched(inc, ch, d) \/ CostIn(m) <= d
  BY <1>1, <1>2, <1>3, <1>4 DEF Vouched, KnownTo
<1>7. ASSUME ClaimsHold(inc, ch, w, R),
             Claim(m, w, R, {s \in Sol : Vouched(inc, ch, Cost[s]) \/ CostIn(m) <= Cost[s]}),
             NEW i \in 1 .. Len(c)
      PROVE  Claim(c[i], w, R, Settled(inc, c, i))
  <2>1. CASE i \in 1 .. Len(ch)
    <3>1. Settled(inc, c, i) = Settled(inc, ch, i)
      BY <1>5, <2>1 DEF Settled
    <3> QED BY <1>2, <1>7, <2>1, <3>1 DEF ClaimsHold
  <2>2. CASE i = Len(ch) + 1
    <3>1. Settled(inc, c, i) = {s \in Sol : Vouched(inc, ch, Cost[s]) \/ CostIn(m) <= Cost[s]}
      BY <1>1, <1>6, <2>2, CostTypes DEF Settled, Vouched
    <3> QED BY <1>3, <1>7, <2>2, <3>1
  <2> QED BY <1>4, <2>1, <2>2
<1>8. /\ ClaimsHold(inc, ch, w, R)
      /\ Claim(m, w, R, {s \in Sol : Vouched(inc, ch, Cost[s]) \/ CostIn(m) <= Cost[s]})
      => ClaimsHold(inc, c, w, R)
  BY <1>7 DEF ClaimsHold
<1> QED BY <1>6, <1>8 DEF c

(* What the master knows once it has taken in a message. *)
LEMMA ClaimsTail ==
  ASSUME NEW inc \in Int, NEW low \in Int, low <= inc,
         NEW ch \in Seq(ToMasterMsg), ch # <<>>, low <= CostIn(Head(ch)),
         NEW w, NEW R
  PROVE  /\ \A c \in Int : Vouched(inc, ch, c) => Vouched(low, Tail(ch), c)
         /\ ClaimsHold(inc, ch, w, R) =>
              /\ Claim(Head(ch), w, R, {s \in Sol : low <= Cost[s]})
              /\ ClaimsHold(low, Tail(ch), w, R)
<1> DEFINE c == Tail(ch)
<1>1. c \in Seq(ToMasterMsg) /\ Len(ch) \in Nat \ {0} /\ Len(c) = Len(ch) - 1
  BY HeadTailProperties, EmptySeq
<1>2. \A i \in 1 .. Len(c) : c[i] = ch[i + 1] /\ i + 1 \in 1 .. Len(ch)
  BY <1>1, HeadTailProperties
<1>3. Head(ch) = ch[1] /\ 1 \in 1 .. Len(ch)
  BY <1>1
<1> HIDE DEF c
<1>4. \A i \in 1 .. Len(ch) : CostIn(ch[i]) \in Int
  BY CostInType, ElementOfSeq
<1>5. ASSUME NEW i \in 0 .. Len(c), NEW d \in Int, KnownTo(inc, ch, i + 1, d)
      PROVE  KnownTo(low, c, i, d)
  <2>1. CASE inc <= d
    BY <2>1 DEF KnownTo
  <2>2. ASSUME NEW j \in 1 .. i + 1, CostIn(ch[j]) <= d PROVE KnownTo(low, c, i, d)
    <3>1. CASE j = 1
      BY <1>3, <1>4, <2>2, <3>1 DEF KnownTo
    <3>2. CASE j # 1
      <4>1. j - 1 \in 1 .. i /\ j - 1 \in 1 .. Len(c) /\ (j - 1) + 1 = j
        BY <1>1, <3>2
      <4>2. c[j - 1] = ch[j]
        BY <1>2, <4>1
      <4> QED BY <2>2, <4>1, <4>2 DEF KnownTo
    <3> QED BY <3>1, <3>2
  <2> QED BY <1>5, <2>1, <2>2 DEF KnownTo
<1>6. \A d \in Int : Vouched(inc, ch, d) => Vouched(low, c, d)
  BY <1>1, <1>5 DEF Vouched
<1>7. ASSUME ClaimsHold(inc, ch, w, R) PROVE Claim(Head(ch), w, R, {s \in Sol : low <= Cost[s]})
  <2>1. Settled(inc, ch, 1) \subseteq {s \in Sol : low <= Cost[s]}
    BY <1>1, <1>3, <1>4, CostTypes DEF Settled, KnownTo
  <2> QED BY <1>3, <1>7, <2>1, ClaimMonotone DEF ClaimsHold
<1>8. ASSUME ClaimsHold(inc, ch, w, R) PROVE ClaimsHold(low, c, w, R)
  <2> SUFFICES ASSUME NEW i \in 1 .. Len(c) PROVE Claim(c[i], w, R, Settled(low, c, i))
    BY DEF ClaimsHold
  <2>1. Settled(inc, ch, i + 1) \subseteq Settled(low, c, i)
    BY <1>1, <1>5, CostTypes DEF Settled
  <2> QED BY <1>2, <1>8, <2>1, ClaimMonotone DEF ClaimsHold
<1> QED BY <1>6, <1>7, <1>8 DEF c

(* Nothing is claimed by silence. *)
LEMMA ClaimsNone ==
  ASSUME NEW inc, NEW w, NEW R
  PROVE  ClaimsHold(inc, <<>>, w, R) /\ \A c : Vouched(inc, <<>>, c) <=> inc <= c
BY DEF ClaimsHold, Vouched, KnownTo

(* A better incumbent needs no more of a task. *)
LEMMA TaskLower ==
  ASSUME NEW inc \in Int, NEW low \in Int, low <= inc, NEW task \in Task, TaskSoundTo(inc, task)
  PROVE  TaskSoundTo(low, task)
BY CostTypes DEF TaskSoundTo, Task

LEMMA RepliesNone ==
  ASSUME NEW inc, NEW imp, NEW R
  PROVE  RepliesHold(inc, imp, <<>>, R)
BY DEF RepliesHold

(* The master's incumbent improves. *)
LEMMA RepliesLower ==
  ASSUME NEW inc \in Int, NEW low \in Int, low <= inc, NEW imp,
         NEW ch \in Seq(ToWorkerMsg), NEW R, RepliesHold(inc, imp, ch, R)
  PROVE  RepliesHold(low, imp, ch, R)
<1>1. \A i \in 1 .. Len(ch) : ch[i] \in ToWorkerMsg
  BY ElementOfSeq
<1>2. \A i \in 1 .. Len(ch) : ch[i].tag # "STOP" => ch[i].best \in Int
  BY <1>1, CostFacts DEF ToWorkerMsg, StopMsg, WorkMsg, ReplyMsg
<1>3. \A i \in 1 .. Len(ch) : ch[i].tag # "STOP" => low <= ch[i].best
  BY <1>2 DEF RepliesHold
<1>4. \A i \in 1 .. Len(ch) : ch[i].tag = "WORK" => TaskSoundTo(low, ch[i].task)
  BY <1>1, TaskLower, ToWorkerPayload DEF RepliesHold
<1> QED BY <1>3, <1>4 DEF RepliesHold

(* The master sends its incumbent, or a STOP, or a task. *)
LEMMA RepliesAppend ==
  ASSUME NEW inc \in Int, NEW imp \in Int, inc <= imp,
         NEW ch \in Seq(ToWorkerMsg), NEW R, RepliesHold(inc, imp, ch, R),
         NEW m \in ToWorkerMsg, m.tag # "STOP" => m.best = inc,
         m.tag = "WORK" => m.task.region = R /\ TaskSoundTo(inc, m.task)
  PROVE  RepliesHold(inc, imp, Append(ch, m), R)
<1> DEFINE c == Append(ch, m)
<1>1. Len(c) = Len(ch) + 1 /\ Len(ch) \in Nat
  BY AppendProperties, LenProperties
<1>2. \A i \in 1 .. Len(ch) : c[i] = ch[i]
  BY AppendProperties
<1>3. c[Len(ch) + 1] = m
  BY AppendProperties
<1> HIDE DEF c
<1>4. \A i : i \in 1 .. Len(c) <=> i \in 1 .. Len(ch) \/ i = Len(ch) + 1
  BY <1>1
<1>5. \A i \in 1 .. Len(c) : c[i].tag # "STOP" => inc <= c[i].best /\ c[i].best <= imp
  BY <1>2, <1>3, <1>4 DEF RepliesHold
<1>6. ASSUME NEW i \in 1 .. Len(c), NEW j \in 1 .. Len(c),
             i < j, c[i].tag # "STOP", c[j].tag # "STOP"
      PROVE  c[j].best <= c[i].best
  <2>1. i \in 1 .. Len(ch) /\ c[i] = ch[i]
    BY <1>1, <1>2, <1>6
  <2>2. CASE j \in 1 .. Len(ch)
    BY <1>2, <1>6, <2>1, <2>2 DEF RepliesHold
  <2>3. CASE j = Len(ch) + 1
    BY <1>3, <1>5, <1>6, <2>3
  <2> QED BY <1>4, <2>2, <2>3
<1>7. \A i \in 1 .. Len(c) : c[i].tag = "WORK" => c[i].task.region = R /\ TaskSoundTo(inc, c[i].task)
  BY <1>2, <1>3, <1>4 DEF RepliesHold
<1> QED BY <1>5, <1>6, <1>7 DEF RepliesHold, c

(* Messages that keep their order keep what holds of them. *)
LEMMA RepliesKept ==
  ASSUME NEW inc, NEW imp, NEW ch \in Seq(ToWorkerMsg), NEW R, RepliesHold(inc, imp, ch, R),
         NEW c \in Seq(ToWorkerMsg), NEW at \in [1 .. Len(c) -> 1 .. Len(ch)],
         \A k \in 1 .. Len(c) : c[k] = ch[at[k]],
         \A k, l \in 1 .. Len(c) : k < l => at[k] < at[l]
  PROVE  RepliesHold(inc, imp, c, R)
<1>1. \A k \in 1 .. Len(c) : at[k] \in 1 .. Len(ch) /\ c[k] = ch[at[k]]
  OBVIOUS
<1>2. \A k \in 1 .. Len(c) : c[k].tag # "STOP" => inc <= c[k].best /\ c[k].best <= imp
  BY <1>1 DEF RepliesHold
<1>3. ASSUME NEW k \in 1 .. Len(c), NEW l \in 1 .. Len(c),
             k < l, c[k].tag # "STOP", c[l].tag # "STOP"
      PROVE  c[l].best <= c[k].best
  BY <1>1, <1>3 DEF RepliesHold
<1>4. \A k \in 1 .. Len(c) : c[k].tag = "WORK" => c[k].task.region = R /\ TaskSoundTo(inc, c[k].task)
  BY <1>1 DEF RepliesHold
<1> QED BY <1>2, <1>3, <1>4 DEF RepliesHold

LEMMA RepliesTail ==
  ASSUME NEW inc, NEW imp, NEW ch \in Seq(ToWorkerMsg), NEW R, ch # <<>>,
         RepliesHold(inc, imp, ch, R)
  PROVE  /\ RepliesHold(inc, imp, Tail(ch), R)
         /\ Head(ch).tag # "STOP" =>
              /\ inc <= Head(ch).best /\ Head(ch).best <= imp
              /\ RepliesHold(inc, Head(ch).best, Tail(ch), R)
         /\ Head(ch).tag = "WORK" => Head(ch).task.region = R /\ TaskSoundTo(inc, Head(ch).task)
<1> DEFINE c == Tail(ch)
           at == [k \in 1 .. Len(c) |-> k + 1]
<1>1. c \in Seq(ToWorkerMsg) /\ Len(ch) \in Nat \ {0} /\ Len(c) = Len(ch) - 1
  BY HeadTailProperties, EmptySeq
<1>2. \A k \in 1 .. Len(c) : c[k] = ch[k + 1]
  BY HeadTailProperties
<1>3. Head(ch) = ch[1] /\ 1 \in 1 .. Len(ch)
  BY <1>1
<1> HIDE DEF c
<1>4. at \in [1 .. Len(c) -> 1 .. Len(ch)]
  BY <1>1
<1>5. /\ \A k \in 1 .. Len(c) : c[k] = ch[at[k]] /\ 1 < at[k] /\ at[k] \in 1 .. Len(ch)
      /\ \A k, l \in 1 .. Len(c) : k < l => at[k] < at[l]
  BY <1>1, <1>2
<1> HIDE DEF at
<1>6. RepliesHold(inc, imp, c, R)
  BY <1>1, <1>4, <1>5, RepliesKept
<1>7. ASSUME Head(ch).tag # "STOP"
      PROVE  /\ inc <= Head(ch).best /\ Head(ch).best <= imp
             /\ RepliesHold(inc, Head(ch).best, c, R)
  <2>1. \A k \in 1 .. Len(c) : c[k].tag # "STOP" => c[k].best <= Head(ch).best
    BY <1>3, <1>5, <1>7 DEF RepliesHold
  <2> QED BY <1>3, <1>6, <1>7, <2>1 DEF RepliesHold
<1> QED BY <1>3, <1>6, <1>7 DEF c, RepliesHold

LEMMA RepliesRemove ==
  ASSUME NEW inc, NEW imp, NEW ch \in Seq(ToWorkerMsg), NEW R,
         RepliesHold(inc, imp, ch, R), NEW i \in 1 .. Len(ch)
  PROVE  RepliesHold(inc, imp, RemoveAt(ch, i), R)
<1> DEFINE c == RemoveAt(ch, i)
           at == [k \in 1 .. Len(c) |-> IF k <= i - 1 THEN k ELSE k + 1]
<1>1. Len(ch) \in Nat
  BY LenProperties
<1>2. /\ c \in Seq(ToWorkerMsg) /\ Len(c) = Len(ch) - 1
      /\ \A k \in 1 .. Len(ch) - 1 : c[k] = IF k <= i - 1 THEN ch[k] ELSE ch[k + 1]
  BY RemoveFacts
<1> HIDE DEF c
<1>3. at \in [1 .. Len(c) -> 1 .. Len(ch)]
  BY <1>1, <1>2
<1>4. /\ \A k \in 1 .. Len(c) : c[k] = ch[at[k]]
      /\ \A k, l \in 1 .. Len(c) : k < l => at[k] < at[l]
  BY <1>1, <1>2
<1> HIDE DEF at
<1>5. RepliesHold(inc, imp, c, R)
  BY <1>2, <1>3, <1>4, RepliesKept
<1> QED BY <1>5 DEF c

-----------------------------------------------------------------------------
(***************************************************************************)
(* The workers' steps.                                                     *)
(***************************************************************************)

LEMMA ChargeType ==
  ASSUME MasterOK, NEW w \in Workers
  PROVE  Charge(w) \subseteq Sol
BY WorkerFacts DEF MasterOK, Charge, Task

LEMMA WorkerTypes ==
  ASSUME Inv, NEW w \in Workers
  PROVE  /\ toMaster[w] \in Seq(ToMasterMsg) /\ toWorker[w] \in Seq(ToWorkerMsg)
         /\ best \in Costs /\ best \in Int
         /\ cube[w] \in Task
         /\ given[w] \in Costs /\ given[w] \in Int
         /\ bound[w] \in Costs /\ bound[w] \in Int
         /\ found[w] \in Sol \cup {None}
         /\ lower[w] \in Int
         /\ reported[w] \in Costs /\ reported[w] \in Int
         /\ imported[w] \in Costs /\ imported[w] \in Int
         /\ Charge(w) \subseteq Sol
BY ChargeType, CostFacts DEF Inv, TypeOK, ChannelsOK, MasterOK, WorkersOK

(* Only worker w does something. *)
Alone(w) ==
  /\ UNCHANGED masterVars
  /\ \A v \in Workers \ {w} :
       /\ toMaster'[v] = toMaster[v] /\ toWorker'[v] = toWorker[v]
       /\ pc'[v] = pc[v] /\ cube'[v] = cube[v] /\ given'[v] = given[v]
       /\ bound'[v] = bound[v] /\ found'[v] = found[v] /\ lower'[v] = lower[v]
       /\ reported'[v] = reported[v] /\ imported'[v] = imported[v]

LEMMA MasterAlone ==
  ASSUME MasterSound, UNCHANGED masterVars
  PROVE  MasterSound'
BY DEF MasterSound, TasksSound, SharedSound, CollectSound, CoverSound, FlagsSound, Open,
       Charge, masterVars, ledger, incumbent

(* A worker nothing happens to. *)
LEMMA OtherWorker ==
  ASSUME NEW w \in Workers, WorkerSound(w), best' = best, Charge(w)' = Charge(w),
         toMaster'[w] = toMaster[w], toWorker'[w] = toWorker[w],
         pc'[w] = pc[w], cube'[w] = cube[w], given'[w] = given[w],
         bound'[w] = bound[w], found'[w] = found[w], lower'[w] = lower[w],
         reported'[w] = reported[w], imported'[w] = imported[w]
  PROVE  WorkerSound(w)'
BY DEF WorkerSound, StaticsSound, SolverSound, VouchedBy

LEMMA WorkerAlone ==
  ASSUME Sound, NEW w \in Workers, Alone(w), WorkerSound(w)'
  PROVE  Sound'
<1>1. UNCHANGED masterVars /\ best' = best /\ cubeOf' = cubeOf
  BY DEF Alone, masterVars, ledger, incumbent
<1>2. \A v \in Workers : Charge(v)' = Charge(v)
  BY <1>1 DEF Charge
<1>3. MasterSound'
  BY <1>1, MasterAlone DEF Sound
<1>4. \A v \in Workers \ {w} : WorkerSound(v)'
  BY <1>1, <1>2, OtherWorker DEF Sound, Alone
<1> QED BY <1>3, <1>4 DEF Sound

(* Who knows a cost knows a bound on any larger one. *)
LEMMA VouchedUp ==
  ASSUME NEW inc \in Int, NEW ch \in Seq(ToMasterMsg), NEW c \in Int, NEW d \in Int,
         c <= d, Vouched(inc, ch, c)
  PROVE  Vouched(inc, ch, d)
<1>1. \A j \in 1 .. Len(ch) : CostIn(ch[j]) \in Int
  BY CostInType, ElementOfSeq
<1> QED BY <1>1 DEF Vouched, KnownTo

(* What a solver that looks for solutions cheaper than b no longer looks for
   does not improve on b, or on the incumbent. *)
LEMMA NotCandidate ==
  ASSUME Inv, NEW w \in Workers, SolverSound(w), NEW b \in Int,
         NEW s \in Charge(w), s \notin Candidates(w, b)
  PROVE  best <= Cost[s] \/ b <= Cost[s]
<1>1. s \in cube[w].region /\ cube[w].lb \in Int /\ Cost[s] \in Int
  BY WorkerTypes, CostTypes DEF SolverSound, Task
<1>2. s \in cube[w].excl \/ Cost[s] < cube[w].lb => best <= Cost[s]
  BY <1>1 DEF SolverSound, TaskSoundTo
<1> QED BY <1>1, <1>2 DEF Candidates

(* The master's variables, as a worker's step leaves them. *)
LEMMA MasterSame ==
  ASSUME UNCHANGED masterVars
  PROVE  best' = best /\ cubeOf' = cubeOf /\ \A w : Charge(w)' = Charge(w)
BY DEF masterVars, ledger, incumbent, Charge

(* A worker that no longer works, after what it has told and been told. *)
LEMMA AtRest ==
  ASSUME NEW w \in Workers, StaticsSound(w), UNCHANGED masterVars, pc'[w] \notin Working,
         given'[w] = given[w], reported'[w] = reported[w], imported'[w] = imported[w],
         ClaimsHold(best, toMaster'[w], w, Charge(w)),
         VouchedBy(w, reported[w]) => Vouched(best, toMaster'[w], reported[w]),
         RepliesHold(best, imported[w], toWorker'[w], Charge(w))
  PROVE  WorkerSound(w)'
<1>1. best' = best /\ Charge(w)' = Charge(w)
  BY MasterSame
<1>2. StaticsSound(w)'
  BY <1>1 DEF StaticsSound, VouchedBy
<1> QED BY <1>1, <1>2 DEF WorkerSound

(* A worker sends a message that is true. *)
LEMMA Told ==
  ASSUME Inv, NEW w \in Workers, ClaimsHold(best, toMaster[w], w, Charge(w)),
         NEW m \in ToMasterMsg,
         Claim(m, w, Charge(w), {s \in Sol : VouchedBy(w, Cost[s]) \/ CostIn(m) <= Cost[s]})
  PROVE  /\ ClaimsHold(best, Append(toMaster[w], m), w, Charge(w))
         /\ \A c \in Int : Vouched(best, Append(toMaster[w], m), c) <=> VouchedBy(w, c) \/ CostIn(m) <= c
BY WorkerTypes, ClaimsAppend DEF VouchedBy

LEMMA GenerateSound ==
  ASSUME Inv, Sound, NEW w \in CubeWorkers, Generate(w)
  PROVE  Sound'
<1>1. w \in Workers /\ w # Original
  BY WorkerFacts
<1>2. /\ pc[w] = "generate" /\ Goto(w, "idle")
      /\ UNCHANGED <<toWorker, masterVars, solverVars, statics>>
      /\ \E sat \in BOOLEAN :
           /\ sat => ~Optimizing /\ Share[w] # {}
           /\ \E parts \in Partitions(Share[w], IF sat THEN {} ELSE Share[w]) :
                Send(w, [tag |-> "INIT_RESULT", sat |-> sat, parts |-> parts])
  BY DEF Generate
<1>3. PICK sat \in BOOLEAN :
        /\ sat => ~Optimizing /\ Share[w] # {}
        /\ \E parts \in Partitions(Share[w], IF sat THEN {} ELSE Share[w]) :
             Send(w, [tag |-> "INIT_RESULT", sat |-> sat, parts |-> parts])
  BY <1>2
<1>4. PICK parts \in Partitions(Share[w], IF sat THEN {} ELSE Share[w]) :
        Send(w, [tag |-> "INIT_RESULT", sat |-> sat, parts |-> parts])
  BY <1>3
<1> DEFINE m == [tag |-> "INIT_RESULT", sat |-> sat, parts |-> parts]
<1>5. m \in ToMasterMsg
  BY WorkerAssumption DEF ToMasterMsg, InitMsg, Partitions
<1>6. \A S : Claim(m, w, Charge(w), S)
  BY <1>3, WorkerAssumption DEF Claim, Partitions
<1>7. m.tag = "INIT_RESULT" /\ Send(w, m)
  BY <1>4
<1> HIDE DEF m
<1>8. ChannelsOK /\ WorkersOK
  BY DEF Inv, TypeOK
<1>9. /\ toMaster'[w] = Append(toMaster[w], m)
      /\ \A v \in Workers \ {w} : toMaster'[v] = toMaster[v]
      /\ pc'[w] = "idle" /\ \A v \in Workers \ {w} : pc'[v] = pc[v]
  BY <1>1, <1>2, <1>5, <1>7, <1>8, SendFacts, LabelFacts
<1>10. Alone(w)
  BY <1>2, <1>9 DEF Alone, solverVars, statics
<1>11. WorkerSound(w)
  BY <1>1 DEF Sound
<1>12. /\ ClaimsHold(best, toMaster'[w], w, Charge(w))
       /\ \A c \in Int : VouchedBy(w, c) => Vouched(best, toMaster'[w], c)
  BY <1>1, <1>5, <1>6, <1>9, <1>11, Told DEF WorkerSound
<1>13. given'[w] = given[w] /\ reported'[w] = reported[w] /\ imported'[w] = imported[w]
       /\ toWorker'[w] = toWorker[w]
  BY <1>2 DEF solverVars, statics
<1>14. WorkerSound(w)'
  BY <1>1, <1>2, <1>9, <1>11, <1>12, <1>13, AtRest, WorkerTypes DEF WorkerSound, Working
<1> QED BY <1>1, <1>10, <1>14, WorkerAlone

(* A worker that leaves. *)
LEMMA LeaveSound ==
  ASSUME Inv, NEW w \in Workers, WorkerSound(w), Leave(w), UNCHANGED masterVars,
         given'[w] = given[w], reported'[w] = reported[w], imported'[w] = imported[w],
         ClaimsHold(best, toMaster'[w], w, Charge(w)),
         VouchedBy(w, reported[w]) => Vouched(best, toMaster'[w], reported[w])
  PROVE  WorkerSound(w)'
<1>1. pc'[w] = "done" /\ toWorker'[w] = <<>>
  BY DEF Leave, Goto, Inv, TypeOK, ChannelsOK, WorkersOK
<1>2. RepliesHold(best, imported[w], toWorker'[w], Charge(w))
  BY <1>1, RepliesNone
<1> QED BY <1>1, <1>2, AtRest DEF WorkerSound, Working

(* What the step of a worker that ends its solver leaves alone. *)
LEMMA DisposeAlone ==
  ASSUME Inv, NEW w \in Workers, Dispose(w)
  PROVE  \A v \in Workers \ {w} : /\ cube'[v] = cube[v] /\ bound'[v] = bound[v]
                                  /\ found'[v] = found[v] /\ lower'[v] = lower[v]
BY DEF Dispose, Inv, TypeOK, WorkersOK

LEMMA LeaveAlone ==
  ASSUME Inv, NEW w \in Workers, Leave(w)
  PROVE  \A v \in Workers \ {w} : /\ cube'[v] = cube[v] /\ bound'[v] = bound[v]
                                  /\ found'[v] = found[v] /\ lower'[v] = lower[v]
                                  /\ pc'[v] = pc[v] /\ toWorker'[v] = toWorker[v]
BY DisposeAlone DEF Leave, Goto, Inv, TypeOK, WorkersOK, ChannelsOK

LEMMA ReceiveSound ==
  ASSUME Inv, Sound, NEW w \in CubeWorkers, Receive(w)
  PROVE  Sound'
<1> DEFINE m == Head(toWorker[w])
<1>1. w \in Workers /\ WorkerSound(w)
  BY WorkerFacts DEF Sound
<1>2. /\ pc[w] = "idle" /\ toWorker[w] # <<>>
      /\ UNCHANGED <<toMaster, masterVars, statics>>
  BY DEF Receive
<1>3. /\ toMaster'[w] = toMaster[w] /\ reported'[w] = reported[w] /\ imported'[w] = imported[w]
      /\ best' = best /\ Charge(w)' = Charge(w)
      /\ \A v \in Workers \ {w} : /\ toMaster'[v] = toMaster[v] /\ reported'[v] = reported[v]
                                  /\ imported'[v] = imported[v]
  BY <1>2, MasterSame DEF statics
<1>6. /\ ClaimsHold(best, toMaster[w], w, Charge(w))
      /\ RepliesHold(best, imported[w], toWorker[w], Charge(w))
      /\ StaticsSound(w)
  BY <1>1 DEF WorkerSound
<1>4. CASE m.tag = "STOP"
  <2>1. Leave(w) /\ given' = given
    BY <1>4 DEF Receive
  <2>2. WorkerSound(w)'
    <3>1. given'[w] = given[w] /\ UNCHANGED masterVars
      BY <1>2, <2>1
    <3>2. /\ ClaimsHold(best, toMaster'[w], w, Charge(w))
          /\ VouchedBy(w, reported[w]) => Vouched(best, toMaster'[w], reported[w])
      BY <1>3, <1>6 DEF VouchedBy
    <3> QED BY <1>1, <1>3, <2>1, <3>1, <3>2, LeaveSound
  <2>3. Alone(w)
    BY <1>1, <1>2, <1>3, <2>1, LeaveAlone DEF Alone
  <2> QED BY <1>1, <2>2, <2>3, WorkerAlone
<1>5. CASE m.tag = "WORK"
  <2>1. /\ toWorker' = [toWorker EXCEPT ![w] = Tail(@)]
        /\ Goto(w, "search")
        /\ cube' = [cube EXCEPT ![w] = m.task]
        /\ given' = [given EXCEPT ![w] = IF m.best = Inf THEN @ ELSE m.best]
        /\ bound' = [bound EXCEPT ![w] = ObjectiveBound(Inf, given'[w])]
        /\ found' = [found EXCEPT ![w] = None]
        /\ lower' = [lower EXCEPT ![w] = ObjMin]
    BY <1>5 DEF Receive
  <2>2. /\ toWorker'[w] = Tail(toWorker[w]) /\ pc'[w] = "search" /\ cube'[w] = m.task
        /\ given'[w] = IF m.best = Inf THEN given[w] ELSE m.best
        /\ bound'[w] = Lesser(Inf, given'[w]) /\ found'[w] = None /\ lower'[w] = ObjMin
    BY <1>1, <2>1 DEF Inv, TypeOK, WorkersOK, ChannelsOK, Goto, ObjectiveBound
  <2>3. Alone(w)
    BY <1>1, <1>2, <1>3, <2>1 DEF Alone, Inv, TypeOK, WorkersOK, ChannelsOK, Goto
  <2>4. m \in ToWorkerMsg /\ m.best \in Costs /\ m.best \in Int
    BY <1>1, <1>2, <1>5, WorkerTypes, TailFacts, ToWorkerPayload, CostFacts
  <2>5. /\ RepliesHold(best, imported[w], Tail(toWorker[w]), Charge(w))
        /\ best <= m.best /\ m.best <= imported[w]
        /\ m.task.region = Charge(w) /\ TaskSoundTo(best, m.task)
    <3>1. toWorker[w] \in Seq(ToWorkerMsg)
      BY <1>1, WorkerTypes
    <3> QED BY <1>2, <1>5, <1>6, <3>1, RepliesTail
  <2>6. /\ best <= given'[w] /\ given'[w] \in Costs
        /\ bound'[w] = given'[w] /\ bound'[w] <= imported'[w]
    <3>1. /\ given[w] \in Costs /\ given[w] \in Int /\ imported[w] \in Int /\ best \in Int
          /\ best <= given[w]
      BY <1>1, <1>6, WorkerTypes DEF StaticsSound
    <3>2. given'[w] \in Costs /\ best <= given'[w] /\ given'[w] <= imported[w]
      BY <2>2, <2>4, <2>5, <3>1, CostTypes
    <3>3. given'[w] \in Int /\ given'[w] <= Inf /\ Inf \in Int
      BY <3>2, CostTypes, CostFacts
    <3> QED BY <1>3, <2>2, <3>2, <3>3 DEF Lesser
  <2>7. StaticsSound(w)'
    BY <1>1, <1>3, <2>6 DEF WorkerSound, StaticsSound, VouchedBy
  <2>8. SolverSound(w)'
    <3>1. VouchedBy(w, bound[w])'
      BY <1>3, <2>6 DEF VouchedBy, Vouched, KnownTo
    <3>2. \A s \in Charge(w) : ObjMin <= Cost[s]
      BY <1>1, WorkerTypes, CostTypes
    <3> QED BY <1>3, <2>2, <2>5, <2>6, <3>1, <3>2 DEF SolverSound
  <2>9. WorkerSound(w)'
    BY <1>1, <1>3, <2>2, <2>5, <2>7, <2>8 DEF WorkerSound
  <2> QED BY <1>1, <2>3, <2>9, WorkerAlone
<1> QED BY <1>4, <1>5 DEF Receive

(* The end of a search: what the answer says of the cube is true if nothing
   cheaper than the bound is left in it. *)
LEMMA AnswerSound ==
  ASSUME Inv, NEW w \in Workers, WorkerSound(w), pc[w] \in Working, Answer(w),
         UNCHANGED masterVars,
         given' = given, UNCHANGED statics,
         RepliesHold(best, imported[w], toWorker'[w], Charge(w)),
         \A s \in Charge(w) : VouchedBy(w, Cost[s]) \/ bound[w] <= Cost[s]
  PROVE  WorkerSound(w)' /\ \A v \in Workers \ {w} : toMaster'[v] = toMaster[v]
<1> DEFINE cost == BestCost(w)
           m == IF found[w] = None THEN Result(20, 0, None) ELSE Result(10, cost, found[w])
           S == {s \in Sol : VouchedBy(w, Cost[s]) \/ CostIn(m) <= Cost[s]}
<1>0. m = IF found[w] = None THEN Result(20, 0, None) ELSE Result(10, cost, found[w])
  OBVIOUS
<1>7. Send(w, m) /\ Goto(w, IF w = Original THEN "done" ELSE "idle")
  BY DEF Answer
<1> HIDE DEF m
<1>1. SolverSound(w)
  BY DEF WorkerSound
<1>2. /\ found[w] \in Sol \cup {None} /\ Charge(w) \subseteq Sol
      /\ bound[w] \in Int /\ toMaster[w] \in Seq(ToMasterMsg) /\ best \in Int
  BY WorkerTypes
<1>3. ASSUME NEW c \in Int, NEW d \in Int, c <= d, VouchedBy(w, c) PROVE VouchedBy(w, d)
  BY <1>2, <1>3, VouchedUp DEF VouchedBy
<1>4. ASSUME found[w] = None PROVE m \in ToMasterMsg /\ Claim(m, w, Charge(w), S)
  <2>1. m = Result(20, 0, None)
    BY <1>0, <1>4
  <2>2. m \in ToMasterMsg
    BY <2>1, ResultType DEF Codes
  <2>3. VouchedBy(w, bound[w])
    BY <1>1, <1>4 DEF SolverSound
  <2>4. Charge(w) \subseteq S
    BY <1>2, <1>3, <2>3, CostTypes
  <2> HIDE DEF S
  <2>5. Claim(m, w, Charge(w), S)
    BY <2>1, <2>4 DEF Result, Claim, ResultClaim
  <2> QED BY <2>2, <2>5
<1>5. ASSUME found[w] # None PROVE m \in ToMasterMsg /\ Claim(m, w, Charge(w), S)
  <2>1. m = Result(10, cost, found[w]) /\ found[w] \in Sol /\ Optimizing
    BY <1>0, <1>1, <1>2, <1>5 DEF SolverSound
  <2>2. cost \in Costs /\ cost \in Int
    BY <1>5, BestCostType, CostFacts DEF Inv, TypeOK
  <2>3. m \in ToMasterMsg
    BY <2>1, <2>2, ResultType DEF Codes
  <2>4. bound[w] <= Cost[found[w]] /\ (cost = bound[w] \/ cost = Cost[found[w]]) /\ cost < Inf
    <3>1. bound[w] <= Cost[found[w]] /\ Cost[found[w]] \in Int /\ Cost[found[w]] < Inf /\ Inf \in Int
      BY <1>1, <1>5, <2>1, CostTypes, CostFacts DEF SolverSound
    <3>2. cost = bound[w] \/ cost = Cost[found[w]]
      BY DEF BestCost
    <3> QED BY <1>2, <3>1, <3>2
  <2>5. CostIn(m) = cost
    BY <2>1 DEF CostIn, Result
  <2>6. VouchedBy(w, bound[w]) \/ cost = bound[w]
    BY <1>1, <2>4 DEF SolverSound
  <2>7. Charge(w) \subseteq S
    BY <1>2, <1>3, <2>5, <2>6, CostTypes
  <2> HIDE DEF S, cost
  <2>8. Claim(m, w, Charge(w), S)
    BY <2>1, <2>4, <2>7 DEF Result, Claim, ResultClaim
  <2> QED BY <2>3, <2>8
<1>6. m \in ToMasterMsg /\ Claim(m, w, Charge(w), S)
  BY <1>4, <1>5
<1>8. /\ toMaster'[w] = Append(toMaster[w], m)
      /\ \A v \in Workers \ {w} : toMaster'[v] = toMaster[v]
      /\ pc'[w] \notin Working
  BY <1>6, <1>7, SendFacts DEF Inv, TypeOK, Goto, WorkersOK, Working
<1>9. /\ ClaimsHold(best, toMaster'[w], w, Charge(w))
      /\ \A c \in Int : VouchedBy(w, c) => Vouched(best, toMaster'[w], c)
  BY <1>6, <1>8, Told DEF WorkerSound
<1> QED BY <1>8, <1>9, AtRest, WorkerTypes DEF WorkerSound, statics

LEMMA RefuteSound ==
  ASSUME Inv, Sound, NEW w \in Workers, Refute(w)
  PROVE  Sound'
<1>1. /\ pc[w] \in {"search", "decide"} /\ Candidates(w, bound[w]) = {} /\ Answer(w)
      /\ UNCHANGED <<toWorker, masterVars, given, statics>>
  BY DEF Refute
<1>2. WorkerSound(w) /\ SolverSound(w) /\ pc[w] \in Working
  BY <1>1 DEF Sound, WorkerSound, Working
<1>3. \A s \in Charge(w) : VouchedBy(w, Cost[s]) \/ bound[w] <= Cost[s]
  BY <1>1, <1>2, NotCandidate, WorkerTypes DEF VouchedBy, Vouched, KnownTo
<1>4. WorkerSound(w)' /\ \A v \in Workers \ {w} : toMaster'[v] = toMaster[v]
  BY <1>1, <1>2, <1>3, AnswerSound DEF WorkerSound
<1>5. Alone(w)
  BY <1>1, <1>4, DisposeAlone DEF Alone, Answer, Goto, Inv, TypeOK, WorkersOK, statics
<1> QED BY <1>4, <1>5, WorkerAlone

(* The parts of WorkerSound for a worker that works. *)
LEMMA WorkingFacts ==
  ASSUME Inv, NEW w \in Workers, WorkerSound(w), pc[w] \in Working
  PROVE  /\ ClaimsHold(best, toMaster[w], w, Charge(w))
         /\ RepliesHold(best, imported[w], toWorker[w], Charge(w))
         /\ StaticsSound(w) /\ SolverSound(w)
         /\ cube[w].region = Charge(w) /\ TaskSoundTo(best, cube[w])
         /\ found[w] # None => Optimizing /\ bound[w] <= Cost[found[w]]
         /\ pc[w] # "search" => VouchedBy(w, bound[w])
         /\ bound[w] <= imported[w] /\ best <= given[w] /\ best <= imported[w]
         /\ \A s \in Charge(w) : lower[w] <= Cost[s] \/ VouchedBy(w, Cost[s])
         /\ pc[w] # "search" /\ found[w] # None => reported[w] <= Cost[found[w]]
         /\ VouchedBy(w, reported[w])
         /\ \A c, d \in Int : c <= d /\ VouchedBy(w, c) => VouchedBy(w, d)
<1>1. \A c, d \in Int : c <= d /\ VouchedBy(w, c) => VouchedBy(w, d)
  BY WorkerTypes, VouchedUp DEF VouchedBy
<1> QED BY <1>1 DEF WorkerSound, SolverSound, StaticsSound

(* A worker that goes on working, with its messages and its solver as they are
   after its step. *)
LEMMA AtWork ==
  ASSUME NEW w \in Workers, StaticsSound(w)', SolverSound(w)',
         ClaimsHold(best, toMaster[w], w, Charge(w))',
         RepliesHold(best, imported[w], toWorker[w], Charge(w))'
  PROVE  WorkerSound(w)'
BY DEF WorkerSound

LEMMA ImportStopSound ==
  ASSUME Inv, Sound, NEW w \in Workers, ImportStop(w)
  PROVE  Sound'
<1>1. Leave(w) /\ UNCHANGED <<toMaster, masterVars, given, statics>> /\ pc[w] \in Working
  BY DEF ImportStop, Working
<1>2. WorkerSound(w) /\ ClaimsHold(best, toMaster[w], w, Charge(w))
  BY DEF Sound, WorkerSound
<1>3. /\ given'[w] = given[w] /\ reported'[w] = reported[w] /\ imported'[w] = imported[w]
      /\ toMaster'[w] = toMaster[w]
  BY <1>1 DEF statics
<1>4. WorkerSound(w)'
  BY <1>1, <1>2, <1>3, LeaveSound DEF VouchedBy
<1>5. Alone(w)
  BY <1>1, LeaveAlone DEF Alone, statics
<1> QED BY <1>4, <1>5, WorkerAlone

LEMMA DecideSound ==
  ASSUME Inv, Sound, NEW w \in Workers, Decide(w)
  PROVE  Sound'
<1>1. /\ pc[w] = "decide" /\ Goto(w, "search")
      /\ UNCHANGED <<channels, masterVars, solverVars, statics>>
  BY DEF Decide
<1>2. /\ pc'[w] = "search" /\ (\A v \in Workers \ {w} : pc'[v] = pc[v])
      /\ best' = best /\ Charge(w)' = Charge(w)
  BY <1>1, LabelFacts, MasterSame DEF Inv, TypeOK
<1>3. Alone(w)
  BY <1>1, <1>2 DEF Alone, channels, solverVars, statics
<1>4. WorkerSound(w)'
  BY <1>1, <1>2 DEF Sound, WorkerSound, StaticsSound, SolverSound, VouchedBy, Working,
                    channels, solverVars, statics
<1> QED BY <1>3, <1>4, WorkerAlone

LEMMA RaiseLowerBoundSound ==
  ASSUME Inv, Sound, NEW w \in Workers, RaiseLowerBound(w)
  PROVE  Sound'
<1>1. /\ pc[w] = "decide" /\ Goto(w, "search")
      /\ UNCHANGED <<channels, masterVars, cube, given, bound, found, statics>>
  BY DEF RaiseLowerBound
<1>2. PICK lb \in LowerBounds : /\ \A s \in Candidates(w, bound[w]) : lb <= Cost[s]
                                /\ lower' = [lower EXCEPT ![w] = lb]
  BY DEF RaiseLowerBound
<1>3. /\ pc'[w] = "search" /\ (\A v \in Workers \ {w} : pc'[v] = pc[v])
      /\ lower'[w] = lb /\ (\A v \in Workers \ {w} : lower'[v] = lower[v])
      /\ best' = best /\ Charge(w)' = Charge(w)
  BY <1>1, <1>2, LabelFacts, MasterSame DEF Inv, TypeOK, WorkersOK
<1>4. Alone(w)
  BY <1>1, <1>3 DEF Alone, channels, statics
<1>5. WorkerSound(w)
  BY DEF Sound
<1>6. /\ SolverSound(w) /\ VouchedBy(w, bound[w])
      /\ \A c, d \in Int : c <= d /\ VouchedBy(w, c) => VouchedBy(w, d)
  BY <1>1, <1>5, WorkingFacts DEF Working
<1>7. ASSUME NEW s \in Charge(w) PROVE lb <= Cost[s] \/ VouchedBy(w, Cost[s])
  <2>1. Cost[s] \in Int /\ bound[w] \in Int
    BY WorkerTypes, CostTypes
  <2>2. CASE s \in Candidates(w, bound[w])
    BY <1>2, <2>2
  <2>3. CASE s \notin Candidates(w, bound[w])
    <3>1. best <= Cost[s] \/ bound[w] <= Cost[s]
      BY <1>6, <2>1, <2>3, NotCandidate
    <3> QED BY <1>6, <2>1, <3>1 DEF VouchedBy, Vouched, KnownTo
  <2> QED BY <2>2, <2>3
<1>8. WorkerSound(w)'
  BY <1>1, <1>3, <1>5, <1>7 DEF WorkerSound, StaticsSound, SolverSound, VouchedBy, Working,
                                channels, statics
<1> QED BY <1>4, <1>8, WorkerAlone

LEMMA FindSolutionSound ==
  ASSUME Inv, Sound, NEW w \in Workers, FindSolution(w)
  PROVE  Sound'
<1>1. pc[w] = "decide" /\ UNCHANGED <<masterVars, given, statics>>
  BY DEF FindSolution
<1>2. PICK s \in Candidates(w, bound[w]) :
        IF Optimizing
          THEN /\ found' = [found EXCEPT ![w] = s]
               /\ bound' = [bound EXCEPT ![w] = Cost[s]]
               /\ Goto(w, "search")
               /\ UNCHANGED <<channels, cube, lower>>
          ELSE /\ Send(w, Result(10, 0, IF Backend = "native" THEN AllFalse ELSE s))
               /\ Leave(w)
  BY DEF FindSolution
<1>3. WorkerSound(w)
  BY DEF Sound
<1>4. s \in Sol /\ Cost[s] < bound[w] /\ Cost[s] \in Int /\ bound[w] \in Int /\ imported[w] \in Int
  BY WorkerTypes, CostTypes DEF Candidates, Task
<1>5. bound[w] <= imported[w] /\ ClaimsHold(best, toMaster[w], w, Charge(w))
  BY <1>1, <1>3, WorkingFacts DEF Working
<1>6. best' = best /\ Charge(w)' = Charge(w)
  BY <1>1, MasterSame
<1>7. CASE Optimizing
  <2>1. /\ found'[w] = s /\ bound'[w] = Cost[s] /\ pc'[w] = "search"
        /\ \A v \in Workers \ {w} : /\ pc'[v] = pc[v] /\ found'[v] = found[v]
                                    /\ bound'[v] = bound[v]
    BY <1>2, <1>7 DEF Inv, TypeOK, WorkersOK, Goto
  <2>2. UNCHANGED <<channels, cube, lower>>
    BY <1>2, <1>7
  <2>3. Alone(w)
    BY <1>1, <2>1, <2>2 DEF Alone, channels, statics
  <2>4. SolverSound(w)'
    <3>1. s # None
      BY <1>4, CostFacts
    <3> QED BY <1>1, <1>3, <1>4, <1>5, <1>6, <1>7, <2>1, <2>2, <3>1
            DEF WorkerSound, SolverSound, VouchedBy, Working, channels, statics
  <2>5. WorkerSound(w)'
    BY <1>1, <1>3, <1>6, <2>2, <2>4 DEF WorkerSound, StaticsSound, VouchedBy, channels, statics
  <2> QED BY <2>3, <2>5, WorkerAlone
<1>8. CASE ~Optimizing
  <2> DEFINE m == Result(10, 0, IF Backend = "native" THEN AllFalse ELSE s)
  <2>1. m \in ToMasterMsg
    <3>1. (IF Backend = "native" THEN AllFalse ELSE s) \in Sol \cup {None, AllFalse}
      BY <1>4
    <3>2. 10 \in Codes /\ 0 \in Int /\ 10 \notin {15, 25, 26}
      BY DEF Codes
    <3> QED BY <1>8, <3>1, <3>2, ResultType
  <2>2. Send(w, m) /\ Leave(w)
    BY <1>2, <1>8
  <2>3. m.tag = "RESULT" /\ m.code = 10
    BY DEF Result
  <2> HIDE DEF m
  <2>4. \A S : Claim(m, w, Charge(w), S)
    BY <1>4, <1>8, <2>3 DEF Claim, ResultClaim
  <2>5. toMaster'[w] = Append(toMaster[w], m) /\ (\A v \in Workers \ {w} : toMaster'[v] = toMaster[v])
    BY <2>1, <2>2, SendFacts DEF Inv, TypeOK
  <2>6. /\ ClaimsHold(best, toMaster'[w], w, Charge(w))
        /\ \A c \in Int : VouchedBy(w, c) => Vouched(best, toMaster'[w], c)
    BY <1>5, <2>1, <2>4, <2>5, Told
  <2>7. given'[w] = given[w] /\ reported'[w] = reported[w] /\ imported'[w] = imported[w]
    BY <1>1 DEF statics
  <2>8. UNCHANGED masterVars /\ reported[w] \in Int
    BY <1>1, WorkerTypes
  <2>9. WorkerSound(w)'
    BY <1>3, <2>2, <2>6, <2>7, <2>8, LeaveSound
  <2>10. Alone(w)
    BY <1>1, <2>2, <2>5, LeaveAlone DEF Alone, statics
  <2> QED BY <2>9, <2>10, WorkerAlone
<1> QED BY <1>7, <1>8

(* A working worker that has told something, and goes on with the same solver. *)
LEMMA TellingSound ==
  ASSUME Inv, NEW w \in Workers, WorkerSound(w), pc[w] \in Working \ {"search"},
         UNCHANGED <<toWorker, masterVars, solverVars, statics>>, pc'[w] \in Working,
         ClaimsHold(best, toMaster'[w], w, Charge(w)),
         \A c \in Int : VouchedBy(w, c) => Vouched(best, toMaster'[w], c)
  PROVE  WorkerSound(w)'
<1>1. best' = best /\ Charge(w)' = Charge(w)
  BY MasterSame
<1>2. \A c \in Int : VouchedBy(w, c) => VouchedBy(w, c)'
  BY <1>1 DEF VouchedBy
<1>3. StaticsSound(w)'
  BY <1>1, <1>2, WorkerTypes, WorkingFacts DEF StaticsSound, statics, solverVars
<1>4. SolverSound(w)'
  <2>1. Charge(w) \subseteq Sol /\ bound[w] \in Int
    BY WorkerTypes
  <2>2. VouchedBy(w, bound[w])'
    BY <1>2, <2>1, WorkingFacts DEF solverVars
  <2>3. \A s \in Charge(w)' : lower'[w] <= Cost[s] \/ VouchedBy(w, Cost[s])'
    BY <1>1, <1>2, <2>1, CostTypes, WorkingFacts DEF solverVars
  <2> QED BY <1>1, <2>2, <2>3, WorkingFacts DEF SolverSound, statics, solverVars
<1>5. RepliesHold(best, imported[w], toWorker[w], Charge(w))'
  BY <1>1, WorkingFacts DEF statics
<1>6. ClaimsHold(best, toMaster[w], w, Charge(w))'
  BY <1>1
<1> QED BY <1>3, <1>4, <1>5, <1>6, AtWork

LEMMA OfferSolutionSound ==
  ASSUME Inv, Sound, NEW w \in CubeWorkers, OfferSolution(w)
  PROVE  Sound'
<1> DEFINE cost == BestCost(w)
           m == Result(25, cost, found[w])
<1>1. /\ pc[w] = "interrupted" /\ Send(w, m) /\ Goto(w, "incumbent")
      /\ UNCHANGED <<toWorker, masterVars, solverVars, statics>>
  BY DEF OfferSolution
<1>2. w \in Workers /\ w # Original /\ WorkerSound(w)
  BY WorkerFacts DEF Sound
<1>3. found[w] # None /\ found[w] \in Sol \cup {None}
  BY <1>1, <1>2, WorkerTypes DEF Inv, Protocol
<1>4. Optimizing /\ bound[w] <= Cost[found[w]] /\ ClaimsHold(best, toMaster[w], w, Charge(w))
  BY <1>1, <1>2, <1>3, WorkingFacts DEF Working
<1>5. cost \in Costs /\ cost \in Int /\ cost < Inf
  <2>1. cost \in Costs /\ cost \in Int
    BY <1>2, <1>3, BestCostType, CostFacts DEF Inv, TypeOK
  <2>2. cost = bound[w] \/ cost = Cost[found[w]]
    BY DEF BestCost
  <2>3. Cost[found[w]] \in Int /\ Cost[found[w]] < Inf /\ Inf \in Int
    BY <1>3, CostTypes, CostFacts
  <2> HIDE DEF cost
  <2> QED BY <1>4, <2>1, <2>2, <2>3
<1> HIDE DEF cost
<1>6. m \in ToMasterMsg
  BY <1>3, <1>5, ResultType DEF Codes
<1>7. \A S : Claim(m, w, Charge(w), S)
  BY <1>2, <1>4, <1>5 DEF Result, Claim, ResultClaim
<1> HIDE DEF m
<1>8. /\ toMaster'[w] = Append(toMaster[w], m)
      /\ \A v \in Workers \ {w} : toMaster'[v] = toMaster[v]
      /\ pc'[w] = "incumbent" /\ (\A v \in Workers \ {w} : pc'[v] = pc[v])
  BY <1>1, <1>2, <1>6, SendFacts, LabelFacts DEF Inv, TypeOK
<1>9. Alone(w)
  BY <1>1, <1>8 DEF Alone, solverVars, statics
<1>10. /\ ClaimsHold(best, toMaster'[w], w, Charge(w))
       /\ \A c \in Int : VouchedBy(w, c) => Vouched(best, toMaster'[w], c)
  BY <1>2, <1>4, <1>6, <1>7, <1>8, Told
<1>11. WorkerSound(w)'
  BY <1>1, <1>2, <1>8, <1>10, TellingSound DEF solverVars, statics, Working
<1> QED BY <1>2, <1>9, <1>11, WorkerAlone

(* What the callback reports is true, and afterwards the static variable is no
   larger than the cost of the solver's solution, nor is what it prunes with
   news to the master. *)
LEMMA ReportsSound ==
  ASSUME Inv, NEW w \in Workers, WorkerSound(w), pc[w] = "search"
  PROVE  LET ch  == toMaster[w] \o Reports(w)
             rep == IF Reports(w) = <<>> THEN reported[w] ELSE ReportedUB(w)
         IN /\ ch \in Seq(ToMasterMsg)
            /\ ClaimsHold(best, ch, w, Charge(w))
            /\ \A c \in Int : VouchedBy(w, c) => Vouched(best, ch, c)
            /\ Vouched(best, ch, rep)
            /\ found[w] # None => rep <= Cost[found[w]]
            /\ Vouched(best, ch, bound[w])
<1> DEFINE ub == ReportedUB(w)
           ch == toMaster[w] \o Reports(w)
           rep == IF Reports(w) = <<>> THEN reported[w] ELSE ReportedUB(w)
           Goal == /\ ch \in Seq(ToMasterMsg)
                   /\ ClaimsHold(best, ch, w, Charge(w))
                   /\ \A c \in Int : VouchedBy(w, c) => Vouched(best, ch, c)
                   /\ Vouched(best, ch, rep)
                   /\ found[w] # None => rep <= Cost[found[w]]
                   /\ Vouched(best, ch, bound[w])
<1>1. /\ toMaster[w] \in Seq(ToMasterMsg) /\ reported[w] \in Int /\ reported[w] <= Inf
      /\ bound[w] \in Int /\ best \in Int /\ lower[w] \in Int
      /\ found[w] \in Sol \cup {None} /\ Charge(w) \subseteq Sol
  BY WorkerTypes, CostTypes
<1>2. ub \in Costs /\ ub \in Int
  BY BestCostType, CostFacts DEF Inv, TypeOK
<1>3. /\ found[w] = None => ub = Inf
      /\ found[w] # None => ub = Cost[found[w]] \/ (ub = bound[w] /\ Backend # "native")
      /\ found[w] # None /\ Backend # "native" => ub = bound[w]
  BY DEF ReportedUB, BestCost
<1>4. /\ ClaimsHold(best, toMaster[w], w, Charge(w))
      /\ found[w] # None => Optimizing /\ bound[w] <= Cost[found[w]]
      /\ \A s \in Charge(w) : lower[w] <= Cost[s] \/ VouchedBy(w, Cost[s])
      /\ VouchedBy(w, reported[w])
      /\ \A c, d \in Int : c <= d /\ VouchedBy(w, c) => VouchedBy(w, d)
  BY <1>1, WorkingFacts DEF Working
<1>5. VouchedBy(w, bound[w]) \/ (found[w] # None /\ Cost[found[w]] = bound[w])
  BY DEF WorkerSound, SolverSound, Working
<1>6. found[w] # None => Cost[found[w]] \in Int /\ Cost[found[w]] < Inf /\ Inf \in Int
  BY <1>1, CostTypes, CostFacts
<1>7. Backend \in {"native", "roundingsat", "cadical"} /\ (Optimizing => Backend # "cadical")
  BY ProblemAssumption
<1> HIDE DEF ub
<1>8. CASE Reports(w) = <<>>
  <2>1. ch = toMaster[w] /\ rep = reported[w]
    BY <1>1, <1>8
  <2>2. found[w] # None => reported[w] <= ub
    BY <1>1, <1>2, <1>4, <1>7, <1>8 DEF Reports, ub
  <2>3. found[w] # None => reported[w] <= Cost[found[w]] /\ VouchedBy(w, bound[w])
    <3>1. CASE found[w] # None /\ Backend = "native"
      <4>1. ub = Cost[found[w]]
        BY <1>3, <3>1
      <4>2. reported[w] <= Cost[found[w]]
        BY <2>2, <3>1, <4>1
      <4> QED BY <1>1, <1>4, <1>5, <1>6, <3>1, <4>2
    <3>2. CASE found[w] # None /\ Backend # "native"
      <4>1. ub = bound[w] /\ reported[w] <= bound[w]
        BY <1>3, <2>2, <3>2
      <4> QED BY <1>1, <1>4, <1>6, <3>2, <4>1
    <3> QED BY <3>1, <3>2
  <2>4. VouchedBy(w, bound[w])
    BY <1>5, <2>3
  <2> HIDE DEF ch, rep
  <2>5. Goal
    BY <1>1, <1>4, <2>1, <2>3, <2>4 DEF VouchedBy
  <2> QED BY <2>5 DEF ch, rep
<1>9. ASSUME NEW m \in ToMasterMsg, Reports(w) = <<m>>, CostIn(m) = ub,
             Claim(m, w, Charge(w), {s \in Sol : VouchedBy(w, Cost[s]) \/ CostIn(m) <= Cost[s]})
      PROVE  Goal
  <2>1. ch = Append(toMaster[w], m) /\ rep = ub
    BY <1>1, <1>9 DEF ub
  <2>2. Append(toMaster[w], m) \in Seq(ToMasterMsg)
    BY <1>1, AppendProperties
  <2>3. /\ ClaimsHold(best, Append(toMaster[w], m), w, Charge(w))
        /\ \A c \in Int : Vouched(best, Append(toMaster[w], m), c) <=> VouchedBy(w, c) \/ ub <= c
    BY <1>4, <1>9, Told
  <2>4. found[w] # None => ub <= Cost[found[w]]
    BY <1>1, <1>2, <1>3, <1>4, <1>6
  <2>5. VouchedBy(w, bound[w]) \/ ub <= bound[w]
    BY <1>1, <1>3, <1>5, <1>6
  <2> HIDE DEF ch, rep
  <2> QED BY <1>1, <1>2, <2>1, <2>2, <2>3, <2>4, <2>5
<1>10. CASE Backend = "native" /\ ub < reported[w]
  <2> DEFINE m == Result(26, ub, None)
  <2>1. Reports(w) = <<m>>
    BY <1>10 DEF Reports, ub
  <2>2. found[w] # None /\ ub < Inf /\ Optimizing
    BY <1>1, <1>2, <1>3, <1>4, <1>10, CostFacts
  <2>3. m \in ToMasterMsg
    BY <1>2, ResultType DEF Codes
  <2>4. CostIn(m) = ub /\ \A S : Claim(m, w, Charge(w), S)
    BY <2>2 DEF CostIn, Result, Claim, ResultClaim
  <2> HIDE DEF m
  <2>5. Goal
    BY <1>9, <2>1, <2>3, <2>4
  <2> QED BY <2>5
<1>11. CASE ~(Backend = "native" /\ ub < reported[w]) /\ Reports(w) # <<>>
  <2> DEFINE m == [tag |-> "BOUNDS", lb |-> lower[w], ub |-> ub]
             S == {s \in Sol : VouchedBy(w, Cost[s]) \/ CostIn(m) <= Cost[s]}
  <2>1. Reports(w) = <<m>> /\ Optimizing
    BY <1>11 DEF Reports, ub
  <2>2. m \in ToMasterMsg
    BY <1>1, <1>2 DEF ToMasterMsg, BoundsMsg
  <2>3. CostIn(m) = ub
    BY DEF CostIn
  <2>4. \A s \in Charge(w) \ S : lower[w] <= Cost[s]
    BY <1>1, <1>4
  <2> HIDE DEF S
  <2>5. Claim(m, w, Charge(w), S)
    BY <2>1, <2>4 DEF Claim
  <2> HIDE DEF m
  <2>6. Goal
    BY <1>9, <2>1, <2>2, <2>3, <2>5 DEF S
  <2> QED BY <2>6
<1> QED BY <1>8, <1>10, <1>11

LEMMA ConcatAppend ==
  ASSUME NEW p \in Seq(ToMasterMsg), NEW q \in Seq(ToMasterMsg), NEW m \in ToMasterMsg
  PROVE  p \o Append(q, m) = Append(p \o q, m)
<1>1. Len(p) \in Nat /\ Len(q) \in Nat
  BY LenProperties
<1>2. /\ Append(q, m) \in Seq(ToMasterMsg) /\ Len(Append(q, m)) = Len(q) + 1
      /\ \A i \in 1 .. Len(q) : Append(q, m)[i] = q[i]
      /\ Append(q, m)[Len(q) + 1] = m
  BY AppendProperties
<1>3. /\ p \o q \in Seq(ToMasterMsg) /\ Len(p \o q) = Len(p) + Len(q)
      /\ \A i \in 1 .. Len(p) + Len(q) : (p \o q)[i] = IF i <= Len(p) THEN p[i] ELSE q[i - Len(p)]
  BY ConcatProperties
<1> DEFINE l == p \o Append(q, m)
           r == Append(p \o q, m)
<1>4. /\ l \in Seq(ToMasterMsg) /\ Len(l) = Len(p) + Len(Append(q, m))
      /\ \A i \in 1 .. Len(p) + Len(Append(q, m)) :
           l[i] = IF i <= Len(p) THEN p[i] ELSE Append(q, m)[i - Len(p)]
  BY <1>2, ConcatProperties
<1>5. /\ r \in Seq(ToMasterMsg) /\ Len(r) = Len(p \o q) + 1
      /\ \A i \in 1 .. Len(p \o q) : r[i] = (p \o q)[i]
      /\ r[Len(p \o q) + 1] = m
  BY <1>3, AppendProperties
<1>9. Append(p \o q, m) = r
  OBVIOUS
<1> DEFINE a == Append(q, m)
           b == p \o q
<1>10. /\ Len(a) = Len(q) + 1 /\ (\A i \in 1 .. Len(q) : a[i] = q[i]) /\ a[Len(q) + 1] = m
       /\ Len(b) = Len(p) + Len(q)
       /\ \A i \in 1 .. Len(p) + Len(q) : b[i] = IF i <= Len(p) THEN p[i] ELSE q[i - Len(p)]
       /\ Len(l) = Len(p) + Len(a)
       /\ \A i \in 1 .. Len(p) + Len(a) : l[i] = IF i <= Len(p) THEN p[i] ELSE a[i - Len(p)]
       /\ \A i \in 1 .. Len(b) : r[i] = b[i]
       /\ r[Len(b) + 1] = m
  BY <1>2, <1>3, <1>4, <1>5
<1> HIDE DEF l, r, a, b
<1>11. Len(l) = Len(p) + Len(q) + 1
  BY <1>1, <1>10
<1>6. Len(l) = Len(r)
  BY <1>1, <1>2, <1>3, <1>4, <1>5
<1>7. ASSUME NEW i \in 1 .. Len(l) PROVE l[i] = r[i]
  <2>1. CASE i <= Len(p)
    BY <1>1, <1>10, <2>1
  <2>2. CASE ~(i <= Len(p)) /\ i # Len(p) + Len(q) + 1
    <3>1. i - Len(p) \in 1 .. Len(q) /\ i \in 1 .. Len(p) + Len(q)
      BY <1>1, <1>11, <2>2
    <3> QED BY <1>1, <1>10, <2>2, <3>1
  <2>3. CASE i = Len(p) + Len(q) + 1
    <3>1. i - Len(p) = Len(q) + 1
      BY <1>1, <2>3
    <3> QED BY <1>1, <1>10, <2>3, <3>1
  <2> QED BY <2>1, <2>2, <2>3
<1>8. l = r
  BY <1>4, <1>5, <1>6, <1>7, SeqEqual
<1> QED BY <1>8, <1>9 DEF l

LEMMA PollSound ==
  ASSUME Inv, Sound, NEW w \in Workers, Poll(w)
  PROVE  Sound'
<1> DEFINE ch  == toMaster[w] \o Reports(w)
           rep == IF Reports(w) = <<>> THEN reported[w] ELSE ReportedUB(w)
<1>1. /\ pc[w] = "search" /\ UNCHANGED <<masterVars, given, imported>> /\ WorkerSound(w)
      /\ reported' = [reported EXCEPT ![w] = rep]
  BY DEF Poll, Sound
<1>2. /\ ch \in Seq(ToMasterMsg)
      /\ ClaimsHold(best, ch, w, Charge(w))
      /\ \A c \in Int : VouchedBy(w, c) => Vouched(best, ch, c)
      /\ Vouched(best, ch, rep)
      /\ found[w] # None => rep <= Cost[found[w]]
      /\ Vouched(best, ch, bound[w])
  BY <1>1, ReportsSound
<1>3. reported'[w] = rep /\ (\A v \in Workers \ {w} : reported'[v] = reported[v])
  BY <1>1 DEF Inv, TypeOK, WorkersOK
<1>4. best' = best /\ Charge(w)' = Charge(w) /\ given'[w] = given[w] /\ imported'[w] = imported[w]
  BY <1>1, MasterSame
<1>5. toMaster' = [toMaster EXCEPT ![w] = ch]
      \/ toMaster' = [toMaster EXCEPT ![w] = toMaster[w] \o Append(Reports(w), Request)]
  BY DEF Poll
<1>6. toMaster[w] \o Append(Reports(w), Request) = Append(ch, Request)
  <2>1. toMaster[w] \in Seq(ToMasterMsg) /\ Reports(w) \in Seq(ToMasterMsg) /\ Request \in ToMasterMsg
    BY WorkerTypes, ReportsFacts, PlainMessageType DEF Inv, TypeOK
  <2> QED BY <2>1, ConcatAppend
<1>7. StaticsSound(w) /\ SolverSound(w)
      /\ RepliesHold(best, imported[w], toWorker[w], Charge(w))
  BY <1>1, WorkingFacts DEF Working
<1> HIDE DEF ch, rep
<1>8. /\ ClaimsHold(best, toMaster'[w], w, Charge(w))
      /\ \A c \in Int : VouchedBy(w, c) => Vouched(best, toMaster'[w], c)
      /\ Vouched(best, toMaster'[w], rep) /\ Vouched(best, toMaster'[w], bound[w])
  <2>1. CASE toMaster' = [toMaster EXCEPT ![w] = ch]
    BY <1>2, <2>1 DEF Inv, TypeOK, ChannelsOK
  <2>2. CASE toMaster' = [toMaster EXCEPT ![w] = Append(ch, Request)]
    <3>1. toMaster'[w] = Append(ch, Request)
      BY <2>2 DEF Inv, TypeOK, ChannelsOK
    <3>2. Request \in ToMasterMsg /\ \A S : Claim(Request, w, Charge(w), S)
      BY PlainMessageType DEF Claim, Request
    <3>3. best \in Int /\ bound[w] \in Int /\ rep \in Int
      <4>1. rep \in Costs
        BY WorkerTypes, BestCostType DEF Inv, TypeOK, rep
      <4> QED BY <4>1, WorkerTypes, CostFacts
    <3>4. /\ ClaimsHold(best, Append(ch, Request), w, Charge(w))
          /\ \A c \in Int : Vouched(best, ch, c) => Vouched(best, Append(ch, Request), c)
      BY <1>2, <3>2, <3>3, ClaimsAppend
    <3> QED BY <1>2, <3>1, <3>3, <3>4
  <2> QED BY <1>5, <1>6, <2>1, <2>2
<1>9. \A v \in Workers \ {w} : toMaster'[v] = toMaster[v]
  BY <1>5 DEF Inv, TypeOK, ChannelsOK
<1>10. StaticsSound(w)'
  BY <1>3, <1>4, <1>7, <1>8 DEF StaticsSound, VouchedBy
<1>11. CASE HasTag(toWorker[w], "STOP") /\ Leave(w)
  <2>1. Alone(w)
    BY <1>1, <1>3, <1>9, <1>11, LeaveAlone DEF Alone
  <2>2. pc'[w] = "done" /\ toWorker'[w] = <<>>
    BY <1>11 DEF Leave, Goto, Inv, TypeOK, ChannelsOK, WorkersOK
  <2>3. RepliesHold(best, imported[w], toWorker[w], Charge(w))'
    BY <2>2, RepliesNone
  <2>4. WorkerSound(w)'
    BY <1>4, <1>8, <1>10, <2>2, <2>3 DEF WorkerSound, Working
  <2> QED BY <2>1, <2>4, WorkerAlone
<1>12. ASSUME UNCHANGED <<toWorker, cube, bound, found, lower>>,
              NEW label \in {"interrupted", "split", "ask", "decide"}, Goto(w, label)
       PROVE  Sound'
  <2>1. pc'[w] = label /\ label # "search" /\ (\A v \in Workers \ {w} : pc'[v] = pc[v])
    BY <1>12, LabelFacts DEF Inv, TypeOK
  <2>2. Alone(w)
    BY <1>1, <1>3, <1>9, <1>12, <2>1 DEF Alone
  <2>3. VouchedBy(w, bound[w])'
    BY <1>4, <1>8, <1>12 DEF VouchedBy
  <2>4. \A s \in Charge(w)' : lower'[w] <= Cost[s] \/ VouchedBy(w, Cost[s])'
    BY <1>4, <1>7, <1>8, <1>12, WorkerTypes, CostTypes DEF SolverSound, VouchedBy
  <2>5. SolverSound(w)'
    BY <1>2, <1>3, <1>4, <1>7, <1>12, <2>1, <2>3, <2>4 DEF SolverSound
  <2>6. WorkerSound(w)'
    BY <1>4, <1>7, <1>8, <1>10, <1>12, <2>5 DEF WorkerSound
  <2> QED BY <2>2, <2>6, WorkerAlone
<1>13. \/ HasTag(toWorker[w], "STOP") /\ Leave(w)
       \/ /\ UNCHANGED <<toWorker, cube, bound, found, lower>>
          /\ \E label \in {"interrupted", "split", "ask", "decide"} : Goto(w, label)
  BY DEF Poll
<1> QED BY <1>11, <1>12, <1>13

LEMMA ImportSound ==
  ASSUME Inv, Sound, NEW w \in Workers, Import(w)
  PROVE  Sound'
<1> DEFINE m == Head(toWorker[w])
           cost == m.best
           Sent0 == \/ UNCHANGED toMaster
                    \/ \E excl \in Learnable(w) :
                         w = Original /\ Send(w, [tag |-> "LEARNED_UPDATE", excl |-> excl])
<1>1. /\ pc[w] = "ask" /\ toWorker[w] # <<>> /\ m.tag = "BEST_REPLY"
      /\ toWorker' = [toWorker EXCEPT ![w] = Tail(@)]
      /\ Goto(w, "decide")
      /\ UNCHANGED <<masterVars, cube, given, found, lower, reported, reportedLB>>
      /\ Sent0
  BY DEF Import
<1>2. /\ bound' = [bound EXCEPT ![w] = IF IsNews(w, cost) THEN ObjectiveBound(@, cost) ELSE @]
      /\ imported' = [imported EXCEPT ![w] = IF IsNews(w, cost) THEN cost ELSE @]
  BY DEF Import
<1>3. WorkerSound(w) /\ pc[w] \in Working /\ pc[w] # "search"
  BY <1>1 DEF Sound, Working
<1>4. /\ toWorker[w] \in Seq(ToWorkerMsg) /\ toMaster[w] \in Seq(ToMasterMsg)
      /\ bound[w] \in Int /\ imported[w] \in Int /\ imported[w] <= Inf /\ best \in Int
      /\ Inf \in Int /\ Charge(w) \subseteq Sol /\ bound[w] \in Costs
  BY WorkerTypes, CostTypes, CostFacts
<1>5. /\ ClaimsHold(best, toMaster[w], w, Charge(w))
      /\ RepliesHold(best, imported[w], toWorker[w], Charge(w))
      /\ StaticsSound(w) /\ SolverSound(w)
      /\ VouchedBy(w, bound[w])
      /\ bound[w] <= imported[w]
      /\ \A c, d \in Int : c <= d /\ VouchedBy(w, c) => VouchedBy(w, d)
  BY <1>3, WorkingFacts
<1>6. cost \in Costs /\ cost \in Int /\ cost <= Inf
  BY <1>1, <1>4, TailFacts, ToWorkerPayload, CostTypes
<1>7. best <= cost /\ cost <= imported[w] /\ RepliesHold(best, cost, Tail(toWorker[w]), Charge(w))
  BY <1>1, <1>4, <1>5, RepliesTail
<1>8. /\ best' = best /\ Charge(w)' = Charge(w)
      /\ toWorker'[w] = Tail(toWorker[w]) /\ pc'[w] = "decide" /\ cube'[w] = cube[w]
      /\ given'[w] = given[w] /\ found'[w] = found[w] /\ lower'[w] = lower[w]
      /\ reported'[w] = reported[w]
  BY <1>1, MasterSame DEF Inv, TypeOK, ChannelsOK, WorkersOK, Goto
<1> HIDE DEF cost
<1>9. /\ imported'[w] = cost /\ bound'[w] <= cost /\ bound'[w] <= bound[w] /\ bound'[w] \in Int
      /\ bound'[w] = bound[w] \/ bound'[w] = cost
  BY <1>2, <1>4, <1>5, <1>6, <1>7 DEF Inv, TypeOK, WorkersOK, IsNews, ObjectiveBound, Lesser
<1>10. /\ ClaimsHold(best, toMaster'[w], w, Charge(w))
       /\ \A c \in Int : VouchedBy(w, c) => Vouched(best, toMaster'[w], c)
       /\ \A v \in Workers \ {w} : toMaster'[v] = toMaster[v]
  <2>1. CASE UNCHANGED toMaster
    BY <1>5, <2>1 DEF VouchedBy
  <2>2. ASSUME NEW excl \in Learnable(w), w = Original,
               Send(w, [tag |-> "LEARNED_UPDATE", excl |-> excl])
        PROVE  /\ ClaimsHold(best, toMaster'[w], w, Charge(w))
               /\ \A c \in Int : VouchedBy(w, c) => Vouched(best, toMaster'[w], c)
               /\ \A v \in Workers \ {w} : toMaster'[v] = toMaster[v]
    <3> DEFINE l == [tag |-> "LEARNED_UPDATE", excl |-> excl]
               S == {s \in Sol : VouchedBy(w, Cost[s]) \/ CostIn(l) <= Cost[s]}
    <3>1. excl \subseteq Sol /\ excl \cap Candidates(w, bound[w]) = {}
      BY <2>2, BoundAssumption DEF Learnable
    <3>2. l \in ToMasterMsg
      BY <3>1 DEF ToMasterMsg, LearnedMsg
    <3>3. Charge(w) = Sol
      BY <2>2 DEF Charge
    <3>4. ASSUME NEW s \in excl PROVE VouchedBy(w, Cost[s])
      <4>1. s \in Charge(w) /\ s \notin Candidates(w, bound[w]) /\ Cost[s] \in Int
        BY <3>1, <3>3, CostTypes
      <4>2. best <= Cost[s] \/ bound[w] <= Cost[s]
        BY <1>4, <1>5, <4>1, NotCandidate
      <4> QED BY <1>4, <1>5, <4>1, <4>2 DEF VouchedBy, Vouched, KnownTo
    <3>5. excl \subseteq S
      BY <3>1, <3>4
    <3>6. l.tag = "LEARNED_UPDATE" /\ l.excl = excl /\ Send(w, l)
      BY <2>2
    <3> HIDE DEF l
    <3>7. Claim(l, w, Charge(w), S)
      BY <3>5, <3>6 DEF Claim
    <3> HIDE DEF S
    <3>8. toMaster'[w] = Append(toMaster[w], l) /\ (\A v \in Workers \ {w} : toMaster'[v] = toMaster[v])
      BY <3>2, <3>6, SendFacts DEF Inv, TypeOK
    <3> QED BY <1>5, <3>2, <3>7, <3>8, Told DEF S
  <2> QED BY <1>1, <2>1, <2>2
<1>11. Alone(w)
  <2>1. \A v \in Workers \ {w} : /\ toWorker'[v] = toWorker[v] /\ pc'[v] = pc[v]
                                 /\ bound'[v] = bound[v] /\ imported'[v] = imported[v]
    BY <1>1, <1>2 DEF Inv, TypeOK, ChannelsOK, WorkersOK, Goto
  <2> QED BY <1>1, <1>10, <2>1 DEF Alone
<1>12. StaticsSound(w)'
  <2>1. reported[w] \in Int
    BY WorkerTypes
  <2> QED BY <1>5, <1>7, <1>8, <1>9, <1>10, <2>1 DEF StaticsSound, VouchedBy
<1>13. SolverSound(w)'
  <2>1. VouchedBy(w, bound[w])'
    <3>1. Vouched(best, toMaster'[w], bound'[w])
      <4>1. CASE bound'[w] = bound[w]
        BY <1>4, <1>5, <1>10, <4>1
      <4>2. CASE bound'[w] = cost
        BY <1>7, <4>2 DEF Vouched, KnownTo
      <4> QED BY <1>9, <4>1, <4>2
    <3> QED BY <1>8, <3>1 DEF VouchedBy
  <2>2. \A s \in Charge(w) : lower[w] <= Cost[s] \/ Vouched(best, toMaster'[w], Cost[s])
    BY <1>4, <1>5, <1>10, CostTypes DEF SolverSound
  <2>3. found[w] # None => bound'[w] <= Cost[found[w]]
    <3>1. found[w] # None => Cost[found[w]] \in Int
      BY WorkerTypes, CostTypes
    <3> QED BY <1>4, <1>5, <1>9, <3>1 DEF SolverSound
  <2>4. found[w] # None => reported[w] <= Cost[found[w]] /\ Optimizing
    BY <1>3, <1>5 DEF SolverSound
  <2>5. cube[w].region = Charge(w) /\ TaskSoundTo(best, cube[w])
    BY <1>5 DEF SolverSound
  <2> QED BY <1>8, <1>9, <2>1, <2>2, <2>3, <2>4, <2>5 DEF SolverSound, VouchedBy
<1>14. WorkerSound(w)'
  BY <1>7, <1>8, <1>9, <1>10, <1>12, <1>13, AtWork
<1> QED BY <1>11, <1>14, WorkerAlone

(* What is left of a worker's channel once it has received a reply. *)
LEMMA ReplyTaken ==
  ASSUME Inv, NEW w \in Workers, WorkerSound(w), NEW tag \in {"BEST_REPLY", "RESULT"},
         HasTag(toWorker[w], tag),
         toWorker' = [toWorker EXCEPT ![w] = RemoveAt(@, FirstTagged(toWorker[w], tag))]
  PROVE  LET reply == toWorker[w][FirstTagged(toWorker[w], tag)].best
         IN /\ reply \in Costs /\ reply \in Int /\ best <= reply
            /\ RepliesHold(best, imported[w], toWorker'[w], Charge(w))
            /\ \A v \in Workers \ {w} : toWorker'[v] = toWorker[v]
<1> DEFINE i == FirstTagged(toWorker[w], tag)
<1>1. toWorker[w] \in Seq(ToWorkerMsg)
  BY WorkerTypes
<1>2. i \in 1 .. Len(toWorker[w]) /\ toWorker[w][i] \in ToWorkerMsg /\ toWorker[w][i].tag = tag
  BY <1>1, FirstTaggedFacts
<1> HIDE DEF i
<1>3. toWorker[w][i].best \in Costs /\ toWorker[w][i].best \in Int
  BY <1>2, ToWorkerPayload, CostFacts
<1>4. RepliesHold(best, imported[w], toWorker[w], Charge(w))
  BY DEF WorkerSound
<1>5. best <= toWorker[w][i].best
  BY <1>2, <1>4 DEF RepliesHold
<1>6. RepliesHold(best, imported[w], RemoveAt(toWorker[w], i), Charge(w))
  BY <1>1, <1>2, <1>4, RepliesRemove
<1>7. /\ toWorker'[w] = RemoveAt(toWorker[w], i)
      /\ \A v \in Workers \ {w} : toWorker'[v] = toWorker[v]
  BY DEF i, Inv, TypeOK, ChannelsOK
<1> QED BY <1>3, <1>5, <1>6, <1>7 DEF i

LEMMA ExternalUBSound ==
  ASSUME Inv, Sound, NEW w \in Workers, ExternalUB(w)
  PROVE  Sound'
<1> DEFINE ub == toWorker[w][FirstTagged(toWorker[w], "BEST_REPLY")].best
<1>1. /\ pc[w] = "ask" /\ HasTag(toWorker[w], "BEST_REPLY")
      /\ toWorker' = [toWorker EXCEPT ![w] = RemoveAt(@, FirstTagged(toWorker[w], "BEST_REPLY"))]
      /\ UNCHANGED <<masterVars, given, statics>>
  BY DEF ExternalUB
<1>2. \/ ub < lower[w] /\ Answer(w)
      \/ /\ bound' = [bound EXCEPT ![w] = ObjectiveBound(@, ub)]
         /\ Goto(w, "decide")
         /\ UNCHANGED <<toMaster, cube, found, lower>>
  BY DEF ExternalUB
<1>3. WorkerSound(w) /\ pc[w] \in Working /\ pc[w] # "search"
  BY <1>1 DEF Sound, Working
<1>4. /\ ub \in Costs /\ ub \in Int /\ best <= ub
      /\ RepliesHold(best, imported[w], toWorker'[w], Charge(w))
      /\ \A v \in Workers \ {w} : toWorker'[v] = toWorker[v]
  BY <1>1, <1>3, ReplyTaken
<1> HIDE DEF ub
<1>5. /\ ClaimsHold(best, toMaster[w], w, Charge(w))
      /\ StaticsSound(w) /\ SolverSound(w)
      /\ VouchedBy(w, bound[w])
      /\ \A s \in Charge(w) : lower[w] <= Cost[s] \/ VouchedBy(w, Cost[s])
  BY <1>3, WorkingFacts
<1>6. /\ best \in Int /\ lower[w] \in Int /\ bound[w] \in Int /\ imported[w] \in Int
      /\ Charge(w) \subseteq Sol
  BY WorkerTypes
<1>7. CASE ub < lower[w] /\ Answer(w)
  <2>1. \A s \in Charge(w) : VouchedBy(w, Cost[s]) \/ bound[w] <= Cost[s]
    <3>1. \A s \in Charge(w) : Cost[s] \in Int
      BY <1>6, CostTypes
    <3>2. \A s \in Charge(w) : lower[w] <= Cost[s] => best <= Cost[s]
      BY <1>4, <1>6, <1>7, <3>1
    <3> QED BY <1>5, <3>2 DEF VouchedBy, Vouched, KnownTo
  <2>2. WorkerSound(w)' /\ \A v \in Workers \ {w} : toMaster'[v] = toMaster[v]
    BY <1>1, <1>3, <1>4, <1>7, <2>1, AnswerSound
  <2>3. Alone(w)
    BY <1>1, <1>4, <1>7, <2>2, DisposeAlone DEF Alone, Answer, Goto, Inv, TypeOK, WorkersOK, statics
  <2> QED BY <2>2, <2>3, WorkerAlone
<1>8. CASE /\ bound' = [bound EXCEPT ![w] = ObjectiveBound(@, ub)]
           /\ Goto(w, "decide")
           /\ UNCHANGED <<toMaster, cube, found, lower>>
  <2>1. /\ bound'[w] = Lesser(bound[w], ub) /\ pc'[w] = "decide"
        /\ \A v \in Workers \ {w} : bound'[v] = bound[v] /\ pc'[v] = pc[v]
    BY <1>8 DEF Inv, TypeOK, WorkersOK, Goto, ObjectiveBound
  <2>2. bound'[w] <= bound[w] /\ bound'[w] \in Int /\ (bound'[w] = bound[w] \/ bound'[w] = ub)
    BY <1>4, <1>6, <2>1 DEF Lesser
  <2>3. Alone(w)
    BY <1>1, <1>4, <1>8, <2>1 DEF Alone, statics
  <2>4. VouchedBy(w, bound'[w])
    <3>1. VouchedBy(w, ub)
      BY <1>4 DEF VouchedBy, Vouched, KnownTo
    <3> QED BY <1>5, <2>2, <3>1
  <2>5. best' = best /\ Charge(w)' = Charge(w)
    BY <1>1, MasterSame
  <2>6. found[w] # None => bound'[w] <= Cost[found[w]]
    <3>1. found[w] # None => Cost[found[w]] \in Int
      BY WorkerTypes, CostTypes
    <3> QED BY <1>5, <1>6, <2>2, <3>1 DEF SolverSound
  <2>7. bound'[w] <= imported[w]
    BY <1>5, <1>6, <2>2 DEF SolverSound
  <2>8. SolverSound(w)'
    BY <1>1, <1>3, <1>5, <1>8, <2>1, <2>4, <2>5, <2>6, <2>7 DEF SolverSound, VouchedBy, statics
  <2>9. StaticsSound(w)'
    BY <1>1, <1>5, <1>8, <2>5 DEF StaticsSound, VouchedBy, statics
  <2>10. WorkerSound(w)'
    BY <1>1, <1>4, <1>5, <1>8, <2>5, <2>8, <2>9, AtWork DEF statics
  <2> QED BY <2>3, <2>10, WorkerAlone
<1> QED BY <1>2, <1>7, <1>8

LEMMA ReceiveIncumbentSound ==
  ASSUME Inv, Sound, NEW w \in CubeWorkers, ReceiveIncumbent(w)
  PROVE  Sound'
<1> DEFINE reply == toWorker[w][FirstTagged(toWorker[w], "RESULT")].best
<1>1. /\ pc[w] = "incumbent" /\ HasTag(toWorker[w], "RESULT")
      /\ toWorker' = [toWorker EXCEPT ![w] = RemoveAt(@, FirstTagged(toWorker[w], "RESULT"))]
      /\ given' = [given EXCEPT ![w] = reply]
      /\ Goto(w, "split")
      /\ UNCHANGED <<toMaster, masterVars, cube, bound, found, lower, statics>>
  BY DEF ReceiveIncumbent
<1>2. w \in Workers /\ WorkerSound(w) /\ pc[w] \in Working /\ pc[w] # "search"
  BY <1>1, WorkerFacts DEF Sound, Working
<1>3. /\ reply \in Int /\ best <= reply
      /\ RepliesHold(best, imported[w], toWorker'[w], Charge(w))
      /\ \A v \in Workers \ {w} : toWorker'[v] = toWorker[v]
  BY <1>1, <1>2, ReplyTaken
<1> HIDE DEF reply
<1>4. /\ given'[w] = reply /\ pc'[w] = "split"
      /\ \A v \in Workers \ {w} : given'[v] = given[v] /\ pc'[v] = pc[v]
  BY <1>1, <1>2 DEF Inv, TypeOK, WorkersOK, Goto
<1>5. Alone(w)
  BY <1>1, <1>3, <1>4 DEF Alone, statics
<1>6. best' = best /\ Charge(w)' = Charge(w)
  BY <1>1, MasterSame
<1>7. /\ ClaimsHold(best, toMaster[w], w, Charge(w))
      /\ StaticsSound(w) /\ SolverSound(w)
  BY <1>2, WorkingFacts
<1>8. SolverSound(w)'
  BY <1>1, <1>2, <1>4, <1>6, <1>7 DEF SolverSound, VouchedBy, statics
<1>9. StaticsSound(w)'
  BY <1>1, <1>3, <1>4, <1>6, <1>7 DEF StaticsSound, VouchedBy, statics
<1>10. WorkerSound(w)'
  BY <1>1, <1>2, <1>3, <1>6, <1>7, <1>8, <1>9, AtWork DEF statics
<1> QED BY <1>2, <1>5, <1>10, WorkerAlone

LEMMA SplitCubeSound ==
  ASSUME Inv, Sound, NEW w \in CubeWorkers, SplitCube(w)
  PROVE  Sound'
<1>1. /\ pc[w] = "split" /\ Goto(w, "idle") /\ Dispose(w)
      /\ UNCHANGED <<toWorker, masterVars, given, statics>>
      /\ \E excl \in Clauses \cup {{}} :
           /\ excl \cap Candidates(w, bound[w]) = {}
           /\ \E parts \in Partitions(cube[w].region, KeptBySplit(w, excl)) :
                Send(w, Subcubes(parts, excl))
  BY DEF SplitCube
<1>2. w \in Workers /\ w # Original /\ WorkerSound(w) /\ pc[w] \in Working /\ pc[w] # "search"
  BY <1>1, WorkerFacts DEF Sound, Working
<1>3. PICK excl \in Clauses \cup {{}} :
        /\ excl \cap Candidates(w, bound[w]) = {}
        /\ \E parts \in Partitions(cube[w].region, KeptBySplit(w, excl)) :
             Send(w, Subcubes(parts, excl))
  BY <1>1
<1>4. PICK parts \in Partitions(cube[w].region, KeptBySplit(w, excl)) :
        Send(w, Subcubes(parts, excl))
  BY <1>3
<1> DEFINE m == Subcubes(parts, excl)
           S == {s \in Sol : VouchedBy(w, Cost[s]) \/ CostIn(m) <= Cost[s]}
<1>5. /\ cube[w].region \subseteq Sol /\ excl \subseteq Sol
      /\ parts \in SUBSET SUBSET cube[w].region
      /\ KeptBySplit(w, excl) \subseteq UNION parts
  <2>1. cube[w].region \subseteq Sol
    BY <1>2, WorkerTypes DEF Task
  <2> QED BY <2>1, BoundAssumption DEF Partitions
<1>6. m \in ToMasterMsg
  <2>1. parts \in SUBSET SUBSET Sol
    BY <1>5
  <2>2. IsFiniteSet(parts) /\ Cardinality(parts) \in Nat
    BY <2>1, ProblemAssumption, FS_SUBSET, FS_Subset, FS_CardinalityType
  <2>3. m \in ResultMsg
    BY <1>5, <2>1, <2>2 DEF Subcubes, ResultMsg, Codes
  <2> QED BY <2>3 DEF ToMasterMsg
<1>7. /\ ClaimsHold(best, toMaster[w], w, Charge(w))
      /\ RepliesHold(best, imported[w], toWorker[w], Charge(w))
      /\ StaticsSound(w) /\ SolverSound(w)
      /\ cube[w].region = Charge(w)
      /\ VouchedBy(w, bound[w]) /\ best <= given[w]
      /\ \A c, d \in Int : c <= d /\ VouchedBy(w, c) => VouchedBy(w, d)
  BY <1>2, WorkingFacts
<1>8. /\ best \in Int /\ bound[w] \in Int /\ given[w] \in Int /\ Charge(w) \subseteq Sol
  BY <1>2, WorkerTypes
<1>9. ASSUME NEW s \in Charge(w), s \in excl \/ s \notin UNION parts PROVE VouchedBy(w, Cost[s])
  <2>1. Cost[s] \in Int
    BY <1>8, CostTypes
  <2>2. CASE s \in excl
    <3>1. best <= Cost[s] \/ bound[w] <= Cost[s]
      BY <1>2, <1>3, <1>7, <1>8, <2>2, NotCandidate
    <3> QED BY <1>7, <1>8, <2>1, <3>1 DEF VouchedBy, Vouched, KnownTo
  <2>3. CASE s \notin excl /\ s \notin UNION parts
    <3>1. s \notin Candidates(w, given[w])
      BY <1>5, <2>3 DEF KeptBySplit
    <3>2. best <= Cost[s] \/ given[w] <= Cost[s]
      BY <1>2, <1>7, <1>8, <3>1, NotCandidate
    <3>3. best <= Cost[s]
      BY <1>7, <1>8, <2>1, <3>2
    <3> QED BY <3>3 DEF VouchedBy, Vouched, KnownTo
  <2> QED BY <1>9, <2>2, <2>3
<1>10. m.tag = "RESULT" /\ m.code = 30 /\ m.parts = parts /\ m.excl = excl /\ Send(w, m)
  BY <1>4 DEF Subcubes
<1> HIDE DEF m
<1>11. /\ Charge(w) \ UNION parts \subseteq S
       /\ Charge(w) \cap excl \subseteq S
       /\ UNION parts \subseteq Charge(w)
  BY <1>5, <1>7, <1>8, <1>9
<1> HIDE DEF S
<1>12. Claim(m, w, Charge(w), S)
  <2>1. ResultClaim(m, w, Charge(w), S)
    BY <1>2, <1>10, <1>11 DEF ResultClaim
  <2> QED BY <1>10, <2>1 DEF Claim
<1>13. /\ toMaster'[w] = Append(toMaster[w], m)
       /\ \A v \in Workers \ {w} : toMaster'[v] = toMaster[v]
       /\ pc'[w] = "idle" /\ (\A v \in Workers \ {w} : pc'[v] = pc[v])
  BY <1>1, <1>2, <1>6, <1>10, SendFacts, LabelFacts DEF Inv, TypeOK
<1>14. /\ ClaimsHold(best, toMaster'[w], w, Charge(w))
       /\ \A c \in Int : VouchedBy(w, c) => Vouched(best, toMaster'[w], c)
  BY <1>2, <1>6, <1>7, <1>12, <1>13, Told DEF S
<1>15. Alone(w)
  BY <1>1, <1>2, <1>13, DisposeAlone DEF Alone, statics
<1>16. /\ given'[w] = given[w] /\ reported'[w] = reported[w] /\ imported'[w] = imported[w]
       /\ toWorker'[w] = toWorker[w] /\ UNCHANGED masterVars /\ pc'[w] \notin Working
       /\ reported[w] \in Int
  BY <1>1, <1>2, <1>13, WorkerTypes DEF statics, Working
<1>17. WorkerSound(w)'
  BY <1>2, <1>7, <1>14, <1>16, AtRest
<1> QED BY <1>2, <1>15, <1>17, WorkerAlone

LEMMA SplitFindsSatSound ==
  ASSUME Inv, Sound, NEW w \in CubeWorkers, SplitFindsSat(w)
  PROVE  Sound'
<1> DEFINE m == Result(10, 0, None)
<1>1. /\ pc[w] = "split" /\ ~Optimizing /\ KeptBySplit(w, {}) # {}
      /\ Send(w, m) /\ Leave(w) /\ UNCHANGED <<masterVars, given, statics>>
  BY DEF SplitFindsSat
<1>2. w \in Workers /\ WorkerSound(w) /\ ClaimsHold(best, toMaster[w], w, Charge(w))
      /\ w # Original
  BY WorkerFacts DEF Sound, WorkerSound
<1>3. Sol # {}
  BY <1>1, <1>2, WorkerTypes DEF KeptBySplit, Candidates, Task
<1>4. m \in ToMasterMsg
  BY <1>1, ResultType DEF Codes
<1>5. m.tag = "RESULT" /\ m.code = 10
  BY DEF Result
<1> HIDE DEF m
<1>6. \A S : Claim(m, w, Charge(w), S)
  BY <1>1, <1>3, <1>5 DEF Claim, ResultClaim
<1>7. toMaster'[w] = Append(toMaster[w], m) /\ (\A v \in Workers \ {w} : toMaster'[v] = toMaster[v])
  BY <1>1, <1>2, <1>4, SendFacts DEF Inv, TypeOK
<1>8. /\ ClaimsHold(best, toMaster'[w], w, Charge(w))
      /\ \A c \in Int : VouchedBy(w, c) => Vouched(best, toMaster'[w], c)
  BY <1>2, <1>4, <1>6, <1>7, Told
<1>9. given'[w] = given[w] /\ reported'[w] = reported[w] /\ imported'[w] = imported[w]
      /\ UNCHANGED masterVars /\ reported[w] \in Int
  BY <1>1, <1>2, WorkerTypes DEF statics
<1>10. WorkerSound(w)'
  BY <1>1, <1>2, <1>8, <1>9, LeaveSound
<1>11. Alone(w)
  BY <1>1, <1>2, <1>7, LeaveAlone DEF Alone, statics
<1> QED BY <1>2, <1>10, <1>11, WorkerAlone

-----------------------------------------------------------------------------
(***************************************************************************)
(* The master's steps.                                                     *)
(***************************************************************************)

(* What a master's step may do to the messages of worker v: receive the first
   one, and take in the cost it tells. *)
Hears(v) ==
  \/ toMaster'[v] = toMaster[v]
  \/ /\ toMaster[v] # <<>> /\ toMaster'[v] = Tail(toMaster[v])
     /\ best' <= CostIn(Head(toMaster[v]))

(* What it may tell worker v: its incumbent, or a STOP. *)
Tells(v) ==
  \/ toWorker'[v] = toWorker[v]
  \/ \E m \in ToWorkerMsg : /\ m.tag # "WORK" /\ (m.tag # "STOP" => m.best = best')
                            /\ toWorker'[v] = Append(toWorker[v], m)

(* A worker the master hears or tells something, or gives another cube. *)
LEMMA HeardSound ==
  ASSUME Inv, Inv', NEW v \in Workers, WorkerSound(v), UNCHANGED workerVars, best' <= best,
         Hears(v),
         Charge(v)' = Charge(v) \/ (toMaster'[v] = <<>> /\ pc[v] \notin Working),
         RepliesHold(best', imported[v], toWorker'[v], Charge(v)')
  PROVE  WorkerSound(v)'
<1>1. /\ toMaster[v] \in Seq(ToMasterMsg) /\ best \in Int /\ Charge(v) \subseteq Sol
      /\ bound[v] \in Int /\ reported[v] \in Int /\ given[v] \in Int /\ imported[v] \in Int
      /\ cube[v] \in Task
  BY WorkerTypes
<1>2. best' \in Int
  BY CostFacts DEF Inv, TypeOK, MasterOK
<1>3. /\ pc'[v] = pc[v] /\ cube'[v] = cube[v] /\ given'[v] = given[v] /\ bound'[v] = bound[v]
      /\ found'[v] = found[v] /\ lower'[v] = lower[v] /\ reported'[v] = reported[v]
      /\ imported'[v] = imported[v]
  BY DEF workerVars, solverVars, statics
<1>4. ClaimsHold(best, toMaster[v], v, Charge(v)) /\ StaticsSound(v)
      /\ (pc[v] \in Working => SolverSound(v))
  BY DEF WorkerSound
<1>5. /\ \A c \in Int : VouchedBy(v, c) => Vouched(best', toMaster'[v], c)
      /\ ClaimsHold(best', toMaster'[v], v, Charge(v))
  <2>1. CASE toMaster'[v] = toMaster[v]
    BY <1>1, <1>2, <1>4, <2>1, ClaimsLower DEF VouchedBy
  <2>2. CASE /\ toMaster[v] # <<>> /\ toMaster'[v] = Tail(toMaster[v])
             /\ best' <= CostIn(Head(toMaster[v]))
    BY <1>1, <1>2, <1>4, <2>2, ClaimsTail DEF VouchedBy
  <2> QED BY <2>1, <2>2 DEF Hears
<1>6. ClaimsHold(best', toMaster'[v], v, Charge(v)')
  <2>1. CASE toMaster'[v] = <<>>
    BY <2>1, ClaimsNone
  <2> QED BY <1>5, <2>1
<1>7. StaticsSound(v)'
  BY <1>1, <1>2, <1>3, <1>4, <1>5 DEF StaticsSound, VouchedBy
<1>8. ASSUME pc[v] \in Working PROVE SolverSound(v)'
  <2>1. Charge(v)' = Charge(v) /\ SolverSound(v)
    BY <1>4, <1>8
  <2>2. TaskSoundTo(best', cube[v])
    BY <1>1, <1>2, <2>1, TaskLower DEF SolverSound
  <2>3. \A s \in Charge(v) : lower[v] <= Cost[s] \/ Vouched(best', toMaster'[v], Cost[s])
    BY <1>1, <1>5, <2>1, CostTypes DEF SolverSound
  <2> QED BY <1>1, <1>3, <1>5, <2>1, <2>2, <2>3 DEF SolverSound, VouchedBy
<1> QED BY <1>3, <1>6, <1>7, <1>8 DEF WorkerSound

(* The incumbent on its way to a worker is the best there has been. *)
LEMMA ToldSound ==
  ASSUME Inv, Inv', NEW v \in Workers, WorkerSound(v), best' <= best, Tells(v)
  PROVE  RepliesHold(best', imported[v], toWorker'[v], Charge(v))
<1>1. toWorker[v] \in Seq(ToWorkerMsg) /\ best \in Int /\ imported[v] \in Int
  BY WorkerTypes
<1>2. best' \in Int
  BY CostFacts DEF Inv, TypeOK, MasterOK
<1>3. RepliesHold(best, imported[v], toWorker[v], Charge(v)) /\ best <= imported[v]
  BY DEF WorkerSound, StaticsSound
<1> DEFINE R == Charge(v)
<1>6. RepliesHold(best, imported[v], toWorker[v], R)
  BY <1>3
<1> HIDE DEF R
<1>7. RepliesHold(best', imported[v], toWorker[v], R)
  BY <1>1, <1>2, <1>6, RepliesLower
<1>4. RepliesHold(best', imported[v], toWorker[v], R) /\ best' <= imported[v]
  BY <1>1, <1>2, <1>3, <1>7
<1>5. RepliesHold(best', imported[v], toWorker'[v], R)
  BY <1>1, <1>2, <1>4, RepliesAppend DEF Tells
<1> QED BY <1>5 DEF R

(* A worker with no work on its way is sent some, or none. *)
LEMMA TaskedSound ==
  ASSUME Inv, Inv', NEW v \in Workers, WorkerSound(v), best' <= best,
         ~HasTag(toWorker[v], "WORK"), NEW R,
         \/ toWorker'[v] = toWorker[v]
         \/ \E m \in ToWorkerMsg :
              /\ m.tag # "STOP" => m.best = best'
              /\ m.tag = "WORK" => m.task.region = R /\ TaskSoundTo(best', m.task)
              /\ toWorker'[v] = Append(toWorker[v], m)
  PROVE  RepliesHold(best', imported[v], toWorker'[v], R)
<1>1. toWorker[v] \in Seq(ToWorkerMsg) /\ best \in Int /\ imported[v] \in Int
  BY WorkerTypes
<1>2. best' \in Int
  BY CostFacts DEF Inv, TypeOK, MasterOK
<1>3. RepliesHold(best, imported[v], toWorker[v], R) /\ best <= imported[v]
  BY DEF WorkerSound, StaticsSound, RepliesHold, HasTag
<1>4. RepliesHold(best', imported[v], toWorker[v], R) /\ best' <= imported[v]
  BY <1>1, <1>2, <1>3, RepliesLower
<1> QED BY <1>1, <1>2, <1>4, RepliesAppend

(* What the master learns from the message it receives is true. *)
LEMMA HeadSound ==
  ASSUME Inv, Inv', NEW w \in Workers, WorkerSound(w), toMaster[w] # <<>>,
         best' <= best, best' <= CostIn(Head(toMaster[w]))
  PROVE  /\ Head(toMaster[w]) \in ToMasterMsg
         /\ Claim(Head(toMaster[w]), w, Charge(w), {s \in Sol : best' <= Cost[s]})
<1>1. toMaster[w] \in Seq(ToMasterMsg) /\ best \in Int
  BY WorkerTypes
<1>2. best' \in Int
  BY CostFacts DEF Inv, TypeOK, MasterOK
<1>3. ClaimsHold(best, toMaster[w], w, Charge(w))
  BY DEF WorkerSound
<1>4. Claim(Head(toMaster[w]), w, Charge(w), {s \in Sol : best' <= Cost[s]})
  BY <1>1, <1>2, <1>3, ClaimsTail
<1> QED BY <1>1, <1>4, TailFacts

(* A step in which the master hears one worker, tells any, and leaves the cubes
   where they are. *)
LEMMA HearingSound ==
  ASSUME Inv, Inv', Sound, NEW w \in Workers, toMaster[w] # <<>>, Consume(w),
         best' <= best, best' <= CostIn(Head(toMaster[w])),
         UNCHANGED <<queue, cubeOf, awaited, workerVars>>,
         \A v \in Workers : Tells(v),
         phase' = phase \/ phase' = "stuck",
         flags'.satInGeneration = flags.satInGeneration
  PROVE  /\ \A v \in Workers : WorkerSound(v)' /\ Charge(v)' = Charge(v)
         /\ TasksSound' /\ CollectSound' /\ CoverSound'
         /\ Head(toMaster[w]) \in ToMasterMsg
         /\ Claim(Head(toMaster[w]), w, Charge(w), {s \in Sol : best' <= Cost[s]})
<1>1. best \in Int /\ best' \in Int
  BY CostFacts DEF Inv, TypeOK, MasterOK
<1>2. \A v : Charge(v)' = Charge(v)
  BY DEF Charge
<1>3. ASSUME NEW v \in Workers PROVE WorkerSound(v)'
  <2>1. Hears(v)
    BY ConsumeFacts DEF Hears, Inv, TypeOK
  <2>2. WorkerSound(v) /\ Tells(v)
    BY DEF Sound
  <2>3. RepliesHold(best', imported[v], toWorker'[v], Charge(v)')
    BY <1>2, <2>2, ToldSound
  <2> QED BY <1>2, <2>1, <2>2, <2>3, HeardSound
<1>4. TasksSound'
  <2>1. Open' = Open /\ \A task \in Open : task \in Task
    BY DEF Open, Inv, TypeOK, MasterOK, Range
  <2> QED BY <1>1, <2>1, TaskLower DEF Sound, MasterSound, TasksSound
<1>5. CollectSound'
  BY DEF Sound, MasterSound, CollectSound
<1>6. CoverSound'
  BY <1>1, CostTypes DEF Sound, MasterSound, CoverSound, Open
<1>7. /\ Head(toMaster[w]) \in ToMasterMsg
      /\ Claim(Head(toMaster[w]), w, Charge(w), {s \in Sol : best' <= Cost[s]})
  BY HeadSound DEF Sound
<1> QED BY <1>2, <1>3, <1>4, <1>5, <1>6, <1>7

LEMMA SharedLower ==
  ASSUME Inv, Inv', Sound, best' <= best, UNCHANGED <<cubeOf, lbOf, globalLB, learned>>
  PROVE  SharedSound'
<1>1. best \in Int /\ best' \in Int
  BY CostFacts DEF Inv, TypeOK, MasterOK
<1>2. \A w \in CubeWorkers : Charge(w)' = Charge(w) /\ Charge(w) \subseteq Sol
  BY WorkerFacts, ChargeType DEF Charge, Inv, TypeOK
<1>3. \A s \in Sol : s \in learned' \/ Cost[s] < globalLB' => best' <= Cost[s]
  BY <1>1, CostTypes DEF Sound, MasterSound, SharedSound
<1>4. \A w \in CubeWorkers : \A s \in Charge(w)' : Cost[s] < lbOf'[w] => best' <= Cost[s]
  BY <1>1, <1>2, CostTypes DEF Sound, MasterSound, SharedSound
<1> QED BY <1>3, <1>4 DEF SharedSound

(* What the flags say when the incumbent may have improved. *)
LEMMA FlagsLower ==
  ASSUME Inv, Inv', Sound, best' <= best,
         flags' = [flags EXCEPT !.feasibleSeen = best' < Inf],
         best' < Inf => Optimizing,
         UNCHANGED <<phase, activeWorkers, verdict>>
  PROVE  FlagsSound'
<1>1. best \in Int /\ best' \in Int /\ Inf \in Int /\ flags \in Flags
  BY CostFacts DEF Inv, TypeOK, MasterOK
<1>2. /\ flags'.feasibleSeen <=> best' < Inf
      /\ flags'.satFound = flags.satFound /\ flags'.satInGeneration = flags.satInGeneration
      /\ flags'.origActive = flags.origActive /\ flags'.origUnsat = flags.origUnsat
      /\ flags'.origOptimum = flags.origOptimum /\ flags'.unknownSeen = flags.unknownSeen
      /\ flags'.stopSent = flags.stopSent
  BY <1>1 DEF Flags
<1>3. FlagsSound
  BY DEF Sound, MasterSound
<1>4. best < Inf => best' < Inf
  BY <1>1
<1>5. (\A s \in Sol : best <= Cost[s]) => \A s \in Sol : best' <= Cost[s]
  BY <1>1, CostTypes
<1> QED BY <1>2, <1>3, <1>4, <1>5 DEF FlagsSound

(* What a message tells keeps the incumbent the best cost told. *)
LEMMA IncumbentFacts ==
  ASSUME Inv, NEW cost \in Costs, best' = Lesser(best, cost)
  PROVE  /\ best' <= best /\ best' <= cost /\ best' \in Int
         /\ best' < Inf <=> best < Inf \/ cost < Inf
<1>1. best \in Int /\ cost \in Int /\ Inf \in Int /\ best <= Inf /\ cost <= Inf
  BY CostFacts, CostTypes DEF Inv, TypeOK, MasterOK
<1> QED BY <1>1 DEF Lesser

LEMMA ReplyBestSound ==
  ASSUME Inv, Inv', Sound, NEW w \in Workers, ReplyBest(w)
  PROVE  Sound'
<1> DEFINE m == [tag |-> "BEST_REPLY", best |-> best]
<1>1. /\ toMaster[w] # <<>> /\ Head(toMaster[w]).tag = "BEST_REQUEST" /\ Consume(w)
      /\ toWorker' = [toWorker EXCEPT ![w] = Append(@, m)]
      /\ UNCHANGED <<masterVars, workerVars>>
  BY DEF ReplyBest, Incoming
<1>2. best' = best /\ best \in Int /\ best <= Inf /\ best \in Costs
  BY <1>1, MasterSame, CostFacts, CostTypes DEF Inv, TypeOK, MasterOK
<1>3. CostIn(Head(toMaster[w])) = Inf
  BY <1>1 DEF CostIn
<1>4. m \in ToWorkerMsg /\ m.tag # "WORK" /\ m.best = best'
  BY <1>2 DEF ToWorkerMsg, ReplyMsg
<1> HIDE DEF m
<1>5. \A v \in Workers : Tells(v)
  BY <1>1, <1>4 DEF Tells, Inv, TypeOK, ChannelsOK
<1>6. \A v \in Workers : WorkerSound(v)'
  <2>1. UNCHANGED <<queue, cubeOf, awaited, phase, flags>>
    BY <1>1 DEF masterVars, ledger
  <2>2. best' <= best /\ best' <= CostIn(Head(toMaster[w]))
    BY <1>2, <1>3
  <2>3. flags'.satInGeneration = flags.satInGeneration
    BY <2>1
  <2> QED BY <1>1, <1>5, <2>1, <2>2, <2>3, HearingSound
<1>7. MasterSound'
  BY <1>1, MasterAlone DEF Sound
<1> QED BY <1>6, <1>7 DEF Sound

LEMMA TakeBoundsSound ==
  ASSUME Inv, Inv', Sound, NEW w \in Workers, TakeBounds(w)
  PROVE  Sound'
<1> DEFINE m == Head(toMaster[w])
<1>1. /\ toMaster[w] # <<>> /\ m.tag = "BOUNDS" /\ Consume(w)
      /\ lbOf' = [lbOf EXCEPT ![w] = IF m.lb # NegInf THEN m.lb ELSE @]
      /\ globalLB' = GlobalBound(w, m.lb)
      /\ best' = Lesser(best, m.ub)
      /\ flags' = [flags EXCEPT !.feasibleSeen = @ \/ m.ub < Inf]
      /\ UNCHANGED <<toWorker, phase, awaited, queue, cubeOf, activeWorkers,
                     bestSol, learned, verdict, workerVars>>
  BY DEF TakeBounds, Incoming, Incumbent
<1>2. m \in ToMasterMsg /\ m.ub \in Costs /\ m.lb \in Int /\ CostIn(m) = m.ub
  BY <1>1, ConsumeFacts, ToMasterPayload DEF Inv, TypeOK, CostIn
<1> HIDE DEF m
<1>3. /\ best' <= best /\ best' <= m.ub /\ best' \in Int
      /\ best' < Inf <=> best < Inf \/ m.ub < Inf
  BY <1>1, <1>2, IncumbentFacts
<1>4. \A v \in Workers : Tells(v)
  BY <1>1 DEF Tells
<1>5. flags'.satInGeneration = flags.satInGeneration
  BY <1>1 DEF Inv, TypeOK, MasterOK, Flags
<1>6. /\ \A v \in Workers : WorkerSound(v)' /\ Charge(v)' = Charge(v)
      /\ TasksSound' /\ CollectSound' /\ CoverSound'
      /\ Claim(m, w, Charge(w), {s \in Sol : best' <= Cost[s]})
  BY <1>1, <1>2, <1>3, <1>4, <1>5, HearingSound DEF m
<1>7. Optimizing /\ \A s \in Charge(w) : best' <= Cost[s] \/ m.lb <= Cost[s]
  BY <1>1, <1>6, ChargeType DEF Claim, Inv, TypeOK
<1>8. SharedSound'
  <2>1. \A s \in Sol : Cost[s] \in Int
    BY CostTypes
  <2>2. globalLB \in Int /\ lbOf \in [Workers -> Int] /\ best \in Int
    BY CostFacts DEF Inv, TypeOK, MasterOK
  <2>3. SharedSound
    BY DEF Sound, MasterSound
  <2>4. ASSUME NEW s \in Sol, s \in learned' \/ Cost[s] < globalLB' PROVE best' <= Cost[s]
    <3>1. CASE s \in learned \/ Cost[s] < globalLB
      <4>1. best <= Cost[s]
        BY <2>3, <3>1 DEF SharedSound
      <4> QED BY <1>3, <2>1, <2>2, <4>1
    <3>2. CASE w = Original /\ Cost[s] < m.lb
      <4>1. s \in Charge(w)
        BY <3>2 DEF Charge
      <4> QED BY <1>2, <1>7, <2>1, <3>2, <4>1
    <3> QED BY <1>1, <1>2, <2>1, <2>2, <2>4, <3>1, <3>2 DEF GlobalBound, Greater
  <2>5. ASSUME NEW v \in CubeWorkers, NEW s \in Charge(v)', Cost[s] < lbOf'[v]
        PROVE  best' <= Cost[s]
    <3>1. v \in Workers /\ s \in Charge(v) /\ s \in Sol
      BY <1>6, <2>5, WorkerFacts, ChargeType DEF Inv, TypeOK
    <3>2. CASE Cost[s] < lbOf[v]
      <4>1. best <= Cost[s]
        BY <2>3, <3>1, <3>2 DEF SharedSound
      <4> QED BY <1>3, <2>1, <2>2, <3>1, <4>1
    <3>3. CASE v = w /\ Cost[s] < m.lb
      BY <1>2, <1>7, <2>1, <3>1, <3>3
    <3> QED BY <1>1, <2>2, <2>5, <3>1, <3>2, <3>3
  <2> QED BY <2>4, <2>5 DEF SharedSound
<1>9. FlagsSound'
  <2>1. flags.feasibleSeen <=> best < Inf
    BY DEF Sound, MasterSound, FlagsSound
  <2>2. flags.feasibleSeen \in BOOLEAN /\ flags \in Flags
    BY DEF Inv, TypeOK, MasterOK, Flags
  <2>3. (flags.feasibleSeen \/ m.ub < Inf) <=> best' < Inf
    BY <1>3, <2>1
  <2>4. flags' = [flags EXCEPT !.feasibleSeen = best' < Inf]
    BY <1>1, <2>3 DEF Flags
  <2> QED BY <1>1, <1>3, <1>7, <2>4, FlagsLower
<1> QED BY <1>6, <1>8, <1>9 DEF Sound, MasterSound

LEMMA TakeLearnedSound ==
  ASSUME Inv, Inv', Sound, NEW w \in Workers, TakeLearned(w)
  PROVE  Sound'
<1> DEFINE m == Head(toMaster[w])
<1>1. /\ toMaster[w] # <<>> /\ m.tag = "LEARNED_UPDATE" /\ Consume(w)
      /\ learned' = learned \cup m.excl
      /\ UNCHANGED <<toWorker, phase, awaited, ledger, incumbent, globalLB, flags,
                     verdict, workerVars>>
  BY DEF TakeLearned, Incoming
<1>2. /\ best' = best /\ best \in Int /\ best <= Inf /\ CostIn(m) = Inf
      /\ UNCHANGED <<queue, cubeOf, awaited, phase, flags, lbOf, globalLB, activeWorkers, verdict>>
  BY <1>1, CostFacts, CostTypes DEF Inv, TypeOK, MasterOK, CostIn, incumbent, ledger
<1> HIDE DEF m
<1>3. best' <= best /\ best' <= CostIn(m)
  BY <1>2
<1>4. \A v \in Workers : Tells(v)
  BY <1>1 DEF Tells
<1>5. flags'.satInGeneration = flags.satInGeneration
  BY <1>2
<1>6. /\ \A v \in Workers : WorkerSound(v)' /\ Charge(v)' = Charge(v)
      /\ TasksSound' /\ CollectSound' /\ CoverSound'
      /\ Claim(m, w, Charge(w), {s \in Sol : best' <= Cost[s]})
  BY <1>1, <1>2, <1>3, <1>4, <1>5, HearingSound DEF m
<1>7. \A s \in m.excl : best <= Cost[s]
  BY <1>1, <1>2, <1>6 DEF Claim
<1>8. SharedSound'
  <2>1. SharedSound
    BY DEF Sound, MasterSound
  <2>2. \A v \in CubeWorkers : Charge(v)' = Charge(v)
    BY <1>6, WorkerFacts
  <2> QED BY <1>1, <1>2, <1>7, <2>1, <2>2 DEF SharedSound
<1>9. FlagsSound'
  BY <1>2 DEF Sound, MasterSound, FlagsSound
<1> QED BY <1>6, <1>8, <1>9 DEF Sound, MasterSound

(* The master takes in a cost, of a solution it may be given, too. *)
LEMMA CostSound ==
  ASSUME Inv, Inv', Sound, NEW w \in Workers, toMaster[w] # <<>>, Consume(w),
         Head(toMaster[w]).tag = "RESULT", Head(toMaster[w]).code \in {25, 26},
         best' = Lesser(best, Head(toMaster[w]).cost),
         flags' = [flags EXCEPT !.feasibleSeen = TRUE],
         UNCHANGED <<phase, awaited, ledger, globalLB, learned, verdict, workerVars>>,
         \A v \in Workers : Tells(v)
  PROVE  Sound'
<1> DEFINE m == Head(toMaster[w])
<1>1. m \in ToMasterMsg /\ m.cost \in Costs /\ CostIn(m) = m.cost /\ m.tag = "RESULT" /\ m.code \in {25, 26}
  BY ConsumeFacts, ToMasterPayload DEF Inv, TypeOK, CostIn
<1> HIDE DEF m
<1>2. /\ best' <= best /\ best' <= m.cost /\ best' \in Int
      /\ best' < Inf <=> best < Inf \/ m.cost < Inf
  BY <1>1, IncumbentFacts DEF m
<1>3. UNCHANGED <<queue, cubeOf, lbOf, activeWorkers>>
  BY DEF ledger
<1>4. flags'.satInGeneration = flags.satInGeneration
  BY DEF Inv, TypeOK, MasterOK, Flags
<1>5. best' <= CostIn(m)
  BY <1>1, <1>2
<1>6. /\ \A v \in Workers : WorkerSound(v)'
      /\ TasksSound' /\ CollectSound' /\ CoverSound'
      /\ Claim(m, w, Charge(w), {s \in Sol : best' <= Cost[s]})
  BY <1>2, <1>3, <1>4, <1>5, HearingSound DEF m
<1>7. Optimizing /\ m.cost < Inf
  BY <1>1, <1>6 DEF Claim, ResultClaim
<1>8. SharedSound'
  BY <1>2, <1>3, SharedLower
<1>9. FlagsSound'
  <2>1. best' < Inf
    BY <1>2, <1>7
  <2>2. flags' = [flags EXCEPT !.feasibleSeen = best' < Inf]
    BY <2>1
  <2> QED BY <1>2, <1>3, <1>7, <2>2, FlagsLower
<1> QED BY <1>6, <1>8, <1>9 DEF Sound, MasterSound

LEMMA TakeBestCostSound ==
  ASSUME Inv, Inv', Sound, NEW w \in Workers, TakeBestCost(w)
  PROVE  Sound'
<1>1. \A v \in Workers : Tells(v)
  BY DEF TakeBestCost, Tells
<1> QED BY <1>1, CostSound DEF TakeBestCost, Incoming, Incumbent

LEMMA TakeOfferSound ==
  ASSUME Inv, Inv', Sound, NEW w \in CubeWorkers, TakeOffer(w)
  PROVE  Sound'
<1> DEFINE m == [tag |-> "RESULT", best |-> best']
<1>1. w \in Workers /\ toWorker' = [toWorker EXCEPT ![w] = Append(@, m)]
  BY WorkerFacts DEF TakeOffer
<1>2. m \in ToWorkerMsg /\ m.tag # "WORK" /\ m.best = best'
  BY DEF ToWorkerMsg, ReplyMsg, Inv, TypeOK, MasterOK
<1> HIDE DEF m
<1>3. \A v \in Workers : Tells(v)
  BY <1>1, <1>2 DEF Tells, Inv, TypeOK, ChannelsOK
<1> QED BY <1>1, <1>3, CostSound DEF TakeOffer, Incoming, Incumbent

(* The codes a worker answers with. *)
LEMMA FirstClaim ==
  ASSUME Inv, NEW w \in Workers, WorkerSound(w), toMaster[w] # <<>>,
         Head(toMaster[w]).tag = "RESULT"
  PROVE  /\ Head(toMaster[w]).code \in {10, 20, 25, 26, 30}
         /\ w = Original => Head(toMaster[w]).code \in {10, 20, 26}
<1>1. toMaster[w] \in Seq(ToMasterMsg)
  BY WorkerTypes
<1>2. Len(toMaster[w]) \in Nat \ {0}
  BY <1>1, EmptySeq, LenProperties
<1>3. Head(toMaster[w]) = toMaster[w][1] /\ 1 \in 1 .. Len(toMaster[w])
  BY <1>1, <1>2
<1>4. Claim(Head(toMaster[w]), w, Charge(w), Settled(best, toMaster[w], 1))
  BY <1>3 DEF WorkerSound, ClaimsHold
<1> QED BY <1>4 DEF Claim, ResultClaim

LEMMA TakeOriginalResultSound ==
  ASSUME Inv, Inv', Sound, TakeOriginalResult
  PROVE  Sound'
<1> DEFINE w == Original
           m == Head(toMaster[w])
<1>1. /\ w \in Workers /\ toMaster[w] # <<>> /\ m.tag = "RESULT" /\ m.code # 26 /\ Consume(w)
      /\ UNCHANGED <<toWorker, phase, awaited, ledger, globalLB, learned, verdict, workerVars>>
  BY WorkerFacts DEF TakeOriginalResult, Incoming
<1>2. /\ IF Optimizing
           THEN flags' = [flags EXCEPT
                   !.origActive = FALSE,
                   !.feasibleSeen = @ \/ m.code \in {10, 15},
                   !.origOptimum = m.code = 10 \/ (m.code = 20 /\ flags.feasibleSeen),
                   !.origUnsat = m.code = 20 /\ ~flags.feasibleSeen,
                   !.unknownSeen = @ \/ m.code \notin {10, 15, 20}]
           ELSE flags' = [flags EXCEPT
                   !.origActive = FALSE,
                   !.satFound = m.code = 10,
                   !.origUnsat = m.code = 20,
                   !.unknownSeen = @ \/ m.code \notin {10, 20}]
      /\ IF m.code \in {10, 15} /\ Optimizing THEN best' = Lesser(best, m.cost) ELSE best' = best
  BY DEF TakeOriginalResult, Incumbent
<1>3. /\ m \in ToMasterMsg /\ (m.code = 10 /\ Optimizing => m.cost \in Costs)
      /\ (m.code = 15 => m.cost \in Costs) /\ Charge(w) = Sol
  BY <1>1, ConsumeFacts, ToMasterPayload DEF Inv, TypeOK, Charge
<1> HIDE DEF m, w
<1>4. best \in Int /\ best' \in Int /\ best <= Inf /\ Inf \in Int /\ flags \in Flags
  BY CostFacts, CostTypes DEF Inv, TypeOK, MasterOK
<1>5. m.code \in {10, 20}
  BY <1>1, FirstClaim DEF Sound, m, w
<1>6. CostIn(m) = IF m.code = 10 /\ Optimizing THEN m.cost ELSE Inf
  BY <1>1, <1>5 DEF CostIn, m
<1>7. best' <= best /\ best' <= CostIn(m)
  <2>1. CASE m.code = 10 /\ Optimizing
    BY <1>2, <1>3, <1>6, <2>1, IncumbentFacts
  <2>2. CASE ~(m.code = 10 /\ Optimizing)
    BY <1>2, <1>4, <1>5, <1>6, <2>2
  <2> QED BY <2>1, <2>2
<1>8. \A v \in Workers : Tells(v)
  BY <1>1 DEF Tells
<1>9. UNCHANGED <<queue, cubeOf, lbOf, activeWorkers>>
  BY <1>1 DEF ledger
<1>10. flags'.satInGeneration = flags.satInGeneration
  BY <1>2, <1>4 DEF Flags
<1>11. /\ \A v \in Workers : WorkerSound(v)'
       /\ TasksSound' /\ CollectSound' /\ CoverSound'
       /\ Claim(m, w, Charge(w), {s \in Sol : best' <= Cost[s]})
  BY <1>1, <1>7, <1>8, <1>9, <1>10, HearingSound DEF m
<1>12. ResultClaim(m, w, Sol, {s \in Sol : best' <= Cost[s]})
  BY <1>1, <1>3, <1>11 DEF Claim, m
<1>13. SharedSound'
  BY <1>1, <1>7, <1>9, SharedLower
<1>14. /\ flags.feasibleSeen <=> best < Inf
       /\ best < Inf => Optimizing
       /\ flags.satFound \/ flags.satInGeneration => ~Optimizing /\ Sol # {}
       /\ ~flags.unknownSeen
       /\ flags.stopSent => phase # "collect" /\ activeWorkers = 0 /\ CubeWorkers # {}
       /\ phase # "done" => verdict = "none"
  BY DEF Sound, MasterSound, FlagsSound
<1>15. \A s \in Sol : Cost[s] < Inf /\ Cost[s] \in Int
  BY CostTypes
<1> DEFINE feasible == flags.feasibleSeen \/ m.code \in {10, 15}
           optimum  == m.code = 10 \/ (m.code = 20 /\ flags.feasibleSeen)
           unsat    == m.code = 20 /\ ~flags.feasibleSeen
           unknown  == flags.unknownSeen \/ m.code \notin {10, 15, 20}
           sat      == m.code = 10
           refuted  == m.code = 20
           unsure   == flags.unknownSeen \/ m.code \notin {10, 20}
<1>19. /\ Optimizing => flags' = [flags EXCEPT !.origActive = FALSE, !.feasibleSeen = feasible,
                                    !.origOptimum = optimum, !.origUnsat = unsat,
                                    !.unknownSeen = unknown]
       /\ ~Optimizing => flags' = [flags EXCEPT !.origActive = FALSE, !.satFound = sat,
                                    !.origUnsat = refuted, !.unknownSeen = unsure]
  BY <1>2
<1> HIDE DEF feasible, optimum, unsat, unknown, sat, refuted, unsure
<1>20. Optimizing =>
         /\ flags'.feasibleSeen = feasible /\ flags'.origOptimum = optimum
         /\ flags'.origUnsat = unsat /\ flags'.unknownSeen = unknown
         /\ flags'.satFound = flags.satFound /\ flags'.satInGeneration = flags.satInGeneration
         /\ flags'.stopSent = flags.stopSent
  BY <1>4, <1>19 DEF Flags
<1>21. ~Optimizing =>
         /\ flags'.feasibleSeen = flags.feasibleSeen /\ flags'.origOptimum = flags.origOptimum
         /\ flags'.origUnsat = refuted /\ flags'.unknownSeen = unsure /\ flags'.satFound = sat
         /\ flags'.satInGeneration = flags.satInGeneration /\ flags'.stopSent = flags.stopSent
  BY <1>4, <1>19 DEF Flags
<1>16. CASE Optimizing /\ m.code = 10
  <2>1. m.cost < Inf /\ (\A s \in Sol : best' <= Cost[s])
    BY <1>12, <1>16 DEF ResultClaim
  <2>2. best' < Inf
    BY <1>2, <1>3, <1>16, <2>1, IncumbentFacts
  <2>3. feasible /\ optimum /\ ~unsat /\ ~unknown
    BY <1>14, <1>16 DEF feasible, optimum, unsat, unknown
  <2>4. /\ flags'.feasibleSeen /\ flags'.origOptimum /\ ~flags'.origUnsat
        /\ flags'.satFound = flags.satFound /\ flags'.satInGeneration = flags.satInGeneration
        /\ ~flags'.unknownSeen /\ flags'.stopSent = flags.stopSent
    BY <1>16, <1>20, <2>3
  <2>5. FlagsSound'
    BY <1>1, <1>9, <1>14, <1>16, <2>1, <2>2, <2>4 DEF FlagsSound
  <2> QED BY <1>11, <1>13, <2>5 DEF Sound, MasterSound
<1>17. CASE Optimizing /\ m.code = 20
  <2>1. best' = best /\ (\A s \in Sol : best <= Cost[s])
    BY <1>2, <1>12, <1>17 DEF ResultClaim
  <2>2. ~(best < Inf) => Sol = {}
    BY <1>4, <1>15, <2>1
  <2>3. /\ feasible <=> flags.feasibleSeen
        /\ optimum <=> flags.feasibleSeen
        /\ unsat <=> ~flags.feasibleSeen
        /\ ~unknown
    BY <1>14, <1>17 DEF feasible, optimum, unsat, unknown
  <2>4. /\ flags'.feasibleSeen <=> flags.feasibleSeen
        /\ flags'.origOptimum <=> flags.feasibleSeen
        /\ flags'.origUnsat <=> ~flags.feasibleSeen
        /\ flags'.satFound = flags.satFound /\ flags'.satInGeneration = flags.satInGeneration
        /\ ~flags'.unknownSeen /\ flags'.stopSent = flags.stopSent
    BY <1>17, <1>20, <2>3
  <2>5. FlagsSound'
    BY <1>1, <1>9, <1>14, <1>17, <2>1, <2>2, <2>4 DEF FlagsSound
  <2> QED BY <1>11, <1>13, <2>5 DEF Sound, MasterSound
<1>18. CASE ~Optimizing
  <2>1. best' = best /\ ~(best < Inf)
    BY <1>2, <1>14, <1>18
  <2>2. /\ m.code = 10 => Sol # {}
        /\ m.code = 20 => \A s \in Sol : best <= Cost[s]
    BY <1>12, <2>1 DEF ResultClaim
  <2>3. m.code = 20 => Sol = {}
    BY <1>4, <1>15, <2>1, <2>2
  <2>5. /\ flags'.feasibleSeen = flags.feasibleSeen /\ flags'.origOptimum = flags.origOptimum
        /\ flags'.origUnsat <=> m.code = 20
        /\ flags'.satFound <=> m.code = 10
        /\ flags'.satInGeneration = flags.satInGeneration
        /\ ~flags'.unknownSeen /\ flags'.stopSent = flags.stopSent
    BY <1>5, <1>14, <1>18, <1>21 DEF sat, refuted, unsure
  <2>6. ~flags.origOptimum
    BY <1>18 DEF Sound, MasterSound, FlagsSound
  <2>7. FlagsSound'
    BY <1>1, <1>5, <1>9, <1>14, <1>18, <2>1, <2>2, <2>3, <2>5, <2>6 DEF FlagsSound
  <2> QED BY <1>11, <1>13, <2>7 DEF Sound, MasterSound
<1> QED BY <1>5, <1>16, <1>17, <1>18

LEMMA TakeModelSound ==
  ASSUME Inv, Inv', Sound, NEW w \in CubeWorkers, TakeModel(w)
  PROVE  Sound'
<1> DEFINE m == Head(toMaster[w])
<1>1. /\ Serving /\ ~Optimizing /\ toMaster[w] # <<>> /\ m.tag = "RESULT" /\ m.code = 10 /\ Consume(w)
      /\ flags' = [flags EXCEPT !.satFound = TRUE]
      /\ UNCHANGED <<awaited, ledger, best, globalLB, learned, verdict, workerVars>>
  BY DEF TakeModel, Incoming
<1>2. \/ phase' = "stuck" /\ UNCHANGED <<bestSol, toWorker>>
      \/ /\ toWorker' = [v \in Workers |-> IF v = w THEN toWorker[v]
                                           ELSE Append(toWorker[v], Stop)]
         /\ phase' = phase
  BY DEF TakeModel
<1>3. w \in Workers /\ phase = "serve"
  BY <1>1, WorkerFacts DEF Serving
<1>14. CostIn(m) = Inf
  BY <1>1 DEF CostIn
<1>4. best \in Int /\ best <= Inf /\ flags \in Flags
  BY CostFacts, CostTypes DEF Inv, TypeOK, MasterOK
<1> HIDE DEF m
<1>5. best' <= best /\ best' <= CostIn(m)
  BY <1>1, <1>4, <1>14
<1>6. \A v \in Workers : Tells(v)
  <2>1. Stop \in ToWorkerMsg /\ Stop.tag = "STOP"
    BY PlainMessageType DEF Stop
  <2> QED BY <1>2, <2>1 DEF Tells
<1>7. UNCHANGED <<queue, cubeOf, lbOf, activeWorkers>>
  BY <1>1 DEF ledger
<1>8. /\ flags'.satFound
      /\ flags'.satInGeneration = flags.satInGeneration /\ flags'.feasibleSeen = flags.feasibleSeen
      /\ flags'.origActive = flags.origActive /\ flags'.origUnsat = flags.origUnsat
      /\ flags'.origOptimum = flags.origOptimum /\ flags'.unknownSeen = flags.unknownSeen
      /\ flags'.stopSent = flags.stopSent
  BY <1>1, <1>4 DEF Flags
<1>9. phase' = phase \/ phase' = "stuck"
  BY <1>2
<1>10. /\ \A v \in Workers : WorkerSound(v)'
       /\ TasksSound' /\ CollectSound' /\ CoverSound'
       /\ Claim(m, w, Charge(w), {s \in Sol : best' <= Cost[s]})
  BY <1>1, <1>3, <1>5, <1>6, <1>7, <1>8, <1>9, HearingSound DEF m
<1>11. Sol # {}
  BY <1>1, <1>10 DEF Claim, ResultClaim, m
<1>12. SharedSound'
  BY <1>1, <1>5, <1>7, SharedLower
<1>13. FlagsSound'
  BY <1>1, <1>3, <1>7, <1>8, <1>9, <1>11 DEF Sound, MasterSound, FlagsSound
<1> QED BY <1>10, <1>12, <1>13 DEF Sound, MasterSound

-----------------------------------------------------------------------------
(***************************************************************************)
(* Handing out tasks.                                                      *)
(***************************************************************************)

(* No task is lost or made up when tasks are handed out. *)
LEMMA HandOutOpen ==
  ASSUME MasterOK, NEW q, IsABag(q), BagToSet(q) \subseteq Task,
         NEW idle \in SUBSET CubeWorkers, NEW freed \in SUBSET idle, NEW active,
         NEW f \in Dispatches(idle, q), HandOut(f, q, active, freed),
         idle \cap BusyWorkers \subseteq freed
  PROVE  /\ \A task \in Open' : \/ task \in BagToSet(q)
                                \/ \E v \in CubeWorkers \ freed : cubeOf[v] # None /\ task = cubeOf[v]
         /\ \A task \in BagToSet(q) : task \in Open'
         /\ \A v \in CubeWorkers \ freed : cubeOf[v] # None => cubeOf[v] \in Open'
<1>1. /\ DOMAIN f \subseteq idle
      /\ \A v \in DOMAIN f : f[v] \in BagToSet(q)
      /\ DOMAIN Dealt(f) = Range(f)
      /\ \A t \in Range(f) : Dealt(f)[t] \in Nat
  BY DealtFacts
<1>2. /\ queue' = q (-) Dealt(f)
      /\ cubeOf' = [v \in CubeWorkers |-> IF v \in DOMAIN f THEN f[v]
                                          ELSE IF v \in freed THEN None ELSE cubeOf[v]]
  BY DEF HandOut
<1>3. BagToSet(queue') \subseteq BagToSet(q)
  BY <1>2 DEF BagToSet, (-)
<1>4. ASSUME NEW task \in BagToSet(q), task \notin Range(f) PROVE task \in BagToSet(queue')
  BY <1>1, <1>2, <1>4 DEF BagToSet, (-), IsABag
<1>5. ASSUME NEW v \in CubeWorkers, cubeOf'[v] # None PROVE cubeOf'[v] \in Open'
  BY <1>2, <1>5 DEF Open, Range
<1>6. ASSUME NEW task \in BagToSet(q), task \in Range(f) PROVE task \in Open'
  <2>1. PICK v \in DOMAIN f : task = f[v]
    BY <1>6 DEF Range
  <2>2. v \in CubeWorkers /\ cubeOf'[v] = task /\ task # None
    BY <1>1, <1>2, <2>1, NoneAssumption
  <2> QED BY <1>5, <2>2
<1>7. ASSUME NEW v \in CubeWorkers \ freed, cubeOf[v] # None PROVE cubeOf[v] \in Open'
  <2>1. v \notin DOMAIN f
    BY <1>1, <1>7 DEF BusyWorkers
  <2>2. cubeOf'[v] = cubeOf[v]
    BY <1>2, <2>1
  <2> QED BY <1>5, <1>7, <2>2
<1>8. ASSUME NEW task \in Open', task \notin BagToSet(q)
      PROVE  \E v \in CubeWorkers \ freed : cubeOf[v] # None /\ task = cubeOf[v]
  <2>1. PICK v \in CubeWorkers : task = cubeOf'[v] /\ task # None
    BY <1>2, <1>3, <1>8 DEF Open, Range
  <2> QED BY <1>1, <1>2, <1>8, <2>1
<1>9. \A task \in BagToSet(q) : task \in Open'
  BY <1>4, <1>6 DEF Open
<1> QED BY <1>7, <1>8, <1>9

(* What is sent with a task cuts off no more than the task, the shared
   constraints and the global bound do. *)
LEMMA WorkSound ==
  ASSUME Inv, Inv', Sound, best' <= best, NEW task \in Task, TaskSoundTo(best', task)
  PROVE  /\ TaskSoundTo(best', Work(task, best').task)
         /\ Work(task, best').task.region = task.region
         /\ Work(task, best').best = best'
         /\ \A s \in task.region : Cost[s] < Greater(task.lb, globalLB) => best' <= Cost[s]
<1> DEFINE sent == Work(task, best').task
<1>1. /\ sent.region = task.region /\ sent.excl = task.excl \cup learned
      /\ sent.lb = Greater(task.lb, globalLB) /\ Work(task, best').best = best'
  BY DEF Work, Task
<1>2. best \in Int /\ best' \in Int /\ globalLB \in Int /\ task.lb \in Int /\ task.region \subseteq Sol
  BY CostFacts DEF Inv, TypeOK, MasterOK, Task
<1>3. \A s \in Sol : s \in learned \/ Cost[s] < globalLB => best' <= Cost[s]
  BY <1>2, CostTypes DEF Sound, MasterSound, SharedSound
<1>4. \A s \in task.region : Cost[s] < Greater(task.lb, globalLB) => best' <= Cost[s]
  BY <1>2, <1>3, CostTypes DEF TaskSoundTo, Greater
<1> HIDE DEF sent
<1>5. TaskSoundTo(best', sent)
  BY <1>1, <1>2, <1>3, <1>4, CostTypes DEF TaskSoundTo
<1> QED BY <1>1, <1>4, <1>5 DEF sent

(* A step in which the master hands out tasks. *)
LEMMA DealingSound ==
  ASSUME Inv, Inv', Sound, NEW q, IsABag(q), BagToSet(q) \subseteq Task,
         \A task \in BagToSet(q) : TaskSoundTo(best', task),
         NEW idle \in SUBSET CubeWorkers, NEW freed \in SUBSET idle, NEW active,
         NEW f \in Dispatches(idle, q), HandOut(f, q, active, freed),
         idle \cap BusyWorkers \subseteq freed,
         best' <= best, UNCHANGED <<globalLB, learned, workerVars>>,
         \A v \in idle : /\ toMaster'[v] = <<>> /\ pc[v] \notin Working
                         /\ ~HasTag(toWorker[v], "WORK"),
         \A v \in Workers : Hears(v),
         toWorker' = Sent(f, best') \/ (DOMAIN f = {} /\ toWorker' = Broadcast(toWorker))
  PROVE  /\ \A v \in Workers : WorkerSound(v)'
         /\ TasksSound' /\ SharedSound'
<1>1. /\ best \in Int /\ best' \in Int /\ best' \in Costs /\ MasterOK /\ ChannelsOK
      /\ lbOf \in [Workers -> Int]
  BY CostFacts DEF Inv, TypeOK, MasterOK
<1>2. /\ DOMAIN f \subseteq idle
      /\ \A v \in DOMAIN f : f[v] \in BagToSet(q) /\ f[v] \in Task
  BY DealtFacts
<1>3. /\ cubeOf' = [v \in CubeWorkers |-> IF v \in DOMAIN f THEN f[v]
                                          ELSE IF v \in freed THEN None ELSE cubeOf[v]]
      /\ lbOf' = [v \in Workers |-> IF v \in DOMAIN f THEN Greater(f[v].lb, globalLB)
                                                      ELSE lbOf[v]]
  BY DEF HandOut
<1>4. ASSUME NEW v \in DOMAIN f
      PROVE  /\ v \in CubeWorkers /\ v \in Workers /\ Charge(v)' = f[v].region
             /\ TaskSoundTo(best', Work(f[v], best').task)
             /\ Work(f[v], best').task.region = f[v].region
             /\ Work(f[v], best').best = best'
             /\ \A s \in f[v].region : Cost[s] < Greater(f[v].lb, globalLB) => best' <= Cost[s]
  <2>1. v \in CubeWorkers /\ v \in Workers /\ v # Original
    BY <1>2, WorkerFacts
  <2>2. f[v] \in Task /\ f[v] # None /\ TaskSoundTo(best', f[v])
    BY <1>2, NoneAssumption
  <2>3. Charge(v)' = f[v].region
    BY <1>3, <2>1, <2>2 DEF Charge
  <2> QED BY <2>1, <2>2, <2>3, WorkSound
<1>5. ASSUME NEW v \in Workers, v \notin DOMAIN f
      PROVE  /\ Charge(v)' = Charge(v) \/ (v \in freed /\ Charge(v)' = {})
             /\ lbOf'[v] = lbOf[v]
  BY <1>3, <1>5, WorkerFacts DEF Charge
<1>6. ASSUME NEW v \in Workers, v \notin idle PROVE Tells(v) /\ Charge(v)' = Charge(v)
  <2>1. v \notin DOMAIN f /\ v \notin freed
    BY <1>2, <1>6
  <2>2. Stop \in ToWorkerMsg /\ Stop.tag = "STOP"
    BY PlainMessageType DEF Stop
  <2>3. toWorker'[v] = toWorker[v] \/ toWorker'[v] = Append(toWorker[v], Stop)
    BY <1>1, <2>1, BroadcastType DEF Sent
  <2> QED BY <1>5, <2>1, <2>2, <2>3 DEF Tells
<1>7. ASSUME NEW v \in idle
      PROVE  \/ toWorker'[v] = toWorker[v]
             \/ \E m \in ToWorkerMsg :
                  /\ m.tag # "STOP" => m.best = best'
                  /\ m.tag = "WORK" => m.task.region = Charge(v)' /\ TaskSoundTo(best', m.task)
                  /\ toWorker'[v] = Append(toWorker[v], m)
  <2>1. v \in Workers
    BY WorkerFacts
  <2>2. CASE toWorker' = Sent(f, best') /\ v \in DOMAIN f
    <3> DEFINE m == Work(f[v], best')
    <3>1. m \in ToWorkerMsg
      BY <1>1, <1>2, <2>2, SentType
    <3>2. toWorker'[v] = Append(toWorker[v], m)
      BY <2>1, <2>2 DEF Sent
    <3>3. m.best = best' /\ m.task.region = Charge(v)' /\ TaskSoundTo(best', m.task)
      BY <1>4, <2>2
    <3> HIDE DEF m
    <3> QED BY <3>1, <3>2, <3>3
  <2>3. CASE toWorker' = Sent(f, best') /\ v \notin DOMAIN f
    BY <2>1, <2>3 DEF Sent
  <2>4. CASE toWorker' = Broadcast(toWorker)
    <3>1. Stop \in ToWorkerMsg /\ Stop.tag = "STOP"
      BY PlainMessageType DEF Stop
    <3>2. toWorker'[v] = Append(toWorker[v], Stop)
      BY <1>1, <2>1, <2>4, BroadcastType
    <3> QED BY <3>1, <3>2
  <2> QED BY <2>2, <2>3, <2>4
<1>8. ASSUME NEW v \in Workers PROVE WorkerSound(v)'
  <2>1. WorkerSound(v)
    BY DEF Sound
  <2>2. CASE v \in idle
    <3> DEFINE R == Charge(v)'
    <3>1. toMaster'[v] = <<>> /\ pc[v] \notin Working /\ ~HasTag(toWorker[v], "WORK")
      BY <2>2
    <3>2. \/ toWorker'[v] = toWorker[v]
          \/ \E m \in ToWorkerMsg :
               /\ m.tag # "STOP" => m.best = best'
               /\ m.tag = "WORK" => m.task.region = R /\ TaskSoundTo(best', m.task)
               /\ toWorker'[v] = Append(toWorker[v], m)
      BY <1>7, <2>2
    <3> HIDE DEF R
    <3>3. RepliesHold(best', imported[v], toWorker'[v], R)
      BY <2>1, <3>1, <3>2, TaskedSound
    <3>4. RepliesHold(best', imported[v], toWorker'[v], Charge(v)')
      BY <3>3 DEF R
    <3> QED BY <2>1, <3>1, <3>4, HeardSound
  <2>3. CASE v \notin idle
    <3>1. Tells(v) /\ Charge(v)' = Charge(v)
      BY <1>6, <2>3
    <3>2. RepliesHold(best', imported[v], toWorker'[v], Charge(v))
      BY <2>1, <3>1, ToldSound
    <3>3. RepliesHold(best', imported[v], toWorker'[v], Charge(v)')
      BY <3>1, <3>2
    <3> QED BY <2>1, <3>1, <3>3, HeardSound
  <2> QED BY <2>2, <2>3
<1>9. TasksSound'
  <2>1. ASSUME NEW task \in Open' PROVE TaskSoundTo(best', task)
    <3>1. CASE task \in BagToSet(q)
      BY <3>1
    <3>2. CASE \E v \in CubeWorkers \ freed : cubeOf[v] # None /\ task = cubeOf[v]
      <4>1. PICK v \in CubeWorkers : cubeOf[v] # None /\ task = cubeOf[v]
        BY <3>2
      <4>2. task \in Open /\ task \in Task
        BY <1>1, <4>1 DEF Open, Range, MasterOK
      <4>3. TaskSoundTo(best, task)
        BY <4>2 DEF Sound, MasterSound, TasksSound
      <4> QED BY <1>1, <4>2, <4>3, TaskLower
    <3> QED BY <1>1, <3>1, <3>2, HandOutOpen
  <2> QED BY <2>1 DEF TasksSound
<1>10. SharedSound'
  <2>1. SharedSound
    BY DEF Sound, MasterSound
  <2>2. \A s \in Sol : s \in learned' \/ Cost[s] < globalLB' => best' <= Cost[s]
    BY <1>1, <2>1, CostTypes DEF SharedSound
  <2>3. ASSUME NEW v \in CubeWorkers, NEW s \in Charge(v)', Cost[s] < lbOf'[v]
        PROVE  best' <= Cost[s]
    <3>1. v \in Workers
      BY WorkerFacts
    <3>2. CASE v \in DOMAIN f
      <4>1. lbOf'[v] = Greater(f[v].lb, globalLB) /\ s \in f[v].region
        BY <1>3, <1>4, <2>3, <3>1, <3>2
      <4> QED BY <1>4, <2>3, <3>2, <4>1
    <3>3. CASE v \notin DOMAIN f
      <4>1. s \in Charge(v) /\ lbOf'[v] = lbOf[v]
        BY <1>5, <2>3, <3>1, <3>3
      <4>2. s \in Sol
        BY <1>1, <3>1, <4>1, ChargeType
      <4>3. best <= Cost[s]
        BY <2>1, <2>3, <4>1 DEF SharedSound
      <4> QED BY <1>1, <4>2, <4>3, CostTypes
    <3> QED BY <3>2, <3>3
  <2> QED BY <2>2, <2>3 DEF SharedSound
<1> QED BY <1>8, <1>9, <1>10

(* Tasks that join the queue. *)
LEMMA JoinedTasks ==
  ASSUME NEW q, IsABag(q), NEW S
  PROVE  BagToSet(q (+) SetToBag(S)) = BagToSet(q) \cup S
BY DEF IsABag, BagToSet, (+), SetToBag

-----------------------------------------------------------------------------
(***************************************************************************)
(* The steps that move cubes or end the run.                               *)
(***************************************************************************)

LEMMA TakeInitialCubesSound ==
  ASSUME Inv, Inv', Sound, NEW w \in CubeWorkers, TakeInitialCubes(w)
  PROVE  Sound'
<1> DEFINE m == Head(toMaster[w])
           S == {[WholeProblem EXCEPT !.region = p] : p \in m.parts}
<1>1. /\ Collecting /\ toMaster[w] # <<>> /\ m.tag = "INIT_RESULT" /\ Consume(w)
      /\ queue' = queue (+) SetToBag(S)
      /\ flags' = [flags EXCEPT !.satInGeneration = @ \/ m.sat]
      /\ awaited' = awaited \ {w}
      /\ UNCHANGED <<toWorker, phase, cubeOf, activeWorkers, lbOf, incumbent, globalLB,
                     learned, verdict, workerVars>>
  BY DEF TakeInitialCubes, Incoming, StillAwaited
<1>2. /\ w \in Workers /\ best' = best /\ best \in Int /\ best <= Inf /\ phase = "collect"
      /\ IsABag(queue) /\ BagToSet(queue) \subseteq Task /\ flags \in Flags
      /\ cubeOf \in [CubeWorkers -> Task \cup {None}]
  BY <1>1, WorkerFacts, CostFacts, CostTypes DEF Inv, TypeOK, MasterOK, incumbent, Collecting
<1>3. CostIn(m) = Inf
  BY <1>1 DEF CostIn
<1>4. m.sat \in BOOLEAN /\ m.parts \subseteq SUBSET Sol
  BY <1>1, <1>2, ConsumeFacts, ToMasterPayload DEF Inv, TypeOK
<1> HIDE DEF m
<1>5. best' <= best /\ best' <= CostIn(m)
  BY <1>2, <1>3
<1>6. Claim(m, w, Charge(w), {s \in Sol : best' <= Cost[s]})
  BY <1>1, <1>2, <1>5, HeadSound DEF Sound, m
<1>7. IF m.sat THEN ~Optimizing /\ Sol # {} ELSE Share[w] \subseteq UNION m.parts
  BY <1>1, <1>6 DEF Claim
<1>8. ASSUME NEW p \in m.parts
      PROVE  /\ [WholeProblem EXCEPT !.region = p] \in S
             /\ [WholeProblem EXCEPT !.region = p].region = p
  BY DEF WholeProblem
<1>9. ASSUME NEW task \in S PROVE TaskSoundTo(best', task)
  <2>1. PICK p \in m.parts : task = [WholeProblem EXCEPT !.region = p]
    BY <1>9
  <2>2. task.region = p /\ task.excl = {} /\ task.lb = NegInf /\ p \subseteq Sol
    BY <1>4, <2>1 DEF WholeProblem
  <2> QED BY <2>2, CostTypes, CostFacts DEF TaskSoundTo
<1> HIDE DEF S
<1>10. BagToSet(queue') = BagToSet(queue) \cup S
  BY <1>1, <1>2, JoinedTasks
<1>11. \A v : Charge(v)' = Charge(v)
  BY <1>1 DEF Charge
<1>12. ASSUME NEW v \in Workers PROVE WorkerSound(v)'
  <2>1. Hears(v)
    BY <1>1, <1>2, <1>5, ConsumeFacts DEF Hears, Inv, TypeOK, m
  <2>2. WorkerSound(v) /\ Tells(v)
    BY <1>1 DEF Sound, Tells
  <2>3. RepliesHold(best', imported[v], toWorker'[v], Charge(v)')
    BY <1>5, <1>11, <2>2, ToldSound
  <2> QED BY <1>1, <1>5, <1>11, <2>1, <2>2, <2>3, HeardSound
<1>13. TasksSound'
  <2>1. Open' = Open \cup S
    BY <1>1, <1>10 DEF Open
  <2> QED BY <1>2, <1>9, <2>1 DEF TasksSound, Sound, MasterSound
<1>14. SharedSound'
  BY <1>1, <1>5, SharedLower
<1>15. flags'.satInGeneration <=> flags.satInGeneration \/ m.sat
  BY <1>1, <1>2, <1>4 DEF Flags
<1>16. CollectSound'
  <2> SUFFICES ASSUME CubeWorkers # {}, ~flags'.satInGeneration, NEW s \in Sol
               PROVE  \/ \E task \in BagToSet(queue') : s \in task.region
                      \/ \E v \in awaited' : s \in Share[v]
    BY DEF CollectSound
  <2>1. ~flags.satInGeneration /\ ~m.sat
    BY <1>15
  <2>2. \/ \E task \in BagToSet(queue) : s \in task.region
        \/ \E v \in awaited : s \in Share[v]
    BY <1>2, <2>1 DEF Sound, MasterSound, CollectSound
  <2>3. CASE s \in Share[w]
    <3>1. PICK p \in m.parts : s \in p
      BY <1>7, <2>1, <2>3
    <3> QED BY <1>8, <1>10, <3>1
  <2> QED BY <1>1, <1>10, <2>2, <2>3
<1>17. CoverSound'
  BY <1>1, <1>2 DEF CoverSound
<1>18. FlagsSound'
  <2>1. /\ flags'.satFound = flags.satFound /\ flags'.origActive = flags.origActive
        /\ flags'.origUnsat = flags.origUnsat /\ flags'.origOptimum = flags.origOptimum
        /\ flags'.unknownSeen = flags.unknownSeen /\ flags'.feasibleSeen = flags.feasibleSeen
        /\ flags'.stopSent = flags.stopSent
    BY <1>1, <1>2 DEF Flags
  <2>2. FlagsSound
    BY DEF Sound, MasterSound
  <2> QED BY <1>1, <1>2, <1>7, <1>15, <2>1, <2>2 DEF FlagsSound
<1> QED BY <1>12, <1>13, <1>14, <1>16, <1>17, <1>18 DEF Sound, MasterSound

(* The master stops serving: nothing moves any more. *)
LEMMA EndSound ==
  ASSUME Inv, Inv', Sound, phase' = "done",
         UNCHANGED <<toMaster, ledger, incumbent, globalLB, learned, flags, workerVars>>,
         toWorker' = toWorker \/ toWorker' = Broadcast(toWorker),
         phase # "collect" \/ awaited = {}
  PROVE  Sound'
<1>1. best' = best /\ best \in Int /\ UNCHANGED <<queue, cubeOf, activeWorkers, lbOf>>
  BY CostFacts DEF Inv, TypeOK, MasterOK, incumbent, ledger
<1>2. best' <= best
  BY <1>1
<1>3. \A v : Charge(v)' = Charge(v)
  BY <1>1 DEF Charge
<1>4. ASSUME NEW v \in Workers PROVE WorkerSound(v)'
  <2>1. Hears(v)
    BY DEF Hears
  <2>2. Stop \in ToWorkerMsg /\ Stop.tag = "STOP"
    BY PlainMessageType DEF Stop
  <2>3. WorkerSound(v) /\ Tells(v)
    BY <2>2, BroadcastType DEF Sound, Tells, Inv, TypeOK
  <2>4. RepliesHold(best', imported[v], toWorker'[v], Charge(v)')
    BY <1>2, <1>3, <2>3, ToldSound
  <2> QED BY <1>2, <1>3, <2>1, <2>3, <2>4, HeardSound
<1>5. TasksSound'
  BY <1>1 DEF Sound, MasterSound, TasksSound, Open
<1>6. SharedSound'
  BY <1>1, <1>2, SharedLower
<1>7. CollectSound' /\ CoverSound'
  BY DEF CollectSound, CoverSound
<1>8. FlagsSound'
  BY <1>1 DEF Sound, MasterSound, FlagsSound
<1> QED BY <1>4, <1>5, <1>6, <1>7, <1>8 DEF Sound, MasterSound

LEMMA AnswerEarlySound ==
  ASSUME Inv, Inv', Sound, AnswerEarly
  PROVE  Sound'
BY EndSound DEF AnswerEarly

LEMMA FinishSound ==
  ASSUME Inv, Inv', Sound, Finish
  PROVE  Sound'
BY EndSound DEF Finish

LEMMA StartServingSound ==
  ASSUME Inv, Inv', Sound, StartServing
  PROVE  Sound'
<1>1. /\ phase = "collect" /\ awaited = {} /\ phase' = "serve" /\ EarlyVerdict = "none"
      /\ UNCHANGED <<toMaster, awaited, incumbent, globalLB, learned, flags, verdict, workerVars>>
  BY DEF StartServing
<1>2. PICK f \in Dispatches(CubeWorkers, queue) :
        HandOut(f, queue, 0, {}) /\ toWorker' = Sent(f, best)
  BY DEF StartServing
<1>3. /\ best' = best /\ best \in Int /\ IsABag(queue) /\ BagToSet(queue) \subseteq Task /\ MasterOK
  BY <1>1, CostFacts DEF Inv, TypeOK, MasterOK, incumbent
<1>4. \A v \in CubeWorkers : /\ cubeOf[v] = None /\ toWorker[v] = <<>>
                             /\ pc[v] = "idle" /\ toMaster[v] = <<>>
  BY <1>1 DEF Inv, Protocol, Collected
<1>5. best' <= best
  BY <1>3
<1>6. \A task \in BagToSet(queue) : TaskSoundTo(best', task)
  BY <1>3 DEF Sound, MasterSound, TasksSound, Open
<1> DEFINE idle == CubeWorkers
           freed == {}
<1>7. /\ idle \in SUBSET CubeWorkers /\ freed \in SUBSET idle /\ idle \cap BusyWorkers \subseteq freed
      /\ f \in Dispatches(idle, queue) /\ HandOut(f, queue, 0, freed)
  BY <1>2, <1>4 DEF BusyWorkers
<1>8. \A v \in idle : /\ toMaster'[v] = <<>> /\ pc[v] \notin Working
                      /\ ~HasTag(toWorker[v], "WORK")
  BY <1>1, <1>4 DEF Working, HasTag
<1>9. \A v \in Workers : Hears(v)
  BY <1>1 DEF Hears
<1>10. toWorker' = Sent(f, best')
  BY <1>2, <1>3
<1> HIDE DEF idle, freed
<1>11. (\A v \in Workers : WorkerSound(v)') /\ TasksSound' /\ SharedSound'
  BY <1>1, <1>3, <1>5, <1>6, <1>7, <1>8, <1>9, <1>10, DealingSound
<1>12. \A task \in BagToSet(queue) : task \in Open'
  BY <1>3, <1>7, HandOutOpen
<1>13. FlagsSound
  BY DEF Sound, MasterSound
<1>14. CoverSound'
  <2>1. CubeWorkers # {} /\ ~flags.satInGeneration =>
          \A s \in Sol : \E task \in BagToSet(queue) : s \in task.region
    BY <1>1 DEF Sound, MasterSound, CollectSound
  <2>2. ~flags.satInGeneration
    BY <1>1, <1>13 DEF FlagsSound, EarlyVerdict
  <2> QED BY <1>12, <2>1, <2>2 DEF CoverSound
<1>15. CollectSound'
  BY <1>1 DEF CollectSound
<1>16. FlagsSound'
  BY <1>1, <1>3, <1>13 DEF FlagsSound
<1> QED BY <1>11, <1>14, <1>15, <1>16 DEF Sound, MasterSound

LEMMA TakeSplitSound ==
  ASSUME Inv, Inv', Sound, NEW w \in CubeWorkers, TakeSplit(w)
  PROVE  Sound'
<1> DEFINE m == Head(toMaster[w])
           child(region) == [region |-> region, excl |-> cubeOf[w].excl \cup m.excl,
                             depth |-> cubeOf[w].depth + 1, lb |-> InheritedBound(w)]
           S == {child(p) : p \in m.parts}
           waiting == queue (+) SetToBag(S)
<1>1. /\ Serving /\ toMaster[w] # <<>> /\ m.tag = "RESULT" /\ m.code = 30 /\ Consume(w)
      /\ UNCHANGED <<phase, awaited, incumbent, globalLB, learned, flags, verdict, workerVars>>
  BY DEF TakeSplit, Incoming
<1>2. PICK f \in Dispatches(IdleWorkers(w), waiting) :
        HandOut(f, waiting, OthersActive, {w}) /\ toWorker' = Sent(f, best)
  BY DEF TakeSplit
<1>3. /\ w \in Workers /\ w # Original /\ phase = "serve" /\ MasterOK
      /\ best' = best /\ best \in Int /\ best <= Inf
      /\ IsABag(queue) /\ BagToSet(queue) \subseteq Task
  BY <1>1, WorkerFacts, CostFacts, CostTypes DEF Serving, Inv, TypeOK, MasterOK, incumbent
<1>4. m.parts \subseteq SUBSET Sol /\ m.excl \subseteq Sol
  BY <1>1, <1>3, ConsumeFacts, ToMasterPayload DEF Inv, TypeOK
<1>5. /\ toMaster'[w] = <<>> /\ cubeOf[w] # None /\ pc[w] = "idle"
      /\ ~HasTag(toWorker[w], "WORK")
  BY <1>1, FinalFacts DEF Final
<1>6. cubeOf[w] \in Task /\ InheritedBound(w) \in Int /\ Charge(w) = cubeOf[w].region
  BY <1>3, <1>5 DEF MasterOK, InheritedBound, Greater, Charge
<1>7. CostIn(m) = Inf
  BY <1>1 DEF CostIn
<1>8. best' <= best /\ best' <= CostIn(m)
  BY <1>3, <1>7
<1>9. Claim(m, w, Charge(w), {s \in Sol : best' <= Cost[s]})
  BY <1>1, <1>3, <1>8, HeadSound DEF Sound
<1> HIDE DEF m
<1>10. /\ \A s \in Charge(w) \ UNION m.parts : best <= Cost[s]
       /\ \A s \in Charge(w) \cap m.excl : best <= Cost[s]
       /\ UNION m.parts \subseteq Charge(w)
  BY <1>1, <1>3, <1>9 DEF Claim, ResultClaim
<1>11. \A s \in Charge(w) : s \in cubeOf[w].excl \/ Cost[s] < InheritedBound(w) => best <= Cost[s]
  <2>1. cubeOf[w] \in Open
    BY <1>3, <1>5 DEF Open, Range, MasterOK
  <2>2. \A s \in Charge(w) : s \in cubeOf[w].excl => best <= Cost[s]
    BY <1>6, <2>1 DEF Sound, MasterSound, TasksSound, TaskSoundTo
  <2>3. \A s \in Charge(w) : Cost[s] < lbOf[w] \/ Cost[s] < globalLB => best <= Cost[s]
    BY <1>3, ChargeType DEF Sound, MasterSound, SharedSound
  <2> QED BY <2>2, <2>3 DEF InheritedBound, Greater
<1>12. ASSUME NEW p \in m.parts PROVE child(p) \in S /\ child(p).region = p
  OBVIOUS
<1>13. ASSUME NEW task \in S PROVE TaskSoundTo(best', task)
  <2>1. PICK p \in m.parts : task = child(p)
    BY <1>13
  <2>2. p \subseteq Charge(w)
    BY <1>10
  <2>3. /\ task.region = p /\ task.excl = cubeOf[w].excl \cup m.excl
        /\ task.lb = InheritedBound(w)
    BY <2>1
  <2> QED BY <1>3, <1>10, <1>11, <2>2, <2>3 DEF TaskSoundTo
<1>14. S \subseteq Task
  BY <1>4, <1>6 DEF Task
<1> HIDE DEF S
<1>15. /\ IsABag(waiting) /\ BagToSet(waiting) \subseteq Task
       /\ BagToSet(waiting) = BagToSet(queue) \cup S
  BY <1>3, <1>14, QueueFacts, JoinedTasks
<1> HIDE DEF waiting
<1>16. \A task \in BagToSet(waiting) : TaskSoundTo(best', task)
  BY <1>3, <1>13, <1>15 DEF Sound, MasterSound, TasksSound, Open
<1> DEFINE idle == IdleWorkers(w)
           freed == {w}
           active == OthersActive
<1>17. /\ idle \in SUBSET CubeWorkers /\ freed \in SUBSET idle
       /\ idle \cap BusyWorkers \subseteq freed
       /\ \A v \in idle : v = w \/ cubeOf[v] = None
       /\ f \in Dispatches(idle, waiting) /\ HandOut(f, waiting, active, freed)
  BY <1>2 DEF IdleWorkers, BusyWorkers
<1>18. \A v \in CubeWorkers \ freed : v # w
  OBVIOUS
<1> HIDE DEF idle, freed, active
<1>19. \A v \in Workers \ {w} : toMaster'[v] = toMaster[v]
  BY <1>1, <1>3, ConsumeFacts DEF Inv, TypeOK
<1>20. \A v \in idle : /\ toMaster'[v] = <<>> /\ pc[v] \notin Working
                       /\ ~HasTag(toWorker[v], "WORK")
  BY <1>1, <1>5, <1>17, <1>19, IdleFacts, WorkerFacts DEF Working
<1>21. \A v \in Workers : Hears(v)
  BY <1>1, <1>3, <1>8, <1>19, ConsumeFacts DEF Hears, Inv, TypeOK, m
<1>22. toWorker' = Sent(f, best')
  BY <1>2, <1>3
<1>23. (\A v \in Workers : WorkerSound(v)') /\ TasksSound' /\ SharedSound'
  BY <1>1, <1>8, <1>15, <1>16, <1>17, <1>20, <1>21, <1>22, DealingSound
<1>24. /\ \A task \in BagToSet(waiting) : task \in Open'
       /\ \A v \in CubeWorkers \ freed : cubeOf[v] # None => cubeOf[v] \in Open'
  BY <1>3, <1>15, <1>17, HandOutOpen
<1>25. CoverSound'
  <2> SUFFICES ASSUME NEW s \in Sol, Cost[s] < best
               PROVE  \E task \in Open' : s \in task.region
    BY <1>3 DEF CoverSound
  <2>1. PICK task \in Open : s \in task.region
    BY <1>3 DEF Sound, MasterSound, CoverSound
  <2>2. CASE task \in BagToSet(queue)
    BY <1>15, <1>24, <2>1, <2>2
  <2>3. CASE s \in Charge(w)
    <3>1. s \in UNION m.parts
      BY <1>3, <1>10, <2>3, CostTypes
    <3>2. PICK p \in m.parts : s \in p
      BY <3>1
    <3> QED BY <1>12, <1>15, <1>24, <3>2
  <2>4. ASSUME NEW v \in CubeWorkers, cubeOf[v] # None, task = cubeOf[v], v # w
        PROVE  \E t \in Open' : s \in t.region
    <3>1. v \in CubeWorkers \ freed
      BY <2>4 DEF freed
    <3> QED BY <1>24, <2>1, <2>4, <3>1
  <2> QED BY <1>3, <1>6, <2>1, <2>2, <2>3, <2>4 DEF Open, Range, MasterOK
<1>26. CollectSound'
  BY <1>1, <1>3 DEF CollectSound
<1>27. FlagsSound'
  BY <1>1, <1>3 DEF Sound, MasterSound, FlagsSound, Serving
<1> QED BY <1>23, <1>25, <1>26, <1>27 DEF Sound, MasterSound

LEMMA TakeCubeResultSound ==
  ASSUME Inv, Inv', Sound, NEW w \in CubeWorkers, TakeCubeResult(w)
  PROVE  Sound'
<1> DEFINE m == Head(toMaster[w])
           solved == m.code \in {10, 15}
<1>1. /\ Serving /\ toMaster[w] # <<>> /\ m.tag = "RESULT" /\ m.code \in {0, 10, 15, 20}
      /\ ~Optimizing => m.code # 10
      /\ Consume(w)
      /\ IF solved THEN best' = Lesser(best, m.cost) ELSE best' = best
      /\ flags' = [flags EXCEPT !.unknownSeen = @ \/ m.code = 0, !.feasibleSeen = @ \/ solved,
                                !.stopSent = activeWorkers' = 0]
      /\ UNCHANGED <<phase, awaited, globalLB, learned, verdict, workerVars>>
  BY DEF TakeCubeResult, Incoming, Incumbent, incumbent
<1>2. PICK f \in Dispatches({w}, queue) :
        /\ HandOut(f, queue, OthersActive, {w})
        /\ toWorker' = IF activeWorkers' = 0 THEN Broadcast(toWorker) ELSE Sent(f, best')
  BY DEF TakeCubeResult
<1>3. /\ w \in Workers /\ w # Original /\ phase = "serve" /\ MasterOK /\ WorkerSound(w)
      /\ best \in Int /\ best <= Inf /\ flags \in Flags
      /\ IsABag(queue) /\ BagToSet(queue) \subseteq Task
  BY <1>1, WorkerFacts, CostFacts, CostTypes DEF Serving, Inv, TypeOK, MasterOK, Sound
<1>4. m \in ToMasterMsg /\ (m.code = 10 => m.cost \in Costs)
  BY <1>1, <1>3, ConsumeFacts, ToMasterPayload DEF Inv, TypeOK
<1>5. /\ toMaster'[w] = <<>> /\ cubeOf[w] # None /\ pc[w] = "idle"
      /\ ~HasTag(toWorker[w], "WORK")
  BY <1>1, FinalFacts DEF Final
<1>6. Charge(w) = cubeOf[w].region
  BY <1>3, <1>5 DEF Charge
<1>7. m.code \in {10, 20}
  BY <1>1, <1>3, FirstClaim
<1>8. CostIn(m) = IF m.code = 10 THEN m.cost ELSE Inf
  BY <1>1, <1>7 DEF CostIn
<1>9. /\ best' <= best /\ best' <= CostIn(m) /\ best' \in Int
      /\ m.code = 10 /\ m.cost < Inf => best' < Inf
      /\ m.code = 20 => best' = best
  <2>1. CASE m.code = 10
    BY <1>1, <1>4, <1>8, <2>1, IncumbentFacts
  <2>2. CASE m.code = 20
    BY <1>1, <1>3, <1>8, <2>2
  <2> QED BY <1>7, <2>1, <2>2
<1>10. Claim(m, w, Charge(w), {s \in Sol : best' <= Cost[s]})
  BY <1>1, <1>3, <1>9, HeadSound
<1> HIDE DEF m, solved
<1>11. /\ \A s \in Charge(w) : best' <= Cost[s]
       /\ m.code = 10 => m.cost < Inf /\ Optimizing
  BY <1>1, <1>7, <1>10 DEF Claim, ResultClaim
<1> DEFINE idle == {w}
<1>12. /\ idle \in SUBSET CubeWorkers /\ idle \in SUBSET idle
       /\ idle \cap BusyWorkers \subseteq idle
       /\ f \in Dispatches(idle, queue) /\ HandOut(f, queue, OthersActive, idle)
       /\ \A v \in idle : v = w
       /\ \A v \in CubeWorkers \ {w} : v \in CubeWorkers \ idle
  BY <1>2
<1> DEFINE active == OthersActive
<1> HIDE DEF idle, active
<1>13. \A task \in BagToSet(queue) : TaskSoundTo(best', task)
  <2>1. ASSUME NEW task \in BagToSet(queue) PROVE TaskSoundTo(best', task)
    <3>1. task \in Task /\ TaskSoundTo(best, task)
      BY <1>3 DEF Sound, MasterSound, TasksSound, Open
    <3> QED BY <1>3, <1>9, <3>1, TaskLower
  <2> QED BY <2>1
<1>14. \A v \in Workers \ {w} : toMaster'[v] = toMaster[v]
  BY <1>1, <1>3, ConsumeFacts DEF Inv, TypeOK
<1>15. \A v \in idle : /\ toMaster'[v] = <<>> /\ pc[v] \notin Working
                       /\ ~HasTag(toWorker[v], "WORK")
  BY <1>5, <1>12 DEF Working
<1>16. \A v \in Workers : Hears(v)
  BY <1>1, <1>3, <1>9, <1>14, ConsumeFacts DEF Hears, Inv, TypeOK, m
<1>17. activeWorkers' = 0 => DOMAIN f = {}
  <2>1. DOMAIN f \subseteq CubeWorkers
    BY <1>12, DealtFacts
  <2>2. activeWorkers' = Cardinality(BusyWorkers') /\ MasterOK'
    BY <1>1, <1>3 DEF Inv, Protocol, TypeOK
  <2>3. BusyWorkers' \subseteq CubeWorkers
    BY DEF BusyWorkers
  <2>4. IsFiniteSet(BusyWorkers')
    BY <2>3, WorkerFacts, FS_Subset
  <2>5. activeWorkers' = 0 => BusyWorkers' = {}
    BY <2>2, <2>4, FS_EmptySet
  <2>6. DOMAIN f \subseteq BusyWorkers'
    <3>1. \A v \in DOMAIN f : f[v] \in Task
      BY <1>3, <1>12, DealtFacts
    <3>2. cubeOf' = [v \in CubeWorkers |-> IF v \in DOMAIN f THEN f[v]
                                           ELSE IF v \in idle THEN None ELSE cubeOf[v]]
      BY <1>12 DEF HandOut
    <3> QED BY <2>1, <3>1, <3>2, NoneAssumption DEF BusyWorkers
  <2> QED BY <2>5, <2>6
<1>18. toWorker' = Sent(f, best') \/ (DOMAIN f = {} /\ toWorker' = Broadcast(toWorker))
  BY <1>2, <1>17
<1>19. best' <= best /\ UNCHANGED <<globalLB, learned, workerVars>>
  BY <1>1, <1>9
<1>20. HandOut(f, queue, active, idle)
  BY <1>12 DEF active
<1>21. (\A v \in Workers : WorkerSound(v)') /\ TasksSound' /\ SharedSound'
  BY <1>3, <1>12, <1>13, <1>15, <1>16, <1>18, <1>19, <1>20, DealingSound
<1>22. /\ \A task \in BagToSet(queue) : task \in Open'
       /\ \A v \in CubeWorkers \ idle : cubeOf[v] # None => cubeOf[v] \in Open'
  BY <1>3, <1>12, <1>20, HandOutOpen
<1>23. CoverSound'
  <2> SUFFICES ASSUME NEW s \in Sol, Cost[s] < best'
               PROVE  \E task \in Open' : s \in task.region
    BY DEF CoverSound
  <2>1. Cost[s] < best /\ Cost[s] \in Int
    BY <1>3, <1>9, CostTypes
  <2>2. PICK task \in Open : s \in task.region
    BY <1>3, <2>1 DEF Sound, MasterSound, CoverSound
  <2>3. s \notin Charge(w)
    BY <1>9, <1>11, <2>1
  <2>4. CASE task \in BagToSet(queue)
    BY <1>22, <2>2, <2>4
  <2>5. ASSUME NEW v \in CubeWorkers, cubeOf[v] # None, task = cubeOf[v], v # w
        PROVE  \E t \in Open' : s \in t.region
    BY <1>12, <1>22, <2>2, <2>5
  <2> QED BY <1>3, <1>6, <2>2, <2>3, <2>4, <2>5 DEF Open, Range, MasterOK
<1>24. CollectSound'
  BY <1>1, <1>3 DEF CollectSound
<1>25. FlagsSound'
  <2> DEFINE unknown  == flags.unknownSeen \/ m.code = 0
             feasible == flags.feasibleSeen \/ solved
             stop     == activeWorkers' = 0
  <2>1. FlagsSound
    BY DEF Sound, MasterSound
  <2>2. ~unknown
    BY <1>7, <2>1 DEF FlagsSound
  <2>3. feasible <=> best' < Inf
    <3>1. CASE m.code = 10
      BY <1>9, <1>11, <3>1 DEF solved
    <3>2. CASE m.code = 20
      BY <1>9, <2>1, <3>2 DEF solved, FlagsSound
    <3> QED BY <1>7, <3>1, <3>2
  <2>4. flags' = [flags EXCEPT !.unknownSeen = unknown, !.feasibleSeen = feasible,
                               !.stopSent = stop]
    BY <1>1 DEF solved
  <2>5. best' < Inf => Optimizing
    <3>1. CASE m.code = 10
      BY <1>11, <3>1
    <3>2. CASE m.code = 20
      BY <1>9, <2>1, <3>2 DEF FlagsSound
    <3> QED BY <1>7, <3>1, <3>2
  <2>6. stop => activeWorkers' = 0
    OBVIOUS
  <2> HIDE DEF unknown, feasible, stop
  <2>7. /\ flags'.unknownSeen = unknown /\ flags'.feasibleSeen = feasible /\ flags'.stopSent = stop
        /\ flags'.satFound = flags.satFound /\ flags'.satInGeneration = flags.satInGeneration
        /\ flags'.origActive = flags.origActive /\ flags'.origUnsat = flags.origUnsat
        /\ flags'.origOptimum = flags.origOptimum
    BY <1>3, <2>4 DEF Flags
  <2>8. ~flags.origOptimum /\ ~flags.origUnsat
    BY <1>1 DEF Serving
  <2> QED BY <1>1, <1>3, <2>1, <2>2, <2>3, <2>5, <2>6, <2>7, <2>8 DEF FlagsSound
<1> QED BY <1>21, <1>23, <1>24, <1>25 DEF Sound, MasterSound

-----------------------------------------------------------------------------
(***************************************************************************)
(* The theorems.                                                           *)
(***************************************************************************)

LEMMA InitSound == Init => Sound
<1> SUFFICES ASSUME Init PROVE Sound
  OBVIOUS
<1>1. BagToSet(queue) = {}
  BY DEF Init, EmptyBag, SetToBag, BagToSet
<1>2. \A w \in CubeWorkers : cubeOf[w] = None
  BY DEF Init
<1>3. Open = {}
  BY <1>1, <1>2 DEF Open, Range, Init
<1>4. \A w \in CubeWorkers : w \in Workers /\ w # Original /\ Charge(w) = {}
  BY <1>2, WorkerFacts DEF Charge
<1>5. TasksSound /\ SharedSound
  <2>1. learned = {} /\ globalLB = NegInf /\ NegInf \in Int
    BY CostFacts DEF Init
  <2>2. \A s \in Sol : Cost[s] \in Int /\ NegInf < Cost[s]
    BY CostTypes
  <2>3. \A s \in Sol : ~(Cost[s] < globalLB)
    BY <2>1, <2>2
  <2> QED BY <1>3, <1>4, <2>1, <2>3 DEF TasksSound, SharedSound
<1>6. CollectSound
  BY WorkerAssumption DEF Init, CollectSound
<1>7. CoverSound
  BY DEF Init, CoverSound
<1>8. FlagsSound
  BY CostFacts DEF Init, FlagsSound
<1>9. ASSUME NEW w \in Workers PROVE WorkerSound(w)
  <2>1. /\ toMaster[w] = <<>> /\ toWorker[w] = <<>> /\ best = Inf /\ Inf \in Int
        /\ given[w] = Inf /\ imported[w] = Inf /\ reported[w] = Inf
        /\ bound[w] = Inf /\ found[w] = None /\ lower[w] = ObjMin /\ cube[w] = WholeProblem
        /\ pc[w] = IF w = Original THEN "search" ELSE "generate"
    BY CostFacts DEF Init
  <2>2. \A c : VouchedBy(w, c) <=> best <= c
    BY <2>1, ClaimsNone DEF VouchedBy
  <2>3. StaticsSound(w)
    BY <2>1, <2>2 DEF StaticsSound
  <2>4. ASSUME pc[w] \in Working PROVE SolverSound(w)
    <3>1. w = Original
      BY <2>1, <2>4 DEF Working
    <3>2. Charge(w) = Sol /\ cube[w].region = Sol /\ cube[w].excl = {} /\ cube[w].lb = NegInf
      BY <2>1, <3>1 DEF Charge, WholeProblem
    <3>3. TaskSoundTo(best, cube[w])
      BY <3>2, CostTypes, CostFacts DEF TaskSoundTo
    <3> QED BY <2>1, <2>2, <3>2, <3>3, CostTypes DEF SolverSound
  <2>5. ClaimsHold(best, toMaster[w], w, Charge(w)) /\ RepliesHold(best, imported[w], toWorker[w], Charge(w))
    BY <2>1, ClaimsNone, RepliesNone
  <2> QED BY <2>3, <2>4, <2>5 DEF WorkerSound
<1> QED BY <1>5, <1>6, <1>7, <1>8, <1>9 DEF Sound, MasterSound

LEMMA NextSound == Inv /\ Inv' /\ Sound /\ [Next]_vars => Sound'
<1> SUFFICES ASSUME Inv, Inv', Sound, [Next]_vars PROVE Sound'
  OBVIOUS
<1>1. CASE MasterSteps
  BY <1>1, AnswerEarlySound, StartServingSound, FinishSound DEF MasterSteps
<1>2. ASSUME NEW w \in Workers, MasterReceives(w) PROVE Sound'
  BY <1>2, ReplyBestSound, TakeBoundsSound, TakeLearnedSound, TakeBestCostSound,
     TakeOriginalResultSound, TakeInitialCubesSound, TakeOfferSound, TakeSplitSound,
     TakeModelSound, TakeCubeResultSound DEF MasterReceives
<1>3. ASSUME NEW w \in Workers, Search(w) PROVE Sound'
  BY <1>3, PollSound, ImportSound, ImportStopSound, ExternalUBSound, DecideSound,
     FindSolutionSound, RaiseLowerBoundSound, RefuteSound DEF Search
<1>4. ASSUME NEW w \in CubeWorkers, CubeWorkerSteps(w) PROVE Sound'
  <2>1. w \in Workers
    BY WorkerFacts
  <2> QED BY <1>4, <2>1, GenerateSound, ReceiveSound, OfferSolutionSound, ReceiveIncumbentSound,
             SplitCubeSound, SplitFindsSatSound DEF CubeWorkerSteps
<1>5. CASE UNCHANGED vars
  <2>1. UNCHANGED masterVars /\ UNCHANGED channels /\ UNCHANGED workerVars
    BY <1>5 DEF vars
  <2>2. MasterSound'
    BY <2>1, MasterAlone DEF Sound
  <2>3. /\ UNCHANGED <<toMaster, toWorker, cubeOf, best>>
        /\ UNCHANGED <<pc, cube, given, bound, found, lower, reported, imported>>
    BY <2>1 DEF masterVars, channels, workerVars, ledger, incumbent, solverVars, statics
  <2>4. ASSUME NEW w \in Workers PROVE WorkerSound(w)'
    <3>1. WorkerSound(w)
      BY DEF Sound
    <3>2. Charge(w)' = Charge(w)
      BY <2>3 DEF Charge
    <3> QED BY <2>3, <3>1, <3>2 DEF WorkerSound, StaticsSound, SolverSound, VouchedBy
  <2> QED BY <2>2, <2>4 DEF Sound
<1> QED BY <1>1, <1>2, <1>3, <1>4, <1>5 DEF Next

(* The invariant holds in every run: whatever the solvers, the number of
   processes and the order of messages, what the processes tell each other is
   true, and what they discard does not improve on a cost the master knows or is
   about to be told. *)
THEOREM SoundAlways == Spec => []Sound
<1>1. Inv /\ Sound /\ [Next]_vars /\ Inv' => Sound'
  BY NextSound
<1> QED BY <1>1, InitSound, ProtocolKept, PTL DEF Spec

(* While cubes are handed out, every solution better than the incumbent lies in
   a task that is waiting or being solved and is cut off neither by the
   constraints nor by the lower bound sent with it (run_master: RES_SPLIT,
   send_work_to_worker). *)
THEOREM NothingLost == Spec => []Coverage
<1>1. Inv /\ Sound => Coverage
  <2> SUFFICES ASSUME Inv, Sound, phase = "serve", CubeWorkers # {},
                      NEW s \in Sol, Cost[s] < best
               PROVE  \E task \in Open : Covers(task, s)
    BY DEF Coverage
  <2>1. PICK task \in Open : s \in task.region
    BY DEF Sound, MasterSound, CoverSound
  <2>2. TaskSoundTo(best, task)
    BY DEF Sound, MasterSound, TasksSound
  <2>3. task \in Task
    BY DEF Open, Range, Inv, TypeOK, MasterOK
  <2>4. best \in Int /\ globalLB \in Int /\ task.lb \in Int /\ Cost[s] \in Int
    BY <2>3, CostFacts, CostTypes DEF Inv, TypeOK, MasterOK, Task
  <2>5. s \notin task.excl /\ ~(Cost[s] < task.lb)
    BY <2>1, <2>2, <2>4 DEF TaskSoundTo
  <2>6. s \notin learned /\ ~(Cost[s] < globalLB)
    BY <2>4 DEF Sound, MasterSound, SharedSound
  <2> DEFINE sent == Work(task, best).task
  <2>7. /\ sent.region = task.region /\ sent.excl = task.excl \cup learned
        /\ sent.lb = Greater(task.lb, globalLB)
    BY <2>3 DEF Work, Task
  <2>8. s \in sent.region \ sent.excl /\ sent.lb <= Cost[s]
    BY <2>1, <2>4, <2>5, <2>6, <2>7 DEF Greater
  <2> QED BY <2>8 DEF Covers
<1> QED BY <1>1, SoundAlways, ProtocolKept, PTL

(* A solver prunes with nothing but a cost the master knows, is about to be told
   or that of the solution it holds (import_external_constraints,
   report_external_UB, terminate_cb). *)
THEOREM NobodyPrunesUnjustly == Spec => []PruningJustified
<1>1. Inv /\ Sound => PruningJustified
  <2> SUFFICES ASSUME Inv, Sound, Optimizing, NEW w \in Workers,
                      pc[w] \in {"search", "ask", "decide", "interrupted"}
               PROVE  \/ best <= bound[w]
                      \/ \E c \in CostsSent(w) : c <= bound[w]
                      \/ found[w] # None /\ Cost[found[w]] = bound[w]
    BY DEF PruningJustified
  <2>1. /\ toMaster[w] \in Seq(ToMasterMsg) /\ best \in Int /\ bound[w] \in Int
        /\ best <= Inf /\ Inf \in Int
    BY WorkerTypes, CostFacts, CostTypes DEF Inv, TypeOK, MasterOK
  <2>2. SolverSound(w)
    BY DEF Sound, WorkerSound, Working
  <2>3. CASE VouchedBy(w, bound[w])
    <3>1. CASE best <= bound[w]
      BY <3>1
    <3>2. ASSUME NEW j \in 1 .. Len(toMaster[w]), CostIn(toMaster[w][j]) <= bound[w],
                 ~(best <= bound[w])
          PROVE  \E c \in CostsSent(w) : c <= bound[w]
      <4> DEFINE m == toMaster[w][j]
      <4>1. j \in DOMAIN toMaster[w]
        BY <2>1
      <4>2. CostIn(m) # Inf
        BY <2>1, <3>2
      <4>3. CASE m.tag = "BOUNDS"
        <5>1. CostIn(m) = m.ub
          BY <4>3 DEF CostIn
        <5>2. m.ub \in CostsSent(w)
          BY <4>1, <4>3 DEF CostsSent
        <5> QED BY <3>2, <5>1, <5>2
      <4>4. CASE m.tag # "BOUNDS"
        <5>1. m.tag = "RESULT" /\ m.code \in {10, 25, 26} /\ CostIn(m) = m.cost
          BY <4>2, <4>4 DEF CostIn
        <5>2. m.cost \in CostsSent(w)
          BY <4>1, <5>1 DEF CostsSent
        <5> QED BY <3>2, <5>1, <5>2
      <4> QED BY <4>3, <4>4
    <3> QED BY <2>3, <3>1, <3>2 DEF VouchedBy, Vouched, KnownTo
  <2>4. CASE found[w] # None /\ Cost[found[w]] = bound[w]
    BY <2>4
  <2> QED BY <2>2, <2>3, <2>4 DEF SolverSound
<1> QED BY <1>1, SoundAlways, ProtocolKept, PTL

(* The clauses the original worker shares exclude no solution better than the
   incumbent of the master that passes them on (LEARNED_UPDATE). *)
THEOREM LearnedIsSound == Spec => []LearnedSound
<1>1. Inv /\ Sound => LearnedSound
  <2>1. Inv => learned \subseteq Sol
    BY DEF Inv, TypeOK, MasterOK
  <2> QED BY <2>1 DEF Sound, MasterSound, SharedSound, LearnedSound
<1> QED BY <1>1, SoundAlways, ProtocolKept, PTL

(* The lower bounds the master passes on and shows are valid: the global one
   for the whole problem, a worker's for its cube (BOUNDS_UPDATE). *)
THEOREM BoundsAreValid == Spec => []LowerBoundsValid
<1>1. Inv /\ Sound => LowerBoundsValid
  <2> SUFFICES ASSUME Inv, Sound, NEW s \in Sol, Cost[s] < best
               PROVE  /\ globalLB <= Cost[s]
                      /\ \A w \in CubeWorkers :
                           cubeOf[w] # None /\ s \in cubeOf[w].region => lbOf[w] <= Cost[s]
    BY DEF LowerBoundsValid
  <2>1. best \in Int /\ globalLB \in Int /\ Cost[s] \in Int /\ lbOf \in [Workers -> Int]
    BY CostFacts, CostTypes DEF Inv, TypeOK, MasterOK
  <2>2. globalLB <= Cost[s]
    BY <2>1 DEF Sound, MasterSound, SharedSound
  <2>3. ASSUME NEW w \in CubeWorkers, cubeOf[w] # None, s \in cubeOf[w].region
        PROVE  lbOf[w] <= Cost[s]
    <3>1. w \in Workers /\ w # Original
      BY WorkerFacts
    <3>2. s \in Charge(w)
      BY <2>3, <3>1 DEF Charge
    <3> QED BY <2>1, <3>1, <3>2 DEF Sound, MasterSound, SharedSound
  <2> QED BY <2>2, <2>3
<1> QED BY <1>1, SoundAlways, ProtocolKept, PTL

(* The value a callback keeps from the cubes solved before hides no news: a
   solver that goes on has told the master the cost of its solution (the static
   variables of terminate_cb and report_external_UB). *)
THEOREM NewsIsTold == Spec => []CostReported
<1>1. Sound => CostReported
  BY DEF Sound, WorkerSound, SolverSound, CostReported, Working
<1> QED BY <1>1, SoundAlways, PTL

(* A native solver that has asked for the incumbent and goes on with the answer
   looks for nothing that is not cheaper than it, whatever it imported before
   (import_external_constraints: last_imported_best). *)
THEOREM ReplyIsHeeded ==
  ASSUME Backend = "native"
  PROVE  Spec => ReplyHeeded
<1> DEFINE Heeded == \A w \in Workers :
                       pc[w] = "ask" /\ pc'[w] = "decide" => bound'[w] <= Head(toWorker[w]).best
<1>1. ASSUME Inv, Sound, [Next]_vars PROVE [Heeded]_vars
  <2> SUFFICES ASSUME Next, NEW w \in Workers, pc[w] = "ask", pc'[w] = "decide"
               PROVE  bound'[w] <= Head(toWorker[w]).best
    BY <1>1
  <2>2. Import(w)
    <3>1. ~(UNCHANGED pc)
      OBVIOUS
    <3>2. ASSUME MasterSteps PROVE FALSE
      BY <3>1, <3>2 DEF MasterSteps, AnswerEarly, StartServing, Finish, workerVars
    <3>3. ASSUME NEW v \in Workers, MasterReceives(v) PROVE FALSE
      BY <3>1, <3>3 DEF MasterReceives, ReplyBest, TakeBounds, TakeLearned, TakeBestCost,
         TakeOriginalResult, TakeInitialCubes, TakeOffer, TakeSplit, TakeModel, TakeCubeResult,
         workerVars
    <3>4. ASSUME NEW v \in Workers, Search(v) PROVE Import(w)
      <4>1. WorkersOK
        BY <1>1 DEF Inv, TypeOK
      <4>2. v # w => pc'[w] = pc[w]
        BY <3>4, <4>1 DEF Search, Poll, Import, ImportStop, ExternalUB, Decide, FindSolution,
           RaiseLowerBound, Refute, Answer, Leave, Goto, WorkersOK
      <4>3. v = w
        BY <4>2
      <4>4. ~Poll(w) /\ ~Decide(w) /\ ~FindSolution(w) /\ ~RaiseLowerBound(w) /\ ~Refute(w)
        BY DEF Poll, Decide, FindSolution, RaiseLowerBound, Refute
      <4>5. ~ImportStop(w)
        BY <4>1 DEF ImportStop, Leave, Goto, WorkersOK
      <4>6. ~ExternalUB(w)
        BY DEF ExternalUB
      <4> QED BY <3>4, <4>3, <4>4, <4>5, <4>6 DEF Search
    <3>5. ASSUME NEW v \in CubeWorkers, CubeWorkerSteps(v) PROVE FALSE
      <4>1. WorkersOK /\ v \in Workers
        BY <1>1, WorkerFacts DEF Inv, TypeOK
      <4>2. pc[v] # "ask"
        BY <3>5 DEF CubeWorkerSteps, Generate, Receive, OfferSolution, ReceiveIncumbent,
           SplitCube, SplitFindsSat
      <4>3. v # w => pc'[w] = pc[w]
        BY <3>5, <4>1 DEF CubeWorkerSteps, Generate, Receive, OfferSolution, ReceiveIncumbent,
           SplitCube, SplitFindsSat, Leave, Goto, WorkersOK
      <4> QED BY <4>2, <4>3
    <3> QED BY <3>2, <3>3, <3>4, <3>5 DEF Next
  <2> DEFINE cost == Head(toWorker[w]).best
  <2>3. /\ toWorker[w] # <<>> /\ Head(toWorker[w]).tag = "BEST_REPLY"
        /\ bound' = [bound EXCEPT ![w] = IF IsNews(w, cost) THEN ObjectiveBound(@, cost) ELSE @]
    BY <2>2 DEF Import
  <2>4. /\ bound \in [Workers -> Costs] /\ bound[w] \in Int /\ imported[w] \in Int
        /\ bound[w] <= Inf /\ Inf \in Int /\ toWorker[w] \in Seq(ToWorkerMsg)
    BY <1>1, WorkerTypes, CostFacts, CostTypes DEF Inv, TypeOK, WorkersOK
  <2>5. cost \in Costs /\ cost \in Int
    <3>1. Head(toWorker[w]) \in ToWorkerMsg
      BY <2>3, <2>4, HeadTailProperties
    <3> QED BY <2>3, <3>1, ToWorkerPayload, CostFacts
  <2>6. bound[w] <= imported[w]
    BY <1>1 DEF Sound, WorkerSound, SolverSound, Working
  <2> HIDE DEF cost
  <2>7. bound'[w] = IF IsNews(w, cost) THEN ObjectiveBound(bound[w], cost) ELSE bound[w]
    BY <2>3, <2>4
  <2>8. bound'[w] <= cost
    BY <2>4, <2>5, <2>6, <2>7 DEF IsNews, ObjectiveBound, Lesser
  <2> QED BY <2>8 DEF cost
<1>2. Inv /\ Sound /\ [Next]_vars => [Heeded]_vars
  BY <1>1
<1>3. Spec => [][Heeded]_vars
  BY <1>2, SoundAlways, ProtocolKept, PTL DEF Spec
<1> QED BY <1>3 DEF ReplyHeeded, Heeded

-----------------------------------------------------------------------------
(***************************************************************************)
(* The master keeps the promise of GlobalResult.                           *)
(***************************************************************************)

(* When no worker has a cube any more, nothing better is left to find. *)
LEMMA AllSettled ==
  ASSUME Inv, Sound, WorkConserving, phase = "serve", activeWorkers = 0, CubeWorkers # {}
  PROVE  \A s \in Sol : best <= Cost[s]
<1>1. activeWorkers = Cardinality(BusyWorkers)
  BY DEF Inv, Protocol
<1>2. BusyWorkers \subseteq CubeWorkers /\ IsFiniteSet(BusyWorkers)
  BY WorkerFacts, FS_Subset DEF BusyWorkers
<1>3. BusyWorkers = {}
  BY <1>1, <1>2, FS_EmptySet
<1>4. \A w \in CubeWorkers : cubeOf[w] = None
  BY <1>3 DEF BusyWorkers
<1>5. queue = EmptyBag
  BY <1>4 DEF WorkConserving
<1>6. Open = {}
  BY <1>4, <1>5 DEF Open, Range, BagToSet, EmptyBag, SetToBag, Inv, TypeOK, MasterOK
<1>7. \A s \in Sol : ~(Cost[s] < best)
  BY <1>6 DEF Sound, MasterSound, CoverSound
<1>8. best \in Int
  BY CostFacts DEF Inv, TypeOK, MasterOK
<1> QED BY <1>7, <1>8, CostTypes

(* The incumbent's cost is that of a solution, and without one there is no
   incumbent. *)
LEMMA BestFacts ==
  ASSUME Inv
  PROVE  /\ best < Inf => \E s \in Sol : Cost[s] = best
         /\ ~(best < Inf) /\ (\A s \in Sol : best <= Cost[s]) => Sol = {}
<1>1. best \in Costs /\ best \in Int /\ best <= Inf /\ Inf \in Int
  BY CostFacts, CostTypes DEF Inv, TypeOK, MasterOK
<1>2. best < Inf => \E s \in Sol : Cost[s] = best
  BY <1>1, CostTypes
<1> QED BY <1>1, <1>2, CostTypes

LEMMA TruthfulFacts ==
  /\ Promise!Truthful("SAT") <=> ~Optimizing /\ Sol # {}
  /\ Promise!Truthful("UNSAT") <=> Sol = {}
  /\ Promise!Truthful("OPTIMUM") <=> /\ Optimizing /\ \E s \in Sol : Cost[s] = best
                                     /\ \A s \in Sol : best <= Cost[s]
BY DEF Promise!Truthful

(* A step that takes in a cost, or none. *)
LEMMA ImproveStep ==
  ASSUME Inv, Inv', Sound, Sound', phase # "done", phase' # "done", verdict' = verdict,
         best' = best \/ \E c \in Costs : best' = Lesser(best, c)
  PROVE  Promise!Improve \/ UNCHANGED <<best, Outcome>>
<1>1. best \in Int /\ best <= Inf /\ Inf \in Int /\ \A c \in Costs : c \in Int /\ c <= Inf
  BY CostFacts, CostTypes DEF Inv, TypeOK, MasterOK
<1>2. verdict = "none" /\ Outcome = verdict /\ Outcome' = verdict'
  <2>1. verdict = "none"
    BY DEF Sound, MasterSound, FlagsSound
  <2>2. Outcome = verdict /\ Outcome' = verdict'
    BY DEF Outcome
  <2> QED BY <2>1, <2>2
<1>3. ASSUME best' # best PROVE Promise!Improve
  <2>1. PICK c \in Costs : best' = Lesser(best, c)
    BY <1>3
  <2>2. c < best /\ best' = c
    BY <1>1, <1>3, <2>1 DEF Lesser
  <2>3. c < Inf /\ best' < Inf
    BY <1>1, <2>2
  <2>4. PICK s \in Sol : c = Cost[s]
    BY <2>3, CostTypes
  <2>5. Optimizing
    BY <2>3 DEF Sound, MasterSound, FlagsSound
  <2> QED BY <1>2, <2>2, <2>4, <2>5 DEF Promise!Improve
<1> QED BY <1>2, <1>3

LEMMA AnswerEarlyPromise ==
  ASSUME Inv, Sound, AnswerEarly
  PROVE  Promise!Announce
<1>1. /\ phase = "collect" /\ awaited = {} /\ verdict' = EarlyVerdict /\ EarlyVerdict # "none"
      /\ best' = best /\ flags' = flags /\ phase' = "done"
  BY DEF AnswerEarly, incumbent
<1>2. FlagsSound /\ CollectSound /\ Outcome = "none"
  <2>1. FlagsSound /\ CollectSound /\ verdict = "none"
    BY <1>1 DEF Sound, MasterSound, FlagsSound
  <2>2. Outcome = verdict
    BY <1>1 DEF Outcome
  <2> QED BY <2>1, <2>2
<1>4. Outcome' = EarlyVerdict
  BY <1>1 DEF Outcome, EarlyVerdict
<1>3. Promise!Truthful(EarlyVerdict)
  <2>1. CASE flags.satFound
    <3>1. EarlyVerdict = "SAT" /\ ~Optimizing /\ Sol # {}
      BY <1>1, <1>2, <2>1 DEF EarlyVerdict, FlagsSound
    <3> QED BY <3>1, TruthfulFacts
  <2>2. CASE ~flags.satFound /\ flags.origOptimum
    <3>1. /\ EarlyVerdict = "OPTIMUM" /\ Optimizing /\ best < Inf
          /\ \A s \in Sol : best <= Cost[s]
      BY <1>1, <1>2, <2>2 DEF EarlyVerdict, FlagsSound
    <3> QED BY <3>1, BestFacts, TruthfulFacts
  <2>3. CASE ~flags.satFound /\ ~flags.origOptimum /\ flags.origUnsat
    <3>1. EarlyVerdict = "UNSAT" /\ Sol = {}
      BY <1>1, <1>2, <2>3 DEF EarlyVerdict, FlagsSound
    <3> QED BY <3>1, TruthfulFacts
  <2>4. CASE /\ ~flags.satFound /\ ~flags.origOptimum /\ ~flags.origUnsat
             /\ flags.satInGeneration
    <3>1. EarlyVerdict = "SAT" /\ ~Optimizing /\ Sol # {}
      BY <1>1, <1>2, <2>4 DEF EarlyVerdict, FlagsSound
    <3> QED BY <3>1, TruthfulFacts
  <2>5. CASE /\ ~flags.satFound /\ ~flags.origOptimum /\ ~flags.origUnsat
             /\ ~flags.satInGeneration
    <3>1. EarlyVerdict = "UNSAT" /\ queue = EmptyBag /\ CubeWorkers # {}
      BY <1>1, <2>5 DEF EarlyVerdict
    <3>2. BagToSet(queue) = {}
      BY <3>1 DEF BagToSet, EmptyBag, SetToBag
    <3>3. Sol = {}
      BY <1>1, <1>2, <2>5, <3>1, <3>2 DEF CollectSound
    <3> QED BY <3>1, <3>3, TruthfulFacts
  <2> QED BY <2>1, <2>2, <2>3, <2>4, <2>5
<1> QED BY <1>1, <1>2, <1>3, <1>4 DEF Promise!Announce

LEMMA FinishPromise ==
  ASSUME Inv, Sound, WorkConserving, Finish
  PROVE  Promise!Announce
<1>1. /\ phase = "serve" /\ ~Serving /\ verdict' = FinalVerdict /\ best' = best
      /\ flags' = flags /\ phase' = "done"
  BY DEF Finish, incumbent
<1>2. FlagsSound /\ Outcome = "none"
  <2>1. FlagsSound /\ verdict = "none"
    BY <1>1 DEF Sound, MasterSound, FlagsSound
  <2>2. Outcome = verdict
    BY <1>1 DEF Outcome
  <2> QED BY <2>1, <2>2
<1>3. \/ flags.satFound \/ flags.origUnsat \/ flags.origOptimum
      \/ flags.stopSent
  <2>1. activeWorkers \in 0 .. NumCubeWorkers
    BY DEF Inv, TypeOK, MasterOK
  <2>2. activeWorkers > 0 \/ activeWorkers = 0
    BY <2>1, WorkerAssumption
  <2>3. flags.origActive \/ flags.satFound \/ flags.origUnsat \/ flags.origOptimum
    BY <1>2 DEF FlagsSound
  <2> QED BY <1>1, <2>2, <2>3 DEF Serving
<1>4. flags.satFound => ~Optimizing /\ Sol # {}
  BY <1>2 DEF FlagsSound
<1>5. ~flags.satFound => \A s \in Sol : best <= Cost[s]
  <2>1. CASE flags.origUnsat
    BY <1>2, <2>1 DEF FlagsSound
  <2>2. CASE flags.origOptimum
    BY <1>2, <2>2 DEF FlagsSound
  <2>3. CASE flags.stopSent
    <3>1. activeWorkers = 0 /\ CubeWorkers # {}
      BY <1>2, <2>3 DEF FlagsSound
    <3> QED BY <1>1, <3>1, AllSettled
  <2> QED BY <1>3, <2>1, <2>2, <2>3
<1>6. ~flags.unknownSeen /\ (flags.feasibleSeen <=> best < Inf) /\ (best < Inf => Optimizing)
  BY <1>2 DEF FlagsSound
<1>7. Promise!Truthful(Outcome')
  <2>1. CASE flags.satFound
    <3>1. Outcome' = "SAT" /\ ~Optimizing /\ Sol # {}
      BY <1>1, <1>4, <2>1 DEF Outcome
    <3> QED BY <3>1, TruthfulFacts
  <2>2. CASE ~flags.satFound /\ best < Inf
    <3>1. Outcome' = "OPTIMUM" /\ Optimizing
      BY <1>1, <1>6, <2>2 DEF FinalVerdict, Outcome
    <3> QED BY <1>5, <2>2, <3>1, BestFacts, TruthfulFacts
  <2>3. CASE ~flags.satFound /\ ~(best < Inf)
    <3>1. Outcome' = "UNSAT"
      BY <1>1, <1>6, <2>3 DEF FinalVerdict, Outcome
    <3>2. Sol = {}
      BY <1>5, <2>3, BestFacts
    <3> QED BY <3>1, <3>2, TruthfulFacts
  <2> QED BY <2>1, <2>2, <2>3
<1> QED BY <1>1, <1>2, <1>7 DEF Promise!Announce

LEMMA PromiseStep ==
  ASSUME Inv, Inv', Sound, Sound', WorkConserving, [Next]_vars
  PROVE  [Promise!Next]_<<best, Outcome>>
<1>1. CASE AnswerEarly
  BY <1>1, AnswerEarlyPromise DEF Promise!Next
<1>2. CASE Finish
  BY <1>2, FinishPromise DEF Promise!Next
<1>3. CASE StartServing
  <2>1. phase # "done" /\ phase' # "done" /\ UNCHANGED <<verdict, best>>
    BY <1>3 DEF StartServing, incumbent
  <2> QED BY <2>1 DEF Outcome
<1>4. ASSUME NEW w \in Workers, MasterReceives(w) PROVE [Promise!Next]_<<best, Outcome>>
  <2>1. phase # "done" /\ phase' # "done" /\ verdict' = verdict
    BY <1>4 DEF MasterReceives, ReplyBest, TakeBounds, TakeLearned, TakeBestCost,
       TakeOriginalResult, TakeInitialCubes, TakeOffer, TakeSplit, TakeModel, TakeCubeResult,
       Collecting, Serving, masterVars
  <2>2. best' = best \/ \E c \in Costs : best' = Lesser(best, c)
    <3>1. CASE ReplyBest(w) \/ TakeLearned(w) \/ TakeInitialCubes(w) \/ TakeSplit(w) \/ TakeModel(w)
      BY <3>1 DEF ReplyBest, TakeLearned, TakeInitialCubes, TakeSplit, TakeModel, masterVars, incumbent
    <3>2. CASE TakeBounds(w) \/ TakeBestCost(w)
      <4> DEFINE m == Head(toMaster[w])
      <4>1. /\ toMaster[w] # <<>>
            /\ \/ m.tag = "BOUNDS" /\ best' = Lesser(best, m.ub)
               \/ m.tag = "RESULT" /\ m.code = 26 /\ best' = Lesser(best, m.cost)
        BY <3>2 DEF TakeBounds, TakeBestCost, Incoming, Incumbent
      <4>2. m \in ToMasterMsg
        BY <4>1, WorkerTypes, TailFacts
      <4> QED BY <4>1, <4>2, ToMasterPayload
    <3>3. CASE (w = Original /\ TakeOriginalResult) \/ TakeOffer(w) \/ TakeCubeResult(w)
      <4> DEFINE m == Head(toMaster[w])
      <4>1. /\ toMaster[w] # <<>> /\ m.tag = "RESULT"
            /\ \/ best' = best
               \/ /\ m.code = 25 \/ m.code = 15 \/ (m.code = 10 /\ Optimizing)
                  /\ best' = Lesser(best, m.cost)
        BY <3>3 DEF TakeOriginalResult, TakeOffer, TakeCubeResult, Incoming, Incumbent, incumbent
      <4>2. m \in ToMasterMsg
        BY <4>1, WorkerTypes, TailFacts
      <4> QED BY <4>1, <4>2, ToMasterPayload
    <3> QED BY <1>4, <3>1, <3>2, <3>3 DEF MasterReceives
  <2> QED BY <2>1, <2>2, ImproveStep DEF Promise!Next
<1>5. ASSUME NEW w \in Workers, Search(w) PROVE [Promise!Next]_<<best, Outcome>>
  <2>1. UNCHANGED <<phase, flags, verdict, best>>
    BY <1>5 DEF Search, Poll, Import, ImportStop, ExternalUB, Decide, FindSolution,
       RaiseLowerBound, Refute, masterVars, incumbent
  <2> QED BY <2>1 DEF Outcome
<1>6. ASSUME NEW w \in CubeWorkers, CubeWorkerSteps(w) PROVE [Promise!Next]_<<best, Outcome>>
  <2>1. UNCHANGED <<phase, flags, verdict, best>>
    BY <1>6 DEF CubeWorkerSteps, Generate, Receive, OfferSolution, ReceiveIncumbent,
       SplitCube, SplitFindsSat, masterVars, incumbent
  <2> QED BY <2>1 DEF Outcome
<1>7. CASE UNCHANGED vars
  BY <1>7 DEF vars, masterVars, incumbent, Outcome
<1> QED BY <1>1, <1>2, <1>3, <1>4, <1>5, <1>6, <1>7 DEF Next, MasterSteps

(* The program does what GlobalResult promises: its incumbent only ever moves to
   the cost of a cheaper solution, and the one result it ends with is true of
   the problem, given solvers and generators that are right about their own
   cube. *)
THEOREM PromiseKept == Spec => KeepsPromise
<1>1. Init => Promise!Init
  BY DEF Init, Promise!Init, Outcome
<1>2. Inv /\ Inv' /\ Sound /\ Sound' /\ WorkConserving /\ [Next]_vars
        => [Promise!Next]_<<best, Outcome>>
  BY PromiseStep
<1> QED BY <1>1, <1>2, ProtocolKept, SoundAlways, NobodyStarves, PTL
        DEF Spec, KeepsPromise, Promise!Spec

==============================================================================
