-------------------------- MODULE CubeConquer_proofs --------------------------
(***************************************************************************)
(* Proofs about CubeConquer, for every problem and every number of         *)
(* processes.                                                              *)
(***************************************************************************)
EXTENDS CubeConquer, FiniteSetTheorems, SequenceTheorems, TLAPS

(* A message that ends the work of its sender on a cube. *)
Final(m) == m.tag = "RESULT" /\ m.code \notin {25, 26}

HasFinal(ch)  == \E i \in 1 .. Len(ch) : Final(ch[i])
FinalLast(ch) == \A i \in 1 .. Len(ch) : Final(ch[i]) => i = Len(ch)
OneWork(ch)   == \A i, j \in 1 .. Len(ch) :
                   ch[i].tag = "WORK" /\ ch[j].tag = "WORK" => i = j

(* A worker tells of a model of a feasibility problem. *)
TellsModel(ch) ==
  ~Optimizing /\ \E i \in 1 .. Len(ch) : ch[i].tag = "RESULT" /\ ch[i].code = 10

Working == {"search", "ask", "decide", "interrupted", "incumbent", "split"}

BusyWorkers == {w \in CubeWorkers : cubeOf[w] # None}

(* While the master collects, a cube worker generates, has sent its cubes or
   waits; nothing has been sent to it. *)
Collected(w) ==
  /\ cubeOf[w] = None
  /\ toWorker[w] = <<>>
  /\ w \notin awaited => pc[w] = "idle" /\ toMaster[w] = <<>>
  /\ w \in awaited => \/ pc[w] = "generate" /\ toMaster[w] = <<>>
                      \/ /\ pc[w] = "idle"
                         /\ Len(toMaster[w]) = 1
                         /\ toMaster[w][1].tag = "INIT_RESULT"

(* While the master serves, a cube worker without a cube is silent and has no
   work coming; a final result is the last thing a worker says before it is
   given more work; work comes to a worker that waits, one task at a time; and
   a worker only leaves when it is told to or has a model. *)
Served(w) ==
  /\ pc[w] \in Working \cup {"idle", "done"}
  /\ cubeOf[w] = None => /\ toMaster[w] = <<>>
                         /\ pc[w] \in {"idle", "done"}
                         /\ ~HasTag(toWorker[w], "WORK")
  /\ HasFinal(toMaster[w]) => pc[w] \in {"idle", "done"}
  /\ FinalLast(toMaster[w])
  /\ HasTag(toWorker[w], "WORK") => pc[w] = "idle" /\ toMaster[w] = <<>>
  /\ OneWork(toWorker[w])
  /\ ~flags.satFound /\ ~flags.stopSent =>
       /\ ~HasTag(toWorker[w], "STOP")
       /\ pc[w] = "done" => TellsModel(toMaster[w])

Protocol ==
  /\ phase = "collect" => activeWorkers = 0 /\ \A w \in CubeWorkers : Collected(w)
  /\ phase = "serve" => /\ activeWorkers = Cardinality(BusyWorkers)
                        /\ \A w \in CubeWorkers : Served(w)
  /\ \A w \in Workers : pc[w] = "interrupted" => found[w] # None

(* The inductive invariant.  Types alone are not inductive: that the counter
   stays in range, that a split comes from a worker that has a cube, and that a
   worker offers a solution it has, are facts about the protocol. *)
Inv == TypeOK /\ Protocol

-----------------------------------------------------------------------------
(***************************************************************************)
(* Processes, costs and messages.                                          *)
(***************************************************************************)

(* Every process but the master is the original worker or a cube worker. *)
LEMMA WorkerFacts ==
  /\ Original \in Workers
  /\ CubeWorkers = Workers \ {Original}
  /\ IsFiniteSet(CubeWorkers)
  /\ Cardinality(CubeWorkers) = NumCubeWorkers
<1>1. Original \in Workers /\ CubeWorkers = Workers \ {Original}
  BY WorkerAssumption DEF Original, Workers, CubeWorkers
<1>2. IsFiniteSet(CubeWorkers) /\ Cardinality(CubeWorkers) = NumCubeWorkers
  BY FS_Interval, WorkerAssumption DEF CubeWorkers
<1> QED BY <1>1, <1>2

(* The costs of solutions are integers between the bounds of the problem. *)
LEMMA CostFacts ==
  /\ Costs \subseteq Int
  /\ Inf \in Costs
  /\ \A s \in Sol : Cost[s] \in Costs
  /\ NegInf \in Int /\ ObjMin \in Int
  /\ None \notin Sol
BY ProblemAssumption DEF Costs

(* The smaller of two costs is a cost (bestSolution, the objective bound). *)
LEMMA LesserCost ==
  ASSUME NEW c \in Costs, NEW d \in Costs
  PROVE  Lesser(c, d) \in Costs
BY DEF Lesser

LEMMA WholeProblemType == WholeProblem \in Task
BY CostFacts DEF WholeProblem, Task

LEMMA ResultType ==
  ASSUME NEW code \in Codes, NEW cost \in Int, NEW sol \in Sol \cup {None, AllFalse},
         code \in {15, 25, 26} \/ (Optimizing /\ code = 10) => cost \in Costs
  PROVE  Result(code, cost, sol) \in ToMasterMsg
BY DEF Result, ToMasterMsg, ResultMsg

(* The messages without a payload. *)
LEMMA PlainMessageType == Request \in ToMasterMsg /\ Stop \in ToWorkerMsg
BY DEF Request, ToMasterMsg, RequestMsg, Stop, ToWorkerMsg, StopMsg

(* What a message with a given tag carries, to the master ... *)
LEMMA ToMasterPayload ==
  ASSUME NEW m \in ToMasterMsg
  PROVE  /\ m.tag = "INIT_RESULT" => m.sat \in BOOLEAN /\ m.parts \subseteq SUBSET Sol
         /\ m.tag = "BOUNDS" => m.lb \in Int /\ m.ub \in Costs
         /\ m.tag = "LEARNED_UPDATE" => m.excl \subseteq Sol
         /\ m.tag = "RESULT" =>
              /\ m \in ResultMsg
              /\ m.code \in Codes
              /\ m.cost \in Int
              /\ m.sol \in Sol \cup {None, AllFalse}
              /\ m.parts \subseteq SUBSET Sol
              /\ m.excl \subseteq Sol
              /\ m.code \in {15, 25, 26} \/ (Optimizing /\ m.code = 10) => m.cost \in Costs
BY DEF ToMasterMsg, InitMsg, RequestMsg, BoundsMsg, LearnedMsg, ResultMsg

(* ... and to a worker. *)
LEMMA ToWorkerPayload ==
  ASSUME NEW m \in ToWorkerMsg
  PROVE  /\ m.tag = "WORK" => m.task \in Task /\ m.best \in Costs
         /\ m.tag \in {"BEST_REPLY", "RESULT"} => m.best \in Costs
BY DEF ToWorkerMsg, StopMsg, WorkMsg, ReplyMsg

-----------------------------------------------------------------------------
(***************************************************************************)
(* Channels.                                                               *)
(***************************************************************************)

(* A send keeps the channel typed and adds one message at its end. *)
LEMMA AppendFacts ==
  ASSUME NEW S, NEW ch \in Seq(S), NEW m \in S
  PROVE  /\ Append(ch, m) \in Seq(S)
         /\ Append(ch, m) # <<>>
         /\ \A t : HasTag(Append(ch, m), t) <=> HasTag(ch, t) \/ m.tag = t
         /\ HasFinal(Append(ch, m)) <=> HasFinal(ch) \/ Final(m)
         /\ ~HasFinal(ch) => FinalLast(Append(ch, m))
         /\ OneWork(ch) /\ (HasTag(ch, "WORK") => m.tag # "WORK") => OneWork(Append(ch, m))
         /\ TellsModel(ch) => TellsModel(Append(ch, m))
         /\ ~Optimizing /\ m.tag = "RESULT" /\ m.code = 10 => TellsModel(Append(ch, m))
<1> DEFINE c == Append(ch, m)
<1>1. c \in Seq(S) /\ c # <<>> /\ Len(c) = Len(ch) + 1 /\ Len(ch) \in Nat
  BY AppendProperties, LenProperties
<1>2. \A i \in 1 .. Len(ch) : c[i] = ch[i]
  BY AppendProperties
<1>3. c[Len(ch) + 1] = m
  BY AppendProperties
<1> HIDE DEF c
<1>4. \A i : i \in 1 .. Len(c) <=> i \in 1 .. Len(ch) \/ i = Len(ch) + 1
  BY <1>1
<1>5. \A t : HasTag(c, t) <=> HasTag(ch, t) \/ m.tag = t
  BY <1>2, <1>3, <1>4 DEF HasTag
<1>6. HasFinal(c) <=> HasFinal(ch) \/ Final(m)
  BY <1>2, <1>3, <1>4 DEF HasFinal
<1>7. ~HasFinal(ch) => FinalLast(c)
  BY <1>1, <1>2, <1>4 DEF HasFinal, FinalLast
<1>8. OneWork(ch) /\ (HasTag(ch, "WORK") => m.tag # "WORK") => OneWork(c)
  BY <1>2, <1>3, <1>4 DEF HasTag, OneWork
<1>9. /\ TellsModel(ch) => TellsModel(c)
      /\ ~Optimizing /\ m.tag = "RESULT" /\ m.code = 10 => TellsModel(c)
  BY <1>2, <1>3, <1>4 DEF TellsModel
<1> QED BY <1>1, <1>5, <1>6, <1>7, <1>8, <1>9 DEF c

(* A receive of the first message. *)
LEMMA TailFacts ==
  ASSUME NEW S, NEW ch \in Seq(S), ch # <<>>
  PROVE  /\ Tail(ch) \in Seq(S)
         /\ Head(ch) \in S
         /\ \A t : Head(ch).tag = t => HasTag(ch, t)
         /\ Final(Head(ch)) => HasFinal(ch)
         /\ \A t : HasTag(Tail(ch), t) => HasTag(ch, t)
         /\ HasFinal(Tail(ch)) => HasFinal(ch)
         /\ FinalLast(ch) => FinalLast(Tail(ch))
         /\ FinalLast(ch) /\ Final(Head(ch)) => Tail(ch) = <<>>
         /\ OneWork(ch) => OneWork(Tail(ch))
         /\ OneWork(ch) /\ Head(ch).tag = "WORK" => ~HasTag(Tail(ch), "WORK")
         /\ TellsModel(ch) =>
              \/ TellsModel(Tail(ch))
              \/ ~Optimizing /\ Head(ch).tag = "RESULT" /\ Head(ch).code = 10
<1> DEFINE c == Tail(ch)
<1>1. c \in Seq(S) /\ Head(ch) \in S /\ Len(ch) \in Nat \ {0} /\ Len(c) = Len(ch) - 1
  BY HeadTailProperties, EmptySeq
<1>2. \A i \in 1 .. Len(c) : c[i] = ch[i + 1]
  BY HeadTailProperties
<1>3. Head(ch) = ch[1]
  OBVIOUS
<1>4. Len(c) = 0 => c = <<>>
  BY <1>1, EmptySeq
<1> HIDE DEF c
<1>5. \A i \in 1 .. Len(c) : i + 1 \in 1 .. Len(ch)
  BY <1>1
<1>6. 1 \in 1 .. Len(ch)
  BY <1>1
<1>7. \A i \in 1 .. Len(ch) : i = 1 \/ (i - 1 \in 1 .. Len(c) /\ c[i - 1] = ch[i])
  BY <1>1, <1>2
<1>8. /\ \A t : Head(ch).tag = t => HasTag(ch, t)
      /\ \A t : HasTag(c, t) => HasTag(ch, t)
  BY <1>2, <1>3, <1>5, <1>6 DEF HasTag
<1>9. /\ Final(Head(ch)) => HasFinal(ch)
      /\ HasFinal(c) => HasFinal(ch)
  BY <1>2, <1>3, <1>5, <1>6 DEF HasFinal
<1>10. FinalLast(ch) => FinalLast(c)
  BY <1>1, <1>2, <1>5 DEF FinalLast
<1>11. FinalLast(ch) /\ Final(Head(ch)) => c = <<>>
  BY <1>1, <1>3, <1>4, <1>6 DEF FinalLast
<1>12. OneWork(ch) => OneWork(c)
  BY <1>1, <1>2, <1>5 DEF OneWork
<1>13. OneWork(ch) /\ Head(ch).tag = "WORK" => ~HasTag(c, "WORK")
  BY <1>1, <1>2, <1>3, <1>5, <1>6 DEF OneWork, HasTag
<1>14. TellsModel(ch) =>
         \/ TellsModel(c)
         \/ ~Optimizing /\ Head(ch).tag = "RESULT" /\ Head(ch).code = 10
  BY <1>3, <1>7 DEF TellsModel
<1> QED BY <1>1, <1>8, <1>9, <1>10, <1>11, <1>12, <1>13, <1>14 DEF c

(* MPI_Recv with a tag finds the first message that has it. *)
LEMMA FirstTaggedFacts ==
  ASSUME NEW S, NEW ch \in Seq(S), NEW t, HasTag(ch, t)
  PROVE  /\ FirstTagged(ch, t) \in 1 .. Len(ch)
         /\ ch[FirstTagged(ch, t)] \in S
         /\ ch[FirstTagged(ch, t)].tag = t
<1> DEFINE T == {i \in 1 .. Len(ch) : ch[i].tag = t}
<1>1. Len(ch) \in Nat
  BY LenProperties
<1>2. T \subseteq Nat /\ T # {}
  BY <1>1 DEF HasTag
<1>3. PICK i \in T : \A j \in T : ~(<<j, i>> \in OpToRel(<, Nat))
  BY <1>2, WFMin, NatLessThanWellFounded
<1>4. \A j \in 1 .. i - 1 : ch[j].tag # t
  <2> SUFFICES ASSUME NEW j \in 1 .. i - 1, ch[j].tag = t PROVE FALSE
    OBVIOUS
  <2>1. j \in T /\ j < i /\ i \in Nat /\ j \in Nat
    BY <1>1
  <2>2. <<j, i>> \in OpToRel(<, Nat)
    BY <2>1 DEF OpToRel
  <2> QED BY <1>3, <2>1, <2>2
<1>5. \E k \in 1 .. Len(ch) : ch[k].tag = t /\ \A j \in 1 .. k - 1 : ch[j].tag # t
  BY <1>4
<1>6. FirstTagged(ch, t) \in 1 .. Len(ch) /\ ch[FirstTagged(ch, t)].tag = t
  BY <1>5 DEF FirstTagged
<1> QED BY <1>6, ElementOfSeq

(* The message received is taken out of the channel, wherever it is. *)
LEMMA RemoveFacts ==
  ASSUME NEW S, NEW ch \in Seq(S), NEW i \in 1 .. Len(ch)
  PROVE  /\ RemoveAt(ch, i) \in Seq(S)
         /\ \A t : HasTag(RemoveAt(ch, i), t) => HasTag(ch, t)
         /\ Len(RemoveAt(ch, i)) = Len(ch) - 1
         /\ \A k \in 1 .. Len(ch) - 1 :
              RemoveAt(ch, i)[k] = IF k <= i - 1 THEN ch[k] ELSE ch[k + 1]
<1>1. Len(ch) \in Nat /\ \A k \in 1 .. Len(ch) : ch[k] \in S
  BY LenProperties, ElementOfSeq
<1> DEFINE p == SubSeq(ch, 1, i - 1)
           q == SubSeq(ch, i + 1, Len(ch))
<1>2. /\ p \in Seq(S) /\ Len(p) = i - 1
      /\ \A k \in 1 .. Len(p) : p[k] = ch[k]
  BY <1>1, SubSeqProperties
<1>3. /\ q \in Seq(S) /\ Len(q) = Len(ch) - i
      /\ \A k \in 1 .. Len(q) : q[k] = ch[i + k]
  BY <1>1, SubSeqProperties
<1> HIDE DEF p, q
<1>4. /\ p \o q \in Seq(S) /\ Len(p \o q) = Len(ch) - 1
      /\ \A k \in 1 .. Len(ch) - 1 :
           (p \o q)[k] = IF k <= i - 1 THEN ch[k] ELSE ch[k + 1]
  <2>1. /\ p \o q \in Seq(S) /\ Len(p \o q) = Len(p) + Len(q)
        /\ \A k \in 1 .. Len(p) + Len(q) :
             (p \o q)[k] = IF k <= Len(p) THEN p[k] ELSE q[k - Len(p)]
    BY <1>2, <1>3, ConcatProperties
  <2>2. \A k \in 1 .. Len(ch) - 1 : ~(k <= i - 1) =>
          k - Len(p) \in 1 .. Len(q) /\ i + (k - Len(p)) = k + 1
    BY <1>1, <1>2, <1>3
  <2>3. \A k \in 1 .. Len(ch) - 1 : k <= i - 1 => k \in 1 .. Len(p)
    BY <1>1, <1>2
  <2> QED BY <1>1, <1>2, <1>3, <2>1, <2>2, <2>3
<1>5. \A k \in 1 .. Len(p \o q) : \E j \in 1 .. Len(ch) : (p \o q)[k] = ch[j]
  BY <1>1, <1>4
<1> QED BY <1>4, <1>5 DEF p, q, RemoveAt, HasTag

(* Reports are at most one message, and never end the work on a cube. *)
LEMMA ConcatShort ==
  ASSUME NEW S, NEW ch \in Seq(S), NEW ms \in Seq(S), ~HasFinal(ch), ~HasFinal(ms)
  PROVE  ch \o ms \in Seq(S) /\ ~HasFinal(ch \o ms)
<1>1. Len(ch) \in Nat /\ Len(ms) \in Nat
  BY LenProperties
<1>2. /\ ch \o ms \in Seq(S)
      /\ Len(ch \o ms) = Len(ch) + Len(ms)
      /\ \A i \in 1 .. Len(ch) + Len(ms) :
           (ch \o ms)[i] = IF i <= Len(ch) THEN ch[i] ELSE ms[i - Len(ch)]
  BY ConcatProperties
<1>3. \A i \in 1 .. Len(ch) + Len(ms) :
        \/ i \in 1 .. Len(ch) /\ (ch \o ms)[i] = ch[i]
        \/ i - Len(ch) \in 1 .. Len(ms) /\ (ch \o ms)[i] = ms[i - Len(ch)]
  BY <1>1, <1>2
<1> QED BY <1>2, <1>3 DEF HasFinal

-----------------------------------------------------------------------------
(***************************************************************************)
(* The workers' steps keep the invariant.                                  *)
(***************************************************************************)

(* What the channels and the label of a worker may become in a step of its own
   while it works, seen from the master's books. *)
Behaves(w) ==
  /\ pc[w] \in Working
  /\ pc'[w] \in Working \cup {"idle", "done"}
  /\ \A t : HasTag(toWorker'[w], t) => HasTag(toWorker[w], t)
  /\ ~HasFinal(toMaster[w]) =>
       /\ FinalLast(toMaster'[w])
       /\ HasFinal(toMaster'[w]) => pc'[w] \in {"idle", "done"}
  /\ w # Original /\ pc'[w] = "done" =>
       HasTag(toWorker[w], "STOP") \/ TellsModel(toMaster'[w])

(* Only worker w does something the protocol speaks of. *)
OnlyMoves(w) ==
  /\ UNCHANGED masterVars
  /\ \A v \in Workers \ {w} : /\ toMaster'[v] = toMaster[v]
                              /\ toWorker'[v] = toWorker[v]
                              /\ pc'[v] = pc[v]
                              /\ found'[v] = found[v]

(* While the master serves, a working cube worker has a cube, no task under way
   to it, and no result under way from it. *)
LEMMA BusyFacts ==
  ASSUME Inv, phase = "serve", NEW w \in CubeWorkers, pc[w] \in Working
  PROVE  /\ cubeOf[w] # None
         /\ ~HasTag(toWorker[w], "WORK")
         /\ ~HasFinal(toMaster[w])
BY DEF Inv, Protocol, Served, Working

(* A step of a working worker that behaves keeps the protocol. *)
LEMMA WorkerStep ==
  ASSUME Inv, NEW w \in Workers, OnlyMoves(w), Behaves(w),
         pc'[w] = "interrupted" => found'[w] # None
  PROVE  Protocol'
<1>1. /\ phase' = phase /\ awaited' = awaited /\ cubeOf' = cubeOf
      /\ activeWorkers' = activeWorkers /\ flags' = flags
  BY DEF OnlyMoves, masterVars, ledger
<1>2. BusyWorkers' = BusyWorkers
  BY <1>1 DEF BusyWorkers
<1>3. CubeWorkers \subseteq Workers
  BY WorkerFacts
<1>4. ASSUME phase = "collect" PROVE activeWorkers' = 0 /\ \A v \in CubeWorkers : Collected(v)'
  <2>1. \A v \in CubeWorkers : Collected(v) /\ v # w
    BY <1>4 DEF Inv, Protocol, Collected, Behaves, Working
  <2> QED BY <1>1, <1>3, <1>4, <2>1 DEF Inv, Protocol, OnlyMoves, Collected
<1>5. ASSUME phase = "serve", NEW v \in CubeWorkers PROVE Served(v)'
  <2>1. CASE v # w
    <3>1. Served(v) /\ toMaster'[v] = toMaster[v] /\ toWorker'[v] = toWorker[v] /\ pc'[v] = pc[v]
      BY <1>3, <1>5, <2>1 DEF Inv, Protocol, OnlyMoves
    <3> QED BY <1>1, <3>1 DEF Served
  <2>2. CASE v = w
    <3>1. cubeOf[w] # None /\ ~HasTag(toWorker[w], "WORK") /\ ~HasFinal(toMaster[w])
      BY <1>5, <2>2, BusyFacts DEF Behaves
    <3>2. ~HasTag(toWorker'[w], "WORK")
      BY <3>1 DEF Behaves
    <3>3. OneWork(toWorker'[w])
      BY <3>2 DEF OneWork, HasTag
    <3>4. ~flags.satFound /\ ~flags.stopSent => ~HasTag(toWorker[w], "STOP")
      BY <1>5, <2>2 DEF Inv, Protocol, Served
    <3>5. w # Original
      BY <1>5, <2>2, WorkerFacts
    <3> QED BY <1>1, <2>2, <3>1, <3>2, <3>3, <3>4, <3>5 DEF Served, Behaves
  <2> QED BY <2>1, <2>2
<1>6. \A v \in Workers : pc'[v] = "interrupted" => found'[v] # None
  BY DEF Inv, Protocol, OnlyMoves
<1> QED BY <1>1, <1>2, <1>4, <1>5, <1>6 DEF Inv, Protocol

(* A step of one worker keeps the types if what it writes for that worker has
   its type and everything else stays as it is. *)
LEMMA LabelFacts ==
  ASSUME WorkersOK, NEW w \in Workers, NEW label, Goto(w, label)
  PROVE  pc'[w] = label /\ \A v \in Workers \ {w} : pc'[v] = pc[v]
BY DEF WorkersOK, Goto

LEMMA SendFacts ==
  ASSUME ChannelsOK, NEW w \in Workers, NEW m \in ToMasterMsg, Send(w, m)
  PROVE  /\ toMaster' \in [Workers -> Seq(ToMasterMsg)]
         /\ toMaster'[w] = Append(toMaster[w], m)
         /\ \A v \in Workers \ {w} : toMaster'[v] = toMaster[v]
BY AppendFacts DEF ChannelsOK, Send

LEMMA DisposeFacts ==
  ASSUME WorkersOK, NEW w \in Workers, Dispose(w)
  PROVE  /\ cube' \in [Workers -> Task]
         /\ bound' \in [Workers -> Costs]
         /\ found' \in [Workers -> Sol \cup {None}]
         /\ lower' \in [Workers -> Int]
         /\ \A v \in Workers \ {w} : found'[v] = found[v]
BY WholeProblemType, CostFacts DEF WorkersOK, Dispose

LEMMA LeaveFacts ==
  ASSUME ChannelsOK, WorkersOK, NEW w \in Workers, Leave(w)
  PROVE  /\ toWorker' \in [Workers -> Seq(ToWorkerMsg)]
         /\ \A t : ~HasTag(toWorker'[w], t)
         /\ \A v \in Workers \ {w} : toWorker'[v] = toWorker[v] /\ pc'[v] = pc[v]
         /\ pc'[w] = "done"
<1>1. <<>> \in Seq(ToWorkerMsg) /\ \A t : ~HasTag(<<>>, t)
  BY EmptySeq DEF HasTag
<1> QED BY <1>1, LabelFacts DEF Leave, ChannelsOK

(* The cost a solver reports for a solution it has is a cost. *)
LEMMA BestCostType ==
  ASSUME WorkersOK, NEW w \in Workers
  PROVE  /\ found[w] # None => BestCost(w) \in Costs
         /\ ReportedUB(w) \in Costs
BY CostFacts DEF WorkersOK, BestCost, ReportedUB

LEMMA ReportsFacts ==
  ASSUME WorkersOK, NEW w \in Workers
  PROVE  Reports(w) \in Seq(ToMasterMsg) /\ ~HasFinal(Reports(w))
<1>1. ASSUME NEW m \in ToMasterMsg, ~Final(m) PROVE <<m>> \in Seq(ToMasterMsg) /\ ~HasFinal(<<m>>)
  BY <1>1 DEF HasFinal
<1>2. ReportedUB(w) \in Costs /\ ReportedUB(w) \in Int
  BY BestCostType, CostFacts
<1>3. Result(26, ReportedUB(w), None) \in ToMasterMsg
  BY <1>2, ResultType DEF Codes
<1>4. ~Final(Result(26, ReportedUB(w), None))
  BY DEF Final, Result
<1>5. [tag |-> "BOUNDS", lb |-> lower[w], ub |-> ReportedUB(w)] \in ToMasterMsg
  BY <1>2 DEF WorkersOK, ToMasterMsg, BoundsMsg
<1>6. ~Final([tag |-> "BOUNDS", lb |-> lower[w], ub |-> ReportedUB(w)])
  BY DEF Final
<1>7. <<>> \in Seq(ToMasterMsg) /\ ~HasFinal(<<>>)
  BY EmptySeq DEF HasFinal
<1> QED BY <1>1, <1>3, <1>4, <1>5, <1>6, <1>7 DEF Reports

(* A solver answers with a result that ends the work on its cube. *)
LEMMA AnswerFacts ==
  ASSUME ChannelsOK, WorkersOK, NEW w \in Workers, Answer(w)
  PROVE  /\ toMaster' \in [Workers -> Seq(ToMasterMsg)]
         /\ ~HasFinal(toMaster[w]) => FinalLast(toMaster'[w])
         /\ \A v \in Workers \ {w} : toMaster'[v] = toMaster[v] /\ pc'[v] = pc[v]
         /\ pc'[w] = IF w = Original THEN "done" ELSE "idle"
<1> DEFINE m == IF found[w] = None THEN Result(20, 0, None)
                ELSE Result(10, BestCost(w), found[w])
<1>1. Result(20, 0, None) \in ToMasterMsg
  BY ResultType DEF Codes
<1>2. ASSUME found[w] # None PROVE Result(10, BestCost(w), found[w]) \in ToMasterMsg
  BY <1>2, ResultType, BestCostType, CostFacts DEF Codes, WorkersOK
<1>3. m \in ToMasterMsg
  BY <1>1, <1>2
<1>4. Send(w, m) /\ Goto(w, IF w = Original THEN "done" ELSE "idle")
  BY DEF Answer
<1> HIDE DEF m
<1>5. toMaster[w] \in Seq(ToMasterMsg)
  BY DEF ChannelsOK
<1>6. /\ toMaster' \in [Workers -> Seq(ToMasterMsg)]
      /\ toMaster'[w] = Append(toMaster[w], m)
      /\ \A v \in Workers \ {w} : toMaster'[v] = toMaster[v]
  BY <1>3, <1>4, SendFacts
<1>7. ~HasFinal(toMaster[w]) => FinalLast(toMaster'[w])
  BY <1>3, <1>5, <1>6, AppendFacts
<1>8. /\ pc'[w] = IF w = Original THEN "done" ELSE "idle"
      /\ \A v \in Workers \ {w} : pc'[v] = pc[v]
  BY <1>4, LabelFacts
<1> QED BY <1>6, <1>7, <1>8

(* The types of the master's variables depend on nothing else. *)
LEMMA MasterUnchanged ==
  ASSUME MasterOK, UNCHANGED masterVars
  PROVE  MasterOK'
BY DEF MasterOK, masterVars, ledger, incumbent

LEMMA GenerateStep ==
  ASSUME Inv, NEW w \in CubeWorkers, Generate(w)
  PROVE  Inv'
<1>1. w \in Workers /\ CubeWorkers \subseteq Workers
  BY WorkerFacts
<1>2. PICK sat \in BOOLEAN, parts \in SUBSET SUBSET Share[w] :
        Send(w, [tag |-> "INIT_RESULT", sat |-> sat, parts |-> parts])
  BY DEF Generate, Partitions
<1> DEFINE m == [tag |-> "INIT_RESULT", sat |-> sat, parts |-> parts]
<1>3. m \in ToMasterMsg /\ m.tag = "INIT_RESULT"
  BY WorkerAssumption DEF ToMasterMsg, InitMsg
<1> HIDE DEF m
<1>4. Send(w, m)
  BY <1>2 DEF m
<1>5. /\ toMaster' \in [Workers -> Seq(ToMasterMsg)]
      /\ toMaster'[w] = Append(toMaster[w], m)
      /\ \A v \in Workers \ {w} : toMaster'[v] = toMaster[v]
  BY <1>1, <1>3, <1>4, SendFacts DEF Inv, TypeOK
<1>6. pc'[w] = "idle" /\ \A v \in Workers \ {w} : pc'[v] = pc[v]
  BY <1>1, LabelFacts DEF Inv, TypeOK, Generate
<1>7. UNCHANGED <<toWorker, masterVars, solverVars, statics>>
  BY DEF Generate
<1>8. ChannelsOK'
  BY <1>5, <1>7 DEF Inv, TypeOK, ChannelsOK
<1>9. MasterOK'
  BY <1>7, MasterUnchanged DEF Inv, TypeOK
<1>10. WorkersOK'
  BY <1>7 DEF Inv, TypeOK, WorkersOK, Generate, Goto, solverVars, statics
<1>11. pc[w] = "generate"
  BY DEF Generate
<1>12. /\ phase' = phase /\ awaited' = awaited /\ cubeOf' = cubeOf
       /\ activeWorkers' = activeWorkers /\ flags' = flags /\ found' = found
  BY <1>7 DEF masterVars, ledger, solverVars
<1>13. ASSUME phase = "collect" PROVE activeWorkers' = 0 /\ \A v \in CubeWorkers : Collected(v)'
  <2>1. w \in awaited /\ toMaster[w] = <<>> /\ Collected(w)
    BY <1>11, <1>13 DEF Inv, Protocol, Collected
  <2>2. Len(toMaster'[w]) = 1 /\ toMaster'[w][1].tag = "INIT_RESULT"
    BY <1>3, <1>5, <2>1
  <2>3. Collected(w)'
    BY <1>6, <1>7, <1>12, <2>1, <2>2 DEF Collected
  <2> QED BY <1>1, <1>5, <1>6, <1>7, <1>12, <1>13, <2>3 DEF Inv, Protocol, Collected
<1>14. phase # "serve"
  BY <1>11 DEF Inv, Protocol, Served, Working
<1>15. \A v \in Workers : pc'[v] = "interrupted" => found'[v] # None
  BY <1>6, <1>12 DEF Inv, Protocol
<1> QED BY <1>8, <1>9, <1>10, <1>12, <1>13, <1>14, <1>15 DEF Inv, TypeOK, Protocol

LEMMA ReceiveStep ==
  ASSUME Inv, NEW w \in CubeWorkers, Receive(w)
  PROVE  Inv'
<1>1. w \in Workers /\ CubeWorkers \subseteq Workers
  BY WorkerFacts
<1> DEFINE m == Head(toWorker[w])
<1>2. /\ pc[w] = "idle" /\ toWorker[w] # <<>>
      /\ UNCHANGED <<toMaster, masterVars, statics>>
  BY DEF Receive
<1>3. toWorker[w] \in Seq(ToWorkerMsg) /\ m \in ToWorkerMsg
  BY <1>1, <1>2, TailFacts DEF Inv, TypeOK, ChannelsOK
<1>4. MasterOK'
  BY <1>2, MasterUnchanged DEF Inv, TypeOK
<1>5. /\ phase' = phase /\ awaited' = awaited /\ cubeOf' = cubeOf
      /\ activeWorkers' = activeWorkers /\ flags' = flags
  BY <1>2 DEF masterVars, ledger
<1>6. phase # "collect"
  BY <1>2 DEF Inv, Protocol, Collected
<1>7. CASE m.tag = "STOP"
  <2>1. Leave(w) /\ given' = given
    BY <1>7 DEF Receive
  <2>2. ChannelsOK'
    BY <1>1, <1>2, <2>1, LeaveFacts DEF Inv, TypeOK, ChannelsOK
  <2>3. WorkersOK'
    BY <1>1, <1>2, <2>1, DisposeFacts DEF Inv, TypeOK, WorkersOK, Leave, Goto, statics
  <2>4. /\ \A t : ~HasTag(toWorker'[w], t)
        /\ \A v \in Workers \ {w} : toWorker'[v] = toWorker[v] /\ pc'[v] = pc[v]
        /\ pc'[w] = "done"
        /\ \A v \in Workers \ {w} : found'[v] = found[v]
    BY <1>1, <2>1, LeaveFacts, DisposeFacts DEF Inv, TypeOK, Leave
  <2>5. HasTag(toWorker[w], "STOP")
    BY <1>2, <1>3, <1>7, TailFacts
  <2>6. ASSUME phase = "serve", NEW v \in CubeWorkers PROVE Served(v)'
    <3>1. Served(v)
      BY <2>6 DEF Inv, Protocol
    <3>2. OneWork(toWorker'[w])
      BY <2>4 DEF OneWork, HasTag
    <3>3. CASE v = w
      BY <1>2, <1>5, <2>4, <2>5, <3>1, <3>2, <3>3 DEF Served
    <3>4. CASE v # w
      BY <1>1, <1>2, <1>5, <2>4, <3>1, <3>4 DEF Served
    <3> QED BY <3>3, <3>4
  <2>7. \A v \in Workers : pc'[v] = "interrupted" => found'[v] # None
    BY <2>4 DEF Inv, Protocol
  <2> QED BY <1>4, <1>5, <1>6, <2>2, <2>3, <2>6, <2>7 DEF Inv, TypeOK, Protocol, BusyWorkers
<1>8. CASE m.tag = "WORK"
  <2>1. /\ toWorker' = [toWorker EXCEPT ![w] = Tail(@)]
        /\ Goto(w, "search")
        /\ cube' = [cube EXCEPT ![w] = m.task]
        /\ given' = [given EXCEPT ![w] = IF m.best = Inf THEN @ ELSE m.best]
        /\ bound' = [bound EXCEPT ![w] = ObjectiveBound(Inf, given'[w])]
        /\ found' = [found EXCEPT ![w] = None]
        /\ lower' = [lower EXCEPT ![w] = ObjMin]
    BY <1>8 DEF Receive
  <2>2. m.task \in Task /\ m.best \in Costs
    BY <1>3, <1>8, ToWorkerPayload
  <2>3. ChannelsOK'
    BY <1>1, <1>2, <1>3, <2>1, TailFacts DEF Inv, TypeOK, ChannelsOK
  <2>4. WorkersOK'
    <3>1. given' \in [Workers -> Costs]
      BY <1>1, <2>1, <2>2 DEF Inv, TypeOK, WorkersOK
    <3>2. bound' \in [Workers -> Costs]
      BY <1>1, <2>1, <3>1, LesserCost, CostFacts DEF Inv, TypeOK, WorkersOK, ObjectiveBound
    <3> QED BY <1>1, <1>2, <2>1, <2>2, <3>1, <3>2, CostFacts
            DEF Inv, TypeOK, WorkersOK, Goto, statics
  <2>5. /\ toWorker'[w] = Tail(toWorker[w]) /\ pc'[w] = "search"
        /\ \A v \in Workers \ {w} : /\ toWorker'[v] = toWorker[v] /\ pc'[v] = pc[v]
                                    /\ found'[v] = found[v]
    BY <1>1, <2>1, LabelFacts DEF Inv, TypeOK, ChannelsOK, WorkersOK
  <2>6. ASSUME phase = "serve", NEW v \in CubeWorkers PROVE Served(v)'
    <3>1. Served(v)
      BY <2>6 DEF Inv, Protocol
    <3>2. CASE v = w
      <4>1. HasTag(toWorker[w], "WORK")
        BY <1>2, <1>3, <1>8, TailFacts
      <4>2. toMaster[w] = <<>> /\ cubeOf[w] # None
        BY <3>1, <3>2, <4>1 DEF Served
      <4>3. ~HasFinal(toMaster[w]) /\ FinalLast(toMaster[w])
        BY <4>2 DEF HasFinal, FinalLast
      <4>4. ~HasTag(toWorker'[w], "WORK") /\ OneWork(toWorker'[w])
        BY <1>2, <1>3, <1>8, <2>5, <3>1, <3>2, TailFacts DEF Served
      <4>5. HasTag(toWorker'[w], "STOP") => HasTag(toWorker[w], "STOP")
        BY <1>2, <1>3, <2>5, TailFacts
      <4> QED BY <1>2, <1>5, <2>5, <3>1, <3>2, <4>2, <4>3, <4>4, <4>5 DEF Served, Working
    <3>3. CASE v # w
      BY <1>1, <1>2, <1>5, <2>5, <3>1, <3>3 DEF Served
    <3> QED BY <3>2, <3>3
  <2>7. \A v \in Workers : pc'[v] = "interrupted" => found'[v] # None
    BY <2>5 DEF Inv, Protocol
  <2> QED BY <1>4, <1>5, <1>6, <2>3, <2>4, <2>6, <2>7 DEF Inv, TypeOK, Protocol, BusyWorkers
<1> QED BY <1>7, <1>8 DEF Receive

(* What is left to show of the step of a worker that works. *)
LEMMA WorkerInv ==
  ASSUME Inv, NEW w \in Workers, ChannelsOK', WorkersOK', OnlyMoves(w), Behaves(w),
         pc'[w] = "interrupted" => found'[w] # None
  PROVE  Inv'
BY WorkerStep, MasterUnchanged DEF Inv, TypeOK, OnlyMoves

(* A worker that sends nothing and receives nothing. *)
LEMMA SilentStep ==
  ASSUME Inv, NEW w \in Workers, UNCHANGED <<channels, masterVars>>, WorkersOK',
         pc[w] \in Working, pc'[w] \in Working \ {"interrupted"},
         \A v \in Workers \ {w} : pc'[v] = pc[v] /\ found'[v] = found[v]
  PROVE  Inv'
<1>1. toMaster' = toMaster /\ toWorker' = toWorker
  BY DEF channels
<1>2. ChannelsOK'
  BY <1>1 DEF Inv, TypeOK, ChannelsOK
<1>3. ~HasFinal(toMaster[w]) => FinalLast(toMaster[w])
  BY DEF HasFinal, FinalLast
<1>4. OnlyMoves(w) /\ Behaves(w)
  BY <1>1, <1>3 DEF OnlyMoves, Behaves, Working
<1> QED BY <1>2, <1>4, WorkerInv

LEMMA PollStep ==
  ASSUME Inv, NEW w \in Workers, Poll(w)
  PROVE  Inv'
<1>1. /\ pc[w] = "search" /\ WorkersOK /\ ChannelsOK
      /\ toMaster[w] \in Seq(ToMasterMsg)
      /\ UNCHANGED <<masterVars, given, imported>>
  BY DEF Poll, Inv, TypeOK, ChannelsOK
<1>2. Reports(w) \in Seq(ToMasterMsg) /\ ~HasFinal(Reports(w))
  BY <1>1, ReportsFacts
<1>3. /\ reported' \in [Workers -> Costs]
      /\ reportedLB' \in [Workers -> Int]
  BY <1>1, BestCostType DEF Poll, WorkersOK
<1>4. /\ Append(Reports(w), Request) \in Seq(ToMasterMsg)
      /\ ~HasFinal(Append(Reports(w), Request))
  BY <1>2, PlainMessageType, AppendFacts DEF Request, Final
<1>5. \E ms \in Seq(ToMasterMsg) :
        ~HasFinal(ms) /\ toMaster' = [toMaster EXCEPT ![w] = @ \o ms]
  BY <1>2, <1>4 DEF Poll
<1>6. PICK ms \in Seq(ToMasterMsg) :
        ~HasFinal(ms) /\ toMaster' = [toMaster EXCEPT ![w] = @ \o ms]
  BY <1>5
<1>7. /\ toMaster' \in [Workers -> Seq(ToMasterMsg)]
      /\ toMaster'[w] = toMaster[w] \o ms
      /\ \A v \in Workers \ {w} : toMaster'[v] = toMaster[v]
  BY <1>1, <1>6, ConcatProperties DEF ChannelsOK
<1>8. ~HasFinal(toMaster[w]) => ~HasFinal(toMaster'[w]) /\ FinalLast(toMaster'[w])
  <2>1. ~HasFinal(toMaster[w]) => ~HasFinal(toMaster'[w])
    BY <1>1, <1>6, <1>7, ConcatShort
  <2> QED BY <2>1 DEF HasFinal, FinalLast
<1>9. CASE HasTag(toWorker[w], "STOP") /\ Leave(w)
  <2>1. ChannelsOK'
    BY <1>1, <1>7, <1>9, LeaveFacts DEF ChannelsOK
  <2>2. WorkersOK'
    BY <1>1, <1>3, <1>9, DisposeFacts DEF WorkersOK, Leave, Goto
  <2>3. /\ \A t : ~HasTag(toWorker'[w], t)
        /\ pc'[w] = "done"
        /\ \A v \in Workers \ {w} : /\ toWorker'[v] = toWorker[v] /\ pc'[v] = pc[v]
                                    /\ found'[v] = found[v]
    BY <1>1, <1>9, LeaveFacts, DisposeFacts DEF Leave
  <2>4. OnlyMoves(w)
    BY <1>1, <1>7, <2>3 DEF OnlyMoves
  <2>5. Behaves(w)
    BY <1>1, <1>8, <1>9, <2>3 DEF Behaves, Working
  <2> QED BY <2>1, <2>2, <2>3, <2>4, <2>5, WorkerInv
<1>10. ASSUME UNCHANGED <<toWorker, cube, bound, found, lower>>,
              NEW label \in {"interrupted", "split", "ask", "decide"}, Goto(w, label),
              label = "interrupted" => found[w] # None
       PROVE  Inv'
  <2>1. pc'[w] = label /\ \A v \in Workers \ {w} : pc'[v] = pc[v]
    BY <1>1, <1>10, LabelFacts
  <2>2. ChannelsOK'
    BY <1>1, <1>7, <1>10 DEF ChannelsOK
  <2>3. WorkersOK'
    BY <1>1, <1>3, <1>10 DEF WorkersOK, Goto
  <2>4. OnlyMoves(w)
    BY <1>1, <1>7, <1>10, <2>1 DEF OnlyMoves
  <2>5. Behaves(w)
    BY <1>1, <1>8, <1>10, <2>1 DEF Behaves, Working
  <2> QED BY <1>10, <2>1, <2>2, <2>3, <2>4, <2>5, WorkerInv
<1>11. \/ HasTag(toWorker[w], "STOP") /\ Leave(w)
       \/ /\ UNCHANGED <<toWorker, cube, bound, found, lower>>
          /\ \E label \in {"interrupted", "split", "ask", "decide"} :
               Goto(w, label) /\ (label = "interrupted" => found[w] # None)
  BY DEF Poll
<1> QED BY <1>9, <1>10, <1>11

LEMMA DecideStep ==
  ASSUME Inv, NEW w \in Workers, Decide(w)
  PROVE  Inv'
<1>1. /\ pc[w] = "decide" /\ Goto(w, "search") /\ WorkersOK
      /\ UNCHANGED <<channels, masterVars, solverVars, statics>>
  BY DEF Decide, Inv, TypeOK
<1>2. pc'[w] = "search" /\ \A v \in Workers \ {w} : pc'[v] = pc[v]
  BY <1>1, LabelFacts
<1>3. WorkersOK'
  BY <1>1 DEF WorkersOK, Goto, solverVars, statics
<1>4. found' = found
  BY <1>1 DEF solverVars
<1> QED BY <1>1, <1>2, <1>3, <1>4, SilentStep DEF Working

LEMMA RaiseLowerBoundStep ==
  ASSUME Inv, NEW w \in Workers, RaiseLowerBound(w)
  PROVE  Inv'
<1>1. /\ pc[w] = "decide" /\ Goto(w, "search") /\ WorkersOK
      /\ UNCHANGED <<channels, masterVars, cube, given, bound, found, statics>>
  BY DEF RaiseLowerBound, Inv, TypeOK
<1>2. pc'[w] = "search" /\ \A v \in Workers \ {w} : pc'[v] = pc[v]
  BY <1>1, LabelFacts
<1>3. lower' \in [Workers -> Int]
  BY <1>1, BoundAssumption DEF RaiseLowerBound, WorkersOK
<1>4. WorkersOK'
  BY <1>1, <1>3 DEF WorkersOK, Goto, statics
<1> QED BY <1>1, <1>2, <1>4, SilentStep DEF Working

LEMMA RefuteStep ==
  ASSUME Inv, NEW w \in Workers, Refute(w)
  PROVE  Inv'
<1>1. /\ pc[w] \in {"search", "decide"} /\ Answer(w) /\ ChannelsOK /\ WorkersOK
      /\ UNCHANGED <<toWorker, masterVars, given, statics>>
  BY DEF Refute, Inv, TypeOK
<1>2. /\ toMaster' \in [Workers -> Seq(ToMasterMsg)]
      /\ ~HasFinal(toMaster[w]) => FinalLast(toMaster'[w])
      /\ \A v \in Workers \ {w} : toMaster'[v] = toMaster[v] /\ pc'[v] = pc[v]
      /\ pc'[w] = IF w = Original THEN "done" ELSE "idle"
  BY <1>1, AnswerFacts
<1>3. Dispose(w)
  BY <1>1 DEF Answer
<1>4. ChannelsOK'
  BY <1>1, <1>2 DEF ChannelsOK
<1>5. WorkersOK'
  BY <1>1, <1>3, DisposeFacts DEF WorkersOK, Answer, Goto, statics
<1>6. \A v \in Workers \ {w} : found'[v] = found[v]
  BY <1>1, <1>3, DisposeFacts
<1>7. OnlyMoves(w)
  BY <1>1, <1>2, <1>6 DEF OnlyMoves
<1>8. Behaves(w)
  BY <1>1, <1>2 DEF Behaves, Working
<1> QED BY <1>2, <1>4, <1>5, <1>7, <1>8, WorkerInv

LEMMA ImportStep ==
  ASSUME Inv, NEW w \in Workers, Import(w)
  PROVE  Inv'
<1> DEFINE m == Head(toWorker[w])
           cost == m.best
<1>1. /\ pc[w] = "ask" /\ toWorker[w] # <<>> /\ m.tag = "BEST_REPLY"
      /\ toWorker' = [toWorker EXCEPT ![w] = Tail(@)]
      /\ Goto(w, "decide") /\ ChannelsOK /\ WorkersOK
      /\ UNCHANGED <<masterVars, cube, given, found, lower, reported, reportedLB>>
  BY DEF Import, Inv, TypeOK
<1>2. toWorker[w] \in Seq(ToWorkerMsg) /\ toMaster[w] \in Seq(ToMasterMsg)
  BY <1>1 DEF ChannelsOK
<1>3. cost \in Costs
  BY <1>1, <1>2, TailFacts, ToWorkerPayload
<1>4. /\ bound' = [bound EXCEPT ![w] = IF IsNews(w, cost) THEN ObjectiveBound(@, cost) ELSE @]
      /\ imported' = [imported EXCEPT ![w] = IF IsNews(w, cost) THEN cost ELSE @]
  BY DEF Import
<1> HIDE DEF cost
<1>5. bound' \in [Workers -> Costs] /\ imported' \in [Workers -> Costs]
  BY <1>1, <1>3, <1>4, LesserCost DEF WorkersOK, ObjectiveBound
<1>6. WorkersOK'
  BY <1>1, <1>5 DEF WorkersOK, Goto
<1>7. /\ toMaster' \in [Workers -> Seq(ToMasterMsg)]
      /\ ~HasFinal(toMaster[w]) => ~HasFinal(toMaster'[w])
      /\ \A v \in Workers \ {w} : toMaster'[v] = toMaster[v]
  <2>1. CASE toMaster' = toMaster
    BY <1>1, <2>1 DEF ChannelsOK
  <2>2. CASE \E excl \in Learnable(w) : Send(w, [tag |-> "LEARNED_UPDATE", excl |-> excl])
    <3>1. PICK excl \in SUBSET Sol : Send(w, [tag |-> "LEARNED_UPDATE", excl |-> excl])
      BY <2>2, BoundAssumption DEF Learnable
    <3> DEFINE msg == [tag |-> "LEARNED_UPDATE", excl |-> excl]
    <3>2. msg \in ToMasterMsg /\ ~Final(msg)
      BY DEF ToMasterMsg, LearnedMsg, Final
    <3>3. Send(w, msg)
      BY <3>1
    <3> HIDE DEF msg
    <3>4. /\ toMaster' \in [Workers -> Seq(ToMasterMsg)]
          /\ toMaster'[w] = Append(toMaster[w], msg)
          /\ \A v \in Workers \ {w} : toMaster'[v] = toMaster[v]
      BY <1>1, <3>2, <3>3, SendFacts
    <3> QED BY <1>2, <3>2, <3>4, AppendFacts
  <2> QED BY <2>1, <2>2 DEF Import
<1>8. ChannelsOK'
  BY <1>1, <1>2, <1>7, TailFacts DEF ChannelsOK
<1>9. /\ toWorker'[w] = Tail(toWorker[w])
      /\ \A t : HasTag(toWorker'[w], t) => HasTag(toWorker[w], t)
      /\ \A v \in Workers \ {w} : toWorker'[v] = toWorker[v]
  BY <1>1, <1>2, TailFacts DEF ChannelsOK
<1>10. pc'[w] = "decide" /\ \A v \in Workers \ {w} : pc'[v] = pc[v]
  BY <1>1, LabelFacts
<1>11. OnlyMoves(w)
  BY <1>1, <1>7, <1>9, <1>10 DEF OnlyMoves
<1>12. Behaves(w)
  BY <1>1, <1>7, <1>9, <1>10 DEF Behaves, Working, HasFinal, FinalLast
<1> QED BY <1>6, <1>8, <1>10, <1>11, <1>12, WorkerInv

LEMMA ImportStopStep ==
  ASSUME Inv, NEW w \in Workers, ImportStop(w)
  PROVE  Inv'
<1>1. /\ pc[w] = "ask" /\ toWorker[w] # <<>> /\ Head(toWorker[w]).tag = "STOP"
      /\ Leave(w) /\ ChannelsOK /\ WorkersOK
      /\ UNCHANGED <<toMaster, masterVars, given, statics>>
  BY DEF ImportStop, Inv, TypeOK
<1>2. HasTag(toWorker[w], "STOP")
  BY <1>1, TailFacts DEF ChannelsOK
<1>3. ChannelsOK'
  BY <1>1, LeaveFacts DEF ChannelsOK
<1>4. WorkersOK'
  BY <1>1, DisposeFacts DEF WorkersOK, Leave, Goto, statics
<1>5. /\ \A t : ~HasTag(toWorker'[w], t)
      /\ pc'[w] = "done"
      /\ \A v \in Workers \ {w} : /\ toWorker'[v] = toWorker[v] /\ pc'[v] = pc[v]
                                  /\ found'[v] = found[v]
  BY <1>1, LeaveFacts, DisposeFacts DEF Leave
<1>6. OnlyMoves(w)
  BY <1>1, <1>5 DEF OnlyMoves
<1>7. Behaves(w)
  BY <1>1, <1>2, <1>5 DEF Behaves, Working, HasFinal, FinalLast
<1> QED BY <1>3, <1>4, <1>5, <1>6, <1>7, WorkerInv

LEMMA ExternalUBStep ==
  ASSUME Inv, NEW w \in Workers, ExternalUB(w)
  PROVE  Inv'
<1> DEFINE i == FirstTagged(toWorker[w], "BEST_REPLY")
           ub == toWorker[w][i].best
<1>1. /\ pc[w] = "ask" /\ HasTag(toWorker[w], "BEST_REPLY")
      /\ toWorker' = [toWorker EXCEPT ![w] = RemoveAt(@, i)]
      /\ ChannelsOK /\ WorkersOK
      /\ UNCHANGED <<masterVars, given, statics>>
  BY DEF ExternalUB, Inv, TypeOK
<1>2. toWorker[w] \in Seq(ToWorkerMsg) /\ toMaster[w] \in Seq(ToMasterMsg)
  BY <1>1 DEF ChannelsOK
<1>3. i \in 1 .. Len(toWorker[w]) /\ ub \in Costs
  BY <1>1, <1>2, FirstTaggedFacts, ToWorkerPayload
<1>4. \/ Answer(w)
      \/ /\ bound' = [bound EXCEPT ![w] = ObjectiveBound(@, ub)]
         /\ Goto(w, "decide")
         /\ UNCHANGED <<toMaster, cube, found, lower>>
  BY DEF ExternalUB
<1> HIDE DEF i, ub
<1>5. /\ toWorker' \in [Workers -> Seq(ToWorkerMsg)]
      /\ \A t : HasTag(toWorker'[w], t) => HasTag(toWorker[w], t)
      /\ \A v \in Workers \ {w} : toWorker'[v] = toWorker[v]
  BY <1>1, <1>2, <1>3, RemoveFacts DEF ChannelsOK
<1>6. CASE Answer(w)
  <2>1. /\ toMaster' \in [Workers -> Seq(ToMasterMsg)]
        /\ ~HasFinal(toMaster[w]) => FinalLast(toMaster'[w])
        /\ \A v \in Workers \ {w} : toMaster'[v] = toMaster[v] /\ pc'[v] = pc[v]
        /\ pc'[w] = IF w = Original THEN "done" ELSE "idle"
    BY <1>1, <1>6, AnswerFacts
  <2>2. Dispose(w)
    BY <1>6 DEF Answer
  <2>3. WorkersOK'
    BY <1>1, <1>6, <2>2, DisposeFacts DEF WorkersOK, Answer, Goto, statics
  <2>4. \A v \in Workers \ {w} : found'[v] = found[v]
    BY <1>1, <2>2, DisposeFacts
  <2>5. OnlyMoves(w)
    BY <1>1, <1>5, <2>1, <2>4 DEF OnlyMoves
  <2>6. Behaves(w)
    BY <1>1, <1>5, <2>1 DEF Behaves, Working
  <2>7. ChannelsOK'
    BY <1>5, <2>1 DEF ChannelsOK
  <2> QED BY <2>1, <2>3, <2>5, <2>6, <2>7, WorkerInv
<1>7. CASE /\ bound' = [bound EXCEPT ![w] = ObjectiveBound(@, ub)]
           /\ Goto(w, "decide")
           /\ UNCHANGED <<toMaster, cube, found, lower>>
  <2>1. bound' \in [Workers -> Costs]
    BY <1>1, <1>3, <1>7, LesserCost DEF WorkersOK, ObjectiveBound
  <2>2. WorkersOK'
    BY <1>1, <1>7, <2>1 DEF WorkersOK, Goto, statics
  <2>3. pc'[w] = "decide" /\ \A v \in Workers \ {w} : pc'[v] = pc[v]
    BY <1>1, <1>7, LabelFacts
  <2>4. ChannelsOK'
    BY <1>1, <1>5, <1>7 DEF ChannelsOK
  <2>5. OnlyMoves(w)
    BY <1>1, <1>5, <1>7, <2>3 DEF OnlyMoves
  <2>6. Behaves(w)
    BY <1>1, <1>5, <1>7, <2>3 DEF Behaves, Working, HasFinal, FinalLast
  <2> QED BY <2>2, <2>3, <2>4, <2>5, <2>6, WorkerInv
<1> QED BY <1>4, <1>6, <1>7

LEMMA FindSolutionStep ==
  ASSUME Inv, NEW w \in Workers, FindSolution(w)
  PROVE  Inv'
<1>1. /\ pc[w] = "decide" /\ ChannelsOK /\ WorkersOK
      /\ UNCHANGED <<masterVars, given, statics>>
      /\ toMaster[w] \in Seq(ToMasterMsg)
  BY DEF FindSolution, Inv, TypeOK, ChannelsOK
<1>2. PICK s \in Candidates(w, bound[w]) :
        IF Optimizing
          THEN /\ found' = [found EXCEPT ![w] = s]
               /\ bound' = [bound EXCEPT ![w] = Cost[s]]
               /\ Goto(w, "search")
               /\ UNCHANGED <<channels, cube, lower>>
          ELSE /\ Send(w, Result(10, 0, IF Backend = "native" THEN AllFalse ELSE s))
               /\ Leave(w)
  BY DEF FindSolution
<1>3. s \in Sol
  BY <1>1 DEF Candidates, WorkersOK, Task
<1>4. CASE Optimizing
  <2>1. WorkersOK'
    BY <1>1, <1>2, <1>3, <1>4, CostFacts DEF WorkersOK, Goto, statics
  <2>2. pc'[w] = "search" /\ \A v \in Workers \ {w} : pc'[v] = pc[v] /\ found'[v] = found[v]
    BY <1>1, <1>2, <1>4, LabelFacts DEF WorkersOK
  <2> QED BY <1>1, <1>2, <1>4, <2>1, <2>2, SilentStep DEF Working
<1>5. CASE ~Optimizing
  <2> DEFINE m == Result(10, 0, IF Backend = "native" THEN AllFalse ELSE s)
  <2>1. m \in ToMasterMsg
    BY <1>3, <1>5, ResultType DEF Codes
  <2>2. m.tag = "RESULT" /\ m.code = 10
    BY DEF Result
  <2>3. Send(w, m) /\ Leave(w)
    BY <1>2, <1>5
  <2> HIDE DEF m
  <2>4. /\ toMaster' \in [Workers -> Seq(ToMasterMsg)]
        /\ toMaster'[w] = Append(toMaster[w], m)
        /\ \A v \in Workers \ {w} : toMaster'[v] = toMaster[v]
    BY <1>1, <2>1, <2>3, SendFacts
  <2>5. /\ ~HasFinal(toMaster[w]) => FinalLast(toMaster'[w])
        /\ TellsModel(toMaster'[w])
    BY <1>1, <1>5, <2>1, <2>2, <2>4, AppendFacts
  <2>6. WorkersOK'
    BY <1>1, <2>3, DisposeFacts DEF WorkersOK, Leave, Goto, statics
  <2>7. /\ toWorker' \in [Workers -> Seq(ToWorkerMsg)]
        /\ \A t : ~HasTag(toWorker'[w], t)
        /\ pc'[w] = "done"
        /\ \A v \in Workers \ {w} : /\ toWorker'[v] = toWorker[v] /\ pc'[v] = pc[v]
                                    /\ found'[v] = found[v]
    BY <1>1, <2>3, LeaveFacts, DisposeFacts DEF Leave
  <2>8. ChannelsOK'
    BY <2>4, <2>7 DEF ChannelsOK
  <2>9. OnlyMoves(w)
    BY <1>1, <2>4, <2>7 DEF OnlyMoves
  <2>10. Behaves(w)
    BY <1>1, <2>5, <2>7 DEF Behaves, Working
  <2> QED BY <2>6, <2>7, <2>8, <2>9, <2>10, WorkerInv
<1> QED BY <1>4, <1>5

(* A worker that works says something that does not end its work. *)
LEMMA TellStep ==
  ASSUME Inv, NEW w \in Workers, NEW m \in ToMasterMsg, ~Final(m), Send(w, m),
         UNCHANGED <<toWorker, masterVars>>, WorkersOK',
         pc[w] \in Working, pc'[w] \in Working \ {"interrupted"},
         \A v \in Workers \ {w} : pc'[v] = pc[v] /\ found'[v] = found[v]
  PROVE  Inv'
<1>1. ChannelsOK /\ toMaster[w] \in Seq(ToMasterMsg)
  BY DEF Inv, TypeOK, ChannelsOK
<1>2. /\ toMaster' \in [Workers -> Seq(ToMasterMsg)]
      /\ toMaster'[w] = Append(toMaster[w], m)
      /\ \A v \in Workers \ {w} : toMaster'[v] = toMaster[v]
  BY <1>1, SendFacts
<1>3. ~HasFinal(toMaster[w]) => ~HasFinal(toMaster'[w])
  BY <1>1, <1>2, AppendFacts
<1>4. ChannelsOK'
  BY <1>1, <1>2 DEF ChannelsOK
<1>5. OnlyMoves(w)
  BY <1>2 DEF OnlyMoves
<1>6. Behaves(w)
  BY <1>3 DEF Behaves, Working, HasFinal, FinalLast
<1> QED BY <1>4, <1>5, <1>6, WorkerInv

LEMMA OfferSolutionStep ==
  ASSUME Inv, NEW w \in Workers, OfferSolution(w)
  PROVE  Inv'
<1>1. /\ pc[w] = "interrupted" /\ WorkersOK
      /\ Send(w, Result(25, BestCost(w), found[w]))
      /\ Goto(w, "incumbent")
      /\ UNCHANGED <<toWorker, masterVars, solverVars, statics>>
  BY DEF OfferSolution, Inv, TypeOK
<1>2. found[w] # None /\ found[w] \in Sol \cup {None}
  BY <1>1 DEF Inv, Protocol, WorkersOK
<1>3. Result(25, BestCost(w), found[w]) \in ToMasterMsg
  BY <1>1, <1>2, ResultType, BestCostType, CostFacts DEF Codes
<1>4. ~Final(Result(25, BestCost(w), found[w]))
  BY DEF Final, Result
<1>5. pc'[w] = "incumbent" /\ \A v \in Workers \ {w} : pc'[v] = pc[v]
  BY <1>1, LabelFacts
<1>6. WorkersOK' /\ found' = found
  BY <1>1 DEF WorkersOK, Goto, solverVars, statics
<1> QED BY <1>1, <1>3, <1>4, <1>5, <1>6, TellStep DEF Working

LEMMA ReceiveIncumbentStep ==
  ASSUME Inv, NEW w \in Workers, ReceiveIncumbent(w)
  PROVE  Inv'
<1> DEFINE i == FirstTagged(toWorker[w], "RESULT")
<1>1. /\ pc[w] = "incumbent" /\ HasTag(toWorker[w], "RESULT")
      /\ toWorker' = [toWorker EXCEPT ![w] = RemoveAt(@, i)]
      /\ given' = [given EXCEPT ![w] = toWorker[w][i].best]
      /\ Goto(w, "split") /\ ChannelsOK /\ WorkersOK
      /\ UNCHANGED <<toMaster, masterVars, cube, bound, found, lower, statics>>
  BY DEF ReceiveIncumbent, Inv, TypeOK
<1>2. toWorker[w] \in Seq(ToWorkerMsg)
  BY <1>1 DEF ChannelsOK
<1>3. i \in 1 .. Len(toWorker[w]) /\ toWorker[w][i].best \in Costs
  BY <1>1, <1>2, FirstTaggedFacts, ToWorkerPayload
<1> HIDE DEF i
<1>4. /\ toWorker' \in [Workers -> Seq(ToWorkerMsg)]
      /\ \A t : HasTag(toWorker'[w], t) => HasTag(toWorker[w], t)
      /\ \A v \in Workers \ {w} : toWorker'[v] = toWorker[v]
  BY <1>1, <1>2, <1>3, RemoveFacts DEF ChannelsOK
<1>5. ChannelsOK'
  BY <1>1, <1>4 DEF ChannelsOK
<1>6. WorkersOK'
  BY <1>1, <1>3 DEF WorkersOK, Goto, statics
<1>7. pc'[w] = "split" /\ \A v \in Workers \ {w} : pc'[v] = pc[v]
  BY <1>1, LabelFacts
<1>8. OnlyMoves(w)
  BY <1>1, <1>4, <1>7 DEF OnlyMoves
<1>9. Behaves(w)
  BY <1>1, <1>4, <1>7 DEF Behaves, Working, HasFinal, FinalLast
<1> QED BY <1>5, <1>6, <1>7, <1>8, <1>9, WorkerInv

LEMMA SplitCubeStep ==
  ASSUME Inv, NEW w \in CubeWorkers, SplitCube(w)
  PROVE  Inv'
<1>1. w \in Workers /\ w # Original
  BY WorkerFacts
<1>2. /\ pc[w] = "split" /\ ChannelsOK /\ WorkersOK
      /\ toMaster[w] \in Seq(ToMasterMsg)
      /\ Goto(w, "idle") /\ Dispose(w)
      /\ UNCHANGED <<toWorker, masterVars, given, statics>>
  BY <1>1 DEF SplitCube, Inv, TypeOK, ChannelsOK
<1>3. PICK excl \in Clauses \cup {{}} :
        \E parts \in SUBSET SUBSET cube[w].region :
          Send(w, Subcubes(parts, excl))
  BY DEF SplitCube, Partitions
<1> PICK parts \in SUBSET SUBSET cube[w].region :
        Send(w, Subcubes(parts, excl))
  BY <1>3
<1> DEFINE m == Subcubes(parts, excl)
<1>4. parts \in SUBSET SUBSET Sol /\ excl \in SUBSET Sol
  BY <1>1, <1>2, BoundAssumption DEF WorkersOK, Task
<1>5. IsFiniteSet(parts) /\ Cardinality(parts) \in Nat
  BY <1>4, ProblemAssumption, FS_SUBSET, FS_Subset, FS_CardinalityType
<1>6. m \in ToMasterMsg
  <2>1. m \in ResultMsg
    BY <1>4, <1>5 DEF Subcubes, ResultMsg, Codes
  <2> QED BY <2>1 DEF ToMasterMsg
<1>7. Send(w, m)
  OBVIOUS
<1> HIDE DEF m
<1>8. /\ toMaster' \in [Workers -> Seq(ToMasterMsg)]
      /\ toMaster'[w] = Append(toMaster[w], m)
      /\ \A v \in Workers \ {w} : toMaster'[v] = toMaster[v]
  BY <1>1, <1>2, <1>6, <1>7, SendFacts
<1>9. ~HasFinal(toMaster[w]) => FinalLast(toMaster'[w])
  BY <1>2, <1>6, <1>8, AppendFacts
<1>10. ChannelsOK'
  BY <1>2, <1>8 DEF ChannelsOK
<1>11. WorkersOK'
  BY <1>1, <1>2, DisposeFacts DEF WorkersOK, Goto, statics
<1>12. /\ pc'[w] = "idle"
       /\ \A v \in Workers \ {w} : pc'[v] = pc[v] /\ found'[v] = found[v]
  BY <1>1, <1>2, LabelFacts, DisposeFacts
<1>13. OnlyMoves(w)
  BY <1>2, <1>8, <1>12 DEF OnlyMoves
<1>14. Behaves(w)
  BY <1>2, <1>9, <1>12 DEF Behaves, Working
<1> QED BY <1>1, <1>10, <1>11, <1>12, <1>13, <1>14, WorkerInv

LEMMA SplitFindsSatStep ==
  ASSUME Inv, NEW w \in CubeWorkers, SplitFindsSat(w)
  PROVE  Inv'
<1>1. w \in Workers /\ w # Original
  BY WorkerFacts
<1> DEFINE m == Result(10, 0, None)
<1>2. /\ pc[w] = "split" /\ ~Optimizing /\ ChannelsOK /\ WorkersOK
      /\ toMaster[w] \in Seq(ToMasterMsg)
      /\ Send(w, m) /\ Leave(w)
      /\ UNCHANGED <<masterVars, given, statics>>
  BY <1>1 DEF SplitFindsSat, Inv, TypeOK, ChannelsOK
<1>3. m \in ToMasterMsg
  BY <1>2, ResultType DEF Codes
<1>4. m.tag = "RESULT" /\ m.code = 10
  BY DEF Result
<1> HIDE DEF m
<1>5. /\ toMaster' \in [Workers -> Seq(ToMasterMsg)]
      /\ toMaster'[w] = Append(toMaster[w], m)
      /\ \A v \in Workers \ {w} : toMaster'[v] = toMaster[v]
  BY <1>1, <1>2, <1>3, SendFacts
<1>6. /\ ~HasFinal(toMaster[w]) => FinalLast(toMaster'[w])
      /\ TellsModel(toMaster'[w])
  BY <1>2, <1>3, <1>4, <1>5, AppendFacts
<1>7. WorkersOK'
  BY <1>1, <1>2, DisposeFacts DEF WorkersOK, Leave, Goto, statics
<1>8. /\ toWorker' \in [Workers -> Seq(ToWorkerMsg)]
      /\ \A t : ~HasTag(toWorker'[w], t)
      /\ pc'[w] = "done"
      /\ \A v \in Workers \ {w} : /\ toWorker'[v] = toWorker[v] /\ pc'[v] = pc[v]
                                  /\ found'[v] = found[v]
  BY <1>1, <1>2, LeaveFacts, DisposeFacts DEF Leave
<1>9. ChannelsOK'
  BY <1>5, <1>8 DEF ChannelsOK
<1>10. OnlyMoves(w)
  BY <1>2, <1>5, <1>8 DEF OnlyMoves
<1>11. Behaves(w)
  BY <1>2, <1>6, <1>8 DEF Behaves, Working
<1> QED BY <1>1, <1>7, <1>8, <1>9, <1>10, <1>11, WorkerInv

-----------------------------------------------------------------------------
(***************************************************************************)
(* The master's steps keep the invariant.                                  *)
(***************************************************************************)

LEMMA WorkersUnchanged ==
  ASSUME WorkersOK, UNCHANGED workerVars
  PROVE  WorkersOK' /\ pc' = pc /\ found' = found
BY DEF WorkersOK, workerVars, solverVars, statics

LEMMA ConsumeFacts ==
  ASSUME ChannelsOK, NEW w \in Workers, toMaster[w] # <<>>, Consume(w)
  PROVE  /\ toMaster' \in [Workers -> Seq(ToMasterMsg)]
         /\ toMaster'[w] = Tail(toMaster[w])
         /\ \A v \in Workers \ {w} : toMaster'[v] = toMaster[v]
         /\ toMaster[w] \in Seq(ToMasterMsg)
         /\ Head(toMaster[w]) \in ToMasterMsg
BY TailFacts DEF ChannelsOK, Consume

(* The master's answer goes to one worker, or there is none. *)
Answers(w) ==
  \/ toWorker' = toWorker
  \/ \E m \in ReplyMsg : toWorker' = [toWorker EXCEPT ![w] = Append(@, m)]

LEMMA AnswersFacts ==
  ASSUME ChannelsOK, NEW w \in Workers, Answers(w)
  PROVE  /\ toWorker' \in [Workers -> Seq(ToWorkerMsg)]
         /\ \A v \in Workers \ {w} : toWorker'[v] = toWorker[v]
         /\ \A t \in {"WORK", "STOP"} : HasTag(toWorker'[w], t) => HasTag(toWorker[w], t)
         /\ OneWork(toWorker[w]) => OneWork(toWorker'[w])
<1>1. CASE toWorker' = toWorker
  BY <1>1 DEF ChannelsOK
<1>2. ASSUME NEW m \in ReplyMsg, toWorker' = [toWorker EXCEPT ![w] = Append(@, m)]
      PROVE  /\ toWorker' \in [Workers -> Seq(ToWorkerMsg)]
             /\ \A v \in Workers \ {w} : toWorker'[v] = toWorker[v]
             /\ \A t \in {"WORK", "STOP"} : HasTag(toWorker'[w], t) => HasTag(toWorker[w], t)
             /\ OneWork(toWorker[w]) => OneWork(toWorker'[w])
  <2>1. m \in ToWorkerMsg /\ m.tag \in {"BEST_REPLY", "RESULT"}
    BY DEF ToWorkerMsg, ReplyMsg
  <2>2. toWorker[w] \in Seq(ToWorkerMsg) /\ toWorker'[w] = Append(toWorker[w], m)
    BY <1>2 DEF ChannelsOK
  <2>3. /\ Append(toWorker[w], m) \in Seq(ToWorkerMsg)
        /\ \A t : HasTag(Append(toWorker[w], m), t) <=> HasTag(toWorker[w], t) \/ m.tag = t
        /\ OneWork(toWorker[w]) => OneWork(Append(toWorker[w], m))
    BY <2>1, <2>2, AppendFacts
  <2> QED BY <1>2, <2>1, <2>2, <2>3 DEF ChannelsOK
<1> QED BY <1>1, <1>2 DEF Answers

(* Once it has collected all cubes a worker that speaks has a cube. *)
LEMMA SpeakerFacts ==
  ASSUME Inv, phase = "serve", NEW w \in CubeWorkers, toMaster[w] # <<>>
  PROVE  cubeOf[w] # None /\ ~HasTag(toWorker[w], "WORK")
BY DEF Inv, Protocol, Served

(* The master receives, from any worker, a message that does not end the work
   on a cube, and at most answers it. *)
LEMMA MasterHears ==
  ASSUME Inv, NEW w \in Workers, Collecting \/ Serving, toMaster[w] # <<>>,
         Consume(w), Answers(w),
         w \in CubeWorkers =>
           Head(toMaster[w]).tag # "INIT_RESULT" /\ ~Final(Head(toMaster[w])),
         UNCHANGED <<phase, awaited, cubeOf, activeWorkers, workerVars>>
  PROVE  ChannelsOK' /\ WorkersOK' /\ Protocol'
<1>1. ChannelsOK /\ WorkersOK
  BY DEF Inv, TypeOK
<1>2. WorkersOK' /\ pc' = pc /\ found' = found
  BY <1>1, WorkersUnchanged
<1>3. ChannelsOK'
  BY <1>1, ConsumeFacts, AnswersFacts DEF ChannelsOK
<1>4. CubeWorkers \subseteq Workers
  BY WorkerFacts
<1>5. \A v \in Workers \ {w} : toMaster'[v] = toMaster[v] /\ toWorker'[v] = toWorker[v]
  BY <1>1, ConsumeFacts, AnswersFacts
<1>6. ASSUME phase = "collect" PROVE activeWorkers' = 0 /\ \A v \in CubeWorkers : Collected(v)'
  <2>1. \A v \in CubeWorkers : Collected(v)
    BY <1>6 DEF Inv, Protocol
  <2>2. w \notin CubeWorkers
    <3> SUFFICES ASSUME w \in CubeWorkers PROVE FALSE
      OBVIOUS
    <3>1. Head(toMaster[w]) = toMaster[w][1] /\ toMaster[w][1].tag = "INIT_RESULT"
      BY <2>1 DEF Collected
    <3> QED BY <3>1
  <2> QED BY <1>2, <1>4, <1>5, <1>6, <2>1, <2>2 DEF Inv, Protocol, Collected
<1>7. ASSUME phase = "serve", NEW v \in CubeWorkers PROVE Served(v)'
  <2>1. Served(v) /\ ~flags.satFound /\ ~flags.stopSent
    BY <1>7 DEF Inv, Protocol, Collecting, Serving
  <2>2. CASE v # w
    BY <1>2, <1>4, <1>5, <2>1, <2>2 DEF Served
  <2>3. CASE v = w
    <3>1. cubeOf[w] # None /\ ~HasTag(toWorker[w], "WORK")
      BY <1>7, <2>3, SpeakerFacts
    <3>2. toMaster'[w] = Tail(toMaster[w]) /\ toMaster[w] \in Seq(ToMasterMsg)
      BY <1>1, ConsumeFacts
    <3>3. /\ HasFinal(toMaster'[w]) => HasFinal(toMaster[w])
          /\ FinalLast(toMaster[w]) => FinalLast(toMaster'[w])
          /\ TellsModel(toMaster[w]) =>
               \/ TellsModel(toMaster'[w])
               \/ ~Optimizing /\ Head(toMaster[w]).tag = "RESULT" /\ Head(toMaster[w]).code = 10
      BY <3>2, TailFacts
    <3>4. TellsModel(toMaster[w]) => TellsModel(toMaster'[w])
      BY <1>7, <2>3, <3>3 DEF Final
    <3>5. /\ \A t \in {"WORK", "STOP"} : HasTag(toWorker'[w], t) => HasTag(toWorker[w], t)
          /\ OneWork(toWorker[w]) => OneWork(toWorker'[w])
      BY <1>1, AnswersFacts
    <3> QED BY <1>2, <2>1, <2>3, <3>1, <3>3, <3>4, <3>5 DEF Served
  <2> QED BY <2>2, <2>3
<1>8. BusyWorkers' = BusyWorkers
  BY DEF BusyWorkers
<1> QED BY <1>2, <1>3, <1>6, <1>7, <1>8 DEF Inv, Protocol

LEMMA ReplyBestStep ==
  ASSUME Inv, NEW w \in Workers, ReplyBest(w)
  PROVE  Inv'
<1>1. /\ Collecting \/ Serving
      /\ toMaster[w] # <<>> /\ Head(toMaster[w]).tag = "BEST_REQUEST" /\ Consume(w)
      /\ UNCHANGED <<masterVars, workerVars>>
      /\ toWorker' = [toWorker EXCEPT ![w] = Append(@, [tag |-> "BEST_REPLY", best |-> best])]
  BY DEF ReplyBest, Incoming
<1>2. Answers(w)
  BY <1>1 DEF Inv, TypeOK, MasterOK, Answers, ReplyMsg
<1>3. UNCHANGED <<phase, awaited, cubeOf, activeWorkers, workerVars>>
  BY <1>1 DEF masterVars, ledger
<1>4. ChannelsOK' /\ WorkersOK' /\ Protocol'
  BY <1>1, <1>2, <1>3, MasterHears DEF Final
<1>5. MasterOK'
  BY <1>1, MasterUnchanged DEF Inv, TypeOK
<1> QED BY <1>4, <1>5 DEF Inv, TypeOK

LEMMA TakeBoundsStep ==
  ASSUME Inv, NEW w \in Workers, TakeBounds(w)
  PROVE  Inv'
<1> DEFINE m == Head(toMaster[w])
<1>1. /\ Collecting \/ Serving
      /\ toMaster[w] # <<>> /\ m.tag = "BOUNDS" /\ Consume(w)
      /\ lbOf' = [lbOf EXCEPT ![w] = IF m.lb # NegInf THEN m.lb ELSE @]
      /\ globalLB' = GlobalBound(w, m.lb)
      /\ best' = Lesser(best, m.ub)
      /\ flags' = [flags EXCEPT !.feasibleSeen = @ \/ m.ub < Inf]
      /\ UNCHANGED <<toWorker, phase, awaited, queue, cubeOf, activeWorkers,
                     bestSol, learned, verdict, workerVars>>
  BY DEF TakeBounds, Incoming, Incumbent
<1>2. m.lb \in Int /\ m.ub \in Costs
  BY <1>1, ConsumeFacts, ToMasterPayload DEF Inv, TypeOK
<1>3. Answers(w)
  BY <1>1 DEF Answers
<1>4. ChannelsOK' /\ WorkersOK' /\ Protocol'
  BY <1>1, <1>3, MasterHears DEF Final
<1>5. best' \in Costs /\ globalLB' \in Int /\ lbOf' \in [Workers -> Int]
  BY <1>1, <1>2, LesserCost DEF Inv, TypeOK, MasterOK, GlobalBound, Greater
<1>6. flags' \in Flags
  BY <1>1 DEF Inv, TypeOK, MasterOK, Flags
<1>7. MasterOK'
  BY <1>1, <1>5, <1>6 DEF Inv, TypeOK, MasterOK
<1> QED BY <1>4, <1>7 DEF Inv, TypeOK

LEMMA TakeLearnedStep ==
  ASSUME Inv, NEW w \in Workers, TakeLearned(w)
  PROVE  Inv'
<1>1. /\ Collecting \/ Serving
      /\ toMaster[w] # <<>> /\ Head(toMaster[w]).tag = "LEARNED_UPDATE" /\ Consume(w)
      /\ learned' = learned \cup Head(toMaster[w]).excl
      /\ UNCHANGED <<toWorker, phase, awaited, ledger, incumbent, globalLB, flags,
                     verdict, workerVars>>
  BY DEF TakeLearned, Incoming
<1>2. Head(toMaster[w]).excl \subseteq Sol
  BY <1>1, ConsumeFacts, ToMasterPayload DEF Inv, TypeOK
<1>3. Answers(w)
  BY <1>1 DEF Answers
<1>4. UNCHANGED <<phase, awaited, cubeOf, activeWorkers, workerVars>>
  BY <1>1 DEF ledger
<1>5. ChannelsOK' /\ WorkersOK' /\ Protocol'
  BY <1>1, <1>3, <1>4, MasterHears DEF Final
<1>6. MasterOK'
  BY <1>1, <1>2 DEF Inv, TypeOK, MasterOK, ledger, incumbent
<1> QED BY <1>5, <1>6 DEF Inv, TypeOK

LEMMA TakeBestCostStep ==
  ASSUME Inv, NEW w \in Workers, TakeBestCost(w)
  PROVE  Inv'
<1> DEFINE m == Head(toMaster[w])
<1>1. /\ Collecting \/ Serving
      /\ toMaster[w] # <<>> /\ m.tag = "RESULT" /\ m.code = 26 /\ Consume(w)
      /\ best' = Lesser(best, m.cost)
      /\ flags' = [flags EXCEPT !.feasibleSeen = TRUE]
      /\ UNCHANGED <<toWorker, phase, awaited, ledger, bestSol, globalLB, learned,
                     verdict, workerVars>>
  BY DEF TakeBestCost, Incoming, Incumbent
<1>2. m.cost \in Costs
  BY <1>1, ConsumeFacts, ToMasterPayload DEF Inv, TypeOK
<1>3. Answers(w)
  BY <1>1 DEF Answers
<1>4. UNCHANGED <<phase, awaited, cubeOf, activeWorkers, workerVars>>
  BY <1>1 DEF ledger
<1>5. ChannelsOK' /\ WorkersOK' /\ Protocol'
  BY <1>1, <1>3, <1>4, MasterHears DEF Final
<1>6. best' \in Costs /\ flags' \in Flags
  BY <1>1, <1>2, LesserCost DEF Inv, TypeOK, MasterOK, Flags
<1>7. MasterOK'
  BY <1>1, <1>6 DEF Inv, TypeOK, MasterOK, ledger
<1> QED BY <1>5, <1>7 DEF Inv, TypeOK

LEMMA TakeOfferStep ==
  ASSUME Inv, NEW w \in CubeWorkers, TakeOffer(w)
  PROVE  Inv'
<1> DEFINE m == Head(toMaster[w])
<1>1. /\ Serving /\ toMaster[w] # <<>> /\ m.tag = "RESULT" /\ m.code = 25 /\ Consume(w)
      /\ best' = Lesser(best, m.cost)
      /\ StoreSolution(m)
      /\ flags' = [flags EXCEPT !.feasibleSeen = TRUE]
      /\ toWorker' = [toWorker EXCEPT ![w] = Append(@, [tag |-> "RESULT", best |-> best'])]
      /\ UNCHANGED <<phase, awaited, ledger, globalLB, learned, verdict, workerVars>>
  BY DEF TakeOffer, Incoming, Incumbent
<1>2. w \in Workers
  BY WorkerFacts
<1>3. m.cost \in Costs /\ m.sol \in Sol \cup {None, AllFalse}
  BY <1>1, <1>2, ConsumeFacts, ToMasterPayload DEF Inv, TypeOK
<1>4. best' \in Costs /\ flags' \in Flags
  BY <1>1, <1>3, LesserCost DEF Inv, TypeOK, MasterOK, Flags
<1>5. Answers(w)
  BY <1>1, <1>4 DEF Answers, ReplyMsg
<1>6. UNCHANGED <<phase, awaited, cubeOf, activeWorkers, workerVars>>
  BY <1>1 DEF ledger
<1>7. ChannelsOK' /\ WorkersOK' /\ Protocol'
  BY <1>1, <1>2, <1>5, <1>6, MasterHears DEF Final
<1>8. bestSol' \in Sol \cup {None, AllFalse}
  BY <1>1, <1>3 DEF Inv, TypeOK, MasterOK, StoreSolution
<1>9. MasterOK'
  BY <1>1, <1>4, <1>8 DEF Inv, TypeOK, MasterOK, ledger
<1> QED BY <1>7, <1>9 DEF Inv, TypeOK

LEMMA TakeOriginalResultStep ==
  ASSUME Inv, TakeOriginalResult
  PROVE  Inv'
<1> DEFINE m == Head(toMaster[Original])
<1>1. /\ Collecting \/ Serving
      /\ toMaster[Original] # <<>> /\ m.tag = "RESULT" /\ Consume(Original)
      /\ UNCHANGED <<toWorker, phase, awaited, ledger, globalLB, learned, verdict, workerVars>>
  BY DEF TakeOriginalResult, Incoming
<1>2. Original \in Workers /\ Original \notin CubeWorkers
  BY WorkerFacts
<1>3. /\ m.sol \in Sol \cup {None, AllFalse}
      /\ m.code = 15 \/ (Optimizing /\ m.code = 10) => m.cost \in Costs
  BY <1>1, <1>2, ConsumeFacts, ToMasterPayload DEF Inv, TypeOK
<1>4. Answers(Original)
  BY <1>1 DEF Answers
<1>5. UNCHANGED <<phase, awaited, cubeOf, activeWorkers, workerVars>>
  BY <1>1 DEF ledger
<1>6. ChannelsOK' /\ WorkersOK' /\ Protocol'
  BY <1>1, <1>2, <1>4, <1>5, MasterHears
<1>7. best' \in Costs
  <2>1. best \in Costs
    BY DEF Inv, TypeOK, MasterOK
  <2>2. best' = best \/ (m.code \in {10, 15} /\ Optimizing /\ best' = Lesser(best, m.cost))
    BY DEF TakeOriginalResult, Incumbent
  <2> QED BY <1>3, <2>1, <2>2, LesserCost
<1>8. bestSol' \in Sol \cup {None, AllFalse}
  BY <1>3 DEF Inv, TypeOK, MasterOK, TakeOriginalResult, StoreSolution
<1>9. flags' \in Flags
  <2>1. flags \in Flags
    BY DEF Inv, TypeOK, MasterOK
  <2>2. CASE Optimizing
    <3>1. \E feasible, optimum, unsat, unknown \in BOOLEAN :
            flags' = [flags EXCEPT !.origActive = FALSE, !.feasibleSeen = feasible,
                                   !.origOptimum = optimum, !.origUnsat = unsat,
                                   !.unknownSeen = unknown]
      BY <2>1, <2>2 DEF TakeOriginalResult, Flags
    <3> QED BY <2>1, <3>1 DEF Flags
  <2>3. CASE ~Optimizing
    <3>1. \E sat, unsat, unknown \in BOOLEAN :
            flags' = [flags EXCEPT !.origActive = FALSE, !.satFound = sat,
                                   !.origUnsat = unsat, !.unknownSeen = unknown]
      BY <2>1, <2>3 DEF TakeOriginalResult, Flags
    <3> QED BY <2>1, <3>1 DEF Flags
  <2> QED BY <2>2, <2>3
<1>10. MasterOK'
  BY <1>1, <1>7, <1>8, <1>9 DEF Inv, TypeOK, MasterOK, ledger
<1> QED BY <1>6, <1>10 DEF Inv, TypeOK

(***************************************************************************)
(* Handing out tasks.                                                      *)
(***************************************************************************)

(* The tasks dealt are tasks of the queue, and they are counted. *)
LEMMA DealtFacts ==
  ASSUME NEW q, NEW idle \in SUBSET CubeWorkers, NEW f \in Dispatches(idle, q)
  PROVE  /\ DOMAIN f \subseteq idle
         /\ \A w \in DOMAIN f : f[w] \in BagToSet(q)
         /\ DOMAIN Dealt(f) = Range(f)
         /\ \A t \in Range(f) : Dealt(f)[t] \in Nat
<1>1. PICK W \in SUBSET idle : f \in [W -> BagToSet(q)]
  BY DEF Dispatches
<1>2. DOMAIN f \subseteq idle /\ \A w \in DOMAIN f : f[w] \in BagToSet(q)
  BY <1>1
<1>3. \A S \in SUBSET CubeWorkers : Cardinality(S) \in Nat
  BY WorkerFacts, FS_Subset, FS_CardinalityType
<1>4. \A t : {w \in DOMAIN f : f[w] = t} \in SUBSET CubeWorkers
  BY <1>2
<1> QED BY <1>2, <1>3, <1>4 DEF Dealt

(* Taking tasks out of a bag of tasks and adding some leaves a bag of tasks. *)
LEMMA QueueFacts ==
  ASSUME NEW q, IsABag(q), BagToSet(q) \subseteq Task
  PROVE  /\ \A idle \in SUBSET CubeWorkers : \A f \in Dispatches(idle, q) :
              IsABag(q (-) Dealt(f)) /\ BagToSet(q (-) Dealt(f)) \subseteq Task
         /\ \A S \in SUBSET Task :
              IsABag(q (+) SetToBag(S)) /\ BagToSet(q (+) SetToBag(S)) \subseteq Task
<1>1. ASSUME NEW idle \in SUBSET CubeWorkers, NEW f \in Dispatches(idle, q)
      PROVE  IsABag(q (-) Dealt(f)) /\ BagToSet(q (-) Dealt(f)) \subseteq Task
  <2>1. DOMAIN Dealt(f) = Range(f) /\ \A t \in Range(f) : Dealt(f)[t] \in Nat
    BY DealtFacts
  <2> QED BY <2>1 DEF IsABag, BagToSet, (-)
<1>2. ASSUME NEW S \in SUBSET Task
      PROVE  IsABag(q (+) SetToBag(S)) /\ BagToSet(q (+) SetToBag(S)) \subseteq Task
  BY DEF IsABag, BagToSet, (+), SetToBag
<1> QED BY <1>1, <1>2

LEMMA SentType ==
  ASSUME ChannelsOK, MasterOK, NEW c \in Costs, NEW f, \A w \in DOMAIN f : f[w] \in Task
  PROVE  /\ \A w \in DOMAIN f : Work(f[w], c) \in ToWorkerMsg /\ Work(f[w], c).tag = "WORK"
         /\ Sent(f, c) \in [Workers -> Seq(ToWorkerMsg)]
<1>1. ASSUME NEW w \in DOMAIN f PROVE Work(f[w], c) \in ToWorkerMsg /\ Work(f[w], c).tag = "WORK"
  <2>1. [f[w] EXCEPT !.excl = @ \cup learned, !.lb = Greater(@, globalLB)] \in Task
    BY DEF Task, Greater, MasterOK
  <2> QED BY <2>1 DEF Work, ToWorkerMsg, WorkMsg
<1>2. \A w \in Workers : toWorker[w] \in Seq(ToWorkerMsg)
  BY DEF ChannelsOK
<1>3. \A w \in Workers : w \in DOMAIN f => Append(toWorker[w], Work(f[w], c)) \in Seq(ToWorkerMsg)
  BY <1>1, <1>2, AppendFacts
<1> QED BY <1>1, <1>2, <1>3 DEF Sent

(* The books after tasks are handed out: the workers that were busy and stay so
   are counted in active, the others are idle. *)
LEMMA HandOutFacts ==
  ASSUME MasterOK, NEW q, IsABag(q), BagToSet(q) \subseteq Task,
         NEW idle \in SUBSET CubeWorkers, NEW freed \in SUBSET idle, NEW active,
         NEW f \in Dispatches(idle, q), HandOut(f, q, active, freed),
         idle \cap BusyWorkers \subseteq freed,
         active = Cardinality(BusyWorkers \ freed)
  PROVE  /\ IsABag(queue') /\ BagToSet(queue') \subseteq Task
         /\ cubeOf' \in [CubeWorkers -> Task \cup {None}]
         /\ lbOf' \in [Workers -> Int]
         /\ activeWorkers' = Cardinality(BusyWorkers')
         /\ activeWorkers' \in 0 .. NumCubeWorkers
         /\ \A w \in DOMAIN f : w \in idle /\ f[w] \in Task
         /\ \A w \in CubeWorkers \ idle : cubeOf'[w] = cubeOf[w]
         /\ \A w \in CubeWorkers : w \in DOMAIN f <=> w \in idle /\ cubeOf'[w] # None
<1>1. /\ DOMAIN f \subseteq idle
      /\ \A w \in DOMAIN f : f[w] \in Task
  BY DealtFacts
<1>2. /\ queue' = q (-) Dealt(f)
      /\ cubeOf' = [w \in CubeWorkers |-> IF w \in DOMAIN f THEN f[w]
                                          ELSE IF w \in freed THEN None ELSE cubeOf[w]]
      /\ activeWorkers' = active + Cardinality(DOMAIN f)
      /\ lbOf' = [w \in Workers |-> IF w \in DOMAIN f THEN Greater(f[w].lb, globalLB)
                                                      ELSE lbOf[w]]
  BY DEF HandOut
<1>3. IsABag(queue') /\ BagToSet(queue') \subseteq Task
  BY <1>2, QueueFacts
<1>4. cubeOf' \in [CubeWorkers -> Task \cup {None}]
  BY <1>1, <1>2 DEF MasterOK
<1>5. lbOf' \in [Workers -> Int]
  BY <1>1, <1>2 DEF MasterOK, Greater, Task
<1>6. BusyWorkers' = (BusyWorkers \ freed) \cup DOMAIN f
  BY <1>1, <1>2, NoneAssumption DEF BusyWorkers
<1>7. (BusyWorkers \ freed) \cap DOMAIN f = {}
  BY <1>1
<1>8. \A S \in SUBSET CubeWorkers : IsFiniteSet(S) /\ Cardinality(S) \in 0 .. NumCubeWorkers
  BY WorkerFacts, WorkerAssumption, FS_Subset, FS_CardinalityType
<1>9. /\ BusyWorkers \ freed \in SUBSET CubeWorkers
      /\ DOMAIN f \in SUBSET CubeWorkers
      /\ BusyWorkers' \in SUBSET CubeWorkers
  BY <1>1, <1>6 DEF BusyWorkers
<1>10. Cardinality(BusyWorkers') = Cardinality(BusyWorkers \ freed) + Cardinality(DOMAIN f)
  <2> DEFINE A == BusyWorkers \ freed
             B == DOMAIN f
  <2>1. IsFiniteSet(A) /\ IsFiniteSet(B) /\ Cardinality(A) \in Int /\ Cardinality(B) \in Int
    BY <1>8, <1>9
  <2>2. A \cap B = {} /\ BusyWorkers' = A \cup B
    BY <1>6, <1>7
  <2> HIDE DEF A, B
  <2>3. Cardinality(A \cup B) = Cardinality(A) + Cardinality(B) - Cardinality(A \cap B)
    BY <2>1, FS_Union
  <2>4. Cardinality(A \cap B) = 0
    BY <2>2, FS_EmptySet
  <2>5. Cardinality(A \cup B) = Cardinality(A) + Cardinality(B)
    BY <2>1, <2>3, <2>4
  <2> QED BY <2>2, <2>5 DEF A, B
<1>11. activeWorkers' = Cardinality(BusyWorkers') /\ activeWorkers' \in 0 .. NumCubeWorkers
  BY <1>2, <1>8, <1>9, <1>10
<1>12. \A w \in CubeWorkers \ idle : cubeOf'[w] = cubeOf[w]
  BY <1>1, <1>2
<1>13. \A w \in CubeWorkers : w \in DOMAIN f <=> w \in idle /\ cubeOf'[w] # None
  BY <1>1, <1>2, NoneAssumption DEF BusyWorkers
<1> QED BY <1>1, <1>3, <1>4, <1>5, <1>11, <1>12, <1>13

(* A worker that waits with empty hands is well served whether or not it is
   sent a task. *)
LEMMA IdleServed ==
  ASSUME ChannelsOK, MasterOK, NEW c \in Costs, NEW f, \A v \in DOMAIN f : f[v] \in Task,
         NEW w \in CubeWorkers,
         toWorker' = Sent(f, c), pc'[w] = pc[w],
         w \in DOMAIN f <=> cubeOf'[w] # None,
         toMaster'[w] = <<>>, pc[w] = "idle", ~HasTag(toWorker[w], "WORK"),
         ~flags'.satFound /\ ~flags'.stopSent => ~HasTag(toWorker[w], "STOP")
  PROVE  Served(w)'
<1>1. w \in Workers
  BY WorkerFacts
<1>2. ~HasFinal(toMaster'[w]) /\ FinalLast(toMaster'[w])
  BY DEF HasFinal, FinalLast
<1>3. toWorker[w] \in Seq(ToWorkerMsg) /\ OneWork(toWorker[w])
  BY <1>1 DEF ChannelsOK, OneWork, HasTag
<1>4. CASE w \in DOMAIN f
  <2> DEFINE m == Work(f[w], c)
  <2>1. m \in ToWorkerMsg /\ m.tag = "WORK"
    BY <1>4, SentType
  <2>2. toWorker'[w] = Append(toWorker[w], m)
    BY <1>1, <1>4 DEF Sent
  <2> HIDE DEF m
  <2>3. OneWork(toWorker'[w])
    BY <1>3, <2>1, <2>2, AppendFacts
  <2>4. HasTag(toWorker'[w], "STOP") => HasTag(toWorker[w], "STOP")
    <3>1. HasTag(Append(toWorker[w], m), "STOP") <=> HasTag(toWorker[w], "STOP") \/ m.tag = "STOP"
      BY <1>3, <2>1, AppendFacts
    <3> QED BY <2>1, <2>2, <3>1
  <2> QED BY <1>2, <1>4, <2>3, <2>4 DEF Served
<1>5. CASE w \notin DOMAIN f
  <2>1. toWorker'[w] = toWorker[w]
    BY <1>1, <1>5 DEF Sent
  <2> QED BY <1>2, <1>3, <1>5, <2>1 DEF Served
<1> QED BY <1>4, <1>5

(* A worker that nothing happens to stays well served. *)
LEMMA OtherServed ==
  ASSUME NEW w \in CubeWorkers, Served(w),
         toWorker'[w] = toWorker[w], toMaster'[w] = toMaster[w], pc'[w] = pc[w],
         cubeOf'[w] = cubeOf[w],
         ~flags'.satFound /\ ~flags'.stopSent => ~flags.satFound /\ ~flags.stopSent
  PROVE  Served(w)'
BY DEF Served

(* A STOP added to the channel of a worker once the flags say so. *)
LEMMA StoppedServed ==
  ASSUME ChannelsOK, NEW w \in CubeWorkers, Served(w),
         toWorker'[w] = Append(toWorker[w], Stop), toMaster'[w] = toMaster[w],
         pc'[w] = pc[w], cubeOf'[w] = cubeOf[w], flags'.satFound \/ flags'.stopSent
  PROVE  Served(w)'
<1>1. toWorker[w] \in Seq(ToWorkerMsg) /\ Stop \in ToWorkerMsg
  BY WorkerFacts, PlainMessageType DEF ChannelsOK
<1>2. Stop.tag = "STOP"
  BY DEF Stop
<1>3. /\ OneWork(toWorker[w]) => OneWork(toWorker'[w])
      /\ HasTag(toWorker'[w], "WORK") => HasTag(toWorker[w], "WORK")
  <2>1. \A t : HasTag(Append(toWorker[w], Stop), t) <=> HasTag(toWorker[w], t) \/ Stop.tag = t
    BY <1>1, AppendFacts
  <2>2. OneWork(toWorker[w]) => OneWork(Append(toWorker[w], Stop))
    BY <1>1, <1>2, AppendFacts
  <2> QED BY <1>2, <2>1, <2>2
<1> QED BY <1>3 DEF Served

(* What the master knows of a worker whose final message it receives. *)
LEMMA FinalFacts ==
  ASSUME Inv, Serving, NEW w \in CubeWorkers, toMaster[w] # <<>>,
         Final(Head(toMaster[w])), Consume(w)
  PROVE  /\ toMaster'[w] = <<>>
         /\ cubeOf[w] # None
         /\ ~HasTag(toWorker[w], "WORK")
         /\ ~HasTag(toWorker[w], "STOP")
         /\ pc[w] # "idle" => ~Optimizing /\ Head(toMaster[w]).code = 10
<1>1. w \in Workers /\ phase = "serve" /\ Served(w) /\ ~flags.satFound /\ ~flags.stopSent
  BY WorkerFacts DEF Inv, Protocol, Serving
<1>2. toMaster[w] \in Seq(ToMasterMsg) /\ toMaster'[w] = Tail(toMaster[w])
  BY <1>1, ConsumeFacts DEF Inv, TypeOK
<1>3. toMaster'[w] = <<>> /\ HasFinal(toMaster[w])
  BY <1>1, <1>2, TailFacts DEF Served
<1>4. pc[w] \in {"idle", "done"} /\ (pc[w] = "done" => TellsModel(toMaster[w]))
  BY <1>1, <1>3 DEF Served
<1>5. TellsModel(toMaster[w]) => ~Optimizing /\ Head(toMaster[w]).code = 10
  <2>1. ~TellsModel(<<>>)
    BY DEF TellsModel
  <2>2. TellsModel(toMaster[w]) =>
          \/ TellsModel(Tail(toMaster[w]))
          \/ ~Optimizing /\ Head(toMaster[w]).tag = "RESULT" /\ Head(toMaster[w]).code = 10
    BY <1>2, TailFacts
  <2>3. Tail(toMaster[w]) = <<>>
    BY <1>2, <1>3
  <2> QED BY <2>1, <2>2, <2>3
<1>6. ~HasTag(toWorker[w], "STOP")
  BY <1>1 DEF Served
<1>7. cubeOf[w] # None /\ ~HasTag(toWorker[w], "WORK")
  BY <1>1, SpeakerFacts
<1> QED BY <1>3, <1>4, <1>5, <1>6, <1>7

(* What the master knows of a worker it holds for idle. *)
LEMMA IdleFacts ==
  ASSUME Inv, Serving, NEW w \in CubeWorkers, cubeOf[w] = None
  PROVE  /\ toMaster[w] = <<>>
         /\ pc[w] = "idle"
         /\ ~HasTag(toWorker[w], "WORK")
         /\ ~HasTag(toWorker[w], "STOP")
<1>1. Served(w) /\ ~flags.satFound /\ ~flags.stopSent
  BY DEF Inv, Protocol, Serving
<1>2. ~TellsModel(<<>>)
  BY DEF TellsModel
<1> QED BY <1>1, <1>2 DEF Served

(***************************************************************************)
(* The master's remaining steps.                                           *)
(***************************************************************************)
LEMMA TakeInitialCubesStep ==
  ASSUME Inv, NEW w \in CubeWorkers, TakeInitialCubes(w)
  PROVE  Inv'
<1> DEFINE m == Head(toMaster[w])
           S == {[WholeProblem EXCEPT !.region = p] : p \in m.parts}
<1>1. /\ Collecting /\ toMaster[w] # <<>> /\ m.tag = "INIT_RESULT" /\ Consume(w)
      /\ queue' = queue (+) SetToBag(S)
      /\ flags' = [flags EXCEPT !.satInGeneration = @ \/ m.sat]
      /\ awaited' = awaited \ {w}
      /\ UNCHANGED <<toWorker, phase, cubeOf, activeWorkers, lbOf, incumbent, globalLB,
                     learned, verdict, workerVars>>
  BY DEF TakeInitialCubes, Incoming, StillAwaited
<1>2. w \in Workers /\ CubeWorkers \subseteq Workers
  BY WorkerFacts
<1>3. ChannelsOK /\ MasterOK /\ WorkersOK
  BY DEF Inv, TypeOK
<1>4. m.sat \in BOOLEAN /\ m.parts \subseteq SUBSET Sol
  BY <1>1, <1>2, <1>3, ConsumeFacts, ToMasterPayload
<1>5. S \subseteq Task
  BY <1>4, WholeProblemType DEF Task
<1> HIDE DEF S
<1>6. IsABag(queue') /\ BagToSet(queue') \subseteq Task
  BY <1>1, <1>3, <1>5, QueueFacts DEF MasterOK
<1>7. flags' \in Flags
  BY <1>1, <1>3, <1>4 DEF MasterOK, Flags
<1>8. MasterOK'
  BY <1>1, <1>3, <1>6, <1>7 DEF MasterOK, incumbent
<1>9. ChannelsOK'
  BY <1>1, <1>2, <1>3, ConsumeFacts DEF ChannelsOK
<1>10. WorkersOK' /\ pc' = pc /\ found' = found
  BY <1>1, <1>3, WorkersUnchanged
<1>11. phase = "collect" /\ activeWorkers = 0 /\ \A v \in CubeWorkers : Collected(v)
  BY <1>1 DEF Collecting, Inv, Protocol
<1>12. w \in awaited /\ pc[w] = "idle" /\ Len(toMaster[w]) = 1
  BY <1>1, <1>11 DEF Collected
<1>13. toMaster'[w] = <<>>
  <2>1. toMaster'[w] = Tail(toMaster[w]) /\ toMaster[w] \in Seq(ToMasterMsg)
    BY <1>1, <1>2, <1>3, ConsumeFacts
  <2>2. Tail(toMaster[w]) \in Seq(ToMasterMsg) /\ Len(Tail(toMaster[w])) = 0
    BY <1>1, <1>12, <2>1, HeadTailProperties
  <2> QED BY <2>1, <2>2, EmptySeq
<1>14. \A v \in CubeWorkers : v # w => toMaster'[v] = toMaster[v]
  BY <1>1, <1>2, <1>3, ConsumeFacts
<1>15. \A v \in CubeWorkers : Collected(v)'
  BY <1>1, <1>10, <1>11, <1>12, <1>13, <1>14 DEF Collected
<1> QED BY <1>1, <1>8, <1>9, <1>10, <1>11, <1>15 DEF Inv, TypeOK, Protocol

LEMMA StartServingStep ==
  ASSUME Inv, StartServing
  PROVE  Inv'
<1>1. /\ phase = "collect" /\ awaited = {} /\ phase' = "serve"
      /\ UNCHANGED <<toMaster, awaited, incumbent, globalLB, learned, flags, verdict, workerVars>>
  BY DEF StartServing
<1>2. PICK f \in Dispatches(CubeWorkers, queue) :
        HandOut(f, queue, 0, {}) /\ toWorker' = Sent(f, best)
  BY DEF StartServing
<1>3. ChannelsOK /\ MasterOK /\ WorkersOK /\ best \in Costs
  BY DEF Inv, TypeOK, MasterOK
<1>4. \A w \in CubeWorkers : /\ cubeOf[w] = None /\ toWorker[w] = <<>>
                             /\ pc[w] = "idle" /\ toMaster[w] = <<>>
  BY <1>1 DEF Inv, Protocol, Collected
<1>5. BusyWorkers = {} /\ Cardinality(BusyWorkers \ {}) = 0
  BY <1>4, FS_EmptySet DEF BusyWorkers
<1>6. /\ IsABag(queue') /\ BagToSet(queue') \subseteq Task
      /\ cubeOf' \in [CubeWorkers -> Task \cup {None}]
      /\ lbOf' \in [Workers -> Int]
      /\ activeWorkers' = Cardinality(BusyWorkers')
      /\ activeWorkers' \in 0 .. NumCubeWorkers
      /\ \A w \in DOMAIN f : f[w] \in Task
      /\ \A w \in CubeWorkers : w \in DOMAIN f <=> w \in CubeWorkers /\ cubeOf'[w] # None
  <2>1. IsABag(queue) /\ BagToSet(queue) \subseteq Task
    BY <1>3 DEF MasterOK
  <2>2. CubeWorkers \cap BusyWorkers \subseteq {} /\ {} \in SUBSET CubeWorkers
    BY <1>5
  <2> QED BY <1>2, <1>3, <1>5, <2>1, <2>2, HandOutFacts, SMTT(30)
<1>7. MasterOK'
  BY <1>1, <1>3, <1>6 DEF MasterOK, incumbent
<1>8. WorkersOK' /\ pc' = pc /\ found' = found
  BY <1>1, <1>3, WorkersUnchanged
<1>9. ChannelsOK'
  BY <1>1, <1>2, <1>3, <1>6, SentType DEF ChannelsOK
<1>10. ASSUME NEW w \in CubeWorkers PROVE Served(w)'
  <2>1. \A t : ~HasTag(<<>>, t)
    BY DEF HasTag
  <2> QED BY <1>1, <1>2, <1>3, <1>4, <1>6, <1>8, <2>1, IdleServed
<1> QED BY <1>1, <1>6, <1>7, <1>8, <1>9, <1>10 DEF Inv, TypeOK, Protocol

(* A STOP to everybody keeps the channels typed. *)
LEMMA BroadcastType ==
  ASSUME ChannelsOK
  PROVE  /\ Broadcast(toWorker) \in [Workers -> Seq(ToWorkerMsg)]
         /\ \A w \in Workers : Broadcast(toWorker)[w] = Append(toWorker[w], Stop)
BY PlainMessageType, AppendFacts DEF Broadcast, ChannelsOK

LEMMA AnswerEarlyStep ==
  ASSUME Inv, AnswerEarly
  PROVE  Inv'
<1>1. /\ phase' = "done" /\ verdict' = EarlyVerdict /\ EarlyVerdict # "none"
      /\ toWorker' = Broadcast(toWorker)
      /\ UNCHANGED <<toMaster, awaited, ledger, incumbent, globalLB, learned, flags, workerVars>>
  BY DEF AnswerEarly
<1>2. ChannelsOK /\ MasterOK /\ WorkersOK
  BY DEF Inv, TypeOK
<1>3. verdict' \in {"SAT", "OPTIMUM", "UNSAT"}
  BY <1>1 DEF EarlyVerdict
<1>4. MasterOK'
  BY <1>1, <1>2, <1>3 DEF MasterOK, ledger, incumbent
<1>5. WorkersOK' /\ pc' = pc /\ found' = found
  BY <1>1, <1>2, WorkersUnchanged
<1>6. ChannelsOK'
  BY <1>1, <1>2, BroadcastType DEF ChannelsOK
<1> QED BY <1>1, <1>4, <1>5, <1>6 DEF Inv, TypeOK, Protocol

LEMMA FinishStep ==
  ASSUME Inv, Finish
  PROVE  Inv'
<1>1. /\ phase' = "done" /\ verdict' = FinalVerdict
      /\ toWorker' = IF flags.stopSent THEN toWorker ELSE Broadcast(toWorker)
      /\ UNCHANGED <<toMaster, awaited, ledger, incumbent, globalLB, learned, flags, workerVars>>
  BY DEF Finish
<1>2. ChannelsOK /\ MasterOK /\ WorkersOK
  BY DEF Inv, TypeOK
<1>3. verdict' \in {"none", "OPTIMUM", "UNSAT", "BEST KNOWN", "UNKNOWN"}
  BY <1>1 DEF FinalVerdict
<1>4. MasterOK'
  BY <1>1, <1>2, <1>3 DEF MasterOK, ledger, incumbent
<1>5. WorkersOK' /\ pc' = pc /\ found' = found
  BY <1>1, <1>2, WorkersUnchanged
<1>6. ChannelsOK'
  BY <1>1, <1>2, BroadcastType DEF ChannelsOK
<1> QED BY <1>1, <1>4, <1>5, <1>6 DEF Inv, TypeOK, Protocol

(* The counter without the worker whose result came in. *)
LEMMA OthersActiveFacts ==
  ASSUME Inv, phase = "serve", NEW w \in CubeWorkers, cubeOf[w] # None
  PROVE  OthersActive = Cardinality(BusyWorkers \ {w})
<1>1. w \in BusyWorkers /\ BusyWorkers \in SUBSET CubeWorkers
  BY DEF BusyWorkers
<1>2. IsFiniteSet(BusyWorkers)
  BY <1>1, WorkerFacts, FS_Subset
<1>3. Cardinality(BusyWorkers \ {w}) = Cardinality(BusyWorkers) - 1
  BY <1>1, <1>2, FS_RemoveElement
<1> QED BY <1>3 DEF Inv, Protocol, OthersActive

LEMMA TakeSplitStep ==
  ASSUME Inv, NEW w \in CubeWorkers, TakeSplit(w)
  PROVE  Inv'
<1> DEFINE m == Head(toMaster[w])
           child(region) == [region |-> region, excl |-> cubeOf[w].excl \cup m.excl,
                             depth |-> cubeOf[w].depth + 1, lb |-> InheritedBound(w)]
           S == {child(p) : p \in m.parts}
           waiting == queue (+) SetToBag(S)
<1>1. /\ Serving /\ toMaster[w] # <<>> /\ m.tag = "RESULT" /\ m.code = 30 /\ Consume(w)
      /\ UNCHANGED <<phase, awaited, incumbent, globalLB, learned, flags, verdict, workerVars>>
  BY DEF TakeSplit, Incoming
<1>2. PICK f \in Dispatches(IdleWorkers(w), waiting) :
        HandOut(f, waiting, OthersActive, {w}) /\ toWorker' = Sent(f, best)
  BY DEF TakeSplit
<1>3. /\ w \in Workers /\ CubeWorkers \subseteq Workers /\ phase = "serve"
      /\ ChannelsOK /\ MasterOK /\ WorkersOK /\ best \in Costs
  BY <1>1, WorkerFacts DEF Serving, Inv, TypeOK, MasterOK
<1>4. m.parts \subseteq SUBSET Sol /\ m.excl \subseteq Sol
  BY <1>1, <1>3, ConsumeFacts, ToMasterPayload
<1>5. /\ toMaster'[w] = <<>> /\ cubeOf[w] # None /\ pc[w] = "idle"
      /\ ~HasTag(toWorker[w], "WORK") /\ ~HasTag(toWorker[w], "STOP")
  BY <1>1, FinalFacts DEF Final
<1>6. cubeOf[w] \in Task /\ InheritedBound(w) \in Int
  BY <1>3, <1>5 DEF MasterOK, InheritedBound, Greater
<1>7. S \subseteq Task
  BY <1>4, <1>6 DEF Task
<1> HIDE DEF S
<1>8. IsABag(waiting) /\ BagToSet(waiting) \subseteq Task
  BY <1>3, <1>7, QueueFacts DEF MasterOK
<1> HIDE DEF waiting
<1> DEFINE idle == IdleWorkers(w)
<1>9. /\ idle \in SUBSET CubeWorkers /\ {w} \in SUBSET idle
      /\ idle \cap BusyWorkers \subseteq {w}
      /\ \A v \in idle : v = w \/ cubeOf[v] = None
  BY DEF IdleWorkers, BusyWorkers
<1>10. OthersActive = Cardinality(BusyWorkers \ {w})
  BY <1>3, <1>5, OthersActiveFacts
<1> HIDE DEF idle
<1>11. f \in Dispatches(idle, waiting)
  BY <1>2 DEF idle
<1>12. /\ IsABag(queue') /\ BagToSet(queue') \subseteq Task
       /\ cubeOf' \in [CubeWorkers -> Task \cup {None}]
       /\ lbOf' \in [Workers -> Int]
       /\ activeWorkers' = Cardinality(BusyWorkers')
       /\ activeWorkers' \in 0 .. NumCubeWorkers
       /\ \A v \in DOMAIN f : v \in idle /\ f[v] \in Task
       /\ \A v \in CubeWorkers \ idle : cubeOf'[v] = cubeOf[v]
       /\ \A v \in CubeWorkers : v \in DOMAIN f <=> v \in idle /\ cubeOf'[v] # None
  <2> DEFINE active == OthersActive
             freed  == {w}
  <2>1. MasterOK
    BY <1>3
  <2>2. HandOut(f, waiting, active, freed)
    BY <1>2
  <2>3. freed \in SUBSET idle /\ idle \cap BusyWorkers \subseteq freed
    BY <1>9
  <2>4. active = Cardinality(BusyWorkers \ freed)
    BY <1>10
  <2>5. idle \in SUBSET CubeWorkers
    BY <1>9
  <2> HIDE DEF active, freed
  <2> QED BY <1>8, <1>11, <2>1, <2>2, <2>3, <2>4, <2>5, HandOutFacts, ZenonT(40)
<1>13. MasterOK'
  BY <1>1, <1>3, <1>12 DEF MasterOK, incumbent
<1>14. WorkersOK' /\ pc' = pc /\ found' = found
  BY <1>1, <1>3, WorkersUnchanged
<1>15. /\ toMaster' \in [Workers -> Seq(ToMasterMsg)]
       /\ \A v \in Workers \ {w} : toMaster'[v] = toMaster[v]
  BY <1>1, <1>3, ConsumeFacts
<1>16. ChannelsOK'
  BY <1>2, <1>3, <1>12, <1>15, SentType DEF ChannelsOK
<1>17. ASSUME NEW v \in CubeWorkers PROVE Served(v)'
  <2>1. CASE v \in idle
    <3>1. /\ toMaster'[v] = <<>> /\ pc[v] = "idle"
          /\ ~HasTag(toWorker[v], "WORK") /\ ~HasTag(toWorker[v], "STOP")
      BY <1>1, <1>3, <1>5, <1>9, <1>15, <2>1, IdleFacts
    <3> QED BY <1>2, <1>3, <1>12, <1>14, <2>1, <3>1, IdleServed
  <2>2. CASE v \notin idle
    <3>1. toWorker'[v] = toWorker[v]
      BY <1>2, <1>3, <1>12, <2>2 DEF Sent
    <3>2. v # w
      BY <1>9, <2>2
    <3>3. Served(v)
      BY <1>3 DEF Inv, Protocol
    <3>4. toMaster'[v] = toMaster[v] /\ cubeOf'[v] = cubeOf[v] /\ pc'[v] = pc[v] /\ flags' = flags
      BY <1>1, <1>3, <1>12, <1>14, <1>15, <2>2, <3>2
    <3> QED BY <3>1, <3>3, <3>4, OtherServed
  <2> QED BY <2>1, <2>2
<1> QED BY <1>1, <1>3, <1>12, <1>13, <1>14, <1>16, <1>17 DEF Inv, TypeOK, Protocol

LEMMA TakeModelStep ==
  ASSUME Inv, NEW w \in CubeWorkers, TakeModel(w)
  PROVE  Inv'
<1> DEFINE m == Head(toMaster[w])
<1>1. /\ Serving /\ toMaster[w] # <<>> /\ m.tag = "RESULT" /\ m.code = 10 /\ Consume(w)
      /\ flags' = [flags EXCEPT !.satFound = TRUE]
      /\ UNCHANGED <<awaited, ledger, best, globalLB, learned, verdict, workerVars>>
  BY DEF TakeModel, Incoming
<1>2. \/ phase' = "stuck" /\ UNCHANGED <<bestSol, toWorker>>
      \/ /\ bestSol' = m.sol
         /\ toWorker' = [v \in Workers |-> IF v = w THEN toWorker[v]
                                           ELSE Append(toWorker[v], Stop)]
         /\ phase' = phase
  BY DEF TakeModel
<1>3. /\ w \in Workers /\ CubeWorkers \subseteq Workers /\ phase = "serve"
      /\ ChannelsOK /\ MasterOK /\ WorkersOK
  BY <1>1, WorkerFacts DEF Serving, Inv, TypeOK
<1>4. m.sol \in Sol \cup {None, AllFalse}
  BY <1>1, <1>3, ConsumeFacts, ToMasterPayload
<1>5. flags' \in Flags /\ flags'.satFound
  BY <1>1, <1>3 DEF MasterOK, Flags
<1>6. MasterOK'
  BY <1>1, <1>2, <1>3, <1>4, <1>5 DEF MasterOK, ledger
<1>7. WorkersOK' /\ pc' = pc /\ found' = found
  BY <1>1, <1>3, WorkersUnchanged
<1>8. /\ toMaster' \in [Workers -> Seq(ToMasterMsg)]
      /\ \A v \in Workers \ {w} : toMaster'[v] = toMaster[v]
  BY <1>1, <1>3, ConsumeFacts
<1>9. toWorker' \in [Workers -> Seq(ToWorkerMsg)]
  <2>1. \A v \in Workers : /\ toWorker[v] \in Seq(ToWorkerMsg)
                           /\ Append(toWorker[v], Stop) \in Seq(ToWorkerMsg)
    BY <1>3, BroadcastType DEF ChannelsOK, Broadcast
  <2> QED BY <1>2, <1>3, <2>1 DEF ChannelsOK
<1>10. ChannelsOK'
  BY <1>8, <1>9 DEF ChannelsOK
<1>11. \A v \in Workers : pc'[v] = "interrupted" => found'[v] # None
  BY <1>7 DEF Inv, Protocol
<1>12. ASSUME phase' = "serve" PROVE activeWorkers' = Cardinality(BusyWorkers)' /\ \A v \in CubeWorkers : Served(v)'
  <2>1. activeWorkers' = activeWorkers /\ cubeOf' = cubeOf /\ BusyWorkers' = BusyWorkers
    BY <1>1 DEF ledger, BusyWorkers
  <2>2. /\ toWorker'[w] = toWorker[w]
        /\ \A v \in Workers \ {w} : toWorker'[v] = Append(toWorker[v], Stop)
    BY <1>2, <1>3, <1>12
  <2>3. /\ toMaster'[w] = <<>> /\ cubeOf[w] # None
        /\ ~HasTag(toWorker[w], "WORK") /\ Served(w)
    BY <1>1, <1>3, FinalFacts DEF Final, Inv, Protocol
  <2>4. ~HasFinal(<<>>) /\ FinalLast(<<>>)
    BY DEF HasFinal, FinalLast
  <2>5. Served(w)'
    BY <1>5, <1>7, <2>1, <2>2, <2>3, <2>4 DEF Served
  <2>6. ASSUME NEW v \in CubeWorkers, v # w PROVE Served(v)'
    <3>1. Served(v) /\ v \in Workers
      BY <1>3 DEF Inv, Protocol
    <3>2. /\ toWorker'[v] = Append(toWorker[v], Stop) /\ toMaster'[v] = toMaster[v]
          /\ pc'[v] = pc[v] /\ cubeOf'[v] = cubeOf[v]
      BY <1>7, <1>8, <2>1, <2>2, <2>6, <3>1
    <3> QED BY <1>3, <1>5, <3>1, <3>2, StoppedServed
  <2> QED BY <1>3, <2>1, <2>5, <2>6 DEF Inv, Protocol
<1>13. phase' # "collect"
  BY <1>2, <1>3
<1> QED BY <1>6, <1>7, <1>10, <1>11, <1>12, <1>13 DEF Inv, TypeOK, Protocol

LEMMA TakeCubeResultStep ==
  ASSUME Inv, NEW w \in CubeWorkers, TakeCubeResult(w)
  PROVE  Inv'
<1> DEFINE m == Head(toMaster[w])
<1>1. /\ Serving /\ toMaster[w] # <<>> /\ m.tag = "RESULT" /\ m.code \in {0, 10, 15, 20}
      /\ ~Optimizing => m.code # 10
      /\ Consume(w)
      /\ UNCHANGED <<phase, awaited, globalLB, learned, verdict, workerVars>>
  BY DEF TakeCubeResult, Incoming
<1>2. PICK f \in Dispatches({w}, queue) :
        /\ HandOut(f, queue, OthersActive, {w})
        /\ toWorker' = IF activeWorkers' = 0 THEN Broadcast(toWorker) ELSE Sent(f, best')
  BY DEF TakeCubeResult
<1>3. /\ w \in Workers /\ CubeWorkers \subseteq Workers /\ phase = "serve"
      /\ ChannelsOK /\ MasterOK /\ WorkersOK
  BY <1>1, WorkerFacts DEF Serving, Inv, TypeOK
<1>4. /\ m.sol \in Sol \cup {None, AllFalse}
      /\ m.code \in {10, 15} => m.cost \in Costs
  BY <1>1, <1>3, ConsumeFacts, ToMasterPayload, ProblemAssumption
<1>5. /\ toMaster'[w] = <<>> /\ cubeOf[w] # None /\ pc[w] = "idle"
      /\ ~HasTag(toWorker[w], "WORK") /\ ~HasTag(toWorker[w], "STOP")
  BY <1>1, FinalFacts DEF Final
<1>6. best' \in Costs /\ bestSol' \in Sol \cup {None, AllFalse}
  <2>1. best \in Costs /\ bestSol \in Sol \cup {None, AllFalse}
    BY <1>3 DEF MasterOK
  <2>2. \/ m.code \in {10, 15} /\ best' = Lesser(best, m.cost) /\ StoreSolution(m)
        \/ best' = best /\ bestSol' = bestSol
    BY DEF TakeCubeResult, Incumbent, incumbent
  <2> QED BY <1>4, <2>1, <2>2, LesserCost DEF StoreSolution
<1>7. \E unknown, feasible \in BOOLEAN :
        flags' = [flags EXCEPT !.unknownSeen = unknown, !.feasibleSeen = feasible,
                               !.stopSent = activeWorkers' = 0]
  BY <1>3 DEF TakeCubeResult, MasterOK, Flags
<1>8. flags' \in Flags /\ (flags'.stopSent <=> activeWorkers' = 0) /\ flags'.satFound = flags.satFound
  BY <1>3, <1>7 DEF MasterOK, Flags
<1>9. /\ IsABag(queue') /\ BagToSet(queue') \subseteq Task
      /\ cubeOf' \in [CubeWorkers -> Task \cup {None}]
      /\ lbOf' \in [Workers -> Int]
      /\ activeWorkers' = Cardinality(BusyWorkers')
      /\ activeWorkers' \in 0 .. NumCubeWorkers
      /\ \A v \in DOMAIN f : v \in {w} /\ f[v] \in Task
      /\ \A v \in CubeWorkers \ {w} : cubeOf'[v] = cubeOf[v]
      /\ \A v \in CubeWorkers : v \in DOMAIN f <=> v \in {w} /\ cubeOf'[v] # None
  <2> DEFINE active == OthersActive
             idle   == {w}
  <2>1. MasterOK /\ IsABag(queue) /\ BagToSet(queue) \subseteq Task
    BY <1>3 DEF MasterOK
  <2>2. HandOut(f, queue, active, idle) /\ f \in Dispatches(idle, queue)
    BY <1>2
  <2>3. active = Cardinality(BusyWorkers \ idle)
    BY <1>3, <1>5, OthersActiveFacts
  <2>4. idle \in SUBSET CubeWorkers /\ idle \in SUBSET idle /\ idle \cap BusyWorkers \subseteq idle
    OBVIOUS
  <2>5. idle = {w}
    OBVIOUS
  <2> HIDE DEF active, idle
  <2>6. /\ IsABag(queue') /\ BagToSet(queue') \subseteq Task
        /\ cubeOf' \in [CubeWorkers -> Task \cup {None}]
        /\ lbOf' \in [Workers -> Int]
        /\ activeWorkers' = Cardinality(BusyWorkers')
        /\ activeWorkers' \in 0 .. NumCubeWorkers
        /\ \A v \in DOMAIN f : v \in idle /\ f[v] \in Task
        /\ \A v \in CubeWorkers \ idle : cubeOf'[v] = cubeOf[v]
        /\ \A v \in CubeWorkers : v \in DOMAIN f <=> v \in idle /\ cubeOf'[v] # None
    BY <2>1, <2>2, <2>3, <2>4, HandOutFacts, ZenonT(40)
  <2> QED BY <2>5, <2>6
<1>10. MasterOK'
  BY <1>1, <1>3, <1>6, <1>8, <1>9 DEF MasterOK
<1>11. WorkersOK' /\ pc' = pc /\ found' = found
  BY <1>1, <1>3, WorkersUnchanged
<1>12. /\ toMaster' \in [Workers -> Seq(ToMasterMsg)]
       /\ \A v \in Workers \ {w} : toMaster'[v] = toMaster[v]
  BY <1>1, <1>3, ConsumeFacts
<1>13. \A v \in Workers : pc'[v] = "interrupted" => found'[v] # None
  BY <1>11 DEF Inv, Protocol
<1>14. CASE activeWorkers' = 0
  <2>1. toWorker' = Broadcast(toWorker)
    BY <1>2, <1>14
  <2>2. ChannelsOK'
    BY <1>3, <1>12, <2>1, BroadcastType DEF ChannelsOK
  <2>3. /\ \A v \in Workers : toWorker'[v] = Append(toWorker[v], Stop)
        /\ flags'.stopSent
    BY <1>3, <1>8, <1>14, <2>1, BroadcastType
  <2>4. ASSUME NEW v \in CubeWorkers, v # w PROVE Served(v)'
    <3>1. Served(v) /\ v \in Workers
      BY <1>3 DEF Inv, Protocol
    <3>2. toMaster'[v] = toMaster[v] /\ pc'[v] = pc[v] /\ cubeOf'[v] = cubeOf[v]
      BY <1>9, <1>11, <1>12, <2>4, <3>1
    <3> QED BY <1>3, <2>3, <3>1, <3>2, StoppedServed
  <2>5. Served(w)'
    <3>1. toWorker[w] \in Seq(ToWorkerMsg) /\ Stop \in ToWorkerMsg /\ Stop.tag = "STOP"
      BY <1>3, PlainMessageType DEF ChannelsOK, Stop
    <3>2. ~HasTag(toWorker'[w], "WORK")
      <4>1. \A t : HasTag(Append(toWorker[w], Stop), t) <=> HasTag(toWorker[w], t) \/ Stop.tag = t
        BY <3>1, AppendFacts
      <4> QED BY <1>3, <1>5, <2>3, <3>1, <4>1
    <3>3. OneWork(toWorker'[w])
      BY <3>2 DEF OneWork, HasTag
    <3>4. ~HasFinal(toMaster'[w]) /\ FinalLast(toMaster'[w])
      BY <1>5 DEF HasFinal, FinalLast
    <3> QED BY <1>5, <1>11, <2>3, <3>2, <3>3, <3>4 DEF Served
  <2> QED BY <1>1, <1>3, <1>9, <1>10, <1>11, <1>13, <2>2, <2>4, <2>5 DEF Inv, TypeOK, Protocol
<1>15. CASE activeWorkers' # 0
  <2>1. toWorker' = Sent(f, best') /\ flags'.satFound = flags.satFound /\ ~flags'.stopSent
    BY <1>2, <1>8, <1>15
  <2>2. ~flags.satFound /\ ~flags.stopSent
    BY <1>1 DEF Serving
  <2>3. ChannelsOK'
    BY <1>3, <1>6, <1>9, <1>12, <2>1, SentType DEF ChannelsOK
  <2>4. ASSUME NEW v \in CubeWorkers, v # w PROVE Served(v)'
    <3>1. Served(v) /\ v \in Workers
      BY <1>3 DEF Inv, Protocol
    <3>2. toMaster'[v] = toMaster[v] /\ pc'[v] = pc[v] /\ cubeOf'[v] = cubeOf[v]
      BY <1>9, <1>11, <1>12, <2>4, <3>1
    <3>3. toWorker'[v] = toWorker[v]
      BY <1>9, <2>1, <2>4, <3>1 DEF Sent
    <3> QED BY <2>2, <3>1, <3>2, <3>3, OtherServed
  <2>5. Served(w)'
    BY <1>3, <1>5, <1>6, <1>9, <1>11, <2>1, IdleServed
  <2> QED BY <1>1, <1>3, <1>9, <1>10, <1>11, <1>13, <2>3, <2>4, <2>5 DEF Inv, TypeOK, Protocol
<1> QED BY <1>14, <1>15

-----------------------------------------------------------------------------
(***************************************************************************)
(* The theorems.                                                           *)
(***************************************************************************)
LEMMA InitInv == Init => Inv
<1> SUFFICES ASSUME Init PROVE Inv
  OBVIOUS
<1>1. ChannelsOK
  BY EmptySeq DEF Init, ChannelsOK
<1>2. IsABag(queue) /\ BagToSet(queue) = {}
  BY DEF Init, EmptyBag, SetToBag, IsABag, BagToSet
<1>3. flags \in Flags
  BY DEF Init, Flags
<1>4. MasterOK
  BY <1>2, <1>3, CostFacts, WorkerAssumption DEF Init, MasterOK
<1>5. WorkersOK
  BY CostFacts, WholeProblemType DEF Init, WorkersOK
<1>6. \A w \in CubeWorkers : w \in Workers /\ w # Original
  BY WorkerFacts
<1>7. Protocol
  BY <1>6 DEF Init, Protocol, Collected
<1> QED BY <1>1, <1>4, <1>5, <1>7 DEF Inv, TypeOK

LEMMA NextInv == Inv /\ [Next]_vars => Inv'
<1> SUFFICES ASSUME Inv, [Next]_vars PROVE Inv'
  OBVIOUS
<1>1. CASE MasterSteps
  BY <1>1, AnswerEarlyStep, StartServingStep, FinishStep DEF MasterSteps
<1>2. ASSUME NEW w \in Workers, MasterReceives(w) PROVE Inv'
  BY <1>2, ReplyBestStep, TakeBoundsStep, TakeLearnedStep, TakeBestCostStep,
     TakeOriginalResultStep, TakeInitialCubesStep, TakeOfferStep, TakeSplitStep,
     TakeModelStep, TakeCubeResultStep DEF MasterReceives
<1>3. ASSUME NEW w \in Workers, Search(w) PROVE Inv'
  BY <1>3, PollStep, ImportStep, ImportStopStep, ExternalUBStep, DecideStep,
     FindSolutionStep, RaiseLowerBoundStep, RefuteStep DEF Search
<1>4. ASSUME NEW w \in CubeWorkers, CubeWorkerSteps(w) PROVE Inv'
  <2>1. w \in Workers
    BY WorkerFacts
  <2> QED BY <1>4, <2>1, GenerateStep, ReceiveStep, OfferSolutionStep, ReceiveIncumbentStep,
             SplitCubeStep, SplitFindsSatStep DEF CubeWorkerSteps
<1>5. CASE UNCHANGED vars
  BY <1>5 DEF vars, channels, masterVars, ledger, incumbent, workerVars, solverVars, statics,
     Inv, TypeOK, ChannelsOK, MasterOK, WorkersOK, Protocol, BusyWorkers, Collected, Served
<1> QED BY <1>1, <1>2, <1>3, <1>4, <1>5 DEF Next

(* The protocol of messages and books holds in every run, with any number of
   processes (run_master, run_cube_worker). *)
THEOREM ProtocolKept == Spec => []Inv
BY InitInv, NextInv, PTL DEF Spec

(* Every variable keeps its type: no message is taken for another, the counter
   of active workers never leaves 0 .. NumCubeWorkers, a split is always that
   of a worker with a cube, and a solution is only offered by a worker that has
   one (run_master, run_cube_worker). *)
THEOREM TypeCorrect == Spec => []TypeOK
<1>1. Inv => TypeOK
  BY DEF Inv
<1> QED BY <1>1, ProtocolKept, PTL

(* While the master serves, its books agree with the workers: active_workers
   counts the workers that have a cube, and one it holds for idle has no cube,
   none under way to it and no result under way from it. *)
THEOREM BooksCorrect == Spec => []Books
<1>1. Inv => Books
  <2> SUFFICES ASSUME Inv, phase = "serve"
               PROVE  /\ activeWorkers = Cardinality({w \in CubeWorkers : cubeOf[w] # None})
                      /\ \A w \in CubeWorkers : cubeOf[w] = None => ~Engaged(w)
    BY DEF Books
  <2>1. ASSUME NEW w \in CubeWorkers, cubeOf[w] = None PROVE ~Engaged(w)
    <3>1. /\ toMaster[w] = <<>> /\ pc[w] \in {"idle", "done"}
          /\ ~HasTag(toWorker[w], "WORK")
      BY <2>1 DEF Inv, Protocol, Served
    <3>2. ~HasTag(toMaster[w], "RESULT")
      BY <3>1 DEF HasTag
    <3> QED BY <3>1, <3>2 DEF Engaged
  <2> QED BY <2>1 DEF Inv, Protocol, BusyWorkers
<1> QED BY <1>1, ProtocolKept, PTL
-----------------------------------------------------------------------------
(***************************************************************************)
(* No cube waits while a worker is idle.                                   *)
(***************************************************************************)

(* A handler that deals out tasks serves all idle workers or empties the
   queue. *)
LEMMA HandOutServes ==
  ASSUME NEW q, IsABag(q), BagToSet(q) \subseteq Task,
         NEW idle \in SUBSET CubeWorkers, NEW freed \in SUBSET idle, NEW active,
         NEW f \in Dispatches(idle, q), HandOut(f, q, active, freed),
         q = EmptyBag \/ \A v \in CubeWorkers \ idle : cubeOf[v] # None
  PROVE  queue' = EmptyBag \/ \A v \in CubeWorkers : cubeOf'[v] # None
<1>1. /\ queue' = q (-) Dealt(f)
      /\ cubeOf' = [v \in CubeWorkers |-> IF v \in DOMAIN f THEN f[v]
                                          ELSE IF v \in freed THEN None ELSE cubeOf[v]]
  BY DEF HandOut
<1>2. DOMAIN f \subseteq idle /\ \A v \in DOMAIN f : f[v] \in Task
  BY DealtFacts
<1>3. DOMAIN f = idle \/ Dealt(f) = q
  BY DEF Dispatches
<1>4. CASE q = EmptyBag
  <2>1. DOMAIN q = {}
    BY <1>4 DEF EmptyBag, SetToBag
  <2>2. q (-) Dealt(f) = EmptyBag
    BY <2>1 DEF (-), EmptyBag, SetToBag
  <2> QED BY <1>1, <2>2
<1>5. CASE Dealt(f) = q
  <2>1. \A t \in DOMAIN q : q[t] - q[t] = 0
    BY DEF IsABag
  <2>2. q (-) q = EmptyBag
    BY <2>1 DEF (-), EmptyBag, SetToBag
  <2> QED BY <1>1, <1>5, <2>2
<1>6. CASE DOMAIN f = idle /\ \A v \in CubeWorkers \ idle : cubeOf[v] # None
  BY <1>1, <1>2, <1>6, NoneAssumption
<1> QED BY <1>3, <1>4, <1>5, <1>6

(* A split puts its subcubes with the waiting tasks and deals to all the idle
   workers. *)
LEMMA SplitDeals ==
  ASSUME Inv, NEW w \in CubeWorkers, TakeSplit(w)
  PROVE  \E q, f : /\ IsABag(q) /\ BagToSet(q) \subseteq Task
                   /\ f \in Dispatches(IdleWorkers(w), q)
                   /\ HandOut(f, q, OthersActive, {w})
<1> DEFINE m == Head(toMaster[w])
           child(region) == [region |-> region, excl |-> cubeOf[w].excl \cup m.excl,
                             depth |-> cubeOf[w].depth + 1, lb |-> InheritedBound(w)]
           S == {child(p) : p \in m.parts}
           waiting == queue (+) SetToBag(S)
<1>1. Serving /\ toMaster[w] # <<>> /\ m.tag = "RESULT" /\ m.code = 30 /\ Consume(w)
  BY DEF TakeSplit, Incoming
<1>2. \E f \in Dispatches(IdleWorkers(w), waiting) : HandOut(f, waiting, OthersActive, {w})
  BY DEF TakeSplit
<1>3. w \in Workers /\ phase = "serve" /\ ChannelsOK /\ MasterOK
  BY <1>1, WorkerFacts DEF Serving, Inv, TypeOK
<1>4. m.parts \subseteq SUBSET Sol /\ m.excl \subseteq Sol
  BY <1>1, <1>3, ConsumeFacts, ToMasterPayload
<1>5. cubeOf[w] # None
  BY <1>1, FinalFacts DEF Final
<1>6. cubeOf[w] \in Task /\ InheritedBound(w) \in Int
  BY <1>3, <1>5 DEF MasterOK, InheritedBound, Greater
<1>7. S \subseteq Task
  BY <1>4, <1>6 DEF Task
<1> HIDE DEF S
<1>8. IsABag(waiting) /\ BagToSet(waiting) \subseteq Task
  BY <1>3, <1>7, QueueFacts DEF MasterOK
<1> HIDE DEF waiting
<1> QED BY <1>2, <1>8

LEMMA WorkConservingStep ==
  ASSUME Inv, WorkConserving, [Next]_vars
  PROVE  WorkConserving'
<1>1. ASSUME UNCHANGED <<queue, cubeOf>>, phase' = "serve" => phase = "serve"
      PROVE  WorkConserving'
  BY <1>1 DEF WorkConserving
<1>2. CASE AnswerEarly \/ Finish
  BY <1>2 DEF AnswerEarly, Finish, WorkConserving
<1>3. CASE StartServing
  <2>1. PICK f \in Dispatches(CubeWorkers, queue) : HandOut(f, queue, 0, {})
    BY <1>3 DEF StartServing
  <2>2. IsABag(queue) /\ BagToSet(queue) \subseteq Task
    BY DEF Inv, TypeOK, MasterOK
  <2> QED BY <2>1, <2>2, HandOutServes DEF WorkConserving
<1>4. ASSUME NEW w \in CubeWorkers, TakeSplit(w) PROVE WorkConserving'
  <2>1. PICK q, f : /\ IsABag(q) /\ BagToSet(q) \subseteq Task
                    /\ f \in Dispatches(IdleWorkers(w), q)
                    /\ HandOut(f, q, OthersActive, {w})
    BY <1>4, SplitDeals
  <2> DEFINE idle   == IdleWorkers(w)
             freed  == {w}
             active == OthersActive
  <2>2. idle \in SUBSET CubeWorkers /\ freed \in SUBSET idle
    BY DEF IdleWorkers
  <2>3. \A v \in CubeWorkers \ idle : cubeOf[v] # None
    BY DEF IdleWorkers
  <2>4. f \in Dispatches(idle, q) /\ HandOut(f, q, active, freed)
    BY <2>1
  <2> HIDE DEF idle, freed, active
  <2>5. queue' = EmptyBag \/ \A v \in CubeWorkers : cubeOf'[v] # None
    BY <2>1, <2>2, <2>3, <2>4, HandOutServes
  <2> QED BY <2>5 DEF WorkConserving
<1>5. ASSUME NEW w \in CubeWorkers, TakeCubeResult(w) PROVE WorkConserving'
  <2>1. PICK f \in Dispatches({w}, queue) : HandOut(f, queue, OthersActive, {w})
    BY <1>5 DEF TakeCubeResult
  <2>2. IsABag(queue) /\ BagToSet(queue) \subseteq Task
    BY DEF Inv, TypeOK, MasterOK
  <2>3. phase = "serve"
    BY <1>5 DEF TakeCubeResult, Serving
  <2>4. queue = EmptyBag \/ \A v \in CubeWorkers \ {w} : cubeOf[v] # None
    BY <2>3 DEF WorkConserving
  <2> QED BY <2>1, <2>2, <2>4, HandOutServes DEF WorkConserving
<1>6. ASSUME NEW w \in CubeWorkers, TakeInitialCubes(w) PROVE WorkConserving'
  BY <1>6 DEF TakeInitialCubes, Collecting, WorkConserving
<1>7. ASSUME NEW w \in CubeWorkers, TakeOffer(w) \/ TakeModel(w) PROVE WorkConserving'
  BY <1>1, <1>7 DEF TakeOffer, TakeModel, ledger
<1>8. ASSUME NEW w \in Workers, ReplyBest(w) \/ TakeBounds(w) \/ TakeLearned(w) \/ TakeBestCost(w)
                                \/ TakeOriginalResult
      PROVE  WorkConserving'
  BY <1>1, <1>8 DEF ReplyBest, TakeBounds, TakeLearned, TakeBestCost, TakeOriginalResult, ledger, masterVars
<1>9. ASSUME NEW w \in Workers, Search(w) PROVE WorkConserving'
  <2>1. UNCHANGED masterVars
    BY <1>9 DEF Search, Poll, Import, ImportStop, ExternalUB, Decide, FindSolution, RaiseLowerBound, Refute
  <2> QED BY <1>1, <2>1 DEF masterVars, ledger
<1>10. ASSUME NEW w \in CubeWorkers, CubeWorkerSteps(w) PROVE WorkConserving'
  <2>1. UNCHANGED masterVars
    BY <1>10 DEF CubeWorkerSteps, Generate, Receive, OfferSolution, ReceiveIncumbent, SplitCube, SplitFindsSat
  <2> QED BY <1>1, <2>1 DEF masterVars, ledger
<1>11. CASE UNCHANGED vars
  BY <1>1, <1>11 DEF vars, masterVars, ledger
<1> QED BY <1>2, <1>3, <1>4, <1>5, <1>6, <1>7, <1>8, <1>9, <1>10, <1>11 DEF Next, MasterSteps, MasterReceives

(* No cube waits in the queue while a worker is idle: every handler that frees a
   worker or adds cubes deals until either runs out (run_master). *)
THEOREM NobodyStarves == Spec => []WorkConserving
<1>1. Init => WorkConserving
  BY DEF Init, WorkConserving
<1> QED BY <1>1, WorkConservingStep, ProtocolKept, PTL DEF Spec
================================================================================
