----------------------------- MODULE CubeConquer -----------------------------
(***************************************************************************)
(* The cube-and-conquer protocol of cubePB: rank 0 (the master) collects   *)
(* the cubes the workers generate, hands them out, keeps the incumbent and *)
(* announces the result; rank 1 (the original worker) solves the whole     *)
(* problem in parallel; the other ranks solve and split cubes.  All of     *)
(* them communicate by MPI messages, which MPI keeps in order between two  *)
(* given processes and in no order otherwise.                              *)
(*                                                                         *)
(* What a solver does with a cube is abstracted to the set of feasible     *)
(* assignments (Sol) the cube still contains: a cube is the set of the     *)
(* solutions that extend its literals, a set of learned constraints is the *)
(* set of the solutions it excludes.                                       *)
(*                                                                         *)
(* A definition commented "wrong:" is the next one with a mistake in it;   *)
(* it is used only to see that the properties would notice.                *)
(***************************************************************************)
EXTENDS Integers, Sequences, FiniteSets, Bags, Functions, SequencesExt

CONSTANTS
  Sol,             (* the feasible assignments of the problem              *)
  Cost,            (* their objective values (minimised)                   *)
  Inf, NegInf,     (* INT_MAX, INT_MIN: no upper, no lower bound known     *)
  None,            (* no assignment, no cube                               *)
  AllFalse,        (* the assignment vector<bool>(nVars+1,false)           *)
  NumCubeWorkers,  (* MPI processes besides the master and the original    *)
  Optimizing,      (* does the problem have an objective?                  *)
  Backend,         (* the solver chosen with --solver                      *)
  Share,           (* the solutions below the branch a worker generates    *)
  ObjMin,          (* RoundingSat's first lower bound                      *)
  LowerBounds,     (* bound: the lower bounds a solver may derive          *)
  Clauses,         (* bound: the exclusions of the clauses it may learn    *)
  MaxDepth,        (* bound: how often a cube may be split again           *)
  MaxParts         (* bound: cubes one generation may produce              *)

Original    == 1
CubeWorkers == 2 .. (NumCubeWorkers + 1)
Workers     == 1 .. (NumCubeWorkers + 1)

ASSUME ProblemAssumption ==
  /\ IsFiniteSet(Sol)
  /\ Inf \in Int /\ NegInf \in Int /\ ObjMin \in Int /\ NegInf < ObjMin
  /\ Cost \in [Sol -> Int]
  /\ \A s \in Sol : ObjMin <= Cost[s] /\ Cost[s] < Inf
  /\ None \notin Sol /\ AllFalse # None
  /\ Optimizing \in BOOLEAN
  /\ Backend \in {"native", "roundingsat", "cadical"}
  /\ Optimizing => Backend # "cadical"

ASSUME WorkerAssumption ==
  /\ NumCubeWorkers \in Nat
  /\ Share \in [CubeWorkers -> SUBSET Sol]
  /\ CubeWorkers # {} => \A s \in Sol : \E w \in CubeWorkers : s \in Share[w]

ASSUME BoundAssumption ==
  /\ LowerBounds \subseteq Int
  /\ Clauses \subseteq SUBSET Sol
  /\ MaxDepth \in Nat /\ MaxParts \in Nat

Lesser(a, b)  == IF a <= b THEN a ELSE b
Greater(a, b) == IF a <= b THEN b ELSE a

-----------------------------------------------------------------------------
(***************************************************************************)
(* Messages.  A RESULT and the SOLUTION, SPLIT and constraint messages the *)
(* sender emits right after it are one record.  sol = None says that no    *)
(* SOLUTION message follows.  The cubes of one generation share no         *)
(* solution, so they are a set of regions; the order in which they arrive  *)
(* matters to nobody.                                                      *)
(***************************************************************************)
Task == [region : SUBSET Sol, excl : SUBSET Sol, depth : Nat, lb : Int]

ASSUME NoneAssumption == None \notin Task

(* The costs a process may know: those of solutions, or none. *)
Costs == {Cost[s] : s \in Sol} \cup {Inf}

Codes == {0, 10, 15, 20, 25, 26, 30}

InitMsg    == [tag : {"INIT_RESULT"}, sat : BOOLEAN, parts : SUBSET SUBSET Sol]
RequestMsg == [tag : {"BEST_REQUEST"}]
BoundsMsg  == [tag : {"BOUNDS"}, lb : Int, ub : Costs]
LearnedMsg == [tag : {"LEARNED_UPDATE"}, excl : SUBSET Sol]
ResultMsg  == {m \in [tag : {"RESULT"}, code : Codes, cost : Int,
                      sol : Sol \cup {None, AllFalse},
                      parts : SUBSET SUBSET Sol, excl : SUBSET Sol] :
                 m.code \in {15, 25, 26} \/ (Optimizing /\ m.code = 10)
                   => m.cost \in Costs}
ToMasterMsg == InitMsg \cup RequestMsg \cup BoundsMsg \cup LearnedMsg \cup ResultMsg

StopMsg  == [tag : {"STOP"}]
WorkMsg  == [tag : {"WORK"}, task : Task, best : Costs]
ReplyMsg == [tag : {"BEST_REPLY", "RESULT"}, best : Costs]
ToWorkerMsg == StopMsg \cup WorkMsg \cup ReplyMsg

Request == [tag |-> "BEST_REQUEST"]
Stop    == [tag |-> "STOP"]

Result(code, cost, sol) ==
  [tag |-> "RESULT", code |-> code, cost |-> cost, sol |-> sol,
   parts |-> {}, excl |-> {}]

Subcubes(parts, excl) ==
  [tag |-> "RESULT", code |-> 30, cost |-> Cardinality(parts), sol |-> None,
   parts |-> parts, excl |-> excl]

-----------------------------------------------------------------------------
VARIABLES
  toMaster,      (* the messages of each worker the master has not received *)
  toWorker       (* the messages of the master each worker has not received *)

VARIABLES        (* of the master *)
  phase,         (* "collect" and "serve" are its two loops; "stuck" is a
                    receive that no message will ever match *)
  awaited,       (* the workers whose initial cubes are still to come *)
  queue,         (* cube_queue: a bag of the tasks that wait *)
  cubeOf,        (* cube_of_worker: the task itself, or None *)
  activeWorkers, (* active_workers *)
  lbOf,          (* lb_of_worker *)
  best,          (* global_best_cost; Inf when not global_has_best_cost *)
  bestSol,       (* global_best_solution; None when empty *)
  globalLB,      (* global_lower_bound *)
  learned,       (* what global_learned_from_original excludes *)
  flags,         (* the booleans of run_master *)
  verdict        (* the "Global result" line printed, "none" if there is none *)

VARIABLES        (* of the workers *)
  pc,            (* where each worker is *)
  cube,          (* the task a worker solves *)
  given,         (* its global_best_cost, as received with the task *)
  bound,         (* its solver only looks for solutions cheaper than this *)
  found,         (* the last solution its solver found, or None *)
  lower,         (* RoundingSat's lower bound in this solve *)
  reported,      (* static best / last_sent_ub of the callback *)
  reportedLB,    (* static last_sent_lb of the callback *)
  imported       (* static last_imported_best of the callback *)

channels   == <<toMaster, toWorker>>
ledger     == <<queue, cubeOf, activeWorkers, lbOf>>
incumbent  == <<best, bestSol>>
masterVars == <<phase, awaited, ledger, incumbent, globalLB, learned, flags, verdict>>
solverVars == <<cube, given, bound, found, lower>>
statics    == <<reported, reportedLB, imported>>
workerVars == <<pc, solverVars, statics>>
vars       == <<channels, masterVars, workerVars>>

Flags == [satFound : BOOLEAN, satInGeneration : BOOLEAN, origActive : BOOLEAN,
          origUnsat : BOOLEAN, origOptimum : BOOLEAN, unknownSeen : BOOLEAN,
          feasibleSeen : BOOLEAN, stopSent : BOOLEAN]

WholeProblem == [region |-> Sol, excl |-> {}, depth |-> 0, lb |-> NegInf]

ChannelsOK ==
  /\ toMaster \in [Workers -> Seq(ToMasterMsg)]
  /\ toWorker \in [Workers -> Seq(ToWorkerMsg)]

MasterOK ==
  /\ phase \in {"collect", "serve", "stuck", "done"}
  /\ awaited \subseteq CubeWorkers
  /\ IsABag(queue) /\ BagToSet(queue) \subseteq Task
  /\ cubeOf \in [CubeWorkers -> Task \cup {None}]
  /\ activeWorkers \in 0 .. NumCubeWorkers
  /\ lbOf \in [Workers -> Int]
  /\ best \in Costs
  /\ bestSol \in Sol \cup {None, AllFalse}
  /\ globalLB \in Int
  /\ learned \subseteq Sol
  /\ flags \in Flags
  /\ verdict \in {"none", "SAT", "UNSAT", "OPTIMUM", "BEST KNOWN", "UNKNOWN"}

WorkersOK ==
  /\ pc \in [Workers -> {"generate", "idle", "search", "ask", "decide",
                         "interrupted", "incumbent", "split", "done"}]
  /\ cube \in [Workers -> Task]
  /\ given \in [Workers -> Costs]
  /\ bound \in [Workers -> Costs]
  /\ found \in [Workers -> Sol \cup {None}]
  /\ lower \in [Workers -> Int]
  /\ reported \in [Workers -> Costs]
  /\ reportedLB \in [Workers -> Int]
  /\ imported \in [Workers -> Costs]

TypeOK == ChannelsOK /\ MasterOK /\ WorkersOK

Init ==
  /\ toMaster = [w \in Workers |-> <<>>]
  /\ toWorker = [w \in Workers |-> <<>>]
  /\ phase = "collect"
  /\ awaited = CubeWorkers
  /\ queue = EmptyBag
  /\ cubeOf = [w \in CubeWorkers |-> None]
  /\ activeWorkers = 0
  /\ lbOf = [w \in Workers |-> NegInf]
  /\ best = Inf
  /\ bestSol = None
  /\ globalLB = NegInf
  /\ learned = {}
  /\ flags = [satFound |-> FALSE, satInGeneration |-> FALSE, origActive |-> TRUE,
              origUnsat |-> FALSE, origOptimum |-> FALSE, unknownSeen |-> FALSE,
              feasibleSeen |-> FALSE, stopSent |-> FALSE]
  /\ verdict = "none"
  /\ pc = [w \in Workers |-> IF w = Original THEN "search" ELSE "generate"]
  /\ cube = [w \in Workers |-> WholeProblem]
  /\ given = [w \in Workers |-> Inf]
  /\ bound = [w \in Workers |-> Inf]
  /\ found = [w \in Workers |-> None]
  /\ lower = [w \in Workers |-> ObjMin]
  /\ reported = [w \in Workers |-> Inf]
  /\ reportedLB = [w \in Workers |-> NegInf]
  /\ imported = [w \in Workers |-> Inf]

-----------------------------------------------------------------------------
(***************************************************************************)
(* Workers.                                                                *)
(***************************************************************************)
(* wrong: the bound is one too tight *)
CandidatesOffByOne(w, b) ==
  {s \in cube[w].region \ cube[w].excl : cube[w].lb <= Cost[s] /\ Cost[s] < b - 1}

(* What the solver of w may still find: the solutions of its cube cheaper
   than b that no learned constraint excludes and, with RoundingSat, that
   satisfy the injected lower bound (the others are never given one). *)
Candidates(w, b) ==
  {s \in cube[w].region \ cube[w].excl : cube[w].lb <= Cost[s] /\ Cost[s] < b}

(* The objective value a solver reports for its last solution: RoundingSat's
   primal bound is the external one if that is lower. *)
BestCost(w) == IF Backend = "native" THEN Cost[found[w]] ELSE bound[w]

HasTag(ch, tag) == \E i \in 1 .. Len(ch) : ch[i].tag = tag

(* MPI_Recv of the first message with a tag. *)
FirstTagged(ch, tag) ==
  CHOOSE i \in 1 .. Len(ch) :
    ch[i].tag = tag /\ \A j \in 1 .. i - 1 : ch[j].tag # tag

Goto(w, label) == pc' = [pc EXCEPT ![w] = label]

Send(w, m) == toMaster' = [toMaster EXCEPT ![w] = Append(@, m)]

(* wrong: a branch may be lost *)
LostBranches(region, keep) ==
  {parts \in SUBSET SUBSET region : Cardinality(parts) <= MaxParts}

(* Cubes that generate_cubes may return below a region: they cover what must
   be kept.  At most one of them is empty, that is, has no solution left. *)
Partitions(region, keep) ==
  {parts \in SUBSET SUBSET region :
     /\ Cardinality(parts) <= MaxParts
     /\ keep \subseteq UNION parts
     /\ \A p, q \in parts : p # q => p \cap q = {}}

(* wrong: one too tight *)
TooTight(b, cost) == Lesser(b, cost - 1)

(* The constraint obj <= cost - 1 joins the bound b a solver already has. *)
ObjectiveBound(b, cost) == Lesser(b, cost)

(* The solver of w is destroyed at the end of solve_cube. *)
Dispose(w) ==
  /\ cube' = [cube EXCEPT ![w] = WholeProblem]
  /\ bound' = [bound EXCEPT ![w] = Inf]
  /\ found' = [found EXCEPT ![w] = None]
  /\ lower' = [lower EXCEPT ![w] = ObjMin]

(* The worker finalizes: what is still in its channel is never read. *)
Leave(w) ==
  /\ Goto(w, "done")
  /\ toWorker' = [toWorker EXCEPT ![w] = <<>>]
  /\ Dispose(w)

(* The initial generation.  Only in a feasibility problem may a full
   assignment end it, with the cubes it has so far. *)
Generate(w) ==
  /\ pc[w] = "generate"
  /\ \E sat \in BOOLEAN :
       /\ sat => ~Optimizing /\ Share[w] # {}
       /\ \E parts \in Partitions(Share[w], IF sat THEN {} ELSE Share[w]) :
            Send(w, [tag |-> "INIT_RESULT", sat |-> sat, parts |-> parts])
  /\ Goto(w, "idle")
  /\ UNCHANGED <<toWorker, masterVars, solverVars, statics>>

Receive(w) ==
  /\ pc[w] = "idle"
  /\ toWorker[w] # <<>>
  /\ LET m == Head(toWorker[w]) IN
       \/ /\ m.tag = "STOP"
          /\ Leave(w)
          /\ UNCHANGED given
       \/ /\ m.tag = "WORK"
          /\ toWorker' = [toWorker EXCEPT ![w] = Tail(@)]
          /\ Goto(w, "search")
          /\ cube' = [cube EXCEPT ![w] = m.task]
          /\ given' = [given EXCEPT ![w] = IF m.best = Inf THEN @ ELSE m.best]
          /\ bound' = [bound EXCEPT ![w] = ObjectiveBound(Inf, given'[w])]
          /\ found' = [found EXCEPT ![w] = None]
          /\ lower' = [lower EXCEPT ![w] = ObjMin]
  /\ UNCHANGED <<toMaster, masterVars, statics>>

(* What the periodic callback tells the master: a new best cost (native), or
   a changed [LB, UB] (RoundingSat, from its optimisation loop). *)
ReportedUB(w) == IF found[w] = None THEN Inf ELSE BestCost(w)

(* wrong: cube workers do not report *)
OriginalOnlyReports(w) ==
  IF Backend = "native" /\ w = Original /\ ReportedUB(w) < reported[w]
    THEN <<Result(26, ReportedUB(w), None)>> ELSE <<>>

Reports(w) ==
  IF Backend = "native" /\ ReportedUB(w) < reported[w]
    THEN <<Result(26, ReportedUB(w), None)>>
  ELSE IF /\ Backend = "roundingsat" /\ Optimizing
          /\ lower[w] # reportedLB[w] \/ ReportedUB(w) # reported[w]
    THEN <<[tag |-> "BOUNDS", lb |-> lower[w], ub |-> ReportedUB(w)]>>
  ELSE <<>>

(* One call of the periodic callback and what follows it: stop, split, ask
   the master for its incumbent, or carry on. *)
Poll(w) ==
  /\ pc[w] = "search"
  /\ reported' = [reported EXCEPT ![w] = IF Reports(w) = <<>> THEN @ ELSE ReportedUB(w)]
  /\ reportedLB' = [reportedLB EXCEPT
                      ![w] = IF Reports(w) = <<>> \/ Backend = "native" THEN @ ELSE lower[w]]
  /\ \/ /\ HasTag(toWorker[w], "STOP")
        /\ Leave(w)
        /\ toMaster' = [toMaster EXCEPT ![w] = @ \o Reports(w)]
     \/ /\ ~HasTag(toWorker[w], "STOP")
        /\ w # Original /\ cube[w].depth < MaxDepth
        /\ Goto(w, IF Optimizing /\ found[w] # None THEN "interrupted" ELSE "split")
        /\ toMaster' = [toMaster EXCEPT ![w] = @ \o Reports(w)]
        /\ UNCHANGED <<toWorker, cube, bound, found, lower>>
     \/ /\ ~HasTag(toWorker[w], "STOP")
        /\ Backend = "native" \/ (Backend = "roundingsat" /\ Optimizing)
        /\ Goto(w, "ask")
        /\ toMaster' = [toMaster EXCEPT ![w] = @ \o Append(Reports(w), Request)]
        /\ UNCHANGED <<toWorker, cube, bound, found, lower>>
     \/ /\ ~HasTag(toWorker[w], "STOP")
        /\ ~(Backend = "roundingsat" /\ Optimizing)
        /\ Goto(w, "decide")
        /\ toMaster' = [toMaster EXCEPT ![w] = @ \o Reports(w)]
        /\ UNCHANGED <<toWorker, cube, bound, found, lower>>
  /\ UNCHANGED <<masterVars, given, imported>>

(* The end of a search that found nothing better: the result is sent, and
   the solution if there is one. *)
Answer(w) ==
  /\ Send(w, IF found[w] = None THEN Result(20, 0, None)
             ELSE Result(10, BestCost(w), found[w]))
  /\ Goto(w, IF w = Original THEN "done" ELSE "idle")
  /\ Dispose(w)

(* wrong: only the first incumbent is imported *)
FirstNewsOnly(w, cost) == cost # Inf /\ imported[w] = Inf

(* import_external_constraints, in the native solver: the master's answer to
   BEST_REQUEST, ... *)
IsNews(w, cost) == cost # Inf /\ cost < imported[w]

(* wrong: also clauses that hold under decisions only *)
AnyClause(w) == Clauses \ {{}}

(* The solver of the original problem hands over clauses it learned: each
   excludes only solutions it no longer looks for. *)
Learnable(w) == {excl \in Clauses \ {{}} : excl \cap Candidates(w, bound[w]) = {}}

Import(w) ==
  /\ Backend = "native"
  /\ pc[w] = "ask"
  /\ toWorker[w] # <<>>
  /\ Head(toWorker[w]).tag = "BEST_REPLY"
  /\ LET cost == Head(toWorker[w]).best IN
       /\ bound' = [bound EXCEPT ![w] = IF IsNews(w, cost) THEN ObjectiveBound(@, cost)
                                                          ELSE @]
       /\ imported' = [imported EXCEPT ![w] = IF IsNews(w, cost) THEN cost ELSE @]
  /\ toWorker' = [toWorker EXCEPT ![w] = Tail(@)]
  /\ \/ UNCHANGED toMaster
     \/ \E excl \in Learnable(w) :
          w = Original /\ Send(w, [tag |-> "LEARNED_UPDATE", excl |-> excl])
  /\ Goto(w, "decide")
  /\ UNCHANGED <<masterVars, cube, given, found, lower, reported, reportedLB>>

(* wrong: as report_external_UB, no STOP is expected *)
StopIgnored(w) == FALSE /\ UNCHANGED vars

(* ... or a STOP that overtook it. *)
ImportStop(w) ==
  /\ Backend = "native"
  /\ pc[w] = "ask"
  /\ toWorker[w] # <<>>
  /\ Head(toWorker[w]).tag = "STOP"
  /\ Leave(w)
  /\ UNCHANGED <<toMaster, masterVars, given, statics>>

(* report_external_UB, in RoundingSat: it waits for the reply only. *)
ExternalUB(w) ==
  /\ Backend = "roundingsat"
  /\ pc[w] = "ask"
  /\ HasTag(toWorker[w], "BEST_REPLY")
  /\ LET i == FirstTagged(toWorker[w], "BEST_REPLY")
         ub == toWorker[w][i].best
     IN
       /\ toWorker' = [toWorker EXCEPT ![w] = RemoveAt(@, i)]
       /\ IF ub < lower[w]
            THEN Answer(w)
            ELSE /\ bound' = [bound EXCEPT ![w] = ObjectiveBound(@, ub)]
                 /\ Goto(w, "decide")
                 /\ UNCHANGED <<toMaster, cube, found, lower>>
  /\ UNCHANGED <<masterVars, given, statics>>

(* The solver finds a solution.  A feasibility problem is then solved; the
   native solver sends the assignment it has stored, which in a feasibility
   problem is the initial one. *)
FindSolution(w) ==
  /\ pc[w] = "decide"
  /\ \E s \in Candidates(w, bound[w]) :
       IF Optimizing
         THEN /\ found' = [found EXCEPT ![w] = s]
              /\ bound' = [bound EXCEPT ![w] = Cost[s]]
              /\ Goto(w, "search")
              /\ UNCHANGED <<channels, cube, lower>>
         ELSE /\ Send(w, Result(10, 0, IF Backend = "native" THEN AllFalse ELSE s))
              /\ Leave(w)
  /\ UNCHANGED <<masterVars, given, statics>>

(* A decision, or any other iteration of the solver that settles nothing. *)
Decide(w) ==
  /\ pc[w] = "decide"
  /\ Goto(w, "search")
  /\ UNCHANGED <<channels, masterVars, solverVars, statics>>

(* RoundingSat proves a better lower bound from a core. *)
RaiseLowerBound(w) ==
  /\ Backend = "roundingsat" /\ Optimizing
  /\ pc[w] = "decide"
  /\ \E lb \in LowerBounds :
       /\ lower[w] < lb /\ lb < bound[w]
       /\ \A s \in Candidates(w, bound[w]) : lb <= Cost[s]
       /\ lower' = [lower EXCEPT ![w] = lb]
  /\ Goto(w, "search")
  /\ UNCHANGED <<channels, masterVars, cube, given, bound, found, statics>>

(* Nothing is left to find: a conflict without decisions. *)
Refute(w) ==
  /\ pc[w] \in {"search", "decide"}
  /\ Candidates(w, bound[w]) = {}
  /\ Answer(w)
  /\ UNCHANGED <<toWorker, masterVars, given, statics>>

(* The split timer went off after a solution was found (code 25): the master
   is sent the solution and answers with its incumbent. *)
OfferSolution(w) ==
  /\ pc[w] = "interrupted"
  /\ Send(w, Result(25, BestCost(w), found[w]))
  /\ Goto(w, "incumbent")
  /\ UNCHANGED <<toWorker, masterVars, solverVars, statics>>

ReceiveIncumbent(w) ==
  /\ pc[w] = "incumbent"
  /\ HasTag(toWorker[w], "RESULT")
  /\ LET i == FirstTagged(toWorker[w], "RESULT") IN
       /\ toWorker' = [toWorker EXCEPT ![w] = RemoveAt(@, i)]
       /\ given' = [given EXCEPT ![w] = toWorker[w][i].best]
  /\ Goto(w, "split")
  /\ UNCHANGED <<toMaster, masterVars, cube, bound, found, lower, statics>>

(* What the subcubes must keep; excl is what the constraints the solver
   learned in this cube exclude. *)
KeptBySplit(w, excl) == Candidates(w, given[w]) \ excl

SplitCube(w) ==
  /\ pc[w] = "split"
  /\ \E excl \in Clauses \cup {{}} :
       /\ excl \cap Candidates(w, bound[w]) = {}
       /\ \E parts \in Partitions(cube[w].region, KeptBySplit(w, excl)) :
            Send(w, Subcubes(parts, excl))
  /\ Goto(w, "idle")
  /\ Dispose(w)
  /\ UNCHANGED <<toWorker, masterVars, given, statics>>

(* generate_cubes meets a full assignment while it splits (a feasibility
   problem): code 10 is sent, and no SOLUTION message after it. *)
SplitFindsSat(w) ==
  /\ pc[w] = "split"
  /\ ~Optimizing
  /\ KeptBySplit(w, {}) # {}
  /\ Send(w, Result(10, 0, None))
  /\ Leave(w)
  /\ UNCHANGED <<masterVars, given, statics>>

-----------------------------------------------------------------------------
(***************************************************************************)
(* The master.                                                             *)
(***************************************************************************)
Collecting == phase = "collect" /\ awaited # {}

Serving ==
  /\ phase = "serve"
  /\ ~flags.satFound /\ ~flags.origUnsat /\ ~flags.origOptimum /\ ~flags.stopSent
  /\ activeWorkers > 0 \/ flags.origActive

Incoming(w, tag) ==
  /\ toMaster[w] # <<>>
  /\ Head(toMaster[w]).tag = tag

Consume(w) == toMaster' = [toMaster EXCEPT ![w] = Tail(@)]

Broadcast(chs) == [w \in Workers |-> Append(chs[w], Stop)]

(* send_work_to_worker. *)
Work(task, incumbentCost) ==
  [tag  |-> "WORK",
   task |-> [task EXCEPT !.excl = @ \cup learned, !.lb = Greater(@, globalLB)],
   best |-> incumbentCost]

(* How often f hands out each task. *)
Dealt(f) == [t \in Range(f) |-> Cardinality({w \in DOMAIN f : f[w] = t})]

(* The ways to hand the waiting tasks q to idle workers: in rank order, the
   tasks with the largest lower bound first, until either runs out. *)
Dispatches(idle, q) ==
  {f \in UNION {[W -> BagToSet(q)] : W \in SUBSET idle} :
     /\ Dealt(f) \sqsubseteq q
     /\ DOMAIN f = idle \/ Dealt(f) = q
     /\ \A v, w \in DOMAIN f : v < w => f[v].lb >= f[w].lb
     /\ \A w \in DOMAIN f : \A t \in BagToSet(q (-) Dealt(f)) : f[w].lb >= t.lb
     /\ \A w \in DOMAIN f : \A v \in idle \ DOMAIN f : w < v}

(* The channels after the tasks f assigns are sent. *)
Sent(f, incumbentCost) ==
  [w \in Workers |-> IF w \in DOMAIN f THEN Append(toWorker[w], Work(f[w], incumbentCost))
                                       ELSE toWorker[w]]

(* The books after tasks of q are handed out as f says, when active workers
   are busy and those in freed no longer are. *)
HandOut(f, q, active, freed) ==
  /\ queue' = q (-) Dealt(f)
  /\ cubeOf' = [w \in CubeWorkers |-> IF w \in DOMAIN f THEN f[w]
                                      ELSE IF w \in freed THEN None ELSE cubeOf[w]]
  /\ activeWorkers' = active + Cardinality(DOMAIN f)
  /\ lbOf' = [w \in Workers |-> IF w \in DOMAIN f THEN Greater(f[w].lb, globalLB)
                                                  ELSE lbOf[w]]

(* wrong: the finished cube still counts *)
NotCounted == activeWorkers

(* active_workers without the worker whose result came in, and the workers
   that are then free when its cube was split. *)
OthersActive == activeWorkers - 1

(* wrong: the subcubes go to the worker that split *)
OnlyTheSplitter(w) == {w}
IdleWorkers(w) == {v \in CubeWorkers : v = w \/ cubeOf[v] = None}

(* wrong: obj > lb for obj >= lb *)
StrictBound(w) == Greater(lbOf[w], globalLB) + 1

(* The lower bound the subcubes of w's cube start from. *)
InheritedBound(w) == Greater(lbOf[w], globalLB)

(* wrong: a cube's bound taken for the problem's *)
GlobalFromAnyone(w, lb) == Greater(globalLB, lb)

(* Only the original worker bounds the whole problem. *)
GlobalBound(w, lb) == IF w = Original THEN Greater(globalLB, lb) ELSE globalLB

(* wrong: a late, worse cost overwrites the incumbent *)
AnyCost(cost) == best' = cost

(* bestSolution. *)
Incumbent(cost) == best' = Lesser(best, cost)

(* A solution is kept if it improves on the incumbent, or as the first one. *)
StoreSolution(m) ==
  bestSol' = IF m.cost < best \/ bestSol = None THEN m.sol ELSE bestSol

ReplyBest(w) ==
  /\ Collecting \/ Serving
  /\ Incoming(w, "BEST_REQUEST")
  /\ Consume(w)
  /\ toWorker' = [toWorker EXCEPT ![w] = Append(@, [tag |-> "BEST_REPLY", best |-> best])]
  /\ UNCHANGED <<masterVars, workerVars>>

TakeBounds(w) ==
  /\ Collecting \/ Serving
  /\ Incoming(w, "BOUNDS")
  /\ Consume(w)
  /\ LET m == Head(toMaster[w]) IN
       /\ lbOf' = [lbOf EXCEPT ![w] = IF m.lb # NegInf THEN m.lb ELSE @]
       /\ globalLB' = GlobalBound(w, m.lb)
       /\ Incumbent(m.ub)
       /\ flags' = [flags EXCEPT !.feasibleSeen = @ \/ m.ub < Inf]
  /\ UNCHANGED <<toWorker, phase, awaited, queue, cubeOf, activeWorkers,
                 bestSol, learned, verdict, workerVars>>

TakeLearned(w) ==
  /\ Collecting \/ Serving
  /\ Incoming(w, "LEARNED_UPDATE")
  /\ Consume(w)
  /\ learned' = learned \cup Head(toMaster[w]).excl
  /\ UNCHANGED <<toWorker, phase, awaited, ledger, incumbent, globalLB, flags,
                 verdict, workerVars>>

(* A new best cost, without the solution (code 26). *)
TakeBestCost(w) ==
  /\ (Collecting /\ w = Original) \/ Serving
  /\ Incoming(w, "RESULT")
  /\ LET m == Head(toMaster[w]) IN
       /\ m.code = 26
       /\ Incumbent(m.cost)
       /\ flags' = [flags EXCEPT !.feasibleSeen = TRUE]
  /\ Consume(w)
  /\ UNCHANGED <<toWorker, phase, awaited, ledger, bestSol, globalLB, learned,
                 verdict, workerVars>>

(* The result of the original worker, in either loop. *)
TakeOriginalResult ==
  /\ Collecting \/ Serving
  /\ Incoming(Original, "RESULT")
  /\ LET m == Head(toMaster[Original])
         solved == m.code \in {10, 15}
     IN
       /\ m.code # 26
       /\ IF Optimizing
            THEN flags' = [flags EXCEPT
                   !.origActive = FALSE,
                   !.feasibleSeen = @ \/ solved,
                   !.origOptimum = m.code = 10 \/ (m.code = 20 /\ flags.feasibleSeen),
                   !.origUnsat = m.code = 20 /\ ~flags.feasibleSeen,
                   !.unknownSeen = @ \/ m.code \notin {10, 15, 20}]
            ELSE flags' = [flags EXCEPT
                   !.origActive = FALSE,
                   !.satFound = m.code = 10,
                   !.origUnsat = m.code = 20,
                   !.unknownSeen = @ \/ m.code \notin {10, 20}]
       /\ IF solved THEN StoreSolution(m) ELSE UNCHANGED bestSol
       /\ IF solved /\ Optimizing THEN Incumbent(m.cost) ELSE UNCHANGED best
  /\ Consume(Original)
  /\ UNCHANGED <<toWorker, phase, awaited, ledger, globalLB, learned, verdict,
                 workerVars>>

(* wrong: the counter is not decremented *)
AllAwaited(w) == awaited
StillAwaited(w) == awaited \ {w}

(* The cubes of one worker's initial generation. *)
TakeInitialCubes(w) ==
  /\ Collecting
  /\ Incoming(w, "INIT_RESULT")
  /\ LET m == Head(toMaster[w]) IN
       /\ queue' = queue (+) SetToBag({[WholeProblem EXCEPT !.region = p] : p \in m.parts})
       /\ flags' = [flags EXCEPT !.satInGeneration = @ \/ m.sat]
  /\ awaited' = StillAwaited(w)
  /\ Consume(w)
  /\ UNCHANGED <<toWorker, phase, cubeOf, activeWorkers, lbOf, incumbent, globalLB, learned, verdict, workerVars>>

(* wrong: no cubes taken for UNSAT before SAT is looked at *)
CubesFirst ==
  IF queue = EmptyBag THEN "UNSAT" ELSE IF flags.satFound THEN "SAT" ELSE "none"

(* What run_master announces between its two loops, if anything. *)
EarlyVerdict ==
  IF flags.satFound THEN "SAT"
  ELSE IF flags.origOptimum THEN "OPTIMUM"
  ELSE IF flags.origUnsat THEN "UNSAT"
  ELSE IF flags.satInGeneration /\ ~Optimizing THEN "SAT"
  ELSE IF queue = EmptyBag /\ CubeWorkers # {} THEN "UNSAT"
  ELSE "none"

AnswerEarly ==
  /\ phase = "collect" /\ awaited = {}
  /\ EarlyVerdict # "none"
  /\ verdict' = EarlyVerdict
  /\ phase' = "done"
  /\ toWorker' = Broadcast(toWorker)
  /\ UNCHANGED <<toMaster, awaited, ledger, incumbent, globalLB, learned, flags,
                 workerVars>>

StartServing ==
  /\ phase = "collect" /\ awaited = {}
  /\ EarlyVerdict = "none"
  /\ phase' = "serve"
  /\ \E f \in Dispatches(CubeWorkers, queue) :
       /\ HandOut(f, queue, 0, {})
       /\ toWorker' = Sent(f, best)
  /\ UNCHANGED <<toMaster, awaited, incumbent, globalLB, learned, flags, verdict,
                 workerVars>>

(* A solution found before the cube is split (code 25). *)
TakeOffer(w) ==
  /\ Serving
  /\ Incoming(w, "RESULT")
  /\ LET m == Head(toMaster[w]) IN
       /\ m.code = 25
       /\ Incumbent(m.cost)
       /\ StoreSolution(m)
  /\ flags' = [flags EXCEPT !.feasibleSeen = TRUE]
  /\ Consume(w)
  /\ toWorker' = [toWorker EXCEPT ![w] = Append(@, [tag |-> "RESULT", best |-> best'])]
  /\ UNCHANGED <<phase, awaited, ledger, globalLB, learned, verdict, workerVars>>

(* The subcubes of a split join the queue and are dealt to the idle workers. *)
TakeSplit(w) ==
  /\ Serving
  /\ Incoming(w, "RESULT")
  /\ LET m == Head(toMaster[w])
         child(region) == [region |-> region, excl |-> cubeOf[w].excl \cup m.excl,
                           depth |-> cubeOf[w].depth + 1,
                           lb |-> InheritedBound(w)]
         waiting == queue (+) SetToBag({child(p) : p \in m.parts})
     IN
       /\ m.code = 30
       /\ \E f \in Dispatches(IdleWorkers(w), waiting) :
            /\ HandOut(f, waiting, OthersActive, {w})
            /\ toWorker' = Sent(f, best)
  /\ Consume(w)
  /\ UNCHANGED <<phase, awaited, incumbent, globalLB, learned, flags, verdict,
                 workerVars>>

(* A cube worker found a model of a feasibility problem (code 10).  The
   master waits for the assignment, which SplitFindsSat never sends. *)
TakeModel(w) ==
  /\ Serving
  /\ w # Original
  /\ ~Optimizing
  /\ Incoming(w, "RESULT")
  /\ LET m == Head(toMaster[w]) IN
       /\ m.code = 10
       /\ IF m.sol = None
            THEN /\ phase' = "stuck"
                 /\ UNCHANGED <<bestSol, toWorker>>
            ELSE /\ bestSol' = m.sol
                 /\ toWorker' = [v \in Workers |-> IF v = w THEN toWorker[v]
                                                   ELSE Append(toWorker[v], Stop)]
                 /\ UNCHANGED phase
  /\ flags' = [flags EXCEPT !.satFound = TRUE]
  /\ Consume(w)
  /\ UNCHANGED <<awaited, ledger, best, globalLB, learned, verdict, workerVars>>

(* A cube is finished (any other code): the worker gets the next one, and when
   the last worker falls idle everybody is told to stop. *)
TakeCubeResult(w) ==
  /\ Serving
  /\ w # Original
  /\ Incoming(w, "RESULT")
  /\ LET m == Head(toMaster[w])
         solved == m.code \in {10, 15}
     IN
       /\ m.code \in {0, 10, 15, 20}
       /\ ~Optimizing => m.code # 10
       /\ IF solved THEN Incumbent(m.cost) /\ StoreSolution(m)
                    ELSE UNCHANGED incumbent
       /\ \E f \in Dispatches({w}, queue) :
            /\ HandOut(f, queue, OthersActive, {w})
            /\ toWorker' = IF activeWorkers' = 0 THEN Broadcast(toWorker) ELSE Sent(f, best')
       /\ flags' = [flags EXCEPT !.unknownSeen = @ \/ m.code = 0,
                                 !.feasibleSeen = @ \/ solved,
                                 !.stopSent = activeWorkers' = 0]
  /\ Consume(w)
  /\ UNCHANGED <<phase, awaited, globalLB, learned, verdict, workerVars>>

(* The line printed after the main loop: none when a model was found. *)
FinalVerdict ==
  IF ~Optimizing
    THEN IF flags.satFound THEN "none"
         ELSE IF flags.unknownSeen THEN "UNKNOWN" ELSE "UNSAT"
  ELSE IF flags.feasibleSeen
    THEN IF flags.unknownSeen THEN "BEST KNOWN" ELSE "OPTIMUM"
    ELSE IF flags.unknownSeen THEN "UNKNOWN" ELSE "UNSAT"

(* The end of the main loop. *)
Finish ==
  /\ phase = "serve" /\ ~Serving
  /\ phase' = "done"
  /\ verdict' = FinalVerdict
  /\ toWorker' = IF flags.stopSent THEN toWorker ELSE Broadcast(toWorker)
  /\ UNCHANGED <<toMaster, awaited, ledger, incumbent, globalLB, learned, flags,
                 workerVars>>

-----------------------------------------------------------------------------
MasterReceives(w) ==
  \/ ReplyBest(w) \/ TakeBounds(w) \/ TakeLearned(w) \/ TakeBestCost(w)
  \/ w = Original /\ TakeOriginalResult
  \/ w \in CubeWorkers /\ (\/ TakeInitialCubes(w) \/ TakeOffer(w) \/ TakeSplit(w)
                           \/ TakeModel(w) \/ TakeCubeResult(w))

MasterSteps == AnswerEarly \/ StartServing \/ Finish

Search(w) ==
  \/ Poll(w) \/ Import(w) \/ ImportStop(w) \/ ExternalUB(w) \/ Decide(w)
  \/ FindSolution(w) \/ RaiseLowerBound(w) \/ Refute(w)

CubeWorkerSteps(w) ==
  \/ Generate(w) \/ Receive(w) \/ OfferSolution(w) \/ ReceiveIncumbent(w)
  \/ SplitCube(w) \/ SplitFindsSat(w)

Next ==
  \/ MasterSteps
  \/ \E w \in Workers : MasterReceives(w) \/ Search(w)
  \/ \E w \in CubeWorkers : CubeWorkerSteps(w)

Spec == Init /\ [][Next]_vars

(***************************************************************************)
(* Fairness: no process stops, MPI_Probe(MPI_ANY_SOURCE) starves no        *)
(* sender, and a solver is complete: while it is not interrupted it        *)
(* eventually finds a solution if there is one and refutes the cube if     *)
(* there is none, however often it calls back in between.                  *)
(***************************************************************************)
Fairness ==
  /\ WF_vars(MasterSteps)
  /\ \A w \in Workers : /\ WF_vars(MasterReceives(w))
                        /\ WF_vars(Search(w))
                        /\ SF_vars(FindSolution(w))
                        /\ SF_vars(Refute(w))
  /\ \A w \in CubeWorkers : WF_vars(CubeWorkerSteps(w))

FairSpec == Spec /\ Fairness

-----------------------------------------------------------------------------
(***************************************************************************)
(* Safety.                                                                 *)
(***************************************************************************)
(* The tasks the master has neither seen finished nor split. *)
Open == BagToSet(queue) \cup (Range(cubeOf) \ {None})

(* A worker that solves the task as it is sent now can find s. *)
Covers(task, s) ==
  LET sent == Work(task, best).task IN s \in sent.region \ sent.excl /\ sent.lb <= Cost[s]

(* While cubes are handed out, every solution better than the incumbent lies
   in a task that is waiting or being solved, and neither the constraints nor
   the lower bound that go with the task exclude it: no split, no learned
   constraint and no inherited bound loses it (run_master, RES_SPLIT). *)
Coverage ==
  phase = "serve" /\ CubeWorkers # {} =>
    \A s \in Sol : Cost[s] < best => \E task \in Open : Covers(task, s)

(* The costs the messages of w that are still to be received report. *)
CostsSent(w) ==
  {toMaster[w][i].cost : i \in {j \in DOMAIN toMaster[w] :
                                  /\ toMaster[w][j].tag = "RESULT"
                                  /\ toMaster[w][j].code \in {10, 25, 26}}}
  \cup {toMaster[w][i].ub : i \in {j \in DOMAIN toMaster[w] :
                                     toMaster[w][j].tag = "BOUNDS"}}

(* A solver only discards solutions that do not improve on a cost the master
   knows, is about to be told, or that the solver holds a solution for. *)
PruningJustified ==
  Optimizing =>
    \A w \in Workers : pc[w] \in {"search", "ask", "decide", "interrupted"} =>
      \/ best <= bound[w]
      \/ \E c \in CostsSent(w) : c <= bound[w]
      \/ found[w] # None /\ Cost[found[w]] = bound[w]

(* What the original worker shares excludes no solution better than the
   incumbent of the master that passes it on. *)
LearnedSound == \A s \in learned : best <= Cost[s]

(* A lower bound the master passes on or shows is below every solution it is
   still interested in: the global one for the whole problem, a worker's for
   the cube it has (a BOUNDS message never outlives its cube). *)
LowerBoundsValid ==
  \A s \in Sol : Cost[s] < best =>
    /\ globalLB <= Cost[s]
    /\ phase = "serve" =>
         \A w \in CubeWorkers :
           cubeOf[w] # None /\ s \in cubeOf[w].region => lbOf[w] <= Cost[s]

(* The master's books agree with the workers: it counts the busy ones, and a
   worker it holds for idle has no cube, no work under way to it and no result
   under way from it. *)
Engaged(w) ==
  \/ pc[w] \in {"search", "ask", "decide", "interrupted", "incumbent", "split"}
  \/ HasTag(toWorker[w], "WORK")
  \/ HasTag(toMaster[w], "RESULT")

Books ==
  phase = "serve" =>
    /\ activeWorkers = Cardinality({w \in CubeWorkers : cubeOf[w] # None})
    /\ \A w \in CubeWorkers : cubeOf[w] = None => ~Engaged(w)

(* No cube waits while a worker is idle. *)
WorkConserving ==
  phase = "serve" => queue = EmptyBag \/ \A w \in CubeWorkers : cubeOf[w] # None

(* The callbacks compare with a value kept from the cubes solved before.  It
   never hides news: a solver that goes on searching has told the master the
   cost of its solution, and after the master's reply it looks for nothing
   that is not cheaper than the reply. *)
CostReported ==
  \A w \in Workers :
    pc[w] \in {"ask", "decide", "interrupted", "split"} /\ found[w] # None
      => reported[w] <= Cost[found[w]]

ReplyHeeded ==
  [][\A w \in Workers :
       pc[w] = "ask" /\ pc'[w] = "decide" => bound'[w] <= Head(toWorker[w]).best]_vars

(* What the user has been told when the master is done: the global result, or
   that a model was found ("SAT found by ..." and the assignment). *)
Outcome == IF phase = "done" /\ flags.satFound THEN "SAT" ELSE verdict

(* The master does what the program promises: the incumbent moves only to the
   cost of a cheaper solution, and the one result it ends with is true of the
   problem (run_master; the assumption is that solvers and generators are). *)
Promise == INSTANCE GlobalResult
             WITH Sol <- Sol, Cost <- Cost, Inf <- Inf, Optimizing <- Optimizing,
                  best <- best, verdict <- Outcome
KeepsPromise == Promise!Spec

-----------------------------------------------------------------------------
(***************************************************************************)
(* Liveness, and what the comments say that the code does not always do.   *)
(***************************************************************************)
(* The master announces a result in every run (the loops of run_master). *)
Announced == <>(Outcome # "none")

(* A worker that is sent a STOP leaves (terminate_cb: "Check whether a STOP
   message has been sent by the master"). *)
StopHeeded == \A w \in Workers : HasTag(toWorker[w], "STOP") ~> pc[w] = "done"

(* Once a worker found a model, the master stops everybody and ends with it
   (run_master: "One worker found SAT: stop all others"). *)
SatAnnounced == flags.satFound ~> Outcome = "SAT"

(* The solution printed with the line "o" has that cost (print_solution). *)
SolutionMatchesCost ==
  verdict = "OPTIMUM" /\ bestSol # None => bestSol \in Sol /\ Cost[bestSol] = best

==============================================================================
