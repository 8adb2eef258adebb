----------------------------- MODULE GlobalResult -----------------------------
(***************************************************************************)
(* What cubePB promises its user, whatever the number of processes and the *)
(* solver: the incumbent cost (global_best_cost, the UB of the status      *)
(* lines) only ever moves to the cost of a cheaper solution, and it ends   *)
(* with one result (the line "Global result" or "SAT found by"), which is  *)
(* true of the problem.  run_master is where the program keeps this        *)
(* promise; CubeConquer implements it.                                     *)
(***************************************************************************)
EXTENDS Integers

CONSTANTS
  Sol,         (* the feasible assignments                                 *)
  Cost,        (* their objective values                                   *)
  Inf,         (* no incumbent                                             *)
  Optimizing   (* does the problem have an objective?                      *)

VARIABLES
  best,        (* the cost of the incumbent                                *)
  verdict      (* the result, "none" until it is announced                 *)

Init == best = Inf /\ verdict = "none"

Improve ==
  /\ Optimizing
  /\ \E s \in Sol : Cost[s] < best /\ best' = Cost[s]
  /\ verdict = "none"
  /\ UNCHANGED verdict

(* The results that are true of the problem when best is the incumbent. *)
Truthful(result) ==
  CASE result = "SAT"        -> ~Optimizing /\ Sol # {}
    [] result = "UNSAT"      -> Sol = {}
    [] result = "OPTIMUM"    -> /\ Optimizing
                                /\ \E s \in Sol : Cost[s] = best
                                /\ \A s \in Sol : best <= Cost[s]
    [] result = "BEST KNOWN" -> Optimizing /\ \E s \in Sol : Cost[s] = best
    [] result = "UNKNOWN"    -> TRUE
    [] OTHER                 -> FALSE

Announce ==
  /\ verdict = "none"
  /\ Truthful(verdict')
  /\ UNCHANGED best

Next == Improve \/ Announce

Spec == Init /\ [][Next]_<<best, verdict>>
===============================================================================
