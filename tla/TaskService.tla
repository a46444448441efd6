---------------------------- MODULE TaskService ----------------------------
(***************************************************************************)
(* What TranslationPool.run promises its caller, with no thread in sight:  *)
(* every submitted job settles at most once, it settles with the answer of *)
(* the pipeline only when the pipeline gave that answer for that job, it   *)
(* fails only for a cause, and nothing is accepted once the service is     *)
(* closed.                                                                 *)
(***************************************************************************)
CONSTANT Task

VARIABLES
  outcome,  \* outcome[t]: the state of the promise run(t) returned
  answer,   \* answer[t]: what the pipeline returned for t, if it ran to an end
  lost,     \* jobs whose thread died
  closed    \* TRUE once the service refuses new jobs

serviceVars == <<outcome, answer, lost, closed>>

Outcome == {"new", "waiting", "resolved", "failed", "timedout", "refused"}
Answer  == {"none", "ok", "error"}

ServiceInit ==
  /\ outcome = [t \in Task |-> "new"]
  /\ answer = [t \in Task |-> "none"]
  /\ lost = {}
  /\ closed = FALSE

Settle(t, from, to) ==
  /\ outcome[t] = from
  /\ outcome' = [outcome EXCEPT ![t] = to]
  /\ UNCHANGED <<answer, closed>>

Submit(t)  == Settle(t, "new", IF closed THEN "refused" ELSE "waiting")
Resolve(t) == answer[t] = "ok" /\ Settle(t, "waiting", "resolved")
Fail(t)    == (answer[t] = "error" \/ t \in lost) /\ Settle(t, "waiting", "failed")
Expire(t)  == Settle(t, "waiting", "timedout")

(* The pipeline ends for a submitted job, whether or not anyone still waits. *)
Finish(t) ==
  /\ outcome[t] # "new"
  /\ answer[t] = "none"
  /\ \E a \in Answer \ {"none"} : answer' = [answer EXCEPT ![t] = a]
  /\ UNCHANGED <<outcome, closed>>

Close ==
  /\ closed' = TRUE
  /\ outcome' = [t \in Task |-> IF outcome[t] = "waiting" THEN "refused" ELSE outcome[t]]
  /\ UNCHANGED answer

(* A thread may die in any step and take the jobs it holds with it. *)
ServiceNext ==
  /\ lost \subseteq lost' /\ lost' \subseteq Task
  /\ \/ \E t \in Task : Submit(t) \/ Resolve(t) \/ Fail(t) \/ Expire(t) \/ Finish(t)
     \/ Close
     \/ UNCHANGED <<outcome, answer, closed>>

ServiceSpec == ServiceInit /\ [][ServiceNext]_serviceVars
=============================================================================
