---------------------------- MODULE PoolContract ----------------------------
(***************************************************************************)
(* What thread_pool promises to those who call submit(): a task is pending *)
(* until it has run, its promise is set once and never changes after that, *)
(* and destroying the pool leaves no task pending: one that will not run   *)
(* any more has its promise broken.                                        *)
(***************************************************************************)

CONSTANT Task
VARIABLES
  status,   \* the state of the future of each task
  closed    \* the pool has been destroyed

contractVars == <<status, closed>>

Outcome == {"value", "exception"}

ContractInit ==
  /\ status = [t \in Task |-> "none"]
  /\ closed = FALSE

SubmitTask(t) ==
  /\ ~closed /\ status[t] = "none"
  /\ status' = [status EXCEPT ![t] = "pending"]
  /\ UNCHANGED closed

FinishTask(t, outcome) ==
  /\ ~closed /\ status[t] = "pending"
  /\ status' = [status EXCEPT ![t] = outcome]
  /\ UNCHANGED closed

ClosePool ==
  /\ ~closed
  /\ closed' = TRUE
  /\ status' = [t \in Task |-> IF status[t] = "pending" THEN "broken"
                                                        ELSE status[t]]

ContractNext ==
  \/ \E t \in Task : SubmitTask(t)
  \/ \E t \in Task, outcome \in Outcome : FinishTask(t, outcome)
  \/ ClosePool

ContractSpec == ContractInit /\ [][ContractNext]_contractVars
=============================================================================
