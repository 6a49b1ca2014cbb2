------------------------------- MODULE Runner -------------------------------
(***************************************************************************)
(* A task's runner as the thread that calls it sees it (task_runner_t of     *)
(* core/waitgroup.h): one step that fills in the task, once, and is sure to   *)
(* come.  This is WaitGroup's action runner and WaitGroupAPI's Finish for one *)
(* task; the worker is shown to implement it.                                *)
(***************************************************************************)
EXTENDS TaskOutcome

VARIABLES running,   \* the runner has not returned
          output     \* ok, result, error and user_data of its task

runnerVars == <<running, output>>

Init == running = TRUE /\ output = Blank

Return == running /\ running' = FALSE /\ output' \in RunnerOutcome

Spec == Init /\ [][Return]_runnerVars /\ WF_runnerVars(Return)
=============================================================================
