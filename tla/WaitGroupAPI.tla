---------------------------- MODULE WaitGroupAPI ----------------------------
(***************************************************************************)
(* What core/waitgroup.h promises a caller, with no thread, mutex, counter  *)
(* or array in sight.  A group hands out slots in spawn order; a slot's     *)
(* task runs on its own and ends once with an outcome; wg_wait and          *)
(* wg_destroy return only when no task of the group is running.             *)
(***************************************************************************)
EXTENDS Integers

CONSTANTS MaxTasks,   \* bound on the tasks of one group
          Outcome,    \* what a runner may leave in a task (ok, result, error)
          Blank       \* the zeroed output of a task no runner has written

Slot == 0 .. MaxTasks - 1
Status == {"unused", "running", "ended", "unstarted"}

VARIABLES live,       \* between wg_create and the return of wg_destroy
          size,       \* wg_size: the slots handed out
          status,     \* status[s]: the life of the task in slot s
          outcome,    \* outcome[s]: what wg_get(s) shows once the task ended
          caller,     \* the operation the single caller is blocked in
          settled     \* slots below it are covered by a completed wg_wait

api == <<live, size, status, outcome, caller, settled>>

\* The types; no more slots are settled than were handed out.
TypeOK == /\ live \in BOOLEAN
          /\ size \in 0 .. MaxTasks
          /\ status \in [Slot -> Status]
          /\ outcome \in [Slot -> Outcome \cup {Blank}]
          /\ caller \in {"ready", "waiting", "destroying"}
          /\ settled \in 0 .. size

Init == /\ live = FALSE /\ size = 0 /\ settled = 0 /\ caller = "ready"
        /\ status = [s \in Slot |-> "unused"]
        /\ outcome = [s \in Slot |-> Blank]

NoneRunning == \A s \in Slot : status[s] # "running"

Create == /\ ~live /\ caller = "ready" /\ live' = TRUE
          /\ UNCHANGED <<size, status, outcome, caller, settled>>

\* wg_go hands out the next slot; the thread may fail to start, and the slot
\* then stays in the group without an outcome.
Spawn == /\ live /\ caller = "ready" /\ size < MaxTasks
         /\ size' = size + 1
         /\ status' = [status EXCEPT ![size] = "running"]
         /\ UNCHANGED <<live, outcome, caller, settled>>

SpawnFails == /\ live /\ caller = "ready" /\ size < MaxTasks
              /\ size' = size + 1
              /\ status' = [status EXCEPT ![size] = "unstarted"]
              /\ UNCHANGED <<live, outcome, caller, settled>>

Finish(s) == /\ status[s] = "running"
             /\ status' = [status EXCEPT ![s] = "ended"]
             /\ \E o \in Outcome : outcome' = [outcome EXCEPT ![s] = o]
             /\ UNCHANGED <<live, size, caller, settled>>

WaitCall == /\ live /\ caller = "ready" /\ caller' = "waiting"
            /\ UNCHANGED <<live, size, status, outcome, settled>>

WaitReturn == /\ caller = "waiting" /\ NoneRunning
              /\ caller' = "ready" /\ settled' = size
              /\ UNCHANGED <<live, size, status, outcome>>

DestroyCall == /\ live /\ caller = "ready" /\ caller' = "destroying"
               /\ settled' = 0
               /\ UNCHANGED <<live, size, status, outcome>>

DestroyReturn == /\ caller = "destroying" /\ NoneRunning
                 /\ caller' = "ready" /\ live' = FALSE /\ size' = 0
                 /\ status' = [s \in Slot |-> "unused"]
                 /\ outcome' = [s \in Slot |-> Blank]
                 /\ UNCHANGED settled

Next == \/ Create \/ Spawn \/ SpawnFails \/ WaitCall \/ WaitReturn
        \/ DestroyCall \/ DestroyReturn
        \/ \E s \in Slot : Finish(s)

\* Tasks terminate, and a wait or destroy whose tasks are over returns.
Fairness == /\ \A s \in Slot : WF_api(Finish(s))
            /\ WF_api(WaitReturn) /\ WF_api(DestroyReturn)

Spec == Init /\ [][Next]_api /\ Fairness
=============================================================================
