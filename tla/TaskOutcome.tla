----------------------------- MODULE TaskOutcome -----------------------------
(***************************************************************************)
(* What a runner leaves in a task: the contract between bridge_worker.c,    *)
(* which must stay inside it, and php_binding.c, which must cope with all   *)
(* of it.  Values are abstracted to whether the pointer is set.             *)
(***************************************************************************)

\* ok, result # NULL, error # NULL and user_data (the payload) still held.
TaskFields == [ok : BOOLEAN, result : BOOLEAN, error : BOOLEAN,
               payload : BOOLEAN]

\* A calloc'd task that wg_go has given its payload.
Blank == [ok |-> FALSE, result |-> FALSE, error |-> FALSE, payload |-> TRUE]

\* ok without an error or an error without ok; a result may be missing from a
\* success and present in a failure.  Only a failed request startup leaves the
\* payload, and then nothing ran that could have left a result.
RunnerOutcome == {o \in TaskFields : /\ o.ok <=> ~o.error
                                     /\ o.payload => ~o.ok /\ ~o.result}
=============================================================================
