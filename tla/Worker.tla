------------------------------- MODULE Worker -------------------------------
(***************************************************************************)
(* worker_main_thread of bridge_worker.c: one task on one thread, from      *)
(* ts_resource to the return.  The engine (php_request_startup, compiling,  *)
(* executing, converting, destroying values) is external: a call into it    *)
(* may run user code whose uncaught exception the capture trampoline        *)
(* records, EG(exception) keeps, or a handler elsewhere has dealt with so   *)
(* that nothing of it is left; and inside zend_try it may bail out.         *)
(***************************************************************************)
EXTENDS Integers, TaskOutcome

CONSTANTS Kind,        \* callable.kind: the closure kind and the named ones
          ClosureKind  \* PX_CALL_KIND_CLOSURE

ASSUME KindAssumption == ClosureKind \in Kind

VARIABLES
  pc,         \* where the thread is
  kind,       \* payload->callable.kind
  bootstrap,  \* payload->callable.bootstrap # NULL
  ok,         \* task->ok
  result,     \* task->result # NULL
  error,      \* task->error: NULL, from an exception, or made up here
  captured,   \* worker_captured_error # NULL
  pending,    \* EG(exception) # NULL
  request,    \* the PHP request of this thread
  tsrm,       \* the thread's TSRM storage is allocated
  payload,    \* live allocations of the payload
  threw,      \* history: an exception was left to the worker before it decided
  handled,    \* history: the engine handled an uncaught one of the bootstrap
  bailed      \* history: where the engine bailed out

input  == <<kind, bootstrap>>
task   == <<ok, result, error>>
engine == <<captured, pending>>
owned  == <<request, tsrm, payload>>
hist   == <<threw, handled, bailed>>
vars   == <<pc, input, task, engine, owned, hist>>

Stage == {"enter", "startup", "bootstrap", "bootstrapped", "install", "args",
          "compile", "compiled", "execute", "executed", "factory",
          "factoried", "call", "called", "convert", "release", "unwind",
          "catch", "shutdown", "free", "returned"}

Init == /\ pc = "enter" /\ kind \in Kind /\ bootstrap \in BOOLEAN
        /\ ok = FALSE /\ result = FALSE /\ error = "null"
        /\ captured = FALSE /\ pending = FALSE
        /\ request = "none" /\ tsrm = FALSE /\ payload = 1
        /\ threw = FALSE /\ handled = FALSE /\ bailed = "no"

-----------------------------------------------------------------------------
\* The engine.

\* What user code run by the engine may leave behind: an exception that the
\* trampoline has recorded (the first one wins), a pending one, or both.  An
\* exception caught by a handler that user code installed in the trampoline's
\* place leaves nothing, as code that does not raise.
Raises == /\ captured' \in {captured, TRUE} /\ pending' \in {pending, TRUE}
          /\ captured' \/ pending'
Effect == \/ UNCHANGED <<captured, pending, threw>>
          \/ Raises /\ threw' = TRUE
LateEffect == (UNCHANGED engine \/ Raises) /\ UNCHANGED threw

\* A call made inside zend_try continues or bails out to zend_catch.
OrBail(next) == /\ \/ pc' = next /\ UNCHANGED bailed
                   \/ pc' = "catch" /\ bailed' = "body"
                /\ UNCHANGED handled

\* task->ok = false with the first error there is: the one the trampoline
\* recorded, the pending one, or one made up for the occasion.
Report == /\ ok' = FALSE
          /\ error' = IF captured \/ pending THEN "thrown" ELSE "made"
          /\ captured' = FALSE
          /\ pending' = IF captured THEN pending ELSE FALSE

Fail == /\ Report /\ pc' = "unwind"
        /\ UNCHANGED <<input, result, owned, hist>>

Go(next) == pc' = next /\ UNCHANGED <<input, task, engine, owned, hist>>

-----------------------------------------------------------------------------
\* ts_resource and TSRMLS_CACHE_UPDATE.
enter == /\ pc = "enter" /\ pc' = "startup" /\ tsrm' = TRUE
         /\ UNCHANGED <<input, task, engine, request, payload, hist>>

\* php_request_startup; its failure returns at once.
startup ==
  /\ pc = "startup"
  /\ UNCHANGED <<input, result, engine, tsrm, payload, hist>>
  /\ \/ request' = "up" /\ UNCHANGED <<ok, error>>
        /\ pc' = IF bootstrap THEN "bootstrap" ELSE "install"
     \/ ok' = FALSE /\ error' = "made" /\ pc' = "returned" /\ UNCHANGED request

\* The bootstrap file, in a zend_try of its own with an empty zend_catch.  What
\* its code throws and does not catch, zend_execute_scripts hands to the
\* handler the file has set or reports, and clears; only the error of a file
\* that does not compile, for which nothing runs, is pending when it returns.
run_bootstrap ==
  /\ pc = "bootstrap" /\ pc' = "bootstrapped"
  /\ pending' \in BOOLEAN /\ threw' = pending'
  /\ handled' \in BOOLEAN /\ (handled' => ~pending')
  /\ bailed' \in {"no", "bootstrap"}
  /\ UNCHANGED <<input, task, captured, owned>>

\* Mutant: the early exit frees the payload and runs on into the cleanup.
bootstrap_threw_frees_twice ==
  /\ pc = "bootstrapped" /\ pending
  /\ ok' = FALSE /\ error' = "thrown" /\ pending' = FALSE
  /\ pc' = "shutdown" /\ payload' = payload - 1
  /\ UNCHANGED <<input, result, captured, request, tsrm, hist>>

\* Mutant: the early exit leaves the request up.
bootstrap_threw_no_shutdown ==
  /\ pc = "bootstrapped" /\ pending
  /\ ok' = FALSE /\ error' = "thrown" /\ pending' = FALSE
  /\ pc' = "free"
  /\ UNCHANGED <<input, result, captured, owned, hist>>

\* An exception it left pending ends the task.
bootstrap_threw ==
  /\ pc = "bootstrapped" /\ pending
  /\ ok' = FALSE /\ error' = "thrown" /\ pending' = FALSE
  /\ pc' = "shutdown"
  /\ UNCHANGED <<input, result, captured, owned, hist>>

bootstrap_passed == pc = "bootstrapped" /\ ~pending /\ Go("install")

install == /\ pc = "install" /\ pc' = "args" /\ captured' = FALSE
           /\ UNCHANGED <<input, task, pending, owned, hist>>

\* px_value_to_zval of the arguments, which may load classes.  What it makes is
\* an array, as go() builds one: the exit for anything else is never taken.
args == /\ pc = "args" /\ Effect
        /\ OrBail(IF kind = ClosureKind THEN "compile" ELSE "call")
        /\ UNCHANGED <<input, task, owned>>

compile == /\ pc = "compile" /\ Effect /\ OrBail("compiled")
           /\ UNCHANGED <<input, task, owned>>

\* No op_array, or an exception: the closure did not compile.
compile_failed == pc = "compiled" /\ Fail
compile_passed == pc = "compiled" /\ ~pending /\ Go("execute")

execute == /\ pc = "execute" /\ Effect /\ OrBail("executed")
           /\ UNCHANGED <<input, task, owned>>

\* An exception, or something other than a Closure, came out of the wrapper.
execute_failed == pc = "executed" /\ Fail
execute_passed == pc = "executed" /\ ~captured /\ ~pending /\ Go("factory")

\* The factory called with the converted captures.
factory == /\ pc = "factory" /\ Effect /\ OrBail("factoried")
           /\ UNCHANGED <<input, task, owned>>

\* It failed or returned no object; a recorded exception alone is left to the
\* classification after the call.
factory_failed == pc = "factoried" /\ Fail
factory_passed == pc = "factoried" /\ Go("call")

\* call_user_function, and the release of the callable and its arguments.
call == /\ pc = "call" /\ Effect /\ OrBail("called")
        /\ UNCHANGED <<input, task, owned>>

\* Mutant: only EG(exception) is looked at.
Raised_pending_only == pending

Raised == captured \/ pending

call_threw ==
  /\ pc = "called" /\ Raised /\ Report
  /\ result' = IF captured THEN FALSE ELSE result
  /\ pc' = "unwind"
  /\ UNCHANGED <<input, owned, hist>>

\* rc # SUCCESS with nothing raised.
call_failed == pc = "called" /\ ~Raised /\ Fail

call_returned ==
  /\ pc = "called" /\ ~Raised
  /\ ok' = TRUE /\ pc' = "convert"
  /\ UNCHANGED <<input, result, error, engine, owned, hist>>

\* px_zval_to_value of the return value: a snapshot, or NULL and a
\* CaptureError raised where there is no PHP frame, which may bail out.
convert ==
  /\ pc = "convert" /\ UNCHANGED <<input, ok, error, owned, threw>>
  /\ \/ result' = TRUE /\ pc' = "release"
        /\ UNCHANGED <<engine, handled, bailed>>
     \/ result' = FALSE /\ Raises /\ OrBail("release")

\* zval_ptr_dtor of the return value, which may run a destructor.
release == /\ pc = "release" /\ LateEffect /\ OrBail("shutdown")
           /\ UNCHANGED <<input, task, owned>>

\* The releases on the way out of a failure (exception, op_array, factory).
unwind == /\ pc = "unwind" /\ LateEffect /\ OrBail("shutdown")
          /\ UNCHANGED <<input, task, owned>>

\* Mutant: the bailout itself is not reported.
catch_silent == /\ pc = "catch" /\ pc' = "shutdown"
                /\ ok' = FALSE
                /\ UNCHANGED <<input, result, error, engine, owned, hist>>

\* Mutant: the releases are retried under the same zend_try.
catch_unwinds == /\ pc = "catch" /\ pc' = "unwind"
                 /\ ok' = FALSE
                 /\ error' = IF error = "null" THEN "made" ELSE error
                 /\ UNCHANGED <<input, result, engine, owned, hist>>

\* zend_catch: whatever was decided, the task has failed.
catch == /\ pc = "catch" /\ pc' = "shutdown"
         /\ ok' = FALSE
         /\ error' = IF error = "null" THEN "made" ELSE error
         /\ UNCHANGED <<input, result, engine, owned, hist>>

\* php_request_shutdown, which runs destructors and shutdown functions.
shutdown == /\ pc = "shutdown" /\ pc' = "free"
            /\ request' = "down" /\ LateEffect
            /\ UNCHANGED <<input, task, tsrm, payload, handled, bailed>>

\* ts_free_thread, px_callable_free, free(payload), user_data = NULL.
free == /\ pc = "free" /\ pc' = "returned"
        /\ tsrm' = FALSE /\ payload' = payload - 1
        /\ UNCHANGED <<input, task, engine, request, hist>>

Next == \/ enter \/ startup \/ run_bootstrap \/ bootstrap_threw
        \/ bootstrap_passed \/ install \/ args
        \/ compile \/ compile_failed \/ compile_passed
        \/ execute \/ execute_failed \/ execute_passed
        \/ factory \/ factory_failed \/ factory_passed
        \/ call \/ call_threw \/ call_failed \/ call_returned
        \/ convert \/ release \/ unwind \/ catch \/ shutdown \/ free

\* Every call into the engine returns or bails out.
Spec == Init /\ [][Next]_vars /\ WF_vars(Next)

-----------------------------------------------------------------------------
\* The types; the payload is freed at most once.
TypeOK == /\ pc \in Stage /\ kind \in Kind /\ bootstrap \in BOOLEAN
          /\ ok \in BOOLEAN /\ result \in BOOLEAN
          /\ error \in {"null", "thrown", "made"}
          /\ captured \in BOOLEAN /\ pending \in BOOLEAN
          /\ request \in {"none", "up", "down"}
          /\ tsrm \in BOOLEAN /\ payload \in {0, 1}
          /\ threw \in BOOLEAN /\ handled \in BOOLEAN
          /\ bailed \in {"no", "bootstrap", "body"}

TaskOutput == [ok |-> ok, result |-> result, error |-> error # "null",
               payload |-> payload # 0]

\* Whichever of the return paths is taken, and wherever the engine bails out,
\* the task is left as the binding expects it: a success without an error or
\* a failure with one.
HonoursContract == pc = "returned" => TaskOutput \in RunnerOutcome

\* An exception that reaches the worker while the task is prepared or runs is
\* never turned into a success or hidden behind a made-up error, whether the
\* trampoline recorded it or it was left pending, and however many calls follow
\* before it is looked at; only a bailout may take its place.  What an engine or
\* user handler has dealt with before never reaches the worker.
RecordedIsReported ==
  pc = "returned" /\ threw /\ bailed # "body" => ~ok /\ error = "thrown"

\* On every path a request that came up is shut down, after the last user code
\* and before the thread's TSRM storage and the payload go.
CleanupBalanced ==
  /\ pc = "returned" => \/ request = "down" /\ ~tsrm /\ payload = 0
                        \/ request = "none" /\ ~ok /\ error = "made"
  /\ pc \notin {"enter", "startup", "free", "returned"} =>
       request = "up" /\ tsrm /\ payload = 1

\* For the thread that calls it, the whole of this is one step: the task is
\* filled in once, as the contract allows, when the runner returns, and the
\* runner does return, which is what wg_wait's own liveness rests on.
AsRunner == INSTANCE Runner WITH
              running <- pc # "returned",
              output <- IF pc = "returned" THEN TaskOutput ELSE Blank
ImplementsRunner == AsRunner!Spec

\* README.md: "One panicking worker yields `ok = false` in its slot", and
\* bridge_worker.c: "bootstrap bailed -- surface as a worker error and
\* short-circuit".  Expected to fail in two ways: when the bootstrap bails out,
\* the zend_catch is empty; and what it throws, the engine has handled and
\* cleared when the test of EG(exception) comes.
BootstrapFailureSurfaces ==
  pc = "returned" /\ (bailed = "bootstrap" \/ handled) => ~ok
=============================================================================
