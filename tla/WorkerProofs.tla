---------------------------- MODULE WorkerProofs ----------------------------
(***************************************************************************)
(* What the runs of Worker check, for any set of callable kinds: the types, *)
(* the contract of the outcome, the exceptions that reach the worker        *)
(* reported, the cleanup balanced, and the safety half of the refinement of *)
(* Runner.                                                                  *)
(***************************************************************************)
EXTENDS Worker, TLAPS

\* The stages in which nothing has been decided, after the bootstrap.
Preparing == {"install", "args", "compile", "compiled", "execute", "executed",
              "factory", "factoried", "call", "called"}
Undecided == Preparing \cup {"enter", "startup", "bootstrap", "bootstrapped"}

\* What the task holds, stage by stage: nothing until it is decided, then a
\* success, a failure with its error, or, on the way to zend_catch, anything.
DecidedInv ==
  /\ pc \in Undecided => ~ok /\ ~result /\ error = "null"
  /\ pc \in {"convert", "release"} => ok /\ error = "null"
  /\ pc = "unwind" => ~ok /\ error # "null"
  /\ pc \in {"shutdown", "free", "returned"} => (ok <=> error = "null")

\* An exception left to the worker before the decision is still visible when it
\* is taken, and in the error from then on.
RecordedInv ==
  /\ pc \in {"enter", "startup", "bootstrap", "install"} => ~threw
  /\ pc = "bootstrapped" => (threw <=> pending)
  /\ pc \in Preparing => (threw => captured \/ pending)
  /\ pc \in {"convert", "release"} => ~threw
  /\ pc = "unwind" => (threw => error = "thrown")
  /\ pc \in {"shutdown", "free", "returned"} =>
       (threw /\ bailed # "body" => ~ok /\ error = "thrown")
  /\ pc = "catch" => bailed = "body"
  /\ pc \in {"enter", "startup", "bootstrap"} => bailed = "no"

\* What the thread owns, stage by stage.
OwnedInv ==
  /\ pc \in {"enter", "startup"} => request = "none" /\ payload = 1
  /\ pc = "startup" => tsrm
  /\ pc \notin {"enter", "startup", "free", "returned"} =>
       request = "up" /\ tsrm /\ payload = 1
  /\ pc = "free" => request = "down" /\ tsrm /\ payload = 1
  /\ pc = "returned" =>
       \/ request = "down" /\ ~tsrm /\ payload = 0
       \/ request = "none" /\ ~ok /\ ~result /\ error = "made"

IInv == TypeOK /\ DecidedInv /\ RecordedInv /\ OwnedInv

-----------------------------------------------------------------------------
\* The strengthening holds in the initial state.
LEMMA InitIInv == Init => IInv
  BY DEF Init, IInv, TypeOK, Stage, DecidedInv, RecordedInv, OwnedInv,
         Undecided, Preparing

\* The calls into the engine before the decision, and after it.
EngineCall == args \/ compile \/ execute \/ factory \/ call
LateCall == release \/ unwind

Flags == captured \in BOOLEAN /\ pending \in BOOLEAN /\ threw \in BOOLEAN

\* User code that raises, and is not caught elsewhere, leaves an exception to be seen and takes none away.
LEMMA RaisesFlags ==
  ASSUME Flags, Raises
  PROVE  /\ captured' \in BOOLEAN /\ pending' \in BOOLEAN
         /\ captured => captured'
         /\ pending => pending'
         /\ captured' \/ pending'
<1>1. captured' = captured \/ captured' = TRUE
  BY DEF Raises
<1>2. pending' = pending \/ pending' = TRUE
  BY DEF Raises
<1>3. captured' \/ pending'
  BY DEF Raises
<1> QED BY <1>1, <1>2, <1>3, Zenon DEF Flags

\* So does a call into the engine, whether or not its user code raises.
LEMMA EffectFlags ==
  ASSUME Flags, Effect
  PROVE  /\ captured' \in BOOLEAN /\ pending' \in BOOLEAN /\ threw' \in BOOLEAN
         /\ captured => captured'
         /\ pending => pending'
         /\ threw' => threw \/ captured' \/ pending'
<1>1. CASE UNCHANGED <<captured, pending, threw>>
  BY <1>1, Zenon DEF Flags
<1>2. CASE Raises /\ threw' = TRUE
  BY <1>2, RaisesFlags, Zenon
<1> QED BY <1>1, <1>2, Zenon DEF Effect

\* A call before the decision goes on to the next stage or bails out.
LEMMA EngineCallStep ==
  ASSUME EngineCall
  PROVE  /\ Effect /\ UNCHANGED <<input, task, owned>>
         /\ pc \in Preparing
         /\ \/ pc' \in Preparing \ {"install"} /\ bailed' = bailed
            \/ pc' = "catch" /\ bailed' = "body"
         /\ handled' = handled
<1>1. CASE args BY <1>1 DEF args, OrBail, Preparing
<1>2. CASE compile BY <1>2 DEF compile, OrBail, Preparing
<1>3. CASE execute BY <1>3 DEF execute, OrBail, Preparing
<1>4. CASE factory BY <1>4 DEF factory, OrBail, Preparing
<1>5. CASE call BY <1>5 DEF call, OrBail, Preparing
<1> QED BY <1>1, <1>2, <1>3, <1>4, <1>5 DEF EngineCall

\* The releases after the decision change nothing that was decided.
LEMMA LateCallStep ==
  ASSUME LateCall, Flags
  PROVE  /\ captured' \in BOOLEAN /\ pending' \in BOOLEAN
         /\ UNCHANGED <<input, task, owned, threw, handled>>
         /\ pc \in {"release", "unwind"}
         /\ \/ pc' = "shutdown" /\ bailed' = bailed
            \/ pc' = "catch" /\ bailed' = "body"
<1>1. LateEffect
  BY DEF LateCall, release, unwind
<1>2. threw' = threw
  BY <1>1, Zenon DEF LateEffect
<1>3. captured' \in BOOLEAN /\ pending' \in BOOLEAN
  <2>1. CASE UNCHANGED engine
    BY <2>1, Zenon DEF engine, Flags
  <2>2. CASE Raises
    BY <2>2, RaisesFlags, Zenon
  <2> QED BY <1>1, <2>1, <2>2, Zenon DEF LateEffect
<1>4. CASE release BY <1>2, <1>3, <1>4 DEF release, OrBail
<1>5. CASE unwind BY <1>2, <1>3, <1>5 DEF unwind, OrBail
<1> QED BY <1>4, <1>5 DEF LateCall

\* The end of the worker gives up the payload it still has.
LEMMA FreeStep ==
  ASSUME free, OwnedInv
  PROVE  /\ pc = "free" /\ pc' = "returned" /\ tsrm' = FALSE /\ payload' = 0
         /\ UNCHANGED <<ok, result, error, request, threw, handled, bailed>>
         /\ UNCHANGED <<input, task, engine, request, hist>>
<1>1. payload' = 0
  <2>1. payload = 1
    BY DEF free, OwnedInv
  <2> QED BY <2>1 DEF free
<1>2. pc = "free" /\ pc' = "returned" /\ tsrm' = FALSE
  BY DEF free
<1>3. UNCHANGED <<input, task, engine, request, hist>>
  BY DEF free
<1> QED BY <1>1, <1>2, <1>3 DEF task, hist

\* A step keeps the types.
LEMMA NextType == TypeOK /\ OwnedInv /\ [Next]_vars => TypeOK'
<1> SUFFICES ASSUME TypeOK /\ OwnedInv, [Next]_vars PROVE TypeOK'
  OBVIOUS
<1> USE DEF TypeOK, Stage, Preparing, OwnedInv, input, task, engine, owned,
            hist
<1>1. CASE enter BY <1>1 DEF enter
<1>2. CASE startup BY <1>2 DEF startup
<1>3. CASE run_bootstrap BY <1>3 DEF run_bootstrap
<1>4. CASE bootstrap_threw BY <1>4 DEF bootstrap_threw
<1>5. CASE bootstrap_passed BY <1>5 DEF bootstrap_passed, Go
<1>6. CASE install BY <1>6 DEF install
<1>7. CASE EngineCall BY <1>7, EngineCallStep, EffectFlags DEF Flags
<1>8. CASE compile_failed BY <1>8 DEF compile_failed, Fail, Report
<1>9. CASE execute_failed BY <1>9 DEF execute_failed, Fail, Report
<1>10. CASE factory_failed BY <1>10 DEF factory_failed, Fail, Report
<1>11. CASE call_failed BY <1>11 DEF call_failed, Fail, Report
<1>12. CASE compile_passed \/ execute_passed \/ factory_passed
  BY <1>12 DEF compile_passed, execute_passed, factory_passed, Go
<1>13. CASE call_threw BY <1>13 DEF call_threw, Raised, Report
<1>14. CASE call_returned BY <1>14 DEF call_returned, Raised
<1>15. CASE convert BY ZenonT(60), <1>15 DEF convert, Raises, OrBail
<1>16. CASE LateCall BY <1>16, LateCallStep DEF Flags
<1>17. CASE catch BY <1>17 DEF catch
<1>18. CASE shutdown BY ZenonT(60), <1>18 DEF shutdown, LateEffect, Raises
<1>19. CASE free
  <2>1. OwnedInv
    OBVIOUS
  <2> HIDE DEF OwnedInv
  <2> QED BY <1>19, <2>1, FreeStep
<1>20. CASE UNCHANGED vars BY <1>20 DEF vars
<1> QED
  BY <1>1, <1>2, <1>3, <1>4, <1>5, <1>6, <1>7, <1>8, <1>9, <1>10, <1>11,
     <1>12, <1>13, <1>14, <1>15, <1>16, <1>17, <1>18, <1>19, <1>20
     DEF Next, EngineCall, LateCall

\* A step keeps what the task holds.
LEMMA NextDecided ==
  TypeOK /\ DecidedInv /\ OwnedInv /\ [Next]_vars => DecidedInv'
<1> SUFFICES ASSUME TypeOK /\ DecidedInv /\ OwnedInv, [Next]_vars
             PROVE  DecidedInv'
  OBVIOUS
<1> USE DEF TypeOK, DecidedInv, Undecided, Preparing, OwnedInv, input, task,
            engine, owned, hist
<1>1. CASE enter BY <1>1 DEF enter
<1>2. CASE startup BY <1>2 DEF startup
<1>3. CASE run_bootstrap BY <1>3 DEF run_bootstrap
<1>4. CASE bootstrap_threw BY <1>4 DEF bootstrap_threw
<1>5. CASE bootstrap_passed BY <1>5 DEF bootstrap_passed, Go
<1>6. CASE install BY <1>6 DEF install
<1>7. CASE EngineCall BY <1>7, EngineCallStep, EffectFlags DEF Flags
<1>8. CASE compile_failed BY <1>8 DEF compile_failed, Fail, Report
<1>9. CASE execute_failed BY <1>9 DEF execute_failed, Fail, Report
<1>10. CASE factory_failed BY <1>10 DEF factory_failed, Fail, Report
<1>11. CASE call_failed BY <1>11 DEF call_failed, Fail, Report
<1>12. CASE compile_passed \/ execute_passed \/ factory_passed
  BY <1>12 DEF compile_passed, execute_passed, factory_passed, Go
<1>13. CASE call_threw BY <1>13 DEF call_threw, Raised, Report
<1>14. CASE call_returned BY <1>14 DEF call_returned, Raised
<1>15. CASE convert BY <1>15 DEF convert, Raises, OrBail
<1>16. CASE LateCall BY <1>16, LateCallStep DEF Flags
<1>17. CASE catch BY <1>17 DEF catch
<1>18. CASE shutdown BY <1>18 DEF shutdown, LateEffect, Raises
<1>19. CASE free
  <2>1. OwnedInv
    OBVIOUS
  <2> HIDE DEF OwnedInv
  <2> QED BY <1>19, <2>1, FreeStep
<1>20. CASE UNCHANGED vars BY <1>20 DEF vars
<1> QED
  BY <1>1, <1>2, <1>3, <1>4, <1>5, <1>6, <1>7, <1>8, <1>9, <1>10, <1>11,
     <1>12, <1>13, <1>14, <1>15, <1>16, <1>17, <1>18, <1>19, <1>20
     DEF Next, EngineCall, LateCall

\* A step keeps an exception visible.
LEMMA NextRecorded ==
  TypeOK /\ DecidedInv /\ RecordedInv /\ OwnedInv /\ [Next]_vars => RecordedInv'
<1> SUFFICES ASSUME TypeOK /\ DecidedInv /\ RecordedInv /\ OwnedInv, [Next]_vars
             PROVE  RecordedInv'
  OBVIOUS
<1> USE DEF TypeOK, OwnedInv, DecidedInv, RecordedInv, Undecided, Preparing,
            input, task, engine, owned, hist
<1>1. CASE enter BY <1>1 DEF enter
<1>2. CASE startup BY <1>2 DEF startup
<1>3. CASE run_bootstrap BY <1>3 DEF run_bootstrap
<1>4. CASE bootstrap_threw BY <1>4 DEF bootstrap_threw
<1>5. CASE bootstrap_passed BY <1>5 DEF bootstrap_passed, Go
<1>6. CASE install BY <1>6 DEF install
<1>7. CASE EngineCall BY <1>7, EngineCallStep, EffectFlags DEF Flags
<1>8. CASE compile_failed BY <1>8 DEF compile_failed, Fail, Report
<1>9. CASE execute_failed BY <1>9 DEF execute_failed, Fail, Report
<1>10. CASE factory_failed BY <1>10 DEF factory_failed, Fail, Report
<1>11. CASE call_failed BY <1>11 DEF call_failed, Fail, Report
<1>12. CASE compile_passed \/ execute_passed \/ factory_passed
  BY <1>12 DEF compile_passed, execute_passed, factory_passed, Go
<1>13. CASE call_threw BY <1>13 DEF call_threw, Raised, Report
<1>14. CASE call_returned BY <1>14 DEF call_returned, Raised
<1>15. CASE convert BY <1>15 DEF convert, Raises, OrBail
<1>16. CASE LateCall BY <1>16, LateCallStep DEF Flags
<1>17. CASE catch BY <1>17 DEF catch
<1>18. CASE shutdown BY <1>18 DEF shutdown, LateEffect, Raises
<1>19. CASE free
  <2>1. OwnedInv
    OBVIOUS
  <2> HIDE DEF OwnedInv
  <2> QED BY <1>19, <2>1, FreeStep
<1>20. CASE UNCHANGED vars BY <1>20 DEF vars
<1> QED
  BY <1>1, <1>2, <1>3, <1>4, <1>5, <1>6, <1>7, <1>8, <1>9, <1>10, <1>11,
     <1>12, <1>13, <1>14, <1>15, <1>16, <1>17, <1>18, <1>19, <1>20
     DEF Next, EngineCall, LateCall

\* A step keeps what the thread owns.
LEMMA NextOwned == TypeOK /\ DecidedInv /\ OwnedInv /\ [Next]_vars => OwnedInv'
<1> SUFFICES ASSUME TypeOK /\ DecidedInv /\ OwnedInv, [Next]_vars PROVE OwnedInv'
  OBVIOUS
<1> USE DEF TypeOK, DecidedInv, Undecided, Preparing, OwnedInv, input, task,
            engine, owned, hist
<1>1. CASE enter BY <1>1 DEF enter
<1>2. CASE startup BY <1>2 DEF startup
<1>3. CASE run_bootstrap BY <1>3 DEF run_bootstrap
<1>4. CASE bootstrap_threw BY <1>4 DEF bootstrap_threw
<1>5. CASE bootstrap_passed BY <1>5 DEF bootstrap_passed, Go
<1>6. CASE install BY <1>6 DEF install
<1>7. CASE EngineCall BY <1>7, EngineCallStep, EffectFlags DEF Flags
<1>8. CASE compile_failed BY <1>8 DEF compile_failed, Fail, Report
<1>9. CASE execute_failed BY <1>9 DEF execute_failed, Fail, Report
<1>10. CASE factory_failed BY <1>10 DEF factory_failed, Fail, Report
<1>11. CASE call_failed BY <1>11 DEF call_failed, Fail, Report
<1>12. CASE compile_passed \/ execute_passed \/ factory_passed
  BY <1>12 DEF compile_passed, execute_passed, factory_passed, Go
<1>13. CASE call_threw BY <1>13 DEF call_threw, Raised, Report
<1>14. CASE call_returned BY <1>14 DEF call_returned, Raised
<1>15. CASE convert BY <1>15 DEF convert, Raises, OrBail
<1>16. CASE LateCall BY <1>16, LateCallStep DEF Flags
<1>17. CASE catch BY <1>17 DEF catch
<1>18. CASE shutdown BY <1>18 DEF shutdown, LateEffect, Raises
<1>19. CASE free BY <1>19, FreeStep
<1>20. CASE UNCHANGED vars BY <1>20 DEF vars
<1> QED
  BY <1>1, <1>2, <1>3, <1>4, <1>5, <1>6, <1>7, <1>8, <1>9, <1>10, <1>11,
     <1>12, <1>13, <1>14, <1>15, <1>16, <1>17, <1>18, <1>19, <1>20
     DEF Next, EngineCall, LateCall

\* Every step of the worker keeps the strengthening.
LEMMA NextIInv == IInv /\ [Next]_vars => IInv'
  BY NextType, NextDecided, NextRecorded, NextOwned DEF IInv

\* The strengthening holds in every reachable state.
THEOREM Inductive == Spec => []IInv
  BY InitIInv, NextIInv, PTL DEF Spec

\* Type correctness of the worker.
THEOREM TypeCorrect == Spec => []TypeOK
<1>1. IInv => TypeOK
  BY DEF IInv
<1> QED BY Inductive, <1>1, PTL

\* On every return path, and wherever the engine bails out, the task holds a
\* success without an error or a failure with one, and nothing ran before a
\* payload is left behind.
THEOREM ContractHonoured == Spec => []HonoursContract
<1>1. IInv => HonoursContract
  <2> SUFFICES ASSUME IInv, pc = "returned" PROVE TaskOutput \in RunnerOutcome
    BY DEF HonoursContract
  <2> USE DEF IInv, TypeOK, DecidedInv, OwnedInv
  <2>1. TaskOutput \in TaskFields
    BY DEF TaskOutput, TaskFields
  <2>2. TaskOutput.ok <=> ~TaskOutput.error
    BY DEF TaskOutput
  <2>3. TaskOutput.payload => ~TaskOutput.ok /\ ~TaskOutput.result
    BY DEF TaskOutput
  <2> QED BY <2>1, <2>2, <2>3 DEF RunnerOutcome
<1> QED BY Inductive, <1>1, PTL

\* An exception left to the worker before the task is decided, recorded by the
\* trampoline or pending, is the task's error unless a bailout takes its place.
THEOREM RecordedExceptionReported == Spec => []RecordedIsReported
<1>1. IInv => RecordedIsReported
  BY DEF IInv, RecordedInv, RecordedIsReported
<1> QED BY Inductive, <1>1, PTL

\* On every return path the request, the TSRM storage and the payload are
\* given up once each, in that order.
THEOREM CleanedUp == Spec => []CleanupBalanced
<1>1. IInv => CleanupBalanced
  BY DEF IInv, OwnedInv, CleanupBalanced
<1> QED BY Inductive, <1>1, PTL

\* The worker's steps are, for the thread that calls it, one step that fills
\* in the task as the contract allows: the safety half of ImplementsRunner.
THEOREM RunnerRefined ==
  Spec => AsRunner!Init /\ [][AsRunner!Return]_(AsRunner!runnerVars)
<1>1. Init => AsRunner!Init
  BY DEF Init, AsRunner!Init, AsRunner!Blank, Blank
<1>2. IInv /\ IInv' /\ [Next]_vars
        => [AsRunner!Return]_(AsRunner!runnerVars)
  <2> SUFFICES ASSUME IInv, IInv', [Next]_vars
               PROVE  AsRunner!Return \/ UNCHANGED AsRunner!runnerVars
    OBVIOUS
  <2>1. CASE pc = "returned"
    <3>1. UNCHANGED vars
      BY <2>1 DEF Next, enter, startup, run_bootstrap, bootstrap_threw,
         bootstrap_passed, install, args, compile, compile_failed,
         compile_passed, execute, execute_failed, execute_passed, factory,
         factory_failed, factory_passed, call, call_threw, call_failed,
         call_returned, convert, release, unwind, catch, shutdown, free
    <3> QED BY <3>1 DEF vars, task, owned, AsRunner!runnerVars, TaskOutput
  <2>2. CASE pc # "returned" /\ pc' # "returned"
    BY <2>2 DEF AsRunner!runnerVars
  <2>3. CASE pc # "returned" /\ pc' = "returned"
    <3>1. TaskOutput' \in RunnerOutcome
      <4> USE <2>3 DEF IInv, TypeOK, DecidedInv, OwnedInv
      <4>1. TaskOutput' \in TaskFields
        BY DEF TaskOutput, TaskFields
      <4>2. (TaskOutput.ok)' <=> ~(TaskOutput.error)'
        BY DEF TaskOutput
      <4>3. (TaskOutput.payload)' => ~(TaskOutput.ok)' /\ ~(TaskOutput.result)'
        BY DEF TaskOutput
      <4> QED BY <4>1, <4>2, <4>3 DEF RunnerOutcome
    <3> QED BY <2>3, <3>1 DEF AsRunner!Return, RunnerOutcome, TaskFields,
                              AsRunner!RunnerOutcome, AsRunner!TaskFields
  <2> QED BY <2>1, <2>2, <2>3
<1> QED BY Inductive, <1>1, <1>2, PTL DEF Spec
=============================================================================
