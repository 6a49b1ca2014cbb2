------------------------------ MODULE WaitGroup ------------------------------
(***************************************************************************)
(* core/waitgroup.c: one caller thread and one POSIX thread per task, with  *)
(* the mutex, the condition variable, the counter and the task array they   *)
(* share.  Steps between two accesses to shared state are atomic; a         *)
(* critical section is split wherever another thread could see the          *)
(* difference if the mutex did not exclude it.  A counter update by a       *)
(* worker is a load and a store, so that only the mutex makes it exact.     *)
(***************************************************************************)
EXTENDS Integers, FiniteSets

CONSTANTS MaxTasks,   \* bound on the tasks of one group
          FirstCap,   \* first capacity of the task array (8 in the code)
          Outcome,    \* what a runner may leave in a task (ok, result, error)
          Blank       \* the zeroed output of a calloc'd task

ASSUME WGAssumption == /\ MaxTasks \in Nat
                       /\ FirstCap \in Nat \ {0}
                       /\ Blank \notin Outcome

Slot == 0 .. MaxTasks - 1
Main == -1            \* the caller's identity as owner of the mutex
NoOne == -2           \* the mutex is free

VARIABLES
  alive,      \* the group is allocated
  lock,       \* owner of wg->lock
  remaining,  \* wg->remaining
  count,      \* wg->count
  cap,        \* wg->cap
  joinable,   \* joinable[s]: tasks[s]->thread_joinable
  output,     \* output[s]: ok, result and error of tasks[s]
  thread,     \* thread[s]: where the thread of slot s is in worker_thread
  loaded,     \* loaded[s]: that thread's register in --wg->remaining
  pc,         \* where the caller is
  cursor,     \* i of the loops of wg_wait and wg_destroy
  settled     \* history: slots covered by the last wg_wait that returned

group == <<alive, lock, remaining, count, cap>>
tasks == <<joinable, output, thread, loaded>>
call  == <<pc, cursor, settled>>
vars  == <<group, tasks, call>>

Signalling == {"signal_lock", "signal_load", "signal_store"}
Working == {"run"} \cup Signalling           \* not yet taken off remaining
Active == Working \cup {"signal_unlock"}     \* still to touch wg or its task
ThreadState == Active \cup {"none", "exited", "joined"}
CallState == {"ready", "go_lock", "go_create", "go_undo", "wait_lock",
              "wait_test", "wait_cond", "wait_wake", "wait_join", "destroy"}

Init ==
  /\ alive = FALSE /\ lock = NoOne /\ remaining = 0 /\ count = 0 /\ cap = 0
  /\ joinable = [s \in Slot |-> FALSE]
  /\ output = [s \in Slot |-> Blank]
  /\ thread = [s \in Slot |-> "none"]
  /\ loaded = [s \in Slot |-> 0]
  /\ pc = "ready" /\ cursor = 0 /\ settled = 0

-----------------------------------------------------------------------------
\* The caller.

wg_create ==
  /\ pc = "ready" /\ ~alive
  /\ alive' = TRUE
  /\ lock' = NoOne /\ remaining' = 0 /\ count' = 0 /\ cap' = 0
  /\ joinable' = [s \in Slot |-> FALSE]
  /\ output' = [s \in Slot |-> Blank]
  /\ thread' = [s \in Slot |-> "none"]
  /\ loaded' = [s \in Slot |-> 0]
  /\ UNCHANGED call

wg_go ==
  /\ pc = "ready" /\ alive /\ count < MaxTasks
  /\ pc' = "go_lock"
  /\ UNCHANGED <<group, tasks, cursor, settled>>

\* Mutants, here and below: a plausible slip in the definition that follows.
\* The specification uses none of them.
grow_doubles == cap * 2

grow == IF cap = 0 THEN FirstCap ELSE cap * 2

\* The first critical section of wg_go, which takes and releases the mutex.
wg_go_register ==
  /\ pc = "go_lock" /\ lock = NoOne
  /\ cap' = IF count = cap THEN grow ELSE cap
  /\ count' = count + 1
  /\ remaining' = remaining + 1
  /\ pc' = "go_create"
  /\ UNCHANGED <<alive, lock, tasks, cursor, settled>>

\* Mutant: the slot is taken from the tasks still running.
task_slot_of_remaining == remaining - 1

task_slot == count - 1     \* task->slot of the wg_go call under way

\* pthread_create: the thread starts, or the call is refused.  The flag is set
\* after the thread has started, but no one except the caller reads it.
wg_go_started ==
  /\ pc = "go_create"
  /\ thread' = [thread EXCEPT ![task_slot] = "run"]
  /\ joinable' = [joinable EXCEPT ![task_slot] = TRUE]
  /\ pc' = "ready"
  /\ UNCHANGED <<group, output, loaded, cursor, settled>>

\* Mutant: the failure path forgets the counter.
wg_go_refused_returns ==
  /\ pc = "go_create" /\ pc' = "ready"
  /\ UNCHANGED <<group, tasks, cursor, settled>>

wg_go_refused ==
  /\ pc = "go_create" /\ pc' = "go_undo"
  /\ UNCHANGED <<group, tasks, cursor, settled>>

\* Mutant: the failure path decrements without the mutex.
wg_go_undo_unlocked ==
  /\ pc = "go_undo"
  /\ remaining' = remaining - 1
  /\ pc' = "ready"
  /\ UNCHANGED <<alive, lock, count, cap, tasks, cursor, settled>>

wg_go_undo ==
  /\ pc = "go_undo" /\ lock = NoOne
  /\ remaining' = remaining - 1       \* and no broadcast
  /\ pc' = "ready"
  /\ UNCHANGED <<alive, lock, count, cap, tasks, cursor, settled>>

wg_wait ==
  /\ pc = "ready" /\ alive
  /\ pc' = "wait_lock"
  /\ UNCHANGED <<group, tasks, cursor, settled>>

\* pthread_mutex_lock, on entry and again inside pthread_cond_wait on waking.
wg_wait_lock ==
  /\ pc \in {"wait_lock", "wait_wake"} /\ lock = NoOne
  /\ lock' = Main /\ pc' = "wait_test"
  /\ UNCHANGED <<alive, remaining, count, cap, tasks, cursor, settled>>

\* while (remaining > 0) pthread_cond_wait: releases the mutex and sleeps.
wg_wait_sleep ==
  /\ pc = "wait_test" /\ remaining > 0
  /\ lock' = NoOne /\ pc' = "wait_cond"
  /\ UNCHANGED <<alive, remaining, count, cap, tasks, cursor, settled>>

wg_wait_unlock ==
  /\ pc = "wait_test" /\ ~(remaining > 0)
  /\ lock' = NoOne /\ pc' = "wait_join" /\ cursor' = 0
  /\ UNCHANGED <<alive, remaining, count, cap, tasks, settled>>

\* pthread_cond_wait may return without a signal.
spurious_wakeup ==
  /\ pc = "wait_cond" /\ pc' = "wait_wake"
  /\ UNCHANGED <<group, tasks, cursor, settled>>

\* Mutant: thread_joinable stays set after the join.
wg_wait_join_keeps_flag ==
  /\ pc = "wait_join" /\ cursor < count
  /\ joinable[cursor] => thread[cursor] = "exited"
  /\ thread' = [thread EXCEPT ![cursor] =
                  IF joinable[cursor] THEN "joined" ELSE @]
  /\ cursor' = cursor + 1
  /\ UNCHANGED <<group, joinable, output, loaded, pc, settled>>

\* One turn of the join loop; pthread_join blocks until the thread exits.
wg_wait_join ==
  /\ pc = "wait_join" /\ cursor < count
  /\ joinable[cursor] => thread[cursor] = "exited"
  /\ thread' = [thread EXCEPT ![cursor] =
                  IF joinable[cursor] THEN "joined" ELSE @]
  /\ joinable' = [joinable EXCEPT ![cursor] = FALSE]
  /\ cursor' = cursor + 1
  /\ UNCHANGED <<group, output, loaded, pc, settled>>

\* Mutant: the join loop stops one slot short.
wg_wait_return_early ==
  /\ pc = "wait_join" /\ cursor + 1 >= count
  /\ pc' = "ready" /\ settled' = count
  /\ UNCHANGED <<group, tasks, cursor>>

wg_wait_return ==
  /\ pc = "wait_join" /\ cursor = count
  /\ pc' = "ready" /\ settled' = count
  /\ UNCHANGED <<group, tasks, cursor>>

wg_destroy ==
  /\ pc = "ready" /\ alive
  /\ pc' = "destroy" /\ cursor' = 0 /\ settled' = 0
  /\ UNCHANGED <<group, tasks>>

\* Mutant: the task is freed without joining its thread.
wg_destroy_task_unjoined ==
  /\ pc = "destroy" /\ cursor < count
  /\ cursor' = cursor + 1
  /\ UNCHANGED <<group, tasks, pc, settled>>

\* One turn of the loop of wg_destroy: join, then free the task.
wg_destroy_task ==
  /\ pc = "destroy" /\ cursor < count
  /\ joinable[cursor] => thread[cursor] = "exited"
  /\ thread' = [thread EXCEPT ![cursor] =
                  IF joinable[cursor] THEN "joined" ELSE @]
  /\ cursor' = cursor + 1
  /\ UNCHANGED <<group, joinable, output, loaded, pc, settled>>

\* The array, the mutex, the condition variable and the group are freed.
wg_destroy_free ==
  /\ pc = "destroy" /\ cursor = count
  /\ alive' = FALSE /\ count' = 0 /\ pc' = "ready"
  /\ UNCHANGED <<lock, remaining, cap, tasks, cursor, settled>>

-----------------------------------------------------------------------------
\* worker_thread of slot s: the runner, then wg_signal_done.

runner(s) ==
  /\ thread[s] = "run"
  /\ \E o \in Outcome : output' = [output EXCEPT ![s] = o]
  /\ thread' = [thread EXCEPT ![s] = "signal_lock"]
  /\ UNCHANGED <<group, joinable, loaded, call>>

signal_lock(s) ==
  /\ thread[s] = "signal_lock" /\ lock = NoOne
  /\ lock' = s
  /\ thread' = [thread EXCEPT ![s] = "signal_load"]
  /\ UNCHANGED <<alive, remaining, count, cap, joinable, output, loaded, call>>

signal_load(s) ==
  /\ thread[s] = "signal_load"
  /\ loaded' = [loaded EXCEPT ![s] = remaining - 1]
  /\ thread' = [thread EXCEPT ![s] = "signal_store"]
  /\ UNCHANGED <<group, joinable, output, call>>

\* Mutant: nobody is woken.
Broadcast_dropped == pc' = pc

\* pthread_cond_broadcast, when the counter just stored is zero.
Broadcast == pc' = IF pc = "wait_cond" THEN "wait_wake" ELSE pc

signal_store(s) ==
  /\ thread[s] = "signal_store"
  /\ remaining' = loaded[s]
  /\ IF loaded[s] = 0 THEN Broadcast ELSE pc' = pc
  /\ thread' = [thread EXCEPT ![s] = "signal_unlock"]
  /\ UNCHANGED <<alive, lock, count, cap, joinable, output, loaded,
                 cursor, settled>>

signal_unlock(s) ==
  /\ thread[s] = "signal_unlock"
  /\ lock' = NoOne
  /\ thread' = [thread EXCEPT ![s] = "exited"]
  /\ UNCHANGED <<alive, remaining, count, cap, joinable, output, loaded, call>>

-----------------------------------------------------------------------------
wg_signal_done(s) == signal_load(s) \/ signal_store(s) \/ signal_unlock(s)

\* The caller inside a call; starting one is its own choice.
Call == \/ wg_go_register \/ wg_go_started \/ wg_go_refused \/ wg_go_undo
        \/ wg_wait_lock \/ wg_wait_sleep \/ wg_wait_unlock
        \/ wg_wait_join \/ wg_wait_return
        \/ wg_destroy_task \/ wg_destroy_free

Begin == wg_create \/ wg_go \/ wg_wait \/ wg_destroy

Worker(s) == runner(s) \/ signal_lock(s) \/ wg_signal_done(s)

Next == \/ Begin \/ Call \/ spurious_wakeup
        \/ \E s \in Slot : Worker(s)

\* Runners return (an assumption on user code); the scheduler runs every
\* thread; a thread that keeps finding the mutex free from time to time gets
\* it, however often the waiter wakes without cause.
Fairness == /\ WF_vars(Call)
            /\ \A s \in Slot : /\ WF_vars(runner(s))
                               /\ SF_vars(signal_lock(s))
                               /\ WF_vars(wg_signal_done(s))

Spec == Init /\ [][Next]_vars /\ Fairness

-----------------------------------------------------------------------------
\* The types, with the array never smaller than the slots handed out.
TypeOK ==
  /\ alive \in BOOLEAN
  /\ lock \in Slot \cup {Main, NoOne}
  /\ remaining \in Int
  /\ cap \in Nat /\ count \in 0 .. MaxTasks /\ count <= cap
  /\ joinable \in [Slot -> BOOLEAN]
  /\ output \in [Slot -> Outcome \cup {Blank}]
  /\ thread \in [Slot -> ThreadState]
  /\ loaded \in [Slot -> Int]
  /\ pc \in CallState
  /\ cursor \in Nat
  /\ settled \in 0 .. MaxTasks

\* The tasks wg_wait still has to wait for: threads that have not stored
\* their decrement, and the slot a wg_go under way has registered.
Registering == IF pc \in {"go_create", "go_undo"} THEN {task_slot} ELSE {}
Outstanding == {s \in Slot : thread[s] \in Working} \cup Registering

\* The counter is exact at every instant, even between the load and the
\* store of a decrement and between a registration and its undoing: no
\* update by wg_go, its failure path or wg_signal_done is ever lost.
RemainingExact == remaining = Cardinality(Outstanding)

\* wg_destroy frees a task, and at last the group, only after the thread that
\* uses them has made its last access (runner, mutex, counter, broadcast).
Freed(s) == pc = "destroy" /\ s < cursor
NoUseAfterFree == \A s \in Slot : thread[s] \in Active => alive /\ ~Freed(s)

\* No lost wakeup: while wg_wait sleeps on the condition variable, some
\* thread has still to store a decrement, so a broadcast is still to come.
SleeperHasWaker == pc = "wait_cond" =>
                     \E s \in Slot : thread[s] \in Working

\* After wg_wait returns every slot it covers is over for good: its thread is
\* joined and has left an outcome, or was never started; and nothing is left
\* for a later wg_wait or wg_destroy to join a second time.
SettledComplete ==
  \A s \in Slot : s < settled =>
    /\ ~joinable[s]
    /\ \/ thread[s] = "joined" /\ output[s] \in Outcome
       \/ thread[s] = "none" /\ output[s] = Blank

\* What wg_get shows after wg_wait never changes again until the group is
\* destroyed, whatever is spawned and waited for in between.
SettledStable ==
  [][ \A s \in Slot : (s < settled /\ settled' # 0) =>
        output'[s] = output[s] /\ thread'[s] = thread[s] ]_vars

\* Every wg_go, wg_wait and wg_destroy returns once its runners return.
EveryCallReturns == pc # "ready" ~> pc = "ready"

-----------------------------------------------------------------------------
\* The mapping to the promises of waitgroup.h.  A wg_go takes effect when
\* pthread_create answers; a task has ended when its thread has let go of
\* the mutex.
apiSize == IF pc \in {"go_create", "go_undo"} THEN count - 1 ELSE count

apiStatus == [s \in Slot |->
  IF s >= apiSize THEN "unused"
  ELSE IF thread[s] = "none" THEN "unstarted"
  ELSE IF thread[s] \in Active THEN "running" ELSE "ended"]

apiOutcome == [s \in Slot |->
  IF apiStatus[s] = "ended" THEN output[s] ELSE Blank]

apiCaller ==
  IF pc \in {"wait_lock", "wait_test", "wait_cond", "wait_wake", "wait_join"}
  THEN "waiting" ELSE IF pc = "destroy" THEN "destroying" ELSE "ready"

API == INSTANCE WaitGroupAPI WITH live <- alive, size <- apiSize,
         status <- apiStatus, outcome <- apiOutcome, caller <- apiCaller

\* waitgroup.c implements the promises of waitgroup.h: slots in spawn order,
\* one outcome per task, and no return from wg_wait or wg_destroy while a
\* task runs.
ImplementsAPI == API!Spec
=============================================================================
