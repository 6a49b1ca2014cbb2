--------------------------- MODULE WaitGroupProofs ---------------------------
(***************************************************************************)
(* The safety of WaitGroup for every number of tasks, every first capacity  *)
(* of the array and every set of outcomes.                                  *)
(*                                                                          *)
(* The properties are not inductive: that the counter is exact needs the    *)
(* decrement a thread is about to store not to be stale, which needs the    *)
(* mutex to exclude the two other writers; that nothing is freed under a    *)
(* running thread needs the flag thread_joinable to be set for exactly the  *)
(* threads not yet joined.  IInv is that strengthening.                     *)
(***************************************************************************)
EXTENDS WaitGroup, FiniteSetTheorems, TLAPS

\* The mutex: the caller holds it exactly while it tests the counter, a
\* thread exactly during the rest of wg_signal_done.
Holding == {"signal_load", "signal_store", "signal_unlock"}
LockInv == /\ pc = "wait_test" <=> lock = Main
           /\ \A s \in Slot : thread[s] \in Holding <=> lock = s

\* A decrement about to be stored is not stale.
LoadedInv == \A s \in Slot :
               thread[s] = "signal_store" => loaded[s] = remaining - 1

\* The slots of the group and their threads.  A slot beyond count is blank;
\* the slot of a wg_go under way has no thread yet; and a slot that is not
\* freed may be joined exactly if its thread has been created and not joined.
SlotInv ==
  /\ pc \in {"go_create", "go_undo"} =>
       count > 0 /\ thread[task_slot] = "none"
  /\ pc = "go_lock" => count < MaxTasks
  /\ alive => \A s \in Slot :
       /\ s >= count => thread[s] = "none"
       /\ ~Freed(s) => (joinable[s] <=> thread[s] \in Active \cup {"exited"})

\* A thread has left an outcome once it is past its runner, and not before.
OutputInv == \A s \in Slot :
               output[s] \in (IF thread[s] \in {"none", "run"}
                              THEN {Blank} ELSE Outcome)

Quiet(s) == thread[s] \in {"none", "joined"}

\* What the loops have passed, a completed wait covers, or a destroyed group
\* had, is quiet; and a wg_go under way registers a slot no wait has covered.
QuietInv ==
  /\ pc \in {"wait_join", "destroy"} =>
       cursor <= count /\ \A s \in Slot : s < cursor => Quiet(s)
  /\ settled <= count
  /\ pc \in {"go_create", "go_undo"} => settled < count
  /\ \A s \in Slot : s < settled => Quiet(s)
  /\ pc = "destroy" => settled = 0
  /\ pc # "ready" => alive
  /\ ~alive => settled = 0 /\ count = 0 /\ \A s \in Slot : Quiet(s)

\* The caller sleeps only on a counter that is not zero.
SleepInv == pc = "wait_cond" => remaining # 0

IInv == /\ TypeOK /\ RemainingExact /\ LockInv /\ LoadedInv
        /\ SlotInv /\ OutputInv /\ QuietInv /\ SleepInv

-----------------------------------------------------------------------------
\* The invariant holds in the initial state.
LEMMA InitInv == Init => IInv
<1> SUFFICES ASSUME Init PROVE IInv
  OBVIOUS
<1> USE DEF Init, Slot, ThreadState, Main, NoOne
<1>1. TypeOK
  <2> USE WGAssumption DEF WGAssumption, CallState
  <2>1. cap \in Nat /\ count \in 0 .. MaxTasks /\ count <= cap
    OBVIOUS
  <2>2. /\ joinable \in [Slot -> BOOLEAN] /\ loaded \in [Slot -> Int]
        /\ output \in [Slot -> Outcome \cup {Blank}]
        /\ thread \in [Slot -> ThreadState]
    OBVIOUS
  <2>3. /\ lock \in Slot \cup {Main, NoOne} /\ remaining \in Int
        /\ pc \in CallState /\ cursor \in Nat /\ settled \in 0 .. MaxTasks
    OBVIOUS
  <2>4. alive \in BOOLEAN
    OBVIOUS
  <2> HIDE DEF Init, Slot, ThreadState, Main, NoOne, CallState
  <2> QED BY <2>1, <2>2, <2>3, <2>4 DEF TypeOK
<1>2. RemainingExact
  <2>1. Outstanding = {}
    BY DEF Outstanding, Registering, Working, Signalling
  <2> QED BY <2>1, FS_EmptySet DEF RemainingExact
<1>3. LockInv /\ LoadedInv /\ SlotInv /\ OutputInv /\ QuietInv /\ SleepInv
  BY DEF LockInv, Holding, LoadedInv, SlotInv, OutputInv, QuietInv, Quiet,
         SleepInv
<1> QED BY <1>1, <1>2, <1>3 DEF IInv

\* A thread that moves on inside worker_thread leaves the slots as they are.
LEMMA WorkerSlot ==
  ASSUME alive, SlotInv, count \in 0 .. MaxTasks,
         NEW s \in Slot, thread[s] \in Active, thread'[s] \in Active,
         \A t \in Slot \ {s} : thread'[t] = thread[t],
         count' = count, pc' = pc, cursor' = cursor, joinable' = joinable
  PROVE  SlotInv'
<1>1. "none" \notin Active
  BY DEF Active, Working, Signalling
<1>2. ASSUME NEW t \in Slot
      PROVE  /\ t >= count => thread'[t] = "none"
             /\ ~Freed(t) => (joinable[t] <=>
                                thread'[t] \in Active \cup {"exited"})
  BY <1>1 DEF SlotInv
<1>3. pc \in {"go_create", "go_undo"} =>
        count > 0 /\ thread'[task_slot] = "none"
  <2>1. task_slot # s \/ thread[task_slot] # "none"
    BY <1>1
  <2> QED BY <2>1, WGAssumption DEF WGAssumption, SlotInv, task_slot, Slot
<1> QED BY <1>2, <1>3 DEF SlotInv, Freed, task_slot

\* Every step preserves every part of the invariant but the counter's.
LEMMA CoreStep ==
  IInv /\ [Next]_vars =>
    (TypeOK /\ LockInv /\ LoadedInv /\ SlotInv /\ OutputInv /\ QuietInv
       /\ SleepInv)'
<1> SUFFICES ASSUME IInv, [Next]_vars
             PROVE  /\ TypeOK' /\ (LockInv /\ LoadedInv /\ SleepInv)'
                    /\ (SlotInv /\ OutputInv)' /\ QuietInv'
  OBVIOUS
<1> USE WGAssumption
    DEF WGAssumption, IInv, TypeOK, LockInv, LoadedInv, SlotInv, OutputInv, QuietInv,
        SleepInv, Quiet, Freed, Holding, Working, Signalling, Active,
        ThreadState, CallState, Slot, Main, NoOne, task_slot,
        group, tasks, call
<1>1. CASE wg_create
  <2>1. TypeOK'
    BY <1>1 DEF wg_create
  <2>2. (LockInv /\ LoadedInv /\ SleepInv)'
    BY <1>1 DEF wg_create
  <2>3. (SlotInv /\ OutputInv)'
    BY <1>1 DEF wg_create
  <2>4. QuietInv'
    BY <1>1 DEF wg_create
  <2> QED BY <2>1, <2>2, <2>3, <2>4
<1>2. CASE wg_go
  <2>1. TypeOK'
    BY <1>2 DEF wg_go
  <2>2. (LockInv /\ LoadedInv /\ SleepInv)'
    BY <1>2 DEF wg_go
  <2>3. (SlotInv /\ OutputInv)'
    BY <1>2 DEF wg_go
  <2>4. QuietInv'
    BY <1>2 DEF wg_go
  <2> QED BY <2>1, <2>2, <2>3, <2>4
<1>3. CASE wg_wait
  <2>1. TypeOK'
    BY <1>3 DEF wg_wait
  <2>2. (LockInv /\ LoadedInv /\ SleepInv)'
    BY <1>3 DEF wg_wait
  <2>3. (SlotInv /\ OutputInv)'
    BY <1>3 DEF wg_wait
  <2>4. QuietInv'
    BY <1>3 DEF wg_wait
  <2> QED BY <2>1, <2>2, <2>3, <2>4
<1>4. CASE wg_destroy
  <2>1. TypeOK'
    BY <1>4 DEF wg_destroy
  <2>2. (LockInv /\ LoadedInv /\ SleepInv)'
    BY <1>4 DEF wg_destroy
  <2>3. (SlotInv /\ OutputInv)'
    BY <1>4 DEF wg_destroy
  <2>4. QuietInv'
    BY <1>4 DEF wg_destroy
  <2> QED BY <2>1, <2>2, <2>3, <2>4
<1>5. CASE wg_go_register
  <2>1. TypeOK'
    BY <1>5 DEF wg_go_register, grow
  <2>2. (LockInv /\ LoadedInv /\ SleepInv)'
    BY <1>5 DEF wg_go_register, grow
  <2>3. (SlotInv /\ OutputInv)'
    BY <1>5 DEF wg_go_register, grow
  <2>4. QuietInv'
    BY <1>5 DEF wg_go_register, grow
  <2> QED BY <2>1, <2>2, <2>3, <2>4
<1>6. CASE wg_go_started
  <2>1. TypeOK'
    BY <1>6 DEF wg_go_started
  <2>2. (LockInv /\ LoadedInv /\ SleepInv)'
    BY <1>6 DEF wg_go_started
  <2>3. (SlotInv /\ OutputInv)'
    BY <1>6 DEF wg_go_started
  <2>4. QuietInv'
    BY <1>6 DEF wg_go_started
  <2> QED BY <2>1, <2>2, <2>3, <2>4
<1>7. CASE wg_go_refused
  <2>1. TypeOK'
    BY <1>7 DEF wg_go_refused
  <2>2. (LockInv /\ LoadedInv /\ SleepInv)'
    BY <1>7 DEF wg_go_refused
  <2>3. (SlotInv /\ OutputInv)'
    BY <1>7 DEF wg_go_refused
  <2>4. QuietInv'
    BY <1>7 DEF wg_go_refused
  <2> QED BY <2>1, <2>2, <2>3, <2>4
<1>8. CASE wg_go_undo
  <2>1. TypeOK'
    BY <1>8 DEF wg_go_undo
  <2>2. (LockInv /\ LoadedInv /\ SleepInv)'
    BY <1>8 DEF wg_go_undo
  <2>3. (SlotInv /\ OutputInv)'
    BY <1>8 DEF wg_go_undo
  <2>4. QuietInv'
    BY <1>8 DEF wg_go_undo
  <2> QED BY <2>1, <2>2, <2>3, <2>4
<1>9. CASE wg_wait_lock
  <2>1. TypeOK'
    BY <1>9 DEF wg_wait_lock
  <2>2. (LockInv /\ LoadedInv /\ SleepInv)'
    BY <1>9 DEF wg_wait_lock
  <2>3. (SlotInv /\ OutputInv)'
    BY <1>9 DEF wg_wait_lock
  <2>4. QuietInv'
    BY <1>9 DEF wg_wait_lock
  <2> QED BY <2>1, <2>2, <2>3, <2>4
<1>10. CASE wg_wait_sleep
  <2>1. TypeOK'
    BY <1>10 DEF wg_wait_sleep
  <2>2. (LockInv /\ LoadedInv /\ SleepInv)'
    BY <1>10 DEF wg_wait_sleep
  <2>3. (SlotInv /\ OutputInv)'
    BY <1>10 DEF wg_wait_sleep
  <2>4. QuietInv'
    BY <1>10 DEF wg_wait_sleep
  <2> QED BY <2>1, <2>2, <2>3, <2>4
<1>11. CASE wg_wait_unlock
  <2>1. TypeOK'
    BY <1>11 DEF wg_wait_unlock
  <2>2. (LockInv /\ LoadedInv /\ SleepInv)'
    BY <1>11 DEF wg_wait_unlock
  <2>3. (SlotInv /\ OutputInv)'
    BY <1>11 DEF wg_wait_unlock
  <2>4. QuietInv'
    BY <1>11 DEF wg_wait_unlock
  <2> QED BY <2>1, <2>2, <2>3, <2>4
<1>12. CASE wg_wait_join
  <2>1. TypeOK'
    BY <1>12 DEF wg_wait_join
  <2>2. (LockInv /\ LoadedInv /\ SleepInv)'
    BY <1>12 DEF wg_wait_join
  <2>3. (SlotInv /\ OutputInv)'
    BY <1>12 DEF wg_wait_join
  <2>4. QuietInv'
    BY <1>12 DEF wg_wait_join
  <2> QED BY <2>1, <2>2, <2>3, <2>4
<1>13. CASE wg_wait_return
  <2>1. TypeOK'
    BY <1>13 DEF wg_wait_return
  <2>2. (LockInv /\ LoadedInv /\ SleepInv)'
    BY <1>13 DEF wg_wait_return
  <2>3. (SlotInv /\ OutputInv)'
    BY <1>13 DEF wg_wait_return
  <2>4. QuietInv'
    BY <1>13 DEF wg_wait_return
  <2> QED BY <2>1, <2>2, <2>3, <2>4
<1>14. CASE wg_destroy_task
  <2>1. TypeOK'
    BY <1>14 DEF wg_destroy_task
  <2>2. (LockInv /\ LoadedInv /\ SleepInv)'
    BY <1>14 DEF wg_destroy_task
  <2>3. (SlotInv /\ OutputInv)'
    BY <1>14 DEF wg_destroy_task
  <2>4. QuietInv'
    BY <1>14 DEF wg_destroy_task
  <2> QED BY <2>1, <2>2, <2>3, <2>4
<1>15. CASE wg_destroy_free
  <2>1. TypeOK'
    <3>1. cap' \in Nat /\ count' \in 0 .. MaxTasks /\ count' <= cap'
      BY <1>15 DEF wg_destroy_free
    <3>2. /\ joinable' \in [Slot -> BOOLEAN] /\ loaded' \in [Slot -> Int]
          /\ output' \in [Slot -> Outcome \cup {Blank}]
          /\ thread' \in [Slot -> ThreadState]
      BY <1>15 DEF wg_destroy_free
    <3>3. /\ lock' \in Slot \cup {Main, NoOne} /\ remaining' \in Int
          /\ alive' \in BOOLEAN /\ pc' \in CallState /\ cursor' \in Nat
          /\ settled' \in 0 .. MaxTasks
      BY <1>15 DEF wg_destroy_free
    <3> QED BY <3>1, <3>2, <3>3
  <2>2. (LockInv /\ LoadedInv /\ SleepInv)'
    BY <1>15 DEF wg_destroy_free
  <2>3. (SlotInv /\ OutputInv)'
    BY <1>15 DEF wg_destroy_free
  <2>4. QuietInv'
    BY <1>15 DEF wg_destroy_free
  <2> QED BY <2>1, <2>2, <2>3, <2>4
<1>16. CASE spurious_wakeup
  <2>1. TypeOK'
    BY <1>16 DEF spurious_wakeup
  <2>2. (LockInv /\ LoadedInv /\ SleepInv)'
    BY <1>16 DEF spurious_wakeup
  <2>3. (SlotInv /\ OutputInv)'
    BY <1>16 DEF spurious_wakeup
  <2>4. QuietInv'
    BY <1>16 DEF spurious_wakeup
  <2> QED BY <2>1, <2>2, <2>3, <2>4
<1>17. ASSUME NEW s \in Slot, runner(s)
      PROVE  TypeOK' /\ (LockInv /\ LoadedInv /\ SleepInv)'
             /\ (SlotInv /\ OutputInv)' /\ QuietInv'
  <2>0. alive
    BY <1>17 DEF runner
  <2>1. TypeOK'
    BY <1>17 DEF runner
  <2>2. (LockInv /\ LoadedInv /\ SleepInv)'
    BY <1>17 DEF runner
  <2>3. (SlotInv /\ OutputInv)'
    <3>1. SlotInv'
      <4>1. /\ thread[s] \in Active /\ thread'[s] \in Active
            /\ \A t \in Slot \ {s} : thread'[t] = thread[t]
            /\ count' = count /\ pc' = pc /\ cursor' = cursor
            /\ joinable' = joinable
        BY <1>17 DEF runner
      <4> QED BY <2>0, <4>1, WorkerSlot
    <3>2. OutputInv'
      BY <1>17 DEF runner
    <3> QED BY <3>1, <3>2
  <2>4. QuietInv'
    BY <2>0, <1>17 DEF runner
  <2> QED BY <2>1, <2>2, <2>3, <2>4
<1>18. ASSUME NEW s \in Slot, signal_lock(s)
      PROVE  TypeOK' /\ (LockInv /\ LoadedInv /\ SleepInv)'
             /\ (SlotInv /\ OutputInv)' /\ QuietInv'
  <2>0. alive
    BY <1>18 DEF signal_lock
  <2>1. TypeOK'
    BY <1>18 DEF signal_lock
  <2>2. (LockInv /\ LoadedInv /\ SleepInv)'
    BY <1>18 DEF signal_lock
  <2>3. (SlotInv /\ OutputInv)'
    <3>1. SlotInv'
      <4>1. /\ thread[s] \in Active /\ thread'[s] \in Active
            /\ \A t \in Slot \ {s} : thread'[t] = thread[t]
            /\ count' = count /\ pc' = pc /\ cursor' = cursor
            /\ joinable' = joinable
        BY <1>18 DEF signal_lock
      <4> QED BY <2>0, <4>1, WorkerSlot
    <3>2. OutputInv'
      BY <1>18 DEF signal_lock
    <3> QED BY <3>1, <3>2
  <2>4. QuietInv'
    BY <2>0, <1>18 DEF signal_lock
  <2> QED BY <2>1, <2>2, <2>3, <2>4
<1>19. ASSUME NEW s \in Slot, signal_load(s)
      PROVE  TypeOK' /\ (LockInv /\ LoadedInv /\ SleepInv)'
             /\ (SlotInv /\ OutputInv)' /\ QuietInv'
  <2>0. alive
    BY <1>19 DEF signal_load
  <2>1. TypeOK'
    BY <1>19 DEF signal_load
  <2>2. (LockInv /\ LoadedInv /\ SleepInv)'
    BY <1>19 DEF signal_load
  <2>3. (SlotInv /\ OutputInv)'
    <3>1. SlotInv'
      <4>1. /\ thread[s] \in Active /\ thread'[s] \in Active
            /\ \A t \in Slot \ {s} : thread'[t] = thread[t]
            /\ count' = count /\ pc' = pc /\ cursor' = cursor
            /\ joinable' = joinable
        BY <1>19 DEF signal_load
      <4> QED BY <2>0, <4>1, WorkerSlot
    <3>2. OutputInv'
      BY <1>19 DEF signal_load
    <3> QED BY <3>1, <3>2
  <2>4. QuietInv'
    BY <2>0, <1>19 DEF signal_load
  <2> QED BY <2>1, <2>2, <2>3, <2>4
<1>20. ASSUME NEW s \in Slot, signal_store(s)
      PROVE  TypeOK' /\ (LockInv /\ LoadedInv /\ SleepInv)'
             /\ (SlotInv /\ OutputInv)' /\ QuietInv'
  <2>0. alive
    BY <1>20 DEF signal_store
  <2>1. TypeOK'
    BY <1>20 DEF signal_store, Broadcast
  <2>2. (LockInv /\ LoadedInv /\ SleepInv)'
    BY <1>20 DEF signal_store, Broadcast
  <2>3. (SlotInv /\ OutputInv)'
    BY <2>0, <1>20 DEF signal_store, Broadcast
  <2>4. QuietInv'
    BY <2>0, <1>20 DEF signal_store, Broadcast
  <2> QED BY <2>1, <2>2, <2>3, <2>4
<1>21. ASSUME NEW s \in Slot, signal_unlock(s)
      PROVE  TypeOK' /\ (LockInv /\ LoadedInv /\ SleepInv)'
             /\ (SlotInv /\ OutputInv)' /\ QuietInv'
  <2>0. alive
    BY <1>21 DEF signal_unlock
  <2>1. TypeOK'
    BY <1>21 DEF signal_unlock
  <2>2. (LockInv /\ LoadedInv /\ SleepInv)'
    BY <1>21 DEF signal_unlock
  <2>3. (SlotInv /\ OutputInv)'
    BY <2>0, <1>21 DEF signal_unlock
  <2>4. QuietInv'
    BY <2>0, <1>21 DEF signal_unlock
  <2> QED BY <2>1, <2>2, <2>3, <2>4
<1>22. CASE UNCHANGED vars
  BY <1>22 DEF vars
<1> QED
  BY <1>1, <1>2, <1>3, <1>4, <1>5, <1>6, <1>7, <1>8, <1>9, <1>10, <1>11, 
     <1>12, <1>13, <1>14, <1>15, <1>16, <1>17, <1>18, <1>19, <1>20, <1>21, 
     <1>22
  DEF Next, Begin, Call, Worker, wg_signal_done

\* The tasks the counter counts are finitely many.
LEMMA OutstandingFinite == IInv => IsFiniteSet(Outstanding)
<1> SUFFICES ASSUME IInv PROVE IsFiniteSet(Outstanding)
  OBVIOUS
<1>1. IsFiniteSet(Slot)
  BY WGAssumption, FS_Interval DEF Slot
<1>2. Outstanding \in SUBSET Slot
  BY WGAssumption
     DEF WGAssumption, IInv, TypeOK, SlotInv, Outstanding, Registering, Slot,
         task_slot
<1> QED BY <1>1, <1>2, FS_Subset

\* No step loses or invents an update of the counter: a registration adds one
\* task to those outstanding, an undoing or the store of a decrement removes
\* one, and no other step changes either side.
LEMMA CounterStep == IInv /\ [Next]_vars => RemainingExact'
<1> SUFFICES ASSUME IInv, [Next]_vars PROVE RemainingExact'
  OBVIOUS
<1>0. /\ remaining = Cardinality(Outstanding) /\ IsFiniteSet(Outstanding)
      /\ TypeOK /\ SlotInv /\ QuietInv /\ LoadedInv
  BY OutstandingFinite DEF IInv, RemainingExact
<1>1. ASSUME Outstanding' = Outstanding, remaining' = remaining
      PROVE  RemainingExact'
  BY <1>0, <1>1 DEF RemainingExact
<1>a. ASSUME NEW x, x \notin Outstanding, Outstanding' = Outstanding \cup {x},
             remaining' = remaining + 1
      PROVE  RemainingExact'
  BY <1>0, <1>a, FS_AddElement DEF RemainingExact
<1>r. ASSUME NEW x \in Outstanding, Outstanding' = Outstanding \ {x},
             remaining' = remaining - 1
      PROVE  RemainingExact'
  BY <1>0, <1>r, FS_RemoveElement DEF RemainingExact
<1> USE WGAssumption
    DEF WGAssumption, Outstanding, Registering, Working, Signalling, Slot,
        task_slot, group, tasks, call
<1>2. CASE wg_create
  <2>1. Outstanding' = {} /\ remaining' = 0
    BY <1>2 DEF wg_create
  <2> QED BY <2>1, FS_EmptySet DEF RemainingExact
<1>3. CASE wg_go_register
  <2>1. Outstanding' = Outstanding \cup {count} /\ count \notin Outstanding
    BY <1>0, <1>3 DEF wg_go_register, TypeOK, SlotInv, QuietInv
  <2>2. remaining' = remaining + 1
    BY <1>3 DEF wg_go_register
  <2> HIDE DEF Outstanding
  <2> QED BY <2>1, <2>2, <1>a
<1>4. CASE wg_go_undo
  <2>1. /\ Outstanding' = Outstanding \ {task_slot}
        /\ task_slot \in Outstanding
    BY <1>0, <1>4 DEF wg_go_undo, TypeOK, SlotInv
  <2>2. remaining' = remaining - 1
    BY <1>4 DEF wg_go_undo
  <2> HIDE DEF Outstanding, task_slot
  <2> QED BY <2>1, <2>2, <1>r
<1>5. ASSUME NEW s \in Slot, signal_store(s) PROVE RemainingExact'
  <2>1. Outstanding' = Outstanding \ {s} /\ s \in Outstanding
    BY <1>0, <1>5 DEF signal_store, Broadcast, TypeOK, SlotInv
  <2>2. remaining' = remaining - 1
    BY <1>0, <1>5 DEF signal_store, LoadedInv
  <2> HIDE DEF Outstanding
  <2> QED BY <2>1, <2>2, <1>r
<1>6. CASE wg_go_started
  BY <1>0, <1>1, <1>6 DEF wg_go_started, TypeOK, SlotInv
<1>7. CASE wg_wait_join \/ wg_destroy_task
  <2>1. Outstanding' = Outstanding /\ remaining' = remaining
    BY <1>0, <1>7 DEF wg_wait_join, wg_destroy_task, TypeOK, SlotInv, Freed,
                      Active, QuietInv
  <2> QED BY <1>1, <2>1
<1>8. ASSUME NEW s \in Slot,
             runner(s) \/ signal_lock(s) \/ signal_load(s) \/ signal_unlock(s)
      PROVE  RemainingExact'
  <2>1. Outstanding' = Outstanding /\ remaining' = remaining
    BY <1>0, <1>8 DEF runner, signal_lock, signal_load, signal_unlock, TypeOK
  <2> QED BY <1>1, <2>1
<1>9. CASE wg_go \/ wg_wait \/ wg_destroy \/ wg_go_refused \/ wg_wait_lock
           \/ wg_wait_sleep \/ wg_wait_unlock \/ wg_wait_return
           \/ wg_destroy_free \/ spurious_wakeup \/ UNCHANGED vars
  <2>1. Outstanding' = Outstanding /\ remaining' = remaining
    BY <1>9 DEF wg_go, wg_wait, wg_destroy, wg_go_refused, wg_wait_lock,
         wg_wait_sleep, wg_wait_unlock, wg_wait_return, wg_destroy_free,
         spurious_wakeup, vars
  <2> QED BY <1>1, <2>1
<1> QED
  BY <1>2, <1>3, <1>4, <1>5, <1>6, <1>7, <1>8, <1>9
  DEF Next, Begin, Call, Worker, wg_signal_done

\* IInv is an invariant of every behaviour.
THEOREM Inductive == Spec => []IInv
<1>1. IInv /\ [Next]_vars => IInv'
  BY CoreStep, CounterStep DEF IInv
<1> QED BY InitInv, <1>1, PTL DEF Spec

-----------------------------------------------------------------------------
\* The variables keep their types, and the array always has room for the
\* slots wg_go has handed out.
THEOREM TypeCorrect == Spec => []TypeOK
<1>1. IInv => TypeOK
  BY DEF IInv
<1> QED BY Inductive, <1>1, PTL

\* wg->remaining is exact at every instant.
THEOREM CounterExact == Spec => []RemainingExact
<1>1. IInv => RemainingExact
  BY DEF IInv
<1> QED BY Inductive, <1>1, PTL

\* wg_destroy never frees the group or a task a thread has still to touch.
THEOREM FreedIsQuiet == Spec => []NoUseAfterFree
<1>1. IInv => NoUseAfterFree
  BY DEF IInv, QuietInv, Quiet, NoUseAfterFree, Freed, Active, Working,
         Signalling
<1> QED BY Inductive, <1>1, PTL

\* A sleeping wg_wait has a wakeup to come.
THEOREM NoLostWakeup == Spec => []SleeperHasWaker
<1>1. IInv => SleeperHasWaker
  <2> SUFFICES ASSUME IInv, pc = "wait_cond"
               PROVE  \E s \in Slot : thread[s] \in Working
    BY DEF SleeperHasWaker
  <2>1. Outstanding # {}
    BY FS_EmptySet DEF IInv, SleepInv, RemainingExact
  <2>2. Registering = {}
    BY DEF Registering
  <2> QED BY <2>1, <2>2 DEF Outstanding
<1> QED BY Inductive, <1>1, PTL

\* wg_wait returns with every slot it covers joined, or never started.
THEOREM WaitCompletes == Spec => []SettledComplete
<1>1. IInv => SettledComplete
  <2> SUFFICES ASSUME IInv, NEW s \in Slot, s < settled
               PROVE  /\ ~joinable[s]
                      /\ \/ thread[s] = "joined" /\ output[s] \in Outcome
                         \/ thread[s] = "none" /\ output[s] = Blank
    BY DEF SettledComplete
  <2>1. alive /\ ~Freed(s) /\ thread[s] \in {"none", "joined"}
    BY DEF IInv, TypeOK, QuietInv, Quiet, Freed, Slot
  <2>2. ~joinable[s]
    BY <2>1 DEF IInv, SlotInv, Active, Working, Signalling
  <2>3. output[s] \in (IF thread[s] \in {"none", "run"} THEN {Blank} ELSE Outcome)
    BY DEF IInv, OutputInv
  <2> QED BY <2>1, <2>2, <2>3
<1> QED BY Inductive, <1>1, PTL

\* What wg_get shows after wg_wait is final until wg_destroy.
THEOREM SettledFinal == Spec => SettledStable
<1>1. ASSUME IInv, [Next]_vars, NEW s \in Slot, s < settled, settled' # 0
      PROVE  output'[s] = output[s] /\ thread'[s] = thread[s]
  <2> USE <1>1, WGAssumption
      DEF IInv, TypeOK, QuietInv, Quiet, SlotInv, Slot, Freed, task_slot,
          Active, Working, Signalling, group, tasks, call
  <2>1. alive /\ pc # "destroy" /\ thread[s] \in {"none", "joined"}
        /\ ~joinable[s]
    OBVIOUS
  <2>2. CASE Begin
    BY <2>1, <2>2 DEF Begin, wg_create, wg_go, wg_wait, wg_destroy
  <2>3. CASE wg_go_started
    BY <2>1, <2>3 DEF wg_go_started
  <2>4. CASE wg_wait_join
    BY <2>1, <2>4 DEF wg_wait_join
  <2>5. CASE wg_go_register \/ wg_go_refused \/ wg_go_undo \/ wg_wait_lock
             \/ wg_wait_sleep \/ wg_wait_unlock \/ wg_wait_return
             \/ wg_destroy_task \/ wg_destroy_free \/ spurious_wakeup
             \/ UNCHANGED vars
    BY <2>1, <2>5
    DEF wg_go_register, wg_go_refused, wg_go_undo, wg_wait_lock,
        wg_wait_sleep, wg_wait_unlock, wg_wait_return, wg_destroy_task,
        wg_destroy_free, spurious_wakeup, vars
  <2>6. ASSUME NEW t \in Slot, Worker(t)
        PROVE  output'[s] = output[s] /\ thread'[s] = thread[s]
    BY <2>1, <2>6 DEF Worker, runner, signal_lock, wg_signal_done,
       signal_load, signal_store, signal_unlock
  <2> QED BY <2>2, <2>3, <2>4, <2>5, <2>6 DEF Next, Call
<1>2. IInv /\ [Next]_vars =>
        [ \A s \in Slot : (s < settled /\ settled' # 0) =>
            output'[s] = output[s] /\ thread'[s] = thread[s] ]_vars
  BY <1>1
<1> QED BY Inductive, <1>2, PTL DEF Spec, SettledStable

-----------------------------------------------------------------------------
\* waitgroup.c does what waitgroup.h promises: each step is a step of
\* WaitGroupAPI under the mapping of WaitGroup, or a stutter.  The invariant
\* says what the mapping needs to know of the slots.

\* The promised group is empty at first.
LEMMA InitAPI == Init => API!Init
  BY DEF Init, API!Init, apiSize, apiStatus, apiOutcome, apiCaller, Slot,
         API!Slot

\* A step that the mapping does not see.
LEMMA Stutter ==
  ASSUME apiSize \in Int, alive' = alive, settled' = settled,
         apiSize' = apiSize, apiCaller' = apiCaller,
         \A s \in Slot : s < apiSize =>
            /\ thread'[s] = "none" <=> thread[s] = "none"
            /\ thread'[s] \in Active <=> thread[s] \in Active
            /\ thread[s] \notin Active => output'[s] = output[s]
  PROVE  UNCHANGED API!api
<1>1. apiStatus' = apiStatus
  <2>1. \A s \in Slot : s >= apiSize \/ s < apiSize
    BY WGAssumption DEF WGAssumption, Slot
  <2> HIDE DEF Slot
  <2> QED BY <2>1 DEF apiStatus
<1>2. apiOutcome' = apiOutcome
  <2>1. \A s \in Slot : apiStatus[s] = "ended" => output'[s] = output[s]
    BY WGAssumption DEF WGAssumption, apiStatus, Slot
  <2> QED BY <1>1, <2>1 DEF apiOutcome
<1> QED BY <1>1, <1>2 DEF API!api

\* A step that changes the status of one slot.
LEMMA OneStatus ==
  ASSUME NEW n \in Slot, NEW new, apiStatus'[n] = new,
         \A s \in Slot \ {n} : apiStatus'[s] = apiStatus[s]
  PROVE  apiStatus' = [apiStatus EXCEPT ![n] = new]
<1>1. apiStatus' = [s \in Slot |-> apiStatus'[s]]
  BY DEF apiStatus
<1>2. apiStatus = [s \in Slot |-> apiStatus[s]]
  BY DEF apiStatus
<1> QED BY <1>1, <1>2

\* Every step of the C code is a step of the promise, or not seen there.
LEMMA StepAPI ==
  IInv /\ [Next]_vars => [API!Next]_(API!api)
<1> SUFFICES ASSUME IInv, [Next]_vars PROVE API!Next \/ UNCHANGED API!api
  OBVIOUS
<1> USE WGAssumption DEF WGAssumption, Slot
<1>t. TypeOK /\ SlotInv /\ OutputInv /\ QuietInv /\ LockInv
  BY DEF IInv
<1>n. apiSize \in Int
  BY <1>t DEF apiSize, TypeOK
<1>1. CASE wg_create
  <2>1. /\ ~alive /\ count = 0 /\ count' = 0 /\ pc = "ready" /\ pc' = "ready"
        /\ alive' /\ settled' = settled
    BY <1>t, <1>1 DEF wg_create, QuietInv, call
  <2>2. /\ apiSize = 0 /\ apiSize' = 0
        /\ apiCaller = "ready" /\ apiCaller' = "ready"
    BY <2>1 DEF apiSize, apiCaller
  <2>3. apiStatus' = apiStatus
    BY <2>2 DEF apiStatus
  <2>4. apiOutcome' = apiOutcome
    BY <2>2 DEF apiOutcome, apiStatus
  <2> QED BY <2>1, <2>2, <2>3, <2>4 DEF API!Next, API!Create
<1>2. CASE wg_go \/ wg_go_refused \/ wg_wait_lock \/ wg_wait_sleep
           \/ wg_wait_unlock \/ spurious_wakeup \/ UNCHANGED vars
  <2>1. /\ UNCHANGED <<alive, count, tasks, settled>>
        /\ apiSize' = apiSize /\ apiCaller' = apiCaller
    BY <1>2 DEF wg_go, wg_go_refused, wg_wait_lock, wg_wait_sleep,
         wg_wait_unlock, spurious_wakeup, vars, group, call, apiSize, apiCaller
  <2> QED BY <2>1, <1>n, Stutter DEF tasks
<1>3. CASE wg_go_register
  <2>1. /\ UNCHANGED <<alive, tasks, settled>>
        /\ apiSize' = apiSize /\ apiCaller' = apiCaller
    BY <1>3, <1>t DEF wg_go_register, apiSize, apiCaller, TypeOK
  <2> QED BY <2>1, <1>n, Stutter DEF tasks
<1>4. CASE wg_go_started
  <2> DEFINE n == count - 1
  <2>1. /\ pc = "go_create" /\ pc' = "ready" /\ count' = count /\ count > 0
        /\ alive /\ alive' = alive /\ settled' = settled /\ n \in Slot
        /\ thread[n] = "none" /\ thread' = [thread EXCEPT ![n] = "run"]
        /\ output' = output /\ count <= MaxTasks
    BY <1>4, <1>t DEF wg_go_started, TypeOK, SlotInv, QuietInv, task_slot, group
  <2>2. /\ apiSize = n /\ apiSize' = n + 1 /\ apiCaller = "ready"
        /\ apiCaller' = "ready"
    BY <2>1, <1>t DEF apiSize, apiCaller, TypeOK
  <2>3. apiStatus' = [apiStatus EXCEPT ![n] = "running"]
    <3>1. apiStatus'[n] = "running"
      BY <2>1, <2>2, <1>t DEF apiStatus, TypeOK, Active, Working
    <3>2. \A s \in Slot \ {n} : apiStatus'[s] = apiStatus[s]
      BY <2>1, <2>2, <1>t DEF apiStatus, TypeOK
    <3> QED BY <2>1, <3>1, <3>2, OneStatus
  <2>4. apiOutcome' = apiOutcome
    BY <2>1, <2>2, <2>3 DEF apiOutcome, apiStatus
  <2>5. API!Spawn
    BY <2>1, <2>2, <2>3, <2>4, <1>t DEF API!Spawn, TypeOK
  <2> QED BY <2>5 DEF API!Next
<1>5. CASE wg_go_undo
  <2> DEFINE n == count - 1
  <2>1. /\ pc = "go_undo" /\ pc' = "ready" /\ count' = count /\ count > 0
        /\ alive /\ alive' = alive /\ settled' = settled /\ n \in Slot
        /\ thread[n] = "none" /\ thread' = thread
        /\ output' = output /\ count <= MaxTasks
    BY <1>5, <1>t DEF wg_go_undo, TypeOK, SlotInv, QuietInv, task_slot, tasks
  <2>2. /\ apiSize = n /\ apiSize' = n + 1 /\ apiCaller = "ready"
        /\ apiCaller' = "ready"
    BY <2>1, <1>t DEF apiSize, apiCaller, TypeOK
  <2>3. apiStatus' = [apiStatus EXCEPT ![n] = "unstarted"]
    <3>1. apiStatus'[n] = "unstarted"
      BY <2>1, <2>2 DEF apiStatus
    <3>2. \A s \in Slot \ {n} : apiStatus'[s] = apiStatus[s]
      BY <2>1, <2>2 DEF apiStatus
    <3> QED BY <2>1, <3>1, <3>2, OneStatus
  <2>4. apiOutcome' = apiOutcome
    BY <2>1, <2>2, <2>3 DEF apiOutcome, apiStatus
  <2>5. API!SpawnFails
    BY <2>1, <2>2, <2>3, <2>4, <1>t DEF API!SpawnFails, TypeOK
  <2> QED BY <2>5 DEF API!Next
<1>6. CASE wg_wait
  <2>1. /\ UNCHANGED <<alive, count, tasks, settled>> /\ alive
        /\ apiSize' = apiSize /\ apiCaller = "ready" /\ apiCaller' = "waiting"
    BY <1>6 DEF wg_wait, group, apiSize, apiCaller
  <2>2. apiStatus' = apiStatus /\ apiOutcome' = apiOutcome
    BY <2>1 DEF tasks, apiStatus, apiOutcome
  <2>3. API!WaitCall
    BY <2>1, <2>2 DEF API!WaitCall
  <2> QED BY <2>3 DEF API!Next
<1>7. CASE wg_wait_join \/ wg_destroy_task
  <2>1. /\ cursor \in Slot /\ cursor < count /\ alive
        /\ UNCHANGED <<alive, count, output, settled, pc>>
        /\ joinable[cursor] => thread[cursor] = "exited"
        /\ thread' = [thread EXCEPT ![cursor] =
                        IF joinable[cursor] THEN "joined" ELSE @]
    BY <1>7, <1>t DEF wg_wait_join, wg_destroy_task, group, TypeOK, QuietInv
  <2>2. apiSize' = apiSize /\ apiCaller' = apiCaller
    BY <2>1 DEF apiSize, apiCaller
  <2>3. \A s \in Slot :
           /\ thread'[s] = "none" <=> thread[s] = "none"
           /\ thread'[s] \in Active <=> thread[s] \in Active
    BY <2>1, <1>t DEF TypeOK, Active, Working, Signalling
  <2> QED BY <2>1, <2>2, <2>3, <1>n, Stutter
<1>8. CASE wg_wait_return
  <2>1. /\ UNCHANGED <<alive, count, tasks>> /\ settled' = count
        /\ apiSize = count /\ apiSize' = count
        /\ apiCaller = "waiting" /\ apiCaller' = "ready"
    BY <1>8 DEF wg_wait_return, group, apiSize, apiCaller
  <2>2. apiStatus' = apiStatus /\ apiOutcome' = apiOutcome
    BY <2>1 DEF tasks, apiStatus, apiOutcome
  <2>3. \A s \in Slot : s < count => thread[s] \notin Active
    BY <1>8, <1>t DEF wg_wait_return, QuietInv, Quiet, Active, Working,
       Signalling
  <2>4. API!NoneRunning
    BY <2>1, <2>3, <1>t DEF API!NoneRunning, API!Slot, apiStatus, TypeOK
  <2>5. API!WaitReturn
    BY <2>1, <2>2, <2>4 DEF API!WaitReturn
  <2> QED BY <2>5 DEF API!Next
<1>9. CASE wg_destroy
  <2>1. /\ UNCHANGED <<alive, count, tasks>> /\ alive /\ settled' = 0
        /\ apiSize' = apiSize
        /\ apiCaller = "ready" /\ apiCaller' = "destroying"
    BY <1>9 DEF wg_destroy, group, apiSize, apiCaller
  <2>2. apiStatus' = apiStatus /\ apiOutcome' = apiOutcome
    BY <2>1 DEF tasks, apiStatus, apiOutcome
  <2>3. API!DestroyCall
    BY <2>1, <2>2 DEF API!DestroyCall
  <2> QED BY <2>3 DEF API!Next
<1>10. CASE wg_destroy_free
  <2>1. /\ UNCHANGED <<tasks, settled>> /\ ~alive' /\ count' = 0
        /\ apiSize = count /\ apiSize' = 0
        /\ apiCaller = "destroying" /\ apiCaller' = "ready"
    BY <1>10 DEF wg_destroy_free, apiSize, apiCaller
  <2>2. \A s \in Slot : s < count => thread[s] \notin Active
    BY <1>10, <1>t DEF wg_destroy_free, QuietInv, Quiet, Active, Working,
       Signalling
  <2>3. API!NoneRunning
    BY <2>1, <2>2, <1>t DEF API!NoneRunning, API!Slot, apiStatus, TypeOK
  <2>4. apiStatus' = [s \in Slot |-> "unused"]
    BY <2>1 DEF apiStatus
  <2>5. apiOutcome' = [s \in Slot |-> Blank]
    BY <2>4 DEF apiOutcome
  <2>6. API!DestroyReturn
    BY <2>1, <2>3, <2>4, <2>5, <1>t DEF API!DestroyReturn, API!Slot, TypeOK
  <2> QED BY <2>6 DEF API!Next
<1>11. ASSUME NEW s \in Slot,
              runner(s) \/ signal_lock(s) \/ signal_load(s) \/ signal_store(s)
       PROVE  UNCHANGED API!api
  <2>1. UNCHANGED <<alive, count, settled>> /\ thread \in [Slot -> ThreadState]
    BY <1>11, <1>t DEF runner, signal_lock, signal_load, signal_store, group,
       call, TypeOK
  <2>2. pc' = pc \/ (pc = "wait_cond" /\ pc' = "wait_wake")
    <3>1. CASE signal_store(s)
      BY <3>1 DEF signal_store, Broadcast
    <3>2. CASE runner(s) \/ signal_lock(s) \/ signal_load(s)
      BY <3>2 DEF runner, signal_lock, signal_load, call
    <3> QED BY <1>11, <3>1, <3>2
  <2>3. \E st \in Active : thread' = [thread EXCEPT ![s] = st]
    BY <1>11 DEF runner, signal_lock, signal_load, signal_store, Active,
       Working, Signalling
  <2>4. thread[s] \in Active
    BY <1>11 DEF runner, signal_lock, signal_load, signal_store, Active,
       Working, Signalling
  <2>5. \A t \in Slot \ {s} : output'[t] = output[t]
    BY <1>11, <1>t DEF runner, signal_lock, signal_load, signal_store, TypeOK
  <2>6. apiSize' = apiSize /\ apiCaller' = apiCaller
    BY <2>1, <2>2 DEF apiSize, apiCaller
  <2>7. "none" \notin Active
    BY DEF Active, Working, Signalling
  <2>8. /\ thread'[s] \in Active
        /\ \A t \in Slot \ {s} : thread'[t] = thread[t]
    BY <2>1, <2>3
  <2> QED BY <2>1, <2>4, <2>5, <2>6, <2>7, <2>8, <1>n, Stutter
<1>12. ASSUME NEW s \in Slot, signal_unlock(s) PROVE API!Finish(s)
  <2>1. /\ UNCHANGED <<alive, count, output, settled, pc>>
        /\ thread[s] = "signal_unlock"
        /\ thread' = [thread EXCEPT ![s] = "exited"]
    BY <1>12 DEF signal_unlock, call
  <2>2. apiSize' = apiSize /\ apiCaller' = apiCaller
    BY <2>1 DEF apiSize, apiCaller
  <2>3. s < apiSize
    <3>1. alive
      BY <2>1, <1>t DEF QuietInv, Quiet
    <3>2. s < count
      BY <2>1, <3>1, <1>t DEF SlotInv, TypeOK
    <3>3. pc \in {"go_create", "go_undo"} => s # count - 1
      BY <2>1, <1>t DEF SlotInv, task_slot
    <3> QED BY <3>2, <3>3, <1>t DEF apiSize, TypeOK
  <2>4. /\ apiStatus[s] = "running"
        /\ apiStatus' = [apiStatus EXCEPT ![s] = "ended"]
    <3>1. apiStatus[s] = "running"
      BY <2>1, <2>3, <1>t, <1>n DEF apiStatus, TypeOK, Active
    <3>2. apiStatus'[s] = "ended"
      BY <2>1, <2>2, <2>3, <1>t, <1>n DEF apiStatus, TypeOK, Active, Working,
         Signalling
    <3>3. \A t \in Slot \ {s} : apiStatus'[t] = apiStatus[t]
      BY <2>1, <2>2, <1>t DEF apiStatus, TypeOK
    <3> QED BY <3>1, <3>2, <3>3, OneStatus
  <2>5. output[s] \in Outcome
    BY <2>1, <1>t DEF OutputInv
  <2>6. apiOutcome' = [apiOutcome EXCEPT ![s] = output[s]]
    BY <2>1, <2>4, <1>t DEF apiOutcome, apiStatus, TypeOK
  <2> QED BY <2>1, <2>2, <2>4, <2>5, <2>6 DEF API!Finish
<1>13. CASE \E s \in Slot : Worker(s)
  BY <1>11, <1>12, <1>13 DEF Worker, wg_signal_done, API!Next, API!Slot
<1> QED
  BY <1>1, <1>2, <1>3, <1>4, <1>5, <1>6, <1>7, <1>8, <1>9, <1>10, <1>13
  DEF Next, Begin, Call

\* waitgroup.c implements the safety of waitgroup.h, for any number of tasks and
\* whatever outcomes their runners leave: the safety half of ImplementsAPI.
THEOREM APIRefined == Spec => API!Init /\ [][API!Next]_(API!api)
<1> QED BY InitAPI, StepAPI, Inductive, PTL DEF Spec
=============================================================================
