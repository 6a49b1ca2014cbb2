------------------------------ MODULE Parallax ------------------------------
(***************************************************************************)
(* php_binding.c: the WaitGroup object of one PHP request, on top of the    *)
(* promises of waitgroup.h (WaitGroupAPI) and of the outcomes the worker    *)
(* leaves (TaskOutcome).  Userland may construct the object again, spawn    *)
(* from an autoloader that wait() triggers while it converts results, and   *)
(* drop the object at any time it is not inside one of its methods.         *)
(***************************************************************************)
EXTENDS Integers, FiniteSets, Sequences, TaskOutcome

CONSTANTS MaxTasks,   \* bound on the tasks of one group
          MaxArgs,    \* bound on the arguments of one go()
          MaxGroups   \* bound on the groups one object is given

ASSUME BindingAssumption == /\ MaxTasks \in Nat /\ MaxArgs \in Nat
                            /\ MaxGroups \in Nat \ {0}

VARIABLES
  live, size, status, outcome, caller, settled,   \* the group: WaitGroupAPI
  object,     \* the zend_object: none, bare (wg = NULL) or built
  groups,     \* groups wg_create has made for it
  op,         \* the method wait() and how far it is
  packing,    \* arguments go() has still to pack, or Idle
  snapshots,  \* argument snapshots (args_val, task->args) not freed
  callables,  \* callable recipes (cb, payload->callable) not freed
  upto,       \* n, read by wait() before its loop
  results,    \* the ParallaxResult array wait() builds, or last returned
  raised,     \* converting a result has raised an exception in wait()
  bootstrap,  \* self->bootstrap # NULL
  orphans,    \* tasks of groups the object no longer points to
  strays,     \* those of them that still run
  stranded,   \* those that have ended, or never started, with their payload
  lost        \* history: payloads whose task was freed and which were not

WG == INSTANCE WaitGroupAPI WITH Outcome <- RunnerOutcome

Slot == WG!Slot
Idle == -1
group == <<live, size, status, outcome, caller, settled>>
self  == <<object, groups, bootstrap>>
heap  == <<snapshots, callables>>
array == <<upto, results, raised>>
past  == <<orphans, strays, stranded, lost>>
vars  == <<group, self, op, packing, heap, array, past>>

Init == /\ WG!Init /\ object = "none" /\ groups = 0 /\ op = "idle"
        /\ packing = Idle /\ upto = 0 /\ results = <<>> /\ raised = FALSE
        /\ bootstrap = FALSE
        /\ snapshots = 0 /\ callables = 0
        /\ orphans = 0 /\ strays = 0
        /\ stranded = 0 /\ lost = 0

\* No method of the object is on the PHP stack.
AtRest == op = "idle" /\ packing = Idle

-----------------------------------------------------------------------------
\* The life of the object.

create_object ==
  /\ object = "none" /\ groups < MaxGroups /\ object' = "bare"
  /\ UNCHANGED <<group, groups, bootstrap, op, packing, heap, array, past>>

\* A file named replaces self->bootstrap; no file leaves it as it is.
SetBootstrap == \E named \in BOOLEAN : bootstrap' = (bootstrap \/ named)

construct ==
  /\ object = "bare" /\ AtRest
  /\ WG!Create /\ SetBootstrap
  /\ object' = "built" /\ groups' = groups + 1
  /\ UNCHANGED <<op, packing, heap, array, past>>

\* The tasks of the group whose threads have not ended, and the tasks that
\* have ended, or never started, with their payload.
Running == {s \in Slot : status[s] = "running"}
Unfreed == {s \in Slot : s < size /\ outcome[s].payload} \ Running

\* __construct on a built object: self->wg is overwritten, and the old group
\* is neither waited for nor destroyed.
construct_again ==
  /\ object = "built" /\ AtRest /\ groups < MaxGroups
  /\ groups' = groups + 1 /\ SetBootstrap
  /\ orphans' = orphans + size
  /\ strays' = strays + Cardinality(Running)
  /\ stranded' = stranded + Cardinality(Unfreed)
  /\ size' = 0 /\ settled' = 0
  /\ status' = [s \in Slot |-> "unused"]
  /\ outcome' = [s \in Slot |-> Blank]
  /\ results' = <<>> /\ upto' = 0
  /\ UNCHANGED <<live, caller, object, op, packing, heap, raised, lost>>

\* free_obj of an object with a group calls wg_destroy, which returns once no
\* task runs, and frees the snapshot of every task but no payload.
free_obj_begin ==
  /\ object = "built" /\ AtRest /\ WG!DestroyCall
  /\ op' = "freeing" /\ results' = <<>> /\ upto' = 0
  /\ UNCHANGED <<self, packing, heap, raised, past>>

\* Mutant: obj->wg still points to the destroyed group.
free_obj_end_dangling ==
  /\ op = "freeing" /\ WG!DestroyReturn
  /\ op' = "idle" /\ bootstrap' = FALSE
  /\ snapshots' = snapshots - size
  /\ lost' = lost + Cardinality(Unfreed)
  /\ UNCHANGED <<object, groups, packing, callables, array, orphans, strays,
                 stranded>>

free_obj_end ==
  /\ op = "freeing" /\ WG!DestroyReturn
  /\ op' = "idle" /\ object' = "none" /\ bootstrap' = FALSE
  /\ snapshots' = snapshots - size
  /\ lost' = lost + Cardinality(Unfreed)
  /\ UNCHANGED <<groups, packing, callables, array, orphans, strays, stranded>>

free_bare ==
  /\ object = "bare" /\ object' = "none"
  /\ UNCHANGED <<group, groups, bootstrap, op, packing, heap, array, past>>

-----------------------------------------------------------------------------
\* go(), from userland or from an autoloader that runs inside wait().

\* px_resolve_callable succeeds and args_val is allocated; its failure, like
\* go() on a bare object, throws with nothing allocated.
go == /\ object = "built" /\ op \in {"idle", "collecting"} /\ packing = Idle
      /\ size < MaxTasks
      /\ packing' \in 0 .. MaxArgs
      /\ callables' = callables + 1 /\ snapshots' = snapshots + 1
      /\ UNCHANGED <<group, self, op, array, past>>

\* px_zval_to_value accepts the next argument.
go_pack == /\ packing > 0 /\ packing' = packing - 1
           /\ UNCHANGED <<group, self, op, heap, array, past>>

\* Mutant: the callable is not freed.
go_reject_keeps_cb == /\ packing > 0 /\ packing' = Idle
                      /\ snapshots' = snapshots - 1
                      /\ UNCHANGED <<group, self, op, callables, array, past>>

\* By reference, or not portable: both allocations go and go() throws.
go_reject == /\ packing > 0 /\ packing' = Idle
             /\ callables' = callables - 1 /\ snapshots' = snapshots - 1
             /\ UNCHANGED <<group, self, op, array, past>>

\* The payload takes over cb, the task the payload and args_val; whether the
\* thread started is ignored.
go_spawn == /\ packing = 0 /\ packing' = Idle
            /\ WG!Spawn \/ WG!SpawnFails
            /\ UNCHANGED <<self, op, heap, array, past>>

-----------------------------------------------------------------------------
\* wait().

wait == /\ object = "built" /\ AtRest /\ WG!WaitCall /\ op' = "waiting"
        /\ UNCHANGED <<self, packing, heap, array, past>>

wait_returned ==
  /\ op = "waiting" /\ WG!WaitReturn /\ op' = "collecting"
  /\ upto' = size /\ results' = <<>>
  /\ UNCHANGED <<self, packing, heap, raised, past>>

\* Mutant: a stale result hides the error.
ParallaxResult_hides(o) == [ok |-> o.ok, value |-> o.ok /\ o.result,
                            error |-> ~o.ok /\ o.error /\ ~o.result]

\* The ParallaxResult for one task: value when ok and there is a result,
\* error when not ok and there is an error.
ParallaxResult(o) == [ok |-> o.ok, value |-> o.ok /\ o.result,
                      error |-> ~o.ok /\ o.error]

\* Mutant: wg_size is read again on every turn.
MoreToCollect_rereads == Len(results) < size

\* i < n
MoreToCollect == Len(results) < upto

\* One turn of the loop, in which px_value_to_zval of a result may raise
\* (Capture) and nothing looks whether it did; afterwards an autoloader may have
\* spawned more.
wait_collect ==
  /\ op = "collecting" /\ packing = Idle /\ MoreToCollect
  /\ LET slot == ParallaxResult(outcome[Len(results)])
     IN /\ results' = Append(results, slot)
        /\ raised' \in {raised, raised \/ slot.value}
  /\ UNCHANGED <<group, self, op, packing, heap, upto, past>>

\* The array is returned, or given up for the exception.
Return == /\ op' = "idle" /\ raised' = FALSE
          /\ results' = IF raised THEN <<>> ELSE results
          /\ UNCHANGED <<group, self, packing, heap, upto, past>>

\* Mutant: the loop goes on while slots have been added.
wait_end_when_covered ==
  /\ op = "collecting" /\ packing = Idle /\ ~MoreToCollect /\ upto = size
  /\ Return

wait_end ==
  /\ op = "collecting" /\ packing = Idle /\ ~MoreToCollect
  /\ Return

-----------------------------------------------------------------------------
\* The workers.

\* The worker frees the payload, unless its request never started.
task_ends(s) ==
  /\ WG!Finish(s)
  /\ callables' = IF outcome'[s].payload THEN callables ELSE callables - 1
  /\ UNCHANGED <<self, op, packing, snapshots, array, past>>

stray_ends ==
  /\ strays > 0 /\ strays' = strays - 1
  /\ \/ callables' = callables - 1 /\ UNCHANGED stranded
     \/ stranded' = stranded + 1 /\ UNCHANGED callables
  /\ UNCHANGED <<group, self, op, packing, snapshots, array, orphans, lost>>

Next == \/ create_object \/ construct \/ construct_again
        \/ free_obj_begin \/ free_obj_end \/ free_bare
        \/ go \/ go_pack \/ go_reject \/ go_spawn
        \/ wait \/ wait_returned \/ wait_collect \/ wait_end
        \/ stray_ends \/ \E s \in Slot : task_ends(s)

\* Tasks end, the methods go on, and an autoloader that spawns from inside
\* wait() returns to it in the end.
Fairness == /\ \A s \in Slot : WF_vars(task_ends(s))
            /\ WF_vars(wait_returned) /\ WF_vars(free_obj_end)
            /\ WF_vars(go_pack \/ go_reject \/ go_spawn)
            /\ SF_vars(wait_collect) /\ SF_vars(wait_end)

Spec == Init /\ [][Next]_vars /\ Fairness

-----------------------------------------------------------------------------
\* The types; an object has a group exactly when it is built.
TypeOK == /\ WG!TypeOK
          /\ object \in {"none", "bare", "built"}
          /\ live <=> object = "built"
          /\ groups \in 0 .. MaxGroups
          /\ op \in {"idle", "waiting", "collecting", "freeing"}
          /\ packing \in Idle .. MaxArgs
          /\ snapshots \in Nat /\ callables \in Nat
          /\ upto \in 0 .. MaxTasks
          /\ results \in Seq([ok : BOOLEAN, value : BOOLEAN, error : BOOLEAN])
          /\ Len(results) <= upto
          /\ raised \in BOOLEAN
          /\ bootstrap \in BOOLEAN
          /\ orphans \in Nat /\ lost \in Nat
          /\ strays \in Nat /\ stranded \in 0 .. orphans - strays

\* An array wait() has built, or is building, goes on telling the truth about
\* the slots it covers, in spawn order, while more tasks are spawned and end:
\* a later wait() repeats it and adds to it.
ResultsTruthful ==
  \A i \in 1 .. Len(results) : results[i] = ParallaxResult(outcome[i - 1])

\* A failed slot carries its error, whatever way the worker failed, unless
\* its thread was never started.
ErrorExplainsFailure ==
  \A i \in 1 .. Len(results) :
    results[i].error <=> ~results[i].ok /\ status[i - 1] # "unstarted"

\* Through every end of go() and of a task, every destruction and every second
\* construction, no snapshot and no callable is freed twice or dropped unseen.  A
\* snapshot belongs to the go() under way, then to its task until wg_destroy,
\* although waitgroup.h gives it to the runner.  A callable belongs to the go()
\* under way, to the worker of a running task, or, where no worker frees it, to a
\* task that has ended or never started; what is left of these when the task is
\* freed or out of reach is counted as leaked, in lost and stranded.
InGo == IF packing = Idle THEN 0 ELSE 1
OwnedOnce == /\ snapshots = InGo + size + orphans
             /\ callables = InGo + Cardinality(Running \cup Unfreed)
                              + strays + stranded + lost

\* wait() returns its array.
WaitReturns == op = "waiting" ~> op = "idle"

\* README: "per-slot, never throwing across the boundary", "partial results are
\* never lost".
ResultsNeverLost ==
  [][op = "collecting" /\ op' = "idle" => Len(results') = upto]_vars
=============================================================================
