--------------------------- MODULE ParallaxProofs ---------------------------
(***************************************************************************)
(* The result array of wait(), for any bounds on tasks, arguments and       *)
(* groups: what it says of a slot stays true however many more tasks are    *)
(* spawned and end, and a failed slot has its error.                        *)
(***************************************************************************)
EXTENDS Parallax, FiniteSetTheorems, TLAPS

\* The part of the types the arguments below need.
GroupType == /\ size \in 0 .. MaxTasks
             /\ status \in [Slot -> WG!Status]
             /\ outcome \in [Slot -> TaskFields]
             /\ upto \in 0 .. size
             /\ results \in Seq([ok : BOOLEAN, value : BOOLEAN,
                                 error : BOOLEAN])
             /\ Len(results) <= upto

\* A task has an outcome when it has ended, and nothing before.
OutcomeInv == \A s \in Slot : outcome[s] \in (IF status[s] = "ended"
                                               THEN RunnerOutcome ELSE {Blank})

\* The slots a wait has read the size of are in use and at rest, and none are
\* while the group is being destroyed.
CoveredInv == /\ \A s \in Slot :
                   /\ s < size <=> status[s] # "unused"
                   /\ s < upto => status[s] \in {"ended", "unstarted"}
              /\ op = "freeing" => upto = 0

IInv == GroupType /\ OutcomeInv /\ CoveredInv /\ ResultsTruthful

-----------------------------------------------------------------------------
\* The task of a blank slot and of every outcome has the fields of a task.
LEMMA Fields == Blank \in TaskFields /\ RunnerOutcome \subseteq TaskFields
  BY DEF Blank, TaskFields, RunnerOutcome

\* The result for a task is a record of three flags.
LEMMA ResultType ==
  ASSUME NEW o \in TaskFields
  PROVE  ParallaxResult(o) \in [ok : BOOLEAN, value : BOOLEAN, error : BOOLEAN]
  BY DEF ParallaxResult, TaskFields

\* An array without elements says nothing that could be false.
LEMMA EmptyTruthful ==
  ASSUME results = << >>
  PROVE  /\ results \in Seq([ok : BOOLEAN, value : BOOLEAN, error : BOOLEAN])
         /\ Len(results) = 0 /\ ResultsTruthful
  BY DEF ResultsTruthful

\* The strengthening holds in the initial state.
LEMMA InitIInv == Init => IInv
<1> SUFFICES ASSUME Init PROVE IInv
  OBVIOUS
<1>1. results = << >> /\ upto = 0 /\ op = "idle" /\ size = 0
      /\ status = [s \in Slot |-> "unused"] /\ outcome = [s \in Slot |-> Blank]
  BY DEF Init, WG!Init, Slot
<1>2. GroupType
  BY <1>1, Fields, EmptyTruthful, BindingAssumption DEF GroupType, WG!Status
<1>3. OutcomeInv
  BY <1>1 DEF OutcomeInv
<1>4. CoveredInv
  BY <1>1, BindingAssumption DEF CoveredInv, Slot, WG!Slot
<1> QED BY <1>1, <1>2, <1>3, <1>4, EmptyTruthful DEF IInv

\* A step that leaves the tasks and the array alone, unless it empties it.
LEMMA QuietStep ==
  ASSUME IInv, UNCHANGED <<size, status, outcome>>,
         \/ UNCHANGED <<upto, results>>
         \/ results' = << >> /\ upto' \in {0, upto},
         op' = "freeing" => upto' = 0
  PROVE  IInv'
<1> USE DEF IInv
<1>1. CASE UNCHANGED <<upto, results>>
  BY <1>1 DEF GroupType, OutcomeInv, CoveredInv, ResultsTruthful
<1>2. CASE results' = << >> /\ upto' \in {0, upto}
  <2>1. GroupType'
    BY <1>2 DEF GroupType
  <2>2. OutcomeInv'
    BY DEF OutcomeInv
  <2>3. CoveredInv'
    BY <1>2 DEF CoveredInv, Slot, WG!Slot
  <2>4. ResultsTruthful'
    BY <1>2 DEF ResultsTruthful
  <2> QED BY <2>1, <2>2, <2>3, <2>4
<1> QED BY <1>1, <1>2

\* Spawning takes the next slot, which no array covers yet.
LEMMA SpawnStep ==
  ASSUME IInv, go_spawn
  PROVE  IInv'
<1> USE DEF IInv
<1>1. PICK st \in {"running", "unstarted"} :
        /\ size < MaxTasks /\ size' = size + 1
        /\ status' = [status EXCEPT ![size] = st]
        /\ UNCHANGED <<outcome, upto, results, op>>
  BY DEF go_spawn, WG!Spawn, WG!SpawnFails, array
<1>2. size \in Slot /\ MaxTasks \in Nat
  BY <1>1, BindingAssumption DEF GroupType, Slot, WG!Slot
<1>3. GroupType'
  BY <1>1, <1>2 DEF GroupType, WG!Status
<1>4. OutcomeInv'
  <2> SUFFICES ASSUME NEW s \in Slot
               PROVE  outcome[s] \in (IF status'[s] = "ended"
                                        THEN RunnerOutcome ELSE {Blank})
    BY <1>1 DEF OutcomeInv
  <2>1. CASE s = size
    <3>1. status[s] # "ended" /\ status'[s] # "ended"
      BY <1>1, <1>2, <2>1 DEF CoveredInv, GroupType
    <3> QED BY <3>1 DEF OutcomeInv
  <2>2. CASE s # size
    BY <1>1, <2>2 DEF OutcomeInv, GroupType
  <2> QED BY <2>1, <2>2
<1>5. CoveredInv'
  BY <1>1, <1>2 DEF CoveredInv, GroupType, Slot, WG!Slot
<1>6. ResultsTruthful'
  BY <1>1 DEF ResultsTruthful
<1> QED BY <1>3, <1>4, <1>5, <1>6

\* A task that ends is not covered by an array: what was said stays true.
LEMMA EndStep ==
  ASSUME IInv, NEW s \in Slot, task_ends(s)
  PROVE  IInv'
<1> USE DEF IInv
<1>1. PICK o \in RunnerOutcome :
        /\ status[s] = "running"
        /\ status' = [status EXCEPT ![s] = "ended"]
        /\ outcome' = [outcome EXCEPT ![s] = o]
        /\ UNCHANGED <<size, upto, results, op>>
  BY DEF task_ends, WG!Finish, array
<1>2. GroupType'
  BY <1>1, Fields DEF GroupType, WG!Status, Slot
<1>3. OutcomeInv'
  BY <1>1 DEF OutcomeInv, GroupType, Slot
<1>4. CoveredInv'
  BY <1>1 DEF CoveredInv, GroupType, Slot
<1>5. ResultsTruthful'
  <2> SUFFICES ASSUME NEW i \in 1 .. Len(results)
               PROVE  results[i] = ParallaxResult(outcome'[i - 1])
    BY <1>1 DEF ResultsTruthful
  <2>1. i - 1 \in Slot /\ i - 1 < upto
    BY BindingAssumption DEF GroupType, Slot, WG!Slot
  <2>2. i - 1 # s
    BY <1>1, <2>1 DEF CoveredInv
  <2> QED BY <1>1, <2>1, <2>2 DEF ResultsTruthful, GroupType, Slot
<1> QED BY <1>2, <1>3, <1>4, <1>5

\* wait() reads the size when every task of the group has ended.
LEMMA CoverStep ==
  ASSUME IInv, wait_returned
  PROVE  IInv'
<1> USE DEF IInv
<1>1. /\ \A s \in Slot : status[s] # "running"
      /\ results' = << >> /\ upto' = size /\ op' = "collecting"
      /\ UNCHANGED <<size, status, outcome>>
  BY DEF wait_returned, WG!WaitReturn, WG!NoneRunning, Slot
<1>2. GroupType'
  BY <1>1 DEF GroupType
<1>3. OutcomeInv'
  BY <1>1 DEF OutcomeInv
<1>4. CoveredInv'
  BY <1>1 DEF CoveredInv, GroupType, WG!Status, Slot
<1>5. ResultsTruthful'
  BY <1>1 DEF ResultsTruthful
<1> QED BY <1>2, <1>3, <1>4, <1>5

\* One turn of the loop appends the result of the next slot.
LEMMA CollectStep ==
  ASSUME IInv, wait_collect
  PROVE  IInv'
<1> USE DEF IInv
<1>1. /\ Len(results) < upto
      /\ results' = Append(results, ParallaxResult(outcome[Len(results)]))
      /\ UNCHANGED <<size, status, outcome, upto, op>>
  BY DEF wait_collect, MoreToCollect, group
<1>2. Len(results) \in Slot /\ Len(results) \in Nat
  BY <1>1, BindingAssumption DEF GroupType, Slot, WG!Slot
<1>3. ParallaxResult(outcome[Len(results)])
        \in [ok : BOOLEAN, value : BOOLEAN, error : BOOLEAN]
  BY <1>2, ResultType DEF GroupType, Slot
<1>4. GroupType'
  BY <1>1, <1>2, <1>3 DEF GroupType
<1>5. OutcomeInv' /\ CoveredInv'
  BY <1>1 DEF OutcomeInv, CoveredInv
<1>6. ResultsTruthful'
  <2> SUFFICES ASSUME NEW i \in 1 .. Len(results')
               PROVE  results'[i] = ParallaxResult(outcome[i - 1])
    BY <1>1 DEF ResultsTruthful
  <2>1. CASE i \in 1 .. Len(results)
    BY <1>1, <2>1 DEF ResultsTruthful, GroupType
  <2>2. CASE i = Len(results) + 1
    BY <1>1, <1>2, <2>2 DEF GroupType
  <2> QED BY <1>1, <1>2, <2>1, <2>2 DEF GroupType
<1> QED BY <1>4, <1>5, <1>6

\* A group that is destroyed, or replaced by a second construction, takes the
\* array with it.
LEMMA ResetStep ==
  ASSUME IInv, free_obj_end \/ construct_again
  PROVE  IInv'
<1> USE DEF IInv
<1>1. /\ size' = 0 /\ status' = [s \in Slot |-> "unused"]
      /\ outcome' = [s \in Slot |-> Blank]
      /\ results' = << >> /\ upto' = 0
  <2>1. CASE free_obj_end
    <3>1. results = << >> /\ upto = 0
      BY <2>1 DEF free_obj_end, CoveredInv, GroupType
    <3> QED BY <2>1, <3>1 DEF free_obj_end, WG!DestroyReturn, array, Slot
  <2>2. CASE construct_again
    BY <2>2 DEF construct_again
  <2> QED BY <2>1, <2>2
<1>2. GroupType'
  BY <1>1, Fields, BindingAssumption DEF GroupType, WG!Status, Slot
<1>3. OutcomeInv'
  BY <1>1 DEF OutcomeInv
<1>4. CoveredInv'
  BY <1>1, BindingAssumption DEF CoveredInv, Slot, WG!Slot
<1>5. ResultsTruthful'
  BY <1>1 DEF ResultsTruthful
<1> QED BY <1>2, <1>3, <1>4, <1>5

\* Every step of the binding keeps the strengthening.
LEMMA NextIInv == IInv /\ [Next]_vars => IInv'
<1> SUFFICES ASSUME IInv, [Next]_vars PROVE IInv'
  OBVIOUS
<1> USE DEF array, group
<1>1. CASE create_object \/ free_bare
  BY <1>1, QuietStep DEF create_object, free_bare, IInv, CoveredInv
<1>2. CASE construct
  BY <1>2, QuietStep DEF construct, WG!Create, IInv, CoveredInv
<1>3. CASE free_obj_begin
  BY <1>3, QuietStep DEF free_obj_begin, WG!DestroyCall
<1>4. CASE go \/ go_pack \/ go_reject
  BY <1>4, QuietStep DEF go, go_pack, go_reject, IInv, CoveredInv
<1>5. CASE wait
  BY <1>5, QuietStep DEF wait, WG!WaitCall
<1>6. CASE wait_end
  BY <1>6, QuietStep DEF wait_end, Return
<1>7. CASE stray_ends
  BY <1>7, QuietStep DEF stray_ends, IInv, CoveredInv
<1>8. CASE UNCHANGED vars
  BY <1>8, QuietStep DEF vars, IInv, CoveredInv
<1>9. CASE \E s \in Slot : task_ends(s)
  BY <1>9, EndStep
<1> QED
  BY <1>1, <1>2, <1>3, <1>4, <1>5, <1>6, <1>7, <1>8, <1>9, SpawnStep, CoverStep,
     CollectStep, ResetStep DEF Next

\* The strengthening holds in every reachable state.
THEOREM Inductive == Spec => []IInv
  BY InitIInv, NextIInv, PTL DEF Spec

\* Whatever is spawned and ends while and after wait() builds its array, the
\* array says of every slot it covers what the task has left there.
THEOREM ResultsStayTrue == Spec => []ResultsTruthful
<1>1. IInv => ResultsTruthful
  BY DEF IInv
<1> QED BY Inductive, <1>1, PTL

\* In such an array a slot has an error exactly when it failed and its thread
\* was started.
THEOREM FailuresExplained == Spec => []ErrorExplainsFailure
<1>1. IInv => ErrorExplainsFailure
  <2> SUFFICES ASSUME IInv, NEW i \in 1 .. Len(results)
               PROVE  results[i].error <=>
                        ~results[i].ok /\ status[i - 1] # "unstarted"
    BY DEF ErrorExplainsFailure
  <2> DEFINE o == outcome[i - 1]
  <2>1. i - 1 \in Slot /\ i - 1 < upto
    BY BindingAssumption DEF IInv, GroupType, Slot, WG!Slot
  <2>2. /\ results[i].ok = o.ok
        /\ results[i].error = (~o.ok /\ o.error)
    <3>1. results[i] = ParallaxResult(o)
      BY DEF IInv, ResultsTruthful
    <3> QED BY <3>1 DEF ParallaxResult
  <2>3. status[i - 1] \in {"ended", "unstarted"}
    BY <2>1 DEF IInv, CoveredInv
  <2>4. CASE status[i - 1] = "ended"
    <3>1. o \in RunnerOutcome
      BY <2>1, <2>4 DEF IInv, OutcomeInv
    <3> QED BY <2>2, <2>4, <3>1 DEF RunnerOutcome, TaskFields
  <2>5. CASE status[i - 1] = "unstarted"
    <3>1. o = Blank
      BY <2>1, <2>5 DEF IInv, OutcomeInv
    <3>2. o.ok = FALSE /\ o.error = FALSE
      BY <3>1 DEF Blank
    <3> QED BY <2>2, <2>5, <3>2
  <2> QED BY <2>3, <2>4, <2>5
<1> QED BY Inductive, <1>1, PTL

-----------------------------------------------------------------------------
\* Ownership.  The tasks that hold their payload: running, ended or refused.
Holding == Running \cup Unfreed

\* The rest of the types, and what a bare or a dying object has.
TypeRest == /\ live \in BOOLEAN
            /\ caller \in {"ready", "waiting", "destroying"}
            /\ settled \in 0 .. size
            /\ object \in {"none", "bare", "built"}
            /\ live <=> object = "built"
            /\ groups \in 0 .. MaxGroups
            /\ op \in {"idle", "waiting", "collecting", "freeing"}
            /\ packing \in Idle .. MaxArgs
            /\ raised \in BOOLEAN
            /\ bootstrap \in BOOLEAN
            /\ orphans \in Nat /\ lost \in Nat
            /\ strays \in Nat /\ stranded \in 0 .. orphans - strays
            /\ op = "freeing" => settled = 0
            /\ object = "bare" => groups < MaxGroups

OInv == IInv /\ TypeRest /\ OwnedOnce

\* Every task of the group holds its payload at most once.
LEMMA HoldingCount ==
  ASSUME IInv
  PROVE  /\ IsFiniteSet(Running) /\ IsFiniteSet(Unfreed)
         /\ IsFiniteSet(Holding)
         /\ Cardinality(Running) \in Nat /\ Cardinality(Unfreed) \in Nat
         /\ Cardinality(Holding) = Cardinality(Running) + Cardinality(Unfreed)
         /\ Cardinality(Holding) <= size
<1>1. size \in Nat /\ IsFiniteSet(0 .. size - 1)
      /\ Cardinality(0 .. size - 1) = size
  BY FS_Interval, BindingAssumption DEF IInv, GroupType
<1>2. Running \subseteq 0 .. size - 1
  BY <1>1, BindingAssumption DEF IInv, CoveredInv, Running, Slot, WG!Slot
<1>3. Unfreed \subseteq 0 .. size - 1
  BY <1>1, BindingAssumption DEF Unfreed, Slot, WG!Slot
<1>4. IsFiniteSet(Running) /\ IsFiniteSet(Unfreed)
  BY <1>1, <1>2, <1>3, FS_Subset
<1>5. Running \cap Unfreed = {}
  BY DEF Unfreed
<1>6. /\ IsFiniteSet(Holding)
      /\ Cardinality(Holding)
           = Cardinality(Running) + Cardinality(Unfreed) - Cardinality({})
  BY <1>4, <1>5, FS_Union DEF Holding
<1>7. Cardinality(Holding) <= size
  <2>1. Holding \in SUBSET (0 .. size - 1)
    BY <1>2, <1>3 DEF Holding
  <2> QED BY <1>1, <2>1, FS_Subset
<1> QED BY <1>4, <1>6, <1>7, FS_EmptySet, FS_CardinalityType

\* Nothing is held where no slot is in use.
LEMMA EmptyHolding ==
  ASSUME size = 0, status = [s \in Slot |-> "unused"]
  PROVE  Holding = {} /\ Cardinality(Holding) = 0
<1>1. Running = {}
  BY DEF Running
<1>2. Unfreed = {}
  BY BindingAssumption DEF Unfreed, Slot, WG!Slot
<1> QED BY <1>1, <1>2, FS_EmptySet DEF Holding

\* Steps that leave the group's tasks alone leave its holders alone.
LEMMA SameHolding ==
  ASSUME UNCHANGED <<size, status, outcome>>
  PROVE  Running' = Running /\ Unfreed' = Unfreed /\ Holding' = Holding
  BY DEF Holding, Running, Unfreed

\* The counts of OwnedOnce are numbers.
LEMMA Counts ==
  ASSUME OInv
  PROVE  /\ InGo \in Nat /\ Cardinality(Holding) \in Nat
         /\ snapshots \in Nat /\ callables \in Nat /\ size \in Nat
         /\ orphans \in Nat /\ strays \in Nat /\ stranded \in Nat
         /\ lost \in Nat
<1>1. Cardinality(Holding) \in Nat /\ size \in Nat
  BY HoldingCount, FS_CardinalityType DEF OInv, IInv, GroupType
<1>2. InGo \in Nat
  BY DEF InGo
<1> QED BY <1>1, <1>2 DEF OInv, TypeRest, OwnedOnce, Holding

\* The ownership invariant holds in the initial state.
LEMMA InitOInv == Init => OInv
<1> SUFFICES ASSUME Init PROVE OInv
  OBVIOUS
<1>1. IInv
  BY InitIInv
<1>2. Cardinality(Holding) = 0 /\ size = 0
  BY EmptyHolding DEF Init, WG!Init, Slot
<1>3. TypeRest
  <2>1. live = FALSE /\ object = "none"
    BY DEF Init, WG!Init
  <2>2. caller = "ready" /\ settled = 0 /\ groups = 0 /\ op = "idle"
    BY DEF Init, WG!Init
  <2>3. packing = -1 /\ raised = FALSE /\ bootstrap = FALSE
    BY DEF Init, Idle
  <2>4. orphans = 0 /\ lost = 0 /\ strays = 0 /\ stranded = 0
    BY DEF Init
  <2>5. (live <=> object = "built") /\ live \in BOOLEAN /\ raised \in BOOLEAN
        /\ bootstrap \in BOOLEAN /\ object \in {"none", "bare", "built"}
    BY <2>1, <2>3
  <2>6. settled \in 0 .. size /\ groups \in 0 .. MaxGroups
    BY <1>2, <2>2, BindingAssumption
  <2>7. packing \in Idle .. MaxArgs
    BY <2>3, BindingAssumption DEF Idle
  <2> QED BY <2>1, <2>2, <2>4, <2>5, <2>6, <2>7 DEF TypeRest
<1>4. OwnedOnce
  BY <1>2 DEF Init, OwnedOnce, InGo, Holding, Idle
<1> QED BY <1>1, <1>3, <1>4 DEF OInv

\* OwnedOnce in terms of the tasks that hold their payload.
LEMMA OwnedSums ==
  OwnedOnce <=> /\ snapshots = InGo + size + orphans
                /\ callables = InGo + Cardinality(Holding)
                                 + strays + stranded + lost
  BY DEF OwnedOnce, Holding

LEMMA OwnedSumsNext ==
  OwnedOnce' <=> /\ snapshots' = InGo' + size' + orphans'
                 /\ callables' = InGo' + Cardinality(Holding')
                                   + strays' + stranded' + lost'
  BY DEF OwnedOnce, Holding

\* A step that starts or ends nothing leaves the owners of the tasks alone.
LEMMA SameOwners ==
  ASSUME OInv, UNCHANGED <<size, status, outcome>>, UNCHANGED past,
         NEW d \in Int,
         snapshots' = snapshots + d, callables' = callables + d, InGo' = InGo + d
  PROVE  OwnedOnce'
<1>1. Cardinality(Holding') = Cardinality(Holding) /\ size' = size
  BY SameHolding
<1> QED BY <1>1, OwnedSums, OwnedSumsNext, Counts DEF past, OInv

\* go() from the resolved callable to its rejection.
LEMMA GoStep ==
  ASSUME OInv, go \/ go_pack \/ go_reject
  PROVE  TypeRest' /\ OwnedOnce'
<1> USE DEF group, self, array, past, heap, Idle
<1>1. TypeRest'
  BY BindingAssumption DEF OInv, TypeRest, go, go_pack, go_reject
<1>2. CASE go
  <2>1. InGo = 0 /\ InGo' = 1
    BY <1>2, BindingAssumption DEF go, InGo
  <2>2. /\ snapshots' = snapshots + (1) /\ callables' = callables + (1)
        /\ UNCHANGED <<size, status, outcome>> /\ UNCHANGED past
    BY <1>2, Counts DEF go
  <2>3. InGo' = InGo + (1)
    BY <2>1
  <2> QED BY <1>1, <2>2, <2>3, SameOwners
<1>3. CASE go_pack
  <2>1. InGo = 1 /\ InGo' = 1
    BY <1>3, BindingAssumption DEF go_pack, InGo, OInv, TypeRest
  <2>2. /\ snapshots' = snapshots + (0) /\ callables' = callables + (0)
        /\ UNCHANGED <<size, status, outcome>> /\ UNCHANGED past
    BY <1>3, Counts DEF go_pack
  <2>3. InGo' = InGo + (0)
    BY <2>1
  <2> QED BY <1>1, <2>2, <2>3, SameOwners
<1>4. CASE go_reject
  <2>1. InGo = 1 /\ InGo' = 0
    BY <1>4, BindingAssumption DEF go_reject, InGo, OInv, TypeRest
  <2>2. /\ snapshots' = snapshots + (-1) /\ callables' = callables + (-1)
        /\ UNCHANGED <<size, status, outcome>> /\ UNCHANGED past
    BY <1>4, Counts DEF go_reject
  <2>3. InGo' = InGo + (-1)
    BY <2>1
  <2> QED BY <1>1, <2>2, <2>3, SameOwners
<1> QED BY <1>1, <1>2, <1>3, <1>4

\* What go() held goes over to the task it spawns.
LEMMA SpawnOwned ==
  ASSUME OInv, go_spawn
  PROVE  TypeRest' /\ OwnedOnce'
<1> USE DEF self, array, past, heap, Idle
<1>1. PICK st \in {"running", "unstarted"} :
        /\ size < MaxTasks /\ size' = size + 1
        /\ status' = [status EXCEPT ![size] = st]
        /\ UNCHANGED <<live, outcome, caller, settled>>
  BY DEF go_spawn, WG!Spawn, WG!SpawnFails
<1>2. /\ packing = 0 /\ packing' = -1
      /\ UNCHANGED <<self, op, heap, array, past>>
  BY DEF go_spawn
<1>3. TypeRest'
  BY <1>1, <1>2, BindingAssumption DEF OInv, IInv, GroupType, TypeRest
<1>4. size \in Slot /\ size \in Nat
  BY <1>1, BindingAssumption DEF OInv, IInv, GroupType, Slot, WG!Slot
<1>5. status[size] = "unused" /\ outcome[size] = Blank
  BY <1>4 DEF OInv, IInv, OutcomeInv, CoveredInv, GroupType, WG!Status, Slot
<1>6. Holding' = Holding \cup {size} /\ size \notin Holding
  <2>1. ASSUME NEW s \in Slot
        PROVE  s \in Holding <=>
                 \/ status[s] = "running"
                 \/ s < size /\ outcome[s].payload
    BY Zenon DEF Holding, Running, Unfreed
  <2>2. ASSUME NEW s \in Slot
        PROVE  s \in Holding' <=>
                 \/ status'[s] = "running"
                 \/ s < size' /\ outcome'[s].payload
    BY Zenon DEF Holding, Running, Unfreed
  <2>3. Blank.payload = TRUE
    BY DEF Blank
  <2>4. ASSUME NEW s \in Slot, s # size
        PROVE  /\ status'[s] = status[s] /\ outcome'[s] = outcome[s]
               /\ s < size' <=> s < size
    BY <1>1, <1>4, <2>4 DEF OInv, IInv, GroupType, Slot, WG!Slot
  <2>5. size \in Holding' /\ size \notin Holding
    <3>1. size < size' /\ ~(size < size) /\ status[size] # "running"
      BY <1>1, <1>4, <1>5
    <3>2. outcome'[size].payload
      BY <1>1, <1>5, <2>3, Zenon
    <3> QED BY <1>4, <2>1, <2>2, <3>1, <3>2, Zenon
  <2>6. ASSUME NEW s \in Slot, s # size
        PROVE  s \in Holding' <=> s \in Holding
    BY <2>1, <2>2, <2>4, <2>6, Zenon
  <2>7. Holding \subseteq Slot /\ Holding' \subseteq Slot
    BY DEF Holding, Running, Unfreed
  <2> QED BY <1>4, <2>5, <2>6, <2>7
<1>7. Cardinality(Holding') = Cardinality(Holding) + 1
  BY <1>6, HoldingCount, FS_AddElement DEF OInv
<1>8. InGo = 1 /\ InGo' = 0
  BY <1>2 DEF InGo
<1>9. OwnedOnce'
  BY <1>1, <1>2, <1>4, <1>7, <1>8, Counts,
     OwnedSums, OwnedSumsNext DEF OInv
<1> QED BY <1>3, <1>9

\* The end of a task frees its payload, or leaves it where it is.
LEMMA EndOwned ==
  ASSUME OInv, NEW s \in Slot, task_ends(s)
  PROVE  TypeRest' /\ OwnedOnce'
<1> USE DEF self, array, past, Idle
<1>1. PICK o \in RunnerOutcome :
        /\ status[s] = "running"
        /\ status' = [status EXCEPT ![s] = "ended"]
        /\ outcome' = [outcome EXCEPT ![s] = o]
        /\ UNCHANGED <<live, size, caller, settled>>
  BY DEF task_ends, WG!Finish
<1>2. /\ callables' = IF outcome'[s].payload THEN callables ELSE callables - 1
      /\ UNCHANGED <<self, op, packing, snapshots, array, past>>
  BY DEF task_ends
<1>3. TypeRest'
  BY <1>1, <1>2 DEF OInv, TypeRest
<1>4. outcome'[s] = o /\ o.payload \in BOOLEAN
  BY <1>1, Fields DEF OInv, IInv, GroupType, Slot, TaskFields
<1>5. s \in Holding /\ s < size
  BY <1>1 DEF Holding, Running, OInv, IInv, CoveredInv
<1>6. Holding' = IF o.payload THEN Holding ELSE Holding \ {s}
  <2>1. ASSUME NEW t \in Slot
        PROVE  t \in Holding <=>
                 \/ status[t] = "running"
                 \/ t < size /\ outcome[t].payload
    BY Zenon DEF Holding, Running, Unfreed
  <2>2. ASSUME NEW t \in Slot
        PROVE  t \in Holding' <=>
                 \/ status'[t] = "running"
                 \/ t < size' /\ outcome'[t].payload
    BY Zenon DEF Holding, Running, Unfreed
  <2>3. ASSUME NEW t \in Slot, t # s
        PROVE  status'[t] = status[t] /\ outcome'[t] = outcome[t]
    BY <1>1, <2>3 DEF OInv, IInv, GroupType, Slot
  <2>4. ASSUME NEW t \in Slot, t # s
        PROVE  t \in Holding' <=> t \in Holding
    <3>1. size' = size
      BY <1>1
    <3> QED BY <2>1, <2>2, <2>3, <2>4, <3>1, Zenon
  <2>5. s \in Holding' <=> o.payload
    <3>1. status'[s] = "ended"
      BY <1>1 DEF OInv, IInv, GroupType, Slot
    <3> QED BY <1>1, <1>4, <1>5, <2>2, <3>1
  <2>6. Holding \subseteq Slot /\ Holding' \subseteq Slot
    BY DEF Holding, Running, Unfreed
  <2> QED BY <1>5, <2>4, <2>5, <2>6
<1>7. Cardinality(Holding') = IF o.payload THEN Cardinality(Holding)
                                           ELSE Cardinality(Holding) - 1
  BY <1>5, <1>6, HoldingCount, FS_RemoveElement DEF OInv
<1>8. InGo' = InGo
  BY <1>2 DEF InGo
<1>9. OwnedOnce'
  BY <1>1, <1>2, <1>4, <1>7, <1>8, Counts,
     OwnedSums, OwnedSumsNext DEF OInv
<1> QED BY <1>3, <1>9

\* wg_destroy frees the tasks, and loses the payloads they still hold.
LEMMA FreeOwned ==
  ASSUME OInv, free_obj_end
  PROVE  TypeRest' /\ OwnedOnce'
<1> USE DEF self, array
<1>1. /\ size' = 0 /\ status' = [s \in Slot |-> "unused"]
      /\ live' = FALSE /\ caller' = "ready" /\ settled' = settled
      /\ \A s \in Slot : status[s] # "running"
  BY DEF free_obj_end, WG!DestroyReturn, WG!NoneRunning, Slot
<1>2. /\ op = "freeing" /\ op' = "idle" /\ object' = "none"
      /\ bootstrap' = FALSE /\ snapshots' = snapshots - size
      /\ lost' = lost + Cardinality(Unfreed)
      /\ callables' = callables /\ packing' = packing
      /\ orphans' = orphans /\ strays' = strays /\ stranded' = stranded
      /\ raised' = raised /\ groups' = groups
  BY DEF free_obj_end
<1>3. Cardinality(Unfreed) = Cardinality(Holding)
  BY <1>1 DEF Holding, Running
<1>4. TypeRest'
  <2>1. lost' \in Nat
    BY <1>2, <1>3, Counts
  <2>2. settled' \in 0 .. size'
    BY <1>1, <1>2 DEF OInv, TypeRest
  <2> QED BY <1>1, <1>2, <2>1, <2>2 DEF OInv, TypeRest
<1>5. Cardinality(Holding') = 0
  <2>1. Running' = {}
    BY <1>1 DEF Running
  <2>2. Unfreed' = {}
    BY <1>1, BindingAssumption DEF Unfreed, Slot, WG!Slot
  <2> QED BY <2>1, <2>2, FS_EmptySet DEF Holding
<1>6. InGo' = InGo
  BY <1>2 DEF InGo
<1>7. OwnedOnce'
  BY <1>1, <1>2, <1>3, <1>5, <1>6, Counts, OwnedSums, OwnedSumsNext DEF OInv
<1> QED BY <1>4, <1>7

\* A second construction makes orphans of the tasks of the first group.
LEMMA OrphanOwned ==
  ASSUME OInv, construct_again
  PROVE  TypeRest' /\ OwnedOnce'
<1> USE DEF heap, self
<1>1. /\ size' = 0 /\ settled' = 0 /\ status' = [s \in Slot |-> "unused"]
      /\ orphans' = orphans + size
      /\ strays' = strays + Cardinality(Running)
      /\ stranded' = stranded + Cardinality(Unfreed)
      /\ live' = live /\ caller' = caller /\ object' = object /\ op' = op
      /\ packing' = packing /\ raised' = raised /\ lost' = lost
      /\ snapshots' = snapshots /\ callables' = callables
      /\ object = "built"
  BY DEF construct_again
<1>2. Cardinality(Running) \in Nat /\ Cardinality(Unfreed) \in Nat
      /\ Cardinality(Holding) = Cardinality(Running) + Cardinality(Unfreed)
      /\ Cardinality(Holding) <= size
  BY HoldingCount DEF OInv
<1>3. TypeRest'
  <2>1. orphans' \in Nat /\ strays' \in Nat
        /\ stranded' \in 0 .. orphans' - strays'
    BY <1>1, <1>2, Counts DEF OInv, TypeRest
  <2>2. groups' \in 0 .. MaxGroups
    BY BindingAssumption DEF construct_again, OInv, TypeRest
  <2>3. bootstrap' \in BOOLEAN
    BY DEF construct_again, SetBootstrap
  <2>4. settled' \in 0 .. size'
    BY <1>1
  <2> QED BY <1>1, <2>1, <2>2, <2>3, <2>4 DEF OInv, TypeRest
<1>4. Cardinality(Holding') = 0
  <2>1. Running' = {}
    BY <1>1 DEF Running
  <2>2. Unfreed' = {}
    BY <1>1, BindingAssumption DEF Unfreed, Slot, WG!Slot
  <2> QED BY <2>1, <2>2, FS_EmptySet DEF Holding
<1>5. InGo' = InGo
  BY <1>1 DEF InGo
<1>6. OwnedOnce'
  BY <1>1, <1>2, <1>4, <1>5, Counts, OwnedSums, OwnedSumsNext DEF OInv
<1> QED BY <1>3, <1>6

\* An orphaned task that ends frees its payload or leaves it stranded.
LEMMA StrayOwned ==
  ASSUME OInv, stray_ends
  PROVE  TypeRest' /\ OwnedOnce'
<1> USE DEF group, self, array
<1>1. /\ strays > 0 /\ strays' = strays - 1
      /\ \/ callables' = callables - 1 /\ stranded' = stranded
         \/ callables' = callables /\ stranded' = stranded + 1
      /\ UNCHANGED <<size, status, outcome>> /\ snapshots' = snapshots
      /\ packing' = packing /\ orphans' = orphans /\ lost' = lost
  BY DEF stray_ends
<1>2. TypeRest'
  <2>1. strays' \in Nat /\ stranded' \in 0 .. orphans' - strays'
    BY <1>1, Counts DEF OInv, TypeRest
  <2> QED BY <1>1, <2>1 DEF stray_ends, OInv, TypeRest
<1>3. Cardinality(Holding') = Cardinality(Holding) /\ size' = size
  BY <1>1, SameHolding
<1>4. InGo' = InGo
  BY <1>1 DEF InGo
<1>5. OwnedOnce'
  BY <1>1, <1>3, <1>4, Counts, OwnedSums, OwnedSumsNext DEF OInv
<1> QED BY <1>2, <1>5

\* The other steps own and free nothing.
LEMMA OtherOwned ==
  ASSUME OInv,
         \/ create_object \/ construct \/ free_obj_begin \/ free_bare
         \/ wait \/ wait_returned \/ wait_collect \/ wait_end
         \/ UNCHANGED vars
  PROVE  TypeRest' /\ OwnedOnce'
<1> USE DEF group, self, heap, array, past
<1>1. TypeRest'
  <2> USE DEF OInv, TypeRest
  <2>1. CASE create_object \/ free_bare \/ UNCHANGED vars
    BY <2>1, BindingAssumption DEF create_object, free_bare, vars
  <2>2. CASE construct
    BY <2>2, BindingAssumption DEF construct, WG!Create, SetBootstrap
  <2>3. CASE free_obj_begin
    BY <2>3, Counts DEF free_obj_begin, WG!DestroyCall
  <2>4. CASE wait
    BY <2>4 DEF wait, WG!WaitCall
  <2>5. CASE wait_returned
    BY <2>5, Counts DEF wait_returned, WG!WaitReturn
  <2>6. CASE wait_collect
    BY <2>6 DEF wait_collect
  <2>7. CASE wait_end
    BY <2>7 DEF wait_end, Return
  <2> QED BY <2>1, <2>2, <2>3, <2>4, <2>5, <2>6, <2>7
<1>2. /\ UNCHANGED <<size, status, outcome>> /\ UNCHANGED past
      /\ snapshots' = snapshots /\ callables' = callables /\ packing' = packing
  BY DEF create_object, construct, WG!Create, free_obj_begin, WG!DestroyCall,
         free_bare, wait, WG!WaitCall, wait_returned, WG!WaitReturn,
         wait_collect, wait_end, Return, vars
<1>3. InGo' = InGo + 0
  BY <1>2, Counts DEF InGo
<1>4. snapshots' = snapshots + 0 /\ callables' = callables + 0
  BY <1>2, Counts
<1>5. OwnedOnce'
  BY <1>2, <1>3, <1>4, SameOwners
<1> QED BY <1>1, <1>5

\* Every step of the binding keeps the ownership invariant.
LEMMA NextOInv == OInv /\ [Next]_vars => OInv'
<1> SUFFICES ASSUME OInv, [Next]_vars PROVE TypeRest' /\ OwnedOnce'
  BY NextIInv DEF OInv
<1> QED BY GoStep, SpawnOwned, EndOwned, FreeOwned, OrphanOwned, StrayOwned,
           OtherOwned DEF Next

\* The ownership invariant holds in every reachable state.
THEOREM Ownership == Spec => []OInv
  BY InitOInv, NextOInv, PTL DEF Spec

\* Type correctness of the binding.
THEOREM TypeCorrect == Spec => []TypeOK
<1>1. OInv => TypeOK
  <2> SUFFICES ASSUME OInv PROVE TypeOK
    OBVIOUS
  <2>1. WG!TypeOK
    BY DEF OInv, IInv, GroupType, OutcomeInv, TypeRest, WG!TypeOK, Slot
  <2>2. upto \in 0 .. MaxTasks
    BY BindingAssumption DEF OInv, IInv, GroupType
  <2> QED BY <2>1, <2>2, Counts DEF TypeOK, OInv, IInv, GroupType, TypeRest
<1> QED BY Ownership, <1>1, PTL

\* No snapshot and no callable is freed twice, and none is lost except the
\* payloads of tasks freed with them, however the object is used.
THEOREM OneOwner == Spec => []OwnedOnce
<1>1. OInv => OwnedOnce
  BY DEF OInv
<1> QED BY Ownership, <1>1, PTL
=============================================================================
