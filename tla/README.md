# php-parallax: a TLA+ development

php-parallax gives PHP 8.4+ (ZTS) a Go-style `WaitGroup`: `go()` runs a callable
on a new POSIX thread with a PHP request of its own, `wait()` blocks until every
task is over and returns one `ParallaxResult` per task. The modules here model
the C code of that extension, TLC checks them on small instances, and TLAPS
proves seven of them for all values of their constants.

## 1. The system

| Component | Source | State it keeps | Operations |
|---|---|---|---|
| Wait group | `core/waitgroup.[ch]` | mutex, condition variable, `remaining`, the task array (`count`, `cap`), per task `thread_joinable`, `ok`, `result`, `error` | `wg_create`, `wg_go`, `wg_wait`, `wg_get`, `wg_size`, `wg_destroy`, `wg_signal_done` |
| Worker | `bridge_worker.c` | the PHP request and TSRM storage of the thread, the TLS slot `worker_captured_error`, `EG(exception)`, the task's outputs, the payload | `worker_main_thread`: one straight run with about a dozen exits |
| PHP binding | `php_binding.c` | the object's `wg` and `bootstrap`, locals of `go()` and `wait()` | create, `__construct`, `go`, `wait`, `count`, free |
| Callable resolution | `bridge.c`, `bridge_closure.c` | a recipe under construction, the source file, the extracted text, the captures | `px_resolve_callable`, `px_resolve_inline_closure`, `px_callable_free` |
| Inline closures | `bridge_closure.c` | source text, a position, the lexical state, a depth | `extract_closure_text` and the three scans under it |
| zval conversion | `bridge.c` | recursion depth, half-built trees | `px_zval_to_value`, `px_value_to_zval` |
| Wire format | `value/pack.[ch]` | a buffer and a cursor | `value_pack`, `value_unpack` |
| Value trees, deep copy | `value/value.[ch]`, `value/clone.[ch]` | trees of malloc'd nodes, element arrays and keys | constructors, setters, lookup, `value_free`, `value_clone` |
| Module entry | `php_parallax.c`, the tail of `php_binding.c` | none | registration of the module, classes, ini settings |

How they interact:

- `go()` resolves the callable and captures the arguments, hands both to `wg_go`
  and ignores its answer. A callable becomes a *recipe*: a name, or the text of a
  closure copied from its source file together with the values of its `use`
  variables.
- `wg_go` registers a slot under the mutex and creates a thread; the thread runs
  the runner (`px_worker_main`) and then `wg_signal_done`, which takes the same
  mutex, decrements `remaining` and broadcasts at zero.
- The runner owns its task's outputs until it has signalled; the caller reads
  them after `wg_wait`. That hand-over has no lock of its own: it rests on the
  counter and on `pthread_join`.
- `wait()` calls `wg_wait`, reads `wg_size` once, and converts one task after
  the other into PHP objects. The conversion may load classes, so an autoloader,
  hence any PHP code, may run inside the loop and call `go()` on the same object;
  it may also raise.
- `free_obj` calls `wg_destroy`, which joins what is left.

What is hard here, and what makes each part correct:

- *Wait group.* Threads of different ages race on one counter; a start can be
  refused after the slot was published; waits may be repeated with spawns in
  between. Correct: the counter is exact, no wakeup is lost, nothing is freed
  under a running thread, no thread is joined twice, and what a wait has covered
  is final.
- *Worker.* User code may raise at almost every step; its exception arrives in
  one of two places and is looked at later, or the engine deals with it before
  the worker can look; and `zend_bailout` may jump out of any engine call.
  Correct: one verdict per task, the verdict tells of the exception the worker
  was left with, the request is torn down on every path.
- *Binding.* A PHP object whose methods can be re-entered from its own `wait()`.
  Correct: an array `wait()` has built stays true, a failed slot says why, `go()`
  frees or hands over what it allocated.
- *Callables.* Many forms, and for inline closures five calls that can fail with
  something allocated. Correct: nothing leaks, one exception, and the worker
  calls what the caller would have called.
- *Closure text.* A scanner that knows only the line of the closure and a little
  of PHP's lexical grammar. Correct: the text it copies is the closure.
- *Conversion.* Graphs with shared objects, references and cycles, tables that
  exist or not, refusals deep inside. Correct: exactly what can be transferred is
  accepted, a refusal frees everything, the other side gets the same value.
- *Wire format.* Boundary arithmetic of 64-bit varints, truncated buffers,
  error paths in nested elements. Correct: round trip, prefix-freedom, no leak.
- *Value trees.* Ownership that moves with every setter. Correct: one owner per
  block, copies that share nothing.

`PROJECT.json` lists under `hazards` the places where this goes wrong if it
does, each with the property that would show it.

## 2. The modules

    WaitGroupAPI       what waitgroup.h promises                    (abstract)
      ^ implemented by          ^ used by INSTANCE
    WaitGroup          waitgroup.c     Parallax    php_binding.c
      ^ EXTENDS                           |  EXTENDS
    WaitGroupProofs                     TaskOutcome   what a runner leaves
                                          ^  EXTENDS
                                        Runner        a runner, as its thread sees it
                                          ^  implemented by
                                        Worker      bridge_worker.c

    Values  <- Pack       <- MCPack         value trees as values; pack.c
            <- Snapshot                     bridge.c, px_zval_to_value
                 <- Capture                 bridge.c, px_value_to_zval
                      <- CaptureImage <- MCCapture    what should arrive
                 <- SnapshotProofs <- CaptureProofs
    ValueHeap             <- MCValueHeap    value.c and clone.c on a heap
              <- ValueHeapProofs <- ValueHeapTheorems
    ClosureScan           <- MCClosureScan  bridge_closure.c, the scanner
    Callable              <- MCCallable     bridge.c and bridge_closure.c, the recipe
    WorkerProofs, ParallaxProofs, CallableProofs extend Worker, Parallax, Callable

**WaitGroup** has an action for each critical section, each blocking call and
each access that another thread could see half-done, named after the function it
is part of: `wg_go` is `wg_go` (entry), `wg_go_register` (first critical
section), `wg_go_started` or `wg_go_refused` (what `pthread_create` answers) and
`wg_go_undo` (second critical section); `wg_wait` is `wg_wait_lock`,
`wg_wait_sleep`, `wg_wait_unlock`, `wg_wait_join`, `wg_wait_return`, with
`spurious_wakeup` for POSIX; a worker is `runner`, `signal_lock`, `signal_load`,
`signal_store`, `signal_unlock`. `--wg->remaining` is a load and a store, so that
only the mutex makes it exact: a model with an atomic decrement could not show
what the mutex is for. `alive`, `remaining`, `count`, `cap` are the fields of
`wait_group_t`; `joinable` and `output` those of a task; `pc`, `cursor`,
`thread`, `loaded` are program counters and registers; `settled` is a history
variable, the slots covered by the last `wg_wait` that returned.
The code publishes a slot before its thread exists, and one thread, the PHP
thread that owns the object, makes all the calls: that is the code's use of the
API, and a second caller is not modelled (the undo of a refused start does not
broadcast, `waitgroup.c:74-76`, which is right only because no one else can be
asleep in `wg_wait`).

**WaitGroupAPI** says the same without threads, mutex, counter or array: slots in
spawn order, one outcome per task, waits and destroys that return only when no
task runs. `ImplementsAPI` in WaitGroup is the refinement: a `wg_go` takes effect
when `pthread_create` answers, and a task has ended when its thread has let go of
the mutex, although its output is written earlier.

**TaskOutcome** is the contract between the two sides of a task:
`RunnerOutcome`, the outputs a runner may leave. **Runner** is the abstract
runner: one step, which comes, and leaves one of these. Worker is shown to
implement it (`ImplementsRunner`); Parallax accepts all of `RunnerOutcome`, and
WaitGroup's action `runner` takes whatever outcomes its constant names.

**Worker** follows `worker_main_thread` from `ts_resource` to the return. The
engine is external: `Raises` lets user code leave an exception in the trampoline's
slot, in `EG(exception)` or in both; `OrBail` lets a call inside `zend_try` jump
to `zend_catch`. The bootstrap runs in a `zend_try` of its own with an empty
catch, and before the trampoline is installed. What it throws and does not catch,
`zend_execute_scripts` hands to the handler the file has set, or reports, and
clears before it returns (`handled`): the test at `bridge_worker.c:122` does not
see it, and only the error of a file that does not compile is pending there.
`threw`, `handled` and `bailed` are history variables.

**Parallax** is the `WaitGroup` object: its methods move the wait group through
the actions of WaitGroupAPI, so that what it may rely on is exactly what
WaitGroup is shown to provide. `go`, `go_pack`, `go_reject`, `go_spawn` are the
stages of `go()`, from userland or from an autoloader inside the loop of
`wait()`. In that loop `wait_collect` converts one task, which may raise
(`raised`; nothing in the loop looks at it), and `Return` hands the array back or
gives it up for the exception. `construct_again` is a second `__construct`, which
drops the first group: its tasks become `orphans`, the running ones among them
`strays`. `snapshots` and `callables` count what `go()` allocates, so that
`OwnedOnce` can say who owns each of them. A snapshot stays with its task until
`wg_destroy`, whatever `waitgroup.h:33` says of the runner; `lost` counts the
payloads that `wg_destroy` leaves behind, `stranded` those an orphan has left.

**Callable** is `px_resolve_callable`. A callable is a record of what the code
looks at; each call of `px_resolve_inline_closure` that can fail is an action
with both answers (`fopen`, `read_file_all`, `locate`, `snapshot_captures`,
`wrap`), and `owned` counts every block and the `FILE`. `Run` is the one step of
the engine: a closure that has been called on the caller's thread has its static
variables turned into references. `CallsTheSame` compares the recipe with
`Meant`, what PHP itself would call.

**ClosureScan** has two views of a file. For PHP it is a sequence of tokens,
with kinds; for the scanner a sequence of bytes. `extract_closure_text` is
translated byte by byte: one lexical automaton (`Lex`), the keyword search with
its heredocs (`scan_find_keyword`), the search for the opening brace
(`find_brace`), the brace count (`scan_brace_match`) and the walk to the left
for `static` (`walk_left`). The properties are written on tokens alone. A label
is one symbol, and so are the words `function` and `static`; every identifier
that is neither is `w`.

**Snapshot** has the graph: objects with slots and a property table that may or
may not exist, PHP references as cells, arrays. `zval_to_value_inner`,
`array_to_value` and `object_to_value` call each other, so `stack` holds the calls
of the latter two, and `now` what runs on top: a call that begins (`Call`), a loop
about to take its next element (`Loop`), an answer (`Value`) or a refusal (`Null`).
A step is one turn: `capture_scalar`, `array_to_value` and `object_to_value` begin,
`skip_element` and `call_element` move a loop on, `attach` hands the answer to the
setter, `return_container` returns, `refuse` and `refuse_by_reference` throw, and
`abandon` frees a container and passes the NULL on. `owned` are the values that
bridge.c has to free or hand over; one that the setter took belongs to its parent,
whose `value_free` is ValueHeap's. `captured` is a history variable: each value that
was made, and of which zval. `Transferable` says what may be accepted without
following the code, level by level on the graph.

**Capture** adds the way back, in the same manner: `making` are the calls of
`kv_block_to_array` and `kv_block_to_object`, `turn` what runs on top of them,
`raised` is `EG(exception)`, `delivered` the history of what was made of which
value. It runs on a side that knows some of the classes (`Known`). An enum among
these cannot be instantiated and nothing looks whether it was: `object_init_ex`
gives `NoObject`, and the first write to it (`write_to_nothing`) is a NULL
dereference, after which nothing runs (`Crashed`). **CaptureImage**
computes from the zval, recursively and without following the code, what should
come out (`Image`).

**Values** and **Pack** are pure: a snapshot is a record, the reader and the
writer are operators over sequences of bytes, and a reading carries the heap
blocks it still holds. The state machine of Pack sends a value: its buffer may
be cut short, run into one byte more or have one byte changed before `Unpack`,
and what was accepted is packed and sent once more (`Repack`). The widths are scaled: `G`
data bits per byte (7 in the code) and `W` bits per word (64). `G = 3`, `W = 7`
keep what matters: the last group of a full word has one bit, a length of 8 takes
two bytes, every integer of the word is enumerated. A double is two opaque bytes
instead of eight. Duplicate keys, C strings cut at a NUL, NULL children and NULL
strings are as in the code.

**ValueHeap** is value.c and clone.c with addresses: `node`, `array` and `bytes`
map the addresses in use to nodes, element arrays and strings; `roots` are the
values callers own, `borrowed` is a pointer `value_arr_get_str` has handed out,
with the root it lies below. The setters share `insert`: a full array grows
(`FirstCap`, then doubling, by a `realloc` that always moves it), the child is
taken over, and the key's bytes are copied. `value_free` and `value_clone` recurse,
so `freeing` and `cloning` are stacks of their calls, and a step is one turn of the
loop over the elements: `free_element` frees a key and calls for the element,
`free_node` frees what is left and returns; `clone_element` copies a key and calls
for the element, `clone_return` gives the copy its array and hands it to the slot
it was made for. The heap is thus visible in the middle of every recursion, at any
depth. `copyOf` is a history variable, the nodes of the latest copy with their
originals. `MaxInt` scales `INT64_MAX`, so that the overflow of the next key is
within reach. Callers keep to the contract of value.h: they use what they own,
give up what they hand over or free, and drop what they borrowed from it; trees are
private to a thread, so one call at a time stands for all.

Operators named like another with a suffix (`grow_doubles`, `catch_silent`, ...)
are mutants: slips one could make in that code. The specifications do not use
them; each property must fail when the mutant named in `PROJECT.json` is put in.

## 3. The runs

| Run | Question | Bounds | States |
|---|---|---|---|
| `WaitGroup_threads` | counter, wakeups, lifetime, finality, in every interleaving; does every call return; is waitgroup.h implemented | 3 tasks, first capacity 1, 2 outcomes | 44 763 |
| `Worker_safety` | verdict, exceptions, cleanup on every path; is it a runner | `{closure, named}` x bootstrap or not | 1 135 |
| `Parallax_binding` | truth of results, errors, ownership of what `go()` allocates; does `wait()` return | 2 tasks, 1 argument, 2 groups | 19 150 |
| `Callable_resolution` | ownership on every path; is the right thing called | every form, inline closures with up to 2 variables | 1 340 |
| `ClosureScan_text` | which text is copied | files of up to 3 of 15 statements, on one line or several | 72 107 |
| `Capture_conversion` | what is accepted, what is allocated at every step, does each part mirror its counterpart, what arrives | 6 objects, 1 reference, depth limit 2, 5 addresses | 125 585 |
| `Pack_roundtrip` | round trip, wrong lengths, leaks, stability | 3-bit groups, 7-bit words, every tag, two levels of nesting, two hops | 165 302 |
| `ValueHeap_ownership` | ownership, leaks, exact and independent copies, borrowed pointers, at every step of a recursion | 4 nodes, 2 arrays, 2 strings, 2 owned values, integers -3 to 2 | 546 587 |

Why these bounds are enough to be of interest:

- *WaitGroup.* With three tasks two decrements race while a third thread starts
  or is refused, the array grows from 0 to 1 to 2 to 4, and a wait can fall
  between any two spawns; the proofs then lift the safety properties to any
  number of tasks. `FirstCap` is 8 in the code; 1 makes the growth happen.
- *Worker* has no bound: one task is one thread, and threads share nothing but
  the wait group. `named` stands for the kinds of a function and a method, which
  take the same path.
- *Parallax.* Two tasks let an autoloader spawn beyond the slot being collected
  and let a later `wait()` cover both; two groups give one orphan. `MaxTasks`
  bounds the tasks of a group, `MaxArgs` the arguments of one `go()`, `MaxGroups`
  the constructions. Proved for any values of the three.
- *Callable.* Nothing depends on more than two variables: the first that is
  refused decides.
- *ClosureScan.* The statements hold each construct once that can hide or show a
  keyword, a quote or a brace (strings of both kinds with escapes, the three
  comments, heredoc, nowdoc, attribute, a variable called `$function`, a named
  function, an arrow function, nested functions), before, inside and after a
  closure; three of them allow one before and one after. `MaxStatements` bounds
  the file.
- *Capture.* The limit is 256 in the code; with 2 there are values that end
  before the limit, at it, one level beyond it and never. Sharing and cycles go
  through an object's own slot, an added property, an array and a reference. Five
  addresses are more than are in use at once: three containers and an answer. The
  theorems hold for every graph, class table, limit and number of addresses.
- *Pack.* See the widths above.
- *ValueHeap.* Four nodes, two arrays and two strings hold an array with a keyed
  element and its copy, or an array in an array; first capacity 1 makes every
  second push move the elements, and callers ask for capacity 0 or 1 (`Caps`).
  The addresses bound the heap, `MaxRoots` the values callers own; there is no
  bound on the number of operations. `value_arr_set_int` is called with the key 1
  alone: a push after it takes the largest key, and one more
  overflows. Every property is proved for any
  values of these constants, negative keys included.

Deadlock is checked in `WaitGroup_threads`, where the caller can always begin
another call; in the other runs it is off because the system does stop: the
runner returns, the bound on groups or operations is reached, the recipe is
freed, or the one conversion is over.

Properties, by what they would catch:

- `RemainingExact`: the counter equals the number of threads that have still to
  store a decrement plus the slot under registration, at every instant.
- `SleeperHasWaker`: no lost wakeup. `EveryCallReturns`: no hang.
- `NoUseAfterFree`: no task or group is freed under a thread that will touch it.
- `SettledComplete`, `SettledStable`: what a wait covered is joined, has its
  outcome, and never changes. `ImplementsAPI`: the refinement.
- `HonoursContract`, `RecordedIsReported`, `CleanupBalanced`: the verdict is
  consistent; an exception that reaches the worker, by the trampoline or pending,
  is neither lost nor replaced (a bailout may take its place); request, TSRM storage
  and payload go, in that order, once.
  `ImplementsRunner`: for the thread, all of it is one step, and it comes.
- `ResultsTruthful`: an array of `wait()` is not made false by later spawns.
  `ErrorExplainsFailure`: a failed slot has an error. `OwnedOnce`: no snapshot and
  no callable is freed twice or dropped, but for the payloads counted as leaked.
  `WaitReturns`: however often it is re-entered.
- `OwnsItsRecipe`: on every way out exactly the recipe is held, or nothing and
  one exception thrown. `CallsTheSame`: the worker calls what was meant.
- `CopiesTheClosure`: a closure that is alone on its line, and without heredocs,
  is copied to the byte. `CopiesTheFirstFunction`: what is copied in all other
  cases (two closures on a line, arrow functions, `static` out of reach).
- `AcceptsExactlyTransferable`, `RefusalLeaksNothing`: which graphs are accepted,
  and that in the middle of the recursion, after a refusal and after an answer
  exactly what should be is allocated, once. `SnapshotIsExact`: every part of a
  snapshot has the keys of its zval, each once, and what was captured of its
  elements. `DeliveryIsExact`: the same from zval to zval, through the snapshot,
  with the exception, and with the crash, which needs a case of an enum that the
  other side finds. `Delivered`: the whole is `Image` of what was sent.
- `RoundTrip`, `WrongLengthRejected`, `NothingLeaks`: what is read is what was
  written, also the second time; only whole buffers; no block lost.
- `OneOwner`, `NothingLeaks`: every block of the heap has one owner, and can be
  reached from it. `CloneIsExact`: a copy is what its original is, node by node.
  `ValuesAreIndependent`: no operation disturbs a value it does not work on.
  `BorrowedStays`: what was borrowed stays until its owner is freed.

### Where the code does otherwise than its documents

Four runs check what documents say and find it violated (`findings` in
`PROJECT.json` quotes them):

- `Worker_BootstrapFailureSurfaces`: "One panicking worker yields `ok = false` in
  its slot" (`README.md:150`), "bootstrap bailed — surface as a worker error and
  short-circuit" (`bridge_worker.c:118`). The comment stands in an empty block; and
  what the bootstrap throws is handled and cleared inside `zend_execute_scripts`, so
  that the test at `bridge_worker.c:122` comes too late. Either way the task goes on
  in a request that is half set up, and may succeed.
- `Capture_AlwaysSucceeds`: `px_value_to_zval` "Always succeeds" (`bridge.h:41`): a
  case of an enum is accepted, and crashes the side that finds the enum
  (`bridge.c:301`, `bridge.c:306`).
- `Parallax_ResultsNeverLost`: "never throwing across the boundary", "partial
  results are never lost" (`README.md:150`): the conversion of one result may
  raise in `wait()` (a private or protected property, whose name cannot be
  written), and the exception takes the place of the whole array.
- `ClosureScan_HeredocsSkipped`: heredocs are skipped "before brace-balancing the
  body" (`CHANGELOG.md:35`): only the search for the keyword knows them.

Other differences are part of properties that hold, which say what the code does
and so record them:

| Said | Done | Seen in |
|---|---|---|
| "Either *result or *error must be set, never both" (`waitgroup.h:36`) | a bailout in a destructor after the result was set leaves both (`bridge_worker.c:312`); a success may have neither | `RunnerOutcome`, `HonoursContract` |
| `$error` is set "when !ok" (`README.md:136`) | not for a thread that was never started | `ErrorExplainsFailure` |
| "the runner takes ownership and must free it" of `args` (`waitgroup.h:33-34`) | the worker only reads them (`bridge_worker.c:152`); they stay with the task until `wg_destroy` frees them (`waitgroup.c:137`) | `snapshots` in `OwnedOnce` |
| "a malloc'd payload owned by the task" (`php_binding.c:125`) | only a worker whose request came up frees it; `wg_destroy` frees a task without it (`waitgroup.c:137`) | `lost` in `OwnedOnce` |
| by-reference material and cycles are refused (`bridge.h:35`) | a reference in a property is followed (`bridge.c:198`), and a cycle ends at the depth limit | `AcceptsExactlyTransferable` |
| a public-property DTO is fine (`README.md:181`) | refused if a typed property is uninitialised and the object has its property table (`bridge.c:217`) | `AcceptsExactlyTransferable` |
| `px_value_to_zval` "Always succeeds" (`bridge.h:41`) | raises for a name that cannot be written (`bridge.c:306`), besides the crash above | `DeliveryIsExact`, `Delivered` |
| first-class callables `Cls::method(...)` are supported (`README.md:31`) | the class that declares the method is called, not the one it was taken from (`bridge.c:116`) | `Unportable` in `CallsTheSame` |
| closures bound to `$this` are refused (`README.md:178`) | `$object->method(...)` is accepted and becomes a static call (`bridge.c:114`) | `Unportable` in `CallsTheSame` |
| closures by reference are refused (`bridge_closure.c:350`) | a static variable is too, once the closure has run (`bridge_closure.c:366`) | `Run` in Callable |
| the closure's text starts on its line (`bridge_closure.c:222`) | without the keyword there, the next `function` of the file is taken (`bridge_closure.c:251`) | `CopiesTheFirstFunction` |
| a leading `static` is kept (`bridge_closure.c:312`) | not at the very start of the line (`bridge_closure.c:318`) | `CopiesTheFirstFunction` |

One more is in a model and in no property: `value_arr_push` stores a "sequential int
key" (`value.h:76`), but after an element with the largest key the sum overflows
(`value.c:137`), and the element comes before all others. `PlusOne` of ValueHeap
wraps as the builds do, and the properties on ownership and copies hold with such
keys; in the repository only tests call `value_arr_push`.

### Fairness

- WaitGroup: weak fairness of every step a thread can take by itself, since the
  scheduler runs every thread. Strong fairness of `signal_lock` alone: a waiter
  that wakes spuriously again and again takes and releases the mutex, and a
  worker that finds it free infinitely often gets it. A runner is assumed to
  return: the code has no timeout, so a task that runs for ever blocks `wait()`
  for ever. Starting a call is the caller's choice and is not fair.
- Worker: weak fairness of the next step, that is, every engine call returns or
  bails out. `ImplementsRunner` turns it into the runner's return, which
  WaitGroup assumes.
- Parallax: tasks end, methods continue. Strong fairness of the loop of `wait()`
  because an autoloader may interrupt it with `go()`; `MaxTasks` bounds how often.
- The other specifications are about safety and state no fairness.

## 4. What is proved

| Module | Theorem | Statement |
|---|---|---|
| `WaitGroupProofs` | `Inductive` | `Spec => []IInv` |
| | `TypeCorrect`, `CounterExact`, `FreedIsQuiet`, `NoLostWakeup`, `WaitCompletes` | `Spec => []` of `TypeOK`, `RemainingExact`, `NoUseAfterFree`, `SleeperHasWaker`, `SettledComplete` |
| | `SettledFinal` | `Spec => SettledStable` |
| | `APIRefined` | `Spec => API!Init /\ [][API!Next]_(API!api)` |
| `WorkerProofs` | `Inductive` | `Spec => []IInv` |
| | `TypeCorrect`, `ContractHonoured`, `RecordedExceptionReported`, `CleanedUp` | `Spec => []` of `TypeOK`, `HonoursContract`, `RecordedIsReported`, `CleanupBalanced` |
| | `RunnerRefined` | `Spec => AsRunner!Init /\ [][AsRunner!Return]_(...)` |
| `ParallaxProofs` | `Inductive`, `Ownership` | `Spec => []IInv`, `Spec => []OInv` |
| | `TypeCorrect`, `ResultsStayTrue`, `FailuresExplained`, `OneOwner` | `Spec => []` of `TypeOK`, `ResultsTruthful`, `ErrorExplainsFailure`, `OwnedOnce` |
| `CallableProofs` | `Inductive` | `Spec => []IInv` |
| | `TypeCorrect`, `RecipeOwned`, `CalledAsMeant` | `Spec => []` of `TypeOK`, `OwnsItsRecipe`, `CallsTheSame` |
| `SnapshotProofs` | `SnapshotTypeCorrect`, `SnapshotAcceptsExactlyTransferable`, `SnapshotRefusalLeaksNothing`, `SnapshotMirrorsItsValue` | `Spec => []` of `TypeOK`, `AcceptsExactlyTransferable`, `RefusalLeaksNothing`, `SnapshotIsExact` |
| `CaptureProofs` | `DeliveryMirrorsItsValue`, `SnapshotIsKept` | `Conversion => []` of `DeliveryIsExact`, and of the four above |
| `ValueHeapTheorems` | `HeapInvariant`, `BorrowedIsBelowItsRoot` | `Spec => []IInv`, `Spec => []BorrowInv` |
| | `TypeCorrect`, `BlocksHaveOneOwner`, `NothingIsLost`, `CopiesAreExact` | `Spec => []` of `TypeOK`, `OneOwner`, `NothingLeaks`, `CloneIsExact` |
| | `ValuesStayApart`, `BorrowedIsStable` | `Spec => ValuesAreIndependent`, `Spec => BorrowedStays` |

The assumptions are those the modules state on their constants: `WGAssumption`
(a bound, a capacity of at least one, an outcome is not the blank), `KindAssumption`,
`BindingAssumption` (the bounds are numbers), `CallableAssumption` (which fields a
Closure has), `HeapAssumption` (`NULL` is no address, there is an empty string,
capacities are numbers and the first is not zero, keys are integers of the word),
and what the engine guarantees of its values and classes: `ZvalAssumption` (tags,
the keys of an array differ), `SnapshotAssumption` (property names are strings and
differ, a slot for each, a table where there are added ones) and `CaptureAssumption`
(stdClass is there on every side and can be instantiated, class names differ) and
`EnumAssumption` (a case of an enum has a property that is set, its name).
The bounds are parameters of the theorems: the results hold for every number of
tasks, arguments and groups, every set of callables, every graph of PHP values,
cyclic or infinite ones included, and every heap, finite or not.

**Wait group.** None of the properties is inductive as it stands. In the order the
strengthening `IInv` adds its parts:

1. `LockInv`: a thread between lock and unlock is the owner of the mutex, and
   so is the caller at the test of `wg_wait`. Hence at most one thread is there.
2. `LoadedInv`: what a thread has loaded is still `remaining - 1` when it stores.
   This is where the mutex pays: every other write of `remaining` needs it.
3. `RemainingExact` follows for the store, with the lemma `CounterStep` on how
   the cardinality of `Outstanding` changes when one slot enters or leaves it.
4. `SlotInv`: threads exist only in handed-out slots, and a slot's flag
   `joinable` says whether its thread has been joined; outside the window of
   `wg_go` a started thread is joinable.
5. `QuietInv`: slots the join or destroy loop has passed, and settled slots, are
   quiet: joined or never started. With `OutputInv` (a thread past its runner has
   left an outcome, and no other has) `NoUseAfterFree` and `SettledComplete` are
   consequences.
6. `SleepInv`: while the caller sleeps, `remaining` is positive; by
   `RemainingExact` some thread has not stored its decrement.

`CoreStep` proves that each step preserves `IInv`, one case per action.
`APIRefined` builds on it: `StepAPI` goes through the actions once more,
most of which change nothing of the mapped state (`Stutter`) or the status of one
slot (`OneStatus`). The return of `wg_wait` is the case that needs the invariant:
by `QuietInv` no slot is running when it is taken.

**Worker.** `DecidedInv` says what the task holds at each stage (nothing until it
is decided, then a success, a failure with its error, or anything on the way to
`zend_catch`), `RecordedInv` where an exception left to the worker still is (in
the slot, pending, or in the error), `OwnedInv` what the thread still has to shut
down. The contract,
the report and the cleanup are these three at the return. For `RunnerRefined`
every step but the last stutters, and the last leaves an element of
`RunnerOutcome` by `OwnedInv` and `DecidedInv`.

**Binding.** `IInv` is `GroupType`, `OutcomeInv` (a slot has an outcome exactly
when its task has ended), `CoveredInv` (the slots below `upto` are at rest) and
`ResultsTruthful`: a step that ends a task is at a running slot, so beyond
everything the array tells of. `OInv` adds the rest of the types and `OwnedOnce`;
its lemma `HoldingCount` splits the tasks that hold a payload into the running and
the ended ones, so that every step changes one cardinality by one.

**Callables.** `HeapInv` names the exact set of resources owed at each stage,
once each; `OutInv` ties the recipe and the exceptions to the outcome; `FormInv`
carries the checks of the entry to the end. Each step ends in one of three ways
(`GoInv`, `ThrowInv`, `SucceedInv`).

**Snapshots.** The properties speak of whole values, and the code is recursive over
them; with its calls on a stack, the proof is an induction over steps. `IInv` is
`TypeOK`, `RefusalLeaksNothing` and three parts:

1. `Calls`, for each frame: it was begun for the element its caller has come to, its
   container holds what was captured of the elements behind it (`SoFar`), and each
   of these ends within the levels left to it (`EndSoFar`). For an object this needs
   what `Elements` is: the declared properties, then the table, which lists them
   again as INDIRECT, then the added ones. The lemmas `SetElements`,
   `SetElementsDiffer` and `IndirectElement` say so, and that the test for "already
   captured" hits exactly the second listing.
2. `Answers`: an answer was captured of what was asked, which ends within the levels
   left, and NULL means that it does not. Each step either proves one more element
   good, and a container whose elements all are is good itself (`ArrayEnds`,
   `ObjectEnds`), or finds a bad one, and then so is everything above it
   (`ObjectEndsNot`, `IndirectElement`).
3. `Exact`: whatever was captured mirrors its zval and has a shape of its own.

At the empty stack, `Answers` is the acceptance theorem. `EndsWithin` is a recursive
function on numbers; that it is what its definition says (`EndsWithinStep`) is proved
by hand, as the library's theorem takes an operator.

**Deliveries.** `DInv` does the same for the way back: `Makes` says of each frame
what its container has of the pairs behind it (`MadeOf`: items in order, or the
properties written so far over the defaults of the class), `Chain` that each was begun
for the pair its caller has come to, `Turns` that an answer was delivered for what is
wanted, `Complete` that everything delivered has all its pairs, and `Accounted` that
an exception was raised by something that is delivered or being made. That nothing
is received once an object could not be created takes `EnumAssumption`, a property
to write; then the write crashes, so whatever is delivered could be made
(`DeliveredMakable`). An overwritten
key would lose a pair; `MadeShape` excludes it by `Exact`, that is, by the theorem
on snapshots. `PartRenders` then joins a pair of `delivered` with one of `captured`.

**Values.** Trees are not recursive data here but pointers, and calls are frames,
so the proofs are inductions over steps, with no induction over trees. `IInv` is
`TypeOK`, `OneOwner` and two parts that these need:

1. `FramesOK`: what each unfinished call may rely on. A node being copied has no
   elements yet, its block is as long as its original and filled up to `done` (but
   for the slot the call above it will fill), and each call of `value_free` has
   passed at most the elements there are. Without it nothing says that the array
   `clone_return` installs has a value in every slot.
2. `Originals`: no original has a copy among its elements, so what is being read
   is never what is being written, and `copyOf` is empty while something is freed.

`OneOwner` counts the slots `value_free` has passed as holding nothing, which is
what makes it true in the middle of a recursion, where pointers to freed children
still stand in the array. There is one lemma per operation (`MakeStep`,
`InsertStep`, `FreeStartStep`, `FreeElementStep`, `FreeNodeStep`, `CloneStartStep`,
`CloneElementStep`, `CloneReturnStep`): it gives `IInv'`, and what the step does to
the forest of values, which is one of five shapes (`NewTop`, `SameShape`,
`Attached`, `Detached`, `TopGone`), with the nodes it leaves alone. `EveryOutcome`
collects them, and the other properties follow from shapes without looking at
actions again:

- `NothingLeaks`: no shape closes a ring (`NoRing`: a set of nodes that are all
  elements of one another is empty), and going up from a node in a heap with one
  owner each ends, unless in a ring, at a caller or a call.
- `CloneIsExact`: `CopiesOK` says of every copy that it agrees with its original as
  far as it has been filled, and when no call is left it has been filled.
- `ValuesAreIndependent`: each shape leaves the nodes below a root alone, but for
  `Attached` at the root itself.
- `BorrowedStays`: `BorrowInv` puts what is borrowed below a root that is still
  owned, through every hand-over, and apart from the root itself, the only node a
  setter changes.

Only model-checked: the liveness properties and with them `ImplementsAPI` and
`ImplementsRunner` as a whole (fairness and `ENABLED` are beyond the prover; their
safety halves are proved), everything in Pack and ClosureScan, and `Delivered`, which
are recursive over values and text: what a recursive definition computes for every
input is a matter of induction over data, which the prover cannot do. `Delivered`
compares the whole with `Image`; `DeliveryIsExact`, which is proved, compares every
part with its counterpart.

## 5. Not modelled, and the plan

Left out of modules that model the rest of their component:

- *Worker.* A handler that user code installs over the trampoline
  (`bridge_worker.c:147`) takes its exceptions with it: for the worker, that code
  did not raise. The exit for arguments that are not an array
  (`bridge_worker.c:153`) is never taken, as `go()` builds one. A conversion of
  arguments that crashes is in Capture; here, and in Parallax, conversions return,
  raise or bail out.
- *Binding.* A `wait()` or `__construct` called on the object from inside its own
  `wait()`; `clone` of the object; a second object (objects share no state);
  `count()`, which changes nothing. A `VAL_ERR` that `wait()` turns into a
  `ParallaxWorkerError` is the field `error` of a result.
- *Conversion.* An exception thrown by a class autoloader is `raised` in Parallax
  and not in Capture. An exception raised where no PHP frame is, as in a worker,
  may bail out at once: Worker has the bailout, Capture goes on. The virtual
  (hooked) properties of PHP 8.4, which have no slot, are not among those declared
  (`bridge.c:194`). Static properties, which the loop skips, have no slot in the
  model; of a private property of a parent class that a subclass declares again,
  only the one the subclass sees is in its table.
- *Callables.* The visibility of a method taken as a first-class callable; named
  arguments of `go()`, which become positional.
- *Closure text.* What a copied text loses of its file: namespace, `use` imports,
  `__CLASS__`. Strings with interpolated expressions that hold quotes themselves.
  Labels longer than the buffer of 63 bytes. The case of the keyword, which the
  scanner compares as written (`bridge_closure.c:147`); `?>` and backticks.
- *Values.* A `VAL_ERR` is a leaf with three C strings; ValueHeap has leaves with
  one byte string, Values and Pack have the errors. A `realloc` that leaves the
  array where it is changes no address and is not told apart from one that moves
  it. Growth of the write buffer of the packer aborts or succeeds.

Left out for good: registration of the module, classes and ini settings
(declarative), the engine itself, allocation failure (nearly every `malloc` failure
is `abort()`), stack depth, the wording of messages, packaging, stubs and examples.

What is left of the plan:

1. A composition of WaitGroup with Worker as the runner of each thread. The
   pieces are there: Worker implements Runner, whose step is WaitGroup's `runner`
   for one slot with `Outcome <- RunnerOutcome`, and WaitGroup implements the API
   that Parallax uses. What is missing is the statement in one module.
2. A composition of Callable with ClosureScan, so that `locate` answers what the
   scanner finds and `CallsTheSame` speaks of the text too.
3. The re-entered `wait()` of the binding.
4. The scanner and the reader of the wire format as steps with a stack, as
   ValueHeap and Snapshot have the recursions of value.c and bridge.c: what they hold and where they stand could
   then be proved by induction over steps, and not only model-checked.
