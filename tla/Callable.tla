------------------------------ MODULE Callable ------------------------------
(***************************************************************************)
(* px_resolve_callable: a PHP callable becomes a recipe that a worker can    *)
(* follow without the caller's memory.  bridge.c handles names, arrays and   *)
(* first-class callables, bridge_closure.c inline closures, for which it     *)
(* reads the source file (what the scanner finds in it is ClosureScan) and    *)
(* captures the variables.  Every block, and the FILE, is counted.           *)
(***************************************************************************)
EXTENDS Integers, Sequences

CONSTANTS Callables   \* zvals passed to go()

\* Of a Closure PHP knows whether it is bound to an object; and the fields of
\* an inline one.
ASSUME CallableAssumption ==
  \A c \in Callables :
    /\ c.type \in {"fake", "inline"} => c.this \in BOOLEAN
    /\ c.type = "inline" =>
         DOMAIN c = {"type", "user", "this", "file", "fn", "vars"}

VARIABLES callable,   \* the zval; running a closure changes its variables
          pc,         \* where px_resolve_callable is
          owned,      \* resource -> how many of it are held
          thrown,     \* causes of the exceptions thrown
          out         \* *out

vars == <<callable, pc, owned, thrown, out>>

Resources == {"class_name", "fn_name", "closure_wrapper", "closure_captures",
              "FILE", "src", "text", "err", "captures", "wrapper"}
Nothing == [r \in Resources |-> 0]
Without(used, freed) ==
  [r \in Resources |-> IF r \in freed THEN used[r] - 1 ELSE used[r]]
With(used, taken) ==
  [r \in Resources |-> IF r \in taken THEN used[r] + 1 ELSE used[r]]

\* A recipe; the strings of a closure's recipe are its resources.
None == "none"
Recipe(kind, class, fn) == [kind |-> kind, class |-> class, fn |-> fn]
Zeroed == Recipe(None, None, None)

\* The variables of a closure: from `use ($v)` or `use (&$v)`, or declared
\* static in its body; and what each one's slot holds.
UseVar(slot) == [from |-> "use", slot |-> slot]
UseRef == [from |-> "use by reference", slot |-> "reference"]
StaticVar == [from |-> "static", slot |-> "transferable"]

Init == /\ callable \in Callables /\ pc = "call"
        /\ owned = Nothing /\ thrown = <<>> /\ out = Zeroed

\* The closure runs on the caller's thread: from then on its static variables
\* are PHP references (engine).
Run == /\ pc = "call" /\ callable.type = "inline"
       /\ callable' = [callable EXCEPT !.vars = [i \in DOMAIN @ |->
            IF @[i].from = "static" THEN [@[i] EXCEPT !.slot = "reference"]
            ELSE @[i]]]
       /\ UNCHANGED <<pc, owned, thrown, out>>

-----------------------------------------------------------------------------
\* Returns of px_resolve_callable and px_resolve_inline_closure.

Succeed(recipe, used) ==
  /\ out' = recipe /\ owned' = used /\ pc' = "resolved"
  /\ UNCHANGED <<callable, thrown>>

Throw(cause, used) ==
  /\ owned' = used /\ pc' = "refused" /\ thrown' = Append(thrown, cause)
  /\ UNCHANGED <<callable, out>>

Go(next, used) ==
  /\ pc' = next /\ owned' = used /\ UNCHANGED <<callable, thrown, out>>

Function(fn) == Succeed(Recipe("FUNCTION", None, fn), With(owned, {"fn_name"}))
StaticMethod(class, fn) ==
  Succeed(Recipe("STATIC_METH", class, fn),
          With(owned, {"class_name", "fn_name"}))

\* "fname" or "Cls::method".
resolve_string ==
  /\ pc = "call" /\ callable.type = "string"
  /\ IF callable.class = None THEN Function(callable.fn)
     ELSE StaticMethod(callable.class, callable.fn)

\* Mutant: only the second element is looked at.
IsStaticPair_loose(pair) == pair.n = 2 /\ pair.second = "string"

IsStaticPair(pair) ==
  pair.n = 2 /\ pair.first = "string" /\ pair.second = "string"

\* [class|object, "method"]
resolve_array ==
  /\ pc = "call" /\ callable.type = "array"
  /\ IF IsStaticPair(callable) THEN StaticMethod(callable.class, callable.fn)
     ELSE Throw(IF callable.n = 2 /\ callable.second = "string"
                   /\ callable.first = "object"
                THEN "instance" ELSE "spawn", owned)

\* fname(...), Cls::method(...), and $object->method(...): the class is the one
\* that declares the method.
resolve_fake_closure ==
  /\ pc = "call" /\ callable.type = "fake"
  /\ IF callable.scope = None THEN Function(callable.fn)
     ELSE StaticMethod(callable.scope, callable.fn)

resolve_other == pc = "call" /\ callable.type = "other" /\ Throw("spawn", owned)

-----------------------------------------------------------------------------
\* px_resolve_inline_closure.

inline_reject ==
  /\ pc = "call" /\ callable.type = "inline"
  /\ \/ ~callable.user /\ Throw("internal", owned)
     \/ callable.user /\ callable.this /\ Throw("this", owned)
     \/ callable.user /\ ~callable.this /\ callable.file = None
          /\ Throw("source", owned)

inline_begin ==
  /\ pc = "call" /\ callable.type = "inline"
  /\ callable.user /\ ~callable.this /\ callable.file # None
  /\ IF callable.file = "eval" THEN Go("failed", With(owned, {"err"}))
     ELSE Go("open", owned)

fopen == /\ pc = "open"
         /\ \/ Go("failed", With(owned, {"err"}))
            \/ Go("read", With(owned, {"FILE"}))

\* The seek, the tell or the malloc fails; the read falls short and the buffer
\* is freed; or it is complete.
read_file_all ==
  /\ pc = "read"
  /\ LET closed == Without(owned, {"FILE"})
     IN \/ Go("failed", With(closed, {"err"}))
        \/ Go("locate", With(closed, {"src"}))

\* Line out of range, no keyword, no brace, unbalanced braces, no memory: each
\* frees the file and leaves a cause.
locate ==
  /\ pc = "locate"
  /\ LET freed == Without(owned, {"src"})
     IN \/ Go("failed", With(freed, {"err"}))
        \/ Go("snapshot", With(freed, {"text"}))

extraction_failed == pc = "failed" /\ Throw("source", Without(owned, {"err"}))

\* Mutants: the text of a refused closure is kept; its captures, which
\* snapshot_captures has freed, are freed again.
Refused_keeps_text(used) == used
Refused_frees_captures(used) == Without(used, {"text", "captures"})

Refused(used) == Without(used, {"text"})

\* The array is freed at the first slot that is refused: a reference, or what
\* px_zval_to_value refuses as well (Capture).
snapshot_captures ==
  /\ pc = "snapshot"
  /\ LET Bad == {i \in DOMAIN callable.vars :
                    callable.vars[i].slot # "transferable"}
         first == callable.vars[CHOOSE i \in Bad : \A j \in Bad : i <= j]
     IN IF Bad = {} THEN Go("wrap", With(owned, {"captures", "wrapper"}))
        ELSE Throw(IF first.slot = "reference" THEN "by reference" ELSE "capture",
                   Refused(owned))

wrap ==
  /\ pc = "wrap"
  /\ \/ Throw("memory", Without(owned, {"wrapper", "captures", "text"}))
     \/ Succeed(Recipe("CLOSURE", None, callable.fn),
          With(Without(owned, {"wrapper", "captures", "text"}),
               {"closure_wrapper", "closure_captures"}))

\* px_callable_free frees every field, the NULL ones too.
px_callable_free ==
  /\ pc = "resolved" /\ pc' = "freed" /\ out' = Zeroed
  /\ owned' = [r \in Resources |->
       IF r \in {"class_name", "fn_name", "closure_wrapper", "closure_captures"}
       THEN 0 ELSE owned[r]]
  /\ UNCHANGED <<callable, thrown>>

Next == \/ Run \/ resolve_string \/ resolve_array \/ resolve_fake_closure
        \/ resolve_other \/ inline_reject \/ inline_begin \/ fopen
        \/ read_file_all \/ locate \/ extraction_failed \/ snapshot_captures
        \/ wrap \/ px_callable_free

Spec == Init /\ [][Next]_vars

-----------------------------------------------------------------------------
\* Properties.

Accepted == pc = "resolved"
Held == {r \in Resources : owned[r] # 0}

\* No block is freed that is not held, and none is taken twice.
TypeOK == /\ pc \in {"call", "open", "read", "locate", "failed", "snapshot",
                     "wrap", "resolved", "refused", "freed"}
          /\ owned \in [Resources -> 0..1]
          /\ out.kind \in {None, "FUNCTION", "STATIC_METH", "CLOSURE"}

\* On return the caller holds exactly the strings of the recipe and no
\* exception was thrown; or it holds nothing, whichever call failed half-way,
\* and exactly one was.  Freeing the recipe gives everything back
\* (bridge.c:14-132, bridge_closure.c:225-461).
OwnsItsRecipe ==
  /\ pc \in {"refused", "freed"} => Held = {}
  /\ pc = "refused" => Len(thrown) = 1 /\ out = Zeroed
  /\ Accepted =>
       /\ thrown = <<>>
       /\ Held = CASE out.kind = "FUNCTION" -> {"fn_name"}
                   [] out.kind = "STATIC_METH" -> {"class_name", "fn_name"}
                   [] out.kind = "CLOSURE" ->
                          {"closure_wrapper", "closure_captures"}

\* What the caller's own engine would call, and what the worker calls.
Target(class, fn, this) == [class |-> class, fn |-> fn, this |-> this]
Meant ==
  CASE callable.type = "string" -> Target(callable.class, callable.fn, FALSE)
    [] callable.type = "array" ->
         Target(callable.class, callable.fn, callable.first = "object")
    [] callable.type = "fake" ->
         Target(callable.called, callable.fn, callable.this)
    [] callable.type = "inline" -> Target(None, callable.fn, callable.this)
Called == Target(out.class, out.fn, FALSE)

\* First-class callables whose object or called class has no room in a recipe.
Unportable == /\ callable.type = "fake"
              /\ callable.this \/ callable.called # callable.scope

\* A callable that is accepted calls the same function of the same class in the
\* worker, whatever form it was written in (bridge.c:60-132).
CallsTheSame == Accepted /\ ~Unportable => Called = Meant
=============================================================================
