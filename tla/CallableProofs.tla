---------------------------- MODULE CallableProofs ----------------------------
(***************************************************************************)
(* Callable resolution for every set of callables: which resources are held *)
(* at every stage, so that each is freed once on every path, and that what   *)
(* is accepted is called as it was meant.                                   *)
(***************************************************************************)
EXTENDS Callable, TLAPS

\* What is held at each stage, and once each.
Owed(stage, kind) ==
  CASE stage = "read" -> {"FILE"}
    [] stage = "locate" -> {"src"}
    [] stage = "failed" -> {"err"}
    [] stage = "snapshot" -> {"text"}
    [] stage = "wrap" -> {"text", "captures", "wrapper"}
    [] stage = "resolved" /\ kind = "FUNCTION" -> {"fn_name"}
    [] stage = "resolved" /\ kind = "STATIC_METH" -> {"class_name", "fn_name"}
    [] stage = "resolved" /\ kind = "CLOSURE" ->
         {"closure_wrapper", "closure_captures"}
    [] OTHER -> {}
Once(held) == [r \in Resources |-> IF r \in held THEN 1 ELSE 0]

Stages == {"call", "open", "read", "locate", "failed", "snapshot", "wrap",
           "resolved", "refused", "freed"}
Kinds == {"FUNCTION", "STATIC_METH", "CLOSURE"}
Inside == {"open", "read", "locate", "failed", "snapshot", "wrap"}

HeapInv == owned = Once(Owed(pc, out.kind))

\* The recipe is filled in by the step that succeeds, an exception thrown by
\* the one that fails.
OutInv ==
  /\ pc \in Stages
  /\ pc = "resolved" => out.kind \in Kinds
  /\ pc # "resolved" => out = Zeroed
  /\ IF pc = "refused" THEN Len(thrown) = 1 ELSE thrown = <<>>

\* An inline closure gets past the checks only without an object.
Inline(c) == DOMAIN c = {"type", "user", "this", "file", "fn", "vars"}
FormInv ==
  /\ callable.type \in {"fake", "inline"} => callable.this \in BOOLEAN
  /\ callable.type = "inline" => Inline(callable)
  /\ pc \in Inside => callable.type = "inline" /\ callable.this = FALSE
  /\ CallsTheSame

IInv == HeapInv /\ OutInv /\ FormInv

-----------------------------------------------------------------------------
\* Taking what is not held.
LEMMA WithOnce ==
  ASSUME NEW held, NEW taken, taken \cap held = {}
  PROVE  With(Once(held), taken) = Once(held \cup taken)
  BY DEF With, Once

\* Freeing what is.
LEMMA WithoutOnce ==
  ASSUME NEW held, NEW freed, freed \subseteq held
  PROVE  Without(Once(held), freed) = Once(held \ freed)
  BY DEF Without, Once

\* Nothing is held before the call.
LEMMA InitIInv == Init => IInv
<1> SUFFICES ASSUME Init PROVE IInv
  OBVIOUS
<1>1. HeapInv
  BY DEF Init, HeapInv, Once, Owed, Nothing
<1>2. OutInv
  BY DEF Init, OutInv, Stages
<1>3. FormInv
  BY CallableAssumption DEF Init, CallableAssumption, FormInv, Inline, Inside,
     CallsTheSame, Accepted
<1> QED BY <1>1, <1>2, <1>3 DEF IInv

\* A step inside px_resolve_inline_closure.
LEMMA GoInv ==
  ASSUME IInv, callable.type = "inline", callable.this = FALSE,
         pc \notin {"resolved", "refused"}, NEW next \in Inside,
         Go(next, Once(Owed(next, None)))
  PROVE  IInv'
<1> USE DEF IInv, Go
<1>1. HeapInv'
  BY DEF HeapInv, OutInv, Zeroed, Recipe
<1>2. OutInv'
  BY DEF OutInv, Inside, Stages
<1>3. FormInv'
  BY DEF FormInv, Inside, CallsTheSame, Accepted
<1> QED BY <1>1, <1>2, <1>3

\* A return with an exception, which holds nothing.
LEMMA ThrowInv ==
  ASSUME IInv, pc \notin {"resolved", "refused"}, NEW cause,
         Throw(cause, Once({}))
  PROVE  IInv'
<1> USE DEF IInv, Throw
<1>1. HeapInv'
  BY DEF HeapInv, Owed
<1>2. OutInv'
  <2>1. thrown = <<>>
    BY DEF OutInv
  <2>2. Len(Append(<<>>, cause)) = 1
    OBVIOUS
  <2> QED BY <2>1, <2>2 DEF OutInv, Stages
<1>3. FormInv'
  BY DEF FormInv, Inside, CallsTheSame, Accepted
<1> QED BY <1>1, <1>2, <1>3

\* A return with a recipe, which holds what it names.
LEMMA SucceedInv ==
  ASSUME IInv, pc \notin {"resolved", "refused"},
         NEW kind \in Kinds, NEW class, NEW fn,
         Succeed(Recipe(kind, class, fn), Once(Owed("resolved", kind))),
         CallsTheSame'
  PROVE  IInv'
<1> USE DEF IInv, Succeed
<1>0. out'.kind = kind
  BY DEF Recipe
<1>1. HeapInv'
  BY <1>0 DEF HeapInv
<1>2. OutInv'
  BY <1>0 DEF OutInv, Stages
<1>3. FormInv'
  BY DEF FormInv, Inside
<1> QED BY <1>1, <1>2, <1>3

-----------------------------------------------------------------------------
\* Every step leaves exactly what the next stage is to hold, throws if and only
\* if it refuses, and calls what was meant.
LEMMA NextIInv == IInv /\ [Next]_vars => IInv'
<1> SUFFICES ASSUME IInv, [Next]_vars PROVE IInv'
  OBVIOUS
<1>h. owned = Once(Owed(pc, out.kind))
  BY DEF IInv, HeapInv
<1>o. pc # "resolved" => out = Zeroed
  BY DEF IInv, OutInv
<1>f. pc \in Inside => callable.type = "inline" /\ callable.this = FALSE
  BY DEF IInv, FormInv
<1>c. pc = "call" => owned = Once({})
  BY <1>h DEF Owed
<1>1. CASE UNCHANGED vars
  BY <1>1 DEF vars, IInv, HeapInv, OutInv, FormInv, CallsTheSame, Accepted,
     Called, Meant, Unportable, Target
<1>2. CASE Run
  <2>1. /\ callable'.type = "inline" /\ callable'.this = callable.this
        /\ DOMAIN callable' = DOMAIN callable
    BY <1>2 DEF Run, IInv, FormInv, Inline
  <2>2. UNCHANGED <<pc, owned, thrown, out>> /\ pc = "call"
    BY <1>2 DEF Run
  <2>3. HeapInv' /\ OutInv'
    BY <2>2 DEF IInv, HeapInv, OutInv
  <2>4. FormInv'
    BY <1>2, <2>1, <2>2 DEF IInv, FormInv, Inline, Inside, CallsTheSame,
       Accepted, Run
  <2> QED BY <2>3, <2>4 DEF IInv
<1>s. ASSUME pc = "call", callable.type # "inline",
             NEW class, NEW fn,
             (Function(fn) /\ class = None) \/ StaticMethod(class, fn),
             Unportable' \/ Target(class, fn, FALSE) = Meant'
      PROVE  IInv'
  <2>1. CASE Function(fn) /\ class = None
    <3>1. With(owned, {"fn_name"}) = Once(Owed("resolved", "FUNCTION"))
      BY <1>s, <1>c, WithOnce DEF Owed
    <3>2. CallsTheSame'
      BY <1>s, <2>1 DEF Function, Succeed, CallsTheSame, Called, Recipe
    <3> QED BY <1>s, <2>1, <3>1, <3>2, SucceedInv DEF Function, Kinds
  <2>2. CASE StaticMethod(class, fn)
    <3>1. With(owned, {"class_name", "fn_name"})
            = Once(Owed("resolved", "STATIC_METH"))
      BY <1>s, <1>c, WithOnce DEF Owed
    <3>2. CallsTheSame'
      BY <1>s, <2>2 DEF StaticMethod, Succeed, CallsTheSame, Called, Recipe
    <3> QED BY <1>s, <2>2, <3>1, <3>2, SucceedInv DEF StaticMethod, Kinds
  <2> QED BY <1>s, <2>1, <2>2
<1>3. CASE resolve_string
  <2>1. callable' = callable
    BY <1>3 DEF resolve_string, Function, StaticMethod, Succeed
  <2>2. Meant' = Target(callable.class, callable.fn, FALSE)
    BY <1>3, <2>1 DEF Meant, resolve_string
  <2> QED BY <1>3, <2>2, <1>s DEF resolve_string
<1>4. CASE resolve_array
  <2>1. CASE IsStaticPair(callable)
    <3>1. callable' = callable
      BY <1>4, <2>1 DEF resolve_array, StaticMethod, Succeed
    <3>2. Meant' = Target(callable.class, callable.fn, FALSE)
      BY <1>4, <2>1, <3>1 DEF Meant, resolve_array, IsStaticPair
    <3> QED BY <1>4, <2>1, <3>2, <1>s DEF resolve_array
  <2>2. CASE ~IsStaticPair(callable)
    BY <1>4, <2>2, <1>c, ThrowInv DEF resolve_array
  <2> QED BY <2>1, <2>2
<1>5. CASE resolve_fake_closure
  <2>1. callable' = callable
    BY <1>5 DEF resolve_fake_closure, Function, StaticMethod, Succeed
  <2>2. \/ Unportable'
        \/ Meant' = Target(callable.scope, callable.fn, FALSE)
    BY <1>5, <2>1 DEF Meant, Unportable, resolve_fake_closure, IInv, FormInv
  <2> QED BY <1>5, <2>2, <1>s DEF resolve_fake_closure
<1>6. CASE resolve_other
  BY <1>6, <1>c, ThrowInv DEF resolve_other
<1>7. CASE inline_reject
  BY <1>7, <1>c, ThrowInv DEF inline_reject
<1>8. CASE inline_begin
  <2>1. callable.type = "inline" /\ callable.this = FALSE /\ pc = "call"
    BY <1>8 DEF inline_begin, IInv, FormInv
  <2>2. With(owned, {"err"}) = Once(Owed("failed", None))
    BY <1>c, <2>1, WithOnce DEF Owed
  <2>3. owned = Once(Owed("open", None))
    BY <1>c, <2>1 DEF Owed
  <2> QED BY <1>8, <2>1, <2>2, <2>3, GoInv DEF inline_begin, Inside
<1>9. CASE fopen
  <2>1. owned = Once({}) /\ pc = "open"
    BY <1>9, <1>h DEF fopen, Owed
  <2>2. /\ With(owned, {"err"}) = Once(Owed("failed", None))
        /\ With(owned, {"FILE"}) = Once(Owed("read", None))
    BY <2>1, WithOnce DEF Owed
  <2> QED BY <1>9, <1>f, <2>1, <2>2, GoInv DEF fopen, Inside
<1>10. CASE read_file_all
  <2>1. owned = Once({"FILE"}) /\ pc = "read"
    BY <1>10, <1>h DEF read_file_all, Owed
  <2>2. Without(owned, {"FILE"}) = Once({})
    BY <2>1, WithoutOnce
  <2>3. /\ With(Once({}), {"err"}) = Once(Owed("failed", None))
        /\ With(Once({}), {"src"}) = Once(Owed("locate", None))
    BY WithOnce DEF Owed
  <2> QED BY <1>10, <1>f, <2>1, <2>2, <2>3, GoInv DEF read_file_all, Inside
<1>11. CASE locate
  <2>1. owned = Once({"src"}) /\ pc = "locate"
    BY <1>11, <1>h DEF locate, Owed
  <2>2. Without(owned, {"src"}) = Once({})
    BY <2>1, WithoutOnce
  <2>3. /\ With(Once({}), {"err"}) = Once(Owed("failed", None))
        /\ With(Once({}), {"text"}) = Once(Owed("snapshot", None))
    BY WithOnce DEF Owed
  <2> QED BY <1>11, <1>f, <2>1, <2>2, <2>3, GoInv DEF locate, Inside
<1>12. CASE extraction_failed
  <2>1. owned = Once({"err"}) /\ pc = "failed"
    BY <1>12, <1>h DEF extraction_failed, Owed
  <2>2. Without(owned, {"err"}) = Once({})
    BY <2>1, WithoutOnce
  <2> QED BY <1>12, <2>1, <2>2, ThrowInv DEF extraction_failed
<1>13. CASE snapshot_captures
  <2>1. owned = Once({"text"}) /\ pc = "snapshot"
    BY <1>13, <1>h DEF snapshot_captures, Owed
  <2>2. With(owned, {"captures", "wrapper"}) = Once(Owed("wrap", None))
    BY <2>1, WithOnce DEF Owed
  <2>3. Refused(owned) = Once({})
    BY <2>1, WithoutOnce DEF Refused
  <2>4. \/ Go("wrap", With(owned, {"captures", "wrapper"}))
        \/ \E cause : Throw(cause, Refused(owned))
    BY <1>13 DEF snapshot_captures
  <2> QED BY <1>f, <2>1, <2>2, <2>3, <2>4, GoInv, ThrowInv DEF Inside
<1>14. CASE wrap
  <2>1. owned = Once({"text", "captures", "wrapper"}) /\ pc = "wrap"
    BY <1>14, <1>h DEF wrap, Owed
  <2>2. Without(owned, {"wrapper", "captures", "text"}) = Once({})
    BY <2>1, WithoutOnce
  <2>3. With(Once({}), {"closure_wrapper", "closure_captures"})
          = Once(Owed("resolved", "CLOSURE"))
    BY WithOnce DEF Owed
  <2>4. CASE Throw("memory", Without(owned, {"wrapper", "captures", "text"}))
    BY <2>1, <2>2, <2>4, ThrowInv
  <2>5. CASE Succeed(Recipe("CLOSURE", None, callable.fn),
          With(Without(owned, {"wrapper", "captures", "text"}),
               {"closure_wrapper", "closure_captures"}))
    <3>1. callable' = callable /\ callable.type = "inline"
          /\ callable.this = FALSE
      BY <1>f, <2>1, <2>5 DEF Succeed, Inside
    <3>2. CallsTheSame'
      BY <2>5, <3>1 DEF CallsTheSame, Called, Meant, Succeed, Recipe
    <3> QED BY <2>1, <2>2, <2>3, <2>5, <3>2, SucceedInv DEF Kinds
  <2> QED BY <1>14, <2>4, <2>5 DEF wrap
<1>15. CASE px_callable_free
  <2>1. pc = "resolved" /\ pc' = "freed" /\ out' = Zeroed
        /\ UNCHANGED <<callable, thrown>> /\ out.kind \in Kinds
    BY <1>15 DEF px_callable_free, IInv, OutInv
  <2>2. Owed(pc, out.kind) \subseteq
          {"class_name", "fn_name", "closure_wrapper", "closure_captures"}
    BY <2>1 DEF Owed, Kinds
  <2>3. owned' = Once({})
    BY <1>15, <1>h, <2>2 DEF px_callable_free, Once
  <2>4. HeapInv' /\ OutInv'
    BY <2>1, <2>3 DEF HeapInv, OutInv, IInv, Owed, Stages
  <2>5. FormInv'
    BY <2>1 DEF IInv, FormInv, Inside, CallsTheSame, Accepted
  <2> QED BY <2>4, <2>5 DEF IInv
<1> QED BY <1>1, <1>2, <1>3, <1>4, <1>5, <1>6, <1>7, <1>8, <1>9, <1>10, <1>11,
           <1>12, <1>13, <1>14, <1>15 DEF Next

\* IInv is an invariant of every behaviour.
THEOREM Inductive == Spec => []IInv
<1> QED BY InitIInv, NextIInv, PTL DEF Spec

\* Nothing is freed that is not held, and nothing is taken twice, whatever
\* callables there are.
THEOREM TypeCorrect == Spec => []TypeOK
<1>1. IInv => TypeOK
  <2> SUFFICES ASSUME IInv PROVE TypeOK
    OBVIOUS
  <2>1. owned \in [Resources -> 0 .. 1]
    BY DEF IInv, HeapInv, Once
  <2>2. out.kind \in {None, "FUNCTION", "STATIC_METH", "CLOSURE"}
    BY DEF IInv, OutInv, Kinds, Zeroed, Recipe
  <2> QED BY <2>1, <2>2 DEF TypeOK, IInv, OutInv, Stages
<1> QED BY Inductive, <1>1, PTL

\* On every return the caller holds the strings of the recipe, or nothing and
\* one exception (px_resolve_callable, px_resolve_inline_closure).
THEOREM RecipeOwned == Spec => []OwnsItsRecipe
<1>1. IInv => OwnsItsRecipe
  <2> SUFFICES ASSUME IInv PROVE OwnsItsRecipe
    OBVIOUS
  <2>1. Held = Owed(pc, out.kind) \cap Resources
    BY DEF IInv, HeapInv, Held, Once
  <2>2. pc \in {"refused", "freed"} => Held = {}
    BY <2>1 DEF Owed
  <2>3. pc = "refused" => Len(thrown) = 1 /\ out = Zeroed
    BY DEF IInv, OutInv
  <2>4. Accepted => thrown = <<>> /\ out.kind \in Kinds
    BY DEF IInv, OutInv, Accepted
  <2>5. ASSUME Accepted
        PROVE  Held = CASE out.kind = "FUNCTION" -> {"fn_name"}
                   [] out.kind = "STATIC_METH" -> {"class_name", "fn_name"}
                   [] out.kind = "CLOSURE" -> {"closure_wrapper", "closure_captures"}
    BY <2>1, <2>4, <2>5 DEF Owed, Accepted, Kinds, Resources
  <2> QED BY <2>2, <2>3, <2>4, <2>5 DEF OwnsItsRecipe
<1> QED BY Inductive, <1>1, PTL

\* What is accepted is called in the worker as the caller meant it, but for the
\* first-class callables that do not fit into a recipe.
THEOREM CalledAsMeant == Spec => []CallsTheSame
<1>1. IInv => CallsTheSame
  BY DEF IInv, FormInv
<1> QED BY Inductive, <1>1, PTL
=============================================================================
