----------------------------- MODULE MCCallable -----------------------------
(***************************************************************************)
(* Callables: every form, with a class that inherits the method it is asked  *)
(* for, and inline closures with up to two variables of every kind.          *)
(***************************************************************************)
EXTENDS Callable

Strings == [type : {"string"}, class : {None, "Base"}, fn : {"f"}]
Arrays == [type : {"array"}, n : {1, 2}, first : {"string", "object", "missing"},
           second : {"string", "other"}, class : {"Base"}, fn : {"f"}]
Fakes == {[type |-> "fake", scope |-> s, called |-> c, this |-> t, fn |-> "f"] :
            <<s, c, t>> \in {<<None, None, FALSE>>} \cup
              ({"Base"} \X {"Base", "Child"} \X BOOLEAN)}
Vars == {UseVar(slot) : slot \in {"transferable", "refused", "undef"}}
          \cup {UseRef, StaticVar}
Inlines == [type : {"inline"}, user : BOOLEAN, this : BOOLEAN,
            file : {None, "eval", "path"}, fn : {"closure"},
            vars : {<<>>} \cup {<<v>> : v \in Vars} \cup (Vars \X Vars)]
MCCallables ==
  Strings \cup Arrays \cup Fakes \cup Inlines \cup {[type |-> "other"]}
=============================================================================
