---------------------------- MODULE CaptureImage ----------------------------
(***************************************************************************)
(* What a snapshot becomes on the other side, computed from the PHP value    *)
(* from top to bottom, without following bridge.c.                           *)
(***************************************************************************)
EXTENDS Capture

\* Zvals at distance n of the root, as a sequence of sets.
RECURSIVE Levels(_, _)
Levels(level, n) ==
  IF n = 0 THEN <<level>>
  ELSE <<level>> \o Levels(UNION {Children(zv) : zv \in level}, n - 1)

Within == UNION ToSet(Levels({root}, MaxDepth))

\* The value itself on a side that knows some classes; only for a value that
\* ends.
RECURSIVE Image(_, _)
Image(zv, known) ==
  CASE zv.tag = "array" ->
         Array([i \in DOMAIN zv.items |->
                  Item(zv.items[i].key, Image(zv.items[i].val, known))])
    [] zv.tag = "object" ->
         LET c == zend_lookup_class(Class(zv.handle).name, known)
             Props == SetProps(zv.handle)
             Held(key) == CHOOSE e \in Props : e.key = key
         IN Instance(c, [key \in {e.key : e \in Props} |->
                Image(ZVAL_DEREF(Held(key).val), known)] @@ Defaults(c))
    [] OTHER -> zv

\* What comes out on the other side is what went in: the same keys in the same
\* order, references replaced by what they hold, a missing class by stdClass and
\* an unset property by its default; an exception is raised if a private or
\* protected property is among it.  An object of an enum the other side finds is
\* what crashes a conversion, wherever it is, and the only thing that does
\* (bridge.c:284-358).
Delivered ==
  /\ turn.step = "crashed" => \E zv \in Within : Unmakable(zv)
  /\ Received =>
       /\ \A zv \in Within : ~Unmakable(zv)
       /\ raised <=> \E zv \in Within : Unwritable(zv)
       /\ ~raised => turn.zv = Image(root, loaded)
=============================================================================
