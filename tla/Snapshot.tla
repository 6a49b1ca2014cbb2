------------------------------ MODULE Snapshot ------------------------------
(***************************************************************************)
(* bridge.c: a PHP value becomes a snapshot on the caller's thread          *)
(* (px_zval_to_value), call by call.  PHP values form a graph: arrays are   *)
(* copied, objects and references are shared and may lead back to           *)
(* themselves.  The engine's objects are external: the slots of the         *)
(* declared properties, and a table of all properties that exists once      *)
(* somebody has looked at them or added one, and then points to those slots. *)
(* The functions of bridge.c call each other: their calls are frames of a   *)
(* stack, and a step is one turn of their loops.                            *)
(***************************************************************************)
EXTENDS Values

CONSTANTS Classes,    \* class -> [name, kind, props, init]: names of its
                      \* properties and the values a new instance has
          ClassOf,    \* PHP object -> its class
          Objects,    \* states of the objects: slots, added properties, table
          References, \* PHP references
          Cells,      \* states of the references: what each one holds
          Zvals,      \* PHP values
          Keys,       \* of array elements and properties
          Roots,      \* zvals passed to go() or returned by a task
          Addresses,  \* where a value_t can be allocated
          MaxDepth    \* 256

\* zvals that are not scalars; a scalar zval is written like its snapshot.
Undef == [tag |-> "undef"]
Resource == [tag |-> "resource"]
Indirect == [tag |-> "indirect"]
Array(items) == [tag |-> "array", items |-> items]
Object(h) == [tag |-> "object", handle |-> h]
Reference(c) == [tag |-> "reference", cell |-> c]
Scalar == {"null", "bool", "long", "double", "str"}

Item(key, zv) == [key |-> key, val |-> zv]
Class(h) == Classes[ClassOf[h]]

\* What the engine makes sure of: the names of properties are strings, no two of
\* an object are the same, declared or added, and an object with an added
\* property has a table; no two elements of an array have the same key.
IsObject(h, o) ==
  /\ o.slots \in Seq(Zvals \cup {Undef})
  /\ Len(o.slots) = Len(Class(h).props)
  /\ o.added \in Seq([key : Keys, val : Zvals])
  /\ \A i, j \in DOMAIN o.added : o.added[i].key = o.added[j].key => i = j
  /\ \A i \in DOMAIN o.added, j \in DOMAIN o.slots :
       o.added[i].key # Class(h).props[j]
  /\ \A i \in DOMAIN o.added : ~IsIntKey(o.added[i].key)
  /\ o.added # <<>> => o.table

ASSUME ZvalAssumption ==
  /\ Undef \notin Zvals
  /\ \A zv \in Zvals :
       /\ zv.tag \in Scalar \cup {"array", "object", "resource", "reference"}
       /\ zv.tag = "array" =>
            /\ zv.items \in Seq([key : Keys, val : Zvals])
            /\ \A i, j \in DOMAIN zv.items :
                 zv.items[i].key = zv.items[j].key => i = j
       /\ zv.tag = "object" => zv.handle \in DOMAIN ClassOf
       /\ zv.tag = "reference" => zv.cell \in References

ASSUME SnapshotAssumption ==
  /\ MaxDepth \in Nat /\ Roots \subseteq Zvals
  /\ Cells \subseteq [References -> Zvals]
  /\ \A h \in DOMAIN ClassOf :
       /\ ClassOf[h] \in DOMAIN Classes
       /\ Class(h).props \in Seq(Keys)
       /\ \A i, j \in DOMAIN Class(h).props :
            Class(h).props[i] = Class(h).props[j] => i = j
       /\ \A i \in DOMAIN Class(h).props : ~IsIntKey(Class(h).props[i])
       /\ \A o \in Objects : IsObject(h, o[h])

VARIABLES objects, cells, root,   \* the PHP values of the thread that captures
          stack,     \* calls of array_to_value and object_to_value, the
                     \* innermost last
          now,       \* what runs on top of them
          owned,     \* values that bridge.c has to free or to hand over
          captured   \* history: what was made, and of which zval

vars == <<objects, cells, root, stack, now, owned, captured>>

ZVAL_DEREF(zv) == IF zv.tag = "reference" THEN cells[zv.cell] ELSE zv

\* OBJ_PROP of each property_info; static properties, which the loop skips,
\* have no slot and are not listed.
Declared(h) == [i \in DOMAIN Class(h).props |->
                  Item(Class(h).props[i], objects[h].slots[i])]

\* Mutant: no properties but the declared ones, as in 0.2.0.
PropertiesTable_ignored(h) == <<>>

\* obj->properties: once built, an INDIRECT entry for every declared property,
\* initialised or not, before the added ones.
PropertiesTable(h) ==
  IF objects[h].table
  THEN [i \in DOMAIN Class(h).props |-> Item(Class(h).props[i], Indirect)]
         \o objects[h].added
  ELSE <<>>

-----------------------------------------------------------------------------
\* A call of zval_to_value_inner begins, a loop is about to take its next
\* element, or a call is over, with a value or with NULL and an exception.

Call(zv) == [step |-> "call", zv |-> zv]
Loop == [step |-> "loop"]
Value(v, at) == [step |-> "value", v |-> v, at |-> at]
Null == [step |-> "null"]

Top == stack[Len(stack)]
Below == SubSeq(stack, 1, Len(stack) - 1)
New == CHOOSE a \in Addresses \ owned : TRUE
Room == Addresses \ owned # {}       \* otherwise malloc fails and PHP aborts
unchangedValues == UNCHANGED <<objects, cells, root>>

\* What a loop runs over: the array, or the declared properties and the table.
Elements(zv) ==
  IF zv.tag = "array" THEN zv.items
  ELSE Declared(zv.handle) \o PropertiesTable(zv.handle)

\* What is captured of an element: references are followed in objects only.
Target(zv, e) == IF zv.tag = "array" THEN e.val ELSE ZVAL_DEREF(e.val)
Element == Elements(Top.zv)[Top.done + 1]
Current == Elements(Top.zv)[Top.done]

\* Uninitialised, or in the table and captured under that name.
Skipped(e) ==
  /\ Top.zv.tag = "object"
  /\ \/ e.val = Undef
     \/ /\ Top.done >= Len(Class(Top.zv.handle).props)
        /\ \E i \in DOMAIN Top.v.items : Top.v.items[i].key = e.key

\* Mutants: the limit itself is refused, and one level beyond it is not.
TooDeep_early(depth) == depth >= MaxDepth
TooDeep_late(depth) == depth > MaxDepth + 1

TooDeep(depth) == depth > MaxDepth

Refused(zv) ==
  \/ zv.tag \notin Scalar \cup {"array", "object"}
  \/ zv.tag = "object" /\ Class(zv.handle).kind \in {"closure", "native"}

\* An exception is thrown.
refuse ==
  /\ now.step = "call" /\ (TooDeep(Len(stack)) \/ Refused(now.zv))
  /\ now' = Null
  /\ unchangedValues /\ UNCHANGED <<stack, owned, captured>>

capture_scalar ==
  /\ now.step = "call" /\ ~TooDeep(Len(stack)) /\ now.zv.tag \in Scalar
  /\ Room /\ now' = Value(now.zv, New) /\ owned' = owned \cup {New}
  /\ captured' = captured \cup {<<now.zv, now.zv>>}
  /\ unchangedValues /\ UNCHANGED stack

\* The container, empty, and the loop over its elements.
enter(container) ==
  /\ ~TooDeep(Len(stack)) /\ ~Refused(now.zv)
  /\ Room /\ owned' = owned \cup {New}
  /\ stack' = Append(stack, [zv |-> now.zv, v |-> container, at |-> New,
                             done |-> 0])
  /\ now' = Loop
  /\ unchangedValues /\ UNCHANGED captured

array_to_value ==
  now.step = "call" /\ now.zv.tag = "array" /\ enter(value_arr)
object_to_value ==
  /\ now.step = "call" /\ now.zv.tag = "object"
  /\ enter(value_obj(Class(now.zv.handle).name))

InLoop == now.step = "loop" /\ Top.done < Len(Elements(Top.zv))
IsByReference == Top.zv.tag = "array" /\ Element.val.tag = "reference"

skip_element ==
  /\ InLoop /\ Skipped(Element)
  /\ stack' = [stack EXCEPT ![Len(stack)].done = @ + 1]
  /\ unchangedValues /\ UNCHANGED <<now, owned, captured>>

call_element ==
  /\ InLoop /\ ~Skipped(Element) /\ ~IsByReference
  /\ now' = Call(Target(Top.zv, Element))
  /\ stack' = [stack EXCEPT ![Len(stack)].done = @ + 1]
  /\ unchangedValues /\ UNCHANGED <<owned, captured>>

\* Mutant: the container is forgotten.
give_up_leaking ==
  /\ now' = Null /\ stack' = Below /\ owned' = owned
  /\ unchangedValues /\ UNCHANGED captured

\* value_free of the container under construction.
give_up ==
  /\ now' = Null /\ stack' = Below /\ owned' = owned \ {Top.at}
  /\ unchangedValues /\ UNCHANGED captured

\* An exception is thrown here, or was by the call that returns NULL.
refuse_by_reference == InLoop /\ IsByReference /\ give_up
abandon == now.step = "null" /\ stack # <<>> /\ give_up

\* Mutant: the key of the next element.
attach_off_by_one ==
  /\ now.step = "value" /\ stack # <<>>
  /\ LET key == Elements(Top.zv)[(Top.done % Len(Elements(Top.zv))) + 1].key
     IN stack' = [stack EXCEPT ![Len(stack)].v = value_set(@, key, now.v)]
  /\ owned' = owned \ {now.at} /\ now' = Loop
  /\ unchangedValues /\ UNCHANGED captured

\* The setter takes the child over.
attach ==
  /\ now.step = "value" /\ stack # <<>>
  /\ stack' = [stack EXCEPT ![Len(stack)].v = value_set(@, Current.key, now.v)]
  /\ owned' = owned \ {now.at} /\ now' = Loop
  /\ unchangedValues /\ UNCHANGED captured

return_container ==
  /\ now.step = "loop" /\ Top.done = Len(Elements(Top.zv))
  /\ now' = Value(Top.v, Top.at) /\ stack' = Below
  /\ captured' = captured \cup {<<Top.v, Top.zv>>}
  /\ unchangedValues /\ UNCHANGED owned

\* px_zval_to_value, of any value userland can build.
Init == /\ objects \in Objects /\ cells \in Cells /\ root \in Roots
        /\ stack = <<>> /\ now = Call(root) /\ owned = {} /\ captured = {}

Next == \/ refuse \/ capture_scalar \/ array_to_value \/ object_to_value
        \/ skip_element \/ call_element \/ refuse_by_reference
        \/ abandon \/ attach \/ return_container

Spec == Init /\ [][Next]_vars

Answered == stack = <<>> /\ now.step \in {"value", "null"}

-----------------------------------------------------------------------------
\* What the graph of zvals says, without following bridge.c.

\* The properties somebody who looks at the object finds, and its uninitialised
\* ones where the table shows them.
Unset(h) == {i \in DOMAIN Class(h).props : objects[h].slots[i] = Undef}
SetProps(h) ==
  {Item(Class(h).props[i], objects[h].slots[i]) :
     i \in DOMAIN Class(h).props \ Unset(h)} \cup ToSet(objects[h].added)
Children(zv) ==
  CASE zv.tag = "array" -> {e.val : e \in ToSet(zv.items)}
    [] zv.tag = "object" ->
         {ZVAL_DEREF(e.val) : e \in SetProps(zv.handle)} \cup
         (IF objects[zv.handle].table /\ Unset(zv.handle) # {}
          THEN {Indirect} ELSE {})
    [] OTHER -> {}

Forbidden(zv) ==
  \/ zv.tag \in {"resource", "reference", "indirect"}
  \/ zv.tag = "object" /\ Class(zv.handle).kind \in {"closure", "native"}

\* The zvals whose unfolding ends within n levels and holds nothing forbidden.
EndsWithin[n \in 0 .. MaxDepth + 1] ==
  IF n = 0 THEN {}
  ELSE LET below == EndsWithin[n - 1]
       IN {zv \in Zvals : ~Forbidden(zv) /\ Children(zv) \subseteq below}

Transferable == root \in EndsWithin[MaxDepth + 1]

-----------------------------------------------------------------------------
\* Properties.

Made == {p[1] : p \in captured}
ItemType == [key : Keys, val : Made]
ContainerType ==
  [tag : {"arr"}, items : Seq(ItemType)] \cup
  [tag : {"obj"}, cls : {Class(h).name : h \in DOMAIN ClassOf},
   items : Seq(ItemType)]
FrameType == [zv : Zvals, v : ContainerType, at : Addresses, done : Nat]

\* The recursion is no deeper than the limit and one, whatever cycles the value
\* has, and containers hold what was captured before.
TypeOK ==
  /\ objects \in Objects /\ cells \in Cells /\ root \in Roots
  /\ stack \in Seq(FrameType) /\ Len(stack) <= MaxDepth + 1
  /\ owned \subseteq Addresses
  /\ now.step \in {"call", "loop", "value", "null"}

\* A value is accepted exactly when its unfolding ends within MaxDepth levels
\* and holds nothing that cannot be transferred: no resource, Closure or native
\* object, no reference but as a property, and no object that is uninitialised
\* in part while its property table exists (bridge.c:138-273).
AcceptsExactlyTransferable ==
  Answered => (now.step = "value" <=> Transferable)

\* At every moment exactly the containers under construction and the answer of
\* a call are owned, each once: a refusal, at whatever depth, leaves nothing
\* allocated, and a snapshot is all that is (the value_free calls of
\* bridge.c:138-246).
RefusalLeaksNothing ==
  /\ owned = {stack[k].at : k \in DOMAIN stack} \cup
             (IF now.step = "value" THEN {now.at} ELSE {})
  /\ \A k, l \in DOMAIN stack : stack[k].at = stack[l].at => k = l
  /\ now.step = "value" => \A k \in DOMAIN stack : stack[k].at # now.at

\* A snapshot mirrors its zval if it is the same scalar, or has the same keys,
\* each once for an object, with what was captured of the elements.
MirrorsArray(v, zv) ==
  /\ v.tag = "arr" /\ Len(v.items) = Len(zv.items)
  /\ \A i \in 1 .. Len(v.items) :
       /\ v.items[i].key = zv.items[i].key
       /\ <<v.items[i].val, zv.items[i].val>> \in captured
MirrorsObject(v, h) ==
  /\ v.tag = "obj" /\ v.cls = Class(h).name
  /\ \A i, j \in 1 .. Len(v.items) : v.items[i].key = v.items[j].key => i = j
  /\ \A i \in 1 .. Len(v.items) : \E e \in SetProps(h) :
       /\ v.items[i].key = e.key
       /\ <<v.items[i].val, ZVAL_DEREF(e.val)>> \in captured
  /\ \A e \in SetProps(h) : \E i \in 1 .. Len(v.items) :
       v.items[i].key = e.key
Mirrors(v, zv) ==
  CASE zv.tag = "array" -> MirrorsArray(v, zv)
    [] zv.tag = "object" -> MirrorsObject(v, zv.handle)
    [] OTHER -> zv.tag \in Scalar /\ v = zv

\* A snapshot is what was asked for, down to its leaves: every value that was
\* made mirrors its zval, and the answer mirrors the root (bridge.c:138-273).
SnapshotIsExact ==
  /\ \A p \in captured : Mirrors(p[1], p[2])
  /\ Answered /\ now.step = "value" => <<now.v, root>> \in captured
=============================================================================
