------------------------------- MODULE Capture -------------------------------
(***************************************************************************)
(* bridge.c: a snapshot (px_zval_to_value, in Snapshot) becomes a PHP value  *)
(* again on the other side (px_value_to_zval), which may not know its        *)
(* classes.  As in Snapshot, the calls of the functions are frames of a      *)
(* stack, and a step is one turn of their loops.                             *)
(***************************************************************************)
EXTENDS Snapshot

CONSTANTS StdClass,   \* the class that takes the place of a missing one
          Known       \* sets of classes the other side may be able to find

ASSUME CaptureAssumption ==
  /\ StdClass \in DOMAIN Classes /\ Classes[StdClass].kind = "plain"
  /\ \A known \in Known : StdClass \in known /\ known \subseteq DOMAIN Classes
  /\ \A c, d \in DOMAIN Classes : Classes[c].name = Classes[d].name => c = d

\* An object of an enum, a case, always has its name among its properties.
ASSUME EnumAssumption ==
  \A o \in Objects, h \in DOMAIN ClassOf :
    Class(h).kind = "enum" =>
      \E i \in DOMAIN Class(h).props : o[h].slots[i] # Undef

VARIABLES loaded,    \* classes the other side can find
          making,    \* calls of kv_block_to_array and kv_block_to_object
          turn,      \* what runs on top of them
          raised,    \* EG(exception) is set
          delivered  \* history: what was made, and of which value

deliveryVars == <<loaded, making, turn, raised, delivered>>
conversionVars == <<vars, deliveryVars>>

\* What is made is a tree of fresh arrays and instances; NoObject is what is left
\* of an instance that could not be created, a zval with a NULL for its object.
Instance(class, props) == [tag |-> "instance", class |-> class, props |-> props]
NoObject == [tag |-> "none"]

\* Before, a call of value_to_zval_inner begins, and after; or the process is
\* gone.
Idle == [step |-> "idle"]
Convert(v) == [step |-> "convert", v |-> v]
Out(zv) == [step |-> "out", zv |-> zv]
Crashed == [step |-> "crashed"]

zend_lookup_class(name, known) ==
  IF \E c \in known : Classes[c].name = name
  THEN CHOOSE c \in known : Classes[c].name = name
  ELSE StdClass

\* add_index_zval, add_assoc_zval_ex: a key that is there is overwritten.
add_element(items, key, child) ==
  IF \E i \in DOMAIN items : items[i].key = key
  THEN [i \in DOMAIN items |->
          IF items[i].key = key THEN Item(key, child) ELSE items[i]]
  ELSE Append(items, Item(key, child))

\* The standard handlers refuse a name that begins with a NUL byte, as those of
\* private and protected properties do in property_info.
Mangled(key) == key.skey # <<>> /\ key.skey[1] = 0

\* zend_update_property_ex
write_property(props, key, child) ==
  IF Mangled(key) THEN props
  ELSE [k \in DOMAIN props \cup {key} |-> IF k = key THEN child ELSE props[k]]

\* Values a new instance of a class has, by name.
Defaults(c) ==
  LET Set == {i \in DOMAIN Classes[c].props : Classes[c].init[i] # Undef}
  IN [key \in {Classes[c].props[i] : i \in Set} |->
        Classes[c].init[CHOOSE i \in Set : Classes[c].props[i] = key]]

\* object_init_ex, whose answer is not looked at: an enum has no new instances,
\* an exception says so, and there is no object.
Uncreatable(c) == Classes[c].kind = "enum"
object_init_ex(c) ==
  IF Uncreatable(c) THEN NoObject ELSE Instance(c, Defaults(c))

ClassFor(v) == zend_lookup_class(v.cls, loaded)
Inner == making[Len(making)]
Key == Inner.v.items[Inner.done].key

-----------------------------------------------------------------------------
\* px_value_to_zval of what was captured, on a side that knows some classes.
Receive ==
  /\ stack = <<>> /\ now.step = "value" /\ turn = Idle
  /\ loaded' \in Known /\ turn' = Convert(now.v)
  /\ UNCHANGED <<vars, making, raised, delivered>>

scalar_to_zval ==
  /\ turn.step = "convert" /\ turn.v.tag \in Scalar
  /\ turn' = Out(turn.v)
  /\ delivered' = delivered \cup {<<turn.v, turn.v>>}
  /\ UNCHANGED <<vars, loaded, making, raised>>

\* The container, and the loop over its pairs.
begin(zv) ==
  /\ making' = Append(making, [v |-> turn.v, zv |-> zv, done |-> 0])
  /\ turn' = Loop
  /\ UNCHANGED <<vars, loaded, delivered>>

kv_block_to_array ==
  /\ turn.step = "convert" /\ turn.v.tag = "arr"
  /\ begin(Array(<<>>)) /\ UNCHANGED raised
kv_block_to_object ==
  /\ turn.step = "convert" /\ turn.v.tag = "obj"
  /\ begin(object_init_ex(ClassFor(turn.v)))
  /\ raised' = (raised \/ Uncreatable(ClassFor(turn.v)))

\* Mutant: the last pair is forgotten.
next_pair_too_few ==
  /\ turn.step = "loop" /\ Inner.done < Len(Inner.v.items)
  /\ making' = [making EXCEPT ![Len(making)].done = @ + 1]
  /\ turn' = IF Inner.done + 1 < Len(Inner.v.items)
             THEN Convert(Inner.v.items[Inner.done + 1].val) ELSE Loop
  /\ UNCHANGED <<vars, loaded, raised, delivered>>

next_pair ==
  /\ turn.step = "loop" /\ Inner.done < Len(Inner.v.items)
  /\ making' = [making EXCEPT ![Len(making)].done = @ + 1]
  /\ turn' = Convert(Inner.v.items[Inner.done + 1].val)
  /\ UNCHANGED <<vars, loaded, raised, delivered>>

\* The pair is added to the array.
add_to_array ==
  /\ turn.step = "out" /\ making # <<>> /\ Inner.v.tag = "arr"
  /\ making' = [making EXCEPT ![Len(making)].zv.items =
                  add_element(@, Key, turn.zv)]
  /\ turn' = Loop
  /\ UNCHANGED <<vars, loaded, raised, delivered>>

\* Or written to the object.
write_to_object ==
  /\ turn.step = "out" /\ making # <<>> /\ Inner.v.tag = "obj"
  /\ Inner.zv # NoObject
  /\ making' = [making EXCEPT ![Len(making)].zv.props =
                  write_property(@, Key, turn.zv)]
  /\ raised' = (raised \/ Mangled(Key))
  /\ turn' = Loop
  /\ UNCHANGED <<vars, loaded, delivered>>

\* Or to the object that could not be created: the handlers of NULL are looked
\* up, and nothing runs any more.
write_to_nothing ==
  /\ turn.step = "out" /\ making # <<>> /\ Inner.v.tag = "obj"
  /\ Inner.zv = NoObject
  /\ turn' = Crashed
  /\ UNCHANGED <<vars, loaded, making, raised, delivered>>

finish ==
  /\ turn.step = "loop" /\ Inner.done = Len(Inner.v.items)
  /\ making' = SubSeq(making, 1, Len(making) - 1)
  /\ turn' = Out(Inner.zv)
  /\ delivered' = delivered \cup {<<Inner.zv, Inner.v>>}
  /\ UNCHANGED <<vars, loaded, raised>>

Deliver == \/ Receive \/ scalar_to_zval \/ kv_block_to_array
           \/ kv_block_to_object \/ next_pair \/ add_to_array
           \/ write_to_object \/ write_to_nothing \/ finish

ConversionInit == /\ Init /\ loaded = {} /\ making = <<>> /\ turn = Idle
                  /\ raised = FALSE /\ delivered = {}
ConversionNext == (Next /\ UNCHANGED deliveryVars) \/ Deliver
Conversion == ConversionInit /\ [][ConversionNext]_conversionVars

Received == turn.step = "out" /\ making = <<>>

-----------------------------------------------------------------------------
\* Properties.

\* What was made of a snapshot, and the zval the snapshot was made of.
Rendered == {<<p[1][1], p[2][2]>> :
               p \in {q \in delivered \X captured : q[1][2] = q[2][1]}}

\* An array with the same keys in the same order; an instance of the class, or of
\* stdClass, with the same properties and its defaults for the others.  Each
\* element is what was made of the element, with references followed.
RendersArray(out, zv) ==
  /\ out.tag = "array" /\ Len(out.items) = Len(zv.items)
  /\ \A i \in 1 .. Len(zv.items) :
       /\ out.items[i].key = zv.items[i].key
       /\ <<out.items[i].val, zv.items[i].val>> \in Rendered
RendersObject(out, h) ==
  LET c == zend_lookup_class(Class(h).name, loaded)
      Writable == {e \in SetProps(h) : ~Mangled(e.key)}
      Written == {e.key : e \in Writable}
  IN /\ \A e \in SetProps(h) : \E p \in Rendered : p[2] = ZVAL_DEREF(e.val)
     /\ ~Uncreatable(c) /\ out.tag = "instance" /\ out.class = c
     /\ DOMAIN out.props = Written \cup DOMAIN Defaults(c)
     /\ \A e \in Writable :
          <<out.props[e.key], ZVAL_DEREF(e.val)>> \in Rendered
     /\ \A key \in DOMAIN Defaults(c) \ Written :
          out.props[key] = Defaults(c)[key]
Renders(out, zv) ==
  CASE zv.tag = "array" -> RendersArray(out, zv)
    [] zv.tag = "object" -> RendersObject(out, zv.handle)
    [] OTHER -> zv.tag \in Scalar /\ out = zv

\* An object of an enum the other side finds, and one with names it cannot write.
Unmakable(zv) ==
  /\ zv.tag = "object"
  /\ Class(zv.handle).kind = "enum" /\ ClassOf[zv.handle] \in loaded
Unwritable(zv) ==
  zv.tag = "object" /\ \E e \in SetProps(zv.handle) : Mangled(e.key)

\* What the other side receives was made of the root, and everything it holds,
\* at whatever depth, of the elements there; an exception is raised exactly when
\* a name cannot be written; and the conversion crashes only for an object of an
\* enum the other side finds, of which nothing is ever received
\* (bridge.c:284-358).
DeliveryIsExact ==
  /\ \A p \in Rendered : Renders(p[1], p[2])
  /\ turn.step = "crashed" => \E p \in captured : Unmakable(p[2])
  /\ Received => /\ <<turn.zv, root>> \in Rendered
                 /\ raised <=> \E p \in Rendered : Unwritable(p[2])

\* bridge.h: "turn a snapshot value_t into a freshly minted zval in the current
\* thread's arena.  Always succeeds."  Expected to fail: a case of an enum that
\* the other side finds is accepted and crashes the conversion.
AlwaysSucceeds == turn.step # "crashed"
=============================================================================
