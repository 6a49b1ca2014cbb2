------------------------------ MODULE ValueHeap ------------------------------
(***************************************************************************)
(* value.c and clone.c on an explicit heap: who owns which block while trees *)
(* are built, grown, copied, looked into and freed.  The other modules take   *)
(* values as values; this one shows that the pointers underneath behave so.   *)
(* value_free and value_clone recurse: their calls are frames of a stack, and *)
(* a step is one turn of their loops over the elements.                       *)
(***************************************************************************)
EXTENDS Integers, Sequences, FiniteSetsExt

CONSTANTS Nodes,       \* addresses the C heap can give out: of nodes,
          Arrays,      \* of element arrays,
          Bytes,       \* and of strings
          NULL,        \* no address
          Strings,     \* keys, and the strings and classes of values
          Empty,       \* the string of no bytes
          Caps,        \* capacities callers ask value_arr for
          FirstCap,    \* capacity an empty array grows to: 4
          MaxInt,      \* INT64_MAX
          IntKeys,     \* keys value_arr_set_int is called with
          MaxRoots     \* bound on the values callers own at one time

MinInt == -MaxInt - 1

ASSUME HeapAssumption ==
  /\ NULL \notin Nodes \cup Arrays \cup Bytes /\ Empty \in Strings
  /\ Caps \subseteq Nat /\ FirstCap \in Nat \ {0}
  /\ MaxInt \in Nat /\ IntKeys \subseteq MinInt .. MaxInt

VARIABLES node,       \* address -> value_t
          array,      \* address -> kv_t items of a value, as many as its capacity
          bytes,      \* address -> string of a key or of a value
          roots,      \* values the callers own
          borrowed,   \* what value_arr_get_str returned, and the root it is in
          freeing,    \* calls of value_free, the innermost last
          cloning,    \* calls of value_clone, the innermost last
          copyOf      \* history: the nodes of the latest copy -> their originals

vars == <<node, array, bytes, roots, borrowed, freeing, cloning, copyOf>>

Node(tag, text, items, n) ==
  [tag |-> tag, text |-> text, items |-> items, n |-> n]
Slot(key, ikey, skey, val) ==
  [key |-> key, ikey |-> ikey, skey |-> skey, val |-> val]
Zero == Slot("str", 0, NULL, NULL)
Zeros(n) == [i \in 1 .. n |-> Zero]

Slots(a) == IF node[a].items = NULL THEN <<>> ELSE array[node[a].items]
Text(p) == IF p = NULL THEN Empty ELSE bytes[p]

\* malloc and free on the blocks of one kind.
Unused(addresses, heap) == addresses \ DOMAIN heap
New(addresses, heap) == CHOOSE a \in Unused(addresses, heap) : TRUE
Put(heap, a, x) == [b \in DOMAIN heap \cup {a} |-> IF b = a THEN x ELSE heap[b]]
Drop(heap, gone) == [b \in DOMAIN heap \ gone |-> heap[b]]

\* Where dup_bytes puts a string, and the strings with it: none for no bytes.
dup_bytes(heap, s) == IF s = Empty THEN NULL ELSE New(Bytes, heap)
With(heap, s) == IF s = Empty THEN heap ELSE Put(heap, New(Bytes, heap), s)
Fits(heap, s) == s = Empty \/ Unused(Bytes, heap) # {}

AtRest == freeing = <<>> /\ cloning = <<>>
Top(frames) == frames[Len(frames)]
Below(frames) == SubSeq(frames, 1, Len(frames) - 1)

-----------------------------------------------------------------------------
\* Building.

make(tag, text, cap) ==
  /\ AtRest /\ Cardinality(roots) < MaxRoots
  /\ Unused(Nodes, node) # {} /\ Fits(bytes, text)
  /\ cap > 0 => Unused(Arrays, array) # {}
  /\ node' = Put(node, New(Nodes, node), Node(tag, dup_bytes(bytes, text),
                                       IF cap = 0 THEN NULL ELSE New(Arrays, array), 0))
  /\ array' = IF cap = 0 THEN array ELSE Put(array, New(Arrays, array), Zeros(cap))
  /\ bytes' = With(bytes, text)
  /\ roots' = roots \cup {New(Nodes, node)} /\ copyOf' = <<>>
  /\ UNCHANGED <<borrowed, freeing, cloning>>

value_leaf == \E text \in Strings : make("leaf", text, 0)
value_arr == \E cap \in Caps : make("arr", Empty, cap)
value_obj == \E cls \in Strings \ {Empty} : make("obj", cls, 0)

\* Mutant: calloc instead of realloc.
grow_clears(slots) ==
  Zeros(IF slots = <<>> THEN FirstCap ELSE 2 * Len(slots))

\* realloc, with the new slots cleared.
grow(slots) ==
  [i \in 1 .. (IF slots = <<>> THEN FirstCap ELSE 2 * Len(slots)) |->
     IF i \in DOMAIN slots THEN slots[i] ELSE Zero]

\* Mutant: one element too late.
IsFull_late(a) == node[a].n > Len(Slots(a))

IsFull(a) == node[a].n = Len(Slots(a))

\* Room for one more, a copy of the key's bytes, and the slot at the end; the
\* caller gives up the child.
insert(a, key, ikey, name, child) ==
  LET items == IF IsFull(a) THEN New(Arrays, array) ELSE node[a].items
      room == IF IsFull(a) THEN grow(Slots(a)) ELSE Slots(a)
      last == node[a].n + 1
      others == Drop(array, {node[a].items})
  IN /\ AtRest /\ child \in roots \ {a} /\ Fits(bytes, name)
     /\ IsFull(a) => Unused(Arrays, array) # {}
     /\ array' = Put(others, items, [room EXCEPT ![last] =
                       Slot(key, ikey, dup_bytes(bytes, name), child)])
     /\ node' = [node EXCEPT ![a].items = items, ![a].n = last]
     /\ bytes' = With(bytes, name)
     /\ roots' = roots \ {child} /\ copyOf' = <<>>
     /\ borrowed' = IF borrowed.from = child THEN [borrowed EXCEPT !.from = a]
                    ELSE borrowed
     /\ UNCHANGED <<freeing, cloning>>

IntKeysOf(a) ==
  {Slots(a)[i].ikey : i \in {j \in 1 .. node[a].n : Slots(a)[j].key = "int"}}

\* Signed addition that wraps, as it does in the builds.
PlusOne(i) == IF i = MaxInt THEN MinInt ELSE i + 1

next_int_key(a) == PlusOne(Max({-1} \cup IntKeysOf(a)))

Owned(tag) == {a \in roots : node[a].tag = tag}

value_arr_push ==
  \E a \in Owned("arr"), child \in roots :
    insert(a, "int", next_int_key(a), Empty, child)

value_arr_set_int ==
  \E a \in Owned("arr"), child \in roots, key \in IntKeys :
    insert(a, "int", key, Empty, child)

\* Mutant: the value of a key that is there is freed and replaced.
value_arr_set_str_replaces ==
  \E a \in Owned("arr"), child \in roots, key \in Strings :
    LET Same == {i \in 1 .. node[a].n : /\ Slots(a)[i].key = "str"
                                        /\ Text(Slots(a)[i].skey) = key}
    IN \/ Same = {} /\ insert(a, "str", 0, key, child)
       \/ /\ AtRest /\ child # a
          /\ \E i \in Same :
               /\ node' = Drop(node, {Slots(a)[i].val})
               /\ array' = [array EXCEPT ![node[a].items][i].val = child]
          /\ roots' = roots \ {child} /\ copyOf' = <<>>
          /\ UNCHANGED <<bytes, borrowed, freeing, cloning>>

value_arr_set_str ==
  \E a \in Owned("arr"), child \in roots, key \in Strings :
    insert(a, "str", 0, key, child)

value_obj_set ==
  \E a \in Owned("obj"), child \in roots, key \in Strings :
    insert(a, "str", 0, key, child)

\* The first element with the key.
value_arr_get_str ==
  /\ AtRest
  /\ \E a \in Owned("arr"), key \in Strings :
       LET Has(i) == Slots(a)[i].key = "str" /\ Text(Slots(a)[i].skey) = key
       IN \E i \in 1 .. node[a].n :
            /\ Has(i) /\ \A j \in 1 .. i - 1 : ~Has(j)
            /\ borrowed' = [at |-> Slots(a)[i].val, from |-> a]
  /\ UNCHANGED <<node, array, bytes, roots, freeing, cloning, copyOf>>

-----------------------------------------------------------------------------
\* Copying.

\* A call of value_clone: the node and its strings, and cleared slots for the
\* elements.  Its caller's frames, slots and strings are given.
enter_clone(src, frames, slots, strings) ==
  LET text == Text(node[src].text)
      block == IF node[src].n = 0 THEN NULL ELSE New(Arrays, slots)
  IN /\ Unused(Nodes, node) # {} /\ Fits(strings, text)
     /\ node[src].n > 0 => Unused(Arrays, slots) # {}
     /\ node' = Put(node, New(Nodes, node),
                    Node(node[src].tag, dup_bytes(strings, text), NULL, 0))
     /\ array' = IF block = NULL THEN slots
                 ELSE Put(slots, block, Zeros(node[src].n))
     /\ bytes' = With(strings, text)
     /\ cloning' = Append(frames, [src |-> src, dst |-> New(Nodes, node),
                                   block |-> block, done |-> 0])
     /\ UNCHANGED <<roots, borrowed, freeing>>

value_clone == /\ AtRest /\ Cardinality(roots) < MaxRoots
               /\ \E src \in roots :
                    /\ enter_clone(src, <<>>, array, bytes)
                    /\ copyOf' = [a \in {New(Nodes, node)} |-> src]

\* Mutant: every key is 0.
clone_element_without_ikey ==
  /\ cloning # <<>>
  /\ LET top == Top(cloning)
         next == top.done + 1
         kv == Slots(top.src)[next]
         name == Text(kv.skey)
     IN /\ next <= node[top.src].n /\ Fits(bytes, name)
        /\ enter_clone(kv.val,
             [cloning EXCEPT ![Len(cloning)].done = next],
             [array EXCEPT ![top.block][next] =
                Slot(kv.key, 0, dup_bytes(bytes, name), NULL)],
             With(bytes, name))
        /\ copyOf' = Put(copyOf, New(Nodes, node), kv.val)

\* The next element: its key, and the call for its value.
clone_element ==
  /\ cloning # <<>>
  /\ LET top == Top(cloning)
         next == top.done + 1
         kv == Slots(top.src)[next]
         name == Text(kv.skey)
     IN /\ next <= node[top.src].n /\ Fits(bytes, name)
        /\ enter_clone(kv.val,
             [cloning EXCEPT ![Len(cloning)].done = next],
             [array EXCEPT ![top.block][next] =
                Slot(kv.key, kv.ikey, dup_bytes(bytes, name), NULL)],
             With(bytes, name))
        /\ copyOf' = Put(copyOf, New(Nodes, node), kv.val)

\* The elements, as many as they are, become those of the copy, which goes to
\* the slot it was made for, or to the caller.
clone_return ==
  /\ cloning # <<>> /\ Top(cloning).done = node[Top(cloning).src].n
  /\ LET top == Top(cloning)
         up == Top(Below(cloning))
     IN /\ node' = [node EXCEPT ![top.dst].items = top.block,
                                ![top.dst].n = node[top.src].n]
        /\ IF Len(cloning) = 1
           THEN roots' = roots \cup {top.dst} /\ UNCHANGED array
           ELSE /\ array' = [array EXCEPT ![up.block][up.done].val = top.dst]
                /\ UNCHANGED roots
  /\ cloning' = Below(cloning)
  /\ UNCHANGED <<bytes, borrowed, freeing, copyOf>>

-----------------------------------------------------------------------------
\* Freeing.

Call(a) == [at |-> a, done |-> 0]

\* The caller gives the value up, and what it had borrowed from it.
value_free ==
  /\ AtRest
  /\ \E a \in roots :
       /\ roots' = roots \ {a} /\ freeing' = <<Call(a)>>
       /\ bytes' = Drop(bytes, {node[a].text})
       /\ borrowed' = IF borrowed.from = a THEN [at |-> NULL, from |-> NULL]
                      ELSE borrowed
  /\ copyOf' = <<>> /\ UNCHANGED <<node, array, cloning>>

\* The next element: its key's bytes, and the call for its value, which begins
\* with the value's strings.
free_element ==
  /\ freeing # <<>>
  /\ LET top == Top(freeing)
         next == top.done + 1
         kv == Slots(top.at)[next]
     IN /\ next <= node[top.at].n
        /\ bytes' = Drop(bytes, {kv.skey, node[kv.val].text})
        /\ freeing' = Append([freeing EXCEPT ![Len(freeing)].done = next],
                             Call(kv.val))
  /\ UNCHANGED <<node, array, roots, borrowed, cloning, copyOf>>

\* Mutant: the elements stay.
free_node_shallow ==
  /\ freeing # <<>>
  /\ array' = Drop(array, {node[Top(freeing).at].items})
  /\ node' = Drop(node, {Top(freeing).at})
  /\ freeing' = Below(freeing)
  /\ UNCHANGED <<bytes, roots, borrowed, cloning, copyOf>>

\* Mutant: no elements, no array.
free_node_if_any ==
  /\ freeing # <<>> /\ Top(freeing).done = node[Top(freeing).at].n
  /\ array' = IF Top(freeing).done = 0 THEN array
              ELSE Drop(array, {node[Top(freeing).at].items})
  /\ node' = Drop(node, {Top(freeing).at})
  /\ freeing' = Below(freeing)
  /\ UNCHANGED <<bytes, roots, borrowed, cloning, copyOf>>

\* No element is left: the element array, the node.
free_node ==
  /\ freeing # <<>> /\ Top(freeing).done = node[Top(freeing).at].n
  /\ array' = Drop(array, {node[Top(freeing).at].items})
  /\ node' = Drop(node, {Top(freeing).at})
  /\ freeing' = Below(freeing)
  /\ UNCHANGED <<bytes, roots, borrowed, cloning, copyOf>>

-----------------------------------------------------------------------------
\* Callers that keep to the contract of value.h: they use what they own, give
\* up what they hand over or free, and drop what they borrowed from it.  A
\* thread's values are its own, so calls of two threads touch different blocks,
\* and one call at a time stands for all of them.

Init == /\ node = <<>> /\ array = <<>> /\ bytes = <<>> /\ roots = {}
        /\ borrowed = [at |-> NULL, from |-> NULL]
        /\ freeing = <<>> /\ cloning = <<>> /\ copyOf = <<>>

Next == \/ value_leaf \/ value_arr \/ value_obj
        \/ value_arr_push \/ value_arr_set_int
        \/ value_arr_set_str \/ value_obj_set \/ value_arr_get_str
        \/ value_clone \/ clone_element \/ clone_return
        \/ value_free \/ free_element \/ free_node

Spec == Init /\ [][Next]_vars

-----------------------------------------------------------------------------
\* Properties.

\* What value_free has passed no longer counts: its pointers dangle until the
\* array goes too.
Passed(b, i) == \E k \in DOMAIN freeing :
                  node[freeing[k].at].items = b /\ i <= freeing[k].done
ValAt(b, i) == IF Passed(b, i) THEN NULL ELSE array[b][i].val
KeyAt(b, i) == IF Passed(b, i) THEN NULL ELSE array[b][i].skey
TextAt(a) == IF \E k \in DOMAIN freeing : freeing[k].at = a THEN NULL
             ELSE node[a].text
Freed == {freeing[k].at : k \in DOMAIN freeing}
Copies == {cloning[k].dst : k \in DOMAIN cloning}

\* An array is a node's, or being filled for one.
Holds(a, b) == \/ node[a].items = b
               \/ \E k \in DOMAIN cloning :
                    cloning[k].dst = a /\ cloning[k].block = b

NodeType == [tag : {"leaf", "arr", "obj"}, text : Bytes \cup {NULL},
             items : Arrays \cup {NULL}, n : Nat]
SlotType == [key : {"int", "str"}, ikey : MinInt .. MaxInt,
             skey : Bytes \cup {NULL}, val : Nodes \cup {NULL}]

\* Blocks are what they are used as, and the elements of a value are those it
\* counts: as many slots hold a value, the ones after them nothing.
TypeOK ==
  /\ DOMAIN node \subseteq Nodes /\ node \in [DOMAIN node -> NodeType]
  /\ DOMAIN array \subseteq Arrays /\ array \in [DOMAIN array -> Seq(SlotType)]
  /\ DOMAIN bytes \subseteq Bytes /\ bytes \in [DOMAIN bytes -> Strings]
  /\ roots \subseteq DOMAIN node
  /\ \A a \in DOMAIN node :
       /\ node[a].items # NULL => node[a].items \in DOMAIN array
       /\ node[a].n <= Len(Slots(a))
       /\ \A i \in DOMAIN Slots(a) :
            IF i <= node[a].n THEN Slots(a)[i].val # NULL ELSE Slots(a)[i] = Zero

\* Every block has exactly one owner, whatever was built, moved, copied and
\* freed, and in the middle of copying and freeing too: nothing is freed twice
\* and no pointer in use dangles (value.c, clone.c; value.h:66: every value owns
\* all transitive heap state).  A node belongs to the caller, to a call, or to
\* one slot; an array to a node or a call; bytes to a slot or a node.
NodesOwned ==
  /\ DOMAIN node = roots \cup Freed \cup Copies
       \cup {a \in Nodes : \E b \in DOMAIN array :
                                 \E i \in DOMAIN array[b] : ValAt(b, i) = a}
  /\ roots \cap (Freed \cup Copies) = {} /\ Freed \cap Copies = {}
  /\ \A k, l \in DOMAIN freeing : freeing[k].at = freeing[l].at => k = l
  /\ \A k, l \in DOMAIN cloning : cloning[k].dst = cloning[l].dst => k = l
  /\ \A b \in DOMAIN array : \A i \in DOMAIN array[b] :
       ValAt(b, i) # NULL =>
         /\ ValAt(b, i) \notin roots \cup Freed \cup Copies
         /\ \A c \in DOMAIN array : \A j \in DOMAIN array[c] :
              ValAt(b, i) = ValAt(c, j) => b = c /\ i = j

ArraysOwned ==
  /\ \A b \in DOMAIN array : \E a \in DOMAIN node : Holds(a, b)
  /\ \A a, c \in DOMAIN node : \A b \in DOMAIN array :
       Holds(a, b) /\ Holds(c, b) => a = c
  /\ \A k \in DOMAIN cloning : cloning[k].block \in DOMAIN array \cup {NULL}

BytesOwned ==
  /\ DOMAIN bytes = {p \in Bytes :
       \/ \E a \in DOMAIN node : TextAt(a) = p
       \/ \E b \in DOMAIN array : \E i \in DOMAIN array[b] : KeyAt(b, i) = p}
  /\ \A a, c \in DOMAIN node : TextAt(a) = TextAt(c) /\ TextAt(a) # NULL => a = c
  /\ \A b \in DOMAIN array : \A i \in DOMAIN array[b] :
       KeyAt(b, i) # NULL =>
         /\ \A a \in DOMAIN node : TextAt(a) # KeyAt(b, i)
         /\ \A c \in DOMAIN array : \A j \in DOMAIN array[c] :
              KeyAt(b, i) = KeyAt(c, j) => b = c /\ i = j

OneOwner == NodesOwned /\ ArraysOwned /\ BytesOwned

\* The nodes that can be reached from t, itself included: those in every set
\* that has t and the elements of its members.
IsClosed(S) ==
  \A b \in DOMAIN array : (\E a \in S : Holds(a, b)) =>
    \A i \in DOMAIN array[b] : ValAt(b, i) \in S \cup {NULL}
Reach(t) ==
  LET Closed == {S \in SUBSET DOMAIN node : t \in S /\ IsClosed(S)}
  IN {a \in DOMAIN node : \A S \in Closed : a \in S}

\* Whatever is allocated can still be reached, by a caller or by the call that
\* is building or freeing it: no tree is lost (value.c:226, clone.c:6).
NothingLeaks ==
  DOMAIN node = UNION {Reach(t) : t \in roots \cup Freed \cup Copies}

Element(b, i) == [key |-> array[b][i].key, ikey |-> array[b][i].ikey,
                  name |-> Text(array[b][i].skey), val |-> array[b][i].val]
Elements(a) == [i \in 1 .. node[a].n |-> Element(node[a].items, i)]
Label(a) == <<node[a].tag, Text(node[a].text)>>
Shows(a) == <<Label(a), Elements(a)>>

\* A step leaves every value of a caller as it was, down to the leaves, but for
\* the one it works on, which gets one element at its end that was a value of
\* its own before; so a copy and its original never disturb each other, and
\* freeing one value leaves the others alone (value.c, clone.c).
ValuesAreIndependent ==
  [][\A r \in roots \cap roots' : \A a \in Reach(r) :
       /\ a \in DOMAIN node'
       /\ \/ Shows(a)' = Shows(a)
          \/ /\ a = r /\ Label(a)' = Label(a)
             /\ \E e \in [key : {"int", "str"}, ikey : MinInt .. MaxInt,
                          name : Strings, val : roots \ roots'] :
                  Elements(a)' = Append(Elements(a), e)]_vars

\* What was borrowed stays what it was, down to the leaves, until its owner is
\* freed, though its array grows, is handed over or copied (value.c:197,
\* value.h:81).
BorrowedStays ==
  [][borrowed.at # NULL /\ borrowed'.at = borrowed.at =>
       \A a \in Reach(borrowed.at) : a \in DOMAIN node' /\ Shows(a)' = Shows(a)]_vars

\* A copy is node by node what its original is, with nodes of its own: the same
\* strings, the same keys in the same order, and for every element the copy of
\* that element (clone.c).
CloneIsExact ==
  cloning = <<>> => \A d \in DOMAIN copyOf :
    LET s == copyOf[d]
    IN /\ {d, s} \subseteq DOMAIN node /\ s \notin DOMAIN copyOf
       /\ Label(d) = Label(s) /\ node[d].n = node[s].n
       /\ \A i \in 1 .. node[d].n :
            LET e == Elements(d)[i]
                f == Elements(s)[i]
            IN /\ <<e.key, e.ikey, e.name>> = <<f.key, f.ikey, f.name>>
               /\ e.val \in DOMAIN copyOf /\ copyOf[e.val] = f.val
=============================================================================
