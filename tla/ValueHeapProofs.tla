-------------------------- MODULE ValueHeapProofs ---------------------------
(***************************************************************************)
(* The memory of values, for any addresses and any number of values: the    *)
(* invariant, and the steps that build and free (value.c).                  *)
(*                                                                          *)
(* That every block has one owner is not inductive.  A step of value_free   *)
(* needs what the calls below it have passed, and a step of value_clone     *)
(* needs the slots it has not reached to be clear and those it has to hold  *)
(* the copies made for them: FramesOK.  And a copy must not become part of  *)
(* what is being copied: Originals.                                         *)
(*                                                                          *)
(* Each step is summed up by what it does to the shape of the trees - a new *)
(* one, an element attached or detached, a root gone - and by which values  *)
(* it leaves as they are.  ValueHeapTheorems needs no more of it.           *)
(***************************************************************************)
EXTENDS ValueHeap, TLAPS, SequenceTheorems

\* The frames on the stacks of calls.
FreeFrame == [at : Nodes, done : Nat]
CloneFrame == [src : Nodes, dst : Nodes, block : Arrays \cup {NULL}, done : Nat]

\* What the calls on the stacks have done, and have left to do.
FramesOK ==
  /\ freeing \in Seq(FreeFrame) /\ cloning \in Seq(CloneFrame)
  /\ freeing = <<>> \/ cloning = <<>>
  /\ \A k \in DOMAIN freeing : freeing[k].done <= node[freeing[k].at].n
  /\ \A k \in DOMAIN cloning :
       LET f == cloning[k]
       IN /\ node[f.dst].items = NULL /\ node[f.dst].n = 0
          /\ f.done <= node[f.src].n /\ (k < Len(cloning) => f.done >= 1)
          /\ f.block = NULL <=> node[f.src].n = 0
          /\ f.block # NULL =>
               /\ f.block \in DOMAIN array
               /\ Len(array[f.block]) = node[f.src].n
               /\ \A i \in DOMAIN array[f.block] :
                    IF i > f.done THEN array[f.block][i] = Zero
                    ELSE array[f.block][i].val = NULL <=> i = f.done /\ k < Len(cloning)

\* The nodes of the copy are apart from its original: no value outside of the
\* copy has one of them for an element.
Originals ==
  /\ DOMAIN copyOf \subseteq DOMAIN node /\ Copies \subseteq DOMAIN copyOf
  /\ freeing # <<>> => copyOf = <<>>
  /\ \A k \in DOMAIN cloning : cloning[k].src \in DOMAIN node \ DOMAIN copyOf
  /\ \A a \in DOMAIN node \ DOMAIN copyOf :
       \A i \in DOMAIN Slots(a) : Slots(a)[i].val \notin DOMAIN copyOf

\* The inductive invariant.
IInv == TypeOK /\ OneOwner /\ FramesOK /\ Originals

\* A copy that is complete is what its original is; one in the making is so far.
SameKey(e, f) == e.key = f.key /\ e.ikey = f.ikey /\ e.name = f.name
HasCopy(x, y) == y \in DOMAIN copyOf /\ copyOf[y] = x

CopiesOK ==
  /\ \A d \in DOMAIN copyOf :
       /\ copyOf[d] \in DOMAIN node \ DOMAIN copyOf /\ Label(d) = Label(copyOf[d])
       /\ d \notin Copies =>
            /\ DOMAIN Elements(d) = DOMAIN Elements(copyOf[d])
            /\ \A i \in DOMAIN Elements(d) :
                 /\ SameKey(Elements(d)[i], Elements(copyOf[d])[i])
                 /\ HasCopy(Elements(copyOf[d])[i].val, Elements(d)[i].val)
  /\ \A k \in DOMAIN cloning :
       \A b \in {cloning[k].block}, s \in {cloning[k].src}, m \in {cloning[k].done} :
         /\ copyOf[cloning[k].dst] = s
         /\ k < Len(cloning) => cloning[k + 1].src = Elements(s)[m].val
         /\ \A i \in 1 .. m :
              /\ SameKey(Element(b, i), Elements(s)[i])
              /\ Element(b, i).val # NULL => HasCopy(Elements(s)[i].val, Element(b, i).val)

\* malloc gives out an address that is not in use.
LEMMA NewIsFresh ==
  ASSUME NEW S, NEW heap, Unused(S, heap) # {}
  PROVE  New(S, heap) \in S /\ New(S, heap) \notin DOMAIN heap
<1> SUFFICES New(S, heap) \in Unused(S, heap)
  BY DEF Unused
<1> QED BY DEF New

\* A cleared slot is a slot that owns nothing.
LEMMA ZeroType == Zero \in SlotType /\ Zero.val = NULL /\ Zero.skey = NULL
BY HeapAssumption DEF Zero, Slot, SlotType, MinInt

\* The slots of an element array, by their places.
LEMMA SlotsOf ==
  ASSUME NEW s \in Seq(SlotType)
  PROVE  Len(s) \in Nat /\ DOMAIN s = 1 .. Len(s) /\ \A i \in 1 .. Len(s) : s[i] \in SlotType
BY LenProperties

\* What calloc(n, sizeof(kv_t)) gives.
LEMMA ZerosSeq ==
  ASSUME NEW n \in Nat
  PROVE  /\ Zeros(n) \in Seq(SlotType) /\ Len(Zeros(n)) = n
         /\ \A i \in 1 .. n : Zeros(n)[i] = Zero
<1>1. Zeros(n) \in [1 .. n -> SlotType]
  BY ZeroType DEF Zeros
<1>2. Zeros(n) \in Seq(SlotType)
  BY <1>1, SeqDef
<1>3. Len(Zeros(n)) = n
  BY <1>1, <1>2, LenProperties
<1> QED BY <1>2, <1>3 DEF Zeros

\* grow keeps the slots there were and clears the ones it adds (value.c:116).
LEMMA GrowSeq ==
  ASSUME NEW s \in Seq(SlotType)
  PROVE  /\ grow(s) \in Seq(SlotType) /\ Len(grow(s)) > Len(s)
         /\ \A i \in 1 .. Len(grow(s)) :
              grow(s)[i] = IF i <= Len(s) THEN s[i] ELSE Zero
<1> DEFINE m == IF s = <<>> THEN FirstCap ELSE 2 * Len(s)
<1>0. Len(s) \in Nat /\ DOMAIN s = 1 .. Len(s) /\ \A i \in 1 .. Len(s) : s[i] \in SlotType
  BY SlotsOf
<1>1. m \in Nat /\ m > Len(s)
  BY <1>0, HeapAssumption, EmptySeq
<1>2. grow(s) = [i \in 1 .. m |-> IF i \in DOMAIN s THEN s[i] ELSE Zero]
  BY DEF grow
<1> HIDE DEF m
<1>3. grow(s) \in [1 .. m -> SlotType]
  BY <1>0, <1>2, ZeroType
<1>4. grow(s) \in Seq(SlotType)
  BY <1>1, <1>3, SeqDef
<1>5. Len(grow(s)) = m
  BY <1>1, <1>3, <1>4, LenProperties
<1> QED BY <1>0, <1>1, <1>2, <1>4, <1>5

\* dup_bytes and malloc of a key: a fresh address with the string, the others as
\* they were; none for the empty string (value.c:7, clone.c:19).
LEMMA Dup ==
  ASSUME NEW heap, heap \in [DOMAIN heap -> Strings], DOMAIN heap \subseteq Bytes,
         NEW s \in Strings, Fits(heap, s)
  PROVE  /\ dup_bytes(heap, s) \in Bytes \cup {NULL}
         /\ dup_bytes(heap, s) \notin DOMAIN heap
         /\ DOMAIN With(heap, s) = DOMAIN heap \cup ({dup_bytes(heap, s)} \ {NULL})
         /\ With(heap, s) \in [DOMAIN With(heap, s) -> Strings]
         /\ \A q \in DOMAIN heap : With(heap, s)[q] = heap[q]
         /\ IF dup_bytes(heap, s) = NULL THEN s = Empty
            ELSE With(heap, s)[dup_bytes(heap, s)] = s
<1>1. CASE s = Empty
  BY <1>1, HeapAssumption DEF dup_bytes, With
<1>2. CASE s # Empty
  <2>1. Unused(Bytes, heap) # {}
    BY <1>2 DEF Fits
  <2>2. New(Bytes, heap) \in Bytes /\ New(Bytes, heap) \notin DOMAIN heap
    BY <2>1, NewIsFresh
  <2> QED BY <1>2, <2>2, HeapAssumption DEF dup_bytes, With, Put
<1> QED BY <1>1, <1>2

\* Without a call of value_free, every pointer is in use.
LEMMA NothingFreed ==
  ASSUME freeing = <<>>
  PROVE  /\ Freed = {} /\ DOMAIN freeing = {}
         /\ \A a : TextAt(a) = node[a].text
         /\ \A b, i : ValAt(b, i) = array[b][i].val /\ KeyAt(b, i) = array[b][i].skey
BY DEF Freed, TextAt, ValAt, KeyAt, Passed

\* The same after the step.
LEMMA NothingFreedNext ==
  ASSUME freeing' = <<>>
  PROVE  /\ Freed' = {} /\ DOMAIN freeing' = {}
         /\ \A a : TextAt(a)' = node'[a].text
         /\ \A b, i : ValAt(b, i)' = array'[b][i].val /\ KeyAt(b, i)' = array'[b][i].skey
BY DEF Freed, TextAt, ValAt, KeyAt, Passed

\* Without a call of value_clone, the arrays held are those of the nodes.
LEMMA NothingCopied ==
  ASSUME cloning = <<>>
  PROVE  Copies = {} /\ DOMAIN cloning = {} /\ \A a, b : Holds(a, b) <=> node[a].items = b
BY DEF Copies, Holds

\* The same after the step.
LEMMA NothingCopiedNext ==
  ASSUME cloning' = <<>>
  PROVE  Copies' = {} /\ DOMAIN cloning' = {} /\ \A a, b : Holds(a, b)' <=> node'[a].items = b
BY DEF Copies, Holds

\* An element that counts is in the array of its value.
LEMMA ElementIsThere ==
  ASSUME TypeOK, NEW a \in DOMAIN node, NEW i \in 1 .. node[a].n,
         NEW b, b = node[a].items
  PROVE  /\ b \in DOMAIN array /\ Slots(a) = array[b] /\ i \in DOMAIN array[b]
         /\ array[b][i] \in SlotType /\ array[b][i].val \in Nodes
<1>1. node[a] \in NodeType /\ node[a].n \in Nat
  BY DEF TypeOK, NodeType
<1>2. node[a].n <= Len(Slots(a))
  BY DEF TypeOK
<1>3. b # NULL
  <2>1. SUFFICES ASSUME b = NULL PROVE FALSE
    OBVIOUS
  <2>2. Slots(a) = <<>>
    BY <2>1 DEF Slots
  <2>3. Len(Slots(a)) = 0
    BY <2>2
  <2> QED BY <2>3, <1>1, <1>2
<1>4. b \in DOMAIN array /\ Slots(a) = array[b]
  BY <1>3 DEF Slots, TypeOK
<1>5. array[b] \in Seq(SlotType)
  BY <1>4 DEF TypeOK
<1>6. Len(array[b]) \in Nat /\ DOMAIN array[b] = 1 .. Len(array[b])
  BY <1>5, LenProperties
<1>7. i \in DOMAIN array[b] /\ i <= node[a].n
  BY <1>1, <1>2, <1>4, <1>6
<1>8. array[b][i] \in SlotType
  BY <1>5, <1>6, <1>7, ElementOfSeq
<1>9. array[b][i].val # NULL
  BY <1>4, <1>7 DEF TypeOK
<1> QED BY <1>4, <1>7, <1>8, <1>9 DEF SlotType

\* While nothing is being freed, the strings and the keys of a value are there.
LEMMA TextOfNode ==
  ASSUME IInv, NEW a \in DOMAIN node, freeing = <<>>
  PROVE  /\ node[a].text \in DOMAIN bytes \cup {NULL} /\ Text(node[a].text) \in Strings
         /\ \A i \in DOMAIN Slots(a) : /\ Slots(a)[i].skey \in DOMAIN bytes \cup {NULL}
                                       /\ Text(Slots(a)[i].skey) \in Strings
<1>1. node[a].text \in DOMAIN bytes \cup {NULL}
  BY NothingFreed DEF IInv, OneOwner, BytesOwned, TypeOK, NodeType
<1>2. ASSUME NEW i \in DOMAIN Slots(a)
      PROVE  Slots(a)[i].skey \in DOMAIN bytes \cup {NULL}
  <2>1. node[a].items \in DOMAIN array /\ Slots(a) = array[node[a].items]
    BY EmptySeq DEF Slots, IInv, TypeOK
  <2>2. array[node[a].items][i] \in SlotType
    BY <2>1, SlotsOf DEF IInv, TypeOK
  <2> QED BY <2>1, <2>2, NothingFreed DEF IInv, OneOwner, BytesOwned, SlotType
<1>3. \A p \in DOMAIN bytes \cup {NULL} : Text(p) \in Strings
  BY HeapAssumption DEF Text, IInv, TypeOK
<1> QED BY <1>1, <1>2, <1>3

\* The shape of the trees.  x is an element of a; the values that are nobody's
\* element; what a step may do to the one and the other.
IsElement(x, a) ==
  \E b \in DOMAIN array : Holds(a, b) /\ \E i \in DOMAIN array[b] : ValAt(b, i) = x
Tops == roots \cup Freed \cup Copies

SameShape ==
  /\ DOMAIN node' = DOMAIN node /\ Tops' = Tops
  /\ \A a, x \in DOMAIN node : IsElement(x, a)' <=> IsElement(x, a)
NewTop ==
  \E n : /\ n \notin DOMAIN node /\ DOMAIN node' = DOMAIN node \cup {n}
         /\ Tops' = Tops \cup {n}
         /\ \A a, x \in DOMAIN node' :
              IsElement(x, a)' <=> a # n /\ x # n /\ IsElement(x, a)
Attached(a, x) ==
  /\ a \in Tops' /\ x \in Tops /\ Tops' = Tops \ {x}
  /\ DOMAIN node' = DOMAIN node
  /\ \A c, y \in DOMAIN node :
       IsElement(y, c)' <=> IsElement(y, c) \/ (c = a /\ y = x)
Detached ==
  \E a \in Freed, x \in DOMAIN node :
    /\ Tops' = Tops \cup {x} /\ DOMAIN node' = DOMAIN node
    /\ \A c, y \in DOMAIN node :
         IsElement(y, c)' <=> IsElement(y, c) /\ ~(c = a /\ y = x)
TopGone ==
  \E a \in Freed :
    /\ Tops' = Tops \ {a} /\ DOMAIN node' = DOMAIN node \ {a}
    /\ \A x \in DOMAIN node : ~IsElement(x, a)
    /\ \A c, x \in DOMAIN node' : IsElement(x, c)' <=> IsElement(x, c)

\* What a step leaves alone: all but X, which no other value leads into.
Sealed(X) == \A a \in DOMAIN node \ X : \A x \in X : ~IsElement(x, a)
LeavesAlone(X) ==
  /\ X \subseteq DOMAIN node /\ Sealed(X)
  /\ \A a \in DOMAIN node \ X : a \in DOMAIN node' /\ Shows(a)' = Shows(a)
Kept == \E X : LeavesAlone(X) /\ X \cap roots \cap roots' = {}
               /\ (borrowed.from \in X \cap roots => borrowed'.at = NULL)

\* A value whose node, slots and strings are as they were shows the same.
LEMMA ShowsKept ==
  ASSUME NEW a, NEW p, NEW b, NEW c, p = node[a].text, node'[a].text = p,
         node'[a].tag = node[a].tag, node'[a].n = node[a].n,
         b = node[a].items, c = node'[a].items,
         p # NULL => bytes'[p] = bytes[p],
         \A i \in 1 .. node[a].n :
           /\ array'[c][i] = array[b][i]
           /\ array[b][i].skey # NULL => bytes'[array[b][i].skey] = bytes[array[b][i].skey]
  PROVE  Shows(a)' = Shows(a)
<1>1. Text(node[a].text)' = Text(node[a].text)
  BY SMTT(30) DEF Text
<1>2. ASSUME NEW i \in 1 .. node[a].n PROVE Element(node[a].items, i)' = Element(node[a].items, i)
  <2> PICK q : q = array[b][i].skey
    OBVIOUS
  <2>1. array'[c][i] = array[b][i]
    OBVIOUS
  <2>2. Text(array[node[a].items][i].skey)' = Text(array[node[a].items][i].skey)
    BY <2>1 DEF Text
  <2> QED BY <2>1, <2>2 DEF Element
<1>3. Elements(a)' = Elements(a)
  BY <1>2 DEF Elements
<1> QED BY <1>1, <1>3 DEF Shows, Label

\* The strings of a value that is not being freed are there.
StringsAreThere ==
  \A a \in DOMAIN node \ Freed :
    /\ node[a].text \in DOMAIN bytes \cup {NULL}
    /\ \A i \in 1 .. node[a].n : array[node[a].items][i].skey \in DOMAIN bytes \cup {NULL}

\* Nobody frees the strings of a value that is not being freed.
LEMMA OwnedStrings == TypeOK /\ OneOwner => StringsAreThere
<1> SUFFICES ASSUME TypeOK, OneOwner, NEW a \in DOMAIN node \ Freed
             PROVE  /\ node[a].text \in DOMAIN bytes \cup {NULL}
                    /\ \A i \in 1 .. node[a].n :
                         array[node[a].items][i].skey \in DOMAIN bytes \cup {NULL}
  BY DEF StringsAreThere
<1> PICK b : b = node[a].items
  OBVIOUS
<1>1. node[a].text \in DOMAIN bytes \cup {NULL}
  <2>1. TextAt(a) = node[a].text
    BY DEF TextAt, Freed
  <2>2. node[a].text \in Bytes \cup {NULL}
    BY DEF TypeOK, NodeType
  <2> QED BY <2>1, <2>2 DEF OneOwner, BytesOwned
<1>2. ASSUME NEW i \in 1 .. node[a].n PROVE array[b][i].skey \in DOMAIN bytes \cup {NULL}
  <2>1. b \in DOMAIN array /\ i \in DOMAIN array[b] /\ array[b][i] \in SlotType
    BY ElementIsThere
  <2>2. ~Passed(b, i)
    <3>1. SUFFICES ASSUME NEW k \in DOMAIN freeing, node[freeing[k].at].items = b PROVE FALSE
      BY DEF Passed
    <3> PICK f : f = freeing[k].at
      OBVIOUS
    <3>2. f \in Freed /\ f \in DOMAIN node /\ f # a
      BY DEF OneOwner, NodesOwned, Freed
    <3>3. Holds(f, b) /\ Holds(a, b)
      BY <3>1 DEF Holds
    <3> QED BY <3>2, <3>3, <2>1 DEF OneOwner, ArraysOwned
  <2>3. KeyAt(b, i) = array[b][i].skey
    BY <2>2 DEF KeyAt
  <2>4. array[b][i].skey \in Bytes \cup {NULL}
    BY <2>1 DEF SlotType
  <2> QED BY <2>1, <2>3, <2>4 DEF OneOwner, BytesOwned
<1> QED BY <1>1, <1>2

\* The same after the step.
LEMMA OwnedStringsNext == (TypeOK /\ OneOwner)' => StringsAreThere'
BY OwnedStrings, PTL

\* A step that frees nothing: it leaves a value alone if it leaves node and slots.
LEMMA ShowsKeptAtRest ==
  ASSUME IInv, freeing = <<>>, NEW a \in DOMAIN node, node'[a] = node[a],
         \A q \in DOMAIN bytes : bytes'[q] = bytes[q], NEW b, b = node[a].items,
         \A i \in 1 .. node[a].n : array'[b][i] = array[b][i]
  PROVE  Shows(a)' = Shows(a)
<1> PICK p : p = node[a].text
  OBVIOUS
<1>1. /\ p \in DOMAIN bytes \cup {NULL}
      /\ \A i \in 1 .. node[a].n : array[b][i].skey \in DOMAIN bytes \cup {NULL}
  BY OwnedStrings, NothingFreed DEF IInv, StringsAreThere
<1> QED BY <1>1, ShowsKept

\* A step that only frees: what is still owned after it shows the same.
LEMMA ShowsKeptFreeing ==
  ASSUME TypeOK', OneOwner', NEW a \in DOMAIN node', a \notin Freed', node'[a] = node[a],
         \A q \in DOMAIN bytes' : bytes'[q] = bytes[q], NEW b, b = node[a].items,
         \A i \in 1 .. node[a].n : array'[b][i] = array[b][i]
  PROVE  Shows(a)' = Shows(a)
<1> PICK p : p = node[a].text
  OBVIOUS
<1>1. /\ p \in DOMAIN bytes' \cup {NULL}
      /\ \A i \in 1 .. node[a].n : array'[b][i].skey \in DOMAIN bytes' \cup {NULL}
  BY OwnedStringsNext DEF StringsAreThere
<1> QED BY <1>1, ShowsKept

\* The stack without its top.
LEMMA Popped ==
  ASSUME NEW S, NEW s \in Seq(S), s # <<>>
  PROVE  /\ Len(s) \in Nat \ {0} /\ DOMAIN s = 1 .. Len(s) /\ Top(s) \in S
         /\ Below(s) \in Seq(S) /\ Len(Below(s)) = Len(s) - 1
         /\ DOMAIN Below(s) = 1 .. Len(s) - 1
         /\ \A k \in 1 .. Len(s) - 1 : Below(s)[k] = s[k]
<1>1. Len(s) \in Nat \ {0} /\ DOMAIN s = 1 .. Len(s) /\ \A k \in 1 .. Len(s) : s[k] \in S
  BY EmptySeq, LenProperties
<1>2. /\ Below(s) \in Seq(S) /\ Len(Below(s)) = Len(s) - 1
      /\ \A k \in 1 .. Len(s) - 1 : Below(s)[k] = s[k]
  BY <1>1, SubSeqProperties DEF Below
<1> QED BY <1>1, <1>2, LenProperties DEF Top

\* The stack with one call more.
LEMMA Pushed ==
  ASSUME NEW S, NEW s \in Seq(S), NEW e \in S
  PROVE  /\ Append(s, e) \in Seq(S) /\ Len(Append(s, e)) = Len(s) + 1
         /\ DOMAIN Append(s, e) = 1 .. Len(s) + 1 /\ Append(s, e)[Len(s) + 1] = e
         /\ \A k \in 1 .. Len(s) : Append(s, e)[k] = s[k]
<1>1. Append(s, e) \in Seq(S) /\ Len(s) \in Nat
  BY LenProperties
<1> QED BY <1>1, LenProperties

\* The constructors (value.c:44-104): a new value of the caller, the others as they
\* were.
LEMMA MakeStep ==
  ASSUME IInv, NEW tag \in {"leaf", "arr", "obj"}, NEW text \in Strings,
         NEW cap \in Nat, make(tag, text, cap)
  PROVE  IInv' /\ NewTop /\ Kept
<1> PICK n0, b0, p0 : /\ n0 = New(Nodes, node)
                      /\ b0 = IF cap = 0 THEN NULL ELSE New(Arrays, array)
                      /\ p0 = dup_bytes(bytes, text)
  OBVIOUS
<1>1. /\ freeing = <<>> /\ freeing' = <<>> /\ cloning = <<>> /\ cloning' = <<>>
      /\ roots' = roots \cup {n0} /\ copyOf' = <<>>
  BY DEF make, AtRest
<1>2. /\ n0 \in Nodes /\ n0 \notin DOMAIN node
      /\ DOMAIN node' = DOMAIN node \cup {n0}
      /\ node'[n0] = Node(tag, p0, b0, 0)
      /\ \A a \in DOMAIN node : node'[a] = node[a]
  BY NewIsFresh DEF make, Put
<1>3. /\ b0 \in Arrays \cup {NULL} /\ b0 \notin DOMAIN array
      /\ DOMAIN array' = DOMAIN array \cup ({b0} \ {NULL})
      /\ \A b \in DOMAIN array : array'[b] = array[b]
      /\ b0 # NULL => array'[b0] = Zeros(cap)
  BY NewIsFresh, HeapAssumption DEF make, Put, IInv, TypeOK
<1>4. /\ p0 \in Bytes \cup {NULL} /\ p0 \notin DOMAIN bytes
      /\ DOMAIN bytes' = DOMAIN bytes \cup ({p0} \ {NULL})
      /\ bytes' \in [DOMAIN bytes' -> Strings]
  BY Dup DEF make, IInv, TypeOK
<1>5. b0 # NULL => /\ array'[b0] \in Seq(SlotType)
                   /\ \A i \in DOMAIN array'[b0] : array'[b0][i] = Zero
  BY ZenonT(60), <1>3, ZerosSeq, SlotsOf
<1>6. /\ node'[n0].items = b0 /\ node'[n0].text = p0 /\ node'[n0].n = 0
      /\ node'[n0] \in NodeType
  BY <1>2, <1>3, <1>4 DEF Node, NodeType
<1>7. node' \in [DOMAIN node' -> NodeType] /\ array' \in [DOMAIN array' -> Seq(SlotType)]
  <2>1. \A a \in DOMAIN node' : node'[a] \in NodeType
    BY <1>2, <1>6 DEF IInv, TypeOK
  <2>2. \A b \in DOMAIN array' : array'[b] \in Seq(SlotType)
    BY <1>3, <1>5 DEF IInv, TypeOK
  <2>3. node' = [a \in DOMAIN node' |-> node'[a]] /\ array' = [b \in DOMAIN array' |-> array'[b]]
    BY DEF make, Put, IInv, TypeOK
  <2> QED BY <2>1, <2>2, <2>3
<1>8. TypeOK'
  <2>1. ASSUME NEW a \in DOMAIN node'
        PROVE  /\ node'[a].items # NULL => node'[a].items \in DOMAIN array'
               /\ node'[a].n <= Len(Slots(a)')
               /\ \A i \in DOMAIN Slots(a)' : IF i <= node'[a].n
                    THEN Slots(a)'[i].val # NULL ELSE Slots(a)'[i] = Zero
    <3>1. CASE a = n0
      BY <3>1, <1>3, <1>5, <1>6, SlotsOf, EmptySeq DEF Slots
    <3>2. CASE a \in DOMAIN node
      <4>1. Slots(a)' = Slots(a)
        BY <3>2, <1>2, <1>3 DEF Slots, IInv, TypeOK
      <4> QED BY <3>2, <4>1, <1>2, <1>3 DEF IInv, TypeOK
    <3> QED BY <1>2, <3>1, <3>2
  <2> QED BY <2>1, <1>1, <1>2, <1>3, <1>4, <1>7 DEF IInv, TypeOK
<1>v. /\ Freed = {} /\ Freed' = {} /\ Copies = {} /\ Copies' = {}
      /\ DOMAIN freeing' = {} /\ DOMAIN cloning' = {}
      /\ \A a : TextAt(a) = node[a].text /\ TextAt(a)' = node'[a].text
      /\ \A b, i : /\ ValAt(b, i) = array[b][i].val /\ KeyAt(b, i) = array[b][i].skey
                   /\ ValAt(b, i)' = array'[b][i].val /\ KeyAt(b, i)' = array'[b][i].skey
      /\ \A a, b : /\ Holds(a, b) <=> node[a].items = b
                   /\ Holds(a, b)' <=> node'[a].items = b
  BY <1>1, NothingFreed, NothingFreedNext, NothingCopied, NothingCopiedNext
<1>z. b0 # NULL => \A i \in DOMAIN array'[b0] :
        ValAt(b0, i)' = NULL /\ KeyAt(b0, i)' = NULL
  BY <1>5, <1>v, ZeroType
<1>o. \A b \in DOMAIN array : \A i \in DOMAIN array[b] :
        ValAt(b, i)' = ValAt(b, i) /\ KeyAt(b, i)' = KeyAt(b, i)
  BY <1>v, <1>3
<1>9. NodesOwned'
  BY <1>1, <1>2, <1>3, <1>v, <1>z, <1>o, HeapAssumption DEF NodesOwned, IInv, OneOwner
<1>10. ArraysOwned'
  BY <1>1, <1>2, <1>3, <1>6, <1>v, HeapAssumption
  DEF ArraysOwned, IInv, OneOwner, TypeOK, Slots
<1>11. BytesOwned'
  BY <1>1, <1>2, <1>3, <1>4, <1>6, <1>v, <1>z, <1>o, HeapAssumption DEF BytesOwned, IInv, OneOwner
<1>12. FramesOK'
  BY <1>1, EmptySeq DEF FramesOK
<1>13. Originals'
  BY <1>1, <1>v DEF Originals
<1>14. NewTop
  <2>1. ASSUME NEW a \in DOMAIN node', NEW x \in DOMAIN node', IsElement(x, a)'
        PROVE  a # n0 /\ x # n0 /\ IsElement(x, a)
    <3>1. PICK b \in DOMAIN array' : Holds(a, b)' /\ \E i \in DOMAIN array'[b] : ValAt(b, i)' = x
      BY <2>1 DEF IsElement
    <3>2. PICK i \in DOMAIN array'[b] : ValAt(b, i)' = x
      BY <3>1
    <3>3. x # NULL /\ x \in Nodes
      BY <1>8, HeapAssumption DEF TypeOK
    <3>4. b \in DOMAIN array /\ b # b0 /\ i \in DOMAIN array[b] /\ ValAt(b, i) = x
      BY <3>2, <3>3, <1>3, <1>z, <1>o
    <3>5. a # n0
      BY <3>1, <3>4, <1>6, <1>v
    <3>6. Holds(a, b)
      BY <3>1, <3>5, <1>2, <1>v
    <3>7. x \in DOMAIN node
      BY <3>3, <3>4 DEF IInv, OneOwner, NodesOwned
    <3> QED BY <3>4, <3>5, <3>6, <3>7, <1>2 DEF IsElement
  <2>2. ASSUME NEW a \in DOMAIN node', NEW x \in DOMAIN node', a # n0, IsElement(x, a)
        PROVE  IsElement(x, a)'
    <3>1. PICK b \in DOMAIN array : Holds(a, b) /\ \E i \in DOMAIN array[b] : ValAt(b, i) = x
      BY <2>2 DEF IsElement
    <3>2. Holds(a, b)' /\ b \in DOMAIN array' /\ array'[b] = array[b]
      BY <2>2, <3>1, <1>2, <1>3, <1>v
    <3> QED BY <3>1, <3>2, <1>o DEF IsElement
  <2>3. Tops' = Tops \cup {n0}
    BY <1>1, <1>v DEF Tops
  <2> QED BY <2>1, <2>2, <2>3, <1>2 DEF NewTop
<1>15. Kept
  <2>1. ASSUME NEW a \in DOMAIN node PROVE a \in DOMAIN node' /\ Shows(a)' = Shows(a)
    <3> PICK b : b = node[a].items
      OBVIOUS
    <3>1. ASSUME NEW i \in 1 .. node[a].n PROVE array'[b][i] = array[b][i]
      BY <3>1, ElementIsThere, <1>3 DEF IInv
    <3>2. \A q \in DOMAIN bytes : bytes'[q] = bytes[q]
      BY ZenonT(60), Dup DEF make, IInv, TypeOK
    <3>3. freeing = <<>> /\ node'[a] = node[a] /\ a \in DOMAIN node'
      BY <1>1, <1>2
    <3> QED BY <3>1, <3>2, <3>3, ShowsKeptAtRest
  <2>2. LeavesAlone({})
    BY <2>1 DEF LeavesAlone, Sealed
  <2> QED BY <2>2 DEF Kept
<1> QED BY <1>8, <1>9, <1>10, <1>11, <1>12, <1>13, <1>14, <1>15 DEF IInv, OneOwner

\* Where nothing leads: a value that is nobody's element.
LEMMA TopsAreSealed ==
  ASSUME IInv, NEW X, X \subseteq Tops
  PROVE  Sealed(X) /\ X \subseteq DOMAIN node /\ NULL \notin DOMAIN node
<1>1. Tops \subseteq DOMAIN node /\ NULL \notin DOMAIN node
  BY HeapAssumption DEF Tops, IInv, TypeOK, OneOwner, NodesOwned
<1>2. ASSUME NEW x \in Tops, NEW b \in DOMAIN array, NEW i \in DOMAIN array[b], ValAt(b, i) = x
      PROVE  FALSE
  BY <1>1, <1>2 DEF Tops, IInv, OneOwner, NodesOwned
<1> QED BY <1>1, <1>2 DEF Sealed, IsElement

\* value_arr_push, value_arr_set_int, value_arr_set_str, value_obj_set
\* (value.c:140-195): the child is attached to a, which has one element more, and
\* all other values are as they were, though a's elements may have moved.
LEMMA InsertStep ==
  ASSUME IInv, NEW a \in roots, NEW key \in {"int", "str"}, NEW ikey \in MinInt .. MaxInt,
         NEW name \in Strings, NEW child \in roots, insert(a, key, ikey, name, child)
  PROVE  /\ IInv' /\ Attached(a, child) /\ LeavesAlone({a})
         /\ Label(a)' = Label(a)
         /\ \E e \in [key : {"int", "str"}, ikey : MinInt .. MaxInt,
                      name : Strings, val : roots \ roots'] :
              Elements(a)' = Append(Elements(a), e)
<1> PICK b0, b1, p0, n, old, room :
      /\ b0 = node[a].items /\ b1 = (IF IsFull(a) THEN New(Arrays, array) ELSE node[a].items)
      /\ p0 = dup_bytes(bytes, name) /\ n = node[a].n
      /\ old = Slots(a) /\ room = (IF IsFull(a) THEN grow(Slots(a)) ELSE Slots(a))
  OBVIOUS
<1> DEFINE new == Slot(key, ikey, p0, child)
<1>1. /\ freeing = <<>> /\ freeing' = <<>> /\ cloning = <<>> /\ cloning' = <<>>
      /\ roots' = roots \ {child} /\ copyOf' = <<>> /\ child # a
  BY DEF insert, AtRest
<1>v. /\ Freed = {} /\ Freed' = {} /\ Copies = {} /\ Copies' = {}
      /\ DOMAIN freeing' = {} /\ DOMAIN cloning' = {}
      /\ \A c : TextAt(c) = node[c].text /\ TextAt(c)' = node'[c].text
      /\ \A b, i : /\ ValAt(b, i) = array[b][i].val /\ KeyAt(b, i) = array[b][i].skey
                   /\ ValAt(b, i)' = array'[b][i].val /\ KeyAt(b, i)' = array'[b][i].skey
      /\ \A c, b : /\ Holds(c, b) <=> node[c].items = b
                   /\ Holds(c, b)' <=> node'[c].items = b
  BY <1>1, NothingFreed, NothingFreedNext, NothingCopied, NothingCopiedNext
<1>2. /\ a \in DOMAIN node /\ child \in DOMAIN node
      /\ b0 \in Arrays \cup {NULL} /\ (b0 # NULL => b0 \in DOMAIN array /\ old = array[b0])
      /\ old \in Seq(SlotType) /\ Len(old) \in Nat /\ n \in 0 .. Len(old)
      /\ \A i \in 1 .. Len(old) : IF i <= n THEN old[i].val # NULL ELSE old[i] = Zero
      /\ \A c \in DOMAIN node : c # a /\ node[c].items = b0 => b0 = NULL
      /\ b0 = NULL => Len(old) = 0
  <2>1. a \in DOMAIN node /\ child \in DOMAIN node /\ node[a] \in NodeType
    BY DEF IInv, TypeOK
  <2>2. b0 \in Arrays \cup {NULL} /\ (b0 # NULL => b0 \in DOMAIN array /\ old = array[b0])
    BY <2>1 DEF IInv, TypeOK, NodeType, Slots
  <2>3. old \in Seq(SlotType) /\ (b0 = NULL => Len(old) = 0)
    BY <2>1, <2>2, EmptySeq DEF IInv, TypeOK, Slots
  <2>4. Len(old) \in Nat /\ DOMAIN old = 1 .. Len(old)
    BY <2>3, SlotsOf
  <2>5. n \in 0 .. Len(old) /\
        \A i \in 1 .. Len(old) : IF i <= n THEN old[i].val # NULL ELSE old[i] = Zero
    BY <2>1, <2>4 DEF IInv, TypeOK, NodeType
  <2>6. \A c \in DOMAIN node : c # a /\ node[c].items = b0 => b0 = NULL
    BY <2>1, <2>2, <1>v DEF IInv, OneOwner, ArraysOwned
  <2> QED BY <2>1, <2>2, <2>3, <2>4, <2>5, <2>6
<1>3. /\ room \in Seq(SlotType) /\ Len(room) \in Nat /\ Len(room) >= n + 1
      /\ \A i \in 1 .. Len(room) : i <= n => i \in 1 .. Len(old) /\ room[i] = old[i]
      /\ \A i \in 1 .. Len(room) : i > n => room[i] = Zero
      /\ b1 \in Arrays /\ (b1 = b0 \/ b1 \notin DOMAIN array)
  <2>1. CASE IsFull(a)
    <3>1. n = Len(old) /\ room = grow(old) /\ b1 \in Arrays /\ b1 \notin DOMAIN array
      BY <2>1, NewIsFresh DEF IsFull, insert
    <3>2. Len(room) > Len(old) /\ room \in Seq(SlotType) /\ Len(room) \in Nat
      BY <3>1, <1>2, GrowSeq, SlotsOf
    <3> QED BY <3>1, <3>2, <1>2, GrowSeq
  <2>2. CASE ~IsFull(a)
    <3>1. n # Len(old) /\ room = old /\ b1 = b0
      BY <2>2 DEF IsFull
    <3> QED BY <3>1, <1>2
  <2> QED BY <2>1, <2>2
<1>4. /\ p0 \in Bytes \cup {NULL} /\ p0 \notin DOMAIN bytes
      /\ DOMAIN bytes' = DOMAIN bytes \cup ({p0} \ {NULL})
      /\ bytes' \in [DOMAIN bytes' -> Strings]
  BY Dup DEF insert, IInv, TypeOK
<1>5. new \in SlotType /\ new.val = child /\ new.skey = p0
  BY <1>2, <1>4 DEF Slot, SlotType, IInv, TypeOK
<1>6. /\ DOMAIN array' = (DOMAIN array \ {b0}) \cup {b1}
      /\ array' = [b \in DOMAIN array' |-> array'[b]]
      /\ \A b \in DOMAIN array \ {b0} : b # b1 /\ array'[b] = array[b]
      /\ array'[b1] = [room EXCEPT ![n + 1] = new]
  BY <1>3 DEF insert, Put, Drop
<1> HIDE DEF new
<1>7. /\ array'[b1] \in Seq(SlotType) /\ Len(array'[b1]) = Len(room)
      /\ DOMAIN array'[b1] = 1 .. Len(room)
      /\ \A i \in 1 .. Len(room) :
           array'[b1][i] = IF i = n + 1 THEN new ELSE room[i]
  BY <1>2, <1>3, <1>5, <1>6, ExceptSeq, SlotsOf
<1>8. /\ DOMAIN node' = DOMAIN node /\ node' = [c \in DOMAIN node' |-> node'[c]]
      /\ \A c \in DOMAIN node \ {a} : node'[c] = node[c]
      /\ node'[a] = [node[a] EXCEPT !.items = b1, !.n = n + 1]
  BY <1>2 DEF insert, IInv, TypeOK
<1>9. /\ node'[a] \in NodeType /\ node'[a].items = b1 /\ node'[a].n = n + 1
      /\ node'[a].text = node[a].text
  <2>1. node[a] \in NodeType
    BY <1>2 DEF IInv, TypeOK
  <2>2. node'[a] = Node(node[a].tag, node[a].text, b1, n + 1)
    BY <2>1, <1>8 DEF NodeType, Node
  <2> QED BY <2>1, <2>2, <1>2, <1>3 DEF NodeType, Node
<1>n. b1 # NULL
  BY <1>3, HeapAssumption
<1>10. TypeOK'
  <2>1. node' \in [DOMAIN node' -> NodeType]
    BY <1>8, <1>9 DEF IInv, TypeOK
  <2>2. \A b \in DOMAIN array' : array'[b] \in Seq(SlotType)
    BY <1>6, <1>7 DEF IInv, TypeOK
  <2>3. array' \in [DOMAIN array' -> Seq(SlotType)]
    BY <2>2, <1>6
  <2>4. ASSUME NEW c \in DOMAIN node'
        PROVE  /\ node'[c].items # NULL => node'[c].items \in DOMAIN array'
               /\ node'[c].n <= Len(Slots(c)')
               /\ \A i \in DOMAIN Slots(c)' : IF i <= node'[c].n
                    THEN Slots(c)'[i].val # NULL ELSE Slots(c)'[i] = Zero
    <3>1. CASE c = a
      <4>1. Slots(c)' = array'[b1]
        BY <3>1, <1>9, <1>n DEF Slots
      <4>2. \A i \in 1 .. Len(room) : IF i <= n + 1
                    THEN array'[b1][i].val # NULL ELSE array'[b1][i] = Zero
        <5>1. child # NULL
          BY <1>2, HeapAssumption DEF IInv, TypeOK
        <5>2. \A i \in 1 .. Len(room) : i <= n => array'[b1][i].val # NULL
          BY <1>2, <1>3, <1>7
        <5>3. \A i \in 1 .. Len(room) : i > n + 1 => array'[b1][i] = Zero
          BY SMTT(30), <1>2, <1>3, <1>7
        <5> QED BY <5>1, <5>2, <5>3, <1>2, <1>3, <1>5, <1>7
      <4> QED BY SMTT(30), <3>1, <4>1, <4>2, <1>3, <1>6, <1>7, <1>9
    <3>2. CASE c # a
      <4>1. Slots(c)' = Slots(c) /\ node'[c] = node[c]
        BY <3>2, <1>2, <1>6, <1>8 DEF Slots, IInv, TypeOK
      <4> QED BY <3>2, <4>1, <1>2, <1>6, <1>8 DEF IInv, TypeOK
    <3> QED BY <3>1, <3>2
  <2> QED BY <2>1, <2>3, <2>4, <1>1, <1>3, <1>4, <1>6, <1>8 DEF IInv, TypeOK
<1>11. /\ \A b \in DOMAIN array \ {b0} : \A i \in DOMAIN array[b] :
            ValAt(b, i)' = ValAt(b, i) /\ KeyAt(b, i)' = KeyAt(b, i)
       /\ \A i \in DOMAIN array'[b1] :
            \/ i = n + 1 /\ ValAt(b1, i)' = child /\ KeyAt(b1, i)' = p0
            \/ /\ b0 # NULL /\ i <= n /\ i \in DOMAIN array[b0]
               /\ ValAt(b1, i)' = ValAt(b0, i) /\ KeyAt(b1, i)' = KeyAt(b0, i)
            \/ i > n + 1 /\ ValAt(b1, i)' = NULL /\ KeyAt(b1, i)' = NULL
       /\ n + 1 \in DOMAIN array'[b1]
       /\ b0 # NULL => \A i \in DOMAIN array[b0] :
            IF i <= n THEN i \in DOMAIN array'[b1] ELSE ValAt(b0, i) = NULL /\ KeyAt(b0, i) = NULL
  <2>1. \A b \in DOMAIN array \ {b0} : \A i \in DOMAIN array[b] :
            ValAt(b, i)' = ValAt(b, i) /\ KeyAt(b, i)' = KeyAt(b, i)
    BY <1>v, <1>6
  <2>2. ASSUME NEW i \in DOMAIN array'[b1]
        PROVE
            \/ i = n + 1 /\ ValAt(b1, i)' = child /\ KeyAt(b1, i)' = p0
            \/ /\ b0 # NULL /\ i <= n /\ i \in DOMAIN array[b0]
               /\ ValAt(b1, i)' = ValAt(b0, i) /\ KeyAt(b1, i)' = KeyAt(b0, i)
            \/ i > n + 1 /\ ValAt(b1, i)' = NULL /\ KeyAt(b1, i)' = NULL
    <3>1. CASE i = n + 1
      BY <3>1, <1>v, <1>5, <1>7
    <3>2. CASE i <= n
      <4>1. i \in 1 .. Len(room) /\ i \in 1 .. Len(old) /\ i # n + 1
        BY <3>2, <1>2, <1>3, <1>7
      <4>2. array'[b1][i] = old[i]
        BY <3>2, <4>1, <1>3, <1>7
      <4>3. b0 # NULL /\ old = array[b0] /\ i \in DOMAIN array[b0]
        BY <4>1, <1>2, SlotsOf
      <4> QED BY <3>2, <4>2, <4>3, <1>v
    <3>3. CASE i > n + 1
      BY SMTT(30), <3>3, <1>v, <1>2, <1>3, <1>7, ZeroType
    <3> QED BY <3>1, <3>2, <3>3, <1>7, <1>2, <1>3
  <2>3. n + 1 \in DOMAIN array'[b1]
    BY <1>2, <1>3, <1>7
  <2>4. ASSUME b0 # NULL, NEW i \in DOMAIN array[b0]
        PROVE IF i <= n THEN i \in DOMAIN array'[b1] ELSE ValAt(b0, i) = NULL /\ KeyAt(b0, i) = NULL
    <3>1. i \in 1 .. Len(old) /\ ValAt(b0, i) = old[i].val /\ KeyAt(b0, i) = old[i].skey
      BY <2>4, <1>2, <1>v, SlotsOf
    <3>2. CASE i <= n
      <4>1. i \in 1 .. Len(room)
        BY <3>1, <3>2, <1>2, <1>3
      <4> QED BY <3>2, <4>1, <1>7
    <3>3. CASE ~(i <= n)
      <4>1. old[i] = Zero
        BY <3>1, <3>3, <1>2
      <4> QED BY <3>1, <3>3, <4>1, ZeroType
    <3> QED BY <3>2, <3>3
  <2> QED BY <2>1, <2>2, <2>3, <2>4
<1>12. NodesOwned'
  <2>1. ASSUME NEW b \in DOMAIN array, NEW i \in DOMAIN array[b], ValAt(b, i) # NULL
        PROVE  \E c \in DOMAIN array' : \E j \in DOMAIN array'[c] : ValAt(c, j)' = ValAt(b, i)
    <3>1. CASE b = b0
      <4>1. b0 # NULL /\ i <= n /\ i \in DOMAIN array'[b1]
        BY <2>1, <3>1, <1>2, <1>11, HeapAssumption DEF IInv, TypeOK
      <4>2. i # n + 1 /\ ~(i > n + 1)
        BY <4>1, <1>2, <1>7
      <4>3. ValAt(b1, i)' = ValAt(b, i) /\ b1 \in DOMAIN array'
        BY <3>1, <4>1, <4>2, <1>6, <1>11
      <4> QED BY <4>1, <4>3
    <3>2. CASE b # b0
      BY <3>2, <1>6, <1>11
    <3> QED BY <3>1, <3>2
  <2>2. ASSUME NEW b \in DOMAIN array', NEW i \in DOMAIN array'[b], ValAt(b, i)' # NULL
        PROVE  \/ ValAt(b, i)' = child /\ b = b1 /\ i = n + 1
               \/ /\ b = b1 => b0 # NULL
                  /\ i \in DOMAIN array[IF b = b1 THEN b0 ELSE b]
                  /\ (b # b1 => b \in DOMAIN array \ {b0})
                  /\ ValAt(b, i)' = ValAt(IF b = b1 THEN b0 ELSE b, i)
    BY <2>2, <1>6, <1>11
  <2>3. child \in Nodes /\ child # NULL
    BY <1>2, HeapAssumption DEF IInv, TypeOK
  <2>4. DOMAIN node' = roots' \cup Freed' \cup Copies'
          \cup {c \in Nodes : \E b \in DOMAIN array' : \E i \in DOMAIN array'[b] : ValAt(b, i)' = c}
    <3>1. ASSUME NEW x \in DOMAIN node'
          PROVE  x \in roots' \/ \E b \in DOMAIN array' : \E i \in DOMAIN array'[b] : ValAt(b, i)' = x
      <4>1. CASE x = child
        BY <4>1, <1>2, <1>6, <1>11
      <4>2. CASE x \in roots \ {child}
        BY <4>2, <1>1
      <4>3. CASE \E b \in DOMAIN array : \E i \in DOMAIN array[b] : ValAt(b, i) = x
        BY <4>3, <2>1, <1>8, HeapAssumption DEF IInv, TypeOK
      <4> QED BY <4>1, <4>2, <4>3, <1>8, <1>v DEF IInv, OneOwner, NodesOwned
    <3>2. ASSUME NEW b \in DOMAIN array', NEW i \in DOMAIN array'[b], ValAt(b, i)' \in Nodes
          PROVE  ValAt(b, i)' \in DOMAIN node'
      BY <3>2, <2>2, <1>2, <1>8, HeapAssumption DEF IInv, OneOwner, NodesOwned
    <3>3. DOMAIN node' \subseteq Nodes /\ roots' \subseteq DOMAIN node'
      BY <1>10 DEF TypeOK
    <3>4. DOMAIN node' \subseteq roots' \cup {c \in Nodes :
            \E b \in DOMAIN array' : \E i \in DOMAIN array'[b] : ValAt(b, i)' = c}
      BY <3>1, <3>3
    <3>5. {c \in Nodes : \E b \in DOMAIN array' :
              \E i \in DOMAIN array'[b] : ValAt(b, i)' = c} \subseteq DOMAIN node'
      BY <3>2
    <3> QED BY <3>3, <3>4, <3>5, <1>v
  <2>5. ASSUME NEW b \in DOMAIN array', NEW i \in DOMAIN array'[b], ValAt(b, i)' # NULL
        PROVE  /\ ValAt(b, i)' \notin roots'
               /\ \A c \in DOMAIN array' : \A j \in DOMAIN array'[c] :
                    ValAt(b, i)' = ValAt(c, j)' => b = c /\ i = j
    BY <2>2, <2>3, <2>5, <1>1, <1>2, <1>v DEF IInv, OneOwner, NodesOwned
  <2> QED BY <2>4, <2>5, <1>v DEF NodesOwned
<1>13. ArraysOwned'
  <2>1. \A c \in DOMAIN node : node[c].items \in DOMAIN array \cup {NULL}
    BY DEF IInv, TypeOK
  <2>2. \A c \in DOMAIN node \ {a} : node'[c].items # b1
    BY <2>1, <1>2, <1>3, <1>8, <1>n
  <2>3. \A b \in DOMAIN array' : \E c \in DOMAIN node' : Holds(c, b)'
    <3>1. Holds(a, b1)'
      BY <1>9, <1>v
    <3>2. ASSUME NEW b \in DOMAIN array \ {b0} PROVE \E c \in DOMAIN node : Holds(c, b)'
      <4>1. PICK c \in DOMAIN node : node[c].items = b
        BY <1>v DEF IInv, OneOwner, ArraysOwned
      <4>2. c # a
        BY <4>1, <1>2
      <4> QED BY <4>1, <4>2, <1>8, <1>v
    <3> QED BY <3>1, <3>2, <1>2, <1>6, <1>8
  <2>4. ASSUME NEW c \in DOMAIN node', NEW d \in DOMAIN node', NEW b \in DOMAIN array',
               Holds(c, b)', Holds(d, b)'
        PROVE  c = d
    <3>1. CASE b = b1
      BY <3>1, <2>2, <2>4, <1>8, <1>v
    <3>2. CASE b # b1
      <4>1. b \in DOMAIN array \ {b0} /\ c # a /\ d # a
        BY <3>2, <2>4, <1>6, <1>9, <1>v
      <4> QED BY <4>1, <2>4, <1>8, <1>v DEF IInv, OneOwner, ArraysOwned
    <3> QED BY <3>1, <3>2
  <2> QED BY <2>3, <2>4, <1>v DEF ArraysOwned
<1>14. BytesOwned'
  <2>1. ASSUME NEW b \in DOMAIN array, NEW i \in DOMAIN array[b], KeyAt(b, i) # NULL
        PROVE  \E c \in DOMAIN array' : \E j \in DOMAIN array'[c] : KeyAt(c, j)' = KeyAt(b, i)
    <3>1. CASE b = b0
      <4>1. b0 # NULL /\ i <= n /\ i \in DOMAIN array'[b1]
        BY <2>1, <3>1, <1>2, <1>11, HeapAssumption DEF IInv, TypeOK
      <4>2. i # n + 1 /\ ~(i > n + 1)
        BY <4>1, <1>2, <1>7
      <4>3. KeyAt(b1, i)' = KeyAt(b, i) /\ b1 \in DOMAIN array'
        BY <3>1, <4>1, <4>2, <1>6, <1>11
      <4> QED BY <4>1, <4>3
    <3>2. CASE b # b0
      BY <3>2, <1>6, <1>11
    <3> QED BY <3>1, <3>2
  <2>2. ASSUME NEW b \in DOMAIN array', NEW i \in DOMAIN array'[b], KeyAt(b, i)' # NULL
        PROVE  \/ KeyAt(b, i)' = p0 /\ b = b1 /\ i = n + 1
               \/ /\ b = b1 => b0 # NULL
                  /\ i \in DOMAIN array[IF b = b1 THEN b0 ELSE b]
                  /\ (b # b1 => b \in DOMAIN array \ {b0})
                  /\ KeyAt(b, i)' = KeyAt(IF b = b1 THEN b0 ELSE b, i)
    BY <2>2, <1>6, <1>11
  <2>3. \A c \in DOMAIN node : TextAt(c)' = TextAt(c)
    BY <1>8, <1>9, <1>v
  <2>4. DOMAIN bytes' = {p \in Bytes :
          \/ \E c \in DOMAIN node' : TextAt(c)' = p
          \/ \E b \in DOMAIN array' : \E i \in DOMAIN array'[b] : KeyAt(b, i)' = p}
    <3>1. ASSUME NEW p \in DOMAIN bytes'
          PROVE  \/ \E c \in DOMAIN node' : TextAt(c)' = p
                 \/ \E b \in DOMAIN array' : \E i \in DOMAIN array'[b] : KeyAt(b, i)' = p
      <4>1. CASE p = p0
        BY <4>1, <1>2, <1>6, <1>11
      <4>2. CASE p \in DOMAIN bytes
        BY <4>2, <2>1, <2>3, <1>8, HeapAssumption DEF IInv, OneOwner, BytesOwned
      <4> QED BY <4>1, <4>2, <1>4
    <3>2. ASSUME NEW b \in DOMAIN array', NEW i \in DOMAIN array'[b], KeyAt(b, i)' \in Bytes
          PROVE  KeyAt(b, i)' \in DOMAIN bytes'
      BY <3>2, <2>2, <1>2, <1>4, HeapAssumption DEF IInv, OneOwner, BytesOwned
    <3>3. ASSUME NEW c \in DOMAIN node', TextAt(c)' \in Bytes
          PROVE  TextAt(c)' \in DOMAIN bytes'
      BY <3>3, <2>3, <1>4, <1>8 DEF IInv, OneOwner, BytesOwned
    <3>4. DOMAIN bytes' \subseteq Bytes
      BY <1>10 DEF TypeOK
    <3> QED BY <3>1, <3>2, <3>3, <3>4
  <2>5. ASSUME NEW b \in DOMAIN array', NEW i \in DOMAIN array'[b], KeyAt(b, i)' # NULL
        PROVE  /\ \A c \in DOMAIN node' : TextAt(c)' # KeyAt(b, i)'
               /\ \A c \in DOMAIN array' : \A j \in DOMAIN array'[c] :
                    KeyAt(b, i)' = KeyAt(c, j)' => b = c /\ i = j
    <3>1. \A c \in DOMAIN node : TextAt(c) # p0 \/ p0 = NULL
      BY <1>4 DEF IInv, OneOwner, BytesOwned
    <3>2. \A c \in DOMAIN array : \A j \in DOMAIN array[c] : KeyAt(c, j) # p0 \/ p0 = NULL
      BY <1>4 DEF IInv, OneOwner, BytesOwned
    <3> QED BY <3>1, <3>2, <2>2, <2>3, <2>5, <1>2, <1>8 DEF IInv, OneOwner, BytesOwned
  <2> QED BY <2>3, <2>4, <2>5, <1>8 DEF BytesOwned, IInv, OneOwner
<1>15. FramesOK'
  BY <1>1, EmptySeq DEF FramesOK
<1>16. Originals'
  BY <1>1, <1>v DEF Originals
<1>17. Attached(a, child)
  <2>1. ASSUME NEW c \in DOMAIN node, NEW y \in DOMAIN node, IsElement(y, c)'
        PROVE  IsElement(y, c) \/ (c = a /\ y = child)
    <3>1. PICK b \in DOMAIN array' : Holds(c, b)' /\ \E i \in DOMAIN array'[b] : ValAt(b, i)' = y
      BY <2>1 DEF IsElement
    <3>2. PICK i \in DOMAIN array'[b] : ValAt(b, i)' = y
      BY <3>1
    <3>3. y # NULL
      BY HeapAssumption DEF IInv, TypeOK
    <3>4. CASE b = b1
      <4>1. c = a
        <5>1. node[c].items \in DOMAIN array \cup {NULL}
          BY DEF IInv, TypeOK
        <5>2. c # a => node'[c].items # b1
          BY <5>1, <1>2, <1>3, <1>8, <1>n
        <5> QED BY <3>1, <3>4, <5>2, <1>v
      <4>2. y = child \/ (b0 # NULL /\ i \in DOMAIN array[b0] /\ ValAt(b0, i) = y)
        BY <3>2, <3>3, <3>4, <1>11
      <4>3. b0 # NULL => b0 \in DOMAIN array /\ Holds(a, b0)
        BY <1>2, <1>v
      <4> QED BY <4>1, <4>2, <4>3 DEF IsElement
    <3>5. CASE b # b1
      <4>1. b \in DOMAIN array \ {b0} /\ array'[b] = array[b] /\ ValAt(b, i) = y /\ i \in DOMAIN array[b]
        BY <3>2, <3>5, <1>6, <1>11
      <4>2. c # a
        BY <3>1, <3>5, <1>9, <1>v
      <4>3. Holds(c, b)
        BY <3>1, <4>2, <1>8, <1>v
      <4> QED BY <4>1, <4>3 DEF IsElement
    <3> QED BY <3>4, <3>5
  <2>2. ASSUME NEW c \in DOMAIN node, NEW y \in DOMAIN node, IsElement(y, c)
        PROVE  IsElement(y, c)'
    <3>1. PICK b \in DOMAIN array : Holds(c, b) /\ \E i \in DOMAIN array[b] : ValAt(b, i) = y
      BY <2>2 DEF IsElement
    <3>2. PICK i \in DOMAIN array[b] : ValAt(b, i) = y
      BY <3>1
    <3>3. y # NULL /\ b # NULL
      BY HeapAssumption DEF IInv, TypeOK
    <3>4. CASE b = b0
      <4>1. c = a
        BY <3>1, <3>3, <3>4, <1>2, <1>v
      <4>2. i <= n /\ i \in DOMAIN array'[b1]
        BY <3>2, <3>3, <3>4, <1>11
      <4>3. i # n + 1 /\ ~(i > n + 1)
        BY <4>2, <1>2, <1>7
      <4>4. ValAt(b1, i)' = y
        BY <3>2, <3>4, <4>2, <4>3, <1>11
      <4>5. Holds(a, b1)' /\ b1 \in DOMAIN array'
        BY <1>6, <1>9, <1>v
      <4> QED BY <4>1, <4>2, <4>4, <4>5 DEF IsElement
    <3>5. CASE b # b0
      <4>1. c # a
        BY <3>1, <3>5, <1>2, <1>v
      <4>2. b \in DOMAIN array' /\ array'[b] = array[b] /\ ValAt(b, i)' = y /\ Holds(c, b)'
        BY <3>1, <3>2, <3>5, <4>1, <1>6, <1>8, <1>11, <1>v
      <4> QED BY <3>2, <4>2 DEF IsElement
    <3> QED BY <3>4, <3>5
  <2>3. IsElement(child, a)'
    <3>1. Holds(a, b1)' /\ b1 \in DOMAIN array' /\ n + 1 \in DOMAIN array'[b1]
      BY <1>6, <1>9, <1>11, <1>v
    <3>2. ValAt(b1, n + 1)' = child
      BY <3>1, <1>2, <1>5, <1>7, <1>v
    <3> QED BY <3>1, <3>2 DEF IsElement
  <2>4. Tops = roots /\ Tops' = roots \ {child}
    BY <1>1, <1>v DEF Tops
  <2> QED BY <2>1, <2>2, <2>3, <2>4, <1>1, <1>8 DEF Attached
<1>18. \A q \in DOMAIN bytes : bytes'[q] = bytes[q]
  <2>1. bytes' = With(bytes, name) /\ Fits(bytes, name)
    BY DEF insert
  <2>2. DOMAIN bytes \subseteq Bytes /\ bytes \in [DOMAIN bytes -> Strings]
    BY DEF IInv, TypeOK
  <2> QED BY <2>1, <2>2, Dup
<1>19. LeavesAlone({a})
  <2>1. ASSUME NEW c \in DOMAIN node \ {a} PROVE c \in DOMAIN node' /\ Shows(c)' = Shows(c)
    <3> PICK b : b = node[c].items
      OBVIOUS
    <3>1. ASSUME NEW i \in 1 .. node[c].n PROVE array'[b][i] = array[b][i]
      <4>1. b \in DOMAIN array
        BY <3>1, ElementIsThere DEF IInv
      <4>2. b # NULL
        BY <4>1, HeapAssumption DEF IInv, TypeOK
      <4>3. b # b0
        BY <4>2, <1>2
      <4> QED BY <4>1, <4>3, <1>6
    <3>2. freeing = <<>> /\ node'[c] = node[c] /\ c \in DOMAIN node'
      BY <1>1, <1>8
    <3> QED BY <3>1, <3>2, <1>18, ShowsKeptAtRest
  <2>2. Sealed({a}) /\ {a} \subseteq DOMAIN node
    BY TopsAreSealed DEF Tops
  <2> QED BY <2>1, <2>2 DEF LeavesAlone
<1>20. /\ node[a].text \in DOMAIN bytes \cup {NULL}
       /\ \A i \in 1 .. n : /\ old[i].skey \in DOMAIN bytes \cup {NULL}
                           /\ old[i].skey \in Bytes \cup {NULL}
  <2>1. /\ node[a].text \in DOMAIN bytes \cup {NULL}
        /\ \A i \in 1 .. n : array[b0][i].skey \in DOMAIN bytes \cup {NULL}
    BY <1>2, <1>v, OwnedStrings DEF IInv, StringsAreThere
  <2>2. DOMAIN bytes \subseteq Bytes
    BY DEF IInv, TypeOK
  <2>3. ASSUME NEW i \in 1 .. n PROVE old = array[b0]
    BY <2>3, <1>2, ElementIsThere DEF IInv
  <2> QED BY <2>1, <2>2, <2>3
<1>21. Label(a)' = Label(a)
  <2>1. node'[a].text = node[a].text /\ node'[a].tag = node[a].tag
    <3>1. node[a] \in NodeType
      BY <1>2 DEF IInv, TypeOK
    <3> QED BY <3>1, <1>8 DEF NodeType
  <2>2. Text(node[a].text)' = Text(node[a].text)
    BY <2>1, <1>18, <1>20 DEF Text
  <2> QED BY <2>1, <2>2 DEF Label
<1>22. \E e \in [key : {"int", "str"}, ikey : MinInt .. MaxInt,
                 name : Strings, val : roots \ roots'] :
         Elements(a)' = Append(Elements(a), e)
  <2>0. PICK e : e = [key |-> key, ikey |-> ikey, name |-> name, val |-> child]
    OBVIOUS
  <2>1. e \in [key : {"int", "str"}, ikey : MinInt .. MaxInt,
               name : Strings, val : roots \ roots']
    BY <2>0, <1>1
  <2>2. Element(b1, n + 1)' = e
    <3>1. array'[b1][n + 1] = new
      BY <1>2, <1>3, <1>7
    <3>2. Text(p0)' = name
      <4>1. /\ bytes' = With(bytes, name)
            /\ IF p0 = NULL THEN name = Empty ELSE With(bytes, name)[p0] = name
        BY Dup DEF insert, IInv, TypeOK
      <4> QED BY <4>1 DEF Text
    <3>3. new.key = key /\ new.ikey = ikey /\ new.skey = p0 /\ new.val = child
      BY DEF new, Slot
    <3>4. Text(array[b1][n + 1].skey)' = name
      BY <3>1, <3>2, <3>3
    <3> QED BY <2>0, <3>1, <3>3, <3>4 DEF Element
  <2>3. ASSUME NEW i \in 1 .. n PROVE Element(b1, i)' = Element(b0, i)
    <3>1. b0 \in DOMAIN array /\ i \in DOMAIN array[b0] /\ old = array[b0]
      BY <1>2, ElementIsThere DEF IInv
    <3>2. i \in 1 .. Len(room) /\ i <= n /\ i # n + 1
      BY <1>2, <1>3
    <3>3. array'[b1][i] = array[b0][i]
      BY <3>1, <3>2, <1>3, <1>7
    <3>4. PICK q : q = array[b0][i].skey
      OBVIOUS
    <3>5. q = NULL \/ bytes'[q] = bytes[q]
      BY <3>1, <3>4, <1>18, <1>20
    <3>6. Text(array[b1][i].skey)' = Text(array[b0][i].skey)
      BY <3>3, <3>4, <3>5 DEF Text
    <3> QED BY <3>3, <3>6 DEF Element
  <2>4. PICK s : s = Elements(a)
    OBVIOUS
  <2>5. s = [i \in 1 .. n |-> Element(b0, i)] /\ Elements(a)' = [i \in 1 .. n + 1 |-> Element(b1, i)']
    BY <2>4, <1>9 DEF Elements
  <2>6. PICK V : V = {e} \cup {s[i] : i \in 1 .. n}
    OBVIOUS
  <2>7. s \in Seq(V) /\ Len(s) = n /\ DOMAIN s = 1 .. n /\ e \in V
    <3>1. s \in [1 .. n -> V] /\ n \in Nat
      BY <2>5, <2>6, <1>2
    <3>2. s \in Seq(V)
      BY <3>1, SeqDef
    <3> QED BY <2>6, <3>1, <3>2, LenProperties
  <2>8. /\ DOMAIN Append(s, e) = 1 .. n + 1 /\ Append(s, e)[n + 1] = e
        /\ \A k \in 1 .. n : Append(s, e)[k] = s[k]
        /\ Append(s, e) = [k \in DOMAIN Append(s, e) |-> Append(s, e)[k]]
    <3>1. PICK t : t = Append(s, e)
      OBVIOUS
    <3>2. /\ t \in Seq(V) /\ Len(t) = n + 1 /\ DOMAIN t = 1 .. n + 1 /\ t[n + 1] = e
          /\ \A k \in 1 .. n : t[k] = s[k]
      BY <2>7, <3>1, Pushed
    <3>3. \E k \in Nat : t \in [1 .. k -> V]
      BY <3>2, SeqDef
    <3>4. t = [k \in DOMAIN t |-> t[k]]
      BY <3>3
    <3> QED BY <3>1, <3>2, <3>4
  <2>9. \A k \in 1 .. n + 1 : k \in 1 .. n \/ k = n + 1
    BY <1>2
  <2>10. \A k \in 1 .. n + 1 : Element(b1, k)' = Append(s, e)[k]
    BY ZenonT(60), <2>2, <2>3, <2>5, <2>8, <2>9
  <2>11. Elements(a)' = Append(s, e)
    BY <2>5, <2>8, <2>10
  <2> QED BY <2>1, <2>4, <2>11
<1> QED BY <1>10, <1>12, <1>13, <1>14, <1>15, <1>16, <1>17, <1>19, <1>21, <1>22 DEF IInv, OneOwner

\* value_free is called: only the value given up is touched.
LEMMA FreeStartStep ==
  ASSUME IInv, value_free
  PROVE  IInv' /\ SameShape /\ Kept
<1> PICK a \in roots : /\ roots' = roots \ {a} /\ freeing' = <<Call(a)>>
                       /\ bytes' = Drop(bytes, {node[a].text})
                       /\ borrowed' = IF borrowed.from = a THEN [at |-> NULL, from |-> NULL]
                                      ELSE borrowed
  BY DEF value_free
<1>1. /\ freeing = <<>> /\ cloning = <<>> /\ cloning' = <<>> /\ node' = node
      /\ array' = array /\ copyOf' = <<>>
  BY DEF value_free, AtRest
<1>2. a \in DOMAIN node /\ a \in Nodes
  BY DEF IInv, TypeOK
<1>3. /\ freeing' \in Seq(FreeFrame) /\ DOMAIN freeing' = {1} /\ Len(freeing') = 1
      /\ freeing'[1].at = a /\ freeing'[1].done = 0
  BY <1>2 DEF Call, FreeFrame
<1>4. /\ Freed' = {a} /\ Freed = {} /\ Copies = {} /\ Copies' = {} /\ DOMAIN cloning' = {}
      /\ \A c, b : /\ Holds(c, b) <=> node[c].items = b
                   /\ Holds(c, b)' <=> node[c].items = b
      /\ \A c : TextAt(c) = node[c].text
                /\ TextAt(c)' = IF c = a THEN NULL ELSE node[c].text
  <2>1. Freed' = {a}
    BY <1>3 DEF Freed
  <2>2. \A c : TextAt(c)' = IF c = a THEN NULL ELSE node[c].text
    BY <1>1, <1>3 DEF TextAt
  <2> QED BY <2>1, <2>2, <1>1, NothingFreed, NothingCopied, NothingCopiedNext
<1>5. ASSUME NEW b \in DOMAIN array, NEW i \in DOMAIN array[b]
      PROVE  ValAt(b, i)' = ValAt(b, i) /\ KeyAt(b, i)' = KeyAt(b, i)
  <2>1. i \in Nat \ {0}
    BY SlotsOf DEF IInv, TypeOK
  <2>2. ~Passed(b, i)'
    BY <2>1, <1>3 DEF Passed
  <2> QED BY <2>2, <1>1, NothingFreed DEF ValAt, KeyAt
<1>6. TypeOK'
  BY <1>1 DEF IInv, TypeOK, Slots, Drop
<1>7. NodesOwned'
  BY <1>1, <1>2, <1>3, <1>4, <1>5 DEF IInv, OneOwner, NodesOwned
<1>8. ArraysOwned'
  BY <1>1, <1>4 DEF IInv, OneOwner, ArraysOwned
<1>9. BytesOwned'
  <2>1. DOMAIN bytes' = DOMAIN bytes \ {node[a].text}
    BY DEF Drop
  <2>2. ASSUME NEW p \in DOMAIN bytes'
        PROVE  \/ \E c \in DOMAIN node' : TextAt(c)' = p
               \/ \E b \in DOMAIN array' : \E i \in DOMAIN array'[b] : KeyAt(b, i)' = p
    BY <2>1, <1>1, <1>4, <1>5 DEF IInv, OneOwner, BytesOwned
  <2>3. ASSUME NEW c \in DOMAIN node', TextAt(c)' \in Bytes
        PROVE  TextAt(c)' \in DOMAIN bytes'
    BY <2>1, <2>3, <1>1, <1>2, <1>4, HeapAssumption DEF IInv, OneOwner, BytesOwned
  <2>4. ASSUME NEW b \in DOMAIN array', NEW i \in DOMAIN array'[b], KeyAt(b, i)' \in Bytes
        PROVE  KeyAt(b, i)' \in DOMAIN bytes'
    BY <2>1, <2>4, <1>1, <1>2, <1>4, <1>5, HeapAssumption DEF IInv, OneOwner, BytesOwned
  <2>5. DOMAIN bytes' = {p \in Bytes :
          \/ \E c \in DOMAIN node' : TextAt(c)' = p
          \/ \E b \in DOMAIN array' : \E i \in DOMAIN array'[b] : KeyAt(b, i)' = p}
    BY <2>2, <2>3, <2>4, <1>6 DEF TypeOK
  <2>6. \A c, d \in DOMAIN node' : TextAt(c)' = TextAt(d)' /\ TextAt(c)' # NULL => c = d
    BY <1>1, <1>4 DEF IInv, OneOwner, BytesOwned
  <2>7. ASSUME NEW b \in DOMAIN array', NEW i \in DOMAIN array'[b], KeyAt(b, i)' # NULL
        PROVE  /\ \A c \in DOMAIN node' : TextAt(c)' # KeyAt(b, i)'
               /\ \A c \in DOMAIN array' : \A j \in DOMAIN array'[c] :
                    KeyAt(b, i)' = KeyAt(c, j)' => b = c /\ i = j
    BY <2>7, <1>1, <1>4, <1>5 DEF IInv, OneOwner, BytesOwned
  <2> QED BY <2>5, <2>6, <2>7 DEF BytesOwned
<1>10. FramesOK'
  BY <1>1, <1>2, <1>3, EmptySeq DEF FramesOK, IInv, TypeOK, NodeType
<1>11. Originals'
  BY <1>1, <1>4 DEF Originals
<1>12. SameShape
  <2>1. Tops' = Tops
    BY <1>1, <1>4 DEF Tops
  <2>2. ASSUME NEW c \in DOMAIN node, NEW x \in DOMAIN node
        PROVE  IsElement(x, c)' <=> IsElement(x, c)
    <3>1. \A b \in DOMAIN array : \A i \in DOMAIN array[b] : ValAt(b, i)' = ValAt(b, i)
      BY <1>5
    <3> QED BY <3>1, <1>1, <1>4 DEF IsElement
  <2> QED BY <2>1, <2>2, <1>1 DEF SameShape
<1>13. Kept
  <2>1. ASSUME NEW c \in DOMAIN node \ {a} PROVE c \in DOMAIN node' /\ Shows(c)' = Shows(c)
    <3> PICK b : b = node[c].items
      OBVIOUS
    <3>1. OneOwner' /\ c \notin Freed' /\ node'[c] = node[c] /\ c \in DOMAIN node'
      BY <1>1, <1>4, <1>7, <1>8, <1>9 DEF OneOwner
    <3>2. \A q \in DOMAIN bytes' : bytes'[q] = bytes[q]
      BY DEF Drop
    <3>3. \A i \in 1 .. node[c].n : array'[b][i] = array[b][i]
      BY <1>1
    <3> QED BY <3>1, <3>2, <3>3, <1>6, ShowsKeptFreeing
  <2>2. Sealed({a}) /\ {a} \subseteq DOMAIN node
    BY TopsAreSealed DEF Tops
  <2>3. LeavesAlone({a}) /\ {a} \cap roots \cap roots' = {}
    BY <2>1, <2>2 DEF LeavesAlone
  <2>4. borrowed.from \in {a} \cap roots => borrowed'.at = NULL
    OBVIOUS
  <2> QED BY <2>3, <2>4 DEF Kept
<1> QED BY <1>6, <1>7, <1>8, <1>9, <1>10, <1>11, <1>12, <1>13 DEF IInv, OneOwner

\* The loop of free_kv_array: the next element is detached and its call begins; all
\* that callers own stays (value.c:219-222).
LEMMA FreeElementStep ==
  ASSUME IInv, free_element
  PROVE  IInv' /\ Detached /\ Kept
<1> PICK m, top, a, next, b, kv, v :
      /\ m = Len(freeing) /\ top = Top(freeing) /\ a = top.at /\ next = top.done + 1
      /\ b = node[a].items /\ kv = Slots(a)[next] /\ v = kv.val
  OBVIOUS
<1>1. /\ freeing # <<>> /\ node' = node /\ array' = array /\ roots' = roots
      /\ cloning' = cloning /\ copyOf' = copyOf
  BY DEF free_element
<1>n. next <= node[a].n
  BY SMTT(30) DEF free_element
<1>b. DOMAIN bytes' = DOMAIN bytes \ {kv.skey, node[v].text}
  BY DEF free_element, Drop
<1>f. freeing' = Append([freeing EXCEPT ![m].done = next], Call(v))
  BY DEF free_element
<1>s. freeing \in Seq(FreeFrame) /\ \A k \in 1 .. m : freeing[k] \in FreeFrame
  BY ElementOfSeq DEF IInv, FramesOK
<1>2. /\ m \in Nat \ {0} /\ DOMAIN freeing = 1 .. m
      /\ top = freeing[m] /\ top \in FreeFrame /\ a \in DOMAIN node
      /\ freeing[m].at = a
      /\ next \in Nat \ {0} /\ next = freeing[m].done + 1 /\ freeing[m].done \in Nat
  <2>1. freeing \in Seq(FreeFrame)
    BY DEF IInv, FramesOK
  <2>2. m \in Nat \ {0} /\ DOMAIN freeing = 1 .. m /\ top \in FreeFrame /\ top = freeing[m]
    BY <2>1, <1>1, Popped DEF Top
  <2>3. a \in DOMAIN node
    BY <2>2 DEF IInv, OneOwner, NodesOwned, Freed
  <2>5. top.done \in Nat
    BY <2>2 DEF FreeFrame
  <2> QED BY <2>1, <2>2, <2>3, <2>5
<1>3. /\ cloning = <<>> /\ copyOf = <<>> /\ Copies = {} /\ Copies' = {} /\ DOMAIN cloning = {}
      /\ \A c, d : /\ Holds(c, d) <=> node[c].items = d
                   /\ Holds(c, d)' <=> node[c].items = d
  BY <1>1, NothingCopied, NothingCopiedNext DEF IInv, FramesOK, Originals
<1>4. /\ b \in DOMAIN array /\ next \in DOMAIN array[b] /\ kv = array[b][next]
      /\ v \in Nodes /\ v # NULL /\ b # NULL
  <2>1. b \in Arrays \cup {NULL} /\ (b # NULL => b \in DOMAIN array) /\ node[a].n \in Nat
    BY <1>2 DEF IInv, TypeOK, NodeType
  <2>2. Slots(a) \in Seq(SlotType) /\ node[a].n <= Len(Slots(a))
    BY <1>2, <2>1, EmptySeq DEF IInv, TypeOK, Slots
  <2>3. next \in DOMAIN Slots(a) /\ kv \in SlotType
    <3>1. /\ Len(Slots(a)) \in Nat /\ DOMAIN Slots(a) = 1 .. Len(Slots(a))
          /\ \A i \in 1 .. Len(Slots(a)) : Slots(a)[i] \in SlotType
      BY <2>2, SlotsOf
    <3>2. next \in Nat \ {0}
      BY <1>2
    <3>3. next <= node[a].n
      BY <1>n
    <3>4. node[a].n \in Nat /\ node[a].n <= Len(Slots(a))
      BY <2>1, <2>2
    <3>5. next \in 1 .. Len(Slots(a))
      BY <3>1, <3>2, <3>3, <3>4
    <3>6. next \in DOMAIN Slots(a)
      BY <3>1, <3>5
    <3>7. kv \in SlotType
      BY <3>1, <3>5
    <3> QED BY <3>6, <3>7
  <2>4. b # NULL
    BY <1>n, <1>2, <2>1, <2>2, EmptySeq DEF Slots
  <2>5. Slots(a) = array[b]
    BY <2>4 DEF Slots
  <2>6. v # NULL
    BY <1>n, <1>2, <2>3 DEF IInv, TypeOK
  <2> QED BY <2>1, <2>3, <2>4, <2>5, <2>6 DEF SlotType
<1>5. /\ freeing' \in Seq(FreeFrame) /\ DOMAIN freeing' = 1 .. m + 1
      /\ freeing'[m + 1].at = v /\ freeing'[m + 1].done = 0
      /\ \A k \in 1 .. m : /\ freeing'[k].at = freeing[k].at
                           /\ freeing'[k].done = IF k = m THEN next ELSE freeing[k].done
  <2> DEFINE e == [top EXCEPT !.done = next]
             s == [freeing EXCEPT ![m] = e]
  <2>1. e \in FreeFrame /\ e.at = a /\ e.done = next /\ Call(v) \in FreeFrame
    BY <1>2, <1>4 DEF FreeFrame, Call
  <2>2. freeing' = Append(s, Call(v))
    BY <1>f, <1>2, <1>s
  <2> HIDE DEF e
  <2>3. s \in Seq(FreeFrame) /\ Len(s) = m /\ \A k \in 1 .. m : s[k] = IF k = m THEN e ELSE freeing[k]
    BY <2>1, <1>2, <1>s, ExceptSeq
  <2> HIDE DEF s
  <2>4. /\ freeing' \in Seq(FreeFrame) /\ DOMAIN freeing' = 1 .. m + 1
        /\ freeing'[m + 1] = Call(v) /\ \A k \in 1 .. m : freeing'[k] = s[k]
    BY <2>1, <2>2, <2>3, Pushed
  <2>5. Call(v).at = v /\ Call(v).done = 0
    BY DEF Call
  <2>6. \A k \in 1 .. m : s[k].at = freeing[k].at
                         /\ s[k].done = IF k = m THEN next ELSE freeing[k].done
    BY <2>1, <2>3, <1>2, <1>s DEF FreeFrame
  <2> QED BY <2>4, <2>5, <2>6
<1>6. ASSUME NEW c \in DOMAIN array, NEW j \in DOMAIN array[c]
      PROVE  /\ Passed(c, j)' <=> Passed(c, j) \/ (c = b /\ j = next)
             /\ Passed(c, j) => ~(c = b /\ j = next)
  <2>1. j \in Nat \ {0}
    BY SlotsOf DEF IInv, TypeOK
  <2>2. \A k \in 1 .. m : node[freeing[k].at].items = b => k = m
    <3>1. \A k \in 1 .. m : freeing[k].at \in DOMAIN node /\ freeing[m].at = a
      BY <1>2 DEF IInv, OneOwner, NodesOwned, Freed
    <3>2. \A k \in 1 .. m : node[freeing[k].at].items = b => freeing[k].at = a
      BY <3>1, <1>2, <1>3, <1>4 DEF IInv, OneOwner, ArraysOwned
    <3>3. \A k, l \in 1 .. m : freeing[k].at = freeing[l].at => k = l
      BY <1>2 DEF IInv, OneOwner, NodesOwned
    <3>4. m \in 1 .. m
      BY <1>2
    <3>5. ASSUME NEW k \in 1 .. m, node[freeing[k].at].items = b
          PROVE  freeing[k].at = freeing[m].at
      BY <3>1, <3>2, <3>5
    <3> QED BY <3>3, <3>4, <3>5
  <2>3. Passed(c, j) => ~(c = b /\ j = next)
    BY <2>1, <2>2, <1>2 DEF Passed
  <2>4. Passed(c, j)' <=> \E k \in 1 .. m + 1 : node[freeing'[k].at].items = c /\ j <= freeing'[k].done
    BY <1>1, <1>5 DEF Passed
  <2>5. ~(j <= freeing'[m + 1].done)
    BY <2>1, <1>5
  <2>6. Passed(c, j)' <=> \E k \in 1 .. m : node[freeing[k].at].items = c /\ j <= freeing'[k].done
    <3>1. ASSUME NEW k \in 1 .. m + 1, node[freeing'[k].at].items = c, j <= freeing'[k].done
          PROVE  k \in 1 .. m /\ node[freeing[k].at].items = c
      <4>1. k # m + 1
        BY <3>1, <2>5
      <4>2. k \in 1 .. m
        BY <4>1, <1>2
      <4> QED BY <3>1, <4>2, <1>5
    <3>2. ASSUME NEW k \in 1 .. m, node[freeing[k].at].items = c
          PROVE  k \in 1 .. m + 1 /\ node[freeing'[k].at].items = c
      BY <3>2, <1>2, <1>5
    <3> QED BY <2>4, <3>1, <3>2
  <2>7. Passed(c, j)' => Passed(c, j) \/ (c = b /\ j = next)
    <3>1. SUFFICES ASSUME NEW k \in 1 .. m, node[freeing[k].at].items = c, j <= freeing'[k].done
                   PROVE  Passed(c, j) \/ (c = b /\ j = next)
      BY <2>6
    <3>2. CASE k # m
      BY <3>1, <3>2, <1>2, <1>5 DEF Passed
    <3>3. CASE k = m
      <4>1. c = b /\ j <= next
        BY <3>1, <3>3, <1>2, <1>5
      <4>2. j = next \/ j <= freeing[m].done
        BY <4>1, <2>1, <1>2
      <4> QED BY <3>1, <3>3, <4>1, <4>2, <1>2 DEF Passed
    <3> QED BY <3>2, <3>3
  <2>8. Passed(c, j) => Passed(c, j)'
    BY <2>1, <2>6, <1>2, <1>5 DEF Passed
  <2>9. c = b /\ j = next => Passed(c, j)'
    <3>1. m \in 1 .. m /\ node[freeing[m].at].items = b /\ freeing'[m].done = next
      BY <1>2, <1>5
    <3> QED BY <3>1, <2>1, <2>6
  <2> QED BY <2>3, <2>7, <2>8, <2>9
<1>7. /\ ValAt(b, next) = v /\ KeyAt(b, next) = kv.skey
      /\ ValAt(b, next)' = NULL /\ KeyAt(b, next)' = NULL
      /\ \A c \in DOMAIN array : \A j \in DOMAIN array[c] : c # b \/ j # next =>
           ValAt(c, j)' = ValAt(c, j) /\ KeyAt(c, j)' = KeyAt(c, j)
  BY <1>1, <1>4, <1>6 DEF ValAt, KeyAt
<1>8. /\ Freed' = Freed \cup {v} /\ v \notin Freed /\ v \notin roots /\ v \in DOMAIN node
      /\ \A c : TextAt(c)' = IF c = v THEN NULL ELSE TextAt(c)
      /\ TextAt(v) = node[v].text
  <2>1. v \notin Freed /\ v \notin roots /\ v \in DOMAIN node
    BY SMTT(60), <1>4, <1>7 DEF IInv, OneOwner, NodesOwned
  <2>2. Freed' = Freed \cup {v}
    <3>1. \A x : x \in Freed' <=> \E k \in 1 .. m + 1 : x = freeing'[k].at
      BY <1>5 DEF Freed
    <3>2. \A x : x \in Freed <=> \E k \in 1 .. m : x = freeing[k].at
      BY <1>2 DEF Freed
    <3>3. \A x : x \in Freed' <=> x \in Freed \/ x = v
      BY SMTT(30), <3>1, <3>2, <1>2, <1>5
    <3> QED BY <3>3
  <2>3. \A c : (\E k \in DOMAIN freeing' : freeing'[k].at = c) <=>
               (\E k \in DOMAIN freeing : freeing[k].at = c) \/ c = v
    BY <2>2 DEF Freed
  <2> QED BY <2>1, <2>2, <2>3, <1>1 DEF TextAt, Freed
<1>9. TypeOK'
  <2>1. bytes' = Drop(bytes, {kv.skey, node[v].text})
    BY SMTT(30) DEF free_element
  <2>2. DOMAIN bytes' \subseteq Bytes /\ bytes' \in [DOMAIN bytes' -> Strings]
    BY <2>1 DEF IInv, TypeOK, Drop
  <2> QED BY <2>2, <1>1 DEF IInv, TypeOK, Slots
<1>10. NodesOwned'
  <2>1. DOMAIN node' = roots' \cup Freed' \cup Copies'
          \cup {x \in Nodes : \E c \in DOMAIN array' : \E j \in DOMAIN array'[c] : ValAt(c, j)' = x}
    <3>1. ASSUME NEW x \in DOMAIN node
          PROVE  \/ x \in roots \/ x \in Freed'
                 \/ \E c \in DOMAIN array : \E j \in DOMAIN array[c] : ValAt(c, j)' = x
      <4>1. CASE x \in roots \cup Freed \cup {v}
        BY <4>1, <1>8
      <4>2. CASE x # v /\ \E c \in DOMAIN array : \E j \in DOMAIN array[c] : ValAt(c, j) = x
        BY <4>2, <1>4, <1>7
      <4> QED BY <4>1, <4>2, <1>3 DEF IInv, OneOwner, NodesOwned
    <3>2. ASSUME NEW c \in DOMAIN array, NEW j \in DOMAIN array[c], ValAt(c, j)' \in Nodes
          PROVE  ValAt(c, j)' \in DOMAIN node
      BY <3>2, <1>4, <1>7, HeapAssumption DEF IInv, OneOwner, NodesOwned
    <3>3. DOMAIN node \subseteq Nodes /\ roots \subseteq DOMAIN node /\ Freed' \subseteq DOMAIN node
      BY SMTT(30), <1>8 DEF IInv, OneOwner, NodesOwned, TypeOK
    <3>4. DOMAIN node \subseteq roots \cup Freed' \cup
            {x \in Nodes : \E c \in DOMAIN array : \E j \in DOMAIN array[c] : ValAt(c, j)' = x}
      BY <3>1, <3>3
    <3>5. {x \in Nodes : \E c \in DOMAIN array : \E j \in DOMAIN array[c] : ValAt(c, j)' = x}
            \subseteq DOMAIN node
      BY <3>2
    <3> QED BY <3>3, <3>4, <3>5, <1>1, <1>3
  <2>2. \A k, l \in DOMAIN freeing' : freeing'[k].at = freeing'[l].at => k = l
    BY SMTT(90), <1>2, <1>5, <1>8 DEF IInv, OneOwner, NodesOwned, Freed, Call
  <2>3. ASSUME NEW c \in DOMAIN array', NEW i \in DOMAIN array'[c], ValAt(c, i)' # NULL
        PROVE  /\ ValAt(c, i)' \notin roots' \cup Freed' \cup Copies'
               /\ \A d \in DOMAIN array' : \A j \in DOMAIN array'[d] :
                    ValAt(c, i)' = ValAt(d, j)' => c = d /\ i = j
    <3>1. ValAt(c, i)' = ValAt(c, i) /\ ~(c = b /\ i = next)
      BY <2>3, <1>1, <1>7
    <3>2. ValAt(c, i)' \notin roots \cup Freed /\ ValAt(c, i)' # v
      BY <2>3, <3>1, <1>1, <1>4, <1>7 DEF IInv, OneOwner, NodesOwned
    <3>3. ASSUME NEW d \in DOMAIN array', NEW j \in DOMAIN array'[d], ValAt(c, i)' = ValAt(d, j)'
          PROVE  c = d /\ i = j
      BY <2>3, <3>1, <3>3, <1>1, <1>7 DEF IInv, OneOwner, NodesOwned
    <3> QED BY <3>2, <3>3, <1>1, <1>3, <1>8
  <2> QED BY <2>1, <2>2, <2>3, <1>1, <1>3, <1>8 DEF IInv, OneOwner, NodesOwned
<1>11. ArraysOwned'
  BY <1>1, <1>3 DEF IInv, OneOwner, ArraysOwned
<1>12. BytesOwned'
  <2>2. ASSUME NEW p \in DOMAIN bytes'
        PROVE  \/ \E c \in DOMAIN node' : TextAt(c)' = p
               \/ \E c \in DOMAIN array' : \E i \in DOMAIN array'[c] : KeyAt(c, i)' = p
    <3>1. CASE \E c \in DOMAIN node : TextAt(c) = p
      BY SMTT(30), <3>1, <1>1, <1>b, <1>8
    <3>2. CASE \E c \in DOMAIN array : \E i \in DOMAIN array[c] : KeyAt(c, i) = p
      <4>1. PICK c \in DOMAIN array : \E i \in DOMAIN array[c] : KeyAt(c, i) = p
        BY <3>2
      <4>2. PICK i \in DOMAIN array[c] : KeyAt(c, i) = p
        BY <4>1
      <4>3. p # kv.skey
        BY <1>b
      <4>4. ~(c = b /\ i = next)
        BY <4>2, <4>3, <1>7
      <4> QED BY <4>2, <4>4, <1>1, <1>7
    <3> QED BY <3>1, <3>2, <1>b DEF IInv, OneOwner, BytesOwned
  <2>3. ASSUME NEW c \in DOMAIN node', TextAt(c)' \in Bytes
        PROVE  TextAt(c)' \in DOMAIN bytes'
    <3>1. c \in DOMAIN node /\ c # v /\ TextAt(c)' = TextAt(c)
      BY <2>3, <1>1, <1>8, HeapAssumption
    <3>2. TextAt(c) \in DOMAIN bytes /\ TextAt(c) # NULL
      BY <2>3, <3>1, HeapAssumption DEF IInv, OneOwner, BytesOwned
    <3>3. TextAt(c) # node[v].text
      BY <3>1, <3>2, <1>8 DEF IInv, OneOwner, BytesOwned
    <3>4. TextAt(c) # kv.skey
      BY <3>1, <3>2, <1>4, <1>7 DEF IInv, OneOwner, BytesOwned
    <3> QED BY <3>1, <3>2, <3>3, <3>4, <1>b
  <2>4. ASSUME NEW c \in DOMAIN array', NEW i \in DOMAIN array'[c], KeyAt(c, i)' \in Bytes
        PROVE  KeyAt(c, i)' \in DOMAIN bytes'
    <3>1. /\ c \in DOMAIN array /\ i \in DOMAIN array[c] /\ ~(c = b /\ i = next)
          /\ KeyAt(c, i)' = KeyAt(c, i)
      BY <2>4, <1>1, <1>7, HeapAssumption
    <3>2. KeyAt(c, i) \in DOMAIN bytes /\ KeyAt(c, i) # NULL
      BY <2>4, <3>1, HeapAssumption DEF IInv, OneOwner, BytesOwned
    <3>3. KeyAt(c, i) # node[v].text
      BY <3>1, <3>2, <1>8 DEF IInv, OneOwner, BytesOwned
    <3>4. KeyAt(c, i) # kv.skey
      BY <3>1, <3>2, <1>4, <1>7 DEF IInv, OneOwner, BytesOwned
    <3> QED BY <3>1, <3>2, <3>3, <3>4, <1>b
  <2>5. DOMAIN bytes' = {p \in Bytes :
          \/ \E c \in DOMAIN node' : TextAt(c)' = p
          \/ \E c \in DOMAIN array' : \E i \in DOMAIN array'[c] : KeyAt(c, i)' = p}
    BY ZenonT(60), <2>2, <2>3, <2>4, <1>9 DEF TypeOK
  <2>6. \A c, d \in DOMAIN node' : TextAt(c)' = TextAt(d)' /\ TextAt(c)' # NULL => c = d
    BY <1>1, <1>8 DEF IInv, OneOwner, BytesOwned
  <2>7. ASSUME NEW c \in DOMAIN array', NEW i \in DOMAIN array'[c], KeyAt(c, i)' # NULL
        PROVE  /\ \A d \in DOMAIN node' : TextAt(d)' # KeyAt(c, i)'
               /\ \A d \in DOMAIN array' : \A j \in DOMAIN array'[d] :
                    KeyAt(c, i)' = KeyAt(d, j)' => c = d /\ i = j
    <3>1. KeyAt(c, i)' = KeyAt(c, i) /\ ~(c = b /\ i = next)
      BY <2>7, <1>1, <1>7
    <3>2. ASSUME NEW d \in DOMAIN array', NEW j \in DOMAIN array'[d], KeyAt(c, i)' = KeyAt(d, j)'
          PROVE  c = d /\ i = j
      BY <2>7, <3>1, <3>2, <1>1, <1>7 DEF IInv, OneOwner, BytesOwned
    <3>3. \A d \in DOMAIN node' : TextAt(d)' # KeyAt(c, i)'
      BY <2>7, <3>1, <1>1, <1>8 DEF IInv, OneOwner, BytesOwned
    <3> QED BY <3>2, <3>3
  <2> QED BY SMTT(30), <2>5, <2>6, <2>7 DEF BytesOwned
<1>13. FramesOK'
  <2>1. \A k \in DOMAIN freeing' : freeing'[k].done <= node'[freeing'[k].at].n
    <3>1. \A k \in 1 .. m : freeing[k].done <= node[freeing[k].at].n
      BY <1>2 DEF IInv, FramesOK
    <3>2. 0 <= node[v].n
      BY <1>8 DEF IInv, TypeOK, NodeType
    <3>3. \A k \in 1 .. m : freeing'[k].done <= node[freeing'[k].at].n
      BY <3>1, <1>n, <1>2, <1>5
    <3>4. freeing'[m + 1].done <= node[freeing'[m + 1].at].n
      BY <3>2, <1>5
    <3>5. \A k \in 1 .. m + 1 : k \in 1 .. m \/ k = m + 1
      BY <1>2
    <3> QED BY <3>3, <3>4, <3>5, <1>1, <1>5
  <2> QED BY <2>1, <1>1, <1>3, <1>5 DEF IInv, FramesOK
<1>14. Originals'
  BY <1>1, <1>3, EmptySeq DEF Originals, IInv, Slots
<1>15. \A c \in DOMAIN node : IsElement(v, c) <=> c = a
  <2>1. Holds(a, b)
    BY SMTT(30), <1>3
  <2>2. IsElement(v, a)
    BY <2>1, <1>4, <1>7 DEF IsElement
  <2>3. ASSUME NEW c \in DOMAIN node, IsElement(v, c) PROVE c = a
    <3>1. PICK d \in DOMAIN array : Holds(c, d) /\ \E i \in DOMAIN array[d] : ValAt(d, i) = v
      BY <2>3 DEF IsElement
    <3>2. PICK i \in DOMAIN array[d] : ValAt(d, i) = v
      BY <3>1
    <3>3. d = b
      BY <3>2, <1>4, <1>7 DEF IInv, OneOwner, NodesOwned
    <3> QED BY <2>1, <3>1, <3>3, <1>2, <1>4 DEF IInv, OneOwner, ArraysOwned
  <2> QED BY <2>2, <2>3
<1>16. a \in Freed
  <2>1. m \in DOMAIN freeing /\ freeing[m].at = a
    BY <1>2
  <2> QED BY <2>1 DEF Freed
<1>17. Detached
  <2>1. Tops' = Tops \cup {v}
    BY <1>1, <1>3, <1>8 DEF Tops
  <2>2. ASSUME NEW c \in DOMAIN node, NEW y \in DOMAIN node
        PROVE  IsElement(y, c)' <=> IsElement(y, c) /\ ~(c = a /\ y = v)
    <3>0. y # NULL
      BY HeapAssumption DEF IInv, TypeOK
    <3>1. ASSUME IsElement(y, c)' PROVE IsElement(y, c) /\ ~(c = a /\ y = v)
      <4>1. PICK d \in DOMAIN array : Holds(c, d)' /\ \E i \in DOMAIN array[d] : ValAt(d, i)' = y
        BY <3>1, <1>1 DEF IsElement
      <4>2. PICK i \in DOMAIN array[d] : ValAt(d, i)' = y
        BY <4>1
      <4>3. ~(d = b /\ i = next) /\ ValAt(d, i) = y
        BY <3>0, <4>2, <1>7
      <4>4. y # v
        <5>1. ASSUME y = v PROVE FALSE
          BY SMTT(60), <4>3, <5>1, <1>4, <1>7 DEF IInv, OneOwner, NodesOwned
        <5> QED BY SMTT(30), <5>1
      <4> QED BY <4>1, <4>3, <4>4, <1>3 DEF IsElement
    <3>2. ASSUME IsElement(y, c), ~(c = a /\ y = v) PROVE IsElement(y, c)'
      <4>1. PICK d \in DOMAIN array : Holds(c, d) /\ \E i \in DOMAIN array[d] : ValAt(d, i) = y
        BY <3>2 DEF IsElement
      <4>2. PICK i \in DOMAIN array[d] : ValAt(d, i) = y
        BY <4>1
      <4>3. y # v
        BY <3>2, <1>15
      <4>4. ValAt(d, i)' = y
        BY <4>2, <4>3, <1>7
      <4> QED BY <4>1, <4>4, <1>1, <1>3 DEF IsElement
    <3> QED BY <3>1, <3>2
  <2> QED BY <2>1, <2>2, <1>1, <1>8, <1>16 DEF Detached
<1>18. Kept
  <2>1. ASSUME NEW c \in DOMAIN node \ Freed' PROVE c \in DOMAIN node' /\ Shows(c)' = Shows(c)
    <3>0. PICK d : d = node[c].items
      OBVIOUS
    <3>1. OneOwner' /\ node'[c] = node[c] /\ c \in DOMAIN node'
      BY SMTT(30), <1>1, <1>10, <1>11, <1>12 DEF OneOwner
    <3>2. \A q \in DOMAIN bytes' : bytes'[q] = bytes[q]
      BY DEF free_element, Drop
    <3>3. \A i \in 1 .. node[c].n : array'[d][i] = array[d][i]
      BY <1>1
    <3> QED BY <3>0, <3>1, <3>2, <3>3, <1>9, ShowsKeptFreeing
  <2>2. Sealed(Freed) /\ Freed \subseteq DOMAIN node
    BY TopsAreSealed DEF Tops
  <2>3. Sealed(Freed') /\ Freed' \subseteq DOMAIN node
    BY <2>2, <1>8, <1>15, <1>16 DEF Sealed
  <2>4. Freed' \cap roots = {}
    BY <1>8 DEF IInv, OneOwner, NodesOwned
  <2>5. LeavesAlone(Freed')
    BY <2>1, <2>3 DEF LeavesAlone
  <2> QED BY <2>4, <2>5 DEF Kept
<1> QED BY <1>9, <1>10, <1>11, <1>12, <1>13, <1>14, <1>17, <1>18 DEF IInv, OneOwner

\* The end of value_free: the node and its array go, which nothing leads to.
LEMMA FreeNodeStep ==
  ASSUME IInv, free_node
  PROVE  IInv' /\ TopGone /\ Kept
<1> PICK m, a, b : m = Len(freeing) /\ a = Top(freeing).at /\ b = node[a].items
  OBVIOUS
<1>s. freeing \in Seq(FreeFrame) /\ freeing # <<>>
  BY DEF IInv, FramesOK, free_node
<1>1. /\ bytes' = bytes /\ roots' = roots /\ cloning' = cloning /\ copyOf' = copyOf
      /\ freeing' = Below(freeing) /\ node' = Drop(node, {a}) /\ array' = Drop(array, {b})
  BY DEF free_node
<1>h. /\ DOMAIN node' = DOMAIN node \ {a} /\ \A c \in DOMAIN node' : node'[c] = node[c]
      /\ DOMAIN array' = DOMAIN array \ {b} /\ \A c \in DOMAIN array' : array'[c] = array[c]
  BY <1>1 DEF Drop
<1>2. /\ m \in Nat \ {0} /\ DOMAIN freeing = 1 .. m /\ m \in 1 .. m
      /\ freeing[m].at = a /\ freeing[m].done = node[a].n
      /\ freeing' \in Seq(FreeFrame) /\ DOMAIN freeing' = 1 .. m - 1
      /\ \A k \in 1 .. m - 1 : freeing'[k] = freeing[k] /\ k \in 1 .. m /\ k # m
  BY <1>s, <1>1, Popped DEF Top, free_node
<1>3. /\ cloning = <<>> /\ copyOf = <<>> /\ Copies = {} /\ Copies' = {}
      /\ DOMAIN cloning = {} /\ DOMAIN cloning' = {}
      /\ \A c, d : /\ Holds(c, d) <=> node[c].items = d
                   /\ Holds(c, d)' <=> node'[c].items = d
  BY <1>1, <1>s, NothingCopied, NothingCopiedNext DEF IInv, FramesOK, Originals
<1>4. /\ \A k \in 1 .. m : freeing[k].at \in DOMAIN node
      /\ \A k, l \in 1 .. m : freeing[k].at = freeing[l].at => k = l
      /\ a \in DOMAIN node
  BY <1>2 DEF IInv, OneOwner, NodesOwned, Freed
<1>5. \A k \in 1 .. m - 1 : freeing[k].at # a
  BY <1>2, <1>4
<1>6. Freed = Freed' \cup {a} /\ a \notin Freed'
  <2>1. \A x : x \in Freed <=> \E k \in 1 .. m : x = freeing[k].at
    BY <1>2 DEF Freed
  <2>2. \A x : x \in Freed' <=> \E k \in 1 .. m - 1 : x = freeing[k].at
    BY <1>2 DEF Freed
  <2>3. \A k \in 1 .. m : k = m \/ k \in 1 .. m - 1
    BY <1>2
  <2>4. \A x : x \in Freed <=> x \in Freed' \/ x = a
    BY SMTT(30), <2>1, <2>2, <2>3, <1>2
  <2> QED BY <2>2, <2>4, <1>5
<1>7. b = NULL \/ \A i \in DOMAIN array[b] : ValAt(b, i) = NULL /\ KeyAt(b, i) = NULL
  <2>1. SUFFICES ASSUME b # NULL, NEW i \in DOMAIN array[b]
                 PROVE  ValAt(b, i) = NULL /\ KeyAt(b, i) = NULL
    OBVIOUS
  <2>2. IF i <= node[a].n THEN array[b][i].val # NULL ELSE array[b][i] = Zero
    BY <2>1, <1>4 DEF IInv, TypeOK, Slots
  <2>3. i <= node[a].n => Passed(b, i)
    BY <1>2 DEF Passed
  <2> QED BY <2>2, <2>3, ZeroType DEF ValAt, KeyAt
<1>8. ASSUME NEW c \in DOMAIN array', NEW i \in DOMAIN array'[c]
      PROVE  ValAt(c, i)' = ValAt(c, i) /\ KeyAt(c, i)' = KeyAt(c, i)
  <2>1. Passed(c, i)' <=> \E k \in 1 .. m - 1 : node[freeing[k].at].items = c /\ i <= freeing[k].done
    <3>1. Passed(c, i)' <=> \E k \in 1 .. m - 1 : node'[freeing'[k].at].items = c /\ i <= freeing'[k].done
      BY <1>2 DEF Passed
    <3>2. \A k \in 1 .. m - 1 : freeing'[k] = freeing[k] /\ node'[freeing[k].at] = node[freeing[k].at]
      BY <1>h, <1>2, <1>4, <1>5
    <3> QED BY <3>1, <3>2
  <2>2. Passed(c, i) <=> \E k \in 1 .. m : node[freeing[k].at].items = c /\ i <= freeing[k].done
    BY <1>2 DEF Passed
  <2>3. node[freeing[m].at].items # c
    BY <1>h, <1>2
  <2>4. \A k \in 1 .. m : k = m \/ k \in 1 .. m - 1
    BY <1>2
  <2>5. Passed(c, i)' <=> Passed(c, i)
    BY <2>1, <2>2, <2>3, <2>4, <1>2
  <2> QED BY <2>5, <1>h DEF ValAt, KeyAt
<1>9. \A c \in DOMAIN node' : TextAt(c)' = TextAt(c)
  <2>1. \A c \in DOMAIN node' : c \in Freed' <=> c \in Freed
    BY <1>6, <1>h
  <2> QED BY <2>1, <1>h DEF TextAt, Freed
<1>10. \A c \in DOMAIN node : c # a => node[c].items # b \/ b = NULL
  BY <1>3, <1>4 DEF IInv, OneOwner, ArraysOwned, TypeOK
<1>11. TypeOK'
  <2>1. ASSUME NEW c \in DOMAIN node'
        PROVE  Slots(c)' = Slots(c) /\ (node'[c].items # NULL => node'[c].items \in DOMAIN array')
    BY <1>h, <1>10 DEF IInv, TypeOK, Slots
  <2>2. roots \subseteq DOMAIN node'
    BY <1>h, <1>6 DEF IInv, OneOwner, NodesOwned
  <2>3. node' \in [DOMAIN node' -> NodeType] /\ array' \in [DOMAIN array' -> Seq(SlotType)]
    BY <1>1 DEF Drop, IInv, TypeOK
  <2>4. DOMAIN node' \subseteq Nodes /\ DOMAIN array' \subseteq Arrays
    BY <1>h DEF IInv, TypeOK
  <2>5. DOMAIN bytes' \subseteq Bytes /\ bytes' \in [DOMAIN bytes' -> Strings]
    BY <1>1 DEF IInv, TypeOK
  <2>6. ASSUME NEW c \in DOMAIN node'
        PROVE  /\ node'[c].n <= Len(Slots(c)')
               /\ \A i \in DOMAIN Slots(c)' : IF i <= node'[c].n
                    THEN Slots(c)'[i].val # NULL ELSE Slots(c)'[i] = Zero
    <3>1. c \in DOMAIN node /\ node'[c] = node[c] /\ Slots(c)' = Slots(c)
      BY <2>1, <1>h
    <3> QED BY <3>1 DEF IInv, TypeOK
  <2> QED BY <2>1, <2>2, <2>3, <2>4, <2>5, <2>6, <1>1 DEF TypeOK
<1>12. NodesOwned'
  <2>1. ASSUME NEW x \in DOMAIN node'
        PROVE  \/ x \in roots \cup Freed'
               \/ \E c \in DOMAIN array' : \E i \in DOMAIN array'[c] : ValAt(c, i)' = x
    <3>1. CASE x \in roots \cup Freed'
      BY <3>1
    <3>2. CASE \E c \in DOMAIN array : \E i \in DOMAIN array[c] : ValAt(c, i) = x
      <4>0. PICK c \in DOMAIN array : \E i \in DOMAIN array[c] : ValAt(c, i) = x
        BY <3>2
      <4>1. PICK i \in DOMAIN array[c] : ValAt(c, i) = x
        BY <4>0
      <4>2. x # NULL
        BY <1>h, HeapAssumption DEF IInv, TypeOK
      <4>3. c # NULL
        BY HeapAssumption DEF IInv, TypeOK
      <4>4. c # b
        BY <4>1, <4>2, <4>3, <1>7
      <4> QED BY <4>1, <4>4, <1>h, <1>8
    <3> QED BY <3>1, <3>2, <1>h, <1>3, <1>6 DEF IInv, OneOwner, NodesOwned
  <2>2. ASSUME NEW c \in DOMAIN array', NEW i \in DOMAIN array'[c], ValAt(c, i)' # NULL
        PROVE  /\ ValAt(c, i)' \notin roots' \cup Freed' \cup Copies'
               /\ ValAt(c, i)' \in Nodes => ValAt(c, i)' \in DOMAIN node'
               /\ \A d \in DOMAIN array' : \A j \in DOMAIN array'[d] :
                    ValAt(c, i)' = ValAt(d, j)' => c = d /\ i = j
    <3>1. /\ c \in DOMAIN array /\ i \in DOMAIN array[c]
          /\ ValAt(c, i)' = ValAt(c, i) /\ ValAt(c, i) # NULL
      BY <2>2, <1>h, <1>8
    <3>2. /\ ValAt(c, i) \notin roots \cup Freed
          /\ ValAt(c, i) \in Nodes => ValAt(c, i) \in DOMAIN node
      BY <3>1 DEF IInv, OneOwner, NodesOwned
    <3>3. ASSUME NEW d \in DOMAIN array', NEW j \in DOMAIN array'[d], ValAt(c, i)' = ValAt(d, j)'
          PROVE  c = d /\ i = j
      <4>1. /\ d \in DOMAIN array /\ j \in DOMAIN array[d] /\ ValAt(d, j)' = ValAt(d, j)
        BY <1>h, <1>8
      <4> QED BY ZenonT(60), <3>1, <3>3, <4>1 DEF IInv, OneOwner, NodesOwned
    <3> QED BY ZenonT(60), <3>1, <3>2, <3>3, <1>1, <1>h, <1>3, <1>6
  <2>3. roots \cup Freed' \subseteq DOMAIN node' /\ DOMAIN node' \subseteq Nodes
    BY <1>h, <1>6 DEF IInv, OneOwner, NodesOwned, TypeOK
  <2>4. {x \in Nodes : \E c \in DOMAIN array' : \E i \in DOMAIN array'[c] : ValAt(c, i)' = x}
          \subseteq DOMAIN node'
    BY <2>2, HeapAssumption
  <2>5. DOMAIN node' \subseteq roots \cup Freed' \cup
         {x \in Nodes : \E c \in DOMAIN array' : \E i \in DOMAIN array'[c] : ValAt(c, i)' = x}
    BY <2>1, <2>3
  <2>6. \A k, l \in DOMAIN freeing' : freeing'[k].at = freeing'[l].at => k = l
    BY <1>2, <1>4
  <2>7. roots \cap Freed' = {}
    BY <1>6 DEF IInv, OneOwner, NodesOwned
  <2>8. DOMAIN node' = roots \cup Freed' \cup
         {x \in Nodes : \E c \in DOMAIN array' : \E i \in DOMAIN array'[c] : ValAt(c, i)' = x}
    BY <2>3, <2>4, <2>5
  <2>9. roots' = roots
    BY <1>1
  <2>10. ASSUME NEW c \in DOMAIN array', NEW i \in DOMAIN array'[c], ValAt(c, i)' # NULL
         PROVE  /\ ValAt(c, i)' \notin roots' \cup Freed' \cup Copies'
                /\ \A d \in DOMAIN array' : \A j \in DOMAIN array'[d] :
                     ValAt(c, i)' = ValAt(d, j)' => c = d /\ i = j
    BY <2>2, <2>10
  <2> QED BY <2>6, <2>7, <2>8, <2>9, <2>10, <1>3 DEF NodesOwned
<1>13. ArraysOwned'
  <2>1. ASSUME NEW c \in DOMAIN array' PROVE \E d \in DOMAIN node' : Holds(d, c)'
    <3>1. PICK d \in DOMAIN node : node[d].items = c
      BY <1>h, <1>3 DEF IInv, OneOwner, ArraysOwned
    <3>2. d # a
      BY <3>1, <1>h
    <3> QED BY <3>1, <3>2, <1>h, <1>3
  <2>2. ASSUME NEW c \in DOMAIN node', NEW d \in DOMAIN node', NEW e \in DOMAIN array',
               Holds(c, e)', Holds(d, e)'
        PROVE  c = d
    BY <2>2, <1>h, <1>3 DEF IInv, OneOwner, ArraysOwned
  <2> QED BY <2>1, <2>2, <1>3 DEF ArraysOwned
<1>14. BytesOwned'
  <2>1. ASSUME NEW p \in DOMAIN bytes'
        PROVE  \/ \E c \in DOMAIN node' : TextAt(c)' = p
               \/ \E c \in DOMAIN array' : \E i \in DOMAIN array'[c] : KeyAt(c, i)' = p
    <3>1. p # NULL /\ p \in DOMAIN bytes
      BY <1>1, HeapAssumption DEF IInv, TypeOK
    <3>2. CASE \E c \in DOMAIN node : TextAt(c) = p
      <4>1. PICK c \in DOMAIN node : TextAt(c) = p
        BY <3>2
      <4>2. c # a
        BY <4>1, <3>1, <1>2 DEF TextAt
      <4> QED BY <4>1, <4>2, <1>h, <1>9
    <3>3. CASE \E c \in DOMAIN array : \E i \in DOMAIN array[c] : KeyAt(c, i) = p
      <4>0. PICK c \in DOMAIN array : \E i \in DOMAIN array[c] : KeyAt(c, i) = p
        BY <3>3
      <4>1. PICK i \in DOMAIN array[c] : KeyAt(c, i) = p
        BY <4>0
      <4>2. c # b
        BY <4>1, <3>1, <1>7, HeapAssumption DEF IInv, TypeOK
      <4> QED BY <4>1, <4>2, <1>h, <1>8
    <3> QED BY <3>1, <3>2, <3>3 DEF IInv, OneOwner, BytesOwned
  <2>2. ASSUME NEW c \in DOMAIN node', TextAt(c)' \in Bytes PROVE TextAt(c)' \in DOMAIN bytes'
    BY <2>2, <1>1, <1>h, <1>9 DEF IInv, OneOwner, BytesOwned
  <2>3. ASSUME NEW c \in DOMAIN array', NEW i \in DOMAIN array'[c], KeyAt(c, i)' \in Bytes
        PROVE  KeyAt(c, i)' \in DOMAIN bytes'
    <3>1. /\ c \in DOMAIN array /\ i \in DOMAIN array[c] /\ KeyAt(c, i)' = KeyAt(c, i)
      BY <2>3, <1>h, <1>8
    <3> QED BY <2>3, <3>1, <1>1 DEF IInv, OneOwner, BytesOwned
  <2>4. DOMAIN bytes' = {p \in Bytes :
          \/ \E c \in DOMAIN node' : TextAt(c)' = p
          \/ \E c \in DOMAIN array' : \E i \in DOMAIN array'[c] : KeyAt(c, i)' = p}
    BY ZenonT(60), <2>1, <2>2, <2>3, <1>11 DEF TypeOK
  <2>5. ASSUME NEW c \in DOMAIN node', NEW d \in DOMAIN node',
               TextAt(c)' = TextAt(d)', TextAt(c)' # NULL
        PROVE  c = d
    BY <2>5, <1>h, <1>9 DEF IInv, OneOwner, BytesOwned
  <2>6. ASSUME NEW c \in DOMAIN array', NEW i \in DOMAIN array'[c], KeyAt(c, i)' # NULL
        PROVE  /\ \A d \in DOMAIN node' : TextAt(d)' # KeyAt(c, i)'
               /\ \A d \in DOMAIN array' : \A j \in DOMAIN array'[d] :
                    KeyAt(c, i)' = KeyAt(d, j)' => c = d /\ i = j
    BY <2>6, <1>h, <1>8, <1>9 DEF IInv, OneOwner, BytesOwned
  <2> QED BY <2>4, <2>5, <2>6 DEF BytesOwned
<1>15. FramesOK'
  <2>1. ASSUME NEW k \in DOMAIN freeing'
        PROVE  freeing'[k].done <= node'[freeing'[k].at].n
    <3>1. k \in 1 .. m - 1 /\ freeing'[k] = freeing[k] /\ k \in DOMAIN freeing
      BY <1>2
    <3>2. node'[freeing[k].at] = node[freeing[k].at]
      BY <3>1, <1>h, <1>2, <1>4, <1>5
    <3> QED BY <3>1, <3>2 DEF IInv, FramesOK
  <2> QED BY <2>1, <1>1, <1>2, <1>3 DEF IInv, FramesOK
<1>16. Originals'
  BY <1>1, <1>3, EmptySeq DEF Originals, IInv
<1>17. a \in Freed
  BY <1>6
<1>18. TopGone
  <2>1. Tops' = Tops \ {a}
    BY <1>1, <1>3, <1>6, <1>17 DEF Tops, IInv, OneOwner, NodesOwned
  <2>2. ASSUME NEW x \in DOMAIN node, IsElement(x, a) PROVE FALSE
    <3>1. PICK c \in DOMAIN array : Holds(a, c) /\ \E i \in DOMAIN array[c] : ValAt(c, i) = x
      BY <2>2 DEF IsElement
    <3>2. c = b /\ b # NULL /\ x # NULL
      BY <3>1, <1>3, HeapAssumption DEF IInv, TypeOK
    <3> QED BY <3>1, <3>2, <1>7
  <2>3. ASSUME NEW c \in DOMAIN node', NEW x \in DOMAIN node'
        PROVE  IsElement(x, c)' <=> IsElement(x, c)
    <3>1. ASSUME IsElement(x, c)' PROVE IsElement(x, c)
      <4>1. PICK d \in DOMAIN array' : Holds(c, d)' /\ \E i \in DOMAIN array'[d] : ValAt(d, i)' = x
        BY <3>1 DEF IsElement
      <4>2. PICK i \in DOMAIN array'[d] : ValAt(d, i)' = x
        BY <4>1
      <4>3. d \in DOMAIN array /\ i \in DOMAIN array[d] /\ ValAt(d, i) = x
        BY <4>2, <1>h, <1>8
      <4>4. Holds(c, d)
        BY <4>1, <1>h, <1>3
      <4> QED BY <4>3, <4>4 DEF IsElement
    <3>2. ASSUME IsElement(x, c) PROVE IsElement(x, c)'
      <4>1. PICK d \in DOMAIN array : Holds(c, d) /\ \E i \in DOMAIN array[d] : ValAt(d, i) = x
        BY <3>2 DEF IsElement
      <4>2. PICK i \in DOMAIN array[d] : ValAt(d, i) = x
        BY <4>1
      <4>3. d # NULL /\ c \in DOMAIN node /\ c # a
        BY <1>h, HeapAssumption DEF IInv, TypeOK
      <4>4. d # b
        BY <4>1, <4>3, <1>3, <1>10
      <4>5. d \in DOMAIN array' /\ i \in DOMAIN array'[d] /\ ValAt(d, i)' = x
        BY <4>2, <4>4, <1>h, <1>8
      <4>6. Holds(c, d)'
        BY <4>1, <1>h, <1>3
      <4> QED BY <4>5, <4>6 DEF IsElement
    <3> QED BY <3>1, <3>2
  <2> QED BY <2>1, <2>2, <2>3, <1>h, <1>17 DEF TopGone
<1>19. Kept
  <2>1. ASSUME NEW c \in DOMAIN node \ Freed PROVE c \in DOMAIN node' /\ Shows(c)' = Shows(c)
    <3>0. PICK d : d = node[c].items
      OBVIOUS
    <3>1. OneOwner'
      BY <1>12, <1>13, <1>14 DEF OneOwner
    <3>2. node'[c] = node[c] /\ c \in DOMAIN node' /\ c \notin Freed' /\ c # a
      BY <1>h, <1>6, <1>17
    <3>3. \A q \in DOMAIN bytes' : bytes'[q] = bytes[q]
      BY <1>1
    <3>4. ASSUME NEW i \in 1 .. node[c].n PROVE array'[d][i] = array[d][i]
      <4>1. d \in DOMAIN array /\ d # NULL
        BY <3>0, <3>4, ElementIsThere, HeapAssumption DEF IInv, TypeOK
      <4>2. d # b
        BY <3>0, <3>2, <4>1, <1>10
      <4> QED BY <4>1, <4>2, <1>h
    <3> QED BY <3>0, <3>1, <3>2, <3>3, <3>4, <1>11, ShowsKeptFreeing
  <2>2. Sealed(Freed) /\ Freed \subseteq DOMAIN node
    BY TopsAreSealed DEF Tops
  <2>3. Freed \cap roots = {}
    BY DEF IInv, OneOwner, NodesOwned
  <2>4. LeavesAlone(Freed)
    BY <2>1, <2>2 DEF LeavesAlone
  <2> QED BY <2>3, <2>4 DEF Kept
<1> QED BY <1>11, <1>12, <1>13, <1>14, <1>15, <1>16, <1>18, <1>19 DEF IInv, OneOwner

=============================================================================
