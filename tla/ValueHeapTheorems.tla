-------------------------- MODULE ValueHeapTheorems --------------------------
(***************************************************************************)
(* The steps of value_clone (clone.c): they keep the invariant, and what    *)
(* they have copied stays equal to its original.  Then what holds of every  *)
(* sequence of calls of value.h: one owner for every block, nothing lost,    *)
(* values that do not disturb each other, borrowed pointers that stay, and  *)
(* exact copies.                                                            *)
(***************************************************************************)
EXTENDS ValueHeapProofs, WellFoundedInduction

\* An element whose slot and key are as they were.
LEMMA ElementKept ==
  ASSUME NEW b, NEW i, array'[b][i] = array[b][i], NEW q, q = array[b][i].skey,
         q # NULL => bytes'[q] = bytes[q]
  PROVE  Element(b, i)' = Element(b, i)
<1>1. Text(array[b][i].skey)' = Text(array[b][i].skey)
  BY DEF Text
<1> QED BY <1>1 DEF Element

\* What a call of value_clone has copied so far.
LEMMA BlockElement ==
  ASSUME IInv, NEW k \in DOMAIN cloning, NEW b, NEW s, NEW m, b = cloning[k].block,
         s = cloning[k].src, m = cloning[k].done, NEW i \in 1 .. m
  PROVE  /\ b \in DOMAIN array /\ i \in DOMAIN array[b] /\ m \in Nat
         /\ array[b][i].skey \in DOMAIN bytes \cup {NULL}
         /\ s \in DOMAIN node \ DOMAIN copyOf /\ i \in 1 .. node[s].n
<1>1. cloning[k] \in CloneFrame /\ freeing = <<>> /\ m \in Nat
  <2>1. cloning \in Seq(CloneFrame) /\ (freeing = <<>> \/ cloning = <<>>)
    BY DEF IInv, FramesOK
  <2>2. cloning # <<>>
    BY EmptySeq
  <2>3. k \in 1 .. Len(cloning)
    BY <2>1, LenProperties
  <2>4. cloning[k] \in CloneFrame
    BY <2>1, <2>3, ElementOfSeq
  <2> QED BY <2>1, <2>2, <2>4 DEF CloneFrame
<1>2. s \in DOMAIN node \ DOMAIN copyOf
  BY DEF IInv, Originals
<1>3. node[s].n \in Nat
  BY <1>2 DEF IInv, TypeOK, NodeType
<1>4. /\ m <= node[s].n /\ (b = NULL <=> node[s].n = 0)
      /\ b # NULL => b \in DOMAIN array /\ Len(array[b]) = node[s].n
  BY DEF IInv, FramesOK
<1>5. i \in 1 .. node[s].n /\ b # NULL
  BY <1>1, <1>3, <1>4
<1>6. array[b] \in Seq(SlotType)
  BY <1>4, <1>5 DEF IInv, TypeOK
<1>7. i \in DOMAIN array[b] /\ array[b][i] \in SlotType
  BY <1>4, <1>5, <1>6, SlotsOf
<1>8. array[b][i].skey \in DOMAIN bytes \cup {NULL}
  BY <1>1, <1>4, <1>5, <1>7, NothingFreed DEF IInv, OneOwner, BytesOwned, SlotType
<1> QED BY <1>1, <1>2, <1>4, <1>5, <1>7, <1>8

\* What a value shows, in parts.
LEMMA ShowsBoth ==
  ASSUME NEW a, Shows(a)' = Shows(a)
  PROVE  Label(a)' = Label(a) /\ Elements(a)' = Elements(a)
BY DEF Shows

\* Slots and strings that differ from the heap's by the key in slot nx of bl,
\* whose bytes are now at q0.
KeyCopied(slots, strings, q0, bl, nx) ==
  /\ DOMAIN slots = DOMAIN array /\ slots \in [DOMAIN slots -> Seq(SlotType)]
  /\ \A b \in DOMAIN array :
       /\ DOMAIN slots[b] = DOMAIN array[b] /\ Len(slots[b]) = Len(array[b])
       /\ \A i \in DOMAIN array[b] :
            /\ slots[b][i].val = array[b][i].val
            /\ slots[b][i].skey = IF b = bl /\ i = nx THEN q0 ELSE array[b][i].skey
  /\ q0 \in Bytes \cup {NULL}
  /\ q0 # NULL => bl \in DOMAIN array /\ nx \in DOMAIN array[bl] /\ q0 \notin DOMAIN bytes
  /\ bl \in DOMAIN array /\ nx \in DOMAIN array[bl] => array[bl][nx].skey = NULL
  /\ strings \in [DOMAIN strings -> Strings]
  /\ DOMAIN strings = DOMAIN bytes \cup ({q0} \ {NULL})
  /\ \A q \in DOMAIN bytes : strings[q] = bytes[q]
  /\ \A a \in DOMAIN node : node[a].items # NULL =>
       slots[node[a].items] = array[node[a].items]

\* Every call of the stack is inside one of its elements.
CallsInside(frames, slots) ==
  /\ frames \in Seq(CloneFrame) /\ Len(frames) = Len(cloning)
  /\ \A k \in DOMAIN cloning :
       /\ frames[k].src = cloning[k].src /\ frames[k].dst = cloning[k].dst
       /\ frames[k].block = cloning[k].block
       /\ frames[k].done \in 1 .. node[cloning[k].src].n
       /\ \A i \in DOMAIN slots[cloning[k].block] :
            IF i > frames[k].done THEN slots[cloning[k].block][i] = Zero
            ELSE slots[cloning[k].block][i].val = NULL <=> i = frames[k].done

\* C is the part of the copy that is there: the original is outside of it.
PartOfCopy(C, src) ==
  /\ C \subseteq DOMAIN node /\ Copies \subseteq C /\ src \in DOMAIN node \ C
  /\ \A k \in DOMAIN cloning : cloning[k].src \notin C
  /\ \A a \in DOMAIN node \ C : \A i \in DOMAIN Slots(a) : Slots(a)[i].val \notin C

\* What a call of value_clone begins with.
Entered(src, frames, slots, strings) ==
  \E n : /\ n = New(Nodes, node) /\ n \notin DOMAIN node /\ Label(n)' = Label(src)
         /\ Len(cloning') = Len(cloning) + 1 /\ DOMAIN cloning' = 1 .. Len(cloning) + 1
         /\ cloning'[Len(cloning) + 1].src = src /\ cloning'[Len(cloning) + 1].dst = n
         /\ cloning'[Len(cloning) + 1].done = 0
         /\ \A k \in 1 .. Len(cloning) : cloning'[k] = frames[k]
         /\ Copies' = Copies \cup {n}
         /\ \A b \in DOMAIN array : array'[b] = slots[b]
         /\ \A q \in DOMAIN strings : bytes'[q] = strings[q]

\* A call of value_clone allocates the node, its string and its slots; all there was
\* is as it was.  The key copied before the call is accounted for.
LEMMA EnterStep ==
  ASSUME IInv, freeing = <<>>, NEW src, NEW frames, NEW slots, NEW strings,
         NEW q0, NEW bl, NEW nx, NEW C,
         enter_clone(src, frames, slots, strings),
         KeyCopied(slots, strings, q0, bl, nx), CallsInside(frames, slots), PartOfCopy(C, src),
         DOMAIN copyOf' = C \cup {New(Nodes, node)}
  PROVE  IInv' /\ NewTop /\ LeavesAlone({}) /\ Entered(src, frames, slots, strings)
<1> PICK n0, nn, m, txt : /\ n0 = New(Nodes, node) /\ nn = node[src].n
                          /\ m = Len(cloning) /\ txt = Text(node[src].text)
  OBVIOUS
<1> PICK b0, p0 : /\ b0 = (IF nn = 0 THEN NULL ELSE New(Arrays, slots))
                  /\ p0 = dup_bytes(strings, txt)
  OBVIOUS
<1>1. freeing' = <<>> /\ roots' = roots
  BY DEF enter_clone
<1>k. /\ src \in DOMAIN node /\ DOMAIN slots = DOMAIN array /\ q0 \in Bytes \cup {NULL}
      /\ q0 # NULL => /\ bl \in DOMAIN array /\ nx \in DOMAIN array[bl]
                      /\ q0 \notin DOMAIN bytes
      /\ DOMAIN strings = DOMAIN bytes \cup ({q0} \ {NULL})
  BY DEF KeyCopied, PartOfCopy
<1>t. /\ node[src] \in NodeType /\ nn \in Nat /\ txt \in Strings
      /\ cloning \in Seq(CloneFrame) /\ m \in Nat /\ DOMAIN cloning = 1 .. m
      /\ frames \in Seq(CloneFrame) /\ Len(frames) = m /\ DOMAIN frames = 1 .. m
  BY <1>k, TextOfNode, LenProperties DEF IInv, TypeOK, NodeType, FramesOK, CallsInside
<1>2. /\ n0 \in Nodes /\ n0 \notin DOMAIN node
      /\ DOMAIN node' = DOMAIN node \cup {n0}
      /\ node'[n0] = Node(node[src].tag, p0, NULL, 0)
      /\ \A a \in DOMAIN node : node'[a] = node[a]
  BY NewIsFresh DEF enter_clone, Put
<1>3. /\ b0 \in Arrays \cup {NULL} /\ b0 \notin DOMAIN array /\ (b0 = NULL <=> nn = 0)
      /\ DOMAIN array' = DOMAIN array \cup ({b0} \ {NULL})
      /\ \A b \in DOMAIN array : array'[b] = slots[b]
      /\ b0 # NULL => array'[b0] = Zeros(nn)
  <2>1. CASE nn = 0
    BY <2>1, <1>k, HeapAssumption DEF enter_clone, IInv, TypeOK
  <2>2. CASE nn # 0
    <3>1. Unused(Arrays, slots) # {} /\ b0 = New(Arrays, slots)
      BY <2>2, <1>t DEF enter_clone
    <3>2. b0 \in Arrays /\ b0 \notin DOMAIN array /\ b0 # NULL
      BY <3>1, <1>k, NewIsFresh, HeapAssumption
    <3>3. array' = Put(slots, b0, Zeros(nn))
      BY <3>1, <3>2, <2>2 DEF enter_clone
    <3> QED BY <3>2, <3>3, <2>2, <1>k DEF Put
  <2> QED BY <2>1, <2>2
<1>4. /\ p0 \in Bytes \cup {NULL} /\ p0 \notin DOMAIN bytes /\ (p0 # NULL => p0 # q0)
      /\ DOMAIN bytes' = DOMAIN bytes \cup ({q0, p0} \ {NULL})
      /\ bytes' \in [DOMAIN bytes' -> Strings]
      /\ \A q \in DOMAIN strings : bytes'[q] = strings[q]
      /\ IF p0 = NULL THEN txt = Empty ELSE bytes'[p0] = txt
  <2>1. DOMAIN strings \subseteq Bytes /\ strings \in [DOMAIN strings -> Strings]
    BY <1>k, HeapAssumption DEF IInv, TypeOK, KeyCopied
  <2>2. bytes' = With(strings, txt) /\ Fits(strings, txt)
    BY DEF enter_clone
  <2>3. /\ p0 \in Bytes \cup {NULL} /\ p0 \notin DOMAIN strings
        /\ DOMAIN bytes' = DOMAIN strings \cup ({p0} \ {NULL})
        /\ bytes' \in [DOMAIN bytes' -> Strings]
        /\ \A q \in DOMAIN strings : bytes'[q] = strings[q]
        /\ IF p0 = NULL THEN txt = Empty ELSE bytes'[p0] = txt
    BY ZenonT(60), <2>1, <2>2, <1>t, Dup
  <2> QED BY <2>3, <1>k, HeapAssumption
<1>5. b0 # NULL => /\ array'[b0] \in Seq(SlotType) /\ Len(array'[b0]) = nn
                   /\ DOMAIN array'[b0] = 1 .. nn
                   /\ \A i \in DOMAIN array'[b0] : array'[b0][i] = Zero
  <2>1. /\ Zeros(nn) \in Seq(SlotType) /\ Len(Zeros(nn)) = nn
        /\ \A i \in 1 .. nn : Zeros(nn)[i] = Zero
    BY <1>t, ZerosSeq
  <2>2. DOMAIN Zeros(nn) = 1 .. nn
    BY <2>1, SlotsOf
  <2> QED BY <2>1, <2>2, <1>3
<1>6. /\ node'[n0].items = NULL /\ node'[n0].text = p0 /\ node'[n0].n = 0
      /\ node'[n0] \in NodeType
  BY <1>2, <1>t, <1>4 DEF Node, NodeType
<1>7. /\ cloning' \in Seq(CloneFrame) /\ DOMAIN cloning' = 1 .. m + 1 /\ Len(cloning') = m + 1
      /\ cloning'[m + 1].src = src /\ cloning'[m + 1].dst = n0
      /\ cloning'[m + 1].block = b0 /\ cloning'[m + 1].done = 0
      /\ \A k \in 1 .. m : cloning'[k] = frames[k] /\ k \in 1 .. m + 1
  <2>1. PICK e : e = [src |-> src, dst |-> n0, block |-> b0, done |-> 0]
    OBVIOUS
  <2>2. e \in CloneFrame /\ e.src = src /\ e.dst = n0 /\ e.block = b0 /\ e.done = 0
    BY <2>1, <1>k, <1>2, <1>3 DEF CloneFrame, IInv, TypeOK
  <2>3. cloning' = Append(frames, e)
    BY <2>1 DEF enter_clone
  <2> QED BY <2>2, <2>3, <1>t, Pushed
<1>8. /\ Copies' = Copies \cup {n0} /\ Copies \subseteq DOMAIN node
      /\ \A k \in 1 .. m : cloning[k].dst \in DOMAIN node
  <2>1. \A x : x \in Copies' <=> \E k \in 1 .. m + 1 : x = cloning'[k].dst
    BY <1>7 DEF Copies
  <2>2. \A x : x \in Copies <=> \E k \in 1 .. m : x = cloning[k].dst
    BY <1>t DEF Copies
  <2>3. \A k \in 1 .. m + 1 : k \in 1 .. m \/ k = m + 1
    BY <1>t
  <2>4. \A k \in 1 .. m : cloning'[k].dst = cloning[k].dst
    BY <1>7, <1>t DEF CallsInside
  <2>5. m + 1 \in 1 .. m + 1
    BY <1>t
  <2>6. \A x : x \in Copies' <=> x \in Copies \/ x = n0
    <3>1. ASSUME NEW x, x \in Copies' PROVE x \in Copies \/ x = n0
      BY <2>1, <2>2, <2>3, <2>4, <1>7, <3>1
    <3>2. ASSUME NEW x, x \in Copies PROVE x \in Copies'
      BY <2>1, <2>2, <2>4, <1>7, <3>2
    <3>3. n0 \in Copies'
      BY <2>1, <2>5, <1>7
    <3> QED BY <3>1, <3>2, <3>3
  <2>7. Copies \subseteq DOMAIN node
    BY DEF IInv, OneOwner, NodesOwned
  <2> QED BY <2>2, <2>6, <2>7
<1>9. /\ \A a \in DOMAIN node : \A b : Holds(a, b)' <=> Holds(a, b)
      /\ \A b : b # NULL => (Holds(n0, b)' <=> b = b0)
  <2>1. ASSUME NEW a \in DOMAIN node, NEW b PROVE Holds(a, b)' <=> Holds(a, b)
    <3>1. (\E k \in 1 .. m + 1 : cloning'[k].dst = a /\ cloning'[k].block = b)
            <=> (\E k \in 1 .. m : cloning[k].dst = a /\ cloning[k].block = b)
      <4>1. \A k \in 1 .. m + 1 : k \in 1 .. m \/ k = m + 1
        BY <1>t
      <4>2. \A k \in 1 .. m : /\ cloning'[k].dst = cloning[k].dst
                              /\ cloning'[k].block = cloning[k].block
        BY <1>7, <1>t DEF CallsInside
      <4>3. cloning'[m + 1].dst # a
        BY <1>2, <1>7
      <4> QED BY <4>1, <4>2, <4>3, <1>7
    <3> QED BY <3>1, <1>2, <1>7, <1>t DEF Holds
  <2>2. ASSUME NEW b, b # NULL PROVE Holds(n0, b)' <=> b = b0
    <3>1. \A k \in 1 .. m + 1 : cloning'[k].dst = n0 <=> k = m + 1
      <4>1. \A k \in 1 .. m + 1 : k \in 1 .. m \/ k = m + 1
        BY <1>t
      <4>2. \A k \in 1 .. m : cloning'[k].dst = cloning[k].dst /\ cloning[k].dst # n0
        BY <1>2, <1>7, <1>8, <1>t DEF CallsInside
      <4> QED BY <4>1, <4>2, <1>7
    <3>2. m + 1 \in 1 .. m + 1
      BY <1>t
    <3> QED BY <2>2, <3>1, <3>2, <1>6, <1>7 DEF Holds
  <2> QED BY <2>1, <2>2
<1>v. /\ Freed = {} /\ Freed' = {} /\ DOMAIN freeing' = {}
      /\ \A a : TextAt(a) = node[a].text /\ TextAt(a)' = node'[a].text
      /\ \A b, i : /\ ValAt(b, i) = array[b][i].val /\ KeyAt(b, i) = array[b][i].skey
                   /\ ValAt(b, i)' = array'[b][i].val /\ KeyAt(b, i)' = array'[b][i].skey
  BY <1>1, NothingFreed, NothingFreedNext
<1>z. b0 # NULL => \A i \in DOMAIN array'[b0] :
        ValAt(b0, i)' = NULL /\ KeyAt(b0, i)' = NULL
  BY <1>5, <1>v, ZeroType
<1>o. \A b \in DOMAIN array : /\ DOMAIN array'[b] = DOMAIN array[b]
        /\ \A i \in DOMAIN array[b] :
             /\ ValAt(b, i)' = ValAt(b, i)
             /\ KeyAt(b, i)' = IF b = bl /\ i = nx THEN q0 ELSE KeyAt(b, i)
  <2>1. ASSUME NEW b \in DOMAIN array PROVE DOMAIN array'[b] = DOMAIN array[b] /\ array'[b] = slots[b]
    BY <1>3 DEF KeyCopied
  <2>2. ASSUME NEW b \in DOMAIN array, NEW i \in DOMAIN array[b]
        PROVE  /\ slots[b][i].val = array[b][i].val
               /\ slots[b][i].skey = IF b = bl /\ i = nx THEN q0 ELSE array[b][i].skey
    BY DEF KeyCopied
  <2> QED BY <2>1, <2>2, <1>v
<1>x. bl \in DOMAIN array /\ nx \in DOMAIN array[bl] => KeyAt(bl, nx) = NULL
  BY <1>v DEF KeyCopied
<1>s. \A a \in DOMAIN node : Slots(a)' = Slots(a)
  BY <1>2, <1>3 DEF Slots, IInv, TypeOK, KeyCopied
<1>10. TypeOK'
  <2>1. node' = [a \in DOMAIN node' |-> node'[a]] /\ array' = [b \in DOMAIN array' |-> array'[b]]
    BY DEF enter_clone, Put, KeyCopied
  <2>2. \A a \in DOMAIN node' : node'[a] \in NodeType
    BY <1>2, <1>6 DEF IInv, TypeOK
  <2>3. \A b \in DOMAIN array' : array'[b] \in Seq(SlotType)
    BY <1>3, <1>5, <1>k DEF KeyCopied
  <2>4. node' \in [DOMAIN node' -> NodeType] /\ array' \in [DOMAIN array' -> Seq(SlotType)]
    BY <2>1, <2>2, <2>3
  <2>5. ASSUME NEW a \in DOMAIN node'
        PROVE  /\ node'[a].items # NULL => node'[a].items \in DOMAIN array'
               /\ node'[a].n <= Len(Slots(a)')
               /\ \A i \in DOMAIN Slots(a)' : IF i <= node'[a].n
                    THEN Slots(a)'[i].val # NULL ELSE Slots(a)'[i] = Zero
    <3>1. CASE a = n0
      BY <3>1, <1>6, EmptySeq DEF Slots
    <3>2. CASE a \in DOMAIN node
      BY <3>2, <1>s, <1>2, <1>3 DEF IInv, TypeOK
    <3> QED BY <1>2, <3>1, <3>2
  <2>6. DOMAIN node' \subseteq Nodes /\ DOMAIN array' \subseteq Arrays /\ roots' \subseteq DOMAIN node'
    BY <1>1, <1>2, <1>3 DEF IInv, TypeOK
  <2>7. DOMAIN bytes' \subseteq Bytes
    BY <1>4, <1>k DEF IInv, TypeOK
  <2> QED BY <2>4, <2>5, <2>6, <2>7, <1>4 DEF TypeOK
<1>11. NodesOwned'
  <2>1. ASSUME NEW b \in DOMAIN array', NEW i \in DOMAIN array'[b], ValAt(b, i)' # NULL
        PROVE  b \in DOMAIN array /\ i \in DOMAIN array[b] /\ ValAt(b, i)' = ValAt(b, i)
    BY <2>1, <1>3, <1>z, <1>o
  <2>2. ASSUME NEW x \in DOMAIN node'
        PROVE  \/ x \in roots' \cup Freed' \cup Copies'
               \/ \E b \in DOMAIN array' : \E i \in DOMAIN array'[b] : ValAt(b, i)' = x
    <3>1. CASE x \in roots \cup Copies \cup {n0}
      BY <3>1, <1>1, <1>8
    <3>2. CASE \E b \in DOMAIN array : \E i \in DOMAIN array[b] : ValAt(b, i) = x
      BY <3>2, <1>3, <1>o
    <3> QED BY <3>1, <3>2, <1>2, <1>v DEF IInv, OneOwner, NodesOwned
  <2>3. ASSUME NEW b \in DOMAIN array', NEW i \in DOMAIN array'[b], ValAt(b, i)' \in Nodes
        PROVE  ValAt(b, i)' \in DOMAIN node'
    BY <2>1, <2>3, <1>2, HeapAssumption DEF IInv, OneOwner, NodesOwned
  <2>4. roots' \cup Freed' \cup Copies' \subseteq DOMAIN node' /\ DOMAIN node' \subseteq Nodes
    BY <1>1, <1>2, <1>8, <1>v DEF IInv, TypeOK
  <2>5. {x \in Nodes : \E b \in DOMAIN array' : \E i \in DOMAIN array'[b] : ValAt(b, i)' = x}
          \subseteq DOMAIN node'
    BY <2>3
  <2>6. DOMAIN node' = roots' \cup Freed' \cup Copies' \cup
          {x \in Nodes : \E b \in DOMAIN array' : \E i \in DOMAIN array'[b] : ValAt(b, i)' = x}
    BY <2>2, <2>4, <2>5
  <2>7. roots' \cap (Freed' \cup Copies') = {} /\ Freed' \cap Copies' = {}
    BY <1>1, <1>2, <1>8, <1>v DEF IInv, OneOwner, NodesOwned, TypeOK
  <2>8. \A k, l \in DOMAIN freeing' : freeing'[k].at = freeing'[l].at => k = l
    BY <1>v
  <2>9. ASSUME NEW k \in DOMAIN cloning', NEW l \in DOMAIN cloning', cloning'[k].dst = cloning'[l].dst
        PROVE  k = l
    <3>1. \A j \in 1 .. m + 1 : j \in 1 .. m \/ j = m + 1
      BY <1>t
    <3>2. \A j \in 1 .. m : cloning'[j].dst = cloning[j].dst /\ cloning[j].dst # n0
      BY <1>2, <1>7, <1>8, <1>t DEF CallsInside
    <3>3. \A i, j \in 1 .. m : cloning[i].dst = cloning[j].dst => i = j
      BY <1>t DEF IInv, OneOwner, NodesOwned
    <3> QED BY <2>9, <3>1, <3>2, <3>3, <1>7
  <2>10. ASSUME NEW b \in DOMAIN array', NEW i \in DOMAIN array'[b], ValAt(b, i)' # NULL
         PROVE  /\ ValAt(b, i)' \notin roots' \cup Freed' \cup Copies'
                /\ \A c \in DOMAIN array' : \A j \in DOMAIN array'[c] :
                     ValAt(b, i)' = ValAt(c, j)' => b = c /\ i = j
    <3>1. b \in DOMAIN array /\ i \in DOMAIN array[b] /\ ValAt(b, i)' = ValAt(b, i)
      BY <2>1, <2>10
    <3>2. ValAt(b, i) \in DOMAIN node /\ ValAt(b, i) \notin roots \cup Copies
      <4>1. array[b][i] \in SlotType
        BY <3>1, SlotsOf DEF IInv, TypeOK
      <4>2. ValAt(b, i) \in Nodes
        BY <2>10, <3>1, <4>1, <1>v DEF SlotType
      <4> QED BY <2>10, <3>1, <4>2 DEF IInv, OneOwner, NodesOwned
    <3>3. ASSUME NEW c \in DOMAIN array', NEW j \in DOMAIN array'[c], ValAt(b, i)' = ValAt(c, j)'
          PROVE  b = c /\ i = j
      <4>1. c \in DOMAIN array /\ j \in DOMAIN array[c] /\ ValAt(c, j)' = ValAt(c, j)
        BY <2>1, <2>10, <3>3
      <4>2. ValAt(b, i) # NULL /\ ValAt(b, i) = ValAt(c, j)
        BY <2>10, <3>1, <3>3, <4>1
      <4> QED BY <3>1, <4>1, <4>2 DEF IInv, OneOwner, NodesOwned
    <3> QED BY <3>1, <3>2, <3>3, <1>1, <1>2, <1>8, <1>v
  <2> QED BY <2>6, <2>7, <2>8, <2>9, <2>10 DEF NodesOwned
<1>12. ArraysOwned'
  <2>1. ASSUME NEW b \in DOMAIN array' PROVE \E a \in DOMAIN node' : Holds(a, b)'
    <3>1. CASE b \in DOMAIN array
      BY <3>1, <1>2, <1>9 DEF IInv, OneOwner, ArraysOwned
    <3>2. CASE b = b0 /\ b0 # NULL
      BY <3>2, <1>2, <1>9
    <3> QED BY <3>1, <3>2, <1>3
  <2>2. ASSUME NEW a \in DOMAIN node', NEW c \in DOMAIN node', NEW b \in DOMAIN array',
               Holds(a, b)', Holds(c, b)'
        PROVE  a = c
    <3>0. b # NULL
      BY <1>3, HeapAssumption DEF IInv, TypeOK
    <3>1. CASE b = b0
      <4>1. \A x \in DOMAIN node : ~Holds(x, b0)
        <5>1. ASSUME NEW x \in DOMAIN node, Holds(x, b0) PROVE FALSE
          <6>1. node[x].items # b0
            BY <3>0, <3>1, <1>3 DEF IInv, TypeOK
          <6>2. \A k \in DOMAIN cloning : cloning[k].block # b0
            BY <3>0, <3>1, <1>3 DEF IInv, OneOwner, ArraysOwned
          <6> QED BY <5>1, <6>1, <6>2 DEF Holds
        <5> QED BY <5>1
      <4> QED BY <2>2, <3>1, <4>1, <1>2, <1>9
    <3>2. CASE b # b0
      <4>1. b \in DOMAIN array /\ a \in DOMAIN node /\ c \in DOMAIN node
        BY <2>2, <3>0, <3>2, <1>2, <1>3, <1>9
      <4> QED BY <2>2, <4>1, <1>9 DEF IInv, OneOwner, ArraysOwned
    <3> QED BY <3>1, <3>2
  <2>3. ASSUME NEW k \in DOMAIN cloning' PROVE cloning'[k].block \in DOMAIN array' \cup {NULL}
    <3>1. CASE k = m + 1
      BY <3>1, <1>3, <1>7
    <3>2. CASE k \in 1 .. m
      BY <3>2, <1>3, <1>7, <1>t DEF IInv, OneOwner, ArraysOwned, CallsInside
    <3> QED BY <3>1, <3>2, <1>7, <1>t
  <2> QED BY <2>1, <2>2, <2>3 DEF ArraysOwned
<1>13. BytesOwned'
  <2>1. TextAt(n0)' = p0 /\ \A a \in DOMAIN node : TextAt(a)' = TextAt(a)
    BY <1>2, <1>6, <1>v
  <2>2. ASSUME NEW b \in DOMAIN array', NEW i \in DOMAIN array'[b], KeyAt(b, i)' # NULL
        PROVE  /\ b \in DOMAIN array /\ i \in DOMAIN array[b]
               /\ KeyAt(b, i)' = IF b = bl /\ i = nx THEN q0 ELSE KeyAt(b, i)
    BY <2>2, <1>3, <1>z, <1>o
  <2>3. ASSUME NEW p \in DOMAIN bytes'
        PROVE  \/ \E a \in DOMAIN node' : TextAt(a)' = p
               \/ \E b \in DOMAIN array' : \E i \in DOMAIN array'[b] : KeyAt(b, i)' = p
    <3>0. p # NULL
      BY <1>4, HeapAssumption DEF IInv, TypeOK
    <3>1. CASE p = p0
      BY <3>1, <2>1, <1>2
    <3>2. CASE p = q0
      BY <3>0, <3>2, <1>k, <1>3, <1>o
    <3>3. CASE \E a \in DOMAIN node : TextAt(a) = p
      BY <3>3, <2>1, <1>2
    <3>4. CASE \E b \in DOMAIN array : \E i \in DOMAIN array[b] : KeyAt(b, i) = p
      <4>1. PICK b \in DOMAIN array : \E i \in DOMAIN array[b] : KeyAt(b, i) = p
        BY <3>4
      <4>2. PICK i \in DOMAIN array[b] : KeyAt(b, i) = p
        BY <4>1
      <4>3. ~(b = bl /\ i = nx)
        BY <3>0, <4>2, <1>x
      <4> QED BY <4>2, <4>3, <1>3, <1>o
    <3> QED BY <3>1, <3>2, <3>3, <3>4, <1>4 DEF IInv, OneOwner, BytesOwned
  <2>4. ASSUME NEW a \in DOMAIN node', TextAt(a)' \in Bytes PROVE TextAt(a)' \in DOMAIN bytes'
    <3>1. TextAt(a)' # NULL
      BY <2>4, HeapAssumption
    <3>2. CASE a = n0
      BY <3>1, <3>2, <2>1, <1>4
    <3>3. CASE a \in DOMAIN node
      BY <2>4, <3>3, <2>1, <1>4 DEF IInv, OneOwner, BytesOwned
    <3> QED BY <3>2, <3>3, <1>2
  <2>5. ASSUME NEW b \in DOMAIN array', NEW i \in DOMAIN array'[b], KeyAt(b, i)' \in Bytes
        PROVE  KeyAt(b, i)' \in DOMAIN bytes'
    <3>1. KeyAt(b, i)' # NULL
      BY <2>5, HeapAssumption
    <3>2. CASE b = bl /\ i = nx
      BY <3>1, <3>2, <2>2, <1>k, <1>4
    <3>3. CASE ~(b = bl /\ i = nx)
      BY <2>5, <3>1, <3>3, <2>2, <1>4 DEF IInv, OneOwner, BytesOwned
    <3> QED BY <3>2, <3>3
  <2>6. DOMAIN bytes' = {p \in Bytes :
          \/ \E a \in DOMAIN node' : TextAt(a)' = p
          \/ \E b \in DOMAIN array' : \E i \in DOMAIN array'[b] : KeyAt(b, i)' = p}
    <3>1. DOMAIN bytes' \subseteq Bytes
      BY <1>10 DEF TypeOK
    <3> QED BY ZenonT(60), <2>3, <2>4, <2>5, <3>1
  <2>7. \A a \in DOMAIN node : TextAt(a) # NULL => TextAt(a) \in DOMAIN bytes
    BY TextOfNode, <1>v
  <2>8. \A b \in DOMAIN array : \A i \in DOMAIN array[b] :
          KeyAt(b, i) # NULL => KeyAt(b, i) \in DOMAIN bytes
    <3>1. ASSUME NEW b \in DOMAIN array, NEW i \in DOMAIN array[b], KeyAt(b, i) # NULL
          PROVE  KeyAt(b, i) \in DOMAIN bytes
      <4>1. array[b][i] \in SlotType
        BY SlotsOf DEF IInv, TypeOK
      <4>2. KeyAt(b, i) \in Bytes
        BY <3>1, <4>1, <1>v DEF SlotType
      <4> QED BY <4>2 DEF IInv, OneOwner, BytesOwned
    <3> QED BY <3>1
  <2>9. ASSUME NEW a \in DOMAIN node', NEW c \in DOMAIN node',
               TextAt(a)' = TextAt(c)', TextAt(a)' # NULL
        PROVE  a = c
    <3>1. CASE a \in DOMAIN node /\ c \in DOMAIN node
      BY <2>9, <3>1, <2>1 DEF IInv, OneOwner, BytesOwned
    <3>2. CASE a = n0 \/ c = n0
      BY <2>9, <3>2, <2>1, <2>7, <1>2, <1>4
    <3> QED BY <3>1, <3>2, <1>2
  <2>10. ASSUME NEW b \in DOMAIN array', NEW i \in DOMAIN array'[b], KeyAt(b, i)' # NULL
         PROVE  /\ \A a \in DOMAIN node' : TextAt(a)' # KeyAt(b, i)'
                /\ \A c \in DOMAIN array' : \A j \in DOMAIN array'[c] :
                     KeyAt(b, i)' = KeyAt(c, j)' => b = c /\ i = j
    <3>0. b \in DOMAIN array /\ i \in DOMAIN array[b]
      BY <2>10, <2>2
    <3>1. ASSUME NEW a \in DOMAIN node' PROVE TextAt(a)' # KeyAt(b, i)'
      <4>1. CASE b = bl /\ i = nx
        BY <2>10, <4>1, <2>1, <2>2, <2>7, <1>k, <1>2, <1>4
      <4>2. CASE ~(b = bl /\ i = nx)
        <5>1. KeyAt(b, i)' = KeyAt(b, i) /\ KeyAt(b, i) \in DOMAIN bytes
          BY <2>10, <3>0, <4>2, <2>2, <2>8
        <5>2. CASE a = n0
          BY <2>10, <5>1, <5>2, <2>1, <1>4
        <5>3. CASE a \in DOMAIN node
          BY <2>10, <3>0, <5>1, <5>3, <2>1 DEF IInv, OneOwner, BytesOwned
        <5> QED BY <5>2, <5>3, <1>2
      <4> QED BY <4>1, <4>2
    <3>2. ASSUME NEW c \in DOMAIN array', NEW j \in DOMAIN array'[c], KeyAt(b, i)' = KeyAt(c, j)'
          PROVE  b = c /\ i = j
      <4>0. /\ c \in DOMAIN array /\ j \in DOMAIN array[c]
            /\ KeyAt(c, j)' = IF c = bl /\ j = nx THEN q0 ELSE KeyAt(c, j)
        BY <2>10, <3>2, <2>2
      <4>1. CASE (b = bl /\ i = nx) \/ (c = bl /\ j = nx)
        BY <2>10, <3>0, <3>2, <4>0, <4>1, <2>2, <2>8, <1>k
      <4>2. CASE ~(b = bl /\ i = nx) /\ ~(c = bl /\ j = nx)
        BY <2>10, <3>0, <3>2, <4>0, <4>2, <2>2 DEF IInv, OneOwner, BytesOwned
      <4> QED BY <4>1, <4>2
    <3> QED BY <3>1, <3>2
  <2> QED BY <2>6, <2>9, <2>10 DEF BytesOwned
<1>14. FramesOK'
  <2>1. ASSUME NEW k \in DOMAIN cloning', NEW f, f = cloning'[k]
        PROVE  /\ node'[f.dst].items = NULL /\ node'[f.dst].n = 0
               /\ f.done <= node'[f.src].n /\ (k < m + 1 => f.done >= 1)
               /\ f.block = NULL <=> node'[f.src].n = 0
               /\ f.block # NULL =>
                    /\ f.block \in DOMAIN array'
                    /\ Len(array'[f.block]) = node'[f.src].n
                    /\ \A i \in DOMAIN array'[f.block] :
                         IF i > f.done THEN array'[f.block][i] = Zero
                         ELSE array'[f.block][i].val = NULL <=> i = f.done /\ k < m + 1
    <3>1. CASE k = m + 1
      <4>1. f.src = src /\ f.dst = n0 /\ f.block = b0 /\ f.done = 0 /\ ~(k < m + 1)
        BY <2>1, <3>1, <1>7, <1>t
      <4>2. node'[src].n = nn
        BY <1>2, <1>k
      <4>3. ASSUME b0 # NULL, NEW i \in DOMAIN array'[b0] PROVE i > 0 /\ array'[b0][i] = Zero
        BY <4>3, <1>5, <1>t
      <4> QED BY <4>1, <4>2, <4>3, <1>3, <1>5, <1>6, <1>t
    <3>2. CASE k \in 1 .. m
      <4>1. k \in DOMAIN cloning /\ f = frames[k] /\ k < m + 1
        BY <2>1, <3>2, <1>7, <1>t
      <4>2. PICK g : g = cloning[k]
        OBVIOUS
      <4>3. /\ f.src = g.src /\ f.dst = g.dst /\ f.block = g.block
            /\ f.done \in 1 .. node[g.src].n
        BY <4>1, <4>2 DEF CallsInside
      <4>4. g.src \in DOMAIN node /\ g.dst \in DOMAIN node
        BY <4>1, <4>2, <1>8, <1>t DEF IInv, Originals
      <4>5. /\ node[g.dst].items = NULL /\ node[g.dst].n = 0
            /\ g.block = NULL <=> node[g.src].n = 0
            /\ (g.block # NULL => /\ g.block \in DOMAIN array
                                  /\ Len(array[g.block]) = node[g.src].n)
        BY <4>1, <4>2 DEF IInv, FramesOK
      <4>6. node'[g.src] = node[g.src] /\ node'[g.dst] = node[g.dst]
        BY <4>4, <1>2
      <4>7. ASSUME g.block # NULL
            PROVE  /\ g.block \in DOMAIN array' /\ Len(array'[g.block]) = node[g.src].n
                   /\ array'[g.block] = slots[g.block]
        BY <4>5, <4>7, <1>3 DEF KeyCopied
      <4>8. ASSUME NEW i \in DOMAIN slots[g.block]
            PROVE  IF i > f.done THEN slots[g.block][i] = Zero
                   ELSE slots[g.block][i].val = NULL <=> i = f.done
        BY <4>1, <4>2, <4>8 DEF CallsInside
      <4> QED BY <4>1, <4>3, <4>5, <4>6, <4>7, <4>8, <1>t
    <3> QED BY <3>1, <3>2, <1>7, <1>t
  <2> QED BY <2>1, <1>1, <1>7, <1>v, EmptySeq DEF FramesOK, IInv
<1>15. Originals'
  <2>1. DOMAIN copyOf' \subseteq DOMAIN node' /\ Copies' \subseteq DOMAIN copyOf'
    BY <1>2, <1>8 DEF PartOfCopy
  <2>2. ASSUME NEW k \in DOMAIN cloning' PROVE cloning'[k].src \in DOMAIN node' \ DOMAIN copyOf'
    <3>1. CASE k = m + 1
      BY <3>1, <1>2, <1>7 DEF PartOfCopy
    <3>2. CASE k \in 1 .. m
      <4>1. cloning'[k].src = cloning[k].src /\ cloning[k].src \in DOMAIN node
        BY <3>2, <1>7, <1>t DEF IInv, Originals, CallsInside
      <4>2. cloning[k].src \notin C
        BY <3>2, <1>t DEF PartOfCopy
      <4> QED BY <4>1, <4>2, <1>2
    <3> QED BY <3>1, <3>2, <1>7, <1>t
  <2>3. ASSUME NEW a \in DOMAIN node' \ DOMAIN copyOf', NEW i \in DOMAIN Slots(a)'
        PROVE  Slots(a)'[i].val \notin DOMAIN copyOf'
    <3>1. a \in DOMAIN node \ C /\ Slots(a)' = Slots(a)
      BY <1>2, <1>s
    <3>2. Slots(a)[i].val \notin C
      BY <3>1 DEF PartOfCopy
    <3>3. Slots(a)[i].val # n0
      <4>1. node[a].items \in DOMAIN array /\ Slots(a) = array[node[a].items]
        BY <3>1, EmptySeq DEF Slots, IInv, TypeOK
      <4>2. array[node[a].items][i] \in SlotType
        BY <3>1, <4>1, SlotsOf DEF IInv, TypeOK
      <4>3. array[node[a].items][i].val \in DOMAIN node \cup {NULL}
        BY <3>1, <4>1, <4>2, <1>v DEF SlotType, IInv, OneOwner, NodesOwned
      <4> QED BY <4>1, <4>3, <1>2, HeapAssumption
    <3> QED BY <3>1, <3>2, <3>3
  <2> QED BY <2>1, <2>2, <2>3, <1>1 DEF Originals
<1>16. NewTop
  <2>1. ASSUME NEW a \in DOMAIN node', NEW x \in DOMAIN node', IsElement(x, a)'
        PROVE  a # n0 /\ x # n0 /\ IsElement(x, a)
    <3>1. PICK b \in DOMAIN array' : Holds(a, b)' /\ \E i \in DOMAIN array'[b] : ValAt(b, i)' = x
      BY <2>1 DEF IsElement
    <3>2. PICK i \in DOMAIN array'[b] : ValAt(b, i)' = x
      BY <3>1
    <3>3. x # NULL /\ b # NULL /\ x \in Nodes
      BY <1>10, HeapAssumption DEF TypeOK
    <3>4. b # b0
      BY <3>2, <3>3, <1>z
    <3>5. b \in DOMAIN array /\ i \in DOMAIN array[b] /\ ValAt(b, i) = x
      BY <3>2, <3>4, <1>3, <1>o
    <3>6. x \in DOMAIN node
      BY <3>3, <3>5 DEF IInv, OneOwner, NodesOwned
    <3>7. a # n0
      BY <3>1, <3>3, <3>4, <1>9
    <3>8. Holds(a, b)
      BY <3>1, <3>7, <1>2, <1>9
    <3> QED BY <3>5, <3>6, <3>7, <3>8, <1>2 DEF IsElement
  <2>2. ASSUME NEW a \in DOMAIN node', NEW x \in DOMAIN node', a # n0, IsElement(x, a)
        PROVE  IsElement(x, a)'
    <3>1. PICK b \in DOMAIN array : Holds(a, b) /\ \E i \in DOMAIN array[b] : ValAt(b, i) = x
      BY <2>2 DEF IsElement
    <3>2. Holds(a, b)' /\ b \in DOMAIN array'
      BY <2>2, <3>1, <1>2, <1>3, <1>9
    <3> QED BY <3>1, <3>2, <1>o DEF IsElement
  <2>3. Tops' = Tops \cup {n0}
    BY <1>1, <1>8, <1>v DEF Tops
  <2> QED BY <2>1, <2>2, <2>3, <1>2 DEF NewTop
<1>17. \A q \in DOMAIN bytes : bytes'[q] = bytes[q]
  BY <1>4, <1>k DEF KeyCopied
<1>18. LeavesAlone({})
  <2>1. ASSUME NEW a \in DOMAIN node PROVE a \in DOMAIN node' /\ Shows(a)' = Shows(a)
    <3> PICK b : b = node[a].items
      OBVIOUS
    <3>1. ASSUME NEW i \in 1 .. node[a].n PROVE array'[b][i] = array[b][i]
      <4>1. b \in DOMAIN array /\ b # NULL
        BY <3>1, ElementIsThere, HeapAssumption DEF IInv, TypeOK
      <4>2. slots[b] = array[b]
        BY <4>1 DEF KeyCopied
      <4> QED BY <4>1, <4>2, <1>3
    <3>2. node'[a] = node[a] /\ a \in DOMAIN node'
      BY <1>2
    <3> QED BY <3>1, <3>2, <1>17, ShowsKeptAtRest
  <2> QED BY <2>1 DEF LeavesAlone, Sealed
<1>19. Label(n0)' = Label(src)
  <2>1. node'[n0].tag = node[src].tag /\ node'[n0].text = p0
    BY <1>2 DEF Node
  <2>2. Text(p0)' = txt
    BY <1>4 DEF Text
  <2> QED BY <2>1, <2>2 DEF Label
<1>20. Entered(src, frames, slots, strings)
  <2>1. /\ Len(cloning') = m + 1 /\ DOMAIN cloning' = 1 .. m + 1
        /\ cloning'[m + 1].src = src /\ cloning'[m + 1].dst = n0
        /\ cloning'[m + 1].done = 0 /\ \A k \in 1 .. m : cloning'[k] = frames[k]
    BY <1>7
  <2>2. \A b \in DOMAIN array : array'[b] = slots[b]
    BY <1>3
  <2>3. \A q \in DOMAIN strings : bytes'[q] = strings[q]
    BY <1>4
  <2> QED BY <2>1, <2>2, <2>3, <1>2, <1>8, <1>19 DEF Entered
<1> QED BY <1>10, <1>11, <1>12, <1>13, <1>14, <1>15, <1>16, <1>18, <1>20 DEF IInv, OneOwner

\* value_clone is called by a caller: a copy begins, and nothing else changes.
LEMMA CloneStartStep ==
  ASSUME IInv, value_clone
  PROVE  IInv' /\ NewTop /\ Kept /\ CopiesOK'
<1>1. PICK src \in roots : /\ enter_clone(src, <<>>, array, bytes)
                           /\ copyOf' = [a \in {New(Nodes, node)} |-> src]
  BY DEF value_clone
<1>2. freeing = <<>> /\ cloning = <<>> /\ Copies = {} /\ DOMAIN cloning = {}
  BY NothingCopied DEF value_clone, AtRest
<1>3. KeyCopied(array, bytes, NULL, NULL, 0)
  <2>1. NULL \notin DOMAIN array
    BY HeapAssumption DEF IInv, TypeOK
  <2> QED BY <2>1 DEF KeyCopied, IInv, TypeOK
<1>4. CallsInside(<<>>, array)
  BY <1>2, EmptySeq DEF CallsInside
<1>5. PartOfCopy({}, src)
  BY <1>2 DEF PartOfCopy, IInv, TypeOK
<1>6. DOMAIN copyOf' = {} \cup {New(Nodes, node)}
  BY <1>1
<1>7. IInv' /\ NewTop /\ LeavesAlone({}) /\ Entered(src, <<>>, array, bytes)
  BY <1>1, <1>2, <1>3, <1>4, <1>5, <1>6, EnterStep
<1>8. Kept
  BY <1>7 DEF Kept
<1>9. CopiesOK'
  <2>1. PICK n : /\ n = New(Nodes, node) /\ n \notin DOMAIN node /\ Label(n)' = Label(src)
                 /\ Len(cloning') = 1 /\ DOMAIN cloning' = {1} /\ cloning'[1].src = src
                 /\ cloning'[1].dst = n /\ cloning'[1].done = 0 /\ Copies' = {n}
    <3>1. Len(cloning) = 0 /\ 1 .. 1 = {1}
      BY <1>2
    <3> QED BY <1>2, <1>7, <3>1 DEF Entered
  <2>2. DOMAIN copyOf' = {n} /\ copyOf'[n] = src
    BY <1>1, <2>1
  <2>3. src \in DOMAIN node /\ src \in DOMAIN node' /\ src # n /\ Label(src)' = Label(src)
    <3>1. src \in DOMAIN node
      BY DEF IInv, TypeOK
    <3> QED BY <1>7, <2>1, <3>1, ShowsBoth DEF LeavesAlone
  <2>4. Label(n)' = Label(src)' /\ ~(1 < Len(cloning')) /\ 1 .. 0 = {}
    BY <2>1, <2>3
  <2> QED BY <2>1, <2>2, <2>3, <2>4 DEF CopiesOK
<1> QED BY <1>7, <1>8, <1>9

\* What an element of the value on top of the stack is copied to.
LEMMA CopyingTop ==
  ASSUME IInv, cloning # <<>>,
         NEW m, NEW top, NEW next, m = Len(cloning), top = Top(cloning), next = top.done + 1
  PROVE  /\ m \in Nat \ {0} /\ DOMAIN cloning = 1 .. m /\ top = cloning[m] /\ top \in CloneFrame
         /\ cloning \in Seq(CloneFrame) /\ freeing = <<>>
         /\ top.src \in DOMAIN node \ DOMAIN copyOf /\ top.dst \in DOMAIN node
         /\ top.dst \in Copies /\ next \in Nat \ {0}
         /\ node[top.dst].items = NULL /\ node[top.dst].n = 0
         /\ top.done \in 0 .. node[top.src].n
         /\ (top.block = NULL <=> node[top.src].n = 0)
         /\ top.block # NULL =>
              /\ top.block \in DOMAIN array /\ array[top.block] \in Seq(SlotType)
              /\ Len(array[top.block]) = node[top.src].n
              /\ DOMAIN array[top.block] = 1 .. node[top.src].n
              /\ \A i \in DOMAIN array[top.block] :
                   IF i > top.done THEN array[top.block][i] = Zero
                   ELSE array[top.block][i].val # NULL
         /\ \A k \in 1 .. m : k # m => cloning[k].block # top.block \/ top.block = NULL
         /\ \A a \in DOMAIN node : node[a].items # top.block \/ top.block = NULL
         /\ \A k \in 1 .. m : cloning[k].dst \in DOMAIN node
<1>1. cloning \in Seq(CloneFrame) /\ freeing = <<>>
  BY DEF IInv, FramesOK
<1>2. m \in Nat \ {0} /\ DOMAIN cloning = 1 .. m /\ top = cloning[m] /\ top \in CloneFrame /\ m \in 1 .. m
  BY <1>1, Popped DEF Top
<1>3. top.dst \in Copies /\ top.dst \in DOMAIN node /\ \A k \in 1 .. m : cloning[k].dst \in DOMAIN node
  BY <1>2 DEF Copies, IInv, OneOwner, NodesOwned
<1>4. top.src \in DOMAIN node \ DOMAIN copyOf
  BY <1>2 DEF IInv, Originals
<1>5. node[top.src].n \in Nat /\ top.done \in Nat
  BY <1>2, <1>4 DEF CloneFrame, IInv, TypeOK, NodeType
<1>6. /\ node[top.dst].items = NULL /\ node[top.dst].n = 0
      /\ top.done <= node[top.src].n
      /\ (top.block = NULL <=> node[top.src].n = 0)
      /\ top.block # NULL =>
           /\ top.block \in DOMAIN array /\ Len(array[top.block]) = node[top.src].n
           /\ \A i \in DOMAIN array[top.block] :
                IF i > top.done THEN array[top.block][i] = Zero
                ELSE array[top.block][i].val = NULL <=> i = top.done /\ m < m
  BY <1>2 DEF IInv, FramesOK
<1>7. top.block # NULL => /\ array[top.block] \in Seq(SlotType)
                          /\ DOMAIN array[top.block] = 1 .. node[top.src].n
  BY <1>6, SlotsOf DEF IInv, TypeOK
<1>8. top.block # NULL => Holds(top.dst, top.block)
  BY <1>2 DEF Holds
<1>9. ASSUME NEW k \in 1 .. m, k # m, top.block # NULL PROVE cloning[k].block # top.block
  <2>1. cloning[k].dst # top.dst
    BY <1>2, <1>9 DEF IInv, OneOwner, NodesOwned
  <2>2. cloning[k].block = top.block => Holds(cloning[k].dst, top.block)
    BY <1>2 DEF Holds
  <2> QED BY <2>1, <2>2, <1>3, <1>6, <1>8, <1>9 DEF IInv, OneOwner, ArraysOwned
<1>10. ASSUME NEW a \in DOMAIN node, top.block # NULL PROVE node[a].items # top.block
  <2>1. node[a].items = top.block => Holds(a, top.block)
    BY DEF Holds
  <2>2. Holds(a, top.block) => a = top.dst
    BY <1>3, <1>6, <1>8, <1>10 DEF IInv, OneOwner, ArraysOwned
  <2> QED BY <2>1, <2>2, <1>6, <1>10
<1>11. top.block # NULL => \A i \in DOMAIN array[top.block] :
         IF i > top.done THEN array[top.block][i] = Zero ELSE array[top.block][i].val # NULL
  BY <1>2, <1>6
<1> QED BY <1>1, <1>2, <1>3, <1>4, <1>5, <1>6, <1>7, <1>9, <1>10, <1>11

\* The loop of clone_kv_block (clone.c:15-25): the key of the next element and the
\* call for its value.
LEMMA CloneElementStep ==
  ASSUME IInv, clone_element
  PROVE  IInv' /\ NewTop /\ Kept /\ (CopiesOK => CopiesOK')
<1>p. PICK m, top, next : m = Len(cloning) /\ top = Top(cloning) /\ next = top.done + 1
  OBVIOUS
<1>0. cloning # <<>> /\ next <= node[top.src].n
  BY <1>p DEF clone_element
<1>1. /\ m \in Nat \ {0} /\ DOMAIN cloning = 1 .. m /\ top = cloning[m] /\ top \in CloneFrame
      /\ cloning \in Seq(CloneFrame) /\ freeing = <<>>
      /\ top.src \in DOMAIN node \ DOMAIN copyOf
  BY <1>0, CopyingTop, <1>p
<1>n. node[top.src].n \in Nat /\ top.done \in 0 .. node[top.src].n
  BY <1>0, <1>1, CopyingTop DEF IInv, TypeOK, NodeType
<1>2. next \in 1 .. node[top.src].n /\ top.block # NULL /\ m \in 1 .. m /\ top.done = next - 1
  <2>1. next \in 1 .. node[top.src].n /\ m \in 1 .. m /\ top.done = next - 1
    BY <1>0, <1>1, <1>n, <1>p
  <2>2. top.block = NULL <=> node[top.src].n = 0
    BY <1>0, CopyingTop, <1>p
  <2> QED BY <2>1, <2>2, <1>n
<1>kv. PICK kv : kv = Slots(top.src)[next]
  OBVIOUS
<1>nm. PICK name : name = Text(kv.skey)
  OBVIOUS
<1>q. PICK q0, b : q0 = dup_bytes(bytes, name) /\ b = top.block
  OBVIOUS
<1>3. /\ kv \in SlotType /\ kv.val \in DOMAIN node \ DOMAIN copyOf /\ name \in Strings
  <2> PICK c : c = node[top.src].items
    OBVIOUS
  <2>1. /\ c \in DOMAIN array /\ Slots(top.src) = array[c] /\ next \in DOMAIN array[c]
        /\ kv \in SlotType /\ kv.val \in Nodes /\ kv = array[c][next]
    BY <1>1, <1>2, ElementIsThere, <1>kv DEF IInv
  <2>2. kv.val = ValAt(c, next)
    <3>1. freeing = <<>>
      BY <1>1
    <3> QED BY <2>1, <3>1, NothingFreed
  <2>3. kv.val \in DOMAIN node
    BY <2>1, <2>2 DEF IInv, OneOwner, NodesOwned
  <2>4. kv.val \notin DOMAIN copyOf
    BY <2>1, <1>1 DEF IInv, Originals
  <2>5. name \in Strings
    BY <2>1, <1>1, TextOfNode, <1>nm, <1>kv
  <2> QED BY <2>1, <2>3, <2>4, <2>5
<1>fr. PICK frames, slots, strings, new :
      /\ frames = [cloning EXCEPT ![m].done = next]
      /\ new = Slot(kv.key, kv.ikey, q0, NULL)
      /\ slots = [array EXCEPT ![b][next] = new] /\ strings = With(bytes, name)
  OBVIOUS
<1>b. /\ b \in DOMAIN array /\ array[b] \in Seq(SlotType) /\ Len(array[b]) = node[top.src].n
      /\ DOMAIN array[b] = 1 .. node[top.src].n
      /\ \A i \in DOMAIN array[b] :
           IF i > top.done THEN array[b][i] = Zero ELSE array[b][i].val # NULL
  BY <1>0, <1>2, CopyingTop, <1>p, <1>q
<1>c. /\ \A k \in 1 .. m : k # m => cloning[k].block # b
      /\ \A a \in DOMAIN node : node[a].items # b
  BY SMTT(30), <1>0, <1>2, CopyingTop, <1>p, <1>q
<1>4. /\ enter_clone(kv.val, frames, slots, strings) /\ Fits(bytes, name)
      /\ copyOf' = Put(copyOf, New(Nodes, node), kv.val)
  BY <1>p, <1>kv, <1>nm, <1>q, <1>fr DEF clone_element
<1>5. /\ q0 \in Bytes \cup {NULL} /\ q0 \notin DOMAIN bytes
      /\ DOMAIN strings = DOMAIN bytes \cup ({q0} \ {NULL})
      /\ strings \in [DOMAIN strings -> Strings]
      /\ \A q \in DOMAIN bytes : strings[q] = bytes[q]
      /\ IF q0 = NULL THEN name = Empty ELSE strings[q0] = name
  <2>1. DOMAIN bytes \subseteq Bytes /\ bytes \in [DOMAIN bytes -> Strings]
    BY DEF IInv, TypeOK
  <2>2. /\ dup_bytes(bytes, name) \in Bytes \cup {NULL}
        /\ dup_bytes(bytes, name) \notin DOMAIN bytes
        /\ DOMAIN With(bytes, name) = DOMAIN bytes \cup ({dup_bytes(bytes, name)} \ {NULL})
    BY <2>1, <1>3, <1>4, Dup
  <2>3. /\ With(bytes, name) \in [DOMAIN With(bytes, name) -> Strings]
        /\ \A q \in DOMAIN bytes : With(bytes, name)[q] = bytes[q]
    BY <2>1, <1>3, <1>4, Dup
  <2>4. IF dup_bytes(bytes, name) = NULL THEN name = Empty
           ELSE With(bytes, name)[dup_bytes(bytes, name)] = name
    BY <2>2, HeapAssumption DEF dup_bytes, With, Put
  <2>5. q0 = dup_bytes(bytes, name) /\ strings = With(bytes, name)
    BY <1>q, <1>fr
  <2> QED BY <2>2, <2>3, <2>4, <2>5
<1>6. new \in SlotType /\ new.val = NULL /\ new.skey = q0
  BY <1>3, <1>5, <1>fr DEF Slot, SlotType
<1>7. /\ b \in DOMAIN array /\ DOMAIN slots = DOMAIN array
      /\ \A c \in DOMAIN array : c # b => slots[c] = array[c]
      /\ slots[b] = [array[b] EXCEPT ![next] = new]
      /\ slots = [c \in DOMAIN array |-> slots[c]]
  BY <1>b, <1>fr
<1>8. /\ slots[b] \in Seq(SlotType) /\ Len(slots[b]) = node[top.src].n
      /\ DOMAIN slots[b] = 1 .. node[top.src].n
      /\ \A i \in 1 .. node[top.src].n : slots[b][i] = IF i = next THEN new ELSE array[b][i]
  <2>1. /\ slots[b] \in Seq(SlotType) /\ Len(slots[b]) = Len(array[b])
        /\ \A i \in 1 .. Len(array[b]) : slots[b][i] = IF i = next THEN new ELSE array[b][i]
    <3>1. array[b] \in Seq(SlotType) /\ next \in 1 .. Len(array[b]) /\ new \in SlotType
      BY <1>2, <1>b, <1>6
    <3> QED BY <3>1, <1>7, ExceptSeq
  <2>2. DOMAIN slots[b] = 1 .. Len(slots[b])
    BY <2>1, SlotsOf
  <2> QED BY <2>1, <2>2, <1>b
<1>9. KeyCopied(slots, strings, q0, b, next)
  <2>1. array[b][next].skey = NULL /\ array[b][next].val = NULL /\ next \in DOMAIN array[b]
    BY <1>2, <1>n, <1>b, ZeroType
  <2>2. \A c \in DOMAIN slots : slots[c] \in Seq(SlotType)
    BY <1>7, <1>8 DEF IInv, TypeOK
  <2>3. slots \in [DOMAIN slots -> Seq(SlotType)]
    BY <2>2, <1>7
  <2>4. ASSUME NEW c \in DOMAIN array
        PROVE  /\ DOMAIN slots[c] = DOMAIN array[c] /\ Len(slots[c]) = Len(array[c])
               /\ \A i \in DOMAIN array[c] :
                    /\ slots[c][i].val = array[c][i].val
                    /\ slots[c][i].skey = IF c = b /\ i = next THEN q0 ELSE array[c][i].skey
    <3>1. CASE c = b
      BY <3>1, <2>1, <1>b, <1>6, <1>8
    <3>2. CASE c # b
      BY <3>2, <1>7
    <3> QED BY <3>1, <3>2
  <2>5. \A a \in DOMAIN node : node[a].items # NULL => slots[node[a].items] = array[node[a].items]
    BY <1>c, <1>7 DEF IInv, TypeOK
  <2> QED BY <2>1, <2>3, <2>4, <2>5, <1>5, <1>7 DEF KeyCopied
<1>10. /\ frames \in Seq(CloneFrame) /\ Len(frames) = m /\ DOMAIN frames = 1 .. m
       /\ \A k \in 1 .. m : /\ frames[k].src = cloning[k].src /\ frames[k].dst = cloning[k].dst
                            /\ frames[k].block = cloning[k].block
                            /\ frames[k].done = IF k = m THEN next ELSE cloning[k].done
  <2> PICK e : e = [cloning[m] EXCEPT !.done = next]
    OBVIOUS
  <2>1. /\ e \in CloneFrame /\ e.src = top.src /\ e.dst = top.dst /\ e.block = top.block
        /\ e.done = next
    <3>1. cloning[m] \in CloneFrame /\ next \in Nat /\ top = cloning[m]
      BY <1>1, <1>2, <1>n
    <3> QED BY <3>1 DEF CloneFrame
  <2>2. frames = [cloning EXCEPT ![m] = e] /\ m \in 1 .. m
    BY <1>2, <1>fr
  <2>3. /\ frames \in Seq(CloneFrame) /\ Len(frames) = m
        /\ \A k \in 1 .. m : frames[k] = IF k = m THEN e ELSE cloning[k]
    <3>1. cloning \in Seq(CloneFrame) /\ e \in CloneFrame /\ Len(cloning) = m
      BY <2>1, <1>1
    <3> QED BY <3>1, <2>2, ExceptSeq
  <2>4. DOMAIN frames = 1 .. m
    BY <2>3, LenProperties
  <2> QED BY <2>1, <2>3, <2>4, <1>1
<1>11. CallsInside(frames, slots)
  <2>1. ASSUME NEW k \in DOMAIN cloning
        PROVE  /\ frames[k].done \in 1 .. node[cloning[k].src].n
               /\ \A i \in DOMAIN slots[cloning[k].block] :
                    IF i > frames[k].done THEN slots[cloning[k].block][i] = Zero
                    ELSE slots[cloning[k].block][i].val = NULL <=> i = frames[k].done
    <3>1. CASE k = m
      <4>1. frames[k].done = next /\ cloning[k].block = b /\ cloning[k].src = top.src
        BY <3>1, <1>1, <1>10, <1>q
      <4>2. ASSUME NEW i \in DOMAIN slots[b]
            PROVE  IF i > next THEN slots[b][i] = Zero ELSE slots[b][i].val = NULL <=> i = next
        <5>1. i \in 1 .. node[top.src].n
          BY <4>2, <1>8
        <5>2. CASE i = next
          BY <5>1, <5>2, <1>6, <1>8
        <5>3. CASE i # next
          <6>1. slots[b][i] = array[b][i] /\ i \in DOMAIN array[b]
            BY <5>1, <5>3, <1>b, <1>8
          <6>2. i > next <=> i > top.done
            BY <5>1, <5>3, <1>n, <1>2
          <6> QED BY <5>3, <6>1, <6>2, <1>b
        <5> QED BY <5>2, <5>3
      <4> QED BY <4>1, <4>2, <1>2
    <3>2. CASE k # m
      <4> PICK f : f = cloning[k]
        OBVIOUS
      <4>1. k \in 1 .. m /\ k < m /\ frames[k].done = f.done /\ f.block # b
        <5>1. k \in 1 .. m /\ k < m
          BY <3>2, <1>1
        <5> QED BY <5>1, <3>2, <1>c, <1>10
      <4>2. f.done \in Nat /\ f.src \in DOMAIN node /\ f.block \in Arrays \cup {NULL}
        <5>1. cloning \in Seq(CloneFrame) /\ k \in 1 .. Len(cloning)
          BY <1>1
        <5>2. f \in CloneFrame
          BY <5>1, ElementOfSeq
        <5>3. f.src \in DOMAIN node
          BY DEF IInv, Originals
        <5> QED BY <5>2, <5>3 DEF CloneFrame
      <4>3. /\ f.done <= node[f.src].n /\ f.done >= 1 /\ (f.block = NULL <=> node[f.src].n = 0)
            /\ f.block # NULL =>
                 /\ f.block \in DOMAIN array
                 /\ \A i \in DOMAIN array[f.block] :
                    IF i > f.done THEN array[f.block][i] = Zero
                    ELSE array[f.block][i].val = NULL <=> i = f.done /\ k < m
        BY <4>1, <1>p DEF IInv, FramesOK
      <4>4. node[f.src].n \in Nat
        BY <4>2 DEF IInv, TypeOK, NodeType
      <4>5. f.block # NULL /\ slots[f.block] = array[f.block]
        BY <4>1, <4>2, <4>3, <4>4, <1>7
      <4> QED BY <4>1, <4>2, <4>3, <4>4, <4>5
    <3> QED BY <3>1, <3>2
  <2> QED BY <2>1, <1>1, <1>10 DEF CallsInside
<1>12. PartOfCopy(DOMAIN copyOf, kv.val)
  BY <1>3 DEF PartOfCopy, IInv, Originals
<1>13. DOMAIN copyOf' = DOMAIN copyOf \cup {New(Nodes, node)}
  BY <1>4 DEF Put
<1>14. IInv' /\ NewTop /\ LeavesAlone({}) /\ Entered(kv.val, frames, slots, strings)
  BY <1>1, <1>4, <1>9, <1>11, <1>12, <1>13, EnterStep
<1>15. Kept
  BY <1>14 DEF Kept
<1>16. ASSUME CopiesOK PROVE CopiesOK'
  <2>1. PICK n : /\ n = New(Nodes, node) /\ n \notin DOMAIN node /\ Label(n)' = Label(kv.val)
                 /\ Len(cloning') = m + 1 /\ DOMAIN cloning' = 1 .. m + 1
                 /\ cloning'[m + 1].src = kv.val /\ cloning'[m + 1].dst = n
                 /\ cloning'[m + 1].done = 0
                 /\ \A k \in 1 .. m : cloning'[k] = frames[k]
                 /\ Copies' = Copies \cup {n}
                 /\ \A c \in DOMAIN array : array'[c] = slots[c]
                 /\ \A q \in DOMAIN strings : bytes'[q] = strings[q]
    BY <1>14, <1>p DEF Entered
  <2>l. Len(cloning') = m + 1 /\ DOMAIN cloning' = 1 .. m + 1
    BY <2>1
  <2>t. cloning'[m + 1].src = kv.val /\ cloning'[m + 1].dst = n /\ cloning'[m + 1].done = 0
    BY <2>1
  <2>f. \A k \in 1 .. m : cloning'[k] = frames[k]
    BY <2>1
  <2>a. \A c \in DOMAIN array : array'[c] = slots[c]
    BY <2>1
  <2>q. /\ \A q \in DOMAIN bytes : bytes'[q] = bytes[q]
        /\ IF q0 = NULL THEN name = Empty ELSE bytes'[q0] = name
    <3>1. \A q \in DOMAIN strings : bytes'[q] = strings[q]
      BY <2>1
    <3> QED BY <3>1, <1>5
  <2>2. /\ DOMAIN copyOf' = DOMAIN copyOf \cup {n} /\ copyOf'[n] = kv.val
        /\ \A d \in DOMAIN copyOf : d \in DOMAIN node /\ d # n /\ copyOf'[d] = copyOf[d]
    <3>1. DOMAIN copyOf \subseteq DOMAIN node
      BY DEF IInv, Originals
    <3> QED BY <1>4, <2>1, <3>1 DEF Put
  <2>3. \A a \in DOMAIN node : /\ a \in DOMAIN node' /\ a # n
                               /\ Label(a)' = Label(a) /\ Elements(a)' = Elements(a)
    BY <1>14, <2>1, ShowsBoth DEF LeavesAlone
  <2>4. ASSUME NEW d \in DOMAIN copyOf', NEW s, s = copyOf'[d]
        PROVE  /\ s \in DOMAIN node' \ DOMAIN copyOf' /\ Label(d)' = Label(s)'
               /\ d \notin Copies' =>
                    /\ DOMAIN Elements(d)' = DOMAIN Elements(s)'
                    /\ \A i \in DOMAIN Elements(d)' :
                         /\ SameKey(Elements(d)'[i], Elements(s)'[i])
                         /\ HasCopy(Elements(s)[i].val, Elements(d)[i].val)'
    <3>1. CASE d = n
      BY <2>1, <2>2, <2>3, <2>4, <3>1, <1>3
    <3>2. CASE d \in DOMAIN copyOf
      <4>1. s = copyOf[d] /\ d \in DOMAIN node /\ s \in DOMAIN node \ DOMAIN copyOf
            /\ Label(d) = Label(s)
        BY <2>2, <2>4, <3>2, <1>16 DEF CopiesOK
      <4>2. ASSUME d \notin Copies
            PROVE  /\ DOMAIN Elements(d) = DOMAIN Elements(s)
                   /\ \A i \in DOMAIN Elements(d) :
                        /\ SameKey(Elements(d)[i], Elements(s)[i])
                        /\ HasCopy(Elements(s)[i].val, Elements(d)[i].val)
        BY <3>2, <4>1, <4>2, <1>16 DEF CopiesOK
      <4>3. \A x, y : HasCopy(x, y) => HasCopy(x, y)'
        BY <2>2 DEF HasCopy
      <4>4. \A x, y : SameKey(x, y)' <=> SameKey(x, y)
        BY DEF SameKey
      <4> QED BY <2>1, <2>2, <2>3, <4>1, <4>2, <4>3
    <3> QED BY <2>2, <3>1, <3>2
  <2>5. ASSUME NEW k \in DOMAIN cloning', NEW c, NEW s, NEW o, c = cloning'[k].block,
               s = cloning'[k].src, o = cloning'[k].done
        PROVE  /\ copyOf'[cloning'[k].dst] = s
               /\ k < Len(cloning') => cloning'[k + 1].src = Elements(s)'[o].val
               /\ \A i \in 1 .. o :
                    /\ SameKey(Element(c, i)', Elements(s)'[i])
                    /\ Element(c, i)'.val # NULL => HasCopy(Elements(s)[i].val, Element(c, i).val)'
    <3>1. CASE k = m + 1
      <4>1. ~(k < Len(cloning'))
        BY <2>l, <3>1, <1>1
      <4>2. o = 0 /\ 1 .. 0 = {} /\ s = kv.val /\ cloning'[k].dst = n
        BY <2>t, <2>5, <3>1
      <4> QED BY <2>2, <4>1, <4>2
    <3>2. CASE k \in 1 .. m
      <4>1. PICK p : p = cloning[k].done
        OBVIOUS
      <4>2. /\ c = cloning[k].block /\ s = cloning[k].src /\ cloning'[k].dst = cloning[k].dst
            /\ o = IF k = m THEN next ELSE p
        BY <2>f, <2>5, <3>2, <4>1, <1>10
      <4>3. k \in DOMAIN cloning /\ s \in DOMAIN node
        BY <3>2, <4>2, <1>1 DEF IInv, Originals
      <4>4. /\ copyOf[cloning[k].dst] = s
            /\ k < Len(cloning) => cloning[k + 1].src = Elements(s)[p].val
            /\ \A i \in 1 .. p :
                 /\ SameKey(Element(c, i), Elements(s)[i])
                 /\ Element(c, i).val # NULL => HasCopy(Elements(s)[i].val, Element(c, i).val)
        BY <4>1, <4>2, <4>3, <1>16 DEF CopiesOK
      <4>5. copyOf'[cloning'[k].dst] = s
        <5>1. cloning[k].dst \in DOMAIN copyOf
          BY <4>3 DEF IInv, Originals, Copies
        <5> QED BY <5>1, <4>2, <4>4, <2>2
      <4>6. ASSUME k = m
            PROVE  s = top.src /\ c = b /\ o = next /\ p = next - 1 /\ Elements(s)[next] = Element(node[s].items, next)
        BY <4>1, <4>2, <4>6, <1>1, <1>2, <1>p, <1>q DEF Elements
      <4>7. ASSUME k = m
            PROVE  Element(node[s].items, next) = [key |-> kv.key, ikey |-> kv.ikey,
                                                   name |-> name, val |-> kv.val]
        <5>1. s = top.src /\ Slots(s) = array[node[s].items]
          BY <4>6, <4>7, <1>1, <1>2, ElementIsThere DEF IInv
        <5> QED BY <5>1, <1>kv, <1>nm DEF Element
      <4>8. cloning'[k + 1].src = Elements(s)'[o].val
        <5>1. CASE k = m
          BY <5>1, <4>3, <4>6, <4>7, <2>t, <2>3
        <5>2. CASE k # m
          <6>1. k + 1 \in 1 .. m /\ k < Len(cloning)
            BY <3>2, <5>2, <1>1
          <6>2. cloning'[k + 1].src = cloning[k + 1].src
            BY <6>1, <2>f, <1>10
          <6>3. o = p /\ Elements(s)' = Elements(s)
            BY <5>2, <4>2, <4>3, <2>3
          <6> QED BY <6>1, <6>2, <6>3, <4>4
        <5> QED BY <5>1, <5>2
      <4>9. ASSUME NEW i \in 1 .. o
            PROVE  /\ SameKey(Element(c, i)', Elements(s)'[i])
                   /\ Element(c, i)'.val # NULL => HasCopy(Elements(s)[i].val, Element(c, i).val)'
        <5>1. CASE k = m /\ i = next
          <6>1. array'[b][next] = new
            BY <1>2, <1>b, <1>8, <2>a
          <6>2. Text(q0)' = name
            BY <2>q DEF Text
          <6>3. Text(array[b][next].skey)' = name
            BY <6>1, <6>2, <1>6
          <6>4. Element(c, i)' = [key |-> kv.key, ikey |-> kv.ikey, name |-> name, val |-> NULL]
            BY <5>1, <4>6, <6>1, <6>3, <1>fr DEF Element, Slot
          <6> QED BY <5>1, <4>3, <4>6, <4>7, <6>4, <2>3 DEF SameKey
        <5>2. CASE ~(k = m /\ i = next)
          <6>1. i \in 1 .. p
            BY <4>2, <4>6, <4>9, <5>2, <1>2, <1>n
          <6>2. /\ c \in DOMAIN array /\ i \in DOMAIN array[c]
                /\ array[c][i].skey \in DOMAIN bytes \cup {NULL}
            BY <6>1, <4>1, <4>2, <4>3, BlockElement
          <6>3. array'[c][i] = array[c][i]
            <7>1. CASE c = b
              <8>1. k = m
                BY <3>2, <4>2, <7>1, <1>c
              <8>2. i # next /\ i \in 1 .. node[top.src].n
                BY <7>1, <8>1, <5>2, <6>2, <1>b
              <8> QED BY <7>1, <8>2, <1>8, <1>b, <2>a
            <7>2. CASE c # b
              BY <6>2, <7>2, <1>7, <2>a
            <7> QED BY <7>1, <7>2
          <6>4. PICK q : q = array[c][i].skey
            OBVIOUS
          <6>5. q # NULL => bytes'[q] = bytes[q]
            BY <6>2, <6>4, <2>q
          <6>6. Element(c, i)' = Element(c, i)
            BY <6>3, <6>4, <6>5, ElementKept
          <6>7. Elements(s)'[i] = Elements(s)[i]
            BY <4>3, <2>3
          <6>8. \A x, y : HasCopy(x, y) => HasCopy(x, y)'
            BY <2>2 DEF HasCopy
          <6>9. /\ SameKey(Element(c, i), Elements(s)[i])
                /\ Element(c, i).val # NULL => HasCopy(Elements(s)[i].val, Element(c, i).val)
            BY <6>1, <4>4
          <6> QED BY <6>6, <6>7, <6>8, <6>9
        <5> QED BY <5>1, <5>2
      <4> QED BY <4>5, <4>8, <4>9
    <3>3. k \in 1 .. m \/ k = m + 1
      BY <2>l, <1>1
    <3> QED BY <3>1, <3>2, <3>3
  <2> QED BY <2>4, <2>5 DEF CopiesOK
<1> QED BY <1>14, <1>15, <1>16

\* One slot is set.
LEMMA SetSlot ==
  ASSUME NEW s \in Seq(SlotType), NEW i \in 1 .. Len(s), NEW e \in SlotType,
         NEW t, t = [s EXCEPT ![i] = e]
  PROVE  /\ t \in Seq(SlotType) /\ Len(t) = Len(s)
         /\ \A j \in 1 .. Len(s) : t[j] = IF j = i THEN e ELSE s[j]
BY ExceptSeq

\* The arrays that calls are filling are no node's, and each is one call's.
LEMMA BlocksInFilling ==
  ASSUME IInv, NEW k \in DOMAIN cloning, NEW b, b = cloning[k].block, b # NULL
  PROVE  /\ b \in DOMAIN array /\ \A a \in DOMAIN node : node[a].items # b
         /\ \A l \in DOMAIN cloning : cloning[l].block = b => l = k
<1> PICK d : d = cloning[k].dst
  OBVIOUS
<1>1. Holds(d, b)
  BY DEF Holds
<1>2. d \in DOMAIN node /\ b \in DOMAIN array /\ node[d].items = NULL
  BY DEF IInv, FramesOK, OneOwner, NodesOwned, Copies
<1>3. \A a \in DOMAIN node : Holds(a, b) => a = d
  BY <1>1, <1>2 DEF IInv, OneOwner, ArraysOwned
<1>4. ASSUME NEW a \in DOMAIN node, node[a].items = b PROVE FALSE
  BY <1>2, <1>3, <1>4 DEF Holds
<1>5. ASSUME NEW l \in DOMAIN cloning, cloning[l].block = b PROVE l = k
  <2>1. Holds(cloning[l].dst, b) /\ cloning[l].dst \in DOMAIN node
    BY <1>5 DEF Holds, IInv, OneOwner, NodesOwned, Copies
  <2> QED BY <2>1, <1>3 DEF IInv, OneOwner, NodesOwned
<1> QED BY <1>2, <1>4, <1>5

\* The end of value_clone: the copy gets its elements, and goes to the slot it was
\* made for, or to the caller (clone.c:24, 47-50).
LEMMA CloneReturnStep ==
  ASSUME IInv, clone_return
  PROVE  /\ IInv' /\ (SameShape \/ \E a, x : Attached(a, x)) /\ Kept
         /\ (CopiesOK => CopiesOK')
<1> PICK m, top, d, b, n : /\ m = Len(cloning) /\ top = Top(cloning)
                           /\ d = top.dst /\ b = top.block /\ n = node[top.src].n
  OBVIOUS
<1>0. cloning # <<>> /\ top.done = n
  BY DEF clone_return
<1>1. /\ m \in Nat \ {0} /\ DOMAIN cloning = 1 .. m /\ top = cloning[m] /\ top \in CloneFrame
      /\ cloning \in Seq(CloneFrame) /\ freeing = <<>>
      /\ top.src \in DOMAIN node \ DOMAIN copyOf /\ d \in DOMAIN node /\ d \in Copies
  BY <1>0, CopyingTop
<1>2. /\ n \in Nat /\ node[d].items = NULL /\ node[d].n = 0 /\ (b = NULL <=> n = 0)
      /\ b \in Arrays \cup {NULL}
      /\ b # NULL => /\ b \in DOMAIN array /\ array[b] \in Seq(SlotType) /\ Len(array[b]) = n
                     /\ DOMAIN array[b] = 1 .. n
                     /\ \A i \in 1 .. n : array[b][i].val # NULL
  <2>1. n \in Nat /\ b \in Arrays \cup {NULL}
    BY <1>1 DEF IInv, TypeOK, NodeType, CloneFrame
  <2>2. node[d].items = NULL /\ node[d].n = 0 /\ (b = NULL <=> n = 0)
    BY <1>0, CopyingTop
  <2>3. b # NULL => /\ b \in DOMAIN array /\ array[b] \in Seq(SlotType) /\ Len(array[b]) = n
                    /\ DOMAIN array[b] = 1 .. n
                    /\ \A i \in DOMAIN array[b] :
                         IF i > top.done THEN array[b][i] = Zero ELSE array[b][i].val # NULL
    BY <1>0, CopyingTop
  <2> QED BY <2>1, <2>2, <2>3, <1>0
<1>3. d # NULL /\ d # top.src
  BY <1>1, HeapAssumption DEF IInv, TypeOK, Originals
<1>4. /\ DOMAIN node' = DOMAIN node /\ node' = [a \in DOMAIN node' |-> node'[a]]
      /\ \A a \in DOMAIN node : a # d => node'[a] = node[a]
      /\ node'[d] = [node[d] EXCEPT !.items = b, !.n = n]
  BY <1>1 DEF clone_return, IInv, TypeOK
<1>5. /\ node'[d].items = b /\ node'[d].n = n /\ node'[d].text = node[d].text
      /\ node'[d].tag = node[d].tag /\ node'[d] \in NodeType
  <2>1. node[d] \in NodeType
    BY <1>1 DEF IInv, TypeOK
  <2>2. node'[d] = Node(node[d].tag, node[d].text, b, n)
    BY <2>1, <1>4 DEF NodeType, Node
  <2> QED BY <2>1, <2>2, <1>2 DEF NodeType, Node
<1>6. /\ freeing' = <<>> /\ bytes' = bytes /\ copyOf' = copyOf
      /\ cloning' = Below(cloning)
  BY <1>1 DEF clone_return
<1>7. /\ cloning' \in Seq(CloneFrame) /\ Len(cloning') = m - 1 /\ DOMAIN cloning' = 1 .. m - 1
      /\ \A k \in 1 .. m - 1 : cloning'[k] = cloning[k] /\ k \in 1 .. m /\ k # m
      /\ m \in 1 .. m
  BY <1>0, <1>1, <1>6, Popped
<1>8. Copies = Copies' \cup {d} /\ d \notin Copies' /\ \A k \in 1 .. m - 1 : cloning[k].dst # d
  <2>1. \A x : x \in Copies <=> \E k \in 1 .. m : x = cloning[k].dst
    BY <1>1 DEF Copies
  <2>2. \A x : x \in Copies' <=> \E k \in 1 .. m - 1 : x = cloning[k].dst
    BY <1>7 DEF Copies
  <2>3. \A k \in 1 .. m : k = m \/ k \in 1 .. m - 1
    BY <1>1
  <2>4. \A k \in 1 .. m - 1 : cloning[k].dst # d
    <3>1. \A k, l \in 1 .. m : cloning[k].dst = cloning[l].dst => k = l
      BY <1>1 DEF IInv, OneOwner, NodesOwned
    <3> QED BY <3>1, <1>1, <1>7
  <2>5. \A x : x \in Copies <=> x \in Copies' \/ x = d
    BY <2>1, <2>2, <2>3, <1>1, <1>7
  <2> QED BY <2>2, <2>4, <2>5
<1> PICK ub, ui : /\ ub = (IF m = 1 THEN NULL ELSE cloning[m - 1].block)
                  /\ ui = (IF m = 1 THEN 0 ELSE cloning[m - 1].done)
  OBVIOUS
<1>9. ASSUME m # 1
      PROVE  /\ ub # NULL /\ ub # b /\ ub \in DOMAIN array /\ array[ub] \in Seq(SlotType)
             /\ ui \in DOMAIN array[ub] /\ array[ub][ui].val = NULL
             /\ \A a \in DOMAIN node : node[a].items # ub
             /\ \A k \in 1 .. m : cloning[k].block = ub => k = m - 1
             /\ \A i \in DOMAIN array[ub] : IF i > ui THEN array[ub][i] = Zero
                                            ELSE array[ub][i].val = NULL <=> i = ui
  <2> PICK k, f : k = m - 1 /\ f = cloning[k]
    OBVIOUS
  <2>1. k \in 1 .. m /\ k # m /\ k < m /\ f.block = ub /\ f.done = ui
    BY <1>9, <1>1
  <2>2. f \in CloneFrame /\ f.src \in DOMAIN node
    <3>1. k \in 1 .. Len(cloning)
      BY <2>1
    <3>2. f \in CloneFrame
      BY <3>1, <1>1, ElementOfSeq
    <3> QED BY <3>2, <2>1, <1>1 DEF IInv, Originals
  <2>3. ui \in Nat /\ node[f.src].n \in Nat
    BY <2>1, <2>2 DEF CloneFrame, IInv, TypeOK, NodeType
  <2>4. /\ ui <= node[f.src].n /\ ui >= 1 /\ (ub = NULL <=> node[f.src].n = 0)
        /\ ub # NULL =>
             /\ ub \in DOMAIN array /\ Len(array[ub]) = node[f.src].n
             /\ \A i \in DOMAIN array[ub] : IF i > ui THEN array[ub][i] = Zero
                  ELSE array[ub][i].val = NULL <=> i = ui /\ k < m
    BY <2>1, <1>1 DEF IInv, FramesOK
  <2>5. ub # NULL /\ array[ub] \in Seq(SlotType)
    BY SMTT(30), <2>3, <2>4 DEF IInv, TypeOK
  <2>6. ui \in DOMAIN array[ub]
    <3>1. Len(array[ub]) = node[f.src].n /\ DOMAIN array[ub] = 1 .. Len(array[ub])
      BY <2>4, <2>5, LenProperties
    <3>2. ui \in 1 .. node[f.src].n
      BY <2>3, <2>4
    <3> QED BY <3>1, <3>2
  <2>7. /\ \A a \in DOMAIN node : node[a].items # ub
        /\ \A l \in 1 .. m : cloning[l].block = ub => l = k
    BY <2>1, <2>5, <1>1, BlocksInFilling
  <2>8. ub # b
    BY <2>1, <2>7, <1>1, <1>7
  <2>9. \A i \in DOMAIN array[ub] : IF i > ui THEN array[ub][i] = Zero
                                     ELSE array[ub][i].val = NULL <=> i = ui
    BY <2>1, <2>4, <2>5
  <2>10. array[ub][ui].val = NULL
    <3>1. ~(ui > ui)
      BY <2>3
    <3> QED BY <3>1, <2>6, <2>9
  <2> QED BY <2>4, <2>5, <2>6, <2>7, <2>8, <2>9, <2>10
<1>r. roots' = (IF m = 1 THEN roots \cup {d} ELSE roots)
  BY DEF clone_return
<1>10. /\ DOMAIN array' = DOMAIN array /\ array' \in [DOMAIN array -> Seq(SlotType)]
       /\ \A c \in DOMAIN array : c # ub => array'[c] = array[c]
       /\ \A c \in DOMAIN array :
            /\ DOMAIN array'[c] = DOMAIN array[c] /\ Len(array'[c]) = Len(array[c])
            /\ \A i \in DOMAIN array[c] :
                 /\ array'[c][i].skey = array[c][i].skey
                 /\ array'[c][i].key = array[c][i].key /\ array'[c][i].ikey = array[c][i].ikey
                 /\ array'[c][i].val = (IF c = ub /\ i = ui THEN d ELSE array[c][i].val)
                 /\ ~(c = ub /\ i = ui) => array'[c][i] = array[c][i]
  <2>1. CASE m = 1
    <3>1. array' = array /\ ub \notin DOMAIN array
      BY <2>1, HeapAssumption DEF clone_return, IInv, TypeOK
    <3> QED BY <3>1 DEF IInv, TypeOK
  <2>2. CASE m # 1
    <3>e. PICK e : e = [array[ub][ui] EXCEPT !.val = d]
      OBVIOUS
    <3>1. Top(Below(cloning)) = cloning[m - 1]
      <4>1. m - 1 \in 1 .. m - 1
        BY <2>2, <1>1
      <4> QED BY <4>1, <1>6, <1>7 DEF Top
    <3>2. array' = [array EXCEPT ![ub][ui].val = d]
      BY <2>2, <3>1 DEF clone_return
    <3>3. /\ array[ub][ui] \in SlotType /\ array[ub] \in Seq(SlotType)
          /\ ui \in 1 .. Len(array[ub]) /\ ub \in DOMAIN array
      BY SMTT(30), <2>2, <1>9, SlotsOf
    <3>4. /\ e \in SlotType /\ e.val = d /\ e.skey = array[ub][ui].skey
          /\ e.key = array[ub][ui].key /\ e.ikey = array[ub][ui].ikey
      BY <3>e, <3>3, <1>1 DEF SlotType, IInv, TypeOK
    <3>5. /\ DOMAIN array' = DOMAIN array /\ array' = [c \in DOMAIN array |-> array'[c]]
          /\ \A c \in DOMAIN array : c # ub => array'[c] = array[c]
          /\ array'[ub] = [array[ub] EXCEPT ![ui] = e]
      BY <3>e, <3>2, <3>3
    <3>6. /\ array'[ub] \in Seq(SlotType) /\ Len(array'[ub]) = Len(array[ub])
          /\ \A i \in 1 .. Len(array[ub]) : array'[ub][i] = IF i = ui THEN e ELSE array[ub][i]
      <4>0. PICK s, t : s = array[ub] /\ t = array'[ub]
        OBVIOUS
      <4>1. s \in Seq(SlotType) /\ ui \in 1 .. Len(s) /\ e \in SlotType
        BY <4>0, <3>3, <3>4
      <4>2. t = [s EXCEPT ![ui] = e]
        BY <4>0, <3>5
      <4>3. t \in Seq(SlotType) /\ Len(t) = Len(s) /\ \A i \in 1 .. Len(s) : t[i] = IF i = ui THEN e ELSE s[i]
        BY <4>1, <4>2, SetSlot
      <4> QED BY <4>0, <4>3
    <3>7. DOMAIN array'[ub] = DOMAIN array[ub] /\ DOMAIN array[ub] = 1 .. Len(array[ub])
      <4>1. \A s \in Seq(SlotType) : DOMAIN s = 1 .. Len(s)
        BY LenProperties
      <4> QED BY ZenonT(60), <4>1, <3>3, <3>6
    <3>8. \A c \in DOMAIN array : array'[c] \in Seq(SlotType)
      BY <3>5, <3>6 DEF IInv, TypeOK
    <3>9. ASSUME NEW c \in DOMAIN array
          PROVE  /\ DOMAIN array'[c] = DOMAIN array[c] /\ Len(array'[c]) = Len(array[c])
                 /\ \A i \in DOMAIN array[c] :
                   /\ array'[c][i].skey = array[c][i].skey
                   /\ array'[c][i].key = array[c][i].key /\ array'[c][i].ikey = array[c][i].ikey
                   /\ array'[c][i].val = (IF c = ub /\ i = ui THEN d ELSE array[c][i].val)
                   /\ ~(c = ub /\ i = ui) => array'[c][i] = array[c][i]
      <4>1. CASE c = ub
        <5>1. DOMAIN array'[c] = DOMAIN array[c] /\ Len(array'[c]) = Len(array[c])
          BY <4>1, <3>6, <3>7
        <5>2. \A i \in DOMAIN array[ub] : array'[ub][i] = IF i = ui THEN e ELSE array[ub][i]
          BY <3>6, <3>7
        <5> QED BY ZenonT(60), <4>1, <5>1, <5>2, <3>4
      <4>2. CASE c # ub
        BY <4>2, <3>5
      <4> QED BY SMTT(30), <4>1, <4>2
    <3> QED BY <3>5, <3>8, <3>9
  <2> QED BY <2>1, <2>2
<1>11. \A a \in DOMAIN node : a # d => Slots(a)' = Slots(a)
  <2>1. ASSUME NEW a \in DOMAIN node, a # d PROVE Slots(a)' = Slots(a)
    <3> PICK c : c = node[a].items
      OBVIOUS
    <3>1. node'[a].items = c /\ (c = NULL \/ c \in DOMAIN array)
      BY <2>1, <1>4 DEF IInv, TypeOK
    <3>2. c = NULL \/ c # ub
      BY <1>9
    <3> QED BY <3>1, <3>2, <1>10 DEF Slots
  <2> QED BY <2>1
<1>12. /\ Slots(d)' = (IF b = NULL THEN <<>> ELSE array[b]) /\ Slots(d) = <<>>
       /\ b # NULL => array'[b] = array[b]
  <2>1. b # NULL => b \in DOMAIN array /\ b # ub
    BY <1>2, <1>9
  <2> QED BY <2>1, <1>2, <1>5, <1>10 DEF Slots
<1>v. /\ Freed = {} /\ Freed' = {} /\ DOMAIN freeing' = {}
      /\ \A a : TextAt(a) = node[a].text /\ TextAt(a)' = node'[a].text
      /\ \A c, i : /\ ValAt(c, i) = array[c][i].val /\ KeyAt(c, i) = array[c][i].skey
                   /\ ValAt(c, i)' = array'[c][i].val /\ KeyAt(c, i)' = array'[c][i].skey
  <2>1. freeing = <<>> /\ freeing' = <<>>
    BY <1>1, <1>6
  <2> QED BY <2>1, NothingFreed, NothingFreedNext
<1>13. ASSUME NEW c \in DOMAIN array, NEW i \in DOMAIN array[c]
       PROVE  /\ KeyAt(c, i)' = KeyAt(c, i)
              /\ ValAt(c, i)' = (IF c = ub /\ i = ui THEN d ELSE ValAt(c, i))
              /\ (c = ub /\ i = ui) => ValAt(c, i) = NULL
              /\ ValAt(c, i) # d
  <2>1. /\ KeyAt(c, i)' = KeyAt(c, i)
        /\ ValAt(c, i)' = (IF c = ub /\ i = ui THEN d ELSE ValAt(c, i))
    BY <1>10, <1>v
  <2>2. (c = ub /\ i = ui) => ValAt(c, i) = NULL
    <3>1. ub = NULL => c # ub
      BY HeapAssumption DEF IInv, TypeOK
    <3> QED BY <3>1, <1>9, <1>v
  <2>3. ValAt(c, i) # d
    BY <1>1, <1>3 DEF IInv, OneOwner, NodesOwned
  <2> QED BY <2>1, <2>2, <2>3
<1>14. \A a \in DOMAIN node : \A c \in DOMAIN array : Holds(a, c)' <=> Holds(a, c)
  <2>1. ASSUME NEW a \in DOMAIN node, NEW c \in DOMAIN array
        PROVE  Holds(a, c)' <=> Holds(a, c)
    <3>0. c # NULL
      BY HeapAssumption DEF IInv, TypeOK
    <3>1. Holds(a, c) <=> node[a].items = c \/ \E k \in 1 .. m : cloning[k].dst = a /\ cloning[k].block = c
      BY <1>1 DEF Holds
    <3>2. Holds(a, c)' <=> node'[a].items = c \/ \E k \in 1 .. m - 1 : cloning[k].dst = a /\ cloning[k].block = c
      BY <1>7 DEF Holds
    <3>3. \A k \in 1 .. m : k = m \/ k \in 1 .. m - 1
      BY <1>1
    <3>4. CASE a = d
      <4>1. Holds(a, c) <=> b = c
        BY ZenonT(60), <3>0, <3>1, <3>3, <3>4, <1>1, <1>2, <1>7, <1>8
      <4>2. Holds(a, c)' <=> b = c
        BY <3>2, <3>4, <1>5, <1>8
      <4> QED BY <4>1, <4>2
    <3>5. CASE a # d
      <4>1. node'[a].items = node[a].items /\ cloning[m].dst # a
        BY <3>5, <1>1, <1>4
      <4> QED BY <3>1, <3>2, <3>3, <4>1, <1>7
    <3> QED BY <3>4, <3>5
  <2> QED BY <2>1
<1>15. TypeOK'
  <2>1. \A a \in DOMAIN node' : node'[a] \in NodeType
    BY <1>4, <1>5 DEF IInv, TypeOK
  <2>2. node' \in [DOMAIN node' -> NodeType]
    BY <2>1, <1>4
  <2>3. roots' \subseteq DOMAIN node'
    BY <1>1, <1>4, <1>r DEF IInv, TypeOK
  <2>4. ASSUME NEW a \in DOMAIN node'
        PROVE  /\ node'[a].items # NULL => node'[a].items \in DOMAIN array'
               /\ node'[a].n <= Len(Slots(a)')
               /\ \A i \in DOMAIN Slots(a)' : IF i <= node'[a].n
                    THEN Slots(a)'[i].val # NULL ELSE Slots(a)'[i] = Zero
    <3>1. CASE a = d
      <4>1. CASE b = NULL
        BY <3>1, <4>1, <1>2, <1>5, <1>12
      <4>2. CASE b # NULL
        BY <3>1, <4>2, <1>2, <1>5, <1>10, <1>12
      <4> QED BY <4>1, <4>2
    <3>2. CASE a # d
      BY <3>2, <1>4, <1>10, <1>11 DEF IInv, TypeOK
    <3> QED BY <3>1, <3>2
  <2>5. DOMAIN node' \subseteq Nodes /\ DOMAIN array' \subseteq Arrays /\ DOMAIN bytes' \subseteq Bytes
    BY <1>4, <1>6, <1>10 DEF IInv, TypeOK
  <2>6. bytes' \in [DOMAIN bytes' -> Strings]
    BY <1>6 DEF IInv, TypeOK
  <2> QED BY <2>2, <2>3, <2>4, <2>5, <2>6, <1>10 DEF TypeOK
<1>16. NodesOwned'
  <2>1. ASSUME NEW x \in DOMAIN node'
        PROVE  \/ x \in roots' \cup Freed' \cup Copies'
               \/ \E c \in DOMAIN array' : \E i \in DOMAIN array'[c] : ValAt(c, i)' = x
    <3>1. CASE x \in roots \cup Copies'
      BY <3>1, <1>r
    <3>2. CASE x = d
      <4>1. CASE m = 1
        BY <3>2, <4>1, <1>r
      <4>2. CASE m # 1
        BY <3>2, <4>2, <1>9, <1>10, <1>13
      <4> QED BY <4>1, <4>2
    <3>3. CASE \E c \in DOMAIN array : \E i \in DOMAIN array[c] : ValAt(c, i) = x
      <4>1. PICK c \in DOMAIN array : \E i \in DOMAIN array[c] : ValAt(c, i) = x
        BY <3>3
      <4>2. PICK i \in DOMAIN array[c] : ValAt(c, i) = x
        BY <4>1
      <4>3. x # NULL
        BY <1>4, HeapAssumption DEF IInv, TypeOK
      <4>4. ValAt(c, i)' = x
        BY <4>2, <4>3, <1>13
      <4> QED BY <4>4, <1>10
    <3> QED BY <3>1, <3>2, <3>3, <1>4, <1>8, <1>v DEF IInv, OneOwner, NodesOwned
  <2>2. ASSUME NEW c \in DOMAIN array', NEW i \in DOMAIN array'[c], ValAt(c, i)' # NULL
        PROVE  /\ ValAt(c, i)' \in DOMAIN node /\ ValAt(c, i)' \notin roots' \cup Freed' \cup Copies'
               /\ \A e \in DOMAIN array' : \A j \in DOMAIN array'[e] :
                    ValAt(c, i)' = ValAt(e, j)' => c = e /\ i = j
    <3>0. c \in DOMAIN array /\ i \in DOMAIN array[c]
      BY <1>10
    <3>1. CASE c = ub /\ i = ui
      <4>1. ValAt(c, i)' = d /\ m # 1
        BY <3>0, <3>1, <1>13, HeapAssumption DEF IInv, TypeOK
      <4>2. d \notin roots \cup Copies'
        BY <1>1, <1>8 DEF IInv, OneOwner, NodesOwned
      <4>3. ASSUME NEW e \in DOMAIN array', NEW j \in DOMAIN array'[e], d = ValAt(e, j)'
            PROVE  c = e /\ i = j
        BY SMTT(30), <3>1, <4>3, <1>10, <1>13
      <4> QED BY <4>1, <4>2, <4>3, <1>1, <1>r, <1>v
    <3>2. CASE ~(c = ub /\ i = ui)
      <4>1. ValAt(c, i)' = ValAt(c, i) /\ ValAt(c, i) # d
        BY <3>0, <3>2, <1>13
      <4>2. array[c][i] \in SlotType
        BY <3>0, SlotsOf DEF IInv, TypeOK
      <4>3. ValAt(c, i) \in Nodes
        BY <2>2, <4>1, <4>2, <1>v DEF SlotType
      <4>4. ValAt(c, i) \in DOMAIN node /\ ValAt(c, i) \notin roots \cup Copies
        BY <2>2, <3>0, <4>1, <4>3 DEF IInv, OneOwner, NodesOwned
      <4>5. ASSUME NEW e \in DOMAIN array', NEW j \in DOMAIN array'[e], ValAt(c, i)' = ValAt(e, j)'
            PROVE  c = e /\ i = j
        <5>1. e \in DOMAIN array /\ j \in DOMAIN array[e] /\ ValAt(e, j)' = ValAt(e, j)
          BY <4>1, <4>5, <1>10, <1>13
        <5> QED BY ZenonT(60), <2>2, <3>0, <4>1, <4>5, <5>1 DEF IInv, OneOwner, NodesOwned
      <4> QED BY <4>1, <4>4, <4>5, <1>8, <1>r, <1>v
    <3> QED BY <3>1, <3>2
  <2>3. roots' \cup Freed' \cup Copies' \subseteq DOMAIN node' /\ DOMAIN node' \subseteq Nodes
    BY <1>1, <1>4, <1>8, <1>r, <1>v DEF IInv, OneOwner, NodesOwned, TypeOK
  <2>4. {x \in Nodes : \E c \in DOMAIN array' : \E i \in DOMAIN array'[c] : ValAt(c, i)' = x}
          \subseteq DOMAIN node'
    BY <2>2, <1>4, HeapAssumption
  <2>5. DOMAIN node' = roots' \cup Freed' \cup Copies' \cup
          {x \in Nodes : \E c \in DOMAIN array' : \E i \in DOMAIN array'[c] : ValAt(c, i)' = x}
    BY <2>1, <2>3, <2>4
  <2>6. roots' \cap (Freed' \cup Copies') = {} /\ Freed' \cap Copies' = {}
    BY <1>8, <1>r, <1>v DEF IInv, OneOwner, NodesOwned
  <2>7. \A k, l \in DOMAIN freeing' : freeing'[k].at = freeing'[l].at => k = l
    BY <1>v
  <2>8. \A k, l \in DOMAIN cloning' : cloning'[k].dst = cloning'[l].dst => k = l
    <3>1. \A k, l \in 1 .. m : cloning[k].dst = cloning[l].dst => k = l
      BY <1>1 DEF IInv, OneOwner, NodesOwned
    <3> QED BY <3>1, <1>7
  <2>9. ASSUME NEW c \in DOMAIN array', NEW i \in DOMAIN array'[c], ValAt(c, i)' # NULL
        PROVE  /\ ValAt(c, i)' \notin roots' \cup Freed' \cup Copies'
               /\ \A e \in DOMAIN array' : \A j \in DOMAIN array'[e] :
                    ValAt(c, i)' = ValAt(e, j)' => c = e /\ i = j
    BY <2>2, <2>9
  <2> QED BY <2>5, <2>6, <2>7, <2>8, <2>9 DEF NodesOwned
<1>17. ArraysOwned'
  <2>1. \A k \in DOMAIN cloning' : cloning'[k].block \in DOMAIN array' \cup {NULL}
    BY <1>1, <1>7, <1>10 DEF IInv, OneOwner, ArraysOwned
  <2> QED BY <2>1, <1>4, <1>10, <1>14 DEF IInv, OneOwner, ArraysOwned
<1>18. BytesOwned'
  <2>1. \A a \in DOMAIN node : TextAt(a)' = TextAt(a)
    BY <1>4, <1>5, <1>v
  <2>2. \A c \in DOMAIN array : \A i \in DOMAIN array[c] : KeyAt(c, i)' = KeyAt(c, i)
    BY <1>13
  <2>3. \A c \in DOMAIN array : DOMAIN array'[c] = DOMAIN array[c]
    BY <1>10
  <2>4. DOMAIN array' = DOMAIN array
    BY <1>10
  <2> QED BY <2>1, <2>2, <2>3, <2>4, <1>4, <1>6 DEF IInv, OneOwner, BytesOwned
<1>19. FramesOK'
  <2>1. ASSUME NEW k \in DOMAIN cloning', NEW f, f = cloning'[k]
        PROVE  /\ node'[f.dst].items = NULL /\ node'[f.dst].n = 0
               /\ f.done <= node'[f.src].n /\ (k < m - 1 => f.done >= 1)
               /\ f.block = NULL <=> node'[f.src].n = 0
               /\ f.block # NULL =>
                    /\ f.block \in DOMAIN array'
                    /\ Len(array'[f.block]) = node'[f.src].n
                    /\ \A i \in DOMAIN array'[f.block] :
                         IF i > f.done THEN array'[f.block][i] = Zero
                         ELSE array'[f.block][i].val = NULL <=> i = f.done /\ k < m - 1
    <3>1. f = cloning[k] /\ k \in 1 .. m /\ k # m /\ f.dst # d /\ k < m /\ k \in 1 .. m - 1
      BY SMTT(30), <2>1, <1>1, <1>7, <1>8
    <3>2. f.src \in DOMAIN node /\ f.src # d /\ f.dst \in DOMAIN node
      BY <3>1, <1>1 DEF IInv, Originals, OneOwner, NodesOwned, Copies
    <3>3. node'[f.src] = node[f.src] /\ node'[f.dst] = node[f.dst]
      BY <3>1, <3>2, <1>4
    <3>4. /\ node[f.dst].items = NULL /\ node[f.dst].n = 0
          /\ f.done <= node[f.src].n /\ f.done >= 1
          /\ f.block = NULL <=> node[f.src].n = 0
      BY <3>1, <1>1 DEF IInv, FramesOK
    <3>5. ASSUME f.block # NULL
          PROVE  /\ f.block \in DOMAIN array /\ Len(array[f.block]) = node[f.src].n
                 /\ \A i \in DOMAIN array[f.block] :
                      IF i > f.done THEN array[f.block][i] = Zero
                      ELSE array[f.block][i].val = NULL <=> i = f.done
      BY <3>1, <3>5, <1>1 DEF IInv, FramesOK
    <3>6. ASSUME f.block # NULL, NEW i \in DOMAIN array'[f.block]
          PROVE  IF i > f.done THEN array'[f.block][i] = Zero
                 ELSE array'[f.block][i].val = NULL <=> i = f.done /\ k < m - 1
      <4>1. CASE k = m - 1
        <5>1. m # 1 /\ f.block = ub /\ f.done = ui
          BY <3>1, <4>1, <1>1
        <5>2. i \in DOMAIN array[ub]
          BY <5>1, <1>9, <1>10
        <5>3. CASE i = ui
          <6>1. ~(i > ui) /\ ~(k < m - 1)
            BY <5>1, <5>3, <3>4, <4>1, <1>1, <1>9, SlotsOf
          <6>2. array'[ub][i].val = d
            BY <5>1, <5>2, <5>3, <1>9, <1>10
          <6> QED BY <5>1, <6>1, <6>2, <1>3
        <5>4. CASE i # ui
          <6>1. array'[ub][i] = array[ub][i]
            BY <5>1, <5>2, <5>4, <1>9, <1>10
          <6>2. IF i > ui THEN array[ub][i] = Zero ELSE array[ub][i].val = NULL <=> i = ui
            BY <5>1, <5>2, <1>9
          <6> QED BY <5>1, <5>4, <6>1, <6>2
        <5> QED BY <5>3, <5>4
      <4>2. CASE k # m - 1
        <5>1. k < m - 1 /\ f.block # ub
          <6>1. k < m - 1
            BY SMTT(30), <3>1, <4>2, <1>1
          <6>2. m # 1
            BY <6>1, <3>1
          <6> QED BY <6>1, <6>2, <3>1, <4>2, <1>9
        <5>2. array'[f.block] = array[f.block]
          BY <5>1, <3>5, <3>6, <1>10
        <5> QED BY <5>1, <5>2, <3>5, <3>6
      <4> QED BY <4>1, <4>2
    <3>7. f.block # NULL => f.block \in DOMAIN array' /\ Len(array'[f.block]) = node[f.src].n
      BY <3>5, <1>10
    <3> QED BY <3>3, <3>4, <3>6, <3>7
  <2> QED BY <2>1, <1>6, <1>7, <1>v, EmptySeq DEF FramesOK, IInv
<1>20. Originals'
  <2>1. DOMAIN copyOf \subseteq DOMAIN node /\ Copies' \subseteq DOMAIN copyOf /\ d \in DOMAIN copyOf
    BY <1>1, <1>8 DEF IInv, Originals
  <2>2. \A k \in DOMAIN cloning' : cloning'[k].src \in DOMAIN node \ DOMAIN copyOf
    BY <1>1, <1>7 DEF IInv, Originals
  <2>3. \A a \in DOMAIN node \ DOMAIN copyOf :
          \A i \in DOMAIN Slots(a)' : Slots(a)'[i].val \notin DOMAIN copyOf
    BY <2>1, <1>11 DEF IInv, Originals
  <2> QED BY <2>1, <2>2, <2>3, <1>4, <1>6 DEF Originals
<1>21. SameShape \/ \E a, x : Attached(a, x)
  <2>0. Tops = roots \cup Copies /\ Tops' = roots' \cup Copies'
    BY <1>v DEF Tops
  <2>1. ASSUME NEW a \in DOMAIN node, NEW x \in DOMAIN node
        PROVE  IsElement(x, a)' <=> IsElement(x, a) \/ (m # 1 /\ x = d /\ Holds(a, ub))
    <3>0. x # NULL
      BY HeapAssumption DEF IInv, TypeOK
    <3>1. ASSUME IsElement(x, a)' PROVE IsElement(x, a) \/ (m # 1 /\ x = d /\ Holds(a, ub))
      <4>1. PICK c \in DOMAIN array : Holds(a, c)' /\ \E i \in DOMAIN array'[c] : ValAt(c, i)' = x
        BY <3>1, <1>10 DEF IsElement
      <4>2. PICK i \in DOMAIN array[c] : ValAt(c, i)' = x
        BY <4>1, <1>10
      <4>3. Holds(a, c)
        BY <4>1, <1>14
      <4>4. CASE c = ub /\ i = ui
        <5>1. m # 1
          BY <4>4, HeapAssumption DEF IInv, TypeOK
        <5> QED BY <5>1, <4>2, <4>3, <4>4, <1>13
      <4>5. CASE ~(c = ub /\ i = ui)
        BY <4>2, <4>3, <4>5, <1>13 DEF IsElement
      <4> QED BY <4>4, <4>5
    <3>2. ASSUME IsElement(x, a) PROVE IsElement(x, a)'
      <4>1. PICK c \in DOMAIN array : Holds(a, c) /\ \E i \in DOMAIN array[c] : ValAt(c, i) = x
        BY <3>2 DEF IsElement
      <4>2. PICK i \in DOMAIN array[c] : ValAt(c, i) = x
        BY <4>1
      <4>3. Holds(a, c)' /\ ValAt(c, i)' = x /\ c \in DOMAIN array' /\ i \in DOMAIN array'[c]
        BY <3>0, <4>1, <4>2, <1>10, <1>13, <1>14
      <4> QED BY <4>3 DEF IsElement
    <3>3. ASSUME m # 1, x = d, Holds(a, ub) PROVE IsElement(x, a)'
      <4>1. ub \in DOMAIN array /\ ui \in DOMAIN array[ub]
        BY <3>3, <1>9
      <4>2. Holds(a, ub)' /\ ValAt(ub, ui)' = d /\ ub \in DOMAIN array' /\ ui \in DOMAIN array'[ub]
        BY <3>3, <4>1, <1>10, <1>13, <1>14
      <4> QED BY <3>3, <4>2 DEF IsElement
    <3> QED BY <3>1, <3>2, <3>3
  <2>2. CASE m = 1
    <3>1. Tops' = Tops
      BY <2>0, <2>2, <1>8, <1>r
    <3> QED BY <2>1, <2>2, <3>1, <1>4 DEF SameShape
  <2>3. CASE m # 1
    <3>1. PICK a : a = cloning[m - 1].dst
      OBVIOUS
    <3>2. m - 1 \in 1 .. m /\ m - 1 \in DOMAIN cloning' /\ cloning'[m - 1] = cloning[m - 1]
      BY SMTT(30), <2>3, <1>1, <1>7
    <3>3. a \in Copies' /\ a \in DOMAIN node /\ Holds(a, ub)
      BY SMTT(30), <2>3, <3>1, <3>2, <1>1, <1>8 DEF Copies, Holds, IInv, OneOwner, NodesOwned
    <3>4. \A x \in DOMAIN node : Holds(x, ub) => x = a
      BY <2>3, <3>3, <1>9 DEF IInv, OneOwner, ArraysOwned
    <3>5. Tops' = Tops \ {d} /\ d \in Tops
      BY <2>0, <2>3, <1>1, <1>8, <1>r DEF IInv, OneOwner, NodesOwned
    <3>6. a \in Tops'
      BY <2>0, <3>3
    <3>7. Attached(a, d)
      BY <2>1, <2>3, <3>3, <3>4, <3>5, <3>6, <1>4 DEF Attached
    <3> QED BY <3>7
  <2> QED BY <2>2, <2>3
<1>22. ASSUME NEW a \in DOMAIN node, a # d PROVE Shows(a)' = Shows(a)
  <2>1. PICK c : c = node[a].items
    OBVIOUS
  <2>2. ASSUME NEW i \in 1 .. node[a].n PROVE array'[c][i] = array[c][i]
    <3>1. c \in DOMAIN array
      BY <2>1, <2>2, ElementIsThere DEF IInv
    <3>2. c # ub
      <4>1. m = 1 => ub \notin DOMAIN array
        BY HeapAssumption DEF IInv, TypeOK
      <4> QED BY <2>1, <3>1, <4>1, <1>9
    <3> QED BY <3>1, <3>2, <1>10
  <2>3. node'[a] = node[a] /\ freeing = <<>> /\ \A q \in DOMAIN bytes : bytes'[q] = bytes[q]
    BY <1>1, <1>4, <1>6, <1>22
  <2> QED BY <2>1, <2>2, <2>3, ShowsKeptAtRest
<1>23. Kept
  <2>1. Sealed({d}) /\ {d} \subseteq DOMAIN node
    BY <1>1, TopsAreSealed DEF Tops
  <2>2. LeavesAlone({d})
    BY <2>1, <1>4, <1>22 DEF LeavesAlone
  <2>3. d \notin roots
    BY <1>1 DEF IInv, OneOwner, NodesOwned
  <2> QED BY <2>2, <2>3 DEF Kept
<1>24. ASSUME CopiesOK PROVE CopiesOK'
  <2>1. ASSUME NEW e \in DOMAIN array, NEW i \in DOMAIN array[e], ~(e = ub /\ i = ui)
        PROVE  Element(e, i)' = Element(e, i)
    <3>1. array'[e][i] = array[e][i]
      BY <2>1, <1>10
    <3>2. PICK q : q = array[e][i].skey
      OBVIOUS
    <3>3. bytes'[q] = bytes[q]
      BY <1>6
    <3> QED BY <3>1, <3>2, <3>3, ElementKept
  <2>2. m # 1 => LET e == Element(ub, ui) IN
                   /\ SameKey(e', e) /\ e'.val = d
    <3>1. SUFFICES ASSUME m # 1
                   PROVE  SameKey(Element(ub, ui)', Element(ub, ui)) /\ Element(ub, ui)'.val = d
      OBVIOUS
    <3>2. /\ array'[ub][ui].key = array[ub][ui].key /\ array'[ub][ui].ikey = array[ub][ui].ikey
          /\ array'[ub][ui].skey = array[ub][ui].skey /\ array'[ub][ui].val = d
      BY <3>1, <1>9, <1>10
    <3>3. Text(array[ub][ui].skey)' = Text(array[ub][ui].skey)
      BY <3>2, <1>6 DEF Text
    <3> QED BY <3>2, <3>3 DEF Element, SameKey
  <2>3. /\ \A a \in DOMAIN node : a # d => Label(a)' = Label(a) /\ Elements(a)' = Elements(a)
        /\ Label(d)' = Label(d) /\ Elements(d)' = [i \in 1 .. n |-> Element(b, i)]
    <3>1. \A a \in DOMAIN node : a # d => Label(a)' = Label(a) /\ Elements(a)' = Elements(a)
      BY <1>22, ShowsBoth
    <3>2. Label(d)' = Label(d)
      <4>1. Text(node[d].text)' = Text(node[d].text)
        BY <1>5, <1>6 DEF Text
      <4> QED BY <1>5, <4>1 DEF Label
    <3>3. ASSUME NEW i \in 1 .. n PROVE Element(b, i)' = Element(b, i)
      <4>1. b # NULL
        BY <3>3, <1>2
      <4>2. b \in DOMAIN array /\ i \in DOMAIN array[b] /\ b # ub
        <5>1. m = 1 => ub \notin DOMAIN array
          BY HeapAssumption DEF IInv, TypeOK
        <5> QED BY <3>3, <4>1, <5>1, <1>2, <1>9
      <4> QED BY <4>2, <2>1
    <3>4. Elements(d)' = [i \in 1 .. n |-> Element(b, i)']
      BY <1>5 DEF Elements
    <3> QED BY <3>1, <3>2, <3>3, <3>4
  <2>4. \A x, y : HasCopy(x, y)' <=> HasCopy(x, y)
    BY <1>6 DEF HasCopy
  <2>5. /\ copyOf[d] = top.src /\ d \in DOMAIN copyOf
        /\ \A i \in 1 .. n :
             /\ SameKey(Element(b, i), Elements(top.src)[i])
             /\ Element(b, i).val # NULL => HasCopy(Elements(top.src)[i].val, Element(b, i).val)
    <3>1. m \in DOMAIN cloning /\ b = cloning[m].block /\ top.src = cloning[m].src
          /\ n = cloning[m].done /\ d = cloning[m].dst
      BY <1>0, <1>1, <1>7
    <3>2. d \in DOMAIN copyOf
      BY <1>1 DEF IInv, Originals
    <3> QED BY <3>1, <3>2, <1>24 DEF CopiesOK
  <2>6. ASSUME NEW x \in DOMAIN copyOf', NEW s, s = copyOf'[x]
        PROVE  /\ s \in DOMAIN node' \ DOMAIN copyOf' /\ Label(x)' = Label(s)'
               /\ x \notin Copies' =>
                    /\ DOMAIN Elements(x)' = DOMAIN Elements(s)'
                    /\ \A i \in DOMAIN Elements(x)' :
                         /\ SameKey(Elements(x)'[i], Elements(s)'[i])
                         /\ HasCopy(Elements(s)[i].val, Elements(x)[i].val)'
    <3>1. x \in DOMAIN copyOf /\ s = copyOf[x] /\ x \in DOMAIN node
      BY <2>6, <1>6 DEF IInv, Originals
    <3>2. s \in DOMAIN node \ DOMAIN copyOf /\ Label(x) = Label(s)
      BY <3>1, <1>24 DEF CopiesOK
    <3>3. s # d /\ Elements(s)' = Elements(s) /\ Label(s)' = Label(s)
      BY <3>2, <2>3, <2>5
    <3>4. s \in DOMAIN node' \ DOMAIN copyOf' /\ Label(x)' = Label(s)'
      BY <3>1, <3>2, <3>3, <2>3, <1>4, <1>6
    <3>5. ASSUME x \notin Copies'
          PROVE  /\ DOMAIN Elements(x)' = DOMAIN Elements(s)'
                 /\ \A i \in DOMAIN Elements(x)' :
                      /\ SameKey(Elements(x)'[i], Elements(s)'[i])
                      /\ HasCopy(Elements(s)[i].val, Elements(x)[i].val)'
      <4>1. CASE x = d
        <5>1. s = top.src
          BY <3>1, <4>1, <2>5
        <5>2. DOMAIN Elements(s) = 1 .. n
          BY <5>1 DEF Elements
        <5>3. ASSUME NEW i \in 1 .. n
              PROVE  /\ SameKey(Elements(x)'[i], Elements(s)'[i])
                     /\ HasCopy(Elements(s)[i].val, Elements(x)[i].val)'
          <6>1. Elements(x)'[i] = Element(b, i)
            BY <4>1, <2>3
          <6>2. Element(b, i).val # NULL
            <7>1. b # NULL
              BY <5>3, <1>2
            <7> QED BY <7>1, <1>2 DEF Element
          <6> QED BY <6>1, <6>2, <5>1, <3>3, <2>4, <2>5
        <5>4. DOMAIN Elements(x)' = 1 .. n
          BY <4>1, <2>3
        <5> QED BY <5>2, <5>3, <5>4, <3>3
      <4>2. CASE x # d
        <5>1. x \notin Copies /\ Elements(x)' = Elements(x)
          BY <3>1, <3>5, <4>2, <1>8, <2>3
        <5>2. /\ DOMAIN Elements(x) = DOMAIN Elements(s)
              /\ \A i \in DOMAIN Elements(x) :
                   /\ SameKey(Elements(x)[i], Elements(s)[i])
                   /\ HasCopy(Elements(s)[i].val, Elements(x)[i].val)
          BY <3>1, <5>1, <1>24 DEF CopiesOK
        <5> QED BY <5>1, <5>2, <3>3, <2>4
      <4> QED BY <4>1, <4>2
    <3> QED BY <3>4, <3>5
  <2>7. ASSUME NEW k \in DOMAIN cloning', NEW c, NEW s, NEW o, c = cloning'[k].block,
               s = cloning'[k].src, o = cloning'[k].done
        PROVE  /\ copyOf'[cloning'[k].dst] = s
               /\ k < Len(cloning') => cloning'[k + 1].src = Elements(s)'[o].val
               /\ \A i \in 1 .. o :
                    /\ SameKey(Element(c, i)', Elements(s)'[i])
                    /\ Element(c, i)'.val # NULL => HasCopy(Elements(s)[i].val, Element(c, i).val)'
    <3>1. k \in 1 .. m - 1 /\ k \in DOMAIN cloning /\ cloning'[k] = cloning[k] /\ k < m
      BY <1>1, <1>7
    <3>2. c = cloning[k].block /\ s = cloning[k].src /\ o = cloning[k].done
      BY <2>7, <3>1
    <3>3. s \in DOMAIN node /\ s \notin DOMAIN copyOf /\ s # d
      BY <3>1, <3>2, <2>5 DEF IInv, Originals
    <3>4. Elements(s)' = Elements(s)
      BY <3>3, <2>3
    <3>5. /\ copyOf[cloning[k].dst] = s
          /\ k < Len(cloning) => cloning[k + 1].src = Elements(s)[o].val
          /\ \A i \in 1 .. o :
               /\ SameKey(Element(c, i), Elements(s)[i])
               /\ Element(c, i).val # NULL => HasCopy(Elements(s)[i].val, Element(c, i).val)
      BY <3>1, <3>2, <1>24 DEF CopiesOK
    <3>6. k < Len(cloning') => cloning'[k + 1].src = Elements(s)'[o].val
      <4>1. SUFFICES ASSUME k < Len(cloning') PROVE cloning'[k + 1].src = Elements(s)'[o].val
        OBVIOUS
      <4>2. k + 1 \in 1 .. m - 1 /\ k < Len(cloning)
        BY SMTT(30), <3>1, <4>1, <1>1, <1>7
      <4> QED BY <4>2, <3>4, <3>5, <1>7
    <3>7. ASSUME NEW i \in 1 .. o
          PROVE  /\ SameKey(Element(c, i)', Elements(s)'[i])
                 /\ Element(c, i)'.val # NULL => HasCopy(Elements(s)[i].val, Element(c, i).val)'
      <4>0. c \in DOMAIN array /\ i \in DOMAIN array[c]
        BY <3>1, <3>2, BlockElement
      <4>1. CASE c = ub /\ i = ui
        <5>1. m # 1
          BY <3>1, <1>1
        <5>2. k = m - 1
          <6>1. k \in 1 .. m /\ cloning[k].block = ub
            BY <3>1, <3>2, <4>1, <1>7
          <6> QED BY <5>1, <6>1, <1>9
        <5>3. cloning[k + 1] = top /\ k < Len(cloning)
          BY <5>2, <1>1
        <5>4. o = ui
          BY <5>1, <5>2, <3>2
        <5>5. top.src = Elements(s)[i].val
          BY <5>3, <5>4, <4>1, <3>5
        <5>6. SameKey(Element(c, i)', Element(c, i)) /\ Element(c, i)'.val = d
          BY <2>2, <4>1, <5>1
        <5>7. HasCopy(Elements(s)[i].val, d)
          BY <5>5, <2>5 DEF HasCopy
        <5>8. SameKey(Element(c, i)', Elements(s)[i])
          BY <5>6, <3>5 DEF SameKey
        <5> QED BY <5>6, <5>7, <5>8, <3>4, <2>4
      <4>2. CASE ~(c = ub /\ i = ui)
        <5>1. Element(c, i)' = Element(c, i)
          BY <4>0, <4>2, <2>1
        <5> QED BY <5>1, <3>4, <3>5, <2>4
      <4> QED BY <4>1, <4>2
    <3>8. copyOf'[cloning'[k].dst] = s
      BY <3>1, <3>5, <1>6
    <3> QED BY <3>6, <3>7, <3>8
  <2> QED BY <2>6, <2>7 DEF CopiesOK
<1> QED BY <1>15, <1>16, <1>17, <1>18, <1>19, <1>20, <1>21, <1>23, <1>24 DEF IInv, OneOwner

-----------------------------------------------------------------------------
\* A set is closed if it has the elements of its members.
LEMMA ClosedMeans ==
  IInv => \A S \in SUBSET DOMAIN node :
            IsClosed(S) <=> \A a \in S, x \in DOMAIN node : IsElement(x, a) => x \in S
<1> SUFFICES ASSUME IInv, NEW S \in SUBSET DOMAIN node
             PROVE  IsClosed(S) <=> \A a \in S, x \in DOMAIN node : IsElement(x, a) => x \in S
  OBVIOUS
<1>0. NULL \notin DOMAIN node
  BY HeapAssumption DEF IInv, TypeOK
<1>1. ASSUME IsClosed(S), NEW a \in S, NEW x \in DOMAIN node, IsElement(x, a) PROVE x \in S
  BY <1>0, <1>1 DEF IsClosed, IsElement
<1>2. ASSUME \A a \in S, x \in DOMAIN node : IsElement(x, a) => x \in S,
             NEW b \in DOMAIN array, NEW a \in S, Holds(a, b), NEW i \in DOMAIN array[b]
      PROVE  ValAt(b, i) \in S \cup {NULL}
  <2> PICK x : x = ValAt(b, i)
    OBVIOUS
  <2>1. SUFFICES ASSUME x # NULL PROVE x \in S
    OBVIOUS
  <2>2. x \in Nodes
    <3>1. array[b][i] \in SlotType
      BY SlotsOf DEF IInv, TypeOK
    <3> QED BY <3>1, <2>1 DEF ValAt, SlotType
  <2>3. x \in DOMAIN node
    BY <2>2 DEF IInv, OneOwner, NodesOwned
  <2>4. IsElement(x, a)
    BY <1>2 DEF IsElement
  <2> QED BY <2>3, <2>4, <1>2
<1> QED BY <1>1, <1>2 DEF IsClosed

\* y is in every set that has t and the elements of its members.
ReachByElements ==
  \A t, y : y \in Reach(t) <=>
    /\ y \in DOMAIN node
    /\ \A S \in SUBSET DOMAIN node :
         t \in S /\ (\A a \in S, x \in DOMAIN node : IsElement(x, a) => x \in S) => y \in S

\* Reach, by elements.
LEMMA ReachMeans == IInv => ReachByElements
BY ClosedMeans DEF Reach, ReachByElements

\* The same after the step.
LEMMA ReachMeansNext == IInv' => ReachByElements'
BY ReachMeans, PTL

\* What follows for Reach.
ReachLaws ==
  /\ \A t \in DOMAIN node : t \in Reach(t)
  /\ \A t : Reach(t) \subseteq DOMAIN node
  /\ \A t : \A a \in Reach(t), x \in DOMAIN node : IsElement(x, a) => x \in Reach(t)
  /\ \A t : \A x \in Reach(t) : Reach(x) \subseteq Reach(t)

\* What can be reached; and a sealed set is reached from inside only.
LEMMA ReachRules ==
  ASSUME IInv
  PROVE  /\ ReachLaws
         /\ \A X : Sealed(X) => \A t \in DOMAIN node \ X : Reach(t) \cap X = {}
<1>1. \A t \in DOMAIN node : t \in Reach(t)
  BY ReachMeans DEF ReachByElements
<1>2. \A t : Reach(t) \subseteq DOMAIN node
  BY DEF Reach
<1>3. ASSUME NEW t, NEW a \in Reach(t), NEW x \in DOMAIN node, IsElement(x, a)
      PROVE  x \in Reach(t)
  BY <1>3, ReachMeans DEF ReachByElements
<1>4. ASSUME NEW t, NEW x \in Reach(t), NEW y \in Reach(x) PROVE y \in Reach(t)
  BY ReachMeans DEF ReachByElements
<1>5. ASSUME NEW X, Sealed(X), NEW t \in DOMAIN node \ X, NEW y \in Reach(t), y \in X PROVE FALSE
  <2>1. \A a \in DOMAIN node \ X, x \in DOMAIN node : IsElement(x, a) => x \in DOMAIN node \ X
    BY <1>5 DEF Sealed
  <2>2. y \in DOMAIN node \ X
    BY <2>1, ReachMeans DEF ReachByElements
  <2> QED BY <2>2, <1>5
<1> QED BY <1>1, <1>2, <1>3, <1>4, <1>5 DEF ReachLaws

\* The same after the step.
LEMMA ReachLawsNext == IInv' => ReachLaws'
<1>1. IInv => ReachLaws
  BY ReachRules
<1> QED BY <1>1, PTL

\* Every value is the element of another, or belongs to a caller or a call.
LEMMA ParentOrTop ==
  ASSUME IInv, NEW x \in DOMAIN node, x \notin Tops
  PROVE  \E a \in DOMAIN node : IsElement(x, a)
<1>1. PICK b \in DOMAIN array : \E i \in DOMAIN array[b] : ValAt(b, i) = x
  BY DEF Tops, IInv, OneOwner, NodesOwned
<1>2. PICK a \in DOMAIN node : Holds(a, b)
  BY DEF IInv, OneOwner, ArraysOwned
<1> QED BY <1>1, <1>2 DEF IsElement

\* What belongs to a caller or a call is nobody's element.
LEMMA TopIsNoElement ==
  ASSUME IInv, NEW x \in Tops, NEW a, IsElement(x, a)
  PROVE  FALSE
<1>1. PICK b \in DOMAIN array : \E i \in DOMAIN array[b] : ValAt(b, i) = x
  BY DEF IsElement
<1>2. x # NULL
  BY TopsAreSealed
<1> QED BY <1>1, <1>2 DEF Tops, IInv, OneOwner, NodesOwned

\* No tree has lost its root: values that are elements of each other only.
NoRing ==
  \A S \in SUBSET (DOMAIN node \ Tops) :
    (\A x \in S : \E a \in S : IsElement(x, a)) => S = {}

\* Going up from a value ends at a caller or a call, unless it goes in a ring.
LEMMA ReachedUnlessRing == IInv /\ NoRing => NothingLeaks
<1> SUFFICES ASSUME IInv, NoRing, NEW a \in DOMAIN node, \A t \in Tops : a \notin Reach(t)
             PROVE  FALSE
  BY DEF NothingLeaks, Tops, Reach
<1> DEFINE S == {x \in DOMAIN node : \A t \in Tops : x \notin Reach(t)}
<1>1. Tops \subseteq DOMAIN node
  BY TopsAreSealed
<1>2. S \in SUBSET (DOMAIN node \ Tops)
  BY <1>1, ReachRules DEF ReachLaws
<1>3. ASSUME NEW x \in S PROVE \E c \in S : IsElement(x, c)
  <2>1. x \in DOMAIN node /\ x \notin Tops
    BY <1>2
  <2>2. PICK c \in DOMAIN node : IsElement(x, c)
    BY <2>1, ParentOrTop
  <2>3. ASSUME NEW t \in Tops PROVE c \notin Reach(t)
    BY <2>1, <2>2, ReachRules DEF ReachLaws
  <2> QED BY <2>2, <2>3
<1>4. a \in S
  OBVIOUS
<1> HIDE DEF S
<1> QED BY <1>2, <1>3, <1>4 DEF NoRing

Shapes == SameShape \/ NewTop \/ (\E a, x : Attached(a, x)) \/ Detached \/ TopGone

\* No step closes a ring: what is attached was nobody's element and what it is
\* attached to belongs to a caller.
LEMMA NoRingStep ==
  ASSUME IInv, NoRing, Shapes
  PROVE  NoRing'
<1> SUFFICES ASSUME NEW S \in SUBSET (DOMAIN node' \ Tops'),
                    \A x \in S : \E a \in S : IsElement(x, a)'
             PROVE  S = {}
  BY DEF NoRing
<1>1. SUFFICES S \subseteq DOMAIN node \ Tops /\ \A x \in S : \E a \in S : IsElement(x, a)
  BY DEF NoRing
<1>2. CASE SameShape
  BY <1>2 DEF SameShape
<1>3. CASE NewTop
  BY <1>3 DEF NewTop
<1>4. CASE Detached
  BY <1>4 DEF Detached
<1>5. CASE TopGone
  <2>1. Freed \subseteq Tops
    BY DEF Tops
  <2> QED BY <2>1, <1>5 DEF TopGone
<1>6. CASE \E a, x : Attached(a, x)
  <2>1. PICK a, x : Attached(a, x)
    BY <1>6
  <2>2. a \notin S /\ x \in Tops /\ S \subseteq DOMAIN node \ (Tops \ {x})
    BY <2>1 DEF Attached
  <2>3. \A y \in S : \E c \in S : IsElement(y, c)
    BY <2>1, <2>2 DEF Attached
  <2>4. x \notin S
    BY <2>2, <2>3, TopIsNoElement
  <2> QED BY <2>2, <2>3, <2>4
<1> QED BY <1>2, <1>3, <1>4, <1>5, <1>6 DEF Shapes

\* A bounded set of integers has a largest member.
LEMMA MaxOfBounded ==
  ASSUME NEW S \in SUBSET Int, S # {}, NEW u \in Int, \A x \in S : x <= u
  PROVE  Max(S) \in S /\ \A y \in S : Max(S) >= y
<1> DEFINE R == {ss \in Nat \X Nat : ss[1] < ss[2]}
<1> DEFINE T == {u - x : x \in S}
<1>1. T \subseteq Nat /\ T # {}
  <2>1. \A x \in S : u - x \in Nat
    OBVIOUS
  <2> QED BY <2>1
<1>2. IsWellFoundedOn(R, Nat)
  BY NatLessThanWellFounded DEF OpToRel
<1>3. PICK d \in T : \A e \in T : ~(<<e, d>> \in R)
  <2> HIDE DEF T
  <2> QED BY <1>1, <1>2, WFMin
<1>4. PICK x \in S : d = u - x
  OBVIOUS
<1>5. ASSUME NEW y \in S PROVE x >= y
  <2>1. u - y \in T /\ u - y \in Nat /\ d \in Nat
    BY <1>1
  <2>2. ~(<<u - y, d>> \in R)
    BY <2>1, <1>3
  <2>3. ~(u - y < d)
    BY <2>1, <2>2
  <2> QED BY <2>3, <1>4
<1> QED BY <1>5 DEF Max

\* next_int_key goes over the integer keys of the elements, starting from -1
\* (value.c:128).
LEMMA NextIntKeyType ==
  ASSUME NEW a \in DOMAIN node, TypeOK
  PROVE  /\ IntKeysOf(a) \subseteq MinInt .. MaxInt
         /\ Max({-1} \cup IntKeysOf(a)) \in MinInt .. MaxInt
         /\ \A i \in {-1} \cup IntKeysOf(a) : Max({-1} \cup IntKeysOf(a)) >= i
         /\ Max({-1} \cup IntKeysOf(a)) \in {-1} \cup IntKeysOf(a)
         /\ next_int_key(a) \in MinInt .. MaxInt
<1> PICK S : S = {-1} \cup IntKeysOf(a)
  OBVIOUS
<1>0. MinInt \in Int /\ MaxInt \in Nat /\ -1 \in MinInt .. MaxInt
  BY HeapAssumption DEF MinInt
<1>1. IntKeysOf(a) \subseteq MinInt .. MaxInt
  <2>1. ASSUME NEW i \in 1 .. node[a].n PROVE Slots(a)[i].ikey \in MinInt .. MaxInt
    BY ElementIsThere DEF SlotType
  <2> QED BY <2>1 DEF IntKeysOf
<1>2. S \subseteq MinInt .. MaxInt /\ S # {} /\ S \subseteq Int /\ \A x \in S : x <= MaxInt
  BY <1>0, <1>1
<1>3. Max(S) \in S /\ \A y \in S : Max(S) >= y
  BY <1>0, <1>2, MaxOfBounded
<1>4. Max(S) \in MinInt .. MaxInt
  BY <1>2, <1>3
<1>5. PlusOne(Max(S)) \in MinInt .. MaxInt
  <2> PICK x : x = Max(S)
    OBVIOUS
  <2>1. x \in MinInt .. MaxInt
    BY <1>4
  <2> QED BY <2>1, <1>0 DEF PlusOne, MinInt
<1> QED BY <1>1, <1>3, <1>4, <1>5 DEF next_int_key

\* What a step does to the values it does not leave alone: one element at the
\* end, which was a value of its own.
Grown(a) ==
  /\ LeavesAlone({a}) /\ Label(a)' = Label(a)
  /\ \E e \in [key : {"int", "str"}, ikey : MinInt .. MaxInt,
               name : Strings, val : roots \ roots'] :
       Elements(a)' = Append(Elements(a), e)

\* What a step does to what is borrowed: it stays, is dropped, found, or moves
\* with its root into another.
StaysBorrowed == borrowed' = borrowed /\ (borrowed.from \in roots => borrowed.from \in roots')
Dropped == borrowed' = [at |-> NULL, from |-> NULL]
Found == /\ SameShape /\ LeavesAlone({}) /\ borrowed'.from \in roots /\ roots' = roots
         /\ borrowed'.at \in DOMAIN node /\ IsElement(borrowed'.at, borrowed'.from)
MovesWithRoot ==
  \E a, x : /\ Attached(a, x) /\ Grown(a) /\ a \in roots \cap roots' /\ x = borrowed.from
            /\ x # a /\ borrowed' = [borrowed EXCEPT !.from = a]

Grows == \E a \in roots : Grown(a) /\ roots' \subseteq roots

\* All there is to know of a step.
Outcome ==
  /\ IInv' /\ Shapes /\ (Kept \/ Grows) /\ (CopiesOK => CopiesOK')
  /\ StaysBorrowed \/ Dropped \/ Found \/ MovesWithRoot

\* Building and freeing do not look at copies.
LEMMA NothingToCopy ==
  ASSUME copyOf' = <<>>, cloning' = <<>>
  PROVE  CopiesOK'
<1>1. DOMAIN copyOf' = {} /\ DOMAIN cloning' = {}
  OBVIOUS
<1> QED BY <1>1 DEF CopiesOK

\* The constructors.
LEMMA MakeOutcome ==
  ASSUME IInv, NEW tag \in {"leaf", "arr", "obj"}, NEW text \in Strings,
         NEW cap \in Nat, make(tag, text, cap)
  PROVE  Outcome
<1>1. IInv' /\ NewTop /\ Kept
  BY MakeStep
<1>2. copyOf' = <<>> /\ cloning' = <<>>
  BY DEF make, AtRest
<1>3. StaysBorrowed
  BY DEF make, StaysBorrowed
<1> QED BY <1>1, <1>2, <1>3, NothingToCopy DEF Outcome, Shapes

\* The setters; what is borrowed from the child is now in a.
LEMMA InsertOutcome ==
  ASSUME IInv, NEW a \in roots, NEW key \in {"int", "str"}, NEW ikey \in MinInt .. MaxInt,
         NEW name \in Strings, NEW child \in roots, insert(a, key, ikey, name, child)
  PROVE  Outcome
<1>1. IInv' /\ Attached(a, child) /\ Grown(a)
  BY InsertStep DEF Grown
<1>2. copyOf' = <<>> /\ cloning' = <<>>
  BY DEF insert, AtRest
<1>3. roots' = roots \ {child} /\ child # a
  BY DEF insert
<1>4. CASE borrowed.from = child
  <2>1. borrowed' = [borrowed EXCEPT !.from = a]
    BY <1>4 DEF insert
  <2>2. MovesWithRoot
    BY <1>1, <1>3, <1>4, <2>1 DEF MovesWithRoot
  <2> QED BY <1>1, <1>2, <1>3, <2>2, NothingToCopy DEF Outcome, Shapes, Grows
<1>5. CASE borrowed.from # child
  <2>1. borrowed' = borrowed
    BY <1>5 DEF insert
  <2>2. StaysBorrowed
    BY <1>3, <1>5, <2>1 DEF StaysBorrowed
  <2> QED BY <1>1, <1>2, <1>3, <2>2, NothingToCopy DEF Outcome, Shapes, Grows
<1> QED BY <1>4, <1>5

\* A step that changes nothing but what is borrowed.
Untouched == UNCHANGED <<node, array, bytes, roots, freeing, cloning, copyOf>>

\* A step that changes nothing but what is borrowed keeps everything.
LEMMA UntouchedStep ==
  ASSUME IInv, Untouched
  PROVE  IInv' /\ SameShape /\ LeavesAlone({}) /\ Kept /\ (CopiesOK => CopiesOK')
<1>u. /\ node' = node /\ array' = array /\ bytes' = bytes /\ roots' = roots
      /\ freeing' = freeing /\ cloning' = cloning /\ copyOf' = copyOf
  BY DEF Untouched
<1>1. TypeOK'
  BY <1>u DEF IInv, TypeOK, Slots
<1>2. /\ Freed' = Freed /\ Copies' = Copies
      /\ \A b, i : ValAt(b, i)' = ValAt(b, i) /\ KeyAt(b, i)' = KeyAt(b, i)
      /\ \A a : TextAt(a)' = TextAt(a) /\ \A b : Holds(a, b)' <=> Holds(a, b)
  BY <1>u DEF Freed, Copies, ValAt, KeyAt, TextAt, Passed, Holds
<1>3. NodesOwned'
  BY <1>u, <1>2 DEF IInv, OneOwner, NodesOwned
<1>4. ArraysOwned'
  BY <1>u, <1>2 DEF IInv, OneOwner, ArraysOwned
<1>5. BytesOwned'
  BY <1>u, <1>2 DEF IInv, OneOwner, BytesOwned
<1>6. FramesOK'
  BY <1>u DEF IInv, FramesOK
<1>7. Originals'
  BY <1>u, <1>2 DEF IInv, Originals, Slots
<1>8. SameShape
  BY <1>u, <1>2 DEF SameShape, Tops, IsElement
<1>9. /\ \A a : Label(a)' = Label(a) /\ Elements(a)' = Elements(a)
      /\ \A b, i : Element(b, i)' = Element(b, i)
  BY <1>u DEF Label, Elements, Element, Text
<1>10. LeavesAlone({})
  BY <1>u, <1>9 DEF LeavesAlone, Sealed, Shows
<1>11. Kept
  BY <1>10 DEF Kept
<1>12. ASSUME CopiesOK PROVE CopiesOK'
  BY <1>u, <1>2, <1>9, <1>12 DEF CopiesOK, HasCopy
<1> QED BY <1>1, <1>3, <1>4, <1>5, <1>6, <1>7, <1>8, <1>10, <1>11, <1>12 DEF IInv, OneOwner

\* value_arr_get_str: what it returns is an element of the array (value.c:197).
LEMMA LookupOutcome ==
  ASSUME IInv, value_arr_get_str
  PROVE  Outcome
<1>1. Untouched /\ freeing = <<>> /\ cloning = <<>>
  BY DEF value_arr_get_str, Untouched, AtRest
<1>2. PICK a \in Owned("arr"), i \in Nat :
        i \in 1 .. node[a].n /\ borrowed' = [at |-> Slots(a)[i].val, from |-> a]
  BY DEF value_arr_get_str
<1>3. a \in roots /\ a \in DOMAIN node
  BY DEF Owned, IInv, TypeOK
<1> PICK b : b = node[a].items
  OBVIOUS
<1>4. /\ b \in DOMAIN array /\ Slots(a) = array[b] /\ i \in DOMAIN array[b]
      /\ array[b][i] \in SlotType /\ array[b][i].val \in Nodes
  BY <1>2, <1>3, ElementIsThere DEF IInv
<1>5. ValAt(b, i) = array[b][i].val /\ Holds(a, b)
  BY <1>1, NothingFreed, NothingCopied
<1> PICK x : x = array[b][i].val
  OBVIOUS
<1>6. x \in DOMAIN node
  BY <1>4, <1>5 DEF IInv, OneOwner, NodesOwned
<1>7. IsElement(x, a)
  BY <1>4, <1>5 DEF IsElement
<1>8. borrowed'.at = x /\ borrowed'.from = a
  BY <1>2, <1>4
<1>9. SameShape /\ LeavesAlone({}) /\ Kept /\ IInv' /\ (CopiesOK => CopiesOK') /\ roots' = roots
  BY <1>1, UntouchedStep DEF Untouched
<1> QED BY <1>3, <1>6, <1>7, <1>8, <1>9 DEF Outcome, Shapes, Found

\* Every step of the program is of one of these kinds.
LEMMA EveryOutcome == IInv /\ [Next]_vars => Outcome
<1> SUFFICES ASSUME IInv, [Next]_vars PROVE Outcome
  OBVIOUS
<1>1. ASSUME value_leaf PROVE Outcome
  BY <1>1, MakeOutcome DEF value_leaf
<1>2. ASSUME value_arr PROVE Outcome
  BY <1>2, MakeOutcome, HeapAssumption DEF value_arr
<1>3. ASSUME value_obj PROVE Outcome
  BY <1>3, MakeOutcome DEF value_obj
<1>4. ASSUME value_arr_push PROVE Outcome
  <2>1. PICK a \in Owned("arr"), child \in roots :
          insert(a, "int", next_int_key(a), Empty, child)
    BY <1>4 DEF value_arr_push
  <2>2. a \in roots /\ next_int_key(a) \in MinInt .. MaxInt
    BY NextIntKeyType DEF Owned, IInv, TypeOK
  <2> QED BY <2>1, <2>2, InsertOutcome, HeapAssumption
<1>5. ASSUME value_arr_set_int PROVE Outcome
  BY <1>5, InsertOutcome, HeapAssumption DEF value_arr_set_int, Owned
<1>6. ASSUME value_arr_set_str PROVE Outcome
  <2>1. 0 \in MinInt .. MaxInt
    BY HeapAssumption DEF MinInt
  <2> QED BY <1>6, <2>1, InsertOutcome DEF value_arr_set_str, Owned
<1>7. ASSUME value_obj_set PROVE Outcome
  <2>1. 0 \in MinInt .. MaxInt
    BY HeapAssumption DEF MinInt
  <2> QED BY <1>7, <2>1, InsertOutcome DEF value_obj_set, Owned
<1>8. ASSUME value_clone PROVE Outcome
  <2>1. PICK src \in roots : enter_clone(src, <<>>, array, bytes)
    BY <1>8 DEF value_clone
  <2>2. StaysBorrowed
    BY <2>1 DEF enter_clone, StaysBorrowed
  <2> QED BY <1>8, <2>2, CloneStartStep DEF Outcome, Shapes
<1>9. ASSUME clone_element PROVE Outcome
  <2>1. roots' = roots /\ borrowed' = borrowed
    BY ZenonT(60), <1>9 DEF clone_element, enter_clone
  <2>2. StaysBorrowed
    BY <2>1 DEF StaysBorrowed
  <2> QED BY <1>9, <2>2, CloneElementStep DEF Outcome, Shapes
<1>10. ASSUME clone_return PROVE Outcome
  <2>1. roots \subseteq roots' /\ borrowed' = borrowed
    BY <1>10 DEF clone_return
  <2> QED BY <1>10, <2>1, CloneReturnStep DEF Outcome, Shapes, StaysBorrowed
<1>11. ASSUME value_free PROVE Outcome
  <2>1. copyOf' = <<>> /\ cloning' = <<>>
    BY <1>11 DEF value_free, AtRest
  <2>2. StaysBorrowed \/ Dropped
    BY <1>11 DEF value_free, StaysBorrowed, Dropped
  <2> QED BY <1>11, <2>1, <2>2, FreeStartStep, NothingToCopy DEF Outcome, Shapes
<1>12. ASSUME freeing # <<>>, copyOf' = copyOf, cloning' = cloning PROVE CopiesOK'
  <2>1. copyOf = <<>> /\ cloning = <<>>
    BY <1>12 DEF IInv, Originals, FramesOK
  <2> QED BY <1>12, <2>1, NothingToCopy
<1>13. ASSUME free_element PROVE Outcome
  <2>1. /\ freeing # <<>> /\ copyOf' = copyOf /\ cloning' = cloning
        /\ roots' = roots /\ borrowed' = borrowed
    BY <1>13 DEF free_element
  <2> QED BY <1>12, <1>13, <2>1, FreeElementStep DEF Outcome, Shapes, StaysBorrowed
<1>14. ASSUME free_node PROVE Outcome
  <2>1. /\ freeing # <<>> /\ copyOf' = copyOf /\ cloning' = cloning
        /\ roots' = roots /\ borrowed' = borrowed
    BY <1>14 DEF free_node
  <2> QED BY <1>12, <1>14, <2>1, FreeNodeStep DEF Outcome, Shapes, StaysBorrowed
<1>15. ASSUME UNCHANGED vars PROVE Outcome
  <2>1. Untouched /\ StaysBorrowed
    BY <1>15 DEF vars, Untouched, StaysBorrowed
  <2> QED BY <2>1, UntouchedStep DEF Outcome, Shapes
<1> QED
  BY <1>1, <1>2, <1>3, <1>4, <1>5, <1>6, <1>7, <1>8, <1>9, <1>10, <1>11, <1>13, <1>14, <1>15,
     LookupOutcome DEF Next

\* The empty heap.
LEMMA NothingYet == Init => IInv /\ NoRing /\ CopiesOK
<1> SUFFICES ASSUME Init PROVE IInv /\ NoRing /\ CopiesOK
  OBVIOUS
<1>1. DOMAIN node = {} /\ DOMAIN array = {} /\ DOMAIN bytes = {} /\ roots = {}
      /\ freeing = <<>> /\ cloning = <<>> /\ DOMAIN copyOf = {} /\ copyOf = <<>>
      /\ DOMAIN freeing = {} /\ DOMAIN cloning = {}
  BY DEF Init
<1>2. Freed = {} /\ Copies = {}
  BY <1>1 DEF Freed, Copies
<1>3. TypeOK
  BY <1>1, HeapAssumption DEF TypeOK
<1>4. NodesOwned
  BY <1>1, <1>2 DEF NodesOwned
<1>5. ArraysOwned /\ BytesOwned
  BY <1>1 DEF ArraysOwned, BytesOwned
<1>6. FramesOK
  BY <1>1, EmptySeq DEF FramesOK
<1>7. Originals
  BY <1>1, <1>2 DEF Originals
<1>8. NoRing
  BY <1>1 DEF NoRing
<1>9. CopiesOK
  BY <1>1 DEF CopiesOK
<1> QED BY <1>3, <1>4, <1>5, <1>6, <1>7, <1>8, <1>9 DEF IInv, OneOwner

\* The strengthening is an invariant.
THEOREM HeapInvariant == Spec => []IInv
<1>1. IInv /\ [Next]_vars => IInv'
  BY EveryOutcome DEF Outcome
<1> QED BY <1>1, NothingYet, PTL DEF Spec

\* The blocks are what they are used as, and the elements of a value are those it
\* counts.
THEOREM TypeCorrect == Spec => []TypeOK
BY HeapInvariant, PTL DEF IInv

\* Every node, array and string has exactly one owner at every step of every call:
\* no double free and no dangling pointer in use (value.c, clone.c).
THEOREM BlocksHaveOneOwner == Spec => []OneOwner
BY HeapInvariant, PTL DEF IInv

\* Whatever is allocated can be reached by a caller or by the call that is building
\* or freeing it: no tree is lost.
THEOREM NothingIsLost == Spec => []NothingLeaks
<1>1. IInv /\ NoRing /\ [Next]_vars => NoRing'
  BY EveryOutcome, NoRingStep DEF Outcome
<1>2. IInv /\ NoRing => NothingLeaks
  BY ReachedUnlessRing
<1> QED BY <1>1, <1>2, NothingYet, HeapInvariant, PTL DEF Spec

\* When the calls have returned, every node of the copy is complete.
LEMMA CopyIsComplete == IInv /\ CopiesOK => CloneIsExact
<1> SUFFICES ASSUME IInv, CopiesOK, cloning = <<>>, NEW d \in DOMAIN copyOf,
                    NEW s, s = copyOf[d]
             PROVE  /\ {d, s} \subseteq DOMAIN node /\ s \notin DOMAIN copyOf
                    /\ Label(d) = Label(s) /\ node[d].n = node[s].n
                    /\ \A i \in 1 .. node[d].n :
                         LET e == Elements(d)[i]
                             f == Elements(s)[i]
                         IN /\ <<e.key, e.ikey, e.name>> = <<f.key, f.ikey, f.name>>
                            /\ e.val \in DOMAIN copyOf /\ copyOf[e.val] = f.val
  BY DEF CloneIsExact
<1>1. d \in DOMAIN node /\ d \notin Copies
  BY NothingCopied DEF IInv, Originals
<1>2. /\ s \in DOMAIN node \ DOMAIN copyOf /\ Label(d) = Label(s)
      /\ DOMAIN Elements(d) = DOMAIN Elements(s)
      /\ \A i \in DOMAIN Elements(d) :
           /\ SameKey(Elements(d)[i], Elements(s)[i])
           /\ HasCopy(Elements(s)[i].val, Elements(d)[i].val)
  BY <1>1 DEF CopiesOK
<1>3. DOMAIN Elements(d) = 1 .. node[d].n /\ DOMAIN Elements(s) = 1 .. node[s].n
  BY DEF Elements
<1>4. node[d].n \in Nat /\ node[s].n \in Nat
  BY <1>1, <1>2 DEF IInv, TypeOK, NodeType
<1>5. node[d].n = node[s].n
  <2>1. \A x \in Nat, y \in Nat : x < y => y \in 1 .. y /\ y \notin 1 .. x
    OBVIOUS
  <2>2. 1 .. node[d].n = 1 .. node[s].n
    BY <1>2, <1>3
  <2>3. ~(node[d].n < node[s].n) /\ ~(node[s].n < node[d].n)
    BY <1>4, <2>1, <2>2
  <2> QED BY <1>4, <2>3
<1> QED BY <1>1, <1>2, <1>3, <1>5 DEF SameKey, HasCopy

\* A copy equals its original node by node, and has its own nodes (clone.c:29).
THEOREM CopiesAreExact == Spec => []CloneIsExact
<1>1. IInv /\ CopiesOK /\ [Next]_vars => CopiesOK'
  BY EveryOutcome DEF Outcome
<1> QED BY <1>1, CopyIsComplete, NothingYet, HeapInvariant, PTL DEF Spec

\* What a step does to what a caller can reach.
LEMMA ValuesStepwise ==
  ASSUME IInv, [Next]_vars, NEW r \in roots \cap roots', NEW a \in Reach(r)
  PROVE  /\ a \in DOMAIN node'
         /\ \/ Shows(a)' = Shows(a)
            \/ /\ a = r /\ Label(a)' = Label(a)
               /\ \E e \in [key : {"int", "str"}, ikey : MinInt .. MaxInt,
                            name : Strings, val : roots \ roots'] :
                    Elements(a)' = Append(Elements(a), e)
<1>1. Outcome /\ r \in DOMAIN node /\ a \in DOMAIN node
  BY EveryOutcome, ReachRules DEF IInv, TypeOK, ReachLaws
<1>2. CASE Kept
  <2>1. PICK X : LeavesAlone(X) /\ X \cap roots \cap roots' = {}
    BY <1>2 DEF Kept
  <2>2. r \in DOMAIN node \ X /\ Sealed(X)
    BY <1>1, <2>1 DEF LeavesAlone
  <2>3. a \notin X
    BY <2>2, ReachRules DEF ReachLaws
  <2> QED BY <1>1, <2>1, <2>3 DEF LeavesAlone
<1>3. CASE Grows
  <2>1. PICK c \in roots : Grown(c)
    BY <1>3 DEF Grows
  <2>2. LeavesAlone({c})
    BY <2>1 DEF Grown
  <2>3. CASE a = c
    <3>1. r = c
      BY <1>1, <2>2, <2>3, ReachRules DEF LeavesAlone, ReachLaws
    <3>2. a \in DOMAIN node'
      BY <1>1, <3>1, <2>3 DEF Outcome, IInv, TypeOK
    <3> QED BY <2>1, <2>3, <3>1, <3>2 DEF Grown
  <2>4. CASE a # c
    BY <1>1, <2>2, <2>4 DEF LeavesAlone
  <2> QED BY <2>3, <2>4
<1> QED BY <1>1, <1>2, <1>3 DEF Outcome

\* No step disturbs a value of a caller, but for the one element it adds to the one
\* it works on: a copy and its original are independent (value.c, clone.c).
THEOREM ValuesStayApart == Spec => ValuesAreIndependent
<1>1. IInv /\ [Next]_vars =>
        [\A r \in roots \cap roots' : \A a \in Reach(r) :
           /\ a \in DOMAIN node'
           /\ \/ Shows(a)' = Shows(a)
              \/ /\ a = r /\ Label(a)' = Label(a)
                 /\ \E e \in [key : {"int", "str"}, ikey : MinInt .. MaxInt,
                              name : Strings, val : roots \ roots'] :
                      Elements(a)' = Append(Elements(a), e)]_vars
  BY ValuesStepwise
<1> QED BY <1>1, HeapInvariant, PTL DEF Spec, ValuesAreIndependent

\* What is borrowed lies below the root it was found in.
BorrowInv ==
  borrowed.at # NULL => /\ borrowed.from \in roots /\ borrowed.at # borrowed.from
                        /\ borrowed.at \in Reach(borrowed.from)

\* The elements of what a caller owns stay where they are, so whatever could be
\* reached still can.
LEMMA ReachKept ==
  ASSUME IInv, Outcome, NEW r \in roots, Reach(r) \subseteq DOMAIN node', NEW y \in Reach(r)
  PROVE  y \in Reach(r)'
<1>0. r \in DOMAIN node /\ Freed \cap roots = {} /\ Freed \subseteq Tops
  BY DEF IInv, TypeOK, OneOwner, NodesOwned, Tops
<1>1. Reach(r) \cap Freed = {}
  <2>1. Sealed(Freed) /\ r \notin Freed
    BY <1>0, TopsAreSealed
  <2> QED BY <1>0, <2>1, ReachRules DEF ReachLaws
<1>2. Reach(r) \subseteq DOMAIN node
  BY ReachRules DEF ReachLaws
<1>3. ASSUME NEW c \in Reach(r), NEW x \in Reach(r), IsElement(x, c) PROVE IsElement(x, c)'
  <2>1. c \in DOMAIN node /\ x \in DOMAIN node /\ c \notin Freed
        /\ c \in DOMAIN node' /\ x \in DOMAIN node'
    BY <1>1, <1>2
  <2>2. CASE SameShape
    BY <1>3, <2>1, <2>2 DEF SameShape
  <2>3. CASE NewTop
    BY <1>3, <2>1, <2>3 DEF NewTop
  <2>4. CASE \E a, z : Attached(a, z)
    BY <1>3, <2>1, <2>4 DEF Attached
  <2>5. CASE Detached
    BY <1>3, <2>1, <2>5 DEF Detached
  <2>6. CASE TopGone
    BY <1>3, <2>1, <2>6 DEF TopGone
  <2> QED BY <2>2, <2>3, <2>4, <2>5, <2>6 DEF Outcome, Shapes
<1>4. ASSUME NEW S \in SUBSET DOMAIN node', r \in S,
             \A a \in S, x \in DOMAIN node' : IsElement(x, a)' => x \in S
      PROVE  y \in S
  <2>1. \A a \in S \cap Reach(r), x \in DOMAIN node : IsElement(x, a) => x \in S \cap Reach(r)
    <3>1. ASSUME NEW a \in S \cap Reach(r), NEW x \in DOMAIN node, IsElement(x, a)
          PROVE  x \in S \cap Reach(r)
      <4>1. x \in Reach(r)
        BY <3>1, ReachRules DEF ReachLaws
      <4>2. IsElement(x, a)'
        BY <1>3, <3>1, <4>1
      <4> QED BY <1>4, <4>1, <4>2
    <3> QED BY <3>1
  <2>2. r \in S \cap Reach(r) /\ S \cap Reach(r) \in SUBSET DOMAIN node
    BY <1>0, <1>2, <1>4, ReachRules DEF ReachLaws
  <2>3. y \in S \cap Reach(r)
    BY <2>1, <2>2, ReachMeans DEF ReachByElements
  <2> QED BY <2>3
<1>5. ReachByElements' /\ y \in DOMAIN node'
  BY ReachMeansNext DEF Outcome
<1> QED BY <1>4, <1>5 DEF ReachByElements

\* What is borrowed and all below it is left alone, unless it is dropped.
LEMMA BorrowedLeftAlone ==
  ASSUME IInv, Outcome, borrowed.at # NULL, borrowed'.at # NULL, BorrowInv
  PROVE  \A a \in Reach(borrowed.at) : a \in DOMAIN node' /\ Shows(a)' = Shows(a)
<1> PICK x, r : x = borrowed.at /\ r = borrowed.from
  OBVIOUS
<1>1. r \in roots /\ r \in DOMAIN node /\ x # r /\ x \in Reach(r) /\ x \in DOMAIN node
  BY ReachRules DEF BorrowInv, IInv, TypeOK, ReachLaws
<1>2. SUFFICES ASSUME NEW a \in Reach(x) PROVE a \in DOMAIN node' /\ Shows(a)' = Shows(a)
  OBVIOUS
<1>3. a \in Reach(r) /\ a \in DOMAIN node
  BY <1>1, ReachRules DEF ReachLaws
<1>4. CASE Kept
  <2>1. PICK X : LeavesAlone(X) /\ (borrowed.from \in X \cap roots => borrowed'.at = NULL)
    BY <1>4 DEF Kept
  <2>2. r \notin X
    BY <1>1, <2>1
  <2>3. a \notin X
    BY <1>1, <1>3, <2>1, <2>2, ReachRules DEF LeavesAlone, ReachLaws
  <2> QED BY <1>3, <2>1, <2>3 DEF LeavesAlone
<1>5. CASE Grows
  <2>1. PICK c \in roots : LeavesAlone({c})
    BY <1>5 DEF Grows, Grown
  <2>2. x # c
    BY <1>1, <2>1, ReachRules DEF LeavesAlone, ReachLaws
  <2>3. a # c
    BY <1>1, <2>1, <2>2, ReachRules DEF LeavesAlone, ReachLaws
  <2> QED BY <1>3, <2>1, <2>3 DEF LeavesAlone
<1> QED BY <1>4, <1>5 DEF Outcome

\* What is borrowed stays below its root: while it is looked up, while its root is
\* handed over, and while other trees are copied and freed.
LEMMA BorrowStep ==
  ASSUME IInv, [Next]_vars, BorrowInv
  PROVE  BorrowInv'
<1>1. Outcome
  BY EveryOutcome
<1>2. CASE Dropped
  BY <1>2 DEF Dropped, BorrowInv
<1>3. CASE StaysBorrowed
  <2>1. SUFFICES ASSUME borrowed'.at # NULL PROVE BorrowInv'
    BY DEF BorrowInv
  <2> PICK x, r : x = borrowed.at /\ r = borrowed.from
    OBVIOUS
  <2>2. /\ borrowed' = borrowed /\ r \in roots /\ r \in roots' /\ x # r /\ x \in Reach(r)
    BY <1>3, <2>1 DEF StaysBorrowed, BorrowInv
  <2>3. Reach(r) \subseteq DOMAIN node'
    BY <2>2, ValuesStepwise
  <2>4. x \in Reach(r)'
    BY <1>1, <2>2, <2>3, ReachKept
  <2>5. borrowed'.at = x /\ borrowed'.from = r
    BY <2>2
  <2>6. x \in Reach(borrowed.from)'
    BY <2>4, <2>5
  <2> QED BY <2>2, <2>5, <2>6 DEF BorrowInv
<1>4. CASE Found
  <2> PICK x, r : x = borrowed'.at /\ r = borrowed'.from
    OBVIOUS
  <2>1. /\ r \in roots /\ r \in roots' /\ x \in DOMAIN node /\ IsElement(x, r)
        /\ r \in DOMAIN node /\ DOMAIN node' = DOMAIN node
    BY <1>4 DEF Found, IInv, TypeOK, SameShape
  <2>2. x # r
    BY <2>1, TopIsNoElement DEF Tops
  <2>3. x \in Reach(r)
    BY <2>1, ReachRules DEF ReachLaws
  <2>4. Reach(r) \subseteq DOMAIN node'
    BY <2>1, ReachRules DEF ReachLaws
  <2>5. x \in Reach(r)'
    BY <1>1, <2>1, <2>3, <2>4, ReachKept
  <2> QED BY <2>1, <2>2, <2>5 DEF BorrowInv
<1>5. CASE MovesWithRoot
  <2>1. SUFFICES ASSUME borrowed'.at # NULL PROVE BorrowInv'
    BY DEF BorrowInv
  <2> PICK x, r : x = borrowed.at /\ r = borrowed.from
    OBVIOUS
  <2>2. PICK a : /\ Attached(a, r) /\ Grown(a) /\ a \in roots \cap roots' /\ r # a
                 /\ borrowed' = [borrowed EXCEPT !.from = a]
    BY <1>5 DEF MovesWithRoot
  <2>3. x # NULL /\ x # r /\ x \in Reach(r) /\ r \in roots /\ r \in DOMAIN node
    BY <2>1, <2>2 DEF BorrowInv, IInv, TypeOK
  <2>4. borrowed'.at = x /\ borrowed'.from = a
    BY <2>2
  <2>5. x # a
    BY <2>2, <2>3, ReachRules DEF Grown, LeavesAlone, ReachLaws
  <2>6. /\ DOMAIN node' = DOMAIN node /\ IsElement(r, a)' /\ Reach(r) \subseteq DOMAIN node'
    BY <2>2, <2>3, ReachRules DEF Attached, IInv, TypeOK, ReachLaws
  <2>7. x \in Reach(r)'
    BY <1>1, <2>3, <2>6, ReachKept
  <2>8. ReachLaws' /\ a \in DOMAIN node'
    BY <1>1, <2>2, ReachLawsNext DEF Outcome, IInv, TypeOK
  <2>9. r \in Reach(a)'
    BY <2>3, <2>6, <2>8 DEF ReachLaws
  <2>10. x \in Reach(a)'
    BY <2>7, <2>8, <2>9 DEF ReachLaws
  <2> QED BY <2>2, <2>4, <2>5, <2>10 DEF BorrowInv
<1> QED BY <1>1, <1>2, <1>3, <1>4, <1>5 DEF Outcome

\* What a caller has borrowed lies below a value it owns (value.c:197).
THEOREM BorrowedIsBelowItsRoot == Spec => []BorrowInv
<1>1. Init => BorrowInv
  BY DEF Init, BorrowInv
<1>2. IInv /\ BorrowInv /\ [Next]_vars => BorrowInv'
  BY BorrowStep
<1> QED BY <1>1, <1>2, HeapInvariant, PTL DEF Spec

\* What is borrowed is left as it was, down to the leaves, until its owner is freed
\* (value.h:81).
THEOREM BorrowedIsStable == Spec => BorrowedStays
<1>1. IInv /\ BorrowInv /\ [Next]_vars =>
        [borrowed.at # NULL /\ borrowed'.at = borrowed.at =>
           \A a \in Reach(borrowed.at) : a \in DOMAIN node' /\ Shows(a)' = Shows(a)]_vars
  <2> SUFFICES ASSUME IInv, BorrowInv, [Next]_vars,
                      borrowed.at # NULL, borrowed'.at = borrowed.at
               PROVE  \A a \in Reach(borrowed.at) : a \in DOMAIN node' /\ Shows(a)' = Shows(a)
    OBVIOUS
  <2> QED BY EveryOutcome, BorrowedLeftAlone
<1> QED BY <1>1, HeapInvariant, BorrowedIsBelowItsRoot, PTL DEF Spec, BorrowedStays
=============================================================================
