--------------------------- MODULE SnapshotProofs ---------------------------
(***************************************************************************)
(* Theorems about Snapshot, for all PHP values and any limit: what is        *)
(* accepted is exactly what can be transferred, the answer mirrors what was  *)
(* asked for, and a refusal leaves nothing behind.  The invariant follows    *)
(* the stack: each call was made for the element its caller has come to, and *)
(* the elements before that one are in the container and end in time.        *)
(***************************************************************************)
EXTENDS Snapshot, SequenceTheorems, WellFoundedInduction, TLAPS

-----------------------------------------------------------------------------
\* The inductive invariant.

\* What is left of the limit below the first k calls.
Left(k) == MaxDepth + 1 - k

\* The element frame f has come to, and what is captured of it.
At(f) == Elements(f.zv)[f.done]
AtTarget(f) == Target(f.zv, At(f))

\* The zval whose capture is running or over.
Asked == IF stack = <<>> THEN root ELSE AtTarget(Top)

\* Whether the k-th call waits for the capture of an element, and how many of
\* its elements are behind it.
Awaits(k) == k < Len(stack) \/ now.step # "loop"
Past(k) == IF Awaits(k) THEN stack[k].done - 1 ELSE stack[k].done

HasKey(v, key) == \E j \in 1 .. Len(v.items) : v.items[j].key = key

\* A container of the right kind, begun by somebody who waits for it.
FrameOK(f) ==
  /\ f.zv.tag \in {"array", "object"} /\ ~Refused(f.zv)
  /\ f.zv.tag = "array" => f.v.tag = "arr"
  /\ f.zv.tag = "object" => f.v.tag = "obj" /\ f.v.cls = Class(f.zv.handle).name
  /\ f.done <= Len(Elements(f.zv))
WaitOK(f) ==
  /\ f.done >= 1
  /\ f.zv.tag = "object" => At(f).val # Undef /\ ~HasKey(f.v, At(f).key)
\* The elements behind a loop: captured in order; or, for an object, captured
\* once each, but for what is not set.
ArraySoFar(f, n) ==
  /\ Len(f.v.items) = n
  /\ \A i \in 1 .. n :
       /\ f.v.items[i].key = f.zv.items[i].key
       /\ <<f.v.items[i].val, f.zv.items[i].val>> \in captured
ObjectSoFar(f, n) ==
  /\ \A i, j \in 1 .. Len(f.v.items) : f.v.items[i].key = f.v.items[j].key => i = j
  /\ \A j \in 1 .. Len(f.v.items) : \E i \in 1 .. n :
       /\ Elements(f.zv)[i].val \notin {Undef, Indirect}
       /\ f.v.items[j].key = Elements(f.zv)[i].key
       /\ <<f.v.items[j].val, ZVAL_DEREF(Elements(f.zv)[i].val)>> \in captured
  /\ \A i \in 1 .. n :
       Elements(f.zv)[i].val # Undef => HasKey(f.v, Elements(f.zv)[i].key)
SoFar(f, n) == IF f.zv.tag = "array" THEN ArraySoFar(f, n) ELSE ObjectSoFar(f, n)
EndSoFar(f, n, left) ==
  \A i \in 1 .. n :
    LET e == Elements(f.zv)[i]
    IN (f.zv.tag = "object" => e.val \notin {Undef, Indirect}) =>
         Target(f.zv, e) \in EndsWithin[left]

\* The k-th call, and all of them.
CallOK(k) ==
  /\ FrameOK(stack[k])
  /\ Awaits(k) => WaitOK(stack[k])
  /\ stack[k].zv = IF k = 1 THEN root ELSE AtTarget(stack[k - 1])
  /\ SoFar(stack[k], Past(k))
  /\ EndSoFar(stack[k], Past(k), Left(k))
Calls == \A k \in 1 .. Len(stack) : CallOK(k)

\* The answer of a call is for what was asked.
Answers ==
  /\ now.step = "loop" => stack # <<>>
  /\ now.step = "call" => now.zv = Asked
  /\ now.step = "value" => /\ <<now.v, Asked>> \in captured
                           /\ Asked \in EndsWithin[Left(Len(stack))]
  /\ now.step = "null" => Asked \notin EndsWithin[Left(Len(stack))]

\* What was made mirrors what it was made of, and has a shape of its own.
Shaped(v) == v.tag \in Scalar \/ v \in ContainerType
Exact == \A p \in captured : Shaped(p[1]) /\ p[2] \in Zvals /\ Mirrors(p[1], p[2])

IInv == TypeOK /\ RefusalLeaksNothing /\ Calls /\ Answers /\ Exact

-----------------------------------------------------------------------------
\* Sequences.

LEMMA FunctionIsSeq ==
  ASSUME NEW S, NEW n \in Nat, NEW f \in [1 .. n -> S]
  PROVE  f \in Seq(S) /\ Len(f) = n
  BY SeqDef

\* A concatenation, seen from its parts and from its entries.
Joins(u, s, t, n) ==
  /\ Len(u) = n + Len(t)
  /\ \A i \in 1 .. n : i \in 1 .. Len(u) /\ u[i] = s[i]
  /\ \A i \in 1 .. Len(t) : i + n \in 1 .. Len(u) /\ u[i + n] = t[i]
  /\ \A i \in 1 .. Len(u) : i > n => i - n \in 1 .. Len(t) /\ u[i] = t[i - n]

LEMMA ConcatAt ==
  ASSUME NEW S, NEW s \in Seq(S), NEW t \in Seq(S), NEW n, n = Len(s),
         NEW u, u = s \o t
  PROVE  u \in Seq(S) /\ Joins(u, s, t, n)
  BY ConcatProperties, LenProperties DEF Joins

-----------------------------------------------------------------------------
\* The values of the engine.

\* What an object's loops run over.
Own(h) == [i \in DOMAIN Class(h).props |-> Item(Class(h).props[i], Indirect)]
ElementType == [key : Keys, val : Zvals \cup {Undef, Indirect}]

LEMMA ObjectElements ==
  ASSUME objects \in Objects, NEW zv \in Zvals, zv.tag = "object",
         NEW h, h = zv.handle
  PROVE  /\ h \in DOMAIN ClassOf /\ Class(h).props \in Seq(Keys)
         /\ IsObject(h, objects[h])
         /\ Elements(zv) = Declared(h) \o PropertiesTable(h)
         /\ Declared(h) \in Seq(ElementType)
         /\ Len(Declared(h)) = Len(Class(h).props)
         /\ Own(h) \in Seq(ElementType) /\ Len(Own(h)) = Len(Class(h).props)
         /\ objects[h].added \in Seq(ElementType)
         /\ PropertiesTable(h) =
              IF objects[h].table THEN Own(h) \o objects[h].added ELSE <<>>
         /\ PropertiesTable(h) \in Seq(ElementType)
  <1> DEFINE props == Class(h).props
  <1>1. h \in DOMAIN ClassOf
    BY ZvalAssumption
  <1>2. props \in Seq(Keys) /\ IsObject(h, objects[h])
    BY <1>1, SnapshotAssumption
  <1>3. Elements(zv) = Declared(h) \o PropertiesTable(h)
    BY DEF Elements
  <1>4. Len(props) \in Nat /\ DOMAIN props = 1 .. Len(props)
        /\ \A i \in 1 .. Len(props) : props[i] \in Keys
    BY <1>2
  <1>5. /\ Declared(h) \in Seq(ElementType)
        /\ Len(Declared(h)) = Len(props)
    <2>1. \A i \in 1 .. Len(props) : objects[h].slots[i] \in Zvals \cup {Undef}
      BY <1>2, <1>4 DEF IsObject
    <2>2. \A i \in 1 .. Len(props) :
            Item(props[i], objects[h].slots[i]) \in ElementType
      BY <1>4, <2>1 DEF Item, ElementType
    <2>3. Declared(h) \in [1 .. Len(props) -> ElementType]
      BY <1>4, <2>2 DEF Declared
    <2> QED  BY <2>3, <1>4, FunctionIsSeq
  <1>6. Own(h) \in Seq(ElementType) /\ Len(Own(h)) = Len(props)
    <2>1. \A i \in 1 .. Len(props) : Item(props[i], Indirect) \in ElementType
      BY <1>4 DEF Item, ElementType
    <2>2. Own(h) \in [1 .. Len(props) -> ElementType]
      BY <1>4, <2>1 DEF Own
    <2> QED  BY <2>2, <1>4, FunctionIsSeq
  <1>7. objects[h].added \in Seq(ElementType)
    <2>1. objects[h].added \in Seq([key : Keys, val : Zvals])
      BY <1>2 DEF IsObject
    <2>2. [key : Keys, val : Zvals] \subseteq ElementType
      BY DEF ElementType
    <2> QED  BY <2>1, <2>2, SeqMonotonic
  <1>8. PropertiesTable(h) =
          IF objects[h].table THEN Own(h) \o objects[h].added ELSE <<>>
    BY DEF PropertiesTable, Own
  <1>9. PropertiesTable(h) \in Seq(ElementType)
    BY <1>6, <1>7, <1>8, ConcatAt
  <1> QED  BY <1>1, <1>2, <1>3, <1>5, <1>6, <1>7, <1>8, <1>9

LEMMA ElementsType ==
  ASSUME objects \in Objects, NEW zv \in Zvals, zv.tag \in {"array", "object"}
  PROVE  /\ Elements(zv) \in Seq(ElementType)
         /\ zv.tag = "array" => /\ Elements(zv) = zv.items
                                /\ Elements(zv) \in Seq([key : Keys, val : Zvals])
  <1>1. CASE zv.tag = "array"
    <2>1. Elements(zv) = zv.items /\ zv.items \in Seq([key : Keys, val : Zvals])
      BY <1>1, ZvalAssumption DEF Elements
    <2>2. [key : Keys, val : Zvals] \subseteq ElementType
      BY DEF ElementType
    <2> QED  BY <2>1, <2>2, SeqMonotonic
  <1>2. CASE zv.tag = "object"
    <2>1. /\ Elements(zv) = Declared(zv.handle) \o PropertiesTable(zv.handle)
          /\ Declared(zv.handle) \in Seq(ElementType)
          /\ PropertiesTable(zv.handle) \in Seq(ElementType)
      BY <1>2, ObjectElements
    <2> QED  BY <2>1, <1>2, ConcatAt
  <1> QED  BY <1>1, <1>2

\* The i-th declared property; then, if there is a table, as many entries that
\* point to them, and the added properties.
IsEntry(e, i, h, n) ==
  \/ i \in 1 .. n /\ e = Item(Class(h).props[i], objects[h].slots[i])
  \/ /\ objects[h].table /\ i - n \in 1 .. n
     /\ e = Item(Class(h).props[i - n], Indirect)
  \/ /\ objects[h].table /\ i - 2 * n \in 1 .. Len(objects[h].added)
     /\ e = objects[h].added[i - 2 * n]

LEMMA ElementAt ==
  ASSUME objects \in Objects, NEW zv \in Zvals, zv.tag = "object",
         NEW h, h = zv.handle, NEW n, n = Len(Class(h).props),
         NEW i \in 1 .. Len(Elements(zv))
  PROVE  IsEntry(Elements(zv)[i], i, h, n)
  <1>1. n \in Nat /\ DOMAIN Class(h).props = 1 .. n
    BY ObjectElements
  <1>2. Elements(zv) = Declared(h) \o PropertiesTable(h)
    BY ObjectElements
  <1>3. Declared(h) \in Seq(ElementType) /\ PropertiesTable(h) \in Seq(ElementType)
        /\ Len(Declared(h)) = n
    BY ObjectElements
  <1>4. Joins(Elements(zv), Declared(h), PropertiesTable(h), n)
    BY <1>2, <1>3, ConcatAt
  <1>5. CASE i <= n
    <2>1. i \in 1 .. n
      BY <1>1, <1>5
    <2>2. Elements(zv)[i] = Declared(h)[i]
      BY <2>1, <1>4 DEF Joins
    <2>3. Declared(h)[i] = Item(Class(h).props[i], objects[h].slots[i])
      BY <1>1, <2>1 DEF Declared
    <2> QED  BY <2>1, <2>3, <2>2 DEF IsEntry
  <1>6. CASE i > n
    <2>1. /\ i - n \in 1 .. Len(PropertiesTable(h))
          /\ Elements(zv)[i] = PropertiesTable(h)[i - n]
      BY <1>6, <1>4 DEF Joins
    <2>2. objects[h].table /\ PropertiesTable(h) = Own(h) \o objects[h].added
      <3>1. PropertiesTable(h) # <<>>
        BY <2>1, <1>1
      <3> QED  BY <3>1, ObjectElements
    <2>3. /\ Own(h) \in Seq(ElementType) /\ Len(Own(h)) = n
          /\ objects[h].added \in Seq(ElementType)
      BY ObjectElements
    <2>4. Joins(PropertiesTable(h), Own(h), objects[h].added, n)
      BY <2>2, <2>3, ConcatAt
    <2>5. CASE i - n <= n
      <3>1. i - n \in 1 .. n
        BY <2>1, <2>5, <1>1
      <3>2. PropertiesTable(h)[i - n] = Own(h)[i - n]
        BY <3>1, <2>4 DEF Joins
      <3>3. Own(h)[i - n] = Item(Class(h).props[i - n], Indirect)
        BY <3>1, <1>1 DEF Own
      <3> QED  BY <3>1, <3>3, <3>2, <2>1, <2>2 DEF IsEntry
    <2>6. CASE i - n > n
      <3>1. /\ (i - n) - n \in 1 .. Len(objects[h].added)
            /\ PropertiesTable(h)[i - n] = objects[h].added[(i - n) - n]
        BY <2>1, <2>4, <2>6, <1>1 DEF Joins
      <3>2. (i - n) - n = i - 2 * n
        BY <1>1
      <3> QED  BY <3>1, <3>2, <2>1, <2>2 DEF IsEntry
    <2> QED  BY <2>5, <2>6, <2>1, <1>1
  <1> QED  BY <1>1, <1>5, <1>6

\* Where each property is found.
HasEntries(es, h, n) ==
  /\ \A j \in 1 .. n :
       /\ j \in 1 .. Len(es)
       /\ es[j] = Item(Class(h).props[j], objects[h].slots[j])
  /\ objects[h].table => \A j \in 1 .. n :
       j + n \in 1 .. Len(es) /\ es[j + n] = Item(Class(h).props[j], Indirect)
  /\ \A j \in 1 .. Len(objects[h].added) :
       j + 2 * n \in 1 .. Len(es) /\ es[j + 2 * n] = objects[h].added[j]

LEMMA ElementOf ==
  ASSUME objects \in Objects, NEW zv \in Zvals, zv.tag = "object",
         NEW h, h = zv.handle, NEW n, n = Len(Class(h).props)
  PROVE  HasEntries(Elements(zv), h, n)
  <1>1. n \in Nat /\ DOMAIN Class(h).props = 1 .. n
    BY ObjectElements
  <1>2. Elements(zv) = Declared(h) \o PropertiesTable(h)
    BY ObjectElements
  <1>3. Declared(h) \in Seq(ElementType) /\ PropertiesTable(h) \in Seq(ElementType)
        /\ Len(Declared(h)) = n
    BY ObjectElements
  <1>4. Joins(Elements(zv), Declared(h), PropertiesTable(h), n)
    BY <1>2, <1>3, ConcatAt
  <1>5. ASSUME NEW j \in 1 .. n
        PROVE  /\ j \in 1 .. Len(Elements(zv))
               /\ Elements(zv)[j] = Item(Class(h).props[j], objects[h].slots[j])
    <2>1. Declared(h)[j] = Item(Class(h).props[j], objects[h].slots[j])
      BY <1>1 DEF Declared
    <2> QED  BY <2>1, <1>4 DEF Joins
  <1>6. \A j \in 1 .. Len(PropertiesTable(h)) :
          /\ j + n \in 1 .. Len(Elements(zv))
          /\ Elements(zv)[j + n] = PropertiesTable(h)[j]
    BY <1>4 DEF Joins
  <1>7. /\ Own(h) \in Seq(ElementType) /\ Len(Own(h)) = n
        /\ objects[h].added \in Seq(ElementType)
        /\ objects[h].table => PropertiesTable(h) = Own(h) \o objects[h].added
    BY ObjectElements
  <1>8. objects[h].table => Joins(PropertiesTable(h), Own(h), objects[h].added, n)
    BY <1>7, ConcatAt
  <1>9. ASSUME objects[h].table, NEW j \in 1 .. n
        PROVE  /\ j + n \in 1 .. Len(Elements(zv))
               /\ Elements(zv)[j + n] = Item(Class(h).props[j], Indirect)
    <2>1. j \in 1 .. Len(PropertiesTable(h)) /\ PropertiesTable(h)[j] = Own(h)[j]
      BY <1>9, <1>8 DEF Joins
    <2>2. Own(h)[j] = Item(Class(h).props[j], Indirect)
      BY <1>1 DEF Own
    <2> QED  BY <2>1, <2>2, <1>6
  <1>10. ASSUME NEW j \in 1 .. Len(objects[h].added)
        PROVE  /\ j + 2 * n \in 1 .. Len(Elements(zv))
               /\ Elements(zv)[j + 2 * n] = objects[h].added[j]
    <2>1. objects[h].table
      BY <1>7, ObjectElements DEF IsObject
    <2>2. /\ j + n \in 1 .. Len(PropertiesTable(h))
          /\ PropertiesTable(h)[j + n] = objects[h].added[j]
      BY <2>1, <1>8 DEF Joins
    <2>3. (j + n) + n = j + 2 * n
      BY <1>1, <1>7
    <2> QED  BY <2>2, <2>3, <1>6
  <1> QED  BY <1>5, <1>9, <1>10 DEF HasEntries

\* The properties of an object are the elements that are set.
IsSet(e) == e.val \notin {Undef, Indirect}

LEMMA TargetType ==
  ASSUME objects \in Objects, cells \in Cells,
         NEW zv \in Zvals, zv.tag \in {"array", "object"},
         NEW i \in 1 .. Len(Elements(zv))
  PROVE  /\ Elements(zv)[i] \in ElementType
         /\ zv.tag = "array" => IsSet(Elements(zv)[i])
         /\ Elements(zv)[i].val # Undef =>
              Target(zv, Elements(zv)[i]) \in Zvals \cup {Indirect}
         /\ IsSet(Elements(zv)[i]) => Target(zv, Elements(zv)[i]) \in Zvals
  <1> DEFINE e == Elements(zv)[i]
  <1>1. e \in ElementType
    BY ElementsType, ElementOfSeq
  <1>2. zv.tag = "array" => e \in [key : Keys, val : Zvals]
    BY ElementsType, ElementOfSeq
  <1>3. Indirect \notin Zvals /\ Undef \notin Zvals
    BY ZvalAssumption DEF Indirect, Scalar
  <1>4. e.val \in Zvals \cup {Undef, Indirect}
    BY <1>1 DEF ElementType
  <1>5. ASSUME NEW w \in Zvals PROVE ZVAL_DEREF(w) \in Zvals
    BY ZvalAssumption, SnapshotAssumption DEF ZVAL_DEREF
  <1>6. ZVAL_DEREF(Indirect) = Indirect
    BY DEF ZVAL_DEREF, Indirect
  <1> HIDE DEF e
  <1>7. /\ zv.tag = "array" => IsSet(e)
        /\ e.val # Undef => Target(zv, e) \in Zvals \cup {Indirect}
        /\ IsSet(e) => Target(zv, e) \in Zvals
    BY <1>2, <1>3, <1>4, <1>5, <1>6 DEF Target, IsSet
  <1> QED  BY <1>1, <1>7 DEF e

LEMMA SetElements ==
  ASSUME objects \in Objects, NEW zv \in Zvals, zv.tag = "object"
  PROVE  /\ \A i \in 1 .. Len(Elements(zv)) :
              IsSet(Elements(zv)[i]) => Elements(zv)[i] \in SetProps(zv.handle)
         /\ \A e \in SetProps(zv.handle) :
              IsSet(e) /\ \E i \in 1 .. Len(Elements(zv)) : e = Elements(zv)[i]
  <1>1. PICK h : h = zv.handle
    OBVIOUS
  <1>2. PICK n : n = Len(Class(h).props)
    OBVIOUS
  <1>3. IsObject(h, objects[h]) /\ n \in Nat /\ DOMAIN Class(h).props = 1 .. n
    BY <1>1, <1>2, ObjectElements
  <1>4. Indirect \notin Zvals /\ Undef \notin Zvals
    BY ZvalAssumption DEF Indirect, Scalar
  <1>5. ASSUME NEW i \in 1 .. Len(Elements(zv)), IsSet(Elements(zv)[i])
        PROVE  Elements(zv)[i] \in SetProps(h)
    <2>1. CASE /\ i \in 1 .. n
               /\ Elements(zv)[i] = Item(Class(h).props[i], objects[h].slots[i])
      <3>1. objects[h].slots[i] # Undef
        BY <1>5, <2>1 DEF IsSet, Item
      <3> QED  BY <2>1, <3>1, <1>3 DEF SetProps, Unset
    <2>2. CASE Elements(zv)[i] = Item(Class(h).props[i - n], Indirect)
      BY <1>5, <2>2 DEF IsSet, Item
    <2>3. CASE /\ i - 2 * n \in 1 .. Len(objects[h].added)
               /\ Elements(zv)[i] = objects[h].added[i - 2 * n]
      <3>1. DOMAIN objects[h].added = 1 .. Len(objects[h].added)
        BY <1>3 DEF IsObject
      <3> QED  BY <2>3, <3>1 DEF SetProps, ToSet
    <2>4. IsEntry(Elements(zv)[i], i, h, n)
      BY <1>1, <1>2, ElementAt
    <2> QED  BY <2>1, <2>2, <2>3, <2>4 DEF IsEntry
  <1>6. ASSUME NEW e \in SetProps(h)
        PROVE  IsSet(e) /\ \E i \in 1 .. Len(Elements(zv)) : e = Elements(zv)[i]
    <2>1. CASE \E i \in DOMAIN Class(h).props \ Unset(h) :
                 e = Item(Class(h).props[i], objects[h].slots[i])
      <3>1. PICK i \in 1 .. n : /\ e = Item(Class(h).props[i], objects[h].slots[i])
                                /\ objects[h].slots[i] # Undef
        BY <2>1, <1>3 DEF Unset
      <3>2. objects[h].slots[i] \in Zvals \cup {Undef}
        BY <1>3 DEF IsObject
      <3>3. IsSet(e)
        BY <3>1, <3>2, <1>4 DEF IsSet, Item
      <3>4. i \in 1 .. Len(Elements(zv)) /\ e = Elements(zv)[i]
        BY <3>1, <1>1, <1>2, ElementOf DEF HasEntries
      <3> QED  BY <3>3, <3>4
    <2>2. CASE e \in ToSet(objects[h].added)
      <3>1. PICK i \in 1 .. Len(objects[h].added) : e = objects[h].added[i]
        BY <2>2, <1>3 DEF ToSet, IsObject
      <3>2. e \in [key : Keys, val : Zvals]
        BY <3>1, <1>3, ElementOfSeq DEF IsObject
      <3>3. i + 2 * n \in 1 .. Len(Elements(zv)) /\ e = Elements(zv)[i + 2 * n]
        BY SMTT(60), <3>1, <1>1, <1>2, ElementOf DEF HasEntries
      <3> QED  BY <3>2, <3>3, <1>4 DEF IsSet
    <2> QED  BY <2>1, <2>2 DEF SetProps
  <1> QED  BY <1>1, <1>5, <1>6

\* No two of them have the same key.
LEMMA SetElementsDiffer ==
  ASSUME objects \in Objects, NEW zv \in Zvals, zv.tag = "object",
         NEW i \in 1 .. Len(Elements(zv)), IsSet(Elements(zv)[i]),
         NEW j \in 1 .. Len(Elements(zv)), IsSet(Elements(zv)[j]),
         Elements(zv)[i].key = Elements(zv)[j].key
  PROVE  i = j
  <1>1. PICK h : h = zv.handle
    OBVIOUS
  <1>2. PICK n : n = Len(Class(h).props)
    OBVIOUS
  <1>3. /\ IsObject(h, objects[h]) /\ n \in Nat /\ DOMAIN Class(h).props = 1 .. n
    BY <1>1, <1>2, ObjectElements
  <1>4. \A k, l \in 1 .. n : Class(h).props[k] = Class(h).props[l] => k = l
    BY <1>1, <1>3, ZvalAssumption, SnapshotAssumption
  <1>5. /\ \A k, l \in 1 .. Len(objects[h].added) :
             objects[h].added[k].key = objects[h].added[l].key => k = l
        /\ \A k \in 1 .. Len(objects[h].added), l \in 1 .. n :
             objects[h].added[k].key # Class(h).props[l]
    <2>1. /\ DOMAIN objects[h].added = 1 .. Len(objects[h].added)
          /\ DOMAIN objects[h].slots = 1 .. n
      BY <1>2, <1>3 DEF IsObject
    <2> QED  BY <2>1, <1>3 DEF IsObject
  <1>6. ASSUME NEW k \in 1 .. Len(Elements(zv)), IsSet(Elements(zv)[k])
        PROVE  \/ k \in 1 .. n /\ Elements(zv)[k].key = Class(h).props[k]
               \/ /\ k - 2 * n \in 1 .. Len(objects[h].added)
                  /\ Elements(zv)[k].key = objects[h].added[k - 2 * n].key
    <2>1. IsEntry(Elements(zv)[k], k, h, n)
      BY <1>1, <1>2, ElementAt
    <2> QED  BY <2>1, <1>6 DEF IsEntry, IsSet, Item
  <1>7. CASE i \in 1 .. n /\ Elements(zv)[i].key = Class(h).props[i]
    <2>1. CASE j \in 1 .. n /\ Elements(zv)[j].key = Class(h).props[j]
      BY <2>1, <1>4, <1>7
    <2>2. CASE /\ j - 2 * n \in 1 .. Len(objects[h].added)
               /\ Elements(zv)[j].key = objects[h].added[j - 2 * n].key
      BY <2>2, <1>5, <1>7
    <2> QED  BY <2>1, <2>2, <1>6
  <1>8. CASE /\ i - 2 * n \in 1 .. Len(objects[h].added)
             /\ Elements(zv)[i].key = objects[h].added[i - 2 * n].key
    <2>1. CASE j \in 1 .. n /\ Elements(zv)[j].key = Class(h).props[j]
      BY <2>1, <1>5, <1>8
    <2>2. CASE /\ j - 2 * n \in 1 .. Len(objects[h].added)
               /\ Elements(zv)[j].key = objects[h].added[j - 2 * n].key
      <3>1. i - 2 * n = j - 2 * n
        BY <2>2, <1>5, <1>8
      <3> QED  BY <3>1, <1>3
    <2> QED  BY <2>1, <2>2, <1>6
  <1> QED  BY <1>6, <1>7, <1>8

\* An entry of the table that points to a declared property comes after it.
LEMMA IndirectElement ==
  ASSUME objects \in Objects, NEW zv \in Zvals, zv.tag = "object",
         NEW i \in 1 .. Len(Elements(zv)), Elements(zv)[i].val = Indirect
  PROVE  /\ objects[zv.handle].table /\ i > Len(Class(zv.handle).props)
         /\ \E j \in 1 .. i - 1 :
              /\ j \in DOMAIN Class(zv.handle).props
              /\ Elements(zv)[j] = Item(Elements(zv)[i].key, objects[zv.handle].slots[j])
  <1>1. PICK h : h = zv.handle
    OBVIOUS
  <1>2. PICK n : n = Len(Class(h).props)
    OBVIOUS
  <1>3. /\ IsObject(h, objects[h]) /\ n \in Nat /\ DOMAIN Class(h).props = 1 .. n
    BY <1>1, <1>2, ObjectElements
  <1>4. Indirect \notin Zvals \cup {Undef}
    BY ZvalAssumption DEF Indirect, Undef, Scalar
  <1>5. objects[h].table /\ i - n \in 1 .. n
        /\ Elements(zv)[i].key = Class(h).props[i - n]
    <2>1. CASE /\ i \in 1 .. n
               /\ Elements(zv)[i] = Item(Class(h).props[i], objects[h].slots[i])
      BY <2>1, <1>3, <1>4 DEF IsObject, Item
    <2>2. CASE /\ i - 2 * n \in 1 .. Len(objects[h].added)
               /\ Elements(zv)[i] = objects[h].added[i - 2 * n]
      <3>1. PICK k \in 1 .. Len(objects[h].added) :
              Elements(zv)[i] = objects[h].added[k]
        BY <2>2
      <3>2. objects[h].added[k] \in [key : Keys, val : Zvals]
        BY <1>3, ElementOfSeq DEF IsObject
      <3> QED  BY <3>1, <3>2, <1>4
    <2>3. CASE /\ objects[h].table /\ i - n \in 1 .. n
               /\ Elements(zv)[i] = Item(Class(h).props[i - n], Indirect)
      BY <2>3 DEF Item
    <2>4. IsEntry(Elements(zv)[i], i, h, n)
      BY <1>1, <1>2, ElementAt
    <2> QED  BY <2>1, <2>2, <2>3, <2>4 DEF IsEntry
  <1>6. i - n \in 1 .. i - 1 /\ i > n
    BY <1>3, <1>5
  <1>7. Elements(zv)[i - n] = Item(Class(h).props[i - n], objects[h].slots[i - n])
    <2>1. HasEntries(Elements(zv), h, n)
      BY <1>1, <1>2, ElementOf
    <2> QED  BY <2>1, <1>5 DEF HasEntries
  <1> QED  BY <1>1, <1>2, <1>3, <1>5, <1>6, <1>7

\* Every declared property has such an entry if there is a table.
LEMMA IndirectOf ==
  ASSUME objects \in Objects, NEW zv \in Zvals, zv.tag = "object",
         objects[zv.handle].table, NEW j \in DOMAIN Class(zv.handle).props
  PROVE  /\ j \in 1 .. Len(Elements(zv))
         /\ Elements(zv)[j] = Item(Class(zv.handle).props[j],
                                   objects[zv.handle].slots[j])
         /\ \E i \in 1 .. Len(Elements(zv)) :
              Elements(zv)[i] = Item(Class(zv.handle).props[j], Indirect)
  <1>1. PICK h : h = zv.handle
    OBVIOUS
  <1>2. PICK n : n = Len(Class(h).props)
    OBVIOUS
  <1>3. j \in 1 .. n
    BY <1>1, <1>2, ObjectElements
  <1> QED  BY SMTT(60), <1>1, <1>2, <1>3, ElementOf DEF HasEntries

\* No element has the name of a declared property that is not initialised.
LEMMA NoSetElementOfUnset ==
  ASSUME objects \in Objects, NEW zv \in Zvals, zv.tag = "object",
         NEW k \in DOMAIN Class(zv.handle).props,
         objects[zv.handle].slots[k] = Undef,
         NEW j \in 1 .. Len(Elements(zv)), IsSet(Elements(zv)[j])
  PROVE  Elements(zv)[j].key # Class(zv.handle).props[k]
  <1>1. PICK h : h = zv.handle
    OBVIOUS
  <1>2. PICK n : n = Len(Class(h).props)
    OBVIOUS
  <1>3. IsObject(h, objects[h]) /\ n \in Nat /\ DOMAIN Class(h).props = 1 .. n
    BY <1>1, <1>2, ObjectElements
  <1>4. IsEntry(Elements(zv)[j], j, h, n)
    BY <1>1, <1>2, ElementAt
  <1>5. CASE j \in 1 .. n /\ Elements(zv)[j] = Item(Class(h).props[j], objects[h].slots[j])
    <2>1. j # k
      BY <1>1, <1>5 DEF IsSet, Item
    <2> QED  BY <2>1, <1>1, <1>3, <1>5, ZvalAssumption, SnapshotAssumption DEF Item
  <1>6. CASE /\ j - 2 * n \in 1 .. Len(objects[h].added)
             /\ Elements(zv)[j] = objects[h].added[j - 2 * n]
    <2>1. /\ DOMAIN objects[h].added = 1 .. Len(objects[h].added)
          /\ DOMAIN objects[h].slots = 1 .. n
      BY <1>2, <1>3 DEF IsObject
    <2>2. \A i \in 1 .. Len(objects[h].added), l \in 1 .. n :
            objects[h].added[i].key # Class(h).props[l]
      BY <2>1, <1>3 DEF IsObject
    <2> QED  BY <2>2, <1>1, <1>3, <1>6
  <1>7. CASE Elements(zv)[j] = Item(Class(h).props[j - n], Indirect)
    BY <1>7 DEF IsSet, Item
  <1> QED  BY <1>4, <1>5, <1>6, <1>7 DEF IsEntry

-----------------------------------------------------------------------------
\* EndsWithin is what its definition says.  A function that satisfies it up to
\* n exists for every n: for the least n without one, the function for n - 1
\* could be continued.
Above(S) == {zv \in Zvals : ~Forbidden(zv) /\ Children(zv) \subseteq S}
Iterate(f, m) == [n \in 0 .. m |-> IF n = 0 THEN {} ELSE Above(f[n - 1])]

LEMMA IterateExists ==
  ASSUME NEW m \in Nat
  PROVE  \E f : f = Iterate(f, m)
  <1> DEFINE Missing == {n \in Nat : ~\E f : f = Iterate(f, n)}
             R == {ss \in Nat \X Nat : ss[1] < ss[2]}
  <1> SUFFICES ASSUME Missing # {} PROVE FALSE
    OBVIOUS
  <1>1. IsWellFoundedOn(R, Nat)
    BY NatLessThanWellFounded DEF OpToRel
  <1>2. PICK d \in Missing : \A e \in Missing : ~(<<e, d>> \in R)
    <2>1. Missing \subseteq Nat
      OBVIOUS
    <2> HIDE DEF Missing
    <2> QED  BY <1>1, <2>1, WFMin
  <1>3. CASE d = 0
    <2> DEFINE g == [n \in 0 .. 0 |-> {}]
    <2>1. g = Iterate(g, 0)
      BY DEF Iterate
    <2> QED  BY <1>3, <2>1
  <1>4. CASE d # 0
    <2>1. d \in Nat /\ d - 1 \in Nat /\ <<d - 1, d>> \in R
      BY <1>4
    <2>2. PICK f : f = Iterate(f, d - 1)
      BY <2>1, <1>2
    <2> DEFINE g == Iterate(f, d)
    <2>3. ASSUME NEW n \in 0 .. d - 1 PROVE g[n] = f[n]
      <3>1. f[n] = IF n = 0 THEN {} ELSE Above(f[n - 1])
        BY <2>1, <2>2 DEF Iterate
      <3> QED  BY <3>1, <2>1 DEF Iterate
    <2>4. \A n \in 1 .. d : Above(f[n - 1]) = Above(g[n - 1])
      BY <2>1, <2>3
    <2>5. g = Iterate(g, d)
      <3>1. g = [n \in 0 .. d |-> IF n = 0 THEN {} ELSE Above(f[n - 1])]
        BY DEF Iterate
      <3> HIDE DEF g
      <3>2. \A n \in 0 .. d : n # 0 => n \in 1 .. d
        BY <2>1
      <3> QED  BY <3>1, <3>2, <2>4 DEF Iterate
    <2> QED  BY <2>1, <2>5
  <1> QED  BY <1>3, <1>4

LEMMA EndsWithinStep ==
  /\ EndsWithin[0] = {}
  /\ \A n \in 1 .. MaxDepth + 1 : EndsWithin[n] = Above(EndsWithin[n - 1])
  <1>1. MaxDepth \in Nat /\ MaxDepth + 1 \in Nat
    BY SnapshotAssumption
  <1>2. \E f : f = Iterate(f, MaxDepth + 1)
    BY <1>1, IterateExists
  <1>3. EndsWithin = Iterate(EndsWithin, MaxDepth + 1)
    BY <1>2 DEF EndsWithin, Iterate, Above
  <1>4. ASSUME NEW f, f = Iterate(f, MaxDepth + 1)
        PROVE  /\ f[0] = {}
               /\ \A n \in 1 .. MaxDepth + 1 : f[n] = Above(f[n - 1])
    <2>1. \A n \in 0 .. MaxDepth + 1 :
            f[n] = IF n = 0 THEN {} ELSE Above(f[n - 1])
      <3> DEFINE g == Iterate(f, MaxDepth + 1)
      <3>1. \A n \in 0 .. MaxDepth + 1 :
              g[n] = IF n = 0 THEN {} ELSE Above(f[n - 1])
        BY DEF Iterate
      <3> HIDE DEF g
      <3> QED  BY <3>1, <1>4 DEF g
    <2> QED  BY <2>1, <1>1
  <1> QED  BY <1>3, <1>4

-----------------------------------------------------------------------------
\* The graph of zvals stays as it is.
LEMMA ValuesStay ==
  ASSUME unchangedValues
  PROVE  /\ \A zv : Elements(zv)' = Elements(zv)
         /\ \A zv : ZVAL_DEREF(zv)' = ZVAL_DEREF(zv)
         /\ \A zv, e : Target(zv, e)' = Target(zv, e)
         /\ \A h : SetProps(h)' = SetProps(h)
         /\ EndsWithin' = EndsWithin
         /\ objects' = objects /\ cells' = cells /\ root' = root
  <1>1. objects' = objects /\ cells' = cells /\ root' = root
    BY DEF unchangedValues
  <1>2. \A zv : Elements(zv)' = Elements(zv)
    BY <1>1 DEF Elements, Declared, PropertiesTable
  <1>3. \A zv : ZVAL_DEREF(zv)' = ZVAL_DEREF(zv)
    BY <1>1 DEF ZVAL_DEREF
  <1>4. \A zv, e : Target(zv, e)' = Target(zv, e)
    BY <1>3 DEF Target
  <1>5. \A h : SetProps(h)' = SetProps(h)
    BY <1>1 DEF SetProps, Unset
  <1>6. EndsWithin' = EndsWithin
    BY <1>1, SMT DEF EndsWithin, Children, SetProps, Unset, ZVAL_DEREF
  <1> QED  BY <1>1, <1>2, <1>3, <1>4, <1>5, <1>6

-----------------------------------------------------------------------------
\* A zval ends within n + 1 levels exactly when it may be captured and its
\* elements end within n.
LEMMA Children_of_array ==
  ASSUME NEW zv \in Zvals, zv.tag = "array"
  PROVE  Children(zv) = {Elements(zv)[i].val : i \in 1 .. Len(Elements(zv))}
  <1>1. zv.items \in Seq([key : Keys, val : Zvals])
    BY ZvalAssumption
  <1> QED  BY <1>1 DEF Children, Elements, ToSet

LEMMA ScalarEnds ==
  ASSUME NEW zv \in Zvals, zv.tag \in Scalar, NEW n \in 1 .. MaxDepth + 1
  PROVE  zv \in EndsWithin[n]
  <1>1. ~Forbidden(zv) /\ Children(zv) = {}
    BY DEF Forbidden, Children, Scalar
  <1> QED  BY <1>1, EndsWithinStep DEF Above

LEMMA ArrayEnds ==
  ASSUME NEW zv \in Zvals, zv.tag = "array", NEW n \in 0 .. MaxDepth
  PROVE  zv \in EndsWithin[n + 1] <=>
           \A i \in 1 .. Len(Elements(zv)) : Elements(zv)[i].val \in EndsWithin[n]
  <1>1. n + 1 \in 1 .. MaxDepth + 1 /\ (n + 1) - 1 = n
    BY SnapshotAssumption
  <1>2. EndsWithin[n + 1] = Above(EndsWithin[n])
    BY <1>1, EndsWithinStep
  <1>3. ~Forbidden(zv)
    BY DEF Forbidden
  <1> QED  BY <1>2, <1>3, Children_of_array DEF Above

LEMMA RefusedEndsNever ==
  ASSUME NEW zv \in Zvals \cup {Indirect}, Refused(zv), NEW n \in 0 .. MaxDepth + 1
  PROVE  zv \notin EndsWithin[n]
  <1>1. CASE n = 0
    BY <1>1, EndsWithinStep
  <1>2. CASE n # 0
    <2>1. EndsWithin[n] = Above(EndsWithin[n - 1])
      BY <1>2, EndsWithinStep, SnapshotAssumption
    <2>2. Forbidden(zv)
      BY ZvalAssumption DEF Refused, Forbidden, Indirect, Scalar
    <2> QED  BY <2>1, <2>2 DEF Above
  <1> QED  BY <1>1, <1>2

LEMMA ReferenceEndsNever ==
  ASSUME NEW zv \in Zvals, zv.tag = "reference", NEW n \in 0 .. MaxDepth + 1
  PROVE  zv \notin EndsWithin[n]
  BY RefusedEndsNever DEF Refused, Scalar

\* An object of which each element is captured, or is not set and has been
\* passed over because an element of its name is.
LEMMA ObjectEnds ==
  ASSUME objects \in Objects, NEW zv \in Zvals, zv.tag = "object", ~Refused(zv),
         NEW n \in 0 .. MaxDepth,
         \A i \in 1 .. Len(Elements(zv)) :
           IsSet(Elements(zv)[i]) =>
             ZVAL_DEREF(Elements(zv)[i].val) \in EndsWithin[n],
         \A i \in 1 .. Len(Elements(zv)) : Elements(zv)[i].val = Indirect =>
           \E j \in 1 .. Len(Elements(zv)) :
             IsSet(Elements(zv)[j]) /\ Elements(zv)[j].key = Elements(zv)[i].key
  PROVE  zv \in EndsWithin[n + 1]
  <1>1. EndsWithin[n + 1] = Above(EndsWithin[n])
    <2>1. n + 1 \in 1 .. MaxDepth + 1 /\ (n + 1) - 1 = n
      BY SnapshotAssumption
    <2> QED  BY <2>1, EndsWithinStep
  <1>2. ~Forbidden(zv)
    BY DEF Forbidden, Refused
  <1>3. \A e \in SetProps(zv.handle) : ZVAL_DEREF(e.val) \in EndsWithin[n]
    BY SetElements
  <1>4. ASSUME objects[zv.handle].table, NEW k \in Unset(zv.handle) PROVE FALSE
    <2>1. k \in DOMAIN Class(zv.handle).props /\ objects[zv.handle].slots[k] = Undef
      BY <1>4 DEF Unset
    <2>2. PICK i \in 1 .. Len(Elements(zv)) :
            Elements(zv)[i] = Item(Class(zv.handle).props[k], Indirect)
      BY <1>4, <2>1, IndirectOf
    <2>3. PICK j \in 1 .. Len(Elements(zv)) :
            /\ IsSet(Elements(zv)[j])
            /\ Elements(zv)[j].key = Class(zv.handle).props[k]
      BY <2>2 DEF Item
    <2> QED  BY <2>1, <2>3, NoSetElementOfUnset
  <1>5. Children(zv) \subseteq EndsWithin[n]
    BY <1>3, <1>4 DEF Children
  <1> QED  BY <1>1, <1>2, <1>5 DEF Above

\* An object ends too late if one of its properties does, or is forbidden; or if
\* the table has an entry for a property of which no element is set.
LEMMA ObjectEndsNot ==
  ASSUME objects \in Objects, NEW zv \in Zvals, zv.tag = "object",
         NEW n \in 0 .. MaxDepth, NEW i \in 1 .. Len(Elements(zv)),
         \/ /\ IsSet(Elements(zv)[i])
            /\ ZVAL_DEREF(Elements(zv)[i].val) \notin EndsWithin[n]
         \/ /\ Elements(zv)[i].val = Indirect
            /\ \A j \in 1 .. i - 1 :
                 Elements(zv)[j].val # Undef => Elements(zv)[j].key # Elements(zv)[i].key
  PROVE  zv \notin EndsWithin[n + 1]
  <1>1. EndsWithin[n + 1] = Above(EndsWithin[n])
    <2>1. n + 1 \in 1 .. MaxDepth + 1 /\ (n + 1) - 1 = n
      BY SnapshotAssumption
    <2> QED  BY <2>1, EndsWithinStep
  <1>2. CASE /\ IsSet(Elements(zv)[i])
             /\ ZVAL_DEREF(Elements(zv)[i].val) \notin EndsWithin[n]
    <2>1. Elements(zv)[i] \in SetProps(zv.handle)
      BY <1>2, SetElements
    <2>2. ZVAL_DEREF(Elements(zv)[i].val) \in Children(zv)
      BY <2>1 DEF Children
    <2> QED  BY <1>1, <1>2, <2>2 DEF Above
  <1>3. CASE /\ Elements(zv)[i].val = Indirect
             /\ \A j \in 1 .. i - 1 :
                  Elements(zv)[j].val # Undef => Elements(zv)[j].key # Elements(zv)[i].key
    <2>1. /\ objects[zv.handle].table
          /\ \E j \in 1 .. i - 1 :
              /\ j \in DOMAIN Class(zv.handle).props
              /\ Elements(zv)[j] = Item(Elements(zv)[i].key, objects[zv.handle].slots[j])
      BY <1>3, IndirectElement
    <2>2. Unset(zv.handle) # {}
      BY <2>1, <1>3 DEF Unset, Item
    <2>3. Indirect \in Children(zv)
      BY <2>1, <2>2 DEF Children
    <2>4. Indirect \notin EndsWithin[n]
      BY RefusedEndsNever, SnapshotAssumption DEF Refused, Indirect, Scalar
    <2> QED  BY <1>1, <2>3, <2>4 DEF Above
  <1> QED  BY <1>2, <1>3

-----------------------------------------------------------------------------
\* What the invariant says of the stack and of its top.
LEMMA Basics ==
  ASSUME IInv
  PROVE  /\ MaxDepth \in Nat /\ Len(stack) \in 0 .. MaxDepth + 1
         /\ DOMAIN stack = 1 .. Len(stack)
         /\ \A k \in 1 .. Len(stack) :
              /\ stack[k] \in FrameType /\ stack[k].zv \in Zvals
              /\ stack[k].at \in Addresses /\ stack[k].done \in Nat
              /\ stack[k].v \in ContainerType
         /\ objects \in Objects /\ cells \in Cells /\ root \in Zvals
         /\ owned \subseteq Addresses
  <1>1. MaxDepth \in Nat /\ root \in Zvals
    BY SnapshotAssumption DEF IInv, TypeOK
  <1>2. stack \in Seq(FrameType)
    BY DEF IInv, TypeOK
  <1>3. /\ Len(stack) \in Nat /\ DOMAIN stack = 1 .. Len(stack)
        /\ \A k \in 1 .. Len(stack) : stack[k] \in FrameType
    BY <1>2, LenProperties, ElementOfSeq
  <1>4. \A f \in FrameType : /\ f.zv \in Zvals /\ f.at \in Addresses
                             /\ f.done \in Nat /\ f.v \in ContainerType
    BY DEF FrameType
  <1> QED  BY <1>1, <1>3, <1>4 DEF IInv, TypeOK

LEMMA FrameBasics ==
  ASSUME IInv, NEW k \in 1 .. Len(stack), NEW f, f = stack[k]
  PROVE  /\ FrameOK(f) /\ f.zv \in Zvals /\ f.zv.tag \in {"array", "object"}
         /\ f.v.items \in Seq(ItemType) /\ Len(f.v.items) \in Nat
         /\ DOMAIN f.v.items = 1 .. Len(f.v.items)
         /\ Elements(f.zv) \in Seq(ElementType) /\ Len(Elements(f.zv)) \in Nat
         /\ f.done \in 0 .. Len(Elements(f.zv))
         /\ Awaits(k) => /\ WaitOK(f) /\ f.done \in 1 .. Len(Elements(f.zv))
                         /\ AtTarget(f) \in Zvals \cup {Indirect}
  <1>1. CallOK(k) /\ f \in FrameType /\ f.zv \in Zvals /\ f.v \in ContainerType
        /\ f.done \in Nat
    BY Basics DEF IInv, Calls
  <1>2. FrameOK(f) /\ (Awaits(k) => WaitOK(f))
    BY <1>1 DEF CallOK
  <1>3. f.zv.tag \in {"array", "object"} /\ f.done <= Len(Elements(f.zv))
    BY <1>2 DEF FrameOK
  <1>4. f.v.items \in Seq(ItemType)
    BY <1>1 DEF ContainerType
  <1>5. Elements(f.zv) \in Seq(ElementType)
    BY <1>1, <1>3, Basics, ElementsType
  <1>6. Len(Elements(f.zv)) \in Nat
    BY <1>5
  <1>7. ASSUME Awaits(k)
        PROVE  /\ f.done \in 1 .. Len(Elements(f.zv))
               /\ AtTarget(f) \in Zvals \cup {Indirect}
    <2>1. f.done \in 1 .. Len(Elements(f.zv))
      BY <1>1, <1>2, <1>3, <1>6, <1>7 DEF WaitOK
    <2>2. IsSet(At(f)) \/ f.zv.tag = "object"
      BY <2>1, <1>1, <1>3, Basics, TargetType DEF At
    <2>3. At(f).val # Undef
      BY <2>2, <1>2, <1>7 DEF WaitOK, IsSet
    <2> QED  BY <2>1, <2>3, <1>1, <1>3, Basics, TargetType DEF AtTarget, At
  <1> QED  BY <1>1, <1>2, <1>3, <1>4, <1>5, <1>6, <1>7

LEMMA AskedType ==
  ASSUME IInv, now.step # "loop"
  PROVE  Asked \in Zvals \cup {Indirect}
  <1>1. CASE stack = <<>>
    BY <1>1, Basics DEF Asked
  <1>2. CASE stack # <<>>
    <2>1. Len(stack) \in 1 .. Len(stack)
      BY <1>2, Basics DEF IInv, TypeOK
    <2>2. Awaits(Len(stack))
      BY DEF Awaits
    <2> QED  BY <1>2, <2>1, <2>2, FrameBasics DEF Asked, Top
  <1> QED  BY <1>1, <1>2

\* What holds of a frame stays true while more is captured.
LEMMA FrameStays ==
  ASSUME unchangedValues, captured \subseteq captured'
  PROVE  /\ \A f : FrameOK(f)' = FrameOK(f)
         /\ \A f : WaitOK(f)' = WaitOK(f)
         /\ \A f : AtTarget(f)' = AtTarget(f)
         /\ \A f, n : SoFar(f, n) => SoFar(f, n)'
         /\ \A f, n, left : EndSoFar(f, n, left)' = EndSoFar(f, n, left)
  <1>1. \A f : FrameOK(f)' = FrameOK(f)
    BY ValuesStay DEF FrameOK
  <1>2. \A f : WaitOK(f)' = WaitOK(f)
    BY ValuesStay DEF WaitOK, At
  <1>3. \A f : AtTarget(f)' = AtTarget(f)
    BY ValuesStay DEF AtTarget, At
  <1>4. ASSUME NEW f, NEW n, SoFar(f, n) PROVE SoFar(f, n)'
    <2>1. ArraySoFar(f, n) => ArraySoFar(f, n)'
      BY DEF ArraySoFar
    <2>2. ObjectSoFar(f, n) => ObjectSoFar(f, n)'
      BY ValuesStay DEF ObjectSoFar
    <2> QED  BY <1>4, <2>1, <2>2 DEF SoFar
  <1>5. \A f, n, left : EndSoFar(f, n, left)' = EndSoFar(f, n, left)
    BY ValuesStay DEF EndSoFar
  <1> QED  BY <1>1, <1>2, <1>3, <1>4, <1>5

LEMMA CallStays ==
  ASSUME unchangedValues, captured \subseteq captured', NEW k, CallOK(k),
         stack'[k] = stack[k], k # 1 => stack'[k - 1] = stack[k - 1],
         Awaits(k)' = Awaits(k)
  PROVE  CallOK(k)'
  <1>1. Past(k)' = Past(k)
    BY DEF Past
  <1>2. stack'[k].zv = IF k = 1 THEN root' ELSE AtTarget(stack[k - 1])'
    BY FrameStays, ValuesStay DEF CallOK
  <1> QED  BY <1>1, <1>2, FrameStays DEF CallOK, Left

-----------------------------------------------------------------------------
\* The stack in a step: as it was, popped, or with another frame on top.
LEMMA TypesGrow ==
  ASSUME captured \subseteq captured'
  PROVE  /\ ItemType \subseteq ItemType' /\ ContainerType \subseteq ContainerType'
         /\ FrameType \subseteq FrameType'
  <1>1. Made \subseteq Made'
    BY DEF Made
  <1>2. ItemType \subseteq ItemType'
    BY <1>1 DEF ItemType
  <1>3. Seq(ItemType) \subseteq Seq(ItemType)'
    BY <1>2, SeqMonotonic
  <1>4. ContainerType \subseteq ContainerType'
    BY <1>3 DEF ContainerType
  <1> QED  BY <1>2, <1>4 DEF FrameType

LEMMA StackStays ==
  ASSUME IInv, unchangedValues, captured \subseteq captured', UNCHANGED stack,
         now.step # "loop", now'.step # "loop"
  PROVE  Calls' /\ Asked' = Asked /\ (stack \in Seq(FrameType))'
  <1>1. \A k : Awaits(k)' = Awaits(k)
    BY DEF Awaits
  <1>2. ASSUME NEW k \in 1 .. Len(stack) PROVE CallOK(k)'
    BY <1>1, CallStays DEF IInv, Calls
  <1>3. Asked' = Asked
    BY FrameStays, ValuesStay DEF Asked, Top
  <1>4. (stack \in Seq(FrameType))'
    BY TypesGrow, SeqMonotonic DEF IInv, TypeOK
  <1> QED  BY <1>2, <1>3, <1>4 DEF Calls

LEMMA StackPops ==
  ASSUME IInv, unchangedValues, captured \subseteq captured', stack # <<>>,
         stack' = Below, now'.step # "loop"
  PROVE  /\ Calls' /\ Asked' = Top.zv /\ (stack \in Seq(FrameType))'
         /\ Len(stack) \in 1 .. MaxDepth + 1 /\ Len(stack') = Len(stack) - 1
         /\ DOMAIN stack' = 1 .. Len(stack) - 1
         /\ \A k \in 1 .. Len(stack) - 1 : stack'[k] = stack[k]
  <1>1. Len(stack) \in 1 .. MaxDepth + 1 /\ Len(stack) \in Nat /\ MaxDepth \in Nat
    BY Basics DEF IInv, TypeOK
  <1>2. /\ stack' \in Seq(FrameType) /\ Len(stack') = Len(stack) - 1
        /\ \A k \in 1 .. Len(stack) - 1 : stack'[k] = stack[k]
    BY <1>1, Basics, SubSeqProperties DEF Below
  <1>3. ASSUME NEW k \in 1 .. Len(stack') PROVE CallOK(k)'
    <2>1. k \in 1 .. Len(stack) - 1 /\ k \in 1 .. Len(stack)
      BY <1>1, <1>2
    <2>2. Awaits(k) /\ Awaits(k)'
      BY <2>1, <1>1 DEF Awaits
    <2>3. k # 1 => k - 1 \in 1 .. Len(stack) - 1
      BY <2>1, <1>1
    <2> QED  BY <2>1, <2>2, <2>3, <1>2, CallStays DEF IInv, Calls
  <1>4. Asked' = Top.zv
    <2>1. Top.zv = IF Len(stack) = 1 THEN root ELSE AtTarget(stack[Len(stack) - 1])
      <3>1. CallOK(Len(stack))
        BY <1>1 DEF IInv, Calls
      <3> QED  BY <3>1, <1>1 DEF CallOK, Top
    <2>2. CASE Len(stack) = 1
      BY <1>2, <2>1, <2>2, ValuesStay DEF Asked
    <2>3. CASE Len(stack) # 1
      <3>1. /\ stack' # <<>> /\ Len(stack) - 1 \in 1 .. Len(stack) - 1
            /\ stack'[Len(stack')] = stack[Len(stack) - 1]
        BY <1>1, <1>2, <2>3
      <3>2. PICK f : f = stack[Len(stack) - 1]
        OBVIOUS
      <3>3. Top' = f
        BY <3>1, <3>2 DEF Top
      <3>4. Asked' = AtTarget(f)
        BY <3>1, <3>3, FrameStays DEF Asked
      <3> QED  BY <3>2, <3>4, <2>1, <2>3
    <2> QED  BY <2>2, <2>3
  <1>5. (stack \in Seq(FrameType))'
    BY <1>2, TypesGrow, SeqMonotonic
  <1>6. DOMAIN stack' = 1 .. Len(stack) - 1
    BY <1>2
  <1> QED  BY <1>1, <1>2, <1>3, <1>4, <1>5, <1>6 DEF Calls

\* With frame g on top, which has the zval of the frame it takes the place of.
TopBecomes(g) == stack' = [stack EXCEPT ![Len(stack)] = g]

LEMMA StackTurns ==
  ASSUME IInv, unchangedValues, captured \subseteq captured', stack # <<>>,
         NEW g \in FrameType', TopBecomes(g),
         g.zv = Top.zv, g.at = Top.at
  PROVE  /\ (stack \in Seq(FrameType))' /\ Len(stack') = Len(stack)
         /\ Len(stack) \in 1 .. MaxDepth + 1 /\ DOMAIN stack' = 1 .. Len(stack)
         /\ \A k \in 1 .. Len(stack) - 1 : stack'[k] = stack[k]
         /\ stack'[Len(stack)] = g
         /\ \A k \in 1 .. Len(stack) : stack'[k].at = stack[k].at
         /\ \A k \in 1 .. Len(stack) - 1 : CallOK(k)'
         /\ (Top.zv = IF Len(stack) = 1 THEN root
                     ELSE AtTarget(stack[Len(stack) - 1]))'
  <1>1. Len(stack) \in 1 .. MaxDepth + 1 /\ Len(stack) \in Nat /\ MaxDepth \in Nat
    BY Basics DEF IInv, TypeOK
  <1>2. stack \in Seq(FrameType)'
    BY TypesGrow, SeqMonotonic DEF IInv, TypeOK
  <1>3. /\ stack' \in Seq(FrameType)' /\ Len(stack') = Len(stack)
        /\ \A k \in 1 .. Len(stack) - 1 : stack'[k] = stack[k]
        /\ stack'[Len(stack)] = g
    BY <1>1, <1>2, ExceptSeq DEF TopBecomes
  <1>4. ASSUME NEW k \in 1 .. Len(stack) - 1 PROVE CallOK(k)'
    <2>1. Awaits(k) /\ Awaits(k)'
      <3>1. k < Len(stack) /\ k < Len(stack')
        BY <1>1, <1>3
      <3> QED  BY <3>1 DEF Awaits
    <2>2. k # 1 => k - 1 \in 1 .. Len(stack) - 1
      BY <1>1
    <2>3. k \in 1 .. Len(stack) /\ CallOK(k) /\ stack'[k] = stack[k]
      BY <1>1, <1>3 DEF IInv, Calls
    <2> QED  BY <2>1, <2>2, <2>3, <1>3, CallStays
  <1>5. (Top.zv = IF Len(stack) = 1 THEN root ELSE AtTarget(stack[Len(stack) - 1]))'
    <2>1. Top.zv = IF Len(stack) = 1 THEN root ELSE AtTarget(stack[Len(stack) - 1])
      <3>1. CallOK(Len(stack))
        BY <1>1 DEF IInv, Calls
      <3> QED  BY <3>1, <1>1 DEF CallOK, Top
    <2>2. PICK f : f = stack[Len(stack) - 1]
      OBVIOUS
    <2>3. \A m \in Nat : m = 0 \/ m = 1 \/ (m # 1 /\ m - 1 \in 1 .. m - 1)
      OBVIOUS
    <2>4. CASE Len(stack) = 1
      BY <1>3, <2>1, <2>4, ValuesStay DEF Top
    <2>5. CASE Len(stack) # 1 /\ Len(stack) - 1 \in 1 .. Len(stack) - 1
      <3>1. Top'.zv = Top.zv /\ stack'[Len(stack) - 1] = f
        BY <1>3, <2>2, <2>5 DEF Top
      <3>2. (AtTarget(stack[Len(stack) - 1]))' = AtTarget(f)
        BY <1>3, <3>1, FrameStays
      <3> QED  BY <1>3, <3>1, <3>2, <2>5, <2>1, <2>2
    <2>6. Len(stack) # 0
      BY <1>1
    <2> QED  BY <1>1, <2>4, <2>3, <2>5, <2>6
  <1>6. \A k \in 1 .. Len(stack) : stack'[k].at = stack[k].at
    <2>1. \A k \in 1 .. Len(stack) : k = Len(stack) \/ k \in 1 .. Len(stack) - 1
      BY <1>1
    <2> QED  BY <1>3, <2>1 DEF Top
  <1>7. DOMAIN stack' = 1 .. Len(stack)
    BY <1>3
  <1> QED  BY <1>1, <1>3, <1>4, <1>5, <1>6, <1>7

-----------------------------------------------------------------------------
\* The steps, one by one.
LEMMA MirrorsStay ==
  ASSUME unchangedValues, captured \subseteq captured'
  PROVE  \A v, zv : Mirrors(v, zv) => Mirrors(v, zv)'
  <1>1. \A v, zv : MirrorsArray(v, zv) => MirrorsArray(v, zv)'
    BY DEF MirrorsArray
  <1>2. \A v, h : MirrorsObject(v, h) => MirrorsObject(v, h)'
    BY ValuesStay DEF MirrorsObject
  <1> QED  BY <1>1, <1>2 DEF Mirrors

LEMMA ExactGrows ==
  ASSUME Exact, unchangedValues, captured \subseteq captured',
         \A p \in captured' \ captured :
           Shaped(p[1])' /\ p[2] \in Zvals /\ Mirrors(p[1], p[2])'
  PROVE  Exact'
  <1>1. \A v : Shaped(v) => Shaped(v)'
    BY TypesGrow DEF Shaped
  <1> QED  BY <1>1, MirrorsStay DEF Exact

LEMMA NewIsFresh ==
  ASSUME Room
  PROVE  New \in Addresses /\ New \notin owned
  BY DEF Room, New

LEMMA RefuseOK ==
  ASSUME IInv, refuse
  PROVE  IInv'
  <1>1. /\ unchangedValues /\ captured \subseteq captured' /\ UNCHANGED stack
        /\ owned' = owned /\ captured' = captured
        /\ now.step = "call" /\ now'.step = "null"
    BY DEF refuse, Null
  <1>2. Calls' /\ Asked' = Asked /\ (stack \in Seq(FrameType))'
    BY <1>1, StackStays
  <1>3. TypeOK'
    BY <1>1, <1>2, ValuesStay DEF IInv, TypeOK
  <1>4. RefusalLeaksNothing'
    BY <1>1 DEF IInv, RefusalLeaksNothing
  <1>5. Asked \notin EndsWithin[Left(Len(stack))]
    <2>1. Asked = now.zv /\ Asked \in Zvals \cup {Indirect}
      BY <1>1, AskedType DEF IInv, Answers
    <2>2. Left(Len(stack)) \in 0 .. MaxDepth + 1
      BY Basics DEF Left
    <2>3. CASE TooDeep(Len(stack))
      <3>1. Left(Len(stack)) = 0
        BY <2>3, Basics DEF TooDeep, Left
      <3> QED  BY <3>1, EndsWithinStep
    <2>4. CASE Refused(now.zv)
      BY <2>1, <2>2, <2>4, RefusedEndsNever
    <2> QED  BY <2>3, <2>4 DEF refuse
  <1>6. Answers'
    BY <1>1, <1>2, <1>5, ValuesStay DEF Answers, Left
  <1>7. Exact'
    BY <1>1, ExactGrows DEF IInv
  <1> QED  BY <1>2, <1>3, <1>4, <1>6, <1>7 DEF IInv

LEMMA ScalarOK ==
  ASSUME IInv, capture_scalar
  PROVE  IInv'
  <1>1. /\ unchangedValues /\ captured \subseteq captured' /\ UNCHANGED stack
        /\ captured' = captured \cup {<<now.zv, now.zv>>}
        /\ now.step = "call" /\ now'.step = "value"
        /\ now'.v = now.zv /\ now'.at = New /\ now.zv.tag \in Scalar
        /\ ~TooDeep(Len(stack))
    BY DEF capture_scalar, Value
  <1>2. New \in Addresses /\ New \notin owned /\ owned' = owned \cup {New}
    BY NewIsFresh DEF capture_scalar
  <1>3. Calls' /\ Asked' = Asked /\ (stack \in Seq(FrameType))'
    BY <1>1, StackStays
  <1>4. TypeOK'
    BY <1>1, <1>2, <1>3, ValuesStay DEF IInv, TypeOK
  <1>5. RefusalLeaksNothing'
    <2>1. /\ owned = {stack[k].at : k \in DOMAIN stack}
          /\ \A k, l \in DOMAIN stack : stack[k].at = stack[l].at => k = l
      BY <1>1 DEF IInv, RefusalLeaksNothing
    <2> QED  BY <2>1, <1>1, <1>2 DEF RefusalLeaksNothing
  <1>6. Asked = now.zv /\ Asked \in Zvals
    <2>1. Asked = now.zv /\ Asked \in Zvals \cup {Indirect}
      BY <1>1, AskedType DEF IInv, Answers
    <2> QED  BY <2>1, <1>1 DEF Indirect, Scalar
  <1>7. Asked \in EndsWithin[Left(Len(stack))]
    <2>1. Left(Len(stack)) \in 1 .. MaxDepth + 1
      BY <1>1, Basics DEF Left, TooDeep
    <2> QED  BY <2>1, <1>1, <1>6, ScalarEnds
  <1>8. Answers'
    BY <1>1, <1>3, <1>6, <1>7, ValuesStay DEF Answers, Left
  <1>9. Exact'
    <2>1. PICK zv : zv = now.zv
      OBVIOUS
    <2>2. Shaped(zv)' /\ zv \in Zvals /\ Mirrors(zv, zv)'
      BY <1>1, <1>6, <2>1 DEF Shaped, Mirrors, Scalar
    <2>3. \A p \in captured' \ captured :
            Shaped(p[1])' /\ p[2] \in Zvals /\ Mirrors(p[1], p[2])'
      BY <1>1, <2>1, <2>2
    <2> QED  BY <1>1, <2>3, ExactGrows DEF IInv
  <1> QED  BY <1>3, <1>4, <1>5, <1>8, <1>9 DEF IInv

\* A call of array_to_value or object_to_value.
LEMMA EnterOK ==
  ASSUME IInv, now.step = "call", NEW container, enter(container),
         \/ now.zv.tag = "array" /\ container = value_arr
         \/ /\ now.zv.tag = "object"
            /\ container = value_obj(Class(now.zv.handle).name)
  PROVE  IInv'
  <1> DEFINE f == [zv |-> now.zv, v |-> container, at |-> New, done |-> 0]
  <1>1. PICK n : n = Len(stack) + 1
    OBVIOUS
  <1>2. /\ unchangedValues /\ captured \subseteq captured' /\ captured' = captured
        /\ now'.step = "loop" /\ stack' = Append(stack, f)
        /\ ~TooDeep(Len(stack)) /\ ~Refused(now.zv)
    BY DEF enter, Loop
  <1>3. New \in Addresses /\ New \notin owned /\ owned' = owned \cup {New}
    BY NewIsFresh DEF enter
  <1>4. Asked = now.zv /\ now.zv \in Zvals
    <2>1. Asked = now.zv /\ Asked \in Zvals \cup {Indirect}
      BY AskedType DEF IInv, Answers
    <2> QED  BY <2>1 DEF Indirect
  <1>5. container \in ContainerType /\ container.items = <<>>
        /\ (now.zv.tag = "array" => container.tag = "arr")
        /\ (now.zv.tag = "object" =>
              container.tag = "obj" /\ container.cls = Class(now.zv.handle).name)
    <2>1. <<>> \in Seq(ItemType)
      OBVIOUS
    <2>2. CASE now.zv.tag = "array" /\ container = value_arr
      BY <2>1, <2>2 DEF ContainerType, value_arr
    <2>3. CASE /\ now.zv.tag = "object"
               /\ container = value_obj(Class(now.zv.handle).name)
      <3>1. now.zv.handle \in DOMAIN ClassOf
        BY <1>4, <2>3, ZvalAssumption
      <3> QED  BY <2>1, <2>3, <3>1 DEF ContainerType, value_obj
    <2> QED  BY <2>2, <2>3
  <1>6. f \in FrameType
    BY <1>3, <1>4, <1>5 DEF FrameType
  <1>7. PICK g : g = f
    OBVIOUS
  <1>8. /\ g \in FrameType /\ g.zv = now.zv /\ g.zv \in Zvals /\ g.done = 0
        /\ g.at = New /\ g.v = container /\ g.v.items = <<>>
    BY <1>4, <1>5, <1>6, <1>7
  <1>9. stack \in Seq(FrameType) /\ Len(stack) \in Nat /\ MaxDepth \in Nat
    BY Basics DEF IInv, TypeOK
  <1> HIDE DEF f
  <1>10. /\ stack' \in Seq(FrameType) /\ Len(stack') = n /\ DOMAIN stack' = 1 .. n
         /\ \A k \in 1 .. Len(stack) : stack'[k] = stack[k]
         /\ stack'[n] = g /\ n \in Nat /\ n - 1 = Len(stack)
    BY <1>2, <1>7, <1>8, <1>9, <1>1
  <1>11. (stack \in Seq(FrameType))'
    BY <1>2, <1>10, TypesGrow, SeqMonotonic
  <1>12. TypeOK'
    <2>1. n <= MaxDepth + 1
      BY <1>2, <1>9, <1>10 DEF TooDeep
    <2> QED  BY <1>2, <1>3, <1>10, <1>11, <2>1, ValuesStay DEF IInv, TypeOK
  <1>13. RefusalLeaksNothing'
    <2>1. /\ owned = {stack[k].at : k \in 1 .. Len(stack)}
          /\ \A k, l \in 1 .. Len(stack) : stack[k].at = stack[l].at => k = l
      BY Basics DEF IInv, RefusalLeaksNothing
    <2>2. \A k \in 1 .. n : k = n \/ k \in 1 .. Len(stack)
      BY <1>9, <1>10
    <2>3. \A k \in 1 .. Len(stack) : k \in 1 .. n
      BY <1>9, <1>10
    <2>4. n \in 1 .. n
      BY <1>9, <1>10
    <2>5. owned' = {stack'[k].at : k \in 1 .. n}
      BY <2>1, <2>2, <2>3, <2>4, <1>3, <1>8, <1>10
    <2>6. \A k, l \in 1 .. n : stack'[k].at = stack'[l].at => k = l
      BY <2>1, <2>2, <1>3, <1>8, <1>10
    <2> QED  BY <2>5, <2>6, <1>2, <1>10 DEF RefusalLeaksNothing
  <1>14. Calls'
    <2>1. ASSUME NEW k \in 1 .. Len(stack) PROVE CallOK(k)'
      <3>1. Awaits(k) /\ Awaits(k)'
        BY <1>9, <1>10 DEF Awaits
      <3>2. k # 1 => k - 1 \in 1 .. Len(stack)
        BY <1>9
      <3> QED  BY <3>1, <3>2, <1>2, <1>10, CallStays DEF IInv, Calls
    <2>2. CallOK(n)'
      <3>1. ~Awaits(n)' /\ Past(n)' = 0
        BY <1>2, <1>8, <1>10 DEF Awaits, Past
      <3>2. FrameOK(g)
        <4>1. g.zv.tag \in {"array", "object"}
          BY <1>8
        <4>2. Len(Elements(g.zv)) \in Nat
          BY <1>8, <4>1, Basics, ElementsType
        <4> QED  BY <1>2, <1>5, <1>8, <4>1, <4>2 DEF FrameOK
      <3>3. SoFar(g, 0) /\ EndSoFar(g, 0, Left(n))
        BY <1>8 DEF SoFar, ArraySoFar, ObjectSoFar, EndSoFar
      <3>4. (stack[n].zv = IF n = 1 THEN root ELSE AtTarget(stack[n - 1]))'
        <4>1. CASE stack = <<>>
          <5>1. n = 1
            BY <4>1, <1>10, <1>9
          <5> QED  BY <5>1, <4>1, <1>4, <1>8, <1>10, ValuesStay, <1>2 DEF Asked
        <4>2. CASE stack # <<>>
          <5>1. n # 1 /\ Len(stack) \in 1 .. Len(stack)
            BY <4>2, <1>9, <1>10
          <5>2. PICK t : t = stack[Len(stack)]
            OBVIOUS
          <5>3. (AtTarget(stack[n - 1]))' = AtTarget(t)
            BY <5>1, <5>2, <1>2, <1>10, FrameStays
          <5> QED  BY <5>1, <5>2, <5>3, <4>2, <1>4, <1>8, <1>10 DEF Asked, Top
        <4> QED  BY <4>1, <4>2
      <3> QED  BY <3>1, <3>2, <3>3, <3>4, <1>2, <1>10, FrameStays DEF CallOK, Left
    <2>3. \A k \in 1 .. n : k = n \/ k \in 1 .. Len(stack)
      BY <1>9, <1>10
    <2> QED  BY <2>1, <2>2, <2>3, <1>10 DEF Calls
  <1>15. Answers'
    BY <1>2, <1>9, <1>10 DEF Answers
  <1>16. Exact'
    BY <1>2, ExactGrows DEF IInv
  <1> QED  BY <1>12, <1>13, <1>14, <1>15, <1>16 DEF IInv

\* The loop on top, and its next element.
LEMMA InLoopBasics ==
  ASSUME IInv, InLoop, NEW n, n = Len(stack), NEW d, d = Top.done
  PROVE  /\ stack # <<>> /\ n \in 1 .. MaxDepth + 1 /\ n \in 1 .. n
         /\ Top = stack[n] /\ CallOK(n) /\ ~Awaits(n) /\ Past(n) = d
         /\ d \in Nat /\ d + 1 \in 1 .. Len(Elements(Top.zv))
         /\ Element = Elements(Top.zv)[d + 1]
         /\ Top \in FrameType /\ Top.zv \in Zvals
         /\ Top.zv.tag \in {"array", "object"} /\ FrameOK(Top)
         /\ SoFar(Top, d) /\ EndSoFar(Top, d, Left(n))
         /\ Left(n) \in 0 .. MaxDepth
  <1>1. stack # <<>> /\ now.step = "loop"
    BY DEF InLoop, IInv, Answers
  <1>2. n \in 1 .. MaxDepth + 1 /\ n \in 1 .. n /\ MaxDepth \in Nat /\ Top = stack[n]
    BY <1>1, Basics DEF IInv, TypeOK, Top
  <1>3. CallOK(n) /\ Top \in FrameType
    BY <1>2, Basics DEF IInv, Calls
  <1>4. ~Awaits(n)
    BY <1>1, <1>2 DEF Awaits
  <1>5. Past(n) = d
    BY <1>2, <1>4 DEF Past
  <1>6. /\ FrameOK(Top) /\ Top.zv \in Zvals /\ Top.zv.tag \in {"array", "object"}
        /\ Len(Elements(Top.zv)) \in Nat /\ d \in 0 .. Len(Elements(Top.zv))
    BY <1>2, FrameBasics
  <1>7. d \in Nat /\ d + 1 \in 1 .. Len(Elements(Top.zv))
    BY <1>6 DEF InLoop
  <1>8. Left(n) \in 0 .. MaxDepth
    BY <1>2 DEF Left
  <1> QED  BY <1>1, <1>2, <1>3, <1>4, <1>5, <1>6, <1>7, <1>8 DEF CallOK, Element

\* An element that is set has a name of its own among those behind the loop.
LEMMA SetElementIsNew ==
  ASSUME IInv, NEW f, f.zv \in Zvals, f.zv.tag = "object", NEW n \in Nat,
         n + 1 \in 1 .. Len(Elements(f.zv)), SoFar(f, n),
         IsSet(Elements(f.zv)[n + 1])
  PROVE  ~HasKey(f.v, Elements(f.zv)[n + 1].key)
  <1> SUFFICES ASSUME NEW j \in 1 .. Len(f.v.items),
                      f.v.items[j].key = Elements(f.zv)[n + 1].key
               PROVE  FALSE
    BY DEF HasKey
  <1>1. PICK i \in 1 .. n : /\ IsSet(Elements(f.zv)[i])
                            /\ Elements(f.zv)[i].key = Elements(f.zv)[n + 1].key
    BY DEF SoFar, ObjectSoFar, IsSet
  <1>2. i \in 1 .. Len(Elements(f.zv)) /\ i # n + 1
    <2>1. Len(Elements(f.zv)) \in Nat
      BY Basics, ElementsType
    <2> QED  BY <2>1
  <1> QED  BY <1>1, <1>2, Basics, SetElementsDiffer

\* The loop goes on: the frame with one more element behind it.
Next_done == stack' = [stack EXCEPT ![Len(stack)].done = @ + 1]

LEMMA LoopTurns ==
  ASSUME IInv, InLoop, unchangedValues, captured' = captured, Next_done,
         NEW n, n = Len(stack), NEW d, d = Top.done,
         NEW g, g = [Top EXCEPT !.done = d + 1]
  PROVE  /\ g.zv = Top.zv /\ g.v = Top.v /\ g.done = d + 1 /\ FrameOK(g)
         /\ (stack \in Seq(FrameType))' /\ Len(stack') = n
         /\ DOMAIN stack' = 1 .. n /\ DOMAIN stack = 1 .. n
         /\ stack'[n] = g
         /\ \A k \in 1 .. n : stack'[k].at = stack[k].at
         /\ \A k \in 1 .. n - 1 : CallOK(k)'
         /\ (stack[n].zv = IF n = 1 THEN root ELSE AtTarget(stack[n - 1]))'
  <1>1. TopBecomes(g)
    BY DEF Next_done, TopBecomes, Top
  <1>2. /\ stack # <<>> /\ n \in 1 .. n /\ Top = stack[n] /\ Top \in FrameType
        /\ d + 1 \in 1 .. Len(Elements(Top.zv)) /\ d \in Nat /\ FrameOK(Top)
    BY InLoopBasics
  <1>3. /\ g \in FrameType /\ g.zv = Top.zv /\ g.v = Top.v /\ g.at = Top.at
        /\ g.done = d + 1
    BY <1>2 DEF FrameType
  <1>4. FrameOK(g)
    BY <1>2, <1>3 DEF FrameOK
  <1>5. g \in FrameType'
    BY <1>3, TypesGrow
  <1> QED  BY <1>1, <1>2, <1>3, <1>4, <1>5, Basics, StackTurns DEF Top

LEMMA SkipOK ==
  ASSUME IInv, skip_element
  PROVE  IInv'
  <1>1. PICK n : n = Len(stack)
    OBVIOUS
  <1>2. PICK d : d = Top.done
    OBVIOUS
  <1>3. PICK g : g = [Top EXCEPT !.done = d + 1]
    OBVIOUS
  <1>4. /\ InLoop /\ Skipped(Element) /\ unchangedValues /\ Next_done
        /\ UNCHANGED <<now, owned, captured>> /\ now.step = "loop"
    BY DEF skip_element, InLoop, Next_done
  <1>5. /\ stack # <<>> /\ n \in 1 .. n /\ Top = stack[n] /\ d \in Nat
        /\ d + 1 \in 1 .. Len(Elements(Top.zv))
        /\ Element = Elements(Top.zv)[d + 1] /\ Top.zv \in Zvals
        /\ SoFar(Top, d) /\ EndSoFar(Top, d, Left(n))
    BY <1>1, <1>2, <1>4, InLoopBasics
  <1>6. /\ g.zv = Top.zv /\ g.v = Top.v /\ g.done = d + 1 /\ FrameOK(g)
        /\ (stack \in Seq(FrameType))' /\ Len(stack') = n
        /\ DOMAIN stack' = 1 .. n /\ DOMAIN stack = 1 .. n
        /\ stack'[n] = g
        /\ \A k \in 1 .. n : stack'[k].at = stack[k].at
        /\ \A k \in 1 .. n - 1 : CallOK(k)'
        /\ (stack[n].zv = IF n = 1 THEN root ELSE AtTarget(stack[n - 1]))'
    BY <1>1, <1>2, <1>3, <1>4, LoopTurns
  <1>7. /\ g.zv.tag = "object" /\ Top.zv.tag = "object"
        /\ Element.val = Undef \/ HasKey(g.v, Element.key)
    <2>1. DOMAIN Top.v.items = 1 .. Len(Top.v.items)
      BY <1>1, <1>5, FrameBasics
    <2> QED  BY <2>1, <1>4, <1>6 DEF Skipped, HasKey
  <1>8. SoFar(g, d + 1)
    <2>1. /\ \A i \in 1 .. d : i \in 1 .. d + 1
          /\ \A i \in 1 .. d + 1 : i \in 1 .. d \/ i = d + 1
      BY <1>5
    <2>2. ObjectSoFar(Top, d)
      BY <1>5, <1>7 DEF SoFar
    <2>3. ObjectSoFar(g, d + 1)
      BY SMTT(60), <2>1, <2>2, <1>5, <1>6, <1>7 DEF ObjectSoFar
    <2> QED  BY <2>3, <1>7 DEF SoFar
  <1>9. EndSoFar(g, d + 1, Left(n))
    <2>1. \A i \in 1 .. d + 1 : i \in 1 .. d \/ i = d + 1
      BY <1>5
    <2>2. ~IsSet(Element)
      <3>1. IsSet(Element) => ~HasKey(Top.v, Element.key)
        BY <1>5, <1>7, SetElementIsNew
      <3> QED  BY <3>1, <1>6, <1>7 DEF IsSet
    <2> QED  BY <2>1, <2>2, <1>5, <1>6, <1>7 DEF EndSoFar, IsSet
  <1>10. CallOK(n)'
    <2>1. ~Awaits(n)' /\ Past(n)' = d + 1
      BY <1>4, <1>5, <1>6 DEF Awaits, Past
    <2> QED  BY <2>1, <1>4, <1>6, <1>8, <1>9, FrameStays DEF CallOK, Left
  <1>11. Calls'
    <2>1. \A k \in 1 .. n : k = n \/ k \in 1 .. n - 1
      BY <1>5, <1>6, Basics
    <2> QED  BY <2>1, <1>6, <1>10 DEF Calls
  <1>12. TypeOK'
    BY <1>1, <1>4, <1>6, ValuesStay DEF IInv, TypeOK
  <1>13. RefusalLeaksNothing'
    BY <1>4, <1>6 DEF IInv, RefusalLeaksNothing
  <1>14. Answers'
    BY <1>4, <1>5, <1>6 DEF Answers
  <1>15. Exact'
    BY <1>4, ExactGrows DEF IInv
  <1> QED  BY <1>11, <1>12, <1>13, <1>14, <1>15 DEF IInv

\* What a frame has captured depends on its value and its snapshot alone.
LEMMA SameSoFar ==
  ASSUME NEW f, NEW g, NEW d, NEW left, g.zv = f.zv, g.v = f.v,
         SoFar(f, d), EndSoFar(f, d, left)
  PROVE  SoFar(g, d) /\ EndSoFar(g, d, left)
  <1>1. ArraySoFar(f, d) => ArraySoFar(g, d)
    BY DEF ArraySoFar
  <1>2. ObjectSoFar(f, d) => ObjectSoFar(g, d)
    BY DEF ObjectSoFar
  <1>3. SoFar(g, d)
    BY <1>1, <1>2 DEF SoFar
  <1>4. EndSoFar(g, d, left)
    BY DEF EndSoFar
  <1> QED  BY <1>3, <1>4

LEMMA CallElementOK ==
  ASSUME IInv, call_element
  PROVE  IInv'
  <1>1. PICK n : n = Len(stack)
    OBVIOUS
  <1>2. PICK d : d = Top.done
    OBVIOUS
  <1>3. PICK g : g = [Top EXCEPT !.done = d + 1]
    OBVIOUS
  <1>4. /\ InLoop /\ ~Skipped(Element) /\ unchangedValues /\ Next_done
        /\ UNCHANGED <<owned, captured>> /\ now.step = "loop"
        /\ now'.step = "call" /\ now'.zv = Target(Top.zv, Element)
    BY DEF call_element, InLoop, Next_done, Call
  <1>5. /\ stack # <<>> /\ n \in 1 .. n /\ Top = stack[n] /\ d \in Nat
        /\ d + 1 \in 1 .. Len(Elements(Top.zv))
        /\ Element = Elements(Top.zv)[d + 1] /\ Top.zv \in Zvals
        /\ SoFar(Top, d) /\ EndSoFar(Top, d, Left(n))
    BY <1>1, <1>2, <1>4, InLoopBasics
  <1>6. /\ g.zv = Top.zv /\ g.v = Top.v /\ g.done = d + 1 /\ FrameOK(g)
        /\ (stack \in Seq(FrameType))' /\ Len(stack') = n
        /\ DOMAIN stack' = 1 .. n /\ DOMAIN stack = 1 .. n
        /\ stack'[n] = g
        /\ \A k \in 1 .. n : stack'[k].at = stack[k].at
        /\ \A k \in 1 .. n - 1 : CallOK(k)'
        /\ (stack[n].zv = IF n = 1 THEN root ELSE AtTarget(stack[n - 1]))'
    BY <1>1, <1>2, <1>3, <1>4, LoopTurns
  <1>7. At(g) = Element /\ AtTarget(g) = Target(Top.zv, Element)
    BY <1>5, <1>6 DEF At, AtTarget
  <1>8. WaitOK(g)
    <2>1. ASSUME Top.zv.tag = "object"
          PROVE  Element.val # Undef /\ ~HasKey(Top.v, Element.key)
      <3>1. Element.val # Undef
        BY <1>4, <2>1 DEF Skipped
      <3>2. CASE IsSet(Element)
        BY <3>1, <3>2, <2>1, <1>5, SetElementIsNew
      <3>3. CASE Element.val = Indirect
        <4>1. /\ Len(Class(Top.zv.handle).props) \in Nat
              /\ d + 1 > Len(Class(Top.zv.handle).props)
          <5>1. PICK i : i = d + 1
            OBVIOUS
          <5>2. i \in 1 .. Len(Elements(Top.zv)) /\ Elements(Top.zv)[i].val = Indirect
            BY <5>1, <3>3, <1>5
          <5>3. objects \in Objects
            BY Basics
          <5>4. i > Len(Class(Top.zv.handle).props)
            BY <5>2, <5>3, <2>1, <1>5, IndirectElement
          <5>5. Class(Top.zv.handle).props \in Seq(Keys)
            BY <5>3, <2>1, <1>5, ObjectElements
          <5> QED  BY <5>1, <5>4, <5>5, LenProperties
        <4>2. d >= Len(Class(Top.zv.handle).props)
          BY <4>1, <1>5
        <4>3. DOMAIN Top.v.items = 1 .. Len(Top.v.items)
          BY <1>1, <1>5, FrameBasics
        <4> QED  BY <4>2, <4>3, <3>1, <2>1, <1>2, <1>4 DEF Skipped, HasKey
      <3> QED  BY <3>1, <3>2, <3>3 DEF IsSet
    <2>2. g.done >= 1
      BY <1>5, <1>6
    <2> QED  BY <2>1, <2>2, <1>6, <1>7 DEF WaitOK
  <1>9. CallOK(n)'
    <2>1. Awaits(n)' /\ Past(n)' = d
      BY <1>4, <1>5, <1>6 DEF Awaits, Past
    <2>2. PICK left : left = Left(n)
      OBVIOUS
    <2>3. SoFar(g, d) /\ EndSoFar(g, d, left)
      BY <2>2, <1>5, <1>6, SameSoFar
    <2>4. SoFar(g, d)' /\ EndSoFar(g, d, left)'
      BY <2>3, <1>4, FrameStays
    <2>5. Left(n)' = left
      BY <2>2 DEF Left
    <2> QED  BY <2>1, <2>4, <2>5, <1>4, <1>6, <1>8, FrameStays DEF CallOK
  <1>10. Calls'
    <2>1. \A k \in 1 .. n : k = n \/ k \in 1 .. n - 1
      BY <1>5, <1>6, Basics
    <2> QED  BY <2>1, <1>6, <1>9 DEF Calls
  <1>11. TypeOK'
    BY <1>1, <1>4, <1>6, ValuesStay DEF IInv, TypeOK
  <1>12. RefusalLeaksNothing'
    BY SMTT(60), <1>4, <1>6 DEF IInv, RefusalLeaksNothing
  <1>13. Asked' = AtTarget(g)
    <2>1. Top' = g /\ stack' # <<>>
      BY <1>5, <1>6 DEF Top
    <2> QED  BY <2>1, <1>4, FrameStays DEF Asked
  <1>14. Answers'
    BY <1>4, <1>7, <1>13 DEF Answers
  <1>15. Exact'
    BY <1>4, ExactGrows DEF IInv
  <1> QED  BY <1>10, <1>11, <1>12, <1>14, <1>15 DEF IInv

\* The container on top is freed.
LEMMA GiveUpOK ==
  ASSUME IInv, stack # <<>>, give_up, now.step # "value",
         NEW n, n = Len(stack), Top.zv \notin EndsWithin[Left(n) + 1]
  PROVE  IInv'
  <1>1. /\ unchangedValues /\ captured' = captured /\ stack' = Below
        /\ owned' = owned \ {Top.at} /\ now'.step = "null"
    BY DEF give_up, Null
  <1>2. /\ Calls' /\ Asked' = Top.zv /\ (stack \in Seq(FrameType))'
        /\ n \in 1 .. MaxDepth + 1 /\ Len(stack') = n - 1
        /\ DOMAIN stack' = 1 .. n - 1
        /\ \A k \in 1 .. n - 1 : stack'[k] = stack[k]
    BY <1>1, StackPops
  <1>3. n \in Nat /\ MaxDepth \in Nat /\ DOMAIN stack = 1 .. n /\ Top = stack[n]
    BY Basics DEF Top
  <1>4. TypeOK'
    BY <1>1, <1>2, <1>3, ValuesStay DEF IInv, TypeOK
  <1>5. RefusalLeaksNothing'
    <2>1. /\ owned = {stack[k].at : k \in 1 .. n}
          /\ \A k, l \in 1 .. n : stack[k].at = stack[l].at => k = l
      BY <1>3 DEF IInv, RefusalLeaksNothing
    <2>2. /\ \A k \in 1 .. n : k = n \/ k \in 1 .. n - 1
          /\ \A k \in 1 .. n - 1 : k \in 1 .. n /\ k # n
          /\ n \in 1 .. n
      BY <1>2, <1>3
    <2>3. owned' = {stack'[k].at : k \in 1 .. n - 1}
      BY SMTT(60), <2>1, <2>2, <1>1, <1>2, <1>3
    <2>4. \A k, l \in 1 .. n - 1 : stack'[k].at = stack'[l].at => k = l
      BY SMTT(60), <2>1, <2>2, <1>2
    <2> QED  BY <2>3, <2>4, <1>1, <1>2 DEF RefusalLeaksNothing
  <1>6. Answers'
    <2>1. MaxDepth + 1 - (n - 1) = (MaxDepth + 1 - n) + 1
      BY <1>3
    <2> QED  BY <2>1, <1>1, <1>2, ValuesStay DEF Answers, Left
  <1>7. Exact'
    BY <1>1, ExactGrows DEF IInv
  <1> QED  BY <1>2, <1>4, <1>5, <1>6, <1>7 DEF IInv

LEMMA RefuseByReferenceOK ==
  ASSUME IInv, refuse_by_reference
  PROVE  IInv'
  <1>1. PICK n : n = Len(stack)
    OBVIOUS
  <1>2. PICK d : d = Top.done
    OBVIOUS
  <1>3. /\ InLoop /\ give_up /\ now.step = "loop"
        /\ Top.zv.tag = "array" /\ Element.val.tag = "reference"
    BY DEF refuse_by_reference, InLoop, IsByReference
  <1>4. /\ stack # <<>> /\ d + 1 \in 1 .. Len(Elements(Top.zv))
        /\ Element = Elements(Top.zv)[d + 1] /\ Top.zv \in Zvals
        /\ Left(n) \in 0 .. MaxDepth
    BY <1>1, <1>2, <1>3, InLoopBasics
  <1>5. Element.val \in Zvals
    <2>1. Element \in [key : Keys, val : Zvals]
      BY <1>3, <1>4, Basics, ElementsType, ElementOfSeq
    <2> QED  BY <2>1
  <1>6. Element.val \notin EndsWithin[Left(n)]
    BY <1>3, <1>4, <1>5, ReferenceEndsNever, SnapshotAssumption
  <1>7. Top.zv \notin EndsWithin[Left(n) + 1]
    BY <1>3, <1>4, <1>6, ArrayEnds
  <1> QED  BY <1>1, <1>3, <1>4, <1>7, GiveUpOK

LEMMA AbandonOK ==
  ASSUME IInv, abandon
  PROVE  IInv'
  <1>1. PICK n : n = Len(stack)
    OBVIOUS
  <1>2. PICK d : d = Top.done
    OBVIOUS
  <1>3. give_up /\ now.step = "null" /\ stack # <<>>
    BY DEF abandon
  <1>4. n \in 1 .. MaxDepth + 1 /\ n \in 1 .. n /\ MaxDepth \in Nat /\ Top = stack[n]
    BY <1>1, <1>3, Basics DEF IInv, TypeOK, Top
  <1>5. Awaits(n) /\ Past(n) = d - 1
    BY <1>2, <1>3, <1>4 DEF Awaits, Past
  <1>6. /\ FrameOK(Top) /\ WaitOK(Top) /\ Top.zv \in Zvals
        /\ Top.zv.tag \in {"array", "object"} /\ d \in 1 .. Len(Elements(Top.zv))
    BY <1>1, <1>2, <1>4, <1>5, FrameBasics
  <1>7. Left(n) \in 0 .. MaxDepth
    BY <1>4 DEF Left
  <1>8. AtTarget(Top) \notin EndsWithin[Left(n)] /\ SoFar(Top, d - 1)
    <2>1. CallOK(n)
      BY <1>1, <1>4 DEF IInv, Calls
    <2>2. Asked = AtTarget(Top)
      BY <1>3 DEF Asked
    <2> QED  BY <2>1, <2>2, <1>1, <1>3, <1>4, <1>5 DEF CallOK, IInv, Answers
  <1>9. Top.zv \notin EndsWithin[Left(n) + 1]
    <2>1. At(Top) = Elements(Top.zv)[d] /\ AtTarget(Top) = Target(Top.zv, At(Top))
      BY <1>2 DEF At, AtTarget
    <2>2. CASE Top.zv.tag = "array"
      BY <2>1, <2>2, <1>6, <1>7, <1>8, ArrayEnds DEF Target
    <2>3. CASE Top.zv.tag = "object" /\ IsSet(At(Top))
      BY <2>1, <2>3, <1>6, <1>7, <1>8, Basics, ObjectEndsNot DEF Target
    <2>4. CASE Top.zv.tag = "object" /\ At(Top).val = Indirect
      <3>1. ~HasKey(Top.v, At(Top).key)
        BY <2>4, <1>6 DEF WaitOK
      <3>2. \A j \in 1 .. d - 1 : Elements(Top.zv)[j].val # Undef =>
              Elements(Top.zv)[j].key # Elements(Top.zv)[d].key
        BY <2>1, <2>4, <3>1, <1>8 DEF SoFar, ObjectSoFar
      <3> QED  BY <2>1, <2>4, <3>2, <1>6, <1>7, Basics, ObjectEndsNot
    <2> QED  BY <2>2, <2>3, <2>4, <1>6 DEF IsSet, WaitOK
  <1> QED  BY <1>1, <1>3, <1>9, GiveUpOK

\* Frame g is f with entry e added to its container.
Adds(g, f, e) ==
  /\ g.zv = f.zv /\ g.at = f.at /\ g.done = f.done
  /\ g.v.tag = f.v.tag /\ (f.v.tag = "obj" => g.v.cls = f.v.cls)
  /\ Len(g.v.items) = Len(f.v.items) + 1
  /\ \A j \in 1 .. Len(f.v.items) : g.v.items[j] = f.v.items[j]
  /\ g.v.items[Len(g.v.items)] = e

LEMMA SetterAdds ==
  ASSUME NEW f \in FrameType, NEW key \in Keys, NEW v \in Made,
         NEW g, g = [f EXCEPT !.v = value_set(@, key, v)]
  PROVE  g \in FrameType /\ Adds(g, f, [key |-> key, val |-> v])
  <1> DEFINE e == [key |-> key, val |-> v]
  <1>1. f.v \in ContainerType /\ f.v.items \in Seq(ItemType) /\ e \in ItemType
    BY DEF FrameType, ContainerType, ItemType
  <1>2. PICK w : w = value_set(f.v, key, v)
    OBVIOUS
  <1>3. w = [f.v EXCEPT !.items = Append(@, e)]
    BY <1>2 DEF value_set
  <1>4. PICK u : u = Append(f.v.items, e)
    OBVIOUS
  <1>5. /\ u \in Seq(ItemType) /\ Len(u) = Len(f.v.items) + 1 /\ u[Len(u)] = e
        /\ \A j \in 1 .. Len(f.v.items) : u[j] = f.v.items[j]
    BY <1>1, <1>4
  <1>6. w.items = u
    BY <1>1, <1>3, <1>4 DEF ContainerType
  <1>7. w \in ContainerType /\ w.tag = f.v.tag /\ (f.v.tag = "obj" => w.cls = f.v.cls)
    BY <1>1, <1>3, <1>4, <1>5 DEF ContainerType
  <1>8. g = [f EXCEPT !.v = w]
    BY <1>2
  <1>9. /\ g.v = w /\ g.zv = f.zv /\ g.at = f.at /\ g.done = f.done
        /\ g \in FrameType
    BY <1>7, <1>8 DEF FrameType
  <1> QED  BY <1>5, <1>6, <1>7, <1>9 DEF Adds

\* What is behind a loop after the capture of the element it has come to.
LEMMA ArrayAdds ==
  ASSUME NEW f, NEW g, NEW v, f.zv.tag = "array", f.done \in Nat \ {0},
         SoFar(f, f.done - 1), Elements(f.zv) = f.zv.items,
         Adds(g, f, [key |-> At(f).key, val |-> v]), <<v, AtTarget(f)>> \in captured
  PROVE  SoFar(g, f.done)
  <1>1. PICK d : d = f.done
    OBVIOUS
  <1>2. d \in Nat /\ \A i \in 1 .. d : i = d \/ i \in 1 .. d - 1
    BY <1>1
  <1>3. ArraySoFar(f, d - 1)
    BY <1>1 DEF SoFar
  <1>4. Len(g.v.items) = d
    BY <1>2, <1>3 DEF Adds, ArraySoFar
  <1>5. /\ g.v.items[d].key = f.zv.items[d].key
        /\ <<g.v.items[d].val, f.zv.items[d].val>> \in captured
    <2>1. At(f) = f.zv.items[d] /\ AtTarget(f) = At(f).val
      BY <1>1 DEF At, AtTarget, Target
    <2>2. g.v.items[d] = [key |-> At(f).key, val |-> v]
      BY <1>4 DEF Adds
    <2> QED  BY <2>1, <2>2
  <1>6. ArraySoFar(g, d)
    BY <1>2, <1>3, <1>4, <1>5 DEF Adds, ArraySoFar
  <1> QED  BY <1>1, <1>6 DEF Adds, SoFar

LEMMA ObjectAdds ==
  ASSUME NEW f, NEW g, NEW v, f.zv.tag = "object", f.done \in Nat \ {0},
         SoFar(f, f.done - 1), Len(f.v.items) \in Nat,
         IsSet(At(f)), ~HasKey(f.v, At(f).key),
         Adds(g, f, [key |-> At(f).key, val |-> v]), <<v, AtTarget(f)>> \in captured
  PROVE  SoFar(g, f.done)
  <1>1. PICK d : d = f.done
    OBVIOUS
  <1>2. /\ d \in Nat /\ d \in 1 .. d /\ \A i \in 1 .. d - 1 : i \in 1 .. d
        /\ \A i \in 1 .. d : i = d \/ i \in 1 .. d - 1
    BY <1>1
  <1>3. PICK m : m = Len(g.v.items)
    OBVIOUS
  <1>4. /\ m \in 1 .. m /\ \A j \in 1 .. Len(f.v.items) : j \in 1 .. m /\ j # m
        /\ \A j \in 1 .. m : j = m \/ j \in 1 .. Len(f.v.items)
    BY <1>3 DEF Adds
  <1>5. /\ \A j \in 1 .. Len(f.v.items) : g.v.items[j] = f.v.items[j]
        /\ g.v.items[m].key = Elements(f.zv)[d].key
        /\ <<g.v.items[m].val, ZVAL_DEREF(Elements(f.zv)[d].val)>> \in captured
        /\ g.zv = f.zv /\ Elements(f.zv)[d].val \notin {Undef, Indirect}
    <2>1. /\ At(f) = Elements(f.zv)[d]
          /\ AtTarget(f) = ZVAL_DEREF(Elements(f.zv)[d].val)
      BY <1>1 DEF At, AtTarget, Target
    <2>2. /\ g.zv = f.zv
          /\ \A j \in 1 .. Len(f.v.items) : g.v.items[j] = f.v.items[j]
          /\ g.v.items[m] = [key |-> At(f).key, val |-> v]
      BY <1>3 DEF Adds
    <2>3. g.v.items[m].key = At(f).key /\ g.v.items[m].val = v
      BY <2>2
    <2>4. Elements(f.zv)[d].val \notin {Undef, Indirect}
      BY <2>1 DEF IsSet
    <2>5. <<g.v.items[m].val, ZVAL_DEREF(Elements(f.zv)[d].val)>> \in captured
      BY <2>1, <2>3
    <2> QED  BY <2>1, <2>2, <2>3, <2>4, <2>5
  <1>6. ObjectSoFar(f, d - 1)
    BY <1>1 DEF SoFar
  <1>7. \A i, j \in 1 .. m : g.v.items[i].key = g.v.items[j].key => i = j
    <2>1. \A j \in 1 .. Len(f.v.items) : g.v.items[j].key # g.v.items[m].key
      BY <1>1, <1>5 DEF HasKey, At
    <2> QED  BY <2>1, <1>4, <1>5, <1>6 DEF ObjectSoFar
  <1>8. \A j \in 1 .. m : \E i \in 1 .. d :
          /\ Elements(g.zv)[i].val \notin {Undef, Indirect}
          /\ g.v.items[j].key = Elements(g.zv)[i].key
          /\ <<g.v.items[j].val, ZVAL_DEREF(Elements(g.zv)[i].val)>> \in captured
    BY SMTT(60), <1>2, <1>4, <1>5, <1>6 DEF ObjectSoFar
  <1>9. \A i \in 1 .. d :
          Elements(g.zv)[i].val # Undef => HasKey(g.v, Elements(g.zv)[i].key)
    <2>1. HasKey(g.v, Elements(g.zv)[d].key)
      BY <1>3, <1>4, <1>5 DEF HasKey
    <2>2. \A key : HasKey(f.v, key) => HasKey(g.v, key)
      BY <1>3, <1>4, <1>5 DEF HasKey
    <2> QED  BY <2>1, <2>2, <1>2, <1>5, <1>6 DEF ObjectSoFar
  <1>10. ObjectSoFar(g, d)
    BY <1>3, <1>7, <1>8, <1>9 DEF ObjectSoFar
  <1> QED  BY <1>1, <1>5, <1>10 DEF SoFar

LEMMA AttachOK ==
  ASSUME IInv, attach
  PROVE  IInv'
  <1>1. PICK n : n = Len(stack)
    OBVIOUS
  <1>2. PICK d : d = Top.done
    OBVIOUS
  <1>3. PICK f : f = Top
    OBVIOUS
  <1>4. PICK v : v = now.v
    OBVIOUS
  <1>5. PICK key : key = At(f).key
    OBVIOUS
  <1>6. PICK g : g = [f EXCEPT !.v = value_set(@, key, v)]
    OBVIOUS
  <1>7. /\ unchangedValues /\ captured' = captured /\ now'.step = "loop"
        /\ owned' = owned \ {now.at} /\ now.step = "value" /\ stack # <<>>
        /\ TopBecomes(g)
    BY <1>3, <1>4, <1>5, <1>6 DEF attach, Loop, TopBecomes, Top, Current, At
  <1>8. /\ n \in 1 .. MaxDepth + 1 /\ n \in 1 .. n /\ MaxDepth \in Nat
        /\ f = stack[n] /\ DOMAIN stack = 1 .. n /\ f \in FrameType
    BY <1>1, <1>3, <1>7, Basics DEF IInv, TypeOK, Top
  <1>9. Awaits(n) /\ Past(n) = d - 1
    BY <1>2, <1>3, <1>7, <1>8 DEF Awaits, Past
  <1>10. /\ FrameOK(f) /\ WaitOK(f) /\ f.zv \in Zvals
         /\ f.zv.tag \in {"array", "object"} /\ Len(f.v.items) \in Nat
         /\ Elements(f.zv) \in Seq(ElementType) /\ d \in 1 .. Len(Elements(f.zv))
    BY <1>1, <1>2, <1>3, <1>8, <1>9, FrameBasics
  <1>11. /\ <<v, AtTarget(f)>> \in captured /\ AtTarget(f) \in EndsWithin[Left(n)]
         /\ SoFar(f, d - 1) /\ EndSoFar(f, d - 1, Left(n))
    <2>1. Asked = AtTarget(f)
      BY <1>3, <1>7 DEF Asked
    <2> QED  BY <2>1, <1>1, <1>4, <1>7, <1>8, <1>9 DEF IInv, Calls, CallOK, Answers
  <1>12. At(f) = Elements(f.zv)[d] /\ At(f) \in ElementType /\ IsSet(At(f))
    <2>1. At(f) = Elements(f.zv)[d]
      BY <1>2, <1>3 DEF At
    <2>2. At(f) \in ElementType
      BY <2>1, <1>10, ElementOfSeq
    <2>3. CASE f.zv.tag = "array"
      BY <2>1, <2>3, <1>10, Basics, TargetType
    <2>4. CASE f.zv.tag = "object"
      <3>1. At(f).val # Undef
        BY <2>4, <1>10 DEF WaitOK
      <3>2. At(f).val # Indirect
        <4> SUFFICES ASSUME At(f).val = Indirect PROVE FALSE
          OBVIOUS
        <4>1. AtTarget(f) = Indirect
          BY <2>4 DEF AtTarget, Target, ZVAL_DEREF, Indirect
        <4>2. Left(n) \in 0 .. MaxDepth + 1
          BY <1>8 DEF Left
        <4>3. Refused(Indirect)
          BY DEF Refused, Indirect, Scalar
        <4> QED  BY <4>1, <4>2, <4>3, <1>11, RefusedEndsNever
      <3> QED  BY <3>1, <3>2, <2>1, <2>2 DEF IsSet
    <2> QED  BY <2>1, <2>2, <2>3, <2>4, <1>10
  <1>13. g \in FrameType /\ Adds(g, f, [key |-> key, val |-> v])
    <2>1. key \in Keys
      BY <1>5, <1>12 DEF ElementType
    <2>2. v \in Made
      BY <1>11 DEF Made
    <2> QED  BY <2>1, <2>2, <1>6, <1>8, SetterAdds
  <1>14. g.zv = f.zv /\ g.at = f.at /\ g.done = d
    BY <1>2, <1>3, <1>13 DEF Adds
  <1>15. /\ (stack \in Seq(FrameType))' /\ Len(stack') = n
         /\ DOMAIN stack' = 1 .. n /\ stack'[n] = g
         /\ \A k \in 1 .. n : stack'[k].at = stack[k].at
         /\ \A k \in 1 .. n - 1 : CallOK(k)'
         /\ (stack[n].zv = IF n = 1 THEN root ELSE AtTarget(stack[n - 1]))'
    <2>1. g \in FrameType'
      BY <1>7, <1>13, TypesGrow
    <2> QED  BY <2>1, <1>1, <1>3, <1>7, <1>14, StackTurns DEF Top
  <1>16. FrameOK(g)
    BY <1>2, <1>3, <1>10, <1>13, <1>14 DEF FrameOK, Adds
  <1>17. SoFar(g, d)
    <2>1. d \in Nat \ {0} /\ f.done = d
      BY <1>2, <1>3, <1>10
    <2>2. CASE f.zv.tag = "array"
      <3>1. Elements(f.zv) = f.zv.items
        BY <2>2 DEF Elements
      <3> QED  BY <2>1, <2>2, <3>1, <1>5, <1>11, <1>13, ArrayAdds
    <2>3. CASE f.zv.tag = "object"
      <3>1. ~HasKey(f.v, At(f).key)
        BY <2>3, <1>10 DEF WaitOK
      <3> QED  BY <2>1, <2>3, <3>1, <1>5, <1>10, <1>11, <1>12, <1>13, ObjectAdds
    <2> QED  BY <2>2, <2>3, <1>10
  <1>18. EndSoFar(g, d, Left(n))
    <2>1. \A i \in 1 .. d : i = d \/ i \in 1 .. d - 1
      BY <1>10
    <2>2. Target(f.zv, Elements(f.zv)[d]) \in EndsWithin[Left(n)]
      BY <1>11, <1>12 DEF AtTarget
    <2> QED  BY <2>1, <2>2, <1>11, <1>14 DEF EndSoFar
  <1>19. CallOK(n)'
    <2>1. ~Awaits(n)' /\ Past(n)' = d
      BY <1>7, <1>8, <1>14, <1>15 DEF Awaits, Past
    <2> QED  BY <2>1, <1>7, <1>15, <1>16, <1>17, <1>18, FrameStays DEF CallOK, Left
  <1>20. Calls'
    <2>1. \A k \in 1 .. n : k = n \/ k \in 1 .. n - 1
      BY <1>8
    <2> QED  BY <2>1, <1>15, <1>19 DEF Calls
  <1>21. TypeOK'
    BY <1>1, <1>7, <1>15, ValuesStay DEF IInv, TypeOK
  <1>22. RefusalLeaksNothing'
    <2>1. /\ owned = {stack[k].at : k \in 1 .. n} \cup {now.at}
          /\ \A k, l \in 1 .. n : stack[k].at = stack[l].at => k = l
          /\ \A k \in 1 .. n : stack[k].at # now.at
      BY <1>7, <1>8 DEF IInv, RefusalLeaksNothing
    <2>2. owned' = {stack'[k].at : k \in 1 .. n}
      BY <2>1, <1>7, <1>15
    <2> QED  BY <2>1, <2>2, <1>7, <1>15 DEF RefusalLeaksNothing
  <1>23. Answers'
    BY <1>7, <1>8, <1>15 DEF Answers
  <1>24. Exact'
    BY <1>7, ExactGrows DEF IInv
  <1> QED  BY <1>20, <1>21, <1>22, <1>23, <1>24 DEF IInv

LEMMA ReturnOK ==
  ASSUME IInv, return_container
  PROVE  IInv'
  <1>1. PICK n : n = Len(stack)
    OBVIOUS
  <1>2. PICK f : f = Top
    OBVIOUS
  <1>3. PICK d : d = f.done
    OBVIOUS
  <1>4. /\ unchangedValues /\ captured' = captured \cup {<<f.v, f.zv>>}
        /\ captured \subseteq captured' /\ owned' = owned /\ stack' = Below
        /\ now.step = "loop" /\ d = Len(Elements(f.zv)) /\ stack # <<>>
        /\ now'.step = "value" /\ now'.v = f.v /\ now'.at = f.at
    BY <1>2, <1>3 DEF return_container, Value, IInv, Answers
  <1>5. n \in 1 .. MaxDepth + 1 /\ n \in 1 .. n /\ MaxDepth \in Nat
        /\ f = stack[n] /\ DOMAIN stack = 1 .. n
    BY <1>1, <1>2, <1>4, Basics DEF IInv, TypeOK, Top
  <1>6. ~Awaits(n) /\ Past(n) = d
    <2>1. ~Awaits(n)
      BY <1>1, <1>4, <1>5 DEF Awaits
    <2> QED  BY <2>1, <1>3, <1>5 DEF Past
  <1>7. /\ FrameOK(f) /\ f.zv \in Zvals /\ f.zv.tag \in {"array", "object"}
        /\ Len(f.v.items) \in Nat /\ d \in Nat
        /\ SoFar(f, d) /\ EndSoFar(f, d, Left(n))
    <2>1. CallOK(n)
      BY <1>1, <1>5 DEF IInv, Calls
    <2>2. /\ FrameOK(f) /\ f.zv \in Zvals /\ f.zv.tag \in {"array", "object"}
          /\ Len(f.v.items) \in Nat /\ d \in Nat
      BY <1>1, <1>3, <1>5, FrameBasics
    <2> QED  BY <2>1, <2>2, <1>5, <1>6 DEF CallOK
  <1>8. /\ Calls' /\ Asked' = f.zv /\ (stack \in Seq(FrameType))'
        /\ Len(stack') = n - 1 /\ DOMAIN stack' = 1 .. n - 1
        /\ \A k \in 1 .. n - 1 : stack'[k] = stack[k]
    BY <1>1, <1>2, <1>4, StackPops
  <1>9. TypeOK'
    BY <1>1, <1>4, <1>5, <1>8, ValuesStay DEF IInv, TypeOK
  <1>10. RefusalLeaksNothing'
    <2>1. /\ owned = {stack[k].at : k \in 1 .. n}
          /\ \A k, l \in 1 .. n : stack[k].at = stack[l].at => k = l
      BY <1>4, <1>5 DEF IInv, RefusalLeaksNothing
    <2>2. /\ \A k \in 1 .. n : k = n \/ k \in 1 .. n - 1
          /\ \A k \in 1 .. n - 1 : k \in 1 .. n /\ k # n
      BY <1>5
    <2>3. owned' = {stack'[k].at : k \in 1 .. n - 1} \cup {f.at}
      BY <2>1, <2>2, <1>4, <1>5, <1>8
    <2>4. /\ \A k, l \in 1 .. n - 1 : stack'[k].at = stack'[l].at => k = l
          /\ \A k \in 1 .. n - 1 : stack'[k].at # f.at
      BY <2>1, <2>2, <1>5, <1>8
    <2> QED  BY <2>3, <2>4, <1>4, <1>8 DEF RefusalLeaksNothing
  <1>11. f.zv \in EndsWithin[Left(n) + 1]
    <2>1. Left(n) \in 0 .. MaxDepth
      BY <1>5 DEF Left
    <2>2. CASE f.zv.tag = "array"
      <3>1. \A i \in 1 .. Len(Elements(f.zv)) :
              Elements(f.zv)[i].val \in EndsWithin[Left(n)]
        BY <2>2, <1>4, <1>7 DEF EndSoFar, Target
      <3> QED  BY <2>1, <2>2, <3>1, <1>7, ArrayEnds
    <2>3. CASE f.zv.tag = "object"
      <3>1. \A i \in 1 .. Len(Elements(f.zv)) : IsSet(Elements(f.zv)[i]) =>
              ZVAL_DEREF(Elements(f.zv)[i].val) \in EndsWithin[Left(n)]
        BY <2>3, <1>4, <1>7 DEF EndSoFar, Target, IsSet
      <3>2. ASSUME NEW i \in 1 .. Len(Elements(f.zv)),
                   Elements(f.zv)[i].val = Indirect
            PROVE  \E j \in 1 .. Len(Elements(f.zv)) :
                     /\ IsSet(Elements(f.zv)[j])
                     /\ Elements(f.zv)[j].key = Elements(f.zv)[i].key
        <4>1. Indirect # Undef
          BY DEF Indirect, Undef
        <4>2. HasKey(f.v, Elements(f.zv)[i].key)
          BY <2>3, <3>2, <4>1, <1>4, <1>7 DEF SoFar, ObjectSoFar
        <4>3. PICK k \in 1 .. Len(f.v.items) :
                f.v.items[k].key = Elements(f.zv)[i].key
          BY <4>2 DEF HasKey
        <4>4. ObjectSoFar(f, d)
          BY <2>3, <1>7 DEF SoFar
        <4>5. PICK j \in 1 .. d : /\ IsSet(Elements(f.zv)[j])
                                  /\ f.v.items[k].key = Elements(f.zv)[j].key
          BY <4>4 DEF ObjectSoFar, IsSet
        <4> QED  BY <4>3, <4>5, <1>4
      <3>3. ~Refused(f.zv)
        BY <1>7 DEF FrameOK
      <3> QED  BY <2>1, <2>3, <3>1, <3>2, <3>3, <1>7, Basics, ObjectEnds
    <2> QED  BY <2>2, <2>3, <1>7
  <1>12. Answers'
    <2>1. MaxDepth + 1 - (n - 1) = (MaxDepth + 1 - n) + 1
      BY <1>5
    <2> QED  BY <2>1, <1>4, <1>8, <1>11, ValuesStay DEF Answers, Left
  <1>13. Mirrors(f.v, f.zv)
    <2>1. CASE f.zv.tag = "array"
      <3>1. f.zv.items = Elements(f.zv) /\ f.v.tag = "arr"
        BY <2>1, <1>7 DEF Elements, FrameOK
      <3> QED  BY <2>1, <3>1, <1>4, <1>7
               DEF Mirrors, MirrorsArray, SoFar, ArraySoFar
    <2>2. CASE f.zv.tag = "object"
      <3>1. f.v.tag = "obj" /\ f.v.cls = Class(f.zv.handle).name
        BY <2>2, <1>7 DEF FrameOK
      <3>2. ObjectSoFar(f, d)
        BY <2>2, <1>7 DEF SoFar
      <3>3. /\ \A i \in 1 .. d :
                 IsSet(Elements(f.zv)[i]) => Elements(f.zv)[i] \in SetProps(f.zv.handle)
            /\ \A e \in SetProps(f.zv.handle) :
                 IsSet(e) /\ \E i \in 1 .. d : e = Elements(f.zv)[i]
        BY <2>2, <1>4, <1>7, Basics, SetElements
      <3>4. \A j \in 1 .. Len(f.v.items) : \E e \in SetProps(f.zv.handle) :
              /\ f.v.items[j].key = e.key
              /\ <<f.v.items[j].val, ZVAL_DEREF(e.val)>> \in captured
        BY <3>2, <3>3 DEF ObjectSoFar, IsSet
      <3>5. \A e \in SetProps(f.zv.handle) : \E j \in 1 .. Len(f.v.items) :
              f.v.items[j].key = e.key
        BY <3>2, <3>3 DEF ObjectSoFar, IsSet, HasKey
      <3>6. MirrorsObject(f.v, f.zv.handle)
        BY <3>1, <3>2, <3>4, <3>5 DEF MirrorsObject, ObjectSoFar
      <3> QED  BY <2>2, <3>6 DEF Mirrors
    <2> QED  BY <2>1, <2>2, <1>7
  <1>14. Exact'
    <2>1. Mirrors(f.v, f.zv)'
      BY <1>4, <1>13, MirrorsStay
    <2>2. Shaped(f.v)'
      BY <1>1, <1>4, <1>5, Basics, TypesGrow DEF Shaped
    <2>3. \A p \in captured' \ captured :
            Shaped(p[1])' /\ p[2] \in Zvals /\ Mirrors(p[1], p[2])'
      BY <2>1, <2>2, <1>4, <1>7
    <2> QED  BY <2>3, <1>4, ExactGrows DEF IInv
  <1> QED  BY <1>8, <1>9, <1>10, <1>12, <1>14 DEF IInv

-----------------------------------------------------------------------------
\* The theorems.
LEMMA InitOK ==
  ASSUME Init
  PROVE  IInv
  <1>1. /\ objects \in Objects /\ cells \in Cells /\ root \in Roots
        /\ stack = <<>> /\ now.step = "call" /\ now.zv = root
        /\ owned = {} /\ captured = {}
    BY DEF Init, Call
  <1>2. Len(stack) = 0 /\ DOMAIN stack = {} /\ stack \in Seq(FrameType)
    BY <1>1
  <1>3. TypeOK
    BY <1>1, <1>2, SnapshotAssumption DEF TypeOK
  <1>4. RefusalLeaksNothing
    BY <1>1, <1>2 DEF RefusalLeaksNothing
  <1>5. Calls /\ Answers /\ Exact
    BY <1>1, <1>2 DEF Calls, Answers, Asked, Exact
  <1> QED  BY <1>3, <1>4, <1>5 DEF IInv

LEMMA StutterOK ==
  ASSUME IInv, UNCHANGED vars
  PROVE  IInv'
  <1>1. /\ unchangedValues /\ captured' = captured /\ stack' = stack
        /\ now' = now /\ owned' = owned
    BY DEF vars, unchangedValues
  <1>2. \A k : Awaits(k)' = Awaits(k)
    BY <1>1 DEF Awaits
  <1>3. Calls'
    BY <1>1, <1>2, CallStays DEF IInv, Calls
  <1>4. Asked' = Asked
    BY <1>1, FrameStays, ValuesStay DEF Asked, Top
  <1>5. TypeOK'
    <2>1. (stack \in Seq(FrameType))'
      BY <1>1, TypesGrow, SeqMonotonic DEF IInv, TypeOK
    <2> QED  BY <2>1, <1>1, ValuesStay DEF IInv, TypeOK
  <1>6. RefusalLeaksNothing'
    BY <1>1 DEF IInv, RefusalLeaksNothing
  <1>7. Answers'
    BY <1>1, <1>4, ValuesStay DEF IInv, Answers, Left
  <1>8. Exact'
    BY <1>1, ExactGrows DEF IInv
  <1> QED  BY <1>3, <1>5, <1>6, <1>7, <1>8 DEF IInv

LEMMA Inductive ==
  Spec => []IInv
  <1>1. Init => IInv
    BY InitOK
  <1>2. IInv /\ [Next]_vars => IInv'
    <2> SUFFICES ASSUME IInv, [Next]_vars PROVE IInv'
      OBVIOUS
    <2>1. CASE refuse
      BY <2>1, RefuseOK
    <2>2. CASE capture_scalar
      BY <2>2, ScalarOK
    <2>3. CASE array_to_value
      BY <2>3, EnterOK DEF array_to_value
    <2>4. CASE object_to_value
      BY <2>4, EnterOK DEF object_to_value
    <2>5. CASE skip_element
      BY <2>5, SkipOK
    <2>6. CASE call_element
      BY <2>6, CallElementOK
    <2>7. CASE refuse_by_reference
      BY <2>7, RefuseByReferenceOK
    <2>8. CASE abandon
      BY <2>8, AbandonOK
    <2>9. CASE attach
      BY <2>9, AttachOK
    <2>10. CASE return_container
      BY <2>10, ReturnOK
    <2>11. CASE UNCHANGED vars
      BY <2>11, StutterOK
    <2> QED  BY <2>1, <2>2, <2>3, <2>4, <2>5, <2>6, <2>7, <2>8, <2>9, <2>10,
                <2>11 DEF Next
  <1> QED  BY <1>1, <1>2, PTL DEF Spec

\* The recursion of zval_to_value_inner stops one call beyond the limit, also
\* where the PHP value leads back to itself, and what is on the stack are
\* containers of values that were captured before (bridge.c:138-273).
THEOREM SnapshotTypeCorrect ==
  Spec => []TypeOK
  <1>1. IInv => TypeOK
    BY DEF IInv
  <1> QED  BY <1>1, Inductive, PTL

\* Whatever PHP value is asked for: a snapshot is answered if and only if the
\* value unfolds to its end within MaxDepth levels and holds nothing forbidden
\* (bridge.c:138-273).
THEOREM SnapshotAcceptsExactlyTransferable ==
  Spec => []AcceptsExactlyTransferable
  <1>1. IInv => AcceptsExactlyTransferable
    <2> SUFFICES ASSUME IInv, Answered
                 PROVE  now.step = "value" <=> Transferable
      BY DEF AcceptsExactlyTransferable
    <2>1. Asked = root /\ Left(Len(stack)) = MaxDepth + 1
      BY Basics DEF Answered, Asked, Left
    <2> QED  BY <2>1 DEF IInv, Answers, Answered, Transferable
  <1> QED  BY <1>1, Inductive, PTL

\* Each container under construction and each answer is allocated once, nothing
\* else is: whatever is refused, and at whatever depth, everything built so far
\* is freed, and freed once (bridge.c:151-155, 198-203, 230-234).
THEOREM SnapshotRefusalLeaksNothing ==
  Spec => []RefusalLeaksNothing
  <1>1. IInv => RefusalLeaksNothing
    BY DEF IInv
  <1> QED  BY <1>1, Inductive, PTL

\* What is answered has, down to the leaves, the keys and the values of what was
\* asked for: of an array in their order, of an object each property once,
\* although the property table lists the declared ones again
\* (bridge.c:157-162, 168-246).
THEOREM SnapshotMirrorsItsValue ==
  Spec => []SnapshotIsExact
  <1>1. IInv => SnapshotIsExact
    BY DEF IInv, Answers, Exact, SnapshotIsExact, Answered, Asked
  <1> QED  BY <1>1, Inductive, PTL
=============================================================================
