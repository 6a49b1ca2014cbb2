---------------------------- MODULE CaptureProofs ----------------------------
(***************************************************************************)
(* Theorems about Capture: what the other side receives was made, part for   *)
(* part, of the value that was captured.  The invariant follows the stack    *)
(* of px_value_to_zval as that of SnapshotProofs follows px_zval_to_value.   *)
(***************************************************************************)
EXTENDS Capture, SnapshotProofs

-----------------------------------------------------------------------------
\* The inductive invariant.

IsSeq(s) == \E S : s \in Seq(S)

\* The value whose conversion is running or over.
Wanted == IF making = <<>> THEN now.v ELSE Inner.v.items[Inner.done].val

\* Whether the k-th call waits for one of its pairs, and how many are behind it.
Halts(k) == k < Len(making) \/ turn.step # "loop"
Behind(k) == IF Halts(k) THEN making[k].done - 1 ELSE making[k].done

\* An exception is raised while the first n pairs of v are converted.
Raises(v, n) ==
  /\ v.tag = "obj"
  /\ Uncreatable(ClassFor(v)) \/ \E i \in 1 .. n : Mangled(v.items[i].key)
RaisesAll(v) == Raises(v, Len(v.items))

\* What is made of the first n pairs of v.
ItemsMade(items, v, n) ==
  /\ IsSeq(items) /\ Len(items) = n
  /\ \A i \in 1 .. n : /\ items[i].key = v.items[i].key
                       /\ <<items[i].val, v.items[i].val>> \in delivered
Names(v, n) == {v.items[i].key : i \in {j \in 1 .. n : ~Mangled(v.items[j].key)}}
PropsMade(props, v, n) ==
  LET default == Defaults(ClassFor(v))
  IN /\ DOMAIN props = Names(v, n) \cup DOMAIN default
     /\ \A i \in 1 .. n : ~Mangled(v.items[i].key) =>
          <<props[v.items[i].key], v.items[i].val>> \in delivered
     /\ \A key \in DOMAIN default \ Names(v, n) : props[key] = default[key]
MadeOf(zv, v, n) ==
  CASE v.tag = "arr" -> \E items : zv = Array(items) /\ ItemsMade(items, v, n)
    [] v.tag = "obj" ->
         IF Uncreatable(ClassFor(v)) THEN zv = NoObject /\ n = 0
         ELSE \E props : /\ zv = Instance(ClassFor(v), props)
                         /\ PropsMade(props, v, n)
    [] OTHER -> zv = v
AllMade(v, n) ==
  \A i \in 1 .. n : \E p \in delivered : p[2] = v.items[i].val

\* The k-th call, and all of them.
MakingOK(f) ==
  /\ f = [v |-> f.v, zv |-> f.zv, done |-> f.done]
  /\ f.v \in Made /\ f.v.tag \in {"arr", "obj"}
  /\ f.done \in 0 .. Len(f.v.items)
BehindOK(f, n) ==
  /\ MadeOf(f.zv, f.v, n) /\ AllMade(f.v, n)
  /\ Raises(f.v, n) => raised
MakeOK(k) ==
  /\ MakingOK(making[k])
  /\ Halts(k) => making[k].done >= 1
  /\ BehindOK(making[k], Behind(k))
Makes == IsSeq(making) /\ \A k \in 1 .. Len(making) : MakeOK(k)

\* The values of the calls are the last one's and those around it.
Chain ==
  \A k \in 1 .. Len(making) :
    making[k].v = IF k = 1 THEN now.v
                  ELSE making[k - 1].v.items[making[k - 1].done].val

Turns ==
  /\ turn = Idle => making = <<>> /\ ~raised /\ delivered = {}
  /\ turn # Idle => /\ stack = <<>> /\ now.step = "value" /\ loaded \in Known
                    /\ turn.step \in {"convert", "loop", "out", "crashed"}
  /\ turn.step = "convert" => turn.v = Wanted
  /\ turn.step = "loop" => making # <<>>
  /\ turn.step = "out" => <<turn.zv, Wanted>> \in delivered
  /\ turn.step = "crashed" => /\ making # <<>> /\ Inner.v.tag = "obj"
                              /\ Uncreatable(ClassFor(Inner.v))

\* What was delivered is complete, and accounts for the exception.
Complete ==
  \A p \in delivered :
    /\ p[2] \in Made
    /\ p[2].tag \in {"arr", "obj"} =>
         /\ MadeOf(p[1], p[2], Len(p[2].items)) /\ AllMade(p[2], Len(p[2].items))
         /\ RaisesAll(p[2]) => raised
    /\ p[2].tag \notin {"arr", "obj"} => p[1] = p[2]
Accounted ==
  raised => \/ \E p \in delivered : RaisesAll(p[2])
            \/ \E k \in 1 .. Len(making) : RaisesAll(making[k].v)

DInv == Makes /\ Chain /\ Turns /\ Complete /\ Accounted

-----------------------------------------------------------------------------
\* Stacks.
Push(t, s, f) == t = Append(s, f)
Turn(t, s, f) == t = [s EXCEPT ![Len(s)] = f]
Pop(t, s) == t = SubSeq(s, 1, Len(s) - 1)

LEMMA Pushed ==
  ASSUME NEW s, IsSeq(s), NEW f, NEW t, Push(t, s, f)
  PROVE  /\ IsSeq(t) /\ Len(s) \in Nat /\ Len(t) = Len(s) + 1
         /\ t[Len(s) + 1] = f /\ \A k \in 1 .. Len(s) : t[k] = s[k]
  <1>1. PICK S : s \in Seq(S)
    BY DEF IsSeq
  <1>2. PICK T : T = S \cup {f}
    OBVIOUS
  <1>3. s \in Seq(T) /\ f \in T
    BY <1>1, <1>2, SeqMonotonic
  <1>4. t = Append(s, f) /\ t \in Seq(T)
    BY <1>3 DEF Push
  <1> QED  BY <1>3, <1>4 DEF IsSeq

LEMMA Turned ==
  ASSUME NEW s, IsSeq(s), s # <<>>, NEW f, NEW t, Turn(t, s, f)
  PROVE  /\ IsSeq(t) /\ Len(s) \in 1 .. Len(s) /\ Len(t) = Len(s)
         /\ t[Len(s)] = f /\ \A k \in 1 .. Len(s) - 1 : t[k] = s[k]
  <1>1. PICK S : s \in Seq(S)
    BY DEF IsSeq
  <1>2. PICK T : T = S \cup {f}
    OBVIOUS
  <1>3. s \in Seq(T) /\ f \in T
    BY <1>1, <1>2, SeqMonotonic
  <1>4. Len(s) \in 1 .. Len(s)
    BY <1>3
  <1> QED  BY <1>3, <1>4, ExceptSeq DEF IsSeq, Turn

LEMMA Popped ==
  ASSUME NEW s, IsSeq(s), s # <<>>, NEW t, Pop(t, s)
  PROVE  /\ IsSeq(t) /\ Len(s) \in 1 .. Len(s) /\ Len(t) = Len(s) - 1
         /\ \A k \in 1 .. Len(s) - 1 : t[k] = s[k]
  <1>1. PICK S : s \in Seq(S)
    BY DEF IsSeq
  <1>2. Len(s) \in Nat /\ Len(s) \in 1 .. Len(s)
    BY <1>1
  <1>3. /\ t \in Seq(S) /\ Len(t) = Len(s) - 1
        /\ \A k \in 1 .. Len(s) - 1 : t[k] = s[k]
    <2>1. PICK n : n = Len(s)
      OBVIOUS
    <2>2. t = SubSeq(s, 1, n - 1)
      BY <2>1 DEF Pop
    <2> QED  BY <2>1, <2>2, <1>1, <1>2, SubSeqProperties
  <1> QED  BY <1>2, <1>3 DEF IsSeq

-----------------------------------------------------------------------------
\* Values that were captured.
LEMMA MadeShape ==
  ASSUME IInv, NEW v \in Made
  PROVE  /\ v.tag \in Scalar \cup {"arr", "obj"}
         /\ v.tag \in {"arr", "obj"} =>
              /\ Len(v.items) \in Nat
              /\ \A i \in 1 .. Len(v.items) : v.items[i].val \in Made
              /\ \A i, j \in 1 .. Len(v.items) :
                   v.items[i].key = v.items[j].key => i = j
  <1>1. PICK p \in captured : v = p[1]
    BY DEF Made
  <1>2. Shaped(v) /\ p[2] \in Zvals /\ Mirrors(v, p[2])
    BY <1>1 DEF IInv, Exact
  <1>3. v.tag \in Scalar \cup {"arr", "obj"}
    BY <1>2 DEF Shaped, ContainerType
  <1>4. ASSUME v.tag \in {"arr", "obj"}
        PROVE  v.items \in Seq(ItemType)
    BY <1>2, <1>4 DEF Shaped, ContainerType, Scalar
  <1>5. ASSUME v.tag \in {"arr", "obj"}
        PROVE  /\ Len(v.items) \in Nat
               /\ \A i \in 1 .. Len(v.items) : v.items[i].val \in Made
    <2>1. \A i \in 1 .. Len(v.items) : v.items[i] \in ItemType
      BY <1>4, <1>5, ElementOfSeq
    <2> QED  BY <2>1, <1>4, <1>5 DEF ItemType
  <1>6. ASSUME v.tag \in {"arr", "obj"}
        PROVE  \A i, j \in 1 .. Len(v.items) :
                 v.items[i].key = v.items[j].key => i = j
    <2>1. CASE p[2].tag = "array"
      <3>1. MirrorsArray(v, p[2])
        BY <2>1, <1>2 DEF Mirrors
      <3>2. \A i, j \in DOMAIN p[2].items :
              p[2].items[i].key = p[2].items[j].key => i = j
        BY <2>1, <1>2, ZvalAssumption
      <3>3. DOMAIN p[2].items = 1 .. Len(p[2].items)
        BY <2>1, <1>2, ZvalAssumption
      <3> QED  BY <3>1, <3>2, <3>3 DEF MirrorsArray
    <2>2. CASE p[2].tag = "object"
      BY <2>2, <1>2 DEF Mirrors, MirrorsObject
    <2>3. CASE p[2].tag \notin {"array", "object"}
      BY <2>3, <1>2, <1>6 DEF Mirrors, Scalar
    <2> QED  BY <2>1, <2>2, <2>3
  <1> QED  BY <1>3, <1>5, <1>6

\* What holds of the conversion stays true while more is delivered.
LEMMA MadeStays ==
  ASSUME UNCHANGED vars, loaded' = loaded, delivered \subseteq delivered',
         raised => raised'
  PROVE  /\ Made' = Made
         /\ \A v : ClassFor(v)' = ClassFor(v)
         /\ \A v, n : Raises(v, n)' = Raises(v, n)
         /\ \A v : RaisesAll(v)' = RaisesAll(v)
         /\ \A zv, v, n : MadeOf(zv, v, n) => MadeOf(zv, v, n)'
         /\ \A v, n : AllMade(v, n) => AllMade(v, n)'
         /\ \A f : MakingOK(f)' = MakingOK(f)
         /\ \A f, n : BehindOK(f, n) => BehindOK(f, n)'
  <1>1. Made' = Made
    BY DEF Made, vars
  <1>2. \A v : ClassFor(v)' = ClassFor(v)
    BY DEF ClassFor
  <1>3. \A v, n : Raises(v, n)' = Raises(v, n)
    BY <1>2 DEF Raises
  <1>4. \A v : RaisesAll(v)' = RaisesAll(v)
    BY <1>3 DEF RaisesAll
  <1>5. ASSUME NEW zv, NEW v, NEW n, MadeOf(zv, v, n) PROVE MadeOf(zv, v, n)'
    <2>1. \A items : ItemsMade(items, v, n) => ItemsMade(items, v, n)'
      BY DEF ItemsMade
    <2>2. \A props : PropsMade(props, v, n) => PropsMade(props, v, n)'
      BY <1>2 DEF PropsMade
    <2> QED  BY <2>1, <2>2, <1>2, <1>5 DEF MadeOf
  <1>6. \A v, n : AllMade(v, n) => AllMade(v, n)'
    BY DEF AllMade
  <1>7. \A f : MakingOK(f)' = MakingOK(f)
    BY <1>1 DEF MakingOK
  <1>8. \A f, n : BehindOK(f, n) => BehindOK(f, n)'
    BY <1>3, <1>5, <1>6 DEF BehindOK
  <1> QED  BY <1>1, <1>2, <1>3, <1>4, <1>5, <1>6, <1>7, <1>8

\* A call that does not move.
LEMMA MakeStays ==
  ASSUME UNCHANGED vars, loaded' = loaded, delivered \subseteq delivered',
         raised => raised', NEW k, MakeOK(k), making'[k] = making[k],
         Halts(k)' = Halts(k)
  PROVE  MakeOK(k)'
  <1>1. Behind(k)' = Behind(k)
    BY DEF Behind
  <1> QED  BY <1>1, MadeStays DEF MakeOK

\* What the invariant says of the innermost call.
LEMMA InnerBasics ==
  ASSUME IInv, DInv, making # <<>>, NEW n, n = Len(making), NEW f, f = Inner
  PROVE  /\ n \in Nat /\ n \in 1 .. n /\ f = making[n] /\ turn # Idle
         /\ stack = <<>> /\ now.step = "value" /\ loaded \in Known
         /\ f = [v |-> f.v, zv |-> f.zv, done |-> f.done]
         /\ f.v \in Made /\ f.v.tag \in {"arr", "obj"} /\ Len(f.v.items) \in Nat
         /\ f.done \in 0 .. Len(f.v.items)
         /\ turn.step = "loop" => BehindOK(f, f.done)
         /\ turn.step # "loop" => /\ f.done \in 1 .. Len(f.v.items)
                                  /\ BehindOK(f, f.done - 1)
                                  /\ Wanted = f.v.items[f.done].val
                                  /\ Wanted \in Made
  <1>1. PICK S : making \in Seq(S)
    BY DEF DInv, Makes, IsSeq
  <1>2. n \in Nat /\ n \in 1 .. n /\ f = making[n]
    BY <1>1 DEF Inner
  <1>3. turn # Idle /\ stack = <<>> /\ now.step = "value" /\ loaded \in Known
    BY DEF DInv, Turns
  <1>4. MakeOK(n)
    BY <1>2 DEF DInv, Makes
  <1>5. MakingOK(f)
    BY <1>2, <1>4 DEF MakeOK
  <1>6. Len(f.v.items) \in Nat
        /\ \A i \in 1 .. Len(f.v.items) : f.v.items[i].val \in Made
    BY <1>5, MadeShape DEF MakingOK
  <1>7. turn.step = "loop" => BehindOK(f, f.done)
    BY <1>2, <1>4 DEF MakeOK, Halts, Behind
  <1>8. ASSUME turn.step # "loop"
        PROVE  f.done \in 1 .. Len(f.v.items) /\ BehindOK(f, f.done - 1)
    <2>1. Halts(n)
      BY <1>8 DEF Halts
    <2>2. f.done >= 1 /\ BehindOK(f, f.done - 1)
      BY <2>1, <1>2, <1>4 DEF MakeOK, Behind
    <2> QED  BY <2>2, <1>5, <1>6 DEF MakingOK
  <1>9. Wanted = f.v.items[f.done].val
    BY DEF Wanted
  <1> QED  BY <1>2, <1>3, <1>5, <1>6, <1>7, <1>8, <1>9 DEF MakingOK

LEMMA WantedMade ==
  ASSUME IInv, DInv, turn # Idle, turn.step # "loop"
  PROVE  Wanted \in Made
  <1>1. CASE making = <<>>
    <2>1. now.step = "value"
      BY DEF DInv, Turns
    <2>2. <<now.v, Asked>> \in captured
      BY <2>1 DEF IInv, Answers
    <2> QED  BY <2>2, <1>1 DEF Wanted, Made
  <1>2. CASE making # <<>>
    BY <1>2, InnerBasics
  <1> QED  BY <1>1, <1>2

\* The innermost call takes a turn.
LEMMA MakingTurns ==
  ASSUME IInv, DInv, UNCHANGED <<vars, loaded, delivered>>, raised => raised',
         making # <<>>, NEW n, n = Len(making), NEW f, f = Inner, NEW g, g.v = f.v,
         Turn(making', making, g)
  PROVE  /\ IsSeq(making)' /\ Len(making') = n /\ n \in 1 .. n /\ n \in Nat
         /\ making'[n] = g /\ making' # <<>> /\ Inner' = g
         /\ \A k \in 1 .. n : k = n \/ k \in 1 .. n - 1
         /\ \A k \in 1 .. n - 1 : MakeOK(k)'
         /\ Chain'
         /\ \A k \in 1 .. n : making'[k].v = making[k].v
  <1>1. n \in Nat /\ n \in 1 .. n /\ f = making[n]
    BY InnerBasics
  <1>2. /\ IsSeq(making') /\ Len(making') = n /\ making'[n] = g
        /\ \A k \in 1 .. n - 1 : making'[k] = making[k]
    <2>1. IsSeq(making)
      BY DEF DInv, Makes
    <2> QED  BY <2>1, Turned
  <1>3. \A k \in 1 .. n : k = n \/ k \in 1 .. n - 1
    BY <1>1
  <1>4. ASSUME NEW k \in 1 .. n - 1 PROVE MakeOK(k)'
    <2>1. MakeOK(k)
      BY <1>1 DEF DInv, Makes
    <2>2. Halts(k)' = Halts(k)
      BY <1>1, <1>2 DEF Halts
    <2> QED  BY <2>1, <2>2, <1>2, MakeStays
  <1>5. \A k \in 1 .. n : making'[k].v = making[k].v
    BY <1>1, <1>2, <1>3
  <1>6. Chain'
    <2>1. \A k \in 1 .. n : k # 1 => k - 1 \in 1 .. n - 1
      BY <1>1
    <2>2. now' = now
      BY DEF vars
    <2> QED  BY <2>1, <2>2, <1>2, <1>5 DEF DInv, Chain
  <1>7. making' # <<>> /\ Inner' = g
    <2>1. making' # <<>>
      BY <1>1, <1>2
    <2> QED  BY <2>1, <1>2 DEF Inner
  <1> QED  BY <1>1, <1>2, <1>3, <1>4, <1>5, <1>6, <1>7

-----------------------------------------------------------------------------
\* The steps, one by one.
LEMMA CompleteStays ==
  ASSUME Complete, UNCHANGED <<vars, loaded, delivered>>, raised => raised'
  PROVE  Complete'
  <1>1. ASSUME NEW p \in delivered
        PROVE  /\ p[2] \in Made'
               /\ p[2].tag \in {"arr", "obj"} =>
                    /\ MadeOf(p[1], p[2], Len(p[2].items))'
                    /\ AllMade(p[2], Len(p[2].items))'
                    /\ RaisesAll(p[2])' => raised'
               /\ p[2].tag \notin {"arr", "obj"} => p[1] = p[2]
    BY MadeStays DEF Complete
  <1> QED  BY <1>1 DEF Complete

LEMMA ReceiveOK ==
  ASSUME IInv, DInv, Receive
  PROVE  DInv'
  <1>1. /\ stack' = <<>> /\ now'.step = "value" /\ now' = now /\ loaded' \in Known
        /\ making' = <<>> /\ ~raised' /\ delivered' = {}
        /\ turn' # Idle /\ turn'.step = "convert" /\ turn'.v = now.v
    BY DEF Receive, Convert, Idle, DInv, Turns, vars
  <1>2. IsSeq(making)' /\ Len(making') = 0
    <2>1. <<>> \in Seq({})
      OBVIOUS
    <2> QED  BY <2>1, <1>1 DEF IsSeq
  <1>3. Makes' /\ Chain'
    BY <1>2 DEF Makes, Chain
  <1>4. Turns'
    BY <1>1 DEF Turns, Wanted
  <1>5. Complete' /\ Accounted'
    BY <1>1 DEF Complete, Accounted
  <1> QED  BY <1>3, <1>4, <1>5 DEF DInv

LEMMA ScalarToZvalOK ==
  ASSUME IInv, DInv, scalar_to_zval
  PROVE  DInv'
  <1>1. PICK v : v = turn.v
    OBVIOUS
  <1>2. /\ UNCHANGED vars /\ loaded' = loaded /\ making' = making /\ raised' = raised
        /\ delivered' = delivered \cup {<<v, v>>} /\ delivered \subseteq delivered'
        /\ turn.step = "convert" /\ v.tag \in Scalar
        /\ turn'.step = "out" /\ turn'.zv = v /\ turn # Idle /\ turn' # Idle
    BY <1>1 DEF scalar_to_zval, Out, Idle
  <1>3. Wanted = v /\ v \in Made
    BY <1>1, <1>2, WantedMade DEF DInv, Turns
  <1>4. Wanted' = Wanted
    BY <1>2 DEF Wanted, Inner, vars
  <1>5. \A k : Halts(k)' = Halts(k)
    BY <1>2 DEF Halts
  <1>6. Makes'
    BY <1>2, <1>5, MakeStays DEF DInv, Makes
  <1>7. Chain'
    BY <1>2 DEF DInv, Chain, vars
  <1>8. Turns'
    BY <1>2, <1>3, <1>4 DEF DInv, Turns, vars
  <1>9. Complete'
    <2>1. ASSUME NEW p \in delivered
          PROVE  /\ p[2] \in Made'
                 /\ p[2].tag \in {"arr", "obj"} =>
                      /\ MadeOf(p[1], p[2], Len(p[2].items))'
                      /\ AllMade(p[2], Len(p[2].items))'
                      /\ RaisesAll(p[2])' => raised'
                 /\ p[2].tag \notin {"arr", "obj"} => p[1] = p[2]
      BY <1>2, MadeStays DEF DInv, Complete
    <2>2. v \in Made' /\ v.tag \notin {"arr", "obj"}
      BY <1>2, <1>3, MadeStays DEF Scalar
    <2>3. \A p \in delivered' : p \in delivered \/ (p[1] = v /\ p[2] = v)
      BY <1>2
    <2> QED  BY <2>1, <2>2, <2>3 DEF Complete
  <1>10. Accounted'
    BY <1>2, MadeStays DEF DInv, Accounted
  <1> QED  BY <1>6, <1>7, <1>8, <1>9, <1>10 DEF DInv

\* A call of kv_block_to_array or kv_block_to_object.
Starts(zv, v) ==
  \/ v.tag = "arr" /\ zv = Array(<<>>) /\ (raised' <=> raised)
  \/ /\ v.tag = "obj" /\ zv = object_init_ex(ClassFor(v))
     /\ raised' <=> (raised \/ Uncreatable(ClassFor(v)))

LEMMA BeginOK ==
  ASSUME IInv, DInv, NEW zv, begin(zv), turn.step = "convert", Starts(zv, turn.v)
  PROVE  DInv'
  <1>1. PICK v : v = turn.v
    OBVIOUS
  <1>2. PICK f : f = [v |-> v, zv |-> zv, done |-> 0]
    OBVIOUS
  <1>3. PICK n : n = Len(making)
    OBVIOUS
  <1>4. /\ UNCHANGED vars /\ loaded' = loaded /\ delivered' = delivered
        /\ Push(making', making, f) /\ turn'.step = "loop"
        /\ turn # Idle /\ turn' # Idle
    BY <1>1, <1>2 DEF begin, Loop, Idle, Push
  <1>5. f.v = v /\ f.zv = zv /\ f.done = 0
    BY <1>2
  <1>6. /\ Wanted = v /\ v \in Made /\ v.tag \in {"arr", "obj"}
        /\ raised => raised'
    <2>1. Wanted = v /\ Wanted \in Made
      BY <1>1, <1>4, WantedMade DEF DInv, Turns
    <2>2. v.tag \in {"arr", "obj"} /\ (raised => raised')
      BY <1>1 DEF Starts
    <2> QED  BY <2>1, <2>2
  <1>7. /\ IsSeq(making') /\ n \in Nat /\ Len(making') = n + 1
        /\ making'[n + 1] = f /\ \A k \in 1 .. n : making'[k] = making[k]
    <2>1. IsSeq(making)
      BY DEF DInv, Makes
    <2> QED  BY <2>1, <1>3, <1>4, Pushed
  <1>8. /\ \A k \in 1 .. n + 1 : k = n + 1 \/ k \in 1 .. n
        /\ \A k \in 1 .. n : k # n + 1 /\ k \in 1 .. n + 1 /\ n \in 1 .. n
        /\ n + 1 \in 1 .. n + 1 /\ making' # <<>>
    BY <1>7
  <1>9. ASSUME NEW k \in 1 .. n PROVE MakeOK(k)'
    <2>1. MakeOK(k) /\ Halts(k) /\ Halts(k)'
      BY <1>3, <1>4, <1>7 DEF DInv, Makes, Halts
    <2> QED  BY <2>1, <1>4, <1>6, <1>7, MakeStays
  <1>10. MakeOK(n + 1)'
    <2>1. ~Halts(n + 1)' /\ Behind(n + 1)' = 0
      BY <1>4, <1>5, <1>7 DEF Halts, Behind
    <2>2. MakingOK(f)
      <3>1. Len(v.items) \in Nat
        BY <1>6, MadeShape
      <3> QED  BY <3>1, <1>2, <1>5, <1>6 DEF MakingOK
    <2>3. MadeOf(zv, v, 0)
      <3>1. CASE v.tag = "arr" /\ zv = Array(<<>>)
        <4>1. <<>> \in Seq({})
          OBVIOUS
        <4>2. ItemsMade(<<>>, v, 0)
          BY <4>1 DEF ItemsMade, IsSeq
        <4> QED  BY <3>1, <4>2 DEF MadeOf
      <3>2. CASE v.tag = "obj" /\ zv = object_init_ex(ClassFor(v))
        <4>1. PropsMade(Defaults(ClassFor(v)), v, 0)
          BY DEF PropsMade, Names
        <4> QED  BY <3>2, <4>1 DEF MadeOf, object_init_ex
      <3> QED  BY <3>1, <3>2, <1>1 DEF Starts
    <2>4. AllMade(v, 0)
      BY DEF AllMade
    <2>5. Raises(v, 0) => raised'
      BY <1>1 DEF Raises, Starts
    <2>6. BehindOK(f, 0)'
      <3>1. MadeOf(zv, v, 0)' /\ AllMade(v, 0)' /\ Raises(v, 0)' = Raises(v, 0)
        BY <2>3, <2>4, <1>4, <1>6, MadeStays
      <3> QED  BY <3>1, <2>5, <1>5 DEF BehindOK
    <2> QED  BY <2>1, <2>2, <2>6, <1>4, <1>5, <1>6, <1>7, MadeStays DEF MakeOK
  <1>11. Makes'
    BY <1>7, <1>8, <1>9, <1>10 DEF Makes
  <1>12. Chain'
    <2>1. \A k \in 1 .. n : k # 1 => k - 1 \in 1 .. n
      BY <1>7
    <2>2. now' = now
      BY <1>4 DEF vars
    <2>3. making'[n + 1].v = IF n + 1 = 1 THEN now.v
                             ELSE making'[n].v.items[making'[n].done].val
      <3>1. CASE making = <<>>
        <4>1. n + 1 = 1
          BY <3>1, <1>3
        <4> QED  BY <4>1, <3>1, <1>5, <1>6, <1>7 DEF Wanted
      <3>2. CASE making # <<>>
        <4>1. n \in 1 .. n /\ Inner = making[n]
          BY <3>2, <1>3, InnerBasics
        <4>2. n + 1 # 1
          BY <4>1, <1>7
        <4> QED  BY <4>1, <4>2, <3>2, <1>5, <1>6, <1>7 DEF Wanted
      <3> QED  BY <3>1, <3>2
    <2>4. \A k \in 1 .. n : making'[k].v = IF k = 1 THEN now.v
                            ELSE making'[k - 1].v.items[making'[k - 1].done].val
      BY <2>1, <1>3, <1>7 DEF DInv, Chain
    <2>5. (n + 1) - 1 = n
      BY <1>7
    <2> QED  BY <2>2, <2>3, <2>4, <2>5, <1>7, <1>8 DEF Chain
  <1>13. Turns'
    BY <1>4, <1>8 DEF DInv, Turns, vars
  <1>14. Complete'
    BY <1>4, <1>6, CompleteStays DEF DInv
  <1>15. Accounted'
    <2>1. CASE raised' /\ raised
      <3>1. ASSUME NEW k \in 1 .. n, RaisesAll(making[k].v)
            PROVE  Accounted'
        <4>1. k \in 1 .. Len(making') /\ making'[k].v = making[k].v
          BY <1>7, <1>8
        <4>2. RaisesAll(making[k].v)'
          BY <3>1, <4>1, <1>4, <1>6, MadeStays
        <4> QED  BY <4>1, <4>2 DEF Accounted
      <3>2. ASSUME NEW p \in delivered, RaisesAll(p[2]) PROVE Accounted'
        BY <3>2, <1>4, <1>6, MadeStays DEF Accounted
      <3> QED  BY <2>1, <3>1, <3>2, <1>3 DEF DInv, Accounted
    <2>2. CASE raised' /\ ~raised
      <3>1. RaisesAll(v)
        BY <2>2, <1>1 DEF RaisesAll, Raises, Starts
      <3>2. RaisesAll(making[n + 1].v)'
        BY <3>1, <1>4, <1>5, <1>6, <1>7, MadeStays
      <3> QED  BY <3>2, <1>7, <1>8 DEF Accounted
    <2> QED  BY <2>1, <2>2 DEF Accounted
  <1> QED  BY <1>11, <1>12, <1>13, <1>14, <1>15 DEF DInv

LEMMA NextPairOK ==
  ASSUME IInv, DInv, next_pair
  PROVE  DInv'
  <1>1. PICK n : n = Len(making)
    OBVIOUS
  <1>2. PICK f : f = Inner
    OBVIOUS
  <1>3. PICK g : g = [f EXCEPT !.done = @ + 1]
    OBVIOUS
  <1>4. /\ UNCHANGED vars /\ loaded' = loaded /\ delivered' = delivered
        /\ raised' = raised /\ turn.step = "loop" /\ f.done < Len(f.v.items)
        /\ turn'.step = "convert" /\ turn'.v = f.v.items[f.done + 1].val
        /\ turn # Idle /\ turn' # Idle /\ making # <<>>
        /\ Turn(making', making, g)
    BY <1>2, <1>3 DEF next_pair, Convert, Idle, Turn, Inner, DInv, Turns
  <1>5. /\ f = [v |-> f.v, zv |-> f.zv, done |-> f.done]
        /\ f.v \in Made /\ f.v.tag \in {"arr", "obj"} /\ Len(f.v.items) \in Nat
        /\ f.done \in 0 .. Len(f.v.items) /\ BehindOK(f, f.done)
    BY <1>1, <1>2, <1>4, InnerBasics
  <1>6. /\ g.v = f.v /\ g.zv = f.zv /\ g.done = f.done + 1
        /\ g = [v |-> g.v, zv |-> g.zv, done |-> g.done]
    BY <1>3, <1>5
  <1>7. /\ IsSeq(making)' /\ Len(making') = n /\ n \in 1 .. n /\ n \in Nat
        /\ making'[n] = g /\ making' # <<>> /\ Inner' = g
        /\ \A k \in 1 .. n : k = n \/ k \in 1 .. n - 1
        /\ \A k \in 1 .. n - 1 : MakeOK(k)'
        /\ Chain'
        /\ \A k \in 1 .. n : making'[k].v = making[k].v
    BY <1>1, <1>2, <1>4, <1>6, MakingTurns
  <1>8. MakeOK(n)'
    <2>1. Halts(n)' /\ Behind(n)' = f.done
      BY <1>4, <1>5, <1>6, <1>7 DEF Halts, Behind
    <2>2. MakingOK(g) /\ g.done >= 1
      BY <1>4, <1>5, <1>6 DEF MakingOK
    <2>3. BehindOK(g, f.done)
      BY <1>5, <1>6 DEF BehindOK
    <2> QED  BY <2>1, <2>2, <2>3, <1>4, <1>7, MadeStays DEF MakeOK
  <1>9. Makes'
    BY <1>7, <1>8 DEF Makes
  <1>10. Turns'
    <2>1. Wanted' = g.v.items[g.done].val
      BY <1>7 DEF Wanted
    <2> QED  BY <2>1, <1>4, <1>6 DEF DInv, Turns, vars
  <1>11. Complete'
    BY <1>4, CompleteStays DEF DInv
  <1>12. Accounted'
    BY <1>1, <1>4, <1>7, MadeStays DEF DInv, Accounted
  <1> QED  BY <1>7, <1>9, <1>10, <1>11, <1>12 DEF DInv

\* Both containers, with one more pair.
LEMMA ItemAdded ==
  ASSUME IInv, NEW v \in Made, v.tag = "arr", NEW d \in 1 .. Len(v.items),
         NEW items, ItemsMade(items, v, d - 1),
         NEW out, <<out, v.items[d].val>> \in delivered,
         NEW more, more = add_element(items, v.items[d].key, out)
  PROVE  ItemsMade(more, v, d)
  <1>1. Len(v.items) \in Nat /\ \A i \in 1 .. Len(v.items) :
          v.items[i].key = v.items[d].key => i = d
    BY MadeShape
  <1>2. PICK e : e = Item(v.items[d].key, out)
    OBVIOUS
  <1>3. IsSeq(items) /\ Len(items) = d - 1
    BY DEF ItemsMade
  <1>4. DOMAIN items = 1 .. d - 1
    BY <1>3 DEF IsSeq
  <1>5. \A i \in DOMAIN items : items[i].key # v.items[d].key
    <2>1. \A i \in 1 .. d - 1 : i \in 1 .. Len(v.items) /\ i # d
      BY <1>1
    <2> QED  BY <2>1, <1>1, <1>4 DEF ItemsMade
  <1>6. Push(more, items, e)
    BY <1>2, <1>5 DEF add_element, Push
  <1>7. /\ IsSeq(more) /\ Len(more) = d /\ more[d] = e
        /\ \A i \in 1 .. d - 1 : more[i] = items[i]
    <2>1. (d - 1) + 1 = d
      BY <1>1
    <2> QED  BY <2>1, <1>3, <1>6, Pushed
  <1>8. \A i \in 1 .. d : i = d \/ i \in 1 .. d - 1
    BY <1>1
  <1>9. e.key = v.items[d].key /\ e.val = out
    BY <1>2 DEF Item
  <1> QED  BY <1>7, <1>8, <1>9 DEF ItemsMade

LEMMA PropertyWritten ==
  ASSUME IInv, NEW v \in Made, v.tag = "obj", NEW d \in 1 .. Len(v.items),
         NEW props, PropsMade(props, v, d - 1),
         NEW out, <<out, v.items[d].val>> \in delivered,
         NEW more, more = write_property(props, v.items[d].key, out)
  PROVE  PropsMade(more, v, d)
  <1>1. Len(v.items) \in Nat /\ \A i \in 1 .. Len(v.items) :
          v.items[i].key = v.items[d].key => i = d
    BY MadeShape
  <1>2. /\ \A i \in 1 .. d : i = d \/ i \in 1 .. d - 1
        /\ \A i \in 1 .. d - 1 : i \in 1 .. d /\ i \in 1 .. Len(v.items) /\ i # d
        /\ d \in 1 .. d
    BY <1>1
  <1>3. PICK key : key = v.items[d].key
    OBVIOUS
  <1>4. PICK default : default = Defaults(ClassFor(v))
    OBVIOUS
  <1>5. /\ DOMAIN props = Names(v, d - 1) \cup DOMAIN default
        /\ \A i \in 1 .. d - 1 : ~Mangled(v.items[i].key) =>
             <<props[v.items[i].key], v.items[i].val>> \in delivered
        /\ \A k \in DOMAIN default \ Names(v, d - 1) : props[k] = default[k]
    BY <1>4 DEF PropsMade
  <1>6. CASE Mangled(key)
    <2>1. more = props
      BY <1>3, <1>6 DEF write_property
    <2>2. Names(v, d) = Names(v, d - 1)
      BY <1>2, <1>3, <1>6 DEF Names
    <2> QED  BY <2>1, <2>2, <1>2, <1>3, <1>4, <1>5, <1>6 DEF PropsMade
  <1>7. CASE ~Mangled(key)
    <2>1. more = [k \in DOMAIN props \cup {key} |-> IF k = key THEN out ELSE props[k]]
      BY <1>3, <1>7 DEF write_property
    <2>2. Names(v, d) = Names(v, d - 1) \cup {key}
      BY <1>2, <1>3, <1>7 DEF Names
    <2>3. DOMAIN more = Names(v, d) \cup DOMAIN default
      BY <2>1, <2>2, <1>5
    <2>4. ASSUME NEW i \in 1 .. d, ~Mangled(v.items[i].key)
          PROVE  <<more[v.items[i].key], v.items[i].val>> \in delivered
      <3>1. CASE i = d
        BY <3>1, <2>1, <1>3
      <3>2. CASE i \in 1 .. d - 1
        <4>1. v.items[i].key # key
          BY <3>2, <1>1, <1>2, <1>3
        <4>2. v.items[i].key \in DOMAIN props
          BY <3>2, <2>4, <1>5 DEF Names
        <4>3. more[v.items[i].key] = props[v.items[i].key]
          BY <4>1, <4>2, <2>1
        <4> QED  BY <4>3, <3>2, <2>4, <1>5
      <3> QED  BY <3>1, <3>2, <1>2
    <2>5. ASSUME NEW k \in DOMAIN default \ Names(v, d) PROVE more[k] = default[k]
      BY <2>1, <2>2, <1>5
    <2> QED  BY <2>3, <2>4, <2>5, <1>4 DEF PropsMade
  <1> QED  BY <1>6, <1>7

\* The innermost call has got one more of its pairs.
LEMMA AddOK ==
  ASSUME IInv, DInv, UNCHANGED <<vars, loaded, delivered>>, raised => raised',
         turn.step = "out", turn'.step = "loop", making # <<>>,
         NEW f, f = Inner, NEW zv, MadeOf(zv, f.v, f.done),
         NEW g, g = [v |-> f.v, zv |-> zv, done |-> f.done],
         Turn(making', making, g),
         raised' <=> raised \/ (f.v.tag = "obj" /\ Mangled(f.v.items[f.done].key))
  PROVE  DInv'
  <1>1. PICK n : n = Len(making)
    OBVIOUS
  <1>2. PICK d : d = f.done
    OBVIOUS
  <1>3. /\ UNCHANGED vars /\ loaded' = loaded /\ delivered' = delivered
        /\ turn' # Idle /\ turn # Idle
    BY DEF Idle
  <1>4. /\ f.v \in Made /\ f.v.tag \in {"arr", "obj"} /\ Len(f.v.items) \in Nat
        /\ d \in 1 .. Len(f.v.items) /\ BehindOK(f, d - 1)
        /\ Wanted = f.v.items[d].val
    BY <1>2, InnerBasics
  <1>5. g.v = f.v /\ g.zv = zv /\ g.done = d
    BY <1>2
  <1>6. /\ IsSeq(making)' /\ Len(making') = n /\ n \in 1 .. n /\ n \in Nat
        /\ making'[n] = g /\ making' # <<>> /\ Inner' = g
        /\ \A k \in 1 .. n : k = n \/ k \in 1 .. n - 1
        /\ \A k \in 1 .. n - 1 : MakeOK(k)'
        /\ Chain'
        /\ \A k \in 1 .. n : making'[k].v = making[k].v
    BY <1>1, <1>5, MakingTurns
  <1>7. \A i \in 1 .. d : i = d \/ i \in 1 .. d - 1
    BY <1>4
  <1>8. BehindOK(g, d)'
    <2>1. MadeOf(zv, f.v, d)'
      BY <1>2, <1>3, MadeStays
    <2>2. AllMade(f.v, d)
      <3>1. <<turn.zv, f.v.items[d].val>> \in delivered
        BY <1>4 DEF DInv, Turns
      <3>2. AllMade(f.v, d - 1)
        BY <1>4 DEF BehindOK
      <3> QED  BY <3>1, <3>2, <1>7 DEF AllMade
    <2>3. Raises(f.v, d) => raised'
      BY <1>2, <1>4, <1>7 DEF BehindOK, Raises
    <2>4. AllMade(f.v, d)' /\ Raises(f.v, d)' = Raises(f.v, d)
      BY <2>2, <1>3, MadeStays
    <2> QED  BY <2>1, <2>3, <2>4, <1>5 DEF BehindOK
  <1>9. MakeOK(n)'
    <2>1. ~Halts(n)' /\ Behind(n)' = d
      BY <1>5, <1>6 DEF Halts, Behind
    <2>2. MakingOK(g)
      BY <1>4, <1>5 DEF MakingOK
    <2> QED  BY <2>1, <2>2, <1>3, <1>6, <1>8, MadeStays DEF MakeOK
  <1>10. Makes'
    BY <1>6, <1>9 DEF Makes
  <1>11. Turns'
    BY <1>3, <1>6 DEF DInv, Turns, vars
  <1>12. Complete'
    BY CompleteStays DEF DInv
  <1>13. Accounted'
    <2>1. ASSUME NEW k \in 1 .. n, RaisesAll(making[k].v) PROVE Accounted'
      <3>1. k \in 1 .. Len(making') /\ making'[k].v = making[k].v
        BY <1>6
      <3>2. RaisesAll(making[k].v)'
        BY <2>1, <3>1, <1>3, MadeStays
      <3> QED  BY <3>1, <3>2 DEF Accounted
    <2>2. ASSUME NEW p \in delivered, RaisesAll(p[2]) PROVE Accounted'
      BY <2>2, <1>3, MadeStays DEF Accounted
    <2>3. CASE raised
      BY <2>1, <2>2, <2>3, <1>1 DEF DInv, Accounted
    <2>4. CASE f.v.tag = "obj" /\ Mangled(f.v.items[d].key)
      <3>1. RaisesAll(f.v)
        BY <2>4, <1>4 DEF RaisesAll, Raises
      <3>2. f = making[n]
        BY <1>1 DEF Inner
      <3> QED  BY <3>1, <3>2, <2>1, <1>6
    <2>5. CASE ~raised'
      BY <2>5 DEF Accounted
    <2> QED  BY <2>3, <2>4, <2>5, <1>2
  <1> QED  BY <1>6, <1>10, <1>11, <1>12, <1>13 DEF DInv

LEMMA AddToArrayOK ==
  ASSUME IInv, DInv, add_to_array
  PROVE  DInv'
  <1>1. PICK n : n = Len(making)
    OBVIOUS
  <1>2. PICK f : f = Inner
    OBVIOUS
  <1>3. /\ UNCHANGED <<vars, loaded, delivered>> /\ raised' = raised
        /\ turn.step = "out" /\ turn'.step = "loop" /\ making # <<>>
        /\ f.v.tag = "arr"
    BY <1>2 DEF add_to_array, Loop
  <1>4. /\ f = [v |-> f.v, zv |-> f.zv, done |-> f.done] /\ f = making[n]
        /\ f.v \in Made /\ f.done \in 1 .. Len(f.v.items)
        /\ BehindOK(f, f.done - 1) /\ Wanted = f.v.items[f.done].val
    BY <1>1, <1>2, <1>3, InnerBasics
  <1>5. PICK items : f.zv = Array(items) /\ ItemsMade(items, f.v, f.done - 1)
    BY <1>3, <1>4 DEF BehindOK, MadeOf
  <1>6. PICK more : more = add_element(items, f.v.items[f.done].key, turn.zv)
    OBVIOUS
  <1>7. ItemsMade(more, f.v, f.done)
    <2>1. <<turn.zv, f.v.items[f.done].val>> \in delivered
      BY <1>3, <1>4 DEF DInv, Turns
    <2> QED  BY <2>1, <1>3, <1>4, <1>5, <1>6, ItemAdded
  <1>8. PICK g : g = [v |-> f.v, zv |-> Array(more), done |-> f.done]
    OBVIOUS
  <1>9. Turn(making', making, g)
    <2>1. making' = [making EXCEPT ![n].zv.items = more]
      <3>1. Inner.zv.items = items
        BY <1>2, <1>5 DEF Array
      <3> QED  BY <3>1, <1>1, <1>2, <1>4, <1>6 DEF add_to_array, Key, Inner
    <2>2. [f EXCEPT !.zv.items = more] = g
      <3>1. [f.zv EXCEPT !.items = more] = Array(more)
        BY <1>5 DEF Array
      <3> QED  BY <3>1, <1>4, <1>8
    <2> QED  BY <2>1, <2>2, <1>1, <1>4 DEF Turn
  <1>10. MadeOf(Array(more), f.v, f.done)
    BY <1>3, <1>7 DEF MadeOf
  <1> QED  BY <1>2, <1>3, <1>8, <1>9, <1>10, AddOK

LEMMA WriteToObjectOK ==
  ASSUME IInv, DInv, write_to_object
  PROVE  DInv'
  <1>1. PICK n : n = Len(making)
    OBVIOUS
  <1>2. PICK f : f = Inner
    OBVIOUS
  <1>3. /\ UNCHANGED <<vars, loaded, delivered>>
        /\ raised' <=> raised \/ Mangled(f.v.items[f.done].key)
        /\ turn.step = "out" /\ turn'.step = "loop" /\ making # <<>>
        /\ f.v.tag = "obj"
    BY <1>2 DEF write_to_object, Loop, Key
  <1>4. /\ f = [v |-> f.v, zv |-> f.zv, done |-> f.done] /\ f = making[n]
        /\ f.v \in Made /\ f.done \in 1 .. Len(f.v.items) /\ n \in 1 .. n
        /\ BehindOK(f, f.done - 1) /\ Wanted = f.v.items[f.done].val
    BY <1>1, <1>2, <1>3, InnerBasics
  <1>5. ~Uncreatable(ClassFor(f.v))
    BY <1>2, <1>3, <1>4 DEF BehindOK, MadeOf, write_to_object
  <1>6. PICK props : /\ f.zv = Instance(ClassFor(f.v), props)
                     /\ PropsMade(props, f.v, f.done - 1)
    BY <1>3, <1>4, <1>5 DEF BehindOK, MadeOf
  <1>7. PICK more : more = write_property(props, f.v.items[f.done].key, turn.zv)
    OBVIOUS
  <1>8. PropsMade(more, f.v, f.done)
    <2>1. <<turn.zv, f.v.items[f.done].val>> \in delivered
      BY <1>3, <1>4 DEF DInv, Turns
    <2> QED  BY <2>1, <1>3, <1>4, <1>6, <1>7, PropertyWritten
  <1>9. PICK made : made = Instance(ClassFor(f.v), more)
    OBVIOUS
  <1>10. PICK g : g = [v |-> f.v, zv |-> made, done |-> f.done]
    OBVIOUS
  <1>11. Turn(making', making, g)
    <2>1. making' = [making EXCEPT ![n].zv.props = more]
      <3>1. Inner.zv.props = props
        BY <1>2, <1>6 DEF Instance
      <3> QED  BY <3>1, <1>1, <1>2, <1>4, <1>7 DEF write_to_object, Key, Inner
    <2>2. [f EXCEPT !.zv.props = more] = g
      <3>1. [f.zv EXCEPT !.props = more] = made
        BY <1>6, <1>9 DEF Instance
      <3> QED  BY <3>1, <1>4, <1>10
    <2> QED  BY <2>1, <2>2, <1>1, <1>4 DEF Turn
  <1>12. MadeOf(made, f.v, f.done)
    BY <1>3, <1>5, <1>8, <1>9 DEF MadeOf
  <1> QED  BY <1>2, <1>3, <1>10, <1>11, <1>12, AddOK

\* Nothing is lost or made by a crash: it happens in a call that has no object.
LEMMA WriteToNothingOK ==
  ASSUME IInv, DInv, write_to_nothing
  PROVE  DInv'
  <1>1. /\ UNCHANGED vars /\ loaded' = loaded /\ making' = making
        /\ raised' = raised /\ delivered' = delivered
        /\ delivered \subseteq delivered' /\ UNCHANGED <<vars, loaded, delivered>>
        /\ turn.step = "out" /\ turn'.step = "crashed" /\ turn # Idle /\ turn' # Idle
        /\ making # <<>> /\ Inner.v.tag = "obj" /\ Inner.zv = NoObject
    BY DEF write_to_nothing, Crashed, Idle
  <1>2. \A k : Halts(k)' = Halts(k)
    BY <1>1 DEF Halts
  <1>3. Makes'
    BY <1>1, <1>2, MakeStays DEF DInv, Makes
  <1>4. Chain'
    BY <1>1 DEF DInv, Chain, vars
  <1>5. Uncreatable(ClassFor(Inner.v))
    <2>1. MadeOf(Inner.zv, Inner.v, Inner.done - 1)
      BY <1>1, InnerBasics DEF BehindOK
    <2>2. \A props : Instance(ClassFor(Inner.v), props).tag = "instance"
      BY DEF Instance
    <2>3. Inner.zv.tag = "none"
      BY <1>1 DEF NoObject
    <2> QED  BY <2>1, <2>2, <2>3, <1>1 DEF MadeOf
  <1>6. Inner' = Inner /\ ClassFor(Inner.v)' = ClassFor(Inner.v)
    BY <1>1 DEF Inner, ClassFor
  <1>7. Turns'
    BY <1>1, <1>5, <1>6 DEF DInv, Turns, vars
  <1>8. Complete'
    BY <1>1, CompleteStays DEF DInv
  <1>9. Accounted'
    BY <1>1, MadeStays DEF DInv, Accounted
  <1> QED  BY <1>3, <1>4, <1>7, <1>8, <1>9 DEF DInv

LEMMA FinishOK ==
  ASSUME IInv, DInv, finish
  PROVE  DInv'
  <1>1. PICK n : n = Len(making)
    OBVIOUS
  <1>2. PICK f : f = Inner
    OBVIOUS
  <1>3. /\ UNCHANGED vars /\ loaded' = loaded /\ raised' = raised
        /\ delivered' = delivered \cup {<<f.zv, f.v>>}
        /\ delivered \subseteq delivered'
        /\ turn.step = "loop" /\ f.done = Len(f.v.items) /\ Pop(making', making)
        /\ turn'.step = "out" /\ turn'.zv = f.zv /\ turn' # Idle /\ turn # Idle
        /\ making # <<>>
    BY <1>2 DEF finish, Out, Idle, Pop, DInv, Turns
  <1>4. /\ n \in Nat /\ n \in 1 .. n /\ f = making[n] /\ f.v \in Made
        /\ f.v.tag \in {"arr", "obj"} /\ BehindOK(f, Len(f.v.items))
    BY <1>1, <1>2, <1>3, InnerBasics
  <1>5. /\ IsSeq(making') /\ Len(making') = n - 1
        /\ \A k \in 1 .. n - 1 : making'[k] = making[k]
    BY <1>1, <1>3, Popped DEF DInv, Makes
  <1>6. /\ \A k \in 1 .. n : k = n \/ k \in 1 .. n - 1
        /\ \A k \in 1 .. n - 1 : k \in 1 .. n
    BY <1>4
  <1>7. ASSUME NEW k \in 1 .. n - 1 PROVE MakeOK(k)'
    <2>1. MakeOK(k)
      BY <1>1, <1>6 DEF DInv, Makes
    <2>2. Halts(k) /\ Halts(k)'
      BY <1>1, <1>3, <1>4, <1>5 DEF Halts
    <2> QED  BY <2>1, <2>2, <1>3, <1>5, MakeStays
  <1>8. Makes'
    BY <1>5, <1>7 DEF Makes
  <1>9. Chain'
    <2>1. \A k \in 1 .. n - 1 : k # 1 => k - 1 \in 1 .. n - 1
      BY <1>4
    <2>2. now' = now
      BY <1>3 DEF vars
    <2> QED  BY <2>1, <2>2, <1>1, <1>5, <1>6 DEF DInv, Chain
  <1>10. Wanted' = f.v
    <2>1. f.v = IF n = 1 THEN now.v
                ELSE making[n - 1].v.items[making[n - 1].done].val
      BY <1>1, <1>4 DEF DInv, Chain
    <2>2. CASE n = 1
      <3>1. making' = <<>>
        BY <2>2, <1>5 DEF IsSeq
      <3> QED  BY <2>1, <2>2, <3>1, <1>3 DEF Wanted, vars
    <2>3. CASE n # 1
      <3>1. n - 1 \in 1 .. n - 1
        BY <2>3, <1>4
      <3>2. making' # <<>>
        BY <3>1, <1>5
      <3>3. Inner' = making[n - 1]
        BY <3>1, <1>5 DEF Inner
      <3> QED  BY <2>1, <2>3, <3>2, <3>3 DEF Wanted
    <2> QED  BY <2>2, <2>3
  <1>11. Turns'
    BY <1>3, <1>10 DEF DInv, Turns, vars
  <1>12. Complete'
    <2>1. ASSUME NEW p \in delivered
          PROVE  /\ p[2] \in Made'
                 /\ p[2].tag \in {"arr", "obj"} =>
                      /\ MadeOf(p[1], p[2], Len(p[2].items))'
                      /\ AllMade(p[2], Len(p[2].items))'
                      /\ RaisesAll(p[2])' => raised'
                 /\ p[2].tag \notin {"arr", "obj"} => p[1] = p[2]
      BY <1>3, MadeStays DEF DInv, Complete
    <2>2. /\ f.v \in Made'
          /\ MadeOf(f.zv, f.v, Len(f.v.items))' /\ AllMade(f.v, Len(f.v.items))'
          /\ RaisesAll(f.v)' => raised'
      <3>1. RaisesAll(f.v) => raised
        BY <1>4 DEF BehindOK, RaisesAll
      <3> QED  BY <3>1, <1>3, <1>4, MadeStays DEF BehindOK
    <2>3. \A p \in delivered' : p \in delivered \/ (p[1] = f.zv /\ p[2] = f.v)
      BY <1>3
    <2> QED  BY <2>1, <2>2, <2>3, <1>4 DEF Complete
  <1>13. Accounted'
    <2>1. ASSUME NEW p \in delivered, RaisesAll(p[2]) PROVE Accounted'
      BY <2>1, <1>3, MadeStays DEF Accounted
    <2>2. ASSUME NEW k \in 1 .. n - 1, RaisesAll(making[k].v) PROVE Accounted'
      <3>1. k \in 1 .. Len(making') /\ making'[k] = making[k]
        BY <1>5
      <3>2. RaisesAll(making[k].v)'
        BY <2>2, <3>1, <1>3, MadeStays
      <3> QED  BY <3>1, <3>2 DEF Accounted
    <2>3. ASSUME RaisesAll(f.v) PROVE Accounted'
      <3>1. RaisesAll(f.v)'
        BY <2>3, <1>3, MadeStays
      <3>2. <<f.zv, f.v>> \in delivered' /\ <<f.zv, f.v>>[2] = f.v
        BY <1>3
      <3>3. PICK p : p = <<f.zv, f.v>>
        OBVIOUS
      <3>4. p \in delivered' /\ p[2] = f.v
        BY <3>2, <3>3
      <3>5. RaisesAll(p[2])'
        BY <3>1, <3>4
      <3> QED  BY <3>4, <3>5 DEF Accounted
    <2> QED  BY <2>1, <2>2, <2>3, <1>1, <1>3, <1>4, <1>6 DEF DInv, Accounted
  <1> QED  BY <1>8, <1>9, <1>11, <1>12, <1>13 DEF DInv

LEMMA NothingDelivered ==
  ASSUME making = <<>>, turn = Idle, raised = FALSE, delivered = {}
  PROVE  DInv
  <1>1. IsSeq(making) /\ Len(making) = 0
    <2>1. <<>> \in Seq({})
      OBVIOUS
    <2> QED  BY <2>1 DEF IsSeq
  <1>2. turn.step = "idle"
    BY DEF Idle
  <1> QED  BY <1>1, <1>2 DEF DInv, Makes, Chain, Turns, Complete, Accounted

\* The other thread's steps, before the snapshot is there, and no step at all.
LEMMA CaptureStepOK ==
  ASSUME IInv, DInv, Next, UNCHANGED deliveryVars
  PROVE  DInv'
  <1>1. turn = Idle
    <2> SUFFICES ASSUME turn # Idle PROVE FALSE
      OBVIOUS
    <2>1. stack = <<>> /\ now.step = "value"
      BY DEF DInv, Turns
    <2> QED  BY <2>1 DEF Next, refuse, capture_scalar, array_to_value,
                object_to_value, skip_element, call_element,
                refuse_by_reference, InLoop, abandon, attach, return_container
  <1>2. /\ making' = <<>> /\ turn' = Idle /\ ~raised' /\ delivered' = {}
    BY <1>1 DEF DInv, Turns, deliveryVars
  <1>3. IsSeq(making)' /\ Len(making') = 0
    <2>1. <<>> \in Seq({})
      OBVIOUS
    <2> QED  BY <2>1, <1>2 DEF IsSeq
  <1>4. turn'.step = "idle"
    BY <1>2 DEF Idle
  <1> QED  BY <1>2, <1>3, <1>4 DEF DInv, Makes, Chain, Turns, Complete, Accounted

LEMMA ConversionStutterOK ==
  ASSUME DInv, UNCHANGED conversionVars
  PROVE  DInv'
  <1>1. /\ UNCHANGED vars /\ loaded' = loaded /\ making' = making
        /\ raised' = raised /\ delivered' = delivered /\ turn' = turn
        /\ delivered \subseteq delivered'
    BY DEF conversionVars, deliveryVars
  <1>2. \A k : Halts(k)' = Halts(k)
    BY <1>1 DEF Halts
  <1>3. Makes'
    BY <1>1, <1>2, MakeStays DEF DInv, Makes
  <1>4. Chain'
    BY <1>1 DEF DInv, Chain, vars
  <1>5. Inner' = Inner /\ Wanted' = Wanted
    BY <1>1 DEF Wanted, Inner, vars
  <1>6. Turns'
    <2>1. ClassFor(Inner.v)' = ClassFor(Inner.v)
      BY <1>1, <1>5 DEF ClassFor
    <2> QED  BY <2>1, <1>1, <1>5 DEF DInv, Turns, vars
  <1>7. Complete'
    BY <1>1, CompleteStays DEF DInv
  <1>8. Accounted'
    BY <1>1, MadeStays DEF DInv, Accounted
  <1> QED  BY <1>3, <1>4, <1>6, <1>7, <1>8 DEF DInv

-----------------------------------------------------------------------------
\* The theorems.

\* px_value_to_zval leaves the snapshot and what was captured alone.
LEMMA ConversionCaptures ==
  Conversion => Spec
  <1>1. ConversionInit => Init
    BY DEF ConversionInit
  <1>2. [ConversionNext]_conversionVars => [Next]_vars
    BY DEF ConversionNext, conversionVars, Deliver, Receive, scalar_to_zval,
           kv_block_to_array, kv_block_to_object, begin, next_pair,
           add_to_array, write_to_object, write_to_nothing, finish
  <1> QED  BY <1>1, <1>2, PTL DEF Conversion, Spec

\* What holds of the snapshot goes on holding while it is converted back: it
\* still is what was asked for, and it is all that is allocated
\* (bridge.c:138-278, 355-358).
THEOREM SnapshotIsKept ==
  Conversion => [](/\ TypeOK /\ AcceptsExactlyTransferable
                   /\ RefusalLeaksNothing /\ SnapshotIsExact)
  BY ConversionCaptures, SnapshotTypeCorrect, SnapshotAcceptsExactlyTransferable,
     SnapshotRefusalLeaksNothing, SnapshotMirrorsItsValue, PTL

LEMMA ConversionInductive ==
  Conversion => [](IInv /\ DInv)
  <1>1. Conversion => []IInv
    BY ConversionCaptures, Inductive, PTL
  <1>2. ConversionInit => DInv
    BY NothingDelivered DEF ConversionInit
  <1>3. IInv /\ DInv /\ [ConversionNext]_conversionVars => DInv'
    <2> SUFFICES ASSUME IInv, DInv, [ConversionNext]_conversionVars PROVE DInv'
      OBVIOUS
    <2>1. CASE Next /\ UNCHANGED deliveryVars
      BY <2>1, CaptureStepOK
    <2>2. CASE Receive
      BY <2>2, ReceiveOK
    <2>3. CASE scalar_to_zval
      BY <2>3, ScalarToZvalOK
    <2>4. CASE kv_block_to_array
      <3>1. begin(Array(<<>>)) /\ turn.step = "convert"
        BY <2>4 DEF kv_block_to_array
      <3>2. Starts(Array(<<>>), turn.v)
        BY <2>4 DEF kv_block_to_array, Starts
      <3> QED  BY <3>1, <3>2, BeginOK
    <2>5. CASE kv_block_to_object
      <3>1. /\ begin(object_init_ex(ClassFor(turn.v))) /\ turn.step = "convert"
        BY <2>5 DEF kv_block_to_object
      <3>2. Starts(object_init_ex(ClassFor(turn.v)), turn.v)
        BY <2>5 DEF kv_block_to_object, Starts
      <3> QED  BY <3>1, <3>2, BeginOK
    <2>6. CASE next_pair
      BY <2>6, NextPairOK
    <2>7. CASE add_to_array
      BY <2>7, AddToArrayOK
    <2>8. CASE write_to_object
      BY <2>8, WriteToObjectOK
    <2>9. CASE finish
      BY <2>9, FinishOK
    <2>10. CASE write_to_nothing
      BY <2>10, WriteToNothingOK
    <2>11. CASE UNCHANGED conversionVars
      BY <2>11, ConversionStutterOK
    <2> QED  BY <2>1, <2>2, <2>3, <2>4, <2>5, <2>6, <2>7, <2>8, <2>9, <2>10,
                <2>11
             DEF ConversionNext, Deliver
  <1> QED  BY <1>1, <1>2, <1>3, PTL DEF Conversion

LEMMA RenderedPair ==
  ASSUME NEW p \in delivered, NEW c \in captured, p[2] = c[1]
  PROVE  <<p[1], c[2]>> \in Rendered
  <1>1. PICK q : q = <<p, c>>
    OBVIOUS
  <1>2. q \in delivered \X captured /\ q[1][2] = q[2][1]
        /\ <<q[1][1], q[2][2]>> = <<p[1], c[2]>>
    BY <1>1
  <1> QED  BY <1>2 DEF Rendered

LEMMA OfRendered ==
  ASSUME NEW r \in Rendered
  PROVE  \E p \in delivered, c \in captured :
           p[2] = c[1] /\ r = <<p[1], c[2]>>
  BY DEF Rendered

\* The properties of an object are those of its snapshot.
HasProps(v, h) ==
  /\ v.tag = "obj" /\ v.cls = Class(h).name
  /\ \A e \in SetProps(h) : \E i \in 1 .. Len(v.items) :
       /\ v.items[i].key = e.key
       /\ <<v.items[i].val, ZVAL_DEREF(e.val)>> \in captured
  /\ \A i \in 1 .. Len(v.items) : \E e \in SetProps(h) :
       v.items[i].key = e.key

LEMMA CapturedProps ==
  ASSUME IInv, NEW v, NEW zv \in Zvals, zv.tag = "object", Mirrors(v, zv)
  PROVE  HasProps(v, zv.handle)
  <1>1. MirrorsObject(v, zv.handle)
    BY DEF Mirrors
  <1>2. ASSUME NEW e \in SetProps(zv.handle), NEW d \in SetProps(zv.handle),
               e.key = d.key
        PROVE  e = d
    <2>1. objects \in Objects
      BY DEF IInv, TypeOK
    <2>2. PICK i \in 1 .. Len(Elements(zv)) : e = Elements(zv)[i] /\ IsSet(e)
      BY <2>1, SetElements
    <2>3. PICK j \in 1 .. Len(Elements(zv)) : d = Elements(zv)[j] /\ IsSet(d)
      BY <2>1, SetElements
    <2>4. i = j
      BY <1>2, <2>1, <2>2, <2>3, SetElementsDiffer
    <2> QED  BY <2>2, <2>3, <2>4
  <1>3. ASSUME NEW e \in SetProps(zv.handle)
        PROVE  \E i \in 1 .. Len(v.items) :
                 /\ v.items[i].key = e.key
                 /\ <<v.items[i].val, ZVAL_DEREF(e.val)>> \in captured
    <2>1. PICK i \in 1 .. Len(v.items) : v.items[i].key = e.key
      BY <1>1 DEF MirrorsObject
    <2>2. PICK d \in SetProps(zv.handle) :
            /\ v.items[i].key = d.key
            /\ <<v.items[i].val, ZVAL_DEREF(d.val)>> \in captured
      BY <1>1 DEF MirrorsObject
    <2>3. d = e
      BY <1>2, <2>1, <2>2
    <2> QED  BY <2>1, <2>2, <2>3
  <1> QED  BY <1>1, <1>3 DEF MirrorsObject, HasProps

\* A name is found only if its class is, and stands for no other.
LEMMA LookupFinds ==
  ASSUME loaded \in Known, NEW d \in DOMAIN Classes
  PROVE  /\ d \in loaded => zend_lookup_class(Classes[d].name, loaded) = d
         /\ d \notin loaded => zend_lookup_class(Classes[d].name, loaded) = StdClass
  <1>1. loaded \subseteq DOMAIN Classes
    BY CaptureAssumption
  <1>2. \A c \in loaded : Classes[c].name = Classes[d].name => c = d
    BY <1>1, CaptureAssumption
  <1> QED  BY <1>2 DEF zend_lookup_class

\* The class that is looked up has no instances exactly if the object is one of
\* an enum the other side finds; and such an object has a property to write.
LEMMA LookupUnmakable ==
  ASSUME IInv, loaded \in Known, NEW v, NEW zv \in Zvals, zv.tag = "object",
         Mirrors(v, zv)
  PROVE  /\ v.tag = "obj"
         /\ Uncreatable(ClassFor(v)) <=> Unmakable(zv)
         /\ Unmakable(zv) => Len(v.items) # 0
  <1>1. PICK h : h = zv.handle
    OBVIOUS
  <1>2. HasProps(v, h)
    BY <1>1, CapturedProps
  <1>3. h \in DOMAIN ClassOf /\ ClassOf[h] \in DOMAIN Classes
    BY <1>1, ZvalAssumption, SnapshotAssumption
  <1>4. Uncreatable(ClassFor(v)) <=> Unmakable(zv)
    BY <1>1, <1>2, <1>3, LookupFinds, CaptureAssumption
       DEF HasProps, ClassFor, Uncreatable, Unmakable, Class
  <1>5. ASSUME Unmakable(zv) PROVE Len(v.items) # 0
    <2>1. objects \in Objects /\ Class(h).kind = "enum"
      BY <1>1, <1>5 DEF IInv, TypeOK, Unmakable
    <2>2. PICK i \in DOMAIN Class(h).props : objects[h].slots[i] # Undef
      BY <2>1, <1>3, EnumAssumption
    <2>3. SetProps(h) # {}
      BY <2>2 DEF SetProps, Unset
    <2>4. 1 .. Len(v.items) # {}
      BY <2>3, <1>2 DEF HasProps
    <2> QED  BY <2>4
  <1> QED  BY <1>2, <1>4, <1>5 DEF HasProps

\* What was delivered is of a class that has instances.
LEMMA DeliveredMakable ==
  ASSUME IInv, DInv, loaded \in Known, NEW p \in delivered, NEW c \in captured,
         p[2] = c[1]
  PROVE  ~Unmakable(c[2])
  <1> SUFFICES ASSUME Unmakable(c[2]) PROVE FALSE
    OBVIOUS
  <1>1. c[2] \in Zvals /\ Mirrors(c[1], c[2]) /\ c[2].tag = "object"
    BY DEF IInv, Exact, Unmakable
  <1>2. /\ c[1].tag = "obj" /\ Uncreatable(ClassFor(c[1]))
        /\ Len(c[1].items) # 0
    BY <1>1, LookupUnmakable
  <1>3. MadeOf(p[1], c[1], Len(c[1].items))
    BY <1>2 DEF DInv, Complete
  <1> QED  BY <1>2, <1>3 DEF MadeOf

\* An exception stands for a name that cannot be written, where there is an
\* object.
LEMMA RaisesUnwritable ==
  ASSUME IInv, loaded \in Known, NEW v, NEW zv \in Zvals, Mirrors(v, zv),
         ~Unmakable(zv)
  PROVE  RaisesAll(v) <=> Unwritable(zv)
  <1>1. CASE zv.tag = "object"
    <2>1. PICK h : h = zv.handle
      OBVIOUS
    <2>2. HasProps(v, h)
      BY <1>1, <2>1, CapturedProps
    <2>3. ~Uncreatable(ClassFor(v))
      BY <1>1, LookupUnmakable
    <2>4. (\E i \in 1 .. Len(v.items) : Mangled(v.items[i].key)) <=>
            \E e \in SetProps(h) : Mangled(e.key)
      BY <2>2 DEF HasProps
    <2> QED  BY <1>1, <2>1, <2>2, <2>3, <2>4
             DEF HasProps, RaisesAll, Raises, Unwritable
  <1>2. CASE zv.tag # "object"
    BY <1>2 DEF Mirrors, MirrorsArray, Scalar, RaisesAll, Raises, Unwritable
  <1> QED  BY <1>1, <1>2

\* A part of the result renders a part of the value.
LEMMA PartRenders ==
  ASSUME IInv, DInv, loaded \in Known, NEW p \in delivered, NEW c \in captured, p[2] = c[1]
  PROVE  Renders(p[1], c[2])
  <1>1. PICK v, zv, out : v = c[1] /\ zv = c[2] /\ out = p[1]
    OBVIOUS
  <1>2. zv \in Zvals /\ Mirrors(v, zv) /\ v \in Made
    BY <1>1 DEF IInv, Exact, Made
  <1>3. /\ v.tag \in {"arr", "obj"} => /\ MadeOf(out, v, Len(v.items))
                                       /\ AllMade(v, Len(v.items))
        /\ v.tag \notin {"arr", "obj"} => out = v
    BY <1>1 DEF DInv, Complete
  <1>4. CASE zv.tag = "array"
    <2>1. MirrorsArray(v, zv)
      BY <1>2, <1>4 DEF Mirrors
    <2>2. PICK items : out = Array(items) /\ ItemsMade(items, v, Len(v.items))
      BY <2>1, <1>3 DEF MirrorsArray, MadeOf
    <2>3. ASSUME NEW i \in 1 .. Len(zv.items)
          PROVE  /\ items[i].key = zv.items[i].key
                 /\ <<items[i].val, zv.items[i].val>> \in Rendered
      <3>1. /\ items[i].key = v.items[i].key
            /\ <<items[i].val, v.items[i].val>> \in delivered
            /\ v.items[i].key = zv.items[i].key
            /\ <<v.items[i].val, zv.items[i].val>> \in captured
        BY <2>1, <2>2 DEF MirrorsArray, ItemsMade
      <3>2. PICK a, b : /\ a = <<items[i].val, v.items[i].val>>
                        /\ b = <<v.items[i].val, zv.items[i].val>>
        OBVIOUS
      <3>3. <<a[1], b[2]>> \in Rendered
        BY <3>1, <3>2, RenderedPair
      <3> QED  BY <3>1, <3>2, <3>3
    <2>4. out.tag = "array" /\ out.items = items /\ Len(items) = Len(zv.items)
      BY <2>1, <2>2 DEF Array, MirrorsArray, ItemsMade
    <2>5. RendersArray(out, zv)
      BY <2>3, <2>4 DEF RendersArray
    <2> QED  BY <2>5, <1>1, <1>4 DEF Renders
  <1>5. CASE zv.tag = "object"
    <2>1. PICK h, class : /\ h = zv.handle
                          /\ class = zend_lookup_class(Class(h).name, loaded)
      OBVIOUS
    <2>2. /\ v.tag = "obj" /\ ClassFor(v) = class
          /\ \A e \in SetProps(h) : \E i \in 1 .. Len(v.items) :
               /\ v.items[i].key = e.key
               /\ <<v.items[i].val, ZVAL_DEREF(e.val)>> \in captured
          /\ \A i \in 1 .. Len(v.items) : \E e \in SetProps(h) :
               v.items[i].key = e.key
      <3>1. HasProps(v, h)
        BY <1>2, <1>5, <2>1, CapturedProps
      <3>2. ClassFor(v) = class
        BY <3>1, <2>1 DEF ClassFor, HasProps
      <3> QED  BY <3>1, <3>2 DEF HasProps
    <2>3. MadeOf(out, v, Len(v.items)) /\ AllMade(v, Len(v.items))
      BY <2>2, <1>3
    <2>4. ASSUME NEW e \in SetProps(h)
          PROVE  \E r \in Rendered : r[2] = ZVAL_DEREF(e.val)
      <3>1. PICK i \in 1 .. Len(v.items) :
              <<v.items[i].val, ZVAL_DEREF(e.val)>> \in captured
        BY <2>2
      <3>2. PICK a \in delivered : a[2] = v.items[i].val
        BY <2>3 DEF AllMade
      <3>3. PICK b : b = <<v.items[i].val, ZVAL_DEREF(e.val)>>
        OBVIOUS
      <3>4. <<a[1], b[2]>> \in Rendered
        BY <3>1, <3>2, <3>3, RenderedPair
      <3>5. PICK r : r = <<a[1], b[2]>>
        OBVIOUS
      <3> QED  BY <3>3, <3>4, <3>5
    <2>5. ~Uncreatable(class)
      BY <1>1, <1>2, <1>5, <2>2, DeliveredMakable, LookupUnmakable
    <2>6. PICK props : /\ out = Instance(class, props)
                       /\ PropsMade(props, v, Len(v.items))
      BY <2>2, <2>3, <2>5 DEF MadeOf
    <2>7. PICK Writable : Writable = {e \in SetProps(h) : ~Mangled(e.key)}
      OBVIOUS
    <2>8. PICK Written : Written = {e.key : e \in Writable}
      OBVIOUS
    <2>9. Names(v, Len(v.items)) = Written
      <3>1. ASSUME NEW key \in Names(v, Len(v.items)) PROVE key \in Written
        <4>1. PICK i \in 1 .. Len(v.items) : /\ key = v.items[i].key
                                             /\ ~Mangled(v.items[i].key)
          BY <3>1 DEF Names
        <4>2. PICK e \in SetProps(h) : v.items[i].key = e.key
          BY <2>2
        <4> QED  BY <4>1, <4>2, <2>7, <2>8
      <3>2. ASSUME NEW key \in Written PROVE key \in Names(v, Len(v.items))
        <4>1. PICK e \in SetProps(h) : key = e.key /\ ~Mangled(e.key)
          BY <3>2, <2>7, <2>8
        <4>2. PICK i \in 1 .. Len(v.items) : v.items[i].key = e.key
          BY <2>2
        <4> QED  BY <4>1, <4>2 DEF Names
      <3> QED  BY <3>1, <3>2
    <2>10. ASSUME NEW e \in Writable
           PROVE  <<props[e.key], ZVAL_DEREF(e.val)>> \in Rendered
      <3>1. PICK i \in 1 .. Len(v.items) :
              /\ v.items[i].key = e.key
              /\ <<v.items[i].val, ZVAL_DEREF(e.val)>> \in captured
        BY <2>2, <2>7
      <3>2. <<props[e.key], v.items[i].val>> \in delivered
        BY <3>1, <2>6, <2>7 DEF PropsMade
      <3>3. PICK a, b : /\ a = <<props[e.key], v.items[i].val>>
                        /\ b = <<v.items[i].val, ZVAL_DEREF(e.val)>>
        OBVIOUS
      <3>4. <<a[1], b[2]>> \in Rendered
        BY <3>1, <3>2, <3>3, RenderedPair
      <3> QED  BY <3>3, <3>4
    <2>11. /\ DOMAIN props = Written \cup DOMAIN Defaults(class)
           /\ \A key \in DOMAIN Defaults(class) \ Written :
                props[key] = Defaults(class)[key]
      BY <2>2, <2>6, <2>9 DEF PropsMade
    <2>12. out.tag = "instance" /\ out.class = class /\ out.props = props
      BY <2>6 DEF Instance
    <2>13. RendersObject(out, h)
      BY <2>1, <2>4, <2>5, <2>7, <2>8, <2>10, <2>11, <2>12 DEF RendersObject
    <2> QED  BY <2>1, <2>13, <1>1, <1>5 DEF Renders
  <1>6. CASE zv.tag \notin {"array", "object"}
    <2>1. zv.tag \in Scalar /\ v = zv
      BY <1>2, <1>6 DEF Mirrors
    <2> QED  BY <2>1, <1>1, <1>3, <1>6 DEF Renders, Scalar
  <1> QED  BY <1>4, <1>5, <1>6

\* Whatever was accepted, and whatever classes the other side finds: it receives
\* an array with the same elements in the same order, an instance of the class
\* of that name, or of stdClass, with the same properties and its defaults for
\* the others, and so on down to the leaves; EG(exception) is set if and only if
\* a name that cannot be written is among it; and only an object of an enum the
\* other side finds, of which nothing is received, makes the conversion crash
\* (bridge.c:284-358).
THEOREM DeliveryMirrorsItsValue ==
  Conversion => []DeliveryIsExact
  <1>1. IInv /\ DInv => DeliveryIsExact
    <2> SUFFICES ASSUME IInv, DInv PROVE DeliveryIsExact
      OBVIOUS
    <2>1. ASSUME NEW r \in Rendered PROVE Renders(r[1], r[2])
      <3>1. PICK p \in delivered, c \in captured :
              p[2] = c[1] /\ r = <<p[1], c[2]>>
        BY OfRendered
      <3>2. loaded \in Known
        BY <3>1 DEF DInv, Turns
      <3> QED  BY <3>1, <3>2, PartRenders
    <2>2. ASSUME turn.step = "crashed"
          PROVE  \E c \in captured : Unmakable(c[2])
      <3>1. /\ turn # Idle /\ making # <<>> /\ Inner.v.tag = "obj"
            /\ Uncreatable(ClassFor(Inner.v)) /\ loaded \in Known
        BY <2>2 DEF DInv, Turns, Idle
      <3>2. Inner.v \in Made
        BY <3>1, InnerBasics
      <3>3. PICK c \in captured : c[1] = Inner.v
        BY <3>2 DEF Made
      <3>4. c[2] \in Zvals /\ Mirrors(c[1], c[2])
        BY DEF IInv, Exact
      <3>5. c[2].tag = "object"
        BY <3>1, <3>3, <3>4 DEF Mirrors, MirrorsArray, Scalar
      <3> QED  BY <3>1, <3>3, <3>4, <3>5, LookupUnmakable
    <2>3. ASSUME Received
          PROVE  /\ <<turn.zv, root>> \in Rendered
                 /\ raised <=> \E r \in Rendered : Unwritable(r[2])
      <3>1. /\ turn.step = "out" /\ making = <<>> /\ turn # Idle
            /\ stack = <<>> /\ now.step = "value" /\ loaded \in Known
            /\ <<turn.zv, now.v>> \in delivered
        BY <2>3 DEF Received, Idle, DInv, Turns, Wanted
      <3>2. <<now.v, root>> \in captured
        BY <3>1 DEF IInv, Answers, Asked
      <3>3. <<turn.zv, root>> \in Rendered
        <4>1. PICK a, b : a = <<turn.zv, now.v>> /\ b = <<now.v, root>>
          OBVIOUS
        <4>2. <<a[1], b[2]>> \in Rendered
          BY <4>1, <3>1, <3>2, RenderedPair
        <4> QED  BY <4>1, <4>2
      <3>4. ASSUME NEW p \in delivered, NEW c \in captured, p[2] = c[1]
            PROVE  RaisesAll(p[2]) <=> Unwritable(c[2])
        <4>1. c[2] \in Zvals /\ Mirrors(c[1], c[2])
          BY DEF IInv, Exact
        <4>2. ~Unmakable(c[2])
          BY <3>1, <3>4, DeliveredMakable
        <4> QED  BY <3>1, <3>4, <4>1, <4>2, RaisesUnwritable
      <3>5. ASSUME NEW r \in Rendered, Unwritable(r[2]) PROVE raised
        <4>1. PICK p \in delivered, c \in captured : p[2] = c[1] /\ r = <<p[1], c[2]>>
          BY OfRendered
        <4>2. RaisesAll(p[2])
          BY <3>4, <3>5, <4>1
        <4> QED  BY <4>2 DEF RaisesAll, Raises, DInv, Complete
      <3>6. ASSUME raised PROVE \E r \in Rendered : Unwritable(r[2])
        <4>1. PICK p \in delivered : RaisesAll(p[2])
          <5>1. Len(making) = 0
            BY <3>1
          <5> QED  BY <5>1, <3>6 DEF DInv, Accounted
        <4>2. PICK c \in captured : p[2] = c[1]
          BY DEF DInv, Complete, Made
        <4>3. Unwritable(c[2])
          BY <3>4, <4>1, <4>2
        <4>4. PICK r : r = <<p[1], c[2]>>
          OBVIOUS
        <4>5. r \in Rendered /\ r[2] = c[2]
          BY <4>2, <4>4, RenderedPair
        <4> QED  BY <4>3, <4>5
      <3> QED  BY <3>3, <3>5, <3>6
    <2> QED  BY <2>1, <2>2, <2>3 DEF DeliveryIsExact
  <1> QED  BY <1>1, ConversionInductive, PTL
=============================================================================
