-------------------------------- MODULE Pack --------------------------------
(***************************************************************************)
(* value/pack.c: the wire format of a value, its writer and its reader.     *)
(* Widths are parameters: a byte of the format has G data bits and one      *)
(* continuation bit (7 and 1 in the code), a word W bits (64); W is not a   *)
(* multiple of G, so that the last group of a word is short as in the code. *)
(* The reader's result carries the heap blocks it still holds, so that a    *)
(* block lost on an error path shows.                                       *)
(***************************************************************************)
EXTENDS Values

CONSTANTS G,       \* data bits of a varint byte
          W,       \* bits of uint64_t
          Inputs   \* the values packed

ASSUME WidthAssumption == G \in Nat \ {0} /\ W \in Nat /\ W > G

Byte == 0 .. 2^(G + 1) - 1
Base == 2^G
Word == 2^W

\* Mutant: a negative number is written as it is.
ToU_signed(i) == i

\* int64_t and its bits as uint64_t.
ToU(i) == i % Word
ToS(u) == IF u >= Word \div 2 THEN u - Word ELSE u

\* The malloc'd blocks a value owns, and value_free returns: the node, its
\* non-empty strings, the array of its elements, and what those own.
StrBlocks(s) == IF s = <<>> THEN 0 ELSE 1
CStrBlocks(s) == IF s = NoString THEN 0 ELSE 1

RECURSIVE Blocks(_)
Blocks(v) ==
  LET ElementBlocks(n, kv) ==
        n + Blocks(kv.val) + (IF IsIntKey(kv.key) THEN 0
                              ELSE StrBlocks(kv.key.skey))
      KvBlocks == IF v.items = <<>> THEN 0
                  ELSE FoldLeft(ElementBlocks, 1, v.items)
  IN CASE v.tag = "NULL" -> 0
       [] v.tag \in {"null", "bool", "long", "double"} -> 1
       [] v.tag = "str" -> 1 + StrBlocks(v.p)
       [] v.tag = "arr" -> 1 + KvBlocks
       [] v.tag = "obj" -> 1 + StrBlocks(v.cls) + KvBlocks
       [] v.tag = "err" -> 1 + CStrBlocks(v.cls) + CStrBlocks(v.msg)
                             + CStrBlocks(v.trace)

-----------------------------------------------------------------------------
\* The writer.

RECURSIVE varint_write(_)
varint_write(v) == IF v < Base THEN <<v>>
                   ELSE <<(v % Base) + Base>> \o varint_write(v \div Base)

\* A length-prefixed string, and a C string: a NULL one is written as empty.
pack_str(s) == varint_write(Len(s)) \o s
pack_cstr(s) == IF s = NoString THEN varint_write(0)
                ELSE pack_str(SubSeq(s, 1, strlen(s)))

\* The bits of a double, least significant byte first (two bytes stand for
\* the eight of IEEE 754).
wbuf_double(d) == <<d % 2^(G + 1), d \div 2^(G + 1)>>

Tag(v) == CASE v.tag \in {"NULL", "null"} -> 0 [] v.tag = "bool" -> 1
            [] v.tag = "long" -> 2 [] v.tag = "double" -> 3
            [] v.tag = "str" -> 4 [] v.tag = "arr" -> 5
            [] v.tag = "obj" -> 6 [] v.tag = "err" -> 7

pack_key(k) == IF IsIntKey(k) THEN <<1>> \o varint_write(ToU(k.ikey))
               ELSE <<0>> \o pack_str(k.skey)

RECURSIVE value_pack(_)
value_pack(v) ==
  LET pack_kv_block ==
        varint_write(Len(v.items)) \o
        FlattenSeq([i \in DOMAIN v.items |->
          pack_key(v.items[i].key) \o value_pack(v.items[i].val)])
  IN <<Tag(v)>> \o
     CASE v.tag \in {"NULL", "null"} -> <<>>
       [] v.tag = "bool" -> <<IF v.b THEN 1 ELSE 0>>
       [] v.tag = "long" -> varint_write(ToU(v.i))
       [] v.tag = "double" -> wbuf_double(v.d)
       [] v.tag = "str" -> pack_str(v.p)
       [] v.tag = "arr" -> pack_kv_block
       [] v.tag = "obj" -> pack_str(v.cls) \o pack_kv_block
       [] v.tag = "err" -> pack_cstr(v.cls) \o pack_cstr(v.msg)
                             \o varint_write(ToU(v.code)) \o pack_cstr(v.trace)

-----------------------------------------------------------------------------
\* The reader.  A reading is what a function of the parser returns: whether it
\* succeeded, what it read, the next position, and the heap blocks allocated
\* and not freed.

Read(x, at, heap) == [ok |-> TRUE, x |-> x, at |-> at, heap |-> heap]
Fails(at, heap) == [ok |-> FALSE, x |-> Nil, at |-> at, heap |-> heap]

\* Mutant: the last, short group is refused.
Overlong_early(shift) == shift + G > W

\* shift >= 64
Overlong(shift) == shift >= W

RECURSIVE varint_groups(_, _, _, _)
varint_groups(b, at, shift, v) ==
  IF at > Len(b) THEN Fails(at, 0)
  ELSE LET w == (v + (b[at] % Base) * 2^shift) % Word
       IN IF b[at] < Base THEN Read(w, at + 1, 0)
          ELSE IF Overlong(shift + G) THEN Fails(at + 1, 0)
          ELSE varint_groups(b, at + 1, shift + G, w)

varint_read(b, at) == varint_groups(b, at, 0, 0)

\* Reading on after a reading that holds no block, with what it read and
\* where it stopped; and a reading that became a node, which owns its blocks.
Then(r, Continue(_, _)) == IF r.ok THEN Continue(r.x, r.at) ELSE r
Node(v, at) == Read(v, at, Blocks(v))

\* Mutant: the temporaries of a failed read are forgotten.
Freed_none(n) == 0

\* free() of n temporary blocks; and value_free of the value a reader that
\* failed had begun.
Freed(n) == n
FreeUnlessOk(r) == IF r.ok THEN r ELSE Fails(r.at, r.heap - Blocks(r.x))

\* A length and that many bytes, if the buffer still has them.
Fits(b, at, n) == Len(b) - at + 1 >= n
read_str(b, at) == Then(varint_read(b, at), LAMBDA n, p :
  IF Fits(b, p, n) THEN Read(SubSeq(b, p, p + n - 1), p + n, 0)
  ELSE Fails(p, 0))

read_double(b, at) ==
  IF Fits(b, at, 2) THEN Read(b[at] + b[at + 1] * 2^(G + 1), at + 2, 0)
  ELSE Fails(at, 0)

\* The key of an element: the flag, then an integer, or a string that is
\* copied to a block of its own even when it is empty.
read_key(b, at) ==
  IF at > Len(b) THEN Fails(at, 0)
  ELSE IF b[at] # 0
  THEN Then(varint_read(b, at + 1), LAMBDA k, p : Read(IntKey(ToS(k)), p, 0))
  ELSE Then(read_str(b, at + 1), LAMBDA k, p : Read(StrKey(k), p, 1))

\* value_arr_set_int, value_arr_set_str or value_obj_set, which copies the
\* key; an object's integer key has left skey NULL and klen 0.
ParentKey(parent, k) ==
  IF parent.tag = "obj" /\ IsIntKey(k) THEN StrKey(<<>>) ELSE k

\* r with the element of key k and value c; the temporary key is freed,
\* whether there is a value or not.
Attach(r, k, c) ==
  LET heap == r.heap + c.heap + k.heap - Freed(k.heap)
      Grown(p) == Read(p, c.at, heap + Blocks(p) - Blocks(r.x) - Blocks(c.x))
  IN IF c.ok THEN Grown(value_set(r.x, ParentKey(r.x, k.x), c.x))
     ELSE [r EXCEPT !.ok = FALSE, !.at = c.at, !.heap = heap]

\* n elements, appended to the value of r one by one.  If one fails, the
\* value is left as far as it got, for the caller to free.
RECURSIVE unpack_elements(_, _, _), unpack_element(_, _, _), unpack_one(_, _)
unpack_elements(b, n, r) ==
  IF n = 0 \/ ~r.ok THEN r
  ELSE unpack_elements(b, n - 1, unpack_element(b, r, read_key(b, r.at)))

unpack_element(b, r, k) ==
  IF k.ok THEN Attach(r, k, unpack_one(b, k.at))
  ELSE [r EXCEPT !.ok = FALSE, !.at = k.at]

unpack_kv_block(b, at, parent) == Then(varint_read(b, at), LAMBDA n, p :
  FreeUnlessOk(unpack_elements(b, n, Node(parent, p))))

\* VAL_ERR: three strings and a code; each string read so far is a block of
\* its own until value_err has copied it or a later read fails.
read_field(b, r, field) ==
  LET Next(f, blocks) ==
        IF f.ok THEN Read(Append(r.x, f.x), f.at, r.heap + blocks)
        ELSE Fails(f.at, r.heap - Freed(r.heap))
  IN IF ~r.ok THEN r
     ELSE IF field = "code" THEN Next(varint_read(b, r.at), 0)
     ELSE Next(read_str(b, r.at), 1)

read_err(b, at) ==
  LET Made(r, v) == Read(v, r.at, Blocks(v) + r.heap - Freed(r.heap))
      Finish(r) == IF r.ok THEN Made(r, value_err(r.x[1], r.x[2],
                                                  ToS(r.x[3]), r.x[4])) ELSE r
  IN Finish(FoldLeft(LAMBDA r, field : read_field(b, r, field),
                     Read(<<>>, at, 0), <<"cls", "msg", "code", "trace">>))

unpack_one(b, at) ==
  IF at > Len(b) THEN Fails(at, 0)
  ELSE LET p == at + 1
       IN CASE b[at] = 0 -> Node(value_null, p)
            [] b[at] = 1 -> IF p > Len(b) THEN Fails(p, 0)
                            ELSE Node(value_bool(b[p] # 0), p + 1)
            [] b[at] = 2 -> Then(varint_read(b, p), LAMBDA i, q :
                                 Node(value_long(ToS(i)), q))
            [] b[at] = 3 -> Then(read_double(b, p), LAMBDA d, q :
                                 Node(value_double(d), q))
            [] b[at] = 4 -> Then(read_str(b, p), LAMBDA s, q :
                                 Node(value_str(s), q))
            [] b[at] = 5 -> unpack_kv_block(b, p, value_arr)
            [] b[at] = 6 -> Then(read_str(b, p), LAMBDA cls, q :
                                 unpack_kv_block(b, q, value_obj(cls)))
            [] b[at] = 7 -> read_err(b, p)
            [] OTHER -> Fails(p, 0)

\* Bytes left over are an error too, and the value read is freed.
\* Mutant: they are ignored.
AllConsumed_ignored(r, b) == TRUE
AllConsumed(r, b) == r.at = Len(b) + 1

value_unpack(b) ==
  LET Checked(r) == IF r.ok
                    THEN FreeUnlessOk([r EXCEPT !.ok = AllConsumed(r, b)])
                    ELSE r
  IN Checked(unpack_one(b, 1))

-----------------------------------------------------------------------------
\* A value is packed; its buffer may be cut short, run into what follows it, or
\* have one byte changed; it is unpacked; and what came out is packed and
\* unpacked once more.

VARIABLES value,     \* the value packed
          buf,       \* the bytes on their way
          way,       \* what happened to them
          reading    \* what value_unpack returned, or Unread

Unread == [ok |-> FALSE, x |-> Nil, at |-> 0, heap |-> 0]

Init == /\ value \in Inputs /\ buf = value_pack(value)
        /\ way = "whole" /\ reading = Unread

Fresh == way = "whole" /\ reading = Unread

Cut == /\ Fresh /\ way' = "cut"
       /\ \E n \in 0 .. Len(buf) - 1 : buf' = SubSeq(buf, 1, n)
       /\ UNCHANGED <<value, reading>>

Extend == /\ Fresh /\ way' = "extended"
          /\ \E c \in Byte : buf' = Append(buf, c)
          /\ UNCHANGED <<value, reading>>

Damage == /\ Fresh /\ way' = "damaged"
          /\ \E i \in DOMAIN buf, c \in Byte :
               c # buf[i] /\ buf' = [buf EXCEPT ![i] = c]
          /\ UNCHANGED <<value, reading>>

Unpack == /\ reading = Unread /\ reading' = value_unpack(buf)
          /\ UNCHANGED <<value, buf, way>>

Repack == /\ reading.ok /\ way \in {"whole", "damaged"}
          /\ value' = reading.x /\ buf' = value_pack(reading.x)
          /\ way' = "again" /\ reading' = Unread

Next == Cut \/ Extend \/ Damage \/ Unpack \/ Repack
Spec == Init /\ [][Next]_<<value, buf, way, reading>>

Delivered == reading # Unread

\* The types: what is written is bytes.
TypeOK == /\ way \in {"whole", "cut", "extended", "damaged", "again"}
          /\ buf \in Seq(Byte)
          /\ way # "again" => value \in Inputs
          /\ DOMAIN reading = {"ok", "x", "at", "heap"}
          /\ reading.at \in 0 .. Len(buf) + 1

\* What a value looks like on the other side: a NULL child is a null, a NULL
\* string of an error is empty.
RECURSIVE Received(_)
Received(v) ==
  LET Str(s) == IF s = NoString THEN <<>> ELSE s
  IN CASE v.tag = "NULL" -> value_null
       [] v.tag = "err" -> value_err(Str(v.cls), Str(v.msg), v.code, Str(v.trace))
       [] v.tag \in {"arr", "obj"} ->
            [v EXCEPT !.items = [i \in DOMAIN v.items |->
               [v.items[i] EXCEPT !.val = Received(v.items[i].val)]]]
       [] OTHER -> v

\* pack.h: unpack gives back the value pack was given, for every tag, every
\* integer of the word and lengths on both sides of a varint boundary; and a value
\* that came out of any accepted buffer, even a damaged one that holds a longer
\* form of a number than the writer makes, survives being sent on unchanged.
RoundTrip ==
  /\ Delivered /\ way = "whole" => reading.ok /\ reading.x = Received(value)
  /\ Delivered /\ way = "again" => reading.ok /\ reading.x = value

\* No buffer that stops early or goes on is mistaken for a value: the format
\* is prefix-free, and every read checks the end before it uses a byte.
WrongLengthRejected == Delivered /\ way \in {"cut", "extended"} => ~reading.ok

\* Whatever the bytes, the reader frees all it allocated when it rejects them
\* and hands over exactly the blocks of its value when it accepts them.
NothingLeaks == reading.heap = IF reading.ok THEN Blocks(reading.x) ELSE 0
=============================================================================
