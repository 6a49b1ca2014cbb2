------------------------------- MODULE Values -------------------------------
(***************************************************************************)
(* value.h: the snapshot trees that cross a thread boundary, as seen by the *)
(* code that builds and reads them.                                         *)
(* Strings are sequences of bytes; in a C string a zero byte ends it.       *)
(***************************************************************************)
EXTENDS Integers, Sequences, SequencesExt

Nil == [tag |-> "NULL"]          \* the NULL pointer
NoString == <<-1>>               \* a NULL char pointer of a VAL_ERR

value_null == [tag |-> "null"]
value_bool(b) == [tag |-> "bool", b |-> b]
value_long(i) == [tag |-> "long", i |-> i]
value_double(d) == [tag |-> "double", d |-> d]
value_str(p) == [tag |-> "str", p |-> p]
value_arr == [tag |-> "arr", items |-> <<>>]
value_obj(cls) == [tag |-> "obj", cls |-> cls, items |-> <<>>]

\* A C string stops at its terminator, whatever buffer it lies in.
strlen(s) == IF \E i \in 1 .. Len(s) : s[i] = 0
             THEN SelectInSeq(s, LAMBDA c : c = 0) - 1 ELSE Len(s)

dup_cstr(s) == SubSeq(s, 1, strlen(s))

value_err(cls, msg, code, trace) ==
  [tag |-> "err", cls |-> dup_cstr(cls), msg |-> dup_cstr(msg),
   code |-> code, trace |-> dup_cstr(trace)]

\* Keys of array elements and properties; the setters append, whatever keys
\* are already there.
IntKey(i) == [ikey |-> i]
StrKey(s) == [skey |-> s]
IsIntKey(k) == "ikey" \in DOMAIN k

value_set(parent, key, child) ==
  [parent EXCEPT !.items = Append(@, [key |-> key, val |-> child])]
=============================================================================
