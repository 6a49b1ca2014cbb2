------------------------------- MODULE MCPack -------------------------------
(***************************************************************************)
(* Values for Pack: with G = 3 a byte is 0..15, so a length of 8 and most   *)
(* integers take two bytes and half of the bytes are no tag; with W = 7 the *)
(* third group of a word has one bit, as the tenth of uint64_t has.         *)
(***************************************************************************)
EXTENDS Pack

Ints == -64 .. 63
Strings == {<<>>, <<3>>, <<1, 2, 9, 15, 1, 2, 3, 0>>}

Leaves == {value_null, value_bool(TRUE), value_bool(FALSE), Nil}
            \cup {value_long(i) : i \in {-64, -1, 0, 7, 8, 63}}
            \cup {value_str(s) : s \in Strings} \cup {value_double(137)}
            \cup {value_err(<<1, 5>>, NoString, -2, <<>>)}

Keys == {IntKey(-1), IntKey(0), StrKey(<<>>), StrKey(<<2>>)}
ObjKeys == {StrKey(<<>>), StrKey(<<2>>)}

Arrays == {value_arr}
            \cup {value_set(value_arr, k, v) : k \in Keys, v \in Leaves}
Objects == {value_set(value_obj(c), k, v) :
              c \in {<<>>, <<6>>}, k \in ObjKeys, v \in Leaves}
Pairs == {value_set(value_set(value_arr, IntKey(0), v), StrKey(<<2>>), w) :
            v \in Arrays, w \in {value_str(<<3>>), value_arr}}
Errors == {value_err(c, m, i, t) :
             c \in {NoString, <<1>>}, m \in {<<>>, <<2, 3, 1, 1, 2, 2, 2, 2>>},
             i \in {-1, 9}, t \in {NoString, <<4>>}}

PackInputs == Leaves \cup {value_long(i) : i \in Ints}
                \cup {value_double(d) : d \in {0, 16, 255}}
                \cup Arrays \cup Objects \cup Pairs \cup Errors
=============================================================================
