----------------------------- MODULE MCCapture -----------------------------
(***************************************************************************)
(* PHP values for Capture: a DTO with one public property, a stdClass with  *)
(* an added one, and one object of each other kind, which may hold each     *)
(* other, directly, in arrays or through a PHP reference.  With MaxDepth 2   *)
(* there are values that end before the limit, at it, beyond it, and never. *)
(***************************************************************************)
EXTENDS CaptureImage

x == StrKey(<<1>>)
MCClasses ==
  [Std |-> [name |-> <<1>>, kind |-> "plain", props |-> <<>>, init |-> <<>>],
   Dto |-> [name |-> <<2>>, kind |-> "plain", props |-> <<x>>,
            init |-> <<value_long(7)>>],
   Guarded |-> [name |-> <<3>>, kind |-> "plain",
                props |-> <<StrKey(<<0, 3, 0, 1>>)>>, init |-> <<Undef>>],
   Suit |-> [name |-> <<4>>, kind |-> "enum", props |-> <<x>>,
             init |-> <<Undef>>],
   Closure |-> [name |-> <<5>>, kind |-> "closure", props |-> <<>>,
                init |-> <<>>],
   Native |-> [name |-> <<6>>, kind |-> "native", props |-> <<>>,
               init |-> <<>>]]
MCClassOf == [d |-> "Dto", s |-> "Std", g |-> "Guarded", e |-> "Suit",
              c |-> "Closure", n |-> "Native"]
MCStdClass == "Std"

ObjectStates(slots, added, table) ==
  [slots |-> slots, added |-> added, table |-> table]
Bare == ObjectStates(<<>>, <<>>, FALSE)
One == ObjectStates(<<value_long(1)>>, <<>>, FALSE)

Held == {value_long(5), value_str(<<>>), Resource} \cup
        {Object(h) : h \in DOMAIN MCClassOf} \cup
        {Array(<<Item(IntKey(0), Object("s")), Item(x, value_null)>>),
         Array(<<>>)}
Slots == Held \cup
         {Reference("r"), Array(<<Item(x, Reference("r"))>>)}

\* An object with an added property has a table.
MCObjects ==
  {[d |-> ObjectStates(<<v>>, <<>>, table),
    s |-> ObjectStates(<<>>, added, added # <<>>),
    g |-> One, e |-> One, c |-> Bare, n |-> Bare] :
     v \in Slots \cup {Undef}, table \in BOOLEAN,
     added \in {<<>>} \cup {<<Item(x, w)>> : w \in Slots}}
MCReferences == {"r"}
MCCells == [MCReferences -> Held]
MCRoots == {Object("d"), Array(<<Item(IntKey(3), Object("d")),
                                 Item(x, Object("s"))>>)}
MCZvals == Slots \cup MCRoots \cup {value_null, value_long(1)}
MCKeys == {IntKey(0), IntKey(3), x, StrKey(<<0, 3, 0, 1>>)}
MCKnown == {{"Std"}, DOMAIN MCClasses}
=============================================================================
