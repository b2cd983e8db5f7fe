--------------------------- MODULE MCEventReplay ---------------------------
(***************************************************************************)
(* Objects of up to two members with two names, each spelled in two ways,  *)
(* and scalars, arrays or objects in them.                                 *)
(***************************************************************************)
EXTENDS EventReplay

MCNames == <<"a", "b">>
MCNumbers == {"1", "1.0"}
MCSenders == {"sol on c3", "sol on c4"}

Leaf(lexeme) == [leaf |-> lexeme]
Object(members) == [members |-> members]
Array(items) == [items |-> items]
Keys == {Str("a", "plain"), Str("a", "escaped"), Str("b", "plain")}
Leaves == {Leaf(Number("1")), Leaf(Number("1.0"))} \cup {Leaf(Str("b", s)) : s \in Spellings}
One == Leaf(Number("1"))

AtMostTwo(S) == {<<>>} \cup {<<x>> : x \in S} \cup {<<x, y>> : x \in S, y \in S}

Flat == {Object(m) : m \in AtMostTwo(Keys \X Leaves)}

(* Values that differ in shape, in order of members, in a repeated name.   *)
Inner ==
    {Object(m) : m \in AtMostTwo(Keys \X {One})}
    \cup {Array(s) : s \in AtMostTwo({One, Leaf(Str("b", "escaped")), Object(<<>>)})}
Nested ==
    {Object(<<<<Str("a", "plain"), v>>>>) : v \in Inner}
    \cup {Object(<<<<Str("b", "plain"), v>>, <<Str("a", "plain"), One>>>>) : v \in Inner}

MCTrees == Flat \cup Nested
MCForeign ==
    {Object(m) : m \in AtMostTwo(Keys \X {One})}
    \cup {Object(<<<<Str("a", "plain"), Leaf(Str("b", s))>>>>) : s \in Spellings}
============================================================================
