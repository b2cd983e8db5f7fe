----------------------------- MODULE CanonJson -----------------------------
(***************************************************************************)
(* The canonical JSON encoding, over which the content hash of an event is *)
(* computed.                                                               *)
(*                                                                         *)
(* A text is the sequence of its lexemes: white space, commas and colons   *)
(* are left out, as the decoder leaves them out of its tokens.  A string   *)
(* may be spelled in several ways (a as itself or by its code point); the  *)
(* text of a number is its value.                                          *)
(*                                                                         *)
(* The parser is recursive, so this module holds no theorem and none that  *)
(* does extends it.                                                        *)
(***************************************************************************)
EXTENDS Integers, Sequences, SequencesExt

CONSTANTS
    Names,    \* the strings that occur, in byte order
    Numbers   \* the spellings of numbers that occur

Delim(d) == [lex |-> "delim", is |-> d, spelled |-> "plain"]
Number(n) == [lex |-> "number", is |-> n, spelled |-> "plain"]
Str(s, spelling) == [lex |-> "string", is |-> s, spelled |-> spelling]

Spellings == {"plain", "escaped"}
Strings == {Str(s, spelling) : s \in ToSet(Names), spelling \in Spellings}
Scalars == {Number(n) : n \in Numbers} \cup Strings

----------------------------------------------------------------------------
(* Parsing.                                                                *)

\* Mutant: strings are kept as they are spelled.
TokenAsSpelled(lexeme) == lexeme

(* dec.Token with UseNumber: strings are unescaped, numbers left alone.    *)
Token(lexeme) == [lexeme EXCEPT !.spelled = "plain"]

Rejected == [ok |-> FALSE]
Parsed(value, rest) == [ok |-> TRUE, value |-> value, rest |-> rest]

NoMembers == [keys |-> <<>>, values |-> <<>>]

\* Mutant: the last of two members with one key wins.
NeverDuplicate(obj, key) == FALSE

Duplicate(obj, key) == key \in DOMAIN obj.values

\* Mutant: the members stay in the order they were sent in.
AsSent(keys) == keys

(* sort.Strings                                                            *)
InByteOrder(keys) == SelectSeq(Names, LAMBDA n : n \in ToSet(keys))

With(obj, key, value) ==
    [keys |-> Append(obj.keys, key),
     values |-> [k \in DOMAIN obj.values \cup {key} |->
                   IF k = key THEN value ELSE obj.values[k]]]

RECURSIVE ParseValue(_), ParseObject(_, _), ParseArray(_, _)

ParseValue(text) ==
    IF text = <<>> THEN Rejected
    ELSE LET tok == Token(Head(text)) IN
         CASE tok = Delim("{") -> ParseObject(Tail(text), NoMembers)
           [] tok = Delim("[") -> ParseArray(Tail(text), <<>>)
           [] tok.lex # "delim" -> Parsed([scalar |-> tok], Tail(text))
           [] OTHER -> Rejected

ParseObject(text, obj) ==
    IF text = <<>> THEN Rejected
    ELSE LET tok == Token(Head(text)) IN
         CASE tok = Delim("}") ->
                Parsed([object |-> [obj EXCEPT !.keys = InByteOrder(@)]], Tail(text))
           [] tok.lex = "string" /\ ~Duplicate(obj, tok.is) ->
                LET member == ParseValue(Tail(text)) IN
                IF member.ok THEN ParseObject(member.rest, With(obj, tok.is, member.value))
                ELSE Rejected
           [] OTHER -> Rejected

ParseArray(text, items) ==
    IF text = <<>> THEN Rejected
    ELSE IF Token(Head(text)) = Delim("]") THEN Parsed([array |-> items], Tail(text))
    ELSE LET item == ParseValue(text) IN
         IF item.ok THEN ParseArray(item.rest, Append(items, item.value)) ELSE Rejected

----------------------------------------------------------------------------
(* Writing.                                                                *)

RECURSIVE Write(_)

Write(v) ==
    CASE "scalar" \in DOMAIN v -> <<v.scalar>>
      [] "array" \in DOMAIN v ->
           <<Delim("[")>> \o FlattenSeq([k \in DOMAIN v.array |-> Write(v.array[k])])
             \o <<Delim("]")>>
      [] "object" \in DOMAIN v ->
           <<Delim("{")>>
             \o FlattenSeq([k \in DOMAIN v.object.keys |->
                  LET key == v.object.keys[k] IN
                  <<Str(key, "plain")>> \o Write(v.object.values[key])])
             \o <<Delim("}")>>

NotAccepted == <<>>

(* Exactly one value, and nothing after it.                                *)
Marshal(raw) ==
    LET v == ParseValue(raw) IN
    IF v.ok /\ v.rest = <<>> THEN Write(v.value) ELSE NotAccepted

----------------------------------------------------------------------------
(* The reference.  A document is given as a tree; the text of a tree is    *)
(* what it is written as; its facts are what it says, whatever the order   *)
(* and the spelling: at which path there is what.                          *)

RECURSIVE TextOf(_), FactsOf(_, _), OneValuePerKey(_)

TextOf(tree) ==
    CASE "leaf" \in DOMAIN tree -> <<tree.leaf>>
      [] "items" \in DOMAIN tree ->
           <<Delim("[")>> \o FlattenSeq([k \in DOMAIN tree.items |-> TextOf(tree.items[k])])
             \o <<Delim("]")>>
      [] "members" \in DOMAIN tree ->
           <<Delim("{")>>
             \o FlattenSeq([k \in DOMAIN tree.members |->
                  <<tree.members[k][1]>> \o TextOf(tree.members[k][2])])
             \o <<Delim("}")>>

FactsOf(tree, path) ==
    CASE "leaf" \in DOMAIN tree -> {<<path, tree.leaf.lex, tree.leaf.is>>}
      [] "items" \in DOMAIN tree ->
           {<<path, "array", "">>}
             \cup UNION {FactsOf(tree.items[k], Append(path, <<"item", k>>)) :
                           k \in DOMAIN tree.items}
      [] "members" \in DOMAIN tree ->
           {<<path, "object", "">>}
             \cup UNION {FactsOf(tree.members[k][2], Append(path, <<"key", tree.members[k][1].is>>)) :
                           k \in DOMAIN tree.members}

OneValuePerKey(tree) ==
    CASE "leaf" \in DOMAIN tree -> TRUE
      [] "items" \in DOMAIN tree -> \A k \in DOMAIN tree.items : OneValuePerKey(tree.items[k])
      [] "members" \in DOMAIN tree ->
           /\ \A k \in DOMAIN tree.members : OneValuePerKey(tree.members[k][2])
           /\ \A j, k \in DOMAIN tree.members :
                tree.members[j][1].is = tree.members[k][1].is => j = k
============================================================================
