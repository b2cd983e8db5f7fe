---------------------------- MODULE EventReplay ----------------------------
(***************************************************************************)
(* One event key in the life of a service: the event is posted, posted     *)
(* again by clients that order and spell the same content differently, or  *)
(* say something else; the database is exported and the stream restored    *)
(* into an empty one, and the posts go on.  Whether a post is a replay or  *)
(* a mismatch hangs on the content hash alone, which is computed when the  *)
(* event is stored and again when it is imported.                          *)
(*                                                                         *)
(* A hash is the text it digests.  How requests for one key exclude each   *)
(* other is WritePath's matter; how streams are cut or damaged, and what   *)
(* is posted while they are on their way, is ExportImport's.               *)
(***************************************************************************)
EXTENDS CanonJson

CONSTANTS
    Trees,     \* documents that clients send, as trees
    Senders,   \* what machine_name and coordinator_model say
    Foreign,   \* trees of records in streams another program made
    NoEvent, NoHash, NoAnswer

VARIABLES
    stored,  \* the event under the key
    line,    \* its record in the last export, or a record from elsewhere
    answer   \* what the last post was told, and what it and the row said

vars == <<stored, line, answer>>

Nothing == {}  \* what a text says that is no document, or an ambiguous one
Says(tree) == IF OneValuePerKey(tree) THEN FactsOf(tree, <<>>) ELSE Nothing

Init ==
    /\ stored = NoEvent
    /\ line = NoEvent
    /\ answer = NoAnswer

----------------------------------------------------------------------------
(* compactObject: an object canonjson accepts; its text stays as it was.   *)
CompactObject(raw) ==
    IF raw # <<>> /\ Head(raw) = Delim("{") /\ Marshal(raw) # NotAccepted
    THEN raw ELSE NotAccepted

\* Mutant: the digest is over the text as it came.
HashOfText(sender, payload) == <<sender, payload>>

EventHash(sender, payload) == <<sender, Marshal(payload)>>

(* CreateEvent and createKeyed under one key.                              *)
Verdict(payload, hash) ==
    CASE payload = NotAccepted -> "rejected"
      [] stored = NoEvent -> "created"
      [] stored.hash = hash -> "replayed"
      [] OTHER -> "mismatch"

Post(sender, raw, says) ==
    /\ answer = NoAnswer /\ line = NoEvent
    /\ LET payload == CompactObject(raw)
           hash == EventHash(sender, payload)
           status == Verdict(payload, hash)
           posted == [sender |-> sender, says |-> says] IN
         /\ stored' = IF status = "created"
                        THEN [sender |-> sender, payload |-> payload, hash |-> hash, says |-> says]
                        ELSE stored
         /\ answer' = [status |-> status, legible |-> says # Nothing,
                       same |-> stored # NoEvent
                                  => posted = [sender |-> stored.sender, says |-> stored.says]]
    /\ UNCHANGED line

(* A text that ends early, or goes on after its value.                     *)
Broken(text) == {SubSeq(text, 1, Len(text) - 1), text \o text}

PostDocument ==
    \E sender \in Senders, tree \in Trees : Post(sender, TextOf(tree), Says(tree))

PostBroken ==
    \E sender \in Senders, tree \in Foreign :
      \E raw \in Broken(TextOf(tree)) : Post(sender, raw, Nothing)

ReadAnswer ==
    /\ answer # NoAnswer
    /\ answer' = NoAnswer
    /\ UNCHANGED <<stored, line>>

----------------------------------------------------------------------------
(* json.Marshal of an export line respells the strings of the payload.     *)
Respelled(payload) == [k \in DOMAIN payload |-> [payload[k] EXCEPT !.spelled = "escaped"]]

Export ==
    /\ stored # NoEvent /\ line = NoEvent /\ answer = NoAnswer
    /\ line' = [sender |-> stored.sender, payload |-> Respelled(stored.payload),
                says |-> stored.says, hash |-> stored.hash, own |-> TRUE]
    /\ UNCHANGED <<stored, answer>>

(* The database is lost; the stream is not.                                *)
Lose ==
    /\ stored # NoEvent
    /\ line # NoEvent /\ line.own
    /\ stored' = NoEvent
    /\ answer' = NoAnswer
    /\ UNCHANGED line

(* A stream of another origin: of an inbox that kept no hashes, or edited, *)
(* its record declaring the hash of something else.                        *)
BringLine ==
    /\ stored = NoEvent /\ line = NoEvent /\ answer = NoAnswer
    /\ \E sender \in Senders, tree, other \in Foreign, declares \in BOOLEAN :
         line' = [sender |-> sender, payload |-> TextOf(tree), says |-> Says(tree), own |-> FALSE,
                  hash |-> IF declares THEN EventHash(sender, TextOf(other)) ELSE NoHash]
    /\ UNCHANGED <<stored, answer>>

\* Mutant: a declared hash is kept as it is.
HashTrusted(record) ==
    IF record.hash # NoHash THEN record.hash ELSE EventHash(record.sender, record.payload)

(* parseRecord without --trust-hashes.                                     *)
HashRecomputed(record) == EventHash(record.sender, record.payload)

Refused(record) ==
    \/ Marshal(record.payload) = NotAccepted
    \/ record.hash # NoHash /\ record.hash # HashRecomputed(record)

(* Restore into an empty database: the row the line describes, or none.    *)
Import ==
    /\ line # NoEvent /\ stored = NoEvent
    /\ stored' = IF Refused(line) THEN NoEvent
                 ELSE [sender |-> line.sender, payload |-> line.payload,
                       hash |-> HashRecomputed(line), says |-> line.says]
    /\ line' = NoEvent
    /\ answer' = NoAnswer

Next ==
    \/ PostDocument \/ PostBroken \/ ReadAnswer
    \/ Export \/ Lose \/ BringLine \/ Import

Spec == Init /\ [][Next]_vars

----------------------------------------------------------------------------
(* A post is rejected just when it is no single JSON object or an object   *)
(* in it, at any depth, has two members of one name; otherwise it is a     *)
(* replay just when it comes from the same sender and says what the row    *)
(* says, in whatever order and spelling, and no matter how often the row   *)
(* went through an export and a restore.                                   *)
AnswersByContent ==
    answer # NoAnswer =>
      /\ answer.status = "rejected" <=> ~answer.legible
      /\ answer.status = "replayed" => answer.same
      /\ answer.status = "mismatch" => ~answer.same

(* What an export wrote, an import takes, and the row has the hash it had; *)
(* a record that declares another content's hash is not taken; and a row   *)
(* that was taken has the hash a new post of its content would get.        *)
RestoreKeepsIdentity ==
    [][line # NoEvent /\ line' = NoEvent =>
         /\ line.own => stored' # NoEvent /\ stored'.hash = line.hash
         /\ stored' # NoEvent =>
              /\ line.hash \in {NoHash, stored'.hash}
              /\ \A tree \in Foreign :
                   Says(tree) = stored'.says =>
                     stored'.hash = EventHash(stored'.sender, TextOf(tree))]_vars
============================================================================
