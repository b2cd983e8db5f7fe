---------------------------- MODULE Submissions ----------------------------
(***************************************************************************)
(* The submissions table (internal/store) as data: what a row is, and what *)
(* the queries and updates of queries.go return and do.  A table is a      *)
(* function from ids to rows; every operator takes the table it works on,  *)
(* so the same definitions serve the committed table, the table a write    *)
(* transaction sees, and the abstract specification.                       *)
(*                                                                         *)
(* Strings are abstracted to what the code compares: an idempotency key    *)
(* stands for the triple (family, submission_type, run_id), a hash for the *)
(* content payload_hash covers.  A friction is a row with no key.          *)
(***************************************************************************)
EXTENDS Integers, FiniteSets

CONSTANTS
    Keys,         \* idempotency keys of reviews and events
    NoKey,        \* the NULL run_id of a friction
    Hashes,       \* payload hashes
    Resolutions,  \* resolution texts
    Null,         \* SQL NULL
    Times,        \* the readings nowMicros() may return
    Window        \* frictionDedupeWindow

ASSUME KeysAssumption == NoKey \notin Keys
ASSUME NullAssumption == Null \notin Resolutions /\ Null \notin Int
ASSUME TimesAssumption == Times \subseteq Int /\ Times # {} /\ Window \in Nat

AnyKey == Keys \cup {NoKey}
AnyResolution == Resolutions \cup {Null}
Stamp == Int \cup {Null}

Row == [key : AnyKey, hash : Hashes, created : Int,
        processed : Stamp, resolution : AnyResolution]

(* What a caller may ask: file a submission, or mark and unmark a batch.   *)
SubmitRequest == [op : {"submit"}, key : AnyKey, hash : Hashes]

ProcessRequest ==
    {p \in [op : {"process"}, ids : SUBSET (Nat \ {0}), processed : BOOLEAN,
            resolution : AnyResolution] :
        p.resolution # Null => p.processed}

(* A table whose ids all lie in 1..seq, seq being sqlite_sequence.         *)
IsTable(rows, seq) ==
    /\ seq \in Nat
    /\ DOMAIN rows \subseteq 1..seq
    /\ rows \in [DOMAIN rows -> Row]

----------------------------------------------------------------------------
(* Queries.                                                                *)

IdsWithKey(rows, key) == {i \in DOMAIN rows : rows[i].key = key}

\* Mutant: a friction exactly one window old is not recent.
RecentFrictionsStrict(rows, hash, since) ==
    {i \in DOMAIN rows : /\ rows[i].key = NoKey
                         /\ rows[i].hash = hash
                         /\ rows[i].created > since}

RecentFrictions(rows, hash, since) ==
    {i \in DOMAIN rows : /\ rows[i].key = NoKey
                         /\ rows[i].hash = hash
                         /\ rows[i].created >= since}

NotBefore(rows, i, j) ==
    \/ rows[i].created > rows[j].created
    \/ rows[i].created = rows[j].created /\ i >= j

Newest(rows, ids) == {i \in ids : \A j \in ids : NotBefore(rows, i, j)}

(* How SetProcessed classifies the requested ids against the rows it read. *)
\* Mutant: any resolution on a processed row counts as a change.
UpdatedByAnyResolution(rows, p) ==
    {i \in p.ids \cap DOMAIN rows :
        IF p.processed
          THEN rows[i].processed = Null \/ p.resolution # Null
          ELSE rows[i].processed # Null}

Updated(rows, p) ==
    {i \in p.ids \cap DOMAIN rows :
        IF p.processed
          THEN \/ rows[i].processed = Null
               \/ p.resolution # Null /\ rows[i].resolution # p.resolution
          ELSE rows[i].processed # Null}

NotFound(rows, p) == p.ids \ DOMAIN rows

Unchanged(rows, p) == (p.ids \cap DOMAIN rows) \ Updated(rows, p)

----------------------------------------------------------------------------
(* Updates.                                                                *)

NewRow(key, hash, now) ==
    [key |-> key, hash |-> hash, created |-> now,
     processed |-> Null, resolution |-> Null]

Inserted(rows, id, row) ==
    [i \in DOMAIN rows \cup {id} |-> IF i = id THEN row ELSE rows[i]]

\* Mutant: marking again moves the timestamp (no COALESCE).
MarkedAgain(row, now, resolution) ==
    [row EXCEPT !.processed = now,
                !.resolution = IF resolution = Null THEN @ ELSE resolution]

Marked(row, now, resolution) ==
    [row EXCEPT !.processed = IF @ = Null THEN now ELSE @,
                !.resolution = IF resolution = Null THEN @ ELSE resolution]

\* Mutant: an undo clears the timestamp and leaves the resolution.
UnmarkedKeepsResolution(row) == [row EXCEPT !.processed = Null]

Unmarked(row) == [row EXCEPT !.processed = Null, !.resolution = Null]

Applied(rows, ids, p, now) ==
    [i \in DOMAIN rows |->
        CASE i \notin ids -> rows[i]
          [] i \in ids /\ p.processed -> Marked(rows[i], now, p.resolution)
          [] i \in ids /\ ~p.processed -> Unmarked(rows[i])]

Purged(rows, cutoff) ==
    {i \in DOMAIN rows : rows[i].processed # Null /\ rows[i].processed < cutoff}

Without(rows, ids) == [i \in DOMAIN rows \ ids |-> rows[i]]

----------------------------------------------------------------------------
(* What a table must satisfy, whoever wrote it.                            *)

(* One row per idempotency key (the unique partial index of 001_init.sql). *)
OneRowPerKey(rows) ==
    \A i, j \in DOMAIN rows :
        rows[i].key # NoKey /\ rows[i].key = rows[j].key => i = j

(* Two frictions with the same content are more than a window apart, and   *)
(* the later id is the later one, whatever the clock did in between.       *)
FrictionsSpaced(rows) ==
    \A i, j \in DOMAIN rows :
        /\ i < j
        /\ rows[i].key = NoKey /\ rows[j].key = NoKey
        /\ rows[i].hash = rows[j].hash
        => rows[j].created > rows[i].created + Window

(* A resolution is only ever the resolution of a processed row.            *)
ResolvedAreProcessed(rows) ==
    \A i \in DOMAIN rows : rows[i].resolution # Null => rows[i].processed # Null
============================================================================
