---------------------------- MODULE ExportImport ----------------------------
(***************************************************************************)
(* A logical backup and its restore: GET /api/v1/export streams the table  *)
(* of a serving source as header, records and terminator from one read     *)
(* transaction; the stream is stored, perhaps cut off or damaged, and      *)
(* agentfeedback import reads it into another database in one write        *)
(* transaction that commits only after the last check.                     *)
(*                                                                         *)
(* Writes of a server are single steps (WritePath implements Inbox).  A    *)
(* line is a record of TLA+; a digest is the sequence of lines it covers,  *)
(* and a running digest and count those of the records that went by.       *)
(* Reviews and events are one family here, "keyed".                        *)
(***************************************************************************)
EXTENDS Submissions, Sequences, SequencesExt

CONSTANTS
    Marks,      \* the batches the source is asked to process
    Filters,    \* the filters exports are asked for
    Options,    \* the flags imports are given
    MaxSource,  \* bound: ids the source hands out
    MaxTarget,  \* bound: ids the target hands out or takes over
    MaxExports, \* bound: exports that are started
    NoFile      \* nothing was received yet

ASSUME MarksAssumption == Marks \subseteq ProcessRequest

Families == {"friction", "keyed"}
Family(row) == IF row.key = NoKey THEN "friction" ELSE "keyed"

Filter == [family : Families \cup {Null}, since : Stamp]
Option == [nonEmpty : BOOLEAN, partial : BOOLEAN, families : SUBSET Families, reserve : Nat]

ASSUME FlagsAssumption == Filters \subseteq Filter /\ Options \subseteq Option

ASSUME BoundsAssumption == {MaxSource, MaxTarget, MaxExports} \subseteq Nat

VARIABLES
    rows, seq,     \* the source
    export,        \* the export under way
    file,          \* the stream as it was stored
    tRows, tSeq,   \* the target, committed
    imp,           \* the import under way, with the table its transaction sees
    exports,       \* how many exports were started
    past,          \* tables the source had since the export began (history)
    sent,          \* record lines of every export sent to its end (history)
    archived,      \* ids in the streams imported so far (history)
    merged         \* whether a stream was imported into a table with rows (history)

source == <<rows, seq>>
target == <<tRows, tSeq>>
history == <<exports, past, sent, archived, merged>>
vars == <<source, export, file, target, imp, history>>

HeaderLine == [kind : {"header"}, filter : Filter]
RecordLine == [kind : {"record"}, id : Nat \ {0}, row : Row]
EndLine == [kind : {"end"}, count : Nat, digest : Seq(RecordLine)]
Stream == Seq(HeaderLine \cup RecordLine \cup EndLine)

(* The lines of a stored export between its header and its terminator.     *)
Body(stream) == SubSeq(stream, 2, Len(stream) - 1)

IdsIn(lines) == {lines[k].id : k \in DOMAIN lines}
Larger(m, n) == IF n > m THEN n ELSE m

TypeOK ==
    /\ IsTable(rows, seq)
    /\ IsTable(tRows, tSeq)
    /\ export.pc \in {"idle", "header", "rows"}
    /\ export.filter \in Filter
    /\ export.digest \in Seq(RecordLine)
    /\ file \in Stream \cup {NoFile}
    /\ imp.pc \in {"idle", "header", "records", "ended"}
    /\ IsTable(imp.rows, imp.seq)
    /\ imp.rest \in Stream /\ imp.digest \in Seq(RecordLine)
    /\ imp.maxSeen \in Nat /\ imp.end \in EndLine /\ imp.opts \in Option
    /\ exports \in 0..MaxExports
    /\ sent \subseteq Seq(RecordLine)

NoFilter == [family |-> Null, since |-> Null]
NoExport == [pc |-> "idle", filter |-> NoFilter, view |-> <<>>, digest |-> <<>>]
NoImport == [pc |-> "idle", rows |-> <<>>, seq |-> 0, rest |-> <<>>, digest |-> <<>>,
             maxSeen |-> 0, end |-> [kind |-> "end", count |-> 0, digest |-> <<>>],
             opts |-> [nonEmpty |-> FALSE, partial |-> FALSE, families |-> {}, reserve |-> 0]]

Init ==
    /\ rows = <<>> /\ seq = 0
    /\ tRows = <<>> /\ tSeq = 0
    /\ export = NoExport /\ imp = NoImport
    /\ file = NoFile
    /\ exports = 0 /\ past = {} /\ sent = {} /\ archived = {}
    /\ merged = FALSE

----------------------------------------------------------------------------
(* The source serves while it is exported.                                 *)

New(t, key, hash, now) ==
    IF key = NoKey THEN RecentFrictions(t, hash, now - Window) = {}
    ELSE IdsWithKey(t, key) = {}

SourceBecomes(t) ==
    /\ rows' = t
    /\ past' = IF export.pc = "idle" THEN {} ELSE past \cup {t}
    /\ UNCHANGED <<export, file, target, imp, exports, sent, archived, merged>>

Create ==
    /\ seq < MaxSource
    /\ seq' = seq + 1
    /\ \E key \in AnyKey, hash \in Hashes, now \in Times :
         /\ New(rows, key, hash, now)
         /\ SourceBecomes(Inserted(rows, seq + 1, NewRow(key, hash, now)))

Mark ==
    /\ \E p \in Marks, now \in Times :
         /\ Updated(rows, p) # {}
         /\ SourceBecomes(Applied(rows, Updated(rows, p), p, now))
    /\ UNCHANGED seq

Purge ==
    /\ \E cutoff \in Times :
         /\ Purged(rows, cutoff) # {}
         /\ SourceBecomes(Without(rows, Purged(rows, cutoff)))
    /\ UNCHANGED seq

----------------------------------------------------------------------------
(* The export: header, rows in ascending order of id, terminator.          *)

Matching(t, f) ==
    {i \in DOMAIN t : /\ f.family = Null \/ Family(t[i]) = f.family
                      /\ f.since = Null \/ t[i].created >= f.since}

(* What was sent so far: the header and the records the digest covers.     *)
Written == <<[kind |-> "header", filter |-> export.filter]>> \o export.digest

StartExport ==
    /\ export.pc = "idle"
    /\ exports < MaxExports
    /\ exports' = exports + 1
    /\ \E f \in Filters : export' = [NoExport EXCEPT !.pc = "header", !.filter = f]
    /\ past' = {rows}
    /\ UNCHANGED <<source, file, target, imp, sent, archived, merged>>

(* The first SELECT fixes what the read transaction sees.                  *)
Select ==
    /\ export.pc = "header"
    /\ export' = [export EXCEPT !.pc = "rows",
                                !.view = [i \in Matching(rows, export.filter) |-> rows[i]]]
    /\ UNCHANGED <<source, file, target, imp, history>>

(* ORDER BY id                                                             *)
NextRow(i) == i \in DOMAIN export.view /\ \A j \in DOMAIN export.view : i <= j

Sending(i, row) ==
    [export EXCEPT !.view = Without(@, {i}),
                   !.digest = Append(@, [kind |-> "record", id |-> i, row |-> row])]

\* Mutant: pages read outside a transaction, each row as it is by then.
SendRowLive ==
    /\ export.pc = "rows"
    /\ \E i \in DOMAIN export.view :
         /\ NextRow(i)
         /\ export' = IF i \in DOMAIN rows THEN Sending(i, rows[i])
                      ELSE [export EXCEPT !.view = Without(@, {i})]
    /\ UNCHANGED <<source, file, target, imp, history>>

SendRow ==
    /\ export.pc = "rows"
    /\ \E i \in DOMAIN export.view :
         NextRow(i) /\ export' = Sending(i, export.view[i])
    /\ UNCHANGED <<source, file, target, imp, history>>

SendEnd ==
    /\ export.pc = "rows" /\ DOMAIN export.view = {}
    /\ export' = NoExport
    /\ file' = Append(Written, [kind |-> "end", count |-> Len(export.digest),
                               digest |-> export.digest])
    /\ sent' = sent \cup {export.digest}
    /\ past' = {}
    /\ UNCHANGED <<source, target, imp, exports, archived, merged>>

(* The connection breaks or the query fails: some prefix has arrived.      *)
CutOff ==
    /\ export.pc # "idle"
    /\ \E n \in 0..Len(Written) : file' = SubSeq(Written, 1, n)
    /\ export' = NoExport
    /\ past' = {}
    /\ UNCHANGED <<source, target, imp, exports, sent, archived, merged>>

(* In storage a line is lost or appended again, or a record loses its mark. *)
Damaged(s) ==
    {RemoveAt(s, k) : k \in DOMAIN s}
    \cup {Append(s, s[k]) : k \in DOMAIN s}
    \cup {[s EXCEPT ![k].row.processed = Null] :
            k \in {k \in DOMAIN s : s[k].kind = "record"}}

Damage ==
    /\ file # NoFile
    /\ Len(file) > 1 /\ Last(file).kind = "end" /\ Body(file) \in sent
    /\ file' \in Damaged(file)
    /\ UNCHANGED <<source, export, target, imp, history>>

----------------------------------------------------------------------------
(* The target: a server's creates, while no import holds the write lock.   *)

TargetCreate ==
    /\ imp.pc = "idle"
    /\ tSeq < MaxTarget
    /\ tSeq' = tSeq + 1
    /\ \E key \in AnyKey, hash \in Hashes, now \in Times :
         /\ New(tRows, key, hash, now)
         /\ tRows' = Inserted(tRows, tSeq + 1, NewRow(key, hash, now))
    /\ UNCHANGED <<source, export, file, imp, history>>

(* The write transaction is open before the first line is read; a database *)
(* with rows is refused.                                                   *)
BeginImport ==
    /\ imp.pc = "idle" /\ file # NoFile
    /\ \E o \in Options :
         /\ o.nonEmpty \/ DOMAIN tRows = {}
         /\ imp' = [NoImport EXCEPT !.pc = "header", !.rows = tRows, !.seq = tSeq,
                                    !.rest = file, !.opts = o]
    /\ UNCHANGED <<source, export, file, target, history>>

(* Lines are read in the order header, records, terminator; any other line *)
(* is an error (Reject).                                                   *)
ReadHeader ==
    /\ imp.pc = "header" /\ imp.rest # <<>>
    /\ LET line == Head(imp.rest) IN
         /\ line.kind = "header"
         /\ imp.opts.partial \/ line.filter = NoFilter
    /\ imp' = [imp EXCEPT !.pc = "records", !.rest = Tail(@)]
    /\ UNCHANGED <<source, export, file, target, history>>

Selected(row, opts) == opts.families = {} \/ Family(row) \in opts.families

\* Mutant: no unique index over the keys.
ConflictsById(t, id, row) == id \in DOMAIN t

Conflicts(t, id, row) ==
    \/ id \in DOMAIN t
    \/ row.key # NoKey /\ IdsWithKey(t, row.key) # {}

(* A record counts for the digest whether it is imported or skipped.       *)
Digested(line) ==
    [imp EXCEPT !.rest = Tail(@), !.digest = Append(@, line),
                !.maxSeen = Larger(@, line.id)]

ReadRecord ==
    /\ imp.pc = "records" /\ imp.rest # <<>>
    /\ LET line == Head(imp.rest) IN
         /\ line.kind = "record"
         /\ \/ /\ Selected(line.row, imp.opts)
               /\ ~Conflicts(imp.rows, line.id, line.row)
               /\ imp' = [Digested(line) EXCEPT !.rows = Inserted(@, line.id, line.row),
                                                !.seq = Larger(@, line.id)]
            \/ /\ ~Selected(line.row, imp.opts)
               /\ imp' = Digested(line)
    /\ UNCHANGED <<source, export, file, target, history>>

ReadEnd ==
    /\ imp.pc = "records" /\ imp.rest # <<>>
    /\ Head(imp.rest).kind = "end"
    /\ imp' = [imp EXCEPT !.pc = "ended", !.rest = Tail(@), !.end = Head(imp.rest)]
    /\ UNCHANGED <<source, export, file, target, history>>

\* Mutant: a stream without its terminator is taken as it is.
VerifiedIfEnded ==
    /\ imp.pc \in {"records", "ended"}
    /\ imp.pc = "ended" =>
         imp.end.count = Len(imp.digest) /\ imp.end.digest = imp.digest

(* The header was required when the first line was read.                   *)
Verified ==
    /\ imp.pc = "ended"
    /\ imp.end.count = Len(imp.digest)
    /\ imp.end.digest = imp.digest

\* Mutant: the sequence is set, also to a lower value than it had.
SequenceSet == Larger(imp.opts.reserve, imp.maxSeen)

\* Mutant: the sequence passes the ids imported, not those in the stream.
SequenceOfImported == Larger(imp.seq, imp.opts.reserve)

(* The sequence passes every id in the stream, those of skipped records    *)
(* included, and the range the operator reserved.                          *)
SequenceAfter == Larger(imp.seq, Larger(imp.opts.reserve, imp.maxSeen))

CommitImport ==
    /\ imp.rest = <<>> /\ Verified
    /\ tRows' = imp.rows
    /\ tSeq' = SequenceAfter
    /\ imp' = NoImport
    /\ archived' = archived \cup IdsIn(imp.digest)
    /\ merged' = (merged \/ DOMAIN tRows # {})
    /\ UNCHANGED <<source, export, file, exports, past, sent>>

(* A check fails, an insert fails, or the process dies: all rolled back.   *)
Reject ==
    /\ imp.pc # "idle"
    /\ imp' = NoImport
    /\ UNCHANGED <<source, export, file, target, history>>

Next ==
    \/ Create \/ Mark \/ Purge
    \/ StartExport \/ Select \/ SendRow \/ SendEnd \/ CutOff
    \/ Damage
    \/ TargetCreate
    \/ BeginImport \/ ReadHeader \/ ReadRecord \/ ReadEnd \/ CommitImport \/ Reject

Spec == Init /\ [][Next]_vars

----------------------------------------------------------------------------
(* A stream that carries its terminator is one state of the source, one    *)
(* that was committed while the export ran, in ascending order of id.      *)
ListsTable(records, t, f) ==
    /\ IdsIn(records) = Matching(t, f)
    /\ \A k \in DOMAIN records : records[k].row = t[records[k].id]
    /\ \A j, k \in DOMAIN records : j < k => records[j].id < records[k].id

ExportIsOneState ==
    [][sent' # sent =>
         \E t \in past : ListsTable(Body(file'), t, export.filter)]_vars

(* An import commits only a stream an export sent to its end, and adds     *)
(* exactly its selected records to what was there.                         *)
Restored(records, opts) ==
    LET chosen == {l \in Range(records) : Selected(l.row, opts)} IN
    /\ DOMAIN tRows' = DOMAIN tRows \cup {l.id : l \in chosen}
    /\ \A i \in DOMAIN tRows : tRows'[i] = tRows[i]
    /\ \A l \in chosen : tRows'[l.id] = l.row

ImportRestoresAnExport ==
    [][imp.pc # "idle" /\ tRows' # tRows =>
         \E records \in sent : Restored(records, imp.opts)]_vars

(* The target keeps the rules of a table, and as long as no stream was     *)
(* merged into existing rows also the spacing of frictions: a restored     *)
(* inbox goes on recognising what the old one had.                         *)
TargetRules ==
    /\ OneRowPerKey(tRows)
    /\ ResolvedAreProcessed(tRows)
    /\ merged \/ FrictionsSpaced(tRows)

(* No new submission of the target gets an id that a stream carried,       *)
(* whether its record was imported or left out.                            *)
ArchivedIdsStayRetired ==
    [][imp.pc = "idle" => (DOMAIN tRows' \ DOMAIN tRows) \cap archived = {}]_vars
============================================================================
