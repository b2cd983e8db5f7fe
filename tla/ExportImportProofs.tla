------------------------- MODULE ExportImportProofs -------------------------
(***************************************************************************)
(* Proofs about ExportImport, for any tables, filters, flags and bounds:   *)
(* the types, that an export sent to its end is one state of the source,   *)
(* that an import restores exactly such an export or nothing, and what the *)
(* restored inbox keeps.                                                   *)
(*                                                                         *)
(* The export is followed by the state t of the source it reads: what it   *)
(* wrote and what it still holds divide the rows of t that match, and are  *)
(* t's rows, whatever became of the source since.  A stored stream may be  *)
(* cut off and damaged anywhere; only its terminators are what an export   *)
(* wrote.  The import is followed by what it reads: its transaction's      *)
(* table is the target's and the selected records of its digest, so a      *)
(* terminator that agrees makes it the target's and an export's.           *)
(***************************************************************************)
EXTENDS ExportImport, SubmissionsProofs, SequenceTheorems, TLAPS

(* The rules of a source's table, which its writers keep.                  *)
Lawful(t) == OneRowPerKey(t) /\ FrictionsSpaced(t) /\ ResolvedAreProcessed(t)

SourceOK ==
    /\ IsTable(rows, seq) /\ Lawful(rows)
    /\ \A t \in past : IsTable(t, seq) /\ Lawful(t)

(* The export e is on its way through the table t.                         *)
Reading(e, t) ==
    /\ Matching(t, e.filter) = DOMAIN e.view \cup IdsIn(e.digest)
    /\ \A i \in DOMAIN e.view : e.view[i] = t[i]
    /\ \A k \in DOMAIN e.digest : e.digest[k].row = t[e.digest[k].id]
    /\ \A j, k \in DOMAIN e.digest : j < k => e.digest[j].id < e.digest[k].id
    /\ \A k \in DOMAIN e.digest, i \in DOMAIN e.view : e.digest[k].id < i

ExportType ==
    /\ export = [pc |-> export.pc, filter |-> export.filter,
                 view |-> export.view, digest |-> export.digest]
    /\ export.pc \in {"idle", "header", "rows"}
    /\ export.filter \in Filter /\ export.digest \in Seq(RecordLine)

ExportOK ==
    /\ ExportType
    /\ export.pc # "idle" => rows \in past
    /\ export.pc = "header" => export.digest = <<>>
    /\ export.pc = "rows" => \E t \in past : Reading(export, t)

(* What the records of an export keep of the rules.                        *)
Archive(records) ==
    /\ \A k \in DOMAIN records :
          records[k].row.resolution # Null => records[k].row.processed # Null
    /\ \A j, k \in DOMAIN records :
          /\ records[j].id < records[k].id
          /\ records[j].row.key = NoKey /\ records[k].row.key = NoKey
          /\ records[j].row.hash = records[k].row.hash
          => records[k].row.created > records[j].row.created + Window

(* Any lines, but only terminators that an export wrote.                   *)
Trusted(digests) ==
    HeaderLine \cup RecordLine \cup {l \in EndLine : l.digest \in digests}

StreamOK ==
    /\ \A s \in sent : s \in Seq(RecordLine) /\ Archive(s)
    /\ file \in Seq(Trusted(sent)) \cup {NoFile}

(* The import m has read a part of a stream into the table t.              *)
Restoring(m, t) ==
    LET chosen == {l \in Range(m.digest) : Selected(l.row, m.opts)} IN
    /\ DOMAIN m.rows = DOMAIN t \cup {l.id : l \in chosen}
    /\ \A i \in DOMAIN t : m.rows[i] = t[i]
    /\ \A l \in chosen : m.rows[l.id] = l.row

ImportType ==
    /\ imp = [pc |-> imp.pc, rows |-> imp.rows, seq |-> imp.seq, rest |-> imp.rest,
              digest |-> imp.digest, maxSeen |-> imp.maxSeen, end |-> imp.end,
              opts |-> imp.opts]
    /\ imp.pc \in {"idle", "header", "records", "ended"}
    /\ IsTable(imp.rows, imp.seq)
    /\ imp.rest \in Seq(Trusted(sent)) /\ imp.digest \in Seq(RecordLine)
    /\ imp.maxSeen \in Nat /\ imp.end \in EndLine /\ imp.opts \in Option

ImportOK ==
    /\ ImportType
    /\ imp.pc = "ended" => imp.end.digest \in sent
    /\ imp.pc # "idle" =>
         /\ imp.seq >= tSeq
         /\ OneRowPerKey(imp.rows)
         /\ Restoring(imp, tRows)
         /\ \A k \in DOMAIN imp.digest : imp.digest[k].id <= imp.maxSeen

TargetOK ==
    /\ IsTable(tRows, tSeq)
    /\ TargetRules
    /\ archived \subseteq 1..tSeq

IInv ==
    /\ SourceOK /\ ExportOK /\ StreamOK /\ ImportOK /\ TargetOK
    /\ exports \in 0..MaxExports

----------------------------------------------------------------------------
(* Streams.                                                                *)

(* A terminator stays trusted while more exports end.                      *)
LEMMA TrustedGrows ==
    ASSUME NEW D, NEW E, D \subseteq E, NEW s \in Seq(Trusted(D))
    PROVE  s \in Seq(Trusted(E))
<1>1. Trusted(D) \subseteq Trusted(E)
  BY DEF Trusted
<1>2. \A i \in 1..Len(s) : s[i] \in Trusted(E)
  BY <1>1, ElementOfSeq
<1> QED BY <1>2, SeqMonotonic

(* What is trusted is a stream.                                            *)
LEMMA TrustedIsStream ==
    ASSUME NEW D, NEW s \in Seq(Trusted(D))
    PROVE  s \in Stream
<1>1. Trusted(D) \subseteq HeaderLine \cup RecordLine \cup EndLine
  BY DEF Trusted
<1>2. \A i \in 1..Len(s) : s[i] \in HeaderLine \cup RecordLine \cup EndLine
  BY <1>1, ElementOfSeq
<1> QED BY <1>2, SeqMonotonic DEF Stream

(* The kind of a line tells what it is.                                    *)
LEMMA KindOfLine ==
    ASSUME NEW D, NEW l \in Trusted(D)
    PROVE  /\ l.kind = "record" => l \in RecordLine
           /\ l.kind = "end" => l \in EndLine /\ l.digest \in D
  BY DEF Trusted, HeaderLine, RecordLine, EndLine

(* A record that lost its mark is still a record.                          *)
LEMMA UnmarkedLine ==
    ASSUME NEW l \in RecordLine
    PROVE  [l EXCEPT !.row.processed = Null] \in RecordLine
<1>1. [l.row EXCEPT !.processed = Null] \in Row
  BY DEF RecordLine, Row, Stamp
<1> QED BY <1>1 DEF RecordLine

(* Storage cannot write a terminator: what it does to a stream is trusted  *)
(* as before.                                                              *)
LEMMA DamageKeeps ==
    ASSUME NEW D, NEW s \in Seq(Trusted(D)), NEW d \in Damaged(s)
    PROVE  d \in Seq(Trusted(D))
<1>1. DOMAIN s = 1..Len(s) /\ Len(s) \in Nat
  OBVIOUS
<1>2. ASSUME NEW k \in DOMAIN s PROVE RemoveAt(s, k) \in Seq(Trusted(D))
  BY <1>1, <1>2 DEF RemoveAt
<1>3. ASSUME NEW k \in DOMAIN s PROVE Append(s, s[k]) \in Seq(Trusted(D))
  BY <1>1, <1>3, ElementOfSeq, AppendProperties
<1>4. ASSUME NEW k \in DOMAIN s, s[k].kind = "record"
      PROVE  [s EXCEPT ![k].row.processed = Null] \in Seq(Trusted(D))
  <2> DEFINE l == [s[k] EXCEPT !.row.processed = Null]
  <2>1. s[k] \in RecordLine
    BY <1>1, <1>4, ElementOfSeq, KindOfLine
  <2>2. l \in Trusted(D)
    BY <2>1, UnmarkedLine DEF Trusted
  <2>3. [s EXCEPT ![k].row.processed = Null] = [s EXCEPT ![k] = l]
    OBVIOUS
  <2> HIDE DEF l
  <2> QED BY <1>1, <2>2, <2>3, ExceptSeq
<1> QED BY <1>2, <1>3, <1>4, Zenon DEF Damaged

(* What an export wrote so far is trusted, also if it is cut off ...       *)
LEMMA WrittenIsTrusted ==
    ASSUME ExportType, NEW D
    PROVE  /\ Written \in Seq(Trusted(D))
           /\ \A n \in 0..Len(Written) : SubSeq(Written, 1, n) \in Seq(Trusted(D))
<1>1. [kind |-> "header", filter |-> export.filter] \in Trusted(D)
  BY DEF ExportType, Trusted, HeaderLine
<1>2. export.digest \in Seq(Trusted(D))
  <2>1. \A i \in 1..Len(export.digest) : export.digest[i] \in Trusted(D)
    BY ElementOfSeq DEF ExportType, Trusted
  <2> QED BY <2>1, SeqMonotonic DEF ExportType
<1>3. Written \in Seq(Trusted(D))
  BY <1>1, <1>2, ConcatProperties DEF Written
<1>4. ASSUME NEW n \in 0..Len(Written) PROVE SubSeq(Written, 1, n) \in Seq(Trusted(D))
  BY <1>3, <1>4, SubSeqProperties
<1> QED BY <1>3, <1>4

(* ... and its body is what the digest covers once the terminator follows. *)
LEMMA BodyOfExport ==
    ASSUME ExportType, NEW e
    PROVE  Body(Append(Written, e)) = export.digest
<1> DEFINE r == export.digest
           h == [kind |-> "header", filter |-> export.filter]
           s == Append(Written, e)
           S == RecordLine \cup {h, e}
<1>1. r \in Seq(RecordLine) /\ Len(r) \in Nat
  BY DEF ExportType
<1>2. r \in Seq(S)
  BY <1>1, ElementOfSeq, SeqMonotonic
<1>3. /\ Written \in Seq(S) /\ Len(Written) = Len(r) + 1
      /\ \A i \in 1..Len(r) : Written[i + 1] = r[i]
  BY <1>1, <1>2 DEF Written
<1>4. /\ s \in Seq(S) /\ Len(s) = Len(r) + 2
      /\ \A i \in 1..Len(r) : s[i + 1] = r[i]
  BY <1>1, <1>3, AppendProperties
<1> HIDE DEF s, r, S
<1>5. /\ SubSeq(s, 2, Len(r) + 1) \in Seq(S)
      /\ Len(SubSeq(s, 2, Len(r) + 1)) = Len(r)
      /\ \A i \in 1..Len(r) : SubSeq(s, 2, Len(r) + 1)[i] = s[i + 1]
  BY <1>1, <1>4
<1>6. SubSeq(s, 2, Len(r) + 1) = r
  BY <1>1, <1>2, <1>4, <1>5, SeqEqual
<1>7. Len(s) - 1 = Len(r) + 1
  BY <1>1, <1>4
<1> QED BY <1>6, <1>7 DEF Body, s, r
----------------------------------------------------------------------------
(* The source.                                                             *)

(* A submission that create takes as new keeps the rules of its table.     *)
LEMMA CreateKeeps ==
    ASSUME NEW t, NEW s, IsTable(t, s), NEW key \in AnyKey, NEW hash \in Hashes,
           NEW now \in Times, New(t, key, hash, now)
    PROVE  LET u == Inserted(t, s + 1, NewRow(key, hash, now)) IN
           /\ IsTable(u, s + 1) /\ DOMAIN u = DOMAIN t \cup {s + 1}
           /\ OneRowPerKey(t) => OneRowPerKey(u)
           /\ FrictionsSpaced(t) => FrictionsSpaced(u)
           /\ ResolvedAreProcessed(t) => ResolvedAreProcessed(u)
<1> DEFINE r == NewRow(key, hash, now)
<1>1. r \in Row /\ r.key = key /\ r.hash = hash /\ r.created = now
  BY TimesAssumption, NullAssumption DEF NewRow, Row, Stamp, AnyResolution, AnyKey
<1>2. r.key = NoKey \/ IdsWithKey(t, r.key) = {}
  BY <1>1 DEF New
<1>3. r.key = NoKey => RecentFrictions(t, r.hash, r.created - Window) = {}
  BY <1>1 DEF New
<1>4. ResolvedAreProcessed(t) => ResolvedAreProcessed(Inserted(t, s + 1, r))
  BY InsertedKeepsResolved
<1>5. DOMAIN Inserted(t, s + 1, r) = DOMAIN t \cup {s + 1}
  BY Zenon DEF Inserted
<1> HIDE DEF r
<1>6. IsTable(Inserted(t, s + 1, r), s + 1)
  BY <1>1, InsertedIsTable
<1>7. OneRowPerKey(t) => OneRowPerKey(Inserted(t, s + 1, r))
  BY <1>1, <1>2, InsertedKeepsKeys
<1>8. FrictionsSpaced(t) => FrictionsSpaced(Inserted(t, s + 1, r))
  BY <1>1, <1>3, InsertedKeepsSpacing
<1> QED BY <1>4, <1>5, <1>6, <1>7, <1>8 DEF r

(* The id of a table may go on.                                            *)
LEMMA TableGrows ==
    ASSUME NEW t, NEW s, IsTable(t, s), NEW n \in Nat, s <= n
    PROVE  IsTable(t, n)
<1>1. 1..s \subseteq 1..n
  BY DEF IsTable
<1> QED BY <1>1 DEF IsTable

(* A write of the source, seen by the export: its table is one of those    *)
(* the export may be, and the one it is stays.                             *)
LEMMA WriteKeeps ==
    ASSUME SourceOK, ExportOK, NEW t, SourceBecomes(t),
           IsTable(t, seq'), Lawful(t), seq <= seq'
    PROVE  SourceOK' /\ ExportOK'
<1>1. past' \subseteq past \cup {t} /\ (export.pc # "idle" => past' = past \cup {t})
  BY DEF SourceBecomes
<1>2. rows' = t /\ export' = export
  BY DEF SourceBecomes
<1>3. seq' \in Nat
  BY DEF IsTable
<1>4. \A u \in past : IsTable(u, seq')
  BY <1>3, TableGrows DEF SourceOK
<1>5. SourceOK'
  BY <1>1, <1>2, <1>4 DEF SourceOK
<1>6. ExportOK'
  BY <1>1, <1>2 DEF ExportOK, ExportType
<1> QED BY <1>5, <1>6

LEMMA CreateOK ==
    ASSUME SourceOK, ExportOK, Create
    PROVE  SourceOK' /\ ExportOK'
<1>1. PICK key \in AnyKey, hash \in Hashes, now \in Times :
         /\ New(rows, key, hash, now)
         /\ SourceBecomes(Inserted(rows, seq + 1, NewRow(key, hash, now)))
  BY Zenon DEF Create
<1>2. seq' = seq + 1 /\ IsTable(rows, seq) /\ Lawful(rows)
  BY DEF Create, SourceOK
<1>3. seq <= seq'
  BY <1>2 DEF IsTable
<1> DEFINE u == Inserted(rows, seq + 1, NewRow(key, hash, now))
<1>4. IsTable(u, seq') /\ Lawful(u)
  BY <1>1, <1>2, CreateKeeps DEF Lawful
<1> HIDE DEF u
<1> QED BY <1>1, <1>3, <1>4, WriteKeeps DEF u

LEMMA MarkOK ==
    ASSUME SourceOK, ExportOK, Mark
    PROVE  SourceOK' /\ ExportOK'
<1>1. PICK p \in Marks, now \in Times :
         SourceBecomes(Applied(rows, Updated(rows, p), p, now))
  BY Zenon DEF Mark
<1>2. seq' = seq /\ IsTable(rows, seq) /\ Lawful(rows) /\ seq <= seq'
  BY DEF Mark, SourceOK, IsTable
<1>3. p \in ProcessRequest /\ now \in Int
  BY MarksAssumption, TimesAssumption
<1> DEFINE u == Applied(rows, Updated(rows, p), p, now)
<1>4. IsTable(u, seq')
  BY <1>2, <1>3, AppliedIsTable
<1>5. Lawful(u)
  BY <1>2, <1>3, AppliedKeepsKeysAndSpacing, AppliedKeepsResolved DEF Lawful
<1> HIDE DEF u
<1> QED BY <1>1, <1>2, <1>4, <1>5, WriteKeeps DEF u

LEMMA PurgeOK ==
    ASSUME SourceOK, ExportOK, Purge
    PROVE  SourceOK' /\ ExportOK'
<1>1. PICK cutoff \in Times : SourceBecomes(Without(rows, Purged(rows, cutoff)))
  BY Zenon DEF Purge
<1>2. seq' = seq /\ IsTable(rows, seq) /\ Lawful(rows) /\ seq <= seq'
  BY DEF Purge, SourceOK, IsTable
<1> DEFINE u == Without(rows, Purged(rows, cutoff))
<1>3. IsTable(u, seq') /\ Lawful(u)
  BY <1>2, WithoutIsTable, WithoutKeepsRules DEF Lawful
<1> HIDE DEF u
<1> QED BY <1>1, <1>2, <1>3, WriteKeeps DEF u

----------------------------------------------------------------------------
(* The export.                                                             *)

(* The ids a filter matches are numbers, and their rows are rows.          *)
LEMMA MatchingIds ==
    ASSUME NEW t, NEW s, IsTable(t, s), NEW f
    PROVE  \A i \in Matching(t, f) : i \in DOMAIN t /\ i \in Nat \ {0} /\ t[i] \in Row
  BY DEF Matching, IsTable

LEMMA StartExportOK ==
    ASSUME SourceOK, ExportOK, StartExport
    PROVE  SourceOK' /\ ExportOK'
<1>1. PICK f \in Filters : export' = [NoExport EXCEPT !.pc = "header", !.filter = f]
  BY Zenon DEF StartExport
<1>2. export' = [pc |-> "header", filter |-> f, view |-> <<>>, digest |-> <<>>]
  BY <1>1 DEF NoExport
<1>3. past' = {rows} /\ UNCHANGED <<rows, seq>>
  BY DEF StartExport, source
<1>4. ExportType'
  BY <1>2, FlagsAssumption, EmptySeq DEF ExportType
<1> QED BY <1>2, <1>3, <1>4 DEF SourceOK, ExportOK

LEMMA SelectOK ==
    ASSUME SourceOK, ExportOK, Select
    PROVE  SourceOK' /\ ExportOK'
<1>1. UNCHANGED <<rows, seq, past>> /\ export.digest = <<>> /\ rows \in past
  BY DEF Select, source, history, ExportOK
<1>2. export' = [pc |-> "rows", filter |-> export.filter, digest |-> <<>>,
                 view |-> [i \in Matching(rows, export.filter) |-> rows[i]]]
  BY <1>1 DEF Select, ExportOK, ExportType
<1>3. ExportType'
  BY <1>2, EmptySeq DEF ExportOK, ExportType
<1>4. Reading(export', rows)
  BY <1>2 DEF Reading, IdsIn
<1> QED BY <1>1, <1>2, <1>3, <1>4 DEF SourceOK, ExportOK

LEMMA SendRowOK ==
    ASSUME SourceOK, ExportOK, SendRow
    PROVE  SourceOK' /\ ExportOK'
<1>1. PICK i \in DOMAIN export.view : NextRow(i) /\ export' = Sending(i, export.view[i])
  BY Zenon DEF SendRow
<1> DEFINE l == [kind |-> "record", id |-> i, row |-> export.view[i]]
           v == Without(export.view, {i})
<1>2. UNCHANGED <<rows, seq, past>> /\ export.pc = "rows"
  BY DEF SendRow, source, history
<1>3. PICK t \in past : Reading(export, t)
  BY <1>2, Zenon DEF ExportOK
<1>4. /\ export' = [pc |-> "rows", filter |-> export.filter, view |-> v,
                    digest |-> Append(export.digest, l)]
  BY <1>1, <1>2 DEF Sending, ExportOK, ExportType
<1>5. /\ i \in Nat \ {0} /\ t[i] \in Row /\ export.view[i] = t[i]
      /\ \A j \in DOMAIN export.view : j \in Nat
  BY <1>3, MatchingIds DEF Reading, SourceOK
<1>6. l \in RecordLine /\ l.id = i /\ l.row = t[i]
  BY <1>5 DEF RecordLine
<1>7. DOMAIN v = DOMAIN export.view \ {i} /\ \A j \in DOMAIN v : v[j] = export.view[j]
  BY DEF Without
<1>8. export.digest \in Seq(RecordLine)
  BY DEF ExportOK, ExportType
<1> DEFINE d == export.digest
           e == Append(d, l)
<1> HIDE DEF l, v
<1>9. /\ Len(d) \in Nat /\ Len(e) = Len(d) + 1 /\ e \in Seq(RecordLine)
      /\ DOMAIN d = 1..Len(d) /\ DOMAIN e = 1..(Len(d) + 1)
      /\ \A k \in DOMAIN d : e[k] = d[k]
      /\ e[Len(d) + 1] = l
  BY <1>6, <1>8, AppendProperties
<1> HIDE DEF d, e
<1>10. /\ \A k \in DOMAIN e : k \in DOMAIN d \/ k = Len(d) + 1
       /\ \A k \in DOMAIN d : k \in DOMAIN e /\ k < Len(d) + 1
       /\ Len(d) + 1 \in DOMAIN e
  BY <1>9
<1>11. Reading(export', t)
  <2>1. export'.view = v /\ export'.digest = e /\ export'.filter = export.filter
    BY <1>4 DEF d, e
  <2>2. /\ Matching(t, export.filter) = DOMAIN export.view \cup IdsIn(d)
        /\ \A j \in DOMAIN export.view : export.view[j] = t[j]
        /\ \A k \in DOMAIN d : d[k].row = t[d[k].id]
        /\ \A j, k \in DOMAIN d : j < k => d[j].id < d[k].id
        /\ \A k \in DOMAIN d, j \in DOMAIN export.view : d[k].id < j
    BY <1>3 DEF Reading, d
  <2>3. IdsIn(e) = IdsIn(d) \cup {i}
    BY <1>6, <1>9, <1>10 DEF IdsIn
  <2>4. Matching(t, export.filter) = DOMAIN v \cup IdsIn(e)
    BY <1>7, <2>2, <2>3
  <2>5. \A k \in DOMAIN e : e[k].row = t[e[k].id]
    BY <1>6, <1>9, <1>10, <2>2
  <2>6. \A j, k \in DOMAIN e : j < k => e[j].id < e[k].id
    <3> SUFFICES ASSUME NEW j \in DOMAIN e, NEW k \in DOMAIN e, j < k
                 PROVE  e[j].id < e[k].id
      OBVIOUS
    <3>1. j \in DOMAIN d
      BY <1>9
    <3>2. CASE k \in DOMAIN d
      BY <1>9, <2>2, <3>1, <3>2
    <3>3. CASE k = Len(d) + 1
      BY <1>6, <1>9, <2>2, <3>1, <3>3
    <3> QED BY <1>10, <3>2, <3>3
  <2>7. ASSUME NEW k \in DOMAIN e, NEW j \in DOMAIN v PROVE e[k].id < j
    <3>1. i <= j /\ i # j /\ i \in Nat /\ j \in Nat /\ j \in DOMAIN export.view
      BY <1>1, <1>5, <1>7 DEF NextRow
    <3>2. CASE k \in DOMAIN d
      BY <1>9, <2>2, <3>1, <3>2
    <3>3. CASE k = Len(d) + 1
      BY <1>6, <1>9, <3>1, <3>3
    <3> QED BY <1>10, <3>2, <3>3
  <2> QED BY <1>7, <2>1, <2>2, <2>4, <2>5, <2>6, <2>7 DEF Reading
<1>12. ExportType'
  BY <1>4, <1>9 DEF ExportOK, ExportType, d, e
<1>13. export'.pc = "rows"
  BY <1>4
<1> QED BY <1>2, <1>3, <1>11, <1>12, <1>13 DEF SourceOK, ExportOK

(* An export that is over, sent or cut off, knows nothing.                 *)
LEMMA ExportOver ==
    ASSUME SourceOK, export' = NoExport, past' = {}, UNCHANGED source
    PROVE  SourceOK' /\ ExportOK'
<1>1. ExportType'
  BY EmptySeq DEF NoExport, NoFilter, ExportType, Filter, Stamp
<1>2. export'.pc = "idle"
  BY DEF NoExport
<1>3. UNCHANGED <<rows, seq>>
  BY DEF source
<1> QED BY <1>1, <1>2, <1>3 DEF SourceOK, ExportOK
(* An export sent to its end is the table it reads, and keeps its rules.   *)
LEMMA EndedExport ==
    ASSUME SourceOK, ExportOK, SendEnd
    PROVE  /\ \E t \in past : ListsTable(Body(file'), t, export.filter)
           /\ Archive(export.digest)
<1> DEFINE d == export.digest
<1>1. export.pc = "rows" /\ DOMAIN export.view = {}
  BY DEF SendEnd
<1>2. PICK t \in past : Reading(export, t)
  BY <1>1, Zenon DEF ExportOK
<1>3. IsTable(t, seq) /\ Lawful(t)
  BY <1>2 DEF SourceOK
<1>4. /\ IdsIn(d) = Matching(t, export.filter)
      /\ \A k \in DOMAIN d : d[k].row = t[d[k].id]
      /\ \A j, k \in DOMAIN d : j < k => d[j].id < d[k].id
  BY <1>1, <1>2 DEF Reading
<1>5. \A k \in DOMAIN d : d[k].id \in DOMAIN t
  BY <1>3, <1>4, MatchingIds DEF IdsIn
<1>6. Body(file') = d
  BY BodyOfExport DEF SendEnd, ExportOK
<1> HIDE DEF d
<1>7. ListsTable(Body(file'), t, export.filter)
  BY <1>4, <1>6 DEF ListsTable
<1>8. Archive(d)
  <2>1. \A k \in DOMAIN d : d[k].row.resolution # Null => d[k].row.processed # Null
    BY <1>3, <1>4, <1>5 DEF Lawful, ResolvedAreProcessed
  <2>2. ASSUME NEW j \in DOMAIN d, NEW k \in DOMAIN d, d[j].id < d[k].id,
               d[j].row.key = NoKey, d[k].row.key = NoKey, d[j].row.hash = d[k].row.hash
        PROVE  d[k].row.created > d[j].row.created + Window
    BY <1>3, <1>4, <1>5, <2>2 DEF Lawful, FrictionsSpaced
  <2> QED BY <2>1, <2>2 DEF Archive
<1> QED BY <1>2, <1>7, <1>8 DEF d

LEMMA SendEndOK ==
    ASSUME SourceOK, ExportOK, StreamOK, SendEnd
    PROVE  SourceOK' /\ ExportOK' /\ StreamOK' /\ sent \subseteq sent'
<1>1. SourceOK' /\ ExportOK'
  BY ExportOver DEF SendEnd
<1> DEFINE e == [kind |-> "end", count |-> Len(export.digest), digest |-> export.digest]
<1>2. file' = Append(Written, e) /\ sent' = sent \cup {export.digest}
  BY DEF SendEnd
<1>3. export.digest \in Seq(RecordLine) /\ Len(export.digest) \in Nat
  BY DEF ExportOK, ExportType
<1>4. e \in Trusted(sent')
  BY <1>2, <1>3 DEF Trusted, EndLine
<1> HIDE DEF e
<1>5. file' \in Seq(Trusted(sent'))
  BY <1>2, <1>4, WrittenIsTrusted, AppendProperties DEF ExportOK
<1>6. Archive(export.digest)
  BY EndedExport
<1> QED BY <1>1, <1>2, <1>3, <1>5, <1>6 DEF StreamOK

LEMMA CutOffOK ==
    ASSUME SourceOK, ExportOK, StreamOK, CutOff
    PROVE  SourceOK' /\ ExportOK' /\ StreamOK' /\ UNCHANGED sent
<1>1. SourceOK' /\ ExportOK'
  BY ExportOver DEF CutOff
<1>2. PICK n \in 0..Len(Written) : file' = SubSeq(Written, 1, n)
  BY Zenon DEF CutOff
<1>3. sent' = sent
  BY DEF CutOff
<1>4. file' \in Seq(Trusted(sent'))
  BY <1>2, <1>3, WrittenIsTrusted DEF ExportOK
<1> QED BY <1>1, <1>3, <1>4 DEF StreamOK

LEMMA DamageOK ==
    ASSUME StreamOK, Damage
    PROVE  StreamOK' /\ UNCHANGED sent
<1>1. file # NoFile /\ file' \in Damaged(file) /\ sent' = sent
  BY DEF Damage, history
<1>2. file' \in Seq(Trusted(sent'))
  BY <1>1, DamageKeeps DEF StreamOK
<1> QED BY <1>1, <1>2 DEF StreamOK

----------------------------------------------------------------------------
(* The target.                                                             *)

LEMMA TargetCreateOK ==
    ASSUME ImportOK, TargetOK, TargetCreate
    PROVE  ImportOK' /\ TargetOK' /\ DOMAIN tRows' = DOMAIN tRows \cup {tSeq + 1}
<1>1. PICK key \in AnyKey, hash \in Hashes, now \in Times :
         /\ New(tRows, key, hash, now)
         /\ tRows' = Inserted(tRows, tSeq + 1, NewRow(key, hash, now))
  BY Zenon DEF TargetCreate
<1>2. /\ tSeq' = tSeq + 1 /\ imp.pc = "idle" /\ imp' = imp
      /\ sent' = sent /\ merged' = merged /\ archived' = archived
  BY DEF TargetCreate, history
<1>3. IsTable(tRows, tSeq) /\ OneRowPerKey(tRows) /\ ResolvedAreProcessed(tRows)
      /\ (merged \/ FrictionsSpaced(tRows))
  BY DEF TargetOK, TargetRules
<1> DEFINE u == Inserted(tRows, tSeq + 1, NewRow(key, hash, now))
<1>4. /\ IsTable(u, tSeq + 1) /\ DOMAIN u = DOMAIN tRows \cup {tSeq + 1}
      /\ OneRowPerKey(u) /\ ResolvedAreProcessed(u)
      /\ FrictionsSpaced(tRows) => FrictionsSpaced(u)
  <2>1. New(tRows, key, hash, now) /\ IsTable(tRows, tSeq)
    BY <1>1, <1>3
  <2>2. /\ IsTable(u, tSeq + 1) /\ DOMAIN u = DOMAIN tRows \cup {tSeq + 1}
        /\ OneRowPerKey(tRows) => OneRowPerKey(u)
        /\ FrictionsSpaced(tRows) => FrictionsSpaced(u)
        /\ ResolvedAreProcessed(tRows) => ResolvedAreProcessed(u)
    BY <2>1, CreateKeeps
  <2> HIDE DEF u
  <2> QED BY <1>3, <2>2
<1> HIDE DEF u
<1>5. ImportOK'
  BY <1>2 DEF ImportOK, ImportType
<1>6. archived' \subseteq 1..tSeq'
  BY <1>2 DEF TargetOK, IsTable
<1>7. tRows' = u
  BY <1>1 DEF u
<1>8. TargetRules'
  BY <1>2, <1>3, <1>4, <1>7 DEF TargetRules
<1> QED BY <1>2, <1>4, <1>5, <1>6, <1>7, <1>8 DEF TargetOK

----------------------------------------------------------------------------
(* The import.                                                             *)

LEMMA LargerOfTwo ==
    ASSUME NEW m \in Nat, NEW n \in Nat
    PROVE  Larger(m, n) \in Nat /\ Larger(m, n) >= m /\ Larger(m, n) >= n
  BY DEF Larger

(* An import that is over has no table.                                    *)
LEMMA NoImportOK ==
    ASSUME imp' = NoImport
    PROVE  ImportOK'
<1>1. IsTable(<<>>, 0)
  BY EmptyTable
<1>2. NoImport.end \in EndLine /\ NoImport.opts \in Option
  BY EmptySeq DEF NoImport, EndLine, Option
<1>3. ImportType'
  BY <1>1, <1>2, EmptySeq DEF NoImport, ImportType
<1> QED BY <1>3 DEF ImportOK, NoImport

LEMMA BeginImportOK ==
    ASSUME StreamOK, TargetOK, BeginImport
    PROVE  ImportOK'
<1>1. PICK o \in Options :
         imp' = [NoImport EXCEPT !.pc = "header", !.rows = tRows, !.seq = tSeq,
                                 !.rest = file, !.opts = o]
  BY Zenon DEF BeginImport
<1>2. imp' = [pc |-> "header", rows |-> tRows, seq |-> tSeq, rest |-> file,
              digest |-> <<>>, maxSeen |-> 0, end |-> NoImport.end, opts |-> o]
  BY <1>1 DEF NoImport
<1>3. UNCHANGED <<tRows, tSeq, sent>> /\ file # NoFile
  BY DEF BeginImport, target, history
<1>4. NoImport.end \in EndLine /\ o \in Option
  BY FlagsAssumption, EmptySeq DEF NoImport, EndLine
<1>5. file \in Seq(Trusted(sent)) /\ IsTable(tRows, tSeq) /\ OneRowPerKey(tRows) /\ tSeq \in Nat
  BY <1>3 DEF StreamOK, TargetOK, TargetRules, IsTable
<1>6. ImportType'
  BY <1>2, <1>3, <1>4, <1>5, EmptySeq DEF ImportType
<1>7. Restoring(imp', tRows)
  <2>1. Range(<<>>) = {}
    BY DEF Range
  <2> QED BY <1>2, <2>1 DEF Restoring
<1> QED BY <1>2, <1>3, <1>5, <1>6, <1>7 DEF ImportOK

(* The next line of a stream that is read is trusted, and so is the rest.  *)
LEMMA NextLine ==
    ASSUME ImportType, imp.rest # <<>>
    PROVE  Head(imp.rest) \in Trusted(sent) /\ Tail(imp.rest) \in Seq(Trusted(sent))
  BY HeadTailProperties DEF ImportType

LEMMA ReadHeaderOK ==
    ASSUME ImportOK, ReadHeader
    PROVE  ImportOK'
<1>1. UNCHANGED <<tRows, tSeq, sent>> /\ imp.pc = "header" /\ imp.rest # <<>>
      /\ imp' = [imp EXCEPT !.pc = "records", !.rest = Tail(@)]
  BY DEF ReadHeader, target, history
<1>2. imp' = [pc |-> "records", rows |-> imp.rows, seq |-> imp.seq, rest |-> Tail(imp.rest),
              digest |-> imp.digest, maxSeen |-> imp.maxSeen, end |-> imp.end,
              opts |-> imp.opts]
  BY <1>1 DEF ImportOK, ImportType
<1>3. ImportType'
  BY <1>1, <1>2, NextLine DEF ImportOK, ImportType
<1> QED BY <1>1, <1>2, <1>3 DEF ImportOK, Restoring

LEMMA ReadEndOK ==
    ASSUME ImportOK, ReadEnd
    PROVE  ImportOK'
<1>1. UNCHANGED <<tRows, tSeq, sent>> /\ imp.pc = "records" /\ imp.rest # <<>>
      /\ Head(imp.rest).kind = "end"
      /\ imp' = [imp EXCEPT !.pc = "ended", !.rest = Tail(@), !.end = Head(imp.rest)]
  BY DEF ReadEnd, target, history
<1>2. imp' = [pc |-> "ended", rows |-> imp.rows, seq |-> imp.seq, rest |-> Tail(imp.rest),
              digest |-> imp.digest, maxSeen |-> imp.maxSeen, end |-> Head(imp.rest),
              opts |-> imp.opts]
  BY <1>1 DEF ImportOK, ImportType
<1>3. Head(imp.rest) \in EndLine /\ Head(imp.rest).digest \in sent
  BY <1>1, NextLine, KindOfLine DEF ImportOK
<1>4. ImportType'
  BY <1>1, <1>2, <1>3, NextLine DEF ImportOK, ImportType
<1> QED BY <1>1, <1>2, <1>3, <1>4 DEF ImportOK, Restoring
(* An insert that meets no row with its id or key.                         *)
LEMMA RestoredRow ==
    ASSUME NEW t, NEW s, IsTable(t, s), NEW id \in Nat \ {0}, NEW row \in Row,
           ~Conflicts(t, id, row)
    PROVE  LET u == Inserted(t, id, row) IN
           /\ DOMAIN u = DOMAIN t \cup {id} /\ id \notin DOMAIN t /\ u[id] = row
           /\ \A i \in DOMAIN t : u[i] = t[i]
           /\ DOMAIN u \subseteq 1..Larger(s, id) /\ u \in [DOMAIN u -> Row]
           /\ OneRowPerKey(t) => OneRowPerKey(u)
<1> DEFINE u == Inserted(t, id, row)
<1>1. /\ id \notin DOMAIN t
      /\ row.key # NoKey => \A i \in DOMAIN t : t[i].key # row.key
  BY DEF Conflicts, IdsWithKey
<1>2. /\ DOMAIN u = DOMAIN t \cup {id} /\ u[id] = row
      /\ \A i \in DOMAIN t : u[i] = t[i]
      /\ u = [i \in DOMAIN u |-> u[i]]
  BY <1>1 DEF Inserted
<1> HIDE DEF u
<1>3. s \in Nat /\ Larger(s, id) \in Nat /\ Larger(s, id) >= s /\ Larger(s, id) >= id
  BY LargerOfTwo DEF IsTable
<1>4. DOMAIN u \subseteq 1..Larger(s, id)
  BY <1>2, <1>3 DEF IsTable
<1>5. \A i \in DOMAIN u : u[i] \in Row
  BY <1>2 DEF IsTable
<1>6. u \in [DOMAIN u -> Row]
  BY <1>2, <1>5
<1>7. OneRowPerKey(t) => OneRowPerKey(u)
  BY <1>1, <1>2 DEF OneRowPerKey
<1> QED BY <1>1, <1>2, <1>4, <1>6, <1>7 DEF u

(* A record goes into the digest, selected or not.                         *)
LEMMA DigestedLine ==
    ASSUME NEW d \in Seq(RecordLine), NEW l \in RecordLine
    PROVE  /\ Append(d, l) \in Seq(RecordLine)
           /\ Range(Append(d, l)) = Range(d) \cup {l}
           /\ \A n \in Nat : (\A k \in DOMAIN d : d[k].id <= n) =>
                \A k \in DOMAIN Append(d, l) : Append(d, l)[k].id <= Larger(n, l.id)
<1> DEFINE e == Append(d, l)
<1>1. /\ Len(d) \in Nat /\ e \in Seq(RecordLine)
      /\ DOMAIN d = 1..Len(d) /\ DOMAIN e = 1..(Len(d) + 1)
      /\ \A k \in DOMAIN d : e[k] = d[k]
      /\ e[Len(d) + 1] = l
  BY AppendProperties
<1> HIDE DEF e
<1>2. /\ \A k \in DOMAIN e : k \in DOMAIN d \/ k = Len(d) + 1
      /\ \A k \in DOMAIN d : k \in DOMAIN e
      /\ Len(d) + 1 \in DOMAIN e
  BY <1>1
<1>3. Range(e) = Range(d) \cup {l}
  BY <1>1, <1>2 DEF Range
<1>4. ASSUME NEW n \in Nat, \A k \in DOMAIN d : d[k].id <= n, NEW k \in DOMAIN e
      PROVE  e[k].id <= Larger(n, l.id)
  <2>1. l.id \in Nat
    BY DEF RecordLine
  <2>2. CASE k \in DOMAIN d
    <3>1. d[k] \in RecordLine /\ d[k].id <= n
      BY <1>1, <1>4, <2>2, ElementOfSeq
    <3>2. d[k].id \in Nat
      BY <3>1 DEF RecordLine
    <3>3. Larger(n, l.id) \in Nat /\ n <= Larger(n, l.id) /\ e[k].id = d[k].id
      BY <1>1, <2>1, <2>2, LargerOfTwo
    <3> QED BY <3>1, <3>2, <3>3
  <2>3. CASE k = Len(d) + 1
    BY <1>1, <2>1, <2>3, LargerOfTwo
  <2> QED BY <1>2, <2>2, <2>3
<1> QED BY <1>1, <1>3, <1>4 DEF e

LEMMA ReadRecordOK ==
    ASSUME ImportOK, TargetOK, ReadRecord
    PROVE  ImportOK'
<1> DEFINE l == Head(imp.rest)
           chosen == {m \in Range(imp.digest) : Selected(m.row, imp.opts)}
<1>1. UNCHANGED <<tRows, tSeq, sent>> /\ imp.pc = "records" /\ imp.rest # <<>>
      /\ l.kind = "record"
  BY DEF ReadRecord, target, history
<1>2. l \in RecordLine /\ Tail(imp.rest) \in Seq(Trusted(sent))
  BY <1>1, NextLine, KindOfLine DEF ImportOK
<1>3. l.id \in Nat \ {0} /\ l.row \in Row
  BY <1>2 DEF RecordLine
<1>4. /\ imp.digest \in Seq(RecordLine) /\ imp.maxSeen \in Nat /\ imp.opts \in Option
      /\ imp.end \in EndLine /\ IsTable(imp.rows, imp.seq) /\ imp.seq \in Nat /\ tSeq \in Nat
  BY DEF ImportOK, ImportType, TargetOK, IsTable
<1>5. /\ imp.seq >= tSeq /\ OneRowPerKey(imp.rows)
      /\ DOMAIN imp.rows = DOMAIN tRows \cup {m.id : m \in chosen}
      /\ \A i \in DOMAIN tRows : imp.rows[i] = tRows[i]
      /\ \A m \in chosen : imp.rows[m.id] = m.row
      /\ \A k \in DOMAIN imp.digest : imp.digest[k].id <= imp.maxSeen
  BY <1>1 DEF ImportOK, Restoring
<1> HIDE DEF l
<1> DEFINE e == Append(imp.digest, l)
<1>6. /\ e \in Seq(RecordLine) /\ Range(e) = Range(imp.digest) \cup {l}
      /\ \A k \in DOMAIN e : e[k].id <= Larger(imp.maxSeen, l.id)
      /\ Larger(imp.maxSeen, l.id) \in Nat
  BY <1>2, <1>3, <1>4, <1>5, DigestedLine, LargerOfTwo
<1>7. PICK new : new = Digested(l)
  OBVIOUS
<1>8. imp = [pc |-> imp.pc, rows |-> imp.rows, seq |-> imp.seq, rest |-> imp.rest,
             digest |-> imp.digest, maxSeen |-> imp.maxSeen, end |-> imp.end,
             opts |-> imp.opts]
  BY DEF ImportOK, ImportType
<1>9. new = [imp EXCEPT !.rest = Tail(imp.rest), !.digest = e,
                      !.maxSeen = Larger(imp.maxSeen, l.id)]
  BY <1>7, <1>8 DEF Digested
<1> HIDE DEF e
<1>10. new = [pc |-> "records", rows |-> imp.rows, seq |-> imp.seq,
            rest |-> Tail(imp.rest), digest |-> e,
            maxSeen |-> Larger(imp.maxSeen, l.id), end |-> imp.end,
            opts |-> imp.opts]
  BY <1>1, <1>8, <1>9
<1>11. CASE Selected(l.row, imp.opts)
  <2> DEFINE u == Inserted(imp.rows, l.id, l.row)
             n == Larger(imp.seq, l.id)
  <2>0. n \in Nat /\ n >= imp.seq
    <3>1. l.id \in Nat /\ imp.seq \in Nat
      BY <1>3, <1>4
    <3> QED BY <3>1, LargerOfTwo
  <2>1. ~Conflicts(imp.rows, l.id, l.row)
        /\ imp' = [new EXCEPT !.rows = Inserted(@, l.id, l.row), !.seq = Larger(@, l.id)]
    BY <1>7, <1>11 DEF ReadRecord, l
  <2>2. imp' = [pc |-> "records", rows |-> u, seq |-> n, rest |-> Tail(imp.rest),
                digest |-> e, maxSeen |-> Larger(imp.maxSeen, l.id), end |-> imp.end,
                opts |-> imp.opts]
    <3>1. new.rows = imp.rows /\ new.seq = imp.seq
      BY <1>10
    <3>2. imp' = [new EXCEPT !.rows = u, !.seq = n]
      BY <2>1, <3>1
    <3> HIDE DEF u, n
    <3> QED BY <1>10, <3>2
  <2>3. /\ IsTable(u, n) /\ OneRowPerKey(u)
        /\ DOMAIN u = DOMAIN imp.rows \cup {l.id} /\ l.id \notin DOMAIN imp.rows
        /\ u[l.id] = l.row /\ \A i \in DOMAIN imp.rows : u[i] = imp.rows[i]
    <3>1. IsTable(imp.rows, imp.seq) /\ OneRowPerKey(imp.rows)
          /\ ~Conflicts(imp.rows, l.id, l.row) /\ l.id \in Nat \ {0} /\ l.row \in Row
      BY <1>3, <1>4, <1>5, <2>1
    <3>2. /\ OneRowPerKey(u)
          /\ DOMAIN u = DOMAIN imp.rows \cup {l.id} /\ l.id \notin DOMAIN imp.rows
          /\ u[l.id] = l.row /\ \A i \in DOMAIN imp.rows : u[i] = imp.rows[i]
          /\ DOMAIN u \subseteq 1..n /\ u \in [DOMAIN u -> Row]
      BY <3>1, RestoredRow
    <3>3. n \in Nat
      BY <2>0
    <3> HIDE DEF u, n
    <3>4. IsTable(u, n)
      BY <3>2, <3>3 DEF IsTable
    <3> QED BY <3>2, <3>4
  <2>4. n >= tSeq
    <3>1. imp.seq >= tSeq /\ imp.seq \in Nat /\ tSeq \in Nat
      BY <1>4, <1>5
    <3> HIDE DEF n
    <3> QED BY <2>0, <3>1
  <2> HIDE DEF u, n
  <2>5. {m \in Range(e) : Selected(m.row, imp.opts)} = chosen \cup {l}
    BY <1>6, <1>11
  <2> HIDE DEF chosen
  <2>6. /\ DOMAIN u = DOMAIN tRows \cup {m.id : m \in chosen \cup {l}}
        /\ \A i \in DOMAIN tRows : u[i] = tRows[i]
        /\ \A m \in chosen \cup {l} : u[m.id] = m.row
    BY <1>5, <2>3
  <2>7. Restoring(imp', tRows)
    BY <2>2, <2>5, <2>6 DEF Restoring
  <2>8. ImportType'
    BY <1>1, <1>2, <1>4, <1>6, <2>2, <2>3 DEF ImportType
  <2>9. imp'.pc = "records" /\ imp'.seq = n /\ imp'.rows = u
        /\ imp'.digest = e /\ imp'.maxSeen = Larger(imp.maxSeen, l.id)
    BY <2>2
  <2> QED BY <1>1, <1>6, <2>3, <2>4, <2>7, <2>8, <2>9 DEF ImportOK
<1>12. CASE ~Selected(l.row, imp.opts)
  <2>1. imp' = new
    BY <1>7, <1>12 DEF ReadRecord, l
  <2>2. /\ imp'.pc = "records" /\ imp'.seq = imp.seq /\ imp'.rows = imp.rows
        /\ imp'.digest = e /\ imp'.maxSeen = Larger(imp.maxSeen, l.id)
        /\ imp'.opts = imp.opts
    BY <1>10, <2>1
  <2>3. {m \in Range(e) : Selected(m.row, imp.opts)} = chosen
    BY <1>6, <1>12
  <2> HIDE DEF chosen
  <2>4. Restoring(imp', tRows)
    BY <1>5, <2>2, <2>3 DEF Restoring
  <2>5. ImportType'
    BY <1>1, <1>2, <1>4, <1>6, <1>10, <2>1 DEF ImportType
  <2> QED BY <1>1, <1>5, <1>6, <2>2, <2>4, <2>5 DEF ImportOK
<1> QED BY <1>11, <1>12

(* A commit: what was verified is an export's, so its records keep an      *)
(* export's rules, and with them the table.                                *)
LEMMA CommitImportOK ==
    ASSUME StreamOK, ImportOK, TargetOK, CommitImport
    PROVE  /\ ImportOK' /\ TargetOK'
           /\ imp.digest \in sent /\ Restored(imp.digest, imp.opts)
<1> DEFINE d == imp.digest
           chosen == {l \in Range(d) : Selected(l.row, imp.opts)}
<1>1. /\ imp.pc = "ended" /\ imp.end.digest = d
      /\ tRows' = imp.rows /\ tSeq' = SequenceAfter
      /\ imp' = NoImport /\ archived' = archived \cup IdsIn(d)
      /\ merged' = (merged \/ DOMAIN tRows # {})
  BY DEF CommitImport, Verified
<1>2. d \in sent /\ d \in Seq(RecordLine) /\ Archive(d)
  BY <1>1 DEF ImportOK, StreamOK
<1>3. /\ IsTable(imp.rows, imp.seq) /\ imp.seq \in Nat /\ imp.seq >= tSeq
      /\ OneRowPerKey(imp.rows) /\ imp.maxSeen \in Nat /\ imp.opts.reserve \in Nat
      /\ DOMAIN imp.rows = DOMAIN tRows \cup {l.id : l \in chosen}
      /\ \A i \in DOMAIN tRows : imp.rows[i] = tRows[i]
      /\ \A l \in chosen : imp.rows[l.id] = l.row
      /\ \A k \in DOMAIN d : d[k].id <= imp.maxSeen
  BY <1>1 DEF ImportOK, ImportType, Restoring, IsTable, Option
<1>4. \A k \in DOMAIN d : d[k].id \in Nat \ {0}
  <2>1. DOMAIN d = 1..Len(d)
    BY <1>2
  <2>2. \A k \in DOMAIN d : d[k] \in RecordLine
    BY <1>2, <2>1, ElementOfSeq
  <2> QED BY <2>2 DEF RecordLine
<1>5. /\ tSeq' \in Nat /\ tSeq' >= imp.seq /\ tSeq' >= imp.maxSeen
  <2> DEFINE n == Larger(imp.opts.reserve, imp.maxSeen)
  <2>1. n \in Nat /\ n >= imp.maxSeen
    BY <1>3, LargerOfTwo
  <2> HIDE DEF n
  <2>2. Larger(imp.seq, n) \in Nat /\ Larger(imp.seq, n) >= imp.seq /\ Larger(imp.seq, n) >= n
    BY <1>3, <2>1, LargerOfTwo
  <2> QED BY <1>1, <1>3, <2>1, <2>2 DEF SequenceAfter, n
<1>6. IsTable(tRows', tSeq')
  BY <1>1, <1>3, <1>5, TableGrows
<1>7. archived' \subseteq 1..tSeq'
  <2>1. archived \subseteq 1..tSeq /\ tSeq \in Nat
    BY DEF TargetOK, IsTable
  <2>2. IdsIn(d) \subseteq 1..tSeq'
    BY <1>3, <1>4, <1>5 DEF IdsIn
  <2>3. tSeq <= tSeq' /\ tSeq \in Nat /\ tSeq' \in Nat
    BY <1>3, <1>5, <2>1
  <2>4. 1..tSeq \subseteq 1..tSeq'
    BY <2>3
  <2>5. archived' = archived \cup IdsIn(d)
    BY <1>1
  <2> QED BY <2>1, <2>2, <2>4, <2>5, Zenon
<1>8. \A l \in chosen : \E k \in DOMAIN d : l = d[k]
  BY DEF Range
<1> HIDE DEF d, chosen
<1>9. ResolvedAreProcessed(imp.rows)
  <2> SUFFICES ASSUME NEW i \in DOMAIN imp.rows, imp.rows[i].resolution # Null
               PROVE  imp.rows[i].processed # Null
    BY DEF ResolvedAreProcessed
  <2>1. CASE i \in DOMAIN tRows
    BY <1>3, <2>1 DEF TargetOK, TargetRules, ResolvedAreProcessed
  <2>2. CASE \E l \in chosen : l.id = i
    BY <1>2, <1>3, <1>8, <2>2 DEF Archive
  <2> QED BY <1>3, <2>1, <2>2
<1>10. DOMAIN tRows = {} => FrictionsSpaced(imp.rows)
  <2> SUFFICES ASSUME DOMAIN tRows = {}, NEW i \in DOMAIN imp.rows, NEW j \in DOMAIN imp.rows,
                      i < j, imp.rows[i].key = NoKey, imp.rows[j].key = NoKey,
                      imp.rows[i].hash = imp.rows[j].hash
               PROVE  imp.rows[j].created > imp.rows[i].created + Window
    BY DEF FrictionsSpaced
  <2>1. PICK l \in chosen, m \in chosen : l.id = i /\ m.id = j
    BY <1>3
  <2>2. imp.rows[i] = l.row /\ imp.rows[j] = m.row
    BY <1>3, <2>1
  <2>3. PICK a \in DOMAIN d, b \in DOMAIN d : l = d[a] /\ m = d[b]
    BY <1>8
  <2> QED BY <1>2, <2>1, <2>2, <2>3 DEF Archive
<1>11. TargetRules'
  BY <1>1, <1>3, <1>9, <1>10 DEF TargetRules
<1>12. Restored(d, imp.opts)
  BY <1>1, <1>3 DEF Restored, chosen
<1> QED BY <1>1, <1>2, <1>6, <1>7, <1>11, <1>12, NoImportOK DEF TargetOK, d
(* A check that fails, and a process that dies, leave nothing.             *)
LEMMA RejectOK ==
    ASSUME Reject
    PROVE  ImportOK'
  BY NoImportOK DEF Reject

----------------------------------------------------------------------------
(* What a step of one part leaves to the others.                           *)

LEMMA SourceFrame ==
    ASSUME UNCHANGED <<source, export, past>>
    PROVE  (SourceOK => SourceOK') /\ (ExportOK => ExportOK')
  BY DEF source, SourceOK, ExportOK, ExportType

LEMMA StreamFrame ==
    ASSUME StreamOK, UNCHANGED <<file, sent>>
    PROVE  StreamOK'
  BY DEF StreamOK

(* An import under way only sees the streams sent in full grow in number.  *)
LEMMA ImportFrame ==
    ASSUME ImportOK, UNCHANGED <<imp, target>>, sent \subseteq sent'
    PROVE  ImportOK'
<1>1. imp' = imp /\ tRows' = tRows /\ tSeq' = tSeq
  BY DEF target
<1>2. imp.rest \in Seq(Trusted(sent'))
  BY TrustedGrows DEF ImportOK, ImportType
<1> QED BY <1>1, <1>2 DEF ImportOK, ImportType

LEMMA TargetFrame ==
    ASSUME TargetOK, UNCHANGED <<target, archived, merged>>
    PROVE  TargetOK'
  BY DEF target, TargetOK, TargetRules

----------------------------------------------------------------------------
(* The inductive invariant.                                                *)

LEMMA InitOK == Init => IInv
<1> SUFFICES ASSUME Init PROVE IInv
  OBVIOUS
<1>1. /\ IsTable(<<>>, 0) /\ Lawful(<<>>)
      /\ OneRowPerKey(<<>>) /\ ResolvedAreProcessed(<<>>) /\ FrictionsSpaced(<<>>)
  BY EmptyTable DEF Lawful
<1>2. SourceOK /\ TargetOK
  BY <1>1 DEF Init, SourceOK, TargetOK, TargetRules
<1>3. ExportOK
  BY EmptySeq DEF Init, NoExport, NoFilter, ExportOK, ExportType, Filter, Stamp
<1>4. StreamOK
  BY DEF Init, StreamOK
<1>5. ImportOK
  <2>1. imp = NoImport
    BY DEF Init
  <2>2. NoImport.end \in EndLine /\ NoImport.opts \in Option
    BY EmptySeq DEF NoImport, EndLine, Option
  <2>3. ImportType
    BY <1>1, <2>1, <2>2, EmptySeq DEF NoImport, ImportType
  <2> QED BY <2>1, <2>3 DEF ImportOK, NoImport
<1>6. exports \in 0..MaxExports
  BY BoundsAssumption DEF Init
<1> QED BY <1>2, <1>3, <1>4, <1>5, <1>6 DEF IInv

(* Exports are counted up to their bound.                                  *)
LEMMA ExportsCounted ==
    ASSUME exports \in 0..MaxExports, [Next]_vars
    PROVE  exports' \in 0..MaxExports
<1>1. CASE StartExport
  BY <1>1, BoundsAssumption DEF StartExport
<1>2. CASE UNCHANGED exports
  BY <1>2
<1>3. StartExport \/ UNCHANGED exports
  BY Zenon DEF Next, Create, Mark, Purge, SourceBecomes, Select, SendRow, SendEnd, CutOff,
    Damage, TargetCreate, BeginImport, ReadHeader, ReadRecord, ReadEnd, CommitImport, Reject,
    history, vars
<1> QED BY <1>1, <1>2, <1>3

LEMMA NextOK == IInv /\ [Next]_vars => IInv'
<1> SUFFICES ASSUME SourceOK, ExportOK, StreamOK, ImportOK, TargetOK, [Next]_vars
             PROVE  SourceOK' /\ ExportOK' /\ StreamOK' /\ ImportOK' /\ TargetOK'
  BY ExportsCounted, Zenon DEF IInv
<1>1. CASE Create \/ Mark \/ Purge
  <2>1. SourceOK' /\ ExportOK'
    BY <1>1, CreateOK, MarkOK, PurgeOK, Zenon
  <2>2. UNCHANGED <<file, sent, imp, target, archived, merged>>
    BY <1>1, Zenon DEF Create, Mark, Purge, SourceBecomes
  <2> QED BY <2>1, <2>2, StreamFrame, ImportFrame, TargetFrame
<1>2. CASE StartExport \/ Select \/ SendRow
  <2>1. SourceOK' /\ ExportOK'
    BY <1>2, StartExportOK, SelectOK, SendRowOK, Zenon
  <2>2. UNCHANGED <<file, sent, imp, target, archived, merged>>
    BY <1>2, Zenon DEF StartExport, Select, SendRow, history
  <2> QED BY <2>1, <2>2, StreamFrame, ImportFrame, TargetFrame
<1>3. CASE SendEnd \/ CutOff
  <2>1. SourceOK' /\ ExportOK' /\ StreamOK' /\ sent \subseteq sent'
    BY <1>3, SendEndOK, CutOffOK
  <2>2. UNCHANGED <<imp, target, archived, merged>>
    BY <1>3, Zenon DEF SendEnd, CutOff
  <2> QED BY <2>1, <2>2, ImportFrame, TargetFrame
<1>4. CASE Damage
  <2>1. StreamOK' /\ UNCHANGED sent
    BY <1>4, DamageOK
  <2>2. UNCHANGED <<source, export, past, imp, target, archived, merged>>
    BY <1>4, Zenon DEF Damage, history
  <2> QED BY <2>1, <2>2, SourceFrame, ImportFrame, TargetFrame
<1>5. CASE TargetCreate
  <2>1. ImportOK' /\ TargetOK'
    BY <1>5, TargetCreateOK, Zenon
  <2>2. UNCHANGED <<source, export, past, file, sent>>
    BY <1>5, Zenon DEF TargetCreate, history
  <2> QED BY <2>1, <2>2, SourceFrame, StreamFrame
<1>6. CASE BeginImport \/ ReadHeader \/ ReadRecord \/ ReadEnd \/ Reject
  <2>1. ImportOK'
    BY <1>6, BeginImportOK, ReadHeaderOK, ReadRecordOK, ReadEndOK, RejectOK, Zenon
  <2>2. UNCHANGED <<source, export, past, file, sent, target, archived, merged>>
    BY <1>6, Zenon DEF BeginImport, ReadHeader, ReadRecord, ReadEnd, Reject, history
  <2> QED BY <2>1, <2>2, SourceFrame, StreamFrame, TargetFrame
<1>7. CASE CommitImport
  <2>1. ImportOK' /\ TargetOK'
    BY <1>7, CommitImportOK, Zenon
  <2>2. UNCHANGED <<source, export, past, file, sent>>
    BY <1>7, Zenon DEF CommitImport
  <2> QED BY <2>1, <2>2, SourceFrame, StreamFrame
<1>8. CASE UNCHANGED vars
  <2>1. UNCHANGED <<source, export, past, file, sent, imp, target, archived, merged>>
    BY <1>8, Zenon DEF vars, history
  <2> QED BY <2>1, SourceFrame, StreamFrame, ImportFrame, TargetFrame
<1> QED BY <1>1, <1>2, <1>3, <1>4, <1>5, <1>6, <1>7, <1>8, Zenon DEF Next

(* Every reachable state keeps the invariant.                              *)
THEOREM Invariant == Spec => []IInv
<1> QED BY InitOK, NextOK, PTL DEF Spec

----------------------------------------------------------------------------
(* The theorems.                                                           *)

(* Every reachable state is well typed, and the ids of either table, and   *)
(* of the one an import builds, never pass its sequence.                   *)
THEOREM TypeCorrect == Spec => []TypeOK
<1>1. IInv => TypeOK
  <2> SUFFICES ASSUME IInv PROVE TypeOK
    OBVIOUS
  <2>1. IsTable(rows, seq) /\ IsTable(tRows, tSeq) /\ IsTable(imp.rows, imp.seq)
    BY DEF IInv, SourceOK, TargetOK, ImportOK, ImportType
  <2>2. file \in Stream \cup {NoFile} /\ imp.rest \in Stream
    BY TrustedIsStream DEF IInv, StreamOK, ImportOK, ImportType
  <2>3. sent \subseteq Seq(RecordLine)
    BY DEF IInv, StreamOK
  <2>4. /\ export.pc \in {"idle", "header", "rows"} /\ export.filter \in Filter
        /\ export.digest \in Seq(RecordLine)
    BY DEF IInv, ExportOK, ExportType
  <2>5. /\ imp.pc \in {"idle", "header", "records", "ended"}
        /\ imp.digest \in Seq(RecordLine) /\ imp.maxSeen \in Nat
        /\ imp.end \in EndLine /\ imp.opts \in Option
    BY DEF IInv, ImportOK, ImportType
  <2> QED BY <2>1, <2>2, <2>3, <2>4, <2>5, Zenon DEF TypeOK, IInv
<1> QED BY <1>1, Invariant, PTL

(* The target keeps one row per key and marks with their resolutions, and  *)
(* the spacing of frictions unless a stream was merged into its rows,      *)
(* whatever streams it was given (InsertSubmissionWithID checks only ids   *)
(* and keys).                                                              *)
THEOREM TargetKeepsRules == Spec => []TargetRules
<1>1. IInv => TargetRules
  BY Zenon DEF IInv, TargetOK
<1> QED BY <1>1, Invariant, PTL

(* An export with its terminator lists one committed state of the source,  *)
(* in the order of ids, whatever was written while it ran                  *)
(* (IterateSubmissions, exportEncoder).                                    *)
THEOREM ExportsAreOneState == Spec => ExportIsOneState
<1>1. IInv /\ [Next]_vars =>
        [sent' # sent => \E t \in past : ListsTable(Body(file'), t, export.filter)]_vars
  <2> SUFFICES ASSUME IInv, [Next]_vars, sent' # sent
               PROVE  \E t \in past : ListsTable(Body(file'), t, export.filter)
    OBVIOUS
  <2>1. SendEnd
    BY Zenon DEF Next, Create, Mark, Purge, SourceBecomes, StartExport, Select, SendRow, CutOff,
      Damage, TargetCreate, BeginImport, ReadHeader, ReadRecord, ReadEnd, CommitImport, Reject,
      history, vars
  <2> QED BY <2>1, EndedExport, Zenon DEF IInv
<1> QED BY <1>1, Invariant, PTL DEF Spec, ExportIsOneState

(* An import changes the target by the selected records of an export that  *)
(* was sent to its end, all of them at once, or not at all (importStream). *)
THEOREM ImportsRestoreExports == Spec => ImportRestoresAnExport
<1>1. IInv /\ [Next]_vars =>
        [imp.pc # "idle" /\ tRows' # tRows =>
           \E records \in sent : Restored(records, imp.opts)]_vars
  <2> SUFFICES ASSUME IInv, [Next]_vars, imp.pc # "idle", tRows' # tRows
               PROVE  \E records \in sent : Restored(records, imp.opts)
    OBVIOUS
  <2>1. CommitImport
    BY Zenon DEF Next, Create, Mark, Purge, SourceBecomes, StartExport, Select, SendRow, SendEnd,
      CutOff, Damage, TargetCreate, BeginImport, ReadHeader, ReadRecord, ReadEnd, Reject,
      target, vars
  <2>2. imp.digest \in sent /\ Restored(imp.digest, imp.opts)
    BY <2>1, CommitImportOK, Zenon DEF IInv
  <2> QED BY <2>2, Zenon
<1> QED BY <1>1, Invariant, PTL DEF Spec, ImportRestoresAnExport

(* The target gives none of its own submissions an id that an imported     *)
(* stream carried, its record imported or skipped (SetSequence).           *)
THEOREM ArchivedIdsRetired == Spec => ArchivedIdsStayRetired
<1>1. IInv /\ [Next]_vars =>
        [imp.pc = "idle" => (DOMAIN tRows' \ DOMAIN tRows) \cap archived = {}]_vars
  <2> SUFFICES ASSUME IInv, [Next]_vars, imp.pc = "idle"
               PROVE  (DOMAIN tRows' \ DOMAIN tRows) \cap archived = {}
    OBVIOUS
  <2>1. CASE TargetCreate
    <3>1. DOMAIN tRows' = DOMAIN tRows \cup {tSeq + 1}
      BY <2>1, TargetCreateOK, Zenon DEF IInv
    <3>2. archived \subseteq 1..tSeq /\ tSeq \in Nat
      BY DEF IInv, TargetOK, IsTable
    <3>3. tSeq + 1 \notin archived
      BY <3>2
    <3> QED BY <3>1, <3>3
  <2>2. CASE UNCHANGED tRows
    BY <2>2
  <2>3. ~CommitImport
    BY DEF CommitImport, Verified
  <2>4. TargetCreate \/ UNCHANGED tRows
    BY <2>3, Zenon DEF Next, Create, Mark, Purge, SourceBecomes, StartExport, Select, SendRow,
      SendEnd, CutOff, Damage, BeginImport, ReadHeader, ReadRecord, ReadEnd, Reject, target, vars
  <2> QED BY <2>1, <2>2, <2>4
<1> QED BY <1>1, Invariant, PTL DEF Spec, ArchivedIdsStayRetired
============================================================================
