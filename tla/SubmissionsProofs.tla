------------------------- MODULE SubmissionsProofs -------------------------
(***************************************************************************)
(* Lemmas about the table operators of Submissions: what an insert, a      *)
(* batch update and a purge preserve.  They are what the proofs about the  *)
(* modules built from these operators rest on.                             *)
(***************************************************************************)
EXTENDS Submissions, TLAPS

(* The empty table of a new database keeps every rule.                     *)
LEMMA EmptyTable ==
    /\ IsTable(<<>>, 0)
    /\ OneRowPerKey(<<>>)
    /\ FrictionsSpaced(<<>>)
    /\ ResolvedAreProcessed(<<>>)
  <1>1. DOMAIN <<>> = {}
    OBVIOUS
  <1>2. <<>> \in [DOMAIN <<>> -> Row]
    BY <1>1
  <1> QED
    BY <1>1, <1>2 DEF IsTable, OneRowPerKey, FrictionsSpaced, ResolvedAreProcessed

(* A row inserted under the next id of the sequence makes a table again.   *)
LEMMA InsertedIsTable ==
    ASSUME NEW rows, NEW seq, IsTable(rows, seq), NEW row \in Row
    PROVE  IsTable(Inserted(rows, seq + 1, row), seq + 1)
  <1> DEFINE new == Inserted(rows, seq + 1, row)
  <1>1. DOMAIN new = DOMAIN rows \cup {seq + 1}
    BY DEF Inserted
  <1>2. DOMAIN new \subseteq 1..(seq + 1)
    BY <1>1 DEF IsTable
  <1>3. new \in [DOMAIN new -> Row]
    BY <1>1 DEF IsTable, Inserted
  <1> QED
    BY <1>2, <1>3 DEF IsTable

(* Applying a batch keeps the ids and the types.                           *)
LEMMA AppliedIsTable ==
    ASSUME NEW rows, NEW seq, IsTable(rows, seq),
           NEW ids, NEW p \in ProcessRequest, NEW now \in Int
    PROVE  IsTable(Applied(rows, ids, p, now), seq)
  <1> DEFINE new == Applied(rows, ids, p, now)
  <1>1. DOMAIN new = DOMAIN rows
    BY DEF Applied
  <1>2. ASSUME NEW i \in DOMAIN rows
        PROVE  new[i] \in Row
    <2> DEFINE row == rows[i]
    <2>1. row \in Row
      BY DEF IsTable
    <2>2. p.processed \in BOOLEAN /\ p.resolution \in AnyResolution
      BY DEF ProcessRequest
    <2>3. Marked(row, now, p.resolution) \in Row
      BY <2>1, <2>2 DEF Marked, Row, Stamp
    <2>4. Unmarked(row) \in Row
      BY <2>1 DEF Unmarked, Row, Stamp, AnyResolution
    <2> QED
      BY <2>1, <2>2, <2>3, <2>4 DEF Applied
  <1>3. new \in [DOMAIN new -> Row]
    BY <1>1, <1>2 DEF Applied
  <1> QED
    BY <1>1, <1>3 DEF IsTable

(* What a batch may change of a row: its mark and its resolution.          *)
LEMMA AppliedContent ==
    ASSUME NEW rows, NEW seq, IsTable(rows, seq),
           NEW ids, NEW p \in ProcessRequest, NEW now
    PROVE  /\ DOMAIN Applied(rows, ids, p, now) = DOMAIN rows
           /\ \A i \in DOMAIN rows :
                /\ Applied(rows, ids, p, now)[i].key = rows[i].key
                /\ Applied(rows, ids, p, now)[i].hash = rows[i].hash
                /\ Applied(rows, ids, p, now)[i].created = rows[i].created
  <1> DEFINE new == Applied(rows, ids, p, now)
  <1>1. DOMAIN new = DOMAIN rows
    BY DEF Applied
  <1>2. ASSUME NEW i \in DOMAIN rows
        PROVE  /\ new[i].key = rows[i].key
               /\ new[i].hash = rows[i].hash
               /\ new[i].created = rows[i].created
    <2>1. rows[i] \in Row /\ p.processed \in BOOLEAN
      BY DEF IsTable, ProcessRequest
    <2> QED
      BY <2>1 DEF Applied, Marked, Unmarked, Row
  <1> QED
    BY <1>1, <1>2

(* A purge leaves the rows it keeps as they are.                           *)
LEMMA WithoutIsTable ==
    ASSUME NEW rows, NEW seq, IsTable(rows, seq), NEW ids
    PROVE  IsTable(Without(rows, ids), seq)
  <1>1. DOMAIN Without(rows, ids) = DOMAIN rows \ ids
    BY DEF Without
  <1> QED
    BY <1>1 DEF Without, IsTable

----------------------------------------------------------------------------
(* An insert under a key no row has leaves one row per key; a friction's   *)
(* insert, which has no key, always does.                                  *)
LEMMA InsertedKeepsKeys ==
    ASSUME NEW rows, NEW seq, IsTable(rows, seq), OneRowPerKey(rows),
           NEW row \in Row,
           row.key = NoKey \/ IdsWithKey(rows, row.key) = {}
    PROVE  OneRowPerKey(Inserted(rows, seq + 1, row))
  <1> DEFINE new == Inserted(rows, seq + 1, row)
  <1>1. DOMAIN new = DOMAIN rows \cup {seq + 1} /\ seq + 1 \notin DOMAIN rows
    BY DEF Inserted, IsTable
  <1>2. /\ new[seq + 1] = row
        /\ \A i \in DOMAIN rows : new[i] = rows[i]
    BY <1>1 DEF Inserted
  <1> QED
    BY <1>1, <1>2 DEF OneRowPerKey, IdsWithKey

(* A friction inserted with the reading of the clock its lookup used, when *)
(* that found nothing recent, stands more than a window after every        *)
(* friction with its content: those the clock put later, after a step      *)
(* back, would have counted as recent.                                     *)
LEMMA InsertedKeepsSpacing ==
    ASSUME NEW rows, NEW seq, IsTable(rows, seq), FrictionsSpaced(rows),
           NEW row \in Row,
           row.key = NoKey
             => RecentFrictions(rows, row.hash, row.created - Window) = {}
    PROVE  FrictionsSpaced(Inserted(rows, seq + 1, row))
  <1> DEFINE new == Inserted(rows, seq + 1, row)
  <1>1. DOMAIN new = DOMAIN rows \cup {seq + 1} /\ seq + 1 \notin DOMAIN rows
    BY DEF Inserted, IsTable
  <1>2. /\ new[seq + 1] = row
        /\ \A i \in DOMAIN rows : new[i] = rows[i]
    BY <1>1 DEF Inserted
  <1>3. SUFFICES ASSUME NEW i \in DOMAIN new, NEW j \in DOMAIN new, i < j,
                        new[i].key = NoKey, new[j].key = NoKey,
                        new[i].hash = new[j].hash
                 PROVE  new[j].created > new[i].created + Window
    BY DEF FrictionsSpaced
  <1>4. i \in DOMAIN rows
    BY <1>1, <1>3 DEF IsTable
  <1>5. CASE j \in DOMAIN rows
    BY <1>2, <1>3, <1>4, <1>5 DEF FrictionsSpaced
  <1>6. CASE j = seq + 1
    <2>1. ~(rows[i].created >= row.created - Window)
      BY <1>2, <1>3, <1>4, <1>6 DEF RecentFrictions
    <2>2. rows[i].created \in Int /\ row.created \in Int /\ Window \in Int
      BY <1>4, TimesAssumption DEF IsTable, Row
    <2> QED
      BY <1>2, <1>4, <1>6, <2>1, <2>2
  <1> QED
    BY <1>1, <1>3, <1>5, <1>6

(* A new row carries no resolution.                                        *)
LEMMA InsertedKeepsResolved ==
    ASSUME NEW rows, NEW seq, IsTable(rows, seq), ResolvedAreProcessed(rows),
           NEW key, NEW hash, NEW now
    PROVE  ResolvedAreProcessed(Inserted(rows, seq + 1, NewRow(key, hash, now)))
  <1> DEFINE new == Inserted(rows, seq + 1, NewRow(key, hash, now))
  <1>1. DOMAIN new = DOMAIN rows \cup {seq + 1} /\ seq + 1 \notin DOMAIN rows
    BY DEF Inserted, IsTable
  <1>2. /\ new[seq + 1].resolution = Null
        /\ \A i \in DOMAIN rows : new[i] = rows[i]
    BY <1>1 DEF Inserted, NewRow
  <1> QED
    BY <1>1, <1>2 DEF ResolvedAreProcessed

(* The rules about keys and spacing do not look at marks.                  *)
LEMMA AppliedKeepsKeysAndSpacing ==
    ASSUME NEW rows, NEW seq, IsTable(rows, seq),
           NEW ids, NEW p \in ProcessRequest, NEW now
    PROVE  /\ OneRowPerKey(rows) => OneRowPerKey(Applied(rows, ids, p, now))
           /\ FrictionsSpaced(rows) => FrictionsSpaced(Applied(rows, ids, p, now))
  BY AppliedContent DEF OneRowPerKey, FrictionsSpaced

(* A mark sets the timestamp it finds empty, an undo clears both columns:  *)
(* neither leaves a resolution on an unprocessed row.                      *)
LEMMA AppliedKeepsResolved ==
    ASSUME NEW rows, NEW seq, IsTable(rows, seq), ResolvedAreProcessed(rows),
           NEW ids, NEW p \in ProcessRequest, NEW now \in Int
    PROVE  ResolvedAreProcessed(Applied(rows, ids, p, now))
  <1> DEFINE new == Applied(rows, ids, p, now)
  <1>1. SUFFICES ASSUME NEW i \in DOMAIN rows, new[i].resolution # Null
                 PROVE  new[i].processed # Null
    BY DEF ResolvedAreProcessed, Applied
  <1>2. rows[i] \in Row /\ p.processed \in BOOLEAN /\ now # Null
    BY NullAssumption DEF IsTable, ProcessRequest
  <1>3. CASE i \notin ids
    BY <1>1, <1>3 DEF Applied, ResolvedAreProcessed
  <1>4. CASE i \in ids /\ p.processed
    <2>1. new[i] = Marked(rows[i], now, p.resolution)
      BY <1>4 DEF Applied
    <2> QED
      BY <1>2, <2>1 DEF Marked, Row
  <1>5. CASE i \in ids /\ ~p.processed
    <2>1. new[i] = Unmarked(rows[i])
      BY <1>5 DEF Applied
    <2> QED
      BY <1>1, <1>2, <2>1 DEF Unmarked, Row
  <1> QED
    BY <1>2, <1>3, <1>4, <1>5

(* Every rule speaks of rows that are there, so a purge keeps them all.    *)
LEMMA WithoutKeepsRules ==
    ASSUME NEW rows, NEW seq, IsTable(rows, seq), NEW ids
    PROVE  /\ OneRowPerKey(rows) => OneRowPerKey(Without(rows, ids))
           /\ FrictionsSpaced(rows) => FrictionsSpaced(Without(rows, ids))
           /\ ResolvedAreProcessed(rows) => ResolvedAreProcessed(Without(rows, ids))
  BY DEF Without, OneRowPerKey, FrictionsSpaced, ResolvedAreProcessed
============================================================================
