-------------------------- MODULE WritePathProofs --------------------------
(***************************************************************************)
(* Proofs about WritePath, for any number of requests and servers, any     *)
(* inputs and any clock.  The heart is the inductive invariant IInv: who   *)
(* is inside a transaction is alone there, what its lookup found is still  *)
(* so when it inserts, and the table it sees extends the committed one.    *)
(***************************************************************************)
EXTENDS WritePath, SubmissionsProofs

(* The rules of the table, of the committed one and of the one the open    *)
(* transaction is about to commit.                                         *)
Rules(t) == OneRowPerKey(t) /\ FrictionsSpaced(t) /\ ResolvedAreProcessed(t)

(* The open transaction's table extends the committed one: no row of it is *)
(* lost or rewritten, and new rows have ids above every committed id.      *)
TxExtends ==
    /\ seq <= txSeq
    /\ \A i \in DOMAIN rows : i \in DOMAIN txRows /\ SameContent(rows[i], txRows[i])
    /\ \A i \in DOMAIN txRows \ DOMAIN rows : i > seq

(* Only a batch reaches the update statements.                             *)
ApplyIsBatch == \A r \in Requests : pc[r] = "apply" => IsBatch(r)

(* A submission about to commit holds an answer its table bears out.       *)
CommitTruthful ==
    \A r \in Requests :
        pc[r] = "commit" /\ IsSubmit(r) =>
          /\ reply[r].status # "mismatch"
          /\ reply[r].id \in DOMAIN txRows
          /\ txRows[reply[r].id].key = input[r].key
          /\ txRows[reply[r].id].hash = input[r].hash

IInv ==
    /\ TypeOK
    /\ Isolation
    /\ OneConnection
    /\ CheckHoldsAtInsert
    /\ Rules(rows)
    /\ Rules(txRows)
    /\ TxExtends
    /\ ApplyIsBatch
    /\ CommitTruthful
    /\ AnswersTruthful

----------------------------------------------------------------------------
(* What the body of a request that was sent looks like.                    *)
LEMMA InputKinds ==
    ASSUME TypeOK, NEW r \in Requests, pc[r] # "idle"
    PROVE  /\ input[r] \in SubmitRequest \cup ProcessRequest
           /\ IsSubmit(r) => input[r] \in SubmitRequest
           /\ IsBatch(r) => input[r] \in ProcessRequest
           /\ IsSubmit(r) <=> ~IsBatch(r)
           /\ IsSubmit(r) <=> IsKeyed(r) \/ IsFriction(r)
           /\ ~(IsKeyed(r) /\ IsFriction(r))
  <1>1. input[r] \in SubmitRequest \cup ProcessRequest
    BY InputsAssumption DEF TypeOK
  <1>2. CASE input[r] \in SubmitRequest
    BY <1>2 DEF SubmitRequest, IsSubmit, IsBatch, IsKeyed, IsFriction
  <1>3. CASE input[r] \in ProcessRequest
    BY <1>3 DEF ProcessRequest, IsSubmit, IsBatch, IsKeyed, IsFriction
  <1> QED
    BY <1>1, <1>2, <1>3

(* A new database satisfies the invariant.                                 *)
LEMMA InitIInv == Init => IInv
  <1> SUFFICES ASSUME Init PROVE IInv
    OBVIOUS
  <1>1. IsTable(rows, seq) /\ IsTable(txRows, txSeq) /\ Rules(rows) /\ Rules(txRows)
    BY EmptyTable DEF Init, Rules
  <1>2. TypeOK
    BY <1>1 DEF Init, TypeOK, PC, Stamp
  <1>3. Isolation /\ OneConnection
    BY NobodyAssumption DEF Init, Isolation, OneConnection, InTx
  <1>4. CheckHoldsAtInsert /\ ApplyIsBatch /\ CommitTruthful /\ AnswersTruthful
    BY DEF Init, CheckHoldsAtInsert, ApplyIsBatch, CommitTruthful, AnswersTruthful
  <1>5. TxExtends
    <2>1. DOMAIN rows = {} /\ DOMAIN txRows = {}
      BY DEF Init
    <2> QED
      BY <2>1 DEF Init, TxExtends
  <1> QED
    BY <1>1, <1>2, <1>3, <1>4, <1>5 DEF IInv

(* A client sends a request, or sends a failed one again: nothing the      *)
(* server keeps changes.                                                   *)
LEMMA SendKeeps ==
    ASSUME IInv, NEW r \in Requests, Send(r)
    PROVE  IInv'
  <1>a. \A q \in Requests : Inputs[q] \subseteq SubmitRequest \cup ProcessRequest
    BY InputsAssumption
  <1>1. TypeOK'
    BY <1>a DEF IInv, TypeOK, Send, GoTo, PC, Waiting, table
  <1>2. Isolation'
    BY DEF IInv, TypeOK, Isolation, Send, GoTo, InTx, table
  <1>3. OneConnection'
    BY DEF IInv, TypeOK, OneConnection, Send, GoTo, InTx, table
  <1>4. /\ \A q \in Requests : pc'[q] # "queued" => pc'[q] = pc[q] /\ input'[q] = input[q]
        /\ UNCHANGED <<table, lock, reply, now>>
    BY DEF IInv, TypeOK, Send, GoTo, table
  <1>5. CheckHoldsAtInsert'
    BY <1>4 DEF IInv, CheckHoldsAtInsert, IsKeyed, IsFriction, IsSubmit, table
  <1>6. ApplyIsBatch' /\ CommitTruthful' /\ AnswersTruthful'
    BY <1>4 DEF IInv, ApplyIsBatch, CommitTruthful, AnswersTruthful, IsBatch, IsSubmit, table
  <1>7. Rules(rows)' /\ Rules(txRows)' /\ TxExtends'
    BY <1>4 DEF IInv, Rules, TxExtends, table
  <1> QED
    BY <1>1, <1>2, <1>3, <1>5, <1>6, <1>7 DEF IInv

----------------------------------------------------------------------------
(* The steps into a transaction and out of one that failed.                *)

(* The handler gets its server's only writer connection, which nobody had. *)
LEMMA TakeConnectionKeeps ==
    ASSUME IInv, NEW r \in Requests, TakeConnection(r)
    PROVE  IInv'
  <1>1. TypeOK'
    BY ServersAssumption
    DEF IInv, TypeOK, TakeConnection, GoTo, PC, Waiting, table, client
  <1>2. Isolation'
    BY DEF IInv, TypeOK, Isolation, TakeConnection, GoTo, InTx, table
  <1>3. OneConnection'
    BY ServersAssumption, NobodyAssumption
    DEF IInv, TypeOK, OneConnection, TakeConnection, GoTo, InTx, Waiting
  <1>4. /\ \A q \in Requests : pc'[q] # "begin" => pc'[q] = pc[q]
        /\ UNCHANGED <<table, lock, reply, now, input>>
    BY DEF IInv, TypeOK, TakeConnection, GoTo, client
  <1>5. CheckHoldsAtInsert'
    BY <1>4 DEF IInv, CheckHoldsAtInsert, IsKeyed, IsFriction, IsSubmit, table
  <1>6. ApplyIsBatch' /\ CommitTruthful' /\ AnswersTruthful'
    BY <1>4 DEF IInv, ApplyIsBatch, CommitTruthful, AnswersTruthful, IsBatch, IsSubmit, table
  <1>7. Rules(rows)' /\ Rules(txRows)' /\ TxExtends'
    BY <1>4 DEF IInv, Rules, TxExtends, table
  <1> QED
    BY <1>1, <1>2, <1>3, <1>5, <1>6, <1>7 DEF IInv

(* BEGIN IMMEDIATE: the request that finds the write lock free becomes its *)
(* holder and sees the committed table.                                    *)
LEMMA BeginKeeps ==
    ASSUME IInv, NEW r \in Requests, BeginImmediate(r)
    PROVE  IInv'
  <1>1. TypeOK'
    BY DEF IInv, TypeOK, BeginImmediate, GoTo, PC, InTx, table, client
  <1>2. Isolation'
    BY NobodyAssumption
    DEF IInv, TypeOK, Isolation, BeginImmediate, GoTo, InTx, table
  <1>3. OneConnection'
    BY DEF IInv, TypeOK, OneConnection, BeginImmediate, GoTo, InTx
  <1>4. /\ \A q \in Requests : pc'[q] # "lookup" => pc'[q] = pc[q]
        /\ UNCHANGED <<table, reply, now, input>>
    BY DEF IInv, TypeOK, BeginImmediate, GoTo, client
  <1>5. CheckHoldsAtInsert'
    BY <1>4 DEF IInv, CheckHoldsAtInsert, IsKeyed, IsFriction, IsSubmit, table
  <1>6. ApplyIsBatch' /\ CommitTruthful' /\ AnswersTruthful'
    BY <1>4 DEF IInv, ApplyIsBatch, CommitTruthful, AnswersTruthful, IsBatch, IsSubmit, table
  <1>7. Rules(rows)' /\ Rules(txRows)' /\ TxExtends'
    BY <1>4 DEF IInv, Rules, TxExtends, table
  <1> QED
    BY <1>1, <1>2, <1>3, <1>5, <1>6, <1>7 DEF IInv

(* A committed row has the content of itself: a rolled-back transaction    *)
(* leaves a table that extends the committed one.                          *)
LEMMA RolledBackExtends ==
    ASSUME IsTable(rows, seq), txRows' = rows, txSeq' = seq, rows' = rows, seq' = seq
    PROVE  TxExtends'
  BY DEF IsTable, TxExtends, SameContent

(* A rollback forgets what the lock's holder wrote and leaves the lock to  *)
(* nobody that rolled back.                                                *)
LEMMA ReleasedKeeps ==
    ASSUME IInv, NEW S, Released(S)
    PROVE  /\ IsTable(rows, seq)' /\ IsTable(txRows, txSeq)'
           /\ Rules(rows)' /\ Rules(txRows)' /\ TxExtends'
  <1>1. CASE lock \in S
    BY <1>1, RolledBackExtends DEF IInv, TypeOK, Released, Rules
  <1>2. CASE lock \notin S
    BY <1>2 DEF IInv, TypeOK, Released, Rules, TxExtends
  <1> QED
    BY <1>1, <1>2

(* Requests fail, all those of a crashed process at once: what they wrote  *)
(* is dropped, whatever their stage.                                       *)
LEMMA FailedKeeps ==
    ASSUME IInv, NEW S, S \subseteq Requests, Failed(S),
           \A r \in S : pc[r] \in Waiting \cup InTx \cup {"answer"}
    PROVE  IInv'
  <1>1. /\ IsTable(rows, seq)' /\ IsTable(txRows, txSeq)'
        /\ Rules(rows)' /\ Rules(txRows)' /\ TxExtends'
    BY ReleasedKeeps DEF Failed
  <1>2. TypeOK'
    BY <1>1 DEF IInv, TypeOK, Failed, Released, PC, Ended, Waiting, InTx, Stamp, client
  <1>3. Isolation'
    <2>1. lock' = IF lock \in S THEN Nobody ELSE lock
      BY DEF Failed, Released
    <2>2. pc' = [r \in Requests |-> IF r \in S THEN "failed" ELSE pc[r]]
      BY DEF Failed
    <2>3. \A r \in Requests : pc'[r] \in InTx <=> lock' = r
      BY <2>1, <2>2, NobodyAssumption DEF IInv, Isolation, InTx
    <2>4. CASE lock \in S
      BY <2>1, <2>3, <2>4 DEF IInv, Isolation, Failed, Released
    <2>5. CASE lock \notin S
      BY <2>1, <2>2, <2>3, <2>5 DEF IInv, TypeOK, Isolation, Failed, Released
    <2> QED
      BY <2>4, <2>5
  <1>4. OneConnection'
    BY NobodyAssumption DEF IInv, TypeOK, OneConnection, Failed, Released, InTx
  <1>5. ASSUME NEW q \in Requests, pc'[q] # "failed"
        PROVE  /\ pc'[q] = pc[q] /\ input'[q] = input[q]
               /\ reply'[q] = reply[q] /\ now'[q] = now[q]
               /\ pc[q] \in InTx => txRows' = txRows
    BY <1>5 DEF IInv, Isolation, Failed, Released, client
  <1>6. CheckHoldsAtInsert'
    BY <1>5 DEF IInv, CheckHoldsAtInsert, IsKeyed, IsFriction, IsSubmit, InTx
  <1>7. ApplyIsBatch'
    BY <1>5 DEF IInv, ApplyIsBatch, IsBatch
  <1>8. CommitTruthful'
    BY <1>5 DEF IInv, CommitTruthful, IsSubmit, InTx
  <1>9. AnswersTruthful'
    <2>1. UNCHANGED <<rows, purged>>
      BY DEF Failed, Released
    <2> QED
      BY <1>5, <2>1 DEF IInv, AnswersTruthful, IsSubmit
  <1> QED
    BY <1>1, <1>2, <1>3, <1>4, <1>6, <1>7, <1>8, <1>9 DEF IInv

----------------------------------------------------------------------------
(* The steps inside a transaction.                                         *)

(* A handler that moves on inside its transaction leaves everyone else     *)
(* where they are: lock and connection stay, the other answers too.        *)
LEMMA InsideKeeps ==
    ASSUME IInv, NEW r \in Requests, pc[r] \in InTx \ {"commit"},
           NEW label \in InTx, GoTo(r, label),
           UNCHANGED <<rows, seq, purged, lock, conn, client>>,
           UNCHANGED <<txRows, txSeq>> \/ label = "commit",
           \A q \in Requests \ {r} : reply'[q] = reply[q]
    PROVE  /\ Isolation' /\ OneConnection' /\ AnswersTruthful'
           /\ pc'[r] = label /\ lock = r
           /\ \A q \in Requests : q # r => pc'[q] = pc[q] /\ pc[q] \notin InTx
  <1>1. /\ pc'[r] = label /\ lock = r
        /\ \A q \in Requests : q # r => pc'[q] = pc[q] /\ pc[q] \notin InTx
    BY DEF IInv, TypeOK, Isolation, GoTo
  <1>2. Isolation'
    BY <1>1, NobodyAssumption DEF IInv, Isolation, InTx
  <1>3. OneConnection'
    BY <1>1 DEF IInv, OneConnection
  <1>4. AnswersTruthful'
    BY <1>1 DEF IInv, AnswersTruthful, IsSubmit, InTx, client
  <1> QED
    BY <1>1, <1>2, <1>3, <1>4

(* createKeyed's lookup: its three outcomes leave what the insert or the   *)
(* answer needs to be true.                                                *)
LEMMA LookupKeyKeeps ==
    ASSUME IInv, NEW r \in Requests, LookupKey(r)
    PROVE  IInv'
  <1> DEFINE found == IdsWithKey(txRows, input[r].key)
  <1>1. /\ pc[r] = "lookup" /\ IsKeyed(r) /\ IsSubmit(r)
        /\ UNCHANGED <<client, now>>
        /\ lock = r
    BY DEF LookupKey, IsKeyed, IInv, Isolation, InTx
  <1>2. IsTable(rows, seq) /\ IsTable(txRows, txSeq)
    BY DEF IInv, TypeOK
  <1>3. CASE /\ found = {}
             /\ GoTo(r, "insert")
             /\ UNCHANGED <<table, lock, conn, reply>>
    <2>1. /\ Isolation' /\ OneConnection' /\ AnswersTruthful'
          /\ pc'[r] = "insert"
          /\ \A q \in Requests : q # r => pc'[q] = pc[q] /\ pc[q] \notin InTx
      BY <1>1, <1>3, InsideKeeps DEF InTx, table
    <2>2. TypeOK'
      BY <1>1, <1>3 DEF IInv, TypeOK, GoTo, PC, InTx, table, client
    <2>3. CheckHoldsAtInsert'
      BY <1>1, <1>3, <2>1
      DEF IInv, CheckHoldsAtInsert, InTx, IsKeyed, IsFriction, IsSubmit, table, client
    <2>4. ApplyIsBatch' /\ CommitTruthful'
      BY <1>1, <1>3, <2>1 DEF IInv, ApplyIsBatch, CommitTruthful, InTx, IsBatch, IsSubmit
    <2>5. Rules(rows)' /\ Rules(txRows)' /\ TxExtends'
      BY <1>3 DEF IInv, Rules, TxExtends, table
    <2> QED
      BY <2>1, <2>2, <2>3, <2>4, <2>5 DEF IInv
  <1>4. ASSUME NEW i \in found, txRows[i].hash = input[r].hash,
               Answered(r, "existing", i), GoTo(r, "commit"),
               UNCHANGED <<table, lock, conn>>
        PROVE  IInv'
    <2>1. /\ Isolation' /\ OneConnection' /\ AnswersTruthful'
          /\ pc'[r] = "commit"
          /\ \A q \in Requests : q # r => pc'[q] = pc[q] /\ pc[q] \notin InTx
      BY <1>1, <1>4, InsideKeeps DEF InTx, table, Answered, IInv, TypeOK
    <2>2. i \in Nat /\ i \in DOMAIN txRows /\ txRows[i].key = input[r].key
      BY <1>2, <1>4 DEF IdsWithKey, IsTable
    <2>3. reply' = [reply EXCEPT ![r] = [status |-> "existing", id |-> i]]
      BY <1>4 DEF Answered
    <2>4. [status |-> "existing", id |-> i] \in Reply
      BY <2>2 DEF Reply
    <2>5. TypeOK'
      BY <1>1, <1>4, <2>3, <2>4 DEF IInv, TypeOK, GoTo, PC, InTx, table, client
    <2>6. CheckHoldsAtInsert' /\ ApplyIsBatch'
      BY <2>1 DEF IInv, CheckHoldsAtInsert, ApplyIsBatch, InTx
    <2>7. CommitTruthful'
      BY <1>1, <1>4, <2>1, <2>2, <2>3
      DEF IInv, TypeOK, CommitTruthful, InTx, table, client
    <2>8. Rules(rows)' /\ Rules(txRows)' /\ TxExtends'
      BY <1>4 DEF IInv, Rules, TxExtends, table
    <2> QED
      BY <2>1, <2>5, <2>6, <2>7, <2>8 DEF IInv
  <1>5. ASSUME NEW i \in found, txRows[i].hash # input[r].hash,
               Answered(r, "mismatch", i), GoTo(r, "answer"), Released({r})
        PROVE  IInv'
    <2>1. /\ IsTable(rows, seq)' /\ IsTable(txRows, txSeq)'
          /\ Rules(rows)' /\ Rules(txRows)' /\ TxExtends'
      BY <1>5, ReleasedKeeps
    <2>2. /\ i \in Nat /\ i \in DOMAIN rows
          /\ rows[i].key = input[r].key /\ rows[i].hash # input[r].hash
      BY <1>1, <1>2, <1>5 DEF IdsWithKey, IsTable, IInv, Isolation
    <2>3. reply' = [reply EXCEPT ![r] = [status |-> "mismatch", id |-> i]]
      BY <1>5 DEF Answered
    <2>4. [status |-> "mismatch", id |-> i] \in Reply
      BY <2>2 DEF Reply
    <2>5. TypeOK'
      BY <1>1, <1>5, <2>1, <2>3, <2>4 DEF IInv, TypeOK, GoTo, PC, Released, client
    <2>6. /\ pc'[r] = "answer" /\ lock' = Nobody
          /\ \A q \in Requests : q # r => pc'[q] = pc[q] /\ pc[q] \notin InTx
          /\ UNCHANGED <<rows, purged>>
      BY <1>1, <1>5 DEF IInv, TypeOK, Isolation, GoTo, Released
    <2>7. Isolation'
      BY <1>1, <1>5, <2>6, NobodyAssumption DEF IInv, Isolation, InTx, Released
    <2>8. OneConnection'
      BY <1>1, <1>5, <2>6, NobodyAssumption DEF IInv, TypeOK, OneConnection, InTx, Released
    <2>9. CheckHoldsAtInsert' /\ ApplyIsBatch' /\ CommitTruthful'
      BY <2>6 DEF IInv, CheckHoldsAtInsert, ApplyIsBatch, CommitTruthful, InTx
    <2>10. AnswersTruthful'
      BY <1>1, <2>2, <2>3, <2>6 DEF IInv, TypeOK, AnswersTruthful, IsSubmit, client
    <2> QED
      BY <2>1, <2>5, <2>7, <2>8, <2>9, <2>10 DEF IInv
  <1> QED
    BY <1>3, <1>4, <1>5 DEF LookupKey

(* Both inserts: what the lookup found (or did not find) is what the rules *)
(* need of the new row.                                                    *)
LEMMA InsertKeeps ==
    ASSUME IInv, NEW r \in Requests, pc[r] = "insert",
           NEW created \in Int, Insert(r, created),
           input[r].key = NoKey
             => RecentFrictions(txRows, input[r].hash, created - Window) = {},
           input[r].key # NoKey => IdsWithKey(txRows, input[r].key) = {}
    PROVE  IInv'
  <1> DEFINE row == NewRow(input[r].key, input[r].hash, created)
  <1>1. /\ IsTable(rows, seq) /\ IsTable(txRows, txSeq) /\ seq <= txSeq
        /\ seq \in Nat /\ txSeq \in Nat
        /\ input[r] \in SubmitRequest /\ IsSubmit(r)
    BY InputKinds DEF IInv, TypeOK, TxExtends, IsTable, CheckHoldsAtInsert, IsKeyed, IsFriction
  <1>2. row \in Row /\ row.key = input[r].key /\ row.hash = input[r].hash
        /\ row.created = created
    BY <1>1 DEF NewRow, Row, SubmitRequest, AnyKey, AnyResolution, Stamp
  <1>3. /\ txRows' = Inserted(txRows, txSeq + 1, row) /\ txSeq' = txSeq + 1
        /\ reply' = [reply EXCEPT ![r] = [status |-> "created", id |-> txSeq + 1]]
        /\ GoTo(r, "commit")
        /\ UNCHANGED <<rows, seq, purged, lock, conn, client, now>>
    BY DEF Insert, Answered
  <1>4. /\ DOMAIN txRows' = DOMAIN txRows \cup {txSeq + 1}
        /\ txRows'[txSeq + 1] = row
        /\ \A i \in DOMAIN txRows : txRows'[i] = txRows[i] /\ i # txSeq + 1
    BY <1>1, <1>3 DEF Inserted, IsTable
  <1>5. IsTable(rows, seq)' /\ IsTable(txRows, txSeq)'
    BY <1>1, <1>2, <1>3, InsertedIsTable
  <1>6. Rules(rows)' /\ Rules(txRows)'
    <2>1. OneRowPerKey(txRows) /\ FrictionsSpaced(txRows) /\ ResolvedAreProcessed(txRows)
      BY DEF IInv, Rules
    <2>2. OneRowPerKey(txRows')
      BY <1>1, <1>2, <1>3, <2>1, InsertedKeepsKeys
    <2>3. FrictionsSpaced(txRows')
      BY <1>1, <1>2, <1>3, <2>1, InsertedKeepsSpacing
    <2>4. ResolvedAreProcessed(txRows')
      BY <1>1, <1>3, <2>1, InsertedKeepsResolved
    <2> QED
      BY <1>3, <2>2, <2>3, <2>4 DEF IInv, Rules
  <1>7. TxExtends'
    BY <1>1, <1>3, <1>4 DEF IInv, TxExtends, SameContent
  <1>8. /\ Isolation' /\ OneConnection' /\ AnswersTruthful'
        /\ pc'[r] = "commit"
        /\ \A q \in Requests : q # r => pc'[q] = pc[q] /\ pc[q] \notin InTx
    BY <1>3, InsideKeeps DEF InTx, IInv, TypeOK
  <1>9. TypeOK'
    <2>1. [status |-> "created", id |-> txSeq + 1] \in Reply
      BY <1>1 DEF Reply
    <2> QED
      BY <1>1, <1>3, <1>5, <2>1 DEF IInv, TypeOK, GoTo, PC, InTx, client
  <1>10. CheckHoldsAtInsert' /\ ApplyIsBatch'
    BY <1>8 DEF IInv, CheckHoldsAtInsert, ApplyIsBatch, InTx
  <1>11. CommitTruthful'
    BY <1>2, <1>3, <1>4, <1>8 DEF IInv, TypeOK, CommitTruthful, InTx, client
  <1> QED
    BY <1>5, <1>6, <1>7, <1>8, <1>9, <1>10, <1>11 DEF IInv

(* createKeyed's insert, at whatever time: the key was free and still is.  *)
LEMMA InsertKeyedKeeps ==
    ASSUME IInv, NEW r \in Requests, InsertKeyed(r)
    PROVE  IInv'
  <1>1. pc[r] = "insert" /\ IsKeyed(r)
    BY DEF InsertKeyed
  <1>2. IdsWithKey(txRows, input[r].key) = {} /\ input[r].key # NoKey
    BY <1>1 DEF IInv, CheckHoldsAtInsert, IsKeyed, IsFriction
  <1>3. PICK t \in Times : Insert(r, t)
    BY DEF InsertKeyed
  <1>4. t \in Int
    BY TimesAssumption
  <1> QED
    BY <1>1, <1>2, <1>3, <1>4, InsertKeeps

(* CreateFriction's insert, at the reading of the clock the lookup used.   *)
LEMMA InsertFrictionKeeps ==
    ASSUME IInv, NEW r \in Requests, InsertFriction(r)
    PROVE  IInv'
  <1>1. pc[r] = "insert" /\ IsFriction(r) /\ Insert(r, now[r])
    BY DEF InsertFriction
  <1>2. /\ now[r] \in Int /\ input[r].key = NoKey
        /\ RecentFrictions(txRows, input[r].hash, now[r] - Window) = {}
    BY <1>1 DEF IInv, CheckHoldsAtInsert, IsKeyed, IsFriction
  <1> QED
    BY <1>1, <1>2, InsertKeeps

(* CreateFriction's lookup: the row that absorbs has the caller's content, *)
(* and no recent row at the reading it keeps otherwise.                    *)
LEMMA LookupFrictionKeeps ==
    ASSUME IInv, NEW r \in Requests, LookupFriction(r)
    PROVE  IInv'
  <1>1. /\ pc[r] = "lookup" /\ IsFriction(r) /\ IsSubmit(r) /\ input[r].key = NoKey
        /\ UNCHANGED <<table, lock, conn, client>>
    BY DEF LookupFriction, IsFriction
  <1>2. IsTable(rows, seq) /\ IsTable(txRows, txSeq)
    BY DEF IInv, TypeOK
  <1>3. PICK t \in Times :
          LET recent == RecentFrictions(txRows, input[r].hash, t - Window) IN
            \/ /\ recent # {}
               /\ \E i \in Newest(txRows, recent) : Answered(r, "existing", i)
               /\ GoTo(r, "commit")
               /\ UNCHANGED now
            \/ /\ recent = {}
               /\ now' = [now EXCEPT ![r] = t]
               /\ GoTo(r, "insert")
               /\ UNCHANGED reply
    BY DEF LookupFriction
  <1> DEFINE recent == RecentFrictions(txRows, input[r].hash, t - Window)
  <1>4. Rules(rows)' /\ Rules(txRows)' /\ TxExtends'
    BY <1>1 DEF IInv, Rules, TxExtends, table
  <1>5. ASSUME NEW i \in Newest(txRows, recent), Answered(r, "existing", i),
               GoTo(r, "commit"), UNCHANGED now
        PROVE  IInv'
    <2>1. /\ i \in Nat /\ i \in DOMAIN txRows
          /\ txRows[i].key = NoKey /\ txRows[i].hash = input[r].hash
      BY <1>2, <1>5 DEF Newest, RecentFrictions, IsTable
    <2>2. reply' = [reply EXCEPT ![r] = [status |-> "existing", id |-> i]]
      BY <1>5 DEF Answered
    <2>3. [status |-> "existing", id |-> i] \in Reply
      BY <2>1 DEF Reply
    <2>4. /\ Isolation' /\ OneConnection' /\ AnswersTruthful'
          /\ pc'[r] = "commit"
          /\ \A q \in Requests : q # r => pc'[q] = pc[q] /\ pc[q] \notin InTx
      BY <1>1, <1>5, <2>2, InsideKeeps DEF InTx, table, IInv, TypeOK
    <2>5. TypeOK'
      BY <1>1, <1>5, <2>2, <2>3 DEF IInv, TypeOK, GoTo, PC, InTx, table, client
    <2>6. CheckHoldsAtInsert' /\ ApplyIsBatch'
      BY <2>4 DEF IInv, CheckHoldsAtInsert, ApplyIsBatch, InTx
    <2>7. CommitTruthful'
      BY <1>1, <2>1, <2>2, <2>4 DEF IInv, TypeOK, CommitTruthful, InTx, table, client
    <2> QED
      BY <1>4, <2>4, <2>5, <2>6, <2>7 DEF IInv
  <1>6. CASE /\ recent = {}
             /\ now' = [now EXCEPT ![r] = t]
             /\ GoTo(r, "insert")
             /\ UNCHANGED reply
    <2>1. t \in Int
      BY TimesAssumption
    <2>2. /\ Isolation' /\ OneConnection' /\ AnswersTruthful'
          /\ pc'[r] = "insert"
          /\ \A q \in Requests : q # r => pc'[q] = pc[q] /\ pc[q] \notin InTx
      BY <1>1, <1>6, InsideKeeps DEF InTx, table
    <2>3. TypeOK'
      BY <1>1, <1>6, <2>1 DEF IInv, TypeOK, GoTo, PC, InTx, Stamp, table, client
    <2>4. CheckHoldsAtInsert'
      <3>1. now'[r] = t
        BY <1>6 DEF IInv, TypeOK
      <3> QED
        BY <1>1, <1>6, <2>1, <2>2, <3>1
        DEF IInv, CheckHoldsAtInsert, InTx, IsFriction, IsSubmit, table, client
    <2>5. ApplyIsBatch' /\ CommitTruthful'
      BY <2>2 DEF IInv, ApplyIsBatch, CommitTruthful, InTx
    <2> QED
      BY <1>4, <2>2, <2>3, <2>4, <2>5 DEF IInv
  <1> QED
    BY <1>3, <1>5, <1>6

(* SetProcessed classifies a batch: only ids that have rows are to be      *)
(* changed.                                                                *)
LEMMA ClassifyKeeps ==
    ASSUME IInv, NEW r \in Requests, Classify(r)
    PROVE  IInv'
  <1> DEFINE label == IF Updated(txRows, input[r]) = {} THEN "commit" ELSE "apply"
             answer == [status |-> "processed",
                        updated |-> Updated(txRows, input[r]),
                        unchanged |-> Unchanged(txRows, input[r]),
                        notFound |-> NotFound(txRows, input[r])]
  <1>1. /\ pc[r] = "lookup" /\ IsBatch(r)
        /\ reply' = [reply EXCEPT ![r] = answer]
        /\ GoTo(r, label)
        /\ UNCHANGED <<table, lock, conn, client, now>>
    BY DEF Classify
  <1>2. input[r] \in ProcessRequest /\ ~IsSubmit(r)
    BY <1>1, InputKinds DEF IInv
  <1>3. answer \in Reply
    <2>1. input[r].ids \subseteq Nat
      BY <1>2 DEF ProcessRequest
    <2> QED
      BY <2>1 DEF Reply, Updated, Unchanged, NotFound
  <1>4. /\ Isolation' /\ OneConnection' /\ AnswersTruthful'
        /\ pc'[r] = label
        /\ \A q \in Requests : q # r => pc'[q] = pc[q] /\ pc[q] \notin InTx
    <2>1. /\ pc[r] \in InTx \ {"commit"} /\ label \in InTx
          /\ UNCHANGED <<rows, seq, purged, lock, conn, client>>
          /\ UNCHANGED <<txRows, txSeq>>
          /\ \A q \in Requests \ {r} : reply'[q] = reply[q]
      BY <1>1 DEF InTx, table, IInv, TypeOK
    <2>2. GoTo(r, label)
      BY <1>1
    <2> HIDE DEF label
    <2> QED
      BY <2>1, <2>2, InsideKeeps
  <1>5. TypeOK'
    BY <1>1, <1>3 DEF IInv, TypeOK, GoTo, PC, InTx, table, client
  <1>6. CheckHoldsAtInsert'
    BY <1>4 DEF IInv, CheckHoldsAtInsert, InTx
  <1>7. ApplyIsBatch' /\ CommitTruthful'
    BY <1>1, <1>2, <1>4
    DEF IInv, ApplyIsBatch, CommitTruthful, InTx, IsBatch, IsSubmit, client
  <1>8. Rules(rows)' /\ Rules(txRows)' /\ TxExtends'
    BY <1>1 DEF IInv, Rules, TxExtends, table
  <1> QED
    BY <1>4, <1>5, <1>6, <1>7, <1>8 DEF IInv

(* A batch changes no content, and keeps the first timestamp of a row that *)
(* stays processed.                                                        *)
LEMMA AppliedSameContent ==
    ASSUME NEW t, NEW n, IsTable(t, n), NEW ids, NEW p \in ProcessRequest,
           NEW clock \in Int, NEW i \in DOMAIN t
    PROVE  SameContent(t[i], Applied(t, ids, p, clock)[i])
  <1>1. t[i] \in Row /\ p.processed \in BOOLEAN
    BY DEF IsTable, ProcessRequest
  <1> QED
    BY <1>1 DEF SameContent, Applied, Marked, Unmarked, Row

(* SetProcessed applies a batch: rows keep their content, so every rule    *)
(* about content stays.                                                    *)
LEMMA ApplyKeeps ==
    ASSUME IInv, NEW r \in Requests, Apply(r)
    PROVE  IInv'
  <1>1. PICK t \in Times : txRows' = Applied(txRows, reply[r].updated, input[r], t)
    BY DEF Apply
  <1> DEFINE ids == reply[r].updated
  <1>2. /\ pc[r] = "apply" /\ IsBatch(r) /\ GoTo(r, "commit") /\ t \in Int
        /\ UNCHANGED <<rows, seq, txSeq, purged, lock, conn, client, now, reply>>
    BY TimesAssumption DEF Apply, IInv, ApplyIsBatch
  <1>3. input[r] \in ProcessRequest /\ ~IsSubmit(r)
    BY <1>2, InputKinds DEF IInv
  <1>4. /\ IsTable(rows, seq) /\ IsTable(txRows, txSeq)
        /\ txRows = rows /\ txSeq = seq
    BY <1>2 DEF IInv, TypeOK, Isolation, InTx
  <1>5. IsTable(rows, seq)' /\ IsTable(txRows, txSeq)'
    BY <1>1, <1>2, <1>3, <1>4, AppliedIsTable
  <1>6. Rules(rows)' /\ Rules(txRows)'
    <2>1. OneRowPerKey(txRows') /\ FrictionsSpaced(txRows')
      BY <1>1, <1>3, <1>4, AppliedKeepsKeysAndSpacing DEF IInv, Rules
    <2>2. ResolvedAreProcessed(txRows')
      BY <1>1, <1>2, <1>3, <1>4, AppliedKeepsResolved DEF IInv, Rules
    <2> QED
      BY <1>2, <2>1, <2>2 DEF IInv, Rules
  <1>7. TxExtends'
    <2>1. DOMAIN txRows' = DOMAIN txRows
      BY <1>1, <1>3, <1>4, AppliedContent
    <2>2. \A i \in DOMAIN rows : SameContent(rows[i], txRows'[i])
      BY <1>1, <1>2, <1>3, <1>4, AppliedSameContent
    <2>3. seq \in Nat
      BY <1>4 DEF IsTable
    <2> QED
      BY <1>2, <1>4, <2>1, <2>2, <2>3 DEF TxExtends
  <1>8. /\ Isolation' /\ OneConnection' /\ AnswersTruthful'
        /\ pc'[r] = "commit"
        /\ \A q \in Requests : q # r => pc'[q] = pc[q] /\ pc[q] \notin InTx
    BY <1>2, InsideKeeps DEF InTx
  <1>9. TypeOK'
    BY <1>2, <1>5 DEF IInv, TypeOK, GoTo, PC, InTx, client
  <1>10. CheckHoldsAtInsert' /\ ApplyIsBatch'
    BY <1>8 DEF IInv, CheckHoldsAtInsert, ApplyIsBatch, InTx
  <1>11. CommitTruthful'
    BY <1>2, <1>3, <1>8 DEF IInv, CommitTruthful, InTx, IsSubmit, client
  <1> QED
    BY <1>5, <1>6, <1>7, <1>8, <1>9, <1>10, <1>11 DEF IInv

----------------------------------------------------------------------------
(* Commit, the answer, the purge.                                          *)

(* A commit publishes the transaction's table; answers given earlier stay  *)
(* true of it.                                                             *)
LEMMA CommitKeeps ==
    ASSUME IInv, NEW r \in Requests, Commit(r)
    PROVE  IInv'
  <1>1. /\ pc[r] = "commit" /\ lock = r /\ lock' = Nobody
        /\ rows' = txRows /\ seq' = txSeq
        /\ conn' = [conn EXCEPT ![ServerOf[r]] = Nobody]
        /\ GoTo(r, "answer")
        /\ UNCHANGED <<txRows, txSeq, purged, client, now, reply>>
    BY DEF Commit, IInv, Isolation, InTx
  <1>2. /\ pc'[r] = "answer"
        /\ \A q \in Requests : q # r => pc'[q] = pc[q] /\ pc[q] \notin InTx
    BY <1>1 DEF IInv, TypeOK, Isolation, GoTo
  <1>3. /\ IsTable(rows, seq) /\ IsTable(txRows, txSeq)
        /\ seq \in Nat /\ txSeq \in Nat /\ seq <= txSeq
    BY DEF IInv, TypeOK, IsTable, TxExtends
  <1>4. TypeOK'
    <2>1. purged' \subseteq 1..seq'
      BY <1>1, <1>3 DEF IInv, TypeOK
    <2> QED
      BY <1>1, <1>3, <2>1 DEF IInv, TypeOK, GoTo, PC, client
  <1>5. Isolation'
    BY <1>1, <1>2, NobodyAssumption DEF Isolation, InTx
  <1>6. OneConnection'
    BY <1>1, <1>2, ServersAssumption, NobodyAssumption
    DEF IInv, TypeOK, OneConnection, InTx
  <1>7. CheckHoldsAtInsert' /\ ApplyIsBatch' /\ CommitTruthful'
    BY <1>2 DEF IInv, CheckHoldsAtInsert, ApplyIsBatch, CommitTruthful, InTx
  <1>8. Rules(rows)' /\ Rules(txRows)'
    BY <1>1 DEF IInv, Rules
  <1>9. TxExtends'
    BY <1>1, <1>3 DEF TxExtends, SameContent, IsTable
  <1>10. AnswersTruthful'
    <2>1. SUFFICES ASSUME NEW q \in Requests, pc'[q] \in {"answer", "done"}, IsSubmit(q)'
                   PROVE  \/ reply'[q].id \in purged'
                          \/ /\ reply'[q].id \in DOMAIN rows'
                             /\ rows'[reply'[q].id].key = input'[q].key
                             /\ reply'[q].status = "mismatch"
                                  <=> rows'[reply'[q].id].hash # input'[q].hash
      BY DEF AnswersTruthful
    <2>2. CASE q = r
      BY <1>1, <2>1, <2>2 DEF IInv, CommitTruthful, IsSubmit, client
    <2>3. CASE q # r
      <3>1. /\ pc[q] \in {"answer", "done"} /\ IsSubmit(q)
            /\ reply'[q] = reply[q] /\ input'[q] = input[q]
        BY <1>1, <1>2, <2>1, <2>3 DEF IsSubmit, client
      <3>2. CASE reply[q].id \in purged
        BY <1>1, <3>1, <3>2
      <3>3. CASE reply[q].id \notin purged
        BY <1>1, <3>1, <3>3 DEF IInv, AnswersTruthful, TxExtends, SameContent
      <3> QED
        BY <3>2, <3>3
    <2> QED
      BY <2>2, <2>3
  <1> QED
    BY <1>4, <1>5, <1>6, <1>7, <1>8, <1>9, <1>10 DEF IInv

(* An answer arrives: nothing else changes.                                *)
LEMMA DeliverKeeps ==
    ASSUME IInv, NEW r \in Requests, Deliver(r)
    PROVE  IInv'
  <1>1. /\ pc[r] = "answer" /\ pc'[r] = "done"
        /\ \A q \in Requests : q # r => pc'[q] = pc[q]
        /\ UNCHANGED <<table, lock, conn, client, now, reply>>
    BY DEF Deliver, GoTo, IInv, TypeOK
  <1>2. TypeOK'
    BY DEF IInv, TypeOK, Deliver, GoTo, PC, Ended, table, client
  <1>3. Isolation' /\ OneConnection'
    BY <1>1, NobodyAssumption DEF IInv, TypeOK, Isolation, OneConnection, InTx, table
  <1>4. CheckHoldsAtInsert' /\ ApplyIsBatch' /\ CommitTruthful' /\ AnswersTruthful'
    BY <1>1
    DEF IInv, CheckHoldsAtInsert, ApplyIsBatch, CommitTruthful, AnswersTruthful,
        IsKeyed, IsFriction, IsBatch, IsSubmit, table, client
  <1>5. Rules(rows)' /\ Rules(txRows)' /\ TxExtends'
    BY <1>1 DEF IInv, Rules, TxExtends, table
  <1> QED
    BY <1>2, <1>3, <1>4, <1>5 DEF IInv

(* The retention purge runs while no transaction is open; what it deletes  *)
(* is remembered as purged.                                                *)
LEMMA PurgeKeeps ==
    ASSUME IInv, Purge
    PROVE  IInv'
  <1>1. PICK cutoff \in Times :
          /\ purged' = purged \cup Purged(rows, cutoff)
          /\ rows' = Without(rows, Purged(rows, cutoff))
          /\ txRows' = Without(rows, Purged(rows, cutoff))
    BY DEF Purge
  <1> DEFINE gone == Purged(rows, cutoff)
  <1>2. /\ lock = Nobody /\ txRows = rows /\ txSeq = seq
        /\ UNCHANGED <<seq, txSeq, lock, conn, pc, client, now, reply>>
        /\ IsTable(rows, seq)
    BY DEF Purge, IInv, TypeOK, Isolation
  <1>3. gone \subseteq DOMAIN rows
    BY DEF Purged
  <1>4. IsTable(rows, seq)' /\ IsTable(txRows, txSeq)'
    BY <1>1, <1>2, WithoutIsTable
  <1>5. TypeOK'
    <2>1. purged' \subseteq 1..seq'
      BY <1>1, <1>2, <1>3 DEF IInv, TypeOK, IsTable
    <2> QED
      BY <1>2, <1>4, <2>1 DEF IInv, TypeOK, client
  <1>6. \A q \in Requests : pc[q] \notin InTx
    BY <1>2, NobodyAssumption DEF IInv, Isolation
  <1>7. Isolation' /\ OneConnection'
    BY <1>1, <1>2 DEF IInv, Isolation, OneConnection
  <1>8. CheckHoldsAtInsert' /\ ApplyIsBatch' /\ CommitTruthful'
    BY <1>2, <1>6 DEF CheckHoldsAtInsert, ApplyIsBatch, CommitTruthful, InTx
  <1>9. Rules(rows)' /\ Rules(txRows)'
    BY <1>1, <1>2, WithoutKeepsRules DEF IInv, Rules
  <1>10. TxExtends'
    BY <1>1, <1>2, <1>4 DEF TxExtends, SameContent, IsTable
  <1>11. AnswersTruthful'
    BY <1>1, <1>2 DEF IInv, AnswersTruthful, IsSubmit, Without, client
  <1> QED
    BY <1>5, <1>7, <1>8, <1>9, <1>10, <1>11 DEF IInv

----------------------------------------------------------------------------
(* Every step of the system keeps the invariant.                           *)
LEMMA NextKeeps == IInv /\ [Next]_vars => IInv'
  <1> SUFFICES ASSUME IInv, [Next]_vars PROVE IInv'
    OBVIOUS
  <1>1. ASSUME NEW r \in Requests, Send(r) PROVE IInv'
    BY <1>1, SendKeeps
  <1>2. ASSUME NEW r \in Requests, Handle(r) PROVE IInv'
    <2>1. CASE TakeConnection(r)
      BY <2>1, TakeConnectionKeeps
    <2>2. CASE BeginImmediate(r)
      BY <2>2, BeginKeeps
    <2>3. CASE Busy(r)
      BY <2>3, FailedKeeps DEF Busy, Waiting
    <2>4. CASE LookupKey(r)
      BY <2>4, LookupKeyKeeps
    <2>5. CASE InsertKeyed(r)
      BY <2>5, InsertKeyedKeeps
    <2>6. CASE LookupFriction(r)
      BY <2>6, LookupFrictionKeeps
    <2>7. CASE InsertFriction(r)
      BY <2>7, InsertFrictionKeeps
    <2>8. CASE Classify(r)
      BY <2>8, ClassifyKeeps
    <2>9. CASE Apply(r)
      BY <2>9, ApplyKeeps
    <2>10. CASE Commit(r)
      BY <2>10, CommitKeeps
    <2>11. CASE Deliver(r)
      BY <2>11, DeliverKeeps
    <2> QED
      BY <1>2, <2>1, <2>2, <2>3, <2>4, <2>5, <2>6, <2>7, <2>8, <2>9, <2>10, <2>11
      DEF Handle
  <1>3. ASSUME NEW r \in Requests, Abort(r) PROVE IInv'
    BY <1>3, FailedKeeps DEF Abort
  <1>4. ASSUME NEW r \in Requests, LoseAnswer(r) PROVE IInv'
    BY <1>4, FailedKeeps DEF LoseAnswer
  <1>5. ASSUME NEW s \in Servers, Crash(s) PROVE IInv'
    BY <1>5, FailedKeeps DEF Crash
  <1>6. CASE Purge
    BY <1>6, PurgeKeeps
  <1>7. CASE UNCHANGED vars
    <2>1. UNCHANGED <<table, lock, conn, pc, client, now, reply>>
      BY <1>7 DEF vars
    <2>2. TypeOK' /\ Isolation' /\ OneConnection'
      BY <2>1 DEF IInv, TypeOK, Isolation, OneConnection, table, client
    <2>3. CheckHoldsAtInsert'
      BY <2>1 DEF IInv, CheckHoldsAtInsert, IsKeyed, IsFriction, IsSubmit, table, client
    <2>4. ApplyIsBatch' /\ CommitTruthful' /\ AnswersTruthful'
      BY <2>1
      DEF IInv, ApplyIsBatch, CommitTruthful, AnswersTruthful, IsBatch, IsSubmit,
          table, client
    <2>5. Rules(rows)' /\ Rules(txRows)' /\ TxExtends'
      BY <2>1 DEF IInv, Rules, TxExtends, table
    <2> QED
      BY <2>2, <2>3, <2>4, <2>5 DEF IInv
  <1> QED
    BY <1>1, <1>2, <1>3, <1>4, <1>5, <1>6, <1>7 DEF Next

(* The invariant holds in every reachable state.                           *)
THEOREM Invariant == Spec => []IInv
  <1>1. Init => IInv
    BY InitIInv
  <1>2. IInv /\ [Next]_vars => IInv'
    BY NextKeeps
  <1> QED
    BY <1>1, <1>2, PTL DEF Spec

(* Every variable keeps its type: in particular no committed or pending    *)
(* row ever has an id above the sequence.                                  *)
THEOREM TypeCorrect == Spec => []TypeOK
  <1>1. IInv => TypeOK
    BY DEF IInv
  <1> QED
    BY <1>1, Invariant, PTL

(* store.Write gives its function the database to itself, however many     *)
(* processes have the file open, and a server its connection to one        *)
(* request at a time.                                                      *)
THEOREM TransactionsAlone == Spec => [](Isolation /\ OneConnection)
  <1>1. IInv => Isolation /\ OneConnection
    BY DEF IInv
  <1> QED
    BY <1>1, Invariant, PTL

(* The lookups of createKeyed and CreateFriction still hold when they      *)
(* insert: the unique index never refuses a row.                           *)
THEOREM ChecksHold == Spec => []CheckHoldsAtInsert
  <1>1. IInv => CheckHoldsAtInsert
    BY DEF IInv
  <1> QED
    BY <1>1, Invariant, PTL

(* One row per idempotency key, frictions of one content more than a       *)
(* window apart, no resolution without a mark: whatever the clock returns. *)
THEOREM RulesKept == Spec => []TableRules
  <1>1. IInv => TableRules
    BY DEF IInv, Rules, TableRules
  <1> QED
    BY <1>1, Invariant, PTL

(* What a submission is answered stays true of the committed table, until  *)
(* a purge deletes the row it names.                                       *)
THEOREM Truthful == Spec => []AnswersTruthful
  <1>1. IInv => AnswersTruthful
    BY DEF IInv
  <1> QED
    BY <1>1, Invariant, PTL

----------------------------------------------------------------------------
(* Only a commit and a purge change the committed table.                   *)
LEMMA RowsChange ==
    ASSUME [Next]_vars
    PROVE  \/ UNCHANGED <<rows, purged>>
           \/ \E r \in Requests : Commit(r)
           \/ Purge
  <1>1. ASSUME NEW r \in Requests, Handle(r) \/ Send(r) \/ Abort(r) \/ LoseAnswer(r)
        PROVE  UNCHANGED <<rows, purged>> \/ Commit(r)
    BY <1>1
    DEF Handle, Send, Abort, LoseAnswer, TakeConnection, BeginImmediate, Busy, LookupKey,
        InsertKeyed, InsertFriction, Insert, LookupFriction, Classify, Apply, Deliver,
        Failed, Released, table
  <1>2. ASSUME NEW s \in Servers, Crash(s)
        PROVE  UNCHANGED <<rows, purged>>
    BY <1>2 DEF Crash, Failed, Released
  <1> QED
    BY <1>1, <1>2 DEF Next, vars, table

(* An id is handed out once, deleted rows included.                        *)
THEOREM NoIdReused == Spec => IdsNeverReused
  <1>1. ASSUME IInv, [Next]_vars
        PROVE  [\A i \in DOMAIN rows' \ DOMAIN rows : i > seq /\ i \notin purged]_vars
    <2>1. SUFFICES ASSUME NEW i \in DOMAIN rows' \ DOMAIN rows
                   PROVE  i > seq /\ i \notin purged
      OBVIOUS
    <2>2. purged \subseteq 1..seq /\ seq \in Nat
      BY <1>1 DEF IInv, TypeOK, IsTable
    <2>3. CASE \E r \in Requests : Commit(r)
      <3>1. i \in DOMAIN txRows \ DOMAIN rows
        BY <2>1, <2>3 DEF Commit
      <3>2. DOMAIN txRows \subseteq 1..txSeq
        BY <1>1 DEF IInv, TypeOK, IsTable
      <3> QED
        BY <1>1, <2>2, <3>1, <3>2 DEF IInv, TxExtends
    <2>4. CASE Purge
      BY <2>1, <2>4 DEF Purge, Without
    <2>5. CASE UNCHANGED <<rows, purged>>
      BY <2>1, <2>5
    <2> QED
      BY <1>1, <2>3, <2>4, <2>5, RowsChange
  <1> QED
    BY <1>1, Invariant, PTL DEF Spec, IdsNeverReused

(* Rows are write-once but for their mark, and only a purge removes one.   *)
THEOREM RowsWriteOnce == Spec => WriteOnce
  <1>1. ASSUME IInv, [Next]_vars
        PROVE  [\A i \in DOMAIN rows :
                  \/ i \in DOMAIN rows' /\ SameContent(rows[i], rows'[i])
                  \/ i \in purged']_vars
    <2>1. SUFFICES ASSUME NEW i \in DOMAIN rows
                   PROVE  \/ i \in DOMAIN rows' /\ SameContent(rows[i], rows'[i])
                          \/ i \in purged'
      OBVIOUS
    <2>2. ASSUME NEW r \in Requests, Commit(r)
          PROVE  i \in DOMAIN rows' /\ SameContent(rows[i], rows'[i])
      BY <1>1, <2>2 DEF Commit, IInv, TxExtends
    <2>3. SameContent(rows[i], rows[i])
      BY DEF SameContent
    <2>4. CASE Purge
      BY <2>3, <2>4 DEF Purge, Without
    <2> QED
      BY <1>1, <2>2, <2>3, <2>4, RowsChange
  <1> QED
    BY <1>1, Invariant, PTL DEF Spec, WriteOnce

----------------------------------------------------------------------------
(* Why a transaction takes effect at once: a second invariant, about what  *)
(* the holder of the write lock is about to write.                         *)

(* A batch whose updates are still to run was classified against the table *)
(* it is going to change.                                                  *)
Classification(t, p) ==
    [status |-> "processed",
     updated |-> Updated(t, p), unchanged |-> Unchanged(t, p), notFound |-> NotFound(t, p)]

(* What a transaction that is about to commit made of the committed table: *)
(* a new row of a submission nothing there stood in the way of,            *)
Created(r) ==
    /\ reply[r] = [status |-> "created", id |-> seq + 1]
    /\ txSeq = seq + 1
    /\ \E t \in Times :
         /\ IF input[r].key = NoKey
              THEN RecentFrictions(rows, input[r].hash, t - Window) = {}
              ELSE IdsWithKey(rows, input[r].key) = {}
         /\ txRows = Inserted(rows, seq + 1, NewRow(input[r].key, input[r].hash, t))

(* nothing, since a row with the submission's key and content is there,    *)
Recognised(r) ==
    /\ txRows = rows /\ txSeq = seq
    /\ \E i \in DOMAIN rows :
         /\ rows[i].key = input[r].key
         /\ rows[i].hash = input[r].hash
         /\ input[r].key = NoKey => \E t \in Times : rows[i].created >= t - Window
         /\ reply[r] = [status |-> "existing", id |-> i]

(* or the changes of a batch, which its answer states.                     *)
BatchApplied(r) ==
    /\ txSeq = seq
    /\ reply[r] = Classification(rows, input[r])
    /\ \E t \in Times :
         txRows = Applied(rows, Updated(rows, input[r]), input[r], t)

(* A transaction that is about to write prepared exactly one step of the   *)
(* atomic specification.                                                   *)
Prepared(r) ==
    /\ pc[r] = "insert" /\ IsFriction(r) => now[r] \in Times
    /\ pc[r] = "apply" => reply[r] = Classification(rows, input[r])
    /\ pc[r] = "commit" => IF IsSubmit(r) THEN Created(r) \/ Recognised(r) ELSE BatchApplied(r)

AllPrepared == \A r \in Requests : Prepared(r)

(* A request that is not about to write has nothing to prepare.            *)
LEMMA NothingToPrepare ==
    ASSUME NEW q, pc'[q] \notin {"insert", "apply", "commit"}
    PROVE  Prepared(q)'
  BY DEF Prepared

(* What a request prepared stays so while its own state and the tables do. *)
LEMMA StaysPrepared ==
    ASSUME NEW q, Prepared(q), UNCHANGED <<rows, seq, txRows, txSeq>>,
           pc'[q] = pc[q], input'[q] = input[q], reply'[q] = reply[q], now'[q] = now[q]
    PROVE  Prepared(q)'
  BY DEF Prepared, Created, Recognised, BatchApplied, Classification, IsFriction, IsSubmit

(* Inside a transaction a request is alone: nobody else has prepared       *)
(* anything its steps could spoil.                                         *)
LEMMA AlonePrepares ==
    ASSUME IInv, NEW r \in Requests, pc[r] \in InTx, NEW label, GoTo(r, label), Prepared(r)'
    PROVE  AllPrepared'
  <1>1. ASSUME NEW q \in Requests, q # r
        PROVE  pc'[q] = pc[q] /\ pc[q] \notin InTx
    BY <1>1 DEF IInv, TypeOK, Isolation, GoTo
  <1>2. ASSUME NEW q \in Requests, q # r PROVE Prepared(q)'
    BY <1>1, <1>2, NothingToPrepare DEF InTx
  <1> QED
    BY <1>2 DEF AllPrepared

(* The steps before and after a transaction touch no table.                *)
LEMMA OutsidePrepared ==
    ASSUME IInv, AllPrepared, NEW r \in Requests,
           Send(r) \/ TakeConnection(r) \/ BeginImmediate(r) \/ Deliver(r)
    PROVE  AllPrepared'
  <1>1. pc'[r] \in {"queued", "begin", "lookup", "done"} /\ UNCHANGED table
    BY DEF IInv, TypeOK, Send, TakeConnection, BeginImmediate, Deliver, GoTo
  <1>2. ASSUME NEW q \in Requests, q # r
        PROVE  pc'[q] = pc[q] /\ input'[q] = input[q] /\ reply'[q] = reply[q] /\ now'[q] = now[q]
    BY <1>2 DEF IInv, TypeOK, Send, TakeConnection, BeginImmediate, Deliver, GoTo, client
  <1>3. ASSUME NEW q \in Requests PROVE Prepared(q)'
    BY <1>1, <1>2, NothingToPrepare, StaysPrepared DEF AllPrepared, table
  <1> QED
    BY <1>3 DEF AllPrepared

(* A rollback concerns the requests that fail, and takes the tables only   *)
(* from the one that holds the lock.                                       *)
LEMMA FailedPrepared ==
    ASSUME IInv, AllPrepared, NEW S, S \subseteq Requests, Failed(S)
    PROVE  AllPrepared'
  <1>1. ASSUME NEW q \in S PROVE Prepared(q)'
    BY <1>1, NothingToPrepare DEF Failed
  <1>2. ASSUME NEW q \in Requests \ S PROVE Prepared(q)'
    <2>1. pc'[q] = pc[q] /\ input'[q] = input[q] /\ reply'[q] = reply[q] /\ now'[q] = now[q]
      BY <1>2 DEF Failed, client
    <2>2. CASE pc[q] \in InTx
      <3>1. lock \notin S
        BY <1>2, <2>2 DEF IInv, Isolation
      <3> QED
        BY <1>2, <2>1, <3>1, StaysPrepared DEF AllPrepared, Failed, Released
    <2> QED
      BY <2>1, <2>2, NothingToPrepare DEF InTx
  <1> QED
    BY <1>1, <1>2 DEF AllPrepared

(* createKeyed's lookup prepares a replay's answer, or nothing yet.        *)
LEMMA LookupKeyPrepared ==
    ASSUME IInv, NEW r \in Requests, LookupKey(r)
    PROVE  AllPrepared'
  <1> DEFINE found == IdsWithKey(txRows, input[r].key)
  <1>1. /\ pc[r] \in InTx /\ IsKeyed(r) /\ input' = input
        /\ txRows = rows /\ txSeq = seq
    BY DEF LookupKey, InTx, client, IInv, Isolation
  <1>2. CASE GoTo(r, "insert")
    <2>1. pc'[r] = "insert" /\ ~IsFriction(r)'
      BY <1>1, <1>2 DEF GoTo, IInv, TypeOK, IsFriction, IsKeyed, IsSubmit
    <2> QED
      BY <1>1, <1>2, <2>1, AlonePrepares DEF Prepared
  <1>3. CASE GoTo(r, "answer")
    <2>1. pc'[r] = "answer"
      BY <1>3 DEF GoTo, IInv, TypeOK
    <2> QED
      BY <1>1, <1>3, <2>1, AlonePrepares, NothingToPrepare
  <1>4. ASSUME NEW i \in found, txRows[i].hash = input[r].hash,
               Answered(r, "existing", i), GoTo(r, "commit"), UNCHANGED table
        PROVE  AllPrepared'
    <2>1. pc'[r] = "commit" /\ reply'[r] = [status |-> "existing", id |-> i] /\ IsSubmit(r)'
      BY <1>1, <1>4 DEF GoTo, Answered, IInv, TypeOK, IsKeyed, IsSubmit
    <2>2. Recognised(r)'
      BY <1>1, <1>4, <2>1 DEF Recognised, IdsWithKey, IsKeyed, table
    <2> QED
      BY <1>1, <1>4, <2>1, <2>2, AlonePrepares DEF Prepared
  <1> QED
    BY <1>2, <1>3, <1>4 DEF LookupKey

(* CreateFriction's lookup prepares the answer of an absorbed friction, or *)
(* keeps a reading of the clock.                                           *)
LEMMA LookupFrictionPrepared ==
    ASSUME IInv, NEW r \in Requests, LookupFriction(r)
    PROVE  AllPrepared'
  <1>1. PICK t \in Times :
          \/ /\ \E i \in Newest(txRows, RecentFrictions(txRows, input[r].hash, t - Window)) :
                  Answered(r, "existing", i)
             /\ GoTo(r, "commit")
          \/ now' = [now EXCEPT ![r] = t] /\ GoTo(r, "insert")
    BY DEF LookupFriction
  <1>2. /\ pc[r] \in InTx /\ IsFriction(r) /\ UNCHANGED <<table, input>>
        /\ txRows = rows /\ txSeq = seq
    BY DEF LookupFriction, InTx, client, IInv, Isolation
  <1>3. CASE now' = [now EXCEPT ![r] = t] /\ GoTo(r, "insert")
    <2>1. pc'[r] = "insert" /\ now'[r] = t
      BY <1>3 DEF GoTo, IInv, TypeOK
    <2> QED
      BY <1>2, <1>3, <2>1, AlonePrepares DEF Prepared
  <1>4. ASSUME NEW i \in Newest(txRows, RecentFrictions(txRows, input[r].hash, t - Window)),
               Answered(r, "existing", i), GoTo(r, "commit")
        PROVE  AllPrepared'
    <2>1. pc'[r] = "commit" /\ reply'[r] = [status |-> "existing", id |-> i] /\ IsSubmit(r)'
      BY <1>2, <1>4 DEF GoTo, Answered, IInv, TypeOK, IsFriction, IsSubmit
    <2>2. i \in RecentFrictions(rows, input[r].hash, t - Window) /\ input[r].key = NoKey
      BY <1>2, <1>4 DEF Newest, IsFriction
    <2>3. Recognised(r)'
      BY <1>2, <2>1, <2>2 DEF Recognised, RecentFrictions, table
    <2> QED
      BY <1>2, <1>4, <2>1, <2>3, AlonePrepares DEF Prepared
  <1> QED
    BY <1>1, <1>3, <1>4

(* The inserts prepare a new row, stamped with the reading of the clock    *)
(* that their lookup, if it used one, was made with.                       *)
LEMMA InsertPrepared ==
    ASSUME IInv, AllPrepared, NEW r \in Requests, InsertKeyed(r) \/ InsertFriction(r)
    PROVE  AllPrepared'
  <1>1. PICK t \in Times : Insert(r, t) /\ (IsFriction(r) => t = now[r])
    <2>1. CASE InsertKeyed(r)
      BY <2>1 DEF InsertKeyed, IsKeyed, IsFriction
    <2>2. CASE InsertFriction(r)
      BY <2>2 DEF InsertFriction, AllPrepared, Prepared
    <2> QED
      BY <2>1, <2>2
  <1>2. /\ pc[r] = "insert" /\ pc[r] \in InTx /\ IsSubmit(r)
        /\ txRows = rows /\ txSeq = seq
        /\ UNCHANGED <<rows, seq, input>>
    BY <1>1 DEF InsertKeyed, InsertFriction, IsKeyed, IsFriction, InTx, Insert, client,
                IInv, Isolation
  <1>3. /\ pc'[r] = "commit" /\ GoTo(r, "commit") /\ IsSubmit(r)'
        /\ reply'[r] = [status |-> "created", id |-> seq + 1]
        /\ txSeq' = seq + 1
        /\ txRows' = Inserted(rows, seq + 1, NewRow(input[r].key, input[r].hash, t))
    BY <1>1, <1>2 DEF Insert, GoTo, Answered, IInv, TypeOK, IsSubmit
  <1>4. IF input[r].key = NoKey
          THEN RecentFrictions(rows, input[r].hash, t - Window) = {}
          ELSE IdsWithKey(rows, input[r].key) = {}
    BY <1>1, <1>2 DEF IInv, CheckHoldsAtInsert, IsKeyed, IsFriction
  <1>5. Created(r)'
    BY <1>2, <1>3, <1>4 DEF Created
  <1> QED
    BY <1>2, <1>3, <1>5, AlonePrepares DEF Prepared

(* A batch that changes nothing goes on to commit as it is; any clock      *)
(* reading fits an update of no rows.                                      *)
LEMMA ClassifyPrepared ==
    ASSUME IInv, NEW r \in Requests, Classify(r)
    PROVE  AllPrepared'
  <1>1. /\ pc[r] \in InTx /\ IsBatch(r) /\ UNCHANGED <<table, input>>
        /\ txRows = rows /\ txSeq = seq
        /\ reply' = [reply EXCEPT ![r] = Classification(txRows, input[r])]
    BY DEF Classify, Classification, InTx, client, IInv, Isolation
  <1>2. reply'[r] = Classification(rows, input[r]) /\ ~IsSubmit(r)' /\ ~IsFriction(r)'
    BY <1>1 DEF IInv, TypeOK, IsBatch, IsSubmit, IsFriction
  <1>3. CASE Updated(txRows, input[r]) = {} /\ GoTo(r, "commit")
    <2>1. pc'[r] = "commit"
      BY <1>3 DEF GoTo, IInv, TypeOK
    <2>2. PICK t \in Times : TRUE
      BY TimesAssumption
    <2>3. rows = Applied(rows, {}, input[r], t)
      BY DEF IInv, TypeOK, IsTable, Applied
    <2>4. BatchApplied(r)'
      BY <1>1, <1>2, <1>3, <2>3 DEF BatchApplied, table
    <2> QED
      BY <1>1, <1>2, <1>3, <2>1, <2>4, AlonePrepares DEF Prepared
  <1>4. CASE GoTo(r, "apply")
    <2>1. pc'[r] = "apply"
      BY <1>4 DEF GoTo, IInv, TypeOK
    <2>2. Prepared(r)'
      BY <1>1, <1>2, <2>1 DEF Prepared, table
    <2> QED
      BY <1>1, <1>4, <2>2, AlonePrepares
  <1> QED
    BY <1>3, <1>4 DEF Classify

(* The updates of a batch change the rows its answer names.                *)
LEMMA ApplyPrepared ==
    ASSUME IInv, AllPrepared, NEW r \in Requests, Apply(r)
    PROVE  AllPrepared'
  <1>1. /\ pc[r] \in InTx /\ pc[r] = "apply" /\ IsBatch(r) /\ UNCHANGED <<rows, seq, input, reply>>
        /\ txRows = rows /\ txSeq = seq /\ txSeq' = seq
    BY DEF Apply, InTx, client, IInv, Isolation, ApplyIsBatch
  <1>2. reply[r] = Classification(rows, input[r])
    BY <1>1 DEF AllPrepared, Prepared
  <1>3. reply[r].updated = Updated(rows, input[r])
    BY <1>2 DEF Classification
  <1>4. pc'[r] = "commit" /\ GoTo(r, "commit") /\ ~IsSubmit(r)'
    BY <1>1 DEF Apply, GoTo, IInv, TypeOK, IsBatch, IsSubmit
  <1>5. BatchApplied(r)'
    BY <1>1, <1>2, <1>3 DEF BatchApplied, Apply
  <1> QED
    BY <1>1, <1>4, <1>5, AlonePrepares DEF Prepared

(* Every step leaves the transactions prepared.                            *)
LEMMA NextPrepared == IInv /\ AllPrepared /\ [Next]_vars => AllPrepared'
  <1> SUFFICES ASSUME IInv, AllPrepared, [Next]_vars PROVE AllPrepared'
    OBVIOUS
  <1>1. ASSUME NEW r \in Requests, Send(r) \/ Handle(r) PROVE AllPrepared'
    <2>1. CASE Commit(r)
      <3>1. pc[r] \in InTx /\ GoTo(r, "answer") /\ pc'[r] = "answer"
        BY <2>1 DEF Commit, InTx, GoTo, IInv, TypeOK
      <3> QED
        BY <3>1, AlonePrepares, NothingToPrepare
    <2>2. CASE Busy(r)
      BY <2>2, FailedPrepared DEF Busy
    <2>3. CASE \/ Send(r) \/ TakeConnection(r) \/ BeginImmediate(r) \/ Deliver(r)
      BY <2>3, OutsidePrepared
    <2>4. CASE LookupKey(r) \/ LookupFriction(r) \/ Classify(r)
      BY <2>4, LookupKeyPrepared, LookupFrictionPrepared, ClassifyPrepared
    <2>5. CASE InsertKeyed(r) \/ InsertFriction(r) \/ Apply(r)
      BY <2>5, InsertPrepared, ApplyPrepared
    <2> QED
      BY <1>1, <2>1, <2>2, <2>3, <2>4, <2>5 DEF Handle
  <1>2. ASSUME NEW r \in Requests, Abort(r) \/ LoseAnswer(r) PROVE AllPrepared'
    BY <1>2, FailedPrepared DEF Abort, LoseAnswer
  <1>3. ASSUME NEW s \in Servers, Crash(s) PROVE AllPrepared'
    BY <1>3, FailedPrepared DEF Crash
  <1>4. CASE Purge
    <2>1. \A r \in Requests : pc'[r] \notin InTx
      BY <1>4, NobodyAssumption DEF Purge, IInv, Isolation
    <2> QED
      BY <2>1, NothingToPrepare DEF AllPrepared, InTx
  <1>5. CASE UNCHANGED vars
    BY <1>5, StaysPrepared DEF vars, table, client, AllPrepared
  <1> QED
    BY <1>1, <1>2, <1>3, <1>4, <1>5 DEF Next

(* In every reachable state an open transaction that is about to write has *)
(* prepared exactly what its answer says.                                  *)
THEOREM TransactionsPrepared == Spec => []AllPrepared
  <1>1. Init => AllPrepared
    BY DEF Init, AllPrepared, Prepared
  <1> QED
    BY <1>1, NextPrepared, Invariant, PTL DEF Spec

----------------------------------------------------------------------------
(* A mark changes a row exactly when the batch counts it as updated, and   *)
(* leaves it as the batch asked, which it was already if unchanged.        *)
LEMMA UpdatedIsChanged ==
    ASSUME NEW t, NEW n, IsTable(t, n), NEW p \in ProcessRequest, NEW clock \in Int,
           ResolvedAreProcessed(t)
    PROVE  /\ Updated(t, p) = {i \in DOMAIN t : Applied(t, Updated(t, p), p, clock)[i] # t[i]}
           /\ NotFound(t, p) \cap DOMAIN t = {}
           /\ \A i \in Unchanged(t, p) \cup Updated(t, p) :
                LET new == Applied(t, Updated(t, p), p, clock)[i] IN
                /\ (new.processed # Null) = p.processed
                /\ p.resolution # Null => new.resolution = p.resolution
  <1> DEFINE ids == Updated(t, p)
             new(i) == Applied(t, ids, p, clock)[i]
  <1>1. /\ p.processed \in BOOLEAN /\ p.resolution \in AnyResolution
        /\ p.resolution # Null => p.processed
        /\ clock # Null
    BY NullAssumption DEF ProcessRequest
  <1>2. \A i \in DOMAIN t : t[i] \in Row
    BY DEF IsTable
  <1>3. ids \subseteq DOMAIN t
    BY DEF Updated
  <1>4. ASSUME NEW i \in DOMAIN t, i \notin ids
        PROVE  new(i) = t[i]
    BY <1>4 DEF Applied
  <1>5. ASSUME NEW i \in ids
        PROVE  /\ new(i) # t[i]
               /\ (new(i).processed # Null) = p.processed
               /\ p.resolution # Null => new(i).resolution = p.resolution
    <2>1. CASE p.processed
      <3>1. new(i) = Marked(t[i], clock, p.resolution)
        BY <1>3, <1>5, <2>1 DEF Applied
      <3>2. /\ new(i).processed = IF t[i].processed = Null THEN clock ELSE t[i].processed
            /\ new(i).resolution = IF p.resolution = Null THEN t[i].resolution ELSE p.resolution
        BY <1>2, <1>3, <1>5, <3>1 DEF Marked, Row
      <3>3. \/ t[i].processed = Null
            \/ p.resolution # Null /\ t[i].resolution # p.resolution
        BY <1>5, <2>1 DEF Updated
      <3> QED
        BY <1>1, <2>1, <3>2, <3>3
    <2>2. CASE ~p.processed
      <3>1. new(i) = Unmarked(t[i])
        BY <1>1, <1>3, <1>5, <2>2 DEF Applied
      <3>2. new(i).processed = Null
        BY <1>2, <1>3, <1>5, <3>1 DEF Unmarked, Row
      <3>3. t[i].processed # Null
        BY <1>5, <2>2 DEF Updated
      <3> QED
        BY <1>1, <2>2, <3>2, <3>3
    <2> QED
      BY <1>1, <2>1, <2>2
  <1>6. ASSUME NEW i \in Unchanged(t, p)
        PROVE  /\ i \in DOMAIN t /\ i \notin ids
               /\ (t[i].processed # Null) = p.processed
               /\ p.resolution # Null => t[i].resolution = p.resolution
    BY <1>1, <1>6 DEF Unchanged, Updated
  <1>7. NotFound(t, p) \cap DOMAIN t = {}
    BY DEF NotFound
  <1>8. ids = {i \in DOMAIN t : new(i) # t[i]}
    BY <1>3, <1>4, <1>5
  <1> QED
    BY <1>4, <1>5, <1>6, <1>7, <1>8

(* A request about to commit is answered by its own commit only.           *)
LEMMA OnlyCommitAnswers ==
    ASSUME IInv, [Next]_vars, NEW r \in Requests, pc[r] = "commit", pc'[r] = "answer"
    PROVE  Commit(r)
  <1>1. ASSUME NEW q \in Requests, q # r PROVE pc[q] \notin InTx
    BY <1>1 DEF IInv, Isolation, InTx
  <1>2. ASSUME NEW q \in Requests, Send(q) \/ Handle(q) PROVE Commit(r)
    <2>1. CASE q = r
      BY <1>2, <2>1
      DEF Send, Handle, TakeConnection, BeginImmediate, Busy, LookupKey, InsertKeyed,
          LookupFriction, InsertFriction, Classify, Apply, Deliver
    <2>2. CASE q # r
      <3>1. pc'[r] = pc[r] \/ pc'[r] = "failed"
        BY <1>1, <1>2, <2>2
        DEF IInv, TypeOK, InTx, Send, Handle, TakeConnection, BeginImmediate, Busy, LookupKey,
            InsertKeyed, LookupFriction, InsertFriction, Insert, Classify, Apply, Commit,
            Deliver, GoTo, Failed
      <3> QED
        BY <3>1
    <2> QED
      BY <2>1, <2>2
  <1>3. ASSUME NEW S, Failed(S) PROVE FALSE
    BY <1>3 DEF Failed
  <1>4. ASSUME NEW q \in Requests, Abort(q) \/ LoseAnswer(q) PROVE FALSE
    BY <1>3, <1>4 DEF Abort, LoseAnswer
  <1>5. ASSUME NEW s \in Servers, Crash(s) PROVE FALSE
    BY <1>3, <1>5 DEF Crash
  <1>6. ~Purge /\ ~UNCHANGED vars
    BY DEF Purge, vars
  <1> QED
    BY <1>2, <1>4, <1>5, <1>6 DEF Next

(* A batch that commits did to the table what its answer says.             *)
LEMMA CommitClassified ==
    ASSUME IInv, AllPrepared, [Next]_vars,
           NEW r \in Requests, pc[r] = "commit", pc'[r] = "answer", IsBatch(r)
    PROVE  /\ reply[r].updated = {i \in DOMAIN rows : rows'[i] # rows[i]}
           /\ reply[r].notFound \cap DOMAIN rows = {}
           /\ \A i \in reply[r].unchanged \cup reply[r].updated :
                /\ (rows'[i].processed # Null) = input[r].processed
                /\ input[r].resolution # Null
                     => rows'[i].resolution = input[r].resolution
  <1>1. rows' = txRows
    BY OnlyCommitAnswers DEF Commit
  <1>2. /\ reply[r] = Classification(rows, input[r])
        /\ \E t \in Times : txRows = Applied(rows, Updated(rows, input[r]), input[r], t)
    BY DEF AllPrepared, Prepared, BatchApplied, IsBatch, IsSubmit
  <1>3. /\ reply[r].updated = Updated(rows, input[r])
        /\ reply[r].unchanged = Unchanged(rows, input[r])
        /\ reply[r].notFound = NotFound(rows, input[r])
    BY <1>2 DEF Classification
  <1>4. /\ IsTable(rows, seq) /\ ResolvedAreProcessed(rows)
        /\ input[r] \in ProcessRequest
    BY InputKinds DEF IInv, TypeOK, Rules
  <1>5. PICK t \in Times : rows' = Applied(rows, Updated(rows, input[r]), input[r], t)
    BY <1>1, <1>2
  <1>6. t \in Int
    BY TimesAssumption
  <1> QED
    BY <1>3, <1>4, <1>5, <1>6, UpdatedIsChanged

(* The answer of a batch is what its commit does to the committed table.   *)
THEOREM BatchesClassifyTruthfully == Spec => ClassificationTruthful
  <1>1. IInv /\ AllPrepared /\ [Next]_vars =>
          [\A r \in Requests :
             pc[r] = "commit" /\ pc'[r] = "answer" /\ IsBatch(r) =>
               /\ reply[r].updated = {i \in DOMAIN rows : rows'[i] # rows[i]}
               /\ reply[r].notFound \cap DOMAIN rows = {}
               /\ \A i \in reply[r].unchanged \cup reply[r].updated :
                    /\ (rows'[i].processed # Null) = input[r].processed
                    /\ input[r].resolution # Null
                         => rows'[i].resolution = input[r].resolution]_vars
    BY CommitClassified
  <1> QED
    BY <1>1, Invariant, TransactionsPrepared, PTL DEF Spec, ClassificationTruthful

----------------------------------------------------------------------------
(* WritePath implements Inbox: every step of the handlers is one step of   *)
(* the atomic specification, or none.                                      *)

(* The refinement mapping of Atomic.                                       *)
Stage == [r \in Requests |-> StageOf(pc[r])]
Answer == [r \in Requests |-> IF pc[r] \in {"answer", "done"} THEN reply[r] ELSE NoReply]

(* The queries and updates of the two specifications are the same.         *)
LEMMA SameQueries ==
    ASSUME NEW t
    PROVE  /\ \A key : Atomic!IdsWithKey(t, key) = IdsWithKey(t, key)
           /\ \A hash, since :
                Atomic!RecentFrictions(t, hash, since) = RecentFrictions(t, hash, since)
           /\ \A p : /\ Atomic!Updated(t, p) = Updated(t, p)
                    /\ Atomic!Unchanged(t, p) = Unchanged(t, p)
                    /\ Atomic!NotFound(t, p) = NotFound(t, p)
           /\ \A cutoff : Atomic!Purged(t, cutoff) = Purged(t, cutoff)
  BY DEF Atomic!IdsWithKey, IdsWithKey, Atomic!RecentFrictions, RecentFrictions,
         Atomic!Updated, Updated, Atomic!Unchanged, Unchanged, Atomic!NotFound, NotFound,
         Atomic!Purged, Purged

(* And so are their updates.                                               *)
LEMMA SameUpdates ==
    ASSUME NEW t
    PROVE  /\ \A key, hash, clock : Atomic!NewRow(key, hash, clock) = NewRow(key, hash, clock)
           /\ \A id, row : Atomic!Inserted(t, id, row) = Inserted(t, id, row)
           /\ \A ids, p, clock : Atomic!Applied(t, ids, p, clock) = Applied(t, ids, p, clock)
           /\ \A ids : Atomic!Without(t, ids) = Without(t, ids)
  <1>1. \A row, clock, resolution :
          Atomic!Marked(row, clock, resolution) = Marked(row, clock, resolution)
    BY DEF Atomic!Marked, Marked
  <1>2. \A row : Atomic!Unmarked(row) = Unmarked(row)
    BY DEF Atomic!Unmarked, Unmarked
  <1>3. \A ids, p, clock : Atomic!Applied(t, ids, p, clock) = Applied(t, ids, p, clock)
    BY <1>1, <1>2 DEF Atomic!Applied, Applied
  <1>4. \A key, hash, clock : Atomic!NewRow(key, hash, clock) = NewRow(key, hash, clock)
    BY DEF Atomic!NewRow, NewRow
  <1>5. \A id, row : Atomic!Inserted(t, id, row) = Inserted(t, id, row)
    BY DEF Atomic!Inserted, Inserted
  <1>6. \A ids : Atomic!Without(t, ids) = Without(t, ids)
    BY DEF Atomic!Without, Without
  <1> QED
    BY <1>3, <1>4, <1>5, <1>6

(* The stage a label stands for.                                           *)
LEMMA StageOfLabel ==
    /\ StageOf("idle") = "new"
    /\ \A label \in Waiting \cup InTx : StageOf(label) = "open"
    /\ StageOf("answer") = "decided"
    /\ StageOf("done") = "done" /\ StageOf("failed") = "failed"
  BY DEF StageOf, Waiting, InTx, Ended

(* A request that moves, moves its own stage and answer.                   *)
LEMMA StageMoves ==
    ASSUME TypeOK, NEW r \in Requests, NEW label, GoTo(r, label),
           \A q \in Requests : q # r => reply'[q] = reply[q]
    PROVE  /\ Stage' = [Stage EXCEPT ![r] = StageOf(label)]
           /\ Answer' = [Answer EXCEPT ![r] = IF label \in {"answer", "done"}
                                                THEN reply'[r] ELSE NoReply]
  <1>1. pc' = [pc EXCEPT ![r] = label] /\ pc \in [Requests -> PC]
    BY DEF GoTo, TypeOK
  <1>2. \A q \in Requests : pc'[q] = IF q = r THEN label ELSE pc[q]
    BY <1>1
  <1> QED
    BY <1>2 DEF Stage, Answer

(* A request that stays on the same side of its decision does nothing the  *)
(* atomic specification sees.                                              *)
LEMMA Unseen ==
    ASSUME TypeOK, NEW r \in Requests, pc[r] \in Waiting \cup InTx,
           NEW label \in Waiting \cup InTx, GoTo(r, label),
           \A q \in Requests : q # r => reply'[q] = reply[q],
           UNCHANGED <<rows, seq, purged, input>>
    PROVE  UNCHANGED Atomic!vars
  <1>1. /\ Stage' = [Stage EXCEPT ![r] = StageOf(label)]
        /\ Answer' = [Answer EXCEPT ![r] = NoReply]
    BY StageMoves DEF Waiting, InTx
  <1>2. Stage[r] = StageOf(label) /\ Answer[r] = NoReply
    BY StageOfLabel DEF Stage, Answer, Waiting, InTx
  <1>3. UNCHANGED <<Stage, Answer>>
    BY <1>1, <1>2 DEF Stage, Answer
  <1> QED
    BY <1>3 DEF Atomic!vars, Stage, Answer

(* A client sends a request, or sends it again.                            *)
LEMMA SendImplements ==
    ASSUME TypeOK, NEW r \in Requests, Send(r)
    PROVE  Atomic!Send(r) \/ Atomic!Resend(r)
  <1>1. /\ pc[r] = "idle" \/ pc[r] = "failed"
        /\ GoTo(r, "queued") /\ UNCHANGED <<rows, seq, purged, reply>>
    BY DEF Send, table
  <1>2. /\ Stage' = [Stage EXCEPT ![r] = "open"]
        /\ Answer' = [Answer EXCEPT ![r] = NoReply]
    BY <1>1, StageMoves, StageOfLabel DEF Waiting
  <1>3. Answer[r] = NoReply
    BY <1>1 DEF Answer
  <1>4. Answer' = Answer
    BY <1>2, <1>3 DEF Answer
  <1>5. CASE pc[r] = "idle"
    <2>1. Stage[r] = "new" /\ \E i \in Inputs[r] : input' = [input EXCEPT ![r] = i]
      BY <1>5, StageOfLabel DEF Stage, Send
    <2> QED
      BY <1>1, <1>2, <1>4, <2>1 DEF Atomic!Send, Stage, Answer
  <1>6. CASE pc[r] = "failed"
    <2>1. Stage[r] = "failed" /\ UNCHANGED input
      BY <1>6, StageOfLabel DEF Stage, Send
    <2> QED
      BY <1>1, <1>2, <1>4, <2>1 DEF Atomic!Resend, Stage, Answer
  <1> QED
    BY <1>1, <1>5, <1>6

(* Requests that fail: the caller cannot tell whether those that had been  *)
(* decided took effect.                                                    *)
LEMMA FailedImplements ==
    ASSUME TypeOK, NEW S, S \subseteq Requests, Failed(S),
           \A r \in S : pc[r] \in Waiting \cup InTx \cup {"answer"}
    PROVE  Atomic!Fail
  <1>1. \A r \in S : Stage[r] \in {"open", "decided"}
    BY StageOfLabel DEF Stage
  <1>2. Stage' = [r \in Requests |-> IF r \in S THEN "failed" ELSE Stage[r]]
    BY StageOfLabel DEF Stage, Failed
  <1>3. Answer' = [r \in Requests |-> IF r \in S THEN NoReply ELSE Answer[r]]
    BY DEF Answer, Failed
  <1>4. UNCHANGED <<rows, seq, purged, input>>
    BY DEF Failed, Released, client
  <1>5. S \in SUBSET {r \in Requests : Stage[r] \in {"open", "decided"}}
    BY <1>1
  <1> QED
    BY <1>2, <1>3, <1>4, <1>5 DEF Atomic!Fail, Stage, Answer

(* A known key with another content is refused at the lookup already.      *)
LEMMA LookupKeyImplements ==
    ASSUME IInv, NEW r \in Requests, LookupKey(r)
    PROVE  Atomic!Refuse(r) \/ UNCHANGED Atomic!vars
  <1> DEFINE found == IdsWithKey(txRows, input[r].key)
  <1>1. /\ TypeOK /\ pc[r] = "lookup" /\ IsKeyed(r) /\ input' = input
        /\ txRows = rows /\ txSeq = seq
    BY DEF LookupKey, InTx, client, IInv, Isolation
  <1>2. \A q \in Requests : q # r => reply'[q] = reply[q]
    BY <1>1 DEF LookupKey, Answered, TypeOK
  <1>3. CASE UNCHANGED table /\ (GoTo(r, "insert") \/ GoTo(r, "commit"))
    BY <1>1, <1>2, <1>3, Unseen DEF InTx, table
  <1>4. ASSUME NEW i \in found, txRows[i].hash # input[r].hash,
               Answered(r, "mismatch", i), GoTo(r, "answer"), Released({r})
        PROVE  Atomic!Refuse(r)
    <2>1. reply'[r] = [status |-> "mismatch", id |-> i]
      BY <1>1, <1>4 DEF Answered, TypeOK
    <2>2. /\ Stage' = [Stage EXCEPT ![r] = "decided"]
          /\ Answer' = [Answer EXCEPT ![r] = [status |-> "mismatch", id |-> i]]
      BY <1>1, <1>2, <1>4, <2>1, StageMoves, StageOfLabel
    <2>3. Stage[r] = "open" /\ input[r].op = "submit" /\ input[r].key # NoKey
      BY <1>1, StageOfLabel DEF Stage, InTx, IsKeyed, IsSubmit
    <2>4. i \in IdsWithKey(rows, input[r].key) /\ rows[i].hash # input[r].hash
      BY <1>1, <1>4
    <2>5. UNCHANGED <<rows, seq, purged, input>>
      BY <1>1, <1>4 DEF Released
    <2> QED
      <3>1. i \in Atomic!IdsWithKey(rows, input[r].key)
        BY <2>4, SameQueries
      <3>2. Atomic!Decide(r, [status |-> "mismatch", id |-> i])
        BY <2>2, <2>5 DEF Atomic!Decide, Stage, Answer
      <3> QED
        BY <2>3, <2>4, <2>5, <3>1, <3>2 DEF Atomic!Refuse, Stage
  <1> QED
    BY <1>3, <1>4 DEF LookupKey

(* The commit is the moment at which a request takes effect.               *)
LEMMA CommitImplements ==
    ASSUME IInv, AllPrepared, NEW r \in Requests, Commit(r)
    PROVE  Atomic!Create(r) \/ Atomic!Recognise(r) \/ Atomic!SetProcessed(r)
  <1>1. /\ TypeOK /\ pc[r] = "commit" /\ GoTo(r, "answer") /\ rows' = txRows /\ seq' = txSeq
        /\ UNCHANGED <<purged, input, reply>>
    BY DEF IInv, Commit, client
  <1>2. /\ Stage' = [Stage EXCEPT ![r] = "decided"]
        /\ Answer' = [Answer EXCEPT ![r] = reply[r]]
    BY <1>1, StageMoves, StageOfLabel
  <1>3. Stage[r] = "open"
    BY <1>1, StageOfLabel DEF Stage, InTx
  <1>4. CASE IsSubmit(r) /\ Created(r)
    BY <1>1, <1>2, <1>3, <1>4, SameQueries, SameUpdates
    DEF Created, IsSubmit, Atomic!Create, Atomic!Decide, Stage, Answer
  <1>5. CASE IsSubmit(r) /\ Recognised(r)
    BY <1>1, <1>2, <1>3, <1>5
    DEF Recognised, IsSubmit, Atomic!Recognise, Atomic!Decide, Stage, Answer
  <1>6. CASE ~IsSubmit(r) /\ BatchApplied(r)
    <2>1. input[r].op = "process"
      BY <1>1, <1>6, InputKinds DEF IsBatch
    <2>2. \E t \in Times :
            rows' = Atomic!Applied(rows, Atomic!Updated(rows, input[r]), input[r], t)
      BY <1>1, <1>6, SameQueries, SameUpdates DEF BatchApplied
    <2>3. reply[r] = [status |-> "processed",
                      updated |-> Atomic!Updated(rows, input[r]),
                      unchanged |-> Atomic!Unchanged(rows, input[r]),
                      notFound |-> Atomic!NotFound(rows, input[r])]
      BY <1>6, SameQueries DEF BatchApplied, Classification
    <2>4. seq' = seq
      BY <1>1, <1>6 DEF BatchApplied
    <2> QED
      BY <1>1, <1>2, <1>3, <2>1, <2>2, <2>3, <2>4
      DEF Atomic!SetProcessed, Atomic!Decide, Stage, Answer
  <1> QED
    BY <1>1, <1>4, <1>5, <1>6 DEF AllPrepared, Prepared

(* An answer arrives.                                                      *)
LEMMA DeliverImplements ==
    ASSUME TypeOK, NEW r \in Requests, Deliver(r)
    PROVE  Atomic!Deliver(r)
  <1>1. pc[r] = "answer" /\ GoTo(r, "done") /\ UNCHANGED <<rows, seq, purged, input, reply>>
    BY DEF Deliver, table, client
  <1>2. /\ Stage' = [Stage EXCEPT ![r] = "done"]
        /\ Answer' = [Answer EXCEPT ![r] = reply[r]]
    BY <1>1, StageMoves, StageOfLabel
  <1>3. Stage[r] = "decided" /\ Answer[r] = reply[r]
    BY <1>1, StageOfLabel DEF Stage, Answer
  <1>4. Answer' = Answer
    BY <1>2, <1>3 DEF Answer
  <1> QED
    BY <1>1, <1>2, <1>3, <1>4 DEF Atomic!Deliver, Stage, Answer

(* A purge is a purge there.                                               *)
LEMMA PurgeImplements ==
    ASSUME Purge
    PROVE  Atomic!Purge
  <1>1. UNCHANGED <<seq, Stage, input, Answer>>
    BY DEF Purge, client, Stage, Answer
  <1> QED
    BY <1>1, SameQueries, SameUpdates DEF Purge, Atomic!Purge, Stage, Answer

(* Every step is a step of the atomic specification, or changes nothing    *)
(* there.                                                                  *)
LEMMA NextImplements ==
    IInv /\ AllPrepared /\ [Next]_vars => [Atomic!Next]_(Atomic!vars)
  <1> SUFFICES ASSUME IInv, AllPrepared, [Next]_vars
               PROVE  Atomic!Next \/ UNCHANGED Atomic!vars
    OBVIOUS
  <1>1. TypeOK
    BY DEF IInv
  <1>2. ASSUME NEW r \in Requests, Send(r) PROVE Atomic!Next
    BY <1>1, <1>2, SendImplements DEF Atomic!Next
  <1>3. ASSUME NEW r \in Requests, Commit(r) PROVE Atomic!Next
    BY <1>3, CommitImplements DEF Atomic!Next
  <1>4. ASSUME NEW r \in Requests, Deliver(r) PROVE Atomic!Next
    BY <1>1, <1>4, DeliverImplements DEF Atomic!Next
  <1>5. ASSUME NEW r \in Requests, LookupKey(r)
        PROVE  Atomic!Next \/ UNCHANGED Atomic!vars
    BY <1>5, LookupKeyImplements DEF Atomic!Next
  <1>6. ASSUME NEW r \in Requests,
               \/ TakeConnection(r) \/ BeginImmediate(r) \/ InsertKeyed(r)
               \/ LookupFriction(r) \/ InsertFriction(r) \/ Classify(r) \/ Apply(r)
        PROVE  UNCHANGED Atomic!vars
    <2>1. UNCHANGED <<rows, seq, purged, input>> /\ pc[r] \in Waiting \cup InTx
      BY <1>6
      DEF TakeConnection, BeginImmediate, InsertKeyed, LookupFriction, InsertFriction, Insert,
          Classify, Apply, table, client, Waiting, InTx
    <2>2. \A q \in Requests : q # r => reply'[q] = reply[q]
      BY <1>1, <1>6
      DEF TypeOK, TakeConnection, BeginImmediate, InsertKeyed, LookupFriction, InsertFriction,
          Insert, Classify, Apply, Answered
    <2>3. \E label \in Waiting \cup InTx : GoTo(r, label)
      BY <1>6
      DEF TakeConnection, BeginImmediate, InsertKeyed, LookupFriction, InsertFriction, Insert,
          Classify, Apply, Waiting, InTx
    <2> QED
      BY <1>1, <2>1, <2>2, <2>3, Unseen
  <1>7. ASSUME NEW r \in Requests, Busy(r) \/ Abort(r) \/ LoseAnswer(r) PROVE Atomic!Next
    <2>1. Failed({r}) /\ pc[r] \in Waiting \cup InTx \cup {"answer"}
      BY <1>7 DEF Busy, Abort, LoseAnswer, Waiting
    <2>2. Atomic!Fail
      BY <1>1, <2>1, FailedImplements
    <2> QED
      BY <2>2 DEF Atomic!Next
  <1>8. ASSUME NEW s \in Servers, Crash(s) PROVE Atomic!Next
    <2>1. Atomic!Fail
      BY <1>1, <1>8, FailedImplements DEF Crash
    <2> QED
      BY <2>1 DEF Atomic!Next
  <1>9. CASE Purge
    BY <1>9, PurgeImplements DEF Atomic!Next
  <1>10. CASE UNCHANGED vars
    BY <1>10 DEF vars, table, client, Atomic!vars
  <1> QED
    BY <1>2, <1>3, <1>4, <1>5, <1>6, <1>7, <1>8, <1>9, <1>10 DEF Next, Handle

(* The write path implements the atomic inbox: with any number of servers, *)
(* requests, failures and crashes, each request takes effect at once, with *)
(* the answer it is given, or not at all.                                  *)
THEOREM WritePathImplementsInbox == Spec => ImplementsInbox
  <1>1. Init => Atomic!Init
    <2>1. Init => Stage = [r \in Requests |-> "new"] /\ Answer = [r \in Requests |-> NoReply]
      BY StageOfLabel DEF Init, Stage, Answer
    <2> QED
      BY <2>1 DEF Init, Atomic!Init, Stage, Answer
  <1>2. IInv /\ AllPrepared /\ [Next]_vars => [Atomic!Next]_(Atomic!vars)
    BY NextImplements
  <1> QED
    BY <1>1, <1>2, Invariant, TransactionsPrepared, PTL DEF Spec, ImplementsInbox, Atomic!Spec
============================================================================
