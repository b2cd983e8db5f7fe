----------------------------- MODULE WritePath -----------------------------
(***************************************************************************)
(* The write path of the server: concurrent handlers of POST frictions,    *)
(* reviews, events and submissions/processed, each running one transaction *)
(* of store.Write.  Several processes may have the database file open (a   *)
(* server, a second one started beside it, a maintenance command); inside  *)
(* one process the writer pool has a single connection, between processes  *)
(* BEGIN IMMEDIATE takes SQLite's write lock or fails as busy.             *)
(*                                                                         *)
(* rows and seq are the committed table; txRows and txSeq are what the     *)
(* holder of the write lock sees, and equal the committed table whenever   *)
(* no transaction is open.  A clock reading is any member of Times: the    *)
(* code reads the wall clock, which may stand still or step back.          *)
(***************************************************************************)
EXTENDS Submissions

CONSTANTS
    Requests,     \* the calls clients make
    Inputs,       \* per request: the bodies it may carry, after validation
    Servers,      \* processes with the database open through store.Open
    ServerOf,     \* the server each request is sent to
    MaxAttempts,  \* per request, a bound: how often it is sent
    NoInput, NoReply, Nobody

ASSUME InputsAssumption == Inputs \in [Requests -> SUBSET (SubmitRequest \cup ProcessRequest)]
ASSUME NobodyAssumption == Nobody \notin Requests
ASSUME ServersAssumption == ServerOf \in [Requests -> Servers]
ASSUME AttemptsAssumption == MaxAttempts \in [Requests -> Nat]

VARIABLES
    rows, seq,      \* the committed table
    txRows, txSeq,  \* the table as the open write transaction sees it
    purged,         \* ids deleted by the retention purge (history)
    lock,           \* SQLite's write lock: a request or Nobody
    conn,           \* per server: who has its writer connection
    pc,             \* per request: where its handler stands
    attempts,       \* per request: how often it was sent
    input,          \* per request: its body
    now,            \* per request: the clock reading CreateFriction kept
    reply           \* per request: the answer its handler is going to give

table == <<rows, seq, txRows, txSeq, purged>>
client == <<attempts, input>>
vars == <<table, lock, conn, pc, client, now, reply>>

(* Program counters: before the transaction, inside it, and after it.      *)
Waiting == {"queued", "begin"}
InTx == {"lookup", "insert", "apply", "commit"}
Ended == {"done", "failed"}
PC == {"idle"} \cup Waiting \cup InTx \cup {"answer"} \cup Ended

Reply ==
    [status : {"created", "existing", "mismatch"}, id : Nat]
    \cup [status : {"processed"}, updated : SUBSET Nat,
          unchanged : SUBSET Nat, notFound : SUBSET Nat]

TypeOK ==
    /\ IsTable(rows, seq)
    /\ IsTable(txRows, txSeq)
    /\ purged \subseteq 1..seq
    /\ lock \in Requests \cup {Nobody}
    /\ conn \in [Servers -> Requests \cup {Nobody}]
    /\ pc \in [Requests -> PC]
    /\ attempts \in [Requests -> Nat]
    /\ input \in [Requests -> SubmitRequest \cup ProcessRequest \cup {NoInput}]
    /\ \A r \in Requests : pc[r] # "idle" => input[r] \in Inputs[r]
    /\ now \in [Requests -> Stamp]
    /\ reply \in [Requests -> Reply \cup {NoReply}]

Init ==
    /\ rows = <<>> /\ seq = 0
    /\ txRows = <<>> /\ txSeq = 0
    /\ purged = {}
    /\ lock = Nobody
    /\ conn = [s \in Servers |-> Nobody]
    /\ pc = [r \in Requests |-> "idle"]
    /\ attempts = [r \in Requests |-> 0]
    /\ input = [r \in Requests |-> NoInput]
    /\ now = [r \in Requests |-> Null]
    /\ reply = [r \in Requests |-> NoReply]

----------------------------------------------------------------------------
(* The client: one request, sent until it is answered or given up.         *)

GoTo(r, label) == pc' = [pc EXCEPT ![r] = label]

Send(r) ==
    /\ pc[r] = "idle" \/ pc[r] = "failed"
    /\ attempts[r] < MaxAttempts[r]
    /\ attempts' = [attempts EXCEPT ![r] = @ + 1]
    /\ IF pc[r] = "idle"
         THEN \E i \in Inputs[r] : input' = [input EXCEPT ![r] = i]
         ELSE UNCHANGED input
    /\ GoTo(r, "queued")
    /\ UNCHANGED <<table, lock, conn, now, reply>>

----------------------------------------------------------------------------
(* store.Write: the connection, the lock, the end of the transaction.      *)

IsSubmit(r) == input[r].op = "submit"
IsFriction(r) == IsSubmit(r) /\ input[r].key = NoKey
IsKeyed(r) == IsSubmit(r) /\ input[r].key # NoKey
IsBatch(r) == input[r].op = "process"

TakeConnection(r) ==
    /\ pc[r] = "queued"
    /\ conn[ServerOf[r]] = Nobody
    /\ conn' = [conn EXCEPT ![ServerOf[r]] = r]
    /\ GoTo(r, "begin")
    /\ UNCHANGED <<table, lock, client, now, reply>>

\* Mutant: a deferred BEGIN, which does not take the write lock.
BeginDeferred(r) ==
    /\ pc[r] = "begin"
    /\ lock' = r
    /\ GoTo(r, "lookup")
    /\ UNCHANGED <<table, conn, client, now, reply>>

BeginImmediate(r) ==
    /\ pc[r] = "begin"
    /\ lock = Nobody
    /\ lock' = r
    /\ GoTo(r, "lookup")
    /\ UNCHANGED <<table, conn, client, now, reply>>

\* Mutant: an error return leaves the transaction open (no deferred Rollback).
LeftOpen(S) == UNCHANGED <<table, lock, conn>>

\* Mutant: the lock is given back, the writes stay.
ReleasedDirty(S) ==
    /\ lock' = IF lock \in S THEN Nobody ELSE lock
    /\ conn' = [s \in Servers |-> IF conn[s] \in S THEN Nobody ELSE conn[s]]
    /\ UNCHANGED table

(* The deferred Rollback: the transaction's writes are dropped, lock and   *)
(* connection are given back.                                              *)
Released(S) ==
    /\ lock' = IF lock \in S THEN Nobody ELSE lock
    /\ txRows' = IF lock \in S THEN rows ELSE txRows
    /\ txSeq' = IF lock \in S THEN seq ELSE txSeq
    /\ conn' = [s \in Servers |-> IF conn[s] \in S THEN Nobody ELSE conn[s]]
    /\ UNCHANGED <<rows, seq, purged>>

(* A request that ends without an answer, or with a 500.                   *)
Failed(S) ==
    /\ Released(S)
    /\ pc' = [r \in Requests |-> IF r \in S THEN "failed" ELSE pc[r]]
    /\ reply' = [r \in Requests |-> IF r \in S THEN NoReply ELSE reply[r]]
    /\ now' = [r \in Requests |-> IF r \in S THEN Null ELSE now[r]]
    /\ UNCHANGED client

(* Another process held the lock for the whole busy_timeout.               *)
Busy(r) ==
    /\ pc[r] = "begin"
    /\ lock # Nobody
    /\ Failed({r})

(* The client hung up (the context is cancelled), a statement or the       *)
(* commit failed.                                                          *)
Abort(r) ==
    /\ pc[r] \in Waiting \cup InTx
    /\ Failed({r})

\* Mutant: the error of Commit is ignored and the request answered.
CommitUnchecked(r) ==
    /\ pc[r] = "commit"
    /\ \/ rows' = txRows /\ seq' = txSeq /\ UNCHANGED <<txRows, txSeq>>
       \/ txRows' = rows /\ txSeq' = seq /\ UNCHANGED <<rows, seq>>
    /\ lock' = Nobody
    /\ conn' = [conn EXCEPT ![ServerOf[r]] = Nobody]
    /\ GoTo(r, "answer")
    /\ UNCHANGED <<purged, client, now, reply>>

Commit(r) ==
    /\ pc[r] = "commit"
    /\ rows' = txRows
    /\ seq' = txSeq
    /\ lock' = Nobody
    /\ conn' = [conn EXCEPT ![ServerOf[r]] = Nobody]
    /\ GoTo(r, "answer")
    /\ UNCHANGED <<txRows, txSeq, purged, client, now, reply>>

----------------------------------------------------------------------------
(* createKeyed: look the key up; replay, refuse, or insert.                *)

Answered(r, status, id) ==
    reply' = [reply EXCEPT ![r] = [status |-> status, id |-> id]]

\* Mutant: a known key is a replay whatever its content.
LookupKeyOnly(r) ==
    /\ pc[r] = "lookup"
    /\ IsKeyed(r)
    /\ LET found == IdsWithKey(txRows, input[r].key) IN
         \/ /\ found = {}
            /\ GoTo(r, "insert")
            /\ UNCHANGED reply
         \/ /\ \E i \in found : Answered(r, "existing", i)
            /\ GoTo(r, "commit")
    /\ UNCHANGED <<table, lock, conn, client, now>>

LookupKey(r) ==
    /\ pc[r] = "lookup"
    /\ IsKeyed(r)
    /\ LET found == IdsWithKey(txRows, input[r].key) IN
         \/ /\ found = {}
            /\ GoTo(r, "insert")
            /\ UNCHANGED <<table, lock, conn, reply>>
         \/ /\ \E i \in found :
                 /\ txRows[i].hash = input[r].hash
                 /\ Answered(r, "existing", i)
            /\ GoTo(r, "commit")
            /\ UNCHANGED <<table, lock, conn>>
         \/ /\ \E i \in found :
                 /\ txRows[i].hash # input[r].hash
                 /\ Answered(r, "mismatch", i)
            /\ GoTo(r, "answer")
            /\ Released({r})
    /\ UNCHANGED <<client, now>>

\* Mutant: the sequence is not advanced with the row.
InsertOutOfSequence(r, created) ==
    /\ txRows' = Inserted(txRows, txSeq + 1, NewRow(input[r].key, input[r].hash, created))
    /\ Answered(r, "created", txSeq + 1)
    /\ GoTo(r, "commit")
    /\ UNCHANGED <<rows, seq, txSeq, purged, lock, conn, client, now>>

\* Mutant: ids without AUTOINCREMENT, the highest present plus one.
InsertAfterHighest(r, created) ==
    LET id == CHOOSE i \in 1..(txSeq + 1) :
                /\ i \notin DOMAIN txRows
                /\ \A j \in DOMAIN txRows : j < i
                /\ i = 1 \/ i - 1 \in DOMAIN txRows IN
    /\ txSeq' = IF id > txSeq THEN id ELSE txSeq
    /\ txRows' = Inserted(txRows, id, NewRow(input[r].key, input[r].hash, created))
    /\ Answered(r, "created", id)
    /\ GoTo(r, "commit")
    /\ UNCHANGED <<rows, seq, purged, lock, conn, client, now>>

Insert(r, created) ==
    /\ txSeq' = txSeq + 1
    /\ txRows' = Inserted(txRows, txSeq + 1, NewRow(input[r].key, input[r].hash, created))
    /\ Answered(r, "created", txSeq + 1)
    /\ GoTo(r, "commit")
    /\ UNCHANGED <<rows, seq, purged, lock, conn, client, now>>

InsertKeyed(r) ==
    /\ pc[r] = "insert"
    /\ IsKeyed(r)
    /\ \E t \in Times : Insert(r, t)

\* Mutant: the row is stamped with a second reading of the clock.
LookupFrictionReread(r) ==
    /\ pc[r] = "lookup"
    /\ IsFriction(r)
    /\ \E t, u \in Times :
         LET recent == RecentFrictions(txRows, input[r].hash, t - Window) IN
           \/ /\ recent # {}
              /\ \E i \in Newest(txRows, recent) : Answered(r, "existing", i)
              /\ GoTo(r, "commit")
              /\ UNCHANGED now
           \/ /\ recent = {}
              /\ now' = [now EXCEPT ![r] = u]
              /\ GoTo(r, "insert")
              /\ UNCHANGED reply
    /\ UNCHANGED <<table, lock, conn, client>>

(* CreateFriction: the clock is read before the lookup and kept.           *)
LookupFriction(r) ==
    /\ pc[r] = "lookup"
    /\ IsFriction(r)
    /\ \E t \in Times :
         LET recent == RecentFrictions(txRows, input[r].hash, t - Window) IN
           \/ /\ recent # {}
              /\ \E i \in Newest(txRows, recent) : Answered(r, "existing", i)
              /\ GoTo(r, "commit")
              /\ UNCHANGED now
           \/ /\ recent = {}
              /\ now' = [now EXCEPT ![r] = t]
              /\ GoTo(r, "insert")
              /\ UNCHANGED reply
    /\ UNCHANGED <<table, lock, conn, client>>

InsertFriction(r) ==
    /\ pc[r] = "insert"
    /\ IsFriction(r)
    /\ Insert(r, now[r])

(* SetProcessed: classify the batch, then change the rows it named.        *)
Classify(r) ==
    /\ pc[r] = "lookup"
    /\ IsBatch(r)
    /\ reply' = [reply EXCEPT ![r] =
                   [status |-> "processed",
                    updated |-> Updated(txRows, input[r]),
                    unchanged |-> Unchanged(txRows, input[r]),
                    notFound |-> NotFound(txRows, input[r])]]
    /\ GoTo(r, IF Updated(txRows, input[r]) = {} THEN "commit" ELSE "apply")
    /\ UNCHANGED <<table, lock, conn, client, now>>

Apply(r) ==
    /\ pc[r] = "apply"
    /\ \E t \in Times : txRows' = Applied(txRows, reply[r].updated, input[r], t)
    /\ GoTo(r, "commit")
    /\ UNCHANGED <<rows, seq, txSeq, purged, lock, conn, client, now, reply>>

----------------------------------------------------------------------------
(* The answer, and what may go wrong with it.                              *)

Deliver(r) ==
    /\ pc[r] = "answer"
    /\ GoTo(r, "done")
    /\ UNCHANGED <<table, lock, conn, client, now, reply>>

(* The client stopped waiting (curl -m 10) or the connection broke.        *)
LoseAnswer(r) ==
    /\ pc[r] = "answer"
    /\ Failed({r})

(* A server process dies: SQLite rolls its open transaction back.          *)
Crash(s) ==
    LET S == {r \in Requests :
                ServerOf[r] = s /\ pc[r] \in Waiting \cup InTx \cup {"answer"}} IN
    /\ S # {}
    /\ Failed(S)

(* The documented retention purge: one DELETE by the sqlite3 shell.        *)
Purge ==
    /\ lock = Nobody
    /\ \E cutoff \in Times :
         LET gone == Purged(rows, cutoff) IN
         /\ gone # {}
         /\ purged' = purged \cup gone
         /\ rows' = Without(rows, gone)
         /\ txRows' = Without(rows, gone)
    /\ UNCHANGED <<seq, txSeq, lock, conn, pc, client, now, reply>>

----------------------------------------------------------------------------
Handle(r) ==
    \/ TakeConnection(r) \/ BeginImmediate(r) \/ Busy(r)
    \/ LookupKey(r) \/ InsertKeyed(r)
    \/ LookupFriction(r) \/ InsertFriction(r)
    \/ Classify(r) \/ Apply(r)
    \/ Commit(r) \/ Deliver(r)

Next ==
    \/ \E r \in Requests : Send(r) \/ Handle(r) \/ Abort(r) \/ LoseAnswer(r)
    \/ \E s \in Servers : Crash(s)
    \/ Purge

Spec == Init /\ [][Next]_vars

(* A running handler is never abandoned by the Go scheduler, the pool      *)
(* serves its waiters, and a BEGIN IMMEDIATE ends by lock or by timeout.   *)
FairSpec == Spec /\ \A r \in Requests : WF_vars(Handle(r))

----------------------------------------------------------------------------
(* Only the holder of the write lock is inside a transaction, and what it  *)
(* has not written yet is what is committed.                               *)
Isolation ==
    /\ \A r \in Requests : pc[r] \in InTx <=> lock = r
    /\ lock = Nobody \/ pc[lock] \in {"lookup", "insert", "apply"}
         => txRows = rows /\ txSeq = seq

(* The writer connection of a server belongs to the request using it.      *)
OneConnection ==
    \A r \in Requests, s \in Servers :
        conn[s] = r <=> ServerOf[r] = s /\ pc[r] \in {"begin"} \cup InTx

(* createKeyed's existence check still holds when it inserts, and so does  *)
(* CreateFriction's at the clock reading it kept: the unique index never   *)
(* has to refuse an insert.                                                *)
CheckHoldsAtInsert ==
    \A r \in Requests :
        pc[r] = "insert" =>
          \/ IsKeyed(r) /\ IdsWithKey(txRows, input[r].key) = {}
          \/ /\ IsFriction(r)
             /\ now[r] \in Int
             /\ RecentFrictions(txRows, input[r].hash, now[r] - Window) = {}

(* The committed table keeps its rules: one row per key, frictions of one  *)
(* content spaced by more than the window, resolutions on processed rows.  *)
TableRules ==
    /\ OneRowPerKey(rows)
    /\ FrictionsSpaced(rows)
    /\ ResolvedAreProcessed(rows)

(* What an answer says is true of the committed table from the moment the  *)
(* handler may give it, until a purge: a created or existing id holds the  *)
(* caller's content, a mismatch names a row of the same key with another.  *)
AnswersTruthful ==
    \A r \in Requests :
        /\ pc[r] \in {"answer", "done"}
        /\ IsSubmit(r)
        => \/ reply[r].id \in purged
           \/ /\ reply[r].id \in DOMAIN rows
              /\ rows[reply[r].id].key = input[r].key
              /\ reply[r].status = "mismatch" <=> rows[reply[r].id].hash # input[r].hash

(* An id is handed out once: every id that appears is above every id ever  *)
(* committed, those of purged rows included.                               *)
IdsNeverReused ==
    [][\A i \in DOMAIN rows' \ DOMAIN rows : i > seq /\ i \notin purged]_vars

(* Rows are write-once: only the processing mark changes, only a purge     *)
(* removes a row, and a processed row keeps its first timestamp until it   *)
(* is unmarked.                                                            *)
SameContent(old, new) ==
    /\ new.key = old.key /\ new.hash = old.hash /\ new.created = old.created
    /\ old.processed # Null /\ new.processed # Null => new.processed = old.processed

WriteOnce ==
    [][\A i \in DOMAIN rows :
         \/ i \in DOMAIN rows' /\ SameContent(rows[i], rows'[i])
         \/ i \in purged']_vars

(* The classification a batch answers with is what its commit did: updated *)
(* rows changed, all others stayed, unchanged ones were there already.     *)
ClassificationTruthful ==
    [][\A r \in Requests :
         pc[r] = "commit" /\ pc'[r] = "answer" /\ IsBatch(r) =>
           /\ reply[r].updated = {i \in DOMAIN rows : rows'[i] # rows[i]}
           /\ reply[r].notFound \cap DOMAIN rows = {}
           /\ \A i \in reply[r].unchanged \cup reply[r].updated :
                /\ (rows'[i].processed # Null) = input[r].processed
                /\ input[r].resolution # Null
                     => rows'[i].resolution = input[r].resolution]_vars

(* Every request a server received is answered or fails; nothing waits     *)
(* for a connection or a lock forever.                                     *)
EveryRequestEnds ==
    \A r \in Requests : pc[r] \in Waiting \cup InTx ~> pc[r] \in {"answer"} \cup Ended

----------------------------------------------------------------------------
(* The atomic specification this one implements: a request is open until   *)
(* its transaction ended, and decided when its answer is settled.          *)
StageOf(label) ==
    CASE label = "idle" -> "new"
      [] label \in Waiting \cup InTx -> "open"
      [] label = "answer" -> "decided"
      [] label \in Ended -> label

Atomic == INSTANCE Inbox WITH
    stage <- [r \in Requests |-> StageOf(pc[r])],
    answer <- [r \in Requests |->
                 IF pc[r] \in {"answer", "done"} THEN reply[r] ELSE NoReply]

(* Every step of a transaction is a step of Inbox or changes nothing there. *)
ImplementsInbox == Atomic!Spec
============================================================================
