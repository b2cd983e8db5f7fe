------------------------------- MODULE Inbox -------------------------------
(***************************************************************************)
(* What the write API promises, with every request taking effect at once:  *)
(* a keyed submission is stored, recognised as a replay or refused as a    *)
(* mismatch; a friction is stored or absorbed; a processed batch changes   *)
(* exactly the rows its answer names.  A request may fail, before or after *)
(* it took effect, and be sent again.  WritePath shows how the code does   *)
(* this with a transaction; it implements this specification.              *)
(***************************************************************************)
EXTENDS Submissions

CONSTANTS
    Requests,   \* the calls clients make; one may be sent several times
    Inputs,     \* per request: the bodies it may carry
    NoInput,    \* before a request was first sent
    NoReply     \* before it was decided

VARIABLES
    rows,     \* the table
    seq,      \* sqlite_sequence: the highest id ever assigned
    purged,   \* ids the operator's retention purge deleted (history)
    stage,    \* per request: new, open, decided, done, failed
    input,    \* per request: its body
    answer    \* per request: the answer decided for it

vars == <<rows, seq, purged, stage, input, answer>>

Init ==
    /\ rows = <<>>
    /\ seq = 0
    /\ purged = {}
    /\ stage = [r \in Requests |-> "new"]
    /\ input = [r \in Requests |-> NoInput]
    /\ answer = [r \in Requests |-> NoReply]

Send(r) ==
    /\ stage[r] = "new"
    /\ \E i \in Inputs[r] : input' = [input EXCEPT ![r] = i]
    /\ stage' = [stage EXCEPT ![r] = "open"]
    /\ UNCHANGED <<rows, seq, purged, answer>>

Resend(r) ==
    /\ stage[r] = "failed"
    /\ stage' = [stage EXCEPT ![r] = "open"]
    /\ UNCHANGED <<rows, seq, purged, input, answer>>

Decide(r, a) ==
    /\ stage' = [stage EXCEPT ![r] = "decided"]
    /\ answer' = [answer EXCEPT ![r] = a]
    /\ UNCHANGED <<purged, input>>

Create(r) ==
    /\ stage[r] = "open" /\ input[r].op = "submit"
    /\ \E now \in Times :
         /\ IF input[r].key = NoKey
              THEN RecentFrictions(rows, input[r].hash, now - Window) = {}
              ELSE IdsWithKey(rows, input[r].key) = {}
         /\ rows' = Inserted(rows, seq + 1, NewRow(input[r].key, input[r].hash, now))
    /\ seq' = seq + 1
    /\ Decide(r, [status |-> "created", id |-> seq + 1])

(* A replayed key or an absorbed friction: nothing changes.                *)
Recognise(r) ==
    /\ stage[r] = "open" /\ input[r].op = "submit"
    /\ \E i \in DOMAIN rows :
         /\ rows[i].key = input[r].key
         /\ rows[i].hash = input[r].hash
         /\ input[r].key = NoKey => \E now \in Times : rows[i].created >= now - Window
         /\ Decide(r, [status |-> "existing", id |-> i])
    /\ UNCHANGED <<rows, seq>>

Refuse(r) ==
    /\ stage[r] = "open" /\ input[r].op = "submit"
    /\ input[r].key # NoKey
    /\ \E i \in IdsWithKey(rows, input[r].key) :
         /\ rows[i].hash # input[r].hash
         /\ Decide(r, [status |-> "mismatch", id |-> i])
    /\ UNCHANGED <<rows, seq>>

SetProcessed(r) ==
    /\ stage[r] = "open" /\ input[r].op = "process"
    /\ \E now \in Times :
         rows' = Applied(rows, Updated(rows, input[r]), input[r], now)
    /\ Decide(r, [status |-> "processed",
                  updated |-> Updated(rows, input[r]),
                  unchanged |-> Unchanged(rows, input[r]),
                  notFound |-> NotFound(rows, input[r])])
    /\ UNCHANGED seq

Deliver(r) ==
    /\ stage[r] = "decided"
    /\ stage' = [stage EXCEPT ![r] = "done"]
    /\ UNCHANGED <<rows, seq, purged, input, answer>>

(* Any set of requests may fail, decided ones included: the caller cannot  *)
(* tell whether the request took effect.                                   *)
Fail ==
    \E S \in SUBSET {r \in Requests : stage[r] \in {"open", "decided"}} :
        /\ stage' = [r \in Requests |-> IF r \in S THEN "failed" ELSE stage[r]]
        /\ answer' = [r \in Requests |-> IF r \in S THEN NoReply ELSE answer[r]]
        /\ UNCHANGED <<rows, seq, purged, input>>

Purge ==
    \E cutoff \in Times :
        /\ purged' = purged \cup Purged(rows, cutoff)
        /\ rows' = Without(rows, Purged(rows, cutoff))
        /\ UNCHANGED <<seq, stage, input, answer>>

Next ==
    \/ \E r \in Requests :
         \/ Send(r) \/ Resend(r)
         \/ Create(r) \/ Recognise(r) \/ Refuse(r) \/ SetProcessed(r)
         \/ Deliver(r)
    \/ Fail
    \/ Purge

Spec == Init /\ [][Next]_vars
============================================================================
