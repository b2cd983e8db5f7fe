--------------------------- MODULE FrictionRetry ---------------------------
(***************************************************************************)
(* Frictions carry no idempotency key: a report is retried blindly from    *)
(* the client's spool and the server absorbs an identical friction seen    *)
(* within its dedupe window.  This module follows reports from             *)
(* submit-friction.sh through the spool (af_spool, af_prune_spool,         *)
(* af_flush_spool) to CreateFriction, on one time line, with requests that *)
(* are lost, answered too late, or handled after the client gave up, and   *)
(* with several flushers working on the same spool.                        *)
(*                                                                         *)
(* The server's transaction is one step here; WritePath shows it may be.   *)
(* Client and server clocks are assumed to run at the same rate (only      *)
(* differences of readings of one clock are ever compared).                *)
(***************************************************************************)
EXTENDS Submissions

CONSTANTS
    Reports,    \* things that went wrong, each submitted once by a client
    Content,    \* the hash of each report's content
    Flushers,   \* processes that flush the spool
    MaxAge,     \* AF_FRICTION_MAX_AGE_MINS, the age at which a file is dropped
    Timeout,    \* the longest a client waits for an answer (curl -m)
    Latency,    \* the longest a request may be under way before it is stored
    FlushTime,  \* the longest one flush lasts after it pruned the spool
    Horizon,    \* bound: the last instant considered
    Client,     \* the submitting script itself, as the sender of a try
    Idle        \* a flusher that is not running, or is not posting

ASSUME ContentAssumption == Content \in [Reports -> Hashes]
ASSUME DurationAssumption ==
    /\ MaxAge \in Nat /\ Timeout \in Nat /\ Latency \in Nat /\ FlushTime \in Nat
    /\ Horizon \in Nat
(* What makes blind retries safe: a report is younger than the window when *)
(* its last try reaches the server.                                        *)
SafeDurations == Timeout + MaxAge + FlushTime + Latency <= Window

VARIABLES
    now,       \* the time
    rows, seq, \* the server's table
    author,    \* for each row the report whose try created it (history)
    phase,     \* per report: its Phase
    first,     \* per report: when it was first sent
    mtime,     \* per report: when its spool file was written
    flusher,   \* per flusher: Idle, or one run of af_flush_spool
    tries,     \* requests under way
    answers,   \* tries answered by a 200 or 201 their sender still waits for
    heard      \* reports a try of which the server has handled (history)

server == <<rows, seq, author>>
spool == <<phase, first, mtime>>
vars == <<now, server, spool, flusher, tries, answers, heard>>

(* In the spool a report is a .json file, or .inflight once claimed.       *)
Phase == {"new", "sending", "json", "inflight", "delivered", "dropped"}
Try == [report : Reports, sent : Int, by : Flushers \cup {Client}]

(* A run of af_flush_spool: when it pruned, the files it has not reached,  *)
(* and the request it waits for.                                           *)
Flush == [began : Int, todo : SUBSET Reports, posting : Try \cup {Idle}]

ASSUME IdleAssumption ==
    Idle \notin Try /\ Idle \notin Flush /\ Client \notin Flushers

TypeOK ==
    /\ now \in Nat
    /\ IsTable(rows, seq)
    /\ author \in [DOMAIN rows -> Reports]
    /\ phase \in [Reports -> Phase]
    /\ first \in [Reports -> Nat]
    /\ mtime \in [Reports -> Nat]
    /\ flusher \in [Flushers -> Flush \cup {Idle}]
    /\ tries \subseteq Try
    /\ answers \subseteq Try
    /\ heard \subseteq Reports

Init ==
    /\ now = 0
    /\ rows = <<>> /\ seq = 0 /\ author = <<>>
    /\ phase = [r \in Reports |-> "new"]
    /\ first = [r \in Reports |-> 0]
    /\ mtime = [r \in Reports |-> 0]
    /\ flusher = [f \in Flushers |-> Idle]
    /\ tries = {} /\ answers = {}
    /\ heard = {}

----------------------------------------------------------------------------
(* submit-friction.sh: one try, then the spool.                            *)

Request(r, who) == [report |-> r, sent |-> now, by |-> who]

Submit(r) ==
    /\ phase[r] = "new"
    /\ phase' = [phase EXCEPT ![r] = "sending"]
    /\ first' = [first EXCEPT ![r] = now]
    /\ tries' = tries \cup {Request(r, Client)}
    /\ UNCHANGED <<now, server, mtime, flusher, answers, heard>>

(* A valid 200 or 201 arrived.                                             *)
Accept(m) ==
    /\ m.by = Client
    /\ phase[m.report] = "sending"
    /\ phase' = [phase EXCEPT ![m.report] = "delivered"]
    /\ answers' = answers \ {m}
    /\ UNCHANGED <<now, server, first, mtime, flusher, tries, heard>>

(* No answer in time, a server error, or a malformed success: the payload  *)
(* is spooled, whether or not the server has it.                           *)
Spool(r) ==
    /\ phase[r] = "sending"
    /\ phase' = [phase EXCEPT ![r] = "json"]
    /\ mtime' = [mtime EXCEPT ![r] = now]
    /\ answers' = {m \in answers : m.by # Client \/ m.report # r}
    /\ UNCHANGED <<now, server, first, flusher, tries, heard>>

(* A redirect or a 4xx, or the spool cannot be written.                    *)
Reject(r) ==
    /\ phase[r] = "sending"
    /\ phase' = [phase EXCEPT ![r] = "dropped"]
    /\ answers' = {m \in answers : m.by # Client \/ m.report # r}
    /\ UNCHANGED <<now, server, first, mtime, flusher, tries, heard>>

----------------------------------------------------------------------------
(* af_flush_spool: prune once, then post what is there, one by one.        *)

Files == {r \in Reports : phase[r] \in {"json", "inflight"}}

\* Mutant: files are kept for the whole dedupe window.
KeptForWindow(r) == now - mtime[r] > Window

TooOld(r) == now - mtime[r] > MaxAge

StartFlush(f) ==
    LET old == {r \in Files : TooOld(r)} IN
    /\ flusher[f] = Idle
    /\ Files # {}
    /\ phase' = [r \in Reports |-> IF r \in old THEN "dropped" ELSE phase[r]]
    /\ flusher' = [flusher EXCEPT ![f] =
                     [began |-> now, todo |-> Files \ old, posting |-> Idle]]
    /\ UNCHANGED <<now, server, first, mtime, tries, answers, heard>>

(* The file is claimed and posted; the claim keeps its modification time   *)
(* and keeps nobody else from posting it too.                              *)
Post(f, r) ==
    /\ flusher[f] # Idle /\ flusher[f].posting = Idle
    /\ r \in flusher[f].todo
    /\ r \in Files
    /\ phase' = [phase EXCEPT ![r] = "inflight"]
    /\ flusher' = [flusher EXCEPT ![f].todo = @ \ {r},
                                  ![f].posting = Request(r, f)]
    /\ tries' = tries \cup {Request(r, f)}
    /\ UNCHANGED <<now, server, first, mtime, answers, heard>>

(* What a flusher does with the file it posted: it is renamed or removed   *)
(* under its .inflight name, if it still has it.                           *)
Becomes(r, after) == phase' = [phase EXCEPT ![r] = IF @ = "inflight" THEN after ELSE @]

(* A valid answer: the file is removed.                                    *)
Remove(m) ==
    /\ m.by \in Flushers
    /\ Becomes(m.report, "delivered")
    /\ flusher' = [flusher EXCEPT ![m.by].posting = Idle]
    /\ answers' = answers \ {m}
    /\ UNCHANGED <<now, server, first, mtime, tries, heard>>

(* A refusal: after a 401 the file is .json again, after another 4xx it is *)
(* set aside.  A server error or a malformed success leaves it .inflight.  *)
Skip(f) ==
    /\ flusher[f] # Idle /\ flusher[f].posting # Idle
    /\ \E after \in {"json", "dropped", "inflight"} :
         Becomes(flusher[f].posting.report, after)
    /\ flusher' = [flusher EXCEPT ![f].posting = Idle]
    /\ answers' = {m \in answers : m.by # f}
    /\ UNCHANGED <<now, server, first, mtime, tries, heard>>

(* No file is left, the service is unreachable, or the flusher dies.       *)
EndFlush(f) ==
    /\ flusher[f] # Idle
    /\ flusher' = [flusher EXCEPT ![f] = Idle]
    /\ answers' = {m \in answers : m.by # f}
    /\ UNCHANGED <<now, server, spool, tries, heard>>

----------------------------------------------------------------------------
Awaited(m) ==
    IF m.by = Client THEN phase[m.report] = "sending"
    ELSE flusher[m.by] # Idle /\ flusher[m.by].posting = m

\* Mutant: the new row takes its id from the table, not the sequence.
StoreOutOfSequence(m) ==
    LET hash == Content[m.report]
        recent == RecentFrictions(rows, hash, now - Window) IN
    /\ tries' = tries \ {m}
    /\ heard' = heard \cup {m.report}
    /\ answers' = IF Awaited(m) THEN answers \cup {m} ELSE answers
    /\ \/ recent # {} /\ UNCHANGED server
       \/ /\ recent = {}
          /\ rows' = Inserted(rows, Cardinality(DOMAIN rows) + 1, NewRow(NoKey, hash, now))
          /\ author' = [i \in DOMAIN rows' |->
                          IF i \in DOMAIN rows THEN author[i] ELSE m.report]
          /\ UNCHANGED seq
    /\ UNCHANGED <<now, spool, flusher>>

(* CreateFriction, for a try that reached the server: absorbed or stored.  *)
Store(m) ==
    LET hash == Content[m.report]
        recent == RecentFrictions(rows, hash, now - Window) IN
    /\ tries' = tries \ {m}
    /\ heard' = heard \cup {m.report}
    /\ answers' = IF Awaited(m) THEN answers \cup {m} ELSE answers
    /\ \/ recent # {} /\ UNCHANGED server
       \/ /\ recent = {}
          /\ seq' = seq + 1
          /\ rows' = Inserted(rows, seq + 1, NewRow(NoKey, hash, now))
          /\ author' = [i \in DOMAIN rows \cup {seq + 1} |->
                          IF i = seq + 1 THEN m.report ELSE author[i]]
    /\ UNCHANGED <<now, spool, flusher>>

Lose(m) ==
    /\ tries' = tries \ {m}
    /\ UNCHANGED <<now, server, spool, flusher, answers, heard>>

(* Time passes, but not past a client's timeout, the end of a flush or the *)
(* last moment a request can be under way.                                 *)
Tick ==
    /\ now < Horizon
    /\ \A r \in Reports : phase[r] = "sending" => now < first[r] + Timeout
    /\ \A f \in Flushers : flusher[f] # Idle => now < flusher[f].began + FlushTime
    /\ \A m \in tries : now < m.sent + Latency
    /\ now' = now + 1
    /\ UNCHANGED <<server, spool, flusher, tries, answers, heard>>

Next ==
    \/ \E r \in Reports : Submit(r) \/ Spool(r) \/ Reject(r)
    \/ \E f \in Flushers :
         \/ StartFlush(f) \/ Skip(f) \/ EndFlush(f)
         \/ \E r \in Reports : Post(f, r)
    \/ \E m \in answers : Accept(m) \/ Remove(m)
    \/ \E m \in tries : Store(m) \/ Lose(m)
    \/ Tick

Spec == Init /\ [][Next]_vars

----------------------------------------------------------------------------
(* However often a report is retried, and by however many flushers, the    *)
(* tries of one report create at most one row.                             *)
OneRowPerReport ==
    \A i, j \in DOMAIN rows : author[i] = author[j] => i = j

(* A friction row is never created within the window of another one with   *)
(* the same content.                                                       *)
FrictionSpacing == FrictionsSpaced(rows)

(* What the skill documentation says: the retry of a report the server has *)
(* already recorded, as a row or as a duplicate, files nothing.            *)
RetryNeverFilesAgain ==
    [][\A i \in DOMAIN rows' \ DOMAIN rows : author'[i] \notin heard]_vars
============================================================================
