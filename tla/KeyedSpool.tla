----------------------------- MODULE KeyedSpool -----------------------------
(***************************************************************************)
(* Reviews and events, from submit-review.sh and submit-event.sh through   *)
(* the spool to the service: direct submissions, sweeps over the run       *)
(* directories and plain flushes, several at once, on one machine; with    *)
(* requests lost, answered too late or refused, outages, a wrong API key,  *)
(* regraded runs, kills and files that age.                                *)
(*                                                                         *)
(* The service keeps the first content of a key; WritePath shows that its  *)
(* answers are true.  Frictions, which have no key, are in FrictionRetry.  *)
(* Sweeps are not kept apart here: SweepLock shows that the lock does not. *)
(***************************************************************************)
EXTENDS Integers, FiniteSets

CONSTANTS
    Runs,        \* run ids of review run directories, keys of reviews
    Events,      \* keys of events
    MaxGrade,    \* bound: gradings of a run
    Clients,     \* client processes
    Names,       \* bound: names of spool files in use at once
    MaxAge,      \* AF_REVIEW_MAX_AGE_DAYS
    RejectedAge, \* AF_REJECTED_MAX_AGE_DAYS
    Horizon,     \* bound: the last day considered
    MaxCalls,    \* bound: calls of a script while the service does not answer
    MaxChanges,  \* bound: how often the service comes into trouble or out of it
    MaxKills,    \* bound: kills of client processes
    Slow,        \* payloads that cannot be sent within curl's time limit
    None         \* no file, no row, no marker, no payload

Keys == Runs \cup Events
Contents == (1..MaxGrade) \X BOOLEAN  \* grades, and whether outputs are included
Payload == [key : Keys, content : Contents]
File == [payload : Payload, ext : {"json", "inflight", "rejected"}, written : Int]

ASSUME KeyAssumption == Runs \cap Events = {}
ASSUME BoundAssumption ==
    MaxGrade \in Nat \ {0} /\ Horizon \in Nat /\ MaxCalls \in Nat /\ MaxChanges \in Nat /\ MaxKills \in Nat
ASSUME NoneAssumption == None \notin Contents \cup File \cup Payload \cup Names

VARIABLES
    now,      \* the day
    up,       \* whether the service answers; else it is unreachable, has
              \* another key, or something in between fails or answers
    changes,  \* how often it changed
    stored,   \* the server's row of each key, its content
    sent,     \* requests under way
    grade,    \* per run its scorecard, 0 while a completed reviewer has none
    marker,   \* per run its .submitted file, as the record it names
    files,    \* the spool
    client,   \* per client process where it stands
    calls,    \* how many scripts were called while it does not
    kills,    \* how many processes were killed
    promised, \* payloads reported submitted, duplicate or spooled (history)
    expired   \* payloads dropped for their age (history)

disk == <<grade, marker, files>>
history == <<promised, expired>>
outside == <<now, up, changes>>
vars == <<outside, stored, sent, disk, client, calls, kills, history>>

Codes == {"wait", "201", "200", "409", "401", "4xx", "5xx", "malformed", "000"}
Listed == [name : Names, ext : {"json", "inflight"}]  \* a path the glob gave
Work == [key : Keys, outputs : BOOLEAN, sweep : BOOLEAN]
Process ==
    [at : {"idle", "flush", "claimed", "posted", "submit", "sent"},
     todo : SUBSET Listed, file : Names \cup {None},
     work : SUBSET Work, payload : Payload \cup {None}, code : Codes]

Idle == [at |-> "idle", todo |-> {}, file |-> None, work |-> {},
         payload |-> None, code |-> "wait"]

TypeOK ==
    /\ now \in 0..Horizon
    /\ up \in BOOLEAN /\ changes \in 0..MaxChanges
    /\ stored \in [Keys -> Contents \cup {None}]
    /\ sent \subseteq [payload : Payload, by : Clients]
    /\ grade \in [Runs -> 0..MaxGrade]
    /\ marker \in [Runs -> Contents \cup {None}]
    /\ files \in [Names -> File \cup {None}]
    /\ client \in [Clients -> Process]
    /\ calls \in 0..MaxCalls /\ kills \in 0..MaxKills
    /\ promised \subseteq Payload /\ expired \subseteq Payload
    /\ \A c \in Clients : client[c].code # "wait" => client[c].at \in {"posted", "sent"}

Init ==
    /\ now = 0 /\ up \in BOOLEAN /\ changes = 0
    /\ stored = [k \in Keys |-> None]
    /\ sent = {}
    /\ grade = [r \in Runs |-> 0]
    /\ marker = [r \in Runs |-> None]
    /\ files = [n \in Names |-> None]
    /\ client = [c \in Clients |-> Idle]
    /\ calls = 0 /\ kills = 0
    /\ promised = {} /\ expired = {}

----------------------------------------------------------------------------
(* af_flush_spool: prune, list, then claim and post one file at a time.    *)

Lies(n, ext) == files[n] # None /\ files[n].ext = ext
Retryable(n) == Lies(n, "json") \/ Lies(n, "inflight")

TooOld(n) ==
    /\ files[n] # None
    /\ now - files[n].written > IF Lies(n, "rejected") THEN RejectedAge ELSE MaxAge

\* Mutant: an interrupted claim is not listed again.
ListedUnclaimed == {[name |-> n, ext |-> "json"] : n \in {m \in Names : Lies(m, "json") /\ ~TooOld(m)}}

SpoolList == {[name |-> n, ext |-> files[n].ext] : n \in {m \in Names : Retryable(m) /\ ~TooOld(m)}}

Start(c, work) ==
    /\ client[c] = Idle
    /\ up \/ calls < MaxCalls
    /\ calls' = IF up THEN calls ELSE calls + 1
    /\ files' = [n \in Names |-> IF TooOld(n) THEN None ELSE files[n]]
    /\ expired' = expired \cup {files[n].payload : n \in {m \in Names : TooOld(m)}}
    /\ client' = [client EXCEPT ![c].at = "flush", ![c].todo = SpoolList, ![c].work = work]
    /\ UNCHANGED <<outside, stored, sent, grade, marker, kills, promised>>

Flush(c) == Start(c, {})
Direct(c) ==
    \E k \in Keys, outputs \in BOOLEAN :
        Start(c, {[key |-> k, outputs |-> outputs, sweep |-> FALSE]})
Sweep(c) == Start(c, {[key |-> r, outputs |-> FALSE, sweep |-> TRUE] : r \in Runs})

(* The glob lists reviews before events and .json before .inflight.        *)
Position(e) ==
    IF files[e.name] = None THEN 0
    ELSE (IF files[e.name].payload.key \in Runs THEN 0 ELSE 2)
         + (IF e.ext = "json" THEN 0 ELSE 1)
NextListed(c) ==
    {e \in client[c].todo : \A d \in client[c].todo : Position(e) <= Position(d)}

(* Another flusher has removed or renamed the file.                        *)
Skip(c) ==
    /\ client[c].at = "flush"
    /\ \E e \in NextListed(c) :
         /\ ~Lies(e.name, e.ext)
         /\ client' = [client EXCEPT ![c].todo = @ \ {e}]
    /\ UNCHANGED <<outside, stored, sent, disk, calls, kills, history>>

Claim(c) ==
    /\ client[c].at = "flush"
    /\ \E e \in NextListed(c) :
         /\ Lies(e.name, e.ext)
         /\ files' = [files EXCEPT ![e.name].ext = "inflight"]
         /\ client' = [client EXCEPT ![c].todo = @ \ {e}, ![c].at = "claimed", ![c].file = e.name]
    /\ UNCHANGED <<outside, stored, sent, grade, marker, calls, kills, history>>

(* curl reads the file under its .inflight name.  If that is gone by now   *)
(* it ends with an error, or (older versions) posts an empty body.         *)
Post(c) ==
    LET n == client[c].file IN
    /\ client[c].at = "claimed"
    /\ \/ /\ Lies(n, "inflight")
          /\ sent' = sent \cup {[payload |-> files[n].payload, by |-> c]}
          /\ client' = [client EXCEPT ![c].at = "posted", ![c].payload = files[n].payload]
       \/ /\ ~Lies(n, "inflight")
          /\ \E code \in {"000", "4xx"} :
               client' = [client EXCEPT ![c].at = "posted", ![c].code = code]
          /\ UNCHANGED sent
    /\ UNCHANGED <<outside, stored, disk, calls, kills, history>>

(* What becomes of the claimed file, if it still has that name.            *)
Renamed(n, ext) == [files EXCEPT ![n] = IF Lies(n, "inflight") THEN [@ EXCEPT !.ext = ext] ELSE @]
Removed(n) == [files EXCEPT ![n] = IF Lies(n, "inflight") THEN None ELSE @]

NextFile(c) ==
    client' = [client EXCEPT ![c] = [@ EXCEPT !.at = "flush", !.file = None,
                                              !.payload = None, !.code = "wait"]]

\* Mutant: the receipt is not validated.
DeliveredUnread(c) ==
    /\ client[c].code \in {"201", "200", "malformed"}
    /\ files' = Removed(client[c].file)
    /\ NextFile(c)

Delivered(c) ==
    /\ client[c].code \in {"201", "200"}
    /\ files' = Removed(client[c].file)
    /\ NextFile(c)

Kept(c) ==
    /\ client[c].code \in {"malformed", "5xx"}
    /\ NextFile(c)
    /\ UNCHANGED files

Unlocked(c) ==
    /\ client[c].code = "401"
    /\ files' = Renamed(client[c].file, "json")
    /\ NextFile(c)

SetAside(c) ==
    /\ client[c].code \in {"409", "4xx"}
    /\ files' = Renamed(client[c].file, "rejected")
    /\ NextFile(c)

(* Unreachable: the rest of the list is left to the next flush.            *)
Deferred(c) ==
    /\ client[c].code = "000"
    /\ client' = [client EXCEPT ![c] = [Idle EXCEPT !.at = "submit", !.work = client[c].work]]
    /\ UNCHANGED files

FileAnswered(c) ==
    /\ client[c].at = "posted"
    /\ Delivered(c) \/ Kept(c) \/ Unlocked(c) \/ SetAside(c) \/ Deferred(c)
    /\ UNCHANGED <<outside, stored, sent, grade, marker, calls, kills, promised, expired>>

EndFlush(c) ==
    /\ client[c].at = "flush"
    /\ client[c].todo = {}
    /\ client' = [client EXCEPT ![c].at = "submit"]
    /\ UNCHANGED <<outside, stored, sent, disk, calls, kills, history>>

----------------------------------------------------------------------------
(* submit_run, or the end of submit-event.sh.                              *)

(* What is sent: a run is read from its directory at that moment, an event *)
(* has one of two contents.                                                *)
Content(w) == <<IF w.key \in Runs THEN grade[w.key] ELSE 1, w.outputs>>
Built(w) == [key |-> w.key, content |-> Content(w)]

Skipped(w) ==
    w.key \in Runs /\ (grade[w.key] = 0 \/ (w.sweep /\ marker[w.key] # None))

SkipRun(c) ==
    /\ client[c].at = "submit"
    /\ \E w \in client[c].work :
         /\ Skipped(w)
         /\ client' = [client EXCEPT ![c].work = @ \ {w}]
    /\ UNCHANGED <<outside, stored, sent, disk, calls, kills, history>>

Send(c) ==
    /\ client[c].at = "submit"
    /\ \E w \in client[c].work :
         /\ ~Skipped(w)
         /\ sent' = sent \cup {[payload |-> Built(w), by |-> c]}
         /\ client' = [client EXCEPT ![c].work = @ \ {w}, ![c].at = "sent", ![c].payload = Built(w)]
    /\ UNCHANGED <<outside, stored, disk, calls, kills, history>>

\* Mutant: the answer is still there when the next run is sent.
NextRunStale(c) ==
    client' = [client EXCEPT ![c] = [@ EXCEPT !.at = "submit", !.payload = None]]

NextRun(c) ==
    client' = [client EXCEPT ![c] = [@ EXCEPT !.at = "submit", !.payload = None, !.code = "wait"]]

Marked(x) == IF x.key \in Runs THEN [marker EXCEPT ![x.key] = x.content] ELSE marker

Submitted(c) ==
    LET x == client[c].payload IN
    /\ client[c].code \in {"201", "200"}
    /\ marker' = Marked(x)
    /\ promised' = promised \cup {x}
    /\ NextRun(c)
    /\ UNCHANGED files

(* A name nobody has, made of the time, the pid and a random number; a     *)
(* payload that cannot be written is printed and the script fails.         *)
Unused(n) == files[n] = None /\ \A d \in Clients :
    client[d].file # n /\ \A e \in client[d].todo : e.name # n

Written(x) == [payload |-> x, ext |-> "json", written |-> now]

\* Mutant: the name is made of the key alone, and an older file is replaced.
SpooledByKey(c) ==
    LET x == client[c].payload IN
    /\ client[c].code \in {"malformed", "5xx", "000"}
    /\ \E n \in Names :
         /\ Unused(n) \/ (Retryable(n) /\ files[n].payload.key = x.key)
         /\ files' = [files EXCEPT ![n] = Written(x)]
    /\ promised' = promised \cup {x}
    /\ NextRun(c)
    /\ UNCHANGED marker

Spooled(c) ==
    LET x == client[c].payload IN
    /\ client[c].code \in {"malformed", "5xx", "000"}
    /\ \E n \in Names :
         /\ Unused(n)
         /\ files' = [files EXCEPT ![n] = Written(x)]
    /\ promised' = promised \cup {x}
    /\ NextRun(c)
    /\ UNCHANGED marker

Unwritable(c) ==
    /\ client[c].code \in {"malformed", "5xx", "000"}
    /\ ~\E n \in Names : Unused(n)
    /\ client' = [client EXCEPT ![c] = Idle]
    /\ UNCHANGED <<marker, files, promised>>

\* Mutant: the marker is written for every final answer.
RejectedForGood(c) ==
    /\ client[c].code \in {"409", "401", "4xx"}
    /\ marker' = Marked(client[c].payload)
    /\ NextRun(c)
    /\ UNCHANGED <<files, promised>>

Rejected(c) ==
    /\ client[c].code \in {"409", "401", "4xx"}
    /\ NextRun(c)
    /\ UNCHANGED <<marker, files, promised>>

RunAnswered(c) ==
    /\ client[c].at = "sent"
    /\ Submitted(c) \/ Spooled(c) \/ Unwritable(c) \/ Rejected(c)
    /\ UNCHANGED <<outside, stored, sent, grade, calls, kills, expired>>

End(c) ==
    /\ client[c].at = "submit"
    /\ client[c].work = {}
    /\ client' = [client EXCEPT ![c] = Idle]
    /\ UNCHANGED <<outside, stored, sent, disk, calls, kills, history>>

----------------------------------------------------------------------------
(* Requests and the service.                                               *)

Waits(m) ==
    client[m.by].at \in {"posted", "sent"} /\ client[m.by].code = "wait"
    /\ client[m.by].payload = m.payload

Hears(m, code) == client' = IF Waits(m) THEN [client EXCEPT ![m.by].code = code] ELSE client

(* The request is handled; its answer may be lost unless the service is up.*)
Handle(m) ==
    LET row == stored[m.payload.key] IN
    /\ m.payload \notin Slow
    /\ sent' = sent \ {m}
    /\ stored' = [stored EXCEPT ![m.payload.key] = IF @ = None THEN m.payload.content ELSE @]
    /\ \/ Hears(m, IF row = None THEN "201" ELSE IF row = m.payload.content THEN "200" ELSE "409")
       \/ ~up /\ UNCHANGED client
    /\ UNCHANGED <<outside, disk, calls, kills, history>>

(* Refused for its key, or by something in between: the service may have   *)
(* it, or get it later, all the same.                                      *)
Refuse(m) ==
    /\ ~up
    /\ \/ Hears(m, "401") /\ sent' = sent \ {m}
       \/ /\ \E code \in {"4xx", "5xx", "malformed"} : Hears(m, code)
          /\ sent' \in {sent, sent \ {m}}
    /\ UNCHANGED <<outside, stored, disk, calls, kills, history>>

Lose(m) ==
    /\ ~up \/ m.payload \in Slow
    /\ sent' = sent \ {m}
    /\ UNCHANGED <<outside, stored, disk, client, calls, kills, history>>

(* The time limit of curl; the service, when it is up, answers sooner.     *)
GiveUp(c) ==
    LET m == [payload |-> client[c].payload, by |-> c] IN
    /\ client[c].at \in {"posted", "sent"} /\ client[c].code = "wait"
    /\ ~up \/ m \notin sent \/ m.payload \in Slow
    /\ client' = [client EXCEPT ![c].code = "000"]
    /\ UNCHANGED <<outside, stored, sent, disk, calls, kills, history>>

Change ==
    /\ changes < MaxChanges
    /\ changes' = changes + 1
    /\ up' = ~up
    /\ UNCHANGED <<now, stored, sent, disk, client, calls, kills, history>>

(* A run is graded, or graded again.                                       *)
Grade(r) ==
    /\ grade[r] < MaxGrade
    /\ grade' = [grade EXCEPT ![r] = @ + 1]
    /\ UNCHANGED <<outside, stored, sent, marker, files, client, calls, kills, history>>

Kill(c) ==
    /\ client[c] # Idle
    /\ kills < MaxKills
    /\ kills' = kills + 1
    /\ client' = [client EXCEPT ![c] = Idle]
    /\ UNCHANGED <<outside, stored, sent, disk, calls, history>>

(* Days pass between calls; a call lasts no day.                           *)
Tick ==
    /\ now < Horizon
    /\ \A c \in Clients : client[c] = Idle
    /\ now' = now + 1
    /\ UNCHANGED <<up, changes, stored, sent, disk, client, calls, kills, history>>

Step(c) ==
    \/ Skip(c) \/ Claim(c) \/ Post(c) \/ FileAnswered(c) \/ EndFlush(c)
    \/ SkipRun(c) \/ Send(c) \/ RunAnswered(c) \/ End(c) \/ GiveUp(c)

Next ==
    \/ \E c \in Clients : Flush(c) \/ Direct(c) \/ Sweep(c) \/ Step(c) \/ Kill(c)
    \/ \E m \in sent : Handle(m) \/ Refuse(m) \/ Lose(m)
    \/ \E r \in Runs : Grade(r)
    \/ Change \/ Tick

Spec == Init /\ [][Next]_vars

(* Processes run on, sweeps are started again and again (by every run of a *)
(* review runner), and a service that is up answers.                       *)
Answer(c) == \E m \in sent : m.by = c /\ Handle(m)
FairSpec ==
    /\ Spec
    /\ \A c \in Clients : WF_vars(Step(c)) /\ SF_vars(Sweep(c)) /\ WF_vars(Answer(c))

----------------------------------------------------------------------------
(* Whatever the scripts reported submitted, duplicate or spooled is stored *)
(* with that content, still lies in the spool (retryable or set aside), or *)
(* was dropped for its age: no race of flushers, no late answer, no kill   *)
(* and no regrading loses it.                                              *)
NothingLost ==
    \A x \in promised :
        \/ stored[x.key] = x.content
        \/ \E n \in Names : files[n] # None /\ files[n].payload = x
        \/ x \in expired

(* A .submitted file names the record the service has for that run.        *)
MarkerTruthful == \A r \in Runs : marker[r] # None => marker[r] = stored[r]

(* Once the service stays up, no file stays retryable forever.             *)
SpoolDrains ==
    <>[]up => \A n \in Names : Retryable(n) ~> ~Retryable(n)

(* Once the service stays up, every graded run gets there, even if its own *)
(* submission was refused, killed or lost with its file.                   *)
RunsDelivered ==
    <>[]up => \A r \in Runs : grade[r] # 0 ~> stored[r] # None

(* What the comment in af_flush_spool says of stopping after one timeout:  *)
(* the other files would meet the same one.  So if they would not, they    *)
(* are sent.                                                               *)
OthersDrain ==
    <>[]up => \A n \in Names :
                 (Retryable(n) /\ files[n].payload \notin Slow) ~> ~Retryable(n)
=============================================================================
