------------------------------ MODULE Serving ------------------------------
(***************************************************************************)
(* The life of a serving process: it opens the database and listens,       *)
(* handlers take connections of the reader pool and of the writer, a       *)
(* signal starts an orderly stop, which a deadline may cut short; the      *)
(* process may be killed and the machine lose its power.  A maintenance    *)
(* command (backup, import) may have the file open meanwhile, one of a     *)
(* newer release upgrades its schema.                                      *)
(*                                                                         *)
(* log lists the committed writes.  With synchronous=NORMAL a commit is in *)
(* the write-ahead log but not synced: the first durable entries survive a *)
(* loss of power, of the others any first part may.  How transactions      *)
(* exclude each other is WritePath's matter: a write is one step here.     *)
(***************************************************************************)
EXTENDS Naturals, Sequences, FiniteSets, Functions

CONSTANTS
    Reads,       \* requests that read: list, get, a scrape, an export
    Writes,      \* requests that write
    Probes,      \* GET /ready
    ReaderMaxConns, \* connections of the reader pool
    MaxCrashes,  \* bound: kills and power failures
    MaxStarts,   \* bound: starts of the server
    MaxTools,    \* bound: maintenance commands run
    Nobody       \* the writer connection is free

Requests == Reads \cup Writes \cup Probes

ASSUME PoolAssumption == ReaderMaxConns \in Nat \ {0}
ASSUME NobodyAssumption == Nobody \notin Requests
ASSUME KindsAssumption ==
    Reads \cap Writes = {} /\ Reads \cap Probes = {} /\ Writes \cap Probes = {}

VARIABLES
    life,      \* where main stands
    abandoned, \* main stopped waiting for the handlers
    starts,    \* how often it was started
    pc,        \* per request: where its handler stands
    reply,     \* per request: what it was answered
    reading,   \* who has a connection of the reader pool
    writer,    \* who has the writer connection
    log,       \* the committed writes, in order
    durable,   \* how many of them a loss of power spares
    newer,     \* the schema is one this binary does not know
    tool,      \* the maintenance command
    tools,     \* how often one was run
    crashes,   \* kills and power failures so far
    lost,      \* writes that a power failure took back (history)
    unfit      \* probes accepted when the service was to be avoided (history)

main == <<life, abandoned, starts>>
handlers == <<pc, reply, reading, writer>>
disk == <<log, durable, newer, lost>>
others == <<tool, tools, crashes>>
vars == <<main, handlers, disk, others, unfit>>

Ended == {"answered", "cut"}
Waiting == {"arrived", "ping", "version"}

Init ==
    /\ life = "down" /\ abandoned = FALSE /\ starts = 0
    /\ pc = [r \in Requests |-> "idle"]
    /\ reply = [r \in Requests |-> "none"]
    /\ reading = {} /\ writer = Nobody
    /\ log = <<>> /\ durable = 0 /\ newer = FALSE /\ lost = {}
    /\ tool = "out" /\ tools = 0 /\ crashes = 0
    /\ unfit = {}

InFlight == {r \in Requests : pc[r] \notin Ended \cup {"idle"}}
Listening == life \in {"up", "signalled", "withdrawn"}
ShuttingDown == life \in {"withdrawn", "draining", "drained", "closed"}
Down == life \in {"down", "stopped"}

GoTo(r, label) == pc' = [pc EXCEPT ![r] = label]
Answer(r, what) == GoTo(r, "answered") /\ reply' = [reply EXCEPT ![r] = what]

----------------------------------------------------------------------------
(* SQLite: whoever closes the last connection in order syncs the log.      *)

ServerHasFile == life \notin {"down", "stopped", "closed"} \/ reading # {} \/ writer # Nobody

(* A connection that comes back after db.Close is closed.                  *)
SyncedIfLast(readers, holder, entries) ==
    durable' = IF life = "closed" /\ tool # "in" /\ readers = {} /\ holder = Nobody
                 THEN Len(entries) ELSE durable

(* The automatic checkpoint of a commit, whichever process makes it.       *)
Checkpoint ==
    /\ ServerHasFile
    /\ durable < Len(log)
    /\ durable' = Len(log)
    /\ UNCHANGED <<main, handlers, log, newer, lost, others, unfit>>

----------------------------------------------------------------------------
(* main                                                                    *)

MainGoes(label) ==
    /\ life' = label
    /\ UNCHANGED <<starts, handlers, disk, others, unfit>>

Open ==
    /\ Down /\ starts < MaxStarts /\ ~newer
    /\ life' = "opened" /\ abandoned' = FALSE /\ starts' = starts + 1
    /\ UNCHANGED <<handlers, disk, others, unfit>>

Listen == life = "opened" /\ MainGoes("up") /\ UNCHANGED abandoned

(* ListenAndServe returned an error: main returns it.                      *)
ServeFails ==
    /\ life \in {"opened", "up"}
    /\ crashes < MaxCrashes
    /\ crashes' = crashes + 1
    /\ life' = "drained" /\ abandoned' = TRUE
    /\ UNCHANGED <<starts, handlers, disk, tool, tools, unfit>>

Signal == life = "up" /\ MainGoes("signalled") /\ UNCHANGED abandoned
Withdraw == life = "signalled" /\ MainGoes("withdrawn") /\ UNCHANGED abandoned
CloseListener == life = "withdrawn" /\ MainGoes("draining") /\ UNCHANGED abandoned

\* Mutant: main ends when ListenAndServe returned, as soon as it is shut.
DrainedAtOnce == life = "draining" /\ MainGoes("drained") /\ UNCHANGED abandoned

Drained == life = "draining" /\ InFlight = {} /\ MainGoes("drained") /\ UNCHANGED abandoned
DeadlinePasses == life = "draining" /\ MainGoes("drained") /\ abandoned' = TRUE

\* Mutant: the process exits without the deferred Close.
CloseForgotten ==
    /\ life = "drained"
    /\ life' = "closed"
    /\ UNCHANGED <<abandoned, starts, handlers, disk, others, unfit>>

(* The deferred db.Close: idle connections of both pools are closed.       *)
CloseDatabase ==
    /\ life = "drained"
    /\ life' = "closed"
    /\ durable' = IF tool # "in" /\ reading = {} /\ writer = Nobody THEN Len(log) ELSE durable
    /\ UNCHANGED <<abandoned, starts, handlers, log, newer, lost, others, unfit>>

(* What is left of a process: nothing of its requests.                     *)
Gone ==
    /\ pc' = [r \in Requests |-> IF r \in InFlight THEN "cut" ELSE pc[r]]
    /\ reading' = {} /\ writer' = Nobody
    /\ UNCHANGED reply

Exit ==
    /\ life = "closed"
    /\ life' = IF reading = {} /\ writer = Nobody THEN "stopped" ELSE "down"
    /\ Gone
    /\ UNCHANGED <<abandoned, starts, disk, others, unfit>>

MainStep ==
    \/ Listen \/ Withdraw \/ CloseListener \/ Drained \/ DeadlinePasses
    \/ CloseDatabase \/ Exit

(* Killed, out of memory, or stopped by the container runtime for good.    *)
Kill ==
    /\ ~Down /\ crashes < MaxCrashes
    /\ crashes' = crashes + 1
    /\ life' = "down"
    /\ Gone
    /\ UNCHANGED <<abandoned, starts, disk, tool, tools, unfit>>

PowerFails ==
    /\ crashes < MaxCrashes
    /\ crashes' = crashes + 1
    /\ \E n \in durable..Len(log) :
         /\ log' = SubSeq(log, 1, n)
         /\ durable' = n
         /\ lost' = lost \cup {log[k] : k \in (n + 1)..Len(log)}
    /\ life' = IF Down THEN life ELSE "down"
    /\ tool' = IF tool = "in" THEN "killed" ELSE tool
    /\ Gone
    /\ UNCHANGED <<abandoned, starts, newer, tools, unfit>>

----------------------------------------------------------------------------
(* A maintenance command: store.Open, which migrates, its work, Close.     *)

ToolOpens ==
    /\ tool # "in" /\ tools < MaxTools
    /\ tool' = "in" /\ tools' = tools + 1
    /\ newer' \in {newer, TRUE}
    /\ UNCHANGED <<main, handlers, log, durable, lost, crashes, unfit>>

ToolCloses ==
    /\ tool = "in"
    /\ tool' = "out"
    /\ durable' = IF ServerHasFile THEN durable ELSE Len(log)
    /\ UNCHANGED <<main, handlers, log, newer, lost, tools, crashes, unfit>>

ToolKilled ==
    /\ tool = "in" /\ crashes < MaxCrashes
    /\ tool' = "killed" /\ crashes' = crashes + 1
    /\ UNCHANGED <<main, handlers, disk, tools, unfit>>

----------------------------------------------------------------------------
(* Requests.                                                               *)

(* Without a listener a client is refused: its request stays idle.         *)
Accept(r) ==
    /\ pc[r] = "idle" /\ Listening
    /\ GoTo(r, "arrived")
    /\ unfit' = IF r \in Probes /\ (ShuttingDown \/ newer) THEN unfit \cup {r} ELSE unfit
    /\ UNCHANGED <<main, reply, reading, writer, disk, others>>

PoolFree == life # "closed" /\ Cardinality(reading) < ReaderMaxConns

TakeReader(r) ==
    /\ r \in Reads
    /\ pc[r] = "arrived" /\ PoolFree
    /\ reading' = reading \cup {r}
    /\ GoTo(r, "reading")
    /\ UNCHANGED <<main, reply, writer, disk, others, unfit>>

\* Mutant: what runs inside Read asks the pool for another connection.
FinishReadNested(r) ==
    /\ pc[r] = "reading" /\ PoolFree
    /\ reading' = reading \ {r}
    /\ Answer(r, "ok")
    /\ UNCHANGED <<main, writer, disk, others, unfit>>

(* The deferred Rollback gives the connection back.  An export takes as    *)
(* long as its client, WriteTimeout at most; whether it arrived whole is   *)
(* ExportImport's matter.                                                  *)
FinishRead(r) ==
    /\ pc[r] = "reading"
    /\ reading' = reading \ {r}
    /\ Answer(r, "ok")
    /\ SyncedIfLast(reading \ {r}, writer, log)
    /\ UNCHANGED <<main, writer, log, newer, lost, others, unfit>>

TakeWriter(r) ==
    /\ r \in Writes
    /\ pc[r] = "arrived" /\ writer = Nobody /\ life # "closed"
    /\ writer' = r
    /\ GoTo(r, "writing")
    /\ UNCHANGED <<main, reply, reading, disk, others, unfit>>

Commit(r) ==
    /\ pc[r] = "writing"
    /\ log' = Append(log, r)
    /\ writer' = Nobody
    /\ GoTo(r, "committed")
    /\ SyncedIfLast(reading, Nobody, log')
    /\ UNCHANGED <<main, reply, reading, newer, lost, others, unfit>>

(* A busy lock, a mismatch, a failed commit: rolled back.                  *)
RollBack(r) ==
    /\ pc[r] = "writing"
    /\ writer' = Nobody
    /\ Answer(r, "failed")
    /\ SyncedIfLast(reading, Nobody, log)
    /\ UNCHANGED <<main, reading, log, newer, lost, others, unfit>>

AnswerWrite(r) ==
    /\ pc[r] = "committed"
    /\ Answer(r, "ok")
    /\ UNCHANGED <<main, reading, writer, disk, others, unfit>>

(* database/sql: who waits for a connection of a closed pool gets an error. *)
FailClosed(r) ==
    /\ pc[r] \in Waiting /\ life = "closed"
    /\ Answer(r, IF r \in Probes THEN "unavailable" ELSE "failed")
    /\ UNCHANGED <<main, reading, writer, disk, others, unfit>>

(* handleReady: the flag, then two queries on the reader pool, each within *)
(* the two seconds the probe has.                                          *)
ReadFlag(r) ==
    /\ r \in Probes /\ pc[r] = "arrived"
    /\ IF ShuttingDown THEN Answer(r, "stopping")
       ELSE GoTo(r, "ping") /\ UNCHANGED reply
    /\ UNCHANGED <<main, reading, writer, disk, others, unfit>>

Ping(r) ==
    /\ pc[r] = "ping" /\ PoolFree
    /\ GoTo(r, "version")
    /\ UNCHANGED <<main, reply, reading, writer, disk, others, unfit>>

\* Mutant: a schema this binary does not know passes if it is newer.
CompatibleIfNewer(r) ==
    /\ pc[r] = "version" /\ PoolFree
    /\ Answer(r, "ready")
    /\ UNCHANGED <<main, reading, writer, disk, others, unfit>>

CompareVersion(r) ==
    /\ pc[r] = "version" /\ PoolFree
    /\ Answer(r, IF newer THEN "unavailable" ELSE "ready")
    /\ UNCHANGED <<main, reading, writer, disk, others, unfit>>

ProbeTimesOut(r) ==
    /\ pc[r] \in {"ping", "version"}
    /\ Answer(r, "unavailable")
    /\ UNCHANGED <<main, reading, writer, disk, others, unfit>>

HandlerStep(r) ==
    \/ TakeReader(r) \/ FinishRead(r)
    \/ TakeWriter(r) \/ Commit(r) \/ RollBack(r) \/ AnswerWrite(r)
    \/ FailClosed(r)
    \/ ReadFlag(r) \/ Ping(r) \/ CompareVersion(r) \/ ProbeTimesOut(r)


Next ==
    \/ Open \/ ServeFails \/ Signal \/ MainStep \/ Kill \/ PowerFails
    \/ Checkpoint
    \/ ToolOpens \/ ToolCloses \/ ToolKilled
    \/ \E r \in Requests : Accept(r) \/ HandlerStep(r)

Spec == Init /\ [][Next]_vars

(* main and the handlers run on, a client or WriteTimeout ends an export,  *)
(* and who waits for a connection is served if one comes free again and    *)
(* again.  Nobody has to start, stop or kill the service.                  *)
FairSpec ==
    /\ Spec
    /\ WF_vars(MainStep)
    /\ \A r \in Requests : SF_vars(HandlerStep(r))

----------------------------------------------------------------------------
(* After a stop in which the last process to have the file open closed it, *)
(* every write that was acknowledged is safe even from a loss of power.    *)
(* What a power failure may take back are acknowledged writes since the    *)
(* last checkpoint, no others.                                             *)
StopLosesNothing ==
    life = "stopped" /\ tool = "out" =>
      \A w \in Writes :
        pc[w] = "answered" /\ reply[w] = "ok" =>
          w \in lost \/ \E k \in 1..durable : log[k] = w

(* A request that was accepted is answered, unless the process is killed,  *)
(* its listener failed, or the time for an orderly stop has run out.       *)
CutOnlyWhenForced ==
    [][\A r \in Requests :
         pc[r] # "cut" /\ pc'[r] = "cut" => crashes' # crashes \/ abandoned]_vars

(* A probe that arrived after readiness was withdrawn, or after another    *)
(* process upgraded the schema under the server, is never told READY.      *)
ProbeTruthful == \A p \in unfit : reply[p] # "ready"

(* No handler waits for a connection forever, however slow the exports     *)
(* that hold them, and a signal ends the process: with finitely many       *)
(* requests and starts the service comes to rest, serving or ended.        *)
EverythingEnds == <>[](InFlight = {} /\ life \in {"up", "down", "stopped"})
============================================================================
