--------------------------- MODULE ServingProofs ---------------------------
(***************************************************************************)
(* Proofs about Serving, for any number of requests, any size of the       *)
(* reader pool and any number of kills, losses of power, starts and        *)
(* maintenance commands: an orderly stop loses nothing, it cuts a request  *)
(* only by force, and the probe does not call an unfit service ready.      *)
(***************************************************************************)
EXTENDS Serving, TLAPS

Lives == {"down", "stopped", "opened", "up", "signalled", "withdrawn", "draining",
          "drained", "closed"}
Labels == {"idle", "reading", "writing", "committed"} \cup Waiting \cup Ended
Replies == {"none", "ok", "failed", "unavailable", "stopping", "ready"}

Types ==
    /\ life \in Lives
    /\ crashes \in Nat
    /\ pc \in [Requests -> Labels]
    /\ reply \in [Requests -> Replies]
    /\ log \in Seq(Writes) /\ durable \in 0..Len(log)
    /\ unfit \subseteq Probes

(* Which requests get to which part of a handler.                          *)
KindsApart ==
    \A r \in Requests :
        /\ pc[r] = "reading" => r \in Reads
        /\ pc[r] \in {"writing", "committed"} => r \in Writes

(* Who has not asked has no answer.                                        *)
FreshUnanswered == \A r \in Requests : pc[r] = "idle" => reply[r] = "none"

(* A process that is gone has neither handlers nor connections.            *)
DownIsIdle == Down => InFlight = {} /\ reading = {} /\ writer = Nobody

(* Handlers that are left when the server was shut were given up.          *)
DrainedOrAbandoned == life \in {"drained", "closed"} => abandoned \/ InFlight = {}

(* A write is acknowledged after it was committed; from the log it goes    *)
(* only with a loss of power.                                              *)
Recorded(w) == w \in lost \/ \E k \in 1..Len(log) : log[k] = w

AcknowledgedRecorded ==
    \A w \in Writes :
        pc[w] = "committed" \/ (pc[w] = "answered" /\ reply[w] = "ok") => Recorded(w)

(* Whoever was the last to close the file has synced it: the server, or a  *)
(* command that outlived it and was not killed.                            *)
ClosedIsSynced ==
    /\ life \in {"closed", "stopped"} /\ tool = "out"
    /\ reading = {} /\ writer = Nobody
    => durable = Len(log)

(* An unfit probe that has not read the flag will find it set, or will     *)
(* find the newer schema; one that passed the flag will find the schema.   *)
UnfitWarned ==
    \A p \in unfit :
        /\ pc[p] # "idle" /\ reply[p] # "ready"
        /\ pc[p] = "arrived" => newer \/ ShuttingDown
        /\ pc[p] \in {"ping", "version"} => newer

IInv ==
    /\ Types
    /\ KindsApart
    /\ FreshUnanswered
    /\ DownIsIdle
    /\ DrainedOrAbandoned
    /\ AcknowledgedRecorded
    /\ ClosedIsSynced
    /\ UnfitWarned

----------------------------------------------------------------------------
(* Before the first start nothing is stored and nobody has asked.          *)
LEMMA InitIInv == Init => IInv
  <1> SUFFICES ASSUME Init PROVE IInv
    OBVIOUS
  <1>1. Types
    <2>1. <<>> \in Seq(Writes) /\ 0 \in 0..Len(<<>>)
      OBVIOUS
    <2>2. pc \in [Requests -> Labels] /\ reply \in [Requests -> Replies]
      BY DEF Init, Labels, Replies
    <2> QED
      BY <2>1, <2>2 DEF Init, Types, Lives
  <1>2. KindsApart /\ FreshUnanswered /\ AcknowledgedRecorded /\ UnfitWarned
    BY DEF Init, KindsApart, FreshUnanswered, AcknowledgedRecorded, UnfitWarned, Requests
  <1>3. DownIsIdle /\ DrainedOrAbandoned /\ ClosedIsSynced
    BY DEF Init, DownIsIdle, DrainedOrAbandoned, ClosedIsSynced, InFlight
  <1> QED
    BY <1>1, <1>2, <1>3 DEF IInv

----------------------------------------------------------------------------
(* main, and what ends it.                                                 *)

(* main moves on and leaves the handlers and the disk alone.               *)
LEMMA MainKeeps ==
    ASSUME IInv, UNCHANGED <<handlers, disk, tool, unfit>>,
           life' \in Lives \ {"down", "stopped", "closed"},
           crashes' \in Nat,
           life' = "drained" => abandoned' \/ InFlight = {},
           ShuttingDown => ShuttingDown'
    PROVE  IInv'
  <1>1. Types'
    BY DEF IInv, Types, handlers, disk
  <1>2. KindsApart' /\ FreshUnanswered' /\ AcknowledgedRecorded'
    BY DEF IInv, KindsApart, FreshUnanswered, AcknowledgedRecorded, Recorded, handlers, disk
  <1>3. DownIsIdle' /\ DrainedOrAbandoned' /\ ClosedIsSynced'
    BY DEF DownIsIdle, Down, DrainedOrAbandoned, ClosedIsSynced, InFlight, handlers
  <1>4. UnfitWarned'
    BY DEF IInv, UnfitWarned, handlers, disk
  <1> QED
    BY <1>1, <1>2, <1>3, <1>4 DEF IInv

(* The deferred Close syncs the log if it closes the last connections.     *)
LEMMA CloseDatabaseKeeps ==
    ASSUME IInv, CloseDatabase
    PROVE  IInv'
  <1>1. Len(log) \in Nat
    BY DEF IInv, Types
  <1>2. Types'
    BY <1>1 DEF IInv, Types, Lives, CloseDatabase, handlers, others
  <1>3. KindsApart' /\ FreshUnanswered' /\ AcknowledgedRecorded'
    BY DEF IInv, KindsApart, FreshUnanswered, AcknowledgedRecorded, Recorded, CloseDatabase, handlers
  <1>4. DownIsIdle' /\ DrainedOrAbandoned' /\ ClosedIsSynced'
    BY DEF IInv, DownIsIdle, Down, DrainedOrAbandoned, ClosedIsSynced, InFlight,
           CloseDatabase, handlers, others
  <1>5. UnfitWarned'
    BY DEF IInv, UnfitWarned, ShuttingDown, CloseDatabase, handlers
  <1> QED
    BY <1>2, <1>3, <1>4, <1>5 DEF IInv

(* A process ends, with whatever it was doing: what it had committed stays *)
(* in the log, or is known to be lost.                                     *)
LEMMA GoneKeeps ==
    ASSUME IInv, Gone, UNCHANGED unfit, Down',
           crashes' \in Nat,
           log' \in Seq(Writes), durable' \in 0..Len(log'),
           \A w : Recorded(w) => Recorded(w)',
           ClosedIsSynced', newer' = newer
    PROVE  IInv'
  <1>1. \A r \in Requests : pc'[r] \in Ended \cup {"idle"} /\ (pc'[r] = pc[r] \/ pc'[r] = "cut")
    BY DEF Gone, InFlight, Ended
  <1>2. Types'
    BY DEF IInv, Types, Gone, Down, Lives, Labels, Ended
  <1>3. KindsApart' /\ FreshUnanswered' /\ DownIsIdle'
    BY <1>1 DEF IInv, KindsApart, FreshUnanswered, DownIsIdle, InFlight, Gone, Ended
  <1>4. DrainedOrAbandoned'
    BY DEF DrainedOrAbandoned, Down
  <1>5. AcknowledgedRecorded'
    BY <1>1 DEF IInv, AcknowledgedRecorded, Gone, Ended, Requests
  <1>6. UnfitWarned'
    BY <1>1 DEF IInv, Types, UnfitWarned, Gone, Ended, Requests
  <1> QED
    BY <1>2, <1>3, <1>4, <1>5, <1>6 DEF IInv

(* The process exits after its Close, with the handlers it abandoned.      *)
LEMMA ExitKeeps ==
    ASSUME IInv, Exit
    PROVE  IInv'
  <1>1. ClosedIsSynced'
    BY DEF IInv, ClosedIsSynced, Exit, Gone, disk, others
  <1>2. Down' /\ Gone
    BY DEF Down, Exit
  <1> QED
    BY <1>1, <1>2, GoneKeeps DEF IInv, Types, Exit, disk, others, Recorded

(* A kill leaves the disk as it is; it is not an orderly stop.             *)
LEMMA KillKeeps ==
    ASSUME IInv, Kill
    PROVE  IInv'
  <1>1. Down' /\ ClosedIsSynced' /\ Gone
    BY DEF Down, ClosedIsSynced, Kill
  <1> QED
    BY <1>1, GoneKeeps DEF IInv, Types, Kill, disk, Recorded

(* A loss of power takes back a last part of the log, and remembers it.    *)
LEMMA PowerFailsKeeps ==
    ASSUME IInv, PowerFails
    PROVE  IInv'
  <1>1. PICK n \in durable..Len(log) :
          /\ log' = SubSeq(log, 1, n)
          /\ durable' = n
          /\ lost' = lost \cup {log[k] : k \in (n + 1)..Len(log)}
    BY DEF PowerFails
  <1>2. /\ log \in Seq(Writes) /\ Len(log) \in Nat /\ n \in 0..Len(log)
        /\ crashes' \in Nat
    BY <1>1 DEF IInv, Types, PowerFails
  <1>3. /\ log' \in Seq(Writes) /\ Len(log') = n
        /\ \A k \in 1..n : log'[k] = log[k]
    BY <1>1, <1>2
  <1>4. ASSUME NEW w, Recorded(w) PROVE Recorded(w)'
    <2>1. CASE w \in lost
      BY <1>1, <2>1 DEF Recorded
    <2>2. ASSUME NEW k \in 1..Len(log), log[k] = w PROVE Recorded(w)'
      <3>1. CASE k <= n
        BY <1>2, <1>3, <2>2, <3>1 DEF Recorded
      <3>2. CASE k > n
        BY <1>1, <1>2, <2>2, <3>2 DEF Recorded
      <3> QED
        BY <1>2, <3>1, <3>2
    <2> QED
      BY <1>4, <2>1, <2>2 DEF Recorded
  <1>5. Down' /\ Gone /\ UNCHANGED <<abandoned, newer, unfit>>
    BY DEF PowerFails, Down
  <1>6. ClosedIsSynced'
    BY <1>1, <1>3 DEF ClosedIsSynced
  <1> QED
    BY <1>1, <1>2, <1>3, <1>4, <1>5, <1>6, GoneKeeps DEF IInv, Types

----------------------------------------------------------------------------
(* Checkpoints and maintenance commands.                                   *)

(* They sync the log or leave it, and at most make the schema newer.       *)
LEMMA DiskKeeps ==
    ASSUME IInv, UNCHANGED <<main, handlers, log, lost, unfit>>,
           newer => newer', crashes' \in Nat, durable' \in {durable, Len(log)},
           ClosedIsSynced'
    PROVE  IInv'
  <1>1. Types'
    <2>1. Len(log) \in Nat
      BY DEF IInv, Types
    <2> QED
      BY <2>1 DEF IInv, Types, main, handlers
  <1>2. KindsApart' /\ FreshUnanswered' /\ AcknowledgedRecorded'
    BY DEF IInv, KindsApart, FreshUnanswered, AcknowledgedRecorded, Recorded, handlers
  <1>3. DownIsIdle' /\ DrainedOrAbandoned'
    BY DEF IInv, DownIsIdle, Down, DrainedOrAbandoned, InFlight, main, handlers
  <1>4. UnfitWarned'
    BY DEF IInv, UnfitWarned, ShuttingDown, main, handlers
  <1> QED
    BY <1>1, <1>2, <1>3, <1>4 DEF IInv

(* A commit's checkpoint, by the server or a command.                      *)
LEMMA CheckpointKeeps ==
    ASSUME IInv, Checkpoint
    PROVE  IInv'
  <1>1. ClosedIsSynced'
    BY DEF ClosedIsSynced, Checkpoint
  <1> QED
    BY <1>1, DiskKeeps DEF IInv, Types, Checkpoint, others

(* A command opens the file, closes it, syncing it if it is the last to    *)
(* have it, or is killed.                                                  *)
LEMMA ToolKeeps ==
    ASSUME IInv, ToolOpens \/ ToolCloses \/ ToolKilled
    PROVE  IInv'
  <1>1. CASE ToolOpens
    <2>1. ClosedIsSynced'
      BY <1>1 DEF ClosedIsSynced, ToolOpens
    <2>2. newer => newer'
      BY <1>1 DEF ToolOpens
    <2> QED
      BY <1>1, <2>1, <2>2, DiskKeeps DEF IInv, Types, ToolOpens
  <1>2. CASE ToolCloses
    <2>1. ClosedIsSynced'
      BY <1>2 DEF ClosedIsSynced, ServerHasFile, ToolCloses, main, handlers
    <2> QED
      BY <1>2, <2>1, DiskKeeps DEF IInv, Types, ToolCloses
  <1>3. CASE ToolKilled
    <2>1. ClosedIsSynced'
      BY <1>3 DEF ClosedIsSynced, ToolKilled
    <2> QED
      BY <1>3, <2>1, DiskKeeps DEF IInv, Types, ToolKilled, disk
  <1> QED
    BY <1>1, <1>2, <1>3

----------------------------------------------------------------------------
(* Requests.                                                               *)

(* A request that arrives at an unfit service is remembered as such.       *)
LEMMA AcceptKeeps ==
    ASSUME IInv, NEW r \in Requests, Accept(r)
    PROVE  IInv'
  <1>1. /\ pc[r] = "idle" /\ life \in {"up", "signalled", "withdrawn"}
        /\ pc' = [pc EXCEPT ![r] = "arrived"]
        /\ UNCHANGED <<main, reply, reading, writer, disk, others>>
        /\ unfit' = IF r \in Probes /\ (ShuttingDown \/ newer) THEN unfit \cup {r} ELSE unfit
    BY DEF Accept, Listening, GoTo
  <1>2. /\ pc'[r] = "arrived"
        /\ \A q \in Requests : q # r => pc'[q] = pc[q]
    BY <1>1 DEF IInv, Types
  <1>3. Types'
    BY <1>1 DEF IInv, Types, Labels, Waiting, main, disk, others
  <1>4. /\ KindsApart' /\ FreshUnanswered' /\ DownIsIdle'
        /\ DrainedOrAbandoned' /\ ClosedIsSynced'
    BY <1>1, <1>2
    DEF IInv, KindsApart, FreshUnanswered, DownIsIdle, Down, DrainedOrAbandoned, ClosedIsSynced, main
  <1>5. AcknowledgedRecorded'
    BY <1>1, <1>2 DEF IInv, AcknowledgedRecorded, Recorded, disk, Requests
  <1>6. UnfitWarned'
    <2>1. reply[r] # "ready" \/ r \notin unfit'
      BY <1>1 DEF IInv, FreshUnanswered
    <2> QED
      BY <1>1, <1>2, <2>1 DEF IInv, Types, UnfitWarned, ShuttingDown, main, disk, Requests
  <1> QED
    BY <1>3, <1>4, <1>5, <1>6 DEF IInv

(* A handler goes on: all that matters is what it leaves of the log, of    *)
(* the connections and of its own answer.                                  *)
LEMMA HandlerGoesOn ==
    ASSUME IInv, NEW r \in InFlight, NEW label \in Labels \ {"idle", "cut"}, NEW what \in Replies,
           pc' = [pc EXCEPT ![r] = label], reply' = [reply EXCEPT ![r] = what],
           UNCHANGED <<main, newer, lost, others, unfit>>,
           label = "reading" => r \in Reads,
           label \in {"writing", "committed"} => r \in Writes,
           log' \in Seq(Writes), durable' \in 0..Len(log'),
           \A w : Recorded(w) => Recorded(w)',
           r \in Writes /\ (label = "committed" \/ (label = "answered" /\ what = "ok"))
             => Recorded(r)',
           ClosedIsSynced',
           r \in unfit => /\ what # "ready" /\ label # "arrived"
                          /\ label \in {"ping", "version"} => newer
    PROVE  IInv'
  <1>1. /\ r \in Requests
        /\ pc'[r] = label /\ reply'[r] = what
        /\ \A q \in Requests : q # r => pc'[q] = pc[q] /\ reply'[q] = reply[q]
    BY DEF IInv, Types, InFlight
  <1>2. Types'
    BY <1>1 DEF IInv, Types, main, others
  <1>3. KindsApart' /\ FreshUnanswered'
    BY <1>1 DEF IInv, KindsApart, FreshUnanswered
  <1>4. DownIsIdle'
    BY DEF IInv, DownIsIdle, Down, main
  <1>5. DrainedOrAbandoned'
    BY DEF IInv, DrainedOrAbandoned, main
  <1>6. AcknowledgedRecorded'
    BY <1>1 DEF IInv, AcknowledgedRecorded, Requests
  <1>7. UnfitWarned'
    BY <1>1 DEF IInv, Types, UnfitWarned, ShuttingDown, main, Requests
  <1> QED
    BY <1>2, <1>3, <1>4, <1>5, <1>6, <1>7 DEF IInv

(* A handler that leaves the log alone keeps it as it was, and closes the  *)
(* file when it gives the last connection of a closed pool back.           *)
LEMMA LogStays ==
    ASSUME IInv, UNCHANGED <<main, log, lost, others>>,
           \/ durable' = durable /\ (life = "closed" => UNCHANGED <<reading, writer>>)
           \/ SyncedIfLast(reading', writer', log)
    PROVE  /\ log' \in Seq(Writes) /\ durable' \in 0..Len(log')
           /\ \A w : Recorded(w) => Recorded(w)'
           /\ ClosedIsSynced' \/ Down
  <1>1. Len(log) \in Nat
    BY DEF IInv, Types
  <1>2. log' \in Seq(Writes) /\ durable' \in 0..Len(log')
    BY <1>1 DEF IInv, Types, SyncedIfLast
  <1>3. \A w : Recorded(w) => Recorded(w)'
    BY DEF Recorded
  <1>4. ClosedIsSynced' \/ Down
    <2>1. CASE life = "closed"
      BY <2>1 DEF IInv, ClosedIsSynced, SyncedIfLast, main, others
    <2>2. CASE life # "closed"
      BY <2>2 DEF ClosedIsSynced, Down, main
    <2> QED
      BY <2>1, <2>2
  <1> QED
    BY <1>2, <1>3, <1>4

(* The handlers of reads and exports.                                      *)
LEMMA ReadKeeps ==
    ASSUME IInv, NEW r \in Requests, TakeReader(r) \/ FinishRead(r)
    PROVE  IInv'
  <1>1. r \in InFlight /\ ~Down /\ r \in Reads /\ r \notin unfit /\ r \notin Writes
    BY KindsAssumption
    DEF TakeReader, FinishRead, InFlight, Ended, IInv, KindsApart, DownIsIdle, Types
  <1>2. reply = [reply EXCEPT ![r] = reply[r]] /\ reply[r] \in Replies
    BY DEF IInv, Types
  <1>3. /\ log' \in Seq(Writes) /\ durable' \in 0..Len(log')
        /\ \A w : Recorded(w) => Recorded(w)'
        /\ ClosedIsSynced'
    BY <1>1, LogStays DEF TakeReader, FinishRead, PoolFree, disk
  <1>4. CASE TakeReader(r)
    BY <1>1, <1>2, <1>3, <1>4, HandlerGoesOn DEF TakeReader, GoTo, Labels, disk
  <1>5. CASE FinishRead(r)
    BY <1>1, <1>3, <1>5, HandlerGoesOn
    DEF FinishRead, Answer, GoTo, Labels, Ended, Replies
  <1> QED
    BY <1>4, <1>5

(* The handlers of writes, up to the commit.                               *)
LEMMA WriteKeeps ==
    ASSUME IInv, NEW r \in Requests, TakeWriter(r) \/ RollBack(r)
    PROVE  IInv'
  <1>1. r \in InFlight /\ ~Down /\ r \in Writes /\ r \notin unfit
    BY KindsAssumption
    DEF TakeWriter, RollBack, InFlight, Ended, IInv, KindsApart, DownIsIdle, Types
  <1>2. reply = [reply EXCEPT ![r] = reply[r]] /\ reply[r] \in Replies
    BY DEF IInv, Types
  <1>3. /\ log' \in Seq(Writes) /\ durable' \in 0..Len(log')
        /\ \A w : Recorded(w) => Recorded(w)'
        /\ ClosedIsSynced'
    BY <1>1, LogStays DEF TakeWriter, RollBack, disk
  <1>4. CASE TakeWriter(r)
    BY <1>1, <1>2, <1>3, <1>4, HandlerGoesOn DEF TakeWriter, GoTo, Labels, disk
  <1>5. CASE RollBack(r)
    BY <1>1, <1>3, <1>5, HandlerGoesOn
    DEF RollBack, Answer, GoTo, Labels, Ended, Replies
  <1> QED
    BY <1>4, <1>5

(* A commit puts the write into the log; it is synced at once only if the  *)
(* pools are closed and nobody else has the file.                          *)
LEMMA CommitKeeps ==
    ASSUME IInv, NEW r \in Requests, Commit(r)
    PROVE  IInv'
  <1>1. r \in InFlight /\ ~Down /\ r \in Writes /\ r \notin unfit
    BY KindsAssumption
    DEF Commit, InFlight, Ended, IInv, KindsApart, DownIsIdle, Types
  <1>2. reply' = [reply EXCEPT ![r] = reply[r]] /\ reply[r] \in Replies
    BY DEF IInv, Types, Commit
  <1>3. /\ log' = Append(log, r) /\ log \in Seq(Writes) /\ Len(log) \in Nat
        /\ log' \in Seq(Writes) /\ Len(log') = Len(log) + 1
        /\ \A k \in 1..Len(log) : log'[k] = log[k]
        /\ log'[Len(log) + 1] = r
    BY <1>1 DEF IInv, Types, Commit
  <1>4. Recorded(r)' /\ \A w : Recorded(w) => Recorded(w)'
    BY <1>3 DEF Recorded, Commit
  <1>5. durable' \in 0..Len(log')
    BY <1>3 DEF IInv, Types, Commit, SyncedIfLast
  <1>6. ClosedIsSynced'
    BY <1>1 DEF ClosedIsSynced, Commit, SyncedIfLast, Down, main, others
  <1> QED
    BY <1>1, <1>2, <1>3, <1>4, <1>5, <1>6, HandlerGoesOn DEF Commit, GoTo, Labels

(* Steps of a handler without a connection: the answer of a write that was *)
(* committed, the error of a closed pool, and those of the probe.          *)
LEMMA AnswerKeeps ==
    ASSUME IInv, NEW r \in Requests,
           \/ AnswerWrite(r) \/ FailClosed(r)
           \/ ReadFlag(r) \/ Ping(r) \/ CompareVersion(r) \/ ProbeTimesOut(r)
    PROVE  IInv'
  <1>1. r \in InFlight /\ ~Down
    BY DEF AnswerWrite, FailClosed, ReadFlag, Ping, CompareVersion, ProbeTimesOut, InFlight,
           Waiting, Ended, IInv, DownIsIdle
  <1>2. reply = [reply EXCEPT ![r] = reply[r]] /\ reply[r] \in Replies
    BY DEF IInv, Types
  <1>3. UNCHANGED <<main, reading, writer, disk, others, unfit>>
    BY DEF AnswerWrite, FailClosed, ReadFlag, Ping, CompareVersion, ProbeTimesOut
  <1>4. /\ log' \in Seq(Writes) /\ durable' \in 0..Len(log')
        /\ \A w : Recorded(w) => Recorded(w)'
        /\ ClosedIsSynced'
    BY <1>1, <1>3, LogStays DEF disk
  <1>5. CASE AnswerWrite(r)
    <2>1. r \in Writes /\ Recorded(r) /\ r \notin unfit
      BY <1>5, KindsAssumption
      DEF AnswerWrite, IInv, KindsApart, AcknowledgedRecorded, Types
    <2> QED
      BY <1>1, <1>3, <1>4, <1>5, <2>1, HandlerGoesOn
      DEF AnswerWrite, Answer, GoTo, Labels, Ended, Replies, disk
  <1>6. CASE FailClosed(r)
    BY <1>1, <1>3, <1>4, <1>6, HandlerGoesOn
    DEF FailClosed, Answer, GoTo, Labels, Ended, Replies, disk
  <1>7. CASE ReadFlag(r)
    <2>1. CASE ShuttingDown
      BY <1>1, <1>3, <1>4, <1>7, <2>1, HandlerGoesOn
      DEF ReadFlag, Answer, GoTo, Labels, Ended, Replies, disk
    <2>2. CASE ~ShuttingDown
      <3>1. r \in unfit => newer /\ reply[r] # "ready"
        BY <1>7, <2>2 DEF ReadFlag, IInv, UnfitWarned
      <3> QED
        BY <1>1, <1>2, <1>3, <1>4, <1>7, <2>2, <3>1, HandlerGoesOn
        DEF ReadFlag, GoTo, Labels, Waiting, disk
    <2> QED
      BY <2>1, <2>2
  <1>8. CASE Ping(r)
    <2>1. r \in unfit => newer /\ reply[r] # "ready"
      BY <1>8 DEF Ping, IInv, UnfitWarned
    <2> QED
      BY <1>1, <1>2, <1>3, <1>4, <1>8, <2>1, HandlerGoesOn
      DEF Ping, GoTo, Labels, Waiting, disk
  <1>9. CASE CompareVersion(r)
    <2>1. r \in unfit => newer
      BY <1>9 DEF CompareVersion, IInv, UnfitWarned
    <2> QED
      BY <1>1, <1>3, <1>4, <1>9, <2>1, HandlerGoesOn
      DEF CompareVersion, Answer, GoTo, Labels, Ended, Replies, disk
  <1>10. CASE ProbeTimesOut(r)
    BY <1>1, <1>3, <1>4, <1>10, HandlerGoesOn
    DEF ProbeTimesOut, Answer, GoTo, Labels, Ended, Replies, disk
  <1> QED
    BY <1>5, <1>6, <1>7, <1>8, <1>9, <1>10

----------------------------------------------------------------------------
(* Every step keeps the invariant.                                         *)
LEMMA NextKeeps == IInv /\ [Next]_vars => IInv'
  <1> SUFFICES ASSUME IInv, [Next]_vars PROVE IInv'
    OBVIOUS
  <1>1. ASSUME \/ Open \/ ServeFails \/ Signal \/ Listen \/ Withdraw \/ CloseListener
               \/ Drained \/ DeadlinePasses
        PROVE  IInv'
    <2>1. life' \in Lives \ {"down", "stopped", "closed"} /\ (ShuttingDown => ShuttingDown')
      BY <1>1
      DEF Open, ServeFails, Signal, Listen, Withdraw, CloseListener, Drained, DeadlinePasses,
          MainGoes, Lives, ShuttingDown, Down
    <2>2. UNCHANGED <<handlers, disk, tool, unfit>>
      BY <1>1
      DEF Open, ServeFails, Signal, Listen, Withdraw, CloseListener, Drained, DeadlinePasses,
          MainGoes, others
    <2>3. crashes' \in Nat
      BY <1>1
      DEF IInv, Types, Open, ServeFails, Signal, Listen, Withdraw, CloseListener, Drained,
          DeadlinePasses, MainGoes, others
    <2>4. life' = "drained" => abandoned' \/ InFlight = {}
      BY <1>1
      DEF Open, ServeFails, Signal, Listen, Withdraw, CloseListener, Drained, DeadlinePasses,
          MainGoes
    <2> QED
      BY <2>1, <2>2, <2>3, <2>4, MainKeeps
  <1>2. ASSUME CloseDatabase \/ Exit \/ Kill \/ PowerFails PROVE IInv'
    BY <1>2, CloseDatabaseKeeps, ExitKeeps, KillKeeps, PowerFailsKeeps
  <1>3. ASSUME Checkpoint \/ ToolOpens \/ ToolCloses \/ ToolKilled PROVE IInv'
    BY <1>3, CheckpointKeeps, ToolKeeps
  <1>4. ASSUME NEW r \in Requests, Accept(r) PROVE IInv'
    BY <1>4, AcceptKeeps
  <1>5. ASSUME NEW r \in Requests, HandlerStep(r) PROVE IInv'
    BY <1>5, ReadKeeps, WriteKeeps, CommitKeeps, AnswerKeeps DEF HandlerStep
  <1>6. CASE UNCHANGED vars
    <2>1. UNCHANGED <<main, handlers, disk, others, unfit>>
      BY <1>6 DEF vars
    <2>2. /\ Types' /\ KindsApart' /\ FreshUnanswered' /\ DownIsIdle'
          /\ DrainedOrAbandoned' /\ ClosedIsSynced'
      BY <2>1
      DEF IInv, Types, KindsApart, FreshUnanswered, DownIsIdle, Down, DrainedOrAbandoned,
          ClosedIsSynced, InFlight, main, handlers, disk, others
    <2>3. AcknowledgedRecorded' /\ UnfitWarned'
      BY <2>1
      DEF IInv, AcknowledgedRecorded, Recorded, UnfitWarned, ShuttingDown, main, handlers, disk
    <2> QED
      BY <2>2, <2>3 DEF IInv
  <1> QED
    BY <1>1, <1>2, <1>3, <1>4, <1>5, <1>6 DEF Next, MainStep

(* The invariant holds in every reachable state.                           *)
THEOREM Invariant == Spec => []IInv
  BY InitIInv, NextKeeps, PTL DEF Spec

(* When the server has ended in order and no command has the file, every   *)
(* write it acknowledged is safe from a loss of power, unless an earlier   *)
(* one took it.                                                            *)
THEOREM StopsSafely == Spec => []StopLosesNothing
  <1>1. IInv => StopLosesNothing
    <2>1. SUFFICES ASSUME IInv, life = "stopped", tool = "out",
                          NEW w \in Writes, pc[w] = "answered", reply[w] = "ok"
                   PROVE  w \in lost \/ \E k \in 1..durable : log[k] = w
      BY DEF StopLosesNothing
    <2>2. durable = Len(log)
      BY <2>1 DEF IInv, DownIsIdle, Down, ClosedIsSynced
    <2> QED
      BY <2>1, <2>2 DEF IInv, AcknowledgedRecorded, Recorded
  <1> QED
    BY <1>1, Invariant, PTL

(* A probe that arrived at a server that is stopping, or whose schema was  *)
(* upgraded under it, is never told READY.                                 *)
THEOREM ProbesTellTheTruth == Spec => []ProbeTruthful
  <1>1. IInv => ProbeTruthful
    BY DEF IInv, UnfitWarned, ProbeTruthful
  <1> QED
    BY <1>1, Invariant, PTL

(* A request is cut only by a kill, a loss of power, a failed listener or  *)
(* the deadline.                                                           *)
THEOREM OnlyForceCuts == Spec => CutOnlyWhenForced
  <1>1. ASSUME IInv, [Next]_vars, NEW r \in Requests, pc[r] # "cut", pc'[r] = "cut"
        PROVE  crashes' # crashes \/ abandoned
    <2>1. CASE Exit
      BY <1>1, <2>1 DEF Exit, Gone, IInv, DrainedOrAbandoned
    <2>2. CASE Kill \/ PowerFails
      BY <1>1, <2>2 DEF Kill, PowerFails, IInv, Types
    <2>3. ASSUME NEW q \in Requests, Accept(q) \/ HandlerStep(q) PROVE FALSE
      BY <1>1, <2>3
      DEF IInv, Types, Accept, HandlerStep, TakeReader, FinishRead, TakeWriter, Commit, RollBack,
          AnswerWrite, FailClosed, ReadFlag, Ping, CompareVersion, ProbeTimesOut, GoTo, Answer
    <2>4. UNCHANGED pc \/ Exit \/ Kill \/ PowerFails \/ \E q \in Requests : Accept(q) \/ HandlerStep(q)
      BY <1>1
      DEF Next, MainStep, Open, ServeFails, Signal, Listen, Withdraw, CloseListener, Drained,
          DeadlinePasses, CloseDatabase, Checkpoint, ToolOpens, ToolCloses, ToolKilled,
          MainGoes, handlers, vars
    <2> QED
      BY <1>1, <2>1, <2>2, <2>3, <2>4
  <1>2. IInv /\ [Next]_vars =>
          [\A r \in Requests :
             pc[r] # "cut" /\ pc'[r] = "cut" => crashes' # crashes \/ abandoned]_vars
    BY <1>1
  <1> QED
    BY <1>2, Invariant, PTL DEF Spec, CutOnlyWhenForced
============================================================================
