# Verification of agent-feedback

TLA+ modules, TLC configurations and TLAPS proofs for agent-feedback: a Go service that keeps
reviews, events and frictions in one SQLite table, and the shell clients that submit to it, spool
what they cannot deliver, and work through the queue.

## 1. The system

| Component | State | Operations | Where it is hard | What makes it correct |
|---|---|---|---|---|
| Write transactions (`internal/store/store.go`) | writer pool of one connection, SQLite write lock, open transaction | `Open`, `Write`, `Close` | several handlers, several processes on one file, cancellation, crash, a commit whose answer is lost | transactions alone; every request ends |
| Submissions table (`store/queries.go`, `migrations/001_init.sql`) | rows, `sqlite_sequence` | insert, lookups, mark, unmark, count, list, documented purge | ids after deletes; order of equal timestamps | unique keys, ids never reused, rows write-once |
| Create (`internal/core/create.go`) | none of its own | `CreateReview`, `CreateEvent`, `CreateFriction` | check then insert; dedupe by clock | replay, mismatch or new row, and the answer says which |
| Processed marks (`core/process.go`) | none of its own | `SetProcessed` | batches racing with batches and inserts | the classification is what the commit did |
| Reads (`core/read.go`, `export.go`, `api/handlers_read.go`) | a read snapshot | list, get, export, count | pages under concurrent marks; failure in mid-stream | a page walk misses nothing that stays; an export is one snapshot |
| HTTP plumbing (`internal/api`) | metrics counters | auth, limits, JSON, errors | — | — |
| Lifecycle (`cmd/agentfeedback/main.go`, `api/server.go`) | shutting-down flag, listener, both pools | serve, ready, shutdown, backup | drain against handlers that wait for a connection; the shutdown deadline; a schema upgraded underneath; power loss | nothing acknowledged is lost on a clean stop; probes are true; no waiting for good |
| Migration (`store.go`) | `schema_version` | `migrate` | two processes opening one file | each migration applied once, in order |
| Import (`cmd/agentfeedback/import.go`) | one transaction | `importStream` | truncated or filtered streams, id sequence | all or nothing; ids stay unused |
| Canonical JSON and hashes (`internal/canonjson`, `core/hash.go`) | — | canonicalise, hash | numbers, key order, duplicates; an export that respells, an import that recomputes | equal documents hash alike, others do not, also after a restore |
| Client spool (`skills/agentfeedback/scripts/_common.sh`) | files `.json`, `.inflight`, `.rejected` and their mtimes | spool, prune, flush | concurrent flushers, crashes, retries after lost answers, age limits | nothing filed twice, nothing lost but by age |
| Submit scripts (`submit-*.sh`) | `.submitted` marker, sweep lock directory | submit, sweep | lock reclaim, kills | one sweep at a time; no run lost |
| Queue scripts (`process.sh`, `query.sh`) | cursor and rows fetched so far | page walk, batch marks | pages that change underneath; a full last page; a mark whose answer is lost | ends, visits what was there, once; a drained queue keeps nothing |
| Triage (`agentfeedback-triage`) | — | digest, cluster | grouping order | a partition |

The clients talk to the service over HTTP only; a request may be lost, answered too late or
handled after the client gave up. Handlers share the writer pool; processes share the database
file; client processes share the spool directory and the sweep lock.

## 2. What is modelled, and where

| Module | Models | State and code |
|---|---|---|
| `Submissions` | the table as data: rows, queries, updates and the rules of a table | every operator takes a table, a function from ids to rows; an idempotency key stands for (family, submission_type, run_id), a hash for the content it covers |
| `Inbox` | abstract specification: every request takes effect at once | table, and per request new, open, decided, done or failed |
| `WritePath` | `store.Write` under the write handlers, several processes | `rows`/`seq` committed; `txRows`/`txSeq` what the lock's holder sees; `lock` SQLite's write lock; `conn` the pool of each process; `pc`, `now`, `reply` the handler's locals |
| `FrictionRetry` | a friction from `submit-friction.sh` through the spool to `CreateFriction`, on one time line | `phase`, `mtime` the spool file; `flusher` one run of `af_flush_spool` each; `tries`, `answers` the network; `rows` the server |
| `KeyedSpool` | reviews and events from `submit-review.sh`, its sweep and `submit-event.sh` through the spool, several processes at once | `files` the spool, `marker` the `.submitted` files, `grade` the scorecards; `client[c]` the locals of one script: the list of its flush, the file or payload it waits for, curl's code; `sent` the network; `stored` the server |
| `ExportImport` | export of a serving database, the stored stream, its import into another database | `rows`/`seq` source, `export` the streaming handler with its read view and running digest, `file` the stream, `tRows`/`tSeq` target, `imp` the import's transaction (`rows`, `seq`) and the locals of `importStream` (`pc` for `haveHeader` and `haveTerm`, `digest` for digest and count, `maxSeen`, `end`) |
| `SweepLock` | the mkdir lock of `submit-review.sh --sweep`, one command per step | `lock` the directory with its two files and its age; `pc` the script; `acquainted`, `strayed` history: who made or judged the directory that is there, and whether a removal hit another |
| `Migrate` | `store.Open` and `migrate` in processes of different releases on one file | `table`, `versions` the table `schema_version`; `applied` the scripts committed, which is the schema; `lock` SQLite's write lock; `current` the local of `migrate` |
| `QueueWalk` | `process.sh list`, `digest.sh` and the draining loop of docs/api.md, page by page against everything that changes the queue | `rows` the part of the table the fixed filters select, id to processed; `walk[w]` the script: cursor, rows fetched, the page on its way, and the open read transaction's snapshot |
| `CanonJson` | `canonjson.Marshal`: parser and writer over lexemes, and a reference of what a document says | operators only; recursive, so nothing is proved about it |
| `EventReplay` | one event key through posts, export, loss and restore, its hash computed by `CanonJson` | `stored` the row, `line` its record in a stream, `answer` the last post's |
| `Serving` | `runServe` from open to exit, its handlers with the two pools, `/ready`, a maintenance command, kill and loss of power | `life` where main stands; `pc`, `reading`, `writer` the handlers and the pools; `log`, `durable` the committed writes and how many a loss of power spares; `newer` the schema |
| `MC*` | the instances TLC checks | |
| `SubmissionsProofs` | lemmas about the table's operators | |
| `WritePathProofs`, `FrictionRetryProofs`, `MigrateProofs`, `ServingProofs`, `QueueWalkProofs`, `ExportImportProofs` | theorems about the module each is named after, and their proofs | section 4 |
| `ReviewClientProofs` | theorems about `KeyedSpool` and `SweepLock`, the two halves of the scripts that submit reviews and events (the names of `SweepLock` differ for that: `LockSpec`, `LockTypeOK`...) | section 4 |

`FrictionRetry` uses the table operators of `Submissions` for the server and takes its transaction
as one step; `WritePath` implementing `Inbox` (`WritePathImplementsInbox`) is what allows that. A request in `WritePath`
begins after validation: one that fails validation touches no state.

Choices a reader should know:

- A clock reading (`nowMicros`) in `WritePath` is any member of `Times`, so it may stand still or
  step back between requests. In `FrictionRetry` time only moves forward and both sides' clocks run
  at one rate; only differences of readings of one clock are compared by the code.
- `SQLITE_BUSY` (`Busy`) may happen whenever another process has the lock; `busy_timeout` is not
  counted.
- `createKeyed`'s branch for a unique violation (create.go:313-323) is not an action:
  `CheckHoldsAtInsert` shows (and `ChecksHold` proves) that no insert can meet one.
- `Post` in `FrictionRetry` lets a flusher post any file it globbed that still exists under either
  name. The code skips a `.json` that somebody else renamed; the model allows more.
- `KeyedSpool` does not keep sweeps apart (the lock does not quite, see findings), and a sweep
  may come at any time: the two hours a run must have rested only delay it. While the service is not
  `up`, anything may happen to a request: handled, handled late, answered or not, refused with 401,
  4xx, 5xx or a malformed success. The flush goes through its list in the glob's order of families
  and extensions and in any order within those. A claimed file that is gone when curl opens it gives
  an error (000) or, with older curls, an empty body and a 400. The collision branches (a receipt for
  another record) cannot be reached with this service and are left out. Days pass between calls.
- A flush's list of files is taken when it prunes; a file spooled between the prune and the glob is
  younger than all others and is posted by the next flush.
- In `ExportImport` every write of a server is one step. A stream is a sequence of lines, a digest
  the records it covers (SHA-256 tells any two of them apart); storage may lose a line, append one again, or take the mark off a record,
  once. `Reject` stands for every failed check of a line, a failing insert and a crash: what the
  model says is that nothing else commits. Hashes are right (`--trust-hashes` makes no difference).
- `rm -rf` of the sweep lock is one step, a live pid is never taken over by another program, and
  `kill -0` succeeds exactly for a running sweep.
- In `Migrate` a script is its number, and it fails on a schema that has its tables (the scripts
  create without `IF NOT EXISTS`). Only one migration exists today; the second of the instance is
  one a later release adds. `SELECT version` without an order reads the row with the lowest rowid,
  the first one inserted. A process of an old release that read the version just before a newer one
  migrated still opens: the model allows it, and only the readiness check (server.go:173-188) tells.
- Two files in a directory and one removal take less than ten minutes (`GrowOld`'s guard).
- In `QueueWalk` family, type, machine, model and time of a row never change, so the filters on them
  choose which rows are in `rows`; the others only take ids (`FileElsewhere`). A page is two actions,
  `Count`, which opens the snapshot, and `Select`, with writers between them. `due`, the rows a walk
  owes, and `quiet` are history. A request may fail at any stage; a failed `done` may have marked.
- In `CanonJson` a text is its lexemes, a string has two spellings, a number is its text; true, false
  and null behave like numbers. Not kept is that Go's decoder replaces bytes that are no UTF-8 by
  U+FFFD: two payloads that differ in nothing else hash alike.
- In `EventReplay` a hash is the text it digests. `--trust-hashes`, by which an operator vouches for
  the declared hashes, is left out: with it `RestoreKeepsIdentity` is the operator's promise.
- In `Serving` a write is one commit (`WritePath` says how), an export one read that takes as long as
  it likes. A probe's ping and version query take a connection each; either may time out. SQLite
  checkpoints whenever it likes, and when the last connection of the last process closes in order. A
  maintenance command may be of a newer release; a server of the old one then does not open again.

## 3. Runs

Bounds: two or three concurrent requests are the least that lets a third see what two others did;
two processes are the least that makes the lock matter; a second attempt allows a retry after a
commit whose answer was lost. Times 0..2 with a window of 1 contain "exactly one window apart",
"just past it", and every order of readings. Where a run sets `CHECK_DEADLOCK FALSE` the instance
really stops: every request was answered or its attempts are used up, or the horizon is reached.
In `Migrate` it stops when every process has the database open and the failures are used up, in
`Serving` when nobody starts the server again.
`SweepLock`, `QueueWalk` and `EventReplay` check for deadlock.

| Run | Instance | Shows |
|---|---|---|
| `WritePath` | 3 requests on 2 processes: submissions of one key with two contents and of one friction, batches with marks, undo and two resolutions, the purge; one request sent twice; fair handlers | `TypeOK`, `Isolation`, `CheckHoldsAtInsert`, `TableRules`, `AnswersTruthful`, `IdsNeverReused`, `WriteOnce`, `ClassificationTruthful`, implements `Inbox`, `EveryRequestEnds` |
| `FrictionRetry_reports` | 2 reports of one content, 1 flusher, horizon 7 | `TypeOK`, `OneRowPerReport` |
| `FrictionRetry_again` | 2 reports, 1 flusher, horizon 9 | violation: see findings |
| `ExportImport` | a source of 2 ids, 1 export with 3 filters, target of 3 ids, 3 sets of flags, any number of imports | `TypeOK`, `TargetRules`, `ExportIsOneState`, `ImportRestoresAnExport`, `ArchivedIdsStayRetired` |
| `KeyedSpool_races` | 1 run graded twice, 2 processes, 2 files, 3 calls in trouble, 1 kill | `TypeOK`, `NothingLost`, `MarkerTruthful` |
| `KeyedSpool_live` | 1 run, 1 process, 2 files, outage, 2 days, 1 kill, fair | `SpoolDrains`, `RunsDelivered` |
| `KeyedSpool_head` | 1 run, 1 event, a payload too slow to send, fair | violation: see findings |
| `SweepLock` | 3 slots for sweeps, 2 kills, fair | `LockTypeOK`, `SingleUnlessStrayed`, `SweepsGoOn` |
| `Migrate` | 2 processes of a release with 2 migrations, 1 of a release with 1, 2 failures, fair | `TypeOK`, `AppliedOnceInOrder`, `SchemaTruthful`, `NewestOpens` |
| `QueueWalk` | 4 ids, 1 walker that makes passes of 4 kinds, pages of 1 or 2, 1 failed request, fair | `TypeOK`, `WalkExact`, `TotalTruthful`, `WalkEnds`, `EveryRowDrains` |
| `EventReplay` | objects of up to 2 members, each name spelled in 2 ways, scalars, arrays and objects in them; texts cut short or doubled; 2 senders; streams of this service and of others | `AnswersByContent`, `RestoreKeepsIdentity` |
| `Serving` | 2 reads for 1 connection, 1 write, 1 probe, 1 kill, failed listener or loss of power, 2 starts, 1 maintenance command, fair | `StopLosesNothing`, `ProbeTruthful`, `CutOnlyWhenForced`, `EverythingEnds` |

In `ExportImport` two ids are one row read before and one read after a write, a mark or a purge, and
one selected and one skipped record; the target's third id is one it hands out after an import.

In `KeyedSpool` three calls are one that spools and two that flush what it left, at once. An age
limit of 0 days with two days is the least that lets a file age between any two calls; where aging
is not the question the horizon is 0. Calls are only counted while the service is in trouble:
when it is up, any number follow. Without a change of condition (`MaxChanges` 0) the service is up
or in trouble from the start; in trouble it may do whatever it does when it is up.

In `FrictionRetry` the window is 5, the age limit 2 and the timeout, flush and journey 1 each: they
just fit (`SafeDurations`, checked by `MCFrictionRetry`), so one unit more anywhere is seen. The
horizon lets a row leave the window with retries of its report still possible. A second flusher is more
than TLC can take here: `KeyedSpool_races` has two on one spool, and `RetriesFileOnce` proves
`OneRowPerReport` for any number.

In `QueueWalk` four ids are two full pages of two, or a first page, a row that matters and one more on
each side; the payload ceiling of 1 below the page size of 2 is the case of a page the server cuts
(`maxListLimitWithPayload`), the limit of 3 one that ends in the middle of a page. Walkers share
nothing but the table, whose every change they allow, so one of them sees all a second could do.

In `Serving` two reads for a pool of one are the least that makes a reader wait; the code's four
connections only need more exports. One crash leaves a second start to be orderly.

Fairness. `WritePath.FairSpec` is weak fairness of each request's own steps: Go runs every runnable
goroutine, `database/sql` serves the waiters of its pool, and `BEGIN IMMEDIATE` ends by lock or by
`busy_timeout`. Clients, crashes and the purge are never assumed to happen. `SweepLock.FairLockSpec` is
weak fairness of time and of each script, including that a sweep is started again: sessions keep
starting them. A kill is never assumed. `SweepsGoOn` needs all three: a lock whose sweep was killed before it wrote its
owner file only goes once it is old and another sweep comes. `KeyedSpool.FairSpec` is weak fairness of each script's
steps and of answers, and strong fairness of sweeps (each run of a review runner ends with one);
its properties ask for nothing unless the service stays up from some time on. `Migrate.FairSpec` is weak fairness of each process, a
restart after a failed open included (`restart: unless-stopped` in the compose files).
`QueueWalk.FairSpec` is weak fairness of a script's steps and strong fairness of starting a draining
pass (only `EveryRowDrains` needs that one: somebody triages again and again); the failed requests are
bounded by `MaxFailures`, which a real outage is not: a walk in an outage ends by failing.
`Serving.FairSpec` is weak fairness of main and strong fairness of each handler: `database/sql` serves
its waiters in turn, so one that waits for a connection that comes free again and again gets it.

### Findings

- `FrictionRetry_again`: report B is absorbed into the row of report A; the answer is lost, B goes
  to the spool, A's row leaves the window, and the retry of B files a new row. SKILL.md:129-131 says
  a retry "can never double-file". It cannot for a report with a row of its own (`RetriesFileOnce`).
- `KeyedSpool_head`: a request without an answer ends the flush (_common.sh:435-440), because "every
  remaining file would eat the same timeout". That is so when the service is down, not when one
  payload cannot be uploaded in curl's ten seconds: then each flush ends at that file.

Differences without a run of their own:

- The sweep lock is not quite "single instance per machine" (submit-review.sh:35). A killed
  sweep leaves its lock; two sweeps both find it stale; the first removes and remakes it, and the second's
  `rm -rf` (line 425), which acts on the path and not on the directory it judged, removes that one:
  both sweep. `SingleInstance` in `SweepLock` states the claim, and TLC refutes it with three processes and
  one kill. `SingleUnlessStrayed`, which holds, says that nothing else lets two in: not a sweep that
  takes long, nor a lock that is reclaimed. The server dedupes reviews, so no data is harmed.
- docs/api.md:91 and the header of 001_init.sql call ids never reused. Within what a disk keeps they are
  not (`IdsNeverReused`, proved); a loss of power under `synchronous(NORMAL)` (store.go:52) may take
  the last commits back, sequence included, and their ids are given to other rows. `PowerFails` in
  `Serving` models it; `StopLosesNothing` says from when on a write is safe.
- server.go:153-155 says a wedged database must fail the probe instead of reporting READY "while every
  write fails". The probe only reads: with the writer's lock held for good by another process every
  write fails and `/ready` says READY (`Ping` and `CompareVersion` use the reader pool alone).
- server.go:23-24 has `/ready` report 503 while requests drain. `Shutdown` closes the listener right
  after the flag is set (main.go:135-140), so new probes are refused; 503 is what a probe on a
  connection accepted in between sees (`Accept` between `Withdraw` and `CloseListener`).
- `process.sh done` reports "error" for an answer that was lost after its commit: the rows are marked
  (`MarkPage`), while the table at SKILL.md:124 says of an error that nothing changed. Repeating the call
  is safe: the ids come back as unchanged.

Two more differences are visible in `KeyedSpool` (`TooOld`, `Delivered`) and have no run of their own.
SKILL.md:233 keeps rejected files 30 days; the code counts the days from when the payload was
spooled, since the rename keeps the modification time. SKILL.md:222 has the marker follow a validated
receipt; a receipt validated by a flush leaves none. Usually the next sweep gets a replay and writes
it; if the stored content differs from what a sweep builds, every sweep gets a mismatch instead.

## 4. Proofs

All theorems hold for every value of the constants that satisfies the modules' named assumptions.
Those say that sentinels (`Null`, `NoKey`, `Nobody`, `Absent`, `None`...) are no real values, that
bounds and durations are numbers, that pools, pages and a run's grades are not empty, that the clock
can be read (`Times` is not empty), that some query exists, that every request has a server, and that
no request of `Serving` is of two kinds. None bounds the number of requests, processes, reports, flushers, sweeps,
walkers, rows or attempts. Every inductive invariant `IInv` was checked by TLC on the instance of
its run before it was proved.

- `SubmissionsProofs`: each update keeps a table a table, and which rule each of them keeps: an
  insert keeps unique keys if the key was free and spacing if no recent equal friction was found;
  marks keep content; removals keep every rule.
- `WritePathProofs`: `Invariant` proves the inductive `IInv`, and `TypeCorrect`,
  `TransactionsAlone`, `ChecksHold`, `RulesKept`, `Truthful`, `NoIdReused` and `RowsWriteOnce`
  follow. The table rules alone are not inductive: that an insert keeps them needs the lookup's
  result to still hold (`CheckHoldsAtInsert`), which needs the transaction to be alone (`Isolation`)
  and a rollback to drop its writes; that an answer given before the commit is true after it needs
  `CommitTruthful` about the table being committed; that a commit loses no row needs `TxExtends`.
- The same module proves the refinement, `WritePathImplementsInbox`. Its mapping takes `pc` to the
  stage of a request and shows an answer once it was committed. The step that matters is `Commit`:
  it must be one atomic step of `Inbox` although lookup, check and write came earlier. `AllPrepared`
  (`TransactionsPrepared`) carries what they found, as facts about the committed table that the open
  transaction shields: a new row of a submission that nothing there stood in the way of, no change
  and the row that answers it, or the update and classification of a batch. A mismatch commits
  nothing and is decided at the lookup (`Refuse`), which rolls back; every other step maps to its
  namesake or a stutter. `BatchesClassifyTruthfully` uses the same invariant.
- `FrictionRetryProofs`: `RetriesFileOnce`. The argument bounds time along the path of a report: a
  file is written at most a timeout after the first try (`SpooledInTime`), a flush posts only files
  that were young when it began (`FlushesInTime`), so every try is sent within
  timeout + age + flush of the first (`TriesInTime`) and arrives a journey later; a row of the report
  is no older than its first try (`RowsHaveAuthors`). Under `SafeDurations` the row is then recent
  and absorbs the try. `TypeCorrect` and `FrictionsStaySpaced` need no relation of the durations.
- `MigrateProofs`: `MigratedOnce` and `VersionTruthful`. A process that migrates may have read an old
  version, never one ahead of the schema (`CurrentNotAhead`). If it is behind, the script it runs was
  applied and fails; if the script runs, then every earlier one was applied, so it is the next. A
  second first row goes after the first (`VersionIsSchema` reads the head) and every row is updated.
  A file that is open had every migration the process knows (`OpenHasSchema`), and none is undone.
- `ServingProofs`: `StopsSafely` needs that an acknowledged write is in the log (`AcknowledgedRecorded`)
  and that whoever is last to close the file has synced all of it (`ClosedIsSynced`: the server, or a
  command that outlived it), which needs that no handler holds a connection of a process that is gone
  (`DownIsIdle`). `ProbesTellTheTruth`: a probe that must not hear READY will still find the flag or
  the newer schema, whichever it has not looked at yet (`UnfitWarned`). `OnlyForceCuts`: handlers left
  when the pools close were given up at the deadline (`DrainedOrAbandoned`).
- `ReviewClientProofs`, about `SweepLock`: `OneSweepUnlessStrayed`. Nothing a sweep checks before it enters says that it is
  alone; that follows from where the one that made the directory stands (`Sole`). While it sets the lock up
  the directory is not old, so nobody judges it; from then on, until it starts to release, the directory names it, so the second look at
  the owner (line 424) sends everybody away who had judged the lock: a sweep that gets past it judged a
  directory that nobody is inside of (`Judged`), or one that is gone. In the second case its removal is a stray one (`strayed`).
- The same module, about `KeyedSpool`: `PromisesKept` and `MarkersTruthful`. Two flushes may hold one file, and a rename or
  removal by one changes what the other has. `Attentive` says what holds of a client whatever others do:
  the file it posted is gone or still has the payload it sent, and a 200 or 201 that it heard is true of
  the service, which never changes what it stored. So a removal takes away only what the service has,
  and a marker is written only for what it stored.
- `QueueWalkProofs`: `WalksExact` and `TotalsTruthful`, for pages and limits of any size. The invariant
  `Good` follows one pass through its stages: the cursor divides the rows fetched from the rows still
  due (`Divided`), the snapshot has every due row (`Counted`), the page is its newest part below the cursor
  (`Answered`, from the lemmas about `Newest`, which rest on cardinalities of finite sets), and once
  taken its next cursor divides again (`Taken`). Other clients only take rows out of what is due or
  add newer ones, above every cursor; while nothing changes (`quiet`), the parts are exact, which gives
  the totals.
- `ExportImportProofs`: `ExportsAreOneState`, `ImportsRestoreExports`, `TargetKeepsRules` and
  `ArchivedIdsRetired`, for tables, filters and flags of any size, any number of exports and imports.
  The export is followed by the table t of the source that its transaction reads (`Reading`): what it
  wrote and what it still holds divide the matching rows of t, every id written is below every id to
  come, and t keeps the rules of a table, though the source has moved on. A stored stream may hold
  anything, so of its records nothing is invariant, not even that a resolution has its mark; only its
  terminators are what an export wrote (`Trusted`). What the import built is the target's rows and the
  selected records of what it read (`Restoring`), so when the terminator agrees, what it read is an
  export's. That is where the rules come from that no index enforces: the records of an export keep
  the marks and the spacing of the table they were read from (`Archive`). `maxSeen` bounds every id
  read, and the sequence passes it at the commit.

Only model-checked: `EveryRequestEnds`, `SweepsGoOn`, `NewestOpens`, `SpoolDrains`,
`RunsDelivered`, `WalkEnds`, `EveryRowDrains` and `EverythingEnds` (liveness, out of the prover's reach);
`AnswersByContent` and `RestoreKeepsIdentity` (the parser of `CanonJson` is recursive, out of its reach
too). Every other property of a passing run is proved.

## 5. Not modelled

Partly modelled: of the triage skill only the digest's walk (the clustering compares texts with
thresholds on real numbers, a function of one file with no state); of a backup its open and close
(`VACUUM INTO` is one statement of SQLite); of the hashes those of events (those of reviews and
frictions are `encoding/json` of a fixed struct); of a review submission everything but how the
payload is put together from the run's files.

The checks of single inputs are left out too, and the lines that make them are not mapped: the validation of
the three creates touches no state, and what `parseImportRecord` finds wrong with a line has one effect, the rollback of
`Reject`. `Content` stands for what `build_payload` makes of a run: of its lines only the scores of the reviewer rows are mapped.

Left out for good: HTTP plumbing (nothing of it outlives a request but counters), configuration and
logging, deployment, release and evaluation scripts (run by hand), tests.
