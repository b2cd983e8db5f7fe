------------------------------ MODULE Migrate ------------------------------
(***************************************************************************)
(* store.Open and migrate, run by several processes on one database file:  *)
(* a server and a maintenance command, or two servers during an upgrade.   *)
(* The recorded version is read outside any transaction; each migration is *)
(* a transaction of its own that runs the script and records its number.   *)
(*                                                                         *)
(* A migration is its number.  Its script creates tables and indexes, so   *)
(* running it on a schema that has them fails.                             *)
(***************************************************************************)
EXTENDS Naturals, Sequences

CONSTANTS
    Processes,   \* processes that open the database
    Known,       \* per process: the migrations its binary embeds, 1..Known
    MaxFailures, \* bound: how often a process fails or is killed
    Nobody       \* no transaction is open

ASSUME KnownAssumption == Known \in [Processes -> Nat]
ASSUME NobodyAssumption == Nobody \notin Processes
ASSUME FailuresAssumption == MaxFailures \in Nat

VARIABLES
    table,    \* whether schema_version exists
    versions, \* its rows, in the order of their insertion
    applied,  \* the migrations that were committed, in order: the schema
    lock,     \* SQLite's write lock
    pc,       \* per process: where its Open stands
    current,  \* per process: the version it read or reached
    failures  \* how often a process failed

file == <<table, versions, applied>>
vars == <<file, lock, pc, current, failures>>

PC == {"down", "create", "read", "insert", "migrate", "apply", "open"}

TypeOK ==
    /\ table \in BOOLEAN
    /\ versions \in Seq(Nat)
    /\ applied \in Seq(Nat)
    /\ lock \in Processes \cup {Nobody}
    /\ pc \in [Processes -> PC]
    /\ current \in [Processes -> Nat]
    /\ failures \in 0..MaxFailures
    /\ ~table => versions = <<>>
    /\ \A p \in Processes : pc[p] = "apply" <=> lock = p

Init ==
    /\ table = FALSE /\ versions = <<>> /\ applied = <<>>
    /\ lock = Nobody
    /\ pc = [p \in Processes |-> "down"]
    /\ current = [p \in Processes |-> 0]
    /\ failures = 0

----------------------------------------------------------------------------
GoTo(p, label) == pc' = [pc EXCEPT ![p] = label]
Schema == Len(applied)
WasApplied(m) == \E i \in DOMAIN applied : applied[i] = m

Start(p) ==
    /\ pc[p] = "down"
    /\ GoTo(p, "create")
    /\ UNCHANGED <<file, lock, current, failures>>

CreateTable(p) ==
    /\ pc[p] = "create"
    /\ lock = Nobody
    /\ table' = TRUE
    /\ GoTo(p, "read")
    /\ UNCHANGED <<versions, applied, lock, current, failures>>

(* SELECT version reads the first row.                                     *)
ReadVersion(p) ==
    /\ pc[p] = "read"
    /\ \/ /\ versions = <<>>
          /\ GoTo(p, "insert")
          /\ UNCHANGED current
       \/ /\ versions # <<>> /\ Head(versions) <= Known[p]
          /\ current' = [current EXCEPT ![p] = Head(versions)]
          /\ GoTo(p, "migrate")
       \/ /\ versions # <<>> /\ Head(versions) > Known[p]  \* ErrSchemaTooNew
          /\ GoTo(p, "down")
          /\ UNCHANGED current
    /\ UNCHANGED <<file, lock, failures>>

(* The row was missing when this process looked; it may be there by now.   *)
InsertVersion(p) ==
    /\ pc[p] = "insert"
    /\ lock = Nobody
    /\ versions' = Append(versions, 0)
    /\ current' = [current EXCEPT ![p] = 0]
    /\ GoTo(p, "migrate")
    /\ UNCHANGED <<table, applied, lock, failures>>

BeginMigration(p) ==
    /\ pc[p] = "migrate"
    /\ current[p] < Known[p]
    /\ lock = Nobody
    /\ lock' = p
    /\ GoTo(p, "apply")
    /\ UNCHANGED <<file, current, failures>>

(* One transaction: the script and the UPDATE of every row commit          *)
(* together, or the script fails because it ran before, and Open with it.  *)
Committed(p) ==
    /\ applied' = Append(applied, current[p] + 1)
    /\ current' = [current EXCEPT ![p] = @ + 1]
    /\ GoTo(p, "migrate")
    /\ lock' = Nobody

\* Mutant: the script runs again without an error (IF NOT EXISTS).
ScriptRunsAgain(p) ==
    /\ versions' = [i \in DOMAIN versions |-> current[p] + 1]
    /\ Committed(p)

\* Mutant: the script is committed, its number is not recorded with it.
ScriptRunsUnrecorded(p) ==
    /\ ~WasApplied(current[p] + 1)
    /\ Committed(p)
    /\ UNCHANGED versions

ScriptRuns(p) ==
    /\ ~WasApplied(current[p] + 1)
    /\ versions' = [i \in DOMAIN versions |-> current[p] + 1]
    /\ Committed(p)

\* Mutant: the error of a script does not end Open, it is tried again.
ScriptRetried(p) ==
    /\ WasApplied(current[p] + 1)
    /\ GoTo(p, "migrate")
    /\ lock' = Nobody
    /\ UNCHANGED <<versions, applied, current>>

\* Mutant: an error return leaves the transaction open (no deferred Rollback).
ScriptFailsInside(p) ==
    /\ WasApplied(current[p] + 1)
    /\ GoTo(p, "down")
    /\ UNCHANGED <<versions, applied, current, lock>>

ScriptFails(p) ==
    /\ WasApplied(current[p] + 1)
    /\ GoTo(p, "down")
    /\ lock' = Nobody
    /\ UNCHANGED <<versions, applied, current>>

ApplyMigration(p) ==
    /\ pc[p] = "apply"
    /\ ScriptRuns(p) \/ ScriptFails(p)
    /\ UNCHANGED <<table, failures>>

\* Mutant: the loop stops before the last migration.
EndOpenEarly(p) ==
    /\ pc[p] = "migrate"
    /\ current[p] + 1 >= Known[p]
    /\ GoTo(p, "open")
    /\ UNCHANGED <<file, lock, current, failures>>

EndOpen(p) ==
    /\ pc[p] = "migrate"
    /\ current[p] >= Known[p]
    /\ GoTo(p, "open")
    /\ UNCHANGED <<file, lock, current, failures>>

(* The process is killed, stopped, or a statement fails (busy, disk).      *)
Fail(p) ==
    /\ pc[p] # "down"
    /\ failures < MaxFailures
    /\ failures' = failures + 1
    /\ GoTo(p, "down")
    /\ lock' = IF lock = p THEN Nobody ELSE lock
    /\ UNCHANGED <<file, current>>

Step(p) ==
    \/ Start(p) \/ CreateTable(p) \/ ReadVersion(p) \/ InsertVersion(p)
    \/ BeginMigration(p) \/ ApplyMigration(p) \/ EndOpen(p)

Next == \E p \in Processes : Step(p) \/ Fail(p)

Spec == Init /\ [][Next]_vars

(* A process that ended is started again (restart: unless-stopped), and a  *)
(* running one runs on.                                                    *)
FairSpec == Spec /\ \A p \in Processes : WF_vars(Step(p))

----------------------------------------------------------------------------
(* However many processes migrate at once, from whatever version they      *)
(* read, every migration is committed once, in ascending order.            *)
AppliedOnceInOrder == \A i \in DOMAIN applied : applied[i] = i

(* The schema the file has is the one recorded, also when two processes    *)
(* both inserted a first row,                                              *)
VersionIsSchema ==
    IF versions = <<>> THEN applied = <<>> ELSE Head(versions) = Schema

(* and has the tables that the binary of a process expects by the time it  *)
(* opened the database.                                                    *)
OpenHasSchema == \A p \in Processes : pc[p] = "open" => Schema >= Known[p]

(* Both: no process works on a schema other than it takes it to be.        *)
SchemaTruthful == VersionIsSchema /\ OpenHasSchema

(* A process whose binary no other is ahead of opens the database in the   *)
(* end, even if it lost a race before.                                     *)
NewestOpens ==
    \A p \in Processes :
        (\A q \in Processes : Known[q] <= Known[p]) => []<>(pc[p] = "open")
============================================================================
