----------------------------- MODULE SweepLock -----------------------------
(***************************************************************************)
(* The mkdir lock of submit-review.sh --sweep: a directory with an owner   *)
(* file (a pid) and a born file.  A sweep that finds the directory backs   *)
(* off while its owner lives or the lock is younger than ten minutes, and  *)
(* otherwise removes the directory and makes its own.  Every command that  *)
(* touches the directory is a step, so other sweeps run between them, and  *)
(* a sweep may be killed anywhere.                                         *)
(*                                                                         *)
(* Time is abstracted to one bit: a directory becomes old some time after  *)
(* it was made.  A slot of Sweeps stands for one process after another;    *)
(* when a process is gone, the pid it left in the owner file is dead.      *)
(***************************************************************************)
EXTENDS Naturals, FiniteSets

CONSTANTS
    Sweeps,      \* slots for concurrent sweep processes
    MaxCrashes,  \* bound: how often a sweep is killed
    Absent,      \* there is no lock directory
    NoOwner,     \* the owner file is missing
    DeadPid      \* the owner file names a process that is gone

ASSUME SlotsAssumption == {NoOwner, DeadPid} \cap Sweeps = {}

ASSUME CrashesAssumption == MaxCrashes \in Nat

VARIABLES
    lock,       \* Absent, or the directory's contents
    pc,         \* per slot: the next command of its process
    crashes,    \* how many sweeps were killed
    acquainted, \* who made the directory that is there, or found it stale (history)
    strayed     \* a sweep removed a directory it neither made nor judged (history)

lockHistory == <<acquainted, strayed>>
lockVars == <<lock, pc, crashes, lockHistory>>

Directory == [owner : Sweeps \cup {NoOwner, DeadPid}, born : BOOLEAN, old : BOOLEAN]
NewDirectory == [owner |-> NoOwner, born |-> FALSE, old |-> FALSE]

ASSUME AbsentAssumption == Absent \notin Directory

Sweeping == {"sweep", "release"}
PC == {"idle", "mkdir", "live", "stale", "recheck", "remove", "remake",
       "owner", "born", "unlink", "rmdir"} \cup Sweeping

Owns(p) == lock # Absent /\ lock.owner = p
Empty == lock # Absent /\ lock.owner = NoOwner /\ ~lock.born

(* Types, and that a pid in the owner file is that of a running process.   *)
LockTypeOK ==
    /\ lock \in Directory \cup {Absent}
    /\ pc \in [Sweeps -> PC]
    /\ crashes \in 0..MaxCrashes
    /\ acquainted \subseteq Sweeps
    /\ strayed \in BOOLEAN
    /\ \A p \in Sweeps : Owns(p) => pc[p] # "idle"

LockInit ==
    /\ lock = Absent
    /\ pc = [p \in Sweeps |-> "idle"]
    /\ crashes = 0
    /\ acquainted = {}
    /\ strayed = FALSE

----------------------------------------------------------------------------
GoTo(p, label) == pc' = [pc EXCEPT ![p] = label]

\* Mutant: the process ends and its pid still counts as alive.
ExitLeavingPid(p) == GoTo(p, "idle") /\ UNCHANGED lock

(* The process is gone; an owner file naming it now names a dead pid.      *)
Exit(p) ==
    /\ GoTo(p, "idle")
    /\ lock' = IF Owns(p)
                 THEN [lock EXCEPT !.owner = DeadPid] ELSE lock

\* Mutant: any pid in the owner file counts as alive.
AnyOwner == lock # Absent /\ lock.owner # NoOwner

(* sweep_lock_owner_live                                                   *)
OwnerLive == lock # Absent /\ lock.owner \in Sweeps

(* sweep_lock_is_stale: a lock that vanished meanwhile is not.             *)
IsStale == lock # Absent /\ lock.old

StartSweep(p) ==
    /\ pc[p] = "idle"
    /\ GoTo(p, "mkdir")
    /\ UNCHANGED <<lock, crashes, lockHistory>>

(* A mkdir that succeeds.                                                 *)
Made(p) ==
    /\ lock = Absent /\ lock' = NewDirectory
    /\ acquainted' = {p}
    /\ UNCHANGED strayed

(* The path is free again, whichever directory was there.                  *)
Freed(p) ==
    /\ lock' = Absent
    /\ acquainted' = {}
    /\ strayed' = (strayed \/ (lock # Absent /\ p \notin acquainted))

Make(p) ==
    /\ pc[p] = "mkdir"
    /\ \/ Made(p) /\ GoTo(p, "owner")
       \/ lock # Absent /\ UNCHANGED <<lock, lockHistory>> /\ GoTo(p, "live")
    /\ UNCHANGED crashes

(* The owner is checked before and after the age.                          *)
CheckLive(p) ==
    /\ pc[p] \in {"live", "recheck"}
    /\ \/ OwnerLive /\ Exit(p)
       \/ /\ ~OwnerLive
          /\ GoTo(p, IF pc[p] = "live" THEN "stale" ELSE "remove")
          /\ UNCHANGED lock
    /\ UNCHANGED <<crashes, lockHistory>>

\* Mutant: the owner is not checked again.
CheckStaleOnly(p) ==
    /\ pc[p] = "stale"
    /\ \/ /\ IsStale /\ GoTo(p, "remove") /\ UNCHANGED lock
          /\ acquainted' = acquainted \cup {p}
       \/ ~IsStale /\ Exit(p) /\ UNCHANGED acquainted
    /\ UNCHANGED <<crashes, strayed>>

CheckStale(p) ==
    /\ pc[p] = "stale"
    /\ \/ /\ IsStale /\ GoTo(p, "recheck") /\ UNCHANGED lock
          /\ acquainted' = acquainted \cup {p}
       \/ ~IsStale /\ Exit(p) /\ UNCHANGED acquainted
    /\ UNCHANGED <<crashes, strayed>>

(* rm -rf, whatever directory is there by now.                             *)
Remove(p) ==
    /\ pc[p] = "remove"
    /\ Freed(p)
    /\ GoTo(p, "remake")
    /\ UNCHANGED crashes

Remake(p) ==
    /\ pc[p] = "remake"
    /\ \/ Made(p) /\ GoTo(p, "owner")
       \/ lock # Absent /\ Exit(p) /\ UNCHANGED lockHistory
    /\ UNCHANGED crashes

(* Writing a file fails when the directory is gone; then acquiring fails.  *)
WriteOwner(p) ==
    /\ pc[p] = "owner"
    /\ \/ lock = Absent /\ Exit(p)
       \/ lock # Absent /\ lock' = [lock EXCEPT !.owner = p] /\ GoTo(p, "born")
    /\ UNCHANGED <<crashes, lockHistory>>

WriteBorn(p) ==
    /\ pc[p] = "born"
    /\ \/ lock = Absent /\ Exit(p)
       \/ lock # Absent /\ lock' = [lock EXCEPT !.born = TRUE] /\ GoTo(p, "sweep")
    /\ UNCHANGED <<crashes, lockHistory>>

EndSweep(p) ==
    /\ pc[p] = "sweep"
    /\ GoTo(p, "release")
    /\ UNCHANGED <<lock, crashes, lockHistory>>

(* sweep_lock_release: only the lock that names this process.              *)
Release(p) ==
    /\ pc[p] = "release"
    /\ \/ Owns(p) /\ GoTo(p, "unlink") /\ UNCHANGED lock
       \/ ~Owns(p) /\ Exit(p)
    /\ UNCHANGED <<crashes, lockHistory>>

Unlink(p) ==
    /\ pc[p] = "unlink"
    /\ lock' = IF lock = Absent THEN Absent ELSE NewDirectory
    /\ GoTo(p, "rmdir")
    /\ UNCHANGED <<crashes, lockHistory>>

Rmdir(p) ==
    /\ pc[p] = "rmdir"
    /\ \/ Empty /\ Freed(p) /\ GoTo(p, "idle")
       \/ ~Empty /\ Exit(p) /\ UNCHANGED lockHistory
    /\ UNCHANGED crashes

Crash(p) ==
    /\ pc[p] # "idle"
    /\ crashes < MaxCrashes
    /\ crashes' = crashes + 1
    /\ Exit(p)
    /\ UNCHANGED lockHistory

(* Ten minutes pass; a sweep writes its two files, and removes the         *)
(* directory it emptied, in less than that.                                *)
GrowOld ==
    /\ lock # Absent /\ ~lock.old
    /\ \A p \in Sweeps : pc[p] \notin {"owner", "born", "rmdir"}
    /\ lock' = [lock EXCEPT !.old = TRUE]
    /\ UNCHANGED <<pc, crashes, lockHistory>>

SweepStep(p) ==
    \/ StartSweep(p) \/ Make(p) \/ CheckLive(p) \/ CheckStale(p)
    \/ Remove(p) \/ Remake(p) \/ WriteOwner(p) \/ WriteBorn(p)
    \/ EndSweep(p) \/ Release(p) \/ Unlink(p) \/ Rmdir(p)

LockNext == (\E p \in Sweeps : SweepStep(p) \/ Crash(p)) \/ GrowOld

LockSpec == LockInit /\ [][LockNext]_lockVars

(* Time passes, a running script runs on, and sweeps keep being started    *)
(* (every harness session may start one).                                  *)
FairLockSpec ==
    /\ LockSpec
    /\ WF_lockVars(GrowOld)
    /\ \A p \in Sweeps : WF_lockVars(SweepStep(p))

----------------------------------------------------------------------------
(* What the header of submit-review.sh says of --sweep: a single instance  *)
(* per machine, by its mkdir lock.  It is not so (README, findings).       *)
SingleInstance ==
    \A p, q \in Sweeps : pc[p] \in Sweeping /\ pc[q] \in Sweeping => p = q

(* Two sweeps are at work together only after rm -rf or rmdir hit another  *)
(* directory than the one its sweep had found stale or made.  So reclaiming*)
(* a dead sweep's lock is safe by itself, and a sweep that takes long is   *)
(* not evicted by one that judged its lock, however old that is.           *)
SingleUnlessStrayed == ~strayed => SingleInstance

(* Sweeping never stops for good, wherever sweeps are killed: before the   *)
(* owner file is written, while reclaiming, or at work.                    *)
SweepsGoOn == []<>(\E p \in Sweeps : pc[p] = "sweep")
============================================================================
