--------------------------- MODULE MigrateProofs ---------------------------
(***************************************************************************)
(* Proofs about Migrate, for any number of processes and releases and any  *)
(* number of failures: a process that read an old version either finds its *)
(* migration applied, and fails, or is the first to apply it, and then it  *)
(* is the next one.                                                        *)
(***************************************************************************)
EXTENDS Migrate, TLAPS

(* A process that is migrating believes in no more than there is, and has  *)
(* seen a first row.                                                       *)
CurrentNotAhead ==
    \A p \in Processes : pc[p] \in {"migrate", "apply"} =>
        current[p] <= Schema /\ versions # <<>>

(* The version table is there once a process is past its CREATE TABLE.     *)
TableThere == \A p \in Processes : pc[p] \notin {"down", "create"} => table

IInv ==
    /\ TypeOK
    /\ TableThere
    /\ AppliedOnceInOrder
    /\ VersionIsSchema
    /\ CurrentNotAhead
    /\ OpenHasSchema

----------------------------------------------------------------------------
(* A file nobody has opened satisfies the invariant.                       *)
LEMMA InitIInv == Init => IInv
  <1> SUFFICES ASSUME Init PROVE IInv
    OBVIOUS
  <1>1. TypeOK
    <2>1. \A p \in Processes : pc[p] = "apply" <=> lock = p
      BY NobodyAssumption DEF Init
    <2>2. failures \in 0..MaxFailures /\ <<>> \in Seq(Nat)
      BY FailuresAssumption DEF Init
    <2> QED
      BY <2>1, <2>2 DEF Init, TypeOK, PC
  <1>2. TableThere /\ CurrentNotAhead /\ OpenHasSchema
    BY DEF Init, TableThere, CurrentNotAhead, OpenHasSchema
  <1>3. AppliedOnceInOrder /\ VersionIsSchema
    BY DEF Init, AppliedOnceInOrder, VersionIsSchema
  <1> QED
    BY <1>1, <1>2, <1>3 DEF IInv

(* Steps that leave the file alone, and change one process at a time.      *)
LEMMA StandingFile ==
    ASSUME IInv, UNCHANGED <<versions, applied>>, TypeOK', TableThere',
           NEW p \in Processes,
           \A q \in Processes \ {p} : pc'[q] = pc[q] /\ current'[q] = current[q],
           pc'[p] \in {"migrate", "apply"} => current'[p] <= Schema /\ versions # <<>>,
           pc'[p] = "open" => Schema >= Known[p]
    PROVE  IInv'
  <1>1. AppliedOnceInOrder' /\ VersionIsSchema'
    BY DEF IInv, AppliedOnceInOrder, VersionIsSchema, Schema
  <1>2. CurrentNotAhead'
    BY DEF IInv, CurrentNotAhead, Schema
  <1>3. OpenHasSchema'
    BY DEF IInv, OpenHasSchema, Schema
  <1> QED
    BY <1>1, <1>2, <1>3 DEF IInv

(* The script runs: it is the next migration, since every earlier one was  *)
(* applied and this one was not.                                           *)
LEMMA ScriptRunsKeeps ==
    ASSUME IInv, NEW p \in Processes, ApplyMigration(p), ScriptRuns(p)
    PROVE  IInv'
  <1> DEFINE m == current[p] + 1
  <1>1. /\ m \in Nat /\ current[p] \in Nat /\ current[p] <= Len(applied) /\ versions # <<>>
        /\ applied \in Seq(Nat) /\ Len(applied) \in Nat
    BY DEF IInv, TypeOK, CurrentNotAhead, ApplyMigration, Schema
  <1>2. m = Len(applied) + 1
    <2>1. CASE m \in 1..Len(applied)
      <3>1. applied[m] = m
        BY <2>1, <1>1 DEF IInv, AppliedOnceInOrder
      <3> QED
        BY <3>1, <2>1, <1>1 DEF ScriptRuns, WasApplied
    <2> QED
      BY <2>1, <1>1
  <1>3. /\ applied' = Append(applied, m) /\ applied' \in Seq(Nat)
        /\ Len(applied') = m
        /\ \A i \in 1..Len(applied) : applied'[i] = applied[i]
        /\ applied'[m] = m
    BY <1>1, <1>2 DEF ScriptRuns, Committed
  <1>4. AppliedOnceInOrder'
    BY <1>1, <1>2, <1>3 DEF IInv, AppliedOnceInOrder
  <1>5. versions \in Seq(Nat) /\ 1 \in DOMAIN versions
    BY <1>1 DEF IInv, TypeOK
  <1>6. versions' = [i \in 1..Len(versions) |-> m] /\ versions' \in Seq(Nat)
    BY <1>1, <1>5 DEF ScriptRuns
  <1>7. versions' # <<>> /\ Head(versions') = m
    <2>1. 1 \in 1..Len(versions)
      BY <1>5
    <2>2. DOMAIN versions' = 1..Len(versions) /\ versions'[1] = m
      BY <1>6, <2>1
    <2>3. versions' # <<>>
      BY <2>1, <2>2
    <2> QED
      BY <1>6, <2>2, <2>3
  <1>8. VersionIsSchema'
    BY <1>3, <1>7 DEF VersionIsSchema, Schema
  <1>9. TypeOK' /\ TableThere'
    <2>1. /\ pc' = [pc EXCEPT ![p] = "migrate"]
          /\ current' = [current EXCEPT ![p] = m]
          /\ lock = p /\ lock' = Nobody
          /\ UNCHANGED <<table, failures>>
      BY DEF IInv, TypeOK, ApplyMigration, ScriptRuns, Committed, GoTo
    <2>2. pc' \in [Processes -> PC] /\ current' \in [Processes -> Nat]
      BY <2>1, <1>1 DEF IInv, TypeOK, PC
    <2>3. table /\ table'
      <3>1. table
        BY DEF IInv, TableThere, ApplyMigration
      <3> QED
        BY <3>1, <2>1
    <2>4. \A q \in Processes : pc'[q] = "apply" <=> lock' = q
      BY <2>1, NobodyAssumption DEF IInv, TypeOK
    <2> QED
      BY <2>1, <2>2, <2>3, <2>4, <1>3, <1>6 DEF IInv, TypeOK, TableThere
  <1>10. CurrentNotAhead'
    BY <1>1, <1>2, <1>3, <1>7
       DEF IInv, TypeOK, CurrentNotAhead, ScriptRuns, Committed, GoTo, Schema
  <1>11. OpenHasSchema'
    <2> SUFFICES ASSUME NEW q \in Processes, pc'[q] = "open" PROVE Schema' >= Known[q]
      BY DEF OpenHasSchema
    <2>1. q # p /\ pc[q] = "open"
      BY DEF IInv, TypeOK, ScriptRuns, Committed, GoTo
    <2>2. Known[q] \in Nat /\ Len(applied) >= Known[q]
      BY <2>1, KnownAssumption DEF IInv, OpenHasSchema, Schema
    <2> QED
      BY <2>2, <1>1, <1>2, <1>3 DEF Schema
  <1> QED
    BY <1>4, <1>8, <1>9, <1>10, <1>11 DEF IInv

(* A first row, or one after it: the row read as the version is the first. *)
LEMMA InsertVersionKeeps ==
    ASSUME IInv, NEW p \in Processes, InsertVersion(p)
    PROVE  IInv'
  <1>1. /\ versions \in Seq(Nat) /\ versions' = Append(versions, 0)
        /\ versions' \in Seq(Nat) /\ versions' # <<>>
        /\ Head(versions') = IF versions = <<>> THEN 0 ELSE Head(versions)
    BY DEF IInv, TypeOK, InsertVersion
  <1>2. applied' = applied /\ applied \in Seq(Nat) /\ Len(applied) \in Nat
    BY DEF IInv, TypeOK, InsertVersion
  <1>3. VersionIsSchema' /\ AppliedOnceInOrder'
    BY <1>1, <1>2 DEF IInv, VersionIsSchema, AppliedOnceInOrder, Schema
  <1>4. TypeOK' /\ TableThere'
    <2>1. /\ pc' = [pc EXCEPT ![p] = "migrate"]
          /\ current' = [current EXCEPT ![p] = 0]
          /\ lock = Nobody
          /\ UNCHANGED <<table, lock, failures>>
      BY DEF InsertVersion, GoTo
    <2>2. pc' \in [Processes -> PC] /\ current' \in [Processes -> Nat]
      BY <2>1 DEF IInv, TypeOK, PC
    <2>3. table /\ table'
      BY <2>1 DEF IInv, TableThere, InsertVersion
    <2>4. \A q \in Processes : pc'[q] = "apply" <=> lock' = q
      BY <2>1, NobodyAssumption DEF IInv, TypeOK
    <2> QED
      BY <2>1, <2>2, <2>3, <2>4, <1>1, <1>2 DEF IInv, TypeOK, TableThere
  <1>5. CurrentNotAhead'
    BY <1>1, <1>2 DEF IInv, TypeOK, CurrentNotAhead, InsertVersion, GoTo, Schema
  <1>6. OpenHasSchema'
    BY <1>2 DEF IInv, TypeOK, OpenHasSchema, InsertVersion, GoTo, Schema
  <1> QED
    BY <1>3, <1>4, <1>5, <1>6 DEF IInv

(* Steps that take or leave the lock, or neither, and go to another label. *)
LEMMA ProcessMoves ==
    ASSUME IInv, NEW p \in Processes, NEW label \in PC,
           UNCHANGED <<versions, applied>>,
           table' = table \/ table' = TRUE,
           label \notin {"down", "create"} => table',
           pc' = [pc EXCEPT ![p] = label],
           current' \in [Processes -> Nat],
           \A q \in Processes \ {p} : current'[q] = current[q],
           failures' \in 0..MaxFailures,
           \/ label = "apply" /\ lock = Nobody /\ lock' = p
           \/ label # "apply" /\ lock' = IF lock = p THEN Nobody ELSE lock,
           label \in {"migrate", "apply"} => current'[p] <= Schema /\ versions # <<>>,
           label = "open" => Schema >= Known[p]
    PROVE  IInv'
  <1>1. pc' \in [Processes -> PC] /\ pc'[p] = label
        /\ \A q \in Processes \ {p} : pc'[q] = pc[q]
    BY DEF IInv, TypeOK, PC
  <1>2. lock' \in Processes \cup {Nobody}
    BY DEF IInv, TypeOK
  <1>3. \A q \in Processes : pc'[q] = "apply" <=> lock' = q
    BY <1>1, NobodyAssumption DEF IInv, TypeOK
  <1>4. TypeOK'
    BY <1>1, <1>2, <1>3 DEF IInv, TypeOK
  <1>5. TableThere'
    BY <1>1 DEF IInv, TableThere
  <1> QED
    BY <1>1, <1>4, <1>5, StandingFile

(* Every step of every process keeps the invariant.                        *)
LEMMA NextKeeps == IInv /\ [Next]_vars => IInv'
  <1> SUFFICES ASSUME IInv, [Next]_vars PROVE IInv'
    OBVIOUS
  <1>1. /\ failures \in 0..MaxFailures /\ current \in [Processes -> Nat]
        /\ table \in BOOLEAN /\ Len(applied) \in Nat /\ Schema = Len(applied)
        /\ \A q \in Processes : pc[q] = "apply" <=> lock = q
        /\ \A q \in Processes : Known[q] \in Nat
    BY KnownAssumption DEF IInv, TypeOK, Schema
  <1>2. CASE UNCHANGED vars
    BY <1>2 DEF IInv, vars, file, TypeOK, TableThere, AppliedOnceInOrder,
         VersionIsSchema, CurrentNotAhead, OpenHasSchema, Schema
  <1>3. ASSUME NEW p \in Processes, Start(p) PROVE IInv'
    <2>1. lock # p
      BY <1>1, <1>3 DEF Start
    <2> QED
      BY <1>1, <1>3, <2>1, ProcessMoves DEF Start, GoTo, file, PC
  <1>4. ASSUME NEW p \in Processes, CreateTable(p) PROVE IInv'
    <2>1. lock # p
      BY <1>1, <1>4 DEF CreateTable
    <2> QED
      BY <1>1, <1>4, <2>1, ProcessMoves DEF CreateTable, GoTo, PC
  <1>5. ASSUME NEW p \in Processes, ReadVersion(p) PROVE IInv'
    <2>1. lock # p /\ table
      BY <1>1, <1>5 DEF ReadVersion, IInv, TableThere
    <2>2. UNCHANGED <<table, versions, applied, lock, failures>>
      BY <1>5 DEF ReadVersion, file
    <2>3. CASE versions = <<>> /\ GoTo(p, "insert") /\ UNCHANGED current
      BY <1>1, <2>1, <2>2, <2>3, ProcessMoves DEF GoTo, PC
    <2>4. CASE /\ versions # <<>> /\ GoTo(p, "migrate")
               /\ current' = [current EXCEPT ![p] = Head(versions)]
      <3>1. Head(versions) = Schema
        BY <2>4 DEF IInv, VersionIsSchema
      <3>2. /\ current' \in [Processes -> Nat] /\ current'[p] = Schema
            /\ \A q \in Processes \ {p} : current'[q] = current[q]
        BY <1>1, <2>4, <3>1
      <3>3. pc' = [pc EXCEPT ![p] = "migrate"]
        BY <2>4 DEF GoTo
      <3>4. current'[p] <= Schema /\ versions # <<>>
        BY <1>1, <2>4, <3>2
      <3>5. UNCHANGED <<versions, applied, table>> /\ failures' \in 0..MaxFailures
            /\ lock' = IF lock = p THEN Nobody ELSE lock
        BY <1>1, <2>1, <2>2
      <3>6. "migrate" \in PC
        BY DEF PC
      <3> QED
        BY <2>1, <3>2, <3>3, <3>4, <3>5, <3>6, ProcessMoves
    <2>5. CASE GoTo(p, "down") /\ UNCHANGED current
      BY <1>1, <2>1, <2>2, <2>5, ProcessMoves DEF GoTo, PC
    <2> QED
      BY <1>5, <2>3, <2>4, <2>5 DEF ReadVersion
  <1>6. ASSUME NEW p \in Processes, InsertVersion(p) PROVE IInv'
    BY <1>6, InsertVersionKeeps
  <1>7. ASSUME NEW p \in Processes, BeginMigration(p) PROVE IInv'
    <2>1. current[p] <= Schema /\ versions # <<>> /\ table
      BY <1>7 DEF BeginMigration, IInv, CurrentNotAhead, TableThere
    <2> QED
      BY <1>1, <1>7, <2>1, ProcessMoves DEF BeginMigration, GoTo, file, PC
  <1>8. ASSUME NEW p \in Processes, ApplyMigration(p) PROVE IInv'
    <2>1. CASE ScriptRuns(p)
      BY <1>8, <2>1, ScriptRunsKeeps
    <2>2. CASE ScriptFails(p)
      <3>1. lock = p
        BY <1>1, <1>8 DEF ApplyMigration
      <3> QED
        BY <1>1, <1>8, <2>2, <3>1, ProcessMoves DEF ApplyMigration, ScriptFails, GoTo, PC
    <2> QED
      BY <1>8, <2>1, <2>2 DEF ApplyMigration
  <1>9. ASSUME NEW p \in Processes, EndOpen(p) PROVE IInv'
    <2>1. current[p] <= Schema /\ table /\ lock # p
      BY <1>1, <1>9 DEF EndOpen, IInv, CurrentNotAhead, TableThere
    <2>2. Schema >= Known[p]
      BY <1>1, <1>9, <2>1 DEF EndOpen
    <2> QED
      BY <1>1, <1>9, <2>1, <2>2, ProcessMoves DEF EndOpen, GoTo, file, PC
  <1>10. ASSUME NEW p \in Processes, Fail(p) PROVE IInv'
    <2>1. failures' \in 0..MaxFailures
      BY <1>1, <1>10, FailuresAssumption DEF Fail
    <2> QED
      BY <1>1, <1>10, <2>1, ProcessMoves DEF Fail, GoTo, file, PC
  <1> QED
    BY <1>2, <1>3, <1>4, <1>5, <1>6, <1>7, <1>8, <1>9, <1>10 DEF Next, Step

(* The invariant holds in every reachable state.                           *)
THEOREM Invariant == Spec => []IInv
  BY InitIInv, NextKeeps, PTL DEF Spec

(* A process is inside its transaction exactly while it has the write      *)
(* lock, and versions and applied hold the numbers of migrations.          *)
THEOREM TypeCorrect == Spec => []TypeOK
  <1>1. IInv => TypeOK
    BY DEF IInv
  <1> QED
    BY <1>1, Invariant, PTL

(* In every behaviour the migrations are committed once and in order,      *)
(* whoever read an old version before another process moved on.            *)
THEOREM MigratedOnce == Spec => []AppliedOnceInOrder
  <1>1. IInv => AppliedOnceInOrder
    BY DEF IInv
  <1> QED
    BY <1>1, Invariant, PTL

(* The version a process reads is the schema of the file, and whoever      *)
(* opened it has the tables its statements were written for.               *)
THEOREM VersionTruthful == Spec => []SchemaTruthful
  <1>1. IInv => SchemaTruthful
    BY DEF IInv, SchemaTruthful
  <1> QED
    BY <1>1, Invariant, PTL
============================================================================
