------------------------ MODULE FrictionRetryProofs ------------------------
(***************************************************************************)
(* Why blind retries do not file a report twice: a row of a report is      *)
(* never older than the report's first try, and no try of it reaches the   *)
(* server later than a timeout, the spool's maximum age, a flush and a     *)
(* request's journey after that.  For any number of reports, clients and   *)
(* flushers, and any durations whose sum fits into the window.             *)
(***************************************************************************)
EXTENDS FrictionRetry, SubmissionsProofs

LastSent(r) == first[r] + Timeout + MaxAge + FlushTime

(* A report being sent has not waited longer than the client does.         *)
SendingInTime ==
    \A r \in Reports : phase[r] = "sending" => first[r] <= now /\ now <= first[r] + Timeout

(* A file was written at most a timeout after its report's first try.      *)
WrittenInTime(r) == first[r] <= mtime[r] /\ mtime[r] <= first[r] + Timeout

SpooledInTime == \A r \in Files : WrittenInTime(r)

(* A flush is no longer than it may be, and when it began it had just      *)
(* dropped the files that were too old.                                    *)
FlushesInTime ==
    \A f \in Flushers : flusher[f] # Idle =>
        /\ flusher[f].began <= now /\ now <= flusher[f].began + FlushTime
        /\ \A r \in flusher[f].todo :
             /\ phase[r] \notin {"new", "sending"}
             /\ WrittenInTime(r)
             /\ mtime[r] <= flusher[f].began
             /\ flusher[f].began <= mtime[r] + MaxAge

TriesInTime ==
    \A m \in tries :
        /\ phase[m.report] # "new"
        /\ first[m.report] <= m.sent /\ m.sent <= LastSent(m.report)
        /\ m.sent <= now /\ now <= m.sent + Latency

(* Files and running tries are in the past.                                *)
WrittenBefore == \A r \in Files : mtime[r] <= now

(* Only a running flusher waits for an answer.                             *)
AnsweredRun == \A m \in answers : m.by # Client => flusher[m.by] # Idle

(* Rows are frictions, with their author's content, and no older than it.  *)
RowsHaveAuthors ==
    \A i \in DOMAIN rows :
        /\ rows[i].key = NoKey
        /\ rows[i].hash = Content[author[i]]
        /\ phase[author[i]] # "new"
        /\ first[author[i]] <= rows[i].created

IInv ==
    /\ TypeOK
    /\ SendingInTime
    /\ SpooledInTime
    /\ WrittenBefore
    /\ FlushesInTime
    /\ TriesInTime
    /\ AnsweredRun
    /\ RowsHaveAuthors
    /\ FrictionSpacing

----------------------------------------------------------------------------
(* With nothing sent and nothing stored the invariant holds.               *)
LEMMA InitIInv == Init => IInv
  <1> SUFFICES ASSUME Init PROVE IInv
    OBVIOUS
  <1>1. IsTable(rows, seq) /\ FrictionsSpaced(rows)
    BY EmptyTable DEF Init
  <1>2. DOMAIN rows = {} /\ author \in [DOMAIN rows -> Reports]
    BY DEF Init
  <1>3. TypeOK
    BY <1>1, <1>2 DEF Init, TypeOK, Phase
  <1>4. /\ SendingInTime /\ SpooledInTime /\ WrittenBefore /\ FlushesInTime
        /\ TriesInTime /\ AnsweredRun
    BY DEF Init, SendingInTime, SpooledInTime, WrittenBefore, FlushesInTime,
           TriesInTime, AnsweredRun, Files
  <1>5. RowsHaveAuthors /\ FrictionSpacing
    BY <1>1, <1>2 DEF RowsHaveAuthors, FrictionSpacing
  <1> QED
    BY <1>3, <1>4, <1>5 DEF IInv

(* A step that leaves the table, the time and the tries, and only moves    *)
(* reports on: none becomes new, being sent, or a file it was not.         *)
MovesOn ==
    /\ phase' \in [Reports -> Phase]
    /\ \A r \in Reports : phase'[r] # phase[r] =>
         /\ phase[r] # "new" /\ phase'[r] \notin {"new", "sending"}
         /\ r \in Files' => r \in Files

(* A step that only moves reports on, or forgets that somebody was waiting *)
(* for an answer, keeps the invariant.                                     *)
LEMMA MovingOnKeeps ==
    ASSUME IInv, MovesOn, UNCHANGED <<now, server, first, mtime, tries>>
    PROVE  /\ SendingInTime' /\ SpooledInTime' /\ WrittenBefore' /\ TriesInTime'
           /\ RowsHaveAuthors' /\ FrictionSpacing'
  <1>1. SendingInTime'
    BY DEF IInv, SendingInTime, MovesOn
  <1>2. SpooledInTime' /\ WrittenBefore'
    <2>1. Files' \subseteq Files
      BY DEF MovesOn, Files
    <2> QED
      BY <2>1 DEF IInv, SpooledInTime, WrittenBefore, WrittenInTime
  <1>3. TriesInTime'
    BY DEF IInv, TypeOK, MovesOn, TriesInTime, LastSent, Try
  <1>4. RowsHaveAuthors'
    BY DEF IInv, TypeOK, MovesOn, RowsHaveAuthors, server
  <1>5. FrictionSpacing'
    BY DEF IInv, FrictionSpacing, server
  <1> QED
    BY <1>1, <1>2, <1>3, <1>4, <1>5

----------------------------------------------------------------------------
(* The client's steps.                                                     *)

(* submit-friction.sh sends a report for the first time, now.              *)
LEMMA SubmitKeeps ==
    ASSUME IInv, NEW r \in Reports, Submit(r)
    PROVE  IInv'
  <1> DEFINE m == Request(r, Client)
  <1>1. /\ phase[r] = "new" /\ now \in Nat
        /\ phase' = [phase EXCEPT ![r] = "sending"]
        /\ first' = [first EXCEPT ![r] = now]
        /\ tries' = tries \cup {m}
        /\ UNCHANGED <<now, server, mtime, flusher, answers, heard>>
    BY DEF Submit, IInv, TypeOK
  <1>2. m \in Try /\ m.report = r /\ m.sent = now
    BY <1>1 DEF Request, Try
  <1>3. /\ phase'[r] = "sending" /\ first'[r] = now
        /\ \A q \in Reports \ {r} : phase'[q] = phase[q] /\ first'[q] = first[q]
    BY <1>1 DEF IInv, TypeOK
  <1>4. TypeOK'
    BY <1>1, <1>2 DEF IInv, TypeOK, Phase, server
  <1>5. SendingInTime'
    BY <1>1, <1>3, DurationAssumption DEF IInv, TypeOK, SendingInTime
  <1>6. SpooledInTime' /\ WrittenBefore'
    BY <1>1, <1>3 DEF IInv, SpooledInTime, WrittenBefore, WrittenInTime, Files
  <1>7. FlushesInTime'
    BY <1>1, <1>3 DEF IInv, TypeOK, FlushesInTime, WrittenInTime, Flush
  <1>8. TriesInTime'
    <2>1. SUFFICES ASSUME NEW n \in tries'
                   PROVE  /\ phase'[n.report] # "new"
                          /\ first'[n.report] <= n.sent
                          /\ n.sent <= first'[n.report] + Timeout + MaxAge + FlushTime
                          /\ n.sent <= now /\ now <= n.sent + Latency
      BY <1>1 DEF TriesInTime, LastSent
    <2>2. CASE n = m
      BY <1>1, <1>2, <1>3, <2>2, DurationAssumption
    <2>3. CASE n \in tries
      <3>1. n.report \in Reports \ {r}
        BY <1>1, <2>3 DEF IInv, TypeOK, TriesInTime, Try
      <3> QED
        BY <1>3, <2>3, <3>1 DEF IInv, TriesInTime, LastSent
    <2> QED
      BY <1>1, <2>2, <2>3
  <1>9. RowsHaveAuthors'
    <2>1. \A i \in DOMAIN rows : author[i] \in Reports \ {r}
      BY <1>1 DEF IInv, TypeOK, RowsHaveAuthors
    <2> QED
      BY <1>1, <1>3, <2>1 DEF IInv, RowsHaveAuthors, server
  <1>10. FrictionSpacing' /\ AnsweredRun'
    BY <1>1 DEF IInv, FrictionSpacing, AnsweredRun, server
  <1> QED
    BY <1>4, <1>5, <1>6, <1>7, <1>8, <1>9, <1>10 DEF IInv

(* submit-friction.sh spools the report, not later than its timeout after  *)
(* it sent it.                                                             *)
LEMMA SpoolKeeps ==
    ASSUME IInv, NEW r \in Reports, Spool(r)
    PROVE  IInv'
  <1>1. /\ phase[r] = "sending" /\ now \in Nat
        /\ phase' = [phase EXCEPT ![r] = "json"]
        /\ mtime' = [mtime EXCEPT ![r] = now]
        /\ answers' = {m \in answers : m.by # Client \/ m.report # r}
        /\ UNCHANGED <<now, server, first, flusher, tries, heard>>
    BY DEF Spool, IInv, TypeOK
  <1>2. /\ phase'[r] = "json" /\ mtime'[r] = now
        /\ \A q \in Reports \ {r} : phase'[q] = phase[q] /\ mtime'[q] = mtime[q]
    BY <1>1 DEF IInv, TypeOK
  <1>3. TypeOK'
    BY <1>1 DEF IInv, TypeOK, Phase, server
  <1>4. SendingInTime'
    BY <1>1, <1>2 DEF IInv, SendingInTime
  <1>5. SpooledInTime' /\ WrittenBefore'
    BY <1>1, <1>2
    DEF IInv, SpooledInTime, SendingInTime, WrittenBefore, WrittenInTime, Files
  <1>6. FlushesInTime'
    BY <1>1, <1>2 DEF IInv, TypeOK, FlushesInTime, WrittenInTime, Flush
  <1>7. TriesInTime'
    BY <1>1, <1>2 DEF IInv, TypeOK, TriesInTime, LastSent, Try
  <1>8. RowsHaveAuthors' /\ FrictionSpacing'
    BY <1>1, <1>2
    DEF IInv, TypeOK, RowsHaveAuthors, FrictionSpacing, server
  <1>9. AnsweredRun'
    BY <1>1 DEF IInv, AnsweredRun
  <1> QED
    BY <1>3, <1>4, <1>5, <1>6, <1>7, <1>8, <1>9 DEF IInv

(* The first try ends, accepted or refused.                                *)
LEMMA SettleKeeps ==
    ASSUME IInv, NEW r \in Reports, NEW after \in {"delivered", "dropped"},
           phase[r] = "sending", phase' = [phase EXCEPT ![r] = after],
           answers' \subseteq answers,
           UNCHANGED <<now, server, first, mtime, flusher, tries, heard>>
    PROVE  IInv'
  <1>1. MovesOn
    BY DEF IInv, TypeOK, MovesOn, Phase, Files
  <1>2. /\ SendingInTime' /\ SpooledInTime' /\ WrittenBefore' /\ TriesInTime'
        /\ RowsHaveAuthors' /\ FrictionSpacing'
    BY <1>1, MovingOnKeeps
  <1>3. FlushesInTime'
    BY <1>1 DEF IInv, TypeOK, MovesOn, FlushesInTime, WrittenInTime, Flush
  <1>4. TypeOK'
    BY <1>1 DEF IInv, TypeOK, MovesOn, server
  <1>5. AnsweredRun'
    BY DEF IInv, AnsweredRun
  <1> QED
    BY <1>2, <1>3, <1>4, <1>5 DEF IInv

----------------------------------------------------------------------------
(* The flushers' steps.                                                    *)

(* A flush prunes the files that are too old: those it will post are not.  *)
LEMMA StartFlushKeeps ==
    ASSUME IInv, NEW f \in Flushers, StartFlush(f)
    PROVE  IInv'
  <1> DEFINE old == {r \in Files : TooOld(r)}
             run == [began |-> now, todo |-> Files \ old, posting |-> Idle]
  <1>1. /\ flusher[f] = Idle /\ now \in Nat
        /\ phase' = [r \in Reports |-> IF r \in old THEN "dropped" ELSE phase[r]]
        /\ flusher' = [flusher EXCEPT ![f] = run]
        /\ UNCHANGED <<now, server, first, mtime, tries, answers, heard>>
    BY DEF StartFlush, IInv, TypeOK
  <1>2. run \in Flush
    BY <1>1 DEF Flush, Files
  <1>3. \A r \in Reports :
          /\ r \in Files' => r \in Files
          /\ phase'[r] \in {"new", "sending"} => phase'[r] = phase[r]
          /\ phase[r] \notin {"new", "sending"} => phase'[r] \notin {"new", "sending"}
    BY <1>1 DEF Files
  <1>4. TypeOK'
    BY <1>1, <1>2 DEF IInv, TypeOK, Phase, server
  <1>5. SendingInTime' /\ SpooledInTime' /\ WrittenBefore'
    BY <1>1, <1>3
    DEF IInv, SendingInTime, SpooledInTime, WrittenBefore, WrittenInTime, Files
  <1>6. FlushesInTime'
    <2>1. SUFFICES ASSUME NEW g \in Flushers, flusher'[g] # Idle
                   PROVE  /\ flusher'[g].began <= now
                          /\ now <= flusher'[g].began + FlushTime
                          /\ \A r \in flusher'[g].todo :
                               /\ phase'[r] \notin {"new", "sending"}
                               /\ WrittenInTime(r)
                               /\ mtime[r] <= flusher'[g].began
                               /\ flusher'[g].began <= mtime[r] + MaxAge
      BY <1>1 DEF FlushesInTime, WrittenInTime
    <2>2. CASE g = f
      <3>1. flusher'[g] = run
        BY <1>1, <2>2 DEF IInv, TypeOK
      <3>2. ASSUME NEW r \in run.todo
            PROVE  /\ phase'[r] \notin {"new", "sending"}
                   /\ WrittenInTime(r)
                   /\ mtime[r] <= now
                   /\ now <= mtime[r] + MaxAge
        <4>1. /\ r \in Reports /\ r \in Files /\ ~TooOld(r)
              /\ phase[r] \in {"json", "inflight"}
          BY <3>2 DEF Files
        <4>2. mtime[r] <= now /\ WrittenInTime(r)
          BY <4>1 DEF IInv, SpooledInTime, WrittenBefore
        <4> QED
          BY <1>1, <1>3, <4>1, <4>2, DurationAssumption DEF IInv, TypeOK, TooOld
      <3> QED
        BY <1>1, <3>1, <3>2, DurationAssumption
    <2>3. CASE g # f
      <3>1. flusher'[g] = flusher[g] /\ flusher[g] \in Flush
        BY <1>1, <2>1, <2>3 DEF IInv, TypeOK
      <3> QED
        BY <1>3, <2>1, <3>1 DEF IInv, FlushesInTime, Flush
    <2> QED
      BY <2>2, <2>3
  <1>7. TriesInTime'
    BY <1>1, <1>3 DEF IInv, TypeOK, TriesInTime, LastSent, Try
  <1>8. RowsHaveAuthors' /\ FrictionSpacing'
    BY <1>1, <1>3
    DEF IInv, TypeOK, RowsHaveAuthors, FrictionSpacing, server
  <1>9. AnsweredRun'
    BY <1>1, <1>2, IdleAssumption DEF IInv, TypeOK, AnsweredRun
  <1> QED
    BY <1>4, <1>5, <1>6, <1>7, <1>8, <1>9 DEF IInv

(* A flusher posts a file: the try is sent within the flush's time from    *)
(* the pruning, so it still arrives within the window.                     *)
LEMMA PostKeeps ==
    ASSUME IInv, NEW f \in Flushers, NEW r \in Reports, Post(f, r)
    PROVE  IInv'
  <1> DEFINE m == Request(r, f)
  <1>1. /\ flusher[f] # Idle /\ r \in flusher[f].todo /\ r \in Files /\ now \in Nat
        /\ phase' = [phase EXCEPT ![r] = "inflight"]
        /\ flusher' = [flusher EXCEPT ![f].todo = @ \ {r}, ![f].posting = m]
        /\ tries' = tries \cup {m}
        /\ UNCHANGED <<now, server, first, mtime, answers, heard>>
    BY DEF Post, IInv, TypeOK
  <1>2. m \in Try /\ m.report = r /\ m.sent = now
    BY <1>1 DEF Request, Try
  <1>3. \A g \in Flushers : flusher'[g] # Idle =>
          /\ flusher[g] # Idle /\ flusher'[g] \in Flush
          /\ flusher'[g].began = flusher[g].began
          /\ flusher'[g].todo \subseteq flusher[g].todo
    BY <1>1, <1>2 DEF IInv, TypeOK, Flush
  <1>4. /\ phase' \in [Reports -> Phase] /\ Files' = Files
        /\ \A q \in Reports : phase'[q] \in {"new", "sending"} <=> phase[q] \in {"new", "sending"}
        /\ \A q \in Reports : phase'[q] = "new" <=> phase[q] = "new"
        /\ \A q \in Reports : phase'[q] = "sending" <=> phase[q] = "sending"
    BY <1>1 DEF IInv, TypeOK, Phase, Files
  <1>5. TypeOK'
    <2>1. flusher' \in [Flushers -> Flush \cup {Idle}]
      BY <1>1, <1>3 DEF IInv, TypeOK
    <2> QED
      BY <1>1, <1>2, <1>4, <2>1 DEF IInv, TypeOK, server
  <1>6. SendingInTime' /\ SpooledInTime' /\ WrittenBefore'
    BY <1>1, <1>4
    DEF IInv, SendingInTime, SpooledInTime, WrittenBefore, WrittenInTime
  <1>7. FlushesInTime'
    BY <1>1, <1>3, <1>4 DEF IInv, TypeOK, Flush, FlushesInTime, WrittenInTime
  <1>8. TriesInTime'
    <2>1. SUFFICES ASSUME NEW n \in tries'
                   PROVE  /\ phase[n.report] # "new"
                          /\ first[n.report] <= n.sent /\ n.sent <= LastSent(n.report)
                          /\ n.sent <= now /\ now <= n.sent + Latency
      <3>1. \A n \in tries' : n.report \in Reports
        BY <1>5 DEF TypeOK, Try
      <3> QED
        BY <1>1, <1>4, <3>1 DEF TriesInTime, LastSent
    <2>2. CASE n = m
      <3>1. flusher[f] \in Flush /\ flusher[f].began \in Int
        BY <1>1 DEF IInv, TypeOK, Flush
      <3>2. /\ now <= flusher[f].began + FlushTime /\ flusher[f].began <= now
            /\ phase[r] # "new" /\ WrittenInTime(r)
            /\ mtime[r] <= flusher[f].began /\ flusher[f].began <= mtime[r] + MaxAge
        BY <1>1 DEF IInv, FlushesInTime
      <3>3. first[r] \in Nat /\ mtime[r] \in Nat
        BY DEF IInv, TypeOK
      <3> QED
        BY <1>1, <1>2, <2>2, <3>1, <3>2, <3>3, DurationAssumption
        DEF WrittenInTime, LastSent
    <2>3. CASE n \in tries
      BY <2>3 DEF IInv, TriesInTime
    <2> QED
      BY <1>1, <2>2, <2>3
  <1>9. RowsHaveAuthors' /\ FrictionSpacing'
    BY <1>1, <1>4
    DEF IInv, TypeOK, RowsHaveAuthors, FrictionSpacing, server
  <1>10. AnsweredRun'
    <2>1. flusher'[f] \in Flush
      BY <1>1, <1>2 DEF IInv, TypeOK, Flush
    <2>2. \A g \in Flushers \ {f} : flusher'[g] = flusher[g]
      BY <1>1 DEF IInv, TypeOK
    <2>3. \A n \in answers : n.by # Client => n.by \in Flushers
      BY DEF IInv, TypeOK, Try
    <2> QED
      BY <1>1, <2>1, <2>2, <2>3, IdleAssumption DEF IInv, AnsweredRun
  <1> QED
    BY <1>5, <1>6, <1>7, <1>8, <1>9, <1>10 DEF IInv

(* A flusher gets its answer or gives up: its run keeps its start and its  *)
(* files or ends, and at most the file it posted changes.                  *)
LEMMA FlusherKeeps ==
    ASSUME IInv, NEW f \in Flushers, flusher[f] # Idle,
           \/ flusher' = [flusher EXCEPT ![f].posting = Idle]
           \/ /\ flusher' = [flusher EXCEPT ![f] = Idle]
              /\ \A m \in answers' : m.by # f,
           MovesOn,
           answers' \subseteq answers,
           UNCHANGED <<now, server, first, mtime, tries, heard>>
    PROVE  IInv'
  <1>1. /\ SendingInTime' /\ SpooledInTime' /\ WrittenBefore' /\ TriesInTime'
        /\ RowsHaveAuthors' /\ FrictionSpacing'
    BY MovingOnKeeps
  <1>2. \A g \in Flushers : flusher'[g] # Idle =>
          /\ flusher[g] # Idle /\ flusher'[g] \in Flush /\ flusher[g] \in Flush
          /\ flusher'[g].began = flusher[g].began
          /\ flusher'[g].todo = flusher[g].todo
    BY DEF IInv, TypeOK, Flush
  <1>3. flusher' \in [Flushers -> Flush \cup {Idle}]
    BY <1>2 DEF IInv, TypeOK
  <1>4. TypeOK'
    BY <1>3 DEF IInv, TypeOK, MovesOn, server
  <1>5. FlushesInTime'
    BY <1>2 DEF IInv, MovesOn, FlushesInTime, WrittenInTime, Flush
  <1>6. AnsweredRun'
    <2>1. CASE flusher' = [flusher EXCEPT ![f].posting = Idle]
      <3>1. flusher'[f] \in Flush
        BY <2>1 DEF IInv, TypeOK, Flush
      <3> QED
        BY <2>1, <3>1, IdleAssumption DEF IInv, TypeOK, AnsweredRun
    <2>2. CASE /\ flusher' = [flusher EXCEPT ![f] = Idle]
               /\ \A m \in answers' : m.by # f
      BY <2>2 DEF IInv, TypeOK, AnsweredRun
    <2> QED
      BY <2>1, <2>2
  <1> QED
    BY <1>1, <1>4, <1>5, <1>6 DEF IInv

(* Renaming or removing the file a flusher claimed moves a report on.      *)
LEMMA BecomesMovesOn ==
    ASSUME IInv, NEW r \in Reports, NEW after \in {"json", "inflight", "delivered", "dropped"},
           Becomes(r, after)
    PROVE  MovesOn
  BY DEF IInv, TypeOK, Becomes, MovesOn, Phase, Files

----------------------------------------------------------------------------
(* The server's steps, and time.                                           *)

(* CreateFriction handles a try: the row it inserts is its report's, not   *)
(* older than it, and stands alone in its window.                          *)
LEMMA StoreKeeps ==
    ASSUME IInv, NEW m \in tries, Store(m)
    PROVE  IInv'
  <1> DEFINE hash == Content[m.report]
             recent == RecentFrictions(rows, hash, now - Window)
             row == NewRow(NoKey, hash, now)
  <1>1. /\ m \in Try /\ m.report \in Reports /\ phase[m.report] # "new"
        /\ now \in Nat /\ IsTable(rows, seq) /\ seq \in Nat
        /\ first[m.report] <= now
    BY DEF IInv, TypeOK, Try, TriesInTime, IsTable
  <1>2. /\ tries' = tries \ {m} /\ heard' = heard \cup {m.report}
        /\ answers' = IF Awaited(m) THEN answers \cup {m} ELSE answers
        /\ UNCHANGED <<now, spool, flusher>>
    BY DEF Store
  <1>3. SendingInTime' /\ SpooledInTime' /\ WrittenBefore'
    BY <1>2
    DEF IInv, SendingInTime, SpooledInTime, WrittenBefore, WrittenInTime, Files, spool
  <1>4. FlushesInTime' /\ TriesInTime'
    BY <1>2 DEF IInv, FlushesInTime, WrittenInTime, TriesInTime, LastSent, spool
  <1>5. AnsweredRun'
    BY <1>2 DEF IInv, AnsweredRun, Awaited
  <1>6. CASE UNCHANGED server
    <2>1. TypeOK'
      BY <1>1, <1>2, <1>6 DEF IInv, TypeOK, server, spool
    <2>2. RowsHaveAuthors' /\ FrictionSpacing'
      BY <1>2, <1>6
      DEF IInv, RowsHaveAuthors, FrictionSpacing, server, spool
    <2> QED
      BY <1>3, <1>4, <1>5, <2>1, <2>2 DEF IInv
  <1>7. CASE /\ recent = {}
             /\ seq' = seq + 1
             /\ rows' = Inserted(rows, seq + 1, row)
             /\ author' = [i \in DOMAIN rows \cup {seq + 1} |->
                             IF i = seq + 1 THEN m.report ELSE author[i]]
    <2>1. /\ row \in Row /\ row.key = NoKey /\ row.hash = hash /\ row.created = now
      BY <1>1, ContentAssumption DEF NewRow, Row, AnyKey, AnyResolution, Stamp
    <2>2. /\ DOMAIN rows' = DOMAIN rows \cup {seq + 1}
          /\ seq + 1 \notin DOMAIN rows
          /\ rows'[seq + 1] = row /\ author'[seq + 1] = m.report
          /\ \A i \in DOMAIN rows : rows'[i] = rows[i] /\ author'[i] = author[i]
      BY <1>1, <1>7 DEF Inserted, IsTable
    <2>3. IsTable(rows, seq)'
      BY <1>1, <1>7, <2>1, InsertedIsTable
    <2>4. TypeOK'
      BY <1>1, <1>2, <1>7, <2>2, <2>3 DEF IInv, TypeOK, spool
    <2>5. RowsHaveAuthors'
      BY <1>1, <1>2, <2>1, <2>2 DEF IInv, RowsHaveAuthors, spool
    <2>6. FrictionSpacing'
      <3>1. FrictionsSpaced(rows)
        BY DEF IInv, FrictionSpacing
      <3>2. RecentFrictions(rows, row.hash, row.created - Window) = {}
        BY <1>7, <2>1
      <3> HIDE DEF row
      <3>3. FrictionsSpaced(Inserted(rows, seq + 1, row))
        BY <1>1, <2>1, <3>1, <3>2, InsertedKeepsSpacing
      <3> QED
        BY <1>7, <3>3 DEF FrictionSpacing
    <2> QED
      BY <1>3, <1>4, <1>5, <2>4, <2>5, <2>6 DEF IInv
  <1> QED
    BY <1>6, <1>7 DEF Store

(* A request is lost on its way.                                           *)
LEMMA LoseKeeps ==
    ASSUME IInv, NEW m \in tries, Lose(m)
    PROVE  IInv'
  <1>1. /\ tries' = tries \ {m}
        /\ UNCHANGED <<now, server, spool, flusher, answers, heard>>
    BY DEF Lose
  <1>2. TypeOK'
    BY <1>1 DEF IInv, TypeOK, server, spool
  <1>3. SendingInTime' /\ SpooledInTime' /\ WrittenBefore' /\ AnsweredRun'
    BY <1>1
    DEF IInv, SendingInTime, SpooledInTime, WrittenBefore, WrittenInTime, AnsweredRun,
        Files, spool
  <1>4. FlushesInTime' /\ TriesInTime'
    BY <1>1 DEF IInv, FlushesInTime, WrittenInTime, TriesInTime, LastSent, spool
  <1>5. RowsHaveAuthors' /\ FrictionSpacing'
    BY <1>1
    DEF IInv, RowsHaveAuthors, FrictionSpacing, server, spool
  <1> QED
    BY <1>2, <1>3, <1>4, <1>5 DEF IInv

(* Time respects the bounds it is held to.                                 *)
LEMMA TickKeeps ==
    ASSUME IInv, Tick
    PROVE  IInv'
  <1>1. /\ now' = now + 1 /\ now \in Nat
        /\ \A r \in Reports : phase[r] = "sending" => now < first[r] + Timeout
        /\ \A f \in Flushers : flusher[f] # Idle => now < flusher[f].began + FlushTime
        /\ \A m \in tries : now < m.sent + Latency
        /\ UNCHANGED <<server, spool, flusher, tries, answers, heard>>
    BY DEF Tick, IInv, TypeOK
  <1>2. TypeOK'
    BY <1>1 DEF IInv, TypeOK, server, spool
  <1>3. SendingInTime' /\ SpooledInTime' /\ WrittenBefore' /\ AnsweredRun'
    BY <1>1, DurationAssumption
    DEF IInv, TypeOK, SendingInTime, SpooledInTime, WrittenBefore, WrittenInTime,
        AnsweredRun, Files, spool
  <1>4. FlushesInTime'
    <2>1. \A f \in Flushers : flusher[f] # Idle => flusher[f].began \in Int
      BY DEF IInv, TypeOK, Flush
    <2>2. ASSUME NEW f \in Flushers, flusher[f] # Idle
          PROVE  flusher[f].began <= now' /\ now' <= flusher[f].began + FlushTime
      BY <1>1, <2>1, <2>2, DurationAssumption DEF IInv, FlushesInTime
    <2> QED
      BY <1>1, <2>2 DEF IInv, FlushesInTime, WrittenInTime, spool
  <1>5. TriesInTime'
    <2>1. \A m \in tries : m.sent \in Int
      BY DEF IInv, TypeOK, Try
    <2> QED
      BY <1>1, <2>1, DurationAssumption DEF IInv, TriesInTime, LastSent, spool
  <1>6. RowsHaveAuthors' /\ FrictionSpacing'
    BY <1>1
    DEF IInv, RowsHaveAuthors, FrictionSpacing, server, spool
  <1> QED
    BY <1>2, <1>3, <1>4, <1>5, <1>6 DEF IInv

----------------------------------------------------------------------------
(* Every step of the system keeps the invariant.                           *)
LEMMA NextKeeps == IInv /\ [Next]_vars => IInv'
  <1> SUFFICES ASSUME IInv, [Next]_vars PROVE IInv'
    OBVIOUS
  <1>1. ASSUME NEW r \in Reports, Submit(r) PROVE IInv'
    BY <1>1, SubmitKeeps
  <1>2. ASSUME NEW r \in Reports, Spool(r) PROVE IInv'
    BY <1>2, SpoolKeeps
  <1>3. ASSUME NEW r \in Reports, Reject(r) PROVE IInv'
    BY <1>3, SettleKeeps DEF Reject
  <1>4. ASSUME NEW f \in Flushers, StartFlush(f) PROVE IInv'
    BY <1>4, StartFlushKeeps
  <1>5. ASSUME NEW f \in Flushers, NEW r \in Reports, Post(f, r) PROVE IInv'
    BY <1>5, PostKeeps
  <1>6. ASSUME NEW f \in Flushers, Skip(f) PROVE IInv'
    <2>1. flusher[f].posting \in Try /\ flusher[f].posting.report \in Reports
      BY <1>6 DEF Skip, IInv, TypeOK, Flush, Try
    <2>2. MovesOn
      BY <1>6, <2>1, BecomesMovesOn DEF Skip
    <2> QED
      BY <1>6, <2>2, FlusherKeeps DEF Skip
  <1>7. ASSUME NEW f \in Flushers, EndFlush(f) PROVE IInv'
    <2>1. MovesOn
      BY <1>7 DEF EndFlush, MovesOn, IInv, TypeOK, spool
    <2> QED
      BY <1>7, <2>1, FlusherKeeps DEF EndFlush, spool
  <1>8. ASSUME NEW m \in answers, Accept(m) PROVE IInv'
    <2>1. m.report \in Reports
      BY DEF IInv, TypeOK, Try
    <2> QED
      BY <1>8, <2>1, SettleKeeps DEF Accept
  <1>9. ASSUME NEW m \in answers, Remove(m) PROVE IInv'
    <2>1. m.report \in Reports /\ m.by \in Flushers /\ flusher[m.by] # Idle
      BY <1>9, IdleAssumption DEF Remove, IInv, TypeOK, Try, AnsweredRun
    <2>2. MovesOn
      BY <1>9, <2>1, BecomesMovesOn DEF Remove
    <2> QED
      BY <1>9, <2>1, <2>2, FlusherKeeps DEF Remove
  <1>10. ASSUME NEW m \in tries, Store(m) \/ Lose(m) PROVE IInv'
    BY <1>10, StoreKeeps, LoseKeeps
  <1>11. CASE Tick
    BY <1>11, TickKeeps
  <1>12. CASE UNCHANGED vars
    BY <1>12
    DEF vars, IInv, TypeOK, SendingInTime, SpooledInTime, WrittenBefore, FlushesInTime,
        TriesInTime, AnsweredRun, RowsHaveAuthors, FrictionSpacing,
        WrittenInTime, LastSent, Files, server, spool
  <1> QED
    BY <1>1, <1>2, <1>3, <1>4, <1>5, <1>6, <1>7, <1>8, <1>9, <1>10, <1>11, <1>12
    DEF Next

(* The invariant holds in every reachable state.                           *)
THEOREM Invariant == Spec => []IInv
  BY InitIInv, NextKeeps, PTL DEF Spec

(* Every variable keeps its type: each row has an author, and none an id   *)
(* above the sequence.                                                     *)
THEOREM TypeCorrect == Spec => []TypeOK
  <1>1. IInv => TypeOK
    BY DEF IInv
  <1> QED
    BY <1>1, Invariant, PTL

(* Frictions of one content stay more than a window apart, whatever the    *)
(* durations, the losses and the order in which tries arrive.              *)
THEOREM FrictionsStaySpaced == Spec => []FrictionSpacing
  <1>1. IInv => FrictionSpacing
    BY DEF IInv
  <1> QED
    BY <1>1, Invariant, PTL

----------------------------------------------------------------------------
(* What the durations are for: a row of the report whose try arrives is    *)
(* still within the window, and absorbs it.                                *)
LEMMA OwnRowIsRecent ==
    ASSUME SafeDurations, IInv, NEW m \in tries,
           NEW i \in DOMAIN rows, author[i] = m.report
    PROVE  i \in RecentFrictions(rows, Content[m.report], now - Window)
  <1>1. /\ m.report \in Reports /\ m.sent \in Int /\ now \in Nat
        /\ first[m.report] \in Nat /\ rows[i].created \in Int
    BY DEF IInv, TypeOK, Try, IsTable, Row
  <1>2. /\ m.sent <= LastSent(m.report) /\ now <= m.sent + Latency
        /\ first[m.report] <= rows[i].created
    BY DEF IInv, TriesInTime, RowsHaveAuthors
  <1>3. rows[i].created >= now - Window
    BY <1>1, <1>2, DurationAssumption, TimesAssumption DEF LastSent, SafeDurations
  <1> QED
    BY <1>3 DEF IInv, RowsHaveAuthors, RecentFrictions

(* Nobody but CreateFriction changes the table, and only the first try of  *)
(* a report to arrive inserts.                                             *)
LEMMA NextKeepsOneRow ==
    ASSUME SafeDurations
    PROVE  IInv /\ OneRowPerReport /\ [Next]_vars => OneRowPerReport'
  <1> SUFFICES ASSUME IInv, OneRowPerReport, [Next]_vars PROVE OneRowPerReport'
    OBVIOUS
  <1>1. CASE UNCHANGED server
    BY <1>1 DEF OneRowPerReport, server
  <1>2. ASSUME NEW m \in tries, Store(m), ~UNCHANGED server PROVE OneRowPerReport'
    <2>1. /\ RecentFrictions(rows, Content[m.report], now - Window) = {}
          /\ DOMAIN rows' = DOMAIN rows \cup {seq + 1}
          /\ author' = [i \in DOMAIN rows \cup {seq + 1} |->
                          IF i = seq + 1 THEN m.report ELSE author[i]]
      BY <1>2 DEF Store, Inserted
    <2>2. \A i \in DOMAIN rows : author[i] # m.report
      BY <2>1, OwnRowIsRecent
    <2>3. seq + 1 \notin DOMAIN rows
      BY DEF IInv, TypeOK, IsTable
    <2> QED
      BY <2>1, <2>2, <2>3 DEF OneRowPerReport
  <1>3. ASSUME NEW r \in Reports, Submit(r) \/ Spool(r) \/ Reject(r) PROVE UNCHANGED server
    BY <1>3 DEF Submit, Spool, Reject
  <1>4. ASSUME NEW f \in Flushers,
               \/ StartFlush(f) \/ Skip(f) \/ EndFlush(f)
               \/ \E r \in Reports : Post(f, r)
        PROVE  UNCHANGED server
    BY <1>4 DEF StartFlush, Skip, EndFlush, Post
  <1>5. ASSUME NEW m, Accept(m) \/ Remove(m) \/ Lose(m) PROVE UNCHANGED server
    BY <1>5 DEF Accept, Remove, Lose
  <1>6. Tick \/ UNCHANGED vars => UNCHANGED server
    BY DEF Tick, vars
  <1> QED
    BY <1>1, <1>2, <1>3, <1>4, <1>5, <1>6 DEF Next

(* However often a report is retried, and by however many flushers, it is  *)
(* filed once, as long as the durations fit into the dedupe window.        *)
THEOREM RetriesFileOnce ==
    ASSUME SafeDurations
    PROVE  Spec => []OneRowPerReport
  <1>1. Init => OneRowPerReport
    <2>1. Init => DOMAIN rows = {}
      BY DEF Init
    <2> QED
      BY <2>1 DEF OneRowPerReport
  <1>2. IInv /\ OneRowPerReport /\ [Next]_vars => OneRowPerReport'
    BY NextKeepsOneRow
  <1> QED
    BY <1>1, <1>2, Invariant, PTL DEF Spec
============================================================================
