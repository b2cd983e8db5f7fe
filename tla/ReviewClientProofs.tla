------------------------- MODULE ReviewClientProofs -------------------------
(***************************************************************************)
(* Proofs about the scripts that submit reviews and events.                *)
(*                                                                         *)
(* KeyedSpool, for any number of clients, runs, events and spool files:    *)
(* the types, that nothing reported safe is lost, and that a .submitted    *)
(* file tells the truth.  Two facts about a client between two of its      *)
(* commands carry both: an answer it heard is still true of the service,   *)
(* and the file it claimed is gone or still holds what it posted, whatever *)
(* other flushers, sweeps and late answers did meanwhile.                  *)
(*                                                                         *)
(* SweepLock, for any number of sweeps and kills: the types, and that      *)
(* sweeps exclude each other, reclaimed locks included, as long as no      *)
(* removal hits another directory than the one it was meant for.  Nothing  *)
(* that a sweep checks before it enters says that it is alone; it follows  *)
(* from where the directory's maker stands, who keeps it there and names   *)
(* himself in it, and from what a reclaiming sweep knows between its two   *)
(* looks at the owner: a directory that was old then is not being set up.  *)
(***************************************************************************)
EXTENDS KeyedSpool, SweepLock, TLAPS

(* What a client goes by holds: the file it claimed, the payload it sent   *)
(* and the answer it heard.                                                *)
Attentive(c) ==
    LET s == client[c] IN
    /\ s.at \in {"claimed", "posted"} => s.file \in Names
    /\ s.at \notin {"posted", "sent"} => s.payload = None
    /\ s.at = "sent" => s.payload \in Payload
    /\ s.at = "posted" /\ s.payload # None =>
         files[s.file] = None \/ files[s.file].payload = s.payload
    /\ s.code \in {"201", "200"} =>
         s.payload \in Payload /\ stored[s.payload.key] = s.payload.content

AllAttentive == \A c \in Clients : Attentive(c)

IInv == TypeOK /\ AllAttentive /\ NothingLost /\ MarkerTruthful

USE KeyAssumption, BoundAssumption, NoneAssumption

----------------------------------------------------------------------------
(* Types.                                                                  *)

(* The type invariant without the service's state, which nothing here      *)
(* reasons about.                                                          *)
Shape ==
    /\ now \in 0..Horizon
    /\ changes \in 0..MaxChanges
    /\ stored \in [Keys -> Contents \cup {None}]
    /\ sent \subseteq [payload : Payload, by : Clients]
    /\ grade \in [Runs -> 0..MaxGrade]
    /\ marker \in [Runs -> Contents \cup {None}]
    /\ files \in [Names -> File \cup {None}]
    /\ client \in [Clients -> Process]
    /\ calls \in 0..MaxCalls /\ kills \in 0..MaxKills
    /\ promised \subseteq Payload /\ expired \subseteq Payload
    /\ \A c \in Clients : client[c].code # "wait" => client[c].at \in {"posted", "sent"}

(* A process at rest.                                                      *)
LEMMA IdleProcess == Idle \in Process /\ Idle.code = "wait" /\ Idle.at = "idle"
  BY DEF Idle, Process, Codes

(* When one client moves, its own new state is all there is to check.      *)
LEMMA OneMoves ==
    ASSUME Shape, NEW c \in Clients, NEW s \in Process,
           s.code # "wait" => s.at \in {"posted", "sent"},
           client' = [client EXCEPT ![c] = s]
    PROVE  /\ client' \in [Clients -> Process]
           /\ \A d \in Clients : client'[d].code # "wait" => client'[d].at \in {"posted", "sent"}
           /\ client'[c] = s
           /\ \A d \in Clients : d # c => client'[d] = client[d]
  BY DEF Shape

(* The list of a flush names files it may claim.                           *)
LEMMA ListTyped ==
    ASSUME Shape
    PROVE  SpoolList \in SUBSET Listed
  BY DEF Shape, SpoolList, Listed, Retryable, Lies

(* Renaming or removing the claimed file leaves the spool well typed and   *)
(* every payload in it where it was.                                       *)
LEMMA RenamedTyped ==
    ASSUME Shape, NEW n \in Names, NEW ext \in {"json", "inflight", "rejected"},
           files' = Renamed(n, ext)
    PROVE  /\ files' \in [Names -> File \cup {None}]
           /\ \A m \in Names : files[m] = None <=> files'[m] = None
           /\ \A m \in Names : files[m] # None => files'[m].payload = files[m].payload
<1>1. ASSUME NEW m \in Names
      PROVE  /\ files'[m] \in File \cup {None}
             /\ files[m] = None <=> files'[m] = None
             /\ files[m] # None => files'[m].payload = files[m].payload
  <2>1. CASE m = n /\ Lies(n, "inflight")
    <3>1. files[m] \in File /\ files'[m] = [files[m] EXCEPT !.ext = ext]
      BY <2>1 DEF Shape, Renamed, Lies
    <3>2. files'[m] \in File /\ files'[m].payload = files[m].payload
      BY <3>1 DEF File
    <3> QED BY <3>1, <3>2
  <2>2. CASE ~(m = n /\ Lies(n, "inflight"))
    BY <2>2 DEF Shape, Renamed
  <2> QED BY <2>1, <2>2
<1>2. files' = [m \in Names |-> files'[m]]
  BY DEF Shape, Renamed
<1> QED BY <1>1, <1>2

(* A removal keeps the types and takes away no file but its own.           *)
LEMMA RemovedTyped ==
    ASSUME Shape, NEW n \in Names, files' = Removed(n)
    PROVE  /\ files' \in [Names -> File \cup {None}]
           /\ \A m \in Names : files'[m] = None \/ files'[m] = files[m]
           /\ \A m \in Names : m # n => files'[m] = files[m]
  BY DEF Shape, Removed

----------------------------------------------------------------------------
(* What the others notice of a step.                                       *)

(* The service never changes a content it has.                             *)
StoredGrows == \A k \in Keys : stored[k] # None => stored'[k] = stored[k]

(* A file that stays under its name keeps its payload.                     *)
FileSteady(n) ==
    \/ files'[n] = None
    \/ files[n] # None /\ files'[n].payload = files[n].payload

(* A client that does not move stays attentive if its file is steady.      *)
LEMMA AttentiveKept ==
    ASSUME Shape, NEW d \in Clients, Attentive(d), client'[d] = client[d],
           StoredGrows, client[d].file \in Names => FileSteady(client[d].file)
    PROVE  Attentive(d)'
<1>1. client[d].code \in {"201", "200"} =>
        /\ client[d].payload \in Payload
        /\ stored'[client[d].payload.key] = client[d].payload.content
  <2> SUFFICES ASSUME client[d].code \in {"201", "200"}
               PROVE  /\ client[d].payload \in Payload
                      /\ stored'[client[d].payload.key] = client[d].payload.content
    OBVIOUS
  <2>1. /\ client[d].payload \in Payload
        /\ stored[client[d].payload.key] = client[d].payload.content
    BY DEF Attentive
  <2>2. client[d].payload.key \in Keys /\ client[d].payload.content # None
    BY <2>1 DEF Payload
  <2> QED BY <2>1, <2>2 DEF StoredGrows
<1> QED BY <1>1 DEF Attentive, FileSteady

(* A step that leaves the service's rows and the spool alone.              *)
LEMMA OthersAttentive ==
    ASSUME Shape, AllAttentive, NEW c \in Clients, NEW s,
           client' = [client EXCEPT ![c] = s], UNCHANGED <<stored, files>>
    PROVE  \A d \in Clients : d # c => Attentive(d)'
<1> SUFFICES ASSUME NEW d \in Clients, d # c
             PROVE  Attentive(d)'
  OBVIOUS
<1>1. client'[d] = client[d]
  BY DEF Shape
<1> QED BY <1>1 DEF AllAttentive, Attentive

(* The same, for what is lost: nothing.                                    *)
LEMMA Untouched ==
    ASSUME NothingLost, MarkerTruthful, UNCHANGED <<stored, files, promised, expired, marker>>
    PROVE  NothingLost' /\ MarkerTruthful'
  BY DEF NothingLost, MarkerTruthful

Inv == Shape /\ AllAttentive /\ NothingLost /\ MarkerTruthful

(* A client's move that touches nothing but itself, the requests under way *)
(* and the counters.                                                       *)
LEMMA MoveKeeps ==
    ASSUME Inv, NEW c \in Clients, NEW s \in Process,
           s.code # "wait" => s.at \in {"posted", "sent"},
           client' = [client EXCEPT ![c] = s],
           sent' \subseteq [payload : Payload, by : Clients],
           UNCHANGED <<stored, files, promised, expired, marker, grade, now, changes>>,
           calls' \in 0..MaxCalls, kills' \in 0..MaxKills,
           Attentive(c)'
    PROVE  Inv'
<1>1. Shape'
  BY OneMoves DEF Inv, Shape
<1>2. AllAttentive'
  BY OthersAttentive DEF Inv, AllAttentive
<1> QED BY <1>1, <1>2, Untouched DEF Inv

----------------------------------------------------------------------------
(* The moves of a client that leave rows, spool and markers alone.         *)

(* Skip, EndFlush, SkipRun: a list gets shorter or the stage changes.      *)
LEMMA ListsShrink ==
    ASSUME Inv, NEW c \in Clients, Skip(c) \/ EndFlush(c) \/ SkipRun(c)
    PROVE  Inv'
<1>1. PICK s \in Process :
        /\ client' = [client EXCEPT ![c] = s]
        /\ s.at \in {"flush", "submit"} /\ s.code = "wait" /\ s.payload = None
  <2>1. /\ client[c] \in Process /\ client[c].at \in {"flush", "submit"}
        /\ client[c].code = "wait" /\ client[c].payload = None
    BY DEF Inv, Shape, AllAttentive, Attentive, Skip, EndFlush, SkipRun
  <2>2. CASE Skip(c)
    <3>1. PICK e \in NextListed(c) : client' = [client EXCEPT ![c].todo = @ \ {e}]
      BY <2>2 DEF Skip
    <3>2. [client[c] EXCEPT !.todo = @ \ {e}] \in Process
      BY <2>1 DEF Process
    <3> QED BY <2>1, <3>1, <3>2 DEF Inv, Shape, Process
  <2>3. CASE EndFlush(c)
    <3>1. [client[c] EXCEPT !.at = "submit"] \in Process
      BY <2>1 DEF Process
    <3> QED BY <2>1, <2>3, <3>1 DEF EndFlush, Inv, Shape, Process
  <2>4. CASE SkipRun(c)
    <3>1. PICK w \in client[c].work : client' = [client EXCEPT ![c].work = @ \ {w}]
      BY <2>4 DEF SkipRun
    <3>2. [client[c] EXCEPT !.work = @ \ {w}] \in Process
      BY <2>1 DEF Process
    <3> QED BY <2>1, <3>1, <3>2 DEF Inv, Shape, Process
  <2> QED BY <2>2, <2>3, <2>4
<1>2. client'[c] = s
  BY <1>1, OneMoves DEF Inv
<1>3. Attentive(c)'
  BY <1>1, <1>2 DEF Attentive
<1>4. /\ UNCHANGED <<stored, files, promised, expired, marker, grade, now, changes>>
      /\ UNCHANGED <<sent, calls, kills>>
  BY DEF Skip, EndFlush, SkipRun, disk, history, outside
<1> QED BY <1>1, <1>3, <1>4, MoveKeeps DEF Inv, Shape

(* The next of the listed files is a file of the spool.                    *)
LEMMA NextListedTyped ==
    ASSUME Shape, NEW c \in Clients, NEW e \in NextListed(c)
    PROVE  e \in client[c].todo /\ e.name \in Names
<1>1. e \in client[c].todo
  BY DEF NextListed
<1>2. client[c].todo \in SUBSET Listed
  BY DEF Shape, Process
<1> QED BY <1>1, <1>2 DEF Listed

(* Post: the client remembers what it read from the file it claimed.       *)
LEMMA PostKeeps ==
    ASSUME Inv, NEW c \in Clients, Post(c)
    PROVE  Inv'
<1> DEFINE n == client[c].file
<1>1. /\ client[c] \in Process /\ client[c].at = "claimed" /\ client[c].code = "wait"
      /\ client[c].payload = None /\ n \in Names
  BY DEF Inv, Shape, Post, AllAttentive, Attentive
<1>2. /\ UNCHANGED <<stored, files, promised, expired, marker, grade, now, changes>>
      /\ UNCHANGED <<calls, kills>>
  BY DEF Post, disk, history, outside
<1>3. CASE Lies(n, "inflight")
  <2> DEFINE s == [client[c] EXCEPT !.at = "posted", !.payload = files[n].payload]
  <2>1. files[n] \in File /\ files[n].payload \in Payload
    BY <1>1, <1>3 DEF Lies, Inv, Shape, File
  <2>2. /\ s \in Process /\ s.at = "posted" /\ s.payload = files[n].payload
        /\ s.file = n /\ s.code = "wait"
    BY <1>1, <2>1 DEF Process
  <2>3. client' = [client EXCEPT ![c] = s]
    BY <1>1, <1>3 DEF Post, Inv, Shape, Process
  <2>4. sent' \subseteq [payload : Payload, by : Clients]
    BY <1>3, <2>1 DEF Post, Inv, Shape
  <2>5. client'[c] = s
    BY <2>2, <2>3, OneMoves DEF Inv
  <2>6. Attentive(c)'
    BY <1>1, <1>2, <2>2, <2>5 DEF Attentive
  <2> QED BY <1>2, <2>2, <2>3, <2>4, <2>6, MoveKeeps DEF Inv, Shape
<1>4. CASE ~Lies(n, "inflight")
  <2>1. PICK code \in {"000", "4xx"} :
          client' = [client EXCEPT ![c].at = "posted", ![c].code = code]
    BY <1>4 DEF Post
  <2> DEFINE s == [client[c] EXCEPT !.at = "posted", !.code = code]
  <2>2. /\ s \in Process /\ s.at = "posted" /\ s.payload = client[c].payload
        /\ s.file = n /\ s.code \notin {"201", "200"}
    BY <1>1 DEF Process, Codes
  <2>3. client' = [client EXCEPT ![c] = s]
    BY <1>1, <2>1 DEF Inv, Shape, Process
  <2>4. UNCHANGED sent
    BY <1>4 DEF Post
  <2>5. client'[c] = s
    BY <2>2, <2>3, OneMoves DEF Inv
  <2>6. Attentive(c)'
    BY <1>1, <1>2, <2>2, <2>5 DEF Attentive
  <2> QED BY <1>2, <2>2, <2>3, <2>4, <2>6, MoveKeeps DEF Inv, Shape
<1> QED BY <1>3, <1>4

(* A run or an event in hand gives a payload of its key.                   *)
LEMMA BuiltTyped ==
    ASSUME Shape, NEW w \in Work, ~Skipped(w)
    PROVE  Built(w) \in Payload
<1>1. w.key \in Keys /\ w.outputs \in BOOLEAN
  BY DEF Work
<1>2. (IF w.key \in Runs THEN grade[w.key] ELSE 1) \in 1..MaxGrade
  BY <1>1 DEF Shape, Skipped
<1>3. Content(w) \in Contents
  BY <1>1, <1>2 DEF Content, Contents
<1> QED BY <1>1, <1>3 DEF Built, Payload

(* Send: what the client waits for is what it sent.                        *)
LEMMA SendKeeps ==
    ASSUME Inv, NEW c \in Clients, Send(c)
    PROVE  Inv'
<1>1. /\ client[c] \in Process /\ client[c].at = "submit" /\ client[c].code = "wait"
  BY DEF Inv, Shape, Send
<1>2. PICK w \in client[c].work :
        /\ ~Skipped(w)
        /\ sent' = sent \cup {[payload |-> Built(w), by |-> c]}
        /\ client' = [client EXCEPT ![c].work = @ \ {w}, ![c].at = "sent", ![c].payload = Built(w)]
  BY Zenon DEF Send
<1>3. w \in Work
  BY <1>1 DEF Process
<1>4. Built(w) \in Payload
  BY <1>2, <1>3, BuiltTyped DEF Inv
<1> DEFINE s == [client[c] EXCEPT !.work = @ \ {w}, !.at = "sent", !.payload = Built(w)]
<1>5. s \in Process /\ s.at = "sent" /\ s.payload = Built(w) /\ s.code = "wait"
  BY <1>1, <1>4 DEF Process
<1>6. client' = [client EXCEPT ![c] = s]
  BY <1>1, <1>2 DEF Inv, Shape, Process
<1>7. client'[c] = s
  BY <1>5, <1>6, OneMoves DEF Inv
<1>8. Attentive(c)'
  BY <1>4, <1>5, <1>7 DEF Attentive
<1>9. /\ UNCHANGED <<stored, files, promised, expired, marker, grade, now, changes>>
      /\ UNCHANGED <<calls, kills>>
  BY DEF Send, disk, history, outside
<1>10. sent' \subseteq [payload : Payload, by : Clients]
  BY <1>2, <1>4 DEF Inv, Shape
<1> QED BY <1>5, <1>6, <1>8, <1>9, <1>10, MoveKeeps DEF Inv, Shape

(* GiveUp: running out of time is no good news.                            *)
LEMMA GiveUpKeeps ==
    ASSUME Inv, NEW c \in Clients, GiveUp(c)
    PROVE  Inv'
<1> DEFINE s == [client[c] EXCEPT !.code = "000"]
<1>1. client[c] \in Process /\ client[c].at \in {"posted", "sent"} /\ Attentive(c)
  BY DEF Inv, Shape, AllAttentive, GiveUp
<1>2. /\ s \in Process /\ s.at = client[c].at /\ s.payload = client[c].payload
      /\ s.file = client[c].file /\ s.code = "000"
  BY <1>1 DEF Process, Codes
<1>3. client' = [client EXCEPT ![c] = s]
  BY <1>1 DEF GiveUp, Inv, Shape
<1>4. client'[c] = s
  BY <1>1, <1>2, <1>3, OneMoves DEF Inv
<1>5. /\ UNCHANGED <<stored, files, promised, expired, marker, grade, now, changes>>
      /\ UNCHANGED <<sent, calls, kills>>
  BY DEF GiveUp, disk, history, outside
<1>6. Attentive(c)'
  BY <1>1, <1>2, <1>4, <1>5 DEF Attentive
<1> QED BY <1>1, <1>2, <1>3, <1>5, <1>6, MoveKeeps DEF Inv, Shape

(* End and Kill: a process that is gone waits for nothing.                 *)
LEMMA GoneKeeps ==
    ASSUME Inv, NEW c \in Clients, End(c) \/ Kill(c)
    PROVE  Inv'
<1>1. client' = [client EXCEPT ![c] = Idle]
  BY DEF End, Kill
<1>2. client'[c] = Idle
  BY <1>1, IdleProcess, OneMoves DEF Inv
<1>3. Attentive(c)'
  BY <1>2 DEF Attentive, Idle
<1>4. /\ UNCHANGED <<stored, files, promised, expired, marker, grade, now, changes>>
      /\ UNCHANGED <<sent, calls>> /\ kills' \in 0..MaxKills
  BY DEF End, Kill, disk, history, outside, Inv, Shape
<1> QED BY <1>1, <1>3, <1>4, IdleProcess, MoveKeeps DEF Inv, Shape

----------------------------------------------------------------------------
(* Requests and the service.                                               *)

(* Who hears an answer was waiting for it.                                 *)
LEMMA HearsTyped ==
    ASSUME Shape, AllAttentive, NEW m \in sent, NEW code \in Codes, Hears(m, code),
           UNCHANGED files, StoredGrows,
           code \in {"201", "200"} => stored'[m.payload.key] = m.payload.content
    PROVE  /\ client' \in [Clients -> Process]
           /\ \A d \in Clients : client'[d].code # "wait" => client'[d].at \in {"posted", "sent"}
           /\ AllAttentive'
<1>1. m.payload \in Payload /\ m.by \in Clients
  BY DEF Shape
<1>2. ASSUME NEW d \in Clients, client'[d] = client[d]
      PROVE  Attentive(d)'
  <2>1. client[d].file \in Names => FileSteady(client[d].file)
    BY DEF FileSteady
  <2> QED BY <1>2, <2>1, AttentiveKept DEF AllAttentive
<1>3. CASE ~Waits(m)
  BY <1>2, <1>3 DEF Hears, Shape, AllAttentive
<1>4. CASE Waits(m)
  <2> DEFINE s == [client[m.by] EXCEPT !.code = code]
  <2>1. /\ client[m.by] \in Process /\ client[m.by].at \in {"posted", "sent"}
        /\ client[m.by].payload = m.payload /\ Attentive(m.by)
    BY <1>1, <1>4 DEF Shape, AllAttentive, Waits
  <2>2. /\ s \in Process /\ s.at = client[m.by].at /\ s.payload = m.payload
        /\ s.file = client[m.by].file /\ s.code = code
    BY <2>1 DEF Process
  <2>3. client' = [client EXCEPT ![m.by] = s]
    BY <1>1, <1>4 DEF Hears, Shape
  <2>4. /\ client' \in [Clients -> Process]
        /\ \A d \in Clients : client'[d].code # "wait" => client'[d].at \in {"posted", "sent"}
        /\ client'[m.by] = s
        /\ \A d \in Clients : d # m.by => client'[d] = client[d]
    <3> HIDE DEF s
    <3> QED BY <1>1, <2>1, <2>2, <2>3, OneMoves
  <2>5. Attentive(m.by)'
    BY <1>1, <2>1, <2>2, <2>4 DEF Attentive
  <2> QED BY <1>2, <2>4, <2>5 DEF AllAttentive
<1> QED BY <1>3, <1>4

(* A row appears, or nothing does: what was stored or marked stays true.   *)
LEMMA GrowthKeeps ==
    ASSUME Shape, NothingLost, MarkerTruthful, StoredGrows,
           UNCHANGED <<files, promised, expired, marker>>
    PROVE  NothingLost' /\ MarkerTruthful'
<1>1. ASSUME NEW x \in promised, stored[x.key] = x.content
      PROVE  stored'[x.key] = x.content
  <2>1. x.key \in Keys /\ x.content # None
    BY DEF Shape, Payload
  <2> QED BY <1>1, <2>1 DEF StoredGrows
<1>2. ASSUME NEW r \in Runs, marker[r] # None, marker[r] = stored[r]
      PROVE  marker[r] = stored'[r]
  BY <1>2 DEF StoredGrows, Keys
<1> QED BY <1>1, <1>2 DEF NothingLost, MarkerTruthful

(* Handle: the answer says what the service has, and keeps.                *)
LEMMA HandleKeeps ==
    ASSUME Inv, NEW m \in sent, Handle(m)
    PROVE  Inv'
<1> DEFINE row == stored[m.payload.key]
<1> DEFINE code == IF row = None THEN "201" ELSE IF row = m.payload.content THEN "200" ELSE "409"
<1>1. m.payload \in Payload /\ m.payload.key \in Keys /\ m.payload.content \in Contents
  BY DEF Inv, Shape, Payload
<1>2. /\ stored' = [stored EXCEPT ![m.payload.key] = IF @ = None THEN m.payload.content ELSE @]
      /\ Hears(m, code) \/ UNCHANGED client
      /\ sent' = sent \ {m}
      /\ UNCHANGED <<files, promised, expired, marker, grade, now, changes, calls, kills>>
  BY DEF Handle, disk, history, outside
<1>3. StoredGrows /\ stored' \in [Keys -> Contents \cup {None}]
  BY <1>1, <1>2 DEF Inv, Shape, StoredGrows
<1>4. code \in Codes /\ (code \in {"201", "200"} => stored'[m.payload.key] = m.payload.content)
  BY <1>1, <1>2 DEF Inv, Shape, Codes
<1>5. /\ client' \in [Clients -> Process]
      /\ \A d \in Clients : client'[d].code # "wait" => client'[d].at \in {"posted", "sent"}
      /\ AllAttentive'
  <2>1. CASE Hears(m, code)
    <3> HIDE DEF code
    <3> QED BY <1>2, <1>3, <1>4, <2>1, HearsTyped DEF Inv
  <2>2. CASE UNCHANGED client
    <3>1. ASSUME NEW d \in Clients
          PROVE  Attentive(d)'
      BY <1>2, <1>3, <2>2, AttentiveKept DEF Inv, AllAttentive, FileSteady
    <3> QED BY <2>2, <3>1 DEF Inv, Shape, AllAttentive
  <2> QED BY <1>2, <2>1, <2>2
<1>6. Shape'
  BY <1>2, <1>3, <1>5 DEF Inv, Shape
<1> QED BY <1>2, <1>3, <1>5, <1>6, GrowthKeeps DEF Inv

(* Refuse: whatever the service did, a refusal is no receipt.              *)
LEMMA RefuseKeeps ==
    ASSUME Inv, NEW m \in sent, Refuse(m)
    PROVE  Inv'
<1>1. PICK code \in {"401", "4xx", "5xx", "malformed"} : Hears(m, code)
  BY DEF Refuse
<1>2. /\ sent' \subseteq sent
      /\ UNCHANGED <<stored, files, promised, expired, marker, grade, now, changes, calls, kills>>
  BY DEF Refuse, disk, history, outside
<1>3. /\ client' \in [Clients -> Process]
      /\ \A d \in Clients : client'[d].code # "wait" => client'[d].at \in {"posted", "sent"}
      /\ AllAttentive'
  BY <1>1, <1>2, HearsTyped DEF Inv, StoredGrows, Codes
<1>4. Shape'
  BY <1>2, <1>3 DEF Inv, Shape
<1> QED BY <1>2, <1>3, <1>4, Untouched DEF Inv

(* Lose, Change, Grade and Tick: the world goes on around the clients.     *)
LEMMA WorldKeeps ==
    ASSUME Inv, (\E m \in sent : Lose(m)) \/ (\E r \in Runs : Grade(r)) \/ Change \/ Tick
    PROVE  Inv'
<1>1. UNCHANGED <<stored, files, promised, expired, marker, client, calls, kills>>
  BY DEF Lose, Grade, Change, Tick, disk, history, outside
<1>2. sent' \subseteq sent
  BY DEF Lose, Grade, Change, Tick
<1>3. now' \in 0..Horizon /\ changes' \in 0..MaxChanges /\ grade' \in [Runs -> 0..MaxGrade]
  BY DEF Lose, Grade, Change, Tick, disk, outside, Inv, Shape
<1>4. Shape'
  BY <1>1, <1>2, <1>3 DEF Inv, Shape
<1>5. AllAttentive'
  BY <1>1 DEF Inv, AllAttentive, Attentive
<1> QED BY <1>1, <1>4, <1>5, Untouched DEF Inv

----------------------------------------------------------------------------
(* The spool.                                                              *)

(* A change of the spool by one client that moves as well: what the others *)
(* claimed is steady, and whatever was safe is.                            *)
LEMMA SpoolMoveKeeps ==
    ASSUME Inv, NEW c \in Clients, NEW s \in Process,
           s.code # "wait" => s.at \in {"posted", "sent"},
           client' = [client EXCEPT ![c] = s],
           files' \in [Names -> File \cup {None}],
           \A d \in Clients : client[d].file \in Names => FileSteady(client[d].file),
           UNCHANGED <<stored, sent, grade, now, changes, kills>>,
           calls' \in 0..MaxCalls,
           promised' \subseteq Payload, expired' \subseteq Payload,
           marker' \in [Runs -> Contents \cup {None}],
           Attentive(c)', NothingLost', MarkerTruthful'
    PROVE  Inv'
<1>1. Shape'
  BY OneMoves DEF Inv, Shape
<1>2. ASSUME NEW d \in Clients, d # c
      PROVE  Attentive(d)'
  BY <1>2, AttentiveKept, OneMoves DEF Inv, AllAttentive, StoredGrows
<1> QED BY <1>1, <1>2 DEF Inv, AllAttentive

(* Pruning: what is too old is dropped, and known to be.                   *)
LEMMA StartKeeps ==
    ASSUME Inv, NEW c \in Clients, NEW work \in SUBSET Work, Start(c, work)
    PROVE  Inv'
<1> DEFINE s == [client[c] EXCEPT !.at = "flush", !.todo = SpoolList, !.work = work]
<1>1. /\ client[c] = Idle
      /\ files' = [n \in Names |-> IF TooOld(n) THEN None ELSE files[n]]
      /\ expired' = expired \cup {files[n].payload : n \in {m \in Names : TooOld(m)}}
      /\ calls' \in 0..MaxCalls
  BY DEF Start, Inv, Shape
<1>2. UNCHANGED <<stored, sent, grade, now, changes, kills, marker, promised>>
  BY DEF Start, outside
<1>3. client[c] \in Process
  BY DEF Inv, Shape
<1>4. /\ s \in Process /\ s.at = "flush" /\ s.code = "wait" /\ s.payload = None
  <2>1. client[c].code = "wait" /\ client[c].payload = None
    BY <1>1 DEF Idle
  <2>2. SpoolList \in SUBSET Listed
    BY ListTyped DEF Inv
  <2> HIDE DEF SpoolList
  <2> QED BY <1>3, <2>1, <2>2 DEF Process
<1>5. client' = [client EXCEPT ![c] = s]
  <2>1. client' = [client EXCEPT ![c].at = "flush", ![c].todo = SpoolList, ![c].work = work]
    BY Zenon DEF Start
  <2> HIDE DEF SpoolList
  <2> QED BY <1>3, <2>1 DEF Inv, Shape, Process
<1>6. \A n \in Names : files'[n] = None \/ files'[n] = files[n]
  BY <1>1
<1>7. \A n \in Names : FileSteady(n)
  BY <1>6 DEF FileSteady, Inv, Shape
<1>8. files' \in [Names -> File \cup {None}]
  BY <1>1 DEF Inv, Shape
<1>9. \A n \in Names : TooOld(n) => files[n] \in File /\ files[n].payload \in Payload
  BY DEF TooOld, Inv, Shape, File
<1>10. expired' \subseteq Payload
  BY <1>1, <1>9 DEF Inv, Shape
<1>11. Attentive(c)'
  <2>1. client'[c] = s
    <3> HIDE DEF s
    <3> QED BY <1>4, <1>5, OneMoves DEF Inv
  <2> HIDE DEF s
  <2> QED BY <1>4, <2>1 DEF Attentive
<1>12. NothingLost'
  <2> SUFFICES ASSUME NEW x \in promised
               PROVE  \/ stored[x.key] = x.content
                      \/ \E n \in Names : files'[n] # None /\ files'[n].payload = x
                      \/ x \in expired'
    BY <1>2 DEF NothingLost
  <2>1. CASE \E n \in Names : files[n] # None /\ files[n].payload = x
    <3>1. PICK n \in Names : files[n] # None /\ files[n].payload = x
      BY <2>1
    <3>2. CASE TooOld(n)
      BY <1>1, <3>1, <3>2
    <3>3. CASE ~TooOld(n)
      BY <1>1, <3>1, <3>3
    <3> QED BY <3>2, <3>3
  <2>2. CASE stored[x.key] = x.content \/ x \in expired
    BY <1>1, <2>2
  <2> QED BY <2>1, <2>2 DEF Inv, NothingLost
<1>13. MarkerTruthful'
  BY <1>2 DEF Inv, MarkerTruthful
<1> HIDE DEF s
<1> QED
  BY <1>1, <1>2, <1>4, <1>5, <1>7, <1>8, <1>10, <1>11, <1>12, <1>13, SpoolMoveKeeps DEF Inv, Shape

(* When every payload keeps its place nothing is lost.                     *)
LEMMA PlacesKept ==
    ASSUME NothingLost, UNCHANGED <<stored, promised, expired>>,
           \A n \in Names : files[n] # None =>
             files'[n] # None /\ files'[n].payload = files[n].payload
    PROVE  NothingLost'
  BY DEF NothingLost

(* Claim: the file lies where it lay, as .inflight.                        *)
LEMMA ClaimKeeps ==
    ASSUME Inv, NEW c \in Clients, Claim(c)
    PROVE  Inv'
<1>1. /\ client[c] \in Process /\ client[c].at = "flush" /\ client[c].code = "wait"
      /\ client[c].payload = None
  BY DEF Inv, Shape, Claim, AllAttentive, Attentive
<1>2. PICK e \in NextListed(c) :
        /\ Lies(e.name, e.ext)
        /\ files' = [files EXCEPT ![e.name].ext = "inflight"]
        /\ client' = [client EXCEPT ![c].todo = @ \ {e}, ![c].at = "claimed", ![c].file = e.name]
  BY Zenon DEF Claim
<1>3. e.name \in Names
  BY NextListedTyped DEF Inv
<1>4. UNCHANGED <<stored, sent, grade, now, changes, kills, calls, marker, promised, expired>>
  BY DEF Claim, outside, history
<1> DEFINE s == [client[c] EXCEPT !.todo = @ \ {e}, !.at = "claimed", !.file = e.name]
<1>5. /\ s \in Process /\ s.at = "claimed" /\ s.code = "wait"
      /\ s.file = e.name /\ s.payload = None
  BY <1>1, <1>3 DEF Process
<1>6. client' = [client EXCEPT ![c] = s]
  BY <1>1, <1>2 DEF Inv, Shape, Process
<1>7. /\ files[e.name] \in File /\ files[e.name] # None
      /\ [files[e.name] EXCEPT !.ext = "inflight"] \in File
      /\ [files[e.name] EXCEPT !.ext = "inflight"].payload = files[e.name].payload
  BY <1>2, <1>3 DEF Lies, Inv, Shape, File
<1>8. files' = [files EXCEPT ![e.name] = [files[e.name] EXCEPT !.ext = "inflight"]]
  BY <1>2
<1>9. /\ files' \in [Names -> File \cup {None}]
      /\ \A n \in Names : files[n] = None <=> files'[n] = None
      /\ \A n \in Names : files[n] # None => files'[n].payload = files[n].payload
  BY <1>3, <1>7, <1>8 DEF Inv, Shape
<1>10. Attentive(c)'
  <2>1. client'[c] = s
    <3> HIDE DEF s
    <3> QED BY <1>5, <1>6, OneMoves DEF Inv
  <2> HIDE DEF s
  <2> QED BY <1>3, <1>5, <2>1 DEF Attentive
<1>11. NothingLost'
  BY <1>4, <1>9, PlacesKept DEF Inv
<1>12. MarkerTruthful'
  BY <1>4 DEF Inv, MarkerTruthful
<1>13. \A n \in Names : FileSteady(n)
  BY <1>9 DEF FileSteady
<1> HIDE DEF s
<1> QED
  BY <1>4, <1>5, <1>6, <1>9, <1>10, <1>11, <1>12, <1>13, SpoolMoveKeeps DEF Inv, Shape

(* Delivered: the file that is removed holds what was delivered.           *)
LEMMA DeliveredLosesNothing ==
    ASSUME Inv, NEW c \in Clients, client[c].at = "posted", client[c].code \in {"201", "200"},
           files' = Removed(client[c].file), UNCHANGED <<stored, promised, expired>>
    PROVE  NothingLost'
<1> DEFINE n == client[c].file
           y == client[c].payload
<1>1. /\ n \in Names /\ y \in Payload /\ stored[y.key] = y.content
      /\ y # None => files[n] = None \/ files[n].payload = y
  BY DEF Inv, AllAttentive, Attentive
<1>2. y # None
  BY <1>1
<1>3. \A m \in Names : m # n => files'[m] = files[m]
  BY <1>1, RemovedTyped DEF Inv
<1> SUFFICES ASSUME NEW x \in promised
             PROVE  \/ stored[x.key] = x.content
                    \/ \E m \in Names : files'[m] # None /\ files'[m].payload = x
                    \/ x \in expired
  BY DEF NothingLost
<1>4. CASE \E m \in Names : files[m] # None /\ files[m].payload = x
  <2>1. PICK m \in Names : files[m] # None /\ files[m].payload = x
    BY <1>4
  <2>2. CASE m = n
    BY <1>1, <1>2, <2>1, <2>2
  <2>3. CASE m # n
    BY <1>3, <2>1, <2>3
  <2> QED BY <2>2, <2>3
<1> QED BY <1>4 DEF Inv, NothingLost

(* FileAnswered: the five ways a claimed file fares.                       *)
LEMMA FileAnsweredKeeps ==
    ASSUME Inv, NEW c \in Clients, FileAnswered(c)
    PROVE  Inv'
<1> DEFINE n == client[c].file
<1>1. /\ client[c] \in Process /\ client[c].at = "posted" /\ n \in Names
  BY DEF Inv, Shape, FileAnswered, AllAttentive, Attentive
<1>2. UNCHANGED <<stored, sent, grade, now, changes, kills, calls, marker, promised, expired>>
  BY DEF FileAnswered, outside
<1>3. PICK s \in Process :
        /\ client' = [client EXCEPT ![c] = s]
        /\ s.at \in {"flush", "submit"} /\ s.code = "wait" /\ s.payload = None
  <2>1. CASE NextFile(c)
    <3> DEFINE s == [client[c] EXCEPT !.at = "flush", !.file = None, !.payload = None, !.code = "wait"]
    <3>1. s \in Process /\ s.at = "flush" /\ s.code = "wait" /\ s.payload = None
      BY <1>1 DEF Process, Codes
    <3>2. client' = [client EXCEPT ![c] = s]
      BY <2>1 DEF NextFile
    <3> HIDE DEF s
    <3> QED BY <3>1, <3>2
  <2>2. CASE Deferred(c)
    <3> DEFINE s == [Idle EXCEPT !.at = "submit", !.work = client[c].work]
    <3>1. client[c].work \in SUBSET Work
      BY <1>1 DEF Process
    <3>2. s \in Process /\ s.at = "submit" /\ s.code = "wait" /\ s.payload = None
      BY <3>1 DEF Idle, Process, Codes
    <3>3. client' = [client EXCEPT ![c] = s]
      BY <2>2 DEF Deferred
    <3> HIDE DEF s
    <3> QED BY <3>2, <3>3
  <2> QED BY <2>1, <2>2 DEF FileAnswered, Delivered, Kept, Unlocked, SetAside
<1>4. /\ files' \in [Names -> File \cup {None}]
      /\ \A m \in Names : FileSteady(m)
      /\ NothingLost'
  <2>1. CASE Delivered(c)
    <3>1. files' = Removed(n) /\ client[c].code \in {"201", "200"}
      BY <2>1 DEF Delivered
    <3>2. /\ files' \in [Names -> File \cup {None}]
          /\ \A m \in Names : FileSteady(m)
      BY <1>1, <3>1, RemovedTyped DEF Inv, FileSteady
    <3>3. NothingLost'
      BY <1>1, <1>2, <3>1, DeliveredLosesNothing
    <3> QED BY <3>2, <3>3
  <2>2. CASE UNCHANGED files
    BY <1>2, <2>2, PlacesKept DEF Inv, Shape, FileSteady
  <2>3. CASE Unlocked(c) \/ SetAside(c)
    <3>1. PICK ext \in {"json", "inflight", "rejected"} : files' = Renamed(n, ext)
      BY <2>3 DEF Unlocked, SetAside
    <3>2. /\ files' \in [Names -> File \cup {None}]
          /\ \A m \in Names : files[m] = None <=> files'[m] = None
          /\ \A m \in Names : files[m] # None => files'[m].payload = files[m].payload
      BY <1>1, <3>1, RenamedTyped DEF Inv
    <3> QED BY <1>2, <3>2, PlacesKept DEF Inv, FileSteady
  <2> QED BY <2>1, <2>2, <2>3 DEF FileAnswered, Kept, Deferred
<1>5. client'[c] = s
  BY <1>3, OneMoves DEF Inv
<1>6. Attentive(c)'
  BY <1>3, <1>5 DEF Attentive
<1>7. MarkerTruthful'
  BY <1>2 DEF Inv, MarkerTruthful
<1> QED BY <1>2, <1>3, <1>4, <1>6, <1>7, SpoolMoveKeeps DEF Inv, Shape

----------------------------------------------------------------------------
(* What becomes of a submission.                                           *)

(* Submitted: the service has what the client promises and marks.          *)
LEMMA SubmittedTrue ==
    ASSUME Inv, NEW c \in Clients, client[c].at = "sent", Submitted(c),
           UNCHANGED <<stored, expired>>
    PROVE  /\ UNCHANGED files
           /\ promised' \subseteq Payload
           /\ marker' \in [Runs -> Contents \cup {None}]
           /\ NothingLost' /\ MarkerTruthful'
<1> DEFINE x == client[c].payload
<1>1. x \in Payload /\ stored[x.key] = x.content
  BY DEF Inv, AllAttentive, Attentive, Submitted
<1>2. UNCHANGED files /\ promised' = promised \cup {x} /\ marker' = Marked(x)
  BY DEF Submitted
<1>3. x.key \in Keys /\ x.content \in Contents
  BY <1>1 DEF Payload
<1>4. promised' \subseteq Payload
  BY <1>1, <1>2 DEF Inv, Shape
<1>5. NothingLost'
  BY <1>1, <1>2 DEF Inv, NothingLost
<1>6. /\ marker' \in [Runs -> Contents \cup {None}]
      /\ \A r \in Runs : marker'[r] = marker[r] \/ (r = x.key /\ marker'[r] = x.content)
  BY <1>2, <1>3 DEF Marked, Inv, Shape
<1>7. MarkerTruthful'
  BY <1>1, <1>6 DEF Inv, MarkerTruthful
<1> QED BY <1>2, <1>4, <1>5, <1>6, <1>7

(* Spooled: a name nobody uses is given to the payload.                    *)
LEMMA SpooledSafe ==
    ASSUME Inv, NEW c \in Clients, client[c].at = "sent", Spooled(c),
           UNCHANGED <<stored, expired>>
    PROVE  /\ files' \in [Names -> File \cup {None}]
           /\ \A d \in Clients : client[d].file \in Names => FileSteady(client[d].file)
           /\ promised' \subseteq Payload
           /\ UNCHANGED marker
           /\ NothingLost' /\ MarkerTruthful'
<1> DEFINE x == client[c].payload
<1>1. x \in Payload
  BY DEF Inv, AllAttentive, Attentive
<1>2. UNCHANGED marker /\ promised' = promised \cup {x}
  BY DEF Spooled
<1>3. PICK n \in Names : Unused(n) /\ files' = [files EXCEPT ![n] = Written(x)]
  BY DEF Spooled
<1>4. Written(x) \in File /\ Written(x) # None /\ Written(x).payload = x
  <2>1. now \in Int
    BY DEF Inv, Shape
  <2>2. Written(x) \in File /\ Written(x).payload = x
    BY <1>1, <2>1 DEF Written, File
  <2> QED BY <2>2
<1>5. files[n] = None /\ \A d \in Clients : client[d].file # n
  BY <1>3 DEF Unused
<1>6. files' \in [Names -> File \cup {None}]
  BY <1>3, <1>4 DEF Inv, Shape
<1>7. files'[n] = Written(x) /\ \A m \in Names : m # n => files'[m] = files[m]
  BY <1>3 DEF Inv, Shape
<1>8. \A d \in Clients : client[d].file \in Names => FileSteady(client[d].file)
  BY <1>5, <1>7 DEF FileSteady
<1>9. promised' \subseteq Payload
  BY <1>1, <1>2 DEF Inv, Shape
<1>10. NothingLost'
  <2> SUFFICES ASSUME NEW z \in promised \cup {x}
               PROVE  \/ stored[z.key] = z.content
                      \/ \E m \in Names : files'[m] # None /\ files'[m].payload = z
                      \/ z \in expired
    BY <1>2 DEF NothingLost
  <2>1. CASE z = x
    BY <1>4, <1>7, <2>1
  <2>2. CASE z \in promised
    <3>1. CASE \E m \in Names : files[m] # None /\ files[m].payload = z
      BY <1>5, <1>7, <3>1
    <3> QED BY <2>2, <3>1 DEF Inv, NothingLost
  <2> QED BY <2>1, <2>2
<1>11. MarkerTruthful'
  BY <1>2 DEF Inv, MarkerTruthful
<1> QED BY <1>2, <1>6, <1>8, <1>9, <1>10, <1>11

(* RunAnswered: submitted, spooled, lost with the script, or rejected.     *)
LEMMA RunAnsweredKeeps ==
    ASSUME Inv, NEW c \in Clients, RunAnswered(c)
    PROVE  Inv'
<1>1. client[c] \in Process /\ client[c].at = "sent"
  BY DEF Inv, Shape, RunAnswered
<1>2. UNCHANGED <<stored, sent, grade, now, changes, kills, calls, expired>>
  BY DEF RunAnswered, outside
<1>3. PICK s \in Process :
        /\ client' = [client EXCEPT ![c] = s]
        /\ s.at \in {"submit", "idle"} /\ s.code = "wait" /\ s.payload = None
  <2>1. CASE NextRun(c)
    <3> DEFINE s == [client[c] EXCEPT !.at = "submit", !.payload = None, !.code = "wait"]
    <3>1. s \in Process /\ s.at = "submit" /\ s.code = "wait" /\ s.payload = None
      BY <1>1 DEF Process, Codes
    <3>2. client' = [client EXCEPT ![c] = s]
      BY <2>1 DEF NextRun
    <3> HIDE DEF s
    <3> QED BY <3>1, <3>2
  <2>2. CASE Unwritable(c)
    <3>1. Idle.payload = None
      BY DEF Idle
    <3> QED BY <2>2, <3>1, IdleProcess DEF Unwritable
  <2> QED BY <2>1, <2>2 DEF RunAnswered, Submitted, Spooled, Rejected
<1>4. /\ files' \in [Names -> File \cup {None}]
      /\ \A d \in Clients : client[d].file \in Names => FileSteady(client[d].file)
      /\ promised' \subseteq Payload
      /\ marker' \in [Runs -> Contents \cup {None}]
      /\ NothingLost' /\ MarkerTruthful'
  <2>1. UNCHANGED files => /\ files' \in [Names -> File \cup {None}]
                           /\ \A d \in Clients : client[d].file \in Names => FileSteady(client[d].file)
    BY DEF Inv, Shape, FileSteady
  <2>2. CASE Submitted(c)
    BY <1>1, <1>2, <2>1, <2>2, SubmittedTrue
  <2>3. CASE Spooled(c)
    BY <1>1, <1>2, <2>3, SpooledSafe DEF Inv, Shape
  <2>4. CASE Unwritable(c) \/ Rejected(c)
    <3>1. UNCHANGED <<files, promised, marker>>
      BY <2>4 DEF Unwritable, Rejected
    <3> QED BY <1>2, <2>1, <3>1, Untouched DEF Inv, Shape
  <2> QED BY <2>2, <2>3, <2>4 DEF RunAnswered
<1>5. client'[c] = s
  BY <1>3, OneMoves DEF Inv
<1>6. Attentive(c)'
  BY <1>3, <1>5 DEF Attentive
<1> QED BY <1>2, <1>3, <1>4, <1>6, SpoolMoveKeeps DEF Inv, Shape

----------------------------------------------------------------------------
(* Every step keeps the invariant.                                         *)
LEMMA NextKeeps ==
    ASSUME Inv, [Next]_vars
    PROVE  Inv'
<1>1. ASSUME NEW c \in Clients, Flush(c)
      PROVE  Inv'
  BY <1>1, StartKeeps DEF Flush
<1>2. ASSUME NEW c \in Clients, Direct(c)
      PROVE  Inv'
  <2>1. PICK k \in Keys, outputs \in BOOLEAN :
          Start(c, {[key |-> k, outputs |-> outputs, sweep |-> FALSE]})
    BY <1>2, Zenon DEF Direct
  <2>2. {[key |-> k, outputs |-> outputs, sweep |-> FALSE]} \in SUBSET Work
    BY DEF Work
  <2> QED BY <2>1, <2>2, StartKeeps
<1>3. ASSUME NEW c \in Clients, Sweep(c)
      PROVE  Inv'
  <2>1. {[key |-> r, outputs |-> FALSE, sweep |-> TRUE] : r \in Runs} \in SUBSET Work
    <3>1. \A r \in Runs : [key |-> r, outputs |-> FALSE, sweep |-> TRUE] \in Work
      BY DEF Work, Keys
    <3> QED BY <3>1
  <2> QED BY <1>3, <2>1, StartKeeps DEF Sweep
<1>4. ASSUME NEW c \in Clients, Step(c) \/ Kill(c)
      PROVE  Inv'
  BY <1>4, ListsShrink, ClaimKeeps, PostKeeps, FileAnsweredKeeps, SendKeeps, RunAnsweredKeeps,
    GoneKeeps, GiveUpKeeps DEF Step
<1>5. ASSUME NEW m \in sent, Handle(m) \/ Refuse(m) \/ Lose(m)
      PROVE  Inv'
  BY <1>5, HandleKeeps, RefuseKeeps, WorldKeeps
<1>6. CASE (\E r \in Runs : Grade(r)) \/ Change \/ Tick
  BY <1>6, WorldKeeps
<1>7. CASE UNCHANGED vars
  <2>1. Shape'
    BY <1>7 DEF vars, outside, disk, history, Inv, Shape
  <2>2. AllAttentive'
    BY <1>7 DEF vars, outside, disk, history, Inv, AllAttentive, Attentive
  <2> QED BY <1>7, <2>1, <2>2, Untouched DEF vars, disk, history, Inv
<1> QED BY <1>1, <1>2, <1>3, <1>4, <1>5, <1>6, <1>7, Zenon DEF Next

(* No step makes of up anything but a boolean.                             *)
LEMMA NextUp ==
    ASSUME up \in BOOLEAN, [Next]_vars
    PROVE  up' \in BOOLEAN
<1>1. UNCHANGED up \/ up' = ~up
  BY Zenon DEF Next, vars, outside, Flush, Direct, Sweep, Start, Step, Kill, Skip, Claim, Post,
    FileAnswered, EndFlush, SkipRun, Send, RunAnswered, End, GiveUp, Handle, Refuse, Lose,
    Grade, Change, Tick
<1> QED BY <1>1, Zenon

(* The inductive invariant.                                                *)
THEOREM Invariant == Spec => []IInv
<1>1. Init => IInv
  <2> SUFFICES ASSUME Init PROVE IInv
    OBVIOUS
  <2>1. Shape
    BY IdleProcess DEF Init, Shape
  <2>2. AllAttentive
    BY DEF Init, AllAttentive, Attentive, Idle
  <2>3. NothingLost /\ MarkerTruthful
    BY DEF Init, NothingLost, MarkerTruthful
  <2>4. up \in BOOLEAN
    BY Zenon DEF Init
  <2> QED BY <2>1, <2>2, <2>3, <2>4, Zenon DEF IInv, TypeOK, Shape
<1>2. IInv /\ [Next]_vars => IInv'
  <2> SUFFICES ASSUME IInv, [Next]_vars PROVE IInv'
    OBVIOUS
  <2>1. Inv /\ up \in BOOLEAN
    BY Zenon DEF IInv, TypeOK, Inv, Shape
  <2>2. Inv' /\ up' \in BOOLEAN
    BY <2>1, NextKeeps, NextUp, Zenon
  <2> QED BY <2>2, Zenon DEF IInv, TypeOK, Inv, Shape
<1> QED BY <1>1, <1>2, PTL DEF Spec

(* Every reachable state is well typed; a client has an answer only while  *)
(* it waits for one, so none is taken for that of the next request.        *)
THEOREM TypeCorrect == Spec => []TypeOK
<1>1. IInv => TypeOK
  BY Zenon DEF IInv
<1> QED BY <1>1, Invariant, PTL

(* Whatever the scripts reported submitted, duplicate or spooled is with   *)
(* the service, in the spool, or dropped for its age, for any number of    *)
(* concurrent flushers, sweeps and kills (af_flush_spool, submit_run).     *)
THEOREM PromisesKept == Spec => []NothingLost
<1>1. IInv => NothingLost
  BY Zenon DEF IInv
<1> QED BY <1>1, Invariant, PTL

(* A .submitted file names the content the service has for its run.        *)
THEOREM MarkersTruthful == Spec => []MarkerTruthful
<1>1. IInv => MarkerTruthful
  BY Zenon DEF IInv
<1> QED BY <1>1, Invariant, PTL

----------------------------------------------------------------------------
(* The lock of submit-review.sh --sweep (SweepLock).                       *)

(* The commands of a sweep that made the directory, up to rm -f of its     *)
(* files; in all but the first the owner file names it.                    *)
Naming == {"born", "sweep", "release", "unlink"}
Inside == {"owner"} \cup Naming

NobodyIn(labels) == \A q \in Sweeps : pc[q] \notin labels

OneInside == \A p, q \in Sweeps : pc[p] \in Inside /\ pc[q] \in Inside => p = q

(* The directory, seen by the one that made it.                            *)
Held(p) ==
    /\ pc[p] \in Inside => lock # Absent
    /\ pc[p] \in Naming => lock.owner = p
    /\ pc[p] = "owner" => lock.owner = NoOwner
    /\ pc[p] \in {"owner", "born"} => ~lock.old

(* The directory, seen by one that removes it: whoever found it stale met  *)
(* nobody who was about to write his name, so that the second look at the  *)
(* owner tells whether anybody is inside.                                  *)
Judged(p) ==
    p \in acquainted =>
      /\ pc[p] = "recheck" => NobodyIn({"owner", "born"})
      /\ pc[p] \in {"remove", "rmdir"} => NobodyIn(Inside)

(* While no removal strayed, one process at most stands inside, the        *)
(* directory is its own, and a pid in the owner file is of one inside.     *)
Sole ==
    /\ OneInside
    /\ \A p \in Sweeps : Held(p) /\ Judged(p) /\ (Owns(p) => pc[p] \in Naming)

LockInv == LockTypeOK /\ (~strayed => Sole)

USE SlotsAssumption, CrashesAssumption, AbsentAssumption

----------------------------------------------------------------------------
(* The ways a step ends.                                                   *)

(* The type invariant but for strayed, which no guard reads.               *)
LockShape ==
    /\ lock \in Directory \cup {Absent}
    /\ pc \in [Sweeps -> PC]
    /\ crashes \in 0..MaxCrashes
    /\ acquainted \subseteq Sweeps
    /\ \A p \in Sweeps : Owns(p) => pc[p] # "idle"

(* What mkdir makes is a directory, and nobody's yet.                      *)
LEMMA Fresh ==
    /\ NewDirectory \in Directory /\ NewDirectory # Absent
    /\ NewDirectory.owner = NoOwner /\ NewDirectory.owner \notin Sweeps
    /\ ~NewDirectory.old
<1>1. NewDirectory \in Directory
  BY DEF NewDirectory, Directory
<1>2. NewDirectory.owner = NoOwner /\ ~NewDirectory.old
  BY DEF NewDirectory
<1> QED BY <1>1, <1>2

(* A process that ends leaves a lock of the same kind, nobody's if it was  *)
(* its own (Exit).                                                         *)
LEMMA ExitShape ==
    ASSUME NEW p \in Sweeps, LockShape, Exit(p)
    PROVE  /\ lock' \in Directory \cup {Absent}
           /\ pc' \in [Sweeps -> PC]
           /\ \A q \in Sweeps : (Owns(q) => pc[q] # "idle")'
  BY DEF LockShape, Exit, GoTo, Owns, Directory, PC, Sweeping

(* ... and the others see no difference.                                   *)
LEMMA ExitSole ==
    ASSUME NEW p \in Sweeps, LockShape, Sole, Exit(p), UNCHANGED acquainted
    PROVE  Sole'
<1>1. pc' = [pc EXCEPT ![p] = "idle"]
  BY DEF Exit, GoTo
<1>2. /\ lock' \in Directory \cup {Absent}
      /\ lock' = Absent <=> lock = Absent
      /\ lock # Absent => /\ lock'.old = lock.old
                          /\ lock.owner # p => lock'.owner = lock.owner
                          /\ lock.owner = p => lock'.owner = DeadPid
  BY DEF LockShape, Exit, Owns, Directory
<1>3. \A q \in Sweeps : pc'[q] = IF q = p THEN "idle" ELSE pc[q]
  BY <1>1 DEF LockShape
<1>4. OneInside'
  BY <1>3 DEF Sole, OneInside, Inside, Naming
<1>5. ASSUME NEW q \in Sweeps
      PROVE  (Held(q) /\ (Owns(q) => pc[q] \in Naming))'
  BY <1>2, <1>3 DEF Sole, Held, Owns, Inside, Naming
<1>6. ASSUME NEW q \in Sweeps
      PROVE  Judged(q)'
  BY <1>3 DEF Sole, Judged, NobodyIn, Inside, Naming
<1> QED BY <1>4, <1>5, <1>6 DEF Sole

(* A step that leaves the directory and its history alone and neither      *)
(* enters nor leaves the commands of a maker or remover keeps Sole.        *)
LEMMA WaitingSole ==
    ASSUME NEW p \in Sweeps, NEW label, LockShape, Sole, UNCHANGED <<lock, acquainted>>,
           pc' = [pc EXCEPT ![p] = label],
           label \notin Inside \cup {"recheck", "remove", "rmdir"}, pc[p] \notin Inside
    PROVE  Sole'
<1>1. \A q \in Sweeps : pc'[q] = IF q = p THEN label ELSE pc[q]
  BY DEF LockShape
<1>2. OneInside'
  BY <1>1 DEF Sole, OneInside
<1>3. ASSUME NEW q \in Sweeps
      PROVE  (Held(q) /\ (Owns(q) => pc[q] \in Naming))'
  BY <1>1 DEF Sole, Held, Owns, Inside, Naming
<1>4. ASSUME NEW q \in Sweeps
      PROVE  Judged(q)'
  BY <1>1 DEF Sole, Judged, NobodyIn, Inside, Naming
<1> QED BY <1>2, <1>3, <1>4 DEF Sole

(* A sweep that goes on from one command inside to the next, its name in   *)
(* the owner file, keeps Sole: nobody else is inside, and nobody who knows *)
(* the directory is about to remove it.                                    *)
LEMMA InsideSole ==
    ASSUME NEW p \in Sweeps, NEW label \in Naming, LockShape, Sole, UNCHANGED acquainted,
           pc' = [pc EXCEPT ![p] = label], pc[p] \in Inside,
           lock' # Absent, lock'.owner = p, label = "born" => pc[p] = "owner" /\ ~lock'.old
    PROVE  Sole'
<1>1. \A q \in Sweeps : pc'[q] = IF q = p THEN label ELSE pc[q]
  BY DEF LockShape
<1>2. \A q \in Sweeps : q # p => pc[q] \notin Inside
  BY DEF Sole, OneInside
<1>3. OneInside'
  BY <1>1, <1>2 DEF OneInside
<1>4. ASSUME NEW q \in Sweeps
      PROVE  (Held(q) /\ (Owns(q) => pc[q] \in Naming))'
  BY <1>1, <1>2 DEF Held, Owns, Inside, Naming
<1>5. ASSUME NEW q \in Sweeps
      PROVE  Judged(q)'
  <2>1. SUFFICES ASSUME q \in acquainted, pc'[q] \in {"recheck", "remove", "rmdir"}
        PROVE  pc'[q] = "recheck" /\ NobodyIn({"owner", "born"})'
    BY DEF Judged
  <2>2. q # p /\ pc'[q] = pc[q]
    BY <1>1, <2>1 DEF Naming
  <2>3. pc[q] = "recheck" /\ NobodyIn({"owner", "born"})
    BY <2>1, <2>2 DEF Sole, Judged, NobodyIn
  <2> QED BY <1>1, <2>2, <2>3 DEF NobodyIn, Naming
<1> QED BY <1>3, <1>4, <1>5 DEF Sole

(* mkdir succeeds when nobody is inside, and makes one that is.            *)
LEMMA MadeSole ==
    ASSUME NEW p \in Sweeps, LockShape, Sole, Made(p), pc' = [pc EXCEPT ![p] = "owner"]
    PROVE  Sole'
<1>1. lock = Absent /\ lock' = NewDirectory /\ acquainted' = {p}
  BY DEF Made
<1>2. NobodyIn(Inside)
  BY <1>1 DEF Sole, Held, NobodyIn
<1>3. \A q \in Sweeps : pc'[q] = IF q = p THEN "owner" ELSE pc[q]
  BY DEF LockShape
<1>4. OneInside'
  BY <1>2, <1>3 DEF OneInside, NobodyIn
<1>5. ASSUME NEW q \in Sweeps
      PROVE  (Held(q) /\ (Owns(q) => pc[q] \in Naming))'
  BY <1>1, <1>2, <1>3, Fresh DEF NobodyIn, Held, Owns, Inside, Naming
<1>6. ASSUME NEW q \in Sweeps
      PROVE  Judged(q)'
  BY <1>1, <1>3 DEF Judged
<1> QED BY <1>4, <1>5, <1>6 DEF Sole

(* A removal that does not stray finds nobody inside.                      *)
LEMMA FreedSole ==
    ASSUME NEW p \in Sweeps, NEW label, LockShape, Sole, Freed(p), ~strayed',
           pc[p] \in {"remove", "rmdir"}, pc' = [pc EXCEPT ![p] = label],
           label \notin Inside
    PROVE  Sole'
<1>1. lock' = Absent /\ acquainted' = {} /\ (lock = Absent \/ p \in acquainted)
  BY DEF Freed
<1>2. NobodyIn(Inside)
  <2>1. CASE lock = Absent
    BY <2>1 DEF Sole, Held, NobodyIn
  <2>2. CASE p \in acquainted
    BY <2>2 DEF Sole, Judged
  <2> QED BY <1>1, <2>1, <2>2
<1>3. \A q \in Sweeps : pc'[q] \notin Inside
  BY <1>2 DEF LockShape, NobodyIn
<1> QED BY <1>1, <1>3 DEF Sole, OneInside, Held, Judged, Owns, Inside, Naming

----------------------------------------------------------------------------
(* Types.                                                                  *)

(* Every command, a kill and the passing of time keep the shape; a pid     *)
(* stays in the owner file only while its process runs.                    *)
LEMMA NextShape ==
    ASSUME LockShape, [LockNext]_lockVars
    PROVE  LockShape'
<1>1. ASSUME NEW p \in Sweeps, SweepStep(p)
      PROVE  LockShape'
  <2>1. CASE StartSweep(p)
    BY <2>1 DEF StartSweep, GoTo, LockShape, Owns, PC, Sweeping, lockHistory
  <2>2. CASE Make(p)
    BY <2>2, Fresh DEF Make, Made, GoTo, LockShape, Owns, PC, Sweeping, lockHistory
  <2>3. CASE CheckLive(p)
    <3>1. CASE Exit(p)
      BY <2>3, <3>1, ExitShape DEF CheckLive, LockShape, lockHistory
    <3>2. CASE ~Exit(p)
      BY <2>3, <3>2 DEF CheckLive, GoTo, LockShape, Owns, PC, Sweeping, lockHistory
    <3> QED BY <3>1, <3>2
  <2>4. CASE CheckStale(p)
    <3>1. CASE Exit(p)
      BY <2>4, <3>1, ExitShape DEF CheckStale, LockShape
    <3>2. CASE ~Exit(p)
      BY <2>4, <3>2 DEF CheckStale, GoTo, LockShape, Owns, PC, Sweeping
    <3> QED BY <3>1, <3>2
  <2>5. CASE Remove(p)
    BY <2>5 DEF Remove, Freed, GoTo, LockShape, Owns, PC, Sweeping
  <2>6. CASE Remake(p)
    <3>1. CASE Exit(p)
      BY <2>6, <3>1, ExitShape DEF Remake, Made, LockShape, lockHistory
    <3>2. CASE ~Exit(p)
      BY <2>6, <3>2, Fresh DEF Remake, Made, GoTo, LockShape, Owns, PC, Sweeping
    <3> QED BY <3>1, <3>2
  <2>7. CASE WriteOwner(p)
    <3>1. CASE Exit(p)
      BY <2>7, <3>1, ExitShape DEF WriteOwner, LockShape, lockHistory
    <3>2. CASE ~Exit(p)
      BY <2>7, <3>2 DEF WriteOwner, GoTo, LockShape, Owns, PC, Sweeping, Directory, lockHistory
    <3> QED BY <3>1, <3>2
  <2>8. CASE WriteBorn(p)
    <3>1. CASE Exit(p)
      BY <2>8, <3>1, ExitShape DEF WriteBorn, LockShape, lockHistory
    <3>2. CASE ~Exit(p)
      BY <2>8, <3>2 DEF WriteBorn, GoTo, LockShape, Owns, PC, Sweeping, Directory, lockHistory
    <3> QED BY <3>1, <3>2
  <2>9. CASE EndSweep(p)
    BY <2>9 DEF EndSweep, GoTo, LockShape, Owns, PC, Sweeping, lockHistory
  <2>10. CASE Release(p)
    <3>1. CASE Exit(p)
      BY <2>10, <3>1, ExitShape DEF Release, LockShape, lockHistory
    <3>2. CASE ~Exit(p)
      BY <2>10, <3>2 DEF Release, GoTo, LockShape, Owns, PC, Sweeping, lockHistory
    <3> QED BY <3>1, <3>2
  <2>11. CASE Unlink(p)
    BY <2>11, Fresh DEF Unlink, GoTo, LockShape, Owns, PC, Sweeping, lockHistory
  <2>12. CASE Rmdir(p)
    <3>1. CASE Exit(p)
      <4>1. crashes' = crashes /\ acquainted' \subseteq Sweeps
        BY <2>12 DEF Rmdir, Freed, LockShape, lockHistory
      <4> QED BY <3>1, <4>1, ExitShape DEF LockShape
    <3>2. CASE ~Exit(p)
      BY <2>12, <3>2 DEF Rmdir, Freed, GoTo, LockShape, Owns, PC, Sweeping
    <3> QED BY <3>1, <3>2
  <2> QED
    BY <1>1, <2>1, <2>2, <2>3, <2>4, <2>5, <2>6, <2>7, <2>8, <2>9, <2>10, <2>11, <2>12 DEF SweepStep
<1>2. ASSUME NEW p \in Sweeps, Crash(p)
      PROVE  LockShape'
  <2>1. Exit(p) /\ crashes' \in 0..MaxCrashes /\ UNCHANGED acquainted
    BY <1>2 DEF Crash, LockShape, lockHistory
  <2> QED BY <2>1, ExitShape DEF LockShape
<1>3. CASE GrowOld
  BY <1>3 DEF GrowOld, LockShape, Owns, Directory, lockHistory
<1>4. CASE UNCHANGED lockVars
  BY <1>4 DEF lockVars, LockShape, Owns, lockHistory
<1> QED BY <1>1, <1>2, <1>3, <1>4 DEF LockNext

----------------------------------------------------------------------------
(* Exclusion.                                                              *)

(* Every step of a sweep keeps Sole as long as no removal strays.          *)
LEMMA StepKeepsSole ==
    ASSUME NEW p \in Sweeps, LockShape, Sole, SweepStep(p), ~strayed'
    PROVE  Sole'
<1>1. CASE StartSweep(p)
  BY <1>1, WaitingSole DEF StartSweep, GoTo, Inside, Naming, lockHistory
<1>2. CASE Make(p)
  <2>1. CASE Made(p) /\ GoTo(p, "owner")
    BY <2>1, MadeSole DEF GoTo
  <2>2. CASE ~(Made(p) /\ GoTo(p, "owner"))
    BY <1>2, <2>2, WaitingSole DEF Make, GoTo, Inside, Naming, lockHistory
  <2> QED BY <2>1, <2>2
<1>3. CASE CheckLive(p)
  <2>1. CASE Exit(p)
    BY <1>3, <2>1, ExitSole DEF CheckLive, lockHistory
  <2>2. CASE ~Exit(p) /\ pc[p] = "live"
    BY <1>3, <2>2, WaitingSole DEF CheckLive, GoTo, Inside, Naming, lockHistory
  <2>3. CASE ~Exit(p) /\ pc[p] = "recheck"
    <3>1. /\ ~OwnerLive /\ UNCHANGED <<lock, acquainted>>
          /\ pc' = [pc EXCEPT ![p] = "remove"]
      BY <1>3, <2>3 DEF CheckLive, GoTo, lockHistory
    <3>2. \A q \in Sweeps : pc'[q] = IF q = p THEN "remove" ELSE pc[q]
      BY <3>1 DEF LockShape
    <3>3. p \in acquainted => NobodyIn(Inside)
      BY <2>3, <3>1 DEF Sole, Judged, Held, NobodyIn, OwnerLive, Inside, Naming
    <3>4. OneInside'
      BY <3>2 DEF Sole, OneInside, Inside, Naming
    <3>5. ASSUME NEW q \in Sweeps
          PROVE  (Held(q) /\ (Owns(q) => pc[q] \in Naming))'
      BY <2>3, <3>1, <3>2 DEF Sole, Held, Owns, Inside, Naming
    <3>6. ASSUME NEW q \in Sweeps
          PROVE  Judged(q)'
      BY <3>1, <3>2, <3>3 DEF Sole, Judged, NobodyIn, Inside, Naming
    <3> QED BY <3>4, <3>5, <3>6 DEF Sole
  <2> QED BY <1>3, <2>1, <2>2, <2>3 DEF CheckLive
<1>4. CASE CheckStale(p)
  <2>1. CASE Exit(p) /\ UNCHANGED acquainted
    BY <2>1, ExitSole
  <2>2. CASE ~(Exit(p) /\ UNCHANGED acquainted)
    <3>1. /\ lock # Absent /\ lock.old /\ UNCHANGED lock
          /\ acquainted' = acquainted \cup {p} /\ pc[p] = "stale"
          /\ pc' = [pc EXCEPT ![p] = "recheck"]
      BY <1>4, <2>2 DEF CheckStale, IsStale, GoTo
    <3>2. \A q \in Sweeps : pc'[q] = IF q = p THEN "recheck" ELSE pc[q]
      BY <3>1 DEF LockShape
    <3>3. NobodyIn({"owner", "born"})
      BY <3>1 DEF Sole, Held, NobodyIn
    <3>4. OneInside'
      BY <3>2 DEF Sole, OneInside, Inside, Naming
    <3>5. ASSUME NEW q \in Sweeps
          PROVE  (Held(q) /\ (Owns(q) => pc[q] \in Naming))'
      BY <3>1, <3>2 DEF Sole, Held, Owns, Inside, Naming
    <3>6. ASSUME NEW q \in Sweeps
          PROVE  Judged(q)'
      BY <3>1, <3>2, <3>3 DEF Sole, Judged, NobodyIn, Inside, Naming
    <3> QED BY <3>4, <3>5, <3>6 DEF Sole
  <2> QED BY <2>1, <2>2
<1>5. CASE Remove(p)
  BY <1>5, FreedSole DEF Remove, GoTo, Inside, Naming
<1>6. CASE Remake(p)
  <2>1. CASE Made(p) /\ GoTo(p, "owner")
    BY <2>1, MadeSole DEF GoTo
  <2>2. CASE ~(Made(p) /\ GoTo(p, "owner"))
    BY <1>6, <2>2, ExitSole DEF Remake, lockHistory
  <2> QED BY <2>1, <2>2
<1>7. CASE WriteOwner(p)
  <2>1. lock # Absent /\ lock' = [lock EXCEPT !.owner = p] /\ ~lock.old
        /\ pc' = [pc EXCEPT ![p] = "born"] /\ pc[p] = "owner" /\ UNCHANGED acquainted
    BY <1>7 DEF WriteOwner, GoTo, Sole, Held, Inside, lockHistory
  <2>2. lock' # Absent /\ lock'.owner = p /\ ~lock'.old
    BY <2>1 DEF LockShape, Directory
  <2> QED BY <2>1, <2>2, InsideSole DEF Inside, Naming
<1>8. CASE WriteBorn(p)
  <2>1. lock # Absent /\ lock.owner = p /\ lock' = [lock EXCEPT !.born = TRUE]
        /\ pc' = [pc EXCEPT ![p] = "sweep"] /\ pc[p] = "born" /\ UNCHANGED acquainted
    BY <1>8 DEF WriteBorn, GoTo, Sole, Held, Inside, Naming, lockHistory
  <2>2. lock' # Absent /\ lock'.owner = p
    BY <2>1 DEF LockShape, Directory
  <2> QED BY <2>1, <2>2, InsideSole DEF Inside, Naming
<1>9. CASE EndSweep(p)
  <2>1. lock # Absent /\ lock.owner = p
    BY <1>9 DEF EndSweep, Sole, Held, Inside, Naming
  <2> QED BY <1>9, <2>1, InsideSole DEF EndSweep, GoTo, Inside, Naming, lockHistory
<1>10. CASE Release(p)
  <2>1. CASE Exit(p)
    BY <1>10, <2>1, ExitSole DEF Release, lockHistory
  <2>2. CASE ~Exit(p)
    BY <1>10, <2>2, InsideSole DEF Release, Owns, GoTo, Inside, Naming, lockHistory
  <2> QED BY <2>1, <2>2
<1>11. CASE Unlink(p)
  <2>1. lock' = NewDirectory /\ pc' = [pc EXCEPT ![p] = "rmdir"] /\ pc[p] \in Inside
    BY <1>11 DEF Unlink, GoTo, Sole, Held, Inside, Naming
  <2>2. \A q \in Sweeps : pc'[q] \notin Inside
    BY <2>1 DEF LockShape, Sole, OneInside, Inside, Naming
  <2>3. \A q \in Sweeps : ~Owns(q)'
    BY <2>1, Fresh DEF Owns
  <2> QED BY <2>2, <2>3 DEF Sole, OneInside, Held, Judged, NobodyIn, Inside, Naming
<1>12. CASE Rmdir(p)
  <2>1. CASE Exit(p) /\ UNCHANGED acquainted
    BY <2>1, ExitSole
  <2>2. CASE ~(Exit(p) /\ UNCHANGED acquainted)
    BY <1>12, <2>2, FreedSole DEF Rmdir, GoTo, Inside, Naming, lockHistory
  <2> QED BY <2>1, <2>2
<1> QED
  BY <1>1, <1>2, <1>3, <1>4, <1>5, <1>6, <1>7, <1>8, <1>9, <1>10, <1>11, <1>12 DEF SweepStep

(* So do a kill, time and a step that changes nothing.                     *)
LEMMA NextKeepsSole ==
    ASSUME LockShape, Sole, [LockNext]_lockVars, ~strayed'
    PROVE  Sole'
<1>1. ASSUME NEW p \in Sweeps, Crash(p)
      PROVE  Sole'
  BY <1>1, ExitSole DEF Crash, lockHistory
<1>2. CASE GrowOld
  <2>1. /\ lock # Absent /\ lock' = [lock EXCEPT !.old = TRUE] /\ UNCHANGED <<pc, acquainted>>
        /\ \A p \in Sweeps : pc[p] \notin {"owner", "born"}
    BY <1>2 DEF GrowOld, lockHistory
  <2>2. lock' # Absent /\ lock'.owner = lock.owner
    BY <2>1 DEF LockShape, Directory
  <2> QED BY <2>1, <2>2 DEF Sole, OneInside, Held, Judged, NobodyIn, Owns
<1>3. CASE UNCHANGED lockVars
  BY <1>3 DEF lockVars, Sole, OneInside, Held, Judged, NobodyIn, Owns, lockHistory
<1> QED BY <1>1, <1>2, <1>3, StepKeepsSole DEF LockNext

(* No step takes the history bit back.                                     *)
LEMMA NextRemembers ==
    ASSUME [LockNext]_lockVars, strayed \in BOOLEAN
    PROVE  strayed' \in BOOLEAN /\ (strayed => strayed')
<1>1. ASSUME NEW p \in Sweeps, SweepStep(p)
      PROVE  UNCHANGED strayed \/ strayed' = (strayed \/ (lock # Absent /\ p \notin acquainted))
  BY <1>1, Zenon DEF SweepStep, StartSweep, Make, CheckLive, CheckStale, Remove, Remake, WriteOwner,
    WriteBorn, EndSweep, Release, Unlink, Rmdir, Made, Freed, lockHistory
<1>2. UNCHANGED strayed \/ \E p \in Sweeps :
        strayed' = (strayed \/ (lock # Absent /\ p \notin acquainted))
  BY <1>1, Zenon DEF LockNext, Crash, GrowOld, lockVars, lockHistory
<1>3. CASE strayed' = strayed
  BY <1>3, Zenon
<1>4. ASSUME NEW p \in Sweeps, strayed' = (strayed \/ (lock # Absent /\ p \notin acquainted))
      PROVE  strayed' \in BOOLEAN /\ (strayed => strayed')
  BY <1>4
<1> QED BY <1>2, <1>3, <1>4, Zenon

----------------------------------------------------------------------------
(* The inductive invariant: types, and while no removal strayed one sweep  *)
(* at most inside, whose directory stands.                                 *)
THEOREM LockInvariant == LockSpec => []LockInv
<1>1. LockInit => LockInv
  <2> SUFFICES ASSUME LockInit PROVE LockInv
    OBVIOUS
  <2>1. LockShape
    BY DEF LockInit, LockShape, Owns, PC
  <2>2. Sole
    BY DEF LockInit, Sole, OneInside, Held, Judged, Owns, Inside, Naming
  <2>3. strayed \in BOOLEAN
    BY Zenon DEF LockInit
  <2> QED BY <2>1, <2>2, <2>3, Zenon DEF LockInv, LockTypeOK, LockShape
<1>2. LockInv /\ [LockNext]_lockVars => LockInv'
  <2> SUFFICES ASSUME LockInv, [LockNext]_lockVars PROVE LockInv'
    OBVIOUS
  <2>1. LockShape /\ strayed \in BOOLEAN /\ (~strayed => Sole)
    BY Zenon DEF LockInv, LockTypeOK, LockShape
  <2>2. LockShape'
    BY <2>1, NextShape, Zenon
  <2>3. strayed' \in BOOLEAN /\ (strayed => strayed')
    BY <2>1, NextRemembers, Zenon
  <2>4. ~strayed' => Sole'
    BY <2>1, <2>3, NextKeepsSole, Zenon
  <2> QED BY <2>2, <2>3, <2>4, Zenon DEF LockInv, LockTypeOK, LockShape
<1> QED BY <1>1, <1>2, PTL DEF LockSpec

(* Every reachable state is well typed, and a pid in the owner file is     *)
(* never that of a process that has ended: what sweep_lock_owner_live      *)
(* finds alive is alive.                                                   *)
THEOREM LockTypeCorrect == LockSpec => []LockTypeOK
<1>1. LockInv => LockTypeOK
  BY Zenon DEF LockInv
<1> QED BY <1>1, LockInvariant, PTL

(* Two sweeps are at work together only after a removal hit a directory    *)
(* that its sweep had neither found stale nor made, however many sweeps    *)
(* there are, wherever they are killed and however long they take.         *)
THEOREM OneSweepUnlessStrayed == LockSpec => []SingleUnlessStrayed
<1>1. Sole => SingleInstance
  BY DEF Sole, OneInside, SingleInstance, Inside, Naming, Sweeping
<1>2. LockInv => SingleUnlessStrayed
  BY <1>1, Zenon DEF LockInv, SingleUnlessStrayed
<1> QED BY <1>2, LockInvariant, PTL
=============================================================================
