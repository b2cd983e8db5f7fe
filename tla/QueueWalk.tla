----------------------------- MODULE QueueWalk -----------------------------
(***************************************************************************)
(* Walking the queue.  process.sh list, digest.sh and the draining loop    *)
(* docs/api.md describes follow next_before_id from page to page, one      *)
(* request each, while others file rows, mark and unmark them and purge    *)
(* processed ones.  A page is two statements of one read transaction: the  *)
(* count, which takes the snapshot, and the rows, one more than the page   *)
(* to tell whether there are older ones.                                   *)
(*                                                                         *)
(* Family, type, machine, model and time of a row never change: the rows   *)
(* kept here are those the other filters of the queue select, and the rest *)
(* only take ids.                                                          *)
(***************************************************************************)
EXTENDS Integers, FiniteSets

CONSTANTS
    Walkers,      \* processes that walk the queue, each one pass after another
    Queries,      \* what a pass may ask for
    MaxLimit,     \* maxListLimit, the most rows of a page
    MaxWithPayload, \* maxListLimitWithPayload
    MaxId,        \* bound: rows ever filed
    MaxFailures   \* bound: requests that fail

Query == [open : BOOLEAN, payload : BOOLEAN,
          size : Nat \ {0}, cap : Nat, firstTotal : BOOLEAN, marks : BOOLEAN]

ASSUME QueriesAssumption == Queries # {} /\ Queries \subseteq Query
ASSUME LimitsAssumption == MaxLimit \in Nat \ {0} /\ MaxWithPayload \in Nat \ {0}
ASSUME BoundsAssumption == MaxId \in Nat /\ MaxFailures \in Nat

VARIABLES
    rows,     \* id -> whether the row is processed
    seq,      \* the highest id assigned
    walk,     \* per walker: its pass
    failures  \* requests that failed so far

vars == <<rows, seq, walk, failures>>

NoCursor == 0  \* ids start at 1
Malformed == -1
NoPage == [ids |-> {}, total |-> 0, more |-> FALSE, next |-> NoCursor]

Walking == {"ask", "counted", "answered", "mark"}
Stage == {"idle"} \cup Walking \cup {"done", "failed", "malformed"}

Idle(q) ==
    [stage |-> "idle", query |-> q, before |-> NoCursor, snapshot |-> {}, page |-> NoPage,
     fetched |-> {}, total |-> 0, due |-> {}, quiet |-> TRUE]

NoPass == Idle(CHOOSE q \in Queries : TRUE)

Page == [ids : SUBSET (1..MaxId), total : Nat, more : BOOLEAN, next : Nat]
Walk == [stage : Stage, query : Queries, before : Nat, snapshot : SUBSET (1..MaxId),
         page : Page, fetched : SUBSET (1..MaxId), total : Nat,
         due : SUBSET (1..MaxId), quiet : BOOLEAN]

TypeOK ==
    /\ DOMAIN rows \subseteq 1..seq
    /\ \A i \in DOMAIN rows : rows[i] \in BOOLEAN
    /\ seq \in 0..MaxId
    /\ walk \in [Walkers -> Walk]
    /\ \A w \in Walkers : walk[w].stage = "ask" =>
         /\ walk[w].before # NoCursor <=> walk[w].fetched # {}
         /\ \A i \in walk[w].fetched : walk[w].before <= i
    /\ failures \in 0..MaxFailures

Init ==
    /\ rows = <<>>
    /\ seq = 0
    /\ walk = [w \in Walkers |-> NoPass]
    /\ failures = 0

----------------------------------------------------------------------------
(* The filter of a query, before_id left out.                              *)
Matching(table, q) ==
    {i \in DOMAIN table : q.open => ~table[i]}

(* ORDER BY id DESC LIMIT n.                                               *)
Newest(S, n) == {i \in S : Cardinality({j \in S : j > i}) < n}

Lesser(a, b) == IF a < b THEN a ELSE b
Lowest(S) == CHOOSE i \in S : \A j \in S : i <= j

(* NormalizeListWindow: the ceiling is lower when payloads come along.     *)
Clamped(q, asked) == Lesser(asked, IF q.payload THEN MaxWithPayload ELSE MaxLimit)

(* What the client asks for: a page, or what is left of --limit.           *)
\* Mutant: the last page is not cut to what is left.
AskedUncut(s) == s.query.size

Asked(s) ==
    IF s.query.cap = 0 THEN s.query.size
    ELSE Lesser(s.query.size, s.query.cap - Cardinality(s.fetched))

(* A page: one row beyond it tells whether there are more.                 *)
\* Mutant: the extra row is taken out of the page instead of asked for.
PageOfOneLess(matching, total, before, limit) ==
    LET older == {i \in matching : before = NoCursor \/ i < before}
        got == Newest(older, limit)
        more == Cardinality(got) = limit
        ids == Newest(got, IF more THEN limit - 1 ELSE limit)
    IN [ids |-> ids, total |-> total, more |-> more,
        next |-> IF more /\ ids # {} THEN Lowest(ids) ELSE NoCursor]

PageOf(matching, total, before, limit) ==
    LET older == {i \in matching : before = NoCursor \/ i < before}
        got == Newest(older, limit + 1)
        more == Cardinality(got) > limit
        ids == Newest(got, limit)
    IN [ids |-> ids, total |-> total, more |-> more,
        next |-> IF more /\ ids # {} THEN Lowest(ids) ELSE NoCursor]

(* af_pagination_next: the next cursor, none, or a page not to be trusted. *)
PaginationNext(page, cur) ==
    CASE ~page.more -> NoCursor
      [] page.more /\ (page.next = NoCursor \/ page.ids = {}) -> Malformed
      [] page.more /\ cur # NoCursor /\ page.next >= cur -> Malformed
      [] OTHER -> page.next

----------------------------------------------------------------------------
(* A pass of one walker.                                                   *)

Failed == [NoPass EXCEPT !.stage = "failed"]

Become(w, s) == walk' = [walk EXCEPT ![w] = s]

Start(w, q) ==
    /\ walk[w].stage \notin Walking
    /\ Become(w, [Idle(q) EXCEPT !.stage = "ask", !.due = Matching(rows, q)])
    /\ UNCHANGED <<rows, seq, failures>>

\* Mutant: the count keeps the cursor in its filter.
CountOlder(w) ==
    /\ walk[w].stage = "ask"
    /\ LET matching == Matching(rows, walk[w].query) IN
         Become(w, [walk[w] EXCEPT !.stage = "counted", !.snapshot = matching,
                      !.page.total = Cardinality(
                        {i \in matching : walk[w].before = NoCursor \/ i < walk[w].before})])
    /\ UNCHANGED <<rows, seq, failures>>

(* CountSubmissions: the first statement of the transaction.               *)
Count(w) ==
    /\ walk[w].stage = "ask"
    /\ LET matching == Matching(rows, walk[w].query) IN
         Become(w, [walk[w] EXCEPT !.stage = "counted", !.snapshot = matching,
                                   !.page.total = Cardinality(matching)])
    /\ UNCHANGED <<rows, seq, failures>>

\* Mutant: count and rows are read in transactions of their own.
SelectLive(w) ==
    /\ walk[w].stage = "counted"
    /\ LET s == walk[w] IN
         Become(w, [s EXCEPT !.stage = "answered", !.snapshot = {},
                      !.page = PageOf(Matching(rows, s.query), @.total, s.before,
                                      Clamped(s.query, Asked(s)))])
    /\ UNCHANGED <<rows, seq, failures>>

\* Mutant: pages by offset.
SelectByOffset(w) ==
    /\ walk[w].stage = "counted"
    /\ LET s == walk[w]
           rest == s.snapshot \ Newest(s.snapshot, Cardinality(s.fetched)) IN
         Become(w, [s EXCEPT !.stage = "answered", !.snapshot = {},
                      !.page = PageOf(rest, @.total, NoCursor, Clamped(s.query, Asked(s)))])
    /\ UNCHANGED <<rows, seq, failures>>

(* ListSubmissions in the same transaction, and the answer on its way.     *)
Select(w) ==
    /\ walk[w].stage = "counted"
    /\ LET s == walk[w] IN
         Become(w, [s EXCEPT !.stage = "answered", !.snapshot = {},
                      !.page = PageOf(s.snapshot, @.total, s.before,
                                      Clamped(s.query, Asked(s)))])
    /\ UNCHANGED <<rows, seq, failures>>

(* Where a pass goes with the rows it has and the next cursor.             *)
\* Mutant: the cursor is not passed on to the next request.
OnwardsWithoutCursor(s, next) ==
    CASE next = Malformed -> [s EXCEPT !.stage = "malformed"]
      [] next = NoCursor -> [s EXCEPT !.stage = "done", !.page = NoPage]
      [] OTHER -> [s EXCEPT !.stage = "ask", !.page = NoPage]

\* Mutant: before_id taken for inclusive.
OnwardsInclusive(s, next) ==
    CASE next = Malformed -> [s EXCEPT !.stage = "malformed"]
      [] next = NoCursor -> [s EXCEPT !.stage = "done", !.page = NoPage]
      [] OTHER -> [s EXCEPT !.stage = "ask", !.before = next + 1, !.page = NoPage]

Onwards(s, next) ==
    CASE next = Malformed -> [s EXCEPT !.stage = "malformed"]
      [] next = NoCursor -> [s EXCEPT !.stage = "done", !.page = NoPage]
      [] next > 0 /\ s.query.cap > 0 /\ Cardinality(s.fetched) >= s.query.cap ->
           [s EXCEPT !.stage = "done", !.before = next, !.page = NoPage]
      [] OTHER -> [s EXCEPT !.stage = "ask", !.before = next, !.page = NoPage]

WithRows(s) ==
    [s EXCEPT !.fetched = @ \cup s.page.ids,
              !.due = @ \ s.page.ids,
              !.total = IF s.query.firstTotal /\ s.before # NoCursor THEN @ ELSE s.page.total]

(* The client takes the page; one that drains marks it before it goes on.  *)
Follow(w) ==
    /\ walk[w].stage = "answered"
    /\ LET s == walk[w] IN
         Become(w, IF s.query.marks /\ s.page.ids # {}
                     THEN [WithRows(s) EXCEPT !.stage = "mark"]
                     ELSE Onwards(WithRows(s), PaginationNext(s.page, s.before)))
    /\ UNCHANGED <<rows, seq, failures>>

(* How a pass in progress sees the table change: what it is still due, and *)
(* whether what it asks for stayed the same.  One that ended is over.       *)
Seeing(s, table) ==
    IF s.stage \notin Walking THEN NoPass
    ELSE [s EXCEPT !.due = @ \cap Matching(table, s.query),
                   !.quiet = @ /\ Matching(table, s.query) = Matching(rows, s.query)]

TableBecomes(table) ==
    /\ rows' = table
    /\ walk' = [w \in Walkers |-> Seeing(walk[w], table)]

Marked(table, ids, mark) ==
    [i \in DOMAIN table |-> IF i \in ids THEN mark ELSE table[i]]

(* process.sh done with the ids of the page.  When its answer is lost the  *)
(* command reports an error, and the rows are marked all the same.         *)
(* The spool it flushes first files rows as anybody does (File).           *)
MarkPage(w) ==
    /\ walk[w].stage = "mark"
    /\ LET s == walk[w]
           table == Marked(rows, s.page.ids, TRUE)
           ahead == Onwards(Seeing(s, table), PaginationNext(s.page, s.before))
           Ends(mine) == walk' = [v \in Walkers |->
                                    IF v = w THEN mine ELSE Seeing(walk[v], table)] IN
         /\ rows' = table
         /\ \/ Ends(ahead) /\ UNCHANGED failures
            \/ /\ failures < MaxFailures
               /\ failures' = failures + 1
               /\ Ends(Failed)
    /\ UNCHANGED seq

(* A request without a 200: the command ends with an error.                *)
Fail(w) ==
    /\ walk[w].stage \in Walking
    /\ failures < MaxFailures
    /\ failures' = failures + 1
    /\ Become(w, Failed)
    /\ UNCHANGED <<rows, seq>>

----------------------------------------------------------------------------
(* The others.                                                             *)

File ==
    /\ seq < MaxId
    /\ seq' = seq + 1
    /\ TableBecomes([i \in DOMAIN rows \cup {seq + 1} |-> IF i > seq THEN FALSE ELSE rows[i]])
    /\ UNCHANGED failures

FileElsewhere ==
    /\ seq < MaxId
    /\ seq' = seq + 1
    /\ UNCHANGED <<rows, walk, failures>>

SetProcessed(i, mark) ==
    /\ i \in DOMAIN rows
    /\ rows[i] # mark
    /\ TableBecomes(Marked(rows, {i}, mark))
    /\ UNCHANGED <<seq, failures>>

(* The retention purge: processed rows, the longest processed ones.        *)
Purge ==
    /\ \E gone \in SUBSET {i \in DOMAIN rows : rows[i]} :
         /\ gone # {}
         /\ TableBecomes([i \in DOMAIN rows \ gone |-> rows[i]])
    /\ UNCHANGED <<seq, failures>>

----------------------------------------------------------------------------
Step(w) == Count(w) \/ Select(w) \/ Follow(w) \/ MarkPage(w)

Next ==
    \/ \E w \in Walkers : Step(w) \/ Fail(w) \/ \E q \in Queries : Start(w, q)
    \/ File \/ FileElsewhere
    \/ \E i \in 1..MaxId, mark \in BOOLEAN : SetProcessed(i, mark)
    \/ Purge

Spec == Init /\ [][Next]_vars

(* A script runs on, the service answers, and somebody comes back to drain *)
(* the queue: the triage skill is run again and again.                     *)
FairSpec ==
    /\ Spec
    /\ \A w \in Walkers :
         /\ WF_vars(Step(w))
         /\ \A q \in Queries : q.marks => SF_vars(Start(w, q))

----------------------------------------------------------------------------
(* A finished pass has every row that matched when it began and went on    *)
(* matching until it was fetched, marks of the pass itself included; with  *)
(* --limit it has exactly that many, the newest.  No page shows a row      *)
(* again, and no page of the server is taken for a malformed one.          *)
WalkExact ==
    \A w \in Walkers : LET s == walk[w] IN
        /\ s.stage # "malformed"
        /\ s.stage = "answered" => s.page.ids \cap s.fetched = {}
        /\ s.query.cap > 0 => Cardinality(s.fetched) <= s.query.cap
        /\ s.stage = "done" =>
             \/ s.due = {}
             \/ /\ s.query.cap > 0
                /\ Cardinality(s.fetched) = s.query.cap
                /\ \A i \in s.due : i < Lowest(s.fetched)

(* The total a page carries is of the snapshot its rows are from, and in a *)
(* queue at rest it is the number of rows the whole pass fetches.          *)
TotalTruthful ==
    \A w \in Walkers : LET s == walk[w] IN
        /\ s.stage = "answered" =>
             /\ s.page.total >= Cardinality(s.page.ids) + (IF s.page.more THEN 1 ELSE 0)
             /\ s.before = NoCursor /\ ~s.page.more => s.page.total = Cardinality(s.page.ids)
        /\ s.stage = "done" /\ s.quiet /\ s.query.cap = 0 =>
             s.total = Cardinality(s.fetched)

(* A pass ends, however many rows are filed and reopened meanwhile.        *)
WalkEnds ==
    \A w \in Walkers : []<>(walk[w].stage \notin Walking)

(* No row stays open for good in a queue that is drained: not the oldest,  *)
(* which every pass comes to last, nor one behind rows that are reopened.  *)
EveryRowDrains ==
    \A q \in Queries, i \in 1..MaxId : q.marks => []<>(i \notin Matching(rows, q))
============================================================================
