-------------------------- MODULE QueueWalkProofs --------------------------
(***************************************************************************)
(* Proofs about QueueWalk, for any walkers, queries, page limits and rows: *)
(* the types, that a pass gets what it is due, and that totals are true.   *)
(*                                                                         *)
(* What others do to the table only matters to a pass through the rows     *)
(* its query matches now, M.  Good(s, M) says what a pass in state s has   *)
(* got and what it still will: the cursor divides what it is due from what *)
(* it fetched, at every stage of a request, and with a page in hand the    *)
(* page's next cursor does.  It is proved of one pass at a time, first for *)
(* its own steps with M fixed, then for M changing under it.               *)
(***************************************************************************)
EXTENDS QueueWalk, FiniteSetTheorems, WellFoundedInduction, TLAPS

----------------------------------------------------------------------------
(* Finite sets of ids.                                                     *)

(* A set of numbers has a lowest one.                                      *)
LEMMA LowestIsLeast ==
    ASSUME NEW S \in SUBSET Nat, S # {}
    PROVE  Lowest(S) \in S /\ \A j \in S : Lowest(S) <= j
<1> DEFINE R == OpToRel(<, Nat)
<1>1. IsWellFoundedOn(R, Nat)
  BY NatLessThanWellFounded, Zenon
<1>2. \E i \in S : \A j \in S : ~(<<j, i>> \in R)
  <2> HIDE DEF R
  <2> QED BY <1>1, WFMin
<1>3. PICK i \in S : \A j \in S : ~(<<j, i>> \in R)
  BY <1>2, Zenon
<1>4. ASSUME NEW j \in S PROVE i <= j
  <2>1. R = {ss \in Nat \X Nat : ss[1] < ss[2]}
    BY Zenon DEF OpToRel
  <2>2. i \in Nat /\ j \in Nat /\ ~(<<j, i>> \in R)
    BY <1>3, Zenon
  <2> HIDE DEF R
  <2> QED BY <2>1, <2>2
<1>5. \E k \in S : \A j \in S : k <= j
  BY <1>4
<1> QED BY <1>5, Zenon DEF Lowest

(* Ids are numbers, and a set of them is finite.                           *)
LEMMA IdsAreNumbers ==
    ASSUME NEW N \in Nat, NEW S \in SUBSET (1..N)
    PROVE  S \in SUBSET Nat /\ \A i \in S : i \in Nat /\ i \in 1..N /\ 1 <= i /\ i <= N
<1>1. \A i \in S : i \in 1..N
  OBVIOUS
<1>2. \A i \in 1..N : i \in Nat /\ 1 <= i /\ i <= N
  OBVIOUS
<1> QED BY <1>1, <1>2, Zenon

(* Sets of ids are finite and have a size.                                 *)
LEMMA IdsFinite ==
    ASSUME NEW N \in Nat, NEW S \in SUBSET (1..N)
    PROVE  IsFiniteSet(S) /\ Cardinality(S) \in Nat
<1>1. IsFiniteSet(1..N)
  BY FS_Interval
<1>2. IsFiniteSet(S)
  BY <1>1, FS_Subset, Zenon
<1> QED BY <1>2, FS_CardinalityType, Zenon

(* A set of ids has a highest one.                                         *)
LEMMA HasHighest ==
    ASSUME NEW N \in Nat, NEW S \in SUBSET (1..N), S # {}
    PROVE  \E i \in S : \A j \in S : j <= i
<1> DEFINE T == {n \in Nat : N - n \in S}
<1>1. T \in SUBSET Nat /\ T # {}
  <2>1. PICK i \in S : TRUE
    OBVIOUS
  <2>2. N - i \in Nat /\ N - (N - i) = i
    OBVIOUS
  <2> QED BY <2>1, <2>2
<1>2. PICK n \in T : \A m \in T : n <= m
  <2> HIDE DEF T
  <2> QED BY <1>1, LowestIsLeast
<1>3. ASSUME NEW j \in S PROVE j <= N - n
  <2>1. N - j \in T
    <3>1. N - j \in Nat /\ N - (N - j) = j
      OBVIOUS
    <3> QED BY <3>1
  <2> QED BY <1>2, <2>1
<1> QED BY <1>2, <1>3

(* The newest n rows of a table are at most n ...                          *)
LEMMA NewestAtMost ==
    ASSUME NEW N \in Nat, NEW S \in SUBSET (1..N), NEW n \in Nat
    PROVE  /\ Newest(S, n) \subseteq S
           /\ Cardinality(Newest(S, n)) \in Nat
           /\ Cardinality(Newest(S, n)) <= n
<1> DEFINE T == Newest(S, n)
<1>1. T \subseteq S
  BY DEF Newest
<1>2. /\ T \in SUBSET (1..N) /\ T \in SUBSET Nat
      /\ \A j \in S : j \in Nat
  BY <1>1, IdsAreNumbers, Zenon
<1>3. IsFiniteSet(T) /\ Cardinality(T) \in Nat
  BY <1>2, IdsFinite
<1>4. CASE T = {}
  BY <1>1, <1>4, FS_EmptySet
<1>5. CASE T # {}
  <2> DEFINE i == Lowest(T)
             above == {j \in S : j > i}
  <2>1. i \in T /\ \A j \in T : i <= j
    BY <1>2, <1>5, LowestIsLeast
  <2>2. Cardinality(above) < n
    BY <2>1 DEF Newest
  <2>3. T \ {i} \in SUBSET above
    <3>1. ASSUME NEW j \in T \ {i} PROVE j \in S /\ j > i
      <4>1. j \in Nat /\ i \in Nat /\ i <= j /\ i # j
        BY <1>1, <1>2, <2>1, Zenon
      <4> QED BY <1>1, <4>1
    <3> HIDE DEF T, i
    <3> QED BY <3>1
  <2>4. above \in SUBSET (1..N)
    OBVIOUS
  <2> HIDE DEF above
  <2>5. IsFiniteSet(above) /\ Cardinality(above) \in Nat
    BY <2>4, IdsFinite
  <2>6. Cardinality(T \ {i}) <= Cardinality(above)
    BY <2>3, <2>5, FS_Subset
  <2>7. Cardinality(T \ {i}) = Cardinality(T) - 1
    BY <1>3, <2>1, FS_RemoveElement
  <2> HIDE DEF i
  <2> QED BY <1>1, <1>3, <2>2, <2>5, <2>6, <2>7
<1> QED BY <1>4, <1>5

(* ... and newer than all the others.                                      *)
LEMMA NewestAreNewer ==
    ASSUME NEW N \in Nat, NEW S \in SUBSET (1..N), NEW n \in Nat,
           NEW i \in S \ Newest(S, n), NEW k \in Newest(S, n)
    PROVE  i < k
<1> SUFFICES ASSUME k <= i PROVE FALSE
  <2>1. i \in Int /\ k \in Int
    BY DEF Newest
  <2> QED BY <2>1
<1> DEFINE above(m) == {j \in S : j > m}
<1>1. k \in S /\ Cardinality(above(k)) < n /\ ~(Cardinality(above(i)) < n)
  BY DEF Newest
<1>2. above(i) \in SUBSET above(k)
  <2>1. i \in Nat /\ k \in Nat /\ \A j \in S : j \in Nat
    BY <1>1, IdsAreNumbers
  <2>2. \A j \in S : j > i => j > k
    BY <2>1
  <2> QED BY <2>2
<1>3. above(k) \in SUBSET (1..N) /\ above(i) \in SUBSET (1..N)
  OBVIOUS
<1> HIDE DEF above
<1>4. IsFiniteSet(above(k)) /\ Cardinality(above(k)) \in Nat /\ Cardinality(above(i)) \in Nat
  BY <1>3, IdsFinite
<1>5. Cardinality(above(i)) <= Cardinality(above(k))
  BY <1>2, <1>4, FS_Subset
<1> QED BY <1>1, <1>4, <1>5

(* Of a table with rows, the newest row is among them ...                  *)
LEMMA NewestNotEmpty ==
    ASSUME NEW N \in Nat, NEW S \in SUBSET (1..N), NEW n \in Nat \ {0}, S # {}
    PROVE  Newest(S, n) # {}
<1>1. PICK i \in S : \A j \in S : j <= i
  BY HasHighest
<1>2. {j \in S : j > i} = {}
  <2>1. \A j \in S : j \in Nat
    BY IdsAreNumbers
  <2>2. \A j \in S : ~(j > i)
    BY <1>1, <2>1
  <2> QED BY <2>2
<1>3. Cardinality({j \in S : j > i}) < n
  BY <1>2, FS_EmptySet
<1> QED BY <1>3 DEF Newest

(* ... and when they are fewer than were asked for, they are all.          *)
LEMMA NewestAll ==
    ASSUME NEW N \in Nat, NEW S \in SUBSET (1..N), NEW n \in Nat,
           Cardinality(Newest(S, n + 1)) <= n
    PROVE  Newest(S, n + 1) = S
<1> DEFINE T == Newest(S, n + 1)
<1>1. T \subseteq S /\ IsFiniteSet(T) /\ Cardinality(T) \in Nat
  BY IdsFinite DEF Newest
<1> SUFFICES ASSUME S \ T # {} PROVE FALSE
  BY <1>1
<1>2. PICK i \in S \ T : \A j \in S \ T : j <= i
  <2>1. S \ T \in SUBSET (1..N)
    OBVIOUS
  <2> HIDE DEF T
  <2> QED BY <2>1, HasHighest
<1> DEFINE above == {j \in S : j > i}
<1>3. above \in SUBSET T
  <2>1. \A j \in S : j \in Nat
    BY IdsAreNumbers
  <2>2. \A j \in S : j > i => j \in T
    BY <1>2, <2>1
  <2> QED BY <2>2
<1>4. ~(Cardinality(above) < n + 1)
  BY <1>2 DEF Newest
<1> HIDE DEF above
<1>5. IsFiniteSet(above) /\ Cardinality(above) \in Nat /\ Cardinality(above) <= Cardinality(T)
  BY <1>1, <1>3, FS_Subset, FS_CardinalityType
<1> HIDE DEF T
<1>6. Cardinality(T) <= n
  BY DEF T
<1> QED BY <1>1, <1>4, <1>5, <1>6

----------------------------------------------------------------------------
(* One pass.                                                               *)

Reading == {"ask", "counted", "answered"}

(* The cursor divides the rows that are due from those fetched; while what *)
(* the query matches rests, all that matches.                              *)
Divided(s, M) ==
    /\ s.before # NoCursor <=> s.fetched # {}
    /\ \A i \in s.fetched : s.before <= i
    /\ \A i \in s.due : s.before = NoCursor \/ i < s.before
    /\ s.query.cap > 0 => Cardinality(s.fetched) < s.query.cap
    /\ s.quiet => s.fetched = {i \in M : s.before # NoCursor /\ s.before <= i}
    /\ s.quiet /\ s.before # NoCursor => s.total = Cardinality(M)

(* The snapshot of the request has all that is due still.                  *)
Counted(s, M) ==
    /\ s.due \subseteq s.snapshot
    /\ s.page.total = Cardinality(s.snapshot)
    /\ s.quiet => s.snapshot = M

(* The page on its way has what is due down to its next cursor.            *)
Answered(s, M) ==
    /\ \A i \in s.page.ids : s.before = NoCursor \/ i < s.before
    /\ s.query.cap > 0 => Cardinality(s.fetched) + Cardinality(s.page.ids) <= s.query.cap
    /\ s.page.more => s.page.ids # {} /\ s.page.next = Lowest(s.page.ids)
    /\ \A i \in s.due \ s.page.ids : s.page.more /\ i < s.page.next
    /\ s.page.total >= Cardinality(s.page.ids) + (IF s.page.more THEN 1 ELSE 0)
    /\ s.before = NoCursor /\ ~s.page.more => s.page.total = Cardinality(s.page.ids)
    /\ s.quiet => s.page.total = Cardinality(M)
    /\ s.quiet => s.page.ids = {i \in M : /\ s.before = NoCursor \/ i < s.before
                                          /\ s.page.more => s.page.next <= i}

(* With the rows of the page taken, its next cursor divides.               *)
Taken(s, M) ==
    /\ s.page.more =>
         /\ s.page.ids # {} /\ s.page.next # NoCursor
         /\ s.before = NoCursor \/ s.page.next < s.before
         /\ s.fetched # {} /\ s.page.next = Lowest(s.fetched)
    /\ \A i \in s.due : s.page.more /\ i < s.page.next
    /\ s.query.cap > 0 => Cardinality(s.fetched) <= s.query.cap
    /\ s.quiet => s.total = Cardinality(M)
    /\ s.quiet => s.fetched = {i \in M : s.page.more => s.page.next <= i}

Ended(s) ==
    /\ \/ s.due = {}
       \/ /\ s.query.cap > 0
          /\ Cardinality(s.fetched) = s.query.cap
          /\ \A i \in s.due : i < Lowest(s.fetched)
    /\ s.quiet /\ s.query.cap = 0 => s.total = Cardinality(s.fetched)

Good(s, M) ==
    /\ s \in Walk
    /\ s.stage # "malformed"
    /\ s.stage \in {"idle", "failed"} => s.fetched = {}
    /\ s.query.cap > 0 => Cardinality(s.fetched) <= s.query.cap
    /\ s.stage \in Walking => s.due \subseteq M
    /\ s.stage \in Reading => Divided(s, M)
    /\ s.stage = "counted" => Counted(s, M)
    /\ s.stage = "answered" => Answered(s, M)
    /\ s.stage = "mark" => Taken(s, M)
    /\ s.stage = "done" => Ended(s)

Table ==
    /\ DOMAIN rows \subseteq 1..seq
    /\ \A i \in DOMAIN rows : rows[i] \in BOOLEAN
    /\ seq \in 0..MaxId
    /\ failures \in 0..MaxFailures

IInv ==
    /\ Table
    /\ walk \in [Walkers -> Walk]
    /\ \A w \in Walkers : Good(walk[w], Matching(rows, walk[w].query))

----------------------------------------------------------------------------
(* A page.                                                                 *)

Older(matching, before) == {i \in matching : before = NoCursor \/ i < before}

(* The page is the newest of the rows below the cursor, at most limit of   *)
(* them; and there are more just if that was not all.                      *)
TruePage(page, matching, total, before, limit) ==
    /\ page \in Page /\ page.total = total
    /\ page.ids \subseteq Older(matching, before)
    /\ Cardinality(page.ids) \in Nat /\ Cardinality(page.ids) <= limit
    /\ page.more => /\ page.ids # {} /\ page.next = Lowest(page.ids)
                    /\ page.next \in page.ids
                    /\ \A i \in page.ids : page.next <= i
                    /\ Cardinality(matching) > Cardinality(page.ids)
    /\ ~page.more => page.ids = Older(matching, before)
    /\ \A i \in Older(matching, before) \ page.ids : page.more /\ i < page.next

(* PageOf makes such a page, whatever matches and wherever the cursor is.  *)
LEMMA PageIsTrue ==
    ASSUME NEW matching \in SUBSET (1..MaxId), NEW total \in Nat, NEW before \in Nat,
           NEW limit \in Nat \ {0}
    PROVE  TruePage(PageOf(matching, total, before, limit), matching, total, before, limit)
<1> DEFINE page == PageOf(matching, total, before, limit)
<1> USE BoundsAssumption
<1> DEFINE older == Older(matching, before)
           got == Newest(older, limit + 1)
           more == Cardinality(got) > limit
           ids == Newest(got, limit)
           next == IF more /\ ids # {} THEN Lowest(ids) ELSE NoCursor
<1>1. page = [ids |-> ids, total |-> total, more |-> more, next |-> next]
  BY Zenon DEF PageOf, Older
<1>2. page.ids = ids /\ page.total = total /\ page.more = more /\ page.next = next
  <2> HIDE DEF ids, more, next
  <2> QED BY <1>1
<1>3. older \in SUBSET (1..MaxId) /\ older \subseteq matching
  BY DEF Older
<1>4. limit + 1 \in Nat /\ limit \in Nat
  OBVIOUS
<1>5. got \subseteq older /\ Cardinality(got) \in Nat
  <2> HIDE DEF older
  <2> QED BY <1>3, <1>4, NewestAtMost
<1>6. got \in SUBSET (1..MaxId)
  BY <1>3, <1>5, Zenon
<1>7. ids \subseteq got /\ Cardinality(ids) \in Nat /\ Cardinality(ids) <= limit
  <2> HIDE DEF got
  <2> QED BY <1>4, <1>6, NewestAtMost
<1>8. ids \in SUBSET (1..MaxId)
  BY <1>6, <1>7, Zenon
<1>9. ids \in SUBSET Nat /\ \A i \in ids : i \in Nat /\ i # NoCursor
  <2>1. ids \in SUBSET Nat /\ \A i \in ids : i \in Nat /\ 1 <= i
    <3> HIDE DEF ids
    <3> QED BY <1>8, IdsAreNumbers
  <2> HIDE DEF ids
  <2> QED BY <2>1 DEF NoCursor
<1>10. ASSUME more
       PROVE  /\ ids # {} /\ next = Lowest(ids) /\ next \in ids
              /\ \A i \in ids : next <= i
              /\ \A i \in older \ ids : i < next
              /\ Cardinality(matching) > Cardinality(ids)
  <2>1. got # {}
    <3> HIDE DEF got
    <3> QED BY <1>4, <1>10, FS_EmptySet
  <2>2. ids # {}
    <3> HIDE DEF got
    <3> QED BY <1>6, <2>1, NewestNotEmpty
  <2>3. next = Lowest(ids)
    BY <1>10, <2>2, Zenon
  <2>4. next \in ids /\ \A i \in ids : next <= i
    <3> HIDE DEF ids, next
    <3> QED BY <1>9, <2>2, <2>3, LowestIsLeast
  <2>5. ASSUME NEW i \in older \ ids
        PROVE  i < next
    <3>1. CASE i \in got
      <4> HIDE DEF got, next
      <4> QED BY <1>4, <1>6, <2>4, <3>1, NewestAreNewer
    <3>2. CASE i \notin got
      <4>1. i \in older \ got /\ next \in got
        BY <1>7, <2>4, <3>2, Zenon
      <4> HIDE DEF older, next
      <4> QED BY <1>3, <1>4, <4>1, NewestAreNewer
    <3> QED BY <3>1, <3>2
  <2>6. Cardinality(matching) > Cardinality(ids)
    <3> HIDE DEF got, ids, older
    <3>1. IsFiniteSet(matching) /\ Cardinality(matching) \in Nat
      BY IdsFinite
    <3>2. got \in SUBSET matching
      BY <1>3, <1>5, Zenon
    <3>3. Cardinality(got) <= Cardinality(matching)
      BY <3>1, <3>2, FS_Subset
    <3> QED BY <1>5, <1>7, <1>10, <3>1, <3>3
  <2> QED BY <2>2, <2>3, <2>4, <2>5, <2>6, Zenon
<1>11. ASSUME ~more
       PROVE  ids = older
  <2>1. Cardinality(got) <= limit
    <3> HIDE DEF got
    <3> QED BY <1>4, <1>5, <1>11
  <2>2. got = older
    <3> HIDE DEF older
    <3> QED BY <1>3, <1>4, <2>1, NewestAll
  <2>3. limit - 1 \in Nat /\ (limit - 1) + 1 = limit
    BY <1>4
  <2>4. ASSUME NEW i \in got PROVE Cardinality({j \in got : j > i}) < limit
    <3> DEFINE above == {j \in got : j > i}
    <3>1. i \in Nat /\ \A j \in got : j \in Nat
      <4> HIDE DEF got
      <4> QED BY <1>6, IdsAreNumbers
    <3>2. above \in SUBSET (got \ {i})
      <4> HIDE DEF got
      <4> QED BY <3>1
    <3> HIDE DEF got, above
    <3>3. IsFiniteSet(got)
      BY <1>6, IdsFinite
    <3>4. /\ IsFiniteSet(got \ {i})
          /\ Cardinality(got \ {i}) = Cardinality(got) - 1
      BY <2>4, <3>3, FS_RemoveElement
    <3>5. IsFiniteSet(above) /\ Cardinality(above) <= Cardinality(got \ {i})
      BY <3>2, <3>4, FS_Subset
    <3>6. Cardinality(above) \in Nat
      BY <3>5, FS_CardinalityType
    <3>7. Cardinality(above) < limit
      BY <1>4, <1>5, <2>1, <3>4, <3>5, <3>6
    <3> QED BY <3>7 DEF above
  <2>5. ids = got
    <3> HIDE DEF got
    <3> QED BY <2>4 DEF Newest
  <2> QED BY <2>2, <2>5, Zenon
<1>12. next \in Nat
  <2>1. CASE more
    BY <1>9, <1>10, <2>1, Zenon
  <2>2. CASE ~more
    <3>1. next = 0
      BY <2>2, Zenon DEF NoCursor
    <3> HIDE DEF next
    <3> QED BY <3>1
  <2> QED BY <2>1, <2>2
<1>13. page \in Page
  <2>1. more \in BOOLEAN
    <3> HIDE DEF got
    <3> QED OBVIOUS
  <2> HIDE DEF more, ids, next
  <2> QED BY <1>1, <1>8, <1>12, <2>1 DEF Page
<1> HIDE DEF more, ids, next, got
<1>14. page.more <=> more
  BY <1>2, Zenon
<1>15. page.ids \subseteq older
  BY <1>2, <1>5, <1>7, Zenon
<1>16. Cardinality(page.ids) \in Nat /\ Cardinality(page.ids) <= limit
  BY <1>2, <1>7, Zenon
<1>17. \A i \in older \ page.ids : page.more /\ i < page.next
  BY <1>2, <1>10, <1>11, <1>14, Zenon
<1>18. page.more => /\ page.ids # {} /\ page.next = Lowest(page.ids)
                    /\ page.next \in page.ids
                    /\ \A i \in page.ids : page.next <= i
                    /\ Cardinality(matching) > Cardinality(page.ids)
  BY <1>2, <1>10, <1>14, Zenon
<1>19. ~page.more => page.ids = older
  BY <1>2, <1>11, <1>14, Zenon
<1> HIDE DEF page
<1>20. TruePage(page, matching, total, before, limit)
  BY <1>2, <1>13, <1>15, <1>16, <1>17, <1>18, <1>19, Zenon DEF TruePage
<1> QED BY <1>20 DEF page

----------------------------------------------------------------------------
(* The steps of a pass.                                                    *)

(* What is fetched is counted with a number.                               *)
LEMMA WalkTyped ==
    ASSUME NEW s \in Walk
    PROVE  /\ s.query \in Queries /\ s.query.cap \in Nat /\ s.query.size \in Nat \ {0}
           /\ s.before \in Nat /\ s.total \in Nat
           /\ s.fetched \in SUBSET (1..MaxId) /\ s.due \in SUBSET (1..MaxId)
           /\ s.snapshot \in SUBSET (1..MaxId)
           /\ IsFiniteSet(s.fetched) /\ Cardinality(s.fetched) \in Nat
           /\ s.page \in Page /\ s.page.ids \in SUBSET (1..MaxId)
           /\ s.page.next \in Nat /\ s.page.total \in Nat
<1>1. /\ s.query \in Queries /\ s.before \in Nat /\ s.total \in Nat
      /\ s.fetched \in SUBSET (1..MaxId) /\ s.due \in SUBSET (1..MaxId)
      /\ s.snapshot \in SUBSET (1..MaxId) /\ s.page \in Page
  BY DEF Walk
<1>2. s.query.cap \in Nat /\ s.query.size \in Nat \ {0}
  BY <1>1, QueriesAssumption DEF Query
<1>3. s.page.ids \in SUBSET (1..MaxId) /\ s.page.next \in Nat /\ s.page.total \in Nat
  BY <1>1 DEF Page
<1>4. IsFiniteSet(s.fetched) /\ Cardinality(s.fetched) \in Nat
  BY <1>1, BoundsAssumption, IdsFinite
<1> QED BY <1>1, <1>2, <1>3, <1>4, Zenon

(* A page is never asked for with more rows than the pass still wants.     *)
LEMMA LimitTyped ==
    ASSUME NEW s \in Walk, s.query.cap > 0 => Cardinality(s.fetched) < s.query.cap
    PROVE  /\ Clamped(s.query, Asked(s)) \in Nat \ {0}
           /\ s.query.cap > 0 =>
                Cardinality(s.fetched) + Clamped(s.query, Asked(s)) <= s.query.cap
<1>1. /\ s.query.cap \in Nat /\ s.query.size \in Nat \ {0} /\ Cardinality(s.fetched) \in Nat
  BY WalkTyped
<1>2. /\ Asked(s) \in Nat \ {0}
      /\ s.query.cap > 0 => Cardinality(s.fetched) + Asked(s) <= s.query.cap
  BY <1>1 DEF Asked, Lesser
<1>3. Clamped(s.query, Asked(s)) \in Nat \ {0} /\ Clamped(s.query, Asked(s)) <= Asked(s)
  BY <1>2, LimitsAssumption DEF Clamped, Lesser
<1> QED BY <1>1, <1>2, <1>3

(* A pass that is over or has not begun.                                   *)
LEMMA NoPassGood ==
    ASSUME NEW M
    PROVE  Good(NoPass, M) /\ Good(Failed, M) /\ NoPass.query \in Queries /\ Failed.query \in Queries
<1>1. NoPage \in Page
  BY DEF NoPage, Page, NoCursor
<1>2. PICK q \in Queries : NoPass = Idle(q)
  BY QueriesAssumption DEF NoPass
<1>3. q.cap \in Nat
  BY QueriesAssumption DEF Query
<1>4. Cardinality({}) = 0
  BY FS_EmptySet
<1>5. /\ NoPass \in Walk /\ NoPass.stage = "idle" /\ NoPass.fetched = {} /\ NoPass.query = q
  BY <1>1, <1>2 DEF Idle, Walk, Stage, NoCursor
<1>6. /\ Failed \in Walk /\ Failed.stage = "failed" /\ Failed.fetched = {} /\ Failed.query = q
  BY <1>5 DEF Failed, Walk, Stage
<1>7. Good(NoPass, M)
  BY <1>3, <1>4, <1>5 DEF Good, Reading, Walking
<1>8. Good(Failed, M)
  BY <1>3, <1>4, <1>6 DEF Good, Reading, Walking
<1> QED BY <1>5, <1>6, <1>7, <1>8

(* Start: all that matches is due.                                         *)
LEMMA StartGood ==
    ASSUME NEW q \in Queries, NEW M \in SUBSET (1..MaxId)
    PROVE  LET s == [Idle(q) EXCEPT !.stage = "ask", !.due = M] IN
           Good(s, M) /\ s.query = q
<1> DEFINE s == [Idle(q) EXCEPT !.stage = "ask", !.due = M]
<1>1. NoPage \in Page
  BY DEF NoPage, Page, NoCursor
<1>2. q.cap \in Nat
  BY QueriesAssumption DEF Query
<1>3. Cardinality({}) = 0
  BY FS_EmptySet
<1>4. /\ s \in Walk /\ s.stage = "ask" /\ s.fetched = {} /\ s.query = q /\ s.due = M
      /\ s.before = NoCursor
  BY <1>1 DEF Idle, Walk, Stage, Walking, NoCursor
<1> HIDE DEF s
<1>5. Divided(s, M)
  BY <1>2, <1>3, <1>4 DEF Divided
<1>6. Good(s, M)
  BY <1>2, <1>3, <1>4, <1>5 DEF Good, Walking
<1> QED BY <1>4, <1>6 DEF s

(* Count: the snapshot is what matches now.                                *)
LEMMA CountGood ==
    ASSUME NEW M \in SUBSET (1..MaxId), NEW s, Good(s, M), s.stage = "ask"
    PROVE  LET t == [s EXCEPT !.stage = "counted", !.snapshot = M,
                              !.page.total = Cardinality(M)] IN
           Good(t, M) /\ t.query = s.query
<1> DEFINE page == [s.page EXCEPT !.total = Cardinality(M)]
           t == [s EXCEPT !.stage = "counted", !.snapshot = M, !.page.total = Cardinality(M)]
<1>1. s \in Walk /\ Divided(s, M) /\ s.due \subseteq M
  BY DEF Good, Reading, Walking
<1>2. Cardinality(M) \in Nat
  BY BoundsAssumption, IdsFinite
<1>3. page \in Page /\ page.total = Cardinality(M)
  BY <1>1, <1>2 DEF Walk, Page
<1>4. t = [s EXCEPT !.stage = "counted", !.snapshot = M, !.page = page]
  BY <1>1 DEF Walk
<1> HIDE DEF page, t
<1>5. /\ t \in Walk /\ t.stage = "counted" /\ t.snapshot = M /\ t.page = page
      /\ t.fetched = s.fetched /\ t.query = s.query /\ t.due = s.due /\ t.before = s.before
      /\ t.total = s.total /\ t.quiet = s.quiet
  BY <1>1, <1>3, <1>4 DEF Walk, Stage, Walking
<1>6. Divided(t, M)
  BY <1>1, <1>5 DEF Divided
<1>7. Counted(t, M)
  BY <1>1, <1>3, <1>5 DEF Counted
<1>8. Good(t, M)
  BY <1>1, <1>5, <1>6, <1>7 DEF Good, Reading
<1> QED BY <1>5, <1>8 DEF t

(* Select: the page is of the snapshot, which has all that is due.         *)
LEMMA SelectGood ==
    ASSUME NEW M \in SUBSET (1..MaxId), NEW s, Good(s, M), s.stage = "counted"
    PROVE  LET t == [s EXCEPT !.stage = "answered", !.snapshot = {},
                              !.page = PageOf(s.snapshot, @.total, s.before,
                                              Clamped(s.query, Asked(s)))] IN
           Good(t, M) /\ t.query = s.query
<1> DEFINE limit == Clamped(s.query, Asked(s))
           page == PageOf(s.snapshot, s.page.total, s.before, limit)
           t == [s EXCEPT !.stage = "answered", !.snapshot = {}, !.page = page]
<1>1. /\ s \in Walk /\ Divided(s, M) /\ Counted(s, M) /\ s.due \subseteq M
      /\ s.query.cap > 0 => Cardinality(s.fetched) <= s.query.cap
  BY DEF Good, Reading, Walking
<1>2. /\ s.query \in Queries /\ s.query.cap \in Nat
      /\ s.before \in Nat /\ s.total \in Nat /\ s.page.total \in Nat
      /\ s.snapshot \in SUBSET (1..MaxId) /\ s.fetched \in SUBSET (1..MaxId)
      /\ Cardinality(s.fetched) \in Nat
  BY <1>1, WalkTyped
<1>3. /\ limit \in Nat \ {0}
      /\ s.query.cap > 0 => Cardinality(s.fetched) + limit <= s.query.cap
  BY <1>1, LimitTyped DEF Divided
<1> DEFINE older == Older(s.snapshot, s.before)
<1>4. /\ page \in Page /\ page.total = s.page.total
      /\ page.ids \subseteq older
      /\ Cardinality(page.ids) \in Nat /\ Cardinality(page.ids) <= limit
      /\ page.more => /\ page.ids # {} /\ page.next = Lowest(page.ids)
                      /\ page.next \in page.ids
                      /\ \A i \in page.ids : page.next <= i
                      /\ Cardinality(s.snapshot) > Cardinality(page.ids)
      /\ ~page.more => page.ids = older
      /\ \A i \in older \ page.ids : page.more /\ i < page.next
  <2>1. limit \in Nat \ {0}
    BY <1>3, Zenon
  <2> HIDE DEF limit
  <2>2. TruePage(page, s.snapshot, s.page.total, s.before, limit)
    BY <1>2, <2>1, PageIsTrue
  <2> HIDE DEF page
  <2> QED BY <2>2, Zenon DEF TruePage
<1> HIDE DEF limit, page
<1>5. /\ t \in Walk /\ t.stage = "answered" /\ t.page = page
      /\ t.fetched = s.fetched /\ t.query = s.query /\ t.due = s.due /\ t.before = s.before
      /\ t.total = s.total /\ t.quiet = s.quiet
  BY <1>1, <1>4 DEF Walk, Stage, Walking
<1> HIDE DEF t
<1>6. Divided(t, M)
  BY <1>1, <1>5 DEF Divided
<1>7. s.page.total = Cardinality(s.snapshot)
  BY <1>1 DEF Counted
<1>8. \A i \in s.due : i \in older
  BY <1>1 DEF Divided, Counted, Older
<1>9. \A i \in page.ids : s.before = NoCursor \/ i < s.before
  BY <1>4 DEF Older
<1>10. s.quiet => page.ids = {i \in M : /\ s.before = NoCursor \/ i < s.before
                                        /\ page.more => page.next <= i}
  <2> SUFFICES ASSUME s.quiet
               PROVE  page.ids = {i \in M : /\ s.before = NoCursor \/ i < s.before
                                            /\ page.more => page.next <= i}
    OBVIOUS
  <2>1. older = {i \in M : s.before = NoCursor \/ i < s.before}
    BY <1>1 DEF Older, Counted
  <2>2. ASSUME NEW i \in older PROVE i \in page.ids <=> (page.more => page.next <= i)
    <3>1. i \in Nat
      BY <1>2, BoundsAssumption, IdsAreNumbers DEF Older
    <3>2. page.next \in Nat
      BY <1>4 DEF Page
    <3>3. CASE i \in page.ids
      BY <1>4, <3>3, Zenon
    <3>4. CASE i \notin page.ids
      <4>1. page.more /\ i < page.next
        BY <1>4, <2>2, <3>4, Zenon
      <4> QED BY <3>1, <3>2, <3>4, <4>1
    <3> QED BY <3>3, <3>4
  <2> HIDE DEF older
  <2> QED BY <1>4, <2>1, <2>2
<1>11. /\ page.total >= Cardinality(page.ids) + (IF page.more THEN 1 ELSE 0)
       /\ s.before = NoCursor /\ ~page.more => page.total = Cardinality(page.ids)
  <2>1. /\ IsFiniteSet(s.snapshot) /\ Cardinality(s.snapshot) \in Nat
        /\ page.ids \in SUBSET s.snapshot
    BY <1>2, <1>4, BoundsAssumption, IdsFinite DEF Older
  <2>2. Cardinality(page.ids) <= Cardinality(s.snapshot)
    BY <2>1, FS_Subset
  <2>3. CASE page.more
    BY <1>4, <1>7, <2>1, <2>3
  <2>4. CASE ~page.more
    <3>1. s.before = NoCursor => page.ids = s.snapshot
      BY <1>4, <2>4 DEF Older
    <3> QED BY <1>4, <1>7, <2>1, <2>2, <2>4, <3>1
  <2> QED BY <2>3, <2>4
<1>12. s.query.cap > 0 => Cardinality(s.fetched) + Cardinality(page.ids) <= s.query.cap
  BY <1>2, <1>3, <1>4
<1>13. s.quiet => page.total = Cardinality(M)
  BY <1>1, <1>4 DEF Counted
<1>14. \A i \in s.due \ page.ids : page.more /\ i < page.next
  BY <1>4, <1>8
<1>15. page.more => page.ids # {} /\ page.next = Lowest(page.ids)
  BY <1>4, Zenon
<1>16. Answered(t, M)
  BY <1>5, <1>9, <1>10, <1>11, <1>12, <1>13, <1>14, <1>15 DEF Answered
<1>17. Good(t, M)
  BY <1>1, <1>5, <1>6, <1>16 DEF Good, Reading
<1> QED BY <1>5, <1>17 DEF t, page, limit

(* The client takes the page: its rows are new, and what stays due is      *)
(* below its next cursor.                                                  *)
LEMMA RowsTaken ==
    ASSUME NEW M \in SUBSET (1..MaxId), NEW s, Good(s, M), s.stage = "answered"
    PROVE  LET t == WithRows(s) IN
           /\ t \in Walk /\ t.query = s.query /\ t.page = s.page /\ t.before = s.before
           /\ t.due \subseteq M /\ Taken(t, M)
<1> DEFINE t == WithRows(s)
           ids == s.page.ids
<1>1. s \in Walk /\ Divided(s, M) /\ Answered(s, M) /\ s.due \subseteq M
  BY DEF Good, Reading, Walking
<1>2. /\ s.query \in Queries /\ s.query.cap \in Nat
      /\ s.before \in Nat /\ s.total \in Nat /\ s.page \in Page
      /\ s.page.total \in Nat /\ s.page.next \in Nat
      /\ ids \in SUBSET (1..MaxId) /\ s.fetched \in SUBSET (1..MaxId)
      /\ Cardinality(s.fetched) \in Nat /\ IsFiniteSet(s.fetched)
  BY <1>1, WalkTyped
<1>3. /\ t \in Walk /\ t.query = s.query /\ t.page = s.page /\ t.before = s.before
      /\ t.fetched = s.fetched \cup ids /\ t.due = s.due \ ids /\ t.quiet = s.quiet
      /\ t.total = IF s.query.firstTotal /\ s.before # NoCursor THEN s.total ELSE s.page.total
  BY <1>1, <1>2 DEF WithRows, Walk
<1> HIDE DEF t
<1>4. /\ \A i \in ids : i \in Nat /\ 1 <= i
      /\ \A i \in s.fetched : i \in Nat
      /\ ids \in SUBSET Nat /\ (s.fetched \cup ids) \in SUBSET Nat
      /\ \A i \in M : i \in Nat
  <2>1. ids \in SUBSET Nat /\ \A i \in ids : i \in Nat /\ 1 <= i
    <3> HIDE DEF ids
    <3> QED BY <1>2, BoundsAssumption, IdsAreNumbers
  <2>2. s.fetched \in SUBSET Nat /\ \A i \in s.fetched : i \in Nat
    BY <1>2, BoundsAssumption, IdsAreNumbers
  <2>3. \A i \in M : i \in Nat
    BY BoundsAssumption, IdsAreNumbers
  <2> HIDE DEF ids
  <2> QED BY <2>1, <2>2, <2>3
<1>5. s.page.more => /\ ids # {} /\ s.page.next = Lowest(ids)
                     /\ s.page.next \in ids /\ \A i \in ids : s.page.next <= i
  BY <1>1, <1>4, LowestIsLeast DEF Answered
<1>6. s.page.more => /\ s.page.next # NoCursor
                     /\ s.before = NoCursor \/ s.page.next < s.before
  BY <1>1, <1>4, <1>5 DEF Answered, NoCursor
<1>7. s.page.more => s.fetched \cup ids # {} /\ s.page.next = Lowest(s.fetched \cup ids)
  <2> SUFFICES ASSUME s.page.more
               PROVE  s.fetched \cup ids # {} /\ s.page.next = Lowest(s.fetched \cup ids)
    OBVIOUS
  <2> DEFINE all == s.fetched \cup ids
  <2>1. s.page.next \in all /\ all \in SUBSET Nat
    BY <1>4, <1>5
  <2>2. ASSUME NEW i \in all PROVE s.page.next <= i
    <3>1. CASE i \in ids
      BY <1>5, <3>1
    <3>2. CASE i \in s.fetched
      <4>1. s.before # NoCursor /\ s.before <= i
        BY <1>1, <3>2 DEF Divided
      <4> QED BY <1>2, <1>4, <1>6, <3>2, <4>1
    <3> QED BY <3>1, <3>2
  <2> HIDE DEF all
  <2>3. Lowest(all) \in all /\ \A i \in all : Lowest(all) <= i
    BY <2>1, LowestIsLeast
  <2>4. Lowest(all) \in Nat
    BY <2>1, <2>3
  <2>5. s.page.next = Lowest(all)
    BY <1>2, <2>1, <2>2, <2>3, <2>4
  <2> QED BY <2>1, <2>5 DEF all
<1>8. \A i \in t.due : s.page.more /\ i < s.page.next
  BY <1>1, <1>3 DEF Answered
<1>9. s.query.cap > 0 => Cardinality(s.fetched \cup ids) <= s.query.cap
  <2>1. IsFiniteSet(ids) /\ Cardinality(ids) \in Nat
    BY <1>2, BoundsAssumption, IdsFinite
  <2>2. s.fetched \cap ids = {}
    <3> SUFFICES ASSUME NEW i \in s.fetched, i \in ids PROVE FALSE
      OBVIOUS
    <3>1. s.before # NoCursor /\ s.before <= i
      BY <1>1 DEF Divided
    <3>2. i < s.before
      BY <1>1, <3>1 DEF Answered
    <3> QED BY <1>2, <1>4, <3>1, <3>2
  <2>3. Cardinality(s.fetched \cup ids) = Cardinality(s.fetched) + Cardinality(ids)
    <3>1. Cardinality(s.fetched \cap ids) = 0
      BY <2>2, FS_EmptySet
    <3>2. Cardinality(s.fetched \cup ids)
            = Cardinality(s.fetched) + Cardinality(ids) - Cardinality(s.fetched \cap ids)
      BY <1>2, <2>1, FS_Union
    <3> QED BY <1>2, <2>1, <3>1, <3>2
  <2> QED BY <1>1, <2>3 DEF Answered
<1>10. s.quiet => t.total = Cardinality(M)
  BY <1>1, <1>3 DEF Divided, Answered
<1>11. s.quiet => s.fetched \cup ids = {i \in M : s.page.more => s.page.next <= i}
  <2> SUFFICES ASSUME s.quiet
               PROVE  s.fetched \cup ids = {i \in M : s.page.more => s.page.next <= i}
    OBVIOUS
  <2>1. /\ s.fetched = {i \in M : s.before # NoCursor /\ s.before <= i}
        /\ ids = {i \in M : /\ s.before = NoCursor \/ i < s.before
                            /\ s.page.more => s.page.next <= i}
    BY <1>1 DEF Divided, Answered
  <2>2. ASSUME NEW i \in M
        PROVE  i \in s.fetched \cup ids <=> (s.page.more => s.page.next <= i)
    <3>1. i \in Nat
      BY <1>4
    <3> QED BY <1>2, <1>6, <2>1, <2>2, <3>1
  <2>3. s.fetched \cup ids \subseteq M
    BY <2>1
  <2> QED BY <2>2, <2>3
<1>12. t.due \subseteq M
  BY <1>1, <1>3
<1>13. Taken(t, M)
  BY <1>3, <1>5, <1>6, <1>7, <1>8, <1>9, <1>10, <1>11 DEF Taken
<1> QED BY <1>3, <1>12, <1>13 DEF t

(* Where a pass goes from there: on below the next cursor, or to its end,  *)
(* with nothing due that the limit left room for.                          *)
LEMMA OnwardsGood ==
    ASSUME NEW M \in SUBSET (1..MaxId), NEW s \in Walk, s.due \subseteq M, Taken(s, M)
    PROVE  LET t == Onwards(s, PaginationNext(s.page, s.before)) IN
           Good(t, M) /\ t.query = s.query
<1> DEFINE next == PaginationNext(s.page, s.before)
           t == Onwards(s, next)
<1>1. /\ s.query \in Queries /\ s.query.cap \in Nat
      /\ s.before \in Nat /\ s.page \in Page /\ s.page.next \in Nat
      /\ s.fetched \in SUBSET (1..MaxId) /\ s.fetched \in SUBSET Nat
      /\ Cardinality(s.fetched) \in Nat
  BY WalkTyped, BoundsAssumption, IdsAreNumbers
<1>2. NoPage \in Page
  BY DEF NoPage, Page, NoCursor
<1>3. CASE ~s.page.more
  <2>1. next = NoCursor
    BY <1>3 DEF PaginationNext
  <2>2. t = [s EXCEPT !.stage = "done", !.page = NoPage]
    BY <2>1 DEF Onwards, NoCursor, Malformed
  <2> HIDE DEF t, next
  <2>3. /\ t \in Walk /\ t.stage = "done" /\ t.query = s.query /\ t.fetched = s.fetched
        /\ t.due = s.due /\ t.total = s.total /\ t.quiet = s.quiet
    BY <1>2, <2>2 DEF Walk, Stage, Walking
  <2>4. s.due = {}
    BY <1>3 DEF Taken
  <2>5. s.quiet => s.fetched = M /\ s.total = Cardinality(M)
    BY <1>3 DEF Taken
  <2>6. Ended(t)
    BY <2>3, <2>4, <2>5 DEF Ended
  <2>7. Good(t, M)
    BY <2>3, <2>6 DEF Good, Taken, Walking, Reading
  <2> QED BY <2>3, <2>7 DEF t, next
<1>4. CASE s.page.more
  <2>1. /\ s.page.ids # {} /\ s.page.next # NoCursor
        /\ s.before = NoCursor \/ s.page.next < s.before
        /\ s.fetched # {} /\ s.page.next = Lowest(s.fetched)
        /\ \A i \in s.due : i < s.page.next
    BY <1>4 DEF Taken
  <2>2. next = s.page.next
    BY <1>1, <1>4, <2>1 DEF PaginationNext
  <2>3. next \in Nat /\ next > 0 /\ next # Malformed /\ next # NoCursor
    BY <1>1, <2>1, <2>2 DEF NoCursor, Malformed
  <2>4. CASE s.query.cap > 0 /\ Cardinality(s.fetched) >= s.query.cap
    <3>1. t = [s EXCEPT !.stage = "done", !.before = next, !.page = NoPage]
      <4> HIDE DEF next
      <4> QED BY <2>3, <2>4 DEF Onwards
    <3> HIDE DEF t, next
    <3>2. /\ t \in Walk /\ t.stage = "done" /\ t.query = s.query /\ t.fetched = s.fetched
          /\ t.due = s.due
      BY <1>2, <2>3, <3>1 DEF Walk, Stage, Walking
    <3>3. Cardinality(s.fetched) = s.query.cap
      BY <1>1, <2>4 DEF Taken
    <3>4. Ended(t)
      BY <1>1, <2>1, <2>4, <3>2, <3>3 DEF Ended
    <3>5. Good(t, M)
      BY <3>2, <3>4 DEF Good, Taken, Walking, Reading
    <3> QED BY <3>2, <3>5 DEF t, next
  <2>5. CASE ~(s.query.cap > 0 /\ Cardinality(s.fetched) >= s.query.cap)
    <3>1. t = [s EXCEPT !.stage = "ask", !.before = next, !.page = NoPage]
      <4> HIDE DEF next
      <4> QED BY <2>3, <2>5 DEF Onwards
    <3> HIDE DEF t, next
    <3>2. /\ t \in Walk /\ t.stage = "ask" /\ t.query = s.query /\ t.fetched = s.fetched
          /\ t.due = s.due /\ t.before = next /\ t.quiet = s.quiet /\ t.total = s.total
      BY <1>2, <2>3, <3>1 DEF Walk, Stage, Walking
    <3>3. \A i \in s.fetched : next <= i
      BY <1>1, <2>1, <2>2, LowestIsLeast
    <3>4. s.query.cap > 0 => Cardinality(s.fetched) < s.query.cap
      BY <1>1, <2>5
    <3>5. s.quiet => s.fetched = {i \in M : next <= i} /\ s.total = Cardinality(M)
      BY <1>4, <2>2 DEF Taken
    <3>6. Divided(t, M)
      BY <2>1, <2>2, <2>3, <3>2, <3>3, <3>4, <3>5 DEF Divided
    <3>7. Good(t, M)
      BY <3>2, <3>6 DEF Good, Taken, Walking
    <3> QED BY <3>2, <3>7 DEF t, next
  <2> QED BY <2>4, <2>5
<1> QED BY <1>3, <1>4

(* The table changes under a pass: what it is due can only shrink, and     *)
(* nothing it holds depended on the rest.                                  *)
Seen(s, M, N) == [s EXCEPT !.due = @ \cap N, !.quiet = @ /\ N = M]

(* What a pass t, which is s after such a change, has of s.                *)
Kept(s, t, M, N) ==
    /\ t \in Walk /\ t.query = s.query /\ t.page = s.page /\ t.before = s.before
    /\ t.stage = s.stage /\ t.fetched = s.fetched /\ t.snapshot = s.snapshot
    /\ t.total = s.total /\ t.due \subseteq N /\ t.due \subseteq s.due
    /\ t.quiet => s.quiet /\ N = M

(* It loses at most what it is due and that nothing changed.               *)
LEMMA SeenKeeps ==
    ASSUME NEW M \in SUBSET (1..MaxId), NEW N \in SUBSET (1..MaxId), NEW s \in Walk
    PROVE  Kept(s, Seen(s, M, N), M, N)
  BY DEF Seen, Walk, Kept

(* A page that was taken stays so, whatever is marked or filed meanwhile.  *)
LEMMA SeenTaken ==
    ASSUME NEW M \in SUBSET (1..MaxId), NEW N \in SUBSET (1..MaxId), NEW s \in Walk,
           Taken(s, M)
    PROVE  Taken(Seen(s, M, N), N)
<1> DEFINE t == Seen(s, M, N)
<1>1. Kept(s, t, M, N)
  BY SeenKeeps, Zenon
<1> HIDE DEF t
<1>2. Taken(t, N)
  BY <1>1 DEF Kept, Taken
<1> QED BY <1>2 DEF t

(* A pass stays good when the table changes under it.                      *)
LEMMA SeenGood ==
    ASSUME NEW M \in SUBSET (1..MaxId), NEW N \in SUBSET (1..MaxId), NEW s, Good(s, M),
           s.stage \in Walking
    PROVE  Good(Seen(s, M, N), N) /\ Seen(s, M, N).query = s.query
<1> DEFINE t == Seen(s, M, N)
<1>1. s \in Walk
  BY DEF Good
<1>2. Kept(s, t, M, N)
  BY <1>1, SeenKeeps, Zenon
<1>3. s.stage = "mark" => Taken(t, N)
  BY <1>1, SeenTaken DEF Good
<1> HIDE DEF t
<1>4. s.stage \in Reading => Divided(t, N)
  BY <1>2 DEF Kept, Good, Divided
<1>5. s.stage = "counted" => Counted(t, N)
  BY <1>2 DEF Kept, Good, Counted
<1>6. s.stage = "answered" => Answered(t, N)
  BY <1>2 DEF Kept, Good, Answered
<1>7. Good(t, N)
  BY <1>2, <1>3, <1>4, <1>5, <1>6 DEF Kept, Good, Walking
<1> QED BY <1>2, <1>7 DEF t, Kept

----------------------------------------------------------------------------
(* All the passes, and the table.                                          *)

(* What a query matches are ids of the table.                              *)
LEMMA MatchingIds ==
    ASSUME NEW table, NEW n \in 0..MaxId, DOMAIN table \subseteq 1..n, NEW q
    PROVE  Matching(table, q) \in SUBSET (1..MaxId)
<1>1. \A i \in 1..n : i \in 1..MaxId
  BY BoundsAssumption
<1> QED BY <1>1 DEF Matching

(* A pass sees the table change.                                           *)
LEMMA SeeingGood ==
    ASSUME NEW table, NEW n \in 0..MaxId, DOMAIN table \subseteq 1..n, NEW s, Table,
           Good(s, Matching(rows, s.query))
    PROVE  LET t == Seeing(s, table) IN
           t \in Walk /\ Good(t, Matching(table, t.query))
<1> DEFINE t == Seeing(s, table)
           M == Matching(rows, s.query)
           N == Matching(table, s.query)
<1>1. M \in SUBSET (1..MaxId) /\ N \in SUBSET (1..MaxId)
  BY MatchingIds DEF Table
<1>2. CASE s.stage \in Walking
  <2>1. t = Seen(s, M, N)
    BY <1>2 DEF Seeing, Seen
  <2> HIDE DEF M, N, t
  <2>2. Good(t, N) /\ t.query = s.query
    BY <1>1, <1>2, <2>1, SeenGood DEF M
  <2> QED BY <2>2 DEF t, N, Good
<1>3. CASE s.stage \notin Walking
  <2>1. t = NoPass
    BY <1>3 DEF Seeing
  <2>2. \A X : Good(NoPass, X)
    BY NoPassGood
  <2> HIDE DEF t
  <2> QED BY <2>1, <2>2 DEF t, Good
<1> QED BY <1>2, <1>3

(* One pass moves on, the table rests.                                     *)
LEMMA OneBecomes ==
    ASSUME IInv, NEW w \in Walkers, NEW s, Become(w, s), Good(s, Matching(rows, s.query)),
           UNCHANGED <<rows, seq>>, failures' \in 0..MaxFailures
    PROVE  IInv'
<1>1. walk' = [walk EXCEPT ![w] = s] /\ s \in Walk
  BY DEF Become, Good
<1>2. walk' \in [Walkers -> Walk] /\ walk'[w] = s /\ \A v \in Walkers : v # w => walk'[v] = walk[v]
  BY <1>1 DEF IInv
<1>3. Table'
  BY DEF IInv, Table
<1>4. ASSUME NEW v \in Walkers
      PROVE  Good(walk'[v], Matching(rows', walk'[v].query))
  <2>1. CASE v = w
    BY <1>2, <2>1
  <2>2. CASE v # w
    BY <1>2, <2>2 DEF IInv
  <2> QED BY <2>1, <2>2
<1>5. \A v \in Walkers : Good(walk[v], Matching(rows, walk[v].query))'
  BY <1>4
<1> QED BY <1>2, <1>3, <1>5 DEF IInv

(* The table changes, and one pass may move on besides.                    *)
LEMMA TableChanges ==
    ASSUME IInv, NEW table, rows' = table, DOMAIN table \subseteq 1..seq',
           \A i \in DOMAIN table : table[i] \in BOOLEAN,
           seq' \in 0..MaxId, failures' \in 0..MaxFailures,
           walk' = [v \in Walkers |-> walk'[v]],
           \A v \in Walkers : \/ walk'[v] = Seeing(walk[v], table)
                              \/ Good(walk'[v], Matching(table, walk'[v].query))
    PROVE  IInv'
<1>1. ASSUME NEW v \in Walkers
      PROVE  walk'[v] \in Walk /\ Good(walk'[v], Matching(table, walk'[v].query))
  <2>1. CASE walk'[v] = Seeing(walk[v], table)
    <3>1. Good(walk[v], Matching(rows, walk[v].query)) /\ Table
      BY DEF IInv
    <3> QED BY <2>1, <3>1, SeeingGood
  <2>2. CASE Good(walk'[v], Matching(table, walk'[v].query))
    BY <2>2 DEF Good
  <2> QED BY <2>1, <2>2
<1>2. walk' \in [Walkers -> Walk]
  BY <1>1
<1>3. Table'
  BY Zenon DEF Table
<1>4. \A v \in Walkers : Good(walk[v], Matching(rows, walk[v].query))'
  BY <1>1
<1> QED BY <1>2, <1>3, <1>4 DEF IInv

(* Marking takes no row away and adds none.                                *)
LEMMA MarkedTyped ==
    ASSUME Table, NEW ids, NEW mark \in BOOLEAN
    PROVE  LET table == Marked(rows, ids, mark) IN
           /\ DOMAIN table \subseteq 1..seq
           /\ \A i \in DOMAIN table : table[i] \in BOOLEAN
<1>1. DOMAIN Marked(rows, ids, mark) = DOMAIN rows
  BY DEF Marked
<1>2. ASSUME NEW i \in DOMAIN rows
      PROVE  Marked(rows, ids, mark)[i] \in BOOLEAN
  <2>1. rows[i] \in BOOLEAN
    BY Zenon DEF Table
  <2>2. Marked(rows, ids, mark)[i] = IF i \in ids THEN mark ELSE rows[i]
    BY Zenon DEF Marked
  <2> QED BY <2>1, <2>2, Zenon
<1> QED BY <1>1, <1>2, Zenon DEF Table

(* Start, Count, Select, Follow and Fail: a pass on its own.               *)
LEMMA OwnSteps ==
    ASSUME IInv, NEW w \in Walkers,
           Count(w) \/ Select(w) \/ Follow(w) \/ Fail(w) \/ \E q \in Queries : Start(w, q)
    PROVE  IInv'
<1> DEFINE s == walk[w]
           M == Matching(rows, s.query)
<1>1. s \in Walk /\ Good(s, M) /\ Table
  BY DEF IInv
<1>2. \A q : Matching(rows, q) \in SUBSET (1..MaxId)
  BY <1>1, MatchingIds DEF Table
<1>3. failures \in 0..MaxFailures
  BY <1>1 DEF Table
<1>4. CASE Count(w)
  <2> DEFINE t == [s EXCEPT !.stage = "counted", !.snapshot = M, !.page.total = Cardinality(M)]
  <2>1. Become(w, t) /\ s.stage = "ask" /\ UNCHANGED <<rows, seq, failures>>
    BY <1>4, Zenon DEF Count
  <2>2. Good(t, M) /\ t.query = s.query
    BY <1>1, <1>2, <2>1, CountGood
  <2> HIDE DEF t
  <2> QED BY <1>3, <2>1, <2>2, OneBecomes
<1>5. CASE Select(w)
  <2> DEFINE t == [s EXCEPT !.stage = "answered", !.snapshot = {},
                            !.page = PageOf(s.snapshot, @.total, s.before,
                                            Clamped(s.query, Asked(s)))]
  <2>1. Become(w, t) /\ s.stage = "counted" /\ UNCHANGED <<rows, seq, failures>>
    BY <1>5, Zenon DEF Select
  <2>2. Good(t, M) /\ t.query = s.query
    BY <1>1, <1>2, <2>1, SelectGood
  <2> HIDE DEF t
  <2> QED BY <1>3, <2>1, <2>2, OneBecomes
<1>6. CASE Follow(w)
  <2> DEFINE r == WithRows(s)
             t == IF s.query.marks /\ s.page.ids # {} THEN [r EXCEPT !.stage = "mark"]
                  ELSE Onwards(r, PaginationNext(s.page, s.before))
  <2>1. Become(w, t) /\ s.stage = "answered" /\ UNCHANGED <<rows, seq, failures>>
    BY <1>6, Zenon DEF Follow
  <2>2. /\ r \in Walk /\ r.query = s.query /\ r.page = s.page /\ r.before = s.before
        /\ r.due \subseteq M /\ Taken(r, M)
    <3> HIDE DEF M
    <3> QED BY <1>1, <1>2, <2>1, RowsTaken DEF M
  <2>3. Good(t, M) /\ t.query = s.query
    <3> HIDE DEF r, M
    <3>1. CASE s.query.marks /\ s.page.ids # {}
      <4> DEFINE u == [r EXCEPT !.stage = "mark"]
      <4>1. /\ u \in Walk /\ u.stage = "mark" /\ u.query = r.query /\ u.due = r.due
            /\ u.page = r.page /\ u.before = r.before /\ u.fetched = r.fetched
            /\ u.quiet = r.quiet /\ u.total = r.total
        BY <2>2 DEF Walk, Stage, Walking
      <4>2. t = u
        BY <3>1
      <4> HIDE DEF u, t
      <4>3. Taken(u, M)
        BY <2>2, <4>1 DEF Taken
      <4>4. Good(u, M)
        BY <2>2, <4>1, <4>3 DEF Good, Taken, Walking, Reading
      <4> QED BY <2>2, <4>1, <4>2, <4>4
    <3>2. CASE ~(s.query.marks /\ s.page.ids # {})
      <4>1. t = Onwards(r, PaginationNext(r.page, r.before))
        BY <2>2, <3>2
      <4> HIDE DEF t
      <4> QED BY <1>2, <2>2, <4>1, OnwardsGood DEF M
    <3> QED BY <3>1, <3>2
  <2> HIDE DEF t
  <2> QED BY <1>3, <2>1, <2>3, OneBecomes
<1>7. CASE Fail(w)
  <2>1. Become(w, Failed) /\ UNCHANGED <<rows, seq>> /\ failures' \in 0..MaxFailures
    BY <1>3, <1>7, BoundsAssumption DEF Fail
  <2> QED BY <2>1, NoPassGood, OneBecomes
<1>8. ASSUME NEW q \in Queries, Start(w, q)
      PROVE  IInv'
  <2> DEFINE t == [Idle(q) EXCEPT !.stage = "ask", !.due = Matching(rows, q)]
  <2>1. Become(w, t) /\ UNCHANGED <<rows, seq, failures>>
    BY <1>8, Zenon DEF Start
  <2>2. Good(t, Matching(rows, q)) /\ t.query = q
    BY <1>2, StartGood
  <2> HIDE DEF t
  <2> QED BY <1>3, <2>1, <2>2, OneBecomes
<1> QED BY <1>4, <1>5, <1>6, <1>7, <1>8

(* MarkPage: the pass sees its own marks, and goes on from what it has.    *)
LEMMA MarkPageGood ==
    ASSUME IInv, NEW w \in Walkers, MarkPage(w)
    PROVE  IInv'
<1> DEFINE s == walk[w]
           table == Marked(rows, s.page.ids, TRUE)
           ahead == Onwards(Seeing(s, table), PaginationNext(s.page, s.before))
           M == Matching(rows, s.query)
           N == Matching(table, s.query)
<1>1. s \in Walk /\ Good(s, M) /\ Table /\ seq \in 0..MaxId /\ failures \in 0..MaxFailures
  BY DEF IInv, Table
<1>2. /\ DOMAIN table \subseteq 1..seq
      /\ \A i \in DOMAIN table : table[i] \in BOOLEAN
  BY <1>1, MarkedTyped
<1>3. s.stage = "mark" /\ rows' = table /\ seq' = seq
  BY Zenon DEF MarkPage
<1>4. PICK mine \in {ahead, Failed} :
        /\ walk' = [v \in Walkers |-> IF v = w THEN mine ELSE Seeing(walk[v], table)]
        /\ failures' \in 0..MaxFailures
  <2> HIDE DEF ahead, table
  <2>1. \/ /\ walk' = [v \in Walkers |-> IF v = w THEN ahead ELSE Seeing(walk[v], table)]
           /\ failures' = failures
        \/ /\ failures < MaxFailures /\ failures' = failures + 1
           /\ walk' = [v \in Walkers |-> IF v = w THEN Failed ELSE Seeing(walk[v], table)]
    BY Zenon DEF MarkPage, ahead, table
  <2>2. failures' \in 0..MaxFailures
    BY <1>1, <2>1, BoundsAssumption
  <2> QED BY <2>1, <2>2, Zenon
<1>5. M \in SUBSET (1..MaxId) /\ N \in SUBSET (1..MaxId)
  <2> HIDE DEF table
  <2> QED BY <1>1, <1>2, MatchingIds DEF Table
<1>6. Good(ahead, N) /\ ahead.query = s.query
  <2> DEFINE u == Seen(s, M, N)
  <2>1. Seeing(s, table) = u
    BY <1>3 DEF Seeing, Seen, Walking
  <2>2. Taken(s, M)
    BY <1>1, <1>3 DEF Good
  <2> HIDE DEF M, N
  <2>3. /\ u \in Walk /\ u.query = s.query /\ u.page = s.page /\ u.before = s.before
        /\ u.due \subseteq N
    BY <1>1, <1>5, SeenKeeps DEF Kept
  <2>4. Taken(u, N)
    BY <1>1, <1>5, <2>2, SeenTaken
  <2>5. ahead = Onwards(u, PaginationNext(u.page, u.before))
    BY <2>1, <2>3, Zenon
  <2> HIDE DEF u, ahead
  <2> QED BY <1>5, <2>3, <2>4, <2>5, OnwardsGood
<1>7. Good(mine, Matching(table, mine.query))
  <2> HIDE DEF ahead, table
  <2>1. CASE mine = ahead
    BY <1>6, <2>1
  <2>2. CASE mine = Failed
    BY <2>2, NoPassGood
  <2> QED BY <2>1, <2>2
<1> HIDE DEF ahead, table
<1>8. /\ walk' = [v \in Walkers |-> walk'[v]]
      /\ \A v \in Walkers : \/ walk'[v] = Seeing(walk[v], table)
                            \/ Good(walk'[v], Matching(table, walk'[v].query))
  BY <1>4, <1>7
<1> QED BY <1>1, <1>2, <1>3, <1>4, <1>8, TableChanges

(* File, FileElsewhere, SetProcessed and Purge: what others do.            *)
LEMMA OthersStep ==
    ASSUME IInv,
           \/ File \/ FileElsewhere \/ Purge
           \/ \E i \in 1..MaxId, mark \in BOOLEAN : SetProcessed(i, mark)
    PROVE  IInv'
<1>1. /\ Table /\ seq \in 0..MaxId /\ failures \in 0..MaxFailures
      /\ DOMAIN rows \subseteq 1..seq
  BY DEF IInv, Table
<1>2. ASSUME NEW table, TableBecomes(table), DOMAIN table \subseteq 1..seq',
             \A i \in DOMAIN table : table[i] \in BOOLEAN,
             seq' \in 0..MaxId, UNCHANGED failures
      PROVE  IInv'
  <2>1. rows' = table /\ walk' = [w \in Walkers |-> Seeing(walk[w], table)]
    BY <1>2, Zenon DEF TableBecomes
  <2>2. /\ walk' = [v \in Walkers |-> walk'[v]]
        /\ \A v \in Walkers : walk'[v] = Seeing(walk[v], table)
    BY <2>1
  <2> QED BY <1>1, <1>2, <2>1, <2>2, TableChanges
<1>3. CASE File
  <2> DEFINE table == [i \in DOMAIN rows \cup {seq + 1} |-> IF i > seq THEN FALSE ELSE rows[i]]
  <2>1. TableBecomes(table) /\ seq' = seq + 1 /\ seq < MaxId /\ UNCHANGED failures
    BY <1>3, Zenon DEF File
  <2>2. seq' \in 0..MaxId /\ DOMAIN table \subseteq 1..seq'
    BY <1>1, <2>1, BoundsAssumption
  <2>3. ASSUME NEW i \in DOMAIN table PROVE table[i] \in BOOLEAN
    <3>1. CASE i > seq
      BY <3>1, Zenon
    <3>2. CASE ~(i > seq)
      <4>1. i \in DOMAIN rows
        BY <1>1, <2>3, <3>2
      <4>2. rows[i] \in BOOLEAN
        BY <1>1, <4>1, Zenon DEF Table
      <4> QED BY <2>3, <3>2, <4>2, Zenon
    <3> QED BY <3>1, <3>2
  <2> HIDE DEF table
  <2> QED BY <1>2, <2>1, <2>2, <2>3
<1>4. CASE FileElsewhere
  <2>1. seq' \in 0..MaxId /\ UNCHANGED <<rows, walk, failures>> /\ 1..seq \subseteq 1..seq'
    BY <1>1, <1>4, BoundsAssumption DEF FileElsewhere
  <2>2. Table'
    BY <1>1, <2>1, Zenon DEF Table
  <2> QED BY <2>1, <2>2 DEF IInv
<1>5. CASE Purge
  <2>1. PICK gone \in SUBSET {i \in DOMAIN rows : rows[i]} :
          TableBecomes([i \in DOMAIN rows \ gone |-> rows[i]])
    BY <1>5, Zenon DEF Purge
  <2> DEFINE table == [i \in DOMAIN rows \ gone |-> rows[i]]
  <2>2. UNCHANGED <<seq, failures>>
    BY <1>5, Zenon DEF Purge
  <2>3. DOMAIN table \subseteq 1..seq
    BY <1>1
  <2>4. \A i \in DOMAIN table : table[i] \in BOOLEAN
    BY <1>1, Zenon DEF Table
  <2> HIDE DEF table
  <2> QED BY <1>1, <1>2, <2>1, <2>2, <2>3, <2>4 DEF table
<1>6. ASSUME NEW i \in 1..MaxId, NEW mark \in BOOLEAN, SetProcessed(i, mark)
      PROVE  IInv'
  <2>1. TableBecomes(Marked(rows, {i}, mark)) /\ UNCHANGED <<seq, failures>>
    BY <1>6, Zenon DEF SetProcessed
  <2>2. /\ DOMAIN Marked(rows, {i}, mark) \subseteq 1..seq
        /\ \A j \in DOMAIN Marked(rows, {i}, mark) : Marked(rows, {i}, mark)[j] \in BOOLEAN
    BY <1>1, MarkedTyped
  <2> DEFINE table == Marked(rows, {i}, mark)
  <2> HIDE DEF table
  <2> QED BY <1>1, <1>2, <2>1, <2>2 DEF table
<1> QED BY <1>3, <1>4, <1>5, <1>6

----------------------------------------------------------------------------
(* The inductive invariant: the table is typed, and every pass is good for *)
(* what its query matches now.                                             *)
THEOREM Invariant == Spec => []IInv
<1>1. Init => IInv
  <2> SUFFICES ASSUME Init PROVE IInv
    OBVIOUS
  <2>1. rows = <<>> /\ seq = 0 /\ failures = 0 /\ walk = [w \in Walkers |-> NoPass]
    BY Zenon DEF Init
  <2>2. DOMAIN rows = {}
    BY <2>1
  <2>3. Table
    BY <2>1, <2>2, BoundsAssumption DEF Table
  <2>4. NoPass \in Walk
    BY NoPassGood DEF Good
  <2>5. walk \in [Walkers -> Walk] /\ \A w \in Walkers : walk[w] = NoPass
    BY <2>1, <2>4
  <2>6. \A w \in Walkers : Good(walk[w], Matching(rows, walk[w].query))
    BY <2>5, NoPassGood
  <2> QED BY <2>3, <2>5, <2>6 DEF IInv
<1>2. IInv /\ [Next]_vars => IInv'
  <2> SUFFICES ASSUME IInv, [Next]_vars PROVE IInv'
    OBVIOUS
  <2>1. CASE UNCHANGED vars
    <3>1. UNCHANGED <<rows, seq, walk, failures>>
      BY <2>1 DEF vars
    <3>2. Table'
      BY <3>1, Zenon DEF IInv, Table
    <3> QED BY <3>1, <3>2 DEF IInv
  <2>2. CASE \E w \in Walkers : Step(w) \/ Fail(w) \/ \E q \in Queries : Start(w, q)
    BY <2>2, OwnSteps, MarkPageGood, Zenon DEF Step
  <2> QED BY <2>1, <2>2, OthersStep, Zenon DEF Next
<1> QED BY <1>1, <1>2, PTL DEF Spec

(* Every reachable state is well typed, and a pass that asks has a cursor  *)
(* just if it has rows, all of them at or above it.                        *)
THEOREM TypeCorrect == Spec => []TypeOK
<1>1. ASSUME IInv, NEW w \in Walkers, walk[w].stage = "ask"
      PROVE  /\ walk[w].before # NoCursor <=> walk[w].fetched # {}
             /\ \A i \in walk[w].fetched : walk[w].before <= i
  BY <1>1 DEF IInv, Good, Divided, Reading
<1>2. IInv => TypeOK
  BY <1>1, Zenon DEF IInv, Table, TypeOK
<1> QED BY <1>2, Invariant, PTL

(* A finished pass has every row it was due, or the newest up to its       *)
(* limit; no page repeats a row and none is malformed; for every page      *)
(* size, limit and number of rows, and whatever others do meanwhile.       *)
THEOREM WalksExact == Spec => []WalkExact
<1>1. ASSUME IInv, NEW w \in Walkers
      PROVE  LET s == walk[w] IN
             /\ s.stage # "malformed"
             /\ s.stage = "answered" => s.page.ids \cap s.fetched = {}
             /\ s.query.cap > 0 => Cardinality(s.fetched) <= s.query.cap
             /\ s.stage = "done" =>
                  \/ s.due = {}
                  \/ /\ s.query.cap > 0
                     /\ Cardinality(s.fetched) = s.query.cap
                     /\ \A i \in s.due : i < Lowest(s.fetched)
  <2> DEFINE s == walk[w]
             M == Matching(rows, s.query)
  <2>1. s \in Walk /\ Good(s, M)
    BY <1>1 DEF IInv
  <2> HIDE DEF s, M
  <2>2. s.stage = "answered" => s.page.ids \cap s.fetched = {}
    <3> SUFFICES ASSUME s.stage = "answered", NEW i \in s.page.ids, i \in s.fetched
                 PROVE  FALSE
      OBVIOUS
    <3>1. s.before # NoCursor /\ s.before <= i
      BY <2>1 DEF Good, Divided, Reading
    <3>2. i < s.before
      BY <2>1, <3>1 DEF Good, Answered
    <3>3. s.before \in Nat /\ i \in Nat
      <4>1. s.before \in Nat /\ s.page.ids \in SUBSET (1..MaxId)
        BY <2>1, WalkTyped
      <4> QED BY <4>1, BoundsAssumption, IdsAreNumbers
    <3> QED BY <3>1, <3>2, <3>3
  <2> QED BY <2>1, <2>2 DEF Good, Ended, s
<1>2. IInv => WalkExact
  BY <1>1, Zenon DEF WalkExact
<1> QED BY <1>2, Invariant, PTL

(* The total of a page is of the page's snapshot, and the total a pass     *)
(* reports of a queue at rest is the number of rows it fetched.            *)
THEOREM TotalsTruthful == Spec => []TotalTruthful
<1>1. ASSUME IInv, NEW w \in Walkers
      PROVE  LET s == walk[w] IN
             /\ s.stage = "answered" =>
                  /\ s.page.total >= Cardinality(s.page.ids) + (IF s.page.more THEN 1 ELSE 0)
                  /\ s.before = NoCursor /\ ~s.page.more => s.page.total = Cardinality(s.page.ids)
             /\ s.stage = "done" /\ s.quiet /\ s.query.cap = 0 =>
                  s.total = Cardinality(s.fetched)
  <2> DEFINE s == walk[w]
             M == Matching(rows, s.query)
  <2>1. Good(s, M)
    BY <1>1 DEF IInv
  <2> HIDE DEF s, M
  <2> QED BY <2>1 DEF Good, Answered, Ended, s
<1>2. IInv => TotalTruthful
  BY <1>1, Zenon DEF TotalTruthful
<1> QED BY <1>2, Invariant, PTL
============================================================================
