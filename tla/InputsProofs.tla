----------------------------- MODULE InputsProofs -----------------------------
(***************************************************************************)
(* Proofs about PageWalk, for any number of projects, any page sizes and   *)
(* any writes between the queries, and about ProjectData, for texts and    *)
(* file lists of any length.                                               *)
(***************************************************************************)
EXTENDS ProjectData, PageWalk, FiniteSetTheorems, TLAPS

-----------------------------------------------------------------------------
\* Pages.

LEMMA SkipAdds ==
  ASSUME NEW page \in Nat \ {0}, NEW limit \in Nat \ {0}
  PROVE  /\ Skip(page, limit) \in Nat
         /\ Skip(page + 1, limit) = Skip(page, limit) + limit
BY SMT DEF Skip

LEMMA FirstSkip == \A limit \in Nat : Skip(1, limit) = 0
BY SMT DEF Skip

\* A list that is longer than the pages read so far has a next one.
LEMMA MoreThanRead ==
  ASSUME NEW page \in Nat \ {0}, NEW limit \in Nat \ {0}, NEW count \in Nat,
         count > Skip(page + 1, limit)
  PROVE  HasNext(page, limit, count)
<1>. DEFINE n == count + limit - 1
            q == n \div limit
<1>1. n \in Nat /\ q \in Nat /\ n < limit * (q + 1)
  BY SMT
<1>2. page * limit < count
  BY SMT DEF Skip
<1>3. SUFFICES ASSUME q <= page PROVE FALSE
  BY <1>1 DEF HasNext, TotalPages
<1>4. limit * (q + 1) <= limit * (page + 1)
  BY <1>1, <1>3, SMT
<1>5. limit * (page + 1) = page * limit + limit
  BY SMT
<1>. QED BY <1>1, <1>2, <1>4, <1>5, SMT

LEMMA LimitPositive == \A limit \in Limits : NormalLimit(limit) \in Nat \ {0}
BY WalkAssumption DEF NormalLimit, AtLeastOne

\* What a write of p does to the place of another project.
LEMMA Removed ==
  ASSUME NEW S, NEW s \in Seq(S), NEW j \in DOMAIN s
  PROVE  /\ RemoveAt(s, j) \in Seq(S) /\ Len(RemoveAt(s, j)) = Len(s) - 1
         /\ \A i \in 1 .. Len(s) - 1 : RemoveAt(s, j)[i] = s[IF i < j THEN i ELSE i + 1]
<1>. DEFINE a == SubSeq(s, 1, j - 1)
            b == SubSeq(s, j + 1, Len(s))
<1>1. /\ a \in Seq(S) /\ Len(a) = j - 1 /\ \A i \in 1 .. j - 1 : a[i] = s[i]
  OBVIOUS
<1>2. /\ b \in Seq(S) /\ Len(b) = Len(s) - j /\ \A i \in 1 .. Len(s) - j : b[i] = s[j + i]
  OBVIOUS
<1>. HIDE DEF a, b
<1>3. a \o b \in Seq(S) /\ Len(a \o b) = Len(s) - 1
  BY <1>1, <1>2
<1>4. ASSUME NEW i \in 1 .. Len(s) - 1 PROVE (a \o b)[i] = s[IF i < j THEN i ELSE i + 1]
  <2>1. CASE i < j
    BY <1>1, <1>2, <2>1
  <2>2. CASE ~(i < j)
    <3>1. i - (j - 1) \in 1 .. Len(s) - j /\ j + (i - (j - 1)) = i + 1
      BY <2>2
    <3>2. (a \o b)[i] = b[i - Len(a)]
      BY <1>1, <1>2, <2>2, <3>1
    <3>3. (a \o b)[i] = s[j + (i - (j - 1))]
      BY <1>1, <1>2, <3>1, <3>2
    <3>. QED BY <2>2, <3>1, <3>3
  <2>. QED BY <2>1, <2>2
<1>. QED BY <1>3, <1>4 DEF RemoveAt, a, b

LEMMA Prepended ==
  ASSUME NEW S, NEW s \in Seq(S), NEW p \in S
  PROVE  /\ <<p>> \o s \in Seq(S) /\ Len(<<p>> \o s) = Len(s) + 1
         /\ \A i \in DOMAIN s : (<<p>> \o s)[i + 1] = s[i]
OBVIOUS

\* Other projects never come closer to the front.
LEMMA Moved ==
  ASSUME NEW S, NEW s \in Seq(S), NEW p \in S, NEW j \in DOMAIN s, s[j] = p,
         NEW i \in DOMAIN s, s[i] # p
  PROVE  LET t == <<p>> \o RemoveAt(s, j) IN
         \E k \in DOMAIN t : k >= i /\ t[k] = s[i]
<1>. DEFINE r == RemoveAt(s, j)
            t == <<p>> \o r
            n == IF i < j THEN i ELSE i - 1
<1>1. /\ r \in Seq(S) /\ Len(r) = Len(s) - 1
      /\ \A m \in 1 .. Len(s) - 1 : r[m] = s[IF m < j THEN m ELSE m + 1]
  BY Removed
<1>2. n \in 1 .. Len(s) - 1 /\ i # j
  OBVIOUS
<1>3. r[n] = s[i]
  BY <1>1, <1>2, SMTT(20)
<1>4. t[n + 1] = r[n] /\ n + 1 \in DOMAIN t /\ n + 1 >= i
  BY <1>1, <1>2, Prepended, SMTT(20)
<1>. QED BY <1>3, <1>4

-----------------------------------------------------------------------------
\* The walk.

\* How many rows the pages cover that were read from the list, the one whose
\* rows are there included.
Covered ==
  IF "findMany" \in walk.pending THEN Skip(walk.page, walk.limit)
  ELSE Skip(walk.page + 1, walk.limit)

\* The projects the client has yet to see.
Unseen == (walk.first \ changed) \ (walk.seen \cup Range(walk.rows))

WalkShape ==
  /\ recency \in Seq(Projects)
  /\ DOMAIN walk = {"at", "page", "limit", "rows", "total", "pending", "seen", "first"}
  /\ walk.at \in {"idle", "querying", "done"}
  /\ {walk.page, walk.limit} \subseteq Nat \ {0} /\ walk.total \in Nat
  /\ walk.pending \in SUBSET {"findMany", "count"}
  /\ "findMany" \in walk.pending => walk.rows = <<>>
  /\ walk.pending # {} => walk.at = "querying"
  /\ left \in BOOLEAN /\ torn \in BOOLEAN

\* What the client has yet to see stands behind the pages it has read, and when
\* it has read a page and its count, there is a next one for it.
WalkInv ==
  /\ WalkShape
  /\ walk.at = "idle" => walk = NotAsked
  /\ ~left /\ walk.at = "querying" =>
       \A p \in Unseen : \E i \in DOMAIN recency : recency[i] = p /\ i > Covered
  /\ ~left /\ ~torn /\ walk.pending = {"findMany"} => walk.total = Len(recency)
  /\ ~left /\ ~torn /\ walk.at = "querying" /\ walk.pending = {} =>
       \A p \in Unseen : walk.total > Covered
  /\ ~left /\ ~torn /\ walk.at = "done" => walk.first \ changed \subseteq walk.seen

LEMMA WalkInvInit == WalkInit => WalkInv
<1>. SUFFICES ASSUME WalkInit PROVE WalkInv
  OBVIOUS
<1>1. WalkShape
  <2>1. recency \in Seq(Projects)
    BY DEF WalkInit
  <2>5. left \in BOOLEAN /\ torn \in BOOLEAN
    BY DEF WalkInit
  <2>2. walk = NotAsked
    BY DEF WalkInit
  <2>3. DOMAIN walk = {"at", "page", "limit", "rows", "total", "pending", "seen", "first"}
    BY <2>2 DEF NotAsked
  <2>4. /\ walk.at = "idle" /\ walk.page = 1 /\ walk.limit = 1 /\ walk.rows = <<>> /\ walk.total = 0
        /\ walk.pending = {}
    BY <2>2 DEF NotAsked
  <2>. QED BY <2>1, <2>3, <2>4, <2>5 DEF WalkShape
<1>. QED BY <1>1 DEF WalkInit, WalkInv, NotAsked

LEMMA StartWalk == WalkInv /\ Start => WalkInv'
<1>. SUFFICES ASSUME WalkInv, Start PROVE WalkInv'
  OBVIOUS
<1>1. PICK limit \in Limits, list \in SetToSeqs(Projects), dropped \in {0, 1} :
        /\ recency' = SubSeq(list, 1 + dropped, Len(list))
        /\ walk' = [NotAsked EXCEPT !.at = "querying", !.limit = NormalLimit(limit),
                                   !.pending = {"findMany", "count"}, !.first = Range(recency')]
  BY DEF Start
<1>2. Cardinality(Projects) \in Nat
  BY WalkAssumption, FS_CardinalityType
<1>3. list \in Seq(Projects)
  BY <1>2 DEF SetToSeqs
<1>4. recency' \in Seq(Projects)
  BY <1>1, <1>3
<1>5. NormalLimit(limit) \in Nat \ {0}
  BY LimitPositive
<1>6. walk' = [at |-> "querying", page |-> 1, limit |-> NormalLimit(limit), rows |-> <<>>,
               total |-> 0, pending |-> {"findMany", "count"}, seen |-> {},
               first |-> Range(recency')]
  BY <1>1 DEF NotAsked
<1>7. WalkShape'
  <2>1. left' \in BOOLEAN /\ torn' \in BOOLEAN
    BY DEF WalkInv, WalkShape, Start
  <2>2. DOMAIN walk' = {"at", "page", "limit", "rows", "total", "pending", "seen", "first"}
    BY <1>6
  <2>3. /\ walk'.at = "querying" /\ walk'.page = 1 /\ walk'.limit = NormalLimit(limit)
        /\ walk'.rows = <<>> /\ walk'.total = 0 /\ walk'.pending = {"findMany", "count"}
    BY <1>6
  <2>. QED BY <1>4, <1>5, <2>1, <2>2, <2>3 DEF WalkShape
<1>8. Covered' = 0
  BY <1>5, <1>6, FirstSkip DEF Covered
<1>9. \A p \in Unseen' : \E i \in DOMAIN recency' : recency'[i] = p /\ i > Covered'
  <2>1. Unseen' \subseteq Range(recency')
    BY <1>6 DEF Unseen
  <2>2. \A i \in DOMAIN recency' : i > 0
    BY <1>4
  <2>. QED BY <1>8, <2>1, <2>2 DEF Range
<1>. QED BY <1>6, <1>7, <1>9 DEF WalkInv

\* A step of the client and its queries.
LEMMA PageWalked ==
  ASSUME WalkInv, FindMany \/ Count \/ Receive
  PROVE  WalkInv'
<1>. DEFINE page == walk.page
            limit == walk.limit
            from == Skip(page, limit)
            to == Skip(page + 1, limit)
<1>1. /\ from \in Nat /\ to = from + limit /\ Skip(page + 2, limit) = to + limit
      /\ page \in Nat \ {0} /\ limit \in Nat \ {0}
  <2>1. page \in Nat \ {0} /\ limit \in Nat \ {0} /\ page + 1 \in Nat \ {0} /\ (page + 1) + 1 = page + 2
    BY DEF WalkInv, WalkShape
  <2>. QED BY <2>1, SkipAdds
<1>2. ASSUME FindMany PROVE WalkInv'
  <2>. DEFINE last == IF from + limit < Len(recency) THEN from + limit ELSE Len(recency)
              rows == SubSeq(recency, from + 1, last)
  <2>1. /\ "findMany" \in walk.pending /\ walk.at = "querying" /\ walk.rows = <<>>
        /\ recency' = recency /\ changed' = changed /\ left' = left /\ torn' = torn
        /\ walk' = [walk EXCEPT !.pending = @ \ {"findMany"}, !.rows = rows]
    BY <1>2 DEF FindMany, WalkInv, WalkShape
  <2>2. /\ DOMAIN walk' = DOMAIN walk /\ walk'.at = "querying" /\ walk'.page = page
        /\ walk'.limit = limit /\ walk'.total = walk.total
        /\ walk'.pending = walk.pending \ {"findMany"} /\ walk'.rows = rows
        /\ walk'.seen = walk.seen /\ walk'.first = walk.first
    BY <2>1 DEF WalkInv, WalkShape
  <2>3. WalkShape'
    BY <2>1, <2>2 DEF WalkInv, WalkShape
  <2>4. Covered = from /\ Covered' = to
    BY <2>1, <2>2 DEF Covered
  <2>5. \A i \in DOMAIN recency : from < i /\ i <= to => recency[i] \in Range(rows)
    <3>. SUFFICES ASSUME NEW i \in DOMAIN recency, from < i, i <= to
                  PROVE  recency[i] \in Range(rows)
      OBVIOUS
    <3>1. recency \in Seq(Projects)
      BY DEF WalkInv, WalkShape
    <3>2. i \in Nat /\ i <= Len(recency) /\ i <= from + limit /\ i <= last /\ last \in Nat
          /\ last <= Len(recency)
      BY <1>1, <3>1
    <3>3. rows = SubSeq(recency, from + 1, last) /\ from \in Nat
      BY <1>1
    <3>. HIDE DEF from, rows, last
    <3>4. i - from \in 1 .. last - from /\ from + (i - from) = i
      BY <1>1, <3>2
    <3>6. DOMAIN rows = 1 .. last - from
      BY <3>1, <3>2, <3>3
    <3>7. \A k \in 1 .. last - from : rows[k] = recency[from + k]
      BY <3>1, <3>2, <3>3
    <3>5. i - from \in DOMAIN rows /\ rows[i - from] = recency[i]
      BY <3>4, <3>6, <3>7
    <3>. QED BY <3>5 DEF Range
  <2>6. Unseen' \subseteq Unseen /\ Unseen' \cap Range(rows) = {}
    <3>1. Range(walk.rows) = {}
      BY <2>1 DEF Range
    <3>. QED BY <2>1, <2>2, <3>1 DEF Unseen
  <2>7. ~left => \A p \in Unseen' : \E i \in DOMAIN recency : recency[i] = p /\ i > to
    BY <1>1, <2>1, <2>4, <2>5, <2>6 DEF WalkInv, WalkShape
  <2>8. ~left /\ ~torn /\ walk'.pending = {} => \A p \in Unseen' : walk.total > to
    <3>1. walk'.pending = {} => walk.pending = {"findMany"}
      BY <2>1, <2>2
    <3>2. recency \in Seq(Projects)
      BY DEF WalkInv, WalkShape
    <3>. QED BY <1>1, <2>7, <3>1, <3>2 DEF WalkInv
  <2>. QED BY <2>1, <2>2, <2>3, <2>4, <2>7, <2>8 DEF WalkInv
<1>3. ASSUME Count PROVE WalkInv'
  <2>1. /\ "count" \in walk.pending /\ walk.at = "querying"
        /\ recency' = recency /\ changed' = changed /\ left' = left /\ torn' = torn
        /\ walk' = [walk EXCEPT !.pending = @ \ {"count"}, !.total = Len(recency)]
    BY <1>3 DEF Count, WalkInv, WalkShape
  <2>2. /\ DOMAIN walk' = DOMAIN walk /\ walk'.at = "querying" /\ walk'.page = page
        /\ walk'.limit = limit /\ walk'.total = Len(recency)
        /\ walk'.pending = walk.pending \ {"count"} /\ walk'.rows = walk.rows
        /\ walk'.seen = walk.seen /\ walk'.first = walk.first
    BY <2>1 DEF WalkInv, WalkShape
  <2>3. WalkShape'
    BY <2>1, <2>2 DEF WalkInv, WalkShape
  <2>4. Covered' = Covered /\ Covered \in Nat
    BY <1>1, <2>1, <2>2 DEF Covered
  <2>5. Unseen' = Unseen
    BY <2>1, <2>2 DEF Unseen
  <2>6. ~left => \A p \in Unseen : Len(recency) > Covered
    <3>1. recency \in Seq(Projects)
      BY DEF WalkInv, WalkShape
    <3>. QED BY <2>1, <2>4, <3>1 DEF WalkInv
  <2>. QED BY <2>1, <2>2, <2>3, <2>4, <2>5, <2>6 DEF WalkInv
<1>4. ASSUME Receive PROVE WalkInv'
  <2>. DEFINE seen == walk.seen \cup Range(walk.rows)
  <2>1. /\ walk.at = "querying" /\ walk.pending = {}
        /\ recency' = recency /\ changed' = changed /\ left' = left /\ torn' = torn
    BY <1>4 DEF Receive
  <2>2. Covered = to
    BY <2>1 DEF Covered
  <2>3. CASE HasNext(page, limit, walk.total)
    <3>1. walk' = [walk EXCEPT !.seen = seen, !.page = @ + 1, !.rows = <<>>,
                               !.pending = {"findMany", "count"}]
      BY <1>4, <2>3 DEF Receive
    <3>2. /\ DOMAIN walk' = DOMAIN walk /\ walk'.at = "querying" /\ walk'.page = page + 1
          /\ walk'.limit = limit /\ walk'.total = walk.total
          /\ walk'.pending = {"findMany", "count"} /\ walk'.rows = <<>>
          /\ walk'.seen = seen /\ walk'.first = walk.first
      BY <2>1, <3>1 DEF WalkInv, WalkShape
    <3>3. WalkShape'
      BY <1>1, <2>1, <3>2 DEF WalkInv, WalkShape
    <3>4. Covered' = to
      BY <3>2 DEF Covered
    <3>5. Unseen' = Unseen
      BY <2>1, <3>2 DEF Unseen, Range
    <3>. QED BY <2>1, <2>2, <3>2, <3>3, <3>4, <3>5 DEF WalkInv
  <2>4. CASE ~HasNext(page, limit, walk.total)
    <3>1. walk' = [walk EXCEPT !.seen = seen, !.at = "done", !.rows = <<>>]
      BY <1>4, <2>4 DEF Receive
    <3>2. /\ DOMAIN walk' = DOMAIN walk /\ walk'.at = "done" /\ walk'.page = page
          /\ walk'.limit = limit /\ walk'.total = walk.total
          /\ walk'.pending = {} /\ walk'.rows = <<>>
          /\ walk'.seen = seen /\ walk'.first = walk.first
      BY <2>1, <3>1 DEF WalkInv, WalkShape
    <3>3. WalkShape'
      BY <1>1, <2>1, <3>2 DEF WalkInv, WalkShape
    <3>4. ~(walk.total > to)
      BY <1>1, <2>4, MoreThanRead DEF WalkInv, WalkShape
    <3>5. ~left /\ ~torn => Unseen = {}
      BY <2>1, <2>2, <3>4 DEF WalkInv
    <3>6. ~left /\ ~torn => walk.first \ changed \subseteq seen
      BY <3>5 DEF Unseen
    <3>. QED BY <2>1, <3>2, <3>3, <3>6 DEF WalkInv
  <2>. QED BY <2>3, <2>4
<1>. QED BY <1>2, <1>3, <1>4

\* A write of another request.
LEMMA ListWritten ==
  ASSUME WalkInv, NEW p \in Projects, Touch(p) \/ Leave(p)
  PROVE  WalkInv'
<1>1. recency \in Seq(Projects) /\ walk' = walk /\ walk.at = "querying"
  BY DEF WalkInv, WalkShape, Touch, Leave
<1>2. Covered' = Covered /\ Unseen' = Unseen \ {p} /\ Covered \in Nat
  <2>1. Covered' = Covered /\ Unseen' = Unseen \ {p}
    BY <1>1 DEF Covered, Unseen, Touch, Leave
  <2>2. walk.page \in Nat \ {0} /\ walk.limit \in Nat \ {0} /\ walk.page + 1 \in Nat \ {0}
    BY DEF WalkInv, WalkShape
  <2>. QED BY <2>1, <2>2, SkipAdds DEF Covered
<1>3. ASSUME Leave(p) PROVE WalkInv'
  <2>1. left' = TRUE /\ torn' = torn
    BY <1>3 DEF Leave
  <2>2. recency' \in Seq(Projects)
    BY <1>1, <1>3, Removed DEF Leave
  <2>3. WalkShape'
    BY <1>1, <2>1, <2>2 DEF WalkInv, WalkShape
  <2>. QED BY <1>1, <2>1, <2>3 DEF WalkInv
<1>4. ASSUME p \notin Range(recency), Touch(p) PROVE WalkInv'
  <2>1. /\ recency' = <<p>> \o recency /\ left' = left
        /\ torn' = (torn \/ walk.pending = {"findMany"})
    BY <1>4 DEF Touch, Range
  <2>2. /\ recency' \in Seq(Projects) /\ Len(recency') = Len(recency) + 1
        /\ \A i \in DOMAIN recency : recency'[i + 1] = recency[i]
    BY <1>1, <2>1, Prepended
  <2>3. torn' \in BOOLEAN
    BY <2>1 DEF WalkInv, WalkShape
  <2>4. WalkShape'
    BY <1>1, <2>1, <2>2, <2>3 DEF WalkInv, WalkShape
  <2>5. \A i \in DOMAIN recency : i + 1 \in DOMAIN recency' /\ i + 1 > i
    BY <1>1, <2>2
  <2>6. ~left => \A q \in Unseen' : \E i \in DOMAIN recency' : recency'[i] = q /\ i > Covered
    <3>. SUFFICES ASSUME ~left, NEW q \in Unseen'
                  PROVE  \E i \in DOMAIN recency' : recency'[i] = q /\ i > Covered
      OBVIOUS
    <3>1. PICK i \in DOMAIN recency : recency[i] = q /\ i > Covered
      BY <1>1, <1>2 DEF WalkInv
    <3>. QED BY <1>1, <1>2, <2>2, <2>5, <3>1
  <2>7. ~torn' => ~torn /\ walk.pending # {"findMany"}
    BY <2>1
  <2>. QED BY <1>1, <1>2, <2>1, <2>4, <2>6, <2>7 DEF WalkInv
<1>5. ASSUME p \in Range(recency), Touch(p) PROVE WalkInv'
  <2>1. PICK j \in DOMAIN recency : recency[j] = p /\ recency' = <<p>> \o RemoveAt(recency, j)
    BY <1>5 DEF Touch
  <2>2. left' = left /\ torn' = torn
    BY <1>5 DEF Touch
  <2>3. recency' \in Seq(Projects) /\ Len(recency') = Len(recency)
    <3>1. RemoveAt(recency, j) \in Seq(Projects) /\ Len(RemoveAt(recency, j)) = Len(recency) - 1
      BY <1>1, Removed
    <3>2. /\ recency' \in Seq(Projects)
          /\ Len(recency') = Len(RemoveAt(recency, j)) + 1
      BY <2>1, <3>1, Prepended
    <3>. QED BY <1>1, <3>1, <3>2
  <2>4. WalkShape'
    BY <1>1, <2>2, <2>3 DEF WalkInv, WalkShape
  <2>5. ~left => \A q \in Unseen' : \E i \in DOMAIN recency' : recency'[i] = q /\ i > Covered
    <3>. SUFFICES ASSUME ~left, NEW q \in Unseen'
                  PROVE  \E i \in DOMAIN recency' : recency'[i] = q /\ i > Covered
      OBVIOUS
    <3>1. PICK i \in DOMAIN recency : recency[i] = q /\ i > Covered
      BY <1>1, <1>2 DEF WalkInv
    <3>2. PICK k \in DOMAIN recency' : k >= i /\ recency'[k] = recency[i]
      BY <1>1, <1>2, <2>1, <3>1, Moved
    <3>. QED BY <1>1, <1>2, <2>3, <3>1, <3>2
  <2>. QED BY <1>1, <1>2, <2>2, <2>3, <2>4, <2>5 DEF WalkInv
<1>. QED BY <1>3, <1>4, <1>5

\* A project that nobody changes during a walk is on one of its pages, for any
\* number of projects, any page size, and any number of projects that are created
\* and changed, as long as none leaves the list and none is created between a
\* count and its rows (findByOwner, PaginationDto.getSkip, hasNext).
THEOREM UntouchedOnAPage == WalkSpec => []UntouchedSeen
<1>1. WalkInv /\ [WalkNext]_walkVars => WalkInv'
  <2>. SUFFICES ASSUME WalkInv, [WalkNext]_walkVars PROVE WalkInv'
    OBVIOUS
  <2>1. CASE UNCHANGED walkVars
    BY <2>1 DEF walkVars, WalkInv, WalkShape, Unseen, Covered
  <2>. QED BY <2>1, StartWalk, PageWalked, ListWritten DEF WalkNext
<1>2. WalkInv => UntouchedSeen
  BY DEF WalkInv, UntouchedSeen
<1>. QED BY <1>1, <1>2, WalkInvInit, PTL DEF WalkSpec

-----------------------------------------------------------------------------
\* The data of a project.

\* What a description may count.
Short(t) == t.units \in Nat /\ t.units <= 1000

IsText(t) ==
  DOMAIN t = {"units", "chars", "has"} /\ t.units \in Nat /\ t.chars \in 0 .. t.units

\* What a request brings, before anybody has looked at it.
Brought(r) ==
  /\ r.op \in {"none", "create", "update", "updateGeneratedFiles"}
  /\ r.op = "none" => r.at = "none"
  /\ r.op = "create" =>
       /\ DOMAIN r = {"op", "at", "name", "description", "prompt", "uploaded"}
       /\ IsText(r.name) /\ Given(r.name) /\ IsText(r.prompt) /\ Given(r.prompt)
       /\ IsText(r.description) /\ (Given(r.description) \/ r.description = Absent)
  /\ r.op = "update" =>
       /\ DOMAIN r = {"op", "at", "name", "description"}
       /\ IsText(r.name) /\ IsText(r.description)
       /\ Given(r.description) \/ r.description = Absent
  /\ r.op = "updateGeneratedFiles" =>
       /\ DOMAIN r = {"op", "at", "ids", "mode"} /\ r.mode \in {"append", "replace"}
       /\ IsList(r.ids)

\* What the pipe has seen to, and what the service has.
Piped(r) ==
  /\ r.op = "create" =>
       /\ DtoNameOk(r.name) /\ DtoDescriptionOk(r.description)
       /\ DtoPromptOk(r.prompt) /\ DtoFilesOk(r.uploaded)
  /\ r.op = "update" => UpdateNameOk(r.name) /\ UpdateDescriptionOk(r.description)
  /\ r.op = "updateGeneratedFiles" => Forms(r.ids) \subseteq {"v4"}
Served(r) == r.op = "create" => CreateIsValid(r.name, r.prompt)

RequestOK(r) ==
  /\ Brought(r)
  /\ r.at \in {"service", "repository"} => Piped(r)
  /\ r.at = "repository" => Served(r)

Clean(t) == t.has \notin {"markup", "scheme", "handler"}

\* What is in a row, and how many generated files the last event told.
RowOK(r, count) ==
  /\ DOMAIN r = {"name", "description", "prompt", "uploaded", "generated", "status", "statistics"}
  /\ r.name.units \in NameLength /\ r.prompt.units \in PromptLength
  /\ Short(r.description)
  /\ Clean(r.name) /\ Clean(r.prompt) /\ Clean(r.description)
  /\ IsText(r.prompt) /\ IsList(r.generated) /\ count = Len(r.generated)

DataInv ==
  /\ RequestOK(request)
  /\ request.op \in {"update", "updateGeneratedFiles"} => row # NoRow
  /\ row # NoRow => RowOK(row, total)

LEMMA Texts ==
  /\ IsText(Absent) /\ ~Given(Absent) /\ IsText(Empty) /\ Given(Empty)
  /\ IsText(OrdinaryName) /\ Given(OrdinaryName) /\ IsText(OrdinaryPrompt) /\ Given(OrdinaryPrompt)
  /\ \A t \in Names \cup Descriptions \cup Prompts : IsText(t) /\ Given(t)
<1>1. IsText(Absent) /\ ~Given(Absent)
  BY DEF IsText, Given, Absent
<1>2. IsText(Empty) /\ Given(Empty)
  BY DEF IsText, Given, Empty, Text
<1>3. IsText(OrdinaryName) /\ Given(OrdinaryName) /\ IsText(OrdinaryPrompt) /\ Given(OrdinaryPrompt)
  BY DEF IsText, Given, OrdinaryName, OrdinaryPrompt, Text
<1>. QED BY <1>1, <1>2, <1>3, DataAssumption DEF IsText

LEMMA Listed ==
  ASSUME NEW S, NEW s \in Seq(S)
  PROVE  IsList(s)
<1>. DEFINE T == {s[i] : i \in DOMAIN s}
<1>1. Len(s) \in Nat /\ DOMAIN s = 1 .. Len(s) /\ s = [i \in 1 .. Len(s) |-> s[i]]
  OBVIOUS
<1>2. \A i \in 1 .. Len(s) : s[i] \in T
  BY <1>1
<1>. HIDE DEF T
<1>3. s \in Seq(T)
  BY <1>1, <1>2
<1>. QED BY <1>3 DEF IsList, T

\* An append makes the list longer by the ids it does not have.
LEMMA Appending ==
  ASSUME NEW files, IsList(files), NEW ids, IsList(ids)
  PROVE  /\ IsList(Appended(files, ids))
         /\ Len(Appended(files, ids)) = Len(files) + Cardinality(NewPlaces(files, ids))
<1>. DEFINE n == Cardinality(NewPlaces(files, ids))
            new == NewIds(files, ids)
            S == {files[i] : i \in DOMAIN files} \cup {new[k] : k \in DOMAIN new}
            t == files \o new
<1>1. n \in Nat
  <2>1. DOMAIN ids = 1 .. Len(ids) /\ Len(ids) \in Nat
    BY DEF IsList
  <2>2. IsFiniteSet(1 .. Len(ids))
    BY <2>1, FS_Interval
  <2>3. IsFiniteSet(NewPlaces(files, ids))
    BY <2>1, <2>2, FS_Subset DEF NewPlaces
  <2>. QED BY <2>3, FS_CardinalityType
<1>2. DOMAIN new = 1 .. n
  BY DEF NewIds
<1>3. new = [k \in 1 .. n |-> new[k]]
  BY DEF NewIds
<1>. HIDE DEF n, new
<1>4. new \in Seq(S) /\ Len(new) = n
  BY <1>1, <1>2, <1>3
<1>5. files \in Seq(S)
  BY DEF IsList
<1>. HIDE DEF S
<1>6. t \in Seq(S) /\ Len(t) = Len(files) + n
  BY <1>4, <1>5
<1>7. IsList(t)
  BY <1>6, Listed
<1>. QED BY <1>6, <1>7 DEF Appended, t, new, n

LEMMA DataInvInit == DataInit => DataInv
<1>1. NoRequest.op = "none" /\ NoRequest.at = "none"
  BY DEF NoRequest
<1>2. RequestOK(NoRequest)
  BY <1>1 DEF RequestOK, Brought
<1>. QED BY <1>1, <1>2 DEF DataInit, DataInv

LEMMA Sent ==
  ASSUME DataInv, SendRequest
  PROVE  DataInv'
<1>1. row' = row /\ total' = total
  BY DEF SendRequest, Send
<1>2. ASSUME NEW b \in Bodies,
             request' = [op |-> "create", at |-> "pipe", name |-> b.name,
                         description |-> b.description, prompt |-> b.prompt,
                         uploaded |-> b.uploaded]
      PROVE  RequestOK(request')
  <2>1. /\ b.name \in Names \cup {OrdinaryName} /\ b.prompt \in Prompts \cup {OrdinaryPrompt}
        /\ b.description \in Descriptions \cup {Absent}
    BY DEF Bodies
  <2>. DEFINE r == request'
  <2>2. /\ r.op = "create" /\ r.at = "pipe" /\ r.name = b.name /\ r.description = b.description
        /\ r.prompt = b.prompt
        /\ DOMAIN r = {"op", "at", "name", "description", "prompt", "uploaded"}
    BY <1>2
  <2>. QED BY <2>1, <2>2, Texts DEF RequestOK, Brought
<1>3. ASSUME NEW n \in Names \cup {Absent}, NEW d \in Descriptions \cup {Absent},
             request' = [op |-> "update", at |-> "pipe", name |-> TransformName(n),
                         description |-> TransformDescription(d)]
      PROVE  RequestOK(request')
  <2>1. IsText(n) /\ IsText(d) /\ (Given(d) \/ d = Absent)
    BY Texts
  <2>2. IsText(TransformName(n)) /\ IsText(TransformDescription(d))
    BY <2>1, Texts DEF TransformName, TransformDescription
  <2>3. Given(TransformDescription(d)) \/ TransformDescription(d) = Absent
    BY <2>1, Texts DEF TransformDescription
  <2>. DEFINE r == request'
  <2>4. /\ r.op = "update" /\ r.at = "pipe" /\ r.name = TransformName(n)
        /\ r.description = TransformDescription(d)
        /\ DOMAIN r = {"op", "at", "name", "description"}
    BY <1>3
  <2>. QED BY <2>2, <2>3, <2>4 DEF RequestOK, Brought
<1>4. ASSUME NEW ids \in FileLists, NEW mode \in {"append", "replace"},
             request' = [op |-> "updateGeneratedFiles", at |-> "pipe", ids |-> ids, mode |-> mode]
      PROVE  RequestOK(request')
  BY <1>4, DataAssumption DEF RequestOK, Brought
<1>5. RequestOK(request')
  BY <1>2, <1>3, <1>4 DEF SendRequest, Send
<1>6. request'.op = "create" \/ row # NoRow
  <2>1. ASSUME NEW b, request' = [op |-> "create", at |-> "pipe", name |-> b.name,
                                  description |-> b.description, prompt |-> b.prompt,
                                  uploaded |-> b.uploaded]
        PROVE  request'.op = "create"
    BY <2>1
  <2>. QED BY <2>1 DEF SendRequest, Send
<1>. QED BY <1>1, <1>5, <1>6 DEF DataInv

\* A request that goes on brings what it brought.
LEMMA SameRequest ==
  ASSUME NEW r, Brought(r), NEW place, r.op # "none"
  PROVE  LET q == [r EXCEPT !.at = place] IN
         /\ Brought(q) /\ q.at = place /\ q.op = r.op
         /\ Piped(r) => Piped(q)
         /\ Served(r) => Served(q)
<1>. DEFINE q == [r EXCEPT !.at = place]
<1>1. CASE r.op = "create"
  <2>1. /\ q.op = r.op /\ q.at = place /\ q.name = r.name /\ q.description = r.description
        /\ q.prompt = r.prompt /\ q.uploaded = r.uploaded /\ DOMAIN q = DOMAIN r
    BY <1>1 DEF Brought
  <2>. HIDE DEF q
  <2>. QED BY <1>1, <2>1 DEF Brought, Piped, Served
<1>2. CASE r.op = "update"
  <2>1. /\ q.op = r.op /\ q.at = place /\ q.name = r.name /\ q.description = r.description
        /\ DOMAIN q = DOMAIN r
    BY <1>2 DEF Brought
  <2>. HIDE DEF q
  <2>. QED BY <1>2, <2>1 DEF Brought, Piped, Served
<1>3. CASE r.op = "updateGeneratedFiles"
  <2>1. /\ q.op = r.op /\ q.at = place /\ q.ids = r.ids /\ q.mode = r.mode /\ DOMAIN q = DOMAIN r
    BY <1>3 DEF Brought
  <2>. HIDE DEF q
  <2>. QED BY <1>3, <2>1 DEF Brought, Piped, Served
<1>. QED BY <1>1, <1>2, <1>3 DEF Brought

LEMMA NothingAsked == RequestOK(NoRequest)
BY DEF NoRequest, RequestOK, Brought

LEMMA Piping ==
  ASSUME DataInv, Pipe
  PROVE  DataInv'
<1>1. row' = row /\ total' = total /\ request.at = "pipe"
  BY DEF Pipe, Check, Pass, Refuse
<1>2. CASE request' = NoRequest
  BY <1>1, <1>2, NothingAsked DEF DataInv, NoRequest
<1>3. CASE request' # NoRequest
  <2>1. request' = [request EXCEPT !.at = "service"]
    BY <1>3 DEF Pipe, Check, Pass, Refuse
  <2>2. Brought(request)
    BY DEF DataInv, RequestOK
  <2>3. request.op # "none"
    BY <1>1, <2>2 DEF Brought
  <2>4. Piped(request)
    BY <1>3, <2>2, <2>3 DEF Pipe, Check, Pass, Refuse, Piped, Brought
  <2>5. /\ Brought(request') /\ Piped(request')
        /\ request'.at = "service" /\ request'.op = request.op
    BY <2>1, <2>2, <2>3, <2>4, SameRequest
  <2>. QED BY <1>1, <2>5 DEF DataInv, RequestOK
<1>. QED BY <1>2, <1>3

LEMMA Serving ==
  ASSUME DataInv, Service
  PROVE  DataInv'
<1>1. row' = row /\ total' = total /\ request.at = "service"
  BY DEF Service, Check, Pass, Refuse
<1>2. CASE request' = NoRequest
  BY <1>1, <1>2, NothingAsked DEF DataInv, NoRequest
<1>3. CASE request' # NoRequest
  <2>1. request' = [request EXCEPT !.at = "repository"]
    BY <1>3 DEF Service, Check, Pass, Refuse
  <2>2. Brought(request) /\ Piped(request)
    BY <1>1 DEF DataInv, RequestOK
  <2>3. request.op # "none"
    BY <1>1, <2>2 DEF Brought
  <2>4. Served(request)
    BY <1>3, <2>2, <2>3 DEF Service, Check, Pass, Refuse, Served, Brought
  <2>5. /\ Brought(request') /\ Piped(request') /\ Served(request')
        /\ request'.at = "repository" /\ request'.op = request.op
    BY <2>1, <2>2, <2>3, <2>4, SameRequest
  <2>. QED BY <1>1, <2>5 DEF DataInv, RequestOK
<1>. QED BY <1>2, <1>3

\* What the repository lets in is what a row may hold.
LEMMA Created ==
  ASSUME NEW r, r.op = "create", Brought(r), Piped(r), Served(r),
         ValidateCreateData(r.name, r.description, r.prompt, r.uploaded)
  PROVE  /\ r.name.units \in NameLength /\ r.prompt.units \in PromptLength
         /\ Short(StoredDescription(r.description))
         /\ Clean(r.name) /\ Clean(r.prompt) /\ Clean(StoredDescription(r.description))
<1>1. r.name.units \in NameLength /\ r.prompt.units \in PromptLength /\ r.description.units <= 1000
  BY DEF ValidateCreateData, RepositoryNameOk
<1>2. Clean(r.name)
  BY DEF Piped, Served, Clean, DtoNameOk, CreateIsValid, Dangerous
<1>3. Clean(r.prompt)
  BY DEF Piped, Clean, DtoPromptOk
<1>4. Clean(r.description)
  BY DEF Piped, Clean, DtoDescriptionOk, Given
<1>5. Short(r.description)
  BY <1>1, Texts DEF Brought, IsText, Short
<1>6. /\ Short(StoredDescription(r.description))
      /\ Clean(StoredDescription(r.description))
  BY <1>4, <1>5 DEF StoredDescription, Absent, Clean, Short
<1>. QED BY <1>1, <1>2, <1>3, <1>6

LEMMA Updated ==
  ASSUME NEW r, r.op = "update", Brought(r), Piped(r), ValidateUpdateData(r.name, r.description),
         NEW old, NEW count, RowOK(old, count)
  PROVE  LET description == StoredDescription(NewValue(old.description, r.description)) IN
         /\ NewValue(old.name, r.name).units \in NameLength /\ Clean(NewValue(old.name, r.name))
         /\ Short(description) /\ Clean(description)
<1>1. NewValue(old.name, r.name).units \in NameLength /\ Clean(NewValue(old.name, r.name))
  BY DEF ValidateUpdateData, RepositoryNameOk, RowOK, NewValue, Piped, UpdateNameOk, Clean
<1>2. Short(r.description)
  BY DEF ValidateUpdateData, Brought, IsText, Short
<1>3. /\ Short(NewValue(old.description, r.description))
      /\ Clean(NewValue(old.description, r.description))
  BY <1>2 DEF RowOK, NewValue, Piped, UpdateDescriptionOk, Clean
<1>. QED BY <1>1, <1>3 DEF StoredDescription, Absent, Clean, Short

\* The row that is written.
LEMMA Storing ==
  ASSUME DataInv, Repository
  PROVE  DataInv'
<1>. DEFINE r == request
<1>1. r.at = "repository" /\ request' = NoRequest /\ Brought(r) /\ Piped(r) /\ Served(r)
  BY DEF Repository, Write, Refuse, DataInv, RequestOK
<1>2. r.op \in {"update", "updateGeneratedFiles"} => RowOK(row, total)
  BY DEF DataInv
<1>3. ASSUME r.op = "create", ValidateCreateData(r.name, r.description, r.prompt, r.uploaded),
             row' = [name |-> r.name, description |-> StoredDescription(r.description),
                     prompt |-> r.prompt, uploaded |-> r.uploaded, generated |-> <<>>,
                     status |-> "ACTIVE", statistics |-> FALSE],
             total' = 0
      PROVE  RowOK(row', total')
  <2>1. /\ row'.name = r.name /\ row'.prompt = r.prompt
        /\ row'.description = StoredDescription(r.description) /\ row'.generated = <<>>
        /\ DOMAIN row' = {"name", "description", "prompt", "uploaded", "generated", "status",
                          "statistics"}
    BY <1>3
  <2>2. /\ r.name.units \in NameLength /\ r.prompt.units \in PromptLength
        /\ Short(StoredDescription(r.description))
        /\ Clean(r.name) /\ Clean(r.prompt) /\ Clean(StoredDescription(r.description))
    BY <1>1, <1>3, Created
  <2>3. total' = Len(row'.generated) /\ IsList(row'.generated)
    BY <1>3, <2>1 DEF IsList
  <2>4. IsText(row'.prompt)
    BY <1>1, <1>3, <2>1 DEF Brought
  <2>. QED BY <2>1, <2>2, <2>3, <2>4 DEF RowOK
<1>4. ASSUME r.op = "update", ValidateUpdateData(r.name, r.description), RowOK(row, total),
             row' = [row EXCEPT !.name = NewValue(@, r.name),
                                !.description = StoredDescription(NewValue(@, r.description))],
             total' = total
      PROVE  RowOK(row', total')
  <2>1. /\ row'.name = NewValue(row.name, r.name) /\ row'.prompt = row.prompt
        /\ row'.description = StoredDescription(NewValue(row.description, r.description))
        /\ row'.generated = row.generated /\ DOMAIN row' = DOMAIN row
    BY <1>4 DEF RowOK
  <2>2. LET description == StoredDescription(NewValue(row.description, r.description)) IN
        /\ NewValue(row.name, r.name).units \in NameLength /\ Clean(NewValue(row.name, r.name))
        /\ Short(description) /\ Clean(description)
    BY <1>1, <1>4, Updated
  <2>. QED BY <1>4, <2>1, <2>2 DEF RowOK
<1>5. ASSUME r.op = "updateGeneratedFiles", RowOK(row, total),
             row' = [row EXCEPT !.generated = IF r.mode = "append" THEN Appended(@, r.ids) ELSE r.ids],
             total' = TotalOfEvent(row.generated, r.ids, r.mode)
      PROVE  RowOK(row', total')
  <2>1. /\ row'.name = row.name /\ row'.prompt = row.prompt /\ row'.description = row.description
        /\ row'.generated = IF r.mode = "append" THEN Appended(row.generated, r.ids) ELSE r.ids
        /\ DOMAIN row' = DOMAIN row
    BY <1>5 DEF RowOK
  <2>2. total' = Len(row'.generated) /\ IsList(row'.generated)
    <3>1. IsList(row.generated) /\ IsList(r.ids) /\ r.mode \in {"append", "replace"}
      BY <1>1, <1>5 DEF Brought, RowOK
    <3>. QED BY <1>5, <2>1, <3>1, Appending DEF TotalOfEvent
  <2>. QED BY <1>5, <2>1, <2>2 DEF RowOK
<1>6. CASE UNCHANGED <<row, total>>
  BY <1>1, <1>6, NothingAsked DEF DataInv, NoRequest
<1>7. UNCHANGED <<row, total>> \/ RowOK(row', total')
  BY <1>2, <1>3, <1>4, <1>5 DEF Repository, Write, Refuse
<1>. QED BY <1>1, <1>6, <1>7, NothingAsked DEF DataInv, NoRequest

\* Archives, deletes and statistics leave what the requests brought.
LEMMA Aging ==
  ASSUME DataInv, NEW to, Become(to) \/ Measure
  PROVE  DataInv'
<1>1. row # NoRow /\ RowOK(row, total) /\ request' = request /\ total' = total
  BY DEF DataInv, Become, Measure
<1>2. /\ row'.name = row.name /\ row'.prompt = row.prompt /\ row'.description = row.description
      /\ row'.generated = row.generated /\ DOMAIN row' = DOMAIN row
  BY <1>1 DEF RowOK, Become, Measure
<1>3. RowOK(row', total')
  BY <1>1, <1>2 DEF RowOK
<1>4. request.op \notin {"update", "updateGeneratedFiles"}
  BY DEF Become, Measure, NoRequest
<1>. QED BY <1>1, <1>3, <1>4 DEF DataInv

LEMMA DataInvariant == DataSpec => []DataInv
<1>1. DataInv /\ [DataNext]_dataVars => DataInv'
  <2>. SUFFICES ASSUME DataInv, [DataNext]_dataVars PROVE DataInv'
    OBVIOUS
  <2>1. CASE UNCHANGED dataVars
    BY <2>1 DEF dataVars, DataInv
  <2>. QED BY <2>1, Sent, Piping, Serving, Storing, Aging DEF DataNext
<1>. QED BY <1>1, DataInvInit, PTL DEF DataSpec

\* Whatever text is sent, of any length: what the pipe and the service let pass
\* the repository refuses only if it counts more units than characters, and it
\* accepts what ValidationUtils does.
THEOREM AcceptedStored == DataSpec => []AcceptedIsStored
<1>1. DataInv => AcceptedIsStored
  <2>. SUFFICES ASSUME DataInv PROVE AcceptedIsStored
    OBVIOUS
  <2>. DEFINE r == request
  <2>1. Brought(r) /\ (r.at = "repository" => Piped(r) /\ Served(r))
    BY DEF DataInv, RequestOK
  <2>2. ASSUME r.at = "repository", r.op = "create"
        PROVE  \/ ValidateCreateData(r.name, r.description, r.prompt, r.uploaded)
               \/ Astral(r.description)
    <3>1. r.name.units \in NameLength /\ r.prompt.units \in PromptLength
      BY <2>1, <2>2 DEF Served, CreateIsValid
    <3>2. Forms(r.uploaded) \subseteq {"v4"}
      BY <2>1, <2>2 DEF Piped, DtoFilesOk
    <3>3. IsText(r.description) /\ (r.description.chars <= 1000 \/ r.description = Absent)
      BY <2>1, <2>2, Texts DEF Piped, Brought, DtoDescriptionOk
    <3>4. r.description.units <= 1000 \/ Astral(r.description)
      BY <3>3 DEF IsText, Astral, Absent
    <3>. QED BY <3>1, <3>2, <3>4 DEF ValidateCreateData, RepositoryNameOk, RepositoryFilesOk
  <2>3. ASSUME r.at = "repository", r.op = "update"
        PROVE  \/ ValidateUpdateData(r.name, r.description)
               \/ Astral(r.name) \/ Astral(r.description)
    <3>1. /\ IsText(r.name) /\ IsText(r.description)
          /\ Given(r.name) => r.name.chars \in NameLength
          /\ r.description.chars <= 1000 \/ r.description = Absent
      BY <2>1, <2>3 DEF Piped, Brought, UpdateNameOk, UpdateDescriptionOk
    <3>2. r.description.units <= 1000 \/ Astral(r.description)
      BY <3>1 DEF IsText, Astral, Absent
    <3>3. r.name.units = r.name.chars \/ Astral(r.name)
      BY <3>1 DEF IsText, Astral
    <3>. QED BY <3>1, <3>2, <3>3 DEF ValidateUpdateData, RepositoryNameOk
  <2>4. ASSUME r.at = "repository", r.op = "updateGeneratedFiles"
        PROVE  RepositoryFilesOk(r.ids)
    BY <2>1, <2>4 DEF Piped, RepositoryFilesOk
  <2>5. ASSUME r.op = "create", Forms(r.uploaded) \subseteq {"v4"},
               UtilsAccepts(r.name, r.description, r.prompt, r.uploaded)
        PROVE  ValidateCreateData(r.name, SanitizeDescription(r.description), r.prompt, r.uploaded)
    <3>1. r.name.units \in NameLength /\ r.prompt.units \in PromptLength
      BY <2>1, <2>5 DEF Brought, UtilsAccepts, UtilsNameOk, UtilsPromptOk
    <3>2. IsText(r.description)
      BY <2>1, <2>5, Texts DEF Brought
    <3>3. SanitizeDescription(r.description).units <= 1000
      BY <3>2 DEF IsText, SanitizeDescription
    <3>. QED BY <2>5, <3>1, <3>3 DEF ValidateCreateData, RepositoryNameOk, RepositoryFilesOk
  <2>. QED BY <2>2, <2>3, <2>4, <2>5 DEF AcceptedIsStored
<1>. QED BY <1>1, DataInvariant, PTL

\* Whatever texts are sent, a row holds none that the entity's own rules refuse,
\* but for marks, and neither markup nor a scheme nor a handler.
THEOREM WithinLimits == DataSpec => []StoredWithinLimits
<1>1. DataInv => StoredWithinLimits
  BY DEF DataInv, RowOK, Short, Clean, StoredWithinLimits, EntityNameOk, EntityPromptOk
<1>. QED BY <1>1, DataInvariant, PTL

\* The event, the list and the detail count a project's files alike, for lists
\* of any length (project.service.ts:1016-1049).
LEMMA FilesCountedAlike == DataInv /\ row # NoRow => FilesCounted
<1>. SUFFICES ASSUME DataInv, row # NoRow PROVE FilesCounted
  OBVIOUS
<1>1. ListItem(row).generatedFilesCount = Len(row.generated)
  BY DEF ListItem
<1>2. Detail(row).generated = row.generated
  BY DEF Detail
<1>. QED BY <1>1, <1>2 DEF DataInv, RowOK, FilesCounted

\* A list and a detail name the activity of any project alike, at any age, and
\* a prompt of any length that was not simple, or was complex, when it came is so
\* in the detail (project-list.dto.ts:338-347, project-response.dto.ts:351-385,
\* create-project.dto.ts:330-340).
LEMMA NamesAgree ==
  /\ \A files, age \in Nat, modified \in BOOLEAN : ActivityAgrees(files, modified, age)
  /\ \A t : IsText(t) => ComplexityAgrees(t)
<1>1. ASSUME NEW files \in Nat, NEW age \in Nat, NEW modified \in BOOLEAN
      PROVE  ActivityAgrees(files, modified, age)
  BY DEF ActivityAgrees, ActivityLevel, ActivityIndicator
<1>2. ASSUME NEW t, IsText(t) PROVE ComplexityAgrees(t)
  <2>. DEFINE u == t.units
              w == Words(t)
  <2>1. u \in Nat /\ w \in Nat
    BY <1>2, SMT DEF IsText, Words
  <2>. HIDE DEF w
  <2>. QED BY <2>1 DEF ComplexityAgrees, PromptComplexity, ComplexityEstimate, w
<1>. QED BY <1>1, <1>2

\* For file lists of any length, texts of any length and any age of a project,
\* the event, the list and the detail count the same files and name its activity
\* and its complexity alike, and a list calls complete only a project with files
\* (project.service.ts:1016-1049, project-list.dto.ts:338-347,
\* project-response.dto.ts:351-385, create-project.dto.ts:330-340).
THEOREM ViewsAlwaysAgree == DataSpec => []ViewsAgree
<1>1. DataInv => ViewsAgree
  <2>. SUFFICES ASSUME DataInv, row # NoRow PROVE ViewsAgree
    BY DEF ViewsAgree
  <2>. DEFINE item == ListItem(row)
              files == item.generatedFilesCount
  <2>1. RowOK(row, total)
    BY DEF DataInv
  <2>2. files = Len(row.generated) /\ files \in Nat
    BY <2>1 DEF ListItem, RowOK, IsList
  <2>3. \A modified \in BOOLEAN, age \in Ages : ActivityAgrees(files, modified, age)
    BY <2>2, NamesAgree, DataAssumption
  <2>4. ComplexityAgrees(row.prompt)
    BY <2>1, NamesAgree DEF RowOK
  <2>5. item.completionScore = 75 => files > 0 /\ row.uploaded # <<>>
    <3>1. item.completionScore =
            (IF row.uploaded # <<>> THEN 25 ELSE 0) + (IF row.generated # <<>> THEN 40 ELSE 0)
              + (IF row.description # Absent THEN 10 ELSE 0)
      BY DEF ListItem
    <3>2. row.generated # <<>> => Len(row.generated) > 0
      BY <2>1 DEF RowOK, IsList
    <3>. HIDE DEF item
    <3>. QED BY <3>1, <3>2, <2>2
  <2>. QED BY <2>2, <2>3, <2>4, <2>5, FilesCountedAlike DEF ViewsAgree
<1>. QED BY <1>1, DataInvariant, PTL
===============================================================================
