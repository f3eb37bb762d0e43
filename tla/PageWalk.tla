------------------------------- MODULE PageWalk -------------------------------
(***************************************************************************)
(* A client that reads the list of its projects page after page, as long   *)
(* as an answer says that there is a next one, while projects are created, *)
(* changed and removed.  The list is ordered by the last change, the       *)
(* newest first, and no page comes from the cache, which ProjectListing    *)
(* models.  A page is read by two queries at the same time, so that their  *)
(* order is free and a write may fall between them.                        *)
(***************************************************************************)
EXTENDS Integers, Sequences, FiniteSets, SequencesExt

CONSTANTS
  Projects,
  Limits,    \* page sizes that requests ask for
  MaxLimit   \* 100 in the code

ASSUME WalkAssumption ==
  IsFiniteSet(Projects) /\ Limits \subseteq Int /\ MaxLimit \in Nat \ {0}

VARIABLES
  recency,  \* the projects of the list, the last changed first
  walk,     \* the client: the page it reads, what it has seen, what is missing
  changed,  \* the projects created, changed or removed since the walk began
  left,     \* some project has left the list since then
  torn      \* one was created after a page was counted and before it was read

walkVars == <<recency, walk, changed, left, torn>>

NotAsked == [at |-> "idle", page |-> 1, limit |-> 1, rows |-> <<>>, total |-> 0, pending |-> {},
             seen |-> {}, first |-> {}]

WalkInit ==
  /\ recency = <<>> /\ walk = NotAsked /\ changed = {} /\ left = FALSE /\ torn = FALSE

-----------------------------------------------------------------------------

AtLeastOne(n) == IF n < 1 THEN 1 ELSE n

\* normalizePagination of the service and validatePaginationParams: 0 counts as
\* absent, for which the code takes 10, and a limit out of bounds becomes the bound.
NormalLimit(limit) ==
  LET asked == IF limit = 0 THEN 10 ELSE limit
  IN IF asked > MaxLimit THEN MaxLimit ELSE AtLeastOne(asked)

\* calculatePaginationMeta, for a valid limit.
TotalPages(limit, total) == (total + limit - 1) \div limit
HasNext(page, limit, total) == page < TotalPages(limit, total)

\* PaginationDto.getSkip
\* Mutant: pages are counted from zero.
SkipFromZero(page, limit) == page * limit
Skip(page, limit) == (page - 1) * limit

-----------------------------------------------------------------------------

\* The client asks for the first page of a list that holds all the projects, or
\* all but one.
Start ==
  /\ walk = NotAsked
  /\ \E limit \in Limits, list \in SetToSeqs(Projects), dropped \in {0, 1} :
       /\ recency' = SubSeq(list, 1 + dropped, Len(list))
       /\ walk' = [NotAsked EXCEPT !.at = "querying", !.limit = NormalLimit(limit),
                                   !.pending = {"findMany", "count"}, !.first = Range(recency')]
  /\ UNCHANGED <<changed, left, torn>>

\* findByOwner: both queries.
FindMany ==
  LET from == Skip(walk.page, walk.limit) IN
  /\ "findMany" \in walk.pending
  /\ walk' = [walk EXCEPT !.pending = @ \ {"findMany"},
                          !.rows = SubSeq(recency, from + 1,
                                     IF from + walk.limit < Len(recency) THEN from + walk.limit
                                     ELSE Len(recency))]
  /\ UNCHANGED <<recency, changed, left, torn>>
Count ==
  /\ "count" \in walk.pending
  /\ walk' = [walk EXCEPT !.pending = @ \ {"count"}, !.total = Len(recency)]
  /\ UNCHANGED <<recency, changed, left, torn>>

\* createPaginatedResult, and the client's next step.
Receive ==
  /\ walk.at = "querying" /\ walk.pending = {}
  /\ LET seen == walk.seen \cup Range(walk.rows)
     IN walk' = IF HasNext(walk.page, walk.limit, walk.total)
                THEN [walk EXCEPT !.seen = seen, !.page = @ + 1, !.rows = <<>>,
                                  !.pending = {"findMany", "count"}]
                ELSE [walk EXCEPT !.seen = seen, !.at = "done", !.rows = <<>>]
  /\ UNCHANGED <<recency, changed, left, torn>>

\* The other requests of the owner.  A project that is created or changed comes
\* first, one that is deleted, or archived under a filter of status, leaves.  The
\* bound: each project does so once during a walk.
Touch(p) ==
  /\ walk.at = "querying" /\ p \notin changed
  /\ \/ p \notin Range(recency) /\ recency' = <<p>> \o recency
        /\ torn' = (torn \/ walk.pending = {"findMany"})
     \/ \E i \in DOMAIN recency :
          recency[i] = p /\ recency' = <<p>> \o RemoveAt(recency, i) /\ torn' = torn
  /\ changed' = changed \cup {p}
  /\ UNCHANGED <<walk, left>>
Leave(p) ==
  /\ walk.at = "querying" /\ p \notin changed
  /\ \E i \in DOMAIN recency : recency[i] = p /\ recency' = RemoveAt(recency, i)
  /\ changed' = changed \cup {p} /\ left' = TRUE
  /\ UNCHANGED <<walk, torn>>

WalkNext ==
  \/ Start \/ FindMany \/ Count \/ Receive
  \/ \E p \in Projects : Touch(p) \/ Leave(p)

WalkSpec == WalkInit /\ [][WalkNext]_walkVars

-----------------------------------------------------------------------------

\* A project that nobody changed while the client walked through the pages is on
\* one of them, unless a project left the list, which moves the later ones back
\* onto pages already read, or one was created between the count of a page and
\* its rows, which hides the last row behind hasNext
\* (project.repository.ts:302-313, paginated-result.interface.ts:188-195).
UntouchedSeen ==
  walk.at = "done" /\ ~left /\ ~torn => walk.first \ changed \subseteq walk.seen

=============================================================================
