----------------------------- MODULE Statistics -----------------------------
(***************************************************************************)
(* StatisticsService and StatisticsRepository over the statistics table    *)
(* and two cached families: the response for a project, and the global     *)
(* figures.  An update reads the row, merges in memory, writes the row     *)
(* whole, deletes the cached responses and caches its own; a request reads *)
(* the cache first; an administrator cleans up.  One action per query.     *)
(***************************************************************************)
EXTENDS StatisticsFigures, FiniteSetsExt

CONSTANTS
  Requests,
  Projects,        \* ids that requests name
  Known,           \* subset of Projects: those the projects table has
  Updates,         \* the update DTOs
  StatTTL,         \* ticks a project's response is cached (300 s)
  GlobalTTL,       \* ticks the global figures are cached (600 s)
  StatFaults,      \* BOOLEAN: queries and cache commands may fail
  None

ASSUME StatisticsAssumption ==
  /\ Known \subseteq Projects /\ {StatTTL, GlobalTTL} \subseteq Nat \ {0} /\ StatFaults \in BOOLEAN
  /\ "*" \notin Projects /\ None \notin Projects

\* The fields of a part of the updates; the totals are recalculated.
Totals == {"total", "totalTime"}
FieldsOf(x) == (UNION {DOMAIN Part(u, x) : u \in Updates}) \ Totals

\* UpdateStatisticsDto: parts of numbers.
ASSUME UpdatesAssumption ==
  \A u \in Updates : /\ DOMAIN u \subseteq PartNames
                     /\ \A x \in DOMAIN u : u[x] \in [DOMAIN u[x] -> Nat]

\* What the JSON columns of a row hold: numbers for some of the fields.
Figures(fields) == UNION {[names -> Int] : names \in SUBSET (fields \cup Totals)}
Entity == [costs : Figures(FieldsOf("costs")), breakdown : Figures(CostParts),
           performance : Figures(FieldsOf("performance")), usage : Figures(FieldsOf("usage")),
           bottlenecks : SUBSET {"generation", "processing", "interview", "export", "queue_wait"}]

\* No row is null.
ASSUME NoneAssumption == None \notin Entity

VARIABLES
  row,             \* per project: its entity, or None
  old,             \* the projects whose row was last written before the cutoff
  closed,          \* the projects that are ARCHIVED or DELETED
  cached,          \* per project: stats:project:<id>, [data, left] or None
  cachedGlobal,    \* stats:global, [data, left] or None
  req,             \* per request: [op, at, p, new, seen, dels]
  expected,        \* history: per project and part, the figures last sent
  reverted,        \* history: per project, the parts an overlapping update wrote back
  excused,         \* history: projects, and "*" for the global figures, with overlapping
                   \* requests or a failed deletion since their entry was last absent
  goneFor          \* history: per project, ticks since its row was removed

vars == <<row, old, closed, cached, cachedGlobal, req, expected, reverted, excused, goneFor>>

NoRequest == [op |-> "none", at |-> "idle", p |-> None, new |-> <<>>, seen |-> None, dels |-> {}]

Goto(r, at) == req' = [req EXCEPT ![r].at = at]
Answer(r) == req' = [req EXCEPT ![r] = NoRequest]

\* The cached families a request reads or writes.
Scope(op, p) == CASE op = "update" -> {p, "*"} [] op = "get" -> {p}
                  [] op = "global" -> {"*"}    [] op = "cleanup" -> Known \cup {"*"}
                  [] op = "none" -> {}
InUse == UNION {Scope(req[r].op, req[r].p) : r \in Requests}

Init ==
  /\ row = [p \in Projects |-> None] /\ old = {} /\ closed = {}
  /\ cached = [p \in Projects |-> None] /\ cachedGlobal = None
  /\ req = [r \in Requests |-> NoRequest]
  /\ expected = [p \in Projects |-> [x \in PartNames |-> <<>>]]
  /\ reverted = [p \in Projects |-> {}] /\ excused = {}
  /\ goneFor = [p \in Projects |-> 0]

Started(op, p, new) ==
  [NoRequest EXCEPT
     !.op = op, !.p = IF op \in {"update", "get"} THEN p ELSE None,
     !.new = IF op = "update" THEN new ELSE <<>>,
     !.at = CASE op = "update" -> "find" [] op \in {"get", "global"} -> "get"
              [] op = "cleanup" -> "deleteMany"]

\* The controller refuses an update whose figures contradict each other.
Begin(r) ==
  /\ req[r].op = "none"
  /\ \E op \in {"update", "get", "global", "cleanup"}, p \in Projects, new \in Updates :
       /\ op \in {"global", "cleanup"} => p = CHOOSE q \in Projects : TRUE
       /\ IF op = "update" THEN IsCoherent(new) ELSE new = CHOOSE u \in Updates : TRUE
       /\ req' = [req EXCEPT ![r] = Started(op, p, new)]
       /\ excused' = excused \cup (InUse \cap Scope(op, p))
  /\ UNCHANGED <<row, old, closed, cached, cachedGlobal, expected, reverted, goneFor>>

-----------------------------------------------------------------------------
\* updateStatistics.

\* upsert reads the row.
FindExisting(r) ==
  /\ req[r].op = "update" /\ req[r].at = "find"
  /\ req' = [req EXCEPT ![r].at = "upsert", ![r].seen = row[req[r].p]]
  /\ UNCHANGED <<row, old, closed, cached, cachedGlobal, expected, reverted, excused, goneFor>>

\* The figures of a part; merging calculates the totals.
Reported(f) == [x \in DOMAIN f \ Totals |-> f[x]]
PartOf(e, x) == IF e = None THEN <<>> ELSE e[x]

\* One INSERT ... ON CONFLICT UPDATE of the merged row; a project that does not
\* exist fails its foreign key.  What was there is replaced, read or not.
Upsert(r) ==
  LET p == req[r].p IN
  /\ req[r].op = "update" /\ req[r].at = "upsert" /\ p \in Known
  /\ row' = [row EXCEPT ![p] = PrepareUpsertData(req[r].seen, req[r].seen # None, req[r].new)]
  /\ old' = old \ {p} /\ goneFor' = [goneFor EXCEPT ![p] = 0]
  /\ expected' = [expected EXCEPT ![p] = [x \in PartNames |->
                     IF x \in DOMAIN req[r].new THEN Reported(req[r].new[x]) ELSE @[x]]]
  /\ reverted' = [reverted EXCEPT ![p] = {x \in PartNames \ DOMAIN req[r].new :
                     x \in @ \/ PartOf(row[p], x) # PartOf(req[r].seen, x)}]
  /\ req' = [req EXCEPT ![r].at = "invalidate", ![r].seen = row'[p], ![r].dels = {p, "*"}]
  /\ UNCHANGED <<closed, cached, cachedGlobal, excused>>

QueryFails(r) ==
  /\ req[r].at \in {"find", "upsert", "load", "deleteMany"}
  /\ StatFaults \/ (req[r].at = "upsert" /\ req[r].p \notin Known)
  /\ Answer(r)
  /\ UNCHANGED <<row, old, closed, cached, cachedGlobal, expected, reverted, excused, goneFor>>

\* Mutant: the global figures are forgotten only by the cleanup.
InvalidateProjectOnly(r) ==
  \E d \in req[r].dels :
    /\ cached' = [p \in Projects |-> IF p = d THEN None ELSE cached[p]]
    /\ UNCHANGED <<cachedGlobal, excused>>
    /\ req' = [req EXCEPT ![r].dels = @ \ {d},
                          ![r].at = IF req[r].dels # {d} THEN @
                                    ELSE IF req[r].op = "update" THEN "cache" ELSE "answer"]
    /\ UNCHANGED <<row, old, closed, expected, reverted, goneFor>>

\* The deletions of invalidateProjectCache, started together, and the one of the
\* cleanup; one that fails is none.
Invalidate(r) ==
  \E d \in req[r].dels :
    /\ \/ /\ cached' = [p \in Projects |-> IF p = d THEN None ELSE cached[p]]
          /\ cachedGlobal' = IF d = "*" THEN None ELSE cachedGlobal
          /\ UNCHANGED excused
       \/ /\ StatFaults /\ excused' = excused \cup {d}
          /\ UNCHANGED <<cached, cachedGlobal>>
    /\ req' = [req EXCEPT ![r].dels = @ \ {d},
                          ![r].at = IF req[r].dels # {d} THEN @
                                    ELSE IF req[r].op = "update" THEN "cache" ELSE "answer"]
    /\ UNCHANGED <<row, old, closed, expected, reverted, goneFor>>

\* Mutant: the TTL of the global figures.
CacheResponseLong(r) ==
  /\ req[r].op \in {"update", "get"} /\ req[r].at = "cache" /\ Answer(r)
  /\ cached' = [cached EXCEPT ![req[r].p] = [data |-> Response(req[r].seen), left |-> GlobalTTL]]
  /\ UNCHANGED <<row, old, closed, cachedGlobal, expected, reverted, excused, goneFor>>

\* cacheProjectStatistics: of the row the request wrote or loaded, over whatever
\* response is cached by then.  A set that fails is no error.
CacheResponse(r) ==
  /\ req[r].op \in {"update", "get"} /\ req[r].at = "cache" /\ Answer(r)
  /\ \/ cached' = [cached EXCEPT ![req[r].p] = [data |-> Response(req[r].seen), left |-> StatTTL]]
     \/ StatFaults /\ UNCHANGED cached
  /\ UNCHANGED <<row, old, closed, cachedGlobal, expected, reverted, excused, goneFor>>

-----------------------------------------------------------------------------
\* getStatistics; getMultipleStatistics is several, one after the other.  It does
\* not await its sets: such a request counts as under way until its set is over.

CacheHit(r) ==
  /\ req[r].at = "get" /\ Answer(r)
  /\ IF req[r].op = "get" THEN cached[req[r].p] # None ELSE cachedGlobal # None
  /\ UNCHANGED <<row, old, closed, cached, cachedGlobal, expected, reverted, excused, goneFor>>

CacheMiss(r) ==
  /\ req[r].at = "get" /\ Goto(r, "load")
  /\ StatFaults \/ (IF req[r].op = "get" THEN cached[req[r].p] = None ELSE cachedGlobal = None)
  /\ UNCHANGED <<row, old, closed, cached, cachedGlobal, expected, reverted, excused, goneFor>>

FindByProjectId(r) ==
  LET e == row[req[r].p] IN
  /\ req[r].op = "get" /\ req[r].at = "load"
  /\ IF e = None THEN Answer(r) ELSE req' = [req EXCEPT ![r].at = "cache", ![r].seen = e]
  /\ UNCHANGED <<row, old, closed, cached, cachedGlobal, expected, reverted, excused, goneFor>>

-----------------------------------------------------------------------------
\* getGlobalStatistics: of the rows that have a total.

FiguresOf(table) ==
  LET counted == {p \in Projects : table[p] # None /\ "total" \in DOMAIN table[p].costs}
  IN [totalProjects |-> Cardinality(counted),
      totalCosts |-> MapThenSumSet(LAMBDA p : table[p].costs["total"], counted),
      totalDocuments |-> MapThenSumSet(LAMBDA p : Docs(table[p]), counted)]
GlobalFigures == FiguresOf(row)

LoadGlobal(r) ==
  /\ req[r].op = "global" /\ req[r].at = "load"
  /\ req' = [req EXCEPT ![r].at = "cache", ![r].seen = GlobalFigures]
  /\ UNCHANGED <<row, old, closed, cached, cachedGlobal, expected, reverted, excused, goneFor>>

CacheGlobal(r) ==
  /\ req[r].op = "global" /\ req[r].at = "cache" /\ Answer(r)
  /\ \/ cachedGlobal' = [data |-> req[r].seen, left |-> GlobalTTL]
     \/ StatFaults /\ UNCHANGED cachedGlobal
  /\ UNCHANGED <<row, old, closed, cached, expected, reverted, excused, goneFor>>

-----------------------------------------------------------------------------
\* cleanupOldStatistics: one DELETE of the old rows of closed projects, and a
\* deletion of the global figures alone.

Stale == {p \in old \cap closed : row[p] # None}

DeleteMany(r) ==
  /\ req[r].op = "cleanup" /\ req[r].at = "deleteMany"
  /\ row' = [p \in Projects |-> IF p \in Stale THEN None ELSE row[p]]
  /\ old' = old \ Stale
  /\ expected' = [p \in Projects |-> IF p \in Stale THEN [x \in PartNames |-> <<>>] ELSE expected[p]]
  /\ reverted' = [p \in Projects |-> IF p \in Stale THEN {} ELSE reverted[p]]
  /\ req' = [req EXCEPT ![r].at = IF Stale # {} THEN "invalidate" ELSE "answer",
                        ![r].dels = IF Stale # {} THEN {"*"} ELSE {}]
  /\ UNCHANGED <<closed, cached, cachedGlobal, excused, goneFor>>

CleanupAnswers(r) ==
  /\ req[r].at = "answer" /\ Answer(r)
  /\ UNCHANGED <<row, old, closed, cached, cachedGlobal, expected, reverted, excused, goneFor>>

-----------------------------------------------------------------------------
\* Time, and the projects.

Left(entry) == IF entry = None \/ entry.left = 1 THEN None ELSE [entry EXCEPT !.left = @ - 1]
Quiet == InUse = {}

\* Five minutes pass; no request is under way that long.
Tick ==
  /\ Quiet
  /\ cached' = [p \in Projects |-> Left(cached[p])]
  /\ cachedGlobal' = Left(cachedGlobal)
  /\ excused' = {x \in excused : IF x = "*" THEN cachedGlobal' # None ELSE cached'[x] # None}
  /\ goneFor' = [p \in Projects |-> IF p \in Known /\ row[p] = None /\ goneFor[p] < StatTTL
                                    THEN goneFor[p] + 1 ELSE goneFor[p]]
  /\ UNCHANGED <<row, old, closed, req, expected, reverted>>

\* The retention period passes; nothing cached lives that long.
Age ==
  /\ Quiet
  /\ old' = {p \in Projects : row[p] # None}
  /\ cached' = [p \in Projects |-> None] /\ cachedGlobal' = None /\ excused' = {}
  /\ goneFor' = [p \in Projects |-> IF p \in Known /\ row[p] = None THEN StatTTL ELSE 0]
  /\ UNCHANGED <<row, closed, req, expected, reverted>>

Close(p) ==
  /\ p \in Known \ closed /\ closed' = closed \cup {p}
  /\ UNCHANGED <<row, old, cached, cachedGlobal, req, expected, reverted, excused, goneFor>>

Next ==
  \/ \E r \in Requests :
       \/ Begin(r) \/ FindExisting(r) \/ Upsert(r) \/ QueryFails(r) \/ Invalidate(r)
       \/ CacheResponse(r) \/ CacheHit(r) \/ CacheMiss(r) \/ FindByProjectId(r)
       \/ LoadGlobal(r) \/ CacheGlobal(r) \/ DeleteMany(r) \/ CleanupAnswers(r)
  \/ Tick \/ Age
  \/ \E p \in Projects : Close(p)

Spec == Init /\ [][Next]_vars

-----------------------------------------------------------------------------
\* Properties.

\* Variables have their types, TTLs are those of their family, and rows belong
\* to projects that exist.
TypeOK ==
  /\ \A p \in Projects :
       /\ row[p] # None => p \in Known /\ DOMAIN row[p] = DOMAIN NoEntity
       /\ cached[p] # None => cached[p].left \in 1 .. StatTTL
       /\ goneFor[p] \in 0 .. StatTTL
  /\ cachedGlobal # None => cachedGlobal.left \in 1 .. GlobalTTL
  /\ old \cup closed \subseteq Projects
  /\ excused \subseteq Projects \cup {"*"}
  /\ \A r \in Requests : req[r].dels # {} <=> req[r].at = "invalidate"

\* Of each part a row holds exactly the figures of the last update that sent the
\* part, whatever the updates after it sent, in whatever order they read and write:
\* an update that read the row before another wrote it takes back the parts it does
\* not send itself, only these, and only until they are sent again.
LastSentKept ==
  \A p \in Projects : row[p] # None =>
    \A x \in PartNames \ reverted[p] : Reported(row[p][x]) = expected[p][x]

\* A cached response is that of the row, and the cached global figures are those
\* of the table, unless requests overlapped or a deletion failed: each writer
\* forgets what it made stale, and only then caches its own.
StaleOnlyAfterOverlap ==
  Quiet =>
    /\ \A p \in Projects \ excused :
         cached[p] # None /\ row[p] # None => cached[p].data = Response(row[p])
    /\ "*" \notin excused /\ cachedGlobal # None => cachedGlobal.data = GlobalFigures

\* The statistics a cleanup removed are served no longer than the TTL of a
\* response, although the cleanup forgets none of them.
RemovedFades ==
  \A p \in Projects : row[p] = None /\ cached[p] # None =>
    cached[p].left + goneFor[p] <= StatTTL

=============================================================================
