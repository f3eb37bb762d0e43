# Verification of project-service

TLA+ modules that model project-service, TLC configurations that check them on
small instances, and theorems that TLAPS proves for instances of any size.
Paths such as `src/project/project.service.ts` are relative to the repository.

## 1. The system

project-service is a NestJS service that keeps the projects of users in
PostgreSQL (through Prisma), caches them in Redis, tells an orchestrator of
their changes over HTTP, keeps statistics that another service reports, and
exports a project's files as Markdown or PDF. Several instances may run over the
same database and cache. Within one instance JavaScript runs the code between
two `await`s undivided; at every `await` other requests go on. That is the
concurrency all the modules model.

| Component | State | Operations | Interacts with | Hard behaviour |
|---|---|---|---|---|
| ProjectService | none of its own: a request's local reads | create, findOne, findAll, update, archive, delete, updateGeneratedFiles | repository, cache, events | checks on stale reads; steps that fail after the commit |
| ProjectRepository, project table | rows with `status`, `updatedAt` as lock version | one query per call; update reads and then writes under the lock | PostgreSQL | optimistic lock against unlocked writes; millisecond versions |
| Project status | `ACTIVE`, `ARCHIVED`, `DELETED` | `canTransitionTo`, `validateStatusTransition`, `isModifiable` | service, repository | two tables of transitions that differ on "no change" |
| Project data (DTOs, entity, repository, utils) | a row's texts and file ids | five sets of rules, transformations, views | controller, service, repository | rules that disagree at their limits |
| Lists | pages in the cache | findAll, findByOwner, pagination | cache, database | two queries per page; pages walked while the list changes |
| CacheService | Redis keys with TTL; locks | get, set, del, deleteByPattern, acquireLock, releaseLock | service, guards, statistics, export | failures are silent; an invalidation is many commands |
| EventsService | the circuit breaker | five publish methods over `publishWithRetry` | orchestrator | retries, timeouts, a breaker shared by concurrent publications |
| ExportService | `activeExports`, `exportQueue`, status keys, cached results | exportProject, getExportStatus, the cleanup timer | file retrieval, converters, cache | a queue and a poll that both start an export |
| FileRetrievalService, MarkdownExportService, PdfExportService | files in flight; a temporary directory | batches with retries per file; pandoc with a timeout | file storage, pandoc | partial failure; clean-up on every path |
| AuthGuard, ProjectOwnerGuard | cached validations and ownerships | `canActivate` | auth service, database, cache | staleness of what is cached |
| Statistics | one JSON row per project, cache keys | upsert, reads, global figures, cleanup | database, cache | read-merge-write; cache order |
| Controllers, exceptions | none | routes, pipes, answers | guards, services | answers that differ from the documented ones |
| DatabaseService, health | the connection; one shared test key | connectWithRetry, the probes | PostgreSQL, Redis, other services | checks raced with timeouts |
| Configuration, wiring | none | - | - | - |

What makes each correct:

- **ProjectService and ProjectRepository**: only the owner is served; a project
  follows its life cycle however requests race; a locked write replaces what it
  validated; a deleted project stays deleted; files a request put stay until a
  request replaces them; answers and events are true; every request is answered.
- **Project data**: what is let in is stored, what is stored is within every
  limit, the views derived from a row agree with each other.
- **Lists and cache**: a list shows its owner's projects; a deleted one is shown
  for at most a TTL; an invalidation that ran leaves no covered key; a lock is
  released by its holder only; a walk through the pages sees every project
  nobody touches.
- **EventsService**: a publication returns; deliveries are bounded by attempts,
  success means delivery; the breaker opens at its threshold, closes only on a
  success, and does close after an outage.
- **Exports**: slots are returned and never idle beside a queue; accepted
  exports are answered once calls stop; every file is in the document or in the
  errors; a cached result is the one asked for; nothing is left in the temporary
  directory; a status `completed` is true.
- **Guards**: whoever is admitted was valid at most a TTL ago; nobody but the
  owner passes; grants of deleted projects fade; an owner is refused only after
  an archive.
- **Statistics**: a row holds of each part (costs, performance, usage) what was
  sent last, and an update that overlaps another takes back only the parts it
  does not send itself; a cached answer is older than the row only after an
  overlap; answers of rows that a cleanup removed fade.
- **Health**: a probe reports trouble only after trouble, and health only after
  it heard from what it reports.

`PROJECT.json` lists every component with what is modelled of it, and every
hazard at its line with the properties that cover it.

## 2. The modules

| Module | Models | Uses |
|---|---|---|
| `ProjectStatus` | the status, its transitions in repository and entity | - |
| `ProjectLifecycle` | abstract: what the service promises of a project's life | `ProjectStatus` |
| `ProjectService` | requests over repository, table, cache key and event | `ProjectStatus`; `ProjectLifecycle` through a refinement mapping |
| `Publication` | abstract: what a publication is to the service that awaits it | - |
| `EventsService` | `publishWithRetry` and the breaker | `Publication` through a refinement mapping |
| `ExportService` | slots, queue, polls, background runs | - |
| `ExportPipeline` | an export's cache, files, conversion and status, executed by its request and in the background | - |
| `Controllers` | routes, pipes, documented answers, error mapping (operators) | - |
| `Guards` | the two guards, their caches, tokens and a project's life | `Controllers` |
| `CacheService` | commands over Redis, patterns, invalidations, locks | - |
| `ProjectListing` | findAll over `CacheService`: keys, pages, filters | `CacheService` |
| `Health` | connection and probes over `CacheService` | `CacheService` |
| `Caches` | lists and probes over the one Redis | `ProjectListing`, `Health` |
| `StatisticsFigures` | merging and derived figures (operators) | - |
| `Statistics` | upsert, reads, global figures, cleanup | `StatisticsFigures` |
| `ProjectInputs` | the five sets of rules for texts and ids (operators) | - |
| `ProjectData` | the way of the data from the DTO to row and views | `ProjectInputs`, `ProjectStatus` |
| `PageWalk` | a client walking through the pages of a list | - |
| `ProjectServiceProofs`, `EventsServiceProofs`, `ExportServiceProofs`, `ExportPipelineProofs`, `GuardsProofs`, `StatisticsProofs`, `CachesProofs` | theorems about the module named | their modules |
| `InputsProofs` | theorems about `ProjectData` and `PageWalk` | both |
| `MCProjectService`, `MCGuards`, `MCCache`, `MCStatistics`, `MCExportPipeline`, `MCInputs` | sets, symmetry and compositions for TLC | their modules |

`Caches` is the composition that both the run `cache` and `CachesProofs` are
about; `MCInputs` runs `ProjectData` and `PageWalk` in turns: they share no state.

A definition named after another with a suffix, and called a mutant in its
comment, is that definition with a plausible bug; the specification never uses
it. For each property of a passing run `PROJECT.json` names such a mutant, under
which TLC finds the property violated.

### ProjectService

A request `r` is one call of a service method. `pc[r]` names the query it
awaits, and each action is one query with the code up to the next one:

| Action | Code |
|---|---|
| `ValidateCreateData`, `Insert` | `validateCreateData` (the name query), `ProjectRepository.create` |
| `CheckUpdate`, `CheckArchive`, `CheckDelete`, `CheckFiles` | `findById` of the method and the checks on what it returns |
| `RepositoryRead`, `LockedUpdate`, `LockedUpdateFails` | `ProjectRepository.update`: second read, transition check, update `where: {id, updatedAt}`, P2025 |
| `MarkDeleted` | `ProjectRepository.delete` |
| `ReadFiles`, `WriteFiles` | `ProjectRepository.updateGeneratedFiles` |
| `CacheGet`, `Load`, `Fill` | `findOne` |
| `Invalidate`, `Publish` | `invalidateProjectCache`, the `publish...Event` helpers |
| `Expire` | the TTL of the cache entry |
| `DatabaseFails`, `Committed`, `Crash` | a query that fails before the commit, answered with what `handlePrismaError` makes of the error (`QueryErrors`), an answer lost after it, the death of the process |

`rows` is the table, `cache` the keys `project:<id>`, `read[r]` the entity the
service holds, `base[r]` the row the repository read. Names stand for names up
to case and blanks, as `findByNameAndOwner` compares them. Descriptions, prompts
and uploaded files do not influence control and are left out; an update of the
description is an update with the name `None`. DTO validation (a 400 before any
query) changes nothing and is left out.

`updatedAt` is stamped by the Prisma client in milliseconds, before the database
applies the write. A stamp is therefore any time between the request's last read
(`since[r]`) and now. `clock` is the largest stamp so far; a write carries at
most `clock + 1`, since only equality of stamps is ever observed. With
`UniqueStamps` no two writes share a millisecond.

External, and modelled from how the code uses them: PostgreSQL applies one
`UPDATE` atomically; Prisma's `update` with `updatedAt` in `where` matches and
writes in one step; ids are fresh UUIDs; Redis expires keys.

### EventsService

A publisher holds one event at a time; `phase` goes ready, posted, asleep. The
breaker's clock is the bit `cooled` (30 s since the last failure). Its failure
counter is kept at `Threshold` once it is there: only `>= threshold` is asked.
The pauses of the retries are not ordered against the 30 s, since a post may
hang for up to 45 s between two pauses. With the standard transport (`stub`) no
post fails; the model is the HTTP transport.

`Publication` is what the caller of a publish method may rely on: a call is
pending until it is published or failed; only a critical call throws, and only a
critical call moves the breaker's `switch`, which a critical success alone
closes; what is published was received, and no more often than it has attempts.
The mapping takes `switch` from `breaker` and a call from `phase` and `outcome`,
and leaves out attempts, pauses, the 30 s and the counter of failures.
This is also why `ProjectService!Publish` can be one step that delivers the
event or fails.

### ExportService and ExportPipeline

In `ExportService` an export has up to two runs: `fg`, of the request, and `bg`,
started by a release. `EnqueueExport` and `CheckSlot` are the request's check for
a slot and its polls, `FgEnds` and `BgEnds` the `finally` of the two runs, each
with the whole of `releaseExportSlot`. Calls come without end: the id of a call
that is over stands for the next one's. `ScheduledCleanup` drops slots of exports
older than 48 hours, if `Hangs` says that a run may last that long, and trims the
queue; `taken` remembers the slots it took from runs that go on. `MaxQueue` stands
for the 50 of the code.

The code does not promise that every accepted export is answered. A release gives
its slot to the head of the queue at once (`export.service.ts:513-531`), and a new
call takes a slot it finds free (`:475-491`), while a request whose queue entry has
been started in the background, or trimmed, only looks once a second
(`:497-508`): under steady load it may wait for ever, and TLC finds such a lasso
when the premise is taken from `EveryExportAnswered`. So the property has that
premise: once calls stop, every accepted export is answered.

`ExportPipeline` is one export in detail. It is executed up to twice, and an
execution is a pair of export and kind: `Request(x)` and `Background(x)`. An export
that finds no slot leaves both in `queued`, and `TakeSlot` starts either, in any
order and at any time, which allows more than the queue of `ExportService` does.
Both run the same actions and report under one status key, as long as the id they
share holds a slot (`Progress`); either gives that slot back (`Released`). They
differ in their end: the request's execution caches its document and answers with
it (`FinalizeExport`), the background's drops it (`DropResult`).

| Action | Code |
|---|---|
| `ExportProject`, `GetCachedExport` | `validateOptions`, `generateExportCacheKey`, the cached result, a slot or the queue |
| `TakeSlot` | `waitForExportSlot`, `releaseExportSlot` |
| `Progress` | the status updates at 10, 30 and 100 percent |
| `StartRetrieval`, `FileArrives`, `AttemptFails`, `NextBatch`, `Retrieved` | `getMultipleFiles`: the batches of `BATCH_SIZE`, a file's attempts, the sum of contents and errors |
| `ExportMarkdown` | `MarkdownExportService.exportMarkdown`: its limits, the combined document |
| `CreateTempDirectory`, `ExecutePandoc`, `CleanupTempDirectory` | `PdfExportService`: directory, conversion or timeout, the `finally` |
| `Complete`, `FinalizeExport`, `DropResult` | status `completed`; the result put into the cache, or dropped in the background; the slot given back |
| `PollMisses`, `PollCaches` | `getExportStatus` around its awaited read |

A file is a number with a nature (`ok`, `empty`, `missing`, `flaky`, `garbled`)
and a size; a document is its owner, its form and the sequence of its files. The
key of a cached export is computed as in the code, from options the PDF service
completes in place. The code keeps 8 hexadecimal digits of the MD5 of the options
(`export.service.ts:856-860`); the model takes them to tell options apart, so
`ServedWhatWasAsked` says nothing of two option sets whose hashes collide.

### Controllers and Guards

`Controllers` holds each route as a record (guards, owner parameter, documented
statuses, outcomes of its service) with operators for pipes, refusals of the
handler and the status of every exception. `Guards` sends requests through it:

| Action | Code |
|---|---|
| `Receive`, `GetCachedValidation`, `ValidateToken`, `CacheValidation` | `AuthGuard.canActivate`: header, cache, auth service, cache again |
| `GetCachedOwnership`, `FindOwned`, `FindExisting`, `CacheGrant`, `CacheRefusal` | `ProjectOwnerGuard.canActivate`: cached ownership, the two queries, both outcomes cached |
| `Handle` | the handler's answer |
| `Revoke`, `ChangeStatus`, `Tick` | the world: tokens revoked, the project archived or deleted; time |

Time passes only between requests. That is an assumption, of no guard taking a
tick (a minute or more) from its first query to its last; each of its calls is
answered or fails sooner (the authentication service's within the timeout of
`auth.guard.ts:350-358`), but nothing in the code bounds the request as a whole:
`requestTimeout` in `main.ts` is about receiving it. A guard that took longer would
cache what it learned that much later, and the bounds on ages would grow by as
much. A request's own steps interleave with everything else.
`TTL` and `ShortTTL` stand for the long and the short lifetimes of the entries.

### CacheService, ProjectListing, Health

A call of `CacheService` is a sequence of Redis commands: `Plan` lists what
`invalidateProjectCache`, `invalidateUserProjectsCache` and the others run, `Get`,
`Set`, `Del`, `KeysCommand`, `AcquireLock`, `ReleaseLock` are single commands
with the code's retries and swallowed errors, `Reconnect` the connection that
returns. Keys are records of kind and owner, so that patterns are sets of kinds.
`KEYS` and `DEL` of one pattern are two commands.

`ProjectListing` adds `FindAll`, `CacheHit`, `CacheMiss`, `FindByOwner`, `Fill`
(`findAll`), the key of a page from its encoded filters (`HashFilters` cuts what
the code cuts) and `Write`, the projects changed meanwhile. A page is the set of
the projects on it, those with as many rows before them (`Before`) as its offset
and limit say: no property here tells the order within a page.

`Health` adds `Connect`, `Select`, `AttemptFails`, `Restart`
(`onModuleInit`, `connectWithRetry`), and the probes: `Probe` starts the checks
of a route, `CheckDatabase`, `TestSet`, `TestGet`, `TestDel`, `CheckCache`,
`CheckCacheTimeout`, `CheckExternalServices` are their steps, `Answer` is the
handler of `check`, `detailed` or `readiness`. `heard` and `trouble` are
history: what answered, and what was out of order, since the probe began. A
cache check that lost its race goes on in the background.

### StatisticsFigures and Statistics

`StatisticsFigures` merges an update into a row and derives the figures of a
response; money is in cents and quotients are rounded down. An update has parts
(costs, performance, usage). The body of a PUT is transformed into instances of
the DTO classes, and with the target ES2023 of `tsconfig.json` such an instance
owns every field of its class, those that were not sent with `undefined`. So
`{ ...this.costs, ...newCosts }` overwrites every figure of a part that is sent,
and JSON drops the undefined ones: a part that is sent replaces what the row had of
it, and a part that is not sent stays. `MergeCosts`, `MergePerformance` and
`MergeUsage` say this, with the totals, shares and bottlenecks calculated anew.

`Statistics` has one action per query: `Begin` (with the 400 of the controller's
`isValid`, `statistics.controller.ts:151-158`), `FindExisting` and `Upsert` (the
repository reads, merges in memory and writes), `Invalidate`, `CacheResponse`,
`CacheHit`, `CacheMiss`, `FindByProjectId`, `LoadGlobal`, `CacheGlobal`,
`DeleteMany`, `CleanupAnswers`; `Age` makes rows old enough for the cleanup,
`Close` ends a project. `getMultipleStatistics` is a `get` per project; it does not
await its sets, and counts as under way until they are over. `expected` and
`reverted` are history: the figures of each part last sent, and the parts an
overlapping update has written back.

### ProjectInputs, ProjectData, PageWalk

A text is its length in UTF-16 units and in characters, and the one thing in it
that some rule looks for. `ProjectInputs` gives the rules of the two DTOs with
their `isValid`, of the repository, the entity and `ValidationUtils`, and the
transformations. `ProjectData` sends requests through them in the order of the
code (`Pipe`, `Service`, `Repository`), and compares what became of the row with
what the detail, the list item and the event say of it. Requests come one at a
time there: `ProjectService` interleaves them.

In `PageWalk` a page is two queries (`FindMany`, `Count`) in either order, with
projects created, changed and removed between them and between the pages.

## 3. The runs

Passing runs:

| Run | Instance | Shows |
|---|---|---|
| `races` | 3 requests, 1 project; update, archive, delete, files | `DeletedIsFinal`, `NoOverwriteOfUnread`, `ArchivedEventTruthful`, `ArchivedOnce`, `StatusReported`, `FilesKept` |
| `requests` | 2 requests, 2 projects (one to create), 2 users; every method; failures of database, cache and events, crashes; fair | `OnlyOwnerServed`, `ImplementsLifecycle`, `EveryRequestAnswered` |
| `events` | 2 publishers, a critical and a standard type; threshold 3, 3 and 2 attempts; fair | `ClosedBelowThreshold`, `DeliveryCount`, `ImplementsPublication`, `PublicationReturns`, `BreakerRecovers` |
| `exports` | calls without end, 3 at a time, 1 slot, queue of 1, priorities 2 and 3, runs that outlive the cleanup; fair | `SlotsReturned`, `NoIdleSlot`, `QueuedStillWaiting`, `EveryExportAnswered` |
| `guards` | 2 clients, 2 tokens of 2 users, one revocable; 1 project; TTL 2 and 1; failures of cache, database and auth service | `AdmittedOnRecentValidation`, `OnlyOwnerPasses`, `DeletedGrantFades`, `OwnerRefusedOnlyAfterArchive` |
| `cache` | 2 clients; 2 users with a project each; pages live 1 tick, locks 2; failing commands; probes with 2 services, 2 stamps, 2 connection retries | `OnlyOwnProjects`, `DeletedFades`, `InvalidationComplete`, `LockUndisturbed`, `ProbeTruthful` |
| `statistics` | 2 requests, 2 projects (one known), 3 updates, one of them incoherent, TTL 1 and 2, failing cache and database | `LastSentKept`, `StaleOnlyAfterOverlap`, `RemovedFades` |
| `pipeline` | 2 exports of 2 users, one of which may find no slot and then is executed twice, and is polled; files of every nature, batches of 2, 1 retry, failing tools; fair | `EveryFileAccounted`, `ServedWhatWasAsked`, `NoTempLeft`, `CompletedIsTrue`, `EveryExportEnds` |
| `inputs` | texts and file lists at the limits of every rule; a walk over 4 projects, pages of up to 3, each project changed at most once | `AcceptedIsStored`, `StoredWithinLimits`, `ViewsAgree`, `UntouchedSeen` |

Why these bounds:

- An optimistic lock fails by one writer between another's read and write; a
  third request allows a second overwriting and an observer of both. A second
  project matters only to names and to `create`. Two users are an owner and
  somebody else.
- Two publishers are one that fails late and one that succeeds late; one of them
  alone reaches the threshold, so that with the code's 5 in place of 3 only the
  rows of failures get longer.
- Three exports are one with the slot, one queued, and one that overflows the
  queue. Two slots add no new kind of step: a release frees one.
- What a cache holds too long is seen with a TTL of 1 or 2 ticks: a property
  compares an age with the TTL, and no code distinguishes ages below it. The
  slices of `cache` (`MCCallSets`) pair calls that share keys - values with
  invalidations, locks, lists, probes - as calls that share none commute. One
  client asks for liveness and detail, the other for readiness; each has at most
  one cache check in the background.
- Two concurrent upserts are what a lost update needs, or an upsert and a
  cleanup; a third request only repeats the overlap.
- Two exports share a cache entry or nothing; a batch of 2 has one file that fails
  beside one that arrives, and a second batch after it. One of them is executed
  twice, of a flaky file, so that one execution may succeed and the other fail in
  either order (`MCQueueing`); the exports share no status and no slot, so a second
  one with two executions would add no new kind of step.
- A text's length is just below, at or just above a limit some rule has
  (`MCNames`, `MCDescriptions`, `MCPrompts`). `MaxFiles` is 11, one more than the
  10 files a DTO lets in; `Bounded` writes files to a row with an ordinary name
  and prompt, as no rule relates them. The walk's four projects make two pages
  of two, or one of three (`MaxLimit`, the code's 100) and a remainder.

Deadlock is checked in every run but `pipeline`, `full_export` and `inputs`,
where the exports, the walk and the requests come to an end; elsewhere a
stuttering step `Finished` or a fresh request keeps the system going.

Runs that end in a violation, each a statement of the repository the code does
not keep (`findings` quotes it):

| Run | Violated | What happens |
|---|---|---|
| `same_millisecond` | `DeletedIsFinal` | read by an archive; file update and delete in the millisecond of the version read; the archive still matches |
| `list_key` | `StatusServed` | the filter hash keeps the first characters of an encoded object, so that two filters share a key and a list of one status is served for another |
| `full_export` | `FullExportServed` | without `fileIds` the service asks for placeholder ids that FileRetrievalService refuses as malformed |

### Fairness

- `ProjectService!FairSpec`: weak fairness of `Proceed(r)`, a request's next
  query. Queries have timeouts in client and driver, so each resolves or
  rejects. Nothing is assumed of failures, crashes, expiry or new requests.
- `EventsService!FairSpec`: posts are answered or time out
  (`timeout(requestTimeout)`), timers fire, time passes. `BreakerRecovers` has
  the premises that the orchestrator stays up and that critical events keep
  coming: a breaker only closes on a call.
- `ExportService!FairSpec`: requests go on, a poll repeats every second, runs
  end. It does not assume the cleanup ever runs. Fairness of a poll is weak: a slot
  that is free at times only need not be found, which is why `EveryExportAnswered`
  has the premise that calls stop.
- `ExportPipeline!FairSpec`: each execution's next step (`Proceeds`), as files and
  pandoc are awaited with timeouts. Polls, expiry and the wait for a slot
  (`TakeSlot`) are not fair: `EveryExportEnds` is about executions that got one.

The other modules state safety only and assume no fairness.

### Also seen while modelling

These are behaviours of the code that no statement of the repository rules out,
or that the modules abstract from; the hazards name most of them.

- Projects: two creates both see a name free, and an update may take another
  project's name; an update is applied after an archive its first check did not
  see, if the repository's own check allows it; two appends of files may lose
  one (`FilesKept` excludes the overlap); a cache hit of `findOne` returns plain
  JSON without the entity's methods, which the service then calls; a read that
  overlaps an update leaves the old row in the cache for its TTL; `findOne`
  serves a deleted project to its owner; `project.controller.ts:450` calls archive
  idempotent, and a second archive is a 400, the loser of two concurrent ones a 400
  or a 409; the event of an append counts the files of an entity read before the
  write, and tells too few after another append.
- Events: five refusals of an open breaker use up the attempts of a critical
  event without one post.
- Exports: an export started from the queue is run again by its own poll, which
  makes more runs than slots, and a request may poll for ever under steady load (see
  above); a background run reports `completed` and drops its document, and the
  request's own run may fail afterwards while the status stays `completed`
  (`CompletedIsTrue` asks for the document of either); the status of a failed export
  stays, as its cleanup runs after the release; a PDF export without `pdfOptions` completes
  them in place and is never served from the cache; documents are in order of
  arrival; a partial export is cached like a complete one; one empty file fails
  the document; a count of 3 retries makes 4 attempts, for a 404 as well; an
  empty list of file ids is a 404.
- Statistics: a part that is sent replaces all its figures, also those it does not
  send (`project-statistics.entity.ts:154-157`, `:171-179`, `:193-201`), where
  `statistics.repository.ts:418` speaks of "fusion intelligente avec les données
  existantes"; the unit tests merge plain objects, which do not own what they do not
  have. Concurrent PUTs take back each other's parts, and the older answer may end
  in the cache; an unknown project is a 500, not a 404; the stored
  breakdown stays when the total becomes 0; a cleanup leaves answers cached.
- Guards and controllers: `ProjectOwnerGuard` reads `params.id`, and the
  controller that uses it names its parameter `projectId`; an ownership cached
  under one set of options is used under another; the answer's `expiresAt` is
  not looked at; the guards of ProjectController are commented out; several
  routes answer other statuses than they document.
- Cache: with a key prefix KEYS patterns match nothing; no invalidation pattern
  matches the pages of a list; `acquireLock` and `releaseLock` have no caller, so
  `LockUndisturbed` is about what CacheService offers.
- Data: an absent `hasGeneratedFiles` becomes `false`; prompts of several lines
  are refused; names with characters outside the first plane pass the DTO and
  are refused by the repository; `append` keeps duplicates within one request; a
  page counted before its rows are read, with a create between, hides the last
  row.
- Health: all cache checks share one key and report `up` for whatever value they
  read; the SELECT after connecting has no timeout; `/health/ready` depends on
  the database only.

## 4. The proofs

The theorems hold for any sets of requests, clients, projects, users, tokens,
files and options, finite or not, any limits and lifetimes, any selection of
operations, and any failures. Each module states its theorems at the end of the
part that proves them.

| Module | Theorem | Assumes | States |
|---|---|---|---|
| `ProjectServiceProofs` | `TypeCorrect` | - | `Spec => []TypeOK` |
| | `DeleteFinal` | `UniqueStamps` | `Spec => DeletedIsFinal` |
| | `LockWorks` | `UniqueStamps` | `Spec => NoOverwriteOfUnread` |
| | `ArchivedEvent` | `UniqueStamps` | `Spec => ArchivedEventTruthful` |
| | `Implementation` | `UniqueStamps` | `Spec => ImplementsLifecycle` |
| | `OwnerServed` | - | `Spec => []OnlyOwnerServed` |
| | `FilesStay` | - | `Spec => []FilesKept` |
| | `ReportsStayTrue` | `UniqueStamps` | `Spec => []StatusReported` |
| | `OneArchivePublished` | `UniqueStamps` | `Spec => []ArchivedOnce` |
| | `RequestsEnd` | - | `Spec => QueriesUsedUp` |
| `EventsServiceProofs` | `TypeCorrect`, `BreakerOpens`, `DeliveryCounted`, `ClosedBySuccess` | - | `TypeOK`, `ClosedBelowThreshold`, `DeliveryCount`, `ClosesOnlyOnSuccess` |
| | `Implementation` | - | `Spec => ImplementsPublication` |
| | `PublicationsEnd` | - | `Spec => StepsUsedUp`, and `StepsLeft` is bounded |
| `ExportServiceProofs` | `TypeCorrect`, `NoSlotLeaks`, `QueueServed`, `QueueWaiting`, `MostUrgentFirst` | - | `TypeOK`, `SlotsReturned`, `NoIdleSlot`, `QueuedStillWaiting`, `QueueSorted` |
| | `NobodyWaitsForNobody`, `ExportedTwiceAtMost` | - | `SomebodyRuns`; `QueuedUnstarted` and `RunTwiceAtMost` |
| `ExportPipelineProofs` | `EveryFileIsAccounted`, `ServedAsAsked`, `NoTempStays`, `CompletedStaysTrue` | - | `EveryFileAccounted`, `ServedWhatWasAsked`, `NoTempLeft`, `CompletedIsTrue` |
| | `ExportsRunDown` | - | `RunsDown` and `AttemptsCounted` |
| `GuardsProofs` | `TypeCorrect`, `AdmittedRecently`, `OwnerAlone`, `GrantFades`, `RefusedAfterArchive` | - | `TypeOK`, `AdmittedOnRecentValidation`, `OnlyOwnerPasses`, `DeletedGrantFades`, `OwnerRefusedOnlyAfterArchive` |
| `StatisticsProofs` | `TypeCorrect`, `ReportsKept`, `FreshAfterSequence`, `RemovalFades` | - | `TypeOK`, `LastSentKept`, `StaleOnlyAfterOverlap`, `RemovedFades` |
| `CachesProofs` | `NothingForgotten`, `LocksUndisturbed`, `ProbesTellTheTruth`, `OwnProjectsServed`, `DeletedLeavePages` | - | `InvalidationComplete`, `LockUndisturbed`, `ProbeTruthful`, `OnlyOwnProjects`, `DeletedFades`, of the composed `CachesSpec` |
| `InputsProofs` | `AcceptedStored`, `WithinLimits`, `ViewsAlwaysAgree`, `UntouchedOnAPage` | - | `AcceptedIsStored`, `StoredWithinLimits` and `ViewsAgree` of `DataSpec`, `UntouchedSeen` of `WalkSpec` |

So every safety property of the passing runs, the two refinements among them, has
a theorem.

The assumption `UniqueStamps` (no two writes of the table carry the same
millisecond) cannot be dropped where it is made: `same_millisecond` is the
counterexample for the lock. Ownership and files do not depend on the lock, and
their theorems do without it.

What is assumed of the constants stands beside them; TLC evaluates it in every
run. Most of it says that a number is positive, that a set is within the set the
code declares, or that null is none of the values it is told from
(`NoneAssumption`). What is more:

- `Guards!RequestedAssumption`: every request is to a route of `Controllers` that
  AuthGuard protects. Routes without guards are operators of `Controllers` only.
- `Statistics!UpdatesAssumption`: an update has the parts the DTO declares, and a
  figure is a natural number.
- `ProjectData!DataAssumption`: a text is a record of its lengths, and has no more
  characters than UTF-16 units; a list of files is a finite sequence. `PageWalk!WalkAssumption`: the list is finite.
- `ExportPipeline!SortAssumption`: sorting the ids of an option set permutes them
  and sorting them again changes nothing. It is what `Array.prototype.sort` does;
  TLC's `SortSeq` is no definition a prover can unfold.

### ProjectService

`TypeOK` is not inductive. `TypeInv` adds `CallsKnown` (a running request has a
call, and awaits a query of the method called) and `RowsKnown` (what a request
is about to use is there, as rows are never removed).

A step that leaves the table alone keeps it because it is a `Moves`: one request
goes on to a query of its method, with what that query needs
(`MovesKeepTypes`); `WritingSteps` are the four that write.

`LockInv` adds what the lock rests on:

- `StampsBounded`: no stamp in the table or in a read is later than `clock`;
- `LockedVersion`: while the row's stamp is the one the repository read, the row
  is the one it read. A write carries `clock + 1`, so by `StampsBounded` it
  breaks every lock on its row;
- `ArchiveValidated`: an archive that may write has read `ACTIVE` both times.
  Between its reads it may have read `ARCHIVED` the first time (`canTransitionTo`
  allows "no change"), but then the row never becomes `ACTIVE` again and the
  repository refuses;
- `FreshIds`: the id of a running create has no row and no other create.

`RowsChange` reduces the theorems to the four writing steps, `WritingEffect`
says what each does to the row, and each theorem follows from these two.

What was answered rests on `AnswersInv`, which adds to `TypeInv` and `FreshIds`:

- `AnswersLast`: an answer is the last thing a request does, and an event comes
  with its answer;
- `OwnersServed`: a request that passed the check of the owner, or found the row
  it is to cache, belongs to the row's owner. Rows never change owners, so a
  check that is several queries old still holds;
- `FilesListed`: files that were written are in the row until another request
  writes the list. The other writers leave the column alone, which is why the
  lock is not needed.

`StatusInv` adds to `LockInv` and `AnswersLast` that an acknowledged archive or
delete is not undone, and that one archive of a project is acknowledged at most.

`RequestsEnd` counts the queries a request has left (`QueriesLeft`, five at most):
no answer, failure or other request makes them more.

### EventsService

`ClosedBelowThreshold` is inductive with `TypeOK`. `DeliveryCount` is not: that an
attempt posts once, and that a post is received once, depends on where the
publication stands, which `DeliveryInv` states for each `phase`.

`Implementation` maps each step to one of `Publication` or to a stutter. It needs
`DeliveryInv` where an attempt fails for good and where one succeeds: a call that
returns "published" has been received by then (`CallMoves`, `AttemptIsFail`).
`PublicationsEnd` counts three steps an attempt - post, answer, pause - and shows
that every one of them is used up, whoever else moves the breaker meanwhile.

### ExportService and ExportPipeline

`SlotsReturned`, `NoIdleSlot` and `QueuedStillWaiting` need each other (`SlotInv`):
a release hands its slot on only because the head of the queue has none yet, and
a queued export is not started by its own poll because no slot is free while
there is a queue. `QueueInv` says that nothing is queued twice. `QueueSorted`
justifies that the model inserts behind those at least as urgent (`Ahead`) where
the code pushes and sorts.

`NobodyWaitsForNobody` follows from `SlotsReturned`: slots that are all held are
held by runs. `ExportedTwiceAtMost` rests on `QueuedUnstarted`, which unlike
`QueuedStillWaiting` survives the cleanup: an export is queued once, before it is
run in the background, so what a release starts was never started.

`RunInv` says of an execution, by where it is, what it holds. Its core is `Accounted`:
the files of the batches so far are those that arrived, failed or are under way,
and their numbers add up, so that no file is counted twice. `CachedOK` says the
same of what is in the cache, with the options its key stands for after their
ids were sorted (`Settled`). `CompletedIsTrue` is inductive once the ids
of the statuses are known (`CompletedInv`), given where the executions stand: only
one that has its document reports `completed`, and neither execution loses a
document again, as nothing runs in the background of a request that is not queued
yet (`BackgroundLater`).

`ExportsRunDown` gives the order in which a run comes to its end (`Nearer`): by
stage, then by batch, then by the files under way and their attempts, which
`AttemptsCounted` bounds.

### Guards

The argument is one of age. `ValidationInv`: the time a cached validation has left
and the time since its token was revoked do not exceed the TTL together.
`OwnershipInv` says the same of a cached grant and the deletion of the project,
and that what is about to be cached was decided on this side of the last tick,
as no time passes within a request.

### Statistics

`FiguresInv` relates each part of a row that no overlap took back to what was last
sent of it. It is inductive because an update compares, in the step that writes,
the row with the copy it read: a part that it does not send is written back from
the copy, so it is the row's own unless the two differ, and then it is counted as
taken back (`WrittenRow`). `WithReported` and `MergedRow` say what a merge leaves
of a part, its recalculated total apart. `OverlapInv` says that
without an overlap what a request holds, or is about to cache, is what the table
holds, and so is what is cached, unless a request is about to forget it. `GoneInv`
bounds a cached answer by the time since its row is gone, and has requests that
still hold a removed row finish before time passes, as a tick happens between
requests only.

### Caches

`CallsOK` says of an invalidation that the keys it covers and that are still there
are in the part of its plan that is yet to run (`Remaining`) or were written
since it began (`Left`); what leaves another holder's lock
alone (`Undisturbed`) needs only that a lock's record is one (`LockOK`); `ProbesOK` what a probe has
heard, by the checks that are done; `ListingInv` that pages, and lists on their
way to the cache, hold projects of their user and of the statuses asked for, and
that ages add up as for the guards. `ProbesTouchNoCache` and `ListsTakeNoLock`
are what makes the composition easy: probes use a test key of their own.

### ProjectData and PageWalk

`DataInv` says of a request what the places it has passed have seen to: `Brought`
what any request is, `Piped` what the pipe lets through, `Served` what the
service does; and of the row that it is within the limits (`RowOK`). No place
alone gives the limits: the pipe counts characters and the repository units, and
only the pipe and `isValid` together keep markup out of every field. For
`ViewsAgree` files are counted by their places in the list (`Listed`,
`Appending`), so that no count depends on an induction over it.

`WalkInv` says where the unseen are: every project that was in the list when the
walk began, was not changed, and is on no page read so far, stands behind what
the pages read so far cover. A write moves it back in the list, never forward,
as long as no project leaves; so the walk may end only where nothing is behind
(`MoreThanRead`), and a torn page is the one case in which the count says so too
early.

### Only model-checked

- Liveness (`EveryRequestAnswered`, `PublicationReturns`, `BreakerRecovers`,
  `EveryExportAnswered`, `EveryExportEnds`): fairness and ENABLED are out of the
  prover's reach. What they rest on besides is proved: each awaited answer lowers
  a bounded measure (`RequestsEnd`, `PublicationsEnd`, `ExportsRunDown`,
  `ExportedTwiceAtMost`), and nobody waits for nobody (`NobodyWaitsForNobody`).
  For `BreakerRecovers` there is no such measure: an outage may always begin again.
- What recursive definitions compute for all inputs, such as that sorting
  permutes: induction over data is out of the prover's reach.

## 5. Plan

The modules, runs and theorems planned for this project are done. What would be
next, should the code grow:

1. An abstract pool of slots for `ExportService`. A run that is started twice
   holds more slots than there are, so such a pool says little until the code
   keeps `maxConcurrentExports`.
2. `ExportPipeline` over the queue of `ExportService`: `TakeSlot` there starts
   executions in any order, so what it shows holds of the queue's order, but the
   two are not composed in one module.
3. The operators of `Controllers` stay with TLC: they speak of finitely many
   routes, which the runs go through one by one.

## 6. Not modelled

- Configuration: static values read at start. Those that matter are constants.
- The layout of exported texts, titles, labels, audit trails, logs, metrics.
- `CacheService.mget` and `mset`, `updateManyStatuses` and some reads of the
  repositories, statistics' `partialUpdate`, the entities' in-memory mutators,
  file metadata: they have no callers or keep no state of their own.
- `executeWithRetry` of DatabaseService, which the code calls for reads only, so
  that a repeated attempt changes nothing, and `withTransaction`, which has no
  caller.
- Rate limits (decorators without an implementation here), wiring of modules,
  signals, seeds and the reset of a test database.
- The stub transport of EventsService, which never fails.

External, and modelled from how the code uses them: PostgreSQL, Prisma, Redis,
the orchestrator, the auth service, the file storage, pandoc.

## 7. Running

    tlc -config races.cfg MCProjectService.tla
    tlapm ProjectServiceProofs.tla

and so on for the other runs and proofs, with the modules `PROJECT.json` names.
