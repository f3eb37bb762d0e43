--------------------------- MODULE ProjectService ---------------------------
(***************************************************************************)
(* The requests of the project service (ProjectService over                *)
(* ProjectRepository, the project table and the project's cache key),      *)
(* interleaved at every await.  A request is one call of a service method; *)
(* it runs one action per awaited query, with the code between two awaits  *)
(* in the action of the query it follows.                                  *)
(*                                                                         *)
(* updatedAt is the row's optimistic-lock version, in whole milliseconds.  *)
(* The client stamps a write before the database applies it, so the stamp  *)
(* lies anywhere between the moment of the request's last read and now.    *)
(* Only equality of stamps is observed, so `clock' is the latest           *)
(* millisecond any write carries: it moves when a write is stamped later.  *)
(***************************************************************************)
EXTENDS Naturals, ProjectStatus

CONSTANTS
  Requests,      \* one-shot service calls
  Projects,      \* project ids; one without a row is an id create() may draw
  Users,         \* user ids (owners and callers)
  Names,         \* names, up to case and surrounding blanks
  Files,         \* ids of generated files
  Ops,           \* the service methods the clients of a run call
  Seeds,         \* the projects that have a row at the start
  Faults,        \* what may fail: "db", "cache", "events", "crash"
  UniqueStamps,  \* TRUE: no two writes carry the same millisecond
  None           \* null

AllOps == {"create", "findOne", "update", "archive", "delete", "updateGeneratedFiles"}
AllFaults == {"db", "cache", "events", "crash"}

ASSUME OpsAssumption == Ops \subseteq AllOps
ASSUME SeedsAssumption == Seeds \subseteq Projects
ASSUME FaultsAssumption == Faults \subseteq AllFaults
ASSUME UniqueStampsAssumption == UniqueStamps \in BOOLEAN
VARIABLES
  rows,       \* rows[p]: the row of project p, None if there is none
  cache,      \* cache[p]: what Redis holds under project:p, None if nothing
  clock,      \* the latest millisecond any write was stamped with
  pc,         \* pc[r]: the query request r awaits
  call,       \* call[r]: the method called and its arguments
  read,       \* read[r]: the entity the service's own findById returned
  base,       \* base[r]: the row the repository read inside update / append
  since,      \* since[r]: clock at request r's last read, the earliest stamp
  result,     \* result[r]: the answer, None while there is none
  events      \* the events delivered to the orchestrator

vars == <<rows, cache, clock, pc, call, read, base, since, result, events>>

Row == [owner : Users, name : Names, status : Status,
        files : SUBSET Files, updatedAt : Nat]

Calls ==
  \* the project of a create is the id the insert is going to draw
  [op : {"create"}, project : Projects, caller : Users, name : Names,
   files : {{}}, mode : {None}]
  \cup
  [op : {"findOne", "archive", "delete"}, project : Projects, caller : Users,
   name : {None}, files : {{}}, mode : {None}]
  \cup       \* name None: an update of the description only
  [op : {"update"}, project : Projects, caller : Users, name : Names \cup {None},
   files : {{}}, mode : {None}]
  \cup       \* called by the orchestrator, for no user
  [op : {"updateGeneratedFiles"}, project : Projects, caller : {None},
   name : {None}, files : SUBSET Files, mode : {"append", "replace"}]

Answers == {"Ok", "NotFound", "Forbidden", "Conflict", "BadRequest", "ServerError"}

\* null is no user, no name, no row, no part of a row, no call, and no answer.
ASSUME NoneAssumption ==
  /\ None \notin Users /\ None \notin Names /\ None \notin Row /\ None \notin Calls
  /\ None \notin [owner : Users, status : Status] /\ None \notin Answers

Steps == {"idle", "validateCreateData", "insert", "cacheGet", "load", "fill",
          "checkUpdate", "checkArchive", "checkDelete", "checkFiles",
          "repositoryRead", "lockedUpdate", "markDeleted", "readFiles",
          "writeFiles", "invalidate", "publish", "done", "lost"}

FirstStep(op) ==
  CASE op = "create"  -> "validateCreateData"
    [] op = "findOne" -> "cacheGet"
    [] op = "update"  -> "checkUpdate"
    [] op = "archive" -> "checkArchive"
    [] op = "delete"  -> "checkDelete"
    [] op = "updateGeneratedFiles" -> "checkFiles"

EventType(op) ==
  CASE op = "create"  -> "project.created"
    [] op = "update"  -> "project.updated"
    [] op = "archive" -> "project.archived"
    [] op = "delete"  -> "project.deleted"
    [] op = "updateGeneratedFiles" -> "project.files.updated"

-----------------------------------------------------------------------------

Live(p) == rows[p] # None /\ rows[p].status # "DELETED"

\* findByNameAndOwner finds a project: DELETED ones do not count.
NameTaken(name, owner) ==
  \E p \in Projects : Live(p) /\ rows[p].name = name /\ rows[p].owner = owner

\* The rows at the start were written by earlier requests: any status, no two
\* live projects of one owner with the same name, stamped at time 0.
Init ==
  /\ \E start \in [Seeds -> [owner : Users, name : Names, status : Status]] :
       /\ rows = [p \in Projects |->
                    IF p \in Seeds
                      THEN [owner |-> start[p].owner, name |-> start[p].name,
                            status |-> start[p].status, files |-> {}, updatedAt |-> 0]
                      ELSE None]
       /\ \A p, q \in Seeds :
            p # q /\ start[p].owner = start[q].owner /\ start[p].name = start[q].name
              => "DELETED" \in {start[p].status, start[q].status}
  /\ cache = [p \in Projects |-> None]
  /\ clock = 0
  /\ pc = [r \in Requests |-> "idle"]
  /\ call = [r \in Requests |-> None]
  /\ read = [r \in Requests |-> None]
  /\ base = [r \in Requests |-> None]
  /\ since = [r \in Requests |-> 0]
  /\ result = [r \in Requests |-> None]
  /\ events = {}

Goto(r, step) == pc' = [pc EXCEPT ![r] = step] /\ UNCHANGED result

Answer(r, answer) ==
  pc' = [pc EXCEPT ![r] = "done"] /\ result' = [result EXCEPT ![r] = answer]

\* A new project's id is a random UUID: no row and no other create has it.
FreshId(p) ==
  rows[p] = None /\ \A r \in Requests : pc[r] # "idle" =>
                       ~(call[r].op = "create" /\ call[r].project = p)

\* The client sends request r: one call of a service method.
Begin(r) ==
  /\ pc[r] = "idle"
  /\ \E c \in Calls :
       /\ c.op \in Ops
       /\ c.op = "create" => FreshId(c.project)
       /\ call' = [call EXCEPT ![r] = c]
       /\ Goto(r, FirstStep(c.op))
  /\ UNCHANGED <<rows, cache, clock, read, base, since, events>>

-----------------------------------------------------------------------------
\* Reads of the project table: what they return is remembered in read or base,
\* and the request's write can be stamped no earlier than now.

ServiceReads(r) ==          \* const project = await projectRepository.findById(id)
  /\ read' = [read EXCEPT ![r] = rows[call[r].project]]
  /\ since' = [since EXCEPT ![r] = clock]
  /\ UNCHANGED <<rows, cache, clock, call, base, events>>

RepositoryReads(r) ==       \* the repository's own read before it writes
  /\ base' = [base EXCEPT ![r] = rows[call[r].project]]
  /\ since' = [since EXCEPT ![r] = clock]
  /\ UNCHANGED <<rows, cache, clock, call, read, events>>

\* create: the uniqueness of the name is a query of its own.
ValidateCreateData(r) ==
  /\ pc[r] = "validateCreateData"
  /\ \/ NameTaken(call[r].name, call[r].caller) /\ Answer(r, "Conflict")
     \/ ~NameTaken(call[r].name, call[r].caller) /\ Goto(r, "insert")
  /\ since' = [since EXCEPT ![r] = clock]
  /\ UNCHANGED <<rows, cache, clock, call, read, base, events>>

\* update: existence, ownership, and "the project can be modified".
CheckUpdate(r) ==
  LET row == rows[call[r].project] IN
  /\ pc[r] = "checkUpdate"
  /\ \/ row = None /\ Answer(r, "NotFound")
     \/ row # None /\ row.owner # call[r].caller /\ Answer(r, "Forbidden")
     \/ /\ row # None /\ row.owner = call[r].caller
        /\ IF IsModifiable(row.status) THEN Goto(r, "repositoryRead")
                                       ELSE Answer(r, "Conflict")
  /\ ServiceReads(r)

\* archive: as update, but the question is canTransitionTo(ARCHIVED).
CheckArchive(r) ==
  LET row == rows[call[r].project] IN
  /\ pc[r] = "checkArchive"
  /\ \/ row = None /\ Answer(r, "NotFound")
     \/ row # None /\ row.owner # call[r].caller /\ Answer(r, "Forbidden")
     \/ /\ row # None /\ row.owner = call[r].caller
        /\ IF CanTransitionTo(row.status, "ARCHIVED") THEN Goto(r, "repositoryRead")
                                                      ELSE Answer(r, "Conflict")
  /\ ServiceReads(r)

\* delete: existence and ownership; the status is not looked at.
CheckDelete(r) ==
  LET row == rows[call[r].project] IN
  /\ pc[r] = "checkDelete"
  /\ \/ row = None /\ Answer(r, "NotFound")
     \/ row # None /\ row.owner # call[r].caller /\ Answer(r, "Forbidden")
     \/ row # None /\ row.owner = call[r].caller /\ Goto(r, "markDeleted")
  /\ ServiceReads(r)

\* updateGeneratedFiles: existence only; append reads the list before it writes.
CheckFiles(r) ==
  /\ pc[r] = "checkFiles"
  /\ \/ rows[call[r].project] = None /\ Answer(r, "NotFound")
     \/ /\ rows[call[r].project] # None
        /\ Goto(r, IF call[r].mode = "append" THEN "readFiles" ELSE "writeFiles")
  /\ ServiceReads(r)

ReadFiles(r) ==
  /\ pc[r] = "readFiles"
  /\ Goto(r, "writeFiles")
  /\ RepositoryReads(r)

\* Mutant: the repository trusts the service's check of the transition.
RepositoryReadUnvalidated(r) ==
  /\ pc[r] = "repositoryRead"
  /\ Goto(r, "lockedUpdate")
  /\ RepositoryReads(r)

\* ProjectRepository.update reads the row again, and validates the transition
\* of a status update against what it read.
RepositoryRead(r) ==
  LET row == rows[call[r].project]
      valid == call[r].op = "archive" => ValidStatusTransition(row.status, "ARCHIVED")
  IN /\ pc[r] = "repositoryRead"
     /\ \/ valid /\ Goto(r, "lockedUpdate")
        \/ ~valid /\ Answer(r, "BadRequest")
     /\ RepositoryReads(r)

-----------------------------------------------------------------------------
\* Writes of the project table.

\* The millisecond a write of request r may carry: its client takes the time
\* after its last read and before the database applies the write.
Stamps(r) == IF UniqueStamps THEN {clock + 1} ELSE since[r] .. (clock + 1)

\* The database gives project p the row w, stamped by the client.
Write(r, p, w) ==
  /\ \E t \in Stamps(r) :
       /\ rows' = [rows EXCEPT ![p] = [w EXCEPT !.updatedAt = t]]
       /\ clock' = IF t > clock THEN t ELSE clock
  /\ UNCHANGED <<cache, call, read, base, since, events>>

\* The write is committed: the request goes on, unless the answer is lost.
Committed(r, step) ==
  Goto(r, step) \/ ("db" \in Faults /\ Answer(r, "ServerError"))

Insert(r) ==
  /\ pc[r] = "insert"
  /\ Write(r, call[r].project,
           [owner |-> call[r].caller, name |-> call[r].name, status |-> "ACTIVE",
            files |-> {}, updatedAt |-> 0])
  /\ Committed(r, "publish")     \* no project key to invalidate

\* Mutant: the update matches by id alone.
LockNotChecked(r) == TRUE

\* The update of ProjectRepository.update matches a row only while updatedAt
\* is the one read; P2025 becomes ProjectOptimisticLockError.
LockHeld(r) == rows[call[r].project].updatedAt = base[r].updatedAt

LockedUpdate(r) ==
  LET p == call[r].project IN
  /\ pc[r] = "lockedUpdate"
  /\ LockHeld(r)
  /\ Write(r, p,
           IF call[r].op = "archive" THEN [rows[p] EXCEPT !.status = "ARCHIVED"]
           ELSE IF call[r].name # None THEN [rows[p] EXCEPT !.name = call[r].name]
           ELSE rows[p])
  /\ Committed(r, "invalidate")

\* Mutant: P2025 is swallowed, as if the row had been written.
LostLockIgnored(r) ==
  /\ pc[r] = "lockedUpdate"
  /\ ~LockHeld(r)
  /\ Goto(r, "invalidate")
  /\ UNCHANGED <<rows, cache, clock, call, read, base, since, events>>

\* Mutant: the update is tried again with the version read the first time.
LostLockRetried(r) ==
  /\ pc[r] = "lockedUpdate"
  /\ ~LockHeld(r)
  /\ Goto(r, "lockedUpdate")
  /\ UNCHANGED <<rows, cache, clock, call, read, base, since, events>>

LockedUpdateFails(r) ==
  /\ pc[r] = "lockedUpdate"
  /\ ~LockHeld(r)
  /\ Answer(r, "Conflict")
  /\ UNCHANGED <<rows, cache, clock, call, read, base, since, events>>

\* Mutant: the whole entity the service read is saved, with the new status.
MarkDeletedWhole(r) ==
  /\ pc[r] = "markDeleted"
  /\ Write(r, call[r].project, [read[r] EXCEPT !.status = "DELETED"])
  /\ Committed(r, "invalidate")

\* ProjectRepository.delete: by id alone, no lock and no transition check.
MarkDeleted(r) ==
  /\ pc[r] = "markDeleted"
  /\ Write(r, call[r].project, [rows[call[r].project] EXCEPT !.status = "DELETED"])
  /\ Committed(r, "invalidate")

\* Mutant: the list is written by a query that leaves updatedAt alone.
WriteFilesUnstamped(r) ==
  LET p == call[r].project
      kept == IF call[r].mode = "append" THEN base[r].files ELSE {}
  IN /\ pc[r] = "writeFiles"
     /\ rows' = [rows EXCEPT ![p].files = kept \cup call[r].files]
     /\ Committed(r, "invalidate")
     /\ UNCHANGED <<cache, clock, call, read, base, since, events>>

\* Mutant: the whole entity the service read is saved, with the new list.
WriteFilesWhole(r) ==
  LET kept == IF call[r].mode = "append" THEN base[r].files ELSE {} IN
  /\ pc[r] = "writeFiles"
  /\ Write(r, call[r].project, [read[r] EXCEPT !.files = kept \cup call[r].files])
  /\ Committed(r, "invalidate")

\* The list is written whole, by id alone: what append read plus the new files.
WriteFiles(r) ==
  LET kept == IF call[r].mode = "append" THEN base[r].files ELSE {} IN
  /\ pc[r] = "writeFiles"
  /\ Write(r, call[r].project,
           [rows[call[r].project] EXCEPT !.files = kept \cup call[r].files])
  /\ Committed(r, "invalidate")

-----------------------------------------------------------------------------
\* findOne and the cache.

\* A hit is the parsed JSON of an entity: it has no belongsToUserId to call,
\* and the TypeError becomes a 500.  A failing get counts as a miss.
CacheGet(r) ==
  /\ pc[r] = "cacheGet"
  /\ \/ cache[call[r].project] # None /\ Answer(r, "ServerError")
     \/ (cache[call[r].project] = None \/ "cache" \in Faults) /\ Goto(r, "load")
  /\ UNCHANGED <<rows, cache, clock, call, read, base, since, events>>

Load(r) ==
  /\ pc[r] = "load"
  /\ \/ rows[call[r].project] = None /\ Answer(r, "NotFound")
     \/ rows[call[r].project] # None /\ Goto(r, "fill")
  /\ ServiceReads(r)

\* Mutant: findOne does not check the ownership of what it loaded.
FillForAnyone(r) ==
  /\ pc[r] = "fill"
  /\ cache' = [cache EXCEPT ![call[r].project] = read[r]]
  /\ Answer(r, "Ok")
  /\ UNCHANGED <<rows, clock, call, read, base, since, events>>

\* The entity is cached before the ownership is checked.
Fill(r) ==
  LET p == call[r].project IN
  /\ pc[r] = "fill"
  /\ \/ cache' = [cache EXCEPT ![p] = read[r]]
     \/ "cache" \in Faults /\ UNCHANGED cache
  /\ Answer(r, IF read[r].owner = call[r].caller THEN "Ok" ELSE "Forbidden")
  /\ UNCHANGED <<rows, clock, call, read, base, since, events>>

\* invalidateProjectCache: a failing del is logged and the request goes on.
\* The user's list keys it deletes as well are the subject of another module.
Invalidate(r) ==
  /\ pc[r] = "invalidate"
  /\ \/ cache' = [cache EXCEPT ![call[r].project] = None]
     \/ "cache" \in Faults /\ UNCHANGED cache
  /\ Goto(r, "publish")
  /\ UNCHANGED <<rows, clock, call, read, base, since, events>>

\* The entry's TTL runs out.
Expire(p) ==
  /\ cache[p] # None
  /\ cache' = [cache EXCEPT ![p] = None]
  /\ UNCHANGED <<rows, clock, pc, call, read, base, since, result, events>>

\* The event tells of the entity the service read first, not of the row its
\* write replaced.
Event(r) ==
  [type |-> EventType(call[r].op), project |-> call[r].project, request |-> r,
   previousStatus |-> IF call[r].op \in {"archive", "delete"}
                        THEN read[r].status ELSE None]

\* A failed publication is logged; the request succeeds all the same.
Publish(r) ==
  /\ pc[r] = "publish"
  /\ \/ events' = events \cup {Event(r)}
     \/ "events" \in Faults /\ UNCHANGED events
  /\ Answer(r, "Ok")
  /\ UNCHANGED <<rows, cache, clock, call, read, base, since>>

-----------------------------------------------------------------------------
\* Failures.

DatabaseSteps == {"validateCreateData", "insert", "load", "checkUpdate",
                  "checkArchive", "checkDelete", "checkFiles", "repositoryRead",
                  "lockedUpdate", "markDeleted", "readFiles", "writeFiles"}

\* What handlePrismaError and handleServiceError make of a query's error: 409 of an
\* aborted transaction, 400 of a violated constraint, else 500.
QueryErrors == {"Conflict", "BadRequest", "ServerError"}

\* A query fails before the database runs it.
DatabaseFails(r) ==
  /\ "db" \in Faults
  /\ pc[r] \in DatabaseSteps
  /\ \E answer \in QueryErrors : Answer(r, answer)
  /\ UNCHANGED <<rows, cache, clock, call, read, base, since, events>>

\* The process that runs request r dies; PostgreSQL and Redis survive it.
Crash(r) ==
  /\ "crash" \in Faults
  /\ pc[r] \notin {"idle", "done", "lost"}
  /\ Goto(r, "lost")
  /\ UNCHANGED <<rows, cache, clock, call, read, base, since, events>>

\* The next query of request r resolves, or rejects, and r goes on from it.
Proceed(r) ==
  \/ ValidateCreateData(r) \/ Insert(r)
  \/ CacheGet(r) \/ Load(r) \/ Fill(r)
  \/ CheckUpdate(r) \/ CheckArchive(r) \/ CheckDelete(r) \/ CheckFiles(r)
  \/ RepositoryRead(r) \/ LockedUpdate(r) \/ LockedUpdateFails(r)
  \/ MarkDeleted(r) \/ ReadFiles(r) \/ WriteFiles(r)
  \/ Invalidate(r) \/ Publish(r)

Step(r) == Proceed(r) \/ DatabaseFails(r) \/ Crash(r)

\* Every request has been answered, or lost.
Finished == (\A r \in Requests : pc[r] \in {"done", "lost"}) /\ UNCHANGED vars

Next ==
  \/ \E r \in Requests : Begin(r) \/ Step(r)
  \/ \E p \in Projects : Expire(p)
  \/ Finished

Spec == Init /\ [][Next]_vars

\* A request that has begun goes on: every awaited query resolves or rejects.
\* No failure is assumed to happen, so none can be what ends a request.
FairSpec == Spec /\ \A r \in Requests : WF_vars(Proceed(r))

-----------------------------------------------------------------------------
\* Properties.

\* Every variable has its type: the tables hold rows or nothing, and a request
\* that awaits a query has the call and the reads that query needs.
TypeOK ==
  /\ rows \in [Projects -> Row \cup {None}]
  /\ cache \in [Projects -> Row \cup {None}]
  /\ clock \in Nat
  /\ pc \in [Requests -> Steps]
  /\ call \in [Requests -> Calls \cup {None}]
  /\ read \in [Requests -> Row \cup {None}]
  /\ base \in [Requests -> Row \cup {None}]
  /\ since \in [Requests -> Nat]
  /\ result \in [Requests -> Answers \cup {None}]
  /\ \A e \in events : e.project \in Projects /\ e.request \in Requests

\* A soft delete is final: no request, however old the reads it decided on,
\* brings a DELETED project back ("Etat final" in the repository's table).
\* What keeps it is the optimistic lock of ProjectRepository.update.
DeletedIsFinal ==
  [][\A p \in Projects :
       rows[p] # None /\ rows[p].status = "DELETED" => rows'[p].status = "DELETED"]_vars

\* Request r's optimistically locked update is applied to the row.
LockedWrite(r) == pc[r] = "lockedUpdate" /\ pc'[r] # "lockedUpdate" /\ rows' # rows

\* Optimistic locking: an update or archive that goes through replaces the very
\* row version it validated, never one written since by another request.
NoOverwriteOfUnread ==
  [][\A r \in Requests : LockedWrite(r) => rows[call[r].project] = base[r]]_vars

\* project.archived tells the truth: the status the service read two queries
\* before the write is the one the write replaced.
ArchivedEventTruthful ==
  [][\A r \in Requests :
       LockedWrite(r) /\ call[r].op = "archive"
         => read[r].status = rows[call[r].project].status]_vars

\* Of the archive requests that race on a project only one is published: the
\* losers get 409 (stale lock) or 400 (already archived).
ArchivedOnce ==
  \A e, f \in events :
    e.type = "project.archived" /\ f.type = "project.archived" /\ e.project = f.project
      => e = f

\* What a caller was answered, and the orchestrator was told, about the status
\* of a project stays true for ever, whatever other requests do later.
StatusReported ==
  \A r \in Requests :
    pc[r] # "idle" /\ (result[r] = "Ok" \/ \E e \in events : e.request = r) =>
      LET row == rows[call[r].project] IN
      /\ call[r].op = "archive" => row # None /\ row.status # "ACTIVE"
      /\ call[r].op = "delete"  => row # None /\ row.status = "DELETED"

\* Files whose update was acknowledged stay in the list unless another request
\* writes the list: updates, archives and deletes, which hold an older copy of
\* the entity, and of which delete takes no lock, never write it back
\* (project.repository.ts:374-469, 490-560).
FilesKept ==
  \A r \in Requests :
    pc[r] # "idle" /\ result[r] = "Ok" /\ call[r].op = "updateGeneratedFiles"
      /\ (\A q \in Requests \ {r} : pc[q] # "idle" => call[q].op # "updateGeneratedFiles")
        => call[r].files \subseteq rows[call[r].project].files

\* No user is served or may change a project of somebody else, though the
\* ownership is checked several queries before the write, and after the caching.
OnlyOwnerServed ==
  \A r \in Requests :
    pc[r] # "idle" /\ call[r].op \in {"findOne", "update", "archive", "delete"}
      /\ (result[r] = "Ok" \/ pc[r] \in {"lockedUpdate", "markDeleted", "invalidate", "publish"})
        => rows[call[r].project].owner = call[r].caller

\* Every request is answered (or lost with its process): no combination of
\* stale locks, missing rows and failures leaves one waiting.
EveryRequestAnswered ==
  \A r \in Requests : pc[r] # "idle" ~> pc[r] \in {"done", "lost"}

\* The life of every project is the one ProjectLifecycle promises.
Lifecycle == INSTANCE ProjectLifecycle WITH
  project <- [p \in Projects |->
                IF rows[p] = None THEN None
                ELSE [owner |-> rows[p].owner, status |-> rows[p].status]]

ImplementsLifecycle == Lifecycle!LifeSpec

=============================================================================
