------------------------ MODULE ProjectServiceProofs ------------------------
(***************************************************************************)
(* Proofs about ProjectService, for any number of requests, projects,      *)
(* users, names and files, for any selection of operations and faults.     *)
(***************************************************************************)
EXTENDS ProjectService, TLAPS

\* The queries a call of each method may await.
StepsOf(op) ==
  CASE op = "create"  -> {"validateCreateData", "insert", "publish", "done", "lost"}
    [] op = "findOne" -> {"cacheGet", "load", "fill", "done", "lost"}
    [] op = "update"  -> {"checkUpdate", "repositoryRead", "lockedUpdate",
                          "invalidate", "publish", "done", "lost"}
    [] op = "archive" -> {"checkArchive", "repositoryRead", "lockedUpdate",
                          "invalidate", "publish", "done", "lost"}
    [] op = "delete"  -> {"checkDelete", "markDeleted", "invalidate", "publish",
                          "done", "lost"}
    [] op = "updateGeneratedFiles" ->
                         {"checkFiles", "readFiles", "writeFiles", "invalidate",
                          "publish", "done", "lost"}

\* A request that runs has a call, and awaits a query of the method called.
CallsKnown ==
  \A r \in Requests : pc[r] # "idle" =>
    call[r] \in Calls /\ pc[r] \in StepsOf(call[r].op)

\* The steps that use the row of the project, which some earlier step found.
RowSteps == {"repositoryRead", "lockedUpdate", "markDeleted", "readFiles", "writeFiles"}

\* What a request is about to use is there: rows are never removed.
RowsKnown ==
  \A r \in Requests :
    /\ pc[r] \in RowSteps => rows[call[r].project] # None
    /\ pc[r] = "fill" => read[r] # None
    /\ pc[r] = "lockedUpdate" => base[r] # None
    /\ pc[r] = "writeFiles" /\ call[r].mode = "append" => base[r] # None

TypeInv == TypeOK /\ CallsKnown /\ RowsKnown

\* No row, and no row that was read, is stamped later than the clock.
StampsBounded ==
  /\ \A p \in Projects : rows[p] # None => rows[p].updatedAt <= clock
  /\ \A r \in Requests : base[r] # None => base[r].updatedAt <= clock

\* The optimistic lock works: while the stamp of the row is the one the
\* repository read, so is the whole row.
LockedVersion ==
  \A r \in Requests : pc[r] = "lockedUpdate" /\ LockHeld(r) =>
    rows[call[r].project] = base[r]

\* An archive that is about to write has read an ACTIVE row, both times.
ArchiveValidated ==
  \A r \in Requests : pc[r] \in {"repositoryRead", "lockedUpdate"} /\ call[r].op = "archive" =>
    /\ read[r] # None
    /\ rows[call[r].project].status = "ACTIVE" => read[r].status = "ACTIVE"
    /\ pc[r] = "lockedUpdate" => base[r].status = "ACTIVE" /\ read[r].status = "ACTIVE"

\* The id a create is going to insert is nobody else's and has no row yet.
FreshIds ==
  \A r \in Requests : pc[r] # "idle" /\ call[r].op = "create" =>
    /\ pc[r] \in {"validateCreateData", "insert"} => rows[call[r].project] = None
    /\ \A q \in Requests : q # r /\ pc[q] # "idle" /\ call[q].op = "create"
                             => call[q].project # call[r].project

LockInv == TypeInv /\ StampsBounded /\ LockedVersion /\ ArchiveValidated /\ FreshIds

\* What a call carries for each method.
LEMMA CallFields ==
  ASSUME NEW c \in Calls
  PROVE  /\ c.op \in AllOps
         /\ c.project \in Projects
         /\ c.files \in SUBSET Files
         /\ c.op # "updateGeneratedFiles" => c.caller \in Users
         /\ c.op = "create" => c.name \in Names
         /\ c.op = "update" => c.name \in Names \cup {None}
         /\ FirstStep(c.op) \in Steps /\ FirstStep(c.op) \in StepsOf(c.op)
         /\ FirstStep(c.op) \notin RowSteps \cup {"idle", "fill"}
BY DEF Calls, AllOps, FirstStep, Steps, StepsOf, RowSteps

\* What a write of the table does to the row and to the clock.
LEMMA WriteEffect ==
  ASSUME TypeOK, NEW r \in Requests, NEW p \in Projects, NEW w \in Row, Write(r, p, w)
  PROVE  /\ rows' \in [Projects -> Row \cup {None}]
         /\ clock' \in Nat /\ clock <= clock'
         /\ rows'[p] \in Row
         /\ rows'[p].owner = w.owner /\ rows'[p].name = w.name
         /\ rows'[p].status = w.status /\ rows'[p].files = w.files
         /\ rows'[p].updatedAt <= clock'
         /\ UniqueStamps => rows'[p].updatedAt = clock + 1 /\ clock' = clock + 1
         /\ \A q \in Projects : q # p => rows'[q] = rows[q]
<1>1. PICK t \in Stamps(r) :
        /\ rows' = [rows EXCEPT ![p] = [w EXCEPT !.updatedAt = t]]
        /\ clock' = IF t > clock THEN t ELSE clock
  BY DEF Write
<1>2. t \in Nat /\ (UniqueStamps => t = clock + 1)
  BY UniqueStampsAssumption DEF Stamps, TypeOK
<1>3. [w EXCEPT !.updatedAt = t] \in Row
  BY <1>2 DEF Row
<1>4. /\ [w EXCEPT !.updatedAt = t].updatedAt = t
      /\ [w EXCEPT !.updatedAt = t].owner = w.owner
      /\ [w EXCEPT !.updatedAt = t].name = w.name
      /\ [w EXCEPT !.updatedAt = t].status = w.status
      /\ [w EXCEPT !.updatedAt = t].files = w.files
  BY DEF Row
<1>5. rows'[p] = [w EXCEPT !.updatedAt = t]
  BY <1>1 DEF TypeOK
<1>. QED BY <1>1, <1>2, <1>3, <1>4, <1>5 DEF TypeOK

\* The order of the queries of each method, as far as no write is concerned.
LEMMA NextSteps ==
  ASSUME NEW op \in AllOps, NEW step \in StepsOf(op)
  PROVE  /\ {"done", "lost"} \subseteq StepsOf(op)
         /\ StepsOf(op) \subseteq Steps
         /\ step = "validateCreateData" => "insert" \in StepsOf(op)
         /\ step \in {"checkUpdate", "checkArchive"} => "repositoryRead" \in StepsOf(op)
         /\ step = "repositoryRead" => "lockedUpdate" \in StepsOf(op)
         /\ step = "checkDelete" => "markDeleted" \in StepsOf(op)
         /\ step = "checkFiles" => {"readFiles", "writeFiles"} \subseteq StepsOf(op)
         /\ step = "readFiles" => "writeFiles" \in StepsOf(op)
         /\ step = "cacheGet" => "load" \in StepsOf(op)
         /\ step = "load" => "fill" \in StepsOf(op)
         /\ step = "invalidate" => "publish" \in StepsOf(op)
BY DEF AllOps, StepsOf, Steps

\* Request r goes on to the given step, leaving the table, the calls and the
\* reads of the others alone, with what that step needs.
Moves(r, step) ==
  /\ step \in StepsOf(call[r].op)
  /\ pc' = [pc EXCEPT ![r] = step]
  /\ UNCHANGED <<rows, clock, call, events>>
  /\ \/ UNCHANGED <<read, base>> /\ since' \in [Requests -> Nat]
     \/ ServiceReads(r)
     \/ RepositoryReads(r)
  /\ cache' \in [Projects -> Row \cup {None}]
  /\ result' \in [Requests -> Answers \cup {None}]
  /\ step \in RowSteps => rows[call[r].project] # None
  /\ step = "fill" => read'[r] # None
  /\ step = "lockedUpdate" => base'[r] # None
  /\ step = "writeFiles" /\ call[r].mode = "append" => base'[r] # None

\* Such a move preserves the type invariant.
LEMMA MovesKeepTypes ==
  ASSUME TypeInv, NEW r \in Requests, pc[r] # "idle", NEW step, Moves(r, step)
  PROVE  TypeInv'
<1>1. call[r] \in Calls /\ call[r].op \in AllOps /\ call[r].project \in Projects
  BY CallFields DEF TypeInv, CallsKnown
<1>2. step \in Steps
  BY <1>1, NextSteps DEF Moves
<1>3. /\ read' \in [Requests -> Row \cup {None}]
      /\ base' \in [Requests -> Row \cup {None}]
      /\ since' \in [Requests -> Nat]
      /\ \A q \in Requests : q # r => read'[q] = read[q] /\ base'[q] = base[q]
  BY <1>1 DEF Moves, ServiceReads, RepositoryReads, TypeInv, TypeOK
<1>4. /\ pc'[r] = step
      /\ \A q \in Requests : q # r => pc'[q] = pc[q]
  BY DEF Moves, TypeInv, TypeOK
<1>5. TypeOK'
  BY <1>2, <1>3 DEF Moves, TypeInv, TypeOK
<1>6. CallsKnown'
  BY <1>1, <1>4 DEF Moves, TypeInv, CallsKnown
<1>7. RowsKnown'
  BY <1>3, <1>4 DEF Moves, TypeInv, RowsKnown
<1>. QED BY <1>5, <1>6, <1>7 DEF TypeInv

\* The steps that leave the table of projects alone preserve the invariant.
LEMMA ReadingSteps ==
  ASSUME TypeInv, NEW r \in Requests,
         \/ ValidateCreateData(r) \/ CacheGet(r) \/ Load(r) \/ Fill(r)
         \/ CheckUpdate(r) \/ CheckArchive(r) \/ CheckDelete(r) \/ CheckFiles(r)
         \/ RepositoryRead(r) \/ ReadFiles(r) \/ LockedUpdateFails(r)
         \/ Invalidate(r) \/ DatabaseFails(r) \/ Crash(r)
  PROVE  TypeInv'
<1>0. pc[r] # "idle" /\ call[r] \in Calls /\ pc[r] \in StepsOf(call[r].op)
  BY DEF TypeInv, CallsKnown, ValidateCreateData, CacheGet, Load, Fill,
     CheckUpdate, CheckArchive, CheckDelete, CheckFiles, RepositoryRead, ReadFiles,
     LockedUpdateFails, Invalidate, DatabaseFails, DatabaseSteps, Crash
<1>1. call[r].project \in Projects /\ call[r].op \in AllOps
  BY <1>0, CallFields
<1>2. /\ pc[r] \in RowSteps => rows[call[r].project] # None
      /\ rows \in [Projects -> Row \cup {None}]
      /\ cache \in [Projects -> Row \cup {None}]
      /\ read \in [Requests -> Row \cup {None}]
      /\ base \in [Requests -> Row \cup {None}]
      /\ since \in [Requests -> Nat] /\ clock \in Nat
      /\ result \in [Requests -> Answers \cup {None}]
      /\ \A a \in Answers : [result EXCEPT ![r] = a] \in [Requests -> Answers \cup {None}]
  BY DEF TypeInv, TypeOK, RowsKnown
<1>. SUFFICES \E step : Moves(r, step)
  BY <1>0, MovesKeepTypes
<1>3. CASE ValidateCreateData(r)
  <2>1. PICK step \in {"insert", "done"} :
        pc' = [pc EXCEPT ![r] = step]
    BY <1>3 DEF ValidateCreateData, Goto, Answer
  <2>2. step \in StepsOf(call[r].op)
    BY <1>0, <1>1, <1>3, NextSteps DEF ValidateCreateData
  <2>3. Moves(r, step)
    BY <1>1, <1>2, <1>3, <2>1, <2>2
       DEF Moves, ValidateCreateData, Goto, Answer, Answers, RowSteps
  <2>. QED BY <2>3
<1>4. CASE CacheGet(r)
  <2>1. PICK step \in {"load", "done"} :
        pc' = [pc EXCEPT ![r] = step]
    BY <1>4 DEF CacheGet, Goto, Answer
  <2>2. step \in StepsOf(call[r].op)
    BY <1>0, <1>1, <1>4, NextSteps DEF CacheGet
  <2>3. Moves(r, step)
    BY <1>1, <1>2, <1>4, <2>1, <2>2
       DEF Moves, CacheGet, Goto, Answer, Answers, RowSteps
  <2>. QED BY <2>3
<1>5. CASE Load(r)
  <2>1. PICK step \in {"fill", "done"} :
        /\ pc' = [pc EXCEPT ![r] = step]
        /\ step = "fill" => rows[call[r].project] # None
    BY <1>5 DEF Load, Goto, Answer
  <2>2. step \in StepsOf(call[r].op)
    BY <1>0, <1>1, <1>5, NextSteps DEF Load
  <2>3. Moves(r, step)
    BY <1>1, <1>2, <1>5, <2>1, <2>2
       DEF Moves, Load, ServiceReads, Goto, Answer, Answers, RowSteps
  <2>. QED BY <2>3
<1>6. CASE Fill(r)
  <2>1. PICK step \in {"done"} :
        pc' = [pc EXCEPT ![r] = step]
    BY <1>6 DEF Fill, Goto, Answer
  <2>2. step \in StepsOf(call[r].op)
    BY <1>0, <1>1, <1>6, NextSteps DEF Fill
  <2>3. Moves(r, step)
    BY <1>1, <1>2, <1>6, <2>1, <2>2
       DEF Moves, Fill, Goto, Answer, Answers, RowSteps
  <2>. QED BY <2>3
<1>7. CASE CheckUpdate(r)
  <2>1. PICK step \in {"repositoryRead", "done"} :
        /\ pc' = [pc EXCEPT ![r] = step]
        /\ step # "done" => rows[call[r].project] # None
    BY <1>7 DEF CheckUpdate, Goto, Answer
  <2>2. step \in StepsOf(call[r].op)
    BY <1>0, <1>1, <1>7, NextSteps DEF CheckUpdate
  <2>3. Moves(r, step)
    BY <1>1, <1>2, <1>7, <2>1, <2>2
       DEF Moves, CheckUpdate, ServiceReads, Goto, Answer, Answers, RowSteps
  <2>. QED BY <2>3
<1>8. CASE CheckArchive(r)
  <2>1. PICK step \in {"repositoryRead", "done"} :
        /\ pc' = [pc EXCEPT ![r] = step]
        /\ step # "done" => rows[call[r].project] # None
    BY <1>8 DEF CheckArchive, Goto, Answer
  <2>2. step \in StepsOf(call[r].op)
    BY <1>0, <1>1, <1>8, NextSteps DEF CheckArchive
  <2>3. Moves(r, step)
    BY <1>1, <1>2, <1>8, <2>1, <2>2
       DEF Moves, CheckArchive, ServiceReads, Goto, Answer, Answers, RowSteps
  <2>. QED BY <2>3
<1>9. CASE CheckDelete(r)
  <2>1. PICK step \in {"markDeleted", "done"} :
        /\ pc' = [pc EXCEPT ![r] = step]
        /\ step # "done" => rows[call[r].project] # None
    BY <1>9 DEF CheckDelete, Goto, Answer
  <2>2. step \in StepsOf(call[r].op)
    BY <1>0, <1>1, <1>9, NextSteps DEF CheckDelete
  <2>3. Moves(r, step)
    BY <1>1, <1>2, <1>9, <2>1, <2>2
       DEF Moves, CheckDelete, ServiceReads, Goto, Answer, Answers, RowSteps
  <2>. QED BY <2>3
<1>10. CASE CheckFiles(r)
  <2>1. PICK step \in {"readFiles", "writeFiles", "done"} :
        /\ pc' = [pc EXCEPT ![r] = step]
        /\ step # "done" => rows[call[r].project] # None
        /\ step = "writeFiles" => call[r].mode # "append"
    BY <1>10 DEF CheckFiles, Goto, Answer
  <2>2. step \in StepsOf(call[r].op)
    BY <1>0, <1>1, <1>10, NextSteps DEF CheckFiles
  <2>3. Moves(r, step)
    BY <1>1, <1>2, <1>10, <2>1, <2>2
       DEF Moves, CheckFiles, ServiceReads, Goto, Answer, Answers, RowSteps
  <2>. QED BY <2>3
<1>11. CASE RepositoryRead(r)
  <2>1. PICK step \in {"lockedUpdate", "done"} :
        pc' = [pc EXCEPT ![r] = step]
    BY <1>11 DEF RepositoryRead, Goto, Answer
  <2>2. step \in StepsOf(call[r].op)
    BY <1>0, <1>1, <1>11, NextSteps DEF RepositoryRead
  <2>3. Moves(r, step)
    BY <1>1, <1>2, <1>11, <2>1, <2>2
       DEF Moves, RepositoryRead, RepositoryReads, Goto, Answer, Answers, RowSteps
  <2>. QED BY <2>3
<1>12. CASE ReadFiles(r)
  <2>1. PICK step \in {"writeFiles"} :
        pc' = [pc EXCEPT ![r] = step]
    BY <1>12 DEF ReadFiles, Goto, Answer
  <2>2. step \in StepsOf(call[r].op)
    BY <1>0, <1>1, <1>12, NextSteps DEF ReadFiles
  <2>3. Moves(r, step)
    BY <1>1, <1>2, <1>12, <2>1, <2>2
       DEF Moves, ReadFiles, RepositoryReads, Goto, Answer, Answers, RowSteps
  <2>. QED BY <2>3
<1>13. CASE LockedUpdateFails(r)
  <2>1. PICK step \in {"done"} :
        pc' = [pc EXCEPT ![r] = step]
    BY <1>13 DEF LockedUpdateFails, Goto, Answer
  <2>2. step \in StepsOf(call[r].op)
    BY <1>0, <1>1, <1>13, NextSteps DEF LockedUpdateFails
  <2>3. Moves(r, step)
    BY <1>1, <1>2, <1>13, <2>1, <2>2
       DEF Moves, LockedUpdateFails, Goto, Answer, Answers, RowSteps
  <2>. QED BY <2>3
<1>14. CASE Invalidate(r)
  <2>1. PICK step \in {"publish"} :
        pc' = [pc EXCEPT ![r] = step]
    BY <1>14 DEF Invalidate, Goto, Answer
  <2>2. step \in StepsOf(call[r].op)
    BY <1>0, <1>1, <1>14, NextSteps DEF Invalidate
  <2>3. Moves(r, step)
    BY <1>1, <1>2, <1>14, <2>1, <2>2
       DEF Moves, Invalidate, Goto, Answer, Answers, RowSteps
  <2>. QED BY <2>3
<1>15. CASE DatabaseFails(r)
  <2>1. PICK answer \in QueryErrors : Answer(r, answer)
    BY <1>15 DEF DatabaseFails
  <2>2. answer \in Answers
    BY DEF QueryErrors, Answers
  <2>3. "done" \in StepsOf(call[r].op) /\ pc' = [pc EXCEPT ![r] = "done"]
    BY <1>0, <1>1, <1>15, <2>1, NextSteps DEF DatabaseFails, Answer
  <2>4. Moves(r, "done")
    BY <1>1, <1>2, <1>15, <2>1, <2>2, <2>3 DEF Moves, DatabaseFails, Answer, RowSteps
  <2>. QED BY <2>4
<1>16. CASE Crash(r)
  <2>1. PICK step \in {"lost"} :
        pc' = [pc EXCEPT ![r] = step]
    BY <1>16 DEF Crash, Goto, Answer
  <2>2. step \in StepsOf(call[r].op)
    BY <1>0, <1>1, <1>16, NextSteps DEF Crash
  <2>3. Moves(r, step)
    BY <1>1, <1>2, <1>16, <2>1, <2>2
       DEF Moves, Crash, Goto, Answer, Answers, RowSteps
  <2>. QED BY <2>3
<1>. QED BY <1>3, <1>4, <1>5, <1>6, <1>7, <1>8, <1>9, <1>10, <1>11, <1>12, <1>13, <1>14, <1>15, <1>16

\* The steps that write the table.
Writing(r) == Insert(r) \/ LockedUpdate(r) \/ MarkDeleted(r) \/ WriteFiles(r)

\* The status request r's write leaves a row with that had the given one.
NewStatus(r, old) ==
  IF pc[r] = "markDeleted" THEN "DELETED"
  ELSE IF pc[r] = "lockedUpdate" /\ call[r].op = "archive" THEN "ARCHIVED"
  ELSE old

\* The row a writing step gives to the project of its call: a new ACTIVE one, or
\* the old one with its owner, with a status that is kept, ARCHIVED under the
\* lock, or DELETED, and with its files unless the write is one of files.
Successor(r, w) ==
  LET old == rows[call[r].project] IN
  \/ pc[r] = "insert" /\ w.status = "ACTIVE" /\ w.owner = call[r].caller
  \/ /\ pc[r] \in RowSteps
     /\ w.owner = old.owner /\ w.status = NewStatus(r, old.status)
     /\ IF pc[r] = "writeFiles" THEN call[r].files \subseteq w.files
                                ELSE w.files = old.files
     /\ pc[r] = "lockedUpdate" => LockHeld(r)

\* A writing step writes a successor of the row, and goes on or fails.
LEMMA WrittenRow ==
  ASSUME TypeInv, NEW r \in Requests, Writing(r)
  PROVE  /\ pc[r] # "idle" /\ call[r] \in Calls /\ call[r].project \in Projects
         /\ \E w \in Row : Write(r, call[r].project, w) /\ Successor(r, w)
         /\ \E step \in {"publish", "invalidate", "done"} :
              /\ pc' = [pc EXCEPT ![r] = step]
              /\ step \in StepsOf(call[r].op)
         /\ result' \in [Requests -> Answers \cup {None}]
<1>0. pc[r] # "idle" /\ call[r] \in Calls /\ pc[r] \in StepsOf(call[r].op)
  BY DEF TypeInv, CallsKnown, Writing, Insert, LockedUpdate, MarkDeleted, WriteFiles
<1>1. call[r].project \in Projects /\ call[r].op \in AllOps /\ call[r].files \in SUBSET Files
  BY <1>0, CallFields
<1>2. pc[r] \in RowSteps => rows[call[r].project] \in Row
  BY <1>1 DEF TypeInv, TypeOK, RowsKnown
<1>3. CASE Insert(r)
  <2>1. call[r].op = "create" /\ call[r].caller \in Users /\ call[r].name \in Names
    BY <1>0, <1>1, <1>3, CallFields DEF Insert, StepsOf, AllOps
  <2>. DEFINE w == [owner |-> call[r].caller, name |-> call[r].name, status |-> "ACTIVE",
                    files |-> {}, updatedAt |-> 0]
  <2>2. w \in Row /\ Write(r, call[r].project, w)
    BY <2>1, <1>3 DEF Insert, Row, Status
  <2>3. Successor(r, w)
    BY <1>3 DEF Successor, Insert
  <2>4. \E step \in {"publish", "done"} : pc' = [pc EXCEPT ![r] = step]
    BY <1>3 DEF Insert, Committed, Goto, Answer
  <2>5. result' \in [Requests -> Answers \cup {None}]
    BY <1>3 DEF Insert, Committed, Goto, Answer, Answers, TypeInv, TypeOK
  <2>. QED BY <2>1, <2>2, <2>3, <2>4, <2>5, <1>0, <1>1 DEF StepsOf
<1>4. CASE LockedUpdate(r)
  <2>1. call[r].op \in {"update", "archive"} /\ rows[call[r].project] \in Row
    BY <1>0, <1>1, <1>2, <1>4 DEF LockedUpdate, StepsOf, AllOps, RowSteps
  <2>2. call[r].op = "update" => call[r].name \in Names \cup {None}
    BY <1>0, CallFields
  <2>. DEFINE old == rows[call[r].project]
              w == IF call[r].op = "archive" THEN [old EXCEPT !.status = "ARCHIVED"]
                   ELSE IF call[r].name # None THEN [old EXCEPT !.name = call[r].name]
                   ELSE old
  <2>3. w \in Row /\ w.owner = old.owner /\ w.files = old.files
          /\ w.status = IF call[r].op = "archive" THEN "ARCHIVED" ELSE old.status
    BY <2>1, <2>2 DEF Row, Status
  <2>4. Write(r, call[r].project, w) /\ pc[r] = "lockedUpdate" /\ LockHeld(r)
    BY <1>4 DEF LockedUpdate
  <2>5. Successor(r, w)
    BY <2>1, <2>3, <2>4 DEF Successor, NewStatus, RowSteps
  <2>6. \E step \in {"invalidate", "done"} : pc' = [pc EXCEPT ![r] = step]
    BY <1>4 DEF LockedUpdate, Committed, Goto, Answer
  <2>7. result' \in [Requests -> Answers \cup {None}]
    BY <1>4 DEF LockedUpdate, Committed, Goto, Answer, Answers, TypeInv, TypeOK
  <2>. QED BY <2>1, <2>3, <2>4, <2>5, <2>6, <2>7, <1>0, <1>1 DEF StepsOf
<1>5. CASE MarkDeleted(r)
  <2>1. call[r].op = "delete" /\ rows[call[r].project] \in Row
    BY <1>0, <1>1, <1>2, <1>5 DEF MarkDeleted, StepsOf, AllOps, RowSteps
  <2>. DEFINE w == [rows[call[r].project] EXCEPT !.status = "DELETED"]
  <2>2. w \in Row /\ w.owner = rows[call[r].project].owner /\ w.status = "DELETED"
          /\ w.files = rows[call[r].project].files
    BY <2>1 DEF Row, Status
  <2>3. Write(r, call[r].project, w) /\ pc[r] = "markDeleted"
    BY <1>5 DEF MarkDeleted
  <2>4. Successor(r, w)
    BY <2>2, <2>3 DEF Successor, NewStatus, RowSteps
  <2>5. \E step \in {"invalidate", "done"} : pc' = [pc EXCEPT ![r] = step]
    BY <1>5 DEF MarkDeleted, Committed, Goto, Answer
  <2>6. result' \in [Requests -> Answers \cup {None}]
    BY <1>5 DEF MarkDeleted, Committed, Goto, Answer, Answers, TypeInv, TypeOK
  <2>. QED BY <2>1, <2>2, <2>3, <2>4, <2>5, <2>6, <1>0, <1>1 DEF StepsOf
<1>6. CASE WriteFiles(r)
  <2>1. call[r].op = "updateGeneratedFiles" /\ rows[call[r].project] \in Row
    BY <1>0, <1>1, <1>2, <1>6 DEF WriteFiles, StepsOf, AllOps, RowSteps
  <2>. DEFINE kept == IF call[r].mode = "append" THEN base[r].files ELSE {}
              w == [rows[call[r].project] EXCEPT !.files = kept \cup call[r].files]
  <2>2. kept \in SUBSET Files
    BY <1>6 DEF WriteFiles, TypeInv, TypeOK, RowsKnown, Row
  <2>3. w \in Row /\ w.owner = rows[call[r].project].owner
          /\ w.status = rows[call[r].project].status /\ call[r].files \subseteq w.files
    BY <2>1, <2>2, <1>1 DEF Row
  <2>4. Write(r, call[r].project, w) /\ pc[r] = "writeFiles"
    BY <1>6 DEF WriteFiles
  <2>5. Successor(r, w)
    BY <2>3, <2>4 DEF Successor, NewStatus, RowSteps
  <2>6. \E step \in {"invalidate", "done"} : pc' = [pc EXCEPT ![r] = step]
    BY <1>6 DEF WriteFiles, Committed, Goto, Answer
  <2>7. result' \in [Requests -> Answers \cup {None}]
    BY <1>6 DEF WriteFiles, Committed, Goto, Answer, Answers, TypeInv, TypeOK
  <2>. QED BY <2>1, <2>3, <2>4, <2>5, <2>6, <2>7, <1>0, <1>1 DEF StepsOf
<1>. QED BY <1>3, <1>4, <1>5, <1>6 DEF Writing

\* The writing steps preserve the type invariant.
LEMMA WritingSteps ==
  ASSUME TypeInv, NEW r \in Requests, Writing(r)
  PROVE  TypeInv'
<1>. DEFINE p == call[r].project
<1>1. PICK w \in Row : Write(r, p, w)
  BY WrittenRow
<1>2. p \in Projects /\ call[r] \in Calls /\ pc[r] # "idle"
  BY WrittenRow
<1>3. /\ rows' \in [Projects -> Row \cup {None}]
      /\ clock' \in Nat
      /\ \A q \in Projects : rows[q] # None => rows'[q] # None
  BY <1>1, <1>2, WriteEffect, NoneAssumption DEF TypeInv
<1>4. PICK step \in {"publish", "invalidate", "done"} :
        pc' = [pc EXCEPT ![r] = step] /\ step \in StepsOf(call[r].op)
  BY WrittenRow
<1>5. UNCHANGED <<cache, call, read, base, since, events>>
  BY <1>1 DEF Write
<1>6. TypeOK'
  BY <1>3, <1>4, <1>5, WrittenRow DEF TypeInv, TypeOK, Steps
<1>7. CallsKnown'
  BY <1>2, <1>4, <1>5 DEF TypeInv, TypeOK, CallsKnown
<1>8. RowsKnown'
  <2>. SUFFICES ASSUME NEW q \in Requests
       PROVE /\ pc'[q] \in RowSteps => rows'[call[q].project] # None
             /\ pc'[q] = "fill" => read[q] # None
             /\ pc'[q] = "lockedUpdate" => base[q] # None
             /\ pc'[q] = "writeFiles" /\ call[q].mode = "append" => base[q] # None
    BY <1>5 DEF RowsKnown
  <2>1. CASE q = r
    BY <2>1, <1>4 DEF RowSteps, TypeInv, TypeOK
  <2>2. CASE q # r
    <3>1. pc'[q] = pc[q]
      BY <2>2, <1>4 DEF TypeInv, TypeOK
    <3>2. pc[q] \in RowSteps => call[q].project \in Projects
      BY CallFields DEF RowSteps, TypeInv, CallsKnown
    <3>. QED BY <3>1, <3>2, <1>3 DEF TypeInv, RowsKnown
  <2>. QED BY <2>1, <2>2
<1>. QED BY <1>6, <1>7, <1>8 DEF TypeInv

\* The start satisfies the type invariant.
LEMMA TypeInvInit == Init => TypeInv
<1>. SUFFICES ASSUME Init PROVE TypeInv
  OBVIOUS
<1>1. rows \in [Projects -> Row \cup {None}]
  BY SeedsAssumption DEF Init, Row
<1>2. TypeOK
  BY <1>1 DEF Init, TypeOK, Steps
<1>. QED BY <1>2 DEF Init, TypeInv, CallsKnown, RowsKnown, RowSteps

\* Every step preserves the type invariant, one case per group of actions.
LEMMA TypeInvNext == TypeInv /\ [Next]_vars => TypeInv'
<1>. SUFFICES ASSUME TypeInv, [Next]_vars PROVE TypeInv'
  OBVIOUS
<1>1. ASSUME NEW r \in Requests, Begin(r) PROVE TypeInv'
  <2>1. PICK c \in Calls : /\ call' = [call EXCEPT ![r] = c]
                           /\ pc' = [pc EXCEPT ![r] = FirstStep(c.op)]
    BY <1>1 DEF Begin, Goto
  <2>2. /\ FirstStep(c.op) \in Steps /\ FirstStep(c.op) \in StepsOf(c.op)
        /\ FirstStep(c.op) \notin RowSteps \cup {"idle", "fill"}
    BY CallFields
  <2>3. UNCHANGED <<rows, cache, clock, read, base, since, result, events>>
    BY <1>1 DEF Begin, Goto
  <2>4. TypeOK'
    BY <2>1, <2>2, <2>3 DEF TypeInv, TypeOK
  <2>5. CallsKnown'
    BY <2>1, <2>2 DEF TypeInv, TypeOK, CallsKnown
  <2>6. RowsKnown'
    BY <2>1, <2>2, <2>3 DEF TypeInv, TypeOK, RowsKnown, RowSteps
  <2>. QED BY <2>4, <2>5, <2>6 DEF TypeInv
<1>2. ASSUME NEW r \in Requests, Publish(r) PROVE TypeInv'
  <2>1. pc[r] # "idle" /\ call[r] \in Calls /\ "done" \in StepsOf(call[r].op)
    <3>1. pc[r] # "idle" /\ call[r] \in Calls
      BY <1>2 DEF Publish, TypeInv, CallsKnown
    <3>2. call[r].op \in AllOps
      BY <3>1, CallFields
    <3>. QED BY <3>1, <3>2 DEF StepsOf, AllOps
  <2>2. Event(r).project \in Projects /\ Event(r).request = r
    BY <2>1, CallFields DEF Event
  <2>3. pc' = [pc EXCEPT ![r] = "done"] /\ result' = [result EXCEPT ![r] = "Ok"]
        /\ (events' = events \cup {Event(r)} \/ events' = events)
        /\ UNCHANGED <<rows, cache, clock, call, read, base, since>>
    BY <1>2 DEF Publish, Answer
  <2>4. TypeOK'
    BY <2>2, <2>3 DEF TypeInv, TypeOK, Steps, Answers
  <2>5. CallsKnown'
    BY <2>1, <2>3 DEF TypeInv, TypeOK, CallsKnown
  <2>6. RowsKnown'
    BY <2>3 DEF TypeInv, TypeOK, RowsKnown, RowSteps
  <2>. QED BY <2>4, <2>5, <2>6 DEF TypeInv
<1>3. ASSUME NEW r \in Requests, Step(r), ~Publish(r) PROVE TypeInv'
  BY <1>3, ReadingSteps, WritingSteps DEF Step, Proceed, Writing
<1>4. ASSUME NEW p \in Projects, Expire(p) PROVE TypeInv'
  BY <1>4 DEF Expire, TypeInv, TypeOK, CallsKnown, RowsKnown
<1>5. ASSUME UNCHANGED vars PROVE TypeInv'
  BY <1>5 DEF vars, TypeInv, TypeOK, CallsKnown, RowsKnown
<1>. QED BY <1>1, <1>2, <1>3, <1>4, <1>5 DEF Next, Finished

\* Type correctness, with what every step relies on: for any faults, also with
\* colliding timestamps.
THEOREM TypeCorrect == Spec => []TypeOK
<1>1. Spec => []TypeInv
  BY TypeInvInit, TypeInvNext, PTL DEF Spec
<1>2. TypeInv => TypeOK
  BY DEF TypeInv
<1>. QED BY <1>1, <1>2, PTL

-----------------------------------------------------------------------------
\* The optimistic lock, when no two writes carry the same millisecond.

\* Steps that leave rows and reads alone, and start neither a lock nor a create.
Quiet(r) ==
  \/ ValidateCreateData(r) \/ CacheGet(r) \/ Fill(r) \/ LockedUpdateFails(r)
  \/ Invalidate(r) \/ Publish(r) \/ DatabaseFails(r) \/ Crash(r)

ServiceReading(r) ==
  \/ Load(r) \/ CheckUpdate(r) \/ CheckArchive(r) \/ CheckDelete(r) \/ CheckFiles(r)

\* What a quiet step changes: its own place, and never to a step that trusts a
\* read of the table.
LEMMA QuietEffect ==
  ASSUME TypeInv, NEW r \in Requests, Quiet(r)
  PROVE  /\ UNCHANGED <<rows, clock, call, read, base>>
         /\ pc[r] # "idle"
         /\ \E step \in Steps \ {"idle", "repositoryRead", "lockedUpdate", "validateCreateData"} :
              /\ pc' = [pc EXCEPT ![r] = step]
              /\ step = "insert" => pc[r] = "validateCreateData"
BY DEF Quiet, ValidateCreateData, CacheGet, Fill, LockedUpdateFails, Invalidate, Publish,
   DatabaseFails, DatabaseSteps, Crash, Goto, Answer, Steps

\* What a step that reads for the service changes: read, and its own place.
LEMMA ServiceReadingEffect ==
  ASSUME TypeInv, NEW r \in Requests, ServiceReading(r)
  PROVE  /\ UNCHANGED <<rows, clock, call, base>>
         /\ read' = [read EXCEPT ![r] = rows[call[r].project]]
         /\ pc[r] \in {"load", "checkUpdate", "checkArchive", "checkDelete", "checkFiles"}
         /\ \E step \in Steps \ {"idle", "lockedUpdate", "validateCreateData", "insert"} :
              /\ pc' = [pc EXCEPT ![r] = step]
              /\ step = "repositoryRead" => rows[call[r].project] # None
BY DEF ServiceReading, Load, CheckUpdate, CheckArchive, CheckDelete, CheckFiles,
   ServiceReads, Goto, Answer, Steps

\* Every step is one of these groups.
LEMMA StepGroups ==
  ASSUME NEW r \in Requests, Step(r)
  PROVE  Quiet(r) \/ ServiceReading(r) \/ RepositoryRead(r) \/ ReadFiles(r) \/ Writing(r)
BY DEF Step, Proceed, Quiet, ServiceReading, Writing

\* The start satisfies the lock invariant.
LEMMA LockInvInit == Init => LockInv
<1>. SUFFICES ASSUME Init PROVE LockInv
  OBVIOUS
<1>1. TypeInv
  BY TypeInvInit
<1>2. StampsBounded
  BY NoneAssumption DEF Init, StampsBounded
<1>. QED BY <1>1, <1>2 DEF Init, LockInv, LockedVersion, ArchiveValidated, FreshIds

\* What a writing step does to the table, seen from every project: also when
\* timestamps collide.
LEMMA WritingFields ==
  ASSUME TypeInv, FreshIds, NEW r \in Requests, Writing(r)
  PROVE  LET p == call[r].project IN
         /\ p \in Projects /\ pc[r] # "idle"
         /\ rows'[p] # None
         /\ pc[r] = "insert" => rows[p] = None
         /\ rows[p] # None => /\ rows'[p].owner = rows[p].owner
                              /\ rows'[p].status = NewStatus(r, rows[p].status)
                              /\ pc[r] # "writeFiles" => rows'[p].files = rows[p].files
         /\ pc[r] = "writeFiles" => call[r].files \subseteq rows'[p].files
         /\ rows[p] = None => /\ rows'[p].status = "ACTIVE"
                              /\ pc[r] = "insert" /\ call[r].op = "create"
         /\ pc[r] = "lockedUpdate" => LockHeld(r)
         /\ clock' \in Nat /\ clock <= clock' /\ rows'[p].updatedAt <= clock'
         /\ UniqueStamps => clock < rows'[p].updatedAt
         /\ \A q \in Projects : q # p => rows'[q] = rows[q]
         /\ UNCHANGED <<call, read, base, events>>
         /\ pc'[r] \in {"publish", "invalidate", "done"}
         /\ \A q \in Requests : q # r => pc'[q] = pc[q]
<1>. DEFINE p == call[r].project
<1>1. TypeOK
  BY DEF TypeInv
<1>2. p \in Projects /\ call[r] \in Calls /\ pc[r] # "idle"
  BY WrittenRow
<1>3. PICK w \in Row : Write(r, p, w) /\ Successor(r, w)
  BY WrittenRow
<1>4. /\ rows'[p] \in Row /\ rows'[p].owner = w.owner /\ rows'[p].status = w.status
      /\ rows'[p].files = w.files
      /\ clock' \in Nat /\ clock <= clock' /\ rows'[p].updatedAt <= clock'
      /\ UniqueStamps => rows'[p].updatedAt = clock + 1
      /\ \A q \in Projects : q # p => rows'[q] = rows[q]
  BY <1>1, <1>2, <1>3, WriteEffect
<1>5. rows'[p] # None
  BY <1>4, NoneAssumption
<1>6. pc[r] = "insert" => call[r].op = "create"
  BY <1>2, CallFields DEF TypeInv, CallsKnown, StepsOf, AllOps
<1>7. pc[r] = "insert" => rows[p] = None
  BY <1>2, <1>6 DEF FreshIds
<1>8. pc[r] \in RowSteps => rows[p] # None
  BY DEF TypeInv, RowsKnown
<1>9. pc[r] = "lockedUpdate" => LockHeld(r)
  BY <1>3 DEF Successor
<1>10. UNCHANGED <<call, read, base, events>>
  BY <1>3 DEF Write
<1>11. /\ pc'[r] \in {"publish", "invalidate", "done"}
       /\ \A q \in Requests : q # r => pc'[q] = pc[q]
  BY <1>1, WrittenRow DEF TypeOK
<1>12. rows[p] = None => /\ rows'[p].status = "ACTIVE"
                         /\ pc[r] = "insert" /\ call[r].op = "create"
  BY <1>3, <1>4, <1>6, <1>8 DEF Successor
<1>13. rows[p] # None => /\ rows'[p].owner = rows[p].owner
                         /\ rows'[p].status = NewStatus(r, rows[p].status)
                         /\ pc[r] # "writeFiles" => rows'[p].files = rows[p].files
  BY <1>3, <1>4, <1>7 DEF Successor
<1>14. pc[r] = "writeFiles" => call[r].files \subseteq rows'[p].files
  BY <1>3, <1>4 DEF Successor
<1>15. UniqueStamps => clock < rows'[p].updatedAt
  BY <1>1, <1>4 DEF TypeOK
<1>. QED BY <1>2, <1>4, <1>5, <1>7, <1>9, <1>10, <1>11, <1>12, <1>13, <1>14, <1>15

\* Under the lock an archive finds its project ACTIVE, so no write but an archive
\* of an ACTIVE row and a delete changes a status.
LEMMA WritingEffect ==
  ASSUME LockInv, NEW r \in Requests, Writing(r)
  PROVE  LET p == call[r].project IN
         /\ rows[p] # None => \/ rows'[p].status = rows[p].status
                              \/ rows'[p].status = "DELETED"
                              \/ /\ pc[r] = "lockedUpdate" /\ call[r].op = "archive"
                                 /\ rows[p] = base[r] /\ rows[p].status = "ACTIVE"
                                 /\ rows'[p].status = "ARCHIVED"
         /\ pc[r] = "lockedUpdate" => rows[p] = base[r]
<1>. DEFINE p == call[r].project
<1>1. pc[r] = "lockedUpdate" => rows[p] = base[r]
  BY WritingFields DEF LockInv, LockedVersion
<1>2. pc[r] = "lockedUpdate" /\ call[r].op = "archive" => rows[p].status = "ACTIVE"
  BY <1>1 DEF LockInv, ArchiveValidated
<1>. QED BY <1>1, <1>2, WritingFields DEF LockInv, NewStatus

\* A writing step preserves the lock invariant: its stamp is later than every
\* stamp in the table or in a read, so every lock on its row is broken.
LEMMA LockInvWriting ==
  ASSUME UniqueStamps, LockInv, NEW r \in Requests, Writing(r)
  PROVE  StampsBounded' /\ LockedVersion' /\ ArchiveValidated'
<1>. DEFINE p == call[r].project
<1>1. TypeOK /\ CallsKnown /\ RowsKnown
  BY DEF LockInv, TypeInv
<1>2. /\ p \in Projects /\ pc[r] # "idle"
      /\ clock' \in Nat /\ clock <= clock'
      /\ clock < rows'[p].updatedAt /\ rows'[p].updatedAt <= clock'
      /\ rows'[p] # None
      /\ \A q \in Projects : q # p => rows'[q] = rows[q]
  BY WritingFields DEF LockInv
<1>3. /\ UNCHANGED <<call, read, base>>
      /\ pc'[r] \in {"publish", "invalidate", "done"}
      /\ \A q \in Requests : q # r => pc'[q] = pc[q]
  BY WritingFields DEF LockInv
<1>4. clock \in Nat /\ rows \in [Projects -> Row \cup {None}]
      /\ base \in [Requests -> Row \cup {None}]
  BY <1>1 DEF TypeOK
<1>5. StampsBounded'
  <2>1. ASSUME NEW q \in Projects, rows'[q] # None PROVE rows'[q].updatedAt <= clock'
    <3>1. CASE q = p
      BY <3>1, <1>2
    <3>2. CASE q # p
      <4>1. rows'[q] = rows[q] /\ rows[q] \in Row
        BY <1>2, <1>4, <2>1, <3>2
      <4>2. rows[q].updatedAt \in Nat /\ rows[q].updatedAt <= clock
        BY <4>1, <2>1 DEF LockInv, StampsBounded, Row
      <4>. QED BY <4>1, <4>2, <1>2, <1>4
    <3>. QED BY <3>1, <3>2
  <2>2. ASSUME NEW q \in Requests, base[q] # None PROVE base[q].updatedAt <= clock'
    <3>1. base[q].updatedAt \in Nat /\ base[q].updatedAt <= clock
      BY <1>4, <2>2 DEF LockInv, StampsBounded, Row
    <3>. QED BY <3>1, <1>2, <1>4
  <2>. QED BY <2>1, <2>2, <1>3 DEF StampsBounded
<1>6. LockedVersion'
  <2>. SUFFICES ASSUME NEW q \in Requests, pc'[q] = "lockedUpdate",
                       rows'[call[q].project].updatedAt = base[q].updatedAt
       PROVE rows'[call[q].project] = base[q]
    BY <1>3 DEF LockedVersion, LockHeld
  <2>1. q # r /\ pc[q] = "lockedUpdate"
    BY <1>3
  <2>2. call[q].project \in Projects
    BY <2>1, <1>1, CallFields DEF CallsKnown
  <2>3. base[q] \in Row /\ base[q].updatedAt <= clock
    BY <2>1, <1>1, <1>4 DEF RowsKnown, LockInv, StampsBounded
  <2>4. call[q].project # p
    BY <2>3, <1>2, <1>4 DEF Row
  <2>5. rows'[call[q].project] = rows[call[q].project]
    BY <2>2, <2>4, <1>2
  <2>. QED BY <2>1, <2>5 DEF LockInv, LockedVersion, LockHeld
<1>7. ArchiveValidated'
  <2>. SUFFICES ASSUME NEW q \in Requests, call[q].op = "archive",
                       pc'[q] \in {"repositoryRead", "lockedUpdate"}
       PROVE /\ read[q] # None
             /\ rows'[call[q].project].status = "ACTIVE" => read[q].status = "ACTIVE"
             /\ pc'[q] = "lockedUpdate" => base[q].status = "ACTIVE" /\ read[q].status = "ACTIVE"
    BY <1>3 DEF ArchiveValidated
  <2>1. q # r /\ pc[q] = pc'[q]
    BY <1>3
  <2>2. call[q].project \in Projects /\ rows[call[q].project] # None
    BY <2>1, <1>1, CallFields DEF CallsKnown, RowsKnown, RowSteps
  <2>3. rows'[call[q].project].status = "ACTIVE" => rows[call[q].project].status = "ACTIVE"
    BY <2>2, WritingFields, WritingEffect DEF LockInv, NewStatus
  <2>. QED BY <2>1, <2>3 DEF LockInv, ArchiveValidated
<1>. QED BY <1>5, <1>6, <1>7

\* A writing step keeps the ids of the creates apart.
LEMMA FreshIdsWriting ==
  ASSUME TypeInv, FreshIds, NEW r \in Requests, Writing(r)
  PROVE  FreshIds'
<1>1. /\ UNCHANGED call /\ pc[r] # "idle"
      /\ pc'[r] \in {"publish", "invalidate", "done"}
      /\ \A q \in Requests : q # r => pc'[q] = pc[q]
      /\ \A q \in Projects : q # call[r].project => rows'[q] = rows[q]
  BY WritingFields
<1>. SUFFICES ASSUME NEW q \in Requests, pc'[q] # "idle", call[q].op = "create"
     PROVE /\ pc'[q] \in {"validateCreateData", "insert"} => rows'[call[q].project] = None
           /\ \A s \in Requests : s # q /\ pc'[s] # "idle" /\ call[s].op = "create"
                                    => call[s].project # call[q].project
  BY <1>1 DEF FreshIds
<1>2. pc[q] # "idle" /\ \A s \in Requests : pc'[s] # "idle" => pc[s] # "idle"
  BY <1>1
<1>3. ASSUME pc'[q] \in {"validateCreateData", "insert"}
      PROVE  rows'[call[q].project] = None
  <2>1. q # r /\ pc[q] = pc'[q]
    BY <1>1, <1>3
  <2>2. rows[call[q].project] = None /\ call[q].project \in Projects
    BY <1>2, <1>3, <2>1, CallFields DEF FreshIds, TypeInv, CallsKnown
  <2>3. call[q].project # call[r].project
    BY <1>2, <2>1, <2>2, WritingFields DEF FreshIds
  <2>. QED BY <2>2, <2>3, <1>1
<1>. QED BY <1>2, <1>3 DEF FreshIds

\* Every step keeps the ids of the creates apart, also when timestamps collide.
LEMMA FreshIdsNext == TypeInv /\ FreshIds /\ [Next]_vars => FreshIds'
<1>. SUFFICES ASSUME TypeInv, FreshIds, [Next]_vars PROVE FreshIds'
  OBVIOUS
<1>0. TypeOK
  BY DEF TypeInv
<1>1. ASSUME NEW r \in Requests, Begin(r) PROVE FreshIds'
  <2>1. PICK c \in Calls :
          /\ c.op = "create" => FreshId(c.project)
          /\ call' = [call EXCEPT ![r] = c] /\ pc' = [pc EXCEPT ![r] = FirstStep(c.op)]
    BY <1>1 DEF Begin, Goto
  <2>2. UNCHANGED rows
    BY <1>1 DEF Begin
  <2>3. call'[r] = c /\ \A s \in Requests : s # r => call'[s] = call[s] /\ pc'[s] = pc[s]
    BY <2>1, <1>0 DEF TypeOK
  <2>. SUFFICES ASSUME NEW q \in Requests, pc'[q] # "idle", call'[q].op = "create"
       PROVE /\ pc'[q] \in {"validateCreateData", "insert"} => rows'[call'[q].project] = None
             /\ \A s \in Requests : s # q /\ pc'[s] # "idle" /\ call'[s].op = "create"
                                      => call'[s].project # call'[q].project
    BY DEF FreshIds
  <2>4. CASE q = r
    BY <2>1, <2>2, <2>3, <2>4 DEF FreshId
  <2>5. CASE q # r
    <3>1. ASSUME NEW s \in Requests, s # q, pc'[s] # "idle", call'[s].op = "create"
          PROVE  call'[s].project # call'[q].project
      BY <2>1, <2>3, <2>5, <3>1 DEF FreshId, FreshIds
    <3>. QED BY <2>2, <2>3, <2>5, <3>1 DEF FreshIds
  <2>. QED BY <2>4, <2>5
<1>2. ASSUME NEW r \in Requests, Quiet(r) \/ ServiceReading(r) \/ RepositoryRead(r) \/ ReadFiles(r)
      PROVE  FreshIds'
  <2>1. /\ UNCHANGED <<rows, call>> /\ pc[r] # "idle"
        /\ pc'[r] # "validateCreateData"
        /\ pc'[r] = "insert" => pc[r] = "validateCreateData"
        /\ \A q \in Requests : q # r => pc'[q] = pc[q]
    <3>1. CASE Quiet(r)
      BY <1>0, <3>1, QuietEffect DEF TypeOK
    <3>2. CASE ServiceReading(r)
      BY <1>0, <3>2, ServiceReadingEffect DEF TypeOK
    <3>3. CASE RepositoryRead(r) \/ ReadFiles(r)
      BY <1>0, <3>3 DEF RepositoryRead, ReadFiles, RepositoryReads, Goto, Answer, TypeOK
    <3>. QED BY <1>2, <3>1, <3>2, <3>3
  <2>. QED BY <2>1 DEF FreshIds
<1>3. ASSUME NEW r \in Requests, Writing(r) PROVE FreshIds'
  BY <1>3, FreshIdsWriting
<1>4. ASSUME UNCHANGED <<rows, pc, call>> PROVE FreshIds'
  BY <1>4 DEF FreshIds
<1>5. ASSUME NEW p \in Projects, Expire(p) PROVE FreshIds'
  BY <1>4, <1>5 DEF Expire
<1>6. ASSUME UNCHANGED vars PROVE FreshIds'
  BY <1>4, <1>6 DEF vars
<1>. QED BY <1>1, <1>2, <1>3, <1>5, <1>6, StepGroups DEF Next, Finished

\* Every step preserves the lock invariant, one case per group of actions.
LEMMA LockInvNext ==
  ASSUME UniqueStamps
  PROVE  LockInv /\ [Next]_vars => LockInv'
<1>. SUFFICES ASSUME LockInv, [Next]_vars PROVE LockInv'
  OBVIOUS
<1>0. TypeInv /\ TypeOK /\ CallsKnown /\ RowsKnown
  BY DEF LockInv, TypeInv
<1>t. TypeInv' /\ FreshIds'
  BY <1>0, TypeInvNext, FreshIdsNext DEF LockInv
<1>a. StampsBounded /\ LockedVersion /\ ArchiveValidated
  BY DEF LockInv
<1>. DEFINE Rest == StampsBounded /\ LockedVersion /\ ArchiveValidated
<1>1. ASSUME NEW r \in Requests, Begin(r) PROVE Rest'
  <2>1. PICK c \in Calls :
          /\ c.op = "create" => FreshId(c.project)
          /\ call' = [call EXCEPT ![r] = c] /\ pc' = [pc EXCEPT ![r] = FirstStep(c.op)]
    BY <1>1 DEF Begin, Goto
  <2>2. pc[r] = "idle" /\ UNCHANGED <<rows, clock, read, base>>
    BY <1>1 DEF Begin
  <2>3. FirstStep(c.op) \notin RowSteps \cup {"idle", "fill"}
    BY CallFields
  <2>4. StampsBounded'
    BY <2>2, <1>a DEF StampsBounded
  <2>5. LockedVersion' /\ ArchiveValidated'
    BY <2>1, <2>2, <2>3, <1>0, <1>a DEF TypeOK, LockedVersion, LockHeld, ArchiveValidated, RowSteps
  <2>. QED BY <2>4, <2>5
<1>2. ASSUME NEW r \in Requests, Quiet(r) PROVE Rest'
  <2>1. /\ UNCHANGED <<rows, clock, call, read, base>> /\ pc[r] # "idle"
        /\ pc'[r] \notin {"idle", "repositoryRead", "lockedUpdate", "validateCreateData"}
        /\ pc'[r] = "insert" => pc[r] = "validateCreateData"
        /\ \A q \in Requests : q # r => pc'[q] = pc[q]
    BY <1>0, <1>2, QuietEffect DEF TypeOK
  <2>2. StampsBounded'
    BY <2>1, <1>a DEF StampsBounded
  <2>3. LockedVersion'
    BY <2>1, <1>a DEF LockedVersion, LockHeld
  <2>4. ArchiveValidated'
    BY <2>1, <1>a DEF ArchiveValidated
  <2>. QED BY <2>2, <2>3, <2>4
<1>3. ASSUME NEW r \in Requests, ServiceReading(r) PROVE Rest'
  <2>1. /\ UNCHANGED <<rows, clock, call, base>>
        /\ read'[r] = rows[call[r].project] /\ pc[r] # "idle"
        /\ pc'[r] \notin {"idle", "lockedUpdate", "validateCreateData", "insert"}
        /\ pc'[r] = "repositoryRead" => rows[call[r].project] # None
        /\ \A q \in Requests : q # r => pc'[q] = pc[q] /\ read'[q] = read[q]
    BY <1>0, <1>3, ServiceReadingEffect DEF TypeOK
  <2>2. StampsBounded'
    BY <2>1, <1>a DEF StampsBounded
  <2>3. LockedVersion'
    BY <2>1, <1>a DEF LockedVersion, LockHeld
  <2>4. ArchiveValidated'
    BY <2>1, <1>a DEF ArchiveValidated
  <2>. QED BY <2>2, <2>3, <2>4
<1>4. ASSUME NEW r \in Requests, RepositoryRead(r) \/ ReadFiles(r) PROVE Rest'
  <2>1. /\ UNCHANGED <<rows, clock, call, read>>
        /\ base'[r] = rows[call[r].project] /\ pc[r] \in {"repositoryRead", "readFiles"}
        /\ pc'[r] \in {"lockedUpdate", "writeFiles", "done"}
        /\ \A q \in Requests : q # r => pc'[q] = pc[q] /\ base'[q] = base[q]
    BY <1>0, <1>4 DEF RepositoryRead, ReadFiles, RepositoryReads, Goto, Answer, TypeOK
  <2>2. call[r].project \in Projects /\ rows[call[r].project] \in Row
    BY <2>1, <1>0, CallFields DEF CallsKnown, RowsKnown, RowSteps, TypeOK
  <2>3. StampsBounded'
    BY <2>1, <2>2, <1>a DEF StampsBounded
  <2>4. LockedVersion'
    BY <2>1, <1>a DEF LockedVersion, LockHeld
  <2>5. pc'[r] = "lockedUpdate" /\ call[r].op = "archive" =>
          pc[r] = "repositoryRead" /\ rows[call[r].project].status = "ACTIVE"
    <3>1. ASSUME pc'[r] = "lockedUpdate", call[r].op = "archive"
          PROVE  pc[r] = "repositoryRead" /\ "ARCHIVED" \in ValidTransitions[rows[call[r].project].status]
      BY <3>1, <1>0, <1>4 DEF RepositoryRead, ReadFiles, Goto, Answer, TypeOK, ValidStatusTransition
    <3>2. \A st \in Status : "ARCHIVED" \in ValidTransitions[st] => st = "ACTIVE"
      BY DEF Status, ValidTransitions
    <3>3. rows[call[r].project].status \in Status
      BY <2>2 DEF Row
    <3>. QED BY <3>1, <3>2, <3>3
  <2>6. ArchiveValidated'
    BY <2>1, <2>5, <1>a DEF ArchiveValidated
  <2>. QED BY <2>3, <2>4, <2>6
<1>5. ASSUME NEW r \in Requests, Writing(r) PROVE Rest'
  BY <1>5, LockInvWriting
<1>6. ASSUME UNCHANGED <<rows, clock, pc, call, read, base>> PROVE Rest'
  BY <1>6, <1>a DEF StampsBounded, LockedVersion, LockHeld, ArchiveValidated
<1>7. ASSUME NEW p \in Projects, Expire(p) PROVE Rest'
  BY <1>6, <1>7 DEF Expire
<1>8. ASSUME UNCHANGED vars PROVE Rest'
  BY <1>6, <1>8 DEF vars
<1>9. Rest'
  BY <1>1, <1>2, <1>3, <1>4, <1>5, <1>7, <1>8, StepGroups DEF Next, Finished
<1>. QED BY <1>t, <1>9 DEF LockInv

\* The lock invariant holds throughout.
LEMMA LockInvariant ==
  ASSUME UniqueStamps
  PROVE  Spec => []LockInv
<1>1. LockInv /\ [Next]_vars => LockInv'
  BY LockInvNext
<1>. QED BY <1>1, LockInvInit, PTL DEF Spec

\* Only a writing step changes the table.
LEMMA RowsChange ==
  ASSUME TypeInv, [Next]_vars, rows' # rows
  PROVE  \E r \in Requests : Writing(r)
<1>1. ASSUME NEW r \in Requests, Step(r) PROVE Writing(r)
  <2>1. ~Quiet(r) /\ ~ServiceReading(r)
    BY QuietEffect, ServiceReadingEffect
  <2>2. ~RepositoryRead(r) /\ ~ReadFiles(r)
    BY DEF RepositoryRead, ReadFiles, RepositoryReads
  <2>. QED BY <1>1, <2>1, <2>2, StepGroups
<1>. QED BY <1>1 DEF Next, Begin, Expire, Finished, vars

\* A locked write is the writing step of its own request, under its lock.
LEMMA LockedWriteEffect ==
  ASSUME LockInv, [Next]_vars, NEW r \in Requests, LockedWrite(r)
  PROVE  rows[call[r].project] = base[r]
<1>1. PICK s \in Requests : Writing(s)
  BY RowsChange DEF LockedWrite, LockInv
<1>2. s = r
  BY <1>1, WritingFields DEF LockedWrite, LockInv
<1>. QED BY <1>1, <1>2, WritingEffect DEF LockedWrite

\* A soft delete is final, for any number of requests and projects, whatever
\* fails: as long as no two writes carry the same millisecond.
THEOREM DeleteFinal ==
  ASSUME UniqueStamps
  PROVE  Spec => DeletedIsFinal
<1>1. ASSUME LockInv, [Next]_vars, NEW p \in Projects,
             rows[p] # None, rows[p].status = "DELETED"
      PROVE  rows'[p].status = "DELETED"
  <2>1. CASE rows' = rows
    BY <1>1, <2>1
  <2>2. CASE rows' # rows
    <3>1. PICK r \in Requests : Writing(r)
      BY <1>1, <2>2, RowsChange DEF LockInv
    <3>2. CASE p = call[r].project
      BY <1>1, <3>1, <3>2, WritingEffect
    <3>3. CASE p # call[r].project
      BY <1>1, <3>1, <3>3, WritingFields DEF LockInv
    <3>. QED BY <3>2, <3>3
  <2>. QED BY <2>1, <2>2
<1>2. LockInv /\ [Next]_vars =>
        [\A p \in Projects :
           rows[p] # None /\ rows[p].status = "DELETED" => rows'[p].status = "DELETED"]_vars
  BY <1>1
<1>. QED BY <1>2, LockInvariant, PTL DEF Spec, DeletedIsFinal

\* Optimistic locking works: an update or archive that goes through replaces the
\* row version it validated.
THEOREM LockWorks ==
  ASSUME UniqueStamps
  PROVE  Spec => NoOverwriteOfUnread
<1>1. LockInv /\ [Next]_vars =>
        [\A r \in Requests : LockedWrite(r) => rows[call[r].project] = base[r]]_vars
  BY LockedWriteEffect
<1>. QED BY <1>1, LockInvariant, PTL DEF Spec, NoOverwriteOfUnread

\* project.archived tells the truth: an archive is written over the status the
\* service read two queries earlier.
THEOREM ArchivedEvent ==
  ASSUME UniqueStamps
  PROVE  Spec => ArchivedEventTruthful
<1>1. ASSUME LockInv, [Next]_vars, NEW r \in Requests,
             LockedWrite(r), call[r].op = "archive"
      PROVE  read[r].status = rows[call[r].project].status
  BY <1>1, LockedWriteEffect DEF LockedWrite, LockInv, ArchiveValidated
<1>2. LockInv /\ [Next]_vars =>
        [\A r \in Requests :
           LockedWrite(r) /\ call[r].op = "archive"
             => read[r].status = rows[call[r].project].status]_vars
  BY <1>1
<1>. QED BY <1>2, LockInvariant, PTL DEF Spec, ArchivedEventTruthful

\* The life of every project is the one ProjectLifecycle promises: every step is
\* a creation, an archiving of an ACTIVE project, a deletion, or invisible.
THEOREM Implementation ==
  ASSUME UniqueStamps
  PROVE  Spec => ImplementsLifecycle
<1>. DEFINE life == [p \in Projects |->
                       IF rows[p] = None THEN None
                       ELSE [owner |-> rows[p].owner, status |-> rows[p].status]]
<1>1. TypeOK => Lifecycle!LifeInit
  BY DEF TypeOK, Row, Lifecycle!LifeInit, Lifecycle!Lives, Lifecycle!Status, Status
<1>2. LockInv /\ [Next]_vars => [Lifecycle!LifeNext]_life
  <2>. SUFFICES ASSUME LockInv, [Next]_vars, rows' # rows
       PROVE  Lifecycle!LifeNext \/ life' = life
    OBVIOUS
  <2>1. PICK r \in Requests : Writing(r)
    BY RowsChange DEF LockInv
  <2>. DEFINE p == call[r].project
  <2>2. /\ p \in Projects /\ rows'[p] # None
        /\ rows[p] # None => /\ rows'[p].owner = rows[p].owner
                             /\ \/ rows'[p].status = rows[p].status
                                \/ rows'[p].status = "DELETED"
                                \/ rows[p].status = "ACTIVE" /\ rows'[p].status = "ARCHIVED"
        /\ rows[p] = None => rows'[p].status = "ACTIVE"
        /\ \A q \in Projects : q # p => rows'[q] = rows[q]
    BY <2>1, WritingEffect, WritingFields DEF LockInv
  <2>3. rows'[p] \in Row /\ (rows[p] # None => rows[p] \in Row)
    BY <2>2, LockInvNext, TypeInvNext DEF LockInv, TypeInv, TypeOK
  <2>4. life' = [life EXCEPT ![p] = [owner |-> rows'[p].owner, status |-> rows'[p].status]]
    BY <2>2
  <2>5. CASE rows[p] = None
    <3>1. life[p] = None /\ rows'[p].owner \in Users
      BY <2>2, <2>3, <2>5 DEF Row
    <3>2. life' = [life EXCEPT ![p] = [owner |-> rows'[p].owner, status |-> "ACTIVE"]]
      BY <2>2, <2>4, <2>5
    <3>. QED BY <2>2, <3>1, <3>2, ZenonT(30) DEF Lifecycle!LifeNext, Lifecycle!Create
  <2>6. CASE rows[p] # None
    <3>1. life[p] = [owner |-> rows[p].owner, status |-> rows[p].status] /\ life[p] # None
      BY <2>2, <2>3, <2>6, NoneAssumption DEF Row
    <3>2. CASE rows'[p].status = rows[p].status
      BY <2>2, <2>4, <2>6, <3>1, <3>2
    <3>3. CASE rows'[p].status = "DELETED"
      <4>1. life' = [life EXCEPT ![p].status = "DELETED"]
        BY <2>2, <2>4, <2>6, <3>1, <3>3
      <4>. QED BY <2>2, <3>1, <4>1 DEF Lifecycle!LifeNext, Lifecycle!Delete
    <3>4. CASE rows[p].status = "ACTIVE" /\ rows'[p].status = "ARCHIVED"
      <4>1. life' = [life EXCEPT ![p].status = "ARCHIVED"]
        BY <2>2, <2>4, <2>6, <3>1, <3>4
      <4>. QED BY <2>2, <3>1, <3>4, <4>1 DEF Lifecycle!LifeNext, Lifecycle!Archive
    <3>. QED BY <2>2, <2>6, <3>2, <3>3, <3>4
  <2>. QED BY <2>5, <2>6
<1>3. LockInv => TypeOK
  BY DEF LockInv, TypeInv
<1>. QED BY <1>1, <1>2, <1>3, LockInvInit, LockInvariant, PTL
     DEF Spec, ImplementsLifecycle, Lifecycle!LifeSpec

-----------------------------------------------------------------------------
(***************************************************************************)
(* What a client was answered, and what the orchestrator was told, is true *)
(* and stays true.  The lock invariant is needed only where the status of  *)
(* a project is concerned: owners and files are safe also when timestamps  *)
(* collide.                                                                *)
(***************************************************************************)

\* Request r has applied its write (or needed none) and is to be answered Ok, or
\* was answered Ok.
Acknowledged(r) == pc[r] \in {"invalidate", "publish"} \/ result[r] = "Ok"

\* An answer is the last thing a request does, and its event comes with it.
AnswersLast ==
  /\ \A r \in Requests : result[r] # None => pc[r] = "done"
  /\ \A e \in events :
       LET r == e.request IN
       /\ r \in Requests /\ result[r] = "Ok" /\ pc[r] = "done"
       /\ e = Event(r) /\ call[r].op \in AllOps \ {"findOne"}

\* The methods that check the caller against the owner, and the steps by which
\* they have.
OwnedOps == {"findOne", "update", "archive", "delete"}
OwnedSteps == {"repositoryRead", "lockedUpdate", "markDeleted", "invalidate", "publish"}

\* A caller who was let through is the owner of the row, which is there.
OwnersServed ==
  \A r \in Requests : pc[r] # "idle" /\ call[r].op \in OwnedOps =>
    LET row == rows[call[r].project] IN
    /\ pc[r] \in OwnedSteps \/ result[r] = "Ok" => row # None /\ row.owner = call[r].caller
    /\ pc[r] = "fill" => row # None /\ row.owner = read[r].owner

\* Files that were written are in the list until another request writes one.
FilesListed ==
  \A r \in Requests : pc[r] # "idle" /\ Acknowledged(r) /\ call[r].op = "updateGeneratedFiles" =>
    /\ rows[call[r].project] # None
    /\ \/ \E q \in Requests \ {r} : pc[q] # "idle" /\ call[q].op = "updateGeneratedFiles"
       \/ call[r].files \subseteq rows[call[r].project].files

AnswersInv == TypeInv /\ FreshIds /\ AnswersLast /\ OwnersServed /\ FilesListed

\* An acknowledged archive or delete is not undone, and of the archives of one
\* project only one is acknowledged.
StatusKept ==
  \A r \in Requests : pc[r] # "idle" /\ Acknowledged(r) =>
    LET row == rows[call[r].project] IN
    /\ call[r].op = "archive" => row # None /\ row.status # "ACTIVE"
    /\ call[r].op = "delete"  => row # None /\ row.status = "DELETED"

OneArchive ==
  \A r, q \in Requests :
    (/\ pc[r] # "idle" /\ Acknowledged(r) /\ call[r].op = "archive"
     /\ pc[q] # "idle" /\ Acknowledged(q) /\ call[q].op = "archive"
     /\ call[r].project = call[q].project)
      => r = q

StatusInv == LockInv /\ AnswersLast /\ StatusKept /\ OneArchive

-----------------------------------------------------------------------------
\* What the steps do to the answers.

\* A write is followed by what remains of the request, or by the answer 500.
LEMMA WritingGoesOn ==
  ASSUME TypeInv, NEW r \in Requests, Writing(r)
  PROVE  /\ \/ /\ pc'[r] = IF pc[r] = "insert" THEN "publish" ELSE "invalidate"
               /\ UNCHANGED result
            \/ pc'[r] = "done" /\ result' = [result EXCEPT ![r] = "ServerError"]
         /\ pc[r] \notin {"idle", "done", "invalidate", "publish"}
         /\ pc[r] \in {"insert", "lockedUpdate", "markDeleted", "writeFiles"}
BY DEF Writing, Insert, LockedUpdate, MarkDeleted, WriteFiles, Committed, Goto, Answer,
   TypeInv, TypeOK

\* Going on and answering change the place and the answer of one request.
LEMMA GotoEffect ==
  ASSUME TypeInv, NEW r \in Requests, NEW step, Goto(r, step)
  PROVE  /\ pc'[r] = step /\ \A q \in Requests : q # r => pc'[q] = pc[q]
         /\ UNCHANGED result
BY DEF Goto, TypeInv, TypeOK

LEMMA AnswerEffect ==
  ASSUME TypeInv, NEW r \in Requests, NEW a, Answer(r, a)
  PROVE  /\ pc'[r] = "done" /\ \A q \in Requests : q # r => pc'[q] = pc[q]
         /\ result'[r] = a /\ \A q \in Requests : q # r => result'[q] = result[q]
BY DEF Answer, TypeInv, TypeOK

\* A step that writes nothing leads to an acknowledgement only from one, or by
\* serving what was read; past a check of the owner only by that check.
GoesOn(r) ==
  LET row == rows[call[r].project] IN
  /\ UNCHANGED <<rows, call>>
  /\ pc[r] \notin {"idle", "done"} /\ pc'[r] # "idle"
  /\ \A q \in Requests : q # r => pc'[q] = pc[q] /\ result'[q] = result[q] /\ read'[q] = read[q]
  /\ result'[r] # result[r] => pc'[r] = "done"
  /\ pc'[r] # "invalidate" /\ (pc'[r] = "publish" => pc[r] = "invalidate")
  /\ result'[r] = "Ok" /\ result[r] # "Ok" =>
       pc[r] = "publish" \/ (pc[r] = "fill" /\ read[r].owner = call[r].caller)
  /\ pc'[r] \in {"repositoryRead", "markDeleted"} => row # None /\ row.owner = call[r].caller
  /\ pc'[r] = "lockedUpdate" => pc[r] = "repositoryRead"
  /\ pc'[r] = "fill" => row # None /\ read'[r] = row
  /\ \/ events' = events /\ pc[r] # "publish"
     \/ /\ pc[r] = "publish" /\ UNCHANGED read
        /\ \/ events' = events
           \/ result'[r] = "Ok" /\ events' = events \cup {Event(r)}

LEMMA ReadingGoesOn ==
  ASSUME TypeInv, NEW r \in Requests, Step(r), ~Writing(r)
  PROVE  GoesOn(r)
<1>0. read \in [Requests -> Row \cup {None}]
  BY DEF TypeInv, TypeOK
<1>1. CASE ValidateCreateData(r)
  BY <1>1, GotoEffect, AnswerEffect DEF ValidateCreateData, GoesOn
<1>2. CASE CacheGet(r)
  BY <1>2, GotoEffect, AnswerEffect DEF CacheGet, GoesOn
<1>3. CASE Fill(r)
  BY <1>3, AnswerEffect DEF Fill, GoesOn
<1>4. CASE LockedUpdateFails(r)
  BY <1>4, AnswerEffect DEF LockedUpdateFails, GoesOn
<1>5. CASE Invalidate(r)
  BY <1>5, GotoEffect DEF Invalidate, GoesOn
<1>6. CASE Publish(r)
  <2>1. /\ pc'[r] = "done" /\ \A q \in Requests : q # r => pc'[q] = pc[q]
        /\ result'[r] = "Ok" /\ \A q \in Requests : q # r => result'[q] = result[q]
    BY <1>6, AnswerEffect DEF Publish
  <2>2. /\ UNCHANGED <<rows, call, read>> /\ pc[r] = "publish"
        /\ events' = events \/ events' = events \cup {Event(r)}
    BY <1>6 DEF Publish
  <2>. QED BY <2>1, <2>2 DEF GoesOn
<1>7. CASE DatabaseFails(r)
  <2>1. PICK answer \in QueryErrors : Answer(r, answer)
    BY <1>7 DEF DatabaseFails
  <2>2. answer # "Ok"
    BY DEF QueryErrors
  <2>. QED BY <1>7, <2>1, <2>2, AnswerEffect DEF DatabaseFails, DatabaseSteps, GoesOn
<1>8. CASE Crash(r)
  BY <1>8, GotoEffect DEF Crash, GoesOn
<1>9. CASE Load(r)
  BY <1>0, <1>9, GotoEffect, AnswerEffect DEF Load, ServiceReads, GoesOn
<1>10. CASE CheckUpdate(r)
  BY <1>0, <1>10, GotoEffect, AnswerEffect DEF CheckUpdate, ServiceReads, GoesOn
<1>11. CASE CheckArchive(r)
  BY <1>0, <1>11, GotoEffect, AnswerEffect DEF CheckArchive, ServiceReads, GoesOn
<1>12. CASE CheckDelete(r)
  BY <1>0, <1>12, GotoEffect, AnswerEffect DEF CheckDelete, ServiceReads, GoesOn
<1>13. CASE CheckFiles(r)
  BY <1>0, <1>13, GotoEffect, AnswerEffect DEF CheckFiles, ServiceReads, GoesOn
<1>14. CASE RepositoryRead(r)
  BY <1>14, GotoEffect, AnswerEffect DEF RepositoryRead, RepositoryReads, GoesOn
<1>15. CASE ReadFiles(r)
  BY <1>15, GotoEffect DEF ReadFiles, RepositoryReads, GoesOn
<1>. QED
  BY <1>1, <1>2, <1>3, <1>4, <1>5, <1>6, <1>7, <1>8, <1>9, <1>10, <1>11, <1>12, <1>13,
     <1>14, <1>15 DEF Step, Proceed, Writing

\* The start of a request changes nothing but its own call and place.
LEMMA BeginEffect ==
  ASSUME TypeInv, NEW r \in Requests, Begin(r)
  PROVE  /\ UNCHANGED <<rows, read, result, events>> /\ pc[r] = "idle"
         /\ \A q \in Requests : q # r => pc'[q] = pc[q] /\ call'[q] = call[q]
         /\ pc'[r] \in {"validateCreateData", "cacheGet", "checkUpdate", "checkArchive",
                        "checkDelete", "checkFiles"}
<1>1. PICK c \in Calls : /\ call' = [call EXCEPT ![r] = c]
                         /\ pc' = [pc EXCEPT ![r] = FirstStep(c.op)]
  BY DEF Begin, Goto
<1>2. c.op \in AllOps
  BY CallFields
<1>. QED BY <1>1, <1>2 DEF Begin, Goto, FirstStep, AllOps, TypeInv, TypeOK
-----------------------------------------------------------------------------
\* Owners and files: also when timestamps collide.

LEMMA AnswersInit == Init => AnswersInv
<1>. SUFFICES ASSUME Init PROVE AnswersInv
  OBVIOUS
<1>1. TypeInv
  BY TypeInvInit
<1>. QED
  BY <1>1 DEF Init, AnswersInv, FreshIds, AnswersLast, OwnersServed, FilesListed

LEMMA AnswersLastNext ==
  ASSUME TypeInv, FreshIds, AnswersLast, [Next]_vars
  PROVE  AnswersLast'
<1>0. /\ \A r \in Requests : result[r] # None => pc[r] = "done"
      /\ \A e \in events : /\ e.request \in Requests /\ result[e.request] = "Ok"
                           /\ pc[e.request] = "done" /\ e = Event(e.request)
                           /\ call[e.request].op \in AllOps \ {"findOne"}
  BY DEF AnswersLast
<1>1. ASSUME NEW r \in Requests, Begin(r) PROVE AnswersLast'
  <2>1. /\ UNCHANGED <<read, result, events>> /\ pc[r] = "idle"
        /\ \A q \in Requests : q # r => pc'[q] = pc[q] /\ call'[q] = call[q]
    BY <1>1, BeginEffect
  <2>2. \A q \in Requests : q # r => Event(q)' = Event(q)
    BY <2>1 DEF Event
  <2>. QED BY <1>0, <2>1, <2>2 DEF AnswersLast
<1>2. ASSUME NEW r \in Requests, Writing(r) PROVE AnswersLast'
  <2>1. /\ UNCHANGED <<call, read, events>> /\ pc[r] # "done"
        /\ \A q \in Requests : q # r => pc'[q] = pc[q] /\ result'[q] = result[q]
        /\ result'[r] = result[r] \/ pc'[r] = "done"
    BY <1>2, WritingFields, WritingGoesOn DEF TypeInv, TypeOK
  <2>2. \A q \in Requests : Event(q)' = Event(q)
    BY <2>1 DEF Event
  <2>. QED BY <1>0, <2>1, <2>2 DEF AnswersLast
<1>3. ASSUME NEW r \in Requests, Step(r), ~Writing(r) PROVE AnswersLast'
  <2>1. GoesOn(r)
    BY <1>3, ReadingGoesOn
  <2>2. \A q \in Requests : q # r => Event(q)' = Event(q)
    BY <2>1 DEF GoesOn, Event
  <2>3. ASSUME NEW q \in Requests, result'[q] # None PROVE pc'[q] = "done"
    BY <1>0, <2>1, <2>3 DEF GoesOn
  <2>4. ASSUME NEW e \in events
        PROVE  /\ e.request \in Requests \ {r} /\ result'[e.request] = "Ok"
               /\ pc'[e.request] = "done" /\ e = Event(e.request)'
               /\ call'[e.request].op \in AllOps \ {"findOne"}
    <3>1. e.request \in Requests \ {r} /\ result[e.request] = "Ok"
      BY <1>0, <2>1 DEF GoesOn
    <3>. QED BY <1>0, <2>1, <2>2, <3>1 DEF GoesOn
  <2>5. CASE events' = events
    BY <2>3, <2>4, <2>5 DEF AnswersLast
  <2>6. CASE /\ pc[r] = "publish" /\ UNCHANGED read /\ result'[r] = "Ok"
             /\ events' = events \cup {Event(r)}
    <3>1. Event(r)' = Event(r) /\ Event(r).request = r
      BY <2>1, <2>6 DEF GoesOn, Event
    <3>2. pc'[r] = "done"
      BY <1>0, <2>1, <2>6, NoneAssumption DEF GoesOn, Answers
    <3>3. call'[r].op \in AllOps \ {"findOne"}
      <4>1. call'[r] = call[r] /\ call[r] \in Calls /\ pc[r] \in StepsOf(call[r].op)
        BY <2>1 DEF GoesOn, TypeInv, CallsKnown
      <4>. QED BY <2>6, <4>1, CallFields DEF AllOps, StepsOf
    <3>. QED BY <2>3, <2>4, <2>6, <3>1, <3>2, <3>3 DEF AnswersLast
  <2>. QED BY <2>1, <2>5, <2>6 DEF GoesOn
<1>4. ASSUME UNCHANGED <<pc, call, read, result, events>> PROVE AnswersLast'
  BY <1>4 DEF AnswersLast, Event
<1>5. ASSUME NEW p \in Projects, Expire(p) PROVE AnswersLast'
  BY <1>4, <1>5 DEF Expire
<1>6. ASSUME UNCHANGED vars PROVE AnswersLast'
  BY <1>4, <1>6 DEF vars
<1>. QED BY <1>1, <1>2, <1>3, <1>5, <1>6 DEF Next, Finished

LEMMA OwnersServedNext ==
  ASSUME TypeInv, FreshIds, AnswersLast, OwnersServed, [Next]_vars
  PROVE  OwnersServed'
<1>0. \A r \in Requests : pc[r] # "idle" => call[r].project \in Projects
  BY CallFields DEF TypeInv, CallsKnown
<1>1. ASSUME NEW r \in Requests, Begin(r) PROVE OwnersServed'
  <2>1. /\ UNCHANGED <<rows, read, result>> /\ pc[r] = "idle"
        /\ \A q \in Requests : q # r => pc'[q] = pc[q] /\ call'[q] = call[q]
        /\ pc'[r] \notin OwnedSteps \cup {"fill"}
    BY <1>1, BeginEffect DEF OwnedSteps
  <2>2. result[r] # "Ok"
    BY <2>1, NoneAssumption DEF AnswersLast, Answers
  <2>. QED BY <2>1, <2>2 DEF OwnersServed
<1>2. ASSUME NEW r \in Requests, Writing(r) PROVE OwnersServed'
  <2>1. /\ UNCHANGED <<call, read>> /\ pc[r] # "idle"
        /\ \A p \in Projects : p # call[r].project => rows'[p] = rows[p]
        /\ rows'[call[r].project] # None
        /\ rows[call[r].project] # None => rows'[call[r].project].owner = rows[call[r].project].owner
        /\ \A q \in Requests : q # r => pc'[q] = pc[q]
    BY <1>2, WritingFields
  <2>2. /\ pc'[r] # "fill" /\ (result'[r] = "Ok" => result[r] = "Ok")
        /\ \A q \in Requests : q # r => result'[q] = result[q]
    BY <1>2, WritingGoesOn DEF TypeInv, TypeOK
  <2>3. \A p \in Projects : rows[p] # None => rows'[p] # None /\ rows'[p].owner = rows[p].owner
    BY <2>1
  <2>4. call[r].op \in OwnedOps => pc[r] \in OwnedSteps
    <3>1. pc[r] \in {"insert", "lockedUpdate", "markDeleted", "writeFiles"}
      BY <1>2, WritingGoesOn
    <3>2. call[r] \in Calls /\ call[r].op \in AllOps /\ pc[r] \in StepsOf(call[r].op)
      BY <2>1, CallFields DEF TypeInv, CallsKnown
    <3>. QED BY <3>1, <3>2 DEF StepsOf, AllOps, OwnedOps, OwnedSteps
  <2>. SUFFICES ASSUME NEW q \in Requests, pc'[q] # "idle", call[q].op \in OwnedOps
       PROVE  /\ pc'[q] \in OwnedSteps \/ result'[q] = "Ok" =>
                   /\ rows'[call[q].project] # None
                   /\ rows'[call[q].project].owner = call[q].caller
              /\ pc'[q] = "fill" => /\ rows'[call[q].project] # None
                                    /\ rows'[call[q].project].owner = read[q].owner
    BY <2>1 DEF OwnersServed
  <2>5. CASE q = r
    <3>1. rows[call[q].project] # None /\ rows[call[q].project].owner = call[q].caller
      BY <2>1, <2>4, <2>5 DEF OwnersServed
    <3>. QED BY <1>0, <2>1, <2>2, <2>3, <2>5, <3>1
  <2>6. CASE q # r
    BY <1>0, <2>1, <2>2, <2>3, <2>6 DEF OwnersServed
  <2>. QED BY <2>5, <2>6
<1>3. ASSUME NEW r \in Requests, Step(r), ~Writing(r) PROVE OwnersServed'
  <2>1. GoesOn(r)
    BY <1>3, ReadingGoesOn
  <2>. SUFFICES ASSUME NEW q \in Requests, pc'[q] # "idle", call[q].op \in OwnedOps
       PROVE  /\ pc'[q] \in OwnedSteps \/ result'[q] = "Ok" =>
                   /\ rows[call[q].project] # None
                   /\ rows[call[q].project].owner = call[q].caller
              /\ pc'[q] = "fill" => /\ rows[call[q].project] # None
                                    /\ rows[call[q].project].owner = read'[q].owner
    BY <2>1 DEF OwnersServed, GoesOn
  <2>2. CASE q # r
    BY <2>1, <2>2 DEF OwnersServed, GoesOn
  <2>3. CASE q = r
    <3>1. pc[r] # "idle"
      BY <2>1 DEF GoesOn
    <3>2. pc'[r] \in OwnedSteps => /\ rows[call[r].project] # None
                                   /\ rows[call[r].project].owner = call[r].caller
      BY <2>1, <2>3, <3>1 DEF GoesOn, OwnedSteps, OwnersServed
    <3>3. result'[r] = "Ok" => /\ rows[call[r].project] # None
                               /\ rows[call[r].project].owner = call[r].caller
      BY <2>1, <2>3, <3>1 DEF GoesOn, OwnedSteps, OwnersServed
    <3>. QED BY <2>1, <2>3, <3>2, <3>3 DEF GoesOn
  <2>. QED BY <2>2, <2>3
<1>4. ASSUME UNCHANGED <<rows, pc, call, read, result>> PROVE OwnersServed'
  BY <1>4 DEF OwnersServed
<1>5. ASSUME NEW p \in Projects, Expire(p) PROVE OwnersServed'
  BY <1>4, <1>5 DEF Expire
<1>6. ASSUME UNCHANGED vars PROVE OwnersServed'
  BY <1>4, <1>6 DEF vars
<1>. QED BY <1>1, <1>2, <1>3, <1>5, <1>6 DEF Next, Finished

LEMMA FilesListedNext ==
  ASSUME TypeInv, FreshIds, AnswersLast, FilesListed, [Next]_vars
  PROVE  FilesListed'
<1>0. \A r \in Requests : pc[r] # "idle" => call[r].project \in Projects
  BY CallFields DEF TypeInv, CallsKnown
<1>1. ASSUME NEW r \in Requests, Begin(r) PROVE FilesListed'
  <2>1. /\ UNCHANGED <<rows, result>> /\ pc[r] = "idle"
        /\ \A q \in Requests : q # r => pc'[q] = pc[q] /\ call'[q] = call[q]
        /\ pc'[r] \notin {"invalidate", "publish"}
    BY <1>1, BeginEffect
  <2>2. result[r] # "Ok"
    BY <2>1, NoneAssumption DEF AnswersLast, Answers
  <2>. SUFFICES ASSUME NEW q \in Requests, pc'[q] # "idle", Acknowledged(q)',
                       call'[q].op = "updateGeneratedFiles"
       PROVE  /\ rows[call'[q].project] # None
              /\ \/ \E s \in Requests \ {q} :
                       pc'[s] # "idle" /\ call'[s].op = "updateGeneratedFiles"
                 \/ call'[q].files \subseteq rows[call'[q].project].files
    BY <2>1 DEF FilesListed
  <2>3. q # r /\ pc[q] # "idle" /\ Acknowledged(q) /\ call'[q] = call[q]
    BY <2>1, <2>2 DEF Acknowledged
  <2>. QED BY <2>1, <2>3 DEF FilesListed
<1>2. ASSUME NEW r \in Requests, Writing(r) PROVE FilesListed'
  <2>1. /\ UNCHANGED call /\ pc[r] # "idle" /\ pc'[r] # "idle"
        /\ \A p \in Projects : p # call[r].project => rows'[p] = rows[p]
        /\ rows'[call[r].project] # None
        /\ rows[call[r].project] # None /\ pc[r] # "writeFiles" =>
              rows'[call[r].project].files = rows[call[r].project].files
        /\ pc[r] = "writeFiles" => call[r].files \subseteq rows'[call[r].project].files
        /\ \A q \in Requests : q # r => pc'[q] = pc[q]
    BY <1>2, WritingFields
  <2>2. \A q \in Requests : q # r => result'[q] = result[q]
    BY <1>2, WritingGoesOn DEF TypeInv, TypeOK
  <2>3. call[r].op = "updateGeneratedFiles" <=> pc[r] = "writeFiles"
    <3>1. pc[r] \in {"insert", "lockedUpdate", "markDeleted", "writeFiles"}
      BY <1>2, WritingGoesOn
    <3>2. call[r] \in Calls /\ call[r].op \in AllOps /\ pc[r] \in StepsOf(call[r].op)
      BY <2>1, CallFields DEF TypeInv, CallsKnown
    <3>. QED BY <3>1, <3>2 DEF StepsOf, AllOps
  <2>. SUFFICES ASSUME NEW q \in Requests, pc'[q] # "idle", Acknowledged(q)',
                       call[q].op = "updateGeneratedFiles"
       PROVE  /\ rows'[call[q].project] # None
              /\ \/ \E s \in Requests \ {q} :
                       pc'[s] # "idle" /\ call[s].op = "updateGeneratedFiles"
                 \/ call[q].files \subseteq rows'[call[q].project].files
    BY <2>1 DEF FilesListed
  <2>4. CASE q = r
    BY <2>1, <2>3, <2>4
  <2>5. CASE q # r /\ pc[r] = "writeFiles"
    <3>1. Acknowledged(q) /\ pc[q] # "idle"
      BY <2>1, <2>2, <2>5 DEF Acknowledged
    <3>2. rows[call[q].project] # None
      BY <3>1 DEF FilesListed
    <3>. QED BY <1>0, <2>1, <2>3, <2>5, <3>1, <3>2
  <2>6. CASE q # r /\ pc[r] # "writeFiles"
    <3>1. Acknowledged(q) /\ pc[q] # "idle"
      BY <2>1, <2>2, <2>6 DEF Acknowledged
    <3>2. /\ rows[call[q].project] # None
          /\ \/ \E s \in Requests \ {q} :
                   pc[s] # "idle" /\ call[s].op = "updateGeneratedFiles"
             \/ call[q].files \subseteq rows[call[q].project].files
      BY <3>1 DEF FilesListed
    <3>3. /\ rows'[call[q].project] # None
          /\ rows'[call[q].project].files = rows[call[q].project].files
      BY <1>0, <2>1, <2>6, <3>1, <3>2
    <3>. QED BY <2>1, <3>2, <3>3
  <2>. QED BY <2>4, <2>5, <2>6
<1>3. ASSUME NEW r \in Requests, Step(r), ~Writing(r) PROVE FilesListed'
  <2>1. GoesOn(r)
    BY <1>3, ReadingGoesOn
  <2>2. call[r].op = "updateGeneratedFiles" => pc[r] # "fill"
    <3>1. call[r] \in Calls /\ call[r].op \in AllOps /\ pc[r] \in StepsOf(call[r].op)
      BY <2>1, CallFields DEF GoesOn, TypeInv, CallsKnown
    <3>. QED BY <3>1 DEF StepsOf, AllOps
  <2>. SUFFICES ASSUME NEW q \in Requests, pc'[q] # "idle", Acknowledged(q)',
                       call[q].op = "updateGeneratedFiles"
       PROVE  /\ rows[call[q].project] # None
              /\ \/ \E s \in Requests \ {q} :
                       pc'[s] # "idle" /\ call[s].op = "updateGeneratedFiles"
                 \/ call[q].files \subseteq rows[call[q].project].files
    BY <2>1 DEF GoesOn, FilesListed
  <2>3. Acknowledged(q) /\ pc[q] # "idle"
    BY <2>1, <2>2 DEF GoesOn, Acknowledged
  <2>. QED BY <2>1, <2>3 DEF GoesOn, FilesListed
<1>4. ASSUME UNCHANGED <<rows, pc, call, result>> PROVE FilesListed'
  BY <1>4 DEF FilesListed, Acknowledged
<1>5. ASSUME NEW p \in Projects, Expire(p) PROVE FilesListed'
  BY <1>4, <1>5 DEF Expire
<1>6. ASSUME UNCHANGED vars PROVE FilesListed'
  BY <1>4, <1>6 DEF vars
<1>. QED BY <1>1, <1>2, <1>3, <1>5, <1>6 DEF Next, Finished

LEMMA AnswersInvariant == Spec => []AnswersInv
<1>1. AnswersInv /\ [Next]_vars => AnswersInv'
  BY TypeInvNext, FreshIdsNext, AnswersLastNext, OwnersServedNext, FilesListedNext
     DEF AnswersInv
<1>. QED BY <1>1, AnswersInit, PTL DEF Spec

\* No user is served, or may change, a project of somebody else: whatever fails,
\* and also when timestamps collide.
THEOREM OwnerServed == Spec => []OnlyOwnerServed
<1>1. AnswersInv => OnlyOwnerServed
  BY DEF AnswersInv, OwnersServed, OwnedOps, OwnedSteps, OnlyOwnerServed
<1>. QED BY <1>1, AnswersInvariant, PTL

\* Files whose update was acknowledged stay in the list until another request
\* writes it: no update, archive or delete loses them, whatever fails, and also
\* when timestamps collide.
THEOREM FilesStay == Spec => []FilesKept
<1>1. AnswersInv => FilesKept
  BY DEF AnswersInv, FilesListed, Acknowledged, FilesKept
<1>. QED BY <1>1, AnswersInvariant, PTL

-----------------------------------------------------------------------------
\* The status: under the optimistic lock.

\* A write leaves no status behind that an acknowledgement excludes, and only an
\* archive of an ACTIVE project is followed by one.
LEMMA StatusKeptWriting ==
  ASSUME LockInv, AnswersLast, StatusKept, OneArchive, NEW r \in Requests, Writing(r)
  PROVE  StatusKept' /\ OneArchive'
<1>. DEFINE p == call[r].project
<1>0. TypeInv /\ FreshIds /\ \A q \in Requests : pc[q] # "idle" => call[q].project \in Projects
  BY CallFields DEF LockInv, TypeInv, CallsKnown
<1>1. /\ UNCHANGED call /\ pc[r] # "idle" /\ pc'[r] # "idle"
      /\ \A q \in Projects : q # p => rows'[q] = rows[q]
      /\ rows'[p] # None
      /\ rows[p] # None => rows'[p].status = NewStatus(r, rows[p].status)
      /\ \A q \in Requests : q # r => pc'[q] = pc[q]
  BY <1>0, WritingFields
<1>2. /\ \A q \in Requests : q # r => result'[q] = result[q]
      /\ pc[r] \in {"insert", "lockedUpdate", "markDeleted", "writeFiles"}
  BY <1>0, WritingGoesOn DEF TypeInv, TypeOK
<1>3. ASSUME NEW q \in Requests, q # r, pc'[q] # "idle", Acknowledged(q)'
      PROVE  pc[q] # "idle" /\ Acknowledged(q)
  BY <1>1, <1>2, <1>3 DEF Acknowledged
<1>4. call[r] \in Calls /\ call[r].op \in AllOps /\ pc[r] \in StepsOf(call[r].op)
  BY <1>0, <1>1, CallFields DEF TypeInv, CallsKnown
<1>5. /\ call[r].op = "archive" <=> pc[r] = "lockedUpdate" /\ call[r].op = "archive"
      /\ call[r].op = "delete" <=> pc[r] = "markDeleted"
      /\ call[r].op \in {"archive", "delete"} => pc[r] \in RowSteps
  BY <1>2, <1>4 DEF StepsOf, AllOps, RowSteps
<1>6. pc[r] \in RowSteps => rows[p] # None
  BY <1>0 DEF TypeInv, RowsKnown
<1>7. rows[p] # None => \/ rows'[p].status = rows[p].status
                        \/ rows'[p].status = "DELETED"
                        \/ rows[p].status = "ACTIVE" /\ rows'[p].status = "ARCHIVED"
  BY WritingEffect
<1>8. call[r].op = "archive" => rows[p].status = "ACTIVE"
  BY <1>5, WritingEffect DEF LockInv, ArchiveValidated
<1>9. StatusKept'
  <2>. SUFFICES ASSUME NEW q \in Requests, pc'[q] # "idle", Acknowledged(q)'
       PROVE  /\ call[q].op = "archive" => /\ rows'[call[q].project] # None
                                           /\ rows'[call[q].project].status # "ACTIVE"
              /\ call[q].op = "delete" => /\ rows'[call[q].project] # None
                                          /\ rows'[call[q].project].status = "DELETED"
    BY <1>1 DEF StatusKept
  <2>1. CASE q = r
    BY <1>1, <1>5, <1>6, <2>1 DEF NewStatus
  <2>2. CASE q # r
    <3>1. pc[q] # "idle" /\ Acknowledged(q) /\ call[q].project \in Projects
      BY <1>0, <1>3, <2>2
    <3>. QED BY <1>1, <1>7, <3>1 DEF StatusKept
  <2>. QED BY <2>1, <2>2
<1>10. OneArchive'
  <2>. SUFFICES ASSUME NEW s \in Requests, NEW q \in Requests, s # q,
                       pc'[s] # "idle", Acknowledged(s)', call[s].op = "archive",
                       pc'[q] # "idle", Acknowledged(q)', call[q].op = "archive",
                       call[s].project = call[q].project
       PROVE  FALSE
    BY <1>1 DEF OneArchive, Acknowledged
  <2>1. CASE s # r /\ q # r
    BY <1>3, <2>1 DEF OneArchive
  <2>2. CASE s = r
    BY <1>3, <1>8, <2>2 DEF StatusKept
  <2>3. CASE q = r
    BY <1>3, <1>8, <2>3 DEF StatusKept
  <2>. QED BY <2>1, <2>2, <2>3
<1>. QED BY <1>9, <1>10

LEMMA StatusKeptNext ==
  ASSUME LockInv, AnswersLast, StatusKept, OneArchive, [Next]_vars
  PROVE  StatusKept' /\ OneArchive'
<1>0. TypeInv
  BY DEF LockInv
\* Whatever leaves the table and the acknowledgements alone keeps both.
<1>1. ASSUME UNCHANGED rows,
             \A q \in Requests :
               pc'[q] # "idle" /\ Acknowledged(q)' /\ call'[q].op \in {"archive", "delete"} =>
                 pc[q] # "idle" /\ Acknowledged(q) /\ call'[q] = call[q]
      PROVE  StatusKept' /\ OneArchive'
  <2>1. StatusKept'
    BY <1>1 DEF StatusKept, Acknowledged
  <2>2. OneArchive'
    BY <1>1 DEF OneArchive, Acknowledged
  <2>. QED BY <2>1, <2>2
<1>2. ASSUME NEW r \in Requests, Begin(r) PROVE StatusKept' /\ OneArchive'
  <2>1. /\ UNCHANGED <<rows, result>> /\ pc[r] = "idle"
        /\ \A q \in Requests : q # r => pc'[q] = pc[q] /\ call'[q] = call[q]
        /\ pc'[r] \notin {"invalidate", "publish"}
    BY <1>0, <1>2, BeginEffect
  <2>2. result[r] # "Ok"
    BY <2>1, NoneAssumption DEF AnswersLast, Answers
  <2>3. ASSUME NEW q \in Requests, Acknowledged(q)'
        PROVE  q # r /\ pc'[q] = pc[q] /\ Acknowledged(q) /\ call'[q] = call[q]
    BY <2>1, <2>2, <2>3 DEF Acknowledged
  <2>. QED BY <1>1, <2>1, <2>3
<1>3. ASSUME NEW r \in Requests, Step(r), ~Writing(r) PROVE StatusKept' /\ OneArchive'
  <2>1. GoesOn(r)
    BY <1>0, <1>3, ReadingGoesOn
  <2>2. call[r].op \in {"archive", "delete"} => pc[r] # "fill"
    <3>1. call[r] \in Calls /\ call[r].op \in AllOps /\ pc[r] \in StepsOf(call[r].op)
      BY <1>0, <2>1, CallFields DEF GoesOn, TypeInv, CallsKnown
    <3>. QED BY <3>1 DEF StepsOf, AllOps
  <2>3. ASSUME NEW q \in Requests, pc'[q] # "idle", Acknowledged(q)',
               call'[q].op \in {"archive", "delete"}
        PROVE  pc[q] # "idle" /\ Acknowledged(q) /\ call'[q] = call[q]
    BY <2>1, <2>2, <2>3 DEF GoesOn, Acknowledged
  <2>. QED BY <1>1, <2>1, <2>3 DEF GoesOn
<1>4. ASSUME NEW r \in Requests, Writing(r) PROVE StatusKept' /\ OneArchive'
  BY <1>4, StatusKeptWriting
<1>5. ASSUME UNCHANGED <<rows, pc, call, result>> PROVE StatusKept' /\ OneArchive'
  BY <1>1, <1>5 DEF Acknowledged
<1>6. ASSUME NEW p \in Projects, Expire(p) PROVE StatusKept' /\ OneArchive'
  BY <1>5, <1>6 DEF Expire
<1>7. ASSUME UNCHANGED vars PROVE StatusKept' /\ OneArchive'
  BY <1>5, <1>7 DEF vars
<1>. QED BY <1>2, <1>3, <1>4, <1>6, <1>7 DEF Next, Finished

LEMMA StatusInvariant ==
  ASSUME UniqueStamps
  PROVE  Spec => []StatusInv
<1>1. Init => StatusInv
  <2>1. Init => AnswersLast
    BY AnswersInit DEF AnswersInv
  <2>2. Init => StatusKept /\ OneArchive
    <3>1. Init => \A r \in Requests : pc[r] = "idle"
      BY DEF Init
    <3>. QED BY <3>1 DEF StatusKept, OneArchive
  <2>. QED BY <2>1, <2>2, LockInvInit DEF StatusInv
<1>2. StatusInv /\ [Next]_vars => StatusInv'
  BY LockInvNext, AnswersLastNext, StatusKeptNext DEF StatusInv, LockInv
<1>. QED BY <1>1, <1>2, PTL DEF Spec

\* What a caller was answered, and the orchestrator was told, about the status of
\* a project stays true for ever: for any requests that race, whatever fails, as
\* long as no two writes carry the same millisecond.
THEOREM ReportsStayTrue ==
  ASSUME UniqueStamps
  PROVE  Spec => []StatusReported
<1>1. ASSUME StatusInv, NEW r \in Requests, NEW e \in events, e.request = r
      PROVE  result[r] = "Ok"
  BY <1>1 DEF StatusInv, AnswersLast
<1>2. StatusInv => StatusReported
  BY <1>1 DEF StatusInv, StatusKept, Acknowledged, StatusReported
<1>. QED BY <1>2, StatusInvariant, PTL

\* Of the archive requests that race on a project only one is published.
THEOREM OneArchivePublished ==
  ASSUME UniqueStamps
  PROVE  Spec => []ArchivedOnce
<1>1. ASSUME StatusInv, NEW e \in events, NEW f \in events,
             e.type = "project.archived", f.type = "project.archived", e.project = f.project
      PROVE  e = f
  <2>1. /\ e.request \in Requests /\ Acknowledged(e.request) /\ e = Event(e.request)
        /\ f.request \in Requests /\ Acknowledged(f.request) /\ f = Event(f.request)
        /\ pc[e.request] = "done" /\ pc[f.request] = "done"
    BY <1>1 DEF StatusInv, AnswersLast, Acknowledged
  <2>2. /\ EventType(call[e.request].op) = "project.archived"
        /\ EventType(call[f.request].op) = "project.archived"
        /\ call[e.request].project = e.project /\ call[f.request].project = f.project
    BY <1>1, <2>1 DEF Event
  <2>3. /\ call[e.request].op \in AllOps \ {"findOne"}
        /\ call[f.request].op \in AllOps \ {"findOne"}
    BY <1>1 DEF StatusInv, AnswersLast
  <2>4. call[e.request].op = "archive" /\ call[f.request].op = "archive"
    <3>1. \A op \in AllOps \ {"findOne"} : EventType(op) = "project.archived" => op = "archive"
      BY DEF EventType, AllOps
    <3>. QED BY <2>2, <2>3, <3>1
  <2>5. e.request = f.request
    BY <1>1, <2>1, <2>2, <2>4 DEF StatusInv, OneArchive
  <2>. QED BY <2>1, <2>5
<1>2. StatusInv => ArchivedOnce
  BY <1>1 DEF ArchivedOnce
<1>. QED BY <1>2, StatusInvariant, PTL

-----------------------------------------------------------------------------
\* Why requests are answered.

\* How many queries a request has left at most.
QueriesLeft(r) ==
  CASE pc[r] \in {"validateCreateData", "cacheGet", "checkUpdate", "checkArchive", "checkDelete",
                   "checkFiles"} -> 5
    [] pc[r] \in {"repositoryRead", "readFiles", "load"} -> 4
    [] pc[r] \in {"insert", "lockedUpdate", "markDeleted", "writeFiles"} -> 3
    [] pc[r] = "invalidate" -> 2
    [] pc[r] \in {"fill", "publish"} -> 1
    [] OTHER -> 0

\* A query that resolves or rejects leaves its request with fewer of them, or
\* with its answer; nothing another request does gives it more.
QueriesUsedUp ==
  [][\A r \in Requests :
       /\ Step(r) => QueriesLeft(r)' < QueriesLeft(r)
       /\ QueriesLeft(r)' > QueriesLeft(r) => pc[r] = "idle"]_vars

LEMMA OneQueryLess ==
  ASSUME TypeOK, NEW r \in Requests, Step(r)
  PROVE  QueriesLeft(r)' < QueriesLeft(r)
<1>. DEFINE To(S) == pc'[r] \in S \cup {"done", "lost"}
<1>1. pc \in [Requests -> Steps]
  BY DEF TypeOK
<1>2. \/ pc[r] = "validateCreateData" /\ To({"insert"})
      \/ pc[r] = "cacheGet" /\ To({"load"})
      \/ pc[r] \in {"checkUpdate", "checkArchive"} /\ To({"repositoryRead"})
      \/ pc[r] = "checkDelete" /\ To({"markDeleted"})
      \/ pc[r] = "checkFiles" /\ To({"readFiles", "writeFiles"})
      \/ pc[r] \in DatabaseSteps /\ To({})
      \/ pc[r] = "repositoryRead" /\ To({"lockedUpdate"})
      \/ pc[r] = "readFiles" /\ To({"writeFiles"})
      \/ pc[r] = "load" /\ To({"fill"})
      \/ pc[r] = "insert" /\ To({"publish"})
      \/ pc[r] \in {"lockedUpdate", "markDeleted", "writeFiles"} /\ To({"invalidate"})
      \/ pc[r] = "invalidate" /\ To({"publish"})
      \/ pc[r] \notin {"idle", "done", "lost"} /\ To({})
  <2>1. CASE Crash(r)
    BY <1>1, <2>1 DEF Crash, Goto
  <2>2. CASE DatabaseFails(r)
    BY <1>1, <2>2 DEF DatabaseFails, Answer
  <2>3. CASE ValidateCreateData(r) \/ Insert(r)
    BY <1>1, <2>3 DEF ValidateCreateData, Insert, Committed, Goto, Answer
  <2>4. CASE CacheGet(r) \/ Load(r) \/ Fill(r)
    BY <1>1, <2>4 DEF CacheGet, Load, Fill, Goto, Answer
  <2>5. CASE CheckUpdate(r) \/ CheckArchive(r)
    BY <1>1, <2>5 DEF CheckUpdate, CheckArchive, Goto, Answer
  <2>6. CASE CheckDelete(r) \/ CheckFiles(r)
    BY <1>1, <2>6 DEF CheckDelete, CheckFiles, Goto, Answer
  <2>7. CASE RepositoryRead(r) \/ ReadFiles(r)
    BY <1>1, <2>7 DEF RepositoryRead, ReadFiles, Goto, Answer
  <2>8. CASE LockedUpdate(r) \/ LockedUpdateFails(r)
    BY <1>1, <2>8 DEF LockedUpdate, LockedUpdateFails, Committed, Goto, Answer
  <2>9. CASE MarkDeleted(r) \/ WriteFiles(r)
    BY <1>1, <2>9 DEF MarkDeleted, WriteFiles, Committed, Goto, Answer
  <2>10. CASE Invalidate(r) \/ Publish(r)
    BY <1>1, <2>10 DEF Invalidate, Publish, Goto, Answer
  <2>. QED BY <2>1, <2>2, <2>3, <2>4, <2>5, <2>6, <2>7, <2>8, <2>9, <2>10 DEF Step, Proceed
<1>. QED BY <1>1, <1>2 DEF QueriesLeft, DatabaseSteps, Steps

\* For any number of requests, whatever fails and whatever they race for: a
\* request awaits at most five queries, none of them twice.  With queries that
\* resolve or reject (the fairness) this is why every request is answered.
THEOREM RequestsEnd == Spec => QueriesUsedUp
<1>1. TypeOK /\ [Next]_vars =>
        [\A r \in Requests :
           /\ Step(r) => QueriesLeft(r)' < QueriesLeft(r)
           /\ QueriesLeft(r)' > QueriesLeft(r) => pc[r] = "idle"]_vars
  <2>. SUFFICES ASSUME TypeOK, Next, NEW r \in Requests
                PROVE  /\ Step(r) => QueriesLeft(r)' < QueriesLeft(r)
                       /\ QueriesLeft(r)' > QueriesLeft(r) => pc[r] = "idle"
    OBVIOUS
  <2>1. pc \in [Requests -> Steps]
    BY DEF TypeOK
  <2>2. QueriesLeft(r) \in 0 .. 5 /\ QueriesLeft(r)' \in 0 .. 5
    BY DEF QueriesLeft
  <2>3. CASE Step(r)
    BY <2>2, <2>3, OneQueryLess
  <2>4. CASE ~Step(r)
    <3>1. ASSUME NEW q \in Requests, q # r, Begin(q) \/ Step(q) PROVE pc'[r] = pc[r]
      <4>1. CASE Begin(q)
        BY <2>1, <3>1, <4>1 DEF Begin, Goto
      <4>2. CASE Crash(q) \/ DatabaseFails(q)
        BY <2>1, <3>1, <4>2 DEF Crash, DatabaseFails, Goto, Answer
      <4>3. CASE ValidateCreateData(q) \/ Insert(q) \/ CacheGet(q) \/ Load(q) \/ Fill(q)
        BY <2>1, <3>1, <4>3
           DEF ValidateCreateData, Insert, CacheGet, Load, Fill, Committed, Goto, Answer
      <4>4. CASE CheckUpdate(q) \/ CheckArchive(q) \/ CheckDelete(q) \/ CheckFiles(q)
        BY <2>1, <3>1, <4>4 DEF CheckUpdate, CheckArchive, CheckDelete, CheckFiles, Goto, Answer
      <4>5. CASE RepositoryRead(q) \/ ReadFiles(q) \/ LockedUpdate(q) \/ LockedUpdateFails(q)
        BY <2>1, <3>1, <4>5
           DEF RepositoryRead, ReadFiles, LockedUpdate, LockedUpdateFails, Committed, Goto, Answer
      <4>6. CASE MarkDeleted(q) \/ WriteFiles(q) \/ Invalidate(q) \/ Publish(q)
        BY <2>1, <3>1, <4>6
           DEF MarkDeleted, WriteFiles, Invalidate, Publish, Committed, Goto, Answer
      <4>. QED BY <3>1, <4>1, <4>2, <4>3, <4>4, <4>5, <4>6 DEF Step, Proceed
    <3>2. ASSUME (\E p \in Projects : Expire(p)) \/ Finished PROVE pc'[r] = pc[r]
      BY <3>2 DEF Expire, Finished, vars
    <3>3. ASSUME Begin(r) PROVE pc[r] = "idle"
      BY <3>3 DEF Begin
    <3>4. pc'[r] = pc[r] \/ pc[r] = "idle"
      BY <2>4, <3>1, <3>2, <3>3 DEF Next
    <3>5. pc'[r] = pc[r] => QueriesLeft(r)' = QueriesLeft(r)
      BY DEF QueriesLeft
    <3>. QED BY <2>2, <2>4, <3>4, <3>5
  <2>. QED BY <2>3, <2>4
<1>. QED BY <1>1, TypeCorrect, PTL DEF QueriesUsedUp, Spec
=============================================================================
