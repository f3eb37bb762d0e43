--------------------------- MODULE ExportPipeline ---------------------------
(***************************************************************************)
(* What an export does before and after it has a slot: the cache of        *)
(* finished exports, the retrieval of its files in batches with retries,   *)
(* the conversion to Markdown and to PDF in a temporary directory, the     *)
(* progress that polls of its status see.                                  *)
(*                                                                         *)
(* An export that finds no slot is executed up to twice: by its request,   *)
(* once its poll finds a slot, and in the background, once a release hands *)
(* a slot to its queue entry.  Both report under the one status key, and   *)
(* both give back the one slot their id stands for.  Who gets a slot when  *)
(* is module ExportService.                                                *)
(*                                                                         *)
(* A file is a number; what storage and converters make of it is given by  *)
(* its nature and size.  A document is whom it is made for, its form and   *)
(* the sequence of its files.                                              *)
(***************************************************************************)
EXTENDS Integers, FiniteSets, SequencesExt

CONSTANTS
  Exports,          \* calls of exportProject
  Queueing,         \* the calls that may find no slot: <<export, user, options>>
  Polled,           \* the exports whose owner asks for their status
  Users,
  Asked,            \* the option records of the calls, see NoOptions
  ProjectFiles,     \* what getProjectFileIds answers
  V4,               \* the ids that are UUIDs of version 4
  Nature,           \* per file: "ok", "empty", "missing", "flaky" or "garbled"
  Size,             \* per file: megabytes
  maxRetries,       \* FILE_RETRIEVAL_MAX_RETRIES
  BATCH_SIZE,
  ToolFaults,       \* BOOLEAN: the file system and pandoc may fail
  None

ASSUME PipelineAssumption ==
  /\ maxRetries \in Nat /\ BATCH_SIZE \in Nat \ {0} /\ ToolFaults \in BOOLEAN
  /\ ProjectFiles \in Seq(Int) /\ None # "completed"
  /\ \A o \in Asked : /\ DOMAIN o = {"format", "fileIds", "metadata", "pdfOptions"}
                      /\ o.format \in {"markdown", "pdf"} /\ o.metadata \in BOOLEAN

\* The executions of export x.
Request(x) == <<x, "request">>
Background(x) == <<x, "background">>
Executions == Exports \X {"request", "background"}

MAX_COUNT == 50         \* files that may be asked for
MAX_MARKDOWN == 50      \* MB of files in a document
MAX_PDF == 25           \* MB of Markdown that is converted to PDF

VARIABLES
  run,              \* per execution: how far it is
  resultCache,      \* set of [key, doc]: export:<project>:<user>:<hash>
  activeExports,    \* exports with a slot
  status,           \* per export: export_status:<id>:<user>
  poll              \* per export: getExportStatus of its owner

vars == <<run, resultCache, activeExports, status, poll>>

NoOptions == [format |-> "markdown", fileIds |-> None, metadata |-> TRUE, pdfOptions |-> None]

\* at: what it awaits.  ids: the files asked for; upto: the last position of the
\* current batch; flight: the attempt of each position under way; got: positions
\* in the order they arrived; failed: the others.  temp: the directory's files.
NoRun == [at |-> "idle", user |-> None, opts |-> NoOptions, ids |-> <<>>, upto |-> 0,
          flight |-> <<>>, got |-> <<>>, failed |-> {}, temp |-> None, left |-> FALSE,
          code |-> 0, doc |-> None]

\* The slot of an execution is under the id of its export.
Released(e) == activeExports \ {e[1]}

\* An answer that is an error, in the background one nobody reads; the slot is
\* given back.  cleanupFailedExport looks for the export among those with a slot, so
\* that it finds none and its status stays.
Refuse(e, code) ==
  /\ run' = [run EXCEPT ![e].at = "answered", ![e].code = code]
  /\ activeExports' = Released(e)

Init ==
  /\ run = [e \in Executions |-> NoRun] /\ resultCache = {} /\ activeExports = {}
  /\ status = [e \in Exports |-> None] /\ poll = [e \in Exports |-> "none"]

-----------------------------------------------------------------------------
\* exportProject, up to the slot.

\* Sorting sorts the options' own array.
Sort(ids) == SortSeq(ids, LAMBDA a, b : a < b)
KeyIds(o) == IF o.fileIds = None THEN None ELSE Sort(o.fileIds)

\* Sorting permutes an array, and one that is sorted not at all.
ASSUME SortAssumption ==
  \A o \in Asked : o.fileIds # None =>
    LET sorted == Sort(o.fileIds) IN
    /\ sorted \in Seq(Int) /\ sorted # None
    /\ ToSet(sorted) = ToSet(o.fileIds) /\ Sort(sorted) = sorted

\* Mutant: the key does not say whose export it is.
ExportKeyOfAll(user, o) ==
  [user |-> "", format |-> o.format, pdfOptions |-> o.pdfOptions, metadata |-> o.metadata,
   fileIds |-> KeyIds(o)]

\* generateExportCacheKey, of a single project.  The code keeps 8 hexadecimal
\* digits of the MD5 of the options; they are taken to tell options apart.
ExportKey(user, o) ==
  [user |-> user, format |-> o.format, pdfOptions |-> o.pdfOptions, metadata |-> o.metadata,
   fileIds |-> KeyIds(o)]

IdsOf(o) == IF o.fileIds = None THEN ProjectFiles ELSE o.fileIds

\* validateOptions: options a PDF cannot have, too many files, ids that are not
\* of version 4.
InvalidOptions(o) ==
  \/ o.format = "pdf" /\ o.pdfOptions = "invalid"
  \/ o.fileIds # None /\ (Len(o.fileIds) > MAX_COUNT
                          \/ \E i \in DOMAIN o.fileIds : o.fileIds[i] \notin V4)

\* validateProjectAccess grants everybody access.
ExportProject(e) ==
  /\ e[2] = "request" /\ run[e].at = "idle"
  /\ \E u \in Users, o \in Asked :
       run' = [run EXCEPT ![e] =
         IF InvalidOptions(o)
         THEN [NoRun EXCEPT !.at = "answered", !.code = 400, !.user = u, !.opts = o]
         ELSE [NoRun EXCEPT !.at = "cached", !.user = u, !.opts = o]]
  /\ UNCHANGED <<resultCache, activeExports, status, poll>>

\* A hit is answered with the document of the export that was cached.  Else the
\* export takes a slot, or waits for one and is queued.
GetCachedExport(e) ==
  LET r == run[e]
      key == ExportKey(r.user, r.opts)
      hits == {entry \in resultCache : entry.key = key}
      waiting == [r EXCEPT !.at = "queued", !.opts.fileIds = key.fileIds]
  IN /\ e[2] = "request" /\ r.at = "cached"
     /\ \/ \E hit \in hits :
             /\ run' = [run EXCEPT ![e].at = "answered", ![e].code = 200, ![e].doc = hit.doc]
             /\ UNCHANGED activeExports
        \/ /\ hits = {}
           /\ run' = [run EXCEPT ![e].at = "start", ![e].opts.fileIds = key.fileIds]
           /\ activeExports' = activeExports \cup {e[1]}
        \/ /\ hits = {} /\ <<e[1], r.user, r.opts>> \in Queueing
           /\ run' = [run EXCEPT ![e] = waiting, ![Background(e[1])] = waiting]
           /\ UNCHANGED activeExports
     /\ UNCHANGED <<resultCache, status, poll>>

\* The poll of the request finds a slot, or a release hands one to the entry.
TakeSlot(e) ==
  /\ run[e].at = "queued" /\ run' = [run EXCEPT ![e].at = "start"]
  /\ activeExports' = activeExports \cup {e[1]}
  /\ UNCHANGED <<resultCache, status, poll>>

-----------------------------------------------------------------------------
\* processExport: the files.

\* Mutant: an export is complete with its files.
ProgressEarly(e, n) ==
  status' = IF e[1] \in activeExports
            THEN [status EXCEPT ![e[1]] = IF n >= 30 THEN "completed" ELSE "processing"] ELSE status

\* updateExportProgress: nothing is reported of an export without a slot, though
\* another execution of it may have given the slot back.
Progress(e, n) ==
  status' = IF e[1] \in activeExports
            THEN [status EXCEPT ![e[1]] = IF n >= 100 THEN "completed" ELSE "processing"] ELSE status

Batch(ids, from) ==
  [i \in {j \in DOMAIN ids : j > from /\ j <= from + BATCH_SIZE} |-> 1]

\* getMultipleFiles refuses ids that are not of version 4, and more than five
\* batches.
StartRetrieval(e) ==
  LET ids == IdsOf(run[e].opts) IN
  /\ run[e].at = "start" /\ Progress(e, 10)
  /\ IF (\E i \in DOMAIN ids : ids[i] \notin V4) \/ Len(ids) > 5 * BATCH_SIZE
     THEN Refuse(e, 400)
     ELSE /\ run' = [run EXCEPT ![e].at = "files", ![e].ids = ids, ![e].upto = BATCH_SIZE,
                                ![e].flight = Batch(ids, 0)]
          /\ UNCHANGED activeExports
  /\ UNCHANGED <<resultCache, poll>>

\* The answers storage may give for a file: its content, or an error whatever
\* its status.  All errors are retried alike.
Arrives(f) == Nature[f] \in {"ok", "empty", "flaky"}
Errors(f) == Nature[f] \in {"missing", "flaky"}

Landed(flight, i) == [j \in DOMAIN flight \ {i} |-> flight[j]]

\* getFileContent of one file of the batch: results are pushed as they arrive.
\* A body that is no content and metadata is an error of its own, not retried.
FileArrives(e, i) ==
  /\ run[e].at = "files" /\ i \in DOMAIN run[e].flight
  /\ LET f == run[e].ids[i] IN
     \/ /\ Arrives(f)
        /\ run' = [run EXCEPT ![e].flight = Landed(@, i), ![e].got = Append(@, i)]
     \/ /\ Nature[f] = "garbled"
        /\ run' = [run EXCEPT ![e].flight = Landed(@, i), ![e].failed = @ \cup {i}]
  /\ UNCHANGED <<resultCache, activeExports, status, poll>>

\* Mutant: retries are not counted.
AttemptFailsUncounted(e, i) ==
  /\ run[e].at = "files" /\ i \in DOMAIN run[e].flight /\ Errors(run[e].ids[i])
  /\ UNCHANGED vars

AttemptFails(e, i) ==
  /\ run[e].at = "files" /\ i \in DOMAIN run[e].flight /\ Errors(run[e].ids[i])
  /\ run' = IF run[e].flight[i] <= maxRetries THEN [run EXCEPT ![e].flight[i] = @ + 1]
            ELSE [run EXCEPT ![e].flight = Landed(@, i), ![e].failed = @ \cup {i}]
  /\ UNCHANGED <<resultCache, activeExports, status, poll>>

\* Mutant: the files that arrived are taken when the first did.
NextBatchEarly(e) ==
  /\ run[e].at = "files" /\ (run[e].flight = <<>> \/ run[e].got # <<>>)
  /\ IF run[e].upto < Len(run[e].ids)
     THEN run' = [run EXCEPT ![e].upto = @ + BATCH_SIZE, ![e].flight = Batch(run[e].ids, run[e].upto)]
     ELSE run' = [run EXCEPT ![e].at = "retrieved", ![e].flight = <<>>]
  /\ UNCHANGED <<resultCache, activeExports, status, poll>>

\* Promise.all of the batch, and the next one.
NextBatch(e) ==
  /\ run[e].at = "files" /\ DOMAIN run[e].flight = {}
  /\ IF run[e].upto < Len(run[e].ids)
     THEN run' = [run EXCEPT ![e].upto = @ + BATCH_SIZE, ![e].flight = Batch(run[e].ids, run[e].upto)]
     ELSE run' = [run EXCEPT ![e].at = "retrieved", ![e].flight = <<>>]
  /\ UNCHANGED <<resultCache, activeExports, status, poll>>

\* No file is an error; a file that failed is left out.
Retrieved(e) ==
  /\ run[e].at = "retrieved"
  /\ IF run[e].got = <<>> THEN Refuse(e, 404) /\ UNCHANGED status
     ELSE /\ Progress(e, 30) /\ UNCHANGED activeExports
          /\ run' = [run EXCEPT ![e].at = "markdown"]
  /\ UNCHANGED <<resultCache, poll>>

-----------------------------------------------------------------------------
\* The conversion.

Document(r) == [user |-> r.user, format |-> r.opts.format, metadata |-> r.opts.metadata,
                files |-> [i \in DOMAIN r.got |-> r.ids[r.got[i]]]]
TotalSize(doc) == FoldSeq(LAMBDA f, sum : sum + Size[f], 0, doc.files)

\* exportMarkdown: a file without content is an error of the whole document.
ExportMarkdown(e) ==
  LET doc == Document(run[e]) IN
  /\ run[e].at = "markdown"
  /\ IF \E f \in ToSet(doc.files) : Nature[f] = "empty" THEN Refuse(e, 400)
     ELSE IF TotalSize(doc) > MAX_MARKDOWN THEN Refuse(e, 413)
     ELSE /\ run' = [run EXCEPT ![e].doc = doc,
                                ![e].at = IF run[e].opts.format = "pdf" THEN "pdf" ELSE "finalize"]
          /\ UNCHANGED activeExports
  /\ UNCHANGED <<resultCache, status, poll>>

\* convertMarkdownToPdf: the input is checked, options that are absent get
\* their defaults in the caller's own record, and a directory is made.
CreateTempDirectory(e) ==
  /\ run[e].at = "pdf"
  /\ \/ TotalSize(run[e].doc) > MAX_PDF /\ Refuse(e, 413)
     \/ TotalSize(run[e].doc) <= MAX_PDF /\ ToolFaults /\ Refuse(e, 500)
     \/ /\ TotalSize(run[e].doc) <= MAX_PDF /\ UNCHANGED activeExports
        /\ run' = [run EXCEPT ![e].at = "pandoc", ![e].temp = "input",
                              ![e].opts.pdfOptions = IF @ = None THEN "default" ELSE @]
  /\ UNCHANGED <<resultCache, status, poll>>

\* Pandoc, within its timeout, and what it wrote: checked to be a PDF.
ExecutePandoc(e) ==
  /\ run[e].at = "pandoc"
  /\ \/ run' = [run EXCEPT ![e].at = "cleanup", ![e].temp = "output", ![e].code = 0]
     \/ /\ ToolFaults     \* killed, failed, or the output is no PDF
        /\ \E t \in {"input", "output"} :
             run' = [run EXCEPT ![e].at = "cleanup", ![e].temp = t, ![e].code = 500]
  /\ UNCHANGED <<resultCache, activeExports, status, poll>>

\* Mutant: the directory of a failed conversion stays.
CleanupTempDirectoryIfDone(e) ==
  /\ run[e].at = "cleanup"
  /\ IF run[e].code = 0
     THEN run' = [run EXCEPT ![e].at = "finalize", ![e].temp = None] /\ UNCHANGED activeExports
     ELSE Refuse(e, 500)
  /\ UNCHANGED <<resultCache, status, poll>>

\* The finally block: files are removed one by one, then the directory; the
\* first error ends it, and is logged.
CleanupTempDirectory(e) ==
  /\ run[e].at = "cleanup"
  /\ \E removed \in (IF ToolFaults THEN BOOLEAN ELSE {TRUE}) :
       LET r == IF removed THEN [run[e] EXCEPT !.temp = None] ELSE [run[e] EXCEPT !.left = TRUE]
       IN IF r.code = 0
          THEN run' = [run EXCEPT ![e] = [r EXCEPT !.at = "finalize"]] /\ UNCHANGED activeExports
          ELSE /\ run' = [run EXCEPT ![e] = [r EXCEPT !.at = "answered"]]
               /\ activeExports' = Released(e)
  /\ UNCHANGED <<resultCache, status, poll>>

\* The last report; the document is there.
Complete(e) ==
  /\ run[e].at = "finalize" /\ Progress(e, 100)
  /\ run' = [run EXCEPT ![e].at = "store"]
  /\ UNCHANGED <<resultCache, activeExports, poll>>

\* finalizeExport, the cache, the answer; the slot is given back.
FinalizeExport(e) ==
  LET r == run[e] IN
  /\ e[2] = "request" /\ r.at = "store"
  /\ run' = [run EXCEPT ![e].at = "answered", ![e].code = 200]
  /\ activeExports' = Released(e)
  /\ \/ resultCache' = {x \in resultCache : x.key # ExportKey(r.user, r.opts)}
          \cup {[key |-> ExportKey(r.user, r.opts), doc |-> r.doc]}
     \/ UNCHANGED resultCache      \* the set fails
  /\ UNCHANGED <<status, poll>>

\* In the background the document is dropped.
DropResult(e) ==
  /\ e[2] = "background" /\ run[e].at = "store"
  /\ run' = [run EXCEPT ![e].at = "answered", ![e].code = 200]
  /\ activeExports' = Released(e)
  /\ UNCHANGED <<resultCache, status, poll>>

\* EXPORT_RESULT_TTL, EXPORT_STATUS_TTL
ExpireResult ==
  /\ resultCache # {} /\ \E x \in resultCache : resultCache' = resultCache \ {x}
  /\ UNCHANGED <<run, activeExports, status, poll>>

-----------------------------------------------------------------------------
\* getExportStatus of the owner.

\* A miss; while the export holds a slot, a status made up from the time since
\* it started.  Else 404.
PollMisses(x) ==
  /\ x \in Polled /\ poll[x] = "none" /\ status[x] = None /\ x \in activeExports
  /\ poll' = [poll EXCEPT ![x] = "made up"]
  /\ UNCHANGED <<run, resultCache, activeExports, status>>

\* It is cached, over what an execution may have reported meanwhile.
PollCaches(x) ==
  /\ poll[x] = "made up" /\ poll' = [poll EXCEPT ![x] = "none"]
  /\ status' = [status EXCEPT ![x] = "processing"]
  /\ UNCHANGED <<run, resultCache, activeExports>>

ExpireStatus(x) ==
  /\ x \in Polled /\ status[x] # None /\ status' = [status EXCEPT ![x] = None]
  /\ UNCHANGED <<run, resultCache, activeExports, poll>>

Converts(e) ==
  \/ ExportMarkdown(e) \/ CreateTempDirectory(e) \/ ExecutePandoc(e)
  \/ CleanupTempDirectory(e) \/ Complete(e) \/ FinalizeExport(e) \/ DropResult(e)
Fetches(e) == \E i \in DOMAIN run[e].flight : FileArrives(e, i) \/ AttemptFails(e, i)
Proceeds(e) ==
  GetCachedExport(e) \/ StartRetrieval(e) \/ Fetches(e) \/ NextBatch(e) \/ Retrieved(e) \/ Converts(e)

Next ==
  \/ \E e \in Executions : ExportProject(e) \/ TakeSlot(e) \/ Proceeds(e)
  \/ \E x \in Exports : PollMisses(x) \/ PollCaches(x) \/ ExpireStatus(x)
  \/ ExpireResult

\* Every command has a timeout: HTTP requests and pandoc end.  Nothing is assumed
\* of how long an export waits for a slot.
Spec == Init /\ [][Next]_vars
FairSpec == Spec /\ \A e \in Executions : WF_vars(Proceeds(e))

-----------------------------------------------------------------------------
\* Properties.

\* The document of an export that retrieved its files holds each file that did
\* not fail once: batches and retries lose none and repeat none.
EveryFileAccounted ==
  \A e \in Executions : LET r == run[e] IN
    r.at \in {"markdown", "pdf", "pandoc", "finalize", "store"} =>
      /\ {r.got[i] : i \in DOMAIN r.got} \cup r.failed = DOMAIN r.ids
      /\ Len(r.got) + Cardinality(r.failed) = Len(r.ids)

\* Whoever gets a document gets one of the files and in the form he asked for,
\* made for himself, also when it comes from the cache; a file that could not be
\* retrieved is the only one that may be missing.
ServedWhatWasAsked ==
  \A e \in Executions : LET r == run[e] IN
    r.at = "answered" /\ r.code = 200 =>
      /\ r.doc.user = r.user /\ r.doc.format = r.opts.format /\ r.doc.metadata = r.opts.metadata
      /\ ToSet(r.doc.files) \subseteq ToSet(IdsOf(r.opts))
      /\ \A f \in ToSet(IdsOf(r.opts)) \ ToSet(r.doc.files) : Nature[f] \in {"missing", "flaky", "garbled"}

\* No temporary directory outlives the request that made it, whichever step of
\* the conversion fails, unless its removal fails.
NoTempLeft ==
  \A e \in Executions : run[e].at \in {"answered", "finalize"} /\ ~run[e].left => run[e].temp = None

\* An export is reported "completed" only if one of its executions made its
\* document, however the reports of both, the polls of its owner and the slot they
\* share come together.  It need not be the request's: that one may fail later.
HasDocument(e) == run[e].at = "store" \/ (run[e].at = "answered" /\ run[e].code = 200)
CompletedIsTrue ==
  \A x \in Exports : status[x] = "completed" =>
    HasDocument(Request(x)) \/ HasDocument(Background(x))

\* Every execution that has got its slot ends, whatever storage and the converters
\* do: so its slot comes back.
EveryExportEnds == \A e \in Executions : run[e].at = "start" ~> run[e].at = "answered"

\* "Si omis, tous les fichiers generes sont exportes" (export-options.dto.ts:241):
\* an export of all files is not refused for their ids.
FullExportServed ==
  \A e \in Executions : run[e].opts.fileIds = None /\ run[e].at = "answered" => run[e].code # 400

=============================================================================
