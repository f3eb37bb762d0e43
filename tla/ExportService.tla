---------------------------- MODULE ExportService ----------------------------
(***************************************************************************)
(* The slots and the queue of the export service.  exportProject takes a   *)
(* slot when one is free, else it queues its context and polls for a slot. *)
(* Whoever gives a slot back also starts the head of the queue itself, in  *)
(* the background; the request that queued it still polls, and processes   *)
(* the export once more when it gets through.  So an export e has up to    *)
(* two runs: that of its request (fg) and one in the background (bg).      *)
(* What the runs do, and the status they cache, is ExportPipeline's.       *)
(*                                                                         *)
(* JavaScript runs each stretch between two awaits undivided: the check    *)
(* for a slot and its taking are one step, and so is a release.            *)
(***************************************************************************)
EXTENDS Naturals, Sequences, FiniteSets

CONSTANTS
  Exports,                \* export ids, one per call under way (see ExportProject)
  maxConcurrentExports,   \* the slots
  MaxQueue,               \* the length the cleanup trims the queue to (50)
  Priorities,             \* the priorities the options of a run lead to
  Hangs                   \* TRUE: a run may last longer than the cleanup allows

ASSUME SlotsAssumption == maxConcurrentExports \in Nat \ {0}
ASSUME MaxQueueAssumption == MaxQueue \in Nat
ASSUME PrioritiesAssumption == Priorities # {} /\ Priorities \subseteq {1, 2, 3}
ASSUME HangsAssumption == Hangs \in BOOLEAN

VARIABLES
  activeExports,   \* ids that hold a slot
  exportQueue,     \* queued ids, the most urgent first
  priority,        \* priority[e]: 3 high, 2 normal, 1 low
  fg,              \* fg[e]: where the request of e stands
  bg,              \* bg[e]: the run of e a release started
  taken            \* the cleanup has taken the slot of a run that goes on

vars == <<activeExports, exportQueue, priority, fg, bg, taken>>

Running == {"processing"}

Init ==
  /\ activeExports = {}
  /\ exportQueue = <<>>
  /\ priority = [e \in Exports |-> CHOOSE p \in Priorities : TRUE]
  /\ fg = [e \in Exports |-> "idle"]
  /\ bg = [e \in Exports |-> "none"]
  /\ taken = FALSE

SlotFree == Cardinality(activeExports) < maxConcurrentExports

\* A new call with a new id, validated and not served from the cache: a call that
\* is refused or served changes nothing here.  Calls come at any time and without
\* end; the id of a call that is over, with nothing left of it, stands for the
\* next one's.
ExportProject(e) ==
  /\ fg[e] = "idle" /\ bg[e] = "none" /\ e \notin activeExports
  /\ \A i \in DOMAIN exportQueue : exportQueue[i] # e
  /\ fg' = [fg EXCEPT ![e] = "accepted"]
  /\ UNCHANGED <<activeExports, exportQueue, priority, bg, taken>>

TakeSlot(e) ==
  /\ SlotFree
  /\ activeExports' = activeExports \cup {e}
  /\ fg' = [fg EXCEPT ![e] = "processing"]

\* How many queued exports are at least as urgent as one of priority p.
Ahead(p) == Cardinality({i \in DOMAIN exportQueue : priority[exportQueue[i]] >= p})

\* push and sort: behind the exports that are at least as urgent.  The priority
\* follows from the options of the request, and only the sort looks at it.
EnqueueExport(e) ==
  /\ fg[e] = "accepted"
  /\ \/ TakeSlot(e) /\ UNCHANGED <<exportQueue, priority>>
     \/ /\ ~SlotFree
        /\ fg' = [fg EXCEPT ![e] = "waiting"]
        /\ \E p \in Priorities :
             /\ priority' = [priority EXCEPT ![e] = p]
             /\ exportQueue' = [i \in 1 .. Len(exportQueue) + 1 |->
                                  IF i <= Ahead(p) THEN exportQueue[i]
                                  ELSE IF i = Ahead(p) + 1 THEN e ELSE exportQueue[i - 1]]
        /\ UNCHANGED activeExports
  /\ UNCHANGED <<bg, taken>>

\* waitForExportSlot: the poll that finds a slot.  The queue keeps its entry.
CheckSlot(e) ==
  /\ fg[e] = "waiting"
  /\ TakeSlot(e)
  /\ UNCHANGED <<exportQueue, priority, bg, taken>>

\* Mutant: the slot goes back, and nobody starts the head of the queue.
ReleaseOnly(e, bgs) ==
  /\ activeExports' = activeExports \ {e}
  /\ bg' = bgs
  /\ UNCHANGED exportQueue

\* Mutant: the head of the queue is started and stays in the queue.
ReleaseWithoutShift(e, bgs) ==
  IF exportQueue = <<>>
    THEN ReleaseOnly(e, bgs)
    ELSE /\ activeExports' = (activeExports \ {e}) \cup {Head(exportQueue)}
         /\ bg' = [bgs EXCEPT ![Head(exportQueue)] = "processing"]
         /\ UNCHANGED exportQueue

\* Mutant: a slot nobody queues for is not given back.
ReleaseOnlyToQueue(e, bgs) ==
  IF exportQueue = <<>>
    THEN bg' = bgs /\ UNCHANGED <<activeExports, exportQueue>>
    ELSE /\ activeExports' = (activeExports \ {e}) \cup {Head(exportQueue)}
         /\ bg' = [bgs EXCEPT ![Head(exportQueue)] = "processing"]
         /\ exportQueue' = Tail(exportQueue)

\* releaseExportSlot(e), with bgs the background runs that go on: e's id leaves
\* the slots whether or not another run of e uses it; the head of the queue
\* gets a slot and a run in the background.
Release(e, bgs) ==
  IF exportQueue = <<>>
    THEN /\ activeExports' = activeExports \ {e}
         /\ bg' = bgs
         /\ UNCHANGED exportQueue
    ELSE /\ activeExports' = (activeExports \ {e}) \cup {Head(exportQueue)}
         /\ bg' = [bgs EXCEPT ![Head(exportQueue)] = "processing"]
         /\ exportQueue' = Tail(exportQueue)

\* Mutant: a failure of the run keeps the slot.
FgEndsKeepingSlot(e) ==
  /\ fg[e] \in Running
  /\ fg' = [fg EXCEPT ![e] = "idle"]
  /\ Release(e, bg) \/ UNCHANGED <<activeExports, exportQueue, bg>>
  /\ UNCHANGED <<priority, taken>>

\* processExport, finalizeExport and the caching of the result are over, or one of
\* them failed: `finally' gives the slot back, and the request is answered.
FgEnds(e) ==
  /\ fg[e] \in Running
  /\ fg' = [fg EXCEPT ![e] = "idle"]
  /\ Release(e, bg)
  /\ UNCHANGED <<priority, taken>>

\* The background run ends, one way or the other, and gives e's slot back.
BgEnds(e) ==
  /\ bg[e] \in Running
  /\ Release(e, [bg EXCEPT ![e] = "none"])
  /\ UNCHANGED <<priority, fg, taken>>

\* performScheduledCleanup: an export that started too long ago loses its slot;
\* the queue is trimmed.
ScheduledCleanup ==
  /\ \E stale \in (IF Hangs THEN SUBSET activeExports ELSE {{}}) :
       activeExports' = activeExports \ stale /\ taken' = (taken \/ stale # {})
  /\ exportQueue' = SubSeq(exportQueue, 1,
       IF Len(exportQueue) > MaxQueue THEN MaxQueue ELSE Len(exportQueue))
  /\ UNCHANGED <<priority, fg, bg>>

Next ==
  \/ \E e \in Exports :
       \/ ExportProject(e) \/ EnqueueExport(e) \/ CheckSlot(e)
       \/ FgEnds(e) \/ BgEnds(e)
  \/ ScheduledCleanup

Spec == Init /\ [][Next]_vars

\* Requests go on, polls repeat every second, and conversions end (the services
\* that convert have timeouts).
Fairness ==
  \A e \in Exports :
    /\ WF_vars(EnqueueExport(e)) /\ WF_vars(CheckSlot(e))
    /\ WF_vars(FgEnds(e)) /\ WF_vars(BgEnds(e))

FairSpec == Spec /\ Fairness

-----------------------------------------------------------------------------
\* Properties.

\* Every variable has its type, and no export is queued twice.
TypeOK ==
  /\ activeExports \subseteq Exports
  /\ exportQueue \in Seq(Exports)
  /\ \A i, j \in DOMAIN exportQueue : exportQueue[i] = exportQueue[j] => i = j
  /\ priority \in [Exports -> Priorities]
  /\ fg \in [Exports -> {"idle", "accepted", "waiting"} \cup Running]
  /\ bg \in [Exports -> {"none"} \cup Running]
  /\ taken \in BOOLEAN

\* No slot leaks: an id that holds a slot has a run that will give it back,
\* though two runs of one export share the id and each of them releases it.
SlotsReturned ==
  \A e \in activeExports : fg[e] \in Running \/ bg[e] \in Running

\* No export queues while a slot is free, so what is queued is always started
\* by a later release; unless the cleanup took the slot of a run that was too
\* old, which leaves the queue to the polls.
NoIdleSlot == exportQueue # <<>> /\ ~taken => ~SlotFree

\* A queue entry belongs to a request that still polls: a queued export is not
\* started in the background after its request was answered, with the same
\* exception.
QueuedStillWaiting ==
  ~taken =>
    \A i \in DOMAIN exportQueue :
      fg[exportQueue[i]] = "waiting" /\ bg[exportQueue[i]] = "none"

\* Once calls stop coming, every accepted export is answered.  While they go on,
\* a request whose queue entry is gone may poll for ever: each slot it could find
\* is handed to the queue at once or taken by a newer call.
EveryExportAnswered ==
  <>[][\A e \in Exports : ~ExportProject(e)]_vars =>
    \A e \in Exports : fg[e] = "accepted" ~> fg[e] = "idle"
=============================================================================
