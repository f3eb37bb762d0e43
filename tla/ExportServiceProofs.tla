-------------------------- MODULE ExportServiceProofs --------------------------
(***************************************************************************)
(* Proofs about ExportService, for any number of exports, slots and queue  *)
(* entries, whether or not runs outlive the cleanup.                       *)
(*                                                                         *)
(* The properties need each other: a release hands its slot on only        *)
(* because the head of the queue holds none yet (QueuedStillWaiting and    *)
(* SlotsReturned), and a queued export is not started by its own poll      *)
(* because no slot is free while there is a queue (NoIdleSlot).            *)
(***************************************************************************)
EXTENDS ExportService, FiniteSetTheorems, SequenceTheorems, TLAPS

\* An export whose request has not asked for a slot is neither queued nor run,
\* so that it can only be queued once.
NotYetQueued ==
  \A e \in Exports : fg[e] = "accepted" =>
    bg[e] = "none" /\ \A i \in DOMAIN exportQueue : exportQueue[i] # e

\* The queue is in the order its sort gives it: the most urgent exports first.
QueueSorted ==
  \A i, j \in DOMAIN exportQueue :
    i <= j => priority[exportQueue[i]] >= priority[exportQueue[j]]

QueueInv == TypeOK /\ IsFiniteSet(activeExports) /\ NotYetQueued

SlotInv == QueueInv /\ SlotsReturned /\ NoIdleSlot /\ QueuedStillWaiting

USE SlotsAssumption, MaxQueueAssumption, PrioritiesAssumption, HangsAssumption

-----------------------------------------------------------------------------
\* The queue as a sequence.

LEMMA AheadInQueue ==
  ASSUME TypeOK, NEW p
  PROVE  Ahead(p) \in 0 .. Len(exportQueue)
<1>. DEFINE S == {i \in DOMAIN exportQueue : priority[exportQueue[i]] >= p}
            n == Len(exportQueue)
<1>1. DOMAIN exportQueue = 1 .. n /\ n \in Nat
  <2>1. exportQueue \in Seq(Exports)
    BY DEF TypeOK
  <2>. QED BY <2>1
<1>2. IsFiniteSet(1 .. n) /\ Cardinality(1 .. n) = n
  BY <1>1, FS_Interval
<1>3. IsFiniteSet(S) /\ Cardinality(S) <= n
  BY <1>1, <1>2, FS_Subset
<1>. QED
  BY <1>1, <1>3, FS_CardinalityType DEF Ahead

LEMMA EnqueuedQueue ==
  ASSUME TypeOK, NEW e \in Exports, NEW p,
         exportQueue' = [i \in 1 .. Len(exportQueue) + 1 |->
                           IF i <= Ahead(p) THEN exportQueue[i]
                           ELSE IF i = Ahead(p) + 1 THEN e ELSE exportQueue[i - 1]]
  PROVE  /\ exportQueue' \in Seq(Exports) /\ Len(exportQueue') = Len(exportQueue) + 1
         /\ \A i \in 1 .. Len(exportQueue') :
              exportQueue'[i] = IF i <= Ahead(p) THEN exportQueue[i]
                                ELSE IF i = Ahead(p) + 1 THEN e ELSE exportQueue[i - 1]
<1>1. /\ Ahead(p) \in Nat /\ Ahead(p) <= Len(exportQueue) /\ Len(exportQueue) \in Nat
      /\ \A i \in 1 .. Len(exportQueue) : exportQueue[i] \in Exports
  BY AheadInQueue, ElementOfSeq DEF TypeOK
<1>2. \A i \in 1 .. Len(exportQueue) + 1 : exportQueue'[i] \in Exports
  BY <1>1
<1>. QED
  BY <1>1, <1>2

LEMMA ShiftedQueue ==
  ASSUME TypeOK, exportQueue # <<>>, exportQueue' = Tail(exportQueue)
  PROVE  /\ Head(exportQueue) \in Exports /\ Head(exportQueue) = exportQueue[1]
         /\ exportQueue' \in Seq(Exports) /\ Len(exportQueue') = Len(exportQueue) - 1
         /\ \A i \in 1 .. Len(exportQueue') : exportQueue'[i] = exportQueue[i + 1]
  BY HeadTailProperties DEF TypeOK

LEMMA TrimmedQueue ==
  ASSUME TypeOK,
         exportQueue' = SubSeq(exportQueue, 1,
                          IF Len(exportQueue) > MaxQueue THEN MaxQueue ELSE Len(exportQueue))
  PROVE  /\ exportQueue' \in Seq(Exports) /\ Len(exportQueue') <= Len(exportQueue)
         /\ \A i \in 1 .. Len(exportQueue') : exportQueue'[i] = exportQueue[i]
<1>. DEFINE n == IF Len(exportQueue) > MaxQueue THEN MaxQueue ELSE Len(exportQueue)
<1>1. n \in 0 .. Len(exportQueue) /\ Len(exportQueue) \in Nat
  BY DEF TypeOK
<1>2. \A i \in 1 .. n : exportQueue[i] \in Exports
  BY <1>1, ElementOfSeq DEF TypeOK
<1>. HIDE DEF n
<1>3. /\ SubSeq(exportQueue, 1, n) \in Seq(Exports)
      /\ Len(SubSeq(exportQueue, 1, n)) = n
      /\ \A i \in 1 .. n : SubSeq(exportQueue, 1, n)[i] = exportQueue[i]
  BY <1>1, <1>2, SubSeqProperties
<1>. QED
  BY <1>1, <1>3 DEF n

-----------------------------------------------------------------------------
\* Types, and the order in which an export is accepted, queued and run.

LEMMA QueueInit == Init => QueueInv
<1>. SUFFICES ASSUME Init PROVE QueueInv
  OBVIOUS
<1>1. (CHOOSE p \in Priorities : TRUE) \in Priorities
  BY Zenon
<1>2. exportQueue \in Seq(Exports) /\ DOMAIN exportQueue = {}
  BY DEF Init
<1>. QED
  BY <1>1, <1>2, FS_EmptySet DEF Init, QueueInv, TypeOK, NotYetQueued

\* Giving a slot back, whatever background runs bgs go on.
LEMMA ReleaseKeepsQueue ==
  ASSUME QueueInv, NEW e \in Exports, NEW bgs \in [Exports -> {"none"} \cup Running],
         Release(e, bgs),
         \A d \in Exports : bgs[d] \in {"none", bg[d]},
         fg' \in [Exports -> {"idle", "accepted", "waiting"} \cup Running],
         \A d \in Exports : fg'[d] = "accepted" => fg'[d] = fg[d],
         UNCHANGED <<priority, taken>>
  PROVE  QueueInv'
<1>1. CASE exportQueue = <<>>
  BY <1>1, FS_RemoveElement DEF Release, QueueInv, TypeOK, NotYetQueued
<1>2. CASE exportQueue # <<>>
  <2>1. /\ Head(exportQueue) \in Exports /\ Head(exportQueue) = exportQueue[1]
        /\ exportQueue' \in Seq(Exports) /\ Len(exportQueue') = Len(exportQueue) - 1
        /\ \A i \in 1 .. Len(exportQueue') : exportQueue'[i] = exportQueue[i + 1]
    BY <1>2, ShiftedQueue DEF Release, QueueInv
  <2>2. /\ DOMAIN exportQueue = 1 .. Len(exportQueue) /\ Len(exportQueue) \in Nat
        /\ DOMAIN exportQueue' = 1 .. Len(exportQueue') /\ Len(exportQueue) >= 1
        /\ \A i \in DOMAIN exportQueue' : i + 1 \in DOMAIN exportQueue
    BY <1>2, <2>1 DEF QueueInv, TypeOK
  <2>3. /\ activeExports' = (activeExports \ {e}) \cup {Head(exportQueue)}
        /\ bg' = [bgs EXCEPT ![Head(exportQueue)] = "processing"]
    BY <1>2 DEF Release
  <2>4. IsFiniteSet(activeExports')
    BY <2>3, FS_RemoveElement, FS_AddElement DEF QueueInv
  <2>5. \A i, j \in DOMAIN exportQueue' : exportQueue'[i] = exportQueue'[j] => i = j
    <3>. SUFFICES ASSUME NEW i \in DOMAIN exportQueue', NEW j \in DOMAIN exportQueue',
                         exportQueue'[i] = exportQueue'[j]
                  PROVE  i = j
      OBVIOUS
    <3>1. i + 1 = j + 1
      BY <2>1, <2>2 DEF QueueInv, TypeOK
    <3>. QED
      BY <2>2, <3>1
  <2>6. TypeOK'
    BY <2>1, <2>3, <2>5 DEF QueueInv, TypeOK, Running
  <2>7. NotYetQueued'
    <3>. SUFFICES ASSUME NEW d \in Exports, fg'[d] = "accepted"
                  PROVE  bg'[d] = "none" /\ \A i \in DOMAIN exportQueue' : exportQueue'[i] # d
      BY DEF NotYetQueued
    <3>1. bg[d] = "none" /\ \A i \in DOMAIN exportQueue : exportQueue[i] # d
      BY DEF QueueInv, NotYetQueued
    <3>2. d # Head(exportQueue) /\ \A i \in DOMAIN exportQueue' : exportQueue'[i] # d
      BY <3>1, <2>1, <2>2
    <3>. QED
      BY <3>1, <3>2, <2>3
  <2>. QED
    BY <2>4, <2>6, <2>7 DEF QueueInv
<1>. QED
  BY <1>1, <1>2

LEMMA QueueNext == QueueInv /\ [Next]_vars => QueueInv'
<1>. SUFFICES ASSUME QueueInv, [Next]_vars PROVE QueueInv'
  OBVIOUS
<1>1. ASSUME NEW e \in Exports, ExportProject(e) PROVE QueueInv'
  BY <1>1 DEF ExportProject, QueueInv, TypeOK, NotYetQueued
<1>2. ASSUME NEW e \in Exports, EnqueueExport(e) PROVE QueueInv'
  <2>1. CASE TakeSlot(e) /\ UNCHANGED <<exportQueue, priority>>
    BY <1>2, <2>1, FS_AddElement, ZenonT(30)
       DEF EnqueueExport, TakeSlot, QueueInv, TypeOK, NotYetQueued, Running
  <2>2. CASE ~TakeSlot(e) \/ ~UNCHANGED <<exportQueue, priority>>
    <3>1. PICK p \in Priorities :
            /\ priority' = [priority EXCEPT ![e] = p]
            /\ exportQueue' = [i \in 1 .. Len(exportQueue) + 1 |->
                                 IF i <= Ahead(p) THEN exportQueue[i]
                                 ELSE IF i = Ahead(p) + 1 THEN e ELSE exportQueue[i - 1]]
      BY <1>2, <2>2 DEF EnqueueExport
    <3>2. /\ fg[e] = "accepted" /\ fg' = [fg EXCEPT ![e] = "waiting"]
          /\ UNCHANGED <<activeExports, bg, taken>>
      BY <1>2, <2>2 DEF EnqueueExport
    <3>3. /\ exportQueue' \in Seq(Exports) /\ Len(exportQueue') = Len(exportQueue) + 1
          /\ \A i \in 1 .. Len(exportQueue') :
               exportQueue'[i] = IF i <= Ahead(p) THEN exportQueue[i]
                                 ELSE IF i = Ahead(p) + 1 THEN e ELSE exportQueue[i - 1]
      BY <3>1, EnqueuedQueue DEF QueueInv
    <3>4. /\ Ahead(p) \in Nat /\ Ahead(p) <= Len(exportQueue) /\ Len(exportQueue) \in Nat
          /\ DOMAIN exportQueue = 1 .. Len(exportQueue)
          /\ DOMAIN exportQueue' = 1 .. Len(exportQueue) + 1
      BY <3>3, AheadInQueue DEF QueueInv, TypeOK
    <3>5. \A i \in DOMAIN exportQueue : exportQueue[i] # e
      BY <3>2 DEF QueueInv, NotYetQueued
    <3>6. \A i, j \in DOMAIN exportQueue' : exportQueue'[i] = exportQueue'[j] => i = j
      <4>. SUFFICES ASSUME NEW i \in DOMAIN exportQueue', NEW j \in DOMAIN exportQueue',
                           exportQueue'[i] = exportQueue'[j]
                    PROVE  i = j
        OBVIOUS
      <4>. DEFINE old(k) == IF k <= Ahead(p) THEN k ELSE k - 1
      <4>1. \A k \in DOMAIN exportQueue' :
              \/ k = Ahead(p) + 1 /\ exportQueue'[k] = e
              \/ k # Ahead(p) + 1 /\ old(k) \in DOMAIN exportQueue
                                   /\ exportQueue'[k] = exportQueue[old(k)]
        BY <3>3, <3>4
      <4>2. \/ i = Ahead(p) + 1 /\ j = Ahead(p) + 1
            \/ i # Ahead(p) + 1 /\ j # Ahead(p) + 1 /\ old(i) = old(j)
        <5>. HIDE DEF old
        <5>. QED
          BY <4>1, <3>5 DEF QueueInv, TypeOK
      <4>. QED
        BY <4>2, <3>4
    <3>7. NotYetQueued'
      <4>. SUFFICES ASSUME NEW d \in Exports, fg'[d] = "accepted"
                    PROVE  bg'[d] = "none" /\ \A i \in DOMAIN exportQueue' : exportQueue'[i] # d
        BY DEF NotYetQueued
      <4>1. d # e /\ fg[d] = "accepted"
        BY <3>2 DEF QueueInv, TypeOK
      <4>2. bg[d] = "none" /\ \A i \in DOMAIN exportQueue : exportQueue[i] # d
        BY <4>1 DEF QueueInv, NotYetQueued
      <4>3. ASSUME NEW i \in DOMAIN exportQueue' PROVE exportQueue'[i] # d
        <5>1. CASE i <= Ahead(p)
          BY <3>3, <3>4, <4>2, <5>1
        <5>2. CASE i = Ahead(p) + 1
          BY <3>3, <3>4, <4>1, <5>2
        <5>3. CASE i > Ahead(p) + 1
          <6>1. i - 1 \in DOMAIN exportQueue /\ exportQueue'[i] = exportQueue[i - 1]
            BY <3>3, <3>4, <5>3
          <6>. QED BY <4>2, <6>1
        <5>. QED BY <3>4, <5>1, <5>2, <5>3
      <4>. QED
        BY <3>2, <4>2, <4>3
    <3>8. TypeOK'
      BY <3>1, <3>2, <3>3, <3>6 DEF QueueInv, TypeOK
    <3>. QED
      BY <3>2, <3>7, <3>8 DEF QueueInv
  <2>. QED
    BY <2>1, <2>2
<1>3. ASSUME NEW e \in Exports, CheckSlot(e) PROVE QueueInv'
  BY <1>3, FS_AddElement DEF CheckSlot, TakeSlot, QueueInv, TypeOK, NotYetQueued, Running
<1>4. ASSUME NEW e \in Exports, FgEnds(e) PROVE QueueInv'
  <2>1. /\ fg' \in [Exports -> {"idle", "accepted", "waiting"} \cup Running]
        /\ \A d \in Exports : fg'[d] = "accepted" => fg'[d] = fg[d]
    BY <1>4 DEF FgEnds, QueueInv, TypeOK
  <2>. QED
    BY <1>4, <2>1, ReleaseKeepsQueue DEF FgEnds, QueueInv, TypeOK
<1>5. ASSUME NEW e \in Exports, BgEnds(e) PROVE QueueInv'
  <2>. DEFINE bgs == [bg EXCEPT ![e] = "none"]
  <2>1. /\ bgs \in [Exports -> {"none"} \cup Running]
        /\ \A d \in Exports : bgs[d] \in {"none", bg[d]}
    BY DEF QueueInv, TypeOK
  <2>. QED
    BY <1>5, <2>1, ReleaseKeepsQueue DEF BgEnds, QueueInv, TypeOK
<1>6. CASE ScheduledCleanup
  <2>1. /\ exportQueue' \in Seq(Exports) /\ Len(exportQueue') <= Len(exportQueue)
        /\ \A i \in 1 .. Len(exportQueue') : exportQueue'[i] = exportQueue[i]
    BY <1>6, TrimmedQueue DEF ScheduledCleanup, QueueInv
  <2>2. \A i \in DOMAIN exportQueue' : i \in DOMAIN exportQueue /\ exportQueue'[i] = exportQueue[i]
    BY <2>1 DEF QueueInv, TypeOK
  <2>3. /\ activeExports' \subseteq activeExports /\ taken' \in BOOLEAN
        /\ UNCHANGED <<priority, fg, bg>>
    BY <1>6 DEF ScheduledCleanup, QueueInv, TypeOK
  <2>. QED
    BY <2>1, <2>2, <2>3, FS_Subset DEF QueueInv, TypeOK, NotYetQueued
<1>7. CASE UNCHANGED vars
  BY <1>7 DEF vars, QueueInv, TypeOK, NotYetQueued
<1>. QED
  BY <1>1, <1>2, <1>3, <1>4, <1>5, <1>6, <1>7 DEF Next

\* Every variable has its type, and no export is ever queued twice.
THEOREM TypeCorrect == Spec => []TypeOK
<1>. QueueInv => TypeOK
  BY DEF QueueInv
<1>. QED
  BY QueueInit, QueueNext, PTL DEF Spec

LEMMA QueueInvariant == Spec => []QueueInv
  BY QueueInit, QueueNext, PTL DEF Spec

\* The head of the queue, and what a release that takes it leaves queued.
LEMMA ReleasedHead ==
  ASSUME QueueInv, exportQueue # <<>>, exportQueue' = Tail(exportQueue)
  PROVE  /\ Head(exportQueue) = exportQueue[1] /\ 1 \in DOMAIN exportQueue
         /\ Head(exportQueue) \in Exports
         /\ \A i \in DOMAIN exportQueue' :
              /\ i + 1 \in DOMAIN exportQueue /\ exportQueue'[i] = exportQueue[i + 1]
              /\ exportQueue'[i] # Head(exportQueue)
<1>1. /\ Head(exportQueue) \in Exports /\ Head(exportQueue) = exportQueue[1]
      /\ exportQueue' \in Seq(Exports) /\ Len(exportQueue') = Len(exportQueue) - 1
      /\ \A i \in 1 .. Len(exportQueue') : exportQueue'[i] = exportQueue[i + 1]
  BY ShiftedQueue DEF QueueInv
<1>2. /\ 1 \in DOMAIN exportQueue
      /\ \A i \in DOMAIN exportQueue' : i + 1 \in DOMAIN exportQueue /\ i + 1 # 1
                                      /\ exportQueue'[i] = exportQueue[i + 1]
  BY <1>1 DEF QueueInv, TypeOK
<1>. QED
  BY <1>1, <1>2 DEF QueueInv, TypeOK

-----------------------------------------------------------------------------
\* No slot leaks.

LEMMA ReleaseReturnsSlot ==
  ASSUME QueueInv, SlotsReturned, NEW e \in Exports,
         NEW bgs \in [Exports -> {"none"} \cup Running], Release(e, bgs),
         \A d \in Exports \ {e} : fg'[d] = fg[d] /\ bgs[d] = bg[d]
  PROVE  SlotsReturned'
<1>1. CASE exportQueue = <<>>
  BY <1>1 DEF Release, SlotsReturned, QueueInv, TypeOK
<1>2. CASE exportQueue # <<>>
  <2>1. /\ Head(exportQueue) \in Exports
        /\ activeExports' = (activeExports \ {e}) \cup {Head(exportQueue)}
        /\ bg' = [bgs EXCEPT ![Head(exportQueue)] = "processing"]
    BY <1>2, ReleasedHead DEF Release
  <2>. QED
    BY <2>1 DEF SlotsReturned, QueueInv, TypeOK, Running
<1>. QED
  BY <1>1, <1>2

LEMMA SlotsNext == QueueInv /\ SlotsReturned /\ [Next]_vars => SlotsReturned'
<1>. SUFFICES ASSUME QueueInv, SlotsReturned, [Next]_vars PROVE SlotsReturned'
  OBVIOUS
<1>. bg \in [Exports -> {"none"} \cup Running]
  BY DEF QueueInv, TypeOK
<1>. USE DEF Running
<1>1. ASSUME NEW e \in Exports, ExportProject(e) PROVE SlotsReturned'
  BY <1>1 DEF ExportProject, SlotsReturned, QueueInv, TypeOK
<1>2. ASSUME NEW e \in Exports, EnqueueExport(e) \/ CheckSlot(e) PROVE SlotsReturned'
  BY <1>2 DEF EnqueueExport, CheckSlot, TakeSlot, SlotsReturned, QueueInv, TypeOK
<1>3. ASSUME NEW e \in Exports, FgEnds(e) PROVE SlotsReturned'
  <2>1. Release(e, bg) /\ \A d \in Exports \ {e} : fg'[d] = fg[d]
    BY <1>3 DEF FgEnds, QueueInv, TypeOK
  <2>. QED
    BY <2>1, ReleaseReturnsSlot
<1>4. ASSUME NEW e \in Exports, BgEnds(e) PROVE SlotsReturned'
  <2>. DEFINE bgs == [bg EXCEPT ![e] = "none"]
  <2>1. /\ bgs \in [Exports -> {"none"} \cup Running] /\ Release(e, bgs)
        /\ \A d \in Exports \ {e} : fg'[d] = fg[d] /\ bgs[d] = bg[d]
    BY <1>4 DEF BgEnds
  <2>. QED
    BY <2>1, ReleaseReturnsSlot
<1>5. CASE ScheduledCleanup
  <2>1. activeExports' \subseteq activeExports /\ UNCHANGED <<fg, bg>>
    BY <1>5 DEF ScheduledCleanup
  <2>. QED
    BY <2>1 DEF SlotsReturned
<1>6. CASE UNCHANGED vars
  BY <1>6 DEF vars, SlotsReturned
<1>. QED
  BY <1>1, <1>2, <1>3, <1>4, <1>5, <1>6 DEF Next

\* No slot leaks: whoever holds one has a run that gives it back, though a run
\* may release the slot another run of the same export works in.
THEOREM NoSlotLeaks == Spec => []SlotsReturned
<1>1. Init => SlotsReturned
  BY DEF Init, SlotsReturned
<1>. QED
  BY <1>1, QueueInvariant, SlotsNext, PTL DEF Spec

-----------------------------------------------------------------------------
\* The queue is served.

\* A release by a run of e hands its slot to the head of the queue, which holds
\* none: as many slots are held as before, or more.
LEMMA ReleaseHandsOver ==
  ASSUME SlotInv, ~taken, NEW e \in Exports, fg[e] \in Running \/ bg[e] \in Running,
         NEW bgs \in [Exports -> {"none"} \cup Running], Release(e, bgs),
         \A d \in Exports \ {e} : fg'[d] = fg[d] /\ bgs[d] = bg[d],
         UNCHANGED taken
  PROVE  NoIdleSlot' /\ QueuedStillWaiting'
<1>1. CASE exportQueue = <<>>
  BY <1>1 DEF Release, NoIdleSlot, QueuedStillWaiting
<1>2. CASE exportQueue # <<>>
  <2>. DEFINE h == Head(exportQueue)
  <2>1. /\ h \in Exports /\ h = exportQueue[1] /\ 1 \in DOMAIN exportQueue
        /\ \A i \in DOMAIN exportQueue' :
             /\ i + 1 \in DOMAIN exportQueue /\ exportQueue'[i] = exportQueue[i + 1]
             /\ exportQueue'[i] # h
    BY <1>2, ReleasedHead DEF Release, SlotInv
  <2>2. /\ activeExports' = (activeExports \ {e}) \cup {h}
        /\ bg' = [bgs EXCEPT ![h] = "processing"]
    BY <1>2 DEF Release
  <2>3. \A i \in DOMAIN exportQueue : /\ fg[exportQueue[i]] = "waiting"
                                     /\ bg[exportQueue[i]] = "none"
                                     /\ exportQueue[i] \in Exports \ {e}
    <3>1. \A i \in DOMAIN exportQueue : exportQueue[i] \in Exports
      BY ElementOfSeq DEF SlotInv, QueueInv, TypeOK
    <3>. QED
      BY <3>1 DEF SlotInv, QueuedStillWaiting, Running
  <2>4. h \notin activeExports
    BY <2>1, <2>3 DEF SlotInv, SlotsReturned, Running
  <2>5. QueuedStillWaiting'
    BY <2>1, <2>2, <2>3 DEF QueuedStillWaiting
  <2>6. /\ IsFiniteSet(activeExports) /\ Cardinality(activeExports) \in Nat
        /\ Cardinality(activeExports') >= Cardinality(activeExports)
    <3>1. IsFiniteSet(activeExports) /\ Cardinality(activeExports) \in Nat
      BY FS_CardinalityType DEF SlotInv, QueueInv
    <3>2. /\ IsFiniteSet(activeExports \ {e})
          /\ Cardinality(activeExports \ {e}) >= Cardinality(activeExports) - 1
          /\ Cardinality(activeExports \ {e}) \in Nat
      <4>1. /\ IsFiniteSet(activeExports \ {e})
            /\ Cardinality(activeExports \ {e}) = IF e \in activeExports
                 THEN Cardinality(activeExports) - 1 ELSE Cardinality(activeExports)
        BY <3>1, FS_RemoveElement
      <4>2. Cardinality(activeExports \ {e}) \in Nat
        BY <4>1, FS_CardinalityType
      <4>. QED
        BY <3>1, <4>1, <4>2
    <3>3. Cardinality(activeExports') = Cardinality(activeExports \ {e}) + 1
      BY <2>2, <2>4, <3>2, FS_AddElement
    <3>. QED
      BY <3>1, <3>2, <3>3
  <2>7. Cardinality(activeExports) >= maxConcurrentExports
    BY <1>2, <2>6 DEF SlotInv, NoIdleSlot, SlotFree
  <2>8. Cardinality(activeExports') >= maxConcurrentExports /\ Cardinality(activeExports') \in Int
    <3>. DEFINE m == Cardinality(activeExports)
                n == Cardinality(activeExports')
    <3>1. n \in Nat
      BY <2>2, <2>6, FS_RemoveElement, FS_AddElement, FS_CardinalityType
    <3>. HIDE DEF m, n
    <3>2. m \in Nat /\ n >= m /\ m >= maxConcurrentExports
      BY <2>6, <2>7 DEF m, n
    <3>3. n >= maxConcurrentExports /\ n \in Int
      BY <3>1, <3>2
    <3>. QED
      BY <3>3 DEF n
  <2>. QED
    BY <2>5, <2>8 DEF NoIdleSlot, SlotFree
<1>. QED
  BY <1>1, <1>2

LEMMA ServedNext ==
  ASSUME SlotInv, [Next]_vars, ~taken' PROVE NoIdleSlot' /\ QueuedStillWaiting'
<1>. USE DEF Running
<1>0. ~taken
  BY DEF Next, ExportProject, EnqueueExport, CheckSlot, FgEnds, BgEnds, ScheduledCleanup, vars,
         SlotInv, QueueInv, TypeOK
<1>q. /\ exportQueue \in Seq(Exports) /\ bg \in [Exports -> {"none"} \cup Running]
      /\ \A i \in DOMAIN exportQueue : exportQueue[i] \in Exports
      /\ \A i \in DOMAIN exportQueue :
           fg[exportQueue[i]] = "waiting" /\ bg[exportQueue[i]] = "none"
  BY <1>0, ElementOfSeq DEF SlotInv, QueueInv, TypeOK, QueuedStillWaiting
<1>1. ASSUME NEW e \in Exports, ExportProject(e) PROVE NoIdleSlot' /\ QueuedStillWaiting'
  BY <1>0, <1>1, <1>q
     DEF ExportProject, SlotInv, QueueInv, TypeOK, NoIdleSlot, QueuedStillWaiting,
         SlotFree
<1>2. ASSUME NEW e \in Exports, EnqueueExport(e) PROVE NoIdleSlot' /\ QueuedStillWaiting'
  <2>1. CASE TakeSlot(e) /\ UNCHANGED <<exportQueue, priority>>
    <3>1. exportQueue = <<>>
      BY <1>0, <2>1 DEF TakeSlot, SlotInv, NoIdleSlot
    <3>. QED
      BY <2>1, <3>1 DEF NoIdleSlot, QueuedStillWaiting
  <2>2. CASE ~TakeSlot(e) \/ ~UNCHANGED <<exportQueue, priority>>
    <3>1. PICK p \in Priorities :
            exportQueue' = [i \in 1 .. Len(exportQueue) + 1 |->
                             IF i <= Ahead(p) THEN exportQueue[i]
                             ELSE IF i = Ahead(p) + 1 THEN e ELSE exportQueue[i - 1]]
      BY <1>2, <2>2 DEF EnqueueExport
    <3>2. /\ ~SlotFree /\ fg[e] = "accepted" /\ fg' = [fg EXCEPT ![e] = "waiting"]
          /\ UNCHANGED <<activeExports, bg, taken>>
      BY <1>2, <2>2 DEF EnqueueExport
    <3>3. /\ Len(exportQueue) \in Nat /\ Ahead(p) \in Nat /\ Ahead(p) <= Len(exportQueue)
          /\ DOMAIN exportQueue = 1 .. Len(exportQueue)
      BY <1>q, AheadInQueue DEF SlotInv, QueueInv
    <3>4. \A i \in DOMAIN exportQueue' :
            \/ exportQueue'[i] = e
            \/ \E j \in DOMAIN exportQueue : exportQueue'[i] = exportQueue[j]
      <4>. TAKE i \in DOMAIN exportQueue'
      <4>1. i \in 1 .. Len(exportQueue) + 1
        BY <3>1
      <4>2. CASE i <= Ahead(p)
        BY <3>1, <3>3, <4>1, <4>2
      <4>3. CASE i = Ahead(p) + 1
        BY <3>1, <3>3, <4>1, <4>3
      <4>4. CASE i > Ahead(p) + 1
        <5>1. i - 1 \in DOMAIN exportQueue
          BY <3>3, <4>1, <4>4
        <5>2. exportQueue'[i] = exportQueue[i - 1]
          BY <3>1, <3>3, <4>1, <4>4
        <5>. QED
          BY <5>1, <5>2
      <4>. QED
        BY <3>3, <4>1, <4>2, <4>3, <4>4
    <3>5. bg[e] = "none"
      BY <3>2 DEF SlotInv, QueueInv, NotYetQueued
    <3>6. QueuedStillWaiting'
      BY <1>q, <3>2, <3>4, <3>5 DEF QueuedStillWaiting, SlotInv, QueueInv, TypeOK
    <3>. QED
      BY <3>2, <3>6 DEF NoIdleSlot, SlotFree
  <2>. QED
    BY <2>1, <2>2
<1>3. ASSUME NEW e \in Exports, CheckSlot(e) PROVE NoIdleSlot' /\ QueuedStillWaiting'
  <2>1. exportQueue = <<>> /\ exportQueue' = <<>>
    BY <1>0, <1>3 DEF CheckSlot, TakeSlot, SlotInv, NoIdleSlot
  <2>. QED
    BY <2>1 DEF NoIdleSlot, QueuedStillWaiting
<1>4. ASSUME NEW e \in Exports, FgEnds(e) PROVE NoIdleSlot' /\ QueuedStillWaiting'
  <2>1. /\ Release(e, bg) /\ fg[e] \in Running /\ UNCHANGED taken
        /\ \A d \in Exports \ {e} : fg'[d] = fg[d]
    BY <1>4 DEF FgEnds, SlotInv, QueueInv, TypeOK
  <2>. QED
    BY <1>0, <1>q, <2>1, ReleaseHandsOver
<1>5. ASSUME NEW e \in Exports, BgEnds(e) PROVE NoIdleSlot' /\ QueuedStillWaiting'
  <2>. DEFINE bgs == [bg EXCEPT ![e] = "none"]
  <2>1. /\ bgs \in [Exports -> {"none"} \cup Running] /\ Release(e, bgs)
        /\ bg[e] \in Running /\ UNCHANGED taken
        /\ \A d \in Exports \ {e} : fg'[d] = fg[d] /\ bgs[d] = bg[d]
    BY <1>5, <1>q DEF BgEnds
  <2>. QED
    BY <1>0, <2>1, ReleaseHandsOver
<1>6. CASE ScheduledCleanup
  <2>1. UNCHANGED <<activeExports, fg, bg>>
    BY <1>6 DEF ScheduledCleanup
  <2>2. /\ exportQueue' \in Seq(Exports) /\ Len(exportQueue') <= Len(exportQueue)
        /\ \A i \in 1 .. Len(exportQueue') : exportQueue'[i] = exportQueue[i]
    BY <1>6, TrimmedQueue DEF ScheduledCleanup, SlotInv, QueueInv
  <2>3. \A i \in DOMAIN exportQueue' : i \in DOMAIN exportQueue /\ exportQueue'[i] = exportQueue[i]
    BY <1>q, <2>2
  <2>4. exportQueue' # <<>> => exportQueue # <<>>
    BY <2>2
  <2>. QED
    BY <1>0, <1>q, <2>1, <2>3, <2>4 DEF SlotInv, NoIdleSlot, QueuedStillWaiting, SlotFree
<1>7. CASE UNCHANGED vars
  BY <1>7 DEF vars, SlotInv, NoIdleSlot, QueuedStillWaiting, SlotFree
<1>. QED
  BY <1>1, <1>2, <1>3, <1>4, <1>5, <1>6, <1>7 DEF Next

LEMMA SlotInvariant == Spec => []SlotInv
<1>1. Init => SlotInv
  BY QueueInit DEF Init, SlotInv, SlotsReturned, NoIdleSlot, QueuedStillWaiting
<1>2. SlotInv /\ [Next]_vars => SlotInv'
  <2>. SUFFICES ASSUME SlotInv, [Next]_vars PROVE SlotInv'
    OBVIOUS
  <2>1. QueueInv' /\ SlotsReturned'
    BY QueueNext, SlotsNext DEF SlotInv
  <2>2. NoIdleSlot' /\ QueuedStillWaiting'
    BY ServedNext DEF NoIdleSlot, QueuedStillWaiting
  <2>. QED
    BY <2>1, <2>2 DEF SlotInv
<1>. QED
  BY <1>1, <1>2, PTL DEF Spec

\* No export queues while a slot is free, as long as the cleanup has taken no
\* slot: the poll of a request may find one only when nobody queues.
THEOREM QueueServed == Spec => []NoIdleSlot
<1>. SlotInv => NoIdleSlot
  BY DEF SlotInv
<1>. QED
  BY SlotInvariant, PTL

\* A queued export belongs to a request that still waits for it, as long as the
\* cleanup has taken no slot: no export is processed for nobody.
THEOREM QueueWaiting == Spec => []QueuedStillWaiting
<1>. SlotInv => QueuedStillWaiting
  BY DEF SlotInv
<1>. QED
  BY SlotInvariant, PTL

-----------------------------------------------------------------------------
\* The order of the queue.

LEMMA PrioritiesAreNumbers == ASSUME NEW x \in Priorities PROVE x \in Int
<1>1. x = 1 \/ x = 2 \/ x = 3
  OBVIOUS
<1>. QED
  BY <1>1

\* In a sorted queue the exports that are at least as urgent are those in front.
LEMMA AheadIsPrefix ==
  ASSUME TypeOK, QueueSorted, NEW p \in Priorities, NEW i \in DOMAIN exportQueue
  PROVE  i <= Ahead(p) <=> priority[exportQueue[i]] >= p
<1>. DEFINE n == Len(exportQueue)
            S == {j \in DOMAIN exportQueue : priority[exportQueue[j]] >= p}
<1>1. /\ n \in Nat /\ DOMAIN exportQueue = 1 .. n /\ i \in 1 .. n
      /\ \A j \in 1 .. n : priority[exportQueue[j]] \in Int
  <2>1. exportQueue \in Seq(Exports) /\ priority \in [Exports -> Priorities]
    BY DEF TypeOK
  <2>2. ASSUME NEW j \in 1 .. n PROVE priority[exportQueue[j]] \in Int
    <3>1. exportQueue[j] \in Exports
      BY <2>1, ElementOfSeq
    <3>2. priority[exportQueue[j]] \in Priorities
      BY <2>1, <3>1
    <3>. QED
      BY <3>2, PrioritiesAreNumbers
  <2>3. n \in Nat /\ DOMAIN exportQueue = 1 .. n
    BY <2>1
  <2>. QED
    BY <2>2, <2>3
<1>2. IsFiniteSet(S) /\ Cardinality(S) \in Nat /\ Ahead(p) = Cardinality(S)
  <2>1. IsFiniteSet(1 .. n)
    BY <1>1, FS_Interval
  <2>2. IsFiniteSet(S)
    BY <1>1, <2>1, FS_Subset
  <2>. QED
    BY <2>2, FS_CardinalityType DEF Ahead
<1>3. p \in Int
  OBVIOUS
<1>. HIDE DEF n, S
<1>4. CASE priority[exportQueue[i]] >= p
  <2>1. \A j \in 1 .. i : priority[exportQueue[j]] >= p
    BY <1>1, <1>3, <1>4 DEF QueueSorted
  <2>2. 1 .. i \subseteq S
    BY <1>1, <2>1 DEF S
  <2>3. Cardinality(1 .. i) = i
    BY <1>1, FS_Interval
  <2>4. i <= Cardinality(S)
    BY <1>2, <2>2, <2>3, FS_Subset
  <2>. QED
    BY <1>2, <1>4, <2>4
<1>5. CASE ~(priority[exportQueue[i]] >= p)
  <2>1. \A j \in 1 .. n : priority[exportQueue[j]] >= p => j < i
    BY <1>1, <1>3, <1>5 DEF QueueSorted
  <2>2. S \subseteq 1 .. i - 1
    BY <1>1, <2>1 DEF S
  <2>3. IsFiniteSet(1 .. i - 1) /\ Cardinality(1 .. i - 1) = i - 1
    BY <1>1, FS_Interval
  <2>4. Cardinality(S) <= i - 1
    BY <2>2, <2>3, FS_Subset
  <2>5. Cardinality(S) < i
    BY <1>1, <1>2, <2>4
  <2>. QED
    BY <1>1, <1>2, <1>5, <2>5
<1>. QED
  BY <1>4, <1>5

LEMMA SortedNext == QueueInv /\ QueueSorted /\ [Next]_vars => QueueSorted'
<1>. SUFFICES ASSUME QueueInv, QueueSorted, [Next]_vars PROVE QueueSorted'
  OBVIOUS
<1>0. /\ Len(exportQueue) \in Nat /\ DOMAIN exportQueue = 1 .. Len(exportQueue)
      /\ \A i \in DOMAIN exportQueue : /\ exportQueue[i] \in Exports
                                      /\ priority[exportQueue[i]] \in Priorities
  <2>1. exportQueue \in Seq(Exports)
    BY DEF QueueInv, TypeOK
  <2>2. \A i \in DOMAIN exportQueue : exportQueue[i] \in Exports
    BY <2>1, ElementOfSeq
  <2>3. priority \in [Exports -> Priorities]
    BY DEF QueueInv, TypeOK
  <2>. QED
    BY <2>1, <2>2, <2>3
<1>1. CASE UNCHANGED <<exportQueue, priority>>
  BY <1>1 DEF QueueSorted
<1>2. ASSUME NEW e \in Exports, EnqueueExport(e), ~UNCHANGED <<exportQueue, priority>>
      PROVE  QueueSorted'
  <2>1. PICK p \in Priorities :
          /\ priority' = [priority EXCEPT ![e] = p]
          /\ exportQueue' = [i \in 1 .. Len(exportQueue) + 1 |->
                               IF i <= Ahead(p) THEN exportQueue[i]
                               ELSE IF i = Ahead(p) + 1 THEN e ELSE exportQueue[i - 1]]
    BY <1>2 DEF EnqueueExport
  <2>2. \A i \in DOMAIN exportQueue : exportQueue[i] # e
    BY <1>2 DEF EnqueueExport, QueueInv, NotYetQueued
  <2>3. /\ DOMAIN exportQueue' = 1 .. Len(exportQueue) + 1
        /\ Ahead(p) \in Nat /\ Ahead(p) <= Len(exportQueue)
    BY <2>1, <1>0, AheadInQueue DEF QueueInv
  <2>4. /\ \A i \in DOMAIN exportQueue : priority'[exportQueue[i]] = priority[exportQueue[i]]
        /\ priority'[e] = p
    BY <1>0, <2>1, <2>2 DEF QueueInv, TypeOK
  <2>. DEFINE u(i) == priority'[exportQueue'[i]]
              v(i) == priority[exportQueue[i]]
  <2>5. \A i \in 1 .. Len(exportQueue) + 1 :
          u(i) = IF i <= Ahead(p) THEN v(i) ELSE IF i = Ahead(p) + 1 THEN p ELSE v(i - 1)
    <3>. TAKE i \in 1 .. Len(exportQueue) + 1
    <3>1. CASE i <= Ahead(p)
      BY <1>0, <2>1, <2>3, <2>4, <3>1
    <3>2. CASE i = Ahead(p) + 1
      BY <1>0, <2>1, <2>3, <2>4, <3>2
    <3>3. CASE i > Ahead(p) + 1
      <4>1. i - 1 \in DOMAIN exportQueue
        BY <1>0, <2>3, <3>3
      <4>2. exportQueue'[i] = exportQueue[i - 1]
        BY <2>1, <2>3, <3>3
      <4>. QED
        BY <2>3, <2>4, <3>3, <4>1, <4>2
    <3>. QED
      BY <2>3, <3>1, <3>2, <3>3
  <2>6. \A i \in 1 .. Len(exportQueue) : i <= Ahead(p) <=> v(i) >= p
    BY <1>0, AheadIsPrefix DEF QueueInv
  <2>7. \A i, j \in 1 .. Len(exportQueue) : i <= j => v(i) >= v(j)
    BY <1>0 DEF QueueSorted
  <2>8. p \in Int /\ \A i \in 1 .. Len(exportQueue) : v(i) \in Int
    <3>1. ASSUME NEW i \in 1 .. Len(exportQueue) PROVE v(i) \in Int
      <4>1. v(i) \in Priorities
        BY <1>0
      <4>. QED
        BY <4>1, PrioritiesAreNumbers
    <3>. QED
      BY <3>1, PrioritiesAreNumbers
  <2>. HIDE DEF u, v
  <2>9. \A i, j \in 1 .. Len(exportQueue) + 1 : i <= j => u(i) >= u(j)
    <3>. SUFFICES ASSUME NEW i \in 1 .. Len(exportQueue) + 1,
                         NEW j \in 1 .. Len(exportQueue) + 1, i <= j
                  PROVE  u(i) >= u(j)
      OBVIOUS
    <3>1. CASE j <= Ahead(p)
      BY <1>0, <2>3, <2>5, <2>7, <3>1
    <3>2. CASE j = Ahead(p) + 1
      BY <1>0, <2>3, <2>5, <2>6, <2>8, <3>2
    <3>3. CASE j > Ahead(p) + 1
      <4>1. j - 1 \in 1 .. Len(exportQueue) /\ u(j) = v(j - 1) /\ v(j - 1) \in Int /\ ~(v(j - 1) >= p)
        BY <1>0, <2>3, <2>5, <2>6, <2>8, <3>3
      <4>2. CASE i <= Ahead(p)
        BY <1>0, <2>3, <2>5, <2>7, <4>1, <4>2, <3>3
      <4>3. CASE i = Ahead(p) + 1
        BY <2>3, <2>5, <2>8, <4>1, <4>3
      <4>4. CASE i > Ahead(p) + 1
        <5>1. i - 1 \in 1 .. Len(exportQueue) /\ u(i) = v(i - 1) /\ i - 1 <= j - 1
          BY <1>0, <2>3, <2>5, <4>4
        <5>. QED
          BY <2>7, <4>1, <5>1
      <4>. QED
        BY <2>3, <4>2, <4>3, <4>4
    <3>. QED
      BY <2>3, <3>1, <3>2, <3>3
  <2>. QED
    BY <2>3, <2>9 DEF QueueSorted, u
<1>3. ASSUME exportQueue # <<>>, exportQueue' = Tail(exportQueue), UNCHANGED priority
      PROVE  QueueSorted'
  <2>1. \A i \in DOMAIN exportQueue' :
          i + 1 \in DOMAIN exportQueue /\ exportQueue'[i] = exportQueue[i + 1]
    BY <1>3, ReleasedHead
  <2>2. DOMAIN exportQueue' = 1 .. Len(exportQueue')
    BY <1>3, HeadTailProperties DEF QueueInv, TypeOK
  <2>3. ASSUME NEW i \in DOMAIN exportQueue', NEW j \in DOMAIN exportQueue', i <= j
        PROVE  priority'[exportQueue'[i]] >= priority'[exportQueue'[j]]
    <3>1. i + 1 \in DOMAIN exportQueue /\ j + 1 \in DOMAIN exportQueue /\ i + 1 <= j + 1
      BY <2>1, <2>2, <2>3
    <3>. QED
      BY <1>3, <2>1, <3>1 DEF QueueSorted
  <2>. QED
    BY <2>3 DEF QueueSorted
<1>4. ASSUME NEW e \in Exports, NEW bgs, Release(e, bgs), UNCHANGED priority
      PROVE  QueueSorted'
  BY <1>1, <1>3, <1>4 DEF Release
<1>5. CASE ScheduledCleanup
  <2>1. /\ exportQueue' \in Seq(Exports) /\ Len(exportQueue') <= Len(exportQueue)
        /\ \A i \in 1 .. Len(exportQueue') : exportQueue'[i] = exportQueue[i]
    BY <1>5, TrimmedQueue DEF ScheduledCleanup, QueueInv
  <2>2. \A i \in DOMAIN exportQueue' : i \in DOMAIN exportQueue /\ exportQueue'[i] = exportQueue[i]
    BY <1>0, <2>1
  <2>. QED
    BY <1>5, <2>2 DEF QueueSorted, ScheduledCleanup
<1>. QED
  BY <1>1, <1>2, <1>4, <1>5
     DEF Next, ExportProject, CheckSlot, FgEnds, BgEnds, vars

\* The queue is sorted at all times, though exports come and go in any order:
\* inserting behind those at least as urgent is what pushing and sorting does.
THEOREM MostUrgentFirst == Spec => []QueueSorted
<1>1. Init => QueueSorted
  BY DEF Init, QueueSorted
<1>. QED
  BY <1>1, QueueInvariant, SortedNext, PTL DEF Spec

-----------------------------------------------------------------------------
\* Nobody waits for nobody.

\* A request that polls finds a slot, or some export runs that will give one back.
SomebodyRuns ==
  \A e \in Exports : fg[e] = "waiting" =>
    SlotFree \/ \E d \in Exports : fg[d] \in Running \/ bg[d] \in Running

\* For any number of slots and exports, and whatever the cleanup took: when all
\* slots are held, one of them is held by an export that runs, in the foreground
\* or in the background, and whose end releases it (waitForExportSlot,
\* releaseExportSlot).  No requests can all wait for each other.
THEOREM NobodyWaitsForNobody == Spec => []SomebodyRuns
<1>1. QueueInv /\ SlotsReturned => SomebodyRuns
  <2>. SUFFICES ASSUME QueueInv, SlotsReturned, ~SlotFree
                PROVE  \E d \in Exports : fg[d] \in Running \/ bg[d] \in Running
    BY DEF SomebodyRuns
  <2>1. activeExports # {}
    <3>1. Cardinality({}) = 0
      BY FS_EmptySet
    <3>. QED BY <3>1, SlotsAssumption DEF SlotFree
  <2>2. activeExports \subseteq Exports
    BY DEF QueueInv, TypeOK
  <2>. QED BY <2>1, <2>2 DEF SlotsReturned
<1>. QED BY <1>1, NoSlotLeaks, QueueInvariant, PTL

-----------------------------------------------------------------------------
\* An export is run twice at most.

Queued(e) == \E i \in DOMAIN exportQueue : exportQueue[i] = e

\* What is queued has no run in the background yet, whatever the cleanup took.
QueuedUnstarted == \A e \in Exports : Queued(e) => bg[e] = "none"

\* The steps a request, and the run in the background, have left at most.
RequestLeft(e) ==
  CASE fg[e] = "accepted" -> 3 [] fg[e] = "waiting" -> 2 [] fg[e] = "processing" -> 1
    [] OTHER -> 0
BackgroundLeft(e) ==
  CASE bg[e] = "processing" -> 1
    [] bg[e] = "none" /\ (fg[e] = "accepted" \/ Queued(e)) -> 2
    [] OTHER -> 0

\* Neither is started anew for the same call; what the fairness drives brings them
\* to an end.
RunTwiceAtMost ==
  [][\A e \in Exports :
       ~ExportProject(e) =>
         /\ RequestLeft(e)' <= RequestLeft(e) /\ BackgroundLeft(e)' <= BackgroundLeft(e)
         /\ EnqueueExport(e) \/ CheckSlot(e) \/ FgEnds(e) => RequestLeft(e)' < RequestLeft(e)
         /\ BgEnds(e) => BackgroundLeft(e)' < BackgroundLeft(e)]_vars

\* A release starts what was queued, and nothing else, and it is queued no more.
LEMMA ReleaseStartsQueued ==
  ASSUME QueueInv, NEW e \in Exports, NEW bgs \in [Exports -> {"none"} \cup Running],
         Release(e, bgs), NEW d \in Exports
  PROVE  /\ Queued(d)' => Queued(d)
         /\ \/ bg'[d] = bgs[d]
            \/ Queued(d) /\ ~Queued(d)' /\ bg'[d] = "processing"
<1>1. CASE exportQueue = <<>>
  BY <1>1 DEF Release, Queued
<1>2. CASE exportQueue # <<>>
  <2>1. /\ exportQueue' = Tail(exportQueue)
        /\ bg' = [bgs EXCEPT ![Head(exportQueue)] = "processing"]
    BY <1>2 DEF Release
  <2>2. /\ Head(exportQueue) = exportQueue[1] /\ 1 \in DOMAIN exportQueue
        /\ \A i \in DOMAIN exportQueue' : i + 1 \in DOMAIN exportQueue
                                            /\ exportQueue'[i] = exportQueue[i + 1]
                                            /\ exportQueue'[i] # Head(exportQueue)
    BY <1>2, <2>1, ReleasedHead
  <2>3. CASE d = Head(exportQueue)
    BY <2>1, <2>2, <2>3 DEF Queued
  <2>4. CASE d # Head(exportQueue)
    BY <2>1, <2>2, <2>4 DEF Queued
  <2>. QED BY <2>3, <2>4
<1>. QED BY <1>1, <1>2

\* How a step moves export d.
FgMove(d) ==
  \/ fg'[d] = fg[d]
  \/ ExportProject(d)
  \/ fg[d] = "accepted" /\ fg'[d] \in {"waiting", "processing"}
  \/ fg[d] = "waiting" /\ fg'[d] = "processing"
  \/ fg[d] = "processing" /\ fg'[d] = "idle"
BgMove(d) ==
  \/ bg'[d] = bg[d] /\ (Queued(d)' => Queued(d))
  \/ bg'[d] = bg[d] /\ fg[d] = "accepted" /\ fg'[d] = "waiting"
  \/ bg'[d] = "processing" /\ Queued(d) /\ ~Queued(d)'
  \/ bg[d] \in Running /\ bg'[d] = "none" /\ (Queued(d)' => Queued(d))

LEMMA StaysUnstarted ==
  ASSUME QueueInv, QueuedUnstarted, NEW d \in Exports, BgMove(d)
  PROVE  Queued(d)' => bg'[d] = "none"
<1>1. (Queued(d) => bg[d] = "none") /\ (fg[d] = "accepted" => bg[d] = "none")
  BY DEF QueueInv, NotYetQueued, QueuedUnstarted
<1>. HIDE DEF Queued
<1>. QED BY <1>1 DEF BgMove

LEMMA MovesRunDown ==
  ASSUME QueueInv, QueuedUnstarted, NEW d \in Exports, FgMove(d), BgMove(d), ~ExportProject(d)
  PROVE  /\ RequestLeft(d)' <= RequestLeft(d) /\ BackgroundLeft(d)' <= BackgroundLeft(d)
         /\ fg'[d] # fg[d] => RequestLeft(d)' < RequestLeft(d)
         /\ bg'[d] # bg[d] => BackgroundLeft(d)' < BackgroundLeft(d)
<1>1. /\ fg[d] \in {"idle", "accepted", "waiting"} \cup Running
      /\ bg[d] \in {"none"} \cup Running
      /\ Queued(d) => bg[d] = "none"
      /\ fg[d] = "accepted" => bg[d] = "none"
  BY DEF QueueInv, TypeOK, NotYetQueued, QueuedUnstarted
<1>. HIDE DEF Queued
<1>2. RequestLeft(d)' <= RequestLeft(d) /\ (fg'[d] # fg[d] => RequestLeft(d)' < RequestLeft(d))
  BY <1>1 DEF FgMove, RequestLeft, Running
<1>3. fg'[d] = "accepted" => fg[d] = "accepted"
  BY DEF FgMove
<1>4. CASE bg'[d] = bg[d]
  <2>1. Queued(d)' => Queued(d) \/ fg[d] = "accepted"
    BY <1>1, <1>4 DEF BgMove, Running
  <2>. QED BY <1>1, <1>2, <1>3, <1>4, <2>1 DEF BackgroundLeft, Running
<1>5. CASE bg'[d] # bg[d]
  <2>1. \/ bg[d] = "none" /\ bg'[d] = "processing" /\ Queued(d)
        \/ bg[d] = "processing" /\ bg'[d] = "none" /\ ~Queued(d)' /\ fg'[d] # "accepted"
    BY <1>1, <1>3, <1>5 DEF BgMove, Running
  <2>2. BackgroundLeft(d)' < BackgroundLeft(d)
    BY <2>1 DEF BackgroundLeft
  <2>3. BackgroundLeft(d) \in 0 .. 2 /\ BackgroundLeft(d)' \in 0 .. 2
    BY DEF BackgroundLeft
  <2>. QED BY <1>2, <2>2, <2>3
<1>. QED BY <1>4, <1>5

LEMMA ExportsMove ==
  ASSUME QueueInv, [Next]_vars, NEW d \in Exports
  PROVE  FgMove(d) /\ BgMove(d)
<1>. USE DEF FgMove
<1>0. /\ fg \in [Exports -> {"idle", "accepted", "waiting"} \cup Running]
      /\ bg \in [Exports -> {"none"} \cup Running]
  BY DEF QueueInv, TypeOK
<1>1. exportQueue' = exportQueue => (Queued(d)' => Queued(d))
  BY DEF Queued
<1>2. ASSUME NEW e \in Exports, ExportProject(e) PROVE FgMove(d) /\ BgMove(d)
  BY <1>0, <1>1, <1>2 DEF ExportProject, BgMove
<1>3. ASSUME NEW e \in Exports, EnqueueExport(e) PROVE FgMove(d) /\ BgMove(d)
  <2>1. FgMove(d) /\ bg' = bg
    BY <1>0, <1>3 DEF EnqueueExport, TakeSlot
  <2>2. CASE exportQueue' = exportQueue
    BY <1>1, <2>1, <2>2 DEF BgMove
  <2>3. CASE exportQueue' # exportQueue
    <3>1. PICK p \in Priorities :
            exportQueue' = [i \in 1 .. Len(exportQueue) + 1 |->
                              IF i <= Ahead(p) THEN exportQueue[i]
                              ELSE IF i = Ahead(p) + 1 THEN e ELSE exportQueue[i - 1]]
      BY <1>3, <2>3 DEF EnqueueExport
    <3>2. fg[e] = "accepted" /\ fg' = [fg EXCEPT ![e] = "waiting"]
      BY <1>3, <2>3 DEF EnqueueExport
    <3>3. CASE d = e
      BY <1>0, <2>1, <3>2, <3>3 DEF BgMove
    <3>4. CASE d # e
      <4>1. /\ Ahead(p) \in Nat /\ Ahead(p) <= Len(exportQueue) /\ Len(exportQueue) \in Nat
            /\ DOMAIN exportQueue = 1 .. Len(exportQueue)
            /\ DOMAIN exportQueue' = 1 .. Len(exportQueue) + 1
        BY <3>1, AheadInQueue DEF QueueInv, TypeOK
      <4>2. ASSUME NEW i \in DOMAIN exportQueue', exportQueue'[i] = d PROVE Queued(d)
        <5>1. CASE i <= Ahead(p)
          BY <3>1, <4>1, <4>2, <5>1 DEF Queued
        <5>2. CASE i > Ahead(p)
          <6>1. i # Ahead(p) + 1 /\ exportQueue'[i] = exportQueue[i - 1]
            BY <3>1, <3>4, <4>1, <4>2, <5>2
          <6>2. i - 1 \in DOMAIN exportQueue
            BY <4>1, <5>2, <6>1
          <6>. QED BY <4>2, <6>1, <6>2 DEF Queued
        <5>. QED BY <4>1, <5>1, <5>2
      <4>3. Queued(d)' => Queued(d)
        BY <4>2 DEF Queued
      <4>. QED BY <2>1, <4>3 DEF BgMove
    <3>. QED BY <3>3, <3>4
  <2>. QED BY <2>2, <2>3
<1>4. ASSUME NEW e \in Exports, CheckSlot(e) PROVE FgMove(d) /\ BgMove(d)
  BY <1>0, <1>1, <1>4 DEF CheckSlot, TakeSlot, BgMove
<1>5. ASSUME NEW e \in Exports, FgEnds(e) PROVE FgMove(d) /\ BgMove(d)
  <2>1. FgMove(d) /\ Release(e, bg)
    BY <1>0, <1>5 DEF FgEnds, Running
  <2>2. /\ Queued(d)' => Queued(d)
        /\ bg'[d] = bg[d] \/ (Queued(d) /\ ~Queued(d)' /\ bg'[d] = "processing")
    BY <1>0, <2>1, ReleaseStartsQueued
  <2>. QED BY <2>1, <2>2 DEF BgMove
<1>6. ASSUME NEW e \in Exports, BgEnds(e) PROVE FgMove(d) /\ BgMove(d)
  <2>. DEFINE bgs == [bg EXCEPT ![e] = "none"]
  <2>1. bgs \in [Exports -> {"none"} \cup Running] /\ Release(e, bgs) /\ fg' = fg
    BY <1>0, <1>6 DEF BgEnds
  <2>2. bgs[d] = bg[d] \/ (bg[d] \in Running /\ bgs[d] = "none")
    BY <1>0, <1>6 DEF BgEnds
  <2>. HIDE DEF bgs
  <2>3. /\ Queued(d)' => Queued(d)
        /\ bg'[d] = bgs[d] \/ (Queued(d) /\ ~Queued(d)' /\ bg'[d] = "processing")
    BY <2>1, ReleaseStartsQueued
  <2>. QED BY <2>1, <2>2, <2>3 DEF BgMove
<1>7. CASE ScheduledCleanup
  <2>1. /\ exportQueue' \in Seq(Exports) /\ Len(exportQueue') <= Len(exportQueue)
        /\ \A i \in 1 .. Len(exportQueue') : exportQueue'[i] = exportQueue[i]
    BY <1>7, TrimmedQueue DEF ScheduledCleanup, QueueInv
  <2>2. \A i \in DOMAIN exportQueue' : i \in DOMAIN exportQueue /\ exportQueue'[i] = exportQueue[i]
    BY <2>1, SMTT(20) DEF QueueInv, TypeOK
  <2>3. Queued(d)' => Queued(d)
    BY <2>2 DEF Queued
  <2>. QED BY <1>7, <2>3 DEF ScheduledCleanup, BgMove
<1>8. CASE UNCHANGED vars
  BY <1>1, <1>8 DEF vars, BgMove
<1>. QED BY <1>2, <1>3, <1>4, <1>5, <1>6, <1>7, <1>8 DEF Next

\* However polls, releases and the cleanup race for a queued export, one call is
\* run once by its request and at most once in the background, and neither run
\* goes back (waitForExportSlot, releaseExportSlot).  With NobodyWaitsForNobody
\* and runs that end (the fairness) this is why every request is answered once
\* newer calls stop taking the slots.
THEOREM ExportedTwiceAtMost == Spec => []QueuedUnstarted /\ RunTwiceAtMost
<1>1. Init => QueuedUnstarted
  BY DEF Init, QueuedUnstarted
<1>2. QueueInv /\ QueuedUnstarted /\ [Next]_vars => QueuedUnstarted'
  BY ExportsMove, StaysUnstarted DEF QueuedUnstarted
<1>3. QueueInv /\ QueuedUnstarted /\ [Next]_vars =>
        [\A e \in Exports :
           ~ExportProject(e) =>
             /\ RequestLeft(e)' <= RequestLeft(e) /\ BackgroundLeft(e)' <= BackgroundLeft(e)
             /\ EnqueueExport(e) \/ CheckSlot(e) \/ FgEnds(e) => RequestLeft(e)' < RequestLeft(e)
             /\ BgEnds(e) => BackgroundLeft(e)' < BackgroundLeft(e)]_vars
  <2>. SUFFICES ASSUME QueueInv, QueuedUnstarted, Next, NEW e \in Exports, ~ExportProject(e)
                PROVE  /\ RequestLeft(e)' <= RequestLeft(e)
                       /\ BackgroundLeft(e)' <= BackgroundLeft(e)
                       /\ EnqueueExport(e) \/ CheckSlot(e) \/ FgEnds(e)
                            => RequestLeft(e)' < RequestLeft(e)
                       /\ BgEnds(e) => BackgroundLeft(e)' < BackgroundLeft(e)
    OBVIOUS
  <2>1. /\ RequestLeft(e)' <= RequestLeft(e) /\ BackgroundLeft(e)' <= BackgroundLeft(e)
        /\ fg'[e] # fg[e] => RequestLeft(e)' < RequestLeft(e)
        /\ bg'[e] # bg[e] => BackgroundLeft(e)' < BackgroundLeft(e)
    BY ExportsMove, MovesRunDown
  <2>2. EnqueueExport(e) \/ CheckSlot(e) \/ FgEnds(e) => fg'[e] # fg[e]
    <3>1. fg \in [Exports -> {"idle", "accepted", "waiting"} \cup Running]
      BY DEF QueueInv, TypeOK
    <3>2. EnqueueExport(e) \/ CheckSlot(e) => fg'[e] # fg[e]
      BY <3>1, SMTT(20) DEF EnqueueExport, TakeSlot, CheckSlot
    <3>3. FgEnds(e) => fg'[e] # fg[e]
      BY <3>1, SMTT(20) DEF FgEnds, Running
    <3>. QED BY <3>2, <3>3
  <2>3. BgEnds(e) => bg'[e] # bg[e]
    <3>. SUFFICES ASSUME BgEnds(e) PROVE bg'[e] # bg[e]
      OBVIOUS
    <3>. DEFINE bgs == [bg EXCEPT ![e] = "none"]
    <3>1. /\ bgs \in [Exports -> {"none"} \cup Running] /\ Release(e, bgs)
          /\ bg[e] \in Running /\ bgs[e] = "none"
      BY DEF BgEnds, QueueInv, TypeOK
    <3>. HIDE DEF bgs
    <3>2. bg'[e] = "none" \/ Queued(e)
      BY <3>1, ReleaseStartsQueued
    <3>. QED BY <3>1, <3>2 DEF QueuedUnstarted, Running
  <2>. QED BY <2>1, <2>2, <2>3
<1>. QED BY <1>1, <1>2, <1>3, QueueInvariant, PTL DEF Spec, RunTwiceAtMost
=============================================================================
