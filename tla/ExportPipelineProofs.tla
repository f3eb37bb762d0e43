------------------------ MODULE ExportPipelineProofs ------------------------
(***************************************************************************)
(* Proofs about ExportPipeline, for any exports, users, options and files, *)
(* any number of retries and any size of the batches, whatever storage and *)
(* the converters do.                                                      *)
(***************************************************************************)
EXTENDS ExportPipeline, FiniteSetTheorems, TLAPS

-----------------------------------------------------------------------------
\* What holds of a run, by where it is.

Places == {"idle", "cached", "queued", "start", "files", "retrieved", "markdown", "pdf", "pandoc",
           "cleanup", "finalize", "store", "answered"}
Retrieving == {"files", "retrieved", "markdown", "pdf", "pandoc", "cleanup", "finalize", "store"}
Converted == {"pdf", "pandoc", "cleanup", "finalize", "store"}

Shape(r) ==
  /\ DOMAIN r = {"at", "user", "opts", "ids", "upto", "flight", "got", "failed", "temp", "left",
                 "code", "doc"}
  /\ DOMAIN r.opts = {"format", "fileIds", "metadata", "pdfOptions"}
  /\ r.at \in Places

\* Options whose ids have been sorted.
Settled(o) ==
  \E a \in Asked : o.fileIds = KeyIds(a)

\* The files of the batches up to the current one.
Taken(r) == {j \in DOMAIN r.ids : j <= r.upto}
Arrived(r) == ToSet(r.got)

\* Every file that was taken has arrived, has failed or is under way, and is
\* counted once.
Accounted(r) ==
  /\ r.ids = IdsOf(r.opts) /\ r.ids \in Seq(Int)
  /\ r.got \in Seq(DOMAIN r.ids) /\ r.upto \in Nat
  /\ r.failed \subseteq DOMAIN r.ids /\ DOMAIN r.flight \cap r.failed = {}
  /\ Arrived(r) \cup r.failed \cup DOMAIN r.flight = Taken(r)
  /\ Len(r.got) + Cardinality(r.failed) + Cardinality(DOMAIN r.flight) = Cardinality(Taken(r))
  /\ \A i \in r.failed : Nature[r.ids[i]] \in {"missing", "flaky", "garbled"}
  /\ r.at # "files" => DOMAIN r.flight = {} /\ Len(r.ids) <= r.upto

\* A document of what was asked for.
For(doc, user, o) ==
  /\ doc.user = user /\ doc.format = o.format /\ doc.metadata = o.metadata
  /\ ToSet(doc.files) \subseteq ToSet(IdsOf(o))
  /\ \A f \in ToSet(IdsOf(o)) \ ToSet(doc.files) : Nature[f] \in {"missing", "flaky", "garbled"}

RunOK(r) ==
  /\ Shape(r)
  /\ r.at = "cached" => r.opts \in Asked
  /\ r.at \in {"queued", "start"} \/ r.at \in Retrieving => Settled(r.opts)
  /\ r.at \in {"cached", "queued", "start"} => r.got = <<>> /\ r.failed = {}
  /\ r.at # "answered" => r.code # 200
  /\ r.at \in Retrieving => Accounted(r)
  /\ r.at \in Converted \/ (r.at = "answered" /\ r.code = 200) => For(r.doc, r.user, r.opts)
  /\ r.temp # None /\ ~r.left => r.at \in {"pandoc", "cleanup"}

RunsOK == DOMAIN run = Executions /\ \A e \in Executions : RunOK(run[e])

\* What is cached was made for the user and the options its key names.
CachedOK == \A x \in resultCache : For(x.doc, x.key.user, x.key)

RunInv == RunsOK /\ CachedOK

-----------------------------------------------------------------------------
\* Ids and keys.

LEMMA SettledIds ==
  ASSUME NEW o, Settled(o)
  PROVE  KeyIds(o) = o.fileIds /\ IdsOf(o) \in Seq(Int)
<1>1. PICK a \in Asked : o.fileIds = KeyIds(a)
  BY DEF Settled
<1>2. CASE a.fileIds = None
  <2>1. o.fileIds = None
    BY <1>1, <1>2 DEF KeyIds
  <2>. QED BY <2>1, PipelineAssumption DEF KeyIds, IdsOf
<1>3. CASE a.fileIds # None
  <2>. DEFINE sorted == Sort(a.fileIds)
  <2>1. o.fileIds = sorted
    BY <1>1, <1>3 DEF KeyIds
  <2>2. sorted \in Seq(Int) /\ sorted # None /\ Sort(sorted) = sorted
    BY <1>3, SortAssumption
  <2>. HIDE DEF sorted
  <2>. QED BY <2>1, <2>2 DEF KeyIds, IdsOf
<1>. QED BY <1>2, <1>3

LEMMA SameFiles ==
  ASSUME NEW user, NEW o \in Asked
  PROVE  ToSet(IdsOf(ExportKey(user, o))) = ToSet(IdsOf(o))
<1>. DEFINE k == ExportKey(user, o)
<1>1. k.fileIds = KeyIds(o)
  BY DEF ExportKey
<1>. SUFFICES ToSet(IdsOf(k)) = ToSet(IdsOf(o))
  OBVIOUS
<1>. HIDE DEF k
<1>2. CASE o.fileIds = None
  BY <1>1, <1>2 DEF KeyIds, IdsOf
<1>3. CASE o.fileIds # None
  <2>. DEFINE sorted == Sort(o.fileIds)
  <2>1. k.fileIds = sorted
    BY <1>1, <1>3 DEF KeyIds
  <2>2. sorted # None /\ ToSet(sorted) = ToSet(o.fileIds)
    BY <1>3, SortAssumption
  <2>. HIDE DEF sorted
  <2>3. IdsOf(k) = sorted /\ IdsOf(o) = o.fileIds
    BY <1>3, <2>1, <2>2 DEF IdsOf
  <2>. QED BY <2>2, <2>3
<1>. QED BY <1>2, <1>3

\* A document that is cached for a key is one for whoever has this key.
LEMMA HitOK ==
  ASSUME CachedOK, NEW x \in resultCache, NEW user, NEW o \in Asked, x.key = ExportKey(user, o)
  PROVE  For(x.doc, user, o)
<1>1. For(x.doc, x.key.user, x.key)
  BY DEF CachedOK
<1>2. x.key.user = user /\ x.key.format = o.format /\ x.key.metadata = o.metadata
  BY DEF ExportKey
<1>3. ToSet(IdsOf(x.key)) = ToSet(IdsOf(o))
  BY SameFiles
<1>. QED BY <1>1, <1>2, <1>3 DEF For

LEMMA StoredOK ==
  ASSUME NEW doc, NEW user, NEW o, Settled(o), For(doc, user, o)
  PROVE  For(doc, ExportKey(user, o).user, ExportKey(user, o))
<1>. DEFINE k == ExportKey(user, o)
<1>1. k.user = user /\ k.format = o.format /\ k.metadata = o.metadata /\ k.fileIds = o.fileIds
  BY SettledIds DEF ExportKey
<1>. HIDE DEF k
<1>2. IdsOf(k) = IdsOf(o)
  BY <1>1 DEF IdsOf
<1>3. For(doc, k.user, k)
  BY <1>1, <1>2 DEF For
<1>. QED BY <1>3 DEF k

-----------------------------------------------------------------------------
\* Batches.

LEMMA BatchForm ==
  ASSUME NEW ids \in Seq(Int), NEW from \in Nat
  PROVE  DOMAIN Batch(ids, from) = {j \in DOMAIN ids : j > from /\ j <= from + BATCH_SIZE}
BY DEF Batch

LEMMA FinitePositions ==
  ASSUME NEW ids \in Seq(Int), NEW S \in SUBSET (DOMAIN ids)
  PROVE  IsFiniteSet(S)
<1>1. DOMAIN ids = 1 .. Len(ids) /\ Len(ids) \in Nat
  OBVIOUS
<1>2. IsFiniteSet(DOMAIN ids)
  BY <1>1, FS_Interval
<1>. QED BY <1>2, FS_Subset

\* A file arrives or fails for good.
LEMMA LandedForm ==
  ASSUME NEW flight, NEW i \in DOMAIN flight, IsFiniteSet(DOMAIN flight)
  PROVE  /\ DOMAIN Landed(flight, i) = DOMAIN flight \ {i}
         /\ Cardinality(DOMAIN flight) \in Nat
         /\ Cardinality(DOMAIN Landed(flight, i)) \in Nat
         /\ Cardinality(DOMAIN flight) = Cardinality(DOMAIN Landed(flight, i)) + 1
<1>1. DOMAIN Landed(flight, i) = DOMAIN flight \ {i}
  BY DEF Landed
<1>2. /\ IsFiniteSet(DOMAIN flight \ {i})
      /\ Cardinality(DOMAIN flight \ {i}) = Cardinality(DOMAIN flight) - 1
  BY FS_RemoveElement
<1>3. Cardinality(DOMAIN flight) \in Nat /\ Cardinality(DOMAIN flight \ {i}) \in Nat
  BY <1>2, FS_CardinalityType
<1>. QED BY <1>1, <1>2, <1>3

LEMMA Appended ==
  ASSUME NEW D, NEW g \in Seq(D), NEW i \in D
  PROVE  /\ Append(g, i) \in Seq(D) /\ Len(Append(g, i)) = Len(g) + 1 /\ Len(g) \in Nat
         /\ ToSet(Append(g, i)) = ToSet(g) \cup {i}
<1>. DEFINE got == Append(g, i)
<1>1. /\ got \in Seq(D) /\ Len(got) = Len(g) + 1 /\ Len(g) \in Nat
      /\ DOMAIN g = 1 .. Len(g) /\ DOMAIN got = 1 .. (Len(g) + 1)
  OBVIOUS
<1>2. got[Len(g) + 1] = i /\ \A k \in 1 .. Len(g) : got[k] = g[k]
  OBVIOUS
<1>. HIDE DEF got
<1>3. DOMAIN got = DOMAIN g \cup {Len(g) + 1}
  BY <1>1
<1>4. ToSet(got) = ToSet(g) \cup {i}
  BY <1>1, <1>2, <1>3 DEF ToSet
<1>. QED BY <1>1, <1>4 DEF got

-----------------------------------------------------------------------------
\* The steps of a run.  q is what the step makes of the run r.

LEMMA RefusedOK ==
  ASSUME NEW r, NEW code, RunOK(r), r.temp = None \/ r.left, code # 200
  PROVE  RunOK([r EXCEPT !.at = "answered", !.code = code])
<1>. DEFINE q == [r EXCEPT !.at = "answered", !.code = code]
<1>1. /\ DOMAIN q = DOMAIN r /\ q.at = "answered" /\ q.code = code /\ q.opts = r.opts
      /\ q.temp = r.temp /\ q.left = r.left
  BY DEF RunOK, Shape
<1>. SUFFICES RunOK(q)
  OBVIOUS
<1>. HIDE DEF q
<1>2. Shape(q)
  BY <1>1 DEF RunOK, Shape, Places
<1>. QED BY <1>1, <1>2 DEF RunOK, Retrieving, Converted

LEMMA AskedOK ==
  ASSUME NEW user, NEW o \in Asked
  PROVE  /\ RunOK([NoRun EXCEPT !.at = "answered", !.code = 400, !.user = user, !.opts = o])
         /\ RunOK([NoRun EXCEPT !.at = "cached", !.user = user, !.opts = o])
         /\ RunOK(NoRun)
<1>. DEFINE q == [NoRun EXCEPT !.at = "answered", !.code = 400, !.user = user, !.opts = o]
            p == [NoRun EXCEPT !.at = "cached", !.user = user, !.opts = o]
<1>1. /\ Shape(q) /\ q.at = "answered" /\ q.code = 400 /\ q.temp = None
      /\ Shape(p) /\ p.at = "cached" /\ p.code = 0 /\ p.temp = None /\ p.got = <<>> /\ p.failed = {}
      /\ p.opts = o
  BY PipelineAssumption DEF NoRun, Shape, Places
<1>2. /\ Shape(NoRun) /\ NoRun.at = "idle" /\ NoRun.code = 0 /\ NoRun.temp = None
  BY DEF NoRun, NoOptions, Shape, Places
<1>. SUFFICES RunOK(q) /\ RunOK(p) /\ RunOK(NoRun)
  OBVIOUS
<1>. HIDE DEF q, p
<1>. QED BY <1>1, <1>2 DEF RunOK, Retrieving, Converted

LEMMA HitServedOK ==
  ASSUME NEW r, RunOK(r), r.at = "cached", NEW doc, For(doc, r.user, r.opts)
  PROVE  RunOK([r EXCEPT !.at = "answered", !.code = 200, !.doc = doc])
<1>. DEFINE q == [r EXCEPT !.at = "answered", !.code = 200, !.doc = doc]
<1>1. /\ DOMAIN q = DOMAIN r /\ q.at = "answered" /\ q.code = 200 /\ q.opts = r.opts
      /\ q.user = r.user /\ q.doc = doc /\ q.temp = r.temp /\ q.left = r.left
  BY DEF RunOK, Shape
<1>. SUFFICES RunOK(q)
  OBVIOUS
<1>. HIDE DEF q
<1>2. Shape(q)
  BY <1>1 DEF RunOK, Shape, Places
<1>. QED BY <1>1, <1>2 DEF RunOK, Retrieving, Converted

LEMMA StartedOK ==
  ASSUME NEW r, RunOK(r), r.at = "cached", NEW at \in {"queued", "start"}
  PROVE  RunOK([r EXCEPT !.at = at, !.opts.fileIds = KeyIds(r.opts)])
<1>. DEFINE q == [r EXCEPT !.at = at, !.opts.fileIds = KeyIds(r.opts)]
<1>1. /\ DOMAIN q = DOMAIN r /\ q.at = at /\ q.code = r.code /\ q.temp = r.temp
      /\ q.left = r.left /\ q.got = r.got /\ q.failed = r.failed
      /\ DOMAIN q.opts = DOMAIN r.opts /\ q.opts.fileIds = KeyIds(r.opts)
  BY DEF RunOK, Shape
<1>. SUFFICES RunOK(q)
  OBVIOUS
<1>. HIDE DEF q
<1>2. Shape(q)
  BY <1>1 DEF RunOK, Shape, Places
<1>3. Settled(q.opts)
  BY <1>1 DEF Settled, RunOK
<1>. QED BY <1>1, <1>2, <1>3 DEF RunOK, Retrieving, Converted

LEMMA SlotTakenOK ==
  ASSUME NEW r, RunOK(r), r.at = "queued"
  PROVE  RunOK([r EXCEPT !.at = "start"])
<1>. DEFINE q == [r EXCEPT !.at = "start"]
<1>1. /\ DOMAIN q = DOMAIN r /\ q.at = "start" /\ q.code = r.code /\ q.temp = r.temp
      /\ q.left = r.left /\ q.got = r.got /\ q.failed = r.failed /\ q.opts = r.opts
  BY DEF RunOK, Shape
<1>. SUFFICES RunOK(q)
  OBVIOUS
<1>. HIDE DEF q
<1>2. Shape(q)
  BY <1>1 DEF RunOK, Shape, Places
<1>. QED BY <1>1, <1>2 DEF RunOK, Retrieving, Converted

LEMMA FirstBatchOK ==
  ASSUME NEW r, RunOK(r), r.at = "start"
  PROVE  RunOK([r EXCEPT !.at = "files", !.ids = IdsOf(r.opts), !.upto = BATCH_SIZE,
                         !.flight = Batch(IdsOf(r.opts), 0)])
<1>. DEFINE ids == IdsOf(r.opts)
            flight == Batch(ids, 0)
            q == [r EXCEPT !.at = "files", !.ids = ids, !.upto = BATCH_SIZE, !.flight = flight]
<1>0. ids \in Seq(Int) /\ BATCH_SIZE \in Nat
  BY SettledIds, PipelineAssumption DEF RunOK
<1>1. DOMAIN flight = {j \in DOMAIN ids : j > 0 /\ j <= 0 + BATCH_SIZE}
  BY <1>0, BatchForm
<1>. HIDE DEF ids, flight
<1>2. /\ DOMAIN q = DOMAIN r /\ q.at = "files" /\ q.ids = ids /\ q.upto = BATCH_SIZE
      /\ q.flight = flight /\ q.code = r.code /\ q.temp = r.temp /\ q.left = r.left
      /\ q.got = r.got /\ q.failed = r.failed /\ q.opts = r.opts
  BY DEF RunOK, Shape
<1>. HIDE DEF q
<1>3. Shape(q)
  BY <1>2 DEF RunOK, Shape, Places
<1>4. q.got = <<>> /\ q.failed = {}
  BY <1>2 DEF RunOK
<1>5. Taken(q) = DOMAIN flight /\ Arrived(q) = {}
  BY <1>0, <1>1, <1>2, <1>4 DEF Taken, Arrived, ToSet
<1>6. Len(q.got) = 0 /\ Cardinality(q.failed) = 0 /\ Cardinality(DOMAIN flight) \in Nat
  <2>1. IsFiniteSet(DOMAIN flight)
    BY <1>0, <1>1, FinitePositions
  <2>. QED BY <1>4, <2>1, FS_EmptySet, FS_CardinalityType
<1>7. q.got \in Seq(DOMAIN q.ids)
  BY <1>4
<1>8. Accounted(q)
  BY <1>0, <1>2, <1>4, <1>5, <1>6, <1>7 DEF Accounted, ids
<1>9. RunOK(q)
  BY <1>2, <1>3, <1>8 DEF RunOK, Retrieving, Converted
<1>. QED BY <1>9 DEF q, ids, flight

\* A file of the batch arrives.
LEMMA ArrivedOK ==
  ASSUME NEW r, RunOK(r), r.at = "files", NEW i \in DOMAIN r.flight
  PROVE  RunOK([r EXCEPT !.flight = Landed(r.flight, i), !.got = Append(r.got, i)])
<1>. DEFINE landed == Landed(r.flight, i)
            got == Append(r.got, i)
            q == [r EXCEPT !.flight = landed, !.got = got]
<1>1. Shape(r) /\ Accounted(r)
  BY DEF RunOK, Retrieving
<1>2. /\ r.ids \in Seq(Int) /\ r.got \in Seq(DOMAIN r.ids) /\ i \in DOMAIN r.ids
      /\ IsFiniteSet(DOMAIN r.flight) /\ IsFiniteSet(r.failed)
  <2>1. DOMAIN r.flight \subseteq DOMAIN r.ids /\ r.failed \subseteq DOMAIN r.ids
    BY <1>1 DEF Accounted, Taken
  <2>. QED BY <1>1, <2>1, FinitePositions DEF Accounted
<1>3. /\ DOMAIN landed = DOMAIN r.flight \ {i} /\ Cardinality(DOMAIN landed) \in Nat
      /\ Cardinality(DOMAIN r.flight) = Cardinality(DOMAIN landed) + 1
  BY <1>2, LandedForm
<1>4. /\ got \in Seq(DOMAIN r.ids) /\ Len(got) = Len(r.got) + 1 /\ Len(r.got) \in Nat
      /\ ToSet(got) = ToSet(r.got) \cup {i}
  <2>. DEFINE D == DOMAIN r.ids
              g == r.got
  <2>1. g \in Seq(D) /\ i \in D
    BY <1>2
  <2>. HIDE DEF D, g
  <2>2. /\ Append(g, i) \in Seq(D) /\ Len(Append(g, i)) = Len(g) + 1 /\ Len(g) \in Nat
        /\ ToSet(Append(g, i)) = ToSet(g) \cup {i}
    BY <2>1, Appended
  <2>. QED BY <2>2 DEF D, g
<1>. HIDE DEF landed, got
<1>5. /\ DOMAIN q = DOMAIN r /\ q.at = "files" /\ q.ids = r.ids /\ q.upto = r.upto
      /\ q.flight = landed /\ q.code = r.code /\ q.temp = r.temp /\ q.left = r.left
      /\ q.got = got /\ q.failed = r.failed /\ q.opts = r.opts
  BY <1>1 DEF Shape
<1>. HIDE DEF q
<1>6. Shape(q)
  BY <1>1, <1>5 DEF Shape
<1>7. Taken(q) = Taken(r) /\ Arrived(q) = Arrived(r) \cup {i}
  BY <1>4, <1>5 DEF Taken, Arrived
<1>8. Cardinality(r.failed) \in Nat
  BY <1>2, FS_CardinalityType
<1>9. Len(q.got) + Cardinality(q.failed) + Cardinality(DOMAIN q.flight) = Cardinality(Taken(q))
  <2>1. Len(r.got) + Cardinality(r.failed) + Cardinality(DOMAIN r.flight) = Cardinality(Taken(q))
    BY <1>1, <1>7 DEF Accounted
  <2>2. Len(q.got) + Cardinality(q.failed) + Cardinality(DOMAIN q.flight)
          = Len(r.got) + Cardinality(r.failed) + Cardinality(DOMAIN r.flight)
    <3>1. Len(q.got) = Len(r.got) + 1 /\ Len(r.got) \in Nat
      BY <1>4, <1>5
    <3>2. /\ Cardinality(DOMAIN r.flight) = Cardinality(DOMAIN q.flight) + 1
          /\ Cardinality(DOMAIN q.flight) \in Nat /\ q.failed = r.failed
      BY <1>3, <1>5
    <3>. DEFINE m == Len(r.got)
                n == Cardinality(DOMAIN q.flight)
                k == Cardinality(q.failed)
    <3>3. /\ m \in Nat /\ n \in Nat /\ k \in Nat /\ Len(q.got) = m + 1
          /\ Cardinality(DOMAIN r.flight) = n + 1 /\ Cardinality(r.failed) = k
      BY <1>8, <3>1, <3>2
    <3>. HIDE DEF m, n, k
    <3>4. (m + 1) + k + n = m + k + (n + 1)
      BY <3>3
    <3>. QED BY <3>3, <3>4 DEF m, n, k
  <2>. QED BY <2>1, <2>2
<1>10. Arrived(q) \cup q.failed \cup DOMAIN q.flight = Taken(q)
  BY <1>1, <1>3, <1>5, <1>7 DEF Accounted
<1>11. Accounted(q)
  BY <1>1, <1>3, <1>4, <1>5, <1>9, <1>10 DEF Accounted
<1>12. RunOK(q)
  BY <1>5, <1>6, <1>11 DEF RunOK, Retrieving, Converted
<1>. QED BY <1>12 DEF q, landed, got

\* A file of the batch fails for good.
LEMMA FailedOK ==
  ASSUME NEW r, RunOK(r), r.at = "files", NEW i \in DOMAIN r.flight,
         Nature[r.ids[i]] \in {"missing", "flaky", "garbled"}
  PROVE  RunOK([r EXCEPT !.flight = Landed(r.flight, i), !.failed = r.failed \cup {i}])
<1>. DEFINE landed == Landed(r.flight, i)
            failed == r.failed \cup {i}
            q == [r EXCEPT !.flight = landed, !.failed = failed]
<1>1. Shape(r) /\ Accounted(r)
  BY DEF RunOK, Retrieving
<1>2. /\ r.ids \in Seq(Int) /\ r.got \in Seq(DOMAIN r.ids) /\ i \in DOMAIN r.ids
      /\ IsFiniteSet(DOMAIN r.flight) /\ IsFiniteSet(r.failed) /\ i \notin r.failed
  <2>1. DOMAIN r.flight \subseteq DOMAIN r.ids /\ r.failed \subseteq DOMAIN r.ids /\ i \notin r.failed
    BY <1>1 DEF Accounted, Taken
  <2>. QED BY <1>1, <2>1, FinitePositions DEF Accounted
<1>3. /\ DOMAIN landed = DOMAIN r.flight \ {i} /\ Cardinality(DOMAIN landed) \in Nat
      /\ Cardinality(DOMAIN r.flight) = Cardinality(DOMAIN landed) + 1
  BY <1>2, LandedForm
<1>4. Cardinality(failed) = Cardinality(r.failed) + 1 /\ Cardinality(r.failed) \in Nat
  BY <1>2, FS_AddElement, FS_CardinalityType
<1>. HIDE DEF landed
<1>5. /\ DOMAIN q = DOMAIN r /\ q.at = "files" /\ q.ids = r.ids /\ q.upto = r.upto
      /\ q.flight = landed /\ q.code = r.code /\ q.temp = r.temp /\ q.left = r.left
      /\ q.got = r.got /\ q.failed = failed /\ q.opts = r.opts
  BY <1>1 DEF Shape
<1>. HIDE DEF q
<1>6. Shape(q)
  BY <1>1, <1>5 DEF Shape
<1>7. Taken(q) = Taken(r) /\ Arrived(q) = Arrived(r)
  BY <1>5 DEF Taken, Arrived
<1>8. Len(r.got) \in Nat
  BY <1>2
<1>9. Len(q.got) + Cardinality(q.failed) + Cardinality(DOMAIN q.flight) = Cardinality(Taken(q))
  <2>1. Len(r.got) + Cardinality(r.failed) + Cardinality(DOMAIN r.flight) = Cardinality(Taken(q))
    BY <1>1, <1>7 DEF Accounted
  <2>2. Len(q.got) + Cardinality(q.failed) + Cardinality(DOMAIN q.flight)
          = Len(r.got) + Cardinality(r.failed) + Cardinality(DOMAIN r.flight)
    BY <1>3, <1>4, <1>5, <1>8
  <2>. QED BY <2>1, <2>2
<1>10. Arrived(q) \cup q.failed \cup DOMAIN q.flight = Taken(q)
  BY <1>1, <1>3, <1>5, <1>7 DEF Accounted
<1>11. Accounted(q)
  BY <1>1, <1>2, <1>3, <1>5, <1>9, <1>10 DEF Accounted
<1>12. RunOK(q)
  BY <1>5, <1>6, <1>11 DEF RunOK, Retrieving, Converted
<1>. QED BY <1>12 DEF q, landed

\* It is tried again.
LEMMA RetriedOK ==
  ASSUME NEW r, RunOK(r), r.at = "files", NEW i \in DOMAIN r.flight
  PROVE  RunOK([r EXCEPT !.flight[i] = @ + 1])
<1>. DEFINE q == [r EXCEPT !.flight[i] = @ + 1]
<1>1. Shape(r) /\ Accounted(r)
  BY DEF RunOK, Retrieving
<1>2. /\ DOMAIN q = DOMAIN r /\ q.at = "files" /\ q.ids = r.ids /\ q.upto = r.upto
      /\ DOMAIN q.flight = DOMAIN r.flight /\ q.code = r.code /\ q.temp = r.temp
      /\ q.left = r.left /\ q.got = r.got /\ q.failed = r.failed /\ q.opts = r.opts
  BY <1>1 DEF Shape
<1>. SUFFICES RunOK(q)
  OBVIOUS
<1>. HIDE DEF q
<1>3. Shape(q)
  BY <1>1, <1>2 DEF Shape
<1>4. Taken(q) = Taken(r) /\ Arrived(q) = Arrived(r)
  BY <1>2 DEF Taken, Arrived
<1>5. Accounted(q)
  BY <1>1, <1>2, <1>4 DEF Accounted
<1>. QED BY <1>2, <1>3, <1>5 DEF RunOK, Retrieving, Converted

\* The next batch adds to those taken before as many files as it has.
LEMMA NextBatchOK ==
  ASSUME NEW r, RunOK(r), r.at = "files", DOMAIN r.flight = {}
  PROVE  RunOK([r EXCEPT !.upto = r.upto + BATCH_SIZE, !.flight = Batch(r.ids, r.upto)])
<1>. DEFINE flight == Batch(r.ids, r.upto)
            q == [r EXCEPT !.upto = r.upto + BATCH_SIZE, !.flight = flight]
<1>1. Shape(r) /\ Accounted(r)
  BY DEF RunOK, Retrieving
<1>2. r.ids \in Seq(Int) /\ r.got \in Seq(DOMAIN r.ids) /\ r.upto \in Nat /\ BATCH_SIZE \in Nat
  BY <1>1, PipelineAssumption DEF Accounted
<1>3. DOMAIN flight = {j \in DOMAIN r.ids : j > r.upto /\ j <= r.upto + BATCH_SIZE}
  BY <1>2, BatchForm
<1>. HIDE DEF flight
<1>4. /\ DOMAIN q = DOMAIN r /\ q.at = "files" /\ q.ids = r.ids /\ q.upto = r.upto + BATCH_SIZE
      /\ q.flight = flight /\ q.code = r.code /\ q.temp = r.temp /\ q.left = r.left
      /\ q.got = r.got /\ q.failed = r.failed /\ q.opts = r.opts
  BY <1>1 DEF Shape
<1>. HIDE DEF q
<1>5. Shape(q)
  BY <1>1, <1>4 DEF Shape
<1>6. /\ Taken(q) = Taken(r) \cup DOMAIN flight /\ Taken(r) \cap DOMAIN flight = {}
      /\ Arrived(q) = Arrived(r)
  <2>1. \A j \in DOMAIN r.ids : j \in Int
    BY <1>2
  <2>2. \A j \in DOMAIN r.ids : j <= r.upto + BATCH_SIZE <=> j <= r.upto \/ (j > r.upto /\ j <= r.upto + BATCH_SIZE)
    BY <1>2, <2>1
  <2>3. \A j \in DOMAIN r.ids : ~(j <= r.upto /\ j > r.upto)
    BY <1>2, <2>1
  <2>. QED BY <1>3, <1>4, <2>2, <2>3 DEF Taken, Arrived
<1>7. IsFiniteSet(Taken(r)) /\ IsFiniteSet(DOMAIN flight) /\ IsFiniteSet(r.failed)
  <2>1. Taken(r) \subseteq DOMAIN r.ids /\ DOMAIN flight \subseteq DOMAIN r.ids
        /\ r.failed \subseteq DOMAIN r.ids
    BY <1>1, <1>3 DEF Taken, Accounted
  <2>. QED BY <1>2, <2>1, FinitePositions
<1>8. Cardinality(Taken(q)) = Cardinality(Taken(r)) + Cardinality(DOMAIN flight)
  <2>1. Cardinality(Taken(r) \cup DOMAIN flight)
          = Cardinality(Taken(r)) + Cardinality(DOMAIN flight) - Cardinality(Taken(r) \cap DOMAIN flight)
    BY <1>7, FS_Union
  <2>2. /\ Cardinality(Taken(r) \cap DOMAIN flight) = 0
        /\ Cardinality(Taken(r)) \in Nat /\ Cardinality(DOMAIN flight) \in Nat
    BY <1>6, <1>7, FS_EmptySet, FS_CardinalityType
  <2>. QED BY <1>6, <2>1, <2>2
<1>9. Len(r.got) + Cardinality(r.failed) = Cardinality(Taken(r))
  <2>1. Cardinality(DOMAIN r.flight) = 0 /\ Cardinality(r.failed) \in Nat /\ Len(r.got) \in Nat
    BY <1>2, <1>7, FS_EmptySet, FS_CardinalityType
  <2>. QED BY <1>1, <2>1 DEF Accounted
<1>10. Len(q.got) + Cardinality(q.failed) + Cardinality(DOMAIN q.flight) = Cardinality(Taken(q))
  BY <1>4, <1>8, <1>9
<1>11. Arrived(q) \cup q.failed \cup DOMAIN q.flight = Taken(q) /\ DOMAIN q.flight \cap q.failed = {}
  BY <1>1, <1>4, <1>6 DEF Accounted
<1>12. Accounted(q)
  BY <1>1, <1>2, <1>4, <1>10, <1>11 DEF Accounted
<1>13. RunOK(q)
  BY <1>4, <1>5, <1>12 DEF RunOK, Retrieving, Converted
<1>. QED BY <1>13 DEF q, flight

\* All batches are done.
LEMMA RetrievedOK ==
  ASSUME NEW r, RunOK(r), r.at = "files", DOMAIN r.flight = {}, ~(r.upto < Len(r.ids))
  PROVE  RunOK([r EXCEPT !.at = "retrieved", !.flight = <<>>])
<1>. DEFINE q == [r EXCEPT !.at = "retrieved", !.flight = <<>>]
<1>1. Shape(r) /\ Accounted(r)
  BY DEF RunOK, Retrieving
<1>2. /\ DOMAIN q = DOMAIN r /\ q.at = "retrieved" /\ q.ids = r.ids /\ q.upto = r.upto
      /\ q.flight = <<>> /\ q.code = r.code /\ q.temp = r.temp
      /\ q.left = r.left /\ q.got = r.got /\ q.failed = r.failed /\ q.opts = r.opts
  BY <1>1 DEF Shape
<1>. SUFFICES RunOK(q)
  OBVIOUS
<1>. HIDE DEF q
<1>3. Shape(q)
  BY <1>1, <1>2 DEF Shape, Places
<1>4. Taken(q) = Taken(r) /\ Arrived(q) = Arrived(r) /\ DOMAIN q.flight = DOMAIN r.flight
  BY <1>2 DEF Taken, Arrived
<1>5. Len(r.ids) \in Nat /\ r.upto \in Nat
  BY <1>1 DEF Accounted
<1>6. Len(r.ids) <= r.upto
  BY <1>5
<1>7. Accounted(q)
  BY <1>1, <1>2, <1>4, <1>6 DEF Accounted
<1>. QED BY <1>2, <1>3, <1>7 DEF RunOK, Retrieving, Converted

LEMMA SomeRetrievedOK ==
  ASSUME NEW r, RunOK(r), r.at = "retrieved"
  PROVE  RunOK([r EXCEPT !.at = "markdown"])
<1>. DEFINE q == [r EXCEPT !.at = "markdown"]
<1>1. Shape(r) /\ Accounted(r)
  BY DEF RunOK, Retrieving
<1>2. /\ DOMAIN q = DOMAIN r /\ q.at = "markdown" /\ q.ids = r.ids /\ q.upto = r.upto
      /\ q.flight = r.flight /\ q.code = r.code /\ q.temp = r.temp
      /\ q.left = r.left /\ q.got = r.got /\ q.failed = r.failed /\ q.opts = r.opts
  BY <1>1 DEF Shape
<1>. SUFFICES RunOK(q)
  OBVIOUS
<1>. HIDE DEF q
<1>3. Shape(q)
  BY <1>1, <1>2 DEF Shape, Places
<1>4. Taken(q) = Taken(r) /\ Arrived(q) = Arrived(r)
  BY <1>2 DEF Taken, Arrived
<1>5. Accounted(q)
  BY <1>1, <1>2, <1>4 DEF Accounted
<1>. QED BY <1>2, <1>3, <1>5 DEF RunOK, Retrieving, Converted

\* The document holds every file but those that failed.
LEMMA DocumentFor ==
  ASSUME NEW r, Accounted(r), r.at # "files"
  PROVE  For(Document(r), r.user, r.opts)
<1>. DEFINE doc == Document(r)
<1>1. /\ doc.user = r.user /\ doc.format = r.opts.format /\ doc.metadata = r.opts.metadata
      /\ doc.files = [i \in DOMAIN r.got |-> r.ids[r.got[i]]]
  BY DEF Document
<1>. HIDE DEF doc
<1>2. /\ r.ids \in Seq(Int) /\ r.ids = IdsOf(r.opts) /\ \A i \in DOMAIN r.got : r.got[i] \in DOMAIN r.ids
  BY DEF Accounted
<1>3. ToSet(doc.files) = {r.ids[r.got[i]] : i \in DOMAIN r.got}
  BY <1>1 DEF ToSet
<1>4. ToSet(IdsOf(r.opts)) = {r.ids[j] : j \in DOMAIN r.ids}
  BY <1>2 DEF ToSet
<1>5. ToSet(doc.files) \subseteq ToSet(IdsOf(r.opts))
  BY <1>2, <1>3, <1>4
<1>6. ASSUME NEW f \in ToSet(IdsOf(r.opts)) \ ToSet(doc.files)
      PROVE  Nature[f] \in {"missing", "flaky", "garbled"}
  <2>1. PICK j \in DOMAIN r.ids : f = r.ids[j]
    BY <1>4
  <2>2. \A i \in DOMAIN r.got : r.got[i] # j
    BY <1>3, <2>1
  <2>3. j \notin Arrived(r)
    BY <2>2 DEF Arrived, ToSet
  <2>4. Len(r.ids) \in Nat /\ r.upto \in Nat /\ Len(r.ids) <= r.upto /\ j \in 1 .. Len(r.ids)
    BY <1>2 DEF Accounted
  <2>5. j \in Taken(r)
    BY <2>4 DEF Taken
  <2>6. j \in r.failed
    BY <2>3, <2>5 DEF Accounted
  <2>. QED BY <2>1, <2>6 DEF Accounted
<1>7. For(doc, r.user, r.opts)
  BY <1>1, <1>5, <1>6 DEF For
<1>. QED BY <1>7 DEF doc

LEMMA ConvertedOK ==
  ASSUME NEW r, RunOK(r), r.at = "markdown", NEW at \in {"pdf", "finalize"}
  PROVE  RunOK([r EXCEPT !.doc = Document(r), !.at = at])
<1>. DEFINE doc == Document(r)
            q == [r EXCEPT !.doc = doc, !.at = at]
<1>1. Shape(r) /\ Accounted(r)
  BY DEF RunOK, Retrieving
<1>2. For(doc, r.user, r.opts)
  BY <1>1, DocumentFor
<1>. HIDE DEF doc
<1>3. /\ DOMAIN q = DOMAIN r /\ q.at = at /\ q.ids = r.ids /\ q.upto = r.upto
      /\ q.flight = r.flight /\ q.code = r.code /\ q.temp = r.temp /\ q.doc = doc
      /\ q.left = r.left /\ q.got = r.got /\ q.failed = r.failed /\ q.opts = r.opts
      /\ q.user = r.user
  BY <1>1 DEF Shape
<1>. HIDE DEF q
<1>4. Shape(q)
  BY <1>1, <1>3 DEF Shape, Places
<1>5. Taken(q) = Taken(r) /\ Arrived(q) = Arrived(r)
  BY <1>3 DEF Taken, Arrived
<1>6. Accounted(q)
  BY <1>1, <1>3, <1>5 DEF Accounted
<1>7. RunOK(q)
  BY <1>2, <1>3, <1>4, <1>6 DEF RunOK, Retrieving, Converted
<1>. QED BY <1>7 DEF q, doc

\* A step of a run whose document is there.
LEMMA MovedOK ==
  ASSUME NEW r, RunOK(r), r.at \in Converted, NEW q, Shape(q), q.at \in Converted,
         q.ids = r.ids, q.upto = r.upto, q.flight = r.flight, q.got = r.got, q.failed = r.failed,
         q.user = r.user, q.doc = r.doc, q.code # 200,
         q.opts.format = r.opts.format, q.opts.fileIds = r.opts.fileIds,
         q.opts.metadata = r.opts.metadata,
         q.temp # None /\ ~q.left => q.at \in {"pandoc", "cleanup"}
  PROVE  RunOK(q)
<1>1. Accounted(r) /\ For(r.doc, r.user, r.opts) /\ Settled(r.opts) /\ r.at # "files"
  BY DEF RunOK, Retrieving, Converted
<1>2. Taken(q) = Taken(r) /\ Arrived(q) = Arrived(r) /\ IdsOf(q.opts) = IdsOf(r.opts)
  BY DEF Taken, Arrived, IdsOf
<1>3. Accounted(q)
  BY <1>1, <1>2 DEF Accounted
<1>4. For(q.doc, q.user, q.opts)
  BY <1>1, <1>2 DEF For
<1>5. Settled(q.opts)
  BY <1>1 DEF Settled
<1>. QED BY <1>3, <1>4, <1>5 DEF RunOK, Retrieving, Converted

LEMMA TempOK ==
  ASSUME NEW r, RunOK(r), r.at = "pdf", NEW options
  PROVE  RunOK([r EXCEPT !.at = "pandoc", !.temp = "input", !.opts.pdfOptions = options])
<1>. DEFINE q == [r EXCEPT !.at = "pandoc", !.temp = "input", !.opts.pdfOptions = options]
<1>1. Shape(r) /\ r.code # 200
  BY DEF RunOK
<1>2. /\ DOMAIN q = DOMAIN r /\ q.at = "pandoc" /\ q.ids = r.ids /\ q.upto = r.upto
      /\ q.flight = r.flight /\ q.code = r.code /\ q.doc = r.doc /\ q.got = r.got
      /\ q.failed = r.failed /\ q.user = r.user /\ DOMAIN q.opts = DOMAIN r.opts
      /\ q.opts.format = r.opts.format /\ q.opts.fileIds = r.opts.fileIds
      /\ q.opts.metadata = r.opts.metadata
  BY <1>1 DEF Shape
<1>. SUFFICES RunOK(q)
  OBVIOUS
<1>. HIDE DEF q
<1>3. Shape(q)
  BY <1>1, <1>2 DEF Shape, Places
<1>. QED BY <1>1, <1>2, <1>3, MovedOK DEF Converted

LEMMA PandocOK ==
  ASSUME NEW r, RunOK(r), r.at = "pandoc", NEW t, NEW code, code # 200
  PROVE  RunOK([r EXCEPT !.at = "cleanup", !.temp = t, !.code = code])
<1>. DEFINE q == [r EXCEPT !.at = "cleanup", !.temp = t, !.code = code]
<1>1. Shape(r)
  BY DEF RunOK
<1>2. /\ DOMAIN q = DOMAIN r /\ q.at = "cleanup" /\ q.ids = r.ids /\ q.upto = r.upto
      /\ q.flight = r.flight /\ q.code = code /\ q.doc = r.doc /\ q.got = r.got
      /\ q.failed = r.failed /\ q.user = r.user /\ q.opts = r.opts
  BY <1>1 DEF Shape
<1>. SUFFICES RunOK(q)
  OBVIOUS
<1>. HIDE DEF q
<1>3. Shape(q)
  BY <1>1, <1>2 DEF Shape, Places
<1>. QED BY <1>1, <1>2, <1>3, MovedOK DEF Converted

\* The directory is gone, or what is left of it is on record.
LEMMA CleanedOK ==
  ASSUME NEW r, RunOK(r), r.at = "cleanup",
         NEW s \in {[r EXCEPT !.temp = None], [r EXCEPT !.left = TRUE]}
  PROVE  RunOK([s EXCEPT !.at = "finalize"]) /\ RunOK([s EXCEPT !.at = "answered"])
<1>. DEFINE q == [s EXCEPT !.at = "finalize"]
            p == [s EXCEPT !.at = "answered"]
<1>1. Shape(r) /\ r.code # 200
  BY DEF RunOK
<1>2. /\ DOMAIN s = DOMAIN r /\ s.ids = r.ids /\ s.upto = r.upto /\ s.flight = r.flight
      /\ s.code = r.code /\ s.doc = r.doc /\ s.got = r.got /\ s.failed = r.failed
      /\ s.user = r.user /\ s.opts = r.opts /\ (s.temp = None \/ s.left = TRUE)
  BY <1>1 DEF Shape
<1>3. /\ DOMAIN q = DOMAIN s /\ q.at = "finalize" /\ q.ids = s.ids /\ q.upto = s.upto
      /\ q.flight = s.flight /\ q.code = s.code /\ q.doc = s.doc /\ q.got = s.got
      /\ q.failed = s.failed /\ q.user = s.user /\ q.opts = s.opts
      /\ q.temp = s.temp /\ q.left = s.left
  BY <1>1, <1>2 DEF Shape
<1>4. /\ DOMAIN p = DOMAIN s /\ p.at = "answered" /\ p.opts = s.opts /\ p.code = s.code
      /\ p.temp = s.temp /\ p.left = s.left
  BY <1>1, <1>2 DEF Shape
<1>. SUFFICES RunOK(q) /\ RunOK(p)
  OBVIOUS
<1>. HIDE DEF q, p
<1>5. Shape(q) /\ Shape(p)
  BY <1>1, <1>2, <1>3, <1>4 DEF Shape, Places
<1>6. RunOK(q)
  BY <1>1, <1>2, <1>3, <1>5, MovedOK DEF Converted
<1>7. RunOK(p)
  BY <1>1, <1>2, <1>4, <1>5 DEF RunOK, Retrieving, Converted
<1>. QED BY <1>6, <1>7

LEMMA CompletedOK ==
  ASSUME NEW r, RunOK(r), r.at = "finalize"
  PROVE  RunOK([r EXCEPT !.at = "store"])
<1>. DEFINE q == [r EXCEPT !.at = "store"]
<1>1. Shape(r) /\ r.code # 200 /\ (r.temp = None \/ r.left)
  BY DEF RunOK
<1>2. /\ DOMAIN q = DOMAIN r /\ q.at = "store" /\ q.ids = r.ids /\ q.upto = r.upto
      /\ q.flight = r.flight /\ q.code = r.code /\ q.doc = r.doc /\ q.got = r.got
      /\ q.failed = r.failed /\ q.user = r.user /\ q.opts = r.opts
      /\ q.temp = r.temp /\ q.left = r.left
  BY <1>1 DEF Shape
<1>. SUFFICES RunOK(q)
  OBVIOUS
<1>. HIDE DEF q
<1>3. Shape(q)
  BY <1>1, <1>2 DEF Shape, Places
<1>. QED BY <1>1, <1>2, <1>3, MovedOK DEF Converted

LEMMA AnsweredOK ==
  ASSUME NEW r, RunOK(r), r.at = "store"
  PROVE  RunOK([r EXCEPT !.at = "answered", !.code = 200])
<1>. DEFINE q == [r EXCEPT !.at = "answered", !.code = 200]
<1>1. Shape(r) /\ For(r.doc, r.user, r.opts) /\ (r.temp = None \/ r.left)
  BY DEF RunOK, Converted
<1>2. /\ DOMAIN q = DOMAIN r /\ q.at = "answered" /\ q.code = 200 /\ q.doc = r.doc
      /\ q.user = r.user /\ q.opts = r.opts /\ q.temp = r.temp /\ q.left = r.left
  BY <1>1 DEF Shape
<1>. SUFFICES RunOK(q)
  OBVIOUS
<1>. HIDE DEF q
<1>3. Shape(q)
  BY <1>1, <1>2 DEF Shape, Places
<1>. QED BY <1>1, <1>2, <1>3 DEF RunOK, Retrieving, Converted

-----------------------------------------------------------------------------
\* The invariant of the runs and of the cache.

LEMMA OneRun ==
  ASSUME RunsOK, NEW e \in Executions, NEW q, RunOK(q), run' = [run EXCEPT ![e] = q]
  PROVE  RunsOK'
<1>1. DOMAIN run' = Executions /\ \A d \in Executions : run'[d] \in {q, run[d]}
  BY DEF RunsOK
<1>2. \A d \in Executions : RunOK(run'[d])
  BY <1>1 DEF RunsOK
<1>. QED BY <1>1, <1>2 DEF RunsOK

LEMMA RunInvInit == Init => RunInv
<1>. SUFFICES ASSUME Init PROVE RunInv
  OBVIOUS
<1>1. RunOK(NoRun)
  <2>1. /\ Shape(NoRun) /\ NoRun.at = "idle" /\ NoRun.code = 0 /\ NoRun.temp = None
    BY DEF NoRun, NoOptions, Shape, Places
  <2>. QED BY <2>1 DEF RunOK, Retrieving, Converted
<1>. QED BY <1>1 DEF Init, RunInv, RunsOK, CachedOK

\* An answer that is an error is given where there is no directory.
LEMMA RefuseStep ==
  ASSUME RunsOK, NEW e \in Executions, NEW code, code # 200,
         run[e].at \in {"start", "retrieved", "markdown", "pdf"}, Refuse(e, code)
  PROVE  RunsOK'
<1>. DEFINE q == [run[e] EXCEPT !.at = "answered", !.code = code]
<1>1. RunOK(run[e])
  BY DEF RunsOK
<1>2. run[e].temp = None \/ run[e].left
  BY <1>1 DEF RunOK
<1>3. RunOK(q)
  BY <1>1, <1>2, RefusedOK
<1>4. run' = [run EXCEPT ![e] = q]
  BY DEF Refuse
<1>. HIDE DEF q
<1>. QED BY <1>3, <1>4, OneRun

LEMMA AskStep ==
  ASSUME RunInv, NEW e \in Executions, ExportProject(e)
  PROVE  RunInv'
<1>1. PICK u \in Users, o \in Asked :
        run' = [run EXCEPT ![e] =
          IF InvalidOptions(o)
          THEN [NoRun EXCEPT !.at = "answered", !.code = 400, !.user = u, !.opts = o]
          ELSE [NoRun EXCEPT !.at = "cached", !.user = u, !.opts = o]]
  BY DEF ExportProject
<1>. DEFINE p == [NoRun EXCEPT !.at = "answered", !.code = 400, !.user = u, !.opts = o]
            q == [NoRun EXCEPT !.at = "cached", !.user = u, !.opts = o]
<1>2. RunOK(p) /\ RunOK(q)
  BY AskedOK, ZenonT(30)
<1>. HIDE DEF p, q
<1>3. run' = [run EXCEPT ![e] = p] \/ run' = [run EXCEPT ![e] = q]
  BY <1>1 DEF p, q
<1>4. RunsOK'
  BY <1>2, <1>3, OneRun DEF RunInv
<1>. QED BY <1>4 DEF ExportProject, RunInv, CachedOK

LEMMA CacheStep ==
  ASSUME RunInv, NEW e \in Executions, GetCachedExport(e)
  PROVE  RunInv'
<1>. DEFINE r == run[e]
            key == ExportKey(r.user, r.opts)
            hits == {entry \in resultCache : entry.key = key}
<1>1. RunOK(r) /\ r.at = "cached" /\ r.opts \in Asked
  BY DEF RunInv, RunsOK, RunOK, GetCachedExport
<1>2. key.fileIds = KeyIds(r.opts)
  BY DEF ExportKey
<1>3. CachedOK'
  BY DEF RunInv, CachedOK, GetCachedExport
<1>4. CASE \E hit \in hits :
             run' = [run EXCEPT ![e].at = "answered", ![e].code = 200, ![e].doc = hit.doc]
  <2>1. PICK hit \in hits :
             run' = [run EXCEPT ![e].at = "answered", ![e].code = 200, ![e].doc = hit.doc]
    BY <1>4
  <2>2. For(hit.doc, r.user, r.opts)
    BY <1>1, HitOK DEF RunInv
  <2>. DEFINE q == [r EXCEPT !.at = "answered", !.code = 200, !.doc = hit.doc]
  <2>3. RunOK(q)
    BY <1>1, <2>2, HitServedOK
  <2>4. run' = [run EXCEPT ![e] = q]
    BY <2>1, ZenonT(60)
  <2>. HIDE DEF q
  <2>5. RunsOK'
    BY <2>3, <2>4, OneRun DEF RunInv
  <2>. QED BY <1>3, <2>5 DEF RunInv
<1>5. CASE run' = [run EXCEPT ![e].at = "start", ![e].opts.fileIds = key.fileIds]
  <2>. DEFINE q == [r EXCEPT !.at = "start", !.opts.fileIds = KeyIds(r.opts)]
  <2>1. RunOK(q)
    BY <1>1, StartedOK
  <2>2. run' = [run EXCEPT ![e] = q]
    BY <1>2, <1>5
  <2>. HIDE DEF q
  <2>3. RunsOK'
    BY <2>1, <2>2, OneRun DEF RunInv
  <2>. QED BY <1>3, <2>3 DEF RunInv
<1>6. ASSUME NEW q, q = [r EXCEPT !.at = "queued", !.opts.fileIds = key.fileIds],
             run' = [run EXCEPT ![e] = q, ![Background(e[1])] = q]
      PROVE  RunInv'
  <2>1. RunOK(q)
    BY <1>1, <1>2, <1>6, StartedOK
  <2>2. DOMAIN run' = Executions /\ \A d \in Executions : run'[d] \in {q, run[d]}
    BY <1>6 DEF RunInv, RunsOK
  <2>3. \A d \in Executions : RunOK(run'[d])
    BY <2>1, <2>2 DEF RunInv, RunsOK
  <2>. QED BY <1>3, <2>2, <2>3 DEF RunInv, RunsOK
<1>. QED BY <1>4, <1>5, <1>6 DEF GetCachedExport

LEMMA SlotStep ==
  ASSUME RunInv, NEW e \in Executions, TakeSlot(e)
  PROVE  RunInv'
<1>. DEFINE q == [run[e] EXCEPT !.at = "start"]
<1>1. RunOK(run[e]) /\ run[e].at = "queued" /\ RunsOK
  BY DEF RunInv, RunsOK, TakeSlot
<1>2. RunOK(q)
  BY <1>1, SlotTakenOK
<1>3. run' = [run EXCEPT ![e] = q]
  BY DEF TakeSlot
<1>. HIDE DEF q
<1>4. RunsOK'
  BY <1>1, <1>2, <1>3, OneRun
<1>. QED BY <1>4 DEF TakeSlot, RunInv, CachedOK

LEMMA StartStep ==
  ASSUME RunInv, NEW e \in Executions, StartRetrieval(e)
  PROVE  RunInv'
<1>. DEFINE r == run[e]
            ids == IdsOf(r.opts)
            q == [r EXCEPT !.at = "files", !.ids = ids, !.upto = BATCH_SIZE, !.flight = Batch(ids, 0)]
<1>1. RunOK(r) /\ r.at = "start"
  BY DEF RunInv, RunsOK, StartRetrieval
<1>2. RunOK(q)
  BY <1>1, FirstBatchOK
<1>3. Refuse(e, 400) \/ run' = [run EXCEPT ![e] = q]
  BY DEF StartRetrieval
<1>. HIDE DEF q
<1>4. RunsOK'
  BY <1>1, <1>2, <1>3, OneRun, RefuseStep DEF RunInv
<1>. QED BY <1>4 DEF StartRetrieval, RunInv, CachedOK

LEMMA FetchStep ==
  ASSUME RunInv, NEW e \in Executions, Fetches(e)
  PROVE  RunInv'
<1>. DEFINE r == run[e]
<1>1. PICK i \in DOMAIN r.flight : FileArrives(e, i) \/ AttemptFails(e, i)
  BY DEF Fetches
<1>2. RunOK(r) /\ r.at = "files" /\ RunsOK
  BY <1>1 DEF RunInv, RunsOK, FileArrives, AttemptFails
<1>3. CachedOK'
  BY <1>1 DEF RunInv, CachedOK, FileArrives, AttemptFails
<1>. DEFINE arrived == [r EXCEPT !.flight = Landed(r.flight, i), !.got = Append(r.got, i)]
            lost == [r EXCEPT !.flight = Landed(r.flight, i), !.failed = r.failed \cup {i}]
            again == [r EXCEPT !.flight[i] = @ + 1]
<1>4. RunOK(arrived) /\ RunOK(again)
  BY <1>1, <1>2, ArrivedOK, RetriedOK
<1>5. Nature[r.ids[i]] \in {"missing", "flaky", "garbled"} => RunOK(lost)
  BY <1>1, <1>2, FailedOK
<1>6. \/ run' = [run EXCEPT ![e] = arrived]
      \/ run' = [run EXCEPT ![e] = again]
      \/ run' = [run EXCEPT ![e] = lost] /\ Nature[r.ids[i]] \in {"missing", "flaky", "garbled"}
  <2>1. CASE FileArrives(e, i)
    BY <2>1 DEF FileArrives
  <2>2. CASE AttemptFails(e, i)
    <3>1. run' = [run EXCEPT ![e] = again] \/ run' = [run EXCEPT ![e] = lost]
      BY <2>2 DEF AttemptFails
    <3>2. Nature[r.ids[i]] \in {"missing", "flaky", "garbled"}
      BY <2>2 DEF AttemptFails, Errors
    <3>. HIDE DEF again, lost
    <3>. QED BY <3>1, <3>2
  <2>. QED BY <1>1, <2>1, <2>2
<1>. HIDE DEF arrived, lost, again
<1>7. RunsOK'
  BY <1>2, <1>4, <1>5, <1>6, OneRun
<1>. QED BY <1>3, <1>7 DEF RunInv

LEMMA BatchStep ==
  ASSUME RunInv, NEW e \in Executions, NextBatch(e)
  PROVE  RunInv'
<1>. DEFINE r == run[e]
            q == [r EXCEPT !.upto = r.upto + BATCH_SIZE, !.flight = Batch(r.ids, r.upto)]
            p == [r EXCEPT !.at = "retrieved", !.flight = <<>>]
<1>1. RunOK(r) /\ r.at = "files" /\ DOMAIN r.flight = {} /\ RunsOK
  BY DEF RunInv, RunsOK, NextBatch
<1>2. RunOK(q)
  BY <1>1, NextBatchOK
<1>3. ~(r.upto < Len(r.ids)) => RunOK(p)
  BY <1>1, RetrievedOK
<1>4. \/ run' = [run EXCEPT ![e] = q]
      \/ run' = [run EXCEPT ![e] = p] /\ ~(r.upto < Len(r.ids))
  BY DEF NextBatch
<1>. HIDE DEF q, p
<1>5. RunsOK'
  BY <1>1, <1>2, <1>3, <1>4, OneRun
<1>. QED BY <1>5 DEF NextBatch, RunInv, CachedOK

LEMMA RetrievedStep ==
  ASSUME RunInv, NEW e \in Executions, Retrieved(e)
  PROVE  RunInv'
<1>. DEFINE q == [run[e] EXCEPT !.at = "markdown"]
<1>1. RunOK(run[e]) /\ run[e].at = "retrieved" /\ RunsOK
  BY DEF RunInv, RunsOK, Retrieved
<1>2. RunOK(q)
  BY <1>1, SomeRetrievedOK
<1>3. Refuse(e, 404) \/ run' = [run EXCEPT ![e] = q]
  BY DEF Retrieved
<1>. HIDE DEF q
<1>4. RunsOK'
  BY <1>1, <1>2, <1>3, OneRun, RefuseStep
<1>. QED BY <1>4 DEF Retrieved, RunInv, CachedOK

LEMMA ConvertStep ==
  ASSUME RunInv, NEW e \in Executions,
         ExportMarkdown(e) \/ CreateTempDirectory(e) \/ ExecutePandoc(e)
  PROVE  RunInv'
<1>. DEFINE r == run[e]
            doc == Document(r)
<1>1. RunOK(r) /\ RunsOK
  BY DEF RunInv, RunsOK
<1>2. CASE ExportMarkdown(e)
  <2>. DEFINE q == [r EXCEPT !.doc = doc, !.at = "pdf"]
              p == [r EXCEPT !.doc = doc, !.at = "finalize"]
  <2>1. r.at = "markdown"
    BY <1>2 DEF ExportMarkdown
  <2>2. RunOK(q) /\ RunOK(p)
    BY <1>1, <2>1, ConvertedOK
  <2>3. \/ Refuse(e, 400) \/ Refuse(e, 413)
        \/ run' = [run EXCEPT ![e] = q] \/ run' = [run EXCEPT ![e] = p]
    <3>1. \/ Refuse(e, 400) \/ Refuse(e, 413)
          \/ run' = [run EXCEPT ![e].doc = doc,
                                ![e].at = IF r.opts.format = "pdf" THEN "pdf" ELSE "finalize"]
      BY <1>2 DEF ExportMarkdown
    <3>. HIDE DEF doc
    <3>. QED BY <3>1
  <2>. HIDE DEF q, p
  <2>4. RunsOK'
    BY <1>1, <2>1, <2>2, <2>3, OneRun, RefuseStep
  <2>. QED BY <1>2, <2>4 DEF ExportMarkdown, RunInv, CachedOK
<1>3. CASE CreateTempDirectory(e)
  <2>. DEFINE options == IF r.opts.pdfOptions = None THEN "default" ELSE r.opts.pdfOptions
              q == [r EXCEPT !.at = "pandoc", !.temp = "input", !.opts.pdfOptions = options]
  <2>1. r.at = "pdf"
    BY <1>3 DEF CreateTempDirectory
  <2>2. RunOK(q)
    BY <1>1, <2>1, TempOK
  <2>3. \/ Refuse(e, 413) \/ Refuse(e, 500) \/ run' = [run EXCEPT ![e] = q]
    BY <1>3 DEF CreateTempDirectory
  <2>. HIDE DEF q
  <2>4. RunsOK'
    BY <1>1, <2>1, <2>2, <2>3, OneRun, RefuseStep
  <2>. QED BY <1>3, <2>4 DEF CreateTempDirectory, RunInv, CachedOK
<1>4. CASE ExecutePandoc(e)
  <2>. DEFINE Ran(t, code) == run' = [run EXCEPT ![e].at = "cleanup", ![e].temp = t, ![e].code = code]
  <2>0. Ran("output", 0) \/ \E t : Ran(t, 500)
    BY <1>4 DEF ExecutePandoc
  <2>1. PICK t, code : code # 200 /\ Ran(t, code)
    <3>. HIDE DEF Ran
    <3>1. CASE Ran("output", 0)
      BY <3>1
    <3>2. CASE \E t : Ran(t, 500)
      BY <3>2
    <3>. QED BY <2>0, <3>1, <3>2
  <2>. DEFINE q == [r EXCEPT !.at = "cleanup", !.temp = t, !.code = code]
  <2>2. r.at = "pandoc"
    BY <1>4 DEF ExecutePandoc
  <2>3. RunOK(q)
    BY <1>1, <2>1, <2>2, PandocOK
  <2>4. run' = [run EXCEPT ![e] = q]
    BY <2>1
  <2>. HIDE DEF q
  <2>5. RunsOK'
    BY <1>1, <2>3, <2>4, OneRun
  <2>. QED BY <1>4, <2>5 DEF ExecutePandoc, RunInv, CachedOK
<1>. QED BY <1>2, <1>3, <1>4

LEMMA CleanupStep ==
  ASSUME RunInv, NEW e \in Executions, CleanupTempDirectory(e)
  PROVE  RunInv'
<1>. DEFINE r == run[e]
<1>1. RunOK(r) /\ RunsOK /\ r.at = "cleanup"
  BY DEF RunInv, RunsOK, CleanupTempDirectory
<1>2. PICK removed \in BOOLEAN :
        LET s == IF removed THEN [r EXCEPT !.temp = None] ELSE [r EXCEPT !.left = TRUE]
        IN \/ run' = [run EXCEPT ![e] = [s EXCEPT !.at = "finalize"]]
           \/ run' = [run EXCEPT ![e] = [s EXCEPT !.at = "answered"]]
  BY DEF CleanupTempDirectory
<1>. DEFINE s == IF removed THEN [r EXCEPT !.temp = None] ELSE [r EXCEPT !.left = TRUE]
<1>3. s \in {[r EXCEPT !.temp = None], [r EXCEPT !.left = TRUE]}
  OBVIOUS
<1>4. \/ run' = [run EXCEPT ![e] = [s EXCEPT !.at = "finalize"]]
      \/ run' = [run EXCEPT ![e] = [s EXCEPT !.at = "answered"]]
  BY <1>2
<1>. HIDE DEF s
<1>. DEFINE q == [s EXCEPT !.at = "finalize"]
            p == [s EXCEPT !.at = "answered"]
<1>5. RunOK(q) /\ RunOK(p)
  BY <1>1, <1>3, CleanedOK
<1>6. run' = [run EXCEPT ![e] = q] \/ run' = [run EXCEPT ![e] = p]
  BY <1>4
<1>. HIDE DEF q, p
<1>7. RunsOK'
  BY <1>1, <1>5, <1>6, OneRun
<1>. QED BY <1>7 DEF CleanupTempDirectory, RunInv, CachedOK

LEMMA AnswerStep ==
  ASSUME RunInv, NEW e \in Executions, Complete(e) \/ FinalizeExport(e) \/ DropResult(e)
  PROVE  RunInv'
<1>. DEFINE r == run[e]
<1>1. RunOK(r) /\ RunsOK
  BY DEF RunInv, RunsOK
<1>2. CASE Complete(e)
  <2>. DEFINE q == [r EXCEPT !.at = "store"]
  <2>1. RunOK(q)
    BY <1>1, <1>2, CompletedOK DEF Complete
  <2>2. run' = [run EXCEPT ![e] = q]
    BY <1>2 DEF Complete
  <2>. HIDE DEF q
  <2>3. RunsOK'
    BY <1>1, <2>1, <2>2, OneRun
  <2>. QED BY <1>2, <2>3 DEF Complete, RunInv, CachedOK
<1>3. CASE FinalizeExport(e)
  <2>. DEFINE q == [r EXCEPT !.at = "answered", !.code = 200]
              key == ExportKey(r.user, r.opts)
              entry == [key |-> key, doc |-> r.doc]
  <2>1. r.at = "store" /\ Settled(r.opts) /\ For(r.doc, r.user, r.opts)
    BY <1>1, <1>3 DEF FinalizeExport, RunOK, Retrieving, Converted
  <2>2. RunOK(q)
    BY <1>1, <2>1, AnsweredOK
  <2>3. run' = [run EXCEPT ![e] = q]
    BY <1>3 DEF FinalizeExport
  <2>4. For(r.doc, key.user, key)
    BY <2>1, StoredOK
  <2>. HIDE DEF q, key
  <2>5. RunsOK'
    BY <1>1, <2>2, <2>3, OneRun
  <2>6. \A x \in resultCache' : x \in resultCache \/ x = entry
    BY <1>3 DEF FinalizeExport, key
  <2>7. For(entry.doc, entry.key.user, entry.key)
    BY <2>4
  <2>8. CachedOK'
    BY <2>6, <2>7 DEF RunInv, CachedOK
  <2>. QED BY <2>5, <2>8 DEF RunInv
<1>4. CASE DropResult(e)
  <2>. DEFINE q == [r EXCEPT !.at = "answered", !.code = 200]
  <2>1. RunOK(q)
    BY <1>1, <1>4, AnsweredOK DEF DropResult
  <2>2. run' = [run EXCEPT ![e] = q]
    BY <1>4, ZenonT(60) DEF DropResult
  <2>. HIDE DEF q
  <2>3. RunsOK'
    BY <1>1, <2>1, <2>2, OneRun
  <2>. QED BY <1>4, <2>3 DEF DropResult, RunInv, CachedOK
<1>. QED BY <1>2, <1>3, <1>4

LEMMA RunInvNext == RunInv /\ [Next]_vars => RunInv'
<1>. SUFFICES ASSUME RunInv, [Next]_vars PROVE RunInv'
  OBVIOUS
<1>1. ASSUME NEW e \in Executions, ExportProject(e) \/ TakeSlot(e) PROVE RunInv'
  BY <1>1, AskStep, SlotStep
<1>2. ASSUME NEW e \in Executions, Proceeds(e) PROVE RunInv'
  <2>. USE DEF Converts
  <2>1. CASE GetCachedExport(e)
    BY <2>1, CacheStep
  <2>2. CASE StartRetrieval(e)
    BY <2>2, StartStep
  <2>3. CASE Fetches(e)
    BY <2>3, FetchStep
  <2>4. CASE NextBatch(e)
    BY <2>4, BatchStep
  <2>5. CASE Retrieved(e)
    BY <2>5, RetrievedStep
  <2>6. CASE ExportMarkdown(e) \/ CreateTempDirectory(e) \/ ExecutePandoc(e)
    BY <2>6, ConvertStep
  <2>7. CASE CleanupTempDirectory(e)
    BY <2>7, CleanupStep
  <2>8. CASE Complete(e) \/ FinalizeExport(e) \/ DropResult(e)
    BY <2>8, AnswerStep
  <2>. QED BY <1>2, <2>1, <2>2, <2>3, <2>4, <2>5, <2>6, <2>7, <2>8 DEF Proceeds
<1>3. ASSUME NEW x \in Exports, PollMisses(x) \/ PollCaches(x) \/ ExpireStatus(x) PROVE RunInv'
  BY <1>3 DEF PollMisses, PollCaches, ExpireStatus, RunInv, RunsOK, CachedOK
<1>4. CASE ExpireResult
  BY <1>4 DEF ExpireResult, RunInv, RunsOK, CachedOK
<1>5. CASE UNCHANGED vars
  BY <1>5 DEF vars, RunInv, RunsOK, CachedOK
<1>. QED BY <1>1, <1>2, <1>3, <1>4, <1>5 DEF Next

LEMMA RunInvInvariant == Spec => []RunInv
BY RunInvInit, RunInvNext, PTL DEF Spec

-----------------------------------------------------------------------------
\* An export whose files were retrieved holds each of them, or knows it failed,
\* once, for any number of files, retries and batches (getMultipleFiles).
THEOREM EveryFileIsAccounted == Spec => []EveryFileAccounted
<1>1. RunInv => EveryFileAccounted
  <2>. SUFFICES ASSUME RunInv, NEW e \in Executions,
                       run[e].at \in {"markdown", "pdf", "pandoc", "finalize", "store"}
                PROVE  LET r == run[e] IN
                       /\ {r.got[i] : i \in DOMAIN r.got} \cup r.failed = DOMAIN r.ids
                       /\ Len(r.got) + Cardinality(r.failed) = Len(r.ids)
    BY DEF EveryFileAccounted
  <2>. DEFINE r == run[e]
  <2>1. Accounted(r) /\ r.at # "files"
    BY DEF RunInv, RunsOK, RunOK, Retrieving
  <2>. HIDE DEF r
  <2>2. /\ r.ids \in Seq(Int) /\ r.got \in Seq(DOMAIN r.ids) /\ DOMAIN r.flight = {}
        /\ r.failed \subseteq DOMAIN r.ids /\ Len(r.ids) <= r.upto /\ r.upto \in Nat
    BY <2>1 DEF Accounted
  <2>3. DOMAIN r.ids = 1 .. Len(r.ids) /\ Len(r.ids) \in Nat /\ Len(r.got) \in Nat
    BY <2>2
  <2>4. Taken(r) = DOMAIN r.ids
    BY <2>2, <2>3 DEF Taken
  <2>5. Cardinality(DOMAIN r.ids) = Len(r.ids)
    BY <2>3, FS_Interval, SMTT(20)
  <2>6. Cardinality(r.failed) \in Nat /\ Cardinality(DOMAIN r.flight) = 0
    BY <2>2, FinitePositions, FS_EmptySet, FS_CardinalityType
  <2>7. Arrived(r) \cup r.failed = DOMAIN r.ids
    BY <2>1, <2>2, <2>4 DEF Accounted
  <2>8. Len(r.got) + Cardinality(r.failed) + Cardinality(DOMAIN r.flight) = Len(r.ids)
    BY <2>1, <2>4, <2>5 DEF Accounted
  <2>9. Len(r.got) + Cardinality(r.failed) = Len(r.ids)
    BY <2>3, <2>6, <2>8
  <2>. QED BY <2>7, <2>9 DEF Arrived, ToSet, r
<1>. QED BY <1>1, RunInvInvariant, PTL

\* Whoever gets a document gets his own, of the files and in the form he asked
\* for, from the cache as well, whatever users and options there are
\* (generateExportCacheKey, getCachedExport, finalizeExport).
THEOREM ServedAsAsked == Spec => []ServedWhatWasAsked
<1>1. RunInv => ServedWhatWasAsked
  BY DEF RunInv, RunsOK, RunOK, For, ServedWhatWasAsked
<1>. QED BY <1>1, RunInvInvariant, PTL

\* A request that is answered or has its document left no directory behind,
\* unless its removal failed (convertMarkdownToPdf's finally).
THEOREM NoTempStays == Spec => []NoTempLeft
<1>1. RunInv => NoTempLeft
  BY DEF RunInv, RunsOK, RunOK, NoTempLeft
<1>. QED BY <1>1, RunInvInvariant, PTL

-----------------------------------------------------------------------------
\* Which step changes which execution.

\* A step of an execution leaves the others alone, unless it queues the export.
LEMMA OwnRun ==
  ASSUME RunsOK, NEW e \in Executions, Proceeds(e) \/ ExportProject(e) \/ TakeSlot(e)
  PROVE  \A d \in Executions \ {e} :
           run'[d] = run[d] \/ (GetCachedExport(e) /\ d = Background(e[1]))
<1>. DOMAIN run = Executions
  BY DEF RunsOK
<1>1. CASE GetCachedExport(e)
  BY <1>1 DEF GetCachedExport
<1>2. CASE StartRetrieval(e)
  BY <1>2 DEF StartRetrieval, Refuse
<1>3. CASE Fetches(e)
  BY <1>3 DEF Fetches, FileArrives, AttemptFails
<1>4. CASE NextBatch(e) \/ Retrieved(e)
  BY <1>4 DEF NextBatch, Retrieved, Refuse
<1>5. CASE ExportMarkdown(e)
  BY <1>5 DEF ExportMarkdown, Refuse
<1>6. CASE CreateTempDirectory(e)
  BY <1>6 DEF CreateTempDirectory, Refuse
<1>7. CASE ExecutePandoc(e) \/ CleanupTempDirectory(e)
  BY <1>7 DEF ExecutePandoc, CleanupTempDirectory
<1>8. CASE Complete(e) \/ FinalizeExport(e) \/ DropResult(e)
  BY <1>8 DEF Complete, FinalizeExport, DropResult
<1>9. CASE ExportProject(e) \/ TakeSlot(e)
  BY <1>9 DEF ExportProject, TakeSlot
<1>. QED BY <1>1, <1>2, <1>3, <1>4, <1>5, <1>6, <1>7, <1>8, <1>9 DEF Proceeds, Converts

\* A call that is looked up in the cache, and its run in the background.
LEMMA LookedUp ==
  ASSUME RunsOK, NEW e \in Executions, GetCachedExport(e)
  PROVE  /\ run[e].at = "cached" /\ run'[e].at \in {"answered", "start", "queued"}
         /\ LET b == Background(e[1]) IN run'[b] = run[b] \/ run'[b].at = "queued"
<1>. DEFINE r == run[e]
            b == Background(e[1])
            key == ExportKey(r.user, r.opts)
            waiting == [r EXCEPT !.at = "queued", !.opts.fileIds = key.fileIds]
            started == [r EXCEPT !.at = "start", !.opts.fileIds = key.fileIds]
            Hit(doc) == run' = [run EXCEPT ![e] = [r EXCEPT !.at = "answered", !.code = 200, !.doc = doc]]
<1>1. /\ r.at = "cached" /\ b # e /\ e \in DOMAIN run /\ b \in DOMAIN run
      /\ Shape(r)
  BY DEF GetCachedExport, Background, RunsOK, RunOK, Executions
<1>2. waiting.at = "queued" /\ started.at = "start"
  BY <1>1 DEF Shape
<1>3. \/ \E doc : Hit(doc)
      \/ run' = [run EXCEPT ![e] = started]
      \/ run' = [run EXCEPT ![e] = waiting, ![b] = waiting]
  <2>. DEFINE hits == {entry \in resultCache : entry.key = key}
  <2>1. CASE \E hit \in hits :
               run' = [run EXCEPT ![e].at = "answered", ![e].code = 200, ![e].doc = hit.doc]
    <3>1. PICK hit \in hits :
                 run' = [run EXCEPT ![e].at = "answered", ![e].code = 200, ![e].doc = hit.doc]
      BY <2>1
    <3>2. Hit(hit.doc)
      BY <3>1, ZenonT(60)
    <3>. HIDE DEF Hit, started, waiting
    <3>3. \E doc : Hit(doc)
      BY <3>2, Zenon
    <3>. QED BY <3>3
  <2>2. CASE run' = [run EXCEPT ![e].at = "start", ![e].opts.fileIds = key.fileIds]
    <3>1. run' = [run EXCEPT ![e] = started]
      BY <2>2
    <3>. QED BY <3>1
  <2>3. \/ \E hit \in hits :
             run' = [run EXCEPT ![e].at = "answered", ![e].code = 200, ![e].doc = hit.doc]
        \/ run' = [run EXCEPT ![e].at = "start", ![e].opts.fileIds = key.fileIds]
        \/ run' = [run EXCEPT ![e] = waiting, ![b] = waiting]
    BY Zenon DEF GetCachedExport
  <2>. HIDE DEF hits, waiting, started, Hit
  <2>. QED BY <2>1, <2>2, <2>3
<1>4. CASE \E doc : Hit(doc)
  <2>1. PICK doc : run' = [run EXCEPT ![e] = [r EXCEPT !.at = "answered", !.code = 200, !.doc = doc]]
    BY <1>4
  <2>. DEFINE q == [r EXCEPT !.at = "answered", !.code = 200, !.doc = doc]
  <2>2. q.at = "answered" /\ run' = [run EXCEPT ![e] = q]
    BY <1>1, <2>1 DEF Shape
  <2>. HIDE DEF q
  <2>. QED BY <1>1, <2>2
<1>. HIDE DEF waiting, started, Hit
<1>5. CASE run' = [run EXCEPT ![e] = started]
  BY <1>1, <1>2, <1>5
<1>6. CASE run' = [run EXCEPT ![e] = waiting, ![b] = waiting]
  BY <1>1, <1>2, <1>6
<1>. QED BY <1>1, <1>3, <1>4, <1>5, <1>6

\* Where an execution is before and after a step of its own.
LEMMA Proceeded ==
  ASSUME RunsOK, NEW e \in Executions, Proceeds(e)
  PROVE  /\ run[e].at \notin {"idle", "queued", "answered"}
         /\ run'[e].at \notin {"idle", "cached"}
         /\ run[e].at = "store" => run'[e].at = "answered" /\ run'[e].code = 200
<1>0. Shape(run[e]) /\ DOMAIN run = Executions
  BY DEF RunsOK, RunOK
<1>1. CASE GetCachedExport(e)
  <2>1. run[e].at = "cached" /\ run'[e].at \in {"answered", "start", "queued"}
    BY <1>1, LookedUp
  <2>. QED BY <2>1
<1>2. CASE StartRetrieval(e)
  BY <1>0, <1>2 DEF StartRetrieval, Refuse, Shape
<1>3. CASE Fetches(e)
  <2>1. run[e].at = "files" /\ run'[e].at = "files"
    BY <1>0, <1>3 DEF Fetches, FileArrives, AttemptFails, Shape
  <2>. QED BY <2>1
<1>4. CASE NextBatch(e) \/ Retrieved(e)
  <2>1. run[e].at \in {"files", "retrieved"} /\ run'[e].at \in {"files", "retrieved", "answered", "markdown"}
    BY <1>0, <1>4 DEF NextBatch, Retrieved, Refuse, Shape
  <2>. QED BY <2>1
<1>5. CASE ExportMarkdown(e) \/ CreateTempDirectory(e)
  <2>1. run[e].at \in {"markdown", "pdf"} /\ run'[e].at \in {"answered", "pdf", "finalize", "pandoc"}
    BY <1>0, <1>5 DEF ExportMarkdown, CreateTempDirectory, Refuse, Shape
  <2>. QED BY <2>1
<1>6. CASE ExecutePandoc(e) \/ CleanupTempDirectory(e)
  <2>1. CASE ExecutePandoc(e)
    <3>1. run[e].at = "pandoc" /\ run'[e].at = "cleanup"
      BY <1>0, <2>1 DEF ExecutePandoc, Shape
    <3>. QED BY <3>1
  <2>2. CASE CleanupTempDirectory(e)
    <3>1. run[e].at = "cleanup" /\ run'[e].at \in {"finalize", "answered"}
      BY <1>0, <2>2 DEF CleanupTempDirectory, Shape
    <3>. QED BY <3>1
  <2>. QED BY <1>6, <2>1, <2>2
<1>7. CASE Complete(e)
  BY <1>0, <1>7 DEF Complete, Shape
<1>8. CASE FinalizeExport(e) \/ DropResult(e)
  BY <1>0, <1>8 DEF FinalizeExport, DropResult, Shape
<1>. QED BY <1>1, <1>2, <1>3, <1>4, <1>5, <1>6, <1>7, <1>8 DEF Proceeds, Converts

\* Nothing is executed in the background of a request that has not been queued.
BackgroundLater ==
  \A x \in Exports :
    run[Request(x)].at \in {"idle", "cached"} => run[Background(x)].at = "idle"

LEMMA OneExecution ==
  ASSUME RunInv, BackgroundLater, [Next]_vars, NEW d \in Executions
  PROVE  \/ run'[d] = run[d]
         \/ Proceeds(d)
         \/ ExportProject(d)
         \/ TakeSlot(d)
         \/ /\ run[d].at = "idle" /\ d = Background(d[1])
            /\ GetCachedExport(Request(d[1]))
<1>1. ASSUME NEW e \in Executions, e # d, Proceeds(e) \/ ExportProject(e) \/ TakeSlot(e)
      PROVE  \/ run'[d] = run[d]
             \/ /\ run[d].at = "idle" /\ d = Background(d[1])
                /\ GetCachedExport(Request(d[1]))
  <2>1. CASE GetCachedExport(e) /\ d = Background(e[1])
    <3>1. e[1] \in Exports /\ e = Request(e[1]) /\ d[1] = e[1]
      BY <2>1 DEF GetCachedExport, Executions, Request, Background
    <3>2. run[Request(e[1])].at = "cached"
      BY <2>1, <3>1 DEF GetCachedExport
    <3>3. run[d].at = "idle"
      BY <2>1, <3>1, <3>2 DEF BackgroundLater
    <3>. QED BY <2>1, <3>1, <3>3
  <2>. QED BY <1>1, <2>1, OwnRun DEF RunInv
<1>2. ASSUME NEW x \in Exports, PollMisses(x) \/ PollCaches(x) \/ ExpireStatus(x) PROVE run' = run
  BY <1>2 DEF PollMisses, PollCaches, ExpireStatus
<1>3. ExpireResult \/ UNCHANGED vars => run' = run
  BY DEF ExpireResult, vars
<1>. QED BY <1>1, <1>2, <1>3 DEF Next

LEMMA BackgroundNext == RunInv /\ BackgroundLater /\ [Next]_vars => BackgroundLater'
<1>. SUFFICES ASSUME RunInv, BackgroundLater, [Next]_vars,
                     NEW x \in Exports, run'[Request(x)].at \in {"idle", "cached"}
              PROVE  run'[Background(x)].at = "idle"
  BY DEF BackgroundLater, Request, Background
<1>. DEFINE q == Request(x)
            b == Background(x)
<1>0. /\ q \in Executions /\ b \in Executions /\ q # b /\ q[2] = "request" /\ b[2] = "background"
      /\ b[1] = x /\ Request(b[1]) = q /\ RunsOK /\ q # Background(q[1])
  BY DEF Executions, Request, Background, RunInv
<1>. HIDE DEF q, b
<1>1. run[q].at \in {"idle", "cached"}
  <2>1. CASE Proceeds(q)
    BY <1>0, <2>1, Proceeded DEF q
  <2>2. CASE ExportProject(q)
    BY <2>2 DEF ExportProject
  <2>3. CASE TakeSlot(q)
    <3>1. DOMAIN run = Executions /\ Shape(run[q])
      BY <1>0 DEF RunsOK, RunOK
    <3>2. run'[q].at = "start"
      BY <1>0, <2>3, <3>1 DEF TakeSlot, Shape
    <3>. QED BY <3>2 DEF q
  <2>. QED BY <1>0, <2>1, <2>2, <2>3, OneExecution DEF q
<1>2. run[b].at = "idle"
  BY <1>1 DEF BackgroundLater, q, b
<1>3. ~Proceeds(b) /\ ~TakeSlot(b) /\ ~ExportProject(b)
  BY <1>0, <1>2, Proceeded DEF TakeSlot, ExportProject
<1>4. ~GetCachedExport(q)
  <2>1. GetCachedExport(q) => run'[q].at \notin {"idle", "cached"}
    BY <1>0, Proceeded DEF Proceeds
  <2>. QED BY <2>1 DEF q
<1>5. run'[b] = run[b]
  BY <1>0, <1>3, <1>4, OneExecution
<1>. QED BY <1>2, <1>5 DEF b

LEMMA BackgroundInvariant == Spec => []BackgroundLater
<1>1. Init => BackgroundLater
  BY DEF Init, BackgroundLater, NoRun, Executions, Request, Background
<1>. QED BY <1>1, BackgroundNext, RunInvInvariant, PTL DEF Spec

-----------------------------------------------------------------------------
\* The reported status.

\* A document that is made stays so.
LEMMA DocumentStays ==
  ASSUME RunInv, BackgroundLater, [Next]_vars, NEW d \in Executions, HasDocument(d)
  PROVE  HasDocument(d)'
<1>0. RunsOK /\ run[d].at \in {"store", "answered"}
  BY DEF RunInv, HasDocument
<1>1. CASE Proceeds(d)
  BY <1>0, <1>1, Proceeded DEF HasDocument
<1>2. ~ExportProject(d) /\ ~TakeSlot(d) /\ run[d].at # "idle"
  BY <1>0 DEF ExportProject, TakeSlot
<1>. QED BY <1>1, <1>2, OneExecution DEF HasDocument

\* Only the last report of an execution says "completed".
LEMMA Reported ==
  ASSUME DOMAIN status = Exports, [Next]_vars
  PROVE  /\ DOMAIN status' = Exports
         /\ \A x \in Exports : status'[x] = "completed" =>
              status[x] = "completed" \/ \E e \in Executions : e[1] = x /\ Complete(e)
<1>. DEFINE Goal == /\ DOMAIN status' = Exports
                    /\ \A x \in Exports : status'[x] = "completed" =>
                         status[x] = "completed" \/ \E e \in Executions : e[1] = x /\ Complete(e)
<1>1. ASSUME NEW e \in Executions, StartRetrieval(e) \/ Retrieved(e) PROVE Goal
  <2>1. status' = status \/ status' = [status EXCEPT ![e[1]] = "processing"]
    BY <1>1 DEF StartRetrieval, Retrieved, Progress
  <2>. QED BY <2>1
<1>2. ASSUME NEW e \in Executions, Complete(e) PROVE Goal
  <2>1. status' = status \/ status' = [status EXCEPT ![e[1]] = "completed"]
    BY <1>2 DEF Complete, Progress
  <2>. QED BY <1>2, <2>1
<1>3. ASSUME NEW e \in Executions, ~(StartRetrieval(e) \/ Retrieved(e) \/ Complete(e)),
             ExportProject(e) \/ TakeSlot(e) \/ Proceeds(e)
      PROVE  status' = status
  BY <1>3 DEF ExportProject, TakeSlot, Proceeds, GetCachedExport, Fetches, FileArrives, AttemptFails,
              NextBatch, Converts, ExportMarkdown, CreateTempDirectory, ExecutePandoc,
              CleanupTempDirectory, FinalizeExport, DropResult
<1>4. ASSUME NEW x \in Exports, PollMisses(x) \/ PollCaches(x) \/ ExpireStatus(x) PROVE Goal
  BY <1>4, PipelineAssumption DEF PollMisses, PollCaches, ExpireStatus
<1>5. ExpireResult \/ UNCHANGED vars => status' = status
  BY DEF ExpireResult, vars
<1>6. status' = status => Goal
  OBVIOUS
<1>. HIDE DEF Goal
<1>7. Goal
  BY <1>1, <1>2, <1>3, <1>4, <1>5, <1>6 DEF Next
<1>. QED BY <1>7 DEF Goal

CompletedInv == DOMAIN status = Exports /\ CompletedIsTrue

LEMMA CompletedInvNext ==
  RunInv /\ BackgroundLater /\ CompletedInv /\ [Next]_vars => CompletedInv'
<1>. SUFFICES ASSUME RunInv, BackgroundLater, CompletedInv, [Next]_vars PROVE CompletedInv'
  OBVIOUS
<1>1. DOMAIN status' = Exports
  BY Reported DEF CompletedInv
<1>2. ASSUME NEW x \in Exports, status'[x] = "completed"
      PROVE  HasDocument(Request(x))' \/ HasDocument(Background(x))'
  <2>0. Request(x) \in Executions /\ Background(x) \in Executions
    BY DEF Executions, Request, Background
  <2>1. CASE status[x] = "completed"
    <3>1. HasDocument(Request(x)) \/ HasDocument(Background(x))
      BY <2>1 DEF CompletedInv, CompletedIsTrue
    <3>. QED BY <2>0, <3>1, DocumentStays
  <2>2. ASSUME NEW e \in Executions, e[1] = x, Complete(e)
        PROVE  HasDocument(Request(x))' \/ HasDocument(Background(x))'
    <3>1. DOMAIN run = Executions /\ Shape(run[e])
      BY DEF RunInv, RunsOK, RunOK
    <3>2. run'[e].at = "store"
      BY <2>2, <3>1 DEF Complete, Shape
    <3>3. e = Request(x) \/ e = Background(x)
      BY <2>2 DEF Executions, Request, Background
    <3>. QED BY <3>2, <3>3 DEF HasDocument
  <2>. QED BY <1>2, <2>1, <2>2, Reported DEF CompletedInv
<1>. QED BY <1>1, <1>2 DEF CompletedInv, CompletedIsTrue, Request, Background

\* An export is reported "completed" only when one of its executions made its
\* document, for any number of exports that queue, in whatever order the request
\* and the background run report, lose and return their common slot, and are
\* polled (updateExportProgress, releaseExportSlot, getExportStatus).
THEOREM CompletedStaysTrue == Spec => []CompletedIsTrue
<1>1. Init => CompletedInv
  BY PipelineAssumption DEF Init, CompletedInv, CompletedIsTrue
<1>2. CompletedInv => CompletedIsTrue
  BY DEF CompletedInv
<1>. QED BY <1>1, <1>2, CompletedInvNext, RunInvInvariant, BackgroundInvariant, PTL DEF Spec

-----------------------------------------------------------------------------
\* Why an export ends.

\* How many stages lie before a run that is `at'.
StagesLeft(at) ==
  CASE at = "cached" -> 11 [] at = "queued" -> 10 [] at = "start" -> 9 [] at = "files" -> 8 [] at = "retrieved" -> 7
    [] at = "markdown" -> 6 [] at = "pdf" -> 5 [] at = "pandoc" -> 4 [] at = "cleanup" -> 3
    [] at = "finalize" -> 2 [] at = "store" -> 1 [] OTHER -> 0

\* Run q is nearer its end than r: it has fewer stages left; or, among the
\* files, a batch less to fetch; or, in one batch, a file less under way, or one
\* file of it an attempt less.
Nearer(q, r) ==
  \/ StagesLeft(q.at) < StagesLeft(r.at)
  \/ /\ r.at = "files" /\ q.at = "files" /\ q.ids = r.ids
     /\ \/ r.upto < Len(r.ids) /\ q.upto = r.upto + BATCH_SIZE
        \/ /\ q.upto = r.upto
           /\ \E i \in DOMAIN r.flight :
                \/ q.flight = Landed(r.flight, i)
                \/ r.flight[i] <= maxRetries /\ q.flight = [r.flight EXCEPT ![i] = @ + 1]

\* A file under way is at its first attempt, or at one of maxRetries more.
AttemptsCounted ==
  \A e \in Executions : run[e].at = "files" =>
    \A i \in DOMAIN run[e].flight : run[e].flight[i] \in 1 .. maxRetries + 1

\* Whatever answers an execution awaits brings it nearer its end, and nothing else
\* changes one that has begun and does not wait for a slot.
RunsDown ==
  [][\A e \in Exports \X {"request", "background"} :
       /\ Proceeds(e) => Nearer(run[e]', run[e])
       /\ \/ run[e]' = run[e] \/ Proceeds(e)
          \/ run[e].at \in {"idle", "queued"}]_vars

\* Every stage but the retrieval is one step.
LEMMA StagePasses ==
  ASSUME RunsOK, NEW e \in Executions,
         GetCachedExport(e) \/ StartRetrieval(e) \/ Retrieved(e) \/ Converts(e)
  PROVE  /\ StagesLeft(run'[e].at) < StagesLeft(run[e].at)
         /\ run'[e].at = "files" => /\ StartRetrieval(e)
                                    /\ run'[e].flight = Batch(IdsOf(run[e].opts), 0)
<1>. DEFINE r == run[e]
<1>0. Shape(r) /\ DOMAIN run = Executions
  BY DEF RunsOK, RunOK
<1>1. CASE GetCachedExport(e)
  <2>1. r.at = "cached" /\ run'[e].at \in {"answered", "start", "queued"}
    BY <1>1, LookedUp
  <2>. QED BY <2>1 DEF StagesLeft
<1>2. CASE StartRetrieval(e)
  <2>1. /\ r.at = "start" /\ run'[e].at \in {"answered", "files"}
        /\ run'[e].at = "files" => run'[e].flight = Batch(IdsOf(r.opts), 0)
    BY <1>0, <1>2 DEF StartRetrieval, Refuse, Shape
  <2>. QED BY <1>2, <2>1 DEF StagesLeft
<1>3. CASE Retrieved(e)
  <2>1. r.at = "retrieved" /\ run'[e].at \in {"answered", "markdown"}
    BY <1>0, <1>3 DEF Retrieved, Refuse, Shape
  <2>. QED BY <2>1 DEF StagesLeft
<1>4. CASE ExportMarkdown(e)
  <2>1. r.at = "markdown" /\ run'[e].at \in {"answered", "pdf", "finalize"}
    BY <1>0, <1>4 DEF ExportMarkdown, Refuse, Shape
  <2>. QED BY <2>1 DEF StagesLeft
<1>5. CASE CreateTempDirectory(e)
  <2>1. r.at = "pdf" /\ run'[e].at \in {"answered", "pandoc"}
    BY <1>0, <1>5 DEF CreateTempDirectory, Refuse, Shape
  <2>. QED BY <2>1 DEF StagesLeft
<1>6. CASE ExecutePandoc(e)
  <2>1. r.at = "pandoc" /\ run'[e].at = "cleanup"
    BY <1>0, <1>6 DEF ExecutePandoc, Shape
  <2>. QED BY <2>1 DEF StagesLeft
<1>7. CASE CleanupTempDirectory(e)
  <2>1. r.at = "cleanup" /\ run'[e].at \in {"finalize", "answered"}
    BY <1>0, <1>7 DEF CleanupTempDirectory, Shape
  <2>. QED BY <2>1 DEF StagesLeft
<1>8. CASE Complete(e)
  <2>1. r.at = "finalize" /\ run'[e].at = "store"
    BY <1>0, <1>8 DEF Complete, Shape
  <2>. QED BY <2>1 DEF StagesLeft
<1>9. CASE FinalizeExport(e) \/ DropResult(e)
  <2>1. r.at = "store" /\ run'[e].at = "answered"
    BY <1>0, <1>9 DEF FinalizeExport, DropResult, Shape
  <2>. QED BY <2>1 DEF StagesLeft
<1>. QED BY <1>1, <1>2, <1>3, <1>4, <1>5, <1>6, <1>7, <1>8, <1>9 DEF Converts

\* What an answer of storage, or the end of a batch, makes of the run.
LEMMA FilesPass ==
  ASSUME RunsOK, NEW e \in Executions, Fetches(e) \/ NextBatch(e)
  PROVE  LET r == run[e] q == run'[e] IN
         /\ r.at = "files" /\ q.ids = r.ids
         /\ \/ q.at = "retrieved"
            \/ /\ q.at = "files" /\ r.upto < Len(r.ids) /\ q.upto = r.upto + BATCH_SIZE
               /\ q.flight = Batch(r.ids, r.upto)
            \/ /\ q.at = "files" /\ q.upto = r.upto
               /\ \E i \in DOMAIN r.flight :
                    \/ q.flight = Landed(r.flight, i)
                    \/ r.flight[i] <= maxRetries /\ q.flight = [r.flight EXCEPT ![i] = @ + 1]
<1>. DEFINE r == run[e]
<1>0. Shape(r) /\ DOMAIN run = Executions
  BY DEF RunsOK, RunOK
<1>1. CASE NextBatch(e)
  BY <1>0, <1>1 DEF NextBatch, Shape
<1>2. CASE Fetches(e)
  <2>1. PICK i \in DOMAIN r.flight : FileArrives(e, i) \/ AttemptFails(e, i)
    BY <1>2 DEF Fetches
  <2>2. CASE FileArrives(e, i)
    <3>1. r.at = "files" /\ run'[e].at = "files" /\ run'[e].ids = r.ids /\ run'[e].upto = r.upto
          /\ run'[e].flight = Landed(r.flight, i)
      BY <1>0, <2>2 DEF FileArrives, Shape
    <3>. QED BY <2>1, <3>1
  <2>3. CASE AttemptFails(e, i)
    <3>1. r.at = "files" /\ run'[e].at = "files" /\ run'[e].ids = r.ids /\ run'[e].upto = r.upto
      BY <1>0, <2>3 DEF AttemptFails, Shape
    <3>2. \/ run'[e].flight = Landed(r.flight, i)
          \/ r.flight[i] <= maxRetries /\ run'[e].flight = [r.flight EXCEPT ![i] = @ + 1]
      BY <1>0, <2>3 DEF AttemptFails, Shape
    <3>. QED BY <2>1, <3>1, <3>2
  <2>. QED BY <2>1, <2>2, <2>3
<1>. QED BY <1>1, <1>2

LEMMA AttemptsNext ==
  RunInv /\ BackgroundLater /\ AttemptsCounted /\ [Next]_vars => AttemptsCounted'
<1>. SUFFICES ASSUME RunInv, BackgroundLater, AttemptsCounted, [Next]_vars,
                     NEW e \in Executions, run'[e].at = "files", NEW i \in DOMAIN run'[e].flight
              PROVE  run'[e].flight[i] \in 1 .. maxRetries + 1
  BY DEF AttemptsCounted
<1>0. RunsOK /\ maxRetries \in Nat
  BY PipelineAssumption DEF RunInv
<1>1. ASSUME NEW ids, NEW from, run'[e].flight = Batch(ids, from)
      PROVE  run'[e].flight[i] \in 1 .. maxRetries + 1
  <2>1. run'[e].flight[i] = 1
    BY <1>1 DEF Batch
  <2>. QED BY <1>0, <2>1
<1>2. CASE run'[e] = run[e]
  BY <1>2 DEF AttemptsCounted
<1>3. CASE Fetches(e) \/ NextBatch(e)
  <2>. DEFINE r == run[e]
  <2>1. r.at = "files" => \A j \in DOMAIN r.flight : r.flight[j] \in 1 .. maxRetries + 1
    BY DEF AttemptsCounted
  <2>2. /\ r.at = "files"
        /\ \/ run'[e].flight = Batch(r.ids, r.upto)
           \/ \E j \in DOMAIN r.flight :
                \/ run'[e].flight = Landed(r.flight, j)
                \/ r.flight[j] <= maxRetries /\ run'[e].flight = [r.flight EXCEPT ![j] = @ + 1]
    <3>1. run'[e].at # "retrieved"
      OBVIOUS
    <3>. QED BY <1>0, <1>3, <3>1, FilesPass, Zenon
  <2>3. CASE \E j \in DOMAIN r.flight : run'[e].flight = Landed(r.flight, j)
    BY <2>1, <2>2, <2>3 DEF Landed
  <2>4. ASSUME NEW j \in DOMAIN r.flight, r.flight[j] <= maxRetries,
               run'[e].flight = [r.flight EXCEPT ![j] = @ + 1]
        PROVE  run'[e].flight[i] \in 1 .. maxRetries + 1
    <3>1. i \in DOMAIN r.flight /\ run'[e].flight[i] = IF i = j THEN r.flight[j] + 1 ELSE r.flight[i]
      BY <2>4
    <3>2. r.flight[j] \in 1 .. maxRetries + 1 /\ r.flight[i] \in 1 .. maxRetries + 1
      BY <2>1, <2>2, <3>1
    <3>. QED BY <1>0, <2>4, <3>1, <3>2
  <2>. QED BY <1>1, <2>2, <2>3, <2>4
<1>4. CASE GetCachedExport(e) \/ StartRetrieval(e) \/ Retrieved(e) \/ Converts(e)
  BY <1>0, <1>1, <1>4, StagePasses
<1>5. CASE ExportProject(e) \/ TakeSlot(e)
  <2>1. run'[e].at \in {"answered", "cached", "start"}
    <3>1. DOMAIN run = Executions /\ Shape(run[e])
      BY <1>0 DEF RunsOK, RunOK
    <3>2. CASE ExportProject(e)
      BY <3>1, <3>2 DEF ExportProject, NoRun
    <3>3. CASE TakeSlot(e)
      BY <3>1, <3>3 DEF TakeSlot, Shape
    <3>. QED BY <1>5, <3>2, <3>3
  <2>. QED BY <2>1
<1>6. CASE e = Background(e[1]) /\ GetCachedExport(Request(e[1]))
  <2>. DEFINE q == Request(e[1])
  <2>1. q \in Executions /\ Background(q[1]) = e
    BY <1>6 DEF Executions, Request, Background
  <2>2. GetCachedExport(q)
    BY <1>6
  <2>. HIDE DEF q
  <2>3. run'[e].at = "queued" \/ run'[e] = run[e]
    BY <1>0, <2>1, <2>2, LookedUp
  <2>. QED BY <1>2, <2>3
<1>. QED BY <1>2, <1>3, <1>4, <1>5, <1>6, OneExecution DEF Proceeds

\* Whatever storage and the converters do, and however many exports there are:
\* an export has ten stages, fetches the files of a batch at most maxRetries + 1
\* times each, and every answer it awaits brings it nearer its end.  With
\* answers or timeouts (the fairness) this is why every export is answered.
THEOREM ExportsRunDown == Spec => RunsDown /\ []AttemptsCounted
<1>1. Init => AttemptsCounted
  BY DEF Init, NoRun, AttemptsCounted
<1>2. RunInv /\ BackgroundLater /\ [Next]_vars =>
        [\A e \in Exports \X {"request", "background"} :
           /\ Proceeds(e) => Nearer(run[e]', run[e])
           /\ \/ run[e]' = run[e] \/ Proceeds(e)
              \/ run[e].at \in {"idle", "queued"}]_vars
  <2>. SUFFICES ASSUME RunInv, BackgroundLater, Next, NEW e \in Executions
                PROVE  /\ Proceeds(e) => Nearer(run'[e], run[e])
                       /\ run'[e] = run[e] \/ Proceeds(e) \/ run[e].at \in {"idle", "queued"}
    BY DEF Executions
  <2>0. RunsOK
    BY DEF RunInv
  <2>1. CASE Fetches(e) \/ NextBatch(e)
    <3>1. StagesLeft("retrieved") < StagesLeft("files")
      BY DEF StagesLeft
    <3>2. Nearer(run'[e], run[e])
      BY <2>0, <2>1, <3>1, FilesPass DEF Nearer
    <3>. QED BY <2>1, <3>2 DEF Proceeds
  <2>2. CASE GetCachedExport(e) \/ StartRetrieval(e) \/ Retrieved(e) \/ Converts(e)
    BY <2>0, <2>2, StagePasses DEF Nearer, Proceeds
  <2>3. CASE ~Proceeds(e)
    <3>1. ExportProject(e) \/ TakeSlot(e) => run[e].at \in {"idle", "queued"}
      BY DEF ExportProject, TakeSlot
    <3>2. [Next]_vars
      OBVIOUS
    <3>3. run'[e] = run[e] \/ run[e].at \in {"idle", "queued"}
      <4>. HIDE DEF RunInv
      <4>. QED BY <2>3, <3>1, <3>2, OneExecution, Zenon
    <3>. QED BY <2>3, <3>3
  <2>. QED BY <2>1, <2>2, <2>3 DEF Proceeds
<1>. QED BY <1>1, <1>2, AttemptsNext, RunInvInvariant, BackgroundInvariant, PTL DEF Spec, RunsDown
=============================================================================
