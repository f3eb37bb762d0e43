----------------------------- MODULE CachesProofs -----------------------------
(***************************************************************************)
(* Proofs about Caches, for any clients, keys, projects, queries and       *)
(* services, any TTLs, and commands that fail or not.                      *)
(***************************************************************************)
EXTENDS Caches, FiniteSetTheorems, TLAPS

-----------------------------------------------------------------------------
\* What the parts leave alone.

LEMMA ProbesTouchNoCache == HealthNext => UNCHANGED vars
BY DEF HealthNext, Connect, Select, AttemptFails, Restart, ChangeDatabase, Probe, CheckDatabase,
       CheckCacheTimeout, CheckCache, Answer, TestSet, TestGet, TestDel, Test, CheckExternalServices

\* The lists take no locks.
LEMMA ListsTakeNoLock ==
  ASSUME NEW c, FindAll(c) \/ Proceed(c) \/ Write(c) \/ Tick
  PROVE  lock' = lock /\ believes' = believes
BY DEF FindAll, Proceed, CacheHit, CacheMiss, FindByOwner, Fill, Served, Write, Tick, vars

-----------------------------------------------------------------------------
\* Locks.

LockOK ==
  /\ believes \in [Clients -> BOOLEAN]
  /\ lock # NoLock => lock \in [holder : Clients, left : Nat \ {0}]

\* What a step does to the lock.
Undisturbed ==
  lock # NoLock /\ lock.left > 1 /\ (lock' = NoLock \/ lock'.holder # lock.holder) =>
    believes[lock.holder] /\ ~believes'[lock.holder]

LEMMA LockStep == LockOK /\ [CachesNext]_CachesVars => LockOK' /\ Undisturbed
<1>. SUFFICES ASSUME LockOK, [CachesNext]_CachesVars PROVE LockOK' /\ Undisturbed
  OBVIOUS
<1>1. CASE lock' = lock /\ believes' = believes
  BY <1>1 DEF LockOK, Undisturbed
<1>2. ASSUME NEW c \in Clients, AcquireLock(c) PROVE LockOK' /\ Undisturbed
  <2>1. /\ lock = NoLock /\ lock' \in [holder : Clients, left : Nat \ {0}]
        /\ believes' \in {believes, [believes EXCEPT ![c] = TRUE]}
    BY <1>2, CacheAssumption DEF AcquireLock
  <2>. QED BY <2>1 DEF LockOK, Undisturbed
<1>3. ASSUME NEW c \in Clients, ReleaseLock(c) PROVE LockOK' /\ Undisturbed
  <2>1. /\ believes[c] /\ believes' = [believes EXCEPT ![c] = FALSE]
        /\ lock' = lock \/ (lock # NoLock /\ lock.holder = c /\ lock' = NoLock)
    BY <1>3 DEF ReleaseLock
  <2>. QED BY <2>1 DEF LockOK, Undisturbed
<1>4. CASE LockTick
  <2>. DEFINE later == [lock EXCEPT !.left = @ - 1]
  <2>1. lock \in [holder : Clients, left : Nat \ {0}] /\ believes' = believes
    BY <1>4 DEF LockTick, LockOK
  <2>2. CASE lock.left = 1 /\ lock' = NoLock
    BY <2>1, <2>2 DEF LockOK, Undisturbed
  <2>3. CASE lock.left # 1 /\ lock' = later
    <3>1. later \in [holder : Clients, left : Nat \ {0}] /\ later.holder = lock.holder
      BY <2>1, <2>3
    <3>2. later # NoLock
      BY <3>1, CacheAssumption
    <3>. HIDE DEF later
    <3>. QED BY <2>1, <2>3, <3>1, <3>2 DEF LockOK, Undisturbed
  <2>. QED BY <1>4, <2>2, <2>3 DEF LockTick
<1>5. ASSUME NEW c \in Clients, Begin(c) \/ Command(c) PROVE lock' = lock /\ believes' = believes
  BY <1>5 DEF Begin, Command, Get, Set, Del, KeysCommand
<1>6. ASSUME NEW k, ExpireKey(k) \/ Reconnect PROVE lock' = lock /\ believes' = believes
  BY <1>6 DEF ExpireKey, Reconnect
<1>7. CASE Next
  BY <1>1, <1>2, <1>3, <1>4, <1>5, <1>6, <1>7 DEF Next
<1>8. ASSUME NEW c, FindAll(c) \/ Proceed(c) \/ Write(c) \/ Tick PROVE LockOK' /\ Undisturbed
  BY <1>1, <1>8, ListsTakeNoLock
<1>9. CASE HealthNext \/ UNCHANGED CachesVars
  BY <1>1, <1>9, ProbesTouchNoCache DEF CachesVars, vars
<1>. QED BY <1>7, <1>8, <1>9 DEF CachesNext, ListingNext

\* A lock ends before its time by its holder alone: not by a client whose own
\* lock expired meanwhile (releaseLock's compare and delete), with any number
\* of clients and any lifetime.
THEOREM LocksUndisturbed == CachesSpec => LockUndisturbed
<1>1. CachesInit => LockOK
  BY DEF CachesInit, ListingInit, Init, LockOK
<1>2. LockOK /\ [CachesNext]_CachesVars => [Undisturbed]_vars
  BY LockStep
<1>3. CachesSpec => [][Undisturbed]_vars
  BY <1>1, <1>2, LockStep, PTL DEF CachesSpec
<1>. QED BY <1>3 DEF LockUndisturbed, Undisturbed

-----------------------------------------------------------------------------
\* Invalidations: what their commands still have to delete.

Steps == [cmd : {"del", "keys"}, keys : SUBSET Keys]
Remaining(steps) == UNION {steps[i].keys : i \in DOMAIN steps}

CallShape(r) ==
  /\ DOMAIN r = {"op", "key", "attempt", "steps", "covered", "writes"}
  /\ r.steps \in Seq(Steps)
  /\ r.op # "invalidate" => r.covered = {}

\* Of the keys to forget, those present were written meanwhile or are still to
\* be deleted.
Left(r, keys) == r.covered \cap keys \subseteq r.writes \cup Remaining(r.steps)

CallsOK ==
  /\ DOMAIN call = Clients
  /\ \A c \in Clients : CallShape(call[c]) /\ (~prefixed => Left(call[c], store))

Finished ==
  \A c \in Clients : call[c].op = "invalidate" /\ call'[c].op = "none" /\ ~prefixed =>
    call[c].covered \cap store' \subseteq call[c].writes

LEMMA AddsKeys ==
  ASSUME NEW steps, NEW i \in DOMAIN steps
  PROVE  steps[i].keys \subseteq Remaining(steps)
BY DEF Remaining

LEMMA FirstStep ==
  ASSUME NEW steps \in Seq(Steps), steps # <<>>
  PROVE  /\ Head(steps) \in Steps /\ Tail(steps) \in Seq(Steps)
         /\ Head(steps) = steps[1] /\ 1 \in DOMAIN steps
         /\ Remaining(steps) \subseteq Head(steps).keys \cup Remaining(Tail(steps))
<1>1. /\ Head(steps) \in Steps /\ Tail(steps) \in Seq(Steps) /\ Head(steps) = steps[1]
      /\ DOMAIN steps = 1 .. Len(steps) /\ Len(steps) \in Nat /\ Len(steps) # 0
      /\ DOMAIN Tail(steps) = 1 .. (Len(steps) - 1)
      /\ \A i \in 1 .. (Len(steps) - 1) : Tail(steps)[i] = steps[i + 1]
  OBVIOUS
<1>2. ASSUME NEW i \in DOMAIN steps PROVE steps[i].keys \subseteq Head(steps).keys \cup Remaining(Tail(steps))
  <2>1. CASE i = 1
    BY <1>1, <2>1
  <2>2. CASE i # 1
    <3>1. i - 1 \in DOMAIN Tail(steps) /\ Tail(steps)[i - 1] = steps[i]
      BY <1>1, <2>2
    <3>. QED BY <3>1, AddsKeys
  <2>. QED BY <2>1, <2>2
<1>3. Remaining(steps) \subseteq Head(steps).keys \cup Remaining(Tail(steps))
  BY <1>2 DEF Remaining
<1>. QED BY <1>1, <1>3

LEMMA NoStep == Remaining(<<>>) = {} /\ <<>> \in Seq(Steps)
BY DEF Remaining

LEMMA StepForms ==
  ASSUME NEW kinds, NEW of
  PROVE  /\ Matching(kinds, of) \in Steps /\ OfProject(kinds, of) \in Steps
         /\ \A k \in Keys : k.kind \in kinds /\ k.of = of =>
              k \in Matching(kinds, of).keys /\ k \in OfProject(kinds, of).keys
         /\ \A k \in Keys : of = "*" /\ k.kind \in kinds => k \in Matching(kinds, of).keys
BY DEF Matching, OfProject, DelKeys, Steps

Invalidations == {"invalidateProjectCache", "invalidateUserProjectsCache", "invalidateStatisticsCache"}

\* The commands of an invalidation reach every key it is documented to forget.
LEMMA PlanCovers ==
  ASSUME NEW op \in Invalidations, NEW p, NEW u
  PROVE  /\ Plan(op, p, u) \in Seq(Steps)
         /\ Covered(op, p, u) \subseteq Remaining(Plan(op, p, u))
<1>1. CASE op = "invalidateProjectCache"
  <2>. DEFINE a == OfProject({"project", "project-full", "stats-project", "files-list"}, p)
              b == Matching({"list"}, u)
              c == Matching({"count"}, u)
              steps == <<a, b, c>>
  <2>1. Plan(op, p, u) = steps
    BY <1>1 DEF Plan
  <2>2. a \in Steps /\ b \in Steps /\ c \in Steps
    BY StepForms
  <2>3. ASSUME NEW k \in Covered(op, p, u) PROVE k \in a.keys \cup b.keys \cup c.keys
    <3>1. /\ k \in Keys
          /\ \/ k.of = p /\ k.kind \in {"project", "project-full", "stats-project", "files-list"}
             \/ k.of = u /\ k.kind \in {"list", "count"}
      BY <1>1 DEF Covered
    <3>2. k.kind \in {"list", "count"} => k.kind \in {"list"} \/ k.kind \in {"count"}
      OBVIOUS
    <3>. QED BY <3>1, <3>2, StepForms
  <2>. HIDE DEF a, b, c
  <2>4. steps \in Seq(Steps) /\ 1 \in DOMAIN steps /\ 2 \in DOMAIN steps /\ 3 \in DOMAIN steps
        /\ steps[1] = a /\ steps[2] = b /\ steps[3] = c
    BY <2>2
  <2>. HIDE DEF steps
  <2>5. a.keys \cup b.keys \cup c.keys \subseteq Remaining(steps)
    BY <2>4, AddsKeys
  <2>. QED BY <2>1, <2>3, <2>4, <2>5
<1>2. CASE op = "invalidateUserProjectsCache"
  <2>. DEFINE a == Matching({"list"}, u)
              b == Matching({"count"}, u)
              c == Matching({"session"}, u)
              d == OfProject({"user-summary"}, u)
              steps == <<a, b, c, d>>
  <2>1. Plan(op, p, u) = steps
    BY <1>2 DEF Plan
  <2>2. a \in Steps /\ b \in Steps /\ c \in Steps /\ d \in Steps
    BY StepForms
  <2>3. ASSUME NEW k \in Covered(op, p, u) PROVE k \in a.keys \cup b.keys \cup c.keys \cup d.keys
    <3>1. k \in Keys /\ k.of = u /\ k.kind \in {"list", "count", "session", "user-summary"}
      BY <1>2 DEF Covered
    <3>2. \/ k.kind \in {"list"} \/ k.kind \in {"count"} \/ k.kind \in {"session"}
          \/ k.kind \in {"user-summary"}
      BY <3>1
    <3>. QED BY <3>1, <3>2, StepForms
  <2>. HIDE DEF a, b, c, d
  <2>4. steps \in Seq(Steps) /\ 1 \in DOMAIN steps /\ 2 \in DOMAIN steps /\ 3 \in DOMAIN steps
        /\ 4 \in DOMAIN steps /\ steps[1] = a /\ steps[2] = b /\ steps[3] = c /\ steps[4] = d
    BY <2>2
  <2>. HIDE DEF steps
  <2>5. a.keys \cup b.keys \cup c.keys \cup d.keys \subseteq Remaining(steps)
    BY <2>4, AddsKeys
  <2>. QED BY <2>1, <2>3, <2>4, <2>5
<1>3. CASE op = "invalidateStatisticsCache"
  <2>. DEFINE a == IF p = "*" THEN Matching({"stats-project", "user-summary"}, "*")
                   ELSE OfProject({"stats-project", "project-full"}, p)
              steps == <<a>>
  <2>1. Plan(op, p, u) = steps
    BY <1>3 DEF Plan
  <2>2. a \in Steps
    BY StepForms
  <2>3. ASSUME NEW k \in Covered(op, p, u) PROVE k \in a.keys
    <3>1. /\ k \in Keys
          /\ IF p = "*" THEN k.kind \in {"stats-project", "user-summary"}
             ELSE k.of = p /\ k.kind \in {"stats-project", "project-full"}
      BY <1>3 DEF Covered
    <3>. QED BY <3>1, StepForms
  <2>. HIDE DEF a
  <2>4. steps \in Seq(Steps) /\ 1 \in DOMAIN steps /\ steps[1] = a
    BY <2>2
  <2>. HIDE DEF steps
  <2>5. a.keys \subseteq Remaining(steps)
    BY <2>4, AddsKeys
  <2>. QED BY <2>1, <2>3, <2>4, <2>5
<1>. QED BY <1>1, <1>2, <1>3 DEF Invalidations

\* A step of one client's call that writes no key.
LEMMA OneCall ==
  ASSUME CallsOK, NEW c \in Clients, NEW r, call' = [call EXCEPT ![c] = r], CallShape(r),
         store' \subseteq store, prefixed' = prefixed, ~prefixed => Left(r, store'),
         call[c].op = "invalidate" /\ r.op = "none" /\ ~prefixed =>
           call[c].covered \cap store' \subseteq call[c].writes
  PROVE  CallsOK' /\ Finished
<1>1. DOMAIN call' = Clients /\ call'[c] = r /\ \A d \in Clients : d # c => call'[d] = call[d]
  BY DEF CallsOK
<1>2. ASSUME NEW d \in Clients PROVE CallShape(call'[d]) /\ (~prefixed => Left(call'[d], store'))
  <2>1. CASE d = c
    BY <1>1, <2>1
  <2>2. CASE d # c
    <3>1. CallShape(call[d]) /\ (~prefixed => Left(call[d], store)) /\ call'[d] = call[d]
      BY <1>1, <2>2 DEF CallsOK
    <3>. QED BY <3>1 DEF Left
  <2>. QED BY <2>1, <2>2
<1>3. Finished
  <2>1. ASSUME NEW d \in Clients, call[d].op = "invalidate", call'[d].op = "none", ~prefixed
        PROVE  call[d].covered \cap store' \subseteq call[d].writes
    <3>1. d = c
      BY <1>1, <2>1
    <3>. QED BY <1>1, <2>1, <3>1
  <2>. QED BY <2>1 DEF Finished
<1>. QED BY <1>1, <1>2, <1>3 DEF CallsOK

LEMMA SameCalls ==
  ASSUME CallsOK, call' = call, store' \subseteq store, prefixed' = prefixed
  PROVE  CallsOK' /\ Finished
BY DEF CallsOK, Finished, Left

\* A call that is no invalidation, and the beginning of one.
LEMMA CallForms ==
  ASSUME NEW op, NEW key, NEW attempt
  PROVE  /\ CallShape(NoCall) /\ NoCall.op = "none" /\ NoCall.covered = {}
         /\ op # "invalidate" =>
              /\ CallShape([NoCall EXCEPT !.op = op])
              /\ [NoCall EXCEPT !.op = op].covered = {} /\ [NoCall EXCEPT !.op = op].op = op
              /\ CallShape([NoCall EXCEPT !.op = op, !.key = key, !.attempt = attempt])
              /\ [NoCall EXCEPT !.op = op, !.key = key, !.attempt = attempt].covered = {}
              /\ [NoCall EXCEPT !.op = op, !.key = key, !.attempt = attempt].op = op
<1>1. <<>> \in Seq(Steps)
  OBVIOUS
<1>. QED BY <1>1 DEF NoCall, CallShape

LEMMA InvalidationBegins ==
  ASSUME NEW op \in Invalidations, NEW p, NEW u, NEW keys
  PROVE  LET r == [NoCall EXCEPT !.op = "invalidate", !.steps = Plan(op, p, u),
                                 !.covered = Covered(op, p, u)]
         IN CallShape(r) /\ Left(r, keys) /\ r.op = "invalidate"
<1>. DEFINE plan == Plan(op, p, u)
            covered == Covered(op, p, u)
            r == [NoCall EXCEPT !.op = "invalidate", !.steps = plan, !.covered = covered]
<1>1. plan \in Seq(Steps) /\ covered \subseteq Remaining(plan)
  BY PlanCovers
<1>. HIDE DEF plan, covered
<1>2. /\ DOMAIN r = {"op", "key", "attempt", "steps", "covered", "writes"} /\ r.op = "invalidate"
      /\ r.steps = plan /\ r.covered = covered
  BY DEF NoCall
<1>. HIDE DEF r
<1>3. CallShape(r) /\ Left(r, keys) /\ r.op = "invalidate"
  BY <1>1, <1>2 DEF CallShape, Left
<1>. QED BY <1>3 DEF r, plan, covered

LEMMA BeginStep ==
  ASSUME CallsOK, NEW c \in Clients, Begin(c)
  PROVE  CallsOK' /\ Finished
<1>1. call[c].op # "invalidate" /\ store' = store /\ prefixed' = prefixed
  BY DEF Begin
<1>2. CASE \E op \in {"get", "set"}, k \in CallKeys :
             call' = [call EXCEPT ![c] = [NoCall EXCEPT !.op = op, !.key = k, !.attempt = 1]]
  <2>1. PICK op \in {"get", "set"}, k \in CallKeys :
             call' = [call EXCEPT ![c] = [NoCall EXCEPT !.op = op, !.key = k, !.attempt = 1]]
    BY <1>2
  <2>. DEFINE r == [NoCall EXCEPT !.op = op, !.key = k, !.attempt = 1]
  <2>2. CallShape(r) /\ r.covered = {}
    <3>1. op # "invalidate"
      OBVIOUS
    <3>. QED BY <3>1, CallForms
  <2>3. call' = [call EXCEPT ![c] = r]
    BY <2>1
  <2>. HIDE DEF r
  <2>4. Left(r, store')
    BY <2>2 DEF Left
  <2>. QED BY <1>1, <2>2, <2>3, <2>4, OneCall
<1>3. CASE \E op \in Invalidations : \E u, p :
             call' = [call EXCEPT ![c] = [NoCall EXCEPT !.op = "invalidate", !.steps = Plan(op, p, u),
                                                      !.covered = Covered(op, p, u)]]
  <2>0. PICK op \in Invalidations : \E u, p :
             call' = [call EXCEPT ![c] = [NoCall EXCEPT !.op = "invalidate", !.steps = Plan(op, p, u),
                                                      !.covered = Covered(op, p, u)]]
    BY <1>3
  <2>1. PICK u, p :
             call' = [call EXCEPT ![c] = [NoCall EXCEPT !.op = "invalidate", !.steps = Plan(op, p, u),
                                                      !.covered = Covered(op, p, u)]]
    BY <2>0
  <2>. DEFINE r == [NoCall EXCEPT !.op = "invalidate", !.steps = Plan(op, p, u),
                                  !.covered = Covered(op, p, u)]
  <2>2. CallShape(r) /\ Left(r, store') /\ r.op = "invalidate"
    BY InvalidationBegins
  <2>3. call' = [call EXCEPT ![c] = r]
    BY <2>1
  <2>. HIDE DEF r
  <2>. QED BY <1>1, <2>2, <2>3, OneCall
<1>. QED BY <1>2, <1>3 DEF Begin, Invalidations

LEMMA RetriedShape ==
  ASSUME CallsOK, NEW c \in Clients, call[c].op # "invalidate", NEW attempt
  PROVE  LET r == [call[c] EXCEPT !.attempt = attempt] IN CallShape(r) /\ r.covered = {}
BY DEF CallsOK, CallShape

\* A get, or a set that did not reach the store.
LEMMA ReturnStep ==
  ASSUME CallsOK, NEW c \in Clients, call[c].op # "invalidate", RetryOrReturn(c) \/ Return(c),
         store' \subseteq store, prefixed' = prefixed
  PROVE  CallsOK' /\ Finished
<1>1. PICK r : CallShape(r) /\ r.covered = {} /\ call' = [call EXCEPT ![c] = r]
  <2>1. CASE call' = [call EXCEPT ![c] = NoCall]
    BY <2>1, CallForms
  <2>2. CASE call' = [call EXCEPT ![c].attempt = @ + 1]
    <3>. DEFINE r == [call[c] EXCEPT !.attempt = call[c].attempt + 1]
    <3>1. CallShape(r) /\ r.covered = {}
      BY RetriedShape
    <3>2. call' = [call EXCEPT ![c] = r]
      BY <2>2
    <3>. HIDE DEF r
    <3>. QED BY <3>1, <3>2
  <2>. QED BY <2>1, <2>2 DEF RetryOrReturn, Return
<1>2. Left(r, store')
  BY <1>1 DEF Left
<1>. QED BY <1>1, <1>2, OneCall

\* A key that is written is noted by the invalidations under way.
LEMMA NotedOK ==
  ASSUME CallsOK, NEW k, NEW d \in Clients
  PROVE  LET r == Noted(k)[d] IN
         /\ CallShape(r) /\ r.op = call[d].op /\ r.covered = call[d].covered
         /\ ~prefixed => Left(r, store \cup {k})
<1>. DEFINE r == Noted(k)[d]
            more == [call[d] EXCEPT !.writes = @ \cup {k}]
<1>1. CallShape(call[d]) /\ (~prefixed => Left(call[d], store))
  BY DEF CallsOK
<1>2. CASE k \in call[d].covered
  <2>1. r = more
    BY <1>2 DEF Noted
  <2>2. /\ DOMAIN more = DOMAIN call[d] /\ more.op = call[d].op /\ more.steps = call[d].steps
        /\ more.covered = call[d].covered /\ more.writes = call[d].writes \cup {k}
    BY <1>1 DEF CallShape
  <2>. HIDE DEF more
  <2>3. CallShape(more) /\ (~prefixed => Left(more, store \cup {k}))
    BY <1>1, <2>2 DEF CallShape, Left
  <2>. QED BY <2>1, <2>2, <2>3
<1>3. CASE k \notin call[d].covered
  <2>1. r = call[d]
    BY <1>3 DEF Noted
  <2>2. ~prefixed => Left(call[d], store \cup {k})
    BY <1>1, <1>3 DEF Left
  <2>. QED BY <1>1, <2>1, <2>2
<1>. QED BY <1>2, <1>3

\* A key is written by a client whose own call invalidates nothing, and whose
\* record becomes r.
LEMMA WriteKey ==
  ASSUME CallsOK, NEW c \in Clients, NEW k, NEW r, call' = [Noted(k) EXCEPT ![c] = r],
         CallShape(r), r.covered = {}, call[c].op # "invalidate",
         store' = store \cup {k}, prefixed' = prefixed
  PROVE  CallsOK' /\ Finished
<1>1. DOMAIN call' = Clients /\ call'[c] = r /\ \A d \in Clients : d # c => call'[d] = Noted(k)[d]
  BY DEF Noted
<1>2. Left(r, store')
  BY DEF Left
<1>3. \A d \in Clients : CallShape(call'[d]) /\ (~prefixed => Left(call'[d], store'))
  BY <1>1, <1>2, NotedOK
<1>4. \A d \in Clients : d # c => call'[d].op = call[d].op
  <2>1. \A d \in Clients : Noted(k)[d].op = call[d].op
    BY NotedOK
  <2>. QED BY <1>1, <2>1
<1>5. Finished
  BY <1>4 DEF Finished
<1>. QED BY <1>1, <1>3, <1>5 DEF CallsOK

LEMMA SetStep ==
  ASSUME CallsOK, NEW c \in Clients, Get(c) \/ Set(c)
  PROVE  CallsOK' /\ Finished
<1>. DEFINE k == call[c].key
<1>1. call[c].op # "invalidate" /\ prefixed' = prefixed
  BY DEF Get, Set
<1>2. CASE store' = store /\ (RetryOrReturn(c) \/ Return(c))
  BY <1>1, <1>2, ReturnStep
<1>3. CASE store' = store \cup {k} /\ call' = [Noted(k) EXCEPT ![c] = NoCall]
  BY <1>1, <1>3, CallForms, WriteKey
<1>4. CASE store' = store \cup {k} /\ call' = [Noted(k) EXCEPT ![c].attempt = @ + 1]
  <2>1. call[c].covered = {} /\ Noted(k)[c] = call[c]
    <3>1. call[c].covered = {}
      BY <1>1 DEF CallsOK, CallShape
    <3>. QED BY <3>1 DEF Noted
  <2>. DEFINE r == [call[c] EXCEPT !.attempt = call[c].attempt + 1]
  <2>2. CallShape(r) /\ r.covered = {}
    BY <1>1, RetriedShape
  <2>3. call' = [Noted(k) EXCEPT ![c] = r]
    BY <1>4, <2>1
  <2>. HIDE DEF r
  <2>. QED BY <1>1, <1>4, <2>2, <2>3, WriteKey
<1>. QED BY <1>2, <1>3, <1>4 DEF Get, Set

\* A command of an invalidation that deletes: what it has deleted is not left.
LEMMA NextStepOK ==
  ASSUME CallsOK, NEW c \in Clients, NEW ok \in BOOLEAN, call[c].op = "invalidate",
         call[c].steps # <<>>, NextStep(c, ok), store' \subseteq store, prefixed' = prefixed,
         ok /\ ~prefixed => store' \cap Head(call[c].steps).keys = {}
  PROVE  CallsOK' /\ Finished
<1>. DEFINE s == call[c].steps
            rest == Tail(s)
            covered == IF ok THEN call[c].covered ELSE {}
            after == [call[c] EXCEPT !.steps = rest, !.covered = covered]
            end == [NoCall EXCEPT !.op = IF ok THEN "none" ELSE "failed"]
<1>1. CallShape(call[c]) /\ s \in Seq(Steps) /\ s # <<>> /\ (~prefixed => Left(call[c], store))
  BY DEF CallsOK, CallShape
<1>2. rest \in Seq(Steps) /\ Remaining(s) \subseteq Head(s).keys \cup Remaining(rest)
  BY <1>1, FirstStep
<1>3. call' = [call EXCEPT ![c] = IF rest # <<>> THEN after ELSE end]
  BY DEF NextStep
<1>4. CallShape(end) /\ end.covered = {} /\ end.op = (IF ok THEN "none" ELSE "failed")
  BY CallForms
<1>5. ~prefixed /\ ok => call[c].covered \cap store' \subseteq call[c].writes \cup Remaining(rest)
  BY <1>1, <1>2 DEF Left
<1>. HIDE DEF rest, end
<1>6. CASE rest # <<>>
  <2>1. /\ DOMAIN after = DOMAIN call[c] /\ after.op = "invalidate" /\ after.steps = rest
        /\ after.covered = covered /\ after.writes = call[c].writes
    BY <1>1 DEF CallShape
  <2>2. call' = [call EXCEPT ![c] = after]
    BY <1>3, <1>6
  <2>. HIDE DEF after
  <2>3. CallShape(after) /\ (~prefixed => Left(after, store'))
    BY <1>1, <1>2, <1>5, <2>1 DEF CallShape, Left
  <2>. QED BY <2>1, <2>2, <2>3, OneCall
<1>7. CASE rest = <<>>
  <2>1. call' = [call EXCEPT ![c] = end]
    BY <1>3, <1>7
  <2>2. ~prefixed /\ end.op = "none" => call[c].covered \cap store' \subseteq call[c].writes
    BY <1>4, <1>5, <1>7, NoStep
  <2>3. Left(end, store')
    BY <1>4 DEF Left
  <2>. QED BY <1>4, <2>1, <2>2, <2>3, OneCall
<1>. QED BY <1>6, <1>7

LEMMA DelStep ==
  ASSUME CallsOK, NEW c \in Clients, Del(c)
  PROVE  CallsOK' /\ Finished
<1>1. /\ call[c].op = "invalidate" /\ call[c].steps # <<>> /\ prefixed' = prefixed
  BY DEF Del, Running
<1>2. CASE store' = store \ Head(call[c].steps).keys /\ NextStep(c, TRUE)
  BY <1>1, <1>2, NextStepOK
<1>3. CASE store' = store /\ NextStep(c, FALSE)
  BY <1>1, <1>3, NextStepOK
<1>. QED BY <1>2, <1>3 DEF Del

LEMMA KeysStep ==
  ASSUME CallsOK, NEW c \in Clients, KeysCommand(c)
  PROVE  CallsOK' /\ Finished
<1>. DEFINE s == call[c].steps
            found == IF prefixed THEN {} ELSE Head(s).keys \cap store
<1>1. /\ call[c].op = "invalidate" /\ s # <<>> /\ prefixed' = prefixed /\ store' = store
  BY DEF KeysCommand, Running
<1>2. CASE found = {} /\ NextStep(c, TRUE)
  BY <1>1, <1>2, NextStepOK
<1>3. CASE NextStep(c, FALSE)
  BY <1>1, <1>3, NextStepOK
<1>4. CASE found # {} /\ call' = [call EXCEPT ![c].steps[1] = DelKeys(found)]
  <2>. DEFINE del == DelKeys(found)
              after == [s EXCEPT ![1] = del]
              r == [call[c] EXCEPT !.steps = after]
  <2>1. CallShape(call[c]) /\ s \in Seq(Steps) /\ Left(call[c], store) /\ ~prefixed
    BY <1>4 DEF CallsOK, CallShape
  <2>2. Head(s) \in Steps /\ Head(s) = s[1] /\ 1 \in DOMAIN s
    BY <1>1, <2>1, FirstStep
  <2>3. del \in Steps /\ del.keys = s[1].keys \cap store
    BY <2>1, <2>2 DEF DelKeys, Steps
  <2>4. call' = [call EXCEPT ![c] = r]
    BY <1>4
  <2>. HIDE DEF del
  <2>5. /\ after \in Seq(Steps) /\ DOMAIN after = DOMAIN s /\ after[1] = del
        /\ \A i \in DOMAIN s : i # 1 => after[i] = s[i]
    BY <2>1, <2>2, <2>3
  <2>. HIDE DEF after
  <2>6. Remaining(s) \cap store \subseteq Remaining(after)
    <3>1. ASSUME NEW i \in DOMAIN s PROVE s[i].keys \cap store \subseteq Remaining(after)
      <4>1. s[i].keys \cap store \subseteq after[i].keys
        BY <2>3, <2>5
      <4>2. after[i].keys \subseteq Remaining(after)
        BY <2>5, AddsKeys
      <4>. QED BY <4>1, <4>2
    <3>. QED BY <3>1 DEF Remaining
  <2>7. /\ DOMAIN r = DOMAIN call[c] /\ r.op = "invalidate" /\ r.steps = after
        /\ r.covered = call[c].covered /\ r.writes = call[c].writes
    BY <1>1, <2>1 DEF CallShape
  <2>. HIDE DEF r
  <2>8. CallShape(r) /\ Left(r, store')
    BY <1>1, <2>1, <2>5, <2>6, <2>7 DEF CallShape, Left
  <2>. QED BY <1>1, <2>4, <2>7, <2>8, OneCall
<1>. QED BY <1>2, <1>3, <1>4 DEF KeysCommand

LEMMA ListCallStep ==
  ASSUME CallsOK, NEW c \in Clients, FindAll(c) \/ Proceed(c) \/ Write(c) \/ Tick
  PROVE  CallsOK' /\ Finished
<1>1. CASE FindAll(c) \/ CacheHit(c) \/ CacheMiss(c) \/ FindByOwner(c) \/ Served(c) \/ Tick
  <2>1. call' = call /\ store' \subseteq store /\ prefixed' = prefixed
    BY <1>1 DEF FindAll, CacheHit, CacheMiss, FindByOwner, Served, Tick, vars
  <2>. QED BY <2>1, SameCalls
<1>2. CASE Fill(c)
  <2>. DEFINE k == PageKey(list[c].q)
  <2>1. /\ prefixed' = prefixed
        /\ \/ store' = store /\ call' = call
           \/ store' = store \cup {k} /\ call' = Noted(k)
    BY <1>2 DEF Fill
  <2>2. CASE store' = store /\ call' = call
    BY <2>1, <2>2, SameCalls
  <2>3. CASE store' = store \cup {k} /\ call' = Noted(k)
    <3>. HIDE DEF k
    <3>1. DOMAIN call' = Clients
      BY <2>3 DEF Noted
    <3>2. \A d \in Clients : CallShape(call'[d]) /\ (~prefixed => Left(call'[d], store'))
      BY <2>3, NotedOK
    <3>3. \A d \in Clients : call'[d].op = call[d].op
      BY <2>3, NotedOK
    <3>. QED BY <2>1, <3>1, <3>2, <3>3 DEF CallsOK, Finished
  <2>. QED BY <2>1, <2>2, <2>3
<1>3. CASE Write(c)
  <2>1. /\ call[c].op # "invalidate" /\ prefixed' = prefixed /\ store' = store
        /\ \E p \in Written :
             call' = [call EXCEPT ![c] =
               [NoCall EXCEPT !.op = "invalidate",
                  !.steps = Plan("invalidateUserProjectsCache", p, OwnerOf[p]),
                  !.covered = Covered("invalidateUserProjectsCache", p, OwnerOf[p])]]
    BY <1>3 DEF Write
  <2>. DEFINE op == "invalidateUserProjectsCache"
              begun(p, u) == [NoCall EXCEPT !.op = "invalidate", !.steps = Plan(op, p, u),
                                            !.covered = Covered(op, p, u)]
  <2>2. PICK p \in Written : call' = [call EXCEPT ![c] = begun(p, OwnerOf[p])]
    BY <2>1
  <2>. DEFINE r == begun(p, OwnerOf[p])
  <2>3. CallShape(r) /\ Left(r, store') /\ r.op = "invalidate"
    BY InvalidationBegins DEF Invalidations
  <2>4. call' = [call EXCEPT ![c] = r]
    BY <2>2
  <2>. HIDE DEF r
  <2>. QED BY <2>1, <2>3, <2>4, OneCall
<1>. QED BY <1>1, <1>2, <1>3 DEF Proceed

LEMMA CallStep == CallsOK /\ [CachesNext]_CachesVars => CallsOK' /\ Finished
<1>. SUFFICES ASSUME CallsOK, [CachesNext]_CachesVars PROVE CallsOK' /\ Finished
  OBVIOUS
<1>1. ASSUME NEW c \in Clients, Begin(c) \/ Command(c) PROVE CallsOK' /\ Finished
  BY <1>1, BeginStep, SetStep, DelStep, KeysStep DEF Command
<1>2. ASSUME NEW c \in Clients, AcquireLock(c) \/ ReleaseLock(c) PROVE CallsOK' /\ Finished
  BY <1>2, SameCalls DEF AcquireLock, ReleaseLock
<1>3. ASSUME NEW k, ExpireKey(k) \/ Reconnect \/ LockTick PROVE CallsOK' /\ Finished
  BY <1>3, SameCalls DEF ExpireKey, Reconnect, LockTick
<1>4. CASE Next
  BY <1>1, <1>2, <1>3, <1>4 DEF Next
<1>5. ASSUME NEW c \in Clients, FindAll(c) \/ Proceed(c) \/ Write(c) PROVE CallsOK' /\ Finished
  BY <1>5, ListCallStep
<1>6. CASE Tick
  <2>1. call' = call /\ store' \subseteq store /\ prefixed' = prefixed
    BY <1>6 DEF Tick
  <2>. QED BY <2>1, SameCalls
<1>7. CASE HealthNext \/ UNCHANGED CachesVars
  BY <1>7, ProbesTouchNoCache, SameCalls DEF CachesVars, vars
<1>. QED BY <1>4, <1>5, <1>6, <1>7 DEF CachesNext, ListingNext

\* An invalidation whose commands all ran leaves no key it is documented to
\* forget but those written while it ran, whatever keys there are and whoever
\* writes meanwhile (invalidateProjectCache, invalidateUserProjectsCache,
\* invalidateStatisticsCache, without a keyPrefix).
THEOREM NothingForgotten == CachesSpec => InvalidationComplete
<1>1. CachesInit => CallsOK
  <2>1. CallShape(NoCall) /\ Left(NoCall, {})
    BY CallForms DEF Left
  <2>. QED BY <2>1 DEF CachesInit, ListingInit, Init, CallsOK
<1>2. CallsOK /\ [CachesNext]_CachesVars => [Finished]_vars
  BY CallStep
<1>3. CachesSpec => [][Finished]_vars
  BY <1>1, <1>2, CallStep, PTL DEF CachesSpec
<1>. QED BY <1>3 DEF InvalidationComplete, Finished

-----------------------------------------------------------------------------
\* Probes.

ProbeOK(p) ==
  /\ DOMAIN p = {"route", "database", "cache", "services", "down", "answer", "heard", "trouble"}
  /\ p.route \in {"none", "check", "detailed", "ready"}
  /\ p.heard \in BOOLEAN /\ p.trouble \in BOOLEAN
  /\ p.database \in {"up", "down", "wait"} /\ p.cache \in {"up", "down", "wait"}
  /\ p.database = "wait" => p.answer = 0
  /\ p.answer = 200 => p.heard = TRUE
  /\ p.answer = 503 => p.trouble = TRUE
  /\ p.route # "none" /\ p.database = "up" => p.heard = TRUE
  /\ p.database = "down" \/ p.cache = "down" \/ p.down # {} => p.trouble = TRUE

ProbesOK == DOMAIN probe = Clients /\ \A c \in Clients : ProbeOK(probe[c])

LEMMA OneProbe ==
  ASSUME ProbesOK, NEW c \in Clients, NEW p, ProbeOK(p), probe' = [probe EXCEPT ![c] = p]
  PROVE  ProbesOK'
BY DEF ProbesOK

LEMMA ProbesNext == ProbesOK /\ HealthNext => ProbesOK'
<1>. SUFFICES ASSUME ProbesOK, HealthNext PROVE ProbesOK'
  OBVIOUS
<1>1. CASE probe' = probe
  BY <1>1 DEF ProbesOK
<1>2. ASSUME NEW c \in Clients, Probe(c) PROVE ProbesOK'
  <2>1. PICK route \in Asks[c] :
          probe' = [probe EXCEPT ![c] =
            [NoProbe EXCEPT !.route = route, !.database = "wait", !.cache = "wait",
                            !.services = IF route = "detailed" THEN "wait" ELSE "none"]]
    BY <1>2 DEF Probe
  <2>. DEFINE p == [NoProbe EXCEPT !.route = route, !.database = "wait", !.cache = "wait",
                            !.services = IF route = "detailed" THEN "wait" ELSE "none"]
  <2>2. route \in {"check", "detailed", "ready"}
    BY HealthAssumption
  <2>3. ProbeOK(p)
    BY <2>2 DEF NoProbe, ProbeOK
  <2>4. probe' = [probe EXCEPT ![c] = p]
    BY <2>1
  <2>. HIDE DEF p
  <2>. QED BY <2>3, <2>4, OneProbe
<1>3. ASSUME NEW c \in Clients, CheckDatabase(c) PROVE ProbesOK'
  <2>. DEFINE up == db = "up"
              trouble == probe[c].trouble \/ ~up
              p == [probe[c] EXCEPT !.database = IF up THEN "up" ELSE "down", !.heard = up,
                                    !.trouble = trouble]
  <2>1. ProbeOK(probe[c]) /\ probe[c].database = "wait"
    BY <1>3 DEF ProbesOK, CheckDatabase
  <2>2. probe' = [probe EXCEPT ![c] = p]
    BY <1>3 DEF CheckDatabase
  <2>3. /\ up \in BOOLEAN /\ trouble \in BOOLEAN /\ (up = FALSE => trouble = TRUE)
        /\ (probe[c].trouble = TRUE => trouble = TRUE)
    OBVIOUS
  <2>. HIDE DEF up, trouble
  <2>4. ProbeOK(p)
    <3>1. /\ DOMAIN p = DOMAIN probe[c] /\ p.route = probe[c].route /\ p.cache = probe[c].cache
          /\ p.answer = probe[c].answer /\ p.down = probe[c].down
          /\ p.database = (IF up THEN "up" ELSE "down") /\ p.heard = up /\ p.trouble = trouble
      BY <2>1 DEF ProbeOK
    <3>. HIDE DEF p
    <3>2. CASE up = TRUE
      BY <2>1, <2>3, <3>1, <3>2 DEF ProbeOK
    <3>3. CASE up = FALSE
      BY <2>1, <2>3, <3>1, <3>3 DEF ProbeOK
    <3>. QED BY <2>3, <3>2, <3>3
  <2>. HIDE DEF p
  <2>. QED BY <2>2, <2>4, OneProbe
<1>4. ASSUME NEW c \in Clients, CheckCacheTimeout(c) \/ CheckCache(c) PROVE ProbesOK'
  <2>. DEFINE p == [probe[c] EXCEPT !.cache = "down", !.trouble = TRUE]
              q == [probe[c] EXCEPT !.cache = "up"]
  <2>1. ProbeOK(probe[c])
    BY DEF ProbesOK
  <2>2. probe' = probe \/ probe' = [probe EXCEPT ![c] = p] \/ probe' = [probe EXCEPT ![c] = q]
    BY <1>4 DEF CheckCacheTimeout, CheckCache
  <2>3. ProbeOK(p) /\ ProbeOK(q)
    BY <2>1 DEF ProbeOK
  <2>. HIDE DEF p, q
  <2>. QED BY <1>1, <2>2, <2>3, OneProbe
<1>5. ASSUME NEW c \in Clients, TestSet(c) \/ TestGet(c) \/ TestDel(c) PROVE ProbesOK'
  <2>1. ProbeOK(probe[c])
    BY DEF ProbesOK
  <2>2. PICK fault \in BOOLEAN :
          probe' = probe \/ probe' = [probe EXCEPT ![c].trouble = @ \/ fault]
    BY <1>5 DEF TestSet, TestGet, TestDel, Test
  <2>. DEFINE trouble == probe[c].trouble \/ fault
              p == [probe[c] EXCEPT !.trouble = trouble]
  <2>3. trouble \in BOOLEAN /\ (probe[c].trouble = TRUE => trouble = TRUE)
    OBVIOUS
  <2>4. probe' = probe \/ probe' = [probe EXCEPT ![c] = p]
    BY <2>2
  <2>. HIDE DEF trouble
  <2>5. ProbeOK(p)
    BY <2>1, <2>3 DEF ProbeOK
  <2>. HIDE DEF p
  <2>. QED BY <1>1, <2>4, <2>5, OneProbe
<1>6. ASSUME NEW c \in Clients, CheckExternalServices(c) PROVE ProbesOK'
  <2>1. ProbeOK(probe[c])
    BY DEF ProbesOK
  <2>2. PICK down : probe' = [probe EXCEPT ![c].services = "settled", ![c].down = down,
                                            ![c].trouble = @ \/ down # {}]
    BY <1>6 DEF CheckExternalServices
  <2>. DEFINE trouble == probe[c].trouble \/ down # {}
              p == [probe[c] EXCEPT !.services = "settled", !.down = down, !.trouble = trouble]
  <2>3. trouble \in BOOLEAN /\ (down # {} => trouble = TRUE) /\ (probe[c].trouble = TRUE => trouble = TRUE)
    OBVIOUS
  <2>4. probe' = [probe EXCEPT ![c] = p]
    BY <2>2
  <2>. HIDE DEF trouble
  <2>5. ProbeOK(p)
    BY <2>1, <2>3 DEF ProbeOK
  <2>. HIDE DEF p
  <2>. QED BY <2>4, <2>5, OneProbe
<1>7. ASSUME NEW c \in Clients, Answer(c) PROVE ProbesOK'
  <2>. DEFINE p == probe[c]
              healthy == CASE p.route = "check" -> check(p)
                           [] p.route = "detailed" -> detailed(p)
                           [] p.route = "ready" -> readiness(p)
              q == [NoProbe EXCEPT !.answer = IF healthy THEN 200 ELSE 503,
                                   !.heard = p.heard, !.trouble = p.trouble]
  <2>1. ProbeOK(p) /\ p.route # "none" /\ p.database # "wait" /\ p.cache # "wait"
    BY <1>7 DEF ProbesOK, Answer
  <2>2. probe' = [probe EXCEPT ![c] = q]
    BY <1>7 DEF Answer
  <2>. HIDE DEF p
  <2>3. p.down = {} => 2 * Cardinality(p.down) <= Cardinality(Services)
    BY FS_EmptySet, FS_CardinalityType, HealthAssumption
  <2>4. healthy => p.heard = TRUE
    BY <2>1 DEF ProbeOK, check, detailed, readiness, DetermineGlobalStatus
  <2>5. ~healthy => p.trouble = TRUE
    BY <2>1, <2>3, ZenonT(30) DEF ProbeOK, check, detailed, readiness, DetermineGlobalStatus
  <2>. HIDE DEF healthy
  <2>6. ProbeOK(q)
    BY <2>1, <2>4, <2>5 DEF NoProbe, ProbeOK
  <2>. HIDE DEF q
  <2>. QED BY <2>2, <2>6, OneProbe
<1>8. CASE Connect \/ Select \/ AttemptFails \/ Restart \/ ChangeDatabase
  BY <1>1, <1>8 DEF Connect, Select, AttemptFails, Restart, ChangeDatabase
<1>. QED BY <1>2, <1>3, <1>4, <1>5, <1>6, <1>7, <1>8 DEF HealthNext

\* A probe that is answered 200 heard the database, one that is answered 503 met
\* trouble of its own, whatever the tests of other probes do to the key all of
\* them share (checkCache, determineGlobalStatus).
THEOREM ProbesTellTheTruth == CachesSpec => []ProbeTruthful
<1>1. CachesInit => ProbesOK
  <2>1. ProbeOK(NoProbe)
    BY DEF NoProbe, ProbeOK
  <2>. QED BY <2>1 DEF CachesInit, HealthInit, ProbesOK
<1>2. ProbesOK /\ [CachesNext]_CachesVars => ProbesOK'
  <2>1. ProbesOK /\ probe' = probe => ProbesOK'
    BY DEF ProbesOK
  <2>. QED BY <2>1, ProbesNext DEF CachesNext, CachesVars, hvars
<1>3. ProbesOK => ProbeTruthful
  BY DEF ProbesOK, ProbeOK, ProbeTruthful
<1>. QED BY <1>1, <1>2, <1>3, PTL DEF CachesSpec

-----------------------------------------------------------------------------
\* Lists and pages.

RowsOK ==
  /\ DOMAIN status = Projects
  /\ \A p \in Projects : deletedFor[p] \in Int /\ (status[p] # "DELETED" => deletedFor[p] = 0)

ListOK(r) ==
  /\ DOMAIN r = {"at", "q", "data"}
  /\ r.at # "idle" => r.q \in Queries
  /\ r.at \in {"fill", "served"} => \A p \in r.data : OwnerOf[p] = r.q.user
  /\ r.at = "fill" /\ HashFilters(r.q) # "status D" =>
       \A p \in r.data \cap Projects : status[p] # "DELETED" \/ deletedFor[p] = 0

\* Also while the key is not in the store.
PageOK(k) ==
  /\ DOMAIN page[k] = {"data", "left"} /\ page[k].left \in Int /\ page[k].left <= PageTTL
  /\ \A p \in page[k].data : OwnerOf[p] = k.of
  /\ k.more[3] # "status D" => \A p \in page[k].data \cap Projects :
       status[p] # "DELETED" \/ page[k].left + deletedFor[p] <= PageTTL

ListsOK == DOMAIN list = Clients /\ \A c \in Clients : ListOK(list[c])
PagesOK == DOMAIN page = PageKeys /\ \A k \in PageKeys : PageOK(k)

ListingInv == RowsOK /\ ListsOK /\ PagesOK

LEMMA QueryKey ==
  ASSUME NEW q \in Queries
  PROVE  PageKey(q) \in PageKeys /\ PageKey(q).of = q.user /\ PageKey(q).more[3] = HashFilters(q)
BY DEF PageKey, PageKeys

LEMMA FoundRows ==
  ASSUME NEW q, NEW p \in FoundBy(q)
  PROVE  p \in Projects /\ Where(q, p)
BY DEF FoundBy

\* A query whose key is not that of the deleted ones finds none of them.
LEMMA FoundUndeleted ==
  ASSUME NEW q \in Queries, HashFilters(q) # "status D", NEW p \in FoundBy(q)
  PROVE  status[p] # "DELETED"
<1>1. Where(q, p)
  BY FoundRows
<1>2. q.status = "DELETED" => HashFilters(q) = "status D"
  BY ListingAssumption DEF HashFilters
<1>. QED BY <1>1, <1>2 DEF Where

LEMMA OneList ==
  ASSUME ListingInv, NEW c \in Clients, NEW r, ListOK(r), list' = [list EXCEPT ![c] = r],
         UNCHANGED <<status, deletedFor, page>>
  PROVE  ListingInv'
<1>1. \A d \in Clients : ListOK(list'[d])
  BY DEF ListingInv, ListsOK
<1>2. ListsOK'
  BY <1>1, ZenonT(30) DEF ListingInv, ListsOK, ListOK
<1>. QED BY <1>2 DEF ListingInv, RowsOK, PagesOK, PageOK

LEMMA AskedStep ==
  ASSUME ListingInv, NEW c \in Clients, FindAll(c)
  PROVE  ListingInv'
<1>1. PICK q \in Queries : list' = [list EXCEPT ![c] = [NoList EXCEPT !.at = "get", !.q = q]]
  BY DEF FindAll
<1>. DEFINE r == [NoList EXCEPT !.at = "get", !.q = q]
<1>2. ListOK(r)
  BY DEF NoList, ListOK
<1>3. list' = [list EXCEPT ![c] = r]
  BY <1>1
<1>. HIDE DEF r
<1>. QED BY <1>2, <1>3, OneList DEF FindAll

LEMMA ReadStep ==
  ASSUME ListingInv, NEW c \in Clients,
         CacheHit(c) \/ CacheMiss(c) \/ FindByOwner(c) \/ Served(c)
  PROVE  ListingInv'
<1>. DEFINE o == list[c]
            k == PageKey(o.q)
<1>1. ListOK(o) /\ UNCHANGED <<status, deletedFor, page>>
  BY DEF ListingInv, ListsOK, CacheHit, CacheMiss, FindByOwner, Served
<1>2. CASE CacheHit(c)
  <2>. DEFINE r == [o EXCEPT !.at = "served", !.data = page[k].data]
  <2>1. o.q \in Queries
    BY <1>1, <1>2 DEF CacheHit, ListOK
  <2>2. \A p \in page[k].data : OwnerOf[p] = o.q.user
    BY <2>1, QueryKey DEF ListingInv, PagesOK, PageOK
  <2>3. list' = [list EXCEPT ![c] = r]
    BY <1>2 DEF CacheHit
  <2>. HIDE DEF k
  <2>4. ListOK(r)
    BY <1>1, <2>1, <2>2 DEF ListOK
  <2>. HIDE DEF r
  <2>. QED BY <1>1, <2>3, <2>4, OneList
<1>3. CASE CacheMiss(c)
  <2>. DEFINE r == [o EXCEPT !.at = "query"]
  <2>1. o.q \in Queries
    BY <1>1, <1>3 DEF CacheMiss, ListOK
  <2>2. list' = [list EXCEPT ![c] = r]
    BY <1>3 DEF CacheMiss
  <2>3. ListOK(r)
    BY <1>1, <2>1 DEF ListOK
  <2>. HIDE DEF r
  <2>. QED BY <1>1, <2>2, <2>3, OneList
<1>4. CASE FindByOwner(c)
  <2>. DEFINE found == FoundBy(o.q)
              r == [o EXCEPT !.at = "fill", !.data = found]
  <2>1. o.q \in Queries
    BY <1>1, <1>4 DEF FindByOwner, ListOK
  <2>2. \A p \in found : OwnerOf[p] = o.q.user
    BY FoundRows DEF Where
  <2>3. HashFilters(o.q) # "status D" => \A p \in found : status[p] # "DELETED"
    BY <2>1, FoundUndeleted
  <2>4. list' = [list EXCEPT ![c] = r]
    BY <1>4 DEF FindByOwner
  <2>. HIDE DEF found
  <2>5. ListOK(r)
    BY <1>1, <2>1, <2>2, <2>3 DEF ListOK
  <2>. HIDE DEF r
  <2>. QED BY <1>1, <2>4, <2>5, OneList
<1>5. CASE Served(c)
  <2>1. ListOK(NoList) /\ list' = [list EXCEPT ![c] = NoList]
    BY <1>5 DEF Served, NoList, ListOK
  <2>. QED BY <1>1, <2>1, OneList
<1>. QED BY <1>2, <1>3, <1>4, <1>5

\* A page is cached with its TTL by a request during which no time passes.
LEMMA FillStep ==
  ASSUME ListingInv, NEW c \in Clients, Fill(c)
  PROVE  ListingInv'
<1>. DEFINE o == list[c]
            k == PageKey(o.q)
            r == [o EXCEPT !.at = "served"]
            new == [data |-> o.data, left |-> PageTTL]
<1>1. /\ ListOK(o) /\ o.at = "fill" /\ UNCHANGED <<status, deletedFor>>
      /\ list' = [list EXCEPT ![c] = r]
      /\ page' = page \/ page' = [page EXCEPT ![k] = new]
  BY DEF ListingInv, ListsOK, Fill
<1>2. ListOK(r) /\ o.q \in Queries
  BY <1>1 DEF ListOK
<1>3. k \in PageKeys /\ k.of = o.q.user /\ k.more[3] = HashFilters(o.q)
  BY <1>2, QueryKey
<1>. HIDE DEF r, k
<1>4. ListsOK'
  <2>1. \A d \in Clients : ListOK(list'[d])
    BY <1>1, <1>2 DEF ListingInv, ListsOK
  <2>. QED BY <1>1, <2>1, ZenonT(30) DEF ListingInv, ListsOK, ListOK
<1>5. CASE page' = page
  BY <1>1, <1>4, <1>5, ZenonT(30) DEF ListingInv, RowsOK, PagesOK, PageOK
<1>6. CASE page' = [page EXCEPT ![k] = new]
  <2>1. ASSUME NEW l \in PageKeys PROVE PageOK(l)'
    <3>1. CASE l = k
      <4>1. page'[k] = new /\ PageTTL \in Int
        BY <1>3, <1>6, ListingAssumption DEF ListingInv, PagesOK
      <4>2. \A p \in o.data : OwnerOf[p] = k.of
        BY <1>1, <1>3 DEF ListOK
      <4>3. k.more[3] # "status D" => \A p \in o.data \cap Projects : status[p] # "DELETED" \/ deletedFor[p] = 0
        BY <1>1, <1>3 DEF ListOK
      <4>4. k.more[3] # "status D" => \A p \in o.data \cap Projects : status[p] # "DELETED" \/ PageTTL + deletedFor[p] <= PageTTL
        <5>1. PageTTL + 0 <= PageTTL
          BY <4>1
        <5>. QED BY <4>3, <5>1
      <4>5. /\ DOMAIN new = {"data", "left"} /\ new.data = o.data /\ new.left = PageTTL
            /\ PageTTL <= PageTTL
        BY <4>1
      <4>. HIDE DEF new
      <4>. QED BY <1>1, <3>1, <4>1, <4>2, <4>4, <4>5 DEF PageOK
    <3>2. CASE l # k
      <4>1. page'[l] = page[l] /\ PageOK(l)
        BY <1>6, <3>2 DEF ListingInv, PagesOK
      <4>. QED BY <1>1, <4>1 DEF PageOK
    <3>. QED BY <3>1, <3>2
  <2>2. PagesOK'
    BY <1>6, <2>1 DEF ListingInv, PagesOK
  <2>. QED BY <1>1, <1>4, <2>2 DEF ListingInv, RowsOK
<1>. QED BY <1>1, <1>5, <1>6

\* A deleted project stays deleted, and has been so for no time when it becomes it.
LEMMA WriteStep ==
  ASSUME ListingInv, NEW c \in Clients, Write(c)
  PROVE  ListingInv'
<1>1. /\ UNCHANGED <<deletedFor, page, list>>
      /\ \/ status' = status
         \/ \E p, new : status[p] # "DELETED" /\ status' = [status EXCEPT ![p] = new]
  BY ListingAssumption DEF Write
<1>2. DOMAIN status' = Projects /\ \A r \in Projects : status[r] = "DELETED" => status'[r] = "DELETED"
  BY <1>1 DEF ListingInv, RowsOK
<1>3. \A r \in Projects : status'[r] = "DELETED" => status[r] = "DELETED" \/ deletedFor[r] = 0
  BY DEF ListingInv, RowsOK
<1>4. RowsOK'
  BY <1>1, <1>2 DEF ListingInv, RowsOK
<1>5. ListsOK'
  <2>1. ASSUME NEW d \in Clients PROVE ListOK(list[d])'
    <3>1. ListOK(list[d]) /\ list' = list /\ deletedFor' = deletedFor
      BY <1>1 DEF ListingInv, ListsOK
    <3>2. \A p \in Projects : status[p] # "DELETED" => deletedFor[p] = 0
      BY DEF ListingInv, RowsOK
    <3>. QED BY <3>1, <3>2 DEF ListOK
  <2>. QED BY <1>1, <2>1 DEF ListingInv, ListsOK
<1>6. PagesOK'
  <2>1. ASSUME NEW k \in PageKeys PROVE PageOK(k)'
    <3>1. PageOK(k) /\ page'[k] = page[k] /\ deletedFor' = deletedFor
      BY <1>1 DEF ListingInv, PagesOK
    <3>2. ASSUME k.more[3] # "status D", NEW p \in page[k].data \cap Projects
          PROVE  status'[p] # "DELETED" \/ page[k].left + deletedFor[p] <= PageTTL
      <4>1. CASE status[p] # "DELETED" /\ deletedFor[p] = 0
        <5>1. page[k].left \in Int /\ page[k].left <= PageTTL
          BY <3>1 DEF PageOK
        <5>2. page[k].left + 0 <= PageTTL
          BY <5>1
        <5>. QED BY <4>1, <5>2
      <4>2. CASE page[k].left + deletedFor[p] <= PageTTL
        BY <4>2
      <4>. QED BY <1>3, <3>1, <3>2, <4>1, <4>2 DEF PageOK, ListingInv, RowsOK
    <3>. QED BY <3>1, <3>2 DEF PageOK
  <2>. QED BY <1>1, <2>1 DEF ListingInv, PagesOK
<1>. QED BY <1>4, <1>5, <1>6 DEF ListingInv

\* While time passes no list is under way; what is left of a page shrinks as
\* the time since a deletion grows.
LEMMA TimePasses ==
  ASSUME ListingInv, Tick
  PROVE  ListingInv'
<1>1. /\ UNCHANGED <<status, list>> /\ \A c \in Clients : list[c].at = "idle"
      /\ DOMAIN page' = PageKeys
      /\ \A k \in PageKeys : page'[k] \in {[data |-> {}, left |-> 0], [page[k] EXCEPT !.left = @ - 1]}
      /\ \A p \in Projects : deletedFor'[p] = IF status[p] = "DELETED" /\ deletedFor[p] < PageTTL
                                            THEN deletedFor[p] + 1 ELSE deletedFor[p]
  BY DEF Tick
<1>2. \A p \in Projects : deletedFor'[p] \in {deletedFor[p], deletedFor[p] + 1} /\ deletedFor[p] \in Int
  BY <1>1 DEF ListingInv, RowsOK
<1>3. RowsOK'
  BY <1>1, <1>2 DEF ListingInv, RowsOK
<1>4. ListsOK'
  BY <1>1 DEF ListingInv, ListsOK, ListOK
<1>5. ASSUME NEW k \in PageKeys PROVE PageOK(k)'
  <2>. DEFINE older == [page[k] EXCEPT !.left = @ - 1]
              none == [data |-> {}, left |-> 0]
  <2>0. PageOK(k) /\ PageTTL \in Nat /\ status' = status
    BY <1>1, ListingAssumption DEF ListingInv, PagesOK
  <2>1. CASE page'[k] = none
    <3>1. DOMAIN none = {"data", "left"} /\ none.data = {} /\ none.left = 0 /\ 0 <= PageTTL
      BY <2>0
    <3>. HIDE DEF none
    <3>. QED BY <2>1, <3>1 DEF PageOK
  <2>2. CASE page'[k] = older
    <3>1. DOMAIN older = {"data", "left"} /\ older.data = page[k].data /\ older.left = page[k].left - 1
      BY <2>0 DEF PageOK
    <3>. HIDE DEF older
    <3>2. older.left \in Int /\ older.left <= PageTTL
      <4>. DEFINE l == page[k].left
      <4>1. l \in Int /\ l <= PageTTL
        BY <2>0 DEF PageOK
      <4>. HIDE DEF l
      <4>2. l - 1 \in Int /\ l - 1 <= PageTTL
        BY <2>0, <4>1
      <4>. QED BY <3>1, <4>2 DEF l
    <3>3. ASSUME k.more[3] # "status D", NEW p \in page[k].data \cap Projects
          PROVE  status[p] # "DELETED" \/ older.left + deletedFor'[p] <= PageTTL
      <4>1. status[p] # "DELETED" \/ page[k].left + deletedFor[p] <= PageTTL
        BY <2>0, <3>3 DEF PageOK
      <4>. DEFINE l == page[k].left
                  d == deletedFor[p]
                  e == deletedFor'[p]
      <4>2. l \in Int /\ d \in Int /\ e \in {d, d + 1} /\ older.left = l - 1
        BY <1>2, <2>0, <3>1 DEF PageOK
      <4>. HIDE DEF l, d, e
      <4>3. l + d <= PageTTL => (l - 1) + e <= PageTTL
        BY <2>0, <4>2
      <4>. QED BY <4>1, <4>2, <4>3 DEF l, d, e
    <3>. QED BY <2>0, <2>2, <3>1, <3>2, <3>3 DEF PageOK
  <2>. QED BY <1>1, <2>1, <2>2
<1>6. PagesOK'
  BY <1>1, <1>5 DEF PagesOK
<1>. QED BY <1>3, <1>4, <1>6 DEF ListingInv

LEMMA ListingInvNext == ListingInv /\ [CachesNext]_CachesVars => ListingInv'
<1>. SUFFICES ASSUME ListingInv, [CachesNext]_CachesVars PROVE ListingInv'
  OBVIOUS
<1>1. CASE UNCHANGED lvars
  BY <1>1, ZenonT(30) DEF lvars, ListingInv, RowsOK, ListsOK, ListOK, PagesOK, PageOK
<1>2. ASSUME NEW c \in Clients, FindAll(c) \/ Proceed(c) \/ Write(c) PROVE ListingInv'
  BY <1>2, AskedStep, ReadStep, FillStep, WriteStep DEF Proceed
<1>. QED BY <1>1, <1>2, TimePasses DEF CachesNext, ListingNext, CachesVars

LEMMA ListingInvariant == CachesSpec => []ListingInv
<1>1. CachesInit => ListingInv
  <2>. SUFFICES ASSUME CachesInit PROVE ListingInv
    OBVIOUS
  <2>1. /\ RowsOK /\ DOMAIN list = Clients /\ DOMAIN page = PageKeys
        /\ \A c \in Clients : list[c] = NoList
        /\ \A k \in PageKeys : page[k] = [data |-> {}, left |-> 0]
    BY DEF CachesInit, ListingInit, RowsOK
  <2>2. ListOK(NoList)
    BY DEF NoList, ListOK
  <2>3. 0 <= PageTTL
    BY ListingAssumption
  <2>4. ASSUME NEW k \in PageKeys PROVE PageOK(k)
    <3>. DEFINE none == [data |-> {}, left |-> 0]
    <3>1. page[k] = none
      BY <2>1
    <3>2. DOMAIN none = {"data", "left"} /\ none.data = {} /\ none.left = 0
      OBVIOUS
    <3>. HIDE DEF none
    <3>. QED BY <2>3, <3>1, <3>2 DEF PageOK
  <2>. QED BY <2>1, <2>2, <2>4 DEF ListingInv, ListsOK, PagesOK
<1>. QED BY <1>1, ListingInvNext, PTL DEF CachesSpec

\* No user is served the project of another, from the database or from a page
\* whose key the filters share (findAll, hashFilters, CACHE_KEYS).
THEOREM OwnProjectsServed == CachesSpec => []OnlyOwnProjects
<1>1. ListingInv => OnlyOwnProjects
  BY DEF ListingInv, ListsOK, ListOK, PagesOK, PageOK, OnlyOwnProjects
<1>. QED BY <1>1, ListingInvariant, PTL

\* A page of projects that are not deleted holds a deleted one no longer than a
\* page lives, though no invalidation reaches it, whatever the TTL.
THEOREM DeletedLeavePages == CachesSpec => []DeletedFades
<1>1. ListingInv => DeletedFades
  BY DEF ListingInv, PagesOK, PageOK, DeletedFades
<1>. QED BY <1>1, ListingInvariant, PTL
=============================================================================
