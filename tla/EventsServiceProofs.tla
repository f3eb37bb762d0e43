-------------------------- MODULE EventsServiceProofs --------------------------
(***************************************************************************)
(* Proofs about EventsService, for any number of publishers, any threshold *)
(* of the breaker and any numbers of retries.                              *)
(*                                                                         *)
(* DeliveryCount is not inductive by itself: that an attempt posts at most *)
(* once, and that the orchestrator gets a post at most once, depends on    *)
(* where the publication stands.  DeliveryInv adds that.                   *)
(***************************************************************************)
EXTENDS EventsService, TLAPS

\* A publication that is ready has not used its attempt, one that has posted
\* waits for the only answer that may tell it of the post, one that sleeps has
\* an attempt left; and while it goes on it has claimed nothing.
DeliveryInv ==
  /\ TypeOK
  /\ DeliveryCount
  /\ \A p \in Publishers :
       /\ phase[p] = "ready"  => posts[p] < attempt[p]
       /\ phase[p] = "posted" => received[p] < posts[p]
       /\ phase[p] = "asleep" => attempt[p] < maxRetries(event[p])
       /\ phase[p] # "idle"   => attempt[p] >= 1 /\ outcome[p] = None

USE EventTypesAssumption, ThresholdAssumption, RetriesAssumption, NoneAssumption

\* Every event has at least one attempt.
LEMMA RetriesPositive ==
  ASSUME NEW e
  PROVE  maxRetries(e) \in Nat /\ maxRetries(e) >= 1
  BY DEF maxRetries

-----------------------------------------------------------------------------
\* Types.

LEMMA TypeInit == Init => TypeOK
  BY DEF Init, TypeOK

LEMMA TypeNext == TypeOK /\ [Next]_vars => TypeOK'
<1>. SUFFICES ASSUME TypeOK, [Next]_vars PROVE TypeOK'
  OBVIOUS
<1>. USE DEF TypeOK, breakerVars
<1>1. ASSUME NEW p \in Publishers, Publish(p) PROVE TypeOK'
  BY <1>1 DEF Publish
<1>2. ASSUME NEW p \in Publishers, Post(p) PROVE TypeOK'
  BY <1>2 DEF Post, Admit
<1>3. ASSUME NEW p \in Publishers, Rejected(p) PROVE TypeOK'
  BY <1>3 DEF Rejected, AttemptFails
<1>4. ASSUME NEW p \in Publishers, PostSucceeds(p) PROVE TypeOK'
  BY <1>4 DEF PostSucceeds, onSuccess
<1>5. ASSUME NEW p \in Publishers, PostFails(p) PROVE TypeOK'
  <2>1. breaker' \in {"CLOSED", "OPEN", "HALF_OPEN"} /\ failures' \in 0 .. Threshold
        /\ cooled' \in BOOLEAN
    <3>1. CASE onFailure
      <4>1. failures' \in 0 .. Threshold
        BY <3>1 DEF onFailure
      <4>2. breaker' \in {breaker, "OPEN"} /\ cooled' = FALSE
        BY <3>1, Zenon DEF onFailure
      <4>. QED
        BY <4>1, <4>2
    <3>2. CASE UNCHANGED breakerVars
      BY <3>2
    <3>. QED
      BY <1>5, <3>1, <3>2 DEF PostFails
  <2>2. /\ phase' \in [Publishers -> {"idle", "ready", "posted", "asleep"}]
        /\ outcome' \in [Publishers -> {"published", "thrown", "swallowed", None}]
        /\ received' \in [Publishers -> Nat]
        /\ UNCHANGED <<event, attempt, posts, up>>
        /\ \A q \in Publishers : phase'[q] # "idle" => phase[q] # "idle"
    BY <1>5 DEF PostFails, AttemptFails
  <2>. QED
    BY <2>1, <2>2
<1>6. ASSUME NEW p \in Publishers, Wake(p) PROVE TypeOK'
  BY <1>6 DEF Wake
<1>7. CASE Cool
  BY <1>7 DEF Cool
<1>8. CASE Outage
  BY <1>8 DEF Outage
<1>9. CASE UNCHANGED vars
  BY <1>9 DEF vars
<1>. QED
  BY <1>1, <1>2, <1>3, <1>4, <1>5, <1>6, <1>7, <1>8, <1>9 DEF Next, Progress

\* Every variable of the publications and of the breaker has its type.
THEOREM TypeCorrect == Spec => []TypeOK
  BY TypeInit, TypeNext, PTL DEF Spec

-----------------------------------------------------------------------------
\* The breaker.

\* However many failures of calls admitted earlier arrive, and in whatever
\* state of the breaker, it is never CLOSED over Threshold failures in a row.
THEOREM BreakerOpens == Spec => []ClosedBelowThreshold
<1>1. Init => ClosedBelowThreshold
  BY DEF Init, ClosedBelowThreshold
<1>2. TypeOK /\ ClosedBelowThreshold /\ [Next]_vars => ClosedBelowThreshold'
  <2>. SUFFICES ASSUME TypeOK, ClosedBelowThreshold, [Next]_vars
                PROVE  ClosedBelowThreshold'
    OBVIOUS
  <2>. USE DEF TypeOK, ClosedBelowThreshold
  <2>1. CASE UNCHANGED breakerVars
    BY <2>1 DEF breakerVars
  <2>2. CASE Admit
    BY <2>2 DEF Admit
  <2>3. CASE onSuccess
    BY <2>3 DEF onSuccess
  <2>4. CASE onFailure
    BY <2>4 DEF onFailure
  <2>5. CASE Cool
    BY <2>5 DEF Cool
  <2>. QED
    BY <2>1, <2>2, <2>3, <2>4, <2>5
       DEF Next, Progress, Publish, Post, Rejected, PostSucceeds, PostFails, Wake,
           Outage, vars, breakerVars
<1>. QED
  BY <1>1, <1>2, TypeCorrect, PTL DEF Spec

-----------------------------------------------------------------------------
\* The publications.

\* A failed attempt leaves a publication asleep with an attempt left, or ended
\* with all of them used.
LEMMA FailedAttempt ==
  ASSUME DeliveryInv, NEW p \in Publishers, phase[p] # "idle", AttemptFails(p),
         \/ UNCHANGED received
         \/ phase[p] = "posted" /\ received' = [received EXCEPT ![p] = @ + 1]
  PROVE  TypeOK' => DeliveryInv'
<1>. SUFFICES ASSUME TypeOK', NEW q \in Publishers
              PROVE  /\ received'[q] <= posts'[q]
                     /\ posts'[q] <= attempt'[q]
                     /\ phase'[q] # "idle" => attempt'[q] <= maxRetries(event'[q])
                     /\ outcome'[q] = "published" => received'[q] >= 1
                     /\ outcome'[q] \in {"thrown", "swallowed"}
                          => attempt'[q] = maxRetries(event'[q])
                     /\ phase'[q] = "ready"  => posts'[q] < attempt'[q]
                     /\ phase'[q] = "posted" => received'[q] < posts'[q]
                     /\ phase'[q] = "asleep" => attempt'[q] < maxRetries(event'[q])
                     /\ phase'[q] # "idle"   => attempt'[q] >= 1 /\ outcome'[q] = None
  BY DEF DeliveryInv, DeliveryCount
<1>1. CASE q # p
  BY <1>1 DEF AttemptFails, DeliveryInv, DeliveryCount, TypeOK
<1>2. CASE q = p
  BY <1>2, RetriesPositive DEF AttemptFails, DeliveryInv, DeliveryCount, TypeOK
<1>. QED
  BY <1>1, <1>2

LEMMA DeliveryInit == Init => DeliveryInv
  BY TypeInit DEF Init, DeliveryInv, DeliveryCount

LEMMA DeliveryNext == DeliveryInv /\ [Next]_vars => DeliveryInv'
<1>. SUFFICES ASSUME DeliveryInv, [Next]_vars PROVE DeliveryInv'
  OBVIOUS
<1>. TypeOK'
  BY TypeNext DEF DeliveryInv
<1>1. ASSUME NEW p \in Publishers, Publish(p) PROVE DeliveryInv'
  BY <1>1, RetriesPositive DEF Publish, DeliveryInv, DeliveryCount, TypeOK
<1>2. ASSUME NEW p \in Publishers, Post(p) PROVE DeliveryInv'
  BY <1>2 DEF Post, DeliveryInv, DeliveryCount, TypeOK
<1>3. ASSUME NEW p \in Publishers, Rejected(p) PROVE DeliveryInv'
  BY <1>3, FailedAttempt DEF Rejected
<1>4. ASSUME NEW p \in Publishers, PostSucceeds(p) PROVE DeliveryInv'
  BY <1>4 DEF PostSucceeds, DeliveryInv, DeliveryCount, TypeOK
<1>5. ASSUME NEW p \in Publishers, PostFails(p) PROVE DeliveryInv'
  BY <1>5, FailedAttempt DEF PostFails
<1>6. ASSUME NEW p \in Publishers, Wake(p) PROVE DeliveryInv'
  BY <1>6, RetriesPositive DEF Wake, DeliveryInv, DeliveryCount, TypeOK
<1>7. CASE Cool \/ Outage \/ UNCHANGED vars
  BY <1>7 DEF Cool, Outage, vars, DeliveryInv, DeliveryCount
<1>. QED
  BY <1>1, <1>2, <1>3, <1>4, <1>5, <1>6, <1>7 DEF Next, Progress

LEMMA DeliveryInvariant == Spec => []DeliveryInv
  BY DeliveryInit, DeliveryNext, PTL DEF Spec

\* The orchestrator sees an event at most once per attempt, a publication that
\* claims success was received, and one that gives up has made all its attempts.
THEOREM DeliveryCounted == Spec => []DeliveryCount
<1>. DeliveryInv => DeliveryCount
  BY DEF DeliveryInv
<1>. QED
  BY DeliveryInvariant, PTL

\* A breaker that is not CLOSED closes only by the success of a critical
\* publication that was under way, never by time alone or by a failure.
THEOREM ClosedBySuccess == Spec => ClosesOnlyOnSuccess
<1>. DEFINE Closing == breaker # "CLOSED" /\ breaker' = "CLOSED"
            Success == \E p \in Publishers :
                          /\ outcome'[p] = "published" /\ outcome[p] = None
                          /\ isHighPriorityEvent(event[p])
<1>1. DeliveryInv /\ [Next]_vars => [Closing => Success]_vars
  <2>. SUFFICES ASSUME DeliveryInv, Next, Closing PROVE Success
    OBVIOUS
  <2>1. ASSUME NEW p \in Publishers, PostSucceeds(p) PROVE Success
    BY <2>1 DEF PostSucceeds, breakerVars, DeliveryInv, TypeOK
  <2>2. ASSUME NEW p \in Publishers, Post(p) PROVE FALSE
    BY <2>2 DEF Post, Admit, breakerVars
  <2>3. ASSUME NEW p \in Publishers, PostFails(p) PROVE FALSE
    BY <2>3 DEF PostFails, onFailure, breakerVars
  <2>. QED
    BY <2>1, <2>2, <2>3 DEF Next, Progress, Publish, Rejected, Wake, Cool, Outage
<1>. QED
  BY <1>1, DeliveryInvariant, PTL DEF Spec, ClosesOnlyOnSuccess

-----------------------------------------------------------------------------
\* What publications are to the services that await them.

\* A publication as Publication sees it.
CallOf(p) ==
  IF phase[p] # "idle" THEN "pending" ELSE IF outcome[p] = None THEN "none" ELSE outcome[p]
Calls == [p \in Publishers |-> CallOf(p)]

\* Only p's call moves, and to the outcome it has after the step.
LEMMA CallMoves ==
  ASSUME NEW p \in Publishers, NEW end,
         \A q \in Publishers : q # p => phase'[q] = phase[q] /\ outcome'[q] = outcome[q],
         CallOf(p)' = end
  PROVE  Calls' = [Calls EXCEPT ![p] = end]
<1>1. \A q \in Publishers : q # p => CallOf(q)' = CallOf(q)
  BY DEF CallOf
<1>. QED BY <1>1 DEF Calls

\* A failed attempt is one for the caller too: its call goes on, or ends with the
\* error that its event deserves.
LEMMA AttemptIsFail ==
  ASSUME DeliveryInv, NEW p \in Publishers, phase[p] # "idle", AttemptFails(p)
  PROVE  LET end == IF isHighPriorityEvent(event[p]) THEN "thrown" ELSE "swallowed"
         IN Calls' \in {Calls, [Calls EXCEPT ![p] = end]}
<1>. DEFINE end == IF isHighPriorityEvent(event[p]) THEN "thrown" ELSE "swallowed"
<1>1. \A q \in Publishers : q # p => phase'[q] = phase[q] /\ outcome'[q] = outcome[q]
  BY DEF AttemptFails, DeliveryInv, TypeOK
<1>2. CallOf(p) = "pending"
  BY DEF CallOf
<1>3. CallOf(p)' \in {"pending", end}
  BY DEF AttemptFails, DeliveryInv, TypeOK, CallOf
<1>4. Calls = [Calls EXCEPT ![p] = "pending"]
  BY <1>2 DEF Calls
<1>5. Calls' \in {[Calls EXCEPT ![p] = "pending"], [Calls EXCEPT ![p] = end]}
  BY <1>1, <1>3, CallMoves
<1>. QED BY <1>4, <1>5

\* With its attempts, pauses, counters and any number of publications sharing the
\* breaker, EventsService implements Publication: an error reaches the caller of
\* a critical event only, published means received, an event is received at most
\* as often as its type has attempts, and of all that moves the breaker only a
\* critical success closes it (events.service.ts:102-142, 675-738).
THEOREM Implementation == Spec => ImplementsPublication
<1>. DEFINE Critical == {e \in EventTypes : isHighPriorityEvent(e)}
            Retries == [e \in EventTypes |-> maxRetries(e)]
            abstract == <<breaker, Calls, event, received>>
            Step(p) == \/ Publishing!Begin(p) \/ Publishing!Probe(p)
                       \/ Publishing!Fail(p) \/ Publishing!Succeed(p)
<1>1. Init => Publishing!PublicationInit
  BY DEF Init, Publishing!PublicationInit
<1>2. DeliveryInv /\ [Next]_vars => [Publishing!PublicationNext]_(Publishing!publicationVars)
  <2>. SUFFICES ASSUME DeliveryInv, [Next]_vars
       PROVE  (\E p \in Publishers : Step(p)) \/ UNCHANGED abstract
    BY DEF Publishing!PublicationNext, Publishing!publicationVars, Calls, CallOf
  <2>. USE DEF Calls, CallOf
  <2>1. ASSUME NEW p \in Publishers, Publish(p) PROVE Publishing!Begin(p)
    <3>1. Calls[p] # "pending" /\ Calls' = [Calls EXCEPT ![p] = "pending"]
      BY <2>1, CallMoves DEF Publish, DeliveryInv, TypeOK
    <3>. QED BY <2>1, <3>1 DEF Publish, Publishing!Begin
  <2>2. ASSUME NEW p \in Publishers, Post(p)
        PROVE  Publishing!Probe(p) \/ UNCHANGED abstract
    <3>1. Calls' = Calls /\ Calls[p] = "pending"
      <4>1. CallOf(p) = "pending" /\ CallOf(p)' = "pending"
        BY <2>2 DEF Post, DeliveryInv, TypeOK
      <4>2. Calls' = [Calls EXCEPT ![p] = "pending"]
        BY <2>2, <4>1, CallMoves DEF Post, DeliveryInv, TypeOK
      <4>. QED BY <4>1, <4>2
    <3>2. event[p] \in EventTypes
      BY <2>2 DEF Post, DeliveryInv, TypeOK
    <3>. QED BY <2>2, <3>1, <3>2 DEF Post, Admit, breakerVars, Publishing!Probe
  <2>3. ASSUME NEW p \in Publishers, Rejected(p) PROVE Publishing!Fail(p)
    <3>1. phase[p] # "idle" /\ Calls[p] = "pending" /\ event[p] \in Critical
      BY <2>3 DEF Rejected, DeliveryInv, TypeOK
    <3>2. Calls' \in {Calls, [Calls EXCEPT ![p] = "thrown"]}
      BY <2>3, <3>1, AttemptIsFail DEF Rejected
    <3>. QED BY <2>3, <3>1, <3>2 DEF Rejected, AttemptFails, Publishing!Fail
  <2>4. ASSUME NEW p \in Publishers, phase[p] = "posted",
               received' = [received EXCEPT ![p] = @ + 1]
        PROVE  Publishing!Received(p)
    <3>1. event[p] \in EventTypes /\ received[p] < maxRetries(event[p])
      BY <2>4, RetriesPositive DEF DeliveryInv, DeliveryCount, TypeOK
    <3>. QED BY <2>4, <3>1 DEF Publishing!Received
  <2>5. ASSUME NEW p \in Publishers, PostFails(p) PROVE Publishing!Fail(p)
    <3>1. phase[p] = "posted" /\ Calls[p] = "pending" /\ event[p] \in EventTypes
      BY <2>5 DEF PostFails, DeliveryInv, TypeOK
    <3>2. Publishing!Received(p) \/ UNCHANGED received
      BY <2>4, <2>5, <3>1 DEF PostFails
    <3>3. LET end == IF event[p] \in Critical THEN "thrown" ELSE "swallowed"
          IN Calls' \in {Calls, [Calls EXCEPT ![p] = end]}
      BY <2>5, <3>1, AttemptIsFail DEF PostFails
    <3>4. breaker' \in (IF event[p] \in Critical THEN {breaker, "OPEN"} ELSE {breaker})
      BY <2>5, <3>1, Zenon DEF PostFails, onFailure, breakerVars
    <3>5. event' = event
      BY <2>5 DEF PostFails, AttemptFails
    <3>. QED BY <3>1, <3>2, <3>3, <3>4, <3>5 DEF Publishing!Fail
  <2>6. ASSUME NEW p \in Publishers, PostSucceeds(p) PROVE Publishing!Succeed(p)
    <3>1. phase[p] = "posted" /\ Calls[p] = "pending" /\ event[p] \in EventTypes
      BY <2>6 DEF PostSucceeds, DeliveryInv, TypeOK
    <3>2. Publishing!Received(p)
      BY <2>4, <2>6, <3>1 DEF PostSucceeds
    <3>3. CallOf(p)' = "published"
      BY <2>6 DEF PostSucceeds, DeliveryInv, TypeOK
    <3>4. Calls' = [Calls EXCEPT ![p] = "published"]
      BY <2>6, <3>3, CallMoves DEF PostSucceeds, DeliveryInv, TypeOK
    <3>. QED BY <2>6, <3>1, <3>2, <3>4
             DEF PostSucceeds, onSuccess, breakerVars, Publishing!Succeed
  <2>7. ASSUME NEW p \in Publishers, Wake(p) PROVE UNCHANGED abstract
    <3>1. CallOf(p) = "pending" /\ CallOf(p)' = "pending"
      BY <2>7 DEF Wake, DeliveryInv, TypeOK
    <3>2. Calls' = [Calls EXCEPT ![p] = "pending"]
      BY <2>7, <3>1, CallMoves DEF Wake, DeliveryInv, TypeOK
    <3>. QED BY <2>7, <3>1, <3>2 DEF Wake
  <2>8. CASE Cool \/ Outage \/ UNCHANGED vars
    BY <2>8 DEF Cool, Outage, vars
  <2>. QED
    BY <2>1, <2>2, <2>3, <2>5, <2>6, <2>7, <2>8 DEF Next, Progress
<1>. QED
  BY <1>1, <1>2, DeliveryInit, DeliveryInvariant, PTL
     DEF Spec, ImplementsPublication, Publishing!PublicationSpec

-----------------------------------------------------------------------------
\* Why publications return.

\* How many steps a publication has left at most: three per attempt.
StepsLeft(p) ==
  IF phase[p] = "idle" THEN 0
  ELSE 3 * (maxRetries(event[p]) - attempt[p])
         + (CASE phase[p] = "ready" -> 3 [] phase[p] = "posted" -> 2 [] OTHER -> 1)

\* A step of a publication uses up one of those, and nothing else, neither the
\* breaker nor other publications nor outages, gives it more.
StepsUsedUp ==
  [][\A p \in Publishers :
       /\ Progress(p) => StepsLeft(p)' < StepsLeft(p)
       /\ StepsLeft(p)' > StepsLeft(p) => phase[p] = "idle"]_vars

LEMMA StepsBounded ==
  ASSUME DeliveryInv, NEW p \in Publishers
  PROVE  StepsLeft(p) \in 0 .. 3 * maxRetries(event[p])
<1>1. maxRetries(event[p]) \in Nat /\ attempt[p] \in Nat
  BY RetriesPositive DEF DeliveryInv, TypeOK
<1>2. CASE phase[p] = "idle"
  BY <1>1, <1>2 DEF StepsLeft
<1>3. CASE phase[p] # "idle"
  <2>1. /\ attempt[p] <= maxRetries(event[p]) /\ attempt[p] >= 1
        /\ phase[p] \in {"ready", "posted", "asleep"}
    BY <1>3 DEF DeliveryInv, DeliveryCount, TypeOK
  <2>. QED BY <1>1, <1>3, <2>1 DEF StepsLeft
<1>. QED BY <1>2, <1>3

\* For any number of publications over one breaker and any numbers of retries, a
\* publication makes at most three steps per attempt, whatever fails.  With steps
\* that come in the end (the fairness) this is why publishWithRetry returns.
THEOREM PublicationsEnd ==
  Spec => StepsUsedUp /\ [](\A p \in Publishers : StepsLeft(p) \in 0 .. 3 * maxRetries(event[p]))
<1>. DEFINE Used(p) == /\ Progress(p) => StepsLeft(p)' < StepsLeft(p)
                       /\ StepsLeft(p)' > StepsLeft(p) => phase[p] = "idle"
            Bounded == \A p \in Publishers : StepsLeft(p) \in 0 .. 3 * maxRetries(event[p])
<1>1. DeliveryInv => Bounded
  BY StepsBounded
<1>2. DeliveryInv /\ Bounded' /\ [Next]_vars => [\A p \in Publishers : Used(p)]_vars
  <2>. SUFFICES ASSUME DeliveryInv, Bounded', Next, NEW p \in Publishers PROVE Used(p)
    OBVIOUS
  <2>. DEFINE M == maxRetries(event[p])
  <2>1. M \in Nat /\ attempt[p] \in Nat /\ StepsLeft(p) \in Nat
    BY RetriesPositive, StepsBounded DEF DeliveryInv, TypeOK
  <2>2. /\ phase[p] # "idle" => phase[p] \in {"ready", "posted", "asleep"} /\ attempt[p] <= M
        /\ phase[p] = "asleep" => attempt[p] < M
    BY DEF DeliveryInv, DeliveryCount, TypeOK
  <2>3. ASSUME Progress(p) PROVE StepsLeft(p)' < StepsLeft(p)
    <3>1. event' = event /\ phase[p] # "idle"
      BY <2>3 DEF Progress, Post, Rejected, PostSucceeds, PostFails, Wake, AttemptFails
    <3>2. \/ phase[p] = "ready" /\ phase'[p] \in {"posted", "asleep"} /\ attempt'[p] = attempt[p]
          \/ phase[p] = "posted" /\ phase'[p] = "asleep" /\ attempt'[p] = attempt[p]
          \/ phase'[p] = "idle"
          \/ phase[p] = "asleep" /\ phase'[p] = "ready" /\ attempt'[p] = attempt[p] + 1
      BY <2>3 DEF Progress, Post, Rejected, PostSucceeds, PostFails, Wake, AttemptFails,
                  DeliveryInv, TypeOK
    <3>3. maxRetries(event[p])' = M
      BY <3>1 DEF maxRetries, isHighPriorityEvent
    <3>. HIDE DEF M
    <3>. QED BY <2>1, <2>2, <3>1, <3>2, <3>3 DEF StepsLeft, M
  <2>4. ASSUME NEW q \in Publishers, q # p, Publish(q) \/ Progress(q)
        PROVE  StepsLeft(p)' = StepsLeft(p)
    <3>1. phase'[p] = phase[p] /\ attempt'[p] = attempt[p] /\ event'[p] = event[p]
      BY <2>4 DEF Publish, Progress, Post, Rejected, PostSucceeds, PostFails, Wake, AttemptFails,
                  DeliveryInv, TypeOK
    <3>2. maxRetries(event[p])' = M
      BY <3>1 DEF maxRetries, isHighPriorityEvent
    <3>. QED BY <3>1, <3>2 DEF StepsLeft
  <2>5. ASSUME Cool \/ Outage PROVE StepsLeft(p)' = StepsLeft(p)
    BY <2>5 DEF StepsLeft, Cool, Outage, maxRetries, isHighPriorityEvent
  <2>6. ASSUME Publish(p) PROVE Used(p)
    <3>1. phase[p] = "idle"
      BY <2>6 DEF Publish
    <3>2. Progress(p) => phase[p] # "idle"
      BY DEF Progress, Post, Rejected, PostSucceeds, PostFails, Wake
    <3>. QED BY <3>1, <3>2
  <2>7. CASE Progress(p)
    <3>1. StepsLeft(p)' \in Nat
      BY RetriesPositive
    <3>. QED BY <2>1, <2>3, <2>7, <3>1
  <2>8. CASE ~Progress(p)
    BY <2>1, <2>4, <2>5, <2>6, <2>8 DEF Next
  <2>. QED BY <2>7, <2>8
<1>. QED
  BY <1>1, <1>2, DeliveryInvariant, PTL DEF Spec, StepsUsedUp
=============================================================================
