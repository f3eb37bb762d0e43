---------------------------- MODULE EventsService ----------------------------
(***************************************************************************)
(* Publishing events to the orchestrator: publishWithRetry and the circuit *)
(* breaker that all high-priority publications of the process share.       *)
(*                                                                         *)
(* A publisher is a request inside one publishProject... call; it takes an *)
(* event, posts it up to maxRetries times with a pause after each failure, *)
(* and returns.  Publications interleave at every post and every pause.    *)
(* The 30 s of the breaker are one bit: whether they have passed since its *)
(* last failure.  The pauses between retries have no bound relative to     *)
(* them, since a post may hang for its own timeout of up to 45 s.          *)
(***************************************************************************)
EXTENDS Naturals

CONSTANTS
  Publishers,     \* requests that publish, one event at a time
  EventTypes,     \* the event types a run publishes
  Threshold,      \* failures that open the breaker (5)
  CriticalRetries,  \* maxRetries of the critical events (5)
  StandardRetries,  \* maxRetries of the others (3)
  None

AllEventTypes == {"project.created", "project.updated", "project.archived",
                  "project.deleted", "project.files.updated"}

ASSUME EventTypesAssumption == EventTypes \subseteq AllEventTypes
ASSUME ThresholdAssumption == Threshold \in Nat \ {0}
ASSUME RetriesAssumption ==
  CriticalRetries \in Nat \ {0} /\ StandardRetries \in Nat \ {0}

\* A publication that has not ended has no outcome.
ASSUME NoneAssumption == None \notin {"published", "thrown", "swallowed"}

VARIABLES
  breaker,     \* "CLOSED", "OPEN" or "HALF_OPEN"
  failures,    \* failureCount, kept at Threshold once it is there
  cooled,      \* more than `timeout' ms have passed since lastFailureTime
  phase,       \* phase[p]: "idle", "ready" to try, "posted", "asleep"
  event,       \* event[p]: the type of the event p publishes or published last
  attempt,     \* attempt[p]: the number of the current attempt
  posts,       \* posts[p]: how many times this event was handed to the transport
  received,    \* received[p]: how many times the orchestrator got this event
  outcome,     \* outcome[p]: how the last publication ended
  up           \* the orchestrator answers every post in time

vars == <<breaker, failures, cooled, phase, event, attempt, posts, received, outcome, up>>
breakerVars == <<breaker, failures, cooled>>

isHighPriorityEvent(e) ==
  e \in {"project.created", "project.deleted", "project.files.updated"}

maxRetries(e) == IF isHighPriorityEvent(e) THEN CriticalRetries ELSE StandardRetries

Init ==
  /\ breaker = "CLOSED" /\ failures = 0 /\ cooled = TRUE
  /\ phase = [p \in Publishers |-> "idle"]
  /\ event = [p \in Publishers |-> None]
  /\ attempt = [p \in Publishers |-> 0]
  /\ posts = [p \in Publishers |-> 0]
  /\ received = [p \in Publishers |-> 0]
  /\ outcome = [p \in Publishers |-> None]
  /\ up \in BOOLEAN

-----------------------------------------------------------------------------
\* The breaker.

\* execute lets a call through; when it does so after the timeout it turns
\* HALF_OPEN, which lets every further call through as well.
Admits == breaker # "OPEN" \/ cooled

\* Mutant: the first call after the timeout closes the breaker at once.
AdmitClosing ==
  /\ Admits
  /\ breaker' = "CLOSED"
  /\ UNCHANGED <<failures, cooled>>

Admit ==
  /\ Admits
  /\ breaker' = IF breaker = "OPEN" THEN "HALF_OPEN" ELSE breaker
  /\ UNCHANGED <<failures, cooled>>

\* Mutant: a success resets the count, and a HALF_OPEN breaker stays so.
onSuccessStaysHalfOpen == failures' = 0 /\ UNCHANGED <<breaker, cooled>>

onSuccess ==
  /\ failures' = 0
  /\ breaker' = IF breaker = "HALF_OPEN" THEN "CLOSED" ELSE breaker
  /\ UNCHANGED cooled

\* Mutant: the breaker opens one failure late.
onFailureLate ==
  /\ failures' = IF failures < Threshold THEN failures + 1 ELSE failures
  /\ breaker' = IF failures >= Threshold THEN "OPEN" ELSE breaker
  /\ cooled' = FALSE

onFailure ==
  /\ failures' = IF failures < Threshold THEN failures + 1 ELSE failures
  /\ breaker' = IF failures' >= Threshold THEN "OPEN" ELSE breaker
  /\ cooled' = FALSE

\* 30 s go by without a failure.
Cool ==
  /\ ~cooled /\ cooled' = TRUE
  /\ UNCHANGED <<breaker, failures, phase, event, attempt, posts, received, outcome, up>>

-----------------------------------------------------------------------------
\* A publication.

\* One of the publishProject... methods is called.
Publish(p) ==
  /\ phase[p] = "idle"
  /\ \E e \in EventTypes : event' = [event EXCEPT ![p] = e]
  /\ phase' = [phase EXCEPT ![p] = "ready"]
  /\ attempt' = [attempt EXCEPT ![p] = 1]
  /\ posts' = [posts EXCEPT ![p] = 0]
  /\ received' = [received EXCEPT ![p] = 0]
  /\ outcome' = [outcome EXCEPT ![p] = None]
  /\ UNCHANGED <<breaker, failures, cooled, up>>

\* transport.publish is called, through the breaker for high priority only.
Post(p) ==
  /\ phase[p] = "ready"
  /\ IF isHighPriorityEvent(event[p]) THEN Admit ELSE UNCHANGED breakerVars
  /\ phase' = [phase EXCEPT ![p] = "posted"]
  /\ posts' = [posts EXCEPT ![p] = @ + 1]
  /\ UNCHANGED <<event, attempt, received, outcome, up>>

\* Mutant: one retry too many.
AttemptFailsLate(p) ==
  /\ IF attempt[p] <= maxRetries(event[p])
       THEN phase' = [phase EXCEPT ![p] = "asleep"] /\ UNCHANGED outcome
       ELSE /\ phase' = [phase EXCEPT ![p] = "idle"]
            /\ outcome' = [outcome EXCEPT ![p] = "thrown"]
  /\ UNCHANGED <<event, attempt, posts, up>>

\* The attempt failed: pause before the next one, or give up.  The error of a
\* critical event goes to the caller, that of another one is only logged.
AttemptFails(p) ==
  /\ IF attempt[p] < maxRetries(event[p])
       THEN phase' = [phase EXCEPT ![p] = "asleep"] /\ UNCHANGED outcome
       ELSE /\ phase' = [phase EXCEPT ![p] = "idle"]
            /\ outcome' = [outcome EXCEPT ![p] =
                 IF isHighPriorityEvent(event[p]) THEN "thrown" ELSE "swallowed"]
  /\ UNCHANGED <<event, attempt, posts, up>>

\* The breaker refuses the attempt without a post; that is no failure of its own.
Rejected(p) ==
  /\ phase[p] = "ready"
  /\ isHighPriorityEvent(event[p]) /\ ~Admits
  /\ AttemptFails(p)
  /\ UNCHANGED <<breaker, failures, cooled, received>>

PostSucceeds(p) ==
  /\ phase[p] = "posted"
  /\ received' = [received EXCEPT ![p] = @ + 1]
  /\ IF isHighPriorityEvent(event[p]) THEN onSuccess ELSE UNCHANGED breakerVars
  /\ phase' = [phase EXCEPT ![p] = "idle"]
  /\ outcome' = [outcome EXCEPT ![p] = "published"]
  /\ UNCHANGED <<event, attempt, posts, up>>

\* The post is refused, or times out: the orchestrator may have got the event.
PostFails(p) ==
  /\ phase[p] = "posted" /\ ~up
  /\ \/ UNCHANGED received
     \/ received' = [received EXCEPT ![p] = @ + 1]
  /\ IF isHighPriorityEvent(event[p]) THEN onFailure ELSE UNCHANGED breakerVars
  /\ AttemptFails(p)

\* Mutant: the pause ends and the attempt is not counted.
WakeUncounted(p) ==
  /\ phase[p] = "asleep"
  /\ phase' = [phase EXCEPT ![p] = "ready"]
  /\ UNCHANGED <<breaker, failures, cooled, event, attempt, posts, received, outcome, up>>

Wake(p) ==
  /\ phase[p] = "asleep"
  /\ phase' = [phase EXCEPT ![p] = "ready"]
  /\ attempt' = [attempt EXCEPT ![p] = @ + 1]
  /\ UNCHANGED <<breaker, failures, cooled, event, posts, received, outcome, up>>

\* The orchestrator goes down, or comes back.
Outage ==
  /\ up' = ~up
  /\ UNCHANGED <<breaker, failures, cooled, phase, event, attempt, posts, received, outcome>>

Progress(p) == Post(p) \/ Rejected(p) \/ PostSucceeds(p) \/ PostFails(p) \/ Wake(p)

Next ==
  \/ \E p \in Publishers : Publish(p) \/ Progress(p)
  \/ Cool
  \/ Outage

Spec == Init /\ [][Next]_vars

\* Posts are answered or time out, timers fire, time passes.
Fairness == WF_vars(Cool) /\ \A p \in Publishers : WF_vars(Progress(p))
FairSpec == Spec /\ Fairness

-----------------------------------------------------------------------------
\* Properties.

\* Every variable has its type, and no event is tried more often than allowed.
TypeOK ==
  /\ breaker \in {"CLOSED", "OPEN", "HALF_OPEN"}
  /\ failures \in 0 .. Threshold
  /\ cooled \in BOOLEAN /\ up \in BOOLEAN
  /\ phase \in [Publishers -> {"idle", "ready", "posted", "asleep"}]
  /\ event \in [Publishers -> EventTypes \cup {None}]
  /\ attempt \in [Publishers -> Nat]
  /\ posts \in [Publishers -> Nat]
  /\ received \in [Publishers -> Nat]
  /\ outcome \in [Publishers -> {"published", "thrown", "swallowed", None}]
  /\ \A p \in Publishers : phase[p] # "idle" => event[p] \in EventTypes

\* The breaker is not CLOSED over a row of failures that should have opened it,
\* though failures of calls admitted earlier arrive in any state and order.
ClosedBelowThreshold == breaker = "CLOSED" => failures < Threshold

\* The orchestrator may see an event again (its answer was lost), but at most
\* once per attempt of the publication; a publication that claims success was
\* received, and one that gives up has used up its attempts.
DeliveryCount ==
  \A p \in Publishers :
    /\ received[p] <= posts[p]
    /\ posts[p] <= attempt[p]
    /\ phase[p] # "idle" => attempt[p] <= maxRetries(event[p])
    /\ outcome[p] = "published" => received[p] >= 1
    /\ outcome[p] \in {"thrown", "swallowed"} => attempt[p] = maxRetries(event[p])

\* A failure while the breaker probes sends it back to OPEN or is counted: a
\* breaker is CLOSED again only by a success that ends after it was HALF_OPEN.
ClosesOnlyOnSuccess ==
  [][breaker # "CLOSED" /\ breaker' = "CLOSED"
       => \E p \in Publishers : /\ outcome'[p] = "published" /\ outcome[p] = None
                                /\ isHighPriorityEvent(event[p])]_vars

\* publishWithRetry always returns, whatever the breaker and the transport do.
PublicationReturns ==
  \A p \in Publishers : phase[p] # "idle" ~> phase[p] = "idle"

\* Some request is about to post a critical event.
CriticalReady == \E p \in Publishers : phase[p] = "ready" /\ isHighPriorityEvent(event[p])

\* After an outage the breaker closes again as long as critical events keep
\* coming: refused calls and failures that arrive late do not keep it open.
BreakerRecovers == <>[]up /\ []<>CriticalReady => []<>(breaker = "CLOSED")

\* Publications as Publication sees them: pending until they have an outcome.
Publishing == INSTANCE Publication WITH
  Critical <- {e \in EventTypes : isHighPriorityEvent(e)},
  Retries <- [e \in EventTypes |-> maxRetries(e)],
  switch <- breaker,
  call <- [p \in Publishers |->
             IF phase[p] # "idle" THEN "pending"
             ELSE IF outcome[p] = None THEN "none" ELSE outcome[p]]

\* To the services that await them, publications are what Publication promises:
\* retries, pauses and refusals of the breaker are invisible but for the error
\* they end in (events.service.ts:102-142, 675-738).
ImplementsPublication == Publishing!PublicationSpec
=============================================================================
