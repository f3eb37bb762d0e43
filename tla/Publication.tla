----------------------------- MODULE Publication -----------------------------
(***************************************************************************)
(* What EventsService promises to a service that awaits a publication: the *)
(* call ends with an error for a critical event only; what it calls        *)
(* published was received, and nothing is received more often than the     *)
(* event type has attempts.  The breaker is a switch that only critical    *)
(* calls move, and of them only a success closes it.  EventsService, with  *)
(* its attempts, pauses and counters, is shown to implement it.            *)
(***************************************************************************)
EXTENDS Naturals

CONSTANTS
  Publishers, EventTypes, None,
  Critical,      \* the event types whose loss the caller learns of
  Retries        \* Retries[e]: how often an event of type e may be posted

VARIABLES
  switch,        \* "CLOSED", "OPEN" or "HALF_OPEN"
  call,          \* call[p]: "none", "pending", or how p's last call ended
  event,         \* event[p]: the type of the event of that call
  received       \* received[p]: how often the orchestrator got it

publicationVars == <<switch, call, event, received>>

PublicationInit ==
  /\ switch = "CLOSED"
  /\ call = [p \in Publishers |-> "none"]
  /\ event = [p \in Publishers |-> None]
  /\ received = [p \in Publishers |-> 0]

Begin(p) ==
  /\ call[p] # "pending"
  /\ call' = [call EXCEPT ![p] = "pending"]
  /\ \E e \in EventTypes : event' = [event EXCEPT ![p] = e]
  /\ received' = [received EXCEPT ![p] = 0]
  /\ UNCHANGED switch

\* A critical call finds the switch open and may try it.
Probe(p) ==
  /\ call[p] = "pending" /\ event[p] \in Critical
  /\ switch = "OPEN" /\ switch' = "HALF_OPEN"
  /\ UNCHANGED <<call, event, received>>

Received(p) ==
  received[p] < Retries[event[p]] /\ received' = [received EXCEPT ![p] = @ + 1]

\* An attempt fails: the event may have arrived all the same, the switch may
\* open, and the call may be over.
Fail(p) ==
  /\ call[p] = "pending"
  /\ Received(p) \/ UNCHANGED received
  /\ LET end == IF event[p] \in Critical THEN "thrown" ELSE "swallowed"
     IN call' \in {call, [call EXCEPT ![p] = end]}
  /\ switch' \in (IF event[p] \in Critical THEN {switch, "OPEN"} ELSE {switch})
  /\ UNCHANGED event

Succeed(p) ==
  /\ call[p] = "pending" /\ Received(p)
  /\ call' = [call EXCEPT ![p] = "published"]
  /\ switch' = IF event[p] \in Critical /\ switch = "HALF_OPEN" THEN "CLOSED" ELSE switch
  /\ UNCHANGED event

PublicationNext == \E p \in Publishers : Begin(p) \/ Probe(p) \/ Fail(p) \/ Succeed(p)

PublicationSpec == PublicationInit /\ [][PublicationNext]_publicationVars
=============================================================================
