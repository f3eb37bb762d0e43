------------------------------- MODULE Health -------------------------------
(***************************************************************************)
(* The database connection of a starting process (DatabaseService) and the *)
(* probes it answers once it serves (HealthController, HealthService).  A  *)
(* probe runs its checks side by side, each raced with a timeout.  The     *)
(* check of the cache writes, reads and removes one key that all probes    *)
(* share; when it loses its race it goes on by itself.                     *)
(***************************************************************************)
EXTENDS CacheService

CONSTANTS
  Asks,            \* [Clients -> SUBSET routes]: load balancer, readiness probe
  Services,        \* the external services whose check is enabled
  Stamps,          \* milliseconds: the values of the cache test
  ConnectRetries   \* retries.maxRetries of the database configuration, or 1

ASSUME HealthAssumption ==
  /\ Asks \in [Clients -> SUBSET {"check", "detailed", "ready"}] /\ IsFiniteSet(Services)
  /\ Stamps \subseteq Nat \ {0} /\ ConnectRetries \in Nat \ {0}

VARIABLES
  db,        \* "up", "down": refuses, "silent": answers after every timeout
  start,     \* how far the process has come: [at, attempt]
  probe,     \* per client: its route, the outcome of each check, its answer
  test,      \* per client: its check of the cache: the next command and its value
  tested     \* the value under health:test, 0 if there is none

hvars == <<db, start, probe, test, tested>>

\* heard and trouble are history: the database answered, something went wrong.
NoProbe == [route |-> "none", database |-> "up", cache |-> "up", services |-> "none", down |-> {},
            answer |-> 0, heard |-> FALSE, trouble |-> FALSE]
NoTest == [at |-> "done", stamp |-> 0, works |-> FALSE]

HealthInit ==
  /\ db = "up" /\ start = [at |-> "connect", attempt |-> 1] /\ tested = 0
  /\ probe = [c \in Clients |-> NoProbe] /\ test = [c \in Clients |-> NoTest]

-----------------------------------------------------------------------------
\* connectWithRetry.

\* $connect, which the connection's timeout ends, and its SELECT 1, which
\* nothing ends but an answer.
Connect ==
  /\ start.at = "connect" /\ db = "up" /\ start' = [start EXCEPT !.at = "select"]
  /\ UNCHANGED <<vars, db, probe, test, tested>>
Select ==
  /\ start.at = "select" /\ db = "up" /\ start' = [at |-> "serving", attempt |-> 1]
  /\ UNCHANGED <<vars, db, probe, test, tested>>

\* Any error is followed by another attempt; whether it is retriable decides
\* about the pause alone.  After the last, onModuleInit throws and the process
\* ends.
AttemptFails ==
  /\ \/ start.at = "connect" /\ db # "up"
     \/ start.at = "select" /\ db = "down"
  /\ start' = IF start.attempt < ConnectRetries
              THEN [at |-> "connect", attempt |-> start.attempt + 1]
              ELSE [start EXCEPT !.at = "failed"]
  /\ UNCHANGED <<vars, db, probe, test, tested>>

\* The container is started again.
Restart ==
  /\ start.at = "failed" /\ start' = [at |-> "connect", attempt |-> 1]
  /\ UNCHANGED <<vars, db, probe, test, tested>>

ChangeDatabase ==
  /\ \E s \in {"up", "down", "silent"} \ {db} : db' = s
  /\ UNCHANGED <<vars, start, probe, test, tested>>

-----------------------------------------------------------------------------
\* Probes.

\* The bound: a client waits for what its last check of the cache left running.
Probe(c) ==
  /\ "health" \in calls /\ start.at = "serving"
  /\ probe[c].route = "none" /\ test[c].at = "done"
  /\ \E route \in Asks[c] :
       probe' = [probe EXCEPT ![c] =
         [NoProbe EXCEPT !.route = route, !.database = "wait", !.cache = "wait",
                         !.services = IF route = "detailed" THEN "wait" ELSE "none"]]
  /\ test' = [test EXCEPT ![c].at = "set"]
  /\ UNCHANGED <<vars, db, start, tested>>

\* SELECT 1, refused by a database that is down, and raced with a timeout.
CheckDatabase(c) ==
  /\ probe[c].database = "wait"
  /\ probe' = [probe EXCEPT ![c].database = IF db = "up" THEN "up" ELSE "down",
                            ![c].heard = db = "up", ![c].trouble = @ \/ db # "up"]
  /\ UNCHANGED <<vars, db, start, test, tested>>

\* The commands of the cache test: one that fails returns false, null or 0, and
\* the test goes on.  Nobody awaits it when its timeout was faster.
Test(c, at, next, fault) ==
  /\ test[c].at = at /\ (IF fault THEN CacheFaults \/ ~ready ELSE ready)
  /\ test' = [test EXCEPT ![c] = next]
  /\ probe' = IF probe[c].cache # "wait" THEN probe
              ELSE [probe EXCEPT ![c].trouble = @ \/ fault]
  /\ UNCHANGED <<vars, db, start>>

\* A SETEX that failed may have been executed.
TestSet(c) ==
  \E stamp \in Stamps, fault \in BOOLEAN :
    /\ Test(c, "set", [at |-> "get", stamp |-> stamp, works |-> FALSE], fault)
    /\ tested' = stamp \/ (fault /\ UNCHANGED tested)

TestGet(c) ==
  \E fault \in BOOLEAN :
    /\ Test(c, "get", [at |-> "del", stamp |-> 0, works |-> ~fault /\ tested = test[c].stamp], fault)
    /\ UNCHANGED tested

TestDel(c) ==
  \E fault \in BOOLEAN :
    /\ Test(c, "del", [test[c] EXCEPT !.at = "return"], fault)
    /\ tested' = 0 \/ (fault /\ UNCHANGED tested)

\* Mutant: a value that is not read back counts as a cache that is down.
CheckCacheByValue(c) ==
  /\ test[c].at = "return" /\ test' = [test EXCEPT ![c] = NoTest]
  /\ probe' = IF probe[c].cache = "wait"
              THEN [probe EXCEPT ![c].cache = IF test[c].works THEN "up" ELSE "down"] ELSE probe
  /\ UNCHANGED <<vars, db, start, tested>>

\* The cache is up once the test has run, whatever it read back: that is a
\* detail of the answer.
CheckCache(c) ==
  /\ test[c].at = "return" /\ test' = [test EXCEPT ![c] = NoTest]
  /\ probe' = IF probe[c].cache = "wait" THEN [probe EXCEPT ![c].cache = "up"] ELSE probe
  /\ UNCHANGED <<vars, db, start, tested>>

\* The timeout wins the race; what has been started of the test goes on.
CheckCacheTimeout(c) ==
  /\ probe[c].cache = "wait" /\ (CacheFaults \/ ~ready)
  /\ probe' = [probe EXCEPT ![c].cache = "down", ![c].trouble = TRUE]
  /\ UNCHANGED <<vars, db, start, test, tested>>

\* Of what an external service may do, a status below 400 is "up".
Responses == {"success", "status from 400 on", "error", "timeout"}
CallExternalService(response) == IF response = "success" THEN "up" ELSE "down"

\* The external services, once the checks of all of them are settled.
CheckExternalServices(c) ==
  /\ probe[c].services = "wait"
  /\ \E response \in [Services -> Responses] :
       LET down == {s \in Services : CallExternalService(response[s]) = "down"} IN
       probe' = [probe EXCEPT ![c].services = "settled", ![c].down = down,
                              ![c].trouble = @ \/ down # {}]
  /\ UNCHANGED <<vars, db, start, test, tested>>

\* Healthy in spite of services that are down, as long as half of them are up.
DetermineGlobalStatus(p) ==
  /\ p.database = "up" /\ p.cache = "up"
  /\ 2 * Cardinality(p.down) <= Cardinality(Services)

\* The handlers: /health/ready asks for the cache and goes without it.
check(p) == p.database = "up" /\ p.cache = "up"
detailed(p) == DetermineGlobalStatus(p)
readiness(p) == p.database = "up"

Answer(c) ==
  LET p == probe[c]
      healthy == CASE p.route = "check" -> check(p)
                   [] p.route = "detailed" -> detailed(p)
                   [] p.route = "ready" -> readiness(p)
  IN /\ p.route # "none" /\ "wait" \notin {p.database, p.cache, p.services}
     /\ probe' = [probe EXCEPT ![c] = [NoProbe EXCEPT !.answer = IF healthy THEN 200 ELSE 503,
                                                     !.heard = p.heard, !.trouble = p.trouble]]
     /\ UNCHANGED <<vars, db, start, test, tested>>

HealthNext ==
  \/ Connect \/ Select \/ AttemptFails \/ Restart \/ ChangeDatabase
  \/ \E c \in Clients :
       \/ Probe(c) \/ CheckDatabase(c) \/ CheckCacheTimeout(c) \/ CheckCache(c) \/ Answer(c)
       \/ TestSet(c) \/ TestGet(c) \/ TestDel(c) \/ CheckExternalServices(c)

-----------------------------------------------------------------------------

\* A probe is answered 200 only if the database answered it, and 503 only if it
\* met trouble of its own: other probes write and remove the same test key, and
\* checks that lost their race go on doing so, but that makes no healthy
\* service look down (health.service.ts:119-208, health.controller.ts:66-311).
ProbeTruthful ==
  \A c \in Clients :
    /\ probe[c].answer = 200 => probe[c].heard
    /\ probe[c].answer = 503 => probe[c].trouble

=============================================================================
