---------------------------- MODULE CacheService ----------------------------
(***************************************************************************)
(* CacheService over one Redis: reads and writes that retry, deletion by   *)
(* pattern (KEYS, then DEL of what KEYS returned), the three invalidations *)
(* built from them, and the locks.                                         *)
(*                                                                         *)
(* A key is a record [kind, of, more]: the family of CACHE_KEYS it is made *)
(* by, the project or user it is made for, and what else it holds (page,   *)
(* filters, session).  Of a value only its presence matters.  Each action  *)
(* is one attempt of one command; a fault is an error that Redis or the    *)
(* connection returns, with the command executed or not.                   *)
(***************************************************************************)
EXTENDS Naturals, Sequences, FiniteSets

CONSTANTS
  Clients,        \* callers of the service
  Keys,           \* the keys in use
  CallKeys,       \* subset of Keys: those that get and set are called with
  InvalidKeys,    \* subset of Keys that validateKey refuses
  CallSets,       \* sets of calls; the clients of one behaviour make those of one set
  Projects, Users,
  LockTTL,        \* ticks a lock lives
  CacheFaults,    \* BOOLEAN: commands may fail
  NoLock

ASSUME CacheAssumption ==
  /\ InvalidKeys \subseteq Keys /\ CallKeys \subseteq Keys /\ LockTTL \in Nat \ {0}
  /\ CacheFaults \in BOOLEAN /\ NoLock \notin [holder : Clients, left : Nat]

VARIABLES
  calls,          \* the calls that are made
  prefixed,       \* the connection adds a keyPrefix: test, staging and production
  ready,          \* redis.status = "ready"
  store,          \* the keys that are present
  lock,           \* locks:<operation>:<resource>: [holder, left] or NoLock
  call,           \* per client: what it is executing
  believes        \* per client: it holds the lock as far as it knows

vars == <<calls, prefixed, ready, store, lock, call, believes>>

maxRetries == 3

\* Steps of a call: commands still to run, each with its keys or its pattern.
DelKeys(keys) == [cmd |-> "del", keys |-> keys]
Matching(kinds, of) ==
  [cmd |-> "keys", keys |-> {k \in Keys : k.kind \in kinds /\ (of = "*" \/ k.of = of)}]
OfProject(kinds, p) == DelKeys({k \in Keys : k.kind \in kinds /\ k.of = p})

\* A call: its key and attempt, or the steps left of an invalidation, what that
\* is to forget and what was written meanwhile.  "failed" is the end of an
\* invalidation that could not run all its commands, and tells nobody.
NoCall == [op |-> "none", key |-> NoLock, attempt |-> 0, steps |-> <<>>, covered |-> {}, writes |-> {}]

\* Mutant: the patterns of the counters are forgotten.
PlanListsOnly(op, p, u) ==
  CASE op = "invalidateProjectCache" ->
         <<OfProject({"project", "project-full", "stats-project", "files-list"}, p),
           Matching({"list"}, u)>>
    [] op = "invalidateUserProjectsCache" ->
         <<Matching({"list"}, u), Matching({"session"}, u), OfProject({"user-summary"}, u)>>
    [] OTHER -> <<Matching({"stats-project", "user-summary"}, "*")>>

\* The commands of an invalidation, in their order; p = "*" is the call of
\* invalidateStatisticsCache without a project.
Plan(op, p, u) ==
  CASE op = "invalidateProjectCache" ->
         <<OfProject({"project", "project-full", "stats-project", "files-list"}, p),
           Matching({"list"}, u), Matching({"count"}, u)>>
    [] op = "invalidateUserProjectsCache" ->
         <<Matching({"list"}, u), Matching({"count"}, u), Matching({"session"}, u),
           OfProject({"user-summary"}, u)>>
    [] op = "invalidateStatisticsCache" /\ p = "*" ->
         <<Matching({"stats-project", "user-summary"}, "*")>>
    [] op = "invalidateStatisticsCache" /\ p # "*" ->
         <<OfProject({"stats-project", "project-full"}, p)>>

\* What an invalidation promises to forget: its documentation's list.
Covered(op, p, u) ==
  {k \in Keys :
     CASE op = "invalidateProjectCache" ->
            \/ k.of = p /\ k.kind \in {"project", "project-full", "stats-project", "files-list"}
            \/ k.of = u /\ k.kind \in {"list", "count"}
       [] op = "invalidateUserProjectsCache" ->
            k.of = u /\ k.kind \in {"list", "count", "session", "user-summary"}
       [] op = "invalidateStatisticsCache" ->
            IF p = "*" THEN k.kind \in {"stats-project", "user-summary"}
            ELSE k.of = p /\ k.kind \in {"stats-project", "project-full"}}

Init ==
  /\ calls \in CallSets /\ prefixed \in BOOLEAN /\ ready = TRUE /\ store = {} /\ lock = NoLock
  /\ call = [c \in Clients |-> NoCall]
  /\ believes = [c \in Clients |-> FALSE]

-----------------------------------------------------------------------------
\* Calls and their commands.

\* The projects and users that have keys.
Named == {k.of : k \in CallKeys}

Begin(c) ==
  /\ call[c].op \in {"none", "failed"}
  /\ \/ \E op \in calls \cap {"get", "set"}, k \in CallKeys :
          call' = [call EXCEPT ![c] = [NoCall EXCEPT !.op = op, !.key = k, !.attempt = 1]]
     \/ \E op \in calls \cap {"invalidateProjectCache", "invalidateUserProjectsCache",
                              "invalidateStatisticsCache"},
           u \in Users \cap Named, p \in (Projects \cap Named) \cup {"*"} :
          /\ p = "*" => op = "invalidateStatisticsCache"
          /\ call' = [call EXCEPT ![c] = [NoCall EXCEPT !.op = "invalidate", !.steps = Plan(op, p, u),
                                                      !.covered = Covered(op, p, u)]]
  /\ UNCHANGED <<calls, prefixed, ready, store, lock, believes>>

Return(c) == call' = [call EXCEPT ![c] = NoCall]

\* Another attempt after a pause, or null and false after the last.
RetryOrReturn(c) ==
  IF call[c].attempt < maxRetries
  THEN call' = [call EXCEPT ![c].attempt = @ + 1] ELSE Return(c)

Get(c) ==
  /\ call[c].op = "get"
  /\ \/ (call[c].key \in InvalidKeys \/ ready) /\ Return(c)
     \/ /\ call[c].key \notin InvalidKeys /\ (~ready \/ CacheFaults)
        /\ RetryOrReturn(c)
  /\ UNCHANGED <<calls, prefixed, ready, store, lock, believes>>

\* The calls after k was written, which running invalidations need not forget.
Noted(k) ==
  [d \in Clients |-> IF k \in call[d].covered THEN [call[d] EXCEPT !.writes = @ \cup {k}]
                                              ELSE call[d]]

\* A SETEX whose answer is lost has been executed, and is executed again.
Set(c) ==
  LET k == call[c].key IN
  /\ call[c].op = "set"
  /\ \/ k \in InvalidKeys /\ Return(c) /\ UNCHANGED store
     \/ /\ k \notin InvalidKeys /\ ready
        /\ store' = store \cup {k}
        /\ call' = [Noted(k) EXCEPT ![c] = NoCall]
     \/ /\ k \notin InvalidKeys /\ ready /\ CacheFaults /\ call[c].attempt < maxRetries
        /\ store' = store \cup {k}
        /\ call' = [Noted(k) EXCEPT ![c].attempt = @ + 1]
     \/ /\ k \notin InvalidKeys /\ (~ready \/ CacheFaults)
        /\ RetryOrReturn(c) /\ UNCHANGED store
  /\ UNCHANGED <<calls, prefixed, ready, lock, believes>>

\* On to the next command; the last one ends the call.
NextStep(c, ok) ==
  LET rest == Tail(call[c].steps)
      after == [call[c] EXCEPT !.steps = rest, !.covered = IF ok THEN @ ELSE {}]
  IN call' = [call EXCEPT ![c] = IF rest # <<>> THEN after
                                 ELSE [NoCall EXCEPT !.op = IF ok THEN "none" ELSE "failed"]]

Running(c, cmd) ==
  call[c].op = "invalidate" /\ call[c].steps # <<>> /\ Head(call[c].steps).cmd = cmd

\* del: keys that are invalid are left out, an error is 0 keys deleted.
Del(c) ==
  /\ Running(c, "del")
  /\ \/ ready /\ store' = store \ Head(call[c].steps).keys /\ NextStep(c, TRUE)
     \/ (CacheFaults \/ ~ready) /\ UNCHANGED store /\ NextStep(c, FALSE)
  /\ UNCHANGED <<calls, prefixed, ready, lock, believes>>

\* keys: the pattern of KEYS is not given the connection's keyPrefix, so that it
\* matches nothing where there is one.  No key found ends the step.
KeysCommand(c) ==
  /\ Running(c, "keys")
  /\ LET found == IF prefixed THEN {} ELSE Head(call[c].steps).keys \cap store IN
     \/ ready /\ found = {} /\ NextStep(c, TRUE)
     \/ ready /\ found # {} /\ call' = [call EXCEPT ![c].steps[1] = DelKeys(found)]
     \/ (CacheFaults \/ ~ready) /\ NextStep(c, FALSE)
  /\ UNCHANGED <<calls, prefixed, ready, store, lock, believes>>

\* The TTL of a value runs out.
ExpireKey(k) ==
  /\ k \in store /\ store' = store \ {k}
  /\ UNCHANGED <<calls, prefixed, ready, lock, call, believes>>

Reconnect ==
  /\ CacheFaults /\ ready' = ~ready
  /\ UNCHANGED <<calls, prefixed, store, lock, call, believes>>

-----------------------------------------------------------------------------
\* Locks: SET NX PX with a value of the caller's own.

\* A SET that is executed but not answered leaves a lock nobody knows to hold.
AcquireLock(c) ==
  /\ "acquireLock" \in calls /\ ~believes[c] /\ lock = NoLock
  /\ lock' = [holder |-> c, left |-> LockTTL]
  /\ \/ believes' = [believes EXCEPT ![c] = TRUE]
     \/ CacheFaults /\ UNCHANGED believes
  /\ UNCHANGED <<calls, prefixed, ready, store, call>>

\* Mutant: the lock is deleted without comparing its value.
ReleaseLockBlindly(c) ==
  /\ believes[c] /\ believes' = [believes EXCEPT ![c] = FALSE]
  /\ lock' = NoLock
  /\ UNCHANGED <<calls, prefixed, ready, store, call>>

\* One script compares the value and deletes the lock; the caller, told so or
\* not, goes on as one that does not hold it.
ReleaseLock(c) ==
  /\ believes[c] /\ believes' = [believes EXCEPT ![c] = FALSE]
  /\ \/ lock' = IF lock # NoLock /\ lock.holder = c THEN NoLock ELSE lock
     \/ CacheFaults /\ UNCHANGED lock
  /\ UNCHANGED <<calls, prefixed, ready, store, call>>

LockTick ==
  /\ lock # NoLock /\ lock.left <= LockTTL
  /\ lock' = IF lock.left = 1 THEN NoLock ELSE [lock EXCEPT !.left = @ - 1]
  /\ UNCHANGED <<calls, prefixed, ready, store, call, believes>>

Command(c) == Get(c) \/ Set(c) \/ Del(c) \/ KeysCommand(c)

Next ==
  \/ \E c \in Clients : Begin(c) \/ Command(c) \/ AcquireLock(c) \/ ReleaseLock(c)
  \/ \E k \in Keys : ExpireKey(k)
  \/ Reconnect \/ LockTick

Spec == Init /\ [][Next]_vars

-----------------------------------------------------------------------------
\* Properties.

\* Variables have their types, and no get or set makes more than three attempts.
TypeOK ==
  /\ calls \in CallSets /\ {prefixed, ready} \subseteq BOOLEAN /\ store \subseteq Keys
  /\ lock \in [holder : Clients, left : 1 .. LockTTL] \cup {NoLock}
  /\ believes \in [Clients -> BOOLEAN]
  /\ \A c \in Clients :
       /\ call[c].op \in {"none", "failed", "get", "set", "invalidate"}
       /\ call[c].attempt \in 0 .. maxRetries
       /\ call[c].op = "invalidate" <=> call[c].steps # <<>>
       /\ call[c].covered \cup call[c].writes \subseteq Keys

\* An invalidation whose commands all ran leaves no key it is to forget, except
\* those written while it ran: no write slips through between its KEYS and its
\* DEL unseen, no family of keys is left out.  (Without a keyPrefix.)
InvalidationComplete ==
  [][\A c \in Clients : call[c].op = "invalidate" /\ call'[c].op = "none" /\ ~prefixed =>
       call[c].covered \cap store' \subseteq call[c].writes]_vars

\* Nobody but its holder ends a lock before its time: not a client whose own lock
\* expired and was taken by another meanwhile.
LockUndisturbed ==
  [][lock # NoLock /\ lock.left > 1 /\ (lock' = NoLock \/ lock'.holder # lock.holder) =>
       believes[lock.holder] /\ ~believes'[lock.holder]]_vars

=============================================================================
