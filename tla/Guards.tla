------------------------------- MODULE Guards -------------------------------
(***************************************************************************)
(* Requests on their way through AuthGuard, ProjectOwnerGuard and the      *)
(* controllers, with what both guards keep in Redis.                       *)
(*                                                                         *)
(* Each action is one awaited call with the code up to the next one.  The  *)
(* world changes meanwhile: tokens are revoked or expire, projects are     *)
(* archived and deleted, cached entries age.                               *)
(***************************************************************************)
EXTENDS Controllers

CONSTANTS
  Clients,         \* requests
  Tokens, Users,
  ProjectOwner,    \* the owner of the one project asked for
  TokenUser,       \* [Tokens -> Users], the auth service's knowledge
  Requested,       \* the requests clients may send
  Revocable,       \* subset of Tokens: those that are revoked at some time
  TTL,             \* ticks a cached validation or grant lives (300 s)
  ShortTTL,        \* ticks a cached refusal of ownership lives (60 s)
  GuardFaults      \* subset of {"cache", "db", "auth"}: what may fail

ASSUME GuardsAssumption ==
  /\ ProjectOwner \in Users
  /\ TokenUser \in [Tokens -> Users] /\ Revocable \subseteq Tokens
  /\ ShortTTL \in Nat \ {0} /\ TTL \in Nat /\ ShortTTL <= TTL
  /\ None \notin Users

\* The requests are for routes that AuthGuard stands before.
ASSUME RequestedAssumption ==
  \A q \in Requested : q.route \in DOMAIN Routes /\ Routes[q.route].auth

VARIABLES
  valid,           \* [Tokens -> BOOLEAN]: what the auth service would say
  status,          \* the project's status
  revokedFor,      \* ticks since the token was revoked
  deletedFor,      \* ticks since the project was deleted
  auth,            \* auth:token:<hash> -> ticks left, 0: no entry
  owner,           \* project_owner:<project>:<user> -> entry or None
  pc, req, user,   \* per request: awaited call, request, request.user
  answer           \* per request: HTTP status, 0: none yet

world == <<valid, status, revokedFor, deletedFor>>
vars == <<valid, status, revokedFor, deletedFor, auth, owner, pc, req, user, answer>>

Entry == [isOwner : BOOLEAN, left : 1 .. TTL]
Steps == {"idle", "getCachedValidation", "validateToken", "cacheValidation",
          "getCachedOwnership", "findOwned", "findExisting", "cacheGrant",
          "cacheRefusal", "handler"}

Init ==
  /\ valid = [t \in Tokens |-> TRUE]
  /\ status \in {"ACTIVE", "ARCHIVED"}
  /\ revokedFor = [t \in Tokens |-> 0]
  /\ deletedFor = 0
  /\ auth = [t \in Tokens |-> 0]
  /\ owner = [u \in Users |-> None]
  /\ pc = [c \in Clients |-> "idle"]
  /\ req = [c \in Clients |-> None]
  /\ user = [c \in Clients |-> None]
  /\ answer = [c \in Clients |-> 0]

\* On to the next awaited call, the request working for user u; or answered.
GotoAs(c, step, u) ==
  pc' = [pc EXCEPT ![c] = step] /\ user' = [user EXCEPT ![c] = u] /\ UNCHANGED <<req, answer>>
Goto(c, step) == GotoAs(c, step, user[c])
Answer(c, code) ==
  /\ pc' = [pc EXCEPT ![c] = "idle"] /\ answer' = [answer EXCEPT ![c] = code]
  /\ user' = [user EXCEPT ![c] = None] /\ req' = [req EXCEPT ![c] = None]

-----------------------------------------------------------------------------
\* AuthGuard.canActivate.

\* extractTokenFromRequest: a header that is not "Bearer <token>" is refused.
Receive(c) ==
  /\ pc[c] = "idle"
  /\ \E q \in Requested :
       IF q.header \notin Tokens THEN Answer(c, 401)
       ELSE /\ pc' = [pc EXCEPT ![c] = "getCachedValidation"]
            /\ req' = [req EXCEPT ![c] = q] /\ answer' = [answer EXCEPT ![c] = 0]
            /\ UNCHANGED user
  /\ UNCHANGED <<world, auth, owner>>

\* After AuthGuard: the next guard of the route, or its handler.  Its
\* extractProjectId reads the parameter called id, and no other.
Authenticated(c, u) ==
  LET q == req[c] r == Routes[q.route] IN
  IF ~r.owner THEN GotoAs(c, "handler", u)
  ELSE IF r.param # "id" \/ q.id = "malformed" THEN Answer(c, 400)
  ELSE GotoAs(c, IF "skipCache" \in q.options THEN "findOwned" ELSE "getCachedOwnership", u)

\* Only validated users are stored, under the hash of their token.
GetCachedValidation(c) ==
  LET t == req[c].header IN
  /\ pc[c] = "getCachedValidation"
  /\ \/ auth[t] > 0 /\ Authenticated(c, TokenUser[t])
     \/ (auth[t] = 0 \/ "cache" \in GuardFaults) /\ Goto(c, "validateToken")
  /\ UNCHANGED <<world, auth, owner>>

\* Mutant: a service that cannot be reached lets the token pass.
ValidateTokenOpen(c) ==
  LET t == req[c].header IN
  /\ pc[c] = "validateToken"
  /\ \/ (valid[t] \/ "auth" \in GuardFaults) /\ GotoAs(c, "cacheValidation", TokenUser[t])
     \/ ~valid[t] /\ Answer(c, 401)
  /\ UNCHANGED <<world, auth, owner>>

\* A positive answer makes the user; a refusal, and every error that is neither
\* a connection error nor a timeout, is a 401; those two are a 503.
ValidateToken(c) ==
  LET t == req[c].header IN
  /\ pc[c] = "validateToken"
  /\ \/ valid[t] /\ GotoAs(c, "cacheValidation", TokenUser[t])
     \/ ~valid[t] /\ Answer(c, 401)
     \/ "auth" \in GuardFaults /\ \E code \in {401, 503} : Answer(c, code)
  /\ UNCHANGED <<world, auth, owner>>

\* cacheValidation: for the configured time, whatever expiresAt the service
\* returned; a failing set is ignored.
CacheValidation(c) ==
  /\ pc[c] = "cacheValidation"
  /\ \/ auth' = [auth EXCEPT ![req[c].header] = TTL]
     \/ "cache" \in GuardFaults /\ UNCHANGED auth
  /\ Authenticated(c, user[c])
  /\ UNCHANGED <<world, owner>>

-----------------------------------------------------------------------------
\* ProjectOwnerGuard.canActivate.

\* A hit decides, whatever the options of this handler are.
GetCachedOwnership(c) ==
  LET entry == owner[user[c]] IN
  /\ pc[c] = "getCachedOwnership"
  /\ \/ entry # None /\ entry.isOwner /\ Goto(c, "handler")
     \/ entry # None /\ ~entry.isOwner /\ Answer(c, 403)
     \/ (entry = None \/ "cache" \in GuardFaults) /\ Goto(c, "findOwned")
  /\ UNCHANGED <<world, auth, owner>>

Acceptable(q) ==
  IF "allowArchived" \in q.options THEN status # "DELETED" ELSE status = "ACTIVE"

\* Mutant: the query for the project forgets the owner.
FindOwnedByAnyone(c) ==
  /\ pc[c] = "findOwned"
  /\ IF ~Acceptable(req[c]) THEN Goto(c, "findExisting")
     ELSE IF "skipCache" \in req[c].options THEN Goto(c, "handler")
     ELSE Goto(c, "cacheGrant")
  /\ UNCHANGED <<world, auth, owner>>

FindOwned(c) ==
  /\ pc[c] = "findOwned"
  /\ \/ IF user[c] # ProjectOwner \/ ~Acceptable(req[c]) THEN Goto(c, "findExisting")
        ELSE IF "skipCache" \in req[c].options THEN Goto(c, "handler")
        ELSE Goto(c, "cacheGrant")
     \/ "db" \in GuardFaults /\ Answer(c, 500)
  /\ UNCHANGED <<world, auth, owner>>

\* No row for this user: the project is somebody else's, or there is none.
FindExisting(c) ==
  /\ pc[c] = "findExisting"
  /\ \/ IF status = "DELETED" THEN Answer(c, 404)
        ELSE IF "skipCache" \in req[c].options THEN Answer(c, 403)
        ELSE Goto(c, "cacheRefusal")
     \/ "db" \in GuardFaults /\ Answer(c, 500)
  /\ UNCHANGED <<world, auth, owner>>

CacheOwnership(c, isOwner, left) ==
  \/ owner' = [owner EXCEPT ![user[c]] = [isOwner |-> isOwner, left |-> left]]
  \/ "cache" \in GuardFaults /\ UNCHANGED owner

CacheGrant(c) ==
  /\ pc[c] = "cacheGrant"
  /\ CacheOwnership(c, TRUE, TTL)
  /\ Goto(c, "handler")
  /\ UNCHANGED <<world, auth>>

\* Mutant: the key of the entry names the project only.
CacheRefusalForAll(c) ==
  /\ pc[c] = "cacheRefusal"
  /\ owner' = [u \in Users |-> [isOwner |-> FALSE, left |-> ShortTTL]]
  /\ Answer(c, 403)
  /\ UNCHANGED <<world, auth>>

CacheRefusal(c) ==
  /\ pc[c] = "cacheRefusal"
  /\ CacheOwnership(c, FALSE, ShortTTL)
  /\ Answer(c, 403)
  /\ UNCHANGED <<world, auth>>

-----------------------------------------------------------------------------
\* The handler, reached by an authenticated request.
Handle(c) ==
  /\ pc[c] = "handler"
  /\ \E code \in HandlerAnswers(req[c], user[c], FALSE) : Answer(c, code)
  /\ UNCHANGED <<world, auth, owner>>

-----------------------------------------------------------------------------
\* The world.

Revoke(t) ==
  /\ valid[t]
  /\ valid' = [valid EXCEPT ![t] = FALSE]
  /\ UNCHANGED <<status, revokedFor, deletedFor, auth, owner, pc, req, user, answer>>

\* Archived or deleted: no guard entry is invalidated by either.
ChangeStatus ==
  /\ \/ status = "ACTIVE" /\ status' = "ARCHIVED"
     \/ status # "DELETED" /\ status' = "DELETED"
  /\ UNCHANGED <<valid, revokedFor, deletedFor, auth, owner, pc, req, user, answer>>

InFlight(c) == pc[c] # "idle"

\* Mutant: ownership entries are written without a TTL.
TickAuthOnly ==
  /\ \A c \in Clients : ~InFlight(c)
  /\ auth' = [t \in Tokens |-> IF auth[t] = 0 THEN 0 ELSE auth[t] - 1]
  /\ revokedFor' = [t \in Tokens |-> IF valid[t] \/ revokedFor[t] = TTL THEN revokedFor[t]
                                                                        ELSE revokedFor[t] + 1]
  /\ deletedFor' = IF status = "DELETED" /\ deletedFor < TTL THEN deletedFor + 1 ELSE deletedFor
  /\ UNCHANGED <<valid, status, owner, pc, req, user, answer>>

\* A tick is a minute or more.  An assumption: no request takes that long between
\* the guards' first query and their last, each of which is answered or fails soon
\* (the authentication service's within its timeout).
Tick ==
  /\ \A c \in Clients : ~InFlight(c)
  /\ auth' = [t \in Tokens |-> IF auth[t] = 0 THEN 0 ELSE auth[t] - 1]
  /\ owner' = [u \in Users |->
                 IF owner[u] = None \/ owner[u].left = 1 THEN None
                 ELSE [owner[u] EXCEPT !.left = @ - 1]]
  /\ revokedFor' = [t \in Tokens |-> IF valid[t] \/ revokedFor[t] = TTL THEN revokedFor[t]
                                                                        ELSE revokedFor[t] + 1]
  /\ deletedFor' = IF status = "DELETED" /\ deletedFor < TTL THEN deletedFor + 1 ELSE deletedFor
  /\ UNCHANGED <<valid, status, pc, req, user, answer>>

Proceed(c) ==
  \/ GetCachedValidation(c) \/ ValidateToken(c) \/ CacheValidation(c)
  \/ GetCachedOwnership(c) \/ FindOwned(c) \/ FindExisting(c)
  \/ CacheGrant(c) \/ CacheRefusal(c) \/ Handle(c)

Next ==
  \/ \E c \in Clients : Receive(c) \/ Proceed(c)
  \/ \E t \in Revocable : Revoke(t)
  \/ ChangeStatus \/ Tick

Spec == Init /\ [][Next]_vars

-----------------------------------------------------------------------------
\* Properties.

\* Every variable has its type; who waits for the auth service has sent a token,
\* and who waits for the ownership of a project is authenticated.
TypeOK ==
  /\ valid \in [Tokens -> BOOLEAN]
  /\ status \in {"ACTIVE", "ARCHIVED", "DELETED"}
  /\ revokedFor \in [Tokens -> 0 .. TTL] /\ deletedFor \in 0 .. TTL
  /\ auth \in [Tokens -> 0 .. TTL] /\ owner \in [Users -> Entry \cup {None}]
  /\ pc \in [Clients -> Steps] /\ req \in [Clients -> Requested \cup {None}]
  /\ user \in [Clients -> Users \cup {None}] /\ answer \in [Clients -> Nat]
  /\ \A c \in Clients :
       /\ pc[c] \in {"getCachedValidation", "validateToken", "cacheValidation"}
            => req[c].header \in Tokens
       /\ pc[c] \in {"getCachedOwnership", "findOwned", "findExisting", "cacheGrant",
                     "cacheRefusal"} => user[c] \in Users

\* A request passes AuthGuard only on a validation less than a TTL old: what is
\* cached never outlives that, and an outage of the auth service admits nobody.
AdmittedOnRecentValidation ==
  \A c \in Clients : pc[c] \in {"handler", "getCachedOwnership"} /\ Routes[req[c].route].auth =>
    LET t == req[c].header IN valid[t] \/ revokedFor[t] < TTL

\* Nobody but the owner gets past ProjectOwnerGuard, on any mixture of options,
\* cached grants and refusals.
OnlyOwnerPasses ==
  \A c \in Clients :
    pc[c] \in {"handler", "cacheGrant"} /\ Routes[req[c].route].owner => user[c] = ProjectOwner

\* The grant of a deleted project is forgotten one TTL after the deletion,
\* although no deletion invalidates it.
DeletedGrantFades ==
  \A u \in Users : owner[u] # None /\ owner[u].isOwner =>
    status # "DELETED" \/ owner[u].left + deletedFor <= TTL

\* Who owns the project is refused from the cache only once the project was
\* archived or deleted: no refusal is kept from while it was ACTIVE.
OwnerRefusedOnlyAfterArchive ==
  owner[ProjectOwner] # None /\ ~owner[ProjectOwner].isOwner => status # "ACTIVE"

=============================================================================
