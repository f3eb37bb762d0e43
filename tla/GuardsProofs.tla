----------------------------- MODULE GuardsProofs -----------------------------
(***************************************************************************)
(* Proofs about Guards, for any clients, tokens and users, any lifetimes   *)
(* of the cached entries and any mixture of the guards' options.           *)
(*                                                                         *)
(* The argument is one of age: a cached entry and what has happened since  *)
(* it became wrong add up to its lifetime at most, and no time passes      *)
(* while a request is between a check and the entry it makes of it.        *)
(***************************************************************************)
EXTENDS Guards, TLAPS

USE GuardsAssumption

\* The awaited calls of a request that AuthGuard has let through.
Authentic == {"getCachedOwnership", "findOwned", "findExisting", "cacheGrant",
              "cacheRefusal", "handler"}

\* A request under way is one of those sent, with a token; who is past
\* AuthGuard, or whose validation is being stored, is a user.
TypeInv ==
  /\ TypeOK
  /\ \A c \in Clients : pc[c] # "idle" =>
       /\ req[c] \in Requested /\ req[c].header \in Tokens
       /\ pc[c] \in Authentic \cup {"cacheValidation"} => user[c] \in Users

\* A cached validation and the time since its token was revoked do not exceed
\* the TTL together, and whoever is past AuthGuard got there within it.
ValidationInv ==
  /\ \A t \in Tokens : valid[t] => revokedFor[t] = 0
  /\ \A t \in Tokens : auth[t] > 0 => auth[t] + revokedFor[t] <= TTL
  /\ \A c \in Clients : pc[c] = "cacheValidation" => revokedFor[req[c].header] = 0
  /\ \A c \in Clients : pc[c] \in Authentic => revokedFor[req[c].header] < TTL

\* A cached grant is the owner's and fades with the deletion; a cached refusal of
\* the owner, or one about to be cached, comes from a project no longer ACTIVE.
OwnershipInv ==
  /\ status # "DELETED" => deletedFor = 0
  /\ \A u \in Users : owner[u] # None /\ owner[u].isOwner =>
       u = ProjectOwner /\ owner[u].left + deletedFor <= TTL
  /\ OwnerRefusedOnlyAfterArchive
  /\ \A c \in Clients :
       /\ pc[c] = "cacheGrant" => user[c] = ProjectOwner /\ deletedFor = 0
       /\ pc[c] = "handler" /\ Routes[req[c].route].owner => user[c] = ProjectOwner
       /\ pc[c] \in {"findExisting", "cacheRefusal"} /\ user[c] = ProjectOwner
            => status # "ACTIVE"

-----------------------------------------------------------------------------
\* What a controller answers is an HTTP status.

LEMMA RouteFields ==
  ASSUME NEW route \in DOMAIN Routes
  PROVE  /\ Routes[route].success \in Nat
         /\ Routes[route].outcomes \subseteq
              {"Ok", "NotFound", "Forbidden", "Conflict", "BadRequest", "TooMany",
               "ServerError", "timeout", "size", "conversion", "other"}
<1>. DEFINE Good(r) ==
       /\ r.success \in Nat
       /\ r.outcomes \subseteq
            {"Ok", "NotFound", "Forbidden", "Conflict", "BadRequest", "TooMany",
             "ServerError", "timeout", "size", "conversion", "other"}
<1>1. /\ Good(create)  /\ Good(findAll)  /\ Good(findOne)
      /\ Good(update)  /\ Good(archive)  /\ Good(delete)
      /\ Good(updateGeneratedFiles)
  BY DEF Good, Route, create, findAll, findOne, update, archive, delete,
         updateGeneratedFiles
<1>2. /\ Good(updateProjectStatistics)  /\ Good(getProjectStatistics)  /\ Good(getGlobalStatistics)
      /\ Good(searchStatistics)  /\ Good(cleanupOldStatistics)  /\ Good(getBatchStatistics)
  BY DEF Good, Route, updateProjectStatistics, getProjectStatistics, getGlobalStatistics,
         searchStatistics, cleanupOldStatistics, getBatchStatistics
<1>3. /\ Good(exportProject)  /\ Good(getExportStatus)  /\ Good(guarded)
  BY DEF Good, Route, exportProject, getExportStatus, guarded
<1>. HIDE DEF Good
<1>4. \E r \in {create, findAll, findOne, update, archive,
               delete, updateGeneratedFiles,
               updateProjectStatistics, getProjectStatistics, getGlobalStatistics,
               searchStatistics, cleanupOldStatistics, getBatchStatistics,
               exportProject, getExportStatus, guarded} :
        Routes[route] = r
  BY DEF Routes
<1>5. Good(Routes[route])
  BY <1>1, <1>2, <1>3, <1>4
<1>. QED
  BY <1>5 DEF Good

LEMMA AnswersAreStatuses ==
  ASSUME NEW q, q.route \in DOMAIN Routes, NEW u, NEW code \in HandlerAnswers(q, u, FALSE)
  PROVE  code \in Nat
<1>1. HandlerRefusal(q, FALSE) \in Nat
  BY DEF HandlerRefusal
<1>2. ASSUME NEW outcome \in Routes[q.route].outcomes
      PROVE  ServiceAnswer(q, outcome) \in Nat
  BY RouteFields DEF ServiceAnswer, ExportErrorStatus, StatusOf
<1>3. \/ code \in {400, 500} \/ code = HandlerRefusal(q, FALSE)
      \/ \E outcome \in Routes[q.route].outcomes : code = ServiceAnswer(q, outcome)
  BY ZenonT(30) DEF HandlerAnswers
<1>4. CASE code \in {400, 500}
  BY <1>4
<1>5. CASE code = HandlerRefusal(q, FALSE)
  BY <1>1, <1>5
<1>6. ASSUME NEW outcome \in Routes[q.route].outcomes, code = ServiceAnswer(q, outcome)
      PROVE  code \in Nat
  BY <1>2, <1>6
<1>. QED
  BY <1>3, <1>4, <1>5, <1>6, ZenonT(30)

-----------------------------------------------------------------------------
\* Types.

LEMMA TypeInit == Init => TypeInv
  BY DEF Init, TypeInv, TypeOK, Steps

\* A request that is answered is idle again.
LEMMA AnsweredTypes ==
  ASSUME TypeInv, NEW c \in Clients, NEW code \in Nat, Answer(c, code),
         UNCHANGED <<world, auth>>, owner' = owner \/ owner' \in [Users -> Entry \cup {None}]
  PROVE  TypeInv'
  BY DEF Answer, world, TypeInv, TypeOK, Steps, Authentic

\* A request that goes on has the header it came with.
LEMMA GoesOnTypes ==
  ASSUME TypeInv, NEW c \in Clients, pc[c] # "idle", NEW step \in Steps, step # "idle",
         NEW u \in Users \cup {None}, GotoAs(c, step, u),
         step \in Authentic \cup {"cacheValidation"} => u \in Users,
         auth' \in [Tokens -> 0 .. TTL], owner' \in [Users -> Entry \cup {None}],
         UNCHANGED world
  PROVE  TypeInv'
  BY DEF GotoAs, world, TypeInv, TypeOK, Steps, Authentic

\* After AuthGuard a request is refused, or goes on as the user it validated.
LEMMA AuthenticatedStep ==
  ASSUME NEW c \in Clients, NEW u \in Users, Authenticated(c, u)
  PROVE  \/ Answer(c, 400)
         \/ \E step \in {"handler", "findOwned", "getCachedOwnership"} :
              /\ GotoAs(c, step, u)
              /\ step = "handler" <=> ~Routes[req[c].route].owner
  BY DEF Authenticated

LEMMA TypeNext == TypeInv /\ [Next]_vars => TypeInv'
<1>. SUFFICES ASSUME TypeInv, [Next]_vars PROVE TypeInv'
  OBVIOUS
<1>. /\ auth \in [Tokens -> 0 .. TTL] /\ owner \in [Users -> Entry \cup {None}]
     /\ user \in [Clients -> Users \cup {None}]
  BY DEF TypeInv, TypeOK
<1>. USE DEF Goto
<1>1. ASSUME NEW c \in Clients, Receive(c) PROVE TypeInv'
  <2>1. PICK q \in Requested :
          IF q.header \notin Tokens THEN Answer(c, 401)
          ELSE /\ pc' = [pc EXCEPT ![c] = "getCachedValidation"]
               /\ req' = [req EXCEPT ![c] = q] /\ answer' = [answer EXCEPT ![c] = 0]
               /\ UNCHANGED user
    BY <1>1 DEF Receive
  <2>2. UNCHANGED <<world, auth, owner>>
    BY <1>1 DEF Receive
  <2>3. CASE q.header \notin Tokens
    BY <2>1, <2>2, <2>3, AnsweredTypes
  <2>4. CASE q.header \in Tokens
    BY <2>1, <2>2, <2>4 DEF world, TypeInv, TypeOK, Steps, Authentic
  <2>. QED
    BY <2>3, <2>4
<1>2. ASSUME NEW c \in Clients, NEW u \in Users, Authenticated(c, u), pc[c] # "idle",
             auth' \in [Tokens -> 0 .. TTL], UNCHANGED <<world, owner>>
      PROVE  TypeInv'
  <2>1. CASE Answer(c, 400)
    BY <1>2, <2>1 DEF Answer, world, TypeInv, TypeOK, Steps, Authentic
  <2>2. ASSUME NEW step \in {"handler", "findOwned", "getCachedOwnership"}, GotoAs(c, step, u)
        PROVE  TypeInv'
    BY <1>2, <2>2, GoesOnTypes DEF Steps
  <2>. QED
    BY <1>2, <2>1, <2>2, AuthenticatedStep
<1>3. ASSUME NEW c \in Clients, GetCachedValidation(c) PROVE TypeInv'
  <2>1. req[c].header \in Tokens /\ TokenUser[req[c].header] \in Users
    BY <1>3 DEF GetCachedValidation, TypeInv
  <2>2. UNCHANGED <<world, auth, owner>> /\ pc[c] # "idle"
    BY <1>3 DEF GetCachedValidation
  <2>3. CASE Authenticated(c, TokenUser[req[c].header])
    BY <1>2, <2>1, <2>2, <2>3
  <2>4. CASE Goto(c, "validateToken")
    BY <2>2, <2>4, GoesOnTypes DEF Steps, Authentic
  <2>. QED
    BY <1>3, <2>3, <2>4 DEF GetCachedValidation
<1>4. ASSUME NEW c \in Clients, ValidateToken(c) PROVE TypeInv'
  <2>1. req[c].header \in Tokens /\ TokenUser[req[c].header] \in Users
    BY <1>4 DEF ValidateToken, TypeInv
  <2>2. UNCHANGED <<world, auth, owner>> /\ pc[c] # "idle"
    BY <1>4 DEF ValidateToken
  <2>3. CASE GotoAs(c, "cacheValidation", TokenUser[req[c].header])
    BY <2>1, <2>2, <2>3, GoesOnTypes DEF Steps, Authentic
  <2>4. CASE Answer(c, 401) \/ Answer(c, 503)
    BY <2>2, <2>4, AnsweredTypes
  <2>. QED
    BY <1>4, <2>3, <2>4 DEF ValidateToken
<1>5. ASSUME NEW c \in Clients, CacheValidation(c) PROVE TypeInv'
  <2>1. user[c] \in Users /\ Authenticated(c, user[c]) /\ pc[c] # "idle"
        /\ auth' \in [Tokens -> 0 .. TTL] /\ UNCHANGED <<world, owner>>
    BY <1>5 DEF CacheValidation, TypeInv, TypeOK
  <2>. QED
    BY <1>2, <2>1
<1>6. ASSUME NEW c \in Clients, GetCachedOwnership(c) \/ FindOwned(c) \/ FindExisting(c)
      PROVE  TypeInv'
  <2>1. UNCHANGED <<world, auth, owner>> /\ pc[c] # "idle" /\ user[c] \in Users
    BY <1>6 DEF GetCachedOwnership, FindOwned, FindExisting, TypeInv, TypeOK
  <2>2. \/ \E code \in {403, 404, 500} : Answer(c, code)
        \/ \E step \in {"handler", "findOwned", "findExisting", "cacheGrant", "cacheRefusal"} :
             Goto(c, step)
    BY <1>6 DEF GetCachedOwnership, FindOwned, FindExisting
  <2>3. ASSUME NEW code \in {403, 404, 500}, Answer(c, code) PROVE TypeInv'
    BY <2>1, <2>3, AnsweredTypes
  <2>4. ASSUME NEW step \in {"handler", "findOwned", "findExisting", "cacheGrant", "cacheRefusal"},
               Goto(c, step)
        PROVE  TypeInv'
    BY <2>1, <2>4, GoesOnTypes DEF Steps
  <2>. QED
    BY <2>2, <2>3, <2>4
<1>7. ASSUME NEW c \in Clients, CacheGrant(c) \/ CacheRefusal(c) PROVE TypeInv'
  <2>1. owner' \in [Users -> Entry \cup {None}]
    <3>1. TTL \in 1 .. TTL /\ ShortTTL \in 1 .. TTL
      OBVIOUS
    <3>2. /\ [isOwner |-> TRUE, left |-> TTL] \in Entry
          /\ [isOwner |-> FALSE, left |-> ShortTTL] \in Entry
      BY <3>1 DEF Entry
    <3>. QED
      BY <1>7, <3>2 DEF CacheGrant, CacheRefusal, CacheOwnership
  <2>2. UNCHANGED <<world, auth>> /\ pc[c] # "idle" /\ user[c] \in Users
    BY <1>7 DEF CacheGrant, CacheRefusal, TypeInv, TypeOK
  <2>3. Goto(c, "handler") \/ Answer(c, 403)
    BY <1>7 DEF CacheGrant, CacheRefusal
  <2>4. CASE Goto(c, "handler")
    BY <2>1, <2>2, <2>4, GoesOnTypes DEF Steps
  <2>5. CASE Answer(c, 403)
    BY <2>1, <2>2, <2>5, AnsweredTypes
  <2>. QED
    BY <2>3, <2>4, <2>5
<1>8. ASSUME NEW c \in Clients, Handle(c) PROVE TypeInv'
  <2>1. PICK code \in HandlerAnswers(req[c], user[c], FALSE) : Answer(c, code)
    BY <1>8 DEF Handle
  <2>2. req[c].route \in DOMAIN Routes
    BY <1>8, RequestedAssumption DEF Handle, TypeInv
  <2>. QED
    BY <1>8, <2>1, <2>2, AnswersAreStatuses, AnsweredTypes DEF Handle
<1>9. ASSUME NEW t \in Revocable, Revoke(t) PROVE TypeInv'
  BY <1>9 DEF Revoke, TypeInv, TypeOK
<1>10. CASE ChangeStatus
  BY <1>10 DEF ChangeStatus, TypeInv, TypeOK
<1>11. CASE Tick
  <2>1. auth' \in [Tokens -> 0 .. TTL]
    <3>1. ASSUME NEW t \in Tokens PROVE (IF auth[t] = 0 THEN 0 ELSE auth[t] - 1) \in 0 .. TTL
      OBVIOUS
    <3>. QED
      BY <1>11, <3>1 DEF Tick
  <2>2. owner' \in [Users -> Entry \cup {None}]
    <3>1. ASSUME NEW u \in Users PROVE owner'[u] \in Entry \cup {None}
      <4>1. CASE owner[u] = None \/ owner[u].left = 1
        BY <1>11, <4>1 DEF Tick
      <4>2. CASE owner[u] # None /\ owner[u].left # 1
        <5>1. /\ owner[u] \in Entry /\ owner[u].left - 1 \in 1 .. TTL
              /\ owner'[u] = [owner[u] EXCEPT !.left = owner[u].left - 1]
          BY <1>11, <4>2 DEF Tick, Entry
        <5>. QED
          BY <5>1 DEF Entry
      <4>. QED
        BY <4>1, <4>2
    <3>. QED
      BY <1>11, <3>1 DEF Tick
  <2>3. revokedFor' \in [Tokens -> 0 .. TTL] /\ deletedFor' \in 0 .. TTL
    <3>1. revokedFor \in [Tokens -> 0 .. TTL] /\ deletedFor \in 0 .. TTL
      BY DEF TypeInv, TypeOK
    <3>2. ASSUME NEW t \in Tokens
          PROVE  (IF valid[t] \/ revokedFor[t] = TTL THEN revokedFor[t]
                                                    ELSE revokedFor[t] + 1) \in 0 .. TTL
      BY <3>1
    <3>3. deletedFor' \in 0 .. TTL
      BY <1>11, <3>1 DEF Tick
    <3>. QED
      BY <1>11, <3>2, <3>3 DEF Tick
  <2>. QED
    BY <1>11, <2>1, <2>2, <2>3 DEF Tick, TypeInv, TypeOK
<1>12. CASE UNCHANGED vars
  BY <1>12 DEF vars, TypeInv, TypeOK
<1>. QED
  BY <1>1, <1>3, <1>4, <1>5, <1>6, <1>7, <1>8, <1>9, <1>10, <1>11, <1>12 DEF Next, Proceed

LEMMA TypeInvariant == Spec => []TypeInv
  BY TypeInit, TypeNext, PTL DEF Spec

\* Every variable has its type, and a request that the guards work on is one
\* that was sent, by a user once AuthGuard has let it through.
THEOREM TypeCorrect == Spec => []TypeOK
<1>. TypeInv => TypeOK
  BY DEF TypeInv
<1>. QED
  BY TypeInvariant, PTL

-----------------------------------------------------------------------------
\* AuthGuard: the age of validations.

\* What a step of request c does to where the requests are.
LEMMA RequestMoves ==
  ASSUME TypeInv, NEW c \in Clients, Receive(c) \/ Proceed(c)
  PROVE  /\ UNCHANGED world
         /\ \A d \in Clients \ {c} : pc'[d] = pc[d] /\ req'[d] = req[d] /\ user'[d] = user[d]
         /\ pc'[c] # "idle" => pc'[c] = "getCachedValidation" \/ req'[c] = req[c]
<1>1. ASSUME NEW code, Answer(c, code)
      PROVE  /\ \A d \in Clients \ {c} : pc'[d] = pc[d] /\ req'[d] = req[d] /\ user'[d] = user[d]
             /\ pc'[c] = "idle"
  BY <1>1 DEF Answer, TypeInv, TypeOK
<1>2. ASSUME NEW step, NEW u, GotoAs(c, step, u)
      PROVE  /\ \A d \in Clients \ {c} : pc'[d] = pc[d] /\ req'[d] = req[d] /\ user'[d] = user[d]
             /\ req' = req
  BY <1>2 DEF GotoAs, TypeInv, TypeOK
<1>3. CASE Receive(c)
  <2>1. \/ Answer(c, 401)
        \/ /\ pc' = [pc EXCEPT ![c] = "getCachedValidation"]
           /\ \E q \in Requested : req' = [req EXCEPT ![c] = q]
           /\ UNCHANGED user
    BY <1>3 DEF Receive
  <2>. QED
    BY <1>1, <1>3, <2>1 DEF Receive, TypeInv, TypeOK
<1>4. CASE Proceed(c)
  <2>. DEFINE Moves == (\E code : Answer(c, code)) \/ (\E step, u : GotoAs(c, step, u))
  <2>3. Handle(c) \/ CacheGrant(c) \/ CacheRefusal(c) => Moves
    BY DEF Handle, CacheGrant, CacheRefusal, Goto
  <2>4. FindOwned(c) \/ FindExisting(c) \/ GetCachedOwnership(c) => Moves
    BY DEF FindOwned, FindExisting, GetCachedOwnership, Goto
  <2>5. GetCachedValidation(c) => Moves
    BY DEF GetCachedValidation, Goto, Authenticated
  <2>6. ValidateToken(c) => Moves
    BY DEF ValidateToken, Goto, Authenticated
  <2>7. CacheValidation(c) => Moves
    BY DEF CacheValidation, Goto, Authenticated
  <2>1. Moves
    BY <1>4, <2>3, <2>4, <2>5, <2>6, <2>7 DEF Proceed
  <2>2. UNCHANGED world
    BY <1>4 DEF Proceed, GetCachedValidation, ValidateToken, CacheValidation,
                GetCachedOwnership, FindOwned, FindExisting, CacheGrant, CacheRefusal, Handle
  <2>. QED
    BY <1>1, <1>2, <2>1, <2>2
<1>. QED
  BY <1>3, <1>4

LEMMA ValidationInit == Init => ValidationInv
  BY DEF Init, ValidationInv, Authentic

\* A step of request c keeps ValidationInv if it goes on within the lifetime.
LEMMA RequestKeepsValidation ==
  ASSUME TypeInv, ValidationInv, NEW c \in Clients, Receive(c) \/ Proceed(c), UNCHANGED auth,
         pc'[c] = "cacheValidation" => revokedFor[req[c].header] = 0,
         pc'[c] \in Authentic => revokedFor[req[c].header] < TTL
  PROVE  ValidationInv'
<1>1. UNCHANGED <<valid, revokedFor>>
  BY RequestMoves DEF world
<1>2. ASSUME NEW d \in Clients, pc'[d] \in Authentic \cup {"cacheValidation"}
      PROVE  /\ pc'[d] = "cacheValidation" => revokedFor'[req'[d].header] = 0
             /\ pc'[d] \in Authentic => revokedFor'[req'[d].header] < TTL
  BY <1>1, <1>2, RequestMoves DEF Authentic, ValidationInv
<1>. QED
  BY <1>1, <1>2 DEF ValidationInv

LEMMA ValidationNext == TypeInv /\ ValidationInv /\ [Next]_vars => ValidationInv'
<1>. SUFFICES ASSUME TypeInv, ValidationInv, [Next]_vars PROVE ValidationInv'
  OBVIOUS
<1>. /\ auth \in [Tokens -> 0 .. TTL] /\ revokedFor \in [Tokens -> 0 .. TTL]
     /\ pc \in [Clients -> Steps]
  BY DEF TypeInv, TypeOK
<1>1. ASSUME NEW c \in Clients, Receive(c) PROVE ValidationInv'
  <2>1. pc'[c] \notin Authentic \cup {"cacheValidation"} /\ UNCHANGED auth
    BY <1>1 DEF Receive, Answer, Authentic
  <2>. QED
    BY <1>1, <2>1, RequestKeepsValidation
<1>2. ASSUME NEW c \in Clients, GetCachedValidation(c) PROVE ValidationInv'
  <2>. DEFINE t == req[c].header
  <2>1. t \in Tokens /\ UNCHANGED auth
    BY <1>2 DEF GetCachedValidation, TypeInv
  <2>2. CASE auth[t] > 0
    <3>1. revokedFor[t] < TTL
      BY <2>1, <2>2 DEF ValidationInv
    <3>2. pc'[c] # "cacheValidation"
      BY <1>2 DEF GetCachedValidation, Authenticated, Answer, Goto, GotoAs
    <3>. QED
      BY <1>2, <2>1, <3>1, <3>2, RequestKeepsValidation DEF Proceed
  <2>3. CASE ~(auth[t] > 0)
    <3>1. pc'[c] = "validateToken"
      BY <1>2, <2>3 DEF GetCachedValidation, Goto, GotoAs
    <3>. QED
      BY <1>2, <2>1, <3>1, RequestKeepsValidation DEF Proceed, Authentic
  <2>4. CASE Goto(c, "validateToken")
    <3>1. pc'[c] = "validateToken"
      BY <2>4 DEF Goto, GotoAs
    <3>. QED
      BY <1>2, <2>1, <3>1, RequestKeepsValidation DEF Proceed, Authentic
  <2>. QED
    BY <2>2, <2>3, <2>4
<1>3. ASSUME NEW c \in Clients, ValidateToken(c) PROVE ValidationInv'
  <2>1. /\ pc'[c] \notin Authentic /\ UNCHANGED auth
        /\ pc'[c] = "cacheValidation" => valid[req[c].header]
        /\ req[c].header \in Tokens
    BY <1>3 DEF ValidateToken, Answer, Goto, GotoAs, Authentic, TypeInv
  <2>. QED
    BY <1>3, <2>1, RequestKeepsValidation DEF Proceed, ValidationInv
<1>4. ASSUME NEW c \in Clients, CacheValidation(c) PROVE ValidationInv'
  <2>. DEFINE t == req[c].header
  <2>1. t \in Tokens /\ revokedFor[t] = 0 /\ pc'[c] # "cacheValidation"
    BY <1>4 DEF CacheValidation, Authenticated, Answer, GotoAs, TypeInv, ValidationInv
  <2>2. CASE UNCHANGED auth
    BY <1>4, <2>1, <2>2, RequestKeepsValidation DEF Proceed
  <2>3. CASE auth' = [auth EXCEPT ![t] = TTL]
    <3>1. UNCHANGED <<valid, revokedFor>>
      BY <1>4 DEF CacheValidation, world
    <3>2. \A d \in Clients : pc'[d] \in Authentic \cup {"cacheValidation"} =>
            req'[d] = req[d] /\ (d # c => pc'[d] = pc[d])
      BY <1>4, RequestMoves DEF Proceed, Authentic
    <3>3. \A s \in Tokens : auth'[s] > 0 => auth'[s] + revokedFor[s] <= TTL
      BY <2>1, <2>3 DEF ValidationInv
    <3>4. ASSUME NEW d \in Clients, pc'[d] \in Authentic \cup {"cacheValidation"}
          PROVE  /\ pc'[d] = "cacheValidation" => revokedFor'[req'[d].header] = 0
                 /\ pc'[d] \in Authentic => revokedFor'[req'[d].header] < TTL
      BY <2>1, <3>1, <3>2, <3>4 DEF ValidationInv
    <3>. QED
      BY <3>1, <3>3, <3>4 DEF ValidationInv
  <2>. QED
    BY <1>4, <2>2, <2>3 DEF CacheValidation
<1>5. ASSUME NEW c \in Clients,
             GetCachedOwnership(c) \/ FindOwned(c) \/ FindExisting(c) \/ CacheGrant(c)
               \/ CacheRefusal(c) \/ Handle(c)
      PROVE  ValidationInv'
  <2>1. pc[c] \in Authentic /\ UNCHANGED auth /\ Proceed(c)
    BY <1>5 DEF GetCachedOwnership, FindOwned, FindExisting, CacheGrant, CacheRefusal, Handle,
                Authentic, Proceed
  <2>2. pc'[c] # "cacheValidation"
    BY <1>5 DEF GetCachedOwnership, FindOwned, FindExisting, CacheGrant, CacheRefusal, Handle,
                Answer, Goto, GotoAs
  <2>. QED
    BY <2>1, <2>2, RequestKeepsValidation DEF ValidationInv
<1>6. ASSUME NEW t \in Revocable, Revoke(t) PROVE ValidationInv'
  BY <1>6 DEF Revoke, ValidationInv, TypeInv, TypeOK
<1>7. CASE ChangeStatus
  BY <1>7 DEF ChangeStatus, ValidationInv
<1>8. CASE Tick
  <2>1. \A c \in Clients : pc'[c] = "idle"
    BY <1>8 DEF Tick, InFlight
  <2>2. ASSUME NEW t \in Tokens
        PROVE  /\ valid'[t] => revokedFor'[t] = 0
               /\ auth'[t] > 0 => auth'[t] + revokedFor'[t] <= TTL
    <3>1. /\ valid'[t] = valid[t] /\ auth'[t] = IF auth[t] = 0 THEN 0 ELSE auth[t] - 1
          /\ revokedFor'[t] = IF valid[t] \/ revokedFor[t] = TTL THEN revokedFor[t]
                                                               ELSE revokedFor[t] + 1
      BY <1>8 DEF Tick
    <3>2. /\ auth[t] \in 0 .. TTL /\ revokedFor[t] \in 0 .. TTL
          /\ valid[t] => revokedFor[t] = 0
          /\ auth[t] > 0 => auth[t] + revokedFor[t] <= TTL
      BY DEF ValidationInv
    <3>. QED
      BY <3>1, <3>2
  <2>. QED
    BY <2>1, <2>2 DEF ValidationInv, Authentic
<1>9. CASE UNCHANGED vars
  BY <1>9 DEF vars, ValidationInv
<1>. QED
  BY <1>1, <1>2, <1>3, <1>4, <1>5, <1>6, <1>7, <1>8, <1>9 DEF Next, Proceed

LEMMA ValidationInvariant == Spec => [](TypeInv /\ ValidationInv)
  BY TypeInit, TypeNext, ValidationInit, ValidationNext, PTL DEF Spec

\* Whoever passes AuthGuard had a token that the auth service vouched for less
\* than a TTL ago: what is cached never outlives that, and an outage of the auth
\* service or of the cache admits nobody.
THEOREM AdmittedRecently == Spec => []AdmittedOnRecentValidation
<1>. TypeInv /\ ValidationInv => AdmittedOnRecentValidation
  BY DEF ValidationInv, AdmittedOnRecentValidation, Authentic
<1>. QED
  BY ValidationInvariant, PTL

-----------------------------------------------------------------------------
\* ProjectOwnerGuard: grants and refusals.

\* Where a step of request c leads must be earned by the user it works for.
LEMMA RequestKeepsOwnership ==
  ASSUME TypeInv, OwnershipInv, NEW c \in Clients, Receive(c) \/ Proceed(c), UNCHANGED owner,
         pc'[c] = "cacheGrant" => user'[c] = ProjectOwner /\ deletedFor = 0,
         pc'[c] = "handler" /\ Routes[req[c].route].owner => user'[c] = ProjectOwner,
         pc'[c] \in {"findExisting", "cacheRefusal"} /\ user'[c] = ProjectOwner
           => status # "ACTIVE"
  PROVE  OwnershipInv'
<1>1. UNCHANGED <<status, deletedFor>>
  BY RequestMoves DEF world
<1>2. ASSUME NEW d \in Clients
      PROVE  /\ pc'[d] = "cacheGrant" => user'[d] = ProjectOwner /\ deletedFor' = 0
             /\ pc'[d] = "handler" /\ Routes[req'[d].route].owner => user'[d] = ProjectOwner
             /\ pc'[d] \in {"findExisting", "cacheRefusal"} /\ user'[d] = ProjectOwner
                  => status' # "ACTIVE"
  BY <1>1, RequestMoves DEF OwnershipInv
<1>. QED
  BY <1>1, <1>2 DEF OwnershipInv, OwnerRefusedOnlyAfterArchive

LEMMA OwnershipInit == Init => OwnershipInv
  BY DEF Init, OwnershipInv, OwnerRefusedOnlyAfterArchive

\* Storing an entry for the user of request c.
LEMMA StoredEntry ==
  ASSUME TypeInv, OwnershipInv, NEW c \in Clients, CacheGrant(c) \/ CacheRefusal(c)
  PROVE  OwnershipInv'
<1>1. /\ UNCHANGED <<status, deletedFor>> /\ user[c] \in Users
      /\ owner \in [Users -> Entry \cup {None}]
  BY DEF CacheGrant, CacheRefusal, world, TypeInv, TypeOK
<1>2. /\ pc'[c] \in {"handler", "idle"}
      /\ pc'[c] = "handler" => CacheGrant(c) /\ user'[c] = user[c] /\ req'[c] = req[c]
  <2>1. CASE CacheGrant(c)
    BY <2>1 DEF CacheGrant, Goto, GotoAs, TypeInv, TypeOK
  <2>2. CASE CacheRefusal(c)
    BY <2>2 DEF CacheRefusal, Answer, TypeInv, TypeOK
  <2>. QED
    BY <2>1, <2>2
<1>3. ASSUME NEW u \in Users, owner'[u] # None
      PROVE  /\ owner'[u].isOwner => u = ProjectOwner /\ owner'[u].left + deletedFor <= TTL
             /\ u = ProjectOwner /\ ~owner'[u].isOwner => status # "ACTIVE"
  <2>1. CASE owner'[u] = owner[u]
    BY <1>1, <1>3, <2>1 DEF OwnershipInv, OwnerRefusedOnlyAfterArchive
  <2>2. CASE owner'[u] # owner[u] /\ CacheGrant(c)
    <3>1. /\ u = user[c] /\ owner'[u] = [isOwner |-> TRUE, left |-> TTL]
          /\ user[c] = ProjectOwner /\ deletedFor = 0
      BY <1>1, <2>2 DEF CacheGrant, CacheOwnership, OwnershipInv
    <3>2. owner'[u].isOwner = TRUE /\ owner'[u].left = TTL
      BY <3>1
    <3>3. TTL + 0 <= TTL
      BY GuardsAssumption
    <3>. QED
      BY <3>1, <3>2, <3>3
  <2>3. CASE owner'[u] # owner[u] /\ CacheRefusal(c)
    <3>1. /\ u = user[c] /\ owner'[u] = [isOwner |-> FALSE, left |-> ShortTTL]
          /\ user[c] = ProjectOwner => status # "ACTIVE"
      BY <1>1, <2>3 DEF CacheRefusal, CacheOwnership, OwnershipInv
    <3>. QED
      BY <3>1
  <2>. QED
    BY <2>1, <2>2, <2>3
<1>4. ASSUME NEW d \in Clients
      PROVE  /\ pc'[d] = "cacheGrant" => user'[d] = ProjectOwner /\ deletedFor' = 0
             /\ pc'[d] = "handler" /\ Routes[req'[d].route].owner => user'[d] = ProjectOwner
             /\ pc'[d] \in {"findExisting", "cacheRefusal"} /\ user'[d] = ProjectOwner
                  => status' # "ACTIVE"
  <2>1. CASE d = c
    BY <1>1, <1>2, <2>1 DEF CacheGrant, OwnershipInv
  <2>2. CASE d # c
    BY <1>1, <2>2, RequestMoves DEF Proceed, OwnershipInv
  <2>. QED
    BY <2>1, <2>2
<1>5. OwnerRefusedOnlyAfterArchive'
  BY <1>1, <1>3, GuardsAssumption DEF OwnerRefusedOnlyAfterArchive
<1>. QED
  BY <1>1, <1>3, <1>4, <1>5 DEF OwnershipInv

LEMMA OwnershipNext == TypeInv /\ OwnershipInv /\ [Next]_vars => OwnershipInv'
<1>. SUFFICES ASSUME TypeInv, OwnershipInv, [Next]_vars PROVE OwnershipInv'
  OBVIOUS
<1>. /\ owner \in [Users -> Entry \cup {None}] /\ deletedFor \in 0 .. TTL
     /\ pc \in [Clients -> Steps] /\ user \in [Clients -> Users \cup {None}]
  BY DEF TypeInv, TypeOK
<1>1. ASSUME NEW c \in Clients, Receive(c) PROVE OwnershipInv'
  <2>1. pc'[c] \in {"idle", "getCachedValidation"} /\ UNCHANGED owner
    BY <1>1 DEF Receive, Answer
  <2>. QED
    BY <1>1, <2>1, RequestKeepsOwnership
<1>2. ASSUME NEW c \in Clients, NEW u \in Users, Authenticated(c, u), Proceed(c), UNCHANGED owner
      PROVE  OwnershipInv'
  <2>1. /\ pc'[c] \in {"idle", "handler", "findOwned", "getCachedOwnership"}
        /\ pc'[c] = "handler" => ~Routes[req[c].route].owner
    BY <1>2, AuthenticatedStep DEF Answer, GotoAs
  <2>. QED
    BY <1>2, <2>1, RequestKeepsOwnership
<1>3. ASSUME NEW c \in Clients, GetCachedValidation(c) PROVE OwnershipInv'
  <2>1. TokenUser[req[c].header] \in Users
    BY <1>3 DEF GetCachedValidation, TypeInv
  <2>2. CASE Authenticated(c, TokenUser[req[c].header])
    BY <1>2, <1>3, <2>1, <2>2 DEF GetCachedValidation, Proceed
  <2>3. CASE Goto(c, "validateToken")
    <3>1. pc'[c] = "validateToken" /\ UNCHANGED owner
      BY <1>3, <2>3 DEF GetCachedValidation, Goto, GotoAs
    <3>. QED
      BY <1>3, <3>1, RequestKeepsOwnership DEF Proceed
  <2>. QED
    BY <1>3, <2>2, <2>3 DEF GetCachedValidation
<1>4. ASSUME NEW c \in Clients, ValidateToken(c) PROVE OwnershipInv'
  <2>1. pc'[c] \in {"idle", "cacheValidation"} /\ UNCHANGED owner
    BY <1>4 DEF ValidateToken, Answer, GotoAs
  <2>. QED
    BY <1>4, <2>1, RequestKeepsOwnership DEF Proceed
<1>5. ASSUME NEW c \in Clients, CacheValidation(c) PROVE OwnershipInv'
  <2>1. user[c] \in Users
    BY <1>5 DEF CacheValidation, TypeInv
  <2>. QED
    BY <1>2, <1>5, <2>1 DEF CacheValidation, Proceed
<1>6. ASSUME NEW c \in Clients, GetCachedOwnership(c) PROVE OwnershipInv'
  <2>1. /\ user[c] \in Users /\ UNCHANGED owner
        /\ pc'[c] \in {"handler", "idle", "findOwned"}
        /\ pc'[c] = "handler" => /\ owner[user[c]] # None /\ owner[user[c]].isOwner
                                 /\ user'[c] = user[c]
    BY <1>6 DEF GetCachedOwnership, Goto, GotoAs, Answer, TypeInv, TypeOK
  <2>2. pc'[c] = "handler" => user'[c] = ProjectOwner
    BY <2>1 DEF OwnershipInv
  <2>. QED
    BY <1>6, <2>1, <2>2, RequestKeepsOwnership DEF Proceed
<1>7. ASSUME NEW c \in Clients, FindOwned(c) PROVE OwnershipInv'
  <2>1. /\ UNCHANGED owner
        /\ pc'[c] \in {"idle", "handler", "cacheGrant"} \/ pc'[c] = "findExisting"
        /\ pc'[c] \in {"handler", "cacheGrant"} =>
             user'[c] = ProjectOwner /\ status # "DELETED"
        /\ pc'[c] = "findExisting" /\ user'[c] = ProjectOwner => status # "ACTIVE"
    BY <1>7 DEF FindOwned, Acceptable, Goto, GotoAs, Answer
  <2>2. status # "DELETED" => deletedFor = 0
    BY DEF OwnershipInv
  <2>. QED
    BY <1>7, <2>1, <2>2, RequestKeepsOwnership DEF Proceed
<1>8. ASSUME NEW c \in Clients, FindExisting(c) PROVE OwnershipInv'
  <2>1. /\ UNCHANGED owner /\ pc'[c] \in {"idle", "cacheRefusal"}
        /\ pc'[c] = "cacheRefusal" => user'[c] = user[c]
        /\ user[c] = ProjectOwner => status # "ACTIVE"
    BY <1>8 DEF FindExisting, Goto, GotoAs, Answer, OwnershipInv
  <2>. QED
    BY <1>8, <2>1, RequestKeepsOwnership DEF Proceed
<1>9. ASSUME NEW c \in Clients, CacheGrant(c) \/ CacheRefusal(c) PROVE OwnershipInv'
  BY <1>9, StoredEntry
<1>10. ASSUME NEW c \in Clients, Handle(c) PROVE OwnershipInv'
  <2>1. pc'[c] = "idle" /\ UNCHANGED owner
    BY <1>10 DEF Handle, Answer
  <2>. QED
    BY <1>10, <2>1, RequestKeepsOwnership DEF Proceed
<1>11. ASSUME NEW t \in Revocable, Revoke(t) PROVE OwnershipInv'
  BY <1>11 DEF Revoke, OwnershipInv, OwnerRefusedOnlyAfterArchive
<1>12. CASE ChangeStatus
  <2>1. /\ status' # "ACTIVE" /\ status # "DELETED" /\ deletedFor = 0
        /\ UNCHANGED <<deletedFor, owner, pc, req, user>>
    BY <1>12 DEF ChangeStatus, OwnershipInv, TypeInv, TypeOK
  <2>. QED
    BY <2>1 DEF OwnershipInv, OwnerRefusedOnlyAfterArchive
<1>13. CASE Tick
  <2>1. /\ \A c \in Clients : pc'[c] = "idle"
        /\ UNCHANGED status
        /\ deletedFor' = IF status = "DELETED" /\ deletedFor < TTL THEN deletedFor + 1
                                                                    ELSE deletedFor
    BY <1>13 DEF Tick, InFlight
  <2>2. ASSUME NEW u \in Users, owner'[u] # None
        PROVE  /\ owner[u] # None /\ owner'[u].isOwner = owner[u].isOwner
               /\ owner'[u].left = owner[u].left - 1 /\ owner[u].left \in 1 .. TTL
    BY <1>13, <2>2 DEF Tick, Entry
  <2>3. ASSUME NEW u \in Users, owner'[u] # None, owner'[u].isOwner
        PROVE  u = ProjectOwner /\ owner'[u].left + deletedFor' <= TTL
    <3>1. u = ProjectOwner /\ owner[u].left + deletedFor <= TTL
      BY <2>2, <2>3 DEF OwnershipInv
    <3>. QED
      BY <2>1, <2>2, <2>3, <3>1
  <2>4. OwnerRefusedOnlyAfterArchive'
    BY <2>1, <2>2 DEF OwnershipInv, OwnerRefusedOnlyAfterArchive
  <2>. QED
    BY <2>1, <2>3, <2>4 DEF OwnershipInv
<1>14. CASE UNCHANGED vars
  BY <1>14 DEF vars, OwnershipInv, OwnerRefusedOnlyAfterArchive
<1>. QED
  BY <1>1, <1>3, <1>4, <1>5, <1>6, <1>7, <1>8, <1>9, <1>10, <1>11, <1>12, <1>13, <1>14
     DEF Next, Proceed

LEMMA OwnershipInvariant == Spec => [](TypeInv /\ OwnershipInv)
  BY TypeInit, TypeNext, OwnershipInit, OwnershipNext, PTL DEF Spec

\* Nobody but the owner gets past ProjectOwnerGuard, whatever mixture of options,
\* cached grants and cached refusals his requests meet.
THEOREM OwnerAlone == Spec => []OnlyOwnerPasses
<1>. TypeInv /\ OwnershipInv => OnlyOwnerPasses
  BY DEF OwnershipInv, OnlyOwnerPasses
<1>. QED
  BY OwnershipInvariant, PTL

\* The grant of a deleted project is forgotten one TTL after the deletion,
\* although nothing invalidates it.
THEOREM GrantFades == Spec => []DeletedGrantFades
<1>. TypeInv /\ OwnershipInv => DeletedGrantFades
  BY DEF OwnershipInv, DeletedGrantFades
<1>. QED
  BY OwnershipInvariant, PTL

\* The owner is never refused on account of a project that was ACTIVE when the
\* refusal was decided: no refusal of him is cached before an archive or delete.
THEOREM RefusedAfterArchive == Spec => []OwnerRefusedOnlyAfterArchive
<1>. TypeInv /\ OwnershipInv => OwnerRefusedOnlyAfterArchive
  BY DEF OwnershipInv
<1>. QED
  BY OwnershipInvariant, PTL
=============================================================================
