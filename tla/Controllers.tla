---------------------------- MODULE Controllers ----------------------------
(***************************************************************************)
(* The HTTP routes of the controllers: which guards and pipes stand before *)
(* a handler, what the handler refuses by itself, what it makes of the     *)
(* outcome of its service, and which answers its decorators document.      *)
(*                                                                         *)
(* A request is a record                                                   *)
(*   [route, header, svc, id, body, options]                               *)
(* header is a token, "none" or "malformed"; svc the X-Service-Token; id   *)
(* says whether the path parameter is a UUID; body whether DTO and query   *)
(* pass their validation; options are those of @ProjectOwnerCheck.         *)
(***************************************************************************)
EXTENDS Naturals

CONSTANT None     \* no user

\* The status of each outcome of a service: exceptions of NestJS carry theirs.
StatusOf(outcome) ==
  CASE outcome = "NotFound"    -> 404
    [] outcome = "Forbidden"   -> 403
    [] outcome = "Conflict"    -> 409
    [] outcome = "BadRequest"  -> 400
    [] outcome = "TooMany"     -> 429
    [] outcome = "ServerError" -> 500

\* A route: its guards, its path parameter, whether the handler asks for
\* @CurrentUser, its status on success, the statuses its decorators document,
\* and the outcomes of the service call.
Route(auth, owner, param, user, success, documented, outcomes) ==
  [auth |-> auth, owner |-> owner, param |-> param, user |-> user,
   success |-> success, documented |-> documented, outcomes |-> outcomes]

\* ProjectController: its guards are commented out.
create == Route(FALSE, FALSE, "", TRUE, 201, {201, 400, 401, 409},
                {"Ok", "Conflict", "ServerError"})
findAll == Route(FALSE, FALSE, "", TRUE, 200, {200}, {"Ok", "ServerError"})
findOne == Route(FALSE, FALSE, "id", TRUE, 200, {200, 404, 403},
                 {"Ok", "NotFound", "Forbidden", "ServerError"})
update == Route(FALSE, FALSE, "id", TRUE, 200, {200, 400, 404, 403, 409},
                {"Ok", "NotFound", "Forbidden", "Conflict", "ServerError"})
archive == Route(FALSE, FALSE, "id", TRUE, 204, {204, 404, 403, 409},
                 {"Ok", "NotFound", "Forbidden", "Conflict", "BadRequest", "ServerError"})
delete == Route(FALSE, FALSE, "id", TRUE, 204, {204, 404, 403},
                {"Ok", "NotFound", "Forbidden", "ServerError"})
\* No @HttpCode: a PUT answers 200, the decorators document 204.
updateGeneratedFiles == Route(FALSE, FALSE, "id", FALSE, 200, {204, 400, 404},
                              {"Ok", "NotFound", "ServerError"})

\* StatisticsController.
updateProjectStatistics ==
  Route(FALSE, FALSE, "projectId", FALSE, 200, {200, 401, 400, 404},
        {"Ok", "NotFound", "BadRequest", "ServerError"})
getProjectStatistics ==
  Route(TRUE, TRUE, "projectId", TRUE, 200, {200, 401, 403, 404},
        {"Ok", "NotFound", "ServerError"})
getGlobalStatistics == Route(TRUE, FALSE, "", TRUE, 200, {200, 401}, {"Ok", "ServerError"})
searchStatistics == Route(TRUE, FALSE, "", TRUE, 200, {200, 401, 400}, {"Ok", "ServerError"})
cleanupOldStatistics ==
  Route(TRUE, FALSE, "days", TRUE, 200, {200, 401, 403}, {"Ok", "ServerError"})
getBatchStatistics == Route(TRUE, FALSE, "", TRUE, 200, {200, 401, 400}, {"Ok", "ServerError"})

\* ExportController: AuthGuard on the class, ProjectOwnerGuard commented out.
exportProject ==
  Route(TRUE, FALSE, "projectId", TRUE, 200, {200, 202, 400, 403, 404, 413, 429},
        {"Ok", "NotFound", "Forbidden", "BadRequest", "TooMany", "ServerError",
         "timeout", "size", "conversion", "other"})
getExportStatus ==
  Route(TRUE, FALSE, "exportId", TRUE, 200, {200, 404, 403}, {"Ok", "NotFound", "other"})

\* The route the guard's documentation shows: both guards, the parameter named id.
guarded == Route(TRUE, TRUE, "id", TRUE, 200, {200, 400, 401, 403, 404, 503}, {"Ok"})

Routes ==
  [create |-> create, findAll |-> findAll, findOne |-> findOne, update |-> update,
   archive |-> archive, delete |-> delete, updateGeneratedFiles |-> updateGeneratedFiles,
   updateProjectStatistics |-> updateProjectStatistics,
   getProjectStatistics |-> getProjectStatistics,
   getGlobalStatistics |-> getGlobalStatistics, searchStatistics |-> searchStatistics,
   cleanupOldStatistics |-> cleanupOldStatistics, getBatchStatistics |-> getBatchStatistics,
   exportProject |-> exportProject, getExportStatus |-> getExportStatus,
   guarded |-> guarded]

-----------------------------------------------------------------------------
\* What is refused between the guards and the service call.

\* ParseUUIDPipe and ParseIntPipe on the path parameter, ValidationPipe on DTOs.
\* The DTO of exportProject is validated by the handler as well: also 400.
PipeRefuses(req) ==
  \/ Routes[req.route].param # "" /\ req.id = "malformed"
  \/ req.body = "invalid" /\ req.route \in {"create", "update", "updateGeneratedFiles",
                                            "updateProjectStatistics", "exportProject"}

\* The handler's own checks, in their order: 0 when it goes on.
HandlerRefusal(req, admin) ==
  CASE req.route = "updateGeneratedFiles" -> IF req.svc = "none" THEN 400 ELSE 0
    [] req.route = "updateProjectStatistics" ->
         IF req.svc # "right" THEN 403 ELSE 0
    [] req.route = "cleanupOldStatistics" ->
         IF ~admin THEN 403 ELSE IF req.body = "invalid" THEN 400 ELSE 0
    [] req.route \in {"searchStatistics", "getBatchStatistics"} ->
         IF req.body = "invalid" THEN 400 ELSE 0
    [] OTHER -> 0

\* handleExportError turns what is not an HttpException into one, by the words
\* of its message; getExportStatus turns it into a 500.
ExportErrorStatus(outcome) ==
  CASE outcome = "timeout"    -> 408
    [] outcome = "size"       -> 413
    [] outcome = "conversion" -> 422
    [] outcome = "other"      -> 500
    [] OTHER -> StatusOf(outcome)

ServiceAnswer(req, outcome) ==
  IF outcome = "Ok" THEN Routes[req.route].success ELSE ExportErrorStatus(outcome)

\* @CurrentUser: the user a guard attached; without one a fixed user when
\* NODE_ENV is development, and otherwise an error.
CurrentUser(user, development, devUser) ==
  IF user # None THEN user ELSE IF development THEN devUser ELSE None

\* What a request that passed its guards may be answered.  Parameters are
\* resolved in any order: a request may be refused for either.
HandlerAnswers(req, user, admin) ==
  LET r == Routes[req.route]
      refusal == HandlerRefusal(req, admin)
      refused == (IF r.user /\ user = None THEN {500} ELSE {})
                   \cup (IF PipeRefuses(req) THEN {400} ELSE {})
  IN IF refused # {} THEN refused
     ELSE IF refusal # 0 THEN {refusal}
     ELSE {ServiceAnswer(req, outcome) : outcome \in r.outcomes}

=============================================================================
