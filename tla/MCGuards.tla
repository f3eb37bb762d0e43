------------------------------ MODULE MCGuards ------------------------------
(***************************************************************************)
(* Guards for TLC: two users with a token each, and the requests that tell *)
(* the routes apart.                                                       *)
(***************************************************************************)
EXTENDS Guards

MCTokenUser == [t \in {"ta", "tb"} |-> IF t = "ta" THEN "ann" ELSE "bob"]

\* A valid request for a route.
Good(route, header) ==
  [route |-> route, header |-> header, svc |-> "none", id |-> "uuid", body |-> "valid",
   options |-> {}]

\* The owner and another user at a route with both guards, each with options
\* that read and write the shared ownership entries differently; a route whose
\* parameter the ownership guard does not find, and a request without a token.
MCRequested ==
  {Good("guarded", "ta"), Good("guarded", "tb"), Good("getProjectStatistics", "ta"),
   Good("guarded", "none")}
  \cup {[Good("guarded", "ta") EXCEPT !.options = o] : o \in {{"allowArchived"}, {"skipCache"}}}
=============================================================================
