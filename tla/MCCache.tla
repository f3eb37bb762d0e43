------------------------------- MODULE MCCache -------------------------------
(***************************************************************************)
(* Caches for TLC: the service's own calls on a key of each family that    *)
(* invalidations tell apart, locks, lists of two users with a project      *)
(* each, and the health probes of two clients.                             *)
(***************************************************************************)
EXTENDS Caches

MCKey(kind, of) == [kind |-> kind, of |-> of, more |-> ""]
MCInvalid == {[kind |-> "list", of |-> "u1", more |-> "a space"]}
MCCallKeys == {MCKey("list", "u1"), MCKey("count", "u1"), MCKey("stats-project", "p1")} \cup MCInvalid

MCQuery(user, s) == [user |-> user, status |-> s, files |-> FALSE, page |-> 1, limit |-> 10]
MCQueries == {MCQuery("u1", s) : s \in {None, "DELETED"}} \cup {MCQuery("u2", None)}
MCKeys == MCCallKeys \cup PageKeys

MCOwnerOf == [p \in {"p1", "p2"} |-> IF p = "p1" THEN "u1" ELSE "u2"]

\* Values, locks, lists and probes share no key: one behaviour uses one of them.
MCCallSets ==
  {{"get", "set", "invalidateProjectCache", "invalidateUserProjectsCache",
    "invalidateStatisticsCache"}, {"acquireLock"}, {"findAll"}, {"health"}}

\* A user asks for his active projects, then for his archived ones.
MCStatusQueries == {MCQuery("u1", s) : s \in {"ACTIVE", "ARCHIVED"}}
MCListsOnly == {{"findAll"}}

MCAsks == [c \in Clients |-> IF c \in Listers THEN {"check", "detailed"} ELSE {"ready"}]

==============================================================================
