-------------------------- MODULE ProjectLifecycle --------------------------
(***************************************************************************)
(* What the service promises of the life of a project, whatever requests   *)
(* race on it: a project is created ACTIVE for one owner, keeps that owner, *)
(* is archived at most once and only while ACTIVE, may be deleted at any   *)
(* time (again, too: a second delete changes nothing), and never leaves    *)
(* DELETED.  ProjectService is shown to implement it.                      *)
(***************************************************************************)
EXTENDS ProjectStatus

CONSTANTS Projects, Users, None

VARIABLE project        \* project[p]: None, or its owner and its status

Lives == [owner : Users, status : Status]

LifeInit ==
  project \in [Projects -> Lives \cup {None}]

Create(p) ==
  /\ project[p] = None
  /\ \E u \in Users :
       project' = [project EXCEPT ![p] = [owner |-> u, status |-> "ACTIVE"]]

Archive(p) ==
  /\ project[p] # None
  /\ project[p].status = "ACTIVE"
  /\ project' = [project EXCEPT ![p].status = "ARCHIVED"]

Delete(p) ==
  /\ project[p] # None
  /\ project' = [project EXCEPT ![p].status = "DELETED"]

LifeNext == \E p \in Projects : Create(p) \/ Archive(p) \/ Delete(p)

LifeSpec == LifeInit /\ [][LifeNext]_project
=============================================================================
