---------------------------- MODULE ProjectStatus ----------------------------
(***************************************************************************)
(* The status of a project and the two places of the code that say how it  *)
(* may change: the repository, which validates the write of a status, and  *)
(* the entity, which the service asks before it tries.  They agree except  *)
(* on the change of a status to itself.                                    *)
(***************************************************************************)

Status == {"ACTIVE", "ARCHIVED", "DELETED"}

\* The transition table both places hold.
ValidTransitions ==
  [s \in Status |-> CASE s = "ACTIVE"   -> {"ARCHIVED", "DELETED"}
                      [] s = "ARCHIVED" -> {"ACTIVE", "DELETED"}
                      [] s = "DELETED"  -> {}]

\* Mutant: "no change" is a valid transition for the repository as well.
ValidOrSame(from, to) == from = to \/ to \in ValidTransitions[from]

\* ProjectRepository.validateStatusTransition does not throw.
ValidStatusTransition(from, to) == to \in ValidTransitions[from]

\* ProjectEntity.canTransitionTo: "no change" is allowed as well.
CanTransitionTo(from, to) == from = to \/ to \in ValidTransitions[from]

\* ProjectEntity.isModifiable.
IsModifiable(status) == status = "ACTIVE"
=============================================================================
