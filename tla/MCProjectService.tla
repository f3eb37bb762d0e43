-------------------------- MODULE MCProjectService --------------------------
(***************************************************************************)
(* Instances of ProjectService for TLC.                                    *)
(***************************************************************************)
EXTENDS ProjectService, TLC

\* Requests, users, names and files are interchangeable; projects are only
\* where all of them, or none, have a row at the start.
RequestSymmetry == Permutations(Requests)
=============================================================================
