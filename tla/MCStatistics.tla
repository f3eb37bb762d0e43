---------------------------- MODULE MCStatistics ----------------------------
(***************************************************************************)
(* Statistics for TLC: a project that exists and one that does not.  One   *)
(* update sends costs, with a total a cent off, and usage; one another     *)
(* figure of usage alone; one contradicts itself.                          *)
(***************************************************************************)
EXTENDS Statistics, TLC

MCUpdates ==
  {[costs |-> [claudeApi |-> 2, total |-> 3], usage |-> [documentsGenerated |-> 1]],
   [usage |-> [exportCount |-> 1]],
   [costs |-> [storage |-> 1, total |-> 9]]}

RequestSymmetry == Permutations(Requests)
=============================================================================
