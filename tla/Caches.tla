------------------------------- MODULE Caches -------------------------------
(***************************************************************************)
(* One Redis and who uses it: the service's own calls and locks            *)
(* (CacheService), the lists of ProjectService (ProjectListing), the       *)
(* health probes (Health).  They interleave and share the keys, the        *)
(* connection and its faults.                                              *)
(***************************************************************************)
EXTENDS ProjectListing, Health

CachesVars == <<vars, lvars, hvars>>

CachesInit == ListingInit /\ HealthInit

\* A process whose probes nobody calls need not start.
CachesNext ==
  \/ ListingNext /\ UNCHANGED hvars
  \/ "health" \in calls /\ HealthNext /\ UNCHANGED lvars

CachesSpec == CachesInit /\ [][CachesNext]_CachesVars

=============================================================================
