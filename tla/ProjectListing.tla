--------------------------- MODULE ProjectListing ---------------------------
(***************************************************************************)
(* ProjectService.findAll over CacheService and ProjectRepository: pages   *)
(* of a user's projects, cached under a key that holds a prefix of the     *)
(* filters, while projects are created, archived, deleted and given files  *)
(* and each write ends with the invalidation of its owner's lists.         *)
(***************************************************************************)
EXTENDS CacheService, SequencesExt

CONSTANTS
  Listers,      \* clients that list, one query at a time; the others write
  Queries,      \* [user, status, files, page, limit] as the controller passes them
  OwnerOf,      \* [Projects -> Users]
  Written,      \* the projects that are written; the others are ACTIVE from the start
  PageTTL,      \* ticks a page is cached (60 s)
  None

ASSUME ListingAssumption ==
  /\ Listers \subseteq Clients /\ OwnerOf \in [Projects -> Users] /\ PageTTL \in Nat \ {0}
  /\ \A q \in Queries : q.user \in Users /\ {q.page, q.limit} \subseteq Nat \ {0}
  /\ None \notin {"ACTIVE", "ARCHIVED", "DELETED"}

VARIABLES
  status,       \* per project, None before it is created
  files,        \* the projects with generated files
  recency,      \* projects, the last updated first
  deletedFor,   \* ticks since the project was deleted
  page,         \* the set of projects under each page key in store, with the ticks left
  list          \* per client: its findAll

lvars == <<status, files, recency, deletedFor, page, list>>

NoList == [at |-> "idle", q |-> None, data |-> {}]

-----------------------------------------------------------------------------
\* What a query means.

\* Mutant: without a status the deleted projects are found too.
WhereAny(q, p) ==
  /\ status[p] # None /\ OwnerOf[p] = q.user
  /\ (p \in files) = q.files
  /\ q.status # None => status[p] = q.status

\* buildWhereClause.  The controller turns an absent hasGeneratedFiles into
\* false, and false asks for projects without files; a status replaces the
\* condition that leaves the deleted ones out.
Where(q, p) ==
  /\ status[p] # None /\ OwnerOf[p] = q.user
  /\ (p \in files) = q.files
  /\ IF q.status = None THEN status[p] # "DELETED" ELSE status[p] = q.status

\* orderBy updatedAt: row r comes before row p.
Before(r, p) == \E i, j \in DOMAIN recency : i < j /\ recency[i] = r /\ recency[j] = p

\* findMany: of the rows in their order, those behind skip, as many as take.
FoundBy(q) ==
  LET rows == {p \in Projects : Where(q, p)}
      position(p) == Cardinality({r \in rows : Before(r, p)})
      skip == (q.page - 1) * q.limit
  IN {p \in rows : skip <= position(p) /\ position(p) < skip + q.limit}

\* hashFilters: 16 characters of base64, the first 12 of the filters' JSON.  With
\* a status that is {"status":"A or {"status":"D, without {"hasGenerat.  The
\* search, the dates and the order of the object come after these.
HashFilters(q) ==
  CASE q.status = None -> "hasGenerat"
    [] q.status \in {"ACTIVE", "ARCHIVED"} -> "status A"
    [] q.status = "DELETED" -> "status D"

\* Mutant: the key of a page forgets whose it is.
PageKeyOfAll(q) == [kind |-> "projects", of |-> "", more |-> <<q.page, q.limit, HashFilters(q)>>]

PageKey(q) == [kind |-> "projects", of |-> q.user, more |-> <<q.page, q.limit, HashFilters(q)>>]

PageKeys == {PageKey(q) : q \in Queries}

-----------------------------------------------------------------------------
ListingInit ==
  /\ Init
  /\ status = [p \in Projects |-> IF p \in Written THEN None ELSE "ACTIVE"]
  /\ files = {} /\ recency = SetToSeq(Projects \ Written)
  /\ deletedFor = [p \in Projects |-> 0]
  /\ page = [k \in PageKeys |-> [data |-> {}, left |-> 0]]
  /\ list = [c \in Clients |-> NoList]

Lists == "findAll" \in calls

FindAll(c) ==
  /\ Lists /\ c \in Listers /\ list[c].at = "idle"
  /\ \E q \in Queries : list' = [list EXCEPT ![c] = [NoList EXCEPT !.at = "get", !.q = q]]
  /\ UNCHANGED <<vars, status, files, recency, deletedFor, page>>

\* A hit is the answer, whatever was written since.
CacheHit(c) ==
  LET k == PageKey(list[c].q) IN
  /\ list[c].at = "get" /\ ready /\ k \in store
  /\ list' = [list EXCEPT ![c].at = "served", ![c].data = page[k].data]
  /\ UNCHANGED <<vars, status, files, recency, deletedFor, page>>

CacheMiss(c) ==
  /\ list[c].at = "get" /\ (CacheFaults \/ ~ready \/ PageKey(list[c].q) \notin store)
  /\ list' = [list EXCEPT ![c].at = "query"]
  /\ UNCHANGED <<vars, status, files, recency, deletedFor, page>>

\* findMany; the total, which a count under way at the same time returns, is
\* left out.
FindByOwner(c) ==
  /\ list[c].at = "query"
  /\ list' = [list EXCEPT ![c].at = "fill", ![c].data = FoundBy(list[c].q)]
  /\ UNCHANGED <<vars, status, files, recency, deletedFor, page>>

\* The page is cached and served; a set that fails is no error.
Fill(c) ==
  LET r == list[c] k == PageKey(r.q) IN
  /\ r.at = "fill"
  /\ list' = [list EXCEPT ![c].at = "served"]
  /\ \/ /\ ready
        /\ store' = store \cup {k} /\ call' = Noted(k)
        /\ page' = [page EXCEPT ![k] = [data |-> r.data, left |-> PageTTL]]
     \/ (CacheFaults \/ ~ready) /\ UNCHANGED <<store, call, page>>
  /\ UNCHANGED <<calls, prefixed, ready, lock, believes, status, files, recency, deletedFor>>

Served(c) ==
  /\ list[c].at = "served" /\ list' = [list EXCEPT ![c] = NoList]
  /\ UNCHANGED <<vars, status, files, recency, deletedFor, page>>

\* A write of ProjectService is committed, and its invalidation begins.
Write(c) ==
  /\ Lists /\ c \notin Listers /\ call[c].op \in {"none", "failed"}
  /\ \E p \in Written :
       /\ \/ /\ status[p] = None /\ UNCHANGED files
             /\ status' = [status EXCEPT ![p] = "ACTIVE"]
          \/ /\ status[p] = "ACTIVE" /\ UNCHANGED files
             /\ status' = [status EXCEPT ![p] = "ARCHIVED"]
          \/ /\ status[p] \in {"ACTIVE", "ARCHIVED"} /\ UNCHANGED files
             /\ status' = [status EXCEPT ![p] = "DELETED"]
          \/ /\ status[p] \in {"ACTIVE", "ARCHIVED"} /\ p \notin files
             /\ files' = files \cup {p} /\ UNCHANGED status
       /\ recency' = <<p>> \o SelectSeq(recency, LAMBDA r : r # p)
       /\ call' = [call EXCEPT ![c] =
            [NoCall EXCEPT !.op = "invalidate",
               !.steps = Plan("invalidateUserProjectsCache", p, OwnerOf[p]),
               !.covered = Covered("invalidateUserProjectsCache", p, OwnerOf[p])]]
  /\ UNCHANGED <<calls, prefixed, ready, store, lock, believes, deletedFor, page, list>>

\* Half a minute passes; no request is under way that long.
Tick ==
  LET expired == {k \in PageKeys \cap store : page[k].left = 1} IN
  /\ Lists /\ \A c \in Clients : list[c].at = "idle" /\ call[c].op # "invalidate"
  /\ store' = store \ expired
  /\ page' = [k \in PageKeys |-> IF k \notin store \ expired
                                 THEN [data |-> {}, left |-> 0]
                                 ELSE [page[k] EXCEPT !.left = @ - 1]]
  /\ deletedFor' = [p \in Projects |-> IF status[p] = "DELETED" /\ deletedFor[p] < PageTTL
                                       THEN deletedFor[p] + 1 ELSE deletedFor[p]]
  /\ UNCHANGED <<calls, prefixed, ready, lock, call, believes, status, files, recency, list>>

Proceed(c) == CacheHit(c) \/ CacheMiss(c) \/ FindByOwner(c) \/ Fill(c) \/ Served(c)

ListingNext ==
  \/ Next /\ UNCHANGED lvars
  \/ \E c \in Clients : FindAll(c) \/ Proceed(c) \/ Write(c)
  \/ Tick

ListingSpec == ListingInit /\ [][ListingNext]_<<vars, lvars>>

-----------------------------------------------------------------------------
\* Properties.

\* A user is served, and will be from the cache, none but his own projects,
\* whatever keys the filters of different users share.
OnlyOwnProjects ==
  /\ \A c \in Clients : list[c].at = "served" =>
       \A p \in list[c].data : OwnerOf[p] = list[c].q.user
  /\ \A k \in PageKeys \cap store : \A p \in page[k].data : OwnerOf[p] = k.of

\* A deleted project leaves the pages of those who did not ask for deleted ones
\* within the TTL of a page, though no invalidation reaches a page: pages do
\* not outlive their TTL, and share no key with pages of deleted projects.
DeletedFades ==
  \A k \in PageKeys \cap store, p \in Projects :
    k.more[3] # "status D" /\ p \in page[k].data =>
      status[p] # "DELETED" \/ page[k].left + deletedFor[p] <= PageTTL

\* "Filter by status" (project.controller.ts:194): who asks for one status
\* is served projects that had it.  A page of the other status is in the cache
\* under the same key.
StatusServed ==
  \A c \in Clients : list[c].at = "served" /\ list[c].q.status # None =>
    \A p \in list[c].data : list[c].q.status = "ARCHIVED" => status[p] # "ACTIVE"

=============================================================================
