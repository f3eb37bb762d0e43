-------------------------- MODULE StatisticsProofs --------------------------
(***************************************************************************)
(* Proofs about Statistics, for any requests, projects and updates and any *)
(* lifetimes of the cached figures, whatever query or cache command fails. *)
(***************************************************************************)
EXTENDS Statistics, TLAPS

-----------------------------------------------------------------------------
\* What merging does to the figures.

\* Figures are functions to numbers, and so they are with one more.
LEMMA FiguresForm ==
  ASSUME NEW fields, NEW f
  PROVE  f \in Figures(fields) <=> f \in [DOMAIN f -> Int] /\ DOMAIN f \subseteq fields \cup Totals
<1>1. ASSUME f \in Figures(fields)
      PROVE  f \in [DOMAIN f -> Int] /\ DOMAIN f \subseteq fields \cup Totals
  <2>1. PICK names \in SUBSET (fields \cup Totals) : f \in [names -> Int]
    BY <1>1 DEF Figures
  <2>. QED BY <2>1
<1>2. ASSUME f \in [DOMAIN f -> Int], DOMAIN f \subseteq fields \cup Totals
      PROVE  f \in Figures(fields)
  BY <1>2 DEF Figures
<1>. QED BY <1>1, <1>2

LEMMA WithFigures ==
  ASSUME NEW fields, NEW f \in Figures(fields), NEW name \in Totals, NEW n \in Int
  PROVE  With(f, name, n) \in Figures(fields)
<1>1. f \in [DOMAIN f -> Int] /\ DOMAIN f \subseteq fields \cup Totals
  BY FiguresForm
<1>2. With(f, name, n) \in [DOMAIN f \cup {name} -> Int]
  BY <1>1 DEF With
<1>3. DOMAIN With(f, name, n) = DOMAIN f \cup {name}
  BY DEF With
<1>. QED BY <1>1, <1>2, <1>3, FiguresForm

\* A total is no reported figure.
LEMMA WithReported ==
  ASSUME NEW f, NEW name \in Totals, NEW n
  PROVE  Reported(With(f, name, n)) = Reported(f)
<1>. DEFINE w == With(f, name, n)
<1>1. DOMAIN w \ Totals = DOMAIN f \ Totals
  BY DEF With
<1>2. ASSUME NEW x \in DOMAIN f \ Totals PROVE w[x] = f[x]
  BY DEF With
<1>. HIDE DEF w
<1>3. Reported(w) = Reported(f)
  BY <1>1, <1>2 DEF Reported
<1>. QED BY <1>3 DEF w

-----------------------------------------------------------------------------
\* What an update makes of a row.

\* The parts of an update are figures of their own fields.
LEMMA PartFigures ==
  ASSUME NEW new \in Updates, NEW x \in PartNames
  PROVE  Part(new, x) \in Figures(FieldsOf(x))
<1>. DEFINE n == Part(new, x)
<1>1. DOMAIN n \ Totals \subseteq FieldsOf(x)
  <2>. SUFFICES ASSUME NEW y \in DOMAIN n \ Totals PROVE y \in FieldsOf(x)
    OBVIOUS
  <2>1. y \in UNION {DOMAIN Part(u, x) : u \in Updates}
    OBVIOUS
  <2>. QED BY <2>1 DEF FieldsOf
<1>2. n \in [DOMAIN n -> Int]
  <2>1. CASE x \in DOMAIN new
    BY <2>1, UpdatesAssumption DEF Part
  <2>2. CASE x \notin DOMAIN new
    BY <2>2 DEF Part
  <2>. QED BY <2>1, <2>2
<1>. HIDE DEF n
<1>3. DOMAIN n \subseteq FieldsOf(x) \cup Totals
  BY <1>1
<1>. QED BY <1>2, <1>3, FiguresForm DEF n

LEMMA FiguresNumbers ==
  ASSUME NEW fields, NEW f \in Figures(fields), NEW x
  PROVE  Val(f, x) \in Int
BY FiguresForm DEF Val

\* Merging a part keeps the shape of the row and replaces that part only.
LEMMA MergeCostsForm ==
  ASSUME NEW e \in Entity, NEW n \in Figures(FieldsOf("costs"))
  PROVE  LET m == MergeCosts(e, n) IN
         /\ m \in Entity /\ m.performance = e.performance /\ m.usage = e.usage
         /\ Reported(m.costs) = Reported(n)
<1>. DEFINE total == CostSum(n)
            costs == With(n, "total", total)
            m == MergeCosts(e, n)
<1>1. e.breakdown \in Figures(CostParts)
  BY DEF Entity
<1>2. total \in Int /\ \A x : Val(n, x) \in Int
  BY FiguresNumbers DEF CostSum
<1>3. total > 0 => Shares(n, total) \in Figures(CostParts)
  <2>. SUFFICES ASSUME total > 0 PROVE Shares(n, total) \in Figures(CostParts)
    OBVIOUS
  <2>1. \A x : (Val(n, x) * 100) \div total \in Int
    BY <1>2
  <2>2. /\ Shares(n, total) \in [CostParts -> Int]
        /\ DOMAIN Shares(n, total) = CostParts
    BY <2>1 DEF Shares
  <2>. QED BY <2>2, FiguresForm
<1>. HIDE DEF total
<1>4. costs \in Figures(FieldsOf("costs")) /\ Reported(costs) = Reported(n)
  BY <1>2, WithFigures, WithReported DEF Totals
<1>. HIDE DEF costs
<1>5. m = [e EXCEPT !.costs = costs,
                    !.breakdown = IF total > 0 THEN Shares(n, total) ELSE e.breakdown]
  BY DEF MergeCosts, costs, total
<1>6. /\ m \in Entity /\ m.performance = e.performance /\ m.usage = e.usage
      /\ m.costs = costs
  BY <1>1, <1>3, <1>4, <1>5 DEF Entity
<1>. QED BY <1>4, <1>6

LEMMA MergePerformanceForm ==
  ASSUME NEW e \in Entity, NEW n \in Figures(FieldsOf("performance"))
  PROVE  LET m == MergePerformance(e, n) IN
         /\ m \in Entity /\ m.costs = e.costs /\ m.usage = e.usage
         /\ Reported(m.performance) = Reported(n)
<1>. DEFINE total == TimeSum(n)
            performance == With(n, "totalTime", total)
            m == MergePerformance(e, n)
<1>1. total \in Int
  BY FiguresNumbers DEF TimeSum
<1>. HIDE DEF total
<1>2. /\ performance \in Figures(FieldsOf("performance"))
      /\ Reported(performance) = Reported(n)
  BY <1>1, WithFigures, WithReported DEF Totals
<1>. HIDE DEF performance
<1>3. StoredBottlenecks(n)
        \in SUBSET {"generation", "processing", "interview", "export", "queue_wait"}
  BY DEF StoredBottlenecks
<1>4. m = [e EXCEPT !.performance = performance, !.bottlenecks = StoredBottlenecks(n)]
  BY DEF MergePerformance, performance, total
<1>5. /\ m \in Entity /\ m.costs = e.costs /\ m.usage = e.usage
      /\ m.performance = performance
  BY <1>2, <1>3, <1>4 DEF Entity
<1>. QED BY <1>2, <1>5

LEMMA MergeUsageForm ==
  ASSUME NEW e \in Entity, NEW n \in Figures(FieldsOf("usage"))
  PROVE  LET m == MergeUsage(e, n) IN
         /\ m \in Entity /\ m.costs = e.costs /\ m.performance = e.performance
         /\ m.usage = n
BY DEF MergeUsage, Entity

\* The first row of a project holds the parts of the update.
LEMMA FirstRowForm ==
  ASSUME NEW new \in Updates
  PROVE  /\ FirstRow(new) \in Entity
         /\ FirstRow(new).costs = Part(new, "costs")
         /\ FirstRow(new).performance = Part(new, "performance")
         /\ FirstRow(new).usage = Part(new, "usage")
<1>1. /\ Part(new, "costs") \in Figures(FieldsOf("costs"))
      /\ Part(new, "performance") \in Figures(FieldsOf("performance"))
      /\ Part(new, "usage") \in Figures(FieldsOf("usage"))
  BY PartFigures DEF PartNames
<1>2. \A fields : <<>> \in Figures(fields)
  <2>1. <<>> \in [DOMAIN <<>> -> Int] /\ DOMAIN <<>> = {}
    OBVIOUS
  <2>. QED BY <2>1, FiguresForm
<1>3. NoEntity \in Entity
  BY <1>2 DEF NoEntity, Entity
<1>4. NoEntity \in Entity =>
        /\ FirstRow(new) \in Entity
        /\ FirstRow(new).costs = Part(new, "costs")
        /\ FirstRow(new).performance = Part(new, "performance")
        /\ FirstRow(new).usage = Part(new, "usage")
  BY <1>1 DEF FirstRow, Entity
<1>. QED BY <1>3, <1>4

\* An update replaces the parts it sends, and leaves the others.
LEMMA MergedRow ==
  ASSUME NEW e \in Entity, NEW new \in Updates
  PROVE  LET m == PrepareUpsertData(e, TRUE, new) IN
         /\ m \in Entity
         /\ \A x \in PartNames :
              Reported(m[x]) = IF x \in DOMAIN new THEN Reported(new[x]) ELSE Reported(e[x])
<1>. DEFINE e1 == IF "costs" \in DOMAIN new THEN MergeCosts(e, new.costs) ELSE e
            e2 == IF "performance" \in DOMAIN new THEN MergePerformance(e1, new.performance) ELSE e1
            m == IF "usage" \in DOMAIN new THEN MergeUsage(e2, new.usage) ELSE e2
            Then(x) == IF x \in DOMAIN new THEN Reported(new[x]) ELSE Reported(e[x])
<1>1. PrepareUpsertData(e, TRUE, new) = m
  BY DEF PrepareUpsertData
<1>2. /\ "costs" \in DOMAIN new => new.costs \in Figures(FieldsOf("costs"))
      /\ "performance" \in DOMAIN new => new.performance \in Figures(FieldsOf("performance"))
      /\ "usage" \in DOMAIN new => new.usage \in Figures(FieldsOf("usage"))
  BY PartFigures DEF Part, PartNames
<1>3. /\ e1 \in Entity /\ e1.performance = e.performance /\ e1.usage = e.usage
      /\ Reported(e1.costs) = Then("costs")
  <2>1. CASE "costs" \in DOMAIN new
    BY <1>2, <2>1, MergeCostsForm
  <2>2. CASE "costs" \notin DOMAIN new
    BY <2>2
  <2>. QED BY <2>1, <2>2
<1>. HIDE DEF e1
<1>4. /\ e2 \in Entity /\ e2.costs = e1.costs /\ e2.usage = e1.usage
      /\ Reported(e2.performance) = Then("performance")
  <2>1. CASE "performance" \in DOMAIN new
    BY <1>2, <1>3, <2>1, MergePerformanceForm
  <2>2. CASE "performance" \notin DOMAIN new
    BY <1>3, <2>2
  <2>. QED BY <2>1, <2>2
<1>. HIDE DEF e2
<1>5. /\ m \in Entity /\ m.costs = e2.costs /\ m.performance = e2.performance
      /\ Reported(m.usage) = Then("usage")
  <2>1. CASE "usage" \in DOMAIN new
    BY <1>2, <1>4, <2>1, MergeUsageForm
  <2>2. CASE "usage" \notin DOMAIN new
    BY <1>3, <1>4, <2>2
  <2>. QED BY <2>1, <2>2
<1>. HIDE DEF m
<1>6. ASSUME NEW x \in PartNames PROVE Reported(m[x]) = Then(x)
  <2>1. CASE x = "costs"
    BY <1>3, <1>4, <1>5, <2>1
  <2>2. CASE x = "performance"
    BY <1>4, <1>5, <2>2
  <2>3. CASE x = "usage"
    BY <1>5, <2>3
  <2>. QED BY <2>1, <2>2, <2>3 DEF PartNames
<1>. QED BY <1>1, <1>5, <1>6

-----------------------------------------------------------------------------
\* Types.

Table == [Projects -> Entity \cup {None}]
TableFigures == {FiguresOf(t) : t \in Table}
Scopes == Projects \cup {"*"}

Request == [op : {"none", "update", "get", "global", "cleanup"},
            at : {"idle", "find", "upsert", "invalidate", "cache", "get", "load",
                  "deleteMany", "answer"},
            p : Projects \cup {None}, new : Updates \cup {<<>>},
            seen : Entity \cup {None} \cup TableFigures, dels : SUBSET Scopes]

\* A request is where its operation can be, with what it has read by then.
RequestOK(q) ==
  /\ q.op = "none" => q.at = "idle"
  /\ q.op = "update" => /\ q.at \in {"find", "upsert", "invalidate", "cache"}
                        /\ q.p \in Projects /\ q.new \in Updates /\ q.dels \subseteq {q.p, "*"}
  /\ q.op = "get" => q.at \in {"get", "load", "cache"} /\ q.p \in Projects
  /\ q.op = "global" => q.at \in {"get", "load", "cache"}
  /\ q.op = "cleanup" => q.at \in {"deleteMany", "invalidate", "answer"} /\ q.dels \subseteq {"*"}
  /\ q.dels # {} <=> q.at = "invalidate"
  /\ q.op = "update" /\ q.at = "upsert" => q.seen \in Entity \cup {None}
  /\ q.op = "update" /\ q.at \in {"invalidate", "cache"} => q.seen \in Entity /\ q.p \in Known
  /\ q.op = "get" /\ q.at = "cache" => q.seen \in Entity /\ q.p \in Known
  /\ q.op = "global" /\ q.at = "cache" => q.seen \in TableFigures

RequestsOK == req \in [Requests -> Request] /\ \A r \in Requests : RequestOK(req[r])

TypeInv ==
  /\ row \in Table /\ \A p \in Projects : row[p] # None => p \in Known
  /\ cached \in [Projects -> [data : {Response(e) : e \in Entity}, left : 1 .. StatTTL] \cup {None}]
  /\ cachedGlobal \in [data : TableFigures, left : 1 .. GlobalTTL] \cup {None}
  /\ RequestsOK
  /\ DOMAIN expected = Projects /\ expected = [p \in Projects |-> expected[p]]
  /\ \A p \in Projects : /\ DOMAIN expected[p] = PartNames
                        /\ expected[p] = [x \in PartNames |-> expected[p][x]]
  /\ reverted \in [Projects -> SUBSET PartNames]
  /\ goneFor \in [Projects -> 0 .. StatTTL]
  /\ old \subseteq Projects /\ closed \subseteq Projects
  /\ excused \subseteq Scopes

LEMMA TypeInit == Init => TypeInv
<1>. SUFFICES ASSUME Init PROVE TypeInv
  OBVIOUS
<1>1. NoRequest \in Request /\ RequestOK(NoRequest)
  BY DEF NoRequest, Request, RequestOK
<1>2. RequestsOK
  BY <1>1 DEF Init, RequestsOK
<1>3. goneFor \in [Projects -> 0 .. StatTTL]
  BY StatisticsAssumption DEF Init
<1>4. row \in Table
  BY DEF Init, Table
<1>. QED BY <1>2, <1>3, <1>4 DEF Init, TypeInv

\* A request that steps and stays where it can be leaves the others alone.
LEMMA OneRequest ==
  ASSUME RequestsOK, NEW r \in Requests, NEW q \in Request, RequestOK(q),
         req' = [req EXCEPT ![r] = q]
  PROVE  RequestsOK'
BY DEF RequestsOK

LEMMA AnswerOK ==
  ASSUME RequestsOK, NEW r \in Requests, Answer(r)
  PROVE  /\ RequestsOK' /\ req'[r] = NoRequest
         /\ \A s \in Requests : s # r => req'[s] = req[s]
<1>1. NoRequest \in Request /\ RequestOK(NoRequest)
  BY DEF NoRequest, Request, RequestOK
<1>2. req' = [req EXCEPT ![r] = NoRequest]
  BY DEF Answer
<1>. QED BY <1>1, <1>2, OneRequest DEF RequestsOK

LEMMA GotoOK ==
  ASSUME RequestsOK, NEW r \in Requests, req[r].at = "get", Goto(r, "load")
  PROVE  /\ RequestsOK' /\ req'[r] = [req[r] EXCEPT !.at = "load"]
         /\ \A s \in Requests : s # r => req'[s] = req[s]
<1>. DEFINE q == [req[r] EXCEPT !.at = "load"]
<1>1. req' = [req EXCEPT ![r] = q]
  BY DEF Goto
<1>2. q \in Request /\ RequestOK(q)
  BY DEF RequestsOK, Request, RequestOK
<1>. QED BY <1>1, <1>2, OneRequest DEF RequestsOK

\* The row an update writes is one, and of each part it holds what was sent or,
\* when the part was not sent, what the update had read.
LEMMA WrittenRow ==
  ASSUME NEW seen \in Entity \cup {None}, NEW new \in Updates
  PROVE  LET e == PrepareUpsertData(seen, seen # None, new) IN
         /\ e \in Entity
         /\ \A x \in PartNames :
              Reported(e[x]) = IF x \in DOMAIN new THEN Reported(new[x])
                               ELSE Reported(PartOf(seen, x))
<1>1. CASE seen = None
  <2>1. PrepareUpsertData(seen, seen # None, new) = FirstRow(new)
    BY <1>1 DEF PrepareUpsertData
  <2>2. \A x \in PartNames : FirstRow(new)[x] = Part(new, x)
    BY FirstRowForm DEF PartNames
  <2>3. \A x : Part(new, x) = IF x \in DOMAIN new THEN new[x] ELSE PartOf(seen, x)
    BY <1>1 DEF Part, PartOf
  <2>. QED BY <2>1, <2>2, <2>3, FirstRowForm
<1>2. CASE seen # None
  <2>1. (seen # None) = TRUE /\ \A x : PartOf(seen, x) = seen[x]
    BY <1>2 DEF PartOf
  <2>2. /\ PrepareUpsertData(seen, TRUE, new) \in Entity
        /\ \A x \in PartNames : Reported(PrepareUpsertData(seen, TRUE, new)[x])
             = IF x \in DOMAIN new THEN Reported(new[x]) ELSE Reported(seen[x])
    BY <1>2, MergedRow
  <2>. QED BY <2>1, <2>2
<1>. QED BY <1>1, <1>2

LEMMA LeftForm ==
  ASSUME NEW D, NEW N \in Nat, NEW entry \in [data : D, left : 1 .. N] \cup {None}
  PROVE  /\ Left(entry) \in [data : D, left : 1 .. N] \cup {None}
         /\ Left(entry) # None => /\ entry # None /\ Left(entry).left = entry.left - 1
                                  /\ Left(entry).data = entry.data
<1>1. CASE entry = None \/ entry.left = 1
  BY <1>1 DEF Left
<1>2. CASE ~(entry = None \/ entry.left = 1)
  <2>1. entry \in [data : D, left : 1 .. N] /\ entry.left # 1
    BY <1>2
  <2>2. Left(entry) = [entry EXCEPT !.left = entry.left - 1]
    BY <1>2 DEF Left
  <2>. QED BY <1>2, <2>1, <2>2
<1>. QED BY <1>1, <1>2

LEMMA ScopeForm ==
  ASSUME NEW p
  PROVE  /\ Scope("update", p) = {p, "*"} /\ Scope("get", p) = {p}
         /\ Scope("global", p) = {"*"} /\ Scope("cleanup", p) = Known \cup {"*"}
         /\ Scope("none", p) = {}
BY DEF Scope

\* What the actions do to the request that steps.
LEMMA BeginOK ==
  ASSUME RequestsOK, NEW r \in Requests, Begin(r)
  PROVE  /\ RequestsOK' /\ \A s \in Requests : s # r => req'[s] = req[s]
         /\ req'[r].op # "none" /\ req'[r].dels = {} /\ req'[r].at \in {"find", "get", "deleteMany"}
         /\ excused' = excused \cup (InUse \cap Scope(req'[r].op, req'[r].p))
<1>1. PICK op \in {"update", "get", "global", "cleanup"}, p \in Projects, new \in Updates :
        /\ req' = [req EXCEPT ![r] = Started(op, p, new)]
        /\ excused' = excused \cup (InUse \cap Scope(op, p))
  BY DEF Begin
<1>. DEFINE q == Started(op, p, new)
<1>2. /\ q.op = op /\ q.p = (IF op \in {"update", "get"} THEN p ELSE None)
      /\ q.new = (IF op = "update" THEN new ELSE <<>>) /\ q.seen = None /\ q.dels = {}
      /\ DOMAIN q = {"op", "at", "p", "new", "seen", "dels"} /\ q = [x \in DOMAIN q |-> q[x]]
  BY DEF Started, NoRequest
<1>3. /\ op = "update" => q.at = "find"
      /\ op \in {"get", "global"} => q.at = "get"
      /\ op = "cleanup" => q.at = "deleteMany"
  BY DEF Started, NoRequest
<1>4. req' = [req EXCEPT ![r] = q]
  BY <1>1
<1>. HIDE DEF q
<1>5. q \in Request /\ RequestOK(q)
  BY <1>2, <1>3 DEF Request, RequestOK
<1>6. RequestsOK'
  BY <1>4, <1>5, OneRequest
<1>7. req'[r] = q /\ \A s \in Requests : s # r => req'[s] = req[s]
  BY <1>4 DEF RequestsOK
<1>8. Scope(op, p) = Scope(q.op, q.p)
  BY <1>2, ScopeForm
<1>. QED BY <1>1, <1>2, <1>3, <1>6, <1>7, <1>8

LEMMA FindExistingOK ==
  ASSUME RequestsOK, row \in Table, NEW r \in Requests, FindExisting(r)
  PROVE  /\ RequestsOK' /\ \A s \in Requests : s # r => req'[s] = req[s]
         /\ req'[r] = [req[r] EXCEPT !.at = "upsert", !.seen = row[req[r].p]]
<1>. DEFINE q == [req[r] EXCEPT !.at = "upsert", !.seen = row[req[r].p]]
<1>1. req' = [req EXCEPT ![r] = q] /\ req[r].op = "update" /\ req[r].at = "find"
  BY DEF FindExisting
<1>2. row[req[r].p] \in Entity \cup {None}
  BY <1>1 DEF RequestsOK, RequestOK, Table
<1>3. q \in Request /\ RequestOK(q)
  <2>1. req[r] \in Request /\ RequestOK(req[r])
    BY DEF RequestsOK
  <2>2. /\ q \in Request /\ q.op = req[r].op /\ q.p = req[r].p /\ q.new = req[r].new
        /\ q.dels = req[r].dels /\ q.at = "upsert" /\ q.seen = row[req[r].p]
    BY <2>1, <1>2 DEF Request
  <2>. HIDE DEF q
  <2>. QED BY <1>1, <1>2, <2>1, <2>2 DEF RequestOK
<1>. QED BY <1>1, <1>3, OneRequest DEF RequestsOK

LEMMA UpsertOK ==
  ASSUME RequestsOK, row \in Table, NEW r \in Requests, Upsert(r)
  PROVE  LET p == req[r].p
             e == PrepareUpsertData(req[r].seen, req[r].seen # None, req[r].new) IN
         /\ RequestsOK' /\ \A s \in Requests : s # r => req'[s] = req[s]
         /\ req'[r] = [req[r] EXCEPT !.at = "invalidate", !.seen = e, !.dels = {p, "*"}]
         /\ req[r].op = "update" /\ p \in Known /\ p \in Projects /\ req[r].new \in Updates
         /\ e \in Entity /\ row' = [row EXCEPT ![p] = e] /\ req[r].seen \in Entity \cup {None}
<1>. DEFINE p == req[r].p
            e == PrepareUpsertData(req[r].seen, req[r].seen # None, req[r].new)
            q == [req[r] EXCEPT !.at = "invalidate", !.seen = e, !.dels = {p, "*"}]
<1>1. /\ req[r].op = "update" /\ req[r].at = "upsert" /\ p \in Known
      /\ row' = [row EXCEPT ![p] = e]
      /\ req' = [req EXCEPT ![r].at = "invalidate", ![r].seen = row'[p], ![r].dels = {p, "*"}]
  BY DEF Upsert
<1>2. p \in Projects /\ req[r].new \in Updates /\ req[r].seen \in Entity \cup {None}
  BY <1>1 DEF RequestsOK, RequestOK
<1>3. e \in Entity
  BY <1>2, WrittenRow
<1>. HIDE DEF e
<1>4. row'[p] = e
  BY <1>1, <1>2 DEF Table
<1>5. req' = [req EXCEPT ![r] = q]
  BY <1>1, <1>4
<1>6. q \in Request /\ RequestOK(q)
  <2>1. req[r] \in Request /\ RequestOK(req[r])
    BY DEF RequestsOK
  <2>2. {p, "*"} \in SUBSET Scopes
    BY <1>2 DEF Scopes
  <2>3. /\ q \in Request /\ q.op = req[r].op /\ q.p = p /\ q.new = req[r].new
        /\ q.dels = {p, "*"} /\ q.at = "invalidate" /\ q.seen = e
    BY <2>1, <2>2, <1>3 DEF Request
  <2>. HIDE DEF q
  <2>. QED BY <1>1, <1>2, <1>3, <2>1, <2>3 DEF RequestOK
<1>7. RequestsOK' /\ req'[r] = q /\ \A s \in Requests : s # r => req'[s] = req[s]
  BY <1>5, <1>6, OneRequest DEF RequestsOK
<1>. QED BY <1>1, <1>2, <1>3, <1>7 DEF e

LEMMA InvalidateOK ==
  ASSUME RequestsOK, NEW r \in Requests, NEW d \in req[r].dels,
         req' = [req EXCEPT ![r].dels = @ \ {d},
                            ![r].at = IF req[r].dels # {d} THEN @
                                      ELSE IF req[r].op = "update" THEN "cache" ELSE "answer"]
  PROVE  /\ RequestsOK' /\ \A s \in Requests : s # r => req'[s] = req[s]
         /\ req'[r].dels = req[r].dels \ {d} /\ req'[r].op = req[r].op /\ req'[r].p = req[r].p
         /\ req'[r].seen = req[r].seen /\ req[r].at = "invalidate"
         /\ req'[r].at # "invalidate" => req'[r].at = IF req[r].op = "update" THEN "cache" ELSE "answer"
<1>. DEFINE at == IF req[r].dels # {d} THEN req[r].at
                  ELSE IF req[r].op = "update" THEN "cache" ELSE "answer"
            q == [req[r] EXCEPT !.dels = req[r].dels \ {d}, !.at = at]
<1>1. req[r].at = "invalidate" /\ req[r] \in Request /\ RequestOK(req[r])
  BY DEF RequestsOK, RequestOK
<1>2. at \in {"invalidate", "cache", "answer"} /\ d \in Scopes
  BY <1>1 DEF Request
<1>3. q \in Request
  BY <1>1, <1>2 DEF Request
<1>4. RequestOK(q)
  <2>1. req[r].op \in {"update", "cleanup"}
    BY <1>1 DEF RequestOK, Request
  <2>2. CASE req[r].dels = {d}
    BY <1>1, <2>1, <2>2 DEF RequestOK, Request
  <2>3. CASE req[r].dels # {d}
    <3>1. req[r].dels \ {d} # {}
      BY <2>3
    <3>. QED BY <1>1, <2>1, <2>3, <3>1 DEF RequestOK, Request
  <2>. QED BY <2>2, <2>3
<1>5. req' = [req EXCEPT ![r] = q]
  OBVIOUS
<1>6. RequestsOK' /\ req'[r] = q /\ \A s \in Requests : s # r => req'[s] = req[s]
  BY <1>3, <1>4, <1>5, OneRequest DEF RequestsOK
<1>7. /\ q.dels = req[r].dels \ {d} /\ q.op = req[r].op /\ q.p = req[r].p
      /\ q.seen = req[r].seen /\ q.at = at
  BY <1>1 DEF Request
<1>. QED BY <1>1, <1>6, <1>7

LEMMA FindByProjectIdOK ==
  ASSUME TypeInv, NEW r \in Requests, FindByProjectId(r)
  PROVE  /\ RequestsOK' /\ \A s \in Requests : s # r => req'[s] = req[s]
         /\ req[r].op = "get" /\ req[r].p \in Projects
         /\ \/ req'[r] = NoRequest
            \/ /\ row[req[r].p] # None /\ req'[r].seen = row[req[r].p]
               /\ req'[r] = [req[r] EXCEPT !.at = "cache", !.seen = row[req[r].p]]
<1>. DEFINE e == row[req[r].p]
            q == [req[r] EXCEPT !.at = "cache", !.seen = e]
<1>1. /\ req[r].op = "get" /\ req[r].at = "load"
      /\ IF e = None THEN Answer(r) ELSE req' = [req EXCEPT ![r].at = "cache", ![r].seen = e]
  BY DEF FindByProjectId
<1>2. RequestsOK /\ req[r].p \in Projects
  BY <1>1 DEF TypeInv, RequestsOK, RequestOK
<1>3. CASE e = None
  BY <1>1, <1>2, <1>3, AnswerOK
<1>4. CASE e # None
  <2>1. req' = [req EXCEPT ![r] = q]
    BY <1>1, <1>4
  <2>2. e \in Entity /\ req[r].p \in Known
    BY <1>2, <1>4 DEF TypeInv, Table
  <2>3. q \in Request /\ RequestOK(q) /\ q.seen = e
    BY <1>1, <1>2, <2>2, ZenonT(30) DEF RequestsOK, Request, RequestOK
  <2>. QED BY <1>1, <1>2, <1>4, <2>1, <2>3, OneRequest DEF RequestsOK
<1>. QED BY <1>3, <1>4

LEMMA LoadGlobalOK ==
  ASSUME TypeInv, NEW r \in Requests, LoadGlobal(r)
  PROVE  /\ RequestsOK' /\ \A s \in Requests : s # r => req'[s] = req[s]
         /\ req[r].op = "global" /\ req'[r] = [req[r] EXCEPT !.at = "cache", !.seen = GlobalFigures]
<1>. DEFINE q == [req[r] EXCEPT !.at = "cache", !.seen = GlobalFigures]
<1>1. /\ req[r].op = "global" /\ req[r].at = "load" /\ req' = [req EXCEPT ![r] = q]
  BY DEF LoadGlobal
<1>2. GlobalFigures \in TableFigures
  BY DEF TypeInv, GlobalFigures, TableFigures
<1>3. q \in Request /\ RequestOK(q)
  <2>1. req[r] \in Request /\ RequestOK(req[r])
    BY DEF TypeInv, RequestsOK
  <2>2. /\ q \in Request /\ q.op = req[r].op /\ q.p = req[r].p /\ q.new = req[r].new
        /\ q.dels = req[r].dels /\ q.at = "cache" /\ q.seen = GlobalFigures
    BY <2>1, <1>2 DEF Request
  <2>. HIDE DEF q
  <2>. QED BY <1>1, <1>2, <2>1, <2>2 DEF RequestOK
<1>. QED BY <1>1, <1>3, OneRequest DEF TypeInv, RequestsOK

LEMMA DeleteManyOK ==
  ASSUME RequestsOK, NEW r \in Requests, DeleteMany(r)
  PROVE  /\ RequestsOK' /\ \A s \in Requests : s # r => req'[s] = req[s]
         /\ req[r].op = "cleanup" /\ req'[r].op = "cleanup" /\ req'[r].p = req[r].p
         /\ req'[r].at \in {"invalidate", "answer"}
         /\ req'[r].dels = IF Stale # {} THEN {"*"} ELSE {}
<1>. DEFINE at == IF Stale # {} THEN "invalidate" ELSE "answer"
            dels == IF Stale # {} THEN {"*"} ELSE {}
            q == [req[r] EXCEPT !.at = at, !.dels = dels]
<1>1. req[r].op = "cleanup" /\ req[r].at = "deleteMany" /\ req' = [req EXCEPT ![r] = q]
  BY DEF DeleteMany
<1>2. /\ at \in {"invalidate", "answer"} /\ dels \in SUBSET Scopes /\ dels \subseteq {"*"}
      /\ dels # {} <=> at = "invalidate"
  BY DEF Scopes
<1>3. req[r] \in Request /\ RequestOK(req[r])
  BY DEF RequestsOK
<1>. HIDE DEF at, dels
<1>4. /\ q \in Request /\ q.op = req[r].op /\ q.p = req[r].p /\ q.new = req[r].new
      /\ q.dels = dels /\ q.at = at /\ q.seen = req[r].seen
  BY <1>2, <1>3 DEF Request
<1>. HIDE DEF q
<1>5. RequestOK(q)
  BY <1>1, <1>2, <1>3, <1>4 DEF RequestOK
<1>6. RequestsOK' /\ req'[r] = q /\ \A s \in Requests : s # r => req'[s] = req[s]
  BY <1>1, <1>4, <1>5, OneRequest DEF RequestsOK
<1>. QED BY <1>1, <1>2, <1>4, <1>6 DEF dels

\* No request is under way, so none has anything to write or to forget.
LEMMA QuietForm ==
  ASSUME RequestsOK, Quiet
  PROVE  \A r \in Requests : req[r].op = "none" /\ req[r].at = "idle" /\ req[r].dels = {}
<1>. SUFFICES ASSUME NEW r \in Requests
              PROVE  req[r].op = "none" /\ req[r].at = "idle" /\ req[r].dels = {}
  OBVIOUS
<1>1. req[r] \in Request /\ RequestOK(req[r])
  BY DEF RequestsOK
<1>2. Scope(req[r].op, req[r].p) = {}
  BY DEF Quiet, InUse
<1>3. req[r].op \in {"none", "update", "get", "global", "cleanup"}
  BY <1>1 DEF Request
<1>4. /\ req[r].op # "update" /\ req[r].op # "get" /\ req[r].op # "global"
      /\ req[r].op # "cleanup"
  <2>1. \A op : op = req[r].op => Scope(op, req[r].p) = {}
    BY <1>2
  <2>. QED BY <2>1, ScopeForm
<1>5. req[r].op = "none"
  BY <1>3, <1>4
<1>. QED BY <1>1, <1>5 DEF RequestOK

LEMMA TypeNext == TypeInv /\ [Next]_vars => TypeInv'
<1>. SUFFICES ASSUME TypeInv, [Next]_vars PROVE TypeInv'
  OBVIOUS
<1>. USE DEF TypeInv
<1>1. ASSUME NEW r \in Requests, Begin(r) PROVE TypeInv'
  <2>1. RequestsOK' /\ excused' = excused \cup (InUse \cap Scope(req'[r].op, req'[r].p))
    BY <1>1, BeginOK
  <2>2. InUse \subseteq Scopes
    <3>. SUFFICES ASSUME NEW s \in Requests PROVE Scope(req[s].op, req[s].p) \subseteq Scopes
      BY DEF InUse
    <3>1. req[s] \in Request /\ RequestOK(req[s])
      BY DEF RequestsOK
    <3>. QED BY <3>1, ScopeForm, StatisticsAssumption DEF Request, RequestOK, Scopes
  <2>. QED BY <1>1, <2>1, <2>2 DEF Begin
<1>2. ASSUME NEW r \in Requests, FindExisting(r) PROVE TypeInv'
  BY <1>2, FindExistingOK DEF FindExisting
<1>3. ASSUME NEW r \in Requests, Upsert(r) PROVE TypeInv'
  <2>. DEFINE p == req[r].p
              e == PrepareUpsertData(req[r].seen, req[r].seen # None, req[r].new)
  <2>1. /\ RequestsOK' /\ p \in Known /\ p \in Projects /\ e \in Entity
        /\ row' = [row EXCEPT ![p] = e]
    BY <1>3, UpsertOK
  <2>. HIDE DEF e
  <2>2. row' \in Table /\ \A x \in Projects : row'[x] # None => x \in Known
    BY <2>1 DEF Table
  <2>3. /\ goneFor' = [goneFor EXCEPT ![p] = 0]
        /\ old' \subseteq old
        /\ UNCHANGED <<closed, cached, cachedGlobal, excused>>
    BY <1>3 DEF Upsert
  <2>4. goneFor' \in [Projects -> 0 .. StatTTL]
    <3>1. 0 \in 0 .. StatTTL /\ goneFor \in [Projects -> 0 .. StatTTL]
      BY StatisticsAssumption
    <3>. HIDE DEF TypeInv
    <3>. QED BY <2>3, <3>1
  <2>5. PICK f : expected' = [expected EXCEPT ![p] = [x \in PartNames |-> f[x]]]
    <3>. DEFINE f == [x \in PartNames |-> IF x \in DOMAIN req[r].new THEN Reported(req[r].new[x])
                                         ELSE expected[p][x]]
    <3>1. expected' = [expected EXCEPT ![p] = [x \in PartNames |-> f[x]]]
      BY <1>3 DEF Upsert
    <3>. HIDE DEF f
    <3>. QED BY <3>1
  <2>6. /\ DOMAIN expected' = Projects /\ expected' = [x \in Projects |-> expected'[x]]
        /\ \A x \in Projects : /\ DOMAIN expected'[x] = PartNames
                               /\ expected'[x] = [y \in PartNames |-> expected'[x][y]]
    BY <2>1, <2>5
  <2>7. PICK g \in SUBSET PartNames : reverted' = [reverted EXCEPT ![p] = g]
    <3>. DEFINE g == {x \in PartNames \ DOMAIN req[r].new :
                        x \in reverted[p] \/ PartOf(row[p], x) # PartOf(req[r].seen, x)}
    <3>1. reverted' = [reverted EXCEPT ![p] = g] /\ g \in SUBSET PartNames
      BY <1>3 DEF Upsert
    <3>. HIDE DEF g
    <3>. QED BY <3>1
  <2>8. reverted' \in [Projects -> SUBSET PartNames]
    BY <2>7
  <2>. QED BY <2>1, <2>2, <2>3, <2>4, <2>6, <2>8
<1>4. ASSUME NEW r \in Requests, QueryFails(r) PROVE TypeInv'
  BY <1>4, AnswerOK DEF QueryFails
<1>5. ASSUME NEW r \in Requests, Invalidate(r) PROVE TypeInv'
  <2>1. PICK d \in req[r].dels :
          /\ \/ /\ cached' = [p \in Projects |-> IF p = d THEN None ELSE cached[p]]
                /\ cachedGlobal' = IF d = "*" THEN None ELSE cachedGlobal
                /\ UNCHANGED excused
             \/ /\ StatFaults /\ excused' = excused \cup {d}
                /\ UNCHANGED <<cached, cachedGlobal>>
          /\ req' = [req EXCEPT ![r].dels = @ \ {d},
                                ![r].at = IF req[r].dels # {d} THEN @
                                          ELSE IF req[r].op = "update" THEN "cache" ELSE "answer"]
    BY <1>5 DEF Invalidate
  <2>2. RequestsOK'
    BY <2>1, InvalidateOK
  <2>3. d \in Scopes
    <3>1. req[r] \in Request
      BY DEF RequestsOK
    <3>. QED BY <3>1 DEF Request
  <2>4. UNCHANGED <<row, old, closed, expected, reverted, goneFor>>
    BY <1>5 DEF Invalidate
  <2>. QED BY <2>1, <2>2, <2>3, <2>4
<1>6. ASSUME NEW r \in Requests, CacheResponse(r) PROVE TypeInv'
  <2>1. RequestsOK'
    BY <1>6, AnswerOK DEF CacheResponse
  <2>2. req[r].seen \in Entity
    BY <1>6 DEF CacheResponse, RequestsOK, RequestOK
  <2>3. [data |-> Response(req[r].seen), left |-> StatTTL]
          \in [data : {Response(e) : e \in Entity}, left : 1 .. StatTTL]
    BY <2>2, StatisticsAssumption
  <2>. QED BY <1>6, <2>1, <2>3 DEF CacheResponse
<1>7. ASSUME NEW r \in Requests, CacheHit(r) PROVE TypeInv'
  BY <1>7, AnswerOK DEF CacheHit
<1>8. ASSUME NEW r \in Requests, CacheMiss(r) PROVE TypeInv'
  BY <1>8, GotoOK DEF CacheMiss
<1>9. ASSUME NEW r \in Requests, FindByProjectId(r) PROVE TypeInv'
  BY <1>9, FindByProjectIdOK DEF FindByProjectId
<1>10. ASSUME NEW r \in Requests, LoadGlobal(r) PROVE TypeInv'
  BY <1>10, LoadGlobalOK DEF LoadGlobal
<1>11. ASSUME NEW r \in Requests, CacheGlobal(r) PROVE TypeInv'
  <2>1. RequestsOK'
    BY <1>11, AnswerOK DEF CacheGlobal
  <2>2. req[r].seen \in TableFigures
    BY <1>11 DEF CacheGlobal, RequestsOK, RequestOK
  <2>3. [data |-> req[r].seen, left |-> GlobalTTL] \in [data : TableFigures, left : 1 .. GlobalTTL]
    BY <2>2, StatisticsAssumption
  <2>. QED BY <1>11, <2>1, <2>3 DEF CacheGlobal
<1>12. ASSUME NEW r \in Requests, DeleteMany(r) PROVE TypeInv'
  <2>1. RequestsOK'
    BY <1>12, DeleteManyOK
  <2>2. row' \in Table /\ \A x \in Projects : row'[x] # None => x \in Known
    BY <1>12 DEF DeleteMany, Table
  <2>3. /\ DOMAIN expected' = Projects /\ expected' = [x \in Projects |-> expected'[x]]
        /\ \A x \in Projects : /\ DOMAIN expected'[x] = PartNames
                               /\ expected'[x] = [y \in PartNames |-> expected'[x][y]]
    BY <1>12 DEF DeleteMany
  <2>4. reverted' \in [Projects -> SUBSET PartNames]
    BY <1>12 DEF DeleteMany
  <2>. QED BY <1>12, <2>1, <2>2, <2>3, <2>4 DEF DeleteMany
<1>13. ASSUME NEW r \in Requests, CleanupAnswers(r) PROVE TypeInv'
  BY <1>13, AnswerOK DEF CleanupAnswers
<1>14. CASE Tick
  <2>1. cached' \in [Projects -> [data : {Response(e) : e \in Entity}, left : 1 .. StatTTL] \cup {None}]
    <3>. SUFFICES ASSUME NEW p \in Projects
                  PROVE  Left(cached[p]) \in [data : {Response(e) : e \in Entity}, left : 1 .. StatTTL]
                                               \cup {None}
      BY <1>14 DEF Tick
    <3>. QED BY LeftForm, StatisticsAssumption
  <2>2. cachedGlobal' \in [data : TableFigures, left : 1 .. GlobalTTL] \cup {None}
    BY <1>14, LeftForm, StatisticsAssumption DEF Tick
  <2>3. goneFor' \in [Projects -> 0 .. StatTTL]
    BY <1>14, StatisticsAssumption DEF Tick
  <2>. QED BY <1>14, <2>1, <2>2, <2>3 DEF Tick, RequestsOK
<1>15. CASE Age
  <2>1. goneFor' \in [Projects -> 0 .. StatTTL]
    BY <1>15, StatisticsAssumption DEF Age
  <2>. QED BY <1>15, <2>1 DEF Age, RequestsOK
<1>16. ASSUME NEW p \in Projects, Close(p) PROVE TypeInv'
  BY <1>16 DEF Close, RequestsOK
<1>17. CASE UNCHANGED vars
  BY <1>17 DEF vars, RequestsOK
<1>. QED
  BY <1>1, <1>2, <1>3, <1>4, <1>5, <1>6, <1>7, <1>8, <1>9, <1>10, <1>11, <1>12, <1>13, <1>14,
     <1>15, <1>16, <1>17 DEF Next

LEMMA TypeInvariant == Spec => []TypeInv
BY TypeInit, TypeNext, PTL DEF Spec

\* Rows, cached responses and figures keep their shapes and their TTLs, and a row
\* belongs to a project that exists, whatever requests overlap and fail.
THEOREM TypeCorrect == Spec => []TypeOK
<1>1. TypeInv => TypeOK
  <2>. SUFFICES ASSUME TypeInv PROVE TypeOK
    OBVIOUS
  <2>1. \A p \in Projects : row[p] # None => p \in Known /\ DOMAIN row[p] = DOMAIN NoEntity
    BY DEF TypeInv, Table, Entity, NoEntity
  <2>2. \A p \in Projects : cached[p] # None => cached[p].left \in 1 .. StatTTL
    BY DEF TypeInv
  <2>3. \A r \in Requests : req[r].dels # {} <=> req[r].at = "invalidate"
    BY DEF TypeInv, RequestsOK, RequestOK
  <2>. QED BY <2>1, <2>2, <2>3 DEF TypeInv, TypeOK, Scopes
<1>. QED BY <1>1, TypeInvariant, PTL

-----------------------------------------------------------------------------
\* What a cleanup removed.

\* A request that is about to cache the row it wrote or loaded, or to forget
\* before it does.
Holds(q) ==
  (q.op = "update" /\ q.at \in {"invalidate", "cache"}) \/ (q.op = "get" /\ q.at = "cache")

\* A project's statistics are there since a request wrote or loaded what it
\* holds, and what is cached has lost at least the time they are gone.
GoneInv ==
  /\ \A p \in Projects : row[p] # None => goneFor[p] = 0
  /\ \A r \in Requests : Holds(req[r]) => goneFor[req[r].p] = 0
  /\ \A p \in Projects : cached[p] # None => cached[p].left + goneFor[p] <= StatTTL

\* What is left to show of a step that changes neither rows, nor what is cached,
\* nor the time.
LEMMA GoneUndisturbed ==
  ASSUME GoneInv, UNCHANGED <<row, cached, goneFor>>, NEW r \in Requests,
         \A s \in Requests : s # r => req'[s] = req[s],
         Holds(req'[r]) => goneFor[req'[r].p] = 0
  PROVE  GoneInv'
BY DEF GoneInv, Holds

LEMMA GoneNext == TypeInv /\ GoneInv /\ [Next]_vars => GoneInv'
<1>. SUFFICES ASSUME TypeInv, GoneInv, [Next]_vars PROVE GoneInv'
  OBVIOUS
<1>0. RequestsOK /\ goneFor \in [Projects -> 0 .. StatTTL] /\ StatTTL \in Nat /\ row \in Table
  BY StatisticsAssumption DEF TypeInv
<1>1. ASSUME NEW r \in Requests, Begin(r) PROVE GoneInv'
  <2>1. UNCHANGED <<row, cached, goneFor>>
    BY <1>1 DEF Begin
  <2>2. (\A s \in Requests : s # r => req'[s] = req[s]) /\ ~Holds(req'[r])
    BY <1>0, <1>1, BeginOK DEF Holds
  <2>. QED BY <2>1, <2>2, GoneUndisturbed
<1>2. ASSUME NEW r \in Requests, FindExisting(r) PROVE GoneInv'
  <2>1. UNCHANGED <<row, cached, goneFor>>
    BY <1>2 DEF FindExisting
  <2>2. (\A s \in Requests : s # r => req'[s] = req[s]) /\ ~Holds(req'[r])
    <3>1. req[r] \in Request
      BY <1>0 DEF RequestsOK
    <3>2. /\ \A s \in Requests : s # r => req'[s] = req[s]
          /\ req'[r] = [req[r] EXCEPT !.at = "upsert", !.seen = row[req[r].p]]
      BY <1>0, <1>2, FindExistingOK
    <3>3. req'[r].at = "upsert"
      BY <3>1, <3>2 DEF Request
    <3>. QED BY <3>2, <3>3 DEF Holds
  <2>. QED BY <2>1, <2>2, GoneUndisturbed
<1>3. ASSUME NEW r \in Requests, Upsert(r) PROVE GoneInv'
  <2>. DEFINE p == req[r].p
  <2>1. /\ p \in Projects /\ req'[r].p = p /\ \A s \in Requests : s # r => req'[s] = req[s]
        /\ \A x \in Projects : x # p => row'[x] = row[x]
    <3>1. req[r] \in Request
      BY <1>0 DEF RequestsOK
    <3>. QED BY <1>0, <1>3, <3>1, UpsertOK, ZenonT(30) DEF Request, Table
  <2>2. goneFor' = [goneFor EXCEPT ![p] = 0] /\ UNCHANGED cached
    BY <1>3 DEF Upsert
  <2>3. goneFor'[p] = 0 /\ \A x \in Projects : x # p => goneFor'[x] = goneFor[x]
    BY <1>0, <2>1, <2>2
  <2>4. \A x \in Projects : row'[x] # None => goneFor'[x] = 0
    BY <2>1, <2>3 DEF GoneInv
  <2>5. ASSUME NEW s \in Requests, Holds(req'[s]) PROVE goneFor'[req'[s].p] = 0
    <3>1. CASE s = r
      BY <2>1, <2>3, <3>1
    <3>2. CASE s # r
      <4>1. req'[s] = req[s] /\ req[s].p \in Projects /\ goneFor[req[s].p] = 0
        BY <1>0, <2>1, <2>5, <3>2 DEF GoneInv, Holds, RequestsOK, RequestOK
      <4>. QED BY <2>3, <4>1
    <3>. QED BY <3>1, <3>2
  <2>6. \A x \in Projects : cached'[x] # None => cached'[x].left + goneFor'[x] <= StatTTL
    <3>. SUFFICES ASSUME NEW x \in Projects, cached[x] # None
                  PROVE  cached[x].left + goneFor'[x] <= StatTTL
      BY <2>2
    <3>1. cached[x].left \in 1 .. StatTTL /\ cached[x].left + goneFor[x] <= StatTTL
      BY DEF TypeInv, GoneInv
    <3>. QED BY <1>0, <2>3, <3>1
  <2>. QED BY <2>4, <2>5, <2>6 DEF GoneInv
<1>4. ASSUME NEW r \in Requests, Answer(r), UNCHANGED <<row, cached, goneFor>> PROVE GoneInv'
  <2>1. (\A s \in Requests : s # r => req'[s] = req[s]) /\ ~Holds(req'[r])
    BY <1>0, <1>4, AnswerOK DEF Holds, NoRequest
  <2>. QED BY <1>4, <2>1, GoneUndisturbed
<1>5. ASSUME NEW r \in Requests, Invalidate(r) PROVE GoneInv'
  <2>1. PICK d \in req[r].dels :
          /\ \/ cached' = [p \in Projects |-> IF p = d THEN None ELSE cached[p]]
             \/ UNCHANGED cached
          /\ req' = [req EXCEPT ![r].dels = @ \ {d},
                                ![r].at = IF req[r].dels # {d} THEN @
                                          ELSE IF req[r].op = "update" THEN "cache" ELSE "answer"]
    BY <1>5 DEF Invalidate
  <2>2. UNCHANGED <<row, goneFor>>
    BY <1>5 DEF Invalidate
  <2>3. /\ \A s \in Requests : s # r => req'[s] = req[s]
        /\ req'[r].op = req[r].op /\ req'[r].p = req[r].p /\ req[r].at = "invalidate"
        /\ RequestsOK'
    BY <1>0, <2>1, InvalidateOK
  <2>4. Holds(req'[r]) => goneFor[req'[r].p] = 0
    <3>1. Holds(req'[r]) => req'[r].op \in {"update", "get"}
      BY DEF Holds
    <3>2. req[r].op # "get"
      <4>1. RequestOK(req[r])
        BY <1>0 DEF RequestsOK
      <4>. QED BY <2>3, <4>1 DEF RequestOK
    <3>. QED BY <2>3, <3>1, <3>2 DEF GoneInv, Holds
  <2>5. \A s \in Requests : Holds(req'[s]) => goneFor'[req'[s].p] = 0
    BY <2>2, <2>3, <2>4 DEF GoneInv
  <2>6. \A x \in Projects : cached'[x] # None => cached'[x] = cached[x]
    BY <2>1
  <2>. QED BY <2>2, <2>5, <2>6 DEF GoneInv
<1>6. ASSUME NEW r \in Requests, CacheResponse(r) PROVE GoneInv'
  <2>1. Answer(r) /\ req[r].op \in {"update", "get"} /\ req[r].at = "cache" /\ UNCHANGED <<row, goneFor>>
    BY <1>6 DEF CacheResponse
  <2>2. (\A s \in Requests : s # r => req'[s] = req[s]) /\ ~Holds(req'[r])
    BY <1>0, <2>1, AnswerOK DEF Holds, NoRequest
  <2>3. goneFor[req[r].p] = 0
    BY <2>1 DEF GoneInv, Holds
  <2>4. \A x \in Projects : cached'[x] # None =>
          cached'[x] = cached[x] \/ (cached'[x].left = StatTTL /\ goneFor[x] = 0)
    BY <1>6, <2>3 DEF CacheResponse, TypeInv
  <2>5. \A x \in Projects : cached'[x] # None => cached'[x].left + goneFor'[x] <= StatTTL
    BY <1>0, <2>1, <2>4 DEF GoneInv
  <2>. QED BY <2>1, <2>2, <2>5 DEF GoneInv
<1>7. ASSUME NEW r \in Requests, CacheMiss(r) PROVE GoneInv'
  <2>1. req[r].at = "get" /\ Goto(r, "load") /\ UNCHANGED <<row, cached, goneFor>>
    BY <1>7 DEF CacheMiss
  <2>2. (\A s \in Requests : s # r => req'[s] = req[s]) /\ req'[r].at = "load"
    <3>1. req[r] \in Request
      BY <1>0 DEF RequestsOK
    <3>. QED BY <1>0, <2>1, <3>1, GotoOK DEF Request
  <2>. QED BY <2>1, <2>2, GoneUndisturbed DEF Holds
<1>8. ASSUME NEW r \in Requests, FindByProjectId(r) PROVE GoneInv'
  <2>1. UNCHANGED <<row, cached, goneFor>>
    BY <1>8 DEF FindByProjectId
  <2>2. /\ \A s \in Requests : s # r => req'[s] = req[s]
        /\ req[r].p \in Projects
        /\ req'[r] = NoRequest \/ (row[req[r].p] # None /\ req'[r].p = req[r].p)
    <3>1. req[r] \in Request
      BY <1>0 DEF RequestsOK
    <3>. QED BY <1>8, <3>1, FindByProjectIdOK DEF Request
  <2>3. Holds(req'[r]) => goneFor[req'[r].p] = 0
    BY <2>2 DEF GoneInv, Holds, NoRequest
  <2>. QED BY <2>1, <2>2, <2>3, GoneUndisturbed
<1>9. ASSUME NEW r \in Requests, LoadGlobal(r) PROVE GoneInv'
  <2>1. UNCHANGED <<row, cached, goneFor>>
    BY <1>9 DEF LoadGlobal
  <2>2. (\A s \in Requests : s # r => req'[s] = req[s]) /\ req'[r].op = "global"
    <3>1. req[r] \in Request
      BY <1>0 DEF RequestsOK
    <3>. QED BY <1>9, <3>1, LoadGlobalOK DEF Request
  <2>. QED BY <2>1, <2>2, GoneUndisturbed DEF Holds
<1>10. ASSUME NEW r \in Requests, DeleteMany(r) PROVE GoneInv'
  <2>1. /\ UNCHANGED <<cached, goneFor>>
        /\ row' = [p \in Projects |-> IF p \in Stale THEN None ELSE row[p]]
    BY <1>10 DEF DeleteMany
  <2>2. (\A s \in Requests : s # r => req'[s] = req[s]) /\ req'[r].op = "cleanup"
    BY <1>0, <1>10, DeleteManyOK
  <2>3. \A s \in Requests : Holds(req'[s]) => goneFor'[req'[s].p] = 0
    BY <2>1, <2>2 DEF GoneInv, Holds
  <2>. QED BY <2>1, <2>3 DEF GoneInv
<1>11. CASE Tick
  <2>1. \A s \in Requests : ~Holds(req'[s])
    BY <1>0, <1>11, QuietForm DEF Tick, Holds
  <2>2. ASSUME NEW p \in Projects PROVE row'[p] # None => goneFor'[p] = 0
    BY <1>11 DEF Tick, GoneInv
  <2>3. ASSUME NEW p \in Projects, cached'[p] # None PROVE cached'[p].left + goneFor'[p] <= StatTTL
    <3>1. cached'[p] = Left(cached[p])
      BY <1>11 DEF Tick
    <3>. DEFINE D == {Response(e) : e \in Entity}
                c == cached[p]
    <3>2. cached[p] # None /\ cached'[p].left = cached[p].left - 1
      <4>1. c \in [data : D, left : 1 .. StatTTL] \cup {None}
        BY DEF TypeInv
      <4>2. StatTTL \in Nat /\ Left(c) # None
        BY <1>0, <2>3, <3>1
      <4>. HIDE DEF D, c
      <4>3. c # None /\ Left(c).left = c.left - 1
        BY <4>1, <4>2, LeftForm
      <4>. QED BY <3>1, <4>3 DEF c
    <3>3. cached[p].left \in 1 .. StatTTL /\ cached[p].left + goneFor[p] <= StatTTL
      BY <3>2 DEF TypeInv, GoneInv
    <3>4. goneFor'[p] = goneFor[p] \/ goneFor'[p] = goneFor[p] + 1
      BY <1>11 DEF Tick
    <3>5. goneFor[p] \in Nat
      BY <1>0
    <3>. DEFINE n == cached[p].left
                g == goneFor[p]
                n1 == cached'[p].left
                g1 == goneFor'[p]
    <3>6. n \in Nat /\ g \in Nat /\ n + g <= StatTTL /\ n1 = n - 1 /\ (g1 = g \/ g1 = g + 1)
      BY <1>0, <3>2, <3>3, <3>4, <3>5
    <3>. HIDE DEF n, g, n1, g1
    <3>7. n1 + g1 <= StatTTL
      BY <1>0, <3>6
    <3>. QED BY <3>7 DEF n1, g1
  <2>. QED BY <2>1, <2>2, <2>3 DEF GoneInv
<1>12. CASE Age
  <2>1. \A s \in Requests : ~Holds(req'[s])
    BY <1>0, <1>12, QuietForm DEF Age, Holds
  <2>. QED BY <1>12, <2>1 DEF Age, GoneInv
<1>13. CASE UNCHANGED <<row, cached, req, goneFor>>
  BY <1>13 DEF GoneInv
<1>14. /\ \A r \in Requests : QueryFails(r) \/ CacheHit(r) \/ CacheGlobal(r) \/ CleanupAnswers(r) =>
            Answer(r) /\ UNCHANGED <<row, cached, goneFor>>
       /\ (\E p \in Projects : Close(p)) \/ UNCHANGED vars => UNCHANGED <<row, cached, req, goneFor>>
  BY DEF QueryFails, CacheHit, CacheGlobal, CleanupAnswers, Close, vars
<1>. QED
  BY <1>1, <1>2, <1>3, <1>4, <1>5, <1>6, <1>7, <1>8, <1>9, <1>10, <1>11, <1>12, <1>13, <1>14
  DEF Next

\* The statistics a cleanup removed are served no longer than the TTL of a
\* response, though the cleanup forgets none of them and reads, updates and
\* cleanups interleave.
THEOREM RemovalFades == Spec => []RemovedFades
<1>1. Init => GoneInv
  BY StatisticsAssumption DEF Init, GoneInv, Holds, NoRequest
<1>2. GoneInv => RemovedFades
  BY DEF GoneInv, RemovedFades
<1>. QED BY <1>1, <1>2, GoneNext, TypeInvariant, PTL DEF Spec

-----------------------------------------------------------------------------
\* What services reported.

\* Of each part, whether there is a row or none, what the last update sent that
\* sent it, unless an overlapping update took the part back since.
FiguresInv ==
  \A p \in Projects : \A x \in PartNames \ reverted[p] :
    Reported(PartOf(row[p], x)) = expected[p][x]

LEMMA NothingReported == Reported(<<>>) = <<>>
BY DEF Reported

LEMMA FiguresNext == TypeInv /\ FiguresInv /\ [Next]_vars => FiguresInv'
<1>. SUFFICES ASSUME TypeInv, FiguresInv, [Next]_vars PROVE FiguresInv'
  OBVIOUS
<1>1. ASSUME NEW r \in Requests, Upsert(r) PROVE FiguresInv'
  <2>. DEFINE p == req[r].p
              seen == req[r].seen
              new == req[r].new
              e == PrepareUpsertData(seen, seen # None, new)
              sent == [x \in PartNames |-> IF x \in DOMAIN new THEN Reported(new[x])
                                          ELSE expected[p][x]]
              back == {x \in PartNames \ DOMAIN new :
                         x \in reverted[p] \/ PartOf(row[p], x) # PartOf(seen, x)}
  <2>1. /\ p \in Projects /\ new \in Updates /\ e \in Entity /\ seen \in Entity \cup {None}
        /\ row' = [row EXCEPT ![p] = e]
    BY <1>1, UpsertOK DEF TypeInv
  <2>2. /\ expected' = [expected EXCEPT ![p] = sent]
        /\ reverted' = [reverted EXCEPT ![p] = back]
    BY <1>1 DEF Upsert
  <2>3. \A x \in PartNames : Reported(e[x]) = IF x \in DOMAIN new THEN Reported(new[x])
                                               ELSE Reported(PartOf(seen, x))
    BY <2>1, WrittenRow
  <2>4. ASSUME NEW x \in PartNames \ back PROVE Reported(e[x]) = sent[x]
    <3>1. CASE x \in DOMAIN new
      BY <2>3, <3>1
    <3>2. CASE x \notin DOMAIN new
      <4>1. x \notin reverted[p] /\ PartOf(row[p], x) = PartOf(seen, x)
        BY <3>2
      <4>2. Reported(PartOf(row[p], x)) = expected[p][x]
        BY <2>1, <4>1 DEF FiguresInv
      <4>3. Reported(e[x]) = Reported(PartOf(seen, x)) /\ sent[x] = expected[p][x]
        BY <2>3, <3>2
      <4>. QED BY <4>1, <4>2, <4>3
    <3>. QED BY <3>1, <3>2
  <2>5. \A x : PartOf(e, x) = e[x]
    BY <2>1, NoneAssumption DEF PartOf
  <2>. HIDE DEF e, sent, back
  <2>6. /\ row'[p] = e /\ expected'[p] = sent /\ reverted'[p] = back
        /\ \A q \in Projects : q # p => row'[q] = row[q] /\ expected'[q] = expected[q]
                                         /\ reverted'[q] = reverted[q]
    BY <2>1, <2>2 DEF TypeInv, Table
  <2>7. ASSUME NEW q \in Projects, NEW x \in PartNames \ reverted'[q]
        PROVE  Reported(PartOf(row'[q], x)) = expected'[q][x]
    <3>1. CASE q = p
      BY <2>4, <2>5, <2>6, <2>7, <3>1
    <3>2. CASE q # p
      BY <2>6, <2>7, <3>2 DEF FiguresInv
    <3>. QED BY <3>1, <3>2
  <2>. QED BY <2>7 DEF FiguresInv
<1>2. ASSUME NEW r \in Requests, DeleteMany(r) PROVE FiguresInv'
  <2>1. \A p \in Projects :
          /\ p \in Stale => row'[p] = None /\ expected'[p] = [x \in PartNames |-> <<>>]
          /\ p \notin Stale => /\ row'[p] = row[p] /\ expected'[p] = expected[p]
                               /\ reverted'[p] = reverted[p]
    BY <1>2 DEF DeleteMany
  <2>2. \A x : Reported(PartOf(None, x)) = <<>>
    BY NothingReported DEF PartOf
  <2>. SUFFICES ASSUME NEW p \in Projects, NEW x \in PartNames \ reverted'[p]
                PROVE  Reported(PartOf(row'[p], x)) = expected'[p][x]
    BY DEF FiguresInv
  <2>3. CASE p \in Stale
    BY <2>1, <2>2, <2>3
  <2>4. CASE p \notin Stale
    BY <2>1, <2>4 DEF FiguresInv
  <2>. QED BY <2>3, <2>4
<1>3. CASE UNCHANGED <<row, expected, reverted>>
  BY <1>3 DEF FiguresInv
<1>4. (\A r \in Requests : ~Upsert(r) /\ ~DeleteMany(r)) => UNCHANGED <<row, expected, reverted>>
  BY ZenonT(60) DEF Next, vars, Begin, FindExisting, QueryFails, Invalidate, CacheResponse,
     CacheHit, CacheMiss, FindByProjectId, LoadGlobal, CacheGlobal, CleanupAnswers, Tick, Age, Close
<1>. QED BY <1>1, <1>2, <1>3, <1>4

\* Of each part a row holds exactly the figures of the last update that sent it,
\* whatever the updates since left out: updates that overlap take back only parts
\* they do not send, and such a part is exact again as soon as it is sent again.
THEOREM ReportsKept == Spec => []LastSentKept
<1>1. Init => FiguresInv
  <2>. SUFFICES ASSUME Init, NEW p \in Projects, NEW x \in PartNames
                PROVE  Reported(PartOf(row[p], x)) = expected[p][x]
    BY DEF FiguresInv
  <2>1. row[p] = None /\ expected[p][x] = <<>>
    BY DEF Init
  <2>. QED BY <2>1, NothingReported DEF PartOf
<1>2. FiguresInv => LastSentKept
  BY DEF FiguresInv, LastSentKept, PartOf
<1>. QED BY <1>1, <1>2, FiguresNext, TypeInvariant, PTL DEF Spec

-----------------------------------------------------------------------------
\* What is cached.

\* A request that is about to forget what is cached for a scope.
Forgets(x) == \E r \in Requests : x \in req[r].dels

\* Two requests share only what is excused; what a request is about to cache is
\* what the table holds; and so is what is cached, unless a request is about to
\* forget it.
OverlapInv ==
  /\ \A r, s \in Requests :
       r # s => Scope(req[r].op, req[r].p) \cap Scope(req[s].op, req[s].p) \subseteq excused
  /\ \A r \in Requests : Holds(req[r]) => req[r].p \in excused \/ req[r].seen = row[req[r].p]
  /\ \A r \in Requests : req[r].op = "global" /\ req[r].at = "cache" =>
       "*" \in excused \/ req[r].seen = GlobalFigures
  /\ \A p \in Projects : cached[p] # None /\ row[p] # None =>
       p \in excused \/ Forgets(p) \/ cached[p].data = Response(row[p])
  /\ cachedGlobal # None => "*" \in excused \/ Forgets("*") \/ cachedGlobal.data = GlobalFigures

\* The scope of a request that goes on is the one it had, and of one that ends
\* nothing.
LEMMA SharedStill ==
  ASSUME OverlapInv, excused \subseteq excused', NEW r \in Requests,
         \A s \in Requests : s # r => req'[s] = req[s],
         req'[r].op = "none" \/ (req'[r].op = req[r].op /\ req'[r].p = req[r].p)
  PROVE  \A s, t \in Requests :
           s # t => Scope(req'[s].op, req'[s].p) \cap Scope(req'[t].op, req'[t].p) \subseteq excused'
<1>. DEFINE S(s) == Scope(req[s].op, req[s].p)
            S1(s) == Scope(req'[s].op, req'[s].p)
<1>1. \A s, t \in Requests : s # t => S(s) \cap S(t) \subseteq excused
  BY DEF OverlapInv
<1>2. \A s \in Requests : s # r => S1(s) = S(s)
  OBVIOUS
<1>3. S1(r) = {} \/ S1(r) = S(r)
  <2>1. CASE req'[r].op = "none"
    <3>1. \A op : op = "none" => Scope(op, req'[r].p) = {}
      BY ScopeForm
    <3>. QED BY <2>1, <3>1
  <2>2. CASE req'[r].op = req[r].op /\ req'[r].p = req[r].p
    BY <2>2
  <2>. QED BY <2>1, <2>2
<1>. HIDE DEF S, S1
<1>4. \A s, t \in Requests : s # t => S1(s) \cap S1(t) \subseteq excused'
  BY <1>1, <1>2, <1>3
<1>. QED BY <1>4 DEF S1

\* What is left to show of a step that changes neither rows nor what is cached.
LEMMA OverlapUndisturbed ==
  ASSUME OverlapInv, UNCHANGED <<row, cached, cachedGlobal>>, excused \subseteq excused',
         NEW r \in Requests, \A s \in Requests : s # r => req'[s] = req[s],
         req'[r].dels = req[r].dels,
         \A s, t \in Requests :
           s # t => Scope(req'[s].op, req'[s].p) \cap Scope(req'[t].op, req'[t].p) \subseteq excused',
         Holds(req'[r]) => req'[r].seen = row[req'[r].p] \/ req'[r].p \in excused,
         req'[r].op = "global" /\ req'[r].at = "cache" => req'[r].seen = GlobalFigures
  PROVE  OverlapInv'
<1>1. \A x : Forgets(x) => Forgets(x)'
  BY DEF Forgets
<1>2. GlobalFigures' = GlobalFigures
  BY DEF GlobalFigures
<1>3. \A s \in Requests : Holds(req'[s]) => req'[s].p \in excused' \/ req'[s].seen = row'[req'[s].p]
  BY DEF OverlapInv
<1>4. \A s \in Requests : req'[s].op = "global" /\ req'[s].at = "cache" =>
        "*" \in excused' \/ req'[s].seen = GlobalFigures'
  BY <1>2 DEF OverlapInv
<1>5. \A p \in Projects : cached'[p] # None /\ row'[p] # None =>
        p \in excused' \/ Forgets(p)' \/ cached'[p].data = Response(row'[p])
  BY <1>1 DEF OverlapInv
<1>6. cachedGlobal' # None =>
        "*" \in excused' \/ Forgets("*")' \/ cachedGlobal'.data = GlobalFigures'
  BY <1>1, <1>2 DEF OverlapInv
<1>. QED BY <1>3, <1>4, <1>5, <1>6 DEF OverlapInv, Holds

\* Whose scopes are where.
LEMMA InScope ==
  ASSUME NEW q \in Request, RequestOK(q)
  PROVE  /\ Holds(q) => q.p \in Scope(q.op, q.p) /\ q.p \in Projects /\ q.p \in Known
         /\ q.op = "update" => q.p \in Scope(q.op, q.p) /\ "*" \in Scope(q.op, q.p)
         /\ q.op = "global" => "*" \in Scope(q.op, q.p)
         /\ q.op = "cleanup" => Scope(q.op, q.p) = Known \cup {"*"}
<1>1. \A op : /\ op = "update" => Scope(op, q.p) = {q.p, "*"}
              /\ op = "get" => Scope(op, q.p) = {q.p}
              /\ op = "global" => Scope(op, q.p) = {"*"}
              /\ op = "cleanup" => Scope(op, q.p) = Known \cup {"*"}
  BY ScopeForm
<1>2. Holds(q) => q.p \in Projects /\ q.p \in Known
  BY DEF Holds, RequestOK
<1>. QED BY <1>1, <1>2 DEF Holds

\* What is in two scopes is excused.
LEMMA Shared ==
  ASSUME OverlapInv, NEW r \in Requests, NEW s \in Requests, r # s, NEW x,
         x \in Scope(req[r].op, req[r].p), x \in Scope(req[s].op, req[s].p)
  PROVE  x \in excused
BY DEF OverlapInv

LEMMA UpsertOverlap ==
  ASSUME TypeInv, OverlapInv, NEW r \in Requests, Upsert(r)
  PROVE  OverlapInv'
<1>. DEFINE p == req[r].p
            e == PrepareUpsertData(req[r].seen, req[r].seen # None, req[r].new)
<1>1. /\ \A s \in Requests : s # r => req'[s] = req[s]
      /\ req'[r] = [req[r] EXCEPT !.at = "invalidate", !.seen = e, !.dels = {p, "*"}]
      /\ req[r].op = "update" /\ p \in Projects /\ row' = [row EXCEPT ![p] = e]
  BY UpsertOK DEF TypeInv
<1>. HIDE DEF e
<1>2. UNCHANGED <<cached, cachedGlobal, excused>> /\ req[r].at = "upsert"
  BY DEF Upsert
<1>3. \A s \in Requests : req[s] \in Request /\ RequestOK(req[s])
  BY DEF TypeInv, RequestsOK
<1>4. /\ req'[r].op = "update" /\ req'[r].p = p /\ req'[r].seen = e /\ req'[r].dels = {p, "*"}
      /\ req'[r].at = "invalidate"
  BY <1>1, <1>3 DEF Request
<1>5. row'[p] = e /\ \A x \in Projects : x # p => row'[x] = row[x]
  BY <1>1 DEF TypeInv, Table
<1>6. p \in Scope(req[r].op, req[r].p) /\ "*" \in Scope(req[r].op, req[r].p)
  BY <1>1, <1>3, InScope
<1>7. \A s, t \in Requests :
        s # t => Scope(req'[s].op, req'[s].p) \cap Scope(req'[t].op, req'[t].p) \subseteq excused'
  BY <1>1, <1>2, <1>4, SharedStill, ZenonT(30)
<1>8. ASSUME NEW s \in Requests, Holds(req'[s])
      PROVE  req'[s].p \in excused' \/ req'[s].seen = row'[req'[s].p]
  <2>1. CASE s = r
    BY <1>4, <1>5, <2>1
  <2>2. CASE s # r
    <3>1. req'[s] = req[s] /\ Holds(req[s])
      BY <1>1, <1>8, <2>2
    <3>2. req[s].p \in Scope(req[s].op, req[s].p) /\ req[s].p \in Projects
      BY <1>3, <3>1, InScope
    <3>3. CASE req[s].p = p
      <4>1. p \in excused
        BY <1>6, <2>2, <3>2, <3>3, Shared
      <4>. QED BY <1>2, <3>1, <3>3, <4>1
    <3>4. CASE req[s].p # p
      BY <1>2, <1>5, <3>1, <3>2, <3>4 DEF OverlapInv
    <3>. QED BY <3>3, <3>4
  <2>. QED BY <2>1, <2>2
<1>9. ASSUME NEW s \in Requests, req'[s].op = "global", req'[s].at = "cache" PROVE "*" \in excused'
  <2>1. s # r /\ req'[s] = req[s] /\ req[s].op = "global"
    BY <1>1, <1>4, <1>9
  <2>2. "*" \in Scope(req[s].op, req[s].p)
    BY <1>3, <2>1, InScope
  <2>3. "*" \in excused
    BY <1>6, <2>1, <2>2, Shared
  <2>. QED BY <1>2, <2>3
<1>10. Forgets(p)' /\ Forgets("*")'
  BY <1>4 DEF Forgets
<1>11. ASSUME NEW x \in Projects, x # p PROVE Forgets(x) => Forgets(x)'
  <2>1. req[r].dels = {}
    BY <1>2, <1>3 DEF RequestOK
  <2>. QED BY <1>1, <2>1 DEF Forgets
<1>12. \A x \in Projects : cached'[x] # None /\ row'[x] # None =>
         x \in excused' \/ Forgets(x)' \/ cached'[x].data = Response(row'[x])
  <2>. SUFFICES ASSUME NEW x \in Projects, cached'[x] # None, row'[x] # None
                PROVE  x \in excused' \/ Forgets(x)' \/ cached'[x].data = Response(row'[x])
    OBVIOUS
  <2>1. CASE x = p
    BY <1>4, <2>1 DEF Forgets
  <2>2. CASE x # p
    <3>1. x \in excused \/ Forgets(x) \/ cached[x].data = Response(row[x])
      BY <1>2, <1>5, <2>2 DEF OverlapInv
    <3>. QED BY <1>2, <1>5, <1>11, <2>2, <3>1
  <2>. QED BY <2>1, <2>2
<1>. QED BY <1>7, <1>8, <1>9, <1>10, <1>12 DEF OverlapInv

LEMMA DeleteOverlap ==
  ASSUME TypeInv, OverlapInv, NEW r \in Requests, DeleteMany(r)
  PROVE  OverlapInv'
<1>1. /\ \A s \in Requests : s # r => req'[s] = req[s]
      /\ req[r].op = "cleanup" /\ req'[r].op = "cleanup" /\ req'[r].p = req[r].p
      /\ req'[r].dels = IF Stale # {} THEN {"*"} ELSE {}
  BY DeleteManyOK DEF TypeInv
<1>2. /\ UNCHANGED <<cached, cachedGlobal, excused>> /\ req[r].at = "deleteMany"
      /\ row' = [p \in Projects |-> IF p \in Stale THEN None ELSE row[p]]
  BY DEF DeleteMany
<1>3. \A s \in Requests : req[s] \in Request /\ RequestOK(req[s])
  BY DEF TypeInv, RequestsOK
<1>4. Scope(req[r].op, req[r].p) = Known \cup {"*"}
  BY <1>1, <1>3, InScope
<1>5. \A s, t \in Requests :
        s # t => Scope(req'[s].op, req'[s].p) \cap Scope(req'[t].op, req'[t].p) \subseteq excused'
  BY <1>1, <1>2, SharedStill
<1>6. ASSUME NEW s \in Requests, Holds(req'[s]) PROVE req'[s].p \in excused'
  <2>1. s # r /\ req'[s] = req[s] /\ Holds(req[s])
    BY <1>1, <1>6 DEF Holds
  <2>2. req[s].p \in Scope(req[s].op, req[s].p) /\ req[s].p \in Known
    BY <1>3, <2>1, InScope
  <2>3. req[s].p \in excused
    BY <1>4, <2>1, <2>2, Shared
  <2>. QED BY <1>2, <2>1, <2>3
<1>7. ASSUME NEW s \in Requests, req'[s].op = "global", req'[s].at = "cache" PROVE "*" \in excused'
  <2>1. s # r /\ req'[s] = req[s] /\ req[s].op = "global"
    BY <1>1, <1>7
  <2>2. "*" \in Scope(req[s].op, req[s].p)
    BY <1>3, <2>1, InScope
  <2>3. "*" \in excused
    BY <1>4, <2>1, <2>2, Shared
  <2>. QED BY <1>2, <2>3
<1>8. \A x : Forgets(x) => Forgets(x)'
  <2>1. req[r].dels = {}
    BY <1>2, <1>3 DEF RequestOK
  <2>. QED BY <1>1, <2>1 DEF Forgets
<1>9. \A x \in Projects : cached'[x] # None /\ row'[x] # None =>
        x \in excused' \/ Forgets(x)' \/ cached'[x].data = Response(row'[x])
  <2>1. \A x \in Projects : row'[x] # None => row'[x] = row[x]
    BY <1>2
  <2>. QED BY <1>2, <1>8, <2>1 DEF OverlapInv
<1>10. cachedGlobal' # None =>
         "*" \in excused' \/ Forgets("*")' \/ cachedGlobal'.data = GlobalFigures'
  <2>1. CASE Stale # {}
    BY <1>1, <2>1 DEF Forgets
  <2>2. CASE Stale = {}
    <3>1. row' = row
      BY <1>2, <2>2 DEF TypeInv, Table
    <3>2. GlobalFigures' = GlobalFigures
      BY <3>1 DEF GlobalFigures
    <3>. QED BY <1>2, <1>8, <3>2 DEF OverlapInv
  <2>. QED BY <2>1, <2>2
<1>. QED BY <1>5, <1>6, <1>7, <1>9, <1>10 DEF OverlapInv

LEMMA InvalidateOverlap ==
  ASSUME TypeInv, OverlapInv, NEW r \in Requests, Invalidate(r)
  PROVE  OverlapInv'
<1>1. PICK d \in req[r].dels :
        /\ \/ /\ cached' = [p \in Projects |-> IF p = d THEN None ELSE cached[p]]
              /\ cachedGlobal' = IF d = "*" THEN None ELSE cachedGlobal
              /\ UNCHANGED excused
           \/ /\ StatFaults /\ excused' = excused \cup {d}
              /\ UNCHANGED <<cached, cachedGlobal>>
        /\ req' = [req EXCEPT ![r].dels = @ \ {d},
                              ![r].at = IF req[r].dels # {d} THEN @
                                        ELSE IF req[r].op = "update" THEN "cache" ELSE "answer"]
  BY DEF Invalidate
<1>2. /\ \A s \in Requests : s # r => req'[s] = req[s]
      /\ req'[r].dels = req[r].dels \ {d} /\ req'[r].op = req[r].op /\ req'[r].p = req[r].p
      /\ req'[r].seen = req[r].seen /\ req[r].at = "invalidate"
  BY <1>1, InvalidateOK DEF TypeInv
<1>3. UNCHANGED row /\ excused \subseteq excused'
  <2>1. UNCHANGED row
    BY DEF Invalidate
  <2>. QED BY <1>1, <2>1
<1>4. req[r].op # "get" /\ req[r].op # "global"
  <2>1. RequestOK(req[r])
    BY DEF TypeInv, RequestsOK
  <2>. QED BY <1>2, <2>1 DEF RequestOK
<1>5. GlobalFigures' = GlobalFigures
  BY <1>3 DEF GlobalFigures
<1>6. \A s, t \in Requests :
        s # t => Scope(req'[s].op, req'[s].p) \cap Scope(req'[t].op, req'[t].p) \subseteq excused'
  BY <1>2, <1>3, SharedStill
<1>7. \A s \in Requests : Holds(req'[s]) => req'[s].p \in excused' \/ req'[s].seen = row'[req'[s].p]
  <2>1. Holds(req'[r]) => Holds(req[r])
    BY <1>2, <1>4 DEF Holds
  <2>. QED BY <1>2, <1>3, <2>1 DEF OverlapInv
<1>8. \A s \in Requests : req'[s].op = "global" /\ req'[s].at = "cache" =>
        "*" \in excused' \/ req'[s].seen = GlobalFigures'
  BY <1>2, <1>3, <1>4, <1>5 DEF OverlapInv
<1>9. \A x : x # d /\ Forgets(x) => Forgets(x)'
  BY <1>2 DEF Forgets
<1>10. \A p \in Projects : cached'[p] # None =>
         cached'[p] = cached[p] /\ (p # d \/ p \in excused')
  BY <1>1
<1>11. cachedGlobal' # None => cachedGlobal' = cachedGlobal /\ (d # "*" \/ "*" \in excused')
  BY <1>1
<1>12. \A p \in Projects : cached'[p] # None /\ row'[p] # None =>
         p \in excused' \/ Forgets(p)' \/ cached'[p].data = Response(row'[p])
  BY <1>3, <1>9, <1>10 DEF OverlapInv
<1>13. cachedGlobal' # None =>
         "*" \in excused' \/ Forgets("*")' \/ cachedGlobal'.data = GlobalFigures'
  BY <1>3, <1>5, <1>9, <1>11 DEF OverlapInv
<1>. QED BY <1>6, <1>7, <1>8, <1>12, <1>13 DEF OverlapInv

LEMMA TickOverlap == TypeInv /\ OverlapInv /\ Tick => OverlapInv'
<1>. SUFFICES ASSUME TypeInv, OverlapInv, Tick PROVE OverlapInv'
  OBVIOUS
<1>1. /\ UNCHANGED <<row, req>> /\ \A p \in Projects : cached'[p] = Left(cached[p])
      /\ cachedGlobal' = Left(cachedGlobal)
      /\ excused' = {x \in excused : IF x = "*" THEN cachedGlobal' # None ELSE cached'[x] # None}
  BY DEF Tick
<1>2. \A r \in Requests : req[r].op = "none" /\ req[r].at = "idle" /\ req[r].dels = {}
  BY QuietForm DEF Tick, TypeInv
<1>3. ASSUME NEW r \in Requests PROVE Scope(req'[r].op, req'[r].p) = {}
  <2>1. \A op : op = "none" => Scope(op, req[r].p) = {}
    BY ScopeForm
  <2>. QED BY <1>1, <1>2, <2>1
<1>4. \A r \in Requests : ~Holds(req'[r]) /\ req'[r].op # "global"
  BY <1>1, <1>2 DEF Holds
<1>5. ASSUME NEW p \in Projects, cached'[p] # None, row'[p] # None
      PROVE  p \in excused' \/ cached'[p].data = Response(row'[p])
  <2>. DEFINE D == {Response(e) : e \in Entity}
              c == cached[p]
  <2>1. cached[p] # None /\ cached'[p].data = cached[p].data
    <3>1. c \in [data : D, left : 1 .. StatTTL] \cup {None} /\ Left(c) # None
      BY <1>1, <1>5 DEF TypeInv
    <3>2. StatTTL \in Nat
      BY StatisticsAssumption
    <3>. HIDE DEF D, c
    <3>3. c # None /\ Left(c).data = c.data
      BY <3>1, <3>2, LeftForm
    <3>. QED BY <1>1, <3>3 DEF c
  <2>2. p \in excused \/ cached[p].data = Response(row[p])
    BY <1>1, <1>2, <1>5, <2>1 DEF OverlapInv, Forgets
  <2>. QED BY <1>1, <1>5, <2>1, <2>2, StatisticsAssumption
<1>6. ASSUME cachedGlobal' # None PROVE "*" \in excused' \/ cachedGlobal'.data = GlobalFigures'
  <2>1. cachedGlobal # None /\ cachedGlobal'.data = cachedGlobal.data
    <3>1. cachedGlobal \in [data : TableFigures, left : 1 .. GlobalTTL] \cup {None}
      BY DEF TypeInv
    <3>2. GlobalTTL \in Nat /\ Left(cachedGlobal) # None
      BY <1>1, <1>6, StatisticsAssumption
    <3>3. cachedGlobal # None /\ Left(cachedGlobal).data = cachedGlobal.data
      BY <3>1, <3>2, LeftForm
    <3>. QED BY <1>1, <3>3
  <2>2. "*" \in excused \/ cachedGlobal.data = GlobalFigures
    BY <1>2, <2>1 DEF OverlapInv, Forgets
  <2>3. GlobalFigures' = GlobalFigures
    BY <1>1 DEF GlobalFigures
  <2>. QED BY <1>1, <1>6, <2>1, <2>2, <2>3
<1>. QED BY <1>3, <1>4, <1>5, <1>6 DEF OverlapInv

LEMMA OverlapNext == TypeInv /\ OverlapInv /\ [Next]_vars => OverlapInv'
<1>. SUFFICES ASSUME TypeInv, OverlapInv, [Next]_vars PROVE OverlapInv'
  OBVIOUS
<1>0. /\ RequestsOK /\ row \in Table
      /\ \A s \in Requests : req[s] \in Request /\ RequestOK(req[s])
  BY DEF TypeInv, RequestsOK
<1>1. ASSUME NEW r \in Requests, Begin(r) PROVE OverlapInv'
  <2>1. /\ \A s \in Requests : s # r => req'[s] = req[s]
        /\ req'[r].dels = {} /\ req'[r].at \in {"find", "get", "deleteMany"}
        /\ excused' = excused \cup (InUse \cap Scope(req'[r].op, req'[r].p))
    BY <1>0, <1>1, BeginOK
  <2>2. UNCHANGED <<row, cached, cachedGlobal>> /\ req[r].op = "none"
    BY <1>1 DEF Begin
  <2>3. req[r].dels = {}
    BY <1>0, <2>2 DEF RequestOK
  <2>4. ASSUME NEW s \in Requests, s # r
        PROVE  Scope(req[s].op, req[s].p) \cap Scope(req'[r].op, req'[r].p) \subseteq excused'
    BY <2>1 DEF InUse
  <2>5. ASSUME NEW s \in Requests, NEW t \in Requests, s # t
        PROVE  Scope(req'[s].op, req'[s].p) \cap Scope(req'[t].op, req'[t].p) \subseteq excused'
    <3>1. CASE s = r
      BY <2>1, <2>4, <2>5, <3>1
    <3>2. CASE t = r
      BY <2>1, <2>4, <2>5, <3>2
    <3>3. CASE s # r /\ t # r
      BY <2>1, <2>5, <3>3 DEF OverlapInv
    <3>. QED BY <3>1, <3>2, <3>3
  <2>. QED BY <2>1, <2>2, <2>3, <2>5, OverlapUndisturbed DEF Holds
<1>2. ASSUME NEW r \in Requests, FindExisting(r) PROVE OverlapInv'
  <2>1. UNCHANGED <<row, cached, cachedGlobal, excused>>
    BY <1>2 DEF FindExisting
  <2>2. /\ \A s \in Requests : s # r => req'[s] = req[s]
        /\ req'[r] = [req[r] EXCEPT !.at = "upsert", !.seen = row[req[r].p]]
    BY <1>0, <1>2, FindExistingOK
  <2>3. /\ req'[r].op = req[r].op /\ req'[r].p = req[r].p /\ req'[r].dels = req[r].dels
        /\ req'[r].at = "upsert"
    BY <1>0, <2>2 DEF Request
  <2>. QED BY <2>1, <2>2, <2>3, SharedStill, OverlapUndisturbed DEF Holds
<1>3. ASSUME NEW r \in Requests, Answer(r), req[r].at # "invalidate",
             UNCHANGED <<row, cached, cachedGlobal, excused>>
      PROVE  OverlapInv'
  <2>1. (\A s \in Requests : s # r => req'[s] = req[s]) /\ req'[r] = NoRequest
    BY <1>0, <1>3, AnswerOK
  <2>2. req'[r].dels = req[r].dels /\ req'[r].op = "none" /\ ~Holds(req'[r])
    BY <1>0, <1>3, <2>1 DEF RequestOK, NoRequest, Holds
  <2>. QED BY <1>3, <2>1, <2>2, SharedStill, OverlapUndisturbed
<1>4. ASSUME NEW r \in Requests, CacheResponse(r) PROVE OverlapInv'
  <2>1. /\ req[r].op \in {"update", "get"} /\ req[r].at = "cache" /\ Answer(r)
        /\ UNCHANGED <<row, cachedGlobal, excused>>
        /\ \/ cached' = [cached EXCEPT ![req[r].p] = [data |-> Response(req[r].seen), left |-> StatTTL]]
           \/ UNCHANGED cached
    BY <1>4 DEF CacheResponse
  <2>2. (\A s \in Requests : s # r => req'[s] = req[s]) /\ req'[r] = NoRequest
    BY <1>0, <2>1, AnswerOK
  <2>3. /\ req'[r].dels = {} /\ req[r].dels = {} /\ req'[r].op = "none" /\ ~Holds(req'[r])
    BY <1>0, <2>1, <2>2 DEF RequestOK, NoRequest, Holds
  <2>4. \A x : Forgets(x) => Forgets(x)'
    BY <2>2, <2>3 DEF Forgets
  <2>5. GlobalFigures' = GlobalFigures
    BY <2>1 DEF GlobalFigures
  <2>6. req[r].p \in excused \/ req[r].seen = row[req[r].p]
    BY <2>1 DEF OverlapInv, Holds
  <2>7. \A p \in Projects : cached'[p] # None =>
          cached'[p] = cached[p] \/ (p = req[r].p /\ cached'[p].data = Response(req[r].seen))
    BY <2>1 DEF TypeInv
  <2>8. ASSUME NEW p \in Projects, cached'[p] # None, row'[p] # None
        PROVE  p \in excused' \/ Forgets(p)' \/ cached'[p].data = Response(row'[p])
    <3>1. CASE cached'[p] = cached[p]
      BY <2>1, <2>4, <2>8, <3>1 DEF OverlapInv
    <3>2. CASE p = req[r].p /\ cached'[p].data = Response(req[r].seen)
      BY <2>1, <2>6, <3>2
    <3>. QED BY <2>7, <2>8, <3>1, <3>2
  <2>9. \A s, t \in Requests :
          s # t => Scope(req'[s].op, req'[s].p) \cap Scope(req'[t].op, req'[t].p) \subseteq excused'
    BY <2>1, <2>2, <2>3, SharedStill
  <2>10. \A s \in Requests : Holds(req'[s]) => req'[s].p \in excused' \/ req'[s].seen = row'[req'[s].p]
    BY <2>1, <2>2, <2>3 DEF OverlapInv
  <2>11. \A s \in Requests : req'[s].op = "global" /\ req'[s].at = "cache" =>
           "*" \in excused' \/ req'[s].seen = GlobalFigures'
    BY <2>1, <2>2, <2>3, <2>5 DEF OverlapInv
  <2>12. cachedGlobal' # None =>
           "*" \in excused' \/ Forgets("*")' \/ cachedGlobal'.data = GlobalFigures'
    BY <2>1, <2>4, <2>5 DEF OverlapInv
  <2>. QED BY <2>8, <2>9, <2>10, <2>11, <2>12 DEF OverlapInv
<1>5. ASSUME NEW r \in Requests, CacheMiss(r) PROVE OverlapInv'
  <2>1. UNCHANGED <<row, cached, cachedGlobal, excused>> /\ req[r].at = "get" /\ Goto(r, "load")
    BY <1>5 DEF CacheMiss
  <2>2. /\ \A s \in Requests : s # r => req'[s] = req[s]
        /\ req'[r] = [req[r] EXCEPT !.at = "load"]
    BY <1>0, <2>1, GotoOK
  <2>3. /\ req'[r].op = req[r].op /\ req'[r].p = req[r].p /\ req'[r].dels = req[r].dels
        /\ req'[r].at = "load"
    BY <1>0, <2>2 DEF Request
  <2>. QED BY <2>1, <2>2, <2>3, SharedStill, OverlapUndisturbed DEF Holds
<1>6. ASSUME NEW r \in Requests, FindByProjectId(r) PROVE OverlapInv'
  <2>1. UNCHANGED <<row, cached, cachedGlobal, excused>> /\ req[r].at = "load"
    BY <1>6 DEF FindByProjectId
  <2>2. CASE req'[r] = NoRequest
    <3>1. \A s \in Requests : s # r => req'[s] = req[s]
      BY <1>6, FindByProjectIdOK
    <3>2. req'[r].dels = req[r].dels /\ req'[r].op = "none" /\ ~Holds(req'[r])
      BY <1>0, <2>1, <2>2 DEF RequestOK, NoRequest, Holds
    <3>. QED BY <2>1, <3>1, <3>2, SharedStill, OverlapUndisturbed
  <2>3. CASE req'[r] = [req[r] EXCEPT !.at = "cache", !.seen = row[req[r].p]]
    <3>1. (\A s \in Requests : s # r => req'[s] = req[s]) /\ req[r].op = "get"
      BY <1>6, FindByProjectIdOK
    <3>2. /\ req'[r].op = req[r].op /\ req'[r].p = req[r].p /\ req'[r].dels = req[r].dels
          /\ req'[r].seen = row[req'[r].p]
      BY <1>0, <2>3 DEF Request
    <3>. QED BY <2>1, <3>1, <3>2, SharedStill, OverlapUndisturbed
  <2>. QED BY <1>6, <2>2, <2>3, FindByProjectIdOK
<1>7. ASSUME NEW r \in Requests, LoadGlobal(r) PROVE OverlapInv'
  <2>1. UNCHANGED <<row, cached, cachedGlobal, excused>>
    BY <1>7 DEF LoadGlobal
  <2>2. /\ \A s \in Requests : s # r => req'[s] = req[s]
        /\ req[r].op = "global" /\ req'[r] = [req[r] EXCEPT !.at = "cache", !.seen = GlobalFigures]
    BY <1>7, LoadGlobalOK
  <2>3. /\ req'[r].op = req[r].op /\ req'[r].p = req[r].p /\ req'[r].dels = req[r].dels
        /\ req'[r].seen = GlobalFigures
    BY <1>0, <2>2 DEF Request
  <2>4. ~Holds(req'[r])
    BY <2>2, <2>3 DEF Holds
  <2>. QED BY <2>1, <2>2, <2>3, <2>4, SharedStill, OverlapUndisturbed
<1>8. ASSUME NEW r \in Requests, CacheGlobal(r) PROVE OverlapInv'
  <2>1. /\ req[r].op = "global" /\ req[r].at = "cache" /\ Answer(r)
        /\ UNCHANGED <<row, cached, excused>>
        /\ \/ cachedGlobal' = [data |-> req[r].seen, left |-> GlobalTTL]
           \/ UNCHANGED cachedGlobal
    BY <1>8 DEF CacheGlobal
  <2>2. (\A s \in Requests : s # r => req'[s] = req[s]) /\ req'[r] = NoRequest
    BY <1>0, <2>1, AnswerOK
  <2>3. req'[r].dels = {} /\ req[r].dels = {} /\ req'[r].op = "none" /\ ~Holds(req'[r])
    BY <1>0, <2>1, <2>2 DEF RequestOK, NoRequest, Holds
  <2>4. \A x : Forgets(x) => Forgets(x)'
    BY <2>2, <2>3 DEF Forgets
  <2>5. GlobalFigures' = GlobalFigures
    BY <2>1 DEF GlobalFigures
  <2>6. \A s, t \in Requests :
          s # t => Scope(req'[s].op, req'[s].p) \cap Scope(req'[t].op, req'[t].p) \subseteq excused'
    BY <2>1, <2>2, <2>3, SharedStill
  <2>7. \A s \in Requests : Holds(req'[s]) => req'[s].p \in excused' \/ req'[s].seen = row'[req'[s].p]
    BY <2>1, <2>2, <2>3 DEF OverlapInv
  <2>8. \A s \in Requests : req'[s].op = "global" /\ req'[s].at = "cache" =>
          "*" \in excused' \/ req'[s].seen = GlobalFigures'
    BY <2>1, <2>2, <2>3, <2>5 DEF OverlapInv
  <2>9. \A p \in Projects : cached'[p] # None /\ row'[p] # None =>
          p \in excused' \/ Forgets(p)' \/ cached'[p].data = Response(row'[p])
    BY <2>1, <2>4 DEF OverlapInv
  <2>10. cachedGlobal' # None =>
           "*" \in excused' \/ Forgets("*")' \/ cachedGlobal'.data = GlobalFigures'
    BY <2>1, <2>4, <2>5 DEF OverlapInv
  <2>. QED BY <2>6, <2>7, <2>8, <2>9, <2>10 DEF OverlapInv
<1>9. CASE Age
  <2>1. /\ UNCHANGED <<row, req>> /\ cachedGlobal' = None /\ \A p \in Projects : cached'[p] = None
    BY <1>9 DEF Age
  <2>2. \A r \in Requests : req[r].op = "none" /\ req[r].at = "idle"
    BY <1>0, <1>9, QuietForm DEF Age
  <2>3. ASSUME NEW r \in Requests PROVE Scope(req'[r].op, req'[r].p) = {}
    <3>1. \A op : op = "none" => Scope(op, req[r].p) = {}
      BY ScopeForm
    <3>. QED BY <2>1, <2>2, <3>1
  <2>. QED BY <2>1, <2>2, <2>3 DEF OverlapInv, Holds
<1>10. CASE UNCHANGED <<row, cached, cachedGlobal, req, excused>>
  BY <1>10 DEF OverlapInv, Forgets, Holds, GlobalFigures
<1>11. /\ \A r \in Requests : QueryFails(r) \/ CacheHit(r) \/ CleanupAnswers(r) =>
            Answer(r) /\ req[r].at # "invalidate" /\ UNCHANGED <<row, cached, cachedGlobal, excused>>
       /\ (\E p \in Projects : Close(p)) \/ UNCHANGED vars =>
            UNCHANGED <<row, cached, cachedGlobal, req, excused>>
  BY DEF QueryFails, CacheHit, CleanupAnswers, Close, vars
<1>. QED
  BY <1>1, <1>2, <1>3, <1>4, <1>5, <1>6, <1>7, <1>8, <1>9, <1>10, <1>11, UpsertOverlap,
     DeleteOverlap, InvalidateOverlap, TickOverlap DEF Next

\* When no request is under way, a cached response is that of the row and the
\* cached global figures are those of the table, unless requests overlapped or a
\* deletion failed: each writer forgets what it made stale before it caches.
THEOREM FreshAfterSequence == Spec => []StaleOnlyAfterOverlap
<1>1. Init => OverlapInv
  <2>. SUFFICES ASSUME Init PROVE OverlapInv
    OBVIOUS
  <2>1. \A r \in Requests : req[r] = NoRequest
    BY DEF Init
  <2>2. ASSUME NEW r \in Requests PROVE Scope(req[r].op, req[r].p) = {}
    <3>1. \A op : op = "none" => Scope(op, req[r].p) = {}
      BY ScopeForm
    <3>. QED BY <2>1, <3>1 DEF NoRequest
  <2>. QED BY <2>1, <2>2 DEF Init, OverlapInv, Holds, NoRequest
<1>2. TypeInv /\ OverlapInv => StaleOnlyAfterOverlap
  <2>. SUFFICES ASSUME TypeInv, OverlapInv, Quiet
                PROVE  /\ \A p \in Projects \ excused :
                            cached[p] # None /\ row[p] # None => cached[p].data = Response(row[p])
                       /\ "*" \notin excused /\ cachedGlobal # None => cachedGlobal.data = GlobalFigures
    BY DEF StaleOnlyAfterOverlap
  <2>1. \A x : ~Forgets(x)
    BY QuietForm DEF TypeInv, Forgets
  <2>. QED BY <2>1 DEF OverlapInv
<1>. QED BY <1>1, <1>2, OverlapNext, TypeInvariant, PTL DEF Spec
=============================================================================
