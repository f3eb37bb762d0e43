-------------------------- MODULE StatisticsFigures --------------------------
(***************************************************************************)
(* The figures of a project's statistics: what an update makes of a row,   *)
(* and what a response calculates from it.                                 *)
(*                                                                         *)
(* costs, performance and usage are functions from the fields present to   *)
(* numbers.  Money is in cents; a quotient or a percentage is the integer  *)
(* below it, which keeps every comparison with an integer bound.           *)
(***************************************************************************)
EXTENDS Naturals, Integers, FiniteSets

CostParts == {"claudeApi", "storage", "compute", "bandwidth"}
TimeParts == {"generationTime", "processingTime", "interviewTime", "exportTime", "queueWaitTime"}

\* field || 0
Val(f, x) == IF x \in DOMAIN f THEN f[x] ELSE 0

\* The parts of an update, and of a row.
PartNames == {"costs", "performance", "usage"}

\* { ...f, name: n }
With(f, name, n) == [x \in DOMAIN f \cup {name} |-> IF x = name THEN n ELSE f[x]]

CostSum(c) == Val(c, "claudeApi") + Val(c, "storage") + Val(c, "compute") + Val(c, "bandwidth")

TimeSum(p) == Val(p, "generationTime") + Val(p, "processingTime") + Val(p, "interviewTime")
                + Val(p, "exportTime") + Val(p, "queueWaitTime")

AtMost(n, m) == IF n < m THEN n ELSE m
NotNegative(n) == IF n < 0 THEN 0 ELSE n

-----------------------------------------------------------------------------
\* ProjectStatisticsEntity: merging an update.
\*
\* A part of an update is an instance of its DTO class, and such an instance has
\* every field of the class (ES2023 class fields), those that were not sent with
\* undefined.  So { ...this.costs, ...newCosts } overwrites every figure, and JSON
\* drops the undefined ones: a part that is sent replaces what the row had of it.
\* The breakdown and the bottlenecks are no fields of a DTO, and stay.

\* calculateCostBreakdown and recalculateCostBreakdown: the share of each part.
Shares(c, total) == [x \in CostParts |-> (Val(c, x) * 100) \div total]

\* mergeCosts: the total is the sum of the parts whatever the update says it is;
\* the breakdown stays as it was when the total becomes 0.
MergeCosts(e, new) ==
  LET total == CostSum(new)
  IN [e EXCEPT !.costs = With(new, "total", total),
               !.breakdown = IF total > 0 THEN Shares(new, total) ELSE @]

\* The bottlenecks the entity stores.
StoredBottlenecks(p) ==
  {b \in {"generation", "processing", "interview", "export", "queue_wait"} :
     CASE b = "generation" -> Val(p, "generationTime") > 60
       [] b = "processing" -> Val(p, "processingTime") > 30
       [] b = "interview"  -> Val(p, "interviewTime") > 300
       [] b = "export"     -> Val(p, "exportTime") > 20
       [] b = "queue_wait" -> Val(p, "queueWaitTime") > 10}

\* mergePerformance
MergePerformance(e, new) ==
  [e EXCEPT !.performance = With(new, "totalTime", TimeSum(new)),
            !.bottlenecks = StoredBottlenecks(new)]

\* mergeUsage: what it derives is derived again by every response.
MergeUsage(e, new) == [e EXCEPT !.usage = new]

NoEntity == [costs |-> <<>>, breakdown |-> <<>>, performance |-> <<>>,
             bottlenecks |-> {}, usage |-> <<>>]

\* An update is a function from the parts it has to their fields.
Part(new, x) == IF x \in DOMAIN new THEN new[x] ELSE <<>>
FirstRow(new) == [NoEntity EXCEPT !.costs = Part(new, "costs"),
                    !.performance = Part(new, "performance"), !.usage = Part(new, "usage")]

\* Mutant: every update replaces the row.
PrepareUpsertDataWhole(existing, exists, new) == FirstRow(new)

\* prepareUpsertData: the first update is stored as it comes, with a total or
\* without; the next are merged part by part, where an empty part counts.
PrepareUpsertData(existing, exists, new) ==
  IF ~exists THEN FirstRow(new)
  ELSE LET e1 == IF "costs" \in DOMAIN new THEN MergeCosts(existing, new.costs) ELSE existing
           e2 == IF "performance" \in DOMAIN new THEN MergePerformance(e1, new.performance) ELSE e1
       IN IF "usage" \in DOMAIN new THEN MergeUsage(e2, new.usage) ELSE e2

-----------------------------------------------------------------------------
\* What an entity says of its own data.

\* validateConsistency: the number of issues.  Negative figures the DTO refuses.
Issues(e) ==
  Cardinality({i \in {"exports", "costPerDocument"} :
    \/ /\ i = "exports"
       /\ Val(e.usage, "documentsGenerated") > 0
       /\ Val(e.usage, "exportCount") > Val(e.usage, "documentsGenerated")
    \/ /\ i = "costPerDocument"
       /\ Val(e.usage, "documentsGenerated") > 0 /\ Val(e.costs, "total") > 0
       /\ Val(e.costs, "costPerDocument") > 0
       /\ LET gap == Val(e.costs, "costPerDocument") * Val(e.usage, "documentsGenerated")
                       - Val(e.costs, "total")
          IN gap > Val(e.usage, "documentsGenerated")
               \/ gap < 0 - Val(e.usage, "documentsGenerated")})

\* calculateDataQualityScore; freshness is the minutes the update claimed.
QualityScore(e, freshness) ==
  NotNegative(100
    - (IF Val(e.costs, "total") = 0 /\ Val(e.costs, "claudeApi") = 0 THEN 20 ELSE 0)
    - (IF Val(e.performance, "totalTime") = 0 /\ Val(e.performance, "generationTime") = 0
       THEN 20 ELSE 0)
    - (IF Val(e.usage, "documentsGenerated") = 0 THEN 15 ELSE 0)
    - 5 * Issues(e)
    - (IF freshness > 60 THEN AtMost(20, (freshness * 5) \div 60) ELSE 0))

-----------------------------------------------------------------------------
\* StatisticsService: what a response calculates; 0 for undefined.

Docs(e) == Val(e.usage, "documentsGenerated")

CostPerDocument(e) == IF Docs(e) = 0 THEN 0 ELSE Val(e.costs, "total") \div Docs(e)
TokensPerDocument(e) ==      \* Math.round
  IF Docs(e) = 0 THEN 0 ELSE (2 * Val(e.usage, "tokensUsed") + Docs(e)) \div (2 * Docs(e))

\* Of a benchmark and a figure, both per document: 100 at the benchmark or below.
Against(benchmark, figure, docs) == AtMost(100, (benchmark * docs * 100) \div figure)

CostEfficiency(e) ==
  IF Docs(e) = 0 \/ Val(e.costs, "total") = 0 THEN 50
  ELSE Against(500, Val(e.costs, "total"), Docs(e))
PerformanceEfficiency(e) ==
  IF Docs(e) = 0 \/ Val(e.performance, "totalTime") = 0 THEN 50
  ELSE Against(120, Val(e.performance, "totalTime"), Docs(e))
UsageEfficiency(e) ==
  IF TokensPerDocument(e) = 0 THEN 50 ELSE Against(3000, TokensPerDocument(e), 1)

GlobalEfficiency(e) ==
  (CostEfficiency(e) + PerformanceEfficiency(e) + UsageEfficiency(e)) \div 3

OverallStatus(efficiency) ==
  CASE efficiency >= 90 -> "optimal" [] efficiency \in 70 .. 89 -> "good"
    [] OTHER -> "needs_attention"

\* calculateProcessingEfficiency: the share of the total that was not waiting.
ProcessingEfficiency(p) ==
  LET total == Val(p, "totalTime")
  IN IF total = 0 THEN 0 ELSE ((total - Val(p, "queueWaitTime")) * 100) \div total

ResourceUtilization(e) ==
  AtMost(100, 50 + (IF Docs(e) > 0 THEN 20 ELSE 0)
                 + (IF Val(e.usage, "tokensUsed") > 5000 THEN 15 ELSE 0)
                 + (IF Val(e.usage, "tokensUsed") > 10000 THEN 15 ELSE 0))

\* The breakdown of a response, of whatever total the row has.
ServedBreakdown(c) ==
  IF Val(c, "total") = 0 THEN [x \in CostParts |-> 0] ELSE Shares(c, c["total"])

\* The bottlenecks of a response: with other thresholds than the entity's.
ServedBottlenecks(p) ==
  {b \in {"queue_wait", "interview", "generation"} :
     CASE b = "queue_wait" -> Val(p, "queueWaitTime") > 10
       [] b = "interview"  -> Val(p, "interviewTime") > 300
       [] b = "generation" -> Val(p, "generationTime") > 120}

Benchmark(e) ==
  LET docs == IF Docs(e) = 0 THEN 1 ELSE Docs(e)
      perDoc == Val(e.performance, "totalTime") \div docs
  IN CASE perDoc < 60 -> "faster" [] perDoc \in 60 .. 119 -> "average" [] OTHER -> "slower"

Intensity(e) ==
  IF Val(e.usage, "tokensUsed") > 15000 \/ Docs(e) > 8 THEN "intensive"
  ELSE IF Val(e.usage, "tokensUsed") > 5000 \/ Docs(e) > 3 THEN "moderate" ELSE "light"

Recommendations(e) ==
  {r \in {"prompts", "apiCosts", "processing", "queue", "templates", "exports"} :
     CASE r = "prompts"    -> Docs(e) > 0 /\ Val(e.costs, "total") > 500 * Docs(e)
       [] r = "apiCosts"   -> Val(e.costs, "claudeApi") * 100 > 80 * Val(e.costs, "total")
                                /\ Val(e.costs, "total") > 0
       [] r = "processing" -> ProcessingEfficiency(e.performance) < 70
       [] r = "queue"      -> "queue_wait" \in ServedBottlenecks(e.performance)
       [] r = "templates"  -> TokensPerDocument(e) > 4000
       [] r = "exports"    -> Val(e.usage, "exportCount") = 0}

\* calculateDataCompleteness and identifyMissingFields: a field that is present
\* with 0 counts as complete for one and as missing for the other.
Completeness(e) ==
  (IF "total" \in DOMAIN e.costs THEN 25 ELSE 0)
    + (IF "totalTime" \in DOMAIN e.performance THEN 25 ELSE 0)
    + (IF "documentsGenerated" \in DOMAIN e.usage THEN 25 ELSE 0)
    + (IF "tokensUsed" \in DOMAIN e.usage THEN 15 ELSE 0)
    + (IF "claudeApi" \in DOMAIN e.costs THEN 10 ELSE 0)
MissingFields(e) ==
  {f \in {"costs.total", "performance.totalTime", "usage.documentsGenerated"} :
     CASE f = "costs.total"           -> Val(e.costs, "total") = 0
       [] f = "performance.totalTime" -> Val(e.performance, "totalTime") = 0
       [] f = "usage.documentsGenerated" -> Docs(e) = 0}

\* entityToResponseDto
Response(e) ==
  [costs |-> e.costs, costPerDocument |-> CostPerDocument(e), breakdown |-> ServedBreakdown(e.costs),
   performance |-> e.performance, processingEfficiency |-> ProcessingEfficiency(e.performance),
   resourceUtilization |-> ResourceUtilization(e),
   bottlenecks |-> ServedBottlenecks(e.performance), benchmark |-> Benchmark(e),
   usage |-> e.usage, tokensPerDocument |-> TokensPerDocument(e), resourceIntensity |-> Intensity(e),
   efficiency |-> GlobalEfficiency(e), status |-> OverallStatus(GlobalEfficiency(e)),
   recommendations |-> Recommendations(e),
   completeness |-> Completeness(e), missingFields |-> MissingFields(e)]

-----------------------------------------------------------------------------
\* UpdateStatisticsDto.isValid: the controller refuses what is not (the service
\* itself would log the errors and go on).

CostsCoherent(c) == Val(c, "total") # 0 => c["total"] - CostSum(c) \in -1 .. 1
PerformanceCoherent(p) == Val(p, "totalTime") # 0 => p["totalTime"] >= TimeSum(p)
UsageCoherent(u) ==
  /\ Val(u, "documentsGenerated") > 0 /\ Val(u, "filesProcessed") > 0 =>
       Val(u, "documentsGenerated") <= Val(u, "filesProcessed") + 10
  /\ Val(u, "documentsGenerated") > 0 => Val(u, "exportCount") <= Val(u, "documentsGenerated")
IsCoherent(new) ==
  /\ CostsCoherent(Part(new, "costs")) /\ PerformanceCoherent(Part(new, "performance"))
  /\ UsageCoherent(Part(new, "usage"))

=============================================================================
