----------------------------- MODULE ProjectData -----------------------------
(***************************************************************************)
(* The data of one project, from the requests that bring it to the views   *)
(* that show it.  A request passes the pipe (the decorators of its DTO),   *)
(* then the service's own validation, then the repository, which writes    *)
(* the row; the events carry figures the service calculates beside it.     *)
(* Requests come one at a time: ProjectService interleaves them.           *)
(***************************************************************************)
EXTENDS ProjectInputs, ProjectStatus, FiniteSets

CONSTANTS
  Names, Descriptions, Prompts,   \* texts that requests send
  FileLists,                      \* lists of file ids that requests send
  Ages,                           \* days since the creation
  NoRow

\* Every sequence is one over its own elements.
IsList(s) == s \in Seq({s[i] : i \in DOMAIN s})

ASSUME DataAssumption ==
  /\ Ages \subseteq Nat
  /\ \A ids \in FileLists : IsList(ids)
  /\ \A t \in Names \cup Descriptions \cup Prompts :
       /\ DOMAIN t = {"units", "chars", "has"} /\ Given(t)
       /\ t.units \in Nat /\ t.chars \in 0 .. t.units

VARIABLES
  row,       \* the project's row: NoRow before its creation
  request,   \* the request on its way, with the place it has reached
  total,     \* totalGeneratedFiles of the last project.files.updated
  refusedBy  \* who refused the last request, "" if nobody

dataVars == <<row, request, total, refusedBy>>

NoRequest == [op |-> "none", at |-> "none"]

DataInit ==
  row = NoRow /\ request = NoRequest /\ total = 0 /\ refusedBy = ""

\* A body that differs from an ordinary one in at most one field.
OrdinaryName == Text(20, 20, "plain")
OrdinaryPrompt == Text(60, 60, "plain")
Bodies ==
  {[name |-> n, description |-> Absent, prompt |-> OrdinaryPrompt, uploaded |-> <<>>] : n \in Names}
  \cup {[name |-> OrdinaryName, description |-> d, prompt |-> OrdinaryPrompt, uploaded |-> <<>>] :
          d \in Descriptions}
  \cup {[name |-> OrdinaryName, description |-> Absent, prompt |-> p, uploaded |-> <<>>] : p \in Prompts}
  \cup {[name |-> OrdinaryName, description |-> Absent, prompt |-> OrdinaryPrompt, uploaded |-> f] :
          f \in FileLists}

Send(r) == request' = r /\ refusedBy' = "" /\ UNCHANGED <<row, total>>

SendRequest ==
  /\ request = NoRequest
  /\ \/ row = NoRow /\ \E b \in Bodies :
          Send([op |-> "create", at |-> "pipe", name |-> b.name, description |-> b.description,
                prompt |-> b.prompt, uploaded |-> b.uploaded])
     \/ row # NoRow /\ \E n \in Names \cup {Absent}, d \in Descriptions \cup {Absent} :
          Send([op |-> "update", at |-> "pipe", name |-> TransformName(n),
                description |-> TransformDescription(d)])
     \/ row # NoRow /\ \E ids \in FileLists, mode \in {"append", "replace"} :
          Send([op |-> "updateGeneratedFiles", at |-> "pipe", ids |-> ids, mode |-> mode])

Pass(place) == request' = [request EXCEPT !.at = place] /\ UNCHANGED <<row, total, refusedBy>>
Refuse(place) == request' = NoRequest /\ refusedBy' = place /\ UNCHANGED <<row, total>>
Check(place, ok, next) ==
  request.at = place /\ (IF ok THEN Pass(next) ELSE Refuse(place))

\* ValidationPipe
Pipe ==
  Check("pipe",
        CASE request.op = "create" -> /\ DtoNameOk(request.name) /\ DtoDescriptionOk(request.description)
                                      /\ DtoPromptOk(request.prompt) /\ DtoFilesOk(request.uploaded)
          [] request.op = "update" -> UpdateNameOk(request.name) /\ UpdateDescriptionOk(request.description)
          [] request.op = "updateGeneratedFiles" ->
               Len(request.ids) <= 50 /\ Forms(request.ids) \subseteq {"v4"},
        "service")

\* validateCreateData and validateUpdateData of the service.
Service ==
  Check("service",
        CASE request.op = "create" -> CreateIsValid(request.name, request.prompt)
          [] request.op = "update" ->
               /\ HasValidUpdates(request.name, request.description)
               /\ UpdateIsValid(request.name, request.description) /\ IsModifiable(row.status)
          [] request.op = "updateGeneratedFiles" -> Forms(request.ids) \subseteq {"v4"},
        "repository")

\* The places of a request's ids that a list does not have, and those ids in order.
NewPlaces(files, ids) == {i \in DOMAIN ids : \A j \in DOMAIN files : files[j].id # ids[i].id}
NewIds(files, ids) ==
  LET places == NewPlaces(files, ids)
  IN [k \in 1 .. Cardinality(places) |->
        ids[CHOOSE i \in places : Cardinality({j \in places : j <= i}) = k]]

\* Mutant: the event counts every id of the request.
TotalOfEventAll(files, ids, mode) == IF mode = "append" THEN Len(files) + Len(ids) ELSE Len(ids)

\* How many files the event says the project has, from what the service read.
TotalOfEvent(files, ids, mode) ==
  IF mode = "append" THEN Len(files) + Cardinality(NewPlaces(files, ids)) ELSE Len(ids)

\* What the repository stores: an append adds the ids the row does not have.
Appended(files, ids) == files \o NewIds(files, ids)

Write(newRow, newTotal) ==
  row' = newRow /\ total' = newTotal /\ request' = NoRequest /\ UNCHANGED refusedBy

Repository ==
  LET r == request IN
  /\ r.at = "repository"
  /\ \/ /\ r.op = "create" /\ ValidateCreateData(r.name, r.description, r.prompt, r.uploaded)
        /\ Write([name |-> r.name, description |-> StoredDescription(r.description),
                  prompt |-> r.prompt, uploaded |-> r.uploaded, generated |-> <<>>,
                  status |-> "ACTIVE", statistics |-> FALSE], 0)
     \/ /\ r.op = "update" /\ ValidateUpdateData(r.name, r.description)
        /\ Write([row EXCEPT !.name = NewValue(@, r.name),
                             !.description = StoredDescription(NewValue(@, r.description))], total)
     \/ /\ r.op = "updateGeneratedFiles" /\ RepositoryFilesOk(r.ids)
        /\ Write([row EXCEPT !.generated = IF r.mode = "append" THEN Appended(@, r.ids) ELSE r.ids],
                 TotalOfEvent(row.generated, r.ids, r.mode))
     \/ /\ \/ r.op = "create" /\ ~ValidateCreateData(r.name, r.description, r.prompt, r.uploaded)
           \/ r.op = "update" /\ ~ValidateUpdateData(r.name, r.description)
           \/ r.op = "updateGeneratedFiles" /\ ~RepositoryFilesOk(r.ids)
        /\ Refuse("repository")

\* archive and delete, and a first update of the statistics.
Become(status) ==
  /\ request = NoRequest /\ row # NoRow /\ ValidStatusTransition(row.status, status)
  /\ row' = [row EXCEPT !.status = status] /\ UNCHANGED <<request, total, refusedBy>>
Measure ==
  /\ request = NoRequest /\ row # NoRow /\ ~row.statistics
  /\ row' = [row EXCEPT !.statistics = TRUE] /\ UNCHANGED <<request, total, refusedBy>>

DataNext ==
  \/ SendRequest \/ Pipe \/ Service \/ Repository
  \/ Become("ARCHIVED") \/ Become("DELETED") \/ Measure

DataSpec == DataInit /\ [][DataNext]_dataVars

-----------------------------------------------------------------------------
\* The views.

\* getActivityLevel, of the entity and of ProjectResponseDto.
ActivityLevel(generated, modified, age) ==
  CASE age <= 1 /\ generated = 0 -> "new"
    [] generated > 0 /\ modified /\ age <= 30 -> "active"
    [] generated > 0 /\ age > 30 -> "mature"
    [] OTHER -> "inactive"
\* getActivityIndicator of ProjectListItemDto.
ActivityIndicator(generated, modified, age) ==
  CASE age = 0 -> "nouveau"
    [] age \in 1 .. 7 /\ (generated > 0 \/ modified) -> "recent"
    [] age \in 1 .. 30 /\ generated > 0 /\ ~(age <= 7) -> "actif"
    [] OTHER -> "ancien"

\* The entity's and the response's estimate: stricter words than the create's.
ComplexityEstimate(t) ==
  CASE t.units < 50 /\ Words(t) < 10 -> "low"
    [] ~(t.units < 50 /\ Words(t) < 10) /\ t.units < 200 /\ Words(t) < 35 -> "medium"
    [] OTHER -> "high"

\* transformToResponseDto, of an entity read with its statistics.
Detail(r) ==
  [name |-> r.name, description |-> r.description, prompt |-> r.prompt, status |-> r.status,
   uploaded |-> r.uploaded, generated |-> r.generated, statistics |-> r.statistics]

\* transformToListItemDto: lists are read without the statistics.  The score
\* counts what the project has got.
ListItem(r) ==
  LET score == (IF r.uploaded # <<>> THEN 25 ELSE 0) + (IF r.generated # <<>> THEN 40 ELSE 0)
                 + (IF r.description # Absent THEN 10 ELSE 0)
  IN [name |-> r.name, description |-> r.description, status |-> r.status,
      uploadedFilesCount |-> Len(r.uploaded), generatedFilesCount |-> Len(r.generated),
      hasStatistics |-> FALSE, completionScore |-> score]

-----------------------------------------------------------------------------

\* What the pipe and the service let pass, the repository stores: it refuses
\* nothing but a text with few enough characters and too many UTF-16 units,
\* which UpdateProjectDto and the decorators of CreateProjectDto count another
\* way (update-project.dto.ts:33-56, project.repository.ts:1068-1148).  Nor does
\* it refuse what ValidationUtils would accept.
AcceptedIsStored ==
  LET r == request IN
  /\ r.at = "repository" /\ r.op = "create" =>
       \/ ValidateCreateData(r.name, r.description, r.prompt, r.uploaded)
       \/ Astral(r.description)
  /\ r.at = "repository" /\ r.op = "update" =>
       ValidateUpdateData(r.name, r.description) \/ Astral(r.name) \/ Astral(r.description)
  /\ r.at = "repository" /\ r.op = "updateGeneratedFiles" => RepositoryFilesOk(r.ids)
  /\ /\ r.op = "create" /\ Forms(r.uploaded) \subseteq {"v4"}
     /\ UtilsAccepts(r.name, r.description, r.prompt, r.uploaded)
     => ValidateCreateData(r.name, SanitizeDescription(r.description), r.prompt, r.uploaded)

\* Between them the checks leave nothing in a row that the entity's own rules
\* refuse, but for texts of marks alone, and no markup or scheme: each of them
\* alone lets some of it through (project.entity.ts:415-474).
StoredWithinLimits ==
  row # NoRow =>
    /\ EntityNameOk(row.name) \/ row.name.has = "marks"
    /\ EntityPromptOk(row.prompt) \/ row.prompt.has = "marks"
    /\ row.description.units <= 1000
    /\ {row.name.has, row.prompt.has, row.description.has} \cap {"markup", "scheme", "handler"} = {}

\* What a list calls "actif" or "ancien" is "active" or "mature" in the detail.
ActivityAgrees(files, modified, age) ==
  LET level == ActivityLevel(files, modified, age)
      indicator == ActivityIndicator(files, modified, age)
  IN /\ (indicator = "actif" /\ modified => level = "active")
     /\ (indicator = "ancien" /\ files > 0 => level = "mature")

\* A prompt that counted as complex when it came never counts as simple later.
ComplexityAgrees(t) ==
  /\ (PromptComplexity(t) # "low" => ComplexityEstimate(t) # "low")
  /\ (PromptComplexity(t) = "high" => ComplexityEstimate(t) = "high")

\* The event, the list and the detail count the same files.
FilesCounted ==
  LET files == ListItem(row).generatedFilesCount
  IN total = files /\ files = Len(Detail(row).generated)

\* The number of files in the event, in the list and in the detail is the same,
\* though three places count them; so is what the activity and the complexity
\* are called by the two DTOs that name them (project.service.ts:1016-1049,
\* project-list.dto.ts:338-347, project-response.dto.ts:351-385,
\* create-project.dto.ts:330-340).
ViewsAgree ==
  row # NoRow =>
    LET item == ListItem(row)
        files == item.generatedFilesCount
    IN /\ FilesCounted
       /\ \A modified \in BOOLEAN, age \in Ages : ActivityAgrees(files, modified, age)
       /\ ComplexityAgrees(row.prompt)
       /\ item.completionScore = 75 => files > 0 /\ row.uploaded # <<>>

=============================================================================
