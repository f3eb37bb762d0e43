---------------------------- MODULE ProjectInputs ----------------------------
(***************************************************************************)
(* The rules that the texts and file ids of a project meet on their way    *)
(* in: the two DTOs with their isValid methods, the repository, the entity *)
(* and ValidationUtils, which say five times what a valid name is.         *)
(*                                                                         *)
(* A text is what is left of it after trimming: [units, chars, has], its   *)
(* length in UTF-16 units and in characters, and the one thing in it that  *)
(* some rule looks for:                                                    *)
(*   plain      letters, digits, blanks, hyphens and underscores           *)
(*   accented   a letter or a mark outside ASCII                           *)
(*   marks      nothing but dots                                           *)
(*   quote      one of > " $ { } \ alone                                   *)
(*   apostrophe one of < ' & ; | ` alone                                   *)
(*   markup     <tag>                                                      *)
(*   scheme     javascript:                                                *)
(*   inWord     a scheme that ends a longer word, as in "Metadata:"        *)
(*   handler    a word in "on" and an equals sign, as in "Ontology ="      *)
(*   call       eval( or expression(                                       *)
(*   lines      a line break                                               *)
(*   sql        ; DROP TABLE                                               *)
(* A list of file ids is a sequence of [id, form], form one of "v4",       *)
(* "uuid" (another version), "legacy" (8 to 50 letters, digits, - and _).  *)
(***************************************************************************)
EXTENDS Naturals, Sequences

Text(units, chars, has) == [units |-> units, chars |-> chars, has |-> has]
Absent == [units |-> 0, chars |-> 0, has |-> "absent"]   \* undefined
Given(t) == t.has # "absent"
Empty == Text(0, 0, "plain")

\* Characters beyond the basic plane take two units.
Astral(t) == t.chars < t.units

Forms(ids) == {ids[i].form : i \in DOMAIN ids}
Distinct(ids) == \A i, j \in DOMAIN ids : ids[i].id = ids[j].id => i = j

\* The lengths that each set of rules repeats, in a unit of its own.
NameLength == 1 .. 100
PromptLength == 10 .. 5000

-----------------------------------------------------------------------------
\* CreateProjectDto: its decorators, as the pipe applies them.  @Length counts
\* a surrogate pair once, and a `.' of a pattern without flag s ends at a break.

DtoNameOk(t) ==
  t.chars \in NameLength /\ t.has \notin {"absent", "quote", "apostrophe", "markup", "scheme",
                                            "inWord", "lines", "sql"}
\* An empty description is one that is not given.
DtoDescriptionOk(t) ==
  Given(t) => t.chars <= 1000 /\ t.has \notin {"markup", "scheme", "handler"}
DtoPromptOk(t) ==
  t.chars \in PromptLength /\ t.has \notin {"absent", "markup", "scheme", "inWord", "handler",
                                              "call", "lines"}
DtoFilesOk(ids) == Len(ids) <= 10 /\ Forms(ids) \subseteq {"v4"}

\* CreateProjectDto.isValid, which the service calls: other patterns, UTF-16 units.
Dangerous == {"markup", "scheme", "handler", "call"}
CreateIsValid(name, prompt) ==
  /\ name.units \in NameLength /\ name.has \notin Dangerous
  /\ prompt.units \in PromptLength /\ prompt.has \notin Dangerous

\* getPromptComplexity, with the words of a text of blanks every six units.
Words(t) == (t.units \div 6) + 1
PromptComplexity(t) ==
  CASE t.units < 100 \/ Words(t) < 15 -> "low"
    [] ~(t.units < 100 \/ Words(t) < 15) /\ (t.units < 300 \/ Words(t) < 50) -> "medium"
    [] OTHER -> "high"

-----------------------------------------------------------------------------
\* UpdateProjectDto: null is "no change" for a name and "" for a description.

TransformName(t) == IF t.has = "null" THEN Absent ELSE t
TransformDescription(t) == IF t.has = "null" THEN Empty ELSE t
HasValidUpdates(name, description) == Given(name) \/ Given(description)

\* UnicodeLengthConstraint counts graphemes.
UpdateNameOk(t) ==
  Given(t) => t.chars \in NameLength /\ t.has \notin {"apostrophe", "markup", "scheme", "handler", "sql"}
UpdateDescriptionOk(t) ==
  Given(t) => t.chars <= 1000 /\ t.has \notin {"markup", "scheme", "handler", "sql"}
\* UpdateProjectDto.isValid repeats them.
UpdateIsValid(name, description) == UpdateNameOk(name) /\ UpdateDescriptionOk(description)

\* getDefinedFields and the repository's trim() || null: what the row gets.
NewValue(old, t) == IF Given(t) THEN t ELSE old
StoredDescription(t) == IF t.units = 0 THEN Absent ELSE t

-----------------------------------------------------------------------------
\* ProjectRepository: validateCreateData and validateUpdateData.

\* Mutants: the limit itself is refused; the repository counts characters.
RepositoryNameOkBelow(t) == t.units \in 1 .. 99
RepositoryNameOkInChars(t) == t.chars \in NameLength
RepositoryNameOk(t) == t.units \in NameLength
RepositoryFilesOk(ids) == Forms(ids) \subseteq {"v4"}
ValidateCreateData(name, description, prompt, uploaded) ==
  /\ RepositoryNameOk(name) /\ prompt.units \in PromptLength /\ description.units <= 1000
  /\ RepositoryFilesOk(uploaded)
ValidateUpdateData(name, description) ==
  (Given(name) => RepositoryNameOk(name)) /\ description.units <= 1000

-----------------------------------------------------------------------------
\* ProjectEntity: the rules of its static methods.

EntityNameOk(t) == t.units \in NameLength /\ t.has # "marks"
EntityPromptOk(t) == t.units \in PromptLength /\ t.has # "marks"

-----------------------------------------------------------------------------
\* ValidationUtils, which no component calls.

UtilsNameOk(t) == t.units \in NameLength /\ t.has \in {"plain", "lines"}
UtilsPromptOk(t) == t.units \in PromptLength
\* sanitizeDescription drops tags and handlers and cuts what is too long; what
\* is left may still hold a quote, which isValidDescription refuses.
SanitizeDescription(t) ==
  LET text == IF t.has \in {"markup", "handler"} THEN [t EXCEPT !.has = "plain"] ELSE t
  IN IF text.units > 1000 THEN [text EXCEPT !.units = 1000, !.chars = 1000] ELSE text
UtilsDescriptionOk(t) == t.units <= 1000 /\ t.has \notin {"quote", "apostrophe", "markup", "sql"}
UtilsFilesOk(ids) == Len(ids) <= 50 /\ Distinct(ids) /\ Forms(ids) \subseteq {"v4", "legacy"}
\* validateAndSanitizeInput
UtilsAccepts(name, description, prompt, uploaded) ==
  /\ Given(name) => UtilsNameOk(name)
  /\ Given(description) => UtilsDescriptionOk(SanitizeDescription(description))
  /\ Given(prompt) => UtilsPromptOk(prompt)
  /\ UtilsFilesOk(uploaded)

=============================================================================
