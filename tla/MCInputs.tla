------------------------------- MODULE MCInputs -------------------------------
(***************************************************************************)
(* ProjectData and PageWalk, one after the other or in turns: they share   *)
(* no state, so that a behaviour is about one of them, and the other stays *)
(* as it was.                                                              *)
(***************************************************************************)
EXTENDS ProjectData, PageWalk

MCNames ==
  {Text(1, 1, "plain"), Text(100, 100, "plain"), Text(101, 101, "plain"), Text(120, 60, "accented"),
   Text(100, 50, "accented"), Text(0, 0, "plain")}
  \cup {Text(30, 30, f) : f \in {"null", "marks", "quote", "apostrophe", "markup", "scheme", "inWord",
                                 "handler", "call", "lines", "sql"}}
MCDescriptions ==
  {Text(0, 0, "plain"), Text(1000, 1000, "plain"), Text(1001, 1001, "plain"), Text(1200, 600, "accented")}
  \cup {Text(80, 80, f) : f \in {"null", "quote", "apostrophe", "markup", "handler", "call", "lines", "sql"}}
MCPrompts ==
  {Text(9, 9, "plain"), Text(10, 10, "plain"), Text(120, 120, "plain"), Text(5000, 5000, "plain"), Text(5001, 5001, "plain"),
   Text(5200, 2600, "accented"), Text(18, 9, "accented")}
  \cup {Text(60, 60, f) : f \in {"marks", "quote", "markup", "scheme", "inWord", "handler", "call", "lines"}}

File(n, form) == [id |-> n, form |-> form]
MCFileLists ==
  LET v4 == [n \in 1 .. 4 |-> File(n, "v4")] IN
  {<<>>, <<v4[1]>>, <<v4[2], v4[3]>>, <<v4[4], v4[1], v4[4]>>,
   <<v4[1], File(5, "uuid")>>, <<File(6, "legacy")>>, [n \in 1 .. 11 |-> File(n, "v4")]}

MCAges == {0, 1, 2, 7, 8, 30, 31}
MCLimits == {0, 1, 2, 9}

\* Both at rest.
Init == DataInit /\ WalkInit

\* The bounds: files are written to a row with an ordinary name and prompt, other
\* fields to a row without generated files, since no rule relates the two.
MaxFiles == 11
Bounded ==
  row # NoRow =>
    /\ request.op = "update" =>
         /\ row.generated = <<>>
         /\ request.name \in {OrdinaryName, Absent} \/ request.description = Absent
    /\ request.op = "updateGeneratedFiles" =>
         /\ row.name = OrdinaryName /\ row.prompt = OrdinaryPrompt /\ row.description = Absent
         /\ Len(row.generated) + Len(request.ids) <= MaxFiles

Next ==
  \/ walk = NotAsked /\ DataNext /\ Bounded' /\ UNCHANGED walkVars
  \/ row = NoRow /\ request = NoRequest /\ WalkNext /\ UNCHANGED dataVars

Spec == Init /\ [][Next]_<<dataVars, walkVars>>

=============================================================================
