-------------------------- MODULE MCExportPipeline --------------------------
(***************************************************************************)
(* ExportPipeline for TLC: files of every nature, in two batches; one call *)
(* that may have to queue, for a file that fails now and then.             *)
(***************************************************************************)
EXTENDS ExportPipeline

MCExports == {"e1", "e2"}

\* 1 and 2 arrive, 2 is large; 3 is flaky, 4 is missing, 5 empty, 6 garbled, 7 has
\* an id of version 1.
MCNature == <<"ok", "ok", "flaky", "missing", "empty", "garbled", "ok">>
MCSize == <<1, 30, 1, 1, 0, 1, 1>>
MCV4 == 1 .. 6
MCProjectFiles == <<1, 7, 7>>
MCOptions(format, ids, pdf) ==
  [format |-> format, fileIds |-> ids, metadata |-> TRUE, pdfOptions |-> pdf]
MCAsked ==
  {MCOptions("markdown", ids, None) :
     ids \in {None, <<3>>, <<4, 1, 6>>, <<5>>, <<7>>, [i \in 1 .. MAX_COUNT + 1 |-> 1]}}
    \cup {MCOptions("pdf", <<1>>, pdf) : pdf \in {None, "invalid"}}
    \cup {MCOptions("pdf", <<2>>, "Letter")}
MCQueueing == {<<"e2", "u1", MCOptions("markdown", <<3>>, None)>>}
=============================================================================
