------------------------- MODULE MCQuestionPipeline -------------------------
(* Constants of QuestionPipeline for TLC.                                  *)
EXTENDS QuestionPipeline
CONSTANTS plain, corrected, drop, cast
\* Of drop and cast HeavyDB itself would accept both.
MCSchemas == {s \cup {drop, cast} : s \in SUBSET {plain, corrected}}
MCRewrites == {<<plain, corrected>>}
=============================================================================
