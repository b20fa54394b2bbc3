--------------------------- MODULE MCAnalyseScreen ---------------------------
(***************************************************************************)
(* AnalyseScreen with three Strategies, the empty one among them, and      *)
(* three edits between two openings of the page: enough for two edits to   *)
(* fall inside one request and a third inside the next.                    *)
(***************************************************************************)
EXTENDS AnalyseScreen

CONSTANTS empty, one, two

MCStrategies == {empty, one, two}
==============================================================================
