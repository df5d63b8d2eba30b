---------------------------- MODULE MCReportDocument ----------------------------
(* Small instances of ReportDocument for TLC.                                *)
EXTENDS ReportDocument, TLC

(* Bounds: two requests or fetches are under way or have failed at a time,   *)
(* and a run ends once a document is shown under another report.             *)
MaxInFlight == 2

Bounds ==
  /\ ~ lateBind
  /\ Cardinality({r \in Report : fetch[r] # None}) + Cardinality(failed)
       + Cardinality({c \in Call : calls[c] # None}) <= MaxInFlight

Interchangeable == Permutations(Report) \cup Permutations(Call)
=============================================================================
