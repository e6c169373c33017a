---------------------------- MODULE MCReportJobs ----------------------------
(* One report and the invocations that may write it.                       *)
EXTENDS ReportJobs, TLC

Symmetric == Permutations(Workers)
=============================================================================
