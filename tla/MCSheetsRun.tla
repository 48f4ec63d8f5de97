----------------------------- MODULE MCSheetsRun -----------------------------
(* The constants of SheetsRun for TLC.                                     *)
EXTENDS SheetsRun, TLC

\* Jobs are interchangeable, and so are tasks: no action or property names one.
Interchangeable == Permutations(Jobs) \cup Permutations(Tasks)
=============================================================================
