---------------------------- MODULE MCManualCheck ----------------------------
(* The constants of ManualCheck for TLC.                                   *)
EXTENDS ManualCheck, TLC

\* Links are interchangeable, and so are requests and rechecks: no action or
\* property names one.
Interchangeable == Permutations(Links) \cup Permutations(Requests)
                   \cup Permutations(Rechecks)
=============================================================================
