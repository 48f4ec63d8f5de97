--------------------------- MODULE MCSheetsSchedule ---------------------------
(* The constants of SheetsSchedule for TLC.                                *)
EXTENDS SheetsSchedule, TLC

\* Tasks, browsers and presets are interchangeable: no action or property names one.
Interchangeable ==
    Permutations(Tasks) \cup Permutations(Browsers) \cup Permutations(Presets)
=============================================================================
