---------------------------- MODULE MCProjectPage ----------------------------
(* The constants of ProjectPage for TLC: every check finds a good page.    *)
EXTENDS ProjectPage

MCOutcomes == {[status |-> "DONE", indexable |-> TRUE]}
=============================================================================
