------------------------------ MODULE MCCrawler ------------------------------
(* The constants of Crawler for TLC: calls to one host, all in one worker   *)
(* process or each in its own.                                             *)
EXTENDS Crawler, TLC

OneHost == [c \in Calls |-> CHOOSE h \in Hosts : TRUE]
Together == [c \in Calls |-> CHOOSE w \in Workers : TRUE]
\* The process of a call goes by the call's name.
Apart == [c \in Calls |-> c]

\* Calls to one host are interchangeable, with their processes.
Interchangeable == Permutations(Calls)
=============================================================================
