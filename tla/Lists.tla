--------------------------------- MODULE Lists ---------------------------------
(***************************************************************************)
(* JavaScript's filter, for the lists of the web client and of the API.    *)
(* What is kept is given as a set, not as a predicate, and the recursion   *)
(* is a function's, so that ListsProofs can say what it returns.           *)
(***************************************************************************)
EXTENDS Naturals, Sequences

\* The elements of s that are in S, in their order.
Kept(s, S) ==
    LET kept[n \in 0..Len(s)] ==
            IF n = 0 THEN <<>>
            ELSE IF s[n] \in S THEN Append(kept[n - 1], s[n]) ELSE kept[n - 1]
    IN kept[Len(s)]
=============================================================================
