--------------------------- MODULE MCSpotManager ---------------------------
(***************************************************************************)
(* SpotManager for TLC: two spots; a request for both, one for the second, *)
(* one that clears, one that is empty or lacks its keys, one whose only    *)
(* element is broken.                                                      *)
(***************************************************************************)
EXTENDS SpotManager

Elem(i, w) == [id |-> i, whole |-> w]

MCRequests == {
    [count |-> 4, elems |-> <<Elem(1, TRUE), Elem(2, TRUE)>>],
    [count |-> 0, elems |-> <<Elem(2, TRUE)>>],
    [count |-> 4, elems |-> <<>>],
    [count |-> Missing, elems |-> <<>>],
    [count |-> 4, elems |-> <<Elem(2, FALSE)>>]}
=============================================================================
