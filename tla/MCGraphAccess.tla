------------------------------ MODULE MCGraphAccess ------------------------------
(***************************************************************************)
(* Graph access small enough for TLC.  A unit of time is two minutes or    *)
(* more: the longest delay, and the margin.                               *)
(***************************************************************************)
EXTENDS GraphAccess

\* A past date, now, the longest delay that is honoured, and an hour.
HostileAdvice == {-1, 0, 1, 30}

\* Pages in a row, one more than are read; and two that lead to each other for ever.
SampleChains ==
    {[p \in Pages |-> IF p = 4 THEN NoPage ELSE p + 1],
     [p \in Pages |-> IF p = 2 THEN 3 ELSE 2]}
==================================================================================
