----------------------------- MODULE MCLocalTrain -----------------------------
(***************************************************************************)
(* Small values for LocalTrain.                                            *)
(***************************************************************************)
EXTENDS LocalTrain, MCPlans

SmallIds == 1 .. 4

Listed(i) == [id |-> i, kind |-> "eligible"]

\* Two orders, a repeated id, one repeated after it left the heap, a row that is
\* not eligible before one that is, an evaluation image, a malformed row, too few.
SmallMetadata ==
    {<<Listed(3), Listed(2), Listed(1)>>,
     <<Listed(1), Listed(2), Listed(3)>>,
     <<Listed(2), Listed(1), Listed(2)>>,
     <<Listed(3), Listed(2), Listed(1), Listed(3)>>,
     <<[id |-> 2, kind |-> "ineligible"], Listed(2), Listed(3)>>,
     <<Listed(4), Listed(2), Listed(3)>>,
     <<Listed(1), [id |-> 2, kind |-> "malformed"], Listed(3)>>,
     <<Listed(1)>>}

Symmetric == Permutations(Runs)
================================================================================
