------------------------ MODULE MCUpdateTransaction ------------------------
(* Two requests for two successive releases, and two workers.                *)
EXTENDS UpdateTransaction

CONSTANTS r1, r2
MCCandidate == [r \in Requests |-> IF r = r1 THEN 1 ELSE 2]

(* Overlapping scripts are followed for the first request alone.  No         *)
(* property promises anything after an overlap, so nothing is lost by it.    *)
Explored == overlap => request[r2] = None
=============================================================================
