--------------------------- MODULE MCStateLedger ---------------------------
(* The journaled ledger on a small instance: one task, one effect whose id  *)
(* also arrives with other content, and progress reports that race for the  *)
(* same revision.                                                           *)
EXTENDS StateLedger, TLC

CONSTANTS c1, c2, t1, i1, i2, i3, i4

MCRequests ==
    {[id |-> i1, op |-> "begin",    task |-> t1, expected |-> 0, expires |-> 2],
     [id |-> i2, op |-> "progress", task |-> t1, expected |-> 1, expires |-> 1],
     [id |-> i3, op |-> "progress", task |-> t1, expected |-> 1, expires |-> 1],
     [id |-> i4, op |-> "effect",   task |-> t1, expected |-> 0, expires |-> 2],
     [id |-> i4, op |-> "effect",   task |-> t1, expected |-> 1, expires |-> 1]}

CallerSymmetry == Permutations(Callers)
=============================================================================
