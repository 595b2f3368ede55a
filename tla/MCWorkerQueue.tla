---------------------------- MODULE MCWorkerQueue ----------------------------
(* One state mutation, one commit - new or left by an older worker - and a  *)
(* recovery that sorts before both of them.  One request per cycle.         *)
EXTENDS WorkerQueue

MCOriginal(r) == 2
=============================================================================
