---------------------------- MODULE MCWorkerInstall ----------------------------
(* Instances of WorkerInstall for TLC. *)
EXTENDS WorkerInstall

CONSTANTS o1, o2, n1, n2
===============================================================================
