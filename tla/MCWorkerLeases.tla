--------------------------- MODULE MCWorkerLeases ---------------------------
(* Small instances of WorkerLeases for TLC.                                *)
EXTENDS WorkerLeases

MCWorkers == 1 .. 3
MCSupervisors == 1 .. 6

=============================================================================
