---------------------------- MODULE MCWorkerJobs ----------------------------
(***************************************************************************)
(* Small instances of WorkerJobs.                                          *)
(***************************************************************************)
EXTENDS WorkerJobs, TLC

MCSchemas == {"s1", "s2"}

\* Jobs are interchangeable in the runs without a liveness property.
JobSymmetry == Permutations(Jobs)

=============================================================================
