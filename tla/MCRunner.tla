------------------------------ MODULE MCRunner ------------------------------
(***************************************************************************)
(* Two inputs and two workers: enough for a job to be done by another      *)
(* worker, or by the same worker in a later run, than the one that left    *)
(* its output.                                                             *)
(***************************************************************************)
EXTENDS ParallelRunner

CONSTANTS i1, i2, w1, w2

MCInputs == {i1, i2}
MCWorkers == {w1, w2}
=============================================================================
