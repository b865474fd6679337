---------------------------- MODULE MCExecWorker ----------------------------
(* Instances of ExecWorker for TLC: interchangeable workers of one task.     *)
EXTENDS ExecWorker, TLC

UpToTheLast == 0..(MaxTime + 7)

WorkerSymmetry == Permutations(Worker)
=============================================================================
