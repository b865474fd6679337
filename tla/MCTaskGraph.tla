----------------------------- MODULE MCTaskGraph -----------------------------
(* An instance of TaskGraph for TLC: tasks and clients are interchangeable.  *)
EXTENDS TaskGraph, TLC

Interchangeable == Permutations(Task) \cup Permutations(Client)
=============================================================================
