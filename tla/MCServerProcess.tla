--------------------------- MODULE MCServerProcess ---------------------------
(* Instances of ServerProcess for TLC: a process with a worker of each kind  *)
(* and one that runs its registrar alone.                                    *)
EXTENDS ServerProcess

CONSTANTS full, bare, registrar, sweeper, dispatcher

Configured == [s \in Server |-> IF s = full THEN Worker ELSE {registrar}]
=============================================================================
