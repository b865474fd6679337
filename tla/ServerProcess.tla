---------------------------- MODULE ServerProcess ----------------------------
(***************************************************************************)
(* Server processes over one database: the background workers each one     *)
(* supervises, its shutdown, and its row in the registry of servers.       *)
(*                                                                         *)
(* A process lives once: it takes a fresh identifier when it is built and  *)
(* ends by returning from Serve or by being killed.  Time passes in beats, *)
(* the interval at which the registrar refreshes its row.                  *)
(***************************************************************************)
EXTENDS Naturals, FiniteSets

CONSTANTS
  Server,      \* processes
  Worker,      \* the background workers there are
  Registrar,   \* the one that keeps the row
  Staff,       \* the workers a process is configured to run
  Prearmed,    \* the workers whose ticker the constructor makes, not Run
  Stale,       \* beats after which a reader calls a row's process gone
  Forget,      \* beats after which a registration deletes a row
  MaxFaults    \* bound on panics, failed writes and listeners, lost rows

ASSUME WorkerAssumption == Registrar \in Worker /\ Prearmed \subseteq Worker \ {Registrar}
ASSUME StaffAssumption == Staff \in [Server -> SUBSET Worker]
ASSUME AgeAssumption == Stale \in Nat /\ Forget \in Nat /\ Stale <= Forget
ASSUME FaultAssumption == MaxFaults \in Nat

VARIABLES
  main,        \* per process, where its main goroutine is
  cancelled,   \* per process, its context has ended
  pc,          \* per process and worker, where the worker is
  armed,       \* per process and worker, its ticker will fire
  registered,  \* per process, its registrar believes its row is there
  row,         \* per process, the age of its row, in beats, or Absent
  left,        \* per process, its row stays behind: the last attempt to remove it
               \* failed, or a panic came before the removal was deferred
  faults       \* how many of those there were

registry == <<registered, row, left>>
vars == <<main, cancelled, pc, armed, registered, row, left, faults>>

-----------------------------------------------------------------------------

Absent == Forget + 2
Age == 0 .. Forget + 1    \* Forget + 1 stands for every greater age

Main == {"new", "serving", "waiting", "returned", "killed"}

\* "starting" is the registrar's first registration, before its loop; it
\* removes its row "leaving" when it ends and "falling" when it panicked.
Place == {"starting", "waiting", "working", "leaving", "falling", "resting", "ended"}

TypeOK ==
  /\ main \in [Server -> Main]
  /\ cancelled \in [Server -> BOOLEAN]
  /\ pc \in [Server -> [Worker -> Place]]
  /\ armed \in [Server -> [Worker -> BOOLEAN]]
  /\ registered \in [Server -> BOOLEAN]
  /\ row \in [Server -> Age \cup {Absent}]
  /\ left \in [Server -> BOOLEAN]
  /\ faults \in 0 .. MaxFaults

Init ==
  /\ main = [s \in Server |-> "new"]
  /\ cancelled = [s \in Server |-> FALSE]
  /\ pc = [s \in Server |-> [w \in Worker |-> "ended"]]
  /\ armed = [s \in Server |-> [w \in Worker |-> FALSE]]
  /\ registered = [s \in Server |-> FALSE]
  /\ row = [s \in Server |-> Absent]
  /\ left = [s \in Server |-> FALSE]
  /\ faults = 0

Alive(s) == main[s] \in {"serving", "waiting"}
Running(s) == main[s] = "serving" /\ ~cancelled[s]
Listed(s) == row[s] <= Stale

At(s, w, place) == pc[s][w] = place /\ Alive(s)
Goes(s, w, place) == pc' = [pc EXCEPT ![s][w] = place]
Arms(s, w, on) == armed' = [armed EXCEPT ![s][w] = on]
Fault == faults < MaxFaults /\ faults' = faults + 1

\* A write fails when the database does, or with the context it was given.
WriteFails(s) == Fault \/ (cancelled[s] /\ UNCHANGED faults)

-----------------------------------------------------------------------------
(* A worker and its supervisor *)

\* Run begins.  The ticker of a prearmed worker is as its last Run left it.
Entered(s, w) ==
  IF w = Registrar THEN Goes(s, w, "starting") /\ UNCHANGED armed
  ELSE Goes(s, w, "waiting") /\ Arms(s, w, armed[s][w] \/ w \notin Prearmed)

\* The tick of a ticker that was stopped never comes.
Fire(s, w) ==
  /\ At(s, w, "waiting") /\ armed[s][w]
  /\ Goes(s, w, "working")
  /\ UNCHANGED <<main, cancelled, armed, registry, faults>>

\* A pass ends; one that failed is reported, and the loop goes on.
Pass(s, w) ==
  /\ At(s, w, "working") /\ w # Registrar
  /\ Goes(s, w, "waiting")
  /\ UNCHANGED <<main, cancelled, armed, registry, faults>>

\* Mutant of Recovered: a worker that panicked is gone.
RecoveredAndGone == "ended"

Recovered == "resting"

\* One transaction: rows nobody has refreshed for long go, and the own row is
\* replaced.
Written(s) ==
  row' = [t \in Server |-> IF t = s THEN 0 ELSE IF row[t] > Forget THEN Absent ELSE row[t]]

\* What a pass that panics has done to the registry: nothing, or it has
\* registered.  The removal is deferred once the first registration has returned.
HalfDone(s, w) ==
  \/ UNCHANGED registry
  \/ /\ w = Registrar /\ (pc[s][w] = "starting" \/ ~registered[s])
     /\ Written(s)
     /\ left' = [left EXCEPT ![s] = @ \/ pc[s][w] = "starting"]
     /\ UNCHANGED registered

\* A panic unwinds Run: its deferred calls stop the ticker, and the registrar,
\* once in its loop, removes its row.  The supervisor recovers it.
Panic(s, w) ==
  /\ At(s, w, "working") \/ At(s, w, "starting")
  /\ Fault
  /\ Goes(s, w, IF w = Registrar /\ pc[s][w] = "working" THEN "falling" ELSE Recovered)
  /\ Arms(s, w, FALSE)
  /\ HalfDone(s, w)
  /\ UNCHANGED <<main, cancelled>>

\* The supervisor waits a moment and runs the worker again.
Restart(s, w) ==
  /\ At(s, w, "resting")
  /\ Entered(s, w)
  /\ UNCHANGED <<main, cancelled, registry, faults>>

GiveUp(s, w) ==
  /\ At(s, w, "resting") /\ cancelled[s]
  /\ Goes(s, w, "ended")
  /\ UNCHANGED <<main, cancelled, armed, registry, faults>>

\* Mutant of Leave: the loop looks at its context after a tick only.
LeaveOnTick(s, w) ==
  /\ At(s, w, "waiting") /\ cancelled[s] /\ armed[s][w]
  /\ Goes(s, w, IF w = Registrar THEN "leaving" ELSE "ended")
  /\ Arms(s, w, FALSE)
  /\ UNCHANGED <<main, cancelled, registry, faults>>

\* Run returns because the context ended.
Leave(s, w) ==
  /\ At(s, w, "waiting") /\ cancelled[s]
  /\ Goes(s, w, IF w = Registrar THEN "leaving" ELSE "ended")
  /\ Arms(s, w, FALSE)
  /\ UNCHANGED <<main, cancelled, registry, faults>>

-----------------------------------------------------------------------------
(* The registrar *)

Register(s) ==
  /\ Written(s)
  /\ registered' = [registered EXCEPT ![s] = TRUE]
  /\ UNCHANGED <<left, faults>>

\* The answer to a commit may be what was lost.
RegisterFails(s) ==
  /\ WriteFails(s)
  /\ registered' = [registered EXCEPT ![s] = FALSE]
  /\ Written(s) \/ UNCHANGED row
  /\ UNCHANGED left

\* Mutant of Missing: a beat that matches no row is taken for one that did.
MissingIsFine(s) == UNCHANGED registered

\* A beat that matches no row says so, and the next tick registers again.
Missing(s) == registered' = [registered EXCEPT ![s] = FALSE]

Beat(s) ==
  /\ IF row[s] = Absent THEN Missing(s) /\ UNCHANGED row
     ELSE row' = [row EXCEPT ![s] = 0] /\ UNCHANGED registered
  /\ UNCHANGED <<left, faults>>

BeatFails(s) == WriteFails(s) /\ UNCHANGED registry

\* The first registration, which the loop follows whether it succeeds or not.
Start(s) ==
  /\ At(s, Registrar, "starting")
  /\ Register(s) \/ RegisterFails(s)
  /\ Goes(s, Registrar, "waiting") /\ Arms(s, Registrar, TRUE)
  /\ UNCHANGED <<main, cancelled>>

Refresh(s) ==
  /\ At(s, Registrar, "working")
  /\ \/ registered[s] /\ (Beat(s) \/ BeatFails(s))
     \/ ~registered[s] /\ (Register(s) \/ RegisterFails(s))
  /\ Goes(s, Registrar, "waiting")
  /\ UNCHANGED <<main, cancelled, armed>>

\* removeOnStop, deferred by Run, in a context of its own.
RemoveOnStop(s) ==
  /\ At(s, Registrar, "leaving") \/ At(s, Registrar, "falling")
  /\ \/ /\ row' = [row EXCEPT ![s] = Absent] /\ left' = [left EXCEPT ![s] = FALSE]
        /\ UNCHANGED faults
     \/ /\ Fault
        /\ left' = [left EXCEPT ![s] = TRUE] /\ UNCHANGED row
  /\ Goes(s, Registrar, IF pc[s][Registrar] = "leaving" THEN "ended" ELSE Recovered)
  /\ UNCHANGED <<main, cancelled, armed, registered>>

-----------------------------------------------------------------------------
(* The process *)

\* Serve binds, starts every worker and waits.
Serve(s) ==
  /\ main[s] = "new"
  /\ main' = [main EXCEPT ![s] = "serving"]
  /\ pc' = [pc EXCEPT ![s] = [w \in Worker |->
       IF w \notin Staff[s] THEN "ended" ELSE IF w = Registrar THEN "starting" ELSE "waiting"]]
  /\ armed' = [armed EXCEPT ![s] = [w \in Worker |-> w \in Staff[s] \ {Registrar}]]
  /\ UNCHANGED <<cancelled, registry, faults>>

Cancel(s) ==
  /\ Alive(s) /\ ~cancelled[s]
  /\ cancelled' = [cancelled EXCEPT ![s] = TRUE]
  /\ UNCHANGED <<main, pc, armed, registry, faults>>

\* The listener fails: Serve waits for the workers, whose context goes on.
AcceptFails(s) ==
  /\ main[s] = "serving" /\ Fault
  /\ main' = [main EXCEPT ![s] = "waiting"]
  /\ UNCHANGED <<cancelled, pc, armed, registry>>

\* Requests drain, or the timeout closes them, while the workers end.
Shutdown(s) ==
  /\ main[s] = "serving" /\ cancelled[s]
  /\ main' = [main EXCEPT ![s] = "waiting"]
  /\ UNCHANGED <<cancelled, pc, armed, registry, faults>>

\* Mutant of WorkersEnded: the process does not wait for its registrar.
WorkersEndedButOne(s) == \A w \in Worker \ {Registrar} : pc[s][w] = "ended"

WorkersEnded(s) == \A w \in Worker : pc[s][w] = "ended"

\* What is in memory goes with the process.
Exit(s, how) ==
  /\ main' = [main EXCEPT ![s] = how]
  /\ pc' = [pc EXCEPT ![s] = [w \in Worker |-> "ended"]]
  /\ armed' = [armed EXCEPT ![s] = [w \in Worker |-> FALSE]]
  /\ cancelled' = [cancelled EXCEPT ![s] = TRUE]
  /\ registered' = [registered EXCEPT ![s] = FALSE]
  /\ UNCHANGED <<row, left, faults>>

Return(s) == main[s] = "waiting" /\ WorkersEnded(s) /\ Exit(s, "returned")

Kill(s) == Alive(s) /\ Exit(s, "killed")

\* Somebody, or a database restored from a backup, takes a row away.
Lose(s) ==
  /\ row[s] # Absent /\ Fault
  /\ row' = [row EXCEPT ![s] = Absent]
  /\ UNCHANGED <<main, cancelled, pc, armed, registered, left>>

Older(age) == IF age <= Forget THEN age + 1 ELSE age

\* A beat of time passes, for slow processes too.
Clock ==
  /\ row' = [s \in Server |-> Older(row[s])]
  /\ UNCHANGED <<main, cancelled, pc, armed, registered, left, faults>>

-----------------------------------------------------------------------------

\* What a worker does when it can.
WorkerStep(s, w) ==
  \/ Fire(s, w) \/ Pass(s, w) \/ Restart(s, w) \/ GiveUp(s, w) \/ Leave(s, w)
  \/ w = Registrar /\ (Start(s) \/ Refresh(s) \/ RemoveOnStop(s))

Next ==
  \/ \E s \in Server, w \in Worker : WorkerStep(s, w) \/ Panic(s, w)
  \/ \E s \in Server : \/ Serve(s) \/ Shutdown(s) \/ Return(s)
                       \/ Cancel(s) \/ AcceptFails(s) \/ Kill(s) \/ Lose(s)
  \/ Clock

Spec == Init /\ [][Next]_vars

\* Goroutines that can run do and tickers that are armed fire; a select with a
\* tick and the end of the context to choose from takes each in time.
Fairness ==
  \A s \in Server :
    /\ WF_vars(Shutdown(s) \/ Return(s))
    /\ \A w \in Staff[s] : WF_vars(WorkerStep(s, w)) /\ SF_vars(Leave(s, w))

LiveSpec == Spec /\ Fairness

-----------------------------------------------------------------------------

(* What the registry shows, and what a supervisor is for *)

\* A shutdown must not look like a crash: a process that returned has left no
\* row, through panics and restarts of its registrar and registrations that
\* raced the end of its context, unless the last removal itself failed or a
\* panic came between a registration and the line that defers its removal.
StoppedLeavesNoRow ==
  \A s \in Server : main[s] = "returned" /\ row[s] # Absent => left[s]

\* A worker that panicked works again, if its Run makes its ticker.
SelfArmedWorkerWorks ==
  \A s \in Server : \A w \in Staff[s] \ Prearmed :
    []<>(pc[s][w] = "working" \/ ~Running(s))

\* The same of every worker.
EveryWorkerWorks ==
  \A s \in Server : \A w \in Staff[s] :
    []<>(pc[s][w] = "working" \/ ~Running(s))

\* A running server is listed, again and again, though its first registration
\* failed, its row was lost, or another server forgot it.
RunningServerIsListed ==
  \A s \in Server : Registrar \in Staff[s] => []<>(Listed(s) \/ ~Running(s))

\* Once its context ends, Serve returns.
ServeReturns == \A s \in Server : cancelled[s] /\ Alive(s) ~> ~Alive(s)
=============================================================================
