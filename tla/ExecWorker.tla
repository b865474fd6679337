----------------------------- MODULE ExecWorker -----------------------------
(***************************************************************************)
(* Workers that run a command under a lease: tix claim exec.  Each claims  *)
(* a task, moves it to its start status, runs the command while a          *)
(* goroutine renews the lease on a ticker, and releases it at the end.     *)
(*                                                                         *)
(* The store is the one-step contract of LeaseContract.  What this module  *)
(* adds is time: calls take up to Delay, the ticker fires at a fraction of *)
(* the length first granted, and a lease lapses under a worker that is     *)
(* late.  A call takes effect as it is answered, or is never answered.     *)
(***************************************************************************)
EXTENDS LeaseContract

CONSTANTS
  Worker,       \* processes that run the command
  Length,       \* the lengths a lease may be granted for
  MinInterval,  \* a second: the shortest interval of the ticker
  Delay,        \* how long a call takes at most
  MaxFaults     \* bound on answers that never come

\* renewInterval: a third of the length granted, a second at least.
Interval(granted) == IF granted \div 3 < MinInterval THEN MinInterval ELSE granted \div 3

ASSUME TimeAssumption ==
  /\ MinInterval \in Nat \ {0} /\ Delay \in Nat /\ MaxFaults \in Nat
  /\ Length \subseteq Nat \ {0}
  /\ \A g \in Length, until \in 0..MaxTime : until + g \in Expiry

\* Calls are answered well within a lease, whatever length a claim or a later
\* renewal is granted.
ASSUME PromptAssumption ==
  \A first, later \in Length : Interval(first) + 3 * Delay < later

VARIABLES
  run,     \* per worker, what it is doing
  faults   \* how many answers did not come

execVars == <<vars, run, faults>>

\* waited: how long the call under way has taken; next: the time until the
\* ticker fires, every period; due: a tick nobody has taken yet, of which the
\* channel holds one; since: when the process ended.
Run == [pc: {"idle", "starting", "running", "releasing", "gone"},
        task: Task, token: 0..MaxTokens,
        renewer: {"off", "waiting", "calling"}, waited: Nat,
        next: Nat, period: Nat, due: BOOLEAN, since: 0..MaxTime]

ExecTypeOK == TypeOK /\ run \in [Worker -> Run] /\ faults \in 0..MaxFaults

ExecInit ==
  /\ Init
  /\ \E t \in Task :
       run = [w \in Worker |->
         [pc |-> "idle", task |-> t, token |-> 0, renewer |-> "off", waited |-> 0,
          next |-> 0, period |-> 0, due |-> FALSE, since |-> 0]]
  /\ faults = 0

Fault == faults < MaxFaults /\ faults' = faults + 1

\* Mutant of Holds: any lease on the task will do.
HoldsAny(w) ==
  LET l == lease[run[w].task] IN l.token # 0 /\ l.until > now

\* The store lets a token renew and release the lease it names while it runs.
Holds(w) ==
  LET l == lease[run[w].task] IN l.token = run[w].token /\ l.until > now

-----------------------------------------------------------------------------
(* The process *)

\* The process is over.  A renewal it has sent may still arrive.
Gone(w) ==
  run' = [run EXCEPT ![w].pc = "gone", ![w].since = now, ![w].due = FALSE,
                     ![w].renewer = IF @ = "calling" THEN @ ELSE "off"]

\* ClaimTask, or ClaimNext, whose answer may be lost and the lease with it.
Acquire(w, t) ==
  /\ run[w].pc = "idle"
  /\ Take(t)
  /\ \E g \in Length :
       /\ lease'[t].until = now + g
       /\ \/ /\ run' = [run EXCEPT ![w].pc = "starting", ![w].task = t, ![w].token = minted',
                                   ![w].waited = 0, ![w].period = Interval(g)]
             /\ UNCHANGED faults
          \/ /\ Fault
             /\ run' = [run EXCEPT ![w].pc = "gone", ![w].task = t, ![w].token = minted',
                                   ![w].since = now]

\* The move to the start status is done, or none was asked for.
Begin(w) ==
  /\ run[w].pc = "starting"
  /\ run' = [run EXCEPT ![w].pc = "running", ![w].renewer = "waiting", ![w].waited = 0,
                        ![w].next = run[w].period]
  /\ UNCHANGED <<vars, faults>>

\* It is refused, or the process is interrupted: nothing is released.
Quit(w) ==
  /\ run[w].pc \in {"starting", "running", "releasing"}
  /\ Gone(w)
  /\ UNCHANGED <<vars, faults>>

\* The command ends, whatever its status.  The ticker is stopped; nobody waits
\* for the goroutine.
ChildExits(w) ==
  /\ run[w].pc = "running"
  /\ run' = [run EXCEPT ![w].pc = "releasing"]
  /\ UNCHANGED <<vars, faults>>

\* ReleaseLease: it ends the worker's own lease, or is refused, because that
\* lease has lapsed or the task may not move to the status asked for.
Release(w) ==
  /\ run[w].pc = "releasing"
  /\ \/ Holds(w) /\ End(run[w].task)
     \/ UNCHANGED vars
  /\ Gone(w)
  /\ UNCHANGED faults

-----------------------------------------------------------------------------
(* The goroutine that renews *)

Renewer(w, state) == run' = [run EXCEPT ![w].renewer = state]

\* A select that finds its tick and the end picks either.
Call(w) ==
  /\ run[w].renewer = "waiting" /\ run[w].due
  /\ run' = [run EXCEPT ![w].renewer = "calling", ![w].due = FALSE, ![w].waited = 0]
  /\ UNCHANGED <<vars, faults>>

Renew(w) ==
  /\ run[w].renewer = "calling" /\ Holds(w)
  /\ Extend(run[w].task)
  /\ \E g \in Length : lease'[run[w].task].until = now + g
  /\ \/ Renewer(w, IF run[w].pc = "gone" THEN "off" ELSE "waiting") /\ UNCHANGED faults
     \/ Renewer(w, "off") /\ Fault

\* Any error ends the goroutine, though the command runs on.
RenewFails(w) ==
  /\ run[w].renewer = "calling"
  /\ \/ ~Holds(w) /\ UNCHANGED faults
     \/ Fault
  /\ Renewer(w, "off")
  /\ UNCHANGED vars

Stop(w) ==
  /\ run[w].renewer = "waiting" /\ run[w].pc = "releasing"
  /\ Renewer(w, "off")
  /\ UNCHANGED <<vars, faults>>

-----------------------------------------------------------------------------
(* The others, and time *)

\* A sweep, and an administrator who ends a lease that runs.
Sweep(t) == lease[t].token # 0 /\ Clear({t}) /\ UNCHANGED <<run, faults>>
Reclaim(t) == lease[t].until > now /\ End(t) /\ UNCHANGED <<run, faults>>

\* A call is answered in time, the claim and the move that follows it each in
\* theirs, and a goroutine takes a tick as it comes.
Prompt(r) ==
  /\ r.pc = "starting" => r.waited < 2 * Delay
  /\ r.renewer = "calling" => r.waited < Delay
  /\ r.renewer = "waiting" => ~r.due

Ticking(r) == r.pc = "running" /\ r.renewer # "off"

\* Mutant of Aged: the ticker is armed once and not again.
AgedOnce(r) ==
  [r EXCEPT !.waited = IF r.pc = "starting" \/ r.renewer = "calling" THEN @ + 1 ELSE @,
            !.next = IF Ticking(r) THEN @ - 1 ELSE @,
            !.due = IF Ticking(r) THEN @ \/ r.next = 1 ELSE @]

Aged(r) ==
  [r EXCEPT !.waited = IF r.pc = "starting" \/ r.renewer = "calling" THEN @ + 1 ELSE @,
            !.next = IF ~Ticking(r) THEN @ ELSE IF @ > 1 THEN @ - 1 ELSE r.period,
            !.due = IF Ticking(r) THEN @ \/ r.next = 1 ELSE @]

Clock ==
  /\ Tick
  /\ \A w \in Worker : Prompt(run[w])
  /\ run' = [w \in Worker |-> Aged(run[w])]
  /\ UNCHANGED faults

-----------------------------------------------------------------------------

WorkerStep(w) ==
  \/ \E t \in Task : Acquire(w, t)
  \/ Begin(w) \/ Quit(w) \/ ChildExits(w) \/ Release(w)
  \/ Call(w) \/ Renew(w) \/ RenewFails(w) \/ Stop(w)

ExecNext ==
  \/ \E w \in Worker : WorkerStep(w)
  \/ \E t \in Task : Sweep(t) \/ Reclaim(t)
  \/ Clock

ExecSpec == ExecInit /\ [][ExecNext]_execVars

-----------------------------------------------------------------------------
(* What the wrapper is for *)

\* An administrator has ended the lease, and the holder will be told so.
Reclaimed(w) == told[run[w].token] = 0

\* While the command runs and its goroutine renews, the worker holds the lease:
\* no tick is missed for good, and none comes too late.
LeasedWhileRenewed ==
  \A w \in Worker :
    run[w].pc = "running" /\ run[w].renewer # "off" => Holds(w) \/ Reclaimed(w)

\* A worker whose lease has lapsed, been retaken or been ended touches nothing:
\* a lease that runs is changed by the worker it was granted to, or reclaimed.
ZombieTouchesNothing ==
  [][\A t \in Task :
       lease[t].until > now /\ lease'[t] # lease[t] =>
         \/ UNCHANGED run /\ lease'[t] = NoLease
         \/ \E w \in Worker :
              /\ run'[w] # run[w]
              /\ run[w].task = t /\ run[w].token = lease[t].token]_execVars

\* A task whose worker has gone without releasing it is free again within the
\* longest lease and the time a last renewal may be under way.
LeftBehindLapses ==
  \A w \in Worker :
    run[w].pc = "gone" /\ run[w].token # 0 /\ lease[run[w].task].token = run[w].token =>
      \E g \in Length : lease[run[w].task].until <= run[w].since + Delay + g

\* The lease does not run out while the command still does.
LeasedWhileRunning ==
  \A w \in Worker : run[w].pc = "running" => Holds(w) \/ Reclaimed(w)
=============================================================================
