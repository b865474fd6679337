------------------------------ MODULE TaskLease ------------------------------
(***************************************************************************)
(* The claim and lease core of tix: the rows of the tasks table, and every *)
(* service call that takes, extends, ends or depends on a lease, each run  *)
(* inside one write transaction of the store.                              *)
(*                                                                         *)
(* A call is a transaction in three steps.  Begin opens it and reads the   *)
(* clock (m.now).  Read loads the task and makes the checks the service    *)
(* makes on what it loaded.  The action of the call then runs its          *)
(* conditional statements and commits: the first statement that matches    *)
(* takes the row's write lock, nothing else can touch the row until the    *)
(* commit, so the statements and the commit are one step.  Abort stands    *)
(* for every refusal, cancellation and crash: the transaction rolls back.  *)
(*                                                                         *)
(* Under "sqlite" a write transaction is BEGIN IMMEDIATE on one writer, so *)
(* no other is open beside it.  Under "postgres" it is READ COMMITTED: any *)
(* number are open, a plain SELECT locks nothing, and an UPDATE evaluates  *)
(* its WHERE on the newest committed row.                                  *)
(***************************************************************************)
EXTENDS Integers, FiniteSets

CONSTANTS
  Task,        \* the tasks
  Client,      \* the processes that call the service
  Sweeper,     \* the process that runs the sweeps, not a client
  Status,      \* the states of the workflow
  Initial,     \* the state a task is created in
  Terminal,    \* the states that finish a task
  Completes,   \* the terminal states of category "done"
  Edge,        \* the pairs <<from, to>> a transition may follow
  RevertTo,    \* where a lapsed lease sends a task: the state itself if nowhere
  Recurring,   \* the tasks that carry a recurrence rule without an end
  TTL,         \* the lease lengths a claim may be granted (LeasePolicy)
  OwnLease,    \* whether a task, project or workflow names a length of its own,
               \* or a project a lower ceiling
  Engine,      \* "sqlite" or "postgres"
  Ops,         \* the calls that clients and the sweeper make
  SweepLimit,  \* how many rows one sweep lists
  MaxTime,     \* bound on the clock
  MaxTokens,   \* bound on the tokens minted
  MaxVersion   \* bound on a row's version

NoStatus == "none"   \* a release that names no final status
Nobody   == "nobody" \* no holder

AllOps == {"claim", "claimNext", "renew", "release", "transition", "artifact",
           "edit", "reclaim", "delete", "restore", "snooze", "unsnooze"}
SweepOps == {"sweep", "wake"}

\* The calls whose statements use nothing of the task they loaded: it has
\* served its checks, and the model forgets it.
Blind == {"claim", "renew", "delete", "restore", "snooze", "unsnooze"}

ASSUME ClientsAssumption == Sweeper \notin Client /\ Nobody \notin Client
ASSUME WorkflowAssumption ==
  /\ Initial \in Status /\ NoStatus \notin Status
  /\ Terminal \subseteq Status
  /\ Completes \subseteq Terminal
  /\ Edge \subseteq Status \X Status
  /\ RevertTo \in [Status -> Status]
ASSUME RecurringAssumption == Recurring \subseteq Task
ASSUME TTLAssumption == TTL \subseteq Nat \ {0}
ASSUME EngineAssumption == Engine \in {"sqlite", "postgres"}
ASSUME FlagAssumption == OwnLease \in BOOLEAN /\ Ops \subseteq AllOps \cup SweepOps
ASSUME BoundAssumption ==
  /\ MaxTime \in Nat
  /\ MaxTokens \in Nat
  /\ MaxVersion \in Nat
  /\ SweepLimit \in Nat \ {0}

VARIABLES
  now,      \* the wall clock
  row,      \* the committed row of each task
  req,      \* the transaction each process has open
  minted,   \* how many lease tokens exist
  told,     \* per token, the expiry its holder was last told; 0 once it is over
  spawned   \* per task, how many successors it has produced

vars == <<now, row, req, minted, told, spawned>>

-----------------------------------------------------------------------------
(* Rows and requests *)

Proc     == Client \cup {Sweeper}
Token    == 1..MaxTokens

(* holder, token and until are null together (token = 0): every statement   *)
(* that writes one writes all three.                                        *)
Row == [status: Status, completed: BOOLEAN, successor: BOOLEAN,
        holder: Client \cup {Nobody}, token: 0..MaxTokens, until: Nat,
        expiredBy: Client \cup {Nobody}, version: Nat, wake: Nat, deleted: BOOLEAN]

NewRow == [status |-> Initial, completed |-> Initial \in Terminal, successor |-> FALSE,
           holder |-> Nobody, token |-> 0, until |-> 0,
           expiredBy |-> Nobody, version |-> 1, wake |-> 0, deleted |-> FALSE]

Input == [op: AllOps, task: Task, token: 0..MaxTokens, to: Status \cup {NoStatus},
          version: Nat, ttl: Nat, queueTTL: Nat]

SweepCall == [op: SweepOps]

Idle == [pc |-> "idle"]

\* A transaction that has begun, and one that has loaded what it works on.
Opened == [pc: {"open"}, in: Input \cup SweepCall, mnow: Nat]
Loaded == [pc: {"read"}, in: Input, mnow: Nat, at: Nat, task: Row]
Listed == [pc: {"read"}, in: SweepCall, mnow: Nat, at: Nat,
           due: SUBSET Task, tasks: [Task -> Row]]

\* ClaimedAtTime, and the negation of unclaimedPredicate: held by a live lease.
Live(r, t) == r.token # 0 /\ r.until > t

Asleep(r, t) == r.wake > t

\* The claim columns as ReleaseLease, ClearClaim and ForceReclaim leave them.
Unclaim(r) == [r EXCEPT !.holder = Nobody, !.token = 0, !.until = 0]

\* The columns store.UpdateTask writes, taken from the task the caller has in
\* hand: never a lease column, always the next version.
WriteFields(r, task) ==
  [r EXCEPT !.status = task.status, !.completed = task.completed,
            !.successor = task.successor, !.version = @ + 1]

\* Mutant of Spawns: forgets that a successor was recorded.
SpawnsAgain(t, task, to) == t \in Recurring /\ to \in Completes

\* spawnOccurrence: finishing an occurrence that has no successor yet.
Spawns(t, task, to) == t \in Recurring /\ ~task.successor /\ to \in Completes

-----------------------------------------------------------------------------
(* Opening a transaction *)

CallsOf(ops, t, tokens, targets, versions, lengths, queueLengths) ==
  [op: ops, task: {t}, token: tokens, to: targets, version: versions,
   ttl: lengths, queueTTL: queueLengths]

\* The calls a client can make: any token ever minted, any version ever read.
Calls(t) ==
  LET held == 1..minted
      seen == 0..row[t].version
      none == {NoStatus}
  IN CallsOf({"claim", "snooze"}, t, {0}, none, {0}, TTL, {0})
     \cup CallsOf({"claimNext"}, t, {0}, none, {0}, TTL, TTL)
     \cup CallsOf({"renew"}, t, held, none, {0}, TTL, {0})
     \cup CallsOf({"release"}, t, held, Status \cup none, {0}, {0}, {0})
     \cup CallsOf({"transition"}, t, held \cup {0}, Status, seen, {0}, {0})
     \cup CallsOf({"artifact"}, t, held \cup {0}, none, {0}, {0}, {0})
     \cup CallsOf({"edit"}, t, {0}, none, seen, {0}, {0})
     \cup CallsOf({"reclaim", "delete", "restore", "unsnooze"}, t,
                  {0}, none, {0}, {0}, {0})

\* Mutant of CanOpen: a deferred transaction waits for nobody.
CanOpenDeferred == TRUE

\* SQLite: the single writer.  Postgres: nothing to wait for.
CanOpen == Engine = "sqlite" => \A q \in Proc : req[q] = Idle

Open(p, call) ==
  /\ req[p] = Idle
  /\ CanOpen
  /\ req' = [req EXCEPT ![p] = [pc |-> "open", in |-> call, mnow |-> now]]
  /\ UNCHANGED <<now, row, minted, told, spawned>>

Begin(p) ==
  \E t \in Task : \E call \in Calls(t) :
    /\ call.op \in Ops
    /\ call.op \in {"claim", "claimNext"} => minted < MaxTokens
    /\ call.op = "claimNext" /\ ~OwnLease => call.ttl = call.queueTTL
    /\ Open(p, call)

BeginSweep(op) == op \in Ops /\ Open(Sweeper, [op |-> op])

\* A refusal, a cancelled context, a crash: nothing the transaction did remains.
Abort(p) ==
  /\ req[p] # Idle
  /\ req' = [req EXCEPT ![p] = Idle]
  /\ UNCHANGED <<now, row, minted, told, spawned>>

-----------------------------------------------------------------------------
(* Reading: what each call checks on the task it loaded, at m.now *)

\* Mutant of ClaimChecks: a finished task may be claimed.
ClaimChecksUnfinished(task, in, mnow) == ~task.deleted /\ ~Asleep(task, mnow)

ClaimChecks(task, in, mnow) ==
  ~task.deleted /\ task.status \notin Terminal /\ ~Asleep(task, mnow)

RenewChecks(task, in, mnow) == ~task.deleted /\ in.token # 0

\* Mutant of ReleaseChecks: the final status need not follow an edge.
ReleaseChecksAnywhere(task, in, mnow) == ~task.deleted /\ in.token # 0

\* releasableStatus, on the task as it was loaded.
ReleaseChecks(task, in, mnow) ==
  /\ ~task.deleted
  /\ in.token # 0
  /\ in.to # NoStatus => in.to # task.status /\ <<task.status, in.to>> \in Edge

VersionCheck(task, in) == in.version \in {0, task.version}

\* The half of requireLeaseToken that needs no statement: a live lease wants a
\* token, and a token wants a live lease.
TokenCheck(task, in, mnow) == Live(task, mnow) <=> in.token # 0

TransitionChecks(task, in, mnow) ==
  /\ ~task.deleted
  /\ VersionCheck(task, in)
  /\ <<task.status, in.to>> \in Edge
  /\ TokenCheck(task, in, mnow)

ArtifactChecks(task, in, mnow) == ~task.deleted /\ TokenCheck(task, in, mnow)

EditChecks(task, in, mnow) == ~task.deleted /\ VersionCheck(task, in)

ReclaimChecks(task, in, mnow) == ~task.deleted /\ Live(task, mnow)

UnsnoozeChecks(task, in, mnow) == ~task.deleted /\ Asleep(task, mnow)

Checks(task, in, mnow) ==
  CASE in.op = "claim"      -> ClaimChecks(task, in, mnow)
    [] in.op = "renew"      -> RenewChecks(task, in, mnow)
    [] in.op = "release"    -> ReleaseChecks(task, in, mnow)
    [] in.op = "transition" -> TransitionChecks(task, in, mnow)
    [] in.op = "artifact"   -> ArtifactChecks(task, in, mnow)
    [] in.op = "edit"       -> EditChecks(task, in, mnow)
    [] in.op = "reclaim"    -> ReclaimChecks(task, in, mnow)
    [] in.op = "unsnooze"   -> UnsnoozeChecks(task, in, mnow)
    [] in.op = "restore"    -> TRUE
    [] OTHER                -> ~task.deleted

Read(p) ==
  LET r == req[p] IN
  /\ r.pc = "open"
  /\ r.in.op \in AllOps \ {"claimNext"}
  /\ Checks(row[r.in.task], r.in, r.mnow)
  /\ req' = [req EXCEPT ![p] = [pc |-> "read", in |-> r.in, mnow |-> r.mnow,
                               at |-> now,
                               task |-> IF r.in.op \in Blind THEN NewRow
                                        ELSE row[r.in.task]]]
  /\ UNCHANGED <<now, row, minted, told, spawned>>

\* Mutant of Due: a row without a lease is listed as one that lapsed long ago.
DueUnleased(op, mnow) ==
  {t \in Task : /\ ~row[t].deleted
                /\ IF op = "sweep" THEN row[t].until <= mnow
                                   ELSE row[t].wake # 0 /\ row[t].wake <= mnow}

\* ExpiredLeases and ExpiredSnoozes: the live rows that lapsed by m.now.
Due(op, mnow) ==
  {t \in Task : /\ ~row[t].deleted
                /\ IF op = "sweep" THEN row[t].token # 0 /\ row[t].until <= mnow
                                   ELSE row[t].wake # 0 /\ row[t].wake <= mnow}

DueAt(op, t) == IF op = "sweep" THEN row[t].until ELSE row[t].wake

\* The oldest SweepLimit of them.
List(op) ==
  LET r == req[Sweeper] IN
  /\ r.pc = "open" /\ r.in.op = op
  /\ \E S \in SUBSET Due(op, r.mnow) :
       /\ Cardinality(S) <= SweepLimit
       /\ S # Due(op, r.mnow) => Cardinality(S) = SweepLimit
       /\ \A t \in S, u \in Due(op, r.mnow) \ S :
            DueAt(op, t) <= DueAt(op, u)
       /\ req' = [req EXCEPT ![Sweeper] =
                   [pc |-> "read", in |-> r.in, mnow |-> r.mnow, at |-> now,
                    due |-> S, tasks |-> [t \in Task |-> IF t \in S THEN row[t] ELSE NewRow]]]
  /\ UNCHANGED <<now, row, minted, told, spawned>>

-----------------------------------------------------------------------------
(* The statements of each call, and its commit *)

Ready(p, op) == req[p].pc = "read" /\ req[p].in.op = op

Commit(p) == req' = [req EXCEPT ![p] = Idle]

\* When a statement was sent: between the read and now (store clock, t.now()).
SentAt(p) == req[p].at .. now

Leased(r, p, k, until) ==
  [r EXCEPT !.holder = p, !.token = k, !.until = until, !.expiredBy = Nobody]

\* Mutant of Unclaimed: the statement does not re-assert that the lease lapsed.
UnclaimedBlindly(t, mnow) == ~row[t].deleted

\* The rows store.ClaimTask's statement matches.
Unclaimed(t, mnow) == ~row[t].deleted /\ ~Live(row[t], mnow)

Claim(p) ==
  LET r == req[p]
      t == r.in.task
      until == r.mnow + r.in.ttl
  IN /\ Ready(p, "claim")
     /\ minted < MaxTokens
     /\ Unclaimed(t, r.mnow)
     /\ row' = [row EXCEPT ![t] = Leased(@, p, minted + 1, until)]
     /\ minted' = minted + 1
     /\ told' = [told EXCEPT ![minted + 1] = until]
     /\ Commit(p)
     /\ UNCHANGED <<now, spawned>>

\* ClaimNextTask's pick re-asserts everything in the statement.  The lease is
\* granted at the length known before the pick, then moved to the length the
\* task's own levels name; the caller is told the second either way.
Eligible(t, mnow) ==
  /\ ~row[t].deleted
  /\ ~Live(row[t], mnow)
  /\ ~Asleep(row[t], mnow)
  /\ row[t].status \notin Terminal

ClaimNext(p) ==
  LET r == req[p]
      t == r.in.task
      first == r.mnow + r.in.queueTTL
      revised == r.mnow + r.in.ttl
  IN /\ r.pc = "open" /\ r.in.op = "claimNext"
     /\ minted < MaxTokens
     /\ Eligible(t, r.mnow)
     /\ \E s \in r.mnow .. now :
          row' = [row EXCEPT ![t] =
                   Leased(@, p, minted + 1, IF first > s THEN revised ELSE first)]
     /\ minted' = minted + 1
     /\ told' = [told EXCEPT ![minted + 1] = revised]
     /\ Commit(p)
     /\ UNCHANGED <<now, spawned>>

\* store.RenewLease and store.ReleaseLease match a live lease under its token.
HeldUnder(k, t, s) == row[t].token = k /\ row[t].until > s

Renew(p) ==
  LET r == req[p]
      t == r.in.task
      until == r.mnow + r.in.ttl
  IN /\ Ready(p, "renew")
     /\ \E s \in SentAt(p) : HeldUnder(r.in.token, t, s)
     /\ row' = [row EXCEPT ![t].until = until]
     /\ told' = [told EXCEPT ![r.in.token] = until]
     /\ Commit(p)
     /\ UNCHANGED <<now, minted, spawned>>

\* Whether a release names a final status.
Finalizes(p) == req[p].in.to # NoStatus

\* Mutant of Released: a finishing release sets no completion time.
ReleasedUntimed(p) ==
  [req[p].task EXCEPT !.status = req[p].in.to,
     !.successor = @ \/ Spawns(req[p].in.task, req[p].task, req[p].in.to)]

\* applyRelease: a final status never clears completed_at.
Released(p) ==
  LET r == req[p] IN
  [r.task EXCEPT !.status = r.in.to,
                 !.completed = @ \/ r.in.to \in Terminal,
                 !.successor = @ \/ Spawns(r.in.task, r.task, r.in.to)]

CountSpawn(p) ==
  LET r == req[p] IN
  spawned' = [spawned EXCEPT ![r.in.task] =
                IF Spawns(r.in.task, r.task, r.in.to) THEN @ + 1 ELSE @]

Release(p) ==
  LET r == req[p]
      t == r.in.task
  IN /\ Ready(p, "release")
     /\ \E s \in SentAt(p) : HeldUnder(r.in.token, t, s)
     /\ IF Finalizes(p)
          THEN /\ row[t].version < MaxVersion
               /\ row' = [row EXCEPT ![t] = WriteFields(Unclaim(@), Released(p))]
               /\ CountSpawn(p)
          ELSE row' = [row EXCEPT ![t] = Unclaim(@)] /\ UNCHANGED spawned
     /\ told' = [told EXCEPT ![r.in.token] = 0]
     /\ Commit(p)
     /\ UNCHANGED <<now, minted>>

\* requireLeaseToken's statement: a renewal to the expiry that was loaded.
TokenStands(p) ==
  LET r == req[p] IN
  Live(r.task, r.mnow) => \E s \in SentAt(p) : HeldUnder(r.in.token, r.in.task, s)

\* Mutant of Guarded: the guard renews to the time of the call.
GuardedToNow(p, r) ==
  IF Live(req[p].task, req[p].mnow) THEN [r EXCEPT !.until = req[p].mnow] ELSE r

Guarded(p, r) ==
  IF Live(req[p].task, req[p].mnow) THEN [r EXCEPT !.until = req[p].task.until] ELSE r

Moved(p) ==
  LET r == req[p] IN
  [r.task EXCEPT !.status = r.in.to,
                 !.completed = r.in.to \in Terminal,
                 !.successor = @ \/ Spawns(r.in.task, r.task, r.in.to)]

Transition(p) ==
  LET r == req[p]
      t == r.in.task
  IN /\ Ready(p, "transition")
     /\ row[t].version < MaxVersion
     /\ TokenStands(p)
     /\ row' = [row EXCEPT ![t] = WriteFields(Guarded(p, @), Moved(p))]
     /\ CountSpawn(p)
     /\ Commit(p)
     /\ UNCHANGED <<now, minted, told>>

\* PutArtifact on a task: the row itself only feels the guard.
Artifact(p) ==
  /\ Ready(p, "artifact")
  /\ TokenStands(p)
  /\ row' = [row EXCEPT ![req[p].in.task] = Guarded(p, @)]
  /\ Commit(p)
  /\ UNCHANGED <<now, minted, told, spawned>>

\* UpdateTask with any other field: it writes every field it loaded.
Edit(p) ==
  LET t == req[p].in.task IN
  /\ Ready(p, "edit")
  /\ row[t].version < MaxVersion
  /\ row' = [row EXCEPT ![t] = WriteFields(@, req[p].task)]
  /\ Commit(p)
  /\ UNCHANGED <<now, minted, told, spawned>>

Reclaim(p) ==
  LET r == req[p]
      t == r.in.task
  IN /\ Ready(p, "reclaim")
     /\ ~row[t].deleted
     /\ row[t].holder = r.task.holder
     /\ Live(row[t], r.mnow)
     /\ row' = [row EXCEPT ![t] = Unclaim(@)]
     /\ told' = [told EXCEPT ![row[t].token] = 0]
     /\ Commit(p)
     /\ UNCHANGED <<now, minted, spawned>>

Delete(p) ==
  LET t == req[p].in.task IN
  /\ Ready(p, "delete")
  /\ ~row[t].deleted
  /\ row' = [row EXCEPT ![t].deleted = TRUE]
  /\ Commit(p)
  /\ UNCHANGED <<now, minted, told, spawned>>

Restore(p) ==
  LET t == req[p].in.task IN
  /\ Ready(p, "restore")
  /\ row[t].deleted
  /\ row' = [row EXCEPT ![t].deleted = FALSE]
  /\ Commit(p)
  /\ UNCHANGED <<now, minted, told, spawned>>

\* A wake time is at least a tick after m.now.
Snooze(p) ==
  LET r == req[p]
      t == r.in.task
  IN /\ Ready(p, "snooze")
     /\ ~row[t].deleted
     /\ row' = [row EXCEPT ![t].wake = r.mnow + r.in.ttl]
     /\ Commit(p)
     /\ UNCHANGED <<now, minted, told, spawned>>

Unsnooze(p) ==
  LET t == req[p].in.task IN
  /\ Ready(p, "unsnooze")
  /\ ~row[t].deleted
  /\ row' = [row EXCEPT ![t].wake = 0]
  /\ Commit(p)
  /\ UNCHANGED <<now, minted, told, spawned>>

-----------------------------------------------------------------------------
(* The sweeps: every listed row that is still due, in one transaction *)

\* ClearClaim names the holder the listing read as the one that expired.
Expired(r, listed) == [Unclaim(r) EXCEPT !.expiredBy = listed.holder]

\* The revert is computed from the row as it stands after the clear.
Reverted(r) ==
  IF RevertTo[r.status] = r.status THEN r
  ELSE WriteFields(r, [r EXCEPT !.status = RevertTo[r.status]])

\* What ClearClaim re-asserts in its statement.
Lapsed(t) == row[t].token # 0 /\ row[t].until <= req[Sweeper].mnow

Sweep ==
  LET r == req[Sweeper] IN
     /\ Ready(Sweeper, "sweep")
     /\ row' = [t \in Task |-> IF t \in r.due /\ Lapsed(t)
                               THEN Reverted(Expired(row[t], r.tasks[t])) ELSE row[t]]
     /\ Commit(Sweeper)
     /\ UNCHANGED <<now, minted, told, spawned>>

\* Mutants of Passed: the clear trusts the listing; it compares with the clock.
PassedWhenListed(t) == row[t].wake # 0
PassedNow(t)        == row[t].wake = req[Sweeper].mnow

\* What WakeSnooze re-asserts in its statement.
Passed(t) == row[t].wake = req[Sweeper].tasks[t].wake

WakeSnoozed ==
  LET r == req[Sweeper] IN
  /\ Ready(Sweeper, "wake")
  /\ row' = [t \in Task |->
               IF t \in r.due /\ Passed(t)
               THEN [row[t] EXCEPT !.wake = 0] ELSE row[t]]
  /\ Commit(Sweeper)
  /\ UNCHANGED <<now, minted, told, spawned>>

-----------------------------------------------------------------------------
(* The specification *)

Tick ==
  /\ now < MaxTime
  /\ now' = now + 1
  /\ UNCHANGED <<row, req, minted, told, spawned>>

Init ==
  /\ now = 0
  /\ row = [t \in Task |-> NewRow]
  /\ req = [p \in Proc |-> Idle]
  /\ minted = 0
  /\ told = [k \in Token |-> 0]
  /\ spawned = [t \in Task |-> 0]

Finish(p) ==
  \/ Claim(p) \/ ClaimNext(p) \/ Renew(p) \/ Release(p)
  \/ Transition(p) \/ Artifact(p) \/ Edit(p) \/ Reclaim(p)
  \/ Delete(p) \/ Restore(p) \/ Snooze(p) \/ Unsnooze(p)

Next ==
  \/ Tick
  \/ \E p \in Client : Begin(p) \/ Read(p) \/ Finish(p)
  \/ \E op \in SweepOps : BeginSweep(op) \/ List(op)
  \/ Sweep \/ WakeSnoozed
  \/ \E p \in Proc : Abort(p)

Spec == Init /\ [][Next]_vars

\* Every server runs both sweeps on a ticker, so each is tried for ever; a try
\* may fail, but not every one that could succeed does.  A process that opened
\* a transaction ends it.
Fairness ==
  /\ WF_now(Tick)
  /\ \A op \in SweepOps : SF_vars(BeginSweep(op)) /\ SF_vars(List(op))
  /\ SF_vars(Sweep)
  /\ SF_vars(WakeSnoozed)
  /\ \A p \in Client : WF_vars(Read(p) \/ Finish(p) \/ Abort(p))

FairSpec == Spec /\ Fairness

-----------------------------------------------------------------------------
(* Properties *)

TypeOK ==
  /\ now \in 0..MaxTime
  /\ row \in [Task -> Row]
  /\ req \in [Proc -> {Idle} \cup Opened \cup Loaded \cup Listed]
  /\ minted \in 0..MaxTokens
  /\ told \in [Token -> Nat]
  /\ spawned \in [Task -> Nat]

\* On one writer, what a transaction loaded and checked is still so when its
\* statements run: every check made before a lock is as good as one made after
\* (BEGIN IMMEDIATE in store/sqlite).
ChecksStillHold ==
  Engine = "sqlite" =>
    \A p \in Client :
      req[p].pc = "read" =>
        LET r == req[p] IN
        /\ Checks(row[r.in.task], r.in, r.mnow)
        /\ r.in.op \notin Blind => r.task = row[r.in.task]

\* A worker that was told its lease runs past now holds it: the row carries its
\* token and exactly the expiry it was told (service.ClaimTask, RenewLease,
\* ReleaseLease against every writer of the row).  A row carries one token, so
\* no task is ever held by two workers.
ToldIsStored ==
  \A k \in Token :
    told[k] > now => \E t \in Task : row[t].token = k /\ row[t].until = told[k]

\* A live lease is never taken, swept or overwritten: it ends by a release
\* under its own token or by an administrator's reclaim (store.ClaimTask,
\* ClaimNextTask, ClearClaim re-assert the lapse in the statement).
LiveLeaseEndsOnlyOnPurpose ==
  [][\A t \in Task :
       Live(row[t], now) /\ row'[t].token # row[t].token =>
         \E p \in Client :
           /\ req[p].pc = "read"
           /\ req[p].in.task = t
           /\ \/ req[p].in.op = "release" /\ req[p].in.token = row[t].token
              \/ req[p].in.op = "reclaim"
           /\ req'[p] = Idle]_vars

\* No lease is ever taken on a finished, deleted or still snoozed task
\* (service.ClaimTask, store.ClaimNextTask).
FinishedIsNeverClaimed ==
  [][\A t \in Task :
       row'[t].token \notin {0, row[t].token} =>
         /\ row[t].status \notin Terminal
         /\ ~row[t].deleted
         /\ ~Asleep(row[t], now)]_vars

\* A committed status moves along an edge of the workflow, or back where the
\* workflow sends a lapsed lease (TransitionTask, ReleaseLease, sweepOne, and
\* UpdateTask, which rewrites the status it loaded).
StatusFollowsWorkflow ==
  [][\A t \in Task :
       row'[t].status # row[t].status =>
         \/ <<row[t].status, row'[t].status>> \in Edge
         \/ /\ row'[t].status = RevertTo[row[t].status]
            /\ row'[t].expiredBy # Nobody /\ row'[t].token = 0]_vars

\* A transition or an artifact that lands on a task under a live lease was
\* made with that lease's token (requireLeaseToken).
LeaseBoundWritesHoldTheLease ==
  [][\A p \in Client :
       (Transition(p) \/ Artifact(p)) /\ Live(row[req[p].in.task], now) =>
         req[p].in.token = row[req[p].in.task].token]_vars

\* An edit or transition that names a version lands on that version
\* (checkVersion, judged before the row is locked).
VersionedWritesAreCurrent ==
  [][\A p \in Client :
       (Transition(p) \/ Edit(p)) /\ req[p].in.version # 0 =>
         req[p].in.version = row[req[p].in.task].version]_vars

\* An administrator ends the lease the call was looking at, not a later one
\* (store.ForceReclaim compares the holder).
ReclaimTakesTheLeaseRead ==
  [][\A p \in Client :
       Reclaim(p) => row[req[p].in.task].token = req[p].task.token]_vars

\* A task never produces two successors, however often and however
\* concurrently it is finished (spawnOccurrence, recurrence_next_id).
OneSuccessor == \A t \in Task : spawned[t] <= 1

\* A task in a terminal state carries a completion time: statistics and the
\* burndown derive from it.
FinishedIsCompleted == \A t \in Task : row[t].status \in Terminal => row[t].completed

\* completed_at is cleared when the task leaves a terminal state.
CompletedIsFinished == \A t \in Task : row[t].completed => row[t].status \in Terminal

\* A snooze that has not passed ends only when somebody ends it: WakeSnooze
\* clears only the wake time the sweep listed.
SnoozeIsKept ==
  [][\A t \in Task :
       Asleep(row[t], now) /\ ~Asleep(row'[t], now) =>
         \E p \in Client : Unsnooze(p) \/ Snooze(p)]_vars

\* The lease columns of every row, and the expiries they can hold: what the
\* contract sees of this module.
Leases   == [t \in Task |-> [token |-> row[t].token, until |-> row[t].until]]
Expiries == {m + d : m \in 0..MaxTime, d \in TTL}

Contract == INSTANCE LeaseContract WITH lease <- Leases, Expiry <- Expiries

\* The transactions of every call that touches a lease, interleaved, behave as
\* the one-step calls store.Tx promises (the service and the store together).
ImplementsContract == Contract!Spec

\* A lapsed lease on a live task does not stay in the row: the sweep clears
\* it, or somebody leases or deletes the task first.
LapsedIsSwept ==
  \A t \in Task :
    row[t].token # 0 /\ row[t].until <= now
      ~> row[t].token = 0 \/ row[t].until > now \/ row[t].deleted

\* A passed snooze is cleared from the row.
PassedSnoozeIsCleared ==
  \A t \in Task :
    row[t].wake # 0 /\ ~Asleep(row[t], now)
      ~> row[t].wake = 0 \/ Asleep(row[t], now) \/ row[t].deleted
=============================================================================
