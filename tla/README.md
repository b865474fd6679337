# tix, modelled in TLA+

tix is a task tracker built for people and agents that work from one queue.
Several processes open the same database: a command line, an exec wrapper, a
server with HTTP, SSH and browser front ends, and the background workers of
every server.  What keeps them apart is a lease on a task, conditional SQL
statements and optimistic versions.  These modules model that core, check it
with TLC on small instances and prove it with TLAPS for instances of any size.

## The system and its parts

| Part | State it keeps | Operations | Talks to | Hard behaviour | What makes it correct | Module |
|---|---|---|---|---|---|---|
| Claims and leases (`service/claim.go`, `reclaim.go`) | holder, token, expiry and expiry evidence of each row of `tasks` | claim, claim next, renew, release, sweep, force reclaim | store, policy, workflow, outbox | overlapping transactions, lapses, stale tokens, listings overtaken | a worker holds what it was told; a live lease is never taken over; a finished task is never claimed | `TaskLease`, `LeaseContract` |
| Task service (`task.go`, `artifact.go`, `recurrence.go`) | status, fields, version, completion time, successor link | create, edit, transition, route, delete, restore, artifact | claims (the token guard), workflow | full-row writes from a snapshot, versions, two finishes at once | status follows the workflow, versions are honoured, one successor | `TaskLease` |
| Snooze (`snooze.go`) | wake time | snooze, unsnooze, wake pass | store | a snooze moved under the wake pass | a snooze ends on time and never early | `TaskLease` |
| Write transaction (`tx.go`, `store/*/tx.go`) | one open transaction per call | begin, commit, roll back | every service call | SQLite: one writer; PostgreSQL: READ COMMITTED | what was checked still holds when it is written | all |
| Exec wrapper (`cmd/claim.go`) | one lease, a ticker, a child process | claim, start, renew, release | claims | slow and lost answers, an interruption, a renewal that fails | it holds the lease while it renews; a late one touches nothing; what it leaves behind lapses | `ExecWorker` |
| Lease policy and sweeper (`lease/`) | none; a ticker | grant, narrow, cap; sweep on a tick | claims | batches, clamping, ceilings at several levels | everything lapsed is swept; a ceiling is never raised | `LeasePolicy`, `TaskLease` (the loop) |
| Workflows (`core/types.go`, `workflow.go`) | states, edges, flags | edit, import, migrate | tasks | an edit while tasks move | no task in a state that is gone | constants of `TaskLease` |
| Parents and dependencies (`task.go`, `dep.go`) | `parent_id`, `task_deps` | create, move, link, unlink, delete with the subtree, restore | claims (eligibility) | cycles closed by two calls at once, trees that grow under a deletion | no cycle of either kind; work never deadlocks; a deletion orphans nobody | `TaskGraph` |
| Copies, imports of tasks and snapshots, housekeeping (`copy.go`, `transfer.go`, `taskimport.go`, `housekeeping.go`) | none of their own | create, relink, delete, purge | the same rows | a whole hierarchy judged at once, over what is stored | a sound hierarchy is linked whole | `TaskGraph` |
| Event outbox and tailer (`outbox/`, `store/*/event.go`) | `events`, the cursor of each tailer | append, read since, prune, retry | every write, readers, webhooks | sequence order against commit order, pruning | no event skipped, none twice | `EventLog` |
| Live events (`server/events.go`, `httpapi/hub.go`, `ws.go`) | one reader per tenant, connections, subscriptions, queues | register, unregister, subscribe, resume, replay, activate, broadcast | tailer, clients | replay handed over to live, slow clients, the last one leaving as another comes, a reader that dies | a client is handed every event above its cursor in order, or is told it cannot be | `EventStream`, `EventFeed` |
| Webhooks (`webhook/`, `store/*/webhook.go`) | deliveries with their own leases and schedules | record, claim, post, mark, redeliver, prune | outbox, HTTP | a batch outliving its lease, retries, a dispatcher that dies, outcomes that are not recorded | every delivery settles; none is called delivered unaccepted or given up early; no two live hands | `Webhooks` |
| Worker supervision (`server/workers.go`, `server.go`) | running workers, their tickers | start, restart, stop | all loops | panics, shutdown, a listener that fails | a worker that panicked works again; a cancelled server returns | `ServerProcess` |
| Presence (`presence/`, `store/*/server.go`) | one row per server | register, beat, forget, remove | store | a crash without goodbye, a lost row, a registration at the end | a running server is listed; one that stopped is not | `ServerProcess` |
| External sync (`service/sync.go`, `sync/`) | a cursor per source, a reference per record | run, full refresh, edit and delete a source | task service, an outside system | runs that fail, die or overlap; a source that moves while it is paged | the cursor passes over no record; a record becomes one task | `ExternalSync` |
| Retention (`retention/`, `prune.go`) | policies | prune in batches | outbox, deliveries, audit | pruning under readers | nothing within the window is pruned | as an action of `EventLog`, `Webhooks` |
| Authentication, accounts (`auth/`, `service/auth*.go`) | users, tokens, sessions | sign in, check | every call | not concurrent | out of scope here | |
| HTTP, MCP, CLI, TUI, web, SSH, calendar, markdown | none that the service does not keep | I/O and presentation | service calls | | out of scope here | |

Every mutating call goes through `Local.write`: it opens a transaction, reads
the clock once (`m.now`), loads what it works on, checks it, runs its
statements, writes its audit entries and events, and commits.  Nothing else
writes.

## Modules

### Leases

`LeaseContract.tla` is the abstract specification: what the lease calls of
`store.ClaimTx` promise, each call one step.  A lease is a token and an expiry;
it is taken only where none runs, extended together with what its holder is
told, ended by a release or a reclaim, cleared only when it lapsed.

`TaskLease.tla` is the detailed one.  It models the rows of `tasks` and every
service call that takes, extends, ends or depends on a lease, on both engines.

| In the module | In the code |
|---|---|
| `row[t]` | the row of a task: `status`, `completed_at` is set, `recurrence_next_id` is set, `claimed_by_actor_id`, `lease_token`, `lease_expires_at`, `lease_expired_by`, `version`, `snoozed_until`, `deleted_at` |
| `req[p]` | the transaction a process has open: `m.now`, the input, and the task it loaded |
| `told[k]` | what the holder of a token was last answered (a history variable) |
| `spawned[t]` | rows inserted by `spawnOccurrence` for a task (a history variable) |
| `Open`, `CanOpen` | `beginWrite` (SQLite) and `begin` (PostgreSQL) |
| `Read`, `Checks` | the load and the checks made on what was loaded |
| `Claim` ... `Unsnooze` | the conditional statements of each call and its commit |
| `List`, `Sweep`, `WakeSnoozed` | the two halves of the sweeps: the listing, then the row by row clear |
| `Abort` | a refusal, a cancelled context, a crash: the transaction rolls back |

A call has three steps because that is where other processes can come in: after
it begins (`m.now` ages), and after it has loaded the task (the snapshot ages).
The statements and the commit are one step: the first statement that matches
takes the lock on the row, and nothing else reaches the row before the commit.
Under PostgreSQL an `UPDATE` evaluates its `WHERE` on the newest committed row,
which is what the actions do.  `RenewLease` and `ReleaseLease` compare with the
store's own clock, read when the statement is built, hence `SentAt`: any time
between the load and now.

Abstractions, and what they leave out:

- One clock for all processes.  tix relies on it too: expiries are compared
  across processes.  A tick is an arbitrary stretch of time.
- `minted` counts tokens; the code draws them at random, and they are taken to
  be distinct.  A token a client presents may be any that was ever minted, its
  own or not.
- A holder is the process that claimed; the code records an actor, and claims
  on another's behalf are not modelled.
- The queue pick chooses any eligible task.  Dependencies, filters and priority
  only narrow the choice and do not enter the properties here.
- Leases of any length in `TTL` may be granted; the levels that decide it are
  those of `LeasePolicy.tla`.  `OwnLease` says whether the length before and after
  the pick of a queue claim can differ.
- Completion is a flag, not a time; started times, titles, comments, tags,
  custom fields and the audit are data no property is about.
- Soft deletion only, no subtrees.  A route of transitions is a client making
  its transitions one after the other, which it may do here.
- A sweep that clears several rows does so at once.  On SQLite nothing can come
  in between; the PostgreSQL runs list one row at a time.
- The calls in `Blind` use nothing of what they loaded once it is checked, so
  the model does not keep it.

`LeasePolicy.tla` is the choice of a length, with no state: `Grant`, `Narrow` and
`Cap` of `lease/lease.go`, how `leasePolicy` and `leaseGrant` put the deployment,
the tenant, the project, its workflow and the task together, and what the calls
that store a length accept (`checkProjectLease`, `checkTaskLease`).  Lengths are
whole seconds, positive, negative or 0 for none.  `MCTaskLease` compares it with
a reference written another way, over four levels and three ceilings of five
lengths each (`GrantIsTheReference`, `CeilingIsTheLeast`); TLC evaluates both in
every run of that module.

`ExecWorker.tla` puts the wrapper `tix claim exec` on top of `LeaseContract`, which
it extends: the store is the one-step contract, and what is added is time.

| In the module | In the code |
|---|---|
| `run[w].pc` | where `claimExecCmd` is: claiming, moving the task to its start status, running the child, releasing, gone |
| `run[w].renewer`, `due`, `next`, `period` | the goroutine of `renewInBackground`, the one tick its channel holds, and the ticker |
| `waited` | how long the call under way has taken |
| `Acquire`, `Begin`, `Release`, `Renew`, `RenewFails` | `acquire`, `startStatus`, the release, one renewal and its error, each with an answer that may be lost |
| `Quit`, `ChildExits`, `Gone` | an interruption, the end of the command, the end of the process, after which a renewal already sent may still arrive |
| `Sweep`, `Reclaim` | everybody else |

A call takes effect as it is answered, or is never answered.  `Prompt` bounds what the clock
may do: a call takes up to `Delay`, and a goroutine takes its tick as it comes.
`PromptAssumption` says that lengths are long against that: without it the
renewal is late by arithmetic (an interval of a third of the *first* length
granted, a later renewal granted less; a lease of a second or less, whose first
tick comes when it has lapsed).  The command's own context is not modelled: a
child is killed with the process that was interrupted.

### The event log and its readers

`EventLog.tla` models the outbox of one tenant: writers that draw numbers and
commit them later, holes left by rollbacks and by other tenants, pruning from
the front, and what `ReadEvents`, `LatestEventSeq` and `OldestSeq` return.

`EventStream.tla` extends it with the live events of that tenant in one server
process, down to the client's cursor.

| In the module | In the code |
|---|---|
| `drawn`, `open[w]` | the `AUTOINCREMENT` counter (a sequence on PostgreSQL), and the numbers a transaction has inserted but not committed |
| `log`, `ever` | the rows of `events`; every event ever committed (a history variable) |
| `listening`, `running` | `Hub.conns` and the tenant's entry of `pumps.running` |
| `pump[p]` | a `pump` goroutine with its `Tailer`: context cancelled, cursor, rest of the page, the event in `Broadcast` and the rest of its `snapshot` |
| `conn[c]` | a `wsConn` and its subscription: `maxSeq`, `pending` (`backlog`), `send` (`queue`), `closed`, and where `replay` is |
| `seen[c]` | the highest `seq` the client handled, which it resumes from |
| `got[c]`, `base[c]` | what the client was handed, and the number above which it was promised everything (history variables) |
| `Register`, `Unregister`, `Crash` | `Hub.Register`, `Hub.Unregister` with their tenant hooks under `hookMu`; the process going down |
| `SubscribeLive`, `Resume`, `Refuse` | `subscribe` and `resolveFilter` |
| `ReplayRead`, `ReplaySend`, `ReplayFail` | `replay`, page by page and event by event |
| `Activate`, `Flush`, `GoLive` | `activate`, which holds the subscription's lock throughout, so `PumpRoute` waits |
| `PumpOpen` ... `PumpEnd` | `pumps.run`, `Tailer.run`, `Broadcast`, `route`, `send` |
| `Deliver` | `writeLoop` |

A `Broadcast` is one step per connection, since connections come, go, replay and
flush between two of them.  A reader that was cancelled may still hand over what
it has read (both branches of its `select` are ready) and so may run beside its
successor.

`EventFeed.tla` is the abstract specification `EventStream` implements on the
single writer: no connections, readers or queues, only clients with a cursor
that receive the next event they were promised, join, or are refused.

Abstractions of the stream, and what they leave out:

- One tenant, one server process, one connection per client at a time with one
  subscription.  The readers of different tenants share nothing but the counter,
  which `AppendElsewhere` draws from.
- Acknowledgements, pongs and errors take no place in the queue; the filter and
  the credential are the set `Wants`.
- A subscription without a cursor is checked, added and activated without a
  pause (`addSub` up to `activate`): what arrives in between is held and then
  flushed, which is what waiting for the flush does.
- Retention removes any prefix of the log.  `Quiet` says whether it may empty
  it, which takes a tenant that writes nothing for a whole retention window.
- `service.Subscribe`, which tails the log directly and is what holds the
  pruner's floor back, is left to a later module; the floor of connections is the
  latest number, as `subscribers.floor` knows none of them.

### Webhooks

`Webhooks.tla` models the delivery queue: rows written with the event they
announce, and the dispatchers that claim, post and mark them.

| In the module | In the code |
|---|---|
| `row[x]` | a row of `webhook_deliveries`: `status`, `attempts`, `next_attempt_at` (`due`), `locked_until` and its owner (`lock`, `by`) |
| `disp[d]` | a pass of `Dispatcher.pass`: the jobs loaded by its claim with the attempts they had, and the one just answered |
| `left` | what is left of the lease of the batch, which the code never looks at again (a history variable) |
| `accepted`, `lost` | what a receiver answered with success; whose lock another's write has cleared (history variables) |
| `Record`, `PutWebhook`, `DeleteWebhook`, `Redeliver` | `webhook.Enqueue` within the mutation, and the calls of `service/webhook.go` |
| `Claim` | `Dispatcher.claim` with `ClaimDeliveries`: lock up to a batch of due rows, read back what is locked, fail for good what cannot be loaded |
| `Post`, `Mark`, `MarkNothing`, `MarkFails` | `send` outside any transaction; `attempt` with `MarkDelivered` or `MarkFailed` by the identifier alone, on a row that has gone, or failing |
| `PruneEvents`, `PruneDelivery` | retention of both tables |
| `Die`, `Tick` | the end of a process, the wall clock |

Times are kept as what remains until them and counted down together, so the
clock needs no bound.  A request is one step: what can happen between its
beginning and its end can happen before it as well.  Signatures, redirects, the
checks of an address and the body are not modelled: they make an attempt fail.
PostgreSQL (`SKIP LOCKED`) and SQLite pick the same rows; the claim is one step
on both.

### Parents and dependencies

`TaskGraph.tla` models `parent_id` and `task_deps` under every call that changes
them, on both engines.

| In the module | In the code |
|---|---|
| `state`, `parent`, `deps`, `done` | a row that is absent, live or in the trash; `parent_id`; `task_deps`; whether `completed_at` is set |
| `req[c]` | a call that has loaded and checked, and has yet to write |
| `PathExists`, `ClosesCycle`, `Walk`, `Subtree` | the recursive probe of `queries_deps.go`, `closesParentCycle` as what it decides and as the loop it is, `deleteOrder` |
| `CheckCreate` / `WriteCreate` ... | the two halves of `CreateTask` (with copies, templates, recurrences and imported rows), `UpdateTask`, `AddDependency`, `DeleteTask` with its subtree |
| `CheckImport` / `WriteImport` | `linkParents` of a snapshot and `linkRow` of a task import: all links judged with all others in place |
| `Rewrite`, `Tombstone`, `RemoveAbsent` | what an import does to a row it finds |
| `TrashFinished`, `PurgeTrashed` | housekeeping |

Abstractions: one project; the bound `maxSubtreeSize` on the walk and on
a subtree is not reached; a call that writes by one conditional statement is
one step; an import is the sequence of its rows and its links, which on the
single writer are the transactions it makes.

### A server process

`ServerProcess.tla` models `Server.Serve`, the supervision of its workers and
the registry of servers.

| In the module | In the code |
|---|---|
| `main[s]`, `cancelled[s]` | where `Serve` is, and its context |
| `pc[s][w]`, `armed[s][w]` | a worker's `Run` under `superviseWorker`, and whether its ticker still fires |
| `row[s]`, `registered[s]` | the row of `servers` as its age in beats, and what the registrar believes of it |
| `left[s]` | the last attempt to remove the row has failed, or a panic came between a registration and the line that defers its removal (a history variable) |
| `Fire`, `Pass`, `Panic`, `Restart`, `GiveUp`, `Leave` | one turn of a worker's loop, the deferred calls of a panic, `waitFor`, the end of the context |
| `Start`, `Refresh`, `RemoveOnStop` | `Registrar.Run`, `Register`, `Beat`, `removeOnStop` |
| `Serve`, `Cancel`, `AcceptFails`, `Shutdown`, `Return`, `Kill` | the life of the process |
| `Lose` | an operator, a restored backup: a row that somebody else removes |

`Prearmed` are the workers whose constructor makes the ticker their `Run` stops
(the dispatcher and the pruner); the others make it in `Run`.  What a pass does is the business of other modules; here
it works, ends or panics.  An identifier is used once: a process that is started
again is another member of `Server`.

### External sync

`ExternalSync.tla` models `RunSync` over a source that changes, and everything
that can come between its pages.

| In the module | In the code |
|---|---|
| `src[r]`, `now` | when a record was last updated at the source, by the source's clock |
| `row` | the row of `sync_sources`: there or not, and its cursor |
| `task[r]`, `ref[r]` | the tasks a record was imported as, and its row of `external_refs` |
| `run[w]` | a `syncRun`: its own cursor, page, the records as read, the plan of a page |
| `edit` | an edit of the source that has read it and has yet to write it |
| `run[w].skips` | what the run's result counts as skipped (`syncRun.skip`); it is returned, and stored with the audit entry, by `Finish` alone |
| `skipped`, `calm`, `alone`, `began` | what a committed page has left out, whether anybody was told or not; whether runs have disturbed one another; what the source held when a run began (history variables) |
| `Begin`, `Fetch`, `Decide`, `Write`, `Finish`, `Fail` | `RunSync`, `Importer.Fetch`, `decide`, the transaction of `consume` with `advance`, `finish`, `fail` |
| `WriteFails`, `CommitFails` | a page rolled back before and after `advance` has moved the run's own cursor |
| `EditRead`, `EditWrite`, `DeleteSyncSource` | `PutSyncSource` in its two transactions, and the deletion |
| `Keep`, `Change`, `Die` | people at the imported tasks, the source, the end of a process |

Abstractions: what a record says is its version; which records a mapping refuses
is any subset of a page; a result counts every skip and
warns of the first 200 (`maxSyncWarnings`), and here it counts them; the retries of the HTTP client are part of
`FetchFails`; a dry run writes nothing and is left out; credentials and field
mappings are data.  `Paged` distinguishes a system that answers pages by offset
(Jira, OpenProject) from a file read once.

### Instances

The modules named `MC...` hold the constants of the runs.
The operators named "Mutant of ..." stand just before the definition they
distort: replacing the definition by its mutant must break the property named
in `PROJECT.json`, which shows the property is sensitive to the code.

## Runs

Two actors race over one task, delivery or source in most runs: every
disagreement below needs no more, and the statements of a call never touch a
second task (`TaskGraph`, where they do, has three).

| Run | Shows |
|---|---|
| `sqlite` | all calls and both sweeps on the single writer: `ToldIsStored`, `ChecksStillHold`, `OneSuccessor`, `FinishedIsCompleted`, `LiveLeaseEndsOnlyOnPurpose`, `StatusFollowsWorkflow`, `FinishedIsNeverClaimed`, and `ImplementsContract`, the refinement |
| `sqlite_live` | `LapsedIsSwept`, `PassedSnoozeIsCleared`: two tasks, two leases, one row per sweep, so rows that lapse together compete for the batch and one outlives its turn |
| `postgres_work` | `SnoozeIsKept` with overlapping edits, transitions, snoozes and the wake pass |
| `exec` | two wrappers with slow and lost answers over the contract: `LeasedWhileRenewed`, `LeftBehindLapses`, `ZombieTouchesNothing`, and the types |
| `stream` | two clients, two writers, failing reads, crashes and pruning on the single writer: `NothingSkipped`, `OneReader`, `AcceptedResumeIsComplete`, `ImplementsFeed` (the refinement), and the types |
| `stream_live` | `LiveGetsEvents` with one client that may come and go and a log of four |
| `webhooks` | a server's dispatcher and an inline drain that may die: `OneLiveClaim`, `DeliveredWasAccepted`, `SettledReopensOnlyLate`, `FailedOnlyWhenSpent`, `EverySettles` |
| `graph` | two clients, three tasks, every call, imports and housekeeping on the single writer: `NoParentCycle`, `NoDependencyCycle`, `SoundImportIsWhole`, `WalkFindsTheCycle`, `DeleteOrphansNobody` |
| `server` | a process with a worker of each kind and one with its registrar alone: `StoppedLeavesNoRow`, `SelfArmedWorkerWorks`, `RunningServerIsListed`, `ServeReturns` |
| `sync` | two runs of a source that pages, full refreshes, edits and people: `NothingPassedOver`, `ImportedOnce`, `FinishedRunIsComplete`, `CursorFallsOnPurpose`, and the types |

Properties that are proved for every instance and follow from a stronger one a
run checks have no run of their own: the types of `TaskLease`, `Webhooks`,
`TaskGraph` and `ServerProcess`, `CommitsInOrder`, `SomeTaskCanStart` (from
`NoDependencyCycle`), the contract's own `ToldIsStored` and `NeverStolen`, and
`VersionedWritesAreCurrent`, `LeaseBoundWritesHoldTheLease` and
`ReclaimTakesTheLeaseRead` (from `ChecksStillHold`).

The bounds, and why they are enough.

*Leases.*  `MaxTokens` 2: a lease, and one that
follows it.  `MaxTime` 2 with leases of length 2: live, about to lapse, lapsed,
and renewed past the end; the comparison at the very instant of expiry happens.
In `sqlite_live` the two are held on both tasks at once, or one after the other on
one task, so that a lapsed row is swept late or retaken first; nobody renews there,
which puts off an end that comes all the same.
`MaxVersion` 6: a recurring task is finished, reopened and finished again.
No run sets
`OwnLease`: with it `ToldIsStored` fails (below), and `LiveLeaseIsSafe` is proved
for both of its values.  `postgres_work` has no tokens because the calls it
races need none; what overlapping transactions do to a live lease on PostgreSQL
is not run but proved (`LiveLeaseIsSafe` holds of both engines).

*Exec.*  `Delay` 1 and `MinInterval` 1 with lengths 6 and 7 are the shortest
that satisfy `PromptAssumption` with two lengths, so that intervals, a lease
that is granted shorter on renewal, and a call that takes its full time all
differ.  `MaxTime` 9 holds a lease, its renewal and the lapse of what the
renewal left; two tokens, and one answer that is lost.

*Streams.*  Pages, queues and backlogs hold one message (`Batch`,
`QueueLimit`, `BacklogLimit` 1), so that a page boundary, a full queue and a full
backlog come with two events.  One client is `Returning`: it starts with a cursor
from before the server did, so with `MaxSeq` 3 two events can follow its cursor,
one to fit and one to overflow, or one to lose and one to notice the loss by; the
other client has none and joins live.  The live run goes to 4.  One client does not want the second event, so a cursor can
pass an event without a delivery.  Two readers (`Pump`) are one that was
cancelled and has not ended, and its successor: a third starts no sooner than
one of them ends.  One read fails (`MaxFaults`) and `RetryLimit` is 1, so that it
ends the reader; the retry before that is not exercised by the passing runs, and
changes nothing but the count of failures.

*Webhooks.*  One delivery: rows meet only in a batch, and what the rest of a
batch does to one of them is to let time pass before its post, which `Tick` does
as well.  Two deliveries are beyond an exhaustive run with liveness (more than
eight million states); batches of any size are proved instead, except
`EverySettles`.
`Lease` 2 with two retries of 1 and 2 ticks: an attempt may come due
before, with and after the end of a lease; one redelivery and one outcome that
is not recorded.

*Graph.*  Three tasks are the shortest cycle that two links close and that
neither closes alone with a third on the way; longer ones are proved.

*Server.*  `Stale` and `Forget` are 0: what matters is that a row which nobody
refreshes stops counting and that another's registration removes it, and both
then happen within two beats.  One fault of any kind (a panic, a failed write,
a lost row, a failed listener).

*Sync.*  Two records, pages of one, two instants: records that share the
cursor's instant, a page that ends between them.  People touch the task of one
record (`Touched`), and runs overlap while the source holds no more than one
(`Contended`), which keeps the two apart; `ImportedOnce` is proved without
either bound.  `MaxCopies` 2: a task, and one after it was purged.

Clients, writers, workers, runners, and in `graph` tasks too, are symmetric
where a run checks no liveness.  Only `exec` switches deadlock checking off: its
clock ends, and so do its processes.

### Where code and documents disagree

Two runs have one property each, quoted from the repository, and TLC finds it
violated by what the code does (the lines are in `PROJECT.json`).

| Run | Engine | What happens |
|---|---|---|
| `stream_postgres` | PostgreSQL | a writer that drew the lower number commits after the higher one was delivered: its event is never delivered, live or on resume |
| `server_ticker` | both | a dispatcher or pruner that panicked is run again on the ticker its first run stopped, and waits for ever without an error |

The others were found in the same way and are described here.  Changing the
constant named, or adding the property, in the configuration of the run named shows them.

Leases, on PostgreSQL (`sqlite` with `Engine = "postgres"`).  They share a cause,
a snapshot that nothing locks, and a remedy: repeat the check in the statement,
or lock the row at the load.

- `ToldIsStored`: the token guard "renews" to the expiry it loaded and so undoes
  a renewal that committed in between (`service/claim.go:578`).  Its holder
  believes in a longer lease than the row has.
- `FinishedIsNeverClaimed`: a task finished between the load and the statement
  of a claim is claimed (`service/claim.go:129`).
- `VersionedWritesAreCurrent`: two updates that name one version both land
  (`service/task.go:895`).
- `OneSuccessor`: two overlapping finishes of a recurring task both insert a
  successor (`service/recurrence.go:16`).
- `StatusFollowsWorkflow`: an overlapping edit puts back a status.
- `LeaseBoundWritesHoldTheLease`: a tokenless transition lands under a new lease.
- The evidence of a lapse names the holder the sweep listed, not the one whose
  lease it clears (`service/claim.go:477`).
- `ReclaimTakesTheLeaseRead`: the holder is compared, not the lease.

Leases, on both engines:

- `CompletedIsFinished` (`sqlite`): a release to an open status leaves the
  completion time of a finished task, which `core/types.go:552` says is cleared
  when the task leaves a terminal state.
- `ToldIsStored`, with `OwnLease`: a queue claim ignores that its second
  statement matched nothing (`service/claim.go:279`).  It takes a default length
  that runs out within the transaction.
- `LeasedWhileRunning` (`exec`): one failed renewal ends the goroutine,
  whatever the error (`cmd/claim.go:402`), and the command runs on when the lease
  has lapsed; `openspec/specs/claim-lease/spec.md:512` has the lease renewed for
  as long as the command runs.
- The ceiling of a deployment replaces the built-in one (`Configured`): with
  `lease.max` at 48 hours a claim may hold for two days, while
  `docs/configuration.md:239` has the built-in 24 hours among the ceilings of
  which the lowest counts, and `lease/lease.go:29` calls them the longest lease
  any claim may take.
- The built-in workflow stays built-in when it is defined again
  (`service/workflow.go:38`), so its `default_lease` never counts
  (`workflowLease`): `docs/configuration.md:234` and
  `service/claim.go:31` have the flag cleared by that call, "and from that point its
  lease is a choice and outranks the tenant's again".
- Nothing checks the `default_lease` of a workflow.  A negative one refuses every
  claim that no level above it speaks for, which is why
  `OnlyTheCallerIsRefused` has to exclude it.
- `PromptAssumption` is not guaranteed: the interval is fixed by the first
  length granted while renewals may be granted less, and a lease of a second or
  less lapses before its first tick.

Live events, on both engines:

- `NothingSkipped`, with `Quiet` (`stream`): a reader started on an empty log subscribes
  from 0, which the tailer takes as "from the latest" and reads again
  (`server/events.go:144`): an event committed in between reaches neither the
  replay nor the reader.  It takes an empty log: a tenant's first event, or one
  after retention removed all others.
- `AcceptedResumeIsComplete`, with `Quiet`: the oldest number of an emptied log
  reads as 0, so a cursor whose successors were all pruned is accepted
  (`server/events.go:37`, `httpapi/ws.go:263`).  The cursor is also judged before
  the replay reads: what retention removes in between is skipped.
- `ListenerHasReader` (`stream`): a reader that gave up, or could not take its
  cursor, is replaced only when the tenant's connections have all gone and one
  comes back, not by "the next listener" of `server/events.go:182`.

Webhooks, on both engines:

- `DeliveredStaysDelivered` (`webhooks`): a mark finds its row by the identifier
  alone (`store/postgres/webhook.go:251`), so a dispatcher whose lease ran out
  turns a delivered delivery back to pending, and it is posted again;
  `openspec/specs/webhooks/spec.md:120` says it "is marked delivered and is not
  retried".  A batch of 16 with a timeout of 10 seconds each outlives the lease
  of 30 seconds.

Parents and dependencies:

- `NoParentCycle`, `NoDependencyCycle` on PostgreSQL (`graph`): two calls, each of which closes
  no cycle, close one together (`openspec/specs/task-management/spec.md:102` and `:126`).
- A restored task, a tombstone, an import that replaces, or a hard deletion by
  another call may leave a live task under a deleted parent, which
  `openspec/specs/data-model/spec.md:150` excludes of a deletion.
- An import still gives a new parent to a task it "kept" as more recent than its
  snapshot (`service/transfer.go:1195`).

Servers:

- When accepting fails, `Serve` waits for its workers without cancelling them
  (`server/server.go:220`): until somebody else cancels the context it does not
  return.

- A panic after the first registration has returned and before its removal is
  deferred (`presence/registrar.go:189`) leaves a row that looks like a crash, unless
  the registrar is run again and ends in order; only an error handler runs there.
  `StoppedLeavesNoRow` excepts it.

External sync:

- A page that fails after `advance` has moved the run's cursor is rolled back,
  and `fail` stores that cursor (`service/sync.go:610`): the page is passed over.
  `openspec/specs/external-sync/spec.md:151` says the cursor advances only on success.
  `CommitFails` is that step; the properties exclude what follows it until a
  full refresh (`calm`).
- A run that fails or dies reports none of what its committed pages have skipped,
  though the stored cursor has passed those records and the next run does not read
  them again: a skip is kept in the run's result (`service/sync.go:946`), which only
  `finish` returns and puts in the audit entry (`:635`); `fail` stores the cursor and
  drops it (`:648`, `:426`).  `service/sync.go:614` calls that entry the durable
  account of the run.  So `NothingPassedOver` promises that such a record was
  decided on, and only `FinishedRunIsComplete` that a result counts it.
- Offset paging skips a record when another is updated between two pages
  (`sync/jira/jira.go:102`).
- Overlapping runs put back an older version of a record, and write back the
  whole row of their source, so that an edit is lost and a deleted source is
  inserted again.
- `ImportedOnce` on PostgreSQL (`sync` with `Engine = "postgres"`): two
  overlapping runs both create a task, because `PutExternalRef` takes an existing
  reference over; `service/sync.go:362` says a second run "refreshes rather than
  duplicating".

Workflows, which are constants here: an edit that drops a state counts live
tasks only (`service/workflow.go:210`), and a task restored from the trash comes
back in the dropped state (`openspec/specs/workflows/spec.md:243`).

### Fairness

`FairSpec` of `TaskLease` assumes that the clock advances; that both sweeps are tried for ever
(`lease.Sweeper.Run` and the snooze waker loop on a ticker, and go on after an
error); strong fairness of their steps, since a try may find the database busy
or be cancelled, but not always; and that a client that has opened a transaction
ends it one way or another, for the store holds the connection under a context.
Nothing is assumed of clients otherwise: they need not renew, release or come
back.

`LiveSpec` of the stream assumes weak fairness of what goroutines do without
waiting for anybody but each other: the replay of a connection, its activation,
its writer (a client that stays connected keeps reading, or the write deadline
ends it), the end of a failed connection, and of a reader its opening, its next
read or broadcast, each offer of that broadcast, and its end when cancelled.
Nobody has to connect, write, prune or fail.  `stream_live` allows no failing
read, because a reader that gave up is not replaced (`ListenerHasReader`).

`FairSpec` of the webhooks assumes that the clock advances, and weak fairness of
the dispatcher of one server that stays up: it drains on a ticker, and a request
ends within its timeout.  Drains of other processes may stop anywhere.  A
dispatcher that panicked does stop (`server_ticker`), so `EverySettles` is about
servers whose dispatchers do not panic.

`LiveSpec` of the server process assumes weak fairness of each worker's steps,
of the shutdown and of the return, and strong fairness of a worker's leaving: a
Go `select` that finds both a tick and the end of its context picks one at
random, so a worker that comes by again and again leaves in time.  A killed
process owes nothing.

## Proofs

`LeaseContract_proofs.tla` proves of the contract, for any sets of tasks and
expiries, `ContractToldIsStored` and `ContractNeverStolen`.

`TaskLease_proofs.tla` proves of the detailed specification, for every value of
the constants allowed by the named assumptions:

- `TypeCorrect`, both engines.
- `LiveLeaseIsSafe`, both engines: `LiveLeaseEndsOnlyOnPurpose`.  Its invariant
  is `Base`: besides the types, `WellFormed` (the lease columns are null
  together), `OneLengthIsGranted` (without a length of its own a queue claim
  is granted one length) and `Clocks` (no transaction has read a clock that is
  ahead).  `Clocks` is what makes a lapse judged at `m.now`
  still a lapse when the statement runs; the proof then goes action by action,
  and shows for each that it keeps the token of a live row or is a release or a
  reclaim.
- `ChecksAreNotStale`, single writer: whatever a call checked still holds.  The
  invariant adds `OneWriter` (no two transactions are open) to `Base`; without
  it `ChecksStillHold` is not inductive, as any commit could invalidate it.
- `SqliteImplementsContract`, single writer and no lengths of the tasks' own:
  `Spec` implies `Contract!Spec`.  Every action maps to a step of the contract
  or to a stutter: `Claim` and `ClaimNext` to `Take`, `Renew` to `Extend`,
  `Release` and `Reclaim` to `End`, `Sweep` to `Clear`, and the guarded writes to
  a stutter, because on one writer the guard rewrites the expiry the row has.
- `SqliteToldIsStored`: the promise of the contract, carried over.
- `SqliteNeverClaimsFinished`, `SqliteVersionsAreCurrent`,
  `SqliteLeaseBoundWrites`, `SqliteReclaimsTheLeaseRead`: each of these follows
  from `ChecksStillHold` at the step in question.
- `SnoozesAreKept`, both engines: `SnoozeIsKept`.  The invariant (`Named`) says
  that what the wake pass listed had passed on the clock it read, and its
  statement repeats the wake time it listed; that every other statement leaves
  the wake time alone, even one that writes back a row loaded before, is shown
  statement by statement (`Wrote`).
- `FinishedTasksAreTimed`, both engines: `FinishedIsCompleted`, of every workflow
  in which no open state reverts to a terminal one (`RevertsStayOpen`).  The
  sweep writes the status and leaves the completion time
  (`service/claim.go:477`).  `WorkflowInput.Validate` (`core/input.go:506`) does
  not enforce the hypothesis, it asks only that the state exists; the workflow
  that is shipped satisfies it.  The invariant carries "terminal means timed"
  over to the copy of the row each open transaction has loaded (`AllTimed`),
  because an edit writes back the status and the time it read.
- `SqliteOneSuccessor`, single writer: `OneSuccessor`.  A task that produced a
  successor keeps its mark (`Marked`), and whoever finishes it again has loaded
  the mark (`ChecksStillHold`).
- `SqliteStatusFollowsWorkflow`, single writer: `StatusFollowsWorkflow`; what the
  sweep does of it rests on `Named` as well: a lease that is held has a holder to
  put on record.

`ClientsAssumption` keeps the sweeper and nobody apart from the clients.

The same module proves what `LeasePolicy` is relied on for, whatever its levels say:
`GrantsStayUnderEveryCeiling` (which is what `TTLAssumption` asks of `TTL`),
`LowerCeilingsOnlyShorten`, `AcceptedLengthsAreGranted` (what a task or project
was allowed to store is what its claims get while the levels stand),
`OnlyTheCallerIsRefused`, and `QueueClaimsKeepTheirLength`, on which the guard of
`Begin` without `OwnLease` rests.  They follow by cases from what `Cap`, `Shipped`
and `Chosen` return.  `OnlyTheCallerIsRefused` supposes that no stored length is
negative; of the workflow's that is only a supposition (see above).

`ExecWorker_proofs.tla` proves, for any number of workers and tasks and all
lengths, delays and intervals allowed by `PromptAssumption`, `ExecTypeCorrect`,
`RenewingHoldsTheLease` (`LeasedWhileRenewed`), `LeftBehindIsFreed`
(`LeftBehindLapses`) and `ZombiesTouchNothing` (`ZombieTouchesNothing`).  The
invariant is a budget of time (`Enough`): what a worker was last told lies
far enough ahead for the ticker to fire once more and for the call it makes then
to take as long as it may; `Ticked` ties the interval to the length that was
first granted, `InTime` bounds the call under way, `AtMost` bounds the same
expiry from above for a worker that has gone, and `OwnTokens` keeps a lease the
one worker's.  The store's part is the contract's `StoredIsTold`, proved there.
`ExecImplementsContract` says that the wrapper is an implementation of that contract;
`ExecToldIsStored` and `ExecNeverStolen` carry the contract's own promises over.

`EventStream_proofs.tla` proves of the feed, the stream and the log beneath it,
for any numbers of writers, readers, clients and events and any sizes of pages,
queues and backlogs:

- `FeedLosesNothing`: in the feed, a client that resumes from its cursor was
  handed every retained event it was promised.  The invariant adds the types, of
  which one part matters: a cursor is 0 or a committed event, so a published
  event lies above every cursor.
- `CommitsAreInOrder`: on the single writer no event commits below a committed
  one.  The invariant behind it is that what a transaction has drawn is the whole
  top of the numbers up to `drawn`, above everything committed (`TopOf`), and
  that at most one transaction has drawn anything: that is why giving the numbers
  back at a rollback returns the counter to where the transaction found it.
- `StreamTypeCorrect` and `OneReaderAtMost`, both engines: the types, and that
  the hub's entry of a tenant names the only reader that has not been cancelled.
- `ResumesAreComplete`: a cursor that is not refused has lost nothing, on the
  single writer and a log that retention never empties (`~Quiet`: what happens to
  an emptied log is under "Where code and documents disagree").  The invariant
  is `LogIsTail`: pruning has removed a head of what was committed, never the
  whole.
- `StreamImplementsFeed`: with the same two hypotheses every step of the stream
  is a step of the feed or a stutter.  The invariant (`StreamInv`) says where each
  event above a client's cursor is: still to be read by the tenant's reader
  (`PumpOK`, `Coming`), in the page it broadcasts and not yet offered (`InTurn`), in
  the connection's backlog or queue, or in the replay that has yet to read it
  (`Owed`, `ToReplay`), and that each of these is ordered and above what was sent
  (`QueueOK`, `SentOK`, `UnsentOK`).
- `StreamSkipsNothing`: therefore `NothingSkipped` of the stream itself.

`Webhooks_proofs.tla` proves, for any endpoints, dispatchers, batches, leases and
schedules, `QueueTypes`, `ClaimsAreExclusive`, `DeliveredMeansAccepted`,
`OutcomesReopenLate` and `GivingUpTakesTheSchedule`.  One inductive invariant
carries all but the first.  `OneLiveClaim` speaks of leases the code does not
keep (`left`), so the invariant ties them to what it does: a dispatcher whose
lease runs either owns the row's lock with exactly that much left, or another's
write took it away and the pair is in `lost` (`HeldInv`); a row is owned only
while locked (`RowInv`); a count loaded by a claim is no greater than the row's
(`JobInv`); no delivery is twice in one pass (`OneHand`); an answer taken for success was one (`AnswerInv`).

`TaskGraph_proofs.tla` proves seven theorems.  Two hold on either engine:

- `TypesAndForeignKeys`.  A write looks again for every row it refers to, in the
  code by the foreign keys, so nothing that was loaded matters but what a call
  asked for (`Typed`).
- `WalksFindCycles`, for finitely many tasks: the loop by which an import judges
  its links ends, and answers what the chain of the link shows.  `Meets` says in
  terms of chains what the loop finds from a state of it; it is a fixed point of
  one turn of the loop (`MeetsIsATurn`), as the loop is itself (`WalkIsATurn`), and
  there is only one: where two differ they differ after a turn, which leaves fewer
  tasks to see, so the least set of tasks on which they differ cannot be
  (`TurnsAreOne`, by the well-foundedness of finite sets instead of induction).

Five are of the single writer: `ParentsAreAForest`, `DependenciesAreAcyclic`,
`WorkNeverDeadlocks`, `ImportsAreWhole`, `DeletesOrphanNobody`.  Acyclicity is
stated over sets (every non-empty set of tasks has a member with no edge to a
member of it), which needs no induction: a lemma shows that an edge to a task from
which its source cannot be reached keeps it, another that a set of links judged
sound one by one over their common overlay does.  The invariant adds to them that
one call is open at a time (`OneWriter`) and that what it checked is still so
(`Checked`).

`ServerProcess_proofs.tla` proves `ProcessTypes` and `ShutdownIsNoCrash`: a
process that returned has left no row unless its last removal failed or a panic came
before it was deferred, for any workers and processes.  The invariant says where a
row can be while the registrar is not in its loop: nowhere, or left behind in one
of those ways.

`ExternalSync_proofs.tla` proves, for any records, runs, page sizes and sources,
five theorems.

- `RecordsAreImportedOnce`, on the single writer: at most one page is being
  written (`LockInv`), and what is planned for a record is true of it until it is
  written (`PlanInv`), since everybody else waits for the lock.
- `ImportTypeCorrect`, and on either engine `NoRecordIsPassedOver`,
  `FinishedRunsAreComplete` and `CursorsFallOnPurpose`.  They share one invariant
  (`CursorInv`): every cursor that may be stored next (the row's, an edit's, an
  active run's) covers what it claims while the runs are undisturbed
  (`CalmCovers`), an undisturbed run is the only one (`OneActive`) and agrees with
  the row (`Abreast`), and a run that counts is where its listing says it is
  (`SoundRuns`): what changed since it read is newer than its cursor (`Moved`), its
  page is the next stretch of the listing (`OnPage`), its plan fits the page
  (`Planned`), the pages before are in or counted as skipped by the run itself
  (`Brought`) and those to come are no older
  than its cursor (`Ahead`).  A run counts when nothing was passed over before it,
  or when it is a full refresh that nobody disturbed.
  The step that needs care is a page written: its cursor is its last record, and
  covers the pages before only because the listing is sorted.  `Listing` puts a
  record at the number of records earlier than it, so that `ListingSorts` follows
  by counting, without induction over a sort.

Every invariant and action property of the runs is the subject of a theorem.  Only
model-checked are the liveness properties: fairness and ENABLED are beyond the proof
system.  On
PostgreSQL the properties named with the single writer are false, and the runs
or the list above show how.

## Plan

Done: `LeaseContract`, `LeasePolicy`, `TaskLease`, `EventLog`, `EventFeed`, `EventStream`,
`Webhooks`, `TaskGraph`, `ServerProcess`, `ExecWorker`, `ExternalSync`.  Left, in this order:

1. `WorkflowEdit`: edits and migrations of a workflow against moving, trashed
   and restored tasks; project keys and their aliases.
2. `DirectStream`: the tailer of `service.Subscribe` with the registry that
   holds the pruner back, and several subscriptions per connection.
3. The queue pick with dependencies, priority and attempts (`ClaimQueue`).

The modules above are to bring their theorems along.

## Not modelled

Presentation (TUI, web, SSH, CLI output, calendar, markdown), the HTTP, client
and MCP bindings, parsing of queries and quick-add, formats of import and
export, statistics.  They make up most of the lines of the repository, keep no
shared state and change none except by the service calls modelled here, so what
could go wrong in them is in what they show.  Authentication, authorization and
accounts are out of scope: a refusal is `Abort`.  Comments, tags, custom fields,
views, channels, templates and the inbox are independent rows written by one
statement each, whose only hazard is the write transaction they share with
everything else.  They are listed with their reasons in `PROJECT.json`.
