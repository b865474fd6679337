------------------------------- MODULE Webhooks -------------------------------
(***************************************************************************)
(* The webhook delivery queue: rows written with the event they announce,  *)
(* and the dispatchers that claim them, post them and record the outcome.  *)
(*                                                                         *)
(* A pass of a dispatcher is one claiming transaction, then, per claimed   *)
(* delivery, a request outside any transaction and a second transaction    *)
(* that marks the row by its identifier alone.  The claim locks its rows   *)
(* for Lease ticks, but the dispatcher never looks at that lock again: a   *)
(* batch may outlive it.                                                   *)
(*                                                                         *)
(* Every instant the code keeps (next_attempt_at, locked_until) is kept    *)
(* here as the time that remains until it, and Tick counts all of them     *)
(* down together, so the clock itself needs no bound.                      *)
(***************************************************************************)
EXTENDS Integers, FiniteSets

CONSTANTS
  Endpoint,     \* the registered endpoints
  Dispatcher,   \* the dispatchers: a server's, and one per inline drain
  Mortal,       \* the dispatchers whose process may end at any moment
  Batch,        \* per dispatcher, how many deliveries one pass claims
  Lease,        \* how long a claim locks its deliveries
  Retries,      \* how many retries the schedule holds
  Backoff,      \* the backoff before each of them
  MaxSeq,       \* bound on the events committed
  MaxRequeues,  \* bound on the redeliveries asked for
  MaxErrors     \* bound on the outcomes the store fails to record

ASSUME DispatchersAssumption == Mortal \subseteq Dispatcher
ASSUME ScheduleAssumption == Retries \in Nat /\ Backoff \in [1..Retries -> Nat]
ASSUME LeaseAssumption == Lease \in Nat \ {0} /\ Batch \in [Dispatcher -> Nat \ {0}]
ASSUME LimitsAssumption == MaxSeq \in Nat /\ MaxRequeues \in Nat /\ MaxErrors \in Nat

VARIABLES
  endpoint,  \* per endpoint, "active", "inactive" or "gone"
  log,       \* the sequence of the newest event
  pruned,    \* the sequence of the newest event pruned away
  row,       \* per delivery, its row, or NoRow
  disp,      \* per dispatcher, the pass it is in
  accepted,  \* the deliveries some receiver answered with success
  lost,      \* the pairs of a dispatcher and a delivery it has in hand, whose
             \* lock another's write has cleared
  requeues,  \* how many redeliveries have been asked for
  errors     \* how many outcomes the store failed to record

vars == <<endpoint, log, pruned, row, disp, accepted, lost, requeues, errors>>

-----------------------------------------------------------------------------
(* Rows and passes *)

\* UNIQUE (endpoint_id, event_seq): the pair names the row.
Delivery == Endpoint \X (1..MaxSeq)

Nobody == "nobody"
NoRow  == [status |-> "none"]

\* due: the time until the next attempt; lock: what is left of the claim of
\* dispatcher "by", who is nobody once that is nothing.
Row == [status: {"pending", "delivered", "failed"}, attempts: Nat,
        due: Nat, lock: Nat, by: Dispatcher \cup {Nobody}]

NewRow == [status |-> "pending", attempts |-> 0, due |-> 0, lock |-> 0, by |-> Nobody]

\* A claimed delivery as the claim loaded it.
Job == [of: Delivery, attempts: Nat]

\* left: what is left of the lease of the batch, which the code does not keep.
Pass == [pc: {"idle", "dead"}]
        \cup [pc: {"batch"}, jobs: SUBSET Job, left: Nat]
        \cup [pc: {"answered"}, jobs: SUBSET Job, left: Nat, job: Job, ok: BOOLEAN]

Idle == [pc |-> "idle"]
Dead == [pc |-> "dead"]

Exists(x) == row[x] # NoRow

\* The deliveries a dispatcher has claimed and has yet to post or to mark.
InHand(p) == CASE p.pc = "batch" -> {j.of : j \in p.jobs}
               [] p.pc = "answered" -> {j.of : j \in p.jobs \cup {p.job}}
               [] OTHER -> {}

\* Those among the lock's holders that a write by another takes it from.
Losers(x) == {<<d, x>> : d \in {e \in Dispatcher : row[x].by = e /\ x \in InHand(disp[e])}}

Down(t) == IF t > 0 THEN t - 1 ELSE 0

TypeOK ==
  /\ endpoint \in [Endpoint -> {"active", "inactive", "gone"}]
  /\ log \in 0..MaxSeq /\ pruned \in 0..log
  /\ row \in [Delivery -> Row \cup {NoRow}]
  /\ disp \in [Dispatcher -> Pass]
  /\ accepted \subseteq Delivery /\ lost \subseteq Dispatcher \X Delivery
  /\ requeues \in 0..MaxRequeues /\ errors \in 0..MaxErrors

Init ==
  /\ endpoint = [e \in Endpoint |-> "active"]
  /\ log = 0 /\ pruned = 0
  /\ row = [x \in Delivery |-> NoRow]
  /\ disp = [d \in Dispatcher |-> Idle]
  /\ accepted = {} /\ lost = {}
  /\ requeues = 0 /\ errors = 0

-----------------------------------------------------------------------------
(* The retry schedule, and the two marks *)

MaxAttempts == Retries + 1

\* Schedule.Next after a number of failed attempts: the backoff owed, and
\* whether any attempt is left.
Counted(attempts) == IF attempts < 1 THEN 1 ELSE attempts
\* Mutant of Spent: the last retry of the schedule is never made.
SpentEarly(attempts) == Counted(attempts) >= Retries

Spent(attempts) == Counted(attempts) > Retries
Owed(attempts) == IF Spent(attempts) THEN 0 ELSE Backoff[Counted(attempts)]

Marked(r, status, due) ==
  [status |-> status, attempts |-> r.attempts + 1, due |-> due, lock |-> 0, by |-> Nobody]

MarkDelivered(r) == Marked(r, "delivered", 0)
MarkFailed(r, due, terminal) ==
  Marked(r, IF terminal THEN "failed" ELSE "pending", IF terminal THEN 0 ELSE due)

-----------------------------------------------------------------------------
(* Endpoints, events and retention *)

\* A mutation commits an event, and with it one delivery for each endpoint
\* that is active and whose filter matches.
Record ==
  /\ log < MaxSeq
  /\ log' = log + 1
  /\ \E matching \in SUBSET {e \in Endpoint : endpoint[e] = "active"} :
       row' = [x \in Delivery |-> IF x[1] \in matching /\ x[2] = log' THEN NewRow ELSE row[x]]
  /\ UNCHANGED <<endpoint, pruned, disp, accepted, lost, requeues, errors>>

PutWebhook(e) ==
  /\ endpoint[e] # "gone"
  /\ \E active \in {"active", "inactive"} : endpoint' = [endpoint EXCEPT ![e] = active]
  /\ UNCHANGED <<log, pruned, row, disp, accepted, lost, requeues, errors>>

\* The endpoint's rows go with it.
DeleteWebhook(e) ==
  /\ endpoint[e] # "gone"
  /\ endpoint' = [endpoint EXCEPT ![e] = "gone"]
  /\ row' = [x \in Delivery |-> IF x[1] = e THEN NoRow ELSE row[x]]
  /\ UNCHANGED <<log, pruned, disp, accepted, lost, requeues, errors>>

PruneEvents ==
  /\ \E upTo \in (pruned + 1)..log : pruned' = upTo
  /\ UNCHANGED <<endpoint, log, row, disp, accepted, lost, requeues, errors>>

\* Any record that is no longer pending may be past its window.
PruneDelivery(x) ==
  /\ Exists(x) /\ row[x].status # "pending"
  /\ row' = [row EXCEPT ![x] = NoRow]
  /\ UNCHANGED <<endpoint, log, pruned, disp, accepted, lost, requeues, errors>>

\* Whatever state the delivery is in, whoever holds it.
Redeliver(x) ==
  /\ requeues < MaxRequeues
  /\ Exists(x)
  /\ requeues' = requeues + 1
  /\ row' = [row EXCEPT ![x] = MarkFailed(@, 0, FALSE)]
  /\ lost' = lost \cup Losers(x)
  /\ UNCHANGED <<endpoint, log, pruned, disp, accepted, errors>>

-----------------------------------------------------------------------------
(* A dispatcher's pass *)

\* Mutant of Due: the claim does not look at the lock.
DueLocked(x) == Exists(x) /\ row[x].status = "pending" /\ row[x].due = 0

\* Mutant of Due: the claim takes deliveries that failed for good, too.
DueSettled(x) == Exists(x) /\ row[x].status # "delivered" /\ row[x].due = 0 /\ row[x].lock = 0

Due(x) == Exists(x) /\ row[x].status = "pending" /\ row[x].due = 0 /\ row[x].lock = 0

\* What load requires of a delivery's endpoint and event.
Loadable(x) == endpoint[x[1]] = "active" /\ x[2] > pruned

\* The rows the claim reads back: those it has just locked, and any the same
\* owner locked until the same instant and has not marked.
ReadBack(d, picked) ==
  picked \cup {x \in Delivery : Exists(x) /\ row[x].by = d /\ row[x].lock = Lease}

\* The pick takes Batch due rows, or all of them when there are fewer.
FullPick(d, picked) ==
  /\ picked # {}
  /\ Cardinality(picked) <= Batch[d]
  /\ \A x \in Delivery \ picked : Due(x) => Cardinality(picked) = Batch[d]

\* The claiming transaction: lock up to Batch due rows, fail for good those
\* that cannot be loaded, keep a job for each of the others.
Claim(d) ==
  /\ disp[d] = Idle
  /\ \E picked \in SUBSET {x \in Delivery : Due(x)} :
       LET claimed == ReadBack(d, picked)
           dead    == {x \in claimed : ~Loadable(x)}
           jobs    == {[of |-> x, attempts |-> row[x].attempts] : x \in claimed \ dead}
       IN /\ FullPick(d, picked)
          /\ row' = [x \in Delivery |->
               IF x \in dead THEN MarkFailed(row[x], 0, TRUE)
               ELSE IF x \in claimed THEN [row[x] EXCEPT !.lock = Lease, !.by = d]
               ELSE row[x]]
          /\ disp' = [disp EXCEPT ![d] =
               IF jobs = {} THEN Idle ELSE [pc |-> "batch", jobs |-> jobs, left |-> Lease]]
  /\ UNCHANGED <<endpoint, log, pruned, accepted, lost, requeues, errors>>

\* Mutant of Post: any answer at all counts as success.
PostAnyAnswer(d) ==
  /\ disp[d].pc = "batch"
  /\ \E j \in disp[d].jobs, reached \in BOOLEAN, ok \in BOOLEAN :
       /\ disp' = [disp EXCEPT ![d] = [pc |-> "answered", jobs |-> disp[d].jobs \ {j},
                                      left |-> disp[d].left, job |-> j, ok |-> ok]]
       /\ accepted' = IF reached THEN accepted \cup {j.of} ELSE accepted
  /\ UNCHANGED <<endpoint, log, pruned, row, lost, requeues, errors>>

\* A request and its answer: refused, or accepted with the answer received or
\* lost on the way.
Post(d) ==
  /\ disp[d].pc = "batch"
  /\ \E j \in disp[d].jobs, reached \in BOOLEAN, ok \in BOOLEAN :
       /\ ok => reached
       /\ disp' = [disp EXCEPT ![d] = [pc |-> "answered", jobs |-> disp[d].jobs \ {j},
                                      left |-> disp[d].left, job |-> j, ok |-> ok]]
       /\ accepted' = IF reached THEN accepted \cup {j.of} ELSE accepted
  /\ UNCHANGED <<endpoint, log, pruned, row, lost, requeues, errors>>

\* The dispatcher with one job fewer, or with its pass over.
Onward(p) == IF p.jobs = {} THEN Idle ELSE [pc |-> "batch", jobs |-> p.jobs, left |-> p.left]
GivenUp(d) == {p \in lost : p[1] # d}

\* The marking transaction: the row is found by its identifier, whoever has it
\* locked by now and whatever its state.
Mark(d) ==
  /\ disp[d].pc = "answered"
  /\ LET j == disp[d].job
         x == j.of
     IN /\ Exists(x)
        /\ row' = [row EXCEPT ![x] =
             IF disp[d].ok THEN MarkDelivered(@)
             ELSE MarkFailed(@, Owed(j.attempts + 1), Spent(j.attempts + 1))]
        /\ lost' = (lost \cup Losers(x)) \ {<<d, x>>}
  /\ disp' = [disp EXCEPT ![d] = Onward(disp[d])]
  /\ UNCHANGED <<endpoint, log, pruned, accepted, requeues, errors>>

\* The row is gone, with its endpoint or by retention: the error ends the
\* pass, and the rest of the batch stays locked until the lease lapses.
MarkNothing(d) ==
  /\ disp[d].pc = "answered"
  /\ ~Exists(disp[d].job.of)
  /\ disp' = [disp EXCEPT ![d] = Idle]
  /\ lost' = GivenUp(d)
  /\ UNCHANGED <<endpoint, log, pruned, row, accepted, requeues, errors>>

\* The store fails to record the outcome, with the same effect.
MarkFails(d) ==
  /\ errors < MaxErrors
  /\ disp[d].pc = "answered"
  /\ errors' = errors + 1
  /\ disp' = [disp EXCEPT ![d] = Idle]
  /\ lost' = GivenUp(d)
  /\ UNCHANGED <<endpoint, log, pruned, row, accepted, requeues>>

\* The process ends, with whatever it had in hand.  A process that starts
\* later has a dispatcher, and so an owner's name, of its own.
Die(d) ==
  /\ disp[d] # Dead
  /\ disp' = [disp EXCEPT ![d] = Dead]
  /\ lost' = GivenUp(d)
  /\ UNCHANGED <<endpoint, log, pruned, row, accepted, requeues, errors>>

\* Mutant of Tick: only a mark releases a lock, however old.
TickKeepsLocks ==
  /\ row' = [x \in Delivery |-> IF Exists(x) THEN [row[x] EXCEPT !.due = Down(@)] ELSE row[x]]
  /\ disp' = [d \in Dispatcher |->
       IF disp[d].pc \in {"batch", "answered"} THEN [disp[d] EXCEPT !.left = Down(@)] ELSE disp[d]]
  /\ UNCHANGED <<endpoint, log, pruned, accepted, lost, requeues, errors>>

\* Time passes: a row's wait and its lock, and the lease of each batch.
Tick ==
  /\ row' = [x \in Delivery |->
       IF Exists(x)
       THEN [row[x] EXCEPT !.due = Down(@), !.lock = Down(@),
                           !.by = IF row[x].lock > 1 THEN @ ELSE Nobody]
       ELSE row[x]]
  /\ disp' = [d \in Dispatcher |->
       IF disp[d].pc \in {"batch", "answered"} THEN [disp[d] EXCEPT !.left = Down(@)] ELSE disp[d]]
  /\ UNCHANGED <<endpoint, log, pruned, accepted, lost, requeues, errors>>

-----------------------------------------------------------------------------

Step(d) == Claim(d) \/ Post(d) \/ Mark(d) \/ MarkNothing(d)

Next ==
  \/ Record
  \/ PruneEvents
  \/ Tick
  \/ \E e \in Endpoint : PutWebhook(e) \/ DeleteWebhook(e)
  \/ \E x \in Delivery : PruneDelivery(x) \/ Redeliver(x)
  \/ \E d \in Dispatcher : Step(d) \/ MarkFails(d)
  \/ \E d \in Mortal : Die(d)

Spec == Init /\ [][Next]_vars

\* A server's dispatcher drains on every tick of its own, and a request ends
\* within its timeout.  Nothing obliges an inline drain.
FairSpec ==
  /\ Spec
  /\ WF_vars(Tick)
  /\ \A d \in Dispatcher \ Mortal : WF_vars(Step(d))

-----------------------------------------------------------------------------
(* What the queue promises *)

\* Two dispatchers never both have a delivery in hand under a lease that is
\* still running, unless a redelivery, or a mark made after its lease had
\* run out, has cleared the lock of one of them.
OneLiveClaim ==
  \A d, e \in Dispatcher : \A x \in InHand(disp[d]) \cap InHand(disp[e]) :
    \/ d = e
    \/ disp[d].left = 0 \/ <<d, x>> \in lost
    \/ disp[e].left = 0 \/ <<e, x>> \in lost

\* A delivery the log calls delivered was answered with success by its
\* endpoint, whatever late marks, redeliveries and lost answers did to it.
DeliveredWasAccepted ==
  \A x \in Delivery : row[x].status = "delivered" => x \in accepted

\* Only a redelivery, or the mark of a dispatcher whose claim has lapsed or
\* has been taken, changes the outcome of a delivery that already has one.
MarksLate(d, x) ==
  /\ disp[d].pc = "answered" /\ disp[d].job.of = x /\ disp[d]' # disp[d]
  /\ disp[d].left = 0 \/ <<d, x>> \in lost

SettledReopensOnlyLate ==
  [][\A x \in Delivery :
       /\ row[x].status \in {"delivered", "failed"}
       /\ row'[x].status \notin {row[x].status, "none"}
       => requeues' # requeues \/ \E d \in Dispatcher : MarksLate(d, x)]_vars

\* A delivery becomes failed only once the attempts counted on its row are as
\* many as the schedule allows, or in a step that finds it undeliverable,
\* also when the mark is worked out from a count loaded a lease ago.
FailedOnlyWhenSpent ==
  [][\A x \in Delivery :
       row'[x].status = "failed" /\ row[x].status # "failed"
       => row'[x].attempts >= MaxAttempts \/ ~Loadable(x)]_vars

\* The queue drains: every delivery ends delivered, failed or gone for good,
\* though dispatchers die, leases lapse and outcomes go unrecorded.
EverySettles == \A x \in Delivery : <>[](row[x].status # "pending")

\* A delivered delivery is not attempted again unless somebody asks for it.
DeliveredStaysDelivered ==
  [][\A x \in Delivery :
       row[x].status = "delivered" => row'[x].status \in {"delivered", "none"}]_vars
=============================================================================
