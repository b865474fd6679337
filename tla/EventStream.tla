----------------------------- MODULE EventStream -----------------------------
(***************************************************************************)
(* Live events of one tenant in one server process.  A reader (a pump with *)
(* its tailer) runs while the tenant has a connection; it reads pages of   *)
(* the log above its cursor and broadcasts each event to the connections   *)
(* the hub knows.  A connection holds one subscription: it first replays   *)
(* the log from the client's cursor while live events wait in a backlog,   *)
(* then flushes the backlog, then passes live events on.  A writer task    *)
(* drains its bounded queue to the client, which keeps the number it was   *)
(* last handed and resumes from it after a disconnect.                     *)
(***************************************************************************)
EXTENDS EventLog, Sequences

CONSTANTS
  Conn,          \* the clients, each with at most one connection at a time
  Wants,         \* per client, the events its filter and credential admit
  Pump,          \* bound on the readers alive at once, cancelled ones included
  NoPump,        \* no reader runs
  Returning,     \* the clients that were connected before the server started
  Batch,         \* events in a page of the tailer and of a replay
  QueueLimit,    \* messages a connection may have awaiting a write
  BacklogLimit,  \* live events a subscription may hold while it replays
  RetryLimit,    \* failed reads in a row after which a reader gives up
  MaxFaults      \* bound on the reads that fail

ASSUME StreamAssumption ==
  /\ Wants \in [Conn -> SUBSET Event]
  /\ NoPump \notin Pump
  /\ Returning \subseteq Conn
  /\ {Batch, QueueLimit, BacklogLimit, RetryLimit} \subseteq Nat \ {0}
  /\ MaxFaults \in Nat

VARIABLES
  listening,  \* the connections registered with the hub
  running,    \* the reader in the tenant's entry of the running map, or NoPump
  pump,       \* the readers
  conn,       \* the connections, with their subscription
  seen,       \* per client, the number it was last handed; 0 before the first
  got,        \* per client, the events it was handed, a history
  base,       \* per client, the number above which it was promised every event
  faults      \* how many reads failed

connVars   == <<listening, conn>>
clientVars == <<seen, got, base>>
vars == <<logVars, listening, running, pump, conn, seen, got, base, faults>>

\* A reader: cancelled or not, its cursor, the rest of the page it read, the
\* event being broadcast and the connections still to be offered it.
Reader ==
  [stage: {"off", "start", "run"}, cancelled: BOOLEAN, cursor: 0..MaxSeq,
   page: SUBSET Event, event: 0..MaxSeq, to: SUBSET Conn, failures: 0..RetryLimit]

NoReader == [stage |-> "off", cancelled |-> FALSE, cursor |-> 0, page |-> {},
             event |-> 0, to |-> {}, failures |-> 0]

\* A connection: open with no subscription, replaying, flushing the backlog,
\* live, or stuck after a replay that failed.
Connection ==
  [stage: {"off", "open", "replay", "flush", "live", "stuck"}, closed: BOOLEAN,
   maxSeq: 0..MaxSeq, cursor: 0..MaxSeq, page: SUBSET Event, more: BOOLEAN,
   backlog: Seq(Event), queue: Seq(Event)]

NoConnection ==
  [stage |-> "off", closed |-> FALSE, maxSeq |-> 0, cursor |-> 0, page |-> {},
   more |-> FALSE, backlog |-> <<>>, queue |-> <<>>]

TypeOK ==
  /\ LogTypeOK
  /\ listening = {c \in Conn : conn[c].stage # "off"}
  /\ running \in Pump \cup {NoPump}
  /\ pump \in [Pump -> Reader]
  /\ \A c \in Conn : /\ conn[c] \in Connection
                     /\ Len(conn[c].queue) <= QueueLimit
                     /\ Len(conn[c].backlog) <= BacklogLimit
  /\ seen \in [Conn -> {0} \cup ever]
  /\ got \in [Conn -> SUBSET ever]
  /\ base \in [Conn -> 0..MaxSeq]
  /\ faults \in 0..MaxFaults

\* A returning client kept its cursor through a restart of the server, and is
\* promised what lies above it; nothing is promised to one that has not
\* subscribed yet.
Init ==
  /\ LogInit
  /\ listening = {}
  /\ running = NoPump
  /\ pump = [p \in Pump |-> NoReader]
  /\ conn = [c \in Conn |-> NoConnection]
  /\ seen = [c \in Conn |-> IF c \in Returning THEN Latest ELSE 0]
  /\ got = [c \in Conn |-> {}]
  /\ base = [c \in Conn |-> IF seen[c] = 0 THEN MaxSeq ELSE seen[c]]
  /\ faults = 0

Fault == faults < MaxFaults /\ faults' = faults + 1

(* What a connection does with an event.                                   *)

\* enqueue: never blocks; a full queue fails the connection, and a failed one
\* takes nothing more.
Enqueued(r, e) ==
  IF r.closed THEN r
  ELSE IF Len(r.queue) >= QueueLimit THEN [r EXCEPT !.closed = TRUE]
  ELSE [r EXCEPT !.queue = Append(@, e)]

\* Already sent, by the replay or by another reader.
Fresh(r, e) == e > r.maxSeq

Passed(r, e) == IF Fresh(r, e) THEN Enqueued([r EXCEPT !.maxSeq = e], e) ELSE r

\* Mutant of BacklogFull: one too many.
BacklogFullLate(r) == Len(r.backlog) > BacklogLimit

BacklogFull(r) == Len(r.backlog) >= BacklogLimit

\* Mutant of Held: what arrives during the replay is dropped.
HeldNothing(r, e) == r

\* The event waits until the replay is over.
Held(r, e) == IF BacklogFull(r) THEN [r EXCEPT !.closed = TRUE]
              ELSE [r EXCEPT !.backlog = Append(@, e)]

\* subscription.send, for the subscription the connection has, if any.
Sent(r, e) ==
  CASE r.stage = "live"                -> Passed(r, e)
    [] r.stage \in {"replay", "stuck"} -> Held(r, e)
    [] OTHER                           -> r

(* Connections come and go: the hub and its tenant hooks.                  *)

\* Mutant of FirstIn: the count is taken after the connection is added.
FirstInAfter == listening # {}

\* Mutant of LastOut: the count is taken before the connection is removed.
LastOutBefore(c) == listening = {}

\* trackLocked: the count of the tenant's connections crosses zero.
FirstIn    == listening = {}
LastOut(c) == listening = {c}

\* start: unless one runs, a reader at the latest committed number; none if
\* that number cannot be read.
Start ==
  IF running # NoPump
  THEN UNCHANGED <<running, pump, faults>>
  ELSE \/ \E p \in Pump :
            /\ pump[p].stage = "off"
            /\ pump' = [pump EXCEPT ![p] = [NoReader EXCEPT !.stage = "start", !.cursor = Latest]]
            /\ running' = p
            /\ UNCHANGED faults
       \/ Fault /\ UNCHANGED <<running, pump>>

\* ServeHTTP, Register: the hooks are ordered by hookMu.
Register(c) ==
  /\ conn[c].stage = "off"
  /\ conn' = [conn EXCEPT ![c].stage = "open"]
  /\ listening' = listening \cup {c}
  /\ IF FirstIn THEN Start ELSE UNCHANGED <<running, pump, faults>>
  /\ UNCHANGED <<logVars, clientVars>>

\* The connection leaves every broadcast; stop cancels the reader of the last.
Dropped(p, cs, last) ==
  [pump[p] EXCEPT !.to = @ \ cs, !.cancelled = @ \/ (last /\ p = running)]

\* The stream ends: the client goes, a ping or a write fails, the credential is
\* no longer valid, or the connection was failed.  What was queued is lost.
Unregister(c) ==
  /\ conn[c].stage # "off"
  /\ listening' = listening \ {c}
  /\ conn' = [conn EXCEPT ![c] = NoConnection]
  /\ pump' = [p \in Pump |-> Dropped(p, {c}, LastOut(c))]
  /\ running' = IF LastOut(c) THEN NoPump ELSE running
  /\ UNCHANGED <<logVars, clientVars, faults>>

\* The server process crashes or is restarted.
Crash ==
  /\ listening # {}
  /\ listening' = {}
  /\ running' = NoPump
  /\ pump' = [p \in Pump |-> NoReader]
  /\ conn' = [c \in Conn |-> NoConnection]
  /\ UNCHANGED <<logVars, clientVars, faults>>

(* The subscription.                                                       *)

\* Mutant of Available: off by one.
AvailableNearly(seq) == Oldest > 0 => seq + 2 >= Oldest

\* resolveFilter: is what follows the cursor still retained?
Available(seq) == Oldest > 0 => seq + 1 >= Oldest

\* subscribe without a cursor: live only.  The promise starts at the latest
\* number.
SubscribeLive(c) ==
  /\ conn[c].stage = "open" /\ seen[c] = 0
  /\ conn' = [conn EXCEPT ![c].stage = "flush"]
  /\ base' = [base EXCEPT ![c] = Latest]
  /\ got' = [got EXCEPT ![c] = {}]
  /\ UNCHANGED <<logVars, listening, running, pump, seen, faults>>

\* subscribe with the cursor of an earlier connection: acknowledged, then
\* replayed.
Resume(c) ==
  /\ conn[c].stage = "open" /\ seen[c] > 0
  /\ Available(seen[c])
  /\ conn' = [conn EXCEPT ![c].stage = "replay", ![c].more = TRUE,
                          ![c].maxSeq = seen[c], ![c].cursor = seen[c]]
  /\ UNCHANGED <<logVars, listening, running, pump, clientVars, faults>>

\* The cursor is no longer available: the client lists again and starts over.
Refuse(c) ==
  /\ conn[c].stage = "open" /\ seen[c] > 0
  /\ ~Available(seen[c])
  /\ seen' = [seen EXCEPT ![c] = 0]
  /\ got' = [got EXCEPT ![c] = {}]
  /\ base' = [base EXCEPT ![c] = MaxSeq]
  /\ UNCHANGED <<logVars, listening, running, pump, conn, faults>>

\* replay: the next page, the last one when it is not full.
ReplayRead(c) ==
  LET page == Page(conn[c].cursor, Batch) IN
  /\ conn[c].stage = "replay" /\ conn[c].page = {} /\ conn[c].more
  /\ conn' = [conn EXCEPT ![c].page = page, ![c].more = Cardinality(page) = Batch]
  /\ UNCHANGED <<logVars, listening, running, pump, clientVars, faults>>

\* A failing read of the replay ends it: the error is told, and the
\* subscription never goes live.
ReplayFail(c) ==
  /\ conn[c].stage = "replay" /\ conn[c].page = {} /\ conn[c].more
  /\ Fault
  /\ conn' = [conn EXCEPT ![c].stage = "stuck"]
  /\ UNCHANGED <<logVars, listening, running, pump, clientVars>>

\* replay: the next event of the page, noted and queued if it is wanted.
ReplaySend(c) ==
  LET e == Min(conn[c].page)
      r == [conn[c] EXCEPT !.cursor = e, !.page = @ \ {e}]
      q == Enqueued([r EXCEPT !.maxSeq = Max({@, e})], e)
  IN
  /\ conn[c].stage = "replay" /\ conn[c].page # {}
  /\ conn' = [conn EXCEPT ![c] =
       IF e \notin Wants[c] THEN r
       ELSE IF q.closed THEN [q EXCEPT !.stage = "stuck", !.page = {}]
       ELSE q]
  /\ UNCHANGED <<logVars, listening, running, pump, clientVars, faults>>

\* activate takes the subscription's lock, and holds it until all is flushed.
Activate(c) ==
  /\ conn[c].stage = "replay" /\ conn[c].page = {} /\ ~conn[c].more
  /\ conn' = [conn EXCEPT ![c].stage = "flush"]
  /\ UNCHANGED <<logVars, listening, running, pump, clientVars, faults>>

\* activate: the next event of the backlog; the rest is dropped once the
\* connection has failed.
Flush(c) ==
  LET r == Passed(conn[c], Head(conn[c].backlog)) IN
  /\ conn[c].stage = "flush" /\ conn[c].backlog # <<>>
  /\ conn' = [conn EXCEPT ![c] = [r EXCEPT !.backlog = IF r.closed THEN <<>> ELSE Tail(@)]]
  /\ UNCHANGED <<logVars, listening, running, pump, clientVars, faults>>

GoLive(c) ==
  /\ conn[c].stage = "flush" /\ conn[c].backlog = <<>>
  /\ conn' = [conn EXCEPT ![c].stage = "live"]
  /\ UNCHANGED <<logVars, listening, running, pump, clientVars, faults>>

\* writeLoop: the next message reaches the client, which handles it and keeps
\* its number.
Deliver(c) ==
  LET e == Head(conn[c].queue) IN
  /\ conn[c].queue # <<>>
  /\ conn' = [conn EXCEPT ![c].queue = Tail(@)]
  /\ seen' = [seen EXCEPT ![c] = e]
  /\ got' = [got EXCEPT ![c] = @ \cup {e}]
  /\ UNCHANGED <<logVars, listening, running, pump, base, faults>>

(* The reader.                                                             *)

\* finish: the reader is gone, and its entry if it is still its own.
Finish(p) ==
  /\ pump' = [pump EXCEPT ![p] = NoReader]
  /\ running' = IF running = p THEN NoPump ELSE running

\* Tailer.Subscribe: a cursor of 0 asks for the latest number.
Opened(cursor) == IF cursor = 0 THEN Latest ELSE cursor

PumpOpen(p) ==
  /\ pump[p].stage = "start" /\ ~pump[p].cancelled
  /\ pump' = [pump EXCEPT ![p].stage = "run", ![p].cursor = Opened(@)]
  /\ UNCHANGED <<logVars, listening, running, conn, clientVars, faults>>

\* The tailer reads its next page, on a tick or on the wake of a commit.
PumpRead(p) ==
  /\ pump[p].stage = "run" /\ ~pump[p].cancelled /\ pump[p].page = {}
  /\ pump' = [pump EXCEPT ![p].page = Page(pump[p].cursor, Batch), ![p].failures = 0]
  /\ UNCHANGED <<logVars, listening, running, conn, clientVars, faults>>

\* A read that fails is retried, and the last one allowed ends the reader; the
\* read of a latest number is not retried.
PumpFail(p) ==
  /\ ~pump[p].cancelled /\ pump[p].page = {} /\ pump[p].to = {}
  /\ \/ pump[p].stage = "run"
     \/ pump[p].stage = "start" /\ pump[p].cursor = 0
  /\ Fault
  /\ IF pump[p].stage = "start" \/ pump[p].failures + 1 >= RetryLimit
     THEN Finish(p)
     ELSE /\ pump' = [pump EXCEPT ![p].failures = @ + 1]
          /\ UNCHANGED running
  /\ UNCHANGED <<logVars, listening, conn, clientVars>>

\* The tailer hands its next event over, and Broadcast takes the connections
\* of that moment.  A cancelled tailer may still hand over its page.
PumpTake(p) ==
  /\ pump[p].stage = "run" /\ pump[p].page # {} /\ pump[p].to = {}
  /\ LET e == Min(pump[p].page) IN
     pump' = [pump EXCEPT ![p].page = @ \ {e}, ![p].cursor = e,
                          ![p].event = e, ![p].to = listening]
  /\ UNCHANGED <<logVars, listening, running, conn, clientVars, faults>>

\* route: one connection is offered the event; it waits for a flush to end.
PumpRoute(p, c) ==
  /\ c \in pump[p].to /\ conn[c].stage # "flush"
  /\ pump' = [pump EXCEPT ![p].to = @ \ {c}]
  /\ conn' = [conn EXCEPT ![c] =
       IF pump[p].event \in Wants[c] THEN Sent(@, pump[p].event) ELSE @]
  /\ UNCHANGED <<logVars, listening, running, clientVars, faults>>

\* A cancelled reader ends, between two broadcasts.
PumpEnd(p) ==
  /\ pump[p].stage # "off" /\ pump[p].cancelled /\ pump[p].to = {}
  /\ Finish(p)
  /\ UNCHANGED <<logVars, listening, conn, clientVars, faults>>

(* The specification.                                                      *)

StreamUnchanged == UNCHANGED <<listening, running, pump, conn, seen, got, base, faults>>

\* No subscriber of this process holds the pruner back: its floor is the latest
\* number.
LogStep == (LogNext \/ Prune(Latest)) /\ StreamUnchanged

ClientNext(c) == Register(c) \/ Unregister(c)

StreamNext(c) ==
  \/ SubscribeLive(c) \/ Resume(c) \/ Refuse(c)
  \/ ReplayRead(c) \/ ReplaySend(c) \/ ReplayFail(c)
  \/ Activate(c) \/ Flush(c) \/ GoLive(c) \/ Deliver(c)

PumpNext(p) ==
  \/ PumpOpen(p) \/ PumpRead(p) \/ PumpFail(p) \/ PumpTake(p) \/ PumpEnd(p)
  \/ \E c \in Conn : PumpRoute(p, c)

Next ==
  \/ LogStep
  \/ Crash
  \/ \E c \in Conn : ClientNext(c) \/ StreamNext(c)
  \/ \E p \in Pump : PumpNext(p)

Spec == Init /\ [][Next]_vars

\* The goroutines of the server run, and a client that stays connected keeps
\* reading.  Nobody has to connect or to write, and no read has to fail.
Fairness ==
  /\ \A c \in Conn :
       /\ WF_vars(ReplayRead(c) \/ ReplaySend(c) \/ Activate(c) \/ Flush(c) \/ GoLive(c))
       /\ WF_vars(Deliver(c))
       /\ WF_vars(conn[c].closed /\ Unregister(c))
  /\ \A p \in Pump :
       /\ WF_vars(PumpOpen(p) \/ PumpRead(p) \/ PumpTake(p))
       /\ \A c \in Conn : WF_vars(PumpRoute(p, c))
       /\ WF_vars(PumpEnd(p))

LiveSpec == Spec /\ Fairness

(* Properties.                                                             *)

\* Every retained event that a client was promised, and its cursor has passed,
\* was handed to it: the handover from replay to live delivery, slow
\* connections, overlapping readers and restarts lose nothing (outbox.Tailer,
\* subscription.send, activate, replay).
NothingSkipped ==
  \A c \in Conn : \A e \in log \cap Wants[c] :
    base[c] < e /\ e <= seen[c] => e \in got[c]

\* The hub runs exactly one reader per tenant that anyone is listening to
\* (SetTenantHooks): no reader goes on unheard, and two never run at once.
OneReader ==
  /\ running # NoPump => listening # {}
  /\ \A p \in Pump : pump[p].stage # "off" /\ ~pump[p].cancelled <=> p = running

\* A cursor that is accepted has lost nothing to retention yet: every event
\* committed after it is there to replay (resolveFilter, "refused rather than
\* silently skipped").
AcceptedResumeIsComplete ==
  [][\A c \in Conn : conn[c].stage = "open" /\ conn'[c].stage = "replay"
       => {e \in ever : e > seen[c]} \subseteq log]_vars

\* A listener that registers while the database answers has a reader (finish:
\* "the next listener on that tenant starts a fresh one").
ListenerHasReader ==
  [][\A c \in Conn :
       listening' = listening \cup {c} /\ listening' # listening /\ faults' = faults
         => running' # NoPump]_vars

\* The stream implements the feed: clients are handed the log in order.
Feed == INSTANCE EventFeed WITH Client <- Conn
ImplementsFeed == Feed!Spec

\* A live subscription is handed every wanted event above its promise, unless
\* its connection ends or retention takes the event first.
LiveGetsEvents ==
  \A c \in Conn, e \in Event :
    (conn[c].stage = "live" /\ e \in log \cap Wants[c] /\ base[c] < e)
      ~> (e \in got[c] \/ conn[c].stage = "off" \/ e \notin log)
=============================================================================
