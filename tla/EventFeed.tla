------------------------------ MODULE EventFeed ------------------------------
(***************************************************************************)
(* What the event stream promises a client that keeps a cursor, with no    *)
(* connections, readers or queues: committed events arrive in the order of *)
(* their numbers, and a client is never handed an event while one it was   *)
(* promised, and that is still retained, lies between its cursor and it.   *)
(* EventStream implements this on the single-writer engine.                *)
(***************************************************************************)
EXTENDS Integers

CONSTANTS
  Client,  \* the clients that keep a cursor
  Wants,   \* per client, the events its filter and its credential admit
  MaxSeq   \* bound on the sequence numbers

VARIABLES
  log,   \* the events committed and retained
  ever,  \* the events ever committed
  seen,  \* per client, its cursor: the number it was last handed, or 0
  got,   \* per client, the events it was handed since it joined
  base   \* per client, the number above which every event is promised to it

vars == <<log, ever, seen, got, base>>

Event == 1..MaxSeq

TypeOK ==
  /\ log \subseteq ever
  /\ ever \subseteq Event
  /\ seen \in [Client -> {0} \cup ever]
  /\ got \in [Client -> SUBSET Event]
  /\ base \in [Client -> 0..MaxSeq]

\* A client with a cursor is promised what lies above it, one without a cursor
\* nothing before it has joined.
Init ==
  /\ ever \subseteq Event
  /\ log = ever
  /\ seen \in [Client -> {0} \cup ever]
  /\ got = [c \in Client |-> {}]
  /\ base = [c \in Client |-> IF seen[c] = 0 THEN MaxSeq ELSE seen[c]]

\* A transaction commits its events together, above all earlier ones.
Publish(events) ==
  /\ \A e \in events, x \in ever : x < e
  /\ log' = log \cup events
  /\ ever' = ever \cup events
  /\ UNCHANGED <<seen, got, base>>

\* Retention removes the events up to some number.
Forget(last) ==
  /\ log' = {e \in log : e > last}
  /\ UNCHANGED <<ever, seen, got, base>>

\* A client without a cursor is promised what is committed from now on.
Join(c) ==
  /\ seen' = [seen EXCEPT ![c] = 0]
  /\ got' = [got EXCEPT ![c] = {}]
  /\ \E n \in {0} \cup ever :
       /\ \A e \in log : e <= n
       /\ base' = [base EXCEPT ![c] = n]
  /\ UNCHANGED <<log, ever>>

\* A client whose cursor is refused has to start again.
Refuse(c) ==
  /\ seen' = [seen EXCEPT ![c] = 0]
  /\ got' = [got EXCEPT ![c] = {}]
  /\ base' = [base EXCEPT ![c] = MaxSeq]
  /\ UNCHANGED <<log, ever>>

\* The next event.
Receive(c, e) ==
  /\ e > seen[c]
  /\ \A x \in log \cap Wants[c] : base[c] < x /\ seen[c] < x => e <= x
  /\ seen' = [seen EXCEPT ![c] = e]
  /\ got' = [got EXCEPT ![c] = @ \cup {e}]
  /\ UNCHANGED <<log, ever, base>>

Next ==
  \/ \E events \in SUBSET (1..MaxSeq) : Publish(events)
  \/ \E last \in 1..MaxSeq : Forget(last)
  \/ \E c \in Client :
       \/ Join(c)
       \/ Refuse(c)
       \/ \E e \in ever : Receive(c, e)

Spec == Init /\ [][Next]_vars

\* Every retained event that a client was promised, and its cursor has passed,
\* was handed to it: a client that resumes from its cursor loses nothing.
NothingSkipped ==
  \A c \in Client : \A e \in log \cap Wants[c] :
    base[c] < e /\ e <= seen[c] => e \in got[c]
=============================================================================
