-------------------------- MODULE EventStream_proofs --------------------------
(***************************************************************************)
(* For any number of writers, clients, readers and events and any limits:  *)
(* the feed keeps its promise; on the single writer events commit in the   *)
(* order of their numbers; types are kept; one reader runs at a time; and, *)
(* on the single writer and a log that is never emptied, an accepted       *)
(* cursor has lost nothing and the stream implements the feed.             *)
(***************************************************************************)
EXTENDS EventStream, FiniteSetTheorems, SequenceTheorems, WellFoundedInduction, TLAPS

-----------------------------------------------------------------------------
(* The feed: its types and its promise together are inductive.             *)

FeedInv == Feed!TypeOK /\ Feed!NothingSkipped

LEMMA FeedInit ==
  ASSUME MaxSeq \in Nat
  PROVE  Feed!Init => FeedInv
<1> SUFFICES ASSUME Feed!Init
             PROVE  FeedInv
  OBVIOUS
<1>1. \A c \in Conn : base[c] = IF seen[c] = 0 THEN MaxSeq ELSE seen[c]
  BY DEF Feed!Init
<1>2. \A c \in Conn : seen[c] \in {0} \cup ever /\ ever \subseteq 1..MaxSeq
  BY DEF Feed!Init, Feed!Event
<1>3. \A c \in Conn : base[c] \in 0..MaxSeq /\ seen[c] <= base[c]
  <2> TAKE c \in Conn
  <2>1. seen[c] \in 0..MaxSeq
    BY <1>2
  <2> QED
    BY <1>1, <2>1
<1>4. Feed!NothingSkipped
  <2> SUFFICES ASSUME NEW c \in Conn, NEW e \in log,
                      base[c] < e, e <= seen[c]
               PROVE  FALSE
    BY DEF Feed!NothingSkipped
  <2>1. e \in 1..MaxSeq /\ seen[c] \in 0..MaxSeq
    BY <1>2 DEF Feed!Init
  <2> QED
    BY <1>3, <2>1
<1>5. base \in [Conn -> 0..MaxSeq]
  BY <1>3 DEF Feed!Init
<1>6. Feed!TypeOK
  BY <1>5 DEF Feed!Init, Feed!TypeOK, Feed!Event
<1> QED
  BY <1>4, <1>6 DEF FeedInv

\* A published event lies above every cursor.
LEMMA FeedPublish ==
  ASSUME MaxSeq \in Nat, FeedInv, NEW events \in SUBSET (1..MaxSeq), Feed!Publish(events)
  PROVE  FeedInv'
<1>1. Feed!TypeOK'
  BY DEF FeedInv, Feed!TypeOK, Feed!Publish, Feed!Event
<1>2. Feed!NothingSkipped'
  <2> SUFFICES ASSUME NEW c \in Conn, NEW e \in log' \cap Wants[c],
                      base[c] < e, e <= seen[c]
               PROVE  e \in got[c]
    BY DEF Feed!NothingSkipped, Feed!Publish
  <2>1. seen[c] \in {0} \cup ever /\ ever \subseteq Feed!Event
    BY DEF FeedInv, Feed!TypeOK
  <2>2. ASSUME e \in events
        PROVE  FALSE
    <3>1. e \in 1..MaxSeq
      BY <2>2
    <3>2. seen[c] # 0 => seen[c] < e
      BY <2>1, <2>2 DEF Feed!Publish
    <3>3. seen[c] \in Int
      <4>1. seen[c] = 0 \/ seen[c] \in Feed!Event
        BY <2>1
      <4> QED
        BY <4>1 DEF Feed!Event
    <3> QED
      BY <3>1, <3>2, <3>3
  <2>3. e \in log
    BY <2>2 DEF Feed!Publish
  <2> QED
    BY <2>3 DEF FeedInv, Feed!NothingSkipped
<1> QED
  BY <1>1, <1>2 DEF FeedInv

\* A client that joins or is refused has a cursor of 0, which no event is under.
LEMMA FeedRestart ==
  ASSUME MaxSeq \in Nat, FeedInv, NEW c \in Conn, Feed!Join(c) \/ Feed!Refuse(c)
  PROVE  FeedInv'
<1>1. Feed!TypeOK'
  <2>1. PICK n \in {0} \cup ever \cup {MaxSeq} : base' = [base EXCEPT ![c] = n]
    BY DEF Feed!Join, Feed!Refuse
  <2>2. n \in 0..MaxSeq
    BY DEF FeedInv, Feed!TypeOK, Feed!Event
  <2>3. base' \in [Conn -> 0..MaxSeq]
    BY <2>1, <2>2 DEF FeedInv, Feed!TypeOK
  <2>4. seen' \in [Conn -> {0} \cup ever'] /\ got' \in [Conn -> SUBSET Feed!Event]
    BY DEF FeedInv, Feed!TypeOK, Feed!Join, Feed!Refuse
  <2>5. log' = log /\ ever' = ever
    BY DEF Feed!Join, Feed!Refuse
  <2> QED
    BY <2>3, <2>4, <2>5 DEF FeedInv, Feed!TypeOK
<1>2. Feed!NothingSkipped'
  <2> SUFFICES ASSUME NEW d \in Conn, NEW e \in log \cap Wants[d],
                      base'[d] < e, e <= seen'[d]
               PROVE  e \in got'[d]
    BY DEF Feed!NothingSkipped, Feed!Join, Feed!Refuse
  <2>1. CASE d = c
    <3>1. seen'[d] = 0 /\ e \in Feed!Event
      BY <2>1 DEF Feed!Join, Feed!Refuse, FeedInv, Feed!TypeOK
    <3> QED
      BY <3>1 DEF Feed!Event
  <2>2. CASE d # c
    <3>1. seen'[d] = seen[d] /\ got'[d] = got[d] /\ base'[d] = base[d]
      BY <2>2 DEF Feed!Join, Feed!Refuse, FeedInv, Feed!TypeOK
    <3> QED
      BY <3>1 DEF FeedInv, Feed!NothingSkipped
  <2> QED
    BY <2>1, <2>2
<1> QED
  BY <1>1, <1>2 DEF FeedInv

\* Between the old cursor and the event received lies nothing promised.
LEMMA FeedReceive ==
  ASSUME FeedInv, NEW c \in Conn, NEW n \in ever, Feed!Receive(c, n)
  PROVE  FeedInv'
<1>1. Feed!TypeOK'
  BY DEF FeedInv, Feed!TypeOK, Feed!Receive, Feed!Event
<1>2. Feed!NothingSkipped'
  <2> SUFFICES ASSUME NEW d \in Conn, NEW e \in log \cap Wants[d],
                      base[d] < e, e <= seen'[d]
               PROVE  e \in got'[d]
    BY DEF Feed!NothingSkipped, Feed!Receive
  <2>1. CASE d = c
    <3>1. seen'[c] = n /\ got'[c] = got[c] \cup {n}
      BY DEF Feed!Receive, FeedInv, Feed!TypeOK
    <3>2. seen[c] \in Int /\ e \in Int /\ n \in Int
      <4>1. seen[c] \in {0} \cup ever /\ e \in ever /\ ever \subseteq Feed!Event
        BY DEF FeedInv, Feed!TypeOK
      <4>2. (seen[c] = 0 \/ seen[c] \in Feed!Event) /\ e \in Feed!Event /\ n \in Feed!Event
        BY <4>1
      <4> QED
        BY <4>2 DEF Feed!Event
    <3>3. CASE e <= seen[c]
      BY <2>1, <3>1, <3>3 DEF FeedInv, Feed!NothingSkipped
    <3>4. CASE seen[c] < e
      BY <2>1, <3>1, <3>2, <3>4 DEF Feed!Receive
    <3> QED
      BY <3>2, <3>3, <3>4
  <2>2. CASE d # c
    <3>1. seen'[d] = seen[d] /\ got'[d] = got[d]
      BY <2>2 DEF Feed!Receive, FeedInv, Feed!TypeOK
    <3> QED
      BY <3>1 DEF FeedInv, Feed!NothingSkipped
  <2> QED
    BY <2>1, <2>2
<1> QED
  BY <1>1, <1>2 DEF FeedInv

LEMMA FeedStep ==
  ASSUME MaxSeq \in Nat, FeedInv, [Feed!Next]_(Feed!vars)
  PROVE  FeedInv'
<1>1. CASE UNCHANGED Feed!vars
  BY <1>1 DEF FeedInv, Feed!TypeOK, Feed!NothingSkipped, Feed!Event, Feed!vars
<1>2. ASSUME NEW last \in 1..MaxSeq, Feed!Forget(last)
      PROVE  FeedInv'
  BY <1>2 DEF FeedInv, Feed!TypeOK, Feed!NothingSkipped, Feed!Event, Feed!Forget
<1> QED
  BY <1>1, <1>2, FeedPublish, FeedRestart, FeedReceive DEF Feed!Next

\* Whatever is published, forgotten, joined and refused, a client that was
\* promised an event and whose cursor has passed it was handed it, as long as
\* the event is retained (replay, subscription.send, activate).
THEOREM FeedLosesNothing ==
  ASSUME MaxSeq \in Nat
  PROVE  Feed!Spec => []Feed!NothingSkipped
<1>1. FeedInv /\ [Feed!Next]_(Feed!vars) => FeedInv'
  BY FeedStep
<1>2. FeedInv => Feed!NothingSkipped
  BY DEF FeedInv
<1> QED
  BY FeedInit, <1>1, <1>2, PTL DEF Feed!Spec

-----------------------------------------------------------------------------
(* The log.  What a transaction holds is the whole top of the numbers      *)
(* drawn, above everything committed, so giving the numbers back on a      *)
(* rollback returns the counter to where the transaction found it.         *)

\* The numbers above k are those of the transaction, those up to k are older.
TopOf(w, k) == open[w] = (k + 1)..drawn /\ \A x \in ever : x <= k

LogInv ==
  /\ drawn \in Nat
  /\ open \in [Writer -> SUBSET (1..drawn)]
  /\ log \subseteq ever
  /\ ever \subseteq 1..drawn
  /\ Engine = "sqlite" =>
       /\ \A w \in Writer : \E k \in 0..drawn : TopOf(w, k)
       /\ \A v, w \in Writer : open[v] # {} /\ open[w] # {} => v = w

\* The top above the highest number drawn is empty.
LEMMA EmptyTop ==
  ASSUME NEW n \in Nat
  PROVE  (n + 1)..n = {}
  OBVIOUS

LEMMA InitLog == Init => LogInv
<1> SUFFICES ASSUME Init
             PROVE  LogInv
  OBVIOUS
<1>1. Cardinality({}) = 0 /\ Cardinality({1}) = 1
  BY FS_EmptySet, FS_Singleton
<1>2. log \subseteq 1..drawn /\ drawn \in Nat /\ ever = log
  BY <1>1 DEF Init, LogInit
<1>3. \A w \in Writer : TopOf(w, drawn)
  BY <1>2 DEF Init, LogInit, TopOf
<1> QED
  BY <1>2, <1>3 DEF LogInv, Init, LogInit

LEMMA AppendEventLog ==
  ASSUME LogInv, NEW w \in Writer, AppendEvent(w)
  PROVE  LogInv'
<1>1. /\ drawn' = drawn + 1 /\ drawn \in Nat /\ ever' = ever /\ log' = log
      /\ open' = [open EXCEPT ![w] = @ \cup {drawn + 1}]
  BY DEF AppendEvent, LogInv
<1>2. ASSUME Engine = "sqlite", NEW v \in Writer
      PROVE  \E k \in 0..drawn' : TopOf(v, k)'
  <2>1. PICK k \in 0..drawn : TopOf(v, k)
    BY <1>2 DEF LogInv
  <2>2. CASE v = w
    <3>1. open'[v] = (k + 1)..(drawn + 1)
      BY <1>1, <2>1, <2>2 DEF TopOf, LogInv
    <3> QED
      BY <1>1, <2>1, <3>1 DEF TopOf
  <2>3. CASE v # w
    <3>1. open'[v] = {}
      BY <1>1, <1>2, <2>3 DEF AppendEvent, MayDraw, LogInv
    <3>2. \A x \in ever' : x <= drawn'
      BY <1>1 DEF LogInv
    <3>3. drawn' \in Nat
      BY <1>1
    <3>4. (drawn' + 1)..drawn' = {}
      BY <3>3, EmptyTop
    <3> QED
      BY <3>1, <3>2, <3>3, <3>4 DEF TopOf
  <2> QED
    BY <2>2, <2>3
<1>3. Engine = "sqlite" =>
        \A u, v \in Writer : open'[u] # {} /\ open'[v] # {} => u = v
  BY <1>1 DEF AppendEvent, MayDraw, LogInv
<1>4. open' \in [Writer -> SUBSET (1..drawn')]
  <2>1. open[w] \cup {drawn + 1} \subseteq 1..(drawn + 1) /\ 1..drawn \subseteq 1..(drawn + 1)
    BY <1>1 DEF LogInv
  <2> QED
    BY <1>1, <2>1 DEF LogInv
<1>5. ever' \subseteq 1..drawn' /\ log' \subseteq ever' /\ drawn' \in Nat
  BY <1>1 DEF LogInv
<1> QED
  BY <1>2, <1>3, <1>4, <1>5 DEF LogInv

LEMMA AppendElsewhereLog ==
  ASSUME LogInv, AppendElsewhere
  PROVE  LogInv'
<1>1. /\ drawn' = drawn + 1 /\ drawn \in Nat /\ ever' = ever /\ log' = log
      /\ open' = open
  BY DEF AppendElsewhere, LogInv
<1>2. ASSUME Engine = "sqlite", NEW v \in Writer
      PROVE  \E k \in 0..drawn' : TopOf(v, k)'
  <2>1. open'[v] = {} /\ \A x \in ever' : x <= drawn'
    BY <1>1, <1>2 DEF AppendElsewhere, LogInv
  <2>2. drawn' \in Nat
    BY <1>1
  <2>3. (drawn' + 1)..drawn' = {}
    BY <2>2, EmptyTop
  <2> QED
    BY <2>1, <2>2, <2>3 DEF TopOf
<1>3. /\ ever' \subseteq 1..drawn' /\ drawn' \in Nat
      /\ open' \in [Writer -> SUBSET (1..drawn')]
  <2>1. 1..drawn \subseteq 1..(drawn + 1)
    BY <1>1
  <2> QED
    BY <1>1, <2>1 DEF LogInv
<1> QED
  BY <1>1, <1>2, <1>3 DEF LogInv

LEMMA CommitLog ==
  ASSUME LogInv, NEW w \in Writer, Commit(w)
  PROVE  LogInv'
<1>1. /\ drawn' = drawn /\ drawn \in Nat /\ ever' = ever \cup open[w]
      /\ log' = log \cup open[w] /\ open' = [open EXCEPT ![w] = {}]
  BY DEF Commit, LogInv
<1>2. /\ ever' \subseteq 1..drawn' /\ log' \subseteq ever'
      /\ open' \in [Writer -> SUBSET (1..drawn')]
  BY <1>1 DEF LogInv
<1>3. ASSUME Engine = "sqlite", NEW v \in Writer
      PROVE  \E k \in 0..drawn' : TopOf(v, k)'
  <2>1. open'[v] = {}
    BY <1>1, <1>3 DEF Commit, LogInv
  <2>2. \A x \in ever' : x <= drawn'
    BY <1>1, <1>2
  <2>3. (drawn' + 1)..drawn' = {}
    BY <1>1, EmptyTop
  <2>4. drawn' \in Nat
    BY <1>1
  <2> QED
    BY <2>1, <2>2, <2>3, <2>4 DEF TopOf
<1>4. Engine = "sqlite" =>
        \A u, v \in Writer : open'[u] # {} /\ open'[v] # {} => u = v
  BY <1>1 DEF LogInv
<1> QED
  BY <1>1, <1>2, <1>3, <1>4 DEF LogInv

LEMMA RollbackLog ==
  ASSUME LogInv, NEW w \in Writer, Rollback(w)
  PROVE  LogInv'
<1>1. ever' = ever /\ log' = log /\ open' = [open EXCEPT ![w] = {}] /\ drawn \in Nat
  BY DEF Rollback, LogInv
<1>2. CASE Engine # "sqlite"
  <2>1. drawn' = drawn
    BY <1>2 DEF Rollback
  <2> QED
    BY <1>1, <1>2, <2>1 DEF LogInv
<1>3. CASE Engine = "sqlite"
  <2>1. PICK k \in 0..drawn : TopOf(w, k)
    BY <1>3 DEF LogInv
  <2>2. open[w] = (k + 1)..drawn /\ open[w] # {}
    BY <2>1 DEF TopOf, Rollback
  <2>3. k < drawn
    BY <1>1, <2>2
  <2>4. Cardinality((k + 1)..drawn) = drawn - k
    <3>1. k + 1 \in Int /\ drawn \in Int /\ k \in Int
      BY <1>1
    <3>2. Cardinality((k + 1)..drawn) = IF k + 1 > drawn THEN 0 ELSE drawn - (k + 1) + 1
      BY <3>1, FS_Interval
    <3> QED
      BY <2>3, <3>1, <3>2
  <2>5. drawn' = k
    BY <1>1, <1>3, <2>2, <2>4 DEF Rollback
  <2>6. \A v \in Writer : open'[v] = {}
    BY <1>1, <1>3, <2>2 DEF Rollback, LogInv
  <2>7. ever \subseteq 1..k
    BY <2>1 DEF TopOf, LogInv
  <2>8. (k + 1)..k = {}
    BY EmptyTop
  <2>9. ASSUME NEW v \in Writer
        PROVE  TopOf(v, k)'
    <3>1. open'[v] = (k + 1)..drawn'
      BY <2>5, <2>6, <2>8
    <3>2. \A x \in ever' : x <= k
      BY <1>1, <2>7
    <3> QED
      BY <3>1, <3>2 DEF TopOf
  <2>10. open' \in [Writer -> SUBSET (1..drawn')]
    BY <1>1, <2>6 DEF LogInv
  <2> QED
    BY <1>1, <2>5, <2>6, <2>7, <2>9, <2>10 DEF LogInv
<1> QED
  BY <1>2, <1>3

LEMMA PruneLog ==
  ASSUME LogInv, Prune(Latest)
  PROVE  LogInv'
  BY DEF LogInv, Prune, TopOf

\* Only a log step changes the log.
LEMMA OtherSteps ==
  ASSUME Next
  PROVE  LogNext \/ Prune(Latest) \/ UNCHANGED logVars
<1>1. ASSUME NEW c \in Conn, ClientNext(c) \/ StreamNext(c)
      PROVE  UNCHANGED logVars
  BY <1>1 DEF ClientNext, StreamNext, Register, Unregister, SubscribeLive, Resume,
    Refuse, ReplayRead, ReplaySend, ReplayFail, Activate, Flush, GoLive, Deliver
<1>2. ASSUME NEW p \in Pump, PumpNext(p)
      PROVE  UNCHANGED logVars
  BY <1>2 DEF PumpNext, PumpOpen, PumpRead, PumpFail, PumpTake, PumpRoute, PumpEnd
<1>3. Crash => UNCHANGED logVars
  BY DEF Crash
<1> QED
  BY <1>1, <1>2, <1>3 DEF Next, LogStep

LEMMA StepLog ==
  ASSUME LogInv, [Next]_vars
  PROVE  LogInv'
<1>1. CASE UNCHANGED logVars
  BY <1>1 DEF LogInv, TopOf, logVars
<1>2. CASE LogNext
  BY <1>2, AppendEventLog, AppendElsewhereLog, CommitLog, RollbackLog DEF LogNext
<1>3. CASE UNCHANGED vars
  BY <1>1, <1>3 DEF vars
<1> QED
  BY <1>1, <1>2, <1>3, PruneLog, OtherSteps

\* What is yet to commit lies above all that is committed.
LEMMA CommitsFollow ==
  ASSUME LogInv, Engine = "sqlite", NEW w \in Writer
  PROVE  \A e \in open[w], x \in ever : x < e
<1> SUFFICES ASSUME NEW e \in open[w], NEW x \in ever
             PROVE  x < e
  OBVIOUS
<1>1. PICK k \in 0..drawn : TopOf(w, k)
  BY DEF LogInv
<1>2. x <= k /\ e \in (k + 1)..drawn /\ x \in 1..drawn
  BY <1>1 DEF TopOf, LogInv
<1> QED
  BY <1>2

\* On SQLite every event still to commit has a higher number than every
\* committed one, through rollbacks and the other tenants' draws, whatever the
\* readers and clients do (AppendEvent inside BEGIN IMMEDIATE).
THEOREM CommitsAreInOrder == Spec => []CommitsInOrder
<1>1. LogInv => CommitsInOrder
  BY CommitsFollow DEF CommitsInOrder
<1>2. LogInv /\ [Next]_vars => LogInv'
  BY StepLog
<1> QED
  BY InitLog, <1>1, <1>2, PTL DEF Spec

-----------------------------------------------------------------------------
(* The least and the greatest of a set of numbers.                         *)

LEMMA LeastOf ==
  ASSUME NEW S, S \subseteq Nat, S # {}
  PROVE  Min(S) \in S /\ \A x \in S : Min(S) <= x
<1> DEFINE R == OpToRel(<, Nat)
<1>1. PICK m \in S : \A x \in S : <<x, m>> \notin R
  <2>1. IsWellFoundedOn(R, Nat)
    BY NatLessThanWellFounded
  <2> HIDE DEF R
  <2> QED
    BY <2>1, WFMin, Zenon
<1>2. ASSUME NEW x \in S
      PROVE  m <= x
  <2>1. x \in Nat /\ m \in Nat
    OBVIOUS
  <2>2. ~(x < m)
    BY <1>1, <2>1 DEF OpToRel
  <2> QED
    BY <2>1, <2>2
<1> QED
  BY <1>2 DEF Min

LEMMA GreatestOf ==
  ASSUME NEW S, S \subseteq Nat, S # {}, NEW n \in Nat, \A x \in S : x <= n
  PROVE  Max(S) \in S /\ \A x \in S : x <= Max(S)
<1> DEFINE Bounds == {k \in Nat : \A x \in S : x <= k}
           m      == Min(Bounds)
<1>1. m \in Bounds /\ \A k \in Bounds : m <= k
  <2>1. Bounds \subseteq Nat /\ n \in Bounds
    OBVIOUS
  <2> HIDE DEF Bounds
  <2> QED
    BY <2>1, LeastOf
<1>2. m \in Nat /\ \A x \in S : x <= m
  BY <1>1
<1>3. m \in S
  <2> SUFFICES ASSUME m \notin S
               PROVE  FALSE
    OBVIOUS
  <2> HIDE DEF m
  <2>1. \A x \in S : x \in Nat /\ x # m /\ x <= m
    BY <1>2
  <2>2. m - 1 \in Nat
    <3>1. PICK x \in S : x \in Nat /\ x # m /\ x <= m
      BY <2>1
    <3> QED
      BY <1>2, <3>1
  <2>3. \A x \in S : x <= m - 1
    BY <1>2, <2>1
  <2>4. m - 1 \in Bounds
    BY <2>2, <2>3
  <2>5. m <= m - 1
    <3> HIDE DEF Bounds
    <3> QED
      BY <1>1, <2>4
  <2> QED
    BY <1>2, <2>5
<1> HIDE DEF m
<1> QED
  BY <1>2, <1>3 DEF Max

-----------------------------------------------------------------------------
(* The types: every number kept is one of a committed event.               *)

ReaderOf(E) ==
  [stage: {"off", "start", "run"}, cancelled: BOOLEAN, cursor: {0} \cup E,
   page: SUBSET E, event: {0} \cup E, to: SUBSET Conn, failures: 0..RetryLimit]

ConnectionOf(E) ==
  [stage: {"off", "open", "replay", "flush", "live", "stuck"}, closed: BOOLEAN,
   maxSeq: {0} \cup E, cursor: {0} \cup E, page: SUBSET E, more: BOOLEAN,
   backlog: Seq(E), queue: Seq(E)]

Fits(r) == Len(r.queue) <= QueueLimit /\ Len(r.backlog) <= BacklogLimit

Types ==
  /\ drawn <= MaxSeq
  /\ listening = {c \in Conn : conn[c].stage # "off"}
  /\ running \in Pump \cup {NoPump}
  /\ pump \in [Pump -> ReaderOf(ever)]
  /\ \A p \in Pump : pump[p].to # {} => pump[p].event # 0
  /\ conn \in [Conn -> ConnectionOf(ever)]
  /\ \A c \in Conn : Fits(conn[c])
  /\ seen \in [Conn -> {0} \cup ever]
  /\ got \in [Conn -> SUBSET ever]
  /\ base \in [Conn -> 0..MaxSeq]
  /\ faults \in 0..MaxFaults

\* Events are numbered from 1, and what is committed was drawn.
LEMMA Committed ==
  ASSUME LogInv, Types
  PROVE  ever \subseteq Event /\ log \subseteq ever /\ Event \subseteq Nat \ {0}
<1>1. MaxSeq \in Nat
  BY MaxSeqAssumption
<1>2. 1..drawn \subseteq Event
  BY <1>1 DEF LogInv, Types, Event
<1> QED
  BY <1>1, <1>2 DEF LogInv, Event

\* A reader or a connection with known events is one of the declared type.
LEMMA KnownIsTyped ==
  ASSUME NEW E, E \subseteq Event
  PROVE  ReaderOf(E) \subseteq Reader /\ ConnectionOf(E) \subseteq Connection
<1>1. E \subseteq Event /\ {0} \cup E \subseteq 0..MaxSeq
  BY MaxSeqAssumption DEF Event
<1>2. ReaderOf(E) \subseteq Reader
  BY <1>1 DEF ReaderOf, Reader
<1>3. Seq(E) \subseteq Seq(Event)
  BY SeqMonotonic
<1>4. ConnectionOf(E) \subseteq Connection
  BY <1>1, <1>3 DEF ConnectionOf, Connection
<1> QED
  BY <1>2, <1>4

\* What is known stays known as more is committed.
LEMMA KnownGrows ==
  ASSUME NEW E, NEW F, E \subseteq F
  PROVE  ReaderOf(E) \subseteq ReaderOf(F) /\ ConnectionOf(E) \subseteq ConnectionOf(F)
<1>1. Seq(E) \subseteq Seq(F)
  BY SeqMonotonic
<1>2. ReaderOf(E) \subseteq ReaderOf(F)
  BY DEF ReaderOf
<1>3. ConnectionOf(E) \subseteq ConnectionOf(F)
  BY <1>1 DEF ConnectionOf
<1> QED
  BY <1>2, <1>3

LEMMA TypesAreDeclared ==
  ASSUME LogInv, Types
  PROVE  TypeOK
<1>1. ever \subseteq Event /\ log \subseteq ever
  BY Committed
<1>2. LogTypeOK
  BY <1>1, MaxSeqAssumption DEF LogInv, Types, LogTypeOK, Event
<1>3. pump \in [Pump -> Reader] /\ \A c \in Conn : conn[c] \in Connection
  BY <1>1, KnownIsTyped DEF Types
<1> QED
  BY <1>2, <1>3 DEF Types, TypeOK, Fits

\* The latest number is the highest retained one, or 0 on an empty log.
LEMMA LatestIs ==
  ASSUME LogInv, Types
  PROVE  Latest \in {0} \cup log /\ \A x \in log : x <= Latest
<1>1. log \cup {0} \subseteq Nat /\ \A x \in log \cup {0} : x <= MaxSeq
  BY Committed, MaxSeqAssumption DEF Event
<1> QED
  BY <1>1, GreatestOf, MaxSeqAssumption DEF Latest

\* The oldest number is the lowest retained one.
LEMMA OldestIs ==
  ASSUME LogInv, Types, log # {}
  PROVE  Oldest \in log /\ \A x \in log : Oldest <= x
<1>1. log \subseteq Nat
  BY Committed
<1> QED
  BY <1>1, LeastOf DEF Oldest

LEMMA PageIsKnown ==
  ASSUME LogInv, NEW n, NEW m
  PROVE  Page(n, m) \subseteq ever
  BY DEF LogInv, Page, Since

\* A number appended to a sequence, and the first taken off one.
LEMMA AppendFits ==
  ASSUME NEW E, NEW q \in Seq(E), NEW e \in E
  PROVE  Append(q, e) \in Seq(E) /\ Len(Append(q, e)) = Len(q) + 1 /\ Len(q) \in Nat
  BY AppendProperties, LenProperties

LEMMA TailFits ==
  ASSUME NEW E, NEW q \in Seq(E), q # <<>>
  PROVE  Tail(q) \in Seq(E) /\ Len(Tail(q)) <= Len(q) /\ Head(q) \in E
  BY HeadTailProperties, LenProperties

\* A subscription moves on.
LEMMA StageFits ==
  ASSUME NEW E, NEW r \in ConnectionOf(E), Fits(r),
         NEW s \in {"off", "open", "replay", "flush", "live", "stuck"}
  PROVE  /\ [r EXCEPT !.stage = s] \in ConnectionOf(E) /\ Fits([r EXCEPT !.stage = s])
         /\ [r EXCEPT !.stage = s].stage = s
  BY DEF ConnectionOf, Fits

\* What the queue of a connection takes, and what a backlog takes.
LEMMA EnqueuedFits ==
  ASSUME NEW E, NEW r \in ConnectionOf(E), Fits(r), NEW e \in E
  PROVE  /\ Enqueued(r, e) \in ConnectionOf(E) /\ Fits(Enqueued(r, e))
         /\ Enqueued(r, e).stage = r.stage
<1>1. r.queue \in Seq(E) /\ Append(r.queue, e) \in Seq(E)
      /\ Len(Append(r.queue, e)) = Len(r.queue) + 1 /\ Len(r.queue) \in Nat
  BY AppendFits DEF ConnectionOf
<1>2. QueueLimit \in Nat
  BY StreamAssumption
<1>3. CASE r.closed
  BY <1>3 DEF Enqueued
<1>4. CASE ~r.closed /\ Len(r.queue) >= QueueLimit
  <2>1. Enqueued(r, e) = [r EXCEPT !.closed = TRUE]
    BY <1>4 DEF Enqueued
  <2> QED
    BY <2>1 DEF ConnectionOf, Fits
<1>5. CASE ~r.closed /\ ~(Len(r.queue) >= QueueLimit)
  <2>1. Enqueued(r, e) = [r EXCEPT !.queue = Append(r.queue, e)]
    BY <1>5 DEF Enqueued
  <2>2. Enqueued(r, e) \in ConnectionOf(E) /\ Enqueued(r, e).stage = r.stage
    BY <1>1, <2>1 DEF ConnectionOf
  <2>3. Len(r.queue) + 1 <= QueueLimit
    BY <1>1, <1>2, <1>5
  <2>4. Fits(Enqueued(r, e))
    BY <1>1, <2>1, <2>3 DEF Fits, ConnectionOf
  <2> QED
    BY <2>2, <2>4
<1> QED
  BY <1>3, <1>4, <1>5

LEMMA PassedFits ==
  ASSUME NEW E, NEW r \in ConnectionOf(E), Fits(r), NEW e \in E
  PROVE  /\ Passed(r, e) \in ConnectionOf(E) /\ Fits(Passed(r, e))
         /\ Passed(r, e).stage = r.stage
<1>1. [r EXCEPT !.maxSeq = e] \in ConnectionOf(E) /\ Fits([r EXCEPT !.maxSeq = e])
      /\ [r EXCEPT !.maxSeq = e].stage = r.stage
  BY DEF ConnectionOf, Fits
<1> QED
  BY <1>1, EnqueuedFits DEF Passed

LEMMA HeldFits ==
  ASSUME NEW E, NEW r \in ConnectionOf(E), Fits(r), NEW e \in E
  PROVE  /\ Held(r, e) \in ConnectionOf(E) /\ Fits(Held(r, e))
         /\ Held(r, e).stage = r.stage
<1>1. r.backlog \in Seq(E) /\ Append(r.backlog, e) \in Seq(E)
      /\ Len(Append(r.backlog, e)) = Len(r.backlog) + 1 /\ Len(r.backlog) \in Nat
  BY AppendFits DEF ConnectionOf
<1>2. BacklogLimit \in Nat
  BY StreamAssumption
<1>3. CASE BacklogFull(r)
  <2>1. Held(r, e) = [r EXCEPT !.closed = TRUE]
    BY <1>3 DEF Held
  <2> QED
    BY <2>1 DEF ConnectionOf, Fits
<1>4. CASE ~BacklogFull(r)
  <2>1. Held(r, e) = [r EXCEPT !.backlog = Append(r.backlog, e)]
    BY <1>4 DEF Held
  <2>2. Held(r, e) \in ConnectionOf(E) /\ Held(r, e).stage = r.stage
    BY <1>1, <2>1 DEF ConnectionOf
  <2>3. Len(r.backlog) + 1 <= BacklogLimit
    BY <1>1, <1>2, <1>4 DEF BacklogFull
  <2>4. Fits(Held(r, e))
    BY <1>1, <2>1, <2>3 DEF Fits, ConnectionOf
  <2> QED
    BY <2>2, <2>4
<1> QED
  BY <1>3, <1>4

LEMMA SentFits ==
  ASSUME NEW E, NEW r \in ConnectionOf(E), Fits(r), NEW e \in E
  PROVE  /\ Sent(r, e) \in ConnectionOf(E) /\ Fits(Sent(r, e))
         /\ Sent(r, e).stage = r.stage
  BY PassedFits, HeldFits DEF Sent

LEMMA NothingFits ==
  ASSUME NEW E
  PROVE  /\ NoReader \in ReaderOf(E)
         /\ NoConnection \in ConnectionOf(E) /\ Fits(NoConnection)
<1>1. RetryLimit \in Nat /\ QueueLimit \in Nat /\ BacklogLimit \in Nat
  BY StreamAssumption
<1>2. <<>> \in Seq(E) /\ Len(<<>>) = 0
  BY EmptySeq
<1> QED
  BY <1>1, <1>2 DEF NoReader, ReaderOf, NoConnection, ConnectionOf, Fits

LEMMA InitTypes == Init => Types
<1> SUFFICES ASSUME Init
             PROVE  Types
  OBVIOUS
<1>1. Cardinality({}) = 0 /\ Cardinality({1}) = 1
  BY FS_EmptySet, FS_Singleton
<1>2. log \subseteq {1} /\ ever = log /\ drawn <= 1 /\ drawn \in Nat
  BY <1>1 DEF Init, LogInit
<1>3. Latest \in {0} \cup log
  <2>1. log \cup {0} \subseteq Nat /\ \A x \in log \cup {0} : x <= 1
    BY <1>2
  <2> QED
    BY <2>1, GreatestOf DEF Latest
<1>4. MaxSeq \in Nat \ {0} /\ MaxFaults \in Nat
  BY MaxSeqAssumption, StreamAssumption
<1>5. seen \in [Conn -> {0} \cup ever]
  BY <1>2, <1>3 DEF Init
<1>6. base \in [Conn -> 0..MaxSeq]
  <2>1. \A x \in {0} \cup ever : x \in 0..MaxSeq
    BY <1>2, <1>4
  <2>2. \A c \in Conn : seen[c] \in 0..MaxSeq
    BY <1>5, <2>1
  <2> QED
    BY <1>4, <2>2 DEF Init
<1>7. /\ pump \in [Pump -> ReaderOf(ever)] /\ conn \in [Conn -> ConnectionOf(ever)]
      /\ \A c \in Conn : Fits(conn[c])
  BY NothingFits DEF Init
<1>8. /\ \A p \in Pump : pump[p].to = {}
      /\ \A c \in Conn : conn[c].stage = "off"
  BY DEF Init, NoReader, NoConnection
<1>9. drawn <= MaxSeq
  BY <1>2, <1>4
<1> QED
  BY <1>2, <1>4, <1>5, <1>6, <1>7, <1>8, <1>9 DEF Types, Init

\* One connection moves, and stays registered or not.
LEMMA ConnMoves ==
  ASSUME Types, NEW c \in Conn, NEW r \in ConnectionOf(ever), Fits(r),
         conn' = [conn EXCEPT ![c] = r],
         r.stage = "off" <=> conn[c].stage = "off", UNCHANGED <<ever, listening>>
  PROVE  /\ conn' \in [Conn -> ConnectionOf(ever')]
         /\ \A d \in Conn : Fits(conn'[d])
         /\ listening' = {d \in Conn : conn'[d].stage # "off"}
<1>1. \A d \in Conn : conn'[d] = IF d = c THEN r ELSE conn[d]
  BY DEF Types
<1>2. listening' = {d \in Conn : conn'[d].stage # "off"}
  BY <1>1 DEF Types
<1> QED
  BY <1>1, <1>2 DEF Types

\* One reader moves.
LEMMA PumpMoves ==
  ASSUME Types, NEW p \in Pump, NEW r \in ReaderOf(ever), r.to # {} => r.event # 0,
         pump' = [pump EXCEPT ![p] = r], UNCHANGED ever
  PROVE  /\ pump' \in [Pump -> ReaderOf(ever')]
         /\ \A o \in Pump : pump'[o].to # {} => pump'[o].event # 0
  BY DEF Types

\* A step of one connection that touches nothing else.
LEMMA ConnStepTypes ==
  ASSUME Types, NEW c \in Conn, NEW r \in ConnectionOf(ever), Fits(r),
         conn' = [conn EXCEPT ![c] = r],
         r.stage = "off" <=> conn[c].stage = "off",
         UNCHANGED <<logVars, listening, running, pump, seen, got, base>>,
         faults' \in 0..MaxFaults
  PROVE  Types'
  BY ConnMoves DEF Types, logVars

LEMMA FaultFits ==
  ASSUME Types, Fault
  PROVE  faults' \in 0..MaxFaults
  BY StreamAssumption DEF Types, Fault

\* A step of the log.
LEMMA LogTypes ==
  ASSUME LogInv, Types, LogStep
  PROVE  Types'
<1>1. UNCHANGED <<listening, running, pump, conn, seen, got, base, faults>>
  BY DEF LogStep, StreamUnchanged
<1>2. ASSUME NEW w \in Writer, AppendEvent(w) \/ AppendElsewhere
      PROVE  drawn' <= MaxSeq /\ ever' = ever
  BY <1>2, MaxSeqAssumption DEF AppendEvent, AppendElsewhere, LogInv
<1>3. ASSUME NEW w \in Writer, Commit(w)
      PROVE  drawn' <= MaxSeq /\ ever \subseteq ever'
  BY <1>3 DEF Commit, Types
<1>4. ASSUME NEW w \in Writer, Rollback(w)
      PROVE  drawn' <= MaxSeq /\ ever' = ever
  <2>1. open[w] \subseteq 1..drawn /\ drawn \in Nat
    BY DEF LogInv
  <2>2. IsFiniteSet(1..drawn)
    BY <2>1, FS_Interval
  <2>3. Cardinality(open[w]) \in Nat
    BY <2>1, <2>2, FS_Subset, FS_CardinalityType
  <2>4. drawn' <= drawn
    BY <1>4, <2>1, <2>3 DEF Rollback
  <2> QED
    BY <1>4, <2>1, <2>3, <2>4, MaxSeqAssumption DEF Rollback, Types
<1>5. ASSUME Prune(Latest)
      PROVE  drawn' <= MaxSeq /\ ever' = ever
  BY <1>5 DEF Prune, Types
<1>6. AppendElsewhere => drawn' <= MaxSeq /\ ever' = ever
  BY MaxSeqAssumption DEF AppendElsewhere, LogInv
<1>7. drawn' <= MaxSeq /\ ever \subseteq ever'
  BY <1>2, <1>3, <1>4, <1>5, <1>6 DEF LogStep, LogNext
<1>8. ReaderOf(ever) \subseteq ReaderOf(ever') /\ ConnectionOf(ever) \subseteq ConnectionOf(ever')
  BY <1>7, KnownGrows
<1>9. pump' \in [Pump -> ReaderOf(ever')] /\ conn' \in [Conn -> ConnectionOf(ever')]
  BY <1>1, <1>8 DEF Types
<1>10. seen' \in [Conn -> {0} \cup ever'] /\ got' \in [Conn -> SUBSET ever']
  BY <1>1, <1>7 DEF Types
<1> QED
  BY <1>1, <1>7, <1>9, <1>10 DEF Types

\* A first connection starts a reader at the latest number.
LEMMA RegisterTypes ==
  ASSUME LogInv, Types, NEW c \in Conn, Register(c)
  PROVE  Types'
<1>1. /\ conn' = [conn EXCEPT ![c] = [conn[c] EXCEPT !.stage = "open"]]
      /\ listening' = listening \cup {c}
      /\ UNCHANGED <<drawn, open, log, ever, seen, got, base>>
  BY DEF Register, logVars, clientVars
<1>2. [conn[c] EXCEPT !.stage = "open"] \in ConnectionOf(ever)
      /\ Fits([conn[c] EXCEPT !.stage = "open"])
  <2>1. conn[c] \in ConnectionOf(ever) /\ Fits(conn[c])
    BY DEF Types
  <2> QED
    BY <2>1, StageFits, Zenon
<1>3. \A d \in Conn : conn'[d] = IF d = c THEN [conn[c] EXCEPT !.stage = "open"] ELSE conn[d]
  BY <1>1 DEF Types
<1>4. \A d \in Conn : conn'[d].stage = IF d = c THEN "open" ELSE conn[d].stage
  BY <1>3 DEF Types, ConnectionOf
<1>5. listening' = {d \in Conn : conn'[d].stage # "off"}
  BY <1>1, <1>4 DEF Types
<1>6. conn' \in [Conn -> ConnectionOf(ever)] /\ \A d \in Conn : Fits(conn'[d])
  BY <1>1, <1>2, <1>3 DEF Types
<1>7. CASE UNCHANGED <<running, pump>> /\ faults' \in 0..MaxFaults
  BY <1>1, <1>5, <1>6, <1>7 DEF Types
<1>8. ASSUME NEW p \in Pump, running' = p, UNCHANGED faults,
             pump' = [pump EXCEPT ![p] = [NoReader EXCEPT !.stage = "start", !.cursor = Latest]]
      PROVE  Types'
  <2>1. NoReader \in ReaderOf(ever)
    BY NothingFits
  <2>2. Latest \in {0} \cup ever
    BY LatestIs, Committed
  <2>3. [NoReader EXCEPT !.stage = "start", !.cursor = Latest] \in ReaderOf(ever)
        /\ [NoReader EXCEPT !.stage = "start", !.cursor = Latest].to = {}
    BY <2>1, <2>2 DEF NoReader, ReaderOf
  <2>4. /\ pump' \in [Pump -> ReaderOf(ever')]
        /\ \A o \in Pump : pump'[o].to # {} => pump'[o].event # 0
    BY <1>1, <1>8, <2>3, PumpMoves
  <2> QED
    BY <1>1, <1>5, <1>6, <1>8, <2>4 DEF Types
<1>9. CASE UNCHANGED <<running, pump, faults>>
  BY <1>7, <1>9 DEF Types
<1>10. CASE UNCHANGED <<running, pump>> /\ Fault
  BY <1>7, <1>10, FaultFits
<1> QED
  BY <1>8, <1>9, <1>10 DEF Register, Start

\* A connection leaves every broadcast when it ends.
LEMMA UnregisterTypes ==
  ASSUME LogInv, Types, NEW c \in Conn, Unregister(c)
  PROVE  Types'
<1>1. /\ conn' = [conn EXCEPT ![c] = NoConnection]
      /\ listening' = listening \ {c}
      /\ pump' = [p \in Pump |-> Dropped(p, {c}, LastOut(c))]
      /\ UNCHANGED <<drawn, open, log, ever, seen, got, base, faults>>
      /\ running' \in Pump \cup {NoPump}
  BY DEF Unregister, logVars, clientVars, Types
<1>2. \A d \in Conn : conn'[d] = IF d = c THEN NoConnection ELSE conn[d]
  BY <1>1 DEF Types
<1>3. NoConnection \in ConnectionOf(ever) /\ Fits(NoConnection) /\ NoConnection.stage = "off"
  BY NothingFits DEF NoConnection
<1>4. /\ conn' \in [Conn -> ConnectionOf(ever)] /\ \A d \in Conn : Fits(conn'[d])
      /\ listening' = {d \in Conn : conn'[d].stage # "off"}
  BY <1>1, <1>2, <1>3 DEF Types
<1>5. ASSUME NEW p \in Pump
      PROVE  pump'[p] \in ReaderOf(ever) /\ (pump'[p].to # {} => pump'[p].event # 0)
  <2>1. pump[p] \in ReaderOf(ever) /\ (pump[p].to # {} => pump[p].event # 0)
    BY DEF Types
  <2>2. pump'[p] = [pump[p] EXCEPT !.to = pump[p].to \ {c},
                      !.cancelled = pump[p].cancelled \/ (LastOut(c) /\ p = running)]
    BY <1>1 DEF Dropped
  <2>3. PICK b \in BOOLEAN : pump'[p] = [pump[p] EXCEPT !.to = pump[p].to \ {c}, !.cancelled = b]
    BY <2>2, Zenon
  <2>4. pump'[p].to = pump[p].to \ {c} /\ pump'[p].event = pump[p].event
    BY <2>1, <2>3 DEF ReaderOf
  <2>5. pump'[p] \in ReaderOf(ever)
    BY <2>1, <2>3 DEF ReaderOf
  <2> QED
    BY <2>1, <2>4, <2>5
<1>6. pump' \in [Pump -> ReaderOf(ever)]
  BY <1>1, <1>5
<1> QED
  BY <1>1, <1>4, <1>5, <1>6 DEF Types

\* Only the clients' cursors, and what they were handed, outlive a crash.
LEMMA CrashTypes ==
  ASSUME Types, Crash
  PROVE  Types'
<1>1. NoReader.to = {} /\ NoConnection.stage = "off"
  BY DEF NoReader, NoConnection
<1> QED
  BY <1>1, NothingFits DEF Types, Crash, logVars, clientVars

\* The steps that move a subscription on.
LEMMA SubscribeTypes ==
  ASSUME LogInv, Types, NEW c \in Conn, SubscribeLive(c) \/ Refuse(c)
  PROVE  Types'
<1>1. MaxSeq \in Nat /\ Latest \in 0..MaxSeq
  BY LatestIs, Committed, MaxSeqAssumption DEF Event
<1>2. CASE SubscribeLive(c)
  <2>1. /\ conn' = [conn EXCEPT ![c] = [conn[c] EXCEPT !.stage = "flush"]]
        /\ conn[c].stage = "open"
        /\ UNCHANGED <<drawn, open, log, ever, listening, running, pump, seen, faults>>
        /\ base' = [base EXCEPT ![c] = Latest] /\ got' = [got EXCEPT ![c] = {}]
    BY <1>2 DEF SubscribeLive, logVars
  <2>2. [conn[c] EXCEPT !.stage = "flush"] \in ConnectionOf(ever)
        /\ Fits([conn[c] EXCEPT !.stage = "flush"])
        /\ [conn[c] EXCEPT !.stage = "flush"].stage = "flush"
    <3>1. conn[c] \in ConnectionOf(ever) /\ Fits(conn[c])
      BY DEF Types
    <3> QED
      BY <3>1, StageFits, Zenon
  <2>3. /\ conn' \in [Conn -> ConnectionOf(ever')]
        /\ \A d \in Conn : Fits(conn'[d])
        /\ listening' = {d \in Conn : conn'[d].stage # "off"}
    BY <2>1, <2>2, ConnMoves
  <2> QED
    BY <1>1, <2>1, <2>3 DEF Types
<1>3. CASE Refuse(c)
  BY <1>1, <1>3 DEF Refuse, Types, logVars
<1> QED
  BY <1>2, <1>3

LEMMA ReplayTypes ==
  ASSUME LogInv, Types, NEW c \in Conn,
         Resume(c) \/ ReplayRead(c) \/ ReplayFail(c) \/ Activate(c) \/ GoLive(c)
  PROVE  Types'
<1> DEFINE page == Page(conn[c].cursor, Batch)
<1>1. conn[c] \in ConnectionOf(ever) /\ Fits(conn[c]) /\ seen[c] \in {0} \cup ever
  BY DEF Types
<1>2. faults \in 0..MaxFaults
  BY DEF Types
<1>3. CASE Resume(c)
  <2>1. conn' = [conn EXCEPT ![c] = [conn[c] EXCEPT !.stage = "replay", !.more = TRUE,
                                     !.maxSeq = seen[c], !.cursor = seen[c]]]
    BY <1>3 DEF Resume, Types
  <2> DEFINE r == [conn[c] EXCEPT !.stage = "replay", !.more = TRUE,
                                  !.maxSeq = seen[c], !.cursor = seen[c]]
  <2>2. r \in ConnectionOf(ever) /\ Fits(r) /\ r.stage # "off"
    BY <1>1 DEF ConnectionOf, Fits
  <2>3. /\ UNCHANGED <<logVars, listening, running, pump, seen, got, base, faults>>
        /\ conn[c].stage # "off"
    BY <1>3 DEF Resume, clientVars
  <2> HIDE DEF r
  <2> QED
    BY <1>2, <2>1, <2>2, <2>3, ConnStepTypes DEF r
<1>4. CASE ReplayRead(c)
  <2> DEFINE more == (Cardinality(page) = Batch)
  <2>1. conn' = [conn EXCEPT ![c] = [conn[c] EXCEPT !.page = page, !.more = more]]
    BY <1>4 DEF ReplayRead, Types
  <2> DEFINE r == [conn[c] EXCEPT !.page = page, !.more = more]
  <2>2. page \subseteq ever /\ more \in BOOLEAN
    BY PageIsKnown
  <2>3. conn[c].stage = "replay"
        /\ UNCHANGED <<logVars, listening, running, pump, seen, got, base, faults>>
    BY <1>4 DEF ReplayRead, clientVars
  <2> HIDE DEF page, more
  <2>4. r \in ConnectionOf(ever) /\ Fits(r) /\ r.stage = conn[c].stage
    BY <1>1, <2>2 DEF ConnectionOf, Fits
  <2> HIDE DEF r
  <2> QED
    BY <1>2, <2>1, <2>3, <2>4, ConnStepTypes DEF r
<1>5. ASSUME NEW s \in {"stuck", "flush", "live"},
             conn' = [conn EXCEPT ![c] = [conn[c] EXCEPT !.stage = s]],
             conn[c].stage # "off", faults' \in 0..MaxFaults,
             UNCHANGED <<logVars, listening, running, pump, seen, got, base>>
      PROVE  Types'
  <2> DEFINE r == [conn[c] EXCEPT !.stage = s]
  <2>1. r \in ConnectionOf(ever) /\ Fits(r) /\ r.stage # "off"
    BY <1>1 DEF ConnectionOf, Fits
  <2>2. conn' = [conn EXCEPT ![c] = r]
    BY <1>5
  <2> HIDE DEF r
  <2> QED
    BY <1>5, <2>1, <2>2, ConnStepTypes
<1>6. CASE ReplayFail(c)
  BY <1>5, <1>6, FaultFits DEF ReplayFail, clientVars
<1>7. CASE Activate(c)
  BY <1>2, <1>5, <1>7 DEF Activate, clientVars
<1>8. CASE GoLive(c)
  BY <1>2, <1>5, <1>8 DEF GoLive, clientVars
<1> QED
  BY <1>3, <1>4, <1>6, <1>7, <1>8

\* The replay of one event: the record the connection is left with.
Replayed(c) ==
  LET e == Min(conn[c].page)
      r == [conn[c] EXCEPT !.cursor = e, !.page = @ \ {e}]
      q == Enqueued([r EXCEPT !.maxSeq = Max({@, e})], e)
  IN  IF e \notin Wants[c] THEN r
      ELSE IF q.closed THEN [q EXCEPT !.stage = "stuck", !.page = {}]
      ELSE q

LEMMA ReplayedFits ==
  ASSUME LogInv, Types, NEW c \in Conn, conn[c].stage = "replay", conn[c].page # {}
  PROVE  Replayed(c) \in ConnectionOf(ever) /\ Fits(Replayed(c)) /\ Replayed(c).stage # "off"
<1> DEFINE e == Min(conn[c].page)
           r == [conn[c] EXCEPT !.cursor = e, !.page = conn[c].page \ {e}]
           m == Max({r.maxSeq, e})
           s == [r EXCEPT !.maxSeq = m]
           q == Enqueued(s, e)
<1>1. conn[c] \in ConnectionOf(ever) /\ Fits(conn[c]) /\ ever \subseteq Nat
  BY Committed DEF Types
<1>2. conn[c].page \subseteq ever
  BY <1>1 DEF ConnectionOf
<1>3. e \in ever
  BY <1>1, <1>2, LeastOf
<1> HIDE DEF e
<1>4. r \in ConnectionOf(ever) /\ Fits(r) /\ r.stage = "replay"
  BY <1>1, <1>3 DEF ConnectionOf, Fits
<1> HIDE DEF r
<1>5. m \in {0} \cup ever
  <2>1. r.maxSeq \in {0} \cup ever
    BY <1>4 DEF ConnectionOf
  <2>2. r.maxSeq \in Nat /\ e \in Nat
    <3>1. {0} \cup ever \subseteq Nat
      BY <1>1
    <3> QED
      BY <1>3, <2>1, <3>1
  <2>3. \E n \in Nat : \A x \in {r.maxSeq, e} : x <= n
    BY <2>2
  <2>4. m \in {r.maxSeq, e}
    BY <2>2, <2>3, GreatestOf
  <2> QED
    BY <1>3, <2>1, <2>4
<1> HIDE DEF m
<1>6. s \in ConnectionOf(ever) /\ Fits(s) /\ s.stage = "replay"
  BY <1>4, <1>5 DEF ConnectionOf, Fits
<1> HIDE DEF s
<1>7. q \in ConnectionOf(ever) /\ Fits(q) /\ q.stage = "replay"
  BY <1>3, <1>6, EnqueuedFits
<1> HIDE DEF q
<1>8. [q EXCEPT !.stage = "stuck", !.page = {}] \in ConnectionOf(ever)
      /\ Fits([q EXCEPT !.stage = "stuck", !.page = {}])
      /\ [q EXCEPT !.stage = "stuck", !.page = {}].stage = "stuck"
  BY <1>7 DEF ConnectionOf, Fits
<1>9. Replayed(c) = IF e \notin Wants[c] THEN r
                    ELSE IF q.closed THEN [q EXCEPT !.stage = "stuck", !.page = {}] ELSE q
  BY DEF Replayed, e, r, m, s, q
<1> QED
  BY <1>4, <1>7, <1>8, <1>9

LEMMA ReplaySendTypes ==
  ASSUME LogInv, Types, NEW c \in Conn, ReplaySend(c)
  PROVE  Types'
<1>1. conn' = [conn EXCEPT ![c] = Replayed(c)]
  BY DEF ReplaySend, Replayed
<1>2. /\ UNCHANGED <<logVars, listening, running, pump, seen, got, base, faults>>
      /\ conn[c].stage = "replay" /\ conn[c].page # {}
  BY DEF ReplaySend, clientVars
<1> QED
  BY <1>1, <1>2, ReplayedFits, ConnStepTypes DEF Types

\* The flush of one event: the record the connection is left with.
Flushed(c) ==
  LET r == Passed(conn[c], Head(conn[c].backlog)) IN
  [r EXCEPT !.backlog = IF r.closed THEN <<>> ELSE Tail(@)]

LEMMA PassedFields ==
  ASSUME NEW E, NEW r \in ConnectionOf(E), NEW e \in E
  PROVE  /\ Passed(r, e).stage = r.stage /\ Passed(r, e).backlog = r.backlog
         /\ Passed(r, e).cursor = r.cursor /\ Passed(r, e).page = r.page
         /\ Passed(r, e).more = r.more
         /\ Passed(r, e).maxSeq = IF Fresh(r, e) THEN e ELSE r.maxSeq
  BY DEF Passed, Enqueued, ConnectionOf

LEMMA FlushTypes ==
  ASSUME LogInv, Types, NEW c \in Conn, Flush(c)
  PROVE  Types'
<1> DEFINE r == Passed(conn[c], Head(conn[c].backlog))
           b == IF r.closed THEN <<>> ELSE Tail(r.backlog)
           s == [r EXCEPT !.backlog = b]
<1>1. /\ conn' = [conn EXCEPT ![c] = s]
      /\ UNCHANGED <<logVars, listening, running, pump, seen, got, base, faults>>
      /\ conn[c].stage = "flush" /\ conn[c].backlog # <<>>
  BY DEF Flush, clientVars
<1>2. conn[c] \in ConnectionOf(ever) /\ Fits(conn[c]) /\ faults \in 0..MaxFaults
  BY DEF Types
<1>3. conn[c].backlog \in Seq(ever)
  BY <1>2 DEF ConnectionOf
<1>4. Head(conn[c].backlog) \in ever
  BY <1>1, <1>3, TailFits
<1>5. r \in ConnectionOf(ever) /\ Fits(r) /\ r.stage = "flush" /\ r.backlog = conn[c].backlog
  BY <1>1, <1>2, <1>4, PassedFits, PassedFields
<1> HIDE DEF r
<1>6. b \in Seq(ever) /\ Len(b) <= BacklogLimit
  <2>1. Tail(conn[c].backlog) \in Seq(ever) /\ Len(Tail(conn[c].backlog)) <= Len(conn[c].backlog)
    BY <1>1, <1>3, TailFits
  <2>2. Len(conn[c].backlog) <= BacklogLimit /\ BacklogLimit \in Nat
    BY <1>2, StreamAssumption DEF Fits
  <2>3. Len(conn[c].backlog) \in Nat /\ Len(Tail(conn[c].backlog)) \in Nat
    BY <1>3, <2>1, LenProperties
  <2>4. <<>> \in Seq(ever) /\ Len(<<>>) = 0
    BY EmptySeq
  <2> QED
    BY <1>5, <2>1, <2>2, <2>3, <2>4
<1> HIDE DEF b
<1>7. s \in ConnectionOf(ever) /\ Fits(s) /\ s.stage = "flush"
  BY <1>5, <1>6 DEF ConnectionOf, Fits
<1> HIDE DEF s
<1> QED
  BY <1>1, <1>2, <1>7, ConnStepTypes

LEMMA DeliverTypes ==
  ASSUME LogInv, Types, NEW c \in Conn, Deliver(c)
  PROVE  Types'
<1> DEFINE e == Head(conn[c].queue)
           r == [conn[c] EXCEPT !.queue = Tail(conn[c].queue)]
<1>1. /\ conn' = [conn EXCEPT ![c] = r]
      /\ seen' = [seen EXCEPT ![c] = e] /\ got' = [got EXCEPT ![c] = got[c] \cup {e}]
      /\ UNCHANGED <<drawn, open, log, ever, listening, running, pump, base, faults>>
      /\ conn[c].queue # <<>>
  BY DEF Deliver, logVars
<1>2. conn[c] \in ConnectionOf(ever) /\ Fits(conn[c])
  BY DEF Types
<1>3. conn[c].queue \in Seq(ever)
  BY <1>2 DEF ConnectionOf
<1>4. Tail(conn[c].queue) \in Seq(ever) /\ Len(Tail(conn[c].queue)) <= Len(conn[c].queue)
      /\ e \in ever
  BY <1>1, <1>3, TailFits
<1>5. Len(Tail(conn[c].queue)) <= QueueLimit
  <2>1. Len(conn[c].queue) \in Nat /\ Len(Tail(conn[c].queue)) \in Nat /\ QueueLimit \in Nat
    BY <1>3, <1>4, LenProperties, StreamAssumption
  <2> QED
    BY <1>2, <1>4, <2>1 DEF Fits
<1> HIDE DEF e
<1>6. r \in ConnectionOf(ever) /\ Fits(r) /\ r.stage = conn[c].stage
  BY <1>2, <1>4, <1>5 DEF ConnectionOf, Fits
<1> HIDE DEF r
<1>7. /\ conn' \in [Conn -> ConnectionOf(ever')]
      /\ \A d \in Conn : Fits(conn'[d])
      /\ listening' = {d \in Conn : conn'[d].stage # "off"}
  BY <1>1, <1>6, ConnMoves
<1>8. seen' \in [Conn -> {0} \cup ever] /\ got' \in [Conn -> SUBSET ever]
  BY <1>1, <1>4 DEF Types
<1> QED
  BY <1>1, <1>7, <1>8 DEF Types

\* The steps of a reader, and the event it offers one connection.
LEMMA ReaderTypes ==
  ASSUME LogInv, Types, NEW p \in Pump,
         PumpOpen(p) \/ PumpRead(p) \/ PumpFail(p) \/ PumpTake(p) \/ PumpEnd(p)
  PROVE  Types'
<1>1. pump[p] \in ReaderOf(ever) /\ (pump[p].to # {} => pump[p].event # 0)
  BY DEF Types
<1>2. ASSUME NEW r \in ReaderOf(ever), r.to # {} => r.event # 0,
             pump' = [pump EXCEPT ![p] = r], running' \in Pump \cup {NoPump},
             UNCHANGED <<logVars, listening, conn, seen, got, base>>, faults' \in 0..MaxFaults
      PROVE  Types'
  BY <1>2, PumpMoves DEF Types, logVars
<1>3. running \in Pump \cup {NoPump} /\ faults \in 0..MaxFaults
  BY DEF Types
<1>4. CASE PumpOpen(p)
  <2> DEFINE r == [pump[p] EXCEPT !.stage = "run", !.cursor = Opened(pump[p].cursor)]
  <2>1. pump' = [pump EXCEPT ![p] = r]
    BY <1>4 DEF PumpOpen, Types
  <2>2. UNCHANGED <<logVars, listening, running, conn, seen, got, base, faults>>
    BY <1>4 DEF PumpOpen, clientVars
  <2>3. Opened(pump[p].cursor) \in {0} \cup ever
    BY <1>1, LatestIs, Committed DEF Opened, ReaderOf
  <2>4. r \in ReaderOf(ever) /\ (r.to # {} => r.event # 0)
    BY <1>1, <2>3 DEF ReaderOf
  <2> HIDE DEF r
  <2> QED
    BY <1>2, <1>3, <2>1, <2>2, <2>4
<1>5. CASE PumpRead(p)
  <2> DEFINE page == Page(pump[p].cursor, Batch)
             r == [pump[p] EXCEPT !.page = page, !.failures = 0]
  <2>1. pump' = [pump EXCEPT ![p] = r]
    BY <1>5 DEF PumpRead, Types
  <2>2. UNCHANGED <<logVars, listening, running, conn, seen, got, base, faults>>
    BY <1>5 DEF PumpRead, clientVars
  <2>3. page \in SUBSET ever /\ 0 \in 0..RetryLimit
    BY PageIsKnown, StreamAssumption
  <2> HIDE DEF page
  <2>4. r \in ReaderOf(ever) /\ (r.to # {} => r.event # 0)
    BY <1>1, <2>3 DEF ReaderOf
  <2> HIDE DEF r
  <2> QED
    BY <1>2, <1>3, <2>1, <2>2, <2>4
<1>6. CASE PumpFail(p)
  <2>1. /\ UNCHANGED <<logVars, listening, conn, seen, got, base>>
        /\ faults' \in 0..MaxFaults
    BY <1>6, FaultFits DEF PumpFail, clientVars
  <2>2. CASE Finish(p)
    <3>1. NoReader \in ReaderOf(ever) /\ NoReader.to = {}
      BY NothingFits DEF NoReader
    <3>2. pump' = [pump EXCEPT ![p] = NoReader] /\ running' \in Pump \cup {NoPump}
      BY <1>3, <2>2 DEF Finish
    <3> QED
      BY <1>2, <2>1, <3>1, <3>2
  <2>3. CASE ~(pump[p].stage = "start" \/ pump[p].failures + 1 >= RetryLimit)
    <3> DEFINE r == [pump[p] EXCEPT !.failures = pump[p].failures + 1]
    <3>1. pump' = [pump EXCEPT ![p] = r] /\ running' = running
      BY <1>6, <2>3 DEF PumpFail
    <3>2. pump[p].failures + 1 \in 0..RetryLimit
      BY <1>1, <2>3, StreamAssumption DEF ReaderOf
    <3>3. r \in ReaderOf(ever) /\ (r.to # {} => r.event # 0)
      BY <1>1, <3>2 DEF ReaderOf
    <3> HIDE DEF r
    <3> QED
      BY <1>2, <1>3, <2>1, <3>1, <3>3
  <2> QED
    BY <1>6, <2>2, <2>3 DEF PumpFail
<1>7. CASE PumpTake(p)
  <2> DEFINE e == Min(pump[p].page)
             r == [pump[p] EXCEPT !.page = pump[p].page \ {e}, !.cursor = e,
                                  !.event = e, !.to = listening]
  <2>1. pump' = [pump EXCEPT ![p] = r]
    BY <1>7 DEF PumpTake, Types
  <2>2. UNCHANGED <<logVars, listening, running, conn, seen, got, base, faults>>
        /\ pump[p].page # {}
    BY <1>7 DEF PumpTake, clientVars
  <2>3. pump[p].page \subseteq ever /\ ever \subseteq Nat \ {0}
    BY <1>1, Committed DEF ReaderOf
  <2>4. e \in ever /\ e # 0
    BY <2>2, <2>3, LeastOf
  <2>5. listening \subseteq Conn
    BY DEF Types
  <2> HIDE DEF e
  <2>6. r \in ReaderOf(ever) /\ (r.to # {} => r.event # 0)
    BY <1>1, <2>4, <2>5 DEF ReaderOf
  <2> HIDE DEF r
  <2> QED
    BY <1>2, <1>3, <2>1, <2>2, <2>6
<1>8. CASE PumpEnd(p)
  <2>1. NoReader \in ReaderOf(ever) /\ NoReader.to = {}
    BY NothingFits DEF NoReader
  <2>2. /\ pump' = [pump EXCEPT ![p] = NoReader] /\ running' \in Pump \cup {NoPump}
        /\ UNCHANGED <<logVars, listening, conn, seen, got, base, faults>>
    BY <1>3, <1>8 DEF PumpEnd, Finish, clientVars
  <2> QED
    BY <1>2, <1>3, <2>1, <2>2
<1> QED
  BY <1>4, <1>5, <1>6, <1>7, <1>8

LEMMA RouteTypes ==
  ASSUME LogInv, Types, NEW p \in Pump, NEW c \in Conn, PumpRoute(p, c)
  PROVE  Types'
<1> DEFINE r == [pump[p] EXCEPT !.to = pump[p].to \ {c}]
           s == IF pump[p].event \in Wants[c] THEN Sent(conn[c], pump[p].event) ELSE conn[c]
<1>1. /\ pump' = [pump EXCEPT ![p] = r] /\ conn' = [conn EXCEPT ![c] = s]
      /\ UNCHANGED <<drawn, open, log, ever, listening, running, seen, got, base, faults>>
      /\ c \in pump[p].to
  BY DEF PumpRoute, logVars, clientVars
<1>2. pump[p] \in ReaderOf(ever) /\ pump[p].event # 0
  BY <1>1 DEF Types
<1>3. pump[p].event \in ever
  BY <1>2 DEF ReaderOf
<1>4. r \in ReaderOf(ever) /\ (r.to # {} => r.event # 0)
  BY <1>2 DEF ReaderOf
<1>5. conn[c] \in ConnectionOf(ever) /\ Fits(conn[c])
  BY DEF Types
<1>6. s \in ConnectionOf(ever) /\ Fits(s) /\ s.stage = conn[c].stage
  BY <1>3, <1>5, SentFits
<1> HIDE DEF r, s
<1>7. /\ conn' \in [Conn -> ConnectionOf(ever')]
      /\ \A d \in Conn : Fits(conn'[d])
      /\ listening' = {d \in Conn : conn'[d].stage # "off"}
  BY <1>1, <1>6, ConnMoves
<1>8. /\ pump' \in [Pump -> ReaderOf(ever')]
      /\ \A o \in Pump : pump'[o].to # {} => pump'[o].event # 0
  BY <1>1, <1>4, PumpMoves
<1> QED
  BY <1>1, <1>7, <1>8 DEF Types

LEMMA StepTypes ==
  ASSUME LogInv, Types, [Next]_vars
  PROVE  Types'
<1>1. CASE UNCHANGED vars
  BY <1>1 DEF vars, logVars, Types
<1>2. ASSUME NEW c \in Conn, ClientNext(c) \/ StreamNext(c)
      PROVE  Types'
  BY <1>2, RegisterTypes, UnregisterTypes, SubscribeTypes, ReplayTypes, ReplaySendTypes,
     FlushTypes, DeliverTypes DEF ClientNext, StreamNext
<1>3. ASSUME NEW p \in Pump, PumpNext(p)
      PROVE  Types'
  BY <1>3, ReaderTypes, RouteTypes DEF PumpNext
<1> QED
  BY <1>1, <1>2, <1>3, LogTypes, CrashTypes DEF Next

LEMMA SpecTypes == Spec => [](LogInv /\ Types)
<1>1. LogInv /\ Types /\ [Next]_vars => LogInv' /\ Types'
  BY StepLog, StepTypes
<1> QED
  BY InitLog, InitTypes, <1>1, PTL DEF Spec

\* Every event in a page, a backlog, a queue or a cursor is a committed one,
\* no queue and no backlog outgrows its limit, and the hub's connections are
\* the registered ones (hub.register, enqueue, subscription.send).
THEOREM StreamTypeCorrect == Spec => []TypeOK
<1>1. LogInv /\ Types => TypeOK
  BY TypesAreDeclared
<1> QED
  BY SpecTypes, <1>1, PTL

-----------------------------------------------------------------------------
(* One reader.                                                             *)

\* A step that starts no reader, cancels none and ends none.
LEMMA SameReader ==
  ASSUME OneReader, UNCHANGED running, running # NoPump => listening' # {},
         \A p \in Pump : /\ pump'[p].stage = "off" <=> pump[p].stage = "off"
                         /\ pump'[p].cancelled = pump[p].cancelled
  PROVE  OneReader'
  BY DEF OneReader

LEMMA SameReaderWhenIdle ==
  ASSUME LogStep \/ UNCHANGED vars
  PROVE  UNCHANGED <<listening, running, pump>>
  BY DEF LogStep, StreamUnchanged, vars

LEMMA StepReader ==
  ASSUME Types, OneReader, [Next]_vars
  PROVE  OneReader'
<1>1. \A p \in Pump : pump[p] \in ReaderOf(ever)
  BY DEF Types
<1>2. NoPump \notin Pump
  BY StreamAssumption
<1>3. CASE UNCHANGED <<listening, running, pump>>
  BY <1>3 DEF OneReader
<1>4. LogStep \/ UNCHANGED vars => UNCHANGED <<listening, running, pump>>
  BY SameReaderWhenIdle
<1>5. ASSUME NEW c \in Conn, StreamNext(c)
      PROVE  UNCHANGED <<listening, running, pump>>
  BY <1>5 DEF StreamNext, SubscribeLive, Resume, Refuse, ReplayRead, ReplaySend, ReplayFail,
     Activate, Flush, GoLive, Deliver
<1>6. ASSUME NEW c \in Conn, Register(c)
      PROVE  OneReader'
  <2>1. listening' # {}
    BY <1>6 DEF Register
  <2>2. CASE UNCHANGED <<running, pump>>
    BY <2>1, <2>2 DEF OneReader
  <2>3. ASSUME listening = {}, NEW p \in Pump, pump[p].stage = "off", running' = p,
               pump' = [pump EXCEPT ![p] = [NoReader EXCEPT !.stage = "start", !.cursor = Latest]]
        PROVE  OneReader'
    <3>1. running = NoPump
      BY <2>3 DEF OneReader
    <3>2. /\ pump'[p].stage = "start" /\ ~pump'[p].cancelled
          /\ \A o \in Pump \ {p} : pump'[o] = pump[o]
      BY <2>3 DEF NoReader, Types
    <3>3. \A o \in Pump : pump[o].stage = "off" \/ pump[o].cancelled
      BY <1>2, <3>1 DEF OneReader
    <3> QED
      BY <1>2, <2>1, <2>3, <3>2, <3>3 DEF OneReader
  <2> QED
    BY <1>6, <2>2, <2>3 DEF Register, Start, FirstIn
<1>7. ASSUME NEW c \in Conn, Unregister(c)
      PROVE  OneReader'
  <2>1. /\ c \in listening /\ listening' = listening \ {c}
        /\ running' = IF LastOut(c) THEN NoPump ELSE running
    BY <1>7 DEF Unregister, Types
  <2>2. ASSUME NEW p \in Pump
        PROVE  /\ pump'[p].stage = pump[p].stage
               /\ pump'[p].cancelled <=> pump[p].cancelled \/ (LastOut(c) /\ p = running)
    <3>1. pump'[p] = [pump[p] EXCEPT !.to = pump[p].to \ {c},
                      !.cancelled = pump[p].cancelled \/ (LastOut(c) /\ p = running)]
      BY <1>7 DEF Unregister, Dropped
    <3> QED
      BY <1>1, <3>1, Zenon DEF ReaderOf
  <2>3. CASE LastOut(c)
    <3>1. \A p \in Pump : pump'[p].stage = "off" \/ pump'[p].cancelled
      BY <2>2, <2>3 DEF OneReader
    <3> QED
      BY <1>2, <2>1, <2>3, <3>1 DEF OneReader
  <2>4. CASE ~LastOut(c)
    <3>1. listening' # {} /\ running' = running
      BY <2>1, <2>4 DEF LastOut
    <3>2. \A p \in Pump : /\ pump'[p].stage = pump[p].stage
                          /\ pump'[p].cancelled <=> pump[p].cancelled
      BY <2>2, <2>4
    <3> QED
      BY <3>1, <3>2 DEF OneReader
  <2> QED
    BY <2>3, <2>4
<1>8. Crash => OneReader'
  BY <1>2 DEF Crash, OneReader, NoReader
<1>9. ASSUME NEW p \in Pump, PumpOpen(p) \/ PumpRead(p) \/ PumpTake(p) \/ \E c \in Conn : PumpRoute(p, c)
      PROVE  OneReader'
  <2>1. UNCHANGED <<listening, running>>
    BY <1>9 DEF PumpOpen, PumpRead, PumpTake, PumpRoute
  <2>2. \A o \in Pump \ {p} : pump'[o] = pump[o]
    BY <1>9 DEF PumpOpen, PumpRead, PumpTake, PumpRoute, Types
  <2>3. /\ pump'[p].stage = "off" <=> pump[p].stage = "off"
        /\ pump'[p].cancelled = pump[p].cancelled
    <3>1. pump[p] \in ReaderOf(ever) /\ pump \in [Pump -> ReaderOf(ever)]
      BY DEF Types
    <3>2. CASE PumpOpen(p)
      BY <3>1, <3>2 DEF PumpOpen, ReaderOf
    <3>3. CASE PumpRead(p)
      BY <3>1, <3>3 DEF PumpRead, ReaderOf
    <3>4. CASE PumpTake(p)
      BY <3>1, <3>4 DEF PumpTake, ReaderOf
    <3>5. ASSUME NEW c \in Conn, PumpRoute(p, c)
          PROVE  pump'[p].stage = pump[p].stage /\ pump'[p].cancelled = pump[p].cancelled
      BY <3>1, <3>5 DEF PumpRoute, ReaderOf
    <3> QED
      BY <1>9, <3>2, <3>3, <3>4, <3>5
  <2> QED
    BY <2>1, <2>2, <2>3, SameReader DEF OneReader
<1>10. ASSUME NEW p \in Pump, PumpFail(p) \/ PumpEnd(p)
       PROVE  OneReader'
  <2>1. UNCHANGED listening
    BY <1>10 DEF PumpFail, PumpEnd
  <2>2. CASE Finish(p)
    <3>1. \A o \in Pump : pump'[o] = IF o = p THEN NoReader ELSE pump[o]
      BY <2>2 DEF Finish, Types
    <3>2. running' = IF running = p THEN NoPump ELSE running
      BY <2>2 DEF Finish
    <3> QED
      BY <1>2, <2>1, <3>1, <3>2 DEF OneReader, NoReader
  <2>3. CASE ~Finish(p)
    <3>1. /\ pump' = [pump EXCEPT ![p] = [pump[p] EXCEPT !.failures = pump[p].failures + 1]]
          /\ running' = running
      BY <1>10, <2>3 DEF PumpFail, PumpEnd
    <3>2. \A o \in Pump : pump'[o].stage = pump[o].stage /\ pump'[o].cancelled = pump[o].cancelled
      BY <1>1, <3>1 DEF Types, ReaderOf
    <3> QED
      BY <2>1, <3>1, <3>2, SameReader DEF OneReader
  <2> QED
    BY <2>2, <2>3
<1> QED
  BY <1>3, <1>4, <1>5, <1>6, <1>7, <1>8, <1>9, <1>10 DEF Next, ClientNext, PumpNext

\* However connections come, go and crash, and reads fail, the tenant's entry
\* names the only reader that is not cancelled, and only while somebody is
\* listening (SetTenantHooks, start, stop, finish).
THEOREM OneReaderAtMost == Spec => []OneReader
<1>1. Init => OneReader
  BY StreamAssumption DEF Init, OneReader, NoReader
<1>2. Types /\ OneReader /\ [Next]_vars => OneReader'
  BY StepReader
<1> QED
  BY SpecTypes, <1>1, <1>2, PTL DEF Spec

-----------------------------------------------------------------------------
(* What retention leaves.                                                  *)

\* The log is the top of what was ever committed, and never empty.
LogIsTail ==
  /\ log # {}
  /\ \A x \in log, e \in ever : x < e => e \in log

LEMMA StepTail ==
  ASSUME LogInv, Types, Engine = "sqlite", ~Quiet, LogIsTail, [Next]_vars
  PROVE  LogIsTail'
<1>1. CASE UNCHANGED <<log, ever>>
  BY <1>1 DEF LogIsTail
<1>2. ASSUME NEW w \in Writer, Commit(w)
      PROVE  LogIsTail'
  <2>1. log' = log \cup open[w] /\ ever' = ever \cup open[w]
    BY <1>2 DEF Commit
  <2>2. \A e \in open[w], x \in ever : x < e
    BY CommitsFollow
  <2>3. \A x \in log', e \in ever' : x < e => e \in log'
    <3> SUFFICES ASSUME NEW x \in open[w], NEW e \in ever, x < e
                 PROVE  FALSE
      BY <2>1 DEF LogIsTail
    <3>1. x \in Int /\ e \in Int /\ e < x
      BY <2>2 DEF LogInv
    <3> QED
      BY <3>1
  <2> QED
    BY <2>1, <2>3 DEF LogIsTail
<1>3. ASSUME Prune(Latest)
      PROVE  LogIsTail'
  <2>1. PICK last \in log : log' = {e \in log : e > last} /\ log' # {} /\ ever' = ever
    BY <1>3 DEF Prune
  <2>2. \A x \in log', e \in ever' : x < e => e \in log'
    <3> SUFFICES ASSUME NEW x \in log, x > last, NEW e \in ever, x < e
                 PROVE  e \in log /\ e > last
      BY <2>1
    <3>1. e \in log
      BY DEF LogIsTail
    <3>2. x \in Int /\ e \in Int /\ last \in Int
      BY <3>1, Committed
    <3> QED
      BY <3>1, <3>2
  <2> QED
    BY <2>1, <2>2 DEF LogIsTail
<1>4. CASE UNCHANGED logVars
  BY <1>1, <1>4 DEF logVars
<1>5. CASE LogNext
  BY <1>1, <1>2, <1>5 DEF LogNext, AppendEvent, AppendElsewhere, Rollback
<1>6. CASE UNCHANGED vars
  BY <1>4, <1>6 DEF vars
<1> QED
  BY <1>3, <1>4, <1>5, <1>6, OtherSteps

\* Only a resume begins a replay.
LEMMA OnlyResumeReplays ==
  ASSUME LogInv, Types, [Next]_vars, NEW c \in Conn,
         conn[c].stage = "open", conn'[c].stage = "replay"
  PROVE  Resume(c)
<1>1. conn \in [Conn -> ConnectionOf(ever)] /\ conn[c] \in ConnectionOf(ever)
  BY DEF Types
<1>2. conn'[c] # conn[c]
  OBVIOUS
<1>3. ~UNCHANGED vars /\ ~LogStep
  BY <1>2 DEF vars, LogStep, StreamUnchanged
<1>4. ~Crash
  BY DEF Crash, NoConnection
<1>5. ASSUME NEW d \in Conn, ClientNext(d)
      PROVE  FALSE
  <2>1. CASE Register(d)
    <3>1. d # c
      BY <2>1 DEF Register
    <3> QED
      BY <1>1, <1>2, <2>1, <3>1 DEF Register
  <2>2. CASE Unregister(d)
    BY <1>1, <1>2, <2>2 DEF Unregister, NoConnection
  <2> QED
    BY <1>5, <2>1, <2>2 DEF ClientNext
<1>6. ASSUME NEW d \in Conn, StreamNext(d)
      PROVE  Resume(c)
  <2>1. d = c
    BY <1>1, <1>2, <1>6 DEF StreamNext, SubscribeLive, Resume, Refuse, ReplayRead, ReplaySend,
       ReplayFail, Activate, Flush, GoLive, Deliver
  <2>2. ~SubscribeLive(c) /\ ~Refuse(c)
    BY <1>1, <1>2 DEF SubscribeLive, Refuse, ConnectionOf
  <2>3. ~ReplayRead(c) /\ ~ReplaySend(c) /\ ~ReplayFail(c) /\ ~Activate(c) /\ ~Flush(c) /\ ~GoLive(c)
    BY DEF ReplayRead, ReplaySend, ReplayFail, Activate, Flush, GoLive
  <2>4. ~Deliver(c)
    <3>1. Deliver(c) => conn'[c] = [conn[c] EXCEPT !.queue = Tail(conn[c].queue)]
      BY <1>1 DEF Deliver
    <3>2. [conn[c] EXCEPT !.queue = Tail(conn[c].queue)].stage = conn[c].stage
      BY <1>1 DEF ConnectionOf
    <3> QED
      BY <3>1, <3>2
  <2> QED
    BY <1>6, <2>1, <2>2, <2>3, <2>4 DEF StreamNext
<1>7. ASSUME NEW p \in Pump, PumpNext(p)
      PROVE  FALSE
  <2>1. PICK d \in Conn : PumpRoute(p, d)
    BY <1>2, <1>7 DEF PumpNext, PumpOpen, PumpRead, PumpFail, PumpTake, PumpEnd
  <2>2. pump[p].event \in ever
    BY <2>1 DEF PumpRoute, Types, ReaderOf
  <2>3. d = c /\ conn'[c] = Sent(conn[c], pump[p].event)
    BY <1>1, <1>2, <2>1 DEF PumpRoute
  <2>4. Sent(conn[c], pump[p].event).stage = conn[c].stage
    BY <1>1, <2>2, SentFits DEF Types
  <2> QED
    BY <2>3, <2>4
<1> QED
  BY <1>3, <1>4, <1>5, <1>6, <1>7 DEF Next

\* A cursor that is not refused has everything committed after it in the log,
\* for any history of writes, rollbacks and pruning on the single writer, when
\* retention never empties the tenant's log (resolveFilter: "refused rather
\* than silently skipped").
THEOREM ResumesAreComplete ==
  ASSUME Engine = "sqlite", ~Quiet
  PROVE  Spec => AcceptedResumeIsComplete
<1>1. Init => LogIsTail
  BY DEF Init, LogInit, LogIsTail
<1>2. LogInv /\ Types /\ LogIsTail /\ [Next]_vars => LogIsTail'
  BY StepTail
<1>3. ASSUME LogInv, Types, LogIsTail, [Next]_vars,
             NEW c \in Conn, conn[c].stage = "open", conn'[c].stage = "replay"
      PROVE  {e \in ever : e > seen[c]} \subseteq log
  <2>1. Resume(c)
    BY <1>3, OnlyResumeReplays
  <2>2. Oldest \in log /\ \A x \in log : Oldest <= x
    BY <1>3, OldestIs DEF LogIsTail
  <2>3. seen[c] + 1 >= Oldest
    BY <2>1, <2>2, Committed, <1>3 DEF Resume, Available
  <2> SUFFICES ASSUME NEW e \in ever, e > seen[c]
               PROVE  e \in log
    OBVIOUS
  <2>4. e \in Nat /\ Oldest \in Nat /\ seen[c] \in Nat
    BY <1>3, <2>2, Committed DEF Types
  <2>5. Oldest = e \/ Oldest < e
    BY <2>3, <2>4
  <2> QED
    BY <1>3, <2>2, <2>5 DEF LogIsTail
<1>4. LogInv /\ Types /\ LogIsTail /\ [Next]_vars =>
        \A c \in Conn : conn[c].stage = "open" /\ conn'[c].stage = "replay"
          => {e \in ever : e > seen[c]} \subseteq log
  BY <1>3
<1> QED
  BY SpecTypes, <1>1, <1>2, <1>4, PTL DEF Spec, AcceptedResumeIsComplete

-----------------------------------------------------------------------------
(* What the readers and the connections owe a client.  An event promised   *)
(* to a client with a subscription is in its queue, or handed to it, once  *)
(* the subscription has passed the event's number.  Until then it is still *)
(* to be replayed; or every reader has yet to offer it, or it waits in the *)
(* backlog, before any event with a higher number.                         *)

\* The retained events that a client wants and was promised.
Owed(c) == {x \in log \cap Wants[c] : base[c] < x}

Numbers(q) == {q[i] : i \in 1..Len(q)}

Sorted(q) == \A i, j \in 1..Len(q) : i < j => q[i] < q[j]

\* The queue goes on where the cursor s is, in order and without a gap.
QueueOK(q, s, P) ==
  /\ Sorted(q)
  /\ \A y \in Numbers(q) : s < y
  /\ \A x \in P, y \in Numbers(q) : s < x /\ x < y => x \in Numbers(q)

\* The queue holds everything promised up to maxSeq.
SentOK(r, s, P) ==
  /\ s <= r.maxSeq
  /\ \A y \in Numbers(r.queue) : y <= r.maxSeq
  /\ \A x \in P : s < x /\ x <= r.maxSeq => x \in Numbers(r.queue)

\* A reader has yet to offer the event to the client.
ToOffer(p, c, x) == pump[p].cursor < x \/ (pump[p].event = x /\ c \in pump[p].to)

\* In the backlog nothing with a higher number stands before the event.
InTurn(b, x) == \A i \in 1..Len(b) : x < b[i] => \E j \in 1..(i - 1) : b[j] = x

Coming(r, c, x) ==
  /\ InTurn(r.backlog, x)
  /\ \A p \in Pump : ToOffer(p, c, x) \/ x \in Numbers(r.backlog)

\* The replay has yet to read the event, or to send it.
ToReplay(r, x) == r.stage = "replay" /\ (r.more \/ x \in r.page)

UnsentOK(r, c, P) ==
  \A x \in P : r.maxSeq < x =>
    /\ r.stage = "replay" => r.cursor < x
    /\ ToReplay(r, x) \/ Coming(r, c, x)

\* A page holds the lowest events above the cursor.
IsPage(page, cursor) ==
  /\ \A y \in page : cursor < y
  /\ \A x \in log, y \in page : cursor < x => x \in page \/ y < x

\* The connection takes events for its subscription.
Subscribed(r) == r.stage \in {"replay", "flush", "live"} /\ ~r.closed

ConnOK(r, c, s, P) ==
  /\ QueueOK(r.queue, s, P)
  /\ Subscribed(r) => SentOK(r, s, P) /\ UnsentOK(r, c, P)
  /\ r.stage \in {"off", "open"} => r = [NoConnection EXCEPT !.stage = r.stage]
  /\ r.stage = "live" => r.backlog = <<>>
  /\ r.stage = "replay" => r.maxSeq <= r.cursor /\ IsPage(r.page, r.cursor)

PumpOK(r) ==
  /\ r.to # {} => r.event = r.cursor
  /\ r.stage = "start" => r.cursor # 0
  /\ IsPage(r.page, r.cursor)

StreamInv ==
  /\ \A p \in Pump : PumpOK(pump[p])
  /\ \A c \in Conn : ConnOK(conn[c], c, seen[c], Owed(c))

(* Sequences of numbers.                                                   *)

LEMMA NumbersAppend ==
  ASSUME NEW E, NEW q \in Seq(E), NEW e \in E
  PROVE  Numbers(Append(q, e)) = Numbers(q) \cup {e}
<1>1. /\ Len(Append(q, e)) = Len(q) + 1 /\ Len(q) \in Nat
      /\ \A i \in 1..Len(q) : Append(q, e)[i] = q[i]
      /\ Append(q, e)[Len(q) + 1] = e
  BY AppendProperties, LenProperties
<1>2. 1..(Len(q) + 1) = 1..Len(q) \cup {Len(q) + 1}
  BY <1>1
<1> QED
  BY <1>1, <1>2 DEF Numbers

LEMMA NumbersTail ==
  ASSUME NEW E, NEW q \in Seq(E), q # <<>>
  PROVE  Numbers(q) = {Head(q)} \cup Numbers(Tail(q))
<1>1. /\ Len(Tail(q)) = Len(q) - 1 /\ Len(q) \in Nat \ {0}
      /\ \A i \in 1..Len(Tail(q)) : Tail(q)[i] = q[i + 1]
  BY HeadTailProperties, EmptySeq
<1>2. Head(q) = q[1]
  BY <1>1 DEF Head
<1>3. ASSUME NEW i \in 1..Len(q)
      PROVE  q[i] \in {Head(q)} \cup Numbers(Tail(q))
  <2>1. CASE i = 1
    BY <1>2, <2>1
  <2>2. CASE i # 1
    <3>1. i - 1 \in 1..Len(Tail(q)) /\ (i - 1) + 1 = i
      BY <1>1, <2>2
    <3>2. Tail(q)[i - 1] = q[i]
      BY <1>1, <3>1
    <3> QED
      BY <3>1, <3>2 DEF Numbers
  <2> QED
    BY <2>1, <2>2
<1>4. ASSUME NEW i \in 1..Len(Tail(q))
      PROVE  Tail(q)[i] \in Numbers(q)
  <2>1. i + 1 \in 1..Len(q)
    BY <1>1
  <2> QED
    BY <1>1, <2>1 DEF Numbers
<1>5. Head(q) \in Numbers(q)
  <2>1. 1 \in 1..Len(q)
    BY <1>1
  <2> QED
    BY <1>2, <2>1 DEF Numbers
<1> QED
  BY <1>3, <1>4, <1>5 DEF Numbers

LEMMA SortedAppend ==
  ASSUME NEW E, E \subseteq Nat, NEW q \in Seq(E), NEW e \in E,
         Sorted(q), \A y \in Numbers(q) : y < e
  PROVE  Sorted(Append(q, e))
<1>1. /\ Len(Append(q, e)) = Len(q) + 1 /\ Len(q) \in Nat
      /\ \A i \in 1..Len(q) : Append(q, e)[i] = q[i]
      /\ Append(q, e)[Len(q) + 1] = e
  BY AppendProperties, LenProperties
<1> SUFFICES ASSUME NEW i \in 1..(Len(q) + 1), NEW j \in 1..(Len(q) + 1), i < j
             PROVE  Append(q, e)[i] < Append(q, e)[j]
  BY <1>1 DEF Sorted
<1>2. i \in 1..Len(q)
  BY <1>1
<1>3. CASE j = Len(q) + 1
  BY <1>1, <1>2, <1>3 DEF Numbers
<1>4. CASE j # Len(q) + 1
  <2>1. j \in 1..Len(q)
    BY <1>1, <1>4
  <2> QED
    BY <1>1, <1>2, <2>1 DEF Sorted
<1> QED
  BY <1>3, <1>4

LEMMA SortedTail ==
  ASSUME NEW E, E \subseteq Nat, NEW q \in Seq(E), q # <<>>, Sorted(q)
  PROVE  Sorted(Tail(q)) /\ \A y \in Numbers(Tail(q)) : Head(q) < y
<1>1. /\ Len(Tail(q)) = Len(q) - 1 /\ Len(q) \in Nat \ {0}
      /\ \A i \in 1..Len(Tail(q)) : Tail(q)[i] = q[i + 1]
  BY HeadTailProperties, EmptySeq
<1>2. Head(q) = q[1] /\ 1 \in 1..Len(q)
  BY <1>1 DEF Head
<1>3. \A i \in 1..Len(Tail(q)) : i + 1 \in 1..Len(q) /\ 1 < i + 1
  BY <1>1
<1>4. Sorted(Tail(q))
  <2> SUFFICES ASSUME NEW i \in 1..Len(Tail(q)), NEW j \in 1..Len(Tail(q)), i < j
               PROVE  Tail(q)[i] < Tail(q)[j]
    BY DEF Sorted
  <2>1. i + 1 < j + 1
    BY <1>1
  <2> QED
    BY <1>1, <1>3, <2>1 DEF Sorted
<1>5. ASSUME NEW i \in 1..Len(Tail(q))
      PROVE  Head(q) < Tail(q)[i]
  BY <1>1, <1>2, <1>3 DEF Sorted
<1> QED
  BY <1>4, <1>5 DEF Numbers

\* An event joins the backlog after every lower one that is to come.
LEMMA InTurnAppend ==
  ASSUME NEW E, E \subseteq Nat, NEW b \in Seq(E), NEW e \in E, NEW x,
         InTurn(b, x), x < e => x \in Numbers(b)
  PROVE  InTurn(Append(b, e), x)
<1>1. /\ Len(Append(b, e)) = Len(b) + 1 /\ Len(b) \in Nat
      /\ \A i \in 1..Len(b) : Append(b, e)[i] = b[i]
      /\ Append(b, e)[Len(b) + 1] = e
  BY AppendProperties, LenProperties
<1> SUFFICES ASSUME NEW i \in 1..(Len(b) + 1), x < Append(b, e)[i]
             PROVE  \E j \in 1..(i - 1) : Append(b, e)[j] = x
  BY <1>1 DEF InTurn
<1>2. CASE i = Len(b) + 1
  <2>1. PICK j \in 1..Len(b) : b[j] = x
    BY <1>1, <1>2 DEF Numbers
  <2>2. j \in 1..(i - 1)
    BY <1>1, <1>2
  <2> QED
    BY <1>1, <2>1, <2>2
<1>3. CASE i # Len(b) + 1
  <2>1. i \in 1..Len(b)
    BY <1>1, <1>3
  <2>2. PICK j \in 1..(i - 1) : b[j] = x
    BY <1>1, <2>1 DEF InTurn
  <2>3. j \in 1..Len(b)
    BY <1>1, <2>1
  <2> QED
    BY <1>1, <2>2, <2>3
<1> QED
  BY <1>2, <1>3

\* Of the events to come none is below the first of the backlog, and those that
\* are not the first stay in turn without it.
LEMMA InTurnTail ==
  ASSUME NEW E, E \subseteq Nat, NEW b \in Seq(E), b # <<>>, NEW x, InTurn(b, x)
  PROVE  ~(x < Head(b)) /\ (x # Head(b) => InTurn(Tail(b), x))
<1>1. /\ Len(Tail(b)) = Len(b) - 1 /\ Len(b) \in Nat \ {0}
      /\ \A i \in 1..Len(Tail(b)) : Tail(b)[i] = b[i + 1]
  BY HeadTailProperties, EmptySeq
<1>2. Head(b) = b[1] /\ 1 \in 1..Len(b)
  BY <1>1 DEF Head
<1>3. ~(x < Head(b))
  <2>1. 1..(1 - 1) = {}
    OBVIOUS
  <2> QED
    BY <1>2, <2>1 DEF InTurn
<1>4. ASSUME x # Head(b), NEW i \in 1..Len(Tail(b)), x < Tail(b)[i]
      PROVE  \E j \in 1..(i - 1) : Tail(b)[j] = x
  <2>1. i + 1 \in 1..Len(b) /\ x < b[i + 1]
    BY <1>1, <1>4
  <2>2. PICK j \in 1..((i + 1) - 1) : b[j] = x
    BY <2>1 DEF InTurn
  <2>3. j # 1
    BY <1>2, <1>4, <2>2
  <2>4. j - 1 \in 1..(i - 1) /\ j - 1 \in 1..Len(Tail(b)) /\ (j - 1) + 1 = j
    BY <1>1, <2>1, <2>3
  <2>5. Tail(b)[j - 1] = x
    BY <1>1, <2>2, <2>4
  <2> QED
    BY <2>4, <2>5
<1> QED
  BY <1>3, <1>4 DEF InTurn

(* Pages.                                                                  *)

LEMMA BelowGrows ==
  ASSUME NEW S, S \subseteq Nat, NEW x \in Nat, NEW y \in Nat, x <= y
  PROVE  {u \in S : u < x} \subseteq {u \in S : u < y}
<1> SUFFICES ASSUME NEW u \in S, u < x
             PROVE  u < y
  OBVIOUS
<1>1. u \in Nat
  OBVIOUS
<1> QED
  BY <1>1

LEMMA PageIsPage ==
  ASSUME LogInv, Types, NEW n \in Nat
  PROVE  IsPage(Page(n, Batch), n)
<1>1. log \subseteq Nat /\ IsFiniteSet(log) /\ Batch \in Nat
  <2>1. log \subseteq 1..MaxSeq /\ MaxSeq \in Int
    BY Committed, MaxSeqAssumption DEF Event
  <2>2. IsFiniteSet(1..MaxSeq)
    BY <2>1, FS_Interval
  <2>3. IsFiniteSet(log)
    BY <2>1, <2>2, FS_Subset
  <2> QED
    BY <2>1, <2>3, StreamAssumption
<1>2. ASSUME NEW x \in log, NEW y \in Page(n, Batch), n < x, ~(y < x)
      PROVE  x \in Page(n, Batch)
  <2> DEFINE Below(z) == {u \in Since(n) : u < z}
  <2>1. y \in log /\ x \in Since(n) /\ Cardinality(Below(y)) < Batch
    BY <1>2 DEF Page, Since
  <2>2. Below(x) \subseteq Below(y) /\ Below(y) \subseteq log
    <3>1. x \in Nat /\ y \in Nat /\ Since(n) \subseteq Nat /\ Since(n) \subseteq log
      BY <1>1, <2>1 DEF Since
    <3>2. x <= y
      BY <1>2, <3>1
    <3> QED
      BY <3>1, <3>2, BelowGrows
  <2> HIDE DEF Below
  <2>3. IsFiniteSet(Below(y))
    BY <1>1, <2>2, FS_Subset
  <2>4. IsFiniteSet(Below(x)) /\ Cardinality(Below(x)) <= Cardinality(Below(y))
    BY <2>2, <2>3, FS_Subset
  <2>5. Cardinality(Below(x)) \in Nat /\ Cardinality(Below(y)) \in Nat
    BY <2>3, <2>4, FS_CardinalityType
  <2>6. Cardinality(Below(x)) < Batch
    BY <1>1, <2>1, <2>4, <2>5
  <2> QED
    BY <2>1, <2>6 DEF Page, Below
<1>3. \A y \in Page(n, Batch) : n < y
  BY <1>1 DEF Page, Since
<1> QED
  BY <1>2, <1>3 DEF IsPage

\* A page that is not full is the last one: it holds all that is left.
LEMMA LastPage ==
  ASSUME LogInv, Types, NEW n \in Nat, Cardinality(Page(n, Batch)) # Batch
  PROVE  \A x \in log : n < x => x \in Page(n, Batch)
<1> DEFINE S == Since(n)
           pg == Page(n, Batch)
           Below(z) == {u \in S : u < z}
<1>1. S \subseteq Nat /\ IsFiniteSet(S) /\ Batch \in Nat \ {0}
  <2>1. S \subseteq 1..MaxSeq /\ MaxSeq \in Int
    BY Committed, MaxSeqAssumption DEF Event, Since
  <2>2. IsFiniteSet(1..MaxSeq)
    BY <2>1, FS_Interval
  <2>3. S \subseteq Nat
    BY <2>1
  <2> HIDE DEF S
  <2> QED
    BY <2>1, <2>2, <2>3, FS_Subset, StreamAssumption
<1>2. pg = {z \in S : Cardinality(Below(z)) < Batch}
  BY DEF Page
<1>3. \A x \in log : n < x => x \in S
  BY <1>1, Committed DEF Since
<1> HIDE DEF S, pg
<1>4. \A z \in S : IsFiniteSet(Below(z)) /\ Cardinality(Below(z)) \in Nat
  <2> TAKE z \in S
  <2>1. Below(z) \subseteq S
    OBVIOUS
  <2> QED
    BY <1>1, <2>1, FS_Subset, FS_CardinalityType
<1>5. IsFiniteSet(pg) /\ Cardinality(pg) \in Nat /\ pg \subseteq S
  BY <1>1, <1>2, FS_Subset, FS_CardinalityType
<1> SUFFICES ASSUME S \ pg # {}
             PROVE  FALSE
  BY <1>3 DEF pg
<1>6. PICK m \in S \ pg : \A x \in S \ pg : m <= x
  <2>1. S \ pg \subseteq Nat
    BY <1>1
  <2> QED
    BY <2>1, LeastOf
<1>7. Cardinality(pg) >= Batch
  <2>1. Below(m) \subseteq pg
    <3> SUFFICES ASSUME NEW u \in S, u < m, u \notin pg
                 PROVE  FALSE
      OBVIOUS
    <3>1. m <= u /\ u \in Nat /\ m \in Nat
      BY <1>1, <1>6
    <3> QED
      BY <3>1
  <2>2. Cardinality(Below(m)) <= Cardinality(pg)
    BY <1>5, <2>1, FS_Subset
  <2>3. ~(Cardinality(Below(m)) < Batch)
    BY <1>2, <1>6
  <2> HIDE DEF Below
  <2> QED
    BY <1>1, <1>4, <1>5, <1>6, <2>2, <2>3
<1>8. PICK g \in pg : \A x \in pg : x <= g
  <2>1. pg # {}
    <3>1. CASE pg = {}
      BY <1>1, <1>7, <3>1, FS_EmptySet
    <3> QED
      BY <3>1
  <2>2. pg \subseteq Nat /\ \A x \in pg : x <= m
    <3> SUFFICES ASSUME NEW x \in pg, ~(x <= m)
                 PROVE  FALSE
      BY <1>1, <1>5
    <3>1. m < x /\ x \in S
      BY <1>1, <1>5, <1>6
    <3>2. Below(m) \subseteq Below(x)
      <4>1. m \in Nat /\ x \in Nat /\ m <= x
        BY <1>1, <3>1
      <4> QED
        BY <1>1, <4>1, BelowGrows
    <3>3. Cardinality(Below(m)) <= Cardinality(Below(x))
      BY <1>4, <3>1, <3>2, FS_Subset
    <3>4. Cardinality(Below(x)) < Batch /\ ~(Cardinality(Below(m)) < Batch)
      BY <1>2, <1>6
    <3> HIDE DEF Below
    <3> QED
      BY <1>1, <1>4, <1>6, <3>1, <3>3, <3>4
  <2> QED
    BY <1>1, <1>6, <2>1, <2>2, GreatestOf
<1>9. Cardinality(pg) <= Batch
  <2>1. g \in S /\ Cardinality(Below(g)) < Batch
    BY <1>2, <1>8
  <2>2. pg \subseteq Below(g) \cup {g}
    BY <1>1, <1>5, <1>8
  <2>3. IsFiniteSet(Below(g)) /\ Cardinality(Below(g)) \in Nat /\ g \notin Below(g)
    BY <1>1, <1>4, <2>1
  <2> HIDE DEF Below
  <2>4. IsFiniteSet(Below(g) \cup {g}) /\ Cardinality(Below(g) \cup {g}) = Cardinality(Below(g)) + 1
    BY <2>3, FS_AddElement
  <2>5. Cardinality(pg) <= Cardinality(Below(g) \cup {g})
    BY <2>2, <2>4, FS_Subset
  <2> QED
    BY <1>1, <1>5, <2>1, <2>3, <2>4, <2>5
<1> QED
  BY <1>1, <1>5, <1>7, <1>9 DEF pg

(* The connections.                                                        *)

\* What is owed is a set of events.
LEMMA OwedAreEvents ==
  ASSUME LogInv, Types, NEW c \in Conn
  PROVE  Owed(c) \subseteq log /\ Owed(c) \subseteq ever /\ ever \subseteq Nat \ {0}
  BY Committed DEF Owed

\* A connection and its client are left alone, and no reader drops an event the
\* client is owed.
LEMMA Undisturbed ==
  ASSUME NEW d \in Conn, ConnOK(conn[d], d, seen[d], Owed(d)),
         conn'[d] = conn[d], seen'[d] = seen[d], base'[d] = base[d], log' \subseteq log,
         Subscribed(conn[d]) =>
           \A p \in Pump, x \in Owed(d) : ToOffer(p, d, x) => ToOffer(p, d, x)'
  PROVE  ConnOK(conn[d], d, seen[d], Owed(d))'
<1>1. Owed(d)' \subseteq Owed(d)
  BY DEF Owed
<1>2. ConnOK(conn[d], d, seen[d], Owed(d)) =>
        /\ QueueOK(conn[d].queue, seen[d], Owed(d)')
        /\ Subscribed(conn[d]) => SentOK(conn[d], seen[d], Owed(d)')
  BY <1>1 DEF ConnOK, QueueOK, SentOK
<1>3. ASSUME Subscribed(conn[d])
      PROVE  UnsentOK(conn[d], d, Owed(d))'
  <2>1. UnsentOK(conn[d], d, Owed(d))
    BY <1>3 DEF ConnOK
  <2>2. \A x \in Owed(d) : Coming(conn[d], d, x) => Coming(conn[d], d, x)'
    BY <1>3 DEF Coming
  <2>3. \A x : ToReplay(conn[d], x) => ToReplay(conn[d], x)'
    BY DEF ToReplay
  <2> QED
    BY <1>1, <2>1, <2>2, <2>3 DEF UnsentOK
<1>4. IsPage(conn[d].page, conn[d].cursor) => IsPage(conn[d].page, conn[d].cursor)'
  BY DEF IsPage
<1>5. /\ QueueOK(conn[d].queue, seen[d], Owed(d))'
      /\ Subscribed(conn[d])' => SentOK(conn[d], seen[d], Owed(d))'
  BY <1>2 DEF QueueOK, SentOK, Subscribed
<1> QED
  BY <1>3, <1>4, <1>5 DEF ConnOK, Subscribed

\* The readers' pages stay pages of a log that only shrinks.
LEMMA PumpsUndisturbed ==
  ASSUME NEW p \in Pump, PumpOK(pump[p]), pump'[p] = pump[p], log' \subseteq log
  PROVE  PumpOK(pump[p])'
  BY DEF PumpOK, IsPage

\* A step of one connection: the log and the readers stay.
LEMMA ConnStep ==
  ASSUME Types, StreamInv, NEW c \in Conn, NEW r, NEW s, NEW P,
         conn' = [conn EXCEPT ![c] = r], seen' = [seen EXCEPT ![c] = s],
         \A d \in Conn \ {c} : base'[d] = base[d], Owed(c)' = P,
         UNCHANGED <<log, pump>>, ConnOK(r, c, s, P)
  PROVE  StreamInv'
<1>1. ASSUME NEW p \in Pump
      PROVE  PumpOK(pump[p])'
  BY PumpsUndisturbed DEF StreamInv
<1>2. ASSUME NEW d \in Conn
      PROVE  ConnOK(conn[d], d, seen[d], Owed(d))'
  <2>1. CASE d = c
    <3>1. conn'[c] = r /\ seen'[c] = s
      BY DEF Types
    <3>2. UnsentOK(r, c, P) => UnsentOK(r, c, P)'
      BY DEF UnsentOK, Coming, ToOffer, ToReplay
    <3>3. IsPage(r.page, r.cursor) => IsPage(r.page, r.cursor)'
      BY DEF IsPage
    <3>4. ConnOK(r, c, s, P)'
      BY <3>2, <3>3 DEF ConnOK
    <3> QED
      BY <2>1, <3>1, <3>4
  <2>2. CASE d # c
    <3>1. conn'[d] = conn[d] /\ seen'[d] = seen[d] /\ base'[d] = base[d]
      BY <2>2 DEF Types
    <3>2. \A p \in Pump, x \in Owed(d) : ToOffer(p, d, x) => ToOffer(p, d, x)'
      BY DEF ToOffer
    <3> QED
      BY <3>1, <3>2, Undisturbed DEF StreamInv
  <2> QED
    BY <2>1, <2>2
<1> QED
  BY <1>1, <1>2 DEF StreamInv

\* The next event owed, put in the queue by the replay, the flush or a reader.
LEMMA PassedKeeps ==
  ASSUME NEW E, E \subseteq Nat, NEW r \in ConnectionOf(E), NEW e \in E,
         NEW P, P \subseteq E, NEW s \in Nat,
         QueueOK(r.queue, s, P), ~r.closed => SentOK(r, s, P),
         ~r.closed => \A x \in P : r.maxSeq < x => e <= x
  PROVE  /\ QueueOK(Passed(r, e).queue, s, P)
         /\ ~Passed(r, e).closed => ~r.closed /\ SentOK(Passed(r, e), s, P)
         /\ \A x \in P : Passed(r, e).maxSeq < x => r.maxSeq < x /\ e < x
<1>1. /\ r.maxSeq \in Nat /\ r.queue \in Seq(E) /\ r.closed \in BOOLEAN
      /\ e \in Nat /\ P \subseteq Nat /\ Numbers(r.queue) \subseteq Nat
  <2>1. {0} \cup E \subseteq Nat
    OBVIOUS
  <2>2. r.queue \in Seq(E)
    BY DEF ConnectionOf
  <2>3. Numbers(r.queue) \subseteq E
    BY <2>2, ElementOfSeq DEF Numbers
  <2> QED
    BY <2>1, <2>2, <2>3 DEF ConnectionOf
<1>2. CASE ~Fresh(r, e)
  <2>1. Passed(r, e) = r
    BY <1>2 DEF Passed
  <2>2. ASSUME NEW x \in P, r.maxSeq < x
        PROVE  e < x
    BY <1>1, <1>2, <2>2 DEF Fresh
  <2> QED
    BY <2>1, <2>2
<1>3. CASE Fresh(r, e)
  <2> DEFINE t == [r EXCEPT !.maxSeq = e]
             q == Enqueued(t, e)
  <2>1. Passed(r, e) = q /\ r.maxSeq < e
    BY <1>1, <1>3 DEF Passed, Fresh
  <2>2. t.queue = r.queue /\ t.closed = r.closed /\ t.maxSeq = e
    BY DEF ConnectionOf
  <2>3. q.maxSeq = e
    BY <2>2 DEF Enqueued, ConnectionOf
  <2>4. ASSUME NEW x \in P, e < x
        PROVE  r.maxSeq < x
    BY <1>1, <2>1, <2>4
  <2>5. CASE r.closed \/ Len(r.queue) >= QueueLimit
    <3>1. q.closed /\ q.queue = r.queue
      BY <2>2, <2>5 DEF Enqueued, ConnectionOf
    <3> QED
      BY <2>1, <2>3, <2>4, <3>1
  <2>6. CASE ~r.closed /\ ~(Len(r.queue) >= QueueLimit)
    <3>1. q.queue = Append(r.queue, e) /\ q.closed = r.closed
      BY <2>2, <2>6 DEF Enqueued, ConnectionOf
    <3> HIDE DEF q, t
    <3>2. Numbers(q.queue) = Numbers(r.queue) \cup {e}
      BY <1>1, <3>1, NumbersAppend
    <3>3. SentOK(r, s, P)
      BY <2>6
    <3>4. (\A y \in Numbers(r.queue) : y < e) /\ s < e
      BY <1>1, <2>1, <3>3 DEF SentOK
    <3>5. Sorted(q.queue)
      BY <1>1, <3>1, <3>4, SortedAppend DEF QueueOK
    <3>6. ASSUME NEW x \in P, s < x, x < e
          PROVE  x \in Numbers(r.queue)
      <4>1. ~(r.maxSeq < x)
        BY <1>1, <2>6, <3>6
      <4> QED
        BY <1>1, <3>3, <3>6, <4>1 DEF SentOK
    <3>7. QueueOK(q.queue, s, P)
      BY <3>2, <3>4, <3>5, <3>6 DEF QueueOK
    <3>8. SentOK(q, s, P)
      <4>1. \A y \in Numbers(q.queue) : y <= q.maxSeq
        BY <1>1, <2>3, <3>2, <3>4
      <4>2. \A x \in P : s < x /\ x <= e => x \in Numbers(q.queue)
        BY <1>1, <3>2, <3>6
      <4>3. s <= q.maxSeq
        BY <1>1, <2>3, <3>4
      <4> QED
        BY <2>3, <4>1, <4>2, <4>3 DEF SentOK
    <3> QED
      BY <2>1, <2>3, <2>4, <2>6, <3>7, <3>8
  <2> QED
    BY <2>5, <2>6
<1> QED
  BY <1>2, <1>3

\* A connection with no subscription yet has sent nothing.
LEMMA OpenIsEmpty ==
  ASSUME StreamInv, NEW c \in Conn, conn[c].stage = "open"
  PROVE  /\ conn[c].maxSeq = 0 /\ conn[c].page = {} /\ conn[c].queue = <<>>
         /\ conn[c].backlog = <<>> /\ ~conn[c].closed
<1>1. conn[c] = [NoConnection EXCEPT !.stage = "open"]
  BY DEF StreamInv, ConnOK
<1> QED
  BY <1>1 DEF NoConnection

LEMMA EmptyQueue ==
  ASSUME NEW s, NEW P
  PROVE  QueueOK(<<>>, s, P) /\ Numbers(<<>>) = {}
<1>1. Len(<<>>) = 0
  OBVIOUS
<1>2. 1..0 = {}
  OBVIOUS
<1>3. Numbers(<<>>) = {} /\ Sorted(<<>>)
  BY <1>1, <1>2 DEF Numbers, Sorted
<1> QED
  BY <1>3 DEF QueueOK

LEMMA SubscribeKeeps ==
  ASSUME LogInv, Types, StreamInv, NEW c \in Conn,
         SubscribeLive(c) \/ Resume(c) \/ Refuse(c)
  PROVE  StreamInv'
<1>1. conn[c] \in ConnectionOf(ever) /\ seen[c] \in Nat /\ conn[c].stage = "open"
  <2>1. {0} \cup ever \subseteq Nat
    BY Committed
  <2> QED
    BY <2>1 DEF Types, SubscribeLive, Resume, Refuse
<1>2. ConnOK(conn[c], c, seen[c], Owed(c))
  BY DEF StreamInv
<1>3. /\ conn[c].maxSeq = 0 /\ conn[c].page = {} /\ conn[c].queue = <<>>
      /\ conn[c].backlog = <<>> /\ ~conn[c].closed
  BY <1>1, OpenIsEmpty
<1>4. CASE SubscribeLive(c)
  <2> DEFINE r == [conn[c] EXCEPT !.stage = "flush"]
  <2>1. /\ conn' = [conn EXCEPT ![c] = r] /\ seen' = [seen EXCEPT ![c] = seen[c]]
        /\ UNCHANGED <<log, pump>> /\ \A d \in Conn \ {c} : base'[d] = base[d]
        /\ base'[c] = Latest /\ seen[c] = 0
    BY <1>4 DEF SubscribeLive, logVars, Types
  <2>2. Owed(c)' = {}
    <3> SUFFICES ASSUME NEW x \in log, Latest < x
                 PROVE  FALSE
      BY <2>1 DEF Owed
    <3>1. x <= Latest /\ x \in Nat /\ Latest \in Nat
      BY LatestIs, Committed
    <3> QED
      BY <3>1
  <2>3. /\ r.queue = <<>> /\ r.maxSeq = 0 /\ r.stage = "flush"
    BY <1>1, <1>3 DEF ConnectionOf
  <2> HIDE DEF r
  <2>4. ConnOK(r, c, seen[c], {})
    BY <2>1, <2>3, EmptyQueue DEF ConnOK, SentOK, UnsentOK
  <2> QED
    BY <2>1, <2>2, <2>4, ConnStep
<1>5. CASE Resume(c)
  <2> DEFINE r == [conn[c] EXCEPT !.stage = "replay", !.more = TRUE,
                                  !.maxSeq = seen[c], !.cursor = seen[c]]
  <2>1. /\ conn' = [conn EXCEPT ![c] = r] /\ seen' = [seen EXCEPT ![c] = seen[c]]
        /\ UNCHANGED <<log, pump, base>>
    BY <1>5 DEF Resume, logVars, clientVars, Types
  <2>2. Owed(c)' = Owed(c)
    BY <2>1 DEF Owed
  <2>3. /\ r.queue = <<>> /\ r.maxSeq = seen[c] /\ r.cursor = seen[c] /\ r.stage = "replay"
        /\ r.page = {} /\ r.more
    BY <1>1, <1>3 DEF ConnectionOf
  <2> HIDE DEF r
  <2>4. SentOK(r, seen[c], Owed(c))
    <3>1. \A x \in Owed(c) : ~(seen[c] < x /\ x <= seen[c])
      BY <1>1, OwedAreEvents
    <3> QED
      BY <1>1, <2>3, <3>1, EmptyQueue DEF SentOK
  <2>5. UnsentOK(r, c, Owed(c)) /\ IsPage(r.page, r.cursor)
    BY <2>3 DEF UnsentOK, ToReplay, IsPage
  <2>6. ConnOK(r, c, seen[c], Owed(c))
    BY <1>1, <2>3, <2>4, <2>5, EmptyQueue DEF ConnOK
  <2> QED
    BY <2>1, <2>2, <2>6, ConnStep
<1>6. CASE Refuse(c)
  <2>1. /\ conn' = [conn EXCEPT ![c] = conn[c]] /\ seen' = [seen EXCEPT ![c] = 0]
        /\ UNCHANGED <<log, pump>> /\ \A d \in Conn \ {c} : base'[d] = base[d]
    BY <1>6 DEF Refuse, logVars, Types
  <2>2. ConnOK(conn[c], c, 0, Owed(c)')
    BY <1>1, <1>2, <1>3, EmptyQueue DEF ConnOK, Subscribed
  <2> QED
    BY <2>1, <2>2, ConnStep
<1> QED
  BY <1>4, <1>5, <1>6

\* A step that moves only a connection's subscription.
LEMMA OnlyConn ==
  ASSUME Types, StreamInv, NEW c \in Conn, NEW r, conn' = [conn EXCEPT ![c] = r],
         UNCHANGED <<logVars, pump, seen, base>>, ConnOK(r, c, seen[c], Owed(c))
  PROVE  StreamInv'
<1>1. seen' = [seen EXCEPT ![c] = seen[c]] /\ UNCHANGED <<log, pump>>
  BY DEF Types, logVars
<1>2. Owed(c)' = Owed(c)
  BY <1>1 DEF Owed
<1> QED
  BY <1>1, <1>2, ConnStep

LEMMA ReplayReadKeeps ==
  ASSUME LogInv, Types, StreamInv, NEW c \in Conn, ReplayRead(c)
  PROVE  StreamInv'
<1> DEFINE page == Page(conn[c].cursor, Batch)
           more == (Cardinality(page) = Batch)
           r == [conn[c] EXCEPT !.page = page, !.more = more]
<1>1. /\ conn' = [conn EXCEPT ![c] = r] /\ UNCHANGED <<logVars, pump, seen, base>>
      /\ conn[c].stage = "replay"
  BY DEF ReplayRead, clientVars, Types
<1>2. conn[c] \in ConnectionOf(ever) /\ ConnOK(conn[c], c, seen[c], Owed(c))
  BY DEF Types, StreamInv
<1>3. conn[c].cursor \in Nat
  BY <1>2, Committed DEF ConnectionOf
<1>4. IsPage(page, conn[c].cursor)
  BY <1>3, PageIsPage
<1>5. ~more => \A x \in log : conn[c].cursor < x => x \in page
  BY <1>3, LastPage
<1> HIDE DEF page, more
<1>6. /\ r.stage = "replay" /\ r.closed = conn[c].closed /\ r.maxSeq = conn[c].maxSeq
      /\ r.cursor = conn[c].cursor /\ r.page = page /\ r.more = more
      /\ r.queue = conn[c].queue /\ r.backlog = conn[c].backlog
  BY <1>1, <1>2 DEF ConnectionOf
<1> HIDE DEF r
<1>7. ASSUME Subscribed(r)
      PROVE  SentOK(r, seen[c], Owed(c)) /\ UnsentOK(r, c, Owed(c))
  <2>1. SentOK(conn[c], seen[c], Owed(c)) /\ UnsentOK(conn[c], c, Owed(c))
    BY <1>1, <1>2, <1>6, <1>7 DEF ConnOK, Subscribed
  <2>2. SentOK(r, seen[c], Owed(c))
    BY <1>6, <2>1 DEF SentOK
  <2>3. ASSUME NEW x \in Owed(c), conn[c].maxSeq < x
        PROVE  conn[c].cursor < x /\ (more \/ x \in page)
    <3>1. conn[c].cursor < x
      BY <1>1, <2>1, <2>3 DEF UnsentOK
    <3> QED
      BY <1>5, <3>1, OwedAreEvents
  <2>4. UnsentOK(r, c, Owed(c))
    BY <1>6, <2>3 DEF UnsentOK, ToReplay
  <2> QED
    BY <2>2, <2>4
<1>8. ConnOK(r, c, seen[c], Owed(c))
  BY <1>1, <1>2, <1>4, <1>6, <1>7 DEF ConnOK
<1> QED
  BY <1>1, <1>8, OnlyConn

\* A subscription that moves on, or fails, keeps its queue and its backlog.
LEMMA StageKeeps ==
  ASSUME LogInv, Types, StreamInv, NEW c \in Conn, ReplayFail(c) \/ Activate(c) \/ GoLive(c)
  PROVE  StreamInv'
<1>1. conn[c] \in ConnectionOf(ever) /\ ConnOK(conn[c], c, seen[c], Owed(c))
  BY DEF Types, StreamInv
<1>2. ASSUME NEW s, s \in {"stuck", "flush", "live"},
             conn' = [conn EXCEPT ![c] = [conn[c] EXCEPT !.stage = s]],
             UNCHANGED <<logVars, pump, seen, base>>, conn[c].stage \in {"replay", "flush"},
             s = "live" => conn[c].backlog = <<>>,
             s # "stuck" => \A x : ~ToReplay(conn[c], x)
      PROVE  StreamInv'
  <2> DEFINE r == [conn[c] EXCEPT !.stage = s]
  <2>1. /\ r.stage = s /\ r.closed = conn[c].closed /\ r.maxSeq = conn[c].maxSeq
        /\ r.queue = conn[c].queue /\ r.backlog = conn[c].backlog
    BY <1>1, <1>2 DEF ConnectionOf
  <2>2. conn' = [conn EXCEPT ![c] = r]
    BY <1>2
  <2> HIDE DEF r
  <2>3. ASSUME Subscribed(r)
        PROVE  SentOK(r, seen[c], Owed(c)) /\ UnsentOK(r, c, Owed(c))
    <3>1. Subscribed(conn[c]) /\ s # "stuck" /\ s # "replay"
      BY <1>2, <2>1, <2>3 DEF Subscribed
    <3>2. SentOK(conn[c], seen[c], Owed(c)) /\ UnsentOK(conn[c], c, Owed(c))
      BY <1>1, <3>1 DEF ConnOK
    <3>3. \A x \in Owed(c) : Coming(conn[c], c, x) => Coming(r, c, x)
      BY <2>1 DEF Coming
    <3> QED
      BY <1>2, <2>1, <3>1, <3>2, <3>3 DEF SentOK, UnsentOK
  <2>4. ConnOK(r, c, seen[c], Owed(c))
    BY <1>1, <1>2, <2>1, <2>3 DEF ConnOK
  <2> QED
    BY <1>2, <2>2, <2>4, OnlyConn
<1>3. CASE ReplayFail(c)
  BY <1>2, <1>3 DEF ReplayFail, clientVars
<1>4. CASE Activate(c)
  BY <1>2, <1>4 DEF Activate, clientVars, ToReplay
<1>5. CASE GoLive(c)
  BY <1>2, <1>5 DEF GoLive, clientVars, ToReplay
<1> QED
  BY <1>3, <1>4, <1>5

\* The replay sends its pages in order: between the last event it sent and the
\* next one nothing is owed.
LEMMA ReplaySendKeeps ==
  ASSUME LogInv, Types, StreamInv, NEW c \in Conn, ReplaySend(c)
  PROVE  StreamInv'
<1> DEFINE k == conn[c]
           e == Min(k.page)
           r == [k EXCEPT !.cursor = e, !.page = k.page \ {e}]
           q == Enqueued([r EXCEPT !.maxSeq = Max({r.maxSeq, e})], e)
           P == Owed(c)
<1>1. /\ conn' = [conn EXCEPT ![c] = Replayed(c)] /\ UNCHANGED <<logVars, pump, seen, base>>
      /\ k.stage = "replay" /\ k.page # {}
  BY DEF ReplaySend, Replayed, clientVars
<1>2. k \in ConnectionOf(ever) /\ ConnOK(k, c, seen[c], P) /\ Fits(k)
  BY DEF Types, StreamInv
<1>3. /\ ever \subseteq Nat /\ {0} \cup ever \subseteq Nat /\ P \subseteq log /\ P \subseteq ever
      /\ log \subseteq ever /\ k.page \subseteq ever /\ k.maxSeq \in Nat /\ k.cursor \in Nat
      /\ seen[c] \in Nat
  <2>1. {0} \cup ever \subseteq Nat /\ log \subseteq ever
    BY Committed
  <2> QED
    BY <1>2, <2>1, OwedAreEvents DEF ConnectionOf, Types
<1>4. e \in k.page /\ \A y \in k.page : e <= y
  BY <1>1, <1>3, LeastOf
<1>5. k.maxSeq <= k.cursor /\ k.cursor < e /\ IsPage(k.page, k.cursor)
  BY <1>1, <1>2, <1>4 DEF ConnOK, IsPage
<1> HIDE DEF e
<1>6. e \in ever /\ e \in Nat
  BY <1>3, <1>4
<1>7. Max({k.maxSeq, e}) = e
  <2>1. \A x \in {k.maxSeq, e} : x <= e
    BY <1>3, <1>5, <1>6
  <2>2. Max({k.maxSeq, e}) \in {k.maxSeq, e} /\ e <= Max({k.maxSeq, e})
    BY <1>3, <1>6, <2>1, GreatestOf
  <2> QED
    BY <1>3, <1>5, <1>6, <2>2
<1>8. /\ r.stage = "replay" /\ r.closed = k.closed /\ r.maxSeq = k.maxSeq /\ r.cursor = e
      /\ r.page = k.page \ {e} /\ r.more = k.more /\ r.queue = k.queue /\ r.backlog = k.backlog
      /\ r \in ConnectionOf(ever) /\ Fits(r)
  BY <1>1, <1>2, <1>6 DEF ConnectionOf, Fits
<1>9. IsPage(r.page, r.cursor)
  <2>1. ASSUME NEW y \in k.page \ {e}
        PROVE  e < y
    <3>1. y \in Nat /\ e <= y /\ y # e
      BY <1>3, <1>4
    <3> QED
      BY <1>6, <3>1
  <2>2. ASSUME NEW x \in log, NEW y \in k.page \ {e}, e < x
        PROVE  x \in k.page \ {e} \/ y < x
    <3>1. k.cursor < x /\ x # e
      BY <1>3, <1>5, <1>6, <2>2
    <3> QED
      BY <1>5, <3>1 DEF IsPage
  <2> QED
    BY <1>8, <2>1, <2>2 DEF IsPage
<1>10. q = Passed(r, e)
  <2>1. Fresh(r, e)
    BY <1>3, <1>5, <1>6, <1>8 DEF Fresh
  <2>2. Max({r.maxSeq, e}) = e
    BY <1>7, <1>8
  <2> HIDE DEF r
  <2> QED
    BY <2>1, <2>2 DEF Passed
\* Nothing owed lies between what was sent and the next of the page.
<1>11. ASSUME Subscribed(k), NEW x \in P, k.maxSeq < x
       PROVE  e <= x /\ k.cursor < x
  <2>1. k.cursor < x
    BY <1>1, <1>2, <1>11 DEF ConnOK, UnsentOK
  <2>2. x \in k.page \/ e < x
    BY <1>3, <1>4, <1>5, <2>1 DEF IsPage
  <2>3. x \in Nat
    BY <1>3
  <2>4. e <= x
    BY <1>4, <1>6, <2>2, <2>3
  <2> QED
    BY <2>1, <2>4
<1>12. Subscribed(k) => SentOK(k, seen[c], P) /\ UnsentOK(k, c, P)
  BY <1>2 DEF ConnOK
<1>13. k.closed \in BOOLEAN /\ (Subscribed(k) <=> ~k.closed)
  BY <1>1, <1>2 DEF Subscribed, ConnectionOf
<1>14. Replayed(c) = IF e \notin Wants[c] THEN r
                     ELSE IF q.closed THEN [q EXCEPT !.stage = "stuck", !.page = {}] ELSE q
  BY DEF Replayed, e
<1> HIDE DEF k, r, q
\* An event that is not wanted is passed over.
<1>15. CASE e \notin Wants[c]
  <2>1. ASSUME NEW x \in P
        PROVE  x # e
    BY <1>15, <2>1 DEF Owed, P
  <2>2. ASSUME ~r.closed
        PROVE  SentOK(r, seen[c], P) /\ UnsentOK(r, c, P)
    <3>1. Subscribed(k) /\ SentOK(k, seen[c], P) /\ UnsentOK(k, c, P)
      BY <1>8, <1>12, <1>13, <2>2
    <3>2. \A x \in P : Coming(k, c, x) => Coming(r, c, x)
      BY <1>8 DEF Coming
    <3>3. ASSUME NEW x \in P, k.maxSeq < x
          PROVE  e < x
      <4>1. e <= x /\ x # e /\ x \in Nat
        BY <1>3, <1>11, <2>1, <3>1, <3>3
      <4> QED
        BY <1>6, <4>1
    <3>4. \A x \in P : ToReplay(k, x) => ToReplay(r, x)
      BY <1>1, <1>8, <2>1 DEF ToReplay, k
    <3> QED
      BY <1>8, <3>1, <3>2, <3>3, <3>4 DEF SentOK, UnsentOK
  <2>3. ConnOK(r, c, seen[c], P)
    BY <1>2, <1>3, <1>5, <1>6, <1>8, <1>9, <2>2 DEF ConnOK, Subscribed
  <2> QED
    BY <1>1, <1>14, <1>15, <2>3, OnlyConn
<1>16. CASE e \in Wants[c]
  <2>1. QueueOK(r.queue, seen[c], P)
    BY <1>2, <1>8 DEF ConnOK
  <2> HIDE DEF P
  <2>2. r.closed = k.closed /\ (~r.closed => SentOK(r, seen[c], P))
    BY <1>8, <1>12, <1>13 DEF SentOK
  <2>3. /\ q \in ConnectionOf(ever) /\ q.stage = "replay" /\ q.cursor = e /\ q.page = r.page
        /\ q.more = r.more /\ q.backlog = r.backlog /\ q.maxSeq = e
    BY <1>3, <1>5, <1>6, <1>8, <1>10, PassedFields, PassedFits DEF Fresh
  <2>4. /\ QueueOK(q.queue, seen[c], P)
        /\ ~q.closed => ~r.closed /\ SentOK(q, seen[c], P)
    <3>1. ~r.closed => \A x \in P : r.maxSeq < x => e <= x
      BY <1>8, <1>11, <1>13
    <3>2. /\ ever \subseteq Nat /\ P \subseteq ever /\ seen[c] \in Nat
          /\ r \in ConnectionOf(ever) /\ e \in ever
      BY <1>3, <1>6, <1>8
    <3>3. /\ QueueOK(Passed(r, e).queue, seen[c], P)
          /\ ~Passed(r, e).closed => ~r.closed /\ SentOK(Passed(r, e), seen[c], P)
      BY <2>1, <2>2, <3>1, <3>2, PassedKeeps, Zenon
    <3> QED
      BY <1>10, <3>3
  <2>5. CASE q.closed
    <3>1. /\ [q EXCEPT !.stage = "stuck", !.page = {}].queue = q.queue
          /\ [q EXCEPT !.stage = "stuck", !.page = {}].stage = "stuck"
      BY <2>3 DEF ConnectionOf
    <3>2. ConnOK([q EXCEPT !.stage = "stuck", !.page = {}], c, seen[c], P)
      BY <2>4, <3>1 DEF ConnOK, Subscribed
    <3> QED
      BY <1>1, <1>14, <1>16, <2>5, <3>2, OnlyConn DEF P
  <2>6. CASE ~q.closed
    <3>1. Subscribed(k) /\ UnsentOK(k, c, P)
      BY <1>12, <1>13, <2>2, <2>4, <2>6
    <3>2. ASSUME NEW x \in P, e < x
          PROVE  ToReplay(q, x) \/ Coming(q, c, x)
      <4>1. k.maxSeq < x /\ x # e
        BY <1>3, <1>5, <1>6, <3>2
      <4>2. ToReplay(k, x) \/ Coming(k, c, x)
        BY <3>1, <4>1 DEF UnsentOK
      <4> QED
        BY <1>8, <2>3, <4>1, <4>2 DEF ToReplay, Coming
    <3>3. UnsentOK(q, c, P)
      BY <2>3, <3>2 DEF UnsentOK
    <3>4. ConnOK(q, c, seen[c], P)
      BY <1>6, <1>8, <1>9, <2>3, <2>4, <2>6, <3>3 DEF ConnOK
    <3> QED
      BY <1>1, <1>14, <1>16, <2>6, <3>4, OnlyConn DEF P
  <2> QED
    BY <2>5, <2>6
<1> QED
  BY <1>15, <1>16

\* The flush passes on the first of the backlog: nothing owed is below it.
LEMMA FlushKeeps ==
  ASSUME LogInv, Types, StreamInv, NEW c \in Conn, Flush(c)
  PROVE  StreamInv'
<1> DEFINE k == conn[c]
           e == Head(k.backlog)
           q == Passed(k, e)
           b == IF q.closed THEN <<>> ELSE Tail(k.backlog)
           r == [q EXCEPT !.backlog = b]
           P == Owed(c)
<1>1. /\ k \in ConnectionOf(ever) /\ ConnOK(k, c, seen[c], P) /\ Fits(k)
      /\ k.stage = "flush" /\ k.backlog # <<>>
      /\ UNCHANGED <<logVars, pump, seen, base>>
  BY DEF Types, StreamInv, Flush, clientVars
<1>2. k.backlog \in Seq(ever)
  BY <1>1 DEF ConnectionOf
<1>3. e \in ever
  BY <1>1, <1>2, TailFits
<1>4. ever \subseteq Nat /\ P \subseteq ever /\ seen[c] \in Nat /\ e \in Nat
  <2>1. {0} \cup ever \subseteq Nat
    BY Committed
  <2> QED
    BY <1>3, <2>1, OwedAreEvents DEF Types
<1>5. q \in ConnectionOf(ever) /\ q.stage = "flush" /\ q.backlog = k.backlog
  BY <1>1, <1>3, PassedFits, PassedFields
<1>6. conn' = [conn EXCEPT ![c] = r]
  <2>1. q.backlog = k.backlog
    BY <1>5
  <2> QED
    BY <2>1 DEF Flush
<1> HIDE DEF e
<1>7. k.closed \in BOOLEAN
  BY <1>1 DEF ConnectionOf
<1>8. ~k.closed => SentOK(k, seen[c], P) /\ UnsentOK(k, c, P)
  BY <1>1, <1>7 DEF ConnOK, Subscribed
<1>9. \A x : ~ToReplay(k, x)
  BY <1>1 DEF ToReplay
<1>10. ~k.closed => \A x \in P : k.maxSeq < x => Coming(k, c, x) /\ e <= x
  <2> SUFFICES ASSUME ~k.closed, NEW x \in P, k.maxSeq < x
               PROVE  Coming(k, c, x) /\ e <= x
    OBVIOUS
  <2>1. Coming(k, c, x)
    BY <1>8, <1>9 DEF UnsentOK
  <2>2. ~(x < e)
    BY <1>1, <1>2, <1>4, <2>1, InTurnTail DEF Coming, e
  <2>3. x \in Nat
    BY <1>4
  <2> QED
    BY <1>4, <2>1, <2>2, <2>3
<1> HIDE DEF k, P
<1>11. QueueOK(k.queue, seen[c], P)
  BY <1>1 DEF ConnOK
<1>12. /\ QueueOK(q.queue, seen[c], P)
       /\ ~q.closed => ~k.closed /\ SentOK(q, seen[c], P)
       /\ \A x \in P : q.maxSeq < x => k.maxSeq < x /\ e < x
  <2>1. /\ QueueOK(Passed(k, e).queue, seen[c], P)
        /\ ~Passed(k, e).closed => ~k.closed /\ SentOK(Passed(k, e), seen[c], P)
        /\ \A x \in P : Passed(k, e).maxSeq < x => k.maxSeq < x /\ e < x
    BY <1>1, <1>3, <1>4, <1>8, <1>10, <1>11, PassedKeeps, Zenon
  <2> QED
    BY <2>1
<1> HIDE DEF q
<1>13. /\ r.stage = "flush" /\ r.closed = q.closed /\ r.maxSeq = q.maxSeq
       /\ r.queue = q.queue /\ r.backlog = b
  BY <1>5 DEF ConnectionOf
<1> HIDE DEF r
<1>14. ASSUME ~r.closed, NEW x \in P, r.maxSeq < x
       PROVE  Coming(r, c, x)
  <2>1. k.maxSeq < x /\ e < x /\ ~k.closed /\ b = Tail(k.backlog)
    BY <1>12, <1>13, <1>14
  <2>2. Coming(k, c, x) /\ x # e
    BY <1>4, <1>10, <2>1
  <2>3. InTurn(Tail(k.backlog), x)
    BY <1>1, <1>2, <1>4, <2>2, InTurnTail DEF Coming, e
  <2>4. x \in Numbers(k.backlog) => x \in Numbers(Tail(k.backlog))
    BY <1>1, <1>2, <2>2, NumbersTail DEF e
  <2> QED
    BY <1>13, <2>1, <2>2, <2>3, <2>4 DEF Coming
<1>15. ~r.closed => SentOK(r, seen[c], P) /\ UnsentOK(r, c, P)
  BY <1>12, <1>13, <1>14 DEF SentOK, UnsentOK
<1>16. ConnOK(r, c, seen[c], P)
  BY <1>12, <1>13, <1>15 DEF ConnOK, Subscribed
<1> QED
  BY <1>1, <1>6, <1>16, OnlyConn DEF P

\* The first of the queue goes to the client: it is the next event owed.
LEMMA DeliverKeeps ==
  ASSUME LogInv, Types, StreamInv, NEW c \in Conn, Deliver(c)
  PROVE  /\ StreamInv'
         /\ Head(conn[c].queue) \in ever /\ Head(conn[c].queue) > seen[c]
         /\ \A x \in Owed(c) : seen[c] < x => Head(conn[c].queue) <= x
<1> DEFINE k == conn[c]
           e == Head(k.queue)
           r == [k EXCEPT !.queue = Tail(k.queue)]
           P == Owed(c)
<1>1. /\ k \in ConnectionOf(ever) /\ ConnOK(k, c, seen[c], P) /\ k.queue # <<>>
      /\ conn' = [conn EXCEPT ![c] = r] /\ seen' = [seen EXCEPT ![c] = e]
      /\ UNCHANGED <<log, pump, base>>
  BY DEF Types, StreamInv, Deliver, logVars
<1>2. k.queue \in Seq(ever)
  BY <1>1 DEF ConnectionOf
<1>3. e \in ever
  BY <1>1, <1>2, TailFits
<1>4. ever \subseteq Nat /\ P \subseteq ever /\ seen[c] \in Nat /\ e \in Nat
  <2>1. {0} \cup ever \subseteq Nat
    BY Committed
  <2> QED
    BY <1>3, <2>1, OwedAreEvents DEF Types
<1>5. Owed(c)' = P
  BY <1>1 DEF Owed
<1>6. /\ r.stage = k.stage /\ r.closed = k.closed /\ r.maxSeq = k.maxSeq /\ r.cursor = k.cursor
      /\ r.page = k.page /\ r.more = k.more /\ r.backlog = k.backlog /\ r.queue = Tail(k.queue)
  BY <1>1 DEF ConnectionOf
<1>7. Numbers(k.queue) = {e} \cup Numbers(Tail(k.queue))
  BY <1>1, <1>2, NumbersTail
<1>8. Sorted(Tail(k.queue)) /\ \A y \in Numbers(Tail(k.queue)) : e < y
  BY <1>1, <1>2, <1>4, SortedTail DEF ConnOK, QueueOK
<1>9. Numbers(Tail(k.queue)) \subseteq Nat
  <2>1. Tail(k.queue) \in Seq(ever)
    BY <1>1, <1>2, TailFits
  <2> QED
    BY <1>4, <2>1, ElementOfSeq DEF Numbers
<1>10. k.stage # "open"
  BY <1>1, OpenIsEmpty
<1> HIDE DEF e, r, P
<1>11. seen[c] < e
  BY <1>1, <1>7 DEF ConnOK, QueueOK
<1>12. ASSUME NEW x \in P, seen[c] < x
       PROVE  e <= x
  <2>1. x \in Nat
    BY <1>4
  <2>2. ~(x < e)
    <3> SUFFICES ASSUME x < e
                 PROVE  FALSE
      OBVIOUS
    <3>1. x \in Numbers(k.queue)
      BY <1>1, <1>7, <1>12 DEF ConnOK, QueueOK
    <3>2. x \in Numbers(Tail(k.queue))
      BY <1>4, <1>7, <2>1, <3>1
    <3>3. e < x
      BY <1>8, <3>2
    <3> QED
      BY <1>4, <2>1, <3>3
  <2> QED
    BY <1>4, <2>1, <2>2
<1>13. QueueOK(Tail(k.queue), e, P)
  <2>1. ASSUME NEW x \in P, NEW y \in Numbers(Tail(k.queue)), e < x, x < y
        PROVE  x \in Numbers(Tail(k.queue))
    <3>1. seen[c] < x /\ x # e
      BY <1>4, <1>11, <2>1
    <3>2. x \in Numbers(k.queue)
      BY <1>1, <1>7, <2>1, <3>1 DEF ConnOK, QueueOK
    <3> QED
      BY <1>7, <3>1, <3>2
  <2> QED
    BY <1>8, <2>1 DEF QueueOK
<1>14. ASSUME Subscribed(k)
       PROVE  SentOK(r, e, P) /\ UnsentOK(r, c, P)
  <2>1. SentOK(k, seen[c], P) /\ UnsentOK(k, c, P)
    BY <1>1, <1>14 DEF ConnOK
  <2>2. e <= k.maxSeq /\ \A y \in Numbers(Tail(k.queue)) : y <= k.maxSeq
    BY <1>7, <2>1 DEF SentOK
  <2>3. ASSUME NEW x \in P, e < x, x <= k.maxSeq
        PROVE  x \in Numbers(Tail(k.queue))
    <3>1. seen[c] < x /\ x # e
      BY <1>4, <1>11, <2>3
    <3> QED
      BY <1>7, <2>1, <2>3, <3>1 DEF SentOK
  <2>4. SentOK(r, e, P)
    BY <1>6, <2>2, <2>3 DEF SentOK
  <2>5. \A x : (ToReplay(k, x) => ToReplay(r, x)) /\ (Coming(k, c, x) => Coming(r, c, x))
    BY <1>6 DEF ToReplay, Coming
  <2>6. UnsentOK(r, c, P)
    BY <1>6, <2>1, <2>5 DEF UnsentOK
  <2> QED
    BY <2>4, <2>6
<1>15. ConnOK(r, c, e, P)
  <2>1. k.stage # "off"
    BY <1>1 DEF ConnOK, NoConnection
  <2>2. Subscribed(r) => Subscribed(k)
    BY <1>6 DEF Subscribed
  <2> HIDE DEF k
  <2> QED
    BY <1>1, <1>6, <1>10, <1>13, <1>14, <2>1, <2>2 DEF ConnOK
<1>16. StreamInv'
  BY <1>1, <1>5, <1>15, ConnStep
<1> QED
  BY <1>3, <1>4, <1>11, <1>12, <1>16 DEF e, P

\* Connections come and go: one with no subscription is owed nothing.
LEMMA NothingOwed ==
  ASSUME NEW c, NEW s, NEW P, NEW r, r = NoConnection \/ r = [NoConnection EXCEPT !.stage = "open"]
  PROVE  ConnOK(r, c, s, P) /\ ConnOK(r, c, s, P)'
<1>1. r.stage \in {"off", "open"} /\ r = [NoConnection EXCEPT !.stage = r.stage]
      /\ r.queue = <<>> /\ ~Subscribed(r)
  <2>1. NoConnection = [NoConnection EXCEPT !.stage = "off"]
    BY DEF NoConnection
  <2>2. PICK t \in {"off", "open"} : r = [NoConnection EXCEPT !.stage = t]
    BY <2>1
  <2>3. r.stage = t /\ r.queue = <<>>
    BY <2>2 DEF NoConnection
  <2> QED
    BY <2>2, <2>3 DEF Subscribed
<1>2. QueueOK(r.queue, s, P)
  BY <1>1, EmptyQueue
<1>3. ConnOK(r, c, s, P)
  BY <1>1, <1>2 DEF ConnOK
<1>4. ConnOK(r, c, s, P)'
  BY <1>1, <1>2 DEF ConnOK
<1> QED
  BY <1>3, <1>4

LEMMA NothingOwedNext ==
  ASSUME NEW c \in Conn,
         conn'[c] = NoConnection \/ conn'[c] = [NoConnection EXCEPT !.stage = "open"]
  PROVE  ConnOK(conn[c], c, seen[c], Owed(c))'
<1>1. PICK r : r = conn'[c]
  OBVIOUS
<1>2. PICK s : s = seen'[c]
  OBVIOUS
<1>3. PICK P : P = Owed(c)'
  OBVIOUS
<1>4. ConnOK(r, c, s, P)'
  BY <1>1, NothingOwed
<1> QED
  BY <1>1, <1>2, <1>3, <1>4

LEMMA InitStream == Init => StreamInv
<1> SUFFICES ASSUME Init
             PROVE  StreamInv
  OBVIOUS
<1>1. ASSUME NEW c \in Conn
      PROVE  ConnOK(conn[c], c, seen[c], Owed(c))
  <2>1. conn[c] = NoConnection
    BY DEF Init
  <2> QED
    BY <2>1, NothingOwed
<1>2. PumpOK(NoReader)
  BY DEF PumpOK, NoReader, IsPage
<1> QED
  BY <1>1, <1>2 DEF Init, StreamInv

LEMMA RegisterKeeps ==
  ASSUME LogInv, Types, LogIsTail, StreamInv, NEW c \in Conn, Register(c)
  PROVE  StreamInv'
<1> DEFINE r == [conn[c] EXCEPT !.stage = "open"]
<1>1. /\ conn' = [conn EXCEPT ![c] = r] /\ UNCHANGED <<log, seen, base>>
      /\ conn[c].stage = "off"
  BY DEF Register, logVars, clientVars
<1>2. ConnOK(conn[c], c, seen[c], Owed(c)) /\ conn[c] \in ConnectionOf(ever)
  BY DEF StreamInv, Types
<1>3. r = [NoConnection EXCEPT !.stage = "open"]
  <2>1. conn[c] = [NoConnection EXCEPT !.stage = "off"]
    BY <1>1, <1>2 DEF ConnOK
  <2> QED
    BY <2>1 DEF NoConnection
<1> HIDE DEF r
<1>4. ConnOK(r, c, seen[c], Owed(c)) /\ seen' = [seen EXCEPT ![c] = seen[c]]
      /\ Owed(c)' = Owed(c)
  BY <1>1, <1>3, NothingOwed DEF Types, Owed
<1>5. CASE UNCHANGED pump
  BY <1>1, <1>4, <1>5, ConnStep
<1>6. ASSUME FirstIn, NEW p \in Pump,
             pump' = [pump EXCEPT ![p] = [NoReader EXCEPT !.stage = "start", !.cursor = Latest]]
      PROVE  StreamInv'
  <2>1. Latest # 0
    BY LatestIs, Committed DEF LogIsTail
  <2>2. PumpOK([NoReader EXCEPT !.stage = "start", !.cursor = Latest])
    BY <2>1 DEF PumpOK, NoReader, IsPage
  <2>3. ASSUME NEW o \in Pump
        PROVE  PumpOK(pump[o])'
    BY <1>1, <1>6, <2>2, PumpsUndisturbed DEF StreamInv, PumpOK, IsPage, Types
  <2>4. \A d \in Conn : conn[d].stage = "off"
    BY <1>6 DEF FirstIn, Types
  <2>5. ASSUME NEW d \in Conn
        PROVE  ConnOK(conn[d], d, seen[d], Owed(d))'
    <3>1. conn'[d] = r \/ conn'[d] = conn[d]
      BY <1>1 DEF Types
    <3>2. conn[d] = NoConnection
      BY <2>4 DEF StreamInv, ConnOK, NoConnection
    <3> QED
      BY <1>3, <3>1, <3>2, NothingOwedNext
  <2> QED
    BY <2>3, <2>5 DEF StreamInv
<1> QED
  BY <1>5, <1>6 DEF Register, Start

LEMMA UnregisterKeeps ==
  ASSUME LogInv, Types, StreamInv, NEW c \in Conn, Unregister(c)
  PROVE  StreamInv'
<1>1. /\ conn' = [conn EXCEPT ![c] = NoConnection] /\ UNCHANGED <<log, seen, base>>
      /\ pump' = [p \in Pump |-> Dropped(p, {c}, LastOut(c))]
  BY DEF Unregister, logVars, clientVars
<1>2. ASSUME NEW p \in Pump
      PROVE  /\ pump'[p].stage = pump[p].stage /\ pump'[p].cursor = pump[p].cursor
             /\ pump'[p].page = pump[p].page /\ pump'[p].event = pump[p].event
             /\ pump'[p].to = pump[p].to \ {c}
  <2>1. pump[p] \in ReaderOf(ever)
    BY DEF Types
  <2> QED
    BY <1>1, <2>1 DEF Dropped, ReaderOf
<1>3. ASSUME NEW p \in Pump
      PROVE  PumpOK(pump[p])'
  <2>1. PumpOK(pump[p])
    BY DEF StreamInv
  <2>2. IsPage(pump[p].page, pump[p].cursor)'
    BY <1>1, <1>2, <2>1 DEF PumpOK, IsPage
  <2> QED
    BY <1>2, <2>1, <2>2 DEF PumpOK
<1>4. ASSUME NEW d \in Conn
      PROVE  ConnOK(conn[d], d, seen[d], Owed(d))'
  <2>1. CASE d = c
    <3>1. conn'[c] = NoConnection
      BY <1>1 DEF Types
    <3> QED
      BY <2>1, <3>1, NothingOwedNext
  <2>2. CASE d # c
    <3>1. conn'[d] = conn[d]
      BY <1>1, <2>2 DEF Types
    <3>2. \A p \in Pump, x \in Owed(d) : ToOffer(p, d, x) => ToOffer(p, d, x)'
      BY <1>2, <2>2 DEF ToOffer
    <3> QED
      BY <1>1, <3>1, <3>2, Undisturbed DEF StreamInv
  <2> QED
    BY <2>1, <2>2
<1> QED
  BY <1>3, <1>4 DEF StreamInv

LEMMA CrashKeeps ==
  ASSUME Types, StreamInv, Crash
  PROVE  StreamInv'
<1>1. conn' = [c \in Conn |-> NoConnection] /\ pump' = [p \in Pump |-> NoReader]
  BY DEF Crash
<1>2. \A c \in Conn : ConnOK(conn[c], c, seen[c], Owed(c))'
  BY <1>1, NothingOwedNext
<1>3. \A p \in Pump : PumpOK(pump[p])'
  BY <1>1 DEF PumpOK, NoReader, IsPage
<1> QED
  BY <1>2, <1>3 DEF StreamInv

\* A step of one reader: it keeps what it has to offer the subscriptions.
LEMMA PumpStep ==
  ASSUME Types, StreamInv, NEW p \in Pump, NEW r, pump' = [pump EXCEPT ![p] = r],
         UNCHANGED <<log, conn, seen, base>>, PumpOK(r),
         \A d \in Conn : \A x \in Owed(d) : Subscribed(conn[d]) /\ ToOffer(p, d, x) =>
           r.cursor < x \/ (r.event = x /\ d \in r.to)
  PROVE  StreamInv'
<1>1. \A o \in Pump : pump'[o] = IF o = p THEN r ELSE pump[o]
  BY DEF Types
<1>2. ASSUME NEW o \in Pump
      PROVE  PumpOK(pump[o])'
  <2>1. PumpOK(r)'
    BY DEF PumpOK, IsPage
  <2> QED
    BY <1>1, <2>1, PumpsUndisturbed DEF StreamInv
<1>3. ASSUME NEW d \in Conn
      PROVE  ConnOK(conn[d], d, seen[d], Owed(d))'
  <2>1. Subscribed(conn[d]) =>
          \A o \in Pump, x \in Owed(d) : ToOffer(o, d, x) => ToOffer(o, d, x)'
    BY <1>1 DEF ToOffer
  <2> QED
    BY <2>1, Undisturbed DEF StreamInv
<1> QED
  BY <1>2, <1>3 DEF StreamInv

\* A reader takes the lowest event of its page for all that are subscribed, and
\* otherwise leaves its cursor where it is, or starts from nothing.
LEMMA ReaderKeeps ==
  ASSUME LogInv, Types, StreamInv, NEW p \in Pump,
         PumpOpen(p) \/ PumpRead(p) \/ PumpFail(p) \/ PumpTake(p) \/ PumpEnd(p)
  PROVE  StreamInv'
<1>1. pump[p] \in ReaderOf(ever) /\ PumpOK(pump[p])
  BY DEF Types, StreamInv
<1>2. UNCHANGED <<log, conn, seen, base>>
  BY DEF PumpOpen, PumpRead, PumpFail, PumpTake, PumpEnd, logVars, clientVars
<1>3. CASE PumpOpen(p)
  <2> DEFINE r == [pump[p] EXCEPT !.stage = "run", !.cursor = Opened(pump[p].cursor)]
  <2>1. pump' = [pump EXCEPT ![p] = r]
    BY <1>3 DEF PumpOpen, Types
  <2>2. Opened(pump[p].cursor) = pump[p].cursor
    BY <1>1, <1>3 DEF PumpOpen, PumpOK, Opened
  <2>3. /\ r.stage = "run" /\ r.cursor = pump[p].cursor /\ r.page = pump[p].page
        /\ r.event = pump[p].event /\ r.to = pump[p].to
    BY <1>1, <2>2 DEF ReaderOf
  <2> HIDE DEF r
  <2>4. PumpOK(r)
    BY <1>1, <2>3 DEF PumpOK
  <2> QED
    BY <1>2, <2>1, <2>3, <2>4, PumpStep DEF ToOffer
<1>4. CASE PumpRead(p)
  <2> DEFINE page == Page(pump[p].cursor, Batch)
             r == [pump[p] EXCEPT !.page = page, !.failures = 0]
  <2>1. pump' = [pump EXCEPT ![p] = r] /\ pump[p].stage = "run"
    BY <1>4 DEF PumpRead, Types
  <2>2. pump[p].cursor \in Nat
    BY <1>1, Committed DEF ReaderOf
  <2>3. IsPage(page, pump[p].cursor)
    BY <2>2, PageIsPage
  <2> HIDE DEF page
  <2>4. /\ r.stage = "run" /\ r.cursor = pump[p].cursor /\ r.page = page
        /\ r.event = pump[p].event /\ r.to = pump[p].to
    BY <1>1, <2>1 DEF ReaderOf
  <2> HIDE DEF r
  <2>5. PumpOK(r)
    BY <1>1, <2>3, <2>4 DEF PumpOK
  <2> QED
    BY <1>2, <2>1, <2>4, <2>5, PumpStep DEF ToOffer
<1>5. CASE Finish(p)
  <2>1. pump' = [pump EXCEPT ![p] = NoReader]
    BY <1>5 DEF Finish
  <2>2. PumpOK(NoReader) /\ NoReader.cursor = 0
    BY DEF PumpOK, NoReader, IsPage
  <2>3. \A d \in Conn : \A x \in Owed(d) : 0 < x
    BY OwedAreEvents
  <2> QED
    BY <1>2, <2>1, <2>2, <2>3, PumpStep
<1>6. CASE PumpFail(p) /\ ~Finish(p)
  <2> DEFINE r == [pump[p] EXCEPT !.failures = pump[p].failures + 1]
  <2>1. pump' = [pump EXCEPT ![p] = r]
    BY <1>6 DEF PumpFail, Types
  <2>2. /\ r.stage = pump[p].stage /\ r.cursor = pump[p].cursor /\ r.page = pump[p].page
        /\ r.event = pump[p].event /\ r.to = pump[p].to
    BY <1>1 DEF ReaderOf
  <2> HIDE DEF r
  <2>3. PumpOK(r)
    BY <1>1, <2>2 DEF PumpOK
  <2> QED
    BY <1>2, <2>1, <2>2, <2>3, PumpStep DEF ToOffer
<1>7. CASE PumpTake(p)
  <2> DEFINE e == Min(pump[p].page)
             r == [pump[p] EXCEPT !.page = pump[p].page \ {e}, !.cursor = e,
                                  !.event = e, !.to = listening]
  <2>1. pump' = [pump EXCEPT ![p] = r] /\ pump[p].page # {} /\ pump[p].stage = "run"
        /\ pump[p].to = {}
    BY <1>7 DEF PumpTake, Types
  <2>2. pump[p].page \subseteq ever /\ ever \subseteq Nat
    BY <1>1, Committed DEF ReaderOf
  <2>3. e \in pump[p].page /\ \A y \in pump[p].page : e <= y
    BY <2>1, <2>2, LeastOf
  <2> HIDE DEF e
  <2>4. /\ r.stage = "run" /\ r.cursor = e /\ r.page = pump[p].page \ {e}
        /\ r.event = e /\ r.to = listening
    BY <1>1, <2>1 DEF ReaderOf
  <2> HIDE DEF r
  <2>5. e \in Nat /\ pump[p].cursor < e /\ pump[p].cursor \in Nat
    <3>1. pump[p].cursor \in {0} \cup ever
      BY <1>1 DEF ReaderOf
    <3>2. pump[p].cursor < e
      BY <1>1, <2>3 DEF PumpOK, IsPage
    <3>3. {0} \cup ever \subseteq Nat /\ e \in ever
      BY <1>1, <2>2, <2>3
    <3> QED
      BY <3>1, <3>2, <3>3
  <2>6. PumpOK(r)
    <3>1. ASSUME NEW y \in r.page
          PROVE  e < y
      <4>1. y \in Nat /\ e <= y /\ y # e
        BY <2>2, <2>3, <2>4
      <4> QED
        BY <2>5, <4>1
    <3>2. ASSUME NEW x \in log, NEW y \in r.page, e < x
          PROVE  x \in r.page \/ y < x
      <4>1. x \in Nat /\ pump[p].cursor < x /\ x # e
        BY <2>5, <3>2, Committed
      <4> QED
        BY <1>1, <2>4, <4>1 DEF PumpOK, IsPage
    <3> QED
      BY <2>4, <3>1, <3>2 DEF PumpOK, IsPage
  <2>7. ASSUME NEW d \in Conn, NEW x \in Owed(d), Subscribed(conn[d]), ToOffer(p, d, x)
        PROVE  r.cursor < x \/ (r.event = x /\ d \in r.to)
    <3>1. x \in log /\ x \in Nat /\ pump[p].cursor < x
      BY <2>1, <2>7, OwedAreEvents, Committed DEF ToOffer
    <3>2. x \in pump[p].page \/ e < x
      BY <1>1, <2>3, <3>1 DEF PumpOK, IsPage
    <3>3. e = x \/ e < x
      BY <2>3, <2>5, <3>1, <3>2
    <3>4. d \in listening
      BY <2>7 DEF Types, Subscribed
    <3> QED
      BY <2>4, <3>3, <3>4
  <2> QED
    BY <1>2, <2>1, <2>6, <2>7, PumpStep
<1> QED
  BY <1>3, <1>4, <1>5, <1>6, <1>7 DEF PumpEnd

\* A reader offers its event to one connection.  What it had to offer to the
\* connection is what it has still to offer, but for the event.
LEMMA OfferStep ==
  ASSUME Types, StreamInv, NEW p \in Pump, NEW c \in Conn, NEW r, NEW s, NEW P,
         P = Owed(c), s = seen[c], conn' = [conn EXCEPT ![c] = r],
         pump' = [pump EXCEPT ![p] = [pump[p] EXCEPT !.to = pump[p].to \ {c}]],
         UNCHANGED <<log, seen, base>>,
         QueueOK(r.queue, s, P), Subscribed(r) => SentOK(r, s, P),
         \A x \in P : Subscribed(r) /\ r.maxSeq < x =>
           /\ r.stage = "replay" => r.cursor < x
           /\ \/ ToReplay(r, x)
              \/ /\ InTurn(r.backlog, x)
                 /\ \A o \in Pump : \/ ToOffer(o, c, x) /\ (o = p => pump[p].event # x)
                                   \/ x \in Numbers(r.backlog),
         r.stage \in {"off", "open"} => r = [NoConnection EXCEPT !.stage = r.stage],
         r.stage = "live" => r.backlog = <<>>,
         r.stage = "replay" => r.maxSeq <= r.cursor /\ IsPage(r.page, r.cursor)
  PROVE  StreamInv'
<1>1. \A o \in Pump : /\ pump'[o].cursor = pump[o].cursor /\ pump'[o].page = pump[o].page
                      /\ pump'[o].event = pump[o].event /\ pump'[o].stage = pump[o].stage
                      /\ pump'[o].to = IF o = p THEN pump[o].to \ {c} ELSE pump[o].to
  <2>1. \A o \in Pump : pump[o] \in ReaderOf(ever)
    BY DEF Types
  <2> QED
    BY <2>1 DEF Types, ReaderOf
<1>2. \A o \in Pump : PumpOK(pump[o])'
  BY <1>1 DEF StreamInv, PumpOK, IsPage
<1>3. ASSUME NEW d \in Conn \ {c}
      PROVE  ConnOK(conn[d], d, seen[d], Owed(d))'
  <2>1. conn'[d] = conn[d]
    BY DEF Types
  <2>2. \A o \in Pump, x \in Owed(d) : ToOffer(o, d, x) => ToOffer(o, d, x)'
    BY <1>1 DEF ToOffer
  <2> QED
    BY <2>1, <2>2, Undisturbed DEF StreamInv
<1>4. ASSUME NEW o \in Pump, NEW x, ToOffer(o, c, x), o = p => pump[p].event # x
      PROVE  ToOffer(o, c, x)'
  BY <1>1, <1>4 DEF ToOffer
<1>5. ConnOK(r, c, s, P)'
  <2>1. Subscribed(r) => UnsentOK(r, c, P)'
    BY <1>4 DEF UnsentOK, Coming, ToReplay
  <2>2. IsPage(r.page, r.cursor) => IsPage(r.page, r.cursor)'
    BY DEF IsPage
  <2> QED
    BY <2>1, <2>2 DEF ConnOK
<1>6. conn'[c] = r /\ seen'[c] = s /\ Owed(c)' = P
  BY DEF Types, Owed
<1>7. ConnOK(conn[c], c, seen[c], Owed(c))'
  BY <1>5, <1>6
<1> QED
  BY <1>2, <1>3, <1>7 DEF StreamInv

\* A live subscription passes the event on as the next one, and a replaying one
\* keeps it behind the lower ones.
LEMMA RouteKeeps ==
  ASSUME LogInv, Types, StreamInv, NEW p \in Pump, NEW c \in Conn, PumpRoute(p, c)
  PROVE  StreamInv'
<1>1. PICK k : k = conn[c]
  OBVIOUS
<1>2. PICK e : e = pump[p].event
  OBVIOUS
<1>3. PICK P : P = Owed(c)
  OBVIOUS
<1>4. PICK s : s = seen[c]
  OBVIOUS
<1>5. /\ k \in ConnectionOf(ever) /\ Fits(k) /\ ConnOK(k, c, s, P) /\ k.stage # "flush"
      /\ UNCHANGED <<log, seen, base>> /\ c \in pump[p].to
      /\ pump' = [pump EXCEPT ![p] = [pump[p] EXCEPT !.to = pump[p].to \ {c}]]
      /\ conn' = [conn EXCEPT ![c] = IF e \in Wants[c] THEN Sent(k, e) ELSE k]
  BY <1>1, <1>2, <1>3, <1>4 DEF PumpRoute, Types, StreamInv, logVars, clientVars
<1>6. e \in ever /\ e = pump[p].cursor
  <2>1. pump[p] \in ReaderOf(ever) /\ PumpOK(pump[p]) /\ e # 0
    BY <1>2, <1>5 DEF Types, StreamInv
  <2> QED
    BY <1>2, <1>5, <2>1 DEF PumpOK, ReaderOf
<1>7. ever \subseteq Nat /\ P \subseteq ever /\ s \in Nat /\ e \in Nat
  <2>1. {0} \cup ever \subseteq Nat
    BY Committed
  <2> QED
    BY <1>3, <1>4, <1>6, <2>1, OwedAreEvents DEF Types
<1>8. \A x \in P : ToOffer(p, c, x) => e <= x
  BY <1>2, <1>6, <1>7 DEF ToOffer
<1>9. Subscribed(k) => SentOK(k, s, P) /\ UnsentOK(k, c, P)
  BY <1>5 DEF ConnOK
<1>10. k.closed \in BOOLEAN /\ k.backlog \in Seq(ever)
  BY <1>5 DEF ConnectionOf
<1>11. CASE conn' = [conn EXCEPT ![c] = k] /\ (e \notin Wants[c] \/ ~Subscribed(k))
  <2>1. \A x \in P : Subscribed(k) => x # e
    BY <1>3, <1>11 DEF Owed
  <2>2. \A x \in P : Subscribed(k) /\ k.maxSeq < x =>
           /\ k.stage = "replay" => k.cursor < x
           /\ \/ ToReplay(k, x)
              \/ /\ InTurn(k.backlog, x)
                 /\ \A o \in Pump : \/ ToOffer(o, c, x) /\ (o = p => pump[p].event # x)
                                   \/ x \in Numbers(k.backlog)
    BY <1>2, <1>9, <2>1 DEF UnsentOK, Coming
  <2> QED
    BY <1>3, <1>4, <1>5, <1>9, <1>11, <2>2, OfferStep DEF ConnOK
<1>12. CASE e \in Wants[c] /\ k.stage = "live"
  <2>1. PICK q : q = Passed(k, e)
    OBVIOUS
  <2>2. conn' = [conn EXCEPT ![c] = q] /\ q.stage = "live" /\ q.backlog = <<>> /\ k.backlog = <<>>
    BY <1>5, <1>6, <1>12, <2>1, PassedFields DEF Sent, ConnOK
  <2>3. \A x : ~ToReplay(k, x) /\ ~(x \in Numbers(k.backlog))
    BY <1>12, <2>2, EmptyQueue DEF ToReplay
  <2>4. ~k.closed => SentOK(k, s, P) /\ UnsentOK(k, c, P)
    BY <1>9, <1>10, <1>12 DEF Subscribed
  <2>5. ~k.closed => \A x \in P : k.maxSeq < x => \A o \in Pump : ToOffer(o, c, x)
    BY <2>3, <2>4 DEF UnsentOK, Coming
  <2>6. ~k.closed => \A x \in P : k.maxSeq < x => e <= x
    BY <1>8, <2>5
  <2>7. QueueOK(k.queue, s, P)
    BY <1>5 DEF ConnOK
  <2>8. /\ QueueOK(q.queue, s, P)
        /\ ~q.closed => ~k.closed /\ SentOK(q, s, P)
        /\ \A x \in P : q.maxSeq < x => k.maxSeq < x /\ e < x
    <3>1. /\ QueueOK(Passed(k, e).queue, s, P)
          /\ ~Passed(k, e).closed => ~k.closed /\ SentOK(Passed(k, e), s, P)
          /\ \A x \in P : Passed(k, e).maxSeq < x => k.maxSeq < x /\ e < x
      BY <1>5, <1>6, <1>7, <2>4, <2>6, <2>7, PassedKeeps, Zenon
    <3> QED
      BY <2>1, <3>1
  <2>9. ASSUME NEW x \in P, ~q.closed, q.maxSeq < x
        PROVE  InTurn(q.backlog, x) /\ \A o \in Pump : ToOffer(o, c, x) /\ pump[p].event # x
    <3>1. ~k.closed /\ k.maxSeq < x /\ e < x
      BY <2>8, <2>9
    <3>2. InTurn(k.backlog, x) /\ \A o \in Pump : ToOffer(o, c, x)
      BY <2>3, <2>4, <2>5, <3>1 DEF UnsentOK, Coming
    <3>3. x # e
      BY <1>7, <3>1
    <3> QED
      BY <1>2, <2>2, <3>2, <3>3
  <2>10. Subscribed(q) => ~q.closed
    BY DEF Subscribed
  <2>11. \A x \in P : Subscribed(q) /\ q.maxSeq < x =>
           /\ q.stage = "replay" => q.cursor < x
           /\ \/ ToReplay(q, x)
              \/ /\ InTurn(q.backlog, x)
                 /\ \A o \in Pump : \/ ToOffer(o, c, x) /\ (o = p => pump[p].event # x)
                                   \/ x \in Numbers(q.backlog)
    BY <2>2, <2>9, <2>10
  <2> QED
    BY <1>3, <1>4, <1>5, <2>2, <2>8, <2>10, <2>11, OfferStep
<1>13. CASE e \in Wants[c] /\ k.stage \in {"replay", "stuck"}
  <2>1. PICK q : q = Held(k, e)
    OBVIOUS
  <2>2. conn' = [conn EXCEPT ![c] = q]
    BY <1>5, <1>13, <2>1 DEF Sent
  <2>3. /\ q.stage = k.stage /\ q.maxSeq = k.maxSeq /\ q.cursor = k.cursor /\ q.page = k.page
        /\ q.more = k.more /\ q.queue = k.queue
        /\ q.closed \/ (q.closed = k.closed /\ q.backlog = Append(k.backlog, e))
    BY <1>5, <2>1 DEF Held, ConnectionOf
  <2>4. ASSUME Subscribed(q), NEW x \in P, q.maxSeq < x
        PROVE  /\ q.stage = "replay" => q.cursor < x
               /\ \/ ToReplay(q, x)
                  \/ /\ InTurn(q.backlog, x)
                     /\ \A o \in Pump : \/ ToOffer(o, c, x) /\ (o = p => pump[p].event # x)
                                       \/ x \in Numbers(q.backlog)
    <3>1. Subscribed(k) /\ k.maxSeq < x /\ q.backlog = Append(k.backlog, e)
      BY <2>3, <2>4 DEF Subscribed
    <3>2. (k.stage = "replay" => k.cursor < x) /\ (ToReplay(k, x) \/ Coming(k, c, x))
      BY <1>9, <3>1 DEF UnsentOK
    <3>3. Numbers(q.backlog) = Numbers(k.backlog) \cup {e}
      BY <1>6, <1>10, <3>1, NumbersAppend
    <3>4. ASSUME Coming(k, c, x)
          PROVE  InTurn(q.backlog, x)
      <4>1. x < e => x \in Numbers(k.backlog)
        BY <1>7, <1>8, <3>4 DEF Coming
      <4> QED
        BY <1>6, <1>7, <1>10, <3>1, <3>4, <4>1, InTurnAppend DEF Coming
    <3> QED
      BY <1>2, <2>3, <3>2, <3>3, <3>4 DEF Coming, ToReplay
  <2>5. Subscribed(q) => SentOK(q, s, P)
    BY <1>9, <2>3 DEF Subscribed, SentOK
  <2>6. /\ QueueOK(q.queue, s, P) /\ q.stage \in {"replay", "stuck"}
        /\ q.stage = "replay" => q.maxSeq <= q.cursor /\ IsPage(q.page, q.cursor)
    BY <1>5, <1>13, <2>3 DEF ConnOK
  <2> QED
    BY <1>3, <1>4, <1>5, <2>2, <2>4, <2>5, <2>6, OfferStep
<1>14. CASE e \in Wants[c] /\ k.stage \in {"off", "open"}
  <2>1. Sent(k, e) = k /\ ~Subscribed(k)
    BY <1>14 DEF Sent, Subscribed
  <2> QED
    BY <1>5, <1>11, <1>14, <2>1
<1>15. CASE e \notin Wants[c]
  BY <1>5, <1>11, <1>15
<1> QED
  BY <1>5, <1>12, <1>13, <1>14, <1>15 DEF ConnectionOf

\* What commits on the single writer lies above every number a reader, a page or
\* a connection knows, so it comes after all that is on its way.
LEMMA CommitKeeps ==
  ASSUME LogInv, Types, StreamInv, Engine = "sqlite", NEW w \in Writer, Commit(w),
         UNCHANGED <<pump, conn, seen, base>>
  PROVE  StreamInv'
<1>1. log' = log \cup open[w]
  BY DEF Commit
<1>2. \A x \in open[w] : 0 < x /\ \A y \in {0} \cup ever : y < x
  <2>1. \A x \in open[w] : 0 < x
    BY DEF LogInv
  <2> QED
    BY <2>1, CommitsFollow
<1>3. ASSUME NEW page, NEW cursor \in {0} \cup ever, page \subseteq ever, IsPage(page, cursor)
      PROVE  IsPage(page, cursor)'
  BY <1>1, <1>2, <1>3 DEF IsPage
<1>4. ASSUME NEW p \in Pump
      PROVE  PumpOK(pump[p])'
  <2>1. pump[p] \in ReaderOf(ever) /\ PumpOK(pump[p])
    BY DEF Types, StreamInv
  <2>2. pump[p].cursor \in {0} \cup ever /\ pump[p].page \subseteq ever
    BY <2>1 DEF ReaderOf
  <2>3. IsPage(pump[p].page, pump[p].cursor)'
    <3>1. PICK page, cursor : page = pump[p].page /\ cursor = pump[p].cursor
      OBVIOUS
    <3>2. IsPage(page, cursor)'
      BY <1>3, <2>1, <2>2, <3>1 DEF PumpOK
    <3> QED
      BY <3>1, <3>2
  <2> QED
    BY <2>1, <2>3 DEF PumpOK
<1>5. ASSUME NEW c \in Conn
      PROVE  ConnOK(conn[c], c, seen[c], Owed(c))'
  <2>1. PICK r : r = conn[c]
    OBVIOUS
  <2>2. PICK s : s = seen[c]
    OBVIOUS
  <2>3. PICK P, Q : P = Owed(c) /\ Q = Owed(c)'
    OBVIOUS
  <2>4. \A x \in Q : x \in P \/ x \in open[w]
    BY <1>1, <2>3 DEF Owed
  <2>5. r \in ConnectionOf(ever) /\ ConnOK(r, c, s, P) /\ s \in {0} \cup ever
    BY <2>1, <2>2, <2>3 DEF Types, StreamInv
  <2>6. /\ r.maxSeq \in {0} \cup ever /\ r.cursor \in {0} \cup ever /\ r.page \subseteq ever
        /\ Numbers(r.queue) \subseteq ever /\ \A i \in 1..Len(r.backlog) : r.backlog[i] \in ever
    BY <2>5, ElementOfSeq DEF ConnectionOf, Numbers
  <2>7. \A x \in open[w] : \A y \in {0} \cup ever : y < x /\ ~(x < y) /\ ~(x <= y)
    <3> SUFFICES ASSUME NEW x \in open[w], NEW y \in {0} \cup ever
                 PROVE  y < x /\ ~(x < y) /\ ~(x <= y)
      OBVIOUS
    <3>1. x \in Int /\ y \in Int
      BY Committed DEF LogInv
    <3> QED
      BY <1>2, <3>1
  <2>8. QueueOK(r.queue, s, Q)
    BY <2>4, <2>5, <2>6, <2>7 DEF ConnOK, QueueOK
  <2>9. Subscribed(r) => SentOK(r, s, Q)
    BY <2>4, <2>5, <2>6, <2>7 DEF ConnOK, SentOK
  <2>10. ASSUME NEW x \in open[w]
         PROVE  Coming(r, c, x)
    <3>1. InTurn(r.backlog, x)
      BY <2>6, <2>7 DEF InTurn
    <3>2. \A p \in Pump : pump[p].cursor \in {0} \cup ever
      BY DEF Types, ReaderOf
    <3> QED
      BY <1>2, <3>1, <3>2 DEF Coming, ToOffer
  <2>11. Subscribed(r) => UnsentOK(r, c, Q)
    BY <2>4, <2>5, <2>6, <2>7, <2>10 DEF ConnOK, UnsentOK
  <2>12. UnsentOK(r, c, Q) => UnsentOK(r, c, Q)'
    BY DEF UnsentOK, Coming, ToOffer, ToReplay
  <2>13. IsPage(r.page, r.cursor) => IsPage(r.page, r.cursor)'
    BY <1>3, <2>6
  <2>14. ConnOK(r, c, s, Q)'
    BY <2>5, <2>8, <2>9, <2>11, <2>12, <2>13 DEF ConnOK
  <2> QED
    BY <2>1, <2>2, <2>3, <2>14
<1> QED
  BY <1>4, <1>5 DEF StreamInv

\* The log stays as it is, or shrinks.
LEMMA PruneKeeps ==
  ASSUME StreamInv, log' \subseteq log, UNCHANGED <<pump, conn, seen, base>>
  PROVE  StreamInv'
<1>1. ASSUME NEW p \in Pump
      PROVE  PumpOK(pump[p])'
  BY PumpsUndisturbed DEF StreamInv
<1>2. ASSUME NEW c \in Conn
      PROVE  ConnOK(conn[c], c, seen[c], Owed(c))'
  <2>1. \A p \in Pump, x \in Owed(c) : ToOffer(p, c, x) => ToOffer(p, c, x)'
    BY DEF ToOffer
  <2> QED
    BY <2>1, Undisturbed DEF StreamInv
<1> QED
  BY <1>1, <1>2 DEF StreamInv

LEMMA StepStream ==
  ASSUME Engine = "sqlite", LogInv, Types, LogIsTail, StreamInv, [Next]_vars
  PROVE  StreamInv'
<1>1. CASE UNCHANGED vars
  BY <1>1, PruneKeeps DEF vars, logVars
<1>2. CASE LogStep
  <2>1. UNCHANGED <<pump, conn, seen, base>>
    BY <1>2 DEF LogStep, StreamUnchanged
  <2>2. (\E w \in Writer : Commit(w)) \/ log' \subseteq log
    BY <1>2 DEF LogStep, LogNext, AppendEvent, AppendElsewhere, Rollback, Prune
  <2> QED
    BY <2>1, <2>2, CommitKeeps, PruneKeeps
<1>3. ASSUME NEW c \in Conn, ClientNext(c) \/ StreamNext(c)
      PROVE  StreamInv'
  BY <1>3, RegisterKeeps, UnregisterKeeps, SubscribeKeeps, ReplayReadKeeps, StageKeeps,
     ReplaySendKeeps, FlushKeeps, DeliverKeeps DEF ClientNext, StreamNext
<1>4. ASSUME NEW p \in Pump, PumpNext(p)
      PROVE  StreamInv'
  BY <1>4, ReaderKeeps, RouteKeeps DEF PumpNext
<1> QED
  BY <1>1, <1>2, <1>3, <1>4, CrashKeeps DEF Next

-----------------------------------------------------------------------------
(* The stream implements the feed: a commit publishes, the pruner forgets, *)
(* a client without a cursor joins, a refused one starts again, and a      *)
(* delivery hands over the next event.  All else is hidden from the feed.  *)

LEMMA FeedBegins == Init => Feed!Init
<1> SUFFICES ASSUME Init
             PROVE  Feed!Init
  OBVIOUS
<1>1. ever \subseteq Event /\ seen \in [Conn -> {0} \cup ever]
  BY InitLog, InitTypes, Committed DEF Types
<1>2. log = ever /\ got = [c \in Conn |-> {}]
      /\ base = [c \in Conn |-> IF seen[c] = 0 THEN MaxSeq ELSE seen[c]]
  BY DEF Init, LogInit
<1> QED
  BY <1>1, <1>2 DEF Feed!Init, Event, Feed!Event

LEMMA FeedMoves ==
  ASSUME Engine = "sqlite", LogInv, Types, LogIsTail, StreamInv, [Next]_vars
  PROVE  [Feed!Next]_(Feed!vars)
<1>1. CASE UNCHANGED <<log, ever, seen, got, base>>
  BY <1>1 DEF Feed!vars
<1>2. ASSUME NEW w \in Writer, Commit(w), UNCHANGED <<seen, got, base>>
      PROVE  Feed!Next
  <2>1. open[w] \in SUBSET (1..MaxSeq)
    BY MaxSeqAssumption DEF LogInv, Types
  <2>2. Feed!Publish(open[w])
    BY <1>2, CommitsFollow DEF Commit, Feed!Publish
  <2> QED
    BY <2>1, <2>2 DEF Feed!Next
<1>3. ASSUME Prune(Latest), UNCHANGED <<seen, got, base>>
      PROVE  Feed!Next
  <2>1. PICK last \in log : Feed!Forget(last)
    BY <1>3 DEF Prune, Feed!Forget
  <2>2. last \in 1..MaxSeq
    BY Committed DEF Event
  <2> QED
    BY <2>1, <2>2 DEF Feed!Next
<1>4. CASE LogStep
  <2>1. UNCHANGED <<seen, got, base>>
    BY <1>4 DEF LogStep, StreamUnchanged
  <2>2. (\E w \in Writer : Commit(w)) \/ Prune(Latest) \/ UNCHANGED <<log, ever>>
    BY <1>4 DEF LogStep, LogNext, AppendEvent, AppendElsewhere, Rollback
  <2> QED
    BY <1>1, <1>2, <1>3, <2>1, <2>2
<1>5. ASSUME NEW c \in Conn, SubscribeLive(c)
      PROVE  Feed!Next
  <2>1. /\ UNCHANGED <<log, ever, seen>> /\ seen[c] = 0
        /\ got' = [got EXCEPT ![c] = {}] /\ base' = [base EXCEPT ![c] = Latest]
    BY <1>5 DEF SubscribeLive, logVars
  <2>2. seen' = [seen EXCEPT ![c] = 0]
    BY <2>1 DEF Types
  <2>3. Latest \in {0} \cup ever /\ \A x \in log : x <= Latest
    BY LatestIs, Committed
  <2>4. Feed!Join(c)
    BY <2>1, <2>2, <2>3 DEF Feed!Join
  <2> QED
    BY <2>4 DEF Feed!Next
<1>6. ASSUME NEW c \in Conn, Refuse(c)
      PROVE  Feed!Next
  <2>1. Feed!Refuse(c)
    BY <1>6 DEF Refuse, logVars, Feed!Refuse
  <2> QED
    BY <2>1 DEF Feed!Next
<1>7. ASSUME NEW c \in Conn, Deliver(c)
      PROVE  Feed!Next
  <2>1. PICK e : e = Head(conn[c].queue)
    OBVIOUS
  <2>2. e \in ever /\ e > seen[c] /\ \A x \in Owed(c) : seen[c] < x => e <= x
    BY <1>7, <2>1, DeliverKeeps
  <2>3. \A x \in log \cap Wants[c] : base[c] < x /\ seen[c] < x => e <= x
    BY <2>2 DEF Owed
  <2>4. /\ seen' = [seen EXCEPT ![c] = e] /\ got' = [got EXCEPT ![c] = @ \cup {e}]
        /\ UNCHANGED <<log, ever, base>>
    BY <1>7, <2>1 DEF Deliver, logVars
  <2>5. Feed!Receive(c, e)
    BY <2>2, <2>3, <2>4 DEF Feed!Receive
  <2> QED
    BY <2>2, <2>5 DEF Feed!Next
<1>8. ASSUME NEW c \in Conn, ClientNext(c) \/ StreamNext(c)
      PROVE  Feed!Next \/ UNCHANGED <<log, ever, seen, got, base>>
  <2>1. \/ SubscribeLive(c) \/ Refuse(c) \/ Deliver(c)
        \/ UNCHANGED <<log, ever, seen, got, base>>
    BY <1>8 DEF ClientNext, StreamNext, Register, Unregister, Resume, ReplayRead, ReplaySend,
       ReplayFail, Activate, Flush, GoLive, logVars, clientVars
  <2> QED
    BY <1>5, <1>6, <1>7, <2>1
<1>9. ASSUME NEW p \in Pump, PumpNext(p)
      PROVE  UNCHANGED <<log, ever, seen, got, base>>
  BY <1>9 DEF PumpNext, PumpOpen, PumpRead, PumpFail, PumpTake, PumpRoute, PumpEnd,
     logVars, clientVars
<1>10. Crash \/ UNCHANGED vars => UNCHANGED <<log, ever, seen, got, base>>
  BY DEF Crash, vars, logVars, clientVars
<1> QED
  BY <1>1, <1>4, <1>8, <1>9, <1>10 DEF Next

\* On the single writer, with a log that retention never empties, clients are
\* handed the log in order and without a gap: through commits, pruning, pages
\* of replay and of live events, overlapping readers, slow connections, lost
\* queues and crashes, for any number of clients and readers and any limits
\* (outbox.Tailer, subscription.send, activate, replay, hub.register).
THEOREM StreamImplementsFeed ==
  ASSUME Engine = "sqlite", ~Quiet
  PROVE  Spec => ImplementsFeed
<1>1. Init => LogIsTail
  BY DEF Init, LogInit, LogIsTail
<1>2. LogInv /\ Types /\ LogIsTail /\ [Next]_vars => LogIsTail'
  BY StepTail
<1>3. LogInv /\ Types /\ LogIsTail /\ StreamInv /\ [Next]_vars => StreamInv'
  BY StepStream
<1>4. LogInv /\ Types /\ LogIsTail /\ StreamInv /\ [Next]_vars => [Feed!Next]_(Feed!vars)
  BY FeedMoves
<1> QED
  BY SpecTypes, InitStream, FeedBegins, <1>1, <1>2, <1>3, <1>4, PTL DEF Spec, ImplementsFeed, Feed!Spec

\* So a client that resumes from its cursor loses nothing that is retained.
THEOREM StreamSkipsNothing ==
  ASSUME Engine = "sqlite", ~Quiet
  PROVE  Spec => []NothingSkipped
<1>1. Spec => Feed!Spec
  BY StreamImplementsFeed DEF ImplementsFeed
<1>2. Feed!Spec => []Feed!NothingSkipped
  BY FeedLosesNothing, MaxSeqAssumption
<1>3. Feed!NothingSkipped => NothingSkipped
  BY DEF Feed!NothingSkipped, NothingSkipped
<1> QED
  BY <1>1, <1>2, <1>3, PTL

===============================================================================
