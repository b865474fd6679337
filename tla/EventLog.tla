------------------------------- MODULE EventLog -------------------------------
(***************************************************************************)
(* The durable outbox of one tenant, as its readers see it.  A write draws *)
(* the sequence numbers of its events while it runs and shows them when it *)
(* commits; the retention pruner removes old events from the front.  The   *)
(* numbers come from one counter of the whole database, so those drawn by  *)
(* other tenants are holes here.                                           *)
(*                                                                         *)
(* On SQLite one write runs at a time and a rolled-back one gives its      *)
(* numbers back.  On PostgreSQL writes overlap and a number once drawn is  *)
(* never drawn again.                                                      *)
(***************************************************************************)
EXTENDS Integers, FiniteSets, FiniteSetsExt

CONSTANTS
  Engine,   \* "sqlite" or "postgres"
  Writer,   \* the writing transactions that may overlap
  MaxSeq,   \* bound on the sequence numbers drawn
  Quiet     \* the tenant may write nothing for longer than the retention window

ASSUME EngineAssumption == Engine \in {"sqlite", "postgres"}
ASSUME MaxSeqAssumption == MaxSeq \in Nat \ {0}
ASSUME QuietAssumption  == Quiet \in BOOLEAN

VARIABLES
  drawn,  \* the highest number drawn from the counter
  open,   \* per writer, the numbers of the events it has yet to commit
  log,    \* the events committed and retained
  ever    \* the events ever committed, a history

logVars == <<drawn, open, log, ever>>

Event == 1..MaxSeq

LogTypeOK ==
  /\ drawn \in 0..MaxSeq
  /\ open \in [Writer -> SUBSET Event]
  /\ log \subseteq ever
  /\ ever \subseteq Event

\* A tenant that is never quiet has written before: its log is not empty.
LogInit ==
  /\ open = [w \in Writer |-> {}]
  /\ log = IF Quiet THEN {} ELSE {1}
  /\ ever = log
  /\ drawn = Cardinality(log)

(* What a read returns.                                                    *)

\* Mutant of Since: the bound of the read is one too high.
SinceNext(seq) == {e \in log : e > seq + 1}

\* ReadEvents: the committed events above a number.
Since(seq) == {e \in log : e > seq}

\* ReadEvents with its limit: the lowest n of them.
Page(seq, n) == {e \in Since(seq) : Cardinality({x \in Since(seq) : x < e}) < n}

\* LatestEventSeq: COALESCE(MAX(seq), 0).
Latest == Max(log \cup {0})

\* OldestSeq: the first event of a page of one; 0 on an empty log.
Oldest == IF log = {} THEN 0 ELSE Min(log)

(* The writers.                                                            *)

\* BEGIN IMMEDIATE holds the one writer of SQLite from before the first insert
\* to the commit.
MayDraw(w) == Engine = "sqlite" => \A v \in Writer \ {w} : open[v] = {}

\* AppendEvent: the insert draws the next number.
AppendEvent(w) ==
  /\ MayDraw(w)
  /\ drawn < MaxSeq
  /\ drawn' = drawn + 1
  /\ open' = [open EXCEPT ![w] = @ \cup {drawn'}]
  /\ UNCHANGED <<log, ever>>

\* Another tenant draws a number.
AppendElsewhere ==
  /\ Engine = "sqlite" => \A w \in Writer : open[w] = {}
  /\ drawn < MaxSeq
  /\ drawn' = drawn + 1
  /\ UNCHANGED <<open, log, ever>>

Commit(w) ==
  /\ open[w] # {}
  /\ log' = log \cup open[w]
  /\ ever' = ever \cup open[w]
  /\ open' = [open EXCEPT ![w] = {}]
  /\ UNCHANGED drawn

\* A rollback, or a crash of the process before the commit.
Rollback(w) ==
  /\ open[w] # {}
  /\ drawn' = IF Engine = "sqlite" THEN drawn - Cardinality(open[w]) ELSE drawn
  /\ open' = [open EXCEPT ![w] = {}]
  /\ UNCHANGED <<log, ever>>

\* Prune, PruneEvents: everything up to some event has outlived the retention
\* window and is no higher than the floor, in batches of any size.
Prune(floor) ==
  \E last \in log :
    /\ last <= floor
    /\ log' = {e \in log : e > last}
    /\ ~Quiet => log' # {}
    /\ UNCHANGED <<drawn, open, ever>>

LogNext ==
  \/ \E w \in Writer : AppendEvent(w) \/ Commit(w) \/ Rollback(w)
  \/ AppendElsewhere

(* Properties.                                                             *)

\* On the single writer, an event that is still to commit has a higher number
\* than every committed one, so a cursor on the last committed number is never
\* overtaken from below (AppendEvent inside BEGIN IMMEDIATE).
CommitsInOrder ==
  Engine = "sqlite" => \A w \in Writer : \A e \in open[w], x \in ever : x < e
=============================================================================
