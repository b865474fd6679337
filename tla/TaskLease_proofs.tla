--------------------------- MODULE TaskLease_proofs ---------------------------
(* What TaskLease guarantees for any set of tasks, clients and workflow      *)
(* states, and any bounds.                                                   *)
EXTENDS TaskLease, LeasePolicy, TLAPS

USE DEF Proc, Token

\* What the service validates before it opens a transaction: a renewal and a
\* release carry a token, a lease length is one that may be granted, a
\* transition has a target.
WellFormedCall(in) ==
  /\ in.op \in {"claim", "claimNext", "renew"} => in.ttl \in TTL
  /\ in.op \in {"renew", "release"} => in.token # 0
  /\ in.op = "transition" => in.to # NoStatus

WellFormed == \A p \in Proc : req[p].pc # "idle" => WellFormedCall(req[p].in)

\* The length a queue claim is granted first is the one it keeps, where no level
\* names a length of its own.
OneLengthIsGranted ==
  \A p \in Proc :
    req[p].pc # "idle" /\ req[p].in.op = "claimNext" /\ ~OwnLease =>
      req[p].in.ttl = req[p].in.queueTTL

\* A transaction began, and read, no later than now.
Clocks ==
  \A p \in Proc :
    /\ req[p].pc # "idle" => req[p].mnow <= now
    /\ req[p].pc = "read" => req[p].at <= now

-----------------------------------------------------------------------------
(* The operators that write a row return a row *)

\* A row whose lease columns were cleared is a row (ReleaseLease, ForceReclaim).
LEMMA UnclaimType == \A r \in Row : Unclaim(r) \in Row
PROOF
  <1> SUFFICES ASSUME NEW r \in Row PROVE Unclaim(r) \in Row
    OBVIOUS
  <1>1. 0 \in 0..MaxTokens /\ 0 \in Nat
    BY BoundAssumption
  <1> QED BY <1>1 DEF Unclaim, Row

\* A claimed row is a row (store.ClaimTask).
LEMMA LeasedType ==
  \A r \in Row, p \in Client, k \in 0..MaxTokens, until \in Nat : Leased(r, p, k, until) \in Row
PROOF
  <1> SUFFICES ASSUME NEW r \in Row, NEW p \in Client, NEW k \in 0..MaxTokens, NEW until \in Nat
               PROVE  Leased(r, p, k, until) \in Row
    OBVIOUS
  <1>1. p \in Client \cup {Nobody} /\ Nobody \in Client \cup {Nobody}
    OBVIOUS
  <1> QED BY <1>1 DEF Leased, Row

\* A row whose wake time or deletion mark alone was written.
LEMMA ColumnWritten ==
  ASSUME NEW r \in Row
  PROVE  /\ \A w \in Nat : /\ [r EXCEPT !.wake = w] \in Row
                          /\ [r EXCEPT !.wake = w].token = r.token
                          /\ [r EXCEPT !.wake = w].until = r.until
         /\ \A d \in BOOLEAN : /\ [r EXCEPT !.deleted = d] \in Row
                              /\ [r EXCEPT !.deleted = d].token = r.token
                              /\ [r EXCEPT !.deleted = d].until = r.until
BY DEF Row

\* A row whose fields were written from another is a row (store.UpdateTask).
LEMMA WriteFieldsType == \A r, task \in Row : WriteFields(r, task) \in Row
PROOF
  <1> SUFFICES ASSUME NEW r \in Row, NEW task \in Row PROVE WriteFields(r, task) \in Row
    OBVIOUS
  <1>1. r.version + 1 \in Nat
    BY DEF Row
  <1>2. task.status \in Status /\ task.completed \in BOOLEAN /\ task.successor \in BOOLEAN
    BY DEF Row
  <1>3. WriteFields(r, task) =
          [r EXCEPT !.status = task.status, !.completed = task.completed,
                    !.successor = task.successor, !.version = r.version + 1]
    BY DEF WriteFields
  <1> HIDE DEF WriteFields
  <1> QED BY <1>1, <1>2, <1>3 DEF Row

\* A swept row is a row, whatever the listing said of it (sweepOne).
LEMMA RevertedType == \A r, listed \in Row : Reverted(Expired(r, listed)) \in Row
PROOF
  <1> SUFFICES ASSUME NEW r \in Row, NEW listed \in Row
               PROVE  Reverted(Expired(r, listed)) \in Row
    OBVIOUS
  <1> DEFINE e == Expired(r, listed)
  <1>1. e \in Row
    BY UnclaimType DEF Expired, Row
  <1>2. e.status \in Status /\ RevertTo[e.status] \in Status
    BY <1>1, WorkflowAssumption DEF Row
  <1>3. [e EXCEPT !.status = RevertTo[e.status]] \in Row
    BY <1>1, <1>2 DEF Row
  <1>4. WriteFields(e, [e EXCEPT !.status = RevertTo[e.status]]) \in Row
    BY <1>1, <1>3, WriteFieldsType
  <1>5. Reverted(e) \in {e, WriteFields(e, [e EXCEPT !.status = RevertTo[e.status]])}
    BY DEF Reverted
  <1> QED BY <1>1, <1>4, <1>5

\* The row of a new task is a row.
LEMMA NewRowType == NewRow \in Row
BY WorkflowAssumption, BoundAssumption DEF NewRow, Row, Nobody

\* The calls a client can make are well-formed inputs.
LEMMA CallsType ==
  ASSUME TypeOK, NEW t \in Task, NEW call \in Calls(t)
  PROVE  call \in Input /\ WellFormedCall(call)
PROOF
  <1>1. /\ 0 \in 0..MaxTokens /\ 1..minted \subseteq 0..MaxTokens
        /\ 0..row[t].version \subseteq Nat /\ \A d \in TTL \cup {0} : d \in Nat
        /\ \A k \in 1..minted : k # 0
    BY BoundAssumption, TTLAssumption DEF TypeOK, Row
  <1>2. call \in Input
    <2>1. call.op \in AllOps
      BY DEF Calls, CallsOf, AllOps
    <2>2. call.task \in Task
      BY DEF Calls, CallsOf
    <2>3. call.token \in 0..MaxTokens
      BY <1>1 DEF Calls, CallsOf
    <2>4. call.to \in Status \cup {NoStatus}
      BY DEF Calls, CallsOf
    <2>5. call.version \in Nat
      BY <1>1 DEF Calls, CallsOf
    <2>6. call.ttl \in TTL \cup {0} /\ call.queueTTL \in TTL \cup {0}
      BY DEF Calls, CallsOf
    <2>7. call.ttl \in Nat /\ call.queueTTL \in Nat
      BY <2>6, <1>1
    <2>8. call = [op |-> call.op, task |-> call.task, token |-> call.token, to |-> call.to,
                  version |-> call.version, ttl |-> call.ttl, queueTTL |-> call.queueTTL]
      BY DEF Calls, CallsOf
    <2> QED BY <2>1, <2>2, <2>3, <2>4, <2>5, <2>7, <2>8 DEF Input
  <1>3. WellFormedCall(call)
    BY <1>1, WorkflowAssumption DEF Calls, CallsOf, WellFormedCall
  <1> QED BY <1>2, <1>3

-----------------------------------------------------------------------------
(* Which transaction is which *)

\* A transaction that has begun carries its input and the time it began.
LEMMA OpenKind ==
  ASSUME TypeOK, NEW p \in Proc, req[p].pc = "open"
  PROVE  req[p] \in Opened
BY DEF TypeOK, Idle, Loaded, Listed

\* One that has read carries what it loaded, if it is a client's call...
LEMMA LoadedKind ==
  ASSUME TypeOK, NEW p \in Proc, req[p].pc = "read", req[p].in.op \in AllOps
  PROVE  req[p] \in Loaded
BY DEF TypeOK, Idle, Opened, Listed, SweepCall, AllOps, SweepOps

\* ...and the rows it listed, if it is a sweep.
LEMMA ListedKind ==
  ASSUME TypeOK, NEW p \in Proc, req[p].pc = "read", req[p].in.op \in SweepOps
  PROVE  req[p] \in Listed
PROOF
  <1>1. req[p] \in {Idle} \cup Opened \cup Loaded \cup Listed
    BY DEF TypeOK
  <1>2. req[p] # Idle /\ req[p] \notin Opened
    BY DEF Idle, Opened
  <1>3. req[p] \notin Loaded
    BY DEF Loaded, Input, AllOps, SweepOps
  <1> QED BY <1>1, <1>2, <1>3

\* A transaction that has begun knows when...
LEMMA MnowType ==
  ASSUME TypeOK, NEW p \in Proc, req[p].pc # "idle"
  PROVE  req[p].mnow \in Nat
PROOF
  <1>1. req[p] \in Opened \cup Loaded \cup Listed
    BY DEF TypeOK, Idle
  <1> QED BY <1>1 DEF Opened, Loaded, Listed

\* ...and one that has read knows when it did.
LEMMA AtType ==
  ASSUME TypeOK, NEW p \in Proc, req[p].pc = "read"
  PROVE  req[p].at \in Nat
PROOF
  <1>1. req[p] \in Loaded \cup Listed
    BY DEF TypeOK, Idle, Opened
  <1> QED BY <1>1 DEF Loaded, Listed

\* A call in progress names a task, and what it loaded is a row.
LEMMA ReadyType ==
  ASSUME TypeOK, NEW p \in Proc, NEW op \in AllOps, Ready(p, op)
  PROVE  /\ req[p] \in Loaded
         /\ req[p].in \in Input /\ req[p].in.op = op
         /\ req[p].in.task \in Task
         /\ req[p].in.to \in Status \cup {NoStatus}
         /\ req[p].in.token \in 0..MaxTokens
         /\ req[p].in.ttl \in Nat /\ req[p].in.version \in Nat
         /\ req[p].task \in Row
         /\ req[p].mnow \in Nat /\ req[p].at \in Nat
         /\ row[req[p].in.task] \in Row
PROOF
  <1>1. req[p] \in Loaded
    BY LoadedKind DEF Ready
  <1> QED BY <1>1 DEF Loaded, Input, Ready, TypeOK

\* Committing leaves the process idle and the requests typed.
LEMMA CommitType ==
  ASSUME TypeOK, NEW p \in Proc, Commit(p)
  PROVE  req' \in [Proc -> {Idle} \cup Opened \cup Loaded \cup Listed]
BY DEF TypeOK, Commit

-----------------------------------------------------------------------------
(* Type correctness *)

\* Opening a transaction keeps the types.
LEMMA OpenType ==
  ASSUME TypeOK, NEW p \in Proc, NEW call \in Input \cup SweepCall, Open(p, call)
  PROVE  TypeOK'
PROOF
  <1>1. [pc |-> "open", in |-> call, mnow |-> now] \in Opened
    BY BoundAssumption DEF Opened, TypeOK
  <1> QED BY <1>1 DEF Open, TypeOK

\* Reading keeps the types: what is loaded is a committed row.
LEMMA ReadType ==
  ASSUME TypeOK, NEW p \in Proc, Read(p)
  PROVE  TypeOK'
PROOF
  <1> DEFINE r == req[p]
             kept == IF r.in.op \in Blind THEN NewRow ELSE row[r.in.task]
             new == [pc |-> "read", in |-> r.in, mnow |-> r.mnow, at |-> now, task |-> kept]
  <1>1. r \in Opened
    BY OpenKind DEF Read
  <1>2. r.in \in Input
    BY <1>1 DEF Read, Opened, SweepCall, AllOps, SweepOps
  <1>3. kept \in Row
    BY <1>2, NewRowType DEF TypeOK, Input
  <1>4. new \in Loaded
    BY <1>1, <1>2, <1>3, BoundAssumption DEF Loaded, Opened, TypeOK
  <1>5. req' = [req EXCEPT ![p] = new] /\ UNCHANGED <<now, row, minted, told, spawned>>
    BY DEF Read
  <1> HIDE DEF new
  <1> QED BY <1>4, <1>5 DEF TypeOK

\* Listing keeps the types.
LEMMA ListType ==
  ASSUME TypeOK, NEW op \in SweepOps, List(op)
  PROVE  TypeOK'
PROOF
  <1> DEFINE r == req[Sweeper]
             new(S) == [pc |-> "read", in |-> r.in, mnow |-> r.mnow, at |-> now, due |-> S,
                        tasks |-> [t \in Task |-> IF t \in S THEN row[t] ELSE NewRow]]
  <1>1. r \in Opened /\ r.in \in SweepCall
    BY OpenKind DEF List, Opened, Input, SweepCall, AllOps, SweepOps
  <1>2. PICK S \in SUBSET Due(op, r.mnow) : req' = [req EXCEPT ![Sweeper] = new(S)]
    BY DEF List
  <1>3. S \in SUBSET Task
    BY <1>2 DEF Due
  <1>4. [t \in Task |-> IF t \in S THEN row[t] ELSE NewRow] \in [Task -> Row]
    BY NewRowType DEF TypeOK
  <1>5. new(S) \in Listed
    BY <1>1, <1>3, <1>4, BoundAssumption DEF Listed, Opened, TypeOK
  <1> HIDE DEF new
  <1> QED BY <1>2, <1>5 DEF List, TypeOK

\* A lease taken keeps the types.
LEMMA ClaimType ==
  ASSUME TypeOK, NEW p \in Client, Claim(p) \/ ClaimNext(p)
  PROVE  TypeOK'
PROOF
  <1> USE BoundAssumption
  <1>1. ASSUME NEW t \in Task, NEW until \in Nat, NEW given \in Nat,
               minted < MaxTokens, Commit(p), UNCHANGED <<now, spawned>>,
               row' = [row EXCEPT ![t] = Leased(@, p, minted + 1, until)],
               minted' = minted + 1, told' = [told EXCEPT ![minted + 1] = given]
        PROVE  TypeOK'
    <2>1. Leased(row[t], p, minted + 1, until) \in Row
      BY <1>1, LeasedType DEF TypeOK
    <2>2. row' \in [Task -> Row]
      BY <1>1, <2>1 DEF TypeOK
    <2>3. minted' \in 0..MaxTokens /\ told' \in [1..MaxTokens -> Nat]
      BY <1>1 DEF TypeOK
    <2> QED BY <1>1, <2>2, <2>3, CommitType DEF TypeOK
  <1>2. CASE Claim(p)
    <2>1. req[p].in.task \in Task /\ req[p].mnow + req[p].in.ttl \in Nat
      BY <1>2, ReadyType DEF Claim, AllOps
    <2> QED BY <1>1, <1>2, <2>1 DEF Claim
  <1>3. CASE ClaimNext(p)
    <2> DEFINE first == req[p].mnow + req[p].in.queueTTL
               revised == req[p].mnow + req[p].in.ttl
    <2>1. req[p].in.task \in Task /\ first \in Nat /\ revised \in Nat
      BY <1>3, OpenKind DEF ClaimNext, Opened, Input, SweepCall, SweepOps
    <2>2. PICK s \in req[p].mnow .. now :
            row' = [row EXCEPT ![req[p].in.task] =
                     Leased(@, p, minted + 1, IF first > s THEN revised ELSE first)]
      BY <1>3 DEF ClaimNext
    <2>3. (IF first > s THEN revised ELSE first) \in Nat
      BY <2>1
    <2> QED BY <1>1, <1>3, <2>1, <2>2, <2>3 DEF ClaimNext
  <1> QED BY <1>2, <1>3

\* A call that rewrites one row with a row, and touches told at most at the
\* token it ends or extends, keeps the types.
LEMMA FinishType ==
  ASSUME TypeOK, NEW p \in Proc, Commit(p), NEW t \in Task, NEW r \in Row,
         row' = [row EXCEPT ![t] = r], UNCHANGED <<now, minted>>,
         told' \in [Token -> Nat], spawned' \in [Task -> Nat]
  PROVE  TypeOK'
BY CommitType DEF TypeOK

\* So does one that writes nothing but the row.
LEMMA RowOnlyType ==
  ASSUME TypeOK, NEW p \in Proc, Commit(p), NEW t \in Task, NEW r \in Row,
         row' = [row EXCEPT ![t] = r], UNCHANGED <<now, minted, told, spawned>>
  PROVE  TypeOK'
PROOF
  <1>1. told' \in [Token -> Nat] /\ spawned' \in [Task -> Nat]
    BY DEF TypeOK
  <1> QED BY <1>1, FinishType

\* What the calls that change the row alone have in common.
LEMMA RowOnlyCall ==
  ASSUME TypeOK, NEW p \in Client,
         Artifact(p) \/ Edit(p) \/ Delete(p) \/ Restore(p) \/ Snooze(p) \/ Unsnooze(p)
  PROVE  /\ Commit(p) /\ UNCHANGED <<now, minted, told, spawned>>
         /\ req[p].pc # "idle"
         /\ req[p].in.task \in Task /\ row[req[p].in.task] \in Row
         /\ req[p].mnow + req[p].in.ttl \in Nat
PROOF
  <1>1. Commit(p) /\ UNCHANGED <<now, minted, told, spawned>>
    BY Zenon DEF Artifact, Edit, Delete, Restore, Snooze, Unsnooze
  <1>2. PICK op \in AllOps : Ready(p, op)
    BY DEF Artifact, Edit, Delete, Restore, Snooze, Unsnooze, AllOps
  <1>3. /\ req[p].in.task \in Task /\ row[req[p].in.task] \in Row
        /\ req[p].mnow \in Nat /\ req[p].in.ttl \in Nat
    BY <1>2, ReadyType
  <1> QED BY <1>1, <1>2, <1>3 DEF Ready

\* A deletion and a restoration write one column of the row...
LEMMA DeletedRow ==
  ASSUME NEW p \in Client, Delete(p) \/ Restore(p)
  PROVE  LET t == req[p].in.task IN
         \E d \in BOOLEAN : row' = [row EXCEPT ![t] = [row[t] EXCEPT !.deleted = d]]
PROOF
  <1>1. CASE Delete(p)  BY <1>1 DEF Delete
  <1>2. CASE Restore(p)  BY <1>2 DEF Restore
  <1> QED BY <1>1, <1>2

\* ...and so does whatever sets a wake time.
LEMMA SnoozedRow ==
  ASSUME TypeOK, NEW p \in Client, Snooze(p) \/ Unsnooze(p)
  PROVE  LET t == req[p].in.task IN
         \E w \in Nat : row' = [row EXCEPT ![t] = [row[t] EXCEPT !.wake = w]]
PROOF
  <1> DEFINE t == req[p].in.task
             until == req[p].mnow + req[p].in.ttl
  <1>1. until \in Nat
    BY RowOnlyCall
  <1>2. CASE Snooze(p)
    <2>1. row' = [row EXCEPT ![t] = [row[t] EXCEPT !.wake = until]]
      BY <1>2, Zenon DEF Snooze
    <2> HIDE DEF until
    <2> QED BY <1>1, <2>1
  <1>3. CASE Unsnooze(p)
    <2>1. row' = [row EXCEPT ![t] = [row[t] EXCEPT !.wake = 0]]
      BY <1>3, Zenon DEF Unsnooze
    <2> QED BY <2>1
  <1> QED BY <1>2, <1>3

\* A renewal writes the expiry of the row.
LEMMA RenewedRow ==
  ASSUME TypeOK, NEW p \in Client, Renew(p)
  PROVE  LET t == req[p].in.task IN
         /\ t \in Task /\ row[t] \in Row
         /\ \E w \in Nat : row' = [row EXCEPT ![t] = [row[t] EXCEPT !.until = w]]
PROOF
  <1> DEFINE t == req[p].in.task
             until == req[p].mnow + req[p].in.ttl
  <1>1. t \in Task /\ row[t] \in Row /\ until \in Nat
    BY ReadyType DEF Renew, AllOps
  <1>2. row' = [row EXCEPT ![t] = [row[t] EXCEPT !.until = until]]
    BY Zenon DEF Renew
  <1> HIDE DEF until
  <1> QED BY <1>1, <1>2

\* A renewal keeps the types.
LEMMA RenewType ==
  ASSUME TypeOK, NEW p \in Client, Renew(p)
  PROVE  TypeOK'
PROOF
  <1> DEFINE t == req[p].in.task
             until == req[p].mnow + req[p].in.ttl
  <1>1. t \in Task /\ until \in Nat /\ row[t] \in Row
    BY ReadyType DEF Renew, AllOps
  <1>2. [row[t] EXCEPT !.until = until] \in Row
    BY <1>1 DEF Row
  <1>3. row' = [row EXCEPT ![t] = [row[t] EXCEPT !.until = until]]
    BY DEF Renew
  <1>4. told' \in [Token -> Nat] /\ spawned' \in [Task -> Nat]
    BY <1>1 DEF Renew, TypeOK
  <1> HIDE DEF until
  <1> QED BY <1>1, <1>2, <1>3, <1>4, FinishType DEF Renew

\* What a release or a transition writes is a row.
LEMMA MovedType ==
  ASSUME TypeOK, NEW p \in Client, Ready(p, "release") \/ Ready(p, "transition"),
         req[p].in.to # NoStatus
  PROVE  Released(p) \in Row /\ Moved(p) \in Row
PROOF
  <1>1. req[p].task \in Row /\ req[p].in.to \in Status
    BY ReadyType DEF AllOps
  <1> DEFINE task == req[p].task
             to == req[p].in.to
             next == task.successor \/ Spawns(req[p].in.task, task, to)
  <1>2. /\ (task.completed \/ to \in Terminal) \in BOOLEAN
        /\ (to \in Terminal) \in BOOLEAN
        /\ next \in BOOLEAN
    OBVIOUS
  <1>3. \A c, n \in BOOLEAN :
          [task EXCEPT !.status = to, !.completed = c, !.successor = n] \in Row
    BY <1>1 DEF Row
  <1>4. Released(p) = [task EXCEPT !.status = to,
                        !.completed = (task.completed \/ to \in Terminal), !.successor = next]
    BY DEF Released
  <1>5. Moved(p) = [task EXCEPT !.status = to, !.completed = (to \in Terminal), !.successor = next]
    BY DEF Moved
  <1> QED BY <1>2, <1>3, <1>4, <1>5

\* Counting a successor keeps the count a number.
LEMMA CountSpawnType ==
  ASSUME TypeOK, NEW p \in Client, CountSpawn(p), req[p].in.task \in Task
  PROVE  spawned' \in [Task -> Nat]
BY DEF CountSpawn, TypeOK

\* A release keeps the types.
LEMMA ReleaseType ==
  ASSUME TypeOK, NEW p \in Client, Release(p)
  PROVE  TypeOK'
PROOF
  <1> DEFINE t == req[p].in.task
  <1>1. t \in Task /\ row[t] \in Row
    BY ReadyType DEF Release, AllOps
  <1>2. told' \in [Token -> Nat]
    BY DEF Release, TypeOK
  <1>3. CASE req[p].in.to = NoStatus
    <2>1. row' = [row EXCEPT ![t] = Unclaim(row[t])] /\ spawned' = spawned
      BY <1>3 DEF Release, Finalizes
    <2>2. Unclaim(row[t]) \in Row
      BY <1>1, UnclaimType
    <2> QED BY <1>1, <1>2, <2>1, <2>2, FinishType DEF Release, TypeOK
  <1>4. CASE req[p].in.to # NoStatus
    <2>1. row' = [row EXCEPT ![t] = WriteFields(Unclaim(row[t]), Released(p))]
      BY <1>4 DEF Release, Finalizes
    <2>2. WriteFields(Unclaim(row[t]), Released(p)) \in Row
      BY <1>1, <1>4, UnclaimType, WriteFieldsType, MovedType DEF Release
    <2>3. spawned' \in [Task -> Nat]
      BY <1>1, <1>4, CountSpawnType DEF Release, Finalizes
    <2> QED BY <1>1, <1>2, <2>1, <2>2, <2>3, FinishType DEF Release
  <1> QED BY <1>3, <1>4

\* The guard writes an expiry that was loaded from a row.
LEMMA GuardedType ==
  ASSUME TypeOK, NEW p \in Client, Ready(p, "transition") \/ Ready(p, "artifact")
  PROVE  \A r \in Row : Guarded(p, r) \in Row
PROOF
  <1>1. req[p].task \in Row
    BY ReadyType DEF AllOps
  <1> QED BY <1>1 DEF Guarded, Row

\* A transition keeps the types; its target is a status.
LEMMA TransitionType ==
  ASSUME TypeOK, WellFormed, NEW p \in Client, Transition(p)
  PROVE  TypeOK'
PROOF
  <1> DEFINE t == req[p].in.task
             new == WriteFields(Guarded(p, row[t]), Moved(p))
  <1>1. t \in Task /\ row[t] \in Row
    BY ReadyType DEF Transition, AllOps
  <1>2. req[p].in.to # NoStatus
    BY DEF WellFormed, WellFormedCall, Transition, Ready
  <1>3. new \in Row
    BY <1>1, <1>2, GuardedType, MovedType, WriteFieldsType DEF Transition
  <1>4. row' = [row EXCEPT ![t] = new] /\ told' = told
    BY DEF Transition
  <1>5. spawned' \in [Task -> Nat]
    BY <1>1, CountSpawnType DEF Transition
  <1> HIDE DEF new
  <1> QED BY <1>1, <1>3, <1>4, <1>5, FinishType DEF Transition, TypeOK

\* The calls that write one column of the row keep the types.
LEMMA ColumnType ==
  ASSUME TypeOK, NEW p \in Client,
         Artifact(p) \/ Edit(p) \/ Reclaim(p) \/ Delete(p)
           \/ Restore(p) \/ Snooze(p) \/ Unsnooze(p)
  PROVE  TypeOK'
PROOF
  <1> DEFINE t == req[p].in.task
  <1>1. CASE Artifact(p)
    <2>1. t \in Task /\ Commit(p) /\ UNCHANGED <<now, minted, told, spawned>>
      BY <1>1, RowOnlyCall
    <2>2. Guarded(p, row[t]) \in Row
      BY <1>1, RowOnlyCall, GuardedType DEF Artifact
    <2>3. row' = [row EXCEPT ![t] = Guarded(p, row[t])]
      BY <1>1 DEF Artifact
    <2> QED BY <2>1, <2>2, <2>3, RowOnlyType
  <1>2. CASE Edit(p)
    <2>1. t \in Task /\ Commit(p) /\ UNCHANGED <<now, minted, told, spawned>>
      BY <1>2, RowOnlyCall
    <2>2. WriteFields(row[t], req[p].task) \in Row
      <3>1. row[t] \in Row /\ req[p].task \in Row
        BY <1>2, ReadyType DEF Edit, AllOps
      <3> QED BY <3>1, WriteFieldsType
    <2>3. row' = [row EXCEPT ![t] = WriteFields(row[t], req[p].task)]
      BY <1>2 DEF Edit
    <2> QED BY <2>1, <2>2, <2>3, RowOnlyType
  <1>3. CASE Reclaim(p)
    <2>1. t \in Task /\ row[t] \in Row
      BY <1>3, ReadyType DEF Reclaim, AllOps
    <2>2. Unclaim(row[t]) \in Row
      BY <2>1, UnclaimType
    <2>3. row' = [row EXCEPT ![t] = Unclaim(row[t])]
      BY <1>3 DEF Reclaim
    <2>4. told' \in [Token -> Nat] /\ spawned' \in [Task -> Nat]
      BY <1>3 DEF Reclaim, TypeOK
    <2>5. Commit(p) /\ UNCHANGED <<now, minted>>
      BY <1>3 DEF Reclaim
    <2> QED BY <2>1, <2>2, <2>3, <2>4, <2>5, FinishType
  <1>4. CASE Delete(p) \/ Restore(p)
    <2>1. /\ t \in Task /\ row[t] \in Row
          /\ Commit(p) /\ UNCHANGED <<now, minted, told, spawned>>
      BY <1>4, RowOnlyCall
    <2>2. PICK d \in BOOLEAN : row' = [row EXCEPT ![t] = [row[t] EXCEPT !.deleted = d]]
      BY <1>4, DeletedRow
    <2>3. [row[t] EXCEPT !.deleted = d] \in Row
      BY <2>1, ColumnWritten
    <2> QED BY <2>1, <2>2, <2>3, RowOnlyType
  <1>5. CASE Snooze(p) \/ Unsnooze(p)
    <2>1. /\ t \in Task /\ row[t] \in Row
          /\ Commit(p) /\ UNCHANGED <<now, minted, told, spawned>>
      BY <1>5, RowOnlyCall
    <2>2. PICK w \in Nat : row' = [row EXCEPT ![t] = [row[t] EXCEPT !.wake = w]]
      BY <1>5, SnoozedRow
    <2>3. [row[t] EXCEPT !.wake = w] \in Row
      BY <2>1, ColumnWritten
    <2> QED BY <2>1, <2>2, <2>3, RowOnlyType
  <1> QED BY <1>1, <1>2, <1>3, <1>4, <1>5

\* A sweep keeps the types, row by row.
LEMMA SweepType ==
  ASSUME TypeOK, Sweep \/ WakeSnoozed
  PROVE  TypeOK'
PROOF
  <1>1. req[Sweeper] \in Listed
    BY ListedKind DEF Sweep, WakeSnoozed, Ready, SweepOps
  <1>2. req[Sweeper].tasks \in [Task -> Row]
    BY <1>1 DEF Listed
  <1>3. CASE Sweep
    <2>1. \A t \in Task : Reverted(Expired(row[t], req[Sweeper].tasks[t])) \in Row
      BY <1>2, RevertedType DEF TypeOK
    <2>2. row' \in [Task -> Row]
      BY <1>3, <2>1 DEF Sweep, TypeOK
    <2> QED BY <1>3, <2>2, CommitType DEF Sweep, TypeOK
  <1>4. CASE WakeSnoozed
    <2>1. \A t \in Task : [row[t] EXCEPT !.wake = 0] \in Row
      BY ColumnWritten DEF TypeOK
    <2>2. row' \in [Task -> Row]
      BY <1>4, <2>1 DEF WakeSnoozed, TypeOK
    <2> QED BY <1>4, <2>2, CommitType DEF WakeSnoozed, TypeOK
  <1> QED BY <1>3, <1>4
-----------------------------------------------------------------------------
(* The inductive invariant of both engines *)

Base == TypeOK /\ WellFormed /\ OneLengthIsGranted /\ Clocks

\* Initially no transaction is open.
LEMMA InitBase == Init => Base
BY NewRowType, BoundAssumption DEF Init, Base, TypeOK, WellFormed, OneLengthIsGranted, Clocks, Idle

\* A step that leaves every transaction as it was, or idle, keeps what is known
\* of those still open.
LEMMA CloseKeepsBase ==
  ASSUME Base, TypeOK', now' = now,
         \A p \in Proc : req'[p] = req[p] \/ req'[p] = Idle
  PROVE  Base'
BY DEF Base, WellFormed, OneLengthIsGranted, Clocks, Idle

\* Every call that commits, and every abort, is such a step.
LEMMA CommitKeepsBase ==
  ASSUME Base, TypeOK', now' = now, NEW p \in Proc, Commit(p)
  PROVE  Base'
PROOF
  <1>1. \A q \in Proc : req'[q] = req[q] \/ req'[q] = Idle
    BY DEF Commit, Base, TypeOK
  <1> QED BY <1>1, CloseKeepsBase

\* A client opens a transaction with a well-formed call.
LEMMA BeginKeepsBase ==
  ASSUME Base, NEW p \in Client, Begin(p)
  PROVE  Base'
PROOF
  <1>1. PICK t \in Task : \E call \in Calls(t) :
          /\ call.op = "claimNext" /\ ~OwnLease => call.ttl = call.queueTTL
          /\ Open(p, call)
    BY DEF Begin
  <1>2. PICK call \in Calls(t) :
          /\ call.op = "claimNext" /\ ~OwnLease => call.ttl = call.queueTTL
          /\ Open(p, call)
    BY <1>1
  <1>3. call \in Input /\ WellFormedCall(call)
    BY CallsType DEF Base
  <1>4. TypeOK'
    BY <1>2, <1>3, OpenType DEF Base
  <1>5. OneLengthIsGranted'
    BY <1>2 DEF Open, Base, TypeOK, OneLengthIsGranted
  <1>6. WellFormed'
    BY <1>2, <1>3 DEF Open, Base, TypeOK, WellFormed
  <1>7. Clocks'
    BY <1>2, BoundAssumption DEF Open, Base, TypeOK, Clocks
  <1> QED BY <1>4, <1>5, <1>6, <1>7 DEF Base

\* A sweep opens a transaction.
LEMMA BeginSweepKeepsBase ==
  ASSUME Base, NEW op \in SweepOps, BeginSweep(op)
  PROVE  Base'
PROOF
  <1> DEFINE call == [op |-> op]
  <1>1. call \in SweepCall /\ Open(Sweeper, call)
    BY DEF BeginSweep, SweepCall
  <1>2. TypeOK'
    BY <1>1, OpenType DEF Base
  <1>3. WellFormed'
    BY <1>1 DEF Open, Base, TypeOK, WellFormed, WellFormedCall, SweepOps
  <1>5. OneLengthIsGranted'
    BY <1>1 DEF Open, Base, TypeOK, OneLengthIsGranted, SweepOps
  <1>4. Clocks'
    BY <1>1, BoundAssumption DEF Open, Base, TypeOK, Clocks
  <1> QED BY <1>2, <1>3, <1>4, <1>5 DEF Base

\* Reading leaves the call and its clock alone.
LEMMA ReadKeepsBase ==
  ASSUME Base, NEW p \in Proc, Read(p)
  PROVE  Base'
PROOF
  <1>1. TypeOK'
    BY ReadType DEF Base
  <1>2. WellFormed'
    BY DEF Read, Base, TypeOK, WellFormed
  <1>3. OneLengthIsGranted'
    BY DEF Read, Base, TypeOK, OneLengthIsGranted
  <1>4. Clocks'
    BY BoundAssumption DEF Read, Base, TypeOK, Clocks
  <1> QED BY <1>1, <1>2, <1>3, <1>4 DEF Base

\* So does listing.
LEMMA ListKeepsBase ==
  ASSUME Base, NEW op \in SweepOps, List(op)
  PROVE  Base'
PROOF
  <1>1. TypeOK'
    BY ListType DEF Base
  <1>2. WellFormed'
    BY DEF List, Base, TypeOK, WellFormed
  <1>3. OneLengthIsGranted'
    BY DEF List, Base, TypeOK, OneLengthIsGranted
  <1>4. Clocks'
    BY BoundAssumption DEF List, Base, TypeOK, Clocks
  <1> QED BY <1>1, <1>2, <1>3, <1>4 DEF Base

\* The clock only moves on.
LEMMA TickKeepsBase == Base /\ Tick => Base'
PROOF
  <1> SUFFICES ASSUME Base, Tick PROVE Base'
    OBVIOUS
  <1>1. TypeOK'
    BY BoundAssumption DEF Tick, Base, TypeOK
  <1>2. WellFormed' /\ OneLengthIsGranted'
    BY DEF Tick, Base, WellFormed, OneLengthIsGranted
  <1>3. Clocks'
    <2> SUFFICES ASSUME NEW p \in Proc
                 PROVE  /\ req[p].pc # "idle" => req[p].mnow <= now + 1
                        /\ req[p].pc = "read" => req[p].at <= now + 1
      BY DEF Tick, Clocks
    <2>1. req[p].pc # "idle" => req[p].mnow \in Nat
      BY MnowType DEF Base
    <2>2. req[p].pc = "read" => req[p].at \in Nat
      BY AtType DEF Base
    <2>3. now \in Nat
      BY BoundAssumption DEF Base, TypeOK
    <2> QED BY <2>1, <2>2, <2>3 DEF Base, Clocks
  <1> QED BY <1>1, <1>2, <1>3 DEF Base

\* A call that runs its statements ends its transaction.
LEMMA FinishCommits ==
  ASSUME NEW p \in Client, Finish(p)
  PROVE  Commit(p) /\ now' = now /\ req[p].pc # "idle"
PROOF
  <1>1. CASE Claim(p)  BY <1>1 DEF Claim, Ready
  <1>2. CASE ClaimNext(p)  BY <1>2 DEF ClaimNext
  <1>3. CASE Renew(p)  BY <1>3 DEF Renew, Ready
  <1>4. CASE Release(p)  BY <1>4 DEF Release, Ready
  <1>5. CASE Transition(p)  BY <1>5 DEF Transition, Ready
  <1>6. CASE Artifact(p) \/ Edit(p)  BY <1>6 DEF Artifact, Edit, Ready
  <1>7. CASE Reclaim(p)  BY <1>7 DEF Reclaim, Ready
  <1>8. CASE Delete(p) \/ Restore(p)  BY <1>8 DEF Delete, Restore, Ready
  <1>9. CASE Snooze(p) \/ Unsnooze(p)  BY <1>9 DEF Snooze, Unsnooze, Ready
  <1> QED BY <1>1, <1>2, <1>3, <1>4, <1>5, <1>6, <1>7, <1>8, <1>9 DEF Finish

\* Every call that runs its statements keeps the invariant.
LEMMA FinishKeepsBase ==
  ASSUME Base, NEW p \in Client, Finish(p)
  PROVE  Base'
PROOF
  <1>1. Commit(p) /\ now' = now
    BY FinishCommits
  <1>2. TypeOK'
    BY ClaimType, RenewType, ReleaseType, TransitionType, ColumnType DEF Finish, Base
  <1> QED BY <1>1, <1>2, CommitKeepsBase

\* Every step keeps the invariant.
LEMMA NextKeepsBase == Base /\ [Next]_vars => Base'
PROOF
  <1> SUFFICES ASSUME Base, [Next]_vars PROVE Base'
    OBVIOUS
  <1>1. CASE Tick
    BY <1>1, TickKeepsBase
  <1>2. ASSUME NEW p \in Client, Begin(p) \/ Read(p) \/ Finish(p) PROVE Base'
    BY <1>2, BeginKeepsBase, ReadKeepsBase, FinishKeepsBase
  <1>3. ASSUME NEW op \in SweepOps, BeginSweep(op) \/ List(op) PROVE Base'
    BY <1>3, BeginSweepKeepsBase, ListKeepsBase
  <1>4. CASE Sweep \/ WakeSnoozed
    <2>1. Commit(Sweeper) /\ now' = now /\ TypeOK'
      BY <1>4, SweepType DEF Sweep, WakeSnoozed, Base
    <2> QED BY <2>1, CommitKeepsBase
  <1>5. ASSUME NEW p \in Proc, Abort(p) PROVE Base'
    <2>1. Commit(p) /\ UNCHANGED <<now, row, minted, told, spawned>>
      BY <1>5 DEF Abort, Commit
    <2>2. TypeOK'
      BY <2>1, CommitType DEF Base, TypeOK
    <2> QED BY <2>1, <2>2, CommitKeepsBase
  <1>6. CASE UNCHANGED vars
    BY <1>6 DEF vars, Base, TypeOK, WellFormed, OneLengthIsGranted, Clocks
  <1> QED BY <1>1, <1>2, <1>3, <1>4, <1>5, <1>6 DEF Next

\* The base invariant holds throughout.
LEMMA SpecKeepsBase == Spec => []Base
BY InitBase, NextKeepsBase, PTL DEF Spec

\* Rows, requests, tokens and counters always have their types, whatever
\* transactions interleave (every statement of store.Tx that writes a task).
THEOREM TypeCorrect == Spec => []TypeOK
PROOF
  <1>1. Base => TypeOK
    BY DEF Base
  <1> QED BY <1>1, SpecKeepsBase, PTL
-----------------------------------------------------------------------------
(* A live lease ends only on purpose, on either engine *)

\* A rewrite of one row that keeps its token.
LEMMA OneTokenKept ==
  ASSUME TypeOK, NEW u \in Task, NEW r, row' = [row EXCEPT ![u] = r], r.token = row[u].token
  PROVE  \A t \in Task : row'[t].token = row[t].token
BY DEF TypeOK

\* A call that leaves the tokens of every row alone.
LEMMA TokensKept ==
  ASSUME Base, NEW p \in Client,
         Renew(p) \/ Transition(p) \/ Artifact(p) \/ Edit(p) \/ Delete(p)
           \/ Restore(p) \/ Snooze(p) \/ Unsnooze(p)
  PROVE  \A t \in Task : row'[t].token = row[t].token
PROOF
  <1> USE DEF Base
  <1>1. \A r, task \in Row : WriteFields(r, task).token = r.token
    BY DEF WriteFields, Row
  <1>2. CASE Renew(p)
    <2>1. PICK w \in Nat : row' = [row EXCEPT ![req[p].in.task] = [row[req[p].in.task] EXCEPT !.until = w]]
      BY <1>2, RenewedRow
    <2>2. req[p].in.task \in Task /\ row[req[p].in.task] \in Row
      BY <1>2, RenewedRow
    <2>3. [row[req[p].in.task] EXCEPT !.until = w].token = row[req[p].in.task].token
      BY <2>2 DEF Row
    <2> QED BY <2>1, <2>2, <2>3, OneTokenKept
  <1>3. CASE Transition(p)
    <2>1. req[p].in.task \in Task /\ row[req[p].in.task] \in Row
      BY <1>3, ReadyType DEF Transition, AllOps
    <2>2. /\ Guarded(p, row[req[p].in.task]) \in Row /\ Moved(p) \in Row
          /\ Guarded(p, row[req[p].in.task]).token = row[req[p].in.task].token
      BY <1>3, <2>1, GuardedType, MovedType
         DEF Transition, Guarded, WellFormed, WellFormedCall, Ready, Row
    <2> DEFINE new == WriteFields(Guarded(p, row[req[p].in.task]), Moved(p))
    <2>3. new.token = row[req[p].in.task].token
      BY <1>1, <2>2
    <2>4. row' = [row EXCEPT ![req[p].in.task] = new]
      BY <1>3 DEF Transition
    <2> HIDE DEF new
    <2>5. PICK u \in Task : row' = [row EXCEPT ![u] = new] /\ new.token = row[u].token
      BY <2>1, <2>3, <2>4
    <2> QED BY <2>5, OneTokenKept, Zenon
  <1>4. CASE Artifact(p)
    <2>1. req[p].in.task \in Task /\ row[req[p].in.task] \in Row
      BY <1>4, RowOnlyCall
    <2>2. Guarded(p, row[req[p].in.task]).token = row[req[p].in.task].token
      BY <2>1 DEF Guarded, Row
    <2>3. row' = [row EXCEPT ![req[p].in.task] = Guarded(p, row[req[p].in.task])]
      BY <1>4 DEF Artifact
    <2>4. PICK u \in Task : u = req[p].in.task
      BY <2>1
    <2>5. \E r : row' = [row EXCEPT ![u] = r] /\ r.token = row[u].token
      BY <2>2, <2>3, <2>4
    <2> QED BY <2>5, OneTokenKept, Zenon
  <1>5. CASE Edit(p)
    <2>1. req[p].in.task \in Task /\ req[p].task \in Row
      BY <1>5, ReadyType DEF Edit, AllOps
    <2>2. row' = [row EXCEPT ![req[p].in.task] = WriteFields(row[req[p].in.task], req[p].task)]
      BY <1>5, Zenon DEF Edit
    <2>3. row[req[p].in.task] \in Row
      BY <2>1 DEF TypeOK
    <2>4. WriteFields(row[req[p].in.task], req[p].task).token = row[req[p].in.task].token
      BY <1>1, <2>1, <2>3
    <2> QED BY <2>1, <2>2, <2>4, OneTokenKept
  <1>6. CASE Delete(p) \/ Restore(p)
    <2>1. req[p].in.task \in Task /\ row[req[p].in.task] \in Row
      BY <1>6, RowOnlyCall
    <2>2. PICK d \in BOOLEAN :
            row' = [row EXCEPT ![req[p].in.task] = [row[req[p].in.task] EXCEPT !.deleted = d]]
      BY <1>6, DeletedRow
    <2> QED BY <2>1, <2>2, ColumnWritten, OneTokenKept
  <1>7. CASE Snooze(p) \/ Unsnooze(p)
    <2>1. req[p].in.task \in Task /\ row[req[p].in.task] \in Row
      BY <1>7, RowOnlyCall
    <2>2. PICK w \in Nat :
            row' = [row EXCEPT ![req[p].in.task] = [row[req[p].in.task] EXCEPT !.wake = w]]
      BY <1>7, SnoozedRow
    <2> QED BY <2>1, <2>2, ColumnWritten, OneTokenKept
  <1> QED BY <1>2, <1>3, <1>4, <1>5, <1>6, <1>7

\* A live lease is never taken, swept or overwritten, on either engine: claims
\* and sweeps re-assert the lapse in the statement that writes.
THEOREM LiveLeaseIsSafe == Spec => LiveLeaseEndsOnlyOnPurpose
PROOF
  <1> DEFINE OnPurpose(t) ==
               \E p \in Client :
                 /\ req[p].pc = "read"
                 /\ req[p].in.task = t
                 /\ \/ req[p].in.op = "release" /\ req[p].in.token = row[t].token
                    \/ req[p].in.op = "reclaim"
                 /\ req'[p] = Idle
             Safe == \A t \in Task :
               Live(row[t], now) /\ row'[t].token # row[t].token => OnPurpose(t)
  <1>1. Base /\ [Next]_vars => [Safe]_vars
    <2> SUFFICES ASSUME Base, Next, NEW t \in Task,
                        Live(row[t], now), row'[t].token # row[t].token
                 PROVE  OnPurpose(t)
      OBVIOUS
    <2> USE DEF Base, TypeOK
    <2>0. \A q \in Proc : req[q].pc # "idle" =>
             req[q].mnow \in Nat /\ req[q].mnow <= now
      BY DEF Clocks, Idle, Opened, Loaded, Listed
    <2>1. row' # row /\ row[t] \in Row /\ now \in Nat
      BY BoundAssumption
    <2>2. ASSUME NEW p \in Client, Claim(p) \/ ClaimNext(p) PROVE FALSE
      <3>1. req[p].pc # "idle" /\ ~Live(row[req[p].in.task], req[p].mnow)
        BY <2>2 DEF Claim, ClaimNext, Eligible, Unclaimed, Ready
      <3>2. t = req[p].in.task
        BY <2>2 DEF Claim, ClaimNext
      <3> QED BY <2>0, <2>1, <3>1, <3>2 DEF Live, Row
    <2>3. ASSUME NEW p \in Client, Release(p) PROVE OnPurpose(t)
      <3>1. t = req[p].in.task
        BY <2>3 DEF Release
      <3> QED BY <2>3, <3>1 DEF Release, HeldUnder, Ready, Commit
    <2>4. ASSUME NEW p \in Client, Reclaim(p) PROVE OnPurpose(t)
      <3>1. t = req[p].in.task
        BY <2>4 DEF Reclaim
      <3> QED BY <2>4, <3>1 DEF Reclaim, Ready, Commit
    <2>5. ASSUME Sweep PROVE FALSE
      <3>1. Lapsed(t) /\ req[Sweeper].pc # "idle"
        BY <2>5 DEF Sweep, Ready
      <3> QED BY <2>0, <2>1, <3>1 DEF Lapsed, Live, Row
    <2>6. ASSUME WakeSnoozed PROVE FALSE
      BY <2>6, <2>1 DEF WakeSnoozed, Row
    <2>7. ASSUME NEW p \in Client, Finish(p) PROVE OnPurpose(t)
      BY <2>7, <2>2, <2>3, <2>4, TokensKept DEF Finish
    <2>8. ASSUME NEW p \in Client, Begin(p) \/ Read(p) PROVE FALSE
      BY <2>8, <2>1 DEF Begin, Open, Read
    <2>9. ASSUME NEW op \in SweepOps, BeginSweep(op) \/ List(op) PROVE FALSE
      BY <2>9, <2>1 DEF BeginSweep, Open, List
    <2>10. ASSUME NEW p \in Proc, Abort(p) PROVE FALSE
      BY <2>10, <2>1 DEF Abort
    <2>11. ASSUME Tick PROVE FALSE
      BY <2>11, <2>1 DEF Tick
    <2> QED BY <2>5, <2>6, <2>7, <2>8, <2>9, <2>10, <2>11 DEF Next
  <1> QED BY <1>1, SpecKeepsBase, PTL DEF Spec, LiveLeaseEndsOnlyOnPurpose
-----------------------------------------------------------------------------
(* The single writer: what was checked still holds when the statements run *)

OneWriter ==
  Engine = "sqlite" =>
    \A p, q \in Proc : req[p] # Idle /\ req[q] # Idle => p = q

Sqlite == Base /\ OneWriter /\ ChecksStillHold

\* Initially nothing is open.
LEMMA InitSqlite == Init => Sqlite
BY InitBase DEF Init, Sqlite, OneWriter, ChecksStillHold, Idle

\* Once a transaction ends on the single writer, none is open.
LEMMA CommitKeepsSqlite ==
  ASSUME Sqlite, Base', NEW p \in Proc, req[p] # Idle, Commit(p)
  PROVE  Sqlite'
PROOF
  <1>1. CASE Engine = "sqlite"
    <2>1. \A q \in Proc : req'[q] = Idle
      BY <1>1 DEF Sqlite, OneWriter, Commit, Base, TypeOK
    <2> QED BY <2>1 DEF Sqlite, OneWriter, ChecksStillHold, Idle
  <1>2. CASE Engine # "sqlite"
    BY <1>2 DEF Sqlite, OneWriter, ChecksStillHold
  <1> QED BY <1>1, <1>2

\* A transaction opens only when none is open, and has read nothing yet.
LEMMA OpenKeepsSqlite ==
  ASSUME Sqlite, Base', NEW p \in Proc, NEW call, Open(p, call)
  PROVE  Sqlite'
PROOF
  <1>1. CASE Engine = "sqlite"
    <2>1. \A q \in Proc : q # p => req'[q] = Idle
      BY <1>1 DEF Open, CanOpen, Sqlite, Base, TypeOK
    <2>2. req'[p].pc = "open"
      BY DEF Open, Sqlite, Base, TypeOK
    <2> QED BY <2>1, <2>2 DEF Sqlite, OneWriter, ChecksStillHold, Idle
  <1>2. CASE Engine # "sqlite"
    BY <1>2 DEF Sqlite, OneWriter, ChecksStillHold
  <1> QED BY <1>1, <1>2

\* A client that reads makes its checks on the rows as they are.
LEMMA ReadKeepsSqlite ==
  ASSUME Sqlite, Base', NEW p \in Client, Read(p)
  PROVE  Sqlite'
PROOF
  <1>1. CASE Engine = "sqlite"
    <2> DEFINE r == req[p]
    <2>0. r.pc = "open" /\ r # Idle /\ row' = row
      BY DEF Read, Idle
    <2>1. \A q \in Proc : q # p => req'[q] = Idle
      BY <1>1, <2>0 DEF Read, Sqlite, OneWriter, Base, TypeOK
    <2>2. /\ req'[p].in = r.in /\ req'[p].mnow = r.mnow
          /\ r.in.op \notin Blind => req'[p].task = row[r.in.task]
      BY DEF Read, Sqlite, Base, TypeOK
    <2>3. Checks(row[r.in.task], r.in, r.mnow)
      BY DEF Read
    <2>4. ChecksStillHold'
      <3> SUFFICES ASSUME NEW q \in Client, req'[q].pc = "read"
                   PROVE  /\ Checks(row[req'[q].in.task], req'[q].in, req'[q].mnow)
                          /\ req'[q].in.op \notin Blind => req'[q].task = row[req'[q].in.task]
        BY <2>0 DEF ChecksStillHold
      <3>1. q = p
        BY <2>1 DEF Idle
      <3> QED BY <2>2, <2>3, <3>1
    <2>5. OneWriter'
      BY <2>1 DEF OneWriter
    <2> QED BY <2>4, <2>5 DEF Sqlite
  <1>2. CASE Engine # "sqlite"
    BY <1>2 DEF Sqlite, OneWriter, ChecksStillHold
  <1> QED BY <1>1, <1>2

\* The sweeper's listing touches no row and no client.
LEMMA ListKeepsSqlite ==
  ASSUME Sqlite, Base', NEW op \in SweepOps, List(op)
  PROVE  Sqlite'
PROOF
  <1>1. CASE Engine = "sqlite"
    <2>0. req[Sweeper] # Idle /\ row' = row
      BY DEF List, Idle
    <2>1. \A q \in Proc : q # Sweeper => req'[q] = Idle
      BY <1>1, <2>0 DEF List, Sqlite, OneWriter, Base, TypeOK
    <2> QED BY <2>1, ClientsAssumption DEF Sqlite, OneWriter, ChecksStillHold, Idle
  <1>2. CASE Engine # "sqlite"
    BY <1>2 DEF Sqlite, OneWriter, ChecksStillHold
  <1> QED BY <1>1, <1>2

\* Every step keeps the invariant.
LEMMA NextKeepsSqlite == Sqlite /\ [Next]_vars => Sqlite'
PROOF
  <1> SUFFICES ASSUME Sqlite, [Next]_vars PROVE Sqlite'
    OBVIOUS
  <1>0. Base'
    BY NextKeepsBase DEF Sqlite
  <1>1. CASE Tick
    BY <1>0, <1>1 DEF Tick, Sqlite, OneWriter, ChecksStillHold
  <1>2. ASSUME NEW p \in Client, Begin(p) PROVE Sqlite'
    BY <1>0, <1>2, OpenKeepsSqlite DEF Begin
  <1>3. ASSUME NEW p \in Client, Read(p) PROVE Sqlite'
    BY <1>0, <1>3, ReadKeepsSqlite
  <1>4. ASSUME NEW p \in Client, Finish(p) PROVE Sqlite'
    <2>1. Commit(p) /\ req[p].pc # "idle"
      BY <1>4, FinishCommits
    <2> QED BY <1>0, <2>1, CommitKeepsSqlite DEF Idle
  <1>5. ASSUME NEW op \in SweepOps, BeginSweep(op) PROVE Sqlite'
    BY <1>0, <1>5, OpenKeepsSqlite DEF BeginSweep
  <1>6. ASSUME NEW op \in SweepOps, List(op) PROVE Sqlite'
    BY <1>0, <1>6, ListKeepsSqlite
  <1>7. CASE Sweep \/ WakeSnoozed
    BY <1>0, <1>7, CommitKeepsSqlite DEF Sweep, WakeSnoozed, Ready, Idle
  <1>8. ASSUME NEW p \in Proc, Abort(p) PROVE Sqlite'
    BY <1>0, <1>8, CommitKeepsSqlite DEF Abort, Commit
  <1>9. CASE UNCHANGED vars
    BY <1>0, <1>9 DEF vars, Sqlite, OneWriter, ChecksStillHold
  <1> QED BY <1>1, <1>2, <1>3, <1>4, <1>5, <1>6, <1>7, <1>8, <1>9 DEF Next

\* The invariant of the single writer holds throughout.
LEMMA SpecKeepsSqlite == Spec => []Sqlite
  BY InitSqlite, NextKeepsSqlite, PTL DEF Spec

\* On one writer every check a call made on the task it loaded still holds when
\* its statements run (BEGIN IMMEDIATE).
THEOREM ChecksAreNotStale == Spec => []ChecksStillHold
PROOF
  <1>1. Sqlite => ChecksStillHold
    BY DEF Sqlite
  <1> QED BY <1>1, SpecKeepsSqlite, PTL
-----------------------------------------------------------------------------
(* The single writer implements the contract *)

\* The lease a row carries.
LeaseOf(r) == [token |-> r.token, until |-> r.until]

\* The contract's state is left alone.
LeaseStutter == UNCHANGED <<now, Leases, minted, told>>

\* An expiry is a start and a granted length.
LEMMA ExpiryGiven ==
  ASSUME Base, NEW p \in Proc, req[p].pc # "idle",
         req[p].in.op \in {"claim", "claimNext", "renew"}
  PROVE  req[p].mnow + req[p].in.ttl \in Expiries
PROOF
  <1>1. req[p].in.ttl \in TTL
    BY DEF Base, WellFormed, WellFormedCall
  <1>2. req[p].mnow \in Nat /\ req[p].mnow <= now
    BY DEF Base, TypeOK, Clocks, Idle, Opened, Loaded, Listed
  <1>3. req[p].mnow \in 0..MaxTime
    BY <1>2, BoundAssumption DEF Base, TypeOK
  <1> QED BY <1>1, <1>3 DEF Expiries

\* Rewriting one row moves one lease.
LEMMA OneLeaseMoves ==
  ASSUME Base, NEW t \in Task, NEW r, row' = [row EXCEPT ![t] = r]
  PROVE  Leases' = [Leases EXCEPT ![t] = LeaseOf(r)]
BY DEF Leases, LeaseOf, Base, TypeOK

\* A rewrite that keeps the lease columns is a stutter.
LEMMA LeaseKept ==
  ASSUME Base, NEW t \in Task, NEW r, row' = [row EXCEPT ![t] = r],
         r.token = row[t].token, r.until = row[t].until,
         UNCHANGED <<now, minted, told>>
  PROVE  LeaseStutter
BY DEF LeaseStutter, Leases, LeaseOf, Base, TypeOK

\* What the writers of a row do to its lease.
LEMMA WrittenLease ==
  ASSUME NEW r \in Row, NEW task \in Row
  PROVE  /\ WriteFields(r, task).token = r.token
         /\ WriteFields(r, task).until = r.until
         /\ Unclaim(r).token = 0 /\ Unclaim(r).until = 0
BY DEF WriteFields, Unclaim, Row

\* A lease that was not live when a transaction began has lapsed.
LEMMA LapsedLease ==
  ASSUME TypeOK, NEW t \in Task, NEW m \in Nat, m <= now, ~Live(row[t], m)
  PROVE  Leases[t].token # 0 => Leases[t].until <= now
PROOF
  <1>1. row[t] \in Row /\ now \in Nat
    BY BoundAssumption DEF TypeOK
  <1>2. Leases[t].token = row[t].token /\ Leases[t].until = row[t].until
    BY DEF Leases
  <1>3. row[t].until \in Nat
    BY <1>1 DEF Row
  <1> QED BY <1>1, <1>2, <1>3 DEF Live

\* A claim takes the lease.
LEMMA ClaimTakes ==
  ASSUME Sqlite, NEW p \in Client, Claim(p)
  PROVE  Contract!Take(req[p].in.task)
PROOF
  <1> DEFINE t == req[p].in.task
             until == req[p].mnow + req[p].in.ttl
  <1>1. t \in Task /\ row[t] \in Row /\ req[p].mnow \in Nat
    BY ReadyType DEF Sqlite, Base, Claim, AllOps
  <1>2. until \in Expiries /\ req[p].mnow <= now
    BY ExpiryGiven DEF Sqlite, Base, Clocks, Claim, Ready
  <1>3. row' = [row EXCEPT ![t] = Leased(row[t], p, minted + 1, until)]
    BY DEF Claim
  <1>4. LeaseOf(Leased(row[t], p, minted + 1, until)) = [token |-> minted + 1, until |-> until]
    BY <1>1 DEF LeaseOf, Leased, Row
  <1>5. Leases' = [Leases EXCEPT ![t] = [token |-> minted + 1, until |-> until]]
    BY <1>1, <1>3, <1>4, OneLeaseMoves DEF Sqlite
  <1>6. Leases[t].token # 0 => Leases[t].until <= now
    BY <1>1, <1>2, LapsedLease DEF Claim, Unclaimed, Sqlite, Base
  <1>7. /\ minted < MaxTokens /\ minted' = minted + 1
        /\ told' = [told EXCEPT ![minted + 1] = until] /\ now' = now
    BY DEF Claim
  <1> HIDE DEF until
  <1> QED BY <1>2, <1>5, <1>6, <1>7 DEF Contract!Take, Contract!Free
\* A claim from the queue takes the lease, at one length where the task, its
\* project and its workflow name none.
LEMMA ClaimNextTakes ==
  ASSUME Sqlite, ~OwnLease, NEW p \in Client, ClaimNext(p)
  PROVE  Contract!Take(req[p].in.task)
PROOF
  <1> DEFINE t == req[p].in.task
             until == req[p].mnow + req[p].in.ttl
  <1>1. req[p] \in Opened /\ req[p].pc # "idle" /\ req[p].in.op = "claimNext"
    BY OpenKind DEF ClaimNext, Sqlite, Base
  <1>2. t \in Task /\ row[t] \in Row /\ req[p].mnow \in Nat
    BY <1>1 DEF Opened, Input, SweepCall, SweepOps, Sqlite, Base, TypeOK
  <1>3. until \in Expiries /\ req[p].mnow <= now /\ req[p].in.queueTTL = req[p].in.ttl
    BY <1>1, ExpiryGiven DEF Sqlite, Base, Clocks, OneLengthIsGranted
  <1>4. row' = [row EXCEPT ![t] = Leased(row[t], p, minted + 1, until)]
    BY <1>3 DEF ClaimNext
  <1>5. LeaseOf(Leased(row[t], p, minted + 1, until)) = [token |-> minted + 1, until |-> until]
    BY <1>2 DEF LeaseOf, Leased, Row
  <1>6. Leases' = [Leases EXCEPT ![t] = [token |-> minted + 1, until |-> until]]
    BY <1>2, <1>4, <1>5, OneLeaseMoves DEF Sqlite
  <1>7. Leases[t].token # 0 => Leases[t].until <= now
    BY <1>2, <1>3, LapsedLease DEF ClaimNext, Eligible, Sqlite, Base
  <1>8. /\ minted < MaxTokens /\ minted' = minted + 1
        /\ told' = [told EXCEPT ![minted + 1] = until] /\ now' = now
    BY DEF ClaimNext
  <1> HIDE DEF until
  <1> QED BY <1>3, <1>6, <1>7, <1>8 DEF Contract!Take, Contract!Free

\* A renewal extends the lease.
LEMMA RenewExtends ==
  ASSUME Sqlite, NEW p \in Client, Renew(p)
  PROVE  Contract!Extend(req[p].in.task)
PROOF
  <1> DEFINE t == req[p].in.task
             until == req[p].mnow + req[p].in.ttl
  <1>1. t \in Task /\ row[t] \in Row
    BY ReadyType DEF Sqlite, Base, Renew, AllOps
  <1>2. until \in Expiries /\ req[p].in.token # 0
    BY ExpiryGiven DEF Sqlite, Base, WellFormed, WellFormedCall, Renew, Ready
  <1>3. row' = [row EXCEPT ![t] = [row[t] EXCEPT !.until = until]]
    BY Zenon DEF Renew
  <1>4. row[t].token = req[p].in.token
    BY DEF Renew, HeldUnder
  <1>5. Leases' = [Leases EXCEPT ![t] = LeaseOf([row[t] EXCEPT !.until = until])]
    BY <1>1, <1>3, OneLeaseMoves DEF Sqlite
  <1>6. Leases[t] = [token |-> row[t].token, until |-> row[t].until]
    BY <1>1 DEF Leases
  <1>7. LeaseOf([row[t] EXCEPT !.until = until]) = [Leases[t] EXCEPT !.until = until]
    BY <1>1, <1>6 DEF LeaseOf, Row
  <1>8. told' = [told EXCEPT ![Leases[t].token] = until] /\ UNCHANGED <<now, minted>>
    BY <1>4, <1>6 DEF Renew
  <1>9. Leases' = [Leases EXCEPT ![t].until = until]
    BY <1>5, <1>7, Zenon
  <1>10. Leases[t].token # 0
    BY <1>2, <1>4, <1>6
  <1> HIDE DEF until
  <1> QED BY Zenon, <1>2, <1>8, <1>9, <1>10 DEF Contract!Extend

\* Clearing the lease columns of a row ends its lease.
LEMMA ClearingEnds ==
  ASSUME NEW t \in Task, Leases[t].token # 0,
         Leases' = [Leases EXCEPT ![t] = [token |-> 0, until |-> 0]],
         told' = [told EXCEPT ![Leases[t].token] = 0], UNCHANGED <<now, minted>>
  PROVE  Contract!End(t)
BY DEF Contract!End, Contract!NoLease

\* A release and a reclaim end it.
LEMMA ReleaseEnds ==
  ASSUME Sqlite, NEW p \in Client, Release(p)
  PROVE  Contract!End(req[p].in.task)
PROOF
  <1> DEFINE t == req[p].in.task
             none == [token |-> 0, until |-> 0]
  <1>1. t \in Task /\ row[t] \in Row
    BY ReadyType DEF Sqlite, Base, Release, AllOps
  <1>2. row[t].token = req[p].in.token /\ req[p].in.token # 0
    BY DEF Sqlite, Base, WellFormed, WellFormedCall, Release, Ready, HeldUnder
  <1>3. Leases' = [Leases EXCEPT ![t] = none]
    <2>1. Unclaim(row[t]) \in Row /\ LeaseOf(Unclaim(row[t])) = none
      BY <1>1, UnclaimType, WrittenLease DEF LeaseOf
    <2>2. CASE req[p].in.to = NoStatus
      BY <1>1, <2>1, <2>2, OneLeaseMoves DEF Release, Finalizes, Sqlite
    <2>3. CASE req[p].in.to # NoStatus
      <3>1. Released(p) \in Row
        BY <2>3, MovedType DEF Release, Sqlite, Base
      <3>2. LeaseOf(WriteFields(Unclaim(row[t]), Released(p))) = none
        BY <1>1, <2>1, <3>1, WrittenLease DEF LeaseOf
      <3>3. row' = [row EXCEPT ![t] = WriteFields(Unclaim(row[t]), Released(p))]
        BY <2>3 DEF Release, Finalizes
      <3> QED BY <1>1, <3>2, <3>3, OneLeaseMoves DEF Sqlite
    <2> QED BY <2>2, <2>3
  <1>4. Leases[t].token = row[t].token
    BY <1>1 DEF Leases
  <1>5. told' = [told EXCEPT ![Leases[t].token] = 0] /\ UNCHANGED <<now, minted>>
    BY <1>2, <1>4 DEF Release
  <1> QED BY <1>1, <1>2, <1>3, <1>4, <1>5, ClearingEnds

LEMMA ReclaimEnds ==
  ASSUME Sqlite, NEW p \in Client, Reclaim(p)
  PROVE  Contract!End(req[p].in.task)
PROOF
  <1> DEFINE t == req[p].in.task
  <1>1. t \in Task /\ row[t] \in Row
    BY ReadyType DEF Sqlite, Base, Reclaim, AllOps
  <1>2. LeaseOf(Unclaim(row[t])) = [token |-> 0, until |-> 0]
    BY <1>1, WrittenLease DEF LeaseOf
  <1>3. row' = [row EXCEPT ![t] = Unclaim(row[t])]
    BY DEF Reclaim
  <1>4. Leases' = [Leases EXCEPT ![t] = [token |-> 0, until |-> 0]]
    BY <1>1, <1>2, <1>3, OneLeaseMoves DEF Sqlite
  <1>5. Leases[t].token = row[t].token /\ row[t].token # 0
    BY <1>1 DEF Leases, Reclaim, Live
  <1>6. told' = [told EXCEPT ![Leases[t].token] = 0] /\ UNCHANGED <<now, minted>>
    BY <1>5 DEF Reclaim
  <1>7. Leases[t].token # 0
    BY <1>5
  <1> QED BY <1>1, <1>4, <1>6, <1>7, ClearingEnds

\* The guard of a lease-bound write moves no lease: on one writer the expiry it
\* writes back is the one the row has.
LEMMA GuardKeepsLease ==
  ASSUME Sqlite, Engine = "sqlite", NEW p \in Client,
         Ready(p, "transition") \/ Ready(p, "artifact")
  PROVE  LET r == row[req[p].in.task] IN
         /\ Guarded(p, r).token = r.token
         /\ Guarded(p, r).until = r.until
PROOF
  <1>1. req[p].in.task \in Task /\ row[req[p].in.task] \in Row
    BY ReadyType DEF Sqlite, Base, AllOps
  <1>2. req[p].task = row[req[p].in.task]
    BY DEF Sqlite, ChecksStillHold, Ready, Blind
  <1> QED BY <1>1, <1>2 DEF Guarded, Row

\* Calls that take, extend and end no lease are stutters.
LEMMA OthersStutter ==
  ASSUME Sqlite, Engine = "sqlite", NEW p \in Client,
         Transition(p) \/ Artifact(p) \/ Edit(p) \/ Delete(p)
           \/ Restore(p) \/ Snooze(p) \/ Unsnooze(p)
  PROVE  LeaseStutter
PROOF
  <1> DEFINE t == req[p].in.task
  <1>1. CASE Transition(p)
    <2>1. t \in Task /\ row[t] \in Row
      BY <1>1, ReadyType DEF Sqlite, Base, Transition, AllOps
    <2>2. Guarded(p, row[t]) \in Row /\ Moved(p) \in Row
      BY <1>1, <2>1, GuardedType, MovedType
         DEF Transition, Sqlite, Base, WellFormed, WellFormedCall, Ready
    <2>3. Guarded(p, row[t]).token = row[t].token /\ Guarded(p, row[t]).until = row[t].until
      BY <1>1, GuardKeepsLease DEF Transition
    <2> DEFINE new == WriteFields(Guarded(p, row[t]), Moved(p))
    <2>4. new.token = row[t].token /\ new.until = row[t].until
      BY <2>2, <2>3, WrittenLease
    <2>5. row' = [row EXCEPT ![t] = new]
      BY <1>1 DEF Transition
    <2>6. UNCHANGED <<now, minted, told>>
      BY <1>1 DEF Transition
    <2> HIDE DEF new
    <2> QED BY <2>1, <2>4, <2>5, <2>6, LeaseKept DEF Sqlite
  <1>2. CASE Artifact(p)
    <2>1. t \in Task /\ UNCHANGED <<now, minted, told>>
      BY <1>2, RowOnlyCall DEF Sqlite, Base
    <2>2. Guarded(p, row[t]).token = row[t].token /\ Guarded(p, row[t]).until = row[t].until
      BY <1>2, GuardKeepsLease DEF Artifact
    <2>3. row' = [row EXCEPT ![t] = Guarded(p, row[t])]
      BY <1>2 DEF Artifact
    <2> QED BY <2>1, <2>2, <2>3, LeaseKept DEF Sqlite
  <1>3. CASE Edit(p)
    <2>1. t \in Task /\ row[t] \in Row /\ UNCHANGED <<now, minted, told>>
      BY <1>3, RowOnlyCall DEF Sqlite, Base
    <2>2. req[p].task \in Row
      BY <1>3, ReadyType DEF Sqlite, Base, Edit, AllOps
    <2> DEFINE new == WriteFields(row[t], req[p].task)
    <2>3. new.token = row[t].token /\ new.until = row[t].until
      BY <2>1, <2>2, WrittenLease
    <2>4. row' = [row EXCEPT ![t] = new]
      BY <1>3, Zenon DEF Edit
    <2> HIDE DEF new
    <2> QED BY <2>1, <2>3, <2>4, LeaseKept DEF Sqlite
  <1>4. CASE Delete(p) \/ Restore(p)
    <2>1. t \in Task /\ row[t] \in Row /\ UNCHANGED <<now, minted, told>>
      BY <1>4, RowOnlyCall DEF Sqlite, Base
    <2>2. PICK d \in BOOLEAN : row' = [row EXCEPT ![t] = [row[t] EXCEPT !.deleted = d]]
      BY <1>4, DeletedRow
    <2>3. /\ [row[t] EXCEPT !.deleted = d].token = row[t].token
          /\ [row[t] EXCEPT !.deleted = d].until = row[t].until
      BY <2>1, ColumnWritten
    <2> QED BY <2>1, <2>2, <2>3, LeaseKept DEF Sqlite
  <1>5. CASE Snooze(p) \/ Unsnooze(p)
    <2>1. t \in Task /\ row[t] \in Row /\ UNCHANGED <<now, minted, told>>
      BY <1>5, RowOnlyCall DEF Sqlite, Base
    <2>2. PICK w \in Nat : row' = [row EXCEPT ![t] = [row[t] EXCEPT !.wake = w]]
      BY <1>5, SnoozedRow DEF Sqlite, Base
    <2>3. /\ [row[t] EXCEPT !.wake = w].token = row[t].token
          /\ [row[t] EXCEPT !.wake = w].until = row[t].until
      BY <2>1, ColumnWritten
    <2> QED BY <2>1, <2>2, <2>3, LeaseKept DEF Sqlite
  <1> QED BY <1>1, <1>2, <1>3, <1>4, <1>5

\* A sweep clears leases that lapsed, and only those.
LEMMA SweepClears ==
  ASSUME Sqlite, Sweep
  PROVE  \E S \in SUBSET Task : Contract!Clear(S)
PROOF
  <1> DEFINE S == {t \in req[Sweeper].due : Lapsed(t)}
             listed == req[Sweeper].tasks
  <1>1. req[Sweeper] \in Listed
    BY ListedKind DEF Sweep, Ready, SweepOps, Sqlite, Base
  <1>2. S \subseteq Task /\ listed \in [Task -> Row] /\ req[Sweeper].mnow <= now
    BY <1>1 DEF Listed, Sqlite, Base, Clocks
  <1>3. \A t \in Task :
          /\ Reverted(Expired(row[t], listed[t])).token = 0
          /\ Reverted(Expired(row[t], listed[t])).until = 0
    <2> SUFFICES ASSUME NEW t \in Task
                 PROVE  /\ Reverted(Expired(row[t], listed[t])).token = 0
                        /\ Reverted(Expired(row[t], listed[t])).until = 0
      OBVIOUS
    <2> DEFINE e == Expired(row[t], listed[t])
    <2>1. e \in Row /\ e.token = 0 /\ e.until = 0
      <3>1. row[t] \in Row /\ listed[t] \in Row
        BY <1>2 DEF Sqlite, Base, TypeOK
      <3>2. Unclaim(row[t]) \in Row /\ Unclaim(row[t]).token = 0 /\ Unclaim(row[t]).until = 0
        BY <3>1, UnclaimType, WrittenLease
      <3> QED BY <3>1, <3>2 DEF Expired, Row
    <2>2. [e EXCEPT !.status = RevertTo[e.status]] \in Row
      BY <2>1, WorkflowAssumption DEF Row
    <2> HIDE DEF e
    <2>3. Reverted(e).token = 0 /\ Reverted(e).until = 0
      BY <2>1, <2>2, WrittenLease DEF Reverted
    <2> QED BY <2>3 DEF e
  <1>4. Leases' = [t \in Task |-> IF t \in S THEN [token |-> 0, until |-> 0] ELSE Leases[t]]
    BY <1>3 DEF Sweep, Leases
  <1>5. \A t \in S : Leases[t].until <= now
    <2> SUFFICES ASSUME NEW t \in S PROVE Leases[t].until <= now
      OBVIOUS
    <2>1. t \in Task /\ row[t].until <= req[Sweeper].mnow
      BY <1>2 DEF Lapsed
    <2>2. row[t].until \in Nat /\ req[Sweeper].mnow \in Nat /\ now \in Nat
      BY <1>1, <2>1, BoundAssumption DEF Listed, Row, Sqlite, Base, TypeOK
    <2> QED BY <1>2, <2>1, <2>2 DEF Leases
  <1> HIDE DEF S
  <1>6. Contract!Clear(S)
    BY <1>4, <1>5 DEF Contract!Clear, Contract!NoLease, Sweep
  <1> QED BY <1>2, <1>6

\* A step of the transactions is a step of the contract, or none.
LEMMA StepImplements ==
  ASSUME Sqlite, Engine = "sqlite", ~OwnLease, [Next]_vars
  PROVE  Contract!Next \/ LeaseStutter
PROOF
  <1>1. CASE Tick
    BY <1>1 DEF Tick, Contract!Next, Contract!Tick, Leases
  <1>2. ASSUME NEW p \in Client, Claim(p) \/ ClaimNext(p) \/ Renew(p)
                                    \/ Release(p) \/ Reclaim(p)
        PROVE  Contract!Next
    <2>1. req[p].in.task \in Task
      <3>1. CASE ClaimNext(p)
        BY <3>1, OpenKind DEF ClaimNext, Opened, Input, SweepCall, SweepOps, Sqlite, Base
      <3>2. CASE Claim(p) \/ Renew(p) \/ Release(p) \/ Reclaim(p)
        <4>1. PICK op \in AllOps : Ready(p, op)
          BY <3>2, Zenon DEF Claim, Renew, Release, Reclaim, AllOps
        <4> QED BY <4>1, ReadyType DEF Sqlite, Base
      <3> QED BY <1>2, <3>1, <3>2
    <2>2. \/ Contract!Take(req[p].in.task)
          \/ Contract!Extend(req[p].in.task)
          \/ Contract!End(req[p].in.task)
      BY <1>2, ClaimTakes, ClaimNextTakes, RenewExtends, ReleaseEnds, ReclaimEnds
    <2> QED BY <2>1, <2>2 DEF Contract!Next
  <1>3. ASSUME NEW p \in Client, Finish(p) PROVE Contract!Next \/ LeaseStutter
    BY <1>2, <1>3, OthersStutter DEF Finish
  <1>4. ASSUME NEW p \in Client, Begin(p) \/ Read(p) PROVE LeaseStutter
    BY <1>4 DEF Begin, Open, Read, LeaseStutter, Leases
  <1>5. ASSUME NEW op \in SweepOps, BeginSweep(op) \/ List(op) PROVE LeaseStutter
    BY <1>5 DEF BeginSweep, Open, List, LeaseStutter, Leases
  <1>6. CASE Sweep
    BY <1>6, SweepClears DEF Contract!Next
  <1>7. CASE WakeSnoozed
    <2>1. \A t \in Task : row'[t].token = row[t].token /\ row'[t].until = row[t].until
      BY <1>7 DEF WakeSnoozed, Sqlite, Base, TypeOK, Row
    <2> QED BY <1>7, <2>1 DEF WakeSnoozed, LeaseStutter, Leases
  <1>8. ASSUME NEW p \in Proc, Abort(p) PROVE LeaseStutter
    BY <1>8 DEF Abort, LeaseStutter, Leases
  <1>9. CASE UNCHANGED vars
    BY <1>9 DEF vars, LeaseStutter, Leases
  <1> QED BY <1>1, <1>3, <1>4, <1>5, <1>6, <1>7, <1>8, <1>9 DEF Next

\* On the single writer, where no level names a lease length of its own, the
\* interleaved transactions of the lease calls implement the one-step calls that
\* store.Tx promises.
THEOREM SqliteImplementsContract ==
  ASSUME Engine = "sqlite", ~OwnLease
  PROVE  Spec => ImplementsContract
PROOF
  <1>1. Init => Contract!Init
    BY DEF Init, Contract!Init, Contract!NoLease, Contract!Token, Leases, NewRow
  <1>2. Sqlite /\ [Next]_vars => [Contract!Next]_(Contract!vars)
    BY StepImplements DEF LeaseStutter, Contract!vars
  <1> QED BY <1>1, <1>2, SpecKeepsSqlite, PTL DEF Spec, ImplementsContract, Contract!Spec

\* What is proved of the contract, read through the refinement mapping.
Promise == INSTANCE LeaseContract_proofs WITH lease <- Leases, Expiry <- Expiries

\* So a worker that was told its lease runs past now holds it, with exactly the
\* expiry it was told.
THEOREM SqliteToldIsStored ==
  ASSUME Engine = "sqlite", ~OwnLease
  PROVE  Spec => []ToldIsStored
PROOF
  <1>1. Spec => Promise!Spec
    <2>1. Contract!Init => Promise!Init
      BY DEF Contract!Init, Promise!Init, Contract!NoLease, Promise!NoLease, Contract!Token, Promise!Token
    <2>2. [Contract!Next]_(Contract!vars) => [Promise!Next]_(Promise!vars)
      BY Zenon
         DEF Contract!vars, Promise!vars, Contract!Next, Promise!Next,
             Contract!Tick, Promise!Tick, Contract!Take, Promise!Take,
             Contract!Free, Promise!Free,
             Contract!Extend, Promise!Extend, Contract!End, Promise!End,
             Contract!Clear, Promise!Clear, Contract!NoLease, Promise!NoLease
    <2> QED BY <2>1, <2>2, SqliteImplementsContract, PTL
            DEF ImplementsContract, Contract!Spec, Promise!Spec
  <1>2. Expiries \subseteq Nat
    BY BoundAssumption, TTLAssumption DEF Expiries
  <1>3. MaxTime \in Nat /\ MaxTokens \in Nat
    BY BoundAssumption
  <1>4. Promise!Spec => []Promise!ToldIsStored
    BY <1>2, <1>3, Promise!ContractToldIsStored
  <1>5. Promise!ToldIsStored => ToldIsStored
    BY DEF Promise!ToldIsStored, ToldIsStored, Leases, Promise!Token
  <1> QED BY <1>1, <1>4, <1>5, PTL
-----------------------------------------------------------------------------
(* What else the single writer makes safe: each check is made in time *)

\* What a client's transaction loaded and checked, at the step that ends it.
LEMMA CheckedNow ==
  ASSUME Sqlite, Engine = "sqlite", NEW p \in Client, NEW op \in AllOps, Ready(p, op)
  PROVE  /\ req[p].in.task \in Task /\ row[req[p].in.task] \in Row
         /\ Checks(row[req[p].in.task], req[p].in, req[p].mnow)
         /\ op \notin Blind => req[p].task = row[req[p].in.task]
         /\ req[p].mnow \in Nat /\ now \in Nat /\ req[p].mnow <= now
PROOF
  <1>1. req[p].in.task \in Task /\ row[req[p].in.task] \in Row /\ req[p].mnow \in Nat
    BY ReadyType DEF Sqlite, Base
  <1>2. /\ Checks(row[req[p].in.task], req[p].in, req[p].mnow)
        /\ op \notin Blind => req[p].task = row[req[p].in.task]
    BY DEF Sqlite, ChecksStillHold, Ready
  <1>3. req[p].mnow <= now /\ now \in Nat
    BY BoundAssumption DEF Sqlite, Base, TypeOK, Clocks, Ready
  <1> QED BY <1>1, <1>2, <1>3

\* No lease is ever taken on a finished, deleted or still snoozed task
\* (service.ClaimTask's checks against a concurrent finish, delete or snooze).
THEOREM SqliteNeverClaimsFinished ==
  ASSUME Engine = "sqlite"
  PROVE  Spec => FinishedIsNeverClaimed
PROOF
  <1> DEFINE Free(t) == row[t].status \notin Terminal /\ ~row[t].deleted /\ ~Asleep(row[t], now)
             Kept == \A t \in Task :
               row'[t].token \notin {0, row[t].token} =>
                 /\ row[t].status \notin Terminal
                 /\ ~row[t].deleted
                 /\ ~Asleep(row[t], now)
  <1>1. Sqlite /\ [Next]_vars => [Kept]_vars
    <2> SUFFICES ASSUME Sqlite, Next, NEW t \in Task, row'[t].token \notin {0, row[t].token}
                 PROVE  Free(t)
      OBVIOUS
    <2>1. row' # row /\ row[t] \in Row
      BY DEF Sqlite, Base, TypeOK
    <2>2. ASSUME NEW p \in Client, Claim(p) PROVE Free(t)
      <3>1. t = req[p].in.task
        BY <2>2 DEF Claim, Sqlite, Base, TypeOK
      <3>2. Ready(p, "claim")
        BY <2>2 DEF Claim
      <3>3. ClaimChecks(row[t], req[p].in, req[p].mnow)
        <4>1. Checks(row[t], req[p].in, req[p].mnow)
          BY <3>1, <3>2, CheckedNow DEF AllOps
        <4>2. req[p].in.op = "claim"
          BY <3>2 DEF Ready
        <4> HIDE DEF Free
        <4> QED BY <4>1, <4>2 DEF Checks
      <3>4. req[p].mnow \in Nat /\ now \in Nat /\ req[p].mnow <= now
        BY <3>2, CheckedNow DEF AllOps
      <3> QED BY <2>1, <3>3, <3>4 DEF ClaimChecks, Asleep, Row
    <2>3. ASSUME NEW p \in Client, ClaimNext(p) PROVE Free(t)
      <3>1. t = req[p].in.task
        BY <2>3 DEF ClaimNext, Sqlite, Base, TypeOK
      <3>2. Eligible(t, req[p].mnow) /\ req[p] \in Opened /\ req[p].pc # "idle"
        BY <2>3, <3>1, OpenKind DEF ClaimNext, Sqlite, Base
      <3>3. req[p].mnow \in Nat /\ now \in Nat /\ req[p].mnow <= now
        BY <3>2, BoundAssumption DEF Opened, Sqlite, Base, TypeOK, Clocks
      <3> QED BY <2>1, <3>2, <3>3 DEF Eligible, Asleep, Row
    <2>4. ASSUME NEW p \in Client, Release(p) \/ Reclaim(p) PROVE FALSE
      <3>1. Contract!End(req[p].in.task)
        BY <2>4, ReleaseEnds, ReclaimEnds
      <3>2. Leases'[t].token \in {0, Leases[t].token}
        BY <3>1 DEF Contract!End, Contract!NoLease, Leases
      <3> QED BY <3>2 DEF Leases
    <2>5. ASSUME Sweep PROVE FALSE
      <3>1. PICK S \in SUBSET Task : Contract!Clear(S)
        BY <2>5, SweepClears
      <3>2. Leases'[t].token \in {0, Leases[t].token}
        BY <3>1 DEF Contract!Clear, Contract!NoLease, Leases
      <3> QED BY <3>2 DEF Leases
    <2>6. ASSUME WakeSnoozed PROVE FALSE
      BY <2>6, <2>1 DEF WakeSnoozed, Row
    <2>7. ASSUME NEW p \in Client, Finish(p) PROVE Free(t)
      BY <2>7, <2>2, <2>3, <2>4, TokensKept DEF Finish, Sqlite
    <2>8. ASSUME NEW p \in Client, Begin(p) \/ Read(p) PROVE FALSE
      BY <2>8, <2>1 DEF Begin, Open, Read
    <2>9. ASSUME NEW op \in SweepOps, BeginSweep(op) \/ List(op) PROVE FALSE
      BY <2>9, <2>1 DEF BeginSweep, Open, List
    <2>10. ASSUME NEW p \in Proc, Abort(p) PROVE FALSE
      BY <2>10, <2>1 DEF Abort
    <2>11. ASSUME Tick PROVE FALSE
      BY <2>11, <2>1 DEF Tick
    <2> HIDE DEF Free
    <2> QED BY Zenon, <2>5, <2>6, <2>7, <2>8, <2>9, <2>10, <2>11 DEF Next
  <1> QED BY <1>1, SpecKeepsSqlite, PTL DEF Spec, FinishedIsNeverClaimed

\* An edit or transition that names a version lands on that version.
THEOREM SqliteVersionsAreCurrent ==
  ASSUME Engine = "sqlite"
  PROVE  Spec => VersionedWritesAreCurrent
PROOF
  <1> DEFINE Kept == \A p \in Client :
               (Transition(p) \/ Edit(p)) /\ req[p].in.version # 0 =>
                 req[p].in.version = row[req[p].in.task].version
  <1>1. Sqlite => Kept
    <2> SUFFICES ASSUME Sqlite, NEW p \in Client, Ready(p, "transition") \/ Ready(p, "edit"),
                        req[p].in.version # 0
                 PROVE  req[p].in.version = row[req[p].in.task].version
      BY Zenon DEF Transition, Edit
    <2>1. Checks(row[req[p].in.task], req[p].in, req[p].mnow)
      BY CheckedNow DEF AllOps
    <2>2. CASE Ready(p, "transition")
      <3>1. TransitionChecks(row[req[p].in.task], req[p].in, req[p].mnow)
        BY <2>1, <2>2 DEF Checks, Ready
      <3> QED BY <3>1 DEF TransitionChecks, VersionCheck
    <2>3. CASE Ready(p, "edit")
      <3>1. EditChecks(row[req[p].in.task], req[p].in, req[p].mnow)
        BY <2>1, <2>3 DEF Checks, Ready
      <3> QED BY <3>1 DEF EditChecks, VersionCheck
    <2> QED BY <2>2, <2>3
  <1> QED BY <1>1, SpecKeepsSqlite, PTL DEF VersionedWritesAreCurrent

\* A transition or an artifact that lands on a task under a live lease was made
\* with that lease's token.
THEOREM SqliteLeaseBoundWrites ==
  ASSUME Engine = "sqlite"
  PROVE  Spec => LeaseBoundWritesHoldTheLease
PROOF
  <1> DEFINE Kept == \A p \in Client :
               (Transition(p) \/ Artifact(p)) /\ Live(row[req[p].in.task], now) =>
                 req[p].in.token = row[req[p].in.task].token
  <1>1. Sqlite => Kept
    <2> SUFFICES ASSUME Sqlite, NEW p \in Client, Transition(p) \/ Artifact(p),
                        Live(row[req[p].in.task], now)
                 PROVE  req[p].in.token = row[req[p].in.task].token
      OBVIOUS
    <2>1. Ready(p, "transition") \/ Ready(p, "artifact")
      <3>1. CASE Transition(p)  BY <3>1 DEF Transition
      <3>2. CASE Artifact(p)  BY <3>2 DEF Artifact
      <3> QED BY <3>1, <3>2
    <2>2. /\ req[p].task = row[req[p].in.task] /\ row[req[p].in.task] \in Row
          /\ req[p].mnow \in Nat /\ now \in Nat /\ req[p].mnow <= now
      BY <2>1, CheckedNow DEF AllOps, Blind
    <2>3. Live(req[p].task, req[p].mnow)
      BY <2>2 DEF Live, Row
    <2>4. TokenStands(p)
      <3>1. CASE Transition(p)  BY <3>1 DEF Transition
      <3>2. CASE Artifact(p)  BY <3>2 DEF Artifact
      <3> QED BY <3>1, <3>2
    <2> QED BY <2>3, <2>4 DEF TokenStands, HeldUnder
  <1> QED BY <1>1, SpecKeepsSqlite, PTL DEF LeaseBoundWritesHoldTheLease

\* An administrator ends the lease the call was looking at.
THEOREM SqliteReclaimsTheLeaseRead ==
  ASSUME Engine = "sqlite"
  PROVE  Spec => ReclaimTakesTheLeaseRead
PROOF
  <1>1. Sqlite => \A p \in Client :
          Reclaim(p) => row[req[p].in.task].token = req[p].task.token
    BY CheckedNow DEF Reclaim, AllOps, Blind
  <1> QED BY <1>1, SpecKeepsSqlite, PTL DEF ReclaimTakesTheLeaseRead
-----------------------------------------------------------------------------
(* What the calls write, on either engine *)

\* The part of a row that UpdateTask writes.
Fields(r) == <<r.status, r.completed, r.successor>>

\* The columns each writer of a row writes, and those it keeps.
LEMMA FieldsWritten ==
  ASSUME NEW r \in Row, NEW task \in Row
  PROVE  LET new == WriteFields(r, task) IN
         /\ Fields(new) = Fields(task)
         /\ new.token = r.token /\ new.holder = r.holder /\ new.wake = r.wake
         /\ new.expiredBy = r.expiredBy
BY DEF WriteFields, Fields, Row

LEMMA ClaimCleared ==
  ASSUME NEW r \in Row
  PROVE  /\ Fields(Unclaim(r)) = Fields(r)
         /\ Unclaim(r).token = 0 /\ Unclaim(r).wake = r.wake
BY DEF Unclaim, Fields, Row

LEMMA LeaseWritten ==
  ASSUME NEW r \in Row, NEW p \in Client, NEW k, NEW until
  PROVE  LET new == Leased(r, p, k, until) IN
         Fields(new) = Fields(r) /\ new.holder = p /\ new.wake = r.wake
BY DEF Leased, Fields, Row

LEMMA ExpiryWritten ==
  ASSUME NEW r \in Row, NEW w
  PROVE  LET new == [r EXCEPT !.until = w] IN
         /\ Fields(new) = Fields(r)
         /\ new.token = r.token /\ new.holder = r.holder /\ new.wake = r.wake
BY DEF Fields, Row

LEMMA GuardWritten ==
  ASSUME NEW p \in Client, NEW r \in Row
  PROVE  LET new == Guarded(p, r) IN
         /\ Fields(new) = Fields(r)
         /\ new.token = r.token /\ new.holder = r.holder /\ new.wake = r.wake
<1> DEFINE later == [r EXCEPT !.until = req[p].task.until]
<1>1. Guarded(p, r) = r \/ Guarded(p, r) = later
  BY DEF Guarded
<1>2. /\ Fields(later) = Fields(r)
      /\ later.token = r.token /\ later.holder = r.holder /\ later.wake = r.wake
  BY ExpiryWritten
<1> HIDE DEF later
<1>3. CASE Guarded(p, r) = r  BY <1>3
<1>4. CASE Guarded(p, r) = later  BY <1>2, <1>4
<1> QED BY <1>1, <1>3, <1>4

LEMMA MarkWritten ==
  ASSUME NEW r \in Row, NEW d \in BOOLEAN
  PROVE  LET new == [r EXCEPT !.deleted = d] IN
         /\ Fields(new) = Fields(r)
         /\ new.token = r.token /\ new.holder = r.holder /\ new.wake = r.wake
BY DEF Fields, Row

LEMMA WakeWritten ==
  ASSUME NEW r \in Row, NEW w \in Nat
  PROVE  LET new == [r EXCEPT !.wake = w] IN
         /\ Fields(new) = Fields(r)
         /\ new.token = r.token /\ new.holder = r.holder
BY DEF Fields, Row

\* What a call may have put in the row of its task.
Wrote(p, new) ==
  LET r == row[req[p].in.task] IN
  /\ new.wake = r.wake \/ Snooze(p) \/ Unsnooze(p)
  /\ new.token = 0 \/ new.holder = p \/ (new.token = r.token /\ new.holder = r.holder)
  /\ \/ Fields(new) = Fields(r) /\ UNCHANGED spawned
     \/ Ready(p, "edit") /\ Fields(new) = Fields(req[p].task) /\ UNCHANGED spawned
     \/ Ready(p, "transition") /\ Fields(new) = Fields(Moved(p)) /\ CountSpawn(p)
     \/ /\ Ready(p, "release") /\ Finalizes(p)
        /\ Fields(new) = Fields(Released(p)) /\ CountSpawn(p)

\* A call writes the row of its task, and in it the columns that are its own.
LEMMA CallWrites ==
  ASSUME Base, NEW p \in Client, Finish(p)
  PROVE  /\ req[p].in.task \in Task
         /\ \E new \in Row : row' = [row EXCEPT ![req[p].in.task] = new] /\ Wrote(p, new)
<1> DEFINE t == req[p].in.task
<1>0. TypeOK  BY DEF Base
<1>a. TypeOK'  BY FinishKeepsBase DEF Base
<1> SUFFICES /\ t \in Task /\ row[t] \in Row
             /\ \E new : row' = [row EXCEPT ![t] = new] /\ Wrote(p, new)
  <2> SUFFICES ASSUME t \in Task, NEW new, row' = [row EXCEPT ![t] = new], Wrote(p, new)
               PROVE  new \in Row
    OBVIOUS
  <2>1. row'[t] = new  BY <1>0 DEF TypeOK
  <2> QED BY <1>a, <2>1 DEF TypeOK
<1>1. CASE Claim(p)
  <2>1. t \in Task /\ row[t] \in Row  BY <1>0, <1>1, ReadyType DEF Claim, AllOps
  <2> DEFINE new == Leased(row[t], p, minted + 1, req[p].mnow + req[p].in.ttl)
  <2>2. row' = [row EXCEPT ![t] = new] /\ spawned' = spawned  BY <1>1 DEF Claim
  <2>3. Wrote(p, new)
    <3>1. Fields(new) = Fields(row[t]) /\ new.holder = p /\ new.wake = row[t].wake
      BY <2>1, LeaseWritten
    <3> HIDE DEF new
    <3> QED BY <2>2, <3>1 DEF Wrote
  <2> HIDE DEF new
  <2> QED BY <2>1, <2>2, <2>3
<1>2. CASE ClaimNext(p)
  <2>1. t \in Task /\ row[t] \in Row
    BY <1>0, <1>2, OpenKind DEF ClaimNext, Opened, Input, SweepCall, SweepOps, TypeOK
  <2>a. PICK until : row' = [row EXCEPT ![t] = Leased(row[t], p, minted + 1, until)]
    BY <1>2 DEF ClaimNext
  <2> DEFINE new == Leased(row[t], p, minted + 1, until)
  <2>2. row' = [row EXCEPT ![t] = new]  BY <2>a
  <2>3. spawned' = spawned  BY <1>2 DEF ClaimNext
  <2>4. Wrote(p, new)
    <3>1. Fields(new) = Fields(row[t]) /\ new.holder = p /\ new.wake = row[t].wake
      BY <2>1, LeaseWritten
    <3> HIDE DEF new
    <3> QED BY <2>3, <3>1 DEF Wrote
  <2> HIDE DEF new
  <2> QED BY <2>1, <2>2, <2>4 DEF new
<1>3. CASE Renew(p)
  <2>1. t \in Task /\ row[t] \in Row  BY <1>0, <1>3, RenewedRow
  <2>a. PICK w \in Nat : row' = [row EXCEPT ![t] = [row[t] EXCEPT !.until = w]]
    BY <1>0, <1>3, RenewedRow
  <2> DEFINE new == [row[t] EXCEPT !.until = w]
  <2>2. row' = [row EXCEPT ![t] = new] /\ spawned' = spawned  BY <1>3, <2>a DEF Renew
  <2>3. /\ Fields(new) = Fields(row[t]) /\ new.wake = row[t].wake
        /\ new.token = row[t].token /\ new.holder = row[t].holder
    BY <2>1, ExpiryWritten
  <2> HIDE DEF new
  <2>4. Wrote(p, new)  BY <2>2, <2>3 DEF Wrote
  <2> QED BY <2>1, <2>2, <2>4
<1>4. CASE Release(p)
  <2>1. t \in Task /\ row[t] \in Row  BY <1>0, <1>4, ReadyType DEF Release, AllOps
  <2>2. Unclaim(row[t]) \in Row  BY <2>1, UnclaimType
  <2>3. CASE Finalizes(p)
    <3>1. Ready(p, "release") /\ Released(p) \in Row
      BY <1>0, <1>4, <2>3, MovedType DEF Release, Finalizes
    <3> DEFINE new == WriteFields(Unclaim(row[t]), Released(p))
    <3>2. row' = [row EXCEPT ![t] = new] /\ CountSpawn(p)  BY <1>4, <2>3 DEF Release
    <3>3. Fields(new) = Fields(Released(p)) /\ new.token = 0 /\ new.wake = row[t].wake
      BY <2>1, <2>2, <3>1, FieldsWritten, ClaimCleared
    <3> HIDE DEF new
    <3>4. Wrote(p, new)  BY <2>3, <3>1, <3>2, <3>3 DEF Wrote
    <3> QED BY <2>1, <3>2, <3>4
  <2>4. CASE ~Finalizes(p)
    <3>1. row' = [row EXCEPT ![t] = Unclaim(row[t])] /\ spawned' = spawned
      BY <1>4, <2>4 DEF Release
    <3>2. Wrote(p, Unclaim(row[t]))  BY <2>1, <3>1, ClaimCleared DEF Wrote
    <3> QED BY <2>1, <3>1, <3>2
  <2> QED BY <2>3, <2>4
<1>5. CASE Transition(p)
  <2>1. t \in Task /\ row[t] \in Row  BY <1>0, <1>5, ReadyType DEF Transition, AllOps
  <2>2. Ready(p, "transition") /\ req[p].in.to # NoStatus
    BY <1>5 DEF Transition, Base, WellFormed, WellFormedCall, Ready
  <2>3. Guarded(p, row[t]) \in Row /\ Moved(p) \in Row
    BY <1>0, <2>1, <2>2, GuardedType, MovedType
  <2> DEFINE new == WriteFields(Guarded(p, row[t]), Moved(p))
  <2>4. row' = [row EXCEPT ![t] = new] /\ CountSpawn(p)  BY <1>5 DEF Transition
  <2>5. /\ Fields(new) = Fields(Moved(p)) /\ new.wake = row[t].wake
        /\ new.token = row[t].token /\ new.holder = row[t].holder
    BY <2>1, <2>3, FieldsWritten, GuardWritten
  <2> HIDE DEF new
  <2>6. Wrote(p, new)  BY <2>2, <2>4, <2>5 DEF Wrote
  <2> QED BY <2>1, <2>4, <2>6
<1>6. CASE Artifact(p)
  <2>1. t \in Task /\ row[t] \in Row /\ spawned' = spawned  BY <1>0, <1>6, RowOnlyCall
  <2>2. row' = [row EXCEPT ![t] = Guarded(p, row[t])]  BY <1>6 DEF Artifact
  <2> DEFINE new == Guarded(p, row[t])
  <2>3. /\ Fields(new) = Fields(row[t]) /\ new.wake = row[t].wake
        /\ new.token = row[t].token /\ new.holder = row[t].holder
    BY <2>1, GuardWritten
  <2> HIDE DEF new
  <2>4. Wrote(p, new)  BY <2>1, <2>3 DEF Wrote
  <2> QED BY <2>1, <2>2, <2>4 DEF new
<1>7. CASE Edit(p)
  <2>1. t \in Task /\ row[t] \in Row /\ spawned' = spawned  BY <1>0, <1>7, RowOnlyCall
  <2>2. Ready(p, "edit") /\ req[p].task \in Row
    BY <1>0, <1>7, ReadyType DEF Edit, AllOps
  <2> DEFINE new == WriteFields(row[t], req[p].task)
  <2>3. row' = [row EXCEPT ![t] = new]  BY <1>7, Zenon DEF Edit
  <2>4. /\ Fields(new) = Fields(req[p].task) /\ new.wake = row[t].wake
        /\ new.token = row[t].token /\ new.holder = row[t].holder
    BY <2>1, <2>2, FieldsWritten
  <2> HIDE DEF new
  <2>5. /\ new.wake = row[t].wake
        /\ new.token = row[t].token /\ new.holder = row[t].holder
        /\ Ready(p, "edit") /\ Fields(new) = Fields(req[p].task) /\ UNCHANGED spawned
    BY <2>1, <2>2, <2>4
  <2>a. new.token = 0 \/ new.holder = p \/ (new.token = row[t].token /\ new.holder = row[t].holder)
    BY <2>5, Zenon
  <2>6. Wrote(p, new)
    <3>1. new.wake = row[t].wake \/ Snooze(p) \/ Unsnooze(p)  BY <2>5
    <3>2. /\ Ready(p, "edit") /\ Fields(new) = Fields(req[p].task) /\ UNCHANGED spawned
      BY <2>5, Zenon
    <3> QED BY <2>a, <3>1, <3>2, Zenon DEF Wrote
  <2> QED BY <2>1, <2>3, <2>6
<1>8. CASE Reclaim(p)
  <2>1. t \in Task /\ row[t] \in Row  BY <1>0, <1>8, ReadyType DEF Reclaim, AllOps
  <2>2. row' = [row EXCEPT ![t] = Unclaim(row[t])] /\ spawned' = spawned
    BY <1>8 DEF Reclaim
  <2>3. Wrote(p, Unclaim(row[t]))  BY <2>1, <2>2, ClaimCleared DEF Wrote
  <2> QED BY <2>1, <2>2, <2>3
<1>9. CASE Delete(p) \/ Restore(p)
  <2>1. t \in Task /\ row[t] \in Row /\ spawned' = spawned  BY <1>0, <1>9, RowOnlyCall
  <2>a. PICK d \in BOOLEAN : row' = [row EXCEPT ![t] = [row[t] EXCEPT !.deleted = d]]
    BY <1>9, DeletedRow
  <2> DEFINE new == [row[t] EXCEPT !.deleted = d]
  <2>2. row' = [row EXCEPT ![t] = new]  BY <2>a
  <2>3. /\ Fields(new) = Fields(row[t]) /\ new.wake = row[t].wake
        /\ new.token = row[t].token /\ new.holder = row[t].holder
    BY <2>1, MarkWritten
  <2> HIDE DEF new
  <2>4. Wrote(p, new)  BY <2>1, <2>3 DEF Wrote
  <2> QED BY <2>1, <2>2, <2>4
<1>10. CASE Snooze(p) \/ Unsnooze(p)
  <2>1. t \in Task /\ row[t] \in Row /\ spawned' = spawned  BY <1>0, <1>10, RowOnlyCall
  <2>a. PICK w \in Nat : row' = [row EXCEPT ![t] = [row[t] EXCEPT !.wake = w]]
    BY <1>0, <1>10, SnoozedRow
  <2> DEFINE new == [row[t] EXCEPT !.wake = w]
  <2>2. row' = [row EXCEPT ![t] = new]  BY <2>a
  <2>3. /\ Fields(new) = Fields(row[t])
        /\ new.token = row[t].token /\ new.holder = row[t].holder
    BY <2>1, WakeWritten
  <2> HIDE DEF new
  <2>4. Wrote(p, new)  BY <1>10, <2>1, <2>3 DEF Wrote
  <2> QED BY <2>1, <2>2, <2>4
<1> QED BY <1>1, <1>2, <1>3, <1>4, <1>5, <1>6, <1>7, <1>8, <1>9, <1>10 DEF Finish

\* What the sweep of lapsed leases does to a row: it clears the lease, names the
\* holder that was listed, and sends the task back (sweepOne).
LEMMA SweepWrites ==
  ASSUME Base, Sweep, NEW t \in Task
  PROVE  /\ row[t] \in Row
         /\ \/ row'[t] = row[t]
            \/ /\ t \in req[Sweeper].due /\ Ready(Sweeper, "sweep")
               /\ row'[t].token = 0 /\ row'[t].wake = row[t].wake
               /\ row'[t].expiredBy = req[Sweeper].tasks[t].holder
               /\ Fields(row'[t]) =
                    <<RevertTo[row[t].status], row[t].completed, row[t].successor>>
PROOF
  <1>0. TypeOK  BY DEF Base
  <1>1. row[t] \in Row  BY <1>0 DEF TypeOK
  <1>2. Ready(Sweeper, "sweep")  BY DEF Sweep
  <1> DEFINE listed == req[Sweeper].tasks[t]
             e == Expired(row[t], listed)
  <1>3. /\ e.token = 0 /\ e.wake = row[t].wake /\ e.expiredBy = listed.holder
        /\ Fields(e) = Fields(row[t])
    BY <1>1 DEF Expired, Unclaim, Fields, Row
  <1>4. listed \in Row
    BY <1>0, <1>2, ListedKind DEF Ready, Listed, SweepOps
  <1>5. e \in Row
    BY <1>1, <1>4, UnclaimType DEF Expired, Row
  <1>6. CASE t \in req[Sweeper].due /\ Lapsed(t)
    <2>1. row'[t] = Reverted(e)  BY <1>6 DEF Sweep
    <2>2. CASE RevertTo[e.status] = e.status
      <3>1. row'[t] = e  BY <2>1, <2>2 DEF Reverted
      <3> QED BY <1>1, <1>2, <1>3, <1>6, <2>2, <3>1 DEF Fields
    <2>3. CASE RevertTo[e.status] # e.status
      <3> DEFINE task == [e EXCEPT !.status = RevertTo[e.status]]
      <3>1. row'[t] = WriteFields(e, task)  BY <2>1, <2>3 DEF Reverted
      <3>2. task \in Row /\ Fields(task) = <<RevertTo[e.status], e.completed, e.successor>>
        BY <1>5, WorkflowAssumption DEF Row, Fields
      <3>3. /\ Fields(row'[t]) = Fields(task)
            /\ row'[t].token = 0 /\ row'[t].wake = row[t].wake
            /\ row'[t].expiredBy = listed.holder
        BY <1>3, <1>5, <3>1, <3>2, FieldsWritten
      <3> QED BY <1>1, <1>2, <1>3, <1>6, <3>2, <3>3 DEF Fields
    <2> QED BY <2>2, <2>3
  <1>7. CASE ~(t \in req[Sweeper].due /\ Lapsed(t))
    BY <1>1, <1>7 DEF Sweep
  <1> QED BY <1>6, <1>7

\* What the waker does to a row: it clears the wake time it listed (WakeSnooze).
LEMMA WakeWrites ==
  ASSUME Base, WakeSnoozed, NEW t \in Task
  PROVE  /\ row[t] \in Row
         /\ Fields(row'[t]) = Fields(row[t])
         /\ row'[t].token = row[t].token /\ row'[t].holder = row[t].holder
         /\ \/ row'[t].wake = row[t].wake
            \/ /\ Ready(Sweeper, "wake") /\ t \in req[Sweeper].due
               /\ row[t].wake = req[Sweeper].tasks[t].wake
PROOF
  <1>1. row[t] \in Row  BY DEF Base, TypeOK
  <1>2. CASE t \in req[Sweeper].due /\ Passed(t)
    <2>1. row'[t] = [row[t] EXCEPT !.wake = 0]  BY <1>2 DEF WakeSnoozed
    <2>2. Ready(Sweeper, "wake") /\ row[t].wake = req[Sweeper].tasks[t].wake
      BY <1>2 DEF WakeSnoozed, Passed
    <2> QED BY <1>1, <1>2, <2>1, <2>2, WakeWritten
  <1>3. CASE ~(t \in req[Sweeper].due /\ Passed(t))
    BY <1>1, <1>3 DEF WakeSnoozed
  <1> QED BY <1>2, <1>3

\* A step writes a row in a call's statements or in a sweep's.
LEMMA StepWrites ==
  ASSUME Base, [Next]_vars
  PROVE  \/ \E p \in Client : Finish(p)
         \/ Sweep \/ WakeSnoozed
         \/ UNCHANGED <<row, spawned>>
PROOF
  <1>1. CASE Tick  BY <1>1 DEF Tick
  <1>2. ASSUME NEW p \in Client, Begin(p)  PROVE UNCHANGED <<row, spawned>>
    BY <1>2 DEF Begin, Open
  <1>3. ASSUME NEW p \in Client, Read(p)  PROVE UNCHANGED <<row, spawned>>
    BY <1>3 DEF Read
  <1>4. ASSUME NEW op \in SweepOps, BeginSweep(op)  PROVE UNCHANGED <<row, spawned>>
    BY <1>4 DEF BeginSweep, Open
  <1>5. ASSUME NEW op \in SweepOps, List(op)  PROVE UNCHANGED <<row, spawned>>
    BY <1>5 DEF List
  <1>6. ASSUME NEW p \in Proc, Abort(p)  PROVE UNCHANGED <<row, spawned>>
    BY <1>6 DEF Abort
  <1>7. CASE UNCHANGED vars  BY <1>7 DEF vars
  <1> QED BY <1>1, <1>2, <1>3, <1>4, <1>5, <1>6, <1>7, Zenon DEF Next

-----------------------------------------------------------------------------
(* Whom a lapsed lease is taken from, and when a snooze has passed *)

\* A lease has a holder.
HeldIsNamed == \A t \in Task : row[t].token # 0 => row[t].holder # Nobody

\* A sweep lists leases that have a holder, a waker lists snoozes that passed by
\* the time it began.
ListedIsDue ==
  req[Sweeper].pc = "read" =>
    \A t \in req[Sweeper].due :
      /\ req[Sweeper].in.op = "sweep" => req[Sweeper].tasks[t].holder # Nobody
      /\ req[Sweeper].in.op = "wake" => req[Sweeper].tasks[t].wake <= req[Sweeper].mnow

Named == Base /\ HeldIsNamed /\ ListedIsDue

\* Nothing is held and nothing is listed at the start.
LEMMA InitNamed == Init => Named
BY InitBase DEF Init, Named, HeldIsNamed, ListedIsDue, NewRow, Idle

\* A call's statements, which end its transaction, keep both.
LEMMA FinishKeepsNamed ==
  ASSUME Named, NEW p \in Client, Finish(p)
  PROVE  Named'
PROOF
  <1> DEFINE t == req[p].in.task
  <1>0. Base /\ Base' /\ TypeOK  BY FinishKeepsBase DEF Named, Base
  <1>1. PICK new \in Row : row' = [row EXCEPT ![t] = new] /\ Wrote(p, new)
    BY <1>0, CallWrites
  <1>2. new.token = 0 \/ new.holder = p \/ (new.token = row[t].token /\ new.holder = row[t].holder)
    BY <1>1 DEF Wrote
  <1>3. t \in Task  BY <1>0, CallWrites
  <1>4. HeldIsNamed'
    BY <1>0, <1>1, <1>2, <1>3, ClientsAssumption DEF HeldIsNamed, Named, TypeOK
  <1>5. req'[Sweeper] = req[Sweeper]
    BY <1>0, FinishCommits, ClientsAssumption DEF Commit, TypeOK
  <1>6. ListedIsDue'  BY <1>5 DEF ListedIsDue, Named
  <1> QED BY <1>0, <1>4, <1>6 DEF Named

\* A listing names what it found: rows that were held, or passed.
LEMMA ListKeepsNamed ==
  ASSUME Named, NEW op \in SweepOps, List(op)
  PROVE  Named'
PROOF
  <1> DEFINE r == req[Sweeper]
             new(S) == [pc |-> "read", in |-> r.in, mnow |-> r.mnow, at |-> now, due |-> S,
                        tasks |-> [t \in Task |-> IF t \in S THEN row[t] ELSE NewRow]]
  <1>0. Base /\ Base' /\ TypeOK  BY ListKeepsBase DEF Named, Base
  <1>1. PICK S \in SUBSET Due(op, r.mnow) : req' = [req EXCEPT ![Sweeper] = new(S)]
    BY DEF List
  <1>2. r.in.op = op /\ row' = row  BY DEF List
  <1>3. HeldIsNamed'  BY <1>2 DEF HeldIsNamed, Named
  <1>4. req'[Sweeper] = new(S)  BY <1>0, <1>1 DEF TypeOK
  <1>5. \A t \in S : t \in Task /\ new(S).tasks[t] = row[t]
    BY <1>1 DEF Due
  <1>6. op = "sweep" => \A t \in S : row[t].token # 0  BY <1>1 DEF Due
  <1>7. op = "wake" => \A t \in S : row[t].wake <= r.mnow  BY <1>1 DEF Due
  <1>8. new(S).in.op = op /\ new(S).mnow = r.mnow /\ new(S).due = S  BY <1>2
  <1> HIDE DEF new
  <1>9. ListedIsDue'
    BY <1>4, <1>5, <1>6, <1>7, <1>8 DEF ListedIsDue, Named, HeldIsNamed
  <1> QED BY <1>0, <1>3, <1>9 DEF Named

\* Every step keeps both.
LEMMA NextKeepsNamed == Named /\ [Next]_vars => Named'
PROOF
  <1> SUFFICES ASSUME Named, [Next]_vars PROVE Named'
    OBVIOUS
  <1>0. Base /\ Base' /\ TypeOK  BY NextKeepsBase DEF Named, Base
  <1>1. ASSUME row' = row, req'[Sweeper] = req[Sweeper] \/ req'[Sweeper].pc # "read"
        PROVE  Named'
    BY <1>0, <1>1 DEF Named, HeldIsNamed, ListedIsDue
  <1>2. CASE Tick  BY <1>1, <1>2 DEF Tick
  <1>3. ASSUME NEW p \in Proc, NEW call, Open(p, call)  PROVE Named'
    <2>1. row' = row /\ (req'[Sweeper] = req[Sweeper] \/ req'[Sweeper].pc # "read")
      BY <1>0, <1>3 DEF Open, TypeOK
    <2> QED BY <1>1, <2>1
  <1>4. ASSUME NEW p \in Client, Begin(p)  PROVE Named'
    BY <1>3, <1>4 DEF Begin
  <1>5. ASSUME NEW p \in Client, Read(p)  PROVE Named'
    <2>1. row' = row /\ req'[Sweeper] = req[Sweeper]
      BY <1>0, <1>5, ClientsAssumption DEF Read, TypeOK
    <2> QED BY <1>1, <2>1
  <1>6. ASSUME NEW p \in Client, Finish(p)  PROVE Named'
    BY <1>6, FinishKeepsNamed
  <1>7. ASSUME NEW op \in SweepOps, BeginSweep(op)  PROVE Named'
    BY <1>3, <1>7 DEF BeginSweep
  <1>8. ASSUME NEW op \in SweepOps, List(op)  PROVE Named'
    BY <1>8, ListKeepsNamed
  <1>9. CASE Sweep
    <2>1. req'[Sweeper].pc # "read"  BY <1>0, <1>9 DEF Sweep, Commit, Idle, TypeOK
    <2>2. HeldIsNamed'  BY <1>0, <1>9, SweepWrites DEF HeldIsNamed, Named
    <2> QED BY <1>0, <2>1, <2>2 DEF Named, ListedIsDue
  <1>10. CASE WakeSnoozed
    <2>1. req'[Sweeper].pc # "read"  BY <1>0, <1>10 DEF WakeSnoozed, Commit, Idle, TypeOK
    <2>2. HeldIsNamed'  BY <1>0, <1>10, WakeWrites DEF HeldIsNamed, Named
    <2> QED BY <1>0, <2>1, <2>2 DEF Named, ListedIsDue
  <1>11. ASSUME NEW p \in Proc, Abort(p)  PROVE Named'
    <2>1. row' = row /\ (req'[Sweeper] = req[Sweeper] \/ req'[Sweeper].pc # "read")
      BY <1>0, <1>11 DEF Abort, Idle, TypeOK
    <2> QED BY <1>1, <2>1
  <1>12. CASE UNCHANGED vars  BY <1>1, <1>12 DEF vars
  <1> QED BY <1>2, <1>4, <1>5, <1>6, <1>7, <1>8, <1>9, <1>10, <1>11, <1>12 DEF Next

\* Both hold throughout.
LEMMA SpecKeepsNamed == Spec => []Named
BY InitNamed, NextKeepsNamed, PTL DEF Spec

\* A snooze that has not passed ends only when somebody ends it, on either
\* engine: the waker clears only the wake time it listed, and that one passed
\* before it began (store.WakeSnooze).
THEOREM SnoozesAreKept == Spec => SnoozeIsKept
PROOF
  <1> DEFINE Ended == \E p \in Client : Unsnooze(p) \/ Snooze(p)
             Kept == \A t \in Task : Asleep(row[t], now) /\ ~Asleep(row'[t], now) => Ended
  <1>1. Named /\ [Next]_vars => [Kept]_vars
    <2> SUFFICES ASSUME Named, [Next]_vars, NEW t \in Task,
                        row[t].wake > now, ~(row'[t].wake > now)
                 PROVE  Ended
      BY DEF Asleep
    <2>0. Base /\ TypeOK  BY DEF Named, Base
    <2>1. now \in Nat /\ row[t] \in Row /\ row'[t] # row[t]
      BY <2>0, BoundAssumption DEF TypeOK
    <2>2. ASSUME NEW p \in Client, Finish(p)  PROVE Ended
      <3>1. PICK new \in Row : row' = [row EXCEPT ![req[p].in.task] = new] /\ Wrote(p, new)
        BY <2>0, <2>2, CallWrites
      <3>2. t = req[p].in.task /\ row'[t] = new  BY <2>0, <2>1, <3>1 DEF TypeOK
      <3>3. new.wake # row[t].wake  BY <3>2
      <3> QED BY <3>1, <3>2, <3>3 DEF Wrote
    <2>3. ASSUME Sweep  PROVE FALSE
      <3>1. row'[t].wake = row[t].wake  BY <2>0, <2>1, <2>3, SweepWrites
      <3> QED BY <3>1
    <2>4. ASSUME WakeSnoozed  PROVE FALSE
      <3>1. row'[t].wake # row[t].wake  OBVIOUS
      <3>2. /\ Ready(Sweeper, "wake") /\ t \in req[Sweeper].due
            /\ row[t].wake = req[Sweeper].tasks[t].wake
        BY <2>0, <2>4, <3>1, WakeWrites
      <3>3. row[t].wake <= req[Sweeper].mnow  BY <3>2 DEF Ready, Named, ListedIsDue
      <3>4. req[Sweeper].mnow \in Nat /\ req[Sweeper].mnow <= now
        BY <2>0, <3>2, MnowType DEF Ready, Base, Clocks
      <3>5. row[t].wake \in Nat  BY <2>1 DEF Row
      <3> QED BY <2>1, <3>3, <3>4, <3>5
    <2> QED BY <2>0, <2>1, <2>2, <2>3, <2>4, StepWrites
  <1> QED BY <1>1, SpecKeepsNamed, PTL DEF Spec, SnoozeIsKept, Kept

-----------------------------------------------------------------------------
(* Finished tasks carry a completion time, on either engine *)

\* The fields of a row, one by one.
LEMMA FieldByField ==
  ASSUME NEW r, NEW s, Fields(r) = s
  PROVE  r.status = s[1] /\ r.completed = s[2] /\ r.successor = s[3]
BY DEF Fields

\* What a transition and a release put in the fields of the task they loaded.
LEMMA FieldsMoved ==
  ASSUME TypeOK, NEW p \in Client, Ready(p, "release") \/ Ready(p, "transition")
  PROVE  /\ Fields(Moved(p)) =
              <<req[p].in.to, req[p].in.to \in Terminal,
                req[p].task.successor \/ Spawns(req[p].in.task, req[p].task, req[p].in.to)>>
         /\ Fields(Released(p)) =
              <<req[p].in.to, req[p].task.completed \/ req[p].in.to \in Terminal,
                req[p].task.successor \/ Spawns(req[p].in.task, req[p].task, req[p].in.to)>>
PROOF
  <1> DEFINE r == req[p].task
             to == req[p].in.to
             next == r.successor \/ Spawns(req[p].in.task, r, to)
  <1>1. r \in Row  BY ReadyType DEF AllOps
  <1>2. ASSUME NEW c, NEW n
        PROVE  Fields([r EXCEPT !.status = to, !.completed = c, !.successor = n]) = <<to, c, n>>
    BY <1>1 DEF Fields, Row
  <1>3. Moved(p) = [r EXCEPT !.status = to, !.completed = to \in Terminal, !.successor = next]
    BY DEF Moved
  <1>4. Released(p) = [r EXCEPT !.status = to, !.completed = r.completed \/ to \in Terminal,
                                !.successor = next]
    BY DEF Released
  <1> QED BY <1>2, <1>3, <1>4

\* No state that is not final reverts to a final one.
RevertsStayOpen == \A s \in Status \ Terminal : RevertTo[s] \notin Terminal

\* A row that is finished only with a completion time.
Timed(r) == r.status \in Terminal => r.completed

\* So are the rows, and what the calls in progress have loaded of them.
AllTimed ==
  /\ Base
  /\ \A t \in Task : Timed(row[t])
  /\ \A p \in Client : req[p].pc = "read" => Timed(req[p].task)

\* The shape a call's loaded task has: a new row, or the committed one.
LEMMA ReadLoads ==
  ASSUME TypeOK, NEW p \in Client, Read(p)
  PROVE  /\ UNCHANGED <<row, spawned>>
         /\ \A q \in Proc : q # p => req'[q] = req[q]
         /\ \/ req'[p].task = NewRow
            \/ req[p].in.task \in Task /\ req'[p].task = row[req[p].in.task]
PROOF
  <1> DEFINE kept == IF req[p].in.op \in Blind THEN NewRow ELSE row[req[p].in.task]
             new == [pc |-> "read", in |-> req[p].in, mnow |-> req[p].mnow, at |-> now,
                     task |-> kept]
  <1>1. req' = [req EXCEPT ![p] = new]  BY DEF Read
  <1>2. new.task = kept  OBVIOUS
  <1>3. req[p].in.task \in Task
    BY OpenKind DEF Read, Opened, Input, SweepCall, AllOps, SweepOps
  <1> HIDE DEF new
  <1>4. req'[p] = new /\ \A q \in Proc : q # p => req'[q] = req[q]
    BY <1>1 DEF TypeOK
  <1>5. UNCHANGED <<row, spawned>>  BY DEF Read
  <1> QED BY <1>2, <1>3, <1>4, <1>5

\* The columns a call writes are finished only with a completion time.
LEMMA FinishKeepsTimed ==
  ASSUME AllTimed, NEW p \in Client, Finish(p)
  PROVE  AllTimed'
PROOF
  <1> DEFINE t == req[p].in.task
  <1>0. Base /\ Base' /\ TypeOK  BY FinishKeepsBase DEF AllTimed, Base
  <1>1. t \in Task  BY <1>0, CallWrites
  <1>2. PICK new \in Row : row' = [row EXCEPT ![t] = new] /\ Wrote(p, new)
    BY <1>0, CallWrites
  <1>3. Timed(new)
    <2>1. CASE Fields(new) = Fields(row[t])
      BY <1>1, <2>1 DEF AllTimed, Timed, Fields
    <2>2. CASE Ready(p, "edit") /\ Fields(new) = Fields(req[p].task)
      BY <2>2 DEF AllTimed, Timed, Fields, Ready
    <2>3. CASE Ready(p, "transition") /\ Fields(new) = Fields(Moved(p))
      <3>1. new.status = req[p].in.to /\ new.completed = (req[p].in.to \in Terminal)
        BY <1>0, <2>3, FieldsMoved, FieldByField
      <3> QED BY <3>1 DEF Timed
    <2>4. CASE Ready(p, "release") /\ Fields(new) = Fields(Released(p))
      <3>1. /\ new.status = req[p].in.to
            /\ new.completed = (req[p].task.completed \/ req[p].in.to \in Terminal)
        BY <1>0, <2>4, FieldsMoved, FieldByField
      <3> QED BY <3>1 DEF Timed
    <2> QED BY <1>2, <2>1, <2>2, <2>3, <2>4 DEF Wrote
  <1>4. \A u \in Task : Timed(row'[u])
    BY <1>0, <1>1, <1>2, <1>3 DEF AllTimed, TypeOK
  <1>5. \A q \in Client : req'[q].pc = "read" => req'[q] = req[q]
    BY <1>0, FinishCommits DEF Commit, Idle, TypeOK
  <1>6. \A q \in Client : req'[q].pc = "read" => Timed(req'[q].task)
    BY <1>5 DEF AllTimed
  <1> QED BY <1>0, <1>4, <1>6 DEF AllTimed, Timed

\* Every step keeps it.
LEMMA NextKeepsTimed ==
  ASSUME RevertsStayOpen, AllTimed, [Next]_vars
  PROVE  AllTimed'
PROOF
  <1>0. Base /\ Base' /\ TypeOK  BY NextKeepsBase DEF AllTimed, Base
  <1>1. ASSUME \A t \in Task : Timed(row'[t]),
               \A q \in Client : req'[q].pc = "read" => Timed(req'[q].task)
        PROVE  AllTimed'
    BY <1>0, <1>1 DEF AllTimed, Timed
  <1>2. ASSUME NEW p \in Client, Read(p)  PROVE AllTimed'
    <2>1. Timed(NewRow)  BY DEF Timed, NewRow
    <2>2. Timed(req'[p].task) /\ row' = row
      BY <1>0, <1>2, <2>1, ReadLoads DEF AllTimed
    <2>3. \A q \in Client : q # p => req'[q] = req[q]  BY <1>0, <1>2, ReadLoads
    <2>4. \A q \in Client : req'[q].pc = "read" => Timed(req'[q].task)
      BY <2>2, <2>3 DEF AllTimed
    <2> QED BY <1>1, <2>2, <2>4 DEF AllTimed
  <1>3. ASSUME NEW p \in Client, Finish(p)  PROVE AllTimed'
    BY <1>3, FinishKeepsTimed
  <1>4. ASSUME \A t \in Task : Timed(row'[t]), NEW p \in Proc,
               \A q \in Proc : q # p => req'[q] = req[q],
               req'[p].pc # "read" \/ p \notin Client
        PROVE  AllTimed'
    BY <1>1, <1>4 DEF AllTimed
  <1>5. CASE Sweep
    <2>1. \A q \in Proc : q # Sweeper => req'[q] = req[q]
      BY <1>0, <1>5 DEF Sweep, Commit, TypeOK
    <2>2. ASSUME NEW t \in Task  PROVE Timed(row'[t])
      <3>0. row[t] \in Row /\ Timed(row[t])  BY <1>0 DEF TypeOK, AllTimed
      <3>1. CASE row'[t] = row[t]  BY <3>0, <3>1
      <3>2. CASE Fields(row'[t]) =
                   <<RevertTo[row[t].status], row[t].completed, row[t].successor>>
        <4>1. row'[t].status = RevertTo[row[t].status] /\ row'[t].completed = row[t].completed
          BY <3>2, FieldByField
        <4>2. row'[t].status \in Terminal => row[t].status \in Terminal
          BY <3>0, <4>1, RevertsStayOpen DEF RevertsStayOpen, Row
        <4> QED BY <3>0, <4>1, <4>2 DEF Timed
      <3> QED BY <1>0, <1>5, <3>1, <3>2, SweepWrites
    <2> QED BY <1>4, <2>1, <2>2, ClientsAssumption
  <1>6. CASE WakeSnoozed
    <2>1. \A q \in Proc : q # Sweeper => req'[q] = req[q]
      BY <1>0, <1>6 DEF WakeSnoozed, Commit, TypeOK
    <2>2. ASSUME NEW t \in Task  PROVE Timed(row'[t])
      BY <1>0, <1>6, WakeWrites DEF Fields, Timed, AllTimed
    <2> QED BY <1>4, <2>1, <2>2, ClientsAssumption
  <1>7. ASSUME NEW p \in Proc, NEW call, Open(p, call)  PROVE AllTimed'
    <2>1. /\ \A q \in Proc : q # p => req'[q] = req[q]
          /\ req'[p].pc # "read" /\ row' = row
      BY <1>0, <1>7 DEF Open, TypeOK
    <2> QED BY <1>4, <2>1 DEF AllTimed
  <1>8. ASSUME NEW p \in Client, Begin(p)  PROVE AllTimed'
    BY <1>7, <1>8 DEF Begin
  <1>9. ASSUME NEW op \in SweepOps, BeginSweep(op)  PROVE AllTimed'
    BY <1>7, <1>9 DEF BeginSweep
  <1>10. ASSUME NEW op \in SweepOps, List(op)  PROVE AllTimed'
    <2>1. (\A q \in Proc : q # Sweeper => req'[q] = req[q]) /\ row' = row
      BY <1>0, <1>10 DEF List, TypeOK
    <2> QED BY <1>4, <2>1, ClientsAssumption DEF AllTimed
  <1>11. ASSUME NEW p \in Proc, Abort(p)  PROVE AllTimed'
    <2>1. /\ \A q \in Proc : q # p => req'[q] = req[q]
          /\ req'[p].pc # "read" /\ row' = row
      BY <1>0, <1>11 DEF Abort, Idle, TypeOK
    <2> QED BY <1>4, <2>1 DEF AllTimed
  <1>12. CASE Tick  BY <1>1, <1>12 DEF Tick, AllTimed
  <1>13. CASE UNCHANGED vars  BY <1>1, <1>13 DEF vars, AllTimed
  <1> QED BY <1>2, <1>3, <1>5, <1>6, <1>8, <1>9, <1>10, <1>11, <1>12, <1>13 DEF Next

\* A task in a terminal state carries a completion time, on either engine and
\* whatever calls interleave, in every workflow whose open states do not revert
\* to a final one: a transition and a finishing release set it, an edit writes
\* the status and the time of one and the same row (applyTransition,
\* applyRelease, UpdateTask).
THEOREM FinishedTasksAreTimed ==
  ASSUME RevertsStayOpen
  PROVE  Spec => []FinishedIsCompleted
PROOF
  <1>1. Init => AllTimed
    <2> SUFFICES ASSUME Init PROVE AllTimed
      OBVIOUS
    <2>1. Base /\ \A p \in Client : req[p].pc # "read"
      BY InitBase DEF Init, Idle
    <2>2. \A t \in Task : row[t].status = Initial /\ row[t].completed = (Initial \in Terminal)
      BY DEF Init, NewRow
    <2> QED BY <2>1, <2>2, Zenon DEF AllTimed, Timed
  <1>2. AllTimed /\ [Next]_vars => AllTimed'
    BY NextKeepsTimed
  <1>3. AllTimed => FinishedIsCompleted
    BY DEF AllTimed, Timed, FinishedIsCompleted
  <1> QED BY <1>1, <1>2, <1>3, PTL DEF Spec

-----------------------------------------------------------------------------
(* What the single writer makes of the workflow and of recurrence *)

\* On the single writer, a call writes the fields of the task as they are, or
\* moves them along an edge and counts the successor it spawns.
LEMMA CallMoves ==
  ASSUME Sqlite, Engine = "sqlite", NEW p \in Client, Finish(p)
  PROVE  LET t == req[p].in.task
             to == req[p].in.to
         IN /\ t \in Task /\ row[t] \in Row
            /\ \E new \in Row :
                 /\ row' = [row EXCEPT ![t] = new]
                 /\ \/ Fields(new) = Fields(row[t]) /\ UNCHANGED spawned
                    \/ /\ <<row[t].status, new.status>> \in Edge
                       /\ new.successor = (row[t].successor \/ Spawns(t, row[t], to))
                       /\ spawned' = [spawned EXCEPT ![t] = IF Spawns(t, row[t], to) THEN @ + 1
                                                                                   ELSE @]
PROOF
  <1> DEFINE t == req[p].in.task
             to == req[p].in.to
  <1>0. Base /\ TypeOK  BY DEF Sqlite, Base
  <1>1. t \in Task  BY <1>0, CallWrites
  <1>2. PICK new \in Row : row' = [row EXCEPT ![t] = new] /\ Wrote(p, new)
    BY <1>0, CallWrites
  <1>3. row[t] \in Row  BY <1>0, <1>1 DEF TypeOK
  <1>4. CASE Fields(new) = Fields(row[t]) /\ UNCHANGED spawned
    BY <1>1, <1>2, <1>3, <1>4
  <1>5. CASE Ready(p, "edit") /\ Fields(new) = Fields(req[p].task) /\ UNCHANGED spawned
    <2>1. req[p].task = row[t]  BY <1>5, CheckedNow DEF AllOps, Blind
    <2> QED BY <1>1, <1>2, <1>3, <1>5, <2>1
  <1>6. ASSUME Ready(p, "transition") \/ Ready(p, "release"),
               Fields(new) = Fields(Moved(p)) \/ Fields(new) = Fields(Released(p)),
               <<row[t].status, to>> \in Edge, CountSpawn(p)
        PROVE  /\ <<row[t].status, new.status>> \in Edge
               /\ new.successor = (row[t].successor \/ Spawns(t, row[t], to))
               /\ spawned' = [spawned EXCEPT ![t] = IF Spawns(t, row[t], to) THEN @ + 1 ELSE @]
    <2>1. req[p].task = row[t]  BY <1>6, CheckedNow DEF AllOps, Blind
    <2>2. new.status = to /\ new.successor = (row[t].successor \/ Spawns(t, row[t], to))
      <3>1. CASE Fields(new) = Fields(Moved(p))
        <4>1. Fields(new) = <<to, to \in Terminal, row[t].successor \/ Spawns(t, row[t], to)>>
          BY <1>0, <1>6, <2>1, <3>1, FieldsMoved
        <4> QED BY <4>1, FieldByField
      <3>2. CASE Fields(new) = Fields(Released(p))
        <4>1. Fields(new) = <<to, row[t].completed \/ to \in Terminal,
                              row[t].successor \/ Spawns(t, row[t], to)>>
          BY <1>0, <1>6, <2>1, <3>2, FieldsMoved, Zenon
        <4> QED BY <4>1, FieldByField
      <3> QED BY <1>6, <3>1, <3>2
    <2> QED BY <1>6, <2>1, <2>2 DEF CountSpawn
  <1>7. CASE Ready(p, "transition") /\ Fields(new) = Fields(Moved(p)) /\ CountSpawn(p)
    <2>1. Checks(row[t], req[p].in, req[p].mnow) /\ req[p].in.op = "transition"
      BY <1>7, CheckedNow DEF AllOps, Ready
    <2>2. TransitionChecks(row[t], req[p].in, req[p].mnow)  BY <2>1 DEF Checks
    <2>3. <<row[t].status, to>> \in Edge  BY <2>2, Zenon DEF TransitionChecks
    <2> QED BY <1>1, <1>2, <1>3, <1>6, <1>7, <2>3
  <1>8. CASE /\ Ready(p, "release") /\ Finalizes(p)
             /\ Fields(new) = Fields(Released(p)) /\ CountSpawn(p)
    <2>1. Checks(row[t], req[p].in, req[p].mnow) /\ req[p].in.op = "release"
      BY <1>8, CheckedNow DEF AllOps, Ready
    <2>2. <<row[t].status, to>> \in Edge  BY <1>8, <2>1 DEF Checks, ReleaseChecks, Finalizes
    <2> QED BY <1>1, <1>2, <1>3, <1>6, <1>8, <2>2
  <1> QED BY <1>2, <1>4, <1>5, <1>7, <1>8, Zenon DEF Wrote

\* A task that has spawned carries the mark that keeps it from spawning again.
Marked ==
  \A t \in Task : spawned[t] = 0 \/ (spawned[t] = 1 /\ row[t].successor)

\* A call's statements keep the mark.
LEMMA FinishKeepsMarked ==
  ASSUME Sqlite, Engine = "sqlite", Marked, NEW p \in Client, Finish(p)
  PROVE  Marked'
PROOF
  <1> DEFINE t == req[p].in.task
             to == req[p].in.to
  <1>0. Base /\ TypeOK  BY DEF Sqlite, Base
  <1>1. t \in Task  BY CallMoves
  <1>2. PICK new \in Row :
          /\ row' = [row EXCEPT ![t] = new]
          /\ \/ Fields(new) = Fields(row[t]) /\ UNCHANGED spawned
             \/ /\ <<row[t].status, new.status>> \in Edge
                /\ new.successor = (row[t].successor \/ Spawns(t, row[t], to))
                /\ spawned' = [spawned EXCEPT ![t] = IF Spawns(t, row[t], to) THEN @ + 1 ELSE @]
    BY CallMoves
  <1>3. row'[t] = new /\ \A u \in Task \ {t} : row'[u] = row[u]
    BY <1>0, <1>1, <1>2 DEF TypeOK
  <1>4. CASE Fields(new) = Fields(row[t]) /\ UNCHANGED spawned
    <2>1. new.successor = row[t].successor  BY <1>4 DEF Fields
    <2> QED BY <1>3, <1>4, <2>1 DEF Marked
  <1>5. CASE /\ new.successor = (row[t].successor \/ Spawns(t, row[t], to))
             /\ spawned' = [spawned EXCEPT ![t] = IF Spawns(t, row[t], to) THEN @ + 1 ELSE @]
    <2>1. \A u \in Task \ {t} : spawned'[u] = spawned[u]
      BY <1>0, <1>1, <1>5 DEF TypeOK
    <2>2. CASE Spawns(t, row[t], to)
      <3>1. ~row[t].successor  BY <2>2 DEF Spawns
      <3>2. spawned[t] = 0  BY <1>1, <3>1 DEF Marked
      <3>3. spawned' = [spawned EXCEPT ![t] = spawned[t] + 1]  BY <1>5, <2>2
      <3>4. spawned'[t] = 1  BY <1>0, <1>1, <3>2, <3>3 DEF TypeOK
      <3>5. new.successor  BY <1>5, <2>2, Zenon
      <3> QED BY <1>3, <2>1, <3>4, <3>5 DEF Marked
    <2>3. CASE ~Spawns(t, row[t], to)
      <3>1. spawned'[t] = spawned[t]  BY <1>0, <1>1, <1>5, <2>3 DEF TypeOK
      <3>2. row[t].successor => new.successor  BY <1>5
      <3> QED BY <1>3, <2>1, <3>1, <3>2 DEF Marked
    <2> QED BY <2>2, <2>3
  <1> QED BY <1>2, <1>4, <1>5

\* A task never produces two successors on one writer, however often it is
\* finished, reopened, edited and swept: whoever finishes it reads the mark the
\* first successor left (spawnOccurrence, recurrence_next_id).
THEOREM SqliteOneSuccessor ==
  ASSUME Engine = "sqlite"
  PROVE  Spec => []OneSuccessor
PROOF
  <1>1. Init => Marked
    BY DEF Init, Marked
  <1>2. ASSUME Sqlite, Marked, [Next]_vars  PROVE Marked'
    <2>0. Base  BY <1>2 DEF Sqlite
    <2>1. ASSUME NEW p \in Client, Finish(p)  PROVE Marked'
      BY <1>2, <2>1, FinishKeepsMarked
    <2>2. CASE Sweep
      <3>1. spawned' = spawned  BY <2>2 DEF Sweep
      <3>2. ASSUME NEW t \in Task  PROVE row'[t].successor = row[t].successor
        <4>1. row'[t] = row[t] \/ Fields(row'[t]) =
                <<RevertTo[row[t].status], row[t].completed, row[t].successor>>
          BY <2>0, <2>2, SweepWrites
        <4> QED BY <4>1, FieldByField
      <3> QED BY <1>2, <3>1, <3>2 DEF Marked
    <2>3. CASE WakeSnoozed
      <3>1. spawned' = spawned  BY <2>3 DEF WakeSnoozed
      <3>2. \A t \in Task : row'[t].successor = row[t].successor
        BY <2>0, <2>3, WakeWrites DEF Fields
      <3> QED BY <1>2, <3>1, <3>2 DEF Marked
    <2>4. CASE UNCHANGED <<row, spawned>>
      BY <1>2, <2>4 DEF Marked
    <2> QED BY <1>2, <2>0, <2>1, <2>2, <2>3, <2>4, StepWrites
  <1>3. Marked => OneSuccessor
    BY DEF Marked, OneSuccessor
  <1> QED BY <1>1, <1>2, <1>3, SpecKeepsSqlite, PTL DEF Spec

\* On one writer a committed status moves along an edge of the workflow, or back
\* where the workflow sends a lapsed lease, whose last holder is then on record
\* (TransitionTask, ReleaseLease, UpdateTask, sweepOne).
THEOREM SqliteStatusFollowsWorkflow ==
  ASSUME Engine = "sqlite"
  PROVE  Spec => StatusFollowsWorkflow
PROOF
  <1> DEFINE Follows(t) ==
               \/ <<row[t].status, row'[t].status>> \in Edge
               \/ /\ row'[t].status = RevertTo[row[t].status]
                  /\ row'[t].expiredBy # Nobody /\ row'[t].token = 0
             Moves == \A t \in Task : row'[t].status # row[t].status => Follows(t)
  <1>1. Sqlite /\ Named /\ [Next]_vars => [Moves]_vars
    <2> SUFFICES ASSUME Sqlite, Named, [Next]_vars, NEW t \in Task,
                        row'[t].status # row[t].status
                 PROVE  Follows(t)
      OBVIOUS
    <2>0. Base /\ TypeOK  BY DEF Sqlite, Base
    <2>1. ASSUME NEW p \in Client, Finish(p)  PROVE <<row[t].status, row'[t].status>> \in Edge
      <3>1. PICK new \in Row :
              /\ row' = [row EXCEPT ![req[p].in.task] = new]
              /\ \/ Fields(new) = Fields(row[req[p].in.task])
                 \/ <<row[req[p].in.task].status, new.status>> \in Edge
        BY <2>1, CallMoves
      <3>2. t = req[p].in.task /\ row'[t] = new  BY <2>0, <3>1 DEF TypeOK
      <3>3. new.status # row[t].status  BY <3>2
      <3> QED BY <3>1, <3>2, <3>3 DEF Fields
    <2>2. CASE Sweep
      <3>1. row'[t] # row[t]  OBVIOUS
      <3>2. /\ t \in req[Sweeper].due /\ Ready(Sweeper, "sweep")
            /\ row'[t].token = 0
            /\ row'[t].expiredBy = req[Sweeper].tasks[t].holder
            /\ Fields(row'[t]) =
                 <<RevertTo[row[t].status], row[t].completed, row[t].successor>>
        BY <2>0, <2>2, <3>1, SweepWrites
      <3>3. row'[t].status = RevertTo[row[t].status]  BY <3>2, FieldByField
      <3>4. req[Sweeper].tasks[t].holder # Nobody
        BY <3>2 DEF Named, ListedIsDue, Ready
      <3> QED BY <3>2, <3>3, <3>4
    <2>3. CASE WakeSnoozed
      <3>1. row'[t].status = row[t].status  BY <2>0, <2>3, WakeWrites DEF Fields
      <3> QED BY <3>1
    <2> QED BY <2>0, <2>1, <2>2, <2>3, StepWrites
  <1> QED BY <1>1, SpecKeepsSqlite, SpecKeepsNamed, PTL DEF Spec, StatusFollowsWorkflow

-----------------------------------------------------------------------------
(* The length of a lease (LeasePolicy), whatever its levels say *)

\* Where nothing is set the shipped bounds stand (leasePolicy, Grant).
LEMMA ShippedBounds ==
  ASSUME NEW p \in Policy
  PROVE  /\ Shipped(p) \in Policy
         /\ Shipped(p).Default > 0 /\ Shipped(p).Max > 0
         /\ p.Default > 0 => Shipped(p).Default = p.Default
         /\ p.Max > 0 => Shipped(p).Max = p.Max
  BY DEF Policy, Bound, Shipped, DefaultTTL, MaxTTL

\* A ceiling that is set falls to the one given, when that is lower.
LEMMA CapBounds ==
  ASSUME NEW p \in Policy, p.Max > 0, NEW m \in Int, NEW from \in Bound
  PROVE  /\ Cap(p, m, from) \in Policy
         /\ Cap(p, m, from).Default = p.Default
         /\ Cap(p, m, from).Max \in Int /\ Cap(p, m, from).Max > 0
         /\ Cap(p, m, from).Max <= p.Max
         /\ m > 0 => Cap(p, m, from).Max <= m
         /\ m > 0 /\ m <= p.Max => Cap(p, m, from).Max = m
         /\ m <= 0 \/ m >= p.Max => Cap(p, m, from).Max = p.Max
<1>1. p.Max \in Int  BY DEF Policy
<1>2. CASE m > 0 /\ m < p.Max
  <2> DEFINE q == [p EXCEPT !.Max = m, !.MaxFrom = from]
  <2>1. Cap(p, m, from) = q  BY <1>2 DEF Cap
  <2>2. q \in Policy /\ q.Default = p.Default /\ q.Max = m  BY DEF Policy
  <2> HIDE DEF q
  <2> QED BY <1>1, <1>2, <2>1, <2>2
<1>3. CASE ~(m > 0 /\ m < p.Max)
  <2>1. Cap(p, m, from) = p  BY <1>1, <1>3 DEF Cap
  <2> QED BY <1>1, <1>3, <2>1
<1> QED BY <1>2, <1>3

\* The policy of a claim: its bounds are set, and each ceiling counts.
LEMMA PolicyBounds ==
  ASSUME NEW s \in Setting
  PROVE  /\ leasePolicy(s) \in Policy /\ projectPolicy(s) \in Policy
         /\ leasePolicy(s).Default > 0 /\ leasePolicy(s).Max > 0
         /\ projectPolicy(s).Default = leasePolicy(s).Default
         /\ projectPolicy(s).Max > 0
         /\ projectPolicy(s).Max <= leasePolicy(s).Max
         /\ leasePolicy(s).Max <= Shipped(s.deployment).Max
         /\ s.tenant.Max > 0 => leasePolicy(s).Max <= s.tenant.Max
         /\ s.project.Max > 0 => projectPolicy(s).Max <= s.project.Max
<1> DEFINE d == Shipped(s.deployment)
           n == IF s.tenant.Default > 0
                THEN [d EXCEPT !.Default = s.tenant.Default, !.DefaultFrom = "tenant"] ELSE d
<1>1. /\ s.deployment \in Policy /\ s.tenant.Default \in Int /\ s.tenant.Max \in Int
      /\ s.project.Max \in Int
  BY DEF Setting
<1>2. d \in Policy /\ d.Default > 0 /\ d.Max > 0  BY <1>1, ShippedBounds
<1>3. n \in Policy /\ n.Default > 0 /\ n.Max = d.Max  BY <1>1, <1>2 DEF Policy, Bound
<1>4. leasePolicy(s) = Cap(n, s.tenant.Max, "tenant")  BY DEF leasePolicy, Narrow
<1>5. "tenant" \in Bound /\ "project" \in Bound  BY DEF Bound
<1> HIDE DEF n, d
<1>6. /\ leasePolicy(s) \in Policy
      /\ leasePolicy(s).Default > 0 /\ leasePolicy(s).Max > 0
      /\ leasePolicy(s).Max <= n.Max
      /\ s.tenant.Max > 0 => leasePolicy(s).Max <= s.tenant.Max
  BY <1>1, <1>2, <1>3, <1>4, <1>5, CapBounds
<1>7. /\ projectPolicy(s) \in Policy
      /\ projectPolicy(s).Default = leasePolicy(s).Default
      /\ projectPolicy(s).Max > 0 /\ projectPolicy(s).Max <= leasePolicy(s).Max
      /\ s.project.Max > 0 => projectPolicy(s).Max <= s.project.Max
  BY <1>1, <1>5, <1>6, CapBounds DEF projectPolicy
<1> QED BY <1>3, <1>6, <1>7 DEF d

\* The level that is heard: the first that names a length, else the default.
LEMMA ChosenIsTheFirst ==
  ASSUME NEW p \in Policy, NEW o \in Offer
  PROVE  /\ Chosen(p, o).ttl \in Int
         /\ Chosen(p, o).from = "claim" <=> o["claim"] # 0
         /\ o["claim"] # 0 => Chosen(p, o).ttl = o["claim"]
         /\ o["claim"] = 0 /\ o["task"] # 0 => Chosen(p, o).ttl = o["task"]
         /\ o["claim"] = 0 /\ o["task"] = 0 /\ o["project"] # 0 =>
              Chosen(p, o).ttl = o["project"]
         /\ o["claim"] = 0 /\ o["task"] = 0 /\ o["project"] = 0 /\ o["workflow"] # 0 =>
              Chosen(p, o).ttl = o["workflow"]
         /\ (\A l \in Level : o[l] = 0) => Chosen(p, o).ttl = p.Default
<1>1. /\ o["claim"] \in Int /\ o["task"] \in Int /\ o["project"] \in Int
      /\ o["workflow"] \in Int /\ p.Default \in Int /\ p.DefaultFrom # "claim"
  BY DEF Offer, Level, Policy, Bound
<1>2. ASSUME NEW l \in Level, Speaks(o, l)
      PROVE  Chosen(p, o) = [ttl |-> o[l], from |-> l]
  <2>1. \A k \in Level : Speaks(o, k) => k = l
    BY <1>2 DEF Speaks, Above, Level
  <2>2. l = CHOOSE k \in Level : Speaks(o, k)  BY <1>2, <2>1
  <2> QED BY <1>2, <2>2 DEF Chosen
<1>3. CASE o["claim"] # 0
  <2>1. Speaks(o, "claim") /\ "claim" \in Level  BY <1>3 DEF Speaks, Above, Level
  <2> QED BY <1>1, <1>2, <1>3, <2>1 DEF Level
<1>4. CASE o["claim"] = 0 /\ o["task"] # 0
  <2>1. Speaks(o, "task") /\ "task" \in Level  BY <1>4 DEF Speaks, Above, Level
  <2> QED BY <1>1, <1>2, <1>4, <2>1 DEF Level
<1>5. CASE o["claim"] = 0 /\ o["task"] = 0 /\ o["project"] # 0
  <2>1. Speaks(o, "project") /\ "project" \in Level  BY <1>5 DEF Speaks, Above, Level
  <2> QED BY <1>1, <1>2, <1>5, <2>1 DEF Level
<1>6. CASE o["claim"] = 0 /\ o["task"] = 0 /\ o["project"] = 0 /\ o["workflow"] # 0
  <2>1. Speaks(o, "workflow") /\ "workflow" \in Level  BY <1>6 DEF Speaks, Above, Level
  <2> QED BY <1>1, <1>2, <1>6, <2>1 DEF Level
<1>7. CASE o["claim"] = 0 /\ o["task"] = 0 /\ o["project"] = 0 /\ o["workflow"] = 0
  <2>1. ~\E l \in Level : Speaks(o, l)  BY <1>7 DEF Speaks, Level
  <2>2. Chosen(p, o) = [ttl |-> p.Default, from |-> p.DefaultFrom]  BY <2>1 DEF Chosen
  <2> QED BY <1>1, <1>7, <2>2 DEF Level
<1> QED BY <1>3, <1>4, <1>5, <1>6, <1>7

\* What is granted under a policy whose bounds are set.
LEMMA GrantIsHeldToTheCeiling ==
  ASSUME NEW p \in Policy, p.Default > 0, p.Max > 0, NEW o \in Offer
  PROVE  LET g == Grant(p, o)
             c == Chosen(Shipped(p), o)
         IN /\ g.refused <=> c.ttl <= 0 \/ (c.ttl > p.Max /\ o["claim"] # 0)
            /\ ~g.refused => g.TTL = IF c.ttl > p.Max THEN p.Max ELSE c.ttl
            /\ ~g.refused => (g.Clamped <=> c.ttl > p.Max)
            /\ g.TTL \in Int /\ g.Max = p.Max
            /\ Shipped(p).Default = p.Default
<1>1. Shipped(p) \in Policy /\ Shipped(p).Max = p.Max /\ Shipped(p).Default = p.Default
  BY ShippedBounds
<1>2. /\ Chosen(Shipped(p), o).ttl \in Int /\ p.Max \in Int
      /\ Chosen(Shipped(p), o).from = "claim" <=> o["claim"] # 0
  BY <1>1, ChosenIsTheFirst DEF Policy
<1> DEFINE c    == Chosen(Shipped(p), o)
           g    == Grant(p, o)
           long == c.ttl > p.Max
           bad  == c.ttl <= 0 \/ (long /\ c.from = "claim")
<1>3. /\ g.refused = bad /\ g.Clamped = (~bad /\ long) /\ g.Max = p.Max
      /\ g.TTL = IF bad THEN 0 ELSE IF long THEN p.Max ELSE c.ttl
  BY <1>1 DEF Grant
<1>4. g.refused <=> c.ttl <= 0 \/ (c.ttl > p.Max /\ o["claim"] # 0)
  BY <1>2, <1>3
<1>5. g.TTL \in Int  BY <1>2, <1>3
<1>6. ~g.refused => g.TTL = IF c.ttl > p.Max THEN p.Max ELSE c.ttl
  BY <1>3
<1>7. ~g.refused => (g.Clamped <=> c.ttl > p.Max)
  BY <1>3
<1> QED BY <1>1, <1>3, <1>4, <1>5, <1>6, <1>7

\* What the levels of a task and of the queue offer.
OfferOf(s, task, claim) ==
  [l \in Level |-> CASE l = "claim"    -> claim
                     [] l = "task"     -> task
                     [] l = "project"  -> s.project.Default
                     [] l = "workflow" -> workflowLease(s.workflow)]
QueueOffer(claim) == [l \in Level |-> IF l = "claim" THEN claim ELSE 0]

LEMMA OfferFields ==
  ASSUME NEW s \in Setting, NEW task \in Int, NEW claim \in Int
  PROVE  /\ OfferOf(s, task, claim) \in Offer
         /\ OfferOf(s, task, claim)["claim"] = claim
         /\ OfferOf(s, task, claim)["task"] = task
         /\ OfferOf(s, task, claim)["project"] = s.project.Default
         /\ OfferOf(s, task, claim)["workflow"] = workflowLease(s.workflow)
         /\ leaseGrant(s, task, claim) = Grant(projectPolicy(s), OfferOf(s, task, claim))
<1>1. s.project.Default \in Int /\ workflowLease(s.workflow) \in Int
  BY DEF Setting, workflowLease
<1> QED BY <1>1 DEF OfferOf, Offer, Level, leaseGrant

\* The length first heard for a claim on a task.
LEMMA FirstHeard ==
  ASSUME NEW s \in Setting, NEW task \in Int, NEW claim \in Int
  PROVE  LET ttl == Chosen(Shipped(projectPolicy(s)), OfferOf(s, task, claim)).ttl
         IN /\ ttl \in Int
            /\ claim # 0 => ttl = claim
            /\ claim = 0 /\ task # 0 => ttl = task
            /\ claim = 0 /\ task = 0 /\ s.project.Default # 0 => ttl = s.project.Default
            /\ claim = 0 /\ task = 0 /\ s.project.Default = 0 =>
                 ttl = workflowLease(s.workflow) \/ ttl = leasePolicy(s).Default
            /\ claim = 0 /\ task = 0 /\ s.project.Default = 0
               /\ workflowLease(s.workflow) = 0 => ttl = leasePolicy(s).Default
<1> DEFINE q == projectPolicy(s)
           o == OfferOf(s, task, claim)
<1>1. /\ o \in Offer /\ o["claim"] = claim /\ o["task"] = task
      /\ o["project"] = s.project.Default /\ o["workflow"] = workflowLease(s.workflow)
  BY OfferFields
<1>2. /\ q \in Policy /\ q.Default = leasePolicy(s).Default /\ q.Default > 0
  BY PolicyBounds
<1>3. Shipped(q) \in Policy /\ Shipped(q).Default = leasePolicy(s).Default
  BY <1>2, ShippedBounds
<1>4. o["claim"] = 0 /\ o["task"] = 0 /\ o["project"] = 0 /\ o["workflow"] = 0 =>
        \A l \in Level : o[l] = 0
  BY DEF Level
<1> HIDE DEF q, o
<1>5. /\ Chosen(Shipped(q), o).ttl \in Int
      /\ o["claim"] # 0 => Chosen(Shipped(q), o).ttl = o["claim"]
      /\ o["claim"] = 0 /\ o["task"] # 0 => Chosen(Shipped(q), o).ttl = o["task"]
      /\ o["claim"] = 0 /\ o["task"] = 0 /\ o["project"] # 0 =>
           Chosen(Shipped(q), o).ttl = o["project"]
      /\ o["claim"] = 0 /\ o["task"] = 0 /\ o["project"] = 0 /\ o["workflow"] # 0 =>
           Chosen(Shipped(q), o).ttl = o["workflow"]
      /\ o["claim"] = 0 /\ o["task"] = 0 /\ o["project"] = 0 /\ o["workflow"] = 0 =>
           Chosen(Shipped(q), o).ttl = leasePolicy(s).Default
  BY <1>1, <1>3, <1>4, ChosenIsTheFirst
<1> QED BY <1>1, <1>5 DEF q, o

\* A lease that is granted is positive and under every ceiling that is set, the
\* deployment's, the tenant's and the project's, whatever the other figures
\* (leaseGrant): the lengths TTL stands for in TaskLease are such.
THEOREM GrantsStayUnderEveryCeiling ==
  ASSUME NEW s \in Setting, NEW task \in Int, NEW claim \in Int,
         ~leaseGrant(s, task, claim).refused
  PROVE  LET g == leaseGrant(s, task, claim)
         IN /\ g.TTL \in Int /\ g.TTL > 0
            /\ g.TTL <= Shipped(s.deployment).Max
            /\ s.tenant.Max > 0 => g.TTL <= s.tenant.Max
            /\ s.project.Max > 0 => g.TTL <= s.project.Max
<1> DEFINE q == projectPolicy(s)
           o == OfferOf(s, task, claim)
           g == leaseGrant(s, task, claim)
           ttl == Chosen(Shipped(q), o).ttl
<1>1. g = Grant(q, o) /\ o \in Offer  BY OfferFields
<1>2. q \in Policy /\ q.Default > 0 /\ q.Max > 0  BY PolicyBounds
<1>3. /\ g.TTL = IF ttl > q.Max THEN q.Max ELSE ttl
      /\ ttl > 0 /\ ttl \in Int /\ g.TTL \in Int
  <2>1. ttl \in Int  BY FirstHeard
  <2>2. /\ g.refused <=> ttl <= 0 \/ (ttl > q.Max /\ o["claim"] # 0)
        /\ ~g.refused => g.TTL = IF ttl > q.Max THEN q.Max ELSE ttl
        /\ g.TTL \in Int
    BY <1>1, <1>2, GrantIsHeldToTheCeiling
  <2> QED BY <2>1, <2>2
<1>4. /\ q.Max \in Int /\ leasePolicy(s).Max \in Int /\ Shipped(s.deployment).Max \in Int
      /\ s.tenant.Max \in Int /\ s.project.Max \in Int
  BY PolicyBounds, ShippedBounds DEF Setting, Policy
<1>5. g.TTL > 0 /\ g.TTL <= q.Max  BY <1>2, <1>3, <1>4
<1>6. /\ q.Max <= leasePolicy(s).Max
      /\ leasePolicy(s).Max <= Shipped(s.deployment).Max
      /\ s.tenant.Max > 0 => leasePolicy(s).Max <= s.tenant.Max
      /\ s.project.Max > 0 => q.Max <= s.project.Max
  BY PolicyBounds
<1> QED BY <1>3, <1>4, <1>5, <1>6

\* Only a caller who named the figure is refused: where no stored length is
\* negative, a claim fails on its length exactly when it asks for a negative one
\* or for more than the ceiling.  Of a default above a ceiling that was lowered
\* later it gets the ceiling (the comment in Grant).
THEOREM OnlyTheCallerIsRefused ==
  ASSUME NEW s \in Setting, NEW task \in Nat, NEW claim \in Int,
         s.project.Default >= 0, workflowLease(s.workflow) >= 0
  PROVE  leaseGrant(s, task, claim).refused <=>
           claim < 0 \/ claim > projectPolicy(s).Max
<1> DEFINE q == projectPolicy(s)
           o == OfferOf(s, task, claim)
           g == leaseGrant(s, task, claim)
           ttl == Chosen(Shipped(q), o).ttl
<1>1. g = Grant(q, o) /\ o \in Offer /\ o["claim"] = claim  BY OfferFields
<1>2. /\ q \in Policy /\ q.Default > 0 /\ q.Max > 0 /\ leasePolicy(s).Default > 0
      /\ q.Max \in Int /\ leasePolicy(s).Default \in Int
  BY PolicyBounds DEF Policy
<1>3. g.refused <=> ttl <= 0 \/ (ttl > q.Max /\ claim # 0)
  BY <1>1, <1>2, GrantIsHeldToTheCeiling
<1>4. CASE claim # 0
  <2>1. ttl = claim  BY <1>4, FirstHeard
  <2> QED BY <1>2, <1>3, <1>4, <2>1
<1>5. CASE claim = 0
  <2>1. ttl > 0
    <3>1. s.project.Default \in Int /\ workflowLease(s.workflow) \in Int
      BY DEF Setting, workflowLease
    <3>2. /\ task # 0 => ttl = task
          /\ task = 0 /\ s.project.Default # 0 => ttl = s.project.Default
          /\ task = 0 /\ s.project.Default = 0 =>
               ttl = workflowLease(s.workflow) \/ ttl = leasePolicy(s).Default
          /\ task = 0 /\ s.project.Default = 0 /\ workflowLease(s.workflow) = 0 =>
               ttl = leasePolicy(s).Default
      BY <1>5, FirstHeard
    <3>3. CASE task # 0  BY <3>2, <3>3
    <3>4. CASE task = 0 /\ s.project.Default # 0  BY <3>1, <3>2, <3>4
    <3>5. CASE task = 0 /\ s.project.Default = 0
      <4>1. CASE workflowLease(s.workflow) = 0  BY <1>2, <3>2, <3>5, <4>1
      <4>2. CASE workflowLease(s.workflow) # 0  BY <1>2, <3>1, <3>2, <3>5, <4>2
      <4> QED BY <4>1, <4>2
    <3> QED BY <3>3, <3>4, <3>5
  <2>2. ttl \in Int  BY FirstHeard
  <2>3. ~(ttl <= 0)  BY <2>1, <2>2
  <2>4. ~g.refused  BY <1>3, <1>5, <2>3
  <2>5. ~(claim < 0) /\ ~(claim > q.Max)  BY <1>2, <1>5
  <2> QED BY <2>4, <2>5
<1> QED BY <1>4, <1>5

\* A length that was accepted is the one that is granted, as long as the levels
\* stand: nobody is shown one figure and given another (checkTaskLease,
\* checkProjectLease).
THEOREM AcceptedLengthsAreGranted ==
  ASSUME NEW s \in Setting, NEW task \in Int
  PROVE  /\ checkTaskLease(s, task) /\ task > 0 =>
              ~leaseGrant(s, task, 0).refused /\ leaseGrant(s, task, 0).TTL = task
         /\ checkProjectLease(s) /\ s.project.Default > 0 =>
              ~leaseGrant(s, 0, 0).refused /\ leaseGrant(s, 0, 0).TTL = s.project.Default
         /\ checkProjectLease(s) /\ s.project.Max > 0 =>
              leaseGrant(s, task, 0).Max = s.project.Max
<1> DEFINE q == projectPolicy(s)
<1>1. /\ q \in Policy /\ q.Default > 0 /\ q.Max > 0 /\ q.Max \in Int
      /\ leasePolicy(s) \in Policy /\ leasePolicy(s).Max > 0 /\ leasePolicy(s).Max \in Int
      /\ s.project.Default \in Int /\ s.project.Max \in Int
  BY PolicyBounds DEF Policy, Setting
<1>2. ASSUME NEW t \in Int
      PROVE  LET g == leaseGrant(s, t, 0)
                 ttl == Chosen(Shipped(q), OfferOf(s, t, 0)).ttl
             IN /\ g.refused <=> ttl <= 0
                /\ ~g.refused => g.TTL = IF ttl > q.Max THEN q.Max ELSE ttl
                /\ ~g.refused => (g.Clamped <=> ttl > q.Max)
                /\ g.Max = q.Max
  <2>1. /\ OfferOf(s, t, 0) \in Offer /\ OfferOf(s, t, 0)["claim"] = 0
        /\ leaseGrant(s, t, 0) = Grant(q, OfferOf(s, t, 0))
    BY OfferFields
  <2> HIDE DEF q
  <2> QED BY <1>1, <2>1, GrantIsHeldToTheCeiling
<1>3. ASSUME checkTaskLease(s, task), task > 0
      PROVE  ~leaseGrant(s, task, 0).refused /\ leaseGrant(s, task, 0).TTL = task
  <2>1. Chosen(Shipped(q), OfferOf(s, task, 0)).ttl = task  BY <1>3, FirstHeard
  <2>2. ~leaseGrant(s, task, 0).refused /\ ~leaseGrant(s, task, 0).Clamped
    BY <1>3 DEF checkTaskLease
  <2> QED BY <1>2, <2>1, <2>2
<1>4. ASSUME checkProjectLease(s), s.project.Default > 0
      PROVE  ~leaseGrant(s, 0, 0).refused /\ leaseGrant(s, 0, 0).TTL = s.project.Default
  <2>1. Chosen(Shipped(q), OfferOf(s, 0, 0)).ttl = s.project.Default
    BY <1>1, <1>4, FirstHeard
  <2>2. ~(s.project.Default <= 0) /\ ~(s.project.Default > q.Max)
    BY <1>1, <1>4 DEF checkProjectLease
  <2> QED BY <1>2, <2>1, <2>2
<1>5. ASSUME checkProjectLease(s), s.project.Max > 0
      PROVE  leaseGrant(s, task, 0).Max = s.project.Max
  <2>1. s.project.Max <= leasePolicy(s).Max  BY <1>5 DEF checkProjectLease
  <2>2. q.Max = s.project.Max
    BY <1>1, <1>5, <2>1, CapBounds DEF projectPolicy, Bound
  <2> QED BY <1>2, <2>2
<1> QED BY <1>3, <1>4, <1>5

\* Lowering a ceiling only shortens: who gets a lease under the lower one gets
\* one under the higher, at least as long (Cap; a ceiling that was never set
\* has been replaced by the shipped one before, in leasePolicy).
THEOREM LowerCeilingsOnlyShorten ==
  ASSUME NEW p \in Policy, p.Default > 0, p.Max > 0, NEW o \in Offer,
         NEW m \in Int, NEW from \in Bound, ~Grant(Cap(p, m, from), o).refused
  PROVE  /\ ~Grant(p, o).refused
         /\ Grant(Cap(p, m, from), o).TTL <= Grant(p, o).TTL
<1> DEFINE q == Cap(p, m, from)
           ttl == Chosen(Shipped(p), o).ttl
<1>1. /\ q \in Policy /\ q.Default = p.Default /\ q.Max > 0 /\ q.Max <= p.Max
      /\ q.Max \in Int /\ p.Max \in Int
  BY CapBounds DEF Policy
<1>2. ttl \in Int  BY ShippedBounds, ChosenIsTheFirst
<1>3. Chosen(Shipped(q), o).ttl = ttl
  <2>1. Shipped(q).Default = Shipped(p).Default  BY <1>1 DEF Shipped
  <2> HIDE DEF q
  <2> QED BY <2>1 DEF Chosen
<1>4. /\ Grant(p, o).refused <=> ttl <= 0 \/ (ttl > p.Max /\ o["claim"] # 0)
      /\ ~Grant(p, o).refused => Grant(p, o).TTL = IF ttl > p.Max THEN p.Max ELSE ttl
  BY GrantIsHeldToTheCeiling
<1>5. /\ Grant(q, o).refused <=> ttl <= 0 \/ (ttl > q.Max /\ o["claim"] # 0)
      /\ ~Grant(q, o).refused => Grant(q, o).TTL = IF ttl > q.Max THEN q.Max ELSE ttl
  <2> HIDE DEF q
  <2> QED BY <1>1, <1>3, GrantIsHeldToTheCeiling
<1> HIDE DEF q, ttl
<1>6. ~Grant(q, o).refused  BY DEF q
<1>7. ~Grant(p, o).refused  BY <1>1, <1>2, <1>4, <1>5, <1>6
<1>8. Grant(q, o).TTL <= Grant(p, o).TTL  BY <1>1, <1>2, <1>4, <1>5, <1>6, <1>7
<1> QED BY <1>7, <1>8 DEF q

\* A queue claim is granted once before its task is known and once after: where
\* neither the task nor its project nor its workflow names a length, and the
\* project lowers no ceiling, the two agree (claimNextOnce, applyTaskLease).
\* That is what Begin of TaskLease assumes of a queue claim without OwnLease.
THEOREM QueueClaimsKeepTheirLength ==
  ASSUME NEW s \in Setting, NEW claim \in Int,
         s.project.Default = 0, workflowLease(s.workflow) = 0,
         s.project.Max <= 0 \/ s.project.Max >= leasePolicy(s).Max
  PROVE  /\ leaseGrant(s, 0, claim).refused <=> queueGrant(s, claim).refused
         /\ ~queueGrant(s, claim).refused =>
              leaseGrant(s, 0, claim).TTL = queueGrant(s, claim).TTL
<1> DEFINE p == leasePolicy(s)
           q == projectPolicy(s)
<1>1. /\ p \in Policy /\ p.Default > 0 /\ p.Max > 0
      /\ q \in Policy /\ q.Default = p.Default /\ q.Max > 0
  BY PolicyBounds
<1>2. q.Max = p.Max
  <2>1. s.project.Max \in Int /\ "project" \in Bound  BY DEF Setting, Bound
  <2>2. q = Cap(p, s.project.Max, "project")  BY DEF projectPolicy
  <2> HIDE DEF p, q
  <2>3. s.project.Max <= 0 \/ s.project.Max >= p.Max  BY DEF p
  <2> QED BY <1>1, <2>1, <2>2, <2>3, CapBounds
<1>3. OfferOf(s, 0, claim) = QueueOffer(claim)
  BY DEF OfferOf, QueueOffer, Level
<1>4. QueueOffer(claim) \in Offer  BY <1>3, OfferFields
<1>5. leaseGrant(s, 0, claim) = Grant(q, QueueOffer(claim))  BY <1>3, OfferFields
<1>6. queueGrant(s, claim) = Grant(p, QueueOffer(claim))  BY DEF queueGrant, QueueOffer
<1>7. Chosen(Shipped(q), QueueOffer(claim)).ttl = Chosen(Shipped(p), QueueOffer(claim)).ttl
  <2>1. Shipped(q).Default = Shipped(p).Default  BY <1>1 DEF Shipped
  <2> HIDE DEF p, q
  <2> QED BY <2>1 DEF Chosen
<1> HIDE DEF p, q
<1> DEFINE o == QueueOffer(claim)
           ttl == Chosen(Shipped(p), o).ttl
<1>8. /\ Grant(p, o).refused <=> ttl <= 0 \/ (ttl > p.Max /\ o["claim"] # 0)
      /\ ~Grant(p, o).refused => Grant(p, o).TTL = IF ttl > p.Max THEN p.Max ELSE ttl
  BY <1>1, <1>4, GrantIsHeldToTheCeiling
<1>9. /\ Grant(q, o).refused <=> ttl <= 0 \/ (ttl > p.Max /\ o["claim"] # 0)
      /\ ~Grant(q, o).refused => Grant(q, o).TTL = IF ttl > p.Max THEN p.Max ELSE ttl
  BY <1>1, <1>2, <1>4, <1>7, GrantIsHeldToTheCeiling
<1>10. Grant(q, o).refused <=> Grant(p, o).refused  BY <1>8, <1>9
<1>11. ~Grant(p, o).refused => Grant(q, o).TTL = Grant(p, o).TTL  BY <1>8, <1>9, <1>10
<1> QED BY <1>5, <1>6, <1>10, <1>11

=============================================================================
