--------------------------- MODULE Webhooks_proofs ---------------------------
(***************************************************************************)
(* What the delivery queue keeps for any number of endpoints, dispatchers  *)
(* and events, any lease and any schedule.  The invariant relates what a   *)
(* dispatcher has in hand to the rows it claimed: as long as its lease     *)
(* runs and nobody cleared its lock, the row is pending and locked by it,  *)
(* for exactly as long as the lease of its batch has left.                 *)
(***************************************************************************)
EXTENDS Webhooks, TLAPS

-----------------------------------------------------------------------------
(* Passes and rows *)

\* The jobs a dispatcher has in hand.
Jobs(p) == IF p.pc = "batch" THEN p.jobs
           ELSE IF p.pc = "answered" THEN p.jobs \cup {p.job} ELSE {}

\* What is in hand are the deliveries of the jobs.
LEMMA HandOfJobs == \A p \in Pass : InHand(p) = {j.of : j \in Jobs(p)}
BY DEF InHand, Jobs, Pass

\* The fields of a pass that is under way.
LEMMA PassFields ==
  ASSUME NEW p \in Pass
  PROVE  /\ p.pc \in {"idle", "dead", "batch", "answered"}
         /\ p.pc \in {"batch", "answered"} => p.jobs \in SUBSET Job /\ p.left \in Nat
         /\ p.pc = "answered" => p.job \in Job /\ p.ok \in BOOLEAN
         /\ Jobs(p) \in SUBSET Job
BY DEF Pass, Jobs

\* The passes there are.
LEMMA PassForms ==
  /\ Idle \in Pass /\ Dead \in Pass
  /\ \A jobs \in SUBSET Job, left \in Nat : [pc |-> "batch", jobs |-> jobs, left |-> left] \in Pass
  /\ \A jobs \in SUBSET Job, left \in Nat, job \in Job, ok \in BOOLEAN :
       [pc |-> "answered", jobs |-> jobs, left |-> left, job |-> job, ok |-> ok] \in Pass
BY DEF Pass, Idle, Dead

\* A pass with one job fewer.
LEMMA OnwardPass ==
  ASSUME NEW p \in Pass, p.pc \in {"batch", "answered"}
  PROVE  /\ Onward(p) \in Pass /\ Jobs(Onward(p)) = p.jobs
         /\ p.jobs # {} => Onward(p).left = p.left
         /\ Onward(p).pc # "answered"
BY PassFields, PassForms DEF Onward, Jobs, Idle

\* What the schedule owes is a time, and it is spent after its last attempt.
LEMMA OwedIsTime == \A n \in Nat \ {0} : Owed(n) \in Nat /\ (Spent(n) => n >= MaxAttempts)
<1> SUFFICES ASSUME NEW n \in Nat \ {0}
             PROVE  Owed(n) \in Nat /\ (Spent(n) => n >= MaxAttempts)
  OBVIOUS
<1> USE ScheduleAssumption
<1>1. Counted(n) = n
  BY DEF Counted
<1>2. Spent(n) <=> Counted(n) > Retries
  BY DEF Spent
<1>3. ~Spent(n) => Counted(n) \in 1..Retries
  BY <1>1, <1>2
<1>4. Owed(n) \in Nat
  BY <1>3 DEF Owed
<1>5. Spent(n) => n >= MaxAttempts
  BY <1>1, <1>2 DEF MaxAttempts
<1> QED  BY <1>4, <1>5

\* A marked row.
LEMMA MarkedRow ==
  ASSUME NEW r \in Row, NEW status \in {"pending", "delivered", "failed"}, NEW due \in Nat
  PROVE  /\ Marked(r, status, due) \in Row
         /\ Marked(r, status, due).status = status
         /\ Marked(r, status, due).attempts = r.attempts + 1
         /\ Marked(r, status, due).lock = 0
         /\ Marked(r, status, due) # NoRow
BY DEF Marked, Row, NoRow

\* The two marks.
LEMMA Marks ==
  ASSUME NEW r \in Row, NEW due \in Nat, NEW terminal \in BOOLEAN
  PROVE  /\ MarkDelivered(r) \in Row /\ MarkFailed(r, due, terminal) \in Row
         /\ MarkDelivered(r).status = "delivered"
         /\ MarkFailed(r, due, terminal).status = IF terminal THEN "failed" ELSE "pending"
         /\ MarkDelivered(r).attempts = r.attempts + 1
         /\ MarkFailed(r, due, terminal).attempts = r.attempts + 1
         /\ MarkDelivered(r).lock = 0 /\ MarkFailed(r, due, terminal).lock = 0
         /\ MarkDelivered(r) # NoRow /\ MarkFailed(r, due, terminal) # NoRow
<1> DEFINE status == IF terminal THEN "failed" ELSE "pending"
           wait == IF terminal THEN 0 ELSE due
<1>1. status \in {"pending", "delivered", "failed"} /\ wait \in Nat
  OBVIOUS
<1>2. MarkDelivered(r) = Marked(r, "delivered", 0)
  BY DEF MarkDelivered
<1>3. MarkFailed(r, due, terminal) = Marked(r, status, wait)
  BY DEF MarkFailed
<1> HIDE DEF status, wait
<1>4. /\ Marked(r, status, wait) \in Row
      /\ Marked(r, status, wait).status = status
      /\ Marked(r, status, wait).attempts = r.attempts + 1
      /\ Marked(r, status, wait).lock = 0
      /\ Marked(r, status, wait) # NoRow
  BY <1>1, MarkedRow
<1>5. /\ Marked(r, "delivered", 0) \in Row
      /\ Marked(r, "delivered", 0).status = "delivered"
      /\ Marked(r, "delivered", 0).attempts = r.attempts + 1
      /\ Marked(r, "delivered", 0).lock = 0
      /\ Marked(r, "delivered", 0) # NoRow
  BY MarkedRow
<1> QED  BY <1>2, <1>3, <1>4, <1>5 DEF status

\* A row that is made pending again at once, its lock freed.
LEMMA Requeued ==
  ASSUME NEW r \in Row
  PROVE  LET new == MarkFailed(r, 0, FALSE) IN
         /\ new \in Row /\ new.status = "pending" /\ new.attempts = r.attempts + 1
         /\ new.lock = 0 /\ new # NoRow
<1> DEFINE due == 0
           terminal == FALSE
<1>1. due \in Nat /\ terminal \in BOOLEAN /\ ~terminal
  OBVIOUS
<1> HIDE DEF due, terminal
<1>2. LET new == MarkFailed(r, due, terminal) IN
      /\ new \in Row /\ new.status = "pending" /\ new.attempts = r.attempts + 1
      /\ new.lock = 0 /\ new # NoRow
  BY <1>1, Marks
<1> QED  BY <1>2 DEF due, terminal

\* A row that is failed for good.
LEMMA UndeliverableRow ==
  ASSUME NEW r \in Row
  PROVE  /\ MarkFailed(r, 0, TRUE) \in Row
         /\ MarkFailed(r, 0, TRUE).attempts = r.attempts + 1
         /\ MarkFailed(r, 0, TRUE).status = "failed"
         /\ MarkFailed(r, 0, TRUE).lock = 0
BY DEF MarkFailed, Marked, Row

-----------------------------------------------------------------------------
(* The invariant *)

\* Rows: their events are committed, a lock is on a pending row, and what is
\* delivered was accepted.
RowInv ==
  \A x \in Delivery : Exists(x) =>
    /\ x[2] <= log
    /\ row[x].lock > 0 => row[x].status = "pending"
    /\ row[x].status = "delivered" => x \in accepted

\* Jobs: their events are committed, a pass has one per delivery, and the row
\* has counted no fewer attempts than its job.
JobInv ==
  \A d \in Dispatcher : \A j \in Jobs(disp[d]) :
    /\ j.of[2] <= log
    /\ \A i \in Jobs(disp[d]) : i.of = j.of => i = j
    /\ Exists(j.of) => row[j.of].attempts >= j.attempts

\* A claim that has not lapsed and was not taken is the lock on the row.
HeldInv ==
  \A d \in Dispatcher : \A j \in Jobs(disp[d]) :
    Exists(j.of) /\ disp[d].left > 0 /\ <<d, j.of>> \notin lost =>
      /\ row[j.of].by = d /\ row[j.of].lock = disp[d].left
      /\ row[j.of].status = "pending"

\* No two live claims, said of jobs.
OneHand ==
  \A d, e \in Dispatcher : \A i \in Jobs(disp[d]), j \in Jobs(disp[e]) :
    i.of = j.of =>
      \/ d = e
      \/ disp[d].left = 0 \/ <<d, i.of>> \in lost
      \/ disp[e].left = 0 \/ <<e, i.of>> \in lost

\* An answer of success was given, and the job it answers is out of the rest.
AnswerInv ==
  \A d \in Dispatcher : disp[d].pc = "answered" =>
    /\ disp[d].job \notin disp[d].jobs
    /\ disp[d].ok => disp[d].job.of \in accepted

IInv == TypeOK /\ RowInv /\ JobInv /\ HeldInv /\ OneHand /\ AnswerInv

LEMMA InitIInv == Init => IInv
<1> SUFFICES ASSUME Init
             PROVE  IInv
  OBVIOUS
<1>1. TypeOK
  BY PassForms, LimitsAssumption DEF Init, TypeOK
<1>2. \A d \in Dispatcher : Jobs(disp[d]) = {} /\ disp[d].pc = "idle"
  BY DEF Init, Jobs, Idle
<1>3. \A x \in Delivery : ~Exists(x)
  BY DEF Init, Exists
<1> QED
  BY <1>1, <1>2, <1>3 DEF IInv, RowInv, JobInv, HeldInv, OneHand, AnswerInv

\* The rows that exist.
LEMMA RowTypes == TypeOK => \A x \in Delivery : Exists(x) <=> row[x] \in Row
BY DEF TypeOK, Exists, NoRow, Row

-----------------------------------------------------------------------------
(* Rows that change while every pass stands still *)

\* Rows that come, go, or are marked, with the locks that a mark takes noted,
\* keep what relates them to the passes.
LEMMA RowsChange ==
  ASSUME IInv, TypeOK', UNCHANGED <<disp, accepted>>, log' >= log,
         lost \subseteq lost',
         \A x \in Delivery : x[2] <= log =>
           \/ row'[x] = row[x]
           \/ row'[x] = NoRow
           \/ /\ Exists(x) /\ row'[x] # NoRow /\ row'[x].attempts >= row[x].attempts
              /\ row'[x].lock = 0 /\ row'[x].status # "delivered"
              /\ \A d \in Dispatcher : row[x].by = d /\ x \in InHand(disp[d]) => <<d, x>> \in lost',
         \A x \in Delivery : x[2] > log /\ row'[x] # NoRow =>
           x[2] <= log' /\ row'[x].lock = 0 /\ row'[x].status = "pending"
  PROVE  IInv'
<1>0. TypeOK /\ RowInv /\ JobInv /\ HeldInv /\ OneHand /\ AnswerInv  BY DEF IInv
<1>1. log \in Int /\ log' \in Int /\ \A x \in Delivery : x[2] \in Int
  BY <1>0, LimitsAssumption DEF TypeOK, Delivery
<1>2. \A d \in Dispatcher : disp[d] \in Pass /\ Jobs(disp[d]) \in SUBSET Job
  BY <1>0, PassFields DEF TypeOK
<1>3. \A x \in Delivery : Exists(x) => row[x] \in Row
  BY <1>0, RowTypes
<1>4. RowInv'
  <2> SUFFICES ASSUME NEW x \in Delivery, row'[x] # NoRow
               PROVE  /\ x[2] <= log'
                      /\ row'[x].lock > 0 => row'[x].status = "pending"
                      /\ row'[x].status = "delivered" => x \in accepted'
    BY DEF RowInv, Exists
  <2>1. CASE x[2] > log  BY <2>1, <1>1
  <2>2. CASE x[2] <= log
    <3>1. CASE row'[x] = row[x]
      BY <3>1, <2>2, <1>0, <1>1 DEF RowInv, Exists
    <3>2. CASE row'[x] # row[x]
      BY <3>2, <2>2, <1>1
    <3> QED  BY <3>1, <3>2
  <2> QED  BY <2>1, <2>2, <1>1
<1>5. ASSUME NEW d \in Dispatcher, NEW j \in Jobs(disp[d])
      PROVE  /\ j.of[2] <= log'
             /\ row'[j.of] # NoRow => row'[j.of].attempts >= j.attempts
             /\ row'[j.of] # NoRow /\ disp[d].left > 0 /\ <<d, j.of>> \notin lost' =>
                  row'[j.of].by = d /\ row'[j.of].lock = disp[d].left
                  /\ row'[j.of].status = "pending"
  <2> DEFINE x == j.of
  <2>1. j \in Job /\ x \in Delivery  BY <1>2 DEF Job
  <2>2. x[2] <= log /\ x[2] <= log'  BY <1>0, <1>1, <1>5, <2>1 DEF JobInv
  <2>3. x \in InHand(disp[d])  BY <1>2, <1>5, HandOfJobs
  <2>4. CASE row'[x] = row[x]
    <3>1. row'[x] # NoRow => row[x].attempts >= j.attempts
      BY <1>0, <1>5, <2>4 DEF JobInv, Exists
    <3>2. row'[x] # NoRow /\ disp[d].left > 0 /\ <<d, x>> \notin lost =>
            row[x].by = d /\ row[x].lock = disp[d].left /\ row[x].status = "pending"
      BY <1>0, <1>5, <2>4 DEF HeldInv, Exists
    <3> QED  BY <2>2, <2>4, <3>1, <3>2
  <2>5. CASE row'[x] # row[x] /\ row'[x] # NoRow
    <3>1. /\ Exists(x) /\ row'[x].attempts >= row[x].attempts
          /\ row[x].by = d => <<d, x>> \in lost'
      BY <2>1, <2>2, <2>3, <2>5
    <3>2. row[x].attempts >= j.attempts  BY <1>0, <1>5, <3>1 DEF JobInv
    <3>3. row[x].attempts \in Nat /\ row'[x].attempts \in Nat /\ j.attempts \in Nat
      <4>1. row'[x] \in Row  BY <2>1, <2>5 DEF TypeOK
      <4> QED  BY <1>3, <2>1, <3>1, <4>1 DEF Row, Job
    <3>4. disp[d].left > 0 /\ <<d, x>> \notin lost => row[x].by = d
      BY <1>0, <1>5, <3>1 DEF HeldInv
    <3> QED  BY <2>2, <3>1, <3>2, <3>3, <3>4
  <2> QED  BY <2>2, <2>4, <2>5
<1>6. JobInv'
  BY <1>0, <1>5 DEF JobInv, Exists
<1>7. HeldInv'
  BY <1>5 DEF HeldInv, Exists
<1>8. OneHand'
  BY <1>0 DEF OneHand
<1>9. AnswerInv'
  BY <1>0 DEF AnswerInv
<1> QED  BY <1>4, <1>6, <1>7, <1>8, <1>9 DEF IInv

\* Events, endpoints and retention.
LEMMA OutsideKeepsIInv ==
  ASSUME IInv,
         \/ Record \/ PruneEvents
         \/ \E e \in Endpoint : PutWebhook(e) \/ DeleteWebhook(e)
         \/ \E x \in Delivery : PruneDelivery(x)
  PROVE  IInv'
<1>0. TypeOK  BY DEF IInv
<1>1. log \in Int /\ pruned \in Int /\ \A x \in Delivery : x[2] \in Int
  BY <1>0, LimitsAssumption DEF TypeOK, Delivery
<1>2. CASE Record
  <2>1. /\ log' = log + 1 /\ log' \in 0..MaxSeq
        /\ UNCHANGED <<endpoint, pruned, disp, accepted, lost, requeues, errors>>
    BY <1>0, <1>2, LimitsAssumption DEF Record, TypeOK
  <2>2. PICK matching \in SUBSET {e \in Endpoint : endpoint[e] = "active"} :
          row' = [x \in Delivery |-> IF x[1] \in matching /\ x[2] = log' THEN NewRow ELSE row[x]]
    BY <1>2 DEF Record
  <2>3. NewRow \in Row /\ NewRow.lock = 0 /\ NewRow.status = "pending"
    BY DEF NewRow, Row
  <2>4. TypeOK'
    <3>1. row' \in [Delivery -> Row \cup {NoRow}]
      BY <1>0, <2>2, <2>3 DEF TypeOK
    <3>2. pruned \in 0..log'  BY <1>0, <1>1, <2>1 DEF TypeOK
    <3> QED  BY <1>0, <2>1, <3>1, <3>2 DEF TypeOK
  <2>5. \A x \in Delivery : x[2] <= log => row'[x] = row[x]
    BY <1>1, <2>1, <2>2
  <2>6. \A x \in Delivery : x[2] > log /\ row'[x] # NoRow =>
          x[2] <= log' /\ row'[x].lock = 0 /\ row'[x].status = "pending"
    <3> SUFFICES ASSUME NEW x \in Delivery, x[2] > log, row'[x] # NoRow
                 PROVE  x[2] <= log' /\ row'[x].lock = 0 /\ row'[x].status = "pending"
      OBVIOUS
    <3>1. row[x] = NoRow  BY <1>1 DEF IInv, RowInv, Exists
    <3>2. x[2] = log' /\ row'[x] = NewRow  BY <2>2, <3>1
    <3> QED  BY <1>1, <2>1, <2>3, <3>2
  <2>7. log' >= log  BY <1>1, <2>1
  <2> QED  BY <2>1, <2>4, <2>5, <2>6, <2>7, RowsChange
<1>3. ASSUME UNCHANGED <<log, disp, accepted, lost>>, TypeOK',
             \A x \in Delivery : row'[x] = row[x] \/ row'[x] = NoRow
      PROVE  IInv'
  <2>1. \A x \in Delivery : x[2] > log => row'[x] = NoRow
    BY <1>1, <1>3 DEF IInv, RowInv, Exists
  <2>2. log' >= log  BY <1>1, <1>3
  <2> QED  BY <1>3, <2>1, <2>2, RowsChange
<1>4. CASE PruneEvents
  <2>1. TypeOK'
    BY <1>0, <1>1, <1>4 DEF PruneEvents, TypeOK
  <2> QED  BY <1>3, <1>4, <2>1 DEF PruneEvents
<1>5. ASSUME NEW e \in Endpoint, PutWebhook(e)
      PROVE  IInv'
  <2>1. TypeOK'
    BY <1>0, <1>5 DEF PutWebhook, TypeOK
  <2> QED  BY <1>3, <1>5, <2>1 DEF PutWebhook
<1>6. ASSUME NEW e \in Endpoint, DeleteWebhook(e)
      PROVE  IInv'
  <2>1. TypeOK'
    BY <1>0, <1>6 DEF DeleteWebhook, TypeOK
  <2> QED  BY <1>3, <1>6, <2>1 DEF DeleteWebhook
<1>7. ASSUME NEW x \in Delivery, PruneDelivery(x)
      PROVE  IInv'
  <2>1. TypeOK'
    BY <1>0, <1>7 DEF PruneDelivery, TypeOK
  <2>2. \A y \in Delivery : row'[y] = row[y] \/ row'[y] = NoRow
    BY <1>0, <1>7 DEF PruneDelivery, TypeOK
  <2> QED  BY <1>3, <1>7, <2>1, <2>2 DEF PruneDelivery
<1> QED  BY <1>2, <1>4, <1>5, <1>6, <1>7

\* A redelivery notes whose lock it takes.
LEMMA RedeliverKeepsIInv ==
  ASSUME IInv, NEW x \in Delivery, Redeliver(x)
  PROVE  IInv'
<1>0. TypeOK  BY DEF IInv
<1>1. log \in Int /\ \A y \in Delivery : y[2] \in Int
  BY <1>0, LimitsAssumption DEF TypeOK, Delivery
<1>2. /\ Exists(x) /\ row[x] \in Row
      /\ row' = [row EXCEPT ![x] = MarkFailed(row[x], 0, FALSE)]
      /\ lost' = lost \cup Losers(x)
      /\ UNCHANGED <<endpoint, log, pruned, disp, accepted, errors>>
  BY <1>0, RowTypes DEF Redeliver
<1> DEFINE new == MarkFailed(row[x], 0, FALSE)
<1>3. /\ new \in Row /\ new.status = "pending" /\ new.attempts = row[x].attempts + 1
      /\ new.lock = 0 /\ new # NoRow
  BY <1>2, Requeued
<1> HIDE DEF new
<1>4. row'[x] = new /\ \A y \in Delivery : y # x => row'[y] = row[y]
  BY <1>0, <1>2 DEF TypeOK, new
<1>5. TypeOK'
  <2>1. row' \in [Delivery -> Row \cup {NoRow}]
    BY <1>0, <1>2, <1>3 DEF TypeOK, new
  <2>2. Losers(x) \subseteq Dispatcher \X Delivery  BY DEF Losers
  <2>3. requeues' \in 0..MaxRequeues
    BY <1>0, LimitsAssumption DEF Redeliver, TypeOK
  <2> QED  BY <1>0, <1>2, <2>1, <2>2, <2>3 DEF TypeOK
<1>6. \A d \in Dispatcher : row[x].by = d /\ x \in InHand(disp[d]) => <<d, x>> \in lost'
  BY <1>2 DEF Losers
<1>7. row'[x].attempts >= row[x].attempts
  <2>1. row[x].attempts \in Nat  BY <1>2 DEF Row
  <2> QED  BY <2>1, <1>3, <1>4
<1>8. \A y \in Delivery : y[2] <= log =>
        \/ row'[y] = row[y]
        \/ row'[y] = NoRow
        \/ /\ Exists(y) /\ row'[y] # NoRow /\ row'[y].attempts >= row[y].attempts
           /\ row'[y].lock = 0 /\ row'[y].status # "delivered"
           /\ \A d \in Dispatcher : row[y].by = d /\ y \in InHand(disp[d]) => <<d, y>> \in lost'
  <2> SUFFICES ASSUME NEW y \in Delivery, row'[y] # row[y]
               PROVE  /\ Exists(y) /\ row'[y] # NoRow /\ row'[y].attempts >= row[y].attempts
                      /\ row'[y].lock = 0 /\ row'[y].status # "delivered"
                      /\ \A d \in Dispatcher :
                           row[y].by = d /\ y \in InHand(disp[d]) => <<d, y>> \in lost'
    OBVIOUS
  <2>1. y = x  BY <1>4
  <2> QED  BY <2>1, <1>2, <1>3, <1>4, <1>6, <1>7
<1>9. \A y \in Delivery : y[2] > log => row'[y] = NoRow
  <2> SUFFICES ASSUME NEW y \in Delivery, y[2] > log
               PROVE  row'[y] = NoRow
    OBVIOUS
  <2>1. ~Exists(y)  BY <1>1 DEF IInv, RowInv
  <2>2. y # x  BY <1>2, <2>1
  <2> QED  BY <1>4, <2>1, <2>2 DEF Exists
<1>10. log' >= log /\ lost \subseteq lost'  BY <1>1, <1>2
<1> QED  BY <1>2, <1>5, <1>8, <1>9, <1>10, RowsChange

-----------------------------------------------------------------------------
(* A pass *)

\* A pass that ends, or goes on with the same rows, keeps what relates them,
\* if what it has in hand it had in hand before.
LEMMA PassChanges ==
  ASSUME IInv, TypeOK', NEW d \in Dispatcher, UNCHANGED <<row, log>>,
         accepted \subseteq accepted',
         \A e \in Dispatcher : e # d => disp'[e] = disp[e],
         Jobs(disp'[d]) \subseteq Jobs(disp[d]),
         Jobs(disp'[d]) # {} => disp'[d].left = disp[d].left,
         \A e \in Dispatcher, x \in Delivery :
           <<e, x>> \in lost /\ (e # d \/ Jobs(disp'[d]) # {}) => <<e, x>> \in lost',
         disp'[d].pc = "answered" =>
           /\ disp'[d].job \notin disp'[d].jobs
           /\ disp'[d].ok => disp'[d].job.of \in accepted'
  PROVE  IInv'
<1>0. TypeOK /\ RowInv /\ JobInv /\ HeldInv /\ OneHand /\ AnswerInv  BY DEF IInv
<1>1. \A e \in Dispatcher : Jobs(disp[e]) \in SUBSET Job
  BY <1>0, PassFields DEF TypeOK
<1>2. \A e \in Dispatcher : \A j \in Jobs(disp'[e]) :
        /\ j \in Jobs(disp[e]) /\ j.of \in Delivery /\ disp'[e].left = disp[e].left
        /\ <<e, j.of>> \in lost => <<e, j.of>> \in lost'
  <2> SUFFICES ASSUME NEW e \in Dispatcher, NEW j \in Jobs(disp'[e])
               PROVE  /\ j \in Jobs(disp[e]) /\ j.of \in Delivery /\ disp'[e].left = disp[e].left
                      /\ <<e, j.of>> \in lost => <<e, j.of>> \in lost'
    OBVIOUS
  <2>1. j \in Jobs(disp[e]) /\ disp'[e].left = disp[e].left
    OBVIOUS
  <2>2. j.of \in Delivery  BY <1>1, <2>1 DEF Job
  <2> QED  BY <2>1, <2>2
<1>3. RowInv'
  BY <1>0 DEF RowInv, Exists
<1>4. JobInv'
  BY <1>0, <1>2 DEF JobInv, Exists
<1>5. HeldInv'
  BY <1>0, <1>2 DEF HeldInv, Exists
<1>6. OneHand'
  <2> SUFFICES ASSUME NEW e \in Dispatcher, NEW f \in Dispatcher,
                      NEW i \in Jobs(disp'[e]), NEW j \in Jobs(disp'[f]), i.of = j.of, e # f
               PROVE  \/ disp'[e].left = 0 \/ <<e, i.of>> \in lost'
                      \/ disp'[f].left = 0 \/ <<f, i.of>> \in lost'
    BY DEF OneHand
  <2>1. \/ disp[e].left = 0 \/ <<e, i.of>> \in lost
        \/ disp[f].left = 0 \/ <<f, i.of>> \in lost
    BY <1>0, <1>2 DEF OneHand
  <2>2. /\ disp'[e].left = disp[e].left /\ disp'[f].left = disp[f].left
        /\ <<e, i.of>> \in lost => <<e, i.of>> \in lost'
        /\ <<f, i.of>> \in lost => <<f, i.of>> \in lost'
    BY <1>2
  <2> QED  BY <2>1, <2>2
<1>7. AnswerInv'
  <2> SUFFICES ASSUME NEW e \in Dispatcher, disp'[e].pc = "answered"
               PROVE  /\ disp'[e].job \notin disp'[e].jobs
                      /\ disp'[e].ok => disp'[e].job.of \in accepted'
    BY DEF AnswerInv
  <2>1. CASE e = d  BY <2>1
  <2>2. CASE e # d  BY <1>0, <2>2 DEF AnswerInv
  <2> QED  BY <2>1, <2>2
<1> QED  BY <1>3, <1>4, <1>5, <1>6, <1>7 DEF IInv

\* A pass that ends lets go of all it has.
LEMMA EndKeepsIInv ==
  ASSUME IInv, NEW d \in Dispatcher, MarkNothing(d) \/ MarkFails(d) \/ Die(d)
  PROVE  IInv'
<1>0. TypeOK  BY DEF IInv
<1>1. /\ UNCHANGED <<endpoint, log, pruned, row, accepted, requeues>>
      /\ lost' = GivenUp(d)
  BY DEF MarkNothing, MarkFails, Die
<1>2. PICK p \in {Idle, Dead} : disp' = [disp EXCEPT ![d] = p]
  BY DEF MarkNothing, MarkFails, Die
<1>3. p \in Pass /\ Jobs(p) = {} /\ p.pc # "answered"
  BY PassForms DEF Jobs, Idle, Dead
<1>4. disp'[d] = p /\ \A e \in Dispatcher : e # d => disp'[e] = disp[e]
  BY <1>0, <1>2 DEF TypeOK
<1>5. errors' \in 0..MaxErrors
  BY <1>0, LimitsAssumption DEF TypeOK, MarkNothing, MarkFails, Die
<1>6. TypeOK'
  BY <1>0, <1>1, <1>2, <1>3, <1>5 DEF TypeOK, GivenUp
<1>7. \A e \in Dispatcher, x \in Delivery : <<e, x>> \in lost /\ e # d => <<e, x>> \in lost'
  BY <1>1 DEF GivenUp
<1> QED  BY <1>1, <1>3, <1>4, <1>6, <1>7, PassChanges

\* A request and its answer.
LEMMA PostKeepsIInv ==
  ASSUME IInv, NEW d \in Dispatcher, Post(d)
  PROVE  IInv'
<1>0. TypeOK /\ disp[d] \in Pass /\ disp[d].pc = "batch"  BY DEF IInv, TypeOK, Post
<1>1. PICK j \in disp[d].jobs, reached \in BOOLEAN, ok \in BOOLEAN :
        /\ ok => reached
        /\ disp' = [disp EXCEPT ![d] = [pc |-> "answered", jobs |-> disp[d].jobs \ {j},
                                       left |-> disp[d].left, job |-> j, ok |-> ok]]
        /\ accepted' = IF reached THEN accepted \cup {j.of} ELSE accepted
        /\ UNCHANGED <<endpoint, log, pruned, row, lost, requeues, errors>>
  BY DEF Post
<1> DEFINE p == [pc |-> "answered", jobs |-> disp[d].jobs \ {j},
                 left |-> disp[d].left, job |-> j, ok |-> ok]
<1>2. disp[d].jobs \in SUBSET Job /\ disp[d].left \in Nat
  BY <1>0, PassFields
<1>3. j \in Job /\ j.of \in Delivery  BY <1>2 DEF Job
<1>4. p \in Pass /\ p.pc = "answered" /\ p.job = j /\ p.ok = ok
      /\ p.jobs = disp[d].jobs \ {j} /\ p.left = disp[d].left
  BY <1>2, <1>3, PassForms
<1>5. Jobs(p) = Jobs(disp[d])
  BY <1>0, <1>4 DEF Jobs
<1>6. disp' = [disp EXCEPT ![d] = p]  BY <1>1
<1> HIDE DEF p
<1>7. disp'[d] = p /\ \A e \in Dispatcher : e # d => disp'[e] = disp[e]
  BY <1>0, <1>6 DEF TypeOK
<1>8. TypeOK'
  <2>1. disp' \in [Dispatcher -> Pass]
    BY <1>0, <1>4, <1>6 DEF TypeOK
  <2>2. accepted' \subseteq Delivery
    BY <1>0, <1>1, <1>3 DEF TypeOK
  <2> QED  BY <1>0, <1>1, <2>1, <2>2, Zenon DEF TypeOK
<1>9. p.job \notin p.jobs /\ (p.ok => p.job.of \in accepted')
  BY <1>1, <1>4
<1> QED  BY <1>1, <1>4, <1>5, <1>7, <1>8, <1>9, PassChanges
\* The outcome of a job is written to its row, whoever holds it by now.
LEMMA MarkKeepsIInv ==
  ASSUME IInv, NEW d \in Dispatcher, Mark(d)
  PROVE  IInv'
<1> DEFINE p == disp[d]
           j == disp[d].job
           x == disp[d].job.of
           new == IF p.ok THEN MarkDelivered(row[x])
                  ELSE MarkFailed(row[x], Owed(j.attempts + 1), Spent(j.attempts + 1))
<1>0. TypeOK /\ RowInv /\ JobInv /\ HeldInv /\ OneHand /\ AnswerInv  BY DEF IInv
<1>1. /\ p.pc = "answered" /\ Exists(x) /\ row' = [row EXCEPT ![x] = new]
      /\ lost' = (lost \cup Losers(x)) \ {<<d, x>>}
      /\ disp' = [disp EXCEPT ![d] = Onward(p)]
      /\ UNCHANGED <<endpoint, log, pruned, accepted, requeues, errors>>
  BY DEF Mark
<1>2. p \in Pass /\ j \in Job /\ p.ok \in BOOLEAN /\ p.jobs \in SUBSET Job
      /\ x \in Delivery /\ j.attempts \in Nat /\ Jobs(p) = p.jobs \cup {j}
  <2>1. p \in Pass  BY <1>0 DEF TypeOK
  <2>2. j \in Job /\ p.ok \in BOOLEAN /\ p.jobs \in SUBSET Job  BY <1>1, <2>1, PassFields
  <2> QED  BY <1>1, <2>1, <2>2 DEF Job, Jobs
<1>3. row[x] \in Row  BY <1>0, <1>1, <1>2, RowTypes
<1>4. /\ new \in Row /\ new # NoRow /\ new.lock = 0 /\ new.attempts = row[x].attempts + 1
      /\ new.status = "delivered" => p.ok
  <2>1. Owed(j.attempts + 1) \in Nat  BY <1>2, OwedIsTime
  <2>2. Spent(j.attempts + 1) \in BOOLEAN  BY DEF Spent
  <2> QED  BY <1>2, <1>3, <2>1, <2>2, Marks
<1>5. row'[x] = new /\ \A y \in Delivery : y # x => row'[y] = row[y]
  BY <1>0, <1>1, <1>2 DEF TypeOK
<1>6. /\ disp'[d] = Onward(p) /\ \A e \in Dispatcher : e # d => disp'[e] = disp[e]
      /\ Onward(p) \in Pass /\ Jobs(disp'[d]) = p.jobs
      /\ p.jobs # {} => disp'[d].left = p.left
      /\ disp'[d].pc # "answered"
  BY <1>0, <1>1, <1>2, OnwardPass DEF TypeOK
<1>7. \A e \in Dispatcher : \A i \in Jobs(disp'[e]) :
        /\ i \in Jobs(disp[e]) /\ i \in Job /\ i.of \in Delivery /\ i.attempts \in Nat
        /\ disp'[e].left = disp[e].left
        /\ e = d => i.of # x
  <2> SUFFICES ASSUME NEW e \in Dispatcher, NEW i \in Jobs(disp'[e])
               PROVE  /\ i \in Jobs(disp[e]) /\ i \in Job /\ i.of \in Delivery /\ i.attempts \in Nat
                      /\ disp'[e].left = disp[e].left
                      /\ e = d => i.of # x
    OBVIOUS
  <2>1. i \in Jobs(disp[e]) /\ disp'[e].left = disp[e].left
    BY <1>2, <1>6
  <2>2. i \in Job  BY <1>0, <2>1, PassFields DEF TypeOK
  <2>3. e = d => i.of # x
    <3>1. j \notin p.jobs  BY <1>0, <1>1 DEF AnswerInv
    <3>2. e = d => i \in p.jobs /\ i # j  BY <1>6, <3>1
    <3> QED  BY <1>0, <1>2, <2>1, <3>2 DEF JobInv
  <2> QED  BY <2>1, <2>2, <2>3 DEF Job
<1> HIDE DEF new
<1>8. TypeOK'
  <2>1. Losers(x) \subseteq Dispatcher \X Delivery  BY <1>2 DEF Losers
  <2>2. row' \in [Delivery -> Row \cup {NoRow}]  BY <1>0, <1>1, <1>4 DEF TypeOK
  <2>3. disp' \in [Dispatcher -> Pass]  BY <1>0, <1>1, <1>6 DEF TypeOK
  <2> QED  BY <1>0, <1>1, <2>1, <2>2, <2>3 DEF TypeOK
<1>9. RowInv'
  <2> SUFFICES ASSUME NEW y \in Delivery, row'[y] # NoRow
               PROVE  /\ y[2] <= log /\ (row'[y].lock > 0 => row'[y].status = "pending")
                      /\ row'[y].status = "delivered" => y \in accepted
    BY <1>1 DEF RowInv, Exists
  <2>1. CASE y = x
    BY <1>0, <1>1, <1>4, <1>5, <2>1 DEF RowInv, AnswerInv
  <2>2. CASE y # x
    BY <1>0, <1>5, <2>2 DEF RowInv, Exists
  <2> QED  BY <2>1, <2>2
<1>10. JobInv'
  <2> SUFFICES ASSUME NEW e \in Dispatcher, NEW i \in Jobs(disp'[e])
               PROVE  /\ i.of[2] <= log
                      /\ \A k \in Jobs(disp'[e]) : k.of = i.of => k = i
                      /\ row'[i.of] # NoRow => row'[i.of].attempts >= i.attempts
    BY <1>1 DEF JobInv, Exists
  <2>1. /\ i.of[2] <= log /\ \A k \in Jobs(disp'[e]) : k.of = i.of => k = i
        /\ row[i.of] # NoRow => row[i.of].attempts >= i.attempts
    BY <1>0, <1>7 DEF JobInv, Exists
  <2>2. CASE i.of = x
    <3>1. row[x].attempts \in Nat /\ i.attempts \in Nat /\ row[x].attempts >= i.attempts
      BY <1>1, <1>3, <1>7, <2>1, <2>2 DEF Row, Exists
    <3> QED  BY <1>4, <1>5, <2>1, <2>2, <3>1
  <2>3. CASE i.of # x
    BY <1>5, <1>7, <2>1, <2>3
  <2> QED  BY <2>2, <2>3
<1>11. HeldInv'
  <2> SUFFICES ASSUME NEW e \in Dispatcher, NEW i \in Jobs(disp'[e]),
                      row'[i.of] # NoRow, disp'[e].left > 0, <<e, i.of>> \notin lost'
               PROVE  /\ row'[i.of].by = e /\ row'[i.of].lock = disp'[e].left
                      /\ row'[i.of].status = "pending"
    BY DEF HeldInv, Exists
  <2>1. i \in Jobs(disp[e]) /\ i.of \in Delivery /\ disp[e].left > 0 /\ disp'[e].left = disp[e].left
    BY <1>7
  <2>2. <<e, i.of>> \notin lost
    BY <1>1, <1>7
  <2>3. CASE i.of = x
    <3>1. row[x].by = e  BY <1>0, <1>1, <2>1, <2>2, <2>3 DEF HeldInv
    <3>2. e # d  BY <1>7, <2>3
    <3>3. x \in InHand(disp[e])
      <4>1. disp[e] \in Pass  BY <1>0 DEF TypeOK
      <4> QED  BY <2>1, <2>3, <4>1, HandOfJobs
    <3>4. <<e, x>> \in Losers(x)  BY <3>1, <3>3 DEF Losers
    <3> QED  BY <1>1, <2>3, <3>2, <3>4
  <2>4. CASE i.of # x
    <3>1. row'[i.of] = row[i.of]  BY <1>5, <2>1, <2>4
    <3> QED  BY <1>0, <2>1, <2>2, <3>1 DEF HeldInv, Exists
  <2> QED  BY <2>3, <2>4
<1>12. OneHand'
  <2> SUFFICES ASSUME NEW e \in Dispatcher, NEW f \in Dispatcher,
                      NEW i \in Jobs(disp'[e]), NEW k \in Jobs(disp'[f]), i.of = k.of, e # f
               PROVE  \/ disp'[e].left = 0 \/ <<e, i.of>> \in lost'
                      \/ disp'[f].left = 0 \/ <<f, i.of>> \in lost'
    BY DEF OneHand
  <2>1. \/ disp[e].left = 0 \/ <<e, i.of>> \in lost
        \/ disp[f].left = 0 \/ <<f, i.of>> \in lost
    BY <1>0, <1>7 DEF OneHand
  <2>2. /\ disp'[e].left = disp[e].left /\ disp'[f].left = disp[f].left
        /\ e = d => i.of # x
        /\ f = d => k.of # x
    BY <1>7
  <2>3. /\ <<e, i.of>> \in lost => <<e, i.of>> \in lost'
        /\ <<f, i.of>> \in lost => <<f, i.of>> \in lost'
    BY <1>1, <2>2
  <2> QED  BY <2>1, <2>2, <2>3
<1>13. AnswerInv'
  BY <1>0, <1>1, <1>6 DEF AnswerInv
<1> QED  BY <1>8, <1>9, <1>10, <1>11, <1>12, <1>13 DEF IInv
\* A claim takes rows nobody holds, or that it holds itself.
LEMMA ClaimKeepsIInv ==
  ASSUME IInv, NEW d \in Dispatcher, Claim(d)
  PROVE  IInv'
<1>0. TypeOK /\ RowInv /\ JobInv /\ HeldInv /\ OneHand /\ AnswerInv  BY DEF IInv
<1>1. PICK picked \in SUBSET {x \in Delivery : Due(x)} :
       LET claimed == ReadBack(d, picked)
           dead    == {x \in claimed : ~Loadable(x)}
           jobs    == {[of |-> x, attempts |-> row[x].attempts] : x \in claimed \ dead}
       IN /\ row' = [x \in Delivery |->
               IF x \in dead THEN MarkFailed(row[x], 0, TRUE)
               ELSE IF x \in claimed THEN [row[x] EXCEPT !.lock = Lease, !.by = d]
               ELSE row[x]]
          /\ disp' = [disp EXCEPT ![d] =
               IF jobs = {} THEN Idle ELSE [pc |-> "batch", jobs |-> jobs, left |-> Lease]]
  BY DEF Claim
<1> DEFINE claimed == ReadBack(d, picked)
           dead    == {x \in claimed : ~Loadable(x)}
           jobs    == {[of |-> x, attempts |-> row[x].attempts] : x \in claimed \ dead}
           q       == IF jobs = {} THEN Idle ELSE [pc |-> "batch", jobs |-> jobs, left |-> Lease]
<1>2. UNCHANGED <<endpoint, log, pruned, accepted, lost, requeues, errors>>
  BY DEF Claim
<1>3. \A x \in claimed : /\ x \in Delivery /\ row[x] \in Row /\ Exists(x)
                         /\ row[x].status = "pending"
                         /\ row[x].lock = 0 \/ row[x].by = d
  <2> SUFFICES ASSUME NEW x \in claimed
               PROVE  /\ x \in Delivery /\ row[x] \in Row /\ Exists(x)
                      /\ row[x].status = "pending"
                      /\ row[x].lock = 0 \/ row[x].by = d
    OBVIOUS
  <2>1. x \in Delivery /\ Exists(x)  BY DEF ReadBack, Due
  <2>2. row[x] \in Row  BY <1>0, <2>1, RowTypes
  <2>3. CASE x \in picked  BY <2>1, <2>2, <2>3 DEF Due
  <2>4. CASE row[x].by = d /\ row[x].lock = Lease
    BY <1>0, <2>1, <2>2, <2>4, LeaseAssumption DEF RowInv
  <2> QED  BY <2>3, <2>4 DEF ReadBack
<1>4. jobs \in SUBSET Job
  BY <1>3 DEF Job, Row
<1>5. q \in Pass /\ Jobs(q) = jobs /\ (jobs # {} => q.left = Lease) /\ q.pc # "answered"
  BY <1>4, PassForms, LeaseAssumption DEF Jobs, Idle
<1>6. disp' = [disp EXCEPT ![d] = q]  BY <1>1
<1>7. disp'[d] = q /\ \A e \in Dispatcher : e # d => disp'[e] = disp[e]
  BY <1>0, <1>6 DEF TypeOK
<1>8. \A x \in Delivery :
        /\ x \notin claimed => row'[x] = row[x]
        /\ x \in dead => row'[x] = MarkFailed(row[x], 0, TRUE)
        /\ x \in claimed \ dead => row'[x] = [row[x] EXCEPT !.lock = Lease, !.by = d]
  BY <1>1
<1>9. ASSUME NEW x \in dead
      PROVE  /\ row'[x] \in Row /\ row'[x].attempts = row[x].attempts + 1
             /\ row'[x].status = "failed" /\ row'[x].lock = 0
  <2>1. x \in Delivery /\ row[x] \in Row  BY <1>3
  <2> HIDE DEF claimed, dead, jobs, q
  <2>2. row'[x] = MarkFailed(row[x], 0, TRUE)  BY <1>8, <2>1
  <2> QED  BY <2>1, <2>2, UndeliverableRow
<1>10. ASSUME NEW x \in claimed \ dead
       PROVE  /\ row'[x] \in Row /\ row'[x].attempts = row[x].attempts
              /\ row'[x].status = "pending"
              /\ row'[x].lock = Lease /\ row'[x].by = d
  <2>1. x \in Delivery /\ row[x] \in Row /\ row[x].status = "pending"  BY <1>3
  <2> HIDE DEF claimed, dead, jobs, q
  <2>2. row'[x] = [row[x] EXCEPT !.lock = Lease, !.by = d]  BY <1>8, <2>1
  <2> QED  BY <2>1, <2>2, LeaseAssumption DEF Row
<1>11. \A x \in Delivery : row'[x] # NoRow => Exists(x)
  BY <1>3, <1>8 DEF Exists
<1>12. \A i \in jobs : /\ i.of \in claimed \ dead /\ i.of \in Delivery
                       /\ i.attempts = row[i.of].attempts
                       /\ \A k \in jobs : k.of = i.of => k = i
  BY <1>3
<1>13. \A e \in Dispatcher : \A i \in Jobs(disp[e]) :
         i \in Job /\ i.of \in Delivery /\ i.attempts \in Nat /\ disp[e].left \in Nat
  <2> SUFFICES ASSUME NEW e \in Dispatcher, NEW i \in Jobs(disp[e])
               PROVE  i \in Job /\ i.of \in Delivery /\ i.attempts \in Nat /\ disp[e].left \in Nat
    OBVIOUS
  <2>1. disp[e] \in Pass  BY <1>0 DEF TypeOK
  <2>2. i \in Job  BY <2>1, PassFields
  <2>3. disp[e].pc \in {"batch", "answered"}  BY DEF Jobs
  <2> QED  BY <2>1, <2>2, <2>3, PassFields DEF Job
\* A job in hand whose claim is live and not taken is not claimed now.
<1>14. \A e \in Dispatcher : \A i \in Jobs(disp[e]) :
         e # d /\ disp[e].left > 0 /\ <<e, i.of>> \notin lost => i.of \notin claimed
  <2> SUFFICES ASSUME NEW e \in Dispatcher, NEW i \in Jobs(disp[e]),
                      e # d, disp[e].left > 0, <<e, i.of>> \notin lost, i.of \in claimed
               PROVE  FALSE
    OBVIOUS
  <2>1. row[i.of].by = e /\ row[i.of].lock = disp[e].left
    BY <1>0, <1>3 DEF HeldInv
  <2> QED  BY <1>3, <2>1
<1> HIDE DEF claimed, dead, jobs, q
<1>15. TypeOK'
  <2>1. row' \in [Delivery -> Row \cup {NoRow}]
    <3>1. \A x \in Delivery : row'[x] \in Row \cup {NoRow}
      BY <1>0, <1>8, <1>9, <1>10 DEF TypeOK
    <3>2. DOMAIN row' = Delivery /\ row' = [x \in Delivery |-> row'[x]]  BY <1>1
    <3> QED  BY <3>1, <3>2
  <2>2. disp' \in [Dispatcher -> Pass]  BY <1>0, <1>5, <1>6 DEF TypeOK
  <2> QED  BY <1>0, <1>2, <2>1, <2>2 DEF TypeOK
<1>16. RowInv'
  <2> SUFFICES ASSUME NEW x \in Delivery, row'[x] # NoRow
               PROVE  /\ x[2] <= log /\ (row'[x].lock > 0 => row'[x].status = "pending")
                      /\ row'[x].status = "delivered" => x \in accepted
    BY <1>2 DEF RowInv, Exists
  <2>1. x[2] <= log  BY <1>0, <1>11 DEF RowInv
  <2>2. CASE x \notin claimed  BY <1>0, <1>8, <2>1, <2>2 DEF RowInv, Exists
  <2>3. CASE x \in dead  BY <1>9, <2>1, <2>3
  <2>4. CASE x \in claimed \ dead  BY <1>10, <2>1, <2>4
  <2> QED  BY <2>2, <2>3, <2>4
<1>17. \A x \in Delivery : row'[x] # NoRow => row'[x].attempts >= row[x].attempts
  <2> SUFFICES ASSUME NEW x \in Delivery, row'[x] # NoRow
               PROVE  row'[x].attempts >= row[x].attempts
    OBVIOUS
  <2>1. row[x].attempts \in Nat
    <3>1. row[x] \in Row  BY <1>0, <1>11, RowTypes
    <3> QED  BY <3>1 DEF Row
  <2>2. row'[x].attempts = row[x].attempts \/ row'[x].attempts = row[x].attempts + 1
    BY <1>8, <1>9, <1>10
  <2> QED  BY <2>1, <2>2
<1>18. JobInv'
  <2> SUFFICES ASSUME NEW e \in Dispatcher, NEW i \in Jobs(disp'[e])
               PROVE  /\ i.of[2] <= log
                      /\ \A k \in Jobs(disp'[e]) : k.of = i.of => k = i
                      /\ row'[i.of] # NoRow => row'[i.of].attempts >= i.attempts
    BY <1>2 DEF JobInv, Exists
  <2>1. CASE e = d
    <3>1. i \in jobs /\ Jobs(disp'[e]) = jobs  BY <1>5, <1>7, <2>1
    <3>2. i.of[2] <= log  BY <1>0, <1>3, <1>12, <3>1 DEF RowInv
    <3>3. row'[i.of] # NoRow => row'[i.of].attempts >= i.attempts
      BY <1>12, <1>17, <3>1
    <3> QED  BY <1>12, <3>1, <3>2, <3>3
  <2>2. CASE e # d
    <3>1. Jobs(disp'[e]) = Jobs(disp[e])  BY <1>7, <2>2
    <3>2. /\ i.of[2] <= log /\ \A k \in Jobs(disp[e]) : k.of = i.of => k = i
          /\ Exists(i.of) => row[i.of].attempts >= i.attempts
      BY <1>0, <3>1 DEF JobInv
    <3>3. row'[i.of] # NoRow => row'[i.of].attempts >= i.attempts
      <4> SUFFICES ASSUME row'[i.of] # NoRow
                   PROVE  row'[i.of].attempts >= i.attempts
        OBVIOUS
      <4>1. i.of \in Delivery /\ i.attempts \in Nat  BY <1>13, <3>1
      <4>2. row'[i.of] \in Row /\ row[i.of] \in Row
        BY <1>0, <1>11, <1>15, <4>1, RowTypes DEF TypeOK
      <4>3. row'[i.of].attempts \in Nat /\ row[i.of].attempts \in Nat  BY <4>2 DEF Row
      <4> QED  BY <1>11, <1>17, <3>2, <4>1, <4>3
    <3> QED  BY <3>1, <3>2, <3>3
  <2> QED  BY <2>1, <2>2
<1>19. HeldInv'
  <2> SUFFICES ASSUME NEW e \in Dispatcher, NEW i \in Jobs(disp'[e]),
                      row'[i.of] # NoRow, disp'[e].left > 0, <<e, i.of>> \notin lost
               PROVE  /\ row'[i.of].by = e /\ row'[i.of].lock = disp'[e].left
                      /\ row'[i.of].status = "pending"
    BY <1>2 DEF HeldInv, Exists
  <2>1. CASE e = d
    BY <1>5, <1>7, <1>10, <1>12, <2>1
  <2>2. CASE e # d
    <3>1. disp'[e] = disp[e] /\ i \in Jobs(disp[e]) /\ i.of \in Delivery  BY <1>7, <1>13, <2>2
    <3>2. row'[i.of] = row[i.of] /\ Exists(i.of)  BY <1>8, <1>11, <1>14, <2>2, <3>1
    <3> QED  BY <1>0, <3>1, <3>2 DEF HeldInv
  <2> QED  BY <2>1, <2>2
<1>20. OneHand'
  <2>1. ASSUME NEW e \in Dispatcher, NEW f \in Dispatcher, e # d,
               NEW i \in Jobs(disp'[e]), NEW k \in Jobs(disp'[f]), i.of = k.of, e # f
        PROVE  \/ disp'[e].left = 0 \/ <<e, i.of>> \in lost
               \/ disp'[f].left = 0 \/ <<f, i.of>> \in lost
    <3>1. disp'[e] = disp[e] /\ i \in Jobs(disp[e]) /\ disp[e].left \in Nat
      BY <1>7, <1>13, <2>1
    <3>2. CASE f = d
      <4>1. k.of \in claimed  BY <1>5, <1>7, <1>12, <2>1, <3>2
      <4> QED  BY <1>14, <2>1, <3>1, <4>1
    <3>3. CASE f # d
      BY <1>0, <1>7, <2>1, <3>1, <3>3 DEF OneHand
    <3> QED  BY <3>2, <3>3
  <2> SUFFICES ASSUME NEW e \in Dispatcher, NEW f \in Dispatcher,
                      NEW i \in Jobs(disp'[e]), NEW k \in Jobs(disp'[f]), i.of = k.of, e # f
               PROVE  \/ disp'[e].left = 0 \/ <<e, i.of>> \in lost
                      \/ disp'[f].left = 0 \/ <<f, i.of>> \in lost
    BY <1>2 DEF OneHand
  <2>2. CASE e # d  BY <2>1, <2>2
  <2>3. CASE f # d
    <3>1. \/ disp'[f].left = 0 \/ <<f, k.of>> \in lost
          \/ disp'[e].left = 0 \/ <<e, k.of>> \in lost
      BY <2>1, <2>3
    <3> QED  BY <3>1
  <2> QED  BY <2>2, <2>3
<1>21. AnswerInv'
  BY <1>0, <1>2, <1>5, <1>7 DEF AnswerInv
<1> QED  BY <1>15, <1>16, <1>18, <1>19, <1>20, <1>21 DEF IInv

\* Locks and leases run down together.
LEMMA TickKeepsIInv ==
  ASSUME IInv, Tick
  PROVE  IInv'
<1>0. TypeOK /\ RowInv /\ JobInv /\ HeldInv /\ OneHand /\ AnswerInv  BY DEF IInv
<1>1. /\ row' = [x \in Delivery |->
           IF Exists(x)
           THEN [row[x] EXCEPT !.due = Down(@), !.lock = Down(@),
                               !.by = IF row[x].lock > 1 THEN @ ELSE Nobody]
           ELSE row[x]]
      /\ disp' = [d \in Dispatcher |->
           IF disp[d].pc \in {"batch", "answered"} THEN [disp[d] EXCEPT !.left = Down(@)] ELSE disp[d]]
      /\ UNCHANGED <<endpoint, log, pruned, accepted, lost, requeues, errors>>
  BY DEF Tick
<1>2. \A t \in Nat : Down(t) \in Nat /\ (Down(t) > 0 => Down(t) = t - 1 /\ t > 1)
                     /\ (t = 0 => Down(t) = 0)
  BY DEF Down
<1>3. \A x \in Delivery : Exists(x) =>
        /\ row[x] \in Row /\ row'[x] \in Row /\ row'[x] # NoRow
        /\ row'[x].status = row[x].status /\ row'[x].attempts = row[x].attempts
        /\ row'[x].lock = Down(row[x].lock) /\ row[x].lock \in Nat
        /\ row[x].lock > 1 => row'[x].by = row[x].by
  <2> SUFFICES ASSUME NEW x \in Delivery, Exists(x)
               PROVE  /\ row[x] \in Row /\ row'[x] \in Row /\ row'[x] # NoRow
                      /\ row'[x].status = row[x].status /\ row'[x].attempts = row[x].attempts
                      /\ row'[x].lock = Down(row[x].lock) /\ row[x].lock \in Nat
                      /\ row[x].lock > 1 => row'[x].by = row[x].by
    OBVIOUS
  <2>1. row[x] \in Row  BY <1>0, RowTypes
  <2>2. row'[x] = [row[x] EXCEPT !.due = Down(row[x].due), !.lock = Down(row[x].lock),
                                 !.by = IF row[x].lock > 1 THEN row[x].by ELSE Nobody]
    BY <1>1
  <2>3. Down(row[x].due) \in Nat /\ Down(row[x].lock) \in Nat
    BY <1>2, <2>1 DEF Row
  <2>4. row'[x] \in Row
    BY <2>1, <2>2, <2>3 DEF Row
  <2>5. row'[x] # NoRow
    BY <2>4 DEF Row, NoRow
  <2> QED  BY <2>1, <2>2, <2>4, <2>5 DEF Row
<1>4. \A x \in Delivery : ~Exists(x) => row'[x] = NoRow
  BY <1>1 DEF Exists
<1>5. \A d \in Dispatcher :
        /\ disp'[d] \in Pass /\ disp'[d].pc = disp[d].pc /\ Jobs(disp'[d]) = Jobs(disp[d])
        /\ disp[d].pc = "answered" => /\ disp'[d].job = disp[d].job /\ disp'[d].ok = disp[d].ok
                                      /\ disp'[d].jobs = disp[d].jobs
        /\ Jobs(disp[d]) # {} => disp[d].left \in Nat /\ disp'[d].left = Down(disp[d].left)
  <2> SUFFICES ASSUME NEW d \in Dispatcher
               PROVE  /\ disp'[d] \in Pass /\ disp'[d].pc = disp[d].pc
                      /\ Jobs(disp'[d]) = Jobs(disp[d])
                      /\ disp[d].pc = "answered" =>
                           /\ disp'[d].job = disp[d].job /\ disp'[d].ok = disp[d].ok
                           /\ disp'[d].jobs = disp[d].jobs
                      /\ Jobs(disp[d]) # {} =>
                           disp[d].left \in Nat /\ disp'[d].left = Down(disp[d].left)
    OBVIOUS
  <2>1. disp[d] \in Pass  BY <1>0 DEF TypeOK
  <2>2. CASE disp[d].pc = "batch"
    <3>1. disp[d] \in [pc: {"batch"}, jobs: SUBSET Job, left: Nat]
      BY <2>1, <2>2 DEF Pass
    <3>2. disp'[d] = [disp[d] EXCEPT !.left = Down(disp[d].left)]  BY <1>1, <2>2
    <3>3. disp'[d] \in [pc: {"batch"}, jobs: SUBSET Job, left: Nat]
      BY <1>2, <3>1, <3>2
    <3> QED  BY <2>2, <3>1, <3>2, <3>3 DEF Jobs, Pass
  <2>3. CASE disp[d].pc = "answered"
    <3>1. disp[d] \in [pc: {"answered"}, jobs: SUBSET Job, left: Nat, job: Job, ok: BOOLEAN]
      BY <2>1, <2>3 DEF Pass
    <3>2. disp'[d] = [disp[d] EXCEPT !.left = Down(disp[d].left)]  BY <1>1, <2>3
    <3>3. disp'[d] \in [pc: {"answered"}, jobs: SUBSET Job, left: Nat, job: Job, ok: BOOLEAN]
      BY <1>2, <3>1, <3>2
    <3> QED  BY <2>3, <3>1, <3>2, <3>3 DEF Jobs, Pass
  <2>4. CASE disp[d].pc \notin {"batch", "answered"}
    <3>1. disp'[d] = disp[d]  BY <1>1, <2>4
    <3> QED  BY <2>1, <2>4, <3>1 DEF Jobs
  <2> QED  BY <2>2, <2>3, <2>4
<1>6. \A d \in Dispatcher : \A j \in Jobs(disp[d]) : j.of \in Delivery
  BY <1>0, PassFields DEF TypeOK, Job
<1>jobs. /\ \A d \in Dispatcher : Jobs(disp'[d]) = Jobs(disp[d])
       /\ UNCHANGED <<log, lost, accepted>>
  BY <1>1, <1>5
<1>7. TypeOK'
  <2>1. row' \in [Delivery -> Row \cup {NoRow}]
    BY <1>1, <1>3, <1>4
  <2>2. disp' \in [Dispatcher -> Pass]
    BY <1>1, <1>5
  <2> QED  BY <1>0, <1>1, <2>1, <2>2 DEF TypeOK
<1>8. RowInv'
  <2> SUFFICES ASSUME NEW x \in Delivery, row'[x] # NoRow
               PROVE  /\ x[2] <= log /\ (row'[x].lock > 0 => row'[x].status = "pending")
                      /\ row'[x].status = "delivered" => x \in accepted
    BY <1>1 DEF RowInv, Exists
  <2>1. Exists(x)  BY <1>4
  <2> QED  BY <1>0, <1>2, <1>3, <2>1 DEF RowInv
<1>9. JobInv'
  <2> SUFFICES ASSUME NEW d \in Dispatcher, NEW j \in Jobs(disp[d])
               PROVE  /\ j.of[2] <= log
                      /\ \A i \in Jobs(disp[d]) : i.of = j.of => i = j
                      /\ row'[j.of] # NoRow => row'[j.of].attempts >= j.attempts
    BY <1>jobs DEF JobInv, Exists
  <2> QED  BY <1>0, <1>3, <1>4, <1>6 DEF JobInv
<1>10. HeldInv'
  <2> SUFFICES ASSUME NEW d \in Dispatcher, NEW j \in Jobs(disp[d]),
                      row'[j.of] # NoRow, disp'[d].left > 0, <<d, j.of>> \notin lost
               PROVE  /\ row'[j.of].by = d /\ row'[j.of].lock = disp'[d].left
                      /\ row'[j.of].status = "pending"
    BY <1>jobs DEF HeldInv, Exists
  <2>1. Exists(j.of) /\ j.of \in Delivery  BY <1>4, <1>6
  <2>2. disp[d].left \in Nat /\ disp'[d].left = Down(disp[d].left) /\ disp[d].left > 1
    BY <1>2, <1>5
  <2>3. row[j.of].by = d /\ row[j.of].lock = disp[d].left /\ row[j.of].status = "pending"
    BY <1>0, <2>1, <2>2 DEF HeldInv
  <2> QED  BY <1>3, <2>1, <2>2, <2>3
<1>11. OneHand'
  <2> SUFFICES ASSUME NEW d \in Dispatcher, NEW e \in Dispatcher,
                      NEW i \in Jobs(disp[d]), NEW j \in Jobs(disp[e]), i.of = j.of, d # e
               PROVE  \/ disp'[d].left = 0 \/ <<d, i.of>> \in lost
                      \/ disp'[e].left = 0 \/ <<e, i.of>> \in lost
    BY <1>jobs DEF OneHand
  <2>1. \/ disp[d].left = 0 \/ <<d, i.of>> \in lost
        \/ disp[e].left = 0 \/ <<e, i.of>> \in lost
    BY <1>0 DEF OneHand
  <2>2. /\ disp[d].left = 0 => disp'[d].left = 0
        /\ disp[e].left = 0 => disp'[e].left = 0
    BY <1>2, <1>5
  <2> QED  BY <2>1, <2>2
<1>12. AnswerInv'
  <2> SUFFICES ASSUME NEW d \in Dispatcher, disp'[d].pc = "answered"
               PROVE  /\ disp'[d].job \notin disp'[d].jobs
                      /\ disp'[d].ok => disp'[d].job.of \in accepted
    BY <1>jobs DEF AnswerInv
  <2>1. /\ disp[d].pc = "answered" /\ disp'[d].job = disp[d].job
        /\ disp'[d].ok = disp[d].ok /\ disp'[d].jobs = disp[d].jobs
    BY <1>5
  <2> QED  BY <1>0, <2>1 DEF AnswerInv
<1> QED  BY <1>7, <1>8, <1>9, <1>10, <1>11, <1>12 DEF IInv

\* The invariant is inductive.
LEMMA NextKeepsIInv == IInv /\ [Next]_vars => IInv'
<1> SUFFICES ASSUME IInv, [Next]_vars
             PROVE  IInv'
  OBVIOUS
<1>1. CASE UNCHANGED vars
  <2>1. UNCHANGED <<endpoint, log, pruned, row, disp, accepted, lost, requeues, errors>>
    BY <1>1 DEF vars
  <2> QED
    BY <2>1 DEF IInv, TypeOK, RowInv, JobInv, HeldInv, OneHand, AnswerInv, Exists
<1>2. ASSUME NEW d \in Dispatcher, Step(d) \/ MarkFails(d)
      PROVE  IInv'
  BY <1>2, ClaimKeepsIInv, PostKeepsIInv, MarkKeepsIInv, EndKeepsIInv DEF Step
<1>3. ASSUME NEW d \in Mortal, Die(d)
      PROVE  IInv'
  BY <1>3, EndKeepsIInv, DispatchersAssumption
<1> QED
  BY <1>1, <1>2, <1>3, TickKeepsIInv, OutsideKeepsIInv, RedeliverKeepsIInv DEF Next

-----------------------------------------------------------------------------
(* What a step does to an outcome *)

\* A claim settles only pending rows, and those it cannot load.
LEMMA ClaimSettles ==
  ASSUME IInv, NEW d \in Dispatcher, Claim(d), NEW x \in Delivery, row'[x].status # row[x].status
  PROVE  row[x].status = "pending" /\ row'[x].status = "failed" /\ ~Loadable(x)
<1>0. TypeOK /\ RowInv  BY DEF IInv
<1>1. PICK picked \in SUBSET {y \in Delivery : Due(y)} :
        row' = [y \in Delivery |->
          IF y \in {z \in ReadBack(d, picked) : ~Loadable(z)} THEN MarkFailed(row[y], 0, TRUE)
          ELSE IF y \in ReadBack(d, picked) THEN [row[y] EXCEPT !.lock = Lease, !.by = d]
          ELSE row[y]]
  BY DEF Claim
<1> DEFINE claimed == ReadBack(d, picked)
<1>2. x \in claimed => row[x] \in Row /\ row[x].status = "pending"
  BY <1>0, RowTypes, LeaseAssumption DEF ReadBack, Due, RowInv
<1> HIDE DEF claimed
<1>3. /\ x \notin claimed => row'[x] = row[x]
      /\ x \in claimed /\ Loadable(x) => row'[x] = [row[x] EXCEPT !.lock = Lease, !.by = d]
      /\ x \in claimed /\ ~Loadable(x) => row'[x] = MarkFailed(row[x], 0, TRUE)
  BY <1>1 DEF claimed
<1>4. x \in claimed  BY <1>3
<1>5. ASSUME Loadable(x) PROVE FALSE
  <2>1. row'[x] = [row[x] EXCEPT !.lock = Lease, !.by = d]  BY <1>3, <1>4, <1>5
  <2> QED  BY <1>2, <1>4, <2>1 DEF Row
<1>6. row'[x] = MarkFailed(row[x], 0, TRUE)  BY <1>3, <1>4, <1>5
<1>7. row'[x].status = "failed"  BY <1>2, <1>4, <1>6, UndeliverableRow
<1> QED  BY <1>2, <1>4, <1>5, <1>7

\* A mark fails a row for good only with the attempt the schedule ends on.
LEMMA MarkSettles ==
  ASSUME IInv, NEW d \in Dispatcher, Mark(d), NEW x \in Delivery, row'[x] # row[x]
  PROVE  /\ disp[d].job.of = x /\ disp[d].pc = "answered" /\ disp'[d] # disp[d] /\ Exists(x)
         /\ row'[x].status = "failed" => row'[x].attempts >= MaxAttempts
<1> DEFINE j == disp[d].job
<1>0. TypeOK /\ JobInv  BY DEF IInv
<1>1. disp[d] \in Pass /\ disp[d].pc = "answered"  BY <1>0 DEF TypeOK, Mark
<1>2. j \in Job /\ j \in Jobs(disp[d]) /\ disp[d].ok \in BOOLEAN
  BY <1>1, PassFields DEF Jobs
<1>3. j.of \in Delivery /\ j.attempts \in Nat  BY <1>2 DEF Job
<1>4. /\ Exists(j.of) /\ disp' = [disp EXCEPT ![d] = Onward(disp[d])]
      /\ row' = [row EXCEPT ![j.of] =
           IF disp[d].ok THEN MarkDelivered(row[j.of])
           ELSE MarkFailed(row[j.of], Owed(j.attempts + 1), Spent(j.attempts + 1))]
  BY DEF Mark
<1>5. j.of = x  BY <1>0, <1>4 DEF TypeOK
<1>6. disp'[d] = Onward(disp[d])  BY <1>0, <1>4 DEF TypeOK
<1>7. disp'[d] # disp[d]  BY <1>1, <1>6, OnwardPass
<1>8. row[x] \in Row /\ row[x].attempts \in Nat /\ row[x].attempts >= j.attempts
  <2>1. row[x] \in Row  BY <1>0, <1>4, <1>5, RowTypes
  <2>2. row[x].attempts >= j.attempts  BY <1>0, <1>2, <1>4, <1>5 DEF JobInv
  <2> QED  BY <2>1, <2>2 DEF Row
<1> HIDE DEF j
<1>9. ASSUME row'[x].status = "failed" PROVE row'[x].attempts >= MaxAttempts
  <2> DEFINE due == Owed(j.attempts + 1)
             terminal == Spent(j.attempts + 1)
  <2>1. due \in Nat /\ terminal \in BOOLEAN /\ (terminal => j.attempts + 1 >= MaxAttempts)
    BY <1>3, OwedIsTime DEF Spent
  <2>2. row'[x] = IF disp[d].ok THEN MarkDelivered(row[x]) ELSE MarkFailed(row[x], due, terminal)
    BY <1>0, <1>4, <1>5 DEF TypeOK
  <2> HIDE DEF due, terminal
  <2>3. /\ MarkDelivered(row[x]).status = "delivered"
        /\ MarkFailed(row[x], due, terminal).status = IF terminal THEN "failed" ELSE "pending"
        /\ MarkFailed(row[x], due, terminal).attempts = row[x].attempts + 1
    BY <1>8, <2>1, Marks
  <2>4. row'[x] = MarkFailed(row[x], due, terminal)
    BY <1>2, <1>9, <2>2, <2>3 DEF j
  <2>5. terminal  BY <1>9, <2>3, <2>4
  <2>6. j.attempts + 1 >= MaxAttempts  BY <2>1, <2>5
  <2>7. row'[x].attempts = row[x].attempts + 1  BY <2>3, <2>4
  <2>8. MaxAttempts \in Nat  BY ScheduleAssumption DEF MaxAttempts
  <2> QED  BY <1>3, <1>8, <2>6, <2>7, <2>8
<1> QED  BY <1>1, <1>4, <1>5, <1>7, <1>9 DEF j

\* The four ways a row's outcome changes.
LEMMA StatusChanges ==
  ASSUME IInv, [Next]_vars, NEW x \in Delivery,
         row'[x].status # row[x].status, row'[x].status # "none"
  PROVE  \/ row[x].status = "none" /\ row'[x].status = "pending"
         \/ requeues' # requeues /\ row'[x].status = "pending"
         \/ row[x].status = "pending" /\ ~Loadable(x)
         \/ \E d \in Dispatcher : Mark(d) /\ row'[x] # row[x]
<1>0. TypeOK /\ RowInv  BY DEF IInv
<1>1. row'[x] # row[x] /\ row'[x] # NoRow  BY DEF NoRow
<1>2. row \in [Delivery -> Row \cup {NoRow}]  BY <1>0 DEF TypeOK
<1>3. CASE Record
  <2>1. log' = log + 1 /\ (x[2] = log' /\ row'[x] = NewRow)
    BY <1>1, <1>3 DEF Record
  <2>2. log \in Int /\ x[2] \in Int  BY <1>0, LimitsAssumption DEF TypeOK, Delivery
  <2>3. row[x] = NoRow  BY <1>0, <2>1, <2>2 DEF RowInv, Exists
  <2> QED  BY <2>1, <2>3 DEF NoRow, NewRow
<1>4. CASE Tick
  <2>1. Exists(x)  BY <1>1, <1>4 DEF Tick
  <2>2. row[x] \in Row  BY <1>0, <2>1, RowTypes
  <2>3. row'[x] = [row[x] EXCEPT !.due = Down(row[x].due), !.lock = Down(row[x].lock),
                                 !.by = IF row[x].lock > 1 THEN row[x].by ELSE Nobody]
    BY <1>4, <2>1 DEF Tick
  <2>4. row'[x].status = row[x].status  BY <2>2, <2>3 DEF Row
  <2> QED  BY <2>4
<1>5. ASSUME NEW y \in Delivery, Redeliver(y)
      PROVE  requeues' # requeues /\ row'[x].status = "pending"
  <2>1. row' = [row EXCEPT ![y] = MarkFailed(row[y], 0, FALSE)]  BY <1>5 DEF Redeliver
  <2>2. row'[x] = MarkFailed(row[x], 0, FALSE)  BY <1>1, <1>2, <2>1
  <2>3. row'[x].status = "pending"  BY <2>2 DEF MarkFailed, Marked
  <2>4. requeues' = requeues + 1  BY <1>5 DEF Redeliver
  <2>5. requeues \in Int  BY <1>0, LimitsAssumption DEF TypeOK
  <2> QED  BY <2>3, <2>4, <2>5
<1>6. ASSUME NEW d \in Dispatcher, Claim(d)
      PROVE  row[x].status = "pending" /\ ~Loadable(x)
  BY <1>6, ClaimSettles
<1>7. ASSUME \/ \E e \in Endpoint : DeleteWebhook(e)
             \/ \E y \in Delivery : PruneDelivery(y)
      PROVE  FALSE
  BY <1>1, <1>2, <1>7 DEF DeleteWebhook, PruneDelivery
<1>8. ASSUME \/ PruneEvents
             \/ \E e \in Endpoint : PutWebhook(e)
             \/ \E d \in Dispatcher : Post(d) \/ MarkNothing(d) \/ MarkFails(d)
             \/ \E d \in Mortal : Die(d)
             \/ UNCHANGED vars
      PROVE  FALSE
  BY <1>1, <1>8 DEF PruneEvents, PutWebhook, Post, MarkNothing, MarkFails, Die, vars
<1> QED
  BY <1>1, <1>3, <1>4, <1>5, <1>6, <1>7, <1>8 DEF Next, Step

-----------------------------------------------------------------------------
(* The theorems *)

\* The invariant is one.
LEMMA Invariant == Spec => []IInv
<1>1. Init => IInv  BY InitIInv
<1>2. IInv /\ [Next]_vars => IInv'  BY NextKeepsIInv
<1> QED  BY <1>1, <1>2, PTL DEF Spec

\* Endpoints, rows and passes have the forms the code gives them, however
\* many dispatchers there are and whatever the schedule.
THEOREM QueueTypes == Spec => []TypeOK
<1>1. IInv => TypeOK  BY DEF IInv
<1> QED  BY <1>1, Invariant, PTL

\* The invariant gives the promise about deliveries.
LEMMA HandsInv == IInv => OneLiveClaim
<1> SUFFICES ASSUME IInv, NEW d \in Dispatcher, NEW e \in Dispatcher, d # e,
                    NEW x \in InHand(disp[d]) \cap InHand(disp[e])
             PROVE  \/ disp[d].left = 0 \/ <<d, x>> \in lost
                    \/ disp[e].left = 0 \/ <<e, x>> \in lost
  BY DEF OneLiveClaim
<1>1. disp[d] \in Pass /\ disp[e] \in Pass  BY DEF IInv, TypeOK
<1>2. PICK i \in Jobs(disp[d]) : i.of = x  BY <1>1, HandOfJobs
<1>3. PICK j \in Jobs(disp[e]) : j.of = x  BY <1>1, HandOfJobs
<1>4. \/ disp[d].left = 0 \/ <<d, i.of>> \in lost
      \/ disp[e].left = 0 \/ <<e, i.of>> \in lost
  BY <1>2, <1>3 DEF IInv, OneHand
<1> QED  BY <1>2, <1>4

\* Two dispatchers have one delivery in hand only when the lease of one has
\* run out or a redelivery or a late mark has cleared its lock: claiming by
\* row locks and an expiry is exclusive for as long as it says it is.
THEOREM ClaimsAreExclusive == Spec => []OneLiveClaim
<1> QED  BY HandsInv, Invariant, PTL

\* The rows' part of the invariant, and the absent row, which has no outcome.
LEMMA AcceptedInv == IInv => DeliveredWasAccepted
BY DEF IInv, RowInv, Exists, NoRow, DeliveredWasAccepted

\* The log never says delivered of what no endpoint accepted: the answer in
\* hand is of the delivery it marks, even when the mark comes a lease late.
THEOREM DeliveredMeansAccepted == Spec => []DeliveredWasAccepted
<1> QED  BY AcceptedInv, Invariant, PTL

\* An outcome that is settled changes by a redelivery or by a mark that comes
\* after its claim has lapsed or was taken: a live claim is on a pending row.
THEOREM OutcomesReopenLate == Spec => SettledReopensOnlyLate
<1> DEFINE Reopens ==
      \A x \in Delivery :
        /\ row[x].status \in {"delivered", "failed"}
        /\ row'[x].status \notin {row[x].status, "none"}
        => requeues' # requeues \/ \E d \in Dispatcher : MarksLate(d, x)
<1>1. IInv /\ [Next]_vars => Reopens
  <2> SUFFICES ASSUME IInv, [Next]_vars, NEW x \in Delivery,
                      row[x].status \in {"delivered", "failed"},
                      row'[x].status \notin {row[x].status, "none"}, requeues' = requeues
               PROVE  \E d \in Dispatcher : MarksLate(d, x)
    OBVIOUS
  <2>1. PICK d \in Dispatcher : Mark(d) /\ row'[x] # row[x]  BY StatusChanges
  <2>2. /\ disp[d].job.of = x /\ disp[d].pc = "answered" /\ disp'[d] # disp[d] /\ Exists(x)
    BY <2>1, MarkSettles
  <2>3. disp[d].job \in Jobs(disp[d])  BY <2>2 DEF Jobs
  <2>4. disp[d].left \in Nat  BY <2>2, PassFields DEF IInv, TypeOK
  <2>5. disp[d].left = 0 \/ <<d, x>> \in lost
    BY <2>2, <2>3, <2>4 DEF IInv, HeldInv
  <2> QED  BY <2>2, <2>5 DEF MarksLate
<1>2. SettledReopensOnlyLate <=> [][Reopens]_vars
  BY DEF SettledReopensOnlyLate
<1> HIDE DEF Reopens
<1> QED  BY <1>1, <1>2, Invariant, PTL DEF Spec

\* A row fails for good with as many attempts on its count as the schedule
\* allows, or undeliverable: a count that was loaded before another's mark
\* gives up no delivery early.
THEOREM GivingUpTakesTheSchedule == Spec => FailedOnlyWhenSpent
<1> DEFINE Fails ==
      \A x \in Delivery :
        row'[x].status = "failed" /\ row[x].status # "failed"
        => row'[x].attempts >= MaxAttempts \/ ~Loadable(x)
<1>1. IInv /\ [Next]_vars => Fails
  <2> SUFFICES ASSUME IInv, [Next]_vars, NEW x \in Delivery,
                      row'[x].status = "failed", row[x].status # "failed", Loadable(x)
               PROVE  row'[x].attempts >= MaxAttempts
    OBVIOUS
  <2>1. PICK d \in Dispatcher : Mark(d) /\ row'[x] # row[x]  BY StatusChanges
  <2> QED  BY <2>1, MarkSettles
<1>2. FailedOnlyWhenSpent <=> [][Fails]_vars
  BY DEF FailedOnlyWhenSpent
<1> HIDE DEF Fails
<1> QED  BY <1>1, <1>2, Invariant, PTL DEF Spec
=============================================================================
