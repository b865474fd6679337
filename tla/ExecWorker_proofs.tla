-------------------------- MODULE ExecWorker_proofs --------------------------
(***************************************************************************)
(* The exec wrapper holds its lease while it renews, for any number of     *)
(* workers and tasks and any lease lengths its calls are prompt for.  The  *)
(* argument is a budget of time: what a worker was last told lies far      *)
(* enough ahead for the ticker to fire once more and for the call that     *)
(* follows to take as long as it may.                                      *)
(***************************************************************************)
EXTENDS ExecWorker, LeaseContract_proofs

\* Tokens are the workers' own: each is on one worker, and on its task alone.
OwnTokens ==
  /\ \A w \in Worker : run[w].token <= minted
  /\ \A v, w \in Worker : run[v].token = run[w].token /\ run[v].token # 0 => v = w
  /\ \A w \in Worker, t \in Task :
       lease[t].token = run[w].token /\ run[w].token # 0 => t = run[w].task

\* What each stage of a worker has and has not.
Staged(r) ==
  /\ r.pc \in {"starting", "running"} => r.token # 0
  /\ r.pc = "idle" => r.token = 0
  /\ r.pc \in {"idle", "starting"} => r.renewer = "off"
  /\ r.pc = "gone" => r.renewer # "waiting"

\* A call under way has not taken longer than it may.
InTime(r) ==
  /\ r.pc = "starting" => r.waited <= 2 * Delay
  /\ r.renewer = "calling" => r.waited <= Delay

\* The ticker runs at the interval of the length first granted.
Ticked(r) ==
  /\ r.pc \in {"starting", "running"} => \E g \in Length : r.period = Interval(g)
  /\ r.pc = "running" => r.next \in 1..r.period

\* The lease of a worker told e leaves, at time n, enough for the next renewal.
Enough(r, e, n) ==
  /\ r.pc = "starting" => \E g \in Length : r.period = Interval(g) /\ e + r.waited >= n + g
  /\ r.pc = "running" /\ r.renewer = "waiting" =>
       e > n + Delay /\ (r.due \/ e > n + r.next + Delay)
  /\ r.pc = "running" /\ r.renewer = "calling" => e + r.waited > n + Delay

\* It runs no longer than a length from now, or from the worker's end and the
\* time of a renewal that was then under way.
AtMost(r, e, n) ==
  /\ \E g \in Length : e <= (IF r.pc = "gone" THEN r.since + Delay ELSE n) + g
  /\ r.pc = "gone" /\ r.renewer = "calling" => n <= r.since + r.waited

\* A worker that has been told e of the lease it was granted, 0 once it is over.
Timely(r, e, n) ==
  /\ Staged(r) /\ InTime(r) /\ Ticked(r)
  /\ r.token # 0 => AtMost(r, e, n) /\ (e = 0 \/ Enough(r, e, n))

ExecInv ==
  /\ ExecTypeOK /\ IInv /\ StoredIsTold /\ OwnTokens
  /\ \A w \in Worker : Timely(run[w], told[run[w].token], now)

-----------------------------------------------------------------------------
(* Time *)

\* A tick and three calls fit in every lease.
LEMMA IntervalFits ==
  /\ \A g \in Length : g \in Nat /\ Interval(g) \in Nat /\ Interval(g) >= 1
  /\ \A g, h \in Length : Interval(g) + 3 * Delay < h
<1>1. ASSUME NEW g \in Length  PROVE g \in Nat /\ Interval(g) \in Nat /\ Interval(g) >= 1
  <2>1. g \in Nat /\ g \div 3 \in Int  BY TimeAssumption
  <2>2. MinInterval \in Nat /\ MinInterval >= 1  BY TimeAssumption
  <2> QED BY <2>1, <2>2 DEF Interval
<1> QED BY <1>1, PromptAssumption

\* A lease that is over is held by nobody: what was enough is no matter.
LEMMA OverIsTimely ==
  ASSUME NEW r \in Run, NEW e \in Nat, NEW n \in Nat, Timely(r, e, n)
  PROVE  Timely(r, 0, n)
<1>1. CASE r.token = 0  BY <1>1 DEF Timely
<1>2. CASE r.token # 0
  <2>1. PICK g \in Length : e <= (IF r.pc = "gone" THEN r.since + Delay ELSE n) + g
    BY <1>2 DEF Timely, AtMost
  <2>2. g \in Nat /\ r.since \in Nat /\ Delay \in Nat
    BY IntervalFits, TimeAssumption, BoundAssumption DEF Run
  <2>3. AtMost(r, 0, n)  BY <1>2, <2>1, <2>2 DEF AtMost, Timely
  <2> QED BY <2>3 DEF Timely
<1> QED BY <1>1, <1>2

\* What a second does to a worker.
LEMMA AgedFields ==
  ASSUME NEW r \in Run
  PROVE  LET a == Aged(r) IN
         /\ a \in Run
         /\ a.pc = r.pc /\ a.task = r.task /\ a.token = r.token /\ a.renewer = r.renewer
         /\ a.period = r.period /\ a.since = r.since
         /\ a.waited = IF r.pc = "starting" \/ r.renewer = "calling" THEN r.waited + 1
                       ELSE r.waited
         /\ a.next = IF ~Ticking(r) THEN r.next ELSE IF r.next > 1 THEN r.next - 1 ELSE r.period
         /\ a.due = IF Ticking(r) THEN r.due \/ r.next = 1 ELSE r.due
<1> DEFINE waited == IF r.pc = "starting" \/ r.renewer = "calling" THEN r.waited + 1 ELSE r.waited
           next == IF ~Ticking(r) THEN r.next ELSE IF r.next > 1 THEN r.next - 1 ELSE r.period
           due == IF Ticking(r) THEN r.due \/ r.next = 1 ELSE r.due
<1>1. r.waited \in Nat /\ r.next \in Nat /\ r.period \in Nat /\ r.due \in BOOLEAN  BY DEF Run
<1>2. waited \in Nat /\ next \in Nat /\ due \in BOOLEAN
  <2>1. waited \in Nat /\ next \in Nat  BY <1>1
  <2>2. (r.due \/ r.next = 1) \in BOOLEAN  BY <1>1, Zenon
  <2>3. due = (r.due \/ r.next = 1) \/ due = r.due  BY Zenon
  <2> QED BY <1>1, <2>1, <2>2, <2>3
<1>3. Aged(r) = [r EXCEPT !.waited = waited, !.next = next, !.due = due]  BY DEF Aged
<1> HIDE DEF waited, next, due
<1>4. /\ Aged(r) \in Run
      /\ Aged(r).pc = r.pc /\ Aged(r).task = r.task /\ Aged(r).token = r.token
      /\ Aged(r).renewer = r.renewer /\ Aged(r).period = r.period /\ Aged(r).since = r.since
  BY <1>2, <1>3 DEF Run
<1>5. Aged(r).waited = waited /\ Aged(r).next = next /\ Aged(r).due = due
  BY <1>2, <1>3 DEF Run
<1> QED BY <1>4, <1>5 DEF waited, next, due

\* A second that no prompt call outlasts leaves the worker timely.
LEMMA AgedIsTimely ==
  ASSUME NEW r \in Run, NEW e \in Nat, NEW n \in Nat, Prompt(r), Timely(r, e, n)
  PROVE  Timely(Aged(r), e, n + 1)
<1> DEFINE a == Aged(r)
<1>1. /\ a.pc = r.pc /\ a.task = r.task /\ a.token = r.token /\ a.renewer = r.renewer
      /\ a.period = r.period /\ a.since = r.since
  BY AgedFields
<1>2. /\ (r.pc = "starting" \/ r.renewer = "calling") => a.waited = r.waited + 1
      /\ Ticking(r) => /\ a.next = IF r.next > 1 THEN r.next - 1 ELSE r.period
                       /\ a.due = (r.due \/ r.next = 1)
      /\ ~Ticking(r) => a.next = r.next
  BY AgedFields
<1> HIDE DEF a
<1>3. /\ r.waited \in Nat /\ r.next \in Nat /\ r.period \in Nat /\ r.since \in Nat
      /\ Delay \in Nat /\ r.due \in BOOLEAN
  BY TimeAssumption, BoundAssumption DEF Run
<1>4. Staged(a)  BY <1>1 DEF Timely, Staged
<1>5. InTime(a)  BY <1>1, <1>2, <1>3 DEF Timely, InTime, Prompt
<1>6. Ticked(a)
  <2>1. \A g \in Length : Interval(g) \in Nat /\ Interval(g) >= 1  BY IntervalFits
  <2>2. r.pc = "running" => r.period >= 1  BY <2>1 DEF Timely, Ticked
  <2>3. r.pc = "running" => a.next \in 1..a.period
    BY <1>1, <1>2, <1>3, <2>2 DEF Timely, Ticked
  <2> QED BY <1>1, <2>3 DEF Timely, Ticked
<1>7. ASSUME r.token # 0  PROVE AtMost(a, e, n + 1)
  <2>1. PICK g \in Length : e <= (IF r.pc = "gone" THEN r.since + Delay ELSE n) + g
    BY <1>7 DEF Timely, AtMost
  <2>2. g \in Nat  BY IntervalFits
  <2>3. e <= (IF a.pc = "gone" THEN a.since + Delay ELSE n + 1) + g
    BY <1>1, <1>3, <2>1, <2>2
  <2>4. r.pc = "gone" /\ r.renewer = "calling" => n + 1 <= a.since + a.waited
    BY <1>1, <1>2, <1>3, <1>7 DEF Timely, AtMost
  <2> QED BY <1>1, <2>3, <2>4 DEF AtMost
<1>8. ASSUME r.token # 0, Enough(r, e, n)  PROVE Enough(a, e, n + 1)
  <2>1. CASE r.pc = "starting"
    <3>1. PICK g \in Length : r.period = Interval(g) /\ e + r.waited >= n + g
      BY <1>8, <2>1 DEF Enough
    <3>2. g \in Nat  BY IntervalFits
    <3>3. e + a.waited >= (n + 1) + g  BY <1>2, <1>3, <2>1, <3>1, <3>2
    <3> QED BY <1>1, <2>1, <3>1, <3>3 DEF Enough
  <2>2. CASE r.pc = "running" /\ r.renewer = "waiting"
    <3>1. ~r.due /\ e > n + r.next + Delay /\ r.next >= 1
      BY <1>3, <1>8, <2>2 DEF Enough, Prompt, Timely, Ticked
    <3>2. e > (n + 1) + Delay  BY <1>3, <3>1
    <3>3. Ticking(r)  BY <2>2 DEF Ticking
    <3>4. CASE r.next = 1
      <4>1. a.due  BY <1>2, <3>3, <3>4, Zenon
      <4> QED BY <1>1, <2>2, <3>2, <4>1 DEF Enough
    <3>5. CASE r.next # 1
      <4>1. a.next = r.next - 1  BY <1>2, <1>3, <3>1, <3>3, <3>5
      <4>2. e > (n + 1) + a.next + Delay  BY <1>3, <3>1, <4>1
      <4> QED BY <1>1, <2>2, <3>2, <4>2 DEF Enough
    <3> QED BY <3>4, <3>5
  <2>3. CASE r.pc = "running" /\ r.renewer = "calling"
    <3>1. e + a.waited > (n + 1) + Delay  BY <1>2, <1>3, <1>8, <2>3 DEF Enough
    <3> QED BY <1>1, <2>3, <3>1 DEF Enough
  <2>4. CASE r.pc # "starting" /\ ~(r.pc = "running" /\ r.renewer \in {"waiting", "calling"})
    BY <1>1, <2>4 DEF Enough
  <2> QED BY <2>1, <2>2, <2>3, <2>4
<1> QED BY <1>1, <1>4, <1>5, <1>6, <1>7, <1>8 DEF Timely, a

-----------------------------------------------------------------------------
(* The wrapper's calls are steps of the contract *)

\* What the wrapper does to the leases, the contract does too.
LEMMA ContractStep ==
  ASSUME ExecInv, [ExecNext]_execVars
  PROVE  [Next]_vars
<1>1. ASSUME NEW w \in Worker, WorkerStep(w)  PROVE [Next]_vars
  <2>1. ASSUME NEW t \in Task, Acquire(w, t)  PROVE Next
    BY <2>1 DEF Acquire, Next
  <2>2. CASE Begin(w) \/ Quit(w) \/ ChildExits(w)
    BY <2>2 DEF Begin, Quit, ChildExits
  <2>3. CASE Call(w) \/ RenewFails(w) \/ Stop(w)
    BY <2>3 DEF Call, RenewFails, Stop
  <2>4. CASE Release(w) \/ Renew(w)
    <3>1. run[w].task \in Task  BY DEF ExecInv, ExecTypeOK, Run
    <3> QED BY <2>4, <3>1 DEF Release, Renew, Next
  <2> QED BY <1>1, <2>1, <2>2, <2>3, <2>4 DEF WorkerStep
<1>2. ASSUME NEW t \in Task, Sweep(t)  PROVE Next
  <2>1. Clear({t}) /\ {t} \in SUBSET Task  BY <1>2 DEF Sweep
  <2> QED BY <2>1 DEF Next
<1>3. ASSUME NEW t \in Task, Reclaim(t)  PROVE Next
  BY <1>3 DEF Reclaim, Next
<1>4. CASE Clock  BY <1>4 DEF Clock, Next
<1>5. CASE UNCHANGED execVars  BY <1>5 DEF execVars
<1> QED BY <1>1, <1>2, <1>3, <1>4, <1>5 DEF ExecNext

\* A worker's token and the expiry it was told, and the clock.
LEMMA WorkerType ==
  ASSUME ExecInv, NEW w \in Worker
  PROVE  /\ run[w] \in Run /\ run[w].task \in Task /\ now \in Nat /\ now \in 0..MaxTime
         /\ run[w].token # 0 => run[w].token \in Token /\ told[run[w].token] \in Nat
         /\ Timely(run[w], told[run[w].token], now)
<1>1. run[w] \in Run /\ now \in 0..MaxTime  BY DEF ExecInv, ExecTypeOK, TypeOK
<1>2. run[w].token # 0 => run[w].token \in Token
  BY <1>1, BoundAssumption DEF Run, Token
<1>3. told \in [Token -> Nat]  BY DEF ExecInv, ExecTypeOK, TypeOK
<1> QED BY <1>1, <1>2, <1>3, BoundAssumption DEF ExecInv, Run

\* A step of one worker that keeps its task and token, tells it at most of its
\* own lease, and leaves it timely.
LEMMA WorkerKeeps ==
  ASSUME ExecInv, [Next]_vars, NEW w \in Worker, NEW new \in Run,
         run' = [run EXCEPT ![w] = new], UNCHANGED <<now, minted>>, faults' \in 0..MaxFaults,
         new.token = run[w].token, new.task = run[w].task,
         \A k \in Token : k # new.token => told'[k] = told[k],
         \A t \in Task : lease'[t].token \in {0, lease[t].token},
         Timely(new, told'[new.token], now)
  PROVE  ExecInv'
<1>1. IInv' /\ StoredIsTold'  BY NextKeepsIInv, NextKeepsStored DEF ExecInv
<1>2. run \in [Worker -> Run]  BY DEF ExecInv, ExecTypeOK
<1>3. run' \in [Worker -> Run]  BY <1>2
<1>4. ExecTypeOK'  BY <1>1, <1>3 DEF ExecTypeOK, IInv
<1>5. run'[w] = new /\ \A v \in Worker : v # w => run'[v] = run[v]  BY <1>2
<1>6. \A v \in Worker : run'[v].token = run[v].token /\ run'[v].task = run[v].task
  BY <1>5
<1>7. OwnTokens'  BY <1>6 DEF OwnTokens, ExecInv
<1>8. ASSUME NEW v \in Worker, v # w
      PROVE  Timely(run'[v], told'[run'[v].token], now')
  <2>1. Timely(run[v], told[run[v].token], now) /\ run'[v] = run[v]  BY <1>5, <1>8, WorkerType
  <2>2. CASE run[v].token = 0  BY <2>1, <2>2 DEF Timely
  <2>3. CASE run[v].token # 0
    <3>1. run[v].token \in Token /\ run[v].token # new.token
      BY <1>8, <2>3, WorkerType DEF ExecInv, OwnTokens
    <3>2. told'[run[v].token] = told[run[v].token]  BY <3>1
    <3> QED BY <2>1, <3>2
  <2> QED BY <2>2, <2>3
<1>9. \A v \in Worker : Timely(run'[v], told'[run'[v].token], now')
  BY <1>5, <1>8
<1> QED BY <1>1, <1>4, <1>7, <1>9 DEF ExecInv

\* One that makes no call, or whose call changes nothing.
LEMMA QuietKeeps ==
  ASSUME ExecInv, NEW w \in Worker, NEW new \in Run,
         run' = [run EXCEPT ![w] = new], UNCHANGED vars, faults' \in 0..MaxFaults,
         new.token = run[w].token, new.task = run[w].task,
         Timely(new, told[new.token], now)
  PROVE  ExecInv'
<1>1. UNCHANGED <<now, minted, told, lease>>  BY DEF vars
<1> QED BY <1>1, WorkerKeeps

\* A fault is counted.
LEMMA FaultType ==
  ASSUME ExecInv, Fault \/ UNCHANGED faults
  PROVE  faults' \in 0..MaxFaults
BY TimeAssumption DEF ExecInv, ExecTypeOK, Fault

-----------------------------------------------------------------------------
(* The process *)

\* The start status is reached with time to spare for the first tick.
LEMMA BeginKeeps ==
  ASSUME ExecInv, NEW w \in Worker, Begin(w)
  PROVE  ExecInv'
<1> DEFINE r == run[w]
           e == told[r.token]
           new == [r EXCEPT !.pc = "running", !.renewer = "waiting", !.waited = 0,
                            !.next = r.period]
<1>1. r \in Run /\ now \in Nat /\ Timely(r, e, now)  BY WorkerType
<1>2. /\ r.pc = "starting" /\ UNCHANGED vars /\ UNCHANGED faults
      /\ run' = [run EXCEPT ![w] = new]
  BY Zenon DEF Begin
<1>3. /\ new \in Run /\ new.pc = "running" /\ new.renewer = "waiting" /\ new.waited = 0
      /\ new.next = r.period /\ new.period = r.period /\ new.token = r.token
      /\ new.task = r.task /\ new.due = r.due /\ new.since = r.since
  BY <1>1 DEF Run
<1>4. faults' \in 0..MaxFaults  BY <1>2, FaultType
<1> HIDE DEF new
<1>5. r.token # 0 /\ e \in Nat  BY <1>1, <1>2, WorkerType DEF Timely, Staged
<1>6. Delay \in Nat /\ r.period \in Nat /\ r.waited \in Nat  BY <1>1, TimeAssumption DEF Run
<1>7. Staged(new) /\ InTime(new)  BY <1>3, <1>5 DEF Staged, InTime
<1>8. PICK h \in Length : r.period = Interval(h)  BY <1>1, <1>2 DEF Timely, Ticked
<1>9. Ticked(new)
  <2>1. r.period \in 1..r.period  BY <1>6, <1>8, IntervalFits
  <2> QED BY <1>3, <1>8, <2>1 DEF Ticked
<1>10. AtMost(new, e, now)  BY <1>1, <1>2, <1>3, <1>5 DEF Timely, AtMost
<1>11. ASSUME e # 0  PROVE Enough(new, e, now)
  <2>1. PICK g \in Length : r.period = Interval(g) /\ e + r.waited >= now + g
    BY <1>1, <1>2, <1>5, <1>11 DEF Timely, Enough
  <2>2. r.waited <= 2 * Delay  BY <1>1, <1>2 DEF Timely, InTime
  <2>3. g \in Nat /\ r.period + 3 * Delay < g  BY <2>1, IntervalFits
  <2>4. e > now + new.next + Delay /\ e > now + Delay
    BY <1>1, <1>3, <1>5, <1>6, <2>1, <2>2, <2>3
  <2> QED BY <1>3, <2>4 DEF Enough
<1>12. Timely(new, e, now)  BY <1>7, <1>9, <1>10, <1>11 DEF Timely
<1> QED BY <1>2, <1>3, <1>4, <1>12, QuietKeeps

\* A worker's state when its process ends.
Ended(r) == [r EXCEPT !.pc = "gone", !.since = now, !.due = FALSE,
                      !.renewer = IF r.renewer = "calling" THEN r.renewer ELSE "off"]

\* It is timely if the worker was.
LEMMA GoneIsTimely ==
  ASSUME NEW r \in Run, NEW e, r.token # 0 => e \in Nat, now \in Nat,
         Timely(r, e, now), r.pc # "gone"
  PROVE  /\ Timely(Ended(r), e, now)
         /\ Ended(r).token = r.token /\ Ended(r).task = r.task
<1> DEFINE new == Ended(r)
<1>1. /\ new.pc = "gone" /\ new.since = now
      /\ new.renewer = IF r.renewer = "calling" THEN "calling" ELSE "off"
      /\ new.token = r.token /\ new.waited = r.waited /\ new.task = r.task
  BY DEF Run, Ended
<1> HIDE DEF new
<1>2. Delay \in Nat /\ r.waited \in Nat  BY TimeAssumption DEF Run
<1>3. Staged(new) /\ InTime(new) /\ Ticked(new)
  BY <1>1 DEF Timely, Staged, InTime, Ticked
<1>4. ASSUME r.token # 0  PROVE AtMost(new, e, now)
  <2>1. PICK g \in Length : e <= now + g  BY <1>4 DEF Timely, AtMost
  <2>2. g \in Nat  BY IntervalFits
  <2>3. e <= (now + Delay) + g /\ now <= now + r.waited  BY <1>2, <1>4, <2>1, <2>2
  <2> QED BY <1>1, <2>3 DEF AtMost
<1>5. Enough(new, e, now)  BY <1>1 DEF Enough
<1> QED BY <1>1, <1>3, <1>4, <1>5 DEF Timely, new

\* The process ends as one record.
LEMMA GoneWrites ==
  ASSUME ExecInv, NEW w \in Worker, Gone(w)
  PROVE  Ended(run[w]) \in Run /\ run' = [run EXCEPT ![w] = Ended(run[w])]
<1>1. run[w] \in Run /\ now \in 0..MaxTime  BY WorkerType
<1>2. Ended(run[w]) \in Run  BY <1>1 DEF Ended, Run
<1> QED BY <1>2, Zenon DEF Gone, Ended

\* Quitting releases nothing.
LEMMA QuitKeeps ==
  ASSUME ExecInv, NEW w \in Worker, Quit(w)
  PROVE  ExecInv'
<1> DEFINE r == run[w]
           e == told[r.token]
           new == Ended(r)
<1>1. r \in Run /\ now \in Nat /\ Timely(r, e, now) /\ (r.token # 0 => e \in Nat)
  BY WorkerType
<1>2. Gone(w) /\ r.pc # "gone" /\ UNCHANGED vars /\ UNCHANGED faults  BY DEF Quit
<1>3. new \in Run /\ run' = [run EXCEPT ![w] = new]  BY <1>2, GoneWrites
<1>4. Timely(new, e, now) /\ new.token = r.token /\ new.task = r.task
  BY <1>1, <1>2, GoneIsTimely
<1>5. faults' \in 0..MaxFaults  BY <1>2, FaultType
<1> HIDE DEF new
<1> QED BY <1>2, <1>3, <1>4, <1>5, QuietKeeps

\* A release ends the worker's own lease, or nothing.
LEMMA ReleaseKeeps ==
  ASSUME ExecInv, NEW w \in Worker, Release(w)
  PROVE  ExecInv'
<1> DEFINE r == run[w]
           e == told[r.token]
           new == Ended(r)
<1>1. r \in Run /\ now \in Nat /\ Timely(r, e, now) /\ (r.token # 0 => e \in Nat)
  BY WorkerType
<1>2. Gone(w) /\ r.pc # "gone" /\ UNCHANGED faults  BY DEF Release
<1>3. new \in Run /\ run' = [run EXCEPT ![w] = new]  BY <1>2, GoneWrites
<1>4. Timely(new, e, now) /\ new.token = r.token /\ new.task = r.task
  BY <1>1, <1>2, GoneIsTimely
<1>5. faults' \in 0..MaxFaults  BY <1>2, FaultType
<1>6. new.token # 0 => new.token \in Token /\ e \in Nat  BY <1>4, WorkerType
<1> HIDE DEF new
<1>7. CASE UNCHANGED vars  BY <1>3, <1>4, <1>5, <1>7, QuietKeeps
<1>8. CASE Holds(w) /\ End(r.task)
  <2>1. /\ lease' = [lease EXCEPT ![r.task] = NoLease]
        /\ told' = [told EXCEPT ![lease[r.task].token] = 0]
        /\ UNCHANGED <<now, minted>> /\ lease[r.task].token # 0
    BY <1>8 DEF End
  <2>2. lease[r.task].token = r.token /\ r.task \in Task  BY <1>8, WorkerType DEF Holds
  <2>3. told \in [Token -> Nat] /\ lease \in [Task -> Lease]  BY DEF ExecInv, ExecTypeOK, TypeOK
  <2>4. told'[new.token] = 0  BY <1>4, <1>6, <2>1, <2>2, <2>3
  <2>5. \A k \in Token : k # new.token => told'[k] = told[k]  BY <1>4, <2>1, <2>2, <2>3
  <2>6. \A t \in Task : lease'[t].token \in {0, lease[t].token}  BY <2>1, <2>3 DEF NoLease
  <2>7. Timely(new, 0, now)  BY <1>1, <1>3, <1>4, <1>6, <2>1, <2>2, OverIsTimely
  <2>8. [Next]_vars  BY <1>8, <2>2 DEF Next
  <2> QED BY <1>3, <1>4, <1>5, <2>1, <2>4, <2>5, <2>6, <2>7, <2>8, WorkerKeeps
<1> QED BY <1>7, <1>8 DEF Release

\* The command's end is noticed later, and changes no deadline.
LEMMA ChildExitsKeeps ==
  ASSUME ExecInv, NEW w \in Worker, ChildExits(w)
  PROVE  ExecInv'
<1> DEFINE r == run[w]
           e == told[r.token]
           new == [r EXCEPT !.pc = "releasing"]
<1>1. r \in Run /\ now \in Nat /\ Timely(r, e, now)  BY WorkerType
<1>2. /\ r.pc = "running" /\ UNCHANGED vars /\ UNCHANGED faults
      /\ run' = [run EXCEPT ![w] = new]
  BY Zenon DEF ChildExits
<1>3. /\ new \in Run /\ new.pc = "releasing" /\ new.renewer = r.renewer
      /\ new.waited = r.waited /\ new.token = r.token /\ new.task = r.task
  BY <1>1 DEF Run
<1>4. faults' \in 0..MaxFaults  BY <1>2, FaultType
<1> HIDE DEF new
<1>5. Staged(new) /\ InTime(new) /\ Ticked(new) /\ Enough(new, e, now)
  BY <1>1, <1>3 DEF Timely, Staged, InTime, Ticked, Enough
<1>6. r.token # 0 => AtMost(new, e, now)  BY <1>1, <1>2, <1>3 DEF Timely, AtMost
<1>7. Timely(new, e, now)  BY <1>3, <1>5, <1>6 DEF Timely
<1> QED BY <1>2, <1>3, <1>4, <1>7, QuietKeeps

-----------------------------------------------------------------------------
(* The goroutine that renews *)

\* A renewal is sent with time for its answer.
LEMMA CallKeeps ==
  ASSUME ExecInv, NEW w \in Worker, Call(w)
  PROVE  ExecInv'
<1> DEFINE r == run[w]
           e == told[r.token]
           new == [r EXCEPT !.renewer = "calling", !.due = FALSE, !.waited = 0]
<1>1. r \in Run /\ now \in Nat /\ Timely(r, e, now) /\ (r.token # 0 => e \in Nat)
  BY WorkerType
<1>2. /\ r.renewer = "waiting" /\ UNCHANGED vars /\ UNCHANGED faults
      /\ run' = [run EXCEPT ![w] = new]
  BY Zenon DEF Call
<1>3. /\ new \in Run /\ new.pc = r.pc /\ new.renewer = "calling" /\ new.waited = 0
      /\ new.token = r.token /\ new.task = r.task /\ new.period = r.period
      /\ new.next = r.next
  BY <1>1 DEF Run
<1>4. faults' \in 0..MaxFaults  BY <1>2, FaultType
<1> HIDE DEF new
<1>5. r.pc \notin {"idle", "starting", "gone"}  BY <1>1, <1>2 DEF Timely, Staged
<1>6. Staged(new) /\ InTime(new) /\ Ticked(new)
  BY <1>1, <1>3, <1>5, TimeAssumption DEF Timely, Staged, InTime, Ticked
<1>7. r.token # 0 => AtMost(new, e, now)  BY <1>1, <1>3, <1>5 DEF Timely, AtMost
<1>8. ASSUME r.token # 0, e # 0  PROVE Enough(new, e, now)
  <2>1. r.pc = "running" => e > now + Delay  BY <1>1, <1>2, <1>8 DEF Timely, Enough
  <2>2. r.pc = "running" => e + new.waited > now + Delay  BY <1>1, <1>3, <1>8, <2>1
  <2> QED BY <1>3, <1>5, <2>2 DEF Enough
<1>9. Timely(new, e, now)  BY <1>3, <1>6, <1>7, <1>8 DEF Timely
<1> QED BY <1>2, <1>3, <1>4, <1>9, QuietKeeps

\* The goroutine ends.
LEMMA RenewerOff ==
  ASSUME ExecInv, NEW w \in Worker, Renewer(w, "off"), UNCHANGED vars,
         Fault \/ UNCHANGED faults
  PROVE  ExecInv'
<1> DEFINE r == run[w]
           e == told[r.token]
           new == [r EXCEPT !.renewer = "off"]
<1>1. r \in Run /\ now \in Nat /\ Timely(r, e, now)  BY WorkerType
<1>2. run' = [run EXCEPT ![w] = new]  BY Zenon DEF Renewer
<1>3. /\ new \in Run /\ new.pc = r.pc /\ new.renewer = "off" /\ new.waited = r.waited
      /\ new.token = r.token /\ new.task = r.task /\ new.period = r.period
      /\ new.next = r.next /\ new.since = r.since
  BY <1>1 DEF Run
<1>4. faults' \in 0..MaxFaults  BY FaultType
<1> HIDE DEF new
<1>5. Staged(new) /\ InTime(new) /\ Ticked(new)
  BY <1>1, <1>3 DEF Timely, Staged, InTime, Ticked
<1>6. r.token # 0 => AtMost(new, e, now)  BY <1>1, <1>3 DEF Timely, AtMost
<1>7. r.token # 0 /\ Enough(r, e, now) => Enough(new, e, now)  BY <1>3 DEF Enough
<1>8. Timely(new, e, now)  BY <1>1, <1>3, <1>5, <1>6, <1>7 DEF Timely
<1> QED BY <1>2, <1>3, <1>4, <1>8, QuietKeeps

\* A renewal that arrives buys a whole length; one whose worker has gone is the
\* last.
LEMMA RenewKeeps ==
  ASSUME ExecInv, NEW w \in Worker, Renew(w)
  PROVE  ExecInv'
<1> DEFINE r == run[w]
           e == told[r.token]
<1>1. r \in Run /\ now \in Nat /\ Timely(r, e, now) /\ r.task \in Task  BY WorkerType
<1>2. /\ r.renewer = "calling" /\ Holds(w) /\ Extend(r.task)
      /\ \E g \in Length : lease'[r.task].until = now + g
  BY DEF Renew
<1>3. PICK state \in {"off", "waiting"} :
        /\ Renewer(w, state) /\ (Fault \/ UNCHANGED faults)
        /\ state = "waiting" => r.pc # "gone"
  BY DEF Renew
<1> DEFINE new == [r EXCEPT !.renewer = state]
<1>4. run' = [run EXCEPT ![w] = new]  BY <1>3, Zenon DEF Renewer
<1>5. /\ new \in Run /\ new.pc = r.pc /\ new.renewer = state /\ new.waited = r.waited
      /\ new.token = r.token /\ new.task = r.task /\ new.period = r.period
      /\ new.next = r.next /\ new.since = r.since
  BY <1>1, <1>3 DEF Run
<1>6. faults' \in 0..MaxFaults  BY <1>3, FaultType
<1> HIDE DEF new
<1>7. PICK g \in Length : lease'[r.task].until = now + g  BY <1>2
<1>8. PICK until \in Expiry :
        /\ lease' = [lease EXCEPT ![r.task] = [lease[r.task] EXCEPT !.until = until]]
        /\ told' = [told EXCEPT ![lease[r.task].token] = until]
  BY <1>2 DEF Extend
<1>9. lease[r.task].token = r.token /\ r.token # 0 /\ UNCHANGED <<now, minted>>
  BY <1>2 DEF Extend, Holds
<1>10. r.token \in Token  BY <1>9, WorkerType
<1>11. told \in [Token -> Nat] /\ lease \in [Task -> Lease] /\ lease[r.task] \in Lease
  BY <1>1 DEF ExecInv, ExecTypeOK, TypeOK
<1>12. until = now + g  BY <1>1, <1>7, <1>8, <1>11 DEF Lease
<1>13. told'[r.token] = now + g /\ \A k \in Token : k # r.token => told'[k] = told[k]
  BY <1>8, <1>9, <1>10, <1>11, <1>12
<1>14. \A t \in Task : lease'[t].token = lease[t].token  BY <1>1, <1>8, <1>11 DEF Lease
<1>15. /\ r.pc \notin {"idle", "starting"} /\ r.waited <= Delay
       /\ g \in Nat /\ Delay \in Nat /\ r.waited \in Nat /\ r.since \in Nat
  BY <1>1, <1>2, IntervalFits, TimeAssumption, BoundAssumption
     DEF Timely, Staged, InTime, Run
<1>16. Staged(new) /\ InTime(new) /\ Ticked(new)
  BY <1>1, <1>3, <1>5, <1>9, <1>15 DEF Timely, Staged, InTime, Ticked
<1>17. AtMost(new, now + g, now)
  <2>1. r.pc = "gone" => now <= r.since + r.waited  BY <1>1, <1>2, <1>9 DEF Timely, AtMost
  <2>2. r.pc = "gone" => now + g <= (r.since + Delay) + g  BY <1>1, <1>15, <2>1
  <2>3. now + g <= now + g  BY <1>1, <1>15
  <2> QED BY <1>3, <1>5, <2>2, <2>3 DEF AtMost
<1>18. Enough(new, now + g, now)
  <2>1. CASE r.pc = "running"
    <3>1. PICK h \in Length : r.period = Interval(h)  BY <1>1, <2>1 DEF Timely, Ticked
    <3>2. Interval(h) \in Nat /\ Interval(h) + 3 * Delay < g  BY IntervalFits
    <3>3. r.next \in 1..r.period  BY <1>1, <2>1 DEF Timely, Ticked
    <3>4. now + g > now + Delay /\ now + g > now + r.next + Delay
      BY <1>1, <1>15, <3>1, <3>2, <3>3
    <3> QED BY <1>3, <1>5, <2>1, <3>4 DEF Enough
  <2>2. CASE r.pc # "running"  BY <1>5, <1>15, <2>2 DEF Enough
  <2> QED BY <2>1, <2>2
<1>19. Timely(new, told'[new.token], now)  BY <1>5, <1>13, <1>16, <1>17, <1>18 DEF Timely
<1>20. [Next]_vars  BY <1>1, <1>2 DEF Next
<1> QED BY <1>4, <1>5, <1>6, <1>9, <1>13, <1>14, <1>19, <1>20, WorkerKeeps

-----------------------------------------------------------------------------
(* A new lease, the others, and time *)

\* A worker that acquires a lease starts with a whole length, and a token of its
\* own; so does one that never hears of it.
LEMMA AcquireKeeps ==
  ASSUME ExecInv, NEW w \in Worker, NEW t \in Task, Acquire(w, t)
  PROVE  ExecInv'
<1> DEFINE r == run[w]
<1>1. r \in Run /\ now \in Nat /\ now \in 0..MaxTime /\ Timely(r, told[r.token], now)
  BY WorkerType
<1>2. r.pc = "idle" /\ Take(t) /\ minted < MaxTokens /\ minted' = minted + 1 /\ now' = now
  BY DEF Acquire, Take
<1>3. PICK g \in Length :
        /\ lease'[t].until = now + g
        /\ \/ /\ run' = [run EXCEPT ![w].pc = "starting", ![w].task = t, ![w].token = minted',
                                    ![w].waited = 0, ![w].period = Interval(g)]
              /\ UNCHANGED faults
           \/ /\ Fault
              /\ run' = [run EXCEPT ![w].pc = "gone", ![w].task = t, ![w].token = minted',
                                    ![w].since = now]
  BY DEF Acquire
<1> DEFINE started == [r EXCEPT !.pc = "starting", !.task = t, !.token = minted + 1,
                                !.waited = 0, !.period = Interval(g)]
           lost == [r EXCEPT !.pc = "gone", !.task = t, !.token = minted + 1, !.since = now]
<1>4. PICK new \in {started, lost} : run' = [run EXCEPT ![w] = new]
  <2>1. CASE run' = [run EXCEPT ![w].pc = "starting", ![w].task = t, ![w].token = minted',
                                ![w].waited = 0, ![w].period = Interval(g)]
    <3>1. run' = [run EXCEPT ![w] = started]  BY <1>2, <2>1, Zenon
    <3> QED BY <3>1, Zenon
  <2>2. CASE run' = [run EXCEPT ![w].pc = "gone", ![w].task = t, ![w].token = minted',
                                ![w].since = now]
    <3>1. run' = [run EXCEPT ![w] = lost]  BY <1>2, <2>2, Zenon
    <3> QED BY <3>1, Zenon
  <2> QED BY <1>3, <2>1, <2>2
<1>5. faults' \in 0..MaxFaults  BY <1>3, FaultType
<1>6. /\ g \in Nat /\ Interval(g) \in Nat /\ Delay \in Nat
      /\ minted \in Nat /\ minted + 1 \in Token /\ minted + 1 \in 0..MaxTokens
  BY <1>2, IntervalFits, TimeAssumption, BoundAssumption DEF ExecInv, ExecTypeOK, TypeOK, Token
<1>7. r.renewer = "off"  BY <1>1, <1>2 DEF Timely, Staged
<1>8. /\ started \in Run /\ started.pc = "starting" /\ started.waited = 0
      /\ started.period = Interval(g) /\ started.renewer = "off"
      /\ started.token = minted + 1 /\ started.task = t
  BY <1>1, <1>6, <1>7 DEF Run
<1>9. /\ lost \in Run /\ lost.pc = "gone" /\ lost.renewer = "off" /\ lost.since = now
      /\ lost.token = minted + 1 /\ lost.task = t
  BY <1>1, <1>6, <1>7 DEF Run
<1> HIDE DEF started, lost
<1>10. new \in Run /\ new.token = minted + 1 /\ new.task = t  BY <1>4, <1>8, <1>9
<1>11. IInv' /\ StoredIsTold'
  BY <1>2, NextKeepsIInv, NextKeepsStored DEF ExecInv, Next
<1>12. PICK until \in Expiry :
         /\ lease' = [lease EXCEPT ![t] = [token |-> minted + 1, until |-> until]]
         /\ told' = [told EXCEPT ![minted + 1] = until]
  BY <1>2 DEF Take
<1>13. told \in [Token -> Nat] /\ lease \in [Task -> Lease] /\ run \in [Worker -> Run]
  BY DEF ExecInv, ExecTypeOK, TypeOK
<1>14. /\ lease'[t].token = minted + 1 /\ lease'[t].until = until
       /\ \A u \in Task \ {t} : lease'[u] = lease[u]
  BY <1>12, <1>13
<1>15. /\ told'[minted + 1] = now + g
       /\ \A k \in Token : k # minted + 1 => told'[k] = told[k]
  BY <1>3, <1>6, <1>12, <1>13, <1>14
<1>16. run'[w] = new /\ \A v \in Worker : v # w => run'[v] = run[v]  BY <1>4, <1>13
<1>17. ExecTypeOK'  BY <1>4, <1>5, <1>10, <1>11, <1>13 DEF ExecTypeOK, IInv
<1>18. \A v \in Worker : run[v].token \in Nat /\ run[v].token <= minted
  BY <1>13 DEF ExecInv, OwnTokens, Run
<1>19. OwnTokens'
  <2>1. \A v \in Worker : run'[v].token <= minted'  BY <1>2, <1>6, <1>10, <1>16, <1>18
  <2>2. ASSUME NEW u \in Worker, NEW v \in Worker,
               run'[u].token = run'[v].token, run'[u].token # 0
        PROVE  u = v
    BY <1>6, <1>10, <1>16, <1>18, <2>2 DEF ExecInv, OwnTokens
  <2>3. ASSUME NEW v \in Worker, NEW u \in Task,
               lease'[u].token = run'[v].token, run'[v].token # 0
        PROVE  u = run'[v].task
    <3>1. lease[u].token \in Nat /\ lease[u].token <= minted
      BY <1>13 DEF ExecInv, IInv, TokensAreUnique, Lease
    <3>2. CASE v = w /\ u # t  BY <1>6, <1>10, <1>14, <1>16, <2>3, <3>1, <3>2
    <3>3. CASE v = w /\ u = t  BY <1>10, <1>16, <3>3
    <3>4. CASE v # w /\ u = t  BY <1>6, <1>14, <1>16, <1>18, <2>3, <3>4
    <3>5. CASE v # w /\ u # t  BY <1>14, <1>16, <2>3, <3>5 DEF ExecInv, OwnTokens
    <3> QED BY <3>2, <3>3, <3>4, <3>5
  <2> QED BY <2>1, <2>2, <2>3 DEF OwnTokens
<1>20. ASSUME NEW v \in Worker, v # w
       PROVE  Timely(run'[v], told'[run'[v].token], now')
  <2>1. Timely(run[v], told[run[v].token], now) /\ run'[v] = run[v]
    BY <1>16, <1>20, WorkerType
  <2>2. CASE run[v].token = 0  BY <1>2, <2>1, <2>2 DEF Timely
  <2>3. CASE run[v].token # 0
    <3>1. run[v].token \in Token /\ run[v].token # minted + 1
      BY <1>6, <1>18, <2>3, WorkerType
    <3> QED BY <1>2, <1>15, <2>1, <3>1
  <2> QED BY <2>2, <2>3
<1>21. AtMost(started, now + g, now)
  <2>1. now + g <= now + g  BY <1>1, <1>6
  <2> QED BY <1>8, <2>1 DEF AtMost
<1>22. Enough(started, now + g, now)
  <2>1. now + g + started.waited >= now + g  BY <1>1, <1>6, <1>8
  <2> QED BY <1>8, <2>1 DEF Enough
<1>23. Timely(started, now + g, now)
  <2>1. started.token # 0 /\ started.waited <= 2 * Delay  BY <1>6, <1>8
  <2> QED BY <1>8, <1>21, <1>22, <2>1 DEF Timely, Staged, InTime, Ticked
<1>24. Timely(lost, now + g, now)
  <2>1. now + g <= (now + Delay) + g  BY <1>1, <1>6
  <2>2. AtMost(lost, now + g, now)  BY <1>9, <2>1 DEF AtMost
  <2> QED BY <1>9, <2>2 DEF Timely, Staged, InTime, Ticked, Enough
<1>25. Timely(run'[w], told'[run'[w].token], now')
  BY <1>2, <1>4, <1>10, <1>15, <1>16, <1>23, <1>24
<1> QED BY <1>11, <1>17, <1>19, <1>20, <1>25 DEF ExecInv

\* A sweep and an administrator touch no worker, and at most end a lease.
LEMMA OthersKeep ==
  ASSUME ExecInv, NEW t \in Task, Sweep(t) \/ Reclaim(t)
  PROVE  ExecInv'
<1>1. told \in [Token -> Nat] /\ lease \in [Task -> Lease] /\ run \in [Worker -> Run]
  BY DEF ExecInv, ExecTypeOK, TypeOK
<1>2. UNCHANGED <<run, faults, now, minted>>  BY DEF Sweep, Reclaim, Clear, End
<1>3. [Next]_vars
  <2>1. CASE Sweep(t)
    <3>1. Clear({t}) /\ {t} \in SUBSET Task  BY <2>1 DEF Sweep
    <3> QED BY <3>1 DEF Next
  <2>2. CASE Reclaim(t)  BY <2>2 DEF Reclaim, Next
  <2> QED BY <2>1, <2>2
<1>4. IInv' /\ StoredIsTold'  BY <1>3, NextKeepsIInv, NextKeepsStored DEF ExecInv
<1>5. \A k \in Token : told'[k] \in {0, told[k]}
  <2>1. CASE Sweep(t)  BY <2>1 DEF Sweep, Clear
  <2>2. CASE Reclaim(t)
    <3>1. told' = [told EXCEPT ![lease[t].token] = 0]  BY <2>2 DEF Reclaim, End
    <3> QED BY <1>1, <3>1
  <2> QED BY <2>1, <2>2
<1>6. \A u \in Task : lease'[u].token \in {0, lease[u].token}
  <2>1. CASE Sweep(t)  BY <2>1 DEF Sweep, Clear, NoLease
  <2>2. CASE Reclaim(t)
    <3>1. lease' = [lease EXCEPT ![t] = NoLease]  BY <2>2 DEF Reclaim, End
    <3> QED BY <1>1, <3>1 DEF NoLease
  <2> QED BY <2>1, <2>2
<1>7. ExecTypeOK'  BY <1>2, <1>4 DEF ExecInv, ExecTypeOK, IInv
<1>8. OwnTokens'  BY <1>2, <1>6 DEF ExecInv, OwnTokens
<1>9. ASSUME NEW v \in Worker  PROVE Timely(run[v], told'[run[v].token], now)
  <2>1. run[v] \in Run /\ now \in Nat /\ Timely(run[v], told[run[v].token], now)
    BY WorkerType
  <2>2. CASE run[v].token = 0  BY <2>1, <2>2 DEF Timely
  <2>3. CASE run[v].token # 0
    <3>1. run[v].token \in Token /\ told[run[v].token] \in Nat  BY <2>3, WorkerType
    <3>2. Timely(run[v], 0, now)  BY <2>1, <3>1, OverIsTimely
    <3>3. CASE told'[run[v].token] = 0  BY <3>2, <3>3
    <3>4. CASE told'[run[v].token] = told[run[v].token]  BY <2>1, <3>4
    <3> QED BY <1>5, <3>1, <3>3, <3>4
  <2> QED BY <2>2, <2>3
<1> QED BY <1>2, <1>4, <1>7, <1>8, <1>9 DEF ExecInv

\* A second that passes leaves every worker timely: no prompt call outlasts it.
LEMMA ClockKeeps ==
  ASSUME ExecInv, Clock
  PROVE  ExecInv'
<1>1. /\ Tick /\ now' = now + 1 /\ UNCHANGED <<lease, minted, told, faults>>
      /\ run' = [w \in Worker |-> Aged(run[w])]
  BY DEF Clock, Tick
<1>2. IInv' /\ StoredIsTold'  BY <1>1, NextKeepsIInv, NextKeepsStored DEF ExecInv, Next
<1>3. ASSUME NEW w \in Worker
      PROVE  /\ run'[w] \in Run
             /\ run'[w].token = run[w].token /\ run'[w].task = run[w].task
             /\ Timely(run'[w], told[run[w].token], now + 1)
  <2>1. run[w] \in Run /\ now \in Nat /\ Timely(run[w], told[run[w].token], now)
    BY WorkerType
  <2>2. run'[w] = Aged(run[w]) /\ Prompt(run[w])  BY <1>1 DEF Clock
  <2>3. run'[w] \in Run /\ run'[w].token = run[w].token /\ run'[w].task = run[w].task
    BY <2>1, <2>2, AgedFields
  <2>4. CASE run[w].token # 0
    <3>1. told[run[w].token] \in Nat  BY <2>4, WorkerType
    <3> QED BY <2>1, <2>2, <2>3, <3>1, AgedIsTimely
  <2>5. CASE run[w].token = 0
    <3>1. Timely(run[w], 0, now)  BY <2>1, <2>5 DEF Timely
    <3>2. Timely(Aged(run[w]), 0, now + 1)  BY <2>1, <2>2, <3>1, AgedIsTimely
    <3>3. Timely(run'[w], told[run[w].token], now + 1)
      BY <2>2, <2>3, <2>5, <3>2 DEF Timely
    <3> QED BY <2>3, <3>3
  <2> QED BY <2>4, <2>5
<1>4. run' \in [Worker -> Run]  BY <1>1, <1>3
<1>5. ExecTypeOK'  BY <1>1, <1>2, <1>4 DEF ExecInv, ExecTypeOK, IInv
<1>6. OwnTokens'  BY <1>1, <1>3 DEF ExecInv, OwnTokens
<1> QED BY <1>1, <1>2, <1>3, <1>5, <1>6 DEF ExecInv

-----------------------------------------------------------------------------
(* The invariant, and what it says *)

\* Nobody has done anything yet.
LEMMA InitExecInv == ExecInit => ExecInv
<1> SUFFICES ASSUME ExecInit PROVE ExecInv
  OBVIOUS
<1>1. PICK t \in Task :
        run = [w \in Worker |->
          [pc |-> "idle", task |-> t, token |-> 0, renewer |-> "off", waited |-> 0,
           next |-> 0, period |-> 0, due |-> FALSE, since |-> 0]]
  BY DEF ExecInit
<1>2. IInv  BY InitIInv DEF ExecInit
<1>3. StoredIsTold  BY DEF ExecInit, Init, NoLease, StoredIsTold
<1>4. run \in [Worker -> Run]
  BY <1>1, BoundAssumption DEF Run
<1>5. ExecTypeOK
  <2>1. TypeOK  BY <1>2 DEF IInv
  <2>2. MaxFaults \in Nat  BY TimeAssumption
  <2>3. faults \in 0..MaxFaults  BY <2>2 DEF ExecInit
  <2> QED BY <1>4, <2>1, <2>3 DEF ExecTypeOK
<1>6. \A w \in Worker : /\ run[w].pc = "idle" /\ run[w].token = 0 /\ run[w].renewer = "off"
  BY <1>1
<1>7. OwnTokens  BY <1>6 DEF OwnTokens, ExecInit, Init
<1>8. \A w \in Worker : Timely(run[w], told[run[w].token], now)
  BY <1>6 DEF Timely, Staged, InTime, Ticked
<1> QED BY <1>2, <1>3, <1>5, <1>7, <1>8 DEF ExecInv

\* Every step keeps the invariant.
LEMMA NextKeepsExecInv == ExecInv /\ [ExecNext]_execVars => ExecInv'
<1> SUFFICES ASSUME ExecInv, [ExecNext]_execVars PROVE ExecInv'
  OBVIOUS
<1>1. ASSUME NEW w \in Worker, WorkerStep(w)  PROVE ExecInv'
  <2>1. ASSUME NEW t \in Task, Acquire(w, t)  PROVE ExecInv'  BY <2>1, AcquireKeeps
  <2>2. CASE Begin(w)  BY <2>2, BeginKeeps
  <2>3. CASE Quit(w)  BY <2>3, QuitKeeps
  <2>4. CASE ChildExits(w)  BY <2>4, ChildExitsKeeps
  <2>5. CASE Release(w)  BY <2>5, ReleaseKeeps
  <2>6. CASE Call(w)  BY <2>6, CallKeeps
  <2>7. CASE Renew(w)  BY <2>7, RenewKeeps
  <2>8. CASE RenewFails(w)  BY <2>8, RenewerOff DEF RenewFails
  <2>9. CASE Stop(w)
    <3>1. UNCHANGED vars /\ UNCHANGED faults /\ Renewer(w, "off")  BY <2>9 DEF Stop
    <3> QED BY <3>1, RenewerOff
  <2> QED BY <1>1, <2>1, <2>2, <2>3, <2>4, <2>5, <2>6, <2>7, <2>8, <2>9 DEF WorkerStep
<1>2. ASSUME NEW t \in Task, Sweep(t) \/ Reclaim(t)  PROVE ExecInv'
  BY <1>2, OthersKeep
<1>3. CASE Clock  BY <1>3, ClockKeeps
<1>4. CASE UNCHANGED execVars
  BY <1>4 DEF execVars, vars, ExecInv, ExecTypeOK, TypeOK, IInv, TokensAreUnique, ToldIsStored,
              StoredIsTold, OwnTokens
<1> QED BY <1>1, <1>2, <1>3, <1>4 DEF ExecNext

\* It holds throughout.
LEMMA SpecKeepsExecInv == ExecSpec => []ExecInv
BY InitExecInv, NextKeepsExecInv, PTL DEF ExecSpec

\* The workers' states always have their types (exec's claim, move, renew and
\* release, the ticker and the clock).
THEOREM ExecTypeCorrect == ExecSpec => []ExecTypeOK
<1>1. ExecInv => ExecTypeOK  BY DEF ExecInv
<1> QED BY <1>1, SpecKeepsExecInv, PTL

\* While the command runs and its goroutine renews, the worker holds the lease,
\* unless an administrator has ended it: the ticker, armed with a third of the
\* length granted, is early enough for every renewal (renewInterval, renewLoop).
THEOREM RenewingHoldsTheLease == ExecSpec => []LeasedWhileRenewed
<1>1. ExecInv => LeasedWhileRenewed
  <2> SUFFICES ASSUME ExecInv, NEW w \in Worker,
                      run[w].pc = "running", run[w].renewer # "off", ~Reclaimed(w)
               PROVE  Holds(w)
    BY DEF LeasedWhileRenewed
  <2> DEFINE r == run[w]
             e == told[r.token]
  <2>1. r \in Run /\ now \in Nat /\ Timely(r, e, now)  BY WorkerType
  <2>2. r.token # 0 /\ e # 0  BY <2>1 DEF Timely, Staged, Reclaimed
  <2>3. r.token \in Token /\ e \in Nat  BY <2>2, WorkerType
  <2>4. Delay \in Nat /\ r.waited \in Nat  BY <2>1, TimeAssumption DEF Run
  <2>5. r.renewer \in {"waiting", "calling"}  BY <2>1 DEF Run
  <2>6. e > now
    <3>1. CASE r.renewer = "waiting"
      <4>1. e > now + Delay  BY <2>1, <2>2, <3>1 DEF Timely, Enough
      <4> QED BY <2>1, <2>3, <2>4, <4>1
    <3>2. CASE r.renewer = "calling"
      <4>1. e + r.waited > now + Delay /\ r.waited <= Delay
        BY <2>1, <2>2, <3>2 DEF Timely, Enough, InTime
      <4> QED BY <2>1, <2>3, <2>4, <4>1
    <3> QED BY <2>5, <3>1, <3>2
  <2>7. PICK t \in Task : lease[t].token = r.token /\ lease[t].until = e
    BY <2>3, <2>6 DEF ExecInv, IInv, ToldIsStored
  <2>8. t = r.task  BY <2>2, <2>7 DEF ExecInv, OwnTokens
  <2> QED BY <2>6, <2>7, <2>8 DEF Holds
<1> QED BY <1>1, SpecKeepsExecInv, PTL

\* A task whose worker has gone without releasing it is free again within the
\* longest lease and the time its last renewal may be under way: the goroutine
\* that nobody waits for extends the lease once more at most.
THEOREM LeftBehindIsFreed == ExecSpec => []LeftBehindLapses
<1>1. ExecInv => LeftBehindLapses
  <2> SUFFICES ASSUME ExecInv, NEW w \in Worker,
                      run[w].pc = "gone", run[w].token # 0,
                      lease[run[w].task].token = run[w].token
               PROVE  \E g \in Length : lease[run[w].task].until <= run[w].since + Delay + g
    BY DEF LeftBehindLapses
  <2>1. run[w].task \in Task /\ Timely(run[w], told[run[w].token], now)  BY WorkerType
  <2>2. lease[run[w].task].until = told[run[w].token]  BY <2>1 DEF ExecInv, StoredIsTold
  <2>3. AtMost(run[w], told[run[w].token], now)  BY <2>1 DEF Timely
  <2> QED BY <2>2, <2>3 DEF AtMost
<1> QED BY <1>1, SpecKeepsExecInv, PTL

\* A worker whose lease has lapsed, been retaken or been ended touches nothing:
\* a lease that runs is changed by the worker it was granted to, or reclaimed
\* (RenewLease and ReleaseLease under their token, ClaimTask on a free row).
THEOREM ZombiesTouchNothing == ExecSpec => ZombieTouchesNothing
<1> DEFINE ByItsHolder(t) ==
             \/ UNCHANGED run /\ lease'[t] = NoLease
             \/ \E w \in Worker :
                  /\ run'[w] # run[w]
                  /\ run[w].task = t /\ run[w].token = lease[t].token
           Harmless == \A t \in Task :
             lease[t].until > now /\ lease'[t] # lease[t] => ByItsHolder(t)
<1>1. ExecInv /\ [ExecNext]_execVars => [Harmless]_execVars
  <2> SUFFICES ASSUME ExecInv, ExecNext, NEW t \in Task,
                      lease[t].until > now, lease'[t] # lease[t]
               PROVE  ByItsHolder(t)
    OBVIOUS
  <2>1. /\ now \in Nat /\ lease \in [Task -> Lease] /\ lease[t] \in Lease
        /\ run \in [Worker -> Run]
    BY BoundAssumption DEF ExecInv, ExecTypeOK, TypeOK
  <2>2. lease[t].token # 0
    BY <2>1 DEF ExecInv, StoredIsTold
  <2>3. ASSUME NEW w \in Worker, NEW u \in Task, Acquire(w, u)  PROVE FALSE
    <3>1. Free(u) /\ t = u  BY <2>1, <2>3 DEF Acquire, Take
    <3> QED BY <2>1, <2>2, <3>1 DEF Free, Lease
  <2>4. ASSUME NEW w \in Worker, Release(w)  PROVE ByItsHolder(t)
    <3>1. Holds(w) /\ End(run[w].task) /\ run[w].pc = "releasing"
      BY <2>4 DEF Release, vars
    <3>2. t = run[w].task  BY <2>1, <3>1 DEF End
    <3>3. run'[w].pc = "gone"
      <4>1. run' = [run EXCEPT ![w] = Ended(run[w])]  BY <2>4, GoneWrites DEF Release
      <4>2. run'[w] = Ended(run[w]) /\ run[w] \in Run  BY <2>1, <4>1
      <4> QED BY <4>2 DEF Ended, Run
    <3> QED BY <3>1, <3>2, <3>3 DEF Holds
  <2>5. ASSUME NEW w \in Worker, Renew(w)  PROVE ByItsHolder(t)
    <3>1. Holds(w) /\ Extend(run[w].task) /\ run[w].renewer = "calling"
      BY <2>5 DEF Renew
    <3>2. t = run[w].task  BY <2>1, <3>1 DEF Extend
    <3>3. PICK state \in {"off", "waiting"} : Renewer(w, state)  BY <2>5 DEF Renew
    <3>4. run'[w].renewer = state  BY <2>1, <3>3 DEF Renewer, Run
    <3> QED BY <3>1, <3>2, <3>4 DEF Holds
  <2>6. ASSUME NEW w \in Worker, Begin(w) \/ Quit(w) \/ ChildExits(w)  PROVE FALSE
    BY <2>6 DEF Begin, Quit, ChildExits, vars
  <2>7. ASSUME NEW w \in Worker, Call(w) \/ RenewFails(w) \/ Stop(w)  PROVE FALSE
    BY <2>7 DEF Call, RenewFails, Stop, vars
  <2>8. ASSUME NEW u \in Task, Sweep(u)  PROVE FALSE
    <3>1. lease[u].until <= now /\ lease'[t] = IF t = u THEN NoLease ELSE lease[t]
      BY <2>8 DEF Sweep, Clear
    <3> QED BY <2>1, <3>1 DEF Lease
  <2>9. ASSUME NEW u \in Task, Reclaim(u)  PROVE ByItsHolder(t)
    <3>1. lease' = [lease EXCEPT ![u] = NoLease] /\ UNCHANGED run
      BY <2>9 DEF Reclaim, End
    <3>2. lease'[t] = NoLease  BY <2>1, <3>1
    <3> QED BY <3>1, <3>2
  <2>10. CASE Clock
    <3>1. lease' = lease  BY <2>10 DEF Clock, Tick
    <3> QED BY <3>1
  <2> QED BY <2>3, <2>4, <2>5, <2>6, <2>7, <2>8, <2>9, <2>10 DEF ExecNext, WorkerStep
<1> QED BY <1>1, SpecKeepsExecInv, PTL DEF ExecSpec, ZombieTouchesNothing, Harmless, ByItsHolder

\* The wrapper keeps the lease contract: whatever its loop, its renewal and the
\* faults do to the store is a take, an extension, an end or a clearing of the
\* contract, or touches nothing the contract speaks of (exec.go calls the service
\* only for the task, and under the token, of its own grant).
THEOREM ExecImplementsContract == ExecSpec => Spec
<1>1. ExecInit => Init  BY DEF ExecInit
<1> QED BY <1>1, ContractStep, SpecKeepsExecInv, PTL DEF ExecSpec, Spec

\* So a worker that was told its lease runs still holds it in the store, whichever
\* call told it so (the expiry that a claim or a renewal answers with).
THEOREM ExecToldIsStored == ExecSpec => []ToldIsStored
BY ExecImplementsContract, ContractToldIsStored, PTL

\* And no worker's live lease passes to another one under it: it must end first.
THEOREM ExecNeverStolen == ExecSpec => NeverStolen
BY ExecImplementsContract, ContractNeverStolen
=============================================================================
