------------------------- MODULE ExternalSync_proofs -------------------------
(***************************************************************************)
(* What RunSync promises, for any number of records, runners and pages:    *)
(*                                                                         *)
(*  - On SQLite a record is imported as one task, however many runs        *)
(*    overlap, until that task is removed for good: what a page means to   *)
(*    create is still missing when it is written (IInv).                   *)
(*  - On either engine the stored cursor covers what it claims while the   *)
(*    runs are undisturbed, a finished run has brought all it saw when it  *)
(*    began, and the cursor is only moved back on purpose (CursorInv).     *)
(*    These rest on the listing: it holds what is due, oldest first.       *)
(***************************************************************************)
EXTENDS ExternalSync, FiniteSetTheorems, TLAPS

\* A record's reference is there as soon as a task of it is.
RefInv ==
  /\ task \in [Record -> Seq({"live", "trash", "purged"})]
  /\ \A r \in Record : /\ ref[r].copy \in 0..Len(task[r])
                       /\ ref[r].copy = 0 => task[r] = <<>>

\* The calls have the fields of Idle.
RunInv ==
  /\ DOMAIN run = Runner
  /\ \A w \in Runner : DOMAIN run[w] = DOMAIN Idle

\* One page is written at a time, and only then is there a plan.
LockInv ==
  /\ \A v, w \in Runner : run[v].pc = "writing" /\ run[w].pc = "writing" => v = w
  /\ \A w \in Runner : \A r \in Record : run[w].pc # "writing" => run[w].plan[r] = "none"

Purged(r) == \E k \in DOMAIN task[r] : task[r][k] = "purged"

\* What is to be created has no task; what is to be imported again had one
\* that was removed for good, and nothing brings that back.
PlanInv ==
  \A w \in Runner : \A r \in Record :
    /\ run[w].plan[r] = "create" => task[r] = <<>>
    /\ run[w].plan[r] = "recreate" => Purged(r)

IInv == RefInv /\ RunInv /\ LockInv /\ PlanInv /\ ImportedOnce

-----------------------------------------------------------------------------
(* What a step does to the calls *)

\* A call keeps the page it writes, or has none.
Onward(v) ==
  /\ DOMAIN run'[v] = DOMAIN Idle
  /\ \/ /\ run'[v].plan = run[v].plan
        /\ run'[v].pc = "writing" <=> run[v].pc = "writing"
     \/ /\ run'[v].plan = Idle.plan
        /\ run'[v].pc # "writing"

\* Another write to the row disturbs the runs and changes nothing else of them.
LEMMA DisturbedGoOn ==
  ASSUME RunInv
  PROVE  /\ DOMAIN Disturbed = Runner
         /\ \A v \in Runner : /\ DOMAIN Disturbed[v] = DOMAIN Idle
                              /\ Disturbed[v].plan = run[v].plan
                              /\ Disturbed[v].pc = run[v].pc
BY DEF RunInv, Disturbed, Idle

\* A call that starts, ends or fails is Idle in all but fields no plan is in.
LEMMA FreshCalls ==
  ASSUME NEW w \in Runner
  PROVE  /\ \A full, alone, began, since, cursor :
              LET g == [Idle EXCEPT !.pc = "fetching", !.full = full, !.alone = alone,
                                    !.began = began, !.since = since, !.cursor = cursor]
              IN DOMAIN g = DOMAIN Idle /\ g.plan = Idle.plan /\ g.pc = "fetching"
         /\ \A cursor : /\ DOMAIN Broken(w, cursor) = DOMAIN Idle
                        /\ Broken(w, cursor).plan = Idle.plan
                        /\ Broken(w, cursor).pc = "failing"
BY DEF Broken, Idle

\* Every step that writes no task leaves the calls as they should be.
LEMMA CallsGoOn ==
  ASSUME RunInv,
         NEW w \in Runner,
         \/ \E full \in BOOLEAN : Begin(w, full)
         \/ Fetch(w) \/ FetchFails(w) \/ WriteFails(w) \/ CommitFails(w)
         \/ Finish(w) \/ Fail(w) \/ Die(w)
  PROVE  DOMAIN run' = Runner /\ \A v \in Runner : Onward(v)
<1>1. CASE \E full \in BOOLEAN : Begin(w, full)
  <2>1. PICK full \in BOOLEAN : Begin(w, full)
    BY <1>1
  <2> DEFINE g == [Idle EXCEPT !.pc = "fetching", !.full = full, !.alone = Alone(w),
                               !.began = IF Alone(w) THEN src ELSE Idle.began,
                               !.since = IF full THEN 0 ELSE row.cursor,
                               !.cursor = row.cursor]
  <2>2. run' = [Disturbed EXCEPT ![w] = g]
    BY <2>1 DEF Begin
  <2>3. DOMAIN g = DOMAIN Idle /\ g.plan = Idle.plan /\ g.pc = "fetching"
    BY FreshCalls
  <2> HIDE DEF g
  <2>4. QED
    BY <2>2, <2>3, DisturbedGoOn DEF Onward
<1>2. CASE Fetch(w)
  <2>1. PICK batch, seen, last :
          run' = [run EXCEPT ![w].pc = "applying", ![w].batch = batch,
                             ![w].seen = seen, ![w].last = last]
    BY <1>2 DEF Fetch
  <2> DEFINE g == [run[w] EXCEPT !.pc = "applying", !.batch = batch, !.seen = seen, !.last = last]
  <2>2. run' = [run EXCEPT ![w] = g]
    BY <2>1
  <2>3. DOMAIN g = DOMAIN Idle /\ g.plan = run[w].plan /\ g.pc = "applying"
    BY DEF RunInv, Idle
  <2>4. run[w].pc = "fetching"
    BY <1>2 DEF Fetch
  <2> HIDE DEF g
  <2>5. QED
    BY <2>2, <2>3, <2>4 DEF Onward, RunInv
<1>3. CASE FetchFails(w) \/ WriteFails(w) \/ CommitFails(w)
  <2>1. \E cursor : run' = [run EXCEPT ![w] = Broken(w, cursor)]
    BY <1>3 DEF FetchFails, WriteFails, CommitFails
  <2>2. QED
    BY <2>1, FreshCalls DEF Onward, RunInv
<1>4. CASE Finish(w) \/ Fail(w) \/ Die(w)
  <2>1. run' = [run EXCEPT ![w] = Idle]
    BY <1>4 DEF Finish, Fail, Die
  <2>2. Idle.pc # "writing"
    BY DEF Idle
  <2>3. QED
    BY <2>1, <2>2 DEF Onward, RunInv
<1>5. QED
  BY <1>1, <1>2, <1>3, <1>4

-----------------------------------------------------------------------------
(* The invariant *)

\* Calls that go on disturb no part of the invariant.
LEMMA GoingOn ==
  ASSUME IInv, task' = task, ref' = ref,
         DOMAIN run' = Runner, \A v \in Runner : Onward(v)
  PROVE  IInv'
<1>1. \A r \in Record : Idle.plan[r] = "none"
  BY DEF Idle
<1>2. RefInv' /\ RunInv' /\ ImportedOnce'
  BY DEF IInv, RefInv, RunInv, ImportedOnce, Onward
<1>3. LockInv'
  BY <1>1 DEF IInv, LockInv, Onward
<1>4. PlanInv'
  BY <1>1 DEF IInv, PlanInv, Purged, Onward
<1>5. QED
  BY <1>2, <1>3, <1>4 DEF IInv

\* At the start nothing is imported and nobody runs.
LEMMA InitEstablishes ==
  ASSUME Init
  PROVE  IInv
<1>1. \A r \in Record : Idle.plan[r] = "none"
  BY DEF Idle
<1>2. Idle.pc = "idle"
  BY DEF Idle
<1>3. QED
  BY <1>1, <1>2 DEF Init, IInv, RefInv, RunInv, LockInv, PlanInv, ImportedOnce

\* What a call decides is true of the tasks as they stand.
LEMMA DecideKeeps ==
  ASSUME IInv, Engine = "sqlite", NEW w \in Runner, NEW bad, Decide(w, bad)
  PROVE  IInv'
<1> DEFINE plan == [r \in Record |->
                      IF r \in bad THEN "skip"
                      ELSE IF r \in Paging(w) THEN Decision(r, run[w].seen[r]) ELSE "none"]
           g == [run[w] EXCEPT !.pc = "writing", !.plan = plan]
<1>1. run' = [run EXCEPT ![w] = g] /\ task' = task /\ ref' = ref
  BY DEF Decide
<1>2. DOMAIN g = DOMAIN Idle /\ g.plan = plan /\ g.pc = "writing"
  BY DEF IInv, RunInv, Idle
<1>3. \A v \in Runner : run[v].pc # "writing"
  BY DEF Decide, Locked
<1>4. \A r \in Record : /\ plan[r] = "create" => task[r] = <<>>
                        /\ plan[r] = "recreate" => Purged(r)
  <2> SUFFICES ASSUME NEW r \in Record
               PROVE  /\ plan[r] = "create" => task[r] = <<>>
                      /\ plan[r] = "recreate" => Purged(r)
    OBVIOUS
  <2>1. plan[r] \in {"create", "recreate"} => plan[r] = Decision(r, run[w].seen[r])
    OBVIOUS
  <2>2. Decision(r, run[w].seen[r]) = "create" => ref[r].copy = 0
    BY DEF Decision
  <2>3. Decision(r, run[w].seen[r]) = "recreate" =>
          ref[r].copy # 0 /\ task[r][ref[r].copy] = "purged"
    BY DEF Decision
  <2>4. ref[r].copy \in 0..Len(task[r]) /\ (ref[r].copy = 0 => task[r] = <<>>)
    BY DEF IInv, RefInv
  <2>5. DOMAIN task[r] = 1..Len(task[r])
    BY DEF IInv, RefInv
  <2>6. ref[r].copy # 0 => ref[r].copy \in DOMAIN task[r]
    BY <2>4, <2>5
  <2> HIDE DEF plan
  <2>7. QED
    BY <2>1, <2>2, <2>3, <2>4, <2>6 DEF Purged
<1> HIDE DEF plan, g
<1>5. RefInv' /\ RunInv' /\ ImportedOnce'
  BY <1>1, <1>2 DEF IInv, RefInv, RunInv, ImportedOnce
<1>6. LockInv'
  BY <1>1, <1>2, <1>3 DEF IInv, LockInv, RunInv
<1>7. PlanInv'
  BY <1>1, <1>2, <1>4 DEF IInv, PlanInv, RunInv, Purged
<1>8. QED
  BY <1>5, <1>6, <1>7 DEF IInv

\* What a call writes is what it decided: nobody has written since.
LEMMA WriteKeeps ==
  ASSUME IInv, NEW w \in Runner, Write(w)
  PROVE  IInv'
<1> DEFINE g == [run[w] EXCEPT !.pc = IF run[w].last THEN "finishing" ELSE "fetching",
                               !.page = @ + 1, !.cursor = Covered(w),
                               !.plan = Idle.plan, !.batch = <<>>,
                               !.seen = IF Paged THEN Idle.seen ELSE @,
                               !.skips = Noted(w)]
<1>1. run' = [run EXCEPT ![w] = g]
  BY DEF Write
<1>2. DOMAIN run = Runner /\ run'[w] = g
  BY <1>1 DEF IInv, RunInv
<1>3. DOMAIN g = DOMAIN Idle /\ g.plan = Idle.plan /\ g.pc # "writing"
  BY DEF IInv, RunInv, Idle
<1>4. \A r \in Record : Idle.plan[r] = "none"
  BY DEF Idle
<1>5. \A v \in Runner \ {w} : \A r \in Record : run[v].plan[r] = "none"
  BY DEF IInv, LockInv, Write
<1> HIDE DEF g
<1>6. RunInv'
  BY <1>1, <1>2, <1>3 DEF IInv, RunInv
<1>7. LockInv'
  BY <1>1, <1>2, <1>3, <1>4 DEF IInv, RunInv, LockInv
<1>8. PlanInv'
  BY <1>1, <1>2, <1>3, <1>4, <1>5 DEF IInv, RunInv, PlanInv
<1>9. \A r \in Record :
        /\ task'[r] = IF New(w, r) THEN Append(task[r], "live") ELSE task[r]
        /\ ref'[r].copy = IF New(w, r) THEN Len(task'[r]) ELSE ref[r].copy
  BY DEF Write, Imported, New
<1>10. task \in [Record -> Seq({"live", "trash", "purged"})]
  BY DEF IInv, RefInv
<1>11. \A r \in Record :
         /\ Append(task[r], "live") \in Seq({"live", "trash", "purged"})
         /\ Len(Append(task[r], "live")) = Len(task[r]) + 1
         /\ Len(task[r]) \in Nat
         /\ DOMAIN task[r] = 1..Len(task[r])
         /\ DOMAIN Append(task[r], "live") = 1..(Len(task[r]) + 1)
         /\ \A k \in DOMAIN task[r] : Append(task[r], "live")[k] = task[r][k]
  BY <1>10
<1>12. task' \in [Record -> Seq({"live", "trash", "purged"})]
  <2>1. task' = [r \in Record |-> IF New(w, r) THEN Append(task[r], "live") ELSE task[r]]
    BY DEF Write
  <2>2. QED
    BY <2>1, <1>10, <1>11
<1>13. RefInv'
  <2> SUFFICES ASSUME NEW r \in Record
               PROVE  ref'[r].copy \in 0..Len(task'[r]) /\ (ref'[r].copy = 0 => task'[r] = <<>>)
    BY <1>12 DEF RefInv
  <2>1. CASE New(w, r)
    <3>1. Len(task'[r]) = Len(task[r]) + 1 /\ Len(task[r]) \in Nat
      BY <2>1, <1>9, <1>11
    <3>2. ref'[r].copy = Len(task'[r])
      BY <2>1, <1>9
    <3>3. QED
      BY <3>1, <3>2
  <2>2. CASE ~New(w, r)
    BY <2>2, <1>9 DEF IInv, RefInv
  <2>3. QED
    BY <2>1, <2>2
<1>14. ImportedOnce'
  <2> SUFFICES ASSUME NEW r \in Record, \A k \in DOMAIN task'[r] : task'[r][k] # "purged"
               PROVE  Len(task'[r]) <= 1
    BY DEF ImportedOnce
  <2>1. CASE run[w].plan[r] = "create"
    <3>1. task[r] = <<>>
      BY <2>1 DEF IInv, PlanInv
    <3>2. task'[r] = Append(task[r], "live")
      BY <2>1, <1>9 DEF New
    <3>3. Len(task'[r]) = Len(task[r]) + 1 /\ Len(task[r]) = 0
      BY <3>1, <3>2, <1>11
    <3>4. QED
      BY <3>3
  <2>2. CASE run[w].plan[r] = "recreate"
    <3>1. PICK k \in DOMAIN task[r] : task[r][k] = "purged"
      BY <2>2 DEF IInv, PlanInv, Purged
    <3>2. task'[r] = Append(task[r], "live")
      BY <2>2, <1>9 DEF New
    <3>3. k \in DOMAIN task'[r] /\ task'[r][k] = "purged"
      BY <3>1, <3>2, <1>11
    <3>4. QED
      BY <3>3
  <2>3. CASE ~New(w, r)
    BY <2>3, <1>9 DEF IInv, ImportedOnce
  <2>4. QED
    BY <2>1, <2>2, <2>3 DEF New
<1>15. QED
  BY <1>6, <1>7, <1>8, <1>13, <1>14 DEF IInv

\* A person acts on a task while no page is being written, and never brings
\* back one that was removed for good.
LEMMA KeepKeeps ==
  ASSUME IInv, Engine = "sqlite", NEW r \in Record, NEW k \in DOMAIN task[r],
         NEW from \in {"live", "trash"}, NEW to \in {"live", "trash", "purged"},
         Keep(r, k, from, to)
  PROVE  IInv'
<1>1. task' = [task EXCEPT ![r] = [task[r] EXCEPT ![k] = to]] /\ task[r][k] = from
  BY DEF Keep
<1>2. ref' = ref /\ run' = run
  BY DEF Keep
<1>3. \A v \in Runner : \A q \in Record : run[v].plan[q] = "none"
  BY DEF Keep, Locked, IInv, LockInv
<1>4. task \in [Record -> Seq({"live", "trash", "purged"})]
  BY DEF IInv, RefInv
<1> DEFINE s == [task[r] EXCEPT ![k] = to]
<1>5. s \in Seq({"live", "trash", "purged"}) /\ Len(s) = Len(task[r])
      /\ DOMAIN s = DOMAIN task[r] /\ s[k] = to
      /\ \A j \in DOMAIN task[r] \ {k} : s[j] = task[r][j]
  <2>1. task[r] \in Seq({"live", "trash", "purged"})
    BY <1>4
  <2>2. QED
    BY <2>1
<1> HIDE DEF s
<1>6. /\ task' \in [Record -> Seq({"live", "trash", "purged"})]
      /\ task'[r] = s
      /\ \A q \in Record \ {r} : task'[q] = task[q]
  <2>1. task' = [task EXCEPT ![r] = s]
    BY <1>1 DEF s
  <2>2. QED
    BY <2>1, <1>4, <1>5
<1>7. \A q \in Record : Len(task'[q]) = Len(task[q])
  BY <1>5, <1>6
<1>8. RefInv'
  <2>1. \A q \in Record : task'[q] = <<>> <=> task[q] = <<>>
    BY <1>4, <1>5, <1>6
  <2>2. QED
    BY <1>2, <1>6, <1>7, <2>1 DEF IInv, RefInv
<1>9. RunInv' /\ LockInv' /\ PlanInv'
  BY <1>2, <1>3 DEF IInv, RunInv, LockInv, PlanInv
<1>10. ImportedOnce'
  <2> SUFFICES ASSUME NEW q \in Record, \A j \in DOMAIN task'[q] : task'[q][j] # "purged"
               PROVE  Len(task'[q]) <= 1
    BY DEF ImportedOnce
  <2>1. \A j \in DOMAIN task[q] : task[q][j] # "purged"
    <3>1. CASE q = r
      BY <3>1, <1>1, <1>5, <1>6
    <3>2. CASE q # r
      BY <3>2, <1>6
    <3>3. QED
      BY <3>1, <3>2
  <2>2. Len(task[q]) <= 1
    BY <2>1 DEF IInv, ImportedOnce
  <2>3. QED
    BY <2>2, <1>7
<1>11. QED
  BY <1>8, <1>9, <1>10 DEF IInv

\* Every step keeps what a single writer relies on.
LEMMA NextKeeps ==
  ASSUME IInv, Engine = "sqlite", [Next]_vars
  PROVE  IInv'
<1>1. ASSUME NEW w \in Runner, RunStep(w)
      PROVE  IInv'
  <2>1. CASE \E bad \in SUBSET Paging(w) : Decide(w, bad)
    BY <2>1, DecideKeeps
  <2>2. CASE Write(w)
    BY <2>2, WriteKeeps
  <2>3. CASE \/ \E full \in BOOLEAN : Begin(w, full)
             \/ Fetch(w) \/ FetchFails(w) \/ WriteFails(w) \/ CommitFails(w)
             \/ Finish(w) \/ Fail(w) \/ Die(w)
    <3>1. DOMAIN run' = Runner /\ \A v \in Runner : Onward(v)
      BY <2>3, CallsGoOn DEF IInv
    <3>2. task' = task /\ ref' = ref
      BY <2>3 DEF Begin, Fetch, FetchFails, WriteFails, CommitFails, Finish, Fail, Die
    <3>3. QED
      BY <3>1, <3>2, GoingOn
  <2>4. QED
    BY <1>1, <2>1, <2>2, <2>3 DEF RunStep
<1>2. ASSUME EditRead \/ EditWrite \/ DeleteSyncSource \/ (\E r \in Record : Change(r))
             \/ Tick \/ UNCHANGED vars
      PROVE  IInv'
  <2>1. task' = task /\ ref' = ref /\ (run' = run \/ run' = Disturbed)
    BY <1>2 DEF EditRead, EditWrite, DeleteSyncSource, Change, Tick, vars
  <2>2. DOMAIN run' = Runner /\ \A v \in Runner : Onward(v)
    BY <2>1, DisturbedGoOn DEF IInv, RunInv, Onward
  <2>3. QED
    BY <2>1, <2>2, GoingOn
<1>3. ASSUME NEW r \in Touched, NEW k \in DOMAIN task[r],
             \/ Keep(r, k, "live", "trash") \/ Keep(r, k, "trash", "live")
             \/ Keep(r, k, "live", "purged") \/ Keep(r, k, "trash", "purged")
      PROVE  IInv'
  <2>1. r \in Record
    BY SyncAssumption
  <2>2. QED
    BY <1>3, <2>1, KeepKeeps
<1>4. QED
  BY <1>1, <1>2, <1>3 DEF Next

-----------------------------------------------------------------------------

\* On SQLite a record becomes one task, unless the task was removed for good,
\* however many imports of its source run at a time.
THEOREM RecordsAreImportedOnce ==
  ASSUME Engine = "sqlite"
  PROVE  Spec => []ImportedOnce
<1>1. Init => IInv
  BY InitEstablishes
<1>2. IInv /\ [Next]_vars => IInv'
  BY NextKeeps
<1>3. IInv => ImportedOnce
  BY DEF IInv
<1>4. QED
  BY <1>1, <1>2, <1>3, PTL DEF Spec

-----------------------------------------------------------------------------
(* Listings: oldest first, each record once *)

\* The records listed before one.
Before(seen, since, r) == {q \in Eligible(seen, since) : Earlier(seen, q, r)}

\* What is listed is a finite set.
LEMMA DueIsFinite ==
  ASSUME NEW seen, NEW since
  PROVE  /\ IsFiniteSet(Eligible(seen, since))
         /\ Cardinality(Eligible(seen, since)) \in Nat
<1>1. IsFiniteSet(Record)
  BY FS_Interval, SyncAssumption DEF Record
<1>2. Eligible(seen, since) \subseteq Record
  BY DEF Eligible
<1> QED
  BY <1>1, <1>2, FS_Subset, FS_CardinalityType

\* A record's place is below the number of records listed.
LEMMA PlaceIsBounded ==
  ASSUME NEW seen \in [Record -> Time], NEW since, NEW r \in Eligible(seen, since)
  PROVE  Cardinality(Before(seen, since, r)) \in 0..(Cardinality(Eligible(seen, since)) - 1)
<1>1. r \in Record /\ seen[r] \in Int /\ r \in Int
  BY SyncAssumption DEF Eligible, Time, Record
<1>2. ~Earlier(seen, r, r)
  BY <1>1 DEF Earlier
<1>3. Before(seen, since, r) \in SUBSET (Eligible(seen, since) \ {r})
  BY <1>2 DEF Before
<1>4. /\ IsFiniteSet(Eligible(seen, since) \ {r})
      /\ Cardinality(Eligible(seen, since) \ {r}) = Cardinality(Eligible(seen, since)) - 1
  BY DueIsFinite, FS_RemoveElement
<1>5. /\ Cardinality(Before(seen, since, r)) <= Cardinality(Eligible(seen, since) \ {r})
      /\ IsFiniteSet(Before(seen, since, r))
  BY <1>3, <1>4, FS_Subset
<1>6. Cardinality(Before(seen, since, r)) \in Nat
  BY <1>5, FS_CardinalityType
<1> QED
  BY <1>4, <1>5, <1>6, DueIsFinite

\* An earlier record has a lower place.
LEMMA PlacesAscend ==
  ASSUME NEW seen \in [Record -> Time], NEW since,
         NEW q \in Eligible(seen, since), NEW r \in Eligible(seen, since), Earlier(seen, q, r)
  PROVE  Cardinality(Before(seen, since, q)) < Cardinality(Before(seen, since, r))
<1>0. \A a \in Eligible(seen, since) : a \in Record /\ a \in Int /\ seen[a] \in Int
  BY SyncAssumption DEF Eligible, Time, Record
<1>1. Before(seen, since, q) \in SUBSET Before(seen, since, r)
  <2> SUFFICES ASSUME NEW a \in Eligible(seen, since), Earlier(seen, a, q)
               PROVE  Earlier(seen, a, r)
    BY DEF Before
  <2> QED
    BY <1>0 DEF Earlier
<1>2. q \in Before(seen, since, r) /\ q \notin Before(seen, since, q)
  BY <1>0 DEF Before, Earlier
<1>3. Before(seen, since, r) \in SUBSET Eligible(seen, since)
  BY DEF Before
<1>4. IsFiniteSet(Before(seen, since, r))
  BY <1>3, DueIsFinite, FS_Subset
<1>5. /\ Cardinality(Before(seen, since, q)) <= Cardinality(Before(seen, since, r))
      /\ Cardinality(Before(seen, since, q)) # Cardinality(Before(seen, since, r))
  BY <1>1, <1>2, <1>4, FS_Subset
<1>6. /\ Cardinality(Before(seen, since, q)) \in Int
      /\ Cardinality(Before(seen, since, r)) \in Int
  BY PlaceIsBounded, DueIsFinite
<1> QED
  BY <1>5, <1>6

\* Any two records are in some order.
LEMMA EarlierIsTotal ==
  ASSUME NEW seen \in [Record -> Time], NEW q \in Record, NEW r \in Record, q # r
  PROVE  Earlier(seen, q, r) \/ Earlier(seen, r, q)
<1>1. q \in Int /\ r \in Int /\ seen[q] \in Int /\ seen[r] \in Int
  BY SyncAssumption DEF Time, Record
<1> QED
  BY <1>1 DEF Earlier

\* Every place is taken.
LEMMA PlacesAreTaken ==
  ASSUME NEW seen \in [Record -> Time], NEW since,
         NEW k \in 0..(Cardinality(Eligible(seen, since)) - 1)
  PROVE  \E r \in Eligible(seen, since) : Cardinality(Before(seen, since, r)) = k
<1> DEFINE due == Eligible(seen, since)
           places == 0..(Cardinality(due) - 1)
           place == [r \in due |-> Cardinality(Before(seen, since, r))]
<1>1. place \in [due -> places]
  BY PlaceIsBounded
<1>2. \A q, r \in due : q # r => place[q] # place[r]
  <2> SUFFICES ASSUME NEW q \in due, NEW r \in due, q # r
               PROVE  place[q] # place[r]
    OBVIOUS
  <2>1. q \in Record /\ r \in Record
    BY DEF Eligible
  <2>2. place[q] \in Int /\ place[r] \in Int
    BY <1>1
  <2>3. Earlier(seen, q, r) \/ Earlier(seen, r, q)
    BY <2>1, EarlierIsTotal
  <2>4. place[q] < place[r] \/ place[r] < place[q]
    BY <2>3, PlacesAscend
  <2> QED
    BY <2>2, <2>4
<1>3. place \in Injection(due, places)
  BY <1>1, <1>2 DEF Injection, IsInjective
<1>4. IsFiniteSet(places) /\ Cardinality(places) = Cardinality(due)
  <2>1. Cardinality(due) - 1 \in Int /\ Cardinality(due) \in Nat
    BY DueIsFinite
  <2> QED
    BY <2>1, FS_Interval
<1>5. place \in Surjection(due, places)
  BY <1>3, <1>4, FS_Injection
<1>6. \E r \in due : place[r] = k
  BY <1>5 DEF Surjection
<1> QED
  BY <1>6

\* A listing holds what is eligible, each record once and oldest first.
LEMMA ListingSorts ==
  ASSUME NEW seen \in [Record -> Time], NEW since
  PROVE  LET list == Listing(seen, since)
         IN  /\ list \in Seq(Eligible(seen, since))
             /\ \A r \in Eligible(seen, since) : \E i \in 1..Len(list) : list[i] = r
             /\ \A i, j \in 1..Len(list) : i < j => Earlier(seen, list[i], list[j])
<1> DEFINE due == Eligible(seen, since)
           n == Cardinality(due)
           list == Listing(seen, since)
           place(r) == Cardinality(Before(seen, since, r))
<1>0. n \in Nat
  BY DueIsFinite
<1>1. list = [i \in 1..n |-> CHOOSE r \in due : place(r) = i - 1]
  BY DEF Listing, Before
<1>2. \A i \in 1..n : list[i] \in due /\ place(list[i]) = i - 1
  <2> SUFFICES ASSUME NEW i \in 1..n
               PROVE  list[i] \in due /\ place(list[i]) = i - 1
    OBVIOUS
  <2>1. i - 1 \in 0..(n - 1)
    BY <1>0
  <2>2. \E r \in due : place(r) = i - 1
    BY <2>1, PlacesAreTaken
  <2>3. list[i] = CHOOSE r \in due : place(r) = i - 1
    BY <1>1
  <2> HIDE DEF due, n, place
  <2> QED
    BY <2>2, <2>3
<1>3. list \in [1..n -> due]
  <2> HIDE DEF due, n, place
  <2> QED BY <1>1, <1>2
<1>4. list \in Seq(due) /\ Len(list) = n
  <2> HIDE DEF due, n, list
  <2> QED BY <1>0, <1>3
<1>5. \A r \in due : \E i \in 1..n : list[i] = r
  <2> SUFFICES ASSUME NEW r \in due
               PROVE  \E i \in 1..n : list[i] = r
    OBVIOUS
  <2>1. place(r) \in 0..(n - 1)
    BY PlaceIsBounded
  <2> DEFINE i == place(r) + 1
  <2>2. i \in 1..n /\ place(r) = i - 1
    BY <2>1, <1>0
  <2>3. list[i] \in due /\ place(list[i]) = place(r) /\ place(r) \in Int
    BY <1>2, <2>1, <2>2
  <2>4. list[i] = r
    <3> SUFFICES ASSUME list[i] # r
                 PROVE  FALSE
      OBVIOUS
    <3> DEFINE q == list[i]
    <3>1. q \in Record /\ r \in Record
      BY <2>3 DEF Eligible
    <3>2. Earlier(seen, q, r) \/ Earlier(seen, r, q)
      BY <3>1, EarlierIsTotal
    <3>3. place(q) < place(r) \/ place(r) < place(q)
      BY <2>3, <3>2, PlacesAscend
    <3> QED
      BY <2>3, <3>3
  <2> QED
    BY <2>2, <2>4
<1>6. ASSUME NEW i \in 1..n, NEW j \in 1..n, i < j
      PROVE  Earlier(seen, list[i], list[j])
  <2> DEFINE q == list[i]
             r == list[j]
  <2>1. q \in due /\ r \in due /\ place(q) = i - 1 /\ place(r) = j - 1
    BY <1>2
  <2>2. q \in Record /\ r \in Record
    BY <2>1 DEF Eligible
  <2>3. q # r
    BY <2>1, <1>6
  <2>4. ~Earlier(seen, r, q)
    <3> SUFFICES ASSUME Earlier(seen, r, q)
                 PROVE  FALSE
      OBVIOUS
    <3>1. place(r) < place(q)
      BY <2>1, PlacesAscend
    <3> QED
      BY <2>1, <3>1, <1>6
  <2> QED
    BY <2>2, <2>3, <2>4, EarlierIsTotal
<1> QED
  BY <1>3, <1>4, <1>5, <1>6

\* A page is the stretch of the listing between two multiples of the page size.
LEMMA PageIsAStretch ==
  ASSUME NEW list \in Seq(Record), NEW page \in Nat
  PROVE  LET batch == PageOf(list, page)
             lo == page * PageSize
             hi == (page + 1) * PageSize
         IN  /\ lo \in Nat /\ hi \in Nat /\ lo < hi
             /\ batch \in Seq(Record)
             /\ \A k \in 1..Len(batch) :
                  /\ lo + k \in 1..Len(list) /\ lo + k <= hi
                  /\ batch[k] = list[lo + k]
             /\ \A i \in 1..Len(list) :
                  lo < i /\ i <= hi => i - lo \in 1..Len(batch)
<1> DEFINE batch == PageOf(list, page)
           lo == page * PageSize
           hi == (page + 1) * PageSize
           end == Min({hi, Len(list)})
<1>1. lo \in Nat /\ hi \in Nat /\ hi = lo + PageSize /\ PageSize \in Nat \ {0}
  BY SyncAssumption
<1>2. Len(list) \in Nat
  OBVIOUS
<1>3. end = IF hi <= Len(list) THEN hi ELSE Len(list)
  <2> HIDE DEF lo, hi
  <2>1. \E x \in {hi, Len(list)} : \A y \in {hi, Len(list)} : x <= y
    BY <1>1, <1>2
  <2>2. end \in {hi, Len(list)} /\ \A y \in {hi, Len(list)} : end <= y
    BY <2>1 DEF Min
  <2> QED
    BY <1>1, <1>2, <2>2
<1>4. batch = SubSeq(list, lo + 1, end)
  BY DEF PageOf
<1> HIDE DEF lo, hi, end, batch
<1>5. end \in Int /\ end <= Len(list) /\ end <= hi
  BY <1>1, <1>2, <1>3
<1>6. CASE end <= lo
  <2>1. batch = <<>>
    BY <1>1, <1>4, <1>5, <1>6
  <2>2. batch \in Seq(Record) /\ Len(batch) = 0
    BY <2>1
  <2>3. \A i \in 1..Len(list) : ~(lo < i /\ i <= hi)
    BY <1>1, <1>2, <1>3, <1>6
  <2> QED
    BY <1>1, <2>2, <2>3 DEF lo, hi, batch
<1>7. CASE end > lo
  <2>1. batch = [k \in 1..(end - lo) |-> list[lo + k]]
    BY <1>1, <1>4, <1>5, <1>7
  <2>2. end - lo \in Nat
    BY <1>1, <1>5, <1>7
  <2>3. \A k \in 1..(end - lo) : lo + k \in 1..Len(list) /\ lo + k <= hi
    BY <1>1, <1>2, <1>5
  <2>4. \A k \in 1..(end - lo) : list[lo + k] \in Record
    BY <2>3
  <2>5. batch \in Seq(Record) /\ Len(batch) = end - lo
    BY <2>1, <2>2, <2>4
  <2>6. \A i \in 1..Len(list) : lo < i /\ i <= hi => i - lo \in 1..(end - lo)
    BY <1>1, <1>2, <1>3
  <2>7. \A k \in 1..Len(batch) : batch[k] = list[lo + k]
    BY <2>1, <2>5
  <2> QED
    BY <1>1, <2>3, <2>5, <2>6, <2>7 DEF lo, hi, batch
<1> QED
  BY <1>1, <1>5, <1>6, <1>7

-----------------------------------------------------------------------------
(* The types *)

\* Nothing changed yet is a time.
LEMMA TimesBegin == 0 \in Time
BY SyncAssumption DEF Time

\* Calls that begin, fail and end have the type of a call.
LEMMA FreshAreTyped ==
  ASSUME TypeOK
  PROVE  /\ Idle \in Run
         /\ \A full \in BOOLEAN, alone \in BOOLEAN, began \in [Record -> Time],
               since \in Time, cursor \in Time :
              [Idle EXCEPT !.pc = "fetching", !.full = full, !.alone = alone,
                           !.began = began, !.since = since, !.cursor = cursor] \in Run
         /\ \A w \in Runner, cursor \in Time : Broken(w, cursor) \in Run
         /\ Disturbed \in [Runner -> Run]
<1>1. Idle \in Run
  BY TimesBegin DEF Idle, Run
<1>2. ASSUME NEW full \in BOOLEAN, NEW alone \in BOOLEAN, NEW began \in [Record -> Time],
             NEW since \in Time, NEW cursor \in Time
      PROVE  [Idle EXCEPT !.pc = "fetching", !.full = full, !.alone = alone,
                          !.began = began, !.since = since, !.cursor = cursor] \in Run
  <2>1. \A g \in Run : [g EXCEPT !.pc = "fetching", !.full = full, !.alone = alone] \in Run
    BY DEF Run
  <2>2. \A g \in Run : [g EXCEPT !.began = began, !.since = since, !.cursor = cursor] \in Run
    BY DEF Run
  <2> QED
    BY <1>1, <2>1, <2>2
<1>3. ASSUME NEW w \in Runner, NEW cursor \in Time
      PROVE  Broken(w, cursor) \in Run
  <2>1. run[w].full \in BOOLEAN /\ run[w].alone \in BOOLEAN
    BY DEF TypeOK, Run
  <2>2. \A g \in Run, full \in BOOLEAN, alone \in BOOLEAN :
          [g EXCEPT !.pc = "failing", !.full = full, !.alone = alone, !.cursor = cursor] \in Run
    BY DEF Run
  <2> QED
    BY <1>1, <2>1, <2>2 DEF Broken
<1>4. \A g \in Run : [g EXCEPT !.alone = FALSE, !.began = Idle.began] \in Run
  <2>1. Idle.began \in [Record -> Time]
    BY TimesBegin DEF Idle
  <2> QED
    BY <2>1 DEF Run
<1>5. Disturbed \in [Runner -> Run]
  BY <1>4 DEF Disturbed, TypeOK
<1> QED
  BY <1>1, <1>2, <1>3, <1>5

\* What a page reads is typed, and so is the cursor that covers it.
LEMMA PagesAreTyped ==
  ASSUME TypeOK, NEW w \in Runner
  PROVE  /\ Covered(w) \in Time
         /\ \A seen \in [Record -> Time], since \in Time, page \in Nat :
              PageOf(Listing(seen, since), page) \in Seq(Record)
         /\ \A batch : Answered(src, batch) \in [Record -> Time]
<1>1. Covered(w) \in Time
  <2>1. run[w].batch \in Seq(Record) /\ run[w].seen \in [Record -> Time] /\ run[w].cursor \in Time
    BY DEF TypeOK, Run
  <2>2. run[w].batch # <<>> => Last(run[w].batch) \in Record
    BY <2>1 DEF Last
  <2> QED
    BY <2>1, <2>2 DEF Covered
<1>2. ASSUME NEW seen \in [Record -> Time], NEW since \in Time, NEW page \in Nat
      PROVE  PageOf(Listing(seen, since), page) \in Seq(Record)
  <2>1. Listing(seen, since) \in Seq(Eligible(seen, since))
    BY ListingSorts
  <2>2. Eligible(seen, since) \subseteq Record
    BY DEF Eligible
  <2>3. Listing(seen, since) \in Seq(Record)
    BY <2>1, <2>2
  <2> QED
    BY <2>3, PageIsAStretch
<1>3. \A batch : Answered(src, batch) \in [Record -> Time]
  BY TimesBegin DEF Answered, TypeOK
<1> QED
  BY <1>1, <1>2, <1>3

\* The first state is of the right types.
LEMMA InitTypes ==
  ASSUME Init
  PROVE  TypeOK
<1>1. Idle \in Run
  BY TimesBegin DEF Idle, Run
<1>2. 1 \in Time
  BY SyncAssumption DEF Time
<1>3. \A r \in Record : 0 \in 0..MaxCopies /\ Len(<<>>) = 0 /\ 0 <= MaxCopies
  BY SyncAssumption
<1>4. task \in [Record -> Seq({"live", "trash", "purged"})]
  BY DEF Init
<1>5. ref \in [Record -> [copy: 0..MaxCopies, ver: Time]]
  BY <1>3, TimesBegin DEF Init
<1> QED
  BY <1>1, <1>2, <1>3, <1>4, <1>5, TimesBegin DEF Init, TypeOK

\* The calls of RunSync stay typed.
LEMMA RunsStayTyped ==
  ASSUME TypeOK, NEW w \in Runner, RunStep(w)
  PROVE  run' \in [Runner -> Run]
<1>0. run \in [Runner -> Run] /\ run[w] \in Run
  BY DEF TypeOK
<1>1. ASSUME NEW full \in BOOLEAN, Begin(w, full)
      PROVE  run' \in [Runner -> Run]
  <2> DEFINE began == IF Alone(w) THEN src ELSE Idle.began
             since == IF full THEN 0 ELSE row.cursor
             g == [Idle EXCEPT !.pc = "fetching", !.full = full, !.alone = Alone(w),
                               !.began = began, !.since = since, !.cursor = row.cursor]
  <2>1. row.cursor \in Time /\ src \in [Record -> Time]
    BY DEF TypeOK
  <2>2. Idle.began \in [Record -> Time]
    BY TimesBegin DEF Idle
  <2>3. began \in [Record -> Time] /\ since \in Time
    BY <2>1, <2>2, TimesBegin
  <2>4. Alone(w) \in BOOLEAN
    BY DEF Alone
  <2>5. g \in Run
    <3> HIDE DEF began, since
    <3> QED BY <2>1, <2>3, <2>4, FreshAreTyped
  <2>6. run' = [Disturbed EXCEPT ![w] = g]
    BY <1>1 DEF Begin
  <2> HIDE DEF g
  <2> QED
    BY <2>5, <2>6, FreshAreTyped
<1>2. CASE Fetch(w)
  <2> DEFINE seen == IF Paged \/ run[w].page = 0 THEN src ELSE run[w].seen
             batch == PageOf(Listing(seen, run[w].since), run[w].page)
             read == IF Paged THEN Answered(src, batch) ELSE seen
             last == IsLast(Listing(seen, run[w].since), run[w].page)
             g == [run[w] EXCEPT !.pc = "applying", !.batch = batch, !.seen = read, !.last = last]
  <2>1. src \in [Record -> Time] /\ run[w].seen \in [Record -> Time]
        /\ run[w].since \in Time /\ run[w].page \in Nat
    BY <1>0 DEF TypeOK, Run
  <2>2. seen \in [Record -> Time]
    BY <2>1
  <2>3. batch \in Seq(Record)
    <3> HIDE DEF seen
    <3> QED BY <2>1, <2>2, PagesAreTyped
  <2>4. read \in [Record -> Time]
    <3> HIDE DEF batch, seen
    <3> QED BY <2>2, PagesAreTyped
  <2>5. last \in BOOLEAN
    BY DEF IsLast
  <2>6. run' = [run EXCEPT ![w] = g]
    BY <1>2 DEF Fetch
  <2> HIDE DEF seen, batch, read, last
  <2>7. g \in Run
    BY <1>0, <2>3, <2>4, <2>5 DEF Run
  <2> HIDE DEF g
  <2> QED
    BY <1>0, <2>6, <2>7
<1>3. CASE FetchFails(w) \/ WriteFails(w) \/ CommitFails(w)
  <2>1. PICK cursor \in Time : run' = [run EXCEPT ![w] = Broken(w, cursor)]
    <3>1. run[w].cursor \in Time
      BY <1>0 DEF Run
    <3> QED BY <1>3, <3>1, PagesAreTyped DEF FetchFails, WriteFails, CommitFails
  <2> QED
    BY <1>0, <2>1, FreshAreTyped
<1>4. ASSUME NEW bad \in SUBSET Paging(w), Decide(w, bad)
      PROVE  run' \in [Runner -> Run]
  <2> DEFINE plan == [r \in Record |->
                        IF r \in bad THEN "skip"
                        ELSE IF r \in Paging(w) THEN Decision(r, run[w].seen[r]) ELSE "none"]
             g == [run[w] EXCEPT !.pc = "writing", !.plan = plan]
  <2>1. run' = [run EXCEPT ![w] = g]
    BY <1>4 DEF Decide
  <2>2. plan \in [Record -> {"none", "create", "recreate", "update", "skip", "same"}]
    BY DEF Decision
  <2> HIDE DEF plan
  <2>3. g \in Run
    BY <1>0, <2>2 DEF Run
  <2> HIDE DEF g
  <2> QED
    BY <1>0, <2>1, <2>3
<1>5. CASE Write(w)
  <2> DEFINE pc == IF run[w].last THEN "finishing" ELSE "fetching"
             seen == IF Paged THEN Idle.seen ELSE run[w].seen
             g == [run[w] EXCEPT !.pc = pc, !.page = @ + 1, !.cursor = Covered(w),
                                 !.plan = Idle.plan, !.batch = <<>>, !.seen = seen,
                                 !.skips = Noted(w)]
  <2>1. run' = [run EXCEPT ![w] = g]
    BY <1>5 DEF Write
  <2>2. /\ seen \in [Record -> Time] /\ run[w].page + 1 \in Nat
        /\ Noted(w) \in [Record -> Time]
    BY <1>0, TimesBegin DEF Idle, Run, Noted
  <2>3. Idle.plan \in [Record -> {"none", "create", "recreate", "update", "skip", "same"}]
    BY DEF Idle
  <2>4. pc \in {"finishing", "fetching"} /\ Covered(w) \in Time /\ <<>> \in Seq(Record)
    BY PagesAreTyped
  <2> HIDE DEF pc, seen
  <2>5. g \in Run
    BY <1>0, <2>2, <2>3, <2>4 DEF Run
  <2> HIDE DEF g
  <2> QED
    BY <1>0, <2>1, <2>5
<1>6. CASE Finish(w) \/ Fail(w) \/ Die(w)
  <2>1. run' = [run EXCEPT ![w] = Idle]
    BY <1>6 DEF Finish, Fail, Die
  <2> QED
    BY <1>0, <2>1, FreshAreTyped
<1> QED
  BY <1>1, <1>2, <1>3, <1>4, <1>5, <1>6 DEF RunStep

\* So do the tasks and references, which a page alone creates.
LEMMA WritesAreTyped ==
  ASSUME TypeOK, NEW w \in Runner, Write(w)
  PROVE  /\ task' \in [Record -> Seq({"live", "trash", "purged"})]
         /\ ref' \in [Record -> [copy: 0..MaxCopies, ver: Time]]
         /\ \A r \in Record : /\ ref'[r].copy <= Len(task'[r]) /\ Len(task'[r]) <= MaxCopies
                              /\ ref'[r].copy = 0 <=> task'[r] = <<>>
         /\ skipped' \in [Record -> Time]
<1> DEFINE Kinds == {"live", "trash", "purged"}
<1>0. run[w].seen \in [Record -> Time] /\ MaxCopies \in Nat
  BY SyncAssumption DEF TypeOK, Run
<1>1. /\ task \in [Record -> Seq(Kinds)]
      /\ ref \in [Record -> [copy: 0..MaxCopies, ver: Time]]
      /\ skipped \in [Record -> Time]
  BY DEF TypeOK
<1>2. \A r \in Record : /\ Append(task[r], "live") \in Seq(Kinds)
                        /\ Len(Append(task[r], "live")) = Len(task[r]) + 1
                        /\ Len(task[r]) \in Nat
  BY <1>1
<1>3. task' = [r \in Record |-> IF New(w, r) THEN Append(task[r], "live") ELSE task[r]]
  BY DEF Write
<1>4. task' \in [Record -> Seq(Kinds)]
  <2> HIDE DEF Kinds
  <2> QED BY <1>1, <1>2, <1>3
<1>5. ref' = [r \in Record |->
        IF Imported(w, r)
        THEN [copy |-> IF New(w, r) THEN Len(task'[r]) ELSE ref[r].copy, ver |-> run[w].seen[r]]
        ELSE ref[r]]
  BY DEF Write
<1>6. \A r \in Record : New(w, r) => Imported(w, r) /\ Len(task[r]) < MaxCopies
  BY DEF Write, New, Imported
<1>7. ASSUME NEW r \in Record
      PROVE  /\ ref'[r] \in [copy: 0..MaxCopies, ver: Time]
             /\ ref'[r].copy <= Len(task'[r]) /\ Len(task'[r]) <= MaxCopies
             /\ ref'[r].copy = 0 <=> task'[r] = <<>>
  <2>0. /\ ref[r].copy <= Len(task[r]) /\ Len(task[r]) <= MaxCopies
        /\ ref[r].copy = 0 <=> task[r] = <<>>
        /\ ref[r] \in [copy: 0..MaxCopies, ver: Time] /\ ref[r].copy \in 0..MaxCopies
    BY <1>1 DEF TypeOK
  <2>1. CASE New(w, r)
    <3>1. task'[r] = Append(task[r], "live") /\ Imported(w, r)
      BY <1>3, <1>6, <2>1
    <3>2. ref'[r] = [copy |-> Len(task'[r]), ver |-> run[w].seen[r]]
      BY <1>5, <2>1, <3>1
    <3>3. Len(task'[r]) = Len(task[r]) + 1 /\ Len(task[r]) \in Nat /\ Len(task[r]) < MaxCopies
      BY <1>2, <1>6, <2>1, <3>1
    <3>4. Len(task'[r]) \in 1..MaxCopies
      BY <1>0, <3>3
    <3>5. task'[r] # <<>>
      BY <3>4
    <3> QED
      BY <1>0, <3>2, <3>4, <3>5
  <2>2. CASE ~New(w, r)
    <3>1. task'[r] = task[r]
      BY <1>3, <2>2
    <3>2. ref'[r] = ref[r] \/ ref'[r] = [copy |-> ref[r].copy, ver |-> run[w].seen[r]]
      BY <1>5, <2>2
    <3>3. ref'[r].copy = ref[r].copy /\ ref'[r] \in [copy: 0..MaxCopies, ver: Time]
      BY <1>0, <2>0, <3>2
    <3> QED
      BY <2>0, <3>1, <3>3
  <2> QED
    BY <2>1, <2>2
<1>8. ref' \in [Record -> [copy: 0..MaxCopies, ver: Time]]
  BY <1>5, <1>7
<1>9. skipped' \in [Record -> Time]
  BY <1>0, <1>1, TimesBegin DEF Write
<1> QED
  BY <1>4, <1>7, <1>8, <1>9

\* A task that is deleted, restored or removed stays where it is.
LEMMA KeptAreTyped ==
  ASSUME TypeOK, NEW r \in Record, NEW k \in DOMAIN task[r],
         NEW from \in {"live", "trash"}, NEW to \in {"live", "trash", "purged"},
         Keep(r, k, from, to)
  PROVE  /\ task' \in [Record -> Seq({"live", "trash", "purged"})]
         /\ \A q \in Record : /\ Len(task'[q]) = Len(task[q])
                              /\ task'[q] = <<>> <=> task[q] = <<>>
<1> DEFINE Kinds == {"live", "trash", "purged"}
           s == [task[r] EXCEPT ![k] = to]
<1>1. task' = [task EXCEPT ![r] = s] /\ task \in [Record -> Seq(Kinds)]
  BY DEF Keep, TypeOK
<1>2. task[r] \in Seq(Kinds)
  BY <1>1
<1>3. s \in Seq(Kinds) /\ Len(s) = Len(task[r]) /\ (s = <<>> <=> task[r] = <<>>)
  BY <1>2
<1> HIDE DEF s, Kinds
<1>4. task' \in [Record -> Seq(Kinds)] /\ task'[r] = s /\ \A q \in Record \ {r} : task'[q] = task[q]
  BY <1>1, <1>3
<1> QED
  BY <1>3, <1>4 DEF Kinds

\* Every step keeps the types.
LEMMA StepTypes ==
  ASSUME TypeOK, [Next]_vars
  PROVE  TypeOK'
<1>0. /\ now \in Time /\ src \in [Record -> Time] /\ run \in [Runner -> Run]
      /\ row \in [there: BOOLEAN, cursor: Time] /\ row.cursor \in Time
      /\ edit \in {-1} \cup Time /\ calm \in BOOLEAN
  BY DEF TypeOK
<1>1. \A c \in Time : Stored(c) => row' \in [there: BOOLEAN, cursor: Time]
  BY DEF Stored
<1>2. ASSUME NEW w \in Runner, RunStep(w), ~Write(w)
      PROVE  TypeOK'
  <2>1. run' \in [Runner -> Run]
    BY <1>2, RunsStayTyped
  <2>2. /\ UNCHANGED <<now, src, task, ref, edit, skipped>>
        /\ row' = row \/ Stored(run[w].cursor)
        /\ calm' \in BOOLEAN
    BY <1>0, <1>2 DEF RunStep, Begin, Fetch, FetchFails, Decide, WriteFails, CommitFails,
                      Finish, Fail, Die, Alone
  <2>3. run[w].cursor \in Time
    BY <1>0 DEF Run
  <2> QED
    BY <1>1, <2>1, <2>2, <2>3 DEF TypeOK
<1>3. ASSUME NEW w \in Runner, Write(w)
      PROVE  TypeOK'
  <2>1. run' \in [Runner -> Run]
    BY <1>3, RunsStayTyped DEF RunStep
  <2>2. UNCHANGED <<now, src, edit, calm>> /\ row' \in [there: BOOLEAN, cursor: Time]
    BY <1>1, <1>3, PagesAreTyped DEF Write
  <2> QED
    BY <1>3, <2>1, <2>2, WritesAreTyped DEF TypeOK
<1>4. CASE EditRead \/ EditWrite \/ DeleteSyncSource \/ Tick
  <2>1. run' \in [Runner -> Run]
    BY <1>0, <1>4, FreshAreTyped DEF EditRead, EditWrite, DeleteSyncSource, Tick
  <2>2. UNCHANGED <<src, task, ref, skipped, calm>>
    BY <1>4 DEF EditRead, EditWrite, DeleteSyncSource, Tick
  <2>3. edit' \in {-1} \cup Time
    BY <1>0, <1>4 DEF EditRead, EditWrite, DeleteSyncSource, Tick
  <2>4. row' \in [there: BOOLEAN, cursor: Time]
    <3>1. CASE EditWrite
      <4>1. edit \in Time /\ Stored(edit)
        BY <1>0, <3>1 DEF EditWrite
      <4> QED BY <1>1, <4>1
    <3>2. CASE DeleteSyncSource
      BY <3>2, TimesBegin DEF DeleteSyncSource
    <3>3. CASE EditRead \/ Tick
      BY <1>0, <3>3 DEF EditRead, Tick
    <3> QED BY <1>4, <3>1, <3>2, <3>3
  <2>5. now' \in Time
    BY <1>0, <1>4, SyncAssumption DEF EditRead, EditWrite, DeleteSyncSource, Tick, Time
  <2> QED
    BY <2>1, <2>2, <2>3, <2>4, <2>5 DEF TypeOK
<1>5. ASSUME NEW r \in Touched, NEW k \in DOMAIN task[r],
             \/ Keep(r, k, "live", "trash") \/ Keep(r, k, "trash", "live")
             \/ Keep(r, k, "live", "purged") \/ Keep(r, k, "trash", "purged")
      PROVE  TypeOK'
  <2>1. r \in Record
    BY SyncAssumption
  <2>2. /\ task' \in [Record -> Seq({"live", "trash", "purged"})]
        /\ \A q \in Record : /\ Len(task'[q]) = Len(task[q])
                             /\ task'[q] = <<>> <=> task[q] = <<>>
    BY <1>5, <2>1, KeptAreTyped
  <2>3. UNCHANGED <<now, src, row, ref, run, edit, skipped, calm>>
    BY <1>5 DEF Keep
  <2> QED
    BY <2>2, <2>3 DEF TypeOK
<1>6. ASSUME NEW r \in Record, Change(r)
      PROVE  TypeOK'
  <2>1. src' \in [Record -> Time]
    BY <1>0, <1>6 DEF Change
  <2>2. run' \in [Runner -> Run] /\ calm' \in BOOLEAN
    BY <1>0, <1>6, FreshAreTyped DEF Change
  <2>3. UNCHANGED <<now, row, task, ref, edit, skipped>>
    BY <1>6 DEF Change
  <2> QED
    BY <2>1, <2>2, <2>3 DEF TypeOK
<1>7. CASE UNCHANGED vars
  BY <1>7 DEF vars, TypeOK
<1> QED
  BY <1>2, <1>3, <1>4, <1>5, <1>6, <1>7 DEF Next

\* The types hold throughout.
LEMMA SpecTypes == Spec => []TypeOK
BY InitTypes, StepTypes, PTL DEF Spec

\* Rows, references and calls always have their types, on both engines: in
\* particular a record's reference names one of its tasks, and is there as soon
\* as one is (PutExternalRef in the transaction that creates the task).
THEOREM ImportTypeCorrect == Spec => []TypeOK
BY SpecTypes

-----------------------------------------------------------------------------
(* What a run that can be relied on has read and brought in *)

Reading(g) == g.pc \in {"fetching", "applying", "writing", "finishing"}

\* A run can be relied on when nothing was passed over before it, or when it
\* reads everything itself and undisturbed.
Sound(w) == Reading(run[w]) /\ (calm \/ (run[w].full /\ run[w].alone))

Fresh(g) == g.pc = "fetching" /\ g.page = 0

\* The source as a run reads it: a file stays as it was loaded.
Snap(g) == IF Paged THEN src ELSE g.seen

\* What a cursor claims: all that is older is in, or was left out.
Covers(n) == \A r \in Record : src[r] # 0 /\ src[r] < n => Reflects(r, src[r])

\* Before its first page a run has only what came before it.
FreshOK(g) ==
  /\ Covers(g.since)
  /\ ~g.full => g.cursor = g.since
  /\ g.alone => \A r \in Record : g.began[r] <= src[r]

\* What has changed since a file was loaded is claimed by no cursor.
Moved(g, snap) ==
  \A r \in Record : src[r] # snap[r] =>
    /\ src[r] >= row.cursor /\ src[r] >= edit /\ src[r] >= g.cursor
    /\ \A q \in Record : src[r] >= g.seen[q]

\* The page under way is a page of the listing, as it was answered.
OnPage(g, snap, list) ==
  g.pc \in {"applying", "writing"} =>
    /\ g.batch = PageOf(list, g.page) /\ g.last = IsLast(list, g.page)
    /\ \A r \in ToSet(g.batch) : g.seen[r] = snap[r]

\* Every record of the page is planned for, and no other.
Planned(g) ==
  g.pc = "writing" =>
    \A r \in Record :
      /\ r \in ToSet(g.batch) <=> g.plan[r] # "none"
      /\ g.plan[r] \in {"same", "update"} => ref[r].copy # 0
      /\ g.plan[r] = "same" => ref[r].ver = g.seen[r]

\* A run accounts for a record that stands in tix, or that its result counts.
Accounted(g, r, at) == Stands(r, at) \/ g.skips[r] >= at

\* The pages behind are in, by the run's own account too, and so is what was
\* older than the first of them.
Brought(g, snap, list) ==
  /\ \A i \in 1..Len(list) : i <= g.page * PageSize => Reflects(list[i], snap[list[i]])
  /\ \A i \in 1..Len(list) : i <= g.page * PageSize => Accounted(g, list[i], snap[list[i]])
  /\ \A r \in Record : snap[r] # 0 /\ snap[r] < g.since => Reflects(r, snap[r])
  /\ g.pc = "finishing" => Len(list) <= g.page * PageSize

\* The pages ahead are no older than the cursor of a run that refreshes.
Ahead(g, snap, list) ==
  ~g.full => \A i \in 1..Len(list) : i > g.page * PageSize => g.cursor <= snap[list[i]]

ReadOK(g, snap, list) ==
  /\ Moved(g, snap) /\ OnPage(g, snap, list) /\ Planned(g)
  /\ Brought(g, snap, list) /\ Ahead(g, snap, list)
  /\ g.alone => \A r \in Record : g.began[r] <= snap[r]

RunOK(g) ==
  IF Fresh(g) THEN FreshOK(g) ELSE ReadOK(g, Snap(g), Listing(Snap(g), g.since))

\* No time is ahead of the source's clock.
Bounded ==
  /\ row.cursor <= now /\ edit <= now
  /\ \A r \in Record : src[r] <= now
  /\ \A w \in Runner : /\ run[w].cursor <= now /\ run[w].since <= now
                        /\ \A r \in Record : run[w].seen[r] <= now

\* Runs overlap only when they are known to have disturbed each other.
OneActive ==
  \A v, w \in Runner : (calm \/ run[w].alone) /\ Active(w) /\ Active(v) => v = w

\* Every cursor that may be stored next covers what it claims.
Cursors == {row.cursor, edit} \cup {run[w].cursor : w \in {v \in Runner : Active(v)}}

CalmCovers == calm => \A n \in Cursors : Covers(n)

\* An undisturbed run and the stored row agree.
Abreast ==
  \A w \in Runner : calm /\ run[w].alone /\ Active(w) => run[w].cursor = row.cursor

SoundRuns == \A w \in Runner : Sound(w) => \E g \in {run[w]} : RunOK(g)

CursorInv == TypeOK /\ Bounded /\ OneActive /\ CalmCovers /\ Abreast /\ SoundRuns

\* A call that somebody disturbs goes on as it was, and counts as disturbed.
Alike(g, h) ==
  /\ h.pc = g.pc /\ h.full = g.full /\ h.since = g.since /\ h.cursor = g.cursor
  /\ h.page = g.page /\ h.last = g.last /\ h.seen = g.seen /\ h.batch = g.batch
  /\ h.plan = g.plan /\ h.skips = g.skips
  /\ h.alone => g.alone /\ h.began = g.began

\* A disturbed run reads and writes as before; only its claim to be alone goes.
LEMMA DisturbedAreAlike ==
  ASSUME TypeOK, NEW v \in Runner
  PROVE  Alike(run[v], Disturbed[v]) /\ ~Disturbed[v].alone /\ Alike(run[v], run[v])
<1>1. run[v] \in Run
  BY DEF TypeOK
<1>2. Disturbed[v] = [run[v] EXCEPT !.alone = FALSE, !.began = Idle.began]
  BY DEF Disturbed
<1> QED
  BY <1>1, <1>2 DEF Alike, Run

\* A run that is known to be undisturbed is the only one.
LEMMA OnlyOne ==
  ASSUME OneActive, NEW v \in Runner, NEW w \in Runner, Active(v), Active(w),
         calm \/ run[v].alone \/ run[w].alone
  PROVE  v = w
BY DEF OneActive

\* The call that begins.
Begun(g, full, alone, began, since) ==
  /\ g.pc = "fetching" /\ g.page = 0 /\ g.full = full /\ g.alone = alone
  /\ g.began = began /\ g.since = since /\ g.cursor = row.cursor
  /\ g.seen = [r \in Record |-> 0]

\* What the start of a run sets, and that the others are at most disturbed.
LEMMA BeginBegins ==
  ASSUME TypeOK, NEW w \in Runner, NEW full \in BOOLEAN, Begin(w, full)
  PROVE  /\ Begun(run'[w], full, Alone(w), IF Alone(w) THEN src ELSE Idle.began,
                  IF full THEN 0 ELSE row.cursor)
         /\ \A v \in Runner \ {w} : run'[v] = Disturbed[v]
<1>1. \A alone, began, since :
        LET g == [Idle EXCEPT !.pc = "fetching", !.full = full, !.alone = alone,
                              !.began = began, !.since = since, !.cursor = row.cursor]
        IN Begun(g, full, alone, began, since)
  BY DEF Idle, Begun
<1> DEFINE g == [Idle EXCEPT !.pc = "fetching", !.full = full, !.alone = Alone(w),
                             !.began = IF Alone(w) THEN src ELSE Idle.began,
                             !.since = IF full THEN 0 ELSE row.cursor,
                             !.cursor = row.cursor]
<1>2. Begun(g, full, Alone(w), IF Alone(w) THEN src ELSE Idle.began,
            IF full THEN 0 ELSE row.cursor)
  BY <1>1
<1>3. run' = [Disturbed EXCEPT ![w] = g]
  BY DEF Begin
<1> HIDE DEF g
<1>4. Disturbed \in [Runner -> Run]
  BY FreshAreTyped
<1> QED
  BY <1>2, <1>3, <1>4

\* The source as the page under way is taken from.
Read(w) == IF Paged \/ run[w].page = 0 THEN src ELSE run[w].seen

\* What reading a page sets.
LEMMA FetchFetches ==
  ASSUME TypeOK, NEW w \in Runner, Fetch(w)
  PROVE  LET g == run[w]
             h == run'[w]
             list == Listing(Read(w), g.since)
         IN  /\ g.pc = "fetching" /\ h.pc = "applying"
             /\ h.full = g.full /\ h.alone = g.alone /\ h.began = g.began
             /\ h.since = g.since /\ h.cursor = g.cursor /\ h.page = g.page
             /\ h.batch = PageOf(list, g.page) /\ h.last = IsLast(list, g.page)
             /\ h.seen = IF Paged THEN Answered(src, h.batch) ELSE Read(w)
             /\ h.skips = g.skips
             /\ \A v \in Runner \ {w} : run'[v] = run[v]
             /\ UNCHANGED <<now, src, row, ref, edit, skipped, calm>>
<1>1. run[w] \in Run /\ run \in [Runner -> Run]
  BY DEF TypeOK
<1> DEFINE batch == PageOf(Listing(Read(w), run[w].since), run[w].page)
           seen == IF Paged THEN Answered(src, batch) ELSE Read(w)
           last == IsLast(Listing(Read(w), run[w].since), run[w].page)
           h == [run[w] EXCEPT !.pc = "applying", !.batch = batch, !.seen = seen, !.last = last]
<1>2. run' = [run EXCEPT ![w] = h]
  BY DEF Fetch, Read
<1>3. run[w].pc = "fetching" /\ UNCHANGED <<now, src, row, ref, edit, skipped, calm>>
  BY DEF Fetch
<1> HIDE DEF batch, last, seen
<1>4. /\ h.pc = "applying" /\ h.full = run[w].full /\ h.alone = run[w].alone
      /\ h.began = run[w].began /\ h.since = run[w].since /\ h.cursor = run[w].cursor
      /\ h.page = run[w].page /\ h.batch = batch /\ h.last = last /\ h.seen = seen
      /\ h.skips = run[w].skips
  BY <1>1 DEF Run
<1> HIDE DEF h
<1>5. run'[w] = h /\ \A v \in Runner \ {w} : run'[v] = run[v]
  BY <1>1, <1>2
<1> QED
  BY <1>3, <1>4, <1>5 DEF batch, last, seen

\* What planning a page sets.
LEMMA DecideDecides ==
  ASSUME TypeOK, NEW w \in Runner, NEW bad \in SUBSET Paging(w), Decide(w, bad)
  PROVE  LET g == run[w]
             h == run'[w]
         IN  /\ g.pc = "applying" /\ h.pc = "writing"
             /\ h.full = g.full /\ h.alone = g.alone /\ h.began = g.began
             /\ h.since = g.since /\ h.cursor = g.cursor /\ h.page = g.page
             /\ h.batch = g.batch /\ h.last = g.last /\ h.seen = g.seen
             /\ h.skips = g.skips
             /\ \A r \in Record :
                  h.plan[r] = IF r \in bad THEN "skip"
                              ELSE IF r \in Paging(w) THEN Decision(r, g.seen[r]) ELSE "none"
             /\ \A v \in Runner \ {w} : run'[v] = run[v]
             /\ UNCHANGED <<now, src, row, ref, edit, skipped, calm>>
<1>1. run[w] \in Run /\ run \in [Runner -> Run]
  BY DEF TypeOK
<1> DEFINE plan == [r \in Record |->
                      IF r \in bad THEN "skip"
                      ELSE IF r \in Paging(w) THEN Decision(r, run[w].seen[r]) ELSE "none"]
           h == [run[w] EXCEPT !.pc = "writing", !.plan = plan]
<1>2. run' = [run EXCEPT ![w] = h] /\ run[w].pc = "applying"
      /\ UNCHANGED <<now, src, row, ref, edit, skipped, calm>>
  BY DEF Decide
<1>3. \A r \in Record :
        plan[r] = IF r \in bad THEN "skip"
                  ELSE IF r \in Paging(w) THEN Decision(r, run[w].seen[r]) ELSE "none"
  OBVIOUS
<1> HIDE DEF plan
<1>4. /\ h.pc = "writing" /\ h.full = run[w].full /\ h.alone = run[w].alone
      /\ h.began = run[w].began /\ h.since = run[w].since /\ h.cursor = run[w].cursor
      /\ h.page = run[w].page /\ h.batch = run[w].batch /\ h.last = run[w].last
      /\ h.seen = run[w].seen /\ h.plan = plan /\ h.skips = run[w].skips
  BY <1>1 DEF Run
<1> HIDE DEF h
<1>5. run'[w] = h /\ \A v \in Runner \ {w} : run'[v] = run[v]
  BY <1>1, <1>2
<1> QED
  BY <1>2, <1>3, <1>4, <1>5

\* Reading a page and planning it move no cursor.
LEMMA ReadsMoveNoCursor ==
  ASSUME TypeOK, NEW w \in Runner,
         Fetch(w) \/ (\E bad \in SUBSET Paging(w) : Decide(w, bad))
  PROVE  /\ UNCHANGED <<src, row, edit, ref, skipped, calm>> /\ Active(w) /\ Active(w)'
         /\ \A v \in Runner \ {w} : run'[v] = run[v]
         /\ \A v \in Runner : /\ run'[v].cursor = run[v].cursor
                               /\ run'[v].alone = run[v].alone
                               /\ Active(v)' <=> Active(v)
<1>1. /\ UNCHANGED <<src, row, edit, ref, skipped, calm>>
      /\ \A v \in Runner \ {w} : run'[v] = run[v]
      /\ run'[w].cursor = run[w].cursor /\ run'[w].alone = run[w].alone
      /\ run[w].pc \in {"fetching", "applying"} /\ run'[w].pc \in {"applying", "writing"}
  <2>1. CASE Fetch(w)
    BY <2>1, FetchFetches
  <2>2. ASSUME NEW bad \in SUBSET Paging(w), Decide(w, bad)
        PROVE  /\ UNCHANGED <<src, row, edit, ref, skipped, calm>>
               /\ \A v \in Runner \ {w} : run'[v] = run[v]
               /\ run'[w].cursor = run[w].cursor /\ run'[w].alone = run[w].alone
               /\ run[w].pc = "applying" /\ run'[w].pc = "writing"
    BY <2>2, DecideDecides
  <2> QED
    BY <2>1, <2>2
<1>2. Active(w) /\ Active(w)'
  BY <1>1 DEF Active
<1>3. ASSUME NEW v \in Runner
      PROVE  /\ run'[v].cursor = run[v].cursor /\ run'[v].alone = run[v].alone
             /\ Active(v)' <=> Active(v)
  <2>1. CASE v = w
    BY <1>1, <1>2, <2>1
  <2>2. CASE v # w
    BY <1>1, <2>2 DEF Active
  <2> QED
    BY <2>1, <2>2
<1> QED
  BY <1>1, <1>2, <1>3

\* What writing a page sets.
LEMMA WriteWrites ==
  ASSUME TypeOK, NEW w \in Runner, Write(w)
  PROVE  LET g == run[w]
             h == run'[w]
         IN  /\ g.pc = "writing" /\ h.pc = (IF g.last THEN "finishing" ELSE "fetching")
             /\ h.full = g.full /\ h.alone = g.alone /\ h.began = g.began
             /\ h.since = g.since /\ h.cursor = Covered(w) /\ h.page = g.page + 1
             /\ h.seen = IF Paged THEN [r \in Record |-> 0] ELSE g.seen
             /\ h.skips = Noted(w)
             /\ row' = [there |-> TRUE, cursor |-> Covered(w)]
             /\ \A v \in Runner \ {w} : run'[v] = run[v]
             /\ UNCHANGED <<now, src, edit, calm>>
<1>1. run[w] \in Run /\ run \in [Runner -> Run]
  BY DEF TypeOK
<1> DEFINE pc == IF run[w].last THEN "finishing" ELSE "fetching"
           seen == IF Paged THEN Idle.seen ELSE run[w].seen
           h == [run[w] EXCEPT !.pc = pc, !.page = @ + 1, !.cursor = Covered(w),
                               !.plan = Idle.plan, !.batch = <<>>, !.seen = seen,
                               !.skips = Noted(w)]
<1>2. run' = [run EXCEPT ![w] = h]
  BY DEF Write
<1>3. Idle.seen = [r \in Record |-> 0]
  BY DEF Idle
<1>4. /\ run[w].pc = "writing" /\ row' = [there |-> TRUE, cursor |-> Covered(w)]
      /\ UNCHANGED <<now, src, edit, calm>>
  BY DEF Write, Stored
<1> HIDE DEF pc, seen
<1>5. /\ h.pc = pc /\ h.full = run[w].full /\ h.alone = run[w].alone
      /\ h.began = run[w].began /\ h.since = run[w].since /\ h.cursor = Covered(w)
      /\ h.page = run[w].page + 1 /\ h.seen = seen /\ h.skips = Noted(w)
  BY <1>1 DEF Run
<1> HIDE DEF h
<1>6. run'[w] = h /\ \A v \in Runner \ {w} : run'[v] = run[v]
  BY <1>1, <1>2
<1> QED
  BY <1>3, <1>4, <1>5, <1>6 DEF pc, seen

\* The steps after which a run reads no more.
Ends(w) == FetchFails(w) \/ WriteFails(w) \/ CommitFails(w) \/ Finish(w) \/ Fail(w) \/ Die(w)

\* What the end of a run, in success or not, sets.
LEMMA EndsEnd ==
  ASSUME TypeOK, NEW w \in Runner, Ends(w)
  PROVE  LET g == run[w]
             h == run'[w]
         IN  /\ Active(w) /\ h.pc \in {"failing", "idle"}
             /\ h.seen = [r \in Record |-> 0] /\ h.since = 0
             /\ h.pc = "failing" => /\ h.alone = g.alone /\ ~Finish(w)
                                    /\ \/ h.cursor = g.cursor
                                       \/ h.cursor = Covered(w) /\ ~calm'
             /\ h.pc = "idle" => h.cursor = 0
             /\ row' = row \/ row' = [there |-> TRUE, cursor |-> g.cursor]
             /\ calm' => calm \/ Finish(w)
             /\ \A v \in Runner \ {w} : run'[v] = run[v]
             /\ UNCHANGED <<now, src, ref, edit, skipped>>
<1>1. run \in [Runner -> Run]
  BY DEF TypeOK
<1>2. /\ Idle.pc = "idle" /\ Idle.seen = [r \in Record |-> 0] /\ Idle.since = 0 /\ Idle.cursor = 0
      /\ \A cursor : LET h == Broken(w, cursor)
                     IN  /\ h.pc = "failing" /\ h.seen = [r \in Record |-> 0] /\ h.since = 0
                         /\ h.alone = run[w].alone /\ h.cursor = cursor
  BY DEF Idle, Broken
<1>3. UNCHANGED <<now, src, ref, edit, skipped>> /\ Active(w)
  BY DEF Ends, FetchFails, WriteFails, CommitFails, Finish, Fail, Die, Active
<1>4. CASE FetchFails(w) \/ WriteFails(w)
  <2>1. run' = [run EXCEPT ![w] = Broken(w, run[w].cursor)] /\ row' = row /\ calm' = calm
        /\ run[w].pc # "finishing"
    BY <1>4 DEF FetchFails, WriteFails
  <2> QED BY <1>1, <1>2, <1>3, <2>1 DEF Finish
<1>5. CASE CommitFails(w)
  <2>1. run' = [run EXCEPT ![w] = Broken(w, Covered(w))] /\ row' = row /\ ~calm'
        /\ run[w].pc # "finishing"
    BY <1>5 DEF CommitFails
  <2> QED BY <1>1, <1>2, <1>3, <2>1 DEF Finish
<1>6. CASE Finish(w) \/ Fail(w) \/ Die(w)
  <2>1. /\ run' = [run EXCEPT ![w] = Idle]
        /\ row' = row \/ row' = [there |-> TRUE, cursor |-> run[w].cursor]
        /\ calm' => calm \/ Finish(w)
    BY <1>6 DEF Finish, Fail, Die, Stored
  <2> QED BY <1>1, <1>2, <1>3, <2>1
<1> QED
  BY <1>4, <1>5, <1>6 DEF Ends

\* What the others do, the source apart.
Elsewhere ==
  \/ EditRead \/ EditWrite \/ DeleteSyncSource \/ Tick
  \/ \E r \in Touched : \E k \in DOMAIN task[r] :
       \/ Keep(r, k, "live", "trash") \/ Keep(r, k, "trash", "live")
       \/ Keep(r, k, "live", "purged") \/ Keep(r, k, "trash", "purged")
  \/ UNCHANGED vars

\* What the operator, the users and the clock can change.
LEMMA OthersMove ==
  ASSUME TypeOK, Elsewhere
  PROVE  /\ UNCHANGED <<src, ref, skipped, calm>> /\ now' >= now
         /\ \/ row'.cursor = row.cursor
            \/ /\ row'.cursor = 0 \/ (edit # -1 /\ row'.cursor = edit)
               /\ \A v \in Runner : ~run'[v].alone
         /\ edit' = edit \/ edit' = -1 \/ edit' = row.cursor
         /\ \A v \in Runner : Alike(run[v], run'[v])
<1>0. now \in Nat
  BY SyncAssumption DEF TypeOK, Time
<1>1. CASE EditRead \/ Tick \/ UNCHANGED vars
  BY <1>0, <1>1, DisturbedAreAlike DEF EditRead, Tick, vars
<1>2. CASE EditWrite \/ DeleteSyncSource
  BY <1>0, <1>2, DisturbedAreAlike DEF EditWrite, DeleteSyncSource, Stored
<1>3. ASSUME NEW r, NEW k, NEW from, NEW to, Keep(r, k, from, to)
      PROVE  UNCHANGED <<now, src, row, ref, run, edit, skipped, calm>>
  BY <1>3 DEF Keep
<1> QED
  BY <1>0, <1>1, <1>2, <1>3, DisturbedAreAlike DEF Elsewhere

\* What a change of the source changes.
LEMMA ChangeChanges ==
  ASSUME TypeOK, NEW r \in Record, Change(r)
  PROVE  /\ src' = [src EXCEPT ![r] = now]
         /\ UNCHANGED <<now, row, ref, edit, skipped>>
         /\ \A v \in Runner : Alike(run[v], run'[v])
         /\ Paged => /\ calm' => calm /\ \A v \in Runner : ~Active(v)
                     /\ \A v \in Runner : ~run'[v].alone
         /\ ~Paged => run' = run /\ calm' = calm
BY DisturbedAreAlike DEF Change

\* The steps, as the lemmas above take them.
LEMMA StepCases ==
  ASSUME [Next]_vars
  PROVE  \/ \E w \in Runner : \/ \E full \in BOOLEAN : Begin(w, full)
                              \/ Fetch(w)
                              \/ \E bad \in SUBSET Paging(w) : Decide(w, bad)
                              \/ Write(w)
                              \/ Ends(w)
         \/ Elsewhere
         \/ \E r \in Record : Change(r)
BY DEF Next, RunStep, Ends, Elsewhere

\* No step puts a time ahead of the clock.
LEMMA StepBounded ==
  ASSUME TypeOK, Bounded, [Next]_vars
  PROVE  Bounded'
<1>0. /\ now \in Nat /\ row.cursor \in Nat /\ edit \in Int
      /\ src \in [Record -> Time] /\ Time \subseteq Nat
      /\ \A r \in Record : src[r] \in Nat
      /\ \A w \in Runner : /\ run[w].cursor \in Nat /\ run[w].since \in Nat
                           /\ run[w].seen \in [Record -> Time]
  BY SyncAssumption DEF TypeOK, Run, Time
<1>1. \A w \in Runner : Covered(w) <= now
  <2> SUFFICES ASSUME NEW w \in Runner
               PROVE  Covered(w) <= now
    OBVIOUS
  <2>1. run[w].batch \in Seq(Record)
    BY DEF TypeOK, Run
  <2>2. run[w].batch # <<>> => Last(run[w].batch) \in Record
    BY <2>1 DEF Last
  <2> QED
    BY <2>2 DEF Covered, Bounded
<1>2. ASSUME NEW w \in Runner, NEW full \in BOOLEAN, Begin(w, full)
      PROVE  Bounded'
  <2>1. /\ run'[w].cursor = row.cursor /\ run'[w].since \in {0, row.cursor}
        /\ \A r \in Record : run'[w].seen[r] = 0
    BY <1>2, BeginBegins DEF Begun
  <2>2. \A v \in Runner \ {w} : Alike(run[v], run'[v])
    BY <1>2, BeginBegins, DisturbedAreAlike
  <2>3. UNCHANGED <<now, row, edit, src>>
    BY <1>2 DEF Begin
  <2> QED
    BY <1>0, <2>1, <2>2, <2>3 DEF Bounded, Alike
<1>3. ASSUME NEW w \in Runner, Fetch(w)
      PROVE  Bounded'
  <2>1. /\ run'[w].cursor = run[w].cursor /\ run'[w].since = run[w].since
        /\ UNCHANGED <<now, row, edit, src>> /\ \A v \in Runner \ {w} : run'[v] = run[v]
    BY <1>3, FetchFetches
  <2>2. \A r \in Record : run'[w].seen[r] \in {0, src[r], run[w].seen[r]}
    <3>1. run'[w].seen = IF Paged THEN Answered(src, run'[w].batch) ELSE Read(w)
      BY <1>3, FetchFetches
    <3>2. \A batch : \A r \in Record : Answered(src, batch)[r] \in {0, src[r]}
      BY DEF Answered
    <3>3. \A r \in Record : Read(w)[r] \in {0, src[r], run[w].seen[r]}
      BY DEF Read
    <3> QED
      BY <3>1, <3>2, <3>3
  <2>3. \A r \in Record : run'[w].seen[r] <= now
    BY <1>0, <2>2 DEF Bounded
  <2> QED
    BY <2>1, <2>3 DEF Bounded
<1>4. ASSUME NEW w \in Runner, NEW bad \in SUBSET Paging(w), Decide(w, bad)
      PROVE  Bounded'
  BY <1>4, DecideDecides DEF Bounded
<1>5. ASSUME NEW w \in Runner, Write(w)
      PROVE  Bounded'
  <2>1. /\ run'[w].cursor = Covered(w) /\ run'[w].since = run[w].since
        /\ row'.cursor = Covered(w)
        /\ UNCHANGED <<now, edit, src>> /\ \A v \in Runner \ {w} : run'[v] = run[v]
    BY <1>5, WriteWrites
  <2>2. \A r \in Record : run'[w].seen[r] \in {0, run[w].seen[r]}
    BY <1>5, WriteWrites
  <2>3. \A r \in Record : run'[w].seen[r] <= now
    BY <1>0, <2>2 DEF Bounded
  <2> QED
    BY <1>1, <2>1, <2>3 DEF Bounded
<1>6. ASSUME NEW w \in Runner, Ends(w)
      PROVE  Bounded'
  <2>1. /\ run'[w].cursor \in {0, run[w].cursor, Covered(w)} /\ run'[w].since = 0
        /\ \A r \in Record : run'[w].seen[r] = 0
        /\ row'.cursor \in {row.cursor, run[w].cursor}
        /\ UNCHANGED <<now, edit, src>> /\ \A v \in Runner \ {w} : run'[v] = run[v]
    BY <1>6, EndsEnd
  <2>2. run'[w].cursor <= now /\ row'.cursor <= now /\ 0 <= now
    BY <1>0, <1>1, <2>1 DEF Bounded
  <2> QED
    BY <2>1, <2>2 DEF Bounded
<1>7. CASE Elsewhere
  <2>1. /\ now' \in Nat /\ now' >= now /\ src' = src
        /\ row'.cursor \in {row.cursor, 0, edit} /\ edit' \in {edit, -1, row.cursor}
        /\ \A v \in Runner : Alike(run[v], run'[v])
    BY <1>7, OthersMove, StepTypes, SyncAssumption DEF TypeOK, Time
  <2>2. /\ row'.cursor <= now' /\ edit' <= now'
        /\ \A r \in Record : src'[r] <= now'
    <3>1. \A x \in Int : x <= now => x <= now'
      <4>1. now' \in Nat /\ now' >= now
        BY <2>1
      <4> QED BY <1>0, <4>1
    <3>2. \A r \in Record : src[r] \in Int /\ src[r] <= now
      BY <1>0 DEF Bounded
    <3>3. row.cursor <= now /\ edit <= now /\ 0 <= now /\ -1 <= now
      BY <1>0 DEF Bounded
    <3> QED BY <1>0, <2>1, <3>1, <3>2, <3>3
  <2>3. ASSUME NEW w \in Runner
        PROVE  /\ run'[w].cursor <= now' /\ run'[w].since <= now'
               /\ \A r \in Record : run'[w].seen[r] <= now'
    <3>1. run'[w].cursor = run[w].cursor /\ run'[w].since = run[w].since /\ run'[w].seen = run[w].seen
      BY <2>1 DEF Alike
    <3>2. run[w].cursor <= now' /\ run[w].since <= now'
      BY <1>0, <2>1 DEF Bounded
    <3>3. ASSUME NEW r \in Record
          PROVE  run[w].seen[r] <= now'
      <4>1. run[w].seen[r] \in Nat /\ run[w].seen[r] <= now
        BY <1>0 DEF Bounded
      <4> QED BY <1>0, <2>1, <4>1
    <3> QED BY <3>1, <3>2, <3>3
  <2> QED
    BY <2>2, <2>3 DEF Bounded
<1>8. ASSUME NEW r \in Record, Change(r)
      PROVE  Bounded'
  <2>1. /\ \A q \in Record : src'[q] \in {now, src[q]}
        /\ UNCHANGED <<now, row, edit>>
        /\ \A v \in Runner : Alike(run[v], run'[v])
    BY <1>0, <1>8, ChangeChanges
  <2> QED
    BY <1>0, <2>1 DEF Bounded, Alike
<1> QED
  BY <1>2, <1>3, <1>4, <1>5, <1>6, <1>7, <1>8, StepCases

\* A run that overlaps another is not taken to be alone.
LEMMA StepOneActive ==
  ASSUME TypeOK, OneActive, [Next]_vars
  PROVE  OneActive'
<1>1. ASSUME NEW w \in Runner, NEW full \in BOOLEAN, Begin(w, full)
      PROVE  OneActive'
  <2>1. /\ \A v \in Runner \ {w} : ~run'[v].alone /\ run'[v].pc = run[v].pc
        /\ run'[w].alone = Alone(w)
    BY <1>1, BeginBegins, DisturbedAreAlike DEF Begun, Alike
  <2>2. calm' => Alone(w)
    BY <1>1 DEF Begin
  <2> QED
    BY <2>1, <2>2 DEF OneActive, Alone, Active
<1>2. ASSUME NEW w \in Runner, Fetch(w) \/ (\E bad \in SUBSET Paging(w) : Decide(w, bad)) \/ Write(w)
      PROVE  OneActive'
  <2>1. /\ run'[w].alone = run[w].alone /\ Active(w)
        /\ \A v \in Runner \ {w} : run'[v] = run[v]
        /\ calm' = calm
    BY <1>2, FetchFetches, DecideDecides, WriteWrites DEF Active
  <2> QED
    BY <2>1 DEF OneActive, Active
<1>3. ASSUME NEW w \in Runner, Ends(w)
      PROVE  OneActive'
  <2>1. /\ \A v \in Runner \ {w} : run'[v] = run[v]
        /\ Active(w) /\ (run'[w].pc = "failing" => run'[w].alone = run[w].alone)
        /\ run'[w].pc \in {"failing", "idle"}
        /\ calm' => calm \/ Finish(w)
    BY <1>3, EndsEnd
  <2>2. Finish(w) /\ calm' => calm \/ run[w].alone
    BY DEF Finish
  <2>3. Finish(w) => run'[w].pc = "idle"
    BY <1>3, EndsEnd
  <2> QED
    BY <2>1, <2>2, <2>3 DEF OneActive, Active
<1>4. ASSUME Elsewhere \/ \E r \in Record : Change(r)
      PROVE  OneActive'
  <2>1. (calm' => calm) /\ \A v \in Runner : Alike(run[v], run'[v])
    BY <1>4, OthersMove, ChangeChanges
  <2> QED
    BY <2>1 DEF OneActive, Active, Alike
<1> QED
  BY <1>1, <1>2, <1>3, <1>4, StepCases

\* An undisturbed run's cursor stays the stored one.
LEMMA StepAbreast ==
  ASSUME TypeOK, OneActive, Abreast, [Next]_vars
  PROVE  Abreast'
<1> SUFFICES ASSUME NEW v \in Runner, calm', run'[v].alone, Active(v)'
             PROVE  run'[v].cursor = row'.cursor
  BY DEF Abreast
<1>1. ASSUME NEW w \in Runner, NEW full \in BOOLEAN, Begin(w, full)
      PROVE  run'[v].cursor = row'.cursor
  <2>1. v = w
    BY <1>1, BeginBegins, DisturbedAreAlike
  <2>2. run'[v].cursor = row.cursor /\ row' = row
    BY <1>1, <2>1, BeginBegins DEF Begun, Begin
  <2> QED BY <2>2
<1>2. ASSUME NEW w \in Runner, Fetch(w) \/ (\E bad \in SUBSET Paging(w) : Decide(w, bad))
      PROVE  run'[v].cursor = row'.cursor
  <2>1. /\ run'[v].cursor = run[v].cursor /\ row' = row /\ calm' = calm
        /\ run'[v].alone = run[v].alone /\ (Active(v)' => Active(v))
    BY <1>2, ReadsMoveNoCursor
  <2>2. Active(v)
    BY <2>1
  <2> QED BY <2>1, <2>2 DEF Abreast
<1>3. ASSUME NEW w \in Runner, Write(w)
      PROVE  run'[v].cursor = row'.cursor
  <2>1. Active(w) /\ calm
    BY <1>3, WriteWrites DEF Active
  <2>2. v = w
    <3> SUFFICES ASSUME v # w PROVE FALSE  OBVIOUS
    <3>1. Active(v)  BY <1>3, WriteWrites DEF Active
    <3> QED BY <2>1, <3>1, OnlyOne
  <2>3. run'[w].cursor = Covered(w)
    BY <1>3, WriteWrites
  <2>4. row' = [there |-> TRUE, cursor |-> Covered(w)]
    BY <1>3 DEF Write, Stored
  <2> QED BY <2>2, <2>3, <2>4
<1>4. ASSUME NEW w \in Runner, Ends(w)
      PROVE  run'[v].cursor = row'.cursor
  <2>1. Active(w)
    BY <1>4, EndsEnd
  <2>2. v = w
    <3> SUFFICES ASSUME v # w PROVE FALSE  OBVIOUS
    <3>1. Active(v) /\ run[v].alone  BY <1>4, EndsEnd DEF Active
    <3> QED BY <2>1, <3>1, OnlyOne
  <2>3. /\ run'[v].pc = "failing" /\ run'[v].alone = run[v].alone /\ ~Finish(w)
        /\ run'[v].cursor = run[v].cursor /\ calm
        /\ row' = row \/ row' = [there |-> TRUE, cursor |-> run[v].cursor]
    BY <1>4, <2>2, EndsEnd DEF Active
  <2>4. row.cursor = run[v].cursor
    BY <2>1, <2>2, <2>3 DEF Abreast
  <2> QED BY <2>3, <2>4
<1>5. CASE Elsewhere
  <2>1. Alike(run[v], run'[v]) /\ calm' = calm /\ row'.cursor = row.cursor
    BY <1>5, OthersMove
  <2> QED BY <2>1 DEF Abreast, Alike, Active
<1>6. ASSUME NEW r \in Record, Change(r)
      PROVE  run'[v].cursor = row'.cursor
  <2>1. run' = run /\ calm' = calm /\ row' = row
    BY <1>6, ChangeChanges
  <2> QED BY <2>1 DEF Abreast, Active
<1> QED
  BY <1>1, <1>2, <1>3, <1>4, <1>5, <1>6, StepCases

-----------------------------------------------------------------------------
(* What a page brings in *)

\* When all that is listed before a time is in, with all that was older than
\* the listing, then everything before that time is in.
LEMMA NothingLeft ==
  ASSUME NEW snap \in [Record -> Time], NEW since \in Time, NEW K, NEW m \in Nat, NEW n \in Int,
         \A r \in Record : snap[r] # 0 /\ snap[r] < since => r \in K,
         \A i \in 1..Len(Listing(snap, since)) : i <= m => Listing(snap, since)[i] \in K,
         \A i \in 1..Len(Listing(snap, since)) : snap[Listing(snap, since)[i]] < n => i <= m
  PROVE  \A r \in Record : snap[r] # 0 /\ snap[r] < n => r \in K
<1> SUFFICES ASSUME NEW r \in Record, snap[r] # 0, snap[r] < n
             PROVE  r \in K
  OBVIOUS
<1>1. CASE snap[r] < since
  BY <1>1
<1>2. CASE ~(snap[r] < since)
  <2>1. snap[r] \in Int /\ since \in Int
    BY SyncAssumption DEF Time
  <2>2. r \in Eligible(snap, since)
    BY <1>2, <2>1 DEF Eligible
  <2>3. PICK i \in 1..Len(Listing(snap, since)) : Listing(snap, since)[i] = r
    BY <2>2, ListingSorts
  <2> QED
    BY <2>3
<1> QED
  BY <1>1, <1>2

\* The cursor that covers a page is the update of its last record: the records
\* listed after it are no older.  An empty page leaves the cursor and ends the
\* listing.
LEMMA CoveredIsLast ==
  ASSUME TypeOK, NEW w \in Runner, run[w].pc = "writing",
         NEW snap \in [Record -> Time], NEW since \in Time, NEW list,
         list = Listing(snap, since), OnPage(run[w], snap, list)
  PROVE  \/ Covered(w) = run[w].cursor /\ Len(list) <= run[w].page * PageSize
         \/ \E j \in 1..Len(list), q \in Record :
              /\ run[w].page * PageSize < j /\ j <= (run[w].page + 1) * PageSize
              /\ Covered(w) = snap[list[j]] /\ Covered(w) = run[w].seen[q]
              /\ \A i \in 1..Len(list) : j <= i => snap[list[j]] <= snap[list[i]]
<1>0. run[w].page \in Nat
  BY DEF TypeOK, Run
<1>1. list \in Seq(Eligible(snap, since)) /\ Eligible(snap, since) \subseteq Record
  <2>1. Eligible(snap, since) \subseteq Record
    BY DEF Eligible
  <2> QED BY <2>1, ListingSorts
<1>2. list \in Seq(Record)
  BY <1>1
<1> DEFINE batch == PageOf(list, run[w].page)
           lo == run[w].page * PageSize
           hi == (run[w].page + 1) * PageSize
<1>3. /\ lo \in Nat /\ hi \in Nat /\ lo < hi
      /\ batch \in Seq(Record)
      /\ \A k \in 1..Len(batch) :
           lo + k \in 1..Len(list) /\ lo + k <= hi /\ batch[k] = list[lo + k]
      /\ \A i \in 1..Len(list) : lo < i /\ i <= hi => i - lo \in 1..Len(batch)
  <2>1. PICK page \in Nat : page = run[w].page
    BY <1>0
  <2>2. /\ page * PageSize \in Nat /\ (page + 1) * PageSize \in Nat
        /\ page * PageSize < (page + 1) * PageSize
        /\ PageOf(list, page) \in Seq(Record)
        /\ \A k \in 1..Len(PageOf(list, page)) :
             /\ page * PageSize + k \in 1..Len(list)
             /\ page * PageSize + k <= (page + 1) * PageSize
             /\ PageOf(list, page)[k] = list[page * PageSize + k]
        /\ \A i \in 1..Len(list) :
             page * PageSize < i /\ i <= (page + 1) * PageSize
               => i - page * PageSize \in 1..Len(PageOf(list, page))
    BY <1>2, PageIsAStretch
  <2> QED BY <2>1, <2>2
<1>4. run[w].batch = batch /\ \A r \in ToSet(batch) : run[w].seen[r] = snap[r]
  BY DEF OnPage
<1>5. \A i, j \in 1..Len(list) : j <= i => snap[list[j]] <= snap[list[i]]
  <2> SUFFICES ASSUME NEW i \in 1..Len(list), NEW j \in 1..Len(list), j <= i
               PROVE  snap[list[j]] <= snap[list[i]]
    OBVIOUS
  <2>1. list[i] \in Record /\ list[j] \in Record
    BY <1>2
  <2>2. snap[list[i]] \in Int /\ snap[list[j]] \in Int
    BY <2>1, SyncAssumption DEF Time
  <2>3. CASE j = i
    BY <2>2, <2>3
  <2>4. CASE j < i
    <3>1. Earlier(snap, list[j], list[i])
      BY <2>4, ListingSorts
    <3> QED
      BY <2>2, <3>1 DEF Earlier
  <2> QED
    BY <2>3, <2>4
<1> HIDE DEF lo, hi, batch
<1>6. CASE batch = <<>>
  <2>1. Covered(w) = run[w].cursor
    BY <1>4, <1>6 DEF Covered
  <2>2. Len(batch) = 0 /\ Len(list) \in Nat
    BY <1>2, <1>6
  <2>3. Len(list) <= lo
    <3> SUFFICES ASSUME Len(list) > lo
                 PROVE  FALSE
      BY <1>3, <2>2
    <3>1. lo + 1 \in 1..Len(list) /\ lo < lo + 1 /\ lo + 1 <= hi
      BY <1>3, <2>2
    <3>2. (lo + 1) - lo \in 1..Len(batch)
      BY <1>3, <3>1
    <3> QED
      BY <1>3, <2>2, <3>2
  <2> QED
    BY <2>1, <2>3 DEF lo
<1>7. CASE batch # <<>>
  <2> DEFINE k == Len(batch)
             j == lo + k
             q == batch[k]
  <2>1. k \in 1..Len(batch) /\ k >= 1
    BY <1>3, <1>7
  <2>2. q \in Record /\ q \in ToSet(batch) /\ Last(batch) = q
    BY <1>3, <2>1 DEF ToSet, Last
  <2>3. j \in 1..Len(list) /\ j <= hi /\ list[j] = q /\ lo < j
    BY <1>3, <2>1
  <2>4. Covered(w) = run[w].seen[q]
    BY <1>4, <1>7, <2>2 DEF Covered
  <2>5. Covered(w) = snap[list[j]]
    BY <1>4, <2>2, <2>3, <2>4
  <2> HIDE DEF j, q, k
  <2>6. /\ run[w].page * PageSize < j /\ j <= (run[w].page + 1) * PageSize
        /\ Covered(w) = snap[list[j]] /\ Covered(w) = run[w].seen[q]
        /\ \A i \in 1..Len(list) : j <= i => snap[list[j]] <= snap[list[i]]
    BY <1>5, <2>3, <2>4, <2>5, Zenon DEF lo, hi
  <2> QED
    BY <2>2, <2>3, <2>6, Zenon
<1> QED
  BY <1>6, <1>7

\* A page that is written leaves every record of it as it was read, or left out
\* and noted in the run's result, and the others as they were.
LEMMA WriteStands ==
  ASSUME TypeOK, NEW w \in Runner, Write(w), Planned(run[w]), NEW r \in Record
  PROVE  /\ r \notin Paging(w) => /\ ref'[r] = ref[r] /\ skipped'[r] = skipped[r]
                                  /\ Noted(w)[r] = run[w].skips[r]
         /\ r \in Paging(w) => \/ ref'[r].copy # 0 /\ ref'[r].ver = run[w].seen[r]
                               \/ /\ skipped'[r] = run[w].seen[r]
                                  /\ Noted(w)[r] = run[w].seen[r]
<1>0. run[w].pc = "writing" /\ run[w].plan[r] \in {"none", "create", "recreate", "update", "skip", "same"}
  <2>1. run[w] \in Run
    BY DEF TypeOK
  <2>2. run[w].plan[r] \in {"none", "create", "recreate", "update", "skip", "same"}
    BY <2>1 DEF Run
  <2>3. run[w].pc = "writing"
    BY DEF Write
  <2> QED
    BY <2>2, <2>3
<1>1. /\ r \in Paging(w) <=> run[w].plan[r] # "none"
      /\ run[w].plan[r] \in {"same", "update"} => ref[r].copy # 0
      /\ run[w].plan[r] = "same" => ref[r].ver = run[w].seen[r]
  BY <1>0 DEF Planned, Paging
<1>2. /\ skipped'[r] = IF run[w].plan[r] = "skip" THEN run[w].seen[r]
                       ELSE IF Imported(w, r) THEN 0 ELSE skipped[r]
      /\ Noted(w)[r] = IF run[w].plan[r] = "skip" THEN run[w].seen[r] ELSE run[w].skips[r]
  BY DEF Write, Noted
<1>3. ref'[r] = IF Imported(w, r)
                THEN [copy |-> IF New(w, r) THEN Len(task'[r]) ELSE ref[r].copy,
                      ver |-> run[w].seen[r]]
                ELSE ref[r]
  BY DEF Write
<1>4. CASE run[w].plan[r] = "none"
  <2>1. ~Imported(w, r)
    BY <1>4 DEF Imported
  <2> QED
    BY <1>1, <1>2, <1>3, <1>4, <2>1
<1>5. CASE run[w].plan[r] = "skip"
  BY <1>1, <1>2, <1>5
<1>6. CASE run[w].plan[r] = "same"
  <2>1. ~Imported(w, r)
    BY <1>6 DEF Imported
  <2> QED
    BY <1>1, <1>3, <1>6, <2>1
<1>7. CASE Imported(w, r)
  <2>1. ref'[r].ver = run[w].seen[r]
    BY <1>3, <1>7
  <2>2. New(w, r) => task'[r] # <<>>
    <3> SUFFICES ASSUME New(w, r)
                 PROVE  task'[r] # <<>>
      OBVIOUS
    <3>1. task'[r] = Append(task[r], "live")
      BY DEF Write
    <3>2. task[r] \in Seq({"live", "trash", "purged"})
      BY DEF TypeOK
    <3> QED
      BY <3>1, <3>2
  <2>3. New(w, r) => ref'[r].copy # 0
    BY <2>2, WritesAreTyped
  <2>4. ~New(w, r) => run[w].plan[r] = "update"
    BY <1>7 DEF New, Imported
  <2>5. ~New(w, r) => ref'[r].copy # 0
    BY <1>1, <1>3, <1>7, <2>4
  <2>6. r \in Paging(w)
    BY <1>1, <1>7 DEF Imported
  <2> QED
    BY <2>1, <2>3, <2>5, <2>6
<1> QED
  BY <1>0, <1>4, <1>5, <1>6, <1>7 DEF Imported

\* So the page is in or left out, and the run accounts for it, and what was
\* accounted for before still is.
LEMMA WriteReflects ==
  ASSUME TypeOK, NEW w \in Runner, Write(w), Planned(run[w])
  PROVE  \A r \in Record, at \in Time :
           /\ r \notin Paging(w) /\ Reflects(r, at) => Reflects(r, at)'
           /\ r \in Paging(w) /\ at <= run[w].seen[r] => Reflects(r, at)'
           /\ r \notin Paging(w) /\ Accounted(run[w], r, at) => Accounted(run[w], r, at)'
           /\ r \in Paging(w) /\ at <= run[w].seen[r] => Accounted(run[w], r, at)'
<1> SUFFICES ASSUME NEW r \in Record, NEW at \in Time
             PROVE  /\ r \notin Paging(w) /\ Reflects(r, at) => Reflects(r, at)'
                    /\ r \in Paging(w) /\ at <= run[w].seen[r] => Reflects(r, at)'
                    /\ r \notin Paging(w) /\ Accounted(run[w], r, at) => Accounted(run[w], r, at)'
                    /\ r \in Paging(w) /\ at <= run[w].seen[r] => Accounted(run[w], r, at)'
  OBVIOUS
<1>1. run[w].seen[r] \in Int /\ at \in Int
  <2>1. run[w].seen \in [Record -> Time]
    BY DEF TypeOK, Run
  <2>2. Time \subseteq Int
    BY SyncAssumption DEF Time
  <2> QED
    BY <2>1, <2>2
<1>2. run'[w].skips = Noted(w)
  BY WriteWrites
<1>3. CASE r \notin Paging(w)
  <2>1. /\ ref'[r] = ref[r] /\ skipped'[r] = skipped[r]
        /\ run'[w].skips[r] = run[w].skips[r]
    BY <1>2, <1>3, WriteStands
  <2> QED
    BY <1>3, <2>1 DEF Reflects, Accounted, Stands
<1>4. CASE r \in Paging(w)
  <2>1. \/ ref'[r].copy # 0 /\ ref'[r].ver = run[w].seen[r]
        \/ skipped'[r] = run[w].seen[r] /\ run'[w].skips[r] = run[w].seen[r]
    BY <1>2, <1>4, WriteStands
  <2> QED
    BY <1>1, <1>4, <2>1 DEF Reflects, Accounted, Stands
<1> QED
  BY <1>3, <1>4

\* A cursor that claims nothing which changed under the run keeps its promise.
LEMMA WriteKeepsCovers ==
  ASSUME TypeOK, NEW w \in Runner, Write(w), Planned(run[w]),
         NEW snap, \A r \in Paging(w) : run[w].seen[r] = snap[r],
         NEW n \in Int, Covers(n), \A r \in Record : src[r] # snap[r] => src[r] >= n
  PROVE  Covers(n)'
<1>0. src' = src /\ src \in [Record -> Time] /\ \A r \in Record : src[r] \in Nat
  BY SyncAssumption, WriteWrites DEF TypeOK, Time
<1> SUFFICES ASSUME NEW r \in Record, src[r] # 0, src[r] < n
             PROVE  Reflects(r, src[r])'
  BY <1>0 DEF Covers
<1>1. Reflects(r, src[r])
  BY DEF Covers
<1>2. src[r] = snap[r]
  BY <1>0
<1> DEFINE at == src[r]
<1>3. at \in Time
  BY <1>0
<1>4. r \in Paging(w) => at <= run[w].seen[r]
  BY <1>0, <1>2
<1>5. PICK a \in Time : a = src[r]
  BY <1>3
<1>6. Reflects(r, a)'
  BY <1>1, <1>4, <1>5, WriteReflects DEF Reflects, Stands
<1> QED
  BY <1>0, <1>5, <1>6 DEF Reflects, Stands

-----------------------------------------------------------------------------
(* Every step keeps the runs sound *)

\* What is in stays in while no page is written and the source stands still.
LEMMA SameReflects ==
  ASSUME UNCHANGED <<src, ref, skipped>>
  PROVE  /\ \A r, at : Reflects(r, at)' <=> Reflects(r, at)
         /\ \A n : Covers(n)' <=> Covers(n)
<1>1. \A r, at : Reflects(r, at)' <=> Reflects(r, at)
  BY DEF Reflects, Stands
<1>2. \A n : Covers(n)' <=> Covers(n)
  BY <1>1 DEF Covers, Reflects, Stands
<1> QED
  BY <1>1, <1>2

\* So a run that goes on with its page has still brought in what it had.
LEMMA BroughtStays ==
  ASSUME UNCHANGED <<src, ref, skipped>>,
         NEW g, NEW h, NEW snap, NEW list, Brought(g, snap, list),
         h.page = g.page, h.since = g.since, h.skips = g.skips,
         h.pc = "finishing" => g.pc = "finishing"
  PROVE  Brought(h, snap, list)'
<1>1. \A r, at : Reflects(r, at)' <=> Reflects(r, at)
  BY SameReflects
<1>2. \A r, at : Accounted(g, r, at) => Accounted(h, r, at)'
  BY DEF Accounted, Stands
<1> QED
  BY <1>1, <1>2 DEF Brought

\* The parts of a run, and what it reads, are of their types.
LEMMA SnapsAreTyped ==
  ASSUME TypeOK, NEW w \in Runner
  PROVE  /\ Snap(run[w]) \in [Record -> Time] /\ Read(w) \in [Record -> Time]
         /\ src \in [Record -> Time] /\ run[w].seen \in [Record -> Time]
         /\ run[w].since \in Time /\ run[w].cursor \in Time /\ row.cursor \in Time
         /\ run[w].page \in Nat /\ edit \in Int
         /\ run[w].began \in [Record -> Time]
<1>1. run[w] \in Run /\ src \in [Record -> Time] /\ row.cursor \in Time
  BY DEF TypeOK
<1>2. /\ run[w].seen \in [Record -> Time] /\ run[w].began \in [Record -> Time]
      /\ run[w].since \in Time /\ run[w].cursor \in Time /\ run[w].page \in Nat
  BY <1>1 DEF Run
<1>3. edit \in Int
  BY SyncAssumption DEF TypeOK, Time
<1>4. Snap(run[w]) \in {src, run[w].seen} /\ Read(w) \in {src, run[w].seen}
  BY DEF Snap, Read
<1> QED
  BY <1>1, <1>2, <1>3, <1>4

\* What is listed is a record, and no older than the listing asks for.
LEMMA ListedAreDue ==
  ASSUME NEW snap \in [Record -> Time], NEW since,
         NEW i \in 1..Len(Listing(snap, since))
  PROVE  /\ Listing(snap, since)[i] \in Record
         /\ snap[Listing(snap, since)[i]] >= since
         /\ snap[Listing(snap, since)[i]] # 0
<1>1. Listing(snap, since)[i] \in Eligible(snap, since)
  BY ListingSorts
<1> QED
  BY <1>1 DEF Eligible

\* Nobody else can be relied on after a step of a run that is under way.
LEMMA OthersAreDisturbed ==
  ASSUME OneActive, NEW w \in Runner, NEW v \in Runner, v # w,
         Active(w), run'[v] = run[v], calm' => calm \/ run[w].alone, Sound(v)'
  PROVE  FALSE
<1>1. Active(v)
  BY DEF Sound, Reading, Active
<1>2. calm \/ run[v].alone \/ run[w].alone
  BY DEF Sound
<1> QED
  BY <1>1, <1>2, OnlyOne

\* A run that starts from a cursor that covers what it claims is sound.
LEMMA BeginSound ==
  ASSUME CursorInv, NEW w \in Runner, NEW full \in BOOLEAN, Begin(w, full), Sound(w)'
  PROVE  \E g \in {run'[w]} : RunOK(g)'
<1>0. TypeOK
  BY DEF CursorInv
<1>1. PICK h : h = run'[w]
  OBVIOUS
<1>2. /\ h.pc = "fetching" /\ h.page = 0 /\ h.full = full /\ h.alone = Alone(w)
      /\ h.began = (IF Alone(w) THEN src ELSE Idle.began)
      /\ h.since = (IF full THEN 0 ELSE row.cursor) /\ h.cursor = row.cursor
  BY <1>0, <1>1, BeginBegins DEF Begun
<1>3. UNCHANGED <<src, ref, skipped>> /\ (calm' => calm /\ Alone(w))
  BY DEF Begin
<1>4. calm' \/ (full /\ Alone(w))
  BY <1>1, <1>2 DEF Sound
<1>5. Alone(w)
  BY <1>3, <1>4
<1>6. src \in [Record -> Time] /\ \A r \in Record : src[r] \in Nat
  BY <1>0, SyncAssumption DEF TypeOK, Time
<1>7. Covers(h.since)
  <2>1. CASE full
    BY <1>2, <1>6, <2>1 DEF Covers
  <2>2. CASE ~full
    <3>1. row.cursor \in Cursors /\ calm
      BY <1>3, <1>4, <2>2 DEF Cursors
    <3> QED
      BY <1>2, <2>2, <3>1 DEF CursorInv, CalmCovers
  <2> QED
    BY <2>1, <2>2
<1>8. Covers(h.since)'
  BY <1>3, <1>7, SameReflects
<1>9. Fresh(h) /\ FreshOK(h)'
  BY <1>2, <1>3, <1>5, <1>6, <1>8 DEF Fresh, FreshOK
<1> QED
  BY <1>1, <1>9 DEF RunOK, Fresh

\* Reading a page keeps a run sound: the page is the next stretch of the listing.
LEMMA FetchSound ==
  ASSUME CursorInv, NEW w \in Runner, Fetch(w), Sound(w)'
  PROVE  \E g \in {run'[w]} : RunOK(g)'
<1>0. TypeOK
  BY DEF CursorInv
<1>1. PICK h : h = run'[w]
  OBVIOUS
<1>2. PICK snap, g, list :
        /\ snap \in [Record -> Time]
        /\ snap = Read(w) /\ g = run[w] /\ list = Listing(snap, g.since)
  BY <1>0, SnapsAreTyped
<1>3. /\ g.pc = "fetching" /\ h.pc = "applying"
      /\ h.full = g.full /\ h.alone = g.alone /\ h.began = g.began
      /\ h.since = g.since /\ h.cursor = g.cursor /\ h.page = g.page
      /\ h.batch = PageOf(list, g.page) /\ h.last = IsLast(list, g.page)
      /\ h.seen = IF Paged THEN Answered(src, h.batch) ELSE snap
      /\ h.skips = g.skips
      /\ UNCHANGED <<now, src, row, ref, edit, skipped, calm>>
  BY <1>0, <1>1, <1>2, FetchFetches
<1>4. RunOK(g)
  <2>1. Sound(w)
    BY <1>1, <1>2, <1>3 DEF Sound, Reading
  <2> QED
    BY <1>2, <2>1 DEF CursorInv, SoundRuns
<1>5. /\ snap = IF Paged \/ g.page = 0 THEN src ELSE g.seen
      /\ src \in [Record -> Time] /\ g.page \in Nat /\ g.since \in Time
  BY <1>0, <1>2, SnapsAreTyped DEF Read
<1>6. Snap(h)' = snap
  BY <1>3, <1>5 DEF Snap
<1>7. Fresh(g) => snap = src /\ g.page * PageSize = 0
  BY <1>5, SyncAssumption DEF Fresh
<1>8. ~Fresh(g) => ReadOK(g, snap, list)
  BY <1>2, <1>3, <1>4, <1>5 DEF RunOK, Fresh, Snap
<1>9. /\ list \in Seq(Record)
      /\ \A i \in 1..Len(list) : list[i] \in Record /\ snap[list[i]] >= g.since
  <2>1. list \in Seq(Eligible(snap, g.since))
    BY <1>2, ListingSorts
  <2>2. Eligible(snap, g.since) \subseteq Record
    BY DEF Eligible
  <2> QED
    BY <1>2, <2>1, <2>2, ListedAreDue
<1>10. Moved(h, snap)'
  <2>1. CASE Paged \/ Fresh(g)
    BY <1>3, <1>5, <1>7, <2>1 DEF Moved
  <2>2. CASE ~Paged /\ ~Fresh(g)
    <3>1. Moved(g, snap)
      BY <1>8, <2>2 DEF ReadOK
    <3>2. h.seen = g.seen
      BY <1>3, <1>5, <2>2 DEF Fresh
    <3> QED
      BY <1>3, <3>1, <3>2 DEF Moved
  <2> QED
    BY <2>1, <2>2
<1>11. OnPage(h, snap, list)'
  <2>1. \A r \in ToSet(h.batch) : h.seen[r] = snap[r]
    <3>1. ToSet(h.batch) \subseteq Record
      <4>1. h.batch \in Seq(Record)
        BY <1>3, <1>5, <1>9, PageIsAStretch
      <4> QED
        BY <4>1 DEF ToSet
    <3> QED
      BY <1>3, <1>5, <3>1 DEF Answered
  <2> QED
    BY <1>3, <2>1 DEF OnPage
<1>12. Planned(h)'
  BY <1>3 DEF Planned
<1>13. Brought(h, snap, list)'
  <2>1. Brought(g, snap, list)
    <3>1. CASE Fresh(g)
      <4>1. Covers(g.since)
        BY <1>4, <3>1 DEF RunOK, FreshOK
      <4>2. Len(list) \in Nat
        BY <1>9
      <4> QED
        BY <1>3, <1>7, <3>1, <4>1, <4>2 DEF Brought, Covers
    <3>2. CASE ~Fresh(g)
      BY <1>8, <3>2 DEF ReadOK
    <3> QED
      BY <3>1, <3>2
  <2> QED
    BY <1>3, <2>1, BroughtStays
<1>14. Ahead(h, snap, list)'
  <2>1. CASE Fresh(g)
    <3>1. ~g.full => g.cursor = g.since
      BY <1>4, <2>1 DEF RunOK, FreshOK
    <3>2. \A i \in 1..Len(list) : ~g.full => g.cursor <= snap[list[i]]
      <4>1. \A i \in 1..Len(list) : snap[list[i]] \in Int /\ g.since \in Int
        BY <1>2, <1>5, <1>9, SyncAssumption DEF Time
      <4> QED
        BY <1>9, <3>1, <4>1
    <3> QED
      BY <1>3, <3>2 DEF Ahead
  <2>2. CASE ~Fresh(g)
    <3>1. Ahead(g, snap, list)
      BY <1>8, <2>2 DEF ReadOK
    <3> QED
      BY <1>3, <3>1 DEF Ahead
  <2> QED
    BY <2>1, <2>2
<1>15. g.alone => \A r \in Record : g.began[r] <= snap[r]
  BY <1>4, <1>7, <1>8 DEF RunOK, FreshOK, ReadOK
<1>16. ReadOK(h, snap, list)'
  BY <1>3, <1>10, <1>11, <1>12, <1>13, <1>14, <1>15 DEF ReadOK
<1>17. ~Fresh(h) /\ list = Listing(snap, h.since)
  BY <1>2, <1>3 DEF Fresh
<1>18. RunOK(h)'
  BY <1>6, <1>16, <1>17 DEF RunOK, Fresh
<1> QED
  BY <1>1, <1>18

\* Planning a page keeps a run sound.
LEMMA DecideSound ==
  ASSUME CursorInv, NEW w \in Runner, NEW bad \in SUBSET Paging(w), Decide(w, bad), Sound(w)'
  PROVE  \E g \in {run'[w]} : RunOK(g)'
<1>0. TypeOK
  BY DEF CursorInv
<1>1. PICK h : h = run'[w]
  OBVIOUS
<1>2. PICK g : g = run[w]
  OBVIOUS
<1>3. /\ g.pc = "applying" /\ h.pc = "writing"
      /\ h.full = g.full /\ h.alone = g.alone /\ h.began = g.began
      /\ h.since = g.since /\ h.cursor = g.cursor /\ h.page = g.page
      /\ h.batch = g.batch /\ h.last = g.last /\ h.seen = g.seen
      /\ h.skips = g.skips
      /\ \A r \in Record :
           h.plan[r] = IF r \in bad THEN "skip"
                       ELSE IF r \in Paging(w) THEN Decision(r, g.seen[r]) ELSE "none"
      /\ UNCHANGED <<now, src, row, ref, edit, skipped, calm>>
  BY <1>0, <1>1, <1>2, DecideDecides
<1>4. RunOK(g)
  <2>1. Sound(w)
    BY <1>1, <1>2, <1>3 DEF Sound, Reading
  <2> QED
    BY <1>2, <2>1 DEF CursorInv, SoundRuns
<1>5. PICK snap, list : snap = Snap(g) /\ list = Listing(snap, g.since)
  OBVIOUS
<1>6. ReadOK(g, snap, list)
  BY <1>3, <1>4, <1>5 DEF RunOK, Fresh
<1>7. Snap(h)' = snap
  BY <1>3, <1>5 DEF Snap
<1>8. Planned(h)'
  <2> SUFFICES ASSUME NEW r \in Record
               PROVE  /\ r \in ToSet(h.batch) <=> h.plan[r] # "none"
                      /\ h.plan[r] \in {"same", "update"} => ref[r].copy # 0
                      /\ h.plan[r] = "same" => ref[r].ver = h.seen[r]
    BY <1>3 DEF Planned
  <2>1. Paging(w) = ToSet(h.batch)
    BY <1>2, <1>3 DEF Paging
  <2>2. Decision(r, g.seen[r]) # "none"
    BY DEF Decision
  <2>3. Decision(r, g.seen[r]) \in {"same", "update"} => ref[r].copy # 0
    BY DEF Decision
  <2>4. Decision(r, g.seen[r]) = "same" => ref[r].ver = g.seen[r]
    BY DEF Decision
  <2> QED
    BY <1>3, <2>1, <2>2, <2>3, <2>4
<1>9. Moved(h, snap)' /\ OnPage(h, snap, list)' /\ Ahead(h, snap, list)'
  BY <1>3, <1>6 DEF ReadOK, Moved, OnPage, Ahead
<1>10. Brought(h, snap, list)'
  BY <1>3, <1>6, BroughtStays DEF ReadOK
<1>11. ReadOK(h, snap, list)'
  BY <1>3, <1>6, <1>8, <1>9, <1>10 DEF ReadOK
<1>12. ~Fresh(h) /\ list = Listing(snap, h.since)
  BY <1>3, <1>5 DEF Fresh
<1>13. RunOK(h)'
  BY <1>7, <1>11, <1>12 DEF RunOK, Fresh
<1> QED
  BY <1>1, <1>13

\* What a page adds to what a run has brought in.
LEMMA WriteBrings ==
  ASSUME CursorInv, NEW w \in Runner, Write(w), Sound(w),
         NEW g, g = run[w], NEW snap, snap = Snap(g), NEW list, list = Listing(snap, g.since)
  PROVE  /\ ReadOK(g, snap, list) /\ snap \in [Record -> Time] /\ g.pc = "writing"
         /\ \A i \in 1..Len(list) : i <= (g.page + 1) * PageSize =>
              /\ Reflects(list[i], snap[list[i]])'
              /\ Accounted(run[w], list[i], snap[list[i]])'
         /\ \A r \in Record : snap[r] # 0 /\ snap[r] < g.since => Reflects(r, snap[r])'
         /\ \A i \in 1..Len(list) :
              /\ snap[list[i]] < Covered(w) => i <= (g.page + 1) * PageSize
              /\ i > (g.page + 1) * PageSize => Covered(w) <= snap[list[i]]
         /\ \A r \in Record : src[r] # snap[r] => src[r] >= Covered(w)
         /\ ~g.full => g.cursor <= Covered(w)
         /\ \A r \in Paging(w) : g.seen[r] = snap[r]
<1>0. TypeOK
  BY DEF CursorInv
<1>1. /\ snap \in [Record -> Time] /\ src \in [Record -> Time] /\ g.page \in Nat
      /\ g.since \in Time /\ g.cursor \in Int
      /\ \A r \in Record : src[r] \in Nat /\ snap[r] \in Nat
  BY <1>0, SnapsAreTyped, SyncAssumption DEF Time
<1>2. g.pc = "writing"
  BY DEF Write
<1>3. ReadOK(g, snap, list)
  <2>1. RunOK(g)
    BY DEF CursorInv, SoundRuns
  <2> QED
    BY <1>2, <2>1 DEF RunOK, Fresh
<1>4. Planned(g) /\ OnPage(g, snap, list) /\ Brought(g, snap, list) /\ Moved(g, snap)
      /\ Ahead(g, snap, list)
  BY <1>3 DEF ReadOK
<1>5. list \in Seq(Record)
  <2>1. list \in Seq(Eligible(snap, g.since)) /\ Eligible(snap, g.since) \subseteq Record
    <3>1. Eligible(snap, g.since) \subseteq Record
      BY DEF Eligible
    <3> QED BY <1>1, <3>1, ListingSorts
  <2> QED BY <2>1
<1>6. \A r \in Paging(w) : g.seen[r] = snap[r]
  BY <1>2, <1>4 DEF OnPage, Paging
<1>7. ASSUME NEW r \in Record
      PROVE  /\ Reflects(r, snap[r]) \/ r \in Paging(w) => Reflects(r, snap[r])'
             /\ Accounted(g, r, snap[r]) \/ r \in Paging(w) => Accounted(run[w], r, snap[r])'
  <2>1. PICK a \in Time : a = snap[r]
    BY <1>1
  <2>2. r \in Paging(w) => a <= run[w].seen[r]
    BY <1>1, <1>6, <2>1
  <2>3. /\ Reflects(r, a) \/ r \in Paging(w) => Reflects(r, a)'
        /\ Accounted(run[w], r, a) \/ r \in Paging(w) => Accounted(run[w], r, a)'
    BY <1>0, <1>4, <2>2, WriteReflects
  <2> QED
    BY <2>1, <2>3
<1> DEFINE lo == g.page * PageSize
           hi == (g.page + 1) * PageSize
<1>8. /\ lo \in Nat /\ hi \in Nat /\ lo < hi
      /\ \A i \in 1..Len(list) : lo < i /\ i <= hi => list[i] \in Paging(w)
  <2>1. PICK page \in Nat : page = g.page
    BY <1>1
  <2>2. /\ page * PageSize \in Nat /\ (page + 1) * PageSize \in Nat
        /\ page * PageSize < (page + 1) * PageSize
        /\ PageOf(list, page) \in Seq(Record)
        /\ \A k \in 1..Len(PageOf(list, page)) : PageOf(list, page)[k] = list[page * PageSize + k]
        /\ \A i \in 1..Len(list) :
             page * PageSize < i /\ i <= (page + 1) * PageSize
               => i - page * PageSize \in 1..Len(PageOf(list, page))
    <3>1. PageOf(list, page) \in Seq(Record) /\ page * PageSize \in Nat
      BY <1>5, PageIsAStretch
    <3>2. (page + 1) * PageSize \in Nat /\ page * PageSize < (page + 1) * PageSize
      BY <1>5, PageIsAStretch
    <3>3. ASSUME NEW k \in 1..Len(PageOf(list, page))
          PROVE  PageOf(list, page)[k] = list[page * PageSize + k]
      BY <1>5, PageIsAStretch, Zenon
    <3>4. \A i \in 1..Len(list) :
            page * PageSize < i /\ i <= (page + 1) * PageSize
              => i - page * PageSize \in 1..Len(PageOf(list, page))
      BY <1>5, PageIsAStretch
    <3> QED
      BY <3>1, <3>2, <3>3, <3>4
  <2>3. g.batch = PageOf(list, page)
    BY <1>2, <1>4, <2>1 DEF OnPage
  <2>4. ASSUME NEW i \in 1..Len(list), page * PageSize < i, i <= (page + 1) * PageSize
        PROVE  list[i] \in Paging(w)
    <3> DEFINE m == page * PageSize
    <3>1. i - m \in 1..Len(PageOf(list, page))
      BY <2>2, <2>4
    <3>2. PageOf(list, page)[i - m] = list[m + (i - m)]
      BY <2>2, <3>1
    <3>3. m + (i - m) = i
      BY <2>2
    <3>4. list[i] = g.batch[i - m]
      BY <2>3, <3>2, <3>3
    <3>5. i - m \in DOMAIN g.batch
      BY <2>2, <2>3, <3>1
    <3> QED
      BY <3>4, <3>5 DEF Paging, ToSet
  <2> QED
    BY <2>1, <2>2, <2>4
<1>9. ASSUME NEW i \in 1..Len(list), i <= hi
      PROVE  /\ Reflects(list[i], snap[list[i]])'
             /\ Accounted(run[w], list[i], snap[list[i]])'
  <2>1. list[i] \in Record
    BY <1>5
  <2>2. CASE i <= lo
    <3>1. Reflects(list[i], snap[list[i]]) /\ Accounted(g, list[i], snap[list[i]])
      BY <1>4, <2>2 DEF Brought
    <3> QED
      BY <1>7, <2>1, <3>1
  <2>3. CASE lo < i
    BY <1>7, <1>8, <1>9, <2>1, <2>3
  <2> QED
    BY <1>8, <2>2, <2>3
<1>10. \A r \in Record : snap[r] # 0 /\ snap[r] < g.since => Reflects(r, snap[r])'
  <2>1. \A r \in Record : snap[r] # 0 /\ snap[r] < g.since => Reflects(r, snap[r])
    BY <1>4 DEF Brought
  <2> QED
    BY <1>7, <2>1
<1>11. \/ Covered(w) = g.cursor /\ Len(list) <= lo
       \/ \E j \in 1..Len(list), q \in Record :
            /\ lo < j /\ j <= hi
            /\ Covered(w) = snap[list[j]] /\ Covered(w) = g.seen[q]
            /\ \A i \in 1..Len(list) : j <= i => snap[list[j]] <= snap[list[i]]
  <2>1. OnPage(run[w], snap, list) /\ run[w].since \in Time /\ run[w].pc = "writing"
    BY <1>1, <1>2, <1>4
  <2>2. list = Listing(snap, run[w].since) /\ snap \in [Record -> Time]
    BY <1>1, <1>2
  <2>3. PICK since \in Time : since = run[w].since
    BY <2>1
  <2>4. \/ Covered(w) = run[w].cursor /\ Len(list) <= run[w].page * PageSize
        \/ \E j \in 1..Len(list), q \in Record :
             /\ run[w].page * PageSize < j /\ j <= (run[w].page + 1) * PageSize
             /\ Covered(w) = snap[list[j]] /\ Covered(w) = run[w].seen[q]
             /\ \A i \in 1..Len(list) : j <= i => snap[list[j]] <= snap[list[i]]
    BY <1>0, <2>1, <2>2, <2>3, CoveredIsLast
  <2> QED
    BY <1>1, <2>4 DEF lo, hi
<1>12. Len(list) \in Nat /\ \A i \in 1..Len(list) : snap[list[i]] \in Int
  BY <1>1, <1>5
<1> HIDE DEF lo, hi
<1>13. \A i \in 1..Len(list) :
         /\ snap[list[i]] < Covered(w) => i <= hi
         /\ i > hi => Covered(w) <= snap[list[i]]
  BY <1>8, <1>11, <1>12
<1>14. \A r \in Record : src[r] # snap[r] => src[r] >= Covered(w)
  BY <1>4, <1>11 DEF Moved
<1>15. ~g.full => g.cursor <= Covered(w)
  <2>1. \A i \in 1..Len(list) : i > lo /\ ~g.full => g.cursor <= snap[list[i]]
    BY <1>4 DEF Ahead, lo
  <2> QED
    BY <1>1, <1>11, <2>1
<1> QED
  BY <1>1, <1>2, <1>3, <1>6, <1>9, <1>10, <1>13, <1>14, <1>15 DEF hi

\* Writing a page keeps a run sound: the page is in, and the cursor is its last record.
LEMMA WriteSound ==
  ASSUME CursorInv, NEW w \in Runner, Write(w), Sound(w)'
  PROVE  \E g \in {run'[w]} : RunOK(g)'
<1>0. TypeOK
  BY DEF CursorInv
<1>1. PICK h : h = run'[w]
  OBVIOUS
<1>2. PICK g : g = run[w]
  OBVIOUS
<1>3. PICK snap, list : snap = Snap(g) /\ list = Listing(snap, g.since)
  OBVIOUS
<1>4. /\ g.pc = "writing" /\ h.pc = (IF g.last THEN "finishing" ELSE "fetching")
      /\ h.full = g.full /\ h.alone = g.alone /\ h.began = g.began
      /\ h.since = g.since /\ h.cursor = Covered(w) /\ h.page = g.page + 1
      /\ h.seen = (IF Paged THEN [r \in Record |-> 0] ELSE g.seen)
      /\ h = run'[w]
      /\ row' = [there |-> TRUE, cursor |-> Covered(w)]
      /\ UNCHANGED <<now, src, edit, calm>>
  BY <1>0, <1>1, <1>2, WriteWrites
<1>5. Sound(w)
  BY <1>1, <1>2, <1>4 DEF Sound, Reading
<1>6. /\ ReadOK(g, snap, list) /\ snap \in [Record -> Time]
      /\ \A i \in 1..Len(list) : i <= (g.page + 1) * PageSize =>
           /\ Reflects(list[i], snap[list[i]])'
           /\ Accounted(run[w], list[i], snap[list[i]])'
      /\ \A r \in Record : snap[r] # 0 /\ snap[r] < g.since => Reflects(r, snap[r])'
      /\ \A i \in 1..Len(list) : i > (g.page + 1) * PageSize => Covered(w) <= snap[list[i]]
      /\ \A r \in Record : src[r] # snap[r] => src[r] >= Covered(w)
  BY <1>2, <1>3, <1>5, WriteBrings
<1>7. src \in [Record -> Time] /\ g.page \in Nat /\ \A r \in Record : src[r] \in Nat
  BY <1>0, <1>2, SnapsAreTyped, SyncAssumption DEF Time
<1>8. Snap(h)' = snap
  BY <1>3, <1>4 DEF Snap
<1>9. Moved(h, snap)'
  <2>1. CASE Paged
    BY <1>3, <1>4, <2>1 DEF Moved, Snap
  <2>2. CASE ~Paged
    <3>1. Moved(g, snap)
      BY <1>6 DEF ReadOK
    <3>2. h.seen = g.seen /\ row'.cursor = Covered(w)
      BY <1>4, <2>2
    <3> QED
      BY <1>4, <1>6, <3>1, <3>2 DEF Moved
  <2> QED
    BY <2>1, <2>2
<1>10. OnPage(h, snap, list)' /\ Planned(h)'
  BY <1>4 DEF OnPage, Planned
<1>11. Brought(h, snap, list)'
  <2>1. h.pc = "finishing" => Len(list) <= h.page * PageSize
    <3> SUFFICES ASSUME h.pc = "finishing"
                 PROVE  Len(list) <= h.page * PageSize
      OBVIOUS
    <3>1. g.last
      BY <1>4
    <3>2. IsLast(list, g.page)
      BY <1>4, <1>6, <3>1 DEF ReadOK, OnPage
    <3>3. list \in Seq(Eligible(snap, g.since))
      BY <1>3, <1>6, ListingSorts
    <3>4. Len(list) \in Nat /\ (g.page + 1) * PageSize \in Nat
      BY <1>7, <3>3, SyncAssumption
    <3> QED
      BY <1>4, <3>2, <3>4 DEF IsLast
  <2>2. \A r, at : Accounted(run[w], r, at)' <=> Accounted(h, r, at)'
    BY <1>4 DEF Accounted
  <2> QED
    BY <1>4, <1>6, <2>1, <2>2 DEF Brought
<1>12. Ahead(h, snap, list)'
  BY <1>4, <1>6 DEF Ahead
<1>13. ReadOK(h, snap, list)'
  BY <1>4, <1>6, <1>9, <1>10, <1>11, <1>12 DEF ReadOK
<1>14. ~Fresh(h) /\ list = Listing(snap, h.since)
  BY <1>3, <1>4, <1>7 DEF Fresh
<1>15. RunOK(h)'
  BY <1>8, <1>13, <1>14 DEF RunOK, Fresh
<1> QED
  BY <1>1, <1>15

\* What others do to rows, tasks and the clock leaves a run's reading alone.
LEMMA ElsewhereSound ==
  ASSUME CursorInv, Elsewhere, NEW w \in Runner, Sound(w)'
  PROVE  \E g \in {run'[w]} : RunOK(g)'
<1>0. TypeOK
  BY DEF CursorInv
<1>1. PICK h : h = run'[w]
  OBVIOUS
<1>2. PICK g : g = run[w]
  OBVIOUS
<1>3. /\ UNCHANGED <<src, ref, skipped, calm>> /\ Alike(g, h)
      /\ row'.cursor = row.cursor \/ row'.cursor = 0 \/ row'.cursor = edit
      /\ edit' = edit \/ edit' = -1 \/ edit' = row.cursor
  BY <1>0, <1>1, <1>2, OthersMove
<1>4. /\ h.pc = g.pc /\ h.full = g.full /\ h.since = g.since /\ h.cursor = g.cursor
      /\ h.page = g.page /\ h.last = g.last /\ h.seen = g.seen /\ h.batch = g.batch
      /\ h.plan = g.plan /\ h.skips = g.skips
      /\ h.alone => g.alone /\ h.began = g.began
  BY <1>3 DEF Alike
<1>5. RunOK(g)
  <2>1. Sound(w)
    BY <1>1, <1>2, <1>3, <1>4 DEF Sound, Reading
  <2> QED
    BY <1>2, <2>1 DEF CursorInv, SoundRuns
<1>6. \A r \in Record : src[r] \in Nat
  BY <1>0, SyncAssumption DEF TypeOK, Time
<1>7. CASE Fresh(g)
  <2>1. FreshOK(g) /\ Fresh(h)
    BY <1>4, <1>5, <1>7 DEF RunOK, Fresh
  <2>2. FreshOK(h)'
    BY <1>3, <1>4, <2>1, SameReflects DEF FreshOK
  <2> QED
    BY <1>1, <2>1, <2>2 DEF RunOK, Fresh
<1>8. CASE ~Fresh(g)
  <2>1. PICK snap, list : snap = Snap(g) /\ list = Listing(snap, g.since)
    OBVIOUS
  <2>2. ReadOK(g, snap, list)
    BY <1>5, <1>8, <2>1 DEF RunOK
  <2>3. ~Fresh(h) /\ Snap(h)' = snap /\ list = Listing(snap, h.since)
    BY <1>3, <1>4, <1>8, <2>1 DEF Fresh, Snap
  <2>4. Moved(h, snap)'
    BY <1>3, <1>4, <1>6, <2>2 DEF ReadOK, Moved
  <2>5. OnPage(h, snap, list)' /\ Planned(h)' /\ Ahead(h, snap, list)'
    BY <1>3, <1>4, <2>2 DEF ReadOK, OnPage, Planned, Ahead
  <2>6. Brought(h, snap, list)'
    BY <1>3, <1>4, <2>2, BroughtStays DEF ReadOK
  <2>7. ReadOK(h, snap, list)'
    BY <1>4, <2>2, <2>4, <2>5, <2>6 DEF ReadOK
  <2>8. RunOK(h)'
    BY <2>3, <2>7 DEF RunOK, Fresh
  <2> QED
    BY <1>1, <2>8
<1> QED
  BY <1>7, <1>8

\* A change of the source is newer than all that a run has passed.
LEMMA ChangeSound ==
  ASSUME CursorInv, NEW r \in Record, Change(r), NEW w \in Runner, Sound(w)'
  PROVE  \E g \in {run'[w]} : RunOK(g)'
<1>0. TypeOK /\ Bounded
  BY DEF CursorInv
<1>1. ~Paged
  <2> SUFFICES ASSUME Paged
               PROVE  FALSE
    OBVIOUS
  <2>1. /\ calm' => \A v \in Runner : ~Active(v)
        /\ ~run'[w].alone /\ Alike(run[w], run'[w])
    BY <1>0, ChangeChanges
  <2> QED
    BY <2>1 DEF Sound, Reading, Active, Alike
<1>2. /\ run' = run /\ calm' = calm /\ src' = [src EXCEPT ![r] = now]
      /\ UNCHANGED <<now, row, ref, edit, skipped>>
  BY <1>0, <1>1, ChangeChanges
<1>3. PICK g : g = run[w]
  OBVIOUS
<1>4. RunOK(g)
  <2>1. Sound(w)
    BY <1>2 DEF Sound
  <2> QED
    BY <1>3, <2>1 DEF CursorInv, SoundRuns
<1>5. /\ src \in [Record -> Time] /\ now \in Nat /\ \A q \in Record : src[q] \in Nat
      /\ g.since \in Nat
      /\ row.cursor <= now /\ edit <= now /\ g.cursor <= now /\ g.since <= now
      /\ \A q \in Record : g.seen[q] <= now /\ src[q] <= now
  <2>1. src \in [Record -> Time] /\ run[w].since \in Time
    BY <1>0, SnapsAreTyped
  <2>2. now \in Time
    BY <1>0 DEF TypeOK
  <2>3. Time \subseteq Nat
    BY SyncAssumption DEF Time
  <2>4. /\ row.cursor <= now /\ edit <= now /\ run[w].cursor <= now /\ run[w].since <= now
        /\ \A q \in Record : run[w].seen[q] <= now /\ src[q] <= now
    BY <1>0 DEF Bounded
  <2>5. now \in Nat /\ run[w].since \in Nat /\ \A q \in Record : src[q] \in Nat
    BY <2>1, <2>2, <2>3
  <2> QED
    BY <1>3, <2>1, <2>4, <2>5
<1>6. \A q \in Record : src'[q] = IF q = r THEN now ELSE src[q]
  BY <1>2, <1>5
<1>7. CASE Fresh(g)
  <2>1. FreshOK(g)
    BY <1>4, <1>7 DEF RunOK
  <2>2. Covers(g.since)'
    <3> SUFFICES ASSUME NEW q \in Record, src'[q] # 0, src'[q] < g.since
                 PROVE  Reflects(q, src[q])'
      BY DEF Covers
    <3>1. q # r /\ src'[q] = src[q]
      BY <1>5, <1>6
    <3>2. Reflects(q, src[q])
      BY <2>1, <3>1 DEF FreshOK, Covers
    <3> QED
      BY <1>2, <3>1, <3>2 DEF Reflects, Stands
  <2>3. g.alone => \A q \in Record : g.began[q] <= src'[q]
    <3> SUFFICES ASSUME g.alone, NEW q \in Record
                 PROVE  g.began[q] <= src'[q]
      OBVIOUS
    <3>1. g.began[q] <= src[q]
      BY <2>1 DEF FreshOK
    <3>2. g.began[q] \in Int
      BY <1>0, <1>3, SnapsAreTyped, SyncAssumption DEF Time
    <3> QED
      BY <1>5, <1>6, <3>1, <3>2
  <2>4. FreshOK(g)'
    BY <2>1, <2>2, <2>3 DEF FreshOK
  <2> QED
    BY <1>2, <1>3, <1>7, <2>4 DEF RunOK, Fresh
<1>8. CASE ~Fresh(g)
  <2>1. PICK snap, list : snap = g.seen /\ list = Listing(snap, g.since)
    OBVIOUS
  <2>2. ReadOK(g, snap, list)
    BY <1>1, <1>4, <1>8, <2>1 DEF RunOK, Snap
  <2>3. Moved(g, snap)'
    <3>1. Moved(g, snap)
      BY <2>2 DEF ReadOK
    <3> QED
      BY <1>2, <1>5, <1>6, <3>1 DEF Moved
  <2>4. OnPage(g, snap, list)' /\ Planned(g)' /\ Ahead(g, snap, list)'
    BY <1>2, <2>2 DEF ReadOK, OnPage, Planned, Ahead
  <2>5. Brought(g, snap, list)'
    <3>1. \A q, at : /\ (Reflects(q, at)' <=> Reflects(q, at))
                      /\ (Accounted(g, q, at)' <=> Accounted(g, q, at))
      BY <1>2 DEF Reflects, Accounted, Stands
    <3> QED
      BY <2>2, <3>1 DEF ReadOK, Brought
  <2>6. ReadOK(g, snap, list)'
    BY <2>2, <2>3, <2>4, <2>5 DEF ReadOK
  <2>7. Snap(g)' = snap
    BY <1>1, <2>1 DEF Snap
  <2>8. RunOK(g)'
    BY <1>8, <2>1, <2>6, <2>7 DEF RunOK, Fresh
  <2> QED
    BY <1>2, <1>3, <2>8
<1> QED
  BY <1>7, <1>8

\* Every step keeps the runs that count sound.
LEMMA StepSound ==
  ASSUME CursorInv, [Next]_vars
  PROVE  SoundRuns'
<1>0. TypeOK /\ OneActive
  BY DEF CursorInv
<1> SUFFICES ASSUME NEW v \in Runner, Sound(v)'
             PROVE  \E g \in {run'[v]} : RunOK(g)'
  BY DEF SoundRuns
<1>1. ASSUME NEW w \in Runner, NEW full \in BOOLEAN, Begin(w, full)
      PROVE  \E g \in {run'[v]} : RunOK(g)'
  <2>1. v = w
    <3> SUFFICES ASSUME v # w
                 PROVE  FALSE
      OBVIOUS
    <3>1. Alike(run[v], run'[v]) /\ ~run'[v].alone
      BY <1>0, <1>1, BeginBegins, DisturbedAreAlike
    <3>2. calm' => ~Active(v)
      BY <1>1 DEF Begin, Alone
    <3> QED
      BY <3>1, <3>2 DEF Sound, Reading, Active, Alike
  <2> QED
    BY <1>1, <2>1, BeginSound
<1>2. ASSUME NEW w \in Runner, Fetch(w) \/ (\E bad \in SUBSET Paging(w) : Decide(w, bad)) \/ Write(w)
      PROVE  \E g \in {run'[v]} : RunOK(g)'
  <2>1. Active(w) /\ calm' = calm /\ (v # w => run'[v] = run[v])
    BY <1>0, <1>2, FetchFetches, DecideDecides, WriteWrites DEF Active
  <2>2. v = w
    BY <1>0, <2>1, OthersAreDisturbed
  <2> QED
    BY <1>2, <2>2, FetchSound, DecideSound, WriteSound
<1>3. ASSUME NEW w \in Runner, Ends(w)
      PROVE  FALSE
  <2>1. /\ Active(w) /\ run'[w].pc \in {"failing", "idle"}
        /\ calm' => calm \/ Finish(w)
        /\ v # w => run'[v] = run[v]
    BY <1>0, <1>3, EndsEnd
  <2>2. calm' => calm \/ run[w].alone
    BY <2>1 DEF Finish
  <2>3. v = w
    BY <1>0, <2>1, <2>2, OthersAreDisturbed
  <2> QED
    BY <2>1, <2>3 DEF Sound, Reading
<1> QED
  BY <1>1, <1>2, <1>3, StepCases, ElsewhereSound, ChangeSound

-----------------------------------------------------------------------------
(* Every step keeps the cursors covered *)

\* The cursors are times, or the mark of no edit.
LEMMA CursorsAreTimes ==
  ASSUME TypeOK, Bounded
  PROVE  \A n \in Cursors : n \in Int /\ n <= now
<1>1. row.cursor \in Int /\ edit \in Int /\ \A w \in Runner : run[w].cursor \in Int
  BY SyncAssumption DEF TypeOK, Run, Time
<1> QED
  BY <1>1 DEF Cursors, Bounded

\* What is no later than nothing is covered.
LEMMA NothingIsCovered ==
  ASSUME TypeOK, NEW n \in Int, n <= 0
  PROVE  Covers(n)
<1>1. \A r \in Record : src[r] \in Nat
  BY SyncAssumption DEF TypeOK, Time
<1> QED
  BY <1>1 DEF Covers

\* A run that was read to its end has left nothing behind.
LEMMA FinishedHasAll ==
  ASSUME CursorInv, NEW w \in Runner, Sound(w), run[w].pc = "finishing"
  PROVE  LET snap == Snap(run[w])
         IN  /\ \A r \in Record : snap[r] # 0 =>
                  /\ Reflects(r, snap[r])
                  /\ snap[r] < run[w].since \/ Accounted(run[w], r, snap[r])
             /\ run[w].alone => \A r \in Record : run[w].began[r] <= snap[r]
             /\ Covers(run[w].cursor) /\ Covers(edit)
<1>0. TypeOK
  BY DEF CursorInv
<1>1. PICK g, snap, list : g = run[w] /\ snap = Snap(g) /\ list = Listing(snap, g.since)
  OBVIOUS
<1>2. ReadOK(g, snap, list)
  <2>1. RunOK(g)
    BY <1>1 DEF CursorInv, SoundRuns
  <2> QED
    BY <1>1, <2>1 DEF RunOK, Fresh
<1>3. /\ snap \in [Record -> Time] /\ g.since \in Time /\ g.page \in Nat /\ now \in Nat
      /\ src \in [Record -> Time] /\ g.cursor \in Int /\ edit \in Int
      /\ \A r \in Record : snap[r] \in Nat /\ snap[r] <= now /\ src[r] \in Nat
  <2>1. \A r \in Record : src[r] <= now /\ run[w].seen[r] <= now
    BY DEF CursorInv, Bounded
  <2> QED
    BY <1>0, <1>1, <2>1, SnapsAreTyped, SyncAssumption DEF Time, Snap, TypeOK
<1>4. /\ \A i \in 1..Len(list) : i <= g.page * PageSize => Reflects(list[i], snap[list[i]])
      /\ \A i \in 1..Len(list) : i <= g.page * PageSize => Accounted(g, list[i], snap[list[i]])
      /\ \A r \in Record : snap[r] # 0 /\ snap[r] < g.since => Reflects(r, snap[r])
      /\ Len(list) <= g.page * PageSize
  BY <1>1, <1>2 DEF ReadOK, Brought
<1> DEFINE K == {r \in Record : /\ Reflects(r, snap[r])
                                /\ snap[r] < g.since \/ Accounted(g, r, snap[r])}
           m == g.page * PageSize
<1>5. list \in Seq(Eligible(snap, g.since)) /\ Eligible(snap, g.since) \subseteq Record
  <2>1. Eligible(snap, g.since) \subseteq Record
    BY DEF Eligible
  <2> QED BY <1>1, <1>3, <2>1, ListingSorts
<1>6. m \in Nat /\ Len(list) \in Nat /\ \A i \in 1..Len(list) : list[i] \in Record
  BY <1>3, <1>5, SyncAssumption
<1>7. \A i \in 1..Len(list) : i <= m /\ list[i] \in K
  BY <1>4, <1>6
<1>8. \A r \in Record : snap[r] # 0 /\ snap[r] < g.since => r \in K
  BY <1>4
<1> HIDE DEF K, m
<1>9. \A r \in Record : snap[r] # 0 /\ snap[r] < now + 1 => r \in K
  <2>1. now + 1 \in Int
    BY <1>3
  <2> QED
    BY <1>1, <1>3, <1>6, <1>7, <1>8, <2>1, NothingLeft
<1>10. \A r \in Record : snap[r] # 0 =>
         /\ Reflects(r, snap[r])
         /\ snap[r] < g.since \/ Accounted(g, r, snap[r])
  BY <1>3, <1>9 DEF K
<1>11. \A r \in Record : src[r] # snap[r] => src[r] >= g.cursor /\ src[r] >= edit
  BY <1>2 DEF ReadOK, Moved
<1>12. Covers(g.cursor) /\ Covers(edit)
  BY <1>3, <1>10, <1>11 DEF Covers
<1> QED
  BY <1>1, <1>2, <1>10, <1>12 DEF ReadOK

\* What a write does to the cursors: the row's and the run's are the page's.
LEMMA WriteMovesCursors ==
  ASSUME TypeOK, NEW w \in Runner, Write(w)
  PROVE  /\ Active(w) /\ run[w].pc = "writing" /\ run'[w].pc \in {"finishing", "fetching"}
         /\ run'[w].cursor = Covered(w) /\ row'.cursor = Covered(w)
         /\ \A v \in Runner \ {w} : run'[v] = run[v]
         /\ src' = src /\ edit' = edit /\ calm' = calm
<1>1. run[w].pc = "writing" /\ run'[w].pc = IF run[w].last THEN "finishing" ELSE "fetching"
  BY WriteWrites
<1>2. run'[w].cursor = Covered(w) /\ row' = [there |-> TRUE, cursor |-> Covered(w)]
  BY WriteWrites
<1>3. \A v \in Runner \ {w} : run'[v] = run[v]
  BY WriteWrites
<1>4. src' = src /\ edit' = edit /\ calm' = calm
  BY WriteWrites
<1>5. run'[w].pc \in {"finishing", "fetching"} /\ Active(w)
  BY <1>1 DEF Active
<1>6. row'.cursor = Covered(w)
  BY <1>2
<1> QED
  BY <1>1, <1>2, <1>3, <1>4, <1>5, <1>6

\* After a write the page's cursor, and an edit's, cover what they claim.
LEMMA WriteCovers ==
  ASSUME CursorInv, NEW w \in Runner, Write(w), calm
  PROVE  \A n \in {Covered(w), edit} : Covers(n)'
<1>0. TypeOK /\ Bounded
  BY DEF CursorInv
<1>1. run[w].pc = "writing"
  BY DEF Write
<1>2. Sound(w)
  BY <1>1 DEF Sound, Reading
<1>3. PICK g, snap, list : g = run[w] /\ snap = Snap(g) /\ list = Listing(snap, g.since)
  OBVIOUS
<1>4. /\ ReadOK(g, snap, list) /\ snap \in [Record -> Time]
      /\ \A i \in 1..Len(list) : i <= (g.page + 1) * PageSize => Reflects(list[i], snap[list[i]])'
      /\ \A r \in Record : snap[r] # 0 /\ snap[r] < g.since => Reflects(r, snap[r])'
      /\ \A i \in 1..Len(list) : snap[list[i]] < Covered(w) => i <= (g.page + 1) * PageSize
      /\ \A r \in Record : src[r] # snap[r] => src[r] >= Covered(w)
      /\ \A r \in Paging(w) : g.seen[r] = snap[r]
  BY <1>2, <1>3, WriteBrings
<1>5. PICK n \in Time : n = Covered(w)
  BY <1>0, PagesAreTyped
<1>6. UNCHANGED <<src, edit>> /\ n \in Int /\ edit \in Int /\ g.page \in Nat /\ g.since \in Time
  <2>1. UNCHANGED <<src, edit>>
    BY <1>0, WriteMovesCursors
  <2>2. edit \in Int /\ run[w].page \in Nat /\ run[w].since \in Time
    BY <1>0, SnapsAreTyped
  <2>3. n \in Int
    BY <1>5, SyncAssumption DEF Time
  <2> QED
    BY <1>3, <2>1, <2>2, <2>3
<1> DEFINE K == {r \in Record : Reflects(r, snap[r])'}
           m == (g.page + 1) * PageSize
<1>7. m \in Nat /\ \A i \in 1..Len(list) : list[i] \in Record
  <2>1. m \in Nat
    BY <1>6, SyncAssumption
  <2>2. \A i \in 1..Len(list) : list[i] \in Record
    BY <1>3, <1>4, ListedAreDue
  <2> QED
    BY <2>1, <2>2
<1>8. /\ \A r \in Record : snap[r] # 0 /\ snap[r] < g.since => r \in K
      /\ \A i \in 1..Len(list) : i <= m => list[i] \in K
      /\ \A i \in 1..Len(list) : snap[list[i]] < n => i <= m
  BY <1>4, <1>5, <1>7
<1> HIDE DEF K, m
<1>9. \A r \in Record : snap[r] # 0 /\ snap[r] < n => r \in K
  <2>1. PICK s \in Time : s = g.since
    BY <1>6
  <2>2. /\ \A r \in Record : snap[r] # 0 /\ snap[r] < s => r \in K
        /\ \A i \in 1..Len(Listing(snap, s)) : i <= m => Listing(snap, s)[i] \in K
        /\ \A i \in 1..Len(Listing(snap, s)) : snap[Listing(snap, s)[i]] < n => i <= m
    BY <1>3, <1>8, <2>1
  <2>3. snap \in [Record -> Time] /\ n \in Int /\ m \in Nat
    BY <1>4, <1>6, <1>7
  <2> QED
    BY <2>2, <2>3, NothingLeft
<1>10. Covers(n)'
  <2> SUFFICES ASSUME NEW r \in Record, src'[r] # 0, src'[r] < n
               PROVE  Reflects(r, src[r])'
    BY DEF Covers
  <2>1. src[r] = snap[r]
    <3>1. src[r] \in Int
      BY <1>0, SyncAssumption DEF TypeOK, Time
    <3> QED BY <1>4, <1>5, <1>6, <3>1
  <2>2. Reflects(r, snap[r])'
    BY <1>6, <1>9, <2>1 DEF K
  <2>3. src'[r] = snap[r]
    BY <1>6, <2>1
  <2> QED
    BY <2>2, <2>3 DEF Reflects, Stands
<1>11. PICK e \in Int : e = edit
  BY <1>6
<1>12. Covers(e)'
  <2>1. Covers(e)
    BY <1>11 DEF CursorInv, CalmCovers, Cursors
  <2>2. Planned(run[w]) /\ \A r \in Record : src[r] # snap[r] => src[r] >= e
    BY <1>3, <1>4, <1>11 DEF ReadOK, Moved
  <2> QED
    BY <1>0, <1>3, <1>4, <2>1, <2>2, WriteKeepsCovers
<1> QED
  BY <1>5, <1>10, <1>11, <1>12

\* Every step keeps the cursors covering what they claim.
LEMMA StepCovers ==
  ASSUME CursorInv, [Next]_vars
  PROVE  CalmCovers'
<1>0. TypeOK /\ Bounded /\ OneActive /\ CalmCovers
  BY DEF CursorInv
<1> SUFFICES ASSUME calm', NEW n \in Cursors'
             PROVE  Covers(n)'
  BY DEF CalmCovers
<1>1. \/ n \in {row'.cursor, edit'}
      \/ \E v \in Runner : run'[v].pc # "idle" /\ n = run'[v].cursor
  BY DEF Cursors, Active
<1>2. /\ row.cursor \in Cursors /\ edit \in Cursors
      /\ \A v \in Runner : run[v].pc # "idle" => run[v].cursor \in Cursors
  BY DEF Cursors, Active
<1>3. ASSUME UNCHANGED <<src, ref, skipped>>, calm, n \in Cursors
      PROVE  Covers(n)'
  <2>1. Covers(n)
    BY <1>0, <1>3 DEF CalmCovers
  <2> QED
    BY <1>3, <2>1, SameReflects
<1>4. ASSUME NEW w \in Runner, NEW full \in BOOLEAN, Begin(w, full)
      PROVE  Covers(n)'
  <2>1. /\ UNCHANGED <<src, row, edit, ref, skipped>>
        /\ calm /\ \A v \in Runner \ {w} : run[v].pc = "idle"
    BY <1>4 DEF Begin, Alone, Active
  <2>2. run'[w].cursor = row.cursor /\ \A v \in Runner \ {w} : run'[v].pc = run[v].pc
    BY <1>0, <1>4, BeginBegins, DisturbedAreAlike DEF Begun, Alike
  <2>3. n \in Cursors
    BY <1>1, <1>2, <2>1, <2>2
  <2> QED
    BY <1>3, <2>1, <2>3
<1>5. ASSUME NEW w \in Runner, Fetch(w) \/ (\E bad \in SUBSET Paging(w) : Decide(w, bad))
      PROVE  Covers(n)'
  <2>1. /\ UNCHANGED <<src, row, edit, ref, skipped, calm>>
        /\ \A v \in Runner : run'[v].cursor = run[v].cursor /\ run[w].pc # "idle"
        /\ \A v \in Runner \ {w} : run'[v] = run[v]
    <3>1. /\ UNCHANGED <<src, row, edit, ref, skipped, calm>>
          /\ \A v \in Runner \ {w} : run'[v] = run[v]
      BY <1>0, <1>5, ReadsMoveNoCursor
    <3>2. \A v \in Runner : run'[v].cursor = run[v].cursor
      BY <1>0, <1>5, ReadsMoveNoCursor
    <3>3. run[w].pc # "idle"
      BY <1>0, <1>5, ReadsMoveNoCursor DEF Active
    <3> QED
      BY <3>1, <3>2, <3>3
  <2>2. n \in Cursors
    BY <1>1, <1>2, <2>1
  <2> QED
    BY <1>3, <2>1, <2>2
<1>6. ASSUME NEW w \in Runner, Write(w)
      PROVE  Covers(n)'
  <2>1. /\ row'.cursor = Covered(w) /\ edit' = edit /\ calm' = calm
        /\ run'[w].cursor = Covered(w) /\ Active(w)
        /\ \A v \in Runner \ {w} : run'[v] = run[v]
    BY <1>0, <1>6, WriteMovesCursors
  <2>2. \A v \in Runner \ {w} : ~Active(v)
    BY <1>0, <2>1, OnlyOne
  <2>3. n \in {Covered(w), edit}
    BY <1>1, <2>1, <2>2 DEF Active
  <2> QED
    BY <1>6, <2>1, <2>3, WriteCovers
<1>7. ASSUME NEW w \in Runner, Ends(w)
      PROVE  Covers(n)'
  <2>1. /\ UNCHANGED <<src, edit, ref, skipped>> /\ Active(w)
        /\ row'.cursor \in {row.cursor, run[w].cursor}
        /\ \A v \in Runner \ {w} : run'[v] = run[v]
        /\ run'[w].pc \in {"failing", "idle"}
        /\ run'[w].pc = "failing" => run'[w].cursor = run[w].cursor
        /\ calm \/ Finish(w)
    BY <1>0, <1>7, EndsEnd
  <2>2. CASE calm
    <3>1. n \in Cursors
      BY <1>1, <1>2, <2>1 DEF Active
    <3> QED
      BY <1>3, <2>1, <2>2, <3>1
  <2>3. CASE ~calm
    <3>1. /\ Finish(w) /\ run[w].pc = "finishing" /\ run[w].full /\ run[w].alone
          /\ run' = [run EXCEPT ![w] = Idle] /\ row' = [there |-> TRUE, cursor |-> run[w].cursor]
      BY <2>1, <2>3 DEF Finish, Stored
    <3>2. Sound(w)
      BY <3>1 DEF Sound, Reading
    <3>3. \A v \in Runner \ {w} : ~Active(v)
      BY <1>0, <2>1, <3>1, OnlyOne
    <3>4. run'[w].pc = "idle"
      BY <1>0, <3>1 DEF Idle, TypeOK
    <3>5. n \in {run[w].cursor, edit}
      BY <1>1, <2>1, <3>1, <3>3, <3>4 DEF Active
    <3>6. Covers(n)
      BY <3>1, <3>2, <3>5, FinishedHasAll
    <3> QED
      BY <2>1, <3>6, SameReflects
  <2> QED
    BY <2>2, <2>3
<1>8. CASE Elsewhere
  <2>1. /\ UNCHANGED <<src, ref, skipped, calm>>
        /\ row'.cursor \in {row.cursor, 0, edit} /\ edit' \in {edit, -1, row.cursor}
        /\ \A v \in Runner : run'[v].pc = run[v].pc /\ run'[v].cursor = run[v].cursor
    BY <1>0, <1>8, OthersMove DEF Alike
  <2>2. n \in Cursors \/ n \in {0, -1}
    BY <1>1, <1>2, <2>1
  <2>3. n \in {0, -1} => Covers(n)
    BY <1>0, NothingIsCovered
  <2> QED
    BY <1>3, <2>1, <2>2, <2>3, SameReflects
<1>9. ASSUME NEW r \in Record, Change(r)
      PROVE  Covers(n)'
  <2>1. /\ src' = [src EXCEPT ![r] = now] /\ UNCHANGED <<now, row, ref, edit, skipped>> /\ calm
        /\ \A v \in Runner : run'[v].pc = run[v].pc /\ run'[v].cursor = run[v].cursor
    BY <1>0, <1>9, ChangeChanges DEF Alike
  <2>2. n \in Cursors
    BY <1>1, <1>2, <2>1
  <2>3. n \in Int /\ n <= now /\ now \in Int /\ Covers(n)
    BY <1>0, <2>1, <2>2, CursorsAreTimes, SyncAssumption DEF TypeOK, Time, CalmCovers
  <2> SUFFICES ASSUME NEW q \in Record, src'[q] # 0, src'[q] < n
               PROVE  Reflects(q, src[q])'
    BY DEF Covers
  <2>4. src \in [Record -> Time]
    BY <1>0 DEF TypeOK
  <2>5. q # r /\ src'[q] = src[q]
    BY <2>1, <2>3, <2>4
  <2>6. Reflects(q, src[q])
    BY <2>3, <2>5 DEF Covers
  <2> QED
    BY <2>1, <2>5, <2>6 DEF Reflects, Stands
<1> QED
  BY <1>4, <1>5, <1>6, <1>7, <1>8, <1>9, StepCases

-----------------------------------------------------------------------------
(* The cursor *)

\* At the start no cursor claims anything.
LEMMA InitCursor ==
  ASSUME Init
  PROVE  CursorInv
<1>1. TypeOK
  BY InitTypes
<1>2. /\ Idle.pc = "idle" /\ Idle.cursor = 0 /\ Idle.since = 0
      /\ Idle.seen = [r \in Record |-> 0]
  BY DEF Idle
<1>3. \A w \in Runner : run[w] = Idle /\ ~Active(w)
  BY <1>2 DEF Init, Active
<1>4. Bounded
  BY <1>2, <1>3 DEF Init, Bounded
<1>5. OneActive /\ Abreast
  BY <1>3 DEF OneActive, Abreast
<1>6. CalmCovers
  BY DEF Init, CalmCovers, Covers
<1>7. SoundRuns
  BY <1>2, <1>3 DEF SoundRuns, Sound, Reading
<1> QED
  BY <1>1, <1>4, <1>5, <1>6, <1>7 DEF CursorInv

\* The invariant of the cursors holds throughout.
LEMMA SpecKeepsCursors == Spec => []CursorInv
<1>1. CursorInv /\ [Next]_vars => CursorInv'
  BY StepTypes, StepBounded, StepOneActive, StepCovers, StepAbreast, StepSound DEF CursorInv
<1> QED
  BY InitCursor, <1>1, PTL DEF Spec

\* However many runs fail, die or are refused, and whatever people and the source
\* do in between, no record is older than the stored cursor unless it was imported,
\* or left out by a decision of a page that was committed, as long as runs have not
\* disturbed each other, and again after a full refresh that was alone; on both
\* engines, for a source that is read at once and one that pages (advance in the
\* transaction of consume).  Who is told of the decision is not said here.
THEOREM NoRecordIsPassedOver == Spec => []NothingPassedOver
<1>1. CursorInv => NothingPassedOver
  BY DEF CursorInv, CalmCovers, Cursors, Covers, NothingPassedOver
<1> QED
  BY <1>1, SpecKeepsCursors, PTL

\* A run nobody disturbed accounts for all that the source held when it began, for
\* any page size and number of records: what it read itself is in tix, or among the
\* skipped of the result it returns and stores, and only what was older than where
\* it began rests on the decision of an earlier run (RunSync, consume, skip, finish).
THEOREM FinishedRunsAreComplete == Spec => []FinishedRunIsComplete
<1>1. CursorInv => FinishedRunIsComplete
  <2> SUFFICES ASSUME CursorInv, NEW w \in Runner,
                      run[w].pc = "finishing", run[w].alone, calm \/ run[w].full,
                      NEW r \in Record, run[w].began[r] # 0
               PROVE  \/ Stands(r, run[w].began[r]) \/ run[w].skips[r] >= run[w].began[r]
                      \/ run[w].began[r] < run[w].since /\ skipped[r] >= run[w].began[r]
    BY DEF FinishedRunIsComplete
  <2>0. TypeOK
    BY DEF CursorInv
  <2>1. Sound(w)
    BY DEF Sound, Reading
  <2>2. PICK snap : snap = Snap(run[w])
    OBVIOUS
  <2>3. /\ run[w].began[r] <= snap[r]
        /\ snap[r] # 0 => /\ Reflects(r, snap[r])
                          /\ snap[r] < run[w].since \/ Accounted(run[w], r, snap[r])
    BY <2>1, <2>2, FinishedHasAll
  <2>4. /\ run[w].began[r] \in Nat /\ snap[r] \in Nat /\ run[w].since \in Nat
        /\ run[w].skips[r] \in Nat /\ skipped[r] \in Nat /\ ref[r].ver \in Nat
    <3>1. run[w].began \in [Record -> Time] /\ snap \in [Record -> Time] /\ run[w].since \in Time
      BY <2>0, <2>2, SnapsAreTyped
    <3>2. run[w].skips[r] \in Time /\ skipped[r] \in Time /\ ref[r].ver \in Time
      BY <2>0 DEF TypeOK, Run
    <3>3. Time \subseteq Nat
      BY SyncAssumption DEF Time
    <3> QED
      BY <3>1, <3>2, <3>3
  <2>5. /\ Reflects(r, snap[r])
        /\ snap[r] < run[w].since \/ Accounted(run[w], r, snap[r])
    BY <2>3, <2>4
  <2> QED
    BY <2>3, <2>4, <2>5 DEF Reflects, Accounted, Stands
<1> QED
  BY <1>1, SpecKeepsCursors, PTL

\* While a run has the source to itself nobody but the operator moves the stored
\* cursor back, except a full refresh with the pages it has read again (advance,
\* finish, fail).
THEOREM CursorsFallOnPurpose == Spec => CursorFallsOnPurpose
<1> DEFINE Purpose ==
      calm /\ (\A w \in Runner : Active(w) => run[w].alone) /\ row'.cursor < row.cursor =>
        \/ edit # edit' \/ ~row'.there
        \/ \E w \in Runner : run[w].full /\ run[w].pc = "writing" /\ run'[w].pc # "writing"
<1>1. CursorInv /\ [Next]_vars => [Purpose]_vars
  <2> SUFFICES ASSUME CursorInv, [Next]_vars, calm,
                      \A w \in Runner : Active(w) => run[w].alone,
                      row'.cursor < row.cursor, edit' = edit, row'.there
               PROVE  \E w \in Runner : run[w].full /\ run[w].pc = "writing" /\ run'[w].pc # "writing"
    OBVIOUS
  <2>0. TypeOK /\ Abreast
    BY DEF CursorInv
  <2>1. row.cursor \in Int /\ row' # row
    BY <2>0, SyncAssumption DEF TypeOK, Time
  <2>2. ASSUME NEW w \in Runner, Write(w)
        PROVE  run[w].full /\ run[w].pc = "writing" /\ run'[w].pc # "writing"
    <3>1. /\ run[w].pc = "writing" /\ run'[w].pc \in {"finishing", "fetching"}
          /\ row'.cursor = Covered(w)
      BY <2>0, <2>2, WriteMovesCursors
    <3>2. Sound(w) /\ run[w].cursor = row.cursor
      BY <2>0, <3>1 DEF Sound, Reading, Abreast, Active
    <3>3. ~run[w].full => run[w].cursor <= Covered(w)
      BY <2>2, <3>2, WriteBrings
    <3>4. Covered(w) \in Int
      BY <2>0, PagesAreTyped, SyncAssumption DEF Time
    <3> QED
      BY <2>1, <3>1, <3>2, <3>3, <3>4
  <2>3. ASSUME NEW w \in Runner, Ends(w)
        PROVE  FALSE
    <3>1. Active(w) /\ row'.cursor \in {row.cursor, run[w].cursor}
      BY <2>0, <2>3, EndsEnd
    <3>2. run[w].cursor = row.cursor
      BY <2>0, <3>1 DEF Abreast
    <3> QED
      BY <2>1, <3>1, <3>2
  <2>4. ASSUME NEW w \in Runner,
               \/ \E full \in BOOLEAN : Begin(w, full)
               \/ Fetch(w) \/ \E bad \in SUBSET Paging(w) : Decide(w, bad)
        PROVE  FALSE
    <3>1. row' = row
      BY <2>4 DEF Begin, Fetch, Decide
    <3>2. row' # row
      BY <2>1
    <3> QED
      BY <3>1, <3>2
  <2>5. CASE Elsewhere \/ \E r \in Record : Change(r)
    <3>1. ~EditWrite
      BY DEF EditWrite
    <3>2. ~DeleteSyncSource
      <4>1. DeleteSyncSource => row' = [there |-> FALSE, cursor |-> 0]
        BY DEF DeleteSyncSource
      <4>2. DeleteSyncSource => row'.there = FALSE
        BY <4>1
      <4> QED
        BY <4>2
    <3>3. row' = row
      BY <2>5, <3>1, <3>2 DEF Elsewhere, EditRead, Tick, Keep, Change, vars
    <3> QED
      BY <2>1, <3>3
  <2> QED
    BY <2>2, <2>3, <2>4, <2>5, StepCases
<1> QED
  BY <1>1, SpecKeepsCursors, PTL DEF Spec, CursorFallsOnPurpose, Purpose
=============================================================================
