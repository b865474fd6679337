---------------------------- MODULE ExternalSync ----------------------------
(***************************************************************************)
(* The import of an external system's records: a run reads the source page *)
(* by page from a stored cursor, and commits each page with the cursor     *)
(* that covers it.                                                         *)
(*                                                                         *)
(* A source is a file, read once by a run, or a system that answers each   *)
(* page by offset, while its records go on changing.  A page is applied by *)
(* a transaction that reads what it needs first: on SQLite nobody writes   *)
(* until it ends, on PostgreSQL others commit before its writes.           *)
(***************************************************************************)
EXTENDS Integers, Sequences, SequencesExt

CONSTANTS
  Engine,    \* "sqlite" or "postgres"
  Records,   \* the records of the source are 1..Records
  Runner,    \* calls of RunSync that may be under way
  Paged,     \* the source pages by offset; otherwise it is a file
  PageSize,
  Touched,   \* bound: the records whose tasks people delete and restore
  Contended, \* bound: runs overlap only while the source holds no other record
  MaxTime,   \* bound on the source's clock
  MaxCopies  \* bound on the tasks one record is imported as

Record == 1..Records
Time == 0..MaxTime

ASSUME SyncAssumption ==
  /\ Engine \in {"sqlite", "postgres"}
  /\ Records \in Nat /\ MaxTime \in Nat \ {0} /\ MaxCopies \in Nat
  /\ PageSize \in Nat \ {0} /\ Paged \in BOOLEAN /\ Touched \cup Contended \subseteq Record

VARIABLES
  now,       \* the source's clock
  src,       \* when each record was updated at the source, 0 before it exists
  row,       \* the stored source: whether it is there, and its cursor
  task,      \* the tasks each record was imported as
  ref,       \* per record, the external reference: which task, what version
  run,       \* the calls of RunSync
  edit,      \* the cursor an edit of the source has read, -1 without one
  skipped,   \* the version of each record a committed page has left out since it was
             \* last imported, whoever learns of it (history variable)
  calm       \* no run has been disturbed since the last full refresh that was not

vars == <<now, src, row, task, ref, run, edit, skipped, calm>>

Idle ==
  [pc |-> "idle", full |-> FALSE, since |-> 0, cursor |-> 0, page |-> 0, last |-> FALSE,
   seen |-> [r \in Record |-> 0], batch |-> <<>>, plan |-> [r \in Record |-> "none"],
   skips |-> [r \in Record |-> 0], began |-> [r \in Record |-> 0], alone |-> FALSE]

\* since, page: what the next fetch asks for; cursor: what is stored with the
\* next page; seen: the records of a file as read, or as last answered; plan:
\* what is decided for the page's records; skips: the version of each record the
\* run's result counts as skipped; began, alone: the source when the run began,
\* and whether nothing has disturbed it.
Run == [pc: {"idle", "fetching", "applying", "writing", "finishing", "failing"},
        full: BOOLEAN, since: Time, cursor: Time, page: Nat, last: BOOLEAN,
        seen: [Record -> Time], batch: Seq(Record),
        plan: [Record -> {"none", "create", "recreate", "update", "skip", "same"}],
        skips: [Record -> Time], began: [Record -> Time], alone: BOOLEAN]

\* The state of the rows and of the calls.
TypeOK ==
  /\ now \in Time /\ src \in [Record -> Time]
  /\ row \in [there: BOOLEAN, cursor: Time]
  /\ task \in [Record -> Seq({"live", "trash", "purged"})]
  /\ ref \in [Record -> [copy: 0..MaxCopies, ver: Time]]
  /\ \A r \in Record : /\ ref[r].copy <= Len(task[r]) /\ Len(task[r]) <= MaxCopies
                       /\ ref[r].copy = 0 <=> task[r] = <<>>
  /\ run \in [Runner -> Run]
  /\ edit \in {-1} \cup Time /\ skipped \in [Record -> Time]
  /\ calm \in BOOLEAN

Init ==
  /\ now = 1 /\ src = [r \in Record |-> 0]
  /\ row = [there |-> FALSE, cursor |-> 0]
  /\ task = [r \in Record |-> <<>>] /\ ref = [r \in Record |-> [copy |-> 0, ver |-> 0]]
  /\ run = [w \in Runner |-> Idle]
  /\ edit = -1 /\ skipped = [r \in Record |-> 0]
  /\ calm = TRUE

Active(w) == run[w].pc # "idle"
Locked == Engine = "sqlite" /\ \E w \in Runner : run[w].pc = "writing"
Alone(w) == \A v \in Runner \ {w} : ~Active(v)
Others == {r \in Record \ Contended : src[r] # 0}
Disturbed == [w \in Runner |-> [run[w] EXCEPT !.alone = FALSE, !.began = Idle.began]]

-----------------------------------------------------------------------------
(* What a source answers *)

\* Mutant of Eligible: records updated at the very cursor count as covered.
EligibleAfter(seen, since) == {r \in Record : seen[r] > since}

\* The records a cursor has not covered: what was updated at it is read again.
Eligible(seen, since) == {r \in Record : seen[r] # 0 /\ seen[r] >= since}

Earlier(seen, a, b) == seen[a] < seen[b] \/ (seen[a] = seen[b] /\ a < b)

\* Oldest first: as many records stand before one as are earlier.
Listing(seen, since) ==
  LET due == Eligible(seen, since)
      Rank(r) == Cardinality({q \in due : Earlier(seen, q, r)})
  IN [i \in 1..Cardinality(due) |-> CHOOSE r \in due : Rank(r) = i - 1]

IsLast(listing, page) == (page + 1) * PageSize >= Len(listing)

\* The versions of a page's records, and nothing of the others.
Answered(seen, batch) == [r \in Record |-> IF r \in ToSet(batch) THEN seen[r] ELSE 0]

PageOf(listing, page) ==
  SubSeq(listing, page * PageSize + 1, Min({(page + 1) * PageSize, Len(listing)}))

-----------------------------------------------------------------------------
(* One call of RunSync *)

\* Mutant of Begin: a full refresh forgets the stored cursor.
BeginBlank(w, full) ==
  /\ ~Active(w) /\ row.there /\ (Alone(w) \/ Others = {})
  /\ run' = [Disturbed EXCEPT ![w] =
                [Idle EXCEPT !.pc = "fetching", !.full = full, !.alone = Alone(w),
                             !.began = IF Alone(w) THEN src ELSE Idle.began,
                             !.since = IF full THEN 0 ELSE row.cursor,
                             !.cursor = IF full THEN 0 ELSE row.cursor]]
  /\ calm' = (calm /\ Alone(w))
  /\ UNCHANGED <<now, src, row, task, ref, edit, skipped>>

\* The source is read; a full refresh starts from the beginning, with the
\* stored cursor left to be stored again.  Nothing keeps another run away.
Begin(w, full) ==
  /\ ~Active(w) /\ row.there /\ (Alone(w) \/ Others = {})
  /\ run' = [Disturbed EXCEPT ![w] =
                [Idle EXCEPT !.pc = "fetching", !.full = full, !.alone = Alone(w),
                             !.began = IF Alone(w) THEN src ELSE Idle.began,
                             !.since = IF full THEN 0 ELSE row.cursor,
                             !.cursor = row.cursor]]
  /\ calm' = (calm /\ Alone(w))
  /\ UNCHANGED <<now, src, row, task, ref, edit, skipped>>

\* A file is loaded by the first fetch of a run.
Fetch(w) ==
  /\ run[w].pc = "fetching"
  /\ LET seen == IF Paged \/ run[w].page = 0 THEN src ELSE run[w].seen
         listing == Listing(seen, run[w].since)
         batch == PageOf(listing, run[w].page)
     IN run' = [run EXCEPT ![w].pc = "applying", ![w].batch = batch,
                           ![w].seen = IF Paged THEN Answered(src, batch) ELSE seen,
                           ![w].last = IsLast(listing, run[w].page)]
  /\ UNCHANGED <<now, src, row, task, ref, edit, skipped, calm>>

\* All that a run which has failed still needs is its cursor: its result, and
\* what it has skipped, is lost with it.
Broken(w, cursor) ==
  [Idle EXCEPT !.pc = "failing", !.full = run[w].full, !.alone = run[w].alone, !.cursor = cursor]

\* The source fails after its retries, answers nonsense or never ends.
FetchFails(w) ==
  /\ run[w].pc = "fetching"
  /\ run' = [run EXCEPT ![w] = Broken(w, run[w].cursor)]
  /\ UNCHANGED <<now, src, row, task, ref, edit, skipped, calm>>

\* Mutant of Decision: a task in the trash is imported again.
DecisionAnew(r, ver) ==
  IF ref[r].copy = 0 THEN "create"
  ELSE IF task[r][ref[r].copy] # "live" THEN "recreate"
  ELSE IF ref[r].ver = ver THEN "same" ELSE "update"

\* What becomes of a record the mapping can map.
Decision(r, ver) ==
  IF ref[r].copy = 0 THEN "create"
  ELSE IF task[r][ref[r].copy] = "purged" THEN "recreate"
  ELSE IF task[r][ref[r].copy] = "trash" THEN "skip"
  ELSE IF ref[r].ver = ver THEN "same" ELSE "update"

Paging(w) == ToSet(run[w].batch)

\* The mapping refuses some records, or the parent they name closes a cycle.
Decide(w, bad) ==
  /\ run[w].pc = "applying" /\ ~Locked /\ bad \subseteq Paging(w)
  /\ run' = [run EXCEPT ![w].pc = "writing",
       ![w].plan = [r \in Record |->
                      IF r \in bad THEN "skip"
                      ELSE IF r \in Paging(w) THEN Decision(r, run[w].seen[r]) ELSE "none"]]
  /\ UNCHANGED <<now, src, row, task, ref, edit, skipped, calm>>

\* A task to be updated has been removed for good since.
Refused(w) ==
  \E r \in Record : run[w].plan[r] = "update" /\ task[r][ref[r].copy] = "purged"

\* The cursor that covers the page: the update of its last record.
Covered(w) ==
  IF run[w].batch = <<>> THEN run[w].cursor ELSE run[w].seen[Last(run[w].batch)]

\* The row is written whole, and inserted when it has gone.
Stored(cursor) == row' = [there |-> TRUE, cursor |-> cursor]

\* Mutant of Imported: only an update writes the reference.
ImportedByUpdate(w, r) == run[w].plan[r] \in {"recreate", "update"}

\* What a page writes, and what of it is new.
Imported(w, r) == run[w].plan[r] \in {"create", "recreate", "update"}

New(w, r) == run[w].plan[r] \in {"create", "recreate"}

\* Mutant of Noted: the result counts the skips of the last page alone.
NotedLast(w) ==
  [r \in Record |-> IF run[w].plan[r] = "skip" THEN run[w].seen[r] ELSE 0]

\* skip: what the run's result counts once the page is in.
Noted(w) ==
  [r \in Record |-> IF run[w].plan[r] = "skip" THEN run[w].seen[r] ELSE run[w].skips[r]]

\* A reference somebody has inserted since is taken over by PutExternalRef.  That
\* a record was skipped is noted in the run's own result, and nowhere else yet.
Write(w) ==
  /\ run[w].pc = "writing" /\ ~Refused(w)
  /\ \A r \in Record : New(w, r) => Len(task[r]) < MaxCopies
  /\ task' = [r \in Record |-> IF New(w, r) THEN Append(task[r], "live") ELSE task[r]]
  /\ ref' = [r \in Record |->
       IF Imported(w, r)
       THEN [copy |-> IF New(w, r) THEN Len(task'[r]) ELSE ref[r].copy,
             ver |-> run[w].seen[r]]
       ELSE ref[r]]
  /\ skipped' = [r \in Record |->
       IF run[w].plan[r] = "skip" THEN run[w].seen[r]
       ELSE IF Imported(w, r) THEN 0 ELSE skipped[r]]
  /\ Stored(Covered(w))
  /\ run' = [run EXCEPT ![w].pc = IF run[w].last THEN "finishing" ELSE "fetching",
                        ![w].page = @ + 1, ![w].cursor = Covered(w),
                        ![w].plan = Idle.plan, ![w].batch = <<>>,
                        ![w].seen = IF Paged THEN Idle.seen ELSE @,
                        ![w].skips = Noted(w)]
  /\ UNCHANGED <<now, src, edit, calm>>

\* The page is rolled back before its cursor is reached.
WriteFails(w) ==
  /\ run[w].pc = "writing"
  /\ run' = [run EXCEPT ![w] = Broken(w, run[w].cursor)]
  /\ UNCHANGED <<now, src, row, task, ref, edit, skipped, calm>>

\* The page is rolled back after it: the run's own cursor has moved.
CommitFails(w) ==
  /\ run[w].pc = "writing"
  /\ run' = [run EXCEPT ![w] = Broken(w, Covered(w))]
  /\ calm' = FALSE
  /\ UNCHANGED <<now, src, row, task, ref, edit, skipped>>

\* The result is returned, and stored with the audit entry, only here.
Finish(w) ==
  /\ run[w].pc = "finishing" /\ ~Locked
  /\ Stored(run[w].cursor)
  /\ calm' = (calm \/ (run[w].full /\ run[w].alone))
  /\ run' = [run EXCEPT ![w] = Idle]
  /\ UNCHANGED <<now, src, task, ref, edit, skipped>>

\* The outcome is stored too, or that fails as well; or the process dies.
Fail(w) ==
  /\ run[w].pc = "failing" /\ ~Locked
  /\ Stored(run[w].cursor)
  /\ run' = [run EXCEPT ![w] = Idle]
  /\ UNCHANGED <<now, src, task, ref, edit, skipped, calm>>

Die(w) ==
  /\ Active(w)
  /\ run' = [run EXCEPT ![w] = Idle]
  /\ UNCHANGED <<now, src, row, task, ref, edit, skipped, calm>>

-----------------------------------------------------------------------------
(* The others *)

\* PutSyncSource: the stored source is read, and written in a transaction of
\* its own with the cursor that was read.
EditRead ==
  /\ edit = -1
  /\ edit' = row.cursor
  /\ UNCHANGED <<now, src, row, task, ref, run, skipped, calm>>

EditWrite ==
  /\ edit # -1 /\ ~Locked
  /\ Stored(edit) /\ edit' = -1
  /\ run' = Disturbed
  /\ UNCHANGED <<now, src, task, ref, skipped, calm>>

DeleteSyncSource ==
  /\ row.there /\ ~Locked
  /\ row' = [there |-> FALSE, cursor |-> 0]
  /\ run' = Disturbed
  /\ UNCHANGED <<now, src, task, ref, edit, skipped, calm>>

\* A person deletes a task, restores it or has it removed for good.
Keep(r, k, from, to) ==
  /\ task[r][k] = from /\ ~Locked
  /\ task' = [task EXCEPT ![r][k] = to]
  /\ UNCHANGED <<now, src, row, ref, run, edit, skipped, calm>>

\* The source changes.  What a system pages by offset moves under the run.
Change(r) ==
  /\ r \in Contended \/ \E w \in Runner : Alone(w)
  /\ src' = [src EXCEPT ![r] = now]
  /\ IF Paged THEN /\ run' = Disturbed
                   /\ calm' = (calm /\ \A w \in Runner : ~Active(w))
              ELSE UNCHANGED <<run, calm>>
  /\ UNCHANGED <<now, row, task, ref, edit, skipped>>

Tick ==
  /\ now < MaxTime /\ now' = now + 1
  /\ UNCHANGED <<src, row, task, ref, run, edit, skipped, calm>>

-----------------------------------------------------------------------------

RunStep(w) ==
  \/ \E full \in BOOLEAN : Begin(w, full)
  \/ Fetch(w) \/ FetchFails(w)
  \/ \E bad \in SUBSET Paging(w) : Decide(w, bad)
  \/ Write(w) \/ WriteFails(w) \/ CommitFails(w)
  \/ Finish(w) \/ Fail(w) \/ Die(w)

Next ==
  \/ \E w \in Runner : RunStep(w)
  \/ EditRead \/ EditWrite \/ DeleteSyncSource
  \/ \E r \in Touched : \E k \in DOMAIN task[r] :
       \/ Keep(r, k, "live", "trash") \/ Keep(r, k, "trash", "live")
       \/ Keep(r, k, "live", "purged") \/ Keep(r, k, "trash", "purged")
  \/ \E r \in Record : Change(r)
  \/ Tick

Spec == Init /\ [][Next]_vars

-----------------------------------------------------------------------------
(* What an import promises *)

\* The record stands in tix as of that update.  A task removed for good stands
\* for what it last held.
Stands(r, at) == ref[r].copy # 0 /\ ref[r].ver >= at

\* It does, or a page that was committed has left it out.
Reflects(r, at) == Stands(r, at) \/ skipped[r] >= at

\* However many runs fail, die or are refused, no record is older than the
\* stored cursor unless it was imported, or left out by a decision of a page
\* that was committed; once runs have disturbed each other, this holds again
\* after a full refresh that was alone.  Nobody need have heard of the decision:
\* it is lost with the result of a run that fails later.
NothingPassedOver ==
  calm /\ row.there =>
    \A r \in Record : src[r] # 0 /\ src[r] < row.cursor => Reflects(r, src[r])

\* A record becomes one task, whoever imports it at the same time, unless the
\* task it became was removed for good.
ImportedOnce ==
  \A r \in Record : (\A k \in DOMAIN task[r] : task[r][k] # "purged") => Len(task[r]) <= 1

\* A run nobody disturbed, with every page committed, accounts for all that the
\* source held when it began: what it read itself is in, or counted as skipped in
\* the result it returns; only what was older than where it began may have been
\* left out by a run before it.  A full refresh reads everything itself.
FinishedRunIsComplete ==
  \A w \in Runner :
    LET g == run[w] IN
    g.pc = "finishing" /\ g.alone /\ (calm \/ g.full) =>
      \A r \in Record :
        g.began[r] # 0 => \/ Stands(r, g.began[r]) \/ g.skips[r] >= g.began[r]
                          \/ g.began[r] < g.since /\ skipped[r] >= g.began[r]

\* Nobody but the operator moves the stored cursor back while a run has the
\* source to itself, except a full refresh with the pages it has read again:
\* one that fails before its first leaves the cursor where it was.
CursorFallsOnPurpose ==
  [][calm /\ (\A w \in Runner : Active(w) => run[w].alone) /\ row'.cursor < row.cursor =>
       \/ edit # edit' \/ ~row'.there
       \/ \E w \in Runner : run[w].full /\ run[w].pc = "writing" /\ run'[w].pc # "writing"]_vars
=============================================================================
