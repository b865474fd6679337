------------------------------ MODULE TaskGraph ------------------------------
(***************************************************************************)
(* The two graphs over the tasks of a tenant: who is whose parent, and who *)
(* waits for whom.                                                         *)
(*                                                                         *)
(* A call loads and walks first and writes afterwards, in one transaction. *)
(* The walks are recursive queries and loops in the code; here a walk is   *)
(* the smallest set that holds its start and is closed under the edges.    *)
(* The loop of an import is here a second time, as the recursion it is, to *)
(* be compared with the set.                                               *)
(***************************************************************************)
EXTENDS FiniteSets

CONSTANTS
  Task,    \* the identifiers of tasks
  Client,  \* those who call
  Engine,  \* "sqlite", one writer at a time, or "postgres", READ COMMITTED
  Root     \* what a task without a parent has in its place

ASSUME RootAssumption == Root \notin Task
ASSUME EngineAssumption == Engine \in {"sqlite", "postgres"}

VARIABLES
  state,   \* per task, "none" (no row), "live" or "trash" (deleted_at is set)
  parent,  \* per task, parent_id
  deps,    \* the rows of task_deps: <<t, d>> when t waits for d
  done,    \* the tasks whose completed_at is set
  req      \* per client, the call it has checked and is about to write

vars == <<state, parent, deps, done, req>>

-----------------------------------------------------------------------------
(* Walks *)

Relation == SUBSET (Task \X Task)

Closed(E, S) == \A e \in E : e[1] \in S => e[2] \in S

\* t and everything that following the edges from it leads to.
Chain(E, t) == {u \in Task : \A S \in SUBSET Task : t \in S /\ Closed(E, S) => u \in S}

\* There is no way round: every set of tasks has one that leads out of it.
Acyclic(E) == \A S \in (SUBSET Task) \ {{}} : \E x \in S : \A y \in S : <<x, y>> \notin E

Edges(p) == {e \in Task \X Task : p[e[1]] = e[2]}

\* The downward edges a listing of children follows: those to live tasks.
LiveEdges == {e \in Task \X Task : parent[e[2]] = e[1] /\ state[e[2]] = "live"}

Exists(t) == state[t] # "none"

\* Mutant of PathExists: the probe asks for a direct edge only.
PathExistsDirect(from, to) == <<from, to>> \in deps

\* The recursive probe: one edge or more, through deleted tasks as well.
PathExists(from, to) == \E d \in Task : <<from, d>> \in deps /\ to \in Chain(deps, d)

Linkable(t, d) == t # d /\ ~PathExists(d, t)

\* Mutant of ClosesCycle: the walk looks at the new parent and no further.
ClosesCycleDirectly(p, t, q) == t = q

\* The walk up from q, in the links p, meets t or comes back to itself.
ClosesCycle(p, t, q) ==
  t \in Chain(Edges(p), q) \/ \A u \in Chain(Edges(p), q) : p[u] # Root

\* The same walk as the loop makes it, from cur, having seen some tasks.
Walk(p, t, q) ==
  LET up[seen \in SUBSET Task] ==
        [cur \in Task \cup {Root} |->
           cur # Root /\ (cur \in seen \/ up[seen \cup {cur}][p[cur]])]
  IN up[{t}][q]

\* Mutant of Subtree: the children, and not theirs.
SubtreeShallow(t) == {t} \cup {u \in Task : <<t, u>> \in LiveEdges}

\* deleteOrder: the task and its live descendants.
Subtree(t) == Chain(LiveEdges, t)

-----------------------------------------------------------------------------
(* Calls *)

Idle == [op |-> "idle"]
Link == UNION {[S -> Task] : S \in SUBSET Task}

Call == [op: {"idle"}]
        \cup [op: {"create"}, task: Task, under: Task \cup {Root}, on: SUBSET Task]
        \cup [op: {"update"}, task: Task, under: Task \cup {Root}]
        \cup [op: {"link"}, task: Task, on: Task]
        \cup [op: {"delete"}, order: SUBSET Task, hard: BOOLEAN]
        \cup [op: {"import"}, links: Link, accepted: SUBSET Task]

\* The types, and the foreign keys: parents and both ends of an edge have rows.
TypeOK ==
  /\ state \in [Task -> {"none", "live", "trash"}]
  /\ parent \in [Task -> Task \cup {Root}]
  /\ deps \in Relation
  /\ done \subseteq {t \in Task : Exists(t)}
  /\ req \in [Client -> Call]
  /\ \A t \in Task : parent[t] # Root => Exists(t) /\ Exists(parent[t])
  /\ \A e \in deps : Exists(e[1]) /\ Exists(e[2])

Init ==
  /\ state = [t \in Task |-> "none"]
  /\ parent = [t \in Task |-> Root]
  /\ deps = {} /\ done = {}
  /\ req = [c \in Client |-> Idle]

\* Mutant of Alone: the single writer begins without taking the write lock.
AloneDeferred == TRUE

\* BEGIN IMMEDIATE: one transaction at a time on the single writer.
Alone == Engine = "sqlite" => \A c \in Client : req[c] = Idle

Open(c, call) ==
  /\ req[c] = Idle /\ Alone
  /\ req' = [req EXCEPT ![c] = call]
  /\ UNCHANGED <<state, parent, deps, done>>

\* A refusal, an error or a crash: nothing is written.
Abort(c) ==
  /\ req[c] # Idle
  /\ req' = [req EXCEPT ![c] = Idle]
  /\ UNCHANGED <<state, parent, deps, done>>

\* A task is created under a parent that need only exist, and waits for tasks
\* that need only exist.  A copy, an instance of a template, the successor of a
\* recurring task and an imported or synchronised row are created so too.
CheckCreate(c, t) ==
  /\ ~Exists(t)
  /\ \E q \in Task \cup {Root}, on \in SUBSET {d \in Task : Exists(d)} :
       /\ q # Root => Exists(q)
       /\ \A d \in on : Linkable(t, d)
       /\ Open(c, [op |-> "create", task |-> t, under |-> q, on |-> on])

\* An edit writes back the parent it loaded; a move writes another, or none.
CheckUpdate(c, t) ==
  /\ state[t] = "live"
  /\ \E q \in {Root, parent[t]} \cup {u \in Task : Exists(u) /\ ~ClosesCycle(parent, t, u)} :
       Open(c, [op |-> "update", task |-> t, under |-> q])

CheckLink(c, t, d) ==
  /\ Exists(t) /\ Exists(d)
  /\ Linkable(t, d)
  /\ Open(c, [op |-> "link", task |-> t, on |-> d])

\* Without cascade a task with live children is refused, which is an Abort.
CheckDelete(c, t) ==
  /\ state[t] = "live"
  /\ \E hard \in BOOLEAN : Open(c, [op |-> "delete", order |-> Subtree(t), hard |-> hard])

\* Mutant of Overlay: each link is judged by the stored links alone.
OverlayStored(p, links) == p

\* The parents as an import means to leave them: its links over the stored.
Overlay(p, links) == [t \in Task |-> IF t \in DOMAIN links THEN links[t] ELSE p[t]]

\* An import links the tasks it wrote in one go at its end, and judges each
\* link with all the others in place, those it rejects included.
Sound(links) == {t \in DOMAIN links : ~ClosesCycle(Overlay(parent, links), t, links[t])}

CheckImport(c) ==
  \E S \in SUBSET {t \in Task : Exists(t)} : \E links \in [S -> {t \in Task : Exists(t)}] :
    /\ S # {} /\ \A t \in S : links[t] # t
    /\ Open(c, [op |-> "import", links |-> links, accepted |-> Sound(links)])

-----------------------------------------------------------------------------
(* Writes *)

Done(c) == req' = [req EXCEPT ![c] = Idle]

WriteCreate(c) ==
  /\ req[c].op = "create"
  /\ LET t == req[c].task  q == req[c].under  on == req[c].on
     IN /\ ~Exists(t)
        /\ q # Root => Exists(q)
        /\ \A d \in on : Exists(d)
        /\ state' = [state EXCEPT ![t] = "live"]
        /\ parent' = [parent EXCEPT ![t] = q]
        /\ deps' = deps \cup {<<t, d>> : d \in on}
        /\ done' \in {done, done \cup {t}}
  /\ Done(c)

\* The statement names the row by its identifier, whatever its state by now.
\* A transition, and a sync that finds the task finished, set completed_at too.
WriteUpdate(c) ==
  /\ req[c].op = "update"
  /\ LET t == req[c].task  q == req[c].under
     IN /\ Exists(t)
        /\ q # Root => Exists(q)
        /\ parent' = [parent EXCEPT ![t] = q]
        /\ done' \in {done \ {t}, done \cup {t}}
  /\ UNCHANGED <<state, deps>>
  /\ Done(c)

WriteLink(c) ==
  /\ req[c].op = "link"
  /\ LET t == req[c].task  d == req[c].on
     IN /\ Exists(t) /\ Exists(d)
        /\ <<t, d>> \notin deps
        /\ deps' = deps \cup {<<t, d>>}
  /\ UNCHANGED <<state, parent, done>>
  /\ Done(c)

\* The rows go, and with them their dependencies (ON DELETE CASCADE) and their
\* place as a parent (ON DELETE SET NULL).
Remove(gone) ==
  /\ state' = [t \in Task |-> IF t \in gone THEN "none" ELSE state[t]]
  /\ parent' = [t \in Task |-> IF t \in gone \/ parent[t] \in gone THEN Root ELSE parent[t]]
  /\ deps' = {e \in deps : e[1] \notin gone /\ e[2] \notin gone}
  /\ done' = done \ gone

Trash(S) ==
  /\ state' = [t \in Task |-> IF t \in S THEN "trash" ELSE state[t]]
  /\ UNCHANGED <<parent, deps, done>>

\* A soft delete that finds a row of its order deleted rolls back.
WriteDelete(c) ==
  /\ req[c].op = "delete"
  /\ \/ /\ req[c].hard
        /\ \A t \in req[c].order : Exists(t)
        /\ Remove(req[c].order)
     \/ /\ ~req[c].hard
        /\ \A t \in req[c].order : state[t] = "live"
        /\ Trash(req[c].order)
  /\ Done(c)

WriteImport(c) ==
  /\ req[c].op = "import"
  /\ \A t \in req[c].accepted : Exists(t) /\ Exists(req[c].links[t])
  /\ parent' = [t \in Task |-> IF t \in req[c].accepted THEN req[c].links[t] ELSE parent[t]]
  /\ UNCHANGED <<state, deps, done>>
  /\ Done(c)

-----------------------------------------------------------------------------
(* Calls that are one conditional statement *)

RemoveDependency(t, d) ==
  /\ Alone /\ state[t] = "live"
  /\ <<t, d>> \in deps /\ deps' = deps \ {<<t, d>>}
  /\ UNCHANGED <<state, parent, done, req>>

RestoreTask(t) ==
  /\ Alone /\ state[t] = "trash"
  /\ state' = [state EXCEPT ![t] = "live"]
  /\ UNCHANGED <<parent, deps, done, req>>

\* An import that finds the task in the trash, older than the snapshot, or one
\* that differs from it: the row is rewritten without a parent.
Rewrite(t) ==
  /\ Alone /\ Exists(t)
  /\ state' = [state EXCEPT ![t] = "live"]
  /\ parent' = [parent EXCEPT ![t] = Root]
  /\ done' \in {done \ {t}, done \cup {t}}
  /\ UNCHANGED <<deps, req>>

NoLiveChild(t) == \A u \in Task : parent[u] = t => state[u] # "live"

\* Housekeeping moves a finished task to the trash, and empties it.
TrashFinished(t) ==
  /\ Alone /\ state[t] = "live" /\ t \in done /\ NoLiveChild(t)
  /\ Trash({t}) /\ UNCHANGED req

PurgeTrashed(t) ==
  /\ Alone /\ state[t] = "trash"
  /\ Remove({t}) /\ UNCHANGED req

\* An import deletes what its snapshot calls deleted, and, replacing, what the
\* snapshot does not have; neither looks at the children.
Tombstone(t) ==
  /\ Alone /\ state[t] = "live"
  /\ Trash({t}) /\ UNCHANGED req

RemoveAbsent(t) ==
  /\ Alone /\ state[t] = "live"
  /\ Remove({t}) /\ UNCHANGED req

-----------------------------------------------------------------------------

Check(c) ==
  \/ CheckImport(c)
  \/ \E t \in Task : CheckCreate(c, t) \/ CheckUpdate(c, t) \/ CheckDelete(c, t)
  \/ \E t, d \in Task : CheckLink(c, t, d)

Write(c) ==
  WriteCreate(c) \/ WriteUpdate(c) \/ WriteLink(c) \/ WriteDelete(c) \/ WriteImport(c)

Next ==
  \/ \E c \in Client : Check(c) \/ Write(c) \/ Abort(c)
  \/ \E t, d \in Task : RemoveDependency(t, d)
  \/ \E t \in Task : RestoreTask(t) \/ Rewrite(t) \/ TrashFinished(t)
                     \/ PurgeTrashed(t) \/ Tombstone(t) \/ RemoveAbsent(t)

Spec == Init /\ [][Next]_vars

-----------------------------------------------------------------------------
(* What keeps the graphs usable *)

\* No task is its own ancestor, through moves, imports that reshape many tasks
\* at once, and tasks deleted and restored in the middle of a chain.
NoParentCycle == Acyclic(Edges(parent))

\* No task waits for itself, however many edges round and whatever of the way
\* round lies in the trash, from where it may be restored.
NoDependencyCycle == Acyclic(deps)

\* The deadlock this is for: while any live task is unfinished, one of them
\* waits for no other live unfinished task, so a worker can claim it.
Unfinished == {t \in Task : state[t] = "live" /\ t \notin done}
SomeTaskCanStart ==
  Unfinished # {} => \E t \in Unfinished : \A d \in Unfinished : <<t, d>> \notin deps

\* A delete, and the rule for finished tasks, takes no live parent from a task
\* that stays live, though the tree may grow until the delete is written.
DeleteOrphansNobody ==
  [][(\E c \in Client : WriteDelete(c)) \/ (\E t \in Task : TrashFinished(t))
     => \A u \in Task :
          /\ state[u] = "live" /\ state'[u] = "live"
          /\ parent[u] # Root /\ state[parent[u]] = "live"
          => state'[parent[u]] = "live"]_vars

\* An import whose links make a sound hierarchy is linked whole, in whatever
\* order its links come and however the stored links run against it.
SoundImportIsWhole ==
  \A c \in Client : req[c].op = "import" =>
    (Acyclic(Edges(Overlay(parent, req[c].links))) => req[c].accepted = DOMAIN req[c].links)

\* The loop that walks up the links of an import, sound or not, ends, and finds
\* a cycle exactly when the new link would lie on one or lead into one.
WalkFindsTheCycle ==
  \A c \in Client : req[c].op = "import" =>
    LET p == Overlay(parent, req[c].links)
    IN \A t \in DOMAIN req[c].links : Walk(p, t, p[t]) = ClosesCycle(p, t, p[t])
=============================================================================
