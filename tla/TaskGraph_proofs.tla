--------------------------- MODULE TaskGraph_proofs ---------------------------
(***************************************************************************)
(* That neither graph of TaskGraph ever has a way round, for any number of *)
(* tasks and clients on the single writer.  First what is true of walks in *)
(* any graph, then the reshaping of a forest by an import and the loop it  *)
(* judges its links by, then what holds on either engine, and last the     *)
(* invariant of the single writer.                                         *)
(***************************************************************************)
EXTENDS TaskGraph, FiniteSetTheorems, TLAPS

-----------------------------------------------------------------------------
(* Walks *)

\* A set is closed when each edge that starts in it ends in it.
LEMMA ClosedPairs ==
  ASSUME NEW E \in Relation, NEW S
  PROVE  Closed(E, S) <=> \A x, y \in Task : <<x, y>> \in E /\ x \in S => y \in S
<1>1. \A e \in E : e[1] \in Task /\ e[2] \in Task /\ e = <<e[1], e[2]>>
  BY DEF Relation
<1> QED  BY <1>1 DEF Closed

\* One relation is part of another when its pairs are.
LEMMA PairsOf ==
  ASSUME NEW E \in Relation, NEW F, \A x, y \in Task : <<x, y>> \in E => <<x, y>> \in F
  PROVE  E \subseteq F
<1>1. \A e \in E : e[1] \in Task /\ e[2] \in Task /\ e = <<e[1], e[2]>>
  BY DEF Relation
<1> QED  BY <1>1

\* A chain is a set of tasks with its start, closed under the edges.
LEMMA ChainIsClosed ==
  ASSUME NEW E \in Relation, NEW t \in Task
  PROVE  /\ Chain(E, t) \in SUBSET Task /\ t \in Chain(E, t)
         /\ \A x, y \in Task : <<x, y>> \in E /\ x \in Chain(E, t) => y \in Chain(E, t)
<1>1. Chain(E, t) \in SUBSET Task /\ t \in Chain(E, t)
  BY DEF Chain
<1>2. ASSUME NEW x \in Task, NEW y \in Task, <<x, y>> \in E, x \in Chain(E, t)
      PROVE  y \in Chain(E, t)
  <2>1. ASSUME NEW S \in SUBSET Task, t \in S, Closed(E, S)
        PROVE  y \in S
    <3>1. x \in S  BY <1>2, <2>1 DEF Chain
    <3> QED  BY <3>1, <1>2, <2>1, ClosedPairs
  <2> QED  BY <2>1 DEF Chain
<1> QED  BY <1>1, <1>2

\* It is the least such set.
LEMMA ChainIsLeast ==
  ASSUME NEW E \in Relation, NEW t \in Task, NEW S \in SUBSET Task, t \in S,
         \A x, y \in Task : <<x, y>> \in E /\ x \in S => y \in S
  PROVE  Chain(E, t) \subseteq S
<1>1. Closed(E, S)  BY ClosedPairs
<1> QED  BY <1>1 DEF Chain

\* Fewer edges make no cycle.
LEMMA FewerEdges ==
  ASSUME NEW E, NEW F, E \subseteq F, Acyclic(F)
  PROVE  Acyclic(E)
BY DEF Acyclic

\* An edge to a task that does not lead back makes no cycle.
LEMMA OneMoreEdge ==
  ASSUME NEW E \in Relation, NEW t \in Task, NEW d \in Task,
         Acyclic(E), t \notin Chain(E, d)
  PROVE  Acyclic(E \cup {<<t, d>>})
<1> SUFFICES ASSUME NEW S \in SUBSET Task, S # {}
             PROVE  \E x \in S : \A y \in S : <<x, y>> \notin E \cup {<<t, d>>}
  BY DEF Acyclic
<1> DEFINE K == S \cap Chain(E, d)
<1>1. CASE K = {}
  <2>1. PICK x \in S : \A y \in S : <<x, y>> \notin E  BY DEF Acyclic
  <2>2. d \notin S  BY <1>1, ChainIsClosed
  <2> QED  BY <2>1, <2>2
<1>2. CASE K # {}
  <2>1. PICK x \in K : \A y \in K : <<x, y>> \notin E  BY <1>2 DEF Acyclic
  <2>2. ASSUME NEW y \in S  PROVE <<x, y>> \notin E \cup {<<t, d>>}
    <3>1. <<x, y>> # <<t, d>>  BY <2>1
    <3>2. <<x, y>> \in E => y \in K  BY <2>1, ChainIsClosed
    <3> QED  BY <3>1, <3>2, <2>1
  <2> QED  BY <2>1, <2>2
<1> QED  BY <1>1, <1>2

\* Edges from a task that nothing leads to make no cycle.
LEMMA NewTaskEdges ==
  ASSUME NEW E \in Relation, NEW t \in Task, NEW D \in SUBSET Task,
         Acyclic(E), t \notin D, \A x \in Task : <<x, t>> \notin E
  PROVE  Acyclic(E \cup {<<t, d>> : d \in D})
<1> DEFINE F == E \cup {<<t, d>> : d \in D}
<1> SUFFICES ASSUME NEW S \in SUBSET Task, S # {}
             PROVE  \E x \in S : \A y \in S : <<x, y>> \notin F
  BY DEF Acyclic
<1> DEFINE K == S \ {t}
<1>1. CASE K = {}
  <2>1. S = {t}  BY <1>1
  <2>2. <<t, t>> \notin F  OBVIOUS
  <2> QED  BY <2>1, <2>2
<1>2. CASE K # {}
  <2>1. PICK x \in K : \A y \in K : <<x, y>> \notin E  BY <1>2 DEF Acyclic
  <2>2. ASSUME NEW y \in S  PROVE <<x, y>> \notin F
    BY <2>1
  <2> QED  BY <2>1, <2>2
<1> QED  BY <1>1, <1>2

-----------------------------------------------------------------------------
(* Forests *)

Parents == [Task -> Task \cup {Root}]
Up(p, t) == Chain(Edges(p), t)

\* The edges of a forest, read as its function.
LEMMA EdgesOfParents ==
  ASSUME NEW p \in Parents
  PROVE  Edges(p) \in Relation /\ \A x, y \in Task : <<x, y>> \in Edges(p) <=> p[x] = y
BY DEF Edges, Relation

\* What holds the start of a walk, and the parent of everything it holds,
\* holds the walk.
LEMMA UpIsLeast ==
  ASSUME NEW p \in Parents, NEW t \in Task, NEW S \in SUBSET Task, t \in S,
         \A a, b \in Task : p[a] = b /\ a \in S => b \in S
  PROVE  Up(p, t) \subseteq S
<1> DEFINE E == Edges(p)
<1>1. E \in Relation /\ \A a, b \in Task : <<a, b>> \in E <=> p[a] = b
  BY EdgesOfParents
<1> HIDE DEF E
<1>2. \A a, b \in Task : <<a, b>> \in E /\ a \in S => b \in S
  BY <1>1
<1>3. E \in Relation
  BY <1>1
<1>4. Chain(E, t) \subseteq S
  BY <1>2, <1>3, ChainIsLeast
<1> QED  BY <1>4 DEF Up, E

\* Walks stay among the tasks, start where they start and go on to parents.
LEMMA UpIsClosed ==
  ASSUME NEW p \in Parents, NEW t \in Task
  PROVE  /\ Up(p, t) \in SUBSET Task
         /\ t \in Up(p, t)
         /\ \A a, b \in Task : p[a] = b /\ a \in Up(p, t) => b \in Up(p, t)
<1> DEFINE E == Edges(p)
<1>1. E \in Relation /\ \A a, b \in Task : <<a, b>> \in E <=> p[a] = b
  BY EdgesOfParents
<1> HIDE DEF E
<1>2. Chain(E, t) = Up(p, t)
  BY DEF Up, E
<1>3. /\ Chain(E, t) \in SUBSET Task
      /\ t \in Chain(E, t)
      /\ \A a, b \in Task : <<a, b>> \in E /\ a \in Chain(E, t) => b \in Chain(E, t)
  BY <1>1, ChainIsClosed
<1>4. ASSUME NEW a \in Task, NEW b \in Task, p[a] = b, a \in Up(p, t)
      PROVE  b \in Up(p, t)
  <2>1. <<a, b>> \in E  BY <1>1, <1>4
  <2> QED  BY <1>2, <1>3, <1>4, <2>1
<1>5. Up(p, t) \in SUBSET Task /\ t \in Up(p, t)
  BY <1>2, <1>3
<1> QED  BY <1>4, <1>5

\* The chain of a task is the task and the chain of its parent.
LEMMA UpStep ==
  ASSUME NEW p \in Parents, NEW y \in Task, p[y] \in Task
  PROVE  /\ Up(p, y) \subseteq {y} \cup Up(p, p[y])
         /\ p[y] \in Up(p, y)
<1> DEFINE S == {y} \cup Up(p, p[y])
<1>1. S \in SUBSET Task /\ y \in S /\ p[y] \in S
  BY UpIsClosed
<1>2. ASSUME NEW a \in Task, NEW b \in Task, p[a] = b, a \in S
      PROVE  b \in S
  <2>1. CASE a = y  BY <1>1, <1>2, <2>1
  <2>2. CASE a \in Up(p, p[y])  BY <1>2, <2>2, UpIsClosed
  <2> QED  BY <1>2, <2>1, <2>2
<1> HIDE DEF S
<1>3. Up(p, y) \subseteq S
  BY <1>1, <1>2, UpIsLeast
<1>4. p[y] \in Up(p, y)
  BY UpIsClosed
<1> QED  BY <1>3, <1>4 DEF S

\* A task without a parent is the whole of its chain.
LEMMA UpOfRoot ==
  ASSUME NEW p \in Parents, NEW r \in Task, p[r] = Root
  PROVE  Up(p, r) \subseteq {r}
<1> DEFINE S == {r}
<1>1. \A a, b \in Task : p[a] = b /\ a \in S => b \in S
  BY RootAssumption
<1>2. S \in SUBSET Task /\ r \in S
  OBVIOUS
<1>3. Up(p, r) \subseteq S
  <2> HIDE DEF S
  <2> QED  BY <1>1, <1>2, UpIsLeast
<1> QED  BY <1>3

\* If the walk from q comes to a task without a parent, it does so from every
\* task it passes.
LEMMA RootFromAll ==
  ASSUME NEW p \in Parents, NEW q \in Task, NEW r \in Up(p, q), p[r] = Root
  PROVE  \A y \in Up(p, q) : r \in Up(p, y)
<1> DEFINE S == {y \in Up(p, q) : r \in Up(p, y)}
<1>1. Up(p, q) \in SUBSET Task /\ q \in Up(p, q)
  BY UpIsClosed
<1>2. ASSUME NEW a \in Task, NEW b \in Task, p[a] = b, a \in S
      PROVE  b \in S
  <2>1. b \in Up(p, q)
    BY <1>2, UpIsClosed
  <2>2. r \in {a} \cup Up(p, b)
    BY <1>2, UpStep
  <2>3. r # a
    BY <1>2, RootAssumption
  <2> QED  BY <2>1, <2>2, <2>3
<1>3. S \in SUBSET Task /\ q \in S
  BY <1>1
<1> HIDE DEF S
<1>4. Up(p, q) \subseteq S
  BY <1>2, <1>3, UpIsLeast
<1> QED  BY <1>4 DEF S

\* A walk that comes to a task without a parent never passes a task twice.
LEMMA NoReturn ==
  ASSUME NEW p \in Parents, NEW y \in Task, p[y] \in Task,
         NEW r \in Up(p, y), p[r] = Root
  PROVE  y \notin Up(p, p[y]) /\ r \in Up(p, p[y])
<1> DEFINE z == p[y]
           S == {x \in Up(p, z) : y \in Up(p, x)}
<1>1. Up(p, z) \in SUBSET Task /\ z \in Up(p, z)
  BY UpIsClosed
<1>2. r # y /\ r \in Up(p, z)
  BY UpStep, RootAssumption
<1>3. ASSUME y \in Up(p, z)
      PROVE  FALSE
  <2>1. ASSUME NEW a \in Task, NEW b \in Task, p[a] = b, a \in S
        PROVE  b \in S
    <3>1. b \in Up(p, z)
      BY <2>1, UpIsClosed
    <3>2. y \in {a} \cup Up(p, b)
      BY <2>1, UpStep
    <3>3. CASE y = a
      BY <2>1, <3>1, <3>3, <1>3
    <3>4. CASE y \in Up(p, b)
      BY <3>1, <3>4
    <3> QED  BY <3>2, <3>3, <3>4
  <2>2. S \in SUBSET Task /\ z \in S
    BY <1>1, <1>3
  <2>3. Up(p, z) \subseteq S
    <3> HIDE DEF S
    <3> QED  BY <2>1, <2>2, UpIsLeast
  <2>4. y \in Up(p, r)
    BY <2>3, <1>2
  <2> QED  BY <2>4, <1>1, <1>2, UpOfRoot
<1> QED  BY <1>2, <1>3

\* Moving a task under one whose chain it is not on leaves a forest.
LEMMA OneMove ==
  ASSUME NEW p \in Parents, NEW t \in Task, NEW q \in Task \cup {Root},
         Acyclic(Edges(p)), q \in Task => q = p[t] \/ t \notin Up(p, q),
         NEW p2 \in Parents, p2[t] = q, \A x \in Task \ {t} : p2[x] = p[x]
  PROVE  Acyclic(Edges(p2))
<1>1. Edges(p) \in Relation /\ \A x, y \in Task : <<x, y>> \in Edges(p) <=> p[x] = y
  BY EdgesOfParents
<1>2. Edges(p2) \in Relation /\ \A x, y \in Task : <<x, y>> \in Edges(p2) <=> p2[x] = y
  BY EdgesOfParents
<1>3. CASE q = Root \/ q = p[t]
  <2>1. ASSUME NEW x \in Task, NEW y \in Task, <<x, y>> \in Edges(p2)
        PROVE  <<x, y>> \in Edges(p)
    <3>1. p2[x] = y  BY <1>2, <2>1
    <3>2. p[x] = y  BY <3>1, <1>3, RootAssumption
    <3> QED  BY <3>2, <1>1
  <2>2. Edges(p2) \subseteq Edges(p)
    BY <1>2, <2>1, PairsOf
  <2> QED  BY <2>2, FewerEdges
<1>4. CASE q \in Task /\ q # p[t]
  <2>1. ASSUME NEW x \in Task, NEW y \in Task, <<x, y>> \in Edges(p2)
        PROVE  <<x, y>> \in Edges(p) \cup {<<t, q>>}
    <3>1. p2[x] = y  BY <1>2, <2>1
    <3>2. CASE x = t  BY <3>1, <3>2
    <3>3. CASE x # t  BY <3>1, <3>3, <1>1
    <3> QED  BY <3>2, <3>3
  <2>2. Edges(p2) \subseteq Edges(p) \cup {<<t, q>>}
    <3> DEFINE F == Edges(p) \cup {<<t, q>>}
    <3>1. \A x, y \in Task : <<x, y>> \in Edges(p2) => <<x, y>> \in F
      BY <2>1
    <3> HIDE DEF F
    <3>2. Edges(p2) \subseteq F
      BY <1>2, <3>1, PairsOf
    <3> QED  BY <3>2 DEF F
  <2>3. Acyclic(Edges(p) \cup {<<t, q>>})
    BY <1>1, <1>4, OneMoreEdge DEF Up
  <2> QED  BY <2>2, <2>3, FewerEdges
<1> QED  BY <1>3, <1>4

-----------------------------------------------------------------------------
(* Imports *)

\* A link that is accepted leads to a task without a parent, and every task on
\* the way there has its link accepted as well.
LEMMA AcceptedChain ==
  ASSUME NEW p \in Parents, NEW t \in Task, p[t] \in Task, ~ClosesCycle(p, t, p[t])
  PROVE  /\ t \notin Up(p, p[t])
         /\ \E r \in Up(p, p[t]) : p[r] = Root
         /\ \A y \in Up(p, p[t]) : p[y] \in Task => ~ClosesCycle(p, y, p[y])
<1>1. t \notin Up(p, p[t]) /\ \E r \in Up(p, p[t]) : p[r] = Root
  BY DEF ClosesCycle, Up
<1>2. PICK r \in Up(p, p[t]) : p[r] = Root
  BY <1>1
<1>3. Up(p, p[t]) \in SUBSET Task
  BY EdgesOfParents, ChainIsClosed DEF Up
<1>4. ASSUME NEW y \in Up(p, p[t]), p[y] \in Task
      PROVE  ~ClosesCycle(p, y, p[y])
  <2>1. y \in Task /\ r \in Up(p, y)
    BY <1>2, <1>3, RootFromAll
  <2>2. y \notin Up(p, p[y]) /\ r \in Up(p, p[y])
    BY <1>2, <1>4, <2>1, NoReturn
  <2> QED  BY <1>2, <2>2 DEF ClosesCycle, Up
<1> QED  BY <1>1, <1>4

\* Writing the accepted links of an import, and none of the rejected ones,
\* leaves a forest.
LEMMA ImportKeepsForest ==
  ASSUME NEW p \in Parents, NEW D \in SUBSET Task, NEW over \in Parents,
         \A t \in D : over[t] \in Task, \A t \in Task \ D : over[t] = p[t],
         NEW p2 \in Parents, Acyclic(Edges(p)),
         \A t \in D : ~ClosesCycle(over, t, over[t]) => p2[t] = over[t],
         \A t \in Task : (t \in D /\ ~ClosesCycle(over, t, over[t])) \/ p2[t] = p[t]
  PROVE  Acyclic(Edges(p2))
<1> DEFINE A == {t \in D : ~ClosesCycle(over, t, over[t])}
<1>1. Edges(p) \in Relation /\ \A x, y \in Task : <<x, y>> \in Edges(p) <=> p[x] = y
  BY EdgesOfParents
<1>2. Edges(p2) \in Relation /\ \A x, y \in Task : <<x, y>> \in Edges(p2) <=> p2[x] = y
  BY EdgesOfParents
<1>3. Edges(over) \in Relation /\ \A x, y \in Task : <<x, y>> \in Edges(over) <=> over[x] = y
  BY EdgesOfParents
<1> SUFFICES ASSUME NEW S \in SUBSET Task, S # {}
             PROVE  \E x \in S : p2[x] \notin S
  BY <1>2 DEF Acyclic
<1>4. CASE S \cap A = {}
  <2>1. PICK x \in S : \A y \in S : <<x, y>> \notin Edges(p)
    BY DEF Acyclic
  <2>2. p[x] \notin S
    BY <1>1, <2>1
  <2>3. p2[x] = p[x]
    BY <1>4
  <2> QED  BY <2>2, <2>3
<1>5. CASE S \cap A # {}
  <2>1. PICK t \in S : t \in A
    BY <1>5
  <2> DEFINE q == over[t]
             C == Up(over, q)
             K == S \cap C
  <2>2. q \in Task /\ p2[t] = q /\ ~ClosesCycle(over, t, q)
    BY <2>1
  <2>3. CASE q \notin S
    BY <2>2, <2>3
  <2>4. CASE q \in S
    <3>1. PICK r \in C : over[r] = Root
      BY <2>1, <2>2, AcceptedChain
    <3>2. C \in SUBSET Task /\ q \in C
          /\ \A x, y \in Task : <<x, y>> \in Edges(over) /\ x \in C => y \in C
      BY <1>3, <2>2, ChainIsClosed DEF Up
    <3>3. ASSUME NEW y \in C
          PROVE  p2[y] = over[y]
      <4>1. y \in Task  BY <3>2
      <4>2. CASE y \in D
        <5>1. over[y] \in Task  BY <4>2
        <5>2. ~ClosesCycle(over, y, over[y])
          BY <2>1, <2>2, <3>3, <5>1, AcceptedChain
        <5> QED  BY <4>2, <5>2
      <4>3. CASE y \notin D
        BY <4>1, <4>3
      <4> QED  BY <4>2, <4>3
    <3>4. SUFFICES ASSUME \A x \in K : p2[x] \in S
                   PROVE  FALSE
      OBVIOUS
    <3>5. ASSUME NEW x \in Task, NEW y \in Task, <<x, y>> \in Edges(over), x \in K
          PROVE  y \in K
      <4>1. over[x] = y /\ y \in C  BY <1>3, <3>2, <3>5
      <4>2. p2[x] = y  BY <3>3, <3>5, <4>1
      <4> QED  BY <3>4, <3>5, <4>1, <4>2
    <3>6. K \in SUBSET Task /\ q \in K
      BY <2>4, <3>2
    <3>7. C \subseteq K
      BY <1>3, <2>2, <3>5, <3>6, ChainIsLeast DEF Up
    <3>8. p2[r] \in S /\ p2[r] = Root
      BY <3>1, <3>3, <3>4, <3>7
    <3> QED  BY <3>8, RootAssumption
  <2> QED  BY <2>3, <2>4
<1> QED  BY <1>4, <1>5

\* In a forest no walk closes a cycle.
LEMMA ForestHasNoCycle ==
  ASSUME NEW p \in Parents, NEW t \in Task, p[t] \in Task, Acyclic(Edges(p))
  PROVE  ~ClosesCycle(p, t, p[t])
<1> DEFINE q == p[t]
           C == Up(p, q)
           K == {u \in C : t \in Up(p, u)}
<1>1. Edges(p) \in Relation /\ \A x, y \in Task : <<x, y>> \in Edges(p) <=> p[x] = y
  BY EdgesOfParents
<1>2. C \in SUBSET Task /\ q \in C
      /\ \A x, y \in Task : <<x, y>> \in Edges(p) /\ x \in C => y \in C
  BY <1>1, ChainIsClosed DEF Up
<1>3. ASSUME t \in C
      PROVE  FALSE
  <2>1. PICK u \in K : \A y \in K : <<u, y>> \notin Edges(p)
    <3>1. q \in K /\ K \in SUBSET Task  BY <1>2, <1>3
    <3> QED  BY <3>1 DEF Acyclic
  <2>2. u \in Task /\ u \in C /\ t \in Up(p, u)
    BY <1>2
  <2>3. CASE u = t
    <3>1. q \in K  BY <1>2, <1>3
    <3> QED  BY <1>1, <2>1, <2>3, <3>1
  <2>4. CASE u # t /\ p[u] = Root
    BY <2>2, <2>4, UpOfRoot
  <2>5. CASE u # t /\ p[u] \in Task
    <3>1. t \in Up(p, p[u])  BY <2>2, <2>5, UpStep
    <3>2. <<u, p[u]>> \in Edges(p) /\ p[u] \in C  BY <1>1, <1>2, <2>2, <2>5
    <3> QED  BY <2>1, <3>1, <3>2
  <2> QED  BY <2>2, <2>3, <2>4, <2>5 DEF Parents
<1>4. ASSUME \A u \in C : p[u] # Root
      PROVE  FALSE
  <2>1. PICK u \in C : \A y \in C : <<u, y>> \notin Edges(p)
    BY <1>2 DEF Acyclic
  <2>2. p[u] \in Task  BY <1>2, <1>4 DEF Parents
  <2> QED  BY <1>1, <1>2, <2>1, <2>2
<1> QED  BY <1>3, <1>4 DEF ClosesCycle, Up

-----------------------------------------------------------------------------
(* The loop of an import *)

\* The chain of a task is exactly the task and the chain of its parent.
LEMMA UpWhole ==
  ASSUME NEW p \in Parents, NEW y \in Task, p[y] \in Task
  PROVE  Up(p, y) = {y} \cup Up(p, p[y])
<1>1. Up(p, y) \in SUBSET Task /\ y \in Up(p, y) /\ p[y] \in Up(p, y)
      /\ \A a, b \in Task : p[a] = b /\ a \in Up(p, y) => b \in Up(p, y)
  BY UpIsClosed
<1>2. Up(p, p[y]) \subseteq Up(p, y)
  BY <1>1, UpIsLeast
<1> QED  BY <1>1, <1>2, UpStep

\* One turn of the loop, what follows it being answered by g: whether, from cur
\* on and having seen some tasks, it finds a cycle.
Turn(p, g) ==
  [seen \in SUBSET Task |->
     [cur \in Task \cup {Root} |->
        cur # Root /\ (cur \in seen \/ g[seen \cup {cur}][p[cur]])]]

\* What the loop finds, in terms of chains.
Meets(p) ==
  [seen \in SUBSET Task |->
     [cur \in Task \cup {Root} |->
        cur # Root /\ (Up(p, cur) \cap seen # {} \/ \A u \in Up(p, cur) : p[u] # Root)]]

\* The loop is a fixed point of its turn.
LEMMA WalkIsATurn ==
  ASSUME NEW p, NEW t, NEW q
  PROVE  Walk(p, t, q) = (CHOOSE g : g = Turn(p, g))[{t}][q]
BY DEF Walk, Turn

\* What the loop finds from a task is what it finds from the parent with the
\* task among those seen.
LEMMA MeetsAt ==
  ASSUME NEW p \in Parents, NEW seen \in SUBSET Task, NEW cur \in Task \cup {Root}
  PROVE  Meets(p)[seen][cur]
         = (cur # Root /\ (cur \in seen \/ Meets(p)[seen \cup {cur}][p[cur]]))
<1>0. \A s \in SUBSET Task, x \in Task \cup {Root} :
        Meets(p)[s][x]
        = (x # Root /\ (Up(p, x) \cap s # {} \/ \A u \in Up(p, x) : p[u] # Root))
  BY DEF Meets
<1>1. CASE cur = Root
  BY <1>0, <1>1
<1>2. CASE cur \in Task /\ p[cur] = Root
  <2>1. Up(p, cur) = {cur}
    BY <1>2, UpOfRoot, UpIsClosed
  <2>2. seen \cup {cur} \in SUBSET Task  BY <1>2
  <2>3. ~Meets(p)[seen \cup {cur}][p[cur]]
    BY <1>0, <1>2, <2>2
  <2>4. Meets(p)[seen][cur] = (cur \in seen)
    BY <1>0, <1>2, <2>1, RootAssumption
  <2> QED  BY <1>2, <2>3, <2>4, RootAssumption
<1>3. CASE cur \in Task /\ p[cur] \in Task
  <2> DEFINE C == Up(p, p[cur])
             Rootless == \A u \in C : p[u] # Root
  <2>1. Up(p, cur) = {cur} \cup C
    BY <1>3, UpWhole
  <2>2. cur # Root /\ p[cur] # Root /\ seen \cup {cur} \in SUBSET Task
    BY <1>3, RootAssumption
  <2>3. cur \in C => Rootless
    BY <1>3, <2>1, NoReturn
  <2>4. Meets(p)[seen \cup {cur}][p[cur]] = (C \cap (seen \cup {cur}) # {} \/ Rootless)
    BY <1>0, <1>3, <2>2
  <2>5. Meets(p)[seen][cur] = (({cur} \cup C) \cap seen # {} \/ Rootless)
    BY <1>0, <1>3, <2>1, <2>2
  <2> HIDE DEF C, Rootless
  <2> QED  BY <2>2, <2>3, <2>4, <2>5
<1> QED  BY <1>1, <1>2, <1>3 DEF Parents

\* So it is such a fixed point.
LEMMA MeetsIsATurn ==
  ASSUME NEW p \in Parents
  PROVE  Meets(p) = Turn(p, Meets(p))
<1> DEFINE m == Meets(p)
<1>1. ASSUME NEW seen \in SUBSET Task
      PROVE  m[seen] = Turn(p, m)[seen]
  <2>1. \A cur \in Task \cup {Root} :
          m[seen][cur] = (cur # Root /\ (cur \in seen \/ m[seen \cup {cur}][p[cur]]))
    BY MeetsAt
  <2>2. m[seen] = [cur \in Task \cup {Root} |-> m[seen][cur]]
    BY DEF Meets
  <2> HIDE DEF m
  <2> QED  BY <2>1, <2>2 DEF Turn
<1>2. m = [seen \in SUBSET Task |-> m[seen]]
  BY DEF Meets
<1> HIDE DEF m
<1>3. m = Turn(p, m)
  BY <1>1, <1>2 DEF Turn
<1> QED  BY <1>3 DEF m

\* With finitely many tasks the loop ends, so it has no other fixed point: where
\* two differ they differ again one turn later, with fewer tasks left to see.
LEMMA TurnsAreOne ==
  ASSUME IsFiniteSet(Task), NEW p \in Parents,
         NEW g, g = Turn(p, g), NEW h, h = Turn(p, h),
         NEW s \in SUBSET Task, NEW x \in Task \cup {Root}
  PROVE  g[s][x] = h[s][x]
<1> DEFINE Differ(seen) == \E cur \in Task \cup {Root} : g[seen][cur] # h[seen][cur]
           Left == {T \in SUBSET Task : Differ(Task \ T)}
           R == StrictSubsetOrdering(Task)
<1>1. ASSUME NEW seen \in SUBSET Task, NEW cur \in Task \cup {Root}
      PROVE  g[seen][cur] = (cur # Root /\ (cur \in seen \/ g[seen \cup {cur}][p[cur]]))
  <2>1. g[seen] = Turn(p, g)[seen]
    OBVIOUS
  <2> QED  BY <2>1 DEF Turn
<1>2. ASSUME NEW seen \in SUBSET Task, NEW cur \in Task \cup {Root}
      PROVE  h[seen][cur] = (cur # Root /\ (cur \in seen \/ h[seen \cup {cur}][p[cur]]))
  <2>1. h[seen] = Turn(p, h)[seen]
    OBVIOUS
  <2> QED  BY <2>1 DEF Turn
<1>3. SUFFICES ASSUME g[s][x] # h[s][x]
               PROVE  FALSE
  OBVIOUS
<1>4. Task \ s \in Left
  <2>1. Task \ (Task \ s) = s  OBVIOUS
  <2> QED  BY <1>3, <2>1
<1>5. IsWellFoundedOn(R, SUBSET Task)
  BY FS_StrictSubsetOrderingWellFounded, FS_FiniteSubsetsOfFinite
<1>6. PICK T \in Left : \A U \in Left : <<U, T>> \notin R
  <2>1. Left \subseteq SUBSET Task /\ Left # {}  BY <1>4
  <2> HIDE DEF Left, R
  <2> QED  BY <1>5, <2>1, WFMin
<1> DEFINE seen == Task \ T
<1>7. PICK cur \in Task \cup {Root} : g[seen][cur] # h[seen][cur]
  BY <1>6
<1>8. /\ cur # Root /\ cur \notin seen
      /\ g[seen \cup {cur}][p[cur]] # h[seen \cup {cur}][p[cur]]
  <2>1. seen \in SUBSET Task  OBVIOUS
  <2> HIDE DEF seen
  <2>2. g[seen][cur] = (cur # Root /\ (cur \in seen \/ g[seen \cup {cur}][p[cur]]))
    BY <2>1, <1>1
  <2>3. h[seen][cur] = (cur # Root /\ (cur \in seen \/ h[seen \cup {cur}][p[cur]]))
    BY <2>1, <1>2
  <2> QED  BY <1>7, <2>2, <2>3
<1> DEFINE U == T \ {cur}
<1>9. cur \in Task /\ p[cur] \in Task \cup {Root} /\ cur \in T
  BY <1>8 DEF Parents
<1>10. U \in Left
  <2>1. Task \ U = seen \cup {cur} /\ U \in SUBSET Task
    BY <1>6, <1>9
  <2> QED  BY <1>8, <1>9, <2>1
<1>11. <<U, T>> \in R
  BY <1>6, <1>9, <1>10 DEF StrictSubsetOrdering
<1> QED  BY <1>6, <1>10, <1>11

\* So the loop finds what the chain shows.
LEMMA WalkIsRight ==
  ASSUME IsFiniteSet(Task), NEW p \in Parents, NEW t \in Task, NEW q \in Task
  PROVE  Walk(p, t, q) = ClosesCycle(p, t, q)
<1> DEFINE m == Meets(p)
           loop == CHOOSE g : g = Turn(p, g)
<1>1. m = Turn(p, m)
  BY MeetsIsATurn
<1>2. loop = Turn(p, loop)
  <2>1. \E g : g = Turn(p, g)  BY <1>1
  <2> QED  BY <2>1
<1>3. loop[{t}][q] = m[{t}][q]
  <2> HIDE DEF m, loop
  <2> QED  BY <1>1, <1>2, TurnsAreOne
<1>4. m[{t}][q] = (Up(p, q) \cap {t} # {} \/ \A u \in Up(p, q) : p[u] # Root)
  BY RootAssumption DEF Meets
<1>5. Walk(p, t, q) = loop[{t}][q]
  BY WalkIsATurn
<1>6. (Up(p, q) \cap {t} # {}) = (t \in Up(p, q))
  OBVIOUS
<1> QED  BY <1>3, <1>4, <1>5, <1>6 DEF ClosesCycle, Up

-----------------------------------------------------------------------------
(* Calls *)

\* What the record of an open call holds.
LEMMA CallFields ==
  ASSUME TypeOK, NEW c \in Client
  PROVE  /\ req[c].op = "create" => /\ req[c].task \in Task
                                    /\ req[c].under \in Task \cup {Root}
                                    /\ req[c].on \in SUBSET Task
         /\ req[c].op = "update" => req[c].task \in Task /\ req[c].under \in Task \cup {Root}
         /\ req[c].op = "link" => req[c].task \in Task /\ req[c].on \in Task
         /\ req[c].op = "delete" => req[c].order \in SUBSET Task
         /\ req[c].op = "import" =>
              /\ req[c].accepted \in SUBSET Task
              /\ DOMAIN req[c].links \in SUBSET Task
<1>1. req[c] \in Call  BY DEF TypeOK
<1>2. \A l \in Link : DOMAIN l \in SUBSET Task  BY DEF Link
<1> QED  BY <1>1, <1>2 DEF Call

\* What a call has checked holds as long as it is open.
Checked(call) ==
  /\ call.op = "update" /\ call.under \in Task =>
       call.under = parent[call.task] \/ call.task \notin Up(parent, call.under)
  /\ call.op = "link" => Linkable(call.task, call.on)
  /\ call.op = "delete" => Closed(LiveEdges, call.order)
  /\ call.op = "import" =>
       /\ call.accepted = Sound(call.links)
       /\ \A t \in DOMAIN call.links : call.links[t] \in Task

\* Each check establishes what Checked says of its call.
LEMMA CheckOpens ==
  ASSUME TypeOK, NEW c \in Client, Check(c)
  PROVE  \E call \in Call : Open(c, call) /\ Checked(call)
<1>0. TypeOK  OBVIOUS
<1>1. CASE CheckImport(c)
  <2>1. PICK S \in SUBSET {t \in Task : Exists(t)} : \E links \in [S -> {t \in Task : Exists(t)}] :
          Open(c, [op |-> "import", links |-> links, accepted |-> Sound(links)])
    BY <1>1 DEF CheckImport
  <2>2. PICK links \in [S -> {t \in Task : Exists(t)}] :
          Open(c, [op |-> "import", links |-> links, accepted |-> Sound(links)])
    BY <2>1
  <2> DEFINE call == [op |-> "import", links |-> links, accepted |-> Sound(links)]
  <2>3. links \in Link /\ DOMAIN links = S /\ \A t \in S : links[t] \in Task
    <3>1. links \in [S -> Task] /\ S \in SUBSET Task  OBVIOUS
    <3> QED  BY <3>1 DEF Link
  <2>4. Sound(links) \in SUBSET Task
    BY <2>3 DEF Sound
  <2>5. call \in Call
    BY <2>3, <2>4 DEF Call
  <2>6. Checked(call)
    BY <2>3 DEF Checked
  <2> QED  BY <2>2, <2>5, <2>6
<1>2. ASSUME NEW t \in Task, CheckCreate(c, t)
      PROVE  \E call \in Call : Open(c, call) /\ Checked(call)
  <2>1. PICK q \in Task \cup {Root}, on \in SUBSET {d \in Task : Exists(d)} :
          Open(c, [op |-> "create", task |-> t, under |-> q, on |-> on])
    BY <1>2 DEF CheckCreate
  <2> DEFINE call == [op |-> "create", task |-> t, under |-> q, on |-> on]
  <2>2. call \in Call  BY DEF Call
  <2>3. Checked(call)  BY DEF Checked
  <2> QED  BY <2>1, <2>2, <2>3
<1>3. ASSUME NEW t \in Task, CheckUpdate(c, t)
      PROVE  \E call \in Call : Open(c, call) /\ Checked(call)
  <2>1. PICK q \in {Root, parent[t]} \cup {u \in Task : Exists(u) /\ ~ClosesCycle(parent, t, u)} :
          Open(c, [op |-> "update", task |-> t, under |-> q])
    BY <1>3 DEF CheckUpdate
  <2> DEFINE call == [op |-> "update", task |-> t, under |-> q]
  <2>2. q \in Task \cup {Root}  BY <1>0 DEF TypeOK
  <2>3. call \in Call  BY <2>2 DEF Call
  <2>4. q \in Task => q = parent[t] \/ t \notin Up(parent, q)
    BY RootAssumption DEF ClosesCycle, Up
  <2>5. Checked(call)  BY <2>4 DEF Checked
  <2> QED  BY <2>1, <2>3, <2>5
<1>4. ASSUME NEW t \in Task, NEW d \in Task, CheckLink(c, t, d)
      PROVE  \E call \in Call : Open(c, call) /\ Checked(call)
  <2> DEFINE call == [op |-> "link", task |-> t, on |-> d]
  <2>1. Open(c, call) /\ Linkable(t, d)  BY <1>4 DEF CheckLink
  <2>2. call \in Call  BY DEF Call
  <2>3. Checked(call)  BY <2>1 DEF Checked
  <2> QED  BY <2>1, <2>2, <2>3
<1>5. ASSUME NEW t \in Task, CheckDelete(c, t)
      PROVE  \E call \in Call : Open(c, call) /\ Checked(call)
  <2>1. PICK hard \in BOOLEAN : Open(c, [op |-> "delete", order |-> Subtree(t), hard |-> hard])
    BY <1>5 DEF CheckDelete
  <2> DEFINE call == [op |-> "delete", order |-> Subtree(t), hard |-> hard]
  <2>2. LiveEdges \in Relation  BY DEF LiveEdges, Relation
  <2>3. Subtree(t) \in SUBSET Task
        /\ \A x, y \in Task : <<x, y>> \in LiveEdges /\ x \in Subtree(t) => y \in Subtree(t)
    BY <2>2, ChainIsClosed DEF Subtree
  <2>4. Closed(LiveEdges, Subtree(t))
    BY <2>2, <2>3, ClosedPairs
  <2>5. call \in Call  BY <2>3 DEF Call
  <2>6. Checked(call)  BY <2>4 DEF Checked
  <2> QED  BY <2>1, <2>5, <2>6
<1> QED
  BY <1>1, <1>2, <1>3, <1>4, <1>5 DEF Check

-----------------------------------------------------------------------------
(* The types and the foreign keys, on either engine *)

\* The links an import has accepted are among its links.
Typed ==
  /\ TypeOK
  /\ \A c \in Client : req[c].op = "import" => req[c].accepted \subseteq DOMAIN req[c].links

\* A new row, under a parent and on dependencies that have theirs.
LEMMA CreateKeepsTypes ==
  ASSUME TypeOK, NEW c \in Client, WriteCreate(c)
  PROVE  TypeOK'
<1> DEFINE t == req[c].task
           q == req[c].under
           on == req[c].on
<1>1. TypeOK  OBVIOUS
<1>2. t \in Task /\ q \in Task \cup {Root} /\ on \in SUBSET Task
  BY <1>1, CallFields DEF WriteCreate
<1>3. /\ ~Exists(t) /\ (q # Root => Exists(q)) /\ \A d \in on : Exists(d)
      /\ state' = [state EXCEPT ![t] = "live"]
      /\ parent' = [parent EXCEPT ![t] = q]
      /\ deps' = deps \cup {<<t, d>> : d \in on}
      /\ done' \in {done, done \cup {t}}
      /\ Done(c)
  BY DEF WriteCreate
<1>4. state' \in [Task -> {"none", "live", "trash"}] /\ parent' \in [Task -> Task \cup {Root}]
  BY <1>1, <1>2, <1>3 DEF TypeOK
<1>5. \A u \in Task : state'[u] # "none" <=> state[u] # "none" \/ u = t
  BY <1>1, <1>2, <1>3 DEF TypeOK, Exists
<1>6. deps' \in Relation /\ \A e \in deps' : state'[e[1]] # "none" /\ state'[e[2]] # "none"
  <2>1. {<<t, d>> : d \in on} \subseteq Task \X Task  BY <1>2
  <2>2. \A e \in deps : e[1] \in Task /\ e[2] \in Task  BY <1>1 DEF TypeOK, Relation
  <2>3. \A e \in deps : state'[e[1]] # "none" /\ state'[e[2]] # "none"
    BY <1>1, <1>5, <2>2 DEF TypeOK, Exists
  <2>4. \A d \in on : state'[t] # "none" /\ state'[d] # "none"
    BY <1>2, <1>3, <1>5 DEF Exists
  <2>5. deps' \in Relation
    BY <1>1, <1>3, <2>1 DEF TypeOK, Relation
  <2>6. ASSUME NEW e \in deps'
        PROVE  state'[e[1]] # "none" /\ state'[e[2]] # "none"
    <3>1. CASE e \in deps  BY <2>3, <3>1
    <3>2. CASE e \in {<<t, d>> : d \in on}
      <4>1. PICK d \in on : e = <<t, d>>  BY <3>2
      <4>2. e[1] = t /\ e[2] = d  BY <4>1
      <4> QED  BY <2>4, <4>2
    <3> QED  BY <1>3, <3>1, <3>2
  <2> QED  BY <2>5, <2>6
<1>7. \A u \in Task : parent'[u] # Root => state'[u] # "none" /\ state'[parent'[u]] # "none"
  BY <1>1, <1>2, <1>3, <1>5 DEF TypeOK, Exists
<1>8. done' \subseteq {u \in Task : state'[u] # "none"}
  BY <1>1, <1>2, <1>3, <1>5 DEF TypeOK, Exists
<1>9. req' \in [Client -> Call]
  BY <1>1, <1>3 DEF TypeOK, Done, Call, Idle
<1> QED  BY <1>4, <1>6, <1>7, <1>8, <1>9 DEF TypeOK, Exists

\* An edit or a move, to a parent that has a row by now.
LEMMA UpdateKeepsTypes ==
  ASSUME TypeOK, NEW c \in Client, WriteUpdate(c)
  PROVE  TypeOK'
<1> DEFINE t == req[c].task
           q == req[c].under
<1>1. TypeOK  OBVIOUS
<1>2. t \in Task /\ q \in Task \cup {Root}
  BY <1>1, CallFields DEF WriteUpdate
<1>3. /\ Exists(t) /\ (q # Root => Exists(q))
      /\ parent' = [parent EXCEPT ![t] = q]
      /\ done' \in {done \ {t}, done \cup {t}}
      /\ UNCHANGED <<state, deps>> /\ Done(c)
  BY DEF WriteUpdate
<1>4. req' \in [Client -> Call]
  BY <1>1, <1>3 DEF TypeOK, Done, Call, Idle
<1>5. parent' \in [Task -> Task \cup {Root}]
  BY <1>1, <1>2, <1>3 DEF TypeOK
<1>6. \A u \in Task : parent'[u] # Root => Exists(u) /\ Exists(parent'[u])
  BY <1>1, <1>2, <1>3 DEF TypeOK
<1> QED  BY <1>1, <1>2, <1>3, <1>4, <1>5, <1>6 DEF TypeOK, Exists

\* An edge between two rows.
LEMMA LinkKeepsTypes ==
  ASSUME TypeOK, NEW c \in Client, WriteLink(c)
  PROVE  TypeOK'
<1> DEFINE t == req[c].task
           d == req[c].on
<1>1. TypeOK  OBVIOUS
<1>2. t \in Task /\ d \in Task
  BY <1>1, CallFields DEF WriteLink
<1>3. /\ Exists(t) /\ Exists(d) /\ deps' = deps \cup {<<t, d>>}
      /\ UNCHANGED <<state, parent, done>> /\ Done(c)
  BY DEF WriteLink
<1>4. req' \in [Client -> Call]
  BY <1>1, <1>3 DEF TypeOK, Done, Call, Idle
<1>5. deps' \in Relation /\ \A e \in deps' : Exists(e[1]) /\ Exists(e[2])
  BY <1>1, <1>2, <1>3 DEF TypeOK, Relation
<1> QED  BY <1>1, <1>3, <1>4, <1>5 DEF TypeOK, Exists

\* Rows that go take with them what refers to them.
LEMMA RemoveKeepsTypes ==
  ASSUME TypeOK, NEW gone \in SUBSET Task, Remove(gone), req' \in [Client -> Call]
  PROVE  TypeOK'
<1>1. /\ state' = [t \in Task |-> IF t \in gone THEN "none" ELSE state[t]]
      /\ parent' = [t \in Task |-> IF t \in gone \/ parent[t] \in gone THEN Root ELSE parent[t]]
      /\ deps' = {e \in deps : e[1] \notin gone /\ e[2] \notin gone}
      /\ done' = done \ gone
  BY DEF Remove
<1>2. parent' \in Parents
  BY <1>1 DEF TypeOK, Parents
<1>3. req' \in [Client -> Call]  OBVIOUS
<1>4. \A u \in Task : state'[u] # "none" <=> state[u] # "none" /\ u \notin gone
  BY <1>1 DEF TypeOK
<1>5. state' \in [Task -> {"none", "live", "trash"}]
  BY <1>1 DEF TypeOK
<1>6. deps' \in Relation /\ \A e \in deps' : state'[e[1]] # "none" /\ state'[e[2]] # "none"
  <2>1. deps \in Relation  BY DEF TypeOK
  <2>2. \A e \in deps : e[1] \in Task /\ e[2] \in Task  BY <2>1 DEF Relation
  <2>3. \A e \in deps' : e \in deps /\ e[1] \notin gone /\ e[2] \notin gone  BY <1>1
  <2>4. deps' \in Relation  BY <2>1, <2>3 DEF Relation
  <2> QED  BY <1>4, <2>2, <2>3, <2>4 DEF TypeOK, Exists
<1>7. \A u \in Task : parent'[u] # Root => state'[u] # "none" /\ state'[parent'[u]] # "none"
  BY <1>1, <1>4 DEF TypeOK, Exists
<1>8. done' \subseteq {u \in Task : state'[u] # "none"}
  BY <1>1, <1>4 DEF TypeOK, Exists
<1> QED  BY <1>2, <1>5, <1>6, <1>7, <1>8 DEF TypeOK, Exists, Parents

\* Where the rows that are there stay, and refer to no more than they did, they
\* keep their types.
LEMMA SameRows ==
  ASSUME TypeOK, state' \in [Task -> {"none", "live", "trash"}],
         \A u \in Task : state'[u] # "none" <=> state[u] # "none",
         parent' \in Parents, \A u \in Task : parent'[u] \in {Root, parent[u]},
         deps' \subseteq deps, done' \subseteq {u \in Task : Exists(u)},
         req' \in [Client -> Call]
  PROVE  TypeOK'
<1>1. deps' \in Relation
  BY DEF TypeOK, Relation
<1>2. \A e \in deps' : state'[e[1]] # "none" /\ state'[e[2]] # "none"
  <2>1. \A e \in deps : e[1] \in Task /\ e[2] \in Task
    BY DEF TypeOK, Relation
  <2> QED  BY <2>1 DEF TypeOK, Exists
<1>3. \A u \in Task : parent'[u] # Root => state'[u] # "none" /\ state'[parent'[u]] # "none"
  BY DEF TypeOK, Exists
<1>4. done' \subseteq {u \in Task : state'[u] # "none"}
  BY DEF Exists
<1> QED  BY <1>1, <1>2, <1>3, <1>4 DEF TypeOK, Exists, Parents

\* Rows that are marked deleted stay.
LEMMA TrashKeepsTypes ==
  ASSUME TypeOK, NEW S \in SUBSET Task, \A t \in S : Exists(t),
         Trash(S), req' \in [Client -> Call]
  PROVE  TypeOK'
<1>1. /\ state' = [t \in Task |-> IF t \in S THEN "trash" ELSE state[t]]
      /\ UNCHANGED <<parent, deps, done>>
  BY DEF Trash
<1>2. /\ state' \in [Task -> {"none", "live", "trash"}]
      /\ \A u \in Task : state'[u] # "none" <=> state[u] # "none"
  BY <1>1 DEF TypeOK, Exists
<1>3. parent' \in Parents /\ done' \subseteq {u \in Task : Exists(u)}
  BY <1>1 DEF TypeOK, Parents
<1> QED  BY <1>1, <1>2, <1>3, SameRows

\* A delete, hard or soft.
LEMMA DeleteKeepsTypes ==
  ASSUME TypeOK, NEW c \in Client, WriteDelete(c)
  PROVE  TypeOK'
<1>1. req[c].order \in SUBSET Task /\ Done(c)
  BY CallFields DEF WriteDelete
<1>2. req' \in [Client -> Call]
  BY <1>1 DEF TypeOK, Done, Call, Idle
<1>3. CASE Remove(req[c].order)
  BY <1>1, <1>2, <1>3, RemoveKeepsTypes
<1>4. CASE Trash(req[c].order) /\ \A t \in req[c].order : state[t] = "live"
  <2>1. \A t \in req[c].order : Exists(t)  BY <1>4 DEF Exists
  <2> QED  BY <1>1, <1>2, <1>4, <2>1, TrashKeepsTypes
<1> QED  BY <1>3, <1>4 DEF WriteDelete

\* Links that are accepted, to tasks that have rows by now.
LEMMA ImportKeepsTypes ==
  ASSUME TypeOK, NEW c \in Client, WriteImport(c),
         \A t \in req[c].accepted : req[c].links[t] \in Task
  PROVE  TypeOK'
<1> DEFINE links == req[c].links
<1>1. TypeOK  OBVIOUS
<1>2. \A t \in req[c].accepted : links[t] \in Task
  OBVIOUS
<1>3. /\ \A t \in req[c].accepted : Exists(t) /\ Exists(links[t])
      /\ parent' = [t \in Task |-> IF t \in req[c].accepted THEN links[t] ELSE parent[t]]
      /\ UNCHANGED <<state, deps, done>> /\ Done(c)
  BY DEF WriteImport
<1>4. req' \in [Client -> Call]
  BY <1>1, <1>3 DEF TypeOK, Done, Call, Idle
<1>5. parent' \in [Task -> Task \cup {Root}]
  BY <1>1, <1>3, <1>2 DEF TypeOK
<1>6. \A u \in Task : parent'[u] # Root => Exists(u) /\ Exists(parent'[u])
  BY <1>1, <1>3 DEF TypeOK
<1> QED  BY <1>1, <1>3, <1>4, <1>5, <1>6 DEF TypeOK, Exists

\* The calls that are one statement.
LEMMA StatementKeepsTypes ==
  ASSUME TypeOK, NEW t \in Task,
         \/ RestoreTask(t) \/ Rewrite(t) \/ TrashFinished(t)
         \/ PurgeTrashed(t) \/ Tombstone(t) \/ RemoveAbsent(t)
         \/ \E d \in Task : RemoveDependency(t, d)
  PROVE  TypeOK'
<1>1. UNCHANGED req /\ req' \in [Client -> Call]
  BY DEF RestoreTask, Rewrite, TrashFinished, PurgeTrashed, Tombstone, RemoveAbsent,
         RemoveDependency, TypeOK
<1>2. CASE RestoreTask(t)
  <2>1. state' = [state EXCEPT ![t] = "live"] /\ Exists(t) /\ UNCHANGED <<parent, deps, done>>
    BY <1>2 DEF RestoreTask, Exists
  <2>2. /\ state' \in [Task -> {"none", "live", "trash"}]
        /\ \A u \in Task : state'[u] # "none" <=> state[u] # "none"
    BY <2>1 DEF TypeOK, Exists
  <2>3. parent' \in Parents /\ done' \subseteq {u \in Task : Exists(u)}
    BY <2>1 DEF TypeOK, Parents
  <2> QED  BY <1>1, <2>1, <2>2, <2>3, SameRows
<1>3. CASE Rewrite(t)
  <2>1. /\ Exists(t) /\ state' = [state EXCEPT ![t] = "live"]
        /\ parent' = [parent EXCEPT ![t] = Root]
        /\ done' \in {done \ {t}, done \cup {t}} /\ UNCHANGED deps
    BY <1>3 DEF Rewrite
  <2>2. /\ state' \in [Task -> {"none", "live", "trash"}]
        /\ \A u \in Task : state'[u] # "none" <=> state[u] # "none"
    BY <2>1 DEF TypeOK, Exists
  <2>3. parent' \in Parents /\ \A u \in Task : parent'[u] \in {Root, parent[u]}
    BY <2>1 DEF TypeOK, Parents
  <2>4. done' \subseteq {u \in Task : Exists(u)}
    BY <2>1 DEF TypeOK
  <2> QED  BY <1>1, <2>1, <2>2, <2>3, <2>4, SameRows
<1>4. CASE TrashFinished(t) \/ Tombstone(t)
  <2>1. Trash({t}) /\ \A u \in {t} : Exists(u)
    BY <1>4 DEF TrashFinished, Tombstone, Exists
  <2> QED  BY <1>1, <2>1, TrashKeepsTypes
<1>5. CASE PurgeTrashed(t) \/ RemoveAbsent(t)
  <2>1. Remove({t})
    BY <1>5 DEF PurgeTrashed, RemoveAbsent
  <2> QED  BY <1>1, <2>1, RemoveKeepsTypes
<1>6. ASSUME NEW d \in Task, RemoveDependency(t, d)
      PROVE  TypeOK'
  <2>1. deps' \subseteq deps /\ UNCHANGED <<state, parent, done>>
    BY <1>6 DEF RemoveDependency
  <2>2. state' \in [Task -> {"none", "live", "trash"}] /\ parent' \in Parents
        /\ done' \subseteq {u \in Task : Exists(u)}
    BY <2>1 DEF TypeOK, Parents
  <2> QED  BY <1>1, <2>1, <2>2, SameRows
<1> QED  BY <1>2, <1>3, <1>4, <1>5, <1>6

\* A call that opens or is refused writes nothing.
LEMMA NothingWritten ==
  ASSUME TypeOK, UNCHANGED <<state, parent, deps, done>>, req' \in [Client -> Call]
  PROVE  TypeOK'
BY DEF TypeOK, Exists

\* Every write looks again for the rows it refers to, so nothing here needs a
\* single writer.
LEMMA NextKeepsTyped ==
  ASSUME Typed, [Next]_vars
  PROVE  Typed'
<1> DEFINE Accepted == \A c \in Client :
                         req[c].op = "import" => req[c].accepted \subseteq DOMAIN req[c].links
<1>1. TypeOK /\ Accepted  BY DEF Typed
<1> SUFFICES TypeOK' /\ Accepted'
  BY DEF Typed
<1>2. ASSUME NEW c \in Client, Check(c)
      PROVE  TypeOK' /\ Accepted'
  <2>1. PICK call \in Call : Open(c, call) /\ Checked(call)
    BY <1>1, <1>2, CheckOpens
  <2>2. req' = [req EXCEPT ![c] = call] /\ UNCHANGED <<state, parent, deps, done>>
    BY <2>1 DEF Open
  <2>3. req' \in [Client -> Call]
    BY <1>1, <2>2 DEF TypeOK
  <2>4. call.op = "import" => call.accepted \subseteq DOMAIN call.links
    BY <2>1 DEF Checked, Sound
  <2>5. Accepted'
    BY <1>1, <2>2, <2>4 DEF TypeOK
  <2> QED  BY <1>1, <2>2, <2>3, <2>5, NothingWritten
<1>3. ASSUME NEW c \in Client, Write(c) \/ Abort(c)
      PROVE  TypeOK' /\ Accepted'
  <2>1. Done(c)
    BY <1>3 DEF Write, Abort, Done, WriteCreate, WriteUpdate, WriteLink, WriteDelete, WriteImport
  <2>2. Accepted'
    BY <1>1, <2>1 DEF TypeOK, Done, Idle
  <2>3. CASE Abort(c)
    <3>1. req' \in [Client -> Call] /\ UNCHANGED <<state, parent, deps, done>>
      BY <1>1, <2>1, <2>3 DEF TypeOK, Done, Abort, Call, Idle
    <3> QED  BY <1>1, <2>2, <3>1, NothingWritten
  <2>4. CASE WriteImport(c)
    <3>1. req[c].op = "import" /\ req[c].accepted \subseteq DOMAIN req[c].links
      BY <1>1, <2>4 DEF WriteImport
    <3>2. req[c].links \in Link
      BY <1>1, <3>1 DEF TypeOK, Call
    <3>3. \A l \in Link : \A t \in DOMAIN l : l[t] \in Task
      BY DEF Link
    <3>4. \A t \in req[c].accepted : req[c].links[t] \in Task
      BY <3>1, <3>2, <3>3
    <3> QED  BY <1>1, <2>2, <2>4, <3>4, ImportKeepsTypes
  <2>5. CASE WriteCreate(c) \/ WriteUpdate(c) \/ WriteLink(c) \/ WriteDelete(c)
    BY <1>1, <2>2, <2>5, CreateKeepsTypes, UpdateKeepsTypes, LinkKeepsTypes, DeleteKeepsTypes
  <2> QED  BY <1>3, <2>3, <2>4, <2>5 DEF Write
<1>4. ASSUME NEW t \in Task,
             \/ RestoreTask(t) \/ Rewrite(t) \/ TrashFinished(t)
             \/ PurgeTrashed(t) \/ Tombstone(t) \/ RemoveAbsent(t)
             \/ \E d \in Task : RemoveDependency(t, d)
      PROVE  TypeOK' /\ Accepted'
  <2>1. UNCHANGED req
    BY <1>4 DEF RestoreTask, Rewrite, TrashFinished, PurgeTrashed, Tombstone, RemoveAbsent,
                RemoveDependency
  <2>2. TypeOK'
    BY <1>1, <1>4, StatementKeepsTypes
  <2> QED  BY <1>1, <2>1, <2>2
<1>5. CASE UNCHANGED vars
  <2>1. UNCHANGED <<state, parent, deps, done, req>>  BY <1>5 DEF vars
  <2> QED  BY <1>1, <2>1, NothingWritten DEF TypeOK
<1> QED  BY <1>2, <1>3, <1>4, <1>5 DEF Next

\* In the empty database there is nothing to refer to.
LEMMA InitTyped == Init => Typed
<1> SUFFICES ASSUME Init
             PROVE  Typed
  OBVIOUS
<1>1. TypeOK
  BY DEF Init, TypeOK, Relation, Call, Idle, Exists
<1> QED  BY <1>1 DEF Init, Typed, Idle

LEMMA TypedHolds == Spec => []Typed
<1>1. Init => Typed  BY InitTyped
<1>2. Typed /\ [Next]_vars => Typed'  BY NextKeepsTyped
<1> QED  BY <1>1, <1>2, PTL DEF Spec

-----------------------------------------------------------------------------
(* The invariant *)

OneWriter == \A c, d \in Client : req[c] # Idle /\ req[d] # Idle => c = d

IInv ==
  /\ TypeOK /\ OneWriter
  /\ NoParentCycle /\ NoDependencyCycle
  /\ \A c \in Client : Checked(req[c])

\* In the empty database there is nothing to go round.
LEMMA InitIInv == Init => IInv
<1> SUFFICES ASSUME Init
             PROVE  IInv
  OBVIOUS
<1>1. TypeOK
  BY InitTyped DEF Typed
<1>2. OneWriter /\ \A c \in Client : Checked(req[c])
  BY DEF Init, OneWriter, Checked, Idle
<1>3. Acyclic({})
  BY DEF Acyclic
<1>4. Edges(parent) = {}
  BY RootAssumption DEF Init, Edges
<1> QED
  BY <1>1, <1>2, <1>3, <1>4 DEF IInv, NoParentCycle, NoDependencyCycle, Init

\* A call that opens has just made its checks, and no other is open.
LEMMA OpenKeepsIInv ==
  ASSUME IInv, Engine = "sqlite", NEW c \in Client, NEW call \in Call,
         Open(c, call), Checked(call)
  PROVE  IInv'
<1>1. /\ UNCHANGED <<state, parent, deps, done>>
      /\ req' = [req EXCEPT ![c] = call]
      /\ \A d \in Client : req[d] = Idle
  BY DEF Open, Alone
<1>2. TypeOK'
  <2>1. req' \in [Client -> Call]
    BY <1>1 DEF IInv, TypeOK
  <2> QED  BY <1>1, <2>1, NothingWritten DEF IInv
<1>3. OneWriter'
  BY <1>1 DEF OneWriter, IInv, TypeOK
<1>4. (NoParentCycle /\ NoDependencyCycle)'
  BY <1>1 DEF IInv, NoParentCycle, NoDependencyCycle
<1>5. ASSUME NEW d \in Client
      PROVE  Checked(req[d])'
  <2>1. Checked(req[d]) /\ Checked(call)
    BY DEF IInv
  <2>2. req'[d] = IF d = c THEN call ELSE req[d]
    BY <1>1 DEF IInv, TypeOK
  <2>3. Checked(req'[d])
    BY <2>1, <2>2
  <2>4. Checked(req[d])' <=> Checked(req'[d])
    BY <1>1 DEF Checked, Linkable, PathExists, LiveEdges, Sound
  <2> QED  BY <2>3, <2>4
<1> QED  BY <1>2, <1>3, <1>4, <1>5 DEF IInv

\* So does a call that checks.
LEMMA CheckKeepsIInv ==
  ASSUME IInv, Engine = "sqlite", NEW c \in Client, Check(c)
  PROVE  IInv'
<1>1. PICK call \in Call : Open(c, call) /\ Checked(call)
  BY CheckOpens DEF IInv
<1> QED  BY <1>1, OpenKeepsIInv

\* Once no call is open, the invariant is what it says of the graphs.
LEMMA QuietIInv ==
  ASSUME TypeOK', (NoParentCycle /\ NoDependencyCycle)', \A d \in Client : req'[d] = Idle
  PROVE  IInv'
<1>1. OneWriter' /\ \A d \in Client : Checked(req[d])'
  BY DEF OneWriter, Checked, Idle
<1> QED  BY <1>1 DEF IInv

\* A call that ends was the only one.
LEMMA LastCall ==
  ASSUME IInv, NEW c \in Client, req[c] # Idle, Done(c)
  PROVE  \A d \in Client : req'[d] = Idle
BY DEF IInv, OneWriter, TypeOK, Done

\* A new row has edges of its own and none that lead to it.
LEMMA CreateKeepsIInv ==
  ASSUME IInv, NEW c \in Client, WriteCreate(c)
  PROVE  IInv'
<1> DEFINE t == req[c].task
           q == req[c].under
           on == req[c].on
<1>1. TypeOK /\ NoParentCycle /\ NoDependencyCycle  BY DEF IInv
<1>2. t \in Task /\ q \in Task \cup {Root} /\ on \in SUBSET Task /\ req[c] # Idle
  BY <1>1, CallFields DEF WriteCreate, Idle
<1>3. /\ ~Exists(t) /\ (q # Root => Exists(q)) /\ \A d \in on : Exists(d)
      /\ state' = [state EXCEPT ![t] = "live"]
      /\ parent' = [parent EXCEPT ![t] = q]
      /\ deps' = deps \cup {<<t, d>> : d \in on}
      /\ done' \in {done, done \cup {t}}
      /\ Done(c)
  BY DEF WriteCreate
<1>4. \A d \in Client : req'[d] = Idle
  BY <1>2, <1>3, LastCall
<1>5. TypeOK'
  BY <1>1, CreateKeepsTypes
<1>6. NoParentCycle'
  <2>1. parent \in Parents /\ parent' \in Parents  BY <1>1, <1>5 DEF TypeOK, Parents
  <2>2. q \in Task => t \notin Up(parent, q)
    <3>1. Edges(parent) \in Relation /\ \A x, y \in Task : <<x, y>> \in Edges(parent) <=> parent[x] = y
      BY <2>1, EdgesOfParents
    <3>2. ASSUME q \in Task
          PROVE  t \notin Up(parent, q)
      <4> DEFINE S == {u \in Task : Exists(u)}
      <4>1. \A x, y \in Task : <<x, y>> \in Edges(parent) /\ x \in S => y \in S
        BY <1>1, <3>1, RootAssumption DEF TypeOK
      <4>2. S \in SUBSET Task /\ q \in S  BY <1>3, <3>2, RootAssumption
      <4>3. Up(parent, q) \subseteq S
        <5> HIDE DEF S
        <5> QED  BY <3>1, <3>2, <4>1, <4>2, ChainIsLeast DEF Up
      <4> QED  BY <1>3, <4>3
    <3> QED  BY <3>2
  <2>3. parent'[t] = q /\ \A x \in Task \ {t} : parent'[x] = parent[x]
    BY <1>1, <1>2, <1>3 DEF TypeOK
  <2> QED  BY <1>1, <1>2, <2>1, <2>2, <2>3, OneMove DEF NoParentCycle
<1>7. NoDependencyCycle'
  <2>1. \A x \in Task : <<x, t>> \notin deps
    BY <1>1, <1>3 DEF TypeOK
  <2>2. t \notin on  BY <1>3
  <2>3. deps \in Relation  BY <1>1 DEF TypeOK
  <2>4. Acyclic(deps \cup {<<t, d>> : d \in on})
    BY <1>1, <1>2, <2>1, <2>2, <2>3, NewTaskEdges DEF NoDependencyCycle
  <2> QED  BY <1>3, <2>4 DEF NoDependencyCycle
<1> QED  BY <1>4, <1>5, <1>6, <1>7, QuietIInv

\* An edit or a move, with the parent it has checked.
LEMMA UpdateKeepsIInv ==
  ASSUME IInv, NEW c \in Client, WriteUpdate(c)
  PROVE  IInv'
<1> DEFINE t == req[c].task
           q == req[c].under
<1>1. TypeOK /\ NoParentCycle /\ NoDependencyCycle /\ Checked(req[c])  BY DEF IInv
<1>2. t \in Task /\ q \in Task \cup {Root} /\ req[c] # Idle /\ req[c].op = "update"
  BY <1>1, CallFields DEF WriteUpdate, Idle
<1>3. /\ Exists(t) /\ (q # Root => Exists(q))
      /\ parent' = [parent EXCEPT ![t] = q]
      /\ done' \in {done \ {t}, done \cup {t}}
      /\ UNCHANGED <<state, deps>> /\ Done(c)
  BY DEF WriteUpdate
<1>4. \A d \in Client : req'[d] = Idle
  BY <1>2, <1>3, LastCall
<1>5. TypeOK'
  BY <1>1, UpdateKeepsTypes
<1>6. NoParentCycle'
  <2>1. parent \in Parents /\ parent' \in Parents  BY <1>1, <1>5 DEF TypeOK, Parents
  <2>2. q \in Task => q = parent[t] \/ t \notin Up(parent, q)
    BY <1>1, <1>2 DEF Checked
  <2>3. parent'[t] = q /\ \A x \in Task \ {t} : parent'[x] = parent[x]
    BY <1>1, <1>2, <1>3 DEF TypeOK
  <2> QED  BY <1>1, <1>2, <2>1, <2>2, <2>3, OneMove DEF NoParentCycle
<1>7. NoDependencyCycle'
  BY <1>1, <1>3 DEF NoDependencyCycle
<1> QED  BY <1>4, <1>5, <1>6, <1>7, QuietIInv

\* An edge whose end does not lead back to its start.
LEMMA LinkKeepsIInv ==
  ASSUME IInv, NEW c \in Client, WriteLink(c)
  PROVE  IInv'
<1> DEFINE t == req[c].task
           d == req[c].on
<1>1. TypeOK /\ NoParentCycle /\ NoDependencyCycle /\ Checked(req[c])  BY DEF IInv
<1>2. t \in Task /\ d \in Task /\ req[c] # Idle /\ req[c].op = "link"
  BY <1>1, CallFields DEF WriteLink, Idle
<1>3. /\ Exists(t) /\ Exists(d) /\ deps' = deps \cup {<<t, d>>}
      /\ UNCHANGED <<state, parent, done>> /\ Done(c)
  BY DEF WriteLink
<1>4. \A e \in Client : req'[e] = Idle
  BY <1>2, <1>3, LastCall
<1>5. TypeOK'
  BY <1>1, LinkKeepsTypes
<1>6. deps \in Relation  BY <1>1 DEF TypeOK
<1>7. t \notin Chain(deps, d)
  <2>1. t # d /\ ~PathExists(d, t)
    BY <1>1, <1>2 DEF Checked, Linkable
  <2>2. Chain(deps, d) \in SUBSET Task /\ d \in Chain(deps, d)
        /\ \A x, y \in Task : <<x, y>> \in deps /\ x \in Chain(deps, d) => y \in Chain(deps, d)
    BY <1>2, <1>6, ChainIsClosed
  <2> DEFINE R == {d} \cup {u \in Task : PathExists(d, u)}
  <2>3. ASSUME NEW x \in Task, NEW y \in Task, <<x, y>> \in deps, x \in R
        PROVE  y \in R
    <3>1. CASE x = d
      <4>1. y \in Chain(deps, y)  BY <1>6, ChainIsClosed
      <4> QED  BY <2>3, <3>1, <4>1 DEF PathExists
    <3>2. CASE PathExists(d, x)
      <4>1. PICK w \in Task : <<d, w>> \in deps /\ x \in Chain(deps, w)
        BY <3>2 DEF PathExists
      <4>2. y \in Chain(deps, w)  BY <1>6, <2>3, <4>1, ChainIsClosed
      <4> QED  BY <4>1, <4>2 DEF PathExists
    <3> QED  BY <2>3, <3>1, <3>2
  <2>4. R \in SUBSET Task /\ d \in R
    BY <1>2
  <2>5. \A x, y \in Task : <<x, y>> \in deps /\ x \in R => y \in R
    BY <2>3
  <2>6. Chain(deps, d) \subseteq R
    <3> HIDE DEF R
    <3> QED  BY <1>2, <1>6, <2>4, <2>5, ChainIsLeast
  <2> QED  BY <1>2, <2>1, <2>6
<1>8. NoDependencyCycle'
  <2>1. Acyclic(deps \cup {<<t, d>>})
    BY <1>1, <1>2, <1>6, <1>7, OneMoreEdge DEF NoDependencyCycle
  <2> QED  BY <1>3, <2>1 DEF NoDependencyCycle
<1>9. NoParentCycle'
  BY <1>1, <1>3 DEF NoParentCycle
<1> QED  BY <1>4, <1>5, <1>8, <1>9, QuietIInv

\* Rows that go leave fewer edges, and none that leads to them.
LEMMA RemoveKeepsGraphs ==
  ASSUME TypeOK, NoParentCycle, NoDependencyCycle, NEW gone \in SUBSET Task,
         Remove(gone), req' \in [Client -> Call]
  PROVE  TypeOK' /\ (NoParentCycle /\ NoDependencyCycle)'
<1>1. /\ state' = [t \in Task |-> IF t \in gone THEN "none" ELSE state[t]]
      /\ parent' = [t \in Task |-> IF t \in gone \/ parent[t] \in gone THEN Root ELSE parent[t]]
      /\ deps' = {e \in deps : e[1] \notin gone /\ e[2] \notin gone}
      /\ done' = done \ gone
  BY DEF Remove
<1>2. parent \in Parents /\ parent' \in Parents
  BY <1>1 DEF TypeOK, Parents
<1>3. TypeOK'
  BY RemoveKeepsTypes
<1>4. NoParentCycle'
  <2>1. Edges(parent') \in Relation /\ \A x, y \in Task : <<x, y>> \in Edges(parent') <=> parent'[x] = y
    BY <1>2, EdgesOfParents
  <2>2. \A x, y \in Task : <<x, y>> \in Edges(parent) <=> parent[x] = y
    BY <1>2, EdgesOfParents
  <2>3. \A x, y \in Task : <<x, y>> \in Edges(parent') => <<x, y>> \in Edges(parent)
    BY <1>1, <2>1, <2>2, RootAssumption
  <2>4. Edges(parent') \subseteq Edges(parent)
    BY <2>1, <2>3, PairsOf
  <2>5. Acyclic(Edges(parent'))
    BY <2>4, FewerEdges DEF NoParentCycle
  <2> QED  BY <2>5 DEF NoParentCycle, Edges
<1>5. NoDependencyCycle'
  <2>1. deps' \subseteq deps  BY <1>1
  <2>2. Acyclic(deps')  BY <2>1, FewerEdges DEF NoDependencyCycle
  <2> QED  BY <2>2 DEF NoDependencyCycle
<1> QED  BY <1>3, <1>4, <1>5

\* A deleted row keeps its edges and its parent.
LEMMA TrashKeepsGraphs ==
  ASSUME TypeOK, NoParentCycle, NoDependencyCycle, NEW S \in SUBSET Task,
         \A t \in S : Exists(t), Trash(S), req' \in [Client -> Call]
  PROVE  TypeOK' /\ (NoParentCycle /\ NoDependencyCycle)'
<1>1. TypeOK'
  BY TrashKeepsTypes
<1> QED  BY <1>1 DEF Trash, NoParentCycle, NoDependencyCycle

\* A delete, hard or soft.
LEMMA DeleteKeepsIInv ==
  ASSUME IInv, NEW c \in Client, WriteDelete(c)
  PROVE  IInv'
<1>1. TypeOK /\ NoParentCycle /\ NoDependencyCycle  BY DEF IInv
<1>2. req[c].order \in SUBSET Task /\ req[c] # Idle /\ Done(c)
  BY <1>1, CallFields DEF WriteDelete, Idle
<1>3. \A d \in Client : req'[d] = Idle
  BY <1>2, LastCall
<1>4. req' \in [Client -> Call]
  BY <1>1, <1>2 DEF TypeOK, Done, Call, Idle
<1>5. CASE Remove(req[c].order)
  <2>1. TypeOK' /\ (NoParentCycle /\ NoDependencyCycle)'
    BY <1>1, <1>2, <1>4, <1>5, RemoveKeepsGraphs
  <2> QED  BY <1>3, <2>1, QuietIInv
<1>6. CASE Trash(req[c].order) /\ \A t \in req[c].order : state[t] = "live"
  <2>1. \A t \in req[c].order : Exists(t)  BY <1>6 DEF Exists
  <2>2. TypeOK' /\ (NoParentCycle /\ NoDependencyCycle)'
    BY <1>1, <1>2, <1>4, <1>6, <2>1, TrashKeepsGraphs
  <2> QED  BY <1>3, <2>2, QuietIInv
<1> QED  BY <1>5, <1>6 DEF WriteDelete

\* An import links the tasks whose links it accepted.
LEMMA ImportKeepsIInv ==
  ASSUME IInv, NEW c \in Client, WriteImport(c)
  PROVE  IInv'
<1> DEFINE links == req[c].links
           D == DOMAIN links
           over == Overlay(parent, links)
<1>1. TypeOK /\ NoParentCycle /\ NoDependencyCycle /\ Checked(req[c])  BY DEF IInv
<1>2. /\ D \in SUBSET Task /\ req[c].accepted \in SUBSET Task
      /\ req[c] # Idle /\ req[c].op = "import"
  BY <1>1, CallFields DEF WriteImport, Idle
<1>3. /\ \A t \in req[c].accepted : Exists(t) /\ Exists(links[t])
      /\ parent' = [t \in Task |-> IF t \in req[c].accepted THEN links[t] ELSE parent[t]]
      /\ UNCHANGED <<state, deps, done>> /\ Done(c)
  BY DEF WriteImport
<1>4. \A d \in Client : req'[d] = Idle
  BY <1>2, <1>3, LastCall
<1>5. req[c].accepted = Sound(links) /\ \A t \in D : links[t] \in Task
  BY <1>1, <1>2 DEF Checked
<1>6. \A t \in D : over[t] = links[t]
  BY <1>2 DEF Overlay
<1>7. req[c].accepted = {t \in D : ~ClosesCycle(over, t, over[t])}
  BY <1>5, <1>6 DEF Sound
<1>8. \A t \in req[c].accepted : links[t] \in Task
  BY <1>5, <1>7
<1>9. TypeOK'
  BY <1>1, <1>5, <1>8, ImportKeepsTypes
<1>10. NoParentCycle'
  <2>1. parent \in Parents /\ parent' \in Parents  BY <1>1, <1>9 DEF TypeOK, Parents
  <2>2. over \in Parents
    BY <1>2, <1>5, <2>1 DEF Overlay, Parents
  <2>3. \A t \in D : over[t] \in Task
    BY <1>5, <1>6
  <2>4. \A t \in Task \ D : over[t] = parent[t]
    BY DEF Overlay
  <2>5. \A t \in D : ~ClosesCycle(over, t, over[t]) => parent'[t] = over[t]
    BY <1>2, <1>3, <1>6, <1>7
  <2>6. \A t \in Task : (t \in D /\ ~ClosesCycle(over, t, over[t])) \/ parent'[t] = parent[t]
    BY <1>3, <1>7
  <2>7. Acyclic(Edges(parent))  BY <1>1 DEF NoParentCycle
  <2> HIDE DEF over, D
  <2>8. Acyclic(Edges(parent'))
    BY <1>2, <2>1, <2>2, <2>3, <2>4, <2>5, <2>6, <2>7, ImportKeepsForest
  <2> QED  BY <2>8 DEF NoParentCycle, Edges
<1>11. NoDependencyCycle'
  BY <1>1, <1>3 DEF NoDependencyCycle
<1> QED  BY <1>4, <1>9, <1>10, <1>11, QuietIInv

\* The calls that are one statement run when no other is open.
LEMMA StatementKeepsIInv ==
  ASSUME IInv, Engine = "sqlite", NEW t \in Task,
         \/ RestoreTask(t) \/ Rewrite(t) \/ TrashFinished(t)
         \/ PurgeTrashed(t) \/ Tombstone(t) \/ RemoveAbsent(t)
         \/ \E d \in Task : RemoveDependency(t, d)
  PROVE  IInv'
<1>1. TypeOK /\ NoParentCycle /\ NoDependencyCycle  BY DEF IInv
<1>2. Alone /\ UNCHANGED req
  BY DEF RestoreTask, Rewrite, TrashFinished, PurgeTrashed, Tombstone, RemoveAbsent, RemoveDependency
<1>3. \A d \in Client : req'[d] = Idle
  BY <1>2 DEF Alone
<1>4. req' \in [Client -> Call]
  BY <1>1, <1>2 DEF TypeOK
<1> SUFFICES TypeOK' /\ (NoParentCycle /\ NoDependencyCycle)'
  BY <1>3, QuietIInv
<1>5. CASE RestoreTask(t)
  <2>1. state' = [state EXCEPT ![t] = "live"] /\ Exists(t) /\ UNCHANGED <<parent, deps, done>>
    BY <1>5 DEF RestoreTask, Exists
  <2>2. TypeOK'
    BY <1>1, <1>5, StatementKeepsTypes
  <2> QED  BY <1>1, <2>1, <2>2 DEF NoParentCycle, NoDependencyCycle
<1>6. CASE Rewrite(t)
  <2>1. /\ Exists(t) /\ state' = [state EXCEPT ![t] = "live"]
        /\ parent' = [parent EXCEPT ![t] = Root]
        /\ done' \in {done \ {t}, done \cup {t}} /\ UNCHANGED deps
    BY <1>6 DEF Rewrite
  <2>2. TypeOK'
    BY <1>1, <1>6, StatementKeepsTypes
  <2>3. parent \in Parents /\ parent' \in Parents  BY <1>1, <2>2 DEF TypeOK, Parents
  <2>4. parent'[t] = Root /\ \A x \in Task \ {t} : parent'[x] = parent[x]
    BY <1>1, <2>1 DEF TypeOK
  <2>5. Acyclic(Edges(parent'))
    BY <1>1, <2>3, <2>4, OneMove, RootAssumption DEF NoParentCycle
  <2> QED  BY <1>1, <2>1, <2>2, <2>5 DEF NoParentCycle, NoDependencyCycle, Edges
<1>7. CASE TrashFinished(t) \/ Tombstone(t)
  <2>1. Trash({t}) /\ \A u \in {t} : Exists(u)
    BY <1>7 DEF TrashFinished, Tombstone, Exists
  <2> QED  BY <1>1, <1>4, <2>1, TrashKeepsGraphs
<1>8. CASE PurgeTrashed(t) \/ RemoveAbsent(t)
  <2>1. Remove({t})
    BY <1>8 DEF PurgeTrashed, RemoveAbsent
  <2> QED  BY <1>1, <1>4, <2>1, RemoveKeepsGraphs
<1>9. ASSUME NEW d \in Task, RemoveDependency(t, d)
      PROVE  TypeOK' /\ (NoParentCycle /\ NoDependencyCycle)'
  <2>1. deps' \subseteq deps /\ UNCHANGED <<state, parent, done>>
    BY <1>9 DEF RemoveDependency
  <2>2. TypeOK'
    BY <1>1, <1>9, StatementKeepsTypes
  <2>3. Acyclic(deps')
    BY <1>1, <2>1, FewerEdges DEF NoDependencyCycle
  <2> QED  BY <1>1, <2>1, <2>2, <2>3 DEF NoParentCycle, NoDependencyCycle
<1> QED  BY <1>5, <1>6, <1>7, <1>8, <1>9

\* A call that is refused leaves everything as it was.
LEMMA AbortKeepsIInv ==
  ASSUME IInv, NEW c \in Client, Abort(c)
  PROVE  IInv'
<1>1. TypeOK /\ NoParentCycle /\ NoDependencyCycle  BY DEF IInv
<1>2. UNCHANGED <<state, parent, deps, done>> /\ req[c] # Idle /\ Done(c)
  BY DEF Abort, Done
<1>3. \A d \in Client : req'[d] = Idle
  BY <1>2, LastCall
<1>4. TypeOK'
  <2>1. req' \in [Client -> Call]
    BY <1>1, <1>2 DEF TypeOK, Done, Call, Idle
  <2> QED  BY <1>1, <1>2, <2>1, NothingWritten
<1> QED  BY <1>1, <1>2, <1>3, <1>4, QuietIInv DEF NoParentCycle, NoDependencyCycle

\* The invariant is inductive on the single writer.
LEMMA NextKeepsIInv ==
  ASSUME IInv, Engine = "sqlite", [Next]_vars
  PROVE  IInv'
<1>1. ASSUME NEW c \in Client, Check(c) \/ Write(c) \/ Abort(c)
      PROVE  IInv'
  <2>1. CASE Check(c)  BY <2>1, CheckKeepsIInv
  <2>2. CASE Abort(c)  BY <2>2, AbortKeepsIInv
  <2>3. CASE Write(c)
    BY <2>3, CreateKeepsIInv, UpdateKeepsIInv, LinkKeepsIInv, DeleteKeepsIInv, ImportKeepsIInv
       DEF Write
  <2> QED  BY <1>1, <2>1, <2>2, <2>3
<1>2. CASE UNCHANGED vars
  <2>1. UNCHANGED <<state, parent, deps, done, req>>  BY <1>2 DEF vars
  <2> QED
    BY <2>1 DEF IInv, TypeOK, Exists, OneWriter, NoParentCycle, NoDependencyCycle, Checked,
                Linkable, PathExists, LiveEdges, Sound
<1> QED  BY <1>1, <1>2, StatementKeepsIInv DEF Next


-----------------------------------------------------------------------------
(* What follows from it *)

\* While some unfinished task is there, one of them waits for none of them.
LEMMA NoDeadlock == IInv => SomeTaskCanStart
<1> SUFFICES ASSUME IInv, Unfinished # {}
             PROVE  \E t \in Unfinished : \A d \in Unfinished : <<t, d>> \notin deps
  BY DEF SomeTaskCanStart
<1>1. Unfinished \in SUBSET Task  BY DEF Unfinished
<1> QED  BY <1>1 DEF IInv, NoDependencyCycle, Acyclic

\* In a sound hierarchy no link is rejected.
LEMMA WholeImport == IInv => SoundImportIsWhole
<1> SUFFICES ASSUME IInv, NEW c \in Client, req[c].op = "import",
                    Acyclic(Edges(Overlay(parent, req[c].links)))
             PROVE  req[c].accepted = DOMAIN req[c].links
  BY DEF SoundImportIsWhole
<1> DEFINE links == req[c].links
           D == DOMAIN links
           over == Overlay(parent, links)
<1>1. TypeOK /\ Checked(req[c])  BY DEF IInv
<1>2. D \in SUBSET Task  BY <1>1, CallFields
<1>3. req[c].accepted = Sound(links) /\ \A t \in D : links[t] \in Task
  BY <1>1 DEF Checked
<1>4. \A t \in D : over[t] = links[t]
  BY <1>2 DEF Overlay
<1>5. over \in Parents
  BY <1>1, <1>2, <1>3 DEF Overlay, Parents, TypeOK
<1>6. \A t \in D : t \in Task /\ over[t] \in Task
  BY <1>2, <1>3, <1>4
<1>7. ASSUME NEW t \in D
      PROVE  ~ClosesCycle(over, t, over[t])
  <2> HIDE DEF over, D
  <2> QED  BY <1>5, <1>6, ForestHasNoCycle DEF over
<1> QED  BY <1>3, <1>4, <1>7 DEF Sound

\* What a delete takes is closed under the listing of children, and what the
\* rule for finished tasks takes has no children.
LEMMA NoOrphans ==
  ASSUME IInv,
         (\E c \in Client : WriteDelete(c)) \/ (\E t \in Task : TrashFinished(t)),
         NEW u \in Task, state[u] = "live", state'[u] = "live",
         parent[u] # Root, state[parent[u]] = "live"
  PROVE  state'[parent[u]] = "live"
<1>1. TypeOK  BY DEF IInv
<1>2. parent[u] \in Task  BY <1>1 DEF TypeOK
<1>3. ASSUME NEW c \in Client, WriteDelete(c)
      PROVE  state'[parent[u]] = "live"
  <2>1. LiveEdges \in Relation  BY DEF LiveEdges, Relation
  <2>2. Closed(LiveEdges, req[c].order)
    BY <1>3 DEF IInv, Checked, WriteDelete
  <2>3. <<parent[u], u>> \in LiveEdges
    BY <1>2 DEF LiveEdges
  <2>4. parent[u] \in req[c].order => u \in req[c].order
    BY <1>2, <2>1, <2>2, <2>3, ClosedPairs
  <2>5. u \notin req[c].order
    BY <1>3 DEF WriteDelete, Remove, Trash
  <2> QED  BY <1>2, <1>3, <2>4, <2>5 DEF WriteDelete, Remove, Trash
<1>4. ASSUME NEW t \in Task, TrashFinished(t)
      PROVE  state'[parent[u]] = "live"
  <2>1. parent[u] # t  BY <1>4 DEF TrashFinished, NoLiveChild
  <2> QED  BY <1>2, <1>4, <2>1 DEF TrashFinished, Trash
<1> QED  BY <1>3, <1>4

\* The loop that judges the links of an import walks over links to tasks.
LEMMA RightWalks ==
  ASSUME IsFiniteSet(Task), Typed
  PROVE  WalkFindsTheCycle
<1> SUFFICES ASSUME NEW c \in Client, req[c].op = "import", NEW t \in DOMAIN req[c].links
             PROVE  LET p == Overlay(parent, req[c].links)
                    IN Walk(p, t, p[t]) = ClosesCycle(p, t, p[t])
  BY DEF WalkFindsTheCycle
<1> DEFINE links == req[c].links
           p == Overlay(parent, links)
<1>1. links \in Link
  BY DEF Typed, TypeOK, Call
<1>2. DOMAIN links \in SUBSET Task /\ \A u \in DOMAIN links : links[u] \in Task
  BY <1>1 DEF Link
<1>3. p \in Parents
  BY <1>2 DEF Typed, TypeOK, Overlay, Parents
<1>4. t \in Task /\ p[t] \in Task
  BY <1>2 DEF Overlay
<1> HIDE DEF p
<1> QED  BY <1>3, <1>4, WalkIsRight DEF p

-----------------------------------------------------------------------------
(* The theorems on either engine *)

\* Rows keep their types, and no parent or dependency refers to a missing one,
\* however the calls of several clients interleave.
THEOREM TypesAndForeignKeys == Spec => []TypeOK
<1>1. Typed => TypeOK  BY DEF Typed
<1> QED  BY <1>1, TypedHolds, PTL

\* The loop by which an import judges its links ends, and answers what the
\* chain of each link shows, for any finite number of tasks.
THEOREM WalksFindCycles ==
  ASSUME IsFiniteSet(Task)
  PROVE  Spec => []WalkFindsTheCycle
BY RightWalks, TypedHolds, PTL

-----------------------------------------------------------------------------
(* The theorems on the single writer *)

\* The invariant holds of every reachable state.
LEMMA InvariantHolds ==
  ASSUME Engine = "sqlite"
  PROVE  Spec => []IInv
<1>1. Init => IInv  BY InitIInv
<1>2. IInv /\ [Next]_vars => IInv'  BY NextKeepsIInv
<1> QED  BY <1>1, <1>2, PTL DEF Spec

\* No sequence of moves, imports, deletes and restores makes a task its own
\* ancestor.
THEOREM ParentsAreAForest ==
  ASSUME Engine = "sqlite"
  PROVE  Spec => []NoParentCycle
<1>1. IInv => NoParentCycle  BY DEF IInv
<1> QED  BY <1>1, InvariantHolds, PTL

\* No task ever waits for itself.
THEOREM DependenciesAreAcyclic ==
  ASSUME Engine = "sqlite"
  PROVE  Spec => []NoDependencyCycle
<1>1. IInv => NoDependencyCycle  BY DEF IInv
<1> QED  BY <1>1, InvariantHolds, PTL

\* Unfinished tasks never all wait for one another.
THEOREM WorkNeverDeadlocks ==
  ASSUME Engine = "sqlite"
  PROVE  Spec => []SomeTaskCanStart
BY NoDeadlock, InvariantHolds, PTL

\* An import whose hierarchy is sound loses none of its links.
THEOREM ImportsAreWhole ==
  ASSUME Engine = "sqlite"
  PROVE  Spec => []SoundImportIsWhole
BY WholeImport, InvariantHolds, PTL

\* No live child is left under a parent that a delete or the rule for finished
\* tasks took.
THEOREM DeletesOrphanNobody ==
  ASSUME Engine = "sqlite"
  PROVE  Spec => DeleteOrphansNobody
<1>1. IInv /\ [Next]_vars =>
        [(\E c \in Client : WriteDelete(c)) \/ (\E t \in Task : TrashFinished(t))
         => \A u \in Task :
              /\ state[u] = "live" /\ state'[u] = "live"
              /\ parent[u] # Root /\ state[parent[u]] = "live"
              => state'[parent[u]] = "live"]_vars
  BY NoOrphans
<1> QED  BY <1>1, InvariantHolds, PTL DEF Spec, DeleteOrphansNobody
=============================================================================
