------------------------ MODULE ServerProcess_proofs ------------------------
(***************************************************************************)
(* For any number of processes and workers, and any number of faults: a    *)
(* process that stopped by itself has taken its row with it.               *)
(***************************************************************************)
EXTENDS ServerProcess, TLAPS

\* The types are kept by every step.
LEMMA TypesKept == TypeOK /\ [Next]_vars => TypeOK'
<1> SUFFICES ASSUME TypeOK, [Next]_vars
             PROVE  TypeOK'
  OBVIOUS
<1> USE WorkerAssumption, AgeAssumption, FaultAssumption, StaffAssumption
<1>a. Absent \in Nat /\ Forget \in Nat /\ 0 \in Age
  BY DEF Absent, Age
<1>b. \A s \in Server, w \in Worker, p \in Place : Goes(s, w, p) => pc' \in [Server -> [Worker -> Place]]
  BY DEF TypeOK, Goes
<1>c. \A s \in Server, w \in Worker, b \in BOOLEAN : Arms(s, w, b) => armed' \in [Server -> [Worker -> BOOLEAN]]
  BY DEF TypeOK, Arms
<1>d. Fault => faults' \in 0 .. MaxFaults
  BY DEF TypeOK, Fault
<1>e. \A s \in Server : WriteFails(s) => faults' \in 0 .. MaxFaults
  BY <1>d DEF TypeOK, WriteFails
<1>f. \A s \in Server : Written(s) => row' \in [Server -> Age \cup {Absent}]
  BY <1>a DEF TypeOK, Written
<1>g. \A s \in Server, w \in Worker :
        Entered(s, w) => /\ pc' \in [Server -> [Worker -> Place]]
                         /\ armed' \in [Server -> [Worker -> BOOLEAN]]
  BY <1>b, <1>c DEF TypeOK, Entered, Place
<1>1. ASSUME NEW s \in Server, NEW w \in Worker, Fire(s, w) \/ Pass(s, w) \/ GiveUp(s, w)
      PROVE  TypeOK'
  BY <1>1, <1>b DEF TypeOK, Fire, Pass, GiveUp, registry, Place
<1>2. ASSUME NEW s \in Server, NEW w \in Worker, Restart(s, w)
      PROVE  TypeOK'
  BY <1>2, <1>g DEF TypeOK, Restart, registry
<1>3. ASSUME NEW s \in Server, NEW w \in Worker, Leave(s, w)
      PROVE  TypeOK'
  BY <1>3, <1>b, <1>c DEF TypeOK, Leave, registry, Place
<1>4. ASSUME NEW s \in Server, NEW w \in Worker, Panic(s, w)
      PROVE  TypeOK'
  <2>1. /\ row' \in [Server -> Age \cup {Absent}] /\ registered' \in [Server -> BOOLEAN]
        /\ left' \in [Server -> BOOLEAN]
    BY <1>4, <1>f DEF TypeOK, Panic, HalfDone, registry
  <2> QED  BY <1>4, <1>b, <1>c, <1>d, <2>1 DEF TypeOK, Panic, Place, Recovered
<1>5. ASSUME NEW s \in Server, Register(s) \/ RegisterFails(s)
      PROVE  /\ row' \in [Server -> Age \cup {Absent}] /\ registered' \in [Server -> BOOLEAN]
             /\ left' = left /\ faults' \in 0 .. MaxFaults
  BY <1>5, <1>e, <1>f DEF TypeOK, Register, RegisterFails
<1>6. ASSUME NEW s \in Server, Beat(s) \/ BeatFails(s)
      PROVE  /\ row' \in [Server -> Age \cup {Absent}] /\ registered' \in [Server -> BOOLEAN]
             /\ left' = left /\ faults' \in 0 .. MaxFaults
  BY <1>6, <1>e, <1>a DEF TypeOK, Beat, BeatFails, Missing, registry
<1>7. ASSUME NEW s \in Server, Start(s)
      PROVE  TypeOK'
  <2>1. "waiting" \in Place  BY DEF Place
  <2> QED  BY <1>7, <1>5, <1>b, <1>c, <2>1 DEF TypeOK, Start
<1>8. ASSUME NEW s \in Server, Refresh(s)
      PROVE  TypeOK'
  <2>1. "waiting" \in Place  BY DEF Place
  <2> QED  BY <1>8, <1>5, <1>6, <1>b, <2>1 DEF TypeOK, Refresh
<1>9. ASSUME NEW s \in Server, RemoveOnStop(s)
      PROVE  TypeOK'
  <2>1. row' \in [Server -> Age \cup {Absent}] /\ left' \in [Server -> BOOLEAN]
        /\ faults' \in 0 .. MaxFaults
    BY <1>9, <1>d DEF TypeOK, RemoveOnStop
  <2>2. "ended" \in Place /\ Recovered \in Place  BY DEF Place, Recovered
  <2> QED  BY <1>9, <1>b, <2>1, <2>2 DEF TypeOK, RemoveOnStop
<1>10. ASSUME NEW s \in Server, Serve(s)
       PROVE  TypeOK'
  BY <1>10 DEF TypeOK, Serve, registry, Place, Main
<1>11. ASSUME NEW s \in Server, Shutdown(s) \/ AcceptFails(s)
       PROVE  TypeOK'
  BY <1>11, <1>d DEF TypeOK, Shutdown, AcceptFails, registry, Main
<1>12. ASSUME NEW s \in Server, Return(s) \/ Kill(s)
       PROVE  TypeOK'
  <2>1. PICK how \in Main : Exit(s, how)
    BY <1>12 DEF Return, Kill, Main
  <2>2. [w \in Worker |-> "ended"] \in [Worker -> Place]
        /\ [w \in Worker |-> FALSE] \in [Worker -> BOOLEAN]
    BY DEF Place
  <2> QED  BY <2>1, <2>2 DEF TypeOK, Exit
<1>13. ASSUME NEW s \in Server, Cancel(s)
       PROVE  TypeOK'
  BY <1>13 DEF TypeOK, Cancel, registry
<1>14. ASSUME NEW s \in Server, Lose(s)
       PROVE  TypeOK'
  BY <1>14, <1>d DEF TypeOK, Lose
<1>15. CASE Clock
  <2>1. \A age \in Age \cup {Absent} : Older(age) \in Age \cup {Absent}
    BY DEF Older, Age, Absent
  <2> QED  BY <1>15, <2>1 DEF TypeOK, Clock
<1>16. CASE UNCHANGED vars
  BY <1>16 DEF TypeOK, vars, registry
<1> QED
  BY <1>1, <1>2, <1>3, <1>4, <1>7, <1>8, <1>9, <1>10, <1>11, <1>12, <1>13, <1>14, <1>15, <1>16
     DEF Next, WorkerStep

\* Every variable keeps its type.
THEOREM ProcessTypes == Spec => []TypeOK
<1>1. Init => TypeOK
  BY AgeAssumption, FaultAssumption DEF Init, TypeOK, Main, Place, Age, Absent
<1> QED  BY <1>1, TypesKept, PTL DEF Spec

-----------------------------------------------------------------------------
(* The row *)

\* While its registrar is not in its loop, a process has no row, unless it
\* left the last one behind.
Tidy(s) ==
  /\ row[s] # Absent /\ main[s] # "killed"
  /\ main[s] = "new" \/ pc[s][Registrar] \in {"starting", "resting", "ended"}
  => left[s]

IInv == TypeOK /\ \A s \in Server : Tidy(s)

\* The loop is entered after a registration and left through a removal.
LEMMA TidyKept == IInv /\ [Next]_vars => IInv'
<1> SUFFICES ASSUME IInv, [Next]_vars, NEW s \in Server
             PROVE  Tidy(s)'
  BY TypesKept DEF IInv
<1> USE WorkerAssumption, AgeAssumption, StaffAssumption
<1>a. TypeOK /\ Tidy(s) /\ TypeOK'  BY TypesKept DEF IInv
<1>b. \A t \in Server, w \in Worker, p \in Place : Goes(t, w, p) =>
        pc'[s][Registrar] = IF t = s /\ w = Registrar THEN p ELSE pc[s][Registrar]
  BY <1>a DEF TypeOK, Goes
<1>c. \A t \in Server : Written(t) /\ t # s => row'[s] = row[s] \/ row'[s] = Absent
  BY DEF Written
<1>1. ASSUME NEW t \in Server, NEW w \in Worker,
             \/ Fire(t, w) \/ Pass(t, w) \/ GiveUp(t, w) \/ Restart(t, w)
             \/ Leave(t, w)
      PROVE  Tidy(s)'
  <2>1. UNCHANGED <<main, row, left>>
    BY <1>1 DEF Fire, Pass, GiveUp, Restart, Leave, registry
  <2>2. pc'[s][Registrar] \in {"starting", "resting", "ended"}
        => pc[s][Registrar] \in {"starting", "resting", "ended"}
    <3>1. CASE Fire(t, w) \/ Pass(t, w)
      BY <3>1, <1>b DEF Fire, Pass, Place
    <3>2. CASE GiveUp(t, w)
      BY <3>2, <1>b DEF GiveUp, At, Place
    <3>3. CASE Restart(t, w)
      BY <3>3, <1>b DEF Restart, Entered, At, Place
    <3>4. CASE Leave(t, w)
      BY <3>4, <1>b DEF Leave, Place
    <3> QED  BY <1>1, <3>1, <3>2, <3>3, <3>4
  <2> QED  BY <1>a, <2>1, <2>2 DEF Tidy
<1>2. ASSUME NEW t \in Server, Start(t) \/ Refresh(t)
      PROVE  Tidy(s)'
  <2>1. UNCHANGED <<main, left>> /\ Goes(t, Registrar, "waiting")
    BY <1>2 DEF Start, Refresh, Register, RegisterFails, Beat, BeatFails, registry
  <2>2. t # s => row'[s] = row[s] \/ row'[s] = Absent
    BY <1>2, <1>a, <1>c
       DEF Start, Refresh, Register, RegisterFails, Beat, BeatFails, registry, TypeOK
  <2>3. "waiting" \in Place  BY DEF Place
  <2>4. pc'[s][Registrar] = IF t = s THEN "waiting" ELSE pc[s][Registrar]
    BY <1>b, <2>1, <2>3
  <2>5. main[t] # "new"  BY <1>2 DEF Start, Refresh, At, Alive
  <2> QED  BY <1>a, <2>1, <2>2, <2>4, <2>5 DEF Tidy
<1>3. ASSUME NEW t \in Server, RemoveOnStop(t)
      PROVE  Tidy(s)'
  <2>1. CASE t = s
    <3>1. main[s] # "new" /\ UNCHANGED main  BY <1>3, <2>1 DEF RemoveOnStop, At, Alive
    <3>2. row'[s] = Absent \/ left'[s]
      BY <1>3, <1>a, <2>1 DEF RemoveOnStop, TypeOK
    <3> QED  BY <3>1, <3>2 DEF Tidy
  <2>2. CASE t # s
    <3>1. UNCHANGED main /\ row'[s] = row[s] /\ left'[s] = left[s]
      BY <1>3, <1>a, <2>2 DEF RemoveOnStop, TypeOK
    <3>2. pc'[s][Registrar] = pc[s][Registrar]
      BY <1>3, <1>b, <2>2 DEF RemoveOnStop, Place, Recovered
    <3> QED  BY <1>a, <3>1, <3>2 DEF Tidy
  <2> QED  BY <2>1, <2>2
<1>4. ASSUME NEW t \in Server, Serve(t)
      PROVE  Tidy(s)'
  <2>1. UNCHANGED <<row, left>> /\ main'[s] = IF t = s THEN "serving" ELSE main[s]
    BY <1>4, <1>a DEF Serve, registry, TypeOK
  <2>2. CASE t = s
    <3>1. row[s] # Absent => left[s]
      BY <1>4, <2>2, <1>a DEF Serve, Tidy, IInv
    <3> QED  BY <2>1, <3>1 DEF Tidy
  <2>3. CASE t # s
    <3>1. pc'[s] = pc[s]  BY <1>4, <1>a, <2>3 DEF Serve, TypeOK
    <3> QED  BY <1>a, <2>1, <2>3, <3>1 DEF Tidy
  <2> QED  BY <2>2, <2>3
<1>5. ASSUME NEW t \in Server, Shutdown(t) \/ AcceptFails(t) \/ Cancel(t)
      PROVE  Tidy(s)'
  BY <1>5, <1>a DEF Shutdown, AcceptFails, Cancel, registry, Tidy, TypeOK
<1>6. ASSUME NEW t \in Server, Return(t) \/ Kill(t)
      PROVE  Tidy(s)'
  BY <1>6, <1>a DEF Return, WorkersEnded, Kill, Exit, Tidy, TypeOK
<1>7. ASSUME NEW t \in Server, Lose(t)
      PROVE  Tidy(s)'
  BY <1>7, <1>a DEF Lose, Tidy, TypeOK
<1>8. CASE Clock
  <2>1. Older(Absent) = Absent  BY DEF Older, Absent
  <2> QED  BY <1>8, <1>a, <2>1 DEF Clock, Tidy, TypeOK
<1>9. CASE UNCHANGED vars
  BY <1>9, <1>a DEF vars, registry, Tidy
<1>10. ASSUME NEW t \in Server, NEW w \in Worker, Panic(t, w)
       PROVE  Tidy(s)'
  <2>1. main' = main /\ main[t] # "new"  BY <1>10 DEF Panic, At, Alive
  <2>2. \/ row' = row /\ left' = left
        \/ /\ w = Registrar /\ Written(t)
           /\ left' = [left EXCEPT ![t] = @ \/ pc[t][w] = "starting"]
    BY <1>10 DEF Panic, HalfDone, registry
  <2>3. \/ pc'[s][Registrar] = pc[s][Registrar]
        \/ t = s /\ w = Registrar /\ pc[s][Registrar] = "starting"
        \/ t = s /\ w = Registrar /\ pc'[s][Registrar] = "falling"
    BY <1>10, <1>b DEF Panic, At, Place, Recovered
  <2>4. CASE row' = row /\ left' = left
    BY <1>a, <2>1, <2>3, <2>4 DEF Tidy
  <2>5. CASE w = Registrar /\ Written(t) /\ left' = [left EXCEPT ![t] = @ \/ pc[t][w] = "starting"]
    <3>1. CASE t = s
      <4>1. pc[s][Registrar] = "starting" => left'[s]  BY <1>a, <2>5, <3>1 DEF TypeOK
      <4>2. pc[s][Registrar] # "starting" => pc'[s][Registrar] = "falling"
        BY <1>10, <1>b, <2>5, <3>1 DEF Panic, At, Place
      <4> QED  BY <2>1, <3>1, <4>1, <4>2 DEF Tidy
    <3>2. CASE t # s
      <4>1. row'[s] = row[s] \/ row'[s] = Absent  BY <1>c, <2>5, <3>2
      <4>2. left'[s] = left[s]  BY <1>a, <2>5, <3>2 DEF TypeOK
      <4>3. pc'[s][Registrar] = pc[s][Registrar]  BY <1>10, <1>b, <3>2 DEF Panic, Place, Recovered
      <4> QED  BY <1>a, <2>1, <4>1, <4>2, <4>3 DEF Tidy
    <3> QED  BY <3>1, <3>2
  <2> QED  BY <2>2, <2>4, <2>5
<1> QED
  BY <1>1, <1>2, <1>3, <1>4, <1>5, <1>6, <1>7, <1>8, <1>9, <1>10 DEF Next, WorkerStep

\* A process that returned from Serve has waited for its registrar to end.
Waited == \A s \in Server : main[s] = "returned" => pc[s][Registrar] = "ended"

\* A process that returned has left no row, unless its last removal failed or a
\* panic came before it was deferred.
THEOREM ShutdownIsNoCrash == Spec => []StoppedLeavesNoRow
<1>1. Init => IInv
  BY AgeAssumption, FaultAssumption DEF Init, IInv, Tidy, TypeOK, Main, Place, Age, Absent
<1>2. Init => Waited
  BY DEF Init, Waited
<1>3. TypeOK /\ Waited /\ [Next]_vars => Waited'
  <2> SUFFICES ASSUME TypeOK, Waited, [Next]_vars, NEW s \in Server, main'[s] = "returned"
               PROVE  pc'[s][Registrar] = "ended"
    BY DEF Waited
  <2> USE WorkerAssumption
  <2>1. CASE main[s] = "returned"
    <3>1. pc[s][Registrar] = "ended"  BY <2>1 DEF Waited
    <3>2. ~Alive(s)  BY <2>1 DEF Alive
    <3>3. ASSUME NEW t \in Server, t # s, NEW w \in Worker, WorkerStep(t, w) \/ Panic(t, w)
          PROVE  pc'[s] = pc[s]
      BY <3>3 DEF TypeOK, WorkerStep, Panic, Fire, Pass, Restart, Entered, GiveUp, Leave,
                  Start, Refresh, RemoveOnStop, Goes
    <3>4. ASSUME NEW w \in Worker, WorkerStep(s, w) \/ Panic(s, w)
          PROVE  FALSE
      BY <3>2, <3>4 DEF WorkerStep, Panic, Fire, Pass, Restart, GiveUp, Leave,
                        Start, Refresh, RemoveOnStop, At
    <3>5. ASSUME NEW t \in Server, Serve(t) \/ Return(t) \/ Kill(t)
          PROVE  pc'[s][Registrar] = "ended"
      BY <2>1, <3>1, <3>2, <3>5 DEF TypeOK, Serve, Return, Kill, Exit
    <3>6. ASSUME NEW t \in Server, Shutdown(t) \/ Cancel(t) \/ AcceptFails(t) \/ Lose(t)
          PROVE  pc' = pc
      BY <3>6 DEF Shutdown, Cancel, AcceptFails, Lose
    <3>7. Clock \/ UNCHANGED vars => pc' = pc  BY DEF Clock, vars
    <3> QED  BY <3>1, <3>3, <3>4, <3>5, <3>6, <3>7 DEF Next
  <2>2. CASE main[s] # "returned"
    <3>1. PICK t \in Server : Return(t)
      <4>1. \A t \in Server, w \in Worker : WorkerStep(t, w) \/ Panic(t, w) => main' = main
        <5>1. \A t \in Server : Start(t) \/ Refresh(t) \/ RemoveOnStop(t) => main' = main
          BY DEF Start, Refresh, RemoveOnStop
        <5>2. \A t \in Server, w \in Worker :
                Fire(t, w) \/ Pass(t, w) \/ Restart(t, w) \/ GiveUp(t, w) \/ Leave(t, w)
                  \/ Panic(t, w) => main' = main
          BY DEF Fire, Pass, Restart, GiveUp, Leave, Panic
        <5> QED  BY <5>1, <5>2 DEF WorkerStep
      <4>2. \A t \in Server : Cancel(t) \/ Lose(t) => main' = main
        BY DEF Cancel, Lose
      <4>3. \A t \in Server : Serve(t) \/ Shutdown(t) \/ AcceptFails(t) \/ Kill(t)
              => main'[s] # "returned"
        BY <2>2 DEF TypeOK, Serve, Shutdown, AcceptFails, Kill, Exit
      <4>4. Clock \/ UNCHANGED vars => main' = main  BY DEF Clock, vars
      <4> QED  BY <2>2, <4>1, <4>2, <4>3, <4>4 DEF Next
    <3>2. t = s  BY <2>2, <3>1 DEF TypeOK, Return, Exit
    <3> QED  BY <3>1, <3>2 DEF TypeOK, Return, Exit
  <2> QED  BY <2>1, <2>2
<1>4. IInv => TypeOK  BY DEF IInv
<1>5. IInv /\ Waited => StoppedLeavesNoRow
  BY DEF IInv, Waited, Tidy, StoppedLeavesNoRow
<1> QED  BY <1>1, <1>2, <1>3, <1>4, <1>5, TidyKept, PTL DEF Spec
=============================================================================
