---------------------------- MODULE MCTaskLease ----------------------------
(* TaskLease on small instances: the shipped workflow without "blocked" and *)
(* "cancelled", which behave like "doing" and "done" here.                  *)
EXTENDS TaskLease, LeasePolicy, TLC

MCStatus   == {"todo", "doing", "done"}
MCEdge     == {<<"todo", "doing">>, <<"doing", "todo">>,
               <<"doing", "done">>, <<"done", "todo">>}
MCRevertTo == [s \in MCStatus |-> IF s = "doing" THEN "todo" ELSE s]

OneTick   == {1}
OneLength == {2}

\* The passing runs.
EveryOp   == AllOps \cup SweepOps
LiveOps   == {"claim", "snooze", "delete", "restore", "sweep", "wake"}
WriteRace == {"transition", "edit", "snooze", "wake"}

ClientSymmetry == Permutations(Client)
-----------------------------------------------------------------------------
(* LeasePolicy against a reference: the levels one after the other, and the *)
(* least of the ceilings that are set.                                      *)
Lengths  == {-1, 0, 2, DefaultTTL, MaxTTL + 1}
MCPolicy == {[Default |-> d, Max |-> m, DefaultFrom |-> "tenant", MaxFrom |-> "deployment"] :
               d, m \in Lengths}

\* The least of the positive members of S.
LeastSet(S, none) == LET set == {x \in S : x > 0}
                     IN IF set = {} THEN none ELSE CHOOSE x \in set : \A y \in set : x <= y

Reference(p, c, t, j, w) ==
  LET limit == LeastSet({p.Max}, MaxTTL)
      ttl == IF c # 0 THEN c ELSE IF t # 0 THEN t ELSE IF j # 0 THEN j ELSE
             IF w # 0 THEN w ELSE LeastSet({p.Default}, DefaultTTL)
  IN IF ttl <= 0 \/ (c # 0 /\ ttl > limit) THEN 0 ELSE LeastSet({ttl, limit}, 0)

ASSUME GrantIsTheReference ==
  \A p \in MCPolicy : \A c, t, j, w \in Lengths :
    LET g == Grant(p, [l \in Level |-> CASE l = "claim" -> c [] l = "task" -> t
                                         [] l = "project" -> j [] l = "workflow" -> w])
    IN /\ g.TTL = Reference(p, c, t, j, w)
       /\ g.refused <=> g.TTL = 0

ASSUME CeilingIsTheLeast ==
  \A d, t, j \in Lengths :
    projectPolicy([deployment |-> Configured(0, d), tenant |-> [Default |-> 0, Max |-> t],
                   project |-> [Default |-> 0, Max |-> j],
                   workflow |-> [builtin |-> TRUE, lease |-> 0]]).Max =
      LeastSet({LeastSet({d}, MaxTTL), t, j}, 0)
======================================================================
