----------------------------- MODULE LeasePolicy -----------------------------
(***************************************************************************)
(* How long a lease is.  Up to seven levels may name a length and four a   *)
(* ceiling; the most specific length is granted, held to the lowest        *)
(* ceiling.  Lengths are whole seconds, and 0 names nothing.  TaskLease    *)
(* takes the lengths granted as the constant TTL.                          *)
(***************************************************************************)
EXTENDS Integers

DefaultTTL == 30 * 60
MaxTTL     == 24 * 60 * 60

\* The levels that may name a length for a claim, and those above each.
Level == {"claim", "task", "project", "workflow"}
Above == [claim    |-> {},
          task     |-> {"claim"},
          project  |-> {"claim", "task"},
          workflow |-> {"claim", "task", "project"}]

\* Where a bound may come from ("" in the code reads as builtin).
Source == Level \cup {"tenant", "deployment", "builtin"}
Bound  == {"project", "tenant", "deployment", "builtin"}

Policy == [Default: Int, Max: Int, DefaultFrom: Bound, MaxFrom: Bound]
Offer  == [Level -> Int]

DefaultPolicy ==
  [Default |-> DefaultTTL, Max |-> MaxTTL,
   DefaultFrom |-> "builtin", MaxFrom |-> "builtin"]

\* A bound that is not set is the shipped one (leasePolicy and Grant alike).
Shipped(p) ==
  [Default     |-> IF p.Default <= 0 THEN DefaultTTL ELSE p.Default,
   Max         |-> IF p.Max <= 0 THEN MaxTTL ELSE p.Max,
   DefaultFrom |-> IF p.Default <= 0 THEN "builtin" ELSE p.DefaultFrom,
   MaxFrom     |-> IF p.Max <= 0 THEN "builtin" ELSE p.MaxFrom]

\* A ceiling is lowered and never raised; a default is replaced.
Cap(p, max, from) ==
  IF max > 0 /\ (p.Max <= 0 \/ max < p.Max)
  THEN [p EXCEPT !.Max = max, !.MaxFrom = from] ELSE p

Narrow(p, def, max) ==
  Cap(IF def > 0 THEN [p EXCEPT !.Default = def, !.DefaultFrom = "tenant"] ELSE p,
      max, "tenant")

\* The level of an offer that speaks: it names a length and none above it does.
Speaks(o, l) == o[l] # 0 /\ \A m \in Above[l] : o[m] = 0

Chosen(p, o) ==
  IF \E l \in Level : Speaks(o, l)
  THEN LET l == CHOOSE l \in Level : Speaks(o, l) IN [ttl |-> o[l], from |-> l]
  ELSE [ttl |-> p.Default, from |-> p.DefaultFrom]

\* Only the caller is told that a length is too long; any other is cut.
Grant(p, o) ==
  LET q    == Shipped(p)
      c    == Chosen(q, o)
      long == c.ttl > q.Max
      bad  == c.ttl <= 0 \/ (long /\ c.from = "claim")
  IN [refused |-> bad,
      TTL     |-> IF bad THEN 0 ELSE IF long THEN q.Max ELSE c.ttl,
      Clamped |-> ~bad /\ long,
      Source  |-> c.from, Max |-> q.Max, MaxSource |-> q.MaxFrom]

-----------------------------------------------------------------------------
(* What the rows say: a deployment's policy, a tenant's and a project's      *)
(* bounds, and the default of the project's workflow.                        *)

Setting ==
  [deployment: Policy,
   tenant:     [Default: Int, Max: Int],
   project:    [Default: Int, Max: Int],
   workflow:   [builtin: BOOLEAN, lease: Int]]

\* config.Lease.Policy: what the operator sets replaces what is shipped.
Configured(def, max) ==
  [Default     |-> IF def > 0 THEN def ELSE DefaultTTL,
   Max         |-> IF max > 0 THEN max ELSE MaxTTL,
   DefaultFrom |-> IF def > 0 THEN "deployment" ELSE "builtin",
   MaxFrom     |-> IF max > 0 THEN "deployment" ELSE "builtin"]

\* The workflow every tenant is created with does not count.
workflowLease(wf) == IF wf.builtin THEN 0 ELSE wf.lease

leasePolicy(s) == Narrow(Shipped(s.deployment), s.tenant.Default, s.tenant.Max)

projectPolicy(s) == Cap(leasePolicy(s), s.project.Max, "project")

\* What a claim on a task gets that names a length of its own, or 0.
leaseGrant(s, task, claim) ==
  Grant(projectPolicy(s),
        [l \in Level |-> CASE l = "claim"    -> claim
                           [] l = "task"     -> task
                           [] l = "project"  -> s.project.Default
                           [] l = "workflow" -> workflowLease(s.workflow)])

\* What a claim from the queue gets before a task is picked (Resolve).
queueGrant(s, claim) ==
  Grant(leasePolicy(s), [l \in Level |-> IF l = "claim" THEN claim ELSE 0])

\* What a call that sets a length accepts.
checkTenant(t) ==
  /\ t.Default >= 0 /\ t.Max >= 0
  /\ (t.Default > 0 /\ t.Max > 0) => t.Default <= t.Max

checkProjectLease(s) ==
  /\ s.project.Default >= 0 /\ s.project.Max >= 0
  /\ s.project.Max <= leasePolicy(s).Max
  /\ s.project.Default <= projectPolicy(s).Max

checkTaskLease(s, task) ==
  /\ task >= 0
  /\ task > 0 => ~leaseGrant(s, task, 0).refused /\ ~leaseGrant(s, task, 0).Clamped
=============================================================================
