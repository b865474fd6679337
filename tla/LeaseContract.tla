---------------------------- MODULE LeaseContract ----------------------------
(***************************************************************************)
(* What the lease calls promise, with no transactions: every call is one   *)
(* step.  A lease is a token and an expiry on a task.  It is taken only    *)
(* where none runs, extended under whatever expiry the holder is then told, *)
(* ended only for its own holder to know, and cleared only once it lapsed. *)
(* store.Tx states these promises call by call; TaskLease implements them  *)
(* on the single-writer engine.                                            *)
(***************************************************************************)
EXTENDS Integers

CONSTANTS
  Task,       \* the tasks
  Expiry,     \* the expiries a lease may be given
  MaxTime,    \* bound on the clock
  MaxTokens   \* bound on the tokens minted

ASSUME ExpiryAssumption == Expiry \subseteq Nat
ASSUME BoundAssumption == MaxTime \in Nat /\ MaxTokens \in Nat

VARIABLES
  now,     \* the wall clock
  lease,   \* the lease each task carries
  minted,  \* how many tokens exist
  told     \* per token, the expiry its holder was last told; 0 once it is over

vars == <<now, lease, minted, told>>

Token   == 1..MaxTokens
Lease   == [token: 0..MaxTokens, until: Nat]
NoLease == [token |-> 0, until |-> 0]

TypeOK ==
  /\ now \in 0..MaxTime
  /\ lease \in [Task -> Lease]
  /\ minted \in 0..MaxTokens
  /\ told \in [Token -> Nat]

Init ==
  /\ now = 0
  /\ lease = [t \in Task |-> NoLease]
  /\ minted = 0
  /\ told = [k \in Token |-> 0]

Tick ==
  /\ now < MaxTime
  /\ now' = now + 1
  /\ UNCHANGED <<lease, minted, told>>

\* No lease runs on the task.
Free(t) == lease[t].token # 0 => lease[t].until <= now

\* ClaimTask, ClaimNextTask: nobody's live lease is taken.
Take(t) ==
  /\ minted < MaxTokens
  /\ Free(t)
  /\ minted' = minted + 1
  /\ \E until \in Expiry :
       /\ lease' = [lease EXCEPT ![t] = [token |-> minted + 1, until |-> until]]
       /\ told' = [told EXCEPT ![minted + 1] = until]
  /\ UNCHANGED now

\* RenewLease: what is stored is what the holder is told.
Extend(t) ==
  /\ lease[t].token # 0
  /\ \E until \in Expiry :
       /\ lease' = [lease EXCEPT ![t].until = until]
       /\ told' = [told EXCEPT ![lease[t].token] = until]
  /\ UNCHANGED <<now, minted>>

\* ReleaseLease, ForceReclaim.
End(t) ==
  /\ lease[t].token # 0
  /\ lease' = [lease EXCEPT ![t] = NoLease]
  /\ told' = [told EXCEPT ![lease[t].token] = 0]
  /\ UNCHANGED <<now, minted>>

\* ClearClaim, for every row a sweep clears.
Clear(S) ==
  /\ \A t \in S : lease[t].until <= now
  /\ lease' = [t \in Task |-> IF t \in S THEN NoLease ELSE lease[t]]
  /\ UNCHANGED <<now, minted, told>>

Next ==
  \/ Tick
  \/ \E t \in Task : Take(t) \/ Extend(t) \/ End(t)
  \/ \E S \in SUBSET Task : Clear(S)

Spec == Init /\ [][Next]_vars

-----------------------------------------------------------------------------

\* A worker that was told its lease runs past now holds it, with exactly the
\* expiry it was told (claim, renewal, release and sweep against one another).
ToldIsStored ==
  \A k \in Token :
    told[k] > now => \E t \in Task : lease[t].token = k /\ lease[t].until = told[k]

\* A live lease changes hands only through its end: no step puts another token
\* in its place (ClaimTask and ClaimNextTask re-assert that the row is free).
NeverStolen ==
  [][\A t \in Task :
       lease[t].token # 0 /\ lease[t].until > now =>
         lease'[t].token \in {0, lease[t].token}]_vars
=============================================================================
