------------------------- MODULE LeaseContract_proofs -------------------------
(* The contract keeps its word: for any number of tasks and tokens, what a  *)
(* holder was told is what is stored, and no live lease is replaced.        *)
EXTENDS LeaseContract, TLAPS

\* Tokens are minted once, so a token is on one task at most.
TokensAreUnique ==
  /\ \A t \in Task : lease[t].token <= minted
  /\ \A t, u \in Task : lease[t].token = lease[u].token /\ lease[t].token # 0 => t = u
  /\ \A k \in Token : k > minted => told[k] = 0

\* Every token still running in its holder's view is on a task with that expiry.
IInv == TypeOK /\ TokensAreUnique /\ ToldIsStored

-----------------------------------------------------------------------------

\* Initially no lease exists and nobody was told of one.
LEMMA InitIInv == Init => IInv
BY BoundAssumption DEF Init, IInv, TypeOK, TokensAreUnique, ToldIsStored, NoLease, Lease, Token

\* Taking a lease on a free task mints a token no task carries yet.
LEMMA TakeKeepsIInv ==
  ASSUME IInv, NEW t \in Task, Take(t)
  PROVE  IInv'
PROOF
  <1> USE BoundAssumption, ExpiryAssumption DEF Token
  <1>1. PICK until \in Expiry :
          /\ lease' = [lease EXCEPT ![t] = [token |-> minted + 1, until |-> until]]
          /\ told' = [told EXCEPT ![minted + 1] = until]
    BY DEF Take
  <1>2. minted < MaxTokens /\ minted' = minted + 1 /\ now' = now /\ minted \in Nat
    BY DEF Take, IInv, TypeOK
  <1>3. TypeOK'
    BY <1>1, <1>2 DEF IInv, TypeOK, Lease
  <1>4. TokensAreUnique'
    BY <1>1, <1>2 DEF IInv, TypeOK, TokensAreUnique, Lease
  <1>5. ToldIsStored'
    <2> SUFFICES ASSUME NEW k \in Token, told'[k] > now'
                 PROVE  \E u \in Task : lease'[u].token = k /\ lease'[u].until = told'[k]
      BY DEF ToldIsStored
    <2>1. CASE k = minted + 1
      BY <2>1, <1>1, <1>2 DEF IInv, TypeOK, Lease
    <2>2. CASE k # minted + 1
      <3>1. told[k] > now /\ told'[k] = told[k]
        BY <2>2, <1>1, <1>2 DEF IInv, TypeOK
      <3>2. PICK u \in Task : lease[u].token = k /\ lease[u].until = told[k]
        BY <3>1 DEF IInv, ToldIsStored
      <3>3. u # t
        BY <3>1, <3>2 DEF Take, Free, IInv, TypeOK, Lease
      <3> QED BY <3>1, <3>2, <3>3, <1>1 DEF IInv, TypeOK, Lease
    <2> QED BY <2>1, <2>2
  <1> QED BY <1>3, <1>4, <1>5 DEF IInv

\* A renewal moves the stored expiry and the told one together.
LEMMA ExtendKeepsIInv ==
  ASSUME IInv, NEW t \in Task, Extend(t)
  PROVE  IInv'
PROOF
  <1> USE BoundAssumption, ExpiryAssumption DEF Token
  <1>1. PICK until \in Expiry :
          /\ lease' = [lease EXCEPT ![t].until = until]
          /\ told' = [told EXCEPT ![lease[t].token] = until]
    BY DEF Extend
  <1>2. lease[t].token \in Token /\ minted' = minted /\ now' = now
    BY DEF Extend, IInv, TypeOK, Lease
  <1>3. TypeOK'
    BY <1>1, <1>2 DEF IInv, TypeOK, Lease
  <1>4. \A u \in Task : lease'[u].token = lease[u].token
    BY <1>1 DEF IInv, TypeOK, Lease
  <1>5. TokensAreUnique'
    BY <1>1, <1>2, <1>4 DEF IInv, TypeOK, TokensAreUnique, Lease
  <1>6. ToldIsStored'
    <2> SUFFICES ASSUME NEW k \in Token, told'[k] > now'
                 PROVE  \E u \in Task : lease'[u].token = k /\ lease'[u].until = told'[k]
      BY DEF ToldIsStored
    <2>1. CASE k = lease[t].token
      BY <2>1, <1>1, <1>2 DEF IInv, TypeOK, Lease
    <2>2. CASE k # lease[t].token
      <3>1. told[k] > now /\ told'[k] = told[k]
        BY <2>2, <1>1, <1>2 DEF IInv, TypeOK
      <3>2. PICK u \in Task : lease[u].token = k /\ lease[u].until = told[k]
        BY <3>1 DEF IInv, ToldIsStored
      <3> QED BY <2>2, <3>1, <3>2, <1>1 DEF IInv, TypeOK, Lease
    <2> QED BY <2>1, <2>2
  <1> QED BY <1>3, <1>5, <1>6 DEF IInv

\* An ended lease is over for its holder in the same step.
LEMMA EndKeepsIInv ==
  ASSUME IInv, NEW t \in Task, End(t)
  PROVE  IInv'
PROOF
  <1> USE BoundAssumption DEF Token
  <1>1. /\ lease' = [lease EXCEPT ![t] = NoLease]
        /\ told' = [told EXCEPT ![lease[t].token] = 0]
        /\ minted' = minted /\ now' = now
        /\ lease[t].token \in Token
    BY DEF End, IInv, TypeOK, Lease
  <1>2. TypeOK'
    BY <1>1 DEF IInv, TypeOK, Lease, NoLease
  <1>3. TokensAreUnique'
    BY <1>1 DEF IInv, TypeOK, TokensAreUnique, Lease, NoLease
  <1>4. ToldIsStored'
    <2> SUFFICES ASSUME NEW k \in Token, told'[k] > now'
                 PROVE  \E u \in Task : lease'[u].token = k /\ lease'[u].until = told'[k]
      BY DEF ToldIsStored
    <2>1. k # lease[t].token /\ told[k] > now /\ told'[k] = told[k]
      BY <1>1 DEF IInv, TypeOK
    <2>2. PICK u \in Task : lease[u].token = k /\ lease[u].until = told[k]
      BY <2>1 DEF IInv, ToldIsStored
    <2> QED BY <2>1, <2>2, <1>1 DEF IInv, TypeOK
  <1> QED BY <1>2, <1>3, <1>4 DEF IInv

\* A sweep clears nothing that somebody still believes in.
LEMMA ClearKeepsIInv ==
  ASSUME IInv, NEW S \in SUBSET Task, Clear(S)
  PROVE  IInv'
PROOF
  <1> USE BoundAssumption DEF Token
  <1>1. /\ lease' = [t \in Task |-> IF t \in S THEN NoLease ELSE lease[t]]
        /\ minted' = minted /\ now' = now /\ told' = told
    BY DEF Clear
  <1>2. TypeOK'
    BY <1>1 DEF IInv, TypeOK, Lease, NoLease
  <1>3. TokensAreUnique'
    BY <1>1 DEF IInv, TypeOK, TokensAreUnique, Lease, NoLease
  <1>4. ToldIsStored'
    <2> SUFFICES ASSUME NEW k \in Token, told[k] > now
                 PROVE  \E u \in Task : lease'[u].token = k /\ lease'[u].until = told[k]
      BY <1>1 DEF ToldIsStored
    <2>1. PICK u \in Task : lease[u].token = k /\ lease[u].until = told[k]
      BY DEF IInv, ToldIsStored
    <2>2. u \notin S
      BY <2>1 DEF Clear, IInv, TypeOK, Lease
    <2> QED BY <2>1, <2>2, <1>1
  <1> QED BY <1>2, <1>3, <1>4 DEF IInv

\* Every step of the contract keeps the inductive invariant.
LEMMA NextKeepsIInv == IInv /\ [Next]_vars => IInv'
PROOF
  <1> SUFFICES ASSUME IInv, [Next]_vars PROVE IInv'
    OBVIOUS
  <1>1. CASE Tick
    BY <1>1, BoundAssumption DEF Tick, IInv, TypeOK, TokensAreUnique, ToldIsStored, Lease, Token
  <1>2. CASE \E t \in Task : Take(t) \/ Extend(t) \/ End(t)
    BY <1>2, TakeKeepsIInv, ExtendKeepsIInv, EndKeepsIInv
  <1>3. CASE \E S \in SUBSET Task : Clear(S)
    BY <1>3, ClearKeepsIInv
  <1>4. CASE UNCHANGED vars
    BY <1>4 DEF vars, IInv, TypeOK, TokensAreUnique, ToldIsStored
  <1> QED BY <1>1, <1>2, <1>3, <1>4 DEF Next

\* The inductive invariant holds throughout.
LEMMA SpecKeepsIInv == Spec => []IInv
  BY InitIInv, NextKeepsIInv, PTL DEF Spec

\* A worker that was told its lease runs past now holds it, with exactly the
\* expiry it was told: the promise of store.Tx's claim calls.
THEOREM ContractToldIsStored == Spec => []ToldIsStored
PROOF
  <1>1. IInv => ToldIsStored
    BY DEF IInv
  <1> QED BY <1>1, SpecKeepsIInv, PTL

\* A live lease is never replaced by another one.
THEOREM ContractNeverStolen == Spec => NeverStolen
PROOF
  <1> DEFINE Kept == \A t \in Task :
               lease[t].token # 0 /\ lease[t].until > now =>
                 lease'[t].token \in {0, lease[t].token}
  <1>1. IInv /\ [Next]_vars => [Kept]_vars
    <2> SUFFICES ASSUME IInv, Next PROVE Kept
      OBVIOUS
    <2>1. CASE Tick
      BY <2>1 DEF Tick
    <2>2. ASSUME NEW t \in Task, Take(t) PROVE Kept
      BY <2>2 DEF Take, Free, IInv, TypeOK, Lease
    <2>3. ASSUME NEW t \in Task, Extend(t) PROVE Kept
      BY <2>3 DEF Extend, IInv, TypeOK, Lease
    <2>4. ASSUME NEW t \in Task, End(t) PROVE Kept
      BY <2>4 DEF End, NoLease, IInv, TypeOK, Lease
    <2>5. ASSUME NEW S \in SUBSET Task, Clear(S) PROVE Kept
      BY <2>5 DEF Clear, NoLease, IInv, TypeOK, Lease
    <2> QED BY <2>1, <2>2, <2>3, <2>4, <2>5 DEF Next
  <1> QED BY <1>1, SpecKeepsIInv, PTL DEF Spec, NeverStolen

-----------------------------------------------------------------------------
(* And the other way round: a lease that is stored is one its holder knows *)

\* A lease a task carries runs to what its holder was last told; a task without
\* one has no expiry.
StoredIsTold ==
  \A t \in Task : IF lease[t].token = 0 THEN lease[t].until = 0
                  ELSE lease[t].until = told[lease[t].token]

\* Every step of the contract keeps it.
LEMMA NextKeepsStored ==
  ASSUME IInv, StoredIsTold, [Next]_vars
  PROVE  StoredIsTold'
PROOF
  <1> USE BoundAssumption, ExpiryAssumption
  <1>1. CASE Tick
    BY <1>1 DEF Tick, StoredIsTold
  <1>2. ASSUME NEW t \in Task, Take(t) PROVE StoredIsTold'
    <2>1. PICK until \in Expiry :
            /\ lease' = [lease EXCEPT ![t] = [token |-> minted + 1, until |-> until]]
            /\ told' = [told EXCEPT ![minted + 1] = until]
      BY <1>2 DEF Take
    <2>2. minted \in Nat /\ minted + 1 \in Token
      BY <1>2 DEF Take, IInv, TypeOK, Token
    <2>3. lease'[t].token = minted + 1 /\ lease'[t].until = told'[minted + 1]
      BY <2>1, <2>2 DEF IInv, TypeOK
    <2>4. ASSUME NEW u \in Task \ {t} PROVE lease'[u] = lease[u] /\ lease[u].token # minted + 1
      BY <2>1, <2>2 DEF IInv, TypeOK, TokensAreUnique, Lease
    <2>5. \A k \in Token : k # minted + 1 => told'[k] = told[k]
      BY <2>1 DEF IInv, TypeOK
    <2>6. \A u \in Task : lease[u].token # 0 => lease[u].token \in Token
      BY DEF IInv, TypeOK, Lease, Token
    <2> QED BY <2>2, <2>3, <2>4, <2>5, <2>6 DEF StoredIsTold
  <1>3. ASSUME NEW t \in Task, Extend(t) PROVE StoredIsTold'
    <2>1. PICK until \in Expiry :
            /\ lease' = [lease EXCEPT ![t] = [lease[t] EXCEPT !.until = until]]
            /\ told' = [told EXCEPT ![lease[t].token] = until]
      BY <1>3 DEF Extend
    <2>2. lease[t].token \in Token /\ lease[t] \in Lease
      BY <1>3 DEF Extend, IInv, TypeOK, Lease, Token
    <2>3. lease'[t].token = lease[t].token /\ lease'[t].until = told'[lease[t].token]
      BY <2>1, <2>2 DEF IInv, TypeOK, Lease
    <2>4. ASSUME NEW u \in Task \ {t}
          PROVE  lease'[u] = lease[u] /\ (lease[u].token = lease[t].token => lease[u].token = 0)
      BY <2>1 DEF IInv, TypeOK, TokensAreUnique
    <2>5. \A k \in Token : k # lease[t].token => told'[k] = told[k]
      BY <2>1 DEF IInv, TypeOK
    <2>6. \A u \in Task : lease[u].token # 0 => lease[u].token \in Token
      BY DEF IInv, TypeOK, Lease, Token
    <2>7. lease[t].token # 0
      BY <1>3 DEF Extend
    <2> QED BY <2>3, <2>4, <2>5, <2>6, <2>7 DEF StoredIsTold
  <1>4. ASSUME NEW t \in Task, End(t) PROVE StoredIsTold'
    <2>1. /\ lease' = [lease EXCEPT ![t] = NoLease]
          /\ told' = [told EXCEPT ![lease[t].token] = 0]
      BY <1>4 DEF End
    <2>2. lease'[t].token = 0 /\ lease'[t].until = 0
      BY <2>1 DEF IInv, TypeOK, NoLease
    <2>3. ASSUME NEW u \in Task \ {t}
          PROVE  lease'[u] = lease[u] /\ (lease[u].token = lease[t].token => lease[u].token = 0)
      BY <2>1 DEF IInv, TypeOK, TokensAreUnique
    <2>4. \A k \in Token : k # lease[t].token => told'[k] = told[k]
      BY <2>1 DEF IInv, TypeOK
    <2>5. \A u \in Task : lease[u].token # 0 => lease[u].token \in Token
      BY DEF IInv, TypeOK, Lease, Token
    <2> QED BY <2>2, <2>3, <2>4, <2>5 DEF StoredIsTold
  <1>5. ASSUME NEW S \in SUBSET Task, Clear(S) PROVE StoredIsTold'
    BY <1>5 DEF Clear, NoLease, StoredIsTold
  <1>6. CASE UNCHANGED vars
    BY <1>6 DEF vars, StoredIsTold
  <1> QED BY <1>1, <1>2, <1>3, <1>4, <1>5, <1>6 DEF Next
=============================================================================
