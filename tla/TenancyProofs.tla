---------------------------- MODULE TenancyProofs ----------------------------
(***************************************************************************)
(* For any number of tenants and days, and archives of any size: contracts  *)
(* never overlap, a restore only adds contracts, and after it each archived *)
(* contract meets a live one.                                               *)
(***************************************************************************)
EXTENDS Tenancy, TLAPS

\* What the session of a restore keeps while rows are merged: it is a table of
\* disjoint contracts, it extends the committed one, and it meets every row that
\* was merged.
SessionInv ==
    restore # NoRestore =>
        /\ Disjoint(Session)
        /\ DOMAIN contracts \subseteq DOMAIN Session
        /\ \A t \in DOMAIN contracts : Session[t] = contracts[t]
        /\ \A k \in restore.archive \ restore.todo :
                \E t \in DOMAIN Session : Overlaps(k, Session[t])

IInv == TypeOK /\ ContractsDisjoint /\ SessionInv

-----------------------------------------------------------------------------

\* _ensure_contract_does_not_overlap may be asked of either of two contracts.
LEMMA OverlapsSymmetric ==
    ASSUME NEW k \in Contracts, NEW l \in Contracts
    PROVE  Overlaps(k, l) <=> Overlaps(l, k)
  BY DaysAssumption, OpenAssumption DEF Overlaps, Contracts

\* A contract meets every contract with the same first day: the restore's two
\* tests, by identity and by overlap, cannot both let a row pass unseen.
LEMMA SameStartOverlaps ==
    ASSUME NEW k \in Contracts, NEW l \in Contracts, k.from = l.from
    PROVE  Overlaps(k, l)
  BY DaysAssumption, OpenAssumption DEF Overlaps, Contracts

LEMMA PutTable ==
    ASSUME NEW f, Table(f), NEW t \in Tenants, NEW k \in Contracts
    PROVE  Table(Put(f, t, k))
  BY DEF Table, Put

\* Writing a contract that fits the other rows keeps a table disjoint.
LEMMA PutDisjoint ==
    ASSUME NEW f, Table(f), Disjoint(f), NEW t \in Tenants, NEW k \in Contracts,
           \A u \in DOMAIN f \ {t} : ~Overlaps(k, f[u])
    PROVE  Disjoint(Put(f, t, k))
<1> DEFINE g == Put(f, t, k)
<1>1. DOMAIN g = DOMAIN f \cup {t}
  BY DEF Put
<1>2. \A u \in DOMAIN f \ {t} : g[u] = f[u] /\ f[u] \in Contracts
  BY DEF Put, Table
<1>3. g[t] = k
  BY DEF Put
<1>4. \A u \in DOMAIN f \ {t} : ~Overlaps(f[u], k)
  BY <1>2, OverlapsSymmetric
<1>5. ASSUME NEW u \in DOMAIN g, NEW v \in DOMAIN g, u # v
      PROVE  ~Overlaps(g[u], g[v])
  <2>1. CASE u = t
    BY <2>1, <1>1, <1>2, <1>3, <1>5
  <2>2. CASE v = t
    BY <2>2, <1>1, <1>2, <1>3, <1>4, <1>5
  <2>3. CASE u # t /\ v # t
    BY <2>3, <1>1, <1>2, <1>5 DEF Disjoint
  <2> QED BY <2>1, <2>2, <2>3
<1> QED BY <1>5 DEF Disjoint

\* Ending an open contract no earlier than it began takes days away from it only.
LEMMA EndedStaysClear ==
    ASSUME NEW k \in Contracts, k.to = Open, NEW day \in Days, k.from <= day,
           NEW l \in Contracts, ~Overlaps(k, l)
    PROVE  /\ [k EXCEPT !.to = day] \in Contracts
           /\ ~Overlaps([k EXCEPT !.to = day], l)
  BY DaysAssumption, OpenAssumption DEF Overlaps, Contracts

\* The record of a restore after a row was added to its session.
LEMMA RowAdded ==
    ASSUME NEW a, NEW todo, NEW table, NEW left, NEW added,
           restore = [at |-> "merging", archive |-> a, todo |-> todo, session |-> table]
    PROVE  [restore EXCEPT !.todo = left, !.session = added]
            = [at |-> "merging", archive |-> a, todo |-> left, session |-> added]
<1> DEFINE r == [at |-> "merging", archive |-> a, todo |-> left, session |-> table]
<1>1. [restore EXCEPT !.todo = left] = r
  OBVIOUS
<1>2. [r EXCEPT !.session = added]
        = [at |-> "merging", archive |-> a, todo |-> left, session |-> added]
  OBVIOUS
<1> HIDE DEF r
<1> QED BY <1>1, <1>2

-----------------------------------------------------------------------------
(* The invariant.                                                            *)

LEMMA InitInv == Init => IInv
  BY DEF Init, IInv, TypeOK, Table, ContractsDisjoint, Disjoint, SessionInv

\* The handlers of the router: they run while nobody restores.
LEMMA HandlersKeepInv ==
    ASSUME IInv, NEW t \in Tenants,
           \/ \E k \in Contracts : CreateTenant(t, k) \/ UpdateTenant(t, k)
           \/ \E day \in Days : EndContract(t, day)
           \/ DeleteTenant(t)
    PROVE  IInv'
<1> USE DEF IInv, ContractsDisjoint
<1>1. ASSUME NEW k \in Contracts, CreateTenant(t, k)
      PROVE  IInv'
  <2>1. Table(contracts')
    BY <1>1, PutTable DEF CreateTenant, TypeOK
  <2>2. Disjoint(contracts')
    BY <1>1, PutDisjoint DEF CreateTenant, TypeOK, Fits
  <2> QED BY <1>1, <2>1, <2>2 DEF CreateTenant, TypeOK, SessionInv, Unlocked
<1>2. ASSUME NEW k \in Contracts, UpdateTenant(t, k)
      PROVE  IInv'
  <2>1. Table(contracts')
    BY <1>2, PutTable DEF UpdateTenant, TypeOK
  <2>2. \A u \in DOMAIN contracts \ {t} : ~Overlaps(k, contracts[u])
    BY <1>2 DEF UpdateTenant, Fits, Others, Restrict
  <2>3. Disjoint(contracts')
    BY <1>2, <2>2, PutDisjoint DEF UpdateTenant, TypeOK
  <2> QED BY <1>2, <2>1, <2>3 DEF UpdateTenant, TypeOK, SessionInv, Unlocked
<1>3. ASSUME NEW day \in Days, EndContract(t, day)
      PROVE  IInv'
  <2> DEFINE k == [contracts[t] EXCEPT !.to = day]
  <2>1. \A u \in DOMAIN contracts : contracts[u] \in Contracts
    BY DEF TypeOK, Table
  <2>2. k \in Contracts
    BY <1>3, <2>1, DaysAssumption DEF EndContract, Contracts
  <2>3. \A u \in DOMAIN contracts \ {t} : ~Overlaps(k, contracts[u])
    BY <1>3, <2>1, EndedStaysClear DEF EndContract, Disjoint
  <2>4. Table(contracts')
    BY <1>3, <2>2, PutTable DEF EndContract, TypeOK
  <2>5. Disjoint(contracts')
    BY <1>3, <2>2, <2>3, PutDisjoint DEF EndContract, TypeOK
  <2> QED BY <1>3, <2>4, <2>5 DEF EndContract, TypeOK, SessionInv, Unlocked
<1>4. ASSUME DeleteTenant(t)
      PROVE  IInv'
  <2>1. Table(contracts') /\ Disjoint(contracts')
    BY <1>4 DEF DeleteTenant, TypeOK, Table, Disjoint, Others, Restrict
  <2> QED BY <1>4, <2>1 DEF DeleteTenant, TypeOK, SessionInv, Unlocked
<1> QED BY <1>1, <1>2, <1>3, <1>4

LEMMA BeginKeepsInv ==
    ASSUME IInv, NEW archive \in Archives, BeginRestore(archive)
    PROVE  IInv'
  BY DEF IInv, ContractsDisjoint, BeginRestore, TypeOK, SessionInv, Session, NoRestore

\* A row that is added fits the session; one that is not meets it already.
LEMMA MergeKeepsInv ==
    ASSUME IInv, NEW k \in Contracts, MergeRow(k)
    PROVE  IInv'
<1> USE DEF IInv, ContractsDisjoint
<1>1. /\ restore # NoRestore /\ k \in restore.todo /\ UNCHANGED contracts
      /\ Table(Session) /\ Disjoint(Session)
      /\ restore.archive \in Archives /\ restore.todo \subseteq restore.archive
      /\ restore = [at |-> "merging", archive |-> restore.archive,
                    todo |-> restore.todo, session |-> Session]
  BY DEF MergeRow, TypeOK, SessionInv, Session
<1>2. \A t \in DOMAIN Session : Session[t] \in Contracts
  BY <1>1 DEF Table
<1>3. CASE Adds(k)
  <2>1. PICK t \in Tenants \ DOMAIN Session :
            restore' = [restore EXCEPT !.todo = @ \ {k}, !.session = Put(@, t, k)]
    BY <1>3 DEF MergeRow
  <2>2. restore' = [at |-> "merging", archive |-> restore.archive,
                    todo |-> restore.todo \ {k}, session |-> Put(Session, t, k)]
    BY <1>1, <2>1, RowAdded DEF Session
  <2>3. Table(Put(Session, t, k))
    BY <1>1, <2>1, PutTable
  <2>4. Disjoint(Put(Session, t, k))
    BY <1>1, <1>3, <2>1, PutDisjoint DEF Adds, Fits
  <2>5. /\ DOMAIN Put(Session, t, k) = DOMAIN Session \cup {t}
        /\ Put(Session, t, k)[t] = k
        /\ \A u \in DOMAIN Session : Put(Session, t, k)[u] = Session[u]
    BY <2>1 DEF Put
  <2>6. Overlaps(k, k)
    BY SameStartOverlaps
  <2>7. TypeOK'
    BY <1>1, <2>2, <2>3 DEF TypeOK
  <2>8. SessionInv'
    BY <1>1, <2>2, <2>4, <2>5, <2>6 DEF SessionInv, Session
  <2> QED BY <1>1, <2>7, <2>8
<1>4. CASE ~Adds(k)
  <2>1. restore' = [at |-> "merging", archive |-> restore.archive,
                    todo |-> restore.todo \ {k}, session |-> Session]
    BY <1>1, <1>4 DEF MergeRow, Session
  <2>2. \E t \in DOMAIN Session : Overlaps(k, Session[t])
    BY <1>2, <1>4, SameStartOverlaps DEF Adds, Known, Fits
  <2>3. TypeOK'
    BY <1>1, <2>1 DEF TypeOK
  <2>4. SessionInv'
    BY <1>1, <2>1, <2>2 DEF SessionInv, Session
  <2> QED BY <1>1, <2>3, <2>4
<1> QED BY <1>3, <1>4

LEMMA EndOfRestoreKeepsInv ==
    ASSUME IInv, CommitRestore \/ RollBack
    PROVE  IInv'
  BY DEF IInv, ContractsDisjoint, CommitRestore, RollBack, TypeOK, SessionInv, Session

LEMMA NextKeepsInv == IInv /\ [Next]_vars => IInv'
<1> SUFFICES ASSUME IInv, [Next]_vars PROVE IInv'
  OBVIOUS
<1>1. CASE UNCHANGED vars
  BY <1>1 DEF vars, IInv, TypeOK, ContractsDisjoint, SessionInv, Session
<1>2. CASE Next
  BY <1>2, HandlersKeepInv, BeginKeepsInv, MergeKeepsInv, EndOfRestoreKeepsInv DEF Next
<1> QED BY <1>1, <1>2

\* Types, disjointness and the promises of the session are inductive together.
THEOREM Invariance == Spec => []IInv
  BY InitInv, NextKeepsInv, PTL DEF Spec

\* Every row, archive and session keeps its type.
THEOREM TypeCorrect == Spec => []TypeOK
  BY Invariance, PTL DEF IInv

\* No two tenants have a contract for the same day, through any history of
\* updates, ends, deletions and restores.
THEOREM NoOverlap == Spec => []ContractsDisjoint
  BY Invariance, PTL DEF IInv

-----------------------------------------------------------------------------
(* The action properties.                                                    *)

LEMMA StepOnlyAdds ==
    IInv /\ [Next]_vars =>
        [restore # NoRestore => Restrict(contracts', DOMAIN contracts) = contracts]_vars
<1> SUFFICES ASSUME IInv, Next, restore # NoRestore
             PROVE  Restrict(contracts', DOMAIN contracts) = contracts
  OBVIOUS
<1>1. contracts = [t \in DOMAIN contracts |-> contracts[t]]
  BY DEF IInv, TypeOK, Table
<1>2. contracts' = contracts \/ contracts' = Session
  BY DEF Next, CreateTenant, UpdateTenant, EndContract, DeleteTenant, BeginRestore,
         MergeRow, CommitRestore, RollBack, Unlocked
<1> QED BY <1>1, <1>2 DEF IInv, SessionInv, Restrict

\* A restore neither changes nor removes a contract that exists.
THEOREM RestoreAdds == Spec => RestoreOnlyAdds
  BY Invariance, StepOnlyAdds, PTL DEF Spec, RestoreOnlyAdds

LEMMA StepSettles ==
    IInv /\ [Next]_vars =>
        [contracts' # contracts /\ restore # NoRestore =>
            \A k \in restore.archive :
                \E t \in DOMAIN contracts' : Overlaps(k, contracts'[t])]_vars
<1> SUFFICES ASSUME IInv, Next, contracts' # contracts, restore # NoRestore,
                    NEW k \in restore.archive
             PROVE  \E t \in DOMAIN contracts' : Overlaps(k, contracts'[t])
  OBVIOUS
<1>1. CommitRestore
  BY DEF Next, CreateTenant, UpdateTenant, EndContract, DeleteTenant, BeginRestore,
         MergeRow, RollBack, Unlocked
<1> QED BY <1>1 DEF CommitRestore, IInv, SessionInv

\* After a restore no archived contract is left that could be added: restoring the
\* same archive again adds nothing.
THEOREM RestoreComplete == Spec => RestoreSettles
  BY Invariance, StepSettles, PTL DEF Spec, RestoreSettles
=============================================================================
