-------------------------- MODULE PodSessionsProofs --------------------------
(***************************************************************************)
(* The cap on the sessions of a Pod holds for any number of replicas, Pods *)
(* and sessions and for any limit.                                         *)
(*                                                                         *)
(* The cap is kept on counted rows, not on open sessions, so the inductive *)
(* invariant bounds the counted rows (CountedCap) and says that an open    *)
(* session is counted.  A row may start to count only by its insertion:    *)
(* the owner of a row has left its start behind (RowsHaveServed), so its   *)
(* owner row is never registered again.                                    *)
(***************************************************************************)
EXTENDS PodSessions, FiniteSetTheorems, TLAPS

RowsHaveServed == \A s \in Session : rows[s] # NoRow => auth[rows[s].owner] \in {"up", "down", "gone"}
CountedCap == \A pod \in Pod : Cardinality(Counted(pod)) <= Limit

IInv == TypeOK /\ OpenIsCounted /\ RowsHaveServed /\ CountedCap

\* The rows that count for a Pod are finitely many.
LEMMA CountedFinite == \A pod \in Pod : IsFiniteSet(Counted(pod)) /\ Cardinality(Counted(pod)) \in Nat
  <1>1. \A pod \in Pod : Counted(pod) \subseteq Session
    BY DEF Counted
  <1>2. \A pod \in Pod : IsFiniteSet(Counted(pod))
    BY <1>1, SessionAssumption, FS_Subset
  <1> QED
    BY <1>2, FS_CardinalityType

\* Dropping rows, or letting owners die, keeps the cap.
LEMMA FewerRowsKeepCap ==
  ASSUME CountedCap, \A pod \in Pod : Counted(pod)' \subseteq Counted(pod)
  PROVE  CountedCap'
  <1> SUFFICES ASSUME NEW pod \in Pod PROVE Cardinality(Counted(pod)') <= Limit
    BY DEF CountedCap
  <1>1. IsFiniteSet(Counted(pod)) /\ Cardinality(Counted(pod)) \in Nat
    BY CountedFinite
  <1>2. /\ IsFiniteSet(Counted(pod)')
        /\ Cardinality(Counted(pod)') <= Cardinality(Counted(pod))
    BY <1>1, FS_Subset
  <1>3. Cardinality(Counted(pod)') \in Nat
    BY <1>2, FS_CardinalityType
  <1> QED
    BY <1>1, <1>2, <1>3, LimitAssumption DEF CountedCap

\* Every step keeps the types.
LEMMA TypeStep == TypeOK /\ [Next]_vars => TypeOK'
  <1> SUFFICES ASSUME TypeOK, [Next]_vars PROVE TypeOK'
    OBVIOUS
  <1> USE DEF TypeOK, AuthTypeOK, AuthState, SessState, Row
  <1>1. CASE Owning
    BY <1>1 DEF Owning, Boot, Register, TakeAuthority, Release, Expire, ledgerVars
  <1>2. ASSUME NEW p \in Owner, Sweep(p) PROVE TypeOK'
    BY <1>2 DEF Sweep, authVars
  <1>3. ASSUME NEW p \in Owner, Stop(p) PROVE TypeOK'
    BY <1>3 DEF Stop, LoseAuthority, Die
  <1>4. ASSUME NEW p \in Owner, NEW s \in Session, Refuse(p, s) PROVE TypeOK'
    BY <1>4 DEF Refuse, authVars
  <1>5. ASSUME NEW p \in Owner, NEW s \in Session, NEW pod \in Pod, Add(p, s, pod) PROVE TypeOK'
    BY <1>5 DEF Add, authVars
  <1>6. ASSUME NEW s \in Session, End(s) PROVE TypeOK'
    BY <1>6 DEF End, authVars
  <1>7. ASSUME NEW s \in Session, Remove(s) PROVE TypeOK'
    BY <1>7 DEF Remove, authVars
  <1>8. CASE UNCHANGED vars
    BY <1>8 DEF vars, authVars, ledgerVars
  <1> QED
    BY <1>1, <1>2, <1>3, <1>4, <1>5, <1>6, <1>7, <1>8 DEF Next

\* Every step keeps open sessions counted, and rows with owners that served.
LEMMA OpenStep == IInv /\ [Next]_vars => OpenIsCounted' /\ RowsHaveServed'
  <1> SUFFICES ASSUME IInv, [Next]_vars PROVE OpenIsCounted' /\ RowsHaveServed'
    OBVIOUS
  <1> USE DEF IInv, TypeOK, AuthTypeOK, AuthState, SessState, Row, OpenIsCounted, RowsHaveServed
  <1>1. CASE Owning
    <2>1. ASSUME NEW p \in Owner, Boot(p) \/ Register(p) \/ TakeAuthority(p) \/ Release(p)
          PROVE  OpenIsCounted' /\ RowsHaveServed'
      BY <1>1, <2>1, NoRowAssumption DEF Owning, Boot, Register, TakeAuthority, Release, ledgerVars
    <2>2. ASSUME NEW p \in Owner, Expire({p}) PROVE OpenIsCounted' /\ RowsHaveServed'
      BY <1>1, <2>2, NoRowAssumption DEF Owning, Expire, ledgerVars
    <2> QED
      BY <1>1, <2>1, <2>2 DEF Owning
  <1>2. ASSUME NEW p \in Owner, Sweep(p) PROVE OpenIsCounted' /\ RowsHaveServed'
    BY <1>2 DEF Sweep, authVars
  <1>3. ASSUME NEW p \in Owner, Stop(p) PROVE OpenIsCounted' /\ RowsHaveServed'
    BY <1>3, NoRowAssumption DEF Stop, LoseAuthority, Die
  <1>4. ASSUME NEW p \in Owner, NEW s \in Session, Refuse(p, s)
        PROVE  OpenIsCounted' /\ RowsHaveServed'
    BY <1>4 DEF Refuse, authVars
  <1>5. ASSUME NEW p \in Owner, NEW s \in Session, NEW pod \in Pod, Add(p, s, pod)
        PROVE  OpenIsCounted' /\ RowsHaveServed'
    BY <1>5, NoRowAssumption DEF Add, authVars
  <1>6. ASSUME NEW s \in Session, End(s) PROVE OpenIsCounted' /\ RowsHaveServed'
    BY <1>6 DEF End, authVars
  <1>7. ASSUME NEW s \in Session, Remove(s) PROVE OpenIsCounted' /\ RowsHaveServed'
    BY <1>7 DEF Remove, authVars
  <1>8. CASE UNCHANGED vars
    BY <1>8 DEF vars, authVars, ledgerVars
  <1> QED
    BY <1>1, <1>2, <1>3, <1>4, <1>5, <1>6, <1>7, <1>8 DEF Next

\* Every step keeps the cap on counted rows.
LEMMA CapStep == IInv /\ [Next]_vars => CountedCap'
  <1> SUFFICES ASSUME IInv, [Next]_vars PROVE CountedCap'
    OBVIOUS
  <1> USE DEF IInv, TypeOK, AuthTypeOK, AuthState, SessState, Row
  <1>0. ASSUME \A pod \in Pod : Counted(pod)' \subseteq Counted(pod) PROVE CountedCap'
    BY <1>0, FewerRowsKeepCap
  <1>1. CASE Owning
    <2>1. ASSUME NEW p \in Owner, Boot(p) \/ TakeAuthority(p) \/ Release(p) \/ Expire({p})
          PROVE  \A pod \in Pod : Counted(pod)' \subseteq Counted(pod)
      BY <1>1, <2>1 DEF Owning, Boot, TakeAuthority, Release, Expire, ledgerVars, Counted
    <2>2. ASSUME NEW p \in Owner, Register(p)
          PROVE  \A pod \in Pod : Counted(pod)' \subseteq Counted(pod)
      BY <1>1, <2>2 DEF Owning, Register, ledgerVars, Counted, RowsHaveServed
    <2> QED
      BY <1>0, <1>1, <2>1, <2>2 DEF Owning
  <1>2. ASSUME NEW p \in Owner, Sweep(p) PROVE CountedCap'
    BY <1>0, <1>2 DEF Sweep, authVars, Counted
  <1>3. ASSUME NEW p \in Owner, Stop(p) PROVE CountedCap'
    BY <1>0, <1>3 DEF Stop, LoseAuthority, Die, Counted
  <1>4. ASSUME NEW p \in Owner, NEW s \in Session, Refuse(p, s) PROVE CountedCap'
    BY <1>0, <1>4 DEF Refuse, authVars, Counted
  <1>5. ASSUME NEW p \in Owner, NEW s \in Session, NEW pod \in Pod, Add(p, s, pod)
        PROVE  CountedCap'
    <2> SUFFICES ASSUME NEW o \in Pod PROVE Cardinality(Counted(o)') <= Limit
      BY DEF CountedCap
    <2>1. Counted(o)' \subseteq Counted(o) \cup (IF o = pod THEN {s} ELSE {})
      BY <1>5, NoRowAssumption DEF Add, authVars, Counted
    <2>2. IsFiniteSet(Counted(o)) /\ Cardinality(Counted(o)) \in Nat
      BY CountedFinite
    <2>3. CASE o = pod
      <3>1. /\ IsFiniteSet(Counted(o) \cup {s})
            /\ Cardinality(Counted(o) \cup {s}) \in {Cardinality(Counted(o)), Cardinality(Counted(o)) + 1}
        BY <2>2, FS_AddElement
      <3>2. /\ IsFiniteSet(Counted(o)')
            /\ Cardinality(Counted(o)') <= Cardinality(Counted(o) \cup {s})
        BY <2>1, <2>3, <3>1, FS_Subset
      <3>3. Cardinality(Counted(o)') \in Nat
        BY <3>2, FS_CardinalityType
      <3>4. Cardinality(Counted(o)) < Limit
        BY <1>5, <2>3 DEF Add
      <3> QED
        BY <2>2, <3>1, <3>2, <3>3, <3>4, LimitAssumption
    <2>4. CASE o # pod
      <3>1. Counted(o)' \subseteq Counted(o)
        BY <2>1, <2>4
      <3>2. /\ IsFiniteSet(Counted(o)')
            /\ Cardinality(Counted(o)') <= Cardinality(Counted(o))
        BY <2>2, <3>1, FS_Subset
      <3>3. Cardinality(Counted(o)') \in Nat
        BY <3>2, FS_CardinalityType
      <3> QED
        BY <2>2, <3>2, <3>3, LimitAssumption DEF CountedCap
    <2> QED
      BY <2>3, <2>4
  <1>6. ASSUME NEW s \in Session, End(s) PROVE CountedCap'
    BY <1>0, <1>6 DEF End, authVars, Counted
  <1>7. ASSUME NEW s \in Session, Remove(s) PROVE CountedCap'
    BY <1>0, <1>7 DEF Remove, authVars, Counted
  <1>8. CASE UNCHANGED vars
    BY <1>0, <1>8 DEF vars, authVars, ledgerVars, Counted
  <1> QED
    BY <1>1, <1>2, <1>3, <1>4, <1>5, <1>6, <1>7, <1>8 DEF Next

\* The initial state satisfies the invariant.
LEMMA InitInv == Init => IInv
  <1> SUFFICES ASSUME Init PROVE IInv
    OBVIOUS
  <1>1. TypeOK /\ OpenIsCounted /\ RowsHaveServed
    BY DEF Init, AuthInit, TypeOK, AuthTypeOK, AuthState, SessState, OpenIsCounted, RowsHaveServed
  <1>2. \A pod \in Pod : Counted(pod) = {}
    BY DEF Init, Counted
  <1>3. CountedCap
    BY <1>2, FS_EmptySet, LimitAssumption DEF CountedCap
  <1> QED
    BY <1>1, <1>3 DEF IInv

\* The invariant holds throughout.
LEMMA Invariance == Spec => []IInv
  <1>1. IInv /\ [Next]_vars => IInv'
    BY TypeStep, OpenStep, CapStep DEF IInv
  <1> QED
    BY InitInv, <1>1, PTL DEF Spec

\* An open session is one that AddBrokerSession still counts.
THEOREM OpenSessionsCounted == Spec => []OpenIsCounted
  <1>1. IInv => OpenIsCounted
    BY DEF IInv
  <1> QED
    BY Invariance, <1>1, PTL

\* The fleet never runs more than Limit sessions of one Pod, whatever the
\* number of replicas, Pods and sessions.
THEOREM FleetCap == Spec => []PodCap
  <1>1. IInv => PodCap
    <2> SUFFICES ASSUME IInv, NEW pod \in Pod PROVE Cardinality(Open(pod)) <= Limit
      BY DEF PodCap
    <2>1. Open(pod) \subseteq Counted(pod)
      BY DEF IInv, OpenIsCounted, Open, Counted
    <2>2. IsFiniteSet(Counted(pod)) /\ Cardinality(Counted(pod)) \in Nat
      BY CountedFinite
    <2>3. IsFiniteSet(Open(pod)) /\ Cardinality(Open(pod)) <= Cardinality(Counted(pod))
      BY <2>1, <2>2, FS_Subset
    <2>4. Cardinality(Open(pod)) \in Nat
      BY <2>3, FS_CardinalityType
    <2> QED
      BY <2>2, <2>3, <2>4, LimitAssumption DEF IInv, CountedCap
  <1> QED
    BY Invariance, <1>1, PTL
=============================================================================
