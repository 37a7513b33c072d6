--------------------------- MODULE OwnerRowsProofs ---------------------------
(***************************************************************************)
(* Fencing and takeover for any number of broker processes and any timing  *)
(* with FenceAfter + Lag < OwnerTTL.                                       *)
(***************************************************************************)
EXTENDS OwnerRows, TLAPS

\* At most one live row per replica name: what the claim, the renewal and the
\* expiry of rows preserve.
OneLiveRow == \A p, q \in Owner : (p # q /\ nameOf[p] = nameOf[q]) => ~(Live(p) /\ Live(q))

\* A process that never started has no statement in flight, and only a starting
\* one has a claim in flight.
IdleWhenOff == \A p \in Owner :
  /\ proc[p] = "off" => call[p] = NoCall
  /\ call[p].step = "claim" => proc[p] = "starting"

IInv == TypeOK /\ IdleWhenOff /\ RowOutlastsRenewal /\ OneLiveRow

\* The steps of one process, as Next has them.
ProcNext(p) ==
  \/ Start(p) \/ ClaimSend(p) \/ ClaimInsert(p) \/ ClaimCheck(p)
  \/ ClaimRetry(p) \/ ClaimRefuse(p) \/ ClaimError(p) \/ ClaimDone(p)
  \/ RenewSend(p) \/ RenewApply(p) \/ RenewDone(p) \/ RenewError(p)
  \/ Adopt(p) \/ Fence(p) \/ CloseBegin(p) \/ Release(p) \/ Exit(p)

\* Every variable keeps its type: no age passes its cap and no row its TTL.
LEMMA TypeStep == TypeOK /\ [Next]_vars => TypeOK'
<1> USE TimingAssumption DEF TypeOK, ProcState, CallStep, NoCall, AgeMax
<1> SUFFICES ASSUME TypeOK, [Next]_vars PROVE TypeOK'
  OBVIOUS
<1>1. ASSUME NEW p \in Owner, ProcNext(p) PROVE TypeOK'
  <2>0. call[p] = [step |-> call[p].step, sent |-> call[p].sent]
        /\ call[p].step \in CallStep /\ call[p].sent \in 0 .. AgeMax
    BY <1>1
  <2>1. CASE Start(p)
    BY <2>1 DEF Start, Step, Goes
  <2>2. CASE ClaimSend(p)
    BY <2>2 DEF ClaimSend, Step, Goes
  <2>3. CASE ClaimInsert(p)
    BY <2>3 DEF ClaimInsert, Step
  <2>4. CASE ClaimCheck(p)
    BY <2>4 DEF ClaimCheck, Step, Goes
  <2>5. CASE ClaimRetry(p)
    BY <2>5 DEF ClaimRetry, Step, Goes
  <2>6. CASE ClaimRefuse(p)
    BY <2>6 DEF ClaimRefuse, Step, Goes
  <2>7. CASE ClaimError(p)
    BY <2>7 DEF ClaimError, Step, Goes
  <2>8. CASE ClaimDone(p)
    BY <2>0, <2>8 DEF ClaimDone, Step, Goes
  <2>9. CASE RenewSend(p)
    BY <2>9 DEF RenewSend, Step, Goes
  <2>10. CASE RenewApply(p)
    BY <2>10 DEF RenewApply, Step
  <2>11. CASE RenewDone(p)
    BY <2>0, <2>11 DEF RenewDone, Step, Goes
  <2>12. CASE RenewError(p)
    BY <2>12 DEF RenewError, Step, Goes
  <2>13. CASE Adopt(p)
    BY <2>13 DEF Adopt, Step, Goes
  <2>14. CASE Fence(p)
    BY <2>14 DEF Fence, Step, Goes
  <2>15. CASE CloseBegin(p)
    BY <2>15 DEF CloseBegin, Step, Goes
  <2>16. CASE Release(p)
    BY <2>16 DEF Release, Step, Goes
  <2>17. CASE Exit(p)
    BY <2>17 DEF Exit, Step, Goes
  <2> QED BY <1>1, <2>1, <2>2, <2>3, <2>4, <2>5, <2>6, <2>7, <2>8, <2>9, <2>10, <2>11, <2>12, <2>13, <2>14, <2>15, <2>16, <2>17 DEF ProcNext
<1>2. ASSUME Tick PROVE TypeOK'
  <2>1. \A t \in 0 .. AgeMax : Older(t) \in 0 .. AgeMax
    BY DEF Older
  <2> QED BY <1>2, <2>1 DEF Tick, Dated
<1>3. CASE UNCHANGED vars
  BY <1>3 DEF vars
<1> QED BY <1>1, <1>2, <1>3 DEF Next, ProcNext

\* A renewal is dated from its send on one side and from its write on the other,
\* and time takes from the row what it adds to the age.
LEMMA RowStep == TypeOK /\ IdleWhenOff /\ RowOutlastsRenewal /\ [Next]_vars => RowOutlastsRenewal'
<1> USE TimingAssumption DEF TypeOK, ProcState, CallStep, AgeMax, RowOutlastsRenewal
<1> SUFFICES ASSUME TypeOK, IdleWhenOff, RowOutlastsRenewal, [Next]_vars PROVE RowOutlastsRenewal'
  OBVIOUS
<1>1. ASSUME NEW p \in Owner, ProcNext(p) PROVE RowOutlastsRenewal'
  <2>1. CASE Start(p)
    BY <2>1 DEF Start, Goes, IdleWhenOff, NoCall
  <2>2. CASE ClaimSend(p)
    BY <2>2 DEF ClaimSend, Step, Goes, NoCall
  <2>3. CASE ClaimInsert(p)
    <3> TAKE q \in Owner
    <3>1. ttl[q] \in 0 .. OwnerTTL /\ age[q] \in 0 .. AgeMax /\ call[q].sent \in 0 .. AgeMax
      OBVIOUS
    <3>2. proc'[q] = proc[q] /\ age'[q] = age[q] /\ call'[q].sent = call[q].sent
      BY <2>3 DEF ClaimInsert, Step
    <3>3. CASE q = p
      <4>1. proc[q] = "starting"
        BY <2>3, <3>3 DEF ClaimInsert, IdleWhenOff
      <4>2. call'[q].step = "held" \/ (call'[q].step = "claimed" /\ ttl'[q] = OwnerTTL)
        BY <2>3, <3>3 DEF ClaimInsert, Step
      <4> QED BY <3>1, <3>2, <4>1, <4>2
    <3>4. CASE q # p
      <4>1. ttl'[q] = ttl[q] /\ call'[q].step = call[q].step
        BY <2>3, <3>4 DEF ClaimInsert, Step
      <4> QED BY <3>1, <3>2, <4>1
    <3> QED BY <3>3, <3>4
  <2>4. CASE ClaimCheck(p)
    BY <2>4 DEF ClaimCheck, Step, Goes, NoCall
  <2>5. CASE ClaimRetry(p)
    BY <2>5 DEF ClaimRetry, Step, Goes, NoCall
  <2>6. CASE ClaimRefuse(p)
    BY <2>6 DEF ClaimRefuse, Step, Goes, NoCall
  <2>7. CASE ClaimError(p)
    BY <2>7 DEF ClaimError, Step, Goes, NoCall
  <2>8. CASE ClaimDone(p)
    BY <2>8 DEF ClaimDone, Step, Goes, NoCall
  <2>9. CASE RenewSend(p)
    BY <2>9 DEF RenewSend, Step, Goes, NoCall
  <2>10. CASE RenewApply(p)
    BY <2>10 DEF RenewApply, Step, Goes, NoCall
  <2>11. CASE RenewDone(p)
    BY <2>11 DEF RenewDone, Step, Goes, NoCall
  <2>12. CASE RenewError(p)
    BY <2>12 DEF RenewError, Step, Goes, NoCall
  <2>13. CASE Adopt(p)
    BY <2>13 DEF Adopt, Step, Goes, NoCall
  <2>14. CASE Fence(p)
    BY <2>14 DEF Fence, Step, Goes, NoCall
  <2>15. CASE CloseBegin(p)
    BY <2>15 DEF CloseBegin, Step, Goes, NoCall
  <2>16. CASE Release(p)
    BY <2>16 DEF Release, Step, Goes, NoCall
  <2>17. CASE Exit(p)
    BY <2>17 DEF Exit, Step, Goes, NoCall
  <2> QED
    BY <1>1, <2>1, <2>2, <2>3, <2>4, <2>5, <2>6, <2>7, <2>8, <2>9,
       <2>10, <2>11, <2>12, <2>13, <2>14, <2>15, <2>16, <2>17 DEF ProcNext
<1>2. ASSUME Tick PROVE RowOutlastsRenewal'
  <2> TAKE q \in Owner
  <2>1. /\ ttl[q] \in 0 .. OwnerTTL /\ age[q] \in 0 .. AgeMax
        /\ call[q].sent \in 0 .. AgeMax
    OBVIOUS
  <2>2. ttl'[q] = IF ttl[q] > 0 THEN ttl[q] - 1 ELSE 0
    BY <1>2 DEF Tick
  <2>3. proc'[q] = proc[q] /\ call'[q].step = call[q].step
    BY <1>2 DEF Tick
  <2>4. proc[q] \in {"starting", "up"} => age'[q] = Older(age[q])
    BY <1>2 DEF Tick
  <2>5. call[q].step \in Dated => call'[q].sent = Older(call[q].sent)
    BY <1>2 DEF Tick
  <2>6. \A t \in 0 .. AgeMax : ttl[q] + t >= OwnerTTL => ttl'[q] + Older(t) >= OwnerTTL
    BY <2>1, <2>2 DEF Older
  <2> QED BY <2>1, <2>3, <2>4, <2>5, <2>6 DEF Dated
<1>3. CASE UNCHANGED vars
  BY <1>3 DEF vars
<1> QED BY <1>1, <1>2, <1>3 DEF Next, ProcNext

\* Only a started process sends statements, and every way out of a start that
\* failed drops its claim.
LEMMA IdleStep == IdleWhenOff /\ TypeOK /\ [Next]_vars => IdleWhenOff'
<1> USE DEF IdleWhenOff, NoCall, TypeOK
<1> SUFFICES ASSUME IdleWhenOff, TypeOK, [Next]_vars PROVE IdleWhenOff'
  OBVIOUS
<1>1. ASSUME NEW p \in Owner, ProcNext(p) PROVE IdleWhenOff'
  <2>1. CASE Start(p)
    BY <2>1 DEF Start, Goes
  <2>2. CASE ClaimSend(p)
    BY <2>2 DEF ClaimSend, Step, Goes
  <2>3. CASE ClaimInsert(p)
    BY <2>3 DEF ClaimInsert, Step
  <2>4. CASE ClaimCheck(p)
    BY <2>4 DEF ClaimCheck, Step, Goes
  <2>5. CASE ClaimRetry(p)
    BY <2>5 DEF ClaimRetry, Step, Goes
  <2>6. CASE ClaimRefuse(p)
    BY <2>6 DEF ClaimRefuse, Step, Goes
  <2>7. CASE ClaimError(p)
    BY <2>7 DEF ClaimError, Step, Goes
  <2>8. CASE ClaimDone(p)
    BY <2>8 DEF ClaimDone, Step, Goes
  <2>9. CASE RenewSend(p)
    BY <2>9 DEF RenewSend, Step, Goes
  <2>10. CASE RenewApply(p)
    BY <2>10 DEF RenewApply, Step, Goes
  <2>11. CASE RenewDone(p)
    BY <2>11 DEF RenewDone, Step, Goes
  <2>12. CASE RenewError(p)
    BY <2>12 DEF RenewError, Step, Goes
  <2>13. CASE Adopt(p)
    BY <2>13 DEF Adopt, Step, Goes
  <2>14. CASE Fence(p)
    BY <2>14 DEF Fence, Step, Goes
  <2>15. CASE CloseBegin(p)
    BY <2>15 DEF CloseBegin, Step, Goes
  <2>16. CASE Release(p)
    BY <2>16 DEF Release, Step, Goes
  <2>17. CASE Exit(p)
    BY <2>17 DEF Exit, Step, Goes
  <2> QED
    BY <1>1, <2>1, <2>2, <2>3, <2>4, <2>5, <2>6, <2>7, <2>8, <2>9,
       <2>10, <2>11, <2>12, <2>13, <2>14, <2>15, <2>16, <2>17 DEF ProcNext
<1>2. ASSUME Tick PROVE IdleWhenOff'
  BY <1>2 DEF Tick, Dated
<1>3. CASE UNCHANGED vars
  BY <1>3 DEF vars
<1> QED BY <1>1, <1>2, <1>3 DEF Next, ProcNext

\* Only a claim makes a row live, and it looks at the other rows of the name in
\* the same statement; a renewal only extends a row that is live already.
LEMMA OneRowStep == TypeOK /\ OneLiveRow /\ [Next]_vars => OneLiveRow'
<1> USE TimingAssumption DEF TypeOK, OneLiveRow, Live
<1> SUFFICES ASSUME TypeOK, OneLiveRow, [Next]_vars PROVE OneLiveRow'
  OBVIOUS
<1>1. ASSUME NEW p \in Owner, ClaimInsert(p) PROVE OneLiveRow'
  BY <1>1 DEF ClaimInsert, NameHeld
<1>2. ASSUME NEW p \in Owner, RenewApply(p) PROVE OneLiveRow'
  BY <1>2 DEF RenewApply, NameHeld
<1>3. ASSUME NEW p \in Owner, Release(p) PROVE OneLiveRow'
  BY <1>3 DEF Release
<1>4. ASSUME Tick PROVE OneLiveRow'
  BY <1>4 DEF Tick
<1>5. CASE UNCHANGED ttl
  BY <1>5
<1>6. ASSUME NEW p \in Owner, ProcNext(p), ~ClaimInsert(p), ~RenewApply(p), ~Release(p)
      PROVE UNCHANGED ttl
  BY <1>6 DEF ProcNext, Start, ClaimSend, ClaimCheck, ClaimRetry, ClaimRefuse, ClaimError,
     ClaimDone, RenewSend, RenewDone, RenewError, Adopt, Fence, CloseBegin, Exit
<1> QED BY <1>1, <1>2, <1>3, <1>4, <1>5, <1>6 DEF Next, ProcNext, vars

\* At first every process is off and the table is empty.
LEMMA InitInv == Init => IInv
  BY TimingAssumption DEF Init, IInv, TypeOK, ProcState, CallStep, NoCall, AgeMax,
     RowOutlastsRenewal, OneLiveRow, IdleWhenOff, Live

\* The inductive invariant holds in every reachable state.
LEMMA Invariance == Spec => []IInv
<1>1. IInv /\ [Next]_vars => IInv'
  BY TypeStep, IdleStep, RowStep, OneRowStep DEF IInv
<1> QED BY InitInv, <1>1, PTL DEF Spec

\* The fence bounds the age of a renewal, and a row outlasts the renewal that
\* wrote it: so a process that still has authority still has its row.
LEMMA AuthorityFromRow == IInv => AuthorityHoldsRow
  BY TimingAssumption DEF IInv, TypeOK, AgeMax, RowOutlastsRenewal, AuthorityHoldsRow, InAuthority, Live

\* A process that still has authority (not fenced, within the margin) holds a
\* live owner row, whatever the timing constants and however many processes:
\* no survivor can claim its records under it.
THEOREM FencedBeforeTakeover == Spec => []AuthorityHoldsRow
  BY Invariance, AuthorityFromRow, PTL

\* Two processes under one replica name never both have authority.
THEOREM SingleAuthority == Spec => []OneAuthorityPerName
<1>1. IInv => OneAuthorityPerName
  BY AuthorityFromRow DEF IInv, OneLiveRow, AuthorityHoldsRow, OneAuthorityPerName
<1> QED BY <1>1, Invariance, PTL

-----------------------------------------------------------------------------
(* The clocks away.                                                          *)

\* A renewal is sent in time by a process that then has no time to outlive it.
RenewalInTime ==
  \A p \in Owner : (proc[p] = "up" /\ call[p].step \in {"renew", "renewed"})
                     => call[p].sent <= age[p] /\ age[p] <= FenceAfter + Lag

\* A renewal in flight was sent before the fence could fall due, so its answer
\* is at most FenceAfter + Lag old when it counts.
LEMMA RenewalInTimeStep ==
  TypeOK /\ IdleWhenOff /\ RenewalInTime /\ [Next]_vars => RenewalInTime'
<1> USE TimingAssumption DEF TypeOK, ProcState, CallStep, AgeMax, RenewalInTime
<1> SUFFICES ASSUME TypeOK, IdleWhenOff, RenewalInTime, [Next]_vars PROVE RenewalInTime'
  OBVIOUS
<1>1. ASSUME NEW p \in Owner, ProcNext(p) PROVE RenewalInTime'
  <2>1. CASE Start(p)
    BY <2>1 DEF Start, Step, Goes, NoCall, UntilFence
  <2>2. CASE ClaimSend(p)
    BY <2>2 DEF ClaimSend, Step, Goes, NoCall, UntilFence
  <2>3. CASE ClaimInsert(p)
    <3>1. \A q \in Owner : proc'[q] = proc[q] /\ age'[q] = age[q] /\ call'[q].sent = call[q].sent
      BY <2>3 DEF ClaimInsert, Step
    <3>2. \A q \in Owner : call'[q].step = call[q].step \/ call'[q].step \in {"held", "claimed"}
      BY <2>3 DEF ClaimInsert, Step
    <3> QED BY <3>1, <3>2
  <2>4. CASE ClaimCheck(p)
    BY <2>4 DEF ClaimCheck, Step, Goes, NoCall, UntilFence
  <2>5. CASE ClaimRetry(p)
    BY <2>5 DEF ClaimRetry, Step, Goes, NoCall, UntilFence
  <2>6. CASE ClaimRefuse(p)
    BY <2>6 DEF ClaimRefuse, Step, Goes, NoCall, UntilFence
  <2>7. CASE ClaimError(p)
    BY <2>7 DEF ClaimError, Step, Goes, NoCall, UntilFence
  <2>8. CASE ClaimDone(p)
    BY <2>8 DEF ClaimDone, Step, Goes, NoCall, UntilFence
  <2>9. CASE RenewSend(p)
    BY <2>9 DEF RenewSend, Step, Goes, NoCall, UntilFence
  <2>10. CASE RenewApply(p)
    BY <2>10 DEF RenewApply, Step, Goes, NoCall, UntilFence
  <2>11. CASE RenewDone(p)
    BY <2>11 DEF RenewDone, Step, Goes, NoCall, UntilFence
  <2>12. CASE RenewError(p)
    BY <2>12 DEF RenewError, Step, Goes, NoCall, UntilFence
  <2>13. CASE Adopt(p)
    BY <2>13 DEF Adopt, Step, Goes, NoCall, UntilFence
  <2>14. CASE Fence(p)
    BY <2>14 DEF Fence, Step, Goes, NoCall, UntilFence
  <2>15. CASE CloseBegin(p)
    BY <2>15 DEF CloseBegin, Step, Goes, NoCall, UntilFence
  <2>16. CASE Release(p)
    BY <2>16 DEF Release, Step, Goes, NoCall, UntilFence
  <2>17. CASE Exit(p)
    BY <2>17 DEF Exit, Step, Goes, NoCall, UntilFence
  <2> QED
    BY <1>1, <2>1, <2>2, <2>3, <2>4, <2>5, <2>6, <2>7, <2>8, <2>9,
       <2>10, <2>11, <2>12, <2>13, <2>14, <2>15, <2>16, <2>17 DEF ProcNext
<1>2. ASSUME Tick PROVE RenewalInTime'
  <2> TAKE q \in Owner
  <2>1. /\ age[q] \in 0 .. AgeMax /\ call[q].sent \in 0 .. AgeMax
        /\ proc[q] = "up" => age[q] < FenceAfter + Lag
    BY <1>2 DEF Tick
  <2>2. proc'[q] = proc[q] /\ call'[q].step = call[q].step
    BY <1>2 DEF Tick
  <2>3. proc[q] = "up" => age'[q] = age[q] + 1
    BY <1>2, <2>1 DEF Tick, Older
  <2>4. call[q].step \in Dated => call'[q].sent <= call[q].sent + 1
    BY <1>2, <2>1 DEF Tick, Older
  <2>5. call'[q].sent \in Nat
    BY <1>2, <2>1 DEF Tick, Older
  <2> SUFFICES ASSUME proc[q] = "up", call[q].step \in {"renew", "renewed"}
               PROVE call'[q].sent <= age'[q] /\ age'[q] <= FenceAfter + Lag
    BY <2>2
  <2>6. call[q].sent <= age[q] /\ call[q].step \in Dated
    BY DEF Dated
  <2> QED BY <2>1, <2>3, <2>4, <2>5, <2>6
<1>3. CASE UNCHANGED vars
  BY <1>3 DEF vars
<1> QED BY <1>1, <1>2, <1>3 DEF Next, ProcNext

\* A step that leaves the mapped state alone, named for the cases below.
Stutter == authOf' = authOf /\ \A q \in Owner : Live(q)' = Live(q)

\* Where a process ends up under the refinement mapping.
LEMMA MapOne ==
  ASSUME NEW p \in Owner, NEW s, TypeOK,
         \A q \in Owner \ {p} : proc'[q] = proc[q] /\ age'[q] = age[q],
         authOf'[p] = s
  PROVE  authOf' = [authOf EXCEPT ![p] = s]
<1>1. \A q \in Owner \ {p} : authOf'[q] = authOf[q]
  BY DEF authOf, InAuthority
<1>2. authOf = [q \in Owner |-> authOf[q]] /\ authOf' = [q \in Owner |-> authOf'[q]]
  BY DEF authOf
<1> QED BY <1>1, <1>2

\* Every step of the timed protocol is a step of the abstract one, or none.
LEMMA StepRefines ==
  ASSUME IInv, RenewalInTime, IInv', [Next]_vars
  PROVE  [Authority!AuthNext]_(Authority!authVars)
<1> USE TimingAssumption DEF IInv, TypeOK
<1> DEFINE livef == [q \in Owner |-> Live(q)]
<1>0. ASSUME Stutter PROVE UNCHANGED Authority!authVars
  BY <1>0 DEF Stutter, Authority!authVars
<1>1. ASSUME NEW p \in Owner, Start(p) PROVE Authority!Boot(p)
  <2>1. authOf[p] = "off" /\ authOf'[p] = "starting"
    BY <1>1 DEF Start, Goes, authOf
  <2>2. authOf' = [authOf EXCEPT ![p] = "starting"]
    BY <1>1, <2>1, MapOne DEF Start, Goes
  <2>3. livef' = livef
    BY <1>1 DEF Start, Live
  <2> QED BY <2>1, <2>2, <2>3 DEF Authority!Boot
<1>2. ASSUME NEW p \in Owner, ClaimRefuse(p) PROVE Authority!Die(p)
  <2>1. authOf[p] \in {"starting", "up", "down"} /\ authOf'[p] = "gone"
    BY <1>2 DEF ClaimRefuse, Goes, authOf, InAuthority
  <2>2. authOf' = [authOf EXCEPT ![p] = "gone"]
    BY <1>2, <2>1, MapOne DEF ClaimRefuse, Goes
  <2>3. livef' = livef
    BY <1>2 DEF ClaimRefuse, Live
  <2> QED BY <2>1, <2>2, <2>3 DEF Authority!Die
<1>3. ASSUME NEW p \in Owner, ClaimError(p) PROVE Authority!Die(p)
  <2>1. authOf[p] \in {"starting", "up", "down"} /\ authOf'[p] = "gone"
    BY <1>3 DEF ClaimError, Goes, authOf, InAuthority
  <2>2. authOf' = [authOf EXCEPT ![p] = "gone"]
    BY <1>3, <2>1, MapOne DEF ClaimError, Goes
  <2>3. livef' = livef
    BY <1>3 DEF ClaimError, Live
  <2> QED BY <2>1, <2>2, <2>3 DEF Authority!Die
<1>4. ASSUME NEW p \in Owner, Exit(p) PROVE Authority!Die(p)
  <2>1. authOf[p] \in {"starting", "up", "down"} /\ authOf'[p] = "gone"
    BY <1>4 DEF Exit, Goes, authOf, InAuthority
  <2>2. authOf' = [authOf EXCEPT ![p] = "gone"]
    BY <1>4, <2>1, MapOne DEF Exit, Goes
  <2>3. livef' = livef
    BY <1>4 DEF Exit, Live
  <2> QED BY <2>1, <2>2, <2>3 DEF Authority!Die
<1>5. ASSUME NEW p \in Owner, Fence(p) PROVE Authority!LoseAuthority(p) \/ Stutter
  <2>1. authOf[p] \in {"up", "down"} /\ authOf'[p] = "down"
    BY <1>5 DEF Fence, Goes, authOf, InAuthority
  <2>2. authOf' = [authOf EXCEPT ![p] = "down"]
    BY <1>5, <2>1, MapOne DEF Fence, Goes
  <2>3. livef' = livef /\ \A q \in Owner : Live(q)' = Live(q)
    BY <1>5 DEF Fence, Live
  <2>4. authOf[p] = "down" => authOf' = authOf
    BY <2>2 DEF authOf
  <2> QED BY <2>1, <2>2, <2>3, <2>4 DEF Authority!LoseAuthority, Stutter
<1>6. ASSUME NEW p \in Owner, CloseBegin(p) PROVE Authority!LoseAuthority(p) \/ Stutter
  <2>1. authOf[p] \in {"up", "down"} /\ authOf'[p] = "down"
    BY <1>6 DEF CloseBegin, Goes, authOf, InAuthority
  <2>2. authOf' = [authOf EXCEPT ![p] = "down"]
    BY <1>6, <2>1, MapOne DEF CloseBegin, Goes
  <2>3. livef' = livef /\ \A q \in Owner : Live(q)' = Live(q)
    BY <1>6 DEF CloseBegin, Live
  <2>4. authOf[p] = "down" => authOf' = authOf
    BY <2>2 DEF authOf
  <2> QED BY <2>1, <2>2, <2>3, <2>4 DEF Authority!LoseAuthority, Stutter
<1>7. ASSUME NEW p \in Owner, ClaimDone(p)
      PROVE Authority!TakeAuthority(p) \/ Authority!LoseAuthority(p)
  <2>1. authOf[p] = "starting" /\ authOf'[p] \in {"up", "down"}
    BY <1>7 DEF ClaimDone, Goes, authOf, InAuthority
  <2>2. authOf' = [authOf EXCEPT ![p] = authOf'[p]]
    BY <1>7, MapOne DEF ClaimDone, Goes, authOf, InAuthority
  <2>3. livef' = livef
    BY <1>7 DEF ClaimDone, Live
  <2>4. authOf'[p] = "up" => Live(p)
    <3>1. authOf'[p] = "up" => age'[p] <= FenceAfter + Lag
      BY <1>7 DEF ClaimDone, Goes, authOf, InAuthority
    <3>2. age'[p] = call[p].sent /\ ttl[p] + call[p].sent >= OwnerTTL
      BY <1>7 DEF ClaimDone, RowOutlastsRenewal
    <3>3. call[p].sent \in Nat /\ ttl[p] \in Nat
      OBVIOUS
    <3> QED BY <3>1, <3>2, <3>3 DEF Live
  <2> QED BY <2>1, <2>2, <2>3, <2>4 DEF Authority!TakeAuthority, Authority!LoseAuthority
<1>8. ASSUME NEW p \in Owner, ClaimInsert(p) PROVE Authority!Register(p) \/ Stutter
  <2>1. authOf' = authOf
    BY <1>8 DEF ClaimInsert, authOf, InAuthority
  <2>2. CASE NameHeld(p)
    BY <1>8, <2>1, <2>2 DEF ClaimInsert, Stutter, Live
  <2>3. CASE ~NameHeld(p)
    <3>1. livef' = [livef EXCEPT ![p] = TRUE]
      <4>1. Live(p)' = TRUE /\ \A q \in Owner \ {p} : Live(q)' = Live(q)
        BY <1>8, <2>3 DEF ClaimInsert, Live
      <4> QED BY <4>1, Zenon
    <3>2. ~Authority!NameHeld(p)
      BY <2>3 DEF NameHeld, Authority!NameHeld
    <3>3. authOf[p] = "starting"
      BY <1>8 DEF ClaimInsert, authOf, IdleWhenOff
    <3> QED BY <2>1, <3>1, <3>2, <3>3 DEF Authority!Register
  <2> QED BY <2>2, <2>3
<1>9. ASSUME NEW p \in Owner, Release(p) PROVE Authority!Release(p)
  <2>1. authOf' = authOf /\ authOf[p] = "down"
    BY <1>9 DEF Release, authOf, InAuthority
  <2>2. livef' = [livef EXCEPT ![p] = FALSE]
    <3>1. Live(p)' = FALSE /\ \A q \in Owner \ {p} : Live(q)' = Live(q)
      BY <1>9 DEF Release, Live
    <3> QED BY <3>1, Zenon
  <2> QED BY <2>1, <2>2 DEF Authority!Release
<1>10. ASSUME NEW p \in Owner,
              ClaimSend(p) \/ ClaimCheck(p) \/ ClaimRetry(p) \/ RenewSend(p) \/ RenewError(p) \/ Adopt(p)
       PROVE Stutter
  BY <1>10 DEF ClaimSend, ClaimCheck, ClaimRetry, RenewSend, RenewError, Adopt,
               Stutter, authOf, InAuthority, Live
<1>11. ASSUME NEW p \in Owner, RenewApply(p) PROVE Stutter
  <2>1. authOf' = authOf
    BY <1>11 DEF RenewApply, authOf, InAuthority
  <2>2. \A q \in Owner : Live(q)' = Live(q)
    BY <1>11 DEF RenewApply, Live
  <2> QED BY <2>1, <2>2 DEF Stutter
<1>12. ASSUME NEW p \in Owner, RenewDone(p) PROVE Stutter
  <2>1. \A q \in Owner : Live(q)' = Live(q)
    BY <1>12 DEF RenewDone, Live
  <2>2. InAuthority(p) /\ InAuthority(p)'
    BY <1>12 DEF RenewDone, InAuthority, RenewalInTime, AgeMax
  <2>3. authOf' = authOf
    BY <1>12, <2>2 DEF RenewDone, authOf, InAuthority
  <2> QED BY <2>1, <2>3 DEF Stutter
<1>13. ASSUME Tick PROVE \E S \in SUBSET Owner : Authority!Expire(S)
  <2> DEFINE S == {q \in Owner : Live(q) /\ ~Live(q)'}
  <2>1. \A q \in Owner : InAuthority(q)' = InAuthority(q)
    BY <1>13 DEF Tick, InAuthority, Older, AgeMax
  <2>2. authOf' = authOf
    BY <1>13, <2>1 DEF Tick, authOf
  <2>3. \A q \in S : ~InAuthority(q)
    BY <2>1 DEF RowOutlastsRenewal, InAuthority, Live, AgeMax
  <2>4. \A q \in S : Live(q) /\ authOf[q] # "up"
    BY <2>3 DEF authOf
  <2>5. livef' = [q \in Owner |-> livef[q] /\ q \notin S]
    <3>1. \A q \in Owner : Live(q)' <=> (Live(q) /\ q \notin S)
      BY <1>13 DEF Tick, Live
    <3>2. \A q \in Owner : Live(q)' \in BOOLEAN /\ Live(q) \in BOOLEAN
      BY DEF Live
    <3> QED BY <3>1, <3>2, Zenon
  <2>6. Authority!Expire(S)
    BY <2>2, <2>4, <2>5 DEF Authority!Expire
  <2> QED BY <2>6
<1>14. CASE UNCHANGED vars
  BY <1>14 DEF vars, Authority!authVars, authOf, InAuthority, Live
<1>15. ASSUME NEW p \in Owner, ProcNext(p) PROVE [Authority!AuthNext]_(Authority!authVars)
  BY <1>15, <1>0, <1>1, <1>2, <1>3, <1>4, <1>5, <1>6, <1>7, <1>8, <1>9, <1>10, <1>11, <1>12
     DEF ProcNext, Authority!AuthNext
<1> QED
  BY <1>13, <1>14, <1>15 DEF Next, ProcNext, Authority!AuthNext

\* OwnerRows implements OwnerAuthority: whatever the timing constants, what the
\* rest of the broker relies on about owner rows is what the timed protocol does.
THEOREM Refinement == Spec => ImplementsAuthority
<1>1. Init => Authority!AuthInit
  <2> SUFFICES ASSUME Init PROVE Authority!AuthInit
    OBVIOUS
  <2>1. \A q \in Owner : Live(q) = FALSE
    BY DEF Init, Live
  <2>2. [q \in Owner |-> Live(q)] = [q \in Owner |-> FALSE]
    BY <2>1, Zenon
  <2>3. authOf = [q \in Owner |-> "off"]
    BY DEF Init, authOf
  <2> QED BY <2>2, <2>3 DEF Authority!AuthInit
<1>2. Init => RenewalInTime
  BY DEF Init, RenewalInTime, NoCall
<1>3. IInv /\ RenewalInTime /\ [Next]_vars => IInv' /\ RenewalInTime'
  BY TypeStep, IdleStep, RowStep, OneRowStep, RenewalInTimeStep DEF IInv
<1>4. IInv /\ RenewalInTime /\ IInv' /\ [Next]_vars => [Authority!AuthNext]_(Authority!authVars)
  BY StepRefines
<1> QED BY InitInv, <1>1, <1>2, <1>3, <1>4, PTL DEF Spec, ImplementsAuthority, Authority!AuthSpec
=============================================================================
