----------------------------- MODULE PodSessions -----------------------------
(***************************************************************************)
(* The fleet-wide cap on the sessions of a Pod: table broker_sessions      *)
(* (internal/store/database_cleanup.go), the ledger in front of it         *)
(* (internal/server/durable_pg.go) and the part of a connection's life     *)
(* that uses it (internal/pgproxy/broker.go, handleConn).                  *)
(*                                                                         *)
(* A row counts only while its owner row is live, so the rows of a dead    *)
(* replica stop counting without anyone deleting them.  That is right only *)
(* because a replica ends its sessions before its own row can expire.      *)
(***************************************************************************)
EXTENDS OwnerAuthority, Naturals, FiniteSets

CONSTANTS Session,   \* session IDs, fresh for each connection
          Pod, Limit, NoRow

ASSUME LimitAssumption == Limit \in Nat \ {0}
ASSUME SessionAssumption == IsFiniteSet(Session)
ASSUME NoRowAssumption == NoRow \notin [owner : Owner, pod : Pod]

VARIABLES rows,   \* rows[s]: the row of session s in broker_sessions, or NoRow
          sess,   \* sess[s]: what became of session s
          by      \* by[s]: the process that runs session s and its Pod

ledgerVars == <<rows, sess, by>>
vars == <<authVars, ledgerVars>>

Row == [owner : Owner, pod : Pod]
\* "open": admitted, its upstream connection may be in use.
SessState == {"new", "open", "ended", "refused"}

\* countPodSessions: rows of the Pod whose owner is live.
Counted(pod) == {s \in Session : rows[s] # NoRow /\ rows[s].pod = pod /\ live[rows[s].owner]}

Init == /\ AuthInit
        /\ rows = [s \in Session |-> NoRow]
        /\ sess = [s \in Session |-> "new"]
        /\ by   = [s \in Session |-> NoRow]

\* Mutant: the count and the insert are two transactions, and another replica's
\* insert comes between them.
AddUncounted(p, s, pod) ==
  /\ auth[p] = "up" /\ sess[s] = "new"
  /\ live[p]
  /\ rows' = [rows EXCEPT ![s] = [owner |-> p, pod |-> pod]]
  /\ by' = [by EXCEPT ![s] = [owner |-> p, pod |-> pod]]
  /\ sess' = [sess EXCEPT ![s] = "open"]
  /\ UNCHANGED authVars

\* AddBrokerSession counts and inserts in one transaction, under a lock on the
\* Pod.  A ready process asks; when the answer is lost the session is refused
\* and its row stays.
Add(p, s, pod) ==
  /\ auth[p] = "up" /\ sess[s] = "new"
  /\ Cardinality(Counted(pod)) < Limit /\ live[p]
  /\ rows' = [rows EXCEPT ![s] = [owner |-> p, pod |-> pod]]
  /\ by' = [by EXCEPT ![s] = [owner |-> p, pod |-> pod]]
  /\ sess' \in {[sess EXCEPT ![s] = "open"], [sess EXCEPT ![s] = "refused"]}
  /\ UNCHANGED authVars

\* The cap is reached, the owner row is lost, or the store does not answer.
Refuse(p, s) == /\ auth[p] = "up" /\ sess[s] = "new"
                /\ sess' = [sess EXCEPT ![s] = "refused"]
                /\ UNCHANGED <<authVars, rows, by>>

\* The relay is over and the upstream connection closed.
End(s) == /\ sess[s] = "open"
          /\ sess' = [sess EXCEPT ![s] = "ended"]
          /\ UNCHANGED <<authVars, rows, by>>

\* Mutant: the row is kept, without its owner.
RemoveOwner(s) == /\ sess[s] = "ended" /\ rows[s] # NoRow
                  /\ auth[by[s].owner] \in {"up", "down"}
                  /\ rows' = [rows EXCEPT ![s].owner = NoRow]
                  /\ UNCHANGED <<authVars, sess, by>>

\* removeSession; a failed removal leaves the row.
Remove(s) == /\ sess[s] = "ended" /\ rows[s] # NoRow
             /\ auth[by[s].owner] \in {"up", "down"}
             /\ rows' = [rows EXCEPT ![s] = NoRow]
             /\ UNCHANGED <<authVars, sess, by>>

\* Mutant: the claim drops every row but the claimer's own.
SweepOthers(p) == /\ auth[p] = "up"
                  /\ rows' = [s \in Session |-> IF rows[s] # NoRow /\ rows[s].owner # p
                                                  THEN NoRow ELSE rows[s]]
                  /\ UNCHANGED <<authVars, sess, by>>

\* ClaimOrphanedDatabaseCleanup also drops the session rows of dead owners.
Sweep(p) == /\ auth[p] = "up"
            /\ rows' = [s \in Session |-> IF rows[s] # NoRow /\ ~live[rows[s].owner]
                                            THEN NoRow ELSE rows[s]]
            /\ UNCHANGED <<authVars, sess, by>>

\* Sessions of p end with its authority: Serve force-closes every connection
\* when AuthorityDone fires, and a crash ends them all.
Stop(p) == /\ LoseAuthority(p) \/ Die(p)
           /\ sess' = [s \in Session |->
                         IF sess[s] = "open" /\ by[s].owner = p
                           THEN "ended" ELSE sess[s]]
           /\ UNCHANGED <<rows, by>>

Owning == /\ \/ \E p \in Owner : Boot(p) \/ Register(p) \/ TakeAuthority(p) \/ Release(p)
             \/ \E p \in Owner : Expire({p})
          /\ UNCHANGED ledgerVars

Next == \/ Owning
        \/ \E p \in Owner : Sweep(p) \/ Stop(p)
        \/ \E p \in Owner, s \in Session : Refuse(p, s)
        \/ \E p \in Owner, s \in Session, pod \in Pod : Add(p, s, pod)
        \/ \E s \in Session : End(s) \/ Remove(s)

Spec == Init /\ [][Next]_vars
-----------------------------------------------------------------------------
TypeOK == /\ AuthTypeOK
          /\ rows \in [Session -> Row \cup {NoRow}]
          /\ sess \in [Session -> SessState]
          /\ by \in [Session -> Row \cup {NoRow}]

Open(pod) == {s \in Session : sess[s] = "open" /\ by[s].pod = pod}

\* Every open session is counted: its row is there, and the owner of it is
\* live.  Neither a sweep nor an expiry takes the row of a running session.
OpenIsCounted == \A s \in Session :
                   sess[s] = "open" => /\ by[s] # NoRow /\ rows[s] = by[s]
                                       /\ auth[by[s].owner] = "up" /\ live[by[s].owner]

\* A Pod never has more than Limit sessions open across the fleet, through
\* crashes, fences, takeovers and lost answers.
PodCap == \A pod \in Pod : Cardinality(Open(pod)) <= Limit
=============================================================================
