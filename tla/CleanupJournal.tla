---------------------------- MODULE CleanupJournal ----------------------------
(***************************************************************************)
(* The durable journal of database credentials: DurableLeaseMinter         *)
(* (internal/pgproxy/durable_leases.go) over table database_cleanup        *)
(* (internal/store/database_cleanup.go) and HashiCorp Vault.               *)
(*                                                                         *)
(* Every Mint draws a fresh child token; its accessor names the journal    *)
(* record, the token and the one credential the token can issue.  A        *)
(* process holds m.mu for a whole Mint, Revoke, retry pass or Close, so    *)
(* op[p] is the operation that holds it; between two of its steps other    *)
(* processes, the operator, crashes and expiry (of rows, of tokens) come.  *)
(* Each call to the store or to Vault may fail, before or after it took    *)
(* effect.                                                                 *)
(***************************************************************************)
EXTENDS OwnerAuthority

CONSTANTS Accessor, Binding, None

VARIABLES journal,   \* journal[a]: the row of a, or None
          cred,      \* cred[a]: the child token and the credential under it
          active,    \* active[p]: m.active, by accessor
          retiring,  \* retiring[p]: Revoke calls that wait for the lock
          op         \* op[p]: the holder of m.mu

jVars == <<journal, cred, active, retiring, op>>
vars  == <<authVars, jVars>>

\* lease: lease_id # ''; evidence: reconciliation_evidence # ''.
Record == [owner : Owner, binding : Binding, lease : BOOLEAN,
           quarantined : BOOLEAN, evidence : BOOLEAN]

\* An accessor not drawn yet, a token that has issued nothing, a credential that
\* can log in, one that reached the token's TTL, and one revoked or never issued.
CredState == {"unused", "token", "live", "expired", "ended"}

\* "undo" ends a Mint whose record was not written, "cancel" one whose answer
\* was lost, "withdraw" one whose lease ID could not be written.
OpKind == {"idle", "mint", "failed", "pass", "revoke", "close"}
OpStep == {"none", "list", "next", "act", "delete",
           "token", "add", "undo", "read", "cancel", "set", "withdraw"}
Op == [kind : OpKind, step : OpStep, acc : Accessor \cup {None},
       binding : Binding \cup {None}, todo : SUBSET (Accessor \X BOOLEAN),
       known : BOOLEAN, failed : BOOLEAN, seen : SUBSET Accessor]
Idle == [kind |-> "idle", step |-> "none", acc |-> None, binding |-> None,
         todo |-> {}, known |-> FALSE, failed |-> FALSE, seen |-> {}]

Unresolved(a) == journal[a] # None /\ ~journal[a].evidence
\* DatabaseBindingQuarantined
Quarantined(b) == {a \in Accessor : Unresolved(a) /\ journal[a].quarantined
                                    /\ ~journal[a].lease /\ journal[a].binding = b}

Locked(p, kind, step) == op[p].kind = kind /\ op[p].step = step
Free(p)     == op[p].kind = "idle"
Unlock(p)   == op' = [op EXCEPT ![p] = Idle]
GoTo(p, s)  == op' = [op EXCEPT ![p].step = s]

Init == /\ AuthInit
        /\ journal  = [a \in Accessor |-> None]
        /\ cred     = [a \in Accessor |-> "unused"]
        /\ active   = [p \in Owner |-> {}]
        /\ retiring = [p \in Owner |-> {}]
        /\ op       = [p \in Owner |-> Idle]
-----------------------------------------------------------------------------
(* Claiming the records of dead owners.                                      *)

\* Mutant: only records with a known lease are claimed.
ClaimedKnown(p) == [a \in Accessor |->
                      IF live[p] /\ Unresolved(a) /\ journal[a].lease /\ ~live[journal[a].owner]
                        THEN [journal[a] EXCEPT !.owner = p] ELSE journal[a]]

\* The statement of ClaimOrphanedDatabaseCleanup: it moves nothing unless the
\* claimer is live.
Claimed(p) == [a \in Accessor |->
                 IF live[p] /\ Unresolved(a) /\ ~live[journal[a].owner]
                   THEN [journal[a] EXCEPT !.owner = p] ELSE journal[a]]

\* At the end of a start and of every heartbeat, without the lock.
Adopt(p) == /\ auth[p] = "up"
            /\ journal' = Claimed(p)
            /\ UNCHANGED <<authVars, cred, active, retiring, op>>

\* The retry pass of run(): claim, then reconcile, under the lock.
PassStart(p) == /\ auth[p] = "up" /\ Free(p)
                /\ journal' \in {Claimed(p), journal}
                /\ op' = [op EXCEPT ![p] = [Idle EXCEPT !.kind = "pass", !.step = "list"]]
                /\ UNCHANGED <<authVars, cred, active, retiring>>
-----------------------------------------------------------------------------
(* reconcile, for the operation that holds the lock of p.                    *)

\* Mutant: records that a session of p still uses are listed too.
ListedAll(p) == {t \in Accessor \X BOOLEAN :
                   /\ Unresolved(t[1]) /\ journal[t[1]].owner = p
                   /\ op[p].binding \in {None, journal[t[1]].binding}
                   /\ t[2] = journal[t[1]].lease}

\* What is listed: records of p that no session of p holds (and, for a Mint,
\* of its binding), each with the lease ID it had.
Listed(p) == {t \in Accessor \X BOOLEAN :
                /\ Unresolved(t[1]) /\ journal[t[1]].owner = p
                /\ t[1] \notin active[p]
                /\ op[p].binding \in {None, journal[t[1]].binding}
                /\ t[2] = journal[t[1]].lease}

RecList(p) == /\ op[p].step = "list" /\ live[p]
              /\ op' = [op EXCEPT ![p].step = "next", ![p].todo = Listed(p)]
              /\ UNCHANGED <<authVars, journal, cred, active, retiring>>

\* CheckDatabaseCleanupOwner before each record.
RecCheck(p) == /\ op[p].step = "next" /\ live[p]
               /\ \E t \in op[p].todo :
                    op' = [op EXCEPT ![p].step = "act", ![p].acc = t[1],
                                     ![p].known = t[2], ![p].todo = @ \ {t}]
               /\ UNCHANGED <<authVars, journal, cred, active, retiring>>

\* A failed or refused check or listing ends reconcile with an error, and the
\* operation with it (the release of Close comes on every way out).
RecAbort(p) == /\ op[p].step = "list" \/ (op[p].step = "next" /\ op[p].todo # {})
               /\ op[p].kind # "close"
               /\ Unlock(p)
               /\ UNCHANGED <<authVars, journal, cred, active, retiring>>

\* After a record: the next one, or the end of a Revoke.
Continue(p, failed) ==
  op' = IF op[p].kind = "revoke" THEN [op EXCEPT ![p] = Idle]
        ELSE [op EXCEPT ![p].step = "next", ![p].acc = None, ![p].known = FALSE,
                        ![p].failed = @ \/ failed]

\* A record without a lease ID is marked, and fails the reconcile.
RecQuarantine(p) ==
  LET a == op[p].acc
      marked == [journal EXCEPT ![a].quarantined = TRUE]
  IN /\ op[p].step = "act" /\ ~op[p].known
     /\ journal' \in (IF Unresolved(a) /\ journal[a].owner = p /\ ~journal[a].lease
                        THEN {marked, journal} ELSE {journal})
     /\ Continue(p, TRUE)
     /\ UNCHANGED <<authVars, cred, active, retiring>>

\* RevokeDatabaseLeaseConfirmed: an answer means that the lease is gone.
LeaseRevoked(a) == cred' = [cred EXCEPT ![a] = "ended"]

RecRevoke(p) == /\ op[p].step = "act" /\ op[p].known
                /\ LeaseRevoked(op[p].acc)
                /\ GoTo(p, "delete")
                /\ UNCHANGED <<authVars, journal, active, retiring>>

\* Mutant: a revocation that was not confirmed is taken for one that was.
RecRevokeAssumed(p) == /\ op[p].step = "act" /\ op[p].known
                       /\ LeaseRevoked(op[p].acc) \/ UNCHANGED cred
                       /\ GoTo(p, "delete")
                       /\ UNCHANGED <<authVars, journal, active, retiring>>

RecRevokeError(p) == /\ op[p].step = "act" /\ op[p].known
                     /\ LeaseRevoked(op[p].acc) \/ UNCHANGED cred
                     /\ Continue(p, TRUE)
                     /\ UNCHANGED <<authVars, journal, active, retiring>>

\* Mutant: the row is kept, without its owner.
RecDeleteBlank(p) == /\ op[p].step = "delete"
                     /\ journal' = [journal EXCEPT ![op[p].acc] = IF @ = None THEN @ ELSE [@ EXCEPT !.owner = None]]
                     /\ Continue(p, FALSE)
                     /\ UNCHANGED <<authVars, cred, active, retiring>>

\* DeleteDatabaseCleanup looks at nothing but the accessor.
RecDelete(p) == /\ op[p].step = "delete"
                /\ journal' = [journal EXCEPT ![op[p].acc] = None]
                /\ Continue(p, FALSE)
                /\ UNCHANGED <<authVars, cred, active, retiring>>

RecDeleteError(p) == /\ op[p].step = "delete"
                     /\ journal' \in {[journal EXCEPT ![op[p].acc] = None], journal}
                     /\ Continue(p, TRUE)
                     /\ UNCHANGED <<authVars, cred, active, retiring>>

RecDone(p) == /\ op[p].step = "next" /\ op[p].todo = {}
              /\ op[p].kind \in {"pass", "failed"}
              /\ Unlock(p)
              /\ UNCHANGED <<authVars, journal, cred, active, retiring>>
-----------------------------------------------------------------------------
(* Mint.                                                                     *)

MintStart(p, b) ==
  /\ auth[p] = "up" /\ Free(p)
  /\ op' = [op EXCEPT ![p] = [Idle EXCEPT !.kind = "mint", !.step = "list",
                                          !.binding = b, !.seen = Quarantined(b)]]
  /\ UNCHANGED <<authVars, journal, cred, active, retiring>>

\* Mutant: only what this process failed to clean up is looked at.
MintClearOwn(p) == ~op[p].failed

\* The binding is clean: nothing failed, and no replica quarantined it.
MintClear(p) == ~op[p].failed /\ Quarantined(op[p].binding) = {}

\* The last query of reconcile, which ends without an error.
MintCleared(p) == /\ Locked(p, "mint", "next") /\ op[p].todo = {}
                  /\ MintClear(p)
                  /\ GoTo(p, "token")
                  /\ UNCHANGED <<authVars, journal, cred, active, retiring>>

\* It is not, or the store does not say, or Vault answers with no child token.
MintRefused(p) == /\ \/ Locked(p, "mint", "next") /\ op[p].todo = {}
                     \/ Locked(p, "mint", "token")
                  /\ Unlock(p)
                  /\ UNCHANGED <<authVars, journal, cred, active, retiring>>

\* NewDatabaseSession: a child token under a fresh accessor.
MintToken(p) ==
  /\ Locked(p, "mint", "token")
  /\ \E a \in Accessor : /\ cred[a] = "unused"
                         /\ cred' = [cred EXCEPT ![a] = "token"]
                         /\ op' = [op EXCEPT ![p].step = "add", ![p].acc = a]
  /\ UNCHANGED <<authVars, journal, active, retiring>>

\* AddDatabaseCleanup inserts only for a live owner, before anything is issued.
MintAdd(p) ==
  LET a == op[p].acc
      row == [owner |-> p, binding |-> op[p].binding, lease |-> FALSE,
              quarantined |-> FALSE, evidence |-> FALSE]
  IN /\ Locked(p, "mint", "add")
     /\ \/ live[p] /\ journal' = [journal EXCEPT ![a] = row] /\ GoTo(p, "read")
        \/ live[p] /\ journal' = [journal EXCEPT ![a] = row] /\ GoTo(p, "undo")
        \/ UNCHANGED journal /\ GoTo(p, "undo")
     /\ UNCHANGED <<authVars, cred, active, retiring>>

\* session.Revoke: ending the child token ends what it issued.
TokenEnded(a) == cred' = [cred EXCEPT ![a] = "ended"]

MintUndo(p) == /\ Locked(p, "mint", "undo")
               /\ TokenEnded(op[p].acc) \/ UNCHANGED cred
               /\ Unlock(p)
               /\ UNCHANGED <<authVars, journal, active, retiring>>

\* ReadCredential: the answer arrives, or is lost with or without an issuance.
MintRead(p) ==
  LET a == op[p].acc
      issued == cred[a] = "token" /\ cred' = [cred EXCEPT ![a] = "live"]
  IN /\ Locked(p, "mint", "read")
     /\ \/ issued /\ GoTo(p, "set")
        \/ issued /\ GoTo(p, "cancel")
        \/ UNCHANGED cred /\ GoTo(p, "cancel")
     /\ UNCHANGED <<authVars, journal, active, retiring>>

\* The token is revoked with itself, and reconcile quarantines the binding.
MintCancel(p) ==
  /\ Locked(p, "mint", "cancel")
  /\ TokenEnded(op[p].acc) \/ UNCHANGED cred
  /\ op' = [op EXCEPT ![p].kind = "failed", ![p].step = "list", ![p].acc = None,
                   ![p].seen = {}]
  /\ UNCHANGED <<authVars, journal, active, retiring>>

\* SetDatabaseCleanupLease, for a live owner of an unresolved record.
MintSet(p) ==
  LET a == op[p].acc
      recorded == /\ Unresolved(a) /\ journal[a].owner = p /\ live[p]
                  /\ journal' = [journal EXCEPT ![a].lease = TRUE]
  IN /\ Locked(p, "mint", "set")
     /\ \/ recorded /\ Unlock(p) /\ active' = [active EXCEPT ![p] = @ \cup {a}]
        \/ recorded /\ GoTo(p, "withdraw") /\ UNCHANGED active
        \/ UNCHANGED <<journal, active>> /\ GoTo(p, "withdraw")
     /\ UNCHANGED <<authVars, cred, retiring>>

MintWithdraw(p) ==
  LET a == op[p].acc
  IN /\ Locked(p, "mint", "withdraw")
     /\ LeaseRevoked(a) \/ TokenEnded(a) \/ UNCHANGED cred
     /\ Unlock(p)
     /\ UNCHANGED <<authVars, journal, active, retiring>>
-----------------------------------------------------------------------------
(* Revoke: retired at once, cleaned up under the lock or by a later pass.    *)

RevokeBegin(p, a) == /\ a \in active[p]
                     /\ active' = [active EXCEPT ![p] = @ \ {a}]
                     /\ retiring' = [retiring EXCEPT ![p] = @ \cup {a}]
                     /\ UNCHANGED <<authVars, journal, cred, op>>

RevokeGiveUp(p, a) == /\ a \in retiring[p]
                      /\ retiring' = [retiring EXCEPT ![p] = @ \ {a}]
                      /\ UNCHANGED <<authVars, journal, cred, active, op>>

RevokeLock(p, a) ==
  /\ a \in retiring[p] /\ Free(p)
  /\ retiring' = [retiring EXCEPT ![p] = @ \ {a}]
  /\ op' = [op EXCEPT ![p] = [Idle EXCEPT !.kind = "revoke", !.step = "act",
                                          !.acc = a, !.known = TRUE]]
  /\ UNCHANGED <<authVars, journal, cred, active>>
-----------------------------------------------------------------------------
(* Starting, stopping, and what goes on outside.                             *)

\* The owner row and the authority of a process (module OwnerAuthority).
Owning == /\ \/ \E p \in Owner : Boot(p) \/ Register(p) \/ TakeAuthority(p) \/ LoseAuthority(p)
             \/ \E p \in Owner : Expire({p})
          /\ UNCHANGED jVars

\* Close, after the broker stopped its sessions: whatever is left is reconciled.
CloseStart(p) == /\ auth[p] = "down" /\ Free(p)
                 /\ active' = [active EXCEPT ![p] = {}]
                 /\ op' = [op EXCEPT ![p] = [Idle EXCEPT !.kind = "close", !.step = "list"]]
                 /\ UNCHANGED <<authVars, journal, cred, retiring>>

\* The row is released last, whether reconcile went through, failed, or never
\* got the lock in time.
CloseRelease(p) == /\ ~Locked(p, "close", "act") /\ ~Locked(p, "close", "delete")
                   /\ Release(p)
                   /\ IF op[p].kind = "close" THEN Unlock(p) ELSE UNCHANGED op
                   /\ UNCHANGED <<journal, cred, active, retiring>>

\* A crash, or the exit after Close: the memory of p is gone.
Exit(p) == /\ Die(p)
           /\ active' = [active EXCEPT ![p] = {}]
           /\ retiring' = [retiring EXCEPT ![p] = {}]
           /\ Unlock(p)
           /\ UNCHANGED <<journal, cred>>

\* An operator who found no role or session of a in the database attests it to
\* any live process; ConfirmDatabaseCleanup takes the lock of that process.
Confirm(p, a) == /\ auth[p] = "up" /\ Free(p) /\ live[p]
                 /\ Unresolved(a) /\ ~journal[a].lease
                 /\ cred[a] # "live"
                 /\ journal' = [journal EXCEPT ![a].evidence = TRUE]
                 /\ UNCHANGED <<authVars, cred, active, retiring, op>>

\* A child token reaches its TTL, and what it issued ends with it.
VaultExpiry(a) == /\ cred[a] \in {"token", "live"}
                  /\ cred' = [cred EXCEPT ![a] = "expired"]
                  /\ UNCHANGED <<authVars, journal, active, retiring, op>>

\* The steps of the operation that holds the lock of p.
Holder(p) ==
  \/ RecList(p) \/ RecCheck(p) \/ RecAbort(p) \/ RecQuarantine(p)
  \/ RecRevoke(p) \/ RecRevokeError(p) \/ RecDelete(p) \/ RecDeleteError(p) \/ RecDone(p)
  \/ MintCleared(p) \/ MintRefused(p) \/ MintToken(p) \/ MintAdd(p) \/ MintUndo(p)
  \/ MintRead(p) \/ MintCancel(p) \/ MintSet(p) \/ MintWithdraw(p)

Next ==
  \/ Owning
  \/ \E p \in Owner :
       \/ Holder(p)
       \/ Adopt(p) \/ PassStart(p) \/ CloseStart(p) \/ CloseRelease(p) \/ Exit(p)
       \/ \E b \in Binding : MintStart(p, b)
       \/ \E a \in Accessor : RevokeBegin(p, a) \/ RevokeGiveUp(p, a) \/ RevokeLock(p, a)
                              \/ Confirm(p, a)
  \/ \E a \in Accessor : VaultExpiry(a)

Spec == Init /\ [][Next]_vars

\* A call of reconcile that fails although its owner row is live.
CallFails(p) == \/ live[p] /\ RecAbort(p)
                \/ RecRevokeError(p) \/ RecDeleteError(p)
                \/ RecQuarantine(p) /\ Unresolved(op[p].acc) /\ journal' = journal

\* The tickers of run() keep firing, a started operation goes on, the row of a
\* dead process runs out, and the store and Vault answer in the end.
Fairness ==
  /\ \A p \in Owner : /\ WF_vars(Adopt(p)) /\ WF_vars(PassStart(p)) /\ WF_vars(Holder(p))
                       /\ WF_vars(auth[p] = "gone" /\ Expire({p}) /\ UNCHANGED jVars)
  /\ <>[][\A p \in Owner : ~CallFails(p)]_vars
LiveSpec == Spec /\ Fairness
-----------------------------------------------------------------------------
TypeOK == /\ AuthTypeOK
          /\ journal \in [Accessor -> Record \cup {None}]
          /\ cred \in [Accessor -> CredState]
          /\ active \in [Owner -> SUBSET Accessor]
          /\ retiring \in [Owner -> SUBSET Accessor]
          /\ op \in [Owner -> Op]

\* Whatever fails, crashes or races, a credential that may still log in has a
\* row in the journal, and one that some replica will list and revoke or that
\* holds its binding, unless an operator confirmed it before its lease ID was
\* written.  A row whose lease ID is known is never closed by a confirmation.
LiveCredentialIsListed ==
  \A a \in Accessor : cred[a] = "live" => Unresolved(a) \/ (journal[a] # None /\ ~journal[a].lease)

\* "A response that arrived while the operator was investigating must remain a
\* known lease, never an acknowledged unknown issuance"
\* (durable_leases.go:267-268): the row of a Mint that has its credential is not
\* confirmed.
AnsweredIsNotConfirmed ==
  \A p \in Owner : op[p].kind = "mint" /\ op[p].step \in {"set", "withdraw"}
                   => ~journal[op[p].acc].evidence

\* A lease that a process with authority serves is its own and nobody has
\* revoked it (it may have reached its TTL): no reconcile of this or another
\* replica ends it under the session, and no survivor claims it ("no credential
\* is ever served by two replicas at once", credential-proxy/broker-fleet.md).
ServedLeaseIsOwn ==
  \A p \in Owner, a \in Accessor : (auth[p] = "up" /\ a \in active[p]) =>
     /\ cred[a] \in {"live", "expired"}
     /\ Unresolved(a) /\ journal[a].owner = p /\ journal[a].lease

\* A Mint that began while its binding was quarantined gets past reconcile only
\* if an operator confirmed every unknown issuance it began with.
QuarantineHoldsBinding ==
  \A p \in Owner : (op[p].kind = "mint" /\ op[p].step \in {"token", "add", "read", "set"})
     => \A a \in op[p].seen : journal[a] # None /\ journal[a].evidence

\* Nothing of a is left for a reconcile to do.
Settled(a) == journal[a] = None \/ journal[a].evidence \/ journal[a].quarantined

\* "a survivor claims a dead replica's records and revokes them"
\* (durable_leases.go:66-67): as long as one process stays up and its retry tick
\* finds the lock free again and again, every record of a dead process is deleted
\* after its revocation, quarantined, or confirmed.  A tick only tries the lock:
\* Mints of another binding that hold it at every tick would starve the pass.
OrphansAreSettled ==
  \A p \in Owner, a \in Accessor :
    <>[](auth[p] = "up") /\ []<>(op[p].kind = "pass") =>
      [](journal[a] # None /\ auth[journal[a].owner] = "gone" => <>Settled(a))
=============================================================================
