-------------------------- MODULE MCCleanupJournal --------------------------
(* Two replicas, two credentials of one database binding.  The replicas have  *)
(* names of their own, so nothing tells one from the other.                   *)
EXTENDS CleanupJournal, TLC
CONSTANTS r1, r2, n1, n2, c1, c2
MCOwner == {r1, r2}
MCName == {n1, n2}
MCnameOf == [p \in MCOwner |-> IF p = r1 THEN n1 ELSE n2]
MCAccessor == {c1, c2}
Symmetry == Permutations(MCOwner) \cup Permutations(MCAccessor)

\* What the actions and the safety properties read: of a row not who owns it once
\* it is confirmed, nor the quarantine of a known lease; of a credential nobody
\* is about to use not why it cannot log in; of an operation seen and (there being
\* one) the binding only while it is a Mint that may still go on: any other only
\* finishes its reconcile, as a pass does.
SeenRow(r) == IF r = None THEN r
              ELSE IF r.evidence THEN <<r.binding, r.lease>>
              ELSE [r EXCEPT !.quarantined = @ /\ ~r.lease]
InUse(a) == \E p \in Owner : \/ auth[p] = "up" /\ a \in active[p]
                             \/ op[p].acc = a /\ op[p].step \in {"add", "read", "set"}
SeenCred(a) == IF InUse(a) \/ cred[a] \in {"unused", "live"} THEN cred[a] ELSE "ended"
SeenOp(o) == IF o.kind = "mint" /\ ~o.failed /\ o.step \notin {"undo", "cancel", "withdraw"} THEN o
             ELSE [o EXCEPT !.kind = IF @ \in {"mint", "failed"} THEN "pass" ELSE @,
                            !.binding = None, !.failed = FALSE, !.seen = {}]
View == <<authVars, [a \in Accessor |-> SeenRow(journal[a])], [a \in Accessor |-> SeenCred(a)],
          active, retiring, [p \in Owner |-> SeenOp(op[p])]>>
=============================================================================
