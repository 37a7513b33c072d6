---------------------------- MODULE MCReplicaRows ----------------------------
(***************************************************************************)
(* The rows the replicas keep in Postgres beside the cleanup journal: the  *)
(* session ledger (two replicas with names of their own, two Pods that may *)
(* have two sessions each, four sessions) and the audit row of one replica *)
(* name with the trail it anchors (three process runs, which may overlap). *)
(* Neither table is read through the other: a behaviour moves one of them. *)
(***************************************************************************)
EXTENDS PodSessions, AuditVerify

CONSTANTS Parts, r1, r2, n1, n2, s1, s2, s3, s4, pod1, pod2, p1, p2, p3

MCOwner == {r1, r2}
MCName == {n1, n2}
MCnameOf == [p \in MCOwner |-> IF p = r1 THEN n1 ELSE n2]
MCSession == {s1, s2, s3, s4}
MCPod == {pod1, pod2}

\* Four rows show an event between a checkpoint and its signature.
RowsTrail == <<4, 2>>
RowsCut == <<3, 3>>

VARIABLE part

RowsInit == part \in Parts /\ Init /\ ChainInit
RowsNext == /\ \/ part = "ledger" /\ Next /\ UNCHANGED chainVars
               \/ part = "trail" /\ ChainNext /\ UNCHANGED vars
            /\ UNCHANGED part
RowsSpec == RowsInit /\ [][RowsNext]_<<part, vars, chainVars>>

\* Sessions are alike, and so are process runs: how often each state is met.
Alike(f) == {<<f[i], Cardinality({j \in DOMAIN f : f[j] = f[i]})>> : i \in DOMAIN f}

\* What the actions and the properties read of a run of the trail: not saved, not
\* how a run ended, and overlap only where a key can be older.
Seen(me) == LET over == me.pc \in {"failed", "dead"} IN
  [me EXCEPT !.saved = 0, !.pc = IF over THEN "dead" ELSE @,
             !.overlap = @ /\ me.boot # 1 /\ ~(over /\ me.boot = 0)]

View == IF part = "ledger"
          THEN <<part, authVars, Alike([s \in Session |-> <<rows[s], sess[s], by[s]>>])>>
          ELSE <<part, store, kv, log, Alike([p \in Proc |-> Seen(proc[p])])>>
=============================================================================
