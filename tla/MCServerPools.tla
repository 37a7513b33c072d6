---------------------------- MODULE MCServerPools ----------------------------
(***************************************************************************)
(* The pools of an address for TLC, in three sizes: two pools that compete *)
(* for one connection, a queue of clients for one connection of one pool,  *)
(* and one pool with two connections while the fleet, and with it the      *)
(* share of the replica, changes size.  A behaviour is of one size.        *)
(***************************************************************************)
EXTENDS ServerPools, TLC

CONSTANTS Parts, k1, k2, a, b, c

VARIABLE part

Queue == INSTANCE ServerPools WITH Key <- {k1}, Client <- {a, b, c}
Sizes == INSTANCE ServerPools WITH Key <- {k1}, Conn <- {1, 2}, Base <- 2, Replicas <- {1, 2}

PoolsInit == /\ part \in Parts
             /\ \/ part = "keys" /\ Init
                \/ part = "queue" /\ Queue!Init
                \/ part = "sizes" /\ Sizes!Init

PoolsNext == /\ \/ part = "keys" /\ Next
                \/ part = "queue" /\ Queue!Next
                \/ part = "sizes" /\ Sizes!Next
             /\ UNCHANGED part

PoolsSpec == PoolsInit /\ [][PoolsNext]_<<part, vars>>

\* The type invariant of the part (pool.go).
PoolsTypeOK == CASE part = "keys" -> TypeOK [] part = "queue" -> Queue!TypeOK [] part = "sizes" -> Sizes!TypeOK

Symmetry == Permutations({k1, k2}) \cup Permutations({a, b})

\* Of a credential that is revoked with no connection left, nothing is read.
View == <<part, client, conn, idle, cur, pinned, rot, bud, fleet, closed,
          [n \in Cred |-> IF cred[n] # None /\ cred[n].revoked /\ cred[n].conns = 0 THEN "over" ELSE cred[n]]>>
=============================================================================
