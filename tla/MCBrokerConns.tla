---------------------------- MODULE MCBrokerConns ----------------------------
(* Instances of the broker's connections for TLC: c1 and c2 are of one Pod. *)
EXTENDS BrokerConns, TLC

CONSTANTS c1, c2, c3, w1, w2

MCConn == {c1, c2, c3}
MCWorkload == {w1, w2}
MCWorkloadOf == (c1 :> w1) @@ (c2 :> w1) @@ (c3 :> w2)
=============================================================================
