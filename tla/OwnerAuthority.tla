--------------------------- MODULE OwnerAuthority ---------------------------
(***************************************************************************)
(* What the cleanup journal and the session ledger rely on about broker    *)
(* processes and their owner rows, with the clocks left out.               *)
(*                                                                         *)
(* A member of Owner is one broker process (an owner ID is "replica/boot", *)
(* so a restarted replica is another owner with the same name).  live[p]   *)
(* says that the row of p in database_cleanup_replica is unexpired by the  *)
(* database clock; a row that expired and a row that was deleted look the  *)
(* same to every statement of the store.  Module OwnerRows, which has the  *)
(* clocks, is shown to implement this specification.                       *)
(***************************************************************************)
CONSTANTS Owner,    \* broker processes, one per boot
          Name,     \* replica names
          nameOf    \* the replica name of each process

ASSUME NameAssumption == nameOf \in [Owner -> Name]

VARIABLES auth,     \* auth[p]: what process p believes about its authority
          live      \* live[p]: the owner row of p is unexpired

authVars == <<auth, live>>

\* "up" is a process whose context is not cancelled and whose fence deadline
\* has not passed; "down" one that fenced itself or is closing.
AuthState == {"off", "starting", "up", "down", "gone"}

AuthInit == /\ auth = [p \in Owner |-> "off"]
            /\ live = [p \in Owner |-> FALSE]

\* Another live row shares the replica name of p.
NameHeld(p) == \E q \in Owner \ {p} : nameOf[q] = nameOf[p] /\ live[q]

Boot(p) == /\ auth[p] = "off"
           /\ auth' = [auth EXCEPT ![p] = "starting"]
           /\ UNCHANGED live

\* The claim is one transaction: the name check and the insert.
Register(p) == /\ auth[p] = "starting"
               /\ ~NameHeld(p)
               /\ live' = [live EXCEPT ![p] = TRUE]
               /\ UNCHANGED auth

TakeAuthority(p) == /\ auth[p] = "starting"
                    /\ live[p]
                    /\ auth' = [auth EXCEPT ![p] = "up"]
                    /\ UNCHANGED live

\* Fence, or the cancel at the start of Close.
LoseAuthority(p) == /\ auth[p] \in {"starting", "up"}
                    /\ auth' = [auth EXCEPT ![p] = "down"]
                    /\ UNCHANGED live

Release(p) == /\ auth[p] = "down"
              /\ live' = [live EXCEPT ![p] = FALSE]
              /\ UNCHANGED auth

\* Time passes: any rows but those of processes with authority may expire.
Expire(S) == /\ \A p \in S : live[p] /\ auth[p] # "up"
             /\ live' = [p \in Owner |-> live[p] /\ p \notin S]
             /\ UNCHANGED auth

\* A crash, a refused start, or the exit after Close.
Die(p) == /\ auth[p] \in {"starting", "up", "down"}
          /\ auth' = [auth EXCEPT ![p] = "gone"]
          /\ UNCHANGED live

AuthNext ==
  \/ \E p \in Owner : \/ Boot(p) \/ Register(p) \/ TakeAuthority(p)
                      \/ LoseAuthority(p) \/ Release(p) \/ Die(p)
  \/ \E S \in SUBSET Owner : Expire(S)

AuthSpec == AuthInit /\ [][AuthNext]_authVars
-----------------------------------------------------------------------------
AuthTypeOK == /\ auth \in [Owner -> AuthState]
              /\ live \in [Owner -> BOOLEAN]

\* A process with authority holds a live row (durable_leases.go: FenceAfter is
\* shorter than OwnerTTL "so sessions are closed before any survivor can claim").
AuthorityIsLive == \A p \in Owner : auth[p] = "up" => live[p]

\* Two processes under one replica name never both hold live rows
\* (ClaimDatabaseCleanupOwner refuses the second in the inserting statement).
OneRowPerName == \A p, q \in Owner :
                   (p # q /\ nameOf[p] = nameOf[q]) => ~(live[p] /\ live[q])
=============================================================================
