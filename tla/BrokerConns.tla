----------------------------- MODULE BrokerConns -----------------------------
(***************************************************************************)
(* The connections of one PostgreSQL broker: internal/pgproxy/broker.go.   *)
(* The accept loop, the steps of handleConn with the slots each takes and  *)
(* gives back, Shutdown with and without draining, and the watcher of the  *)
(* cleanup authority.  What a pooled session or a relay does in between is *)
(* one stage here.                                                         *)
(***************************************************************************)
EXTENDS Naturals, FiniteSets

CONSTANTS Conn, Workload,
          workloadOf,          \* the Pod behind each connection, all of one agent
          MaxPendingConns, AdmissionConcurrency, MaxConns,
          MaxLeasesPerActor, MaxLeasesPerAgent,   \* 0: not configured
          PerDatabase,         \* the one database's connection budget
          Pooling,             \* configurations: pooled sessions, which a Shutdown drains, or not
          NoConn

ASSUME ConnsAssumption ==
  /\ IsFiniteSet(Conn) /\ NoConn \notin Conn /\ workloadOf \in [Conn -> Workload]
  /\ {MaxPendingConns, AdmissionConcurrency, MaxConns, PerDatabase, MaxLeasesPerActor} \subseteq Nat \ {0}
  /\ MaxLeasesPerAgent \in Nat /\ Pooling \subseteq BOOLEAN

VARIABLES pc,       \* pc[c]: where the connection is
          held,     \* held[c]: what its handler will give back: "pending", "admission", "lease",
                    \* "agent", "serve" and "upstream" slots, "ledger" entry, "credential"
          open,     \* connections whose client socket is open
          asleep,   \* waiters on the current leaseChanged channel
          loop,     \* the accept loop: what it does, and with which connection
          closed, drain, ctxDone, done,   \* Shutdown
          pooled,   \* the configuration of this broker
          authority \* "held", "lost": the watcher saw it, "forced": closed all, "stopped"

connVars == <<pc, held, open, asleep>>
stopVars == <<closed, drain, ctxDone, done, authority, pooled>>
vars == <<connVars, loop, stopVars>>

Min2(a, b) == IF a < b THEN a ELSE b
Max2(a, b) == IF a < b THEN b ELSE a

\* New: limits above the global ceiling have no effect, and one agent leaves
\* another a workload's worth of it.
PerActor == Min2(MaxLeasesPerActor, MaxConns)
PerAgent == Min2(IF MaxLeasesPerAgent = 0 THEN Max2(MaxConns - PerActor, PerActor)
                                        ELSE MaxLeasesPerAgent, MaxConns)

Queue == {"authq", "ledgerq", "storeq"}
Stage == {"backlog", "accepted", "startup", "authq", "auth", "lease", "agent", "ledgerq", "ledger",
          "serve", "storeq", "store", "track", "pooled", "upstream", "mint", "connect", "open",
          "relay", "end", "slots", "leases", "gone"}

Holders(slot) == {c \in Conn : slot \in held[c]}
\* Between registration and unregister: counted by the wait group.
Registered == {c \in Conn : pc[c] \notin {"backlog", "accepted", "gone"}}
Unwinding == {c \in Conn : pc[c] \in {"end", "slots", "leases"}}
Serving == {c \in Conn : pc[c] \in {"pooled", "relay"}}

Init == /\ pc = [c \in Conn |-> "backlog"]
        /\ held = [c \in Conn |-> {}]
        /\ open = Conn /\ asleep = {}
        /\ loop = [at |-> "accept", conn |-> NoConn]
        /\ closed = FALSE /\ drain = "no" /\ ctxDone = FALSE /\ done = FALSE
        /\ authority = "held" /\ pooled \in Pooling
-----------------------------------------------------------------------------
(* Serve: the accept loop. *)

Accept(c) == /\ loop.at = "accept" /\ ~closed /\ pc[c] = "backlog"
             /\ loop' = [at |-> "hold", conn |-> c]
             /\ pc' = [pc EXCEPT ![c] = "accepted"]
             /\ UNCHANGED <<held, open, asleep, stopVars>>

TakePending == /\ loop.at = "hold" /\ Cardinality(Holders("pending")) < MaxPendingConns
               /\ held' = [held EXCEPT ![loop.conn] = {"pending"}]
               /\ loop' = [loop EXCEPT !.at = "register"]
               /\ UNCHANGED <<pc, open, asleep, stopVars>>

\* Mutant: the pending slot is not given back.
DropKeeping == /\ pc' = [pc EXCEPT ![loop.conn] = "gone"]
               /\ open' = open \ {loop.conn}
               /\ loop' = [at |-> "stopped", conn |-> NoConn]
               /\ UNCHANGED <<held, asleep, stopVars>>

\* The accepted socket is closed and the loop returns.
Drop == /\ pc' = [pc EXCEPT ![loop.conn] = "gone"]
        /\ held' = [held EXCEPT ![loop.conn] = {}]
        /\ open' = open \ {loop.conn}
        /\ loop' = [at |-> "stopped", conn |-> NoConn]
        /\ UNCHANGED <<asleep, stopVars>>

Enrol == /\ pc' = [pc EXCEPT ![loop.conn] = "startup"]
         /\ loop' = [at |-> "accept", conn |-> NoConn]
         /\ UNCHANGED <<held, open, asleep, stopVars>>

HoldStopped == loop.at = "hold" /\ closed /\ Drop

\* Mutant: whether the broker is closed was looked at before the slot was taken.
RegisterLate == loop.at = "register" /\ Enrol

Register == loop.at = "register" /\ (IF closed THEN Drop ELSE Enrol)

AcceptFails == /\ loop.at = "accept" /\ closed
               /\ loop' = [loop EXCEPT !.at = "stopped"]
               /\ UNCHANGED <<connVars, stopVars>>
-----------------------------------------------------------------------------
(* handleConn, in its order. *)

\* c goes from one stage to another with the slots mine.
Go(c, from, to, mine) == /\ pc[c] = from
                         /\ pc' = [pc EXCEPT ![c] = to]
                         /\ held' = [held EXCEPT ![c] = mine]
                         /\ UNCHANGED <<open, loop, stopVars>>

Startup(c) == Go(c, "startup", "authq", held[c]) /\ UNCHANGED asleep

\* acquireAdmission, around authentication, the ledger and the resolution.
AcquireAdmission(c) ==
  /\ Cardinality(Holders("admission")) < AdmissionConcurrency
  /\ \E next \in {<<"authq", "auth">>, <<"ledgerq", "ledger">>, <<"storeq", "store">>} :
       Go(c, next[1], next[2], held[c] \cup {"admission"})
  /\ UNCHANGED asleep

\* Mutant: the slot is kept until the session is admitted.
AuthenticateKeeping(c) == Go(c, "auth", "lease", held[c]) /\ UNCHANGED asleep

Authenticate(c) == Go(c, "auth", "lease", held[c] \ {"admission"}) /\ UNCHANGED asleep

\* Those counted under the same key of leaseCounts.
SameWorkload(c) == {d \in Holders("lease") : workloadOf[d] = workloadOf[c]}

\* acquireLeaseSlot: takes a slot or sleeps on the channel of this moment.
AcquireLeaseSlot(c, from, to, slot, holders, limit) ==
  /\ c \notin asleep /\ ~ctxDone
  /\ \/ /\ Cardinality(holders) < limit
        /\ Go(c, from, to, held[c] \cup {slot}) /\ UNCHANGED asleep
     \/ /\ Cardinality(holders) >= limit /\ pc[c] = from
        /\ asleep' = asleep \cup {c}
        /\ UNCHANGED <<pc, held, open, loop, stopVars>>

LeaseSlot(c) == \/ AcquireLeaseSlot(c, "lease", "agent", "lease", SameWorkload(c), PerActor)
                \/ AcquireLeaseSlot(c, "agent", "ledgerq", "agent", Holders("agent"), PerAgent)

LedgerAdd(c) == Go(c, "ledger", "serve", (held[c] \ {"admission"}) \cup {"ledger"}) /\ UNCHANGED asleep

AcquireServeSlot(c) == /\ Cardinality(Holders("serve")) < MaxConns
                       /\ Go(c, "serve", "storeq", (held[c] \ {"pending"}) \cup {"serve"})
                       /\ UNCHANGED asleep

Resolve(c) == /\ Go(c, "store", IF pooled THEN "track" ELSE "upstream", held[c] \ {"admission"})
              /\ UNCHANGED asleep

TrackPooled(c) == ~closed /\ Go(c, "track", "pooled", held[c]) /\ UNCHANGED asleep

AcquireUpstreamSlot(c) == /\ Cardinality(Holders("upstream")) < PerDatabase
                          /\ Go(c, "upstream", "mint", held[c] \cup {"upstream"}) /\ UNCHANGED asleep

Mint(c) == Go(c, "mint", "connect", held[c] \cup {"credential"}) /\ UNCHANGED asleep

Connect(c) == ~ctxDone /\ Go(c, "connect", "open", held[c]) /\ UNCHANGED asleep

\* The session row is written and the client is told it may start.
Ready(c) == c \in open /\ Go(c, "open", "relay", held[c]) /\ UNCHANGED asleep

\* A wait runs out, a call fails or the session is refused: the handler returns.
Refuse(c) ==
  /\ pc[c] \in Stage \ {"backlog", "accepted", "pooled", "relay", "end", "slots", "leases", "gone"}
  /\ pc' = [pc EXCEPT ![c] = "end"]
  /\ held' = [held EXCEPT ![c] = @ \ {"admission"}]
  /\ asleep' = asleep \ {c}
  /\ UNCHANGED <<open, loop, stopVars>>

\* The client leaves, the database closes, the lease or the authorization ends.
SessionEnds(c) == /\ c \in Serving
                  /\ pc' = [pc EXCEPT ![c] = "end"]
                  /\ UNCHANGED <<held, open, asleep, loop, stopVars>>

\* Mutant: the slots of the caps are given back before the credential.
RevokeLast(c) == Go(c, "end", "slots", held[c] \ {"lease", "agent", "serve"}) /\ UNCHANGED asleep

\* The deferred calls: the credential first, the serving slots, then the lease
\* slots, whose release wakes every waiter, last the pending slot.
Revoke(c) == Go(c, "end", "slots", held[c] \ {"credential", "ledger"}) /\ UNCHANGED asleep

ReleaseSlots(c) == Go(c, "slots", "leases", held[c] \ {"upstream", "serve"}) /\ UNCHANGED asleep

\* Mutant: a waiter is woken only when the last slot of the key is free.
ReleaseLeaseSlotLast(c) ==
  /\ pc[c] = "leases"
  /\ pc' = [pc EXCEPT ![c] = "gone"] /\ open' = open \ {c}
  /\ held' = [held EXCEPT ![c] = @ \ {"lease", "agent", "pending"}]
  /\ asleep' = IF Holders("agent") \subseteq {c} THEN {} ELSE asleep
  /\ UNCHANGED <<loop, stopVars>>

ReleaseLeaseSlot(c) ==
  /\ pc[c] = "leases"
  /\ pc' = [pc EXCEPT ![c] = "gone"] /\ open' = open \ {c}
  /\ held' = [held EXCEPT ![c] = @ \ {"lease", "agent", "pending"}]
  /\ asleep' = IF "lease" \in held[c] THEN {} ELSE asleep
  /\ UNCHANGED <<loop, stopVars>>

-----------------------------------------------------------------------------
(* Shutdown, forceClose and the watcher of the cleanup authority. *)

\* Closes the listener and every registered connection; a drain spares pooled
\* sessions, and then the broker's context lives on.
Shutdown ==
  /\ ~closed /\ authority # "lost"
  /\ closed' = TRUE
  /\ drain' = IF pooled /\ authority = "held" THEN "draining" ELSE "no"
  /\ open' = open \ {c \in Registered : ~(drain' = "draining" /\ pc[c] = "pooled")}
  /\ ctxDone' = (drain' = "no")
  /\ authority' = IF authority = "forced" THEN "stopped" ELSE authority
  /\ UNCHANGED <<pc, held, asleep, loop, done, pooled>>

\* Mutant: the deadline spares pooled sessions as the drain did.
DrainDeadlineSparing == /\ drain = "draining" /\ ~done
                        /\ drain' = "over"
                        /\ open' = open \ (Registered \ Serving)
                        /\ UNCHANGED <<pc, held, asleep, loop, closed, ctxDone, done, authority, pooled>>

\* The drain deadline: sessions still busy are closed.
DrainDeadline == /\ drain = "draining" /\ ~done
                 /\ drain' = "over"
                 /\ open' = open \ Registered
                 /\ UNCHANGED <<pc, held, asleep, loop, closed, ctxDone, done, authority, pooled>>

\* All handlers have returned: the pools are closed and Shutdown returns.
Waited == /\ closed /\ ~done /\ Registered = {}
          /\ ctxDone' = TRUE /\ done' = TRUE
          /\ UNCHANGED <<connVars, loop, closed, drain, authority, pooled>>

AuthorityLost == /\ authority = "held" /\ ~ctxDone
                 /\ authority' = "lost"
                 /\ UNCHANGED <<connVars, loop, closed, drain, ctxDone, done, pooled>>

ForceClose == /\ authority = "lost"
              /\ open' = open \ Registered
              /\ authority' = IF closed THEN "stopped" ELSE "forced"
              /\ UNCHANGED <<pc, held, asleep, loop, closed, drain, ctxDone, done, pooled>>

Handler(c) == \/ Startup(c) \/ AcquireAdmission(c) \/ Authenticate(c) \/ LeaseSlot(c) \/ LedgerAdd(c)
              \/ AcquireServeSlot(c) \/ Resolve(c) \/ TrackPooled(c) \/ AcquireUpstreamSlot(c)
              \/ Mint(c) \/ Connect(c) \/ Ready(c)

Unwind(c) == Revoke(c) \/ ReleaseSlots(c) \/ ReleaseLeaseSlot(c)

Loop == (\E c \in Conn : Accept(c)) \/ TakePending \/ HoldStopped \/ Register \/ AcceptFails

Next == \/ Loop
        \/ \E c \in Conn : Handler(c) \/ Refuse(c) \/ SessionEnds(c) \/ Unwind(c)
        \/ Shutdown \/ DrainDeadline \/ Waited \/ AuthorityLost \/ ForceClose

Spec == Init /\ [][Next]_vars

\* A session whose socket the broker closed ends, a handler whose socket or
\* context is gone runs out of time, deferred calls run, timers fire.
Fairness == /\ WF_vars(Loop) /\ WF_vars(DrainDeadline) /\ WF_vars(Waited) /\ WF_vars(ForceClose)
            /\ WF_vars(authority = "forced" /\ Shutdown)
            /\ \A c \in Conn : /\ WF_vars(Unwind(c))
                              /\ WF_vars(Refuse(c))
                              /\ WF_vars(c \notin open /\ SessionEnds(c))

LiveSpec == Spec /\ Fairness
-----------------------------------------------------------------------------
\* Shutdown misses no connection: once the broker is closed, every connection
\* whose handler goes on was closed too, unless a drain lets its pooled
\* session finish; without the cleanup authority not even those go on.
ShutdownMissesNobody ==
  closed => \A c \in (Registered \cap open) \ Unwinding :
              drain = "draining" /\ pc[c] = "pooled" /\ authority # "stopped"

\* The caps bound credentials, not sessions: a slot is given back only after the
\* revocation was tried, so a workload never has more credentials than its cap,
\* nor the broker more than MaxConns.
CredentialsWithinCaps ==
  /\ Cardinality(Holders("credential")) <= Min2(PerAgent, MaxConns)
  /\ \A w \in Workload : Cardinality({c \in Holders("credential") : workloadOf[c] = w}) <= PerActor

\* acquireLeaseSlot loses no wake-up: who sleeps on the current channel sleeps
\* because the cap it waits for is reached.
SleepersAreBlocked ==
  \A c \in asleep : \/ pc[c] = "lease" /\ Cardinality(SameWorkload(c)) >= PerActor
                    \/ pc[c] = "agent" /\ Cardinality(Holders("agent")) >= PerAgent

\* What a handler took it gives back on every path.
GoneHoldsNothing == \A c \in Conn : pc[c] = "gone" => held[c] = {} /\ c \notin open

\* Shutdown ends: although clients need not leave, once it has begun all
\* handlers return and the pools are closed.
ShutdownCompletes == closed ~> done

\* The slot that c waits for is taken.
Blocked(c) == \/ pc[c] \in Queue /\ Cardinality(Holders("admission")) >= AdmissionConcurrency
              \/ pc[c] = "lease" /\ Cardinality(SameWorkload(c)) >= PerActor
              \/ pc[c] = "agent" /\ Cardinality(Holders("agent")) >= PerAgent
              \/ pc[c] = "serve" /\ Cardinality(Holders("serve")) >= MaxConns

\* Nobody waits for somebody who waits for them: while handlers run, one of
\* them can go on without a time limit running out.
NoCircularWait == Registered # {} => \E c \in Registered : ~Blocked(c)
=============================================================================
