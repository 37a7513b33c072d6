----------------------------- MODULE ServerPools -----------------------------
(***************************************************************************)
(* Transaction-mode pooling (internal/pgproxy/pool.go): the pools of       *)
(* server connections to one database address on one broker process, the   *)
(* process's share of the connection budget of that address, and the       *)
(* rotating credential of each pool.                                       *)
(*                                                                         *)
(* p.mu is held for a whole step of this module; it is free while a        *)
(* checkout waits, mints or dials.  A credential ages (fresh, due for      *)
(* rotation, within its margin, expired) between any two steps.            *)
(***************************************************************************)
EXTENDS Naturals, Sequences, FiniteSets

CONSTANTS Key,       \* pool keys of the address
          Client, None,
          Conn, Cred,  \* numbers, given out in order
          Base,      \* the budget of the database over the whole fleet
          Replicas,  \* the fleet sizes that may come up
          QueueFactor,
          ShareDen   \* SessionShare is 1 / ShareDen

ASSUME PoolAssumption == /\ Base \in Nat \ {0} /\ QueueFactor \in Nat \ {0}
                         /\ ShareDen \in Nat \ {0}
                         /\ Replicas \subseteq Nat \ {0} /\ Replicas # {}
                         /\ Conn \subseteq Nat /\ Cred \subseteq Nat

VARIABLES client,    \* client[c]: the checkout or the connection of client c
          conn,      \* conn[x]: an established server connection, or None
          idle,      \* idle[k]: pool.idle, a stack
          cur,       \* cur[k]: pool.cur
          cred,      \* cred[c]: a credential, or None before it is issued
          pinned,    \* pinned[k]: pool.pinned
          rot,       \* rot[k]: the background rotation (pool.minting)
          bud,       \* the budget: open and limit
          fleet,     \* LiveReplicas, and whether it ever changed
          closed

vars == <<client, conn, idle, cur, cred, pinned, rot, bud, fleet, closed>>

\* "slot": room reserved, no credential; "mint", "minted": it holds mintMu;
\* "dial": a connection reserved on cred.
CheckoutStep == {"out", "try", "slot", "mint", "minted", "dial", "wait", "hold"}
Checkout == [step : CheckoutStep, key : Key \cup {None}, pin : BOOLEAN,
             cred : Cred \cup {None}, conn : Conn \cup {None},
             waiting : BOOLEAN,   \* counted in bud.waiters
             woken : BOOLEAN,     \* the channel it waits on was closed
             late : BOOLEAN]      \* its deadline passed
Out == [step |-> "out", key |-> None, pin |-> FALSE, cred |-> None, conn |-> None,
        waiting |-> FALSE, woken |-> FALSE, late |-> FALSE]

\* age: 0 fresh, 1 past rotateAt, 2 within the margin, 3 past ExpiresAt.
Credential == [key : Key, conns : Nat, retiring : BOOLEAN, revoked : BOOLEAN, age : 0..3]

Max2(a, b) == IF a > b THEN a ELSE b
LimitFor(n) == Max2(1, Base \div n)
Share == Max2(1, bud.limit \div ShareDen)
Waiters == Cardinality({c \in Client : client[c].waiting})
IdleConns == UNION {{idle[k][i] : i \in 1..Len(idle[k])} : k \in Key}
Listed(k) == {c \in Cred : cred[c] # None /\ cred[c].key = k /\ ~cred[c].revoked}
MintFree(k) == /\ rot[k] # "mint"
               /\ \A c \in Client : ~(client[c].key = k /\ client[c].step \in {"mint", "minted"})
Usable(k) == /\ cur[k] # None
             /\ ~cred[cur[k]].retiring /\ ~cred[cur[k]].revoked /\ cred[cur[k]].age < 2

\* notify: every waiter's channel is closed.
Woken(cl) == [c \in Client |-> IF cl[c].step = "wait" THEN [cl[c] EXCEPT !.woken = TRUE] ELSE cl[c]]
WokenIf(b, cl) == IF b THEN Woken(cl) ELSE cl

\* Mutant: a retiring credential is revoked without waiting for its connections.
RetiredNow(r) == [r EXCEPT !.revoked = @ \/ r.retiring]
\* retireIfDrainedLocked
Retired(r) == [r EXCEPT !.revoked = @ \/ (r.retiring /\ r.conns = 0)]
\* What closeLocked does to the credentials when it closes the connections X.
Shut(X, cr) == [c \in Cred |->
                  LET n == Cardinality({x \in X : conn[x].cred = c})
                  IN IF n = 0 THEN cr[c]
                     ELSE Retired([cr[c] EXCEPT !.conns = @ - n])]
Gone(X) == [x \in Conn |-> IF x \in X THEN None ELSE conn[x]]

Init == /\ client = [c \in Client |-> Out]
        /\ conn   = [x \in Conn |-> None]
        /\ idle   = [k \in Key |-> <<>>]
        /\ cur    = [k \in Key |-> None]
        /\ cred   = [c \in Cred |-> None]
        /\ pinned = [k \in Key |-> 0]
        /\ rot    = [k \in Key |-> "none"]
        /\ fleet \in [size : Replicas, resized : {FALSE}]
        /\ bud    = [open |-> 0, limit |-> LimitFor(fleet.size)]
        /\ closed = FALSE
-----------------------------------------------------------------------------
(* acquire.                                                                  *)

\* c is at the top of the loop of a checkout from pool k: it has just begun, or
\* it waited.
Begin(c, k, pin) == \/ client[c].step = "out" /\ ~closed
                    \/ client[c].step = "try" /\ client[c].key = k /\ client[c].pin = pin

Fail(c, cl) == [cl EXCEPT ![c] = Out]
\* acquire returns connection x to c.
Hold(c, k, pin, x, cl) ==
  [cl EXCEPT ![c] = [Out EXCEPT !.step = "hold", !.key = k, !.pin = pin, !.conn = x]]
Pin(k, b) == pinned' = IF b THEN [pinned EXCEPT ![k] = @ + 1] ELSE pinned

\* Connections on top of the stack whose credential retires; the rest is kept.
KeptIdle(k) == LET fresh == {i \in 1..Len(idle[k]) : ~cred[conn[idle[k][i]].cred].retiring}
               IN SubSeq(idle[k], 1, IF fresh = {} THEN 0
                                     ELSE CHOOSE i \in fresh : \A j \in fresh : j <= i)
DroppedIdle(k) == {idle[k][i] : i \in (Len(KeptIdle(k)) + 1)..Len(idle[k])}

TryPinnedShare(c, k, pin) ==
  /\ Begin(c, k, pin)
  /\ pin /\ pinned[k] >= Max2(1, LimitFor(fleet.size) \div ShareDen)
  /\ bud' = [bud EXCEPT !.limit = LimitFor(fleet.size)]
  /\ client' = Fail(c, client)
  /\ UNCHANGED <<conn, idle, cur, cred, pinned, rot, fleet, closed>>

\* Past the share check.  budgetFor has set the limit of the budget by then.
Trying(c, k, pin) == /\ Begin(c, k, pin)
                     /\ ~pin \/ pinned[k] < Max2(1, LimitFor(fleet.size) \div ShareDen)

\* Mutant: the newest idle connection is reused whatever its credential.
TryReuseAny(c, k, pin) ==
  /\ Trying(c, k, pin) /\ idle[k] # <<>>
  /\ idle' = [idle EXCEPT ![k] = SubSeq(@, 1, Len(@) - 1)]
  /\ Pin(k, pin)
  /\ bud' = [bud EXCEPT !.limit = LimitFor(fleet.size)]
  /\ client' = Hold(c, k, pin, idle[k][Len(idle[k])], client)
  /\ UNCHANGED <<conn, cur, cred, rot, fleet, closed>>

TryReuse(c, k, pin) ==
  LET kept == KeptIdle(k)
      drop == DroppedIdle(k)
  IN /\ Trying(c, k, pin) /\ kept # <<>>
     /\ idle' = [idle EXCEPT ![k] = SubSeq(kept, 1, Len(kept) - 1)]
     /\ conn' = Gone(drop)
     /\ cred' = Shut(drop, cred)
     /\ bud' = [open |-> bud.open - Cardinality(drop), limit |-> LimitFor(fleet.size)]
     /\ Pin(k, pin)
     /\ client' = Hold(c, k, pin, kept[Len(kept)], WokenIf(drop # {}, client))
     /\ UNCHANGED <<cur, rot, fleet, closed>>

\* evictIdleLocked: the oldest idle connection of some other pool, if any.
Evictable(k) == {j \in Key \ {k} : idle[j] # <<>>}

Room(open, limit) == open < limit

\* No idle connection is left: open one, evict one, wait, or give up.
TryOpen(c, k, pin) ==
  LET drop == DroppedIdle(k)
      limit == LimitFor(fleet.size)
      open == bud.open - Cardinality(drop)
  IN /\ Trying(c, k, pin) /\ KeptIdle(k) = <<>>
     /\ \E V \in SUBSET Evictable(k) :
          LET out == drop \cup {Head(idle[j]) : j \in V}
              left == open - Cardinality(V)
          IN /\ Cardinality(V) = IF ~Room(open, limit) /\ Evictable(k) # {} THEN 1 ELSE 0
             /\ idle' = [j \in Key |-> IF j = k THEN <<>>
                                       ELSE IF j \in V THEN Tail(idle[j]) ELSE idle[j]]
             /\ conn' = Gone(out)
             /\ cred' = Shut(out, cred)
             /\ LET cl == WokenIf(out # {}, client)
                IN \/ /\ Room(left, limit)
                      /\ bud' = [open |-> left + 1, limit |-> limit]
                      /\ client' = [cl EXCEPT ![c] = [@ EXCEPT !.step = "slot", !.key = k, !.pin = pin]]
                   \/ /\ ~Room(left, limit) /\ ~client[c].late
                      /\ client[c].waiting \/ Waiters < limit * QueueFactor
                      /\ bud' = [open |-> left, limit |-> limit]
                      /\ client' = [cl EXCEPT ![c] = [Out EXCEPT !.step = "wait", !.key = k,
                                                               !.pin = pin, !.waiting = TRUE]]
                   \/ /\ ~Room(left, limit)
                      /\ client[c].late \/ (~client[c].waiting /\ Waiters >= limit * QueueFactor)
                      /\ bud' = [open |-> left, limit |-> limit]
                      /\ client' = Fail(c, cl)
     /\ UNCHANGED <<cur, pinned, rot, fleet, closed>>

\* The select: woken, out of time (one more try), or cancelled.
WaitEnds(c) ==
  /\ client[c].step = "wait"
  /\ \/ client[c].woken /\ client' = [client EXCEPT ![c].step = "try", ![c].woken = FALSE]
     \/ client' = [client EXCEPT ![c].step = "try", ![c].woken = FALSE, ![c].late = TRUE]
     \/ client' = Fail(c, client)
  /\ UNCHANGED <<conn, idle, cur, cred, pinned, rot, bud, fleet, closed>>
-----------------------------------------------------------------------------
(* open and credentialFor, with p.mu free in between.                        *)

\* The current credential has room: reserve a connection on it.
Reserve(c) ==
  LET k == client[c].key
  IN /\ client[c].step \in {"slot", "minted"} /\ Usable(k)
     /\ cred' = [cred EXCEPT ![cur[k]].conns = @ + 1]
     /\ client' = [client EXCEPT ![c].step = "dial", ![c].cred = cur[k]]
     /\ UNCHANGED <<conn, idle, cur, pinned, rot, bud, fleet, closed>>

MintLock(c) == /\ client[c].step = "slot"
               /\ ~Usable(client[c].key) /\ MintFree(client[c].key)
               /\ client' = [client EXCEPT ![c].step = "mint"]
               /\ UNCHANGED <<conn, idle, cur, cred, pinned, rot, bud, fleet, closed>>

\* mintLocked: a new current credential; the old one retires, and its idle
\* connections close.
Install(k, n) ==
  LET old == cur[k]
      stale == {x \in IdleConns : conn[x].key = k /\ conn[x].cred = old}
      fresh == [key |-> k, conns |-> 0, retiring |-> FALSE, revoked |-> FALSE, age |-> 0]
      ret == IF old = None THEN cred
             ELSE LET shut == Shut(stale, [cred EXCEPT ![old].retiring = TRUE])
                  IN [shut EXCEPT ![old] = Retired(@)]
  IN /\ cred[n] = None /\ \A m \in Cred : cred[m] = None => n <= m
     /\ cred' = [ret EXCEPT ![n] = fresh]
     /\ cur' = [cur EXCEPT ![k] = n]
     /\ conn' = Gone(stale)
     /\ idle' = [idle EXCEPT ![k] = SelectSeq(@, LAMBDA x : x \notin stale)]
     /\ bud' = [bud EXCEPT !.open = @ - Cardinality(stale)]

Stale(k) == {x \in IdleConns : conn[x].key = k /\ conn[x].cred = cur[k]}

MintDone(c, n) == /\ client[c].step = "mint"
                  /\ client' = [WokenIf(Stale(client[c].key) # {}, client) EXCEPT ![c].step = "minted"]
                  /\ Install(client[c].key, n)
                  /\ UNCHANGED <<pinned, rot, fleet, closed>>

\* Mutant: the room of a failed dial is not given back.
OpenFailsKeepingRoom(c) ==
  /\ client[c].step = "dial"
  /\ cred' = [cred EXCEPT ![client[c].cred] = Retired([@ EXCEPT !.conns = @ - 1])]
  /\ client' = Fail(c, Woken(client))
  /\ UNCHANGED <<conn, idle, cur, pinned, rot, bud, fleet, closed>>

\* No credential, or no connection: the room is given back, and the waiters
\* are told.
OpenFails(c) ==
  /\ \/ client[c].step = "mint"
     \/ client[c].step = "minted" /\ ~Usable(client[c].key)
     \/ client[c].step = "dial"
  /\ cred' = IF client[c].step # "dial" THEN cred
             ELSE [cred EXCEPT ![client[c].cred] = Retired([@ EXCEPT !.conns = @ - 1])]
  /\ bud' = [bud EXCEPT !.open = @ - 1]
  /\ client' = Fail(c, Woken(client))
  /\ UNCHANGED <<conn, idle, cur, pinned, rot, fleet, closed>>

DialDone(c, x) ==
  /\ client[c].step = "dial"
  /\ conn[x] = None /\ \A y \in Conn : conn[y] = None => x <= y
  /\ conn' = [conn EXCEPT ![x] = [key |-> client[c].key, cred |-> client[c].cred]]
  /\ Pin(client[c].key, client[c].pin)
  /\ client' = Hold(c, client[c].key, client[c].pin, x, client)
  /\ UNCHANGED <<idle, cur, cred, rot, bud, fleet, closed>>
-----------------------------------------------------------------------------
(* release, pin and retire, by the client that holds a connection.           *)

\* Mutant: a connection is put back without a word to the waiters.
ReleaseSilently(c, reusable) ==
  /\ client[c].step = "hold" /\ ~client[c].pin
  /\ idle' = [idle EXCEPT ![client[c].key] = Append(@, client[c].conn)]
  /\ client' = Fail(c, client)
  /\ UNCHANGED <<conn, cur, cred, pinned, rot, bud, fleet, closed>>

\* Mutant: the share is given back by connections that never took it.
ReleaseUnpins(c, reusable) ==
  /\ client[c].step = "hold"
  /\ idle' = [idle EXCEPT ![client[c].key] = Append(@, client[c].conn)]
  /\ pinned' = [pinned EXCEPT ![client[c].key] = @ - 1]
  /\ client' = Fail(c, Woken(client))
  /\ UNCHANGED <<conn, cur, cred, rot, bud, fleet, closed>>

Release(c, reusable) ==
  LET x == client[c].conn
      k == client[c].key
      keep == /\ reusable /\ bud.open <= bud.limit
              /\ ~cred[conn[x].cred].retiring /\ ~cred[conn[x].cred].revoked
              /\ cred[conn[x].cred].age < 2
  IN /\ client[c].step = "hold"
     /\ pinned' = IF client[c].pin THEN [pinned EXCEPT ![k] = @ - 1] ELSE pinned
     /\ client' = Fail(c, Woken(client))
     /\ \/ /\ keep
           /\ idle' = [idle EXCEPT ![k] = Append(@, x)]
           /\ UNCHANGED <<conn, cred, bud>>
        \/ /\ ~keep
           /\ conn' = Gone({x})
           /\ cred' = Shut({x}, cred)
           /\ bud' = [bud EXCEPT !.open = @ - 1]
           /\ UNCHANGED idle
     /\ UNCHANGED <<cur, rot, fleet, closed>>

\* pin: a bound connection moves into the session-mode share.
PinHeld(c) == /\ client[c].step = "hold" /\ ~client[c].pin
              /\ pinned[client[c].key] < Share
              /\ client' = [client EXCEPT ![c].pin = TRUE]
              /\ Pin(client[c].key, TRUE)
              /\ UNCHANGED <<conn, idle, cur, cred, rot, bud, fleet, closed>>

\* retire, for a client that changed the login itself.
Retire(c) ==
  LET u == conn[client[c].conn].cred
  IN /\ client[c].step = "hold"
     /\ cur' = [k \in Key |-> IF cur[k] = u THEN None ELSE cur[k]]
     /\ cred' = [cred EXCEPT ![u].retiring = TRUE]
     /\ UNCHANGED <<client, conn, idle, pinned, rot, bud, fleet, closed>>
-----------------------------------------------------------------------------
(* maintain and close.                                                       *)

\* How many connections trimLocked pops off each stack: pool after pool, down
\* to the new limit.
Trims(excess) ==
  {n \in [Key -> 0..excess] :
     /\ \A k \in Key : n[k] <= Len(idle[k])
     /\ \A j, k \in Key : j # k /\ n[j] > 0 /\ n[k] > 0
                           => n[j] = Len(idle[j]) \/ n[k] = Len(idle[k])
     /\ LET total == Cardinality(UNION {{<<k, i>> : i \in 1..n[k]} : k \in Key})
        IN total = IF excess < Cardinality(IdleConns) THEN excess ELSE Cardinality(IdleConns)}

\* One tick: follow the fleet size, close connections idle for too long, start
\* rotations that are due, retire unused logins, and force out expired ones.
Maintain ==
  LET limit == LimitFor(fleet.size)
      excess == IF limit # bud.limit /\ bud.open > limit THEN bud.open - limit ELSE 0
  IN /\ ~closed
     /\ \E n \in Trims(excess) :
          LET trimmed == [k \in Key |-> SubSeq(idle[k], 1, Len(idle[k]) - n[k])]
              over == UNION {{idle[k][i] : i \in (Len(trimmed[k]) + 1)..Len(idle[k])} : k \in Key}
          IN \E timedOut \in SUBSET (IdleConns \ over) :
               LET out == over \cup timedOut
                   cr == Shut(out, cred)
                   left == [k \in Key |-> SelectSeq(trimmed[k], LAMBDA x : x \notin out)]
                   due(k) == cur[k] # None /\ cred[cur[k]].age >= 1
                   unused(c) == \E k \in Key : due(k) /\ cur[k] = c /\ cr[c].conns = 0
                   expired(c) == cr[c] # None /\ ~cr[c].revoked /\ cr[c].age = 3
               IN /\ idle' = left
                  /\ conn' = Gone(out)
                  /\ bud' = [open |-> bud.open - Cardinality(out), limit |-> limit]
                  /\ rot' = [k \in Key |->
                               IF due(k) /\ rot[k] = "none" /\ (cr[cur[k]].conns > 0 \/ left[k] # <<>>)
                                 THEN "want" ELSE rot[k]]
                  /\ cred' = [c \in Cred |-> IF unused(c) \/ expired(c)
                                               THEN [cr[c] EXCEPT !.retiring = TRUE, !.revoked = TRUE]
                                               ELSE cr[c]]
                  /\ cur' = [k \in Key |-> IF cur[k] # None /\ (unused(cur[k]) \/ expired(cur[k]))
                                             THEN None ELSE cur[k]]
                  /\ client' = WokenIf(out # {} \/ limit > bud.limit, client)
     /\ UNCHANGED <<pinned, fleet, closed>>

RotateLock(k) == /\ rot[k] = "want" /\ MintFree(k)
                 /\ rot' = [rot EXCEPT ![k] = "mint"]
                 /\ UNCHANGED <<client, conn, idle, cur, cred, pinned, bud, fleet, closed>>

RotateDone(k, n) == /\ rot[k] = "mint"
                    /\ Install(k, n)
                    /\ rot' = [rot EXCEPT ![k] = "none"]
                    /\ client' = WokenIf(Stale(k) # {}, client)
                    /\ UNCHANGED <<pinned, fleet, closed>>

RotateFails(k) == /\ rot[k] = "mint"
                  /\ rot' = [rot EXCEPT ![k] = "none"]
                  /\ UNCHANGED <<client, conn, idle, cur, cred, pinned, bud, fleet, closed>>

\* close, once every session is gone (the goroutine of Shutdown).
Close ==
  LET shut == Shut(IdleConns, cred)
      ended(c) == shut[c] # None /\ ~shut[c].revoked
  IN /\ ~closed /\ \A c \in Client : client[c].step = "out"
     /\ closed' = TRUE
     /\ idle' = [k \in Key |-> <<>>]
     /\ conn' = Gone(IdleConns)
     /\ bud' = [bud EXCEPT !.open = @ - Cardinality(IdleConns)]
     /\ cred' = [c \in Cred |-> IF ended(c) THEN Retired([shut[c] EXCEPT !.retiring = TRUE])
                                 ELSE shut[c]]
     /\ cur' = [k \in Key |-> None]
     /\ UNCHANGED <<client, pinned, rot, fleet>>

Age(c) == /\ cred[c] # None /\ ~cred[c].revoked /\ cred[c].age < 3
          /\ cred' = [cred EXCEPT ![c].age = @ + 1]
          /\ UNCHANGED <<client, conn, idle, cur, pinned, rot, bud, fleet, closed>>

Resize(n) == /\ n # fleet.size /\ fleet' = [size |-> n, resized |-> TRUE]
             /\ UNCHANGED <<client, conn, idle, cur, cred, pinned, rot, bud, closed>>

Next == \/ \E c \in Client :
             \/ \E k \in Key, pin \in BOOLEAN :
                  TryPinnedShare(c, k, pin) \/ TryReuse(c, k, pin) \/ TryOpen(c, k, pin)
             \/ WaitEnds(c)
             \/ Reserve(c) \/ MintLock(c) \/ OpenFails(c)
             \/ \E n \in Cred : MintDone(c, n)
             \/ \E x \in Conn : DialDone(c, x)
             \/ \E reusable \in BOOLEAN : Release(c, reusable)
             \/ PinHeld(c) \/ Retire(c)
        \/ \E k \in Key : RotateLock(k) \/ RotateFails(k) \/ \E n \in Cred : RotateDone(k, n)
        \/ Maintain \/ Close
        \/ \E c \in Cred : Age(c)
        \/ \E n \in Replicas : Resize(n)

Spec == Init /\ [][Next]_vars
-----------------------------------------------------------------------------
Connection == [key : Key, cred : Cred]

TypeOK == /\ client \in [Client -> Checkout]
          /\ conn \in [Conn -> Connection \cup {None}]
          /\ \A k \in Key : idle[k] \in Seq(Conn)
          /\ cur \in [Key -> Cred \cup {None}]
          /\ cred \in [Cred -> Credential \cup {None}]
          /\ pinned \in [Key -> Nat]
          /\ rot \in [Key -> {"none", "want", "mint"}]
          /\ bud.open \in Nat /\ bud.limit \in Nat
          /\ fleet \in [size : Replicas, resized : BOOLEAN] /\ closed \in BOOLEAN

(* The properties speak of whatever connections, clients and pools there    *)
(* are, so that they read the same in every size of MCServerPools.           *)

\* Every way out of a checkout, of a connection and of a rotation gives back
\* exactly what was taken: the budget counts the connections that are
\* established or being opened, and a credential those on it.
AccountsMatch ==
  LET Opening == {c \in DOMAIN client : client[c].step \in {"slot", "mint", "minted", "dial"}}
      Open == {x \in DOMAIN conn : conn[x] # None} IN
  /\ bud.open = Cardinality(Open) + Cardinality(Opening)
  /\ \A u \in Cred : cred[u] # None =>
       cred[u].conns = Cardinality({x \in Open : conn[x].cred = u})
                       + Cardinality({c \in Opening : client[c].step = "dial" /\ client[c].cred = u})
  /\ \A k \in DOMAIN pinned : pinned[k] =
       Cardinality({c \in DOMAIN client : client[c].step = "hold" /\ client[c].pin /\ client[c].key = k})

\* "a rotation never cuts a running transaction" (pool.go:436): a credential is
\* revoked under an open connection only when it has expired.
RotationCutsNothing ==
  \A x \in DOMAIN conn : conn[x] # None /\ cred[conn[x].cred].revoked => cred[conn[x].cred].age = 3

\* "A retiring credential opens no new connections" (pool.go:128), and no idle
\* connection on one is handed out.
RetiringServesNobody ==
  [][\A c \in DOMAIN client :
       /\ client[c].step # "dial" /\ client'[c].step = "dial"
            => ~cred[client'[c].cred].retiring
       /\ client[c].step \in {"out", "try"} /\ client'[c].step = "hold"
            => ~cred[conn[client'[c].conn].cred].retiring]_vars

\* No lost wakeup while the fleet keeps its size: a checkout sleeps only while
\* the share is full and no connection of any pool is idle.
NoLostWakeup ==
  \A c \in DOMAIN client : client[c].step = "wait" /\ ~client[c].woken /\ ~fleet.resized
                     => bud.open >= bud.limit /\ \A k \in DOMAIN idle : idle[k] = <<>>

\* "close ends every idle connection and revokes every credential" (pool.go:630).
CloseRevokesAll ==
  closed /\ (\A k \in DOMAIN rot : rot[k] = "none") => \A u \in Cred : cred[u] # None => cred[u].revoked
=============================================================================
