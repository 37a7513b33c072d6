---------------------------- MODULE PooledSession ----------------------------
(***************************************************************************)
(* One client session multiplexed onto shared server connections:          *)
(* internal/pgproxy/txn.go.  The threads are the session's run loop, one   *)
(* readServer per connection it was bound to, whoever calls killWith, a    *)
(* client's cancel request, and a draining Shutdown.  Each step is one     *)
(* critical section of s.mu or one blocking call.  The PostgreSQL backend  *)
(* behind each connection answers what it is sent, in order.               *)
(*                                                                         *)
(* A statement's text stands for its name: serverStatementName names it by *)
(* its content on every connection.                                        *)
(***************************************************************************)
EXTENDS Integers, Sequences, FiniteSets, SequencesExt

CONSTANTS Conn, NoConn,
          Stmt,          \* texts of named prepared statements
          Profile,       \* kinds of client
          Messages,      \* what each may send: [kind, arg]
          Pipelining,    \* those that send on before they have their answers
          MaxMessages,   \* bound: how many messages each sends
          Meets          \* what each may meet: "kill", "drain", "cancel", "loss"

ASSUME SessionAssumption ==
  /\ NoConn \notin Conn /\ Pipelining \subseteq Profile /\ MaxMessages \in [Profile -> Nat]
  /\ Meets \in [Profile -> SUBSET {"kill", "drain", "cancel", "loss"}]

VARIABLES s,        \* pooledSession, the fields under s.mu
          run,      \* the run loop: where it is, the message and connection in hand
          reader,   \* reader[c]: readServer of c
          killer,   \* killWith, once someone has set s.killed
          cancel,   \* the connection a cancel request is on its way to
          be,       \* be[c]: the PostgreSQL backend
          known,    \* known[c]: what the broker believes of c
          place,    \* place[c]: "free" in the pool, also "reset" by a pinned session, or "out"
          client    \* the client: socket, messages sent, answers owed and seen

vars == <<s, run, reader, killer, cancel, be, known, place, client>>

NoMsg == [kind |-> "none", arg |-> "none"]
Fresh == [in |-> <<>>, out |-> <<>>, tx |-> "I", skip |-> FALSE, copy |-> FALSE, stmts |-> {},
          state |-> "clean", lexer |-> "standard", params |-> "default", up |-> TRUE]
Blank == [prepared |-> {}, params |-> "default"]
Quiet == [at |-> "none", msg |-> "none", release |-> FALSE]
Reading == [Quiet EXCEPT !.at = "read"]

\* servePooled has tracked the session, and is about to answer the client's
\* start-up.  Every connection may have served another client, whose statements
\* it kept.
Init ==
  /\ s = [conn |-> NoConn, pinned |-> FALSE, pending |-> 0, unsynced |-> FALSE, executed |-> FALSE,
          tx |-> "I", statements |-> {}, swallow |-> <<>>, sendSeq |-> 0, recvSeq |-> 0,
          flushedSeq |-> 0, killed |-> FALSE, draining |-> FALSE]
  /\ run = [at |-> "start", msg |-> NoMsg, conn |-> NoConn, errorUntilSync |-> FALSE,
            reusable |-> FALSE, pinned |-> FALSE, early |-> FALSE]
  /\ reader = [c \in Conn |-> Quiet]
  /\ killer = [at |-> "no", conn |-> NoConn]
  /\ cancel = NoConn
  /\ \E kept \in [Conn -> SUBSET Stmt] :
       /\ be = [c \in Conn |-> [Fresh EXCEPT !.stmts = kept[c], !.params = "other"]]
       /\ known = [c \in Conn |-> [prepared |-> kept[c], params |-> "other"]]
  /\ place = [c \in Conn |-> "free"]
  /\ \E p \in Profile :
     client = [profile |-> p, open |-> TRUE, wake |-> FALSE, sent |-> 0, awaiting |-> 0, batch |-> FALSE, copying |-> FALSE,
                  owed |-> <<>>, inOrder |-> TRUE]
-----------------------------------------------------------------------------
(* The client.  owed holds the answers a backend gave to the client's own   *)
(* messages, in their order; inOrder whether it has seen them in that order.*)

Status == {"I", "T", "E"}             \* a ReadyForQuery, by its transaction status
SyncKinds == {"Query", "Sync"}       \* answered by a ReadyForQuery; FunctionCall is as Query
CopyKinds == {"CopyData", "CopyDone"}

\* A client that does not pipeline waits for the ReadyForQuery of each Query
\* and Sync, and ends a batch before a Query.  The data of a COPY is sent ahead of any
\* answer, perhaps after the COPY has failed.
MaySend(m) ==
  /\ client.open /\ client.sent < MaxMessages[client.profile]
  /\ IF m.kind \in CopyKinds THEN client.copying
                             ELSE \/ client.profile \in Pipelining /\ ~client.copying
                                  \/ client.awaiting = 0 /\ (m.kind = "Query" => ~client.batch)

Sends(m) == [client EXCEPT !.sent = @ + 1,
               !.awaiting = IF m.kind \in SyncKinds THEN @ + 1 ELSE @,
               !.batch = m.kind \notin SyncKinds \cup CopyKinds,
               !.copying = m.kind = "CopyData" \/ (m.kind = "Query" /\ m.arg = "copy")]

\* The client cl reads the answers ks, unless its socket is closed.
See(cl, k) == [cl EXCEPT !.owed = IF cl.owed # <<>> THEN Tail(@) ELSE @,
                         !.inOrder = @ /\ cl.owed # <<>> /\ Head(cl.owed) = k,
                         !.awaiting = IF k \in Status /\ @ > 0 THEN @ - 1 ELSE @]
\* Nothing is seen, and nothing more is owed, once the socket is closed.
Gone == [client EXCEPT !.open = FALSE, !.wake = FALSE, !.awaiting = 0, !.batch = FALSE, !.copying = FALSE, !.owed = <<>>]
Sees(cl, ks) == IF cl.open THEN FoldLeft(See, cl, ks) ELSE cl
\* Answers of the broker itself, due after the answers already owed.
SeesOwn(cl, ks) == Sees([cl EXCEPT !.owed = @ \o ks], ks)
-----------------------------------------------------------------------------
(* The PostgreSQL backend (external). *)

\* What a Bind may name: the unnamed statement is replaced by each Parse of it.
Named == Stmt \cup {"unnamed"}

Aborts(b) == IF b.tx = "I" THEN "I" ELSE "E"
Answers(b, ks) == [b EXCEPT !.out = @ \o ks]
Fails(b) == [Answers(b, <<"error">>) EXCEPT !.tx = Aborts(b), !.skip = TRUE]
Ready(b) == Answers(b, <<b.tx>>)

RunQuery(b, arg) ==
  CASE arg = "begin"  -> Ready(Answers([b EXCEPT !.tx = "T"], <<"done">>))
    [] arg = "commit" -> Ready(Answers([b EXCEPT !.tx = "I"], <<"done">>))
    [] arg \in {"state", "set"} -> Ready(Answers([b EXCEPT !.state = "state"], <<"done">>))
    [] arg \in {"switched", "role"} -> Ready(Answers([b EXCEPT !.state = arg], <<"done">>))
    [] arg = "lexer"  -> Ready(Answers([b EXCEPT !.lexer = "changed"], <<"lexer", "done">>))
    [] arg = "copy"   -> Answers([b EXCEPT !.copy = TRUE], <<"copyIn">>)
    [] OTHER          -> Ready(Answers(b, <<"done">>))

\* What b may become when it takes the message m.
Takes(b, m) ==
  LET failed == Ready([Answers(b, <<"error">>) EXCEPT !.tx = Aborts(b), !.copy = FALSE])
  IN CASE b.skip /\ m.kind # "Sync" -> {b}
       [] m.kind = "Sync"  -> {Ready([b EXCEPT !.skip = FALSE])}
       [] m.kind = "Query" -> {failed} \cup (IF b.tx = "E" /\ m.arg # "commit" THEN {} ELSE {RunQuery(b, m.arg)})
       [] m.kind = "CopyData" -> IF b.copy THEN {b, failed} ELSE {b}
       [] m.kind = "CopyDone" -> IF b.copy THEN {failed, Ready(Answers([b EXCEPT !.copy = FALSE], <<"done">>))} ELSE {b}
       [] m.kind = "Close" -> {Answers([b EXCEPT !.stmts = @ \ {m.arg}], <<"closed">>)}
       [] b.tx = "E" -> {Fails(b)}
       [] m.kind = "Parse" -> IF m.arg \in b.stmts \cap Stmt THEN {Fails(b)}
                              ELSE {Answers([b EXCEPT !.stmts = @ \cup ({m.arg} \cap Named)], <<"parsed">>)}
       [] m.kind = "Bind"  -> IF m.arg \in b.stmts THEN {Answers(b, <<"bound">>)} ELSE {Fails(b)}
       [] m.kind = "Execute" -> {Fails(b), Answers(IF m.arg = "lexer" THEN [b EXCEPT !.lexer = "changed"] ELSE b,
                                                   IF m.arg = "lexer" THEN <<"lexer", "done">> ELSE <<"done">>)}
       [] OTHER -> {b}

\* An answer to a message the broker put in is not the client's, an error is.
Owed(m, ks) == SelectSeq(ks, LAMBDA k : ~m.own \/ k = "error")

BackendStep(c) ==
  /\ be[c].up /\ be[c].in # <<>>
  /\ \E b \in Takes([be[c] EXCEPT !.in = Tail(@)], Head(be[c].in)) :
       /\ be' = [be EXCEPT ![c] = b]
       /\ client' = [client EXCEPT !.owed = IF ~client.open THEN @ ELSE
                       @ \o Owed(Head(be[c].in), SubSeq(b.out, Len(be[c].out) + 1, Len(b.out)))]
  /\ UNCHANGED <<s, run, reader, killer, cancel, known, place>>

\* The server, the network or the pool (at its credential's expiry) closes c.
ServerLost(c) == /\ be[c].up /\ "loss" \in Meets[client.profile]
                 /\ be' = [be EXCEPT ![c].up = FALSE]
                 /\ UNCHANGED <<s, run, reader, killer, cancel, known, place, client>>
-----------------------------------------------------------------------------
(* The run loop. *)

\* Mutant: an answer on its way to the client does not count.
IdleUnflushed(x) == /\ x.pending <= 0 /\ ~x.unsynced
                    /\ x.conn = NoConn \/ (x.pinned /\ x.tx = "I")

Idle(x) == /\ x.pending <= 0 /\ ~x.unsynced /\ x.flushedSeq = x.recvSeq
           /\ x.conn = NoConn \/ (x.pinned /\ x.tx = "I")

At(where) == run.at = where
Goto(where) == [run EXCEPT !.at = where]
Receiving == [run EXCEPT !.at = "receive", !.msg = NoMsg, !.conn = NoConn]

\* c goes back to the pool, or is closed: a closed one stands for the next
\* connection the pool dials in its place.
ReleaseAs(where, c, reusable, b, k) ==
  /\ place' = [place EXCEPT ![c] = where]
  /\ be' = [be EXCEPT ![c] = IF reusable THEN b ELSE Fresh]
  /\ known' = [known EXCEPT ![c] = IF reusable THEN k ELSE Blank]
Release(c, reusable, b, k) == ReleaseAs("free", c, reusable, b, k)

\* The loop's answer to a message it refuses: a Query and a FunctionCall get
\* their own ReadyForQuery, any other message skips the loop to the next Sync,
\* or ends the session when the server already has the start of its batch.
Refuse(m) ==
  CASE m.kind = "Query" ->
         /\ client' = SeesOwn(client, <<"error", IF s.conn = NoConn THEN "I" ELSE s.tx>>)
         /\ run' = Receiving
    [] m.kind # "Query" /\ s.conn # NoConn /\ s.unsynced ->
         client' = client /\ run' = Goto("end")
    [] OTHER -> /\ client' = SeesOwn(client, <<"error">>)
                /\ run' = [Receiving EXCEPT !.errorUntilSync = TRUE]

Escapes(m) == m.arg = "escape"
NeedsSession(m) == m.arg = "set"
Refused(m) == m.arg = "refused"

\* servePooled clears the deadlines of the start-up, and with them the wake-up of
\* a drain that began in it (early), and runs the loop.
Serve == /\ At("start")
         /\ run' = [run EXCEPT !.at = "receive", !.early = s.draining]
         /\ client' = [client EXCEPT !.wake = FALSE]
         /\ UNCHANGED <<s, reader, killer, cancel, be, known, place>>

\* The pool has no parameters to show, the client is gone, or nothing can be audited.
ServeFails == /\ At("start")
              /\ run' = Goto("over")
              /\ client' = Gone
              /\ UNCHANGED <<s, reader, killer, cancel, be, known, place>>

\* Receive, up to the point where the message needs a connection.
Receive(m) ==
  /\ At("receive") /\ MaySend(m)
  /\ LET cl == Sends(m)
     IN CASE s.draining /\ Idle(s) -> client' = cl /\ run' = Goto("restart")
          [] ~(s.draining /\ Idle(s)) /\ run.errorUntilSync ->
               IF m.kind = "Sync"
               THEN /\ client' = SeesOwn(cl, <<IF s.conn = NoConn THEN "I" ELSE s.tx>>)
                    /\ run' = [run EXCEPT !.errorUntilSync = FALSE]
               ELSE client' = cl /\ run' = run
          [] OTHER -> /\ client' = cl
                      /\ run' = [run EXCEPT !.msg = m, !.at = IF Refused(m) THEN "refuse"
                                                             ELSE IF Escapes(m) THEN "settle" ELSE "bind"]
  /\ UNCHANGED <<s, reader, killer, cancel, be, known, place>>

RefuseMessage == /\ At("refuse") /\ Refuse(run.msg)
                 /\ UNCHANGED <<s, reader, killer, cancel, be, known, place>>

\* Terminate, or the client's socket is closed on either side.
Leave == /\ At("receive")
         /\ run' = Goto("end")
         /\ client' = Gone
         /\ UNCHANGED <<s, reader, killer, cancel, be, known, place>>

\* Only a drain wakes the read.
Woken == /\ At("receive") /\ client.wake
         /\ run' = Goto(IF Idle(s) THEN "restart" ELSE "receive")
         /\ client' = [client EXCEPT !.wake = FALSE]
         /\ UNCHANGED <<s, reader, killer, cancel, be, known, place>>


Settle ==
  /\ At("settle")
  /\ \/ s.killed /\ run' = Goto("kill")
     \/ ~s.killed /\ s.conn # NoConn /\ s.executed /\ run' = Goto("refuse")
     \/ ~s.killed /\ ~(s.conn # NoConn /\ s.executed) /\ (s.conn = NoConn \/ s.pending = 0) /\ run' = Goto("bind")
  /\ UNCHANGED <<s, reader, killer, cancel, be, known, place, client>>

\* bind, up to the pool's acquire; pinning may be refused for the share.
Bind ==
  /\ At("bind")
  /\ \/ s.killed /\ run' = Goto("kill") /\ s' = s
     \/ /\ ~s.killed /\ s.conn # NoConn
        /\ \/ run' = Goto("forward") /\ s' = [s EXCEPT !.pinned = @ \/ NeedsSession(run.msg)]
           \/ NeedsSession(run.msg) /\ ~s.pinned /\ run' = Goto("refuse") /\ s' = s
     \/ ~s.killed /\ s.conn = NoConn /\ run' = Goto("acquire") /\ s' = s
  /\ UNCHANGED <<reader, killer, cancel, be, known, place, client>>

Acquire(c) == /\ At("acquire") /\ place[c] # "out" /\ reader[c].at = "none"
              /\ place' = [place EXCEPT ![c] = "out"]
              /\ run' = [run EXCEPT !.at = "params", !.conn = c]
              /\ UNCHANGED <<s, reader, killer, cancel, be, known, client>>

AcquireFails == /\ At("acquire") /\ run' = Goto("refuse")
                /\ UNCHANGED <<s, reader, killer, cancel, be, known, place, client>>

\* A connection idle for a while is pinged, and closed when that fails.
PingFails(c) == /\ At("acquire") /\ place[c] # "out" /\ ~be[c].up
                /\ Release(c, FALSE, be[c], known[c])
                /\ UNCHANGED <<s, run, reader, killer, cancel, client>>

\* syncParams: nothing to send when the connection carries them already.
SyncParams ==
  LET c == run.conn IN
  /\ At("params")
  /\ \/ /\ known[c].params = "mine" \/ be[c].up
        /\ be' = [be EXCEPT ![c].params = IF known[c].params = "mine" THEN @ ELSE "mine"]
        /\ known' = [known EXCEPT ![c].params = "mine"]
        /\ run' = Goto("install") /\ place' = place
     \/ /\ known[c].params # "mine"
        /\ Release(c, FALSE, be[c], known[c])
        /\ run' = [run EXCEPT !.conn = NoConn, !.at = IF be[c].up THEN "refuse" ELSE "kill"]
  /\ UNCHANGED <<s, reader, killer, cancel, client>>

\* The end of bind.
Install ==
  LET c == run.conn IN
  /\ At("install")
  /\ \/ /\ s.killed /\ Release(c, FALSE, be[c], known[c])
        /\ run' = [run EXCEPT !.at = "kill", !.conn = NoConn]
        /\ UNCHANGED <<s, reader>>
     \/ /\ ~s.killed
        /\ s' = [s EXCEPT !.conn = c, !.pinned = NeedsSession(run.msg), !.tx = "I", !.pending = 0,
                          !.unsynced = FALSE, !.executed = FALSE, !.swallow = <<>>]
        /\ reader' = [reader EXCEPT ![c] = Reading]
        /\ run' = [run EXCEPT !.at = "forward", !.conn = NoConn]
        /\ UNCHANGED <<be, known, place>>
  /\ UNCHANGED <<killer, cancel, client>>

Own(kind, arg) == [kind |-> kind, arg |-> arg, own |-> TRUE]
Theirs(m) == [kind |-> m.kind, arg |-> m.arg, own |-> FALSE]
SwallowClose == [close |-> TRUE, seq |-> s.sendSeq]
SwallowParse == [close |-> FALSE, seq |-> s.sendSeq]


\* What forward puts in for one client message: the messages sent to the
\* server, the answers to swallow, and the statement marked as prepared.
Rewritten(m, prepared) ==
  CASE m.kind = "Parse" /\ m.arg \in Stmt ->
         [send |-> <<Own("Close", m.arg), Theirs(m)>>, swallow |-> <<SwallowClose>>, prepared |-> {m.arg}]
    [] m.kind = "Bind" /\ m.arg \in Stmt \ s.statements ->
         [send |-> <<Theirs([m EXCEPT !.arg = "unknown"])>>, swallow |-> <<>>, prepared |-> {}]
    [] m.kind = "Bind" /\ m.arg \in s.statements \ prepared ->
         [send |-> <<Own("Close", m.arg), Own("Parse", m.arg), Theirs(m)>>,
          swallow |-> <<SwallowClose, SwallowParse>>, prepared |-> {m.arg}]
    [] m.kind = "Close" /\ m.arg \in Stmt ->
         [send |-> <<Theirs([m EXCEPT !.arg = "gatehouse_closed"])>>, swallow |-> <<>>, prepared |-> {}]
    [] OTHER -> [send |-> <<Theirs(m)>>, swallow |-> <<>>, prepared |-> {}]

Forward ==
  LET m == run.msg
      c == s.conn
      w == Rewritten(m, known[c].prepared)
  IN /\ At("forward") /\ c # NoConn
     /\ s' = [s EXCEPT !.pending = IF m.kind \in SyncKinds THEN @ + 1 ELSE @,
                       !.sendSeq = IF m.kind \in SyncKinds THEN @ + 1 ELSE @,
                       !.unsynced = IF m.kind = "Sync" THEN FALSE ELSE @ \/ m.kind \in {"Parse", "Bind", "Close", "Execute"},
                       !.executed = IF m.kind = "Sync" THEN FALSE ELSE @ \/ m.kind = "Execute",
                       !.statements = CASE m.kind = "Parse" -> @ \cup ({m.arg} \cap Stmt)
                                        [] m.kind = "Close" -> @ \ {m.arg}
                                        [] OTHER -> @,
                       !.swallow = @ \o w.swallow]
     /\ known' = [known EXCEPT ![c].prepared = @ \cup w.prepared]
     /\ be' = [be EXCEPT ![c].in = IF be[c].up THEN @ \o w.send ELSE @]
     /\ \/ run' = Receiving
        \/ ~be[c].up /\ run' = Goto("kill")
     /\ UNCHANGED <<reader, killer, cancel, place, client>>

\* errRebind: the connection was released after bind looked.
Rebind == /\ At("forward") /\ s.conn = NoConn
          /\ run' = Goto("bind")
          /\ UNCHANGED <<s, reader, killer, cancel, be, known, place, client>>
-----------------------------------------------------------------------------
(* killWith, end, restart and the client's cancel request. *)

\* Mutant: a cancel request in flight is not waited for.
UnbindableAlways == TRUE

\* unbindCancel waits for a cancel request in flight.
Unbindable == cancel = NoConn

Detach == /\ ~s.killed /\ (s.conn = NoConn \/ Unbindable)
          /\ s' = [s EXCEPT !.killed = TRUE, !.conn = NoConn]
          /\ killer' = [at |-> IF s.conn = NoConn THEN "close" ELSE "release", conn |-> s.conn]

\* The authorization loop, the Pod's deadline, Shutdown and a failed write.
Kill == /\ "kill" \in Meets[client.profile] /\ Detach /\ ~At("over")
        /\ UNCHANGED <<run, reader, cancel, be, known, place, client>>

\* The loop's own kill returns when it is done, or at once when it is not the first.
RunKills == /\ At("kill")
            /\ \/ Detach /\ run' = Goto("killing")
               \/ s.killed /\ run' = Goto("end") /\ UNCHANGED <<s, killer>>
            /\ UNCHANGED <<reader, cancel, be, known, place, client>>

RunKilled == /\ At("killing") /\ killer.at = "done"
             /\ run' = Goto("end")
             /\ UNCHANGED <<s, reader, killer, cancel, be, known, place, client>>

KillReleases == /\ killer.at = "release"
                /\ Release(killer.conn, FALSE, be[killer.conn], known[killer.conn])
                /\ killer' = [at |-> "close", conn |-> NoConn]
                /\ UNCHANGED <<s, run, reader, cancel, client>>

KillCloses == /\ killer.at = "close"
              /\ killer' = [killer EXCEPT !.at = "done"]
              /\ client' = Gone
              /\ UNCHANGED <<s, run, reader, cancel, be, known, place>>

CancelStarts == /\ "cancel" \in Meets[client.profile] /\ s.conn # NoConn /\ cancel = NoConn
                /\ cancel' = s.conn
                /\ UNCHANGED <<s, run, reader, killer, be, known, place, client>>

CancelLands == /\ cancel # NoConn
               /\ cancel' = NoConn
               /\ UNCHANGED <<s, run, reader, killer, be, known, place, client>>

\* Mutant: an idle session is not woken.
BeginDrainQuietly == /\ "drain" \in Meets[client.profile] /\ ~s.draining /\ ~At("over")
                     /\ s' = [s EXCEPT !.draining = TRUE]
                     /\ UNCHANGED <<run, reader, killer, cancel, be, known, place, client>>

BeginDrain == /\ "drain" \in Meets[client.profile] /\ ~s.draining /\ ~At("over")
              /\ s' = [s EXCEPT !.draining = TRUE]
              /\ client' = [client EXCEPT !.wake = Idle(s)]
              /\ UNCHANGED <<run, reader, killer, cancel, be, known, place>>

\* The FATAL notice of a planned restart.
Restart == /\ At("restart")
           /\ run' = Goto("end")
           /\ UNCHANGED <<s, reader, killer, cancel, be, known, place, client>>
-----------------------------------------------------------------------------
(* Checking a connection in. *)

\* Each ends a round trip: the backend has taken everything sent before it.
\* An earlier ReadyForQuery still unread would pass for the check's own.
Settled(b) == b.up /\ b.in = <<>> /\ b.tx = "I"
Unread(b) == \E i \in DOMAIN b.out : b.out[i] \in Status

\* DISCARD ALL, which "would reset that parameter but neither role-level defaults
\* nor a switched role" (txn.go:910).
Discarded(b) == [b EXCEPT !.state = IF @ = "state" THEN "clean" ELSE @, !.params = "default", !.stmts = {},
                          !.out = IF Unread(b) THEN @ \o <<"done", "I">> ELSE <<>>]

\* Mutant: a switched role is state like any other.
CheckInAny(c) ==
  \/ /\ Settled(be[c]) /\ ~Unread(be[c])
     /\ Release(c, TRUE, Discarded(be[c]), Blank)
  \/ Release(c, FALSE, be[c], known[c])

\* verifyClean and the release after it: a clean connection is kept, other state
\* is reset, and a switched role, role-level defaults (the credential is retired
\* as well, module ServerPools) and a check that fails close it.
CheckIn(c) ==
  \/ /\ Settled(be[c]) /\ ~Unread(be[c])
     /\ \/ be[c].state = "clean" /\ Release(c, TRUE, [be[c] EXCEPT !.out = <<>>], known[c])
        \/ be[c].state = "state" /\ Release(c, TRUE, Discarded(be[c]), Blank)
  \/ Release(c, FALSE, be[c], known[c])

\* A pinned connection is reset without the check.
DiscardIn(c) == \/ Settled(be[c]) /\ ReleaseAs("reset", c, TRUE, Discarded(be[c]), Blank)
                \/ Release(c, FALSE, be[c], known[c])

EndDetaches ==
  /\ At("end") /\ s.conn # NoConn /\ Unbindable
  /\ run' = [run EXCEPT !.at = "endwait", !.conn = s.conn, !.pinned = s.pinned,
                        !.reusable = ~s.killed /\ s.pending = 0 /\ ~s.unsynced /\ s.tx = "I"]
  /\ s' = [s EXCEPT !.conn = NoConn]
  /\ UNCHANGED <<reader, killer, cancel, be, known, place, client>>

EndEmpty == /\ At("end") /\ s.conn = NoConn
            /\ run' = Goto("over")
            /\ client' = Gone
            /\ UNCHANGED <<s, reader, killer, cancel, be, known, place>>

\* The reader has stopped: its socket's read deadline is past.
EndReleases ==
  LET c == run.conn IN
  /\ At("endwait") /\ reader[c].at = "none"
  /\ \/ run.reusable /\ run.pinned /\ DiscardIn(c)
     \/ run.reusable /\ ~run.pinned /\ CheckIn(c)
     \/ ~run.reusable /\ Release(c, FALSE, be[c], known[c])
  /\ run' = [run EXCEPT !.at = "over", !.conn = NoConn, !.reusable = FALSE, !.pinned = FALSE]
  /\ client' = Gone
  /\ UNCHANGED <<s, reader, killer, cancel>>
-----------------------------------------------------------------------------
(* readServer. *)

Swallows(k) == /\ s.swallow # <<>> /\ Head(s.swallow).seq = s.recvSeq
               /\ k = IF Head(s.swallow).close THEN "closed" ELSE "parsed"

Releases(k) == s.pending - 1 <= 0 /\ ~s.unsynced /\ k = "I" /\ ~s.pinned

\* Mutant: the released connection stays the session's.
AppliedKeeping(k, release) ==
  IF k \in Status THEN [s EXCEPT !.pending = @ - 1, !.recvSeq = @ + 1, !.tx = k] ELSE s

\* Mutant: an error counts as an answer, beside its ReadyForQuery.
AppliedTwice(k, release) ==
  CASE k = "error" -> [s EXCEPT !.pending = @ - 1]
    [] k \in Status -> [s EXCEPT !.pending = @ - 1, !.recvSeq = @ + 1, !.tx = k,
                                 !.conn = IF release THEN NoConn ELSE @]
    [] OTHER -> s

\* The session after the answer k of its connection, and whether it gives it up.
Applied(k, release) ==
  CASE k = "error" -> [s EXCEPT !.swallow = SelectSeq(@, LAMBDA e : e.seq # s.recvSeq)]
    [] k \in Status -> [s EXCEPT !.pending = @ - 1, !.recvSeq = @ + 1, !.tx = k,
                                 !.conn = IF release THEN NoConn ELSE @]
    [] OTHER -> s

ReaderTakes(c) ==
  /\ reader[c].at = "read" /\ s.conn = c /\ be[c].out # <<>>
  /\ be' = [be EXCEPT ![c].out = Tail(@)]
  /\ LET k == Head(be[c].out)
         release == k \in Status /\ Releases(k)
     IN IF Swallows(k)
        THEN s' = [s EXCEPT !.swallow = Tail(@)] /\ UNCHANGED <<reader, known>>
        ELSE /\ release => Unbindable
             /\ s' = Applied(k, release)
             /\ known' = [known EXCEPT ![c].prepared = IF k = "error" THEN {} ELSE @]
             /\ reader' = [reader EXCEPT ![c] = [at |-> IF k = "lexer" THEN "kill" ELSE "write",
                                                 msg |-> k, release |-> release]]
  /\ UNCHANGED <<run, killer, cancel, place, client>>

ReaderWrites(c) ==
  /\ reader[c].at = "write"
  /\ client' = Sees(client, <<reader[c].msg>>)
  /\ reader' = [reader EXCEPT ![c] = IF @.msg \in Status THEN [@ EXCEPT !.at = "wrote"] ELSE Reading]
  /\ UNCHANGED <<s, run, killer, cancel, be, known, place>>

\* The client has its ReadyForQuery: a draining session may be woken now.
ReaderWrote(c) ==
  /\ reader[c].at = "wrote"
  /\ LET after == [s EXCEPT !.flushedSeq = @ + 1]
     IN /\ s' = after
        /\ client' = [client EXCEPT !.wake = @ \/ (s.draining /\ Idle(after))]
  /\ reader' = [reader EXCEPT ![c] = IF @.release THEN [@ EXCEPT !.at = "check"] ELSE Reading]
  /\ UNCHANGED <<run, killer, cancel, be, known, place>>

ReaderChecks(c) == /\ reader[c].at = "check" /\ CheckIn(c)
                   /\ reader' = [reader EXCEPT ![c] = Quiet]
                   /\ UNCHANGED <<s, run, killer, cancel, client>>

\* The connection is no longer the session's: whatever the reader gets, it stops.
ReaderStale(c) == /\ reader[c].at = "read" /\ s.conn # c
                  /\ reader' = [reader EXCEPT ![c] = Quiet]
                  /\ UNCHANGED <<s, run, killer, cancel, be, known, place, client>>

ReaderLost(c) == /\ reader[c].at = "read" /\ s.conn = c /\ ~be[c].up
                 /\ reader' = [reader EXCEPT ![c].at = "kill"]
                 /\ UNCHANGED <<s, run, killer, cancel, be, known, place, client>>

ReaderKills(c) == /\ reader[c].at = "kill"
                  /\ Detach \/ (s.killed /\ UNCHANGED <<s, killer>>)
                  /\ reader' = [reader EXCEPT ![c] = Quiet]
                  /\ UNCHANGED <<run, cancel, be, known, place, client>>
-----------------------------------------------------------------------------
RunStep == \/ Serve \/ ServeFails
           \/ \E m \in Messages[client.profile] : Receive(m)
           \/ RefuseMessage \/ Leave \/ Woken \/ Settle \/ Bind \/ AcquireFails
           \/ \E c \in Conn : Acquire(c) \/ PingFails(c)
           \/ SyncParams \/ Install \/ Forward \/ Rebind \/ RunKills \/ RunKilled
           \/ Restart \/ EndDetaches \/ EndEmpty \/ EndReleases

ReaderStep(c) == \/ ReaderTakes(c) \/ ReaderWrites(c) \/ ReaderWrote(c) \/ ReaderChecks(c)
                 \/ ReaderStale(c) \/ ReaderLost(c) \/ ReaderKills(c)

KillerStep == KillReleases \/ KillCloses

Next == \/ RunStep \/ KillerStep
        \/ \E c \in Conn : ReaderStep(c) \/ BackendStep(c) \/ ServerLost(c)
        \/ Kill \/ BeginDrain \/ CancelStarts \/ CancelLands

Spec == Init /\ [][Next]_vars
-----------------------------------------------------------------------------
(* Properties. *)

TypeOK ==
  /\ s.conn \in Conn \cup {NoConn} /\ s.pending \in Nat /\ s.tx \in Status
  /\ run.at \in {"start", "receive", "refuse", "settle", "bind", "acquire", "params", "install", "forward",
                 "kill", "killing", "restart", "end", "endwait", "over"}
  /\ \A c \in Conn : /\ reader[c].at \in {"none", "read", "write", "wrote", "check", "kill"}
                     /\ place[c] \in {"free", "reset", "out"} /\ be[c].tx \in Status
  /\ killer.at \in {"no", "release", "close", "done"} /\ cancel \in Conn \cup {NoConn}

\* Who must give the connection c back.
Owners(c) == {o \in {"session", "run", "reader", "killer"} :
                CASE o = "session" -> s.conn = c
                  [] o = "run" -> run.conn = c
                  [] o = "reader" -> reader[c].at \in {"write", "wrote", "check"} /\ reader[c].release
                  [] o = "killer" -> killer.conn = c}

\* Every connection taken from the pool has exactly one thread that will give
\* it back, and one in the pool has none (readServer, end, bind, killWith).
OneOwner == \A c \in Conn : Cardinality(Owners(c)) = IF place[c] = "out" THEN 1 ELSE 0

\* A connection in the pool carries nothing over to the next client: no
\* transaction, no unanswered or unread message, the parameters the broker
\* believes it has, and no session state (verifyClean, end), with one exception:
\* a pinned session's connection is reset without looking for a changed role.
IdleIsClean == \A c \in Conn : place[c] # "out" =>
  /\ be[c].in = <<>> /\ be[c].out = <<>> /\ be[c].tx = "I" /\ ~be[c].skip
  /\ be[c].lexer = "standard" /\ known[c].params = be[c].params
  /\ be[c].state \in IF place[c] = "reset" THEN {"clean", "switched", "role"} ELSE {"clean"}

\* A planned restart ends a session only where the client has every answer
\* and no transaction is open, unless it was killed (run, idleLocked, beginDrain).
RestartCutsNothing == At("restart") /\ ~s.killed =>
  /\ client.owed = <<>>
  /\ s.conn # NoConn => be[s.conn].in = <<>> /\ be[s.conn].tx = "I"

\* A client that waits for each ReadyForQuery sees, until it is killed, the
\* answers to its messages in their order, with none of the answers to
\* messages the broker put in (forward, readServer, run).
RepliesInOrder == client.profile \notin Pipelining /\ ~s.killed => client.inOrder

\* A cancel request reaches only a backend that still serves this session
\* (cancelQuery, unbindCancel).
CancelHitsOwn == cancel # NoConn => cancel = s.conn


\* A draining session that waits idle for its client has been woken: no wake-up
\* is lost between the reader's flush, beginDrain and the run loop.  Left out is a
\* drain that began while the session was starting (run.early): servePooled clears
\* the deadline beginDrain had set, and the session waits for its client.
DrainWakes == s.draining /\ ~run.early /\ ~s.killed /\ At("receive") /\ Idle(s) => client.wake
=============================================================================
