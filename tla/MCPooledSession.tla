--------------------------- MODULE MCPooledSession ---------------------------
(* PooledSession for TLC: the kinds of client, by what they send. *)
EXTENDS PooledSession, TLC

CONSTANTS c1, c2, s1

Msg(kind, args) == {[kind |-> kind, arg |-> a] : a \in args}

\* "closing" is the client of the run that disagrees with the documentation.
MCMessages ==
  [transactions |-> Msg("Query", {"begin", "commit", "state", "switched", "role", "set"}),
   refusals |-> Msg("Query", {"plain", "refused"}) \cup Msg("Parse", {"unnamed", "refused"}) \cup Msg("Sync", {"-"}),
   prepared |-> Msg("Parse", Stmt) \cup Msg("Bind", Stmt) \cup Msg("Execute", {"plain"}) \cup Msg("Sync", {"-"}),
   escaping |-> Msg("Query", {"lexer", "escape"}) \cup Msg("Parse", {"escape"}) \cup Msg("Execute", {"lexer"}) \cup Msg("Sync", {"-"}),
   copying |-> Msg("Query", {"copy", "plain"}) \cup Msg("CopyData", {"-"}) \cup Msg("CopyDone", {"-"}),
   closing |-> Msg("Parse", Stmt) \cup Msg("Bind", {"unnamed"}) \cup Msg("Close", {"portal"}) \cup Msg("Sync", {"-"})]
MCPipelining == {"escaping", "copying"} \cap Profile
MCMaxMessages == [p \in Profile |-> CASE p = "transactions" -> 2 [] p \in {"prepared", "closing"} -> 4 [] OTHER -> 3]
MCMeets == [p \in Profile |-> CASE p = "transactions" -> {"kill", "drain", "loss"}
                                [] p = "refusals" -> {"kill", "drain", "cancel"}
                                [] OTHER -> {}]

ConnSymmetry == Permutations(Conn)

\* What the actions and the properties of the passing run read: of the sequence
\* numbers the distances, of a client that is gone not what it sent, of a session
\* that is over only its connections.  Role-level defaults and a switched role go
\* the same ways.
SeenArg(arg) == IF arg = "role" THEN "switched" ELSE arg
SeenMsg(m) == [m EXCEPT !.arg = SeenArg(@)]
SeenBe(b) == [b EXCEPT !.state = SeenArg(@), !.in = [i \in DOMAIN @ |-> SeenMsg(@[i])]]
SeenSession ==
  [s EXCEPT !.sendSeq = @ - s.flushedSeq, !.recvSeq = @ - s.flushedSeq, !.flushedSeq = 0,
            !.swallow = [i \in DOMAIN @ |-> [@[i] EXCEPT !.seq = @ - s.flushedSeq]]]
SeenClient == [client EXCEPT !.sent = IF client.open THEN @ ELSE 0]
View == <<[c \in Conn |-> <<reader[c], SeenBe(be[c]), known[c], place[c]>>], killer, cancel,
          IF At("over") THEN <<s.killed, client.profile, client.inOrder>>
          ELSE <<SeenSession, [run EXCEPT !.msg = SeenMsg(@)], SeenClient>> >>
=============================================================================
