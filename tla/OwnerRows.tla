------------------------------ MODULE OwnerRows ------------------------------
(***************************************************************************)
(* Ownership of the database-cleanup journal: the rows of table            *)
(* database_cleanup_replica (internal/store/database_cleanup.go) and the   *)
(* process that claims, renews, fences and releases its own row            *)
(* (DurableLeaseMinter in internal/pgproxy/durable_leases.go).             *)
(*                                                                         *)
(* Time is relative: ttl[p] is what is left of the row of p by the         *)
(* database clock, age[p] the time since the last successful renewal was   *)
(* SENT by the clock of p (since claimOwner began, while p is starting).   *)
(* Clocks may disagree on what time it is, not on how fast it passes.      *)
(* A statement takes effect some time after it is sent and its answer is   *)
(* read some time later still; either may be lost.                         *)
(***************************************************************************)
EXTENDS Naturals

CONSTANTS Owner, Name, nameOf,
          OwnerTTL,    \* takeover delay, by the database clock
          FenceAfter,  \* a process without a renewal for this long stops
          Heartbeat,   \* renewal and claim-retry interval
          Lag          \* how late the fence timer and the closing may be

\* The relations NewDurableLeaseMinter checks, and the one thing it cannot:
\* that the process stops within the margin FenceAfter leaves.
ASSUME TimingAssumption ==
  /\ OwnerTTL \in Nat /\ FenceAfter \in Nat /\ Heartbeat \in Nat /\ Lag \in Nat
  /\ Heartbeat < FenceAfter
  /\ FenceAfter + Lag < OwnerTTL
ASSUME RowNameAssumption == nameOf \in [Owner -> Name]

VARIABLES proc,   \* proc[p]: the life of process p
          ttl,    \* ttl[p]: time left of its row; 0: expired, released or absent
          age,    \* age[p]: time since lastRenew, by the clock of p
          call    \* call[p]: its statement in flight, and when it was sent

vars == <<proc, ttl, age, call>>

ProcState == {"off", "starting", "up", "down", "gone", "refused"}
CallStep == {"none",                               \* nothing in flight
             "claim", "held", "inuse", "absent", "claimed",
             "renew", "renewed", "lost",
             "adopt"}                              \* ClaimOrphaned comes next

\* Ages beyond the start deadline are not told apart.
AgeMax == OwnerTTL + Heartbeat + 1
\* Statements whose answer sets lastRenew to the time they were sent.
Dated == {"claim", "claimed", "renew", "renewed"}
NoCall == [step |-> "none", sent |-> 0]
Older(t) == IF t < AgeMax THEN t + 1 ELSE t

Live(p) == ttl[p] > 0
NameHeld(p) == \E q \in Owner \ {p} : nameOf[q] = nameOf[p] /\ Live(q)
\* untilFence(now) > 0
UntilFence(p) == age[p] < FenceAfter

Step(p, s) == call' = [call EXCEPT ![p].step = s]
Goes(p, s) == proc' = [proc EXCEPT ![p] = s]

Init == /\ proc = [p \in Owner |-> "off"]
        /\ ttl  = [p \in Owner |-> 0]
        /\ age  = [p \in Owner |-> 0]
        /\ call = [p \in Owner |-> NoCall]
-----------------------------------------------------------------------------
(* claimOwner, and the end of NewDurableLeaseMinter.                         *)

Start(p) == /\ proc[p] = "off"
            /\ Goes(p, "starting")
            /\ age' = [age EXCEPT ![p] = 0]
            /\ UNCHANGED <<ttl, call>>

ClaimSend(p) == /\ proc[p] = "starting" /\ call[p].step = "none"
                /\ call' = [call EXCEPT ![p] = [step |-> "claim", sent |-> 0]]
                /\ UNCHANGED <<proc, ttl, age>>

\* Mutant: the insert does not look at the other rows of the name.
ClaimInsertUnchecked(p) ==
  /\ call[p].step = "claim"
  /\ Step(p, "claimed")
  /\ ttl' = [ttl EXCEPT ![p] = OwnerTTL]
  /\ UNCHANGED <<proc, age>>

\* The insert of ClaimDatabaseCleanupOwner, under the lock on the name.
ClaimInsert(p) ==
  /\ call[p].step = "claim"
  /\ \/ NameHeld(p) /\ Step(p, "held") /\ UNCHANGED ttl
     \/ ~NameHeld(p) /\ Step(p, "claimed") /\ ttl' = [ttl EXCEPT ![p] = OwnerTTL]
  /\ UNCHANGED <<proc, age>>

\* Nothing was inserted; a second query says why.
ClaimCheck(p) ==
  /\ call[p].step = "held"
  /\ Step(p, IF NameHeld(p) THEN "inuse" ELSE "absent")
  /\ UNCHANGED <<proc, ttl, age>>

ClaimRetry(p) == /\ proc[p] = "starting" /\ call[p].step = "inuse"
                 /\ age[p] <= OwnerTTL + Heartbeat
                 /\ Step(p, "none")
                 /\ UNCHANGED <<proc, ttl, age>>

\* The name is still held after the deadline, or the answer was not the one
\* that claimOwner retries on.
ClaimRefuse(p) ==
  /\ proc[p] = "starting"
  /\ \/ call[p].step = "inuse" /\ age[p] > OwnerTTL + Heartbeat
     \/ call[p].step = "absent"
  /\ Goes(p, "refused")
  /\ call' = [call EXCEPT ![p] = NoCall]
  /\ UNCHANGED <<ttl, age>>

\* A failed statement, committed or not, ends the start.
ClaimError(p) == /\ proc[p] = "starting"
                 /\ call[p].step \in {"claim", "held", "claimed"}
                 /\ Goes(p, "gone")
                 /\ call' = [call EXCEPT ![p] = NoCall]
                 /\ UNCHANGED <<ttl, age>>

ClaimDone(p) == /\ proc[p] = "starting" /\ call[p].step = "claimed"
                /\ Goes(p, "up")
                /\ age' = [age EXCEPT ![p] = call[p].sent]
                /\ call' = [call EXCEPT ![p] = [step |-> "adopt", sent |-> 0]]
                /\ UNCHANGED ttl
-----------------------------------------------------------------------------
(* heartbeat: renew, count the live rows, claim orphaned records.            *)

RenewSend(p) == /\ proc[p] = "up" /\ call[p].step = "none"
                /\ UntilFence(p)
                /\ call' = [call EXCEPT ![p] = [step |-> "renew", sent |-> 0]]
                /\ UNCHANGED <<proc, ttl, age>>

\* Mutant: the update revives an expired row.
RenewApplyRevives(p) ==
  /\ call[p].step = "renew"
  /\ ~NameHeld(p)
  /\ Step(p, "renewed")
  /\ ttl' = [ttl EXCEPT ![p] = OwnerTTL]
  /\ UNCHANGED <<proc, age>>

\* The update of RenewDatabaseCleanupOwner.  The database may run it after the
\* process that sent it stopped.
RenewApply(p) ==
  /\ call[p].step = "renew"
  /\ \/ Live(p) /\ ~NameHeld(p) /\ Step(p, "renewed") /\ ttl' = [ttl EXCEPT ![p] = OwnerTTL]
     \/ (~Live(p) \/ NameHeld(p)) /\ Step(p, "lost") /\ UNCHANGED ttl
  /\ UNCHANGED <<proc, age>>

\* Mutant: lastRenew is the time of the answer, not of the send.
RenewDoneFromAnswer(p) ==
  /\ proc[p] = "up" /\ call[p].step = "renewed"
  /\ age' = [age EXCEPT ![p] = 0]
  /\ call' = [call EXCEPT ![p] = [step |-> "adopt", sent |-> 0]]
  /\ UNCHANGED <<proc, ttl>>

RenewDone(p) == /\ proc[p] = "up" /\ call[p].step = "renewed"
                /\ age' = [age EXCEPT ![p] = call[p].sent]
                /\ call' = [call EXCEPT ![p] = [step |-> "adopt", sent |-> 0]]
                /\ UNCHANGED <<proc, ttl>>

\* Any other error is retried on the next tick until the deadline.
RenewError(p) == /\ proc[p] = "up" /\ call[p].step \in {"renew", "renewed"}
                 /\ UntilFence(p)
                 /\ call' = [call EXCEPT ![p] = NoCall]
                 /\ UNCHANGED <<proc, ttl, age>>

\* LiveDatabaseCleanupOwners and ClaimOrphanedDatabaseCleanup; what the claim
\* does to records and sessions is in CleanupJournal and PodSessions.
Adopt(p) == /\ proc[p] = "up" /\ call[p].step = "adopt"
            /\ call' = [call EXCEPT ![p] = NoCall]
            /\ UNCHANGED <<proc, ttl, age>>
-----------------------------------------------------------------------------
\* fence: the renewal was refused, or the deadline passed.
Fence(p) == /\ proc[p] = "up"
            /\ call[p].step = "lost" \/ ~UntilFence(p)
            /\ Goes(p, "down")
            /\ UNCHANGED <<ttl, age, call>>

\* Close cancels the context of the process before anything else.
CloseBegin(p) == /\ proc[p] = "up"
                 /\ Goes(p, "down")
                 /\ UNCHANGED <<ttl, age, call>>

\* release deletes the row, on every way out of Close.
Release(p) == /\ proc[p] = "down"
              /\ ttl' = [ttl EXCEPT ![p] = 0]
              /\ UNCHANGED <<proc, age, call>>

\* A crash, or the exit that ends Close.  A statement of a starting process
\* dies with it.
Exit(p) == /\ proc[p] \in {"starting", "up", "down"}
           /\ Goes(p, "gone")
           /\ call' = IF proc[p] = "starting" THEN [call EXCEPT ![p] = NoCall] ELSE call
           /\ UNCHANGED <<ttl, age>>

\* Mutant: the row of an expired owner keeps losing time.
TickBelowZero ==
  /\ \A p \in Owner : proc[p] = "up" => age[p] < FenceAfter + Lag
  /\ ttl' = [p \in Owner |-> ttl[p] - 1]
  /\ UNCHANGED <<proc, age, call>>

\* Time passes.  The timer of run() fires and the broker closes its sessions
\* within Lag of the deadline.
Tick == /\ \A p \in Owner : proc[p] = "up" => age[p] < FenceAfter + Lag
        /\ ttl'  = [p \in Owner |-> IF ttl[p] > 0 THEN ttl[p] - 1 ELSE 0]
        /\ age'  = [p \in Owner |-> IF proc[p] \in {"starting", "up"}
                                     THEN Older(age[p]) ELSE age[p]]
        /\ call' = [p \in Owner |-> IF call[p].step \in Dated
                       THEN [call[p] EXCEPT !.sent = Older(call[p].sent)]
                       ELSE call[p]]
        /\ UNCHANGED proc

Next == \/ \E p \in Owner :
             \/ Start(p) \/ ClaimSend(p) \/ ClaimInsert(p) \/ ClaimCheck(p)
             \/ ClaimRetry(p) \/ ClaimRefuse(p) \/ ClaimError(p) \/ ClaimDone(p)
             \/ RenewSend(p) \/ RenewApply(p) \/ RenewDone(p) \/ RenewError(p)
             \/ Adopt(p) \/ Fence(p) \/ CloseBegin(p) \/ Release(p) \/ Exit(p)
        \/ Tick

Spec == Init /\ [][Next]_vars
-----------------------------------------------------------------------------
TypeOK == /\ proc \in [Owner -> ProcState]
          /\ ttl \in [Owner -> 0 .. OwnerTTL]
          /\ age \in [Owner -> 0 .. AgeMax]
          /\ call \in [Owner -> [step : CallStep, sent : 0 .. AgeMax]]

\* lastRenew is dated from the send and the row from the write that followed,
\* so the row always outlasts the renewal the process counts from, and will
\* outlast one whose answer is still on its way.
RowOutlastsRenewal ==
  \A p \in Owner :
    /\ proc[p] = "up" => ttl[p] + age[p] >= OwnerTTL
    /\ (proc[p] \in {"starting", "up"} /\ call[p].step \in {"claimed", "renewed"})
         => ttl[p] + call[p].sent >= OwnerTTL

\* A process that still has authority: not fenced, and not past the margin (a
\* start whose answer came too late is fenced before it can open a session).
InAuthority(p) == proc[p] = "up" /\ age[p] <= FenceAfter + Lag

\* No survivor can claim the records of a process that still has authority.
AuthorityHoldsRow == \A p \in Owner : InAuthority(p) => Live(p)

\* "Two processes under one name would share an audit chain and confuse cleanup
\* ownership, so the later one must not run" (database_cleanup.go:19-22).
OneAuthorityPerName ==
  \A p, q \in Owner : (p # q /\ nameOf[p] = nameOf[q])
                        => ~(InAuthority(p) /\ InAuthority(q))

\* The clocks away: OwnerRows implements OwnerAuthority.
authOf == [p \in Owner |-> CASE proc[p] = "refused" -> "gone"
                             [] proc[p] = "up" /\ ~InAuthority(p) -> "down"
                             [] OTHER -> proc[p]]
Authority == INSTANCE OwnerAuthority
               WITH auth <- authOf, live <- [p \in Owner |-> Live(p)]
ImplementsAuthority == Authority!AuthSpec

\* claimOwner: a crashed predecessor holds the name only until its row expires,
\* and a process is refused only for "a name still held after that".
RefusedOnlyWhileHeld ==
  [][\A p \in Owner : (proc[p] = "starting" /\ proc'[p] = "refused") => NameHeld(p)]_vars
=============================================================================
