----------------------------- MODULE AuditChain -----------------------------
(***************************************************************************)
(* The signed audit trail of one replica name: internal/auditchain         *)
(* (chain.go writes, verify.go checks), the boot counter in                *)
(* internal/store/audit_chain.go and the start-up in cmd/server_audit.go.  *)
(*                                                                         *)
(* Each process run is one boot.  Its rows go to the log; the store keeps  *)
(* the newest boot and the newest checkpoint row that boot persisted.  Two *)
(* runs under one name may overlap: the audit chain starts before the      *)
(* owner name is claimed.  A MAC is abstracted to what identifies a row.   *)
(***************************************************************************)
EXTENDS Naturals, Sequences

CONSTANTS Proc,      \* process runs, each started at most once
          MaxBoot, MaxKey,   \* bounds: boots and key versions
          MaxRows            \* bound: MaxRows[b], the rows of boot b

Boots == 1..MaxBoot

VARIABLES store,   \* the replica's row: boot, and seq and MAC of its checkpoint
          kv,      \* newest version of the HMAC key in Vault
          proc,    \* one record per process run
          log      \* log[b]: the rows boot b got into the log

chainVars == <<store, kv, proc, log>>

NoMac == <<>>
Mac(row) == <<row.seq, row.event, row.key>>
NoHead == [seq |-> 0, mac |-> NoMac]
NoLink == [boot |-> 0, seq |-> 0, mac |-> NoMac]

Seqs == UNION {0..MaxRows[b] : b \in Boots}
Events == {"chain_start", "event", "checkpoint", "checkpoint_failed", "key_rotated"}
Macs == {NoMac} \cup (Seqs \X Events \X (1..MaxKey))
Heads == [seq : Seqs, mac : Macs]
Links == [boot : 0..MaxBoot, seq : Seqs, mac : Macs]
Rows == [seq : Seqs, event : Events, key : 1..MaxKey, prev : Macs,
         prevKey : 0..MaxKey, signed : Heads, link : Links]

\* pc: "key" has read the key, "read" the replica's row, "begun" has a boot
\* number, "run" has written chain_start.  link: the row BeginAuditBoot read,
\* until chain_start carries it.  step: what the goroutine of Run (before it, the
\* start-up) does.  at: the head being signed or persisted.  saved: newest
\* checkpoint whose persistence was acknowledged, whose age Admit compares with
\* Grace.  overlap (history): the run was up at the same time as another.
Process == [pc : {"off", "key", "read", "begun", "run", "failed", "dead"},
            boot : 0..MaxBoot, key : 0..MaxKey, seq : Seqs, prev : Macs, link : Links,
            step : {"idle", "sign", "persist", "committed", "fetched"},
            at : Heads, fetched : 0..MaxKey,
            served : BOOLEAN, saved : Seqs, overlap : BOOLEAN]

ChainInit == /\ store = NoLink
             /\ kv = 1
             /\ proc = [p \in Proc |-> [pc |-> "off", boot |-> 0, key |-> 0, seq |-> 0, prev |-> NoMac,
                                        link |-> NoLink, step |-> "idle", at |-> NoHead, fetched |-> 0,
                                        served |-> FALSE, saved |-> 0, overlap |-> FALSE]]
             /\ log = [b \in Boots |-> <<>>]
-----------------------------------------------------------------------------
Running(p) == proc[p].pc = "run"

\* A chain that failed or a process that died writes nothing any more; what is
\* left is its boot and what it had persisted.
Stopped(p, pc) == [proc[p] EXCEPT !.pc = pc, !.key = 0, !.seq = 0, !.prev = NoMac, !.link = NoLink,
                                  !.step = "idle", !.at = NoHead, !.fetched = 0, !.served = FALSE]

\* A row of process state me: appendLocked fills the common fields.
NewRow(me, event) == [seq |-> me.seq, event |-> event, key |-> me.key, prev |-> me.prev,
                      prevKey |-> 0, signed |-> NoHead, link |-> NoLink]

\* Mutant: a failed write is not remembered and the chain goes on.
AppendAnyway(p, me, row) ==
  /\ Len(log[me.boot]) < MaxRows[me.boot]
  /\ LET grown == [log EXCEPT ![me.boot] = Append(@, row)] IN
       \/ /\ log' = grown
          /\ proc' = [proc EXCEPT ![p] = [me EXCEPT !.seq = @ + 1, !.prev = Mac(row)]]
       \/ /\ log' \in {log, grown}
          /\ proc' = [proc EXCEPT ![p] = [me EXCEPT !.step = "idle"]]

\* appendLocked: the row is written and becomes the head, or the write fails,
\* with the line in the log or not, and the chain has failed for good.
AppendLocked(p, me, row) ==
  /\ Len(log[me.boot]) < MaxRows[me.boot]
  /\ LET grown == [log EXCEPT ![me.boot] = Append(@, row)] IN
       \/ /\ log' = grown
          /\ proc' = [proc EXCEPT ![p] = [me EXCEPT !.seq = @ + 1, !.prev = Mac(row)]]
       \/ /\ log' \in {log, grown}
          /\ proc' = [proc EXCEPT ![p] = Stopped(p, "failed")]

Up(p) == proc[p].pc \in {"key", "read", "begun", "run"}

\* New reads the current key first.
ReadKey(p) == /\ proc[p].pc = "off"
              /\ proc' = [q \in Proc |->
                            IF q = p THEN [proc[p] EXCEPT !.pc = "key", !.key = kv,
                                                          !.overlap = \E r \in Proc : Up(r)]
                                     ELSE [proc[q] EXCEPT !.overlap = @ \/ Up(q)]]
              /\ UNCHANGED <<store, kv, log>>

\* BeginAuditBoot, the SELECT: a plain read, which locks nothing.
BeginRead(p) == /\ proc[p].pc = "key" /\ store.boot < MaxBoot
                /\ proc' = [proc EXCEPT ![p].pc = "read", ![p].link = store]
                /\ UNCHANGED <<store, kv, log>>

\* Mutant: the UPDATE does not compare the boot (and the INSERT tolerates a row).
BeginWriteAny(p) ==
  /\ proc[p].pc = "read"
  /\ store' = [NoLink EXCEPT !.boot = proc[p].link.boot + 1]
  /\ \E me \in {[proc[p] EXCEPT !.pc = "begun"], Stopped(p, "dead")} :
       proc' = [proc EXCEPT ![p] = [me EXCEPT !.boot = proc[p].link.boot + 1]]
  /\ UNCHANGED <<kv, log>>

\* BeginAuditBoot, the write and its commit: the first INSERT, or the UPDATE of
\* the row whose boot is still the one read.  It does not look at the checkpoint
\* and clears it.  When the answer is lost the start-up fails, the number spent.
BeginWrite(p) ==
  /\ proc[p].pc = "read"
  /\ store.boot = proc[p].link.boot
  /\ store' = [NoLink EXCEPT !.boot = proc[p].link.boot + 1]
  /\ \E me \in {[proc[p] EXCEPT !.pc = "begun"], Stopped(p, "dead")} :
       proc' = [proc EXCEPT ![p] = [me EXCEPT !.boot = proc[p].link.boot + 1]]
  /\ UNCHANGED <<kv, log>>

\* No row was affected, or the INSERT met one: "advanced concurrently", and the
\* start-up fails.
BeginConflict(p) == /\ proc[p].pc = "read"
                    /\ store.boot # proc[p].link.boot
                    /\ proc' = [proc EXCEPT ![p] = Stopped(p, "dead")]
                    /\ UNCHANGED <<store, kv, log>>

WriteStart(p) ==
  /\ proc[p].pc = "begun"
  /\ AppendLocked(p, [proc[p] EXCEPT !.pc = "run", !.link = NoLink],
                  [NewRow(proc[p], "chain_start") EXCEPT !.link = proc[p].link])
  /\ UNCHANGED <<store, kv>>

\* Record, called by sessions once the start-up has returned the chain.
Record(p) == /\ Running(p) /\ proc[p].served
             /\ AppendLocked(p, proc[p], NewRow(proc[p], "event"))
             /\ UNCHANGED <<store, kv>>
-----------------------------------------------------------------------------
(* Checkpoint: by the start-up once, then by Run, which does one thing at a time. *)

\* Mutant: off by one.
CheckpointBeginBefore(p) ==
  /\ Running(p) /\ proc[p].step = "idle"
  /\ proc' = [proc EXCEPT ![p].step = "sign",
                          ![p].at = [seq |-> proc[p].seq - 2, mac |-> proc[p].prev]]
  /\ UNCHANGED <<store, kv, log>>

CheckpointBegin(p) ==
  /\ Running(p) /\ proc[p].step = "idle"
  /\ proc' = [proc EXCEPT ![p].step = "sign",
                          ![p].at = [seq |-> proc[p].seq - 1, mac |-> proc[p].prev]]
  /\ UNCHANGED <<store, kv, log>>

\* The call ends, the start-up's with the chain handed to its users.
Ended(p) == [proc[p] EXCEPT !.step = "idle", !.at = NoHead, !.served = TRUE]

\* Signing failed, or the checkpoint could not be persisted or its answer was lost.
CheckpointFails(p) ==
  /\ Running(p) /\ proc[p].step \in {"sign", "persist", "committed"}
  /\ AppendLocked(p, Ended(p), NewRow(proc[p], "checkpoint_failed"))
  /\ UNCHANGED <<store, kv>>

CheckpointSigned(p) ==
  /\ Running(p) /\ proc[p].step = "sign"
  /\ LET row == [NewRow(proc[p], "checkpoint") EXCEPT !.signed = proc[p].at] IN
       AppendLocked(p, [proc[p] EXCEPT !.step = "persist",
                                       !.at = [seq |-> row.seq, mac |-> Mac(row)]], row)
  /\ UNCHANGED <<store, kv>>

\* Mutant: the UPDATE does not look at the boot.
RecordAuditCheckpointAny(p) ==
  /\ Running(p) /\ proc[p].step = "persist"
  /\ store.seq < proc[p].at.seq
  /\ store' = [store EXCEPT !.seq = proc[p].at.seq, !.mac = proc[p].at.mac]
  /\ proc' = [proc EXCEPT ![p].step = "committed"]
  /\ UNCHANGED <<kv, log>>

\* RecordAuditCheckpoint commits, outside the lock.
RecordAuditCheckpoint(p) ==
  /\ Running(p) /\ proc[p].step = "persist"
  /\ store.boot = proc[p].boot /\ store.seq < proc[p].at.seq
  /\ store' = [store EXCEPT !.seq = proc[p].at.seq, !.mac = proc[p].at.mac]
  /\ proc' = [proc EXCEPT ![p].step = "committed"]
  /\ UNCHANGED <<kv, log>>

CheckpointDone(p) ==
  /\ Running(p) /\ proc[p].step = "committed"
  /\ proc' = [proc EXCEPT ![p] = [Ended(p) EXCEPT !.saved = proc[p].at.seq]]
  /\ UNCHANGED <<store, kv, log>>
-----------------------------------------------------------------------------
(* RefreshKey: the key is read outside the lock. *)

RefreshRead(p) ==
  /\ Running(p) /\ proc[p].served /\ proc[p].step = "idle"
  /\ proc' = [proc EXCEPT ![p].step = "fetched", ![p].fetched = kv]
  /\ UNCHANGED <<store, kv, log>>

Refreshed(p) == [proc[p] EXCEPT !.step = "idle", !.fetched = 0]

RefreshApply(p) ==
  /\ Running(p) /\ proc[p].step = "fetched"
  /\ \/ /\ proc[p].fetched <= proc[p].key
        /\ proc' = [proc EXCEPT ![p] = Refreshed(p)]
        /\ UNCHANGED log
     \/ /\ proc[p].fetched > proc[p].key
        /\ LET me == [Refreshed(p) EXCEPT !.key = proc[p].fetched] IN
             AppendLocked(p, me, [NewRow(me, "key_rotated") EXCEPT !.prevKey = proc[p].key])
  /\ UNCHANGED <<store, kv>>

RotateKey == /\ kv < MaxKey /\ kv' = kv + 1
             /\ UNCHANGED <<store, proc, log>>

RunDies(p) == /\ Up(p)
              /\ proc' = [proc EXCEPT ![p] = Stopped(p, "dead")]
              /\ UNCHANGED <<store, kv, log>>

ChainNext ==
  \/ RotateKey
  \/ \E p \in Proc : \/ ReadKey(p) \/ BeginRead(p) \/ BeginWrite(p) \/ BeginConflict(p)
                     \/ WriteStart(p) \/ Record(p)
                     \/ CheckpointBegin(p) \/ CheckpointFails(p) \/ CheckpointSigned(p)
                     \/ RecordAuditCheckpoint(p) \/ CheckpointDone(p)
                     \/ RefreshRead(p) \/ RefreshApply(p) \/ RunDies(p)

ChainSpec == ChainInit /\ [][ChainNext]_chainVars
-----------------------------------------------------------------------------
ChainTypeOK == /\ store \in Links
               /\ kv \in 1..MaxKey
               /\ proc \in [Proc -> Process]
               /\ \A b \in Boots : log[b] \in Seq(Rows)

\* Starts that read the same row never end up with one boot number, whichever of
\* their writes comes first, so no two processes write rows of one chain.
BootsAreUnique == \A p, q \in Proc :
                    p # q /\ proc[p].boot # 0 => proc[p].boot # proc[q].boot
=============================================================================
