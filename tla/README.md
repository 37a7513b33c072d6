# Agent Vault: a verification project

TLA+ models of [Agent Vault](../src/README.md), the TLC configurations that
check them on small instances, and TLAPS proofs of the properties that matter
most. `PROJECT.json` lists the runs, the theorems, the hazards, and for every
definition the source lines it models.

## 1. The system

Agent Vault is a Go server between AI agents and what they need credentials
for. An agent never holds a credential; the server injects it.

| part | where | what it does |
| --- | --- | --- |
| PostgreSQL broker | `internal/pgproxy` | accepts PostgreSQL clients, admits them, draws a short-lived database credential from HashiCorp Vault for each session or pool, relays or multiplexes their statements |
| durable cleanup | `internal/pgproxy/durable_leases.go`, `internal/store/database_cleanup.go` | a journal of every credential that may exist, owned by one broker process at a time; survivors take over from dead replicas |
| session ledger | `internal/server/durable_pg.go`, `broker_sessions` | the cap on the sessions of one Pod over all replicas |
| audit chain | `internal/auditchain`, `internal/store/audit_chain.go`, `cmd/server_audit.go` | a signed, linked log, and the offline verifier of an export of it |
| vault configuration | `internal/server/handle_*.go`, `internal/proposal` | services, credentials, proposals that a person approves |
| credential stores | `internal/infisical`, `internal/hashicorp` | synchronisation from an external store, dynamic secrets, the broker's Vault login |
| HTTP proxy | `internal/mitm`, `internal/brokercore`, `internal/ratelimit`, `internal/requestlog` | intercepts HTTPS, matches a service, injects a credential, limits, logs |
| accounts | `internal/server`, `internal/store` | owners, agents, sessions, invites |
| task relay | `internal/taskrelay`, `internal/proxyactivity` | pairing of tasks with the proxy, reports of activity |
| identity | `internal/workloadidentity`, `internal/authorize`, `internal/entitlement` | who a Pod is, and what it may do |

`PROJECT.json` names every part, including those not modelled, with the reason.

How the modelled parts interact:

    client -> BrokerConns (admission, caps, stop)
                 |-- PodSessions (fleet-wide cap)      --+
                 |-- ServerPools -> PooledSession        |-- owner row of this process:
                 +-- CleanupJournal (credentials)      --+   OwnerAuthority <= OwnerRows
    every part -> AuditChain -> log -> AuditVerify

A broker process (one boot of one replica) holds a row in
`database_cleanup_replica`. The row expires unless it is renewed; a process
that has not renewed for `FenceAfter` stops by itself, before its row can
expire. The records of credentials and of sessions carry the owner of that row,
and what belongs to an owner without a live row may be taken over or stops
counting. Everything about the fleet rests on that one protocol, so it has a
specification without clocks (`OwnerAuthority`) that the others extend, and a
timed model (`OwnerRows`) that is proved to implement it.

## 2. The modules

`MCx` instantiates module `x` for TLC. Some instances have parts: a behaviour
chooses one part at the start and stays in it, so that one run asks the same
question of instances of different shape, or of two tables that are never read
through each other. `MCReplicaRows` runs `PodSessions` and `AuditVerify`.

**OwnerAuthority** - the life of broker processes and of their owner rows as
the rest of the broker sees them: a process with authority never loses its row
to expiry; any other may. Abstract; no code of its own.

**OwnerRows** - `claimOwner`, the heartbeat, the fence timer, `Close` and the
statements on `database_cleanup_replica`, each split into send, effect and
answer; time may pass between them, and effect and answer may be lost. `ttl`
is what the database clock leaves of a row, `age` what the process's clock says
since `lastRenew`. `Lag` is how late the fence timer and the closing of
sessions may be; the code leaves `OwnerTTL - FenceAfter` for it.

**CleanupJournal** - `DurableLeaseMinter`. `op[p]` is the operation that holds
`m.mu`: Mint, Revoke, the retry pass or Close, with one step per call to the
store or to Vault (the quarantine query and the creation of the child token of
a Mint are two). Each call can fail before or after its effect, deletions
included. Crashes, fences, expiring owner rows, the operator's confirmation
through any replica and the TTL of the child token come between any two steps.
`journal` is the table `database_cleanup`, `cred` what Vault and the database
hold (external).

**PodSessions** - `AddBrokerSession`, `RemoveBrokerSession`, the count and the
sweep over `broker_sessions`, with lost answers, failed removals, and the end
of sessions with the authority of their process.

**BrokerConns** - `Broker.serve`, every stage of `handleConn` with the slots it
takes (pending, admission, lease per workload and per agent, ledger, serving,
upstream) and the deferred calls that give them back, `Shutdown` with and
without draining, and the watcher that force-closes on loss of the authority.

**ServerPools** - `serverPools`: the acquire loop (pinned share, reuse, open,
wait), dial and mint outside the lock, release, pinning, background rotation,
retirement, expiry, `maintain`, `close`, and the share of the budget that
follows the size of the fleet. A step is one critical section of `p.mu`.

**PooledSession** - `pooledSession`: the run loop, one `readServer` per
connection, `killWith`, cancel requests and `beginDrain`, each as a thread
whose steps are the critical sections of `s.mu` and the blocking calls between
them; the prepared-statement translation, swallowed answers, pinning, parameter
synchronisation and the cleanliness check on return with all its outcomes. The
model begins where `servePooled` has tracked the session and not yet cleared its
deadlines. A PostgreSQL backend per connection answers in order, and refuses a
Bind of a statement it does not have (external). Statement text is reduced to
the kinds the code tells apart.

**AuditChain, AuditVerify** - the writer (`chain.go`, boot numbers and
checkpoints in the store, start-up) and the verifier as operators over an
export. `BeginAuditBoot` is two steps, the SELECT and the guarded UPDATE, because
PostgreSQL runs it under READ COMMITTED. `SortBySeq` and the `partial` argument
are the flags `--sort-by-seq` and `--partial-history`. A MAC is abstracted to
what identifies the row, so equal MACs mean equal rows.

## 3. The runs

| run | instance | states | shows |
| --- | --- | --- | --- |
| `owner_rows` | two boots of one replica name, TTL 4, fence 2, heartbeat 1, lag 1 | 306,839 | a process with authority holds a live row; one boot per name; `OwnerRows` implements `OwnerAuthority` |
| `cleanup_journal` | two replicas, two credentials, one binding | 681,417 | a live credential stays listed for some replica to revoke; a served lease is its server's own; a quarantined binding stays shut |
| `cleanup_live` | two replicas, two bindings, one credential | 297,867 | what a dead replica left is settled by a survivor whose pass gets the lock again and again |
| `replica_rows` | ledger: two replicas, two Pods, four sessions, limit 2; trail: three runs of one name, two boots, two keys, four and two rows | 410,124 | open sessions are counted and a Pod stays within its cap over the fleet; boots are not shared, the store names rows of the log, an intact trail raises no alarm but the excused ones, every anchored loss is found, only prefixes pass |
| `server_pools` | two pools for one connection; three clients for one connection; two connections in a fleet of one or two | 316,118 | no lost wake-up, accounts balance, rotations cut nothing, nothing new on a retiring credential |
| `broker_conns` | three connections of two Pods, with and without pooling | 421,374 | caps hold over credentials, no lost wake-up, no circular wait, nothing kept, a stop misses nobody and completes |
| `pooled_session` | two connections, five kinds of client | 828,759 | one owner per connection, clean returns, drains between answers, answers in order, cancels hit their own, escapes are read as sent |

Bounds. Two boots of a name are what the name check distinguishes: rows of
different names never meet in a statement. A takeover needs a dead owner and a
survivor, and two credentials are enough for a reconcile to work on one while a
session uses the other; a second binding is what lets a Mint keep the lock
without touching the orphan. Two sessions over the limit make the Pod's cap bite
on both replicas. The queue of `server_pools` holds two (`QueueFactor` 2 on a
budget of one), so three clients are one holder and two waiters, and a wake-up
can reach the wrong one. Three connections of two Pods make the cap per workload
and the cap per agent bite separately. Four rows of the first boot are its start,
an event that is appended while a checkpoint is being signed, the checkpoint, and
one more row (an event, a rotation, a failed or a second checkpoint); two rows of
the second are its start and its first checkpoint. A third run lets two
starts read the same row while the first boot is still up. The kinds of
clients in `pooled_session` are separate because the code treats what they send
separately; each sends two to four messages, and two connections let a session
leave one and be bound to the other. Deadlock checking is off everywhere: each
model has a legitimate end (processes exit once, clients send a bounded number
of messages).

Symmetry and views are used for safety only. A view drops from a state what no
action and no property reads any more (who owned a confirmed row, how an ended run
ended), and counts sessions and runs that are alike; each says so beside its
definition. `OnlyPrefixesPass` and the other properties
of the verifier are evaluated when no process is up (`Quiet`): the log, the
store and the links outlive processes, which may die at any step, so no
combination is missed.

What the properties leave out. `LiveCredentialIsListed` excepts a credential
whose issuance an operator confirmed before its lease ID was written (the run
`cleanup_confirm`). `NoLostWakeup` is about a fleet of constant size. `Excused`
lists the findings an intact log may raise: a boot without rows, a boot without
a signature, and the key of a run that overlapped with another. `IdleIsClean`
excepts the role of a connection that a pinned session gave back, which is reset
with `DISCARD ALL` and not looked at. `DrainWakes` excepts a drain that began
during the session's start-up. `RepliesInOrder` is about clients that wait for
each `ReadyForQuery`.

Fairness. `cleanup_live` assumes that the tickers of `run()` fire, that an
operation which holds the lock goes on, that an unrenewed row expires, and that
calls for a live owner stop failing at some time (otherwise the code rightly
retries for ever). All of it is weak fairness. The retry pass only tries the
lock (`durable_leases.go:338`), so that it ever runs is not guaranteed by the
code, and `OrphansAreSettled` states it as a premise: without it TLC finds the
schedule in which Mints of one binding hold the lock at every tick and the
records of the other wait. `broker_conns` assumes that timers
fire, deferred calls run, a session whose socket the broker closed ends, and a
handler that cannot go on runs into its deadline; it assumes nothing of clients.
It assumes that the context given to a draining `Shutdown` has a deadline, as the
server's has; without one a drain waits for clients that never become idle.

### Where the code and its comments disagree

Five runs end in a violation; `PROJECT.json` quotes the line each contradicts.

- `owner_restart`: a claim that is refused because of a predecessor asks in a
  second query why. If the predecessor's row goes away in between, the start
  fails with an error that is not retried, although the name is free.
- `cleanup_confirm`: an operator who confirms an unknown issuance through one
  replica closes the record of a Mint of another replica that Vault has just
  answered. If the Mint's own withdrawal then fails, no replica lists the
  credential, and only its TTL ends it.
- `audit_cut`: a checkpoint that the old boot persists between the SELECT and the
  UPDATE of the new boot's `BeginAuditBoot` is erased, and the new boot links to
  an older one: rows before an acknowledged checkpoint can be cut unnoticed.
- `pool_close`: a rotation inside `Leases.Mint` when the pools close installs a
  credential that `close` has not retired. The cleanup journal still has it.
- `pooled_closing`: the broker swallows the first `CloseComplete` of a batch in
  which it put a `Close` of its own; if the client closed a portal earlier in
  the batch, the client's answer is swallowed and the broker's delivered late.

More statements do not hold in these models and have no run of their own:

- `verify.go:215` ("A boot never starts under an older key than its predecessor
  ended on", also `signed-audit.md:9`): a run reads its key before it takes its
  boot number, so two overlapping starts may get them in opposite orders;
- `signed-audit.md:46` (heads are taken "after the export so the export can reach
  every head"): a head that is persisted between the two is not in the export;
- `txn.go:809-810`: a drain that begins between `trackPooled` and the reset of
  the deadline does not wake the session;
- `txn.go:867-869`: a pinned session's connection is reset without a check for a
  switched role; what `DISCARD ALL` then does to the role is the server's affair;
- `pool.go:32-33`: pinned connections can exceed the session share, since two
  pinned checkouts that dial at the same time both passed its check;
- `pool.go:138`: reuse goes on within the margin, which only stops new opens;
- `maintain`'s trim, and its wake-up, are skipped when a checkout has already
  taken over the new limit between the change and the tick.

## 4. The proofs

`OwnerRowsProofs`, for any set of processes and names and any timing with
`Heartbeat < FenceAfter` and `FenceAfter + Lag < OwnerTTL` (the first and
`FenceAfter < OwnerTTL` are checked by `NewDurableLeaseMinter`):

- `FencedBeforeTakeover`: `Spec => []AuthorityHoldsRow`;
- `SingleAuthority`: `Spec => []OneAuthorityPerName`;
- `Refinement`: `Spec => ImplementsAuthority`.

`AuthorityHoldsRow` is not inductive: whether a row is still live depends on
when it was written. `RowOutlastsRenewal` says `ttl + age >= OwnerTTL` for the
renewal a process counts from and for one whose answer is on its way; time takes
from `ttl` what it adds to `age`, a renewal sets `ttl` when it is applied and
`age` to the time since it was sent, which is never less. With
`age <= FenceAfter + Lag < OwnerTTL` the row is live. `OneLiveRow` is preserved
because the claim looks at the rows of its name in the inserting statement and a
renewal never revives a row. The refinement needs one more invariant
(`RenewalInTime`): a renewal sent before the fence is answered before the
process loses its authority or not at all, so no late answer gives it back.

`PodSessionsProofs`, for any replicas, Pods, sessions and limit:

- `FleetCap`: `Spec => []PodCap`;
- `OpenSessionsCounted`: `Spec => []OpenIsCounted`.

The cap is enforced on counted rows, so the invariant bounds those
(`CountedCap`) and says that every open session is counted. A row could start
to count again only if its owner row came back; `RowsHaveServed` excludes it.

The other modules are model-checked only. Liveness (`OrphansAreSettled`,
`ShutdownCompletes`) is out of the prover's reach.

## 5. What is not modelled, and the plan

Pure I/O, parsing and cryptography are left out for good: the PostgreSQL wire
format and SCRAM, HTTP request building, certificates, the command line, the
web console and the SDKs. Planned, in this order:

1. **VaultConfig**: the service list as a read-modify-write under the vault
   lock, credentials, the life of a proposal and its merge, the external store
   and its synchronisation. To show: names stay unique, no update is lost, an
   index-map merge equals the merge one by one, what is applied stays applied,
   synchronised credentials converge.
2. **VaultLogins**: the broker's set of Vault logins (`hashicorp/reauth.go`)
   with rotation, denial and draining.
3. **Accounts**: the last-owner guard, sessions, invites and agent tokens as
   check-then-act sequences over the store.
4. **RateLimit, RequestLog, TaskRelay**: semaphore and window at their limits,
   a bounded queue with a flusher, pairing and the durable close log.
5. Proofs: `LiveCredentialIsListed` and `ServedLeaseIsOwn` for any replicas
   and credentials; `AccountsMatch`; `CredentialsWithinCaps`; `BootsAreUnique`
   and `NamedHeadsAreRows`.
