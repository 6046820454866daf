# A TLA+ verification of thinklocal-mcp

thinklocal-mcp is a daemon that joins the AI agents of several machines into a
local mesh: the daemons discover each other, authenticate by mTLS and signed
envelopes, replicate a registry of capabilities, carry messages between agents
and delegate tasks. This directory holds TLA+ models of the parts where order,
failure and concurrency matter, the TLC configurations that check them and
TLAPS proofs of every invariant and action property
that the passing ones check. All source paths are under
`src/packages/daemon/src/` unless they say otherwise.

Each daemon is one Node.js process. A handler runs without interruption until
it awaits, so the models' atomic steps are the stretches of code between two
awaits; everything that can happen in between (another request, a timer, a
peer's message, a crash) is another action.

## The system's parts

| Part | State | Operations | What is hard |
|---|---|---|---|
| Registry sync (`registry-sync-coordinator.ts`, `-libp2p-adapter.ts`, `-protocol.ts`) | an entry per peer: sync state, the running round, generation, buffered frames, strikes | connect, disconnect, inbound frame, tick, republish, stop | rounds that outlive their entry, frames that arrive during a round, timeouts against aborts, shutdown |
| Capability registry, gossip, skills (`registry.ts`, `gossip.ts`, `skills.ts`, `skill-health-monitor.ts`) | an Automerge document of capabilities by agent and skill | register, import, remove, mark offline, sync rounds | late gossip against removal, who may write whose entries |
| Mesh peer table (`mesh.ts`, `agent-card.ts`, `discovery.ts`) | peers by agentId with card, PeerID, verified flag, health | discovery, card fetch, health probe, attestation, rollback | objects held over an await, re-keying on an identity flip, rollback of a tentative change |
| Peer learning (`inbound-peer-learner.ts`, `peer-cache.ts`, `boot-relearn.ts`) | the authenticated-seen table and its cache | learn, expire, evict, relearn at boot | limits and lifetimes, fetches in flight |
| Inbox (`agent-inbox.ts`, `inbox-api.ts`, `inbox-poller.ts`, `index.ts` AGENT_MESSAGE) | the messages table; a poller per agent | send, receive, list, mark read, archive, poll | a timeout racing a late store, at-least-once delivery, the poller stopped and started mid-cycle |
| Onboarding (`token-store.ts`, `token-api.ts`, `pairing-handler.ts`, `pairing.ts`, `trust-store.ts`) | tokens, one pairing session, paired peers and their file, the CA bundle in use | create, revoke, join, start, init, confirm | one write of several failing, crash between writes, stale answers |
| Tasks (`tasks.ts`, `task-executor.ts`, `task-queue.ts`, `task-router.ts`, `task-chain.ts`, `execution-state.ts`) | tasks and their states, a queue, chains, execution rows | request, accept, complete, fail, time out, enqueue, cancel, route | a result racing the timeout, two writers of one row |
| Governed calls (`mcp-ingress*.ts`, `mcp-forward*.ts`, `approvals.ts`, `meldekanal.ts`, `telegram-meldekanal.ts`, `freigabe-matrix.ts`, `approval-gates.ts`) | a call's legs, approval rows, waits for a click, audit entries | classify, gate, ask, click, time out, forward, execute | a click racing the timeout, replicas that disagree on the provider |
| Orders and wake-up (`order-ledger-protocol.ts`, `signed-order.ts`, `wake-contract.ts`) | a ledger state per order and consumer, the last wake | claim, run, finish, wake | duplicated orders, bursts |
| Guards (`circuit-breaker.ts`, `ratelimit.ts`, `replay.ts`, `budget-guard.ts`) | counters and windows | allow, record, prune | two windows that must meet, late results |
| Activation and skill lifecycle (`capability-activation.ts`, `skill-lifecycle.ts`, `skill-rollback.ts`, `skill-deps.ts`, `semver.ts`) | activation rows, lifecycle states, a directory and its backup | activate, revoke, collect, install, restore | one step of an installation failing |
| Discovery (`discovery.ts`, `discovery-policy.ts`, `peer-identity.ts`, `server-identity-pin.ts`, `static-peer-reconciler.ts`, `coordinator.ts`) | published record, policy, pins, views | publish, browse, pin, reconcile, elect | sender and receiver deciding separately |
| Identity and certificates (`identity.ts`, `libp2p-identity.ts`, `tls.ts`, `cert-*.ts`, `crl.ts`, `recovery.ts`) | files of keys and certificates, nonces | start, reissue, migrate, issue, revoke | crash between two files, two starters |
| Agents' sessions (`agent-registry.ts`, `agent-api.ts`, `sweep-*.ts`, `session-*.ts`) | registered instances, branch locks, a session file's tail | register, beat, sweep, check out, tick | expiry racing renewal, overlapping ticks |
| Stores (`audit.ts`, `vault.ts`, `vault-passphrase.ts`, `keychain.ts`) | the audit chain, passphrase, credentials | append, store, retrieve, revoke | a start that cannot read the keychain |
| Transport and sandbox (`libp2p-runtime.ts`, `sandbox.ts`) | dials and streams; a child process | dial, connect, stop; run, time out, settle | events in any order |

How they interact: `index.ts` wires them. libp2p connect and disconnect events
and inbound frames drive registry sync; mDNS and static peers fill the mesh
table; the mesh's online and offline events add and remove capabilities; `POST
/message` (agent-card.ts) attests, verifies and dispatches envelopes to the
inbox and the task handlers; pairing and token joins extend the trust store, and
with it who may open a connection at all.

## Modules

| Module | Models | Checked by |
|---|---|---|
| `RegistrySync.tla` | the sync coordinator of one node and its transport | `RegistrySync*.cfg` through `MCRegistrySync.tla`; proofs in `RegistrySyncProofs.tla` |
| `Mesh.tla` | the peer table, its probes, card fetches and attestations | `Mesh*.cfg` through `MCMesh.tla`; `MeshProofs.tla` |
| `Inbox.tla` | several daemons' inboxes, the sends between them, the pollers of their agents | `Inbox*.cfg` through `MCInbox.tla`; `InboxProofs.tla` |
| `Onboarding.tla` | tokens, pairing, the peers' file and the trusted CAs of one daemon | `Onboarding.cfg` through `MCOnboarding.tla`; `OnboardingProofs.tla` |
| `Peers.tla` | the inbound peer learner, boot relearning, the cache file; the static-peer reconciler; a retried request | `Components.cfg`; `Peers_cache.cfg` through `MCPeers.tla`; `NetworkProofs.tla` |
| `OneShot.tla` | abstract: a request that is opened once and settled once | implemented by `Tasks`, `TaskRouting`, `Ingress` and `Orders`, as `RequestProofs.tla` proves |
| `Tasks.tla`, `TaskQueue.tla`, `TaskRouting.tla` | task table and executor; queue; router, chains, execution rows | `Components.cfg` through `MCComponents.tla`, as all below; `RequestProofs.tla` |
| `Guards.tla` | replay cache, token bucket, circuit breaker, budget | `NetworkProofs.tla` |
| `Ingress.tla`, `Policy.tla`, `Orders.tla` | governed MCP calls with their approvals; matrix and gate rules; order ledger and wake | `RequestProofs.tla` |
| `Capabilities.tla`, `Skills.tla` | registry, gossip, announcements, activation; health monitor, lifecycle, installation, dependencies, versions | `HostProofs.tla` |
| `Discovery.tla`, `Transport.tla` | policy, publishing and browsing, identities, pins, selection, election; the libp2p node | `NetworkProofs.tla` |
| `Identity.tla`, `Certificates.tla` | node id and keys of processes that start at once; the TLS bundle over crashes, issuance, CRL | `HostProofs.tla` |
| `Sessions.tla`, `Stores.tla`, `Sandbox.tla` | agents, branch locks, session tail; audit log and vault; one skill run | `HostProofs.tla` |
| `ComponentsProofs.tla` | what the run `components` checks, for all constants | rests on the three modules above it |

Definitions whose comment begins "Faulty" are not part of the models: each is a
plausible mistake in the definition after it, kept to show that a property
notices it. `PROJECT.json` pairs one with every property of a run; where a
property has several parts the other variants break the other parts.

### RegistrySync

`peers` is the coordinator's map (peer to entry), `entry` the entry objects, so
that a callback may still hold one the map has dropped; `round` is the set of
`runRound` activations with the phase each has reached: sending, hanging up
after too many strikes, or resolved and waiting for the `finally` block.
`kicks` are queued microtasks, `overflows` the overflow handlers awaiting their
hang-up, `tickWaits` and `stopWaits` the rounds `tick()` and `stop()` await.
`removed` is a history variable: the peers whose entry was deleted while a round
of theirs was running. One action per method and per continuation
(`OnPeerConnect`, `ReceiveMessage`, `BufferMessage`, `OverflowHangUp`,
`OverflowHungUp`, `SendOk`, `SendFail`, `HungUp`, `Finally`, `Kick`, `Tick`,
`TickDone`, `Republish`, `Stop`, `StopDone`). A converged round, for which
there is nothing to send, resolves at once but leaves its latch to `finally`,
as the comment at line 408 explains. Message contents and Automerge states are
abstracted to counts and to whether a frame in the buffer is one that
`receiveSyncMessage` throws on (`spoiled`). The adapter catches that throw for a
frame applied on arrival (`ReceiveMalformed`); in a round's `finally` nobody does
(`FinallyThrows`): the latch is released before it, but the frames behind it are
lost, the follow-up round is not queued and `tick()`, if it waits for the round,
rejects before it arms the next one. The rejection is unhandled, so Node ends
the process and the service manager starts another (`ProcessEnds`). `TickReturns`
says that nothing else ends the periodic loop.

### Mesh

Peer objects have identities (`Objects`) because `checkPeers` and the rollback
closure keep references over map changes. `AcceptMessage`, `ThrowMessage` and
`RejectMessage` are the whole handler, which attests (`MarkPeerIdVerified`),
resolves the key and verifies: a bad signature or an unknown sender is followed
by `Rollback`, while a key that cannot be parsed makes the check throw, and the
`catch` (agent-card.ts 382-385) leaves the binding. Which agentId a node
announces, which PeerID the announcement and the card name and which host it
calls from are chosen freely and independently of each other. `bound` is history:
for each entry the last binding that stayed, and how its message ended.

### Inbox

A message has a target address (`Uri`, with the host and node forms of
`spiffe-uri.ts` and an optional instance). A send is a call that stays
`pending` until the answer arrives or it fails; the request may be received
late or twice. A poller has timers, a cycle in flight and the fetched messages
it has still to hand over. It can be stopped, started and killed at any step.

### Onboarding

Handlers do not await, so a request is one step, and what splits it is a
failing write or the death of the process: `JoinCertFails`, `JoinSaveFails`,
`JoinCrashes` and their pairing counterparts are the ways the same handler can
end. SQLite statements that returned survive; `paired-peers.json` is written in
place and may be left unreadable, in which case the daemon starts with no
peers. `unsaved` remembers that the last save threw, `stale` that the last change did
not reach the TLS server, because of that or because its reload failed, which
`reloadTlsContext` and the notifier keep to themselves: until the next save,
reload or restart the map, the file and the server may differ, and the two trust
properties say that this is the only time they do. Outgoing connections keep the
CAs of the start (`outgoing`).

### Components that share no state

The remaining modules model parts of the daemon that meet only through calls
already in the model. They are composed in `MCComponents.tla`: `focus` names
the component a behaviour works on, the others rest. All their variables are in
one state so that one run checks them, and the view keeps only the component at
work. Interleaving them would multiply their states and show nothing about
either.

* **Tasks.** `task` is the table of `tasks.ts`, `call` what the caller of an
  execute request has been told, `handlers` the skills registered so far (late
  ones included). `ExecuteTask`, `Measured`, `HandlerReturns` and `HandlerThrows`
  are the pieces of `handleTaskRequest` between its awaits. The event bus and
  the audit log may throw: outside the `try`, after `accept`, the caller gets a
  500 without the task's id and the task stays accepted; inside it, after
  `complete`, the caller gets an error that names a completed task.
  `CallerTold` says what each answer does mean. The sweeper times out tasks that
  have a deadline; the executor creates its tasks without one, and `CallerTold`
  rests on that.
* **TaskQueue, TaskRouting.** `processNext` starts at most one task per call;
  `WorkConserving` says that is enough, except for a backlog older than
  `setExecutor`. Routing scores are the numbers of `task-router.ts`. An
  execution row is updated by compare-and-set on the state its writer last read.
* **Guards.** One clock, four independent guards. An envelope carries the
  lifetime its sender gave it, 0 for none, and the cache forgets after two
  minutes: `HandledOnce` says when a second copy is handled, and that a lifetime
  the cache covers leaves only a sender whose clock runs ahead. A peer going
  offline refills its bucket (`RemovePeer`), and `RateBounded` bounds every window
  without that.
* **Ingress.** A leg is one node's handling of the call: classified, gated,
  asked over the channels in turn, then run or forwarded to a node that does
  all of it again. Approval rows outlive the wait. Each node's replica names
  the provider freely, so replicas may disagree.
* **Policy, Orders.** The matrix is parsed and resolved as the code does it and
  compared with its reverse; of the gate rules the first that matches skill and requester decides.
  Orders are claimed by several consumers that crash and retry.
* **Capabilities, Skills.** Three nodes, one of them an old release whose
  gossip carries other owners' entries. The health monitor's checks overlap
  and outlive the registration they were started for. `resolver` is a run of
  `resolveInstallOrder`: its stack holds one frame per pending call of `visit`,
  and maps are walked in any order. What it returns, and the version order, are
  compared with their definitions over all graphs of three skills, all
  versions with short pre-releases and a text that is no version
  (`Unparsable`), which compares as equal to everything.
* **Peers, Discovery, Transport.** A peer's address may pass to another peer
  between connection and fetch. An address is a vector of
  bits, and a mask clears the last ones; the test built on it is compared with
  the prefix relation over all addresses of the width. Dials settle at any time.
* **Identity, Certificates.** Processes start at once and die between any two
  file operations; the certificates' start is a program counter over the writes
  of `loadOrCreateTlsBundle`. Issuance is by nonce and proof of possession.
* **Sessions, Stores, Sandbox.** `tick` serialises with the call before it,
  which three overlapping calls defeat: a line may be stored twice, never lost.
  `ForceRelease` is the administrator's release of an agent's branch; the agent is
  not told, so `CheckoutExcludes` excepts it (`ousted`) until it checks out again.
  The vault's passphrase comes from the environment of the start, or else from a
  keychain that answers errors like an empty entry, or a file. A start with
  another environment has another key, so `VaultReadable` speaks of the rows
  stored under the setting of the start that reads them. The events of a child process come in any order Node allows.

## Runs

| Run | Shows | Bounds | States |
|---|---|---|---|
| `registrysync` | safety of the coordinator | 1 peer, 2 entries, 2 rounds, a buffer of one frame, 2 strikes, generation 2 | 887 thousand |
| `registrysync_liveness` | buffered frames are applied, `tick` returns unless a malformed frame made a round throw, `stop` returns | 1 peer, 2 entries, 2 rounds, 1 strike, no overflow | 112 thousand |
| `registrysync_singleflight` | violation: two rounds of one peer at once | 3 entries, 3 rounds | |
| `registrysync_strikes` | violation: an abort of its own counts as the final timeout | | |
| `mesh` | the peer table | 2 PeerIDs, a legacy and a canonical agentId, 2 objects | 145 thousand |
| `mesh_rollback` | violation: a rejected message leaves a peer offline | | |
| `inbox` | message safety | 2 daemons, 2 messages, an instance poller | 122 thousand |
| `inbox_delivery` | delivery of a message unless newer ones keep coming in on top of it | messages without end under 2 ids, a list limit of 1 | 13 thousand |
| `inbox_instances` | violation: an instance address is refused | | |
| `peer_cache` | violation: a learned peer leaves the cache file early | 2 peers, in-memory lifetime 0, file lifetime 2 | |
| `components` | the components above, and that four of them implement `OneShot` | see `Components.cfg` | 505 thousand |
| `onboarding` | joins and pairings | 2 nodes, 2 tokens, 2 addresses (both pairs symmetric), 2 handshakes, 2 PIN attempts, 3 failures per address | 2.2 million |

The bounds are the smallest at which the cases the properties are about occur:
two nodes for one token; a round
that outlives its entry together with the round of the next entry; a buffer
with room for one frame and an overflow; a legacy entry and its canonical
successor; a stale handshake and the one that replaced it. The entries of two
peers do not touch each other in the coordinator, and the proofs cover any
number of them; one peer, with replaced and deleted entries, is where its races
are. In `components`: two tasks, four queue entries for two slots and
two places, envelopes that never expire, expire within the replay window and
after it, vault starts without a passphrase in the environment, with one of its
own and with the first generated one, three chain steps, three nodes for a forwarded call and a hop limit
of one, three gossiping nodes of which one relays, two starters with two starts
each, six keys for the certificates of repeated starts, three overlapping ticks,
clocks that run one step past the longest lifetime. Every action fires
in some passing run, and every property is broken by the faulty variant
`PROJECT.json` pairs it with. The invariants of `components` group the parts
that belong together; `AlgorithmsAreSound` holds those that compare a pure
algorithm with its definition (dependency order, version order, CIDR test,
address choice). Deadlock checking is off only where the system may
really stop (a stopped coordinator, exhausted bounds).

### What the violations say

* **Single flight.** The header of `registry-sync-coordinator.ts` (line 10)
  promises one running sync per peer, and lines 338-339 that the generation
  keeps an old round's `finally` away from a new entry. `createPeerEntry` (237)
  starts again at 1 when the entry was deleted, so after disconnect and
  reconnect the old round's `finally` (418-421) releases the new entry's latch.
  `SingleflightUntilRemoved`, which is proved, is what does hold.
* **Strikes.** Lines 11-12 speak of three timeouts in a row; lines 376-384 also
  count aborts the coordinator issued itself.
* **Rollback.** `mesh.ts` 51-57 calls the attestation transactional, superseded
  duplicates included; the rollback (554) puts those back with the status
  'offline' that `removePeer` gave them, and offline entries are not polled.
  Keys and bindings are restored (`RejectedLeavesBindings`).
* **Instances.** `inbox-api.ts` 215-217 says an instance address of this daemon
  resolves to loopback; with a canonical daemon identity it never does.
* **Peer cache.** `peer-cache.ts` 24 separates a 14-day lifetime on disk from
  the 15 minutes in memory, and `index.ts` 575-576 merges the loaded locators
  so that offline peers do not expire early. A peer learned since the start is
  in neither once `recordAuthenticatedSeen` has pruned it (`mesh.ts` 300-302),
  and the next flush (577) drops it. `FlushKeepsLoaded`, part of
  `NothingIsUndone`, is what does hold: the loaded ones stay.

Further differences between code and comments, without a run: `agent-card.ts`
326-329 says that an attestation changes nothing for good before the signature is
checked, but if the sender's card key cannot be parsed the check throws and the
`catch` (382-385) forgets the rollback (`ThrowMessage`; `VerifiedIsBound` allows
for these bindings, and for no others); `index.ts` 1484-1486 says that a pairing
updates the TLS context of the server and of the outgoing dispatcher, while only
the server is reloaded and the dispatcher keeps the bundle of the start (236-245;
`outgoing`), and `trust-store.ts` 97-101 and `index.ts` 669-671 still say that the
server, too, needs a restart; `session-watcher.ts`
104 and `session-events.ts` 12-13 speak of serialised, idempotent appends, while
three overlapping ticks or a crash store a line twice; `identity.ts` 193-196
rules out a mixed key pair, which two starters' interleaved writes can leave;
`vault.ts` 13 says sharing a credential needs confirmation, while a paired
peer's request is approved at once (`index.ts` 822) and an approval of a pending
request delivers nothing; a circuit that is half open admits any number of
probes; a wake inside the coalescing window has no trailing wake; the broadcast
branch of `inbox-api.ts` (190-205) is not reachable, since `normalizeAgentId`
rejects `*`; `token-store.ts` 236-237 says a failed join does not consume the
token, while `token-api.ts` 204-206 consumes it first on purpose;
`inbox-poller.ts` 63 speaks of keeping the order, while the list is newest first;
`replay.ts` 5-6 speaks of replays within an envelope's lifetime, while the cache
forgets after two minutes and the lifetime is the sender's own, 0 meaning that it
does not expire (`messages.ts` 325); `latestVersion` returns a version that does
not parse if it comes first, and a range of the form `>=` or of a single version
admits everything if it does not parse (`semver.ts` 38, 108-114).

### Refinement

`OneShot` says what a request to be settled once promises: nothing, open, one
verdict for good, several requests possibly moving in one step. `AnsweredOnce`
checks that four components implement it under their mappings: the task table
(the sweeper may settle many), the execution rows (two writers), the approval
rows (several channels, a timeout) and the order ledger (several consumers).
Each refinement is also proved step by step (`RequestProofs.tla`).

### Fairness

`RegistrySync` assumes that a settled promise's continuation runs and that
`send` and `hangUp` settle (libp2p bounds a dial, and the round's timer aborts
an open stream); it assumes nothing about connections or frames. `Mesh` assumes that
the heartbeat interval keeps firing and each probe ends (it has a 5 s timeout),
which `NoPhantomPeer` needs. `Inbox_delivery` assumes that armed timers
fire, that a cycle under way goes on, and that fetching, delivering and marking
read do not fail for ever. Senders may go on for ever (`EndlessSpec` gives the id of
a message that is done with to a new one), and then the list, newest first with
a limit, may never reach an old message: without its condition on newer
arrivals (`Overtakes`) `EventuallyDelivered` has a counterexample. The other runs check
safety only: `components` states no fairness, since a guard, a store or a start
promises nothing about when it is used.

## Proofs

Every theorem is checked by TLAPS and holds for every value of the constants
that meets the named assumption (`ASSUME`) of its module. The assumptions say
that limits and clocks are natural numbers, that a limit the code divides by or
counts to is not zero, and that a value standing for "nothing" is not one of the
real ones. The few that say more repeat relations between the code's constants:
a bucket forgotten as idle would have been full (`Guards`), a certificate lives
longer than its renewal margin (`Certificates`), a lock lasts (`Sessions`), a call may be
forwarded as often as the hop limit says (`Ingress`), the memory's lifetime of a
peer is at most the file's (`Peers`). TLC evaluates each of them in its run.

Nearly every invariant needs a strengthening that says what two pieces of state
have in common between the steps; TLC checked each of them before it was proved.

### `RegistrySyncProofs`

The coordinator's specification implies `TypeOK`, `LatchHasRound`,
`NoStrandedMessages`, `SingleflightUntilRemoved`, `StopQuiesces` (invariants)
and `NothingStartsAfterStop` (an action property). All follow from one
inductive invariant, `IInv` (theorem `Invariance`), which adds to them:

* `EntriesDistinct`: no two peers share an entry object; without it, a write
  through one peer's reference could change another's latch;
* `OldRoundsAreStale`: for a peer whose entry was never deleted, a running round
  is either the one its entry is latched on, or has a smaller generation and
  has been aborted. This is what the generation token is for. It is what makes
  the `finally` of an old round harmless, and it fails, as the violation run
  shows, for a peer whose entry was deleted;
* `StoppedIsAborted`: after `stop()` was called, what still sends is aborted;
  needed because `stop()` resolves several steps later.

### `OnboardingProofs`, `MeshProofs`, `InboxProofs`

All safety properties of the runs `onboarding`, `mesh` and `inbox`, action
properties included.

* *Onboarding.* `AdmittedIsWritten` (who came in is the user of a token that is
  not revoked) carries `TokenAdmitsOne`, `RevokedAdmittedNobody` and
  `JoinedIsAccounted` over every failed write and crash; `GuessesAreCounted`
  and `KeyIsLatest` tie the pairing session to its counters and its handshake.
* *Mesh.* `TypeOK` is not inductive: a missed beat stays within the threshold
  only because an entry that is online or being probed is below it
  (`BelowThreshold`) and has one probe at a time (`ProbedOnce`). The two action
  properties compare the table before a message with the table after attesting,
  verifying and rolling back.
* *Inbox.* The invariant follows a message from the call (`RowHasCall`,
  `ReplyHasCall`) through the row and the cycle's queue (`QueueAddressed`) to
  the session (`HandedAddressed`, `MarkDelivered`), since what is handed over is
  decided several steps before it is marked read. The set of messages is not
  bounded.

### `RequestProofs`

* The four refinements of `OneShot`: an execution row needs `ViewIsValid` (what
  a writer is about to write is a transition from what it read, or the
  compare-and-set fails); an order claim needs `HeldByOne`.
* `TaskOutcomesAreTrue` rests on the fact that an execute request's task has no
  deadline. `QueueIsFair` uses the number of tasks ever given to the queue as
  the clock behind `enqueuedAt`; that makes the sorted insertion keep arrival
  order within a priority. `ChainIsSound` follows the last called step;
  `BestIsUndominated` is a fact about the scores.
* `GatedCallsAreGoverned`: each leg of a forwarded call is there because the one
  before forwarded it, and what ran was classified, asked for and recorded.
* `PolicyIsOrderFree`: a parsed matrix has one entry per key, so the search for
  the most specific entry has one answer in any order.
* `WakesAreAWindowApart`: what the coalescer has forgotten is a window old.

### `NetworkProofs`

* `GuardsGuarantee`: an envelope once handled is in the cache or out of it for
  longer than it lives; from every request on, what a bucket let through comes
  from its size and the refills since (`TokensAreAccounted`).
* `KeyIsOwnersHolds`: a learner's row keeps the name it was started for, so the
  card of whoever answers now is compared with it. With it, the reconciler's
  and the retried request's invariants.
* `DialsAndStreamsAreCounted`: the counter of a protocol is the number of its
  open streams, by finite cardinality; every stream opened by us is named
  (`StreamsAreNamed`), so a second close changes nothing.
* `IdentitiesHold`: the first canonical SAN is the only one, hence the one the
  node emits; a host without a pin has accepted no certificate with exactly one
  identity, which is what makes the first such pin hold backwards too; the
  election depends only on the set of members seen.
* `CidrIsPrefixHolds`: the shifted mask is the prefix test, at prefix 0 and at
  the full width too, for addresses of any width. `NodesAreFoundWhereAllowed`
  follows it from the policy to what a browser takes.

### `HostProofs`

* `AuditIsChainedHolds`, `VaultKeepsItsWord` (a row is under the passphrase of the
  environment it was stored in, and for none, as long as no keychain lapsed, under
  the one kept), `PeerIdIsStableHolds` (who is past the
  lock holds it, and who creates has seen no file), `ServedIsCoherentHolds` (at
  each write of a start, what is on disk fits what the start has read),
  `IssuedIsProvenHolds` (a nonce of a certificate is spent).
* Agents, branch locks and session lines: the table and what an agent was told
  agree (`AgentIInv`); a holder that believes in its lock and was not ousted has it (`LockIInv`);
  every line below the offset is stored or in the hands of a tick (`WatchIInv`).
* `SkillRunsContained`: normalising a path leaves no `..`, so a normalised path
  with the directory's prefix lies inside it, for paths of any length.
* `SkillsStayHealthy`: the entry's counters are the lengths of the run its
  results end with (`Trailing`), from which the end of the last completed run
  can be followed result by result (`LastEndGrows`), for every debounce.
* `InstallOrderIsSoundHolds`: each frame of the stack waits for the one above it,
  and what has been done or is being done is what the keys need. A dependency on
  the stack is therefore a cycle, and a cycle leaves no order: of two skills on
  it, each would have to come first.
* `VersionsAreTotallyOrdered`, for pre-releases of any length: the first
  difference of two sequences of identifiers and that of the next pair decide
  how the outer two compare. It is an order of the versions that parse; any other
  compares as equal to all. The fold `latestVersion` returns the greatest of its
  versions (`LatestIsGreatest`) in whatever order they come
  (`LatestIgnoresOrder`), whatever does not parse among them, unless that comes
  first: then it is returned.
* `AvailabilityIsDirectHolds`: what a node accepts from a message is its
  sender's own entry, with any set of relays.

### `ComponentsProofs`

A step of the composition is a step of one component or leaves its variables
alone (a lemma per component), so the inductive invariants above lift to the
specification TLC runs. The agents' table and the branch lock share a clock,
which either may advance; their step lemmas allow for that. The theorems state
the compound properties of the run themselves: `TasksAreServed`,
`CallsAreGoverned` (with its part `GuardsHold`), `SkillsAreTracked`, `PeersAreKept`, `IdentityIsCoherent`,
`HostKeepsItsWord`, `AnsweredOnce`, `NothingIsUndone`, `AlgorithmsAreSound`, and
`ComponentsTypeOK` with the bounds of the run: a host never has more agents than
its limit, the beat stays between its shortest and longest interval (`BeatBounds`
needs that a power of two is at least one), the audit chain, the vault and the
session's tail keep theirs.

### What the proofs changed in the models

Where two arms of a `CASE` could both hold, the code's order of tests is now an
`IF` chain (`Guards`, `Ingress`, `Skills`, `Stores`); the first canonical SAN and the
normal form of a path are defined by what they are instead of by a search;
`visit` is a machine with a stack, addresses are vectors of bits and selected
interfaces sets of positions, so that the theorems about them hold for any
number of skills and any width. `Discovery` gained the second half of the
receiver's gate: a canonical sender is refused without an attesting issuer, and
`EmittedIsAccepted` now says also under which identity a receiver verifies it.

### Only model-checked

Every invariant and every action property of a passing run is a theorem. What
stays with TLC is liveness (`BufferedIsApplied`, `TickReturns`, `StopResolves`,
`NoPhantomPeer`, `EventuallyDelivered`): fairness is out of the prover's reach.

No theorem uses induction over data, which the installed provers cannot
instantiate. A fold or a recursive function is reasoned about by its least
counterexample instead (`FoldExists`, `Pow2Exists`, `LatestIsGreatest`), and the
recursion of `visit` is a stack, so that an invariant can speak of it.

## Plan

`Mesh` composed with `Capabilities`: the online and offline events that add and
remove entries, and the missing online event of `confirmPeerDiscovery`, one of the
three hazards that no property covers (`PROJECT.json` gives the reasons).

## Not modelled

Cryptography (SPAKE2, AES-GCM, NaCl, X.509, signatures) is reduced to who can
make what. Automerge's merge, SQLite, libp2p, Telegram and Node's child
processes are external: the models allow what they may do. User interfaces
(command line, dashboard, observer), logging, configuration parsing and the
operating-system integration have no protocol to check. Parts without a caller
in the running daemon are left out (`config-revisions.ts`, `config-rollback.ts`,
`shamir.ts`, the import of peers' audit events), except where they are the
subject of a documented contract (coordinator, partition detector, matrix
loader, gate rules, session locks, CRL). Schema migrations, row retention and
package unpacking are sequential code over one store. Every component is listed
in `PROJECT.json`, with the reason where it is not modelled or only partly.
