-------------------------- MODULE ComponentsProofs --------------------------
(***************************************************************************)
(* What the run Components checks, for every value of the constants.  The  *)
(* components share no state, so a step of the whole is a step of one of   *)
(* them or leaves it alone, and what is proved of a component's own steps  *)
(* holds here.                                                             *)
(***************************************************************************)
EXTENDS MCComponents, NetworkProofs, RequestProofs, HostProofs

LEMMA InitParts ==
    Init => /\ TaskInit /\ QueueInit /\ RoutingInit /\ GuardInit /\ IngressInit /\ PolicyInit
            /\ OrderInit /\ WakeInit /\ CapInit /\ SkillsInit /\ PeersInit /\ DiscoveryInit
            /\ IdentityInit /\ TransportInit /\ CertificatesInit /\ SessionsInit /\ SandboxInit /\ StoresInit
  BY DEF Init

LEMMA GuardsRest == [Next]_vars => [GuardNext]_guardVars
  BY DEF Next, vars, OthersRest, GuardNext

LEMMA TasksRest == [Next]_vars => [TaskNext]_taskVars
  BY DEF Next, vars, OthersRest

LEMMA QueueRests == [Next]_vars => [QueueNext]_queueVars
  BY DEF Next, vars, OthersRest

LEMMA ChainRests == [Next]_vars => [ChainNext]_<<chain, offers>>
  <1>1. ExecutionNext => UNCHANGED <<chain, offers>>
    BY DEF ExecutionNext, Create, Transition, Update
  <1> QED BY <1>1 DEF Next, vars, OthersRest, routingVars

LEMMA ExecutionsRest == [Next]_vars => [ExecutionNext]_executionVars
  <1>1. ChainNext => UNCHANGED executionVars
    BY DEF ChainNext, StartChain, Discover, StepSucceeds, StepFails, StepThrows, executionVars
  <1> QED BY <1>1 DEF Next, vars, OthersRest, routingVars, executionVars

LEMMA IngressRests == [Next]_vars => [IngressNext]_ingressVars
  BY DEF Next, vars, OthersRest

LEMMA PolicyRests == [Next]_vars => [PolicyNext]_policyVars
  BY DEF Next, vars, OthersRest, PolicyNext

LEMMA OrdersRest == [Next]_vars => [OrderNext]_orderVars /\ [WakeNext]_wakeVars
  BY DEF Next, vars, OthersRest, ordersVars, orderVars, wakeVars

LEMMA KeepersRest ==
    [Next]_vars => [ActivationNext]_activationVars /\ [LifeNext]_lifeVars /\ [LearnNext]_learnVars
  <1> SUFFICES ASSUME [Next]_vars
               PROVE  [ActivationNext]_activationVars /\ [LifeNext]_lifeVars /\ [LearnNext]_learnVars
    OBVIOUS
  <1>1. [ActivationNext]_activationVars
    BY DEF Next, vars, OthersRest
  <1>2. [LifeNext]_lifeVars
    BY DEF Next, vars, OthersRest, skillsVars, lifeVars
  <1>3. [LearnNext]_learnVars
    BY DEF Next, vars, OthersRest, peersVars, learnVars
  <1> QED BY <1>1, <1>2, <1>3

LEMMA PeersRest ==
    [Next]_vars => /\ [ReconcilerNext]_reconciler /\ [ClientNext]_request
                   /\ [NetNext \/ InputNext \/ PinNext \/ ViewNext]_discoveryVars
                   /\ [TransportNext]_p2pVars
  <1> SUFFICES ASSUME [Next]_vars
               PROVE  /\ [ReconcilerNext]_reconciler /\ [ClientNext]_request
                      /\ [NetNext \/ InputNext \/ PinNext \/ ViewNext]_discoveryVars
                      /\ [TransportNext]_p2pVars
    OBVIOUS
  <1>1. [ReconcilerNext]_reconciler
    BY DEF Next, vars, OthersRest, peersVars
  <1>2. [ClientNext]_request
    BY DEF Next, vars, OthersRest, peersVars
  <1>3. [NetNext \/ InputNext \/ PinNext \/ ViewNext]_discoveryVars
    BY DEF Next, vars, OthersRest
  <1>4. [TransportNext]_p2pVars
    BY DEF Next, vars, OthersRest
  <1> QED BY <1>1, <1>2, <1>3, <1>4

LEMMA SkillsRest ==
    [Next]_vars => [CapNext]_capVars /\ [MonitorNext]_monitorVars /\ [DiskNext]_disk
  <1> SUFFICES ASSUME [Next]_vars
               PROVE  [CapNext]_capVars /\ [MonitorNext]_monitorVars /\ [DiskNext]_disk
    OBVIOUS
  <1>1. [CapNext]_capVars
    BY DEF Next, vars, OthersRest
  <1>2. [MonitorNext]_monitorVars
    BY DEF Next, vars, OthersRest, skillsVars, monitorVars
  <1>3. [DiskNext]_disk
    BY DEF Next, vars, OthersRest, skillsVars
  <1> QED BY <1>1, <1>2, <1>3

LEMMA AlgorithmsRest == [Next]_vars => [ResolverNext]_resolver /\ [PickVersions]_versions
  <1> SUFFICES ASSUME [Next]_vars PROVE [ResolverNext]_resolver /\ [PickVersions]_versions
    OBVIOUS
  <1>1. [ResolverNext]_resolver
    BY DEF Next, vars, OthersRest, skillsVars
  <1>2. [PickVersions]_versions
    BY DEF Next, vars, OthersRest, skillsVars
  <1> QED BY <1>1, <1>2

LEMMA StoresRest == [Next]_vars => [AuditNext]_auditVars /\ [VaultNext]_vaultVars
  <1> SUFFICES ASSUME [Next]_vars PROVE [AuditNext]_auditVars /\ [VaultNext]_vaultVars
    OBVIOUS
  <1>1. [AuditNext]_auditVars
    BY DEF Next, vars, OthersRest, storesVars, auditVars
  <1>2. [VaultNext]_vaultVars
    BY DEF Next, vars, OthersRest, storesVars, vaultVars
  <1> QED BY <1>1, <1>2

LEMMA IdentityRests ==
    [Next]_vars => [IdentityNext]_idVars /\ [TlsNext]_tlsVars /\ [IssueNext]_issueVars
  <1> SUFFICES ASSUME [Next]_vars
               PROVE  [IdentityNext]_idVars /\ [TlsNext]_tlsVars /\ [IssueNext]_issueVars
    OBVIOUS
  <1>1. [IdentityNext]_idVars
    BY DEF Next, vars, OthersRest
  <1>2. [TlsNext]_tlsVars
    BY DEF Next, vars, OthersRest, certVars, tlsVars
  <1>3. [IssueNext]_issueVars
    BY DEF Next, vars, OthersRest, certVars, issueVars
  <1> QED BY <1>1, <1>2, <1>3

\* The agent table and the branch lock read one clock, which either advances.
LEMMA SessionsRest ==
    [Next]_vars => /\ AgentIInv => AgentIInv'
                   /\ AgentIInv /\ AgentsFit => AgentsFit'
                   /\ LockIInv => LockIInv'
                   /\ [WatchNext]_watchVars /\ [BeatNext]_beat /\ [SandboxNext]_sandbox
  <1> SUFFICES ASSUME [Next]_vars
               PROVE  /\ AgentIInv => AgentIInv'
                      /\ AgentIInv /\ AgentsFit => AgentsFit'
                      /\ LockIInv => LockIInv'
                      /\ [WatchNext]_watchVars /\ [BeatNext]_beat /\ [SandboxNext]_sandbox
    OBVIOUS
  <1>1. [WatchNext]_watchVars
    BY DEF Next, vars, OthersRest, sessionVars, watchVars
  <1>2. [SandboxNext]_sandbox
    BY DEF Next, vars, OthersRest
  <1>3. (LockNext \/ AgentNext) => ClockOnly
    BY DEF LockNext, LockTimePasses, Checkout, ReleaseBranch, ForceRelease, AgentNext, RegisterAgent,
           HeartbeatAgent, UnregisterAgent, SweepAgents, MailChanges, AgentTime, ClockOnly
  <1>4. AgentMoves
    <2>1. \/ AgentNext
          \/ LockNext /\ UNCHANGED <<agentTable, mail, lastWoken, told>>
          \/ UNCHANGED <<agentClock, agentTable, mail, lastWoken, told>>
      <3>1. CASE UNCHANGED vars
        BY <3>1 DEF vars, sessionVars
      <3>2. CASE Next
        <4>1. \/ AgentNext
              \/ LockNext /\ OthersRest("locks")
              \/ \E name \in {"tasks", "queue", "routing", "guards", "ingress", "policy", "orders", "wake",
                              "capabilities", "activation", "monitor", "life", "disk", "resolver",
                              "versions", "learn", "reconciler", "client", "discovery", "identity",
                              "tls", "issue", "crl", "watch", "beat", "sandbox", "transport",
                              "audit", "vault"} : OthersRest(name)
          BY <3>2 DEF Next
        <4> QED BY <4>1 DEF OthersRest
      <3> QED BY <3>1, <3>2
    <2> QED BY <1>3, <2>1 DEF AgentMoves, ClockOnly
  <1>5. LockMoves
    <2>1. \/ LockNext
          \/ AgentNext /\ UNCHANGED <<branch, believed, ousted>>
          \/ UNCHANGED <<agentClock, branch, believed, ousted>>
      <3>1. CASE UNCHANGED vars
        BY <3>1 DEF vars, sessionVars
      <3>2. CASE Next
        BY <3>2 DEF Next, OthersRest
      <3> QED BY <3>1, <3>2
    <2> QED BY <1>3, <2>1 DEF LockMoves, ClockOnly
  <1>6. [BeatNext]_beat
    BY DEF Next, vars, OthersRest, sessionVars
  <1> QED BY <1>1, <1>2, <1>4, <1>5, <1>6, AgentStep, AgentsFitStep, LockStep

\* The guards bound what they are there to bound, whatever the limits, windows
\* and lifetimes, none included: an envelope's second handling, the rate of an
\* address in every window without a removal of its peer, the failures of a
\* closed circuit, a budget that pruning leaves as it was (replay.ts, ratelimit.ts, circuit-breaker.ts, budget-guard.ts).
THEOREM GuardsHoldAlways == Spec => []GuardsHold
  <1>1. Init => GuardIInv
    BY InitParts, GuardInitIInv
  <1>2. GuardIInv /\ [Next]_vars => GuardIInv'
    BY GuardsRest, GuardStep
  <1>3. GuardIInv => GuardsHold
    BY GuardGuarantees DEF GuardsHold
  <1> QED BY <1>1, <1>2, <1>3, PTL DEF Spec

\* A caller is told what its task came to, the queue keeps priority and arrival
\* and wastes no slot, a chain stops at its first failure, and the router passes
\* over no better peer, with queues, chains and meshes of any size
\* (task-executor.ts, task-queue.ts, task-chain.ts, task-router.ts).
THEOREM TasksAreServedAlways == Spec => []TasksAreServed
  <1> DEFINE I == TaskIInv /\ QueueIInv /\ ChainIInv
  <1>1. Init => I
    BY InitParts, TaskInitIInv, QueueInitIInv, ChainInitIInv
  <1>2. I /\ [Next]_vars => I'
    BY TasksRest, QueueRests, ChainRests, TaskStep, QueueStep, ChainStep
  <1>3. I => TasksAreServed
    BY QueueGuarantees, ChainStops, RouterPrefers DEF TaskIInv, TasksAreServed
  <1> QED BY <1>1, <1>2, <1>3, PTL DEF Spec

\* Tasks, executions, approvals and order claims implement the one-shot request
\* of OneShot, all of them at once: opened once, settled once, and settled for
\* good (tasks.ts, execution-state.ts, approvals.ts, order-ledger-protocol.ts).
THEOREM EachIsAnsweredOnce == Spec => AnsweredOnce
  <1>1. Spec => TaskSpec
    BY InitParts, TasksRest, PTL DEF Spec, TaskSpec
  <1>2. Spec => RoutingInit /\ [][ExecutionNext]_executionVars
    BY InitParts, ExecutionsRest, PTL DEF Spec
  <1>3. Spec => IngressSpec
    BY InitParts, IngressRests, PTL DEF Spec, IngressSpec
  <1>4. Spec => OrderInit /\ [][OrderNext]_orderVars
    BY InitParts, OrdersRest, PTL DEF Spec
  <1> QED BY <1>1, <1>2, <1>3, <1>4, TasksAreOneShot, ExecutionsAreOneShot,
             GatedCallsAreGoverned, OrdersRunAtMostOnce, PTL DEF AnsweredOnce

\* No call gets past its guards and its gate, in a mesh of any size and with rules,
\* matrices and windows of any length: the compound invariant of the run.
THEOREM CallsAreGovernedAlways == Spec => []CallsAreGoverned
  <1> DEFINE I == GuardIInv /\ IngressIInv /\ PolicyIInv /\ OrderIInv /\ WakeIInv
  <1>1. Init => I
    BY InitParts, GuardInitIInv, IngressInitIInv, PolicyInitIInv, OrderInitIInv, WakeInitIInv
  <1>2. I /\ [Next]_vars => I'
    BY GuardsRest, IngressRests, PolicyRests, OrdersRest, GuardStep, IngressStep, PolicyStep, OrderStep, WakeStep
  <1>3. GuardIInv => GuardsHold
    BY GuardGuarantees DEF GuardsHold
  <1>4. I => CallsAreGoverned
    BY <1>3, IngressGuarantees, PolicyGuarantees DEF OrderIInv, WakeIInv, CallsAreGoverned
  <1> QED BY <1>1, <1>2, <1>4, PTL DEF Spec

\* A skill's availability is its owner's word, its health turns only after the
\* debounce and keeps being checked, and a failed install leaves the old skill
\* or its backup: the compound invariant of the run (registry.ts, gossip.ts,
\* skill-health-monitor.ts, skill-rollback.ts).
THEOREM SkillsAreTrackedAlways == Spec => []SkillsAreTracked
  <1> DEFINE I == CapIInv /\ MonitorIInv /\ DiskIInv
  <1>1. Init => I
    BY InitParts, CapInitIInv, MonitorInitIInv, DiskInitIInv DEF SkillsInit
  <1>2. I /\ [Next]_vars => I'
    BY SkillsRest, CapStep, MonitorStep, DiskStep
  <1>3. I => SkillsAreTracked
    BY DEF CapIInv, MonitorIInv, DiskIInv, SkillsAreTracked
  <1> QED BY <1>1, <1>2, <1>3, PTL DEF Spec

\* Peers are kept, dialled and trusted as who they are, with any number of peers,
\* addresses, hosts and streams: the compound invariant of the run
\* (inbound-peer-learner.ts, static-peer-reconciler.ts, peer-identity.ts,
\* server-identity-pin.ts, coordinator.ts, libp2p-runtime.ts).
THEOREM PeersAreKeptAlways == Spec => []PeersAreKept
  <1> DEFINE I == LearnIInv /\ ReconcilerIInv /\ ClientIInv /\ DiscoveryIInv /\ TransportIInv
  <1>1. Init => I
    BY InitParts, LearnInitIInv, ReconcilerInitIInv, ClientInitIInv, DiscoveryInitIInv, TransportInitIInv
  <1>2. I /\ [Next]_vars => I'
    BY KeepersRest, PeersRest, LearnStep, ReconcilerStep, ClientStep, DiscoveryStep, TransportStep
  <1>3. LearnIInv => KeyIsOwners
    BY DEF LearnIInv
  <1>4. DiscoveryIInv => EmittedIsAccepted /\ PinHolds /\ ElectionAgrees
    BY DEF DiscoveryIInv, ElectionAgrees, elect
  <1>5. I => PeersAreKept
    BY <1>3, <1>4 DEF ReconcilerIInv, ClientIInv, TransportIInv, PeersAreKept
  <1> QED BY <1>1, <1>2, <1>5, PTL DEF Spec

\* The algorithms compute what they are named for on every input, not only on the
\* bounded ones of the run: install orders of any graph, versions with numbers and
\* pre-releases of any length and among them some that do not parse, prefixes of addresses of any width, and networks
\* of any policy (skill-deps.ts, semver.ts, discovery-policy.ts, discovery.ts).
THEOREM AlgorithmsAreSoundAlways == Spec => []AlgorithmsAreSound
  <1> DEFINE I == ResolverIInv /\ VersionsIInv /\ DiscoveryIInv
  <1>1. Init => I
    BY InitParts, ResolverInitIInv, VersionsInitIInv, DiscoveryInitIInv DEF SkillsInit
  <1>2. I /\ [Next]_vars => I'
    BY AlgorithmsRest, PeersRest, ResolverStep, VersionsStep, DiscoveryStep
  <1>3. DiscoveryIInv => FoundWhereAllowed
    BY DEF DiscoveryIInv, NetIInv, FoundWhereAllowed
  <1>4. I => AlgorithmsAreSound
    BY <1>3, ResolverGuarantees, VersionsGuarantees, CidrIsPrefixHolds DEF AlgorithmsAreSound
  <1> QED BY <1>1, <1>2, <1>4, PTL DEF Spec

\* However starts race, crash and repeat, a daemon keeps one transport identity,
\* serves a certificate that fits its key, name and CA, is left without one only
\* if it has no CA of its own, and signs a certificate only on a proof made for
\* it, with any number of starters, keys, days and nonces (libp2p-identity.ts,
\* tls.ts, cert-issuer.ts, cert-pop.ts).
THEOREM IdentityIsCoherentAlways == Spec => []IdentityIsCoherent
  <1> DEFINE I == IdentityIInv /\ TlsIInv /\ IssueIInv
  <1>1. Init => I
    BY InitParts, IdentityInitIInv, TlsInitIInv, IssueInitIInv
  <1>2. I /\ [Next]_vars => I'
    BY IdentityRests, IdentityStep, TlsStep, IssueStep
  <1>3. I => IdentityIsCoherent
    BY DEF IdentityIInv, TlsIInv, IssueIInv, IdentityIsCoherent
  <1> QED BY <1>1, <1>2, <1>3, PTL DEF Spec

\* What a host's agents rely on survives, with any number of agents, lines,
\* credentials and boots: a beating agent stays registered, a branch has one
\* holder except for agents whose lock was released by an administrator, no
\* session line is lost, the audit log is one chain, credentials stay readable to
\* starts with the passphrase setting they were stored under and go out approved, and a skill runs inside its directory, watched
\* (agent-registry.ts, session-checkout.ts, session-watcher.ts, audit.ts,
\* vault.ts, sandbox.ts).
THEOREM HostKeepsItsWordAlways == Spec => []HostKeepsItsWord
  <1> DEFINE I == /\ AgentIInv /\ LockIInv /\ WatchIInv
                  /\ AuditIInv /\ VaultIInv /\ SandboxIInv
  <1>1. Init => I
    BY InitParts, AgentInitIInv, LockInitIInv, WatchInitIInv, AuditInit, VaultInit, SandboxInitIInv
  <1>2. I /\ [Next]_vars => I'
    BY SessionsRest, StoresRest, WatchStep, AuditStep, VaultStep, SandboxStep
  <1>3. AuditIInv => AuditIsChained
    BY DEF AuditIInv
  <1>4. VaultIInv => VaultReadable /\ DisclosureIsApproved
    BY ReadableByKey
  <1>5. I => HostKeepsItsWord
    BY <1>3, <1>4, AgentsStay, LocksExclude, LinesAreKept, SandboxGuarantees DEF HostKeepsItsWord
  <1> QED BY <1>1, <1>2, <1>5, PTL DEF Spec

\* No step undoes what must stay: a revocation within its retention, a skill in
\* use under garbage collection, a peer loaded at boot under a flush of the
\* cache, and the expiry of a credential (capability-activation.ts,
\* skill-lifecycle.ts, peer-cache.ts, vault.ts).
THEOREM NothingIsUndoneAlways == Spec => NothingIsUndone
  <1> DEFINE I == ActivationTypeOK /\ LifeTypeOK /\ VaultIInv
  <1>1. Init => I
    BY InitParts, ActivationInit, LifeInits, VaultInit DEF SkillsInit
  <1>2. I /\ [Next]_vars => I'
    BY KeepersRest, StoresRest, ActivationStep, LifeStep, VaultStep
  <1>3. I /\ [Next]_vars =>
          \/ \A o \in CapOwners : activation[o] = "revoked" =>
                \/ activation'[o] = "revoked"
                \/ activation'[o] = "none" /\ rowClock - revokedAt[o] > Retention
          \/ UNCHANGED activationVars
    BY KeepersRest, RevokedStaysStep DEF RevokedStays
  <1>4. I /\ [Next]_vars =>
          \/ life # NoLife /\ life' = NoLife => life.status # "active"
          \/ UNCHANGED lifeVars
    BY KeepersRest, LifeStep DEF SparesActive
  <1>5. [Next]_vars =>
          \/ \A p \in KnownPeers :
                cacheFile' # cacheFile /\ bootTargets[p] # NoLocator => cacheFile'[p] # NoLocator
          \/ UNCHANGED learnVars
    BY KeepersRest, FlushStep DEF LoadedStays
  <1>6. I /\ [Next]_vars =>
          \/ \A r \in SecretIds :
                secretRequests'[r].answer = "approved" /\ secretRequests[r].answer # "approved" =>
                    LET row == credentials[secretRequests'[r].name]
                    IN  row # NoRow /\ (row.expires = 0 \/ row.expires >= vaultClock)
          \/ UNCHANGED storesVars
    BY StoresRest, VaultStep DEF DisclosesLive
  <1>7. Spec => RevokedIsKept
    BY <1>1, <1>2, <1>3, PTL DEF Spec, RevokedIsKept
  <1>8. Spec => GcSparesActive
    BY <1>1, <1>2, <1>4, PTL DEF Spec, GcSparesActive
  <1>9. Spec => FlushKeepsLoaded
    BY <1>5, PTL DEF Spec, FlushKeepsLoaded
  <1>10. Spec => NothingExpiredIsDisclosed
    BY <1>1, <1>2, <1>6, PTL DEF Spec, NothingExpiredIsDisclosed
  <1> QED BY <1>7, <1>8, <1>9, <1>10 DEF NothingIsUndone

\* What the components rest on, in three parts: what serves calls, what keeps
\* peers and identities, and what a host keeps for its agents.
CallsIInv ==
    /\ TaskIInv /\ QueueIInv /\ ChainIInv /\ ExecutionIInv /\ GuardIInv /\ IngressIInv
    /\ PolicyIInv /\ OrderIInv /\ WakeIInv
MeshIInv ==
    /\ LearnIInv /\ ReconcilerIInv /\ ClientIInv /\ DiscoveryIInv /\ TransportIInv
    /\ IdentityIInv /\ TlsIInv /\ IssueIInv /\ CapIInv /\ ActivationTypeOK
KeptIInv ==
    /\ MonitorIInv /\ MonitorBounds /\ LifeTypeOK /\ DiskIInv /\ ResolverIInv /\ VersionsIInv
    /\ AgentIInv /\ AgentsFit /\ LockIInv /\ WatchIInv /\ WatchBounds /\ BeatBounds /\ SandboxIInv
    /\ AuditIInv /\ AuditBounds /\ VaultIInv /\ VaultBounds

LEMMA CallsHaveTypes ==
    CallsIInv => /\ TaskTypeOK /\ QueueTypeOK /\ RoutingTypeOK /\ GuardTypeOK /\ IngressTypeOK
                 /\ PolicyTypeOK /\ OrdersTypeOK
  <1> SUFFICES ASSUME CallsIInv
               PROVE  /\ TaskTypeOK /\ QueueTypeOK /\ RoutingTypeOK /\ GuardTypeOK /\ IngressTypeOK
                      /\ PolicyTypeOK /\ OrdersTypeOK
    OBVIOUS
  <1>1. TaskTypeOK /\ GuardTypeOK
    BY DEF CallsIInv, TaskIInv, GuardIInv
  <1>2. QueueTypeOK
    BY DEF CallsIInv, QueueIInv, QueueTypeOK
  <1>3. RoutingTypeOK
    BY DEF CallsIInv, ChainIInv, ExecutionIInv, ExecutionStates, RoutingTypeOK
  <1>4. IngressTypeOK
    BY DEF CallsIInv, IngressIInv, LegRecord, Stages, ApprovalRows, Waiters, IngressTypeOK
  <1>5. PolicyTypeOK
    <2>1. Len(DefaultRules) = 3
      BY DEF DefaultRules
    <2> QED BY <2>1 DEF CallsIInv, PolicyIInv, RulesEndInDefaults, PolicyTypeOK
  <1>6. OrdersTypeOK
    BY DEF CallsIInv, OrderIInv, WakeIInv, Holder, OrdersTypeOK
  <1> QED BY <1>1, <1>2, <1>3, <1>4, <1>5, <1>6

LEMMA MeshHasTypes ==
    MeshIInv => /\ PeersTypeOK /\ DiscoveryTypeOK /\ TransportTypeOK /\ IdentityTypeOK
                /\ CertificatesTypeOK /\ CapTypeOK
  <1> SUFFICES ASSUME MeshIInv
               PROVE  /\ PeersTypeOK /\ DiscoveryTypeOK /\ TransportTypeOK /\ IdentityTypeOK
                      /\ CertificatesTypeOK /\ CapTypeOK
    OBVIOUS
  <1>1. PeersTypeOK
    BY DEF MeshIInv, LearnIInv, LearnerRow, ReconcilerIInv, ClientIInv, PeersTypeOK
  <1>2. DiscoveryTypeOK
    <2>1. net.state \in {"start", "configured", "refused", "up", "published", "browsed"}
      BY DEF MeshIInv, DiscoveryIInv, NetIInv
    <2> QED BY <2>1 DEF MeshIInv, DiscoveryIInv, DiscoveryTypeOK
  <1>3. TransportTypeOK /\ IdentityTypeOK
    BY DEF MeshIInv, TransportIInv, IdentityIInv
  <1>4. CertificatesTypeOK
    BY DEF MeshIInv, TlsIInv, TlsTypes, BootType, BootPcs, IssueIInv, CertificatesTypeOK
  <1>5. CapTypeOK
    <2>1. \A m \in wire : m.kind \in {"sync", "announce"} /\ m.from \in CapNodes /\ m.to \in CapNodes
      <3>1. \A m \in SyncMsg : m.kind = "sync" /\ m.from \in CapNodes /\ m.to \in CapNodes
        BY DEF SyncMsg
      <3>2. \A m \in AnnounceMsg : m.kind = "announce" /\ m.from \in CapNodes /\ m.to \in CapNodes
        BY CapAssumption DEF AnnounceMsg
      <3>3. wire \subseteq SyncMsg \cup AnnounceMsg
        BY DEF MeshIInv, CapIInv
      <3> QED BY <3>1, <3>2, <3>3
    <2> QED BY <2>1 DEF MeshIInv, CapIInv, ActivationTypeOK, CapTypeOK
  <1> QED BY <1>1, <1>2, <1>3, <1>4, <1>5

\* A sequence whose entries lie in a set is a sequence over that set.
LEMMA SeqNarrows ==
  ASSUME NEW S, NEW T, NEW s \in Seq(T), \A i \in 1..Len(s) : s[i] \in S
  PROVE  s \in Seq(S)
  OBVIOUS

LEMMA KeptHasTypes == KeptIInv => SkillsTypeOK /\ SessionsTypeOK /\ SandboxTypeOK /\ StoresTypeOK
  <1> SUFFICES ASSUME KeptIInv PROVE SkillsTypeOK /\ SessionsTypeOK /\ SandboxTypeOK /\ StoresTypeOK
    OBVIOUS
  <1>1. SkillsTypeOK
    BY DEF KeptIInv, MonitorIInv, MonitorBounds, LifeTypeOK, DiskIInv, ResolverIInv, VersionsIInv, SkillsTypeOK
  <1>2. SessionsTypeOK
    <2>1. \A a \in Agents : agentTable[a].type \in AgentTypes \cup {"none"}
      BY DEF KeptIInv, AgentIInv, AgentRow
    <2>2. Cardinality(Registered) <= MaxAgents /\ branch.holder \in Agents \cup {"none"}
      BY DEF KeptIInv, AgentsFit, LockIInv
    <2>3. offset \in 0..(MaxLines + 1) /\ \A k \in 1..Len(eventStore) : eventStore[k] \in 1..MaxLines
      BY SessionsAssumption DEF KeptIInv, WatchIInv, WatchBounds
    <2>4. beat.last \in BeatStart..BeatMax
      BY DEF KeptIInv, BeatBounds
    <2> QED BY <2>1, <2>2, <2>3, <2>4 DEF SessionsTypeOK
  <1>3. SandboxTypeOK
    BY DEF KeptIInv, SandboxIInv, RunRow, SandboxTypeOK
  <1>4. StoresTypeOK
    <2>1. /\ auditRows \in Seq([prev : 0..MaxEvents, hash : 1..MaxEvents])
          /\ auditSynced \in 0..MaxEvents /\ lastHash \in 0..MaxEvents /\ attempts \in 0..MaxEvents
      <3>1. /\ auditRows \in Seq(AuditRow) /\ Len(auditRows) \in Nat /\ auditSynced \in Nat
            /\ attempts \in Nat /\ lastHash \in Nat /\ MaxEvents \in Nat /\ AuditBounds
        BY StoresAssumption DEF KeptIInv, AuditIInv
      <3>2. ASSUME NEW i \in 1..Len(auditRows)
            PROVE  auditRows[i] \in [prev : 0..MaxEvents, hash : 1..MaxEvents]
        <4>1. auditRows[i] \in AuditRow
          BY <3>1
        <4>2. /\ auditRows[i].prev <= MaxEvents /\ auditRows[i].hash >= 1
              /\ auditRows[i].hash <= MaxEvents
          BY <3>1, <4>1 DEF AuditBounds, AuditRow
        <4> QED BY <4>1, <4>2, <3>1 DEF AuditRow
      <3>3. auditRows \in Seq([prev : 0..MaxEvents, hash : 1..MaxEvents])
        BY <3>1, <3>2, SeqNarrows
      <3> QED BY <3>1, <3>3 DEF AuditBounds
    <2>2. secretRequests \in [SecretIds ->
              [name : CredentialNames \cup {"none"}, status : {"none", "pending", "approved", "denied"},
               answer : {"none", "pending", "approved", "denied"}]]
      BY DEF KeptIInv, VaultIInv, SecretRow
    <2>3. /\ {keychain, passFile, generated} \subseteq 0..MaxPassphrases
          /\ vaultEnv \in EnvSettings /\ vaultKey \in 0..MaxPassphrases \cup EnvPassphrases
          /\ boots \in 0..MaxBoots /\ vaultLapsed \in BOOLEAN
          /\ credentials \in [CredentialNames ->
                                 [key : 0..MaxPassphrases \cup EnvPassphrases, env : EnvSettings,
                                  expires : 0..(MaxVaultTime + VaultTtl)]]
          /\ tombstones \subseteq CredentialNames /\ vaultClock \in 1..MaxVaultTime
      BY DEF KeptIInv, VaultIInv, VaultBounds, VaultRow, VaultKeyRange, Passphrase
    <2> QED BY <2>1, <2>2, <2>3 DEF StoresTypeOK
  <1> QED BY <1>1, <1>2, <1>3, <1>4

\* Every variable of every component keeps its type, and what is limited its
\* limit: the agents of a host and the interval of their beat, the queue, the
\* streams, the hops of a forwarded call, the attempts of a client.
THEOREM ComponentsTypeOKAlways == Spec => []ComponentsTypeOK
  <1> DEFINE I == CallsIInv /\ MeshIInv /\ KeptIInv
  <1>1. Init => I
    <2> SUFFICES ASSUME Init PROVE I
      OBVIOUS
    <2>1. CallsIInv
      BY InitParts, TaskInitIInv, QueueInitIInv, ChainInitIInv, ExecutionInitIInv, GuardInitIInv,
         IngressInitIInv, PolicyInitIInv, OrderInitIInv, WakeInitIInv DEF CallsIInv
    <2>2. MeshIInv
      BY InitParts, LearnInitIInv, ReconcilerInitIInv, ClientInitIInv, DiscoveryInitIInv,
         TransportInitIInv, IdentityInitIInv, TlsInitIInv, IssueInitIInv, CapInitIInv,
         ActivationInit DEF MeshIInv
    <2>3. KeptIInv
      BY InitParts, MonitorInitIInv, MonitorBoundsInit, LifeInits, DiskInitIInv, ResolverInitIInv,
         VersionsInitIInv, AgentInitIInv, AgentsFitInit, LockInitIInv, WatchInitIInv, WatchBoundsInit,
         BeatBoundsInit, SandboxInitIInv, AuditInit, AuditBoundsInit, VaultInit, VaultBoundsInit
         DEF KeptIInv, SkillsInit
    <2> QED BY <2>1, <2>2, <2>3
  <1>2. I /\ [Next]_vars => I'
    <2> SUFFICES ASSUME I, [Next]_vars PROVE I'
      OBVIOUS
    <2>1. CallsIInv'
      BY TasksRest, QueueRests, ChainRests, ExecutionsRest, GuardsRest, IngressRests, PolicyRests,
         OrdersRest, TaskStep, QueueStep, ChainStep, ExecutionStep, GuardStep, IngressStep,
         PolicyStep, OrderStep, WakeStep DEF CallsIInv
    <2>2. MeshIInv'
      BY KeepersRest, PeersRest, IdentityRests, SkillsRest, LearnStep, ReconcilerStep, ClientStep,
         DiscoveryStep, TransportStep, IdentityStep, TlsStep, IssueStep, CapStep, ActivationStep
         DEF MeshIInv
    <2>3. KeptIInv'
      BY SkillsRest, KeepersRest, AlgorithmsRest, SessionsRest, StoresRest, MonitorStep,
         MonitorBoundsStep, LifeStep, DiskStep, ResolverStep, VersionsStep, WatchStep,
         WatchBoundsStep, BeatBoundsStep, SandboxStep, AuditStep, AuditBoundsStep, VaultStep,
         VaultBoundsStep DEF KeptIInv
    <2> QED BY <2>1, <2>2, <2>3
  <1>3. I => ComponentsTypeOK
    BY CallsHaveTypes, MeshHasTypes, KeptHasTypes DEF ComponentsTypeOK
  <1> QED BY <1>1, <1>2, <1>3, PTL DEF Spec
=============================================================================
