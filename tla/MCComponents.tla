---------------------------- MODULE MCComponents ----------------------------
(***************************************************************************)
(* The components that share no state, side by side.  One behaviour works  *)
(* one of them: focus says which, and the others rest in their initial     *)
(* state.  Interleaving components that share nothing would multiply their *)
(* states and show nothing more.  The properties of components that belong *)
(* together are checked as one.                                            *)
(***************************************************************************)
EXTENDS Tasks, TaskQueue, TaskRouting, Guards, Ingress, Policy, Orders, Capabilities, Skills,
        Peers, Discovery, Identity, Certificates, Sessions, Sandbox, Transport, Stores

VARIABLE focus

MCAllowedDir == <<"skills">>

Foci == {"tasks", "queue", "chain", "execution", "replay", "rate", "breaker", "budget",
         "ingress", "matrix", "gates", "orders", "wake", "capabilities", "activation",
         "monitor", "life", "disk", "resolver", "versions", "learn", "reconciler", "client",
         "net", "inputs", "pins", "views", "identity", "tls", "issue", "crl",
         "agents", "locks", "watch", "beat", "sandbox", "transport", "audit", "vault"}

vars == <<focus, taskVars, queueVars, routingVars, guardVars, ingressVars, policyVars, ordersVars,
          capVars, activationVars, skillsVars, peersVars, discoveryVars, idVars, certVars,
          sessionVars, sandbox, p2pVars, storesVars>>

Init ==
    /\ focus \in Foci
    /\ TaskInit /\ QueueInit /\ RoutingInit /\ GuardInit /\ IngressInit /\ PolicyInit
    /\ OrderInit /\ WakeInit /\ CapInit /\ SkillsInit /\ PeersInit /\ DiscoveryInit
    /\ IdentityInit /\ CertificatesInit /\ SessionsInit /\ SandboxInit /\ TransportInit
    /\ StoresInit

\* Every component rests but the one named.
OthersRest(name) ==
    /\ UNCHANGED focus
    /\ name # "tasks" => UNCHANGED taskVars
    /\ name # "queue" => UNCHANGED queueVars
    /\ name # "routing" => UNCHANGED routingVars
    /\ name # "guards" => UNCHANGED guardVars
    /\ name # "ingress" => UNCHANGED ingressVars
    /\ name # "policy" => UNCHANGED policyVars
    /\ name # "orders" => UNCHANGED orderVars
    /\ name # "wake" => UNCHANGED wakeVars
    /\ name # "capabilities" => UNCHANGED capVars
    /\ name # "activation" => UNCHANGED activationVars
    /\ name # "monitor" => UNCHANGED monitorVars
    /\ name # "life" => UNCHANGED lifeVars
    /\ name # "disk" => UNCHANGED disk
    /\ name # "resolver" => UNCHANGED resolver
    /\ name # "versions" => UNCHANGED versions
    /\ name # "learn" => UNCHANGED learnVars
    /\ name # "reconciler" => UNCHANGED reconciler
    /\ name # "client" => UNCHANGED request
    /\ name # "discovery" => UNCHANGED discoveryVars
    /\ name # "identity" => UNCHANGED idVars
    /\ name # "tls" => UNCHANGED tlsVars
    /\ name # "issue" => UNCHANGED issueVars
    /\ name # "crl" => UNCHANGED <<crl, crlFile>>
    /\ name \notin {"agents", "locks"} => UNCHANGED agentClock
    /\ name # "agents" => UNCHANGED <<agentTable, mail, lastWoken, told>>
    /\ name # "locks" => UNCHANGED <<branch, believed, ousted>>
    /\ name # "watch" => UNCHANGED watchVars
    /\ name # "beat" => UNCHANGED beat
    /\ name # "sandbox" => UNCHANGED sandbox
    /\ name # "transport" => UNCHANGED p2pVars
    /\ name # "audit" => UNCHANGED auditVars
    /\ name # "vault" => UNCHANGED vaultVars

Next ==
    \/ focus = "tasks" /\ TaskNext /\ OthersRest("tasks")
    \/ focus = "queue" /\ QueueNext /\ OthersRest("queue")
    \/ focus = "chain" /\ ChainNext /\ OthersRest("routing")
    \/ focus = "execution" /\ ExecutionNext /\ OthersRest("routing")
    \/ focus = "replay" /\ ReplayNext /\ OthersRest("guards")
    \/ focus = "rate" /\ RateNext /\ OthersRest("guards")
    \/ focus = "breaker" /\ BreakerNext /\ OthersRest("guards")
    \/ focus = "budget" /\ BudgetNext /\ OthersRest("guards")
    \/ focus = "ingress" /\ IngressNext /\ OthersRest("ingress")
    \/ focus = "matrix" /\ MatrixNext /\ OthersRest("policy")
    \/ focus = "gates" /\ GatesNext /\ OthersRest("policy")
    \/ focus = "orders" /\ OrderNext /\ OthersRest("orders")
    \/ focus = "wake" /\ WakeNext /\ OthersRest("wake")
    \/ focus = "capabilities" /\ CapNext /\ OthersRest("capabilities")
    \/ focus = "activation" /\ ActivationNext /\ OthersRest("activation")
    \/ focus = "monitor" /\ MonitorNext /\ OthersRest("monitor")
    \/ focus = "life" /\ LifeNext /\ OthersRest("life")
    \/ focus = "disk" /\ DiskNext /\ OthersRest("disk")
    \/ focus = "resolver" /\ ResolverNext /\ OthersRest("resolver")
    \/ focus = "versions" /\ PickVersions /\ OthersRest("versions")
    \/ focus = "learn" /\ LearnNext /\ OthersRest("learn")
    \/ focus = "reconciler" /\ ReconcilerNext /\ OthersRest("reconciler")
    \/ focus = "client" /\ ClientNext /\ OthersRest("client")
    \/ focus = "net" /\ NetNext /\ OthersRest("discovery")
    \/ focus = "inputs" /\ InputNext /\ OthersRest("discovery")
    \/ focus = "pins" /\ PinNext /\ OthersRest("discovery")
    \/ focus = "views" /\ ViewNext /\ OthersRest("discovery")
    \/ focus = "identity" /\ IdentityNext /\ OthersRest("identity")
    \/ focus = "tls" /\ TlsNext /\ OthersRest("tls")
    \/ focus = "issue" /\ IssueNext /\ OthersRest("issue")
    \/ focus = "crl" /\ CrlNext /\ OthersRest("crl")
    \/ focus = "agents" /\ AgentNext /\ OthersRest("agents")
    \/ focus = "locks" /\ LockNext /\ OthersRest("locks")
    \/ focus = "watch" /\ WatchNext /\ OthersRest("watch")
    \/ focus = "beat" /\ BeatNext /\ OthersRest("beat")
    \/ focus = "sandbox" /\ SandboxNext /\ OthersRest("sandbox")
    \/ focus = "transport" /\ TransportNext /\ OthersRest("transport")
    \/ focus = "audit" /\ AuditNext /\ OthersRest("audit")
    \/ focus = "vault" /\ VaultNext /\ OthersRest("vault")

Spec == Init /\ [][Next]_vars

\* The state of the component at work tells two states apart.
View ==
    <<focus,
      CASE focus = "tasks" -> taskVars
        [] focus = "queue" -> queueVars
        [] focus \in {"chain", "execution"} -> routingVars
        [] focus \in {"replay", "rate", "breaker", "budget"} -> guardVars
        [] focus = "ingress" -> ingressVars
        [] focus \in {"matrix", "gates"} -> policyVars
        [] focus \in {"orders", "wake"} -> ordersVars
        [] focus = "capabilities" -> capVars
        [] focus = "activation" -> activationVars
        [] focus \in {"monitor", "life", "disk", "resolver", "versions"} -> skillsVars
        [] focus \in {"learn", "reconciler", "client"} -> peersVars
        [] focus \in {"net", "inputs", "pins", "views"} -> discoveryVars
        [] focus = "identity" -> idVars
        [] focus \in {"tls", "issue", "crl"} -> certVars
        [] focus \in {"agents", "locks", "watch", "beat"} -> sessionVars
        [] focus = "sandbox" -> sandbox
        [] focus = "transport" -> p2pVars
        [] focus \in {"audit", "vault"} -> storesVars>>

-----------------------------------------------------------------------------
(* What the run checks.  The parts are stated with their components.       *)

\* Every variable of every component has its type (the TypeOK of each module).
ComponentsTypeOK ==
    /\ TaskTypeOK /\ QueueTypeOK /\ RoutingTypeOK /\ GuardTypeOK /\ IngressTypeOK /\ PolicyTypeOK
    /\ OrdersTypeOK /\ CapTypeOK /\ SkillsTypeOK /\ PeersTypeOK /\ DiscoveryTypeOK
    /\ IdentityTypeOK /\ CertificatesTypeOK /\ SessionsTypeOK /\ SandboxTypeOK
    /\ TransportTypeOK /\ StoresTypeOK

\* Tasks, execution rows, approval rows and order claims each implement the
\* one-shot request of OneShot: opened once, settled once, and settled for good
\* (tasks, execution-state, approvals, order-ledger-protocol).
AnsweredOnce ==
    /\ TaskOneShot!Spec /\ ExecutionOneShot!Spec /\ ApprovalOneShot!Spec /\ LedgerOneShot!Spec

\* A caller is told what its task came to, the queue keeps priority and arrival
\* and wastes no slot, a chain stops at its first failure, and the router
\* passes over no better peer (task-executor, task-queue, task-chain,
\* task-router).
TasksAreServed ==
    /\ CallerTold /\ OnlyExecutedComplete
    /\ QueueOrdered /\ OnePlace /\ WorkConserving
    /\ ChainStopsAtFailure /\ (focus = "chain" => BestIsUndominated)

\* The guards bound what they are there to bound: an envelope's second
\* handling, the rate of an address between two removals of its peer, the
\* failures of a closed circuit, and a budget that pruning leaves as it was
\* (replay, ratelimit, circuit-breaker, budget-guard).
GuardsHold ==
    HandledOnce /\ RateBounded /\ BreakerIsFair /\ (focus = "budget" => PruneKeepsStatus)

\* No call gets past its guards and its gate: the guards above, writes with an
\* operator's timely and recorded approval, the channel the matrix names
\* whatever its order, the rule that asks for approval before the one that does
\* not, an order at most once, and one wake per window (mcp-ingress, freigabe-matrix, approval-gates,
\* order-ledger-protocol, wake-contract).
CallsAreGoverned ==
    /\ GuardsHold
    /\ WritesAreApproved /\ LateClickIsVoid /\ RunsAtMostOnce
    /\ (focus = "matrix" => MatrixIsOrderFree) /\ (focus = "gates" => CredentialsAreGated)
    /\ OrderRunsAtMostOnce /\ WakesAreCoalesced

\* A skill's availability is its owner's word, its health turns only after the
\* debounce and keeps being checked, and a failed install leaves the old skill
\* or its backup (registry, gossip, skill-health-monitor, skill-rollback).
SkillsAreTracked ==
    AvailabilityIsDirect /\ HealthIsDebounced /\ MonitorAlive /\ BackupOutlivesTarget

\* Peers are kept, dialled and trusted as who they are: a key under its owner's
\* name, an emitted identity its receivers accept, a pin that holds, one
\* coordinator, one dial, counted streams, and static peers that are retried as
\* long as they should be (inbound-peer-learner, boot-relearn,
\* static-peer-reconciler, peer-identity, coordinator, libp2p-runtime).
PeersAreKept ==
    /\ KeyIsOwners /\ ReconcilerKeepsOn /\ RetriesAreBounded
    /\ EmittedIsAccepted /\ PinHolds /\ (focus = "views" => ElectionAgrees)
    /\ DialedOnce /\ StreamsAreCounted

\* The algorithms compute what they are named for: dependencies come first and
\* a cycle is told, versions that parse are totally ordered and the latest of
\* several does not depend on their order, the CIDR test is the prefix test, and
\* a node is found only at an address its policy allows (skill-deps, semver,
\* discovery-policy, discovery).
AlgorithmsAreSound ==
    /\ InstallOrderIsSound /\ (focus = "versions" => VersionsAreOrdered)
    /\ CidrIsPrefix /\ FoundWhereAllowed

\* However starts race, crash and repeat, a daemon has one transport identity,
\* serves a certificate that fits its key, name and CA, is left without one
\* only if it has no CA of its own, and signs a certificate only on a proof
\* made for it (libp2p-identity, tls, cert-issuance).
IdentityIsCoherent ==
    PeerIdIsStable /\ ServedIsCoherent /\ OwnCaStarts /\ IssuedIsProven

\* What a host's agents rely on survives: a beating agent stays registered, a
\* branch has one holder except for agents whose lock an administrator released,
\* no session line is lost, the audit log is one chain, credentials stay readable
\* to starts with the passphrase setting they were stored under and go out
\* approved, and a skill runs inside its directory, watched, and reports what its
\* child did (agent-registry,
\* session-checkout, session-watcher, audit, vault, sandbox).
HostKeepsItsWord ==
    /\ BeatingAgentStays /\ CheckoutExcludes /\ NoLineLost
    /\ AuditIsChained /\ VaultReadable /\ DisclosureIsApproved
    /\ RunsInsideSkills /\ ChildIsWatched /\ SettledByItsChild

\* No step undoes what must stay: a revocation within its retention, a skill
\* in use under garbage collection, a peer loaded at boot under a flush of the
\* cache, and the expiry of a credential (capability-activation,
\* skill-lifecycle, peer-cache, vault).
NothingIsUndone ==
    RevokedIsKept /\ GcSparesActive /\ FlushKeepsLoaded /\ NothingExpiredIsDisclosed
=============================================================================
