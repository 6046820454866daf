------------------------------ MODULE Ingress ------------------------------
(***************************************************************************)
(* The MCP proxy of a mesh: a call POST /api/mcp/<server> is authorised,   *)
(* routed to the node that provides the server, held at the execution     *)
(* tier, approved by an operator when it writes, and then run locally or  *)
(* forwarded one hop (mcp-ingress.ts, mcp-ingress-api.ts, mcp-service-     *)
(* registry.ts, mcp-routing.ts, mcp-forward*.ts, mcp-mcporter-exec.ts,     *)
(* meldekanal.ts, telegram-meldekanal.ts, approvals.ts).                   *)
(*                                                                         *)
(* A leg is one handling of the call by one node: leg 1 is the client's    *)
(* request, leg k + 1 the request that leg k forwarded.  Legs of different *)
(* calls share nothing but the audit log, so one call is followed.         *)
(***************************************************************************)
EXTENDS Integers, Sequences, FiniteSets

CONSTANTS
    IngressNodes,       \* the agents of the mesh
    SharingNodes,       \* those with mcp.serve_shared, so with a localExec
    ApprovalNodes,      \* those with the approval flag, so with a MeldekanalRegistry
    ChannelCount,       \* channels in such a registry; 0: DenyAllChannel
    MaxLegs             \* bound: requests one call may turn into

VARIABLES
    payload,            \* the JSON-RPC payload of the call
    leg,                \* leg[k]: what node leg[k].node does with request k
    approvalRow,        \* approvalRow[k]: the durable row of leg k's approval
    waiter,             \* waiter[k]: the channel's side of leg k's approval
    ingressAudit        \* the audit events written so far

ingressVars == <<payload, leg, approvalRow, waiter, ingressAudit>>

Legs == 1..MaxLegs
MAX_MCP_FORWARD_HOPS == 1

\* The bound leaves room for every forward there can be.
ASSUME IngressAssumption == MaxLegs \in Nat /\ MaxLegs > MAX_MCP_FORWARD_HOPS

Tiers == {"self", "gate", "consensus"}
Rank == [t \in Tiers |-> CASE t = "self" -> 0 [] t = "gate" -> 1 [] OTHER -> 2]
maxTier(a, b) == IF Rank[a] >= Rank[b] THEN a ELSE b

(* Permissions fall into one of the three token classes or into none.      *)
Permissions == Tiers \union {"unknown"}
LOW_TRUST_GATE_THRESHOLD == 2
deriveExecutionTier(permissions, trust) ==
    LET named == {IF p = "unknown" THEN "gate" ELSE p : p \in permissions}
        highest == CHOOSE t \in named \union {"self"} :
                       \A u \in named : Rank[t] >= Rank[u]
    IN  IF highest = "self" /\ trust < LOW_TRUST_GATE_THRESHOLD THEN "gate" ELSE highest

(* A payload: its method, the verb its tool name starts with ("none": no   *)
(* valid name), and the server's class of the tool ("ungoverned": the      *)
(* server has no entry in SERVER_TOOL_CLASSES).                            *)
Payloads ==
    [method : {"tools/list", "other"}, verb : {"none"}, class : {"ungoverned"}] \union
    [method : {"tools/call"}, verb : {"none", "read", "write", "destructive", "other"},
     class : {"ungoverned", "readOnly", "unlisted"}]

NoPayload == [method |-> "other", verb |-> "none", class |-> "ungoverned"]

deriveToolTier(p) ==
    IF p.method # "tools/call" THEN "self"
    ELSE IF p.verb = "destructive" THEN "consensus"
    ELSE IF p.verb = "read" THEN "self"
    ELSE "gate"

deriveToolTierForServer(p) ==
    IF p.class = "ungoverned" \/ p.method # "tools/call" THEN deriveToolTier(p)
    ELSE IF p.verb # "none" /\ p.class = "readOnly" THEN "self"
    ELSE maxTier("gate", deriveToolTier(p))

(* What a node's replica of the capability registry says of the server:    *)
(* for each agent, the capability it announces ("absent": none).           *)
CapabilityHealth == {"absent", "healthy", "degraded", "offline"}
resolveMcp(caps) == {a \in DOMAIN caps : caps[a] \notin {"absent", "offline"}}

(* The target is the node itself, else a healthy provider, else any.  The  *)
(* first one in the registry's order is taken, which is any order.         *)
planMcpRoute(caps, self) ==
    LET usable == resolveMcp(caps)
        healthy == {a \in usable : caps[a] = "healthy"}
    IN  IF self \in usable THEN {self} ELSE IF healthy # {} THEN healthy ELSE usable

(* resolvePeer and the endpoint's form decide whether a remote target can  *)
(* be reached at all.                                                      *)
Endpoints == {"https", "http", "malformed", "unknown"}
buildMcpForwardSpec(target, self, endpoint) ==
    IF target = self THEN "local-exec"
    ELSE IF endpoint = "https" THEN "remote-forward" ELSE "unavailable"

buildMcpForwardDispatch(spec) ==
    CASE spec = "unavailable" -> "none" [] spec = "local-exec" -> "local" [] OTHER -> "remote"

(* The sender is who its mTLS certificate names: the socket must be        *)
(* authorised and a SAN a canonical node URI.                              *)
PeerCerts == {"none", "unauthorized", "legacySan", "canonical"}
extractCanonicalSender(cert) == cert = "canonical"

(* The tiers a call passes without anybody's approval.                     *)
enforceExecutionTier(tier) == tier = "self"

(* What mcporter has a command for.                                        *)
buildMcporterArgv(p) ==
    p.method = "tools/list" \/ (p.method = "tools/call" /\ p.verb # "none")

NoLeg == [stage |-> "none", node |-> "none", hop |-> 0, target |-> "none",
          tier |-> "self", outcome |-> "none", channel |-> 0, status |-> 0]

Arrives(n, hop) == [NoLeg EXCEPT !.stage = "received", !.node = n, !.hop = hop]

IngressInit ==
    /\ payload = NoPayload
    /\ leg = [k \in Legs |-> NoLeg]
    /\ approvalRow = [k \in Legs |-> "none"]
    /\ waiter = [k \in Legs |-> "none"]
    /\ ingressAudit = {}

(* callMcpProxy: a client posts its request to some node.  It carries no    *)
(* hop header, so its hop count is 0.                                      *)
CallMcpProxy(n) ==
    /\ leg[1].stage = "none"
    /\ payload' \in Payloads
    /\ leg' = [leg EXCEPT ![1] = Arrives(n, 0)]
    /\ UNCHANGED <<approvalRow, waiter, ingressAudit>>

Audit(event, k) == [event |-> event, leg |-> k]

(* A leg answered with a status: 403 and 5xx are audited as refused, the    *)
(* rest as served.                                                         *)
Answered(l, status) == [l EXCEPT !.stage = "answered", !.status = status]
ReplyAudit(k, status) ==
    Audit(IF status = 403 \/ status >= 500 THEN "MCP_FORWARD_REJECT" ELSE "MCP_PROXY_RX", k)

Reply(k, status) ==
    /\ leg' = [leg EXCEPT ![k] = Answered(@, status)]
    /\ ingressAudit' = ingressAudit \union {ReplyAudit(k, status)}

(* A plan the ingress passes on is never rejected here: the caller was     *)
(* authorised, there is a target, and the pin is there when it is asked    *)
(* for.                                                                    *)
buildMcpExecSpec(l) == IF l.target = l.node THEN "mcporter-local" ELSE "mtls-forward"

(* The executor, entered with the dispatch that was computed before the    *)
(* approval was asked for: local-exec where the node shares its servers,   *)
(* else 501; a forward only from a request that was not itself forwarded.  *)
(* (The self-forward check, 508, is behind a plan that never picks self.)  *)
Execute(k, l, gate) ==
    LET answer(status) == /\ leg' = [leg EXCEPT ![k] = Answered(l, status)]
                          /\ ingressAudit' = ingressAudit \union gate \union {ReplyAudit(k, status)}
    IN  IF buildMcpExecSpec(l) = "mcporter-local"
        THEN IF l.node \in SharingNodes
             THEN /\ leg' = [leg EXCEPT ![k] = [l EXCEPT !.stage = "running"]]
                  /\ ingressAudit' = ingressAudit \union gate \union {Audit("MCP_EXEC_LOCAL", k)}
             ELSE answer(501)
        ELSE IF l.hop >= MAX_MCP_FORWARD_HOPS
             THEN answer(502)
             ELSE /\ leg' = [leg EXCEPT ![k] = [l EXCEPT !.stage = "forwarding"],
                                        ![k + 1] = Arrives(l.target, l.hop + 1)]
                  /\ ingressAudit' = ingressAudit \union gate \union {Audit("MCP_FORWARD_TX", k)}

(* Faulty: a list of refusals instead of the one approval. *)
isNotRefused(outcome) == outcome \notin {"rejected", "error", "denied-no-channel"}

(* isApproved: the only reading of an outcome that lets a call pass.       *)
isApproved(outcome) == outcome = "approved"

Outcomes == {"approved", "rejected", "denied-no-channel", "timeout", "error"}

(* What a channel returns is an outcome or it is an error.                 *)
normalizeDecision(raw) == IF raw \in Outcomes THEN raw ELSE "error"

(* The resolver's answer: the gate audit, then only "approved" goes on.    *)
Decided(k, raw) ==
    LET outcome == normalizeDecision(raw)
        l == [leg[k] EXCEPT !.outcome = outcome]
        gate == {Audit("MCP_FORWARD_GATE", k)}
    IN  IF isApproved(outcome)
        THEN Execute(k, l, gate)
        ELSE /\ leg' = [leg EXCEPT ![k] = Answered(l, 403)]
             /\ ingressAudit' = ingressAudit \union gate \union {ReplyAudit(k, 403)}

(* handleMcpIngress up to its first await.  The sender is authorised by    *)
(* the canonical SAN of its mTLS certificate; what the registry and the    *)
(* peer table say at that moment is any state of theirs.                   *)
HandleMcpIngress(k) ==
    /\ leg[k].stage = "received"
    /\ \/ \E cert \in PeerCerts : ~extractCanonicalSender(cert) /\ Reply(k, 403)
       \/ \E caps \in [IngressNodes -> CapabilityHealth] :
              /\ planMcpRoute(caps, leg[k].node) = {}
              /\ Reply(k, 503)
       \/ \E target \in UNION {planMcpRoute(caps, leg[k].node) :
                                    caps \in [IngressNodes -> CapabilityHealth]},
             permissions \in SUBSET Permissions, trust \in 1..3, endpoint \in Endpoints :
              LET tier == maxTier(deriveExecutionTier(permissions, trust),
                                  deriveToolTierForServer(payload))
                  routed == [leg[k] EXCEPT !.target = target, !.tier = tier]
                  spec == buildMcpForwardSpec(target, leg[k].node, endpoint)
              IN  IF buildMcpForwardDispatch(spec) = "none"
                  THEN Reply(k, 503)
                  ELSE \/ enforceExecutionTier(tier) /\ Execute(k, routed, {})
                       \/ tier = "gate" /\ leg[k].node \in ApprovalNodes
                          /\ leg' = [leg EXCEPT ![k] = [routed EXCEPT !.stage = "asking",
                                                                      !.channel = 1]]
                          /\ UNCHANGED ingressAudit
                       \/ tier = "gate" /\ leg[k].node \notin ApprovalNodes /\ Reply(k, 403)
                       \/ tier = "consensus" /\ Reply(k, 403)
    /\ UNCHANGED <<payload, approvalRow, waiter>>

(* MeldekanalRegistry.requestApproval: channels are asked for their health *)
(* in order; an unhealthy, failing or slow one is passed over, and when    *)
(* none is left (or the registry is empty) nobody is asked.                *)
NoChannelLeft(k) ==
    /\ leg[k].stage = "asking" /\ leg[k].channel > ChannelCount
    /\ Decided(k, "denied-no-channel")
    /\ UNCHANGED <<payload, approvalRow, waiter>>

ChannelUnhealthy(k) ==
    /\ leg[k].stage = "asking" /\ leg[k].channel <= ChannelCount
    /\ leg' = [leg EXCEPT ![k].channel = @ + 1]
    /\ UNCHANGED <<payload, approvalRow, waiter, ingressAudit>>

(* The first healthy channel decides: it writes the durable row and sends  *)
(* the prompt.  When the row cannot be written nobody is asked.            *)
RequestApproval(k) ==
    /\ leg[k].stage = "asking" /\ leg[k].channel <= ChannelCount
    /\ \/ /\ leg' = [leg EXCEPT ![k].stage = "approving"]
          /\ approvalRow' = [approvalRow EXCEPT ![k] = "pending"]
          /\ waiter' = [waiter EXCEPT ![k] = "prompting"]
          /\ UNCHANGED ingressAudit
       \/ /\ Decided(k, "error")
          /\ UNCHANGED <<approvalRow, waiter>>
    /\ UNCHANGED payload

(* Faulty: the abort signal is not read again after the prompt was sent. *)
PromptSentUnchecked(k) ==
    /\ waiter[k] = "prompting"
    /\ waiter' = [waiter EXCEPT ![k] = "open"]
    /\ UNCHANGED <<payload, leg, approvalRow, ingressAudit>>

(* The prompt was sent: the wait for a click is set up, unless the         *)
(* registry's timeout struck in the meantime.                              *)
PromptSent(k) ==
    /\ waiter[k] = "prompting"
    /\ waiter' = [waiter EXCEPT ![k] = IF leg[k].outcome = "timeout" THEN "closed" ELSE "open"]
    /\ UNCHANGED <<payload, leg, approvalRow, ingressAudit>>

PromptFails(k) ==
    /\ waiter[k] = "prompting"
    /\ waiter' = [waiter EXCEPT ![k] = "closed"]
    /\ IF leg[k].outcome = "none" THEN Decided(k, "error") ELSE UNCHANGED <<leg, ingressAudit>>
    /\ UNCHANGED <<payload, approvalRow>>

(* ApprovalService.decide: only a pending row changes.                     *)
decide(row, status) == IF row = "pending" THEN status ELSE row

(* A click in the approval chat, on a prompt somebody still waits for, is  *)
(* mirrored into the row and then taken as the decision; every other click *)
(* (another chat, a stale or a second one) changes nothing.                *)
Click(k) ==
    /\ waiter[k] = "open"
    /\ waiter' = [waiter EXCEPT ![k] = "closed"]
    /\ \E status \in {"approved", "rejected"} :
           \/ /\ approvalRow' = [approvalRow EXCEPT ![k] = decide(@, status)]
              /\ IF leg[k].outcome = "none" THEN Decided(k, status)
                 ELSE UNCHANGED <<leg, ingressAudit>>
           \/ /\ UNCHANGED approvalRow         \* decide threw
              /\ IF leg[k].outcome = "none" THEN Decided(k, "error")
                 ELSE UNCHANGED <<leg, ingressAudit>>
    /\ UNCHANGED payload

(* withTimeout: the signal is aborted, which closes an open wait, and the  *)
(* handler goes on with "timeout"; what the channel returns later is       *)
(* dropped.  A stopped channel leaves only this way out.                   *)
ApprovalTimeout(k) ==
    /\ leg[k].stage = "approving"
    /\ waiter' = [waiter EXCEPT ![k] = IF @ = "open" THEN "closed" ELSE @]
    /\ Decided(k, "timeout")
    /\ UNCHANGED <<payload, approvalRow>>

(* A channel that returns something else than a decision. *)
ChannelMisbehaves(k) ==
    /\ leg[k].stage = "approving" /\ waiter[k] = "open"
    /\ waiter' = [waiter EXCEPT ![k] = "closed"]
    /\ Decided(k, "undefined")
    /\ UNCHANGED <<payload, approvalRow>>

StopChannel(k) ==
    /\ waiter[k] = "open"
    /\ waiter' = [waiter EXCEPT ![k] = "closed"]
    /\ UNCHANGED <<payload, leg, approvalRow, ingressAudit>>

(* mcporter ran: 400 for a payload it has no command for, 504 when the     *)
(* process hung, 502 for an exit code or output that is no JSON.           *)
LocalResult(k) ==
    /\ leg[k].stage = "running"
    /\ \E status \in (IF buildMcporterArgv(payload) THEN {200, 502, 504} ELSE {400}) : Reply(k, status)
    /\ UNCHANGED <<payload, approvalRow, waiter>>

(* The forwarded request is answered with what the next leg answered, or   *)
(* fails on the way (no TLS, connection lost, timeout) with 502 or 503      *)
(* whatever the next leg goes on to do.                                    *)
ForwardResult(k) ==
    /\ leg[k].stage = "forwarding"
    /\ \E status \in {502, 503} \union
                     (IF leg[k + 1].stage = "answered" THEN {leg[k + 1].status} ELSE {}) :
           Reply(k, status)
    /\ UNCHANGED <<payload, approvalRow, waiter>>

IngressNext ==
    \/ \E n \in IngressNodes : CallMcpProxy(n)
    \/ \E k \in Legs :
                    \/ HandleMcpIngress(k) \/ NoChannelLeft(k) \/ ChannelUnhealthy(k)
                    \/ RequestApproval(k) \/ PromptSent(k) \/ PromptFails(k) \/ Click(k)
                    \/ ApprovalTimeout(k) \/ ChannelMisbehaves(k) \/ StopChannel(k)
                    \/ LocalResult(k) \/ ForwardResult(k)

IngressSpec == IngressInit /\ [][IngressNext]_ingressVars
-----------------------------------------------------------------------------
(* Every leg, row and waiter has one of its kinds of value. *)
ApprovalStatus == {"pending", "approved", "rejected"}

IngressTypeOK ==
    /\ payload \in Payloads
    /\ \A k \in Legs :
           /\ leg[k].stage \in {"none", "received", "asking", "approving", "running",
                                "forwarding", "answered"}
           /\ leg[k].node \in IngressNodes \union {"none"}
           /\ leg[k].tier \in Tiers /\ leg[k].outcome \in Outcomes \union {"none"}
           /\ leg[k].hop \in 0..MAX_MCP_FORWARD_HOPS
           /\ approvalRow[k] \in ApprovalStatus \union {"none"}
           /\ waiter[k] \in {"none", "prompting", "open", "closed"}

Happened(event, k) == Audit(event, k) \in ingressAudit

(* A leg ran the tool or passed the call on. *)
PassedOn(k) == Happened("MCP_EXEC_LOCAL", k) \/ Happened("MCP_FORWARD_TX", k)

(* A write passes a node only on an operator's approval that is in the      *)
(* durable store and in the audit log; a critical call passes nowhere      *)
(* (mcp-ingress.ts step 5, on every leg again).                            *)
WritesAreApproved ==
    \A k \in Legs : PassedOn(k) =>
        /\ leg[k].tier # "consensus"
        /\ leg[k].tier = "gate" => /\ leg[k].outcome = "approved"
                                   /\ approvalRow[k] = "approved"
                                   /\ Happened("MCP_FORWARD_GATE", k)

(* A click counts only while somebody waits for it: once the registry has  *)
(* timed out, neither the durable row nor the call can still become        *)
(* approved, also when the timeout struck while the prompt was on its way  *)
(* (telegram-meldekanal.ts, C1).                                           *)
LateClickIsVoid ==
    \A k \in Legs :
        /\ approvalRow[k] = "approved" <=> leg[k].outcome = "approved"
        /\ approvalRow[k] = "rejected" => leg[k].outcome = "rejected"

(* A call runs at most once, at a node that shares its servers, at most    *)
(* one forward from where it entered, and a client told 200 had it run     *)
(* (the 1-hop guard, against replicas that disagree about the provider).   *)
RunsAtMostOnce ==
    LET ran == {k \in Legs : Happened("MCP_EXEC_LOCAL", k)}
    IN  /\ Cardinality(ran) <= 1
        /\ \A k \in ran : k <= MAX_MCP_FORWARD_HOPS + 1 /\ leg[k].node \in SharingNodes
        /\ leg[1].status = 200 => ran # {}

(* The decisions on approval rows are one-shot verdicts: what the store    *)
(* promises its callers is the abstract machine of OneShot.                *)
ApprovalOneShot == INSTANCE OneShot WITH
    Items <- Legs, Verdicts <- {"approved", "rejected"},
    verdict <- [k \in Legs |-> IF approvalRow[k] = "pending" THEN "open" ELSE approvalRow[k]]
=============================================================================
