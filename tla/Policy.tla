------------------------------- MODULE Policy -------------------------------
(***************************************************************************)
(* Who has to approve what: the approval matrix that routes a gated call   *)
(* to one channel (freigabe-matrix.ts, freigabe-matrix-loader.ts,          *)
(* approval-router.ts) and the rule list that says whether a task runs,    *)
(* waits or is denied (approval-gates.ts).                                 *)
(***************************************************************************)
EXTENDS Integers, Sequences, SequencesExt

CONSTANTS
    KnownServers,       \* canonical server names the loader is given
    Tools,              \* tool names, "*" excluded
    Channels,           \* channel ids entries may name
    MaxEntries,         \* bound: entries of a matrix text
    MaxRules            \* bound: custom rules, loaded or added

ASSUME PolicyAssumption == MaxEntries \in Nat /\ MaxRules \in Nat \ {0}

VARIABLES
    matrix,             \* the parsed matrix; <<>> also after a rejected text
    routed,             \* the last request and the channel it was routed to
    rules               \* the rules of ApprovalGates, the first match decides

policyVars == <<matrix, routed, rules>>

WILDCARD == "*"
MatrixTiers == {"gate", "consensus"}
FreigabeEntry == [tier : MatrixTiers, server : KnownServers, tool : Tools \union {WILDCARD},
                  channel : Channels]

(* What a text may hold besides: a server no registry knows, a channel of  *)
(* blanks, a decider outside the grammar.  One is enough to reject it all. *)
Malformed == [tier |-> "gate", server |-> "unlisted", tool |-> WILDCARD, channel |-> " "]

Key(e) == <<e.tier, e.server, e.tool>>

(* Faulty: two entries for one key are kept. *)
parseWithDuplicates(raw) == \A i \in DOMAIN raw : raw[i] \in FreigabeEntry

parseFreigabeMatrix(raw) ==
    /\ \A i \in DOMAIN raw : raw[i] \in FreigabeEntry
    /\ \A i, j \in DOMAIN raw : Key(raw[i]) = Key(raw[j]) => i = j

PolicyRequest == [tier : MatrixTiers, server : KnownServers, tool : Tools]
NoRequest == [asked |-> "nobody"]

DefaultRules == << [skill |-> "system.*", requester |-> "*", action |-> "auto"],
                   [skill |-> "credential.*", requester |-> "*", action |-> "approve"],
                   [skill |-> "*", requester |-> "*", action |-> "auto"] >>
GateRequesters == {"p", "q"}
GateSkills == {"system.health", "credential.read", "influxdb.query"}
GatePatterns == {"system.*", "credential.*", "*", "credential.read"}
GateRule == [skill : GatePatterns, requester : {"*", "p"}, action : {"auto", "approve", "deny"}]

matchPattern(value, pattern) ==
    \/ pattern = "*" \/ pattern = value
    \/ pattern = "system.*" /\ value = "system.health"
    \/ pattern = "credential.*" /\ value = "credential.read"

Applies(rule, skill, requester) ==
    matchPattern(skill, rule.skill) /\ matchPattern(requester, rule.requester)

(* Faulty: the last rule that matches decides. *)
evaluateLast(list, skill, requester) ==
    LET hits == {i \in DOMAIN list : Applies(list[i], skill, requester)}
    IN  IF hits = {} THEN "deny" ELSE list[CHOOSE i \in hits : \A j \in hits : j <= i].action

evaluate(list, skill, requester) ==
    LET hits == {i \in DOMAIN list : Applies(list[i], skill, requester)}
    IN  IF hits = {} THEN "deny" ELSE list[CHOOSE i \in hits : \A j \in hits : i <= j].action

PolicyInit ==
    /\ matrix = <<>>
    /\ routed = NoRequest
    /\ rules = DefaultRules

(* The file approval-gates.json goes before the defaults; a file that does *)
(* not parse leaves the defaults alone.                                    *)
loadCustomRules ==
    /\ rules = DefaultRules
    /\ \E custom \in SeqOf(GateRule, MaxRules - 1) : rules' = custom \o rules
    /\ UNCHANGED <<matrix, routed>>

(* parseFreigabeMatrixToml: all of the text or nothing of it, once.        *)
LoadMatrix ==
    /\ matrix = <<>> /\ routed = NoRequest
    /\ \E raw \in SeqOf(FreigabeEntry \union {Malformed}, MaxEntries) :
           matrix' = IF parseFreigabeMatrix(raw) THEN raw ELSE <<>>
    /\ UNCHANGED <<routed, rules>>

(* The entry for the exact tool, else the one for the whole server; tier    *)
(* and server must agree in any case.                                      *)
resolveEntry(entries, req) ==
    LET of(tool) == {i \in DOMAIN entries : Key(entries[i]) = <<req.tier, req.server, tool>>}
        last(S) == entries[CHOOSE i \in S : \A j \in S : j <= i].channel
    IN  IF of(req.tool) # {} THEN last(of(req.tool))
        ELSE IF of(WILDCARD) # {} THEN last(of(WILDCARD)) ELSE "nobody"

(* requestApprovalViaMatrix: the context that chose the channel and the    *)
(* request shown to the operator must be about the same call; then exactly *)
(* the resolved channel is asked, and no other when it does not answer.    *)
RequestViaMatrix ==
    /\ \E ctx, req \in PolicyRequest :
           routed' = [asked |-> IF ctx # req THEN "nobody" ELSE resolveEntry(matrix, ctx),
                      request |-> req]
    /\ UNCHANGED <<matrix, rules>>

addRule ==
    /\ Len(rules) < MaxRules + Len(DefaultRules)
    /\ \E r \in GateRule : rules' = <<r>> \o rules
    /\ UNCHANGED <<matrix, routed>>

MatrixNext == LoadMatrix \/ RequestViaMatrix
GatesNext == loadCustomRules \/ addRule
-----------------------------------------------------------------------------
(* The matrix holds entries only and the rule list ends in the defaults.   *)
PolicyTypeOK ==
    /\ matrix \in Seq(FreigabeEntry)
    /\ routed.asked \in Channels \union {"nobody"}
    /\ Len(rules) >= Len(DefaultRules)

(* Which channel decides depends on the matrix as a set: the order its     *)
(* entries are written in never changes who is asked, and whoever is asked *)
(* stands in an entry for that tier and server (freigabe-matrix.ts rejects *)
(* two entries of one specificity for this).                               *)
MatrixIsOrderFree ==
    /\ \A req \in PolicyRequest : resolveEntry(matrix, req) = resolveEntry(Reverse(matrix), req)
    /\ routed.asked # "nobody" =>
           \E i \in DOMAIN matrix : /\ matrix[i].channel = routed.asked
                                    /\ matrix[i].tier = routed.request.tier
                                    /\ matrix[i].server = routed.request.server

(* Access to a credential runs without approval only where an operator's   *)
(* own rule for that requester says so: no default reaches past the        *)
(* credential rule (approval-gates.ts, custom rules before defaults, first *)
(* match decides).                                                         *)
CredentialsAreGated ==
    \A q \in GateRequesters : evaluate(rules, "credential.read", q) = "auto" =>
        \E i \in 1..(Len(rules) - Len(DefaultRules)) :
            Applies(rules[i], "credential.read", q) /\ rules[i].action = "auto"
=============================================================================
