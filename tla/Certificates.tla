---------------------------- MODULE Certificates ----------------------------
(***************************************************************************)
(* The TLS material of a node: loadOrCreateTlsBundle with every write and  *)
(* every crash between two writes (tls.ts), the migration of a legacy      *)
(* identity under its lock file, the expiry monitor                        *)
(* (cert-expiry-monitor.ts), and on the admin node the issuance of         *)
(* canonical certificates against a nonce and a proof of possession        *)
(* (cert-issuer.ts, cert-issuance-api.ts, cert-pop.ts, cert-request.ts)    *)
(* and the revocation list (crl.ts).                                       *)
(*                                                                         *)
(* A key is a number, 0 for none; a certificate carries the key of the CA  *)
(* that signed it, its own key, its SPIFFE name and its last day.          *)
(***************************************************************************)
EXTENDS Integers, FiniteSets

CONSTANTS
    AdminKey,                  \* key of the CA that attests canonical identities
    MaxKeys,                   \* bound: keys this node generates
    CaValidity, NodeValidity,  \* CA_VALIDITY_DAYS, NODE_CERT_VALIDITY_DAYS
    RenewBefore,               \* cert.renew_before_days
    RecoverBefore,             \* checkCertExpiry's threshold
    MaxDay,                    \* bound: days modelled
    Nonces,                    \* nonces the store can hold
    NonceTtl, MaxNonceClock,   \* the nonce lifetime; bound: its clock
    Applicants, Csrs           \* peers that ask for a certificate; CSR keys

ASSUME CertificatesAssumption ==
    /\ {AdminKey, MaxKeys, CaValidity, NodeValidity, RenewBefore, RecoverBefore, MaxDay,
        NonceTtl, MaxNonceClock} \subseteq Nat
    /\ 4 <= MaxKeys /\ AdminKey > MaxKeys /\ RenewBefore < NodeValidity

VARIABLES
    dir,          \* the files below tls/
    setup,        \* what the operator configured
    boot,         \* the daemon: how far its start is, what it serves
    nextKey, day,
    migrateLock,  \* .migrate.lock: "free", "fresh" or "stale"
    tier,         \* last tier of the expiry monitor
    nonces, nonceClock, proofs, issued,
    crl, crlFile

tlsVars == <<dir, setup, boot, nextKey, day, migrateLock, tier>>
issueVars == <<nonces, nonceClock, proofs, issued>>
certVars == <<dir, setup, boot, nextKey, day, migrateLock, tier, nonces, nonceClock, proofs, issued, crl, crlFile>>

NoCrt == [by |-> 0, key |-> 0, san |-> "none", exp |-> 0]
Crt(by, key, san, exp) == [by |-> by, key |-> key, san |-> san, exp |-> exp]
EmptyDir == [caCrt |-> NoCrt, caKey |-> 0, nodeCrt |-> NoCrt, nodeKey |-> 0]
Down == [pc |-> "down", trusted |-> {}, since |-> 0, cert |-> NoCrt, key |-> 0, ca |-> NoCrt,
         anchor |-> 0, issues |-> 0]

CertificatesInit ==
    /\ dir = EmptyDir /\ setup = [kind |-> "none", pinned |-> FALSE, migrate |-> FALSE]
    /\ boot = Down /\ nextKey = 4 /\ day = 0 /\ migrateLock = "free" /\ tier = "unknown"
    /\ nonces = [n \in Nonces |-> -1] /\ nonceClock = 0 /\ proofs = {} /\ issued = {}
    /\ crl = {} /\ crlFile = {}

(* What a daemon finds: nothing, a directory of an old version (a CA whose *)
(* subject collides, or a node name that has changed), or one that came    *)
(* from onboarding, without a CA key.                                      *)
Provision(kind, pinned, migrate) ==
    /\ setup.kind = "none"
    /\ setup' = [kind |-> kind, pinned |-> pinned, migrate |-> migrate]
    /\ dir' = CASE kind = "fresh" -> EmptyDir
                [] kind = "legacyCa" -> [caCrt |-> Crt(1, 1, "legacyCa", CaValidity), caKey |-> 1,
                                         nodeCrt |-> Crt(1, 2, "host", NodeValidity), nodeKey |-> 2]
                [] kind = "renamed" -> [caCrt |-> Crt(1, 1, "ca", CaValidity), caKey |-> 1,
                                        nodeCrt |-> Crt(1, 2, "oldhost", NodeValidity), nodeKey |-> 2]
                [] kind = "token" -> [caCrt |-> Crt(AdminKey, AdminKey, "ca", MaxDay), caKey |-> 0,
                                      nodeCrt |-> Crt(AdminKey, 2, "host", NodeValidity), nodeKey |-> 2]
    /\ UNCHANGED <<boot, nextKey, day, migrateLock, tier>>

notExpired(c) == day <= c.exp

(* Faulty: a CA key of another generation is not noticed.                  *)
caUsableUnpaired(d) == d.caCrt # NoCrt /\ d.caKey # 0 /\ d.caCrt.san # "legacyCa" /\ notExpired(d.caCrt)

(* The CA is kept when both files are there, it has the current subject    *)
(* format, is valid, and certificate and key are one pair.                 *)
caUsable(d) ==
    /\ d.caCrt # NoCrt /\ d.caKey # 0 /\ d.caCrt.san # "legacyCa" /\ notExpired(d.caCrt)
    /\ d.caKey = d.caCrt.key
onboarded(d) == d.caCrt # NoCrt /\ d.caKey = 0 /\ d.nodeCrt # NoCrt /\ d.nodeKey # 0

(* verifyPeerCert and the pair check of an onboarded bundle.               *)
onboardedValid(d) == d.nodeKey = d.nodeCrt.key /\ d.nodeCrt.by = d.caCrt.key /\ notExpired(d.nodeCrt) /\ notExpired(d.caCrt)

(* selectTrustDistributionCa: pairing hands out the CA that verifies the   *)
(* certificate served, the attesting one or the node's own; 0 if neither.  *)
anchorOf(cert) == IF cert.by = dir.caCrt.key \/ (setup.pinned /\ cert.by = AdminKey) THEN cert.by ELSE 0

(* Certificates are issued with the CA key on disk, if there is one and    *)
(* this node's own certificate is signed by the CA on disk (index.ts).     *)
issuesWith(cert) == IF cert.by = dir.caCrt.key THEN dir.caKey ELSE 0

Serve(cert, key) ==
    boot' = [boot EXCEPT !.pc = "up", !.since = day, !.cert = cert, !.key = key, !.ca = dir.caCrt,
                         !.anchor = anchorOf(cert), !.issues = issuesWith(cert)]

(* The attesting CAs: the pinned one, else the CA found on disk (index.ts).*)
attestingCas == IF setup.pinned THEN {AdminKey} ELSE {dir.caCrt.key} \ {0}

(* loadOrCreateTlsBundle begins with the CA.                               *)
StartTls ==
    /\ boot.pc = "down" /\ setup.kind # "none"
    /\ LET at(pc) == boot' = [boot EXCEPT !.pc = pc, !.trusted = attestingCas, !.since = day]
       IN  IF onboarded(dir)
           THEN \/ onboardedValid(dir) /\ Serve(dir.nodeCrt, dir.nodeKey)
                \/ ~onboardedValid(dir) /\ at("refused")
           ELSE IF caUsable(dir) THEN at("node") ELSE at("caCrt")
    /\ UNCHANGED <<dir, setup, nextKey, day, migrateLock, tier>>

(* createMeshCA, and the two files it is written to.                       *)
WriteCaCrt ==
    /\ boot.pc = "caCrt" /\ nextKey <= MaxKeys
    /\ dir' = [dir EXCEPT !.caCrt = Crt(nextKey, nextKey, "ca", day + CaValidity)]
    /\ boot' = [boot EXCEPT !.pc = "caKey", !.key = nextKey] /\ nextKey' = nextKey + 1
    /\ UNCHANGED <<setup, day, migrateLock, tier>>
WriteCaKey ==
    /\ boot.pc = "caKey" /\ dir' = [dir EXCEPT !.caKey = boot.key]
    /\ boot' = [boot EXCEPT !.pc = "issue"]
    /\ UNCHANGED <<setup, nextKey, day, migrateLock, tier>>

(* The node certificate under a CA that was kept.                          *)
sound == dir.nodeCrt # NoCrt /\ notExpired(dir.nodeCrt) /\ dir.nodeKey = dir.nodeCrt.key
byCa == dir.nodeCrt.by = dir.caCrt.key
early == dir.nodeCrt.exp - day > RenewBefore
isRetainableCanonicalCert == dir.nodeCrt.san = "node" /\ dir.nodeCrt.by \in boot.trusted
migratable == setup.migrate /\ sound /\ byCa /\ dir.nodeCrt.san \in {"host", "oldhost"}
retainable == sound /\ early /\ ((dir.nodeCrt.san = "host" /\ byCa) \/ isRetainableCanonicalCert)

JudgeNodeCert ==
    /\ boot.pc = "node"
    /\ \/ migratable /\ boot' = [boot EXCEPT !.pc = "lock"]
       \/ ~migratable /\ boot' = [boot EXCEPT !.pc = "retain"]
    /\ UNCHANGED <<dir, setup, nextKey, day, migrateLock, tier>>

(* acquireMigrationLock: a free lock is taken, a stale one stolen, and on  *)
(* a fresh one (of a process that died) the wait ends without migration.   *)
AcquireMigrationLock ==
    /\ boot.pc = "lock"
    /\ \/ migrateLock # "fresh" /\ migrateLock' = "fresh" /\ boot' = [boot EXCEPT !.pc = "migrate"]
       \/ migrateLock = "fresh" /\ UNCHANGED migrateLock /\ boot' = [boot EXCEPT !.pc = "retain"]
    /\ UNCHANGED <<dir, setup, nextKey, day, tier>>

(* migrateLegacyCertToCanonical: one rename; the key stays.  A failed      *)
(* write leaves the old certificate.                                       *)
Migrate ==
    /\ boot.pc = "migrate" /\ migrateLock' = "free"
    /\ \/ LET cert == Crt(dir.caCrt.key, dir.nodeKey, "node", day + NodeValidity)
          IN  dir' = [dir EXCEPT !.nodeCrt = cert] /\ Serve(cert, dir.nodeKey)
       \/ boot' = [boot EXCEPT !.pc = "retain"] /\ UNCHANGED dir
    /\ UNCHANGED <<setup, nextKey, day, tier>>

Retain ==
    /\ boot.pc = "retain"
    /\ \/ retainable /\ Serve(dir.nodeCrt, dir.nodeKey)
       \/ ~retainable /\ boot' = [boot EXCEPT !.pc = "issue"]
    /\ UNCHANGED <<dir, setup, nextKey, day, migrateLock, tier>>

(* createNodeCert: the certificate file, then the key file.                *)
WriteNodeCrt ==
    /\ boot.pc = "issue" /\ nextKey <= MaxKeys
    /\ dir' = [dir EXCEPT !.nodeCrt = Crt(dir.caKey, nextKey, "host", day + NodeValidity)]
    /\ boot' = [boot EXCEPT !.pc = "nodeKey", !.key = nextKey] /\ nextKey' = nextKey + 1
    /\ UNCHANGED <<setup, day, migrateLock, tier>>
WriteNodeKey ==
    /\ boot.pc = "nodeKey" /\ dir' = [dir EXCEPT !.nodeKey = boot.key]
    /\ Serve(dir.nodeCrt, boot.key)
    /\ UNCHANGED <<setup, nextKey, day, migrateLock, tier>>

(* The daemon dies or is stopped at any point; a held lock ages.           *)
TlsDies ==
    /\ boot.pc # "down" /\ boot' = Down
    /\ UNCHANGED <<dir, setup, nextKey, day, migrateLock, tier>>
LockAges ==
    /\ migrateLock = "fresh" /\ boot.pc # "migrate" /\ migrateLock' = "stale"
    /\ UNCHANGED <<dir, setup, boot, nextKey, day, tier>>

(* The operator installs a certificate the admin issued (requestNodeCert). *)
InstallCanonical ==
    /\ boot.pc = "down" /\ setup.kind \in {"fresh", "renamed"} /\ dir.caKey # 0 /\ nextKey <= MaxKeys
    /\ dir' = [dir EXCEPT !.nodeCrt = Crt(AdminKey, nextKey, "node", day + NodeValidity), !.nodeKey = nextKey]
    /\ nextKey' = nextKey + 1
    /\ UNCHANGED <<setup, boot, day, migrateLock, tier>>

CertDayPasses ==
    /\ day < MaxDay /\ boot.pc \in {"down", "up"} /\ day' = day + 1
    /\ UNCHANGED <<dir, setup, boot, nextKey, migrateLock, tier>>

(* checkCertExpiry of recovery.ts: a certificate about to expire is        *)
(* deleted, then its key, unless the CA key is missing; a crash may leave  *)
(* the key behind.                                                         *)
RecoverCert ==
    /\ boot.pc = "down" /\ dir.nodeCrt # NoCrt /\ dir.nodeCrt.exp - day <= RecoverBefore
    /\ ~(dir.caCrt # NoCrt /\ dir.caKey = 0)
    /\ \E k \in {0, dir.nodeKey} : dir' = [dir EXCEPT !.nodeCrt = NoCrt, !.nodeKey = k]
    /\ UNCHANGED <<setup, boot, nextKey, day, migrateLock, tier>>

(* runCertExpiryCheck of the node certificate on disk.                     *)
ExpiryCheck ==
    /\ boot.pc = "up"
    /\ tier' = IF dir.nodeCrt.exp - day <= 0 THEN "critical"
               ELSE IF dir.nodeCrt.exp - day <= RenewBefore THEN "warn" ELSE "ok"
    /\ UNCHANGED <<dir, setup, boot, nextKey, day, migrateLock>>

TlsNext ==
    \/ \E kind \in {"fresh", "legacyCa", "renamed", "token"}, pinned, migrate \in BOOLEAN :
           Provision(kind, pinned, migrate)
    \/ StartTls \/ WriteCaCrt \/ WriteCaKey \/ JudgeNodeCert \/ AcquireMigrationLock \/ Migrate \/ Retain
    \/ WriteNodeCrt \/ WriteNodeKey \/ TlsDies \/ LockAges \/ InstallCanonical \/ CertDayPasses \/ ExpiryCheck
    \/ RecoverCert

(***************************************************************************)
(* Issuance on the admin node.                                             *)
(***************************************************************************)
liveNonce(n) == nonces[n] >= nonceClock

(* NonceStore.issue                                                        *)
withNonce(n) == [m \in Nonces |-> IF m = n THEN nonceClock + NonceTtl ELSE IF liveNonce(m) THEN nonces[m] ELSE -1]

(* POST /api/cert/nonce: expired nonces go, and the store is bounded.      *)
IssueNonce(n) ==
    /\ ~liveNonce(n) /\ n \notin {i.nonce : i \in issued}
    /\ nonces' = withNonce(n)
    /\ UNCHANGED <<nonceClock, proofs, issued>>

(* buildCertPopMessage: the fields the signature covers.                   *)
PopMessage(p, n, csr, ca) == [by |-> p, nonce |-> n, csr |-> csr, ca |-> ca]

(* buildCertSignRequest: an applicant signs the fields, for this CA or     *)
(* (after asking another admin) for another one.                           *)
SignProof(p, n, csr, ca) ==
    /\ nonces[n] >= 0 /\ Cardinality(proofs) < 2
    /\ proofs' = proofs \cup {PopMessage(p, n, csr, ca)}
    /\ UNCHANGED <<nonces, nonceClock, issued>>

(* Faulty: a nonce can be used until it expires.                           *)
nonceKept(n) == nonces[n]

(* consume: the nonce goes in every case.                                  *)
nonceAfter(n) == -1

(* verifyCertPop: the peer derives from the key, the URI names the peer,   *)
(* the CA is this one and the signature covers exactly these fields.       *)
proven(proof, req) ==
    /\ req.peer = proof.by /\ req.uri = req.peer
    /\ proof = PopMessage(proof.by, req.nonce, req.csr, AdminKey)

(* signNodeCertFromCsr: the certificate of the proven identity and key.    *)
signNodeCertFromCsr(req) == [nonce |-> req.nonce, uri |-> req.uri, csr |-> req.csr]

(* POST /api/cert/sign, first or repeated, with a proof and the fields the *)
(* request states.                                                         *)
VerifyAndIssue(proof, req) ==
    /\ LET granted == liveNonce(req.nonce) /\ proven(proof, req)
       IN  /\ nonces' = [nonces EXCEPT ![req.nonce] = nonceAfter(req.nonce)]
           /\ issued' = IF granted THEN issued \cup {signNodeCertFromCsr(req)} ELSE issued
    /\ UNCHANGED <<nonceClock, proofs>>

NonceTime ==
    /\ nonceClock < MaxNonceClock /\ nonceClock' = nonceClock + 1
    /\ UNCHANGED <<nonces, proofs, issued>>

IssueNext ==
    \/ \E n \in Nonces : IssueNonce(n)
    \/ \E p \in Applicants, n \in Nonces, csr \in Csrs, ca \in {AdminKey, 0} : SignProof(p, n, csr, ca)
    \/ \E proof \in proofs, n \in Nonces, peer, uri \in Applicants, csr \in Csrs :
           VerifyAndIssue(proof, [nonce |-> n, peer |-> peer, uri |-> uri, csr |-> csr])
    \/ NonceTime

(***************************************************************************)
(* crl.ts.  A save that fails is logged and forgotten.                     *)
(***************************************************************************)
SaveCrl(list) == crl' = list /\ crlFile' \in {list, crlFile}
RevokeCert(c) == SaveCrl(crl \cup {c})
UnrevokeCert(c) == c \in crl /\ SaveCrl(crl \ {c})
LoadCrl == crl' = crlFile /\ UNCHANGED crlFile

CrlNext == (\E c \in Csrs : RevokeCert(c) \/ UnrevokeCert(c)) \/ LoadCrl

CertificatesTypeOK ==
    /\ boot.pc \in {"down", "caCrt", "caKey", "node", "lock", "migrate", "retain", "issue", "nodeKey", "up", "refused"}
    /\ nextKey \in 4..(MaxKeys + 1) /\ day \in 0..MaxDay /\ migrateLock \in {"free", "fresh", "stale"}
    /\ \A i \in issued : i.nonce \in Nonces /\ i.uri \in Applicants /\ i.csr \in Csrs

(***************************************************************************)
(* Properties.                                                             *)
(***************************************************************************)

(* Whatever an earlier start left behind, a daemon that is up serves a     *)
(* certificate that matches its key, was valid when it started, names this *)
(* node, and verifies against its own CA or the pinned one; pairing hands  *)
(* out the CA that verifies it, and what this node issues verifies under   *)
(* the CA it serves.                                                       *)
ServedIsCoherent ==
    boot.pc = "up" =>
        /\ boot.cert.key = boot.key /\ boot.cert.exp >= boot.since /\ boot.ca.exp >= boot.since
        /\ boot.cert.by = boot.ca.key \/ (setup.pinned /\ boot.cert.by = AdminKey)
        /\ setup.kind # "token" => boot.cert.san # "oldhost"
        /\ boot.anchor = boot.cert.by /\ boot.issues \in {0, boot.ca.key}

(* Only an onboarded node, which has no CA key to sign with, can be left   *)
(* without a usable bundle; no crash turns another node into one.          *)
OwnCaStarts == boot.pc = "refused" => setup.kind = "token"

(* A nonce yields at most one certificate, and each certificate binds the  *)
(* identity and the key that its applicant signed for this CA.             *)
IssuedIsProven ==
    /\ \A i \in issued : PopMessage(i.uri, i.nonce, i.csr, AdminKey) \in proofs
    /\ \A i, j \in issued : i.nonce = j.nonce => i = j
=============================================================================
