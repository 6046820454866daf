----------------------------- MODULE HostProofs -----------------------------
(***************************************************************************)
(* Proofs about what a host keeps for its agents and for itself: its       *)
(* stores, its identity and certificates, its agents' sessions and the     *)
(* skills it runs.                                                         *)
(***************************************************************************)
EXTENDS Stores, Identity, Certificates, Sessions, Capabilities, Skills, Peers, Sandbox,
        FiniteSetTheorems, SequenceTheorems, WellFoundedInduction, TLAPS

-----------------------------------------------------------------------------
(* What no step undoes. *)

ActivationTypeOK ==
    /\ activation \in [CapOwners -> Rows] /\ revokedAt \in [CapOwners -> 0..MaxRowAge]
    /\ rowClock \in 1..MaxRowAge

LEMMA ActivationInit == CapInit => ActivationTypeOK
  BY CapAssumption DEF CapInit, ActivationTypeOK, Rows

LEMMA ActivationStep == ActivationTypeOK /\ [ActivationNext]_activationVars => ActivationTypeOK'
  <1> SUFFICES ASSUME ActivationTypeOK, [ActivationNext]_activationVars
               PROVE  ActivationTypeOK'
    OBVIOUS
  <1> USE CapAssumption DEF ActivationTypeOK, Rows
  <1>1. ASSUME NEW o \in CapOwners, HandlePeerAnnouncement(o) PROVE ActivationTypeOK'
    <2>1. activate(discover(activation[o])) \in Rows
      BY DEF activate, discover
    <2> QED BY <1>1, <2>1 DEF HandlePeerAnnouncement
  <1>2. ASSUME NEW o \in CapOwners, SuspendCapability(o) PROVE ActivationTypeOK'
    BY <1>2 DEF SuspendCapability
  <1>3. ASSUME NEW o \in CapOwners, RevokeCapability(o) PROVE ActivationTypeOK'
    BY <1>3 DEF RevokeCapability
  <1>4. CASE PruneRevoked
    BY <1>4 DEF PruneRevoked
  <1>5. CASE RowTime
    BY <1>5 DEF RowTime
  <1>6. CASE UNCHANGED activationVars
    BY <1>6 DEF activationVars
  <1> QED BY <1>1, <1>2, <1>3, <1>4, <1>5, <1>6 DEF ActivationNext

\* The step of RevokedIsKept.
RevokedStays ==
    \A o \in CapOwners : activation[o] = "revoked" =>
        \/ activation'[o] = "revoked"
        \/ activation'[o] = "none" /\ rowClock - revokedAt[o] > Retention

LEMMA RevokedStaysStep == ActivationTypeOK /\ [ActivationNext]_activationVars => RevokedStays
  <1> SUFFICES ASSUME ActivationTypeOK, [ActivationNext]_activationVars,
                      NEW o \in CapOwners, activation[o] = "revoked",
                      activation'[o] # "revoked"
               PROVE  activation'[o] = "none" /\ rowClock - revokedAt[o] > Retention
    BY DEF RevokedStays
  <1> USE CapAssumption DEF ActivationTypeOK
  <1>1. ASSUME NEW p \in CapOwners, HandlePeerAnnouncement(p) PROVE FALSE
    BY <1>1 DEF HandlePeerAnnouncement, activate, discover
  <1>2. ASSUME NEW p \in CapOwners, SuspendCapability(p) PROVE FALSE
    BY <1>2 DEF SuspendCapability
  <1>3. ASSUME NEW p \in CapOwners, RevokeCapability(p) PROVE FALSE
    BY <1>3 DEF RevokeCapability
  <1>4. CASE PruneRevoked
    BY <1>4 DEF PruneRevoked, pruned
  <1>5. CASE RowTime
    BY <1>5 DEF RowTime
  <1>6. CASE UNCHANGED activationVars
    BY <1>6 DEF activationVars
  <1> QED BY <1>1, <1>2, <1>3, <1>4, <1>5, <1>6 DEF ActivationNext

LifeTypeOK ==
    life \in [status : {"none", "active", "deprecated", "expired", "disabled"},
              installed : Nat, used : Nat, expires : Nat] /\ today \in 1..MaxDays

LEMMA LifeInits == LifeInit => LifeTypeOK
  BY SkillsAssumption DEF LifeInit, LifeTypeOK, NoLife

\* The step of GcSparesActive.
SparesActive == life # NoLife /\ life' = NoLife => life.status # "active"

LEMMA LifeStep == LifeTypeOK /\ [LifeNext]_lifeVars => LifeTypeOK' /\ SparesActive
  <1> SUFFICES ASSUME LifeTypeOK, [LifeNext]_lifeVars PROVE LifeTypeOK' /\ SparesActive
    OBVIOUS
  <1> USE SkillsAssumption DEF LifeTypeOK, SparesActive
  <1>1. CASE RegisterSkill
    BY <1>1 DEF RegisterSkill, NoLife
  <1>2. CASE RecordUsage
    BY <1>2 DEF RecordUsage, NoLife
  <1>3. CASE Deprecate
    BY <1>3 DEF Deprecate, NoLife
  <1>4. CASE Disable
    BY <1>4 DEF Disable, NoLife
  <1>5. CASE Enable
    BY <1>5 DEF Enable, NoLife
  <1>6. CASE Gc
    <2>1. CASE life.status = "active"
      BY <1>6, <2>1 DEF Gc, collected, NoLife
    <2>2. CASE life.status # "active"
      <3>1. collected \in {NoLife, life}
        BY <2>2, Zenon DEF collected
      <3>2. NoLife \in [status : {"none", "active", "deprecated", "expired", "disabled"},
                        installed : Nat, used : Nat, expires : Nat]
        BY DEF NoLife
      <3> QED BY <1>6, <2>2, <3>1, <3>2, Zenon DEF Gc
    <2> QED BY <2>1, <2>2
  <1>7. CASE SkillDayPasses
    BY <1>7 DEF SkillDayPasses
  <1>8. CASE UNCHANGED lifeVars
    BY <1>8 DEF lifeVars
  <1> QED BY <1>1, <1>2, <1>3, <1>4, <1>5, <1>6, <1>7, <1>8 DEF LifeNext

\* The step of FlushKeepsLoaded.
LoadedStays ==
    \A p \in KnownPeers :
        cacheFile' # cacheFile /\ bootTargets[p] # NoLocator => cacheFile'[p] # NoLocator

LEMMA FlushStep == [LearnNext]_learnVars => LoadedStays
  <1> SUFFICES ASSUME [LearnNext]_learnVars, cacheFile' # cacheFile,
                      NEW p \in KnownPeers, bootTargets[p] # NoLocator
               PROVE  cacheFile'[p] # NoLocator
    BY DEF LoadedStays
  <1>1. FlushPeerCache
    BY DEF LearnNext, learnVars, LearnInbound, RelearnPeer, PeerMoves, CardArrives, FetchThrows,
           Reboot, PeerTime
  <1> QED BY <1>1 DEF FlushPeerCache, mergeLocators

-----------------------------------------------------------------------------
(* The stores. *)

AuditRow == [prev : Nat, hash : Nat]

AuditIInv ==
    /\ auditRows \in Seq(AuditRow) /\ auditSynced \in Nat /\ attempts \in Nat /\ lastHash \in Nat
    /\ AuditIsChained

LEMMA AuditInit == StoresInit => AuditIInv
  BY DEF StoresInit, AuditIInv, AuditIsChained, Genesis

LEMMA AuditStep == AuditIInv /\ [AuditNext]_auditVars => AuditIInv'
  <1> SUFFICES ASSUME AuditIInv, [AuditNext]_auditVars PROVE AuditIInv'
    OBVIOUS
  <1> USE DEF AuditIInv
  <1>1. CASE AppendEvent
    <2> DEFINE row == [prev |-> lastHash, hash |-> attempts + 1]
    <2>1. row \in AuditRow /\ row.prev = lastHash /\ row.hash = attempts + 1
      BY DEF AuditRow
    <2>2. auditRows' = Append(auditRows, row) /\ lastHash' = attempts + 1
          /\ attempts' = attempts + 1 /\ auditSynced' = auditSynced
      BY <1>1 DEF AppendEvent
    <2> HIDE DEF row
    <2>3. /\ auditRows' \in Seq(AuditRow) /\ Len(auditRows') = Len(auditRows) + 1
          /\ auditRows'[Len(auditRows) + 1] = row
          /\ \A i \in 1..Len(auditRows) : auditRows'[i] = auditRows[i]
      BY <2>1, <2>2
    <2>4. \A i \in 1..Len(auditRows') :
              auditRows'[i].prev = IF i = 1 THEN Genesis ELSE auditRows'[i - 1].hash
      <3> SUFFICES ASSUME NEW i \in 1..Len(auditRows')
                   PROVE  auditRows'[i].prev = IF i = 1 THEN Genesis ELSE auditRows'[i - 1].hash
        OBVIOUS
      <3>1. CASE i = Len(auditRows) + 1
        BY <2>1, <2>3, <3>1 DEF AuditIsChained
      <3>2. CASE i \in 1..Len(auditRows)
        BY <2>3, <3>2 DEF AuditIsChained
      <3> QED BY <2>3, <3>1, <3>2
    <2>5. lastHash' = auditRows'[Len(auditRows')].hash /\ auditRows' # <<>>
      BY <2>1, <2>2, <2>3
    <2>6. AuditIsChained'
      BY <2>4, <2>5 DEF AuditIsChained
    <2> QED BY <2>2, <2>3, <2>6
  <1>2. CASE AppendThrows
    BY <1>2 DEF AppendThrows, AuditIsChained
  <1>3. CASE Checkpoint
    BY <1>3 DEF Checkpoint, AuditIsChained
  <1>4. CASE ReopenAudit
    <2>1. PICK kept \in auditSynced..Len(auditRows) :
              /\ auditRows' = SubSeq(auditRows, 1, kept)
              /\ auditSynced' = kept
              /\ lastHash' = IF kept = 0 THEN Genesis ELSE auditRows[kept].hash
              /\ UNCHANGED attempts
      BY <1>4 DEF ReopenAudit
    <2>2. kept \in 0..Len(auditRows)
      OBVIOUS
    <2>3. /\ auditRows' \in Seq(AuditRow) /\ Len(auditRows') = kept
          /\ \A i \in 1..kept : auditRows'[i] = auditRows[i]
      BY <2>1, <2>2
    <2>4. auditRows' = <<>> <=> kept = 0
      BY <2>2, <2>3
    <2>5. \A i \in 1..Len(auditRows') :
              auditRows'[i].prev = IF i = 1 THEN Genesis ELSE auditRows'[i - 1].hash
      BY <2>2, <2>3 DEF AuditIsChained
    <2>6. lastHash' = IF auditRows' = <<>> THEN Genesis ELSE auditRows'[Len(auditRows')].hash
      BY <2>1, <2>2, <2>3, <2>4
    <2>7. lastHash' \in Nat
      <3>1. \A i \in 1..Len(auditRows) : auditRows[i] \in AuditRow
        OBVIOUS
      <3> QED BY <2>1, <2>2, <3>1 DEF Genesis, AuditRow
    <2>8. AuditIsChained'
      BY <2>5, <2>6 DEF AuditIsChained
    <2> QED BY <2>1, <2>2, <2>3, <2>7, <2>8
  <1>5. CASE UNCHANGED auditVars
    BY <1>5 DEF auditVars, AuditIsChained
  <1> QED BY <1>1, <1>2, <1>3, <1>4, <1>5 DEF AuditNext

\* The audit log is one chain from its first row to lastHash, whatever inserts
\* fail and whatever a power loss takes from its end (audit.ts).
THEOREM AuditIsChainedHolds == StoresInit /\ [][AuditNext]_auditVars => []AuditIsChained
  <1>1. AuditIInv => AuditIsChained
    BY DEF AuditIInv
  <1> QED BY AuditInit, AuditStep, <1>1, PTL

\* The passphrase kept: the keychain's, else the file's.
InUse == IF keychain # 0 THEN keychain ELSE passFile

CredentialRow == [key : Nat, env : EnvSettings, expires : Nat]
SecretRow == [name : CredentialNames \cup {"none"},
              status : {"none", "pending", "approved", "denied"},
              answer : {"none", "pending", "approved", "denied"}]

\* A row is encrypted with the passphrase of the environment it was stored
\* under, and so does the process hold its own; for the kept one that goes only
\* while no start lost it, and then its two places agree.
KeyFits(key, env, lapsed, kept) ==
    (env = 0 => ~lapsed) => key = (IF env # 0 THEN env ELSE kept) /\ key # 0
VaultIInv ==
    /\ keychain \in Nat /\ passFile \in Nat /\ generated \in Nat /\ boots \in Nat
    /\ vaultEnv \in EnvSettings /\ vaultKey \in Nat /\ vaultLapsed \in BOOLEAN /\ vaultClock \in Nat
    /\ credentials \in [CredentialNames -> CredentialRow]
    /\ secretRequests \in [SecretIds -> SecretRow]
    /\ ~vaultLapsed /\ keychain # 0 /\ passFile # 0 => keychain = passFile
    /\ vaultKey # 0 => KeyFits(vaultKey, vaultEnv, vaultLapsed, InUse)
    /\ \A n \in CredentialNames : credentials[n] # NoRow =>
          KeyFits(credentials[n].key, credentials[n].env, vaultLapsed, InUse)
    /\ DisclosureIsApproved

LEMMA VaultInit == StoresInit => VaultIInv
  <1> SUFFICES ASSUME StoresInit PROVE VaultIInv
    OBVIOUS
  <1>1. NoRow \in CredentialRow /\ NoSecretRequest \in SecretRow /\ NoSecretRequest.answer = "none"
    BY DEF NoRow, CredentialRow, EnvSettings, NoSecretRequest, SecretRow
  <1>2. /\ credentials \in [CredentialNames -> CredentialRow]
        /\ \A n \in CredentialNames : credentials[n] = NoRow
        /\ secretRequests \in [SecretIds -> SecretRow]
        /\ \A r \in SecretIds : secretRequests[r].answer = "none"
    BY <1>1 DEF StoresInit
  <1>3. DisclosureIsApproved
    BY <1>2 DEF DisclosureIsApproved
  <1> QED BY <1>2, <1>3 DEF StoresInit, EnvSettings, VaultIInv

\* A step that leaves the passphrases alone, and writes rows of the key in use.
LEMMA RowsKeepKey ==
    ASSUME VaultIInv, UNCHANGED <<keychain, passFile, generated, boots, vaultEnv, vaultLapsed>>,
           vaultKey' \in {0, vaultKey}, vaultClock' \in Nat,
           credentials' \in [CredentialNames -> CredentialRow],
           \A n \in CredentialNames :
               credentials'[n] \in {NoRow, credentials[n]}
               \/ (vaultKey # 0 /\ credentials'[n].key = vaultKey /\ credentials'[n].env = vaultEnv),
           secretRequests' \in [SecretIds -> SecretRow], DisclosureIsApproved'
    PROVE  VaultIInv'
  <1> USE DEF VaultIInv
  <1>1. InUse' = InUse
    BY DEF InUse
  <1>2. ASSUME NEW n \in CredentialNames, credentials'[n] # NoRow
        PROVE  KeyFits(credentials'[n].key, credentials'[n].env, vaultLapsed', InUse')
    BY <1>1, <1>2
  <1>3. vaultKey' # 0 => KeyFits(vaultKey', vaultEnv', vaultLapsed', InUse')
    BY <1>1
  <1>4. /\ keychain' \in Nat /\ passFile' \in Nat /\ generated' \in Nat /\ boots' \in Nat
        /\ vaultEnv' \in EnvSettings /\ vaultKey' \in Nat /\ vaultLapsed' \in BOOLEAN
        /\ ~vaultLapsed' /\ keychain' # 0 /\ passFile' # 0 => keychain' = passFile'
    OBVIOUS
  <1> QED BY <1>2, <1>3, <1>4

LEMMA BootStep ==
    ASSUME VaultIInv, NEW k \in Keychain, NEW env \in EnvSettings, BootVault(k, env)
    PROVE  VaultIInv'
  <1> USE DEF VaultIInv
  <1> DEFINE got == keychainGet(k)
             pass == loadPassphrase(k, env)
  <1>1. /\ vaultKey' = pass /\ vaultEnv' = env
        /\ keychain' = IF env = 0 /\ got = 0 /\ keychainSet(k) THEN pass ELSE keychain
        /\ passFile' = IF env = 0 /\ got = 0 /\ passFile = 0 /\ ~keychainSet(k) THEN pass ELSE passFile
        /\ vaultLapsed' = (vaultLapsed \/ (env = 0 /\ keychain # 0 /\ k # "ok" /\ pass # keychain))
        /\ UNCHANGED <<credentials, tombstones, secretRequests, vaultClock>>
    BY DEF BootVault
  <1>2. boots' \in Nat /\ generated' \in Nat
    BY DEF BootVault
  <1>3. got = IF k = "ok" THEN keychain ELSE 0
    BY DEF keychainGet
  <1>4. pass = IF env # 0 THEN env ELSE IF got # 0 THEN got
               ELSE IF passFile # 0 THEN passFile ELSE generated + 1
    BY DEF loadPassphrase
  <1>5. keychainSet(k) <=> k \in {"ok", "unreadable"}
    BY DEF keychainSet
  <1> HIDE DEF got, pass
  <1>6. pass \in Nat /\ pass # 0
    BY <1>3, <1>4, StoresAssumption DEF EnvSettings
  <1>7. ASSUME ~vaultLapsed', env = 0
        PROVE  /\ (keychain' # 0 /\ passFile' # 0) => keychain' = passFile'
               /\ InUse' = pass
               /\ InUse # 0 => InUse = pass
    <2>1. ~vaultLapsed /\ (keychain # 0 /\ k # "ok" => pass = keychain)
      BY <1>1, <1>7
    <2>2. (keychain # 0 /\ passFile # 0) => keychain = passFile
      BY <2>1
    <2>3. CASE k = "ok"
      BY <1>1, <1>3, <1>4, <1>5, <1>6, <1>7, <2>2, <2>3 DEF InUse
    <2>4. CASE k # "ok" /\ keychain = 0
      BY <1>1, <1>3, <1>4, <1>5, <1>6, <1>7, <2>2, <2>4 DEF InUse
    <2>5. CASE k # "ok" /\ keychain # 0
      BY <1>1, <1>3, <1>4, <1>5, <1>6, <1>7, <2>1, <2>2, <2>5 DEF InUse
    <2> QED BY <2>3, <2>4, <2>5
  <1>8. env # 0 => UNCHANGED <<keychain, passFile, vaultLapsed>> /\ InUse' = InUse /\ pass = env
    BY <1>1, <1>4 DEF InUse
  <1>9. KeyFits(vaultKey', vaultEnv', vaultLapsed', InUse')
    BY <1>1, <1>6, <1>7, <1>8 DEF KeyFits
  <1>10. ASSUME NEW n \in CredentialNames, credentials'[n] # NoRow
         PROVE  KeyFits(credentials'[n].key, credentials'[n].env, vaultLapsed', InUse')
    <2>1. /\ KeyFits(credentials[n].key, credentials[n].env, vaultLapsed, InUse)
          /\ credentials' = credentials
      BY <1>1, <1>10
    <2>2. ~vaultLapsed' => ~vaultLapsed /\ (InUse # 0 => InUse' = InUse)
      BY <1>1, <1>7, <1>8
    <2> QED BY <2>1, <2>2 DEF KeyFits
  <1>11. /\ keychain' \in Nat /\ passFile' \in Nat /\ vaultKey' \in Nat /\ vaultLapsed' \in BOOLEAN
         /\ credentials' = credentials /\ secretRequests' = secretRequests /\ vaultClock' = vaultClock
         /\ vaultEnv' \in EnvSettings
    BY <1>1, <1>6
  <1>12. DisclosureIsApproved'
    BY <1>11 DEF DisclosureIsApproved
  <1>13. ~vaultLapsed' /\ keychain' # 0 /\ passFile' # 0 => keychain' = passFile'
    BY <1>7, <1>8
  <1> QED BY <1>2, <1>9, <1>10, <1>11, <1>12, <1>13

\* The step of NothingExpiredIsDisclosed.
DisclosesLive ==
    \A r \in SecretIds :
        secretRequests'[r].answer = "approved" /\ secretRequests[r].answer # "approved" =>
            LET row == credentials[secretRequests'[r].name]
            IN  row # NoRow /\ (row.expires = 0 \/ row.expires >= vaultClock)

LEMMA SecretStep ==
    ASSUME VaultIInv, NEW r \in SecretIds, NEW n \in CredentialNames, NEW paired \in BOOLEAN,
           SecretRequest(r, n, paired)
    PROVE  VaultIInv' /\ DisclosesLive
  <1> USE DEF VaultIInv
  <1> DEFINE got == retrieve(n)
             answer == CASE got = "absent" -> "denied" [] got = "throws" -> "none"
                         [] got = "value" /\ paired -> "approved" [] OTHER -> "pending"
             status == IF answer = "approved" THEN "approved" ELSE "pending"
             req == [name |-> n, answer |-> answer, status |-> status]
  <1>1. /\ vaultKey # 0 /\ secretRequests[r] = NoSecretRequest
        /\ secretRequests' = [secretRequests EXCEPT ![r] = req]
        /\ credentials' \in cleanExpired
        /\ UNCHANGED <<keychain, passFile, generated, boots, vaultEnv, vaultKey, vaultLapsed, vaultClock>>
    BY DEF SecretRequest
  <1>2. answer \in {"none", "pending", "approved", "denied"}
    BY Zenon
  <1>3. answer = "approved" => got = "value"
    BY Zenon
  <1>4. got = "value" => /\ credentials[n] # NoRow
                         /\ ~(credentials[n].expires # 0 /\ credentials[n].expires < vaultClock)
    BY Zenon DEF retrieve
  <1> HIDE DEF got, answer
  <1>5. /\ req \in SecretRow /\ req.name = n /\ req.answer = answer
        /\ req.answer = "approved" => req.status = "approved"
    BY <1>2 DEF SecretRow
  <1> HIDE DEF req, status
  <1>6. /\ secretRequests' \in [SecretIds -> SecretRow] /\ secretRequests'[r] = req
        /\ \A q \in SecretIds : q # r => secretRequests'[q] = secretRequests[q]
    BY <1>1, <1>5
  <1>7. DisclosureIsApproved'
    BY <1>5, <1>6 DEF DisclosureIsApproved
  <1>8. /\ credentials' \in [CredentialNames -> CredentialRow]
        /\ \A m \in CredentialNames : credentials'[m] \in {NoRow, credentials[m]}
    <2>1. NoRow \in CredentialRow
      BY DEF NoRow, CredentialRow, EnvSettings
    <2>2. {NoRow} \cup {credentials[m] : m \in CredentialNames} \subseteq CredentialRow
      BY <2>1
    <2> QED BY <1>1, <2>2 DEF cleanExpired
  <1>9. VaultIInv'
    <2> HIDE DEF VaultIInv
    <2>1. vaultClock \in Nat
      BY DEF VaultIInv
    <2> QED BY <1>1, <1>6, <1>7, <1>8, <2>1, RowsKeepKey
  <1>10. DisclosesLive
    <2> SUFFICES ASSUME NEW q \in SecretIds, secretRequests'[q].answer = "approved",
                        secretRequests[q].answer # "approved"
                 PROVE  LET row == credentials[secretRequests'[q].name]
                        IN  row # NoRow /\ (row.expires = 0 \/ row.expires >= vaultClock)
      BY DEF DisclosesLive
    <2>1. q = r /\ got = "value" /\ secretRequests'[q].name = n
      BY <1>3, <1>5, <1>6
    <2>2. credentials[n].expires \in Nat /\ vaultClock \in Nat
      BY DEF CredentialRow
    <2> QED BY <1>4, <2>1, <2>2
  <1> QED BY <1>9, <1>10

LEMMA VaultStep == VaultIInv /\ [VaultNext]_vaultVars => VaultIInv' /\ DisclosesLive
  <1> SUFFICES ASSUME VaultIInv, [VaultNext]_vaultVars PROVE VaultIInv' /\ DisclosesLive
    OBVIOUS
  <1>0. secretRequests' = secretRequests => DisclosesLive
    BY DEF DisclosesLive
  <1>t. /\ vaultKey \in Nat /\ vaultEnv \in EnvSettings /\ vaultClock \in Nat /\ NoRow \in CredentialRow
        /\ credentials \in [CredentialNames -> CredentialRow]
        /\ secretRequests \in [SecretIds -> SecretRow]
        /\ DisclosureIsApproved
    BY DEF VaultIInv, NoRow, CredentialRow, EnvSettings
  <1>d. secretRequests' = secretRequests => DisclosureIsApproved'
    BY <1>t DEF DisclosureIsApproved
  <1>1. ASSUME NEW k \in Keychain, NEW env \in EnvSettings, BootVault(k, env)
        PROVE  VaultIInv' /\ DisclosesLive
    BY <1>0, <1>1, BootStep DEF BootVault
  <1>2. CASE VaultCloses
    <2>1. /\ UNCHANGED <<keychain, passFile, generated, boots, vaultEnv, vaultLapsed, credentials,
                         secretRequests, vaultClock>>
          /\ vaultKey' = 0
      BY <1>2 DEF VaultCloses
    <2> QED BY <1>0, <1>t, <1>d, <2>1, RowsKeepKey
  <1>3. CASE VaultTick
    <2>1. /\ UNCHANGED <<keychain, passFile, generated, boots, vaultEnv, vaultKey, vaultLapsed, credentials,
                         secretRequests>>
          /\ vaultClock' = vaultClock + 1
      BY <1>3 DEF VaultTick
    <2>2. vaultClock' \in Nat
      BY <1>t, <2>1
    <2> QED BY <1>0, <1>t, <1>d, <2>1, <2>2, RowsKeepKey
  <1>4. ASSUME NEW n \in CredentialNames, NEW limited \in BOOLEAN, StoreCredential(n, limited)
        PROVE  VaultIInv' /\ DisclosesLive
    <2> DEFINE row == [key |-> vaultKey, env |-> vaultEnv,
                       expires |-> IF limited THEN vaultClock + VaultTtl ELSE 0]
    <2>1. /\ UNCHANGED <<keychain, passFile, generated, boots, vaultEnv, vaultKey, vaultLapsed,
                         secretRequests, vaultClock>>
          /\ credentials' = [credentials EXCEPT ![n] = row] /\ vaultKey # 0
      BY <1>4 DEF StoreCredential
    <2>2. row \in CredentialRow /\ row.key = vaultKey /\ row.env = vaultEnv
      BY <1>t, StoresAssumption DEF CredentialRow
    <2> HIDE DEF row
    <2>3. /\ credentials' \in [CredentialNames -> CredentialRow]
          /\ \A m \in CredentialNames :
                credentials'[m] \in {NoRow, credentials[m]}
                \/ (vaultKey # 0 /\ credentials'[m].key = vaultKey /\ credentials'[m].env = vaultEnv)
      BY <1>t, <2>1, <2>2
    <2> QED BY <1>0, <1>t, <1>d, <2>1, <2>3, RowsKeepKey
  <1>5. ASSUME NEW n \in CredentialNames, RemoveCredential(n) \/ RevokeCredential(n)
        PROVE  VaultIInv' /\ DisclosesLive
    <2>1. /\ UNCHANGED <<keychain, passFile, generated, boots, vaultEnv, vaultKey, vaultLapsed,
                         secretRequests, vaultClock>>
          /\ credentials' = [credentials EXCEPT ![n] = NoRow]
      BY <1>5 DEF RemoveCredential, RevokeCredential
    <2>3. /\ credentials' \in [CredentialNames -> CredentialRow]
          /\ \A m \in CredentialNames : credentials'[m] \in {NoRow, credentials[m]}
      BY <1>t, <2>1
    <2> QED BY <1>0, <1>t, <1>d, <2>1, <2>3, RowsKeepKey
  <1>6. ASSUME NEW r \in SecretIds, NEW status \in {"approved", "denied"}, DecideSecret(r, status)
        PROVE  VaultIInv' /\ DisclosesLive
    <2>1. /\ UNCHANGED <<keychain, passFile, generated, boots, vaultEnv, vaultKey, vaultLapsed, credentials,
                         vaultClock>>
          /\ secretRequests[r].status = "pending"
          /\ secretRequests' = [secretRequests EXCEPT ![r].status = status]
      BY <1>6 DEF DecideSecret
    <2>2. /\ secretRequests' \in [SecretIds -> SecretRow]
          /\ \A q \in SecretIds : secretRequests'[q].answer = secretRequests[q].answer
          /\ \A q \in SecretIds : q # r => secretRequests'[q].status = secretRequests[q].status
      BY <1>t, <2>1 DEF SecretRow
    <2>3. secretRequests[r].answer # "approved"
      BY <1>t, <2>1 DEF DisclosureIsApproved
    <2>4. DisclosureIsApproved' /\ DisclosesLive
      BY <1>t, <2>2, <2>3 DEF DisclosureIsApproved, DisclosesLive
    <2> QED BY <1>t, <2>1, <2>2, <2>4, RowsKeepKey
  <1>7. CASE UNCHANGED vaultVars
    <2>1. UNCHANGED <<keychain, passFile, generated, boots, vaultEnv, vaultKey, vaultLapsed, credentials,
                      secretRequests, vaultClock>>
      BY <1>7 DEF vaultVars
    <2> QED BY <1>0, <1>t, <1>d, <2>1, RowsKeepKey
  <1> QED BY <1>1, <1>2, <1>3, <1>4, <1>5, <1>6, <1>7, SecretStep DEF VaultNext

\* The invariant says of every row what the properties say of the readable ones.
LEMMA ReadableByKey == VaultIInv => VaultReadable /\ DisclosureIsApproved
  <1> SUFFICES ASSUME VaultIInv PROVE VaultReadable /\ DisclosureIsApproved
    OBVIOUS
  <1>1. ASSUME vaultKey # 0, vaultEnv = 0 => ~vaultLapsed,
               NEW n \in CredentialNames, credentials[n] # NoRow, credentials[n].env = vaultEnv
        PROVE  credentials[n].key = vaultKey
    BY <1>1 DEF VaultIInv, KeyFits
  <1> QED BY <1>1 DEF VaultIInv, VaultReadable

\* Credentials stay readable under the environment they were stored in, as long
\* as no start without a passphrase of its own lost the kept one, and go out
\* only under a request that stands approved, for any number of starts, any
\* passphrases in their environments, keychain states, credentials and requests
\* (vault.ts, vault-passphrase.ts).
THEOREM VaultKeepsItsWord ==
    StoresInit /\ [][VaultNext]_vaultVars => [](VaultReadable /\ DisclosureIsApproved)
  <1>1. VaultIInv => VaultReadable /\ DisclosureIsApproved
    BY ReadableByKey
  <1>2. VaultIInv /\ [VaultNext]_vaultVars => VaultIInv'
    BY VaultStep
  <1> QED BY VaultInit, <1>1, <1>2, PTL

-----------------------------------------------------------------------------
(* The transport identity.  Whoever has passed the lock holds it, so there *)
(* is one; and while one is about to create the key there is none yet.     *)

StarterRow ==
    [pc : {"off", "id", "newId", "pair", "pub", "priv", "p2p", "lock", "recheck", "create",
           "unlock", "up"},
     starts : 0..MaxStarts, id : HardwareIds \cup {NoId},
     pair : {NoKey} \cup (KeyNames \X KeyNames), peerId : KeyNames]

IdentityIInv ==
    /\ IdentityTypeOK
    /\ starter \in [Starters -> StarterRow]
    /\ \A p \in Starters : starter[p].pc # "off" => starter[p].starts >= 1
    /\ \A p \in Starters : starter[p].pc \in {"recheck", "create", "unlock"} => p2pLock = freshKey(p)
    /\ \A p \in Starters : starter[p].pc = "create" => p2pFile = NoKey
    /\ PeerIdIsStable

LEMMA IdentityInitIInv == IdentityInit => IdentityIInv
  <1> SUFFICES ASSUME IdentityInit PROVE IdentityIInv
    OBVIOUS
  <1> DEFINE off == [pc |-> "off", starts |-> 0, id |-> NoId, pair |-> NoKey, peerId |-> NoKey]
  <1>1. /\ off \in StarterRow /\ off.pc = "off" /\ off.starts = 0 /\ off.peerId = NoKey
    BY IdentityAssumption DEF StarterRow, KeyNames
  <1>2. starter = [p \in Starters |-> off]
    BY DEF IdentityInit
  <1> HIDE DEF off
  <1>3. starter \in [Starters -> StarterRow] /\ \A p \in Starters : starter[p] = off
    BY <1>1, <1>2
  <1>4. IdentityTypeOK
    BY <1>1, <1>3, IdentityAssumption DEF IdentityInit, IdentityTypeOK, KeyNames
  <1> QED BY <1>1, <1>3, <1>4 DEF IdentityIInv, PeerIdIsStable

\* A generated key is a key, and tells its generator.
LEMMA FreshKeys ==
    ASSUME IdentityIInv
    PROVE  /\ \A p \in Starters : starter[p].pc # "off" => freshKey(p) \in KeyNames
           /\ \A p \in Starters : freshKey(p) # NoKey
           /\ \A p, q \in Starters : freshKey(p) = freshKey(q) => p = q
  <1>1. ASSUME NEW p \in Starters, starter[p].pc # "off" PROVE freshKey(p) \in KeyNames
    <2>1. starter[p].starts \in 1..MaxStarts
      BY <1>1, IdentityAssumption DEF IdentityIInv, IdentityTypeOK
    <2> QED BY <2>1 DEF KeyNames, freshKey
  <1>2. \A p \in Starters : freshKey(p) # NoKey
    BY DEF freshKey, NoKey
  <1>3. \A p, q \in Starters : freshKey(p) = freshKey(q) => p = q
    BY DEF freshKey
  <1> QED BY <1>1, <1>2, <1>3

\* What a step of p must respect: the row it leaves, the lock and the key.
LEMMA StarterMoves ==
    ASSUME IdentityIInv, NEW p \in Starters, NEW row \in StarterRow,
           starter' = [starter EXCEPT ![p] = row],
           idFile' \in HardwareIds \cup {NoId}, pubFile' \in KeyNames, privFile' \in KeyNames,
           p2pFile' \in KeyNames, p2pLock' \in KeyNames,
           row.pc # "off" => row.starts >= 1,
           row.pc \in {"recheck", "create", "unlock"} => p2pLock' = <<p, row.starts>>,
           row.pc = "create" => p2pFile' = NoKey,
           row.peerId \in {NoKey, p2pFile'},
           p2pLock' = p2pLock
             \/ \A q \in Starters \ {p} : starter[q].pc \notin {"recheck", "create", "unlock"},
           p2pFile' = p2pFile
             \/ \A q \in Starters \ {p} : starter[q].pc # "create" /\ starter[q].peerId = NoKey
    PROVE  IdentityIInv'
  <1>1. /\ starter' \in [Starters -> StarterRow] /\ starter'[p] = row
        /\ \A q \in Starters \ {p} : starter'[q] = starter[q]
    BY DEF IdentityIInv
  <1>2. IdentityTypeOK'
    <2>1. \A q \in Starters : starter'[q].starts \in 0..MaxStarts
      BY <1>1 DEF StarterRow
    <2> QED BY <2>1 DEF IdentityTypeOK
  <1>3. \A q \in Starters : starter'[q].pc # "off" => starter'[q].starts >= 1
    BY <1>1 DEF IdentityIInv
  <1>4. ASSUME NEW q \in Starters, starter'[q].pc \in {"recheck", "create", "unlock"}
        PROVE  p2pLock' = <<q, starter'[q].starts>>
    BY <1>1, <1>4 DEF IdentityIInv, freshKey
  <1>5. \A q \in Starters : starter'[q].pc = "create" => p2pFile' = NoKey
    BY <1>1 DEF IdentityIInv
  <1>6. PeerIdIsStable'
    BY <1>1 DEF IdentityIInv, PeerIdIsStable
  <1> QED BY <1>1, <1>2, <1>3, <1>4, <1>5, <1>6 DEF IdentityIInv, freshKey

LEMMA IdentityStep == IdentityIInv /\ [IdentityNext]_idVars => IdentityIInv'
  <1> SUFFICES ASSUME IdentityIInv, [IdentityNext]_idVars PROVE IdentityIInv'
    OBVIOUS
  <1>t. /\ idFile \in HardwareIds \cup {NoId} /\ pubFile \in KeyNames /\ privFile \in KeyNames
        /\ p2pFile \in KeyNames /\ p2pLock \in KeyNames /\ NoKey \in KeyNames
        /\ starter \in [Starters -> StarterRow]
        /\ \A p \in Starters : starter[p].pc # "off" => starter[p].starts >= 1
        /\ \A p \in Starters : starter[p].pc \in {"recheck", "create", "unlock"} =>
               p2pLock = <<p, starter[p].starts>>
        /\ \A p \in Starters : starter[p].pc = "create" => p2pFile = NoKey
        /\ \A p \in Starters : starter[p].peerId \in {NoKey, p2pFile}
    BY DEF IdentityIInv, IdentityTypeOK, KeyNames, PeerIdIsStable, freshKey
  <1>n. ASSUME NEW p \in Starters
        PROVE  starter[p] \in StarterRow /\ freshKey(p) = <<p, starter[p].starts>>
    BY <1>t DEF freshKey
  \* A step that touches neither the lock nor the key file.
  <1>k. ASSUME NEW p \in Starters, NEW row \in StarterRow,
               starter' = [starter EXCEPT ![p] = row], UNCHANGED <<p2pFile, p2pLock>>,
               idFile' \in HardwareIds \cup {NoId}, pubFile' \in KeyNames, privFile' \in KeyNames,
               row.pc # "off" => row.starts >= 1,
               row.pc \in {"recheck", "create", "unlock"} => p2pLock = <<p, row.starts>>,
               row.pc = "create" => p2pFile = NoKey,
               row.peerId \in {NoKey, p2pFile}
        PROVE  IdentityIInv'
    BY <1>t, <1>k, StarterMoves
  <1>1. ASSUME NEW p \in Starters, Boot(p) PROVE IdentityIInv'
    <2> DEFINE row == [pc |-> "id", starts |-> starter[p].starts + 1, id |-> NoId, pair |-> NoKey,
                       peerId |-> NoKey]
    <2>1. /\ starter' = [starter EXCEPT ![p] = row] /\ starter[p].starts < MaxStarts
          /\ UNCHANGED <<idFile, pubFile, privFile, p2pFile, p2pLock>>
      BY <1>1 DEF Boot
    <2>2. row \in StarterRow /\ row.pc = "id" /\ row.starts >= 1 /\ row.peerId = NoKey
      BY <1>t, <1>n, <2>1, IdentityAssumption DEF StarterRow
    <2> HIDE DEF row
    <2> QED BY <1>t, <1>k, <2>1, <2>2
  <1>2. ASSUME NEW p \in Starters, ReadNodeId(p) PROVE IdentityIInv'
    <2> DEFINE row == [starter[p] EXCEPT !.pc = IF idFile = NoId THEN "newId" ELSE "pair", !.id = idFile]
    <2>1. /\ starter' = [starter EXCEPT ![p] = row] /\ starter[p].pc = "id"
          /\ UNCHANGED <<idFile, pubFile, privFile, p2pFile, p2pLock>>
      BY <1>2, <1>t DEF ReadNodeId
    <2>2. /\ row \in StarterRow /\ row.pc \in {"newId", "pair"} /\ row.starts = starter[p].starts
          /\ row.peerId = starter[p].peerId
      BY <1>t, <1>n DEF StarterRow
    <2> HIDE DEF row
    <2> QED BY <1>t, <1>k, <2>1, <2>2
  <1>3. ASSUME NEW p \in Starters, WriteNodeId(p) PROVE IdentityIInv'
    <2>1. PICK h \in HardwareIds :
              /\ idFile' = h /\ starter' = [starter EXCEPT ![p] = [@ EXCEPT !.pc = "pair", !.id = h]]
              /\ starter[p].pc = "newId" /\ UNCHANGED <<pubFile, privFile, p2pFile, p2pLock>>
      BY <1>3, <1>t DEF WriteNodeId, computeStableNodeId
    <2> DEFINE row == [starter[p] EXCEPT !.pc = "pair", !.id = h]
    <2>2. /\ row \in StarterRow /\ row.pc = "pair" /\ row.starts = starter[p].starts
          /\ row.peerId = starter[p].peerId /\ starter' = [starter EXCEPT ![p] = row]
      BY <1>t, <1>n, <2>1 DEF StarterRow
    <2> HIDE DEF row
    <2> QED BY <1>t, <1>k, <2>1, <2>2
  <1>4. ASSUME NEW p \in Starters, CheckPair(p) PROVE IdentityIInv'
    <2>1. PICK pc \in {"p2p", "pub"}, pair \in KeyNames \X KeyNames :
              /\ starter' = [starter EXCEPT ![p] = [@ EXCEPT !.pc = pc, !.pair = pair]]
              /\ starter[p].pc = "pair"
              /\ UNCHANGED <<idFile, pubFile, privFile, p2pFile, p2pLock>>
      <3>1. starter[p].pc = "pair"
        BY <1>4 DEF CheckPair
      <3>2. freshKey(p) \in KeyNames
        BY <3>1, FreshKeys
      <3>3. CASE pubFile # NoKey /\ privFile # NoKey
        <4>1. /\ starter' = [starter EXCEPT ![p] = [@ EXCEPT !.pc = "p2p", !.pair = <<pubFile, privFile>>]]
              /\ UNCHANGED <<idFile, pubFile, privFile, p2pFile, p2pLock>>
          BY <1>4, <1>t, <3>3 DEF CheckPair
        <4>2. <<pubFile, privFile>> \in KeyNames \X KeyNames
          BY <1>t
        <4> QED BY <3>1, <4>1, <4>2
      <3>4. CASE ~(pubFile # NoKey /\ privFile # NoKey)
        <4>1. /\ starter' = [starter EXCEPT ![p] = [@ EXCEPT !.pc = "pub", !.pair = <<freshKey(p), freshKey(p)>>]]
              /\ UNCHANGED <<idFile, pubFile, privFile, p2pFile, p2pLock>>
          BY <1>4, <1>t, <3>4 DEF CheckPair
        <4>2. <<freshKey(p), freshKey(p)>> \in KeyNames \X KeyNames
          BY <3>2
        <4> QED BY <3>1, <4>1, <4>2
      <3> QED BY <3>3, <3>4
    <2> DEFINE row == [starter[p] EXCEPT !.pc = pc, !.pair = pair]
    <2>2. /\ row \in StarterRow /\ row.pc = pc /\ row.starts = starter[p].starts
          /\ row.peerId = starter[p].peerId /\ starter' = [starter EXCEPT ![p] = row]
      BY <1>t, <1>n, <2>1 DEF StarterRow
    <2> HIDE DEF row
    <2> QED BY <1>t, <1>k, <2>1, <2>2
  \* The steps that only move p on, or to the key that is there.
  <1>m. ASSUME NEW p \in Starters, NEW pc \in {"off", "priv", "p2p", "lock", "recheck", "create", "up"},
               starter[p].pc # "off", Moves(p, pc)
        PROVE  LET row == [starter[p] EXCEPT !.pc = pc]
               IN  /\ row \in StarterRow /\ starter' = [starter EXCEPT ![p] = row]
                   /\ row.pc = pc /\ row.starts = starter[p].starts /\ row.starts >= 1
                   /\ row.peerId = starter[p].peerId
    BY <1>m, <1>t, <1>n DEF Moves, StarterRow
  <1>l. ASSUME NEW p \in Starters, starter[p].pc # "off", LoadExistingKey(p)
        PROVE  LET row == [starter[p] EXCEPT !.pc = "up", !.peerId = p2pFile]
               IN  /\ row \in StarterRow /\ starter' = [starter EXCEPT ![p] = row]
                   /\ row.pc = "up" /\ row.starts >= 1 /\ row.peerId = p2pFile
    BY <1>l, <1>t, <1>n DEF LoadExistingKey, StarterRow
  <1>5. ASSUME NEW p \in Starters, WritePub(p) PROVE IdentityIInv'
    <2>1. /\ starter[p].pc = "pub" /\ Moves(p, "priv") /\ freshKey(p) \in KeyNames
          /\ pubFile' = freshKey(p) /\ UNCHANGED <<idFile, privFile, p2pFile, p2pLock>>
      BY <1>5, FreshKeys DEF WritePub
    <2> DEFINE row == [starter[p] EXCEPT !.pc = "priv"]
    <2>2. /\ row \in StarterRow /\ starter' = [starter EXCEPT ![p] = row]
          /\ row.pc = "priv" /\ row.starts >= 1 /\ row.peerId = starter[p].peerId
      BY <1>m, <2>1
    <2> HIDE DEF row
    <2> QED BY <1>t, <1>k, <2>1, <2>2
  <1>6. ASSUME NEW p \in Starters, WritePriv(p) PROVE IdentityIInv'
    <2>1. /\ starter[p].pc = "priv" /\ Moves(p, "p2p") /\ freshKey(p) \in KeyNames
          /\ privFile' = freshKey(p) /\ UNCHANGED <<idFile, pubFile, p2pFile, p2pLock>>
      BY <1>6, FreshKeys DEF WritePriv
    <2> DEFINE row == [starter[p] EXCEPT !.pc = "p2p"]
    <2>2. /\ row \in StarterRow /\ starter' = [starter EXCEPT ![p] = row]
          /\ row.pc = "p2p" /\ row.starts >= 1 /\ row.peerId = starter[p].peerId
      BY <1>m, <2>1
    <2> HIDE DEF row
    <2> QED BY <1>t, <1>k, <2>1, <2>2
  <1>7. ASSUME NEW p \in Starters, starter[p].pc # "off", LoadExistingKey(p),
               UNCHANGED <<idFile, pubFile, privFile, p2pFile, p2pLock>>
        PROVE  IdentityIInv'
    <2> DEFINE row == [starter[p] EXCEPT !.pc = "up", !.peerId = p2pFile]
    <2>2. /\ row \in StarterRow /\ starter' = [starter EXCEPT ![p] = row]
          /\ row.pc = "up" /\ row.starts >= 1 /\ row.peerId = p2pFile
      BY <1>l, <1>7
    <2> HIDE DEF row
    <2> QED BY <1>t, <1>k, <1>7, <2>2
  <1>8. ASSUME NEW p \in Starters, NEW pc \in {"off", "lock"}, starter[p].pc # "off", Moves(p, pc),
               UNCHANGED <<idFile, pubFile, privFile, p2pFile, p2pLock>>
        PROVE  IdentityIInv'
    <2> DEFINE row == [starter[p] EXCEPT !.pc = pc]
    <2>1. pc \in {"off", "priv", "p2p", "lock", "recheck", "create", "up"}
      OBVIOUS
    <2>2. /\ row \in StarterRow /\ starter' = [starter EXCEPT ![p] = row]
          /\ row.pc = pc /\ row.starts >= 1 /\ row.peerId = starter[p].peerId
      BY <1>m, <1>8, <2>1, Zenon
    <2> HIDE DEF row
    <2> QED BY <1>t, <1>k, <1>8, <2>2
  <1>9. ASSUME NEW p \in Starters, CheckP2p(p) PROVE IdentityIInv'
    BY <1>7, <1>8, <1>9 DEF CheckP2p
  <1>10. ASSUME NEW p \in Starters, TakeLock(p) PROVE IdentityIInv'
    <2>1. /\ starter[p].pc = "lock" /\ Moves(p, "recheck") /\ p2pLock = NoKey
          /\ freshKey(p) \in KeyNames /\ p2pLock' = freshKey(p)
          /\ UNCHANGED <<idFile, pubFile, privFile, p2pFile>>
      BY <1>10, FreshKeys DEF TakeLock
    <2> DEFINE row == [starter[p] EXCEPT !.pc = "recheck"]
    <2>2. /\ row \in StarterRow /\ starter' = [starter EXCEPT ![p] = row]
          /\ row.pc = "recheck" /\ row.starts = starter[p].starts /\ row.starts >= 1
          /\ row.peerId = starter[p].peerId
      BY <1>m, <2>1
    <2> HIDE DEF row
    <2>3. \A q \in Starters : starter[q].pc \notin {"recheck", "create", "unlock"}
      BY <1>t, <1>n, <2>1, FreshKeys
    <2> QED BY <1>t, <1>n, <2>1, <2>2, <2>3, StarterMoves
  <1>11. ASSUME NEW p \in Starters, KeyAppeared(p) PROVE IdentityIInv'
    BY <1>7, <1>11 DEF KeyAppeared
  <1>12. ASSUME NEW p \in Starters, LockTimeout(p) PROVE IdentityIInv'
    BY <1>8, <1>12 DEF LockTimeout
  \* The lock is held by p alone.
  <1>h. ASSUME NEW p \in Starters, starter[p].pc \in {"recheck", "create", "unlock"}
        PROVE  \A q \in Starters \ {p} : starter[q].pc \notin {"recheck", "create", "unlock"}
    <2>1. \A q \in Starters : starter[q].pc \in {"recheck", "create", "unlock"} => p2pLock = freshKey(q)
      BY DEF IdentityIInv
    <2> QED BY <1>h, <2>1, FreshKeys
  <1>13. ASSUME NEW p \in Starters, Recheck(p) PROVE IdentityIInv'
    <2>1. starter[p].pc = "recheck" /\ UNCHANGED <<idFile, pubFile, privFile, p2pFile>>
      BY <1>13 DEF Recheck
    <2>2. CASE p2pFile = NoKey /\ Moves(p, "create") /\ UNCHANGED p2pLock
      <3> DEFINE row == [starter[p] EXCEPT !.pc = "create"]
      <3>1. /\ row \in StarterRow /\ starter' = [starter EXCEPT ![p] = row]
            /\ row.pc = "create" /\ row.starts = starter[p].starts /\ row.starts >= 1
            /\ row.peerId = starter[p].peerId
        BY <1>m, <2>1, <2>2
      <3> HIDE DEF row
      <3> QED BY <1>t, <1>k, <2>1, <2>2, <3>1
    <2>3. CASE LoadExistingKey(p) /\ p2pLock' = NoKey
      <3> DEFINE row == [starter[p] EXCEPT !.pc = "up", !.peerId = p2pFile]
      <3>1. /\ row \in StarterRow /\ starter' = [starter EXCEPT ![p] = row]
            /\ row.pc = "up" /\ row.starts >= 1 /\ row.peerId = p2pFile
        BY <1>l, <2>1, <2>3
      <3> HIDE DEF row
      <3>2. \A q \in Starters \ {p} : starter[q].pc \notin {"recheck", "create", "unlock"}
        BY <1>h, <2>1
      <3> QED BY <1>t, <2>1, <2>3, <3>1, <3>2, StarterMoves
    <2> QED BY <1>13, <2>2, <2>3 DEF Recheck
  <1>14. ASSUME NEW p \in Starters, CreateKey(p) PROVE IdentityIInv'
    <2> DEFINE row == [starter[p] EXCEPT !.pc = "unlock", !.peerId = freshKey(p)]
    <2>1. /\ starter[p].pc = "create" /\ p2pFile' = freshKey(p)
          /\ starter' = [starter EXCEPT ![p] = row]
          /\ UNCHANGED <<idFile, pubFile, privFile, p2pLock>>
      BY <1>14, <1>t DEF CreateKey
    <2>2. freshKey(p) \in KeyNames
      BY <2>1, FreshKeys
    <2>3. /\ row \in StarterRow /\ row.pc = "unlock" /\ row.starts = starter[p].starts
          /\ row.peerId = freshKey(p)
      BY <1>n, <2>2 DEF StarterRow
    <2> HIDE DEF row
    <2>4. \A q \in Starters \ {p} : starter[q].pc # "create" /\ starter[q].peerId = NoKey
      BY <1>t, <1>h, <2>1
    <2>5. p2pLock' = <<p, row.starts>> /\ row.starts >= 1
      BY <1>t, <2>1, <2>3
    <2> QED BY <1>t, <2>1, <2>2, <2>3, <2>4, <2>5, StarterMoves
  <1>15. ASSUME NEW p \in Starters, Unlock(p) PROVE IdentityIInv'
    <2>1. /\ starter[p].pc = "unlock" /\ Moves(p, "up") /\ p2pLock' = NoKey
          /\ UNCHANGED <<idFile, pubFile, privFile, p2pFile>>
      BY <1>15 DEF Unlock
    <2> DEFINE row == [starter[p] EXCEPT !.pc = "up"]
    <2>2. /\ row \in StarterRow /\ starter' = [starter EXCEPT ![p] = row]
          /\ row.pc = "up" /\ row.starts >= 1 /\ row.peerId = starter[p].peerId
      BY <1>m, <2>1
    <2> HIDE DEF row
    <2>3. \A q \in Starters \ {p} : starter[q].pc \notin {"recheck", "create", "unlock"}
      BY <1>h, <2>1
    <2> QED BY <1>t, <2>1, <2>2, <2>3, StarterMoves
  <1>16. ASSUME NEW p \in Starters, Dies(p) PROVE IdentityIInv'
    <2> DEFINE row == [starter[p] EXCEPT !.pc = "off", !.id = NoId, !.pair = NoKey, !.peerId = NoKey]
    <2>1. /\ starter' = [starter EXCEPT ![p] = row]
          /\ UNCHANGED <<idFile, pubFile, privFile, p2pFile, p2pLock>>
      BY <1>16, <1>t DEF Dies
    <2>2. row \in StarterRow /\ row.pc = "off" /\ row.peerId = NoKey
      BY <1>n, <1>t DEF StarterRow
    <2> HIDE DEF row
    <2> QED BY <1>t, <1>k, <2>1, <2>2
  <1>17. CASE UNCHANGED idVars
    BY <1>17 DEF idVars, IdentityIInv, IdentityTypeOK, PeerIdIsStable, freshKey
  <1> QED BY <1>1, <1>2, <1>3, <1>4, <1>5, <1>6, <1>9, <1>10, <1>11, <1>12, <1>13, <1>14, <1>15,
             <1>16, <1>17 DEF IdentityNext

\* However many processes start on one data directory, race for the key file
\* and die anywhere, the lock file left behind included, every process that has
\* a PeerID has the one in the file (libp2p-identity.ts).
THEOREM PeerIdIsStableHolds == IdentitySpec => [](IdentityTypeOK /\ PeerIdIsStable)
  <1>1. IdentityIInv => IdentityTypeOK /\ PeerIdIsStable
    BY DEF IdentityIInv
  <1> QED BY IdentityInitIInv, IdentityStep, <1>1, PTL DEF IdentitySpec

-----------------------------------------------------------------------------
(* The TLS bundle.  Each stage of a start can rely on what the stages      *)
(* before it established, and what a crash leaves behind is one of a few   *)
(* things: above all, where the node has its own CA, a node certificate    *)
(* is never there without the CA's key.                                    *)

Sans == {"none", "legacyCa", "ca", "host", "oldhost", "node"}
Cert == [by : Nat, key : Nat, san : Sans, exp : Nat]
DirType == [caCrt : Cert, caKey : Nat, nodeCrt : Cert, nodeKey : Nat]
SetupType == [kind : {"none", "fresh", "legacyCa", "renamed", "token"}, pinned : BOOLEAN,
              migrate : BOOLEAN]
BootPcs == {"down", "caCrt", "caKey", "node", "lock", "migrate", "retain", "issue", "nodeKey", "up",
            "refused"}
BootType == [pc : BootPcs, trusted : SUBSET Nat, since : Nat, cert : Cert, key : Nat, ca : Cert,
             anchor : Nat, issues : Nat]

\* The stages that work under a CA that was kept or has just been written.
UnderCa == {"node", "lock", "migrate", "retain", "issue", "nodeKey"}

TlsTypes ==
    /\ dir \in DirType /\ setup \in SetupType /\ boot \in BootType
    /\ nextKey \in 4..(MaxKeys + 1) /\ day \in 0..MaxDay
    /\ migrateLock \in {"free", "fresh", "stale"}

\* What the stage the start has reached may rely on.
StageIsSound ==
    /\ setup.kind = "none" => boot.pc = "down"
    /\ boot.pc \in UnderCa =>
          dir.caKey # 0 /\ dir.caKey = dir.caCrt.key /\ dir.caCrt.exp >= day
    /\ boot.pc \in {"node", "lock", "migrate", "retain"} =>
          \A c \in boot.trusted : c = dir.caCrt.key \/ (setup.pinned /\ c = AdminKey)
    /\ boot.pc = "caKey" =>
          boot.key # 0 /\ boot.key = dir.caCrt.key /\ dir.caCrt.exp >= day
    /\ boot.pc = "nodeKey" =>
          /\ dir.nodeCrt.key = boot.key /\ dir.nodeCrt.by = dir.caKey
          /\ dir.nodeCrt.san = "host" /\ dir.nodeCrt.exp >= day

NodeCertHasCaKey == setup.kind # "token" /\ dir.caKey = 0 => dir.nodeCrt = NoCrt

TlsIInv ==
    TlsTypes /\ StageIsSound /\ NodeCertHasCaKey /\ ServedIsCoherent /\ OwnCaStarts

LEMMA Numbers ==
    /\ AdminKey \in Nat /\ MaxKeys \in Nat /\ CaValidity \in Nat /\ NodeValidity \in Nat
    /\ RenewBefore \in Nat /\ RecoverBefore \in Nat /\ MaxDay \in Nat /\ NonceTtl \in Nat
    /\ MaxNonceClock \in Nat /\ 4 <= MaxKeys /\ AdminKey > MaxKeys
  BY CertificatesAssumption

LEMMA Crts ==
    ASSUME NEW by \in Nat, NEW key \in Nat, NEW san \in Sans, NEW exp \in Nat
    PROVE  /\ Crt(by, key, san, exp) \in Cert
           /\ Crt(by, key, san, exp).by = by /\ Crt(by, key, san, exp).key = key
           /\ Crt(by, key, san, exp).san = san /\ Crt(by, key, san, exp).exp = exp
  BY DEF Crt, Cert

LEMMA NoCerts == NoCrt \in Cert /\ EmptyDir \in DirType /\ EmptyDir.nodeCrt = NoCrt
                 /\ Down \in BootType /\ Down.pc = "down"
  <1>1. NoCrt \in Cert
    BY DEF NoCrt, Cert, Sans
  <1>2. EmptyDir \in DirType /\ EmptyDir.nodeCrt = NoCrt
    BY <1>1 DEF EmptyDir, DirType
  <1>3. Down \in BootType /\ Down.pc = "down"
    BY <1>1 DEF Down, BootType, BootPcs
  <1> QED BY <1>1, <1>2, <1>3

LEMMA TlsInitIInv == CertificatesInit => TlsIInv
  <1> SUFFICES ASSUME CertificatesInit PROVE TlsIInv
    OBVIOUS
  <1>1. /\ dir = EmptyDir /\ boot = Down /\ nextKey = 4 /\ day = 0 /\ migrateLock = "free"
        /\ setup \in SetupType /\ setup.kind = "none"
    BY DEF CertificatesInit, SetupType
  <1>2. TlsTypes
    BY <1>1, NoCerts, Numbers DEF TlsTypes
  <1>3. StageIsSound
    BY <1>1, NoCerts DEF StageIsSound, UnderCa
  <1>4. NodeCertHasCaKey /\ ServedIsCoherent /\ OwnCaStarts
    BY <1>1, NoCerts DEF NodeCertHasCaKey, ServedIsCoherent, OwnCaStarts
  <1> QED BY <1>2, <1>3, <1>4 DEF TlsIInv

\* A daemon that serves a certificate that fits is coherent.
LEMMA ServesCoherently ==
    ASSUME TlsIInv, NEW cert \in Cert, NEW key \in Nat, Serve(cert, key),
           setup' = setup, dir' \in DirType, nextKey' = nextKey, day' = day,
           migrateLock' \in {"free", "fresh", "stale"},
           setup.kind # "none", NodeCertHasCaKey',
           cert.key = key, cert.exp >= day, dir.caCrt.exp >= day,
           cert.by = dir.caCrt.key \/ (setup.pinned /\ cert.by = AdminKey),
           setup.kind # "token" => cert.san # "oldhost",
           dir.caKey \in {0, dir.caCrt.key}
    PROVE  TlsIInv'
  <1>t. /\ dir \in DirType /\ boot \in BootType /\ day \in Nat /\ dir.caCrt \in Cert /\ dir.caKey \in Nat
    BY Numbers DEF TlsIInv, TlsTypes, DirType
  <1>a. anchorOf(cert) = cert.by /\ cert.by \in Nat
    BY DEF anchorOf, Cert
  <1>i. issuesWith(cert) \in {0, dir.caCrt.key} /\ issuesWith(cert) \in Nat
    BY <1>t DEF issuesWith
  <1>1. /\ boot' \in BootType /\ boot'.pc = "up" /\ boot'.since = day /\ boot'.cert = cert
        /\ boot'.key = key /\ boot'.ca = dir.caCrt /\ boot'.anchor = cert.by
        /\ boot'.issues \in {0, dir.caCrt.key}
    <2> DEFINE an == anchorOf(cert)
               is == issuesWith(cert)
    <2>1. boot' = [boot EXCEPT !.pc = "up", !.since = day, !.cert = cert, !.key = key, !.ca = dir.caCrt,
                               !.anchor = an, !.issues = is]
      BY DEF Serve
    <2>2. an = cert.by /\ an \in Nat /\ is \in Nat /\ is \in {0, dir.caCrt.key}
      BY <1>a, <1>i
    <2> HIDE DEF an, is
    <2>3. "up" \in BootPcs
      BY DEF BootPcs
    <2> QED BY <1>t, <2>1, <2>2, <2>3 DEF BootType
  <1>2. TlsTypes'
    BY <1>1 DEF TlsIInv, TlsTypes
  <1>3. StageIsSound'
    BY <1>1 DEF StageIsSound, UnderCa
  <1>4. ServedIsCoherent' /\ OwnCaStarts'
    BY <1>1 DEF ServedIsCoherent, OwnCaStarts
  <1> QED BY <1>2, <1>3, <1>4 DEF TlsIInv

\* A step that leaves the daemon neither up nor refused.
LEMMA NotServing ==
    ASSUME TlsTypes', StageIsSound', NodeCertHasCaKey', boot'.pc \notin {"up", "refused"}
    PROVE  TlsIInv'
  BY DEF TlsIInv, ServedIsCoherent, OwnCaStarts

LEMMA ProvisionStep ==
    ASSUME TlsIInv, NEW kind \in {"fresh", "legacyCa", "renamed", "token"},
           NEW pinned \in BOOLEAN, NEW migrate \in BOOLEAN, Provision(kind, pinned, migrate)
    PROVE  TlsIInv'
  <1> USE Numbers
  <1>1. /\ setup.kind = "none" /\ setup' = [kind |-> kind, pinned |-> pinned, migrate |-> migrate]
        /\ UNCHANGED <<boot, nextKey, day, migrateLock, tier>>
    BY DEF Provision
  <1>2. setup' \in SetupType /\ setup'.kind = kind
    BY <1>1 DEF SetupType
  <1>3. boot'.pc = "down"
    BY <1>1 DEF TlsIInv, StageIsSound
  <1>4. dir' \in DirType /\ (kind # "token" => (dir' = EmptyDir \/ dir'.caKey = 1))
    <2>1. CASE kind = "fresh"
      BY <2>1, NoCerts DEF Provision
    <2> DEFINE legacy == Crt(1, 1, "legacyCa", CaValidity)
               ca == Crt(1, 1, "ca", CaValidity)
               admin == Crt(AdminKey, AdminKey, "ca", MaxDay)
               host == Crt(1, 2, "host", NodeValidity)
               old == Crt(1, 2, "oldhost", NodeValidity)
               issuedHost == Crt(AdminKey, 2, "host", NodeValidity)
    <2>0. {legacy, ca, admin, host, old, issuedHost} \subseteq Cert
      <3>1. {"legacyCa", "ca", "host", "oldhost"} \subseteq Sans /\ 1 \in Nat /\ 2 \in Nat
        BY DEF Sans
      <3>2. legacy \in Cert /\ ca \in Cert /\ admin \in Cert
        BY <3>1, Crts, Zenon
      <3>3. host \in Cert /\ old \in Cert /\ issuedHost \in Cert
        BY <3>1, Crts, Zenon
      <3> QED BY <3>2, <3>3, Zenon
    <2>2. CASE kind = "legacyCa"
      <3>1. dir' = [caCrt |-> legacy, caKey |-> 1, nodeCrt |-> host, nodeKey |-> 2]
        BY <2>2 DEF Provision
      <3> HIDE DEF legacy, host
      <3> QED BY <2>0, <3>1 DEF DirType
    <2>3. CASE kind = "renamed"
      <3>1. dir' = [caCrt |-> ca, caKey |-> 1, nodeCrt |-> old, nodeKey |-> 2]
        BY <2>3 DEF Provision
      <3> HIDE DEF ca, old
      <3> QED BY <2>0, <3>1 DEF DirType
    <2>4. CASE kind = "token"
      <3>1. dir' = [caCrt |-> admin, caKey |-> 0, nodeCrt |-> issuedHost, nodeKey |-> 2]
        BY <2>4 DEF Provision
      <3> HIDE DEF admin, issuedHost
      <3> QED BY <2>0, <2>4, <3>1 DEF DirType
    <2> QED BY <2>1, <2>2, <2>3, <2>4
  <1>5. NodeCertHasCaKey'
    BY <1>2, <1>4, NoCerts DEF NodeCertHasCaKey
  <1>6. TlsTypes'
    BY <1>1, <1>2, <1>4 DEF TlsIInv, TlsTypes
  <1>7. StageIsSound'
    BY <1>3 DEF StageIsSound, UnderCa
  <1> QED BY <1>3, <1>5, <1>6, <1>7, NotServing

\* The parts of a directory and of a daemon.
LEMMA TlsParts ==
    ASSUME TlsIInv
    PROVE  /\ dir \in DirType /\ boot \in BootType /\ setup \in SetupType
           /\ dir.caCrt \in Cert /\ dir.nodeCrt \in Cert /\ dir.caKey \in Nat /\ dir.nodeKey \in Nat
           /\ boot.pc \in BootPcs /\ boot.key \in Nat
           /\ day \in Nat /\ nextKey \in Nat /\ nextKey # 0
           /\ \A c \in Cert : c.by \in Nat /\ c.key \in Nat /\ c.san \in Sans /\ c.exp \in Nat
  BY Numbers DEF TlsIInv, TlsTypes, DirType, BootType, Cert

\* A step that moves the start on and touches no file.
LEMMA StageMoves ==
    ASSUME TlsIInv, NEW pc \in BootPcs \ {"up", "refused"}, NEW b \in BootType, boot' = b, b.pc = pc,
           UNCHANGED <<dir, setup, nextKey, day>>, migrateLock' \in {"free", "fresh", "stale"},
           setup.kind # "none",
           pc \in UnderCa =>
               dir.caKey # 0 /\ dir.caKey = dir.caCrt.key /\ dir.caCrt.exp >= day,
           pc \in {"node", "lock", "migrate", "retain"} =>
               \A c \in b.trusted : c = dir.caCrt.key \/ (setup.pinned /\ c = AdminKey),
           pc \notin {"caKey", "nodeKey"}
    PROVE  TlsIInv'
  <1>1. TlsTypes'
    BY DEF TlsIInv, TlsTypes
  <1>2. StageIsSound'
    BY DEF StageIsSound
  <1>3. NodeCertHasCaKey'
    BY DEF TlsIInv, NodeCertHasCaKey
  <1> QED BY <1>1, <1>2, <1>3, NotServing

LEMMA StartStep == ASSUME TlsIInv, StartTls PROVE TlsIInv'
  <1>1. /\ boot.pc = "down" /\ setup.kind # "none"
        /\ UNCHANGED <<dir, setup, nextKey, day, migrateLock, tier>>
    BY DEF StartTls
  <1>2. /\ dir \in DirType /\ boot \in BootType /\ dir.caCrt \in Cert /\ dir.nodeCrt \in Cert
        /\ dir.caKey \in Nat /\ dir.nodeKey \in Nat /\ day \in Nat
        /\ dir.caCrt.exp \in Nat /\ dir.nodeCrt.exp \in Nat /\ dir.caCrt.key \in Nat
    BY TlsParts
  <1>3. migrateLock' \in {"free", "fresh", "stale"} /\ NodeCertHasCaKey'
    BY <1>1 DEF TlsIInv, TlsTypes, NodeCertHasCaKey
  <1> DEFINE at(pc) == [boot EXCEPT !.pc = pc, !.trusted = attestingCas, !.since = day]
  <1>4. /\ attestingCas \subseteq Nat
        /\ \A c \in attestingCas : c = dir.caCrt.key \/ (setup.pinned /\ c = AdminKey)
    BY <1>2, Numbers DEF attestingCas
  <1>5. ASSUME NEW pc \in BootPcs
        PROVE  at(pc) \in BootType /\ at(pc).pc = pc /\ at(pc).trusted = attestingCas
    BY <1>2, <1>4 DEF BootType
  <1>6. CASE onboarded(dir)
    <2>1. setup.kind = "token" /\ dir.caKey = 0
      BY <1>6 DEF onboarded, TlsIInv, NodeCertHasCaKey
    <2>2. CASE onboardedValid(dir) /\ Serve(dir.nodeCrt, dir.nodeKey)
      <3>1. /\ dir.nodeCrt.key = dir.nodeKey /\ dir.nodeCrt.by = dir.caCrt.key
            /\ dir.nodeCrt.exp >= day /\ dir.caCrt.exp >= day
        BY <1>2, <2>2 DEF onboardedValid, notExpired
      <3> QED BY <1>1, <1>2, <1>3, <2>1, <2>2, <3>1, ServesCoherently
    <2>3. CASE boot' = at("refused")
      <3>1. boot' \in BootType /\ boot'.pc = "refused"
        BY <1>5, <2>3 DEF BootPcs
      <3> HIDE DEF at
      <3>2. TlsTypes'
        BY <1>1, <1>3, <3>1 DEF TlsIInv, TlsTypes
      <3>3. StageIsSound' /\ ServedIsCoherent' /\ OwnCaStarts'
        BY <1>1, <2>1, <3>1 DEF StageIsSound, UnderCa, ServedIsCoherent, OwnCaStarts
      <3> QED BY <1>3, <3>2, <3>3 DEF TlsIInv
    <2> QED BY <1>6, <2>2, <2>3 DEF StartTls
  <1>7. CASE ~onboarded(dir) /\ caUsable(dir)
    <2>1. boot' = at("node")
      BY <1>7 DEF StartTls
    <2>2. at("node") \in BootType /\ at("node").pc = "node" /\ at("node").trusted = attestingCas
      BY <1>5 DEF BootPcs
    <2>3. dir.caKey # 0 /\ dir.caKey = dir.caCrt.key /\ dir.caCrt.exp >= day
      BY <1>2, <1>7 DEF caUsable, notExpired
    <2>4. "node" \in BootPcs \ {"up", "refused"}
      BY DEF BootPcs
    <2> HIDE DEF at
    <2> QED BY <1>1, <1>3, <1>4, <2>1, <2>2, <2>3, <2>4, StageMoves
  <1>8. CASE ~onboarded(dir) /\ ~caUsable(dir)
    <2>1. boot' = at("caCrt")
      BY <1>8 DEF StartTls
    <2>2. at("caCrt") \in BootType /\ at("caCrt").pc = "caCrt"
      BY <1>5 DEF BootPcs
    <2>4. "caCrt" \in BootPcs \ {"up", "refused"} /\ "caCrt" \notin UnderCa
      BY DEF BootPcs, UnderCa
    <2> HIDE DEF at
    <2> QED BY <1>1, <1>3, <2>1, <2>2, <2>4, StageMoves
  <1> QED BY <1>6, <1>7, <1>8

LEMMA WriteStep ==
    ASSUME TlsIInv, WriteCaCrt \/ WriteCaKey \/ WriteNodeCrt \/ WriteNodeKey
    PROVE  TlsIInv'
  <1>t. /\ dir \in DirType /\ boot \in BootType /\ dir.caCrt \in Cert /\ dir.nodeCrt \in Cert
        /\ dir.caKey \in Nat /\ boot.key \in Nat /\ day \in Nat /\ nextKey \in Nat /\ nextKey # 0
    BY TlsParts
  <1>u. setup.kind # "none"
    BY DEF TlsIInv, StageIsSound, WriteCaCrt, WriteCaKey, WriteNodeCrt, WriteNodeKey
  <1>1. CASE WriteCaCrt
    <2> DEFINE c == Crt(nextKey, nextKey, "ca", day + CaValidity)
    <2>1. /\ dir' = [dir EXCEPT !.caCrt = c] /\ boot' = [boot EXCEPT !.pc = "caKey", !.key = nextKey]
          /\ nextKey' = nextKey + 1 /\ nextKey <= MaxKeys /\ UNCHANGED <<setup, day, migrateLock, tier>>
      BY <1>1 DEF WriteCaCrt
    <2>2. c \in Cert /\ c.key = nextKey /\ c.exp = day + CaValidity
      <3>1. PICK last \in Nat : last = day + CaValidity
        BY <1>t, Numbers
      <3>2. c = Crt(nextKey, nextKey, "ca", last)
        BY <3>1
      <3>3. "ca" \in Sans
        BY DEF Sans
      <3> HIDE DEF c
      <3> DEFINE d == Crt(nextKey, nextKey, "ca", last)
      <3>4. d \in Cert /\ d.by = nextKey /\ d.key = nextKey /\ d.san = "ca" /\ d.exp = last
        BY <1>t, <3>1, <3>3, Crts
      <3> HIDE DEF d
      <3> QED BY <3>1, <3>2, <3>4 DEF d
    <2> HIDE DEF c
    <2>3. /\ dir' \in DirType /\ dir'.caCrt = c /\ dir'.caKey = dir.caKey /\ dir'.nodeCrt = dir.nodeCrt
      BY <1>t, <2>1, <2>2 DEF DirType
    <2>4. boot' \in BootType /\ boot'.pc = "caKey" /\ boot'.key = nextKey
      BY <1>t, <2>1 DEF BootType, BootPcs
    <2>5. TlsTypes'
      <3>1. nextKey' \in 4..(MaxKeys + 1)
        BY <2>1, Numbers DEF TlsIInv, TlsTypes
      <3> QED BY <2>1, <2>3, <2>4, <3>1 DEF TlsIInv, TlsTypes
    <2>6. c.exp >= day
      BY <1>t, <2>2, Numbers
    <2>7. StageIsSound'
      BY <1>t, <1>u, <2>1, <2>2, <2>3, <2>4, <2>6 DEF StageIsSound, UnderCa
    <2>8. NodeCertHasCaKey'
      BY <2>1, <2>3 DEF TlsIInv, NodeCertHasCaKey
    <2> QED BY <2>4, <2>5, <2>7, <2>8, NotServing
  <1>2. CASE WriteCaKey
    <2>1. /\ boot.pc = "caKey" /\ dir' = [dir EXCEPT !.caKey = boot.key]
          /\ boot' = [boot EXCEPT !.pc = "issue"] /\ UNCHANGED <<setup, nextKey, day, migrateLock, tier>>
      BY <1>2 DEF WriteCaKey
    <2>2. boot.key # 0 /\ boot.key = dir.caCrt.key /\ dir.caCrt.exp >= day
      BY <2>1 DEF TlsIInv, StageIsSound
    <2>3. /\ dir' \in DirType /\ dir'.caCrt = dir.caCrt /\ dir'.caKey = boot.key
      BY <1>t, <2>1 DEF DirType
    <2>4. boot' \in BootType /\ boot'.pc = "issue"
      BY <1>t, <2>1 DEF BootType, BootPcs
    <2>5. TlsTypes'
      BY <2>1, <2>3, <2>4 DEF TlsIInv, TlsTypes
    <2>6. StageIsSound' /\ NodeCertHasCaKey'
      BY <1>u, <2>1, <2>2, <2>3, <2>4 DEF StageIsSound, NodeCertHasCaKey
    <2> QED BY <2>4, <2>5, <2>6, NotServing
  <1>3. CASE WriteNodeCrt
    <2> DEFINE c == Crt(dir.caKey, nextKey, "host", day + NodeValidity)
    <2>1. /\ dir' = [dir EXCEPT !.nodeCrt = c] /\ boot' = [boot EXCEPT !.pc = "nodeKey", !.key = nextKey]
          /\ nextKey' = nextKey + 1 /\ nextKey <= MaxKeys /\ UNCHANGED <<setup, day, migrateLock, tier>>
          /\ boot.pc = "issue"
      BY <1>3 DEF WriteNodeCrt
    <2>2. c \in Cert /\ c.by = dir.caKey /\ c.key = nextKey /\ c.san = "host" /\ c.exp = day + NodeValidity
      <3>1. PICK last \in Nat : last = day + NodeValidity
        BY <1>t, Numbers
      <3>2. c = Crt(dir.caKey, nextKey, "host", last)
        BY <3>1
      <3>3. "host" \in Sans
        BY DEF Sans
      <3> HIDE DEF c
      <3> DEFINE d == Crt(dir.caKey, nextKey, "host", last)
      <3>4. d \in Cert /\ d.by = dir.caKey /\ d.key = nextKey /\ d.san = "host" /\ d.exp = last
        BY <1>t, <3>1, <3>3, Crts
      <3> HIDE DEF d
      <3> QED BY <3>1, <3>2, <3>4 DEF d
    <2> HIDE DEF c
    <2>3. /\ dir' \in DirType /\ dir'.caCrt = dir.caCrt /\ dir'.caKey = dir.caKey /\ dir'.nodeCrt = c
      BY <1>t, <2>1, <2>2 DEF DirType
    <2>4. boot' \in BootType /\ boot'.pc = "nodeKey" /\ boot'.key = nextKey
      BY <1>t, <2>1 DEF BootType, BootPcs
    <2>5. TlsTypes'
      <3>1. nextKey' \in 4..(MaxKeys + 1)
        BY <2>1, Numbers DEF TlsIInv, TlsTypes
      <3> QED BY <2>1, <2>3, <2>4, <3>1 DEF TlsIInv, TlsTypes
    <2>6. c.exp >= day
      BY <1>t, <2>2, Numbers
    <2>7. dir.caKey # 0 /\ dir.caKey = dir.caCrt.key /\ dir.caCrt.exp >= day
      BY <2>1 DEF TlsIInv, StageIsSound, UnderCa
    <2>8. StageIsSound'
      BY <1>u, <2>1, <2>2, <2>3, <2>4, <2>6, <2>7 DEF StageIsSound
    <2>9. NodeCertHasCaKey'
      BY <2>3, <2>7 DEF NodeCertHasCaKey
    <2> QED BY <2>4, <2>5, <2>8, <2>9, NotServing
  <1>4. CASE WriteNodeKey
    <2>1. /\ boot.pc = "nodeKey" /\ dir' = [dir EXCEPT !.nodeKey = boot.key]
          /\ Serve(dir.nodeCrt, boot.key) /\ UNCHANGED <<setup, nextKey, day, migrateLock, tier>>
      BY <1>4 DEF WriteNodeKey
    <2>2. /\ dir.caKey # 0 /\ dir.caKey = dir.caCrt.key /\ dir.caCrt.exp >= day
          /\ dir.nodeCrt.key = boot.key /\ dir.nodeCrt.by = dir.caKey
          /\ dir.nodeCrt.san = "host" /\ dir.nodeCrt.exp >= day
      BY <2>1 DEF TlsIInv, StageIsSound, UnderCa
    <2>3. /\ dir' \in DirType /\ dir'.caKey = dir.caKey
      BY <1>t, <2>1 DEF DirType
    <2>4. NodeCertHasCaKey' /\ migrateLock' \in {"free", "fresh", "stale"}
      BY <2>1, <2>2, <2>3 DEF NodeCertHasCaKey, TlsIInv, TlsTypes
    <2> QED BY <1>t, <1>u, <2>1, <2>2, <2>3, <2>4, ServesCoherently
  <1> QED BY <1>1, <1>2, <1>3, <1>4

LEMMA JudgeStep ==
    ASSUME TlsIInv, JudgeNodeCert \/ AcquireMigrationLock
    PROVE  TlsIInv'
  <1>t. dir \in DirType /\ boot \in BootType
    BY TlsParts
  <1>1. PICK pc \in {"lock", "migrate", "retain"} :
            /\ boot' = [boot EXCEPT !.pc = pc] /\ boot.pc \in {"node", "lock"}
            /\ UNCHANGED <<dir, setup, nextKey, day, tier>>
            /\ migrateLock' \in {"free", "fresh", "stale"}
    BY DEF JudgeNodeCert, AcquireMigrationLock, TlsIInv, TlsTypes
  <1> DEFINE b == [boot EXCEPT !.pc = pc]
  <1>2. /\ b \in BootType /\ b.pc = pc /\ b.trusted = boot.trusted /\ boot' = b
        /\ pc \in BootPcs \ {"up", "refused"} /\ pc \notin {"caKey", "nodeKey"}
    BY <1>t, <1>1 DEF BootType, BootPcs
  <1> HIDE DEF b
  <1>3. setup.kind # "none" /\ dir.caKey # 0 /\ dir.caKey = dir.caCrt.key /\ dir.caCrt.exp >= day
        /\ \A c \in boot.trusted : c = dir.caCrt.key \/ (setup.pinned /\ c = AdminKey)
    BY <1>1 DEF TlsIInv, StageIsSound, UnderCa
  <1> QED BY <1>1, <1>2, <1>3, StageMoves

LEMMA RetainStep ==
    ASSUME TlsIInv, Migrate \/ Retain
    PROVE  TlsIInv'
  <1>t. /\ dir \in DirType /\ boot \in BootType /\ dir.caCrt \in Cert /\ dir.nodeCrt \in Cert
        /\ dir.caKey \in Nat /\ dir.nodeKey \in Nat /\ day \in Nat
        /\ dir.caCrt.key \in Nat /\ dir.nodeCrt.exp \in Nat
    BY TlsParts
  <1>1. /\ boot.pc \in {"migrate", "retain"} /\ UNCHANGED <<setup, nextKey, day, tier>>
        /\ migrateLock' \in {"free", "fresh", "stale"}
    BY DEF Migrate, Retain, TlsIInv, TlsTypes
  <1>2. setup.kind # "none" /\ dir.caKey # 0 /\ dir.caKey = dir.caCrt.key /\ dir.caCrt.exp >= day
        /\ \A c \in boot.trusted : c = dir.caCrt.key \/ (setup.pinned /\ c = AdminKey)
    BY <1>1 DEF TlsIInv, StageIsSound, UnderCa
  <1>3. ASSUME NEW pc \in {"retain", "issue"}, boot' = [boot EXCEPT !.pc = pc], UNCHANGED dir
        PROVE  TlsIInv'
    <2> DEFINE b == [boot EXCEPT !.pc = pc]
    <2>1. /\ b \in BootType /\ b.pc = pc /\ b.trusted = boot.trusted /\ boot' = b
          /\ pc \in BootPcs \ {"up", "refused"} /\ pc \notin {"caKey", "nodeKey"}
      BY <1>t, <1>3 DEF BootType, BootPcs
    <2> HIDE DEF b
    <2> QED BY <1>1, <1>2, <1>3, <2>1, StageMoves
  <1>4. ASSUME NEW cert, cert = Crt(dir.caCrt.key, dir.nodeKey, "node", day + NodeValidity),
               dir' = [dir EXCEPT !.nodeCrt = cert], Serve(cert, dir.nodeKey)
        PROVE  TlsIInv'
    <2>1. PICK last \in Nat : last = day + NodeValidity /\ last >= day
      BY <1>t, Numbers
    <2>2. "node" \in Sans
      BY DEF Sans
    <2>3. cert = Crt(dir.caCrt.key, dir.nodeKey, "node", last)
      BY <1>4, <2>1
    <2>4. /\ cert \in Cert /\ cert.by = dir.caCrt.key /\ cert.key = dir.nodeKey
          /\ cert.san = "node" /\ cert.exp = last
      <3> DEFINE by == dir.caCrt.key
                 key == dir.nodeKey
      <3>1. by \in Nat /\ key \in Nat /\ cert = Crt(by, key, "node", last)
        BY <1>t, <2>3
      <3> HIDE DEF by, key
      <3>2. cert \in Cert /\ cert.by = by /\ cert.key = key /\ cert.san = "node" /\ cert.exp = last
        BY <2>1, <2>2, <3>1, Crts
      <3> QED BY <3>2 DEF by, key
    <2>5. dir' \in DirType /\ dir'.caKey = dir.caKey
      BY <1>t, <1>4, <2>4 DEF DirType
    <2>6. NodeCertHasCaKey'
      BY <1>2, <2>5 DEF NodeCertHasCaKey
    <2> QED BY <1>t, <1>1, <1>2, <1>4, <2>1, <2>4, <2>5, <2>6, ServesCoherently
  <1>5. ASSUME retainable, Serve(dir.nodeCrt, dir.nodeKey), UNCHANGED dir
        PROVE  TlsIInv'
    <2>1. dir.nodeKey = dir.nodeCrt.key /\ dir.nodeCrt.exp >= day
      BY <1>t, <1>5 DEF retainable, sound, notExpired
    <2>2. /\ dir.nodeCrt.san \in {"host", "node"}
          /\ dir.nodeCrt.by = dir.caCrt.key \/ (setup.pinned /\ dir.nodeCrt.by = AdminKey)
      BY <1>2, <1>5 DEF retainable, isRetainableCanonicalCert, byCa
    <2>3. NodeCertHasCaKey'
      BY <1>1, <1>5 DEF TlsIInv, NodeCertHasCaKey
    <2> QED BY <1>t, <1>1, <1>2, <1>5, <2>1, <2>2, <2>3, ServesCoherently
  <1>6. CASE Migrate
    BY <1>3, <1>4, <1>6 DEF Migrate
  <1>7. CASE Retain
    BY <1>3, <1>5, <1>7 DEF Retain
  <1> QED BY <1>6, <1>7

\* A step taken while the daemon is down, on its files.
LEMMA WhileDown ==
    ASSUME TlsIInv, boot.pc = "down", dir' \in DirType, UNCHANGED <<setup, boot, day, migrateLock>>,
           nextKey' \in 4..(MaxKeys + 1), NodeCertHasCaKey'
    PROVE  TlsIInv'
  <1>1. TlsTypes' /\ StageIsSound'
    BY DEF TlsIInv, TlsTypes, StageIsSound, UnderCa
  <1> QED BY <1>1, NotServing

LEMMA TlsStep == TlsIInv /\ [TlsNext]_tlsVars => TlsIInv'
  <1> SUFFICES ASSUME TlsIInv, [TlsNext]_tlsVars PROVE TlsIInv'
    OBVIOUS
  <1>t. /\ dir \in DirType /\ boot \in BootType /\ day \in Nat /\ dir.nodeKey \in Nat
        /\ dir.caKey \in Nat /\ nextKey \in Nat
    BY TlsParts
  <1>1. CASE TlsDies
    <2>1. boot' = Down /\ UNCHANGED <<dir, setup, nextKey, day, migrateLock>>
      BY <1>1 DEF TlsDies
    <2>2. TlsTypes' /\ StageIsSound' /\ NodeCertHasCaKey'
      BY <2>1, NoCerts DEF TlsIInv, TlsTypes, StageIsSound, UnderCa, NodeCertHasCaKey
    <2> QED BY <2>1, <2>2, NoCerts, NotServing
  <1>2. CASE LockAges \/ ExpiryCheck
    <2>1. /\ UNCHANGED <<dir, setup, boot, nextKey, day>> /\ migrateLock' \in {"free", "fresh", "stale"}
      BY <1>2 DEF LockAges, ExpiryCheck, TlsIInv, TlsTypes
    <2> QED BY <2>1 DEF TlsIInv, TlsTypes, StageIsSound, UnderCa, NodeCertHasCaKey,
                        ServedIsCoherent, OwnCaStarts
  <1>3. CASE InstallCanonical
    <2> DEFINE c == Crt(AdminKey, nextKey, "node", day + NodeValidity)
    <2>1. /\ boot.pc = "down" /\ dir.caKey # 0 /\ nextKey <= MaxKeys /\ nextKey' = nextKey + 1
          /\ dir' = [dir EXCEPT !.nodeCrt = c, !.nodeKey = nextKey]
          /\ UNCHANGED <<setup, boot, day, migrateLock, tier>>
      BY <1>3 DEF InstallCanonical
    <2>2. PICK last \in Nat : last = day + NodeValidity
      BY <1>t, Numbers
    <2>3. c = Crt(AdminKey, nextKey, "node", last) /\ "node" \in Sans
      BY <2>2 DEF Sans
    <2> HIDE DEF c
    <2>4. c \in Cert
      BY <1>t, <2>2, <2>3, Crts, Numbers
    <2>5. dir' \in DirType /\ dir'.caKey = dir.caKey
      BY <1>t, <2>1, <2>4 DEF DirType
    <2>6. nextKey' \in 4..(MaxKeys + 1) /\ NodeCertHasCaKey'
      BY <2>1, <2>5, Numbers DEF TlsIInv, TlsTypes, NodeCertHasCaKey
    <2> QED BY <2>1, <2>5, <2>6, WhileDown
  <1>4. CASE CertDayPasses
    <2>1. /\ day < MaxDay /\ boot.pc \in {"down", "up"} /\ day' = day + 1
          /\ UNCHANGED <<dir, setup, boot, nextKey, migrateLock>>
      BY <1>4 DEF CertDayPasses
    <2>2. TlsTypes'
      BY <1>t, <2>1, Numbers DEF TlsIInv, TlsTypes
    <2>3. StageIsSound' /\ NodeCertHasCaKey'
      BY <2>1 DEF TlsIInv, StageIsSound, UnderCa, NodeCertHasCaKey
    <2>4. ServedIsCoherent' /\ OwnCaStarts'
      BY <2>1 DEF TlsIInv, ServedIsCoherent, OwnCaStarts
    <2> QED BY <2>2, <2>3, <2>4 DEF TlsIInv
  <1>5. CASE RecoverCert
    <2>1. PICK k \in {0, dir.nodeKey} : dir' = [dir EXCEPT !.nodeCrt = NoCrt, !.nodeKey = k]
      BY <1>5 DEF RecoverCert
    <2>2. boot.pc = "down" /\ UNCHANGED <<setup, boot, nextKey, day, migrateLock, tier>>
      BY <1>5 DEF RecoverCert
    <2>3. dir' \in DirType /\ dir'.nodeCrt = NoCrt
      <3>1. k \in Nat /\ NoCrt \in Cert
        BY <1>t, <2>1, NoCerts
      <3> QED BY <1>t, <2>1, <3>1 DEF DirType
    <2>4. nextKey' \in 4..(MaxKeys + 1) /\ NodeCertHasCaKey'
      BY <2>2, <2>3 DEF TlsIInv, TlsTypes, NodeCertHasCaKey
    <2> QED BY <2>2, <2>3, <2>4, WhileDown
  <1>6. CASE UNCHANGED tlsVars
    BY <1>6 DEF tlsVars, TlsIInv, TlsTypes, StageIsSound, UnderCa, NodeCertHasCaKey,
                ServedIsCoherent, OwnCaStarts
  <1> QED BY <1>1, <1>2, <1>3, <1>4, <1>5, <1>6, ProvisionStep, StartStep, WriteStep, JudgeStep,
             RetainStep DEF TlsNext

\* Whatever an earlier start left behind, wherever it died, a daemon that is up
\* serves a certificate that matches its key, was valid at its start and
\* verifies under the CA it hands out, and only an onboarded node can be left
\* without a bundle, whatever the lifetimes are (tls.ts, recovery.ts).
THEOREM ServedIsCoherentHolds ==
    CertificatesInit /\ [][TlsNext]_tlsVars => [](ServedIsCoherent /\ OwnCaStarts)
  <1>1. TlsIInv => ServedIsCoherent /\ OwnCaStarts
    BY DEF TlsIInv
  <1> QED BY TlsInitIInv, TlsStep, <1>1, PTL

(* Issuance: a nonce that yielded a certificate is spent for good.         *)

IssueIInv ==
    /\ nonces \in [Nonces -> Int] /\ nonceClock \in Nat
    /\ \A i \in issued : i.nonce \in Nonces /\ i.uri \in Applicants /\ i.csr \in Csrs
    /\ \A i \in issued : nonces[i.nonce] = -1
    /\ IssuedIsProven

LEMMA IssueInitIInv == CertificatesInit => IssueIInv
  BY DEF CertificatesInit, IssueIInv, IssuedIsProven

LEMMA IssueStep == IssueIInv /\ [IssueNext]_issueVars => IssueIInv'
  <1> SUFFICES ASSUME IssueIInv, [IssueNext]_issueVars PROVE IssueIInv'
    OBVIOUS
  <1> USE DEF IssueIInv
  <1>1. ASSUME NEW n \in Nonces, IssueNonce(n) PROVE IssueIInv'
    <2>1. /\ nonces' = withNonce(n) /\ n \notin {i.nonce : i \in issued}
          /\ UNCHANGED <<nonceClock, proofs, issued>>
      BY <1>1 DEF IssueNonce
    <2>2. nonces' \in [Nonces -> Int]
      BY <2>1, Numbers DEF withNonce
    <2>3. \A i \in issued : nonces'[i.nonce] = -1
      BY <2>1 DEF withNonce
    <2> QED BY <2>1, <2>2, <2>3 DEF IssuedIsProven
  <1>2. ASSUME NEW p \in Applicants, NEW n \in Nonces, NEW csr \in Csrs, NEW ca \in {AdminKey, 0},
               SignProof(p, n, csr, ca)
        PROVE  IssueIInv'
    <2>1. /\ UNCHANGED <<nonces, nonceClock, issued>> /\ proofs \subseteq proofs'
      BY <1>2 DEF SignProof
    <2> QED BY <2>1 DEF IssuedIsProven
  <1>3. ASSUME NEW proof \in proofs, NEW n \in Nonces, NEW peer \in Applicants, NEW uri \in Applicants,
               NEW csr \in Csrs,
               VerifyAndIssue(proof, [nonce |-> n, peer |-> peer, uri |-> uri, csr |-> csr])
        PROVE  IssueIInv'
    <2> DEFINE req == [nonce |-> n, peer |-> peer, uri |-> uri, csr |-> csr]
               i0 == signNodeCertFromCsr(req)
    <2>1. req.nonce = n /\ req.peer = peer /\ req.uri = uri /\ req.csr = csr
      OBVIOUS
    <2>2. i0.nonce = n /\ i0.uri = uri /\ i0.csr = csr
      BY DEF signNodeCertFromCsr
    <2>3. /\ nonces' = [nonces EXCEPT ![n] = -1] /\ UNCHANGED <<nonceClock, proofs>>
          /\ issued' = IF liveNonce(n) /\ proven(proof, req) THEN issued \cup {i0} ELSE issued
      BY <1>3 DEF VerifyAndIssue, nonceAfter
    <2>4. proven(proof, req) => PopMessage(uri, n, csr, AdminKey) = proof
      BY DEF proven, PopMessage
    <2> HIDE DEF req, i0
    <2>5. nonces' \in [Nonces -> Int] /\ nonces'[n] = -1
          /\ \A m \in Nonces : m # n => nonces'[m] = nonces[m]
      BY <2>3
    <2>6. CASE liveNonce(n) /\ proven(proof, req)
      <3>1. \A i \in issued : i.nonce # n
        BY <2>6 DEF liveNonce
      <3>2. issued' = issued \cup {i0} /\ proofs' = proofs
        BY <2>3, <2>6
      <3>3. \A i \in issued' : i.nonce \in Nonces /\ i.uri \in Applicants /\ i.csr \in Csrs
        BY <2>2, <3>2
      <3>4. \A i \in issued' : nonces'[i.nonce] = -1
        BY <2>2, <2>5, <3>1, <3>2
      <3>5. \A i \in issued' : PopMessage(i.uri, i.nonce, i.csr, AdminKey) \in proofs'
        BY <2>2, <2>4, <2>6, <3>2 DEF IssuedIsProven
      <3>6. \A i, j \in issued' : i.nonce = j.nonce => i = j
        BY <2>2, <3>1, <3>2 DEF IssuedIsProven
      <3> QED BY <2>3, <2>5, <3>3, <3>4, <3>5, <3>6 DEF IssuedIsProven
    <2>7. CASE ~(liveNonce(n) /\ proven(proof, req))
      <3>1. issued' = issued
        BY <2>3, <2>7
      <3> QED BY <2>3, <2>5, <3>1 DEF IssuedIsProven
    <2> QED BY <2>6, <2>7
  <1>4. CASE NonceTime
    BY <1>4 DEF NonceTime, IssuedIsProven
  <1>5. CASE UNCHANGED issueVars
    BY <1>5 DEF issueVars, IssuedIsProven
  <1> QED BY <1>1, <1>2, <1>3, <1>4, <1>5 DEF IssueNext

\* A nonce yields at most one certificate, and each binds the identity and the
\* key its applicant signed for this CA, however requests are repeated, mixed up
\* and delayed past a nonce's life (cert-issuer.ts, cert-pop.ts).
THEOREM IssuedIsProvenHolds == CertificatesInit /\ [][IssueNext]_issueVars => []IssuedIsProven
  <1>1. IssueIInv => IssuedIsProven
    BY DEF IssueIInv
  <1> QED BY IssueInitIInv, IssueStep, <1>1, PTL

-----------------------------------------------------------------------------
(* Agents, branch locks and the session watcher.  Agents and locks share   *)
(* the clock, so each sees the other's time pass.                          *)

ClockOnly == agentClock' \in {agentClock, agentClock + 1}
AgentMoves == AgentNext \/ (ClockOnly /\ UNCHANGED <<agentTable, mail, lastWoken, told>>)
LockMoves == LockNext \/ (ClockOnly /\ UNCHANGED <<branch, believed, ousted>>)

LEMMA SessionNumbers ==
    /\ AgentStaleAfter \in Nat /\ SweepWindow \in Nat /\ LockTime \in Nat /\ LockTime > 0
    /\ MaxLines \in Nat /\ NeverAgo \in Int
    /\ \A now \in Nat : now - NeverAgo > AgentStaleAfter /\ NeverAgo < now
  BY SessionsAssumption DEF NeverAgo

AgentRow == [type : AgentTypes \cup {"none"}, last : Int]

\* The table remembers the beat it confirmed, and whoever it does not hold has
\* not been told so for longer than a beat lives.
AgentIInv ==
    /\ agentTable \in [Agents -> AgentRow] /\ told \in [Agents -> Int] /\ agentClock \in Nat
    /\ \A a \in Agents : agentTable[a] # Absent => agentTable[a].last = told[a]
    /\ \A a \in Agents : agentTable[a] = Absent => agentClock - told[a] > AgentStaleAfter

LEMMA AgentInitIInv == SessionsInit => AgentIInv
  <1> SUFFICES ASSUME SessionsInit PROVE AgentIInv
    OBVIOUS
  <1>1. Absent \in AgentRow
    BY SessionNumbers DEF Absent, AgentRow
  <1>2. /\ agentTable \in [Agents -> AgentRow] /\ told \in [Agents -> Int] /\ agentClock = 0
        /\ \A a \in Agents : agentTable[a] = Absent /\ told[a] = NeverAgo
    BY <1>1, SessionNumbers DEF SessionsInit
  <1> QED BY <1>2, SessionNumbers DEF AgentIInv

LEMMA AgentStep == AgentIInv /\ AgentMoves => AgentIInv'
  <1> SUFFICES ASSUME AgentIInv, AgentMoves PROVE AgentIInv'
    OBVIOUS
  <1> USE SessionNumbers DEF AgentIInv
  \* The beat of a is confirmed now.
  <1>b. ASSUME NEW a \in Agents, NEW row \in AgentRow, row.last = agentClock, row # Absent,
               agentTable' = [agentTable EXCEPT ![a] = row],
               told' = [told EXCEPT ![a] = agentClock], agentClock' = agentClock
        PROVE  AgentIInv'
    BY <1>b
  <1>0. CASE ClockOnly /\ UNCHANGED <<agentTable, mail, lastWoken, told>>
    BY <1>0 DEF ClockOnly
  <1>1. ASSUME NEW a \in Agents, NEW type \in AgentTypes, RegisterAgent(a, type) PROVE AgentIInv'
    <2> DEFINE row == [type |-> type, last |-> agentClock]
    <2>1. /\ agentTable' = [agentTable EXCEPT ![a] = row]
          /\ told' = [told EXCEPT ![a] = agentClock] /\ agentClock' = agentClock
      BY <1>1 DEF RegisterAgent, registered
    <2>2. type # "none"
      BY SessionsAssumption
    <2>3. row \in AgentRow /\ row.last = agentClock /\ row # Absent
      BY <2>2 DEF AgentRow, Absent
    <2> HIDE DEF row
    <2> QED BY <1>b, <2>1, <2>3
  <1>2. ASSUME NEW a \in Agents, HeartbeatAgent(a) PROVE AgentIInv'
    <2> DEFINE row == [agentTable[a] EXCEPT !.last = agentClock]
    <2>1. /\ agentTable' = [agentTable EXCEPT ![a] = row] /\ agentTable[a] # Absent
          /\ told' = [told EXCEPT ![a] = agentClock] /\ agentClock' = agentClock
      BY <1>2 DEF HeartbeatAgent
    <2>2. row \in AgentRow /\ row.last = agentClock
      BY DEF AgentRow
    <2>3. agentClock # NeverAgo
      OBVIOUS
    <2>4. row # Absent
      BY <2>2, <2>3 DEF Absent
    <2> HIDE DEF row
    <2> QED BY <1>b, <2>1, <2>2, <2>4
  <1>3. ASSUME NEW a \in Agents, UnregisterAgent(a) PROVE AgentIInv'
    <2>1. Absent \in AgentRow
      BY DEF Absent, AgentRow
    <2> QED BY <1>3, <2>1 DEF UnregisterAgent
  <1>4. ASSUME NEW a \in Agents, MailChanges(a) PROVE AgentIInv'
    BY <1>4 DEF MailChanges
  <1>5. CASE SweepAgents
    <2>1. Absent \in AgentRow
      BY DEF Absent, AgentRow
    <2>2. /\ agentTable' = [a \in Agents |-> IF staleAgent(agentTable[a]) THEN Absent ELSE agentTable[a]]
          /\ told' = told /\ agentClock' = agentClock
      BY <1>5 DEF SweepAgents
    <2>3. agentTable' \in [Agents -> AgentRow]
      BY <2>1, <2>2
    <2>4. ASSUME NEW a \in Agents, agentTable'[a] = Absent PROVE agentClock - told[a] > AgentStaleAfter
      BY <2>2, <2>4 DEF staleAgent
    <2> QED BY <2>2, <2>3, <2>4
  <1>6. CASE AgentTime
    BY <1>6 DEF AgentTime
  <1> QED BY <1>0, <1>1, <1>2, <1>3, <1>4, <1>5, <1>6 DEF AgentMoves, AgentNext

LEMMA AgentsStay == AgentIInv => BeatingAgentStays
  BY SessionNumbers DEF AgentIInv, BeatingAgentStays

\* Whoever believes to hold the branch is in the row, with the time it was told.
LockIInv ==
    /\ branch \in [holder : Agents \cup {"none"}, until : Int]
    /\ believed \in [Agents -> Int] /\ agentClock \in Nat
    /\ \A a \in Agents \ ousted :
           believed[a] >= agentClock => branch.holder = a /\ branch.until = believed[a]

LEMMA LockInitIInv == SessionsInit => LockIInv
  BY SessionNumbers DEF SessionsInit, LockIInv, Free

LEMMA LockStep == LockIInv /\ LockMoves => LockIInv'
  <1> SUFFICES ASSUME LockIInv, LockMoves PROVE LockIInv'
    OBVIOUS
  <1> USE SessionNumbers DEF LockIInv
  <1>f. Free \in [holder : Agents \cup {"none"}, until : Int] /\ Free.holder = "none"
    BY DEF Free
  <1>0. CASE ClockOnly /\ UNCHANGED <<branch, believed, ousted>>
    BY <1>0 DEF ClockOnly
  <1>1. CASE LockTimePasses
    BY <1>1 DEF LockTimePasses
  <1>2. ASSUME NEW a \in Agents, Checkout(a) PROVE LockIInv'
    <2> DEFINE row == IF expired(branch) THEN Free ELSE branch
    <2>1. agentClock' = agentClock
      BY <1>2 DEF Checkout
    <2>2. CASE row.holder \in {"none", a}
      <3>1. /\ branch' = [holder |-> a, until |-> agentClock + LockTime]
            /\ believed' = [believed EXCEPT ![a] = agentClock + LockTime] /\ ousted' = ousted \ {a}
        BY <1>2, <2>2 DEF Checkout
      <3>2. \A b \in Agents \ ousted : b # a => believed[b] < agentClock
        <4> SUFFICES ASSUME NEW b \in Agents \ ousted, b # a, believed[b] >= agentClock PROVE FALSE
          OBVIOUS
        <4>1. branch.holder = b /\ branch.until >= agentClock
          OBVIOUS
        <4>2. ~expired(branch)
          BY <4>1 DEF expired
        <4>3. b \in {"none", a}
          BY <2>2, <4>1, <4>2
        <4> QED BY <4>3, SessionsAssumption
      <3> QED BY <2>1, <3>1, <3>2
    <2>3. CASE row.holder \notin {"none", a}
      <3>1. branch' = row /\ believed' = believed /\ ousted' = ousted
        BY <1>2, <2>3 DEF Checkout
      <3>2. ~expired(branch)
        BY <1>f, <2>3
      <3> QED BY <2>1, <3>1, <3>2
    <2> QED BY <2>2, <2>3
  <1>3. ASSUME NEW a \in Agents, ReleaseBranch(a) PROVE LockIInv'
    <2>1. /\ branch.holder = a /\ branch' = Free /\ believed' = [believed EXCEPT ![a] = NeverAgo]
          /\ agentClock' = agentClock /\ ousted' = ousted
      BY <1>3 DEF ReleaseBranch
    <2>2. \A b \in Agents \ ousted : believed'[b] < agentClock
      BY <2>1
    <2> QED BY <1>f, <2>1, <2>2
  <1>4. CASE ForceRelease
    <2>1. /\ branch.holder \in Agents /\ branch' = Free /\ ousted' = ousted \cup {branch.holder}
          /\ believed' = believed /\ agentClock' = agentClock
      BY <1>4 DEF ForceRelease
    <2>2. \A b \in Agents \ ousted' : believed[b] < agentClock
      BY <2>1
    <2> QED BY <1>f, <2>1, <2>2
  <1> QED BY <1>0, <1>1, <1>2, <1>3, <1>4 DEF LockMoves, LockNext

LEMMA LocksExclude == LockIInv => CheckoutExcludes
  BY DEF LockIInv, CheckoutExcludes, expired

\* Every line up to n is in the event store.
Covered(n) == \A l \in 1..n : \E k \in 1..Len(eventStore) : eventStore[k] = l

TickRow == [pc : {"idle", "wait", "read", "append", "write"}, from : Nat, upto : Nat,
            waitsFor : SUBSET Ticks]

\* A call that has read the tail may go on from an offset that has meanwhile
\* moved either way; the lines below it are stored all the same, and after its
\* append so are the ones it read.
TickGood(t) ==
    /\ ticks[t].pc \in {"append", "write"} =>
          /\ ticks[t].from <= ticks[t].upto /\ ticks[t].upto <= sessionFile.lines
          /\ Covered(ticks[t].from)
    /\ ticks[t].pc = "write" => Covered(ticks[t].upto)

WatchIInv ==
    /\ sessionFile \in [lines : Nat, partial : BOOLEAN] /\ offset \in Nat
    /\ eventStore \in Seq(Nat) /\ ticks \in [Ticks -> TickRow]
    /\ \A t \in Ticks : TickGood(t)
    /\ Covered(offset)

LEMMA WatchInitIInv == SessionsInit => WatchIInv
  <1> SUFFICES ASSUME SessionsInit PROVE WatchIInv
    OBVIOUS
  <1> DEFINE idle == [pc |-> "idle", from |-> 0, upto |-> 0, waitsFor |-> {}]
  <1>1. idle \in TickRow /\ idle.pc = "idle"
    BY DEF TickRow
  <1> HIDE DEF idle
  <1>2. ticks \in [Ticks -> TickRow] /\ \A t \in Ticks : ticks[t].pc = "idle"
    BY <1>1 DEF SessionsInit, idle
  <1>3. sessionFile \in [lines : Nat, partial : BOOLEAN] /\ offset = 0 /\ eventStore \in Seq(Nat)
    BY DEF SessionsInit
  <1>4. Covered(0)
    BY DEF Covered
  <1>5. \A t \in Ticks : TickGood(t)
    BY <1>2 DEF TickGood
  <1> QED BY <1>2, <1>3, <1>4, <1>5 DEF WatchIInv

\* The store only grows, and what is covered stays covered.
LEMMA StoreGrows ==
    ASSUME eventStore \in Seq(Nat), NEW more \in Seq(Nat), eventStore' = eventStore \o more,
           NEW n \in Nat, Covered(n)
    PROVE  Covered(n)'
  <1>1. /\ Len(eventStore') = Len(eventStore) + Len(more)
        /\ \A k \in 1..Len(eventStore) : eventStore'[k] = eventStore[k]
    OBVIOUS
  <1>2. Len(eventStore) \in Nat /\ Len(more) \in Nat
    OBVIOUS
  <1>3. ASSUME NEW l \in 1..n PROVE \E k \in 1..Len(eventStore') : eventStore'[k] = l
    <2>1. PICK k \in 1..Len(eventStore) : eventStore[k] = l
      BY DEF Covered
    <2>2. k \in 1..Len(eventStore') /\ eventStore'[k] = l
      BY <1>1, <1>2, <2>1
    <2> QED BY <2>2
  <1> QED BY <1>3 DEF Covered

\* A step of one call that leaves file and store alone.
LEMMA TickMoves ==
    ASSUME WatchIInv, NEW t \in Ticks, NEW row \in TickRow, ticks' = [ticks EXCEPT ![t] = row],
           UNCHANGED <<sessionFile, eventStore>>, offset' \in Nat, Covered(offset'),
           row.pc \in {"append", "write"} =>
               /\ row.from <= row.upto /\ row.upto <= sessionFile.lines
               /\ Covered(row.from),
           row.pc = "write" => Covered(row.upto)
    PROVE  WatchIInv'
  <1>2. ticks' \in [Ticks -> TickRow] /\ ticks'[t] = row /\ \A u \in Ticks \ {t} : ticks'[u] = ticks[u]
    BY DEF WatchIInv
  <1>3. ASSUME NEW u \in Ticks PROVE TickGood(u)'
    <2>1. CASE u = t
      BY <1>2, <2>1 DEF TickGood, Covered
    <2>2. CASE u # t
      <3>1. TickGood(u)
        BY DEF WatchIInv
      <3> QED BY <1>2, <2>2, <3>1 DEF TickGood, Covered
    <2> QED BY <2>1, <2>2
  <1>4. Covered(offset)'
    BY DEF Covered
  <1> QED BY <1>2, <1>3, <1>4 DEF WatchIInv

\* The complete lines a call consumes are those after its offset.
LEMMA ParsedLinesAreNew ==
    ASSUME NEW t \in Ticks, sessionFile.lines \in Nat, ticks[t].from \in Nat, ticks[t].upto \in Nat,
           ticks[t].from <= ticks[t].upto, ticks[t].upto <= sessionFile.lines
    PROVE  Cardinality(parsedLines(t)) = ticks[t].upto - ticks[t].from
  <1>1. PICK first \in Int, last \in Int : first = ticks[t].from + 1 /\ last = ticks[t].upto
    OBVIOUS
  <1>2. parsedLines(t) = first..last
    BY <1>1 DEF parsedLines
  <1>3. CASE first <= last
    <2>1. Cardinality(first..last) = last - first + 1
      BY <1>3, FS_Interval
    <2> QED BY <1>1, <1>2, <2>1
  <1>4. CASE ~(first <= last)
    <2>1. parsedLines(t) = {}
      BY <1>1, <1>2, <1>4
    <2>2. Cardinality(parsedLines(t)) = 0
      BY <2>1, FS_EmptySet, Zenon
    <2> QED BY <1>1, <1>4, <2>2
  <1> QED BY <1>3, <1>4

LEMMA WatchStep == WatchIInv /\ [WatchNext]_watchVars => WatchIInv'
  <1> SUFFICES ASSUME WatchIInv, [WatchNext]_watchVars PROVE WatchIInv'
    OBVIOUS
  <1>t. /\ sessionFile \in [lines : Nat, partial : BOOLEAN] /\ offset \in Nat
        /\ eventStore \in Seq(Nat) /\ ticks \in [Ticks -> TickRow] /\ Covered(offset)
        /\ \A t \in Ticks : TickGood(t)
    BY DEF WatchIInv
  <1>r. ASSUME NEW t \in Ticks
        PROVE  /\ ticks[t] \in TickRow /\ ticks[t].from \in Nat /\ ticks[t].upto \in Nat
    BY <1>t DEF TickRow
  <1>1. ASSUME NEW t \in Ticks, CallTick(t) \/ PriorSettles(t) PROVE WatchIInv'
    <2>1. PICK pc \in {"read", "wait"}, w \in SUBSET Ticks :
              ticks' = [ticks EXCEPT ![t] = [@ EXCEPT !.pc = pc, !.waitsFor = w]]
      <3>1. CASE PriorSettles(t)
        <4>1. ticks' = [ticks EXCEPT ![t] = [@ EXCEPT !.pc = "read", !.waitsFor = {}]]
          BY <1>t, <3>1 DEF PriorSettles
        <4> QED BY <4>1
      <3>2. CASE CallTick(t)
        <4> DEFINE running == {u \in Ticks : ticks[u].pc \in {"read", "append", "write"}}
        <4>1. CASE running = {}
          <5>1. ticks' = [ticks EXCEPT ![t] = [@ EXCEPT !.pc = "read", !.waitsFor = {}]]
            BY <1>t, <3>2, <4>1 DEF CallTick
          <5> QED BY <5>1
        <4>2. CASE running # {}
          <5>1. PICK u \in running : ticks' = [ticks EXCEPT ![t].pc = "wait", ![t].waitsFor = {u}]
            BY <3>2, <4>2 DEF CallTick
          <5>2. ticks' = [ticks EXCEPT ![t] = [@ EXCEPT !.pc = "wait", !.waitsFor = {u}]]
            BY <1>t, <5>1
          <5>3. {u} \in SUBSET Ticks
            OBVIOUS
          <5> QED BY <5>2, <5>3
        <4> QED BY <4>1, <4>2
      <3> QED BY <1>1, <3>1, <3>2
    <2> DEFINE row == [ticks[t] EXCEPT !.pc = pc, !.waitsFor = w]
    <2>2. ticks' = [ticks EXCEPT ![t] = row] /\ row \in TickRow /\ row.pc = pc
      BY <1>r, <2>1 DEF TickRow
    <2> HIDE DEF row
    <2>3. UNCHANGED <<sessionFile, offset, eventStore>>
      BY <1>1 DEF CallTick, PriorSettles
    <2> QED BY <1>t, <2>2, <2>3, TickMoves
  <1>2. ASSUME NEW t \in Ticks, ReadTail(t) PROVE WatchIInv'
    <2>1. UNCHANGED <<sessionFile, offset, eventStore>>
      BY <1>2 DEF ReadTail
    <2>2. CASE sessionFile.lines <= offset
      <3> DEFINE row == [ticks[t] EXCEPT !.pc = "idle"]
      <3>1. ticks' = [ticks EXCEPT ![t] = row]
        BY <1>2, <1>t, <2>2 DEF ReadTail, completeLines
      <3>2. row \in TickRow /\ row.pc = "idle"
        BY <1>r DEF TickRow
      <3> HIDE DEF row
      <3> QED BY <1>t, <2>1, <3>1, <3>2, TickMoves
    <2>3. CASE ~(sessionFile.lines <= offset)
      <3>l. PICK lines \in Nat : lines = sessionFile.lines
        BY <1>t
      <3> DEFINE row == [ticks[t] EXCEPT !.pc = "append", !.from = offset, !.upto = lines]
      <3>1. ticks' = [ticks EXCEPT ![t] = row]
        BY <1>2, <1>t, <2>3, <3>l DEF ReadTail, completeLines
      <3>o. ticks[t] \in TickRow /\ offset \in Nat
        BY <1>r, <1>t
      <3>2. row \in TickRow /\ row.pc = "append" /\ row.from = offset /\ row.upto = lines
        BY <3>o DEF TickRow
      <3> HIDE DEF row
      <3>3. row.from <= row.upto /\ row.upto <= sessionFile.lines
        BY <1>t, <2>3, <3>2, <3>l
      <3> QED BY <1>t, <2>1, <3>1, <3>2, <3>3, TickMoves
    <2> QED BY <2>2, <2>3
  <1>3. ASSUME NEW t \in Ticks, AppendEvents(t) PROVE WatchIInv'
    <2> DEFINE from == ticks[t].from
               upto == ticks[t].upto
               more == [k \in 1..(upto - from) |-> from + k]
               row == [ticks[t] EXCEPT !.pc = "write"]
    <2>1. /\ ticks[t].pc = "append" /\ ticks' = [ticks EXCEPT ![t] = row]
          /\ eventStore' = eventStore \o [k \in 1..Cardinality(parsedLines(t)) |-> from + k]
          /\ UNCHANGED <<sessionFile, offset>>
      BY <1>3, <1>t DEF AppendEvents
    <2>2. from \in Nat /\ upto \in Nat /\ from <= upto /\ upto <= sessionFile.lines /\ Covered(from)
      BY <1>r, <1>t, <2>1 DEF TickGood
    <2>3. Cardinality(parsedLines(t)) = upto - from
      BY <1>t, <2>2, ParsedLinesAreNew
    <2>4. row \in TickRow /\ row.pc = "write" /\ row.from = from /\ row.upto = upto
      BY <1>r DEF TickRow
    <2> HIDE DEF from, upto, row
    <2>5. more \in Seq(Nat) /\ Len(more) = upto - from /\ eventStore' = eventStore \o more
      BY <2>1, <2>2, <2>3
    <2>6. \A k \in 1..(upto - from) : more[k] = from + k
      OBVIOUS
    <2> HIDE DEF more
    <2>7. \A n \in Nat : Covered(n) => Covered(n)'
      BY <1>t, <2>5, StoreGrows
    <2>8. eventStore' \in Seq(Nat)
      BY <1>t, <2>5
    <2>9. \A l \in 1..upto : \E k \in 1..Len(eventStore') : eventStore'[k] = l
      <3> SUFFICES ASSUME NEW l \in 1..upto PROVE \E k \in 1..Len(eventStore') : eventStore'[k] = l
        OBVIOUS
      <3>1. CASE l <= from
        <4>1. \A m \in 1..from : \E k \in 1..Len(eventStore') : eventStore'[k] = m
          BY <2>2, <2>7 DEF Covered
        <4> QED BY <2>2, <3>1, <4>1
      <3>2. CASE l > from
        <4>1. l - from \in 1..Len(more) /\ more[l - from] = l
          BY <2>2, <2>5, <2>6, <3>2
        <4>2. /\ Len(eventStore) + (l - from) \in 1..Len(eventStore')
              /\ eventStore'[Len(eventStore) + (l - from)] = more[l - from]
          BY <1>t, <2>5, <4>1
        <4> QED BY <4>1, <4>2
      <3> QED BY <2>2, <3>1, <3>2
    <2>10. /\ ticks' \in [Ticks -> TickRow] /\ ticks'[t] = row
           /\ \A u \in Ticks \ {t} : ticks'[u] = ticks[u]
      BY <1>t, <2>1, <2>4
    <2>11. ASSUME NEW u \in Ticks PROVE TickGood(u)'
      <3>1. CASE u = t
        <4>1. \A l \in 1..from : \E k \in 1..Len(eventStore') : eventStore'[k] = l
          BY <2>2, <2>9
        <4>2. ticks'[t].from = from /\ ticks'[t].upto = upto /\ sessionFile' = sessionFile
          BY <2>1, <2>4, <2>10
        <4> QED BY <2>2, <2>9, <3>1, <4>1, <4>2 DEF TickGood, Covered
      <3>2. CASE u # t
        <4>1. TickGood(u) /\ ticks[u].from \in Nat /\ ticks[u].upto \in Nat
          BY <1>t, <1>r
        <4>2. /\ Covered(ticks[u].from) => Covered(ticks[u].from)'
              /\ Covered(ticks[u].upto) => Covered(ticks[u].upto)'
          BY <2>7, <2>10, <3>2, <4>1 DEF Covered
        <4> QED BY <2>1, <2>10, <3>2, <4>1, <4>2 DEF TickGood
      <3> QED BY <3>1, <3>2
    <2>12. Covered(offset)'
      BY <1>t, <2>1, <2>7 DEF Covered
    <2> QED BY <1>t, <2>1, <2>8, <2>10, <2>11, <2>12 DEF WatchIInv
  <1>4. ASSUME NEW t \in Ticks, WriteState(t) PROVE WatchIInv'
    <2> DEFINE row == [ticks[t] EXCEPT !.pc = "idle"]
    <2>1. /\ ticks[t].pc = "write" /\ offset' = ticks[t].upto /\ ticks' = [ticks EXCEPT ![t] = row]
          /\ UNCHANGED <<sessionFile, eventStore>>
      BY <1>4, <1>t DEF WriteState
    <2>2. row \in TickRow /\ row.pc = "idle"
      BY <1>r DEF TickRow
    <2> HIDE DEF row
    <2>3. offset' \in Nat /\ Covered(offset')
      BY <1>r, <1>t, <2>1 DEF TickGood
    <2> QED BY <2>1, <2>2, <2>3, TickMoves
  <1>5. CASE LineGrows
    <2>1. /\ UNCHANGED <<offset, eventStore, ticks>>
          /\ sessionFile' = [sessionFile EXCEPT !.partial = TRUE]
             \/ sessionFile' = [lines |-> sessionFile.lines + 1, partial |-> FALSE]
      BY <1>5 DEF LineGrows
    <2>l. PICK lines \in Nat : lines = sessionFile.lines
      BY <1>t
    <2>2. sessionFile' \in [lines : Nat, partial : BOOLEAN] /\ sessionFile'.lines >= sessionFile.lines
      <3>1. CASE sessionFile' = [sessionFile EXCEPT !.partial = TRUE]
        <4>1. sessionFile' \in [lines : Nat, partial : BOOLEAN] /\ sessionFile'.lines = sessionFile.lines
          BY <1>t, <3>1
        <4> QED BY <2>l, <4>1
      <3>2. CASE sessionFile' = [lines |-> sessionFile.lines + 1, partial |-> FALSE]
        <4>1. sessionFile' = [lines |-> lines + 1, partial |-> FALSE]
          BY <2>l, <3>2
        <4>2. sessionFile' \in [lines : Nat, partial : BOOLEAN] /\ sessionFile'.lines = lines + 1
          BY <4>1
        <4> QED BY <2>l, <4>2
      <3> QED BY <2>1, <3>1, <3>2
    <2>3. ASSUME NEW t \in Ticks PROVE TickGood(t)'
      <3>1. TickGood(t) /\ ticks[t].upto \in Nat
        BY <1>t, <1>r
      <3>2. /\ Covered(ticks[t].from)' <=> Covered(ticks[t].from)
            /\ Covered(ticks[t].upto)' <=> Covered(ticks[t].upto)
        BY <2>1 DEF Covered
      <3>3. sessionFile.lines \in Nat
        BY <1>t
      <3> QED BY <2>1, <2>2, <3>1, <3>2, <3>3 DEF TickGood
    <2>4. Covered(offset)'
      BY <1>t, <2>1 DEF Covered
    <2> QED BY <1>t, <2>1, <2>2, <2>3, <2>4 DEF WatchIInv
  <1>6. CASE WatcherDies
    <2> DEFINE idle == [pc |-> "idle", from |-> 0, upto |-> 0, waitsFor |-> {}]
    <2>1. idle \in TickRow /\ idle.pc = "idle"
      BY DEF TickRow
    <2>2. ticks' = [t \in Ticks |-> idle] /\ UNCHANGED <<sessionFile, offset, eventStore>>
      BY <1>6 DEF WatcherDies
    <2> HIDE DEF idle
    <2>3. ticks' \in [Ticks -> TickRow] /\ \A t \in Ticks : ticks'[t].pc = "idle"
      BY <2>1, <2>2
    <2>4. Covered(offset)' /\ \A t \in Ticks : TickGood(t)'
      BY <1>t, <2>2, <2>3 DEF TickGood, Covered
    <2> QED BY <1>t, <2>2, <2>3, <2>4 DEF WatchIInv
  <1>7. CASE UNCHANGED watchVars
    BY <1>7 DEF watchVars, WatchIInv, TickGood, Covered
  <1> QED BY <1>1, <1>2, <1>3, <1>4, <1>5, <1>6, <1>7 DEF WatchNext

LEMMA LinesAreKept == WatchIInv => NoLineLost
  BY DEF WatchIInv, Covered, NoLineLost

-----------------------------------------------------------------------------
(* A skill in a child process. *)

\* Two sequences agree up to the first place where they differ or one ends:
\* the length path.relative cuts off exists.
CommonTo(f, g, m, n, k) ==
    /\ k <= n
    /\ \A i \in 1..k : f[i] = g[i]
    /\ k < m /\ k < n => f[k + 1] # g[k + 1]

LEMMA CommonLength ==
    ASSUME NEW f, NEW g, NEW m \in Nat, NEW n \in Nat
    PROVE  \E k \in 0..m : CommonTo(f, g, m, n, k)
  <1> USE DEF CommonTo
  <1> DEFINE D == {k \in Nat : k < m /\ k < n /\ f[k + 1] # g[k + 1]}
  <1>1. CASE D = {}
    <2>1. \A k \in Nat : k < m /\ k < n => f[k + 1] = g[k + 1]
      BY <1>1
    <2>2. \A i \in Nat : 1 <= i /\ i <= m /\ i <= n => f[i] = g[i]
      <3> SUFFICES ASSUME NEW i \in Nat, 1 <= i, i <= m, i <= n PROVE f[i] = g[i]
        OBVIOUS
      <3>1. i - 1 \in Nat /\ i - 1 < m /\ i - 1 < n /\ (i - 1) + 1 = i
        OBVIOUS
      <3> QED BY <2>1, <3>1
    <2>3. CASE m <= n
      <3>1. m \in 0..m /\ \A i \in 1..m : f[i] = g[i]
        BY <2>2, <2>3
      <3> QED BY <2>3, <3>1
    <2>4. CASE n < m
      <3>1. n \in 0..m /\ \A i \in 1..n : f[i] = g[i]
        BY <2>2, <2>4
      <3> QED BY <2>4, <3>1
    <2> QED BY <2>3, <2>4
  <1>2. CASE D # {}
    <2> DEFINE R == OpToRel(<, Nat)
    <2>1. IsWellFoundedOn(R, Nat) /\ D \subseteq Nat
      BY NatLessThanWellFounded
    <2>2. \A x, y \in Nat : <<x, y>> \in R <=> x < y
      BY DEF OpToRel
    <2> HIDE DEF R, D
    <2>3. PICK k \in D : \A y \in D : ~(<<y, k>> \in R)
      BY <1>2, <2>1, WFMin
    <2>4. k \in Nat /\ k < m /\ k < n /\ f[k + 1] # g[k + 1]
      BY <2>3 DEF D
    <2>5. \A y \in Nat : y < k => y \notin D
      BY <2>2, <2>3, <2>4
    <2>6. ASSUME NEW i \in 1..k PROVE f[i] = g[i]
      <3>1. i - 1 \in Nat /\ i - 1 < k /\ (i - 1) + 1 = i /\ i - 1 < m /\ i - 1 < n
        BY <2>4
      <3>2. i - 1 \notin D
        BY <2>5, <3>1
      <3> QED BY <3>1, <3>2 DEF D
    <2>7. k \in 0..m /\ k <= n
      BY <2>4
    <2> QED BY <2>4, <2>6, <2>7
  <1> QED BY <1>1, <1>2

\* What normalize returns is a sequence, whatever the names are.
LEMMA NormalizeIsSeq ==
    ASSUME NEW path \in Paths
    PROVE  \E n \in Nat : \E S : normalize(path) \in [1..n -> S]
  <1>1. PICK len \in 0..MaxDepth : path \in [1..len -> Segments]
    BY DEF Paths
  <1> DEFINE names == {i \in DOMAIN path : path[i] \notin {".", ".."}}
             climbs == {i \in DOMAIN path : path[i] = ".."}
             after(S, i, j) == Cardinality({k \in S : i < k /\ k <= j})
             kept == {i \in names : \A j \in climbs : after(climbs, i, j) <= after(names, i, j)}
             n == Cardinality(kept)
             f == [m \in 1..n |->
                      path[CHOOSE i \in kept : Cardinality({k \in kept : k <= i}) = m]]
  <1>2. normalize(path) = f
    BY Zenon DEF normalize
  <1>3. kept \subseteq 1..len
    BY <1>1
  <1>4. IsFiniteSet(1..len)
    BY SandboxAssumption, FS_Interval
  <1> HIDE DEF kept
  <1>5. n \in Nat
    BY <1>3, <1>4, FS_Subset, FS_CardinalityType
  <1> HIDE DEF n
  <1>6. f \in [1..n -> {f[m] : m \in 1..n}]
    OBVIOUS
  <1> QED BY <1>2, <1>5, <1>6

\* A path that passes the check resolves to one under the directory: unless the
\* whole of AllowedDir is common to both, relative begins with "..".
LEMMA AllowedIsInside ==
    ASSUME NEW path \in Paths, isPathAllowed(path)
    PROVE  IsPrefix(AllowedDir, normalize(path))
  <1> DEFINE from == AllowedDir
             to == normalize(path)
             Common(k) == /\ k <= Len(to)
                          /\ \A i \in 1..k : from[i] = to[i]
                          /\ k < Len(from) /\ k < Len(to) => from[k + 1] # to[k + 1]
             common == CHOOSE k \in 0..Len(from) : Common(k)
             up == [i \in 1..(Len(from) - common) |-> ".."]
             rest == SubSeq(to, common + 1, Len(to))
  <1>m. PICK n \in Nat : \E S : to \in [1..n -> S]
    BY NormalizeIsSeq
  <1>1. PICK S : to \in [1..n -> S]
    BY <1>m
  <1>2. to \in Seq(S) /\ Len(to) = n /\ from \in Seq(Segments) /\ Len(from) \in Nat
    BY <1>m, <1>1, SandboxAssumption
  <1>3. relative(from, to) = up \o rest
    BY Zenon DEF relative
  <1>4. common \in 0..Len(from) /\ Common(common)
    <2>1. \E k \in 0..Len(from) : Common(k)
      <3>1. PICK m \in Nat : m = Len(from)
        BY <1>2
      <3> HIDE DEF from, to
      <3>2. PICK k \in 0..m : CommonTo(from, to, m, n, k)
        BY <1>m, <3>1, CommonLength
      <3> QED BY <1>2, <3>1, <3>2 DEF CommonTo
    <2> HIDE DEF from, to, Common
    <2> QED BY <2>1, Zenon
  <1>5. up \o rest = <<>> \/ ~StartsWithDots(up \o rest)
    <2> HIDE DEF up, rest
    <2> QED BY <1>3 DEF isPathAllowed
  <1> HIDE DEF common
  <1>6. PICK c \in Nat, d \in Nat : c = common /\ d = Len(from) /\ c <= d /\ c <= n
    <2> HIDE DEF from, to
    <2>1. common \in Nat /\ common <= Len(from) /\ common <= n /\ Len(from) \in Nat
      BY <1>2, <1>4
    <2> QED BY <2>1
  <1>7. common = Len(from)
    <2> SUFFICES ASSUME c < d PROVE FALSE
      BY <1>6
    <2>1. up \in Seq({".."}) /\ Len(up) = d - c /\ up[1] = ".."
      BY <1>6
    <2>2. rest \in Seq(S)
      BY <1>2, <1>4, <1>6
    <2> HIDE DEF up, rest
    <2>3. (up \o rest)[1] = ".." /\ Len(up \o rest) = Len(up) + Len(rest) /\ Len(rest) \in Nat
      <3>1. up \in Seq({".."} \cup S) /\ rest \in Seq({".."} \cup S)
        BY <2>1, <2>2
      <3> QED BY <1>6, <2>1, <3>1
    <2>4. up \o rest # <<>>
      BY <1>6, <2>1, <2>3
    <2> QED BY <1>5, <2>3, <2>4 DEF StartsWithDots
  <1>8. Len(from) <= n /\ \A i \in 1..Len(from) : from[i] = to[i]
    BY <1>2, <1>4, <1>7
  <1> HIDE DEF from, to
  <1>9. SubSeq(from, 1, Len(from)) = SubSeq(to, 1, Len(from))
    BY <1>2, <1>8
  <1> QED BY <1>2, <1>8, <1>9 DEF IsPrefix, from, to

RunRow == [phase : {"idle", "running", "settled"}, runtime : Runtimes, path : Paths,
           child : {"none", "up", "exited"}, code : {0, 1}, timer : BOOLEAN,
           forkTimer : BOOLEAN, signalled : BOOLEAN, wrote : 0..MaxChunks,
           arrived : 0..MaxChunks, result : {"none", "refused", "success", "failure"},
           output : 0..MaxChunks, settles : 0..1]

\* What holds of a run at any moment.  A promise settled while the child is up
\* was settled by an error event, and that takes a signal or fork's own timer,
\* which only its firing or the child's end clears.
RunGood(s) ==
    /\ s.arrived <= s.wrote
    /\ s.child # "none" => isPathAllowed(s.path)
    /\ s.child = "up" => s.timer \/ s.forkTimer \/ s.signalled
    /\ s.child = "up" /\ s.runtime = "node" => s.forkTimer \/ s.signalled
    /\ s.child = "up" /\ s.phase = "settled" => s.result = "failure"
    /\ s.settles = (IF s.phase = "settled" THEN 1 ELSE 0)
    /\ s.phase # "settled" => s.result = "none"
    /\ s.result = "success" => s.child = "exited" /\ s.code = 0
    /\ s.phase = "settled" => ~s.timer

SandboxIInv == sandbox \in RunRow /\ RunGood(sandbox)

LEMMA NoRunGood == NoRun \in RunRow /\ RunGood(NoRun)
  <1>1. NoRun.path \in Paths
    BY SandboxAssumption DEF NoRun, Paths
  <1>2. 0 \in 0..MaxChunks
    BY SandboxAssumption
  <1> QED BY <1>1, <1>2 DEF NoRun, RunRow, RunGood, Runtimes

LEMMA SandboxInitIInv == SandboxInit => SandboxIInv
  BY NoRunGood DEF SandboxInit, SandboxIInv

\* A run that starts or is refused: its path was asked for, and it starts only
\* when that path is allowed.
LEMMA RunBegins ==
    ASSUME NEW r \in Runtimes, NEW path \in Paths, NEW fork \in BOOLEAN, r = "node" => fork
    PROVE  /\ Refused(r, path) \in RunRow /\ RunGood(Refused(r, path))
           /\ isPathAllowed(path) =>
                 /\ [Started(r, path) EXCEPT !.forkTimer = fork] \in RunRow
                 /\ RunGood([Started(r, path) EXCEPT !.forkTimer = fork])
  <1>1. NoRun \in RunRow /\ 1 \in 0..1
    BY NoRunGood
  <1> DEFINE R == Refused(r, path)
             S == [Started(r, path) EXCEPT !.forkTimer = fork]
  <1>2. /\ R \in RunRow /\ R.phase = "settled" /\ R.child = "none" /\ R.result = "refused"
        /\ R.settles = 1 /\ R.timer = FALSE /\ R.wrote = 0 /\ R.arrived = 0
    BY <1>1 DEF Refused, RunRow, NoRun
  <1>3. /\ S \in RunRow /\ S.phase = "running" /\ S.child = "up" /\ S.result = "none"
        /\ S.settles = 0 /\ S.timer = TRUE /\ S.wrote = 0 /\ S.arrived = 0
        /\ S.path = path /\ S.runtime = r /\ S.forkTimer = fork
    BY <1>1 DEF Started, RunRow, NoRun
  <1> HIDE DEF R, S
  <1>4. RunGood(R)
    BY <1>2 DEF RunGood
  <1>5. isPathAllowed(path) => RunGood(S)
    BY <1>3 DEF RunGood
  <1> QED BY <1>2, <1>3, <1>4, <1>5 DEF R, S

\* resolveOnce settles a pending promise and leaves a settled one alone.
LEMMA ResolveOnceGood ==
    ASSUME NEW s \in RunRow, NEW result \in {"success", "failure"}, NEW output \in 0..MaxChunks,
           s.arrived <= s.wrote, s.child # "none" => isPathAllowed(s.path),
           s.child = "up" => s.timer \/ s.forkTimer \/ s.signalled,
           s.child = "up" => s.forkTimer \/ s.signalled,
           s.child = "up" => result = "failure",
           s.child = "up" /\ s.phase = "settled" => s.result = "failure",
           s.settles = (IF s.phase = "settled" THEN 1 ELSE 0),
           s.phase # "settled" => s.result = "none",
           s.result = "success" => s.child = "exited" /\ s.code = 0,
           result = "success" => s.child = "exited" /\ s.code = 0,
           s.phase = "settled" => ~s.timer
    PROVE  resolveOnce(s, result, output) \in RunRow /\ RunGood(resolveOnce(s, result, output))
  <1>1. CASE s.phase = "settled"
    BY <1>1 DEF resolveOnce, RunGood
  <1>2. CASE s.phase # "settled"
    <2> DEFINE q == [s EXCEPT !.phase = "settled", !.timer = FALSE, !.result = result,
                              !.output = output, !.settles = @ + 1]
    <2>1. s.settles + 1 = 1 /\ 1 \in 0..1
      BY <1>2
    <2>q. q = [s EXCEPT !.phase = "settled", !.timer = FALSE, !.result = result,
                        !.output = output, !.settles = 1]
      BY <2>1
    <2> HIDE DEF q
    <2>2. /\ q \in RunRow /\ q.phase = "settled" /\ q.timer = FALSE /\ q.result = result
          /\ q.settles = 1 /\ q.child = s.child /\ q.path = s.path /\ q.code = s.code
          /\ q.forkTimer = s.forkTimer /\ q.signalled = s.signalled /\ q.wrote = s.wrote
          /\ q.arrived = s.arrived /\ q.runtime = s.runtime
      BY <2>1, <2>q DEF RunRow
    <2>3. RunGood(q)
      BY <2>2 DEF RunGood
    <2> QED BY <1>2, <2>2, <2>3 DEF resolveOnce, q
  <1> QED BY <1>1, <1>2

LEMMA SandboxStep == SandboxIInv /\ [SandboxNext]_sandbox => SandboxIInv'
  <1> SUFFICES ASSUME SandboxIInv, [SandboxNext]_sandbox PROVE SandboxIInv'
    OBVIOUS
  <1> DEFINE s == sandbox
             t == sandbox'
  <1>0. s \in RunRow /\ RunGood(s)
    BY DEF SandboxIInv
  <1> SUFFICES t \in RunRow /\ RunGood(t)
    BY DEF SandboxIInv
  <1>r. /\ s.wrote \in 0..MaxChunks /\ s.arrived \in 0..MaxChunks /\ MaxChunks \in Nat
        /\ s.timer \in BOOLEAN /\ s.forkTimer \in BOOLEAN /\ s.signalled \in BOOLEAN
    BY <1>0, SandboxAssumption DEF RunRow
  <1>n. ASSUME NEW r \in Runtimes, NEW path \in Paths PROVE
          [Started(r, path) EXCEPT !.forkTimer = FALSE] = Started(r, path)
    <2>1. Started(r, path).forkTimer = FALSE
      BY DEF Started, NoRun
    <2>2. Started(r, path) \in RunRow
      BY NoRunGood DEF Started, RunRow
    <2> HIDE DEF s
    <2> QED BY <2>1, <2>2 DEF RunRow
  <1>1. ASSUME NEW path \in Paths, NEW exists \in BOOLEAN,
               ExecuteWasm(path, exists) \/ ExecuteDeno(path, exists)
                 \/ \E known \in BOOLEAN : ExecuteDocker(path, exists, known)
        PROVE  t \in RunRow /\ RunGood(t)
    <2>1. PICK r \in {"wasm", "deno", "docker"} :
              t = Refused(r, path) \/ (isPathAllowed(path) /\ t = Started(r, path))
      BY <1>1 DEF ExecuteWasm, ExecuteDeno, ExecuteDocker, Runnable
    <2>2. r \in Runtimes /\ r # "node"
      BY <2>1 DEF Runtimes
    <2> QED BY <1>n, <2>1, <2>2, RunBegins
  <1>2. ASSUME NEW path \in Paths, NEW exists \in BOOLEAN, ExecuteNode(path, exists)
        PROVE  t \in RunRow /\ RunGood(t)
    <2>1. \/ t = Refused("node", path)
          \/ isPathAllowed(path) /\ t = [Started("node", path) EXCEPT !.forkTimer = TRUE]
      BY <1>2 DEF ExecuteNode, Runnable
    <2>2. "node" \in Runtimes
      BY DEF Runtimes
    <2> QED BY <2>1, <2>2, RunBegins
  <1>3. CASE ChildWrites
    <2>1. PICK n \in 0..MaxChunks : n = s.wrote + 1
      BY <1>r, <1>3 DEF ChildWrites
    <2>2. t = [s EXCEPT !.wrote = n]
      BY <1>3, <2>1 DEF ChildWrites
    <2> HIDE DEF s, t
    <2>3. /\ t \in RunRow /\ t.wrote = n /\ t.phase = s.phase /\ t.timer = s.timer
          /\ t.result = s.result /\ t.settles = s.settles /\ t.child = s.child
          /\ t.path = s.path /\ t.code = s.code /\ t.forkTimer = s.forkTimer
          /\ t.signalled = s.signalled /\ t.arrived = s.arrived /\ t.runtime = s.runtime
      BY <1>0, <2>2 DEF RunRow
    <2>4. t.arrived <= t.wrote
      BY <1>0, <1>r, <2>1, <2>3 DEF RunGood
    <2> QED BY <1>0, <2>3, <2>4 DEF RunGood
  <1>4. CASE OutputArrives
    <2>1. PICK n \in 0..MaxChunks : n = s.arrived + 1 /\ n <= s.wrote
      BY <1>r, <1>4 DEF OutputArrives
    <2>2. t = [s EXCEPT !.arrived = n]
      BY <1>4, <2>1 DEF OutputArrives
    <2> HIDE DEF s, t
    <2>3. /\ t \in RunRow /\ t.arrived = n /\ t.phase = s.phase /\ t.timer = s.timer
          /\ t.result = s.result /\ t.settles = s.settles /\ t.child = s.child
          /\ t.path = s.path /\ t.code = s.code /\ t.forkTimer = s.forkTimer
          /\ t.signalled = s.signalled /\ t.wrote = s.wrote /\ t.runtime = s.runtime
      BY <1>0, <2>2 DEF RunRow
    <2> QED BY <1>0, <2>1, <2>3 DEF RunGood
  <1>5. CASE TimeoutFires \/ ForkTimeoutFires
    <2>1. \/ t = [s EXCEPT !.timer = FALSE, !.signalled = TRUE]
          \/ t = [s EXCEPT !.forkTimer = FALSE, !.signalled = TRUE]
      BY <1>5 DEF TimeoutFires, ForkTimeoutFires
    <2> HIDE DEF s, t
    <2>2. /\ t \in RunRow /\ t.signalled = TRUE /\ t.phase = s.phase /\ t.timer \in {s.timer, FALSE}
          /\ t.result = s.result /\ t.settles = s.settles /\ t.child = s.child
          /\ t.path = s.path /\ t.code = s.code /\ t.arrived = s.arrived /\ t.wrote = s.wrote
      BY <1>0, <2>1 DEF RunRow
    <2> QED BY <1>0, <1>r, <2>2 DEF RunGood
  <1>6. ASSUME NEW code \in {0, 1}, ChildExits(code) PROVE t \in RunRow /\ RunGood(t)
    <2> DEFINE q == [s EXCEPT !.child = "exited", !.code = code, !.forkTimer = FALSE]
               result == IF code = 0 THEN "success" ELSE "failure"
               output == IF code = 0 THEN s.arrived ELSE 0
    <2>1. t = resolveOnce(q, result, output) /\ s.child = "up"
      BY <1>6 DEF ChildExits
    <2>2. /\ result \in {"success", "failure"} /\ output \in 0..MaxChunks
          /\ result = "success" => code = 0
      BY <1>r
    <2> HIDE DEF s, t, result, output
    <2>3. /\ q \in RunRow /\ q.child = "exited" /\ q.code = code /\ q.phase = s.phase
          /\ q.timer = s.timer /\ q.result = s.result /\ q.settles = s.settles
          /\ q.path = s.path /\ q.arrived = s.arrived /\ q.wrote = s.wrote
      BY <1>0 DEF RunRow
    <2> HIDE DEF q
    <2>4. s.result # "success"
      BY <1>0, <2>1 DEF RunGood
    <2>5. /\ q.arrived <= q.wrote /\ isPathAllowed(q.path)
          /\ q.settles = (IF q.phase = "settled" THEN 1 ELSE 0)
          /\ q.phase # "settled" => q.result = "none"
          /\ q.phase = "settled" => ~q.timer
      BY <1>0, <2>1, <2>3 DEF RunGood
    <2> QED BY <2>1, <2>2, <2>3, <2>4, <2>5, ResolveOnceGood
  <1>7. CASE SpawnFails
    <2> DEFINE q == [s EXCEPT !.child = "none", !.forkTimer = FALSE]
    <2>1. t = resolveOnce(q, "failure", 0) /\ s.child = "up"
      BY <1>7 DEF SpawnFails
    <2>2. 0 \in 0..MaxChunks
      BY <1>r
    <2> HIDE DEF s, t
    <2>3. /\ q \in RunRow /\ q.child = "none" /\ q.phase = s.phase
          /\ q.timer = s.timer /\ q.result = s.result /\ q.settles = s.settles
          /\ q.path = s.path /\ q.arrived = s.arrived /\ q.wrote = s.wrote
      BY <1>0 DEF RunRow
    <2> HIDE DEF q
    <2>4. /\ q.arrived <= q.wrote /\ q.result # "success"
          /\ q.settles = (IF q.phase = "settled" THEN 1 ELSE 0)
          /\ q.phase # "settled" => q.result = "none"
          /\ q.phase = "settled" => ~q.timer
      BY <1>0, <2>1, <2>3 DEF RunGood
    <2> QED BY <2>1, <2>2, <2>3, <2>4, ResolveOnceGood
  <1>8. CASE ErrorWhileUp
    <2>1. t = resolveOnce(s, "failure", 0) /\ s.child = "up" /\ (s.signalled \/ s.runtime = "node")
      BY <1>8 DEF ErrorWhileUp
    <2>2. 0 \in 0..MaxChunks
      BY <1>r
    <2> HIDE DEF s, t
    <2>3. s.forkTimer \/ s.signalled
      BY <1>0, <2>1 DEF RunGood
    <2>4. /\ s.arrived <= s.wrote /\ isPathAllowed(s.path) /\ s.result # "success"
          /\ s.settles = (IF s.phase = "settled" THEN 1 ELSE 0)
          /\ s.phase # "settled" => s.result = "none"
          /\ s.phase = "settled" => ~s.timer
          /\ s.phase = "settled" => s.result = "failure"
      BY <1>0, <2>1 DEF RunGood
    <2> QED BY <1>0, <2>1, <2>2, <2>3, <2>4, ResolveOnceGood
  <1>9. CASE UNCHANGED sandbox
    BY <1>0, <1>9
  <1> QED BY <1>1, <1>2, <1>3, <1>4, <1>5, <1>6, <1>7, <1>8, <1>9 DEF SandboxNext

LEMMA SandboxGuarantees ==
    SandboxIInv => /\ SandboxTypeOK /\ RunsInsideSkills /\ ChildIsWatched /\ SettledByItsChild
  <1> SUFFICES ASSUME SandboxIInv
               PROVE  /\ SandboxTypeOK /\ RunsInsideSkills /\ ChildIsWatched /\ SettledByItsChild
    OBVIOUS
  <1>1. SandboxTypeOK
    BY DEF SandboxIInv, SandboxTypeOK, RunRow
  <1>2. sandbox.path \in Paths /\ RunGood(sandbox)
    BY DEF SandboxIInv, RunRow
  <1>3. RunsInsideSkills
    BY <1>2, AllowedIsInside DEF RunsInsideSkills, RunGood
  <1>4. ChildIsWatched /\ SettledByItsChild
    BY <1>2 DEF ChildIsWatched, SettledByItsChild, RunGood
  <1> QED BY <1>1, <1>3, <1>4

\* However its path is written, a skill that runs lies inside the skills
\* directory; a child that still runs has a timer or a signal left to stop it;
\* and the promise settles once, with success only for a child that ended with
\* 0, for paths and outputs of any length (sandbox.ts).
THEOREM SkillRunsContained ==
    SandboxInit /\ [][SandboxNext]_sandbox
      => [](SandboxTypeOK /\ RunsInsideSkills /\ ChildIsWatched /\ SettledByItsChild)
  BY SandboxInitIInv, SandboxStep, SandboxGuarantees, PTL

-----------------------------------------------------------------------------
(* Skills: their availability, their health and their directory. *)

\* The messages of the registry: what a node exports, and an announcement.
SyncMsg == [kind : {"sync"}, from : CapNodes, to : CapNodes,
            caps : [CapOwners -> Entry], avail : [CapOwners -> Availability]]
AnnounceMsg == [kind : {"announce"}, from : CapOwners, to : CapNodes]

CapIInv ==
    /\ doc \in [CapNodes -> [CapOwners -> Entry]]
    /\ avail \in [CapNodes -> [CapOwners -> Availability]]
    /\ localSkills \in [CapNodes -> BOOLEAN] /\ installed \in [CapNodes -> BOOLEAN]
    /\ wire \subseteq SyncMsg \cup AnnounceMsg
    /\ stamp \in 1..MaxStamp
    /\ heard \in [CapNodes -> SUBSET CapOwners]
    /\ AvailabilityIsDirect

LEMMA CapInitIInv == CapInit => CapIInv
  <1> SUFFICES ASSUME CapInit PROVE CapIInv
    OBVIOUS
  <1> USE CapAssumption DEF CapInit
  <1>1. doc \in [CapNodes -> [CapOwners -> Entry]]
    BY DEF loadGenesisDoc, Entry
  <1>2. avail \in [CapNodes -> [CapOwners -> Availability]]
    BY DEF Availability
  <1>3. AvailabilityIsDirect
    BY DEF AvailabilityIsDirect
  <1> QED BY <1>1, <1>2, <1>3 DEF CapIInv

\* An owner writes only the record of its own skill.
LEMMA OwnRecord ==
    ASSUME CapIInv, NEW n \in CapNodes, NEW o \in CapOwners, NEW a \in Availability,
           avail' = [avail EXCEPT ![n][o] = a],
           a = "none" \/ n = o,
           heard' = heard \/ (a = "none" /\ heard' = [heard EXCEPT ![n] = heard[n] \ {o}])
    PROVE  /\ avail' \in [CapNodes -> [CapOwners -> Availability]]
           /\ heard' \in [CapNodes -> SUBSET CapOwners]
           /\ AvailabilityIsDirect'
  <1>1. /\ avail' \in [CapNodes -> [CapOwners -> Availability]]
        /\ \A m \in CapNodes, p \in CapOwners : avail'[m][p] = IF m = n /\ p = o THEN a ELSE avail[m][p]
    BY DEF CapIInv
  <1>2. /\ heard' \in [CapNodes -> SUBSET CapOwners]
        /\ \A m \in CapNodes, p \in CapOwners :
               p \in heard[m] => p \in heard'[m] \/ (m = n /\ p = o /\ a = "none")
    BY DEF CapIInv
  <1>3. ASSUME NEW m \in CapNodes, NEW p \in CapOwners, m # p, avail'[m][p] # "none"
        PROVE  p \in heard'[m]
    <2>1. CASE m = n /\ p = o
      BY <1>1, <1>3, <2>1
    <2>2. CASE ~(m = n /\ p = o)
      <3>1. avail[m][p] # "none"
        BY <1>1, <1>3, <2>2
      <3>2. p \in heard[m]
        BY <1>3, <3>1 DEF CapIInv, AvailabilityIsDirect
      <3> QED BY <1>2, <2>2, <3>2
    <2> QED BY <2>1, <2>2
  <1> QED BY <1>1, <1>2, <1>3 DEF AvailabilityIsDirect

\* A node takes an owner's availability from that owner only.
LEMMA ReceiveSyncKeeps ==
    ASSUME CapIInv, NEW m \in wire, ReceiveSync(m)
    PROVE  CapIInv'
  <1>1. m \in SyncMsg
    BY DEF CapIInv, ReceiveSync, AnnounceMsg
  <1>2. /\ m.to \in CapNodes /\ m.caps \in [CapOwners -> Entry]
        /\ m.avail \in [CapOwners -> Availability]
    BY <1>1 DEF SyncMsg
  <1> DEFINE d == [o \in CapOwners |->
                     IF o \in accepted(m) /\ (doc[m.to][o] = NoEntry \/ m.caps[o].at > doc[m.to][o].at)
                     THEN m.caps[o] ELSE doc[m.to][o]]
             a == [o \in CapOwners |-> IF o \in accepted(m) /\ m.avail[o] # "none"
                                       THEN m.avail[o] ELSE avail[m.to][o]]
             h == heard[m.to] \cup ({m.from} \cap CapOwners)
  <1>3. /\ doc' = [doc EXCEPT ![m.to] = d] /\ avail' = [avail EXCEPT ![m.to] = a]
        /\ heard' = [heard EXCEPT ![m.to] = h]
        /\ wire' = wire \ {m} /\ UNCHANGED <<localSkills, installed, stamp>>
    BY DEF ReceiveSync
  <1>4. d \in [CapOwners -> Entry]
    BY <1>2 DEF CapIInv
  <1>5. a \in [CapOwners -> Availability]
    BY <1>2 DEF CapIInv
  <1>6. h \in SUBSET CapOwners
    BY <1>2 DEF CapIInv
  <1>7. ASSUME NEW o \in CapOwners, m.to # o, a[o] # "none" PROVE o \in h
    <2>1. CASE o \in accepted(m)
      BY <2>1 DEF accepted
    <2>2. CASE o \notin accepted(m)
      <3>1. avail[m.to][o] # "none"
        BY <1>7, <2>2
      <3> QED BY <1>2, <1>7, <3>1 DEF CapIInv, AvailabilityIsDirect
    <2> QED BY <2>1, <2>2
  <1> HIDE DEF d, a, h
  <1>8. /\ doc' \in [CapNodes -> [CapOwners -> Entry]]
        /\ avail' \in [CapNodes -> [CapOwners -> Availability]]
        /\ heard' \in [CapNodes -> SUBSET CapOwners]
        /\ avail'[m.to] = a /\ heard'[m.to] = h
        /\ \A n \in CapNodes \ {m.to} : avail'[n] = avail[n] /\ heard'[n] = heard[n]
    BY <1>2, <1>3, <1>4, <1>5, <1>6 DEF CapIInv
  <1>9. AvailabilityIsDirect'
    BY <1>7, <1>8 DEF CapIInv, AvailabilityIsDirect
  <1> QED BY <1>3, <1>8, <1>9 DEF CapIInv

\* What a node sends is what it has.
LEMMA SyncMessage ==
    ASSUME CapIInv, NEW n \in CapNodes, NEW peer \in CapNodes, SyncWithPeer(n, peer)
    PROVE  wire' \subseteq SyncMsg \cup AnnounceMsg
  <1> DEFINE av == [o \in CapOwners |-> IF exported(n)[o] = NoEntry THEN "none" ELSE avail[n][o]]
             m == [kind |-> "sync", from |-> n, to |-> peer, caps |-> exported(n), avail |-> av]
  <1>1. wire' = wire \cup {m}
    BY DEF SyncWithPeer
  <1>2. exported(n) \in [CapOwners -> Entry]
    BY DEF exported, CapIInv, Entry
  <1>3. av \in [CapOwners -> Availability]
    BY DEF CapIInv, Availability
  <1> HIDE DEF av
  <1>4. m \in SyncMsg
    BY <1>2, <1>3 DEF SyncMsg
  <1> QED BY <1>1, <1>4 DEF CapIInv

LEMMA CapStep == CapIInv /\ [CapNext]_capVars => CapIInv'
  <1> SUFFICES ASSUME CapIInv, [CapNext]_capVars PROVE CapIInv'
    OBVIOUS
  <1>0. /\ CapOwners \subseteq CapNodes /\ MaxStamp \in Nat \ {0} /\ Reports \subseteq Availability
        /\ NoEntry \in Entry /\ "none" \in Availability
        /\ [health |-> "healthy", at |-> stamp] \in Entry
    BY CapAssumption DEF Availability, Entry, CapIInv
  <1>1. CASE Time
    BY <1>0, <1>1 DEF Time, CapIInv, AvailabilityIsDirect
  <1>2. ASSUME NEW o \in CapOwners, RegisterLocal(o) PROVE CapIInv'
    <2>1. PICK a \in Reports : avail' = [avail EXCEPT ![o][o] = a]
      BY <1>2 DEF RegisterLocal
    <2>2. doc' \in [CapNodes -> [CapOwners -> Entry]]
      BY <1>0, <1>2 DEF RegisterLocal, register, CapIInv
    <2>3. /\ avail' \in [CapNodes -> [CapOwners -> Availability]]
          /\ heard' \in [CapNodes -> SUBSET CapOwners] /\ AvailabilityIsDirect'
      <3>1. o \in CapNodes /\ a \in Availability /\ heard' = heard
        BY <1>0, <1>2 DEF RegisterLocal
      <3> QED BY <2>1, <3>1, OwnRecord, Zenon
    <2> QED BY <1>0, <1>2, <2>2, <2>3 DEF RegisterLocal, CapIInv
  <1>3. ASSUME NEW o \in CapOwners, UnregisterLocal(o) PROVE CapIInv'
    <2>2. doc' \in [CapNodes -> [CapOwners -> Entry]]
      BY <1>0, <1>3 DEF UnregisterLocal, CapIInv
    <2>3. /\ avail' \in [CapNodes -> [CapOwners -> Availability]]
          /\ heard' \in [CapNodes -> SUBSET CapOwners] /\ AvailabilityIsDirect'
      <3>1. /\ o \in CapNodes /\ "none" \in Availability /\ heard' = heard
            /\ avail' = [avail EXCEPT ![o][o] = "none"]
        BY <1>0, <1>3 DEF UnregisterLocal
      <3> QED BY <3>1, OwnRecord, Zenon
    <2> QED BY <1>0, <1>3, <2>2, <2>3 DEF UnregisterLocal, CapIInv
  <1>4. ASSUME NEW o \in CapOwners, SetAvailability(o) PROVE CapIInv'
    <2>1. PICK a \in Reports : avail' = [avail EXCEPT ![o][o] = a]
      BY <1>4 DEF SetAvailability
    <2>2. /\ avail' \in [CapNodes -> [CapOwners -> Availability]]
          /\ heard' \in [CapNodes -> SUBSET CapOwners] /\ AvailabilityIsDirect'
      <3>1. o \in CapNodes /\ a \in Availability /\ heard' = heard
        BY <1>0, <1>4 DEF SetAvailability
      <3> QED BY <2>1, <3>1, OwnRecord, Zenon
    <2> QED BY <1>4, <2>2 DEF SetAvailability, CapIInv
  <1>5. ASSUME NEW n \in CapNodes, RestartRegistry(n) PROVE CapIInv'
    <2>1. doc' \in [CapNodes -> [CapOwners -> Entry]]
      BY <1>0, <1>5 DEF RestartRegistry, loadGenesisDoc, CapIInv
    <2>2. /\ avail' \in [CapNodes -> [CapOwners -> Availability]]
          /\ heard' \in [CapNodes -> SUBSET CapOwners]
          /\ \A o \in CapOwners : avail'[n][o] = "none"
          /\ \A m \in CapNodes \ {n} : avail'[m] = avail[m] /\ heard'[m] = heard[m]
      BY <1>0, <1>5 DEF RestartRegistry, CapIInv
    <2>3. AvailabilityIsDirect'
      BY <2>2 DEF CapIInv, AvailabilityIsDirect
    <2> QED BY <1>5, <2>1, <2>2, <2>3 DEF RestartRegistry, CapIInv
  <1>6. ASSUME NEW n \in CapNodes, markStaleCapabilities(n) PROVE CapIInv'
    <2> DEFINE d == [o \in CapOwners |->
                       IF doc[n][o].health = "healthy" /\ stamp - doc[n][o].at > StaleAfter
                       THEN [doc[n][o] EXCEPT !.health = "degraded"] ELSE doc[n][o]]
    <2>1. doc' = [doc EXCEPT ![n] = d] /\ UNCHANGED <<avail, localSkills, installed, wire, stamp, heard>>
      BY <1>6 DEF markStaleCapabilities
    <2>2. ASSUME NEW e \in Entry, e.health = "healthy" PROVE [e EXCEPT !.health = "degraded"] \in Entry
      <3>1. e \in [health : {"healthy", "degraded", "offline"}, at : 1..MaxStamp]
        BY <2>2 DEF Entry, NoEntry
      <3> QED BY <3>1 DEF Entry
    <2>3. d \in [CapOwners -> Entry]
      BY <2>2 DEF CapIInv
    <2> HIDE DEF d
    <2> QED BY <2>1, <2>3 DEF CapIInv, AvailabilityIsDirect
  <1>7. ASSUME NEW n \in CapNodes, NEW peer \in CapNodes, SyncWithPeer(n, peer) PROVE CapIInv'
    BY <1>7, SyncMessage DEF SyncWithPeer, CapIInv, AvailabilityIsDirect
  <1>8. ASSUME NEW n \in CapNodes, NEW peer \in CapNodes, AnnounceSkills(n, peer) PROVE CapIInv'
    <2>1. [kind |-> "announce", from |-> n, to |-> peer] \in AnnounceMsg
      BY <1>8 DEF AnnounceSkills, AnnounceMsg
    <2> QED BY <1>8, <2>1 DEF AnnounceSkills, CapIInv, AvailabilityIsDirect
  <1>9. ASSUME NEW n \in CapNodes, NEW peer \in CapNodes, MergeDoc(n, peer) PROVE CapIInv'
    <2>1. PICK S \in SUBSET CapOwners :
             doc' = [doc EXCEPT ![n] = [o \in CapOwners |-> IF o \in S THEN doc[peer][o] ELSE doc[n][o]]]
      BY <1>9 DEF MergeDoc
    <2>2. doc' \in [CapNodes -> [CapOwners -> Entry]]
      BY <2>1 DEF CapIInv
    <2> QED BY <1>9, <2>2 DEF MergeDoc, CapIInv, AvailabilityIsDirect
  <1>10. ASSUME NEW m \in wire, ReceiveAnnounce(m) PROVE CapIInv'
    <2>1. m.from \in CapOwners /\ m.to \in CapNodes
      BY <1>10 DEF ReceiveAnnounce, CapIInv, SyncMsg, AnnounceMsg
    <2>2. doc' \in [CapNodes -> [CapOwners -> Entry]]
      BY <1>0, <1>10, <2>1 DEF ReceiveAnnounce, register, CapIInv
    <2>3. /\ heard' \in [CapNodes -> SUBSET CapOwners]
          /\ \A n \in CapNodes : heard[n] \subseteq heard'[n]
      BY <1>10, <2>1 DEF ReceiveAnnounce, CapIInv
    <2> QED BY <1>10, <2>2, <2>3 DEF ReceiveAnnounce, CapIInv, AvailabilityIsDirect
  <1>11. ASSUME NEW m \in wire, LoseMessage(m) PROVE CapIInv'
    BY <1>11 DEF LoseMessage, CapIInv, AvailabilityIsDirect
  <1>12. ASSUME NEW n \in CapNodes, NEW o \in CapOwners, PeerOffline(n, o) PROVE CapIInv'
    <2>2. doc' \in [CapNodes -> [CapOwners -> Entry]]
      BY <1>0, <1>12 DEF PeerOffline, CapIInv
    <2>3. /\ avail' \in [CapNodes -> [CapOwners -> Availability]]
          /\ heard' \in [CapNodes -> SUBSET CapOwners] /\ AvailabilityIsDirect'
      BY <1>0, <1>12, OwnRecord DEF PeerOffline
    <2> QED BY <1>0, <1>12, <2>2, <2>3 DEF PeerOffline, CapIInv
  <1>13. CASE UNCHANGED capVars
    BY <1>13 DEF capVars, CapIInv, AvailabilityIsDirect
  <1> QED BY <1>1, <1>2, <1>3, <1>4, <1>5, <1>6, <1>7, <1>8, <1>9, <1>10, <1>11, <1>12, <1>13,
             ReceiveSyncKeeps DEF CapNext

\* The positions at which a run of d results equal to ok ends, the last of them,
\* and the length of the run the results end with.
Ends(s, ok, d) == {i \in d..Len(s) : \A j \in (i - d + 1)..i : s[j] = ok}
LastEnd(s, ok, d) ==
    IF Ends(s, ok, d) = {} THEN 0
    ELSE CHOOSE i \in Ends(s, ok, d) : \A k \in Ends(s, ok, d) : k <= i
Trailing(s, ok, r) ==
    /\ r \in 0..Len(s)
    /\ \A j \in (Len(s) - r + 1)..Len(s) : s[j] = ok
    /\ r < Len(s) => s[Len(s) - r] # ok

LEMMA LastEndIs ==
    ASSUME NEW s \in Seq(BOOLEAN), NEW ok \in BOOLEAN, NEW d \in Nat \ {0},
           NEW v \in Ends(s, ok, d), \A k \in Ends(s, ok, d) : k <= v
    PROVE  LastEnd(s, ok, d) = v
  <1> DEFINE E == Ends(s, ok, d)
             c == CHOOSE i \in E : \A k \in E : k <= i
  <1>1. E \subseteq Int
    BY DEF Ends
  <1>2. LastEnd(s, ok, d) = c
    BY DEF LastEnd
  <1> HIDE DEF E
  <1>3. c \in E /\ \A k \in E : k <= c
    BY DEF E
  <1>4. c <= v /\ v <= c /\ c \in Int /\ v \in Int
    BY <1>1, <1>3 DEF E
  <1> HIDE DEF c
  <1> QED BY <1>2, <1>4

\* One more result: a run ends there if the results end with a run of d.
LEMMA EndsGrow ==
    ASSUME NEW s \in Seq(BOOLEAN), NEW ok \in BOOLEAN, NEW b \in BOOLEAN, NEW d \in Nat \ {0}, NEW r,
           Trailing(s, ok, r)
    PROVE  LET q == IF b = ok THEN r + 1 ELSE 0
           IN  /\ Trailing(Append(s, b), ok, q)
               /\ Ends(Append(s, b), ok, d) = Ends(s, ok, d) \cup (IF q >= d THEN {Len(s) + 1} ELSE {})
  <1> DEFINE t == Append(s, b)
             q == IF b = ok THEN r + 1 ELSE 0
  <1>1. PICK n \in Nat : n = Len(s)
    OBVIOUS
  <1>2. Len(t) = n + 1 /\ t[n + 1] = b /\ \A j \in 1..n : t[j] = s[j]
    BY <1>1
  <1>3. /\ r \in 0..n /\ (\A j \in (n - r + 1)..n : s[j] = ok) /\ (r < n => s[n - r] # ok)
    BY <1>1 DEF Trailing
  <1>4. q \in 0..(n + 1)
    BY <1>3
  <1> HIDE DEF t
  <1>5. Trailing(t, ok, q)
    <2>1. CASE b = ok
      <3>1. q = r + 1
        BY <2>1
      <3>2. ASSUME NEW j \in (n + 1 - q + 1)..(n + 1) PROVE t[j] = ok
        <4>1. j = n + 1 \/ j \in (n - r + 1)..n
          BY <1>3, <3>1
        <4>2. (n - r + 1)..n \subseteq 1..n
          BY <1>3
        <4> QED BY <1>2, <1>3, <2>1, <4>1, <4>2
      <3>3. q < n + 1 => t[n + 1 - q] # ok
        <4> SUFFICES ASSUME q < n + 1 PROVE t[n + 1 - q] # ok
          OBVIOUS
        <4>1. n + 1 - q = n - r /\ n - r \in 1..n /\ r < n
          BY <1>3, <3>1
        <4> QED BY <1>2, <1>3, <4>1
      <3> HIDE DEF q
      <3> QED BY <1>2, <1>4, <3>2, <3>3 DEF Trailing
    <2>2. CASE b # ok
      <3>1. q = 0
        BY <2>2
      <3> QED BY <1>2, <2>2, <3>1 DEF Trailing
    <2> QED BY <2>1, <2>2
  <1>6. ASSUME NEW i \in d..n
        PROVE  (\A j \in (i - d + 1)..i : t[j] = ok) <=> (\A j \in (i - d + 1)..i : s[j] = ok)
    <2>1. (i - d + 1)..i \subseteq 1..n
      OBVIOUS
    <2> QED BY <1>2, <2>1
  <1>7. d <= n + 1 /\ (\A j \in (n + 1 - d + 1)..(n + 1) : t[j] = ok) <=> q >= d
    <2>1. ASSUME q >= d PROVE d <= n + 1 /\ \A j \in (n + 1 - d + 1)..(n + 1) : t[j] = ok
      <3>1. (n + 1 - d + 1)..(n + 1) \subseteq (n + 1 - q + 1)..(n + 1)
        BY <1>4, <2>1
      <3> HIDE DEF q
      <3> QED BY <1>2, <1>4, <1>5, <2>1, <3>1 DEF Trailing
    <2>2. ASSUME d <= n + 1, q < d, \A j \in (n + 1 - d + 1)..(n + 1) : t[j] = ok PROVE FALSE
      <3>1. q < n + 1 /\ n + 1 - q \in (n + 1 - d + 1)..(n + 1)
        BY <1>4, <2>2
      <3> HIDE DEF q
      <3> QED BY <1>2, <1>5, <2>2, <3>1 DEF Trailing
    <2> QED BY <1>4, <2>1, <2>2
  <1> HIDE DEF q
  <1>8. ASSUME NEW i PROVE i \in Ends(t, ok, d) <=> i \in Ends(s, ok, d) \/ (q >= d /\ i = n + 1)
    <2>1. i \in Ends(t, ok, d) <=> i \in d..(n + 1) /\ \A j \in (i - d + 1)..i : t[j] = ok
      BY <1>2 DEF Ends
    <2>2. i \in Ends(s, ok, d) <=> i \in d..n /\ \A j \in (i - d + 1)..i : s[j] = ok
      BY <1>1 DEF Ends
    <2>3. CASE i \in d..n
      <3>1. i \in d..(n + 1) /\ i # n + 1
        BY <2>3
      <3> QED BY <1>6, <2>1, <2>2, <2>3, <3>1
    <2>4. CASE i = n + 1
      <3>1. i \notin d..n /\ (i \in d..(n + 1) <=> d <= n + 1)
        BY <2>4
      <3> QED BY <1>7, <2>1, <2>2, <2>4, <3>1
    <2>5. CASE i \notin d..n /\ i # n + 1
      <3>1. i \notin d..(n + 1)
        BY <2>5
      <3> QED BY <2>1, <2>2, <2>5, <3>1
    <2> QED BY <2>3, <2>4, <2>5
  <1>9. Ends(t, ok, d) = Ends(s, ok, d) \cup (IF q >= d THEN {Len(s) + 1} ELSE {})
    BY <1>1, <1>8
  <1> QED BY <1>5, <1>9 DEF q, t

\* The last run is the older one, or ends just now.
LEMMA LastEndGrows ==
    ASSUME NEW s \in Seq(BOOLEAN), NEW ok \in BOOLEAN, NEW b \in BOOLEAN, NEW d \in Nat \ {0}, NEW r,
           Trailing(s, ok, r)
    PROVE  LET q == IF b = ok THEN r + 1 ELSE 0
           IN  LastEnd(Append(s, b), ok, d) = IF q >= d THEN Len(s) + 1 ELSE LastEnd(s, ok, d)
  <1> DEFINE q == IF b = ok THEN r + 1 ELSE 0
             t == Append(s, b)
  <1>1. Ends(t, ok, d) = Ends(s, ok, d) \cup (IF q >= d THEN {Len(s) + 1} ELSE {})
    BY EndsGrow
  <1>2. t \in Seq(BOOLEAN) /\ Len(s) \in Nat
    OBVIOUS
  <1> HIDE DEF t, q
  <1>3. CASE q >= d
    <2>1. Len(s) + 1 \in Ends(t, ok, d)
      BY <1>1, <1>3
    <2>2. ASSUME NEW k \in Ends(t, ok, d) PROVE k <= Len(s) + 1
      <3>1. k = Len(s) + 1 \/ k \in Ends(s, ok, d)
        BY <1>1, <1>3
      <3>2. Ends(s, ok, d) \subseteq d..Len(s)
        BY DEF Ends
      <3> QED BY <1>2, <3>1, <3>2
    <2>3. LastEnd(t, ok, d) = Len(s) + 1
      BY <1>2, <2>1, <2>2, LastEndIs
    <2> QED BY <1>3, <2>3 DEF q, t
  <1>4. CASE ~(q >= d)
    <2>1. Ends(t, ok, d) = Ends(s, ok, d)
      BY <1>1, <1>4
    <2>2. LastEnd(t, ok, d) = LastEnd(s, ok, d)
      BY <2>1 DEF LastEnd
    <2> QED BY <1>4, <2>2 DEF q, t
  <1> QED BY <1>3, <1>4

\* The counters of the entry are the length of the run its results end with, and
\* a monitor that runs has not been stopped.
MonitorIInv ==
    /\ monitor \in [started : BOOLEAN, stopped : BOOLEAN] /\ ~(monitor.started /\ monitor.stopped)
    /\ entry \in [gen : Nat, state : {"unknown", "healthy", "unhealthy"}, fails : Nat, oks : Nat,
                  timer : BOOLEAN]
    /\ results \in Seq(BOOLEAN)
    /\ Trailing(results, TRUE, entry.oks) /\ Trailing(results, FALSE, entry.fails)
    /\ LastEnd(results, TRUE, DebounceUp) \in 0..Len(results)
    /\ LastEnd(results, FALSE, DebounceDown) \in 0..Len(results)
    /\ HealthIsDebounced /\ MonitorAlive

\* The state the last runs call for.
Debounced(up, down) == CASE up > down -> "healthy" [] down > up -> "unhealthy" [] OTHER -> "unknown"

LEMMA HealthReads ==
    /\ HealthIsDebounced <=>
         entry.state = Debounced(LastEnd(results, TRUE, DebounceUp), LastEnd(results, FALSE, DebounceDown))
    /\ HealthIsDebounced' <=>
         entry'.state = Debounced(LastEnd(results', TRUE, DebounceUp), LastEnd(results', FALSE, DebounceDown))
  BY DEF HealthIsDebounced, lastRun, Debounced, LastEnd, Ends

\* A registration starts a history of its own.
LEMMA NoResults ==
    /\ <<>> \in Seq(BOOLEAN)
    /\ \A ok \in BOOLEAN : Trailing(<<>>, ok, 0)
    /\ \A ok \in BOOLEAN, d \in Nat \ {0} : LastEnd(<<>>, ok, d) = 0
    /\ Debounced(0, 0) = "unknown"
  <1>1. \A ok \in BOOLEAN, d \in Nat \ {0} : Ends(<<>>, ok, d) = {}
    BY DEF Ends
  <1>2. \A ok \in BOOLEAN, d \in Nat \ {0} : LastEnd(<<>>, ok, d) = 0
    BY <1>1 DEF LastEnd
  <1> QED BY <1>2 DEF Trailing, Debounced

LEMMA MonitorInitIInv == MonitorInit => MonitorIInv
  <1> SUFFICES ASSUME MonitorInit PROVE MonitorIInv
    OBVIOUS
  <1>1. /\ monitor = [started |-> FALSE, stopped |-> FALSE] /\ results = <<>> /\ Len(results) = 0
        /\ entry = [gen |-> 0, state |-> "unknown", fails |-> 0, oks |-> 0, timer |-> FALSE]
    BY DEF MonitorInit, FreshEntry
  <1>2. DebounceUp \in Nat \ {0} /\ DebounceDown \in Nat \ {0}
    BY SkillsAssumption
  <1>3. LastEnd(results, TRUE, DebounceUp) = 0 /\ LastEnd(results, FALSE, DebounceDown) = 0
    BY <1>1, <1>2, NoResults
  <1>4. HealthIsDebounced
    BY <1>1, <1>3, NoResults, HealthReads
  <1>5. Trailing(results, TRUE, entry.oks) /\ Trailing(results, FALSE, entry.fails)
    BY <1>1, NoResults
  <1>6. MonitorAlive /\ results \in Seq(BOOLEAN)
    BY <1>1 DEF MonitorAlive
  <1>7. /\ LastEnd(results, TRUE, DebounceUp) \in 0..Len(results)
        /\ LastEnd(results, FALSE, DebounceDown) \in 0..Len(results)
    <2>1. Len(results) = 0
      BY <1>1
    <2>2. 0 \in 0..0
      OBVIOUS
    <2> QED BY <1>3, <2>1, <2>2, Zenon
  <1>8. /\ monitor \in [started : BOOLEAN, stopped : BOOLEAN] /\ ~(monitor.started /\ monitor.stopped)
        /\ entry \in [gen : Nat, state : {"unknown", "healthy", "unhealthy"}, fails : Nat, oks : Nat,
                      timer : BOOLEAN]
    BY <1>1
  <1> QED BY <1>4, <1>5, <1>6, <1>7, <1>8, Zenon DEF MonitorIInv

\* applyResult moves the state exactly when a run is completed.
LEMMA ApplyResult ==
    ASSUME MonitorIInv, NEW ok \in BOOLEAN
    PROVE  LET e == applyResult(entry, ok)
               t == Append(results, ok)
           IN  /\ e \in [gen : Nat, state : {"unknown", "healthy", "unhealthy"}, fails : Nat, oks : Nat,
                         timer : BOOLEAN]
               /\ e.gen = entry.gen
               /\ t \in Seq(BOOLEAN) /\ Trailing(t, TRUE, e.oks) /\ Trailing(t, FALSE, e.fails)
               /\ LastEnd(t, TRUE, DebounceUp) \in 0..Len(t)
               /\ LastEnd(t, FALSE, DebounceDown) \in 0..Len(t)
               /\ e.state = Debounced(LastEnd(t, TRUE, DebounceUp), LastEnd(t, FALSE, DebounceDown))
  <1> DEFINE e == applyResult(entry, ok)
             t == Append(results, ok)
             oks == IF ok THEN entry.oks + 1 ELSE 0
             fails == IF ok THEN 0 ELSE entry.fails + 1
             up == LastEnd(results, TRUE, DebounceUp)
             down == LastEnd(results, FALSE, DebounceDown)
             n == Len(results)
  <1>1. DebounceUp \in Nat \ {0} /\ DebounceDown \in Nat \ {0}
    BY SkillsAssumption
  <1>2. /\ n \in Nat /\ up \in 0..n /\ down \in 0..n /\ entry.state = Debounced(up, down)
        /\ entry.oks \in Nat /\ entry.fails \in Nat
        /\ entry.state \in {"unknown", "healthy", "unhealthy"}
    <2>1. /\ results \in Seq(BOOLEAN) /\ HealthIsDebounced
          /\ entry \in [gen : Nat, state : {"unknown", "healthy", "unhealthy"}, fails : Nat, oks : Nat,
                        timer : BOOLEAN]
          /\ up \in 0..n /\ down \in 0..n
      BY DEF MonitorIInv
    <2>2. entry.state = Debounced(up, down)
      BY <2>1, HealthReads
    <2> HIDE DEF up, down
    <2> QED BY <2>1, <2>2
  <1>3. oks \in Nat /\ fails \in Nat /\ (oks = 0 \/ fails = 0)
    BY <1>2
  <1>4. /\ oks = (IF ok = TRUE THEN entry.oks + 1 ELSE 0)
        /\ fails = (IF ok = FALSE THEN entry.fails + 1 ELSE 0)
    OBVIOUS
  <1>5. /\ results \in Seq(BOOLEAN) /\ Trailing(results, TRUE, entry.oks)
        /\ Trailing(results, FALSE, entry.fails)
    BY DEF MonitorIInv
  <1>6. /\ Trailing(t, TRUE, oks) /\ Trailing(t, FALSE, fails)
    <2>1. Trailing(t, TRUE, IF ok = TRUE THEN entry.oks + 1 ELSE 0)
      BY <1>1, <1>5, EndsGrow
    <2>2. Trailing(t, FALSE, IF ok = FALSE THEN entry.fails + 1 ELSE 0)
      BY <1>1, <1>5, EndsGrow
    <2> QED BY <1>4, <2>1, <2>2
  <1>7. /\ LastEnd(t, TRUE, DebounceUp) = (IF oks >= DebounceUp THEN n + 1 ELSE up)
        /\ LastEnd(t, FALSE, DebounceDown) = (IF fails >= DebounceDown THEN n + 1 ELSE down)
    <2>1. LET q == IF ok = TRUE THEN entry.oks + 1 ELSE 0
          IN  LastEnd(t, TRUE, DebounceUp) = IF q >= DebounceUp THEN n + 1 ELSE up
      BY <1>1, <1>5, LastEndGrows
    <2>2. LET q == IF ok = FALSE THEN entry.fails + 1 ELSE 0
          IN  LastEnd(t, FALSE, DebounceDown) = IF q >= DebounceDown THEN n + 1 ELSE down
      BY <1>1, <1>5, LastEndGrows
    <2> QED BY <1>4, <2>1, <2>2
  <1>8. t \in Seq(BOOLEAN) /\ Len(t) = n + 1
    BY <1>5
  <1> DEFINE st == CASE entry.state # "healthy" /\ oks >= DebounceUp -> "healthy"
                     [] entry.state # "unhealthy" /\ fails >= DebounceDown -> "unhealthy"
                     [] OTHER -> entry.state
  <1>9. e = [entry EXCEPT !.oks = oks, !.fails = fails, !.state = st]
    BY DEF applyResult
  <1> HIDE DEF e, t, oks, fails, up, down, n
  <1>10. /\ LastEnd(t, TRUE, DebounceUp) \in 0..(n + 1) /\ LastEnd(t, FALSE, DebounceDown) \in 0..(n + 1)
         /\ st = Debounced(LastEnd(t, TRUE, DebounceUp), LastEnd(t, FALSE, DebounceDown))
         /\ st \in {"unknown", "healthy", "unhealthy"}
    <2>1. CASE oks >= DebounceUp
      <3>1. ~(fails >= DebounceDown)
        BY <1>1, <1>3, <2>1
      <3>2. st = "healthy"
        BY <1>2, <2>1, <3>1
      <3>3. Debounced(n + 1, down) = "healthy"
        BY <1>2 DEF Debounced
      <3>4. LastEnd(t, TRUE, DebounceUp) = n + 1 /\ LastEnd(t, FALSE, DebounceDown) = down
        BY <1>7, <2>1, <3>1
      <3>5. n + 1 \in 0..(n + 1) /\ down \in 0..(n + 1)
        BY <1>2
      <3> HIDE DEF st
      <3> QED BY <3>2, <3>3, <3>4, <3>5
    <2>2. CASE fails >= DebounceDown
      <3>1. ~(oks >= DebounceUp)
        BY <1>1, <1>3, <2>2
      <3>2. st = "unhealthy"
        BY <1>2, <2>2, <3>1
      <3>3. Debounced(up, n + 1) = "unhealthy"
        BY <1>2 DEF Debounced
      <3>4. LastEnd(t, TRUE, DebounceUp) = up /\ LastEnd(t, FALSE, DebounceDown) = n + 1
        BY <1>7, <2>2, <3>1
      <3>5. up \in 0..(n + 1) /\ n + 1 \in 0..(n + 1)
        BY <1>2
      <3> HIDE DEF st
      <3> QED BY <3>2, <3>3, <3>4, <3>5
    <2>3. CASE ~(oks >= DebounceUp) /\ ~(fails >= DebounceDown)
      <3>1. st = entry.state
        BY <2>3
      <3>2. LastEnd(t, TRUE, DebounceUp) = up /\ LastEnd(t, FALSE, DebounceDown) = down
        BY <1>7, <2>3
      <3>3. up \in 0..(n + 1) /\ down \in 0..(n + 1)
        BY <1>2
      <3> HIDE DEF st
      <3> QED BY <1>2, <3>1, <3>2, <3>3
    <2> QED BY <2>1, <2>2, <2>3
  <1> HIDE DEF st
  <1>11. /\ e \in [gen : Nat, state : {"unknown", "healthy", "unhealthy"}, fails : Nat, oks : Nat,
                   timer : BOOLEAN]
         /\ e.gen = entry.gen /\ e.oks = oks /\ e.fails = fails /\ e.state = st
    <2>1. entry \in [gen : Nat, state : {"unknown", "healthy", "unhealthy"}, fails : Nat, oks : Nat,
                     timer : BOOLEAN]
      BY DEF MonitorIInv
    <2> QED BY <1>3, <1>9, <1>10, <2>1
  <1>12. /\ Trailing(t, TRUE, e.oks) /\ Trailing(t, FALSE, e.fails)
         /\ e.state = Debounced(LastEnd(t, TRUE, DebounceUp), LastEnd(t, FALSE, DebounceDown))
         /\ LastEnd(t, TRUE, DebounceUp) \in 0..Len(t) /\ LastEnd(t, FALSE, DebounceDown) \in 0..Len(t)
    BY <1>6, <1>8, <1>10, <1>11
  <1> QED BY <1>8, <1>11, <1>12, Zenon DEF e, t

\* What a step that applies no result keeps.
LEMMA HistoryKept ==
    ASSUME MonitorIInv, results' = results, NEW b \in BOOLEAN, entry' = [entry EXCEPT !.timer = b],
           monitor' \in [started : BOOLEAN, stopped : BOOLEAN], ~(monitor'.started /\ monitor'.stopped),
           MonitorAlive'
    PROVE  MonitorIInv'
  <1>1. /\ entry' \in [gen : Nat, state : {"unknown", "healthy", "unhealthy"}, fails : Nat, oks : Nat,
                       timer : BOOLEAN]
        /\ entry'.oks = entry.oks /\ entry'.fails = entry.fails /\ entry'.state = entry.state
    BY DEF MonitorIInv
  <1>2. HealthIsDebounced'
    BY <1>1, HealthReads DEF MonitorIInv
  <1>3. /\ results' \in Seq(BOOLEAN) /\ Trailing(results', TRUE, entry'.oks)
        /\ Trailing(results', FALSE, entry'.fails)
        /\ LastEnd(results', TRUE, DebounceUp) \in 0..Len(results')
        /\ LastEnd(results', FALSE, DebounceDown) \in 0..Len(results')
    BY <1>1 DEF MonitorIInv
  <1> QED BY <1>1, <1>2, <1>3 DEF MonitorIInv

LEMMA MonitorStep == MonitorIInv /\ [MonitorNext]_monitorVars => MonitorIInv'
  <1> SUFFICES ASSUME MonitorIInv, [MonitorNext]_monitorVars PROVE MonitorIInv'
    OBVIOUS
  <1> DEFINE Row == [gen : Nat, state : {"unknown", "healthy", "unhealthy"}, fails : Nat, oks : Nat,
                     timer : BOOLEAN]
  <1>0. /\ monitor \in [started : BOOLEAN, stopped : BOOLEAN] /\ ~(monitor.started /\ monitor.stopped)
        /\ entry \in Row /\ MonitorAlive
        /\ DebounceUp \in Nat \ {0} /\ DebounceDown \in Nat \ {0}
    BY SkillsAssumption DEF MonitorIInv
  <1>1. CASE RegisterCheck
    <2>1. /\ monitor' = monitor /\ checks' = checks /\ results' = <<>> /\ Len(results') = 0
          /\ entry' = [[gen |-> entry.gen + 1, state |-> "unknown", fails |-> 0, oks |-> 0, timer |-> FALSE]
                          EXCEPT !.timer = monitor.started /\ ~monitor.stopped]
      BY <1>1 DEF RegisterCheck, FreshEntry
    <2>2. /\ entry' \in Row /\ entry'.oks = 0 /\ entry'.fails = 0 /\ entry'.state = "unknown"
          /\ (monitor.started => entry'.timer)
      BY <1>0, <2>1
    <2>3. LastEnd(results', TRUE, DebounceUp) = 0 /\ LastEnd(results', FALSE, DebounceDown) = 0
      BY <1>0, <2>1, NoResults
    <2>4. HealthIsDebounced'
      BY <2>2, <2>3, NoResults, HealthReads
    <2>5. MonitorAlive'
      BY <2>1, <2>2 DEF MonitorAlive
    <2>6. Trailing(results', TRUE, entry'.oks) /\ Trailing(results', FALSE, entry'.fails)
      BY <2>1, <2>2, NoResults
    <2>7. results' \in Seq(BOOLEAN) /\ monitor' = monitor
      BY <2>1
    <2>8. /\ LastEnd(results', TRUE, DebounceUp) \in 0..Len(results')
          /\ LastEnd(results', FALSE, DebounceDown) \in 0..Len(results')
      <3>1. Len(results') = 0
        BY <2>1
      <3>2. 0 \in 0..0
        OBVIOUS
      <3> QED BY <2>3, <3>1, <3>2, Zenon
    <2>9. monitor' \in [started : BOOLEAN, stopped : BOOLEAN] /\ ~(monitor'.started /\ monitor'.stopped)
      BY <1>0, <2>1
    <2> QED BY <2>2, <2>4, <2>5, <2>6, <2>7, <2>8, <2>9, Zenon DEF MonitorIInv
  <1>2. CASE StartMonitor
    <2>1. /\ monitor' = [started |-> TRUE, stopped |-> FALSE] /\ results' = results
          /\ entry' = [entry EXCEPT !.timer = entry.gen > 0] /\ (entry.gen > 0) \in BOOLEAN
      BY <1>0, <1>2 DEF StartMonitor
    <2>2. MonitorAlive'
      BY <1>0, <2>1 DEF MonitorAlive
    <2>3. monitor' \in [started : BOOLEAN, stopped : BOOLEAN] /\ ~(monitor'.started /\ monitor'.stopped)
      BY <2>1
    <2> QED BY <2>1, <2>2, <2>3, HistoryKept, Zenon
  <1>3. CASE StopMonitor
    <2>1. /\ monitor' = [started |-> FALSE, stopped |-> TRUE] /\ results' = results
          /\ entry' = [entry EXCEPT !.timer = FALSE] /\ FALSE \in BOOLEAN
      BY <1>3 DEF StopMonitor
    <2>2. MonitorAlive'
      BY <2>1 DEF MonitorAlive
    <2>3. monitor' \in [started : BOOLEAN, stopped : BOOLEAN] /\ ~(monitor'.started /\ monitor'.stopped)
      BY <2>1
    <2> QED BY <2>1, <2>2, <2>3, HistoryKept, Zenon
  <1>4. CASE RunCheck
    <2>1. /\ monitor' = monitor /\ results' = results /\ checks' = checks \cup {entry.gen}
          /\ entry' = [entry EXCEPT !.timer = FALSE] /\ FALSE \in BOOLEAN
      BY <1>4 DEF RunCheck
    <2>2. MonitorAlive'
      BY <1>0, <2>1 DEF MonitorAlive
    <2>3. monitor' \in [started : BOOLEAN, stopped : BOOLEAN] /\ ~(monitor'.started /\ monitor'.stopped)
      BY <1>0, <2>1
    <2> QED BY <2>1, <2>2, <2>3, HistoryKept, Zenon
  <1>5. ASSUME NEW gen \in checks, SettleCheck(gen), counts(gen) PROVE MonitorIInv'
    <2>1. PICK ok \in BOOLEAN : /\ entry' = [applyResult(entry, ok) EXCEPT !.timer = TRUE]
                                /\ results' = IF gen = entry.gen THEN Append(results, ok) ELSE results
                                /\ monitor' = monitor
      BY <1>5 DEF SettleCheck
    <2>2. results' = Append(results, ok)
      BY <1>5, <2>1 DEF counts
    <2> DEFINE e == applyResult(entry, ok)
    <2>3. /\ e \in Row /\ results' \in Seq(BOOLEAN)
          /\ Trailing(results', TRUE, e.oks) /\ Trailing(results', FALSE, e.fails)
          /\ LastEnd(results', TRUE, DebounceUp) \in 0..Len(results')
          /\ LastEnd(results', FALSE, DebounceDown) \in 0..Len(results')
          /\ e.state = Debounced(LastEnd(results', TRUE, DebounceUp), LastEnd(results', FALSE, DebounceDown))
      BY <2>2, ApplyResult
    <2>4. entry' = [e EXCEPT !.timer = TRUE]
      BY <2>1
    <2> HIDE DEF e
    <2>5. /\ entry' \in Row /\ entry'.oks = e.oks /\ entry'.fails = e.fails /\ entry'.state = e.state
          /\ entry'.timer = TRUE
      BY <2>3, <2>4
    <2>6. HealthIsDebounced'
      BY <2>3, <2>5, HealthReads
    <2>7. MonitorAlive'
      BY <2>5 DEF MonitorAlive
    <2>8. Trailing(results', TRUE, entry'.oks) /\ Trailing(results', FALSE, entry'.fails)
      BY <2>3, <2>5
    <2> QED BY <1>0, <2>1, <2>3, <2>5, <2>6, <2>7, <2>8 DEF MonitorIInv
  <1>6. ASSUME NEW gen \in checks, SettleCheck(gen), ~counts(gen) PROVE MonitorIInv'
    <2>1. monitor' = monitor /\ results' = results /\ entry' = entry /\ checks' = checks \ {gen}
      BY <1>6 DEF SettleCheck
    <2>2. MonitorAlive'
      BY <1>0, <1>6, <2>1 DEF MonitorAlive, counts
    <2>3. HealthIsDebounced'
      BY <2>1, HealthReads DEF MonitorIInv
    <2> QED BY <2>1, <2>2, <2>3 DEF MonitorIInv
  <1>7. CASE UNCHANGED monitorVars
    <2>1. monitor' = monitor /\ results' = results /\ entry' = entry /\ checks' = checks
      BY <1>7 DEF monitorVars
    <2>2. HealthIsDebounced' /\ MonitorAlive'
      BY <2>1, HealthReads DEF MonitorIInv, MonitorAlive
    <2> QED BY <2>1, <2>2 DEF MonitorIInv
  <1> QED BY <1>1, <1>2, <1>3, <1>4, <1>5, <1>6, <1>7 DEF MonitorNext

\* The target is gone only while a restore that has a backup is between its two
\* steps, or where a crash cut it off there.
DiskIInv ==
    /\ disk \in [dir : {"old", "new", "partial", "none"}, backup : {"old", "new", "partial", "none"},
                 step : {"idle", "backedUp", "written", "restoring"}]
    /\ disk.step = "restoring" => disk.backup # "none"
    /\ disk.step \in {"backedUp", "written"} => disk.dir # "none"
    /\ BackupOutlivesTarget

LEMMA DiskInitIInv == DiskInit => DiskIInv
  BY DEF DiskInit, DiskIInv, BackupOutlivesTarget

LEMMA DiskStep == DiskIInv /\ [DiskNext]_disk => DiskIInv'
  <1> SUFFICES ASSUME DiskIInv, [DiskNext]_disk PROVE DiskIInv'
    OBVIOUS
  <1> USE DEF DiskIInv, BackupOutlivesTarget
  <1>1. CASE CreateBackup
    BY <1>1 DEF CreateBackup
  <1>2. CASE InstallSkillPackage
    BY <1>2 DEF InstallSkillPackage
  <1>3. CASE RemoveBackup
    BY <1>3 DEF RemoveBackup
  <1>4. CASE RestoreRemovesTarget
    BY <1>4 DEF RestoreRemovesTarget
  <1>5. CASE RestoreRenames
    BY <1>5 DEF RestoreRenames
  <1>6. CASE CrashAndRestart
    BY <1>6 DEF CrashAndRestart
  <1>7. CASE UNCHANGED disk
    BY <1>7
  <1> QED BY <1>1, <1>2, <1>3, <1>4, <1>5, <1>6, <1>7 DEF DiskNext

\* The reported health is the debounced history of the registration, a running
\* monitor never loses its skill, and the old skill is never gone from directory
\* and backup at once, for every debounce and any number of registrations
\* (skill-health-monitor.ts, skill-rollback.ts).
THEOREM SkillsStayHealthy ==
    SkillsInit /\ [][MonitorNext]_monitorVars /\ [][DiskNext]_disk =>
        [](HealthIsDebounced /\ MonitorAlive /\ BackupOutlivesTarget)
  <1>1. MonitorIInv /\ DiskIInv => HealthIsDebounced /\ MonitorAlive /\ BackupOutlivesTarget
    BY DEF MonitorIInv, DiskIInv
  <1>2. SkillsInit => MonitorInit /\ DiskInit
    BY DEF SkillsInit
  <1> QED BY <1>1, <1>2, MonitorInitIInv, MonitorStep, DiskInitIInv, DiskStep, PTL

\* A node's record of another owner's availability came from that owner, after
\* the node last removed it, in a mesh of any size with any relays
\* (registry.ts, gossip.ts).
THEOREM AvailabilityIsDirectHolds == CapInit /\ [][CapNext]_capVars => []AvailabilityIsDirect
  <1>1. CapIInv => AvailabilityIsDirect
    BY DEF CapIInv
  <1> QED BY <1>1, CapInitIInv, CapStep, PTL
-----------------------------------------------------------------------------
(* The order in which skills are installed, for any number of skills. *)

\* Of positions there is a first one.
LEMMA LeastIndex ==
    ASSUME NEW S \in SUBSET Nat, S # {}
    PROVE  \E n \in S : \A m \in S : n <= m
  <1> DEFINE R == OpToRel(<, Nat)
  <1>1. IsWellFoundedOn(R, Nat)
    BY NatLessThanWellFounded
  <1>2. \A x, y \in Nat : <<x, y>> \in R <=> x < y
    BY DEF OpToRel
  <1> HIDE DEF R
  <1>3. PICK x \in S : \A y \in S : ~(<<y, x>> \in R)
    BY <1>1, WFMin
  <1>4. ASSUME NEW y \in S PROVE x <= y
    <2>1. x \in Nat /\ y \in Nat /\ ~(y < x)
      BY <1>2, <1>3
    <2> QED BY <2>1
  <1> QED BY <1>4

Frames == [skill : Graph, todo : SUBSET Graph]

\* A set of skills that has the keys and all that its skills need.
Closed(C) == resolver.keys \subseteq C /\ \A s \in C : resolver.deps[s] \subseteq C

\* What is in order is there once, comes after what it needs, and is needed.
InOrder(order, deps) ==
    /\ \A i, j \in 1..Len(order) : order[i] = order[j] => i = j
    /\ \A i \in 1..Len(order) : deps[order[i]] \subseteq {order[j] : j \in 1..(i - 1)}

OrderedSoFar ==
    /\ InOrder(resolver.order, resolver.deps)
    /\ \A C \in SUBSET Graph : Closed(C) => visited \subseteq C /\ visiting \subseteq C

\* The stack is a path of dependencies: each frame has seen to those it no longer
\* has to come to, but for the one the frame above it is at.
PathOfFrames ==
    /\ \A k \in 1..top : /\ resolver.stack[k].skill \notin visited
                         /\ resolver.stack[k].todo \subseteq resolver.deps[resolver.stack[k].skill]
    /\ \A j, k \in 1..top : resolver.stack[j].skill = resolver.stack[k].skill => j = k
    /\ \A k \in 1..(top - 1) :
           /\ resolver.stack[k + 1].skill \in resolver.deps[resolver.stack[k].skill]
           /\ resolver.deps[resolver.stack[k].skill] \ resolver.stack[k].todo
                  \subseteq visited \cup {resolver.stack[k + 1].skill}
    /\ top > 0 => resolver.deps[resolver.stack[top].skill] \ resolver.stack[top].todo \subseteq visited

\* NULL comes of skills each of which needs another of them.
CycleFound ==
    \E S \in SUBSET Graph : /\ S # {} /\ \A s \in S : \E t \in S : t \in resolver.deps[s]
                            /\ \A C \in SUBSET Graph : Closed(C) => S \subseteq C

ResolverIInv ==
    /\ resolver \in [state : {"idle", "walking", "done", "null"}, keys : SUBSET Graph,
                     deps : [Graph -> SUBSET Graph], stack : Seq(Frames), order : Seq(Graph)]
    /\ resolver.state = "idle" => resolver.stack = <<>> /\ resolver.order = <<>>
    /\ resolver.state = "null" => CycleFound
    /\ resolver.state # "null" => OrderedSoFar /\ PathOfFrames
    /\ resolver.state = "done" => resolver.keys \subseteq visited

\* The indices of a sequence, and what it holds.
LEMMA RangeOfSequence ==
    ASSUME NEW S, NEW s \in Seq(S)
    PROVE  /\ DOMAIN s = 1..Len(s) /\ Len(s) \in Nat
           /\ ToSet(s) = {s[i] : i \in 1..Len(s)} /\ ToSet(s) \subseteq S
  BY DEF ToSet

LEMMA ResolverInitIInv == ResolverInit => ResolverIInv
  <1> SUFFICES ASSUME ResolverInit PROVE ResolverIInv
    OBVIOUS
  <1>1. /\ resolver.state = "idle" /\ resolver.keys = {} /\ resolver.stack = <<>> /\ resolver.order = <<>>
        /\ resolver \in [state : {"idle", "walking", "done", "null"}, keys : SUBSET Graph,
                         deps : [Graph -> SUBSET Graph], stack : Seq(Frames), order : Seq(Graph)]
    BY DEF ResolverInit
  <1>2. visited = {} /\ visiting = {} /\ top = 0
    BY <1>1 DEF visited, visiting, top, ToSet
  <1> QED BY <1>1, <1>2 DEF ResolverIInv, OrderedSoFar, InOrder, PathOfFrames

\* A call of visit keeps the path, whether it finds the skill visited, finds it
\* on the path, or goes down.
LEMMA VisitKeeps ==
    ASSUME ResolverIInv, resolver.state = "walking", NEW s \in Graph, NEW below \in Seq(Frames),
           Len(below) = top,
           \A k \in 1..top : /\ below[k].skill = resolver.stack[k].skill
                             /\ below[k].todo \subseteq resolver.stack[k].todo
                             /\ k < top => below[k].todo = resolver.stack[k].todo,
           top = 0 => s \in resolver.keys,
           top > 0 => /\ s \in resolver.deps[resolver.stack[top].skill]
                      /\ resolver.stack[top].todo \ below[top].todo \subseteq {s},
           visit(s, below)
    PROVE  ResolverIInv'
  <1> DEFINE stack == resolver.stack  deps == resolver.deps
  <1>1. /\ resolver.stack \in Seq(Frames) /\ resolver.order \in Seq(Graph) /\ resolver.keys \in SUBSET Graph
        /\ resolver.deps \in [Graph -> SUBSET Graph] /\ OrderedSoFar /\ PathOfFrames
        /\ resolver = [state |-> "walking", keys |-> resolver.keys, deps |-> resolver.deps,
                       stack |-> resolver.stack, order |-> resolver.order]
    BY DEF ResolverIInv
  <1>2. /\ top \in Nat /\ DOMAIN resolver.stack = 1..top /\ visiting = {stack[k].skill : k \in 1..top}
        /\ \A k \in 1..top : stack[k] \in Frames /\ below[k] \in Frames
    <2>1. top \in Nat /\ DOMAIN resolver.stack = 1..top
      BY <1>1 DEF top
    <2>2. \A k \in 1..top : stack[k] \in Frames
      BY <1>1, <2>1
    <2>3. \A k \in 1..top : below[k] \in Frames
      BY <2>1
    <2>4. visiting = {stack[k].skill : k \in 1..top}
      BY <2>1 DEF visiting
    <2> QED BY <2>1, <2>2, <2>3, <2>4
  <1>3. \A C \in SUBSET Graph : Closed(C) => s \in C
    <2> SUFFICES ASSUME NEW C \in SUBSET Graph, Closed(C) PROVE s \in C
      OBVIOUS
    <2>1. CASE top = 0
      BY <2>1 DEF Closed
    <2>2. CASE top > 0
      <3>1. stack[top].skill \in C
        BY <1>1, <1>2, <2>2 DEF OrderedSoFar
      <3> QED BY <2>2, <3>1 DEF Closed
    <2> QED BY <1>2, <2>1, <2>2
  <1>4. CASE s \in visited
    <2>1. resolver' = [resolver EXCEPT !.stack = below]
      BY <1>4 DEF visit
    <2>2. /\ resolver'.state = "walking" /\ resolver'.stack = below
          /\ UNCHANGED <<resolver.keys, resolver.deps, resolver.order>>
          /\ resolver' \in [state : {"idle", "walking", "done", "null"}, keys : SUBSET Graph,
                            deps : [Graph -> SUBSET Graph], stack : Seq(Frames), order : Seq(Graph)]
      BY <1>1, <2>1
    <2>3. visited' = visited /\ top' = top /\ visiting' = visiting /\ \A C : Closed(C)' <=> Closed(C)
      <3>1. DOMAIN below = 1..top
        OBVIOUS
      <3>2. visited' = visited /\ top' = top /\ \A C : Closed(C)' <=> Closed(C)
        BY <2>2 DEF visited, top, Closed
      <3>3. visiting' = {below[k].skill : k \in 1..top}
        BY <2>2, <3>1 DEF visiting
      <3> QED BY <1>2, <3>2, <3>3
    <2>4. OrderedSoFar'
      BY <1>1, <2>2, <2>3 DEF OrderedSoFar
    <2>5. PathOfFrames'
      <3>1. \A k \in 1..top : below[k].skill = stack[k].skill /\ below[k].todo \subseteq stack[k].todo
        OBVIOUS
      <3>2. \A k \in 1..(top - 1) : /\ k \in 1..top /\ k + 1 \in 1..top /\ k < top
                                    /\ below[k].skill = stack[k].skill /\ below[k].todo = stack[k].todo
                                    /\ below[k + 1].skill = stack[k + 1].skill
        BY <1>2
      <3>3. top > 0 => deps[below[top].skill] \ below[top].todo \subseteq visited
        <4> SUFFICES ASSUME top > 0, NEW d \in deps[below[top].skill], d \notin below[top].todo PROVE d \in visited
          OBVIOUS
        <4>1. top \in 1..top /\ below[top].skill = stack[top].skill
          BY <1>2
        <4>2. d \in stack[top].todo => d = s
          OBVIOUS
        <4>3. deps[stack[top].skill] \ stack[top].todo \subseteq visited
          BY <1>1 DEF PathOfFrames
        <4>4. CASE d \in stack[top].todo
          BY <1>4, <4>2, <4>4
        <4>5. CASE d \notin stack[top].todo
          BY <4>1, <4>3, <4>5
        <4> QED BY <4>4, <4>5
      <3>4. /\ \A k \in 1..top : below[k].skill \notin visited /\ below[k].todo \subseteq deps[below[k].skill]
            /\ \A j, k \in 1..top : below[j].skill = below[k].skill => j = k
        BY <1>1, <3>1 DEF PathOfFrames
      <3>5. \A k \in 1..(top - 1) :
                /\ below[k + 1].skill \in deps[below[k].skill]
                /\ deps[below[k].skill] \ below[k].todo \subseteq visited \cup {below[k + 1].skill}
        BY <1>1, <3>2 DEF PathOfFrames
      <3> QED BY <2>2, <2>3, <3>3, <3>4, <3>5 DEF PathOfFrames
    <2> QED BY <2>2, <2>4, <2>5 DEF ResolverIInv
  <1>5. CASE s \notin visited /\ s \in visiting
    <2>1. resolver' = [resolver EXCEPT !.stack = below, !.state = "null"]
      BY <1>5 DEF visit
    <2>2. /\ resolver'.state = "null" /\ UNCHANGED <<resolver.keys, resolver.deps>>
          /\ resolver' \in [state : {"idle", "walking", "done", "null"}, keys : SUBSET Graph,
                            deps : [Graph -> SUBSET Graph], stack : Seq(Frames), order : Seq(Graph)]
      BY <1>1, <2>1
    <2>3. PICK m \in 1..top : s = stack[m].skill
      BY <1>2, <1>5
    <2> DEFINE S == {stack[k].skill : k \in m..top}
    <2>4. S \in SUBSET Graph /\ S # {} /\ s \in S /\ S \subseteq visiting
      BY <1>2, <2>3 DEF Frames
    <2>5. ASSUME NEW x \in S PROVE \E t \in S : t \in deps[x]
      <3>1. PICK k \in m..top : x = stack[k].skill
        OBVIOUS
      <3>2. CASE k = top
        BY <1>2, <2>3, <2>4, <3>1, <3>2
      <3>3. CASE k < top
        <4>1. k \in 1..(top - 1) /\ k + 1 \in m..top
          BY <1>2, <2>3, <3>3
        <4>2. stack[k + 1].skill \in S
          BY <4>1
        <4> QED BY <1>1, <3>1, <4>1, <4>2 DEF PathOfFrames
      <3> QED BY <1>2, <3>1, <3>2, <3>3
    <2>6. \A C \in SUBSET Graph : Closed(C) => S \subseteq C
      <3> HIDE DEF S
      <3> QED BY <1>1, <2>4 DEF OrderedSoFar
    <2>7. CycleFound'
      <3> HIDE DEF S
      <3>1. \A C : Closed(C)' <=> Closed(C)
        BY <2>2 DEF Closed
      <3> QED BY <2>2, <2>4, <2>5, <2>6, <3>1 DEF CycleFound
    <2> QED BY <2>2, <2>7 DEF ResolverIInv
  <1>6. CASE s \notin visited /\ s \notin visiting
    <2> DEFINE frame == [skill |-> s, todo |-> resolver.deps[s]]
               longer == Append(below, frame)
    <2>0. frame \in Frames /\ frame.skill = s /\ frame.todo = deps[s]
      BY <1>1 DEF Frames
    <2> HIDE DEF frame
    <2>1. resolver' = [resolver EXCEPT !.stack = longer]
      BY <1>6 DEF visit, frame
    <2>2. /\ longer \in Seq(Frames) /\ Len(longer) = top + 1 /\ longer[top + 1] = frame
          /\ \A k \in 1..top : longer[k] = below[k]
      BY <1>2, <2>0
    <2> HIDE DEF longer
    <2>3. /\ resolver'.state = "walking" /\ resolver'.stack = longer
          /\ UNCHANGED <<resolver.keys, resolver.deps, resolver.order>>
          /\ resolver' \in [state : {"idle", "walking", "done", "null"}, keys : SUBSET Graph,
                            deps : [Graph -> SUBSET Graph], stack : Seq(Frames), order : Seq(Graph)]
      BY <1>1, <2>1, <2>2
    <2>4. visited' = visited /\ top' = top + 1 /\ visiting' = visiting \cup {s}
          /\ \A C : Closed(C)' <=> Closed(C)
      <3>1. DOMAIN longer = 1..(top + 1) /\ 1..(top + 1) = 1..top \cup {top + 1}
        BY <1>2, <2>2
      <3>2. visited' = visited /\ top' = top + 1 /\ \A C : Closed(C)' <=> Closed(C)
        BY <2>2, <2>3 DEF visited, top, Closed
      <3>3. visiting' = {longer[k].skill : k \in 1..top \cup {top + 1}}
        BY <2>3, <3>1 DEF visiting
      <3>4. \A k \in 1..top : longer[k].skill = stack[k].skill
        BY <2>2
      <3>5. {longer[k].skill : k \in 1..top \cup {top + 1}} = {longer[k].skill : k \in 1..top} \cup {s}
        BY <2>0, <2>2
      <3>6. {longer[k].skill : k \in 1..top} = visiting
        BY <1>2, <3>4
      <3>7. visiting' = visiting \cup {s}
        BY <3>3, <3>5, <3>6
      <3> QED BY <3>2, <3>7
    <2>5. OrderedSoFar'
      <3>1. \A C \in SUBSET Graph : Closed(C) => visited \subseteq C /\ visiting \cup {s} \subseteq C
        BY <1>1, <1>3 DEF OrderedSoFar
      <3>2. \A C \in SUBSET Graph : Closed(C)' => visited' \subseteq C /\ visiting' \subseteq C
        BY <2>4, <3>1
      <3> QED BY <1>1, <2>3, <3>2 DEF OrderedSoFar
    <2>6. PathOfFrames'
      <3>1. \A k \in 1..(top + 1) :
                \/ k \in 1..top /\ longer[k].skill = stack[k].skill /\ longer[k].todo \subseteq stack[k].todo
                \/ k = top + 1 /\ longer[k].skill = s /\ longer[k].todo = deps[s]
        BY <1>2, <2>0, <2>2
      <3>2. \A k \in 1..(top + 1) : /\ longer[k].skill \notin visited
                                    /\ longer[k].todo \subseteq deps[longer[k].skill]
        BY <1>1, <1>6, <3>1 DEF PathOfFrames
      <3>3. \A j, k \in 1..(top + 1) : longer[j].skill = longer[k].skill => j = k
        <4>1. \A k \in 1..top : stack[k].skill # s
          BY <1>2, <1>6
        <4> QED BY <1>1, <3>1, <4>1 DEF PathOfFrames
      <3>4. ASSUME NEW k \in 1..top
            PROVE  /\ longer[k + 1].skill \in deps[longer[k].skill]
                   /\ deps[longer[k].skill] \ longer[k].todo \subseteq visited \cup {longer[k + 1].skill}
        <4>1. CASE k < top
          <5>1. k \in 1..(top - 1) /\ k + 1 \in 1..top
            BY <1>2, <4>1
          <5>2. /\ longer[k].skill = stack[k].skill /\ longer[k].todo = stack[k].todo
                /\ longer[k + 1].skill = stack[k + 1].skill
            BY <2>2, <4>1, <5>1
          <5> QED BY <1>1, <5>1, <5>2 DEF PathOfFrames
        <4>2. CASE k = top
          <5>1. /\ top > 0 /\ longer[k].skill = stack[top].skill /\ longer[k + 1].skill = s
                /\ longer[k].todo = below[top].todo
            BY <1>2, <2>0, <2>2, <4>2
          <5>2. deps[stack[top].skill] \ stack[top].todo \subseteq visited
            BY <1>1, <5>1 DEF PathOfFrames
          <5> QED BY <5>1, <5>2
        <4> QED BY <1>2, <4>1, <4>2
      <3>5. deps[longer[top + 1].skill] \ longer[top + 1].todo \subseteq visited
        BY <2>0, <2>2
      <3>6. (top + 1) - 1 = top
        BY <1>2
      <3> QED BY <2>3, <2>4, <3>2, <3>3, <3>4, <3>5, <3>6 DEF PathOfFrames
    <2> QED BY <2>3, <2>5, <2>6 DEF ResolverIInv
  <1> QED BY <1>4, <1>5, <1>6
\* What is done is put in order behind what it needs.
LEMMA VisitEndsKeeps == ResolverIInv /\ VisitEnds => ResolverIInv'
  <1> SUFFICES ASSUME ResolverIInv, VisitEnds PROVE ResolverIInv'
    OBVIOUS
  <1> DEFINE stack == resolver.stack  deps == resolver.deps  order == resolver.order
             x == stack[top].skill  n == Len(order)
             shorter == SubSeq(stack, 1, top - 1)  longer == Append(order, x)
  <1>1. /\ stack \in Seq(Frames) /\ order \in Seq(Graph) /\ resolver.keys \in SUBSET Graph
        /\ deps \in [Graph -> SUBSET Graph] /\ OrderedSoFar /\ PathOfFrames
        /\ top > 0 /\ stack[top].todo = {}
        /\ resolver \in [state : {"idle", "walking", "done", "null"}, keys : SUBSET Graph,
                         deps : [Graph -> SUBSET Graph], stack : Seq(Frames), order : Seq(Graph)]
        /\ resolver.state = "walking"
        /\ resolver' = [resolver EXCEPT !.stack = shorter, !.order = longer]
    BY DEF VisitEnds, ResolverIInv
  <1>2. /\ top \in Nat /\ top \in 1..top /\ n \in Nat
        /\ DOMAIN order = 1..n /\ visited = {order[i] : i \in 1..n}
        /\ visiting = {stack[k].skill : k \in 1..top}
        /\ \A k \in 1..top : stack[k] \in Frames
        /\ x \in Graph
    <2>1. /\ top = Len(stack) /\ DOMAIN stack = 1..top /\ top \in Nat
          /\ \A k \in 1..top : stack[k] \in Frames
      BY <1>1 DEF top
    <2>2. n \in Nat /\ DOMAIN order = 1..n /\ visited = {order[i] : i \in 1..n}
      BY <1>1, RangeOfSequence DEF visited
    <2>3. top \in 1..top
      BY <1>1, <2>1
    <2>4. x \in Graph
      BY <2>1, <2>3 DEF Frames
    <2>5. visiting = {stack[k].skill : k \in 1..top}
      BY <2>1 DEF visiting
    <2> QED BY <2>1, <2>2, <2>3, <2>4, <2>5
  <1>3. /\ shorter \in Seq(Frames) /\ Len(shorter) = top - 1
        /\ \A k \in 1..(top - 1) : shorter[k] = stack[k]
    <2>1. 1 \in 1..(Len(stack) + 1) /\ top - 1 \in 0..Len(stack) /\ Len(stack) = top
      BY <1>1, <1>2 DEF top
    <2>2. /\ shorter \in Seq(Frames)
          /\ Len(shorter) = IF 1 <= top - 1 THEN (top - 1) - 1 + 1 ELSE 0
          /\ \A i \in 1..((top - 1) - 1 + 1) : shorter[i] = stack[1 + i - 1]
      BY <1>1, <2>1, SubSeqProperties
    <2> HIDE DEF shorter
    <2> QED BY <1>2, <2>2
  <1>4. /\ longer \in Seq(Graph) /\ Len(longer) = n + 1 /\ longer[n + 1] = x
        /\ \A i \in 1..n : longer[i] = order[i]
    BY <1>1, <1>2
  <1> HIDE DEF shorter, longer, x
  <1>5. /\ resolver'.state = "walking" /\ resolver'.stack = shorter /\ resolver'.order = longer
        /\ UNCHANGED <<resolver.keys, resolver.deps>>
        /\ resolver' \in [state : {"idle", "walking", "done", "null"}, keys : SUBSET Graph,
                          deps : [Graph -> SUBSET Graph], stack : Seq(Frames), order : Seq(Graph)]
    BY <1>1, <1>3, <1>4
  <1>6. /\ top' = top - 1 /\ visited' = visited \cup {x} /\ \A C : Closed(C)' <=> Closed(C)
        /\ visiting' \subseteq visiting
    <2>1. DOMAIN longer = 1..(n + 1) /\ 1..(n + 1) = 1..n \cup {n + 1} /\ DOMAIN shorter = 1..(top - 1)
      BY <1>2, <1>3, <1>4
    <2>2. top' = top - 1 /\ \A C : Closed(C)' <=> Closed(C)
      BY <1>3, <1>5 DEF top, Closed
    <2>3. visited' = {longer[i] : i \in 1..n \cup {n + 1}}
      BY <1>5, <2>1 DEF visited, ToSet
    <2>4. {longer[i] : i \in 1..n \cup {n + 1}} = {longer[i] : i \in 1..n} \cup {x}
      BY <1>4
    <2>5. {longer[i] : i \in 1..n} = visited
      BY <1>2, <1>4
    <2>6. visiting' = {shorter[k].skill : k \in 1..(top - 1)}
      BY <1>5, <2>1 DEF visiting
    <2>7. \A k \in 1..(top - 1) : k \in 1..top /\ shorter[k].skill = stack[k].skill
      BY <1>2, <1>3
    <2> QED BY <1>2, <2>2, <2>3, <2>4, <2>5, <2>6, <2>7
  <1>7. x \notin visited /\ deps[x] \subseteq visited
    BY <1>1, <1>2 DEF PathOfFrames, x
  <1>8. OrderedSoFar'
    <2>1. ASSUME NEW i \in 1..(n + 1), NEW j \in 1..(n + 1), longer[i] = longer[j] PROVE i = j
      <3>1. \A k \in 1..n : order[k] # x
        BY <1>2, <1>7
      <3> QED BY <1>1, <1>2, <1>4, <2>1, <3>1 DEF OrderedSoFar, InOrder
    <2>2. ASSUME NEW i \in 1..(n + 1) PROVE deps[longer[i]] \subseteq {longer[j] : j \in 1..(i - 1)}
      <3>1. CASE i \in 1..n
        <4>1. deps[order[i]] \subseteq {order[j] : j \in 1..(i - 1)}
          BY <1>1, <3>1 DEF OrderedSoFar, InOrder
        <4>2. \A j \in 1..(i - 1) : longer[j] = order[j]
          BY <1>2, <1>4, <3>1
        <4> QED BY <1>4, <3>1, <4>1, <4>2
      <3>2. CASE i = n + 1
        <4>1. longer[i] = x /\ i - 1 = n
          BY <1>2, <1>4, <3>2
        <4>2. {longer[j] : j \in 1..n} = visited
          BY <1>2, <1>4
        <4> QED BY <1>7, <4>1, <4>2
      <3> QED BY <1>2, <3>1, <3>2
    <2>3. \A C \in SUBSET Graph : Closed(C) => x \in C
      BY <1>1, <1>2 DEF OrderedSoFar, x
    <2>4. Len(resolver'.order) = n + 1
      BY <1>4, <1>5
    <2>5. \A C \in SUBSET Graph : Closed(C) => visited \cup {x} \subseteq C /\ visiting \subseteq C
      BY <1>1, <2>3 DEF OrderedSoFar
    <2> QED BY <1>5, <1>6, <2>1, <2>2, <2>4, <2>5 DEF OrderedSoFar, InOrder
  <1>9. PathOfFrames'
    <2>1. \A k \in 1..(top - 1) : k \in 1..top /\ k # top /\ shorter[k] = stack[k]
      BY <1>2, <1>3
    <2>2. \A k \in 1..(top - 1) : stack[k].skill # x
      BY <1>1, <1>2, <2>1 DEF PathOfFrames, x
    <2>3. \A k \in 1..(top - 1) : /\ shorter[k].skill \notin visited \cup {x}
                                  /\ shorter[k].todo \subseteq deps[shorter[k].skill]
      BY <1>1, <2>1, <2>2 DEF PathOfFrames
    <2>4. \A j, k \in 1..(top - 1) : shorter[j].skill = shorter[k].skill => j = k
      BY <1>1, <2>1 DEF PathOfFrames
    <2>5. ASSUME NEW k \in 1..((top - 1) - 1)
          PROVE  /\ shorter[k + 1].skill \in deps[shorter[k].skill]
                 /\ deps[shorter[k].skill] \ shorter[k].todo \subseteq visited \cup {x} \cup {shorter[k + 1].skill}
      <3>1. k \in 1..(top - 1) /\ k + 1 \in 1..(top - 1)
        BY <1>2
      <3> QED BY <1>1, <2>1, <3>1 DEF PathOfFrames
    <2>6. ASSUME top - 1 > 0
          PROVE  deps[shorter[top - 1].skill] \ shorter[top - 1].todo \subseteq visited \cup {x}
      <3>1. top - 1 \in 1..(top - 1) /\ (top - 1) + 1 = top
        BY <1>2, <2>6
      <3> QED BY <1>1, <2>1, <3>1 DEF PathOfFrames, x
    <2> QED BY <1>5, <1>6, <2>3, <2>4, <2>5, <2>6 DEF PathOfFrames
  <1> QED BY <1>5, <1>8, <1>9 DEF ResolverIInv

LEMMA ResolverStep == ResolverIInv /\ [ResolverNext]_resolver => ResolverIInv'
  <1> SUFFICES ASSUME ResolverIInv, [ResolverNext]_resolver PROVE ResolverIInv'
    OBVIOUS
  <1>1. CASE ResolveInstallOrder
    <2>1. PICK keys \in SUBSET Graph, deps \in [Graph -> SUBSET Graph] :
              resolver' = [resolver EXCEPT !.state = "walking", !.keys = keys, !.deps = deps]
      BY <1>1 DEF ResolveInstallOrder
    <2>2. /\ resolver.state = "idle" /\ resolver.stack = <<>> /\ resolver.order = <<>>
          /\ resolver'.state = "walking" /\ resolver'.stack = <<>> /\ resolver'.order = <<>>
          /\ resolver' \in [state : {"idle", "walking", "done", "null"}, keys : SUBSET Graph,
                            deps : [Graph -> SUBSET Graph], stack : Seq(Frames), order : Seq(Graph)]
      BY <1>1, <2>1 DEF ResolveInstallOrder, ResolverIInv
    <2>3. visited' = {} /\ visiting' = {} /\ top' = 0
      BY <2>2 DEF visited, visiting, top, ToSet
    <2> QED BY <2>2, <2>3 DEF ResolverIInv, OrderedSoFar, InOrder, PathOfFrames
  <1>2. CASE VisitKey
    <2>1. PICK s \in resolver.keys : visit(s, <<>>)
      BY <1>2 DEF VisitKey
    <2>2. resolver.state = "walking" /\ top = 0 /\ s \in Graph
      BY <1>2 DEF VisitKey, ResolverIInv
    <2>3. <<>> \in Seq(Frames) /\ Len(<<>>) = 0
      OBVIOUS
    <2> DEFINE below == <<>>
    <2>4. \A k \in 1..top : FALSE
      BY <2>2
    <2>5. below \in Seq(Frames) /\ Len(below) = top /\ visit(s, below)
      BY <2>1, <2>2, <2>3
    <2> HIDE DEF below
    <2>6. s \in resolver.keys /\ ~(top > 0)
      BY <2>1, <2>2
    <2> QED BY <2>2, <2>4, <2>5, <2>6, VisitKeeps
  <1>3. CASE VisitDependency
    <2>1. /\ resolver.state = "walking" /\ top > 0 /\ top = Len(resolver.stack)
          /\ resolver.stack \in Seq(Frames) /\ PathOfFrames
      BY <1>3 DEF VisitDependency, ResolverIInv, top
    <2>2. PICK s \in resolver.stack[top].todo :
              visit(s, [resolver.stack EXCEPT ![top].todo = resolver.stack[top].todo \ {s}])
      BY <1>3 DEF VisitDependency
    <2> DEFINE below == [resolver.stack EXCEPT ![top].todo = resolver.stack[top].todo \ {s}]
    <2>3. top \in Nat /\ top \in 1..top /\ \A k \in 1..top : resolver.stack[k] \in Frames
      BY <2>1
    <2>4. s \in Graph /\ s \in resolver.deps[resolver.stack[top].skill]
      BY <2>1, <2>2, <2>3 DEF PathOfFrames, Frames
    <2>5. /\ below \in Seq(Frames) /\ Len(below) = top
          /\ below[top].skill = resolver.stack[top].skill
          /\ below[top].todo = resolver.stack[top].todo \ {s}
          /\ \A k \in 1..top : k # top => below[k] = resolver.stack[k]
      <3> DEFINE frame == [resolver.stack[top] EXCEPT !.todo = resolver.stack[top].todo \ {s}]
      <3>1. /\ frame \in Frames /\ frame.skill = resolver.stack[top].skill
            /\ frame.todo = resolver.stack[top].todo \ {s}
        BY <2>3 DEF Frames
      <3>2. below = [resolver.stack EXCEPT ![top] = frame]
        OBVIOUS
      <3> HIDE DEF frame, below
      <3> QED BY <2>1, <2>3, <3>1, <3>2
    <2> HIDE DEF below
    <2>6. \A k \in 1..top : /\ below[k].skill = resolver.stack[k].skill
                            /\ below[k].todo \subseteq resolver.stack[k].todo
                            /\ k < top => below[k].todo = resolver.stack[k].todo
      BY <2>3, <2>5
    <2>7. visit(s, below)
      BY <2>2 DEF below
    <2> QED BY <2>1, <2>4, <2>5, <2>6, <2>7, VisitKeeps
  <1>4. CASE VisitEnds
    BY <1>4, VisitEndsKeeps
  <1>5. CASE ReturnOrder
    <2>1. /\ resolver' = [resolver EXCEPT !.state = "done"] /\ OrderedSoFar /\ PathOfFrames
          /\ resolver.keys \subseteq visited
          /\ resolver \in [state : {"idle", "walking", "done", "null"}, keys : SUBSET Graph,
                           deps : [Graph -> SUBSET Graph], stack : Seq(Frames), order : Seq(Graph)]
      BY <1>5 DEF ReturnOrder, ResolverIInv
    <2>2. /\ resolver'.state = "done"
          /\ UNCHANGED <<resolver.keys, resolver.deps, resolver.stack, resolver.order>>
          /\ resolver' \in [state : {"idle", "walking", "done", "null"}, keys : SUBSET Graph,
                            deps : [Graph -> SUBSET Graph], stack : Seq(Frames), order : Seq(Graph)]
      BY <2>1
    <2>3. /\ UNCHANGED <<visited, visiting, top>> /\ \A C : Closed(C)' <=> Closed(C)
      BY <2>2 DEF visited, visiting, top, Closed
    <2>4. OrderedSoFar'
      BY <2>1, <2>2, <2>3 DEF OrderedSoFar
    <2>5. PathOfFrames'
      BY <2>1, <2>2, <2>3 DEF PathOfFrames
    <2> QED BY <2>1, <2>2, <2>3, <2>4, <2>5 DEF ResolverIInv
  <1>6. CASE UNCHANGED resolver
    <2>1. UNCHANGED <<visited, visiting, top>> /\ \A C : Closed(C)' <=> Closed(C)
      BY <1>6 DEF visited, visiting, top, Closed
    <2>2. /\ OrderedSoFar => OrderedSoFar'
          /\ CycleFound => CycleFound'
      BY <1>6, <2>1 DEF OrderedSoFar, CycleFound
    <2>3. PathOfFrames => PathOfFrames'
      BY <1>6, <2>1 DEF PathOfFrames
    <2> QED BY <1>6, <2>1, <2>2, <2>3 DEF ResolverIInv
  <1> QED BY <1>1, <1>2, <1>3, <1>4, <1>5, <1>6 DEF ResolverNext

\* An order cannot put each skill of a cycle behind another of them: the first
\* one of them in it has nothing to stand behind.
LEMMA ResolverGuarantees == ResolverIInv => InstallOrderIsSound
  <1> SUFFICES ASSUME ResolverIInv PROVE InstallOrderIsSound
    OBVIOUS
  <1>1. CASE resolver.state = "done"
    <2>1. /\ resolver.order \in Seq(Graph) /\ OrderedSoFar /\ resolver.keys \subseteq visited
          /\ visited = ToSet(resolver.order) /\ DOMAIN resolver.order = 1..Len(resolver.order)
      BY <1>1 DEF ResolverIInv, visited
    <2>2. IsInstallOrder(resolver.order)
      BY <2>1 DEF OrderedSoFar, InOrder, IsInstallOrder, Closed
    <2> QED BY <1>1, <2>2 DEF InstallOrderIsSound
  <1>2. CASE resolver.state = "null"
    <2>1. PICK S \in SUBSET Graph : /\ S # {} /\ \A s \in S : \E t \in S : t \in resolver.deps[s]
                                    /\ \A C \in SUBSET Graph : Closed(C) => S \subseteq C
      BY <1>2 DEF ResolverIInv, CycleFound
    <2>2. ASSUME NEW n \in Nat, NEW order \in [1..n -> Graph], IsInstallOrder(order) PROVE FALSE
      <3>1. ToSet(order) = {order[i] : i \in 1..n}
        BY DEF ToSet
      <3>2. /\ resolver.keys \subseteq ToSet(order)
            /\ \A i \in 1..n : resolver.deps[order[i]] \subseteq {order[j] : j \in 1..(i - 1)}
        BY <2>2 DEF IsInstallOrder
      <3>3. Closed(ToSet(order)) /\ ToSet(order) \in SUBSET Graph
        <4>1. \A i \in 1..n : \A j \in 1..(i - 1) : j \in 1..n
          OBVIOUS
        <4> QED BY <3>1, <3>2, <4>1 DEF Closed
      <3> DEFINE I == {i \in 1..n : order[i] \in S}
      <3>4. I \in SUBSET Nat /\ I # {}
        BY <2>1, <3>1, <3>3
      <3>5. PICK i \in I : \A j \in I : i <= j
        <4> HIDE DEF I
        <4> QED BY <3>4, LeastIndex
      <3>6. PICK t \in S : t \in resolver.deps[order[i]]
        BY <2>1
      <3>7. PICK j \in 1..(i - 1) : t = order[j]
        BY <3>2, <3>6
      <3>8. j \in I /\ j < i
        BY <3>6, <3>7
      <3> QED BY <3>5, <3>8
    <2>3. \A n \in 0..Cardinality(Graph) : n \in Nat
      OBVIOUS
    <2> QED BY <1>2, <2>2, <2>3 DEF InstallOrderIsSound
  <1> QED BY <1>1, <1>2 DEF InstallOrderIsSound

\* For any number of skills and any dependencies between them: resolveInstallOrder
\* returns an order in which every skill comes once and after all it needs, with
\* nothing that is not needed, and NULL only if there is no such order
\* (skill-deps.ts).
THEOREM InstallOrderIsSoundHolds == ResolverInit /\ [][ResolverNext]_resolver => []InstallOrderIsSound
  BY ResolverInitIInv, ResolverStep, ResolverGuarantees, PTL
-----------------------------------------------------------------------------
(* Versions, with pre-releases of any length. *)

Ids == [num : BOOLEAN, k : Nat]
SemVers == [major : Nat, minor : Nat, patch : Nat, pre : Seq(Ids)]

\* With what does not parse.
AllVersions == SemVers \cup {Unparsable}

LEMMA SemVersParse ==
    /\ \A v \in SemVers : parses(v)
    /\ Unparsable \notin SemVers /\ ~parses(Unparsable)
    /\ \A v \in AllVersions : parses(v) <=> v \in SemVers
  <1>1. \A v \in SemVers : v.major \in Nat
    BY DEF SemVers
  <1>2. Unparsable.major = -1
    BY DEF Unparsable
  <1>3. Unparsable \notin SemVers
    <2>1. -1 \notin Nat
      OBVIOUS
    <2> QED BY <1>1, <1>2, <2>1
  <1> QED BY <1>3 DEF parses, AllVersions

LEMMA Signs ==
    \A a, b \in Nat : /\ sign(a, b) \in {-1, 0, 1} /\ sign(b, a) = -sign(a, b)
                      /\ sign(a, b) > 0 <=> a > b
                      /\ sign(a, b) = 0 <=> a = b
  BY DEF sign

LEMMA PartsAreOrdered ==
    /\ \A x, y \in Ids : /\ comparePart(x, y) \in {-1, 0, 1} /\ comparePart(y, x) = -comparePart(x, y)
                         /\ comparePart(x, y) = 0 <=> x = y
    /\ \A x, y, z \in Ids : comparePart(x, y) > 0 /\ comparePart(y, z) > 0 => comparePart(x, z) > 0
  <1>1. ASSUME NEW x \in Ids, NEW y \in Ids
        PROVE  /\ comparePart(x, y) \in {-1, 0, 1} /\ comparePart(y, x) = -comparePart(x, y)
               /\ comparePart(x, y) = 0 <=> x = y
    <2>1. x.k \in Nat /\ y.k \in Nat /\ x.num \in BOOLEAN /\ y.num \in BOOLEAN
      BY DEF Ids
    <2>2. x = y <=> x.num = y.num /\ x.k = y.k
      BY DEF Ids
    <2>3. CASE x.num = y.num
      BY <2>1, <2>2, <2>3, Signs DEF comparePart
    <2>4. CASE x.num # y.num
      BY <2>1, <2>2, <2>4 DEF comparePart
    <2> QED BY <2>3, <2>4
  <1>2. ASSUME NEW x \in Ids, NEW y \in Ids, NEW z \in Ids, comparePart(x, y) > 0, comparePart(y, z) > 0
        PROVE  comparePart(x, z) > 0
    <2>1. /\ x.k \in Nat /\ y.k \in Nat /\ z.k \in Nat
          /\ x.num \in BOOLEAN /\ y.num \in BOOLEAN /\ z.num \in BOOLEAN
      BY DEF Ids
    <2>2. \A u, v \in Ids :
              comparePart(u, v) > 0 <=> (IF u.num = v.num THEN sign(u.k, v.k) > 0 ELSE ~u.num)
      BY DEF comparePart, Ids
    <2>3. \A u, v \in Ids : sign(u.k, v.k) > 0 <=> u.k > v.k
      BY Signs DEF Ids
    <2> QED BY <1>2, <2>1, <2>2, <2>3
  <1> QED BY <1>1, <1>2

\* p and q part at position i.
PartAt(p, q, i) ==
    /\ i \in 1..Len(p) /\ i \in 1..Len(q) /\ p[i] # q[i]
    /\ \A j \in 1..(i - 1) : p[j] = q[j]

\* One is the beginning of the other.
Agree(p, q) == \A j \in 1..Len(p) : j \in 1..Len(q) => p[j] = q[j]

LEMMA PartOrAgree ==
    ASSUME NEW p \in Seq(Ids), NEW q \in Seq(Ids)
    PROVE  \/ Agree(p, q) /\ compareIdentifiers(p, q) = sign(Len(p), Len(q))
           \/ \E i \in Nat : PartAt(p, q, i) /\ compareIdentifiers(p, q) = comparePart(p[i], q[i])
  <1> DEFINE m == IF Len(p) < Len(q) THEN Len(p) ELSE Len(q)
             diff == {i \in 1..m : p[i] # q[i]}
             first == CHOOSE i \in diff : \A j \in diff : i <= j
  <1>1. /\ m \in Nat /\ \A j : j \in 1..m <=> j \in 1..Len(p) /\ j \in 1..Len(q)
        /\ Len(p) \in Nat /\ Len(q) \in Nat
    OBVIOUS
  <1>2. compareIdentifiers(p, q) = IF diff = {} THEN sign(Len(p), Len(q)) ELSE comparePart(p[first], q[first])
    BY DEF compareIdentifiers
  <1> HIDE DEF m
  <1>3. CASE diff = {}
    <2>1. Agree(p, q)
      BY <1>1, <1>3 DEF Agree
    <2> QED BY <1>2, <1>3, <2>1
  <1>4. CASE diff # {}
    <2>1. diff \in SUBSET Nat
      BY <1>1
    <2>2. first \in diff /\ \A j \in diff : first <= j
      <3> HIDE DEF diff
      <3>1. \E i \in diff : \A j \in diff : i <= j
        BY <1>4, <2>1, LeastIndex
      <3> QED BY <3>1
    <2> HIDE DEF first
    <2>3. \A j \in 1..(first - 1) : j \in 1..m /\ ~(first <= j)
      BY <1>1, <2>2
    <2>4. \A j \in 1..(first - 1) : p[j] = q[j]
      BY <2>2, <2>3
    <2>5. PartAt(p, q, first)
      BY <1>1, <2>2, <2>4 DEF PartAt
    <2>6. first \in Nat
      BY <2>1, <2>2
    <2> HIDE DEF diff
    <2> QED BY <1>2, <1>4, <2>5, <2>6
  <1> QED BY <1>3, <1>4

LEMMA PrereleasesAreOrdered ==
    ASSUME NEW p \in Seq(Ids), NEW q \in Seq(Ids)
    PROVE  /\ compareIdentifiers(p, q) \in {-1, 0, 1}
           /\ compareIdentifiers(q, p) = -compareIdentifiers(p, q)
           /\ compareIdentifiers(p, q) = 0 <=> p = q
  <1>1. Len(p) \in Nat /\ Len(q) \in Nat /\ (\A i \in 1..Len(p) : p[i] \in Ids) /\ \A i \in 1..Len(q) : q[i] \in Ids
    OBVIOUS
  <1>2. CASE Agree(p, q) /\ compareIdentifiers(p, q) = sign(Len(p), Len(q))
    <2>1. ~\E i \in Nat : PartAt(q, p, i)
      BY <1>2 DEF Agree, PartAt
    <2>2. compareIdentifiers(q, p) = sign(Len(q), Len(p))
      BY <2>1, PartOrAgree
    <2>3. Len(p) = Len(q) <=> p = q
      BY <1>1, <1>2 DEF Agree
    <2> QED BY <1>1, <1>2, <2>2, <2>3, Signs
  <1>3. ASSUME NEW i \in Nat, PartAt(p, q, i), compareIdentifiers(p, q) = comparePart(p[i], q[i])
        PROVE  /\ compareIdentifiers(p, q) \in {-1, 0, 1}
               /\ compareIdentifiers(q, p) = -compareIdentifiers(p, q)
               /\ compareIdentifiers(p, q) = 0 <=> p = q
    <2>1. ~Agree(q, p) /\ p # q
      BY <1>3 DEF Agree, PartAt
    <2>2. PICK j \in Nat : PartAt(q, p, j) /\ compareIdentifiers(q, p) = comparePart(q[j], p[j])
      BY <2>1, PartOrAgree
    <2>3. i = j
      <3>1. ~(i < j) /\ ~(j < i)
        BY <1>3, <2>2 DEF PartAt
      <3> QED BY <3>1
    <2>4. p[i] \in Ids /\ q[i] \in Ids /\ p[i] # q[i]
      BY <1>1, <1>3 DEF PartAt
    <2> QED BY <1>3, <2>1, <2>2, <2>3, <2>4, PartsAreOrdered
  <1> QED BY <1>2, <1>3, PartOrAgree

LEMMA PrereleasesAreTransitive ==
    ASSUME NEW p \in Seq(Ids), NEW q \in Seq(Ids), NEW r \in Seq(Ids),
           compareIdentifiers(p, q) > 0, compareIdentifiers(q, r) > 0
    PROVE  compareIdentifiers(p, r) > 0
  <1>1. /\ Len(p) \in Nat /\ Len(q) \in Nat /\ Len(r) \in Nat
        /\ \A i \in 1..Len(p) : p[i] \in Ids
        /\ \A i \in 1..Len(q) : q[i] \in Ids
        /\ \A i \in 1..Len(r) : r[i] \in Ids
    OBVIOUS
  \* Where two sequences part, or that the longer one goes on, is all that counts.
  <1>2. ASSUME NEW i \in Nat, PartAt(p, r, i), comparePart(p[i], r[i]) > 0 PROVE compareIdentifiers(p, r) > 0
    <2>1. ~Agree(p, r)
      BY <1>2 DEF Agree, PartAt
    <2>2. PICK j \in Nat : PartAt(p, r, j) /\ compareIdentifiers(p, r) = comparePart(p[j], r[j])
      BY <2>1, PartOrAgree
    <2>3. i = j
      <3>1. ~(i < j) /\ ~(j < i)
        BY <1>2, <2>2 DEF PartAt
      <3> QED BY <3>1
    <2> QED BY <1>2, <2>2, <2>3
  <1>3. ASSUME Agree(p, r), Len(p) > Len(r) PROVE compareIdentifiers(p, r) > 0
    <2>1. ~\E i \in Nat : PartAt(p, r, i)
      BY <1>3 DEF Agree, PartAt
    <2> QED BY <1>1, <1>3, <2>1, PartOrAgree, Signs
  <1>4. \/ Agree(p, q) /\ Len(p) > Len(q)
        \/ \E i \in Nat : PartAt(p, q, i) /\ comparePart(p[i], q[i]) > 0
    BY <1>1, PartOrAgree, Signs
  <1>5. \/ Agree(q, r) /\ Len(q) > Len(r)
        \/ \E i \in Nat : PartAt(q, r, i) /\ comparePart(q[i], r[i]) > 0
    BY <1>1, PartOrAgree, Signs
  <1>6. CASE Agree(p, q) /\ Len(p) > Len(q) /\ Agree(q, r) /\ Len(q) > Len(r)
    <2>1. \A j \in 1..Len(r) : j \in 1..Len(q) /\ j \in 1..Len(p)
      BY <1>1, <1>6
    <2>2. Agree(p, r) /\ Len(p) > Len(r)
      BY <1>1, <1>6, <2>1 DEF Agree
    <2> QED BY <1>3, <2>2
  <1>7. ASSUME Agree(p, q), Len(p) > Len(q), NEW i \in Nat, PartAt(q, r, i), comparePart(q[i], r[i]) > 0
        PROVE  compareIdentifiers(p, r) > 0
    <2>1. \A j \in 1..i : j \in 1..Len(q) /\ j \in 1..Len(p) /\ p[j] = q[j]
      BY <1>1, <1>7 DEF PartAt, Agree
    <2>2. PartAt(p, r, i) /\ p[i] = q[i]
      BY <1>7, <2>1 DEF PartAt
    <2> QED BY <1>2, <1>7, <2>2
  <1>8. ASSUME Agree(q, r), Len(q) > Len(r), NEW i \in Nat, PartAt(p, q, i), comparePart(p[i], q[i]) > 0
        PROVE  compareIdentifiers(p, r) > 0
    <2>1. \A j \in 1..Len(r) : j \in 1..Len(q) /\ q[j] = r[j]
      BY <1>1, <1>8 DEF Agree
    <2>2. CASE i \in 1..Len(r)
      <3>1. PartAt(p, r, i) /\ q[i] = r[i]
        BY <1>8, <2>1, <2>2 DEF PartAt
      <3> QED BY <1>2, <1>8, <3>1
    <2>3. CASE i \notin 1..Len(r)
      <3>1. \A j \in 1..Len(r) : j \in 1..(i - 1)
        BY <1>1, <1>8, <2>3 DEF PartAt
      <3>2. Agree(p, r) /\ Len(p) > Len(r)
        BY <1>1, <1>8, <2>1, <2>3, <3>1 DEF PartAt, Agree
      <3> QED BY <1>3, <3>2
    <2> QED BY <2>2, <2>3
  <1>9. ASSUME NEW i \in Nat, PartAt(p, q, i), comparePart(p[i], q[i]) > 0,
               NEW j \in Nat, PartAt(q, r, j), comparePart(q[j], r[j]) > 0
        PROVE  compareIdentifiers(p, r) > 0
    <2>1. CASE i < j
      <3>1. PartAt(p, r, i) /\ q[i] = r[i]
        BY <1>1, <1>9, <2>1 DEF PartAt
      <3> QED BY <1>2, <1>9, <3>1
    <2>2. CASE j < i
      <3>1. PartAt(p, r, j) /\ p[j] = q[j]
        BY <1>1, <1>9, <2>2 DEF PartAt
      <3> QED BY <1>2, <1>9, <3>1
    <2>3. CASE i = j
      <3>1. p[i] \in Ids /\ q[i] \in Ids /\ r[i] \in Ids
        BY <1>1, <1>9, <2>3 DEF PartAt
      <3>2. comparePart(p[i], r[i]) > 0
        BY <1>9, <2>3, <3>1, PartsAreOrdered
      <3>3. p[i] # r[i]
        BY <3>1, <3>2, PartsAreOrdered
      <3>4. PartAt(p, r, i)
        BY <1>9, <2>3, <3>3 DEF PartAt
      <3> QED BY <1>2, <3>2, <3>4
    <2> QED BY <2>1, <2>2, <2>3
  <1> QED BY <1>4, <1>5, <1>6, <1>7, <1>8, <1>9

\* A release is newer than its pre-releases, which are in the order of their
\* identifiers.
LEMMA ReleasesAreNewest ==
    ASSUME NEW p \in Seq(Ids), NEW q \in Seq(Ids)
    PROVE  /\ comparePrerelease(p, q) \in {-1, 0, 1}
           /\ comparePrerelease(q, p) = -comparePrerelease(p, q)
           /\ comparePrerelease(p, q) = 0 <=> p = q
  BY PrereleasesAreOrdered DEF comparePrerelease

LEMMA ReleasesAreTransitive ==
    ASSUME NEW p \in Seq(Ids), NEW q \in Seq(Ids), NEW r \in Seq(Ids),
           comparePrerelease(p, q) > 0, comparePrerelease(q, r) > 0
    PROVE  comparePrerelease(p, r) > 0
  <1>1. q # <<>>
    BY DEF comparePrerelease
  <1>2. r # <<>>
    BY <1>1 DEF comparePrerelease
  <1>3. CASE p = <<>>
    BY <1>2, <1>3 DEF comparePrerelease
  <1>4. CASE p # <<>>
    BY <1>1, <1>2, <1>4, PrereleasesAreTransitive DEF comparePrerelease
  <1> QED BY <1>3, <1>4

LEMMA ParsedAreTotallyOrdered ==
    /\ \A a, b \in SemVers : /\ compareParsed(a, b) \in {-1, 0, 1}
                             /\ compareParsed(b, a) = -compareParsed(a, b)
                             /\ compareParsed(a, b) = 0 <=> a = b
    /\ \A a, b, c \in SemVers : compareParsed(a, b) > 0 /\ compareParsed(b, c) > 0 => compareParsed(a, c) > 0
  <1>1. \A a \in SemVers : a.major \in Nat /\ a.minor \in Nat /\ a.patch \in Nat /\ a.pre \in Seq(Ids)
    BY DEF SemVers
  <1>2. \A a, b \in SemVers : a = b <=> a.major = b.major /\ a.minor = b.minor /\ a.patch = b.patch /\ a.pre = b.pre
    BY DEF SemVers
  <1>3. ASSUME NEW a \in SemVers, NEW b \in SemVers
        PROVE  /\ compareParsed(a, b) \in {-1, 0, 1}
               /\ compareParsed(b, a) = -compareParsed(a, b)
               /\ compareParsed(a, b) = 0 <=> a = b
    <2>1. /\ comparePrerelease(a.pre, b.pre) \in {-1, 0, 1}
          /\ comparePrerelease(b.pre, a.pre) = -comparePrerelease(a.pre, b.pre)
          /\ comparePrerelease(a.pre, b.pre) = 0 <=> a.pre = b.pre
      BY <1>1, ReleasesAreNewest
    <2> QED BY <1>1, <1>2, <2>1, Signs DEF compareParsed
  <1>4. ASSUME NEW a \in SemVers, NEW b \in SemVers, NEW c \in SemVers,
               compareParsed(a, b) > 0, compareParsed(b, c) > 0
        PROVE  compareParsed(a, c) > 0
    <2>1. comparePrerelease(a.pre, b.pre) > 0 /\ comparePrerelease(b.pre, c.pre) > 0
              => comparePrerelease(a.pre, c.pre) > 0
      BY <1>1, ReleasesAreTransitive
    <2>2. \A u, v \in SemVers :
              compareParsed(u, v) > 0 <=> (IF u.major # v.major THEN u.major > v.major
                                           ELSE IF u.minor # v.minor THEN u.minor > v.minor
                                           ELSE IF u.patch # v.patch THEN u.patch > v.patch
                                           ELSE comparePrerelease(u.pre, v.pre) > 0)
      BY <1>1, Signs DEF compareParsed
    <2>3. /\ a.major \in Nat /\ b.major \in Nat /\ c.major \in Nat
          /\ a.minor \in Nat /\ b.minor \in Nat /\ c.minor \in Nat
          /\ a.patch \in Nat /\ b.patch \in Nat /\ c.patch \in Nat
      BY <1>1
    <2>4. IF a.major # b.major THEN a.major > b.major
          ELSE IF a.minor # b.minor THEN a.minor > b.minor
          ELSE IF a.patch # b.patch THEN a.patch > b.patch
          ELSE comparePrerelease(a.pre, b.pre) > 0
      BY <1>4, <2>2
    <2>5. IF b.major # c.major THEN b.major > c.major
          ELSE IF b.minor # c.minor THEN b.minor > c.minor
          ELSE IF b.patch # c.patch THEN b.patch > c.patch
          ELSE comparePrerelease(b.pre, c.pre) > 0
      BY <1>4, <2>2
    <2>6. IF a.major # c.major THEN a.major > c.major
          ELSE IF a.minor # c.minor THEN a.minor > c.minor
          ELSE IF a.patch # c.patch THEN a.patch > c.patch
          ELSE comparePrerelease(a.pre, c.pre) > 0
      BY <2>1, <2>3, <2>4, <2>5
    <2> QED BY <2>2, <2>6
  <1> QED BY <1>3, <1>4

\* compareSemVer is a total order of the versions that parse: it tells any two of
\* them apart, the other way round it says the opposite, and it is transitive.
\* One that does not parse compares as equal to every other (semver.ts).
THEOREM VersionsAreTotallyOrdered ==
    /\ \A a, b \in AllVersions : /\ compareSemVer(a, b) \in {-1, 0, 1}
                                 /\ compareSemVer(b, a) = -compareSemVer(a, b)
    /\ \A a, b \in SemVers : compareSemVer(a, b) = 0 <=> a = b
    /\ \A a, b, c \in SemVers : compareSemVer(a, b) > 0 /\ compareSemVer(b, c) > 0 => compareSemVer(a, c) > 0
    /\ \A a \in AllVersions : compareSemVer(a, Unparsable) = 0 /\ compareSemVer(Unparsable, a) = 0
  <1>1. \A a, b \in SemVers : compareSemVer(a, b) = compareParsed(a, b)
    BY SemVersParse DEF compareSemVer
  <1>2. \A a : compareSemVer(a, Unparsable) = 0 /\ compareSemVer(Unparsable, a) = 0
    BY SemVersParse DEF compareSemVer
  <1>3. ASSUME NEW a \in AllVersions, NEW b \in AllVersions
        PROVE  compareSemVer(a, b) \in {-1, 0, 1} /\ compareSemVer(b, a) = -compareSemVer(a, b)
    <2>1. CASE a \in SemVers /\ b \in SemVers
      BY <1>1, <2>1, ParsedAreTotallyOrdered
    <2>2. CASE a = Unparsable \/ b = Unparsable
      <3>1. compareSemVer(a, b) = 0 /\ compareSemVer(b, a) = 0
        BY <1>2, <2>2
      <3>2. -0 = 0
        <4>1. 0 + (-0) = 0 /\ -0 \in Int
          OBVIOUS
        <4>2. \A x \in Int : 0 + x = x
          OBVIOUS
        <4> QED BY <4>1, <4>2
      <3>3. 0 \in {-1, 0, 1}
        OBVIOUS
      <3> QED BY <3>1, <3>2, <3>3
    <2> QED BY <2>1, <2>2 DEF AllVersions
  <1>4. \A a, b \in SemVers : compareSemVer(a, b) = 0 <=> a = b
    BY <1>1, ParsedAreTotallyOrdered
  <1>5. \A a, b, c \in SemVers : compareSemVer(a, b) > 0 /\ compareSemVer(b, c) > 0 => compareSemVer(a, c) > 0
    BY <1>1, ParsedAreTotallyOrdered
  <1> QED BY <1>2, <1>3, <1>4, <1>5

\* A set of positions has a last one, and Max is it.
LEMMA MaxIsLast ==
    ASSUME NEW n \in Nat, NEW S \in SUBSET (1..n), S # {}
    PROVE  Max(S) \in S /\ \A i \in S : i <= Max(S)
  <1> DEFINE D == {d \in 0..n : n - d \in S}
  <1>0. \A i \in S : i \in Nat /\ n - i \in 0..n /\ n - (n - i) = i
    OBVIOUS
  <1>1. D \in SUBSET Nat /\ D # {}
    <2>1. PICK i \in S : TRUE
      OBVIOUS
    <2>2. n - i \in D
      BY <1>0
    <2>3. D \in SUBSET Nat
      OBVIOUS
    <2> QED BY <2>2, <2>3
  <1>2. PICK d \in D : \A e \in D : d <= e
    <2> HIDE DEF D
    <2> QED BY <1>1, LeastIndex
  <1>3. PICK m \in S : d = n - m
    <2>1. n - d \in S /\ d \in Nat
      BY <1>2
    <2> QED BY <2>1
  <1>4. \A i \in S : m >= i
    <2> SUFFICES ASSUME NEW i \in S PROVE m >= i
      OBVIOUS
    <2>1. n - i \in D
      BY <1>0
    <2>2. n - m <= n - i
      BY <1>2, <1>3, <2>1
    <2> QED BY <1>0, <2>2
  <1>5. Max(S) \in S /\ \A i \in S : Max(S) >= i
    BY <1>3, <1>4 DEF Max
  <1> QED BY <1>5

\* What a fold of newer over the first n versions is, position by position.
IsFold(f, vs, n) ==
    f = [S \in SUBSET (1..n) |-> IF S = {} THEN vs[1] ELSE newer(f[S \ {Max(S)}], vs[Max(S)])]

LEMMA FoldExists ==
    ASSUME NEW vs, NEW n \in Nat
    PROVE  \E f : IsFold(f, vs, n)
  <1> DEFINE Bad == {m \in Nat : ~\E f : IsFold(f, vs, m)}
  <1>1. SUFFICES Bad = {}
    OBVIOUS
  <1>2. SUFFICES ASSUME Bad # {} PROVE FALSE
    OBVIOUS
  <1>3. PICK m \in Bad : \A k \in Bad : m <= k
    <2>1. Bad \in SUBSET Nat
      OBVIOUS
    <2> HIDE DEF Bad
    <2> QED BY <1>2, <2>1, LeastIndex
  <1>4. CASE m = 0
    <2> DEFINE f == [S \in SUBSET (1..0) |-> vs[1]]
    <2>1. \A S \in SUBSET (1..0) : S = {}
      OBVIOUS
    <2>2. IsFold(f, vs, 0)
      BY <2>1 DEF IsFold
    <2> HIDE DEF f
    <2> QED BY <1>3, <1>4, <2>2
  <1>5. CASE m # 0
    <2>1. m - 1 \in Nat /\ m - 1 \notin Bad /\ m \in Nat
      BY <1>3, <1>5
    <2>2. PICK g : IsFold(g, vs, m - 1)
      BY <2>1
    <2> DEFINE f == [S \in SUBSET (1..m) |-> IF m \in S THEN newer(g[S \ {m}], vs[m]) ELSE g[S]]
    <2>3. ASSUME NEW S \in SUBSET (1..m)
          PROVE  f[S] = IF S = {} THEN vs[1] ELSE newer(f[S \ {Max(S)}], vs[Max(S)])
      <3>1. \A T \in SUBSET (1..(m - 1)) : g[T] = IF T = {} THEN vs[1] ELSE newer(g[T \ {Max(T)}], vs[Max(T)])
        BY <2>2 DEF IsFold
      <3>2. \A T \in SUBSET (1..m) : m \notin T => T \in SUBSET (1..(m - 1)) /\ f[T] = g[T]
        BY <2>1
      <3>3. CASE m \in S
        <4>1. Max(S) = m
          <5>1. m \in Nat /\ S \in SUBSET (1..m) /\ S # {}
            BY <2>1, <3>3
          <5> HIDE DEF f
          <5>2. Max(S) \in S /\ \A i \in S : i <= Max(S)
            BY <5>1, MaxIsLast
          <5>3. Max(S) \in 1..m /\ m <= Max(S)
            BY <3>3, <5>1, <5>2
          <5> QED BY <5>1, <5>3
        <4>2. S \ {m} \in SUBSET (1..m) /\ m \notin S \ {m}
          OBVIOUS
        <4> QED BY <3>2, <3>3, <4>1, <4>2
      <3>4. CASE m \notin S
        <4>1. S \ {Max(S)} \in SUBSET (1..m) /\ m \notin S \ {Max(S)}
          BY <3>4
        <4> HIDE DEF f
        <4> QED BY <3>1, <3>2, <3>4, <4>1
      <3> QED BY <3>3, <3>4
    <2>4. IsFold(f, vs, m)
      <3>1. f = [S \in SUBSET (1..m) |-> f[S]]
        OBVIOUS
      <3> HIDE DEF f
      <3> QED BY <2>3, <3>1 DEF IsFold
    <2> HIDE DEF f
    <2> QED BY <1>3, <2>4
  <1> QED BY <1>4, <1>5

\* latestVersion of a list of any length whose first version parses is one that
\* parses, and no version of the list is newer. If the first one does not parse,
\* it is the answer whatever follows (semver.ts).
THEOREM LatestIsGreatest ==
    ASSUME NEW vs \in Seq(AllVersions), vs # <<>>
    PROVE  /\ \E i \in 1..Len(vs) : latestVersion(vs) = vs[i]
           /\ vs[1] = Unparsable => latestVersion(vs) = Unparsable
           /\ vs[1] \in SemVers =>
                 /\ latestVersion(vs) \in SemVers
                 /\ \A i \in 1..Len(vs) : compareSemVer(latestVersion(vs), vs[i]) >= 0
  <1> DEFINE n == Len(vs)
             f == CHOOSE g : IsFold(g, vs, n)
  <1>1. n \in Nat \ {0} /\ DOMAIN vs = 1..n /\ \A i \in 1..n : vs[i] \in AllVersions
    OBVIOUS
  <1>2. IsFold(f, vs, n)
    BY <1>1, FoldExists
  <1>3. latestVersion(vs) = f[1..n]
    BY <1>1 DEF latestVersion, FoldLeft, MapThenFoldSet, IsFold
  <1> HIDE DEF f, n
  <1>4. \A S \in SUBSET (1..n) : f[S] = IF S = {} THEN vs[1] ELSE newer(f[S \ {Max(S)}], vs[Max(S)])
    BY <1>2 DEF IsFold
  <1> DEFINE Holds(x, m) == /\ \E i \in 1..n : x = vs[i]
                            /\ vs[1] = Unparsable => x = Unparsable
                            /\ vs[1] \in SemVers =>
                                  x \in SemVers /\ \A i \in 1..m : compareSemVer(x, vs[i]) >= 0
             Bad == {m \in 1..n : ~Holds(f[1..m], m)}
  <1>5. ASSUME NEW m \in Bad, \A k \in Bad : m <= k PROVE FALSE
    <2>0. m \in 1..n /\ ~Holds(f[1..m], m)
      OBVIOUS
    <2> HIDE DEF Holds, Bad
    <2>1. m \in 1..n /\ 1..m \in SUBSET (1..n) /\ 1..m # {} /\ m \in Nat
      <3>1. n \in Nat /\ m \in 1..n /\ m \in Nat
        BY <1>1, <2>0
      <3>2. \A x \in 1..m : x \in 1..n
        BY <3>1
      <3>3. 1 \in 1..m
        BY <3>1
      <3> QED BY <3>1, <3>2, <3>3
    <2>2. Max(1..m) = m
      <3>1. Max(1..m) \in 1..m /\ \A i \in 1..m : i <= Max(1..m)
        BY <2>1, MaxIsLast
      <3> QED BY <2>1, <3>1
    <2>3. (1..m) \ {m} = 1..(m - 1)
      BY <2>1
    <2> DEFINE best == f[1..(m - 1)]  v == vs[m]
    <2>4. f[1..m] = newer(best, v)
      BY <1>4, <2>1, <2>2, <2>3
    <2>5. Holds(best, m - 1)
      <3>1. CASE m = 1
        <4>1. 1..(m - 1) = {} /\ {} \in SUBSET (1..n)
          BY <3>1
        <4>2. f[{}] = vs[1]
          BY <1>4, <4>1
        <4> QED BY <2>1, <3>1, <4>1, <4>2 DEF Holds
      <3>2. CASE m # 1
        <4>1. m - 1 \in 1..n /\ m - 1 \notin Bad
          BY <1>5, <2>1, <3>2
        <4> QED BY <4>1 DEF Bad
      <3> QED BY <3>1, <3>2
    <2>6. best \in AllVersions /\ v \in AllVersions /\ \A i \in 1..m : vs[i] \in AllVersions
      BY <1>1, <2>1, <2>5 DEF Holds
    <2>7. \A i \in 1..m : i = m \/ i \in 1..(m - 1)
      BY <2>1
    <2>8. m \in 1..n /\ v = vs[m]
      BY <2>1
    <2> HIDE DEF best, v
    <2>9. CASE vs[1] = Unparsable
      <3>1. best = Unparsable
        BY <2>5, <2>9 DEF Holds
      <3>2. ~(compareSemVer(v, best) > 0)
        BY <2>6, <3>1, VersionsAreTotallyOrdered
      <3>3. f[1..m] = best
        BY <2>4, <3>2 DEF newer
      <3> QED BY <2>0, <2>5, <2>9, <3>1, <3>3, SemVersParse DEF Holds
    <2>10. CASE vs[1] \in SemVers
      <3>1. best \in SemVers /\ \A i \in 1..(m - 1) : compareSemVer(best, vs[i]) >= 0
        BY <2>5, <2>10 DEF Holds
      <3>2. CASE compareSemVer(v, best) > 0
        <4>1. f[1..m] = v
          BY <2>4, <3>2 DEF newer
        <4>2. v \in SemVers
          <5>1. v # Unparsable
            <6>1. compareSemVer(Unparsable, best) = 0
              BY <2>6, VersionsAreTotallyOrdered
            <6> QED BY <3>2, <6>1
          <5> QED BY <2>6, <5>1 DEF AllVersions
        <4>3. ASSUME NEW i \in 1..m PROVE compareSemVer(v, vs[i]) >= 0
          <5>1. vs[i] \in AllVersions
            BY <2>6
          <5>2. CASE i = m
            <6>1. compareSemVer(v, v) = 0
              BY <4>2, VersionsAreTotallyOrdered
            <6> QED BY <2>8, <5>2, <6>1
          <5>3. CASE vs[i] = Unparsable
            <6>1. compareSemVer(v, Unparsable) = 0
              BY <2>6, VersionsAreTotallyOrdered
            <6> QED BY <5>3, <6>1
          <5>4. CASE i \in 1..(m - 1) /\ vs[i] \in SemVers
            <6>1. compareSemVer(best, vs[i]) >= 0
              BY <3>1, <5>4
            <6>2. compareSemVer(best, vs[i]) \in {-1, 0, 1} /\ (compareSemVer(best, vs[i]) = 0 <=> best = vs[i])
              BY <2>6, <3>1, <5>1, <5>4, VersionsAreTotallyOrdered
            <6>3. CASE best = vs[i]
              <7>1. compareSemVer(v, vs[i]) > 0 /\ compareSemVer(v, vs[i]) \in {-1, 0, 1}
                BY <2>6, <3>2, <5>1, <6>3, VersionsAreTotallyOrdered
              <7> QED BY <7>1
            <6>4. CASE best # vs[i]
              <7>1. compareSemVer(best, vs[i]) > 0
                BY <6>1, <6>2, <6>4
              <7>2. compareSemVer(v, vs[i]) > 0
                BY <3>1, <3>2, <4>2, <5>4, <7>1, VersionsAreTotallyOrdered
              <7>3. compareSemVer(v, vs[i]) \in {-1, 0, 1}
                BY <2>6, <5>1, VersionsAreTotallyOrdered
              <7> QED BY <7>2, <7>3
            <6> QED BY <6>3, <6>4
          <5> QED BY <2>7, <5>1, <5>2, <5>3, <5>4 DEF AllVersions
        <4>4. \E i \in 1..n : f[1..m] = vs[i]
          BY <2>8, <4>1
        <4> QED BY <2>0, <2>10, <4>1, <4>2, <4>3, <4>4, SemVersParse DEF Holds
      <3>3. CASE ~(compareSemVer(v, best) > 0)
        <4>1. f[1..m] = best
          BY <2>4, <3>3 DEF newer
        <4>2. compareSemVer(best, v) >= 0
          <5>1. compareSemVer(v, best) \in {-1, 0, 1} /\ compareSemVer(best, v) = -compareSemVer(v, best)
            BY <2>6, VersionsAreTotallyOrdered
          <5> QED BY <3>3, <5>1
        <4>3. \A i \in 1..m : compareSemVer(best, vs[i]) >= 0
          BY <2>7, <2>8, <3>1, <4>2
        <4>4. \E i \in 1..n : f[1..m] = vs[i]
          BY <2>5, <4>1 DEF Holds
        <4> QED BY <2>0, <2>10, <3>1, <4>1, <4>3, <4>4, SemVersParse DEF Holds
      <3> QED BY <3>2, <3>3
    <2>11. vs[1] \in AllVersions
      <3>1. 1 \in 1..n
        BY <1>1
      <3> QED BY <1>1, <3>1
    <2> QED BY <2>9, <2>10, <2>11 DEF AllVersions
  <1>6. Bad = {}
    <2>1. Bad \in SUBSET Nat
      BY <1>1
    <2> HIDE DEF Bad
    <2> QED BY <1>5, <2>1, LeastIndex
  <1>7. Holds(f[1..n], n)
    <2> HIDE DEF Holds
    <2> QED BY <1>1, <1>6
  <1> QED BY <1>3, <1>7 DEF n

\* The latest of some versions does not depend on the order they come in, nor on
\* how often one of them comes, nor on what comes among them that does not parse,
\* unless that comes first.
THEOREM LatestIgnoresOrder ==
    ASSUME NEW vs \in Seq(AllVersions), vs # <<>>, vs[1] # Unparsable,
           NEW ws \in Seq(AllVersions), ws # <<>>, ws[1] # Unparsable,
           \A x \in SemVers : (\E i \in 1..Len(vs) : vs[i] = x) <=> \E j \in 1..Len(ws) : ws[j] = x
    PROVE  latestVersion(vs) = latestVersion(ws)
  <1> DEFINE x == latestVersion(vs)
             y == latestVersion(ws)
  <1>1. vs[1] \in SemVers /\ ws[1] \in SemVers
    <2>1. 1 \in 1..Len(vs) /\ 1 \in 1..Len(ws)
      OBVIOUS
    <2>2. vs[1] \in AllVersions /\ ws[1] \in AllVersions
      BY <2>1
    <2> QED BY <2>2 DEF AllVersions
  <1>2. /\ x \in SemVers /\ \E i \in 1..Len(vs) : x = vs[i]
        /\ \A i \in 1..Len(vs) : compareSemVer(x, vs[i]) >= 0
    BY <1>1, LatestIsGreatest
  <1>3. /\ y \in SemVers /\ \E j \in 1..Len(ws) : y = ws[j]
        /\ \A j \in 1..Len(ws) : compareSemVer(y, ws[j]) >= 0
    BY <1>1, LatestIsGreatest
  <1> HIDE DEF x, y
  <1>4. compareSemVer(x, y) >= 0 /\ compareSemVer(y, x) >= 0
    BY <1>2, <1>3
  <1>5. /\ compareSemVer(x, y) \in {-1, 0, 1} /\ compareSemVer(y, x) = -compareSemVer(x, y)
        /\ compareSemVer(x, y) = 0 <=> x = y
    BY <1>2, <1>3, VersionsAreTotallyOrdered DEF AllVersions
  <1>6. x = y
    BY <1>4, <1>5
  <1> QED BY <1>6 DEF x, y

\* A release is newer than its pre-releases (compareSemVer).
LEMMA ReleaseIsNewer ==
    ASSUME NEW a \in SemVers
    PROVE  [a EXCEPT !.pre = <<>>] # a => compareSemVer(a, [a EXCEPT !.pre = <<>>]) < 0
  <1> DEFINE r == [a EXCEPT !.pre = <<>>]
  <1>1. r.major = a.major /\ r.minor = a.minor /\ r.patch = a.patch /\ r.pre = <<>> /\ r \in SemVers
    <2>1. <<>> \in Seq(Ids)
      OBVIOUS
    <2> QED BY <2>1 DEF SemVers
  <1>2. a.pre = <<>> => r = a
    BY DEF SemVers
  <1> HIDE DEF r
  <1>3. compareSemVer(a, r) = compareParsed(a, r)
    BY <1>1, SemVersParse DEF compareSemVer
  <1>4. r # a => compareParsed(a, r) = -1
    BY <1>1, <1>2 DEF compareParsed, comparePrerelease
  <1> QED BY <1>3, <1>4 DEF r

\* A caret range lies above its base and within its major version
\* (satisfiesRange); a base that does not parse has none.
LEMMA RangesRespectOrder ==
    ASSUME NEW a \in AllVersions, NEW b \in AllVersions
    PROVE  /\ satisfiesRange(a, "^", b) => satisfiesRange(a, ">=", b) /\ a.major = b.major
           /\ satisfiesRange(a, "^", b) /\ satisfiesRange(b, "^", a) => a = b
           /\ parses(a) /\ ~parses(b) =>
                 {op \in {">=", "^", "~", "="} : satisfiesRange(a, op, b)} = {">=", "="}
  <1>1. satisfiesRange(a, "^", b) =>
            /\ parses(a) /\ parses(b) /\ compareSemVer(a, b) >= 0 /\ a.major = b.major
    BY DEF satisfiesRange, isCompatible
  <1>2. satisfiesRange(b, "^", a) => compareSemVer(b, a) >= 0
    BY DEF satisfiesRange
  <1>3. satisfiesRange(a, ">=", b) <=> parses(a) /\ compareSemVer(a, b) >= 0
    BY DEF satisfiesRange
  <1>4. compareSemVer(a, b) \in {-1, 0, 1} /\ compareSemVer(b, a) = -compareSemVer(a, b)
    BY VersionsAreTotallyOrdered
  <1>5. ASSUME satisfiesRange(a, "^", b), satisfiesRange(b, "^", a) PROVE a = b
    <2>1. a \in SemVers /\ b \in SemVers
      BY <1>1, <1>5, SemVersParse
    <2>2. compareSemVer(a, b) = 0
      BY <1>1, <1>2, <1>4, <1>5
    <2> QED BY <2>1, <2>2, VersionsAreTotallyOrdered
  <1>6. ASSUME parses(a), ~parses(b)
        PROVE  {op \in {">=", "^", "~", "="} : satisfiesRange(a, op, b)} = {">=", "="}
    <2>1. compareSemVer(a, b) = 0
      BY <1>6 DEF compareSemVer
    <2>2. ~satisfiesRange(a, "^", b) /\ ~satisfiesRange(a, "~", b)
      BY <1>6 DEF satisfiesRange, isCompatible
    <2>3. satisfiesRange(a, ">=", b) /\ satisfiesRange(a, "=", b)
      BY <1>6, <2>1 DEF satisfiesRange
    <2> QED BY <2>2, <2>3
  <1> QED BY <1>1, <1>3, <1>5, <1>6

\* What VersionsAreOrdered says holds of any two versions (semver.ts).
THEOREM VersionsAreOrderedHolds == versions \in AllVersions \X AllVersions => VersionsAreOrdered
  <1> SUFFICES ASSUME versions \in AllVersions \X AllVersions PROVE VersionsAreOrdered
    OBVIOUS
  <1> DEFINE a == versions[1]
             b == versions[2]
             Others == {[a EXCEPT !.pre = <<>>], [b EXCEPT !.pre = <<>>], [a EXCEPT !.minor = b.minor]}
  <1>1. a \in AllVersions /\ b \in AllVersions
    OBVIOUS
  <1> HIDE DEF a, b
  <1>2. compareSemVer(a, b) = -compareSemVer(b, a)
    <2>1. compareSemVer(b, a) = -compareSemVer(a, b) /\ compareSemVer(a, b) \in {-1, 0, 1}
      BY <1>1, VersionsAreTotallyOrdered
    <2> QED BY <2>1
  <1>3. /\ satisfiesRange(a, "^", b) => satisfiesRange(a, ">=", b) /\ a.major = b.major
        /\ satisfiesRange(a, "^", b) /\ satisfiesRange(b, "^", a) => a = b
        /\ parses(a) /\ ~parses(b) =>
              {op \in {">=", "^", "~", "="} : satisfiesRange(a, op, b)} = {">=", "="}
    BY <1>1, RangesRespectOrder
  <1>4. ASSUME ~parses(a) PROVE latestVersion(<<a, b>>) = a
    <2> DEFINE vs == <<a, b>>
    <2>1. vs \in Seq(AllVersions) /\ vs # <<>> /\ vs[1] = a
      BY <1>1
    <2>2. a = Unparsable
      BY <1>4 DEF parses
    <2> HIDE DEF vs
    <2>3. latestVersion(vs) = Unparsable
      BY <2>1, <2>2, LatestIsGreatest
    <2> QED BY <2>2, <2>3 DEF vs
  <1>5. ASSUME parses(a), parses(b)
        PROVE  /\ compareSemVer(a, b) = 0 <=> a = b
               /\ [a EXCEPT !.pre = <<>>] # a => compareSemVer(a, [a EXCEPT !.pre = <<>>]) < 0
               /\ \A c \in Others :
                     /\ compareSemVer(a, b) > 0 /\ compareSemVer(b, c) > 0 => compareSemVer(a, c) > 0
                     /\ latestVersion(<<a, b, c>>) = latestVersion(<<c, b, a>>)
               /\ latestVersion(<<a, Unparsable, b>>) = latestVersion(<<a, b>>)
    <2>1. a \in SemVers /\ b \in SemVers
      BY <1>1, <1>5, SemVersParse
    <2>2. \A c \in Others : c \in SemVers
      <3>1. \A v \in SemVers, q \in Seq(Ids) : [v EXCEPT !.pre = q] \in SemVers
        BY DEF SemVers
      <3>2. <<>> \in Seq(Ids)
        OBVIOUS
      <3>3. [a EXCEPT !.pre = <<>>] \in SemVers /\ [b EXCEPT !.pre = <<>>] \in SemVers
        BY <2>1, <3>1, <3>2
      <3>4. b.minor \in Nat
        BY <2>1 DEF SemVers
      <3>5. [a EXCEPT !.minor = b.minor] \in SemVers
        BY <2>1, <3>4 DEF SemVers
      <3> QED BY <3>3, <3>5
    <2> HIDE DEF Others
    <2>3. compareSemVer(a, b) = 0 <=> a = b
      BY <2>1, VersionsAreTotallyOrdered
    <2>4. [a EXCEPT !.pre = <<>>] # a => compareSemVer(a, [a EXCEPT !.pre = <<>>]) < 0
      BY <2>1, ReleaseIsNewer
    <2>5. ASSUME NEW c \in Others
          PROVE  /\ compareSemVer(a, b) > 0 /\ compareSemVer(b, c) > 0 => compareSemVer(a, c) > 0
                 /\ latestVersion(<<a, b, c>>) = latestVersion(<<c, b, a>>)
      <3>1. c \in SemVers
        BY <2>2
      <3>2. compareSemVer(a, b) > 0 /\ compareSemVer(b, c) > 0 => compareSemVer(a, c) > 0
        BY <2>1, <3>1, VersionsAreTotallyOrdered
      <3>3. a # Unparsable /\ c # Unparsable
        BY <2>1, <3>1, SemVersParse
      <3> DEFINE vs == <<a, b, c>>
                 ws == <<c, b, a>>
      <3>4. /\ vs \in Seq(AllVersions) /\ ws \in Seq(AllVersions) /\ vs # <<>> /\ ws # <<>>
            /\ Len(vs) = 3 /\ Len(ws) = 3
        BY <2>1, <3>1 DEF AllVersions
      <3>5. vs[1] = a /\ vs[2] = b /\ vs[3] = c /\ ws[1] = c /\ ws[2] = b /\ ws[3] = a
        OBVIOUS
      <3> HIDE DEF vs, ws
      <3>6. \A x \in SemVers : (\E i \in 1..Len(vs) : vs[i] = x) <=> \E j \in 1..Len(ws) : ws[j] = x
        <4>1. \A i \in 1..3 : i = 1 \/ i = 2 \/ i = 3
          OBVIOUS
        <4>2. \A x : (\E i \in 1..Len(vs) : vs[i] = x) <=> x = a \/ x = b \/ x = c
          BY <3>4, <3>5, <4>1
        <4>3. \A x : (\E j \in 1..Len(ws) : ws[j] = x) <=> x = a \/ x = b \/ x = c
          BY <3>4, <3>5, <4>1
        <4> QED BY <4>2, <4>3
      <3>7. latestVersion(vs) = latestVersion(ws)
        BY <3>3, <3>4, <3>5, <3>6, LatestIgnoresOrder
      <3> QED BY <3>2, <3>7 DEF vs, ws
    <2>6. latestVersion(<<a, Unparsable, b>>) = latestVersion(<<a, b>>)
      <3> DEFINE vs == <<a, Unparsable, b>>
                 ws == <<a, b>>
      <3>1. a # Unparsable
        BY <2>1, SemVersParse
      <3>2. /\ vs \in Seq(AllVersions) /\ ws \in Seq(AllVersions) /\ vs # <<>> /\ ws # <<>>
            /\ Len(vs) = 3 /\ Len(ws) = 2
        BY <1>1 DEF AllVersions
      <3>3. vs[1] = a /\ vs[2] = Unparsable /\ vs[3] = b /\ ws[1] = a /\ ws[2] = b
        OBVIOUS
      <3> HIDE DEF vs, ws
      <3>4. \A x \in SemVers : (\E i \in 1..Len(vs) : vs[i] = x) <=> \E j \in 1..Len(ws) : ws[j] = x
        <4>1. (\A i \in 1..3 : i = 1 \/ i = 2 \/ i = 3) /\ \A j \in 1..2 : j = 1 \/ j = 2
          OBVIOUS
        <4>2. \A x : (\E i \in 1..Len(vs) : vs[i] = x) <=> x = a \/ x = b \/ x = Unparsable
          BY <3>2, <3>3, <4>1
        <4>3. \A x : (\E j \in 1..Len(ws) : ws[j] = x) <=> x = a \/ x = b
          BY <3>2, <3>3, <4>1
        <4> QED BY <4>2, <4>3, SemVersParse
      <3>5. latestVersion(vs) = latestVersion(ws)
        BY <3>1, <3>2, <3>3, <3>4, LatestIgnoresOrder
      <3> QED BY <3>5 DEF vs, ws
    <2> QED BY <2>3, <2>4, <2>5, <2>6
  <1> QED BY <1>2, <1>3, <1>4, <1>5 DEF VersionsAreOrdered, a, b, Others

\* The versions under inspection are versions.
VersionsIInv == versions \in AnyVersions \X AnyVersions

LEMMA VersionsInitIInv == versions = <<ZeroRelease, ZeroRelease>> => VersionsIInv
  BY SkillsAssumption DEF VersionsIInv, ZeroRelease, AnyVersions, Versions

LEMMA VersionsStep == VersionsIInv /\ [PickVersions]_versions => VersionsIInv'
  BY DEF PickVersions, VersionsIInv

LEMMA VersionsGuarantees == VersionsIInv => VersionsAreOrdered
  <1>1. ASSUME NEW v \in Versions PROVE v \in SemVers
    <2>1. Identifiers \subseteq Ids
      BY SkillsAssumption DEF Identifiers, Ids
    <2>2. v.pre \in Seq(Ids)
      <3>1. v.pre = <<>> \/ (\E i \in Identifiers : v.pre = <<i>>) \/ \E i \in Identifiers : v.pre = <<i, i>>
        BY DEF Versions
      <3>2. \A i \in Identifiers : <<i>> \in Seq(Ids) /\ <<i, i>> \in Seq(Ids)
        <4>1. \A i \in Ids : <<i>> \in Seq(Ids) /\ <<i, i>> \in Seq(Ids)
          OBVIOUS
        <4> QED BY <2>1, <4>1
      <3>3. <<>> \in Seq(Ids)
        OBVIOUS
      <3> QED BY <3>1, <3>2, <3>3
    <2> QED BY <2>2, SkillsAssumption DEF Versions, SemVers
  <1>2. VersionsIInv => versions \in AllVersions \X AllVersions
    <2> HIDE DEF Versions
    <2>1. AnyVersions \subseteq AllVersions
      BY <1>1 DEF AnyVersions, AllVersions
    <2> QED BY <2>1 DEF VersionsIInv
  <1> QED BY <1>2, VersionsAreOrderedHolds

-----------------------------------------------------------------------------
(* What counts and clocks stay within: the limits of the code and of the run. *)

\* A timer is armed for a registration only.
MonitorBounds ==
    /\ entry.gen \in 0..MaxRegistrations /\ checks \subseteq 1..MaxRegistrations
    /\ entry.timer => entry.gen > 0

LEMMA MonitorBoundsInit == MonitorInit => MonitorBounds
  BY SkillsAssumption DEF MonitorInit, MonitorBounds, FreshEntry

LEMMA MonitorBoundsStep == MonitorIInv /\ MonitorBounds /\ [MonitorNext]_monitorVars => MonitorBounds'
  <1> SUFFICES ASSUME MonitorIInv, MonitorBounds, [MonitorNext]_monitorVars PROVE MonitorBounds'
    OBVIOUS
  <1> USE SkillsAssumption DEF MonitorBounds
  <1>t. entry \in [gen : Nat, state : {"unknown", "healthy", "unhealthy"}, fails : Nat, oks : Nat, timer : BOOLEAN]
    BY DEF MonitorIInv
  <1>1. CASE RegisterCheck
    <2>1. entry'.gen = entry.gen + 1 /\ checks' = checks
      BY <1>1 DEF RegisterCheck, FreshEntry
    <2>2. entry.gen < MaxRegistrations
      BY <1>1 DEF RegisterCheck
    <2> QED BY <2>1, <2>2
  <1>2. CASE StartMonitor
    <2>1. entry'.gen = entry.gen /\ entry'.timer = (entry.gen > 0) /\ checks' = checks
      BY <1>t, <1>2 DEF StartMonitor
    <2> QED BY <2>1
  <1>3. CASE StopMonitor
    <2>1. entry'.gen = entry.gen /\ entry'.timer = FALSE /\ checks' = checks
      BY <1>t, <1>3 DEF StopMonitor
    <2> QED BY <2>1
  <1>4. CASE RunCheck
    <2>1. entry'.gen = entry.gen /\ entry'.timer = FALSE /\ entry.timer /\ checks' = checks \cup {entry.gen}
      BY <1>t, <1>4 DEF RunCheck
    <2>2. entry.gen \in 1..MaxRegistrations
      BY <2>1
    <2> QED BY <2>1, <2>2
  <1>5. ASSUME NEW gen \in checks, SettleCheck(gen) PROVE MonitorBounds'
    <2>1. checks' = checks \ {gen}
      BY <1>5 DEF SettleCheck
    <2>2. CASE counts(gen)
      <3>1. PICK ok \in BOOLEAN : entry' = [applyResult(entry, ok) EXCEPT !.timer = TRUE]
        BY <1>5, <2>2 DEF SettleCheck
      <3>2. gen = entry.gen
        BY <2>2 DEF counts
      <3> DEFINE e == applyResult(entry, ok)
                 Row == [gen : Nat, state : {"unknown", "healthy", "unhealthy"}, fails : Nat, oks : Nat,
                         timer : BOOLEAN]
      <3>3. e.gen = entry.gen /\ e \in Row
        BY ApplyResult
      <3> HIDE DEF e
      <3>5. entry' = [e EXCEPT !.timer = TRUE]
        BY <3>1 DEF e
      <3>6. entry'.gen = entry.gen
        BY <3>3, <3>5
      <3>7. gen \in 1..MaxRegistrations /\ checks' \subseteq 1..MaxRegistrations
        BY <2>1
      <3>8. entry'.gen \in 1..MaxRegistrations /\ MaxRegistrations \in Nat
        BY <3>2, <3>6, <3>7
      <3>9. entry'.gen \in 0..MaxRegistrations /\ entry'.gen > 0
        BY <3>8
      <3> QED BY <3>7, <3>9
    <2>3. CASE ~counts(gen)
      <3>1. entry' = entry
        BY <1>5, <2>3 DEF SettleCheck
      <3> QED BY <2>1, <3>1
    <2> QED BY <2>2, <2>3
  <1>6. CASE UNCHANGED monitorVars
    BY <1>6 DEF monitorVars
  <1> QED BY <1>1, <1>2, <1>3, <1>4, <1>5, <1>6 DEF MonitorNext

\* The registry never holds more agents than it may, however they register,
\* lapse and are swept.
AgentsFit == IsFiniteSet(Registered) /\ Cardinality(Registered) <= MaxAgents

LEMMA AgentsFitInit == SessionsInit => AgentsFit
  <1> SUFFICES ASSUME SessionsInit PROVE AgentsFit
    OBVIOUS
  <1>1. Registered = {}
    BY DEF SessionsInit, Registered
  <1> QED BY <1>1, FS_EmptySet, SessionsAssumption DEF AgentsFit

LEMMA AgentsFitStep == AgentIInv /\ AgentsFit /\ AgentMoves => AgentsFit'
  <1> SUFFICES ASSUME AgentIInv, AgentsFit, AgentMoves PROVE AgentsFit'
    OBVIOUS
  <1>t. agentTable \in [Agents -> AgentRow]
    BY DEF AgentIInv
  <1>c. Cardinality(Registered) \in Nat /\ MaxAgents \in Nat
    BY FS_CardinalityType, SessionsAssumption DEF AgentsFit
  <1>s. ASSUME Registered' \subseteq Registered PROVE AgentsFit'
    <2>1. IsFiniteSet(Registered') /\ Cardinality(Registered') <= Cardinality(Registered)
      BY <1>s, FS_Subset DEF AgentsFit
    <2>2. Cardinality(Registered') \in Nat
      BY <2>1, FS_CardinalityType
    <2> QED BY <1>c, <2>1, <2>2 DEF AgentsFit
  <1>1. ASSUME NEW a \in Agents, NEW type \in AgentTypes, RegisterAgent(a, type) PROVE AgentsFit'
    <2>1. Registered' \subseteq Registered \cup {a}
      BY <1>t, <1>1 DEF RegisterAgent, registered, Registered
    <2>2. CASE a \in Registered
      BY <1>s, <2>1, <2>2
    <2>3. CASE a \notin Registered
      <3>1. Cardinality(Registered) < MaxAgents
        <4>1. agentTable[a] = Absent /\ type # "none"
          BY <2>3, SessionsAssumption DEF Registered
        <4> QED BY <1>1, <4>1 DEF RegisterAgent, Absent
      <3>2. /\ IsFiniteSet(Registered \cup {a})
            /\ Cardinality(Registered \cup {a}) = Cardinality(Registered) + 1
        BY <2>3, FS_AddElement DEF AgentsFit
      <3>3. /\ IsFiniteSet(Registered')
            /\ Cardinality(Registered') <= Cardinality(Registered \cup {a})
        BY <2>1, <3>2, FS_Subset
      <3>4. Cardinality(Registered') \in Nat
        BY <3>3, FS_CardinalityType
      <3> QED BY <1>c, <3>1, <3>2, <3>3, <3>4 DEF AgentsFit
    <2> QED BY <2>2, <2>3
  <1>2. ASSUME NEW a \in Agents, HeartbeatAgent(a) PROVE AgentsFit'
    <2>1. agentTable[a] # Absent /\ \A b \in Agents \ {a} : agentTable'[b] = agentTable[b]
      BY <1>t, <1>2 DEF HeartbeatAgent
    <2>2. Registered' \subseteq Registered
      BY <2>1 DEF Registered
    <2> QED BY <1>s, <2>2
  <1>3. ASSUME NEW a \in Agents, UnregisterAgent(a) PROVE AgentsFit'
    <2>1. Registered' \subseteq Registered
      BY <1>t, <1>3 DEF UnregisterAgent, Registered
    <2> QED BY <1>s, <2>1
  <1>4. CASE SweepAgents
    <2>1. Registered' \subseteq Registered
      BY <1>t, <1>4 DEF SweepAgents, Registered
    <2> QED BY <1>s, <2>1
  <1>5. CASE UNCHANGED agentTable
    BY <1>s, <1>5 DEF Registered
  <1>6. \/ \E a \in Agents, type \in AgentTypes : RegisterAgent(a, type)
        \/ \E a \in Agents : HeartbeatAgent(a) \/ UnregisterAgent(a)
        \/ SweepAgents \/ UNCHANGED agentTable
    BY DEF AgentMoves, AgentNext, MailChanges, AgentTime
  <1> QED BY <1>1, <1>2, <1>3, <1>4, <1>5, <1>6

\* The watcher's offset and events are lines of the file.
WatchBounds ==
    /\ sessionFile.lines <= MaxLines /\ offset <= MaxLines
    /\ \A k \in 1..Len(eventStore) : eventStore[k] \in 1..MaxLines

LEMMA WatchBoundsInit == SessionsInit => WatchBounds
  BY SessionsAssumption DEF SessionsInit, WatchBounds

LEMMA WatchBoundsStep == WatchIInv /\ WatchBounds /\ [WatchNext]_watchVars => WatchBounds'
  <1> SUFFICES ASSUME WatchIInv, WatchBounds, [WatchNext]_watchVars PROVE WatchBounds'
    OBVIOUS
  <1>t. /\ sessionFile \in [lines : Nat, partial : BOOLEAN] /\ eventStore \in Seq(Nat)
        /\ ticks \in [Ticks -> TickRow] /\ (\A t \in Ticks : TickGood(t)) /\ MaxLines \in Nat
    BY SessionsAssumption DEF WatchIInv
  <1>1. ASSUME NEW t \in Ticks, AppendEvents(t) PROVE WatchBounds'
    <2>1. ticks[t].pc = "append" /\ ticks[t].from \in Nat /\ ticks[t].upto \in Nat
      BY <1>1, <1>t DEF AppendEvents, TickRow
    <2>2. ticks[t].from <= ticks[t].upto /\ ticks[t].upto <= sessionFile.lines
      BY <1>t, <2>1 DEF TickGood
    <2>3. PICK from \in Nat, n \in Nat : from = ticks[t].from /\ n = ticks[t].upto - ticks[t].from
      BY <2>1, <2>2
    <2> DEFINE more == [k \in 1..n |-> from + k]
    <2>4. eventStore' = eventStore \o more /\ UNCHANGED <<sessionFile, offset>>
      <3>1. Cardinality(parsedLines(t)) = n
        BY <1>t, <2>1, <2>2, <2>3, ParsedLinesAreNew
      <3> QED BY <1>1, <2>3, <3>1 DEF AppendEvents
    <2>5. from + n <= MaxLines
      BY <1>t, <2>1, <2>2, <2>3 DEF WatchBounds
    <2>6. more \in Seq(1..MaxLines) /\ Len(more) = n
      <3>1. \A k \in 1..n : from + k \in 1..MaxLines
        BY <1>t, <2>5
      <3> QED BY <3>1
    <2> HIDE DEF more
    <2>7. \A k \in 1..Len(eventStore) : eventStore[k] \in 1..MaxLines
      BY DEF WatchBounds
    <2>8. \A k \in 1..Len(eventStore \o more) : (eventStore \o more)[k] \in 1..MaxLines
      <3>1. eventStore \in Seq(1..MaxLines)
        BY <1>t, <2>7
      <3> DEFINE s == eventStore \o more
      <3>2. s \in Seq(1..MaxLines)
        BY <2>6, <3>1
      <3> HIDE DEF s
      <3>3. \A k \in 1..Len(s) : s[k] \in 1..MaxLines
        BY <3>2, ElementOfSeq
      <3> QED BY <3>3 DEF s
    <2> QED BY <2>4, <2>8 DEF WatchBounds
  <1>2. ASSUME NEW t \in Ticks, WriteState(t) PROVE WatchBounds'
    <2>1. ticks[t].pc = "write" /\ ticks[t].upto \in Nat /\ ticks[t].upto <= sessionFile.lines
      BY <1>2, <1>t DEF WriteState, TickGood, TickRow
    <2>2. offset' = ticks[t].upto /\ UNCHANGED <<sessionFile, eventStore>>
      BY <1>2 DEF WriteState
    <2> QED BY <1>t, <2>1, <2>2 DEF WatchBounds
  <1>3. CASE LineGrows
    <2>1. sessionFile'.lines <= MaxLines /\ UNCHANGED <<offset, eventStore>>
      BY <1>3, <1>t DEF LineGrows, WatchBounds
    <2> QED BY <2>1 DEF WatchBounds
  <1>4. CASE UNCHANGED <<sessionFile, offset, eventStore>>
    BY <1>4 DEF WatchBounds
  <1>5. \/ \E t \in Ticks : AppendEvents(t) \/ WriteState(t)
        \/ LineGrows \/ UNCHANGED <<sessionFile, offset, eventStore>>
    BY DEF WatchNext, CallTick, PriorSettles, ReadTail, WatcherDies, watchVars
  <1> QED BY <1>1, <1>2, <1>3, <1>4, <1>5

\* pow2 is defined by recursion: that there is such a function is shown for the
\* first length it could fail at.
IsPow2(f, n) == f = [k \in 0..n |-> IF k = 0 THEN 1 ELSE 2 * f[k - 1]]

LEMMA Pow2Exists ==
    ASSUME NEW n \in Nat
    PROVE  \E f : IsPow2(f, n)
  <1> DEFINE Bad == {m \in Nat : ~\E f : IsPow2(f, m)}
  <1>1. ASSUME NEW m \in Bad, \A k \in Bad : m <= k PROVE FALSE
    <2>1. m \in Nat /\ ~\E f : IsPow2(f, m)
      OBVIOUS
    <2>2. m # 0 => m - 1 \in Nat /\ m - 1 \notin Bad
      BY <1>1, <2>1
    <2>3. CASE m = 0
      <3> DEFINE f == [k \in 0..0 |-> 1]
      <3>1. f = [k \in 0..0 |-> IF k = 0 THEN 1 ELSE 2 * f[k - 1]]
        OBVIOUS
      <3>2. IsPow2(f, 0)
        BY <3>1 DEF IsPow2
      <3> HIDE DEF f
      <3> QED BY <2>1, <2>3, <3>2
    <2>4. CASE m # 0
      <3>1. PICK g : IsPow2(g, m - 1)
        BY <2>2, <2>4
      <3> DEFINE f == [k \in 0..m |-> IF k = m THEN 2 * g[m - 1] ELSE g[k]]
      <3>2. \A k \in 0..(m - 1) : g[k] = IF k = 0 THEN 1 ELSE 2 * g[k - 1]
        BY <3>1 DEF IsPow2
      <3>3. ASSUME NEW k \in 0..m PROVE f[k] = IF k = 0 THEN 1 ELSE 2 * f[k - 1]
        <4>1. CASE k = m
          BY <2>1, <2>4, <4>1
        <4>2. CASE k # m /\ k # 0
          <5>1. k \in 0..(m - 1) /\ k - 1 \in 0..m /\ k - 1 # m
            BY <2>1, <4>2
          <5>2. f[k] = g[k] /\ f[k - 1] = g[k - 1]
            BY <4>2, <5>1
          <5> HIDE DEF f
          <5> QED BY <3>2, <4>2, <5>1, <5>2
        <4>3. CASE k = 0
          <5>1. 0 \in 0..(m - 1) /\ f[0] = g[0]
            BY <2>1, <2>4, <4>3
          <5> HIDE DEF f
          <5> QED BY <3>2, <4>3, <5>1
        <4> QED BY <4>1, <4>2, <4>3
      <3>4. f = [k \in 0..m |-> f[k]]
        OBVIOUS
      <3> HIDE DEF f
      <3>5. IsPow2(f, m)
        BY <3>3, <3>4 DEF IsPow2
      <3> QED BY <2>1, <3>5
    <2> QED BY <2>3, <2>4
  <1>2. Bad = {}
    <2>1. Bad \in SUBSET Nat
      OBVIOUS
    <2> HIDE DEF Bad
    <2> QED BY <1>1, <2>1, LeastIndex
  <1> QED BY <1>2

LEMMA Pow2IsPositive == \A k \in 0..MaxEmpty : pow2[k] \in Nat \ {0}
  <1>1. IsPow2(pow2, MaxEmpty)
    BY Pow2Exists, SessionsAssumption DEF pow2, IsPow2
  <1>2. \A k \in 0..MaxEmpty : pow2[k] = IF k = 0 THEN 1 ELSE 2 * pow2[k - 1]
    BY <1>1 DEF IsPow2
  <1> DEFINE Bad == {k \in 0..MaxEmpty : pow2[k] \notin Nat \ {0}}
  <1>3. ASSUME NEW k \in Bad, \A j \in Bad : k <= j PROVE FALSE
    <2>1. k \in 0..MaxEmpty /\ pow2[k] \notin Nat \ {0} /\ MaxEmpty \in Nat
      BY SessionsAssumption
    <2>2. k # 0
      BY <1>2, <2>1
    <2>3. k - 1 \in 0..MaxEmpty /\ k - 1 \notin Bad
      BY <1>3, <2>1, <2>2
    <2>4. pow2[k - 1] \in Nat \ {0} /\ pow2[k] = 2 * pow2[k - 1]
      BY <1>2, <2>1, <2>2, <2>3
    <2>5. \A x \in Nat \ {0} : 2 * x \in Nat \ {0}
      OBVIOUS
    <2> QED BY <2>1, <2>4, <2>5
  <1>4. Bad = {}
    <2>1. Bad \in SUBSET Nat
      OBVIOUS
    <2> HIDE DEF Bad
    <2> QED BY <1>3, <2>1, LeastIndex
  <1> QED BY <1>4

\* The interval of the agent's beat stays between its smallest and its largest.
BeatBounds == beat \in [empty : 0..MaxEmpty, last : BeatStart..BeatMax]

LEMMA BeatBoundsInit == SessionsInit => BeatBounds
  BY SessionsAssumption DEF SessionsInit, BeatBounds

LEMMA BeatBoundsStep == BeatBounds /\ [BeatNext]_beat => BeatBounds'
  <1> SUFFICES ASSUME BeatBounds, BeatNext PROVE BeatBounds'
    BY DEF BeatBounds
  <1>1. beat.empty < MaxEmpty /\ beat.empty \in 0..MaxEmpty /\ MaxEmpty \in Nat
    BY SessionsAssumption DEF BeatNext, BeatBounds
  <1>2. PICK had \in BOOLEAN : NextInterval(had)
    BY DEF BeatNext
  <1>3. PICK p \in Nat \ {0} : p = pow2[beat.empty]
    BY <1>1, Pow2IsPositive
  <1>4. BeatStart \in Nat \ {0} /\ BeatMax \in Nat /\ BeatStart <= BeatMax
    BY SessionsAssumption
  <1>5. BeatStart * p \in Nat /\ BeatStart * p >= BeatStart
    <2>1. PICK q \in Nat : p = q + 1
      <3>1. p - 1 \in Nat /\ p = (p - 1) + 1
        OBVIOUS
      <3> QED BY <3>1
    <2>2. BeatStart * p = BeatStart * q + BeatStart /\ BeatStart * q \in Nat
      BY <1>4, <2>1
    <2> QED BY <1>4, <2>2
  <1>6. (IF BeatStart * p < BeatMax THEN BeatStart * p ELSE BeatMax) \in BeatStart..BeatMax
    BY <1>4, <1>5
  <1>7. beat' \in {[empty |-> 0, last |-> BeatStart],
                   [empty |-> beat.empty + 1, last |-> IF BeatStart * p < BeatMax THEN BeatStart * p ELSE BeatMax]}
    BY <1>2, <1>3 DEF NextInterval
  <1>8. beat.empty + 1 \in 0..MaxEmpty /\ 0 \in 0..MaxEmpty /\ BeatStart \in BeatStart..BeatMax
    BY <1>1, <1>4
  <1> QED BY <1>6, <1>7, <1>8 DEF BeatBounds

\* A row of the audit log, and lastHash, are of events that were hashed.
AuditBounds ==
    /\ attempts <= MaxEvents /\ lastHash <= attempts
    /\ auditSynced <= Len(auditRows) /\ Len(auditRows) <= attempts
    /\ \A i \in 1..Len(auditRows) :
           auditRows[i].prev <= attempts /\ auditRows[i].hash >= 1 /\ auditRows[i].hash <= attempts

LEMMA AuditBoundsInit == StoresInit => AuditBounds
  BY StoresAssumption DEF StoresInit, AuditBounds, Genesis

LEMMA AuditBoundsStep == AuditIInv /\ AuditBounds /\ [AuditNext]_auditVars => AuditBounds'
  <1> SUFFICES ASSUME AuditIInv, AuditBounds, [AuditNext]_auditVars PROVE AuditBounds'
    OBVIOUS
  <1>t. /\ auditRows \in Seq(AuditRow) /\ auditSynced \in Nat /\ attempts \in Nat /\ lastHash \in Nat
        /\ Len(auditRows) \in Nat /\ MaxEvents \in Nat
    BY StoresAssumption DEF AuditIInv
  <1>r. \A i \in 1..Len(auditRows) : auditRows[i].prev \in Nat /\ auditRows[i].hash \in Nat
    <2>1. \A i \in 1..Len(auditRows) : auditRows[i] \in AuditRow
      BY <1>t
    <2> QED BY <2>1 DEF AuditRow
  <1> USE DEF AuditBounds
  <1>1. CASE AppendEvent
    <2> DEFINE row == [prev |-> lastHash, hash |-> attempts + 1]
    <2>1. row \in AuditRow /\ row.prev = lastHash /\ row.hash = attempts + 1
      BY <1>t DEF AuditRow
    <2>2. /\ auditRows' = Append(auditRows, row) /\ lastHash' = attempts + 1 /\ attempts < MaxEvents
          /\ attempts' = attempts + 1 /\ auditSynced' = auditSynced
      BY <1>1 DEF AppendEvent
    <2> HIDE DEF row
    <2>3. /\ Len(auditRows') = Len(auditRows) + 1 /\ auditRows'[Len(auditRows) + 1] = row
          /\ \A i \in 1..Len(auditRows) : auditRows'[i] = auditRows[i]
      BY <1>t, <2>1, <2>2
    <2>4. ASSUME NEW i \in 1..Len(auditRows')
          PROVE  /\ auditRows'[i].prev <= attempts' /\ auditRows'[i].hash >= 1
                 /\ auditRows'[i].hash <= attempts'
      <3>1. CASE i = Len(auditRows) + 1
        BY <1>t, <2>1, <2>2, <2>3, <3>1
      <3>2. CASE i \in 1..Len(auditRows)
        <4>1. /\ auditRows[i].prev <= attempts /\ auditRows[i].hash >= 1
              /\ auditRows[i].hash <= attempts /\ auditRows[i].prev \in Nat /\ auditRows[i].hash \in Nat
          BY <1>r, <3>2
        <4> QED BY <1>t, <2>2, <2>3, <3>2, <4>1
      <3> QED BY <1>t, <2>3, <3>1, <3>2
    <2>5. /\ attempts' <= MaxEvents /\ lastHash' <= attempts'
          /\ auditSynced' <= Len(auditRows') /\ Len(auditRows') <= attempts'
      BY <1>t, <2>2, <2>3
    <2> QED BY <2>4, <2>5
  <1>2. CASE AppendThrows
    BY <1>2, <1>t, <1>r DEF AppendThrows
  <1>3. CASE Checkpoint
    BY <1>3, <1>t, <1>r DEF Checkpoint
  <1>4. CASE ReopenAudit
    <2>1. PICK kept \in auditSynced..Len(auditRows) :
              /\ auditRows' = SubSeq(auditRows, 1, kept)
              /\ auditSynced' = kept
              /\ lastHash' = IF kept = 0 THEN Genesis ELSE auditRows[kept].hash
              /\ UNCHANGED attempts
      BY <1>4 DEF ReopenAudit
    <2>2. kept \in 0..Len(auditRows)
      BY <1>t
    <2>3. Len(auditRows') = kept /\ \A i \in 1..kept : auditRows'[i] = auditRows[i]
      BY <1>t, <2>1, <2>2
    <2>4. lastHash' <= attempts
      <3>1. CASE kept = 0
        BY <1>t, <2>1, <3>1 DEF Genesis
      <3>2. CASE kept # 0
        <4>1. kept \in 1..Len(auditRows)
          BY <1>t, <2>2, <3>2
        <4> QED BY <2>1, <3>2, <4>1
      <3> QED BY <3>1, <3>2
    <2>5. \A i \in 1..kept : i \in 1..Len(auditRows)
      BY <1>t, <2>2
    <2> QED BY <1>t, <2>1, <2>2, <2>3, <2>4, <2>5
  <1>5. CASE UNCHANGED auditVars
    BY <1>5 DEF auditVars
  <1> QED BY <1>1, <1>2, <1>3, <1>4, <1>5 DEF AuditNext

\* Every passphrase in use was generated, and no row outlives its lifetime.
Passphrase == 0..MaxPassphrases
VaultKeyRange == Passphrase \cup EnvPassphrases
VaultRow == [key : VaultKeyRange, env : EnvSettings, expires : 0..(MaxVaultTime + VaultTtl)]
VaultBounds ==
    /\ keychain \in Passphrase /\ passFile \in Passphrase /\ generated \in Passphrase
    /\ vaultEnv \in EnvSettings /\ vaultKey \in VaultKeyRange /\ boots \in 0..MaxBoots /\ vaultClock \in 1..MaxVaultTime
    /\ credentials \in [CredentialNames -> VaultRow] /\ tombstones \subseteq CredentialNames

LEMMA VaultBoundsInit == StoresInit => VaultBounds
  <1> SUFFICES ASSUME StoresInit PROVE VaultBounds
    OBVIOUS
  <1>1. 0 \in Passphrase /\ 0 \in EnvSettings /\ 0 \in VaultKeyRange /\ NoRow \in VaultRow
    BY StoresAssumption DEF Passphrase, VaultKeyRange, EnvSettings, VaultRow, NoRow
  <1> QED BY <1>1, StoresAssumption DEF StoresInit, VaultBounds

LEMMA VaultBoundsStep == VaultBounds /\ [VaultNext]_vaultVars => VaultBounds'
  <1> SUFFICES ASSUME VaultBounds, [VaultNext]_vaultVars PROVE VaultBounds'
    OBVIOUS
  <1>n. /\ MaxPassphrases \in Nat /\ MaxBoots \in Nat /\ MaxVaultTime \in Nat /\ VaultTtl \in Nat
        /\ 0 \in Passphrase /\ 0 \in EnvSettings /\ 0 \in VaultKeyRange /\ NoRow \in VaultRow
    BY StoresAssumption DEF Passphrase, VaultKeyRange, EnvSettings, VaultRow, NoRow
  <1> USE DEF VaultBounds
  <1>1. ASSUME NEW k \in Keychain, NEW env \in EnvSettings, BootVault(k, env)
        PROVE  VaultBounds'
    <2>1. generated < MaxPassphrases /\ boots < MaxBoots
      BY <1>1 DEF BootVault
    <2>2. generated + 1 \in Passphrase /\ boots + 1 \in 0..MaxBoots
      BY <1>n, <2>1 DEF Passphrase
    <2>3. /\ loadPassphrase(k, env) \in VaultKeyRange
          /\ env = 0 => loadPassphrase(k, env) \in Passphrase
      BY <1>n, <2>2 DEF loadPassphrase, keychainGet, VaultKeyRange, EnvSettings
    <2> QED BY <1>1, <2>2, <2>3 DEF BootVault
  <1>2. CASE VaultCloses
    BY <1>2, <1>n DEF VaultCloses
  <1>3. CASE VaultTick
    <2>1. vaultClock + 1 \in 1..MaxVaultTime
      BY <1>3, <1>n DEF VaultTick
    <2> QED BY <1>3, <2>1 DEF VaultTick
  <1>4. ASSUME NEW n \in CredentialNames, NEW limited \in BOOLEAN, StoreCredential(n, limited)
        PROVE  VaultBounds'
    <2> DEFINE row == [key |-> vaultKey, env |-> vaultEnv,
                       expires |-> IF limited THEN vaultClock + VaultTtl ELSE 0]
    <2>1. vaultClock + VaultTtl \in 0..(MaxVaultTime + VaultTtl) /\ 0 \in 0..(MaxVaultTime + VaultTtl)
      BY <1>n
    <2>2. row \in VaultRow
      BY <2>1 DEF VaultRow
    <2> HIDE DEF row
    <2>3. credentials' = [credentials EXCEPT ![n] = row]
      BY <1>4 DEF StoreCredential, row
    <2> QED BY <1>4, <2>2, <2>3 DEF StoreCredential
  <1>5. ASSUME NEW n \in CredentialNames, RemoveCredential(n) PROVE VaultBounds'
    BY <1>5, <1>n DEF RemoveCredential
  <1>6. ASSUME NEW n \in CredentialNames, RevokeCredential(n) PROVE VaultBounds'
    BY <1>6, <1>n DEF RevokeCredential
  <1>7. ASSUME NEW r \in SecretIds, NEW n \in CredentialNames, NEW paired \in BOOLEAN,
               SecretRequest(r, n, paired)
        PROVE  VaultBounds'
    <2>1. credentials' \in cleanExpired
      BY <1>7 DEF SecretRequest
    <2>2. credentials' \in [CredentialNames -> {NoRow} \cup {credentials[m] : m \in CredentialNames}]
      BY <2>1 DEF cleanExpired
    <2>3. {NoRow} \cup {credentials[m] : m \in CredentialNames} \subseteq VaultRow
      BY <1>n
    <2>4. credentials' \in [CredentialNames -> VaultRow]
      BY <2>2, <2>3
    <2> QED BY <1>7, <2>4 DEF SecretRequest
  <1>8. ASSUME NEW r \in SecretIds, NEW status \in {"approved", "denied"}, DecideSecret(r, status)
        PROVE  VaultBounds'
    BY <1>8 DEF DecideSecret
  <1>9. CASE UNCHANGED vaultVars
    BY <1>9 DEF vaultVars
  <1> QED BY <1>1, <1>2, <1>3, <1>4, <1>5, <1>6, <1>7, <1>8, <1>9 DEF VaultNext

=============================================================================
