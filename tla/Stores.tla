------------------------------- MODULE Stores -------------------------------
(***************************************************************************)
(* The daemon's durable stores of its own: the hash chain of the audit log *)
(* (audit.ts) and the credential vault (vault.ts), whose key is derived    *)
(* from the passphrase in the environment or else from one kept in the     *)
(* operating system's keychain or in a file (vault-passphrase.ts,          *)
(* keychain.ts), with the message handler that discloses a credential      *)
(* (index.ts).                                                             *)
(***************************************************************************)
EXTENDS Integers, Sequences

CONSTANTS
    MaxEvents,          \* bound: audit events attempted
    CredentialNames,    \* names of credentials
    MaxPassphrases,     \* bound: passphrases generated
    EnvPassphrases,     \* values TLMCP_VAULT_PASSPHRASE may have
    MaxBoots,           \* bound: starts of the daemon
    VaultTtl,           \* a credential's lifetime when it has one
    MaxVaultTime,       \* bound: how long the vault's clock runs
    SecretIds           \* bound: secret requests received

ASSUME StoresAssumption ==
    /\ {MaxEvents, MaxPassphrases, MaxBoots, VaultTtl, MaxVaultTime} \subseteq Nat /\ MaxVaultTime > 0
    /\ EnvPassphrases \subseteq Nat \ {0} /\ "none" \notin CredentialNames

VARIABLES
    auditRows,          \* audit_events in order of id
    auditSynced,        \* how many of them survive a power loss
    lastHash,           \* AuditLog.lastHash
    attempts,           \* events hashed so far
    keychain, passFile, \* where the passphrase is kept; 0 is nowhere
    generated, boots,   \* passphrases generated, starts so far
    vaultEnv,           \* the passphrase in this start's environment; 0 is none
    vaultKey,           \* the key in memory; 0 while the daemon is down
    vaultLapsed,        \* a start could not read the passphrase in use (history)
    credentials,        \* credentials[n]: its row, with the environment it
                        \* was stored under (history), or NoRow
    tombstones,         \* revoked_credentials
    secretRequests,     \* approval_requests and the answer each request got
    vaultClock

auditVars == <<auditRows, auditSynced, lastHash, attempts>>
vaultVars == <<keychain, passFile, generated, boots, vaultEnv, vaultKey, vaultLapsed,
               credentials, tombstones, secretRequests, vaultClock>>
storesVars == <<auditRows, auditSynced, lastHash, attempts, keychain, passFile, generated, boots,
                vaultEnv, vaultKey, vaultLapsed, credentials, tombstones, secretRequests, vaultClock>>

(* audit_events: a row holds the hash of the one before it. *)
Genesis == 0
NoRow == [key |-> 0, env |-> 0, expires |-> 0]
NoSecretRequest == [name |-> "none", status |-> "none", answer |-> "none"]

StoresInit ==
    /\ auditRows = <<>> /\ auditSynced = 0 /\ lastHash = Genesis /\ attempts = 0
    /\ keychain = 0 /\ passFile = 0 /\ generated = 0 /\ boots = 0
    /\ vaultEnv = 0 /\ vaultKey = 0 /\ vaultLapsed = FALSE
    /\ credentials = [n \in CredentialNames |-> NoRow]
    /\ tombstones = {}
    /\ secretRequests = [r \in SecretIds |-> NoSecretRequest]
    /\ vaultClock = 1

-----------------------------------------------------------------------------
(* The audit log.  A hash is a number of its own for every event.          *)

(* append: the row is inserted, then lastHash moves on. *)
AppendEvent ==
    /\ attempts < MaxEvents
    /\ attempts' = attempts + 1
    /\ auditRows' = Append(auditRows, [prev |-> lastHash, hash |-> attempts + 1])
    /\ lastHash' = attempts + 1
    /\ UNCHANGED auditSynced

(* Faulty: lastHash moves on before the insert has succeeded. *)
AppendThrowsLate ==
    /\ attempts < MaxEvents
    /\ attempts' = attempts + 1
    /\ lastHash' = attempts + 1
    /\ UNCHANGED <<auditRows, auditSynced>>

(* append, the insert throws: disk full, database busy. *)
AppendThrows ==
    /\ attempts < MaxEvents
    /\ attempts' = attempts + 1
    /\ UNCHANGED <<auditRows, auditSynced, lastHash>>

Checkpoint ==
    /\ auditSynced < Len(auditRows)
    /\ auditSynced' = Len(auditRows)
    /\ UNCHANGED <<auditRows, lastHash, attempts>>

(* A new process: synchronous = NORMAL may lose commits the log was not    *)
(* checkpointed for, and the chain goes on from what the table holds.      *)
ReopenAudit ==
    \E kept \in auditSynced..Len(auditRows) :
        /\ auditRows' = SubSeq(auditRows, 1, kept)
        /\ auditSynced' = kept
        /\ lastHash' = IF kept = 0 THEN Genesis ELSE auditRows[kept].hash
        /\ UNCHANGED attempts

AuditNext == AppendEvent \/ AppendThrows \/ Checkpoint \/ ReopenAudit

-----------------------------------------------------------------------------
(* The vault. *)

(* KeychainStore: absent, or present and able or unable to be read and     *)
(* written; both of its commands answer an error like an empty entry.      *)
Keychain == {"absent", "ok", "unreadable", "locked"}
keychainGet(k) == IF k = "ok" THEN keychain ELSE 0
keychainSet(k) == k \in {"ok", "unreadable"}

(* loadOrCreateVaultPassphrase: a passphrase in the environment (0 is unset *)
(* or blank) is used as it is and kept nowhere; then keychain, then file,  *)
(* then a new one that goes to the keychain or, if that fails, to the file. *)
EnvSettings == {0} \cup EnvPassphrases
loadPassphrase(k, env) ==
    IF env # 0 THEN env
    ELSE IF keychainGet(k) # 0 THEN keychainGet(k)
    ELSE IF passFile # 0 THEN passFile
    ELSE generated + 1

(* Faulty: the file is written only where there is no keychain at all. *)
BootVaultUnsaved(k, env) ==
    LET pass == loadPassphrase(k, env)
        fresh == env = 0 /\ keychainGet(k) = 0 /\ passFile = 0
    IN  /\ vaultKey = 0 /\ boots < MaxBoots /\ generated < MaxPassphrases
        /\ boots' = boots + 1
        /\ vaultEnv' = env /\ vaultKey' = pass
        /\ generated' = IF fresh THEN generated + 1 ELSE generated
        /\ keychain' = IF env = 0 /\ keychainGet(k) = 0 /\ keychainSet(k) THEN pass ELSE keychain
        /\ passFile' = IF fresh /\ k = "absent" THEN pass ELSE passFile
        /\ vaultLapsed' = (vaultLapsed \/ (env = 0 /\ keychain # 0 /\ k # "ok" /\ pass # keychain))
        /\ UNCHANGED <<credentials, tombstones, secretRequests, vaultClock>>

BootVault(k, env) ==
    LET pass == loadPassphrase(k, env)
        fresh == env = 0 /\ keychainGet(k) = 0 /\ passFile = 0
    IN  /\ vaultKey = 0 /\ boots < MaxBoots /\ generated < MaxPassphrases
        /\ boots' = boots + 1
        /\ vaultEnv' = env /\ vaultKey' = pass
        /\ generated' = IF fresh THEN generated + 1 ELSE generated
        /\ keychain' = IF env = 0 /\ keychainGet(k) = 0 /\ keychainSet(k) THEN pass ELSE keychain
        /\ passFile' = IF fresh /\ ~keychainSet(k) THEN pass ELSE passFile
        /\ vaultLapsed' = (vaultLapsed \/ (env = 0 /\ keychain # 0 /\ k # "ok" /\ pass # keychain))
        /\ UNCHANGED <<credentials, tombstones, secretRequests, vaultClock>>

VaultCloses ==
    /\ vaultKey # 0 /\ vaultKey' = 0
    /\ UNCHANGED <<keychain, passFile, generated, boots, vaultEnv, vaultLapsed, credentials,
                   tombstones, secretRequests, vaultClock>>

(* store: INSERT OR REPLACE, encrypted with the key of this process. *)
StoreCredential(n, limited) ==
    /\ vaultKey # 0
    /\ credentials' = [credentials EXCEPT ![n] =
           [key |-> vaultKey, env |-> vaultEnv,
            expires |-> IF limited THEN vaultClock + VaultTtl ELSE 0]]
    /\ UNCHANGED <<keychain, passFile, generated, boots, vaultEnv, vaultKey, vaultLapsed, tombstones,
                   secretRequests, vaultClock>>

RemoveCredential(n) ==
    /\ vaultKey # 0 /\ credentials[n] # NoRow
    /\ credentials' = [credentials EXCEPT ![n] = NoRow]
    /\ UNCHANGED <<keychain, passFile, generated, boots, vaultEnv, vaultKey, vaultLapsed, tombstones,
                   secretRequests, vaultClock>>

(* revoke: the tombstone first, then the row; a later store of the same    *)
(* name is served again while the tombstone stays.                         *)
RevokeCredential(n) ==
    /\ vaultKey # 0 /\ credentials[n] # NoRow
    /\ tombstones' = tombstones \cup {n}
    /\ credentials' = [credentials EXCEPT ![n] = NoRow]
    /\ UNCHANGED <<keychain, passFile, generated, boots, vaultEnv, vaultKey, vaultLapsed, secretRequests, vaultClock>>

(* Faulty: expiry is left to the cleanup. *)
retrieveUnchecked(n) ==
    IF credentials[n] = NoRow THEN "absent"
    ELSE IF credentials[n].key # vaultKey THEN "throws" ELSE "value"

(* retrieve: no row, an expired row, a row of another key (decrypt throws), *)
(* or its value.  cleanExpired compares the two date formats as text and   *)
(* so removes a row only on a later day: the row's own check decides.      *)
retrieve(n) ==
    IF credentials[n] = NoRow THEN "absent"
    ELSE IF credentials[n].expires # 0 /\ credentials[n].expires < vaultClock THEN "absent"
    ELSE IF credentials[n].key # vaultKey THEN "throws" ELSE "value"

(* cleanExpired, run by retrieve and list: some expired rows go. *)
cleanExpired ==
    {rows \in [CredentialNames -> {NoRow} \cup {credentials[n] : n \in CredentialNames}] :
        \A n \in CredentialNames :
            \/ rows[n] = credentials[n]
            \/ /\ rows[n] = NoRow
               /\ credentials[n].expires # 0 /\ credentials[n].expires < vaultClock}

(* SECRET_REQUEST: the request is recorded, the credential fetched, and a  *)
(* paired sender's request is approved and answered at once.  When decrypt *)
(* throws there is no answer and the request stays pending.                *)
SecretRequest(r, n, paired) ==
    LET got == retrieve(n)
        answer == CASE got = "absent" -> "denied" [] got = "throws" -> "none"
                    [] got = "value" /\ paired -> "approved" [] OTHER -> "pending"
    IN  /\ vaultKey # 0 /\ secretRequests[r] = NoSecretRequest
        /\ secretRequests' = [secretRequests EXCEPT ![r] =
               [name |-> n, answer |-> answer,
                status |-> IF answer = "approved" THEN "approved" ELSE "pending"]]
        /\ credentials' \in cleanExpired
        /\ UNCHANGED <<keychain, passFile, generated, boots, vaultEnv, vaultKey, vaultLapsed, tombstones, vaultClock>>

(* approveRequest, denyRequest: only a pending request is decided. *)
DecideSecret(r, status) ==
    /\ vaultKey # 0 /\ secretRequests[r].status = "pending"
    /\ secretRequests' = [secretRequests EXCEPT ![r].status = status]
    /\ UNCHANGED <<keychain, passFile, generated, boots, vaultEnv, vaultKey, vaultLapsed, credentials,
                   tombstones, vaultClock>>

VaultTick ==
    /\ vaultClock < MaxVaultTime /\ vaultClock' = vaultClock + 1
    /\ UNCHANGED <<keychain, passFile, generated, boots, vaultEnv, vaultKey, vaultLapsed, credentials,
                   tombstones, secretRequests>>

VaultNext ==
    \/ \E k \in Keychain, env \in EnvSettings : BootVault(k, env)
    \/ VaultCloses \/ VaultTick
    \/ \E n \in CredentialNames :
          \/ \E limited \in BOOLEAN : StoreCredential(n, limited)
          \/ RemoveCredential(n) \/ RevokeCredential(n)
    \/ \E r \in SecretIds :
          \/ \E n \in CredentialNames, paired \in BOOLEAN : SecretRequest(r, n, paired)
          \/ \E status \in {"approved", "denied"} : DecideSecret(r, status)

StoresTypeOK ==
    /\ auditRows \in Seq([prev : 0..MaxEvents, hash : 1..MaxEvents])
    /\ auditSynced \in 0..MaxEvents /\ lastHash \in 0..MaxEvents /\ attempts \in 0..MaxEvents
    /\ {keychain, passFile, generated} \subseteq 0..MaxPassphrases
    /\ vaultEnv \in EnvSettings /\ vaultKey \in 0..MaxPassphrases \cup EnvPassphrases
    /\ boots \in 0..MaxBoots /\ vaultLapsed \in BOOLEAN
    /\ credentials \in [CredentialNames ->
           [key : 0..MaxPassphrases \cup EnvPassphrases, env : EnvSettings,
            expires : 0..(MaxVaultTime + VaultTtl)]]
    /\ tombstones \subseteq CredentialNames
    /\ secretRequests \in [SecretIds ->
           [name : CredentialNames \cup {"none"}, status : {"none", "pending", "approved", "denied"},
            answer : {"none", "pending", "approved", "denied"}]]
    /\ vaultClock \in 1..MaxVaultTime

(* The audit log is one chain from the first row to lastHash, whatever     *)
(* inserts fail and whatever a power loss takes from its end.              *)
AuditIsChained ==
    /\ \A i \in 1..Len(auditRows) :
          auditRows[i].prev = IF i = 1 THEN Genesis ELSE auditRows[i - 1].hash
    /\ lastHash = IF auditRows = <<>> THEN Genesis ELSE auditRows[Len(auditRows)].hash

(* A stored credential can be decrypted by every later process started     *)
(* with the same TLMCP_VAULT_PASSPHRASE, whatever it was in between; one   *)
(* without it relies on no start having found the keychain that holds the  *)
(* passphrase in use unreadable.  Such a start makes a new passphrase, and *)
(* if it can write the keychain it overwrites the only copy of the old one. *)
VaultReadable ==
    vaultKey # 0 /\ (vaultEnv = 0 => ~vaultLapsed) =>
        \A n \in CredentialNames :
            credentials[n] # NoRow /\ credentials[n].env = vaultEnv => credentials[n].key = vaultKey

(* A value goes out only under a request that stands approved, and nobody  *)
(* may deny it afterwards.                                                 *)
DisclosureIsApproved ==
    \A r \in SecretIds : secretRequests[r].answer = "approved" => secretRequests[r].status = "approved"

(* What a request is answered with has not expired. *)
NothingExpiredIsDisclosed ==
    [][\A r \in SecretIds :
          secretRequests'[r].answer = "approved" /\ secretRequests[r].answer # "approved" =>
              LET row == credentials[secretRequests'[r].name]
              IN  row # NoRow /\ (row.expires = 0 \/ row.expires >= vaultClock)]_storesVars
=============================================================================
