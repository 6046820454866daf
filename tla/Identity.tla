------------------------------ MODULE Identity ------------------------------
(***************************************************************************)
(* The identity files of one data directory, under processes that start on *)
(* it at the same time and may crash anywhere: the stable node id and the  *)
(* agent key pair (identity.ts) and the libp2p key with its creation lock  *)
(* (libp2p-identity.ts).  Every file is replaced by a rename, so a reader  *)
(* sees whole files only.  A generated key is named by its generator and   *)
(* that process's start number.                                            *)
(***************************************************************************)
EXTENDS Integers, FiniteSets

CONSTANTS
    Starters,     \* processes
    MaxStarts,    \* bound: starts of one process
    HardwareIds   \* what computeStableNodeId may yield (interfaces change)

ASSUME IdentityAssumption == Starters # {} /\ HardwareIds # {} /\ MaxStarts \in Nat

VARIABLES
    idFile,       \* keys/node-id.txt
    pubFile,      \* keys/agent.pub.pem
    privFile,     \* keys/agent.key.pem
    p2pFile,      \* keys/libp2p-ed25519.key
    p2pLock,      \* holder of keys/libp2p-ed25519.key.lock
    starter       \* the processes

idVars == <<idFile, pubFile, privFile, p2pFile, p2pLock, starter>>

NoKey == <<>>
NoId == "none"
freshKey(p) == <<p, starter[p].starts>>
Moves(p, pc) == starter' = [starter EXCEPT ![p].pc = pc]

IdentityInit ==
    /\ idFile = NoId /\ pubFile = NoKey /\ privFile = NoKey /\ p2pFile = NoKey /\ p2pLock = NoKey
    /\ starter = [p \in Starters |-> [pc |-> "off", starts |-> 0, id |-> NoId, pair |-> NoKey, peerId |-> NoKey]]

(* The network interfaces of the moment decide; they may have changed.     *)
computeStableNodeId == HardwareIds

Boot(p) ==
    /\ starter[p].pc = "off" /\ starter[p].starts < MaxStarts
    /\ starter' = [starter EXCEPT ![p] = [pc |-> "id", starts |-> @.starts + 1, id |-> NoId, pair |-> NoKey,
                                          peerId |-> NoKey]]
    /\ UNCHANGED <<idFile, pubFile, privFile, p2pFile, p2pLock>>

(* loadOrCreateStableNodeId, its read ...                                  *)
ReadNodeId(p) ==
    /\ starter[p].pc = "id"
    /\ starter' = [starter EXCEPT ![p].pc = IF idFile = NoId THEN "newId" ELSE "pair", ![p].id = idFile]
    /\ UNCHANGED <<idFile, pubFile, privFile, p2pFile, p2pLock>>

(* ... and its write.                                                      *)
WriteNodeId(p) ==
    /\ starter[p].pc = "newId"
    /\ \E h \in computeStableNodeId : idFile' = h /\ starter' = [starter EXCEPT ![p].pc = "pair", ![p].id = h]
    /\ UNCHANGED <<pubFile, privFile, p2pFile, p2pLock>>

(* loadOrCreateIdentity: the pair is loaded when both files are there.     *)
CheckPair(p) ==
    /\ starter[p].pc = "pair"
    /\ IF pubFile # NoKey /\ privFile # NoKey
       THEN starter' = [starter EXCEPT ![p].pc = "p2p", ![p].pair = <<pubFile, privFile>>]
       ELSE starter' = [starter EXCEPT ![p].pc = "pub", ![p].pair = <<freshKey(p), freshKey(p)>>]
    /\ UNCHANGED <<idFile, pubFile, privFile, p2pFile, p2pLock>>
WritePub(p) ==
    /\ starter[p].pc = "pub" /\ pubFile' = freshKey(p) /\ Moves(p, "priv")
    /\ UNCHANGED <<idFile, privFile, p2pFile, p2pLock>>
WritePriv(p) ==
    /\ starter[p].pc = "priv" /\ privFile' = freshKey(p) /\ Moves(p, "p2p")
    /\ UNCHANGED <<idFile, pubFile, p2pFile, p2pLock>>

(***************************************************************************)
(* loadOrCreateLibp2pPrivateKey.                                           *)
(***************************************************************************)
LoadExistingKey(p) ==
    /\ p2pFile # NoKey
    /\ starter' = [starter EXCEPT ![p].pc = "up", ![p].peerId = p2pFile]

CheckP2p(p) ==
    /\ starter[p].pc = "p2p"
    /\ LoadExistingKey(p) \/ (p2pFile = NoKey /\ Moves(p, "lock"))
    /\ UNCHANGED <<idFile, pubFile, privFile, p2pFile, p2pLock>>

(* acquireKeyCreateLock: an exclusive create; while it is taken, the key   *)
(* may appear, or the wait ends in an error.                               *)
TakeLock(p) ==
    /\ starter[p].pc = "lock" /\ p2pLock = NoKey /\ p2pLock' = freshKey(p) /\ Moves(p, "recheck")
    /\ UNCHANGED <<idFile, pubFile, privFile, p2pFile>>
KeyAppeared(p) ==
    /\ starter[p].pc = "lock" /\ p2pLock # NoKey /\ LoadExistingKey(p)
    /\ UNCHANGED <<idFile, pubFile, privFile, p2pFile, p2pLock>>
LockTimeout(p) ==
    /\ starter[p].pc = "lock" /\ p2pLock # NoKey /\ p2pFile = NoKey /\ Moves(p, "off")
    /\ UNCHANGED <<idFile, pubFile, privFile, p2pFile, p2pLock>>

(* Faulty: the holder of the lock generates without looking again.         *)
RecheckNothing(p) ==
    /\ starter[p].pc = "recheck" /\ Moves(p, "create")
    /\ UNCHANGED <<idFile, pubFile, privFile, p2pFile, p2pLock>>

(* The key may have been written, and the lock released, between the first *)
(* look and the lock: it is loaded, and the lock goes in the finally.      *)
Recheck(p) ==
    /\ starter[p].pc = "recheck"
    /\ \/ p2pFile = NoKey /\ Moves(p, "create") /\ UNCHANGED p2pLock
       \/ LoadExistingKey(p) /\ p2pLock' = NoKey
    /\ UNCHANGED <<idFile, pubFile, privFile, p2pFile>>
CreateKey(p) ==
    /\ starter[p].pc = "create" /\ p2pFile' = freshKey(p)
    /\ starter' = [starter EXCEPT ![p].pc = "unlock", ![p].peerId = freshKey(p)]
    /\ UNCHANGED <<idFile, pubFile, privFile, p2pLock>>
Unlock(p) ==
    /\ starter[p].pc = "unlock" /\ p2pLock' = NoKey /\ Moves(p, "up")
    /\ UNCHANGED <<idFile, pubFile, privFile, p2pFile>>

(* The process dies or is stopped: the files, the lock among them, stay.   *)
Dies(p) ==
    /\ starter[p].pc # "off"
    /\ starter' = [starter EXCEPT ![p].pc = "off", ![p].id = NoId, ![p].pair = NoKey, ![p].peerId = NoKey]
    /\ UNCHANGED <<idFile, pubFile, privFile, p2pFile, p2pLock>>

IdentityNext == \E p \in Starters :
    \/ Boot(p) \/ ReadNodeId(p) \/ WriteNodeId(p) \/ CheckPair(p) \/ WritePub(p) \/ WritePriv(p)
    \/ CheckP2p(p) \/ TakeLock(p) \/ KeyAppeared(p) \/ LockTimeout(p) \/ Recheck(p)
    \/ CreateKey(p) \/ Unlock(p) \/ Dies(p)

IdentitySpec == IdentityInit /\ [][IdentityNext]_idVars

KeyNames == {NoKey} \cup (Starters \X (1..MaxStarts))
IdentityTypeOK ==
    /\ idFile \in HardwareIds \cup {NoId}
    /\ pubFile \in KeyNames /\ privFile \in KeyNames /\ p2pFile \in KeyNames /\ p2pLock \in KeyNames
    /\ \A p \in Starters : starter[p].starts \in 0..MaxStarts

(***************************************************************************)
(* Properties.                                                             *)
(***************************************************************************)

(* "jeder weitere Aufruf - auch parallel - liefert denselben Key": every   *)
(* process that has a PeerID has the one in the file, whatever starts and  *)
(* crashes happened in between (loadOrCreateLibp2pPrivateKey).             *)
PeerIdIsStable == \A p \in Starters : starter[p].peerId \in {NoKey, p2pFile}
=============================================================================
