-------------------------------- MODULE Vault --------------------------------
(***************************************************************************)
(* The vault of the wallet profiles: src-tauri/src/secure_store.rs and the *)
(* vault part of wipe_wallet (src-tauri/src/commands.rs).                  *)
(*                                                                         *)
(* A profile's data root holds vault.dat (the sealed seed), vault.meta.json *)
(* (the salt and the fingerprint of the key that seals it) and, in older   *)
(* installations, vault.key.  Master keys live in the OS keychain, one     *)
(* account per profile and one legacy account all profiles once shared.    *)
(* A key that seals a vault is the pair of its master key and its salt.    *)
(*                                                                         *)
(* The two writes of a create and the four removals of a wipe are separate *)
(* steps: the process can end between two of them, a write can leave a     *)
(* torn file and a removal can fail unnoticed.  Vault operations do not    *)
(* overlap here; WalletSession.tla interleaves the commands that call them.*)
(***************************************************************************)
EXTENDS Naturals

CONSTANTS
  Profiles,     \* wallet data roots
  Secrets,      \* payloads: a mnemonic with its wallet pass
  Masters,      \* 32-byte master keys
  Salts,        \* 16-byte salts
  Legacy,       \* the keychain account "master_key", shared by all profiles
  BuiltIn,      \* the constant DESKTOP_VAULT_SECRET, as a master key
  None,         \* no file, no entry, no session
  Torn,         \* a file no parser or cipher accepts
  PinEra,       \* a vault.meta.json of a version this program drops
  Outages,      \* sets of accounts whose reads can fail at the same time
  MaxFaults     \* crashes, torn writes and failed removals in one behaviour

Accounts == Profiles \cup {Legacy}
Keys     == (Masters \cup {BuiltIn}) \X Salts
Backings == {"keychain", "file", "builtin"}
Stages   == {"idle", "writeMeta", "wipeData", "wipeMeta", "wipeKeyFile", "wipeEntry"}
Metas    == [backed : Backings, key : Keys]
Blobs    == [key : Keys, payload : Secrets]

ASSUME VaultAssumption ==
  /\ {Legacy, None} \cap Profiles = {}
  /\ Legacy # None
  /\ {BuiltIn, None} \cap Masters = {}
  /\ BuiltIn # None
  /\ None \notin Secrets
  /\ {None, Torn, PinEra} \cap (Metas \cup Blobs) = {}
  /\ None # Torn /\ None # PinEra /\ Torn # PinEra
  /\ Outages \subseteq SUBSET Accounts
  /\ MaxFaults \in Nat

VARIABLES
  meta,         \* meta[p]: vault.meta.json under p's root
  data,         \* data[p]: vault.dat
  keyFile,      \* keyFile[p]: vault.key
  chain,        \* chain[a]: the keychain entry of account a
  denied,       \* the accounts whose reads fail at present
  active,       \* the profile wallet_data_root() points at
  session,      \* the unlocked payload in memory
  stage,        \* the file operation that is next
  faults        \* faults so far

vars == <<meta, data, keyFile, chain, denied, active, session, stage, faults>>
disk == <<meta, data, keyFile>>

-----------------------------------------------------------------------------
\* Salts and master keys are random: a new one is none of those still stored.
SealedKeys  == {meta[p].key : p \in {q \in Profiles : meta[q] \in Metas}}
                 \cup {data[p].key : p \in {q \in Profiles : data[q] \in Blobs}}
FreshSalts  == Salts \ {k[2] : k \in SealedKeys}
FreshMaster == Masters \ ({k[1] : k \in SealedKeys} \cup {chain[a] : a \in Accounts}
                            \cup {keyFile[p] : p \in Profiles})

\* read_keyring_secret: an entry that is missing and one that cannot be read
\* look the same to the caller.
ReadEntry(a) == IF a \in denied THEN None ELSE chain[a]

\* keychain_master_key: the profile's entry, else the legacy one, copied into
\* the profile's account, else a new key, minted and stored.  Either store can
\* fail.  Each outcome is the key returned and the keychain left behind.
Stored(p, k) == [chain EXCEPT ![p] = k]
\* Mutant: mint without looking at the legacy entry first.
MasterKeyOutcomesNoFallback(p) ==
  IF ReadEntry(p) # None THEN {<<ReadEntry(p), chain>>}
  ELSE IF p \in denied THEN {<<None, chain>>}
  ELSE {<<k, Stored(p, k)>> : k \in FreshMaster}
MasterKeyOutcomes(p) ==
  IF ReadEntry(p) # None THEN {<<ReadEntry(p), chain>>}
  ELSE IF ReadEntry(Legacy) # None
    THEN {ReadEntry(Legacy)} \X {chain, Stored(p, ReadEntry(Legacy))}
  ELSE IF p \in denied THEN {<<None, chain>>}
  ELSE {<<None, chain>>} \cup {<<k, Stored(p, k)>> : k \in FreshMaster}

\* The key it finds for p in keychain c when every account can be read.
KeyIn(c, p) == IF c[p] # None THEN c[p] ELSE c[Legacy]

\* vault_ready: meta parses as a current version and vault.dat exists.
Ready(p) == meta[p] \in Metas /\ data[p] # None

\* read_meta, which every operation calls first, drops a PIN-era vault.
MetaAfterRead(p) == IF meta[p] = PinEra THEN [meta EXCEPT ![p] = None] ELSE meta
DataAfterRead(p) == IF meta[p] = PinEra THEN [data EXCEPT ![p] = None] ELSE data

\* derive_key_for_read, given what the keychain returned.
PrimaryMaster(p, k) ==
  IF meta[p].backed = "keychain" /\ k # None THEN k
  ELSE IF meta[p].backed = "file" /\ keyFile[p] # None THEN keyFile[p]
  ELSE BuiltIn
\* decrypt_payload asks the keychain when it backs the vault and when the
\* primary key does not match meta.
AsksKeychain(p) ==
  meta[p].backed = "keychain" \/ PrimaryMaster(p, None) # meta[p].key[1]
\* The payload decrypt_payload returns when the keychain returns k: one of the
\* three candidates must match meta, and meta's key must open vault.dat.
Decrypted(p, k) ==
  IF /\ Ready(p)
     /\ meta[p].key[1] \in {k, keyFile[p], BuiltIn}
     /\ data[p] \in Blobs
     /\ data[p].key = meta[p].key
  THEN data[p].payload ELSE None

\* What an unlock of p yields once every keychain account can be read again.
Openable(p) == Decrypted(p, KeyIn(chain, p))
-----------------------------------------------------------------------------
TypeOK ==
  /\ meta \in [Profiles -> Metas \cup {None, Torn, PinEra}]
  /\ data \in [Profiles -> Blobs \cup {None, Torn}]
  /\ keyFile \in [Profiles -> Masters \cup {None}]
  /\ chain \in [Accounts -> Masters \cup {None}]
  /\ denied \in SUBSET Accounts
  /\ active \in Profiles
  /\ session \in Secrets \cup {None}
  /\ stage \in Stages
  /\ faults \in 0..MaxFaults

\* What earlier versions and this one can have left under a root: nothing, a
\* PIN-era vault, or a vault sealed with a key of one of the three backings.
OldVault(b, k, s, x) ==
  [meta |-> [backed |-> b, key |-> <<k, s>>], data |-> [key |-> <<k, s>>, payload |-> x],
   keyFile |-> IF b = "file" THEN k ELSE None]
OldRoots ==
  {[meta |-> None, data |-> None, keyFile |-> None],
   [meta |-> PinEra, data |-> Torn, keyFile |-> None]}
    \cup {OldVault("builtin", BuiltIn, s, x) : s \in Salts, x \in Secrets}
    \cup {OldVault(b, k, s, x) : b \in {"keychain", "file"}, k \in Masters, s \in Salts, x \in Secrets}

\* A profile gets its own entry by copying the legacy one whenever that exists,
\* and a vault backed by the keychain was sealed with the key found there.
Init ==
  /\ chain \in [Accounts -> Masters \cup {None}]
  /\ chain[Legacy] # None => \A p \in Profiles : chain[p] \in {None, chain[Legacy]}
  /\ \E old \in [Profiles -> OldRoots] :
       /\ \A p \in Profiles :
            old[p].meta \in Metas /\ old[p].meta.backed = "keychain" =>
              old[p].meta.key[1] = KeyIn(chain, p)
       /\ meta = [p \in Profiles |-> old[p].meta]
       /\ data = [p \in Profiles |-> old[p].data]
       /\ keyFile = [p \in Profiles |-> old[p].keyFile]
  /\ denied \in Outages
  /\ active \in Profiles
  /\ session = None
  /\ stage = "idle"
  /\ faults = 0

\* One more crash, torn write or failed removal.
Fault == faults < MaxFaults /\ faults' = faults + 1

-----------------------------------------------------------------------------
(* Operations on the vault of the active profile                           *)

\* vault_ready / wallet_exists, when there is a PIN-era vault to drop.
WalletExists ==
  /\ stage = "idle"
  /\ meta[active] = PinEra
  /\ meta' = MetaAfterRead(active)
  /\ data' = DataAfterRead(active)
  /\ UNCHANGED <<keyFile, chain, denied, active, session, stage, faults>>

\* create_vault up to the write of vault.dat.  It refuses while a vault is
\* ready and when the keychain gives no key.
CreateSeal(x) ==
  /\ stage = "idle"
  /\ ~Ready(active)
  /\ meta' = MetaAfterRead(active)
  /\ \E o \in MasterKeyOutcomes(active), s \in FreshSalts :
       /\ o[1] # None
       /\ chain' = o[2]
       /\ \/ /\ data' = [data EXCEPT ![active] = [key |-> <<o[1], s>>, payload |-> x]]
             /\ stage' = "writeMeta"
             /\ UNCHANGED faults
          \/ /\ Fault
             /\ data' = [data EXCEPT ![active] = Torn]
             /\ UNCHANGED stage
  /\ UNCHANGED <<keyFile, denied, active, session>>

\* Mutant: key_hash holds the raw key, as older writers stored it.
CreateMetaRawKey ==
  /\ stage = "writeMeta"
  /\ stage' = "idle"
  /\ meta' = [meta EXCEPT ![active] = [backed |-> "keychain", key |-> data[active].key[1]]]
  /\ session' = data[active].payload
  /\ UNCHANGED <<data, keyFile, chain, denied, active, faults>>

\* create_vault from write_meta on: the session opens when meta is written.
CreateMeta ==
  /\ stage = "writeMeta"
  /\ stage' = "idle"
  /\ \/ /\ meta' = [meta EXCEPT ![active] =
                       [backed |-> "keychain", key |-> data[active].key]]
        /\ session' = data[active].payload
        /\ UNCHANGED faults
     \/ /\ Fault
        /\ meta' = [meta EXCEPT ![active] = Torn]
        /\ UNCHANGED session
  /\ UNCHANGED <<data, keyFile, chain, denied, active>>

\* unlock_session: a failed decryption leaves the session as it was.
Unlock ==
  /\ stage = "idle"
  /\ Ready(active)
  /\ \E o \in IF AsksKeychain(active) THEN MasterKeyOutcomes(active) ELSE {<<None, chain>>} :
       /\ chain' = o[2]
       /\ session' = IF Decrypted(active, o[1]) # None THEN Decrypted(active, o[1])
                     ELSE session
  /\ UNCHANGED <<disk, denied, active, stage, faults>>

\* clear_session, by a command that closes the wallet; also the end of an
\* idle process.
ClearSession ==
  /\ stage = "idle"
  /\ session' = None
  /\ UNCHANGED <<disk, chain, denied, active, stage, faults>>

\* Mutant: the session survives the switch.
SwitchProfileUnlocked(p) ==
  /\ stage = "idle"
  /\ active' = p
  /\ UNCHANGED <<disk, chain, denied, session, stage, faults>>

\* wallets_create and wallets_switch: clear the session, then move the root.
SwitchProfile(p) ==
  /\ stage = "idle"
  /\ session' = None
  /\ active' = p
  /\ UNCHANGED <<disk, chain, denied, stage, faults>>

-----------------------------------------------------------------------------
(* wipe_wallet.  Errors of the removals are ignored, and wipe_secrets      *)
(* removes the files a second time: a failed removal is one that failed    *)
(* both times.                                                             *)
BeginWipe ==
  /\ stage = "idle"
  /\ session' = None
  /\ stage' = "wipeData"
  /\ UNCHANGED <<disk, chain, denied, active, faults>>

Removed(file) == [file EXCEPT ![active] = None]

WipeData ==
  /\ stage = "wipeData"
  /\ stage' = "wipeMeta"
  /\ (data' = Removed(data) /\ UNCHANGED faults) \/ (Fault /\ UNCHANGED data)
  /\ UNCHANGED <<meta, keyFile, chain, denied, active, session>>

\* Mutant: meta is left for wipe_secrets, which does not remove it.
WipeMetaSkipped ==
  /\ stage = "wipeMeta"
  /\ stage' = "wipeKeyFile"
  /\ UNCHANGED <<disk, chain, denied, active, session, faults>>

WipeMeta ==
  /\ stage = "wipeMeta"
  /\ stage' = "wipeKeyFile"
  /\ (meta' = Removed(meta) /\ UNCHANGED faults) \/ (Fault /\ UNCHANGED meta)
  /\ UNCHANGED <<data, keyFile, chain, denied, active, session>>

WipeKeyFile ==
  /\ stage = "wipeKeyFile"
  /\ stage' = "wipeEntry"
  /\ (keyFile' = Removed(keyFile) /\ UNCHANGED faults) \/ (Fault /\ UNCHANGED keyFile)
  /\ UNCHANGED <<meta, data, chain, denied, active, session>>

\* Mutant: the legacy entry goes with the profile's.
WipeEntryAndLegacy ==
  /\ stage = "wipeEntry"
  /\ stage' = "idle"
  /\ chain' = [chain EXCEPT ![active] = None, ![Legacy] = None]
  /\ UNCHANGED <<disk, denied, active, session, faults>>

\* Only this profile's entry goes; its deletion can fail as well.
WipeEntry ==
  /\ stage = "wipeEntry"
  /\ stage' = "idle"
  /\ chain' \in {chain, Stored(active, None)}
  /\ UNCHANGED <<disk, denied, active, session, faults>>

-----------------------------------------------------------------------------
(* The environment                                                         *)

\* The process ends inside a create or a wipe.
Crash ==
  /\ stage # "idle"
  /\ Fault
  /\ stage' = "idle"
  /\ session' = None
  /\ UNCHANGED <<disk, chain, denied, active>>

\* The keychain becomes locked, or readable again.
Deny(d) ==
  /\ denied' = d
  /\ UNCHANGED <<disk, chain, active, session, stage, faults>>

Next ==
  \/ WalletExists
  \/ \E x \in Secrets : CreateSeal(x)
  \/ CreateMeta
  \/ Unlock
  \/ ClearSession
  \/ \E p \in Profiles : SwitchProfile(p)
  \/ BeginWipe \/ WipeData \/ WipeMeta \/ WipeKeyFile \/ WipeEntry
  \/ Crash
  \/ \E d \in Outages : Deny(d)

Spec == Init /\ [][Next]_vars

-----------------------------------------------------------------------------
\* A vault that wallet_exists reports can be opened once the keychain can be
\* read: no interrupted create or wipe, no minted or copied key and no wipe of
\* another profile leaves a profile that only ever says "Corrupt vault" (for
\* which the UI offers Retry alone, and create_vault refuses to start over).
ReadyIsOpenable ==
  \A p \in Profiles : (stage = "idle" \/ p # active) /\ Ready(p) => Openable(p) # None

\* backup_mnemonic shows the seed that the active profile's vault holds, and
\* no session outlives the vault it came from.
SessionIsVault == session # None => session = Openable(active)

\* A wipe that runs to its end leaves no vault that wallet_exists would
\* report, even if one of its removals failed: onboarding can start afresh.
WipeLeavesNoVault == [][stage = "wipeEntry" /\ stage' = "idle" => ~Ready(active)']_vars

\* The vault implements Custody: a stored seed is never replaced, and is lost
\* only by a wipe of its own profile, whatever happens to the keychain, to
\* other profiles and to the process.
Kept   == [p \in Profiles |-> Openable(p)]
Wiping == IF stage \in {"wipeData", "wipeMeta", "wipeKeyFile", "wipeEntry"}
          THEN active ELSE None
C == INSTANCE Custody WITH kept <- Kept, wiping <- Wiping
CustodyHolds == C!Spec
=============================================================================
