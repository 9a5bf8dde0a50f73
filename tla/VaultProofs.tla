----------------------------- MODULE VaultProofs -----------------------------
(***************************************************************************)
(* Proofs about Vault for every set of profiles, seeds, keys and salts and *)
(* every number of faults.                                                 *)
(***************************************************************************)
EXTENDS Vault, TLAPS

\* The keychain is one service: while it cannot read one account, it can read none.
WholeService == \A d \in Outages : \A p \in Profiles : p \in d <=> Legacy \in d

\* The type invariant is inductive with one fact more: vault.dat is a sealed
\* payload while a create is between its two writes.
Typed == TypeOK /\ (stage = "writeMeta" => data[active] \in Blobs)

WipeStages == {"wipeData", "wipeMeta", "wipeKeyFile", "wipeEntry"}

\* Between the two writes of a create: vault.dat is sealed with the key at
\* hand, and whatever meta an earlier crash left does not describe it.
SealedAhead ==
  stage = "writeMeta" =>
    /\ data[active] \in Blobs
    /\ data[active].key[1] = KeyIn(chain, active)
    /\ meta[active] \notin Metas \/ meta[active].key # data[active].key
    /\ session = None

NoSessionInWipe == stage \in WipeStages => session = None

\* A profile's own entry is a copy of the legacy one wherever that exists.
Copies == chain[Legacy] # None => \A p \in Profiles : chain[p] \in {None, chain[Legacy]}

\* A keychain outage never covers part of the accounts.
OutageOK == denied \in Outages

IInv == Typed /\ SealedAhead /\ NoSessionInWipe /\ Copies /\ OutageOK /\ SessionIsVault
-----------------------------------------------------------------------------
\* What keychain_master_key returns and leaves behind, by type.
LEMMA OutcomeType ==
  ASSUME TypeOK, NEW p \in Profiles, NEW o \in MasterKeyOutcomes(p)
  PROVE  o[1] \in Masters \cup {None} /\ o[2] \in [Accounts -> Masters \cup {None}]
<1> p \in Accounts /\ Legacy \in Accounts
  BY DEF Accounts
<1>1. CASE ReadEntry(p) # None
  BY <1>1 DEF MasterKeyOutcomes, ReadEntry, TypeOK
<1>2. CASE ReadEntry(p) = None /\ ReadEntry(Legacy) # None
  BY <1>2 DEF MasterKeyOutcomes, ReadEntry, Stored, TypeOK
<1>3. CASE ReadEntry(p) = None /\ ReadEntry(Legacy) = None
  <2>1. PICK k \in FreshMaster \cup {None} :
          o[1] = k /\ (k = None => o[2] = chain) /\ (k # None => o[2] = Stored(p, k))
    BY <1>3, VaultAssumption DEF MasterKeyOutcomes, FreshMaster
  <2>2. k \in Masters \cup {None}
    BY <2>1 DEF FreshMaster
  <2>. QED
    BY <2>1, <2>2 DEF Stored, TypeOK
<1>. QED
  BY <1>1, <1>2, <1>3

\* A payload that decrypts is a payload.
LEMMA DecryptedType ==
  ASSUME NEW p \in Profiles, NEW k
  PROVE  Decrypted(p, k) \in Secrets \cup {None}
BY DEF Decrypted, Blobs

\* Whatever earlier versions left behind is well typed.
LEMMA InitTyped == Init => Typed
<1> SUFFICES ASSUME Init PROVE Typed
  OBVIOUS
<1>1. PICK old \in [Profiles -> OldRoots] :
        /\ meta = [p \in Profiles |-> old[p].meta]
        /\ data = [p \in Profiles |-> old[p].data]
        /\ keyFile = [p \in Profiles |-> old[p].keyFile]
  BY DEF Init
<1>2. \A r \in OldRoots : /\ r.meta \in Metas \cup {None, PinEra}
                         /\ r.data \in Blobs \cup {None, Torn}
                         /\ r.keyFile \in Masters \cup {None}
  BY DEF OldRoots, OldVault, Metas, Blobs, Keys, Backings
<1>. QED
  BY <1>1, <1>2, VaultAssumption DEF Init, Typed, TypeOK, Stages

\* No step of the vault or its environment leaves the types, one step at a time.
LEMMA NextTyped == Typed /\ [Next]_vars => Typed'
<1> SUFFICES ASSUME Typed, [Next]_vars PROVE Typed'
  OBVIOUS
<1> USE DEF Typed, TypeOK
<1>1. CASE WalletExists
  BY <1>1 DEF WalletExists, MetaAfterRead, DataAfterRead
<1>2. ASSUME NEW x \in Secrets, CreateSeal(x) PROVE Typed'
  <2>1. PICK o \in MasterKeyOutcomes(active), s \in FreshSalts :
          /\ o[1] # None
          /\ chain' = o[2]
          /\ \/ /\ data' = [data EXCEPT ![active] = [key |-> <<o[1], s>>, payload |-> x]]
                /\ stage' = "writeMeta"
                /\ UNCHANGED faults
             \/ /\ Fault
                /\ data' = [data EXCEPT ![active] = Torn]
                /\ UNCHANGED stage
    BY <1>2 DEF CreateSeal
  <2>2. o[1] \in Masters /\ chain' \in [Accounts -> Masters \cup {None}]
    BY <2>1, OutcomeType
  <2>3. [key |-> <<o[1], s>>, payload |-> x] \in Blobs
    BY <2>2 DEF Blobs, Keys, FreshSalts
  <2>4. data' \in [Profiles -> Blobs \cup {None, Torn}]
    BY <2>1, <2>3
  <2>5. stage' \in Stages /\ faults' \in 0..MaxFaults
    BY <2>1, VaultAssumption DEF Stages, Fault
  <2>6. stage' = "writeMeta" => data'[active'] \in Blobs
    BY <1>2, <2>1, <2>3 DEF CreateSeal
  <2>7. meta' \in [Profiles -> Metas \cup {None, Torn, PinEra}]
    BY <1>2 DEF CreateSeal, MetaAfterRead
  <2>. QED
    BY <1>2, <2>2, <2>4, <2>5, <2>6, <2>7 DEF CreateSeal
<1>3. CASE CreateMeta
  <2>1. data[active] \in Blobs
    BY <1>3 DEF CreateMeta
  <2>2. /\ data[active].payload \in Secrets
        /\ [backed |-> "keychain", key |-> data[active].key] \in Metas
    BY <2>1 DEF Blobs, Metas, Backings
  <2>. QED
    BY <1>3, <2>2, VaultAssumption DEF CreateMeta, Fault, Stages
<1>4. CASE Unlock
  BY <1>4, OutcomeType, DecryptedType DEF Unlock, disk
<1>5. CASE ClearSession
  BY <1>5 DEF ClearSession, disk
<1>6. ASSUME NEW p \in Profiles, SwitchProfile(p) PROVE Typed'
  BY <1>6 DEF SwitchProfile, disk
<1>7. CASE BeginWipe
  BY <1>7 DEF BeginWipe, disk, Stages
<1>8. CASE WipeData
  BY <1>8, VaultAssumption DEF WipeData, Removed, Fault, Stages
<1>9. CASE WipeMeta
  BY <1>9, VaultAssumption DEF WipeMeta, Removed, Fault, Stages
<1>10. CASE WipeKeyFile
  BY <1>10, VaultAssumption DEF WipeKeyFile, Removed, Fault, Stages
<1>11. CASE WipeEntry
  BY <1>11 DEF WipeEntry, Stored, disk, Stages, Accounts
<1>12. CASE Crash
  BY <1>12, VaultAssumption DEF Crash, Fault, disk, Stages
<1>13. ASSUME NEW d \in Outages, Deny(d) PROVE Typed'
  BY <1>13, VaultAssumption DEF Deny, disk
<1>14. CASE UNCHANGED vars
  BY <1>14 DEF vars
<1>. QED
  BY <1>1, <1>2, <1>3, <1>4, <1>5, <1>6, <1>7, <1>8, <1>9, <1>10, <1>11, <1>12, <1>13, <1>14 DEF Next

\* Every state of the vault is well typed, for any number of profiles, keys and
\* faults and any pattern of keychain outages.
THEOREM VaultTypeCorrect == Spec => []TypeOK
<1>1. Typed => TypeOK
  BY DEF Typed
<1>. QED
  BY <1>1, InitTyped, NextTyped, PTL DEF Spec

-----------------------------------------------------------------------------
\* What a call of keychain_master_key for p does to the key at hand: nothing,
\* or it mints the first one; and the key it returns is the key at hand.
LEMMA OutcomeKeepsKey ==
  ASSUME WholeService, OutageOK, TypeOK,
         NEW p \in Profiles, NEW o \in MasterKeyOutcomes(p)
  PROVE  /\ \A q \in Profiles \ {p} : KeyIn(o[2], q) = KeyIn(chain, q)
         /\ o[1] # None => o[1] = KeyIn(o[2], p)
         /\ \/ KeyIn(o[2], p) = KeyIn(chain, p)
            \/ KeyIn(chain, p) = None /\ KeyIn(o[2], p) \in FreshMaster
         /\ Copies => (o[2][Legacy] # None =>
              \A q \in Profiles : o[2][q] \in {None, o[2][Legacy]})
<1>1. p \in Accounts /\ Legacy \in Accounts /\ Legacy # p /\ Profiles \subseteq Accounts
  BY VaultAssumption DEF Accounts
<1>2. p \in denied <=> Legacy \in denied
  BY DEF WholeService, OutageOK
<1>3. None \notin FreshMaster
  BY VaultAssumption DEF FreshMaster
<1>4. \A k : /\ Stored(p, k)[p] = k
             /\ \A a \in Accounts \ {p} : Stored(p, k)[a] = chain[a]
  BY <1>1 DEF Stored, TypeOK
<1>5. CASE ReadEntry(p) # None
  <2>1. o = <<chain[p], chain>> /\ chain[p] # None
    BY <1>5 DEF MasterKeyOutcomes, ReadEntry
  <2>. QED
    BY <2>1 DEF KeyIn, Copies
<1>6. CASE ReadEntry(p) = None /\ ReadEntry(Legacy) # None
  <2>1. /\ o[1] = chain[Legacy] /\ o[2] \in {chain, Stored(p, chain[Legacy])}
        /\ chain[Legacy] # None /\ chain[p] = None
    BY <1>2, <1>6 DEF MasterKeyOutcomes, ReadEntry
  <2>. QED
    BY <2>1, <1>1, <1>4 DEF KeyIn, Copies
<1>7. CASE ReadEntry(p) = None /\ ReadEntry(Legacy) = None
  <2>1. CASE o = <<None, chain>>
    BY <2>1 DEF Copies
  <2>2. CASE o # <<None, chain>>
    <3>1. p \notin denied /\ \E k \in FreshMaster : o = <<k, Stored(p, k)>>
      BY <1>7, <2>2 DEF MasterKeyOutcomes
    <3>2. PICK k \in FreshMaster : o = <<k, Stored(p, k)>>
      BY <3>1
    <3>3. chain[p] = None /\ chain[Legacy] = None
      BY <3>1, <1>2, <1>7 DEF ReadEntry
    <3>. QED
      BY <3>2, <3>3, <1>1, <1>3, <1>4 DEF KeyIn, Copies
  <2>. QED
    BY <2>1, <2>2
<1>. QED
  BY <1>5, <1>6, <1>7

\* A vault whose files stay as they are opens as before when the key at hand
\* stays, or when its first key is minted: no stored vault was sealed with it.
LEMMA OpenableStays ==
  ASSUME TypeOK, NEW p \in Profiles,
         meta'[p] = meta[p], data'[p] = data[p], keyFile'[p] = keyFile[p],
         \/ KeyIn(chain', p) = KeyIn(chain, p)
         \/ KeyIn(chain, p) = None /\ KeyIn(chain', p) \in FreshMaster
  PROVE  Openable(p)' = Openable(p)
<1>1. CASE meta[p] \notin Metas
  BY <1>1 DEF Openable, Decrypted, Ready
<1>2. CASE meta[p] \in Metas
  <2>1. meta[p].key[1] \in Masters \cup {BuiltIn} /\ meta[p].key[1] # None
    BY <1>2, VaultAssumption DEF Metas, Keys
  <2>2. meta[p].key[1] \notin FreshMaster
    BY <1>2 DEF FreshMaster, SealedKeys
  <2>. QED
    BY <2>1, <2>2 DEF Openable, Decrypted, Ready
<1>. QED
  BY <1>1, <1>2

\* No openable vault changes but possibly p's.
OthersStay(p) == \A q \in Profiles \ {p} : Openable(q)' = Openable(q)

\* The write of vault.dat, torn or whole, changes nothing that can be opened: meta
\* describes another key or nothing.
LEMMA SealStep ==
  ASSUME WholeService, IInv, Typed', NEW x \in Secrets, CreateSeal(x)
  PROVE  IInv' /\ Kept' = Kept /\ Wiping' = Wiping
<1> USE DEF IInv
<1>1. PICK o \in MasterKeyOutcomes(active), s \in FreshSalts :
        /\ o[1] # None
        /\ chain' = o[2]
        /\ \/ /\ data' = [data EXCEPT ![active] = [key |-> <<o[1], s>>, payload |-> x]]
              /\ stage' = "writeMeta"
           \/ /\ data' = [data EXCEPT ![active] = Torn]
              /\ UNCHANGED stage
  BY DEF CreateSeal
<1>2. active \in Profiles /\ TypeOK
  BY DEF Typed, TypeOK
<1>3. /\ \A q \in Profiles \ {active} : KeyIn(chain', q) = KeyIn(chain, q)
      /\ o[1] = KeyIn(chain', active)
      /\ Copies'
  BY <1>1, <1>2, OutcomeKeepsKey DEF Copies
<1>4. /\ \A q \in Profiles \ {active} :
           meta'[q] = meta[q] /\ data'[q] = data[q] /\ keyFile'[q] = keyFile[q]
      /\ meta'[active] \in Metas => meta'[active] = meta[active]
      /\ active' = active /\ session' = session /\ denied' = denied
      /\ stage = "idle" /\ stage' \in {"idle", "writeMeta"}
  BY <1>1, <1>2, VaultAssumption DEF CreateSeal, MetaAfterRead, Typed, TypeOK
<1>5. OthersStay(active)
  BY <1>2, <1>3, <1>4, OpenableStays DEF OthersStay
<1>6. ASSUME meta'[active] \in Metas, data'[active] \in Blobs
      PROVE  meta'[active].key # data'[active].key
  <2>1. data'[active].key = <<o[1], s>>
    BY <1>1, <1>2, <1>6, VaultAssumption DEF Typed, TypeOK
  <2>2. meta[active].key \in SealedKeys
    BY <1>2, <1>4, <1>6 DEF SealedKeys
  <2>. QED
    BY <1>4, <1>6, <2>1, <2>2 DEF FreshSalts
<1>7. Openable(active) = None /\ Openable(active)' = None
  BY <1>4, <1>6 DEF CreateSeal, Openable, Decrypted, Ready
<1>8. session = None
  BY <1>7 DEF SessionIsVault
<1>9. SealedAhead'
  <2>1. ASSUME stage' = "writeMeta" PROVE data'[active].key[1] = o[1]
    BY <1>1, <1>2, <1>4, <2>1 DEF Typed, TypeOK
  <2>. QED
    BY <1>3, <1>4, <1>6, <1>8, <2>1 DEF SealedAhead, Typed
<1>. QED
  BY <1>2, <1>3, <1>4, <1>5, <1>7, <1>8, <1>9
     DEF OthersStay, Kept, Wiping, NoSessionInWipe, WipeStages, OutageOK, SessionIsVault

\* The write of meta is the step at which a new seed becomes the one kept.
LEMMA MetaStep ==
  ASSUME IInv, Typed', CreateMeta
  PROVE  IInv' /\ [C!Next]_(C!vars)
<1> USE DEF IInv
<1>1. /\ active \in Profiles /\ TypeOK /\ stage = "writeMeta" /\ stage' = "idle"
      /\ active' = active /\ chain' = chain /\ denied' = denied
      /\ data' = data /\ keyFile' = keyFile /\ session = None
      /\ data[active] \in Blobs
  BY DEF CreateMeta, Typed, TypeOK, SealedAhead
<1>2. OthersStay(active)
  BY <1>1, OpenableStays DEF CreateMeta, OthersStay, TypeOK
<1>3. Openable(active) = None
  BY <1>1 DEF SealedAhead, Openable, Decrypted, Ready
<1>4. SealedAhead' /\ NoSessionInWipe' /\ Copies' /\ OutageOK'
  BY <1>1 DEF SealedAhead, NoSessionInWipe, Copies, OutageOK, WipeStages
<1>5. Wiping = None /\ Wiping' = None
  BY <1>1 DEF Wiping
<1>6. CASE meta' = [meta EXCEPT ![active] = [backed |-> "keychain", key |-> data[active].key]]
           /\ session' = data[active].payload
  <2> DEFINE x == data[active].payload
  <2>1. meta'[active] \in Metas /\ meta'[active].key = data[active].key
    BY <1>1, <1>6 DEF Metas, Blobs, Backings, TypeOK
  <2>2. data[active] # None /\ x \in Secrets /\ x # None
    BY <1>1, VaultAssumption DEF Blobs
  <2>3. meta'[active].key[1] = KeyIn(chain', active)
    BY <1>1, <2>1 DEF SealedAhead
  <2>4. Openable(active)' = x
    BY <1>1, <2>1, <2>2, <2>3 DEF Openable, Decrypted, Ready
  <2>5. Kept' = [Kept EXCEPT ![active] = x]
    BY <1>1, <1>2, <2>4 DEF Kept, OthersStay
  <2>6. C!Store(active, x)
    BY <1>1, <1>3, <1>5, <2>5 DEF C!Store, Kept
  <2>. QED
    BY <1>1, <1>4, <1>6, <2>2, <2>4, <2>6 DEF C!Next, SessionIsVault
<1>7. CASE meta' = [meta EXCEPT ![active] = Torn] /\ session' = session
  <2>1. Openable(active)' = None
    BY <1>1, <1>7, VaultAssumption DEF Openable, Decrypted, Ready, TypeOK
  <2>2. Kept' = Kept
    BY <1>1, <1>2, <1>3, <2>1 DEF Kept, OthersStay
  <2>. QED
    BY <1>1, <1>4, <1>5, <1>7, <2>2 DEF C!vars, SessionIsVault
<1>. QED
  BY <1>6, <1>7 DEF CreateMeta

\* An unlock opens what the vault holds or leaves the session alone; the keys it
\* copies or mints change no vault.
LEMMA UnlockStep ==
  ASSUME WholeService, IInv, Typed', Unlock
  PROVE  IInv' /\ Kept' = Kept /\ Wiping' = Wiping
<1> USE DEF IInv
<1>1. /\ active \in Profiles /\ TypeOK /\ stage = "idle" /\ stage' = stage
      /\ active' = active /\ denied' = denied
      /\ meta' = meta /\ data' = data /\ keyFile' = keyFile
  BY DEF Unlock, Typed, TypeOK, disk
<1>2. PICK o : /\ o \in MasterKeyOutcomes(active) \/ o = <<None, chain>>
               /\ chain' = o[2]
               /\ session' = IF Decrypted(active, o[1]) # None
                             THEN Decrypted(active, o[1]) ELSE session
  BY DEF Unlock
<1>3. /\ \A q \in Profiles \ {active} : KeyIn(chain', q) = KeyIn(chain, q)
      /\ o[1] # None => o[1] = KeyIn(chain', active)
      /\ \/ KeyIn(chain', active) = KeyIn(chain, active)
         \/ KeyIn(chain, active) = None /\ KeyIn(chain', active) \in FreshMaster
      /\ Copies'
  BY <1>1, <1>2, OutcomeKeepsKey DEF Copies
<1>4. \A q \in Profiles : Openable(q)' = Openable(q)
  BY <1>1, <1>3, OpenableStays
<1>5. Decrypted(active, o[1]) # None => Decrypted(active, o[1]) = Openable(active)'
  <2> SUFFICES ASSUME Decrypted(active, o[1]) # None
               PROVE  Decrypted(active, o[1]) = Openable(active)'
    OBVIOUS
  <2>1. /\ Ready(active) /\ data[active] \in Blobs /\ data[active].key = meta[active].key
        /\ meta[active].key[1] \in {o[1], keyFile[active], BuiltIn}
        /\ Decrypted(active, o[1]) = data[active].payload
    BY DEF Decrypted
  <2>2. meta[active].key[1] # None
    BY <2>1, VaultAssumption DEF Ready, Metas, Keys
  <2>3. meta[active].key[1] \in {KeyIn(chain', active), keyFile[active], BuiltIn}
    BY <1>3, <2>1, <2>2
  <2>. QED
    BY <1>1, <2>1, <2>3 DEF Openable, Decrypted, Ready
<1>6. SessionIsVault'
  BY <1>1, <1>2, <1>4, <1>5 DEF SessionIsVault
<1>. QED
  BY <1>1, <1>3, <1>4, <1>6
     DEF Kept, Wiping, NoSessionInWipe, WipeStages, SealedAhead, OutageOK

\* The steps that touch no seed: a PIN-era vault holds none.
LEMMA QuietStep ==
  ASSUME IInv, Typed',
         \/ WalletExists
         \/ ClearSession
         \/ \E p \in Profiles : SwitchProfile(p)
         \/ \E d \in Outages : Deny(d)
  PROVE  IInv' /\ Kept' = Kept /\ Wiping' = Wiping
<1> USE DEF IInv
<1>1. TypeOK /\ active \in Profiles
  BY DEF Typed, TypeOK
<1>2. CASE WalletExists
  <2>1. /\ stage = "idle" /\ stage' = stage /\ active' = active /\ denied' = denied
        /\ session' = session /\ chain' = chain /\ keyFile' = keyFile
        /\ meta[active] \notin Metas /\ meta'[active] \notin Metas
        /\ \A q \in Profiles \ {active} : meta'[q] = meta[q] /\ data'[q] = data[q]
    BY <1>1, <1>2, VaultAssumption DEF WalletExists, MetaAfterRead, DataAfterRead, TypeOK
  <2>2. \A q \in Profiles : Openable(q)' = Openable(q)
    <3>1. Openable(active)' = Openable(active)
      BY <2>1 DEF Openable, Decrypted, Ready
    <3>. QED
      BY <1>1, <2>1, <3>1, OpenableStays
  <2>. QED
    BY <1>1, <2>1, <2>2 DEF Kept, Wiping, SealedAhead, NoSessionInWipe, WipeStages, Copies,
       OutageOK, SessionIsVault
<1>3. CASE ~WalletExists
  <2>1. /\ meta' = meta /\ data' = data /\ keyFile' = keyFile /\ chain' = chain
        /\ stage' = stage
        /\ denied' = denied \/ denied' \in Outages
        /\ \/ session' = None /\ stage = "idle"
           \/ session' = session /\ active' = active
    BY <1>3 DEF ClearSession, SwitchProfile, Deny, disk
  <2>2. \A q \in Profiles : Openable(q)' = Openable(q)
    BY <1>1, <2>1, OpenableStays
  <2>3. Kept' = Kept /\ Wiping' = Wiping
    BY <2>1, <2>2, <1>3 DEF Kept, Wiping, ClearSession, SwitchProfile, Deny
  <2>. QED
    BY <1>1, <2>1, <2>2, <2>3 DEF SealedAhead, NoSessionInWipe, WipeStages, Copies, OutageOK,
       SessionIsVault
<1>. QED
  BY <1>2, <1>3

\* A wipe, and a crash inside it, loses no seed but that of the wiped profile.
LEMMA WipeStep ==
  ASSUME IInv, Typed', BeginWipe \/ WipeData \/ WipeMeta \/ WipeKeyFile \/ WipeEntry \/ Crash
  PROVE  IInv' /\ [C!Next]_(C!vars)
<1> USE DEF IInv
<1>1. /\ TypeOK /\ active \in Profiles /\ active # None
      /\ active' = active /\ denied' = denied /\ stage' # "writeMeta"
  BY VaultAssumption DEF Typed, TypeOK, BeginWipe, WipeData, WipeMeta, WipeKeyFile, WipeEntry, Crash
<1>2. session' = None
  BY DEF BeginWipe, WipeData, WipeMeta, WipeKeyFile, WipeEntry, Crash, NoSessionInWipe, WipeStages
<1>3. /\ \A q \in Profiles \ {active} :
           meta'[q] = meta[q] /\ data'[q] = data[q] /\ keyFile'[q] = keyFile[q]
      /\ \A a \in Accounts \ {active} : chain'[a] = chain[a]
      /\ chain'[active] \in {chain[active], None}
  BY <1>1 DEF BeginWipe, WipeData, WipeMeta, WipeKeyFile, WipeEntry, Crash, Removed, Stored,
     disk, TypeOK, Accounts
<1>4. Legacy \in Accounts /\ Legacy # active /\ Profiles \subseteq Accounts
  BY <1>1, VaultAssumption DEF Accounts
<1>5. OthersStay(active)
  BY <1>1, <1>3, <1>4, OpenableStays DEF OthersStay, KeyIn
<1>6. KeyIn(chain', active) \in {KeyIn(chain, active), None}
  BY <1>1, <1>3, <1>4 DEF KeyIn, Copies
<1>7. IInv'
  BY <1>1, <1>2, <1>3, <1>4
     DEF SealedAhead, NoSessionInWipe, Copies, OutageOK, SessionIsVault
<1>8. CASE BeginWipe
  <2>1. Openable(active)' = Openable(active)
    BY <1>1, <1>8, OpenableStays DEF BeginWipe, disk
  <2>2. Kept' = Kept
    BY <1>1, <1>5, <2>1 DEF Kept, OthersStay
  <2>3. Wiping = None /\ Wiping' = active
    BY <1>1, <1>8 DEF Wiping, BeginWipe
  <2>. QED
    BY <1>1, <1>7, <2>2, <2>3 DEF C!Next, C!BeginWipe
<1>9. CASE Crash /\ stage = "writeMeta"
  <2>1. Openable(active)' = Openable(active)
    BY <1>1, <1>9, OpenableStays DEF Crash, disk
  <2>2. Kept' = Kept
    BY <1>1, <1>5, <2>1 DEF Kept, OthersStay
  <2>3. Wiping = None /\ Wiping' = None
    BY <1>9 DEF Wiping, Crash
  <2>. QED
    BY <1>7, <2>2, <2>3 DEF C!vars
<1>10. CASE stage \in WipeStages
  <2>1. Wiping = active /\ Wiping' \in {active, None}
    BY <1>1, <1>10 DEF Wiping, WipeStages
  <2>2. Openable(active)' \in {Openable(active), None}
    <3>1. meta'[active] \in {meta[active], None} /\ data'[active] \in {data[active], None}
          /\ keyFile'[active] \in {keyFile[active], None}
      BY <1>1, <1>10 DEF BeginWipe, WipeData, WipeMeta, WipeKeyFile, WipeEntry, Crash, Removed,
         disk, TypeOK
    <3> SUFFICES ASSUME Openable(active)' # None PROVE Openable(active)' = Openable(active)
      OBVIOUS
    <3>2. /\ meta'[active] \in Metas /\ data'[active] \in Blobs /\ data'[active] # None
          /\ data'[active].key = meta'[active].key
          /\ meta'[active].key[1] \in {KeyIn(chain', active), keyFile'[active], BuiltIn}
          /\ Openable(active)' = data'[active].payload
      BY <1>1 DEF Openable, Decrypted, Ready
    <3>3. meta'[active] = meta[active] /\ data'[active] = data[active]
      BY <3>1, <3>2, VaultAssumption
    <3>4. meta[active].key[1] # None
      BY <3>2, <3>3, VaultAssumption DEF Metas, Keys
    <3>5. meta[active].key[1] \in {KeyIn(chain, active), keyFile[active], BuiltIn}
      BY <1>6, <3>1, <3>2, <3>3, <3>4
    <3>. QED
      BY <3>2, <3>3, <3>5 DEF Openable, Decrypted, Ready
  <2>3. Kept' \in {Kept, [Kept EXCEPT ![active] = None]}
    BY <1>1, <1>5, <2>2 DEF Kept, OthersStay
  <2>. QED
    BY <1>1, <1>7, <2>1, <2>3 DEF C!Next, C!Wipe
<1>. QED
  BY <1>8, <1>9, <1>10, <1>1
     DEF WipeData, WipeMeta, WipeKeyFile, WipeEntry, Crash, WipeStages, Typed, TypeOK, Stages

-----------------------------------------------------------------------------
\* What Init and every step give, put together.
LEMMA VaultInit == Init /\ WholeService => IInv /\ C!Init
<1> SUFFICES ASSUME Init, Typed, WholeService PROVE IInv /\ C!Init
  BY InitTyped
<1>1. \A p \in Profiles : Openable(p) \in Secrets \cup {None}
  BY DecryptedType DEF Openable
<1>. QED
  BY <1>1 DEF Init, IInv, SealedAhead, NoSessionInWipe, WipeStages, Copies, OutageOK,
     SessionIsVault, C!Init, Kept, Wiping

\* Every step keeps the inductive invariant and maps to a step of Custody or none.
LEMMA VaultStep ==
  ASSUME WholeService, IInv, [Next]_vars
  PROVE  IInv' /\ [C!Next]_(C!vars)
<1>1. Typed'
  BY NextTyped DEF IInv
<1>2. ASSUME NEW x \in Secrets, CreateSeal(x) PROVE IInv' /\ UNCHANGED C!vars
  BY <1>1, <1>2, SealStep DEF C!vars
<1>3. CASE Unlock
  BY <1>1, <1>3, UnlockStep DEF C!vars
<1>4. CASE WalletExists \/ ClearSession \/ (\E p \in Profiles : SwitchProfile(p))
           \/ \E d \in Outages : Deny(d)
  BY <1>1, <1>4, QuietStep DEF C!vars
<1>5. CASE UNCHANGED vars
  BY <1>5 DEF vars, C!vars, IInv, Typed, TypeOK, SealedAhead, NoSessionInWipe, Copies, OutageOK,
     SessionIsVault, Openable, Decrypted, Ready, Kept, Wiping
<1>. QED
  BY <1>1, <1>2, <1>3, <1>4, <1>5, MetaStep, WipeStep DEF Next

\* With a keychain that answers for every account or for none, the session is
\* always the seed the active profile's vault holds.
THEOREM SessionFromVault == WholeService => (Spec => []SessionIsVault)
<1> SUFFICES ASSUME WholeService PROVE Spec => []SessionIsVault
  OBVIOUS
<1>1. Init => IInv
  BY VaultInit
<1>2. IInv /\ [Next]_vars => IInv'
  BY VaultStep
<1>3. IInv => SessionIsVault
  BY DEF IInv
<1>. QED
  BY <1>1, <1>2, <1>3, PTL DEF Spec

\* The vault implements Custody, whatever the number of profiles, of wipes and
\* of faults: no step replaces a stored seed, and only a wipe of a profile,
\* finished or not, loses the seed of that profile.
THEOREM VaultImplementsCustody == WholeService => (Spec => CustodyHolds)
<1> SUFFICES ASSUME WholeService PROVE Spec => CustodyHolds
  OBVIOUS
<1>1. Init => IInv /\ C!Init
  BY VaultInit
<1>2. IInv /\ [Next]_vars => IInv' /\ [C!Next]_(C!vars)
  BY VaultStep
<1>. QED
  BY <1>1, <1>2, PTL DEF Spec, CustodyHolds, C!Spec
-----------------------------------------------------------------------------
(***************************************************************************)
(* What a single fault - a crash, a torn write, a failed removal - can do  *)
(* to the vaults                                                           *)
(***************************************************************************)
OneFault == MaxFaults \in {0, 1}

\* A vault that is reported opens, also just before a wipe removes its first file.
ReadyOpens ==
  \A p \in Profiles :
    Ready(p) /\ (p # active \/ stage \in {"idle", "wipeData"}) => Openable(p) # None

\* vault.meta.json is without vault.dat between the first two removals of a wipe, or
\* for good after a fault,
MetaAlone ==
  \A p \in Profiles :
    meta[p] \in Metas /\ data[p] = None => faults # 0 \/ (p = active /\ stage = "wipeMeta")

\* and a create finds a meta of an earlier vault only after that fault.
SealedOver == stage = "writeMeta" /\ meta[active] \in Metas => faults # 0

\* vault.dat outlasts its removal only by a fault; one of the two files is gone
\* before any key is.
WipeInOrder ==
  /\ stage = "wipeMeta" /\ data[active] # None => faults # 0
  /\ stage \in {"wipeKeyFile", "wipeEntry"} => ~Ready(active)

OrderInv == MetaAlone /\ SealedOver /\ WipeInOrder

FInv == ReadyOpens /\ OrderInv
-----------------------------------------------------------------------------
\* There is one fault and no second; faults only grow.
LEMMA FaultIsFirst ==
  ASSUME OneFault, TypeOK
  PROVE  /\ Fault => faults = 0 /\ faults' # 0
         /\ [Next]_vars => (faults # 0 => faults' = faults)
<1>1. faults \in {0, 1} /\ (Fault => faults = 0 /\ faults' # 0)
  BY VaultAssumption DEF OneFault, TypeOK, Fault
<1>2. faults # 0 => ~Fault
  BY <1>1
<1>3. ASSUME [Next]_vars, faults # 0
      PROVE  faults' = faults
  BY <1>2, <1>3 DEF Next, vars, WalletExists, CreateSeal, CreateMeta, Unlock, ClearSession,
     SwitchProfile, BeginWipe, WipeData, WipeMeta, WipeKeyFile, WipeEntry, Crash, Deny
<1>. QED
  BY <1>1, <1>3

LEMMA KeptMeans ==
  ASSUME Kept' = Kept
  PROVE  \A p \in Profiles : Openable(p)' = Openable(p)
<1>. SUFFICES ASSUME NEW p \in Profiles
              PROVE  Openable(p)' = Openable(p)
  OBVIOUS
<1>1. Kept'[p] = Openable(p)' /\ Kept[p] = Openable(p)
  BY DEF Kept
<1>. QED
  BY <1>1

\* Earlier versions left vaults that open.
LEMMA FaultInit == Init => FInv
<1>. SUFFICES ASSUME Init
              PROVE  FInv
  OBVIOUS
<1>1. PICK old \in [Profiles -> OldRoots] :
        /\ \A p \in Profiles :
             old[p].meta \in Metas /\ old[p].meta.backed = "keychain" =>
               old[p].meta.key[1] = KeyIn(chain, p)
        /\ meta = [p \in Profiles |-> old[p].meta]
        /\ data = [p \in Profiles |-> old[p].data]
        /\ keyFile = [p \in Profiles |-> old[p].keyFile]
  BY DEF Init
<1>2. ASSUME NEW p \in Profiles, meta[p] \in Metas
      PROVE  data[p] # None /\ Openable(p) # None
  <2>1. PICK b \in Backings, k \in Masters \cup {BuiltIn}, s \in Salts, x \in Secrets :
          old[p] = OldVault(b, k, s, x) /\ (b = "builtin" => k = BuiltIn)
    <3>1. old[p] \in OldRoots /\ meta[p] = old[p].meta
      BY <1>1
    <3>2. old[p].meta \notin {None, PinEra}
      BY <1>2, <3>1, VaultAssumption
    <3>. QED
      BY <3>1, <3>2 DEF OldRoots, Backings
  <2>2. /\ meta[p] = [backed |-> b, key |-> <<k, s>>]
        /\ data[p] = [key |-> <<k, s>>, payload |-> x]
        /\ keyFile[p] = IF b = "file" THEN k ELSE None
    BY <1>1, <2>1 DEF OldVault
  <2>3. k \in {KeyIn(chain, p), keyFile[p], BuiltIn}
    BY <1>1, <1>2, <2>1, <2>2 DEF Backings
  <2>4. data[p] \in Blobs /\ data[p] # None /\ x # None
    BY <2>1, <2>2, VaultAssumption DEF Blobs, Keys
  <2>. QED
    BY <1>2, <2>2, <2>3, <2>4 DEF Openable, Decrypted, Ready
<1>. QED
  BY <1>2 DEF Init, FInv, OrderInv, ReadyOpens, MetaAlone, SealedOver, WipeInOrder, Ready

\* A create that overwrites the meta of an earlier vault is cut short by no fault.
LEMMA SealOrder ==
  ASSUME OneFault, Typed, OrderInv, [Next]_vars, NEW x \in Secrets, CreateSeal(x)
  PROVE  /\ OrderInv'
         /\ active' = active
         /\ \A p \in Profiles \ {active} : meta'[p] = meta[p] /\ data'[p] = data[p]
         /\ Ready(active)' => stage' = "writeMeta"
<1>. USE DEF OrderInv
<1>1. TypeOK /\ active \in Profiles /\ Typed'
  BY NextTyped DEF Typed, TypeOK
<1>2. /\ ~Ready(active) /\ stage = "idle" /\ active' = active /\ meta' = MetaAfterRead(active)
      /\ \E b \in Blobs \cup {Torn} : data' = [data EXCEPT ![active] = b]
      /\ \/ stage' = "writeMeta" /\ faults' = faults
         \/ stage' = "idle" /\ Fault
  <2>1. PICK o \in MasterKeyOutcomes(active), s \in FreshSalts :
          /\ o[1] # None
          /\ \/ /\ data' = [data EXCEPT ![active] = [key |-> <<o[1], s>>, payload |-> x]]
                /\ stage' = "writeMeta"
                /\ UNCHANGED faults
             \/ /\ Fault
                /\ data' = [data EXCEPT ![active] = Torn]
                /\ UNCHANGED stage
    BY DEF CreateSeal
  <2>2. [key |-> <<o[1], s>>, payload |-> x] \in Blobs
    BY <1>1, <2>1, OutcomeType DEF Blobs, Keys, FreshSalts
  <2>. QED
    BY <2>1, <2>2 DEF CreateSeal
<1>3. /\ \A p \in Profiles \ {active} : meta'[p] = meta[p] /\ data'[p] = data[p]
      /\ data'[active] # None
      /\ meta'[active] \in Metas => meta'[active] = meta[active]
  <2>1. /\ \A p \in Profiles \ {active} : meta'[p] = meta[p]
        /\ meta'[active] \in Metas => meta'[active] = meta[active]
    BY <1>1, <1>2, VaultAssumption DEF MetaAfterRead, TypeOK
  <2>2. PICK b \in Blobs \cup {Torn} : data' = [data EXCEPT ![active] = b]
    BY <1>2
  <2>3. b # None
    BY VaultAssumption
  <2>. QED
    BY <1>1, <2>1, <2>2, <2>3 DEF TypeOK
<1>4. meta'[active] \in Metas => faults # 0
  BY <1>1, <1>2, <1>3 DEF Ready, MetaAlone
<1>5. faults # 0 => faults' = faults /\ stage' = "writeMeta"
  BY <1>1, <1>2, FaultIsFirst
<1>6. Ready(active)' => stage' = "writeMeta"
  BY <1>2, <1>4, <1>5 DEF Ready
<1>7. MetaAlone' /\ SealedOver' /\ WipeInOrder'
  BY <1>2, <1>3, <1>4, <1>5 DEF MetaAlone, SealedOver, WipeInOrder
<1>. QED
  BY <1>2, <1>3, <1>6, <1>7

\* What lies on the disk in which order is not the keychain's business.
LEMMA OrderStep ==
  ASSUME OneFault, Typed, OrderInv, [Next]_vars
  PROVE  OrderInv'
<1>. USE DEF OrderInv
<1>0. TypeOK /\ active \in Profiles /\ None \notin Metas
  BY VaultAssumption DEF Typed, TypeOK
<1>1. Fault => faults = 0 /\ faults' # 0
  BY <1>0, FaultIsFirst
<1>2. faults # 0 => faults' = faults
  BY <1>0, FaultIsFirst
<1>3. CASE CreateMeta
  <2>1. /\ stage = "writeMeta" /\ stage' = "idle" /\ active' = active /\ data' = data
        /\ data[active] \in Blobs /\ \A p \in Profiles \ {active} : meta'[p] = meta[p]
    BY <1>0, <1>3 DEF CreateMeta, Typed, TypeOK
  <2>2. data[active] # None
    BY <2>1, VaultAssumption
  <2>. QED
    BY <1>0, <1>2, <2>1, <2>2 DEF MetaAlone, SealedOver, WipeInOrder
<1>4. CASE \/ WalletExists \/ Unlock \/ ClearSession
           \/ \E p \in Profiles : SwitchProfile(p)
           \/ \E d \in Outages : Deny(d)
  <2>1. /\ stage' = stage /\ faults' = faults
        /\ active' = active \/ stage = "idle"
        /\ \A p \in Profiles : /\ meta'[p] \in Metas => meta'[p] = meta[p] /\ data'[p] = data[p]
                               /\ stage # "idle" => meta'[p] = meta[p] /\ data'[p] = data[p]
    BY <1>0, <1>4, VaultAssumption DEF WalletExists, Unlock, ClearSession, SwitchProfile, Deny,
       MetaAfterRead, DataAfterRead, disk, TypeOK
  <2>. QED
    BY <1>0, <2>1 DEF MetaAlone, SealedOver, WipeInOrder, Ready
<1>5. CASE BeginWipe \/ WipeData \/ WipeMeta \/ WipeKeyFile \/ WipeEntry \/ Crash
  <2>1. /\ active' = active
        /\ \A p \in Profiles \ {active} : meta'[p] = meta[p] /\ data'[p] = data[p]
    BY <1>0, <1>5 DEF BeginWipe, WipeData, WipeMeta, WipeKeyFile, WipeEntry, Crash, Removed,
       disk, TypeOK
  <2>2. CASE BeginWipe
    <3>1. stage = "idle" /\ stage' = "wipeData" /\ UNCHANGED <<meta, data, faults>>
      BY <2>2 DEF BeginWipe, disk
    <3>. QED
      BY <1>0, <2>1, <3>1 DEF MetaAlone, SealedOver, WipeInOrder
  <2>3. CASE WipeData
    <3>1. /\ stage = "wipeData" /\ stage' = "wipeMeta" /\ meta' = meta
          /\ data'[active] # None => faults' # 0
      BY <1>0, <1>1, <2>3 DEF WipeData, Removed, TypeOK
    <3>. QED
      BY <1>0, <1>2, <2>1, <3>1 DEF MetaAlone, SealedOver, WipeInOrder
  <2>4. CASE WipeMeta
    <3>1. /\ stage = "wipeMeta" /\ stage' = "wipeKeyFile" /\ data' = data
          /\ meta'[active] = None \/ (data[active] = None /\ faults' # 0)
      BY <1>0, <1>1, <2>4 DEF WipeMeta, Removed, TypeOK, WipeInOrder
    <3>. QED
      BY <1>0, <1>2, <2>1, <3>1 DEF MetaAlone, SealedOver, WipeInOrder, Ready
  <2>5. CASE WipeKeyFile \/ WipeEntry
    <3>1. /\ stage \in {"wipeKeyFile", "wipeEntry"} /\ stage' \in {"wipeEntry", "idle"}
          /\ UNCHANGED <<meta, data>>
      BY <2>5 DEF WipeKeyFile, WipeEntry, disk
    <3>. QED
      BY <1>0, <1>2, <2>1, <3>1 DEF MetaAlone, SealedOver, WipeInOrder, Ready
  <2>6. CASE Crash
    <3>1. faults' # 0 /\ stage' = "idle"
      BY <1>1, <2>6 DEF Crash
    <3>. QED
      BY <3>1 DEF MetaAlone, SealedOver, WipeInOrder
  <2>. QED
    BY <1>5, <2>2, <2>3, <2>4, <2>5, <2>6
<1>6. CASE UNCHANGED vars
  BY <1>6 DEF vars, MetaAlone, SealedOver, WipeInOrder, Ready
<1>. QED
  BY <1>3, <1>4, <1>5, <1>6, SealOrder DEF Next

LEMMA SealFaults ==
  ASSUME WholeService, OneFault, IInv, FInv, [Next]_vars, NEW x \in Secrets, CreateSeal(x)
  PROVE  ReadyOpens'
<1>. USE DEF FInv
<1>1. Typed /\ Typed'
  BY NextTyped DEF IInv
<1>2. \A p \in Profiles : Openable(p)' = Openable(p)
  BY <1>1, SealStep, KeptMeans
<1>3. /\ active' = active /\ active \in Profiles
      /\ \A p \in Profiles \ {active} : meta'[p] = meta[p] /\ data'[p] = data[p]
      /\ Ready(active)' => stage' = "writeMeta"
  BY <1>1, SealOrder DEF Typed, TypeOK
<1>4. stage = "idle"
  BY DEF CreateSeal
<1>. QED
  BY <1>2, <1>3, <1>4 DEF ReadyOpens, Ready

LEMMA MetaFaults ==
  ASSUME OneFault, IInv, FInv, [Next]_vars, CreateMeta
  PROVE  ReadyOpens'
<1>. USE DEF FInv
<1>0. /\ TypeOK /\ active \in Profiles /\ stage = "writeMeta" /\ stage' = "idle"
      /\ data[active] \in Blobs /\ data[active].key[1] = KeyIn(chain, active)
      /\ UNCHANGED <<data, keyFile, chain, active>>
  BY DEF IInv, Typed, TypeOK, CreateMeta, SealedAhead
<1>1. \A p \in Profiles \ {active} : meta'[p] = meta[p] /\ Openable(p)' = Openable(p)
  BY <1>0, OpenableStays DEF CreateMeta, TypeOK
<1>2. data[active] # None /\ data[active].payload # None
  BY <1>0, VaultAssumption DEF Blobs
<1>3. \/ meta'[active] = [backed |-> "keychain", key |-> data[active].key]
      \/ meta'[active] = Torn
  BY <1>0 DEF CreateMeta, TypeOK
<1>4. Ready(active)' => Openable(active)' # None
  BY <1>0, <1>2, <1>3, VaultAssumption DEF Openable, Decrypted, Ready
<1>. QED
  BY <1>0, <1>1, <1>4 DEF ReadyOpens, Ready

\* The steps that change no vault.dat nor a vault.meta.json this version reads
LEMMA QuietFaults ==
  ASSUME WholeService, OneFault, IInv, FInv, [Next]_vars,
         \/ WalletExists \/ Unlock \/ ClearSession
         \/ \E p \in Profiles : SwitchProfile(p)
         \/ \E d \in Outages : Deny(d)
  PROVE  ReadyOpens'
<1>. USE DEF FInv
<1>0. TypeOK /\ active \in Profiles /\ Typed'
  BY NextTyped DEF IInv, Typed, TypeOK
<1>1. \A p \in Profiles : Openable(p)' = Openable(p)
  BY <1>0, UnlockStep, QuietStep, KeptMeans
<1>2. /\ stage' = stage
      /\ active' = active \/ stage = "idle"
      /\ \A p \in Profiles : /\ meta'[p] \in Metas => meta'[p] = meta[p] /\ data'[p] = data[p]
                             /\ stage # "idle" => meta'[p] = meta[p] /\ data'[p] = data[p]
  BY <1>0, VaultAssumption DEF WalletExists, Unlock, ClearSession, SwitchProfile, Deny,
     MetaAfterRead, DataAfterRead, disk, TypeOK
<1>. QED
  BY <1>1, <1>2 DEF ReadyOpens, Ready

LEMMA WipeFaults ==
  ASSUME OneFault, IInv, FInv, [Next]_vars,
         BeginWipe \/ WipeData \/ WipeMeta \/ WipeKeyFile \/ WipeEntry \/ Crash
  PROVE  ReadyOpens'
<1>. USE DEF FInv, OrderInv
<1>0. /\ TypeOK /\ active \in Profiles /\ active' = active
      /\ None \notin Metas
  BY VaultAssumption DEF IInv, Typed, TypeOK, BeginWipe, WipeData, WipeMeta, WipeKeyFile,
     WipeEntry, Crash
<1>1. /\ \A p \in Profiles \ {active} :
           meta'[p] = meta[p] /\ data'[p] = data[p] /\ keyFile'[p] = keyFile[p]
      /\ \A p \in Profiles \ {active} : Openable(p)' = Openable(p)
  <2>1. /\ \A p \in Profiles \ {active} :
             meta'[p] = meta[p] /\ data'[p] = data[p] /\ keyFile'[p] = keyFile[p]
        /\ \A a \in Accounts \ {active} : chain'[a] = chain[a]
    BY <1>0 DEF BeginWipe, WipeData, WipeMeta, WipeKeyFile, WipeEntry, Crash, Removed, Stored,
       disk, TypeOK, Accounts
  <2>2. Legacy \in Accounts /\ Legacy # active /\ Profiles \subseteq Accounts
    BY <1>0, VaultAssumption DEF Accounts
  <2>. QED
    BY <1>0, <2>1, <2>2, OpenableStays DEF KeyIn
<1>2. CASE BeginWipe
  <2>1. Openable(active)' = Openable(active)
    BY <1>0, <1>2, OpenableStays DEF BeginWipe, disk
  <2>2. stage = "idle" /\ stage' = "wipeData" /\ UNCHANGED disk
    BY <1>2 DEF BeginWipe
  <2>. QED
    BY <1>0, <1>1, <2>1, <2>2 DEF disk, ReadyOpens, Ready
<1>3. CASE WipeData \/ WipeMeta \/ WipeKeyFile
  <2>1. stage' \notin {"idle", "wipeData"}
    BY <1>3 DEF WipeData, WipeMeta, WipeKeyFile
  <2>. QED
    BY <1>0, <1>1, <2>1, <1>3 DEF WipeData, WipeMeta, WipeKeyFile, ReadyOpens, Ready
<1>4. CASE WipeEntry
  <2>1. stage = "wipeEntry" /\ UNCHANGED <<meta, data>> /\ ~Ready(active)
    BY <1>4 DEF WipeEntry, disk, WipeInOrder
  <2>. QED
    BY <1>0, <1>1, <2>1 DEF ReadyOpens, Ready
<1>5. CASE Crash
  <2>1. faults = 0 /\ stage # "idle" /\ UNCHANGED <<meta, data, keyFile, chain>>
    BY <1>0, <1>5, FaultIsFirst DEF Crash, disk
  <2>2. Openable(active)' = Openable(active)
    BY <1>0, <2>1, OpenableStays
  <2>3. Ready(active) => stage = "wipeData"
    BY <1>0, <2>1 DEF Ready, SealedOver, WipeInOrder, TypeOK, Stages
  <2>. QED
    BY <1>0, <1>1, <2>1, <2>2, <2>3 DEF ReadyOpens, Ready
<1>. QED
  BY <1>2, <1>3, <1>4, <1>5

LEMMA FaultStep ==
  ASSUME WholeService, OneFault, IInv, FInv, [Next]_vars
  PROVE  FInv'
<1>1. OrderInv'
  BY OrderStep DEF IInv, FInv
<1>2. CASE UNCHANGED vars
  BY <1>1, <1>2 DEF vars, FInv, ReadyOpens, Ready, Openable, Decrypted
<1>3. ReadyOpens'
  BY <1>2, SealFaults, MetaFaults, QuietFaults, WipeFaults DEF Next, FInv
<1>. QED
  BY <1>1, <1>3 DEF FInv
-----------------------------------------------------------------------------
\* A vault that wallet_exists reports opens as soon as the keychain can be read, after
\* any sequence of creates, wipes and switches with one crash, torn write or failed
\* removal in it (create_vault, wipe_wallet, keychain_master_key).
THEOREM ReportedVaultOpens == WholeService /\ OneFault => (Spec => []ReadyIsOpenable)
<1>. SUFFICES ASSUME WholeService, OneFault
              PROVE  Spec => []ReadyIsOpenable
  OBVIOUS
<1>1. Init => IInv /\ FInv
  BY VaultInit, FaultInit
<1>2. IInv /\ FInv /\ [Next]_vars => (IInv /\ FInv)'
  BY VaultStep, FaultStep
<1>3. FInv => ReadyIsOpenable
  BY DEF FInv, ReadyOpens, ReadyIsOpenable
<1>. QED
  BY <1>1, <1>2, <1>3, PTL DEF Spec

\* A wipe that ends, with at most one of its removals failed, leaves no vault that
\* would be reported, whatever the keychain can read (wipe_wallet, wipe_secrets).
THEOREM WipeIsClean == OneFault => (Spec => WipeLeavesNoVault)
<1>. SUFFICES ASSUME OneFault
              PROVE  Spec => WipeLeavesNoVault
  OBVIOUS
<1>1. Init => Typed /\ OrderInv
  BY InitTyped, FaultInit DEF FInv
<1>2. Typed /\ OrderInv /\ [Next]_vars => (Typed /\ OrderInv)'
  BY NextTyped, OrderStep
<1>3. OrderInv /\ [Next]_vars
        => [stage = "wipeEntry" /\ stage' = "idle" => ~Ready(active)']_vars
  <2>1. ASSUME OrderInv, [Next]_vars, stage = "wipeEntry"
        PROVE  UNCHANGED <<meta, data, active>> /\ ~Ready(active)
    BY <2>1 DEF Next, vars, WalletExists, CreateSeal, CreateMeta, Unlock, ClearSession,
       SwitchProfile, BeginWipe, WipeData, WipeMeta, WipeKeyFile, WipeEntry, Crash, Deny, disk,
       OrderInv, WipeInOrder
  <2>. QED
    BY <2>1 DEF Ready
<1>. QED
  BY <1>1, <1>2, <1>3, PTL DEF Spec, WipeLeavesNoVault
=============================================================================
