------------------------- MODULE WalletSessionProofs -------------------------
(***************************************************************************)
(* Proofs about WalletSession for any profiles, settings, secrets and      *)
(* number of requests, in three layers, each with what it needs of the     *)
(* page: the types need nothing; that the commands share one wallet, that  *)
(* no page is reloaded during an awaited command; that the copies of the   *)
(* active id agree, moreover that no set_prefs follows a switch.           *)
(***************************************************************************)
EXTENDS WalletSession, TLAPS

NoReloads == PageReloads = FALSE
Orderly   == NoReloads /\ LateSaves = FALSE

\* What a command has noted down by each of its steps.
Filled(q) ==
  /\ q.step \in {"begin", "seal", "save", "open", "openNew"} => q.net \in Nets
  /\ q.step \in {"seal", "save", "open", "openNew"} => q.root \in Profiles
  /\ q.step \in {"arm", "build", "save", "open", "openNew"} => q.secret \in Secrets
FilledRequests == {q \in RequestRecords : Filled(q)}

TInv == TypeOK /\ reqs \in [Requests -> FilledRequests]

\* One command at a time, and only from a page that shows no screens: whatever it
\* has read stays so until it ends.
SoleRequest ==
  \A r \in Requests : InFlight(r) =>
    /\ reqs[r].awaited /\ ui \in {"loading", "onboarding"}
    /\ \A q \in Requests : InFlight(q) => q = r

\* What a command has captured still is the truth.
Holds(q) ==
  /\ q.step # "idle" => handle = None
  /\ q.step = "seal" => vault[root] = None
  /\ q.step \in {"seal", "save"} => q.root = prefs.active
  /\ q.step = "save" => vault[q.root] # None
  /\ q.step \in {"build", "save", "open", "openNew"} => session = q.secret
  /\ q.step \in {"open", "openNew"} => q.root = root /\ q.net = prefs.net
  /\ q.step \in {"unlock", "arm", "build", "open", "openNew"} => saved.active = root
  /\ q.step \in {"arm", "build", "open", "openNew"} => vault[root] # None
Captured == \A r \in Requests : Holds(reqs[r])

\* The profiles that the disk, the session and the page name are listed.
Registered ==
  /\ regActive = root /\ prefs = saved
  /\ root \in listed /\ saved.active \in listed
  /\ draft # None => draft.active \in listed

\* While screens are shown or a wallet is open, the disk names the profile in use.
\* A set_prefs after a switch can name the profile that was left: its wallet is there.
InUse ==
  /\ ui = "ready" \/ handle # None => saved.active = root /\ vault[root] # None
  /\ saved.active # root => vault[saved.active] # None
  /\ draft # None =>
       \/ ui = "ready" /\ draft.active = root
       \/ ui = "leaving" /\ vault[draft.active] # None
       \/ ui = "leaving" /\ draft.active = root /\ saved.active = root

\* The handle is the one the session, the data root and the settings describe, and
\* the screens that come before any wallet is open have none.
HandleInUse ==
  /\ handle # None => handle.root = root /\ handle.secret = session /\ handle.net = prefs.net
  /\ ui \in {"onboarding", "unlockError", "leaving"} => handle = None

Shared == Registered /\ InUse /\ HandleInUse
SInv   == SoleRequest /\ Captured /\ Shared

\* Without late saves every copy of the active id is the data root's, and what is
\* open or being opened is what its vault holds.
Opens(q) == q.step \in {"arm", "build", "save", "open", "openNew"} => vault[root] = q.secret
Settled ==
  /\ saved.active = root
  /\ draft # None => draft.active = root \/ ui = "leaving"
  /\ handle # None => vault[root] = session
  /\ \A r \in Requests : Opens(reqs[r])
  /\ DbBelongsToVault

IInv == TInv /\ SInv /\ Settled

\* Everything but the requests
Typed ==
  /\ vault \in [Profiles -> Secrets \cup {None}]
  /\ db \in [Profiles -> [Nets -> Secrets \cup {None}]]
  /\ listed \in SUBSET Profiles
  /\ regActive \in Profiles /\ root \in Profiles
  /\ saved \in Prefs /\ prefs \in Prefs
  /\ session \in Secrets \cup {None}
  /\ handle \in Handles \cup {None}
  /\ chat \in [root : Profiles, net : Nets] \cup {None}
  /\ ui \in Screens
  /\ draft \in Prefs \cup {None}
RequestsTyped == reqs \in [Requests -> FilledRequests]
-----------------------------------------------------------------------------
(* The types                                                               *)

LEMMA TypedParts ==
  /\ TInv <=> Typed /\ RequestsTyped
  /\ TInv' <=> Typed' /\ RequestsTyped'
BY DEF TInv, TypeOK, Typed, RequestsTyped, FilledRequests

LEMMA IdleIsFilled == Idle \in FilledRequests /\ Idle.step = "idle"
BY DEF FilledRequests, Filled, RequestRecords, Idle, Steps

LEMMA AdvanceTyped ==
  ASSUME RequestsTyped, NEW r \in Requests, NEW rec \in FilledRequests, Advance(r, rec)
  PROVE  /\ RequestsTyped'
         /\ \A q \in Requests : reqs'[q] = IF q = r THEN rec ELSE reqs[q]
BY DEF RequestsTyped, Advance

LEMMA EndsTyped ==
  ASSUME TInv, NEW r \in Requests, NEW ok \in BOOLEAN, Ends(r, ok)
  PROVE  /\ RequestsTyped' /\ ui' \in Screens
         /\ \A q \in Requests : reqs'[q] = IF q = r THEN Idle ELSE reqs[q]
<1>1. Advance(r, Idle)
  BY DEF Ends, Advance
<1>2. ui' \in Screens
  BY TypedParts DEF Ends, Typed, Screens
<1>. QED
  BY <1>1, <1>2, IdleIsFilled, AdvanceTyped, TypedParts

LEMMA BootstrapTyped ==
  ASSUME Typed, NEW p \in Prefs, BootstrapFrom(p)
  PROVE  /\ saved' \in Prefs /\ regActive' \in Profiles /\ root' \in Profiles
         /\ listed' = listed /\ saved'.active = root' /\ regActive' = root' /\ saved'.net = p.net
BY DEF Typed, Prefs, BootstrapFrom, BootstrapId

LEMMA RequestTyped ==
  ASSUME TInv, NEW r \in Requests
  PROVE  /\ reqs[r] \in FilledRequests /\ reqs[r] \in RequestRecords /\ Filled(reqs[r])
         /\ Typed /\ RequestsTyped
BY TypedParts DEF RequestsTyped, FilledRequests

LEMMA StartTyped ==
  ASSUME TInv, NEW r \in Requests, NEW step \in {"check", "begin"},
         NEW net \in Nets \cup {None}, step = "begin" => net \in Nets,
         StartRequest(r, step, net)
  PROVE  RequestsTyped'
<1>1. PICK rec : rec = [Idle EXCEPT !.step = step, !.net = net, !.awaited = TRUE]
  OBVIOUS
<1>2. rec \in RequestRecords /\ rec.step = step /\ rec.net = net
  BY <1>1 DEF RequestRecords, Steps, Idle
<1>3. rec \in FilledRequests
  BY <1>2 DEF FilledRequests, Filled
<1>4. Advance(r, rec)
  BY <1>1 DEF StartRequest
<1>. QED
  BY <1>3, <1>4, AdvanceTyped, TypedParts

LEMMA BootTyped ==
  ASSUME TInv, NEW r \in Requests, Boot(r) \/ Retry(r)
  PROVE  TInv'
<1>1. /\ UNCHANGED <<disk, profile, prefs, session, handle, chat, draft>>
      /\ ui' \in Screens
      /\ reqs' = reqs \/ StartRequest(r, "check", None)
  BY TypedParts DEF Boot, Retry, Typed, Screens
<1>2. RequestsTyped'
  BY <1>1, StartTyped, TypedParts DEF RequestsTyped
<1>. QED
  BY <1>1, <1>2, TypedParts DEF Typed, disk, profile

LEMMA FinishTyped ==
  ASSUME TInv, NEW r \in Requests, NEW n \in Nets, Finish(r, n)
  PROVE  TInv'
<1>1. RequestsTyped'
  BY StartTyped DEF Finish
<1>. QED
  BY <1>1, TypedParts DEF Finish, Typed, disk, profile, page

LEMMA CheckTyped ==
  ASSUME TInv, NEW r \in Requests, Check(r)
  PROVE  TInv'
<1>1. RequestsTyped' /\ ui' \in Screens
  <2>1. CASE handle # None
    BY <2>1, EndsTyped DEF Check
  <2>2. CASE handle = None
    <3>1. PICK rec : rec = [reqs[r] EXCEPT !.step = "unlock"]
      OBVIOUS
    <3>2. rec \in RequestRecords /\ rec.step = "unlock"
      BY <3>1, RequestTyped DEF RequestRecords, Steps
    <3>3. rec \in FilledRequests
      BY <3>2 DEF FilledRequests, Filled
    <3>. QED
      BY <2>2, <3>1, <3>3, AdvanceTyped, RequestTyped DEF Check, Typed
  <2>. QED
    BY <2>1, <2>2
<1>. QED
  BY <1>1, BootstrapTyped, TypedParts DEF Check, Typed, disk, Prefs

LEMMA UnlockTyped ==
  ASSUME TInv, NEW r \in Requests, Unlock(r)
  PROVE  TInv'
<1>1. RequestsTyped' /\ ui' \in Screens
  <2>1. CASE Ends(r, FALSE)
    BY <2>1, EndsTyped
  <2>2. CASE /\ vault[root] # None /\ UNCHANGED ui
             /\ Advance(r, [reqs[r] EXCEPT !.step = "arm", !.secret = vault[root]])
    <3>1. PICK rec : rec = [reqs[r] EXCEPT !.step = "arm", !.secret = vault[root]]
      OBVIOUS
    <3>2. vault[root] \in Secrets
      BY <2>2, TypedParts DEF Typed
    <3>3. rec \in RequestRecords /\ rec.step = "arm" /\ rec.secret \in Secrets
      BY <3>1, <3>2, RequestTyped DEF RequestRecords, Steps
    <3>4. rec \in FilledRequests
      BY <3>3 DEF FilledRequests, Filled
    <3>. QED
      BY <2>2, <3>1, <3>4, AdvanceTyped, RequestTyped DEF Typed
  <2>. QED
    BY <2>1, <2>2 DEF Unlock
<1>. QED
  BY <1>1, TypedParts DEF Unlock, Typed, disk, profile

LEMMA ArmTyped ==
  ASSUME TInv, NEW r \in Requests, Arm(r)
  PROVE  TInv'
<1>1. PICK rec : rec = [reqs[r] EXCEPT !.step = "build"]
  OBVIOUS
<1>2. reqs[r].secret \in Secrets
  BY RequestTyped DEF Arm, Filled
<1>3. rec \in RequestRecords /\ rec.step = "build" /\ rec.secret = reqs[r].secret
  BY <1>1, RequestTyped DEF RequestRecords, Steps
<1>4. rec \in FilledRequests
  BY <1>2, <1>3 DEF FilledRequests, Filled
<1>5. RequestsTyped'
  BY <1>1, <1>4, AdvanceTyped, TypedParts DEF Arm
<1>. QED
  BY <1>2, <1>5, TypedParts DEF Arm, Typed, disk, profile, page

LEMMA BuildTyped ==
  ASSUME TInv, NEW r \in Requests, Build(r)
  PROVE  TInv'
<1>1. PICK rec : rec = [reqs[r] EXCEPT !.step = "open", !.root = root, !.net = prefs.net]
  OBVIOUS
<1>2. reqs[r].secret \in Secrets /\ root \in Profiles /\ prefs.net \in Nets
  BY RequestTyped DEF Build, Filled, Typed, Prefs
<1>3. /\ rec \in RequestRecords /\ rec.step = "open" /\ rec.secret = reqs[r].secret
      /\ rec.root = root /\ rec.net = prefs.net
  BY <1>1, <1>2, RequestTyped DEF RequestRecords, Steps
<1>4. rec \in FilledRequests
  BY <1>2, <1>3 DEF FilledRequests, Filled
<1>5. RequestsTyped'
  BY <1>1, <1>4, AdvanceTyped, TypedParts DEF Build
<1>. QED
  BY <1>5, TypedParts DEF Build, Typed, disk, profile, page

LEMMA BeginTyped ==
  ASSUME TInv, NEW r \in Requests, Begin(r)
  PROVE  TInv'
<1>1. PICK rec : rec = IF vault[root] # None
                       THEN [reqs[r] EXCEPT !.step = "check", !.net = None]
                       ELSE [reqs[r] EXCEPT !.step = "seal", !.root = prefs.active]
  OBVIOUS
<1>2. reqs[r].net \in Nets /\ prefs.active \in Profiles
  BY RequestTyped DEF Begin, Filled, Typed, Prefs
<1>3. /\ rec \in RequestRecords
      /\ rec.step = "check" \/ (rec.step = "seal" /\ rec.root = prefs.active /\ rec.net = reqs[r].net)
  <2>1. CASE vault[root] # None
    BY <1>1, <2>1, RequestTyped DEF RequestRecords, Steps
  <2>2. CASE vault[root] = None
    BY <1>1, <1>2, <2>2, RequestTyped DEF RequestRecords, Steps
  <2>. QED
    BY <2>1, <2>2
<1>4. rec \in FilledRequests
  BY <1>2, <1>3 DEF FilledRequests, Filled
<1>5. RequestsTyped'
  BY <1>1, <1>4, AdvanceTyped, TypedParts DEF Begin
<1>. QED
  BY <1>5, TypedParts DEF Begin, Typed, disk, profile, page

LEMMA SealTyped ==
  ASSUME TInv, NEW r \in Requests, Seal(r)
  PROVE  TInv'
<1>1. CASE Ends(r, FALSE) /\ UNCHANGED <<vault, session>>
  BY <1>1, EndsTyped, TypedParts DEF Seal, Typed, profile
<1>2. CASE \E x \in FreshSecrets :
             /\ vault' = [vault EXCEPT ![root] = x] /\ session' = x /\ UNCHANGED ui
             /\ Advance(r, [reqs[r] EXCEPT !.step = "save", !.secret = x])
  <2>1. PICK x \in Secrets :
             /\ vault' = [vault EXCEPT ![root] = x] /\ session' = x /\ UNCHANGED ui
             /\ Advance(r, [reqs[r] EXCEPT !.step = "save", !.secret = x])
    BY <1>2 DEF FreshSecrets
  <2>2. PICK rec : rec = [reqs[r] EXCEPT !.step = "save", !.secret = x]
    OBVIOUS
  <2>3. reqs[r].net \in Nets /\ reqs[r].root \in Profiles
    BY RequestTyped DEF Seal, Filled
  <2>4. /\ rec \in RequestRecords /\ rec.step = "save" /\ rec.secret = x
        /\ rec.root = reqs[r].root /\ rec.net = reqs[r].net
    BY <2>2, RequestTyped DEF RequestRecords, Steps
  <2>5. rec \in FilledRequests
    BY <2>3, <2>4 DEF FilledRequests, Filled
  <2>6. RequestsTyped'
    BY <2>1, <2>2, <2>5, AdvanceTyped, TypedParts
  <2>. QED
    BY <2>1, <2>6, TypedParts DEF Seal, Typed, profile
<1>. QED
  BY <1>1, <1>2 DEF Seal

LEMMA SaveTyped ==
  ASSUME TInv, NEW r \in Requests, Save(r)
  PROVE  TInv'
<1>1. CASE Ends(r, FALSE) /\ UNCHANGED <<profile, prefs>>
  BY <1>1, EndsTyped, TypedParts DEF Save, Typed, disk, profile
<1>2. CASE LET p == [active |-> reqs[r].root, net |-> reqs[r].net] IN
           /\ BootstrapFrom(p) /\ prefs' = p /\ UNCHANGED ui
           /\ Advance(r, [reqs[r] EXCEPT !.step = "openNew", !.root = root'])
  <2>1. PICK p : /\ p = [active |-> reqs[r].root, net |-> reqs[r].net]
                 /\ BootstrapFrom(p) /\ prefs' = p /\ UNCHANGED ui
                 /\ Advance(r, [reqs[r] EXCEPT !.step = "openNew", !.root = root'])
    BY <1>2
  <2>2. reqs[r].net \in Nets /\ reqs[r].root \in Profiles /\ reqs[r].secret \in Secrets
    BY RequestTyped DEF Save, Filled
  <2>3. p \in Prefs
    BY <2>1, <2>2 DEF Prefs
  <2>4. saved' \in Prefs /\ regActive' \in Profiles /\ root' \in Profiles /\ listed' = listed
    BY <2>1, <2>3, BootstrapTyped, TypedParts
  <2>5. PICK q \in Profiles : q = root'
    BY <2>4
  <2>6. PICK rec : rec = [reqs[r] EXCEPT !.step = "openNew", !.root = q]
    OBVIOUS
  <2>7. /\ rec \in RequestRecords /\ rec.step = "openNew" /\ rec.secret = reqs[r].secret
        /\ rec.root = q /\ rec.net = reqs[r].net
    BY <2>6, RequestTyped DEF RequestRecords, Steps
  <2>8. rec \in FilledRequests
    BY <2>2, <2>7 DEF FilledRequests, Filled
  <2>9. RequestsTyped'
    BY <2>1, <2>5, <2>6, <2>8, AdvanceTyped, TypedParts
  <2>. QED
    BY <2>1, <2>3, <2>4, <2>9, TypedParts DEF Save, Typed, disk
<1>. QED
  BY <1>1, <1>2 DEF Save

LEMMA OpenTyped ==
  ASSUME TInv, NEW r \in Requests, Open(r)
  PROVE  TInv'
<1>1. RequestsTyped' /\ ui' \in Screens
  BY EndsTyped DEF Open
<1>2. /\ reqs[r].net \in Nets /\ reqs[r].root \in Profiles /\ reqs[r].secret \in Secrets
      /\ db \in [Profiles -> [Nets -> Secrets \cup {None}]]
  BY RequestTyped DEF Open, Filled, Typed
<1>3. db' \in [Profiles -> [Nets -> Secrets \cup {None}]]
  <2>1. CASE db' = [db EXCEPT ![reqs[r].root][reqs[r].net] = reqs[r].secret]
    <3>1. db' = [db EXCEPT ![reqs[r].root] = [db[reqs[r].root] EXCEPT ![reqs[r].net] = reqs[r].secret]]
      BY <2>1
    <3>2. [db[reqs[r].root] EXCEPT ![reqs[r].net] = reqs[r].secret] \in [Nets -> Secrets \cup {None}]
      BY <1>2
    <3>. QED
      BY <1>2, <3>1, <3>2
  <2>2. CASE UNCHANGED db
    BY <1>2, <2>2
  <2>. QED
    BY <2>1, <2>2 DEF Open
<1>4. handle' \in Handles \cup {None} /\ session' \in Secrets \cup {None}
  <2>1. handle \in Handles \cup {None} /\ session \in Secrets \cup {None}
    BY TypedParts DEF Typed
  <2>2. [secret |-> reqs[r].secret, root |-> reqs[r].root, net |-> reqs[r].net] \in Handles
    BY <1>2 DEF Handles
  <2>. QED
    BY <2>1, <2>2 DEF Open
<1>. QED
  BY <1>1, <1>3, <1>4, TypedParts DEF Open, Typed, profile

LEMMA PageTyped ==
  ASSUME TInv, GetPrefs \/ ReloadPage
  PROVE  TInv'
<1>1. RequestsTyped'
  <2>1. CASE reqs' = reqs
    BY <2>1, TypedParts DEF RequestsTyped
  <2>2. CASE reqs' = [r \in Requests |-> [reqs[r] EXCEPT !.awaited = FALSE]]
    <3>1. ASSUME NEW r \in Requests
          PROVE  [reqs[r] EXCEPT !.awaited = FALSE] \in FilledRequests
      <4>1. PICK rec : rec = [reqs[r] EXCEPT !.awaited = FALSE]
        OBVIOUS
      <4>2. /\ rec \in RequestRecords /\ rec.step = reqs[r].step /\ rec.root = reqs[r].root
            /\ rec.net = reqs[r].net /\ rec.secret = reqs[r].secret
        BY <4>1, RequestTyped DEF RequestRecords
      <4>3. rec \in FilledRequests
        BY <4>2, RequestTyped DEF FilledRequests, Filled
      <4>. QED
        BY <4>1, <4>3
    <3>. QED
      BY <2>2, <3>1 DEF RequestsTyped
  <2>. QED
    BY <2>1, <2>2 DEF GetPrefs, ReloadPage
<1>. QED
  BY <1>1, TypedParts DEF GetPrefs, ReloadPage, Typed, disk, profile, Screens

LEMMA SettingsTyped ==
  ASSUME TInv, NEW n \in Nets, SetNetwork(n) \/ SetPrefs(n)
  PROVE  TInv'
<1>1. prefs \in Prefs /\ (draft # None => draft \in Prefs)
  BY TypedParts DEF Typed
<1>2. prefs' \in Prefs
  BY <1>1 DEF SetNetwork, SetPrefs, Prefs
<1>. QED
  BY <1>2, TypedParts DEF SetNetwork, SetPrefs, Close, Typed, RequestsTyped, disk

LEMMA MoveTyped ==
  ASSUME TInv, NEW p \in Profiles, WalletsSwitch(p) \/ WalletsCreate(p)
  PROVE  TInv'
<1>1. prefs \in Prefs /\ saved \in Prefs /\ listed \in SUBSET Profiles
  BY TypedParts DEF Typed
<1>2. prefs' \in Prefs /\ saved' \in Prefs /\ listed' \in SUBSET Profiles
  BY <1>1 DEF WalletsSwitch, WalletsCreate, MoveTo, Prefs
<1>. QED
  BY <1>2, TypedParts
     DEF WalletsSwitch, WalletsCreate, MoveTo, Close, Typed, RequestsTyped, disk, Screens

\* The vault and the databases of one profile go.
LEMMA GoneTyped ==
  ASSUME Typed, NEW p \in Profiles, vault' = [vault EXCEPT ![p] = None],
         db' = [db EXCEPT ![p] = [n \in Nets |-> None]]
  PROVE  /\ vault' \in [Profiles -> Secrets \cup {None}]
         /\ db' \in [Profiles -> [Nets -> Secrets \cup {None}]]
         /\ \A q \in Profiles : vault'[q] = IF q = p THEN None ELSE vault[q]
         /\ \A q \in Profiles, n \in Nets : db'[q][n] = IF q = p THEN None ELSE db[q][n]
BY DEF Typed

LEMMA RemoveTyped ==
  ASSUME TInv, WipeWallet \/ \E p \in Profiles : WalletsRemove(p)
  PROVE  TInv'
<1>1. CASE WipeWallet
  <2>1. root \in Profiles
    BY TypedParts DEF Typed
  <2>. QED
    BY <1>1, <2>1, GoneTyped, TypedParts
       DEF WipeWallet, Close, Typed, RequestsTyped, profile, Screens
<1>2. ASSUME NEW p \in Profiles, WalletsRemove(p)
      PROVE  TInv'
  BY <1>2, GoneTyped, TypedParts DEF WalletsRemove, Typed, RequestsTyped, page
<1>. QED
  BY <1>1, <1>2

LEMMA OtherTyped ==
  ASSUME TInv, WalletsList \/ ChatStart \/ ChatStop
  PROVE  TInv'
<1>1. CASE WalletsList
  <2>1. saved \in Prefs /\ prefs \in Prefs
    BY TypedParts DEF Typed
  <2>. QED
    BY <1>1, <2>1, BootstrapTyped, TypedParts DEF WalletsList, Typed, RequestsTyped, disk, page
<1>2. CASE ChatStart \/ ChatStop
  <2>1. chat' \in [root : Profiles, net : Nets] \cup {None}
    BY <1>2, TypedParts DEF ChatStart, ChatStop, Typed, Prefs
  <2>. QED
    BY <1>2, <2>1, TypedParts
       DEF ChatStart, ChatStop, Typed, RequestsTyped, disk, profile, page
<1>. QED
  BY <1>1, <1>2

LEMMA RestartParts ==
  ASSUME Typed, Restart
  PROVE  /\ prefs' = saved /\ session' = None /\ handle' = None /\ chat' = None
         /\ reqs' = [r \in Requests |-> Idle] /\ ui' = "loading" /\ draft' = None
         /\ saved' \in Prefs /\ root' \in Profiles /\ regActive' = root' /\ saved'.active = root'
         /\ saved'.net = saved.net
         /\ listed \subseteq listed' /\ listed' \in SUBSET Profiles
         /\ vault' = vault /\ db' \in [Profiles -> [Nets -> Secrets \cup {None}]]
         /\ \A p \in Profiles, n \in Nets : db'[p][n] \in {None, db[p][n]}
         /\ saved.active \in listed => saved' = saved
<1>0. saved \in Prefs /\ db \in [Profiles -> [Nets -> Secrets \cup {None}]] /\ listed \in SUBSET Profiles
  BY DEF Typed
<1>1. /\ saved' \in Prefs /\ root' \in Profiles /\ regActive' = root' /\ saved'.active = root'
      /\ saved'.net = saved.net
      /\ listed \subseteq listed' /\ listed' \in SUBSET Profiles /\ vault' = vault
      /\ saved.active \in listed => saved' = saved
  <2>1. CASE BootstrapFrom(saved) /\ UNCHANGED vault
    <3>1. /\ saved' \in Prefs /\ root' \in Profiles
          /\ listed' = listed /\ saved'.active = root' /\ regActive' = root' /\ saved'.net = saved.net
      BY <1>0, <2>1, BootstrapTyped
    <3>2. saved.active \in listed => saved' = saved
      BY <1>0, <2>1 DEF BootstrapFrom, BootstrapId, Prefs
    <3>. QED
      BY <1>0, <2>1, <3>1, <3>2
  <2>2. CASE /\ \E p \in Profiles \ listed : listed' = listed \cup {p}
             /\ regActive' = saved.active /\ root' = saved.active /\ UNCHANGED <<saved, disk>>
    BY <1>0, <2>2 DEF Prefs, disk
  <2>. QED
    BY <2>1, <2>2 DEF Restart, disk
<1>2. /\ db' \in [Profiles -> [Nets -> Secrets \cup {None}]]
      /\ \A p \in Profiles, n \in Nets : db'[p][n] \in {None, db[p][n]}
  <2>1. CASE UNCHANGED db
    BY <1>0, <2>1
  <2>2. CASE \E gone \in SUBSET Nets :
                db' = [db EXCEPT ![root] =
                         [n \in Nets |-> IF n \in gone THEN None ELSE @[n]]]
    <3>1. PICK gone \in SUBSET Nets :
                 db' = [db EXCEPT ![root] =
                          [n \in Nets |-> IF n \in gone THEN None ELSE db[root][n]]]
      BY <2>2
    <3>2. \A p \in Profiles :
            db'[p] = IF p = root THEN [n \in Nets |-> IF n \in gone THEN None ELSE db[root][n]]
                     ELSE db[p]
      BY <1>0, <3>1
    <3>. QED
      BY <1>0, <3>1, <3>2 DEF Typed
  <2>. QED
    BY <2>1, <2>2 DEF Restart, disk
<1>. QED
  BY <1>1, <1>2 DEF Restart

LEMMA RestartTyped ==
  ASSUME TInv, Restart
  PROVE  TInv'
<1>1. RequestsTyped'
  BY RestartParts, IdleIsFilled, TypedParts DEF RequestsTyped
<1>. QED
  BY <1>1, RestartParts, TypedParts DEF Typed, Screens

LEMMA StepTyped ==
  ASSUME TInv, [Next]_vars
  PROVE  TInv'
<1>1. ASSUME NEW r \in Requests,
             \/ Check(r) \/ Unlock(r) \/ Arm(r) \/ Build(r)
             \/ Begin(r) \/ Seal(r) \/ Save(r) \/ Open(r)
      PROVE  TInv'
  BY <1>1, CheckTyped, UnlockTyped, ArmTyped, BuildTyped, BeginTyped, SealTyped, SaveTyped, OpenTyped
<1>2. ASSUME NEW r \in Requests, Boot(r) \/ Retry(r) \/ \E n \in Nets : Finish(r, n)
      PROVE  TInv'
  BY <1>2, BootTyped, FinishTyped
<1>3. CASE GetPrefs \/ ReloadPage \/ WalletsList \/ ChatStart \/ ChatStop \/ Restart \/ WipeWallet
  BY <1>3, PageTyped, OtherTyped, RestartTyped, RemoveTyped
<1>4. CASE \E n \in Nets : SetNetwork(n) \/ SetPrefs(n)
  BY <1>4, SettingsTyped
<1>5. CASE \E p \in Profiles : WalletsSwitch(p) \/ WalletsCreate(p) \/ WalletsRemove(p)
  BY <1>5, MoveTyped, RemoveTyped
<1>6. CASE UNCHANGED vars
  BY <1>6, TypedParts DEF vars, Typed, RequestsTyped
<1>. QED
  BY <1>1, <1>2, <1>3, <1>4, <1>5, <1>6 DEF Next

LEMMA InitTyped == Init => TInv
<1>. SUFFICES ASSUME Init
              PROVE  TInv
  OBVIOUS
<1>1. Typed
  BY SessionAssumption DEF Init, Typed, Prefs, Screens
<1>. QED
  BY <1>1, IdleIsFilled, TypedParts DEF Init, RequestsTyped
-----------------------------------------------------------------------------
(* One wallet, without reloads                                             *)

LEMMA QuietIsIdle ==
  ASSUME SInv, Quiet \/ ui \notin {"loading", "onboarding"}
  PROVE  \A r \in Requests : reqs[r].step = "idle"
BY DEF SInv, SoleRequest, InFlight, Quiet

\* While nothing is in flight, requests that stay idle say nothing.
LEMMA IdleRequests ==
  ASSUME TInv, \A r \in Requests : reqs[r].step = "idle",
         reqs' = reqs \/ reqs' = [r \in Requests |-> Idle]
                     \/ reqs' = [r \in Requests |-> [reqs[r] EXCEPT !.awaited = FALSE]]
  PROVE  /\ SoleRequest' /\ Captured'
         /\ \A r \in Requests : reqs'[r].step = "idle"
<1>1. \A r \in Requests : reqs'[r].step = "idle"
  <2>1. CASE reqs' = reqs
    BY <2>1
  <2>2. CASE reqs' = [r \in Requests |-> Idle]
    BY <2>2, IdleIsFilled
  <2>3. CASE reqs' = [r \in Requests |-> [reqs[r] EXCEPT !.awaited = FALSE]]
    <3>1. \A r \in Requests : [reqs[r] EXCEPT !.awaited = FALSE].step = reqs[r].step
      BY RequestTyped DEF RequestRecords
    <3>. QED
      BY <2>3, <3>1
  <2>. QED
    BY <2>1, <2>2, <2>3
<1>2. SoleRequest'
  BY <1>1 DEF SoleRequest, InFlight
<1>3. Captured'
  BY <1>1 DEF Captured, Holds
<1>. QED
  BY <1>1, <1>2, <1>3

LEMMA OthersIdle ==
  ASSUME SInv, NEW r \in Requests, reqs[r].step # "idle"
  PROVE  /\ \A q \in Requests \ {r} : reqs[q].step = "idle"
         /\ reqs[r].awaited /\ ui \in {"loading", "onboarding"}
         /\ Holds(reqs[r]) /\ handle = None /\ draft = None
<1>1. InFlight(r)
  BY DEF InFlight
<1>2. \A q \in Requests \ {r} : reqs[q].step = "idle"
  BY <1>1 DEF SInv, SoleRequest, InFlight
<1>3. reqs[r].awaited /\ ui \in {"loading", "onboarding"}
  BY <1>1 DEF SInv, SoleRequest
<1>4. Holds(reqs[r]) /\ handle = None
  BY DEF SInv, Captured, Holds
<1>5. draft = None
  BY <1>3 DEF SInv, Shared, InUse
<1>. QED
  BY <1>2, <1>3, <1>4, <1>5

\* A command that goes on is the only one; where it ends there is none.
LEMMA OneMoves ==
  ASSUME NEW r \in Requests, NEW rec,
         \A q \in Requests \ {r} : reqs[q].step = "idle",
         \A q \in Requests : reqs'[q] = IF q = r THEN rec ELSE reqs[q],
         rec.step # "idle" => rec.awaited /\ ui' \in {"loading", "onboarding"},
         Holds(rec)'
  PROVE  SoleRequest' /\ Captured'
<1>1. SoleRequest'
  BY DEF SoleRequest, InFlight
<1>2. Captured'
  <2>. SUFFICES ASSUME NEW q \in Requests
                PROVE  Holds(reqs[q])'
    BY DEF Captured
  <2>1. CASE q = r
    BY <2>1
  <2>2. CASE q # r
    BY <2>2 DEF Holds
  <2>. QED
    BY <2>1, <2>2
<1>. QED
  BY <1>1, <1>2

LEMMA EndsOne ==
  ASSUME TInv, SInv, NEW r \in Requests, reqs[r].step # "idle", NEW ok \in BOOLEAN, Ends(r, ok)
  PROVE  /\ SoleRequest' /\ Captured'
         /\ \A q \in Requests : reqs'[q].step = "idle"
         /\ ui' \in {"ready", "unlockError", "onboarding"}
         /\ IF ok THEN ui' = "ready" ELSE ui' # "ready"
<1>1. \A q \in Requests : reqs'[q] = IF q = r THEN Idle ELSE reqs[q]
  BY EndsTyped
<1>2. \A q \in Requests : reqs'[q].step = "idle"
  BY <1>1, OthersIdle, IdleIsFilled
<1>3. SoleRequest' /\ Captured'
  BY <1>2 DEF SoleRequest, InFlight, Captured, Holds
<1>4. /\ ui' \in {"ready", "unlockError", "onboarding"}
      /\ IF ok THEN ui' = "ready" ELSE ui' # "ready"
  BY OthersIdle DEF Ends
<1>. QED
  BY <1>2, <1>3, <1>4

\* A command that fails before it has changed anything
LEMMA EndsInVain ==
  ASSUME TInv, SInv, NEW r \in Requests, reqs[r].step # "idle", Ends(r, FALSE),
         UNCHANGED <<vault, profile, prefs, handle, draft>>
  PROVE  SInv'
<1>1. SoleRequest' /\ Captured' /\ ui' \in {"unlockError", "onboarding"}
  BY EndsOne
<1>2. handle = None /\ draft = None
  BY OthersIdle
<1>3. Shared'
  BY <1>1, <1>2 DEF SInv, Shared, Registered, InUse, HandleInUse, profile
<1>. QED
  BY <1>1, <1>3 DEF SInv

\* A command that only notes something down
LEMMA Notes ==
  ASSUME TInv, SInv, NEW r \in Requests, reqs[r].step # "idle",
         NEW rec \in FilledRequests, Advance(r, rec), rec.awaited, Holds(rec)',
         UNCHANGED <<vault, profile, prefs, handle, page>>
  PROVE  SInv'
<1>1. \A q \in Requests : reqs'[q] = IF q = r THEN rec ELSE reqs[q]
  BY AdvanceTyped, TypedParts
<1>2. SoleRequest' /\ Captured'
  BY <1>1, OthersIdle, OneMoves DEF page
<1>3. handle = None /\ draft = None
  BY OthersIdle
<1>4. Shared'
  BY <1>3 DEF SInv, Shared, Registered, InUse, HandleInUse, profile, page
<1>. QED
  BY <1>2, <1>4 DEF SInv

\* A page that awaits nothing calls a command.
LEMMA Starts ==
  ASSUME TInv, SInv, Quiet, NEW r \in Requests, NEW step \in {"check", "begin"},
         NEW net \in Nets \cup {None}, handle' = None,
         StartRequest(r, step, net), ui' \in {"loading", "onboarding"}
  PROVE  SoleRequest' /\ Captured'
<1>1. RequestsTyped /\ \A q \in Requests : reqs[q].step = "idle"
  BY QuietIsIdle, TypedParts
<1>2. PICK rec : rec = [Idle EXCEPT !.step = step, !.net = net, !.awaited = TRUE]
  OBVIOUS
<1>3. rec.awaited /\ rec.step = step
  BY <1>2 DEF Idle
<1>4. Holds(rec)'
  BY <1>3 DEF Holds
<1>5. \A q \in Requests : reqs'[q] = IF q = r THEN rec ELSE reqs[q]
  BY <1>1, <1>2 DEF StartRequest, Advance, RequestsTyped
<1>. QED
  BY <1>1, <1>3, <1>4, <1>5, OneMoves

\* Bootstrapping moves the data root to the saved profile, which is listed.
LEMMA BootstrapListed ==
  ASSUME SInv, TInv, BootstrapFrom(saved)
  PROVE  saved' = saved /\ listed' = listed /\ regActive' = saved.active /\ root' = saved.active
BY TypedParts DEF SInv, Shared, Registered, BootstrapFrom, BootstrapId, Typed, Prefs
-----------------------------------------------------------------------------
LEMMA CheckShared ==
  ASSUME TInv, SInv, NEW r \in Requests, Check(r)
  PROVE  SInv'
<1>0. reqs[r].step = "check" /\ UNCHANGED <<disk, prefs, session, handle, chat, draft>>
  BY DEF Check
<1>1. handle = None /\ draft = None /\ reqs[r].awaited
  BY <1>0, OthersIdle
<1>2. saved' = saved /\ listed' = listed /\ regActive' = saved.active /\ root' = saved.active
  BY BootstrapListed DEF Check
<1>3. PICK rec : rec = [reqs[r] EXCEPT !.step = "unlock"]
  OBVIOUS
<1>4. rec \in RequestRecords /\ rec.step = "unlock" /\ rec.awaited
  BY <1>1, <1>3, RequestTyped DEF RequestRecords, Steps
<1>5. rec \in FilledRequests
  BY <1>4 DEF FilledRequests, Filled
<1>6. Holds(rec)'
  BY <1>0, <1>1, <1>2, <1>4 DEF Holds
<1>7. Advance(r, rec) /\ ui' = ui
  BY <1>1, <1>3 DEF Check
<1>8. SoleRequest' /\ Captured'
  BY <1>0, <1>4, <1>5, <1>6, <1>7, OthersIdle, OneMoves, AdvanceTyped, TypedParts
<1>9. Shared'
  BY <1>0, <1>1, <1>2, <1>7, OthersIdle
     DEF SInv, Shared, Registered, InUse, HandleInUse, disk
<1>. QED
  BY <1>8, <1>9 DEF SInv

LEMMA UnlockShared ==
  ASSUME TInv, SInv, NEW r \in Requests, Unlock(r)
  PROVE  SInv'
<1>0. reqs[r].step = "unlock" /\ UNCHANGED <<disk, profile, prefs, session, handle, chat, draft>>
  BY DEF Unlock
<1>1. CASE Ends(r, FALSE)
  BY <1>0, <1>1, EndsInVain DEF disk
<1>2. CASE /\ vault[root] # None /\ UNCHANGED ui
           /\ Advance(r, [reqs[r] EXCEPT !.step = "arm", !.secret = vault[root]])
  <2>1. reqs[r].awaited /\ Holds(reqs[r]) /\ handle = None
    BY <1>0, OthersIdle
  <2>2. PICK rec : rec = [reqs[r] EXCEPT !.step = "arm", !.secret = vault[root]]
    OBVIOUS
  <2>3. vault[root] \in Secrets
    BY <1>2, TypedParts DEF Typed
  <2>4. rec \in RequestRecords /\ rec.step = "arm" /\ rec.awaited /\ rec.secret \in Secrets
    BY <2>1, <2>2, <2>3, RequestTyped DEF RequestRecords, Steps
  <2>5. rec \in FilledRequests
    BY <2>4 DEF FilledRequests, Filled
  <2>6. Holds(rec)'
    BY <1>0, <1>2, <2>1, <2>4 DEF Holds, disk, profile
  <2>. QED
    BY <1>0, <1>2, <2>2, <2>4, <2>5, <2>6, Notes DEF disk, page
<1>. QED
  BY <1>1, <1>2 DEF Unlock

LEMMA ArmShared ==
  ASSUME TInv, SInv, NEW r \in Requests, Arm(r)
  PROVE  SInv'
<1>0. /\ reqs[r].step = "arm" /\ session' = reqs[r].secret
      /\ UNCHANGED <<disk, profile, prefs, handle, chat, page>>
  BY DEF Arm
<1>1. reqs[r].awaited /\ Holds(reqs[r]) /\ handle = None
  BY <1>0, OthersIdle
<1>2. PICK rec : rec = [reqs[r] EXCEPT !.step = "build"]
  OBVIOUS
<1>3. /\ rec \in RequestRecords /\ rec.step = "build" /\ rec.awaited
      /\ rec.secret = reqs[r].secret /\ rec.secret \in Secrets
  BY <1>0, <1>1, <1>2, RequestTyped DEF RequestRecords, Steps, Filled
<1>4. rec \in FilledRequests
  BY <1>3 DEF FilledRequests, Filled
<1>5. Holds(rec)'
  BY <1>0, <1>1, <1>3 DEF Holds, disk, profile
<1>6. Advance(r, rec)
  BY <1>2 DEF Arm
<1>. QED
  BY <1>0, <1>3, <1>4, <1>5, <1>6, Notes DEF disk

LEMMA BuildShared ==
  ASSUME TInv, SInv, NEW r \in Requests, Build(r)
  PROVE  SInv'
<1>0. reqs[r].step = "build" /\ UNCHANGED <<disk, profile, prefs, session, handle, chat, page>>
  BY DEF Build
<1>1. reqs[r].awaited /\ Holds(reqs[r]) /\ handle = None
  BY <1>0, OthersIdle
<1>2. root \in Profiles /\ prefs.net \in Nets /\ reqs[r].secret \in Secrets
  BY <1>0, RequestTyped DEF Typed, Prefs, Filled
<1>3. PICK rec : rec = [reqs[r] EXCEPT !.step = "open", !.root = root, !.net = prefs.net]
  OBVIOUS
<1>4. /\ rec \in RequestRecords /\ rec.awaited /\ rec.step = "open"
      /\ rec.secret = reqs[r].secret /\ rec.root = root /\ rec.net = prefs.net
  BY <1>1, <1>2, <1>3, RequestTyped DEF RequestRecords, Steps
<1>5. rec \in FilledRequests
  BY <1>2, <1>4 DEF FilledRequests, Filled
<1>6. Holds(rec)'
  BY <1>0, <1>1, <1>4 DEF Holds, disk, profile
<1>7. Advance(r, rec)
  BY <1>3 DEF Build
<1>. QED
  BY <1>0, <1>4, <1>5, <1>6, <1>7, Notes DEF disk

LEMMA BeginShared ==
  ASSUME TInv, SInv, NEW r \in Requests, Begin(r)
  PROVE  SInv'
<1>0. reqs[r].step = "begin" /\ UNCHANGED <<disk, profile, prefs, session, handle, chat, page>>
  BY DEF Begin
<1>1. reqs[r].awaited /\ handle = None
  BY <1>0, OthersIdle
<1>2. reqs[r].net \in Nets /\ prefs.active \in Profiles
  BY <1>0, RequestTyped DEF Filled, Typed, Prefs
<1>3. CASE vault[root] # None
  <2>1. PICK rec : rec = [reqs[r] EXCEPT !.step = "check", !.net = None]
    OBVIOUS
  <2>2. rec \in RequestRecords /\ rec.awaited /\ rec.step = "check"
    BY <1>1, <2>1, RequestTyped DEF RequestRecords, Steps
  <2>3. rec \in FilledRequests
    BY <2>2 DEF FilledRequests, Filled
  <2>4. Holds(rec)'
    BY <1>0, <1>1, <2>2 DEF Holds
  <2>5. Advance(r, rec)
    BY <1>3, <2>1 DEF Begin
  <2>. QED
    BY <1>0, <2>2, <2>3, <2>4, <2>5, Notes DEF disk
<1>4. CASE vault[root] = None
  <2>1. PICK rec : rec = [reqs[r] EXCEPT !.step = "seal", !.root = prefs.active]
    OBVIOUS
  <2>2. /\ rec \in RequestRecords /\ rec.awaited /\ rec.step = "seal"
        /\ rec.root = prefs.active /\ rec.net = reqs[r].net
    BY <1>1, <1>2, <2>1, RequestTyped DEF RequestRecords, Steps
  <2>3. rec \in FilledRequests
    BY <1>2, <2>2 DEF FilledRequests, Filled
  <2>4. Holds(rec)'
    BY <1>0, <1>1, <1>4, <2>2 DEF Holds, disk, profile
  <2>5. Advance(r, rec)
    BY <1>4, <2>1 DEF Begin
  <2>. QED
    BY <1>0, <2>2, <2>3, <2>4, <2>5, Notes DEF disk
<1>. QED
  BY <1>3, <1>4

\* The vault is made where there was none: in the data root, which a late save may have
\* left other than the profile the preferences name.
LEMMA SealShared ==
  ASSUME TInv, SInv, NEW r \in Requests, Seal(r)
  PROVE  SInv'
<1>0. reqs[r].step = "seal" /\ UNCHANGED <<db, profile, prefs, handle, chat, draft>>
  BY DEF Seal
<1>1. CASE Ends(r, FALSE) /\ UNCHANGED <<vault, session>>
  BY <1>0, <1>1, EndsInVain
<1>2. CASE \E x \in FreshSecrets :
             /\ vault' = [vault EXCEPT ![root] = x] /\ session' = x /\ UNCHANGED ui
             /\ Advance(r, [reqs[r] EXCEPT !.step = "save", !.secret = x])
  <2>1. PICK x \in Secrets :
             /\ vault' = [vault EXCEPT ![root] = x] /\ session' = x /\ UNCHANGED ui
             /\ Advance(r, [reqs[r] EXCEPT !.step = "save", !.secret = x])
    BY <1>2 DEF FreshSecrets
  <2>2. reqs[r].awaited /\ Holds(reqs[r]) /\ handle = None /\ draft = None
    BY <1>0, OthersIdle
  <2>3. reqs[r].net \in Nets /\ reqs[r].root \in Profiles
    BY <1>0, RequestTyped DEF Filled
  <2>4. PICK rec : rec = [reqs[r] EXCEPT !.step = "save", !.secret = x]
    OBVIOUS
  <2>5. /\ rec \in RequestRecords /\ rec.awaited /\ rec.step = "save"
        /\ rec.secret = x /\ rec.root = reqs[r].root /\ rec.net = reqs[r].net
    BY <2>2, <2>4, RequestTyped DEF RequestRecords, Steps
  <2>6. rec \in FilledRequests
    BY <2>3, <2>5 DEF FilledRequests, Filled
  <2>7. \A p \in Profiles : vault'[p] = IF p = root THEN x ELSE vault[p]
    BY <2>1, TypedParts DEF Typed
  <2>8. saved \in Prefs /\ prefs = saved /\ reqs[r].root = prefs.active /\ x # None
    BY <1>0, <2>2, TypedParts, SessionAssumption DEF Typed, SInv, Shared, Registered, Holds
  <2>9. vault'[saved.active] # None
    BY <2>7, <2>8 DEF SInv, Shared, InUse, Prefs
  <2>10. Holds(rec)'
    BY <1>0, <2>1, <2>2, <2>5, <2>8, <2>9 DEF Holds, profile
  <2>11. SoleRequest' /\ Captured'
    BY <1>0, <2>1, <2>4, <2>5, <2>6, <2>10, OthersIdle, OneMoves, AdvanceTyped, TypedParts
  <2>12. ui \in {"loading", "onboarding"}
    BY <1>0, OthersIdle
  <2>13. Shared'
    BY <1>0, <2>1, <2>2, <2>9, <2>12
       DEF SInv, Shared, Registered, InUse, HandleInUse, profile
  <2>. QED
    BY <2>11, <2>13 DEF SInv
<1>. QED
  BY <1>1, <1>2 DEF Seal

LEMMA SaveShared ==
  ASSUME TInv, SInv, NEW r \in Requests, Save(r)
  PROVE  SInv'
<1>0. reqs[r].step = "save" /\ UNCHANGED <<disk, session, handle, chat, draft>>
  BY DEF Save
<1>1. CASE Ends(r, FALSE) /\ UNCHANGED <<profile, prefs>>
  BY <1>0, <1>1, EndsInVain DEF disk
<1>2. CASE LET p == [active |-> reqs[r].root, net |-> reqs[r].net] IN
           /\ BootstrapFrom(p) /\ prefs' = p /\ UNCHANGED ui
           /\ Advance(r, [reqs[r] EXCEPT !.step = "openNew", !.root = root'])
  <2>1. PICK p : /\ p = [active |-> reqs[r].root, net |-> reqs[r].net]
                 /\ BootstrapFrom(p) /\ prefs' = p /\ UNCHANGED ui
                 /\ Advance(r, [reqs[r] EXCEPT !.step = "openNew", !.root = root'])
    BY <1>2
  <2>2. /\ reqs[r].awaited /\ Holds(reqs[r]) /\ handle = None /\ draft = None
        /\ ui \in {"loading", "onboarding"}
    BY <1>0, OthersIdle
  <2>3. reqs[r].net \in Nets /\ reqs[r].root \in Profiles /\ reqs[r].secret \in Secrets
    BY <1>0, RequestTyped DEF Filled
  <2>4. reqs[r].root \in listed /\ vault[reqs[r].root] # None /\ session = reqs[r].secret
    BY <1>0, <2>2 DEF SInv, Shared, Registered, Holds
  <2>5. p \in Prefs /\ p.active = reqs[r].root /\ p.net = reqs[r].net /\ BootstrapId(p) = p.active
    BY <2>1, <2>3, <2>4 DEF Prefs, BootstrapId
  <2>6. saved' = p /\ regActive' = p.active /\ root' = p.active /\ listed' = listed
    BY <2>1, <2>5 DEF BootstrapFrom, Prefs
  <2>7. PICK rec : rec = [reqs[r] EXCEPT !.step = "openNew", !.root = p.active]
    OBVIOUS
  <2>8. /\ rec \in RequestRecords /\ rec.awaited /\ rec.step = "openNew"
        /\ rec.secret = reqs[r].secret /\ rec.root = p.active /\ rec.net = reqs[r].net
    BY <2>2, <2>3, <2>5, <2>7, RequestTyped DEF RequestRecords, Steps
  <2>9. rec \in FilledRequests
    BY <2>3, <2>5, <2>8 DEF FilledRequests, Filled
  <2>10. Holds(rec)'
    BY <1>0, <2>1, <2>2, <2>4, <2>5, <2>6, <2>8 DEF Holds, disk
  <2>11. Advance(r, rec)
    BY <2>1, <2>6, <2>7
  <2>12. SoleRequest' /\ Captured'
    BY <1>0, <2>1, <2>8, <2>9, <2>10, <2>11, OthersIdle, OneMoves, AdvanceTyped, TypedParts
  <2>13. Shared'
    BY <1>0, <2>1, <2>2, <2>4, <2>5, <2>6
       DEF SInv, Shared, Registered, InUse, HandleInUse, disk
  <2>. QED
    BY <2>12, <2>13 DEF SInv
<1>. QED
  BY <1>1, <1>2 DEF Save

LEMMA OpenShared ==
  ASSUME TInv, SInv, NEW r \in Requests, Open(r)
  PROVE  SInv'
<1>0. reqs[r].step \in {"open", "openNew"} /\ UNCHANGED <<vault, profile, prefs, chat, draft>>
  BY DEF Open
<1>1. CASE UNCHANGED handle /\ Ends(r, FALSE)
  BY <1>0, <1>1, EndsInVain
<1>2. CASE /\ handle' = [secret |-> reqs[r].secret, root |-> reqs[r].root, net |-> reqs[r].net]
           /\ UNCHANGED session /\ Ends(r, TRUE)
  <2>1. SoleRequest' /\ Captured' /\ ui' = "ready"
    BY <1>0, <1>2, EndsOne
  <2>2. Holds(reqs[r]) /\ draft = None
    BY <1>0, OthersIdle
  <2>3. /\ reqs[r].root = root /\ reqs[r].net = prefs.net /\ session = reqs[r].secret
        /\ saved.active = root /\ vault[root] # None
    BY <1>0, <2>2 DEF Holds
  <2>4. handle'.root = root /\ handle'.secret = session /\ handle'.net = prefs.net
    BY <1>2, <2>3
  <2>5. Shared'
    BY <1>0, <1>2, <2>1, <2>2, <2>3, <2>4
       DEF SInv, Shared, Registered, InUse, HandleInUse, profile
  <2>. QED
    BY <2>1, <2>5 DEF SInv
<1>. QED
  BY <1>1, <1>2 DEF Open
-----------------------------------------------------------------------------
LEMMA BootShared ==
  ASSUME TInv, SInv, NEW r \in Requests, Boot(r)
  PROVE  SInv'
<1>1. UNCHANGED <<disk, profile, prefs, session, handle, chat, draft>> /\ Quiet /\ ui = "loading"
  BY DEF Boot
<1>2. SoleRequest' /\ Captured'
  <2>1. CASE UNCHANGED reqs
    BY <1>1, <2>1, QuietIsIdle, IdleRequests
  <2>2. CASE handle = None /\ StartRequest(r, "check", None) /\ UNCHANGED ui
    BY <1>1, <2>2, Starts
  <2>. QED
    BY <2>1, <2>2 DEF Boot
<1>3. \/ ui' = "onboarding" /\ vault[root] = None
      \/ ui' = "ready" /\ handle # None
      \/ ui' = "loading"
  BY <1>1 DEF Boot
<1>4. draft = None /\ (vault[root] = None => handle = None)
  BY <1>1 DEF SInv, Shared, InUse
<1>5. Shared'
  BY <1>1, <1>3, <1>4 DEF SInv, Shared, Registered, InUse, HandleInUse, disk, profile
<1>. QED
  BY <1>2, <1>5 DEF SInv

LEMMA AskShared ==
  ASSUME TInv, SInv, NEW r \in Requests, Retry(r) \/ \E n \in Nets : Finish(r, n)
  PROVE  SInv'
<1>1. /\ UNCHANGED <<disk, profile, prefs, session, handle, chat, draft>>
      /\ Quiet /\ ui \in {"unlockError", "onboarding"} /\ ui' \in {"loading", "onboarding"}
      /\ \/ StartRequest(r, "check", None)
         \/ \E n \in Nets : StartRequest(r, "begin", n)
  BY DEF Retry, Finish, page
<1>2. handle = None /\ draft = None
  BY <1>1 DEF SInv, Shared, InUse, HandleInUse
<1>3. SoleRequest' /\ Captured'
  BY <1>1, <1>2, Starts
<1>4. Shared'
  BY <1>1, <1>2 DEF SInv, Shared, Registered, InUse, HandleInUse, disk, profile
<1>. QED
  BY <1>3, <1>4 DEF SInv

LEMMA GetPrefsShared ==
  ASSUME TInv, SInv, GetPrefs
  PROVE  SInv'
<1>1. SoleRequest' /\ Captured'
  BY QuietIsIdle, IdleRequests DEF GetPrefs
<1>2. Shared'
  BY DEF GetPrefs, SInv, Shared, Registered, InUse, HandleInUse, disk, profile
<1>. QED
  BY <1>1, <1>2 DEF SInv

LEMMA ReloadPageShared ==
  ASSUME NoReloads, TInv, SInv, ReloadPage
  PROVE  SInv'
<1>1. SoleRequest' /\ Captured'
  BY QuietIsIdle, IdleRequests DEF ReloadPage, NoReloads
<1>2. Shared'
  BY DEF ReloadPage, SInv, Shared, Registered, InUse, HandleInUse, disk, profile
<1>. QED
  BY <1>1, <1>2 DEF SInv

\* A main-thread command leaves the requests, of which there are none, as they are.
LEMMA RequestsRest ==
  ASSUME TInv, SInv, ui \in {"ready", "leaving"}, reqs' = reqs
  PROVE  SoleRequest' /\ Captured'
BY QuietIsIdle, IdleRequests

LEMMA SetNetworkShared ==
  ASSUME TInv, SInv, NEW n \in Nets, SetNetwork(n)
  PROVE  SInv'
<1>1. SoleRequest' /\ Captured'
  BY RequestsRest DEF SetNetwork
<1>2. prefs'.active = prefs.active
  BY TypedParts DEF SetNetwork, Typed, Prefs
<1>3. Shared'
  BY <1>2 DEF SetNetwork, Close, SInv, Shared, Registered, InUse, HandleInUse, disk
<1>. QED
  BY <1>1, <1>3 DEF SInv

\* A late save puts back the profile that was left: it is listed, and has a wallet.
LEMMA SetPrefsShared ==
  ASSUME TInv, SInv, NEW n \in Nets, SetPrefs(n)
  PROVE  SInv'
<1>1. ui \in {"ready", "leaving"} /\ draft # None /\ ui' = ui
  BY DEF SetPrefs
<1>2. SoleRequest' /\ Captured'
  BY <1>1, RequestsRest DEF SetPrefs
<1>3. prefs'.active = draft.active /\ prefs'.net = n
  BY <1>1, TypedParts DEF SetPrefs, Typed, Prefs
<1>4. /\ saved' = prefs' /\ draft' = prefs' /\ UNCHANGED <<vault, listed, regActive, root>>
      /\ IF n # prefs.net THEN handle' = None ELSE UNCHANGED <<handle, session>>
  BY DEF SetPrefs, Close, disk
<1>5. Registered'
  BY <1>1, <1>3, <1>4 DEF SInv, Shared, Registered
<1>6. InUse'
  BY <1>1, <1>3, <1>4 DEF SInv, Shared, InUse, HandleInUse
<1>7. HandleInUse'
  BY <1>1, <1>3, <1>4 DEF SInv, Shared, HandleInUse
<1>. QED
  BY <1>2, <1>5, <1>6, <1>7 DEF SInv, Shared

LEMMA WalletsListShared ==
  ASSUME TInv, SInv, WalletsList
  PROVE  SInv'
<1>1. UNCHANGED <<disk, prefs, session, handle, chat, reqs, page>> /\ ui \in {"ready", "leaving"}
  BY DEF WalletsList
<1>2. saved' = saved /\ listed' = listed /\ regActive' = saved.active /\ root' = saved.active
  BY BootstrapListed DEF WalletsList
<1>3. SoleRequest' /\ Captured'
  BY <1>1, RequestsRest
<1>4. Shared'
  BY <1>1, <1>2 DEF SInv, Shared, Registered, InUse, HandleInUse, disk, page
<1>. QED
  BY <1>3, <1>4 DEF SInv

LEMMA MoveShared ==
  ASSUME TInv, SInv, NEW p \in Profiles, WalletsSwitch(p) \/ WalletsCreate(p)
  PROVE  SInv'
<1>1. /\ ui = "ready" /\ ui' = "leaving" /\ UNCHANGED <<disk, chat, reqs, draft>> /\ handle' = None
      /\ MoveTo(p) /\ p \in listed' /\ listed \subseteq listed'
  BY DEF WalletsSwitch, WalletsCreate, Close
<1>2. prefs'.active = p /\ saved' = prefs' /\ root' = p /\ regActive' = p
  BY <1>1, TypedParts DEF MoveTo, Typed, Prefs, SInv, Shared, Registered
<1>3. SoleRequest' /\ Captured'
  BY <1>1, RequestsRest
<1>4. draft # None => draft.active \in listed' /\ vault'[draft.active] # None
  BY <1>1 DEF SInv, Shared, Registered, InUse, disk
<1>5. Shared'
  BY <1>1, <1>2, <1>4 DEF SInv, Shared, Registered, InUse, HandleInUse, disk
<1>. QED
  BY <1>3, <1>5 DEF SInv

LEMMA WalletsRemoveShared ==
  ASSUME TInv, SInv, NEW p \in Profiles, WalletsRemove(p)
  PROVE  SInv'
<1>1. UNCHANGED <<regActive, saved, root, prefs, session, handle, chat, reqs, page>> /\ ui = "ready"
  BY DEF WalletsRemove
<1>2. SoleRequest' /\ Captured'
  BY <1>1, RequestsRest
<1>3. /\ p # root /\ listed' = listed \ {p} /\ saved.active = root
      /\ vault' = [vault EXCEPT ![p] = None] /\ root \in Profiles
  BY <1>1, TypedParts DEF SInv, Shared, Registered, InUse, WalletsRemove, Typed
<1>4. vault'[root] = vault[root]
  BY <1>3, TypedParts DEF Typed
<1>5. Shared'
  BY <1>1, <1>3, <1>4 DEF SInv, Shared, Registered, InUse, HandleInUse, page
<1>. QED
  BY <1>2, <1>5 DEF SInv

LEMMA WipeWalletShared ==
  ASSUME TInv, SInv, WipeWallet
  PROVE  SInv'
<1>1. /\ UNCHANGED <<profile, prefs, chat, reqs, draft>> /\ ui = "ready" /\ ui' = "leaving"
      /\ handle' = None
  BY DEF WipeWallet, Close
<1>2. SoleRequest' /\ Captured'
  BY <1>1, RequestsRest
<1>3. Shared'
  BY <1>1 DEF SInv, Shared, Registered, InUse, HandleInUse, profile
<1>. QED
  BY <1>2, <1>3 DEF SInv

LEMMA ChatShared ==
  ASSUME TInv, SInv, ChatStart \/ ChatStop
  PROVE  SInv'
<1>1. UNCHANGED <<disk, profile, prefs, session, handle, reqs, page>> /\ ui = "ready"
  BY DEF ChatStart, ChatStop
<1>2. SoleRequest' /\ Captured'
  BY <1>1, RequestsRest
<1>3. Shared'
  BY <1>1 DEF SInv, Shared, Registered, InUse, HandleInUse, disk, profile, page
<1>. QED
  BY <1>2, <1>3 DEF SInv

\* What is on disk when the process ends is enough to start from.
LEMMA RestartShared ==
  ASSUME TInv, SInv, Restart
  PROVE  SInv'
<1>1. Typed
  BY TypedParts
<1>2. /\ prefs' = saved /\ handle' = None /\ reqs' = [r \in Requests |-> Idle]
      /\ ui' = "loading" /\ draft' = None /\ vault' = vault /\ listed \subseteq listed'
      /\ regActive' = root' /\ saved'.active = root' /\ (saved.active \in listed => saved' = saved)
  BY <1>1, RestartParts
<1>3. SoleRequest' /\ Captured'
  BY <1>2, IdleIsFilled DEF SoleRequest, InFlight, Captured, Holds
<1>4. saved' = saved /\ saved.active \in listed'
  BY <1>2 DEF SInv, Shared, Registered
<1>5. Shared'
  BY <1>2, <1>4 DEF Shared, Registered, InUse, HandleInUse
<1>. QED
  BY <1>3, <1>5 DEF SInv

LEMMA StepShared ==
  ASSUME NoReloads, TInv, SInv, [Next]_vars
  PROVE  SInv'
<1>1. ASSUME NEW r \in Requests,
             \/ Check(r) \/ Unlock(r) \/ Arm(r) \/ Build(r)
             \/ Begin(r) \/ Seal(r) \/ Save(r) \/ Open(r)
      PROVE  SInv'
  BY <1>1, CheckShared, UnlockShared, ArmShared, BuildShared, BeginShared, SealShared,
     SaveShared, OpenShared
<1>2. ASSUME NEW r \in Requests, Boot(r) \/ Retry(r) \/ \E n \in Nets : Finish(r, n)
      PROVE  SInv'
  BY <1>2, BootShared, AskShared
<1>3. CASE GetPrefs \/ ReloadPage \/ WalletsList \/ WipeWallet \/ ChatStart \/ ChatStop \/ Restart
  BY <1>3, GetPrefsShared, ReloadPageShared, WalletsListShared, WipeWalletShared, ChatShared,
     RestartShared
<1>4. CASE \E n \in Nets : SetNetwork(n) \/ SetPrefs(n)
  BY <1>4, SetNetworkShared, SetPrefsShared
<1>5. CASE \E p \in Profiles : WalletsSwitch(p) \/ WalletsCreate(p) \/ WalletsRemove(p)
  BY <1>5, MoveShared, WalletsRemoveShared
<1>6. CASE UNCHANGED vars
  BY <1>6 DEF vars, SInv, SoleRequest, InFlight, Captured, Holds, Shared, Registered, InUse,
     HandleInUse
<1>. QED
  BY <1>1, <1>2, <1>3, <1>4, <1>5, <1>6 DEF Next

LEMMA InitShared == Init => SInv
<1>. SUFFICES ASSUME Init
              PROVE  SInv
  OBVIOUS
<1>1. SoleRequest /\ Captured
  BY IdleIsFilled DEF Init, SoleRequest, InFlight, Captured, Holds
<1>2. Shared
  BY SessionAssumption DEF Init, Shared, Registered, InUse, HandleInUse
<1>. QED
  BY <1>1, <1>2 DEF SInv
-----------------------------------------------------------------------------
(* One active profile, without late saves                                  *)

\* The databases, the handle and the page's draft are where they were.
Kept ==
  /\ saved.active = root
  /\ draft # None => draft.active = root \/ ui = "leaving"
  /\ handle # None => vault[root] = session
  /\ DbBelongsToVault

LEMMA SettledParts ==
  /\ Settled <=> Kept /\ \A r \in Requests : Opens(reqs[r])
  /\ Kept' /\ (\A r \in Requests : Opens(reqs[r]))' => Settled'
BY DEF Settled, Kept

LEMMA NoneOpens ==
  ASSUME \A r \in Requests : reqs'[r].step = "idle"
  PROVE  (\A r \in Requests : Opens(reqs[r]))'
BY DEF Opens

\* A command that goes on: of the others, there are none.
LEMMA OneOpens ==
  ASSUME TInv, SInv, NEW r \in Requests, reqs[r].step # "idle", NEW rec,
         reqs' = [reqs EXCEPT ![r] = rec], Opens(rec)'
  PROVE  (\A q \in Requests : Opens(reqs[q]))'
<1>1. \A q \in Requests : reqs'[q] = IF q = r THEN rec ELSE reqs[q]
  BY TypedParts DEF RequestsTyped
<1>2. \A q \in Requests \ {r} : reqs[q].step = "idle"
  BY OthersIdle
<1>. SUFFICES ASSUME NEW q \in Requests
              PROVE  Opens(reqs[q])'
  OBVIOUS
<1>3. CASE q = r
  BY <1>1, <1>3
<1>4. CASE q # r
  BY <1>1, <1>2, <1>4 DEF Opens
<1>. QED
  BY <1>3, <1>4

LEMMA EndsSettled ==
  ASSUME IInv, NEW r \in Requests, reqs[r].step # "idle", NEW ok \in BOOLEAN, Ends(r, ok),
         Kept'
  PROVE  Settled'
BY EndsOne, NoneOpens, SettledParts DEF IInv

LEMMA CommandSettled ==
  ASSUME IInv, NEW r \in Requests,
         Check(r) \/ Unlock(r) \/ Arm(r) \/ Build(r) \/ Begin(r)
  PROVE  Settled'
<1>0. reqs[r].step # "idle" /\ UNCHANGED <<disk, prefs, handle, draft>>
  BY DEF Check, Unlock, Arm, Build, Begin, page
<1>1. /\ handle = None /\ draft = None /\ Opens(reqs[r])
      /\ reqs[r] \in RequestRecords
  BY <1>0, OthersIdle, RequestTyped DEF IInv, Settled
<1>2. UNCHANGED profile
  <2>1. CASE Check(r)
    BY <2>1, BootstrapListed DEF Check, IInv, Settled, SInv, Shared, Registered, profile
  <2>. QED
    BY <2>1 DEF Unlock, Arm, Build, Begin
<1>3. Kept'
  BY <1>0, <1>1, <1>2 DEF IInv, Settled, Kept, DbBelongsToVault, disk, profile
<1>4. CASE \E ok \in BOOLEAN : Ends(r, ok)
  BY <1>0, <1>3, <1>4, EndsSettled
<1>5. ASSUME NEW rec, Advance(r, rec),
             \/ rec.step \notin {"arm", "build", "save", "open", "openNew"}
             \/ rec.secret = vault[root]
      PROVE  Settled'
  <2>1. Opens(rec)'
    BY <1>0, <1>2, <1>5 DEF Opens, disk, profile
  <2>. QED
    BY <1>0, <1>3, <1>5, <2>1, OneOpens, SettledParts DEF Advance, IInv
<1>6. CASE Check(r)
  <2>1. PICK rec : rec = [reqs[r] EXCEPT !.step = "unlock"]
    OBVIOUS
  <2>2. rec.step = "unlock"
    BY <1>1, <2>1 DEF RequestRecords
  <2>. QED
    BY <1>4, <1>5, <1>6, <2>1, <2>2 DEF Check
<1>7. CASE Unlock(r)
  <2>1. PICK rec : rec = [reqs[r] EXCEPT !.step = "arm", !.secret = vault[root]]
    OBVIOUS
  <2>2. rec.secret = vault[root]
    BY <1>1, <2>1 DEF RequestRecords
  <2>. QED
    BY <1>4, <1>5, <1>7, <2>1, <2>2 DEF Unlock
<1>8. CASE Arm(r)
  <2>1. PICK rec : rec = [reqs[r] EXCEPT !.step = "build"]
    OBVIOUS
  <2>2. rec.secret = vault[root]
    BY <1>1, <1>8, <2>1 DEF RequestRecords, Opens, Arm
  <2>. QED
    BY <1>5, <1>8, <2>1, <2>2 DEF Arm
<1>9. CASE Build(r)
  <2>1. PICK rec : rec = [reqs[r] EXCEPT !.step = "open", !.root = root, !.net = prefs.net]
    OBVIOUS
  <2>2. rec.secret = vault[root]
    BY <1>1, <1>9, <2>1 DEF RequestRecords, Opens, Build
  <2>. QED
    BY <1>5, <1>9, <2>1, <2>2 DEF Build
<1>10. CASE Begin(r)
  <2>1. PICK rec : rec = IF vault[root] # None
                         THEN [reqs[r] EXCEPT !.step = "check", !.net = None]
                         ELSE [reqs[r] EXCEPT !.step = "seal", !.root = prefs.active]
    OBVIOUS
  <2>2. rec.step \in {"check", "seal"}
    <3>1. CASE vault[root] # None
      BY <1>1, <2>1, <3>1 DEF RequestRecords
    <3>2. CASE vault[root] = None
      BY <1>1, <2>1, <3>2 DEF RequestRecords
    <3>. QED
      BY <3>1, <3>2
  <2>. QED
    BY <1>5, <1>10, <2>1, <2>2 DEF Begin
<1>. QED
  BY <1>6, <1>7, <1>8, <1>9, <1>10

LEMMA SealSettled ==
  ASSUME IInv, NEW r \in Requests, Seal(r)
  PROVE  Settled'
<1>0. reqs[r].step = "seal" /\ UNCHANGED <<db, profile, prefs, handle, chat, draft>>
  BY DEF Seal
<1>1. /\ handle = None /\ draft = None /\ vault[root] = None
      /\ reqs[r] \in RequestRecords
  BY <1>0, OthersIdle, RequestTyped DEF IInv, Holds
<1>2. CASE Ends(r, FALSE) /\ UNCHANGED <<vault, session>>
  <2>1. Kept'
    BY <1>0, <1>1, <1>2 DEF IInv, Settled, Kept, DbBelongsToVault, profile
  <2>. QED
    BY <1>0, <1>2, <2>1, EndsSettled
<1>3. CASE \E x \in FreshSecrets :
             /\ vault' = [vault EXCEPT ![root] = x] /\ session' = x /\ UNCHANGED ui
             /\ Advance(r, [reqs[r] EXCEPT !.step = "save", !.secret = x])
  <2>1. PICK x : /\ vault' = [vault EXCEPT ![root] = x]
                 /\ Advance(r, [reqs[r] EXCEPT !.step = "save", !.secret = x])
    BY <1>3
  <2>2. root \in Profiles /\ \A p \in Profiles : vault'[p] = IF p = root THEN x ELSE vault[p]
    BY <2>1, TypedParts DEF IInv, Typed
  <2>3. DbBelongsToVault'
    BY <1>0, <1>1, <2>2 DEF IInv, Settled, DbBelongsToVault
  <2>4. Kept'
    BY <1>0, <1>1, <2>3 DEF IInv, Settled, Kept, profile
  <2>5. PICK rec : rec = [reqs[r] EXCEPT !.step = "save", !.secret = x]
    OBVIOUS
  <2>6. rec.secret = x
    BY <1>1, <2>5 DEF RequestRecords
  <2>7. Opens(rec)'
    BY <1>0, <2>2, <2>6 DEF Opens, profile
  <2>. QED
    BY <1>0, <2>1, <2>4, <2>5, <2>7, OneOpens, SettledParts DEF Advance, IInv
<1>. QED
  BY <1>2, <1>3 DEF Seal

LEMMA SaveSettled ==
  ASSUME IInv, NEW r \in Requests, Save(r)
  PROVE  Settled'
<1>0. reqs[r].step = "save" /\ UNCHANGED <<disk, session, handle, chat, draft>>
  BY DEF Save
<1>1. /\ handle = None /\ draft = None /\ Opens(reqs[r])
      /\ reqs[r] \in RequestRecords
  BY <1>0, OthersIdle, RequestTyped DEF IInv, Settled
<1>2. vault[root] = reqs[r].secret /\ reqs[r].root = root
  BY <1>0, <1>1, OthersIdle DEF Opens, IInv, Holds, Settled, SInv, Shared, Registered
<1>3. CASE Ends(r, FALSE) /\ UNCHANGED <<profile, prefs>>
  <2>1. Kept'
    BY <1>0, <1>1, <1>3 DEF IInv, Settled, Kept, DbBelongsToVault, disk, profile
  <2>. QED
    BY <1>0, <1>3, <2>1, EndsSettled
<1>4. CASE LET p == [active |-> reqs[r].root, net |-> reqs[r].net] IN
           /\ BootstrapFrom(p) /\ prefs' = p /\ UNCHANGED ui
           /\ Advance(r, [reqs[r] EXCEPT !.step = "openNew", !.root = root'])
  <2>1. PICK p : /\ p = [active |-> reqs[r].root, net |-> reqs[r].net] /\ BootstrapFrom(p)
                 /\ Advance(r, [reqs[r] EXCEPT !.step = "openNew", !.root = root'])
    BY <1>4
  <2>2. root \in listed /\ p.active = root
    BY <1>2, <2>1 DEF IInv, SInv, Shared, Registered
  <2>3. root' = root /\ saved' = [p EXCEPT !.active = root]
    BY <2>1, <2>2 DEF BootstrapFrom, BootstrapId
  <2>4. saved'.active = root'
    BY <2>1, <2>3
  <2>5. Kept'
    BY <1>0, <1>1, <2>3, <2>4 DEF IInv, Settled, Kept, DbBelongsToVault, disk
  <2>6. PICK rec : rec = [reqs[r] EXCEPT !.step = "openNew", !.root = root]
    OBVIOUS
  <2>7. rec.secret = vault[root]
    BY <1>1, <1>2, <2>6 DEF RequestRecords
  <2>8. Opens(rec)'
    BY <1>0, <2>3, <2>7 DEF Opens, disk
  <2>9. reqs' = [reqs EXCEPT ![r] = rec]
    BY <2>1, <2>3, <2>6 DEF Advance
  <2>. QED
    BY <1>0, <2>5, <2>8, <2>9, OneOpens, SettledParts DEF IInv
<1>. QED
  BY <1>3, <1>4 DEF Save

LEMMA OpenSettled ==
  ASSUME IInv, NEW r \in Requests, Open(r)
  PROVE  Settled'
<1>0. reqs[r].step \in {"open", "openNew"} /\ UNCHANGED <<vault, profile, prefs, chat, draft>>
  BY DEF Open
<1>1. /\ handle = None /\ draft = None /\ Opens(reqs[r]) /\ Holds(reqs[r])
      /\ reqs[r].net \in Nets /\ reqs[r].root \in Profiles
  BY <1>0, OthersIdle, RequestTyped DEF IInv, Settled, Filled
<1>2. vault[root] = reqs[r].secret /\ reqs[r].root = root /\ session = reqs[r].secret
  BY <1>0, <1>1 DEF Opens, Holds
<1>3. db \in [Profiles -> [Nets -> Secrets \cup {None}]]
  BY TypedParts DEF IInv, Typed
<1>4. DbBelongsToVault'
  <2>1. CASE db' = [db EXCEPT ![reqs[r].root][reqs[r].net] = reqs[r].secret]
    <3>1. db' = [db EXCEPT ![root] = [db[root] EXCEPT ![reqs[r].net] = reqs[r].secret]]
      BY <1>2, <2>1
    <3>2. \A p \in Profiles, n \in Nets :
            db'[p][n] = IF p = root /\ n = reqs[r].net THEN reqs[r].secret ELSE db[p][n]
      BY <1>1, <1>2, <1>3, <3>1
    <3>. QED
      BY <1>0, <1>2, <3>2 DEF IInv, Settled, DbBelongsToVault
  <2>2. CASE UNCHANGED db
    BY <1>0, <2>2 DEF IInv, Settled, DbBelongsToVault
  <2>. QED
    BY <2>1, <2>2 DEF Open
<1>5. handle' # None => session' = session
  BY <1>1 DEF Open
<1>6. Kept'
  BY <1>0, <1>1, <1>2, <1>4, <1>5 DEF IInv, Settled, Kept, profile
<1>7. \E ok \in BOOLEAN : Ends(r, ok)
  BY DEF Open
<1>. QED
  BY <1>0, <1>6, <1>7, EndsSettled

\* The page asks for a command: it has captured nothing.
LEMMA AskSettled ==
  ASSUME IInv, NEW r \in Requests, Boot(r) \/ Retry(r) \/ \E n \in Nets : Finish(r, n)
  PROVE  Settled'
<1>1. UNCHANGED <<disk, profile, prefs, session, handle, draft>> /\ Quiet
  BY DEF Boot, Retry, Finish, page
<1>2. ui # "leaving" /\ \A q \in Requests : reqs[q].step = "idle"
  BY <1>1, QuietIsIdle DEF Boot, Retry, Finish, IInv
<1>3. Kept'
  BY <1>1, <1>2 DEF IInv, Settled, Kept, DbBelongsToVault, disk, profile
<1>4. CASE UNCHANGED reqs
  BY <1>2, <1>3, <1>4, NoneOpens, SettledParts
<1>5. ASSUME NEW step \in {"check", "begin"}, NEW net, StartRequest(r, step, net)
      PROVE  (\A q \in Requests : Opens(reqs[q]))'
  <2>1. PICK rec : rec = [Idle EXCEPT !.step = step, !.net = net, !.awaited = TRUE]
    OBVIOUS
  <2>2. rec.step \in {"check", "begin"}
    BY <2>1 DEF Idle
  <2>3. \A q \in Requests : reqs'[q] = IF q = r THEN rec ELSE reqs[q]
    BY <1>5, <2>1, TypedParts DEF StartRequest, Advance, IInv, RequestsTyped
  <2>. QED
    BY <1>2, <2>2, <2>3 DEF Opens
<1>6. CASE \E step \in {"check", "begin"}, net \in Nets \cup {None} : StartRequest(r, step, net)
  BY <1>3, <1>5, <1>6, SettledParts
<1>. QED
  BY <1>4, <1>6 DEF Boot, Retry, Finish

\* Screens, reloads and restarts find no command in flight, or leave none.
LEMMA QuietSettled ==
  ASSUME IInv, Kept',
         \/ /\ Quiet \/ ui \notin {"loading", "onboarding"}
            /\ reqs' = reqs \/ reqs' = [r \in Requests |-> [reqs[r] EXCEPT !.awaited = FALSE]]
         \/ reqs' = [r \in Requests |-> Idle]
  PROVE  Settled'
<1>1. CASE reqs' = [r \in Requests |-> Idle]
  BY <1>1, IdleIsFilled, NoneOpens, SettledParts
<1>2. CASE /\ Quiet \/ ui \notin {"loading", "onboarding"}
           /\ reqs' = reqs \/ reqs' = [r \in Requests |-> [reqs[r] EXCEPT !.awaited = FALSE]]
  BY <1>2, QuietIsIdle, IdleRequests, NoneOpens, SettledParts DEF IInv
<1>. QED
  BY <1>1, <1>2

LEMMA PageSettled ==
  ASSUME Orderly, IInv, GetPrefs \/ ReloadPage \/ WalletsList \/ ChatStart \/ ChatStop
  PROVE  Settled'
<1>1. UNCHANGED <<disk, prefs, session, handle>>
  BY DEF GetPrefs, ReloadPage, WalletsList, ChatStart, ChatStop
<1>2. UNCHANGED profile
  BY BootstrapListed DEF GetPrefs, ReloadPage, WalletsList, ChatStart, ChatStop, IInv,
     Settled, SInv, Shared, Registered, profile
<1>3. \/ draft' = None \/ UNCHANGED page \/ draft' = prefs
  BY DEF GetPrefs, ReloadPage, WalletsList, ChatStart, ChatStop
<1>4. Kept'
  BY <1>1, <1>2, <1>3 DEF IInv, Settled, Kept, DbBelongsToVault, SInv, Shared, Registered,
     disk, profile, page
<1>. QED
  BY <1>4, QuietSettled DEF GetPrefs, ReloadPage, WalletsList, ChatStart, ChatStop, Orderly,
     NoReloads

LEMMA SettingsSettled ==
  ASSUME Orderly, IInv, NEW n \in Nets, SetNetwork(n) \/ SetPrefs(n)
  PROVE  Settled'
<1>1. ui = "ready" /\ UNCHANGED <<disk, root, reqs, ui>> /\ saved' = prefs' /\ draft' = prefs'
  BY DEF SetNetwork, SetPrefs, Orderly
<1>2. prefs'.active = root
  BY <1>1, TypedParts DEF SetNetwork, SetPrefs, IInv, Typed, Prefs, Settled, SInv, Shared, Registered
<1>3. handle' # None => handle' = handle /\ session' = session
  BY DEF SetNetwork, SetPrefs, Close
<1>4. Kept'
  BY <1>1, <1>2, <1>3 DEF IInv, Settled, Kept, DbBelongsToVault, disk
<1>. QED
  BY <1>1, <1>4, QuietSettled

LEMMA MoveSettled ==
  ASSUME IInv, NEW p \in Profiles, WalletsSwitch(p) \/ WalletsCreate(p)
  PROVE  Settled'
<1>1. /\ ui = "ready" /\ ui' = "leaving" /\ UNCHANGED <<disk, reqs>> /\ handle' = None /\ MoveTo(p)
  BY DEF WalletsSwitch, WalletsCreate, Close
<1>2. saved'.active = p /\ root' = p
  BY <1>1, TypedParts DEF MoveTo, IInv, Typed, Prefs
<1>3. Kept'
  BY <1>1, <1>2 DEF IInv, Settled, Kept, DbBelongsToVault, disk
<1>. QED
  BY <1>1, <1>3, QuietSettled

LEMMA RemoveSettled ==
  ASSUME IInv, WipeWallet \/ \E p \in Profiles : WalletsRemove(p)
  PROVE  Settled'
<1>0. Typed
  BY TypedParts DEF IInv
<1>1. ui = "ready" /\ UNCHANGED <<reqs, saved, root, draft>>
  BY DEF WipeWallet, WalletsRemove, profile, page
<1>2. CASE WipeWallet
  <2>1. DbBelongsToVault'
    BY <1>0, <1>2, GoneTyped DEF WipeWallet, IInv, Settled, DbBelongsToVault, Typed
  <2>2. Kept'
    BY <1>1, <1>2, <2>1 DEF WipeWallet, Close, IInv, Settled, Kept
  <2>. QED
    BY <1>1, <2>2, QuietSettled
<1>3. ASSUME NEW p \in Profiles, WalletsRemove(p)
      PROVE  Settled'
  <2>1. DbBelongsToVault' /\ (p # root => vault'[root] = vault[root])
    BY <1>0, <1>3, GoneTyped DEF WalletsRemove, IInv, Settled, DbBelongsToVault, Typed
  <2>2. p # root /\ UNCHANGED <<handle, session, ui>>
    BY <1>3 DEF WalletsRemove, IInv, SInv, Shared, Registered, page
  <2>3. Kept'
    BY <1>1, <2>1, <2>2 DEF IInv, Settled, Kept
  <2>. QED
    BY <1>1, <2>3, QuietSettled
<1>. QED
  BY <1>2, <1>3

LEMMA RestartSettled ==
  ASSUME IInv, Restart
  PROVE  Settled'
<1>1. Typed
  BY TypedParts DEF IInv
<1>2. /\ handle' = None /\ draft' = None /\ vault' = vault /\ saved'.active = root'
      /\ reqs' = [r \in Requests |-> Idle]
      /\ \A p \in Profiles, n \in Nets : db'[p][n] \in {None, db[p][n]}
  BY <1>1, RestartParts
<1>3. DbBelongsToVault'
  BY <1>2 DEF IInv, Settled, DbBelongsToVault
<1>4. Kept'
  BY <1>2, <1>3 DEF Kept
<1>. QED
  BY <1>2, <1>4, QuietSettled

LEMMA StepSettled ==
  ASSUME Orderly, IInv, [Next]_vars
  PROVE  Settled'
<1>1. ASSUME NEW r \in Requests,
             \/ Check(r) \/ Unlock(r) \/ Arm(r) \/ Build(r)
             \/ Begin(r) \/ Seal(r) \/ Save(r) \/ Open(r)
      PROVE  Settled'
  BY <1>1, CommandSettled, SealSettled, SaveSettled, OpenSettled
<1>2. ASSUME NEW r \in Requests, Boot(r) \/ Retry(r) \/ \E n \in Nets : Finish(r, n)
      PROVE  Settled'
  BY <1>2, AskSettled
<1>3. CASE GetPrefs \/ ReloadPage \/ WalletsList \/ ChatStart \/ ChatStop
  BY <1>3, PageSettled
<1>4. CASE \E n \in Nets : SetNetwork(n) \/ SetPrefs(n)
  BY <1>4, SettingsSettled
<1>5. CASE \E p \in Profiles : WalletsSwitch(p) \/ WalletsCreate(p)
  BY <1>5, MoveSettled
<1>6. CASE WipeWallet \/ Restart \/ \E p \in Profiles : WalletsRemove(p)
  BY <1>6, RemoveSettled, RestartSettled
<1>7. CASE UNCHANGED vars
  BY <1>7 DEF vars, IInv, Settled, Opens, DbBelongsToVault
<1>. QED
  BY <1>1, <1>2, <1>3, <1>4, <1>5, <1>6, <1>7 DEF Next

LEMMA InitSettled == Init => Settled
<1>. SUFFICES ASSUME Init
              PROVE  Settled
  OBVIOUS
<1>1. \A r \in Requests : Opens(reqs[r])
  BY IdleIsFilled DEF Init, Opens
<1>2. Kept
  BY SessionAssumption DEF Init, Kept, DbBelongsToVault
<1>. QED
  BY <1>1, <1>2, SettledParts
-----------------------------------------------------------------------------
\* The state keeps its types, whatever the page does (state.rs, wallets.rs, prefs.rs).
THEOREM SessionTypeCorrect == Spec => []TypeOK
<1>1. TInv /\ [Next]_vars => TInv'
  BY StepTyped
<1>2. TInv => TypeOK
  BY DEF TInv
<1>. QED
  BY InitTyped, <1>1, <1>2, PTL DEF Spec

\* What the page and the commands share stays in step, whatever the commands in flight,
\* the settings, the profiles, the crashes and the late saves, while no page is reloaded
\* during an awaited command.
THEOREM SessionInvariant == NoReloads => (Spec => [](TInv /\ SInv))
<1>. SUFFICES ASSUME NoReloads
              PROVE  Spec => [](TInv /\ SInv)
  OBVIOUS
<1>1. TInv /\ SInv /\ [Next]_vars => TInv' /\ SInv'
  BY StepTyped, StepShared
<1>. QED
  BY InitTyped, InitShared, <1>1, PTL DEF Spec

\* Wallet commands, which go to the handle, and vault, address book and DM commands,
\* which go to the session and the data root, work on one wallet (state.rs, commands.rs).
THEOREM CommandsShareWallet == NoReloads => (Spec => []CommandsHitOpenWallet)
<1>1. SInv => CommandsHitOpenWallet
  BY DEF SInv, Shared, HandleInUse, CommandsHitOpenWallet
<1>. QED
  BY SessionInvariant, <1>1, PTL

\* No handle built from old settings outlives a change of them (set_prefs, set_network).
THEOREM HandleFollowsSettings == NoReloads => (Spec => []HandleMatchesSettings)
<1>1. SInv => HandleMatchesSettings
  BY DEF SInv, Shared, Registered, HandleInUse, HandleMatchesSettings
<1>. QED
  BY SessionInvariant, <1>1, PTL

\* Only create_vault makes a vault, and only where persist_and_open found none: no
\* mnemonic is overwritten (persist_and_open, create_vault).
THEOREM VaultKept == NoReloads => (Spec => VaultNeverReplaced)
<1>. SUFFICES ASSUME NoReloads
              PROVE  Spec => VaultNeverReplaced
  OBVIOUS
<1>1. ASSUME TInv, SInv, [Next]_vars, NEW p \in Profiles, vault[p] # None
      PROVE  vault'[p] \in {vault[p], None}
  <2>0. vault \in [Profiles -> Secrets \cup {None}] /\ Typed
    BY <1>1, TypedParts DEF Typed
  <2>1. CASE UNCHANGED vault
    BY <2>1
  <2>2. CASE \E r \in Requests : Seal(r)
    <3>1. PICK r \in Requests : Seal(r)
      BY <2>2
    <3>2. reqs[r].step = "seal" /\ (UNCHANGED vault \/ \E x : vault' = [vault EXCEPT ![root] = x])
      BY <3>1 DEF Seal
    <3>3. vault[root] = None
      BY <1>1, <3>1, <3>2, OthersIdle DEF Holds
    <3>. QED
      BY <1>1, <2>0, <3>2, <3>3
  <2>3. CASE \E q \in Profiles : vault' = [vault EXCEPT ![q] = None]
    BY <2>0, <2>3
  <2>4. UNCHANGED vars => UNCHANGED vault
    BY DEF vars
  <2>5. ASSUME NEW r \in Requests,
               \/ Boot(r) \/ Retry(r) \/ \E n \in Nets : Finish(r, n)
               \/ Check(r) \/ Unlock(r) \/ Arm(r) \/ Build(r)
               \/ Begin(r) \/ Save(r) \/ Open(r)
        PROVE  UNCHANGED vault
    BY <2>5 DEF Boot, Retry, Finish, Check, Unlock, Arm, Build, Begin, Save, Open, disk
  <2>6. GetPrefs \/ ReloadPage \/ WalletsList \/ ChatStart \/ ChatStop => UNCHANGED vault
    BY DEF GetPrefs, ReloadPage, WalletsList, ChatStart, ChatStop, disk
  <2>7. (\E n \in Nets : SetNetwork(n) \/ SetPrefs(n)) => UNCHANGED vault
    BY DEF SetNetwork, SetPrefs, disk
  <2>8. (\E q \in Profiles : WalletsSwitch(q) \/ WalletsCreate(q)) => UNCHANGED vault
    BY DEF WalletsSwitch, WalletsCreate, disk
  <2>9. Restart => UNCHANGED vault
    BY DEF Restart, disk
  <2>10. (\E q \in Profiles : WalletsRemove(q)) \/ WipeWallet
           => \E q \in Profiles : vault' = [vault EXCEPT ![q] = None]
    BY <2>0 DEF WalletsRemove, WipeWallet, Typed
  <2>. QED
    BY <1>1, <2>1, <2>2, <2>3, <2>4, <2>5, <2>6, <2>7, <2>8, <2>9, <2>10 DEF Next
<1>2. TInv /\ SInv /\ [Next]_vars
        => [\A p \in Profiles : vault[p] # None => vault'[p] \in {vault[p], None}]_vars
  BY <1>1
<1>. QED
  BY SessionInvariant, <1>2, PTL DEF Spec, VaultNeverReplaced

\* Without late saves the disk, the data root and the databases agree as well.
THEOREM SettledInvariant == Orderly => (Spec => []IInv)
<1>. SUFFICES ASSUME Orderly
              PROVE  Spec => []IInv
  OBVIOUS
<1>1. Init => IInv
  BY InitTyped, InitShared, InitSettled DEF IInv
<1>2. IInv /\ [Next]_vars => IInv'
  BY StepTyped, StepShared, StepSettled DEF IInv, Orderly
<1>. QED
  BY <1>1, <1>2, PTL DEF Spec

\* Every wallet.db can be opened with the pass in its profile's vault (open_handle,
\* wipe_wallet, remove_profile).
THEOREM DatabasesOpen == Orderly => (Spec => []DbBelongsToVault)
<1>1. IInv => DbBelongsToVault
  BY DEF IInv, Settled
<1>. QED
  BY SettledInvariant, <1>1, PTL

\* Registry, prefs.json, AppState and data root name one profile (bootstrap_from_prefs,
\* switch_profile, create_profile).
THEOREM ActiveProfileAgrees == Orderly => (Spec => []OneActiveProfile)
<1>1. IInv => OneActiveProfile
  BY DEF IInv, Settled, SInv, Shared, Registered, OneActiveProfile
<1>. QED
  BY SettledInvariant, <1>1, PTL
=============================================================================
