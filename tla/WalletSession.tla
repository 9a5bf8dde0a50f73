---------------------------- MODULE WalletSession ----------------------------
(***************************************************************************)
(* The wallet session of the desktop host: AppState (state.rs), the        *)
(* commands that open, create, close and wipe a wallet and move between    *)
(* profiles (commands.rs), the profile registry (wallets.rs), the          *)
(* preferences (prefs.rs) and the data-root override (paths.rs), with the  *)
(* page that calls them (main-app.ts, onboarding-flow.ts,                  *)
(* settings-screen.ts).                                                    *)
(*                                                                         *)
(* Sync commands run to their end on the main thread: one action each.     *)
(* open_wallet, create_wallet and restore_wallet run on the async runtime  *)
(* and can be held up at an await or in the keychain: one action per       *)
(* segment, any other command in between.  A vault is what Vault.tla calls *)
(* an openable one; a failing keychain or disk is a request that fails.    *)
(***************************************************************************)
EXTENDS Naturals, FiniteSets

CONSTANTS
  Profiles,     \* profile ids, each the name of a data root
  Default,      \* the id "default", whose root is the application's own
  Nets,         \* values of the settings that apply at bootstrap only
  FirstNet,     \* the one a new installation has
  Secrets,      \* mnemonic and wallet pass; the pass is new with every create
  Requests,     \* async commands that can be in flight
  None,
  PageReloads,  \* whether the page is reloaded while it awaits a command
  LateSaves     \* whether a set_prefs can follow a switch before the page reloads

ASSUME SessionAssumption ==
  /\ Default \in Profiles /\ FirstNet \in Nets
  /\ None \notin Profiles \cup Nets \cup Secrets
  /\ PageReloads \in BOOLEAN /\ LateSaves \in BOOLEAN

VARIABLES
  vault,        \* vault[p]: the payload of p's vault
  db,           \* db[p][n]: the payload whose pass encrypts p's wallet.db for n
  listed,       \* the ids in wallets.json
  regActive,    \* activeId in wallets.json
  saved,        \* prefs.json
  root,         \* the profile wallet_data_root() points at
  prefs,        \* AppState.prefs
  session,      \* the unlocked payload
  handle,       \* AppState.wallet
  chat,         \* the darkirc daemon: its root and its settings
  reqs,         \* the async commands in flight
  ui,           \* what main-app shows
  draft         \* the Prefs the settings screen, or a pending save, has read

vars == <<vault, db, listed, regActive, saved, root, prefs, session, handle, chat,
          reqs, ui, draft>>
disk     == <<vault, db>>
profile  == <<listed, regActive, saved, root>>
page     == <<ui, draft>>

Prefs   == [active : Profiles, net : Nets]
Handles == [secret : Secrets, root : Profiles, net : Nets]
Screens == {"loading", "onboarding", "ready", "unlockError", "leaving"}
Steps   == {"idle", "begin", "seal", "save", "check", "unlock", "arm", "build",
            "openNew", "open"}
Idle    == [step |-> "idle", secret |-> None, root |-> None, net |-> None, awaited |-> FALSE]
RequestRecords ==
  [step : Steps, secret : Secrets \cup {None}, root : Profiles \cup {None},
   net : Nets \cup {None}, awaited : BOOLEAN]

TypeOK ==
  /\ vault \in [Profiles -> Secrets \cup {None}]
  /\ db \in [Profiles -> [Nets -> Secrets \cup {None}]]
  /\ listed \in SUBSET Profiles
  /\ regActive \in Profiles /\ root \in Profiles
  /\ saved \in Prefs /\ prefs \in Prefs
  /\ session \in Secrets \cup {None}
  /\ handle \in Handles \cup {None}
  /\ chat \in [root : Profiles, net : Nets] \cup {None}
  /\ reqs \in [Requests -> RequestRecords]
  /\ ui \in Screens
  /\ draft \in Prefs \cup {None}

Init ==
  /\ vault = [p \in Profiles |-> None]
  /\ db = [p \in Profiles |-> [n \in Nets |-> None]]
  /\ listed = {Default} /\ regActive = Default /\ root = Default
  /\ saved = [active |-> Default, net |-> FirstNet] /\ prefs = saved
  /\ session = None /\ handle = None /\ chat = None
  /\ reqs = [r \in Requests |-> Idle]
  /\ ui = "loading" /\ draft = None

-----------------------------------------------------------------------------
\* bootstrap_from_prefs, with prefs.json being p: an unknown active id gives way
\* to the registry's, and registry, prefs.json and data root follow.
BootstrapId(p) == IF p.active \in listed THEN p.active ELSE regActive
BootstrapFrom(p) ==
  /\ saved' = [p EXCEPT !.active = BootstrapId(p)]
  /\ regActive' = BootstrapId(p)
  /\ root' = BootstrapId(p)
  /\ UNCHANGED listed

\* Dropping the handle and clearing the session, as every closing command does.
Close == handle' = None /\ session' = None

InFlight(r) == reqs[r].step # "idle"
Quiet       == \A r \in Requests : ~reqs[r].awaited

\* A request moves on, or ends; the page that awaits it shows the outcome.
Advance(r, rec) == reqs' = [reqs EXCEPT ![r] = rec]
Ends(r, ok) ==
  /\ reqs' = [reqs EXCEPT ![r] = Idle]
  /\ ui' = IF ~reqs[r].awaited THEN ui
           ELSE IF ok THEN "ready"
           ELSE IF ui = "loading" THEN "unlockError"
           ELSE ui

StartRequest(r, step, net) ==
  /\ ~InFlight(r)
  /\ Advance(r, [Idle EXCEPT !.step = step, !.net = net, !.awaited = TRUE])
-----------------------------------------------------------------------------
(* The page                                                                *)

\* main-app's connectedCallback: onboarding without a vault, the screens when a
\* wallet is open already, else open_wallet.  (Onboarding looks for a vault once
\* more as it mounts; only a command of an earlier page can have made one.)
Boot(r) ==
  /\ ui = "loading" /\ Quiet
  /\ \/ vault[root] = None /\ ui' = "onboarding" /\ UNCHANGED reqs
     \/ vault[root] # None /\ handle # None /\ ui' = "ready" /\ UNCHANGED reqs
     \/ /\ vault[root] # None /\ handle = None
        /\ StartRequest(r, "check", None)
        /\ UNCHANGED ui
  /\ UNCHANGED <<disk, profile, prefs, session, handle, chat, draft>>

\* retryUnlock
Retry(r) ==
  /\ ui = "unlockError" /\ Quiet
  /\ StartRequest(r, "check", None)
  /\ ui' = "loading"
  /\ UNCHANGED <<disk, profile, prefs, session, handle, chat, draft>>

\* onboarding's finish: create_wallet or restore_wallet
Finish(r, n) ==
  /\ ui = "onboarding" /\ Quiet
  /\ StartRequest(r, "begin", n)
  /\ UNCHANGED <<disk, profile, prefs, session, handle, chat, page>>

\* The settings screen mounts, or persistThreads reads what it will write back.
GetPrefs ==
  /\ ui = "ready"
  /\ draft' = prefs
  /\ UNCHANGED <<disk, profile, prefs, session, handle, chat, reqs, ui>>

\* location.reload() after a switch, a create or a wipe, or by the user's hand.
\* The commands in flight, if any, go on with nobody waiting for them.
ReloadPage ==
  /\ Quiet \/ PageReloads
  /\ ui' = "loading" /\ draft' = None
  /\ reqs' = [r \in Requests |-> [reqs[r] EXCEPT !.awaited = FALSE]]
  /\ UNCHANGED <<disk, profile, prefs, session, handle, chat>>

-----------------------------------------------------------------------------
(* open_wallet, create_wallet and restore_wallet, await by await            *)

\* open_existing_wallet up to its first await.
Check(r) ==
  /\ reqs[r].step = "check"
  /\ BootstrapFrom(saved)
  /\ IF handle # None THEN Ends(r, TRUE)
     ELSE Advance(r, [reqs[r] EXCEPT !.step = "unlock"]) /\ UNCHANGED ui
  /\ UNCHANGED <<disk, prefs, session, handle, chat, draft>>

\* unlock_session reads and decrypts the vault, which can wait for the keychain,
\* and can fail in it.
Unlock(r) ==
  /\ reqs[r].step = "unlock"
  /\ \/ /\ vault[root] # None
        /\ Advance(r, [reqs[r] EXCEPT !.step = "arm", !.secret = vault[root]])
        /\ UNCHANGED ui
     \/ Ends(r, FALSE)
  /\ UNCHANGED <<disk, profile, prefs, session, handle, chat, draft>>

\* unlock_session sets the session; load_mnemonic and load_wallet_pass read it.
Arm(r) ==
  /\ reqs[r].step = "arm"
  /\ session' = reqs[r].secret
  /\ Advance(r, [reqs[r] EXCEPT !.step = "build"])
  /\ UNCHANGED <<disk, profile, prefs, handle, chat, page>>

\* The settings and the paths are read after the first await.
Build(r) ==
  /\ reqs[r].step = "build"
  /\ Advance(r, [reqs[r] EXCEPT !.step = "open", !.root = root, !.net = prefs.net])
  /\ UNCHANGED <<disk, profile, prefs, session, handle, chat, page>>

\* Mutants of Begin: the vault is created over the one there is; the active id is
\* not read with the rest of the preferences.
BeginOverwrites(r) ==
  /\ reqs[r].step = "begin"
  /\ Advance(r, [reqs[r] EXCEPT !.step = "seal", !.root = prefs.active])
  /\ UNCHANGED <<disk, profile, prefs, session, handle, chat, page>>
BeginNoActiveId(r) ==
  /\ reqs[r].step = "begin"
  /\ Advance(r, IF vault[root] # None
                THEN [reqs[r] EXCEPT !.step = "check", !.net = None]
                ELSE [reqs[r] EXCEPT !.step = "seal"])
  /\ UNCHANGED <<disk, profile, prefs, session, handle, chat, page>>

\* persist_and_open up to create_vault: an existing vault is opened, and the
\* preferences are read here that Save writes back (their active id is in root).
Begin(r) ==
  /\ reqs[r].step = "begin"
  /\ Advance(r, IF vault[root] # None
                THEN [reqs[r] EXCEPT !.step = "check", !.net = None]
                ELSE [reqs[r] EXCEPT !.step = "seal", !.root = prefs.active])
  /\ UNCHANGED <<disk, profile, prefs, session, handle, chat, page>>

\* create_vault under a wallet pass never used before; it too can wait for the
\* keychain, or fail in it.
FreshSecrets ==
  {x \in Secrets :
     /\ \A p \in Profiles : x # vault[p] /\ \A n \in Nets : x # db[p][n]
     /\ \A q \in Requests : x # reqs[q].secret
     /\ handle # None => x # handle.secret}

Seal(r) ==
  /\ reqs[r].step = "seal"
  /\ \/ \E x \in FreshSecrets :
          /\ vault' = [vault EXCEPT ![root] = x]
          /\ session' = x
          /\ Advance(r, [reqs[r] EXCEPT !.step = "save", !.secret = x])
          /\ UNCHANGED ui
     \/ Ends(r, FALSE) /\ UNCHANGED <<vault, session>>
  /\ UNCHANGED <<db, profile, prefs, handle, chat, draft>>

\* persist_and_open from save_prefs to its await.
Save(r) ==
  /\ reqs[r].step = "save"
  /\ \/ LET p == [active |-> reqs[r].root, net |-> reqs[r].net] IN
        /\ BootstrapFrom(p)
        /\ prefs' = p
        /\ Advance(r, [reqs[r] EXCEPT !.step = "openNew", !.root = root'])
        /\ UNCHANGED ui
     \/ Ends(r, FALSE) /\ UNCHANGED <<profile, prefs>>
  /\ UNCHANGED <<disk, session, handle, chat, draft>>

\* open_handle and what follows it.  A database opens with the pass that
\* encrypts it; a missing one is created.  Only create clears the session when
\* the opening fails.
Open(r) ==
  /\ reqs[r].step \in {"open", "openNew"}
  /\ LET q == reqs[r] IN
     \/ /\ db[q.root][q.net] \in {None, q.secret}
        /\ db' = [db EXCEPT ![q.root][q.net] = q.secret]
        /\ handle' = [secret |-> q.secret, root |-> q.root, net |-> q.net]
        /\ UNCHANGED session
        /\ Ends(r, TRUE)
     \/ /\ session' = IF q.step = "openNew" THEN None ELSE session
        /\ UNCHANGED <<db, handle>>
        /\ Ends(r, FALSE)
  /\ UNCHANGED <<vault, profile, prefs, chat, draft>>

-----------------------------------------------------------------------------
(* The main thread                                                         *)

\* set_network, after which the settings screen reads the prefs again.
SetNetwork(n) ==
  /\ ui = "ready"
  /\ prefs' = [prefs EXCEPT !.net = n]
  /\ saved' = prefs'
  /\ Close
  /\ draft' = prefs'
  /\ UNCHANGED <<disk, listed, regActive, root, chat, reqs, ui>>

\* A mutant of SetPrefs: the new preferences are stored before the comparison.
SetPrefsKeepsHandle(n) ==
  /\ draft # None
  /\ ui = "ready" \/ (ui = "leaving" /\ LateSaves)
  /\ prefs' = [draft EXCEPT !.net = n]
  /\ saved' = prefs'
  /\ draft' = prefs'
  /\ UNCHANGED <<disk, listed, regActive, root, handle, session, chat, reqs, ui>>

\* set_prefs writes the whole draft, its active id included.
SetPrefs(n) ==
  /\ draft # None
  /\ ui = "ready" \/ (ui = "leaving" /\ LateSaves)
  /\ prefs' = [draft EXCEPT !.net = n]
  /\ saved' = prefs'
  /\ IF n # prefs.net THEN Close ELSE UNCHANGED <<handle, session>>
  /\ draft' = prefs'
  /\ UNCHANGED <<disk, listed, regActive, root, chat, reqs, ui>>

\* wallets_list, which the settings screen also calls after wallets_create
WalletsList ==
  /\ ui \in {"ready", "leaving"}
  /\ BootstrapFrom(saved)
  /\ UNCHANGED <<disk, prefs, session, handle, chat, reqs, page>>

\* switch_profile and the end of create_profile
MoveTo(p) ==
  /\ regActive' = p /\ root' = p
  /\ saved' = [saved EXCEPT !.active = p]
  /\ prefs' = [prefs EXCEPT !.active = p]

\* Mutants of WalletsSwitch: the open handle is kept; AppState.prefs is not told.
WalletsSwitchKeepsHandle(p) ==
  /\ ui = "ready" /\ p \in listed
  /\ MoveTo(p)
  /\ ui' = "leaving"
  /\ UNCHANGED <<disk, listed, session, handle, chat, reqs, draft>>
WalletsSwitchStalePrefs(p) ==
  /\ ui = "ready" /\ p \in listed
  /\ Close
  /\ regActive' = p /\ root' = p
  /\ saved' = [saved EXCEPT !.active = p]
  /\ ui' = "leaving"
  /\ UNCHANGED <<disk, listed, prefs, chat, reqs, draft>>

WalletsSwitch(p) ==
  /\ ui = "ready" /\ p \in listed
  /\ Close
  /\ MoveTo(p)
  /\ ui' = "leaving"
  /\ UNCHANGED <<disk, listed, chat, reqs, draft>>

WalletsCreate(p) ==
  /\ ui = "ready" /\ p \notin listed
  /\ Close
  /\ listed' = listed \cup {p}
  /\ MoveTo(p)
  /\ ui' = "leaving"
  /\ UNCHANGED <<disk, chat, reqs, draft>>

\* remove_profile, uninterrupted.  (The settings screen asks for the active
\* profile only, which is refused: the command serves other callers.)
WalletsRemove(p) ==
  /\ ui = "ready"
  /\ p \in listed \ {Default, regActive}
  /\ listed' = listed \ {p}
  /\ vault' = [vault EXCEPT ![p] = None]
  /\ db' = [db EXCEPT ![p] = [n \in Nets |-> None]]
  /\ UNCHANGED <<regActive, saved, root, prefs, session, handle, chat, reqs, page>>

\* A mutant of WipeWallet: only the directory of the network in use is removed.
WipeOneNetwork ==
  /\ ui = "ready"
  /\ Close
  /\ db' = [db EXCEPT ![root][prefs.net] = None]
  /\ vault' = [vault EXCEPT ![root] = None]
  /\ ui' = "leaving"
  /\ UNCHANGED <<profile, prefs, chat, reqs, draft>>

\* wipe_wallet removes both network directories and the vault; the miner's part is
\* in Miner.tla, the keychain's in Vault.tla.
WipeWallet ==
  /\ ui = "ready"
  /\ Close
  /\ db' = [db EXCEPT ![root] = [n \in Nets |-> None]]
  /\ vault' = [vault EXCEPT ![root] = None]
  /\ ui' = "leaving"
  /\ UNCHANGED <<profile, prefs, chat, reqs, draft>>

\* start_darkirc is process-global: a daemon that runs is left as it is.
ChatStart ==
  /\ ui = "ready"
  /\ chat = None
  /\ chat' = [root |-> root, net |-> prefs.net]
  /\ UNCHANGED <<disk, profile, prefs, session, handle, reqs, page>>

ChatStop ==
  /\ ui = "ready"
  /\ chat' = None
  /\ UNCHANGED <<disk, profile, prefs, session, handle, reqs, page>>

\* The process ends and starts again: run() loads the prefs, then bootstraps.
\* It can end inside wallets_create, with wallets.json written and prefs.json not,
\* or inside wipe_wallet, with some databases gone and the vault still there.
Restart ==
  /\ \/ BootstrapFrom(saved) /\ UNCHANGED disk
     \/ /\ ui = "ready"
        /\ \E p \in Profiles \ listed : listed' = listed \cup {p}
        /\ regActive' = saved.active /\ root' = saved.active
        /\ UNCHANGED <<saved, disk>>
     \/ /\ ui = "ready"
        /\ BootstrapFrom(saved)
        /\ \E gone \in SUBSET Nets :
             db' = [db EXCEPT ![root] =
                      [n \in Nets |-> IF n \in gone THEN None ELSE @[n]]]
        /\ UNCHANGED vault
  /\ prefs' = saved
  /\ session' = None /\ handle' = None /\ chat' = None
  /\ reqs' = [r \in Requests |-> Idle]
  /\ ui' = "loading" /\ draft' = None

Next ==
  \/ \E r \in Requests :
       \/ Boot(r) \/ Retry(r) \/ \E n \in Nets : Finish(r, n)
       \/ Check(r) \/ Unlock(r) \/ Arm(r) \/ Build(r)
       \/ Begin(r) \/ Seal(r) \/ Save(r) \/ Open(r)
  \/ GetPrefs \/ ReloadPage
  \/ \E n \in Nets : SetNetwork(n) \/ SetPrefs(n)
  \/ WalletsList
  \/ \E p \in Profiles : WalletsSwitch(p) \/ WalletsCreate(p) \/ WalletsRemove(p)
  \/ WipeWallet
  \/ ChatStart \/ ChatStop
  \/ Restart

Spec == Init /\ [][Next]_vars

-----------------------------------------------------------------------------
\* Wallet commands go to the open handle; vault, address book and DM commands go
\* to the session and the data root.  They are those of one wallet.
CommandsHitOpenWallet ==
  handle # None => handle.root = root /\ handle.secret = session

\* The open handle was built from the settings in force: changing the network,
\* the lightwalletd URL, its TLS pin or Tor closes it, and none built from the
\* old settings takes its place.
HandleMatchesSettings == handle # None => handle.net = prefs.net /\ handle.net = saved.net

\* A wallet.db under a profile was created with the pass in that profile's vault,
\* so that the profile can open it again.
DbBelongsToVault ==
  \A p \in Profiles, n \in Nets : db[p][n] \in {None, vault[p]}

\* A vault that exists is opened, never replaced: whatever fails after it was
\* made, the mnemonic in it goes only by a wipe or with its profile.
VaultNeverReplaced ==
  [][\A p \in Profiles : vault[p] # None => vault'[p] \in {vault[p], None}]_vars

\* The four copies of the active profile id agree, whatever was saved, switched
\* or interrupted: the wallet a restart opens is the one in use.
OneActiveProfile ==
  /\ prefs.active = root /\ saved.active = root /\ regActive = root
  /\ root \in listed

\* The chat daemon works on the database and the settings of the open wallet.
ChatFollowsWallet ==
  chat # None /\ handle # None => chat.root = handle.root /\ chat.net = handle.net
=============================================================================
