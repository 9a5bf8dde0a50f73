-------------------------------- MODULE Desk ---------------------------------
(***************************************************************************)
(* The page as a whole (main-app.ts, app-nav.ts): it starts, opens or      *)
(* makes the wallet, and then mounts one screen at a time.  The chat       *)
(* screen and the send half of the transfer tab have modules of their own, *)
(* ChatRoom, ChatLink and SendFlow.                                        *)
(***************************************************************************)
EXTENDS Onboarding, Preferences, DaoScreen, Receive, WalletScreen

screens == <<ob, known, prefsVars, dao, transfer, light, wallet>>
vars == <<shellVars, screens>>

Init ==
  /\ tour \in Tours
  /\ phase = "loading" /\ tab = "wallet" /\ aim = "send"
  /\ banner = Testnet /\ misled = FALSE /\ moves = 0
  /\ vault \in {None} \cup Phrases /\ known = {vault} \ {None}
  /\ prefs = Default
  /\ ob = None /\ settings = None /\ mine = None
  /\ writes = {} /\ rereads = 0 /\ tellings = 0 /\ miner = None
  /\ dao = None /\ transfer = None
  /\ light \in Snaps /\ wallet = None

\* connectedCallback: the status names the network; without a vault, onboarding.
Boot ==
  /\ phase = "loading" /\ banner' = prefs.net /\ misled' = FALSE
  /\ \/ vault = None /\ phase' = "onboarding" /\ ob' = FreshOb /\ UNCHANGED wallet
     \/ vault # None /\ phase' = "ready" /\ wallet' = WalletAt("wallet") /\ UNCHANGED ob
     \/ vault # None /\ phase' = "unlock-error" /\ UNCHANGED <<ob, wallet>>
  /\ tab' = "wallet"
  /\ UNCHANGED <<tour, aim, vault, prefs, moves, known, prefsVars, dao, transfer, light>>

\* retryUnlock
Retry ==
  /\ phase = "unlock-error"
  /\ banner' = prefs.net /\ phase' = "ready" /\ wallet' = WalletAt("wallet")
  /\ UNCHANGED <<tour, tab, aim, misled, vault, prefs, moves, ob, known, prefsVars, dao,
                 transfer, light>>

Onboard ==
  /\ ObNext
  /\ wallet' = IF phase' = "ready" THEN WalletAt("wallet") ELSE wallet
  /\ UNCHANGED <<prefsVars, dao, transfer, light>>

\* The screen of t takes the place of the one that is there.
Show(t, side) ==
  /\ phase = "ready" /\ t # tab /\ t \in tour /\ tab' = t
  /\ PrefsLeave /\ settings' = SettingsAt(t) /\ mine' = MineAt(t)
  /\ dao' = DaoAt(t) /\ transfer' = TransferAt(t, side) /\ wallet' = WalletAt(t)
  /\ UNCHANGED <<tour, phase, banner, misled, vault, prefs, moves, ob, known, miner, light>>

\* tab-change
TabChange(t) == Show(t, aim) /\ UNCHANGED aim

\* open-transfer of the wallet screen; the button for sending waits for the tree.
OpenTransfer(side) ==
  /\ At("wallet") /\ (side = "send" => SpendReady(wallet.snap))
  /\ aim' = side /\ Show("transfer", side)

\* "Wipe wallet" and location.reload().  A bound: no handler is about to write.
Wipe ==
  /\ At("settings") /\ Counted /\ writes = {} /\ rereads = 0 /\ tellings = 0
  /\ vault' = None /\ miner' = None
  /\ phase' = "loading" /\ tab' = "wallet" /\ aim' = "send" /\ banner' = Testnet
  /\ settings' = None
  /\ UNCHANGED <<tour, misled, prefs, ob, known, mine, writes, rereads, tellings, dao, transfer,
                 light, wallet>>

Next ==
  \/ Boot \/ Retry \/ Onboard \/ Wipe
  \/ \E t \in Tabs : TabChange(t)
  \/ \E s \in {"send", "receive"} : OpenTransfer(s)
  \/ PrefsNext /\ UNCHANGED <<ob, known, dao, transfer, light, wallet>>
  \/ DaoNext /\ UNCHANGED <<ob, known, prefsVars, transfer, light, wallet>>
  \/ TransferNext /\ UNCHANGED <<ob, known, prefsVars, dao, light, wallet>>
  \/ WalletNext /\ UNCHANGED <<ob, known, prefsVars, dao, transfer>>

Spec == Init /\ [][Next]_vars

\* Intervals and timeouts fire, and the host answers.  Nothing is assumed of the user
\* or of the wallet.
Asking == \E w \in writes : Asked(w) \/ Put(w) \/ MineStart(w) \/ Stored(w)
Reloading(for) ==
  /\ At("wallet")
  /\ \E r \in wallet.reloads : r.for = for /\ (ReloadTaken(r) \/ Reloaded(r) \/ ReloadFails(r))
Fairness ==
  /\ WF_vars(Debounced /\ UNCHANGED <<ob, known, dao, transfer, light, wallet>>)
  /\ WF_vars(Refresh /\ UNCHANGED <<ob, known, dao, transfer, light, wallet>>)
  /\ WF_vars(Asking /\ UNCHANGED <<ob, known, dao, transfer, light, wallet>>)
  /\ WF_vars(Listen /\ UNCHANGED <<ob, known, prefsVars, dao, transfer>>)
  /\ WF_vars(Poll /\ UNCHANGED <<ob, known, prefsVars, dao, transfer>>)
  /\ \A for \in {"entry", "refresh", "recover"} :
       WF_vars(Reloading(for) /\ UNCHANGED <<ob, known, prefsVars, dao, transfer>>)
  /\ \A s \in Snaps : WF_vars(PollAnswer(s) /\ UNCHANGED <<ob, known, prefsVars, dao, transfer>>)
FairSpec == Spec /\ Fairness

DeskTypeOK ==
  /\ phase \in {"loading", "onboarding", "unlock-error", "ready"}
  /\ tour \in Tours /\ tab \in tour \cup {"wallet"} /\ aim \in {"send", "receive"}
  /\ banner \in Nets /\ misled \in BOOLEAN
  /\ vault \in Seeds \cup Phrases \cup {None} /\ prefs \in AllPrefs /\ moves \in 0..Moves
  /\ ObTypeOK /\ PrefsTypeOK /\ DaoTypeOK /\ TransferTypeOK /\ WalletTypeOK

\* WritesOnlyEdits of every step: Save, the slider, the start of the miner, the choice of
\* a network and Finish change the preferences where the user changed them.
WritesHold == [][WritesOnlyEdits]_vars
=============================================================================
