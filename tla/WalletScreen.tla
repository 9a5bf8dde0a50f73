---------------------------- MODULE WalletScreen -----------------------------
(***************************************************************************)
(* The wallet screen (wallet-screen.ts).  A snapshot of the sync state     *)
(* reaches it, and the banner's sync line with it, by the poll, which      *)
(* starts after the first reload, and by every reload: on entry, after     *)
(* Refresh and after a recovery from a reorg.  Calls overlap and answers   *)
(* come late.  The chain wallet is external: it reports what it likes, and *)
(* reorgs at any time.                                                     *)
(***************************************************************************)
EXTENDS Shell

CONSTANTS Snaps,    \* what the wallet may report
          Heights,  \* where a reorg may have rewound it
          MaxPolls, MaxReloads  \* polls and reloads without an answer: bounds

Reloads == [for : {"entry", "refresh", "recover"}, snap : Snaps \cup {None}]
Wallets == [listening : BOOLEAN, timer : BOOLEAN, polls : SUBSET Snaps, reloads : SUBSET Reloads,
            snap : Snaps \cup {None}, refreshing : BOOLEAN, reorg : Heights \cup {None},
            recovering : Heights \cup {None}]
ASSUME WalletAssumption == None \notin Wallets

VARIABLES
  light,   \* the wallet's light-sync state
  wallet   \* the screen

\* listening: onReorg has answered; timer: the poll runs; polls: answers on their way;
\* reloads: what each run of reload came from, with the snapshot on its way to it;
\* snap: syncDetail; refreshing; reorg: the height offered for recovery; recovering.
WalletAt(t) ==
  IF t # "wallet" THEN None
  ELSE [listening |-> FALSE, timer |-> FALSE, polls |-> {}, reloads |-> {}, snap |-> None,
        refreshing |-> FALSE, reorg |-> None, recovering |-> None]

WalletOnly == UNCHANGED <<shellVars, light>>
Reload(for) == [for |-> for, snap |-> None]

\* A bound: only while somebody looks
Chain ==
  /\ At("wallet") /\ light' \in Snaps \ {light}
  /\ UNCHANGED <<shellVars, wallet>>

\* onReorg resolves; the first reload begins.
Listen ==
  /\ At("wallet") /\ ~wallet.listening
  /\ wallet' = [wallet EXCEPT !.listening = TRUE, !.reloads = {Reload("entry")}]
  /\ WalletOnly

\* The host's reorg event: lost on any other tab
Reorg(h) ==
  /\ At("wallet") /\ wallet.listening
  /\ wallet' = [wallet EXCEPT !.reorg = h]
  /\ WalletOnly

\* applySync: this screen, and by sync-update the banner
Apply(w, s) == wallet' = [w EXCEPT !.snap = s]

\* wallet_light_sync takes the snapshot for a reload.
ReloadTaken(r) ==
  /\ At("wallet") /\ r \in wallet.reloads /\ r.snap = None
  /\ wallet' = [wallet EXCEPT !.reloads = (@ \ {r}) \cup {[r EXCEPT !.snap = light]}]
  /\ WalletOnly

\* What follows a reload
AfterReload(w, for) ==
  [w EXCEPT !.timer = (@ \/ for = "entry"), !.refreshing = (@ /\ for # "refresh")]

\* The snapshot is applied and the rest is loaded, which changes nothing here.
Reloaded(r) ==
  /\ At("wallet") /\ r \in wallet.reloads /\ r.snap # None
  /\ Apply(AfterReload([wallet EXCEPT !.reloads = @ \ {r}], r.for), r.snap)
  /\ WalletOnly

\* A mutant of ReloadFails: the error passes on to connectedCallback.
ReloadThrows(r) ==
  /\ At("wallet") /\ r \in wallet.reloads
  /\ wallet' = [wallet EXCEPT !.reloads = @ \ {r}, !.refreshing = FALSE]
  /\ WalletOnly

\* Any of its calls fails: an error is shown, and the caller goes on.
ReloadFails(r) ==
  /\ At("wallet") /\ r \in wallet.reloads
  /\ wallet' = AfterReload([wallet EXCEPT !.reloads = @ \ {r}], r.for)
  /\ WalletOnly

\* The interval and pollSync
Poll ==
  /\ At("wallet") /\ wallet.timer /\ Cardinality(wallet.polls) < MaxPolls
  /\ wallet' = [wallet EXCEPT !.polls = @ \cup {light}]
  /\ WalletOnly

PollAnswer(s) ==
  /\ At("wallet") /\ s \in wallet.polls
  /\ Apply([wallet EXCEPT !.polls = @ \ {s}], s)
  /\ WalletOnly

\* refresh: walletRefresh, and a reload whether it works or not
Refreshed ==
  /\ At("wallet") /\ ~wallet.refreshing /\ Cardinality(wallet.reloads) < MaxReloads
  /\ wallet' = [wallet EXCEPT !.refreshing = TRUE, !.reloads = @ \cup {Reload("refresh")}]
  /\ WalletOnly

\* recoverReorg, with the height that is offered; the offer stays.  A bound: one at a
\* time, which the button does not see to.
Recover ==
  /\ At("wallet") /\ wallet.reorg # None /\ wallet.recovering = None
  /\ wallet' = [wallet EXCEPT !.recovering = wallet.reorg]
  /\ WalletOnly

Recovered ==
  /\ At("wallet") /\ wallet.recovering # None /\ Cardinality(wallet.reloads) < MaxReloads
  /\ \/ wallet' = [wallet EXCEPT !.recovering = None]       \* it failed
     \/ wallet' = [wallet EXCEPT !.recovering = None, !.reloads = @ \cup {Reload("recover")}]
  /\ WalletOnly

WalletNext ==
  \/ Chain \/ Listen \/ Poll \/ Refreshed \/ Recover \/ Recovered
  \/ \E h \in Heights : Reorg(h)
  \/ \E s \in Snaps : At("wallet") /\ PollAnswer(s)
  \/ At("wallet") /\ \E r \in wallet.reloads : ReloadTaken(r) \/ Reloaded(r) \/ ReloadFails(r)

WalletTypeOK ==
  /\ light \in Snaps
  /\ (wallet = None) = ~At("wallet")
  /\ wallet \in Wallets \cup {None}
  /\ wallet # None => (wallet.polls # {} => wallet.timer)

\* A wallet that comes to rest is seen as it is by whoever stays: the poll starts even
\* when the first reload fails, and no snapshot of a reload or a poll that was
\* overtaken is the last word.
SyncSettles ==
  \A s \in Snaps :
    <>[](At("wallet") /\ light = s) => <>[](wallet # None /\ wallet.snap = s)
=============================================================================
