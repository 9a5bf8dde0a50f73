----------------------------- MODULE Onboarding ------------------------------
(***************************************************************************)
(* The onboarding screen (onboarding-flow.ts) and, behind its Finish, the  *)
(* host's create_wallet and restore_wallet, which are one function,        *)
(* persist_and_open.  Its buttons are not all disabled while a call is     *)
(* under way, so that steps change under it.                               *)
(***************************************************************************)
EXTENDS Shell

CONSTANTS Testnet,  \* the network offered first, whatever the preferences say
          Seeds,    \* what generate_mnemonic may return
          Phrases   \* what the user may type in to restore

Finishes == [words : Seeds \cup Phrases, net : Nets]
Obs == [step : {"welcome", "create", "restore"}, mode : {"create", "restore"},
        mnemonic : Seeds \cup Phrases \cup {None}, net : Nets, generating : BOOLEAN,
        finishing : Finishes \cup {None}]
ASSUME OnboardingAssumption ==
  Testnet \in Nets /\ None \notin Seeds \cup Phrases /\ None \notin Finishes \cup Obs

VARIABLES
  ob,      \* the screen
  known    \* the seeds shown or typed (of the user's mind); later only the vault's

\* mnemonic is what Finish sends, generating a call for a new one, finishing the
\* arguments of the call that Finish made.
FreshOb == [step |-> "welcome", mode |-> "create", mnemonic |-> None, net |-> Testnet,
            generating |-> FALSE, finishing |-> None]

\* busy in the code: one flag for both calls
ObBusy == ob.generating \/ ob.finishing # None

ObOnly == UNCHANGED <<shell, banner, misled, vault, prefs, moves>>

\* The select and the two buttons of the welcome step; Create alone waits.
ChooseNet(n) ==
  /\ ob # None /\ ob.step = "welcome" /\ n # ob.net
  /\ ob' = [ob EXCEPT !.net = n] /\ UNCHANGED known /\ ObOnly

\* A mutant of StartCreate: the button is never disabled.
StartCreateAnytime ==
  /\ ob # None /\ ob.step = "welcome"
  /\ ob' = [ob EXCEPT !.generating = TRUE] /\ UNCHANGED known /\ ObOnly

StartCreate ==
  /\ ob # None /\ ob.step = "welcome" /\ ~ObBusy
  /\ ob' = [ob EXCEPT !.generating = TRUE] /\ UNCHANGED known /\ ObOnly

StartRestore ==
  /\ ob # None /\ ob.step = "welcome"
  /\ ob' = [ob EXCEPT !.mode = "restore", !.step = "restore"] /\ UNCHANGED known /\ ObOnly

Back ==
  /\ ob # None /\ ob.step # "welcome"
  /\ ob' = [ob EXCEPT !.step = "welcome"] /\ UNCHANGED known /\ ObOnly

\* generate_mnemonic answers: the words are shown, wherever the user is by now.
Generated(s) ==
  /\ ob # None /\ ob.generating
  /\ ob' = [ob EXCEPT !.generating = FALSE, !.mnemonic = s, !.mode = "create", !.step = "create"]
  /\ known' = known \cup {s} /\ ObOnly

\* finish up to its await.  A phrase that is too short (None) is refused here.
Finish(phrase) ==
  /\ ob # None /\ ob.step # "welcome" /\ ~ObBusy
  /\ LET words == IF ob.mode = "restore" THEN phrase ELSE ob.mnemonic IN
     /\ ob' = [ob EXCEPT !.mnemonic = words,
                         !.finishing = IF words = None THEN None ELSE [words |-> words, net |-> ob.net]]
     /\ known' = known \cup ({words} \ {None})
  /\ ObOnly

\* An error: the screen stays.
NotFinished == ob' = [ob EXCEPT !.finishing = None] /\ UNCHANGED <<shell, misled, known>>

\* wallet-ready: main-app goes on without asking for the network.
WalletReady ==
  /\ ob' = None /\ misled' = TRUE /\ known' = known \cap {vault'}
  /\ phase' = "ready" /\ tab' = "wallet" /\ UNCHANGED <<tour, aim>>

\* persist_and_open refuses, or finds a vault and opens that, or fails to.
Reused ==
  /\ ob # None /\ ob.finishing # None
  /\ UNCHANGED <<banner, vault, prefs, moves>>
  /\ \/ NotFinished
     \/ vault # None /\ WalletReady

\* Onboarding passes no endpoint, so that the one in the preferences stays whatever the
\* network.
Saved == [prefs EXCEPT !.net = ob.finishing.net]

\* The vault is made; saving the preferences can fail, and opening the wallet after it.
Persisted ==
  /\ ob # None /\ ob.finishing # None /\ vault = None
  /\ vault' = ob.finishing.words
  /\ \/ prefs' = Saved /\ WalletReady
     \/ prefs' \in {prefs, Saved} /\ NotFinished
  /\ UNCHANGED <<banner, moves>>

ObNext ==
  \/ \E n \in Nets : ChooseNet(n)
  \/ StartCreate \/ StartRestore \/ Back
  \/ \E s \in Seeds : Generated(s)
  \/ \E w \in Phrases \cup {None} : Finish(w)
  \/ Reused \/ Persisted

ObTypeOK ==
  /\ (ob = None) = (phase # "onboarding")
  /\ ob \in Obs \cup {None}
  /\ known \subseteq Seeds \cup Phrases

\* The words on the screen while a Finish is under way are those the host was given,
\* with whatever the user presses meanwhile, and a vault made here holds words that
\* the user has seen or typed.  (After a Finish that failed behind create_vault it
\* need not be the last ones shown: the next Finish opens the vault that is there.)
SeedShownIsMade ==
  /\ ob # None => (ob.finishing # None => ob.mnemonic = ob.finishing.words)
  /\ ob # None /\ ob.step = "create" => ob.mnemonic \in Seeds \cap known
  /\ vault # None => vault \in known
=============================================================================
