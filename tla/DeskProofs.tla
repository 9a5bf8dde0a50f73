------------------------------ MODULE DeskProofs ------------------------------
(***************************************************************************)
(* Proofs about Desk for every set of tabs visited, networks, seeds, DAOs, *)
(* addresses and number of handlers under way: one inductive invariant for *)
(* each screen, on top of one about which screen is there.                 *)
(***************************************************************************)
EXTENDS Desk, FiniteSetTheorems, SequenceTheorems, TLAPS

\* Before the screens, the tab is the first one; onboarding has a phase of its own.
NavInv ==
  /\ phase \in {"loading", "onboarding", "unlock-error", "ready"}
  /\ phase # "onboarding" => ob = None
  /\ phase # "ready" => tab = "wallet"
  /\ tour \in Tours /\ tab \in tour \cup {"wallet"} /\ aim \in {"send", "receive"}

\* A step that changes the screens: each is made anew or stays away.
Navigates ==
  \/ Boot \/ Retry \/ Onboard \/ Wipe
  \/ \E t \in Tabs, s \in {"send", "receive"} : Show(t, s)

\* A step on one screen
InPrefs == PrefsNext /\ UNCHANGED <<ob, known, dao, transfer, light, wallet>>
InDao == DaoNext /\ UNCHANGED <<ob, known, prefsVars, transfer, light, wallet>>
InTransfer == TransferNext /\ UNCHANGED <<ob, known, prefsVars, dao, light, wallet>>
InWallet == WalletNext /\ UNCHANGED <<ob, known, prefsVars, dao, transfer>>
-----------------------------------------------------------------------------
\* A screen's own steps leave the phase, the tab and the vault alone.
LEMMA PrefsStay == PrefsNext => UNCHANGED <<tour, phase, tab, aim, vault>>
BY DEF PrefsNext, EditDraft, SetNick, Save, Reread, Told, SwitchNetwork, Slide, Debounced, Start,
   Refresh, MinerEnds, Asked, Put, MineStart, Stored, PageOnly, shell

LEMMA DaoStay == DaoNext => UNCHANGED shellVars
BY DEF DaoNext, RefreshDaos, Cancel, Submit, View, OpenModal, Vote, Listed, Proposed, Failed,
   Submitted, Voted, DaoOnly

LEMMA TransferStay == TransferNext => UNCHANGED shellVars
BY DEF TransferNext, Choose, NewAddr, Encoded, Answered

LEMMA WalletStay == WalletNext => UNCHANGED shellVars
BY DEF WalletNext, Chain, Listen, Poll, Refreshed, Recover, Recovered, Reorg, PollAnswer,
   ReloadTaken, Reloaded, ReloadFails, WalletOnly

\* Onboarding goes on, or the wallet is ready.
LEMMA OnboardEnds ==
  ASSUME NavInv, Onboard
  PROVE  /\ phase = "onboarding" /\ UNCHANGED <<prefsVars, dao, transfer, light, aim, tour>>
         /\ \/ UNCHANGED <<phase, tab>>
            \/ phase' = "ready" /\ tab' = "wallet" /\ ob' = None
<1>1. phase = "onboarding"
  BY DEF Onboard, ObNext, ChooseNet, StartCreate, StartRestore, Back, Generated, Finish,
     Reused, Persisted, NavInv
<1>2. \/ UNCHANGED shell
      \/ phase' = "ready" /\ tab' = "wallet" /\ ob' = None /\ UNCHANGED <<aim, tour>>
  BY DEF Onboard, ObNext, ChooseNet, StartCreate, StartRestore, Back, Generated, Finish,
     Reused, Persisted, NotFinished, WalletReady, ObOnly
<1>. QED
  BY <1>1, <1>2 DEF Onboard, shell

LEMMA NavStep ==
  ASSUME NavInv, [Next]_vars
  PROVE  /\ NavInv'
         /\ \/ Navigates
            \/ /\ UNCHANGED <<tour, phase, tab, vault>>
               /\ InPrefs \/ InDao \/ InTransfer \/ InWallet \/ UNCHANGED vars
<1>0. CASE InPrefs \/ InDao \/ InTransfer \/ InWallet \/ UNCHANGED vars
  BY <1>0, PrefsStay, DaoStay, TransferStay, WalletStay
     DEF InPrefs, InDao, InTransfer, InWallet, vars, shellVars, shell, screens, NavInv
<1>1. CASE Boot \/ Retry \/ Wipe
  BY <1>1 DEF Boot, Retry, Wipe, NavInv, Navigates, At
<1>2. CASE Onboard
  BY <1>2, OnboardEnds DEF NavInv, Navigates
<1>3. CASE (\E t \in Tabs : TabChange(t)) \/ \E s \in {"send", "receive"} : OpenTransfer(s)
  <2>1. PICK t \in Tabs, s \in {"send", "receive"} : Show(t, s) /\ aim' \in {"send", "receive"}
    BY <1>3 DEF TabChange, OpenTransfer, NavInv, Tabs
  <2>. QED
    BY <2>1 DEF Show, NavInv, Navigates
<1>. QED
  BY <1>0, <1>1, <1>2, <1>3 DEF Next, InPrefs, InDao, InTransfer, InWallet
-----------------------------------------------------------------------------
(* The receive half                                                        *)

\* The last address that is being encoded is the one that is read; and when none is, a
\* code that is not its own has an error beside it, or another request has hidden that.
QrFollows(h) ==
  IF h.encoding = <<>> THEN h.qr = h.address \/ h.error \/ h.asks > 0
  ELSE h.encoding[Len(h.encoding)] = h.address

TransferInv ==
  /\ ~At("transfer") => transfer = None
  /\ At("transfer") => transfer \in Halves /\ QrFollows(transfer)

LEMMA HalfIsSound ==
  ASSUME NEW s \in {"send", "receive"}
  PROVE  Half(s) \in Halves /\ QrFollows(Half(s))
BY ReceiveAssumption DEF Half, Halves, QrFollows

LEMMA TransferMoves ==
  ASSUME NavInv, TransferInv, TransferNext
  PROVE  TransferInv'
<1>0. UNCHANGED <<phase, tab>>
  BY TransferStay DEF shellVars, shell
<1>1. ASSUME NEW s \in {"send", "receive"}, Choose(s)
      PROVE  TransferInv'
  BY <1>0, <1>1, HalfIsSound DEF Choose, TransferInv, At
<1>2. CASE NewAddr
  <2>1. /\ At("transfer") /\ transfer \in Halves /\ QrFollows(transfer)
        /\ transfer.asks + Len(transfer.encoding) < MaxAsks
        /\ transfer' = [transfer EXCEPT !.asks = transfer.asks + 1, !.error = FALSE]
    BY <1>2 DEF NewAddr, OnReceive, TransferInv
  <2>2. transfer.asks + 1 \in 0..MaxAsks /\ transfer.asks + 1 > 0
    <3>1. transfer.asks \in Nat /\ Len(transfer.encoding) \in Nat /\ MaxAsks \in Nat
      BY <2>1, ReceiveAssumption DEF Halves
    <3>. QED
      BY <2>1, <3>1
  <2>. QED
    BY <1>0, <2>1, <2>2 DEF TransferInv, At, Halves, QrFollows
<1>3. CASE Encoded
  <2>1. /\ At("transfer") /\ transfer \in Halves /\ transfer.encoding # <<>>
        /\ QrFollows(transfer)
        /\ \/ transfer' = [transfer EXCEPT !.qr = Head(transfer.encoding),
                                           !.encoding = Tail(transfer.encoding)]
           \/ transfer' = [transfer EXCEPT !.error = TRUE,
                                           !.encoding = Tail(transfer.encoding)]
    BY <1>3 DEF Encoded, OnReceive, TransferInv
  <2>. DEFINE e == transfer.encoding
  <2>2. e \in Seq(Addresses) /\ e # <<>>
    BY <2>1 DEF Halves
  <2>3. /\ Head(e) \in Addresses /\ Tail(e) \in Seq(Addresses) /\ Len(Tail(e)) = Len(e) - 1
        /\ Head(e) = e[1] /\ \A k \in 1..Len(Tail(e)) : Tail(e)[k] = e[k + 1]
    BY <2>2, HeadTailProperties
  <2>4. Len(e) \in Nat /\ Len(e) # 0
    BY <2>2, EmptySeq, LenProperties
  <2>5. Tail(e) = <<>> => Len(e) = 1
    <3>. HIDE DEF e
    <3>1. Tail(e) = <<>> => Len(Tail(e)) = 0
      BY <2>3, EmptySeq
    <3>. QED
      BY <2>3, <2>4, <3>1
  <2>6. Tail(e) # <<>> => Tail(e)[Len(Tail(e))] = e[Len(e)]
    BY <2>3, <2>4
  <2>. HIDE DEF e
  <2>7. transfer' \in Halves /\ QrFollows(transfer)'
    BY <2>1, <2>2, <2>3, <2>5, <2>6 DEF Halves, QrFollows, e
  <2>. QED
    BY <1>0, <2>1, <2>7 DEF TransferInv, At
<1>4. ASSUME NEW a \in Addresses \cup {None}, Answered(a)
      PROVE  TransferInv'
  <2>1. /\ At("transfer") /\ transfer \in Halves /\ transfer.asks > 0 /\ QrFollows(transfer)
    BY <1>4 DEF Answered, OnReceive, TransferInv
  <2>2. transfer.asks - 1 \in 0..MaxAsks
    BY <2>1, ReceiveAssumption DEF Halves
  <2>3. CASE a = None
    BY <1>0, <1>4, <2>1, <2>2, <2>3 DEF Answered, TransferInv, At, Halves, QrFollows
  <2>4. CASE a # None
    <3>. DEFINE e == Append(transfer.encoding, a)
    <3>1. transfer.encoding \in Seq(Addresses) /\ a \in Addresses
      BY <2>1, <2>4 DEF Halves
    <3>2. e \in Seq(Addresses) /\ e # <<>> /\ e[Len(e)] = a
      BY <3>1, AppendProperties
    <3>3. transfer' = [transfer EXCEPT !.asks = transfer.asks - 1, !.address = a, !.encoding = e]
      BY <1>4, <2>4 DEF Answered
    <3>. HIDE DEF e
    <3>4. transfer' \in Halves /\ transfer'.encoding = e /\ transfer'.address = a
      BY <2>1, <2>2, <3>1, <3>2, <3>3 DEF Halves
    <3>. QED
      BY <1>0, <2>1, <3>2, <3>4 DEF TransferInv, At, QrFollows
  <2>. QED
    BY <2>3, <2>4
<1>. QED
  BY <1>1, <1>2, <1>3, <1>4 DEF TransferNext

LEMMA TransferStep ==
  ASSUME NavInv, TransferInv, [Next]_vars
  PROVE  TransferInv'
<1>1. CASE InTransfer
  BY <1>1, TransferMoves DEF InTransfer
<1>2. CASE /\ UNCHANGED <<tour, phase, tab, vault>>
           /\ InPrefs \/ InDao \/ InWallet \/ UNCHANGED vars
  BY <1>2 DEF InPrefs, InDao, InWallet, vars, screens, TransferInv, At, QrFollows
<1>3. ASSUME NEW t \in Tabs, NEW s \in {"send", "receive"}, Show(t, s)
      PROVE  TransferInv'
  BY <1>3, HalfIsSound DEF Show, TransferAt, TransferInv, At
<1>4. CASE Boot \/ Retry \/ Wipe
  BY <1>4 DEF Boot, Retry, Wipe, At, NavInv, TransferInv
<1>5. CASE Onboard
  BY <1>5, OnboardEnds DEF TransferInv, At
<1>. QED
  BY <1>1, <1>2, <1>3, <1>4, <1>5, NavStep DEF Navigates
-----------------------------------------------------------------------------
(* Onboarding                                                              *)

\* The words of the create step come from a mnemonic call, never from the other step;
\* no such call is under way with a Finish, which holds the words that are shown.
ObSound(o, seen) ==
  /\ o.step = "create" => o.mode = "create" /\ o.mnemonic \in Seeds \cap seen
  /\ o.generating => o.finishing = None
  /\ o.finishing # None => o.mnemonic = o.finishing.words /\ o.mnemonic \in seen

ObInv ==
  /\ phase = "onboarding" => ob \in Obs /\ ObSound(ob, known)
  /\ vault # None => vault \in known
  /\ known \subseteq Seeds \cup Phrases

LEMMA ObAsks ==
  ASSUME NavInv, ObInv, phase = "onboarding",
         \/ \E n \in Nets : ChooseNet(n)
         \/ StartCreate \/ StartRestore \/ Back
         \/ \E s \in Seeds : Generated(s)
  PROVE  ObInv'
<1>0. ob \in Obs /\ ObSound(ob, known) /\ UNCHANGED <<phase, vault>>
  BY DEF ObInv, ChooseNet, StartCreate, StartRestore, Back, Generated, ObOnly, shell
<1>1. CASE \E n \in Nets : ChooseNet(n)
  BY <1>0, <1>1 DEF ObInv, ChooseNet, Obs, ObSound
<1>2. CASE StartCreate
  <2>1. ob.finishing = None /\ ob' = [ob EXCEPT !.generating = TRUE] /\ known' = known
    BY <1>2 DEF StartCreate, ObBusy
  <2>. QED
    BY <1>0, <2>1 DEF ObInv, Obs, ObSound
<1>3. CASE StartRestore \/ Back
  BY <1>0, <1>3 DEF ObInv, StartRestore, Back, Obs, ObSound
<1>4. ASSUME NEW s \in Seeds, Generated(s)
      PROVE  ObInv'
  <2>1. /\ ob.finishing = None /\ known' = known \cup {s}
        /\ ob' = [ob EXCEPT !.generating = FALSE, !.mnemonic = s, !.mode = "create",
                            !.step = "create"]
    BY <1>0, <1>4 DEF Generated, ObSound
  <2>. QED
    BY <1>0, <2>1 DEF ObInv, Obs, ObSound
<1>. QED
  BY <1>1, <1>2, <1>3, <1>4

LEMMA ObFinishes ==
  ASSUME NavInv, ObInv, phase = "onboarding", NEW w \in Phrases \cup {None}, Finish(w)
  PROVE  ObInv'
<1>0. /\ ob \in Obs /\ ObSound(ob, known) /\ UNCHANGED <<phase, vault>>
      /\ ~ob.generating /\ ob.step # "welcome"
  BY DEF ObInv, Finish, ObOnly, shell, ObBusy
<1>1. PICK words :
        /\ words = IF ob.mode = "restore" THEN w ELSE ob.mnemonic
        /\ ob' = [ob EXCEPT !.mnemonic = words,
                            !.finishing = IF words = None THEN None
                                          ELSE [words |-> words, net |-> ob.net]]
        /\ known' = known \cup ({words} \ {None})
  BY DEF Finish
<1>2. words \in Seeds \cup Phrases \cup {None}
  BY <1>0, <1>1 DEF Obs
<1>3. /\ ob' \in Obs /\ ob'.mnemonic = words /\ ob'.step = ob.step /\ ob'.mode = ob.mode
      /\ ob'.generating = ob.generating
      /\ ob'.finishing = IF words = None THEN None ELSE [words |-> words, net |-> ob.net]
  BY <1>0, <1>1, <1>2 DEF Obs, Finishes
<1>4. ObSound(ob, known)'
  BY <1>0, <1>1, <1>3 DEF ObSound
<1>. QED
  BY <1>0, <1>1, <1>2, <1>3, <1>4 DEF ObInv

LEMMA ObEnds ==
  ASSUME NavInv, ObInv, phase = "onboarding", Reused \/ Persisted
  PROVE  ObInv'
<1>0. ob \in Obs /\ ObSound(ob, known) /\ ob.finishing # None
  BY DEF ObInv, Reused, Persisted
<1>1. /\ ob.finishing.words \in known /\ ob.finishing.words # None
  BY <1>0, OnboardingAssumption DEF Obs, Finishes, ObSound
<1>2. vault' # None => vault' \in known
  BY <1>1 DEF Reused, Persisted, ObInv
<1>3. CASE NotFinished
  <2>1. ob' \in Obs /\ ObSound(ob, known)'
    BY <1>0, <1>3 DEF NotFinished, Obs, ObSound
  <2>. QED
    BY <1>2, <1>3, <2>1 DEF NotFinished, ObInv
<1>4. CASE WalletReady
  BY <1>2, <1>4 DEF WalletReady, ObInv
<1>. QED
  BY <1>3, <1>4 DEF Reused, Persisted

LEMMA ObStep ==
  ASSUME NavInv, ObInv, [Next]_vars
  PROVE  ObInv'
<1>1. CASE /\ UNCHANGED <<tour, phase, tab, vault>>
           /\ InPrefs \/ InDao \/ InTransfer \/ InWallet \/ UNCHANGED vars
  BY <1>1 DEF InPrefs, InDao, InTransfer, InWallet, vars, screens, ObInv, ObSound
<1>2. CASE \E t \in Tabs, s \in {"send", "receive"} : Show(t, s)
  BY <1>2 DEF Show, ObInv
<1>3. CASE Boot
  <2>1. FreshOb \in Obs /\ ObSound(FreshOb, known')
    BY OnboardingAssumption DEF FreshOb, Obs, ObSound
  <2>2. known' = known /\ vault' = vault /\ (phase' = "onboarding" => ob' = FreshOb)
    BY <1>3 DEF Boot
  <2>. QED
    BY <2>1, <2>2 DEF ObInv
<1>4. CASE Retry \/ Wipe
  BY <1>4 DEF Retry, Wipe, ObInv
<1>5. CASE Onboard
  BY <1>5, OnboardEnds, ObAsks, ObFinishes, ObEnds DEF Onboard, ObNext
<1>. QED
  BY <1>1, <1>2, <1>3, <1>4, <1>5, NavStep DEF Navigates
-----------------------------------------------------------------------------
(* The DAO screen                                                          *)

\* The loading flag has one owner, and calls go on to the end of their own handler.
Takes(c) == c.for \in {"refresh", "propose"}
CallsSound(loading, calls) ==
  /\ loading <=> \E c \in calls : Takes(c)
  /\ \A c, e \in calls : Takes(c) /\ Takes(e) => c = e
  /\ \A c \in calls : /\ c.what = "list" => c.for = "refresh"
                      /\ c.what = "propose" => c.for = "propose"
                      /\ c.what = "vote" => c.for = "vote"
                      /\ c.what = "proposals" => c.of \in Daos \cup {None}

DaoSound(d) ==
  /\ d.modal => d.sel = d.meant /\ d.sel # None
  /\ CallsSound(d.loading, d.calls)

DaoInv ==
  /\ ~At("dao") => dao = None
  /\ At("dao") => dao \in DaoStates /\ DaoSound(dao)

LEMMA DaoIsSound == DaoAt("dao") \in DaoStates /\ DaoSound(DaoAt("dao"))
<1>. DEFINE c == Call("list", None, "refresh")
<1>1. c \in DaoCalls /\ Takes(c) /\ c.for = "refresh" /\ c.what = "list"
  BY DEF Call, DaoCalls, Takes
<1>. HIDE DEF c
<1>2. DaoAt("dao") = [list |-> <<>>, sel |-> None, proposals |-> None, modal |-> FALSE,
                      meant |-> None, loading |-> TRUE, voting |-> None, calls |-> {c}]
  BY DEF DaoAt, c
<1>3. DaoAt("dao") \in DaoStates
  <2>1. <<>> \in DaoLists /\ {c} \in SUBSET DaoCalls
    BY <1>1 DEF DaoLists
  <2>2. [list |-> <<>>, sel |-> None, proposals |-> None, modal |-> FALSE, meant |-> None,
         loading |-> TRUE, voting |-> None, calls |-> {c}] \in DaoStates
    BY <2>1, Zenon DEF DaoStates
  <2>. QED
    BY <1>2, <2>2, Zenon
<1>4. DaoSound(DaoAt("dao"))
  BY <1>1, <1>2 DEF DaoSound, CallsSound
<1>. QED
  BY <1>3, <1>4

LEMMA ListsOfDaos == \A l \in DaoLists : /\ l # <<>> => l[1] \in Daos
                                         /\ \A i \in DOMAIN l : l[i] \in Daos
BY DEF DaoLists

\* A call is replaced by the next one of its handler,
LEMMA CallGoesOn ==
  ASSUME NEW calls \in SUBSET DaoCalls, NEW loading \in BOOLEAN, CallsSound(loading, calls),
         NEW c \in calls, NEW n \in DaoCalls, n.what = "proposals", n.for = c.for,
         n.of \in Daos \cup {None}
  PROVE  CallsSound(loading, (calls \ {c}) \cup {n})
BY DEF CallsSound, Takes

\* or ends with it,
LEMMA CallEnds ==
  ASSUME NEW calls \in SUBSET DaoCalls, NEW loading \in BOOLEAN, CallsSound(loading, calls),
         NEW c \in calls
  PROVE  CallsSound(loading /\ c.for \notin {"refresh", "propose"}, calls \ {c})
BY DEF CallsSound, Takes

\* and a handler begins, with the loading flag or without.
LEMMA CallBegins ==
  ASSUME NEW calls \in SUBSET DaoCalls, NEW loading \in BOOLEAN, CallsSound(loading, calls),
         NEW n \in DaoCalls,
         /\ n.what = "list" => n.for = "refresh"
         /\ n.what = "propose" => n.for = "propose"
         /\ n.what = "vote" => n.for = "vote"
         /\ n.what = "proposals" => n.of \in Daos \cup {None}
  PROVE  /\ ~Takes(n) => CallsSound(loading, calls \cup {n})
         /\ Takes(n) /\ ~loading => CallsSound(TRUE, calls \cup {n})
BY DEF CallsSound, Takes

\* The handlers that begin
LEMMA DaoBegins ==
  ASSUME DaoInv, UNCHANGED <<phase, tab>>,
         \/ RefreshDaos \/ Cancel \/ Submit
         \/ \E n \in Daos : View(n) \/ OpenModal(n)
         \/ \E b \in Bullas : Vote(b)
  PROVE  DaoInv'
<1>0. /\ At("dao") /\ At("dao")' /\ dao \in DaoStates /\ DaoSound(dao)
      /\ dao.calls \in SUBSET DaoCalls /\ dao.loading \in BOOLEAN
      /\ CallsSound(dao.loading, dao.calls)
  BY DEF DaoInv, RefreshDaos, Cancel, Submit, View, OpenModal, Vote, OnPage, OnModal, At,
     DaoSound, DaoStates
<1>. SUFFICES dao' \in DaoStates /\ DaoSound(dao)'
  BY <1>0 DEF DaoInv
<1>1. CASE RefreshDaos
  <2>. DEFINE n == Call("list", None, "refresh")
  <2>1. n \in DaoCalls /\ Takes(n) /\ n.what = "list" /\ n.for = "refresh"
    BY DEF Call, DaoCalls, Takes
  <2>2. ~dao.loading /\ dao' = [dao EXCEPT !.loading = TRUE, !.calls = dao.calls \cup {n}]
    BY <1>1 DEF RefreshDaos
  <2>. HIDE DEF n
  <2>3. CallsSound(TRUE, dao.calls \cup {n})
    BY <1>0, <2>1, <2>2, CallBegins
  <2>. QED
    BY <1>0, <2>1, <2>2, <2>3 DEF DaoStates, DaoSound
<1>2. CASE Submit
  <2>. DEFINE n == Call("propose", dao.sel, "propose")
  <2>1. n \in DaoCalls /\ Takes(n) /\ n.what = "propose" /\ n.for = "propose"
    BY <1>0 DEF Call, DaoCalls, Takes, DaoStates
  <2>2. ~dao.loading /\ dao' = [dao EXCEPT !.loading = TRUE, !.calls = dao.calls \cup {n}]
    BY <1>2 DEF Submit
  <2>. HIDE DEF n
  <2>3. CallsSound(TRUE, dao.calls \cup {n})
    BY <1>0, <2>1, <2>2, CallBegins
  <2>. QED
    BY <1>0, <2>1, <2>2, <2>3 DEF DaoStates, DaoSound
<1>3. CASE Cancel
  BY <1>0, <1>3 DEF Cancel, DaoStates, DaoSound
<1>4. ASSUME NEW m \in Daos, View(m)
      PROVE  dao' \in DaoStates /\ DaoSound(dao)'
  <2>. DEFINE n == Call("proposals", m, "view")
  <2>1. n \in DaoCalls /\ ~Takes(n) /\ n.what = "proposals" /\ n.of = m
    BY DEF Call, DaoCalls, Takes
  <2>2. ~dao.modal /\ dao' = [dao EXCEPT !.sel = m, !.calls = dao.calls \cup {n}]
    BY <1>4 DEF View, OnPage, LoadProposals
  <2>. HIDE DEF n
  <2>3. CallsSound(dao.loading, dao.calls \cup {n})
    BY <1>0, <2>1, CallBegins
  <2>. QED
    BY <1>0, <2>1, <2>2, <2>3 DEF DaoStates, DaoSound
<1>5. ASSUME NEW m \in Daos, OpenModal(m)
      PROVE  dao' \in DaoStates /\ DaoSound(dao)'
  <2>1. dao' = [dao EXCEPT !.sel = m, !.meant = m, !.modal = TRUE] /\ m # None
    BY <1>5, DaoAssumption DEF OpenModal
  <2>. QED
    BY <1>0, <2>1 DEF DaoStates, DaoSound
<1>6. ASSUME NEW b \in Bullas, Vote(b)
      PROVE  dao' \in DaoStates /\ DaoSound(dao)'
  <2>. DEFINE n == Call("vote", b, "vote")
  <2>1. n \in DaoCalls /\ ~Takes(n) /\ n.what = "vote" /\ n.for = "vote"
    BY DEF Call, DaoCalls, Takes
  <2>2. ~dao.modal /\ dao' = [dao EXCEPT !.voting = b, !.calls = dao.calls \cup {n}]
    BY <1>6 DEF Vote, OnPage
  <2>. HIDE DEF n
  <2>3. CallsSound(dao.loading, dao.calls \cup {n})
    BY <1>0, <2>1, CallBegins
  <2>. QED
    BY <1>0, <2>1, <2>2, <2>3 DEF DaoStates, DaoSound
<1>. QED
  BY <1>1, <1>2, <1>3, <1>4, <1>5, <1>6

\* What an answer does to the calls and the flag; what else changes is the list, the
\* proposals, the flag of a vote, and the selection: to itself, to the first DAO where
\* there was none, or as the modal closes.
LEMMA DaoAnswered ==
  ASSUME DaoInv, UNCHANGED <<phase, tab>>, At("dao"), NEW c \in dao.calls,
         \/ \E l \in DaoLists : Listed(c, l)
         \/ Proposed(c) \/ Failed(c) \/ Submitted(c) \/ Voted(c)
  PROVE  DaoInv'
<1>0. /\ At("dao")' /\ dao \in DaoStates /\ DaoSound(dao)
      /\ dao.calls \in SUBSET DaoCalls /\ dao.loading \in BOOLEAN /\ c \in DaoCalls
      /\ CallsSound(dao.loading, dao.calls) /\ dao.sel \in Daos \cup {None}
  BY DEF DaoInv, At, DaoSound, DaoStates
<1>. SUFFICES dao' \in DaoStates /\ DaoSound(dao)'
  BY <1>0 DEF DaoInv
<1>a. /\ c.what = "list" => c.for = "refresh"
      /\ c.what = "propose" => c.for = "propose"
      /\ c.what = "vote" => c.for = "vote"
  BY <1>0 DEF CallsSound
<1>e. CallsSound(dao.loading /\ c.for \notin {"refresh", "propose"}, dao.calls \ {c})
  BY <1>0, CallEnds
<1>f. \A m \in Daos \cup {None} :
        /\ Call("proposals", m, c.for) \in DaoCalls
        /\ CallsSound(dao.loading, (dao.calls \ {c}) \cup {Call("proposals", m, c.for)})
  <2>. TAKE m \in Daos \cup {None}
  <2>. DEFINE n == Call("proposals", m, c.for)
  <2>1. n \in DaoCalls /\ n.what = "proposals" /\ n.for = c.for /\ n.of = m
    BY <1>0 DEF Call, DaoCalls
  <2>. HIDE DEF n
  <2>2. CallsSound(dao.loading, (dao.calls \ {c}) \cup {n})
    BY <1>0, <2>1, CallGoesOn
  <2>. QED
    BY <2>1, <2>2 DEF n
<1>1. ASSUME NEW l \in DaoLists, Listed(c, l)
      PROVE  dao' \in DaoStates /\ DaoSound(dao)'
  <2>0. c.for = "refresh"
    BY <1>1, <1>a DEF Listed
  <2>1. CASE l # <<>> /\ dao.sel = None
    <3>. DEFINE n == Call("proposals", l[1], c.for)
    <3>1. l[1] \in Daos
      BY <2>1, ListsOfDaos
    <3>2. n \in DaoCalls /\ CallsSound(dao.loading, (dao.calls \ {c}) \cup {n})
      BY <1>f, <3>1
    <3>3. dao' = [dao EXCEPT !.list = l, !.sel = l[1], !.calls = (dao.calls \ {c}) \cup {n}]
      BY <1>0, <1>1, <2>0, <2>1 DEF Listed, LoadProposals, DaoStates
    <3>. HIDE DEF n
    <3>4. ~dao.modal
      BY <1>0, <2>1 DEF DaoSound
    <3>. QED
      BY <1>0, <3>1, <3>2, <3>3, <3>4 DEF DaoStates, DaoSound
  <2>2. CASE ~(l # <<>> /\ dao.sel = None)
    <3>1. dao' = [dao EXCEPT !.list = l, !.calls = dao.calls \ {c},
                             !.loading = dao.loading /\ c.for \notin {"refresh", "propose"},
                             !.voting = dao.voting]
      BY <1>0, <1>1, <2>0, <2>2 DEF Listed, Done, DaoStates
    <3>. QED
      BY <1>0, <1>e, <3>1 DEF DaoStates, DaoSound
  <2>. QED
    BY <2>1, <2>2
<1>2. CASE Proposed(c) \/ Failed(c)
  <2>1. PICK p \in Daos \cup {None}, v \in Bullas \cup {None} :
          dao' = [dao EXCEPT !.proposals = p, !.calls = dao.calls \ {c},
                             !.loading = dao.loading /\ c.for \notin {"refresh", "propose"},
                             !.voting = v]
    <3>1. /\ c.what = "proposals" => c.of \in Daos \cup {None}
          /\ dao.proposals \in Daos \cup {None} /\ dao.voting \in Bullas \cup {None}
      BY <1>0 DEF DaoStates, CallsSound
    <3>2. CASE Proposed(c)
      BY <1>0, <3>1, <3>2 DEF Proposed, Done, DaoStates
    <3>3. CASE Failed(c)
      <4>1. PICK v \in Bullas \cup {None} : v = IF c.for = "vote" THEN None ELSE dao.voting
        BY <3>1
      <4>2. dao' = [dao EXCEPT !.calls = dao.calls \ {c}, !.voting = v,
                               !.loading = dao.loading /\ c.for \notin {"refresh", "propose"}]
        BY <3>3, <4>1 DEF Failed, Done
      <4>3. dao' = [dao EXCEPT !.proposals = dao.proposals, !.calls = dao.calls \ {c},
                               !.loading = dao.loading /\ c.for \notin {"refresh", "propose"},
                               !.voting = v]
        BY <1>0, <4>2 DEF DaoStates
      <4>. QED
        BY <3>1, <4>3
    <3>. QED
      BY <1>2, <3>2, <3>3
  <2>. QED
    BY <1>0, <1>e, <2>1 DEF DaoStates, DaoSound
<1>3. CASE Submitted(c) \/ Voted(c)
  <2>. DEFINE n == Call("proposals", dao.sel, c.for)
  <2>1. n \in DaoCalls /\ CallsSound(dao.loading, (dao.calls \ {c}) \cup {n})
    BY <1>0, <1>f
  <2>2. \E m \in {FALSE, dao.modal} :
          dao' = [dao EXCEPT !.modal = m, !.calls = (dao.calls \ {c}) \cup {n}]
    BY <1>0, <1>3, <1>a DEF Submitted, Voted, LoadProposals, DaoStates
  <2>. HIDE DEF n
  <2>. QED
    BY <1>0, <2>1, <2>2 DEF DaoStates, DaoSound
<1>. QED
  BY <1>1, <1>2, <1>3

LEMMA DaoStep ==
  ASSUME NavInv, DaoInv, [Next]_vars
  PROVE  DaoInv'
<1>1. CASE InDao
  <2>1. UNCHANGED <<phase, tab>>
    BY <1>1, DaoStay DEF InDao, shellVars, shell
  <2>. QED
    BY <1>1, <2>1, DaoBegins, DaoAnswered DEF InDao, DaoNext
<1>2. CASE /\ UNCHANGED <<tour, phase, tab, vault>>
           /\ InPrefs \/ InTransfer \/ InWallet \/ UNCHANGED vars
  BY <1>2 DEF InPrefs, InTransfer, InWallet, vars, screens, DaoInv, At, DaoSound, CallsSound
<1>3. ASSUME NEW t \in Tabs, NEW s \in {"send", "receive"}, Show(t, s)
      PROVE  DaoInv'
  <2>1. dao' = DaoAt(t) /\ (At("dao")' <=> t = "dao")
    BY <1>3 DEF Show, At
  <2>2. t # "dao" => DaoAt(t) = None
    BY DEF DaoAt
  <2>. QED
    BY <2>1, <2>2, DaoIsSound DEF DaoInv, DaoSound, CallsSound
<1>4. CASE Boot \/ Retry \/ Wipe
  BY <1>4 DEF Boot, Retry, Wipe, At, NavInv, DaoInv
<1>5. CASE Onboard
  BY <1>5, OnboardEnds DEF DaoInv, At
<1>. QED
  BY <1>1, <1>2, <1>3, <1>4, <1>5, NavStep DEF Navigates

LEMMA DaoMeans == DaoInv => ProposesForModal
<1>. SUFFICES ASSUME DaoInv, dao # None
              PROVE  /\ dao.modal => dao.sel = dao.meant
                     /\ LET busy == {c \in dao.calls : c.for \in {"refresh", "propose"}} IN
                        (dao.loading <=> busy # {}) /\ Cardinality(busy) <= 1
  BY DEF ProposesForModal
<1>1. DaoSound(dao)
  BY DEF DaoInv
<1>. DEFINE busy == {c \in dao.calls : c.for \in {"refresh", "propose"}}
<1>2. (dao.loading <=> busy # {}) /\ \A c, e \in busy : c = e
  BY <1>1 DEF DaoSound, CallsSound, Takes
<1>3. Cardinality(busy) <= 1
  <2>1. CASE busy = {}
    BY <2>1, FS_EmptySet
  <2>2. CASE busy # {}
    <3>1. PICK c \in busy : busy = {c}
      BY <1>2, <2>2
    <3>. QED
      BY <3>1, FS_Singleton
  <2>. QED
    BY <2>1, <2>2
<1>. QED
  BY <1>1, <1>2, <1>3 DEF DaoSound
-----------------------------------------------------------------------------
(* The screens that write the preferences                                  *)

WriteRecords == [at : {"ask", "put", "start", "store"}, slider : Counts \cup {None},
                 all : AllPrefs \cup {None}, then : BOOLEAN, alone : BOOLEAN]

\* What a handler will write is preferences, and unless it was overtaken those there
\* are, but for the threads; it has a slider to look at.
WriteSound(w) ==
  /\ w \in WriteRecords
  /\ w.at \in {"put", "store"} =>
       w.all \in AllPrefs /\ (w.alone => Differ(prefs, w.all) \subseteq {"threads"})
  /\ w.at \in {"ask", "start"} => w.all = None
  /\ w.slider = None => w.at # "store" /\ At("mine")

\* A clean draft differs from the preferences where it was edited.
SettingsSound ==
  /\ At("settings") =>
       /\ settings \in Drafts
       /\ settings.clean /\ rereads = 0 => Differ(prefs, settings.draft) \subseteq settings.edited
  /\ ~At("settings") => settings = None /\ rereads = 0

MineSound ==
  /\ At("mine") => mine \in Sliders
  /\ ~At("mine") => mine = None

PrefsInv ==
  /\ prefs \in AllPrefs /\ rereads \in Nat /\ tellings \in Nat /\ miner \in Counts \cup {None}
  /\ SettingsSound /\ MineSound /\ BannerIsNetwork
  /\ \A w \in writes : WriteSound(w)
  /\ phase # "ready" => writes = {}

\* Two preferences, field by field
LEMMA DifferIn ==
  ASSUME NEW p \in AllPrefs, NEW q \in AllPrefs, NEW S
  PROVE  Differ(p, q) \subseteq S <=> /\ p.net # q.net => "net" \in S
                                      /\ p.lwd # q.lwd => "lwd" \in S
                                      /\ p.threads # q.threads => "threads" \in S
                                      /\ p.nick # q.nick => "nick" \in S
BY DEF Differ, Fields, AllPrefs

LEMMA SameDiffer == ASSUME NEW p PROVE Differ(p, p) = {}
BY DEF Differ

LEMMA OneField ==
  ASSUME NEW p \in AllPrefs
  PROVE  /\ \A n \in Nets : [p EXCEPT !.net = n] \in AllPrefs
                            /\ Differ(p, [p EXCEPT !.net = n]) \subseteq {"net"}
         /\ \A n \in Counts : [p EXCEPT !.threads = n] \in AllPrefs
                              /\ Differ(p, [p EXCEPT !.threads = n]) \subseteq {"threads"}
         /\ \A n \in Nicks : /\ [p EXCEPT !.nick = n] \in AllPrefs
                             /\ Differ(p, [p EXCEPT !.nick = n]) \subseteq {"nick"}
                             /\ [p EXCEPT !.nick = n].net = p.net
BY DEF Differ, Fields, AllPrefs

\* Handlers that are overtaken stay sound whatever the preferences become; the others
\* while they stay.
LEMMA WritesStaySound ==
  ASSUME NEW W, \A w \in W : WriteSound(w), At("mine")' = At("mine")
  PROVE  /\ \A w \in Overtaken(W) : WriteSound(w)'
         /\ prefs' = prefs => \A w \in W : WriteSound(w)'
BY DEF Overtaken, WriteSound, WriteRecords, At

\* A step that leaves the preferences alone writes nothing that was not edited.
LEMMA Quiet == prefs' = prefs => WritesOnlyEdits
BY SameDiffer DEF WritesOnlyEdits

\* The settings screen
LEMMA EditsAreDrawn ==
  ASSUME PrefsInv, UNCHANGED <<phase, tab>>, NEW f \in Fields, NEW v, EditDraft(f, v),
         \A p \in AllPrefs : [p EXCEPT ![f] = v] \in AllPrefs
  PROVE  PrefsInv'
<1>1. /\ At("settings") /\ settings \in Drafts /\ prefs \in AllPrefs
      /\ settings' = [settings EXCEPT !.draft[f] = v, !.edited = @ \cup {f}]
      /\ UNCHANGED <<prefs, writes, rereads, tellings, mine, miner, banner, misled>>
  BY DEF PrefsInv, SettingsSound, EditDraft, PageOnly
<1>2. /\ settings' \in Drafts /\ settings'.clean = settings.clean
      /\ settings'.draft = [settings.draft EXCEPT ![f] = v]
      /\ settings'.edited = settings.edited \cup {f}
  BY <1>1 DEF Drafts, AllPrefs, Fields
<1>3. /\ Differ(prefs, settings.draft) \subseteq settings.edited
          => Differ(prefs, settings'.draft) \subseteq settings'.edited
  BY <1>2 DEF Differ
<1>4. SettingsSound'
  BY <1>1, <1>2, <1>3 DEF PrefsInv, SettingsSound, At
<1>5. MineSound' /\ BannerIsNetwork' /\ \A w \in writes : WriteSound(w)'
  BY <1>1 DEF PrefsInv, MineSound, BannerIsNetwork, WriteSound, At
<1>. QED
  BY <1>1, <1>4, <1>5 DEF PrefsInv

LEMMA SaveIsDrawn ==
  ASSUME PrefsInv, UNCHANGED <<phase, tab>>, Save
  PROVE  PrefsInv' /\ WritesOnlyEdits
<1>1. /\ At("settings") /\ settings \in Drafts /\ prefs' = settings.draft /\ prefs' \in AllPrefs
      /\ UNCHANGED <<settings, mine, rereads, tellings, miner, banner>>
      /\ writes' = Overtaken(writes)
  BY DEF PrefsInv, SettingsSound, Save, Drafts
<1>2. WritesOnlyEdits
  BY <1>1 DEF PrefsInv, SettingsSound, WritesOnlyEdits
<1>3. SettingsSound' /\ MineSound'
  BY <1>1, SameDiffer DEF PrefsInv, SettingsSound, MineSound, At, Differ
<1>4. BannerIsNetwork'
  <2>1. ~misled' => ~misled /\ prefs'.net = prefs.net
    BY Zenon DEF Save
  <2>. QED
    BY <1>1, <2>1 DEF PrefsInv, BannerIsNetwork
<1>5. \A w \in Overtaken(writes) : WriteSound(w)'
  BY WritesStaySound DEF PrefsInv, At
<1>. QED
  BY <1>1, <1>2, <1>3, <1>4, <1>5 DEF PrefsInv, At

LEMMA SwitchIsSound ==
  ASSUME PrefsInv, UNCHANGED <<phase, tab>>, NEW n \in Nets, SwitchNetwork(n)
  PROVE  PrefsInv' /\ WritesOnlyEdits
<1>1. /\ At("settings") /\ prefs' = [prefs EXCEPT !.net = n, !.lwd = LwdOf[n]]
      /\ rereads' = rereads + 1 /\ rereads \in Nat /\ prefs \in AllPrefs
      /\ UNCHANGED <<settings, mine, tellings, miner, banner, misled>>
      /\ writes' = Overtaken(writes)
  BY DEF PrefsInv, SwitchNetwork
<1>2. prefs' \in AllPrefs /\ Differ(prefs, prefs') \subseteq {"net", "lwd"}
  BY <1>1, ShellAssumption DEF AllPrefs, Differ, Fields
<1>3. WritesOnlyEdits
  BY <1>1, <1>2 DEF WritesOnlyEdits
<1>4. SettingsSound' /\ MineSound' /\ BannerIsNetwork'
  BY <1>1 DEF PrefsInv, SettingsSound, MineSound, BannerIsNetwork, At
<1>5. \A w \in Overtaken(writes) : WriteSound(w)'
  BY WritesStaySound DEF PrefsInv, At
<1>. QED
  BY <1>1, <1>2, <1>3, <1>4, <1>5 DEF PrefsInv, At

LEMMA RereadIsSound ==
  ASSUME PrefsInv, UNCHANGED <<phase, tab>>, Reread \/ Told
  PROVE  PrefsInv'
<1>1. /\ UNCHANGED <<prefs, writes, mine, miner>>
      /\ rereads' \in Nat /\ tellings' \in Nat /\ prefs \in AllPrefs
  BY DEF PrefsInv, Reread, Told, PageOnly
<1>2. BannerIsNetwork'
  BY DEF PrefsInv, Reread, Told, BannerIsNetwork
<1>3. MineSound' /\ \A w \in writes : WriteSound(w)'
  BY <1>1 DEF PrefsInv, MineSound, WriteSound, At
<1>4. SettingsSound'
  <2>1. CASE Told
    BY <1>1, <2>1 DEF Told, PrefsInv, SettingsSound, At
  <2>2. CASE Reread
    <3>1. At("settings")
      BY <2>2 DEF Reread, PrefsInv, SettingsSound
    <3>2. settings' = [draft |-> prefs, edited |-> {}, clean |-> TRUE]
      BY <2>2 DEF Reread, SettingsAt
    <3>3. settings' \in Drafts
      BY <1>1, <3>2 DEF Drafts
    <3>. QED
      BY <1>1, <3>1, <3>2, <3>3, SameDiffer DEF SettingsSound, At, Differ
  <2>. QED
    BY <2>1, <2>2
<1>. QED
  BY <1>1, <1>2, <1>3, <1>4 DEF PrefsInv, At

\* The mine screen
LEMMA SliderIsSound ==
  ASSUME PrefsInv, UNCHANGED <<phase, tab>>,
         Refresh \/ MinerEnds \/ \E n \in Counts : Slide(n)
  PROVE  PrefsInv'
<1>1. /\ UNCHANGED <<prefs, settings, writes, rereads, tellings, banner, misled>>
      /\ miner' \in Counts \cup {None}
  BY DEF PrefsInv, Refresh, MinerEnds, Slide, PageOnly
<1>2. MineSound'
  <2>1. prefs.threads \in Counts /\ (miner # None => miner \in Counts)
    BY DEF PrefsInv, AllPrefs
  <2>2. Running \in Counts
    BY <2>1 DEF Running
  <2>3. CASE Refresh
    BY <2>2, <2>3 DEF PrefsInv, MineSound, Refresh, Sliders, At
  <2>4. ASSUME NEW n \in Counts, Slide(n)
        PROVE  MineSound'
    BY <2>4 DEF MineSound, Slide, Sliders, At
  <2>5. CASE MinerEnds
    BY <2>5 DEF PrefsInv, MineSound, MinerEnds, At
  <2>. QED
    BY <2>3, <2>4, <2>5
<1>3. SettingsSound' /\ BannerIsNetwork' /\ \A w \in writes : WriteSound(w)'
  BY <1>1 DEF PrefsInv, SettingsSound, BannerIsNetwork, WriteSound, At
<1>. QED
  BY <1>1, <1>2, <1>3 DEF PrefsInv, At

LEMMA AskIsSound ==
  ASSUME PrefsInv, UNCHANGED <<phase, tab>>, Debounced \/ Start
  PROVE  PrefsInv'
<1>1. /\ UNCHANGED <<prefs, settings, rereads, tellings, miner, banner, misled>>
      /\ At("mine") /\ mine \in Sliders /\ MineSound'
  BY DEF PrefsInv, Debounced, Start, PageOnly, MineSound, Sliders, At
<1>2. PICK then \in BOOLEAN : writes' = writes \cup {Write("ask", None, None, then)}
  BY DEF Debounced, Start, Ask
<1>. DEFINE n == Write("ask", None, None, then)
<1>3. WriteSound(n)'
  BY <1>1 DEF Write, WriteSound, WriteRecords, At
<1>. HIDE DEF n
<1>4. \A w \in writes : WriteSound(w)'
  BY <1>1 DEF PrefsInv, WriteSound, At
<1>5. SettingsSound' /\ BannerIsNetwork'
  BY <1>1 DEF PrefsInv, SettingsSound, BannerIsNetwork, At
<1>. QED
  BY <1>1, <1>2, <1>3, <1>4, <1>5 DEF PrefsInv, At, n

LEMMA SliderOfIsCount ==
  ASSUME PrefsInv, NEW w \in writes
  PROVE  SliderOf(w) \in Counts
BY DEF PrefsInv, WriteSound, WriteRecords, MineSound, Sliders, SliderOf

\* A handler that takes its copy now
LEMMA CopyIsSound ==
  ASSUME PrefsInv, UNCHANGED <<phase, tab>>, NEW w \in writes, Asked(w) \/ MineStart(w)
  PROVE  PrefsInv'
<1>1. UNCHANGED <<prefs, settings, mine, rereads, tellings, miner, banner, misled>>
  BY DEF Asked, MineStart, PageOnly
<1>2. SettingsSound' /\ MineSound' /\ BannerIsNetwork' /\ \A u \in writes : WriteSound(u)'
  BY <1>1 DEF PrefsInv, SettingsSound, MineSound, BannerIsNetwork, WriteSound, At
<1>. DEFINE p == [prefs EXCEPT !.threads = SliderOf(w)]
<1>3. p \in AllPrefs /\ Differ(prefs, p) \subseteq {"threads"} /\ SliderOf(w) \in Counts
  BY SliderOfIsCount, OneField DEF PrefsInv
<1>4. w \in WriteRecords /\ (w.slider = None => At("mine"))
  BY DEF PrefsInv, WriteSound
<1>5. CASE Asked(w)
  <2>1. PICK n : n = [w EXCEPT !.at = "put", !.all = p, !.alone = TRUE]
    OBVIOUS
  <2>2. writes' = (writes \ {w}) \cup {n}
    BY <1>5, <2>1 DEF Asked
  <2>3. n \in WriteRecords /\ n.at = "put" /\ n.all = p /\ n.slider = w.slider
    BY <1>3, <1>4, <2>1 DEF WriteRecords
  <2>. HIDE DEF p
  <2>4. WriteSound(n)'
    BY <1>1, <1>3, <1>4, <2>3 DEF WriteSound, At
  <2>. QED
    BY <1>1, <1>2, <2>2, <2>4 DEF PrefsInv, At
<1>6. CASE MineStart(w)
  <2>1. PICK n : n = Write("store", SliderOf(w), p, FALSE)
    OBVIOUS
  <2>2. writes' \subseteq (writes \ {w}) \cup {n}
    BY <1>6, <2>1 DEF MineStart
  <2>3. n \in WriteRecords /\ n.at = "store" /\ n.all = p /\ n.slider \in Counts
    BY <1>3, <2>1 DEF WriteRecords, Write
  <2>. HIDE DEF p
  <2>4. WriteSound(n)'
    BY <1>1, <1>3, <2>3, ShellAssumption DEF WriteSound, At
  <2>. QED
    BY <1>1, <1>2, <2>2, <2>4 DEF PrefsInv, At
<1>. QED
  BY <1>5, <1>6

\* A handler that writes, with what its write does to a draft
LEMMA WriteIsSound ==
  ASSUME PrefsInv, UNCHANGED <<phase, tab>>, NEW w \in writes, Put(w) \/ Stored(w)
  PROVE  PrefsInv' /\ WritesOnlyEdits
<1>1. UNCHANGED <<mine, rereads, tellings, banner>>
  BY DEF Put, Stored
<1>2. WriteSound(w) /\ w \in WriteRecords
  BY DEF PrefsInv, WriteSound
<1>3. PICK next :
        /\ \A u \in next : WriteSound(u)'
        /\ \/ /\ prefs' = w.all /\ writes' = Others(w) \cup next
              /\ misled' = (misled \/ prefs'.net # prefs.net) /\ settings' = Soil
              /\ w.at \in {"put", "store"}
           \/ writes' = (writes \ {w}) \cup next /\ UNCHANGED <<prefs, misled, settings>>
  <2>1. CASE Put(w)
    <3>1. PICK n : n = [w EXCEPT !.at = "start", !.all = None]
      OBVIOUS
    <3>2. n \in WriteRecords /\ n.at = "start" /\ n.slider = w.slider /\ n.all = None
      BY <1>2, <3>1 DEF WriteRecords
    <3>3. WriteSound(n)'
      BY <1>2, <3>2 DEF WriteSound, At
    <3>4. PICK next : next = IF w.then THEN {n} ELSE {}
      OBVIOUS
    <3>5. /\ w.at \in {"put", "store"}
          /\ \/ /\ prefs' = w.all /\ writes' = Others(w) \cup next
                /\ misled' = (misled \/ prefs'.net # prefs.net) /\ settings' = Soil
             \/ writes' = (writes \ {w}) \cup next /\ UNCHANGED <<prefs, misled, settings>>
      BY <2>1, <3>1, <3>4, Zenon DEF Put
    <3>6. \A u \in next : WriteSound(u)'
      BY <3>3, <3>4
    <3>. QED
      BY <3>5, <3>6
  <2>2. CASE Stored(w)
    <3>1. PICK next : next = {}
      OBVIOUS
    <3>2. \A u \in next : WriteSound(u)'
      BY <3>1
    <3>3. /\ Others(w) \cup next = Others(w)
          /\ (writes \ {w}) \cup next = writes \ {w}
      BY <3>1
    <3>4. \/ /\ prefs' = w.all /\ writes' = Others(w) \cup next
             /\ misled' = (misled \/ prefs'.net # prefs.net) /\ settings' = Soil
             /\ w.at \in {"put", "store"}
          \/ writes' = (writes \ {w}) \cup next /\ UNCHANGED <<prefs, misled, settings>>
      BY <2>2, <3>3, Zenon DEF Stored
    <3>. QED
      BY <3>2, <3>4
  <2>. QED
    BY <2>1, <2>2
<1>4. \A u \in Others(w) : WriteSound(u)'
  BY WritesStaySound DEF PrefsInv, Others, At
<1>5. prefs' = prefs => \A u \in writes : WriteSound(u)'
  BY WritesStaySound DEF PrefsInv, At
<1>6. miner' \in Counts \cup {None}
  BY <1>2 DEF Put, Stored, PrefsInv, WriteRecords
<1>7. MineSound'
  BY <1>1 DEF PrefsInv, MineSound, At
<1>8. CASE /\ prefs' = w.all /\ writes' = Others(w) \cup next
           /\ misled' = (misled \/ prefs'.net # prefs.net) /\ settings' = Soil
           /\ w.at \in {"put", "store"}
  <2>1. prefs' \in AllPrefs /\ (w.alone => Differ(prefs, prefs') \subseteq {"threads"})
    BY <1>2, <1>8 DEF WriteSound
  <2>2. WritesOnlyEdits
    BY <1>8, <2>1 DEF WritesOnlyEdits
  <2>3. SettingsSound'
    BY <1>1, <1>8, PreferencesAssumption DEF PrefsInv, SettingsSound, Soil, Drafts, At
  <2>4. BannerIsNetwork'
    <3>1. ~misled' => ~misled /\ prefs'.net = prefs.net
      BY <1>8, Zenon
    <3>. QED
      BY <1>1, <3>1 DEF PrefsInv, BannerIsNetwork
  <2>. QED
    BY <1>1, <1>3, <1>4, <1>6, <1>7, <1>8, <2>1, <2>2, <2>3, <2>4 DEF PrefsInv, At
<1>9. CASE writes' = (writes \ {w}) \cup next /\ UNCHANGED <<prefs, misled, settings>>
  BY <1>1, <1>3, <1>5, <1>6, <1>7, <1>9, Quiet
     DEF PrefsInv, SettingsSound, BannerIsNetwork, At
<1>. QED
  BY <1>3, <1>8, <1>9

LEMMA NickIsSound ==
  ASSUME PrefsInv, UNCHANGED <<phase, tab>>, NEW n \in Nicks, SetNick(n)
  PROVE  PrefsInv' /\ WritesOnlyEdits
<1>1. /\ At("chat") /\ prefs' = [prefs EXCEPT !.nick = n] /\ prefs \in AllPrefs
      /\ UNCHANGED <<settings, mine, rereads, tellings, miner, banner, misled>>
      /\ writes' = Overtaken(writes)
  BY DEF PrefsInv, SetNick
<1>2. /\ prefs' \in AllPrefs /\ Differ(prefs, prefs') \subseteq {"nick"}
      /\ prefs'.net = prefs.net
  BY <1>1, OneField
<1>3. WritesOnlyEdits
  BY <1>1, <1>2 DEF WritesOnlyEdits
<1>4. SettingsSound' /\ MineSound' /\ BannerIsNetwork'
  BY <1>1, <1>2 DEF PrefsInv, SettingsSound, MineSound, BannerIsNetwork, At
<1>5. \A w \in Overtaken(writes) : WriteSound(w)'
  BY WritesStaySound DEF PrefsInv, At
<1>. QED
  BY <1>1, <1>2, <1>3, <1>4, <1>5 DEF PrefsInv, At

LEMMA PrefsMoves ==
  ASSUME PrefsInv, PrefsNext
  PROVE  PrefsInv' /\ WritesOnlyEdits
<1>1. UNCHANGED <<phase, tab>>
  BY PrefsStay
<1>2. ASSUME NEW v \in Lwds, EditDraft("lwd", v)
      PROVE  PrefsInv' /\ WritesOnlyEdits
  <2>1. \A p \in AllPrefs : [p EXCEPT !.lwd = v] \in AllPrefs
    BY DEF AllPrefs
  <2>2. PrefsInv'
    BY <1>1, <1>2, <2>1, EditsAreDrawn DEF Fields
  <2>. QED
    BY <1>2, <2>2, Quiet DEF EditDraft, PageOnly
<1>3. CASE Reread \/ Told
  BY <1>1, <1>3, RereadIsSound, Quiet DEF Reread, Told, PageOnly
<1>4. CASE Refresh \/ MinerEnds \/ \E n \in Counts : Slide(n)
  BY <1>1, <1>4, SliderIsSound, Quiet DEF Refresh, MinerEnds, Slide, PageOnly
<1>5. CASE Debounced \/ Start
  BY <1>1, <1>5, AskIsSound, Quiet DEF Debounced, Start, PageOnly
<1>6. ASSUME NEW w \in writes, Asked(w) \/ MineStart(w)
      PROVE  PrefsInv' /\ WritesOnlyEdits
  BY <1>1, <1>6, CopyIsSound, Quiet DEF Asked, MineStart, PageOnly
<1>7. ASSUME NEW w \in writes, Put(w) \/ Stored(w)
      PROVE  PrefsInv' /\ WritesOnlyEdits
  BY <1>1, <1>7, WriteIsSound
<1>8. CASE Save
  BY <1>1, <1>8, SaveIsDrawn
<1>9. ASSUME NEW n \in Nets, SwitchNetwork(n)
      PROVE  PrefsInv' /\ WritesOnlyEdits
  BY <1>1, <1>9, SwitchIsSound
<1>10. ASSUME NEW n \in Nicks, SetNick(n)
       PROVE  PrefsInv' /\ WritesOnlyEdits
  BY <1>1, <1>10, NickIsSound
<1>11. ASSUME NEW v \in Nicks, EditDraft("nick", v)
       PROVE  PrefsInv' /\ WritesOnlyEdits
  <2>1. \A p \in AllPrefs : [p EXCEPT !.nick = v] \in AllPrefs
    BY DEF AllPrefs
  <2>2. PrefsInv'
    BY <1>1, <1>11, <2>1, EditsAreDrawn DEF Fields
  <2>. QED
    BY <1>11, <2>2, Quiet DEF EditDraft, PageOnly
<1>. QED
  BY <1>2, <1>3, <1>4, <1>5, <1>6, <1>7, <1>8, <1>9, <1>10, <1>11 DEF PrefsNext

\* The screens change: a handler keeps the slider it looked at.
LEMMA WritesAreKept ==
  ASSUME NavInv, PrefsInv, NEW t \in Tabs, NEW s \in {"send", "receive"}, Show(t, s)
  PROVE  \A w \in writes' : WriteSound(w)'
<1>1. /\ UNCHANGED prefs /\ (At("mine")' => ~At("mine"))
      /\ MineSound /\ \A w \in writes : WriteSound(w)
  BY DEF Show, PrefsInv, At
<1>2. ASSUME NEW w \in writes, w.slider # None
      PROVE  WriteSound(w)'
  BY <1>1, <1>2 DEF WriteSound
<1>3. CASE mine = None
  <2>1. ~At("mine") /\ writes' = writes
    BY <1>1, <1>3, PreferencesAssumption DEF MineSound, Show, PrefsLeave
  <2>. QED
    BY <1>1, <1>2, <2>1 DEF WriteSound
<1>4. CASE mine # None
  <2>1. mine.threads \in Counts /\ mine.threads # None
    BY <1>1, <1>4, ShellAssumption DEF MineSound, Sliders
  <2>2. ASSUME NEW w \in writes, w.at # "store", w.slider = None,
               NEW n, n = [w EXCEPT !.slider = mine.threads]
        PROVE  WriteSound(n)'
    <3>1. w \in WriteRecords
      BY <1>1 DEF WriteSound
    <3>2. /\ n \in WriteRecords /\ n.slider = mine.threads
          /\ n.at = w.at /\ n.all = w.all /\ n.alone = w.alone
      BY <2>1, <2>2, <3>1 DEF WriteRecords
    <3>. QED
      BY <1>1, <2>1, <3>2 DEF WriteSound
  <2>3. writes' = {IF w.at # "store" /\ w.slider = None THEN [w EXCEPT !.slider = mine.threads]
                   ELSE w : w \in writes}
    BY <1>4 DEF Show, PrefsLeave
  <2>4. \A w \in writes : ~(w.at # "store" /\ w.slider = None) => WriteSound(w)'
    BY <1>1, <1>2 DEF WriteSound
  <2>5. ASSUME NEW n \in writes'
        PROVE  WriteSound(n)'
    <3>1. PICK w \in writes : n = IF w.at # "store" /\ w.slider = None
                                 THEN [w EXCEPT !.slider = mine.threads] ELSE w
      BY <2>3, <2>5
    <3>. QED
      BY <2>2, <2>4, <3>1
  <2>. QED
    BY <2>5
<1>. QED
  BY <1>3, <1>4

LEMMA ShowIsSound ==
  ASSUME NavInv, PrefsInv, NEW t \in Tabs, NEW s \in {"send", "receive"}, Show(t, s)
  PROVE  PrefsInv'
<1>1. /\ UNCHANGED <<prefs, miner, banner, misled>> /\ phase' = "ready" /\ phase = "ready"
      /\ tab' = t /\ settings' = SettingsAt(t) /\ mine' = MineAt(t)
      /\ tellings' = tellings + rereads /\ rereads' = 0 /\ rereads \in Nat /\ tellings \in Nat
      /\ prefs \in AllPrefs
  BY DEF Show, PrefsInv, PrefsLeave, At
<1>2. SettingsSound'
  <2>1. SettingsAt("settings") = [draft |-> prefs, edited |-> {}, clean |-> TRUE]
    BY DEF SettingsAt
  <2>2. SettingsAt("settings") \in Drafts
    <3>1. prefs \in AllPrefs /\ {} \in SUBSET Fields
      BY <1>1
    <3>2. [draft |-> prefs, edited |-> {}, clean |-> TRUE] \in Drafts
      BY <3>1, Zenon DEF Drafts
    <3>. QED
      BY <2>1, <3>2, Zenon
  <2>3. t # "settings" => SettingsAt(t) = None
    BY DEF SettingsAt
  <2>. QED
    BY <1>1, <2>1, <2>2, <2>3, SameDiffer DEF SettingsSound, At, Differ
<1>3. MineSound'
  BY <1>1 DEF MineSound, MineAt, Sliders, At, AllPrefs
<1>4. BannerIsNetwork'
  BY <1>1 DEF PrefsInv, BannerIsNetwork
<1>5. \A w \in writes' : WriteSound(w)'
  BY WritesAreKept
<1>. QED
  BY <1>1, <1>2, <1>3, <1>4, <1>5 DEF PrefsInv

\* The page starts, opens the wallet, or wipes it.
LEMMA PageIsSound ==
  ASSUME NavInv, PrefsInv, Boot \/ Retry \/ Wipe
  PROVE  PrefsInv' /\ WritesOnlyEdits
<1>1. /\ UNCHANGED <<prefs, mine, writes, rereads, tellings>> /\ writes' = {}
      /\ miner' \in Counts \cup {None} /\ prefs \in AllPrefs
  BY DEF Boot, Retry, Wipe, PrefsInv, prefsVars
<1>2. /\ ~At("mine") /\ ~At("mine")' /\ ~At("settings")' /\ mine = None
      /\ settings' = None /\ rereads = 0
  BY DEF Boot, Retry, Wipe, PrefsInv, prefsVars, NavInv, MineSound, SettingsSound, At
<1>3. BannerIsNetwork'
  BY DEF Boot, Retry, Wipe, BannerIsNetwork
<1>. QED
  BY <1>1, <1>2, <1>3, Quiet DEF PrefsInv, SettingsSound, MineSound

LEMMA OnboardIsSound ==
  ASSUME NavInv, ObInv, PrefsInv, Onboard
  PROVE  PrefsInv' /\ WritesOnlyEdits
<1>1. /\ phase = "onboarding" /\ UNCHANGED <<settings, mine, writes, rereads, tellings, miner>>
      /\ (UNCHANGED <<phase, tab>> \/ (phase' = "ready" /\ tab' = "wallet"))
  <2>1. UNCHANGED prefsVars
    BY OnboardEnds
  <2>2. phase = "onboarding"
    BY OnboardEnds
  <2>3. \/ UNCHANGED <<phase, tab>>
        \/ phase' = "ready" /\ tab' = "wallet" /\ ob' = None
    BY OnboardEnds
  <2>4. CASE UNCHANGED <<phase, tab>>
    BY <2>1, <2>2, <2>4 DEF prefsVars
  <2>5. CASE phase' = "ready" /\ tab' = "wallet" /\ ob' = None
    BY <2>1, <2>2, <2>5 DEF prefsVars
  <2>. QED
    BY <2>3, <2>4, <2>5
<1>2. writes = {} /\ settings = None /\ mine = None /\ rereads = 0 /\ prefs \in AllPrefs
  BY <1>1 DEF PrefsInv, SettingsSound, MineSound, At
<1>3. prefs' = prefs \/ \E n \in Nets : prefs' = [prefs EXCEPT !.net = n]
  <2>1. ob \in Obs
    BY <1>1 DEF ObInv
  <2>2. ob.finishing # None => ob.finishing.net \in Nets
    BY <2>1 DEF Obs, Finishes
  <2>. QED
    BY <2>2 DEF Onboard, ObNext, ChooseNet, StartCreate, StartRestore, Back, Generated, Finish,
       Reused, Persisted, Saved, ObOnly
<1>4. /\ prefs' \in AllPrefs /\ Differ(prefs, prefs') \subseteq {"net"}
  BY <1>2, <1>3, OneField, SameDiffer
<1>5. WritesOnlyEdits
  BY <1>1, <1>4 DEF WritesOnlyEdits
<1>6. phase' = "ready" => misled' = TRUE
  BY <1>1 DEF Onboard, ObNext, ChooseNet, StartCreate, StartRestore, Back, Generated, Finish,
     Reused, Persisted, ObOnly, shell, NotFinished, WalletReady
<1>7. BannerIsNetwork'
  BY <1>6 DEF BannerIsNetwork
<1>. QED
  BY <1>1, <1>2, <1>4, <1>5, <1>7 DEF PrefsInv, SettingsSound, MineSound, At

LEMMA PrefsStep ==
  ASSUME NavInv, ObInv, PrefsInv, [Next]_vars
  PROVE  PrefsInv' /\ WritesOnlyEdits
<1>1. CASE InPrefs
  BY <1>1, PrefsMoves DEF InPrefs
<1>2. CASE /\ UNCHANGED <<tour, phase, tab, vault>>
           /\ InDao \/ InTransfer \/ InWallet \/ UNCHANGED vars
  <2>1. UNCHANGED <<phase, tab, prefs, banner, misled, settings, mine, writes, rereads, tellings,
                    miner>>
    BY <1>2, DaoStay, TransferStay, WalletStay
       DEF InDao, InTransfer, InWallet, vars, screens, shellVars, shell, prefsVars
  <2>. QED
    BY <2>1, Quiet DEF PrefsInv, SettingsSound, MineSound, BannerIsNetwork, WriteSound, At
<1>3. ASSUME NEW t \in Tabs, NEW s \in {"send", "receive"}, Show(t, s)
      PROVE  PrefsInv' /\ WritesOnlyEdits
  BY <1>3, ShowIsSound, Quiet DEF Show
<1>4. CASE Boot \/ Retry \/ Wipe
  BY <1>4, PageIsSound
<1>5. CASE Onboard
  BY <1>5, OnboardIsSound
<1>. QED
  BY <1>1, <1>2, <1>3, <1>4, <1>5, NavStep DEF Navigates
-----------------------------------------------------------------------------
(* The wallet screen                                                       *)

WalletInv ==
  /\ light \in Snaps
  /\ ~At("wallet") => wallet = None
  /\ At("wallet") => wallet \in Wallets /\ (wallet.polls # {} => wallet.timer)

LEMMA FreshWallet ==
  /\ WalletAt("wallet") \in Wallets /\ WalletAt("wallet").polls = {}
  /\ \A t : t # "wallet" => WalletAt(t) = None
BY DEF WalletAt, Wallets

\* A reload that begins, and one that ends
LEMMA ReloadIsTyped ==
  ASSUME NEW for \in {"entry", "refresh", "recover"}
  PROVE  Reload(for) \in Reloads
BY DEF Reload, Reloads

LEMMA AfterReloadIsTyped ==
  ASSUME NEW w \in Wallets, w.polls # {} => w.timer, NEW R \in SUBSET Reloads, NEW for,
         NEW v, v = AfterReload([w EXCEPT !.reloads = R], for)
  PROVE  v \in Wallets /\ (v.polls # {} => v.timer)
<1>1. PICK timer \in BOOLEAN, refreshing \in BOOLEAN :
        /\ timer = (w.timer \/ for = "entry")
        /\ refreshing = (w.refreshing /\ for # "refresh")
  <2>1. (w.timer \/ for = "entry") \in BOOLEAN /\ (w.refreshing /\ for # "refresh") \in BOOLEAN
    OBVIOUS
  <2>. QED
    BY <2>1
<1>2. v = [w EXCEPT !.reloads = R, !.timer = timer, !.refreshing = refreshing]
  BY <1>1 DEF AfterReload, Wallets
<1>3. v \in Wallets /\ v.polls = w.polls /\ v.timer = timer
  BY <1>2 DEF Wallets
<1>4. w.timer => timer
  BY <1>1, Zenon
<1>. QED
  BY <1>3, <1>4

LEMMA WalletMoves ==
  ASSUME WalletInv, UNCHANGED <<phase, tab>>, WalletNext
  PROVE  WalletInv'
<1>1. CASE Chain
  BY <1>1 DEF Chain, WalletInv, At
<1>2. CASE ~Chain
  <2>1. /\ At("wallet") /\ At("wallet")' /\ light' = light /\ light \in Snaps
        /\ wallet \in Wallets /\ (wallet.polls # {} => wallet.timer)
    BY <1>2 DEF WalletNext, Listen, Poll, Refreshed, Recover, Recovered, Reorg, PollAnswer,
       ReloadTaken, Reloaded, ReloadFails, WalletOnly, WalletInv, At
  <2>. SUFFICES wallet' \in Wallets /\ (wallet'.polls # {} => wallet'.timer)
    BY <2>1 DEF WalletInv
  <2>2. wallet.reloads \in SUBSET Reloads /\ wallet.polls \in SUBSET Snaps
    BY <2>1 DEF Wallets
  <2>3. CASE Listen
    <3>1. PICK r \in Reloads : r = Reload("entry")
      BY ReloadIsTyped
    <3>2. wallet' = [wallet EXCEPT !.listening = TRUE, !.reloads = {r}]
      BY <2>3, <3>1 DEF Listen
    <3>. QED
      BY <2>1, <3>2 DEF Wallets
  <2>4. CASE Poll
    <3>1. wallet.timer /\ wallet' = [wallet EXCEPT !.polls = wallet.polls \cup {light}]
      BY <2>4 DEF Poll
    <3>. QED
      BY <2>1, <2>2, <3>1 DEF Wallets
  <2>5. CASE Refreshed
    <3>1. PICK r \in Reloads : r = Reload("refresh")
      BY ReloadIsTyped
    <3>2. wallet' = [wallet EXCEPT !.refreshing = TRUE, !.reloads = wallet.reloads \cup {r}]
      BY <2>5, <3>1 DEF Refreshed
    <3>. QED
      BY <2>1, <2>2, <3>2 DEF Wallets
  <2>6. CASE Recover
    <3>1. wallet' = [wallet EXCEPT !.recovering = wallet.reorg]
      BY <2>6 DEF Recover
    <3>. QED
      BY <2>1, <3>1 DEF Wallets
  <2>7. CASE Recovered
    <3>1. PICK r \in Reloads : r = Reload("recover")
      BY ReloadIsTyped
    <3>2. \/ wallet' = [wallet EXCEPT !.recovering = None]
          \/ wallet' = [wallet EXCEPT !.recovering = None, !.reloads = wallet.reloads \cup {r}]
      BY <2>7, <3>1 DEF Recovered
    <3>. QED
      BY <2>1, <2>2, <3>2 DEF Wallets
  <2>8. ASSUME NEW h \in Heights, Reorg(h)
        PROVE  wallet' \in Wallets /\ (wallet'.polls # {} => wallet'.timer)
    BY <2>1, <2>8 DEF Reorg, Wallets
  <2>9. ASSUME NEW s \in Snaps, PollAnswer(s)
        PROVE  wallet' \in Wallets /\ (wallet'.polls # {} => wallet'.timer)
    <3>1. s \in wallet.polls /\ wallet' = [wallet EXCEPT !.polls = wallet.polls \ {s}, !.snap = s]
      BY <2>1, <2>9 DEF PollAnswer, Apply, Wallets
    <3>. QED
      BY <2>1, <2>2, <3>1 DEF Wallets
  <2>10. ASSUME NEW r \in wallet.reloads, ReloadTaken(r)
         PROVE  wallet' \in Wallets /\ (wallet'.polls # {} => wallet'.timer)
    <3>1. PICK q : q = [r EXCEPT !.snap = light]
      OBVIOUS
    <3>2. q \in Reloads
      BY <2>1, <2>2, <3>1 DEF Reloads
    <3>3. wallet' = [wallet EXCEPT !.reloads = (wallet.reloads \ {r}) \cup {q}]
      BY <2>10, <3>1 DEF ReloadTaken
    <3>. QED
      BY <2>1, <2>2, <3>2, <3>3 DEF Wallets
  <2>11. ASSUME NEW r \in wallet.reloads, Reloaded(r) \/ ReloadFails(r)
         PROVE  wallet' \in Wallets /\ (wallet'.polls # {} => wallet'.timer)
    <3>1. PICK R \in SUBSET Reloads : R = wallet.reloads \ {r}
      BY <2>2
    <3>2. PICK v : v = AfterReload([wallet EXCEPT !.reloads = R], r.for)
      OBVIOUS
    <3>3. v \in Wallets /\ (v.polls # {} => v.timer)
      BY <2>1, <3>2, AfterReloadIsTyped
    <3>4. \/ wallet' = v
          \/ wallet' = [v EXCEPT !.snap = r.snap]
      BY <2>11, <3>1, <3>2 DEF Reloaded, ReloadFails, Apply
    <3>5. r.snap \in Snaps \cup {None}
      BY <2>2 DEF Reloads
    <3>. QED
      BY <3>3, <3>4, <3>5 DEF Wallets
  <2>. QED
    BY <1>2, <2>3, <2>4, <2>5, <2>6, <2>7, <2>8, <2>9, <2>10, <2>11 DEF WalletNext
<1>. QED
  BY <1>1, <1>2

LEMMA WalletStep ==
  ASSUME NavInv, WalletInv, [Next]_vars
  PROVE  WalletInv'
<1>1. CASE InWallet
  <2>1. UNCHANGED <<phase, tab>>
    BY <1>1, WalletStay DEF InWallet, shellVars, shell
  <2>. QED
    BY <1>1, <2>1, WalletMoves DEF InWallet
<1>2. CASE /\ UNCHANGED <<tour, phase, tab, vault>>
           /\ InPrefs \/ InDao \/ InTransfer \/ UNCHANGED vars
  BY <1>2 DEF InPrefs, InDao, InTransfer, vars, screens, WalletInv, At
<1>3. ASSUME NEW t \in Tabs, NEW s \in {"send", "receive"}, Show(t, s)
      PROVE  WalletInv'
  BY <1>3, FreshWallet DEF Show, WalletInv, At
<1>4. CASE Boot \/ Retry
  BY <1>4, FreshWallet DEF Boot, Retry, WalletInv, At, NavInv
<1>5. CASE Wipe
  BY <1>5 DEF Wipe, WalletInv, At
<1>6. CASE Onboard
  <2>1. wallet' = IF phase' = "ready" THEN WalletAt("wallet") ELSE wallet
    BY <1>6 DEF Onboard
  <2>2. phase = "onboarding" /\ light' = light
        /\ (phase' = phase \/ (phase' = "ready" /\ tab' = "wallet"))
    BY <1>6, OnboardEnds
  <2>. QED
    BY <2>1, <2>2, FreshWallet DEF WalletInv, At
<1>. QED
  BY <1>1, <1>2, <1>3, <1>4, <1>5, <1>6, NavStep DEF Navigates
-----------------------------------------------------------------------------
(* What stands around the screens                                          *)

FrameInv ==
  /\ banner \in Nets /\ misled \in BOOLEAN /\ moves \in 0..Moves
  /\ vault \in Seeds \cup Phrases \cup {None}

\* The handlers of the settings screen and of the others that write the preferences
LEMMA FrameInPrefs ==
  ASSUME FrameInv, PrefsNext
  PROVE  /\ banner' \in {banner, prefs.net} /\ misled' \in BOOLEAN /\ vault' = vault
         /\ UNCHANGED moves \/ Counted
<1>1. vault' = vault
  BY PrefsStay
<1>2. banner' \in {banner, prefs.net}
  BY DEF PrefsNext, EditDraft, SetNick, Save, Reread, Told, SwitchNetwork, Slide, Debounced,
     Start, Refresh, MinerEnds, Asked, Put, MineStart, Stored, PageOnly
<1>3. misled' \in BOOLEAN
  <2>1. \/ UNCHANGED misled \/ misled' = FALSE
        \/ misled' = (misled \/ prefs'.net # prefs.net)
    BY Zenon DEF PrefsNext, EditDraft, SetNick, Save, Reread, Told, SwitchNetwork, Slide,
       Debounced, Start, Refresh, MinerEnds, Asked, Put, MineStart, Stored, PageOnly
  <2>2. (misled \/ prefs'.net # prefs.net) \in BOOLEAN
    OBVIOUS
  <2>. QED
    BY <2>1, <2>2 DEF FrameInv
<1>4. UNCHANGED moves \/ Counted
  BY DEF PrefsNext, EditDraft, SetNick, Save, Reread, Told, SwitchNetwork, Slide, Debounced,
     Start, Refresh, MinerEnds, Asked, Put, MineStart, Stored
<1>. QED
  BY <1>1, <1>2, <1>3, <1>4

\* A vault that onboarding makes holds the words of the call.
LEMMA FrameInOnboard ==
  ASSUME NavInv, ObInv, FrameInv, Onboard
  PROVE  FrameInv'
<1>1. UNCHANGED <<banner, moves>> /\ (misled' = misled \/ misled' = TRUE)
  BY DEF Onboard, ObNext, ChooseNet, StartCreate, StartRestore, Back, Generated, Finish,
     Reused, Persisted, ObOnly, NotFinished, WalletReady
<1>2. vault' = vault \/ (ob.finishing # None /\ vault' = ob.finishing.words)
  BY DEF Onboard, ObNext, ChooseNet, StartCreate, StartRestore, Back, Generated, Finish,
     Reused, Persisted, ObOnly
<1>3. ob \in Obs
  BY OnboardEnds DEF ObInv
<1>4. ob.finishing # None => ob.finishing.words \in Seeds \cup Phrases
  BY <1>3 DEF Obs, Finishes
<1>. QED
  BY <1>1, <1>2, <1>4 DEF FrameInv

LEMMA FrameStep ==
  ASSUME NavInv, ObInv, PrefsInv, FrameInv, [Next]_vars
  PROVE  FrameInv'
<1>0. prefs.net \in Nets
  BY DEF PrefsInv, AllPrefs
<1>1. ASSUME Counted PROVE moves' \in 0..Moves
  BY <1>1, ShellAssumption DEF Counted, FrameInv
<1>2. CASE InPrefs
  BY <1>0, <1>1, <1>2, FrameInPrefs DEF InPrefs, FrameInv
<1>3. CASE InDao \/ InTransfer \/ InWallet \/ UNCHANGED vars
  BY <1>3, DaoStay, TransferStay, WalletStay DEF InDao, InTransfer, InWallet, vars, shellVars, FrameInv
<1>4. CASE \E t \in Tabs, s \in {"send", "receive"} : Show(t, s)
  BY <1>4 DEF Show, FrameInv
<1>5. CASE Boot \/ Retry
  BY <1>0, <1>5 DEF Boot, Retry, FrameInv
<1>6. CASE Wipe
  BY <1>1, <1>6, OnboardingAssumption DEF Wipe, FrameInv
<1>7. CASE Onboard
  BY <1>7, FrameInOnboard
<1>. QED
  BY <1>2, <1>3, <1>4, <1>5, <1>6, <1>7, NavStep DEF Navigates
-----------------------------------------------------------------------------
(* The page                                                                *)

DeskInv == NavInv /\ ObInv /\ PrefsInv /\ DaoInv /\ TransferInv /\ WalletInv /\ FrameInv

LEMMA DeskInit == Init => DeskInv
<1>. SUFFICES ASSUME Init
              PROVE  DeskInv
  OBVIOUS
<1>1. NavInv /\ DaoInv /\ TransferInv /\ WalletInv
  BY DEF Init, NavInv, DaoInv, TransferInv, WalletInv, At
<1>3. ObInv
  BY DEF Init, ObInv
<1>4. FrameInv
  <2>1. moves = 0 /\ 0 \in 0..Moves
    BY ShellAssumption DEF Init
  <2>2. vault \in Seeds \cup Phrases \cup {None} /\ banner \in Nets /\ misled = FALSE
    BY OnboardingAssumption DEF Init
  <2>. QED
    BY <2>1, <2>2 DEF FrameInv
<1>2. PrefsInv
  BY DefaultAssumption DEF Init, PrefsInv, SettingsSound, MineSound, BannerIsNetwork, At
<1>. QED
  BY <1>1, <1>2, <1>3, <1>4 DEF DeskInv

LEMMA DeskStep == DeskInv /\ [Next]_vars => DeskInv' /\ [WritesOnlyEdits]_vars
<1>. SUFFICES ASSUME DeskInv, [Next]_vars
              PROVE  DeskInv' /\ WritesOnlyEdits
  OBVIOUS
<1>. QED
  BY NavStep, ObStep, PrefsStep, DaoStep, TransferStep, WalletStep, FrameStep DEF DeskInv

\* The page's inductive invariant: which screen is there, and on each what its handlers
\* may rely on after their awaits.
THEOREM DeskInvariant == Spec => []DeskInv
<1>. QED
  BY DeskInit, DeskStep, PTL DEF Spec

LEMMA PrefsAreTyped == NavInv /\ PrefsInv => PrefsTypeOK
<1>. SUFFICES ASSUME NavInv, PrefsInv
              PROVE  PrefsTypeOK
  OBVIOUS
<1>1. /\ (settings = None) = ~At("settings") /\ (mine = None) = ~At("mine")
      /\ settings \in Drafts \cup {None} /\ mine \in Sliders \cup {None}
      /\ (rereads > 0 => At("settings"))
  BY PreferencesAssumption DEF PrefsInv, SettingsSound, MineSound
<1>2. ASSUME NEW w \in writes
      PROVE  /\ w = [Write(w.at, w.slider, w.all, w.then) EXCEPT !.alone = w.alone]
             /\ {w.then, w.alone} \subseteq BOOLEAN
             /\ w.at \in {"ask", "put", "start", "store"}
             /\ w.slider \in Counts \cup {None} /\ w.all \in AllPrefs \cup {None}
             /\ (w.all = None) = (w.at \in {"ask", "start"})
             /\ (w.slider = None => mine # None)
  <2>1. WriteSound(w) /\ w \in WriteRecords
    BY DEF PrefsInv, WriteSound
  <2>2. w = [Write(w.at, w.slider, w.all, w.then) EXCEPT !.alone = w.alone]
    BY <2>1 DEF WriteRecords, Write
  <2>3. (w.all = None) = (w.at \in {"ask", "start"})
    BY <2>1, DefaultAssumption DEF WriteSound, WriteRecords
  <2>4. w.slider = None => mine # None
    BY <1>1, <2>1 DEF WriteSound
  <2>. QED
    BY <2>1, <2>2, <2>3, <2>4 DEF WriteRecords
<1>. QED
  BY <1>1, <1>2 DEF PrefsInv, PrefsTypeOK

\* main-app.ts and its screens: a screen has its state exactly while its tab is shown,
\* whatever handlers outlive it, and every variable its type.
THEOREM DeskTypeCorrect == Spec => []DeskTypeOK
<1>1. DeskInv => DeskTypeOK
  <2>. SUFFICES ASSUME DeskInv
                PROVE  DeskTypeOK
    OBVIOUS
  <2>1. ObTypeOK
    BY OnboardingAssumption DEF DeskInv, NavInv, ObInv, ObTypeOK
  <2>2. PrefsTypeOK
    BY PrefsAreTyped DEF DeskInv
  <2>3. DaoTypeOK
    BY DaoAssumption DEF DeskInv, DaoInv, DaoTypeOK
  <2>4. TransferTypeOK
    BY ReceiveAssumption DEF DeskInv, TransferInv, TransferTypeOK
  <2>5. WalletTypeOK
    BY WalletAssumption DEF DeskInv, WalletInv, WalletTypeOK
  <2>. QED
    BY <2>1, <2>2, <2>3, <2>4, <2>5 DEF DeskInv, NavInv, FrameInv, PrefsInv, DeskTypeOK
<1>. QED
  BY <1>1, DeskInvariant, PTL

\* connectedCallback and newAddr of receive-flow.ts: once every request is over, with
\* whatever errors of the host and of the encoder, the code that is scanned pays the address
\* that is read or an error is shown.  The last address put into the queue is the one
\* that is shown, so that only its own encoding can leave another code there.
THEOREM CodePaysAddress == Spec => []QrMatchesAddress
<1>1. DeskInv => QrMatchesAddress
  BY DEF DeskInv, TransferInv, QrMatchesAddress, QrFollows
<1>. QED
  BY <1>1, DeskInvariant, PTL

\* onboarding-flow.ts: Finish sends the words on the screen, nothing changes them during
\* its await, and a vault holds words that the user has seen or typed.
THEOREM WordsShownAreSealed == Spec => []SeedShownIsMade
<1>1. DeskInv => SeedShownIsMade
  <2>. SUFFICES ASSUME NavInv, ObInv
                PROVE  SeedShownIsMade
    BY DEF DeskInv
  <2>1. ob # None => ob \in Obs /\ ObSound(ob, known)
    BY DEF NavInv, ObInv
  <2>. QED
    BY <2>1 DEF SeedShownIsMade, ObSound, ObInv
<1>. QED
  BY <1>1, DeskInvariant, PTL

\* dao-screen.ts: the proposal goes to the DAO whose button opened the modal, with
\* answers of the other handlers coming in meanwhile, and the loading flag has exactly
\* one handler to clear it.
THEOREM ProposalGoesToItsDao == Spec => []ProposesForModal
<1>. QED
  BY DaoMeans, DeskInvariant, PTL DEF DeskInv

\* main-app.ts: the banner names the network the host has, whatever handlers of the
\* settings screen outlive it.
THEOREM BannerTellsNetwork == Spec => []BannerIsNetwork
<1>. QED
  BY DeskInvariant, PTL DEF DeskInv, PrefsInv

\* settings-screen.ts, mine-screen.ts and set_prefs, which takes the preferences as a
\* whole: a write whose copy nobody has overtaken changes what the user edited.
THEOREM EditsAlone == Spec => WritesHold
<1>. QED
  BY DeskInvariant, DeskStep, PTL DEF Spec, WritesHold
=============================================================================
