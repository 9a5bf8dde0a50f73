----------------------------- MODULE Preferences -----------------------------
(***************************************************************************)
(* The screens that write the preferences: settings-screen.ts,             *)
(* mine-screen.ts and, of the chat screen, the nick; and the host commands *)
(* set_prefs, set_network, mine_start, mine_stop, mine_status and          *)
(* set_chat_nick.                                                          *)
(*                                                                         *)
(* Commands without "async" run one at a time on the host's main thread    *)
(* and are one step.  A read (get_prefs, mine_status) is answered at once. *)
(* What reads the preferences first and writes them all back later is two  *)
(* steps: the page's persistThreads, the host's mine_start, and Save, with *)
(* all the time the settings screen is open between them.                  *)
(***************************************************************************)
EXTENDS Shell

CONSTANT MaxWrites   \* handlers that will write, at a time: a bound

Drafts == [draft : AllPrefs, edited : SUBSET Fields, clean : BOOLEAN]
Sliders == [threads : Counts, due : BOOLEAN]
ASSUME PreferencesAssumption == MaxWrites \in Nat /\ None \notin Drafts \cup Sliders

VARIABLES
  settings,  \* the draft, the fields edited in it, and whether it is clean: no handler
             \* of another screen has written since it was read
  mine,      \* the slider, and whether its debounce timer runs
  writes,    \* the handlers under way that will write the preferences
  rereads,   \* calls of switchNetwork that will read the draft anew
  tellings,  \* main-app's handlers of prefs-changed that will read the network
  miner      \* the threads of the xmrig that runs

prefsVars == <<settings, mine, writes, rereads, tellings, miner>>

\* A handler: where it is ("ask" the page for the preferences, "put" them, "start" the
\* miner, "store" the host's copy), the slider of a screen that is gone, what it will
\* write, whether Start comes next, and whether it is alone: nobody has written the
\* preferences since it took its copy.
Write(at, slider, all, then) ==
  [at |-> at, slider |-> slider, all |-> all, then |-> then, alone |-> TRUE]

Overtaken(W) == {[w EXCEPT !.alone = FALSE] : w \in W}

\* What mine_status reports
Running == IF miner # None THEN miner ELSE prefs.threads

SettingsAt(t) ==
  IF t = "settings" THEN [draft |-> prefs, edited |-> {}, clean |-> TRUE] ELSE None
MineAt(t) == IF t = "mine" THEN [threads |-> prefs.threads, due |-> FALSE] ELSE None

\* A mutant of PrefsLeave: a handler of a screen that is gone still looks at its slider.
PrefsLeaveBare ==
  /\ UNCHANGED writes
  /\ tellings' = tellings + rereads /\ rereads' = 0

\* A screen that is left keeps its slider for the handlers it has under way; the
\* network that settings has set is told to the banner nevertheless.
PrefsLeave ==
  /\ writes' = IF mine = None THEN writes
               ELSE {IF w.at # "store" /\ w.slider = None THEN [w EXCEPT !.slider = mine.threads]
                     ELSE w : w \in writes}
  /\ tellings' = tellings + rereads /\ rereads' = 0

PageOnly == UNCHANGED <<shell, banner, misled, vault, prefs>>

-----------------------------------------------------------------------------
\* The inputs of the settings screen; the select of the network is not one of them.
EditDraft(f, v) ==
  /\ At("settings") /\ Counted /\ settings.draft[f] # v
  /\ settings' = [settings EXCEPT !.draft[f] = v, !.edited = @ \cup {f}]
  /\ UNCHANGED <<mine, writes, rereads, tellings, miner>> /\ PageOnly

\* save: the whole draft.  Meanwhile the screen stays as it is.
Save ==
  /\ At("settings") /\ prefs' = settings.draft
  /\ writes' = Overtaken(writes)
  /\ misled' = (misled \/ prefs'.net # prefs.net)
  /\ UNCHANGED <<settings, mine, rereads, tellings, miner, shell, banner, vault, moves>>

\* switchNetwork up to its first await, with set_network
SwitchNetwork(n) ==
  /\ At("settings") /\ Counted /\ rereads < MaxWrites
  /\ prefs' = [prefs EXCEPT !.net = n, !.lwd = LwdOf[n]]
  /\ rereads' = rereads + 1 /\ writes' = Overtaken(writes)
  /\ UNCHANGED <<settings, mine, tellings, miner, shell, banner, misled, vault>>

\* A mutant of Reread: the draft is kept.
RereadKeeps ==
  /\ rereads > 0 /\ rereads' = rereads - 1 /\ tellings' = tellings + 1
  /\ UNCHANGED <<settings, mine, writes, miner, moves>> /\ PageOnly

\* The new preferences replace the draft, edits and all; main-app is told.
Reread ==
  /\ rereads > 0 /\ rereads' = rereads - 1 /\ tellings' = tellings + 1
  /\ settings' = SettingsAt("settings")
  /\ UNCHANGED <<mine, writes, miner, moves>> /\ PageOnly

\* A mutant of Told: the banner takes what main-app had at hand.
ToldOld ==
  /\ tellings > 0 /\ tellings' = tellings - 1
  /\ misled' = FALSE
  /\ UNCHANGED <<settings, mine, writes, rereads, miner, shell, banner, vault, prefs, moves>>

\* prefs-changed reaches main-app even from an element that is gone.
Told ==
  /\ tellings > 0 /\ tellings' = tellings - 1
  /\ banner' = prefs.net /\ misled' = FALSE
  /\ UNCHANGED <<settings, mine, writes, rereads, miner, shell, vault, prefs, moves>>

-----------------------------------------------------------------------------
\* onThreadsInput
Slide(n) ==
  /\ At("mine") /\ Counted
  /\ mine' = [threads |-> n, due |-> TRUE]
  /\ UNCHANGED <<settings, writes, rereads, tellings, miner>> /\ PageOnly

\* persistThreads begins, after the debounce or for Start.
Ask(then) ==
  /\ Cardinality(writes) < MaxWrites
  /\ writes' = writes \cup {Write("ask", None, None, then)}

Debounced ==
  /\ At("mine") /\ mine.due /\ Ask(FALSE)
  /\ mine' = [mine EXCEPT !.due = FALSE]
  /\ UNCHANGED <<settings, rereads, tellings, miner, moves>> /\ PageOnly

Start ==
  /\ At("mine") /\ Counted /\ Ask(TRUE)
  /\ UNCHANGED <<settings, mine, rereads, tellings, miner>> /\ PageOnly

SliderOf(w) == IF w.slider = None THEN mine.threads ELSE w.slider

\* get_prefs answers persistThreads, which puts in the slider as it is now.
Asked(w) ==
  /\ w \in writes /\ w.at = "ask"
  /\ writes' = (writes \ {w}) \cup
       {[w EXCEPT !.at = "put", !.all = [prefs EXCEPT !.threads = SliderOf(w)],
                  !.alone = TRUE]}
  /\ UNCHANGED <<settings, mine, rereads, tellings, miner, moves>> /\ PageOnly

\* What a write does to a draft and to the other handlers
Soil == IF settings = None THEN None ELSE [settings EXCEPT !.clean = FALSE]
Others(w) == Overtaken(writes \ {w})

\* set_prefs gets it, or refuses it, which persistThreads ignores.  For Start, mine_start
\* is called next.
Put(w) ==
  /\ w \in writes /\ w.at = "put"
  /\ LET next == IF w.then THEN {[w EXCEPT !.at = "start", !.all = None]} ELSE {} IN
     \/ /\ prefs' = w.all /\ writes' = Others(w) \cup next
        /\ misled' = (misled \/ prefs'.net # prefs.net) /\ settings' = Soil
     \/ writes' = (writes \ {w}) \cup next /\ UNCHANGED <<prefs, misled, settings>>
  /\ UNCHANGED <<mine, rereads, tellings, miner, shell, banner, vault, moves>>

\* mine_start takes its copy, unless a miner runs.
MineStart(w) ==
  /\ w \in writes /\ w.at = "start"
  /\ writes' = (writes \ {w}) \cup
       (IF miner # None THEN {}
        ELSE {Write("store", SliderOf(w), [prefs EXCEPT !.threads = SliderOf(w)], FALSE)})
  /\ UNCHANGED <<settings, mine, rereads, tellings, miner, moves>> /\ PageOnly

\* It stores the copy, which can fail, as can what comes after.
Stored(w) ==
  /\ w \in writes /\ w.at = "store"
  /\ \/ /\ prefs' = w.all /\ writes' = Others(w) /\ miner' \in {miner, w.slider}
        /\ misled' = (misled \/ prefs'.net # prefs.net) /\ settings' = Soil
     \/ writes' = writes \ {w} /\ UNCHANGED <<prefs, miner, misled, settings>>
  /\ UNCHANGED <<mine, rereads, tellings, shell, banner, vault, moves>>

\* A mutant of Refresh: the first number stays.
RefreshOnce ==
  /\ At("mine") /\ UNCHANGED mine
  /\ UNCHANGED <<settings, writes, rereads, tellings, miner, moves>> /\ PageOnly

\* refresh, every five seconds: over whatever the slider shows
Refresh ==
  /\ At("mine") /\ mine' = [mine EXCEPT !.threads = Running]
  /\ UNCHANGED <<settings, writes, rereads, tellings, miner, moves>> /\ PageOnly

\* Stop, or xmrig ends on its own.
MinerEnds ==
  /\ miner # None /\ miner' = None
  /\ UNCHANGED <<settings, mine, writes, rereads, tellings, moves>> /\ PageOnly

\* /nick on the chat screen, with set_chat_nick
SetNick(n) ==
  /\ At("chat") /\ Counted
  /\ prefs' = [prefs EXCEPT !.nick = n] /\ writes' = Overtaken(writes)
  /\ UNCHANGED <<settings, mine, rereads, tellings, miner, shell, banner, misled, vault>>

PrefsNext ==
  \/ \E l \in Lwds : EditDraft("lwd", l)
  \/ \E n \in Nicks : EditDraft("nick", n) \/ SetNick(n)
  \/ Save \/ Reread \/ Told
  \/ \E n \in Nets : SwitchNetwork(n)
  \/ \E n \in Counts : Slide(n)
  \/ Debounced \/ Start \/ Refresh \/ MinerEnds
  \/ \E w \in writes : Asked(w) \/ Put(w) \/ MineStart(w) \/ Stored(w)

PrefsTypeOK ==
  /\ (settings = None) = ~At("settings") /\ (mine = None) = ~At("mine")
  /\ settings \in Drafts \cup {None} /\ mine \in Sliders \cup {None}
  /\ \A w \in writes : /\ w = [Write(w.at, w.slider, w.all, w.then) EXCEPT !.alone = w.alone]
                       /\ {w.then, w.alone} \subseteq BOOLEAN
                       /\ w.at \in {"ask", "put", "start", "store"}
                       /\ w.slider \in Counts \cup {None} /\ w.all \in AllPrefs \cup {None}
                       /\ (w.all = None) = (w.at \in {"ask", "start"})
                       /\ (w.slider = None => mine # None)
  /\ {rereads, tellings} \subseteq Nat /\ miner \in Counts \cup {None}
  /\ rereads > 0 => At("settings")

-----------------------------------------------------------------------------
\* The preferences change only where the user changed them: a Save writes back the
\* edited fields and nothing that became stale while the settings screen was open, a
\* slider or a start of the miner its threads, a choice of network the network and its
\* endpoint.  Exempt is a write of a copy that another write has overtaken, which does
\* lose the other's change.
WritesOnlyEdits ==
  LET changed == Differ(prefs, prefs') IN
  \/ changed = {}
  \/ changed \subseteq {"net", "lwd"} /\ rereads' > rereads
  \/ changed \subseteq {"nick"} /\ At("chat")
  \/ \E w \in writes : /\ w.at \in {"put", "store"} /\ prefs' = w.all
                      /\ w.alone => changed \subseteq {"threads"}
  \/ At("settings") /\ prefs' = settings.draft
       /\ (settings.clean /\ rereads = 0 => changed \subseteq settings.edited)
  \/ phase = "onboarding" /\ changed \subseteq {"net"}

\* Whoever stays on the mine screen ends up with the slider at what the host has: the
\* threads of the miner that runs or those in the preferences, although a poll can
\* put the slider back before its debounce has saved it.
SliderSettles ==
  <>[]At("mine") => <>[](mine # None /\ mine.threads = Running)

\* The banner names the network of the host's preferences, except until the answers
\* of a change are there, after onboarding, which tells it nothing, and after a write
\* of stale preferences that took the network back.
BannerIsNetwork ==
  phase = "ready" /\ rereads = 0 /\ tellings = 0 /\ ~misled => banner = prefs.net
=============================================================================
