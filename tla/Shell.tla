-------------------------------- MODULE Shell --------------------------------
(***************************************************************************)
(* What the screens of the page share (main-app.ts): the phase, the tab    *)
(* whose screen is mounted, the banner above it, and the host's            *)
(* preferences, which every screen reads and some write back as a whole.   *)
(* A screen is a Lit element that is made when its tab is chosen and       *)
(* dropped when another is: the variable of a screen is None while it is   *)
(* not there.  Calls to the host that it made go on without it.            *)
(***************************************************************************)
EXTENDS Payment, FiniteSets

CONSTANTS
  Nets, Lwds, LwdOf,  \* networks, lightwallet endpoints with their pin, the default ones
  Counts, Nicks,      \* mining threads, chat nicks
  Default,            \* the preferences of a fresh installation
  Moves,              \* clicks that are counted: a bound
  Tours               \* sets of tabs, one of which a user visits: a bound

ASSUME ShellAssumption ==
  /\ LwdOf \in [Nets -> Lwds] /\ Moves \in Nat
  /\ None \notin Nets \cup Lwds \cup Counts \cup Nicks

AllPrefs == [net : Nets, lwd : Lwds, threads : Counts, nick : Nicks]
ASSUME DefaultAssumption == Default \in AllPrefs /\ None \notin AllPrefs

VARIABLES
  tour,     \* the tabs this user visits, besides the first one
  phase,    \* "loading", "onboarding", "unlock-error" or "ready"
  tab,      \* activeTab
  aim,      \* transferTab
  banner,   \* the network that the banner names
  misled,   \* nobody told the banner (of no variable of the code)
  vault,    \* the words in the host's vault
  prefs,    \* AppState.prefs, and prefs.json with it
  moves

shell == <<tour, phase, tab, aim>>
shellVars == <<shell, banner, misled, vault, prefs, moves>>

Tabs == {"wallet", "transfer", "chat", "dao", "mine", "settings"}
Fields == {"net", "lwd", "threads", "nick"}

At(t) == phase = "ready" /\ tab = t
Counted == moves < Moves /\ moves' = moves + 1

\* The fields in which two preferences differ
Differ(p, q) == {f \in Fields : p[f] # q[f]}
=============================================================================
