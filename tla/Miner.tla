-------------------------------- MODULE Miner --------------------------------
(***************************************************************************)
(* The bundled xmrig: AppState.miner, mine_start, mine_stop, mine_status   *)
(* (commands.rs), the commands that stop it on the way (wallets_switch,    *)
(* wallets_create, wipe_wallet), those that close the wallet and do not    *)
(* (set_network, set_lwd_url, set_prefs), and the exit handler of lib.rs.  *)
(*                                                                         *)
(* mine_start is asynchronous: it checks AppState.miner, awaits the        *)
(* wallet's address, and only then spawns and registers the child; other   *)
(* commands run in the await.  The child, an external program, reads the   *)
(* one xmrig.json when it gets to it and may end at any time.              *)
(***************************************************************************)
EXTENDS Naturals, FiniteSets

CONSTANTS
  Profiles, Nets,
  Children,     \* process ids; one is used again when its process is gone
  Starts,       \* mine_start commands that can be in flight
  None, Dead, Unread

Wallets == Profiles \X Nets   \* a wallet, its address, and its line in xmrig.json
Handles == [child : Children, address : Wallets]

ASSUME MinerAssumption ==
  /\ {None, Dead, Unread} \cap Wallets = {} /\ Dead # Unread
  /\ None \notin Handles

VARIABLES
  active,   \* the profile and the network in use
  wallet,   \* AppState.wallet
  miner,    \* AppState.miner: the child and the address mine_status shows
  paying,   \* paying[c]: whom process c mines for; Unread before it read its config
  config,   \* xmrig.json
  starts,   \* the mine_start commands in their await, with the address to come
  running   \* whether the app runs

vars == <<active, wallet, miner, paying, config, starts, running>>

TypeOK ==
  /\ active \in Wallets
  /\ wallet \in Wallets \cup {None}
  /\ miner \in Handles \cup {None}
  /\ paying \in [Children -> Wallets \cup {Dead, Unread}]
  /\ config \in Wallets \cup {None}
  /\ starts \in [Starts -> Wallets \cup {None}]
  /\ running \in BOOLEAN

Init ==
  /\ active \in Wallets
  /\ wallet = None /\ miner = None /\ config = None
  /\ paying = [c \in Children |-> Dead]
  /\ starts = [s \in Starts |-> None]
  /\ running = TRUE

Live == {c \in Children : paying[c] # Dead}

-----------------------------------------------------------------------------
\* take(), kill() and wait() on the registered child.
Kill ==
  /\ miner' = None
  /\ paying' = IF miner = None THEN paying ELSE [paying EXCEPT ![miner.child] = Dead]

\* open_wallet, or the end of a create
OpenWallet ==
  /\ running /\ wallet = None
  /\ wallet' = active
  /\ UNCHANGED <<active, miner, paying, config, starts, running>>

\* A mutant of MineStart: the registered child is dropped, running or not.
MineStartUnchecked(s) ==
  /\ running /\ starts[s] = None
  /\ miner' = None
  /\ starts' = [starts EXCEPT ![s] = IF wallet = None THEN None ELSE wallet]
  /\ UNCHANGED <<active, wallet, paying, config, running>>

\* mine_start up to its await: a child that still runs is refused, one that has
\* ended is forgotten, and the open wallet is taken along.
MineStart(s) ==
  /\ running /\ starts[s] = None
  /\ miner # None => miner.child \notin Live
  /\ miner' = None
  /\ starts' = [starts EXCEPT ![s] = wallet]
  /\ UNCHANGED <<active, wallet, paying, config, running>>

\* A mutant of Spawn: the child is started with a file that nothing has written.
SpawnWithoutConfig(s) ==
  /\ starts[s] # None
  /\ starts' = [starts EXCEPT ![s] = None]
  /\ \/ UNCHANGED <<miner, paying>>
     \/ \E c \in Children \ Live :
          /\ paying' = [paying EXCEPT ![c] = Unread]
          /\ miner' = [child |-> c, address |-> starts[s]]
  /\ UNCHANGED <<active, wallet, config, running>>

\* A mutant of Spawn: an xmrig.json that is there is left as it is.
SpawnKeepsConfig(s) ==
  /\ starts[s] # None
  /\ starts' = [starts EXCEPT ![s] = None]
  /\ \/ /\ config' \in {config, IF config = None THEN starts[s] ELSE config}
        /\ UNCHANGED <<miner, paying>>
     \/ /\ config' = IF config = None THEN starts[s] ELSE config
        /\ \E c \in Children \ Live :
             /\ paying' = [paying EXCEPT ![c] = Unread]
             /\ miner' = [child |-> c, address |-> starts[s]]
  /\ UNCHANGED <<active, wallet, running>>

\* mine_start from its await on: it fails before xmrig.json is written or after,
\* or it spawns a child and registers it over whatever is registered.
Spawn(s) ==
  /\ starts[s] # None
  /\ starts' = [starts EXCEPT ![s] = None]
  /\ \/ config' \in {config, starts[s]} /\ UNCHANGED <<miner, paying>>
     \/ /\ config' = starts[s]
        /\ \E c \in Children \ Live :
             /\ paying' = [paying EXCEPT ![c] = Unread]
             /\ miner' = [child |-> c, address |-> starts[s]]
  /\ UNCHANGED <<active, wallet, running>>

MineStop ==
  /\ running
  /\ Kill
  /\ UNCHANGED <<active, wallet, config, starts, running>>

\* mine_status forgets a child that has ended.
MineStatus ==
  /\ running
  /\ miner # None /\ miner.child \notin Live
  /\ miner' = None
  /\ UNCHANGED <<active, wallet, paying, config, starts, running>>

\* A mutant of MoveTo: the miner goes only when the wallet is still open.
MoveToOpenOnly(p) ==
  /\ running
  /\ active' = <<p, active[2]>> /\ wallet' = None
  /\ IF wallet # None THEN Kill ELSE UNCHANGED <<miner, paying>>
  /\ UNCHANGED <<config, starts, running>>

\* wallets_switch and wallets_create.
MoveTo(p) ==
  /\ running
  /\ active' = <<p, active[2]>> /\ wallet' = None
  /\ Kill
  /\ UNCHANGED <<config, starts, running>>

\* wipe_wallet leaves a profile to be made anew.
Wipe ==
  /\ running
  /\ wallet' = None
  /\ Kill
  /\ UNCHANGED <<active, config, starts, running>>

\* set_network, set_lwd_url and the set_prefs that closes the wallet.
ApplySettings(n) ==
  /\ running
  /\ active' = <<active[1], n>> /\ wallet' = None
  /\ UNCHANGED <<miner, paying, config, starts, running>>

\* A mutant of Exit: the handle is taken and dropped, which kills nothing.
ExitDrops ==
  /\ running
  /\ running' = FALSE /\ wallet' = None /\ miner' = None
  /\ starts' = [s \in Starts |-> None]
  /\ UNCHANGED <<active, paying, config>>

\* RunEvent::Exit, with which the commands in flight end.
Exit ==
  /\ running
  /\ Kill
  /\ running' = FALSE /\ wallet' = None
  /\ starts' = [s \in Starts |-> None]
  /\ UNCHANGED <<active, config>>

Launch ==
  /\ ~running
  /\ running' = TRUE
  /\ UNCHANGED <<active, wallet, miner, paying, config, starts>>

-----------------------------------------------------------------------------
(* xmrig                                                                   *)

ReadConfig(c) ==
  /\ paying[c] = Unread
  /\ paying' = [paying EXCEPT ![c] = config]
  /\ UNCHANGED <<active, wallet, miner, config, starts, running>>

ChildExit(c) ==
  /\ c \in Live
  /\ paying' = [paying EXCEPT ![c] = Dead]
  /\ UNCHANGED <<active, wallet, miner, config, starts, running>>

Next ==
  \/ OpenWallet
  \/ \E s \in Starts : MineStart(s) \/ Spawn(s)
  \/ MineStop \/ MineStatus
  \/ \E p \in Profiles : MoveTo(p)
  \/ Wipe
  \/ \E n \in Nets : ApplySettings(n)
  \/ Exit \/ Launch
  \/ \E c \in Children : ReadConfig(c) \/ ChildExit(c)

Spec == Init /\ [][Next]_vars

-----------------------------------------------------------------------------
\* mine_start refuses a second miner, so that Stop, a switch and the exit, which
\* kill the registered child only, reach every xmrig there is.
EveryChildIsRegistered ==
  \A c \in Live : miner # None /\ miner.child = c

\* A registered child mines for the address that mine_status shows, though all
\* children share one configuration file.
ShownAddressIsPaid ==
  miner # None => paying[miner.child] \in {Dead, Unread, miner.address}
               /\ (paying[miner.child] = Unread => config = miner.address)

\* At the moment the app moves to another profile nothing mines, whatever closed
\* the wallet before.  (A start still in its await spawns its child later.)
SwitchStopsMining == [][active'[1] # active[1] => Live' = {}]_vars

\* No xmrig outlives the app.
NothingOutlivesExit == ~running => Live = {}
=============================================================================
