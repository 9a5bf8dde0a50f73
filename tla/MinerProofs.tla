----------------------------- MODULE MinerProofs -----------------------------
(***************************************************************************)
(* Proofs about Miner for any profiles, networks and process ids.          *)
(*                                                                         *)
(* EveryChildIsRegistered is not inductive: a start that is in its await   *)
(* may find another child registered when it ends.  With one start at a    *)
(* time the registration that it emptied stays empty (StartFindsNone),     *)
(* and the file a child has yet to read is the one written for it.         *)
(***************************************************************************)
EXTENDS Miner, TLAPS

\* The page has one mine_start in flight at a time.
OneStart == \A s, t \in Starts : s = t

StartFindsNone == \A s \in Starts : starts[s] # None => running /\ miner = None
\* A child that has yet to read its configuration finds one.
ConfigWritten     == \A c \in Children : paying[c] = Unread => config \in Wallets
IInv ==
  /\ StartFindsNone
  /\ EveryChildIsRegistered
  /\ ShownAddressIsPaid
  /\ NothingOutlivesExit

-----------------------------------------------------------------------------
\* A child that lives mines for a wallet or has yet to read for which, and no
\* wallet is mistaken for the marks None, Dead and Unread.
LEMMA Marks == None \notin Wallets /\ Dead \notin Wallets /\ Unread \notin Wallets /\ Dead # Unread
  BY MinerAssumption

Typed == TypeOK /\ ConfigWritten

LEMMA InitTyped == Init => Typed
  BY Marks DEF Init, Typed, TypeOK, ConfigWritten, Wallets

LEMMA KillTyped == TypeOK /\ Kill =>
                     /\ miner' = None
                     /\ paying' \in [Children -> Wallets \cup {Dead, Unread}]
                     /\ \A c \in Children : paying'[c] \in {paying[c], Dead}
  <1> SUFFICES ASSUME TypeOK, Kill
               PROVE  /\ miner' = None
                      /\ paying' \in [Children -> Wallets \cup {Dead, Unread}]
                      /\ \A c \in Children : paying'[c] \in {paying[c], Dead}
    OBVIOUS
  <1>1. CASE miner = None
    BY <1>1 DEF Kill, TypeOK
  <1>2. CASE miner # None
    <2>1. miner.child \in Children
      BY <1>2 DEF TypeOK, Handles
    <2>. QED  BY <1>2, <2>1 DEF Kill, TypeOK
  <1>. QED  BY <1>1, <1>2

\* Typing survives every step; one case per command.
LEMMA NextTyped == Typed /\ [Next]_vars => Typed'
  <1> SUFFICES ASSUME Typed, [Next]_vars PROVE Typed'
    OBVIOUS
  <1> USE DEF Typed, TypeOK, ConfigWritten
  <1>1. ASSUME NEW p \in Profiles, MoveTo(p) PROVE Typed'
    <2>1. active' \in Wallets
      BY <1>1 DEF MoveTo, Wallets
    <2>. QED  BY <1>1, <2>1, KillTyped, Marks DEF MoveTo
  <1>2. ASSUME NEW n \in Nets, ApplySettings(n) PROVE Typed'
    <2>1. active' \in Wallets
      BY <1>2 DEF ApplySettings, Wallets
    <2>. QED  BY <1>2, <2>1 DEF ApplySettings
  <1>3. CASE Wipe \/ MineStop \/ Exit
    BY <1>3, KillTyped, Marks DEF Wipe, MineStop, Exit
  <1>4. ASSUME NEW s \in Starts, Spawn(s) PROVE Typed'
    <2>1. starts[s] \in Wallets
      BY <1>4 DEF Spawn
    <2>. QED  BY <1>4, <2>1 DEF Spawn, Handles
  <1>5. ASSUME NEW s \in Starts, MineStart(s) PROVE Typed'
    BY <1>5 DEF MineStart
  <1>6. ASSUME NEW c \in Children, ReadConfig(c) \/ ChildExit(c) PROVE Typed'
    BY <1>6, Marks DEF ReadConfig, ChildExit
  <1>7. CASE OpenWallet \/ MineStatus \/ Launch \/ UNCHANGED vars
    BY <1>7 DEF OpenWallet, MineStatus, Launch, vars
  <1>. QED  BY <1>1, <1>2, <1>3, <1>4, <1>5, <1>6, <1>7 DEF Next

\* The miner's state is well typed, with any number of starts in flight.
THEOREM MinerTypeCorrect == Spec => []TypeOK
  <1>1. Typed => TypeOK
    BY DEF Typed
  <1>. QED  BY <1>1, InitTyped, NextTyped, PTL DEF Spec

-----------------------------------------------------------------------------
LEMMA MinerInit == Init => IInv
  BY Marks DEF Init, IInv, StartFindsNone, EveryChildIsRegistered, ShownAddressIsPaid,
               NothingOutlivesExit, Live

\* A kill leaves nothing alive when all that lives is registered.
LEMMA KillLeavesNone ==
  TypeOK /\ EveryChildIsRegistered /\ Kill => miner' = None /\ Live' = {}
  <1> SUFFICES ASSUME TypeOK, EveryChildIsRegistered, Kill
               PROVE  \A c \in Children : paying'[c] = Dead
    BY DEF Kill, Live
  <1> TAKE c \in Children
  <1>1. CASE c \in Live
    <2>1. miner # None /\ miner.child = c
      BY <1>1 DEF EveryChildIsRegistered
    <2>. QED  BY <2>1 DEF Kill, TypeOK
  <1>2. CASE c \notin Live
    BY <1>2, KillTyped DEF Live
  <1>. QED  BY <1>1, <1>2

LEMMA MinerStep == OneStart /\ TypeOK /\ IInv /\ [Next]_vars => IInv'
  <1> SUFFICES ASSUME OneStart, TypeOK, IInv, [Next]_vars PROVE IInv'
    OBVIOUS
  <1> USE DEF IInv, StartFindsNone, EveryChildIsRegistered, ShownAddressIsPaid,
              NothingOutlivesExit
  <1>1. CASE MineStop \/ Wipe \/ Exit \/ \E p \in Profiles : MoveTo(p)
    <2>1. Kill
      BY <1>1 DEF MineStop, Wipe, Exit, MoveTo
    <2>2. miner' = None /\ Live' = {}
      BY <2>1, KillLeavesNone
    <2>3. \A s \in Starts : starts'[s] # None => running'
      BY <1>1 DEF MineStop, Wipe, Exit, MoveTo
    <2>. QED  BY <2>2, <2>3
  <1>2. ASSUME NEW s \in Starts, MineStart(s) PROVE IInv'
    <2>1. Live = {}
      BY <1>2 DEF MineStart
    <2>. QED  BY <1>2, <2>1 DEF MineStart, Live
  <1>3. ASSUME NEW s \in Starts, Spawn(s) PROVE IInv'
    <2>1. miner = None /\ Live = {}
      BY <1>3 DEF Spawn
    <2>2. \A t \in Starts : starts'[t] = None
      BY <1>3 DEF Spawn, OneStart, TypeOK
    <2>3. running' = running
      BY <1>3 DEF Spawn
    <2>4. CASE UNCHANGED <<miner, paying>>
      BY <2>1, <2>2, <2>3, <2>4 DEF Live
    <2>5. ASSUME NEW c \in Children, config' = starts[s],
                 paying' = [paying EXCEPT ![c] = Unread],
                 miner' = [child |-> c, address |-> starts[s]]
          PROVE  IInv'
      <3>1. running
        BY <1>3 DEF Spawn
      <3>2. paying'[c] = Unread /\ \A d \in Children : d # c => paying'[d] = Dead
        BY <2>1, <2>5 DEF Live, TypeOK
      <3>3. Live' = {c}
        BY <3>2, Marks DEF Live
      <3>4. miner' \in Handles
        BY <1>3, <2>5 DEF TypeOK, Spawn, Handles
      <3>5. miner' # None /\ miner'.child = c /\ miner'.address = config'
        BY <2>5, <3>4, MinerAssumption
      <3>. QED  BY <2>2, <2>3, <3>1, <3>2, <3>3, <3>5
    <2>. QED  BY <1>3, <2>4, <2>5 DEF Spawn
  <1>4. ASSUME NEW c \in Children, ReadConfig(c) \/ ChildExit(c) PROVE IInv'
    BY <1>4, Marks DEF ReadConfig, ChildExit, Live, TypeOK
  <1>5. CASE OpenWallet \/ MineStatus \/ Launch \/ UNCHANGED vars
    BY <1>5, Marks DEF OpenWallet, MineStatus, Launch, vars, Live, TypeOK
  <1>6. ASSUME NEW n \in Nets, ApplySettings(n) PROVE IInv'
    BY <1>6 DEF ApplySettings, Live
  <1>. QED  BY <1>1, <1>2, <1>3, <1>4, <1>5, <1>6 DEF Next

\* The invariant, of every behaviour with one start at a time.
LEMMA MinerInvariant == OneStart => (Spec => [](TypeOK /\ IInv))
  <1> SUFFICES ASSUME OneStart PROVE Spec => [](TypeOK /\ IInv)
    OBVIOUS
  <1>1. TypeOK /\ IInv /\ [Next]_vars => IInv'
    BY MinerStep
  <1>. QED  BY <1>1, MinerInit, MinerTypeCorrect, PTL DEF Spec

\* Every xmrig that runs is the one that Stop, a switch and the exit can kill.
THEOREM ChildrenRegistered == OneStart => (Spec => []EveryChildIsRegistered)
  <1> SUFFICES ASSUME OneStart PROVE Spec => []EveryChildIsRegistered
    OBVIOUS
  <1>1. TypeOK /\ IInv => EveryChildIsRegistered
    BY DEF IInv
  <1>. QED  BY <1>1, MinerInvariant, PTL

\* The registered child mines for the address that mine_status shows.
THEOREM ShownIsPaid == OneStart => (Spec => []ShownAddressIsPaid)
  <1> SUFFICES ASSUME OneStart PROVE Spec => []ShownAddressIsPaid
    OBVIOUS
  <1>1. TypeOK /\ IInv => ShownAddressIsPaid
    BY DEF IInv
  <1>. QED  BY <1>1, MinerInvariant, PTL

\* When the app has ended nothing mines.
THEOREM ExitEndsMining == OneStart => (Spec => []NothingOutlivesExit)
  <1> SUFFICES ASSUME OneStart PROVE Spec => []NothingOutlivesExit
    OBVIOUS
  <1>1. TypeOK /\ IInv => NothingOutlivesExit
    BY DEF IInv
  <1>. QED  BY <1>1, MinerInvariant, PTL

\* A move to another profile leaves nothing mining: only MoveTo changes the
\* profile, and its kill reaches whatever is alive.
THEOREM SwitchEndsMining == OneStart => (Spec => SwitchStopsMining)
  <1> SUFFICES ASSUME OneStart PROVE Spec => SwitchStopsMining
    OBVIOUS
  <1>1. TypeOK /\ IInv /\ [Next]_vars => [active'[1] # active[1] => Live' = {}]_vars
    <2> SUFFICES ASSUME TypeOK, IInv, Next, active'[1] # active[1] PROVE Live' = {}
      BY DEF vars
    <2>1. \E p \in Profiles : MoveTo(p)
      <3>1. active' # active
        OBVIOUS
      <3>2. ASSUME NEW n \in Nets, ApplySettings(n) PROVE FALSE
        BY <3>2 DEF ApplySettings
      <3>. QED  BY <3>1, <3>2 DEF Next, OpenWallet, MineStart, Spawn, MineStop, MineStatus, Wipe,
                                 Exit, Launch, ReadConfig, ChildExit
    <2>2. Kill
      BY <2>1 DEF MoveTo
    <2>. QED  BY <2>2, KillLeavesNone DEF IInv
  <1>. QED  BY <1>1, MinerInvariant, PTL DEF Spec, SwitchStopsMining
=============================================================================
