# Nighthawk desktop: a TLA+ verification project

Nighthawk desktop is a Tauri application: a Rust host (`src-tauri/src`) that keeps
the wallet, the vault and the child processes, and a page of Lit components
(`src/web`) that calls it.  The chain wallet, the chat daemon and the Tor client
come from `darkfi-mobile-ffi`, which is not in the repository; they appear here
only through what the host relies on.

## Inventory

| Part | State | Operations | Hard behaviour |
|---|---|---|---|
| Vault, `secure_store.rs` | `vault.dat`, `vault.meta.json`, `vault.key` per profile; keychain accounts; the unlocked session | `create_vault`, `unlock_session`, `clear_session`, `vault_ready`, `wipe_secrets` | several writes per operation, crashes between them, a keychain that is away, a legacy key that all profiles share |
| Wallet session, `commands.rs`, `state.rs` | `AppState.wallet`, `.prefs`, `.network` | `open_wallet`, `create_wallet`, `restore_wallet`, `set_prefs`, `set_network`, `wipe_wallet` | awaits between a check and the act, failures half-way |
| Profiles and preferences, `wallets.rs`, `prefs.rs`, `paths.rs` | `wallets.json`, `prefs.json`, the data-root override | `bootstrap_from_prefs`, create, switch, rename, remove | one id in four places, two files written one after the other, stale whole-struct writes |
| Miner, `commands.rs`, `mine-screen.ts` | `AppState.miner`, `xmrig.json`, the child | `mine_start`, `mine_stop`, `mine_status`, exit handler | check and registration on two sides of an await, children that end on their own |
| Chat connection, `chat-screen.ts` | phase, poll, reconnect timer, attempts | start, stop, retry | answers that arrive after a stop, timers that outlive the component |
| Chat messages, `chat-screen.ts` | channels, messages, unread counts | ingest, switch, `/join`, `/part`, `/msg`, send | awaits inside ingest and send, two copies of the active channel |
| DM keys and contacts, `dm_store.rs`, `dm-contacts.ts` | the sealed key file, local storage | generate, load, encrypt, decrypt; save, select, remove | keys rotated while a message is being opened, a list kept twice |
| Shell, `main-app.ts`, `app-nav.ts` | phase, tab, the banner's texts | start, retry, tab change | screens that are dropped with calls under way, copies nobody tells |
| Onboarding, `onboarding-flow.ts` | step, mode, words, busy | create, restore, finish, back | buttons that stay live during a call |
| Settings and mine screens | a draft of the preferences; a slider and its debounce | edit, save, switch network; slide, start, stop | stale whole-struct writes from both sides, a poll over a slider |
| Wallet screen, `wallet-screen.ts` | sync snapshot, reorg offer | refresh, poll, recover | snapshots by three ways in any order |
| Send, `send-flow.ts` | the form, a snapshot, busy | paste, scan, choose, estimate, send | text parsed twice, a gate on a copy, a screen left during a send |
| Receive, `receive-flow.ts`, `transfer-flow.ts` | address, QR code, error | new address | two answers per request, each may be an error |
| DAO screen, `dao-screen.ts` | DAOs, proposals, a modal | list, view, vote, propose | answers that select and close things |
| Amounts and URIs, `amount.ts`, `payment-uri.ts` | none | parse, format | numeric edges |
| Address book, `address_book.rs`; endpoint checks | one file; none | upsert, list; validate | none beyond a torn write |

The page calls the host by Tauri commands.  Those declared without `async` run to
their end on the main thread; `async` ones run on a thread pool, so that
everything else can happen at each of their awaits and while they wait in the
keychain.  The host calls back with two events (chat messages, reorgs).  What makes
the whole correct:

- the vault never loses or replaces a seed, and what it reports as ready opens;
- the open handle, the unlocked session, the data root, the databases and the
  settings always belong to one wallet, and a restart opens that wallet;
- every xmrig is one the app can stop, and it pays whom the page says it pays;
- a spend is what the user confirmed, to the last digit, and is asked for only on a tree at
  the tip;
- the chat screen watches the daemon while it is up, and a lost connection is retried
  or given up; no event is shown twice or elsewhere, and nothing typed to be sealed
  goes out in the clear;
- what a screen shows (banner, slider, sync line, QR code, the DAO behind a modal, the
  words of a new wallet) is in the end what the host has or what the user chose, or the screen
  shows an error.

`PROJECT.json` lists the hazards line by line with the properties that cover them.

## Modules

- **`Custody`**: the abstract promise of the vault.  `kept[p]` is the seed a profile
  has; it is stored when there is none, and goes only in that profile's own wipe.
- **`Vault`**: `secure_store.rs` and the vault part of `wipe_wallet`.  `meta`, `data` and
  `keyFile` are the three files of each profile, `chain` the keychain, `denied` the
  accounts that cannot be read now.  A create is two steps (`CreateSeal`,
  `CreateMeta`) and a wipe five, as the code writes and removes one file after the
  other; each can be cut short, leave a torn file or fail to remove.  A sealing key is
  a pair of master key and salt, which is all `mix_master` and the fingerprint let the
  code tell apart.  `MasterKeyOutcomes` is `keychain_master_key` with both stores failing
  or not.  `CustodyHolds` is the refinement: `kept[p]` is what an unlock of `p` would
  yield once the keychain answers.
- **`WalletSession`**: the commands and the page.  A request in flight is a record
  with the next segment of the async command and what it has captured: `Check`,
  `Unlock`, `Arm`, `Build`, `Open` are `open_existing_wallet` and `unlock_session`;
  `Begin`, `Seal`, `Save`, `Open` are `persist_and_open`.  The commands of the main thread
  are one action each.  `ui` is main-app's phase ("leaving" is the moment before
  `location.reload()`), `draft` the `Prefs` that a screen has read and will write back
  whole.  A secret stands for a mnemonic with its pass; a database opens with the pass
  it was made with.  `net` stands for everything read at bootstrap (network, URL, pin,
  Tor), since all of it closes the handle in the same way.
- **`Miner`**: `mine_start` in two segments around its await (`MineStart`, `Spawn`), the
  commands that kill and those that do not, the children with the configuration they
  read some time after the spawn, and the exit.
- **`ChatLink`**: `start` in five segments (`Connect`, `Look`, `ChatStop`, `Drained`,
  `ChatStart`, then `Started` or `Refused`), `stop` in three, the poll as a question and an
  answer that comes later (`PollTick`, `PollAnswer`), the reconnect timer, the coming and
  going of the screen, and the daemon, which changes phase on its own once it is up.
  `wanted` is no variable of the code: it remembers what the user asked for.
- **`Room`**: the abstract chat room: one log per channel, a channel that is read, news in
  the others, events logged once in their own channel, texts logged where they are handed
  to the daemon.
- **`ChatRoom`**: the messages, channels and contacts of the chat screen.  `hist` and
  `messages` are the code's two copies (`channelMessages`, `messages`), `opening` the events
  that `ingestMessage` is having decrypted, `sending` the texts between the awaits of `send`.
  Each handler is a step up to its await and one after it.  `typed` and `wire` compare what
  the user asked for with what `chat_send` got.  `RoomHolds` is the refinement of `Room`: an
  event has arrived when it is seen and no longer being decrypted.
- **`Payment`**: amounts as numerals (the whole part and the digits behind the point), URIs as
  what the parser takes them apart into, and the gate on spending that page and host share.
- **`SendFlow`**: the send screen over `Payment`.  `jobs` are the runs of `send_drk`, each with what
  it is to pay and what the user was asked; a run whose screen is gone goes on.
- **`Shell`**: what the screens share: phase, tab, banner, the host's preferences and vault.
- **`Onboarding`**, **`Preferences`** (settings, mine, `/nick` and the host commands behind them),
  **`DaoScreen`**, **`Receive`**, **`WalletScreen`**: one screen each.  A screen is a record, and None
  while its tab is not there.  Handlers that will write preferences are records in
  `writes` and survive their screen; answers are sets, so that they come in any order.
- **`Desk`**: the page as a whole: it extends the five screens, starts, unlocks or onboards, and
  mounts one screen at a time (`Show`).
- **`VaultProofs`**, **`WalletSessionProofs`**, **`MinerProofs`**, **`ChatLinkProofs`**, **`ChatRoomProofs`**,
  **`PaymentProofs`**, **`SendFlowProofs`**, **`DeskProofs`**: the theorems, one module per component.
- **`MCVault`**, **`MCWalletSession`**, **`MCMiner`**, **`MCChatLink`**, **`MCChatRoom`**, **`MCSend`**, **`MCDesk`**: instances for TLC.  Operators named
  as mutants next to a definition are wrong versions of it; each breaks one property.

`Vault` and `WalletSession` meet at the vault: the session model takes from `Vault` that
a ready vault opens or the request fails, and `Vault` takes from the session model that
vault operations do not overlap (true while no page is reloaded in an await).
`Miner` takes from `WalletSession` that the handle matches the settings in force.
`Desk` and `WalletSession` model the same preferences from two sides: `WalletSession` has the
profile id in them and the handle that depends on them, `Desk` every field the page writes and
every handler that holds a copy.  `ChatRoom`, `ChatLink` and `SendFlow` are screens of the same
page and share nothing with the others but that they are left with their tab, so that they
have runs of their own.

## Runs

| Run | Checks | Shows |
|---|---|---|
| `vault` | `TypeOK`, `ReadyIsOpenable`, `SessionIsVault`, `WipeLeavesNoVault`, `CustodyHolds` | holds with one fault and whole outages of the keychain |
| `vault_outage` | `ReadyIsOpenable` | violated when one account's read fails alone |
| `session` | `TypeOK`, `CommandsHitOpenWallet`, `HandleMatchesSettings`, `DbBelongsToVault`, `OneActiveProfile`, `VaultNeverReplaced` | holds while the page is not reloaded during an awaited command |
| `session_reload` | `CommandsHitOpenWallet` | violated when it is |
| `session_chat` | `ChatFollowsWallet` | violated by a change of network or profile |
| `miner` | `TypeOK`, `EveryChildIsRegistered`, `ShownAddressIsPaid`, `SwitchStopsMining`, `NothingOutlivesExit` | holds with one start in flight |
| `miner_two_starts` | `EveryChildIsRegistered` | violated with two |
| `chat_link` | `TypeOK`, `PollsWhileUp`, `LostIsRetried`, `StatusSettles` | holds with one run of `start` in flight and a `chat_stop` that works |
| `chat_room` | `TypeOK`, `ViewIsHistory`, `UnreadIsReachable`, `OncePerEvent`, `SealedAsTyped`, `BookIsKept`, `RoomHolds` | holds with every answer late, in any order or an error |
| `spend` | `SendTypeOK`, `ConfirmedIsPaid`, `BusyIsSending`, `AmountIsExact`, `SnapshotSettles` | holds for every way into the form, nested URIs and amounts at every edge |
| `desk` | `DeskTypeOK`, `SeedShownIsMade`, `BannerIsNetwork`, `ProposesForModal`, `QrMatchesAddress`, `WritesHold`, `SliderSettles`, `SyncSettles` | holds with screens left at any moment; what is exempt is in the comments of `BannerIsNetwork`, `WritesOnlyEdits` and `QrMatchesAddress` (a code that cannot be encoded leaves that of the former address, with an error beside it) |
| `chat_retry` | `RetrySpares` | violated: a retry takes down a connection that is up |

Bounds and why they are enough:

- `vault`: two profiles (a victim and another one), two payloads (to tell a
  replaced seed), three masters and three salts (one per stored vault and a fresh
  one), `MaxFaults = 1`.  The initial states are every mixture of what past versions
  left, over every keychain that goes with it.  `MaxFaults` matters: with two,
  `ReadyIsOpenable` fails.  A wipe that ends between `vault.dat` and
  `vault.meta.json`, followed by a create torn at `vault.dat`, pairs the old meta with a
  broken blob, and `create_vault` refuses to start over.
- `session`: two profiles, two settings, three secrets and two requests.  Two secrets
  suffice to tell wallets apart (the two violated runs have two), a third allows a create
  after that, and one with no fresh pass left is not taken.
  `PageReloads = FALSE` keeps reloads to moments at which the page awaits nothing.  Commands
  then never overlap (`SoleRequest` below); what happens when they do is the subject of
  `session_reload`: with reloads during an await every property but `TypeOK` fails.  `LateSaves = FALSE` says that no `set_prefs` follows a
  switch before the reload; without it `OneActiveProfile` fails through a stale draft, and
  `DbBelongsToVault` after it, when a restart opens the profile that the draft named.  The
  other properties hold with late saves, and are proved so.
- `miner`: two profiles, two networks, three process ids (a third so that an orphan
  leaves room), `Starts` with one or two elements.

- `chat_link`: one run of `start` in flight, five attempts as in the code, `StopFails =
  FALSE`.  With two runs (the button is never disabled) or a failing `chat_stop`,
  `PollsWhileUp` fails: the branch of the refused one clears the interval of the other.
  A `chat_stop` that works has ended the daemon when it returns; one that leaves it behind in
  "stopping" for longer than the drain waits would have `chat_start` refused in the same way.

- `chat_room`: three channels (the first one, the one an event is for, and one not in the list
  at first), a public and a sealed event, two peers (to seal for the wrong one), one text.
  `Cap = 2` and `MaxKept = 1` make both limits bind at once; the code has 500 and 200.  Two
  changes of channel and two calls under way let an event be decrypted across a `/part` and
  a return, and a text be sealed across both.  The theorems below hold for all bounds.
- `spend`: three snapshots (synced, scanning, degraded but at the tip), amounts that are whole,
  with a trailing zero, zero, with an inner zero and with a digit too many, at `Decimals = 2`
  and `MaxWhole = 2` for the code's 8 and 21 million; texts that are long and short addresses,
  a URI, a URI within a URI and one that does not parse.  Three edits of the form put any two
  texts and an amount there in any order; two sends, the second from a new screen.
- `desk`: two networks with an endpoint each and one of the user's own, two positions of the
  slider, two nicks, two seeds and a phrase, two DAOs, two addresses, two snapshots.  A user
  makes two counted changes and at most two handlers, DAO calls, address requests, polls and
  reloads are under way.  `Tours` says which tabs one behaviour visits: settings, mine and
  chat together, since they share the preferences; the DAO tab and the transfer tab each with
  the wallet tab, since neither reads what the others write.  The chain moves only while the
  wallet tab is there (nobody else looks at it in this module), and a wipe waits for the
  handlers that would write.  A read of the host is answered at once.

No run disables the deadlock check, and every action of every module fires in a passing
run.  `chat_link`, `spend` and `desk` assume fairness: intervals tick, timers fire and calls to
the host return, which the browser and Tauri give.  In `chat_link` it is strong where the
model makes a return wait for a poll's answer or a timer for a free run of `start`, which the
code does not; elsewhere it is weak.  `spend` assumes it of the poll and its answers alone,
`desk` of the debounce, the mine screen's poll, the handlers in `writes`, and the wallet
screen's listener, reloads and poll.  Nothing is assumed of the user, of the daemon or of the
chain: the liveness properties say what happens once those come to rest.

The five violations are what the code does (`PROJECT.json`, findings):

1. A keychain read that fails is taken for a missing entry, so a new master key can
   be stored over the legacy one, and the vault sealed with the latter no longer opens.
2. `open_wallet` and `create_wallet` check first and act after awaits; a reload in
   between lets two of them finish, and the late one replaces vault, session or handle.
3. The chat daemon is neither stopped nor moved by a change of network or profile.
4. Two overlapping `mine_start` lose a child, which nothing can stop any more.
5. A status poll during a restart arms a reconnect timer that nothing clears; it then
   stops the connection the restart made.

## Proofs

Every invariant and every action property of the passing runs is a theorem, and so are both
refinements; liveness alone is left to TLC.  All theorems hold for every value of the
constants that satisfies the named assumptions.  These give the constants their types and say
that the marks (None, Torn, Dead, ...) are none of the values they stand beside, among them that None
is no record, since a screen that is not there is None (`ReceiveAssumption`, `WalletAssumption`,
`OnboardingAssumption`, `DaoAssumption`, `DefaultAssumption`).  Three say more: the default channels are
distinct, an amount is a numeral (`AmountAssumption`; text that is none is None), and what a URI
stands around is as the parser leaves it (`TextAssumption`, below).  What a theorem assumes
beyond that is its premise, named in its module:

| Premise | Says | Without it |
|---|---|---|
| `WholeService` | the keychain answers for all accounts or for none | `SessionIsVault`, `CustodyHolds` and `ReadyIsOpenable` fail (run `vault_outage`) |
| `OneFault` | `MaxFaults <= 1` | `ReadyIsOpenable` and `WipeLeavesNoVault` fail with two |
| `NoReloads` | no page is reloaded during an awaited command | all of `session` but `TypeOK` fails (run `session_reload`) |
| `Orderly` | moreover no `set_prefs` comes between a switch and the reload | `OneActiveProfile` and `DbBelongsToVault` fail |
| `OneStart` (`Miner`) | at most one `mine_start` in flight | all of `miner` but `TypeOK` fails (run `miner_two_starts`) |
| `OneStart` (`ChatLink`) | one run of `start` at a time, and a `chat_stop` that works | `PollsWhileUp` fails with either half dropped |

TLC finds each of these counterexamples on the instance of the run with that one premise dropped.

`VaultProofs` proves for all profiles, payloads, keys and salts, the first two points for any
number of faults:

- `VaultTypeCorrect`: `Spec => []TypeOK`.
- `SessionFromVault` and `VaultImplementsCustody`, both under `WholeService` (the
  keychain answers for all accounts or for none, as in the run).  `SessionIsVault` is not
  inductive.  The invariant `IInv` adds that a half-made vault is sealed with a key the
  keychain has (`SealedAhead`), that no session is open in a wipe, that a profile's
  own entry is a copy of the legacy key wherever that exists (`Copies`),
  and that outages are whole.  From these, `OpenableStays` says that a vault that opens
  opens with the same payload after any step but its own wipe, which is both the step
  of `SessionIsVault` and the step simulation of `Custody`.
- `WipeIsClean` (`WipeLeavesNoVault`) under `OneFault`, whatever the keychain can read, and
  `ReportedVaultOpens` (`ReadyIsOpenable`) under `OneFault` and `WholeService`.  The
  invariant `OrderInv` keeps account of the one fault by what lies on the disk: a meta
  file without its `vault.dat` is a step of a wipe or what that fault left (`MetaAlone`), a
  create that seals over an old meta comes after it (`SealedOver`), and so that create cannot
  be cut short as well; a wipe takes the files before the keys (`WipeInOrder`).
  `ReadyOpens` on top of it says which vaults must open in the middle of a wipe.

`MinerProofs` proves `MinerTypeCorrect` for any number of starts, and, under `OneStart`
(at most one start in flight), `ChildrenRegistered`, `ShownIsPaid`, `ExitEndsMining` and
`SwitchEndsMining`.  `EveryChildIsRegistered` is not inductive on its own: one has to know
that a start in its await finds no child registered when it ends (`StartFindsNone`),
which is what a second start breaks.

`ChatRoomProofs` proves all properties of the `chat_room` run for any channels, events, peers,
texts and bounds.  The inductive invariant has four parts: `RoomInv` (types, the cap,
`ViewIsHistory`, `UnreadIsReachable`, and that a history shows an event only if it has arrived
there), `OpenInv` (an event being decrypted is seen, and is in `opening` once), `SendInv` (a
text under way was typed for whom it will be sealed) and `DmInv` (`BookIsKept`).  `OncePerEvent`
is not inductive alone: that a decryption adds the event's first line needs `OpenInv`.  Lemmas on
the sequence operators (`NewestIsTail`, `PutShown`, `WithoutTakes`, `FirstKeptIsPrefix`) say what
cutting, filtering and appending keep.  `ChatRoomIsRoom` is the step simulation of `Room` from
that invariant.

`PaymentProofs` proves `ParseFormat`: the amount the page accepts, parsed and formatted
(`parseDrkAtomic`, `formatDrkAtomic`), is the same numeral without its trailing zeros, and parses to the
same number, which is less than a coin above the limit, for every number of decimals.  The model's numerals are
sequences of digits and its powers of ten a recursive function, so this is an induction.
The induction theorems of the library take an operator, which no prover at hand can
instantiate; `Least` and `Induction` state them of sets instead (what is left of Nat would
have a least member, which has a predecessor outside).  `Recursion` follows from them: a step function and a
first value have a function on Nat that satisfies the equations.  It gives `Pow10Equation`
and `Powers`, and what `Written` computes (`WrittenIsRead`, `ReadsFurther`).  `Digits` and `Padding` say what taking a
number apart and filling up its decimals do to its value, and `Formatting` and `Parsed` what the
two conversions yield.

`SendFlowProofs` proves `SendTypeCorrect`, `SendConfirmedIsPaid`, `SendBusyIsSending` and, from the
first and `ParseFormat`, `AmountExact` (`AmountIsExact`).  The
strengthening is `NoneLoaded`: no text in the field or in the address book is a URI that
parses and carries an amount.  It rests on `TextAssumption`: what a URI stands around has lost its query
at the first question mark, and so has no amount.

`WalletSessionProofs` proves all six properties of the `session` run for any profiles, settings,
secrets and number of requests.  The properties are far from inductive, and the invariant has
three layers, each with its own premise:

- `TInv` needs none: types, and what a command has noted down by each of its steps
  (`FilledRequests`).  It gives `SessionTypeCorrect`.
- `SInv`, under `NoReloads`.  `SoleRequest` says that at most one command is under way and that the
  page then shows no screens; from it, `Captured` says that what a command read before an await
  (the root, the vault's secret, the unlocked session, the settings) is still true after it.
  `Registered`, `InUse` and `HandleInUse` relate registry, root, preferences, drafts and the open
  handle; they allow for a `set_prefs` that names the profile that was left, whose wallet is
  there.  They give `CommandsShareWallet`, `HandleFollowsSettings` and
  `VaultKept` (`VaultNeverReplaced`).
- `Settled`, under `Orderly`: every copy of the active id is the data root's, and what is open or
  being opened is what its vault holds.  It gives `DatabasesOpen` and `ActiveProfileAgrees`.

`ChatLinkProofs` proves `ChatTypeCorrect` without a premise and `UpIsPolled` (`PollsWhileUp`) under
`OneStart`: one run of `start` at a time and a `chat_stop` that works.  It rests on three facts: a poll
that was told "stopped" is right until it has processed that (`AnswerIsTrue`), `chat_start` is
called on a daemon that is down (`StartsStopped`), and only between its return and the end of
`start` may a daemon be up unpolled (`PollsUnlessStarted`).

`DeskProofs` has one invariant per screen on top of `NavInv`, which says which screen is there;
`DeskInvariant` is their conjunction, and no premise is needed:

- `CodePaysAddress`: the last address in the queue of codes is the one that is shown
  (`QrFollows`), and the queue is drained in order, so that only a failure of the last encoding
  leaves another code there; the error it shows is cleared by a further request alone, and
  that one ends with a code of its own or another error.
- `WordsShownAreSealed`: in the create step the words come from a call for a mnemonic, and none
  is under way with a Finish (`ObSound`).
- `ProposalGoesToItsDao`: a call goes on to the end of its own handler, and one handler has the
  loading flag (`CallsSound`); no answer changes the selection while the modal is open.
- `BannerTellsNetwork` and `EditsAlone`: a handler's copy differs from the preferences in the
  threads alone unless another write overtook it (`WriteSound`), and a draft that nobody
  overtook differs where it was edited (`SettingsSound`).

`DeskTypeCorrect` (`DeskTypeOK`) follows from the same conjunction: a screen is None exactly where its
tab is not, and a record of its own kind otherwise.  For its sake the conjunction has
`WalletInv`, that only a screen with a timer has polls under way, and `FrameInv`, the types of
what stands around the screens; `PrefsAreTyped` reads the types of drafts and of handlers under way off
`SettingsSound`, `MineSound` and `WriteSound`.

Only model-checked are the liveness properties `LostIsRetried`, `StatusSettles`, `SnapshotSettles`, `SliderSettles`
and `SyncSettles`: fairness and ENABLED are out of the prover's reach.

## Not modelled, and why

- Ciphers, key derivation, hex, log parsing, themes, the texts of the banner and of messages,
  hash rates, the clipboard and the backup of the seed words: they carry no state a property
  needs.  `bumpDmUnread` feeds a badge and nothing else.
- `validate_lwd_url` and `validate_host_port`: pure checks of one string by a URL parser.  Their refusal is a
  branch of `Put` in `Preferences`.
- The sealed DM key file of `dm_store.rs`: one write per rotation under the wallet's pass.  `ChatRoom`
  has what the page sees of it.
- The rename of a profile and Arti: each changes one field that nothing else depends on.
- Torn `prefs.json` and `wallets.json`, an interrupted `remove_profile`, and commands of the main
  thread that fail half-way.  In `WalletSession` a disk write fails in the asynchronous commands
  only, and the registry and the preferences are written in one step except by a create.
- A screen that is left while one of its chat calls is awaited; the send, DAO, mine and
  settings screens do have that.
- A crash of the app leaves xmrig running; no code deals with it, and `Miner` has orderly
  exits only.
- The chain wallet and the daemons are external.

## Plan

Done in this order: `Custody`, `Vault`, `WalletSession`, `Miner` and `ChatLink`; then `Room` and `ChatRoom`, `Payment`
and `SendFlow`, the screens and `Desk`; then the proofs of every safety property named above.  What is
left, the most valuable first:

1. `ProfileStore`: the writes of `wallets.json` and `prefs.json` one by one, torn or failing, and a
   removal that stops half-way, as a refinement of the registry part of `WalletSession`; the
   commands of the main thread that fail half-way come with it.
2. The chat screen left while `start`, `send` or a decryption is awaited, composed with `Desk`.
3. Wallet commands that hold the handle's `Arc` across a close of the wallet: `SendFlow` composed
   with `WalletSession` by its `handle`.
