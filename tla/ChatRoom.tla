------------------------------ MODULE ChatRoom ------------------------------
(***************************************************************************)
(* The messages, channels and contacts of the chat screen (chat-screen.ts, *)
(* dm-contacts.ts) and the host's chat_send, dm_encrypt and dm_decrypt.    *)
(*                                                                         *)
(* The page has one thread.  What a handler does up to an await is one     *)
(* step, what follows the answer another, and everything else may come in  *)
(* between: a decryption in ingestMessage, the sealing of a text and the   *)
(* question for the nick in send, and the answer of a /nick, /whoami or    *)
(* /msg.  Answers come in any order and can be errors.  A line stands for  *)
(* a ChatMessage: what it shows and not its wording or its time.           *)
(***************************************************************************)
EXTENDS Naturals, Sequences, FiniteSets

CONSTANTS
  Channels, Defaults,  \* channel keys (chanKey), and the list the screen starts with
  Events, ChanOf,      \* what the daemon delivers, and the channel of each
  SealedWith,          \* the peer whose key opens an event, None if it is in the clear
  Peers, Texts, None,
  Cap,                 \* 500 in the code
  MaxKept,             \* 200 in the code
  Moves,               \* how often the user changes channel, clears or asks: a bound
  Sends                \* texts and commands under way at a time: a bound

ASSUME RoomAssumption ==
  /\ Cap \in Nat \ {0} /\ MaxKept \in Nat \ {0} /\ Moves \in Nat /\ Sends \in Nat
  /\ Defaults \in Seq(Channels) /\ Defaults # <<>>
  /\ \A i, j \in DOMAIN Defaults : Defaults[i] = Defaults[j] => i = j
  /\ ChanOf \in [Events -> Channels] /\ SealedWith \in [Events -> Peers \cup {None}]
  /\ None \notin Peers

VARIABLES
  channel, list,   \* the active channel, channelsList
  messages,        \* what is shown
  hist,            \* channelMessages
  unread,          \* unreadCounts
  seen,            \* seenEventIds
  opening,         \* the events that ingestMessage is having decrypted
  dmMode, keys,    \* E2E DM is ticked, the page has a key pair
  peer,            \* peerPublic
  named,           \* whether the page knows a nick
  sending,         \* the texts under way in send()
  asks,            \* the commands under way whose answer will be shown
  typed,           \* every text entered, and whom it was to be sealed for (of the user's mind)
  wire,            \* what chat_send got for them
  book, kept,      \* dmContacts, and their copy in localStorage
  moves

room  == <<channel, list, messages, hist, unread>>
dm    == <<dmMode, keys, peer, book, kept>>
calls == <<opening, sending, asks>>
vars  == <<room, seen, calls, dm, named, typed, wire, moves>>

Lines == [kind : {"system"}, what : {None}] \cup [kind : {"own"}, what : Texts]
           \cup [kind : {"raw", "plain"}, what : Events]
Whom == Peers \cup {None}
Listed(c) == \E i \in DOMAIN list : list[i] = c

TypeOK ==
  /\ channel \in Channels /\ list \in Seq(Channels)
  /\ messages \in Seq(Lines)
  /\ hist \in [Channels -> Seq(Lines)] /\ \A c \in Channels : Len(hist[c]) <= Cap
  /\ unread \in [Channels -> Nat]
  /\ seen \subseteq Events
  /\ opening \subseteq [ev : Events, with : Peers]
  /\ {dmMode, keys, named} \subseteq BOOLEAN
  /\ peer \in Whom
  /\ sending \subseteq [text : Texts, seal : Whom, step : {"seal", "nick"}]
  /\ asks \in Nat /\ moves \in Nat
  /\ typed \subseteq [text : Texts, seal : Whom]
  /\ wire \subseteq [text : Texts, to : Channels, seal : Whom]
  /\ book \in Seq(Peers) /\ kept \in Seq(Peers)

R == INSTANCE Room WITH
  Home <- Defaults[1],
  log <- hist, reading <- channel, news <- unread,
  arrived <- seen \ {o.ev : o \in opening},
  handed <- {[text |-> w.text, to |-> w.to] : w \in wire}

Once(s) == \A i, j \in DOMAIN s : s[i] = s[j] => i = j
Shows(line, e) == line \in {R!Raw(e), R!Plain(e)}
FirstKept(s) == SubSeq(s, 1, IF Len(s) < MaxKept THEN Len(s) ELSE MaxKept)

\* filter, of a list in which nothing occurs twice
Without(s, x) ==
  IF \A i \in DOMAIN s : s[i] # x THEN s
  ELSE LET k == CHOOSE k \in DOMAIN s : s[k] = x IN SubSeq(s, 1, k - 1) \o SubSeq(s, k + 1, Len(s))

\* connectedCallback on the contacts and keys an earlier visit left
Init ==
  /\ channel = Defaults[1] /\ list = Defaults
  /\ messages = <<>> /\ hist = [c \in Channels |-> <<>>]
  /\ unread = [c \in Channels |-> 0]
  /\ seen = {} /\ opening = {} /\ sending = {} /\ asks = 0
  /\ dmMode = FALSE /\ keys \in BOOLEAN /\ peer = None /\ named \in BOOLEAN
  /\ typed = {} /\ wire = {}
  /\ book = <<>> /\ kept = <<>>
  /\ moves = 0

-----------------------------------------------------------------------------
\* A mutant of Show: a busy channel comes without its place in the list.
ShowUnlisted(c, line) ==
  /\ hist' = R!Put(hist, c, line)
  /\ IF c = channel THEN messages' = hist'[c] /\ UNCHANGED unread
     ELSE unread' = [unread EXCEPT ![c] = @ + 1] /\ UNCHANGED messages
  /\ UNCHANGED <<channel, list>>

\* The end of ingestMessage: into the history of the event's own channel, and on
\* the screen or to the unread ones, by the channel that is active now.
Show(c, line) ==
  /\ hist' = R!Put(hist, c, line)
  /\ IF c = channel
     THEN messages' = hist'[c] /\ UNCHANGED <<unread, list>>
     ELSE /\ unread' = [unread EXCEPT ![c] = @ + 1]
          /\ list' = IF Listed(c) THEN list ELSE Append(list, c)
          /\ UNCHANGED messages
  /\ UNCHANGED channel

\* A mutant of Ingest: an event counts as seen only when it is shown at once.
IngestAgain(e) ==
  /\ e \notin seen
  /\ IF dmMode /\ keys /\ peer # None
     THEN opening' = opening \cup {[ev |-> e, with |-> peer]} /\ UNCHANGED <<room, seen>>
     ELSE seen' = seen \cup {e} /\ Show(ChanOf[e], R!Raw(e)) /\ UNCHANGED opening
  /\ UNCHANGED <<dm, sending, asks, named, typed, wire, moves>>

\* ingestMessage up to its await, or to its end.  A repeated event changes nothing.
Ingest(e) ==
  /\ e \notin seen /\ seen' = seen \cup {e}
  /\ IF dmMode /\ keys /\ peer # None
     THEN opening' = opening \cup {[ev |-> e, with |-> peer]} /\ UNCHANGED room
     ELSE Show(ChanOf[e], R!Raw(e)) /\ UNCHANGED opening
  /\ UNCHANGED <<dm, sending, asks, named, typed, wire, moves>>

\* dm_decrypt answers.  It opens what was sealed between this user and that peer,
\* unless the key pair was rotated since.
Decrypted(o) ==
  /\ o \in opening /\ opening' = opening \ {o}
  /\ \/ Show(ChanOf[o.ev], R!Raw(o.ev))
     \/ SealedWith[o.ev] = o.with /\ Show(ChanOf[o.ev], R!Plain(o.ev))
  /\ UNCHANGED <<seen, dm, sending, asks, named, typed, wire, moves>>

-----------------------------------------------------------------------------
Moved == moves < Moves /\ moves' = moves + 1

\* loadChannel, with the histories h
Load(h, c) ==
  /\ channel' = c /\ hist' = h /\ messages' = h[c]
  /\ unread' = [unread EXCEPT ![c] = 0]

\* persistActiveChannel
Persisted == [hist EXCEPT ![channel] = messages]

\* The select of the channels; choosing the active one again does nothing.
Switch(c) ==
  /\ Moved /\ Listed(c) /\ c # channel
  /\ Load(Persisted, c)
  /\ UNCHANGED <<list, seen, calls, dm, named, typed, wire>>

\* /join: listed, switched to, and told so
Join(c) ==
  /\ Moved
  /\ list' = IF Listed(c) THEN list ELSE Append(list, c)
  /\ Load(R!Put(IF c = channel THEN hist ELSE Persisted, c, R!System), c)
  /\ UNCHANGED <<seen, calls, dm, named, typed, wire>>

\* /part, /leave: the history goes, and the first channel left is told so
Part ==
  /\ Moved
  /\ LET rest == Without(list, channel) IN
     list' = IF rest = <<>> THEN <<Defaults[1]>> ELSE rest
  /\ Load(R!Put([hist EXCEPT ![channel] = <<>>], list'[1], R!System), list'[1])
  /\ UNCHANGED <<seen, calls, dm, named, typed, wire>>

\* A mutant of Clear: only the shown copy is emptied.
ClearShown ==
  /\ Moved
  /\ messages' = <<>>
  /\ UNCHANGED <<channel, list, hist, unread, seen, calls, dm, named, typed, wire>>

Clear ==
  /\ Moved
  /\ messages' = <<>> /\ hist' = [hist EXCEPT ![channel] = <<>>]
  /\ UNCHANGED <<channel, list, unread, seen, calls, dm, named, typed, wire>>

\* pushSystem in the active channel
Tell ==
  /\ hist' = R!Put(hist, channel, R!System) /\ messages' = hist'[channel]
  /\ UNCHANGED <<channel, list, unread>>

\* /help, /list, a usage line or an unknown command
Help == Moved /\ Tell /\ UNCHANGED <<seen, calls, dm, named, typed, wire>>

\* /nick, /whoami or /msg: a call to the host, then a line where the user is by then.
\* /msg sends in the clear in any mode; it is not one of the texts below.
Ask ==
  /\ Moved /\ asks + Cardinality(sending) < Sends
  /\ asks' = asks + 1
  /\ UNCHANGED <<room, seen, opening, sending, dm, named, typed, wire>>

Answered ==
  /\ asks > 0 /\ asks' = asks - 1
  /\ named' \in {named, TRUE}
  /\ Tell \/ UNCHANGED room                  \* a failed /whoami or /msg tells nothing here
  /\ UNCHANGED <<seen, opening, sending, dm, typed, wire, moves>>

-----------------------------------------------------------------------------
\* A mutant of Post: the history grows without limit.
PostUncut(t, seal) ==
  /\ hist' = [hist EXCEPT ![channel] = Append(@, R!Own(t))] /\ messages' = hist'[channel]
  /\ wire' = wire \cup {[text |-> t, to |-> channel, seal |-> seal]}
  /\ UNCHANGED <<channel, list, unread>>

\* A mutant of Post: the text goes to where the screen is, and is shown at home.
PostElsewhere(t, seal) ==
  /\ hist' = R!Put(hist, Defaults[1], R!Own(t))
  /\ messages' = hist'[channel]
  /\ wire' = wire \cup {[text |-> t, to |-> channel, seal |-> seal]}
  /\ UNCHANGED <<channel, list, unread>>

\* pushOptimistic and chatSend: both take the channel that is active now.
Post(t, seal) ==
  /\ hist' = R!Put(hist, channel, R!Own(t)) /\ messages' = hist'[channel]
  /\ wire' = wire \cup {[text |-> t, to |-> channel, seal |-> seal]}
  /\ UNCHANGED <<channel, list, unread>>

\* The nick is at hand, or is asked for first.
Sign(t, seal, rest) ==
  IF named THEN Post(t, seal) /\ sending' = rest
  ELSE sending' = rest \cup {[text |-> t, seal |-> seal, step |-> "nick"]} /\ UNCHANGED <<room, wire>>

\* A text is entered; with E2E DM it is sealed first, and without keys or a peer it is
\* refused.  "/me" is a text that is never sealed.
Enter(t, me) ==
  /\ \A x \in typed : x.text # t
  /\ asks + Cardinality(sending) < Sends
  /\ LET seal == IF dmMode /\ ~me THEN peer ELSE None IN
     /\ typed' = typed \cup {[text |-> t, seal |-> seal]}
     /\ IF ~dmMode \/ me THEN Sign(t, None, sending)
        ELSE /\ keys /\ peer # None
             /\ sending' = sending \cup {[text |-> t, seal |-> peer, step |-> "seal"]}
             /\ UNCHANGED <<room, wire>>
  /\ UNCHANGED <<seen, opening, asks, dm, named, moves>>

\* A mutant of Sealed: the mode is looked up again after the await.
SealedByMode(s) ==
  /\ s \in sending /\ s.step = "seal"
  /\ Sign(s.text, IF dmMode THEN peer ELSE None, sending \ {s})
  /\ UNCHANGED <<seen, opening, asks, dm, named, typed, moves>>

\* dm_encrypt has answered.
Sealed(s) ==
  /\ s \in sending /\ s.step = "seal"
  /\ Sign(s.text, s.seal, sending \ {s})
  /\ UNCHANGED <<seen, opening, asks, dm, named, typed, moves>>

\* get_chat_nick has answered.  send does not keep the nick.
Signed(s) ==
  /\ s \in sending /\ s.step = "nick"
  /\ Post(s.text, s.seal) /\ sending' = sending \ {s}
  /\ UNCHANGED <<seen, opening, asks, dm, named, typed, moves>>

\* Either call fails: an error is shown and the text is gone.
Lost(s) ==
  /\ s \in sending /\ sending' = sending \ {s}
  /\ UNCHANGED <<room, seen, opening, asks, dm, named, typed, wire, moves>>

-----------------------------------------------------------------------------
\* The checkbox, the peer's key typed in, and "Generate DM keys"
SetMode == dmMode' = ~dmMode /\ UNCHANGED <<keys, peer, book, kept>>
SetPeer == dmMode /\ peer' \in Whom \ {peer} /\ UNCHANGED <<dmMode, keys, book, kept>>
GenKeys == dmMode /\ ~keys /\ keys' = TRUE /\ UNCHANGED <<dmMode, peer, book, kept>>

\* Every change of the contacts is saved, the first MaxKept of them.
Keep(b) == book' = b /\ kept' = FirstKept(b)

\* upsertDmContact: a known peer keeps its place, a new one comes first
SaveContact ==
  /\ dmMode /\ peer # None
  /\ Keep(IF \E i \in DOMAIN book : book[i] = peer THEN book ELSE <<peer>> \o book)
  /\ UNCHANGED <<dmMode, keys, peer>>

SelectContact(i) ==
  /\ dmMode /\ peer' = book[i] /\ Keep(book)
  /\ UNCHANGED <<dmMode, keys>>

\* A mutant of DeleteContact: the stored copy is forgotten.
DeleteContactShown(i) ==
  /\ dmMode /\ book' = Without(book, book[i])
  /\ UNCHANGED <<dmMode, keys, peer, kept>>

DeleteContact(i) ==
  /\ dmMode /\ Keep(Without(book, book[i]))
  /\ UNCHANGED <<dmMode, keys, peer>>

Dm ==
  /\ \/ SetMode \/ SetPeer \/ GenKeys \/ SaveContact
     \/ \E i \in DOMAIN book : SelectContact(i) \/ DeleteContact(i)
  /\ UNCHANGED <<room, seen, calls, named, typed, wire, moves>>

\* The screen is left and entered again, which makes a new component.  A bound: not
\* while the old one awaits an answer, which it would still act on.
Revisit ==
  /\ Moved /\ opening = {} /\ sending = {} /\ asks = 0
  /\ channel' = Defaults[1] /\ list' = Defaults
  /\ messages' = <<>> /\ hist' = [c \in Channels |-> <<>>]
  /\ unread' = [c \in Channels |-> 0] /\ seen' = {}
  /\ dmMode' = FALSE /\ peer' = None /\ book' = kept
  /\ UNCHANGED <<calls, keys, kept, named, typed, wire>>

Next ==
  \/ \E e \in Events : Ingest(e)
  \/ \E o \in opening : Decrypted(o)
  \/ \E c \in Channels : Switch(c) \/ Join(c)
  \/ Part \/ Clear \/ Help \/ Ask \/ Answered
  \/ \E t \in Texts, me \in BOOLEAN : Enter(t, me)
  \/ \E s \in sending : Sealed(s) \/ Signed(s) \/ Lost(s)
  \/ Dm \/ Revisit

Spec == Init /\ [][Next]_vars

-----------------------------------------------------------------------------
\* The shown messages and the active channel's history are the same lines: the code
\* keeps two arrays and every handler must write both (ingestMessage, loadChannel,
\* pushSystem, pushOptimistic, /clear).
ViewIsHistory == messages = hist[channel]

\* The active channel can be chosen in the list and has nothing unread, and a channel
\* with unread lines is in the list, so that its badge is seen: also one that was
\* left while an event of it was being decrypted (ingestMessage against /part).
UnreadIsReachable ==
  /\ Listed(channel) /\ unread[channel] = 0 /\ Once(list)
  /\ \A c \in Channels : unread[c] > 0 => Listed(c)

\* An event is shown at most once, in its own channel, whatever came between its
\* receipt and its decryption (seenEventIds).
OncePerEvent ==
  \A e \in Events, c \in Channels : \A i \in DOMAIN hist[c] : Shows(hist[c][i], e) =>
    c = ChanOf[e] /\ \A j \in DOMAIN hist[c] : Shows(hist[c][j], e) => i = j

\* A text entered with E2E DM on goes out sealed, and for the peer of that moment, and
\* one entered in the clear is not sealed, whatever is ticked or typed while the
\* calls of send are under way.
SealedAsTyped == \A w \in wire : [text |-> w.text, seal |-> w.seal] \in typed

\* The next visit finds the contacts of this one, up to the limit, and no peer twice.
BookIsKept == kept = FirstKept(book) /\ Once(book)

\* The screen implements the abstract room.
RoomHolds == R!Spec
=============================================================================
