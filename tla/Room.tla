-------------------------------- MODULE Room --------------------------------
(***************************************************************************)
(* What the chat screen promises of its channels (chat-screen.ts).  Each   *)
(* channel has one log, the user reads one channel, the others count what  *)
(* came in meanwhile.  An event is logged once, in its own channel; a text *)
(* that is handed to the daemon for a channel is logged in that channel in *)
(* the same step; a line goes only by age, or when the user clears or      *)
(* leaves the channel or the screen.                                       *)
(***************************************************************************)
EXTENDS Naturals, Sequences

CONSTANTS Channels, Home, Events, ChanOf, Texts, Cap, None

VARIABLES
  log,      \* log[c]: the last Cap lines of channel c
  reading,  \* the channel that is shown
  news,     \* news[c]: how many lines came in since c was last read
  arrived,  \* the events logged so far
  handed    \* the texts given to the daemon, each with its channel

vars == <<log, reading, news, arrived, handed>>

System    == [kind |-> "system", what |-> None]
Own(t)    == [kind |-> "own", what |-> t]
Raw(e)    == [kind |-> "raw", what |-> e]
Plain(e)  == [kind |-> "plain", what |-> e]

\* The last Cap lines of s
Newest(s) == IF Len(s) > Cap THEN SubSeq(s, Len(s) - Cap + 1, Len(s)) ELSE s
Put(h, c, line) == [h EXCEPT ![c] = Newest(Append(@, line))]

Init ==
  /\ log = [c \in Channels |-> <<>>]
  /\ reading = Home
  /\ news = [c \in Channels |-> 0]
  /\ arrived = {} /\ handed = {}

Arrive(e) ==
  /\ e \notin arrived /\ arrived' = arrived \cup {e}
  /\ \E line \in {Raw(e), Plain(e)} : log' = Put(log, ChanOf[e], line)
  /\ news' = IF ChanOf[e] = reading THEN news ELSE [news EXCEPT ![ChanOf[e]] = @ + 1]
  /\ UNCHANGED <<reading, handed>>

Say(t) ==
  /\ log' = Put(log, reading, Own(t))
  /\ handed' = handed \cup {[text |-> t, to |-> reading]}
  /\ UNCHANGED <<reading, news, arrived>>

\* From here on c is read, and says so or not.
Read(h, c) ==
  /\ reading' = c
  /\ news' = [news EXCEPT ![c] = 0]
  /\ log' \in {h, Put(h, c, System)}
  /\ UNCHANGED <<arrived, handed>>

Forgotten == [log EXCEPT ![reading] = <<>>]

Clear == log' = Forgotten /\ UNCHANGED <<reading, news, arrived, handed>>
Note  == log' = Put(log, reading, System) /\ UNCHANGED <<reading, news, arrived, handed>>

\* The screen is left; the next one starts empty.
Leave ==
  /\ log' = [c \in Channels |-> <<>>]
  /\ reading' = Home
  /\ news' = [c \in Channels |-> 0]
  /\ arrived' = {}
  /\ UNCHANGED handed

Next ==
  \/ \E e \in Events : Arrive(e)
  \/ \E t \in Texts : Say(t)
  \/ \E c \in Channels : Read(log, c) \/ Read(Forgotten, c)
  \/ Clear \/ Note \/ Leave
Spec == Init /\ [][Next]_vars
=============================================================================
