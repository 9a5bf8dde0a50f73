------------------------------ MODULE SendFlow ------------------------------
(***************************************************************************)
(* The send screen (send-flow.ts) and the host commands it calls           *)
(* (wallet_light_sync, send_drk, estimate_fee and the address book).       *)
(*                                                                         *)
(* The screen is a component that comes and goes with its tab.  Its poll   *)
(* asks every four seconds whether or not earlier answers have come, so    *)
(* that they can come in another order.  send_drk runs on a worker thread  *)
(* of the host and goes on when the screen is left.  The chain wallet is   *)
(* external: it reports whatever snapshot it likes.                        *)
(***************************************************************************)
EXTENDS Payment, FiniteSets

CONSTANTS
  Snaps,            \* what the wallet may report
  Texts, Amounts, Memos,  \* what may be put into the three fields
  Edits,            \* how often the user changes a field: a bound
  MaxSends,         \* sends under way: a bound
  MaxPolls          \* polls without an answer: a bound

\* What stands inside a URI was cut off before its question mark.
Within == {t.to : t \in {u \in Texts : IsUri(u)}}
ASSUME TextAssumption ==
  /\ \A t \in Texts : IsUri(t) => t.amount \in Amounts \cup {None} /\ t.memo \in Memos \cup {None}
  /\ \A t \in Within : IsUri(t) => t.amount = None /\ t.memo = None /\ t.to \in Within
\* An amount that is no numeral at all, or none, is None.
ASSUME AmountAssumption == Amounts \subseteq Numerals /\ None \notin Numerals
ASSUME EditsAssumption == Edits \in Nat

VARIABLES
  light,      \* the wallet's light-sync state, as of now
  shown,      \* whether the screen is mounted
  sync,       \* the snapshot it has
  polls,      \* snapshots the host answered that have not arrived
  recipient, amount, memo,   \* the fields
  fee,        \* whether a fee is shown
  busy,       \* whether the Send button says so
  book,       \* the addresses in the address book
  jobs,       \* the runs of send_drk
  edits

form == <<recipient, amount, memo>>
sendVars == <<light, shown, sync, polls, form, fee, busy, book, jobs, edits>>

\* Where a run is, whether the component that called it is still there, what it is to
\* send and what the user was asked to confirm
Job(step, mine, args, asked) == [step |-> step, mine |-> mine, args |-> args, asked |-> asked]

Empty == Bare(None, FALSE)

SendInit ==
  /\ light \in Snaps
  /\ shown = FALSE /\ sync = None /\ polls = {}
  /\ recipient = Empty /\ amount = None /\ memo = None
  /\ fee = FALSE /\ busy = FALSE
  /\ book = {} /\ jobs = {} /\ edits = 0

-----------------------------------------------------------------------------
\* The chain moves, the scan proceeds, a reorg rewinds it.
Chain ==
  /\ light' \in Snaps \ {light}
  /\ UNCHANGED <<shown, sync, polls, form, fee, busy, book, jobs, edits>>

\* connectedCallback; the first poll comes with it.
EnterSend ==
  /\ ~shown /\ shown' = TRUE
  /\ polls' = {light}
  /\ UNCHANGED <<light, sync, form, fee, busy, book, jobs, edits>>

\* A mutant of LeaveSend: the old screen's answers still reach the page.
LeaveSendPolling ==
  /\ shown /\ shown' = FALSE
  /\ sync' = None /\ recipient' = Empty /\ amount' = None /\ memo' = None
  /\ fee' = FALSE /\ busy' = FALSE
  /\ jobs' = {Job(j.step, FALSE, j.args, j.asked) : j \in jobs}
  /\ UNCHANGED <<light, polls, book, edits>>

\* disconnectedCallback ends the poll; whatever else was going on, nobody waits for.
LeaveSend ==
  /\ shown /\ shown' = FALSE
  /\ sync' = None /\ polls' = {}
  /\ recipient' = Empty /\ amount' = None /\ memo' = None
  /\ fee' = FALSE /\ busy' = FALSE
  /\ jobs' = {Job(j.step, FALSE, j.args, j.asked) : j \in jobs}
  /\ UNCHANGED <<light, book, edits>>

PollSend ==
  /\ shown /\ Cardinality(polls) < MaxPolls
  /\ polls' = polls \cup {light}
  /\ UNCHANGED <<light, shown, sync, form, fee, busy, book, jobs, edits>>

\* A mutant of PollSendAnswer: what is caught up once stays so.
PollSendOnce(s) ==
  /\ s \in polls /\ polls' = polls \ {s}
  /\ sync' = IF SpendReady(sync) THEN sync ELSE s
  /\ UNCHANGED <<light, shown, form, fee, busy, book, jobs, edits>>

PollSendAnswer(s) ==
  /\ s \in polls /\ polls' = polls \ {s}
  /\ sync' = s
  /\ UNCHANGED <<light, shown, form, fee, busy, book, jobs, edits>>

-----------------------------------------------------------------------------
Edit == shown /\ edits < Edits /\ edits' = edits + 1
NoCall == UNCHANGED <<light, shown, sync, polls, busy, jobs>>

Or(new, old) == IF new = None THEN old ELSE new

\* A mutant of Fill: a URI is left in the field as it is.
FillRaw(t) ==
  /\ Edit
  /\ recipient' = t
  /\ UNCHANGED <<amount, memo, fee, book>> /\ NoCall

\* onRecipientInput, onRecipientPaste and onQrFile: a URI that parses is taken apart,
\* and what it does not say stays as it was; anything else goes in as it is.
Fill(t) ==
  /\ Edit
  /\ LET parsed == ParsePaymentUri(t) IN
     IF IsUri(t) /\ parsed # None
     THEN /\ recipient' = parsed.address
          /\ amount' = Or(parsed.amount, amount) /\ memo' = Or(parsed.memo, memo)
     ELSE recipient' = t /\ UNCHANGED <<amount, memo>>
  /\ UNCHANGED <<fee, book>> /\ NoCall

\* The select of contacts, and "Save": the address goes as it stands, parsed or not.
Choose(t) ==
  /\ Edit /\ t \in book /\ recipient' = t
  /\ UNCHANGED <<amount, memo, fee, book>> /\ NoCall

SaveContact ==
  /\ Edit /\ recipient # Empty /\ book' = book \cup {recipient}
  /\ UNCHANGED <<form, fee>> /\ NoCall

SetAmount(a) == Edit /\ amount' = a /\ UNCHANGED <<recipient, memo, fee, book>> /\ NoCall
SetMemo(m)   == Edit /\ memo' = m /\ UNCHANGED <<recipient, amount, fee, book>> /\ NoCall

\* estimate: both gates; a fee once shown stays, whatever the fields become.
Estimate ==
  /\ shown /\ ~busy /\ SpendReady(sync) /\ IsValidDrkAmount(amount)
  /\ SpendReady(light) /\ fee' = TRUE
  /\ UNCHANGED <<form, book, edits>> /\ NoCall

-----------------------------------------------------------------------------
\* send up to its await.  The user is asked about the parsed address and the amount in
\* the field; then the text is parsed again, and a URI in it is applied to the form.
Send ==
  /\ shown /\ ~busy /\ SpendReady(sync) /\ IsValidDrkAmount(amount)
  /\ Cardinality(jobs) < MaxSends
  /\ LET parsed == ParsePaymentUri(recipient)
         applied == IsUri(recipient) /\ parsed # None
         asked == [to |-> IF parsed = None THEN recipient ELSE parsed.address, amount |-> amount] IN
     /\ recipient' = IF applied THEN parsed.address ELSE recipient
     /\ amount' = IF applied THEN Or(parsed.amount, amount) ELSE amount
     /\ memo' = IF applied THEN Or(parsed.memo, memo) ELSE memo
     /\ jobs' = jobs \cup {Job("called", TRUE, [to |-> recipient', amount |-> amount'], asked)}
  /\ busy' = TRUE
  /\ UNCHANGED <<light, shown, sync, polls, fee, book, edits>>

\* Only the caller's component, if it is still there, learns of the end.
EndJob(j) ==
  /\ jobs' = jobs \ {j}
  /\ busy' = (busy /\ ~j.mine)

\* A mutant of Refuse: a refusal leaves the button as it is.
RefuseBusy(j) ==
  /\ j \in jobs /\ jobs' = jobs \ {j}
  /\ (j.step = "called" => ~SpendReady(light))
  /\ UNCHANGED <<light, shown, sync, polls, form, fee, busy, book, edits>>

\* reject_until_spend_ready refuses, or the build or the broadcast fails.
Refuse(j) ==
  /\ j \in jobs /\ EndJob(j)
  /\ (j.step = "called" => ~SpendReady(light))
  /\ UNCHANGED <<light, shown, sync, polls, form, fee, book, edits>>

Gate(j) ==
  /\ j \in jobs /\ j.step = "called" /\ SpendReady(light)
  /\ jobs' = (jobs \ {j}) \cup {[j EXCEPT !.step = "gated"]}
  /\ UNCHANGED <<light, shown, sync, polls, form, fee, busy, book, edits>>

\* build_transfer and broadcast_transfer, by then with the chain as it may be
Broadcast(j) ==
  /\ j \in jobs /\ j.step = "gated" /\ EndJob(j)
  /\ UNCHANGED <<light, shown, sync, polls, form, fee, book, edits>>

SendNext ==
  \/ Chain \/ EnterSend \/ LeaveSend \/ PollSend
  \/ \E s \in polls : PollSendAnswer(s)
  \/ \E t \in Texts : Fill(t)
  \/ \E t \in book : Choose(t)
  \/ SaveContact
  \/ \E a \in Amounts : SetAmount(a)
  \/ \E m \in Memos : SetMemo(m)
  \/ Estimate \/ Send
  \/ \E j \in jobs : Refuse(j) \/ Gate(j) \/ Broadcast(j)

\* The interval ticks, and wallet_light_sync, which cannot fail while the wallet is
\* open, answers every call.
SendFairness == WF_sendVars(PollSend) /\ \A s \in Snaps : WF_sendVars(PollSendAnswer(s))
SendSpec == SendInit /\ [][SendNext]_sendVars
SendFairSpec == SendSpec /\ SendFairness

-----------------------------------------------------------------------------
SendTypeOK ==
  /\ light \in Snaps /\ sync \in Snaps \cup {None} /\ polls \subseteq Snaps
  /\ {shown, fee, busy} \subseteq BOOLEAN
  /\ amount \in Amounts \cup {None} /\ memo \in Memos \cup {None}
  /\ \A t \in book \cup {recipient} : t = Empty \/ t \in Texts \cup Within
  /\ \A j \in jobs : /\ j = Job(j.step, j.mine, j.args, j.asked)
                    /\ j.step \in {"called", "gated"} /\ j.mine \in BOOLEAN
  /\ edits \in 0..Edits
  /\ ~shown => sync = None /\ polls = {} /\ ~busy

\* What send_drk is to pay is the payee and the amount the user was asked to confirm, although
\* the text in the field is parsed once for the question and once more for the call:
\* no way into the field leaves a URI there that would change the amount.
ConfirmedIsPaid == \A j \in jobs : j.args = j.asked

\* The button is busy exactly while this screen's send is under way: it is never stuck,
\* and a second click pays nothing twice.  (A screen that was left and entered again
\* knows nothing of its predecessor's send.)
BusyIsSending ==
  /\ busy <=> \E j \in jobs : j.mine
  /\ \A i, j \in jobs : i.mine /\ j.mine => i = j

\* An amount that is accepted is the number it writes: formatting the units gives the
\* same numeral back, without its trailing zeros.  It exceeds the supply, which the parser
\* compares with the whole part alone, by less than one coin.
AmountIsExact ==
  IsValidDrkAmount(amount) =>
    LET n == ParseDrkAtomic(amount)
        f == FormatDrkAtomic(n) IN
    /\ ParseDrkAtomic(f) = n
    /\ f.whole = amount.whole /\ Len(f.frac) <= Len(amount.frac)
    /\ \A i \in DOMAIN amount.frac :
         amount.frac[i] = IF i <= Len(f.frac) THEN f.frac[i] ELSE 0
    /\ n < (MaxWhole + 1) * Unit

\* A wallet that comes to rest is seen as it is, so that Send comes on once it is caught
\* up and goes off when it is not: no earlier answer that comes late is the last word.
SnapshotSettles ==
  \A s \in Snaps : <>[](shown /\ light = s) => <>[](sync = s)
=============================================================================
