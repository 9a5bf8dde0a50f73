--------------------------- MODULE SendFlowProofs ---------------------------
(***************************************************************************)
(* Proofs about SendFlow for every set of texts, amounts and snapshots.    *)
(***************************************************************************)
EXTENDS SendFlow, PaymentProofs

\* A text that applied once more would change an amount
Loaded(t) == IsUri(t) /\ ParsePaymentUri(t) # None /\ t.amount # None

\* No such text is in the field or in the address book: that is what makes
\* ConfirmedIsPaid inductive.
NoneLoaded == \A t \in book \cup {recipient} : ~Loaded(t)

IInv == SendTypeOK /\ BusyIsSending /\ NoneLoaded /\ ConfirmedIsPaid

\* The types, part by part
FieldsTyped ==
  /\ amount \in Amounts \cup {None} /\ memo \in Memos \cup {None}
  /\ \A t \in book \cup {recipient} : t = Empty \/ t \in Texts \cup Within
JobsTyped ==
  \A j \in jobs : /\ j = Job(j.step, j.mine, j.args, j.asked)
                  /\ j.step \in {"called", "gated"} /\ j.mine \in BOOLEAN
ScreenTyped ==
  /\ light \in Snaps /\ sync \in Snaps \cup {None} /\ polls \subseteq Snaps
  /\ shown \in BOOLEAN /\ fee \in BOOLEAN /\ busy \in BOOLEAN
  /\ edits \in 0..Edits
  /\ ~shown => sync = None /\ polls = {} /\ ~busy
-----------------------------------------------------------------------------
LEMMA TypedByParts == SendTypeOK <=> FieldsTyped /\ JobsTyped /\ ScreenTyped
BY Zenon DEF SendTypeOK, FieldsTyped, JobsTyped, ScreenTyped

\* What applying a URI, in the field or coming into it, leaves there
LEMMA Applied ==
  ASSUME NEW t \in Texts \cup Within, IsUri(t), ParsePaymentUri(t) # None
  PROVE  /\ ParsePaymentUri(t) = Payee(t.to, t.amount, t.memo)
         /\ t.to \in Within /\ ~Loaded(t.to)
         /\ t.amount \in Amounts \cup {None} /\ t.memo \in Memos \cup {None}
<1>1. ParsePaymentUri(t) = Payee(t.to, t.amount, t.memo)
  BY DEF ParsePaymentUri
<1>2. t.to \in Within
  BY TextAssumption DEF Within
<1>3. ~Loaded(t.to)
  BY <1>2, TextAssumption DEF Loaded
<1>4. t.amount \in Amounts \cup {None} /\ t.memo \in Memos \cup {None}
  BY TextAssumption
<1>. QED
  BY <1>1, <1>2, <1>3, <1>4

\* The parsed address of anything else is the text itself.
LEMMA NotApplied ==
  ASSUME NEW t, ~(IsUri(t) /\ ParsePaymentUri(t) # None), ParsePaymentUri(t) # None
  PROVE  ParsePaymentUri(t).address = t
BY DEF ParsePaymentUri, Payee

LEMMA EmptyIsBare == ~IsUri(Empty)
BY DEF IsUri, Empty, Bare

\* The fields and the address book
LEMMA FieldStep ==
  ASSUME IInv,
         \/ \E t \in Texts : Fill(t)
         \/ \E t \in book : Choose(t)
         \/ SaveContact
         \/ \E a \in Amounts : SetAmount(a)
         \/ \E m \in Memos : SetMemo(m)
  PROVE  IInv'
<1> USE DEF IInv
<1>1. FieldsTyped /\ JobsTyped /\ ScreenTyped
  BY TypedByParts
<1>2. NoCall /\ Edit /\ fee' = fee
  BY DEF Fill, Choose, SaveContact, SetAmount, SetMemo
<1>3. ScreenTyped' /\ JobsTyped' /\ BusyIsSending' /\ ConfirmedIsPaid'
  <2>1. edits' \in 0..Edits
    BY <1>1, <1>2, EditsAssumption DEF Edit, ScreenTyped
  <2>. QED
    BY <1>1, <1>2, <2>1 DEF NoCall, ScreenTyped, JobsTyped, BusyIsSending, ConfirmedIsPaid
<1>4. FieldsTyped' /\ NoneLoaded'
  <2>1. ASSUME NEW t \in Texts, Fill(t) PROVE FieldsTyped' /\ NoneLoaded'
    <3>1. CASE IsUri(t) /\ ParsePaymentUri(t) # None
      <4>1. /\ recipient' = t.to /\ amount' = Or(t.amount, amount) /\ memo' = Or(t.memo, memo)
            /\ book' = book
        BY <2>1, <3>1, Applied DEF Fill, Payee
      <4>. QED
        BY <1>1, <3>1, <4>1, Applied DEF FieldsTyped, NoneLoaded, Or
    <3>2. CASE ~(IsUri(t) /\ ParsePaymentUri(t) # None)
      BY <1>1, <2>1, <3>2 DEF Fill, FieldsTyped, NoneLoaded, Loaded
    <3>. QED
      BY <3>1, <3>2
  <2>2. CASE (\E t \in book : Choose(t)) \/ SaveContact
    BY <1>1, <2>2 DEF Choose, SaveContact, form, FieldsTyped, NoneLoaded
  <2>3. CASE (\E a \in Amounts : SetAmount(a)) \/ (\E m \in Memos : SetMemo(m))
    BY <1>1, <2>3 DEF SetAmount, SetMemo, FieldsTyped, NoneLoaded
  <2>. QED
    BY <2>1, <2>2, <2>3
<1>. QED
  BY <1>3, <1>4, TypedByParts, PTL

\* The wallet and the poll, and coming in
LEMMA PollStep ==
  ASSUME IInv, Chain \/ EnterSend \/ PollSend \/ Estimate \/ \E s \in polls : PollSendAnswer(s)
  PROVE  IInv'
<1> USE DEF IInv
<1>1. FieldsTyped /\ JobsTyped /\ ScreenTyped
  BY TypedByParts
<1>2. UNCHANGED <<form, book, jobs, busy, edits>>
  BY DEF Chain, EnterSend, PollSend, Estimate, NoCall, PollSendAnswer
<1>3. FieldsTyped' /\ JobsTyped' /\ BusyIsSending' /\ NoneLoaded' /\ ConfirmedIsPaid'
  BY <1>1, <1>2 DEF form, FieldsTyped, JobsTyped, BusyIsSending, NoneLoaded, ConfirmedIsPaid
<1>4. ScreenTyped'
  <2>1. CASE Chain \/ EnterSend
    BY <1>1, <1>2, <2>1 DEF Chain, EnterSend, ScreenTyped
  <2>2. CASE PollSend \/ Estimate
    BY <1>1, <1>2, <2>2 DEF PollSend, Estimate, NoCall, ScreenTyped
  <2>3. CASE \E s \in polls : PollSendAnswer(s)
    BY <1>1, <1>2, <2>3 DEF PollSendAnswer, ScreenTyped
  <2>. QED
    BY <2>1, <2>2, <2>3
<1>. QED
  BY <1>3, <1>4, TypedByParts, PTL

LEMMA LeaveStep ==
  ASSUME IInv, LeaveSend
  PROVE  IInv'
<1> USE DEF IInv
<1>1. FieldsTyped /\ JobsTyped /\ ScreenTyped
  BY TypedByParts
<1>2. ScreenTyped' /\ FieldsTyped' /\ NoneLoaded'
  BY <1>1, EmptyIsBare DEF LeaveSend, ScreenTyped, FieldsTyped, NoneLoaded, Loaded
<1>3. jobs' = {Job(j.step, FALSE, j.args, j.asked) : j \in jobs} /\ busy' = FALSE
  BY DEF LeaveSend
<1>4. JobsTyped' /\ ConfirmedIsPaid' /\ \A k \in jobs' : k.mine = FALSE
  <2> SUFFICES ASSUME NEW k \in jobs'
               PROVE  /\ k = Job(k.step, k.mine, k.args, k.asked) /\ k.step \in {"called", "gated"}
                      /\ k.mine = FALSE /\ k.args = k.asked
    BY DEF JobsTyped, ConfirmedIsPaid
  <2>1. PICK j \in jobs : k = Job(j.step, FALSE, j.args, j.asked)
    BY <1>3
  <2>2. k.step = j.step /\ k.mine = FALSE /\ k.args = j.args /\ k.asked = j.asked
    BY <2>1 DEF Job
  <2>. QED
    BY <1>1, <2>1, <2>2, Zenon DEF JobsTyped, ConfirmedIsPaid
<1>5. BusyIsSending'
  BY <1>3, <1>4 DEF BusyIsSending
<1>. QED
  BY <1>2, <1>4, <1>5, TypedByParts, PTL

LEMMA SendStep ==
  ASSUME IInv, Send
  PROVE  IInv'
<1> USE DEF IInv
<1> DEFINE parsed == ParsePaymentUri(recipient)
           applied == IsUri(recipient) /\ parsed # None
           asked == [to |-> IF parsed = None THEN recipient ELSE parsed.address, amount |-> amount]
           args == [to |-> recipient', amount |-> amount']
           new == Job("called", TRUE, args, asked)
<1>1. FieldsTyped /\ JobsTyped /\ ScreenTyped
  BY TypedByParts
<1>2. /\ shown /\ ~busy /\ busy' = TRUE /\ jobs' = jobs \cup {new}
      /\ recipient' = (IF applied THEN parsed.address ELSE recipient)
      /\ amount' = (IF applied THEN Or(parsed.amount, amount) ELSE amount)
      /\ memo' = (IF applied THEN Or(parsed.memo, memo) ELSE memo)
      /\ UNCHANGED <<light, shown, sync, polls, fee, book, edits>>
  BY DEF Send
<1>3. /\ FieldsTyped' /\ NoneLoaded' /\ amount' = amount
      /\ recipient' = IF parsed = None THEN recipient ELSE parsed.address
  <2>1. CASE applied
    <3>1. recipient \in Texts \cup Within
      BY <1>1, <2>1, EmptyIsBare DEF FieldsTyped
    <3>2. /\ parsed = Payee(recipient.to, recipient.amount, recipient.memo)
          /\ recipient.to \in Within /\ ~Loaded(recipient.to)
          /\ recipient.memo \in Memos \cup {None}
      BY <2>1, <3>1, Applied
    <3>3. recipient.amount = None
      BY <2>1 DEF NoneLoaded, Loaded
    <3>4. recipient' = recipient.to /\ amount' = amount /\ memo' = Or(recipient.memo, memo)
      BY <1>2, <2>1, <3>2, <3>3 DEF Payee, Or
    <3>. QED
      BY <1>1, <1>2, <2>1, <3>2, <3>4 DEF FieldsTyped, NoneLoaded, Or
  <2>2. CASE ~applied
    <3>1. recipient' = recipient /\ amount' = amount /\ memo' = memo
      BY <1>2, <2>2
    <3>2. recipient' = IF parsed = None THEN recipient ELSE parsed.address
      BY <2>2, <3>1, NotApplied
    <3>. QED
      BY <1>1, <1>2, <3>1, <3>2 DEF FieldsTyped, NoneLoaded
  <2>. QED
    BY <2>1, <2>2
<1>4. new.args = new.asked /\ new.mine = TRUE /\ new.step = "called"
      /\ new = Job(new.step, new.mine, new.args, new.asked)
  BY <1>3 DEF Job
<1> HIDE DEF new
<1>5. ScreenTyped' /\ JobsTyped' /\ ConfirmedIsPaid'
  BY <1>1, <1>2, <1>4 DEF ScreenTyped, JobsTyped, ConfirmedIsPaid
<1>6. BusyIsSending'
  BY <1>2, <1>4 DEF BusyIsSending
<1>. QED
  BY <1>3, <1>5, <1>6, TypedByParts, PTL

\* The runs of send_drk
LEMMA JobStep ==
  ASSUME IInv, NEW j \in jobs, Refuse(j) \/ Gate(j) \/ Broadcast(j)
  PROVE  IInv'
<1> USE DEF IInv
<1>1. FieldsTyped /\ JobsTyped /\ ScreenTyped
  BY TypedByParts
<1>2. UNCHANGED <<light, shown, sync, polls, form, fee, book, edits>>
  BY DEF Refuse, Gate, Broadcast
<1>3. FieldsTyped' /\ NoneLoaded'
  BY <1>1, <1>2 DEF form, FieldsTyped, NoneLoaded
<1>4. CASE EndJob(j)
  <2>1. jobs' = jobs \ {j} /\ busy' = (busy /\ ~j.mine)
    BY <1>4 DEF EndJob
  <2>2. busy' \in BOOLEAN /\ (busy' <=> busy /\ ~j.mine)
    BY <2>1
  <2>3. BusyIsSending'
    BY <2>1, <2>2, Zenon DEF BusyIsSending
  <2>4. ScreenTyped'
    BY <1>1, <1>2, <2>2 DEF ScreenTyped
  <2>5. JobsTyped' /\ ConfirmedIsPaid'
    BY <1>1, <2>1 DEF JobsTyped, ConfirmedIsPaid
  <2>. QED
    BY <1>3, <2>3, <2>4, <2>5, TypedByParts, PTL
<1>5. CASE Gate(j)
  <2> DEFINE new == [j EXCEPT !.step = "gated"]
  <2>1. new = Job("gated", j.mine, j.args, j.asked)
    BY <1>1 DEF JobsTyped, Job
  <2>2. /\ new.mine = j.mine /\ new.args = j.args /\ new.asked = j.asked /\ new.step = "gated"
        /\ new = Job(new.step, new.mine, new.args, new.asked)
    BY <2>1 DEF Job
  <2>3. jobs' = (jobs \ {j}) \cup {new} /\ busy' = busy
    BY <1>5 DEF Gate
  <2> HIDE DEF new
  <2>4. JobsTyped' /\ ConfirmedIsPaid' /\ ScreenTyped'
    BY <1>1, <1>2, <2>2, <2>3 DEF JobsTyped, ConfirmedIsPaid, ScreenTyped
  <2>5. BusyIsSending'
    BY <2>2, <2>3 DEF BusyIsSending
  <2>. QED
    BY <1>3, <2>4, <2>5, TypedByParts, PTL
<1>. QED
  BY <1>4, <1>5 DEF Refuse, Broadcast

-----------------------------------------------------------------------------
LEMMA SendInitOK == SendInit => IInv
<1> SUFFICES ASSUME SendInit PROVE IInv
  OBVIOUS
<1>1. FieldsTyped /\ JobsTyped /\ ScreenTyped
  <2>1. FieldsTyped /\ JobsTyped
    BY DEF SendInit, FieldsTyped, JobsTyped
  <2>2. edits \in 0..Edits
    BY EditsAssumption DEF SendInit
  <2>3. ScreenTyped
    BY <2>2 DEF SendInit, ScreenTyped
  <2>. QED
    BY <2>1, <2>3
<1>2. NoneLoaded
  BY EmptyIsBare DEF SendInit, NoneLoaded, Loaded
<1>3. BusyIsSending /\ ConfirmedIsPaid
  BY DEF SendInit, BusyIsSending, ConfirmedIsPaid
<1>. QED
  BY <1>1, <1>2, <1>3, TypedByParts DEF IInv

LEMMA SendNextOK == IInv /\ [SendNext]_sendVars => IInv'
<1> SUFFICES ASSUME IInv, [SendNext]_sendVars PROVE IInv'
  OBVIOUS
<1>1. CASE SendNext
  BY <1>1, FieldStep, PollStep, LeaveStep, SendStep, JobStep DEF SendNext
<1>2. CASE UNCHANGED sendVars
  BY <1>2 DEF sendVars, form, IInv, SendTypeOK, BusyIsSending, NoneLoaded, ConfirmedIsPaid
<1>. QED
  BY <1>1, <1>2

\* The types of the send screen, which holds nothing of a visit that is over.
THEOREM SendTypeCorrect == SendSpec => []SendTypeOK
<1>1. IInv => SendTypeOK
  BY DEF IInv
<1>. QED
  BY <1>1, SendInitOK, SendNextOK, PTL DEF SendSpec

\* What is paid is what was confirmed, whatever texts come into the field, in whatever
\* order, and whatever the address book holds.
THEOREM SendConfirmedIsPaid == SendSpec => []ConfirmedIsPaid
<1>1. IInv => ConfirmedIsPaid
  BY DEF IInv
<1>. QED
  BY <1>1, SendInitOK, SendNextOK, PTL DEF SendSpec

\* The button is busy exactly while this screen's send is under way.
THEOREM SendBusyIsSending == SendSpec => []BusyIsSending
<1>1. IInv => BusyIsSending
  BY DEF IInv
<1>. QED
  BY <1>1, SendInitOK, SendNextOK, PTL DEF SendSpec

\* Whatever the number of decimals, an accepted amount is worth exactly what its digits
\* say: parseDrkAtomic and formatDrkAtomic lose nothing but trailing zeros.
THEOREM AmountExact == SendSpec => []AmountIsExact
<1>1. SendTypeOK => AmountIsExact
  <2> SUFFICES ASSUME SendTypeOK, IsValidDrkAmount(amount) PROVE AmountIsExact
    BY DEF AmountIsExact
  <2>1. amount \in Amounts /\ amount # None
    BY DEF SendTypeOK, IsValidDrkAmount, ParseDrkAtomic
  <2>. QED
    BY <2>1, AmountAssumption, ParseFormat DEF AmountIsExact
<1>. QED
  BY <1>1, SendTypeCorrect, PTL
=============================================================================
