------------------------------- MODULE Receive -------------------------------
(***************************************************************************)
(* The transfer tab (transfer-flow.ts) and its receive half                *)
(* (receive-flow.ts); the send half is SendFlow.  The page shows an        *)
(* address and, in a second step, its QR code.  The host's answers come in *)
(* any order.  The QR library is external: it encodes in the order asked,  *)
(* and can fail.                                                           *)
(***************************************************************************)
EXTENDS Shell, Sequences

CONSTANTS Addresses,
          MaxAsks  \* addresses asked for or being encoded, at a time: a bound

Halves == [side : {"send", "receive"}, address : Addresses \cup {None},
           qr : Addresses \cup {None}, encoding : Seq(Addresses), asks : 0..MaxAsks,
           error : BOOLEAN]
ASSUME ReceiveAssumption == MaxAsks \in Nat \ {0} /\ None \notin Halves

VARIABLE transfer   \* the half that is shown, and the receive half's state

Half(side) ==
  [side |-> side, address |-> None, qr |-> None, encoding |-> <<>>,
   asks |-> IF side = "receive" THEN 1 ELSE 0, error |-> FALSE]

\* initialTab is the last one asked for on the wallet screen.
TransferAt(t, side) == IF t = "transfer" THEN Half(side) ELSE None

Choose(side) ==
  /\ At("transfer") /\ transfer.side # side
  /\ transfer' = Half(side)
  /\ UNCHANGED shellVars

OnReceive == At("transfer") /\ transfer.side = "receive"

\* newAddr: clears the error and asks, beside whatever is asked already
NewAddr ==
  /\ OnReceive /\ transfer.asks + Len(transfer.encoding) < MaxAsks
  /\ transfer' = [transfer EXCEPT !.asks = @ + 1, !.error = FALSE]
  /\ UNCHANGED shellVars

\* walletAddress or generateAddress has answered, with an address or an error.  The
\* address is shown before its code is encoded.
Answered(a) ==
  /\ OnReceive /\ transfer.asks > 0
  /\ transfer' =
       IF a = None THEN [transfer EXCEPT !.asks = @ - 1, !.error = TRUE]
       ELSE [transfer EXCEPT !.asks = @ - 1, !.address = a, !.encoding = Append(@, a)]
  /\ UNCHANGED shellVars

\* A mutant of Encoded: an error of toDataURL is swallowed.
EncodedSilently ==
  /\ OnReceive /\ transfer.encoding # <<>>
  /\ \E code \in {Head(transfer.encoding), transfer.qr} :
       transfer' = [transfer EXCEPT !.qr = code, !.encoding = Tail(@)]
  /\ UNCHANGED shellVars

\* toDataURL has answered.  On an error the code of an earlier address stays.
Encoded ==
  /\ OnReceive /\ transfer.encoding # <<>>
  /\ \/ transfer' = [transfer EXCEPT !.qr = Head(transfer.encoding), !.encoding = Tail(@)]
     \/ transfer' = [transfer EXCEPT !.error = TRUE, !.encoding = Tail(@)]
  /\ UNCHANGED shellVars

TransferNext ==
  \/ \E s \in {"send", "receive"} : Choose(s)
  \/ NewAddr \/ Encoded
  \/ \E a \in Addresses \cup {None} : Answered(a)

TransferTypeOK ==
  /\ (transfer = None) = ~At("transfer")
  /\ transfer \in Halves \cup {None}

\* Once every request is over, the code that is scanned pays the address that is read, or
\* the page shows an error: in whatever order overlapping requests were answered, whichever
\* of them or of their encodings failed, and although a new request clears the error of an
\* earlier one, whose address has no code.
QrMatchesAddress ==
  transfer # None /\ transfer.asks = 0 /\ transfer.encoding = <<>> =>
    transfer.qr = transfer.address \/ transfer.error
=============================================================================
