------------------------------ MODULE Payment -------------------------------
(***************************************************************************)
(* Amounts and payment URIs (amount.ts, payment-uri.ts) and the gate on    *)
(* spending that page and host both have (spendReady, spend_ready).        *)
(*                                                                         *)
(* An amount as typed is a numeral: the value of the digits before the     *)
(* point and the digits behind it.  What is no numeral at all is None.     *)
(* A text in the recipient field is a bare address or a drk: URI; what a   *)
(* URI stands around can be a bare address or a URI without a query, since *)
(* the parser cuts at the first question mark and looks no deeper.         *)
(***************************************************************************)
EXTENDS Naturals, Sequences

CONSTANTS
  Decimals,   \* 8 in the code
  MaxWhole,   \* 21 million in the code
  None

ASSUME PaymentAssumption == Decimals \in Nat /\ MaxWhole \in Nat

Pow10[n \in Nat] == IF n = 0 THEN 1 ELSE 10 * Pow10[n - 1]
Unit == Pow10[Decimals]

Numeral(w, f) == [whole |-> w, frac |-> f]
Numerals == [whole : Nat, frac : Seq(0..9)]

\* The number that a sequence of digits writes
Written(digits) ==
  LET upTo[n \in 0..Len(digits)] == IF n = 0 THEN 0 ELSE 10 * upTo[n - 1] + digits[n]
  IN upTo[Len(digits)]

\* The zeros put behind a fraction, up to the last decimal
Padded(digits) == digits \o [i \in 1..Decimals - Len(digits) |-> 0]

\* A mutant of ParseDrkAtomic: the fraction is read without its padding.
ParseUnpadded(t) ==
  IF t = None \/ Len(t.frac) > Decimals \/ t.whole > MaxWhole THEN None
  ELSE LET n == t.whole * Unit + Written(t.frac) IN IF n = 0 THEN None ELSE n

\* parseDrkAtomic: the amount in atomic units, None if it is refused.  The limit is on
\* the whole part alone.
ParseDrkAtomic(t) ==
  IF t = None \/ Len(t.frac) > Decimals \/ t.whole > MaxWhole THEN None
  ELSE LET n == t.whole * Unit + Written(Padded(t.frac))
       IN IF n = 0 THEN None ELSE n

IsValidDrkAmount(t) == ParseDrkAtomic(t) # None

\* formatDrkAtomic, for what is not negative: no zero ends the fraction
FormatDrkAtomic(n) ==
  LET digits == [i \in 1..Decimals |-> (n % Unit) \div Pow10[Decimals - i] % 10]
      last   == CHOOSE k \in 0..Decimals :
                  (k > 0 => digits[k] # 0) /\ \A i \in k + 1..Decimals : digits[i] = 0
  IN Numeral(n \div Unit, SubSeq(digits, 1, last))

-----------------------------------------------------------------------------
\* A name of sixteen characters or more passes for an address.
Bare(name, long) == [form |-> "bare", name |-> name, long |-> long]
Uri(text, amount, memo) == [form |-> "uri", to |-> text, amount |-> amount, memo |-> memo]
IsUri(t) == t.form = "uri"

Payee(t, amount, memo) == [address |-> t, amount |-> amount, memo |-> memo]

\* parsePaymentUri, which applyRecipientPaste passes on.  An invalid amount spoils the
\* URI, a memo that cannot be decoded is no memo.
ParsePaymentUri(t) ==
  IF IsUri(t)
  THEN IF t.amount # None /\ ~IsValidDrkAmount(t.amount) THEN None
       ELSE Payee(t.to, t.amount, t.memo)
  ELSE IF t.long THEN Payee(t, None, None) ELSE None

-----------------------------------------------------------------------------
\* spendReady on the page, spend_ready in the host
SpendReady(snap) ==
  /\ snap # None /\ ~snap.mismatch
  /\ snap.tip > 0 /\ snap.scanned >= snap.tip
  /\ snap.status \in {"Synced", "Degraded"}
=============================================================================
