------------------------------- MODULE MCSend -------------------------------
EXTENDS SendFlow

CONSTANTS a, b, m

MCSnaps ==
  {[status |-> "Synced", scanned |-> 1, tip |-> 1, mismatch |-> FALSE],
   [status |-> "Scanning", scanned |-> 1, tip |-> 2, mismatch |-> FALSE],
   [status |-> "Degraded", scanned |-> 2, tip |-> 2, mismatch |-> FALSE]}

One == Numeral(1, <<>>)
Half == Numeral(0, <<5, 0>>)
Zero == Numeral(0, <<0>>)
Cent == Numeral(2, <<0, 1>>)
Fine == Numeral(1, <<0, 0, 1>>)
MCAmounts == {One, Half, Zero, Cent, Fine}

A == Bare(a, TRUE)
MCTexts ==
  {A, Bare(b, FALSE), Uri(A, Half, m), Uri(Uri(A, None, None), One, None), Uri(A, Zero, None)}
=============================================================================
