------------------------------- MODULE MCDesk --------------------------------
(* Two networks, their endpoints and one of the user's own, two slider positions,
   two nicks, two seeds, two DAOs. *)
EXTENDS Desk, TLC

CONSTANTS test, main, lwdTest, lwdMain, lwdOwn, n1, n2

MCLwdOf == (test :> lwdTest) @@ (main :> lwdMain)
MCDefault == [net |-> test, lwd |-> lwdTest, threads |-> 1, nick |-> n1]
MCTours == {{"settings", "mine", "chat"}, {"wallet", "dao"}, {"wallet", "transfer"}}
MCSnaps ==
  {[status |-> "Synced", scanned |-> 1, tip |-> 1, mismatch |-> FALSE],
   [status |-> "Scanning", scanned |-> 1, tip |-> 2, mismatch |-> FALSE]}
=============================================================================
