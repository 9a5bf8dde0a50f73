------------------------------ MODULE MCChatLink ------------------------------
(* Instances of ChatLink for TLC.                                          *)
EXTENDS ChatLink
=============================================================================
