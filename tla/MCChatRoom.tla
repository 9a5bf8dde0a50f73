----------------------------- MODULE MCChatRoom -----------------------------
(* Three channels, one of them unknown at first; a public event and a sealed one in
   the other two.  Two peers, one text. *)
EXTENDS ChatRoom, TLC

CONSTANTS home, other, new, public, sealed, p1, p2, t1

MCDefaults == <<home, other>>
MCChanOf == (public :> new) @@ (sealed :> other)
MCSealedWith == (public :> None) @@ (sealed :> p1)
=============================================================================
