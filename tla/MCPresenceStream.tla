-------------------------- MODULE MCPresenceStream --------------------------
(* Two users, so that one's failures can be told from the other's, and two  *)
(* rooms, the least that a listing can be caught between.                   *)
EXTENDS PresenceStream

CONSTANTS alice, bob, r1, r2

MCAgenda == {<<"busy soon">>, <<"tentative">>}
=============================================================================
