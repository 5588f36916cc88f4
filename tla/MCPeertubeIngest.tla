-------------------------- MODULE MCPeertubeIngest --------------------------
(* A period of three hours, a drift of one and a window of four stand for   *)
(* 24, at most one, and 25: the window is the period and the drift, and     *)
(* less than two periods less the drift.                                    *)
EXTENDS PeertubeIngest

CONSTANTS r1, r2, s1, txt
=============================================================================
