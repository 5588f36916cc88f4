------------------------------ MODULE MCBanner ------------------------------
(* Two queries and three searches, so that an answer can come after that of *)
(* a later search, and after the box was emptied and refilled; two polls of *)
(* each display, which can cross.                                           *)
EXTENDS Banner

CONSTANTS q1, q2
=============================================================================
