-------------------------- MODULE MCUnifiedSearch --------------------------
(* One web source and the mail source tell all the cases apart; a second    *)
(* web source adds the interleavings.                                       *)
EXTENDS UnifiedSearch

CONSTANTS matrix, seafile, grommunio
=============================================================================
