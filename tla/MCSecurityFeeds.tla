--------------------------- MODULE MCSecurityFeeds ---------------------------
(* A feed with two entries, of which the .cfg says which have a date, and      *)
(* another feed with one.                                                      *)
EXTENDS SecurityFeeds

CONSTANTS first, second, other

MCEntry == {first, second, other}
MCFeedOf == [e \in MCEntry |-> IF e = other THEN 2 ELSE 1]
=============================================================================
