-------------------------- MODULE MCFilelinkGokapi --------------------------
(* Two accounts whose attachments have the same id, and two instances, so   *)
(* that a configuration can change between an upload and its deletion.      *)
EXTENDS FilelinkGokapi

CONSTANTS work, home, depot, other
=============================================================================
