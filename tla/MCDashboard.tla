---------------------------- MODULE MCDashboard ----------------------------
(* Three components, the middle one without a feed, and two versions; the   *)
(* releases have one of them, written in another way, or an empty title.     *)
EXTENDS Dashboard

MCOrder == <<"caddy", "grommunio", "synapse">>
MCPlain == [t \in Title \cup {"1", "2"} |-> IF t = "" THEN 0 ELSE IF t = "2" THEN 2 ELSE 1]
MCCurrent == [c \in Component |-> IF c = "caddy" THEN "2" ELSE "1"]
=============================================================================
