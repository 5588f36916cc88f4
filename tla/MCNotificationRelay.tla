------------------------ MODULE MCNotificationRelay ------------------------
(* A comment that mentions two people by address, one that mentions nobody,  *)
(* a Matrix message that mentions both by their Matrix ids and, in the short *)
(* run, a mail.  The subject of a token is taken to be the address, a name   *)
(* some applications do use.                                                 *)
EXTENDS HubRelay

CONSTANTS comment, empty, message, mail, alice, bob, aliceMatrix, bobMatrix

MCPayload ==
    [n \in Notice |->
        CASE n = comment -> [source |-> "onlyoffice", emails |-> <<alice, bob>>]
          [] n = empty -> [source |-> "onlyoffice", emails |-> <<>>]
          [] n = message -> [source |-> "matrix", message |-> TRUE, target |-> Nobody,
                             mentions |-> <<aliceMatrix, bobMatrix>>]
          [] n = mail -> [source |-> "grommunio", to |-> bob]]

MCRecipients == [n \in Notice |-> ToSet(Normalize(MCPayload[n]))]

MCOwner == [p \in Person |-> IF p \in {alice, aliceMatrix} THEN "alice" ELSE "bob"]
MCSubject == [u \in User |-> IF u = "alice" THEN alice ELSE bob]
=============================================================================
