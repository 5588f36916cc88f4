SPECIFICATION Spec
CONSTANTS
    comment = comment
    empty = empty
    message = message
    mail = mail
    alice = alice
    bob = bob
    aliceMatrix = aliceMatrix
    bobMatrix = bobMatrix
    Nobody = Nobody
    Mention = {comment, empty}
    Webhook = {message, mail}
    Person = {alice, bob, aliceMatrix, bobMatrix}
    Name = {alice, bob, aliceMatrix, bobMatrix}
    User = {"alice", "bob"}
    Recipients <- MCRecipients
    Payload <- MCPayload
    Owner <- MCOwner
    Subject <- MCSubject
    MaxAttempts = 2
    MaxFaults = 2
CHECK_DEADLOCK FALSE
INVARIANT BellIsFed
