------------------------------ MODULE HubRelay ------------------------------
(***************************************************************************)
(* The hub from the application's event to the user's bell: the recipients *)
(* of NotificationRelay are those normalize.py finds in the payloads, and  *)
(* the bell in the banner reads the notifications of the one subscriber    *)
(* that the widget session names.                                          *)
(***************************************************************************)
EXTENDS NotificationRelay, HubNormalize

CONSTANTS
    Payload,       \* [Notice -> Event]
    User,
    Owner,         \* [Person -> User]: whose name it is
    Subject        \* [User -> Person]: the subject claim of the user's token

ASSUME PayloadAssumption ==
    /\ Name = Person
    /\ Payload \in [Notice -> Event]
    /\ \A n \in Mention : Payload[n].source = "onlyoffice"
    /\ \A n \in Notice : IsInjective(Normalize(Payload[n]))   \* no address twice
    /\ \A n \in Notice : Recipients[n] = ToSet(Normalize(Payload[n]))
ASSUME IdentityAssumption == Owner \in [Person -> User] /\ Subject \in [User -> Person]

\* The subscriber whose notifications the bell of a user shows: the subject of
\* the token, signed by the hub with the Novu key.
WidgetSession(u) == Subject[u]

\* What the bell of a user has to show.
Bell(u) == {n \in Notice : triggered[n][WidgetSession(u)] > 0}
-----------------------------------------------------------------------------
(* Properties *)

\* A Matrix event that the hub does not turn into a notification for p: it is
\* no message, or its one notification is for another person it names.
TakenByAnother(n, p) ==
    /\ Payload[n].source = "matrix"
    /\ ~Payload[n].message \/ Recipients[n] \in {{q} : q \in Named(Payload[n]) \ {p}}

\* The application has been told that the notice was relayed, or ignored: then
\* everybody the event names has a notification, or theirs failed, or the event
\* is a Matrix event that went to somebody else; and nobody else has one.
NamedHaveHeard ==
    \A n \in Notice : answer[n] \in {"relayed", "ignored"} =>
        /\ \A p \in Named(Payload[n]) :
              \/ triggered[n][p] > 0
              \/ \E k \in 1..MaxAttempts : outcome[<<n, k>>][p] \in {"refused", "unreachable"}
              \/ TakenByAnother(n, p)
        /\ \A p \in Person \ Named(Payload[n]) : triggered[n][p] = 0

\* The banner: "Notification bell: Novu center, fed by the per-service webhook
\* connectors".  A notification for a user's name is one the user's bell shows.
BellIsFed ==
    \A n \in Notice, p \in Person : triggered[n][p] > 0 => n \in Bell(Owner[p])
=============================================================================
