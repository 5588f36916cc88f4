--------------------------- MODULE PresenceStream ---------------------------
(***************************************************************************)
(* connectors/presence-aggregator: the stream asks three sources about     *)
(* each of its users at the same time, waits for all of them, emits one    *)
(* event and sleeps.  Matrix and the calendar take one request; LiveKit is *)
(* listed room by room, for each user again, while people come and go.  A  *)
(* request for a single user's presence is the first turn of a stream for  *)
(* that user alone.                                                        *)
(***************************************************************************)
EXTENDS Sequences

CONSTANTS
    User,          \* the users a client asked for
    Room,          \* LiveKit rooms
    Nowhere,       \* the place of a user who is in no room
    MatrixStatus,  \* the presences of a Matrix server
    Agenda,        \* what a calendar can hold for the next half hour
    Pending,       \* an answer that has not come yet
    Unknown        \* the None that _safe() makes of a failure

Status == {"online", "unavailable", "offline", "in-meeting"}
Call == {"in call", "no call"}
Entry == {"busy now", "busy soon", "tentative"}

ASSUME PresenceAssumption ==
    /\ User # {}
    /\ Nowhere \notin Room
    /\ MatrixStatus \subseteq {"online", "unavailable", "offline"}
    /\ Agenda \subseteq Seq(Entry)
    /\ Pending # Unknown
    /\ {Pending, Unknown} \cap (Agenda \cup MatrixStatus \cup Call) = {}

VARIABLES
    where,         \* the room a user is in
    stage,         \* the stream: "asking", "sleeping" or "closed"
    connected,     \* whether the client still listens
    matrix,        \* what get_matrix_presence() returned
    calendar,      \* the entries get_grommunio_availability() was sent
    livekit,       \* what get_livekit_presence() returned
    toList,        \* rooms whose participants a user's listing has still to ask for
    listed,        \* users whose listing has its rooms and has not ended
    found,         \* those whom their listing has met
    shown,         \* the statuses of the event being sent
    stayed,        \* history: in one and the same room since the turn began
    seen           \* history: in some room at some moment of the turn

vars == <<where, stage, connected, matrix, calendar, livekit, toList,
          listed, found, shown, stayed, seen>>

worldVars == <<where, stayed, seen>>
listVars == <<toList, listed, found>>

InRoom == {u \in User : where[u] # Nowhere}

Fresh ==
    /\ matrix' = [u \in User |-> Pending]
    /\ calendar' = [u \in User |-> Pending]
    /\ livekit' = [u \in User |-> Pending]
    /\ toList' = [u \in User |-> {}]
    /\ listed' = {}
    /\ found' = {}
    /\ shown' = [u \in User |-> "none"]

Init ==
    /\ where = [u \in User |-> Nowhere]
    /\ stage = "asking"
    /\ connected = TRUE
    /\ matrix = [u \in User |-> Pending]
    /\ calendar = [u \in User |-> Pending]
    /\ livekit = [u \in User |-> Pending]
    /\ toList = [u \in User |-> {}]
    /\ listed = {}
    /\ found = {}
    /\ shown = [u \in User |-> "none"]
    /\ stayed = {}
    /\ seen = {}
-----------------------------------------------------------------------------
(* LiveKit's rooms *)

\* A user enters a room, leaves it, or goes straight into another one.
Go(u, r) ==
    /\ r # where[u]
    /\ where' = [where EXCEPT ![u] = r]
    /\ stayed' = stayed \ {u}
    /\ seen' = IF r \in Room THEN seen \cup {u} ELSE seen
    /\ UNCHANGED <<stage, connected, matrix, calendar, livekit, listVars, shown>>
-----------------------------------------------------------------------------
(* The sources *)

\* Faulty variant: without _safe(), an exception ends the generator.
SourceEndsStream(x) == IF x = Unknown THEN "closed" ELSE stage

\* _safe(): whatever a source raises, the gather goes on with None for it.
AfterSource(x) == stage

\* A status, or None: an error, a time-out, or a value that is not one of them.
MatrixAnswers(u, p) ==
    /\ stage = "asking" /\ matrix[u] = Pending
    /\ matrix' = [matrix EXCEPT ![u] = p]
    /\ stage' = AfterSource(p)
    /\ UNCHANGED <<connected, calendar, livekit, listVars, shown, worldVars>>

\* The entries of the half hour that begins now, or None.
CalendarAnswers(u, a) ==
    /\ stage = "asking" /\ calendar[u] = Pending
    /\ calendar' = [calendar EXCEPT ![u] = a]
    /\ stage' = AfterSource(a)
    /\ UNCHANGED <<connected, matrix, livekit, listVars, shown, worldVars>>

\* list_rooms(): a room somebody is in, and perhaps one that is empty still
\* or again.
ListRooms(u, open) ==
    /\ stage = "asking" /\ livekit[u] = Pending /\ u \notin listed
    /\ {where[v] : v \in InRoom} \subseteq open
    /\ listed' = listed \cup {u}
    /\ toList' = [toList EXCEPT ![u] = open]
    /\ UNCHANGED <<stage, connected, matrix, calendar, livekit, found, shown, worldVars>>

\* list_participants() of one room after the other; a room that was closed
\* meanwhile has none (or makes the listing fail, below).
ListParticipants(u, r) ==
    /\ stage = "asking" /\ livekit[u] = Pending
    /\ r \in toList[u]
    /\ toList' = [toList EXCEPT ![u] = @ \ {r}]
    /\ found' = IF where[u] = r THEN found \cup {u} ELSE found
    /\ UNCHANGED <<stage, connected, matrix, calendar, livekit, listed, shown, worldVars>>

Listed(u) ==
    /\ toList' = [toList EXCEPT ![u] = {}]
    /\ listed' = listed \ {u}
    /\ found' = found \ {u}

ListingEnds(u) ==
    /\ stage = "asking" /\ livekit[u] = Pending
    /\ u \in listed /\ toList[u] = {}
    /\ livekit' = [livekit EXCEPT ![u] = IF u \in found THEN "in call" ELSE "no call"]
    /\ Listed(u)
    /\ UNCHANGED <<stage, connected, matrix, calendar, shown, worldVars>>

\* One request that fails makes None of the whole listing.
ListingFails(u) ==
    /\ stage = "asking" /\ livekit[u] = Pending
    /\ livekit' = [livekit EXCEPT ![u] = Unknown]
    /\ stage' = AfterSource(Unknown)
    /\ Listed(u)
    /\ UNCHANGED <<connected, matrix, calendar, shown, worldVars>>
-----------------------------------------------------------------------------
(* The stream *)

\* Faulty variant: any entry counts as a meeting.
AnyEntry(a) == a \notin {Pending, Unknown, <<>>}

\* The first BusyType of the response is Busy or OOF, whenever it begins.
InMeetingNow(a) ==
    a \notin {Pending, Unknown, <<>>} /\ Head(a) \in {"busy now", "busy soon"}

\* Faulty variant: Matrix first.
MatrixFirst(m, a, l) ==
    IF m \in MatrixStatus THEN m
    ELSE IF l = "in call" \/ InMeetingNow(a) THEN "in-meeting" ELSE "offline"

Consolidate(m, a, l) ==
    IF l = "in call" \/ InMeetingNow(a) THEN "in-meeting"
    ELSE IF m \in {"online", "unavailable"} THEN m ELSE "offline"

\* Faulty variant: the gather does not wait for the rooms.
ReadWithoutRooms(u) == matrix[u] # Pending /\ calendar[u] # Pending

\* The gather of build_consolidated_presence().
Read(u) == Pending \notin {matrix[u], calendar[u], livekit[u]}

Emit ==
    /\ stage = "asking"
    /\ \A u \in User : Read(u)
    /\ shown' = [u \in User |-> Consolidate(matrix[u], calendar[u], livekit[u])]
    /\ stage' = "sleeping"
    /\ UNCHANGED <<connected, matrix, calendar, livekit, listVars, worldVars>>

\* PRESENCE_STREAM_INTERVAL_MS later, the next turn begins.
Wake ==
    /\ stage = "sleeping"
    /\ stage' = "asking"
    /\ Fresh
    /\ stayed' = InRoom
    /\ seen' = InRoom
    /\ UNCHANGED <<where, connected>>

\* The client goes away: the generator is cancelled in the await it is
\* in, and what it gathered is gone.
Disconnect ==
    /\ stage # "closed"
    /\ stage' = "closed"
    /\ connected' = FALSE
    /\ Fresh
    /\ UNCHANGED worldVars

\* Whatever a source that was asked does next.
SourceStep ==
    \E u \in User :
        \/ \E p \in MatrixStatus \cup {Unknown} : MatrixAnswers(u, p)
        \/ \E a \in Agenda \cup {Unknown} : CalendarAnswers(u, a)
        \/ \E open \in SUBSET Room : ListRooms(u, open)
        \/ \E r \in Room : ListParticipants(u, r)
        \/ ListingEnds(u)
        \/ ListingFails(u)

Next ==
    \/ \E u \in User, r \in Room \cup {Nowhere} : Go(u, r)
    \/ SourceStep
    \/ Emit
    \/ Wake
    \/ Disconnect

Spec == Init /\ [][Next]_vars

\* No time-out is set, but every client library has one by default (httpx: for
\* each read, which a server that dribbles never meets): each request is taken
\* to end; nobody has to join a room, nor the client to leave.
FairSpec == Spec /\ WF_vars(SourceStep \/ Emit \/ Wake)
-----------------------------------------------------------------------------
(* Properties *)

\* Every variable holds a value of its type; a stream only sleeps when every
\* source of every user has an outcome.
TypeOK ==
    /\ where \in [User -> Room \cup {Nowhere}]
    /\ stage \in {"asking", "sleeping", "closed"}
    /\ connected \in BOOLEAN
    /\ matrix \in [User -> MatrixStatus \cup {Pending, Unknown}]
    /\ calendar \in [User -> Agenda \cup {Pending, Unknown}]
    /\ livekit \in [User -> Call \cup {Pending, Unknown}]
    /\ toList \in [User -> SUBSET Room]
    /\ listed \subseteq User /\ found \subseteq listed
    /\ \A u \in User \ listed : toList[u] = {}
    /\ shown \in [User -> Status \cup {"none"}]
    /\ stayed \subseteq InRoom /\ seen \subseteq User
    /\ stage = "sleeping" =>
           \A u \in User : Pending \notin {matrix[u], calendar[u], livekit[u]}

\* Whoever stays in one room for the whole turn is shown in a meeting, however
\* many rooms the listing goes through, opens and closes meanwhile, unless
\* that listing failed: no other user's or source's failure hides a call.
StayingIsShown ==
    stage = "sleeping" =>
        \A u \in stayed : shown[u] = "in-meeting" \/ livekit[u] = Unknown

\* A meeting that is shown has a reason in the turn itself: the user was in a
\* room at some moment of it, or the calendar had a busy entry for the next
\* half hour.
MeetingHasReason ==
    stage = "sleeping" =>
        \A u \in User : shown[u] = "in-meeting" =>
            \/ u \in seen
            \/ /\ calendar[u] \in Agenda
               /\ \E i \in DOMAIN calendar[u] : calendar[u][i] # "tentative"

\* Whatever the sources do, the next event comes as long as the client listens:
\* no failure ends the stream or holds it back.
EventsKeepComing == []<>(stage = "sleeping") \/ <>(~connected)
=============================================================================
