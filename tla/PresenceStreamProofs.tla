------------------------ MODULE PresenceStreamProofs ------------------------
(***************************************************************************)
(* Proofs about PresenceStream, for any users, rooms and agendas.          *)
(***************************************************************************)
EXTENDS PresenceStream, TLAPS

-----------------------------------------------------------------------------
(* Types *)

\* What is shown of a user is always one of the four statuses.
LEMMA ConsolidateType ==
    ASSUME NEW m, NEW a, NEW l PROVE Consolidate(m, a, l) \in Status
BY DEF Consolidate, Status

\* A fresh turn has the types of the first one.
LEMMA FreshType ==
    ASSUME Fresh
    PROVE  /\ matrix' \in [User -> MatrixStatus \cup {Pending, Unknown}]
           /\ calendar' \in [User -> Agenda \cup {Pending, Unknown}]
           /\ livekit' \in [User -> Call \cup {Pending, Unknown}]
           /\ toList' \in [User -> SUBSET Room]
           /\ listed' \subseteq User /\ found' \subseteq listed'
           /\ \A u \in User : toList'[u] = {}
           /\ shown' \in [User -> Status \cup {"none"}]
BY DEF Fresh

\* Every step keeps the types, and a stream asleep has all its outcomes.
LEMMA TypeStep == TypeOK /\ [Next]_vars => TypeOK'
<1> SUFFICES ASSUME TypeOK, [Next]_vars PROVE TypeOK'
  OBVIOUS
<1> USE DEF TypeOK, worldVars, listVars, InRoom
<1>1. ASSUME NEW u \in User, NEW r \in Room \cup {Nowhere}, Go(u, r) PROVE TypeOK'
  BY <1>1 DEF Go
<1>2. ASSUME NEW u \in User, NEW p \in MatrixStatus \cup {Unknown}, MatrixAnswers(u, p)
      PROVE  TypeOK'
  BY <1>2 DEF MatrixAnswers, AfterSource
<1>3. ASSUME NEW u \in User, NEW a \in Agenda \cup {Unknown}, CalendarAnswers(u, a)
      PROVE  TypeOK'
  BY <1>3 DEF CalendarAnswers, AfterSource
<1>4. ASSUME NEW u \in User, NEW open \in SUBSET Room, ListRooms(u, open) PROVE TypeOK'
  BY <1>4 DEF ListRooms
<1>5. ASSUME NEW u \in User, NEW r \in Room, ListParticipants(u, r) PROVE TypeOK'
  <2>1. u \in listed
    BY <1>5 DEF ListParticipants
  <2> QED BY <1>5, <2>1 DEF ListParticipants
<1>6. ASSUME NEW u \in User, ListingEnds(u) PROVE TypeOK'
  BY <1>6 DEF ListingEnds, Listed, Call
<1>7. ASSUME NEW u \in User, ListingFails(u) PROVE TypeOK'
  BY <1>7 DEF ListingFails, Listed, AfterSource
<1>8. CASE Emit
  <2>1. shown' \in [User -> Status \cup {"none"}]
    BY <1>8, ConsolidateType DEF Emit
  <2> QED BY <1>8, <2>1 DEF Emit, Read
<1>9. CASE Wake
  BY <1>9, FreshType DEF Wake
<1>10. CASE Disconnect
  BY <1>10, FreshType DEF Disconnect
<1>11. CASE UNCHANGED vars
  BY <1>11 DEF vars
<1> QED BY <1>1, <1>2, <1>3, <1>4, <1>5, <1>6, <1>7, <1>8, <1>9, <1>10, <1>11
        DEF Next, SourceStep

\* Type correctness of the stream, at every await of its sources.
THEOREM PresenceTypeCorrect == Spec => []TypeOK
<1>1. Init => TypeOK
  BY DEF Init, TypeOK, InRoom
<1> QED BY <1>1, TypeStep, PTL DEF Spec
-----------------------------------------------------------------------------
(* What the listing of the rooms finds *)

\* Whoever has stayed in a room is met by their listing, or the listing has
\* still to come to that room; it never ends without having met them.
StayedIsMet ==
    \A u \in stayed :
        /\ livekit[u] # "no call"
        /\ u \in listed => u \in found \/ where[u] \in toList[u]

\* Whoever is in a room, or is met by a listing, was in a room in this turn.
MetWasThere ==
    /\ InRoom \cup found \subseteq seen
    /\ \A u \in User : livekit[u] = "in call" => u \in seen

\* The stream sleeps on what it consolidated.
ShownIsRead ==
    stage = "sleeping" =>
        \A u \in User : shown[u] = Consolidate(matrix[u], calendar[u], livekit[u])

\* The inductive invariant: it speaks of the middle of a turn, when rooms have
\* been listed in part and people move.
TurnInv ==
    /\ TypeOK
    /\ stayed \subseteq InRoom
    /\ StayedIsMet
    /\ MetWasThere
    /\ ShownIsRead

\* A turn that begins knows nothing of anybody.
LEMMA FreshTurn ==
    ASSUME Fresh, Pending \notin Call
    PROVE  \A u \in User : livekit'[u] \notin Call /\ u \notin listed' /\ u \notin found'
BY DEF Fresh

\* The values of Pending and Unknown are none of a call's.
LEMMA NoCallYet == Pending \notin Call /\ Unknown \notin Call
BY PresenceAssumption

\* The first turn has the invariant.
LEMMA TurnInit == Init => TurnInv
<1> SUFFICES ASSUME Init PROVE TurnInv
  OBVIOUS
<1>1. TypeOK
  BY DEF Init, TypeOK, InRoom
<1>2. InRoom = {}
  BY DEF Init, InRoom
<1> QED BY <1>1, <1>2, NoCallYet
        DEF Init, TurnInv, StayedIsMet, MetWasThere, ShownIsRead, Call

\* What an update of one user's entry leaves of a function.
LEMMA UpdateOne ==
    ASSUME NEW S, NEW f, DOMAIN f = S, NEW x \in S, NEW e, NEW g, g = [f EXCEPT ![x] = e]
    PROVE  g[x] = e /\ \A y \in S \ {x} : g[y] = f[y]
OBVIOUS

\* Every step keeps it.
LEMMA TurnStep == TurnInv /\ [Next]_vars => TurnInv'
<1> SUFFICES ASSUME TurnInv, [Next]_vars PROVE TurnInv'
  OBVIOUS
<1>0. TypeOK /\ TypeOK'
  BY TypeStep DEF TurnInv
<1>d. DOMAIN livekit = User /\ DOMAIN toList = User /\ DOMAIN where = User
  BY <1>0 DEF TypeOK
<1> USE <1>0, NoCallYet DEF worldVars, listVars, Call
<1>1. ASSUME NEW u \in User, NEW r \in Room \cup {Nowhere}, Go(u, r) PROVE TurnInv'
  <2>1. /\ stayed' \subseteq stayed /\ \A v \in stayed' : v # u /\ where'[v] = where[v]
        /\ seen \subseteq seen' /\ (r # Nowhere => u \in seen')
        /\ \A v \in User \ {u} : where'[v] = where[v]
        /\ where'[u] = r
    BY <1>1 DEF Go, TurnInv, InRoom, TypeOK
  <2>2. UNCHANGED <<stage, matrix, calendar, livekit, toList, listed, found, shown>>
    BY <1>1 DEF Go
  <2>3. stayed' \subseteq InRoom'
    BY <2>1 DEF TurnInv, InRoom
  <2>4. StayedIsMet'
    BY <2>1, <2>2 DEF TurnInv, StayedIsMet
  <2>5. InRoom' \subseteq seen'
    BY <2>1 DEF TurnInv, MetWasThere, InRoom
  <2>6. MetWasThere'
    BY <2>1, <2>2, <2>5 DEF TurnInv, MetWasThere
  <2> QED BY <2>2, <2>3, <2>4, <2>6 DEF TurnInv, ShownIsRead
<1>2. ASSUME NEW u \in User, NEW p \in MatrixStatus \cup {Unknown}, MatrixAnswers(u, p)
      PROVE  TurnInv'
  BY <1>2 DEF MatrixAnswers, AfterSource, TurnInv, StayedIsMet, MetWasThere, ShownIsRead, InRoom
<1>3. ASSUME NEW u \in User, NEW a \in Agenda \cup {Unknown}, CalendarAnswers(u, a)
      PROVE  TurnInv'
  BY <1>3 DEF CalendarAnswers, AfterSource, TurnInv, StayedIsMet, MetWasThere, ShownIsRead, InRoom
<1>4. ASSUME NEW u \in User, NEW open \in SUBSET Room, ListRooms(u, open) PROVE TurnInv'
  <2>1. /\ toList'[u] = open /\ \A v \in User \ {u} : toList'[v] = toList[v]
        /\ {where[v] : v \in InRoom} \subseteq open
        /\ listed' = listed \cup {u} /\ stage' = "asking"
    <3>1. toList' = [toList EXCEPT ![u] = open]
      BY <1>4 DEF ListRooms
    <3>2. toList'[u] = open /\ \A v \in User \ {u} : toList'[v] = toList[v]
      BY <3>1, <1>d, UpdateOne
    <3>3. /\ {where[v] : v \in InRoom} \subseteq open
          /\ listed' = listed \cup {u} /\ stage' = "asking"
      BY <1>4 DEF ListRooms
    <3> QED BY <3>2, <3>3
  <2>2. UNCHANGED <<where, stayed, seen, livekit, found>>
    BY <1>4 DEF ListRooms
  <2>3. stayed' \subseteq InRoom'
    BY <2>2 DEF TurnInv, InRoom
  <2>4. ASSUME NEW v \in stayed'
        PROVE  livekit'[v] # "no call" /\ (v \in listed' => v \in found' \/ where'[v] \in toList'[v])
    <3>1. v \in InRoom /\ v \in stayed /\ v \in User
      BY <2>2 DEF TurnInv, InRoom
    <3>2. CASE v = u
      BY <2>1, <2>2, <3>1, <3>2 DEF TurnInv, StayedIsMet
    <3>3. CASE v # u
      BY <2>1, <2>2, <3>1, <3>3 DEF TurnInv, StayedIsMet
    <3> QED BY <3>2, <3>3
  <2>5. StayedIsMet'
    BY <2>4 DEF StayedIsMet
  <2>6. MetWasThere'
    BY <2>2 DEF TurnInv, MetWasThere, InRoom
  <2> QED BY <2>1, <2>3, <2>5, <2>6 DEF TurnInv, ShownIsRead
<1>5. ASSUME NEW u \in User, NEW r \in Room, ListParticipants(u, r) PROVE TurnInv'
  <2>1. /\ toList'[u] = toList[u] \ {r} /\ \A v \in User \ {u} : toList'[v] = toList[v]
        /\ found \subseteq found' /\ found' \subseteq found \cup {u}
        /\ (where[u] = r => u \in found') /\ (where[u] # r => found' = found)
        /\ stage' = "asking" /\ u \in User
    <3>1. toList' = [toList EXCEPT ![u] = toList[u] \ {r}]
      BY <1>5 DEF ListParticipants
    <3>2. toList'[u] = toList[u] \ {r} /\ \A v \in User \ {u} : toList'[v] = toList[v]
      BY <3>1, <1>d, UpdateOne
    <3>3. found' = IF where[u] = r THEN found \cup {u} ELSE found
      BY <1>5 DEF ListParticipants
    <3>4. stage' = "asking"
      BY <1>5 DEF ListParticipants
    <3> QED BY <3>2, <3>3, <3>4
  <2>2. UNCHANGED <<where, stayed, seen, livekit, listed>>
    BY <1>5 DEF ListParticipants
  <2>3. stayed' \subseteq InRoom'
    BY <2>2 DEF TurnInv, InRoom
  <2>4. ASSUME NEW v \in stayed'
        PROVE  livekit'[v] # "no call" /\ (v \in listed' => v \in found' \/ where'[v] \in toList'[v])
    <3>1. v \in stayed /\ v \in User
      BY <2>2 DEF TurnInv, InRoom
    <3>2. CASE v = u
      BY <2>1, <2>2, <3>1, <3>2 DEF TurnInv, StayedIsMet
    <3>3. CASE v # u
      BY <2>1, <2>2, <3>1, <3>3 DEF TurnInv, StayedIsMet
    <3> QED BY <3>2, <3>3
  <2>5. StayedIsMet'
    BY <2>4 DEF StayedIsMet
  <2>6. where[u] = r => u \in InRoom
    BY PresenceAssumption DEF InRoom
  <2>7. MetWasThere'
    BY <2>1, <2>2, <2>6 DEF TurnInv, MetWasThere, InRoom
  <2> QED BY <2>1, <2>3, <2>5, <2>7 DEF TurnInv, ShownIsRead
<1>6. ASSUME NEW u \in User, ListingEnds(u) PROVE TurnInv'
  <2>1. /\ \A v \in User \ {u} : livekit'[v] = livekit[v] /\ toList'[v] = toList[v]
        /\ livekit'[u] = IF u \in found THEN "in call" ELSE "no call"
        /\ listed' = listed \ {u} /\ found' = found \ {u}
        /\ u \in listed /\ toList[u] = {} /\ stage' = "asking"
    <3>1. livekit' = [livekit EXCEPT ![u] = IF u \in found THEN "in call" ELSE "no call"]
      BY <1>6 DEF ListingEnds
    <3>2. toList' = [toList EXCEPT ![u] = {}]
      BY <1>6 DEF ListingEnds, Listed
    <3>3. /\ livekit'[u] = IF u \in found THEN "in call" ELSE "no call"
          /\ \A v \in User \ {u} : livekit'[v] = livekit[v]
      BY <3>1, <1>d, UpdateOne
    <3>4. \A v \in User \ {u} : toList'[v] = toList[v]
      BY <3>2, <1>d, UpdateOne
    <3> QED BY <3>3, <3>4, <1>6 DEF ListingEnds, Listed
  <2>2. UNCHANGED <<where, stayed, seen>>
    BY <1>6 DEF ListingEnds
  <2>3. stayed' \subseteq InRoom'
    BY <2>2 DEF TurnInv, InRoom
  <2>4. ASSUME NEW v \in stayed'
        PROVE  livekit'[v] # "no call" /\ (v \in listed' => v \in found' \/ where'[v] \in toList'[v])
    <3>1. v \in stayed /\ v \in User
      BY <2>2 DEF TurnInv, InRoom
    <3>2. CASE v = u
      BY <2>1, <2>2, <3>1, <3>2 DEF TurnInv, StayedIsMet
    <3>3. CASE v # u
      BY <2>1, <2>2, <3>1, <3>3 DEF TurnInv, StayedIsMet
    <3> QED BY <3>2, <3>3
  <2>5. StayedIsMet'
    BY <2>4 DEF StayedIsMet
  <2>6. MetWasThere'
    BY <2>1, <2>2 DEF TurnInv, MetWasThere, InRoom
  <2> QED BY <2>1, <2>3, <2>5, <2>6 DEF TurnInv, ShownIsRead
<1>7. ASSUME NEW u \in User, ListingFails(u) PROVE TurnInv'
  <2>1. /\ \A v \in User \ {u} : livekit'[v] = livekit[v] /\ toList'[v] = toList[v]
        /\ livekit'[u] = Unknown
        /\ listed' = listed \ {u} /\ found' = found \ {u} /\ stage' = "asking"
    <3>1. livekit' = [livekit EXCEPT ![u] = Unknown] /\ toList' = [toList EXCEPT ![u] = {}]
      BY <1>7 DEF ListingFails, Listed
    <3>2. livekit'[u] = Unknown /\ \A v \in User \ {u} : livekit'[v] = livekit[v]
      BY <3>1, <1>d, UpdateOne
    <3>3. \A v \in User \ {u} : toList'[v] = toList[v]
      BY <3>1, <1>d, UpdateOne
    <3>4. listed' = listed \ {u} /\ found' = found \ {u} /\ stage' = "asking"
      BY <1>7 DEF ListingFails, Listed, AfterSource
    <3> QED BY <3>2, <3>3, <3>4
  <2>2. UNCHANGED <<where, stayed, seen>>
    BY <1>7 DEF ListingFails
  <2>3. stayed' \subseteq InRoom' /\ stayed \subseteq User
    BY <2>2 DEF TurnInv, InRoom
  <2>4. StayedIsMet'
    BY <2>1, <2>2, <2>3 DEF TurnInv, StayedIsMet
  <2>5. MetWasThere'
    BY <2>1, <2>2 DEF TurnInv, MetWasThere, InRoom
  <2> QED BY <2>1, <2>3, <2>4, <2>5 DEF TurnInv, ShownIsRead
<1>8. CASE Emit
  BY <1>8 DEF Emit, TurnInv, StayedIsMet, MetWasThere, ShownIsRead, InRoom, TypeOK
<1>9. CASE Wake
  <2>1. /\ stayed' = InRoom' /\ seen' = InRoom' /\ InRoom' \subseteq User /\ stage' = "asking"
        /\ found' = {}
    BY <1>9 DEF Wake, InRoom, Fresh
  <2>2. \A u \in User : livekit'[u] \notin Call /\ u \notin listed'
    BY <1>9, FreshTurn DEF Wake
  <2> QED BY <2>1, <2>2 DEF TurnInv, StayedIsMet, MetWasThere, ShownIsRead
<1>10. CASE Disconnect
  <2>1. UNCHANGED <<where, stayed, seen>> /\ stage' = "closed" /\ found' = {}
    BY <1>10 DEF Disconnect, Fresh
  <2>2. \A u \in User : livekit'[u] \notin Call /\ u \notin listed'
    BY <1>10, FreshTurn DEF Disconnect
  <2>3. stayed' \subseteq InRoom' /\ InRoom' \subseteq seen' /\ InRoom' \subseteq User
    BY <2>1 DEF TurnInv, MetWasThere, InRoom
  <2> QED BY <2>1, <2>2, <2>3 DEF TurnInv, StayedIsMet, MetWasThere, ShownIsRead
<1>11. CASE UNCHANGED vars
  BY <1>11 DEF vars, TurnInv, StayedIsMet, MetWasThere, ShownIsRead, InRoom
<1> QED BY <1>1, <1>2, <1>3, <1>4, <1>5, <1>6, <1>7, <1>8, <1>9, <1>10, <1>11
        DEF Next, SourceStep

\* Nobody who stays in a call is shown as free by a listing that did not fail.
LEMMA MetIsShown == TurnInv => StayingIsShown
<1> SUFFICES ASSUME TurnInv, stage = "sleeping", NEW u \in stayed, livekit[u] # Unknown
             PROVE  shown[u] = "in-meeting"
  BY DEF StayingIsShown
<1>1. u \in User
  BY DEF TurnInv, InRoom
<1>2. livekit[u] = "in call"
  BY <1>1 DEF TurnInv, TypeOK, StayedIsMet, Call
<1> QED BY <1>1, <1>2 DEF TurnInv, ShownIsRead, Consolidate

\* Nobody is shown in a meeting without a call or an entry of the turn.
LEMMA MeetingFromTurn == TurnInv => MeetingHasReason
<1> SUFFICES ASSUME TurnInv, stage = "sleeping", NEW u \in User, shown[u] = "in-meeting",
                    u \notin seen
             PROVE  /\ calendar[u] \in Agenda
                    /\ \E i \in DOMAIN calendar[u] : calendar[u][i] # "tentative"
  BY DEF MeetingHasReason
<1>1. livekit[u] # "in call"
  BY DEF TurnInv, MetWasThere
<1>3. InMeetingNow(calendar[u])
  BY <1>1 DEF TurnInv, ShownIsRead, Consolidate
<1>4. calendar[u] \in Agenda /\ calendar[u] # <<>> /\ Head(calendar[u]) # "tentative"
  BY <1>3 DEF InMeetingNow, TurnInv, TypeOK
<1>5. calendar[u] \in Seq(Entry)
  BY <1>4, PresenceAssumption
<1>6. 1 \in DOMAIN calendar[u] /\ calendar[u][1] = Head(calendar[u])
  BY <1>4, <1>5
<1> QED BY <1>4, <1>6

\* TurnInv holds in every state of a stream.
LEMMA TurnAlways == Spec => []TurnInv
BY TurnInit, TurnStep, PTL DEF Spec

\* However many rooms are opened, closed and listed in a turn, whoever stays in
\* one is shown in a meeting unless their own listing failed.
THEOREM StayingSafety == Spec => []StayingIsShown
BY TurnAlways, MetIsShown, PTL

\* A meeting that is shown has a reason in its own turn.
THEOREM MeetingSafety == Spec => []MeetingHasReason
BY TurnAlways, MeetingFromTurn, PTL

\* Only its client ends a stream: the part of EventsKeepComing that is safety.
ClosedByClient == stage = "closed" => ~connected

\* No failure of a source ends a stream.
THEOREM ClosedSafety == Spec => []ClosedByClient
<1>1. Init => ClosedByClient
  BY DEF Init, ClosedByClient
<1>2. ClosedByClient /\ [Next]_vars => ClosedByClient'
  <2> SUFFICES ASSUME ClosedByClient, [Next]_vars PROVE ClosedByClient'
    OBVIOUS
  <2>1. CASE SourceStep
    <3>1. stage' = stage /\ connected' = connected
      BY <2>1 DEF SourceStep, MatrixAnswers, CalendarAnswers, ListRooms, ListParticipants,
                  ListingEnds, ListingFails, AfterSource
    <3> QED BY <3>1 DEF ClosedByClient
  <2>2. ASSUME NEW u \in User, NEW r \in Room \cup {Nowhere}, Go(u, r) PROVE ClosedByClient'
    BY <2>2 DEF Go, ClosedByClient
  <2>3. CASE Emit \/ Wake \/ Disconnect \/ UNCHANGED vars
    BY <2>3 DEF Emit, Wake, Disconnect, vars, ClosedByClient
  <2> QED BY <2>1, <2>2, <2>3 DEF Next
<1> QED BY <1>1, <1>2, PTL DEF Spec
=============================================================================
