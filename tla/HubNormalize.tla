---------------------------- MODULE HubNormalize ----------------------------
(***************************************************************************)
(* normalize.py: whom the notification hub notifies of an event.  A payload *)
(* is reduced to its source and to the fields that name people; titles,    *)
(* texts, links and dates of the notification are left out.                *)
(***************************************************************************)
EXTENDS SequencesExt

CONSTANTS
    Name,          \* what the applications call people: Matrix ids, addresses...
    Nobody         \* a field that is absent or empty

ASSUME NobodyAssumption == Nobody \notin Name

\* The events an application posts, with the fields the hub reads: whether a
\* Matrix event is a message, its target and the people it mentions; the one
\* person of a mail, a share or an assignment; the addresses of a comment.
Event ==
    [source : {"matrix"}, message : BOOLEAN, target : Name \cup {Nobody}, mentions : Seq(Name)]
    \cup [source : {"grommunio", "seafile", "vikunja"}, to : Name \cup {Nobody}]
    \cup [source : {"onlyoffice"}, emails : Seq(Name)]
-----------------------------------------------------------------------------
OneOrNobody(n) == IF n = Nobody THEN <<>> ELSE <<n>>

\* The target, or the first of those mentioned.
MatrixTarget(e) ==
    IF e.target # Nobody \/ e.mentions = <<>> THEN e.target ELSE Head(e.mentions)

\* Only a message is notified, and to one person.
NormalizeMatrix(e) == IF e.message THEN OneOrNobody(MatrixTarget(e)) ELSE <<>>

\* Mail, share and assignment name one person each.
NormalizeSingle(e) == OneOrNobody(e.to)

\* Faulty variant: a comment is notified to one person, like a message.
FirstMentioned(e) == IF e.emails = <<>> THEN <<>> ELSE <<Head(e.emails)>>

\* One event for each address, repeated ones included.
NormalizeOnlyOffice(e) == e.emails

\* The recipients of an event's notifications, one for each.
Normalize(e) ==
    CASE e.source = "matrix" -> NormalizeMatrix(e)
      [] e.source = "onlyoffice" -> NormalizeOnlyOffice(e)
      [] OTHER -> NormalizeSingle(e)
-----------------------------------------------------------------------------
\* Everybody an event names, whether or not the hub notifies them.
Named(e) ==
    CASE e.source = "matrix" -> ToSet(e.mentions) \cup ({e.target} \ {Nobody})
      [] e.source = "onlyoffice" -> ToSet(e.emails)
      [] OTHER -> {e.to} \ {Nobody}
=============================================================================
