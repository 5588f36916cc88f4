-------------------------- MODULE NotificationRelay --------------------------
(***************************************************************************)
(* connectors/onlyoffice-mentions and connectors/notification-hub: an      *)
(* application posts a notice to the hub, directly or, for the mentions of *)
(* an OnlyOffice comment, through the mentions connector; the hub triggers *)
(* one Novu notification for each recipient, all at once, and answers with *)
(* the number it relayed.  Nothing is stored and nothing identifies a      *)
(* notice, so a notice that is posted again is triggered again.            *)
(***************************************************************************)
EXTENDS Naturals, FiniteSets

CONSTANTS
    Mention,       \* comments posted through the mentions connector
    Webhook,       \* events posted to the hub by the other applications
    Person,        \* Novu subscribers
    Recipients,    \* [Mention \cup Webhook -> SUBSET Person], after normalisation
    MaxAttempts,   \* bound: times an application posts the same notice
    MaxFaults      \* bound: refusals, errors, lost connections, time-outs and crashes

Notice == Mention \cup Webhook
Call == Notice \X (1..MaxAttempts)

ASSUME NoticeAssumption == Mention \cap Webhook = {}
ASSUME RecipientsAssumption ==
    /\ Recipients \in [Notice -> SUBSET Person]
    /\ IsFiniteSet(Person)
ASSUME RelayBoundAssumption == MaxAttempts \in Nat /\ MaxFaults \in Nat

Outcome == {"none", "pending", "accepted", "refused", "unreachable", "reply lost"}
Answer == {"none", "ignored", "relayed", "not relayed", "gateway error", "no answer"}

VARIABLES
    attempts,      \* times a notice was posted
    waiting,       \* notices whose application waits for an answer
    answer,        \* the last answer an application was given
    hub,           \* a call to the hub: "none", "handling", "answered", "dead"
    outcome,       \* what became of each trigger of a call
    relayed,       \* the count the hub answered a call with
    triggered,     \* notifications Novu created, by notice and person
    faults

vars == <<attempts, waiting, answer, hub, outcome, relayed, triggered, faults>>

Init ==
    /\ attempts = [n \in Notice |-> 0]
    /\ waiting = {}
    /\ answer = [n \in Notice |-> "none"]
    /\ hub = [c \in Call |-> "none"]
    /\ outcome = [c \in Call |-> [p \in Person |-> "none"]]
    /\ relayed = [c \in Call |-> 0]
    /\ triggered = [n \in Notice |-> [p \in Person |-> 0]]
    /\ faults = 0

\* The last call made for a notice.
LastCall(n) == <<n, attempts[n]>>
-----------------------------------------------------------------------------
(* The application and the mentions connector *)

\* A first post, or another one after an answer that was not a success; the
\* connector's "relayed": false comes with a success.
MayPost(n) ==
    /\ n \notin waiting
    /\ attempts[n] < MaxAttempts
    /\ answer[n] \in {"none", "gateway error", "no answer"}

\* request_send_notify(): without a mentioned address nothing is forwarded.
PostNobody(n) ==
    /\ n \in Mention
    /\ MayPost(n)
    /\ Recipients[n] = {}
    /\ attempts' = [attempts EXCEPT ![n] = @ + 1]
    /\ answer' = [answer EXCEPT ![n] = "ignored"]
    /\ UNCHANGED <<waiting, hub, outcome, relayed, triggered, faults>>

\* A post that reaches the hub, where the trigger of every recipient is started.
Post(n) ==
    LET c == <<n, attempts[n] + 1>>
    IN  /\ MayPost(n)
        /\ n \in Mention => Recipients[n] # {}
        /\ attempts' = [attempts EXCEPT ![n] = @ + 1]
        /\ waiting' = waiting \cup {n}
        /\ hub' = [hub EXCEPT ![c] = "handling"]
        /\ outcome' = [outcome EXCEPT ![c] =
               [p \in Person |-> IF p \in Recipients[n] THEN "pending" ELSE "none"]]
        /\ UNCHANGED <<answer, relayed, triggered, faults>>

\* The hub answers an error status before any trigger: a direct caller sees it,
\* the connector answers 200 with "relayed": false.
PostRejected(n) ==
    /\ MayPost(n)
    /\ n \in Mention => Recipients[n] # {}
    /\ faults < MaxFaults
    /\ faults' = faults + 1
    /\ attempts' = [attempts EXCEPT ![n] = @ + 1]
    /\ answer' = [answer EXCEPT ![n] = IF n \in Mention THEN "not relayed" ELSE "no answer"]
    /\ UNCHANGED <<waiting, hub, outcome, relayed, triggered>>

\* The caller's time-out elapses, or the connection breaks, while the hub is
\* still working: the mentions connector answers 502, a direct caller has no
\* answer, and the hub goes on.
GiveUp(n) ==
    /\ n \in waiting
    /\ faults < MaxFaults
    /\ faults' = faults + 1
    /\ waiting' = waiting \ {n}
    /\ answer' = [answer EXCEPT ![n] = IF n \in Mention THEN "gateway error" ELSE "no answer"]
    /\ UNCHANGED <<attempts, hub, outcome, relayed, triggered>>
-----------------------------------------------------------------------------
(* The hub and Novu *)

\* Faulty variant: the client sends the trigger again when its response is lost.
CreatesOnEachTry(o) == IF o = "reply lost" THEN 2 ELSE IF o = "accepted" THEN 1 ELSE 0

\* One POST for each trigger, never repeated: Novu creates the notification
\* when it accepts it, even if its response does not come back.
Creates(o) == IF o \in {"accepted", "reply lost"} THEN 1 ELSE 0

\* trigger_novu_notification() ends: with a response of any status, or with an
\* exception because Novu is unreachable or its response is lost.
Trigger(c, p, o) ==
    /\ hub[c] = "handling"
    /\ outcome[c][p] = "pending"
    /\ o # "accepted" => faults < MaxFaults
    /\ faults' = IF o = "accepted" THEN faults ELSE faults + 1
    /\ outcome' = [outcome EXCEPT ![c][p] = o]
    /\ triggered' = [triggered EXCEPT ![c[1]][p] = @ + Creates(o)]
    /\ UNCHANGED <<attempts, waiting, answer, hub, relayed>>

\* Faulty variant: gather() without return_exceptions, which ends with the
\* first exception.
SettledAtFirstException(c) ==
    \/ \A p \in Person : outcome[c][p] # "pending"
    \/ \E p \in Person : outcome[c][p] \in {"unreachable", "reply lost"}

\* Faulty variant: the hub waits for triggers that succeed.
SettledByAcceptance(c) == \A p \in Recipients[c[1]] : outcome[c][p] = "accepted"

\* gather(return_exceptions=True): every trigger has ended.
GatherSettled(c) == \A p \in Person : outcome[c][p] # "pending"

\* Faulty variant: every recipient is counted, whatever the trigger raised.
EveryRecipient(c) == Cardinality(Recipients[c[1]])

\* The triggers that did not raise; a refusal by Novu is not an exception.
RelayedCount(c) == Cardinality({p \in Person : outcome[c][p] \in {"accepted", "refused"}})

\* The hub answers 200 with the count, or 202 when there is no recipient; the
\* mentions connector passes a success on.
HubAnswer(c) ==
    /\ hub[c] = "handling"
    /\ GatherSettled(c)
    /\ hub' = [hub EXCEPT ![c] = "answered"]
    /\ relayed' = [relayed EXCEPT ![c] = RelayedCount(c)]
    /\ IF c[1] \in waiting /\ c = LastCall(c[1])
       THEN /\ waiting' = waiting \ {c[1]}
            /\ answer' = [answer EXCEPT ![c[1]] =
                   IF Recipients[c[1]] = {} THEN "ignored" ELSE "relayed"]
       ELSE UNCHANGED <<waiting, answer>>
    /\ UNCHANGED <<attempts, outcome, triggered, faults>>

\* The hub's process dies: its calls end without an answer, and the triggers
\* under way may or may not have reached Novu.
HubCrash ==
    /\ faults < MaxFaults
    /\ \E c \in Call : hub[c] = "handling"
    /\ faults' = faults + 1
    /\ \E reached \in SUBSET {u \in Call \X Person :
                               hub[u[1]] = "handling" /\ outcome[u[1]][u[2]] = "pending"} :
           triggered' = [n \in Notice |-> [p \in Person |-> triggered[n][p]
               + Cardinality({k \in 1..MaxAttempts : <<<<n, k>>, p>> \in reached})]]
    /\ hub' = [c \in Call |-> IF hub[c] = "handling" THEN "dead" ELSE hub[c]]
    /\ LET cut == {n \in waiting : hub[LastCall(n)] = "handling"}
       IN  /\ waiting' = waiting \ cut
           /\ answer' = [n \in Notice |->
                  IF n \notin cut THEN answer[n]
                  ELSE IF n \in Mention THEN "gateway error" ELSE "no answer"]
    /\ UNCHANGED <<attempts, outcome, relayed>>

Ends == {"accepted", "refused", "unreachable", "reply lost"}

Next ==
    \/ \E n \in Notice : PostNobody(n)
    \/ \E n \in Notice : Post(n)
    \/ \E n \in Notice : PostRejected(n)
    \/ \E n \in Notice : GiveUp(n)
    \/ \E c \in Call, p \in Person, o \in Ends : Trigger(c, p, o)
    \/ \E c \in Call : HubAnswer(c)
    \/ HubCrash

Spec == Init /\ [][Next]_vars

\* A trigger ends by itself or by the client's time-out, and a call whose
\* triggers have ended is answered.  Nothing obliges an application to post.
FairSpec ==
    /\ Spec
    /\ \A c \in Call :
          /\ WF_vars(\E p \in Person, o \in Ends : Trigger(c, p, o))
          /\ WF_vars(HubAnswer(c))
-----------------------------------------------------------------------------
(* Properties *)

\* The count is never more than the triggers that reached Novu.
CountReachedNovu ==
    \A c \in Call : hub[c] = "answered" =>
        relayed[c] <= Cardinality({p \in Recipients[c[1]] : outcome[c][p] # "unreachable"})

\* Every variable holds a value of its type; an application only waits for a
\* call the hub is handling, and an answer counts what it may count.
TypeOK ==
    /\ attempts \in [Notice -> 0..MaxAttempts]
    /\ waiting \subseteq {n \in Notice : attempts[n] > 0}
    /\ answer \in [Notice -> Answer]
    /\ hub \in [Call -> {"none", "handling", "answered", "dead"}]
    /\ outcome \in [Call -> [Person -> Outcome]]
    /\ relayed \in [Call -> 0..Cardinality(Person)]
    /\ triggered \in [Notice -> [Person -> 0..MaxAttempts]]
    /\ faults \in 0..MaxFaults
    /\ \A n \in waiting : hub[LastCall(n)] = "handling"
    /\ CountReachedNovu

\* A recipient misses an acknowledged notice only because the trigger itself
\* failed: neither a caller that gave up, nor another recipient's failure, nor
\* a crash during another attempt costs anyone a notification.
MissedOnlyByFailure ==
    \A n \in Notice : answer[n] = "relayed" =>
        \A p \in Recipients[n] :
            triggered[n][p] = 0 =>
                \E k \in 1..MaxAttempts : outcome[<<n, k>>][p] \in {"refused", "unreachable"}

\* Nobody is notified more often than the notice was posted: a second copy
\* takes a second post, never a retry inside the hub.
DuplicateOnlyByRetry ==
    \A n \in Notice, p \in Person : triggered[n][p] <= attempts[n]

\* Every call ends, with an answer or with the process that handled it: no
\* combination of failed triggers leaves a caller waiting for good.
EveryCallEnds ==
    \A c \in Call : hub[c] = "handling" ~> hub[c] \in {"answered", "dead"}

\* Seen from the applications, hub and connector keep the promise of a
\* hand-off: a notice counts as relayed only when each recipient has the
\* notification or the trigger has failed, in whatever order answers, older
\* attempts and crashes come.
Due == {np \in Notice \X Person : np[2] \in Recipients[np[1]]}
Posted == {np \in Due : attempts[np[1]] > 0}
Spoiled ==
    {np \in Due : \E k \in 1..MaxAttempts :
        outcome[<<np[1], k>>][np[2]] \in {"refused", "unreachable"}}

Novu == INSTANCE Handoff WITH
    Item <- Due, offered <- Posted,
    held <- {np \in Posted : answer[np[1]] # "relayed"},
    done <- {np \in Posted : triggered[np[1]][np[2]] > 0},
    spoiled <- Spoiled

RelayKeepsHold == Novu!Spec
=============================================================================
