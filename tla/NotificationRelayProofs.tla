----------------------- MODULE NotificationRelayProofs -----------------------
(***************************************************************************)
(* Proofs about NotificationRelay, for any notices, recipients, number of  *)
(* attempts and number of failures, and about HubRelay, for any payloads.  *)
(***************************************************************************)
EXTENDS HubRelay, FiniteSetTheorems, TLAPS

\* The trigger of a call for a person is over, or was under way in a crash: no
\* later step of the call can notify that person.
Spent(c, p) == outcome[c][p] \in Ends \/ hub[c] = "dead"

SpentAttempts(n, p) == {k \in 1..MaxAttempts : Spent(<<n, k>>, p)}

Types ==
    /\ attempts \in [Notice -> 0..MaxAttempts]
    /\ waiting \subseteq {n \in Notice : attempts[n] > 0}
    /\ answer \in [Notice -> Answer]
    /\ hub \in [Call -> {"none", "handling", "answered", "dead"}]
    /\ outcome \in [Call -> [Person -> Outcome]]
    /\ relayed \in [Call -> 0..Cardinality(Person)]
    /\ triggered \in [Notice -> [Person -> Nat]]
    /\ faults \in 0..MaxFaults

\* A call exists from its post on.
CallMade(n, k) == hub[<<n, k>>] # "none" => k <= attempts[n]

\* It has an outcome for each recipient and for nobody else; once it is
\* answered, nothing of it is pending.
CallOutcome(n, k, p) ==
    /\ hub[<<n, k>>] = "none" => outcome[<<n, k>>][p] = "none"
    /\ outcome[<<n, k>>][p] # "none" => p \in Recipients[n]
    /\ hub[<<n, k>>] # "none" /\ p \in Recipients[n] => outcome[<<n, k>>][p] # "none"
    /\ hub[<<n, k>>] = "answered" => outcome[<<n, k>>][p] # "pending"
    /\ outcome[<<n, k>>][p] \in {"accepted", "reply lost"} => triggered[n][p] > 0

CallCounted(n, k) ==
    hub[<<n, k>>] = "answered" => relayed[<<n, k>>] = RelayedCount(<<n, k>>)

CallInv(n, k) ==
    /\ CallMade(n, k)
    /\ \A p \in Person : CallOutcome(n, k, p)
    /\ CallCounted(n, k)

\* Notifications are paid for with attempts: each spent attempt is worth one.
NoticeInv(n) ==
    /\ n \in waiting => hub[LastCall(n)] = "handling"
    /\ answer[n] = "relayed" => \E k \in 1..MaxAttempts : hub[<<n, k>>] = "answered"
    /\ \A p \in Person : triggered[n][p] <= Cardinality(SpentAttempts(n, p))

RelayInv ==
    /\ Types
    /\ \A n \in Notice, k \in 1..MaxAttempts : CallInv(n, k)
    /\ \A n \in Notice : NoticeInv(n)

-----------------------------------------------------------------------------
(* Counting attempts *)

\* More attempts count at least as much.
LEMMA MoreAttempts ==
    ASSUME NEW S \in SUBSET (1..MaxAttempts), NEW T \in SUBSET (1..MaxAttempts),
           S \subseteq T
    PROVE  Cardinality(S) \in Nat /\ Cardinality(T) \in Nat /\ Cardinality(S) <= Cardinality(T)
<1>1. IsFiniteSet(1..MaxAttempts)
  BY RelayBoundAssumption, FS_Interval
<1>2. IsFiniteSet(S) /\ IsFiniteSet(T)
  BY <1>1, FS_Subset
<1>3. Cardinality(S) \in Nat /\ Cardinality(T) \in Nat
  BY <1>2, FS_CardinalityType
<1>4. S \in SUBSET T
  OBVIOUS
<1>5. Cardinality(S) <= Cardinality(T)
  BY <1>2, <1>4, FS_Subset
<1>6. QED
  BY <1>3, <1>5

\* The first attempts are as many as the last one's number.
LEMMA FirstAttempts ==
    ASSUME NEW a \in Nat
    PROVE  Cardinality(1..a) = a
BY FS_Interval

\* Attempts that were not counted before add up with those that were.
LEMMA NewAttempts ==
    ASSUME NEW S \in SUBSET (1..MaxAttempts), NEW R \in SUBSET (1..MaxAttempts),
           NEW T \in SUBSET (1..MaxAttempts),
           S \cup R \subseteq T, S \cap R = {}
    PROVE  /\ Cardinality(R) \in Nat
           /\ Cardinality(S) + Cardinality(R) <= Cardinality(T)
<1>1. IsFiniteSet(1..MaxAttempts)
  BY RelayBoundAssumption, FS_Interval
<1>2. IsFiniteSet(S) /\ IsFiniteSet(R)
  BY <1>1, FS_Subset
<1>3. Cardinality(S) \in Nat /\ Cardinality(R) \in Nat
  BY <1>2, FS_CardinalityType
<1>4. Cardinality(S \cup R) = Cardinality(S) + Cardinality(R) - Cardinality({})
  BY <1>2, FS_Union
<1>5. Cardinality({}) = 0
  BY FS_EmptySet
<1>6. Cardinality(S \cup R) <= Cardinality(T)
  BY MoreAttempts
<1>7. QED
  BY <1>3, <1>4, <1>5, <1>6

\* Attempts that stay spent pay for notifications that stay the same.
LEMMA SpentKept ==
    ASSUME NEW n \in Notice, NEW p \in Person, triggered[n][p] \in Nat,
           triggered[n][p] <= Cardinality(SpentAttempts(n, p)),
           triggered'[n][p] = triggered[n][p],
           \A k \in 1..MaxAttempts : Spent(<<n, k>>, p) => Spent(<<n, k>>, p)'
    PROVE  triggered'[n][p] <= Cardinality(SpentAttempts(n, p)')
<1>1. SpentAttempts(n, p) \subseteq SpentAttempts(n, p)'
  BY DEF SpentAttempts
<1>2. /\ SpentAttempts(n, p) \in SUBSET (1..MaxAttempts)
      /\ SpentAttempts(n, p)' \in SUBSET (1..MaxAttempts)
  BY DEF SpentAttempts
<1>3. /\ Cardinality(SpentAttempts(n, p)) \in Nat
      /\ Cardinality(SpentAttempts(n, p)') \in Nat
      /\ Cardinality(SpentAttempts(n, p)) <= Cardinality(SpentAttempts(n, p)')
  BY <1>1, <1>2, MoreAttempts
<1>4. QED
  BY <1>3

\* The count of the hub's answer is a number of people.
LEMMA CountType ==
    ASSUME NEW c \in Call
    PROVE  RelayedCount(c) \in 0..Cardinality(Person)
<1>1. {p \in Person : outcome[c][p] \in {"accepted", "refused"}} \in SUBSET Person
  OBVIOUS
<1>2. QED
  BY <1>1, RecipientsAssumption, FS_Subset, FS_CardinalityType DEF RelayedCount

\* A call is a notice and an attempt.
LEMMA CallType ==
    /\ \A n \in Notice, k \in 1..MaxAttempts : <<n, k>> \in Call
    /\ \A c \in Call : c[1] \in Notice /\ c[2] \in 1..MaxAttempts /\ c = <<c[1], c[2]>>
BY DEF Call
-----------------------------------------------------------------------------
(* Every step preserves the invariant *)

\* A step that leaves a call alone, and takes nothing back, preserves what is
\* known of it.
LEMMA CallFrame ==
    ASSUME NEW n \in Notice, NEW k \in 1..MaxAttempts, CallInv(n, k), Types, Types',
           attempts'[n] >= attempts[n],
           hub'[<<n, k>>] = hub[<<n, k>>],
           outcome'[<<n, k>>] = outcome[<<n, k>>],
           relayed'[<<n, k>>] = relayed[<<n, k>>],
           \A p \in Person : triggered'[n][p] >= triggered[n][p]
    PROVE  CallInv(n, k)'
<1>1. CallMade(n, k)'
  <2>1. attempts[n] \in Nat /\ attempts'[n] \in Nat
    BY RelayBoundAssumption DEF Types
  <2>2. QED
    BY <2>1 DEF CallInv, CallMade
<1>2. ASSUME NEW p \in Person PROVE CallOutcome(n, k, p)'
  <2>1. triggered[n][p] \in Nat /\ triggered'[n][p] \in Nat
    BY DEF Types
  <2>2. CallOutcome(n, k, p)
    BY DEF CallInv
  <2>3. triggered[n][p] > 0 => triggered'[n][p] > 0
    BY <2>1
  <2>4. outcome'[<<n, k>>][p] = outcome[<<n, k>>][p]
    OBVIOUS
  <2>5. QED
    BY <2>2, <2>3, <2>4, Zenon DEF CallOutcome
<1>3. RelayedCount(<<n, k>>)' = RelayedCount(<<n, k>>)
  BY DEF RelayedCount
<1>4. CallCounted(n, k)'
  BY <1>3 DEF CallInv, CallCounted
<1>5. QED
  BY <1>1, <1>2, <1>4 DEF CallInv

LEMMA RelayInit == Init => RelayInv
<1> SUFFICES ASSUME Init PROVE RelayInv
  OBVIOUS
<1>1. Cardinality(Person) \in Nat
  BY RecipientsAssumption, FS_CardinalityType
<1>2. Types
  BY <1>1, RelayBoundAssumption DEF Init, Types, Answer, Outcome
<1>3. \A n \in Notice, k \in 1..MaxAttempts : CallInv(n, k)
  BY CallType DEF Init, CallInv, CallMade, CallOutcome, CallCounted
<1>4. ASSUME NEW n \in Notice PROVE NoticeInv(n)
  <2>1. ASSUME NEW p \in Person PROVE triggered[n][p] <= Cardinality(SpentAttempts(n, p))
    <3>1. SpentAttempts(n, p) \in SUBSET (1..MaxAttempts)
      BY DEF SpentAttempts
    <3>2. Cardinality(SpentAttempts(n, p)) \in Nat
      BY <3>1, MoreAttempts
    <3>3. QED
      BY <3>2 DEF Init
  <2>2. QED
    BY <2>1 DEF Init, NoticeInv
<1>5. QED
  BY <1>2, <1>3, <1>4 DEF RelayInv

\* A post that starts no call: a mention of nobody, or one the hub rejects.
NoCall(n) == PostNobody(n) \/ PostRejected(n)

\* It changes only what its application knows.
LEMMA NoCallOK ==
    ASSUME RelayInv, NEW n \in Notice, NoCall(n)
    PROVE  RelayInv'
<1>0. Types
  BY DEF RelayInv
<1>1. /\ attempts[n] < MaxAttempts
      /\ attempts' = [attempts EXCEPT ![n] = attempts[n] + 1]
      /\ n \notin waiting
      /\ UNCHANGED <<waiting, hub, outcome, relayed, triggered>>
  BY DEF NoCall, PostNobody, PostRejected, MayPost
<1>2. \E a \in {"ignored", "not relayed", "no answer"} : answer' = [answer EXCEPT ![n] = a]
  BY DEF NoCall, PostNobody, PostRejected
<1>3. faults' = faults \/ (faults < MaxFaults /\ faults' = faults + 1)
  BY DEF NoCall, PostNobody, PostRejected
<1>4. /\ attempts \in [Notice -> 0..MaxAttempts] /\ faults \in 0..MaxFaults
      /\ triggered \in [Notice -> [Person -> Nat]]
  BY <1>0 DEF Types
<1>5. PICK x \in 0..MaxAttempts : attempts[n] = x
  BY <1>4
<1>6. /\ x + 1 \in 0..MaxAttempts /\ x + 1 > 0 /\ x + 1 >= x
      /\ attempts' = [attempts EXCEPT ![n] = x + 1]
  <2>1. x < MaxAttempts
    BY <1>1, <1>5
  <2>2. x + 1 \in 0..MaxAttempts /\ x + 1 > 0 /\ x + 1 >= x
    BY <2>1, RelayBoundAssumption
  <2>3. attempts' = [attempts EXCEPT ![n] = x + 1]
    BY <1>1, <1>5
  <2>4. QED
    BY <2>2, <2>3
<1>7. Types'
  <2>1. attempts' \in [Notice -> 0..MaxAttempts] /\ attempts'[n] > 0
    BY <1>4, <1>6
  <2>2. answer' \in [Notice -> Answer]
    BY <1>0, <1>2 DEF Types, Answer
  <2>3. waiting' \subseteq {m \in Notice : attempts'[m] > 0}
    BY <1>0, <1>1, <2>1 DEF Types
  <2>4. faults' \in 0..MaxFaults
    <3>1. PICK y \in 0..MaxFaults : faults = y
      BY <1>4
    <3>2. y < MaxFaults => y + 1 \in 0..MaxFaults
      BY RelayBoundAssumption
    <3>3. QED
      BY <1>3, <3>1, <3>2
  <2>5. QED
    BY <1>0, <1>1, <2>1, <2>2, <2>3, <2>4 DEF Types
<1>8. ASSUME NEW m \in Notice, NEW k \in 1..MaxAttempts PROVE CallInv(m, k)'
  <2>1. CallInv(m, k)
    BY DEF RelayInv
  <2>2. PICK y \in Nat : attempts[m] = y
    BY <1>4, RelayBoundAssumption
  <2>3. attempts'[m] >= attempts[m]
    <3>1. CASE m = n
      <4>1. attempts'[m] = x + 1 /\ attempts[m] = x
        BY <1>4, <1>5, <1>6, <3>1
      <4>2. QED
        BY <1>6, <4>1
    <3>2. CASE m # n
      <4>1. attempts'[m] = y
        BY <1>4, <1>6, <2>2, <3>2
      <4>2. y >= y
        OBVIOUS
      <4>3. QED
        BY <2>2, <4>1, <4>2
    <3>3. QED
      BY <3>1, <3>2
  <2>4. ASSUME NEW p \in Person PROVE triggered'[m][p] >= triggered[m][p]
    <3>1. PICK t \in Nat : triggered[m][p] = t
      BY <1>4
    <3>2. triggered'[m][p] = t
      BY <1>1, <3>1
    <3>3. t >= t
      OBVIOUS
    <3>4. QED
      BY <3>1, <3>2, <3>3
  <2>5. QED
    BY <1>0, <1>1, <1>7, <2>1, <2>3, <2>4, CallFrame
<1>9. ASSUME NEW m \in Notice PROVE NoticeInv(m)'
  <2>1. NoticeInv(m)
    BY DEF RelayInv
  <2>2. ASSUME NEW p \in Person PROVE triggered'[m][p] <= Cardinality(SpentAttempts(m, p)')
    <3>1. \A k \in 1..MaxAttempts : Spent(<<m, k>>, p) => Spent(<<m, k>>, p)'
      BY <1>1 DEF Spent
    <3>2. triggered'[m][p] = triggered[m][p] /\ triggered[m][p] <= Cardinality(SpentAttempts(m, p))
      BY <1>1, <2>1 DEF NoticeInv
    <3>3. triggered[m][p] \in Nat
      BY <1>4
    <3>4. QED
      BY <3>1, <3>2, <3>3, SpentKept
  <2>3. m \in waiting' => hub'[LastCall(m)'] = "handling"
    BY <1>0, <1>1, <2>1 DEF NoticeInv, LastCall, Types
  <2>4. answer'[m] = "relayed" => \E k \in 1..MaxAttempts : hub'[<<m, k>>] = "answered"
    BY <1>0, <1>1, <1>2, <2>1 DEF NoticeInv, Types
  <2>5. QED
    BY <2>2, <2>3, <2>4 DEF NoticeInv
<1>10. QED
  BY <1>7, <1>8, <1>9 DEF RelayInv

\* A post starts a call that did not exist before.
LEMMA PostOK ==
    ASSUME RelayInv, NEW n \in Notice, Post(n)
    PROVE  RelayInv'
<1> USE RelayBoundAssumption
<1> DEFINE new == attempts[n] + 1
<1>1. Types /\ NoticeInv(n)
  BY DEF RelayInv
<1>2. attempts[n] \in 0..MaxAttempts /\ attempts[n] < MaxAttempts /\ n \notin waiting
  BY <1>1 DEF Types, Post, MayPost
<1>3. new \in 1..MaxAttempts /\ ~(new <= attempts[n])
  BY <1>2
<1>4. <<n, new>> \in Call
  BY <1>3, CallType
<1>5. hub[<<n, new>>] = "none"
  BY <1>3 DEF RelayInv, CallInv, CallMade
<1>6. \A p \in Person : outcome[<<n, new>>][p] = "none"
  BY <1>3, <1>5 DEF RelayInv, CallInv, CallOutcome
<1>7. /\ attempts' = [attempts EXCEPT ![n] = new]
      /\ waiting' = waiting \cup {n}
      /\ hub' = [hub EXCEPT ![<<n, new>>] = "handling"]
      /\ outcome' = [outcome EXCEPT ![<<n, new>>] =
              [p \in Person |-> IF p \in Recipients[n] THEN "pending" ELSE "none"]]
      /\ UNCHANGED <<answer, relayed, triggered, faults>>
  BY DEF Post
<1> HIDE DEF new
<1>8. Types'
  <2>1. attempts' \in [Notice -> 0..MaxAttempts] /\ attempts'[n] > 0
    BY <1>1, <1>3, <1>7 DEF Types
  <2>2. waiting' \subseteq {m \in Notice : attempts'[m] > 0}
    BY <1>1, <1>7, <2>1 DEF Types
  <2>3. hub' \in [Call -> {"none", "handling", "answered", "dead"}]
    BY <1>1, <1>7 DEF Types
  <2>4. outcome' \in [Call -> [Person -> Outcome]]
    BY <1>1, <1>7 DEF Types, Outcome
  <2>5. QED
    BY <1>1, <1>7, <2>1, <2>2, <2>3, <2>4 DEF Types
<1>9. ASSUME NEW m \in Notice, NEW k \in 1..MaxAttempts PROVE CallInv(m, k)'
  <2>1. CallInv(m, k) /\ <<m, k>> \in Call
    BY CallType DEF RelayInv
  <2>2. CASE m = n /\ k = new
    <3>1. hub'[<<m, k>>] = "handling" /\ attempts'[m] = new
      BY <1>1, <1>4, <1>7, <2>2 DEF Types
    <3>2. \A p \in Person :
             outcome'[<<m, k>>][p] = IF p \in Recipients[n] THEN "pending" ELSE "none"
      BY <1>1, <1>4, <1>7, <2>2 DEF Types
    <3>3. CallMade(m, k)' /\ CallCounted(m, k)'
      BY <1>3, <2>2, <3>1 DEF CallMade, CallCounted
    <3>4. ASSUME NEW p \in Person PROVE CallOutcome(m, k, p)'
      BY <2>2, <3>1, <3>2 DEF CallOutcome
    <3>5. QED
      BY <3>3, <3>4 DEF CallInv
  <2>3. CASE ~(m = n /\ k = new)
    <3>1. <<m, k>> # <<n, new>>
      BY <2>3
    <3>2. hub'[<<m, k>>] = hub[<<m, k>>] /\ outcome'[<<m, k>>] = outcome[<<m, k>>]
      BY <1>1, <1>7, <2>1, <3>1 DEF Types
    <3>3. attempts'[m] >= attempts[m]
      BY <1>1, <1>2, <1>7 DEF Types, new
    <3>4. \A p \in Person : triggered'[m][p] >= triggered[m][p]
      BY <1>1, <1>7 DEF Types
    <3>5. QED
      BY <1>1, <1>7, <1>8, <2>1, <3>2, <3>3, <3>4, CallFrame
  <2>4. QED
    BY <2>2, <2>3
<1>10. ASSUME NEW m \in Notice PROVE NoticeInv(m)'
  <2>1. NoticeInv(m)
    BY DEF RelayInv
  <2>2. ASSUME NEW p \in Person PROVE triggered'[m][p] <= Cardinality(SpentAttempts(m, p)')
    <3>1. ASSUME NEW k \in 1..MaxAttempts, Spent(<<m, k>>, p)
          PROVE  Spent(<<m, k>>, p)'
      <4>1. <<m, k>> # <<n, new>>
        BY <1>5, <1>6, <3>1 DEF Spent, Ends
      <4>2. <<m, k>> \in Call
        BY CallType
      <4>3. QED
        BY <1>1, <1>7, <3>1, <4>1, <4>2 DEF Spent, Types
    <3>2. QED
      BY <1>1, <1>7, <2>1, <3>1, SpentKept DEF NoticeInv, Types
  <2>3. m \in waiting' => hub'[LastCall(m)'] = "handling"
    <3>1. CASE m = n
      BY <1>1, <1>4, <1>7, <3>1 DEF Types, LastCall
    <3>2. CASE m # n
      <4>1. attempts'[m] = attempts[m] /\ (m \in waiting' => m \in waiting)
        BY <1>1, <1>7, <3>2 DEF Types
      <4>2. <<m, attempts[m]>> # <<n, new>>
        BY <3>2
      <4>3. m \in waiting => attempts[m] \in 1..MaxAttempts
        BY <1>1 DEF Types
      <4>4. m \in waiting => hub'[<<m, attempts[m]>>] = hub[<<m, attempts[m]>>]
        BY <1>1, <1>7, <4>2, <4>3, CallType DEF Types
      <4>5. QED
        BY <2>1, <4>1, <4>4 DEF NoticeInv, LastCall
    <3>3. QED
      BY <3>1, <3>2
  <2>4. answer'[m] = "relayed" => \E k \in 1..MaxAttempts : hub'[<<m, k>>] = "answered"
    <3>1. ASSUME NEW k \in 1..MaxAttempts, hub[<<m, k>>] = "answered"
          PROVE  hub'[<<m, k>>] = "answered"
      <4>1. <<m, k>> \in Call
        BY CallType
      <4>2. QED
        BY <1>1, <1>5, <1>7, <3>1, <4>1 DEF Types
    <3>2. QED
      BY <1>7, <2>1, <3>1 DEF NoticeInv
  <2>5. QED
    BY <2>2, <2>3, <2>4 DEF NoticeInv
<1>11. QED
  BY <1>8, <1>9, <1>10 DEF RelayInv

\* A caller that gives up changes nothing for the hub.
LEMMA GiveUpOK ==
    ASSUME RelayInv, NEW n \in Notice, GiveUp(n)
    PROVE  RelayInv'
<1> USE RelayBoundAssumption
<1>1. Types
  BY DEF RelayInv
<1>2. Types'
  <2>1. faults' \in 0..MaxFaults
    <3>1. faults \in 0..MaxFaults
      BY <1>1 DEF Types
    <3>2. faults < MaxFaults /\ faults' = faults + 1
      BY DEF GiveUp
    <3>3. QED
      BY <3>1, <3>2
  <2>2. answer' \in [Notice -> Answer]
    BY <1>1 DEF Types, GiveUp, Answer
  <2>3. waiting' \subseteq {m \in Notice : attempts'[m] > 0}
    BY <1>1 DEF Types, GiveUp
  <2>4. UNCHANGED <<attempts, hub, outcome, relayed, triggered>>
    BY DEF GiveUp
  <2>5. QED
    BY <1>1, <2>1, <2>2, <2>3, <2>4 DEF Types
<1>3. ASSUME NEW m \in Notice, NEW k \in 1..MaxAttempts PROVE CallInv(m, k)'
  <2>1. CallInv(m, k)
    BY DEF RelayInv
  <2>2. attempts'[m] >= attempts[m] /\ \A p \in Person : triggered'[m][p] >= triggered[m][p]
    <3>1. attempts[m] \in 0..MaxAttempts /\ \A p \in Person : triggered[m][p] \in Nat
      BY <1>1 DEF Types
    <3>2. attempts' = attempts /\ triggered' = triggered
      BY DEF GiveUp
    <3>3. QED
      BY <3>1, <3>2
  <2>3. QED
    BY <1>1, <1>2, <2>1, <2>2, CallFrame DEF GiveUp
<1>4. ASSUME NEW m \in Notice PROVE NoticeInv(m)'
  <2>1. NoticeInv(m)
    BY DEF RelayInv
  <2>2. ASSUME NEW p \in Person PROVE triggered'[m][p] <= Cardinality(SpentAttempts(m, p)')
    BY <1>1, <2>1, SpentKept DEF NoticeInv, GiveUp, Spent, Types
  <2>3. m \in waiting' => hub'[LastCall(m)'] = "handling"
    BY <1>1, <2>1 DEF NoticeInv, GiveUp, LastCall
  <2>4. answer'[m] = "relayed" => \E k \in 1..MaxAttempts : hub'[<<m, k>>] = "answered"
    BY <1>1, <2>1 DEF NoticeInv, GiveUp, Types
  <2>5. QED
    BY <2>2, <2>3, <2>4 DEF NoticeInv
<1>5. QED
  BY <1>2, <1>3, <1>4 DEF RelayInv

\* A trigger that ends spends its attempt, and notifies at most once.
LEMMA TriggerOK ==
    ASSUME RelayInv, NEW n \in Notice, NEW k \in 1..MaxAttempts,
           NEW p \in Person, NEW o \in Ends, Trigger(<<n, k>>, p, o)
    PROVE  RelayInv'
<1> USE RelayBoundAssumption
<1>1. Types /\ <<n, k>> \in Call
  BY CallType DEF RelayInv
<1>2. CallInv(n, k) /\ CallOutcome(n, k, p)
  BY DEF RelayInv, CallInv
<1>3. /\ hub[<<n, k>>] = "handling"
      /\ outcome[<<n, k>>][p] = "pending"
      /\ outcome' = [outcome EXCEPT ![<<n, k>>][p] = o]
      /\ triggered' = [triggered EXCEPT ![n][p] = @ + Creates(o)]
      /\ UNCHANGED <<attempts, waiting, answer, hub, relayed>>
  BY DEF Trigger
<1>4. PICK new \in 0..1 :
         new = Creates(o) /\ (o \in {"accepted", "reply lost"} => new = 1)
  <2>1. Creates(o) = 0 \/ Creates(o) = 1
    BY Zenon DEF Creates
  <2>2. o \in {"accepted", "reply lost"} => Creates(o) = 1
    BY Zenon DEF Creates
  <2>3. 0 \in 0..1 /\ 1 \in 0..1
    OBVIOUS
  <2>4. QED
    BY <2>1, <2>2, <2>3, Zenon
<1>4a. new = 0 \/ new = 1
  <2>1. new \in 0..1
    BY <1>4, Zenon
  <2>2. QED
    BY <2>1
<1>4b. o \in {"accepted", "reply lost"} => new = 1
  BY <1>4, Zenon
<1>5. \A m \in Notice, q \in Person :
         /\ triggered[m][q] \in Nat
         /\ triggered'[m][q] = IF m = n /\ q = p THEN triggered[m][q] + new
                               ELSE triggered[m][q]
  BY <1>1, <1>3, <1>4 DEF Types
<1>6. \A m \in Notice, j \in 1..MaxAttempts, q \in Person :
         outcome'[<<m, j>>][q] = IF m = n /\ j = k /\ q = p THEN o ELSE outcome[<<m, j>>][q]
  BY <1>1, <1>3, CallType DEF Types
<1>7. Types'
  <2>1. faults' \in 0..MaxFaults
    BY <1>1 DEF Types, Trigger
  <2>2. outcome' \in [Call -> [Person -> Outcome]]
    BY <1>1, <1>3 DEF Types, Outcome, Ends
  <2>3. triggered' \in [Notice -> [Person -> Nat]]
    <3>1. triggered[n][p] + new \in Nat
      <4>1. triggered[n][p] \in Nat
        BY <1>5
      <4>2. QED
        BY <1>4a, <4>1
    <3>2. triggered' = [triggered EXCEPT ![n][p] = triggered[n][p] + new]
      BY <1>3, <1>4
    <3>3. QED
      BY <1>1, <3>1, <3>2 DEF Types
  <2>4. QED
    BY <1>1, <1>3, <2>1, <2>2, <2>3 DEF Types
<1>8. ASSUME NEW m \in Notice, NEW j \in 1..MaxAttempts PROVE CallInv(m, j)'
  <2>1. CallInv(m, j)
    BY DEF RelayInv
  <2>2. CASE m = n /\ j = k
    <3>1. CallMade(n, k)' /\ CallCounted(n, k)'
      BY <1>2, <1>3 DEF CallInv, CallMade, CallCounted
    <3>2. ASSUME NEW q \in Person PROVE CallOutcome(n, k, q)'
      <4>1. CallOutcome(n, k, q)
        BY <1>2 DEF CallInv
      <4>2. CASE q = p
        <5>1. outcome'[<<n, k>>][p] = o
          BY <1>6
        <5>2. o \in {"accepted", "reply lost"} => triggered'[n][p] > 0
          <6>1. triggered[n][p] \in Nat /\ triggered'[n][p] = triggered[n][p] + new
            BY <1>5
          <6>2. new = 1 => triggered'[n][p] > 0
            BY <6>1
          <6>3. QED
            BY <1>4b, <6>2, Zenon
        <5>3. p \in Recipients[n]
          BY <1>2, <1>3 DEF CallOutcome
        <5>4. o # "none" /\ o # "pending" /\ hub'[<<n, k>>] = "handling"
          BY <1>3 DEF Ends
        <5>5. QED
          BY <4>2, <5>1, <5>2, <5>3, <5>4, Zenon DEF CallOutcome
      <4>3. CASE q # p
        <5>1. outcome'[<<n, k>>][q] = outcome[<<n, k>>][q] /\ triggered'[n][q] = triggered[n][q]
          BY <1>5, <1>6, <4>3
        <5>2. hub' = hub
          BY <1>3
        <5>3. QED
          BY <4>1, <5>1, <5>2, Zenon DEF CallOutcome
      <4>4. QED
        BY <4>2, <4>3
    <3>3. QED
      BY <2>2, <3>1, <3>2 DEF CallInv
  <2>3. CASE ~(m = n /\ j = k)
    <3>1. <<m, j>> # <<n, k>> /\ <<m, j>> \in Call
      BY <2>3, CallType
    <3>2. outcome'[<<m, j>>] = outcome[<<m, j>>]
      BY <1>1, <1>3, <3>1 DEF Types
    <3>3. \A q \in Person : triggered'[m][q] >= triggered[m][q]
      BY <1>5, <1>4a
    <3>4. attempts'[m] >= attempts[m]
      BY <1>1, <1>3 DEF Types
    <3>5. QED
      BY <1>1, <1>3, <1>7, <2>1, <3>2, <3>3, <3>4, CallFrame
  <2>4. QED
    BY <2>2, <2>3
<1>9. ASSUME NEW m \in Notice PROVE NoticeInv(m)'
  <2>1. NoticeInv(m)
    BY DEF RelayInv
  <2>2. ASSUME NEW q \in Person PROVE triggered'[m][q] <= Cardinality(SpentAttempts(m, q)')
    <3>1. ASSUME NEW j \in 1..MaxAttempts, Spent(<<m, j>>, q)
          PROVE  Spent(<<m, j>>, q)'
      BY <1>3, <1>6, <3>1 DEF Spent
    <3>2. CASE m = n /\ q = p
      <4>1. k \notin SpentAttempts(n, p)
        BY <1>3 DEF SpentAttempts, Spent, Ends
      <4>2. k \in SpentAttempts(n, p)'
        BY <1>6 DEF SpentAttempts, Spent
      <4>3. SpentAttempts(n, p) \subseteq SpentAttempts(n, p)'
        BY <3>1, <3>2 DEF SpentAttempts
      <4>4. /\ SpentAttempts(n, p) \in SUBSET (1..MaxAttempts)
            /\ SpentAttempts(n, p)' \in SUBSET (1..MaxAttempts)
            /\ {k} \in SUBSET (1..MaxAttempts)
        BY DEF SpentAttempts
      <4>5. Cardinality(SpentAttempts(n, p)) + Cardinality({k})
              <= Cardinality(SpentAttempts(n, p)')
        BY <4>1, <4>2, <4>3, <4>4, NewAttempts
      <4>6. Cardinality({k}) = 1
        BY FS_Singleton
      <4>7. /\ Cardinality(SpentAttempts(n, p)) \in Nat
            /\ Cardinality(SpentAttempts(n, p)') \in Nat
        BY <4>3, <4>4, MoreAttempts
      <4>8. triggered[n][p] <= Cardinality(SpentAttempts(n, p))
        BY <2>1, <3>2 DEF NoticeInv
      <4>9. triggered'[n][p] = triggered[n][p] + new /\ triggered[n][p] \in Nat
        BY <1>5
      <4>10. triggered'[n][p] <= Cardinality(SpentAttempts(n, p)')
        BY <1>4a, <4>5, <4>6, <4>7, <4>8, <4>9
      <4>11. QED
        BY <3>2, <4>10
    <3>3. CASE ~(m = n /\ q = p)
      <4>1. triggered'[m][q] = triggered[m][q] /\ triggered[m][q] \in Nat
        BY <1>5, <3>3
      <4>2. triggered[m][q] <= Cardinality(SpentAttempts(m, q))
        BY <2>1 DEF NoticeInv
      <4>3. QED
        BY <3>1, <4>1, <4>2, SpentKept
    <3>4. QED
      BY <3>2, <3>3
  <2>3. QED
    BY <1>3, <2>1, <2>2 DEF NoticeInv, LastCall
<1>10. QED
  BY <1>7, <1>8, <1>9 DEF RelayInv

\* The hub answers a call whose triggers have all ended; it may have answered a
\* caller that has given up and posted again, whose new call is left alone.
LEMMA HubAnswerOK ==
    ASSUME RelayInv, NEW n \in Notice, NEW k \in 1..MaxAttempts, HubAnswer(<<n, k>>)
    PROVE  RelayInv'
<1> USE RelayBoundAssumption
<1> DEFINE c == <<n, k>>
<1>1. Types /\ c \in Call
  BY CallType DEF RelayInv
<1>2. /\ hub[c] = "handling"
      /\ GatherSettled(c)
      /\ hub' = [hub EXCEPT ![c] = "answered"]
      /\ relayed' = [relayed EXCEPT ![c] = RelayedCount(c)]
      /\ UNCHANGED <<attempts, outcome, triggered, faults>>
  BY DEF HubAnswer
<1>3. /\ waiting' \subseteq waiting
      /\ c = LastCall(n) => n \notin waiting'
  BY DEF HubAnswer
<1>4. answer' \in [Notice -> Answer] /\ \A m \in Notice : m # n => answer'[m] = answer[m]
  BY <1>1 DEF HubAnswer, Types, Answer
<1>5. \A d \in Call : hub'[d] = IF d = c THEN "answered" ELSE hub[d]
  BY <1>1, <1>2 DEF Types
<1>6. RelayedCount(c) \in 0..Cardinality(Person)
  BY <1>1, CountType
<1>7. Types'
  <2>1. relayed' \in [Call -> 0..Cardinality(Person)]
    BY <1>1, <1>2, <1>6 DEF Types
  <2>2. hub' \in [Call -> {"none", "handling", "answered", "dead"}]
    BY <1>1, <1>2 DEF Types
  <2>3. waiting' \subseteq {m \in Notice : attempts'[m] > 0}
    BY <1>1, <1>2, <1>3 DEF Types
  <2>4. QED
    BY <1>1, <1>2, <1>4, <2>1, <2>2, <2>3 DEF Types
<1>8. ASSUME NEW m \in Notice, NEW j \in 1..MaxAttempts PROVE CallInv(m, j)'
  <2>1. CallInv(m, j) /\ <<m, j>> \in Call
    BY CallType DEF RelayInv
  <2>2. CASE m = n /\ j = k
    <3>1. hub'[c] = "answered" /\ relayed'[c] = RelayedCount(c)
      BY <1>1, <1>2, <1>6 DEF Types
    <3>2. CallMade(n, k)'
      BY <1>2, <2>1, <2>2 DEF CallInv, CallMade
    <3>3. CallCounted(n, k)'
      BY <1>2, <3>1 DEF CallCounted, RelayedCount
    <3>4. ASSUME NEW q \in Person PROVE CallOutcome(n, k, q)'
      <4>1. CallOutcome(n, k, q)
        BY <2>1, <2>2 DEF CallInv
      <4>2. outcome[c][q] # "pending"
        BY <1>2 DEF GatherSettled
      <4>3. outcome' = outcome /\ triggered' = triggered
        BY <1>2
      <4>4. QED
        BY <1>2, <3>1, <4>1, <4>2, <4>3 DEF CallOutcome
    <3>5. QED
      BY <2>2, <3>2, <3>3, <3>4 DEF CallInv
  <2>3. CASE ~(m = n /\ j = k)
    <3>1. <<m, j>> # c
      BY <2>3
    <3>2. hub'[<<m, j>>] = hub[<<m, j>>]
      BY <1>5, <2>1, <3>1
    <3>3. relayed'[<<m, j>>] = relayed[<<m, j>>]
      BY <1>1, <1>2, <2>1, <3>1 DEF Types
    <3>4. attempts'[m] >= attempts[m] /\ \A q \in Person : triggered'[m][q] >= triggered[m][q]
      <4>1. attempts[m] \in 0..MaxAttempts /\ \A q \in Person : triggered[m][q] \in Nat
        BY <1>1 DEF Types
      <4>2. attempts' = attempts /\ triggered' = triggered
        BY <1>2
      <4>3. QED
        BY <4>1, <4>2
    <3>5. QED
      BY <1>1, <1>2, <1>7, <2>1, <3>2, <3>3, <3>4, CallFrame
  <2>4. QED
    BY <2>2, <2>3
<1>9. ASSUME NEW m \in Notice PROVE NoticeInv(m)'
  <2>1. NoticeInv(m)
    BY DEF RelayInv
  <2>2. ASSUME NEW q \in Person PROVE triggered'[m][q] <= Cardinality(SpentAttempts(m, q)')
    <3>1. ASSUME NEW j \in 1..MaxAttempts, Spent(<<m, j>>, q)
          PROVE  Spent(<<m, j>>, q)'
      <4>1. <<m, j>> \in Call
        BY CallType
      <4>2. QED
        BY <1>2, <1>5, <3>1, <4>1 DEF Spent
    <3>2. triggered[m][q] \in Nat /\ triggered'[m][q] = triggered[m][q]
      BY <1>1, <1>2 DEF Types
    <3>3. triggered[m][q] <= Cardinality(SpentAttempts(m, q))
      BY <2>1 DEF NoticeInv
    <3>4. QED
      BY <3>1, <3>2, <3>3, SpentKept
  <2>3. m \in waiting' => hub'[LastCall(m)'] = "handling"
    <3>1. SUFFICES ASSUME m \in waiting' PROVE hub'[LastCall(m)'] = "handling"
      OBVIOUS
    <3>2. m \in waiting /\ LastCall(m)' = LastCall(m)
      BY <1>2, <1>3, <3>1 DEF LastCall
    <3>3. attempts[m] \in 1..MaxAttempts
      BY <1>1, <3>2 DEF Types
    <3>4. LastCall(m) \in Call
      BY <3>3, CallType DEF LastCall
    <3>5. LastCall(m) # c
      BY <1>3, <3>1 DEF LastCall
    <3>6. QED
      BY <1>5, <2>1, <3>2, <3>4, <3>5 DEF NoticeInv
  <2>4. answer'[m] = "relayed" => \E j \in 1..MaxAttempts : hub'[<<m, j>>] = "answered"
    <3>1. CASE m = n
      BY <1>1, <1>5, <3>1
    <3>2. CASE m # n
      <4>1. \A j \in 1..MaxAttempts : hub'[<<m, j>>] = hub[<<m, j>>]
        BY <1>5, <3>2, CallType
      <4>2. QED
        BY <1>4, <2>1, <3>2, <4>1 DEF NoticeInv
    <3>3. QED
      BY <3>1, <3>2
  <2>5. QED
    BY <2>2, <2>3, <2>4 DEF NoticeInv
<1>10. QED
  BY <1>7, <1>8, <1>9 DEF RelayInv

\* A crash spends every attempt that was under way, so that the triggers that
\* still reached Novu are paid for.
LEMMA HubCrashOK ==
    ASSUME RelayInv, HubCrash
    PROVE  RelayInv'
<1> USE RelayBoundAssumption
<1>1. Types
  BY DEF RelayInv
<1>2. PICK reached \in SUBSET {u \in Call \X Person :
                               hub[u[1]] = "handling" /\ outcome[u[1]][u[2]] = "pending"} :
         triggered' = [m \in Notice |-> [q \in Person |-> triggered[m][q]
             + Cardinality({j \in 1..MaxAttempts : <<<<m, j>>, q>> \in reached})]]
  BY DEF HubCrash
<1> DEFINE R(m, q) == {j \in 1..MaxAttempts : <<<<m, j>>, q>> \in reached}
<1>3. /\ hub' = [d \in Call |-> IF hub[d] = "handling" THEN "dead" ELSE hub[d]]
      /\ UNCHANGED <<attempts, outcome, relayed>>
      /\ \A m \in waiting' : m \in waiting /\ hub[LastCall(m)] # "handling"
      /\ \A m \in Notice : answer'[m] = "relayed" => answer[m] = "relayed"
  BY DEF HubCrash
<1>4. \A d \in Call : hub'[d] = IF hub[d] = "handling" THEN "dead" ELSE hub[d]
  BY <1>3
<1>5. ASSUME NEW m \in Notice, NEW q \in Person
      PROVE  /\ triggered[m][q] \in Nat
             /\ Cardinality(R(m, q)) \in Nat
             /\ triggered'[m][q] = triggered[m][q] + Cardinality(R(m, q))
             /\ triggered'[m][q] \in Nat
             /\ triggered'[m][q] >= triggered[m][q]
  <2>1. triggered[m][q] \in Nat
    BY <1>1 DEF Types
  <2>2. R(m, q) \in SUBSET (1..MaxAttempts)
    OBVIOUS
  <2>3. Cardinality(R(m, q)) \in Nat
    BY <2>2, MoreAttempts
  <2>4. triggered'[m][q] = triggered[m][q] + Cardinality(R(m, q))
    BY <1>2
  <2> HIDE DEF R
  <2>5. QED
    BY <2>1, <2>3, <2>4
<1> HIDE DEF R
<1>6. Types'
  <2>1. faults' \in 0..MaxFaults
    <3>1. faults \in 0..MaxFaults
      BY <1>1 DEF Types
    <3>2. faults < MaxFaults /\ faults' = faults + 1
      BY DEF HubCrash
    <3>3. QED
      BY <3>1, <3>2
  <2>2. hub' \in [Call -> {"none", "handling", "answered", "dead"}]
    BY <1>1, <1>3 DEF Types
  <2>3. answer' \in [Notice -> Answer]
    BY <1>1 DEF HubCrash, Types, Answer
  <2>4. waiting' \subseteq {m \in Notice : attempts'[m] > 0}
    BY <1>1, <1>3 DEF Types
  <2>5. triggered' \in [Notice -> [Person -> Nat]]
    BY <1>2, <1>5
  <2>6. QED
    BY <1>1, <1>3, <2>1, <2>2, <2>3, <2>4, <2>5 DEF Types
<1>7. ASSUME NEW m \in Notice, NEW j \in 1..MaxAttempts PROVE CallInv(m, j)'
  <2>1. CallInv(m, j) /\ <<m, j>> \in Call
    BY CallType DEF RelayInv
  <2>2. CASE hub[<<m, j>>] = "handling"
    <3>1. hub'[<<m, j>>] = "dead"
      BY <1>4, <2>1, <2>2
    <3>2. CallMade(m, j)' /\ CallCounted(m, j)'
      BY <1>3, <2>1, <2>2, <3>1 DEF CallInv, CallMade, CallCounted
    <3>3. ASSUME NEW q \in Person PROVE CallOutcome(m, j, q)'
      <4>1. CallOutcome(m, j, q)
        BY <2>1 DEF CallInv
      <4>2. triggered[m][q] > 0 => triggered'[m][q] > 0
        BY <1>5
      <4>3. outcome' = outcome
        BY <1>3
      <4>4. QED
        BY <2>2, <3>1, <4>1, <4>2, <4>3, Zenon DEF CallOutcome
    <3>4. QED
      BY <3>2, <3>3 DEF CallInv
  <2>3. CASE hub[<<m, j>>] # "handling"
    <3>1. hub'[<<m, j>>] = hub[<<m, j>>]
      BY <1>4, <2>1, <2>3
    <3>2. attempts'[m] >= attempts[m]
      <4>1. attempts[m] \in 0..MaxAttempts /\ attempts' = attempts
        BY <1>1, <1>3 DEF Types
      <4>2. QED
        BY <4>1
    <3>3. QED
      BY <1>1, <1>3, <1>5, <1>6, <2>1, <3>1, <3>2, CallFrame
  <2>4. QED
    BY <2>2, <2>3
<1>8. ASSUME NEW m \in Notice PROVE NoticeInv(m)'
  <2>1. NoticeInv(m)
    BY DEF RelayInv
  <2>2. ASSUME NEW q \in Person PROVE triggered'[m][q] <= Cardinality(SpentAttempts(m, q)')
    <3>1. /\ SpentAttempts(m, q) \in SUBSET (1..MaxAttempts)
          /\ SpentAttempts(m, q)' \in SUBSET (1..MaxAttempts)
          /\ R(m, q) \in SUBSET (1..MaxAttempts)
      BY DEF SpentAttempts, R
    <3>2. ASSUME NEW j \in R(m, q)
          PROVE  j \notin SpentAttempts(m, q) /\ j \in SpentAttempts(m, q)'
      <4>1. j \in 1..MaxAttempts /\ <<m, j>> \in Call
        BY <3>1, CallType
      <4>2. hub[<<m, j>>] = "handling" /\ outcome[<<m, j>>][q] = "pending"
        BY DEF R
      <4>3. ~Spent(<<m, j>>, q) /\ Spent(<<m, j>>, q)'
        BY <1>4, <4>1, <4>2 DEF Spent, Ends
      <4>4. QED
        BY <4>1, <4>3 DEF SpentAttempts
    <3>3. ASSUME NEW j \in SpentAttempts(m, q) PROVE j \in SpentAttempts(m, q)'
      <4>1. j \in 1..MaxAttempts /\ <<m, j>> \in Call /\ Spent(<<m, j>>, q)
        BY CallType DEF SpentAttempts
      <4>2. Spent(<<m, j>>, q)'
        BY <1>3, <1>4, <4>1 DEF Spent
      <4>3. QED
        BY <4>1, <4>2 DEF SpentAttempts
    <3>4. Cardinality(SpentAttempts(m, q)) + Cardinality(R(m, q))
            <= Cardinality(SpentAttempts(m, q)')
      BY <3>1, <3>2, <3>3, NewAttempts
    <3>5. /\ Cardinality(SpentAttempts(m, q)) \in Nat
          /\ Cardinality(SpentAttempts(m, q)') \in Nat
      BY <3>1, MoreAttempts
    <3>6. triggered[m][q] <= Cardinality(SpentAttempts(m, q))
      BY <2>1 DEF NoticeInv
    <3>7. QED
      BY <1>5, <3>4, <3>5, <3>6
  <2>3. m \notin waiting'
    BY <1>3, <2>1 DEF NoticeInv
  <2>4. answer'[m] = "relayed" => \E j \in 1..MaxAttempts : hub'[<<m, j>>] = "answered"
    BY <1>3, <1>4, <2>1, CallType DEF NoticeInv
  <2>5. QED
    BY <2>2, <2>3, <2>4 DEF NoticeInv
<1>9. QED
  BY <1>6, <1>7, <1>8 DEF RelayInv

\* Every step of the application, the connector, the hub and Novu.
LEMMA RelayStep == RelayInv /\ [Next]_vars => RelayInv'
<1> SUFFICES ASSUME RelayInv, [Next]_vars PROVE RelayInv'
  OBVIOUS
<1>1. ASSUME NEW n \in Notice, PostNobody(n) \/ PostRejected(n) PROVE RelayInv'
  BY <1>1, NoCallOK DEF NoCall
<1>2. ASSUME NEW n \in Notice, Post(n) PROVE RelayInv'
  BY <1>2, PostOK
<1>3. ASSUME NEW n \in Notice, GiveUp(n) PROVE RelayInv'
  BY <1>3, GiveUpOK
<1>4. ASSUME NEW c \in Call, NEW p \in Person, NEW o \in Ends, Trigger(c, p, o)
      PROVE  RelayInv'
  <2>1. c[1] \in Notice /\ c[2] \in 1..MaxAttempts /\ c = <<c[1], c[2]>>
    BY CallType
  <2>2. Trigger(<<c[1], c[2]>>, p, o)
    BY <1>4, <2>1
  <2>3. QED
    BY <2>1, <2>2, TriggerOK
<1>5. ASSUME NEW c \in Call, HubAnswer(c) PROVE RelayInv'
  <2>1. c[1] \in Notice /\ c[2] \in 1..MaxAttempts /\ c = <<c[1], c[2]>>
    BY CallType
  <2>2. HubAnswer(<<c[1], c[2]>>)
    BY <1>5, <2>1
  <2>3. QED
    BY <2>1, <2>2, HubAnswerOK
<1>6. CASE HubCrash
  BY <1>6, HubCrashOK
<1>7. CASE UNCHANGED vars
  <2>1. Types'
    BY <1>7 DEF vars, RelayInv, Types
  <2>2. ASSUME NEW n \in Notice, NEW k \in 1..MaxAttempts PROVE CallInv(n, k)'
    <3>1. CallInv(n, k)
      BY DEF RelayInv
    <3>2. RelayedCount(<<n, k>>)' = RelayedCount(<<n, k>>)
      BY <1>7 DEF vars, RelayedCount
    <3>3. QED
      BY <1>7, <3>1, <3>2 DEF vars, CallInv, CallMade, CallOutcome, CallCounted
  <2>3. ASSUME NEW n \in Notice PROVE NoticeInv(n)'
    <3>1. NoticeInv(n)
      BY DEF RelayInv
    <3>2. \A p \in Person : SpentAttempts(n, p)' = SpentAttempts(n, p)
      BY <1>7 DEF vars, SpentAttempts, Spent
    <3>3. QED
      BY <1>7, <3>1, <3>2 DEF vars, NoticeInv, LastCall
  <2>4. QED
    BY <2>1, <2>2, <2>3 DEF RelayInv
<1>8. QED
  BY <1>1, <1>2, <1>3, <1>4, <1>5, <1>6, <1>7 DEF Next

\* The invariant holds of every state of every run.
THEOREM RelayInvariant == Spec => []RelayInv
<1>1. Init => RelayInv
  BY RelayInit
<1>2. RelayInv /\ [Next]_vars => RelayInv'
  BY RelayStep
<1>3. QED
  BY <1>1, <1>2, PTL DEF Spec
-----------------------------------------------------------------------------
(* What the invariant shows *)

\* An answer counts triggers of its own call's recipients that were answered.
LEMMA CountedReached == RelayInv => CountReachedNovu
<1> SUFFICES ASSUME RelayInv, NEW c \in Call, hub[c] = "answered"
             PROVE  relayed[c] <= Cardinality(
                        {p \in Recipients[c[1]] : outcome[c][p] # "unreachable"})
  BY DEF CountReachedNovu
<1> DEFINE counted == {p \in Person : outcome[c][p] \in {"accepted", "refused"}}
           reached == {p \in Recipients[c[1]] : outcome[c][p] # "unreachable"}
<1>1. c[1] \in Notice /\ c[2] \in 1..MaxAttempts /\ c = <<c[1], c[2]>>
  BY CallType
<1>2. relayed[c] = Cardinality(counted)
  BY <1>1 DEF RelayInv, CallInv, CallCounted, RelayedCount
<1>3. ASSUME NEW p \in counted PROVE p \in reached
  <2>1. CallOutcome(c[1], c[2], p)
    BY <1>1 DEF RelayInv, CallInv
  <2>2. QED
    BY <1>1, <2>1 DEF CallOutcome
<1>4. reached \in SUBSET Person
  BY <1>1, RecipientsAssumption
<1>5. IsFiniteSet(reached)
  BY <1>4, RecipientsAssumption, FS_Subset
<1>6. counted \in SUBSET reached
  BY <1>3
<1> HIDE DEF counted, reached
<1>7. Cardinality(counted) <= Cardinality(reached)
  BY <1>5, <1>6, FS_Subset
<1>8. QED
  BY <1>2, <1>7 DEF reached

\* Every variable keeps its type; in particular nobody is notified more often
\* than a notice may be posted, and no answer counts who was not reached.
THEOREM RelayTypeCorrect == Spec => []TypeOK
<1> USE RelayBoundAssumption
<1>1. RelayInv => TypeOK
  <2> SUFFICES ASSUME RelayInv PROVE TypeOK
    OBVIOUS
  <2>1. Types
    BY DEF RelayInv
  <2>2. ASSUME NEW n \in Notice, NEW p \in Person
        PROVE  triggered[n][p] \in 0..MaxAttempts
    <3>1. Cardinality(1..MaxAttempts) = MaxAttempts
      BY FirstAttempts
    <3>2. SpentAttempts(n, p) \in SUBSET (1..MaxAttempts)
      BY DEF SpentAttempts
    <3>3. /\ Cardinality(SpentAttempts(n, p)) \in Nat
          /\ Cardinality(SpentAttempts(n, p)) <= MaxAttempts
      BY <3>1, <3>2, MoreAttempts
    <3>4. triggered[n][p] \in Nat /\ triggered[n][p] <= Cardinality(SpentAttempts(n, p))
      BY <2>1 DEF RelayInv, NoticeInv, Types
    <3>5. QED
      BY <3>3, <3>4
  <2>3. triggered \in [Notice -> [Person -> 0..MaxAttempts]]
    BY <2>1, <2>2 DEF Types
  <2>4. \A n \in waiting : hub[LastCall(n)] = "handling"
    BY <2>1 DEF RelayInv, NoticeInv, Types
  <2>5. QED
    BY <2>1, <2>3, <2>4, CountedReached DEF TypeOK, Types
<1>2. QED
  BY <1>1, RelayInvariant, PTL

\* An answered call has an outcome for each recipient, and one that is not a
\* failure has left a notification.
LEMMA MissedByFailure == RelayInv => MissedOnlyByFailure
<1> SUFFICES ASSUME RelayInv, NEW n \in Notice, answer[n] = "relayed",
                    NEW p \in Recipients[n], triggered[n][p] = 0
             PROVE  \E k \in 1..MaxAttempts :
                        outcome[<<n, k>>][p] \in {"refused", "unreachable"}
  BY DEF MissedOnlyByFailure
<1>1. PICK k \in 1..MaxAttempts : hub[<<n, k>>] = "answered"
  BY DEF RelayInv, NoticeInv
<1>2. p \in Person
  BY RecipientsAssumption
<1>3. CallOutcome(n, k, p)
  BY <1>2 DEF RelayInv, CallInv
<1>4. outcome[<<n, k>>][p] \in Outcome
  BY <1>2, CallType DEF RelayInv, Types
<1>5. outcome[<<n, k>>][p] # "none" /\ outcome[<<n, k>>][p] # "pending"
  BY <1>1, <1>3 DEF CallOutcome
<1>6. ~(triggered[n][p] > 0)
  OBVIOUS
<1>7. outcome[<<n, k>>][p] \notin {"accepted", "reply lost"}
  BY <1>3, <1>6 DEF CallOutcome
<1>8. outcome[<<n, k>>][p] \in {"refused", "unreachable"}
  BY <1>4, <1>5, <1>7 DEF Outcome
<1>9. QED
  BY <1>8

\* For any notices, retries and failures, a recipient of an acknowledged notice
\* who was not notified is one whose trigger was refused or did not get through.
THEOREM MissedSafety == Spec => []MissedOnlyByFailure
<1>1. RelayInv => MissedOnlyByFailure
  BY MissedByFailure
<1>2. QED
  BY <1>1, RelayInvariant, PTL

\* A person's notifications are as many as the spent attempts at most, and
\* those no more than the posts.
LEMMA DuplicateByRetry == RelayInv => DuplicateOnlyByRetry
<1> USE RelayBoundAssumption
<1> SUFFICES ASSUME RelayInv, NEW n \in Notice, NEW p \in Person
             PROVE  triggered[n][p] <= attempts[n]
  BY DEF DuplicateOnlyByRetry
<1>1. attempts[n] \in 0..MaxAttempts /\ triggered[n][p] \in Nat
  BY DEF RelayInv, Types
<1>2. ASSUME NEW k \in SpentAttempts(n, p) PROVE k \in 1..attempts[n]
  <2>1. k \in 1..MaxAttempts /\ Spent(<<n, k>>, p)
    BY DEF SpentAttempts
  <2>2. CallOutcome(n, k, p) /\ CallMade(n, k)
    BY <2>1 DEF RelayInv, CallInv
  <2>3. hub[<<n, k>>] # "none"
    BY <2>1, <2>2 DEF Spent, CallOutcome, Ends
  <2>4. QED
    BY <1>1, <2>1, <2>2, <2>3 DEF CallMade
<1>3. SpentAttempts(n, p) \in SUBSET (1..MaxAttempts) /\ SpentAttempts(n, p) \subseteq 1..attempts[n]
  BY <1>2 DEF SpentAttempts
<1>4. 1..attempts[n] \in SUBSET (1..MaxAttempts)
  BY <1>1
<1>5. Cardinality(1..attempts[n]) = attempts[n]
  BY <1>1, FirstAttempts
<1>6. /\ Cardinality(SpentAttempts(n, p)) \in Nat
      /\ Cardinality(SpentAttempts(n, p)) <= attempts[n]
  BY <1>3, <1>4, <1>5, MoreAttempts
<1>7. triggered[n][p] <= Cardinality(SpentAttempts(n, p))
  BY DEF RelayInv, NoticeInv
<1>8. QED
  BY <1>1, <1>6, <1>7

\* For any number of attempts, failures and crashes, each copy of a notification
\* took a post of its own.
THEOREM DuplicateSafety == Spec => []DuplicateOnlyByRetry
<1>1. RelayInv => DuplicateOnlyByRetry
  BY DuplicateByRetry
<1>2. QED
  BY <1>1, RelayInvariant, PTL

-----------------------------------------------------------------------------
(* The hand-off *)

\* Whoever still waits has not been told that the notice was relayed.
Unanswered == \A n \in waiting : answer[n] # "relayed"

\* An application posts again only after an answer that was not a success.
LEMMA UnansweredInvariant == Spec => []Unanswered
<1>1. Init => Unanswered
  BY DEF Init, Unanswered
<1>2. ASSUME RelayInv, Unanswered, [Next]_vars
      PROVE  Unanswered'
  <2>1. waiting \subseteq Notice /\ answer \in [Notice -> Answer]
    BY <1>2 DEF RelayInv, Types
  <2>2. CASE \E n \in Notice : PostNobody(n) \/ Post(n) \/ PostRejected(n) \/ GiveUp(n)
    BY <1>2, <2>1, <2>2 DEF Unanswered, PostNobody, Post, PostRejected, GiveUp, MayPost
  <2>3. CASE \E c \in Call, p \in Person, o \in Ends : Trigger(c, p, o)
    BY <1>2, <2>3 DEF Unanswered, Trigger
  <2>4. CASE \E c \in Call : HubAnswer(c)
    BY <1>2, <2>1, <2>4 DEF Unanswered, HubAnswer
  <2>5. CASE HubCrash
    BY <1>2, <2>1, <2>5 DEF Unanswered, HubCrash
  <2>6. CASE UNCHANGED vars
    BY <1>2, <2>6 DEF Unanswered, vars
  <2>7. QED
    BY <1>2, <2>2, <2>3, <2>4, <2>5, <2>6 DEF Next
<1>3. QED
  BY <1>1, <1>2, RelayInvariant, PTL DEF Spec

\* Only a trigger of a notice that was posted can have failed.
SpoiledOfPosted == Spoiled \subseteq Posted

\* A failed trigger belongs to a call, and a call to a post.
LEMMA SpoiledPosted == RelayInv => SpoiledOfPosted
<1> SUFFICES ASSUME RelayInv, NEW np \in Due, NEW k \in 1..MaxAttempts,
                    outcome[<<np[1], k>>][np[2]] \in {"refused", "unreachable"}
             PROVE  attempts[np[1]] > 0
  BY DEF Spoiled, Posted, SpoiledOfPosted
<1>1. np[1] \in Notice /\ np[2] \in Person
  BY DEF Due
<1>2. CallOutcome(np[1], k, np[2]) /\ CallMade(np[1], k)
  BY <1>1 DEF RelayInv, CallInv
<1>3. attempts[np[1]] \in Nat /\ k \in Nat /\ k > 0
  BY <1>1, RelayBoundAssumption DEF RelayInv, Types
<1>4. hub[<<np[1], k>>] # "none"
  BY <1>2 DEF CallOutcome
<1>5. QED
  BY <1>2, <1>3, <1>4 DEF CallMade

Held == {np \in Posted : answer[np[1]] # "relayed"}
Notified == {np \in Posted : triggered[np[1]][np[2]] > 0}

\* A step that posts nothing, takes back no notification, failure or success,
\* is work on what was handed over.
LEMMA WorkStep ==
    ASSUME RelayInv', UNCHANGED attempts,
           \A n \in Notice : answer[n] = "relayed" => answer'[n] = "relayed",
           \A n \in Notice, p \in Person :
               triggered[n][p] > 0 => triggered'[n][p] > 0,
           \A c \in Call, p \in Person :
               outcome[c][p] \in {"refused", "unreachable"} => outcome'[c][p] = outcome[c][p]
    PROVE  Novu!Work
<1>1. Spoiled' \subseteq Posted'
  <2>1. RelayInv' => SpoiledOfPosted'
    BY SpoiledPosted, PTL
  <2>2. QED
    BY <2>1 DEF SpoiledOfPosted
<1> USE DEF Due
<1>2. Posted' = Posted
  BY DEF Posted
<1>3. Notified' \in SUBSET Posted /\ Notified \subseteq Notified'
  BY <1>2 DEF Notified, Posted
<1>4. Spoiled \subseteq Spoiled'
  BY DEF Spoiled, Call
<1>5. Held' \in SUBSET Held
  BY <1>2 DEF Held, Posted
<1>6. Held \ Held' \subseteq Notified' \cup Spoiled'
  <2> SUFFICES ASSUME NEW np \in Posted, answer'[np[1]] = "relayed",
                      ~(triggered'[np[1]][np[2]] > 0)
               PROVE  np \in Spoiled'
    BY <1>2 DEF Held, Notified
  <2>1. np[1] \in Notice /\ np[2] \in Recipients[np[1]] /\ np[2] \in Person /\ np \in Due
    BY DEF Posted
  <2>2. triggered'[np[1]][np[2]] = 0
    BY <2>1 DEF RelayInv, Types
  <2>3. MissedOnlyByFailure'
    <3>1. RelayInv' => MissedOnlyByFailure'
      BY MissedByFailure, PTL
    <3>2. QED
      BY <3>1
  <2>4. QED
    BY <2>1, <2>2, <2>3 DEF MissedOnlyByFailure, Spoiled
<1>7. QED
  BY <1>1, <1>2, <1>3, <1>4, <1>5, <1>6 DEF Novu!Work, Held, Notified

\* The number of a notice's next post has not been used: its call has left no
\* trace.
LEMMA FreshCall ==
    ASSUME RelayInv, NEW n \in Notice, attempts[n] < MaxAttempts, NEW p \in Person
    PROVE  /\ attempts[n] + 1 \in 1..MaxAttempts
           /\ outcome[<<n, attempts[n] + 1>>][p] = "none"
<1>1. PICK a \in Nat : attempts[n] = a
  BY DEF RelayInv, Types
<1>2. a + 1 \in 1..MaxAttempts /\ ~(a + 1 <= a)
  BY <1>1, RelayBoundAssumption
<1>3. CallMade(n, a + 1) /\ CallOutcome(n, a + 1, p)
  BY <1>2 DEF RelayInv, CallInv
<1>4. QED
  BY <1>1, <1>2, <1>3 DEF CallMade, CallOutcome

\* A post that somebody is named in.
ForSomebody(n) == Post(n) \/ PostRejected(n)

\* Whether or not it starts a call, it hands over the notice for each
\* recipient, unless it repeats one.
LEMMA PostOffers ==
    ASSUME RelayInv, NEW n \in Notice, ForSomebody(n), Spoiled' = Spoiled
    PROVE  Novu!Offer
<1> DEFINE new == {np \in Due \ Posted : np[1] = n}
<1>1. answer[n] # "relayed" /\ UNCHANGED triggered
  BY DEF ForSomebody, Post, PostRejected, MayPost
<1>2. PICK a \in Nat : attempts[n] = a
  BY DEF RelayInv, Types
<1>3. attempts' = [attempts EXCEPT ![n] = a + 1] /\ a + 1 > 0
  <2>1. attempts' = [attempts EXCEPT ![n] = attempts[n] + 1]
    BY DEF ForSomebody, Post, PostRejected
  <2>2. a + 1 > 0
    BY <1>2
  <2>3. QED
    BY <1>2, <2>1, <2>2
<1>4. attempts \in [Notice -> Nat] /\ answer \in [Notice -> Answer]
  BY RelayBoundAssumption DEF RelayInv, Types
<1>5. \A m \in Notice : attempts'[m] > 0 <=> attempts[m] > 0 \/ m = n
  BY <1>3, <1>4
<1>6. Posted' = Posted \cup new
  BY <1>5 DEF Posted, Due
<1>7. Held' = Held \cup new
  <2>1. \A m \in Notice : answer'[m] = "relayed" <=> answer[m] = "relayed"
    BY <1>1, <1>4 DEF ForSomebody, Post, PostRejected
  <2>2. \A np \in Due : np[1] \in Notice
    BY DEF Due
  <2>3. Posted \subseteq Due /\ new \subseteq Due
    BY DEF Posted
  <2>4. QED
    BY <1>1, <1>6, <2>1, <2>2, <2>3 DEF Held
<1>8. Notified' = Notified
  <2> SUFFICES ASSUME NEW np \in new PROVE ~(triggered[np[1]][np[2]] > 0)
    BY <1>1, <1>6 DEF Notified
  <2>1. np[1] = n /\ n \in Notice /\ np[2] \in Person /\ ~(attempts[n] > 0)
    BY DEF Due, Posted
  <2>2. triggered[n][np[2]] <= attempts[n]
    BY <2>1, DuplicateByRetry DEF DuplicateOnlyByRetry
  <2>3. triggered[n][np[2]] \in Nat /\ attempts[n] \in Nat
    BY <1>4, <2>1 DEF RelayInv, Types
  <2>4. QED
    BY <2>1, <2>2, <2>3
<1>9. new \in SUBSET (Due \ Posted)
  OBVIOUS
<1>10. QED
  BY <1>6, <1>7, <1>8, <1>9 DEF Novu!Offer, Held, Notified

\* The triggers a post starts have not failed.
LEMMA PostSpoilsNothing ==
    ASSUME RelayInv, NEW n \in Notice, Post(n)
    PROVE  Spoiled' = Spoiled
<1>1. attempts[n] < MaxAttempts
  BY DEF Post, MayPost
<1> SUFFICES ASSUME NEW np \in Due, NEW k \in 1..MaxAttempts
             PROVE  outcome'[<<np[1], k>>][np[2]] \in {"refused", "unreachable"}
                    <=> outcome[<<np[1], k>>][np[2]] \in {"refused", "unreachable"}
  BY DEF Spoiled
<1>2. np[1] \in Notice /\ np[2] \in Person /\ <<np[1], k>> \in Call
  BY DEF Due, Call
<1>3. outcome \in [Call -> [Person -> Outcome]]
  BY DEF RelayInv, Types
<1>4. CASE np[1] = n /\ k = attempts[n] + 1
  <2>1. outcome[<<np[1], k>>][np[2]] = "none"
    BY <1>1, <1>2, <1>4, FreshCall
  <2>2. outcome'[<<np[1], k>>][np[2]] \in {"pending", "none"}
    BY <1>2, <1>3, <1>4 DEF Post
  <2>3. QED
    BY <2>1, <2>2
<1>5. CASE ~(np[1] = n /\ k = attempts[n] + 1)
  <2>1. <<np[1], k>> # <<n, attempts[n] + 1>>
    BY <1>5
  <2>2. outcome'[<<np[1], k>>] = outcome[<<np[1], k>>]
    BY <1>2, <1>3, <2>1 DEF Post
  <2>3. QED
    BY <2>2
<1>6. QED
  BY <1>4, <1>5

\* Nothing that is handed over depends on a mention of nobody.
LEMMA PostNobodyStutters ==
    ASSUME RelayInv, NEW n \in Notice, PostNobody(n)
    PROVE  UNCHANGED <<Posted, Held, Notified, Spoiled>>
<1>1. \A np \in Due : np[1] \in Notice /\ np[1] # n
  BY DEF Due, PostNobody
<1>2. attempts \in [Notice -> 0..MaxAttempts] /\ answer \in [Notice -> Answer]
  BY DEF RelayInv, Types
<1>3. \A np \in Due : attempts'[np[1]] = attempts[np[1]] /\ answer'[np[1]] = answer[np[1]]
  BY <1>1, <1>2 DEF PostNobody
<1>4. UNCHANGED <<triggered, outcome>>
  BY DEF PostNobody
<1>5. Posted' = Posted
  BY <1>3 DEF Posted, Due
<1>6. Posted \subseteq Due
  BY DEF Posted
<1>7. QED
  BY <1>3, <1>4, <1>5, <1>6 DEF Held, Notified, Spoiled, Due

\* A caller that gives up, a trigger that ends, an answer and a crash only add
\* to what is done or has failed, and never take back an answer.
LEMMA HubWorks ==
    ASSUME RelayInv, RelayInv', Unanswered,
           \/ \E n \in Notice : GiveUp(n)
           \/ \E c \in Call, p \in Person, o \in Ends : Trigger(c, p, o)
           \/ \E c \in Call : HubAnswer(c)
           \/ HubCrash
    PROVE  Novu!Work
<1>1. /\ waiting \subseteq Notice /\ answer \in [Notice -> Answer]
      /\ outcome \in [Call -> [Person -> Outcome]]
      /\ triggered \in [Notice -> [Person -> Nat]]
  BY DEF RelayInv, Types
<1>2. /\ UNCHANGED attempts
      /\ \A n \in Notice : answer[n] = "relayed" => answer'[n] = "relayed"
  BY <1>1 DEF GiveUp, Trigger, HubAnswer, HubCrash, Unanswered
<1>3. \A c \in Call, p \in Person :
          outcome[c][p] \in {"refused", "unreachable"} => outcome'[c][p] = outcome[c][p]
  <2>1. CASE UNCHANGED outcome
    BY <2>1
  <2>2. CASE \E c \in Call, p \in Person, o \in Ends : Trigger(c, p, o)
    <3>1. PICK c \in Call, p \in Person, o \in Ends : Trigger(c, p, o)
      BY <2>2
    <3>2. outcome' = [outcome EXCEPT ![c][p] = o] /\ outcome[c][p] = "pending"
      BY <3>1 DEF Trigger
    <3>3. QED
      BY <1>1, <3>2
  <2>3. QED
    BY <2>1, <2>2 DEF GiveUp, HubAnswer, HubCrash
<1>4. ASSUME NEW n \in Notice, NEW p \in Person, triggered[n][p] > 0
      PROVE  triggered'[n][p] > 0
  <2>1. triggered[n][p] \in Nat
    BY <1>1
  <2>2. CASE UNCHANGED triggered
    BY <1>4, <2>2
  <2>3. CASE \E c \in Call, q \in Person, o \in Ends : Trigger(c, q, o)
    <3>1. PICK c \in Call, q \in Person, o \in Ends : Trigger(c, q, o)
      BY <2>3
    <3>2. PICK k \in Nat : k = Creates(o)
      BY DEF Creates
    <3>3. c[1] \in Notice
      BY CallType
    <3>4. triggered' = [triggered EXCEPT ![c[1]][q] = @ + k]
      BY <3>1, <3>2 DEF Trigger
    <3>5. triggered'[n][p] = triggered[n][p] \/ triggered'[n][p] = triggered[n][p] + k
      BY <1>1, <3>3, <3>4
    <3>6. QED
      BY <1>4, <2>1, <3>2, <3>5
  <2>4. CASE HubCrash
    <3>1. PICK reached \in SUBSET {u \in Call \X Person :
                               hub[u[1]] = "handling" /\ outcome[u[1]][u[2]] = "pending"} :
              triggered' = [m \in Notice |-> [q \in Person |-> triggered[m][q]
                  + Cardinality({k \in 1..MaxAttempts : <<<<m, k>>, q>> \in reached})]]
      BY <2>4 DEF HubCrash
    <3> DEFINE cut == {k \in 1..MaxAttempts : <<<<n, k>>, p>> \in reached}
    <3>2. Cardinality(cut) \in Nat
      <4>1. cut \in SUBSET (1..MaxAttempts)
        OBVIOUS
      <4>2. QED
        BY <4>1, MoreAttempts
    <3>3. triggered'[n][p] = triggered[n][p] + Cardinality(cut)
      BY <3>1
    <3> HIDE DEF cut
    <3>4. QED
      BY <1>4, <2>1, <3>2, <3>3
  <2>5. QED
    BY <2>2, <2>3, <2>4 DEF GiveUp, HubAnswer
<1>5. QED
  BY <1>2, <1>3, <1>4, WorkStep

\* Hub and connector implement a hand-off, for any notices, recipients, posts
\* and failures: nobody stops posting before each recipient is notified or
\* has been failed.
THEOREM RelayHandsOff == Spec => RelayKeepsHold
<1>1. ASSUME Init PROVE Novu!Init
  <2>1. \A np \in Due : np[1] \in Notice /\ np[2] \in Person
    BY DEF Due
  <2>2. Posted = {}
    BY <1>1, <2>1 DEF Init, Posted
  <2>3. \A np \in Due, k \in 1..MaxAttempts : outcome[<<np[1], k>>][np[2]] = "none"
    BY <1>1, <2>1 DEF Init, Call
  <2>4. Spoiled = {}
    BY <2>3 DEF Spoiled
  <2>5. QED
    BY <2>2, <2>4 DEF Novu!Init
<1>2. ASSUME RelayInv, RelayInv', Unanswered, [Next]_vars
      PROVE  [Novu!Offer \/ Novu!Work]_<<Posted, Held, Notified, Spoiled>>
  <2>1. CASE \E n \in Notice : PostNobody(n)
    BY <1>2, <2>1, PostNobodyStutters
  <2>2. CASE \E n \in Notice : Post(n)
    BY <1>2, <2>2, PostSpoilsNothing, PostOffers DEF ForSomebody
  <2>5. CASE \E n \in Notice : PostRejected(n)
    <3>1. UNCHANGED outcome
      BY <2>5 DEF PostRejected
    <3>2. Spoiled' = Spoiled
      BY <3>1 DEF Spoiled
    <3>3. QED
      BY <1>2, <2>5, <3>2, PostOffers DEF ForSomebody
  <2>3. CASE \/ \E n \in Notice : GiveUp(n)
             \/ \E c \in Call, p \in Person, o \in Ends : Trigger(c, p, o)
             \/ \E c \in Call : HubAnswer(c)
             \/ HubCrash
    BY <1>2, <2>3, HubWorks
  <2>4. CASE UNCHANGED vars
    BY <2>4 DEF vars, Posted, Held, Notified, Spoiled
  <2>6. QED
    BY <1>2, <2>1, <2>2, <2>3, <2>4, <2>5 DEF Next
<1>3. Spec => [][Novu!Offer \/ Novu!Work]_<<Posted, Held, Notified, Spoiled>>
  BY <1>2, RelayInvariant, UnansweredInvariant, PTL DEF Spec
<1>4. QED
  BY <1>1, <1>3, PTL DEF Spec, RelayKeepsHold, Novu!Spec, Held, Notified
-----------------------------------------------------------------------------
(* From the payload to the bell *)

\* The elements of an empty sequence, and of a sequence of one.
LEMMA ShortSequences ==
    /\ ToSet(<<>>) = {}
    /\ \A x : ToSet(<<x>>) = {x}
BY DEF ToSet

\* Everybody who is notified of an event is named by it, and whoever is named
\* and not notified is so because a Matrix event is for one person at most.
LEMMA NamedRecipients ==
    ASSUME NEW n \in Notice
    PROVE  /\ Recipients[n] \subseteq Named(Payload[n])
           /\ \A p \in Named(Payload[n]) \ Recipients[n] : TakenByAnother(n, p)
<1> DEFINE e == Payload[n]
<1>1. e \in Event /\ Recipients[n] = ToSet(Normalize(e))
  BY PayloadAssumption
<1>2. CASE e.source = "matrix"
  <2>1. e \in [source : {"matrix"}, message : BOOLEAN, target : Name \cup {Nobody},
               mentions : Seq(Name)]
    BY <1>1, <1>2 DEF Event
  <2>2. /\ Normalize(e) = NormalizeMatrix(e)
        /\ Named(e) = ToSet(e.mentions) \cup ({e.target} \ {Nobody})
    BY <1>2 DEF Normalize, Named
  <2>3. CASE ~e.message
    <3>1. Recipients[n] = {}
      BY <1>1, <2>2, <2>3, ShortSequences DEF NormalizeMatrix
    <3>2. QED
      BY <1>2, <2>3, <3>1 DEF TakenByAnother
  <2>4. CASE e.message /\ MatrixTarget(e) = Nobody
    <3>1. e.target = Nobody /\ e.mentions = <<>>
      <4>1. e.mentions # <<>> => Head(e.mentions) \in Name
        BY <2>1
      <4>2. QED
        BY <2>1, <2>4, <4>1, NobodyAssumption DEF MatrixTarget
    <3>2. Named(e) = {}
      BY <2>2, <3>1, ShortSequences
    <3>3. Recipients[n] = {}
      BY <1>1, <2>2, <2>4, ShortSequences DEF NormalizeMatrix, OneOrNobody
    <3>4. QED
      BY <3>2, <3>3
  <2>5. CASE e.message /\ MatrixTarget(e) # Nobody
    <3>1. Recipients[n] = {MatrixTarget(e)}
      BY <1>1, <2>2, <2>5, ShortSequences DEF NormalizeMatrix, OneOrNobody
    <3>2. MatrixTarget(e) \in Named(e)
      <4>1. CASE e.target # Nobody
        BY <2>2, <4>1 DEF MatrixTarget
      <4>2. CASE e.target = Nobody
        <5>1. e.mentions # <<>> /\ MatrixTarget(e) = Head(e.mentions)
          BY <2>5, <4>2 DEF MatrixTarget
        <5>2. 1 \in DOMAIN e.mentions /\ Head(e.mentions) = e.mentions[1]
          BY <2>1, <5>1
        <5>3. QED
          BY <2>2, <5>1, <5>2 DEF ToSet
      <4>3. QED
        BY <4>1, <4>2
    <3>3. ASSUME NEW p \in Named(e) \ Recipients[n] PROVE TakenByAnother(n, p)
      <4>1. MatrixTarget(e) \in Named(e) \ {p}
        BY <3>1, <3>2, <3>3
      <4>2. QED
        BY <1>2, <3>1, <4>1 DEF TakenByAnother
    <3>4. QED
      BY <3>1, <3>2, <3>3
  <2>6. QED
    BY <2>3, <2>4, <2>5
<1>3. CASE e.source = "onlyoffice"
  <2>1. Normalize(e) = e.emails /\ Named(e) = ToSet(e.emails)
    BY <1>3 DEF Normalize, Named, NormalizeOnlyOffice
  <2>2. QED
    BY <1>1, <2>1
<1>4. CASE e.source \notin {"matrix", "onlyoffice"}
  <2>1. Normalize(e) = OneOrNobody(e.to) /\ Named(e) = {e.to} \ {Nobody}
    BY <1>4 DEF Normalize, Named, NormalizeSingle
  <2>2. Recipients[n] = Named(e)
    BY <1>1, <2>1, ShortSequences DEF OneOrNobody
  <2>3. QED
    BY <2>2
<1>5. QED
  BY <1>2, <1>3, <1>4

\* Nobody but a recipient is notified, and what is ignored has no recipient.
OnlyRecipients == \A n \in Notice : \A p \in Person \ Recipients[n] : triggered[n][p] = 0
IgnoredIsForNobody == \A n \in Notice : answer[n] = "ignored" => Recipients[n] = {}
HeardInv == OnlyRecipients /\ IgnoredIsForNobody

\* A trigger, or one that was under way in a crash, is a recipient's.
LEMMA OnlyRecipientsStep ==
    ASSUME RelayInv, OnlyRecipients, Next
    PROVE  OnlyRecipients'
<1> SUFFICES ASSUME NEW n \in Notice, NEW p \in Person \ Recipients[n]
             PROVE  triggered'[n][p] = 0
  BY DEF OnlyRecipients
<1>1. triggered[n][p] = 0 /\ triggered \in [Notice -> [Person -> Nat]]
  BY DEF OnlyRecipients, RelayInv, Types
<1>2. \A k \in 1..MaxAttempts : outcome[<<n, k>>][p] # "pending"
  BY DEF RelayInv, CallInv, CallOutcome
<1>3. CASE \E c \in Call, q \in Person, o \in Ends : Trigger(c, q, o)
  <2>1. PICK c \in Call, q \in Person, o \in Ends : Trigger(c, q, o)
    BY <1>3
  <2>2. c[1] \in Notice /\ c[2] \in 1..MaxAttempts /\ c = <<c[1], c[2]>>
    BY CallType
  <2>3. c[1] # n \/ q # p
    BY <1>2, <2>1, <2>2 DEF Trigger
  <2>4. triggered' = [triggered EXCEPT ![c[1]][q] = @ + Creates(o)]
    BY <2>1 DEF Trigger
  <2>5. triggered'[n][p] = triggered[n][p]
    BY <1>1, <2>2, <2>3, <2>4
  <2>6. QED
    BY <1>1, <2>5
<1>4. CASE HubCrash
  <2>1. PICK reached \in SUBSET {u \in Call \X Person :
                 hub[u[1]] = "handling" /\ outcome[u[1]][u[2]] = "pending"} :
            triggered' = [m \in Notice |-> [q \in Person |-> triggered[m][q]
                + Cardinality({k \in 1..MaxAttempts : <<<<m, k>>, q>> \in reached})]]
    BY <1>4 DEF HubCrash
  <2>2. {k \in 1..MaxAttempts : <<<<n, k>>, p>> \in reached} = {}
    BY <1>2, <2>1
  <2>3. triggered'[n][p] = triggered[n][p] + Cardinality({})
    BY <2>1, <2>2
  <2>4. QED
    BY <1>1, <2>3, FS_EmptySet
<1>5. CASE UNCHANGED triggered
  BY <1>1, <1>5
<1>6. QED
  BY <1>3, <1>4, <1>5 DEF Next, PostNobody, Post, PostRejected, GiveUp, HubAnswer

\* Only an answer about nobody says that a notice was ignored.
LEMMA IgnoredStep ==
    ASSUME RelayInv, IgnoredIsForNobody, Next
    PROVE  IgnoredIsForNobody'
<1> SUFFICES ASSUME NEW m \in Notice, answer'[m] = "ignored"
             PROVE  Recipients[m] = {}
  BY DEF IgnoredIsForNobody
<1>0. answer \in [Notice -> Answer] /\ (answer[m] = "ignored" => Recipients[m] = {})
  BY DEF IgnoredIsForNobody, RelayInv, Types
<1>1. CASE \E n \in Notice : PostNobody(n) \/ PostRejected(n)
  BY <1>0, <1>1 DEF PostNobody, PostRejected
<1>2. CASE \E n \in Notice : GiveUp(n)
  BY <1>0, <1>2 DEF GiveUp
<1>3. CASE \E c \in Call : HubAnswer(c)
  <2>1. PICK c \in Call : HubAnswer(c)
    BY <1>3
  <2>2. c[1] \in Notice
    BY CallType
  <2>3. QED
    BY <1>0, <2>1, <2>2 DEF HubAnswer
<1>4. CASE HubCrash
  BY <1>0, <1>4 DEF HubCrash
<1>5. CASE UNCHANGED answer
  BY <1>0, <1>5
<1>6. QED
  BY <1>1, <1>2, <1>3, <1>4, <1>5 DEF Next, Post, Trigger

\* Whom an answered notice names has heard of it.
LEMMA HeardByName == RelayInv /\ HeardInv => NamedHaveHeard
<1> SUFFICES ASSUME RelayInv, HeardInv, NEW n \in Notice, answer[n] \in {"relayed", "ignored"}
             PROVE  /\ \A p \in Named(Payload[n]) :
                          \/ triggered[n][p] > 0
                          \/ \E k \in 1..MaxAttempts :
                                outcome[<<n, k>>][p] \in {"refused", "unreachable"}
                          \/ TakenByAnother(n, p)
                    /\ \A p \in Person \ Named(Payload[n]) : triggered[n][p] = 0
  BY DEF NamedHaveHeard
<1>1. ASSUME NEW p \in Named(Payload[n]), p \in Recipients[n]
      PROVE  \/ triggered[n][p] > 0
             \/ \E k \in 1..MaxAttempts : outcome[<<n, k>>][p] \in {"refused", "unreachable"}
  <2>1. answer[n] = "relayed"
    BY <1>1 DEF HeardInv, IgnoredIsForNobody
  <2>2. p \in Person
    BY <1>1, RecipientsAssumption
  <2>3. triggered[n][p] \in Nat
    BY <2>2 DEF RelayInv, Types
  <2>4. triggered[n][p] = 0 =>
            \E k \in 1..MaxAttempts : outcome[<<n, k>>][p] \in {"refused", "unreachable"}
    BY <1>1, <2>1, MissedByFailure DEF MissedOnlyByFailure
  <2>5. QED
    BY <2>3, <2>4
<1>2. \A p \in Person \ Named(Payload[n]) : triggered[n][p] = 0
  BY NamedRecipients DEF HeardInv, OnlyRecipients
<1>3. QED
  BY <1>1, <1>2, NamedRecipients

\* For any payloads, retries, failures and crashes: once the hub has answered,
\* everybody a payload names has a notification, or their own trigger failed,
\* or it is a Matrix event that went to another one; and nobody else has one.
THEOREM NamedSafety == Spec => []NamedHaveHeard
<1>1. Init => HeardInv
  BY DEF Init, HeardInv, OnlyRecipients, IgnoredIsForNobody
<1>2. RelayInv /\ HeardInv /\ [Next]_vars => HeardInv'
  <2>1. CASE Next
    BY <2>1, OnlyRecipientsStep, IgnoredStep DEF HeardInv
  <2>2. CASE UNCHANGED vars
    BY <2>2 DEF vars, HeardInv, OnlyRecipients, IgnoredIsForNobody
  <2>3. QED
    BY <2>1, <2>2
<1>3. RelayInv /\ HeardInv => NamedHaveHeard
  BY HeardByName
<1>4. QED
  BY <1>1, <1>2, <1>3, RelayInvariant, PTL DEF Spec
=============================================================================
