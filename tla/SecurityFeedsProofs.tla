------------------------- MODULE SecurityFeedsProofs -------------------------
(***************************************************************************)
(* Proofs about SecurityFeeds, for any feeds, entries, limits and number   *)
(* of failures.                                                            *)
(***************************************************************************)
EXTENDS SecurityFeeds, FiniteSetTheorems, TLAPS

\* The run may still report the entry.
Pending(r, e) == e \in entries[r] \/ FeedOf[e] \in left[r]

\* In a calm history one run is under way at most; it may still report an entry
\* that has an issue, but then it will find it.
CalmInv ==
    calm =>
        /\ \A r, s \in Run : stage[r] # "idle" /\ stage[s] # "idle" => r = s
        /\ \A r \in Run, e \in Entry : Pending(r, e) /\ issues[e] > 0 => e \in searchable
        /\ \A r \in Run : \A e \in absent[r] : issues[e] = 0
        /\ \A e \in Entry : issues[e] <= 1

\* While a run has not found an entry, it is reporting.
AbsentInv == \A r \in Run : absent[r] # {} => stage[r] = "reporting"

\* What a run holds, at each stage.
RunOK(r) ==
    /\ absent[r] \subseteq entries[r]
    /\ stage[r] = "idle" => entries[r] = {}
    /\ stage[r] = "reporting" => entries[r] # {}
    /\ stage[r] = "collecting" <=> left[r] # {}

RunTypes ==
    /\ left \in [Run -> SUBSET Feed]
    /\ entries \in [Run -> SUBSET Entry]
    /\ absent \in [Run -> SUBSET Entry]
    /\ stage \in [Run -> {"idle", "collecting", "reporting"}]
    /\ \A r \in Run : RunOK(r)

IssueTypes ==
    /\ issues \in [Entry -> 0..MaxIssues]
    /\ searchable \subseteq {e \in Entry : issues[e] > 0}

OtherTypes ==
    /\ born \in [Entry -> 0..Cardinality(Entry)]
    /\ age \in [Entry -> 0..(Span + 1)]
    /\ phase \in 0..(Day + Drift) /\ calm \in BOOLEAN
    /\ fails \in [Entry -> 0..Window]
    /\ faults \in 0..MaxFaults

FeedsInv ==
    /\ RunTypes
    /\ IssueTypes
    /\ OtherTypes
    /\ AbsentInv
    /\ CalmInv
-----------------------------------------------------------------------------
(* Bounded counters *)

\* The window is a number of ticks.
LEMMA SpanType == Span \in Nat
BY FeedBoundAssumption, ClockAssumption DEF Span

\* A counter with a bound stays within it.
LEMMA UpToType ==
    ASSUME NEW bound \in Nat, NEW n \in Nat
    PROVE  UpTo(bound, n) \in 0..bound
BY DEF UpTo

\* A failure keeps the types of what it counts.
LEMMA FailType ==
    ASSUME fails \in [Entry -> 0..Window], faults \in 0..MaxFaults, NEW S, Fail(S)
    PROVE  fails' \in [Entry -> 0..Window] /\ faults' \in 0..MaxFaults
<1> USE FeedBoundAssumption
<1>1. ASSUME NEW e \in Entry PROVE UpTo(Window, fails[e] + 1) \in 0..Window
  <2>1. fails[e] + 1 \in Nat /\ Window \in Nat
    OBVIOUS
  <2>2. QED
    BY <2>1, UpToType
<1>2. fails' \in [Entry -> 0..Window]
  BY <1>1 DEF Fail
<1>3. faults < MaxFaults /\ faults' = faults + 1
  BY DEF Fail
<1>4. faults' \in 0..MaxFaults
  BY <1>3
<1>5. QED
  BY <1>2, <1>4

\* An opened issue is the first one, or one more, and no other entry's.
LEMMA OpenType ==
    ASSUME issues \in [Entry -> 0..MaxIssues], NEW e \in Entry, Open(e)
    PROVE  /\ issues' \in [Entry -> 0..MaxIssues]
           /\ issues'[e] > 0
           /\ issues[e] = 0 => issues'[e] = 1
           /\ \A d \in Entry : d # e => issues'[d] = issues[d]
<1> USE FeedBoundAssumption
<1>1. issues[e] \in Nat /\ MaxIssues \in Nat /\ MaxIssues > 1
  OBVIOUS
<1>2. UpTo(MaxIssues, issues[e] + 1) \in 0..MaxIssues
  <2>1. issues[e] + 1 \in Nat
    BY <1>1
  <2>2. QED
    BY <1>1, <2>1, UpToType
<1>3. UpTo(MaxIssues, issues[e] + 1) > 0 /\ (issues[e] = 0 => UpTo(MaxIssues, issues[e] + 1) = 1)
  BY <1>1 DEF UpTo
<1>4. issues' = [issues EXCEPT ![e] = UpTo(MaxIssues, issues[e] + 1)]
  BY DEF Open
<1>5. QED
  BY <1>2, <1>3, <1>4
-----------------------------------------------------------------------------
(* Every step preserves the invariant *)

\* The invariant holds at first.
LEMMA FeedsInit == Init => FeedsInv
<1> SUFFICES ASSUME Init PROVE FeedsInv
  OBVIOUS
<1>1. Cardinality(Entry) \in Nat
  BY EntryAssumption, FS_CardinalityType
<1>2. RunTypes
  BY DEF Init, RunTypes, RunOK
<1>3. IssueTypes
  BY FeedBoundAssumption DEF Init, IssueTypes
<1>4. OtherTypes
  <2>1. /\ 0 \in 0..Cardinality(Entry) /\ 0 \in 0..(Span + 1) /\ 0 \in 0..Window
        /\ 0 \in 0..MaxFaults /\ 0 \in 0..(Day + Drift)
    BY <1>1, SpanType, FeedBoundAssumption, ClockAssumption
  <2>2. QED
    BY <2>1 DEF Init, OtherTypes
<1>5. AbsentInv
  BY DEF Init, AbsentInv
<1>6. CalmInv
  BY DEF Init, CalmInv
<1>7. QED
  BY <1>2, <1>3, <1>4, <1>5, <1>6 DEF FeedsInv

\* A run that starts holds nothing; if history stays calm it starts alone, and
\* will find every issue there is.
LEMMA BeginOK ==
    ASSUME FeedsInv, NEW r \in Run, Begin(r), phase' \in 0..(Day + Drift)
    PROVE  FeedsInv'
<1> USE DEF FeedsInv
<1>1. /\ stage[r] = "idle"
      /\ stage' = [stage EXCEPT ![r] = "collecting"]
      /\ left' = [left EXCEPT ![r] = Feed]
      /\ UNCHANGED <<born, age, issues, searchable, entries, absent, fails, faults>>
  BY DEF Begin
<1>2. Feed # {}
  BY FeedBoundAssumption DEF Feed
<1>3. RunTypes'
  <2>1. left' \in [Run -> SUBSET Feed] /\ stage' \in [Run -> {"idle", "collecting", "reporting"}]
    BY <1>1 DEF RunTypes
  <2>2. ASSUME NEW s \in Run PROVE RunOK(s)'
    <3>1. RunOK(s)
      BY DEF RunTypes
    <3>2. CASE s = r
      BY <1>1, <1>2, <3>1, <3>2 DEF RunTypes, RunOK
    <3>3. CASE s # r
      BY <1>1, <3>1, <3>3 DEF RunTypes, RunOK
    <3>4. QED
      BY <3>2, <3>3
  <2>3. QED
    BY <1>1, <2>1, <2>2 DEF RunTypes
<1>4. IssueTypes'
  BY <1>1 DEF IssueTypes
<1>5. OtherTypes'
  BY <1>1 DEF OtherTypes, Begin
<1>6. AbsentInv'
  BY <1>1 DEF AbsentInv, RunTypes, RunOK
<1>7. CalmInv'
  <2>1. SUFFICES ASSUME calm' PROVE CalmInv'
    BY DEF CalmInv
  <2>2. /\ calm
        /\ \A s \in Run : stage[s] = "idle"
        /\ \A e \in Entry : issues[e] > 0 => e \in searchable
    BY <2>1 DEF Begin
  <2>3. \A s, t \in Run : stage'[s] # "idle" /\ stage'[t] # "idle" => s = t
    BY <1>1, <2>2 DEF RunTypes
  <2>4. QED
    BY <1>1, <2>2, <2>3 DEF CalmInv
<1>8. QED
  BY <1>3, <1>4, <1>5, <1>6, <1>7

\* A run that reads or skips a feed may report no other entries than before.
LEMMA CollectOK ==
    ASSUME FeedsInv, NEW r \in Run, NEW f \in Feed, NEW found,
           Collect(r, f, found),
           found \subseteq {e \in Entry : FeedOf[e] = f},
           fails' \in [Entry -> 0..Window], faults' \in 0..MaxFaults
    PROVE  FeedsInv'
<1> USE DEF FeedsInv
<1>1. /\ stage[r] = "collecting"
      /\ f \in left[r]
      /\ left' = [left EXCEPT ![r] = left[r] \ {f}]
      /\ entries' = [entries EXCEPT ![r] = entries[r] \cup found]
      /\ stage' = [stage EXCEPT ![r] =
             IF left[r] = {f} THEN StageFor(entries[r] \cup found) ELSE "collecting"]
      /\ UNCHANGED <<born, age, issues, searchable, absent, phase, calm>>
  BY DEF Collect
<1>2. absent[r] = {}
  BY <1>1 DEF AbsentInv
<1>3. RunTypes'
  <2>1. /\ left' \in [Run -> SUBSET Feed]
        /\ entries' \in [Run -> SUBSET Entry]
        /\ stage' \in [Run -> {"idle", "collecting", "reporting"}]
    BY <1>1 DEF RunTypes, StageFor
  <2>2. ASSUME NEW s \in Run PROVE RunOK(s)'
    <3>1. RunOK(s)
      BY DEF RunTypes
    <3>2. CASE s = r
      <4>1. /\ left'[r] = left[r] \ {f}
            /\ entries'[r] = entries[r] \cup found
            /\ stage'[r] = IF left[r] = {f} THEN StageFor(entries[r] \cup found)
                           ELSE "collecting"
        BY <1>1 DEF RunTypes
      <4>2. CASE left[r] = {f}
        BY <1>1, <1>2, <3>2, <4>1, <4>2 DEF RunOK, StageFor
      <4>3. CASE left[r] # {f}
        BY <1>1, <1>2, <3>2, <4>1, <4>3 DEF RunOK
      <4>4. QED
        BY <4>2, <4>3
    <3>3. CASE s # r
      BY <1>1, <3>1, <3>3 DEF RunTypes, RunOK
    <3>4. QED
      BY <3>2, <3>3
  <2>3. QED
    BY <1>1, <2>1, <2>2 DEF RunTypes
<1>4. IssueTypes' /\ OtherTypes'
  BY <1>1 DEF IssueTypes, OtherTypes
<1>5. AbsentInv'
  BY <1>1, <1>2 DEF AbsentInv, RunTypes
<1>6. CalmInv'
  <2>1. SUFFICES ASSUME calm PROVE CalmInv'
    BY <1>1 DEF CalmInv
  <2>2. \A s \in Run : stage'[s] # "idle" => stage[s] # "idle"
    BY <1>1 DEF RunTypes
  <2>3. \A s \in Run, e \in Entry : Pending(s, e)' => Pending(s, e)
    BY <1>1 DEF RunTypes, Pending
  <2>4. QED
    BY <1>1, <2>1, <2>2, <2>3 DEF CalmInv
<1>7. QED
  BY <1>3, <1>4, <1>5, <1>6

\* A run that is done with an entry, having opened an issue only if it had not
\* found one.
LEMMA DropOK ==
    ASSUME FeedsInv, NEW r \in Run, NEW e \in entries[r],
           stage[r] = "reporting",
           Drop(r, e),
           UNCHANGED issues \/ (e \in absent[r] /\ Open(e)),
           fails' \in [Entry -> 0..Window], faults' \in 0..MaxFaults,
           UNCHANGED <<born, age, searchable, left, phase, calm>>
    PROVE  FeedsInv'
<1> USE DEF FeedsInv
<1>0. e \in Entry
  BY DEF RunTypes
<1>1. /\ entries' = [entries EXCEPT ![r] = entries[r] \ {e}]
      /\ absent' = [absent EXCEPT ![r] = {}]
      /\ stage' = [stage EXCEPT ![r] = StageFor(entries[r] \ {e})]
  BY DEF Drop
<1>2. left[r] = {}
  BY DEF RunTypes, RunOK
<1>3. RunTypes'
  <2>1. /\ entries' \in [Run -> SUBSET Entry]
        /\ absent' \in [Run -> SUBSET Entry]
        /\ stage' \in [Run -> {"idle", "collecting", "reporting"}]
    BY <1>1 DEF RunTypes, StageFor
  <2>2. ASSUME NEW s \in Run PROVE RunOK(s)'
    <3>1. RunOK(s)
      BY DEF RunTypes
    <3>2. CASE s = r
      <4>1. /\ entries'[r] = entries[r] \ {e}
            /\ absent'[r] = {}
            /\ stage'[r] = StageFor(entries[r] \ {e})
        BY <1>1 DEF RunTypes
      <4>2. QED
        BY <1>2, <3>2, <4>1 DEF RunOK, StageFor
    <3>3. CASE s # r
      BY <1>1, <3>1, <3>3 DEF RunTypes, RunOK
    <3>4. QED
      BY <3>2, <3>3
  <2>3. QED
    BY <2>1, <2>2 DEF RunTypes
<1>4. issues \in [Entry -> 0..MaxIssues]
  BY DEF IssueTypes
<1>5. /\ issues' \in [Entry -> 0..MaxIssues]
      /\ \A d \in Entry : d # e => issues'[d] = issues[d]
      /\ issues'[e] > 0 \/ issues'[e] = issues[e]
      /\ issues'[e] = issues[e] \/ (e \in absent[r] /\ (issues[e] = 0 => issues'[e] = 1))
  BY <1>0, <1>4, OpenType
<1>6. IssueTypes'
  BY <1>5 DEF IssueTypes
<1>7. OtherTypes'
  BY DEF OtherTypes
<1>8. AbsentInv'
  BY <1>1 DEF AbsentInv, RunTypes
<1>9. CalmInv'
  <2>1. SUFFICES ASSUME calm PROVE CalmInv'
    BY DEF CalmInv
  <2>2. \A s \in Run : stage[s] # "idle" => s = r
    BY <2>1 DEF CalmInv
  <2>3. \A s \in Run : s # r => entries[s] = {} /\ left[s] = {} /\ absent[s] = {}
    BY <2>2 DEF RunTypes, RunOK
  <2>4. \A s \in Run : s # r => entries'[s] = {} /\ left'[s] = {} /\ absent'[s] = {}
    BY <1>1, <2>3 DEF RunTypes
  <2>5. entries'[r] = entries[r] \ {e} /\ left'[r] = {} /\ absent'[r] = {}
    BY <1>1, <1>2 DEF RunTypes
  <2>6. \A s, t \in Run : stage'[s] # "idle" /\ stage'[t] # "idle" => s = t
    BY <1>1, <2>2 DEF RunTypes
  <2>7. ASSUME NEW s \in Run, NEW d \in Entry, Pending(s, d)', issues'[d] > 0
        PROVE  d \in searchable'
    <3>1. s = r /\ d # e /\ d \in entries[r]
      BY <2>4, <2>5, <2>7 DEF Pending
    <3>2. issues[d] > 0 /\ Pending(r, d)
      BY <1>5, <2>7, <3>1 DEF Pending
    <3>3. QED
      BY <2>1, <3>2 DEF CalmInv
  <2>8. \A s \in Run : \A d \in absent'[s] : issues'[d] = 0
    BY <2>4, <2>5
  <2>9. ASSUME NEW d \in Entry PROVE issues'[d] <= 1
    <3>1. issues[d] <= 1 /\ (e \in absent[r] => issues[e] = 0)
      BY <2>1 DEF CalmInv
    <3>2. QED
      BY <1>5, <3>1
  <2>10. QED
    BY <2>6, <2>7, <2>8, <2>9 DEF CalmInv
<1>10. QED
  BY <1>3, <1>6, <1>7, <1>8, <1>9

\* A run that finds nothing remembers it; in a calm history there is nothing.
LEMMA NothingOK ==
    ASSUME FeedsInv, NEW r \in Run, NEW e \in Entry, SearchFindsNothing(r, e)
    PROVE  FeedsInv'
<1> USE DEF FeedsInv
<1>1. /\ stage[r] = "reporting" /\ e \in entries[r] /\ e \notin searchable
      /\ absent' = [absent EXCEPT ![r] = {e}]
      /\ UNCHANGED <<born, age, issues, searchable, left, entries, stage, phase, fails,
                     faults, calm>>
  BY DEF SearchFindsNothing, IsNext, IssueExists
<1>2. absent' \in [Run -> SUBSET Entry] /\ \A s \in Run : absent'[s] = IF s = r THEN {e} ELSE absent[s]
  BY <1>1 DEF RunTypes
<1>3. RunTypes'
  BY <1>1, <1>2 DEF RunTypes, RunOK
<1>4. IssueTypes' /\ OtherTypes'
  BY <1>1 DEF IssueTypes, OtherTypes
<1>5. AbsentInv'
  BY <1>1, <1>2 DEF AbsentInv
<1>6. CalmInv'
  <2>1. SUFFICES ASSUME calm PROVE CalmInv'
    BY <1>1 DEF CalmInv
  <2>2. issues[e] \in Nat /\ ~(issues[e] > 0)
    BY <1>1, <2>1, FeedBoundAssumption DEF CalmInv, Pending, IssueTypes
  <2>3. issues[e] = 0
    BY <2>2
  <2>4. QED
    BY <1>1, <1>2, <2>1, <2>3 DEF CalmInv, Pending
<1>7. QED
  BY <1>3, <1>4, <1>5, <1>6

\* A run that dies holds nothing any more; it may have opened the issue it was
\* about to open.
LEMMA DiesOK ==
    ASSUME FeedsInv, NEW r \in Run, RunDies(r)
    PROVE  FeedsInv'
<1> USE DEF FeedsInv
<1>1. /\ stage' = [stage EXCEPT ![r] = "idle"]
      /\ left' = [left EXCEPT ![r] = {}]
      /\ entries' = [entries EXCEPT ![r] = {}]
      /\ absent' = [absent EXCEPT ![r] = {}]
      /\ UNCHANGED <<born, age, searchable, phase, calm>>
      /\ stage[r] # "idle"
  BY DEF RunDies
<1>2. /\ stage'[r] = "idle" /\ left'[r] = {} /\ entries'[r] = {} /\ absent'[r] = {}
      /\ \A s \in Run : s # r => /\ stage'[s] = stage[s] /\ left'[s] = left[s]
                                 /\ entries'[s] = entries[s] /\ absent'[s] = absent[s]
  BY <1>1 DEF RunTypes
<1>3. RunTypes'
  <2>1. /\ left' \in [Run -> SUBSET Feed]
        /\ entries' \in [Run -> SUBSET Entry]
        /\ absent' \in [Run -> SUBSET Entry]
        /\ stage' \in [Run -> {"idle", "collecting", "reporting"}]
    BY <1>1 DEF RunTypes
  <2>2. ASSUME NEW s \in Run PROVE RunOK(s)'
    <3>1. CASE s = r
      BY <1>2, <3>1 DEF RunOK
    <3>2. CASE s # r
      BY <1>2, <3>2 DEF RunTypes, RunOK
    <3>3. QED
      BY <3>1, <3>2
  <2>3. QED
    BY <2>1, <2>2 DEF RunTypes
<1>4. \/ UNCHANGED issues
      \/ \E e \in absent[r] :
            /\ issues' \in [Entry -> 0..MaxIssues]
            /\ issues'[e] > 0
            /\ issues[e] = 0 => issues'[e] = 1
            /\ \A d \in Entry : d # e => issues'[d] = issues[d]
  <2>1. CASE UNCHANGED issues
    BY <2>1
  <2>2. ASSUME NEW e \in absent[r], Open(e)
        PROVE  /\ issues' \in [Entry -> 0..MaxIssues]
               /\ issues'[e] > 0
               /\ issues[e] = 0 => issues'[e] = 1
               /\ \A d \in Entry : d # e => issues'[d] = issues[d]
    <3>1. e \in Entry
      BY DEF RunTypes
    <3>2. QED
      BY <2>2, <3>1, OpenType DEF IssueTypes
  <2>3. QED
    BY <2>1, <2>2 DEF RunDies
<1>5. IssueTypes'
  BY <1>1, <1>4 DEF IssueTypes
<1>6. OtherTypes'
  <2>1. \E S : Fail(S)
    BY Zenon DEF RunDies
  <2>2. fails' \in [Entry -> 0..Window] /\ faults' \in 0..MaxFaults
    BY <2>1, FailType DEF OtherTypes
  <2>3. QED
    BY <1>1, <2>2 DEF OtherTypes
<1>7. AbsentInv'
  BY <1>2 DEF AbsentInv
<1>8. CalmInv'
  <2>1. SUFFICES ASSUME calm PROVE CalmInv'
    BY <1>1 DEF CalmInv
  <2>2. \A s \in Run : stage[s] # "idle" => s = r
    BY <1>1, <2>1 DEF CalmInv
  <2>3. \A s \in Run : entries'[s] = {} /\ left'[s] = {} /\ absent'[s] = {} /\ stage'[s] = "idle"
    <3>1. ASSUME NEW s \in Run, s # r
          PROVE  stage[s] = "idle" /\ entries[s] = {} /\ left[s] = {} /\ absent[s] = {}
      BY <2>2, <3>1 DEF RunTypes, RunOK
    <3>2. QED
      BY <1>2, <3>1
  <2>4. \A d \in Entry : issues'[d] <= 1
    <3>1. CASE UNCHANGED issues
      BY <2>1, <3>1 DEF CalmInv
    <3>2. CASE \E e \in absent[r] :
                 /\ issues[e] = 0 => issues'[e] = 1
                 /\ \A d \in Entry : d # e => issues'[d] = issues[d]
      BY <2>1, <3>2 DEF CalmInv
    <3>3. QED
      BY <1>4, <3>1, <3>2
  <2>5. QED
    BY <2>3, <2>4 DEF CalmInv, Pending
<1>9. QED
  BY <1>3, <1>5, <1>6, <1>7, <1>8

\* A published entry takes the next rank.
LEMMA PublishOK ==
    ASSUME FeedsInv, NEW e \in Entry, Publish(e)
    PROVE  FeedsInv'
<1> USE DEF FeedsInv
<1>1. /\ born[e] = 0
      /\ born' = [born EXCEPT ![e] = Cardinality(Published) + 1]
      /\ UNCHANGED <<age, issues, searchable, left, entries, absent, stage, phase, fails,
                     faults, calm>>
  BY DEF Publish
<1>2. Published \in SUBSET (Entry \ {e}) /\ IsFiniteSet(Entry \ {e})
  BY <1>1, EntryAssumption, FS_RemoveElement DEF Published
<1>3. /\ Cardinality(Published) \in Nat /\ Cardinality(Entry) \in Nat
      /\ Cardinality(Published) <= Cardinality(Entry) - 1
  <2>1. Cardinality(Published) <= Cardinality(Entry \ {e}) /\ IsFiniteSet(Published)
    BY <1>2, FS_Subset
  <2>2. Cardinality(Entry \ {e}) = Cardinality(Entry) - 1
    BY EntryAssumption, FS_RemoveElement
  <2>3. QED
    BY <2>1, <2>2, EntryAssumption, FS_CardinalityType
<1>4. Cardinality(Published) + 1 \in 0..Cardinality(Entry)
  BY <1>3
<1>5. OtherTypes'
  BY <1>1, <1>4 DEF OtherTypes
<1>6. RunTypes' /\ IssueTypes' /\ AbsentInv'
  BY <1>1 DEF RunTypes, RunOK, IssueTypes, AbsentInv
<1>7. CalmInv'
  BY <1>1 DEF CalmInv, Pending
<1>8. QED
  BY <1>5, <1>6, <1>7

\* The search only ever finds more.
LEMMA IndexOK ==
    ASSUME FeedsInv, NEW e \in Entry, Index(e)
    PROVE  FeedsInv'
<1> USE DEF FeedsInv
<1>1. /\ issues[e] > 0
      /\ searchable' = searchable \cup {e}
      /\ UNCHANGED <<born, age, issues, left, entries, absent, stage, phase, fails, faults, calm>>
  BY DEF Index
<1>2. RunTypes' /\ IssueTypes' /\ OtherTypes' /\ AbsentInv'
  BY <1>1 DEF RunTypes, RunOK, IssueTypes, OtherTypes, AbsentInv
<1>3. CalmInv'
  BY <1>1 DEF CalmInv, Pending
<1>4. QED
  BY <1>2, <1>3

\* A tick changes nothing but the entries' ages and the time of the day.
LEMMA TickOK ==
    ASSUME FeedsInv, Tick
    PROVE  FeedsInv'
<1> USE DEF FeedsInv
<1>1. /\ phase < Day + Drift /\ phase' = phase + 1
      /\ UNCHANGED <<born, issues, searchable, left, entries, absent, stage, fails, faults, calm>>
  BY DEF Tick
<1>2. ASSUME NEW e \in Entry
      PROVE  (IF e \in Published \cap Dated THEN UpTo(Span + 1, age[e] + 1) ELSE 0)
                  \in 0..(Span + 1)
  <2>1. age[e] + 1 \in Nat /\ Span + 1 \in Nat
    BY SpanType DEF OtherTypes
  <2>2. UpTo(Span + 1, age[e] + 1) \in 0..(Span + 1)
    BY <2>1, UpToType
  <2>3. 0 \in 0..(Span + 1)
    BY <2>1
  <2>4. QED
    BY <2>2, <2>3
<1>3. age' \in [Entry -> 0..(Span + 1)]
  BY <1>2 DEF Tick
<1>4. phase' \in 0..(Day + Drift)
  <2>1. phase \in 0..(Day + Drift)
    BY DEF OtherTypes
  <2>2. QED
    BY <1>1, <2>1, ClockAssumption
<1>5. OtherTypes'
  BY <1>1, <1>3, <1>4 DEF OtherTypes
<1>6. RunTypes' /\ IssueTypes' /\ AbsentInv'
  BY <1>1 DEF RunTypes, RunOK, IssueTypes, AbsentInv
<1>7. CalmInv'
  BY <1>1 DEF CalmInv, Pending
<1>8. QED
  BY <1>5, <1>6, <1>7

\* A run that is served or skipped is one less to wait for.
LEMMA PhaseType ==
    ASSUME OtherTypes, phase >= Day, phase' = phase - Day
    PROVE  phase' \in 0..(Day + Drift)
<1>1. phase \in 0..(Day + Drift)
  BY DEF OtherTypes
<1>2. QED
  BY <1>1, ClockAssumption

\* Every step of a run, the feeds, the index and the clock.
LEMMA FeedsStep == FeedsInv /\ [Next]_vars => FeedsInv'
<1> SUFFICES ASSUME FeedsInv, [Next]_vars PROVE FeedsInv'
  OBVIOUS
<1>0. OtherTypes /\ fails \in [Entry -> 0..Window] /\ faults \in 0..MaxFaults
  BY DEF FeedsInv, OtherTypes
<1>1. CASE StartScheduled
  <2>1. phase' \in 0..(Day + Drift)
    BY <1>0, <1>1, PhaseType DEF StartScheduled
  <2>2. QED
    BY <1>1, <2>1, BeginOK, RunAssumption DEF StartScheduled
<1>2. ASSUME NEW r \in Run, StartByHand(r) PROVE FeedsInv'
  BY <1>0, <1>2, BeginOK DEF StartByHand, OtherTypes
<1>3. ASSUME NEW r \in Run, RunDies(r) PROVE FeedsInv'
  BY <1>3, DiesOK
<1>4. ASSUME NEW r \in Run, NEW f \in Feed, Fetch(r, f) PROVE FeedsInv'
  <2>1. Selected(f) \subseteq {e \in Entry : FeedOf[e] = f}
    BY DEF Selected, Published
  <2>2. QED
    BY <1>0, <1>4, <2>1, CollectOK DEF Fetch
<1>5. ASSUME NEW r \in Run, NEW f \in Feed, FetchFails(r, f) PROVE FeedsInv'
  <2>1. Collect(r, f, {}) /\ fails' \in [Entry -> 0..Window] /\ faults' \in 0..MaxFaults
    BY <1>0, <1>5, FailType DEF FetchFails
  <2>2. QED
    BY <2>1, CollectOK
<1>6. ASSUME NEW r \in Run, NEW e \in Entry, SearchFinds(r, e) PROVE FeedsInv'
  <2>1. e \in entries[r] /\ stage[r] = "reporting" /\ Drop(r, e)
    BY <1>6 DEF SearchFinds, IsNext
  <2>2. UNCHANGED <<born, age, issues, searchable, left, phase, fails, faults, calm>>
    BY <1>6 DEF SearchFinds
  <2>3. QED
    <3>1. UNCHANGED issues \/ (e \in absent[r] /\ Open(e))
      BY <2>2
    <3>2. fails' \in [Entry -> 0..Window] /\ faults' \in 0..MaxFaults
      BY <1>0, <2>2
    <3>3. QED
      BY <2>1, <2>2, <3>1, <3>2, DropOK
<1>7. ASSUME NEW r \in Run, NEW e \in Entry, SearchFindsNothing(r, e) PROVE FeedsInv'
  BY <1>7, NothingOK
<1>8. ASSUME NEW r \in Run, NEW e \in Entry, Create(r, e) PROVE FeedsInv'
  <2>1. e \in absent[r] /\ Open(e) /\ Drop(r, e)
    BY <1>8 DEF Create
  <2>2. e \in entries[r] /\ stage[r] = "reporting"
    BY <2>1 DEF FeedsInv, RunTypes, RunOK, AbsentInv
  <2>3. UNCHANGED <<born, age, searchable, left, phase, fails, faults, calm>>
    BY <1>8 DEF Create
  <2>4. QED
    BY <1>0, <2>1, <2>2, <2>3, DropOK
<1>9. ASSUME NEW r \in Run, NEW e \in Entry, RequestFails(r, e) PROVE FeedsInv'
  <2>1. e \in entries[r] /\ stage[r] = "reporting" /\ Drop(r, e)
    BY <1>9 DEF RequestFails, IsNext
  <2>2. UNCHANGED issues \/ (e \in absent[r] /\ Open(e))
    BY <1>9, Zenon DEF RequestFails
  <2>3. /\ UNCHANGED <<born, age, searchable, left, phase, calm>>
        /\ fails' \in [Entry -> 0..Window] /\ faults' \in 0..MaxFaults
    BY <1>0, <1>9, FailType DEF RequestFails
  <2>4. QED
    BY <2>1, <2>2, <2>3, DropOK
<1>10. ASSUME NEW e \in Entry, Publish(e) PROVE FeedsInv'
  BY <1>10, PublishOK
<1>11. ASSUME NEW e \in Entry, Index(e) PROVE FeedsInv'
  BY <1>11, IndexOK
<1>12. CASE SkipRun
  <2>1. /\ fails' \in [Entry -> 0..Window] /\ faults' \in 0..MaxFaults
        /\ phase' \in 0..(Day + Drift)
    BY <1>0, <1>12, FailType, PhaseType DEF SkipRun
  <2>2. UNCHANGED <<born, age, issues, searchable, left, entries, absent, stage, calm>>
    BY <1>12 DEF SkipRun
  <2>3. QED
    BY <2>1, <2>2 DEF FeedsInv, RunTypes, RunOK, IssueTypes, OtherTypes, AbsentInv,
                      CalmInv, Pending
<1>13. CASE Tick
  BY <1>13, TickOK
<1>14. CASE UNCHANGED vars
  BY <1>14 DEF vars, FeedsInv, RunTypes, RunOK, IssueTypes, OtherTypes, AbsentInv,
               CalmInv, Pending
<1>15. QED
  BY <1>1, <1>2, <1>3, <1>4, <1>5, <1>6, <1>7, <1>8, <1>9, <1>10, <1>11, <1>12, <1>13,
     <1>14 DEF Next

\* The invariant holds of every state of every history.
THEOREM FeedsInvariant == Spec => []FeedsInv
<1>1. Init => FeedsInv
  BY FeedsInit
<1>2. FeedsInv /\ [Next]_vars => FeedsInv'
  BY FeedsStep
<1>3. QED
  BY <1>1, <1>2, PTL DEF Spec

\* Every variable keeps its type, and a run holds what its stage calls for.
THEOREM FeedsTypeCorrect == Spec => []TypeOK
<1>1. FeedsInv => TypeOK
  BY DEF FeedsInv, RunTypes, RunOK, IssueTypes, OtherTypes, TypeOK
<1>2. QED
  BY <1>1, FeedsInvariant, PTL

\* For any feeds and failures, runs that do not race open one issue for an
\* entry.
THEOREM CalmSafety == Spec => []CalmMeansOneIssue
<1>1. FeedsInv => CalmMeansOneIssue
  BY DEF FeedsInv, CalmInv, CalmMeansOneIssue
<1>2. QED
  BY <1>1, FeedsInvariant, PTL
-----------------------------------------------------------------------------
(* Every day is a chance *)

\* What the failures of an entry account for, in ticks.
Paid(e) == fails[e] * Day

\* A scheduled run that may still report the entry stands for its day.
Owed(e) == IF Pending(Scheduled, e) THEN Day ELSE 0

\* The age of an entry without an issue is accounted for: by failures, by the
\* scheduled run under way and by the time since the last one was due.
Chance(e) ==
    e \in Published /\ issues[e] = 0 /\ ~Crowded(e) =>
        /\ age[e] <= Span => age[e] <= Paid(e) + phase + Owed(e)
        /\ age[e] > Span => Paid(e) + Day + Drift > Span

ChanceInv ==
    \A e \in Entry : Chance(e) /\ (born[e] = 0 => age[e] = 0)

\* Multiples of a day.
LEMMA Multiples ==
    ASSUME NEW m \in Nat, NEW n \in Nat
    PROVE  /\ m * Day \in Nat
           /\ (m + 1) * Day = m * Day + Day
           /\ m <= n => m * Day <= n * Day
           /\ m * Day > n * Day => m > n
<1>1. PICK d \in Nat : d = Day
  BY ClockAssumption
<1>2. m * d \in Nat /\ (m + 1) * d = m * d + d
  OBVIOUS
<1>3. m <= n => m * d <= n * d
  OBVIOUS
<1>4. n \in Nat /\ ~(m > n) => m <= n
  OBVIOUS
<1>5. m * d > n * d => m > n
  <2>1. m * d \in Nat /\ n * d \in Nat
    OBVIOUS
  <2>2. QED
    BY <1>3, <1>4, <2>1
<1>6. QED
  BY <1>1, <1>2, <1>3, <1>5

\* A failure counts for whatever it concerns and for nothing else.
LEMMA FailCounts ==
    ASSUME OtherTypes, NEW S, Fail(S), NEW e \in Entry
    PROVE  /\ fails'[e] >= fails[e]
           /\ e \in S => fails'[e] = UpTo(Window, fails[e] + 1)
<1> USE FeedBoundAssumption
<1>1. fails[e] \in 0..Window /\ Window \in Nat
  BY DEF OtherTypes
<1>2. fails'[e] = IF e \in S THEN UpTo(Window, fails[e] + 1) ELSE fails[e]
  BY DEF Fail
<1>3. UpTo(Window, fails[e] + 1) >= fails[e]
  BY <1>1 DEF UpTo
<1>4. QED
  BY <1>1, <1>2, <1>3

\* What is paid stays paid; a failure pays for a day, or all is paid.
LEMMA PaidGrows ==
    ASSUME OtherTypes, OtherTypes', NEW e \in Entry, fails'[e] >= fails[e]
    PROVE  /\ Paid(e) \in Nat /\ Paid(e)' \in Nat
           /\ Paid(e)' >= Paid(e)
           /\ fails'[e] = UpTo(Window, fails[e] + 1) => Paid(e)' >= Paid(e) + Day \/ Paid(e)' >= Span
<1>1. fails[e] \in 0..Window /\ fails'[e] \in 0..Window /\ Window \in Nat
  BY FeedBoundAssumption DEF OtherTypes
<1>2. PICK f \in Nat, g \in Nat, w \in Nat :
         f = fails[e] /\ g = fails'[e] /\ w = Window /\ f <= g /\ f <= w /\ g <= w
  BY <1>1
<1>3. /\ f * Day \in Nat /\ g * Day \in Nat
      /\ (f + 1) * Day = f * Day + Day
      /\ f * Day <= g * Day
  BY <1>2, Multiples
<1>4. Paid(e) = f * Day /\ Paid(e)' = g * Day /\ Span = w * Day
  BY <1>2 DEF Paid, Span
<1>5. ASSUME g = UpTo(w, f + 1) PROVE Paid(e)' >= Paid(e) + Day \/ Paid(e)' >= Span
  <2>1. g = w \/ g = f + 1
    BY <1>5 DEF UpTo
  <2>2. w * Day \in Nat /\ Day \in Nat
    BY Multiples, ClockAssumption
  <2>3. QED
    BY <1>3, <1>4, <2>1, <2>2
<1>6. QED
  BY <1>2, <1>3, <1>4, <1>5

\* Between two ticks the account of an entry stays even if the scheduled run
\* goes by without reporting it only when that is a failure.
LEMMA ChanceKept ==
    ASSUME OtherTypes, OtherTypes', IssueTypes, IssueTypes',
           NEW e \in Entry, Chance(e),
           UNCHANGED <<born, age>>,
           issues[e] > 0 => issues'[e] > 0,
           fails'[e] >= fails[e],
           \/ issues'[e] > 0
           \/ Crowded(e)
           \/ age[e] > Span
           \/ phase' + Owed(e)' >= phase + Owed(e)
           \/ /\ fails'[e] = UpTo(Window, fails[e] + 1)
              /\ phase' + Owed(e)' + Day >= phase + Owed(e)
    PROVE  Chance(e)'
<1> USE ClockAssumption
<1>1. Published' = Published /\ Crowded(e)' = Crowded(e) /\ age'[e] = age[e]
  BY DEF Published, Crowded, Before
<1>2. issues[e] \in Nat /\ issues'[e] \in Nat
  BY FeedBoundAssumption DEF IssueTypes
<1>3. SUFFICES ASSUME e \in Published, issues'[e] = 0, ~Crowded(e)
               PROVE  /\ age[e] <= Span => age[e] <= Paid(e)' + phase' + Owed(e)'
                      /\ age[e] > Span => Paid(e)' + Day + Drift > Span
  BY <1>1 DEF Chance
<1>4. issues[e] = 0
  BY <1>2, <1>3
<1>5. /\ age[e] <= Span => age[e] <= Paid(e) + phase + Owed(e)
      /\ age[e] > Span => Paid(e) + Day + Drift > Span
  BY <1>3, <1>4 DEF Chance
<1>6. age[e] \in Nat /\ phase \in Nat /\ phase' \in Nat /\ Span \in Nat
  <2>1. age[e] \in 0..(Span + 1) /\ phase \in 0..(Day + Drift) /\ phase' \in 0..(Day + Drift)
    BY DEF OtherTypes
  <2>2. QED
    BY <2>1, SpanType
<1>7. Owed(e) \in Nat /\ Owed(e)' \in Nat
  BY DEF Owed
<1>8. /\ Paid(e) \in Nat /\ Paid(e)' \in Nat /\ Paid(e)' >= Paid(e)
      /\ fails'[e] = UpTo(Window, fails[e] + 1) => Paid(e)' >= Paid(e) + Day \/ Paid(e)' >= Span
  BY PaidGrows
<1>9. PICK a \in Nat, p \in Nat, q \in Nat, s \in Nat, o \in Nat, n \in Nat, f \in Nat, g \in Nat :
         /\ a = age[e] /\ p = phase /\ q = phase' /\ s = Span /\ o = Owed(e) /\ n = Owed(e)'
         /\ f = Paid(e) /\ g = Paid(e)'
  BY <1>6, <1>7, <1>8
<1>10. \/ a > s
       \/ q + n >= p + o
       \/ (g >= f + Day \/ g >= s) /\ q + n + Day >= p + o
  BY <1>3, <1>8, <1>9
<1>11. g >= f /\ (a <= s => a <= f + p + o) /\ (a > s => f + Day + Drift > s)
  BY <1>5, <1>8, <1>9
<1>12. (a <= s => a <= g + q + n) /\ (a > s => g + Day + Drift > s)
  BY <1>10, <1>11
<1>13. QED
  BY <1>9, <1>12

\* Time is neither served nor lost while the scheduled run keeps the entry.
LEMMA OwedKept ==
    ASSUME NEW e \in Entry, OtherTypes, phase' = phase,
           Pending(Scheduled, e) => Pending(Scheduled, e)'
    PROVE  phase' + Owed(e)' >= phase + Owed(e)
<1>1. phase \in 0..(Day + Drift) /\ Day \in Nat /\ Drift \in Nat
  BY ClockAssumption DEF OtherTypes
<1>2. QED
  BY <1>1 DEF Owed

\* A run cannot owe more than its day.
LEMMA OwedOnce ==
    ASSUME NEW e \in Entry, OtherTypes, phase' = phase
    PROVE  phase' + Owed(e)' + Day >= phase + Owed(e)
<1>1. phase \in 0..(Day + Drift) /\ Day \in Nat /\ Drift \in Nat
  BY ClockAssumption DEF OtherTypes
<1>2. QED
  BY <1>1 DEF Owed

\* What is neither crowded out nor too old is looked at.
LEMMA SelectedUnlessCrowded ==
    ASSUME OtherTypes, NEW e \in Published, ~Crowded(e), age[e] <= Span
    PROVE  e \in Selected(FeedOf[e])
<1> DEFINE recent == {d \in Published : FeedOf[d] = FeedOf[e] /\ Recent(d)}
           first == {d \in recent : Before(d, e)}
           all == {d \in Published : Before(d, e)}
<1>1. all \in SUBSET Entry /\ first \in SUBSET all
  BY DEF Published
<1>2. IsFiniteSet(all)
  BY <1>1, EntryAssumption, FS_Subset
<1>3. /\ Cardinality(first) \in Nat /\ Cardinality(all) \in Nat
      /\ Cardinality(first) <= Cardinality(all)
  BY <1>1, <1>2, FS_Subset, FS_CardinalityType
<1>4. ~(Cardinality(all) >= MaxPerFeed)
  BY DEF Crowded
<1>5. e \in recent
  BY DEF Recent
<1>6. Cardinality(first) < MaxPerFeed
  BY <1>3, <1>4, FeedBoundAssumption
<1>7. QED
  BY <1>5, <1>6 DEF Selected

\* Steps that leave the feeds, the time and the scheduled run alone.
LEMMA ChanceStutter ==
    ASSUME FeedsInv, FeedsInv', ChanceInv,
           UNCHANGED <<born, age, phase>>,
           left'[Scheduled] = left[Scheduled], entries'[Scheduled] = entries[Scheduled],
           \A e \in Entry : issues[e] > 0 => issues'[e] > 0,
           \A e \in Entry : fails'[e] >= fails[e]
    PROVE  ChanceInv'
<1>1. OtherTypes /\ OtherTypes' /\ IssueTypes /\ IssueTypes'
  BY DEF FeedsInv
<1>2. ASSUME NEW e \in Entry PROVE Chance(e)'
  <2>1. Pending(Scheduled, e)' <=> Pending(Scheduled, e)
    BY DEF Pending
  <2>2. Chance(e)
    BY DEF ChanceInv
  <2>3. phase' + Owed(e)' >= phase + Owed(e)
    BY <1>1, <2>1, OwedKept
  <2>4. QED
    BY <1>1, <2>2, <2>3, ChanceKept
<1>3. QED
  BY <1>2 DEF ChanceInv

\* A run that reads a feed takes every entry that is not crowded out.
LEMMA ChanceFetch ==
    ASSUME FeedsInv, FeedsInv', ChanceInv, NEW r \in Run, NEW f \in Feed, Fetch(r, f)
    PROVE  ChanceInv'
<1>1. OtherTypes /\ OtherTypes' /\ IssueTypes /\ IssueTypes' /\ RunTypes
  BY DEF FeedsInv
<1>2. /\ left' = [left EXCEPT ![r] = left[r] \ {f}]
      /\ entries' = [entries EXCEPT ![r] = entries[r] \cup Selected(f)]
      /\ UNCHANGED <<born, age, issues, phase, fails>>
  BY DEF Fetch, Collect
<1>3. ASSUME NEW e \in Entry PROVE Chance(e)'
  <2>1. Chance(e)
    BY DEF ChanceInv
  <2>2. fails'[e] >= fails[e]
    <3>1. fails[e] \in 0..Window
      BY <1>1 DEF OtherTypes
    <3>2. QED
      BY <1>2, <3>1
  <2>3. ASSUME e \in Published, ~Crowded(e), age[e] <= Span, Pending(Scheduled, e)
        PROVE  Pending(Scheduled, e)'
    <3>1. e \in Selected(FeedOf[e])
      BY <1>1, <2>3, SelectedUnlessCrowded
    <3>2. QED
      BY <1>1, <1>2, <2>3, <3>1, RunAssumption DEF Pending, RunTypes
  <2>4. age[e] > Span \/ age[e] <= Span
    <3>1. age[e] \in 0..(Span + 1)
      BY <1>1 DEF OtherTypes
    <3>2. QED
      BY <3>1, SpanType
  <2>5. CASE e \in Published
    <3>1. Crowded(e) \/ age[e] > Span \/ (Pending(Scheduled, e) => Pending(Scheduled, e)')
      BY <2>3, <2>4, <2>5
    <3>2. Crowded(e) \/ age[e] > Span \/ phase' + Owed(e)' >= phase + Owed(e)
      BY <1>1, <1>2, <3>1, OwedKept
    <3>3. QED
      BY <1>1, <1>2, <2>1, <2>2, <3>2, ChanceKept
  <2>6. CASE e \notin Published
    BY <1>2, <2>6 DEF Chance, Published
  <2>7. QED
    BY <2>5, <2>6
<1>4. QED
  BY <1>2, <1>3 DEF ChanceInv

\* A run is done with an entry that has an issue by now, or that failed.
LEMMA ChanceDrop ==
    ASSUME FeedsInv, FeedsInv', ChanceInv, NEW r \in Run, NEW e \in Entry,
           Drop(r, e), UNCHANGED <<born, age, left, phase>>,
           \A d \in Entry : issues[d] > 0 => issues'[d] > 0,
           \A d \in Entry : fails'[d] >= fails[d],
           issues'[e] > 0 \/ fails'[e] = UpTo(Window, fails[e] + 1)
    PROVE  ChanceInv'
<1>1. OtherTypes /\ OtherTypes' /\ IssueTypes /\ IssueTypes' /\ RunTypes
  BY DEF FeedsInv
<1>2. entries' = [entries EXCEPT ![r] = entries[r] \ {e}]
  BY DEF Drop
<1>3. ASSUME NEW d \in Entry PROVE Chance(d)'
  <2>1. Chance(d)
    BY DEF ChanceInv
  <2>2. d = e \/ (Pending(Scheduled, d) => Pending(Scheduled, d)')
    BY <1>1, <1>2, RunAssumption DEF Pending, RunTypes
  <2>3. CASE d = e
    <3>1. phase' + Owed(d)' + Day >= phase + Owed(d)
      BY <1>1, OwedOnce
    <3>2. QED
      BY <1>1, <2>1, <2>3, <3>1, ChanceKept
  <2>4. CASE d # e
    <3>1. phase' + Owed(d)' >= phase + Owed(d)
      BY <1>1, <2>2, <2>4, OwedKept
    <3>2. QED
      BY <1>1, <2>1, <3>1, ChanceKept
  <2>5. QED
    BY <2>3, <2>4
<1>4. QED
  BY <1>3 DEF ChanceInv

\* A new entry is nobody's failure yet, and crowds others out at most.
LEMMA ChancePublish ==
    ASSUME FeedsInv, FeedsInv', ChanceInv, NEW x \in Entry, Publish(x)
    PROVE  ChanceInv'
<1>1. OtherTypes /\ OtherTypes'
  BY DEF FeedsInv
<1>2. /\ born[x] = 0
      /\ born' = [born EXCEPT ![x] = Cardinality(Published) + 1]
      /\ UNCHANGED <<age, issues, left, entries, phase, fails>>
  BY DEF Publish
<1>3. Published' = Published \cup {x} /\ x \notin Published
  <2>1. Cardinality(Published) \in Nat
    BY EntryAssumption, FS_Subset, FS_CardinalityType DEF Published
  <2>2. Cardinality(Published) + 1 > 0
    BY <2>1
  <2>3. QED
    BY <1>1, <1>2, <2>2 DEF Published, OtherTypes
<1>4. age[x] = 0
  BY <1>2 DEF ChanceInv
<1>5. ASSUME NEW e \in Entry PROVE Chance(e)'
  <2>1. CASE e = x
    <3>1. Paid(x)' \in Nat /\ Owed(x)' \in Nat
      <4>1. fails'[x] \in 0..Window
        BY <1>1 DEF OtherTypes
      <4>2. fails'[x] \in Nat
        BY <4>1, FeedBoundAssumption
      <4>3. Paid(x)' \in Nat
        BY <4>2, Multiples DEF Paid
      <4>4. QED
        BY <4>3, ClockAssumption DEF Owed
    <3>2. age'[x] = 0 /\ phase' \in Nat /\ Span \in Nat
      BY <1>1, <1>2, <1>4, SpanType, ClockAssumption DEF OtherTypes
    <3>3. 0 <= Paid(x)' + phase' + Owed(x)' /\ ~(0 > Span)
      BY <3>1, <3>2
    <3>4. QED
      BY <2>1, <3>2, <3>3 DEF Chance
  <2>2. CASE e # x
    <3> DEFINE before == {d \in Published : Before(d, e)}
    <3>1. ASSUME e \in Published, Crowded(e) PROVE Crowded(e)'
      <4>1. before \subseteq before'
        BY <1>1, <1>2, <1>3, <2>2 DEF Before, OtherTypes, Published
      <4>2. before' \in SUBSET Entry
        BY DEF Published
      <4>3. IsFiniteSet(before')
        BY <4>2, EntryAssumption, FS_Subset
      <4>4. /\ Cardinality(before) \in Nat /\ Cardinality(before') \in Nat
            /\ Cardinality(before) <= Cardinality(before')
        BY <4>1, <4>3, FS_Subset, FS_CardinalityType
      <4>5. Cardinality(before) >= MaxPerFeed
        BY <3>1 DEF Crowded
      <4>6. Cardinality(before') >= MaxPerFeed
        BY <4>4, <4>5, FeedBoundAssumption
      <4>7. QED
        BY <4>6 DEF Crowded
    <3>2. Chance(e) /\ (Pending(Scheduled, e)' <=> Pending(Scheduled, e))
      BY <1>2 DEF ChanceInv, Pending
    <3>6. Paid(e)' = Paid(e) /\ Owed(e)' = Owed(e)
      BY <1>2, <3>2 DEF Paid, Owed
    <3>3. e \in Published' => e \in Published
      BY <1>3, <2>2
    <3>4. UNCHANGED <<age, issues, phase, fails>>
      BY <1>2
    <3>5. QED
      BY <3>1, <3>2, <3>3, <3>4, <3>6 DEF Chance
  <2>3. QED
    BY <2>1, <2>2
<1>6. ASSUME NEW e \in Entry, born'[e] = 0 PROVE age'[e] = 0
  BY <1>1, <1>2, <1>4, <1>6 DEF ChanceInv, OtherTypes
<1>7. QED
  BY <1>5, <1>6 DEF ChanceInv

\* With a tick an entry and the time since the last run was due grow alike, as
\* long as the next run is not too late.
LEMMA ChanceTick ==
    ASSUME FeedsInv, FeedsInv', ChanceInv, Tick
    PROVE  ChanceInv'
<1> USE ClockAssumption
<1>1. OtherTypes /\ OtherTypes' /\ RunTypes
  BY DEF FeedsInv
<1>2. /\ phase < Day + Drift /\ phase' = phase + 1
      /\ age' = [e \in Entry |->
             IF e \in Published \cap Dated THEN UpTo(Span + 1, age[e] + 1) ELSE 0]
      /\ UNCHANGED <<born, issues, fails, left, entries>>
  BY DEF Tick
<1>3. entries[Scheduled] = {} /\ left[Scheduled] = {}
  BY <1>1, RunAssumption DEF Tick, RunTypes, RunOK
<1>4. ASSUME NEW e \in Entry PROVE Chance(e)'
  <2>1. Published' = Published /\ Crowded(e)' = Crowded(e)
    BY <1>2 DEF Published, Crowded, Before
  <2>2. Owed(e) = 0 /\ Owed(e)' = 0 /\ Paid(e)' = Paid(e)
    BY <1>2, <1>3 DEF Owed, Paid, Pending
  <2>3. SUFFICES ASSUME e \in Published, issues[e] = 0, ~Crowded(e)
                 PROVE  /\ age'[e] <= Span => age'[e] <= Paid(e) + phase' + 0
                        /\ age'[e] > Span => Paid(e) + Day + Drift > Span
    BY <1>2, <2>1, <2>2 DEF Chance
  <2>4. /\ age[e] <= Span => age[e] <= Paid(e) + phase + 0
        /\ age[e] > Span => Paid(e) + Day + Drift > Span
    BY <2>2, <2>3 DEF ChanceInv, Chance
  <2>5. Paid(e) \in Nat
    <3>1. fails[e] \in 0..Window
      BY <1>1 DEF OtherTypes
    <3>2. fails[e] \in Nat
      BY <3>1, FeedBoundAssumption
    <3>3. QED
      BY <3>2, Multiples DEF Paid
  <2>6. age[e] \in Nat /\ phase \in Nat /\ Span \in Nat
    <3>1. age[e] \in 0..(Span + 1) /\ phase \in 0..(Day + Drift)
      BY <1>1 DEF OtherTypes
    <3>2. QED
      BY <3>1, SpanType
  <2>7. age'[e] = UpTo(Span + 1, age[e] + 1) \/ age'[e] = 0
    BY <1>2
  <2>8. PICK a \in Nat, p \in Nat, s \in Nat, f \in Nat :
           a = age[e] /\ p = phase /\ s = Span /\ f = Paid(e)
    BY <2>5, <2>6
  <2>9. age'[e] = (IF a + 1 > s + 1 THEN s + 1 ELSE a + 1) \/ age'[e] = 0
    BY <2>7, <2>8 DEF UpTo
  <2>10. (a <= s => a <= f + p) /\ (a > s => f + Day + Drift > s) /\ p < Day + Drift
    BY <1>2, <2>4, <2>8
  <2>11. CASE a > s
    <3>1. a + 1 > s + 1
      BY <2>11
    <3>2. age'[e] = s + 1 \/ age'[e] = 0
      BY <2>9, <3>1
    <3>3. s + 1 > s /\ 0 <= s /\ 0 <= f + (p + 1)
      OBVIOUS
    <3>4. f + Day + Drift > s
      BY <2>10, <2>11
    <3>5. CASE age'[e] = s + 1
      BY <2>8, <3>3, <3>4, <3>5
    <3>6. CASE age'[e] = 0
      BY <1>2, <2>8, <3>3, <3>6
    <3>7. QED
      BY <3>2, <3>5, <3>6
  <2>12. CASE a <= s
    <3>1. a + 1 <= f + (p + 1) /\ 0 <= f + (p + 1) /\ 0 <= s
      BY <2>10, <2>12
    <3>2. a + 1 > s => f + Day + Drift > s
      BY <2>10, <2>12
    <3>3. age'[e] = a + 1 \/ age'[e] = 0
      BY <2>9, <2>12
    <3>4. phase' = p + 1
      BY <1>2, <2>8
    <3>5. CASE age'[e] = a + 1
      BY <2>8, <3>1, <3>2, <3>4, <3>5
    <3>6. CASE age'[e] = 0
      BY <2>8, <3>1, <3>4, <3>6
    <3>7. QED
      BY <3>3, <3>5, <3>6
  <2>13. QED
    BY <2>8, <2>11, <2>12
<1>5. ASSUME NEW e \in Entry, born'[e] = 0 PROVE age'[e] = 0
  BY <1>2, <1>5 DEF Published
<1>6. QED
  BY <1>4, <1>5 DEF ChanceInv

\* Every step of a run, the feeds, the index and the clock.
LEMMA ChanceStep == FeedsInv /\ FeedsInv' /\ ChanceInv /\ [Next]_vars => ChanceInv'
<1> SUFFICES ASSUME FeedsInv, FeedsInv', ChanceInv, [Next]_vars PROVE ChanceInv'
  OBVIOUS
<1>0. /\ OtherTypes /\ OtherTypes' /\ IssueTypes /\ IssueTypes' /\ RunTypes
      /\ \A e \in Entry : fails[e] \in 0..Window /\ fails[e] >= fails[e]
  <2>1. OtherTypes /\ OtherTypes' /\ IssueTypes /\ IssueTypes' /\ RunTypes
    BY DEF FeedsInv
  <2>2. \A e \in Entry : fails[e] \in 0..Window
    BY <2>1 DEF OtherTypes
  <2>3. QED
    BY <2>1, <2>2
<1>1. CASE StartScheduled
  <2>1. /\ stage[Scheduled] = "idle"
        /\ left' = [left EXCEPT ![Scheduled] = Feed]
        /\ phase >= Day /\ phase' = phase - Day
        /\ UNCHANGED <<born, age, issues, fails>>
    BY <1>1 DEF StartScheduled, Begin
  <2>2. ASSUME NEW e \in Entry PROVE Chance(e)'
    <3>1. Pending(Scheduled, e)'
      BY <1>0, <2>1, RunAssumption, EntryAssumption DEF Pending, RunTypes
    <3>2. ~Pending(Scheduled, e)
      BY <1>0, <2>1, RunAssumption DEF Pending, RunTypes, RunOK
    <3>3. Owed(e) = 0 /\ Owed(e)' = Day
      BY <3>1, <3>2 DEF Owed
    <3>4. phase' + Owed(e)' >= phase + Owed(e)
      <4>1. phase \in 0..(Day + Drift)
        BY <1>0 DEF OtherTypes
      <4>2. QED
        BY <2>1, <3>3, <4>1, ClockAssumption
    <3>5. Chance(e)
      BY DEF ChanceInv
    <3>6. QED
      BY <1>0, <2>1, <3>4, <3>5, ChanceKept
  <2>3. QED
    BY <2>1, <2>2 DEF ChanceInv
<1>2. ASSUME NEW r \in Run, StartByHand(r) PROVE ChanceInv'
  <2>1. /\ r # Scheduled
        /\ left' = [left EXCEPT ![r] = Feed]
        /\ UNCHANGED <<born, age, issues, entries, phase, fails>>
    BY <1>2 DEF StartByHand, Begin
  <2>2. left'[Scheduled] = left[Scheduled]
    BY <1>0, <2>1, RunAssumption DEF RunTypes
  <2>3. QED
    BY <1>0, <2>1, <2>2, ChanceStutter
<1>3. ASSUME NEW r \in Run, RunDies(r) PROVE ChanceInv'
  <2> DEFINE S == entries[r] \cup {e \in Entry : FeedOf[e] \in left[r]}
  <2>1. /\ left' = [left EXCEPT ![r] = {}]
        /\ entries' = [entries EXCEPT ![r] = {}]
        /\ UNCHANGED <<born, age, phase>>
        /\ Fail(S)
        /\ UNCHANGED issues \/ \E d \in absent[r] : Open(d)
    BY <1>3 DEF RunDies
  <2>2. ASSUME NEW e \in Entry PROVE issues[e] > 0 => issues'[e] > 0
    <3>1. \A d \in absent[r] : d \in Entry
      BY <1>0 DEF RunTypes
    <3>2. QED
      BY <1>0, <2>1, <3>1, OpenType DEF IssueTypes
  <2>3. ASSUME NEW e \in Entry PROVE Chance(e)'
    <3>1. fails'[e] >= fails[e] /\ (e \in S => fails'[e] = UpTo(Window, fails[e] + 1))
      BY <1>0, <2>1, FailCounts
    <3>2. e \in S \/ (Pending(Scheduled, e) => Pending(Scheduled, e)')
      <4>1. CASE r = Scheduled
        BY <4>1 DEF Pending
      <4>2. CASE r # Scheduled
        BY <1>0, <2>1, <4>2, RunAssumption DEF Pending, RunTypes
      <4>3. QED
        BY <4>1, <4>2
    <3>3. Chance(e)
      BY DEF ChanceInv
    <3>4. UNCHANGED <<born, age, phase>>
      BY <2>1
    <3> HIDE DEF S
    <3>5. CASE e \in S
      <4>1. phase' + Owed(e)' + Day >= phase + Owed(e)
        BY <1>0, <3>4, OwedOnce
      <4>2. QED
        BY <1>0, <2>2, <3>1, <3>3, <3>4, <3>5, <4>1, ChanceKept
    <3>6. CASE e \notin S
      <4>1. phase' + Owed(e)' >= phase + Owed(e)
        BY <1>0, <3>2, <3>4, <3>6, OwedKept
      <4>2. QED
        BY <1>0, <2>2, <3>1, <3>3, <3>4, <4>1, ChanceKept
    <3>7. QED
      BY <3>5, <3>6
  <2>4. QED
    BY <2>1, <2>3 DEF ChanceInv
<1>4. ASSUME NEW r \in Run, NEW f \in Feed, Fetch(r, f) PROVE ChanceInv'
  BY <1>4, ChanceFetch
<1>5. ASSUME NEW r \in Run, NEW f \in Feed, FetchFails(r, f) PROVE ChanceInv'
  <2> DEFINE S == {e \in Entry : FeedOf[e] = f}
  <2>1. /\ left' = [left EXCEPT ![r] = left[r] \ {f}]
        /\ entries' = [entries EXCEPT ![r] = entries[r] \cup {}]
        /\ UNCHANGED <<born, age, issues, phase>>
        /\ Fail(S)
    BY <1>5 DEF FetchFails, Collect
  <2>2. ASSUME NEW e \in Entry PROVE Chance(e)'
    <3>1. fails'[e] >= fails[e] /\ (e \in S => fails'[e] = UpTo(Window, fails[e] + 1))
      BY <1>0, <2>1, FailCounts
    <3>2. e \in S \/ (Pending(Scheduled, e) => Pending(Scheduled, e)')
      BY <1>0, <2>1, RunAssumption DEF Pending, RunTypes
    <3>3. Chance(e)
      BY DEF ChanceInv
    <3>4. UNCHANGED <<born, age, issues, phase>>
      BY <2>1
    <3> HIDE DEF S
    <3>5. CASE e \in S
      <4>1. phase' + Owed(e)' + Day >= phase + Owed(e)
        BY <1>0, <3>4, OwedOnce
      <4>2. QED
        BY <1>0, <3>1, <3>3, <3>4, <3>5, <4>1, ChanceKept
    <3>6. CASE e \notin S
      <4>1. phase' + Owed(e)' >= phase + Owed(e)
        BY <1>0, <3>2, <3>4, <3>6, OwedKept
      <4>2. QED
        BY <1>0, <3>1, <3>3, <3>4, <4>1, ChanceKept
    <3>7. QED
      BY <3>5, <3>6
  <2>3. QED
    BY <2>1, <2>2 DEF ChanceInv
<1>6. ASSUME NEW r \in Run, NEW e \in Entry, SearchFinds(r, e) PROVE ChanceInv'
  <2>1. Drop(r, e) /\ UNCHANGED <<born, age, issues, searchable, left, phase, fails, faults, calm>>
    BY <1>6 DEF SearchFinds
  <2>2. issues[e] > 0
    BY <1>0, <1>6 DEF SearchFinds, IssueExists, IssueTypes
  <2>3. QED
    BY <1>0, <2>1, <2>2, ChanceDrop
<1>7. ASSUME NEW r \in Run, NEW e \in Entry, SearchFindsNothing(r, e) PROVE ChanceInv'
  <2>1. UNCHANGED <<born, age, issues, left, entries, phase, fails>>
    BY <1>7 DEF SearchFindsNothing
  <2>2. QED
    BY <1>0, <2>1, ChanceStutter
<1>8. ASSUME NEW r \in Run, NEW e \in Entry, Create(r, e) PROVE ChanceInv'
  <2>1. Drop(r, e) /\ Open(e) /\ UNCHANGED <<born, age, left, phase, fails>>
    BY <1>8 DEF Create
  <2>2. /\ issues'[e] > 0
        /\ \A d \in Entry : d # e => issues'[d] = issues[d]
    BY <1>0, <2>1, OpenType DEF IssueTypes
  <2>3. QED
    BY <1>0, <2>1, <2>2, ChanceDrop
<1>9. ASSUME NEW r \in Run, NEW e \in Entry, RequestFails(r, e) PROVE ChanceInv'
  <2>1. /\ Drop(r, e) /\ Fail({e}) /\ UNCHANGED <<born, age, left, phase>>
        /\ UNCHANGED issues \/ (e \in absent[r] /\ Open(e))
    BY <1>9, Zenon DEF RequestFails
  <2>2. \A d \in Entry : issues[d] > 0 => issues'[d] > 0
    BY <1>0, <2>1, OpenType DEF IssueTypes
  <2>3. ASSUME NEW d \in Entry
        PROVE  fails'[d] >= fails[d] /\ (d = e => fails'[d] = UpTo(Window, fails[d] + 1))
    BY <1>0, <2>1, FailCounts
  <2>4. QED
    BY <2>1, <2>2, <2>3, ChanceDrop
<1>10. ASSUME NEW e \in Entry, Publish(e) PROVE ChanceInv'
  BY <1>10, ChancePublish
<1>11. ASSUME NEW e \in Entry, Index(e) PROVE ChanceInv'
  <2>1. UNCHANGED <<born, age, issues, left, entries, phase, fails>>
    BY <1>11 DEF Index
  <2>2. QED
    BY <1>0, <2>1, ChanceStutter
<1>12. CASE SkipRun
  <2>1. /\ Fail(Entry) /\ phase >= Day /\ phase' = phase - Day
        /\ UNCHANGED <<born, age, issues, left, entries>>
    BY <1>12 DEF SkipRun
  <2>2. ASSUME NEW e \in Entry PROVE Chance(e)'
    <3>1. fails'[e] >= fails[e] /\ fails'[e] = UpTo(Window, fails[e] + 1)
      BY <1>0, <2>1, FailCounts
    <3>2. Chance(e)
      BY DEF ChanceInv
    <3>3. phase' + Owed(e)' + Day >= phase + Owed(e)
      <4>1. Owed(e)' = Owed(e) /\ Owed(e) \in Nat
        BY <2>1, ClockAssumption DEF Owed, Pending
      <4>2. phase \in 0..(Day + Drift)
        BY <1>0 DEF OtherTypes
      <4>3. QED
        BY <2>1, <4>1, <4>2, ClockAssumption
    <3>4. QED
      BY <1>0, <2>1, <3>1, <3>2, <3>3, ChanceKept
  <2>3. QED
    BY <2>1, <2>2 DEF ChanceInv
<1>13. CASE Tick
  BY <1>13, ChanceTick
<1>14. CASE UNCHANGED vars
  <2>1. UNCHANGED <<born, age, issues, left, entries, phase, fails>>
    BY <1>14 DEF vars
  <2>2. QED
    BY <1>0, <2>1, ChanceStutter
<1>15. QED
  BY <1>1, <1>2, <1>3, <1>4, <1>5, <1>6, <1>7, <1>8, <1>9, <1>10, <1>11, <1>12, <1>13,
     <1>14 DEF Next

\* An entry that has outlived its window was failed at every sure chance.
LEMMA ChancesPaid ==
    ASSUME FeedsInv, NEW e \in Entry, Paid(e) + Day + Drift > Span
    PROVE  fails[e] >= Chances
<1> USE ClockAssumption
<1>1. fails[e] \in 0..Window /\ Window \in Nat
  BY FeedBoundAssumption DEF FeedsInv, OtherTypes
<1>2. PICK f \in Nat, w \in Nat : f = fails[e] /\ w = Window
  BY <1>1
<1>3. /\ (f + 1) * Day = f * Day + Day
      /\ (f + 2) * Day = f * Day + Day + Day
  <2>1. (f + 1) * Day = f * Day + Day
    BY Multiples
  <2>2. f + 1 \in Nat /\ f + 2 = (f + 1) + 1
    OBVIOUS
  <2>3. ((f + 1) + 1) * Day = (f + 1) * Day + Day
    BY <2>2, Multiples
  <2>4. QED
    BY <2>1, <2>2, <2>3
<1>4. f * Day \in Nat /\ w * Day \in Nat /\ f * Day + Day + Drift > w * Day
  <2>1. Paid(e) = f * Day /\ Span = w * Day
    BY <1>2 DEF Paid, Span
  <2>2. QED
    BY <2>1, Multiples
<1>5. CASE Drift = 0
  <2>1. (f + 1) * Day > w * Day
    BY <1>3, <1>4, <1>5
  <2>2. f + 1 \in Nat
    OBVIOUS
  <2>3. f + 1 > w
    BY <2>1, <2>2, Multiples
  <2>4. QED
    BY <1>2, <1>5, <2>3 DEF Chances
<1>6. CASE Drift # 0
  <2>1. (f + 2) * Day > w * Day
    BY <1>3, <1>4
  <2>2. f + 2 \in Nat
    OBVIOUS
  <2>3. f + 2 > w
    BY <2>1, <2>2, Multiples
  <2>4. QED
    BY <1>2, <1>6, <2>3 DEF Chances
<1>7. QED
  BY <1>5, <1>6

\* For any feeds, window, limit and lateness: an entry older than the window
\* without an issue was crowded out, or as many failures concerned it as
\* scheduled runs were sure to start while it was recent.
THEOREM OutageSafety == Spec => []MissedOnlyByOutage
<1>1. Init => ChanceInv
  BY DEF Init, ChanceInv, Chance, Published
<1>2. FeedsInv /\ FeedsInv' /\ ChanceInv /\ [Next]_vars => ChanceInv'
  BY ChanceStep
<1>3. FeedsInv /\ ChanceInv => MissedOnlyByOutage
  <2>1. SUFFICES ASSUME FeedsInv, ChanceInv, NEW e \in Published,
                        age[e] > Span, issues[e] = 0, ~Crowded(e)
                 PROVE  fails[e] >= Chances
    BY DEF MissedOnlyByOutage
  <2>2. e \in Entry /\ Paid(e) + Day + Drift > Span
    BY <2>1 DEF ChanceInv, Chance, Published
  <2>3. QED
    BY <2>1, <2>2, ChancesPaid
<1>4. QED
  BY <1>1, <1>2, <1>3, FeedsInvariant, PTL DEF Spec
=============================================================================
