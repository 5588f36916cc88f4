------------------------- MODULE PlatformSyncProofs -------------------------
(***************************************************************************)
(* Proofs about PlatformSync, for any set of consumer files, any           *)
(* assignment of files to passes and any number of edits.                  *)
(***************************************************************************)
EXTENDS PlatformSync, TLAPS

\* The constant tables of the script are well formed: every pass has a rank of
\* its own and writes some of the slots.
LEMMA PassTables ==
    /\ \A p \in Pass : Rank[p] \in Nat /\ Writes[p] \subseteq Slot
    /\ \A p, q \in Pass : Rank[p] = Rank[q] => p = q
BY DEF Rank, Writes, Pass, Slot

\* sub_domain() leaves a base domain or puts platform.yaml's in its place.
LEMMA SubDomainType ==
    ASSUME platform \in [Slot -> Value], NEW b \in Value
    PROVE  SubDomain(b) \in Value
BY DEF SubDomain, Slot

\* The text of every pass, slot by slot: its own slots are computed, the others
\* are those of the disk.
LEMMA DesiredText ==
    ASSUME disk \in [File -> [Slot -> Value]], NEW p \in Pass, NEW f \in File
    PROVE  Desired(p, f) =
             [s \in Slot |->
                IF s \notin Writes[p] THEN disk[f][s]
                ELSE IF p = "dev_caddy" THEN ProductionBase
                ELSE IF p = "domain" /\ s = "base" THEN SubDomain(disk[f]["base"])
                ELSE platform[s]]
<1>1. CASE p = "compose"
  <2>1. Desired(p, f) = WithTags(disk[f])
    BY <1>1 DEF Desired
  <2>2. QED
    BY <1>1, <2>1 DEF WithTags, Writes, Slot
<1>2. CASE p = "dockerfile"
  <2>1. Desired(p, f) = WithTags(disk[f])
    BY <1>2 DEF Desired
  <2>2. QED
    BY <1>2, <2>1 DEF WithTags, Writes, Slot
<1>3. CASE p = "helm"
  <2>1. Desired(p, f) = WithTags(disk[f])
    BY <1>3 DEF Desired
  <2>2. QED
    BY <1>3, <2>1 DEF WithTags, Writes, Slot
<1>4. CASE p = "k3d"
  <2>1. Desired(p, f) = WithPorts(disk[f])
    BY <1>4 DEF Desired
  <2>2. QED
    BY <1>4, <2>1 DEF WithPorts, Writes, Slot
<1>5. CASE p = "env"
  <2>1. Desired(p, f) = WithPorts(disk[f])
    BY <1>5 DEF Desired
  <2>2. QED
    BY <1>5, <2>1 DEF WithPorts, Writes, Slot
<1>6. CASE p = "test_defaults"
  <2>1. Desired(p, f) = WithTestDefaults(disk[f])
    BY <1>6 DEF Desired
  <2>2. QED
    BY <1>6, <2>1 DEF WithTestDefaults, Writes, Slot
<1>7. CASE p = "domain"
  <2>1. Desired(p, f) = WithDomain(disk[f])
    BY <1>7 DEF Desired
  <2>2. QED
    BY <1>7, <2>1 DEF WithDomain, Writes, Slot
<1>8. CASE p = "onboarding"
  <2>1. Desired(p, f) = OnboardingPage(disk[f])
    BY <1>8 DEF Desired
  <2>2. QED
    BY <1>8, <2>1 DEF OnboardingPage, Writes, Slot
<1>9. CASE p = "dev_caddy"
  <2>1. Desired(p, f) = DevCaddyfile(disk[f])
    BY <1>9 DEF Desired
  <2>2. QED
    BY <1>9, <2>1 DEF DevCaddyfile, Writes, Slot
<1>10. CASE p = "portal"
  <2>1. Desired(p, f) = WithPortal(disk[f])
    BY <1>10 DEF Desired
  <2>2. QED
    BY <1>10, <2>1 DEF WithPortal, Writes, Slot
<1>11. QED
  BY <1>1, <1>2, <1>3, <1>4, <1>5, <1>6, <1>7, <1>8, <1>9, <1>10 DEF Pass

\* The text a pass computes from well-formed files is well formed.
LEMMA DesiredType ==
    ASSUME platform \in [Slot -> Value], disk \in [File -> [Slot -> Value]],
           NEW p \in Pass, NEW f \in File
    PROVE  Desired(p, f) \in [Slot -> Value]
<1>1. SubDomain(disk[Caddy]["base"]) \in Value /\ SubDomain(disk[f]["base"]) \in Value
  BY CaddyAssumption, SubDomainType DEF Slot
<1>2. \A s \in Slot : platform[s] \in Value /\ disk[f][s] \in Value
  OBVIOUS
<1>3. QED
  BY <1>1, <1>2, DesiredText DEF ProductionBase

\* The dirty changes are well formed.
LEMMA DirtyType ==
    ASSUME platform \in [Slot -> Value], disk \in [File -> [Slot -> Value]]
    PROVE  Dirty \subseteq Change
<1>1. SUFFICES ASSUME NEW c \in [pass : Pass, file : File]
               PROVE [pass |-> c.pass, file |-> c.file,
                      desired |-> Desired(c.pass, c.file)] \in Change
  BY DEF Dirty
<1>2. c.pass \in Pass /\ c.file \in File
  OBVIOUS
<1>3. Desired(c.pass, c.file) \in [Slot -> Value]
  BY <1>2, DesiredType
<1>4. QED
  BY <1>2, <1>3 DEF Change

\* Type correctness: whatever is edited, interrupted or run, the files and the
\* pending changes stay well formed, and nothing is pending outside a run.
THEOREM TypeCorrect == Spec => []TypeOK
<1>1. Init => TypeOK
  BY InitialValueAssumption, MaxDisturbancesAssumption DEF Init, TypeOK, Verdict, Gap
<1>2. TypeOK /\ [Next]_vars => TypeOK'
  <2> SUFFICES ASSUME TypeOK, [Next]_vars
               PROVE  TypeOK'
    OBVIOUS
  <2> USE DEF TypeOK
  <2>1. CASE Refuse
    BY <2>1 DEF Refuse, Verdict
  <2>2. CASE Check
    BY <2>2 DEF Check, Verdict
  <2>3. CASE StartApply
    BY <2>3, DirtyType DEF StartApply
  <2>4. ASSUME NEW c \in todo, ApplyOne(c)
        PROVE  TypeOK'
    <3>1. c.file \in File /\ c.desired \in [Slot -> Value]
      BY DEF Change
    <3>2. disk' \in [File -> [Slot -> Value]]
      BY <2>4, <3>1 DEF ApplyOne
    <3>3. QED
      BY <2>4, <3>2 DEF ApplyOne
  <2>5. CASE FinishApply
    BY <2>5 DEF FinishApply, AllWritten, Verdict
  <2>6. CASE EditPlatform
    <3>1. gaps' \subseteq Gap
      BY <2>6 DEF EditPlatform
    <3>2. /\ platform' \in [Slot -> Value]
          /\ disk' = disk /\ pc' = pc /\ todo' = todo
          /\ verdict' \in Verdict
      BY <2>6 DEF EditPlatform, Verdict
    <3>3. streak' \in 0..2 /\ disturbances' \in 0..MaxDisturbances
      <4>1. /\ disturbances < MaxDisturbances
            /\ streak' = 0 /\ disturbances' = disturbances + 1
        BY <2>6 DEF EditPlatform
      <4>2. disturbances + 1 \in 0..MaxDisturbances
        BY <4>1, MaxDisturbancesAssumption
      <4>3. QED
        BY <4>1, <4>2
    <3>4. gaps' \subseteq Gap /\ UNCHANGED <<disk, pc, todo>>
      BY <3>1, <3>2
    <3>5. QED
      BY <3>2, <3>3, <3>4
  <2>7. CASE CloseGaps
    BY <2>7 DEF CloseGaps, Gap
  <2>8. ASSUME NEW f \in File, NEW s \in Slot, NEW v \in Value, HandEdit(f, s, v)
        PROVE  TypeOK'
    <3>1. disk' \in [File -> [Slot -> Value]]
      BY <2>8 DEF HandEdit
    <3>2. gaps' \subseteq Gap
      BY <2>8 DEF HandEdit, Gap
    <3>3. streak' \in 0..2 /\ disturbances' \in 0..MaxDisturbances
      <4>1. /\ disturbances < MaxDisturbances
            /\ streak' = 0 /\ disturbances' = disturbances + 1
        BY <2>8 DEF HandEdit
      <4>2. disturbances + 1 \in 0..MaxDisturbances
        BY <4>1, MaxDisturbancesAssumption
      <4>3. QED
        BY <4>1, <4>2
    <3>4. /\ verdict' \in Verdict
          /\ UNCHANGED <<platform, pc, todo>>
      BY <2>8 DEF HandEdit, Verdict
    <3>5. QED
      BY <3>1, <3>2, <3>3, <3>4
  <2>9. CASE Interrupt
    BY <2>9, MaxDisturbancesAssumption DEF Interrupt, Verdict
  <2>10. CASE UNCHANGED vars
    BY <2>10 DEF vars
  <2>11. QED
    BY <2>1, <2>2, <2>3, <2>4, <2>5, <2>6, <2>7, <2>8, <2>9, <2>10 DEF Next
<1>3. QED
  BY <1>1, <1>2, PTL DEF Spec
-----------------------------------------------------------------------------
(* What a run guarantees *)

UnshadowedInSync ==
    \A p \in Pass, f \in File, s \in Slot :
        Covers(p, f, s) /\ ~Shadowed(f, s) => InSync(f, s)

\* No pass that sets slot s comes before c's: c.desired holds the slot as the
\* run found it, and nothing has changed it since.
Ahead(c, s) == \A p \in Pass : Covers(p, c.file, s) => Rank[c.pass] < Rank[p]

\* A pending change that will set the slot.
Pending(f, s) == \E c \in todo : c.file = f /\ s \in Writes[c.pass]

\* A pending change sets its own slots right and keeps those it is ahead of.
TodoOK ==
    /\ \A c \in todo : /\ c.file \in Targets[c.pass]
                      /\ \A s \in Writes[c.pass] : c.desired[s] = platform[s]
    /\ \A c \in todo, s \in Slot :
          s \notin Writes[c.pass] /\ Ahead(c, s) => c.desired[s] = disk[c.file][s]

\* During a run an unshadowed slot that is still wrong has its change pending.
\* (A slot the run found right is never made wrong.)
UnshadowedPending ==
    pc = "applying" =>
        \A p \in Pass, f \in File, s \in Slot :
            Covers(p, f, s) /\ ~Shadowed(f, s) => InSync(f, s) \/ Pending(f, s)

\* After one completed run only shadowed slots are wrong, and the next run
\* writes only the changes that set one.
AfterOneRun ==
    streak >= 1 =>
        /\ UnshadowedInSync
        /\ \A c \in todo : \E s \in Writes[c.pass] : Shadowed(c.file, s)
        /\ pc = "applying" =>
              \A p \in Pass, f \in File, s \in Slot :
                  Covers(p, f, s) => InSync(f, s) \/ Pending(f, s)

\* Once a run or a check has found everything right, a run writes nothing.
Settled == verdict = "clean" \/ streak = 2 => AllInSync /\ todo = {}

RunInv ==
    /\ TypeOK
    /\ TodoOK
    /\ UnshadowedPending
    /\ verdict = "applied" => UnshadowedInSync
    /\ AfterOneRun
    /\ Settled

\* When sub_domain() recognises every base, a pass puts platform.yaml's values
\* in the slots it sets and keeps the others.
LEMMA DesiredSets ==
    ASSUME AllAnchored, TypeOK, NEW p \in Pass, NEW f \in File, NEW s \in Slot
    PROVE  Desired(p, f)[s] = IF s \in Writes[p] THEN platform[s] ELSE disk[f][s]
<1>1. disk[Caddy]["base"] \in Anchored /\ disk[f]["base"] \in Anchored
  BY CaddyAssumption DEF TypeOK, AllAnchored, Slot
<1>2. /\ SubDomain(disk[Caddy]["base"]) = platform["base"]
      /\ SubDomain(disk[f]["base"]) = platform["base"]
  BY <1>1 DEF SubDomain
<1>3. p = "dev_caddy" /\ s \in Writes[p] => s = "base"
  BY DEF Writes
<1>4. QED
  BY <1>2, <1>3, DesiredText DEF ProductionBase, TypeOK

\* The fields of a dirty change.
LEMMA DirtyFields ==
    ASSUME NEW c \in Dirty
    PROVE  /\ c.pass \in Pass /\ c.file \in File /\ c.file \in Targets[c.pass]
           /\ c.desired = Desired(c.pass, c.file)
           /\ c.desired # disk[c.file]
BY DEF Dirty, IsDirty

\* A slot a pass is responsible for is right, or the pass's change is dirty.
LEMMA WrongMeansDirty ==
    ASSUME AllAnchored, TypeOK,
           NEW p \in Pass, NEW f \in File, NEW s \in Slot,
           Covers(p, f, s), ~InSync(f, s)
    PROVE  \E c \in Dirty : c.pass = p /\ c.file = f
<1>1. Desired(p, f)[s] # disk[f][s]
  BY DesiredSets DEF Covers, InSync
<1>2. [pass |-> p, file |-> f] \in
        {d \in [pass : Pass, file : File] : d.file \in Targets[d.pass] /\ IsDirty(d.pass, d.file)}
  BY <1>1 DEF IsDirty, Covers
<1>3. [pass |-> p, file |-> f, desired |-> Desired(p, f)] \in Dirty
  BY <1>2 DEF Dirty
<1>4. QED
  BY <1>3

\* A dirty change has a slot of its own that is wrong on disk.
LEMMA DirtyMeansWrong ==
    ASSUME AllAnchored, TypeOK, NEW c \in Dirty
    PROVE  \E s \in Writes[c.pass] : s \in Slot /\ Covers(c.pass, c.file, s) /\ ~InSync(c.file, s)
<1>1. c.pass \in Pass /\ c.file \in File /\ c.file \in Targets[c.pass]
  BY DirtyFields
<1>2. Desired(c.pass, c.file) \in [Slot -> Value] /\ disk[c.file] \in [Slot -> Value]
  BY <1>1, DesiredType DEF TypeOK
<1>3. PICK s \in Slot : Desired(c.pass, c.file)[s] # disk[c.file][s]
  BY <1>2, DirtyFields
<1>4. s \in Writes[c.pass] /\ platform[s] # disk[c.file][s]
  BY <1>1, <1>3, DesiredSets
<1>5. QED
  BY <1>1, <1>4 DEF Covers, InSync

\* A change is ahead of every unshadowed slot it does not set.
LEMMA UnshadowedAhead ==
    ASSUME NEW c \in Change, c.file \in Targets[c.pass], NEW s \in Slot,
           s \notin Writes[c.pass], ~Shadowed(c.file, s)
    PROVE  Ahead(c, s)
<1>1. SUFFICES ASSUME NEW p \in Pass, Covers(p, c.file, s)
               PROVE  Rank[c.pass] < Rank[p]
  BY DEF Ahead
<1>2. c.pass \in Pass
  BY DEF Change
<1>3. ~(Rank[p] < Rank[c.pass])
  BY <1>1, <1>2 DEF Shadowed
<1>4. p # c.pass
  BY <1>1 DEF Covers
<1>5. Rank[p] # Rank[c.pass] /\ Rank[p] \in Nat /\ Rank[c.pass] \in Nat
  BY <1>2, <1>4, PassTables
<1>6. QED
  BY <1>3, <1>5

\* The effect of one write on the slots: those the pass sets become right,
\* those it is ahead of and those of other files keep their value.
LEMMA WriteEffect ==
    ASSUME TypeOK, TodoOK, NEW c \in todo, ApplyOne(c),
           NEW f \in File, NEW s \in Slot
    PROVE  /\ f = c.file /\ s \in Writes[c.pass] => InSync(f, s)'
           /\ f = c.file /\ s \notin Writes[c.pass] /\ Ahead(c, s) => disk'[f][s] = disk[f][s]
           /\ f # c.file => disk'[f][s] = disk[f][s]
<1>1. c.file \in File
  BY DEF TypeOK, Change
<1>2. disk' = [disk EXCEPT ![c.file] = c.desired] /\ platform' = platform
  BY DEF ApplyOne
<1>3. f = c.file => disk'[f] = c.desired
  BY <1>1, <1>2 DEF TypeOK
<1>4. f # c.file => disk'[f] = disk[f]
  BY <1>1, <1>2 DEF TypeOK
<1>5. QED
  BY <1>2, <1>3, <1>4 DEF TodoOK, InSync

\* A write keeps the other pending changes good.
LEMMA WriteKeepsTodoOK ==
    ASSUME TypeOK, TodoOK, NEW c \in todo, ApplyOne(c)
    PROVE  TodoOK'
<1>1. todo' = todo \ {c} /\ platform' = platform
  BY DEF ApplyOne
<1>2. ASSUME NEW d \in todo'
      PROVE  /\ d.file \in Targets[d.pass]
             /\ \A s \in Writes[d.pass] : d.desired[s] = platform'[s]
  BY <1>1 DEF TodoOK
<1>3. ASSUME NEW d \in todo', NEW s \in Slot, s \notin Writes[d.pass], Ahead(d, s)
      PROVE  d.desired[s] = disk'[d.file][s]
  <2>1. d \in todo /\ d.file \in File /\ d.pass \in Pass /\ c.pass \in Pass
    BY <1>1 DEF TypeOK, Change
  <2>2. d.desired[s] = disk[d.file][s]
    BY <1>3, <2>1 DEF TodoOK
  <2>3. CASE d.file # c.file
    BY <2>1, <2>2, <2>3, WriteEffect
  <2>4. CASE d.file = c.file
    <3>1. Rank[c.pass] <= Rank[d.pass]
      BY <2>1 DEF ApplyOne, FirstInList
    <3>2. Rank[c.pass] \in Nat /\ Rank[d.pass] \in Nat /\ \A p \in Pass : Rank[p] \in Nat
      BY <2>1, PassTables
    <3>3. s \notin Writes[c.pass]
      <4>1. SUFFICES ASSUME s \in Writes[c.pass] PROVE FALSE
        OBVIOUS
      <4>2. Covers(c.pass, d.file, s)
        BY <4>1, <2>4 DEF Covers, TodoOK
      <4>3. Rank[d.pass] < Rank[c.pass]
        BY <1>3, <4>2, <2>1 DEF Ahead
      <4>4. QED
        BY <3>1, <3>2, <4>3
    <3>4. Ahead(c, s)
      BY <1>3, <2>4, <3>1, <3>2 DEF Ahead
    <3>5. QED
      BY <2>1, <2>2, <2>4, <3>3, <3>4, WriteEffect
  <2>5. QED
    BY <2>3, <2>4
<1>4. QED
  BY <1>2, <1>3 DEF TodoOK, Ahead, Covers

\* A write never makes an unshadowed slot wrong.
LEMMA WriteKeepsUnshadowed ==
    ASSUME TypeOK, TodoOK, NEW c \in todo, ApplyOne(c),
           NEW f \in File, NEW s \in Slot, ~Shadowed(f, s), InSync(f, s)
    PROVE  InSync(f, s)'
<1>1. c \in Change /\ c.file \in Targets[c.pass]
  BY DEF TypeOK, TodoOK
<1>2. CASE f = c.file /\ s \in Writes[c.pass]
  BY <1>2, WriteEffect
<1>3. CASE ~(f = c.file /\ s \in Writes[c.pass])
  <2>1. f = c.file => Ahead(c, s)
    BY <1>1, <1>3, UnshadowedAhead
  <2>2. disk'[f][s] = disk[f][s] /\ platform' = platform
    BY <1>3, <2>1, WriteEffect DEF ApplyOne
  <2>3. QED
    BY <2>2 DEF InSync
<1>4. QED
  BY <1>2, <1>3

\* Writing c, the pending changes lose only c, whose own slots are now right.
LEMMA WriteKeepsPending ==
    ASSUME TypeOK, TodoOK, NEW c \in todo, ApplyOne(c),
           NEW f \in File, NEW s \in Slot, Pending(f, s)
    PROVE  InSync(f, s)' \/ Pending(f, s)'
<1>1. PICK d \in todo : d.file = f /\ s \in Writes[d.pass]
  BY DEF Pending
<1>2. CASE d = c
  BY <1>1, <1>2, WriteEffect
<1>3. CASE d # c
  <2>1. d \in todo'
    BY <1>3 DEF ApplyOne
  <2>2. QED
    BY <1>1, <2>1 DEF Pending
<1>4. QED
  BY <1>2, <1>3

\* In a run that follows a completed one no pending change shadows a slot, so
\* no write makes any slot wrong.
LEMMA SecondRunKeeps ==
    ASSUME NoChains, TypeOK, TodoOK, AfterOneRun, streak >= 1,
           NEW c \in todo, ApplyOne(c),
           NEW p \in Pass, NEW f \in File, NEW s \in Slot, Covers(p, f, s), InSync(f, s)
    PROVE  InSync(f, s)'
<1>1. c \in Change /\ c.pass \in Pass /\ c.file \in File /\ c.file \in Targets[c.pass]
  BY DEF TypeOK, TodoOK, Change
<1>2. CASE f = c.file /\ s \in Writes[c.pass]
  BY <1>2, WriteEffect
<1>3. CASE ~(f = c.file /\ s \in Writes[c.pass])
  <2>1. ASSUME f = c.file PROVE Ahead(c, s)
    <3>1. SUFFICES ASSUME NEW q \in Pass, Covers(q, c.file, s)
                   PROVE  Rank[c.pass] < Rank[q]
      BY DEF Ahead
    <3>2. PICK t \in Writes[c.pass] : Shadowed(c.file, t)
      BY DEF AfterOneRun
    <3>3. t \in Slot
      BY <1>1, PassTables
    <3>4. ~(Rank[q] < Rank[c.pass])
      BY <1>1, <1>3, <2>1, <3>1, <3>2, <3>3 DEF NoChains
    <3>5. q # c.pass
      BY <1>3, <2>1, <3>1 DEF Covers
    <3>6. Rank[q] # Rank[c.pass] /\ Rank[q] \in Nat /\ Rank[c.pass] \in Nat
      BY <1>1, <3>5, PassTables
    <3>7. QED
      BY <3>4, <3>6
  <2>2. disk'[f][s] = disk[f][s] /\ platform' = platform
    BY <1>3, <2>1, WriteEffect DEF ApplyOne
  <2>3. QED
    BY <2>2 DEF InSync
<1>4. QED
  BY <1>2, <1>3

\* The invariant holds again whenever the state is disturbed outside a run or
\* the run is abandoned: nothing is pending and nothing is claimed.
LEMMA DisturbedOK ==
    ASSUME TypeOK', todo' = {}, pc' = "idle", streak' = 0,
           verdict' \notin {"applied", "clean"}
    PROVE  RunInv'
BY DEF RunInv, TodoOK, UnshadowedPending, AfterOneRun, Settled

\* Steps that leave the files, platform.yaml, the run and its claims alone.
LEMMA UntouchedOK ==
    ASSUME RunInv, TypeOK',
           UNCHANGED <<platform, disk, pc, todo, streak>>,
           verdict' = verdict \/ verdict' \notin {"applied", "clean"}
    PROVE  RunInv'
BY DEF RunInv, TodoOK, UnshadowedPending, AfterOneRun, Settled, UnshadowedInSync,
       AllInSync, InSync, Pending, Ahead, Covers, Shadowed

\* Starting a run computes changes that are good, and none when all is right.
LEMMA StartApplyOK ==
    ASSUME AllAnchored, RunInv, TypeOK', StartApply
    PROVE  RunInv'
<1>1. /\ TypeOK /\ todo' = Dirty /\ pc' = "applying"
      /\ UNCHANGED <<platform, disk, verdict, streak>>
  BY DEF RunInv, StartApply
<1>2. TodoOK'
  <2>1. ASSUME NEW c \in Dirty
        PROVE  /\ c.file \in Targets[c.pass]
               /\ \A s \in Writes[c.pass] : c.desired[s] = platform[s]
               /\ \A s \in Slot : s \notin Writes[c.pass] => c.desired[s] = disk[c.file][s]
    BY <1>1, DirtyFields, DesiredSets, PassTables
  <2>2. QED
    BY <1>1, <2>1 DEF TodoOK
<1>3. ASSUME NEW p \in Pass, NEW f \in File, NEW s \in Slot, Covers(p, f, s)
      PROVE  InSync(f, s)' \/ Pending(f, s)'
  <2>1. CASE InSync(f, s)
    BY <1>1, <2>1 DEF InSync
  <2>2. CASE ~InSync(f, s)
    <3>1. PICK c \in Dirty : c.pass = p /\ c.file = f
      BY <1>1, <1>3, <2>2, WrongMeansDirty
    <3>2. QED
      BY <1>1, <1>3, <3>1 DEF Pending, Covers
  <2>3. QED
    BY <2>1, <2>2
<1>4. UnshadowedPending'
  BY <1>3 DEF UnshadowedPending, Covers, Shadowed
<1>5. UnshadowedInSync' <=> UnshadowedInSync
  BY <1>1 DEF UnshadowedInSync, InSync, Covers, Shadowed
<1>6. AfterOneRun'
  <2>1. SUFFICES ASSUME streak >= 1
                 PROVE  \A c \in Dirty : \E s \in Writes[c.pass] : Shadowed(c.file, s)
    BY <1>1, <1>3, <1>5 DEF RunInv, AfterOneRun, Covers, Shadowed
  <2>2. TAKE c \in Dirty
  <2>3. PICK s \in Writes[c.pass] : s \in Slot /\ Covers(c.pass, c.file, s) /\ ~InSync(c.file, s)
    BY <1>1, DirtyMeansWrong
  <2>4. UnshadowedInSync /\ c.pass \in Pass /\ c.file \in File
    BY <2>1, DirtyFields DEF RunInv, AfterOneRun
  <2>5. QED
    BY <2>3, <2>4 DEF UnshadowedInSync
<1>7. Settled'
  <2>1. SUFFICES ASSUME AllInSync PROVE Dirty = {}
    BY <1>1 DEF RunInv, Settled, AllInSync, InSync, Covers
  <2>2. SUFFICES ASSUME NEW c \in Dirty PROVE FALSE
    OBVIOUS
  <2>3. c.pass \in Pass /\ c.file \in File
    BY DirtyFields
  <2>4. QED
    BY <1>1, <2>1, <2>3, DirtyMeansWrong DEF AllInSync
<1>8. verdict' = "applied" => UnshadowedInSync'
  BY <1>1, <1>5 DEF RunInv
<1>9. QED
  BY <1>2, <1>4, <1>6, <1>7, <1>8 DEF RunInv

\* One write.
LEMMA ApplyOneOK ==
    ASSUME NoChains, RunInv, TypeOK', NEW c \in todo, ApplyOne(c)
    PROVE  RunInv'
<1>1. /\ TypeOK /\ TodoOK
      /\ UNCHANGED <<platform, pc, verdict, streak>> /\ pc = "applying"
      /\ todo' = todo \ {c}
  BY DEF RunInv, ApplyOne
<1>2. TodoOK'
  BY <1>1, WriteKeepsTodoOK
<1>3. UnshadowedInSync => UnshadowedInSync'
  BY <1>1, WriteKeepsUnshadowed DEF UnshadowedInSync, Covers, Shadowed
<1>4. UnshadowedPending'
  <2>1. SUFFICES ASSUME NEW p \in Pass, NEW f \in File, NEW s \in Slot,
                        Covers(p, f, s), ~Shadowed(f, s)
                 PROVE  InSync(f, s)' \/ Pending(f, s)'
    BY DEF UnshadowedPending, Covers, Shadowed
  <2>2. InSync(f, s) \/ Pending(f, s)
    BY <1>1, <2>1 DEF RunInv, UnshadowedPending
  <2>3. QED
    BY <1>1, <2>1, <2>2, WriteKeepsUnshadowed, WriteKeepsPending
<1>5. AfterOneRun'
  <2>1. SUFFICES ASSUME streak >= 1,
                        NEW p \in Pass, NEW f \in File, NEW s \in Slot, Covers(p, f, s)
                 PROVE  InSync(f, s)' \/ Pending(f, s)'
    BY <1>1, <1>3 DEF RunInv, AfterOneRun, Covers, Shadowed
  <2>2. AfterOneRun /\ (InSync(f, s) \/ Pending(f, s))
    BY <1>1, <2>1 DEF RunInv, AfterOneRun
  <2>3. QED
    BY <1>1, <2>1, <2>2, SecondRunKeeps, WriteKeepsPending
<1>6. Settled'
  BY <1>1 DEF RunInv, Settled
<1>7. QED
  BY <1>1, <1>2, <1>3, <1>4, <1>5, <1>6 DEF RunInv

\* The end of a run: nothing is pending, so what had to be right is.
LEMMA FinishApplyOK ==
    ASSUME RunInv, TypeOK', FinishApply
    PROVE  RunInv'
<1>1. /\ TypeOK /\ todo = {} /\ pc = "applying" /\ verdict' = "applied" /\ pc' = "idle"
      /\ UNCHANGED <<platform, disk, todo>>
      /\ streak' = IF streak = 2 THEN 2 ELSE streak + 1
  BY DEF RunInv, FinishApply, AllWritten
<1>2. \A f, s : ~Pending(f, s)
  BY <1>1 DEF Pending
<1>3. UnshadowedInSync
  BY <1>1, <1>2 DEF RunInv, UnshadowedPending, UnshadowedInSync
<1>4. UnshadowedInSync'
  BY <1>1, <1>3 DEF UnshadowedInSync, InSync, Covers, Shadowed
<1>5. streak' = 2 => AllInSync
  <2>1. SUFFICES ASSUME streak' = 2 PROVE AllInSync
    OBVIOUS
  <2>2. streak >= 1
    BY <1>1, <2>1 DEF TypeOK
  <2>3. QED
    BY <1>1, <1>2, <2>2 DEF RunInv, AfterOneRun, AllInSync
<1>6. Settled'
  BY <1>1, <1>5 DEF Settled, AllInSync, InSync, Covers
<1>7. TodoOK' /\ UnshadowedPending' /\ AfterOneRun'
  BY <1>1, <1>4 DEF TodoOK, UnshadowedPending, AfterOneRun
<1>8. QED
  BY <1>4, <1>6, <1>7 DEF RunInv

\* The inductive invariant of the script.
THEOREM RunInvariant ==
    ASSUME AllAnchored, NoChains
    PROVE  Spec => []RunInv
<1>1. Init => RunInv
  <2>1. SUFFICES ASSUME Init PROVE RunInv
    OBVIOUS
  <2>2. TypeOK
    BY <2>1, InitialValueAssumption, MaxDisturbancesAssumption DEF Init, TypeOK, Verdict, Gap
  <2>3. QED
    BY <2>1, <2>2 DEF Init, RunInv, TodoOK, UnshadowedPending, AfterOneRun, Settled
<1>2. RunInv /\ TypeOK' /\ [Next]_vars => RunInv'
  <2> SUFFICES ASSUME RunInv, TypeOK', [Next]_vars
               PROVE  RunInv'
    OBVIOUS
  <2>1. CASE Refuse
    BY <2>1, UntouchedOK DEF Refuse
  <2>2. CASE Check
    <3>1. CASE Dirty = {}
      <4>1. AllInSync /\ todo = {} /\ TypeOK
        BY <2>2, <3>1, WrongMeansDirty DEF RunInv, AllInSync, Check, TypeOK
      <4>2. Settled'
        BY <2>2, <4>1 DEF Check, Settled, AllInSync, InSync, Covers
      <4>3. QED
        BY <2>2, <3>1, <4>2 DEF Check, RunInv, TodoOK, UnshadowedPending, AfterOneRun,
           UnshadowedInSync, InSync, Pending, Ahead, Covers, Shadowed
    <3>2. CASE Dirty # {}
      BY <2>2, <3>2, UntouchedOK DEF Check
    <3>3. QED
      BY <3>1, <3>2
  <2>3. CASE StartApply
    BY <2>3, StartApplyOK
  <2>4. ASSUME NEW c \in todo, ApplyOne(c) PROVE RunInv'
    BY <2>4, ApplyOneOK
  <2>5. CASE FinishApply
    BY <2>5, FinishApplyOK
  <2>6. CASE EditPlatform
    BY <2>6, DisturbedOK DEF EditPlatform, RunInv, TypeOK
  <2>7. CASE CloseGaps
    BY <2>7, UntouchedOK DEF CloseGaps
  <2>8. ASSUME NEW f \in File, NEW s \in Slot, NEW v \in Value, HandEdit(f, s, v)
        PROVE  RunInv'
    BY <2>8, DisturbedOK DEF HandEdit, RunInv, TypeOK
  <2>9. CASE Interrupt
    BY <2>9, DisturbedOK DEF Interrupt
  <2>10. CASE UNCHANGED vars
    BY <2>10, UntouchedOK DEF vars
  <2>11. QED
    BY <2>1, <2>2, <2>3, <2>4, <2>5, <2>6, <2>7, <2>8, <2>9, <2>10 DEF Next
<1>3. QED
  BY <1>1, <1>2, TypeCorrect, PTL DEF Spec

\* A completed run leaves every unshadowed slot with platform.yaml's value.
THEOREM AppliedSafety ==
    ASSUME AllAnchored, NoChains
    PROVE  Spec => []AppliedSyncsUnshadowed
<1>1. RunInv => AppliedSyncsUnshadowed
  BY DEF RunInv, AppliedSyncsUnshadowed, UnshadowedInSync
<1>2. QED
  BY <1>1, RunInvariant, PTL

\* Two completed runs in a row bring every slot to platform.yaml's value.
THEOREM SecondRunSafety ==
    ASSUME AllAnchored, NoChains
    PROVE  Spec => []SecondRunConverges
<1>1. RunInv => SecondRunConverges
  BY DEF RunInv, SecondRunConverges, Settled
<1>2. QED
  BY <1>1, RunInvariant, PTL

\* The check mode never reports agreement where there is a divergence.
THEOREM CheckSafety ==
    ASSUME AllAnchored, NoChains
    PROVE  Spec => []CleanMeansInSync
<1>1. RunInv => CleanMeansInSync
  BY DEF RunInv, CleanMeansInSync, Settled
<1>2. QED
  BY <1>1, RunInvariant, PTL

\* No step of a run makes an unshadowed slot wrong that was right.
THEOREM RegressSafety ==
    ASSUME AllAnchored, NoChains
    PROVE  Spec => OnlyShadowedRegress
<1>1. RunInv /\ [Next]_vars =>
        [pc = "applying" =>
           \A p \in Pass, f \in File, s \in Slot :
              Covers(p, f, s) /\ ~Shadowed(f, s) /\ InSync(f, s) => InSync(f, s)']_vars
  <2>1. SUFFICES ASSUME RunInv, Next, pc = "applying",
                        NEW p \in Pass, NEW f \in File, NEW s \in Slot,
                        ~Shadowed(f, s), InSync(f, s)
                 PROVE  InSync(f, s)'
    OBVIOUS
  <2>2. TypeOK /\ TodoOK
    BY <2>1 DEF RunInv
  <2>3. CASE \E c \in todo : ApplyOne(c)
    BY <2>1, <2>2, <2>3, WriteKeepsUnshadowed
  <2>4. CASE FinishApply \/ Interrupt
    BY <2>1, <2>4 DEF FinishApply, AllWritten, Interrupt, InSync
  <2>5. QED
    BY <2>1, <2>3, <2>4
       DEF Next, Refuse, Check, StartApply, EditPlatform, CloseGaps, HandEdit
<1>2. QED
  BY <1>1, RunInvariant, PTL DEF OnlyShadowedRegress, Spec
=============================================================================
