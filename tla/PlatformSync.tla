---------------------------- MODULE PlatformSync ----------------------------
(***************************************************************************)
(* scripts/sync_platform.py: platform.yaml is the single source of image   *)
(* tags, ports, the public base domain and the Keycloak realm; the script  *)
(* patches or regenerates every consumer file from it.                     *)
(*                                                                         *)
(* A run loads platform.yaml, stops on a coverage problem, computes the    *)
(* whole desired text of every target file from the files as they are on   *)
(* disk, keeps the changes that differ from the disk, and then writes them *)
(* one after the other.  Several computations ("passes") may target the    *)
(* same file, each with its own desired text.                              *)
(*                                                                         *)
(* A file's text is abstracted to four slots: its image tags, its ports,   *)
(* the base domain of its host names, and the realm of its issuer URLs.    *)
(***************************************************************************)
EXTENDS Naturals, FiniteSets

CONSTANTS
    File,          \* the consumer files
    Value,         \* values a slot may hold
    Anchored,      \* base domains sub_domain() recognises in a text: two labels or more
    Targets,       \* [Pass -> SUBSET File]: the files each pass computes a change for
    Caddy,         \* infra/k8s/manifests/caddy.yaml
    InitialValue,  \* what platform.yaml and every file agree on at the start
    MaxDisturbances \* bound: edits, hand edits and interrupted runs

Slot == {"tag", "port", "base", "realm"}

\* The order in which main() concatenates the lists of changes, hence the
\* order in which the dirty ones are written.
Rank == [compose |-> 1, dockerfile |-> 2, helm |-> 3, k3d |-> 4, env |-> 5,
         test_defaults |-> 6, domain |-> 7, onboarding |-> 8, dev_caddy |-> 9,
         portal |-> 10]

Pass == {"compose", "dockerfile", "helm", "k3d", "env", "test_defaults",
         "domain", "onboarding", "dev_caddy", "portal"}

\* The slots a pass sets in the texts it computes.
Writes == [compose |-> {"tag"}, dockerfile |-> {"tag"}, helm |-> {"tag"},
           k3d |-> {"port"}, env |-> {"port"}, test_defaults |-> {"port", "base"},
           domain |-> {"base", "realm"}, onboarding |-> {"base"},
           dev_caddy |-> {"base"}, portal |-> {"base", "realm"}]

\* What makes the script give up: the two coverage checks of main(), and the
\* markers a pass looks for around the generated block of its file.
Gap == {"domain coverage", "oidc coverage", "block markers"}
Verdict == {"none", "refused", "clean", "drift", "applied", "interrupted"}
Change == [pass : Pass, file : File, desired : [Slot -> Value]]

ASSUME TargetsAssumption == Targets \in [Pass -> SUBSET File]
ASSUME CaddyAssumption == Caddy \in File
ASSUME InitialValueAssumption == InitialValue \in Value
ASSUME MaxDisturbancesAssumption == MaxDisturbances \in Nat

VARIABLES
    platform,      \* the values platform.yaml holds
    gaps,          \* what the hand-authored files lack for a run to go on
    disk,          \* the consumer files
    pc,            \* "idle", or "applying" while a run writes its changes
    todo,          \* the dirty changes the run has still to write
    verdict,       \* how the last invocation ended, since the last edit
    streak,        \* completed runs in a row with nothing edited, at most 2
    disturbances

vars == <<platform, gaps, disk, pc, todo, verdict, streak, disturbances>>

Init ==
    /\ platform = [s \in Slot |-> InitialValue]
    /\ gaps = {}
    /\ disk = [f \in File |-> [s \in Slot |-> InitialValue]]
    /\ pc = "idle"
    /\ todo = {}
    /\ verdict = "none"
    /\ streak = 0
    /\ disturbances = 0
-----------------------------------------------------------------------------
(* Computing the changes *)

\* Faulty variant: anchored on the base domain first written in the files.
SubDomainOldBase(base) == IF base = InitialValue THEN platform["base"] ELSE base

\* sub_domain() replaces "<label>.<name>.<tld>"; a host name on a base domain
\* of a single label does not match, and its text is left as it is.
SubDomain(base) == IF base \in Anchored THEN platform["base"] ELSE base

\* Faulty variant: the production Caddyfile as it is on disk.
UnpatchedProductionBase == disk[Caddy]["base"]

\* The dev Caddyfile is derived from the production one after the latter's own
\* domain substitution, made again in memory.
ProductionBase == SubDomain(disk[Caddy]["base"])

\* The texts the passes compute.  Patching passes keep what they do not match;
\* a generated file has no other slot than those its pass sets.
WithTags(text) == [text EXCEPT !["tag"] = platform["tag"]]

WithPorts(text) == [text EXCEPT !["port"] = platform["port"]]

WithTestDefaults(text) ==
    [text EXCEPT !["port"] = platform["port"], !["base"] = platform["base"]]

WithDomain(text) ==
    [text EXCEPT !["base"] = SubDomain(@), !["realm"] = platform["realm"]]

OnboardingPage(text) == [text EXCEPT !["base"] = platform["base"]]

DevCaddyfile(text) == [text EXCEPT !["base"] = ProductionBase]

WithPortal(text) ==
    [text EXCEPT !["base"] = platform["base"], !["realm"] = platform["realm"]]

\* The text pass p wants file f to have, from what is on disk now.
Desired(p, f) ==
    CASE p \in {"compose", "dockerfile", "helm"} -> WithTags(disk[f])
      [] p \in {"k3d", "env"}                     -> WithPorts(disk[f])
      [] p = "test_defaults"                      -> WithTestDefaults(disk[f])
      [] p = "domain"                             -> WithDomain(disk[f])
      [] p = "onboarding"                         -> OnboardingPage(disk[f])
      [] p = "dev_caddy"                          -> DevCaddyfile(disk[f])
      [] p = "portal"                             -> WithPortal(disk[f])

\* Faulty variant: one change for each file, the last one computed.
IsDirtyLastOnly(p, f) ==
    /\ Desired(p, f) # disk[f]
    /\ \A q \in Pass : f \in Targets[q] => Rank[q] <= Rank[p]

IsDirty(p, f) == Desired(p, f) # disk[f]

\* Every change is computed, and compared with the disk, before any is written.
Dirty ==
    {[pass |-> c.pass, file |-> c.file, desired |-> Desired(c.pass, c.file)] :
        c \in {d \in [pass : Pass, file : File] :
                  d.file \in Targets[d.pass] /\ IsDirty(d.pass, d.file)}}
-----------------------------------------------------------------------------
(* The script *)

\* A coverage problem ends both modes before anything is computed, and a file
\* without its block markers while the changes are: nothing is written.
Refuse ==
    /\ pc = "idle"
    /\ gaps # {}
    /\ verdict' = "refused"
    /\ UNCHANGED <<platform, gaps, disk, pc, todo, streak, disturbances>>

\* `--check`: report, write nothing.
Check ==
    /\ pc = "idle"
    /\ gaps = {}
    /\ verdict' = IF Dirty = {} THEN "clean" ELSE "drift"
    /\ UNCHANGED <<platform, gaps, disk, pc, todo, streak, disturbances>>

StartApply ==
    /\ pc = "idle"
    /\ gaps = {}
    /\ pc' = "applying"
    /\ todo' = Dirty
    /\ UNCHANGED <<platform, gaps, disk, verdict, streak, disturbances>>

\* Faulty variant: the changes are written in no particular order.
AnyInList(c) == c \in todo

\* The changes are written in the order of their passes; two changes of one
\* pass are for different files and come in either order.
FirstInList(c) == c \in todo /\ \A d \in todo : Rank[c.pass] <= Rank[d.pass]

ApplyOne(c) ==
    /\ pc = "applying"
    /\ FirstInList(c)
    /\ disk' = [disk EXCEPT ![c.file] = c.desired]
    /\ todo' = todo \ {c}
    /\ UNCHANGED <<platform, gaps, pc, verdict, streak, disturbances>>

\* Faulty variant: the last change of the list is left out.
AllButLastWritten == Cardinality(todo) <= 1

AllWritten == todo = {}

FinishApply ==
    /\ pc = "applying"
    /\ AllWritten
    /\ pc' = "idle"
    /\ verdict' = "applied"
    /\ streak' = IF streak = 2 THEN 2 ELSE streak + 1
    /\ UNCHANGED <<platform, gaps, disk, todo, disturbances>>
-----------------------------------------------------------------------------
(* Its environment: people edit platform.yaml and the consumer files between *)
(* two runs, and stop a run half-way                                         *)

EditPlatform ==
    /\ pc = "idle"
    /\ disturbances < MaxDisturbances
    /\ platform' \in [Slot -> Value]
    /\ \E g \in SUBSET (Gap \ {"block markers"}) : gaps' = gaps \cup g
    /\ verdict' = "none"
    /\ streak' = 0
    /\ disturbances' = disturbances + 1
    /\ UNCHANGED <<disk, pc, todo>>

\* The Caddyfile site block, the application's client and secret, or the block
\* markers are added.
CloseGaps ==
    /\ pc = "idle"
    /\ gaps # {}
    /\ gaps' = {}
    /\ UNCHANGED <<platform, disk, pc, todo, verdict, streak, disturbances>>

\* A consumer file is edited by hand instead of platform.yaml; the one whose
\* ports are a generated block may lose its markers.
HandEdit(f, s, v) ==
    /\ pc = "idle"
    /\ disturbances < MaxDisturbances
    /\ disk' = [disk EXCEPT ![f][s] = v]
    /\ \/ UNCHANGED gaps
       \/ f \in Targets["env"] /\ gaps' = gaps \cup {"block markers"}
    /\ verdict' = "none"
    /\ streak' = 0
    /\ disturbances' = disturbances + 1
    /\ UNCHANGED <<platform, pc, todo>>

Interrupt ==
    /\ pc = "applying"
    /\ disturbances < MaxDisturbances
    /\ pc' = "idle"
    /\ todo' = {}
    /\ verdict' = "interrupted"
    /\ streak' = 0
    /\ disturbances' = disturbances + 1
    /\ UNCHANGED <<platform, gaps, disk>>

Next ==
    \/ Refuse
    \/ Check
    \/ StartApply
    \/ \E c \in todo : ApplyOne(c)
    \/ FinishApply
    \/ EditPlatform
    \/ CloseGaps
    \/ \E f \in File, s \in Slot, v \in Value : HandEdit(f, s, v)
    \/ Interrupt

Spec == Init /\ [][Next]_vars

\* CI fails while a file diverges, so the gaps are closed and the script is
\* run again until it passes; a run that is not interrupted goes on.
FairSpec ==
    /\ Spec
    /\ WF_vars(CloseGaps)
    /\ WF_vars(StartApply)
    /\ WF_vars(\E c \in todo : ApplyOne(c))
    /\ WF_vars(FinishApply)
-----------------------------------------------------------------------------
(* Properties *)

\* Every variable holds a value of its type; todo is empty outside a run.
TypeOK ==
    /\ platform \in [Slot -> Value]
    /\ gaps \subseteq Gap
    /\ disk \in [File -> [Slot -> Value]]
    /\ pc \in {"idle", "applying"}
    /\ todo \subseteq Change
    /\ pc = "idle" => todo = {}
    /\ verdict \in Verdict
    /\ streak \in 0..2
    /\ disturbances \in 0..MaxDisturbances

\* Pass p is responsible for slot s of file f.
Covers(p, f, s) == f \in Targets[p] /\ s \in Writes[p]

\* A later pass targets the same file without setting the slot: it writes back
\* the value the slot had before the run.
Shadowed(f, s) ==
    \E p, q \in Pass :
        /\ Covers(p, f, s)
        /\ f \in Targets[q]
        /\ s \notin Writes[q]
        /\ Rank[p] < Rank[q]

InSync(f, s) == disk[f][s] = platform[s]

\* sub_domain() recognises every base domain in use.
AllAnchored == Value \subseteq Anchored

\* A pass that writes an earlier pass's slot back has none of its own slots
\* written back: true of the repository, where only helm's tags are shadowed.
NoChains ==
    \A p, q \in Pass, f \in File, s, t \in Slot :
        /\ Covers(p, f, s) /\ f \in Targets[q]
        /\ s \notin Writes[q] /\ Rank[p] < Rank[q]
        /\ t \in Writes[q]
        => ~Shadowed(f, t)

AllInSync ==
    \A p \in Pass, f \in File, s \in Slot : Covers(p, f, s) => InSync(f, s)

\* One completed run brings every slot to platform.yaml's value, except the
\* slots a later pass over the same file writes back: main()'s passes may
\* share a file without losing anything else.
AppliedSyncsUnshadowed ==
    verdict = "applied" =>
        \A p \in Pass, f \in File, s \in Slot :
            Covers(p, f, s) /\ ~Shadowed(f, s) => InSync(f, s)

\* What one run loses, the next one repairs: after two completed runs with no
\* edit in between, every consumer file agrees with platform.yaml.
SecondRunConverges == streak = 2 => AllInSync

\* `--check` says "no file diverges" only when none does, whatever edits,
\* partial runs and hand edits came before.
CleanMeansInSync == verdict = "clean" => AllInSync

\* While a run writes, a slot that agrees with platform.yaml is only ever
\* taken back by a later pass that shadows it; no write undoes another
\* slot, even when the run was preceded by an interrupted one.
OnlyShadowedRegress ==
    [][pc = "applying" =>
        \A p \in Pass, f \in File, s \in Slot :
            Covers(p, f, s) /\ ~Shadowed(f, s) /\ InSync(f, s) => InSync(f, s)']_vars

\* Once nobody edits or interrupts any more, repeated runs end with every
\* consumer file in agreement with platform.yaml, for good.
EventuallyInSync == <>[]AllInSync

\* platform.yaml's workflow: edit it, run the script ("applies the changes"),
\* commit; compute_helm_changes() groups its own specs by file "to avoid
\* overwriting one another".  After one completed run nothing diverges.
AppliedMeansInSync == verdict = "applied" => AllInSync
=============================================================================
