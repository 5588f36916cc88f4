------------------------ MODULE FilelinkGokapiProofs ------------------------
(***************************************************************************)
(* Proofs about FilelinkGokapi, for any accounts, attachments, instances   *)
(* and order of what the user, the extension and Gokapi do.                *)
(***************************************************************************)
EXTENDS FilelinkGokapi, TLAPS

\* The shape of the variables: TypeOK without what it says of a single file.
Shape ==
    /\ config \in [Account -> Server \cup {NoServer}]
    /\ recorded \in [Upload -> FileId \cup {NoFile}]
    /\ stage \in [Upload -> {"none", "sending", "reading", "saving", "linked",
                             "failed", "taken back"}]
    /\ sentTo \in [Upload -> Server \cup {NoServer}]
    /\ wire \subseteq Upload
    /\ place \in [Upload -> Server \cup {NoServer}]
    /\ result \in [Upload -> FileId \cup {NoFile}]
    /\ deletion \in [Upload -> {"none", "looking", "asked", "answered", "forgotten",
                                "given up"}]
    /\ target \in [Upload -> (Server \cup {NoServer}) \X (FileId \cup {NoFile})]
    /\ hit \subseteq Upload

\* An identifier leads to the file of u, or u was given none.
Kept(u, f) == f = u \/ (f = Foreign /\ u \in hit)

\* What holds of one upload: which stages have a file, a request under way, an
\* identifier, and what a failure may have left.
FileInv(u) ==
    /\ place[u] \in {NoServer, sentTo[u]}
    /\ deletion[u] # "none" <=> stage[u] = "taken back"
    /\ {recorded[u], result[u]} \subseteq {NoFile, u, Foreign}
    /\ stage[u] = "saving" => Kept(u, result[u])
    /\ stage[u] = "linked" => Kept(u, recorded[u])
    /\ stage[u] \in {"reading", "saving", "linked"} => place[u] # NoServer
    /\ stage[u] \notin {"sending", "failed"} => u \notin wire
    /\ u \in wire => place[u] = NoServer
    /\ stage[u] = "none" => place[u] = NoServer
    /\ stage[u] = "failed" => u \in hit \/ (place[u] = NoServer /\ u \notin wire)
    /\ deletion[u] = "looking" => Kept(u, recorded[u])
    /\ deletion[u] = "asked" => target[u][2] \in {u, Foreign}
    /\ deletion[u] \in {"answered", "forgotten", "given up"} => u \in hit \/ place[u] = NoServer

\* The inductive invariant: a deletion can only reach the file its own record
\* leads to, so that what holds of one upload is not touched by another one.
LinkInv == Shape /\ \A u \in Upload : FileInv(u)

\* A step leaves everything FileInv says of v alone.
Leaves(v) ==
    /\ recorded'[v] = recorded[v]
    /\ stage'[v] = stage[v]
    /\ sentTo'[v] = sentTo[v]
    /\ v \in wire' <=> v \in wire
    /\ place'[v] = place[v]
    /\ result'[v] = result[v]
    /\ deletion'[v] = deletion[v]
    /\ target'[v] = target[v]
    /\ v \in hit' <=> v \in hit

\* An upload that a step leaves alone keeps its part of the invariant.
LEMMA Frame ==
    ASSUME NEW v \in Upload, FileInv(v), Leaves(v) PROVE FileInv(v)'
BY DEF FileInv, Leaves, Kept

\* The invariant contains the types.
LEMMA ShapeOfFiles == LinkInv => TypeOK
BY DEF LinkInv, Shape, TypeOK, FileInv

\* A deletion under way removes no file but its own.
LEMMA OnlyItsFile ==
    ASSUME LinkInv, NEW u \in Upload, deletion[u] = "asked", NEW v \in Upload, u # v
    PROVE  target[u] # <<place[v], v>>
<1>1. target[u][2] \in {u, Foreign}
  BY DEF LinkInv, FileInv
<1>2. v # Foreign
  BY FilelinkAssumption
<1> QED BY <1>1, <1>2

\* So that the places of the other files stay what they are.
LEMMA DeletedPlaces ==
    ASSUME LinkInv, NEW u \in Upload, deletion[u] = "asked"
    PROVE  /\ Deleted(u) \in [Upload -> Server \cup {NoServer}]
           /\ \A v \in Upload \ {u} : Deleted(u)[v] = place[v]
           /\ Deleted(u)[u] \in {NoServer, place[u]}
           /\ (\E v \in Upload : target[u] = <<place[v], v>>) => Deleted(u)[u] = NoServer
<1>1. \A v \in Upload \ {u} : target[u] # <<place[v], v>>
  BY OnlyItsFile
<1> QED BY <1>1 DEF Deleted, LinkInv, Shape

\* The extension starts with the invariant.
LEMMA LinkInit == Init => LinkInv
BY FilelinkAssumption DEF Init, LinkInv, Shape, FileInv, Kept, FileId
-----------------------------------------------------------------------------
(* The steps *)

\* A step of the configuration concerns no file.
LEMMA ConfigStep ==
    ASSUME LinkInv,
           \/ \E a \in Account, s \in Server : SaveConfig(a, s)
           \/ \E a \in Account : RemoveAccount(a)
    PROVE  LinkInv'
<1>1. Shape'
  BY DEF LinkInv, Shape, SaveConfig, RemoveAccount, uploadVars, deleteVars
<1>2. \A v \in Upload : Leaves(v)
  BY DEF Leaves, SaveConfig, RemoveAccount, uploadVars, deleteVars
<1> QED BY <1>1, <1>2, Frame DEF LinkInv

\* A step of one upload keeps the invariant.
LEMMA UploadKeeps ==
    ASSUME LinkInv, NEW u \in Upload, UploadStep(u)
    PROVE  LinkInv'
<1> USE DEF uploadVars, deleteVars, Fails
<1>0. Shape /\ FileInv(u) /\ u[1] \in Account
  BY DEF LinkInv, Upload
<1>1. Shape'
  <2> USE <1>0 DEF Shape
  <2>1. CASE StartUpload(u)
    <3>1. UNCHANGED <<config, recorded, place, result, hit, deletion, target>>
      BY <2>1 DEF StartUpload
    <3>2. CASE Fails(u) /\ UNCHANGED <<sentTo, wire>>
      BY <3>1, <3>2
    <3>3. CASE /\ stage' = [stage EXCEPT ![u] = "sending"]
               /\ sentTo' = [sentTo EXCEPT ![u] = config[u[1]]]
               /\ wire' = wire \cup {u}
      <4>1. sentTo' \in [Upload -> Server \cup {NoServer}]
        BY <3>3
      <4> QED BY <3>1, <3>3, <4>1
    <3> QED BY <2>1, <3>2, <3>3 DEF StartUpload
  <2>2. CASE GokapiStores(u)
    <3>1. place' = [place EXCEPT ![u] = sentTo[u]] /\ wire' = wire \ {u}
      BY <2>2 DEF GokapiStores
    <3>2. place' \in [Upload -> Server \cup {NoServer}] /\ wire' \subseteq Upload
      BY <3>1
    <3> QED BY <2>2, <3>2 DEF GokapiStores
  <2>6. CASE GokapiRefuses(u)
    <3>1. stage' = stage \/ stage' = [stage EXCEPT ![u] = "failed"]
      BY <2>6 DEF GokapiRefuses
    <3> QED BY <2>6, <3>1 DEF GokapiRefuses
  <2>3. CASE Abort(u)
    BY <2>3 DEF Abort
  <2>7. CASE StatusArrives(u)
    BY <2>7 DEF StatusArrives
  <2>8. CASE BodyFails(u)
    BY <2>8 DEF BodyFails
  <2>9. CASE RecordFails(u)
    BY <2>9 DEF RecordFails
  <2>4. ASSUME NEW f \in FileId, BodyArrives(u, f) PROVE Shape'
    BY <2>4 DEF BodyArrives
  <2>5. CASE Record(u)
    BY <2>5 DEF Record, Key
  <2> QED BY <2>1, <2>2, <2>3, <2>4, <2>5, <2>6, <2>7, <2>8, <2>9 DEF UploadStep
<1>2. \A v \in Upload \ {u} : Leaves(v)
  BY <1>0 DEF Shape, Leaves, UploadStep, StartUpload, GokapiStores, GokapiRefuses, Abort,
              StatusArrives, BodyArrives, BodyFails, Record, RecordFails, Key
<1>3. FileInv(u)'
  <2> USE <1>0 DEF Shape, FileInv, Kept
  <2>1. CASE StartUpload(u)
    BY <2>1 DEF StartUpload
  <2>2. CASE GokapiStores(u)
    BY <2>2 DEF GokapiStores
  <2>3. CASE GokapiRefuses(u)
    BY <2>3 DEF GokapiRefuses
  <2>4. CASE Abort(u)
    BY <2>4 DEF Abort, Abortable
  <2>5. CASE StatusArrives(u)
    BY <2>5 DEF StatusArrives
  <2>6. ASSUME NEW f \in FileId, BodyArrives(u, f) PROVE FileInv(u)'
    BY <2>6 DEF BodyArrives
  <2>7. CASE BodyFails(u)
    BY <2>7 DEF BodyFails
  <2>8. CASE Record(u)
    BY <2>8 DEF Record, Key
  <2>9. CASE RecordFails(u)
    BY <2>9 DEF RecordFails
  <2> QED BY <2>1, <2>2, <2>3, <2>4, <2>5, <2>6, <2>7, <2>8, <2>9 DEF UploadStep
<1> QED BY <1>1, <1>2, <1>3, Frame DEF LinkInv

\* A step of one deletion keeps the invariant.
LEMMA DeletionKeeps ==
    ASSUME LinkInv, NEW u \in Upload, DeleteStep(u)
    PROVE  LinkInv'
<1> USE DEF uploadVars, deleteVars
<1>0. Shape /\ FileInv(u) /\ u[1] \in Account
  BY DEF LinkInv, Upload
<1>1. CASE TakeBack(u)
  <2>1. /\ stage[u] = "linked" /\ stage' = [stage EXCEPT ![u] = "taken back"]
        /\ UNCHANGED <<config, recorded, sentTo, wire, place, result>>
    BY <1>1 DEF TakeBack
  <2>2. \/ /\ deletion' = [deletion EXCEPT ![u] = "given up"]
           /\ hit' = hit \cup {u} /\ target' = target
        \/ /\ deletion' = [deletion EXCEPT ![u] = "looking"]
           /\ target' = [target EXCEPT ![u] = <<config[u[1]], NoFile>>] /\ hit' = hit
    BY <1>1 DEF TakeBack
  <2>3. Shape'
    <3>1. <<config[u[1]], NoFile>> \in (Server \cup {NoServer}) \X (FileId \cup {NoFile})
      BY <1>0 DEF Shape
    <3>2. target' \in [Upload -> (Server \cup {NoServer}) \X (FileId \cup {NoFile})]
      BY <1>0, <2>2, <3>1 DEF Shape
    <3>3. hit' \subseteq Upload
      <4>1. hit \subseteq Upload
        BY <1>0 DEF Shape
      <4>2. hit' = hit \/ hit' = hit \cup {u}
        BY <2>2
      <4> QED BY <4>1, <4>2
    <3>4. deletion' \in [Upload -> {"none", "looking", "asked", "answered", "forgotten",
                                   "given up"}]
      <4>1. deletion \in [Upload -> {"none", "looking", "asked", "answered", "forgotten",
                                     "given up"}]
        BY <1>0 DEF Shape
      <4>2. PICK d \in {"looking", "given up"} : deletion' = [deletion EXCEPT ![u] = d]
        BY <2>2
      <4> QED BY <4>1, <4>2
    <3>5. stage' \in [Upload -> {"none", "sending", "reading", "saving", "linked",
                                "failed", "taken back"}]
      BY <1>0, <2>1 DEF Shape
    <3> QED BY <1>0, <2>1, <3>2, <3>3, <3>4, <3>5 DEF Shape
  <2>4. \A v \in Upload \ {u} : Leaves(v)
    BY <1>0, <2>1, <2>2 DEF Shape, Leaves
  <2>5. FileInv(u)'
    <3>1. stage'[u] = "taken back" /\ Kept(u, recorded[u])
      BY <1>0, <2>1 DEF Shape, FileInv
    <3>2. \/ deletion'[u] = "given up" /\ u \in hit'
          \/ deletion'[u] = "looking" /\ hit' = hit
      BY <1>0, <2>2 DEF Shape
    <3>3. stage[u] = "linked" /\ u \notin wire /\ place[u] \in {NoServer, sentTo[u]}
          /\ {recorded[u], result[u]} \subseteq {NoFile, u, Foreign}
      BY <1>0, <2>1 DEF FileInv
    <3>4. /\ recorded'[u] = recorded[u] /\ sentTo'[u] = sentTo[u] /\ wire' = wire
          /\ place'[u] = place[u] /\ result'[u] = result[u]
      BY <2>1
    <3>5. CASE deletion'[u] = "given up" /\ u \in hit'
      BY <3>1, <3>3, <3>4, <3>5 DEF FileInv
    <3>6. CASE deletion'[u] = "looking" /\ hit' = hit
      BY <3>1, <3>3, <3>4, <3>6 DEF FileInv, Kept
    <3> QED BY <3>2, <3>5, <3>6
  <2> QED BY <2>3, <2>4, <2>5, Frame DEF LinkInv
<1>6. CASE LookUp(u)
  <2>1. recorded[u] \in {u, Foreign} /\ recorded[u] # NoFile /\ Kept(u, recorded[u])
    BY <1>0, <1>6, FilelinkAssumption DEF FileInv, Kept, LookUp
  <2>2. /\ deletion[u] = "looking"
        /\ deletion' = [deletion EXCEPT ![u] = "asked"]
        /\ target' = [target EXCEPT ![u] = <<target[u][1], recorded[u]>>]
        /\ UNCHANGED <<config, recorded, place, hit, uploadVars>>
    BY <1>6, <2>1 DEF LookUp, Key
  <2>3. Shape'
    <3>1. <<target[u][1], recorded[u]>> \in (Server \cup {NoServer}) \X (FileId \cup {NoFile})
      BY <1>0 DEF Shape
    <3>2. target' \in [Upload -> (Server \cup {NoServer}) \X (FileId \cup {NoFile})]
      BY <1>0, <2>2, <3>1 DEF Shape
    <3>3. deletion' \in [Upload -> {"none", "looking", "asked", "answered", "forgotten",
                                   "given up"}]
      BY <1>0, <2>2 DEF Shape
    <3> QED BY <1>0, <2>2, <3>2, <3>3 DEF Shape
  <2>4. \A v \in Upload \ {u} : Leaves(v)
    BY <1>0, <2>2 DEF Shape, Leaves
  <2>5. FileInv(u)'
    <3>1. deletion'[u] = "asked" /\ target'[u][2] \in {u, Foreign}
      BY <1>0, <2>1, <2>2 DEF Shape
    <3> QED BY <1>0, <2>2, <3>1 DEF FileInv, Kept
  <2> QED BY <2>3, <2>4, <2>5, Frame DEF LinkInv
<1>7. CASE LookUpFails(u)
  <2>1. Shape'
    BY <1>0, <1>7 DEF Shape, LookUpFails
  <2>2. \A v \in Upload \ {u} : Leaves(v)
    BY <1>0, <1>7 DEF Shape, Leaves, LookUpFails
  <2>3. FileInv(u)'
    BY <1>0, <1>7 DEF Shape, FileInv, Kept, LookUpFails
  <2> QED BY <2>1, <2>2, <2>3, Frame DEF LinkInv
<1>2. CASE GokapiDeletes(u)
  <2>1. /\ place' \in [Upload -> Server \cup {NoServer}]
        /\ \A v \in Upload \ {u} : place'[v] = place[v]
        /\ place'[u] = NoServer
    BY <1>2, DeletedPlaces DEF GokapiDeletes
  <2>2. Shape'
    BY <1>0, <1>2, <2>1 DEF Shape, GokapiDeletes
  <2>3. \A v \in Upload \ {u} : Leaves(v)
    BY <1>0, <1>2, <2>1 DEF Shape, Leaves, GokapiDeletes
  <2>4. FileInv(u)'
    BY <1>0, <1>2, <2>1 DEF Shape, FileInv, Kept, GokapiDeletes
  <2> QED BY <2>2, <2>3, <2>4, Frame DEF LinkInv
<1>3. CASE DeletionRefused(u)
  <2>1. Shape'
    BY <1>0, <1>3 DEF Shape, DeletionRefused
  <2>2. \A v \in Upload \ {u} : Leaves(v)
    BY <1>0, <1>3 DEF Shape, Leaves, DeletionRefused
  <2>3. FileInv(u)'
    BY <1>0, <1>3 DEF Shape, FileInv, Kept, DeletionRefused
  <2> QED BY <2>1, <2>2, <2>3, Frame DEF LinkInv
<1>4. CASE DeletionFails(u)
  <2>1. /\ place' \in [Upload -> Server \cup {NoServer}]
        /\ \A v \in Upload \ {u} : place'[v] = place[v]
        /\ place'[u] \in {NoServer, place[u]}
    <3>1. /\ Deleted(u) \in [Upload -> Server \cup {NoServer}]
          /\ \A v \in Upload \ {u} : Deleted(u)[v] = place[v]
          /\ Deleted(u)[u] \in {NoServer, place[u]}
      BY <1>4, DeletedPlaces DEF DeletionFails
    <3>2. place' = place \/ place' = Deleted(u)
      BY <1>4 DEF DeletionFails
    <3>3. place \in [Upload -> Server \cup {NoServer}]
      BY <1>0 DEF Shape
    <3> QED BY <3>1, <3>2, <3>3
  <2>2. Shape'
    BY <1>0, <1>4, <2>1 DEF Shape, DeletionFails
  <2>3. \A v \in Upload \ {u} : Leaves(v)
    BY <1>0, <1>4, <2>1 DEF Shape, Leaves, DeletionFails
  <2>4. FileInv(u)'
    BY <1>0, <1>4, <2>1 DEF Shape, FileInv, Kept, DeletionFails
  <2> QED BY <2>2, <2>3, <2>4, Frame DEF LinkInv
<1>5. CASE Forget(u)
  <2>1. Shape'
    BY <1>0, <1>5 DEF Shape, Forget, Key
  <2>2. \A v \in Upload \ {u} : Leaves(v)
    BY <1>0, <1>5 DEF Shape, Leaves, Forget, Key
  <2>3. FileInv(u)'
    BY <1>0, <1>5 DEF Shape, FileInv, Kept, Forget, Key
  <2> QED BY <2>1, <2>2, <2>3, Frame DEF LinkInv
<1> QED BY <1>1, <1>2, <1>3, <1>4, <1>5, <1>6, <1>7 DEF DeleteStep

\* The end of Thunderbird keeps it: what it cuts off is in the history.
LEMMA QuitKeeps ==
    ASSUME LinkInv, Quit
    PROVE  LinkInv'
<1>1. Shape'
  BY DEF LinkInv, Shape, Quit, Uploading, Deleting
<1>2. ASSUME NEW v \in Upload PROVE FileInv(v)'
  <2>0. Shape /\ FileInv(v)
    BY DEF LinkInv
  <2>1. UNCHANGED <<recorded, sentTo, wire, place, result, target>>
    BY DEF Quit
  <2>2. CASE v \in Uploading
    BY <2>0, <2>1, <2>2 DEF Quit, Shape, FileInv, Kept, Uploading, Deleting
  <2>3. CASE v \in Deleting /\ v \notin Uploading
    BY <2>0, <2>1, <2>3 DEF Quit, Shape, FileInv, Kept, Uploading, Deleting
  <2>4. CASE v \notin Uploading \cup Deleting
    BY <2>0, <2>1, <2>4, Frame DEF Quit, Shape, Leaves
  <2> QED BY <2>2, <2>3, <2>4
<1> QED BY <1>1, <1>2 DEF LinkInv

\* Every step keeps the invariant.
LEMMA LinkStep == LinkInv /\ [Next]_vars => LinkInv'
<1> SUFFICES ASSUME LinkInv, [Next]_vars PROVE LinkInv'
  OBVIOUS
<1>1. CASE UNCHANGED vars
  <2>1. Shape' /\ \A v \in Upload : Leaves(v)
    BY <1>1 DEF vars, LinkInv, Shape, Leaves
  <2> QED BY <2>1, Frame DEF LinkInv
<1> QED BY <1>1, ConfigStep, UploadKeeps, DeletionKeeps, QuitKeeps DEF Next

\* LinkInv holds in every state of the extension.
LEMMA LinkAlways == Spec => []LinkInv
BY LinkInit, LinkStep, PTL DEF Spec
-----------------------------------------------------------------------------
\* Types, and that a file is only where its upload was sent.
THEOREM FilelinkTypeCorrect == Spec => []TypeOK
BY LinkAlways, ShapeOfFiles, PTL

\* A link that has not been taken back keeps its file, whatever else is
\* deleted, uploaded or reconfigured.
THEOREM LinkSafety == Spec => []LinkKeepsFile
<1>1. LinkInv => LinkKeepsFile
  BY DEF LinkInv, FileInv, LinkKeepsFile
<1> QED BY <1>1, LinkAlways, PTL

\* A link that is handed out can be taken back.
THEOREM RecordSafety == Spec => []LinkIsRecorded
<1>1. LinkInv => LinkIsRecorded
  BY DEF LinkInv, FileInv, Kept, LinkIsRecorded, Key
<1> QED BY <1>1, LinkAlways, PTL

\* A file is left without an owner only by a failure that concerned itself.
THEOREM OrphanSafety == Spec => []LeftBehindByOwnFailure
<1>1. LinkInv => LeftBehindByOwnFailure
  BY DEF LinkInv, Shape, FileInv, LeftBehind, LeftBehindByOwnFailure
<1> QED BY <1>1, LinkAlways, PTL
=============================================================================
