--------------------------- MODULE FilelinkGokapi ---------------------------
(***************************************************************************)
(* connectors/thunderbird-filelink-gokapi: Thunderbird hands an attachment *)
(* to the extension, which uploads it to the Gokapi instance its account   *)
(* is configured for, records Gokapi's identifier under the attachment's   *)
(* key, and returns the link.  When the user takes the attachment back,    *)
(* the identifier is looked up and the file deleted.  Every handler is     *)
(* suspended at its calls to the storage and to Gokapi, where the other    *)
(* handlers, the configuration page and the end of Thunderbird come in.    *)
(***************************************************************************)
EXTENDS Naturals

CONSTANTS
    Account,       \* Filelink accounts of this provider
    Id,            \* Thunderbird's attachment ids, counted for each account
    Server,        \* Gokapi instances
    NoServer,      \* an account without configuration, a file nowhere
    NoFile,        \* a key without a recorded identifier
    Foreign        \* an identifier Gokapi never gave out

Upload == Account \X Id

ASSUME FilelinkAssumption ==
    /\ NoServer \notin Server
    /\ NoFile \notin Upload /\ Foreign \notin Upload /\ NoFile # Foreign

VARIABLES
    config,        \* account-<id> in storage.local
    recorded,      \* upload-<account>-<id> in storage.local, by key
    stage,         \* where an upload is
    sentTo,        \* the instance an upload was sent to
    wire,          \* upload requests Gokapi has not processed yet
    place,         \* the instance that stores an upload's file
    result,        \* the identifier read in the response
    deletion,      \* where the deletion of an upload is
    target,        \* the instance and the identifier of the DELETE request
    hit            \* history: uploads a failure, an abort or a shutdown concerned

vars == <<config, recorded, stage, sentTo, wire, place, result, deletion, target, hit>>

uploadVars == <<stage, sentTo, wire, result>>
deleteVars == <<deletion, target>>

FileId == Upload \cup {Foreign}

Init ==
    /\ config = [a \in Account |-> NoServer]
    /\ recorded = [u \in Upload |-> NoFile]
    /\ stage = [u \in Upload |-> "none"]
    /\ sentTo = [u \in Upload |-> NoServer]
    /\ wire = {}
    /\ place = [u \in Upload |-> NoServer]
    /\ result = [u \in Upload |-> NoFile]
    /\ deletion = [u \in Upload |-> "none"]
    /\ target = [u \in Upload |-> <<NoServer, NoFile>>]
    /\ hit = {}

\* Faulty variant: the key leaves the account out.
KeyWithoutAccount(u) == <<CHOOSE a \in Account : TRUE, u[2]>>

\* upload-<account>-<id>: ids are only unique within their account.
Key(u) == u
-----------------------------------------------------------------------------
(* The configuration *)

\* management.js: save() overwrites the account's instance and API key.
SaveConfig(a, s) ==
    /\ config' = [config EXCEPT ![a] = s]
    /\ UNCHANGED <<recorded, place, hit, uploadVars, deleteVars>>

\* onAccountDeleted: only the configuration is removed.
RemoveAccount(a) ==
    /\ config[a] # NoServer
    /\ config' = [config EXCEPT ![a] = NoServer]
    /\ UNCHANGED <<recorded, place, hit, uploadVars, deleteVars>>
-----------------------------------------------------------------------------
(* onFileUpload *)

Fails(u) == stage' = [stage EXCEPT ![u] = "failed"]

\* The configuration is missing or cannot be read, or the request is sent.
StartUpload(u) ==
    /\ stage[u] = "none"
    /\ \/ Fails(u) /\ UNCHANGED <<sentTo, wire>>
       \/ /\ config[u[1]] # NoServer
          /\ stage' = [stage EXCEPT ![u] = "sending"]
          /\ sentTo' = [sentTo EXCEPT ![u] = config[u[1]]]
          /\ wire' = wire \cup {u}
    /\ UNCHANGED <<config, recorded, place, result, hit, deleteVars>>

\* Gokapi stores the file, even when nobody waits for its response any more.
GokapiStores(u) ==
    /\ u \in wire
    /\ wire' = wire \ {u}
    /\ place' = [place EXCEPT ![u] = sentTo[u]]
    /\ UNCHANGED <<config, recorded, stage, sentTo, result, hit, deleteVars>>

\* An error status, which the handler turns into an error.
GokapiRefuses(u) ==
    /\ u \in wire
    /\ wire' = wire \ {u}
    /\ IF stage[u] = "sending" THEN Fails(u) ELSE UNCHANGED stage
    /\ UNCHANGED <<config, recorded, sentTo, place, result, hit, deleteVars>>

\* Faulty variant: the timer is not cleared when the upload has ended.
AbortableLater(u) == stage[u] \notin {"none", "failed"}

\* The AbortController covers the request until its status arrives.
Abortable(u) == stage[u] = "sending"

\* Sixty seconds have passed, or the connection breaks; Gokapi may still
\* process what it received.
Abort(u) ==
    /\ Abortable(u)
    /\ Fails(u)
    /\ hit' = hit \cup {u}
    /\ UNCHANGED <<config, recorded, sentTo, wire, place, result, deleteVars>>

\* A success status: clearTimeout(), then the body is awaited.
StatusArrives(u) ==
    /\ stage[u] = "sending"
    /\ place[u] # NoServer
    /\ stage' = [stage EXCEPT ![u] = "reading"]
    /\ UNCHANGED <<config, recorded, sentTo, wire, place, result, hit, deleteVars>>

\* The body holds a link; without an identifier beside it, the attachment's
\* own id is taken for one.
BodyArrives(u, f) ==
    /\ stage[u] = "reading"
    /\ f \in {u, Foreign}
    /\ stage' = [stage EXCEPT ![u] = "saving"]
    /\ result' = [result EXCEPT ![u] = f]
    /\ hit' = IF f = u THEN hit ELSE hit \cup {u}
    /\ UNCHANGED <<config, recorded, sentTo, wire, place, deleteVars>>

\* The body breaks off, does not parse, or holds no link.
BodyFails(u) ==
    /\ stage[u] = "reading"
    /\ Fails(u)
    /\ hit' = hit \cup {u}
    /\ UNCHANGED <<config, recorded, sentTo, wire, place, result, deleteVars>>

\* Faulty variant: the link is returned without waiting for the storage.
RecordNotAwaited(u) ==
    /\ stage[u] = "saving"
    /\ stage' = [stage EXCEPT ![u] = "linked"]
    /\ UNCHANGED <<config, recorded, sentTo, wire, place, result, hit, deleteVars>>

\* storage.local.set(), then the link is returned to Thunderbird.
Record(u) ==
    /\ stage[u] = "saving"
    /\ recorded' = [recorded EXCEPT ![Key(u)] = result[u]]
    /\ stage' = [stage EXCEPT ![u] = "linked"]
    /\ UNCHANGED <<config, sentTo, wire, place, result, hit, deleteVars>>

RecordFails(u) ==
    /\ stage[u] = "saving"
    /\ Fails(u)
    /\ hit' = hit \cup {u}
    /\ UNCHANGED <<config, recorded, sentTo, wire, place, result, deleteVars>>
-----------------------------------------------------------------------------
(* onFileDeleted *)

\* The configuration is read again; it may be gone, or the storage may fail.
TakeBack(u) ==
    /\ stage[u] = "linked"
    /\ stage' = [stage EXCEPT ![u] = "taken back"]
    /\ \/ /\ deletion' = [deletion EXCEPT ![u] = "given up"]
          /\ hit' = hit \cup {u}
          /\ UNCHANGED target
       \/ /\ config[u[1]] # NoServer
          /\ deletion' = [deletion EXCEPT ![u] = "looking"]
          /\ target' = [target EXCEPT ![u] = <<config[u[1]], NoFile>>]
          /\ UNCHANGED hit
    /\ UNCHANGED <<config, recorded, sentTo, wire, place, result>>

\* Then the identifier, without which nothing is sent.
LookUp(u) ==
    /\ deletion[u] = "looking"
    /\ IF recorded[Key(u)] = NoFile
       THEN deletion' = [deletion EXCEPT ![u] = "given up"] /\ UNCHANGED target
       ELSE /\ deletion' = [deletion EXCEPT ![u] = "asked"]
            /\ target' = [target EXCEPT ![u] = <<target[u][1], recorded[Key(u)]>>]
    /\ UNCHANGED <<config, recorded, place, hit, uploadVars>>

LookUpFails(u) ==
    /\ deletion[u] = "looking"
    /\ deletion' = [deletion EXCEPT ![u] = "given up"]
    /\ hit' = hit \cup {u}
    /\ UNCHANGED <<config, recorded, place, target, uploadVars>>

\* What Gokapi does with a DELETE: it knows the files it stores.
Deleted(u) ==
    [v \in Upload |-> IF target[u] = <<place[v], v>> THEN NoServer ELSE place[v]]

GokapiDeletes(u) ==
    /\ deletion[u] = "asked"
    /\ \E v \in Upload : target[u] = <<place[v], v>>
    /\ place' = Deleted(u)
    /\ deletion' = [deletion EXCEPT ![u] = "answered"]
    /\ UNCHANGED <<config, recorded, target, hit, uploadVars>>

\* An unknown file, a revoked key, an error of the server: fetch() resolves
\* all the same, and the status is not looked at.
DeletionRefused(u) ==
    /\ deletion[u] = "asked"
    /\ deletion' = [deletion EXCEPT ![u] = "answered"]
    /\ hit' = hit \cup {u}
    /\ UNCHANGED <<config, recorded, place, target, uploadVars>>

\* fetch() rejects, whether or not Gokapi deleted the file: only a warning.
DeletionFails(u) ==
    /\ deletion[u] = "asked"
    /\ place' \in {place, Deleted(u)}
    /\ deletion' = [deletion EXCEPT ![u] = "given up"]
    /\ hit' = hit \cup {u}
    /\ UNCHANGED <<config, recorded, target, uploadVars>>

Forget(u) ==
    /\ deletion[u] = "answered"
    /\ recorded' = [recorded EXCEPT ![Key(u)] = NoFile]
    /\ deletion' = [deletion EXCEPT ![u] = "forgotten"]
    /\ UNCHANGED <<config, place, target, hit, uploadVars>>

\* Thunderbird ends: what its handlers were doing is not resumed.
Uploading == {u \in Upload : stage[u] \in {"sending", "reading", "saving"}}
Deleting == {u \in Upload : deletion[u] \in {"looking", "asked", "answered"}}

Quit ==
    /\ Uploading \cup Deleting # {}
    /\ stage' = [u \in Upload |-> IF u \in Uploading THEN "failed" ELSE stage[u]]
    /\ deletion' = [u \in Upload |-> IF u \in Deleting THEN "given up" ELSE deletion[u]]
    /\ hit' = hit \cup Uploading \cup Deleting
    /\ UNCHANGED <<config, recorded, sentTo, wire, place, result, target>>

UploadStep(u) ==
    \/ StartUpload(u)
    \/ GokapiStores(u)
    \/ GokapiRefuses(u)
    \/ Abort(u)
    \/ StatusArrives(u)
    \/ \E f \in FileId : BodyArrives(u, f)
    \/ BodyFails(u)
    \/ Record(u)
    \/ RecordFails(u)

DeleteStep(u) ==
    \/ TakeBack(u)
    \/ LookUp(u)
    \/ LookUpFails(u)
    \/ GokapiDeletes(u)
    \/ DeletionRefused(u)
    \/ DeletionFails(u)
    \/ Forget(u)

Next ==
    \/ \E a \in Account, s \in Server : SaveConfig(a, s)
    \/ \E a \in Account : RemoveAccount(a)
    \/ \E u \in Upload : UploadStep(u)
    \/ \E u \in Upload : DeleteStep(u)
    \/ Quit

Spec == Init /\ [][Next]_vars
-----------------------------------------------------------------------------
(* Properties *)

\* Every variable holds a value of its type; a file is only where its upload
\* was sent, and only a link that was handed out is ever taken back.
TypeOK ==
    /\ config \in [Account -> Server \cup {NoServer}]
    /\ recorded \in [Upload -> FileId \cup {NoFile}]
    /\ stage \in [Upload -> {"none", "sending", "reading", "saving", "linked",
                             "failed", "taken back"}]
    /\ sentTo \in [Upload -> Server \cup {NoServer}]
    /\ wire \subseteq Upload
    /\ place \in [Upload -> Server \cup {NoServer}]
    /\ result \in [Upload -> FileId \cup {NoFile}]
    /\ deletion \in [Upload -> {"none", "looking", "asked", "answered", "forgotten",
                                "given up"}]
    /\ target \in [Upload -> (Server \cup {NoServer}) \X (FileId \cup {NoFile})]
    /\ hit \subseteq Upload
    /\ \A u \in Upload : place[u] \in {NoServer, sentTo[u]}
    /\ \A u \in Upload : deletion[u] # "none" <=> stage[u] = "taken back"

\* A link in a mail works until its own attachment is taken back: whatever is
\* deleted, uploaded again or reconfigured meanwhile, in this account or in
\* another one with the same attachment id, the file stays.
LinkKeepsFile == \A u \in Upload : stage[u] = "linked" => place[u] # NoServer

\* A link is handed out only once its file can be found again: the record is
\* there, and holds Gokapi's identifier unless the response had none.
LinkIsRecorded ==
    \A u \in Upload : stage[u] = "linked" =>
        recorded[Key(u)] = u \/ (recorded[Key(u)] = Foreign /\ u \in hit)

\* The upload or the deletion of this file is over and the file is still there.
LeftBehind(u) ==
    /\ place[u] # NoServer
    /\ \/ stage[u] = "failed"
       \/ deletion[u] \in {"forgotten", "given up"}

\* A file without an owner is left by a failure that concerned itself: an
\* abort, a broken response, a deletion that failed or the end of Thunderbird
\* -- never by what happened to another attachment or account.
LeftBehindByOwnFailure == \A u \in Upload : LeftBehind(u) => u \in hit
=============================================================================
