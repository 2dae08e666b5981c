------------------------------- MODULE Uploads -------------------------------
(* One upload session (modules/files/domain/file-service.ts): the row of      *)
(* upload_sessions, the object in the S3 store, and the calls that complete   *)
(* the session, resume it and prune it, none of which holds a lock between    *)
(* the row, the store and the transaction that records the file.              *)
EXTENDS Naturals

CONSTANTS
    Callers,        \* requests to complete the session: two tabs, a retry
    UploadFaults    \* bound on requests that die

ASSUME UploadsAssumption == UploadFaults \in Nat

VARIABLES
    session,        \* the row: open, completed or expired
    expired,        \* expiresAt has passed
    parts,          \* the multipart upload in the store: open, gone, or none at all
    object,         \* the object is in the store
    caller,         \* what each request is about to do
    pruner,         \* the prune: idle, or what it has found and done
    recorded,       \* the versions recorded for this session, by their ids
    uploadFaults

uploadVars == <<session, expired, parts, object, caller, pruner, recorded, uploadFaults>>

CallerPlaces == {"none", "store", "head", "record", "mark", "done", "refused"}

UploadInit ==
    /\ session = "open" /\ expired = FALSE
    /\ parts \in {"open", "none"} /\ object = FALSE
    /\ caller = [c \in Callers |-> "none"] /\ pruner = "idle"
    /\ recorded = {} /\ uploadFaults = 0

CallerGoes(c, from, to) == caller[c] = from /\ caller' = [caller EXCEPT ![c] = to]

\* The browser has put the only part under the signed address.
PutWhole ==
    /\ parts = "none" /\ ~object /\ object' = TRUE
    /\ UNCHANGED <<session, expired, parts, caller, pruner, recorded, uploadFaults>>

\* The session is read and must be open; its expiry is not looked at.
AskComplete(c) ==
    /\ CallerGoes(c, "none", IF session # "open" THEN "refused"
                             ELSE IF parts # "none" THEN "store" ELSE "head")
    /\ UNCHANGED <<session, expired, parts, object, pruner, recorded, uploadFaults>>

\* The parts become the object; an upload that is gone is refused.
JoinParts(c) ==
    /\ CallerGoes(c, "store", IF parts = "open" THEN "head" ELSE "refused")
    /\ object' = (object \/ parts = "open") /\ parts' = "gone"
    /\ UNCHANGED <<session, expired, pruner, recorded, uploadFaults>>

\* Slip: a session is recorded without looking at the store.
FoundUnseen == TRUE
Found == object

HeadObject(c) ==
    /\ CallerGoes(c, "head", IF Found THEN "record" ELSE "refused")
    /\ UNCHANGED <<session, expired, parts, object, pruner, recorded, uploadFaults>>

\* Slip: every call records a version with an id of its own.
FreshId(c) == c
\* The id was planned with the session, and is in the storage key.
VersionId(c) == "planned"

\* The transaction of createFile or appendVersion: a second row with the same
\* id is refused by the primary key.
RecordFile(c) ==
    /\ CallerGoes(c, "record", IF VersionId(c) \in recorded THEN "refused" ELSE "mark")
    /\ recorded' = recorded \cup {VersionId(c)}
    /\ UNCHANGED <<session, expired, parts, object, pruner, uploadFaults>>

MarkCompleted(c) ==
    /\ CallerGoes(c, "mark", "done") /\ session' = "completed"
    /\ UNCHANGED <<expired, parts, object, pruner, recorded, uploadFaults>>

\* A request that failed or died is sent again.
AskAgain(c) ==
    /\ uploadFaults < UploadFaults /\ uploadFaults' = uploadFaults + 1
    /\ caller[c] \notin {"none", "done"} /\ caller' = [caller EXCEPT ![c] = "none"]
    /\ UNCHANGED <<session, expired, parts, object, pruner, recorded>>

Expire ==
    /\ ~expired /\ expired' = TRUE
    /\ UNCHANGED <<session, parts, object, caller, pruner, recorded, uploadFaults>>

\* pruneUploadSessions: finds, aborts (errors are swallowed), writes.
PruneFind ==
    /\ pruner = "idle" /\ session = "open" /\ expired /\ pruner' = "found"
    /\ UNCHANGED <<session, expired, parts, object, caller, recorded, uploadFaults>>

\* The parts are given up; a joined object stays where it is.
PruneAbort ==
    /\ pruner = "found" /\ pruner' = "aborted"
    /\ parts' \in {parts, IF parts = "none" THEN parts ELSE "gone"} /\ UNCHANGED object
    /\ UNCHANGED <<session, expired, caller, recorded, uploadFaults>>

PruneMark ==
    /\ pruner = "aborted" /\ pruner' = "idle" /\ session' = "expired"
    /\ UNCHANGED <<expired, parts, object, caller, recorded, uploadFaults>>

UploadNext ==
    \/ PutWhole \/ Expire \/ PruneFind \/ PruneAbort \/ PruneMark
    \/ \E c \in Callers : \/ AskComplete(c) \/ JoinParts(c) \/ HeadObject(c)
                          \/ RecordFile(c) \/ MarkCompleted(c) \/ AskAgain(c)
UploadSpec == UploadInit /\ [][UploadNext]_uploadVars

-----------------------------------------------------------------------------
UploadTypeOK ==
    /\ session \in {"open", "completed", "expired"} /\ expired \in BOOLEAN
    /\ parts \in {"open", "gone", "none"} /\ object \in BOOLEAN
    /\ caller \in [Callers -> CallerPlaces] /\ pruner \in {"idle", "found", "aborted"}
    /\ recorded \subseteq {"planned"} /\ uploadFaults \in 0..UploadFaults

\* One session gives one file (or one version), with its object in the store,
\* however many requests complete it at once, die on the way or are sent again,
\* and whenever the prune comes between.
OneFileWithItsObject ==
    /\ recorded # {} => object
    /\ \A v, w \in recorded : v = w
    /\ session = "completed" => recorded # {}

\* What makes it inductive: how far a request has come.
RequestsInv ==
    \A c \in Callers : /\ caller[c] = "record" => object
                       /\ caller[c] \in {"mark", "done"} => recorded # {}
UploadInv == UploadTypeOK /\ RequestsInv /\ OneFileWithItsObject
=============================================================================
