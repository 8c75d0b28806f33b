------------------------------ MODULE CmsMedia ------------------------------
(***************************************************************************)
(* Media assets of the CMS: the row of cms_media_assets and the binary in  *)
(* the media directory (internal/platformcms/transport/http/media_*.go).   *)
(*                                                                         *)
(* An upload, a completion and a deletion each take several steps, on the  *)
(* database and on the disk in turn, with nothing that holds them apart.   *)
(* A file is an inode: os.Create truncates the one that the path names, a  *)
(* writer keeps its inode when the path is removed.                        *)
(***************************************************************************)
EXTENDS FiniteSets, Naturals

CONSTANTS
    Asset,
    Request,    \* requests; each runs once
    NoFile,
    MaxFaults   \* bound: failed copies and crashes

ASSUME MediaAssumption == NoFile \notin Request /\ MaxFaults \in Nat

VARIABLES
    state,      \* column state, or "none" before the row
    expired,    \* assets past upload_expires_at
    file,       \* the inode at the asset's path, named by the request that made it
    content,    \* "partial" or "whole" (as long as declared), per inode
    pc, op, target,
    fd,         \* the inode an upload writes
    \* history
    uploaded,   \* assets with an upload answered 200
    suspect,    \* assets with overlapping, failed or crashed requests
    faults

vars == <<state, expired, file, content, pc, op, target, fd, uploaded, suspect, faults>>

\* The state is one of the ENUM column, and the requests keep their types.
TypeOK ==
    /\ state \in [Asset -> {"none", "pending_upload", "ready", "deleted"}]
    /\ expired \in SUBSET Asset
    /\ file \in [Asset -> Request \union {NoFile}]
    /\ content \in [Request -> {"partial", "whole"}]
    /\ pc \in [Request -> {"new", "checked", "writing", "short", "found", "present",
                           "marking", "unlinked", "over"}]
    /\ op \in [Request -> {"upload", "complete", "delete"}]
    /\ target \in [Request -> Asset]
    /\ fd \in [Request -> Request \union {NoFile}]
    /\ uploaded \in SUBSET Asset
    /\ suspect \in SUBSET Asset
    /\ faults \in Nat

Init ==
    /\ state = [a \in Asset |-> "none"]
    /\ expired = {}
    /\ file = [a \in Asset |-> NoFile]
    /\ content = [r \in Request |-> "partial"]
    /\ pc = [r \in Request |-> "new"]
    /\ op \in [Request -> {"upload", "complete", "delete"}]
    /\ target \in [Request -> Asset]
    /\ fd = [r \in Request |-> NoFile]
    /\ uploaded = {}
    /\ suspect = {}
    /\ faults = 0

Goto(r, phase) == pc' = [pc EXCEPT ![r] = phase]

InFlight(o, a) ==
    \E r \in Request : target[r] = a /\ op[r] = o /\ pc[r] \notin {"new", "over"}

Uploading(a)  == InFlight("upload", a)
Completing(a) == InFlight("complete", a)
Deleting(a)   == InFlight("delete", a)

SuspectIf(condition, a) == suspect' = IF condition THEN suspect \union {a} ELSE suspect

-----------------------------------------------------------------------------
CreateIntent(a) ==
    /\ state[a] = "none"
    /\ state' = [state EXCEPT ![a] = "pending_upload"]
    /\ UNCHANGED <<expired, file, content, pc, op, target, fd, uploaded, suspect, faults>>

Expire(a) ==
    /\ state[a] = "pending_upload" /\ a \notin expired
    /\ expired' = expired \union {a}
    /\ UNCHANGED <<state, file, content, pc, op, target, fd, uploaded, suspect, faults>>

-----------------------------------------------------------------------------
(* uploadMediaBinary.                                                      *)

\* A slip to rule out: the signed URL is good for an asset in any state.
CheckSignatureOnly(r) ==
    /\ pc[r] = "new" /\ op[r] = "upload"
    /\ state[target[r]] # "none" /\ target[r] \notin expired
    /\ Goto(r, "checked")
    /\ UNCHANGED <<state, expired, file, content, op, target, fd, uploaded, suspect, faults>>

\* The signed URL, the state and the expiry are checked.
CheckUpload(r) ==
    /\ pc[r] = "new" /\ op[r] = "upload"
    /\ state[target[r]] = "pending_upload" /\ target[r] \notin expired
    /\ Goto(r, "checked")
    /\ UNCHANGED <<state, expired, file, content, op, target, fd, uploaded, suspect, faults>>

\* os.Create: the file at the path is truncated, or a new one made.
OpenFile(r) ==
    /\ pc[r] = "checked"
    /\ LET a == target[r]
           inode == IF file[a] = NoFile THEN r ELSE file[a] IN
          /\ file' = [file EXCEPT ![a] = inode]
          /\ content' = [content EXCEPT ![inode] = "partial"]
          /\ fd' = [fd EXCEPT ![r] = inode]
          /\ SuspectIf(Completing(a) \/ Deleting(a), a)
    /\ Goto(r, "writing")
    /\ UNCHANGED <<state, expired, op, target, uploaded, faults>>

\* io.Copy reaches the declared size: 200.
CopyAll(r) ==
    /\ pc[r] = "writing"
    /\ content' = [content EXCEPT ![fd[r]] = "whole"]
    /\ uploaded' = uploaded \union {target[r]}
    /\ Goto(r, "over")
    /\ UNCHANGED <<state, expired, file, op, target, fd, suspect, faults>>

\* The body ends early, without an error.
CopyShort(r) ==
    /\ pc[r] = "writing"
    /\ Goto(r, "short")
    /\ UNCHANGED <<state, expired, file, content, op, target, fd, uploaded, suspect, faults>>

\* ... and what the path names is removed, by whichever request it was written.
RemoveShort(r) ==
    /\ pc[r] = "short"
    /\ file' = [file EXCEPT ![target[r]] = NoFile]
    /\ Goto(r, "over")
    /\ UNCHANGED <<state, expired, content, op, target, fd, uploaded, suspect, faults>>

\* io.Copy fails, or reads more than was declared: 500, and the file stays.
CopyFails(r) ==
    /\ pc[r] = "writing"
    /\ faults < MaxFaults
    /\ faults' = faults + 1
    /\ suspect' = suspect \union {target[r]}
    /\ Goto(r, "over")
    /\ UNCHANGED <<state, expired, file, content, op, target, fd, uploaded>>

-----------------------------------------------------------------------------
(* completeMediaUpload and deleteMedia.                                    *)

\* deleted_at IS NULL.
Deletable(a) == state[a] \in {"pending_upload", "ready"}

\* GetByCompany finds the asset unless it is deleted.
FindAsset(r) ==
    /\ pc[r] = "new" /\ op[r] \in {"complete", "delete"}
    /\ Deletable(target[r])
    /\ Goto(r, "found")
    /\ UNCHANGED <<state, expired, file, content, op, target, fd, uploaded, suspect, faults>>

\* Exists looks for a file, whatever its size.
CheckBinary(r) ==
    /\ pc[r] = "found" /\ op[r] = "complete"
    /\ Goto(r, IF file[target[r]] = NoFile THEN "over" ELSE "present")
    /\ SuspectIf(Uploading(target[r]), target[r])
    /\ UNCHANGED <<state, expired, file, content, op, target, fd, uploaded, faults>>

\* MarkComplete and MarkDeleted read the asset once more: 404 when it is deleted
\* by now, 409 when a completion finds it ready, 400 when its size differs.
ReadAgain(r) ==
    /\ pc[r] \in {"present", "unlinked"}
    /\ Deletable(target[r])
    /\ op[r] = "complete" => state[target[r]] = "pending_upload"
    /\ Goto(r, "marking")
    /\ UNCHANGED <<state, expired, file, content, op, target, fd, uploaded, suspect, faults>>

RefuseMark(r) ==
    /\ \/ pc[r] = "present"
       \/ pc[r] = "unlinked" /\ ~Deletable(target[r])
    /\ Goto(r, "over")
    /\ UNCHANGED <<state, expired, file, content, op, target, fd, uploaded, suspect, faults>>

\* A slip to rule out: a status that the ENUM column does not have.
MarkCompleted(r) ==
    /\ pc[r] = "marking" /\ op[r] = "complete"
    /\ state' = [state EXCEPT ![target[r]] = "completed"]
    /\ Goto(r, "over")
    /\ UNCHANGED <<expired, file, content, op, target, fd, uploaded, suspect, faults>>

\* A slip to rule out: the UPDATE without "AND deleted_at IS NULL".
MarkAnyReady(r) ==
    /\ pc[r] = "marking" /\ op[r] = "complete"
    /\ LET a == target[r] IN
          /\ state' = [state EXCEPT ![a] = "ready"]
          /\ SuspectIf(Uploading(a) \/ Deleting(a), a)
    /\ Goto(r, "over")
    /\ UNCHANGED <<expired, file, content, op, target, fd, uploaded, faults>>

\* UPDATE ... SET state = 'ready' ... AND deleted_at IS NULL.
MarkReady(r) ==
    /\ pc[r] = "marking" /\ op[r] = "complete"
    /\ LET a == target[r] IN
          /\ state' = [state EXCEPT ![a] = IF @ = "deleted" THEN @ ELSE "ready"]
          /\ SuspectIf(Uploading(a) \/ Deleting(a), a)
    /\ Goto(r, "over")
    /\ UNCHANGED <<expired, file, content, op, target, fd, uploaded, faults>>

\* A slip to rule out: only the row is marked, the binary stays.
KeepBinary(r) ==
    /\ pc[r] = "found" /\ op[r] = "delete"
    /\ Goto(r, "unlinked")
    /\ UNCHANGED <<state, expired, file, content, op, target, fd, uploaded, suspect, faults>>

\* storage.Delete comes before the row.
RemoveBinary(r) ==
    /\ pc[r] = "found" /\ op[r] = "delete"
    /\ file' = [file EXCEPT ![target[r]] = NoFile]
    /\ Goto(r, "unlinked")
    /\ UNCHANGED <<state, expired, content, op, target, fd, uploaded, suspect, faults>>

\* UPDATE ... SET state = 'deleted', deleted_at ... AND deleted_at IS NULL.
MarkDeleted(r) ==
    /\ pc[r] = "marking" /\ op[r] = "delete"
    /\ state' = [state EXCEPT ![target[r]] = "deleted"]
    /\ SuspectIf(Uploading(target[r]), target[r])
    /\ Goto(r, "over")
    /\ UNCHANGED <<expired, file, content, op, target, fd, uploaded, faults>>

\* The process dies, or a statement fails, between two steps of a request.
Crash(r) ==
    /\ pc[r] \notin {"new", "over"}
    /\ faults < MaxFaults
    /\ faults' = faults + 1
    /\ suspect' = suspect \union {target[r]}
    /\ Goto(r, "over")
    /\ UNCHANGED <<state, expired, file, content, op, target, fd, uploaded>>

-----------------------------------------------------------------------------
Serve(r) ==
    \/ CheckUpload(r)
    \/ OpenFile(r)
    \/ CopyAll(r)
    \/ CopyShort(r)
    \/ RemoveShort(r)
    \/ CopyFails(r)
    \/ FindAsset(r)
    \/ CheckBinary(r)
    \/ ReadAgain(r)
    \/ RefuseMark(r)
    \/ MarkReady(r)
    \/ RemoveBinary(r)
    \/ MarkDeleted(r)
    \/ Crash(r)

Next ==
    \/ \E r \in Request : Serve(r)
    \/ \E a \in Asset : CreateIntent(a) \/ Expire(a)

Spec == Init /\ [][Next]_vars

-----------------------------------------------------------------------------
(* Properties.                                                             *)

\* A deletion is final: a completion under way does not bring the asset back.
DeletedForGood ==
    [][\A a \in Asset : state[a] = "deleted" => state'[a] = "deleted"]_vars

\* An asset whose requests did not overlap and did not fail is ready only while
\* its binary is on the disk, of the declared size.
ReadyHasBinary ==
    \A a \in Asset : state[a] = "ready" /\ ~Deleting(a) /\ a \notin suspect =>
        file[a] # NoFile /\ content[file[a]] = "whole"

\* The binary of a deleted asset is gone, unless an upload overlapped the
\* deletion or a request failed.
DeletedHasNoBinary ==
    \A a \in Asset : state[a] = "deleted" /\ a \notin suspect => file[a] = NoFile

\* "media binary not uploaded yet": while no upload is under way, a completion finds
\* the binary present only after an upload of it was answered 200.
PresentWasUploaded ==
    [][\A r \in Request :
          pc[r] = "found" /\ pc'[r] = "present" /\ ~Uploading(target[r]) =>
              target[r] \in uploaded]_vars
=============================================================================
