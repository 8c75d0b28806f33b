--------------------------- MODULE CmsMediaProofs ---------------------------
(***************************************************************************)
(* Theorems about CmsMedia for any assets, requests and faults.            *)
(*                                                                         *)
(* Nothing holds uploads, completions and deletions of an asset apart, so  *)
(* the invariant says for each phase that a request can be in what the     *)
(* others cannot have done meanwhile: of an asset that is not suspect, a   *)
(* partial binary has a writer that will end it, a completion that has     *)
(* seen the binary has it until a deletion, a deletion that has removed it *)
(* finds it removed.                                                       *)
(***************************************************************************)
EXTENDS CmsMedia, TLAPS

\* The phases belong to the operations, and a request in one has found a row; an
\* upload writes an inode of its asset.
PhaseOK ==
    \A r \in Request :
        /\ pc[r] \in {"checked", "writing", "short"} => op[r] = "upload"
        /\ pc[r] = "present" => op[r] = "complete"
        /\ pc[r] = "unlinked" => op[r] = "delete"
        /\ pc[r] \in {"found", "marking"} => op[r] \in {"complete", "delete"}
        /\ pc[r] \notin {"new", "over"} => state[target[r]] # "none"
        /\ pc[r] = "writing" => fd[r] \in Request /\ target[fd[r]] = target[r]

\* An inode is at the path of the asset that it was made for.
FileOK == \A a \in Asset : file[a] # NoFile => target[file[a]] = a

Whole(a) == file[a] # NoFile /\ content[file[a]] = "whole"

\* Request r has the file of a open, or is about to remove it.
AtFile(r, a) ==
    /\ target[r] = a
    /\ (pc[r] = "writing" /\ fd[r] = file[a]) \/ pc[r] = "short"

\* A partial binary is being written, or will be removed.
PartialOK(a) ==
    file[a] # NoFile /\ content[file[a]] = "partial" => \E r \in Request : AtFile(r, a)

\* A deleted asset has no binary and nobody to write one.
DeletedOK(a) == state[a] = "deleted" => file[a] = NoFile /\ ~Uploading(a)

\* What a deletion has removed stays away.
UnlinkedOK(a) ==
    \A r \in Request : target[r] = a /\ op[r] = "delete" /\ pc[r] \in {"unlinked", "marking"} =>
        file[a] = NoFile

\* What a completion has seen is whole, unless it is being deleted or was.
PresentOK(a) ==
    \A r \in Request : target[r] = a /\ op[r] = "complete" /\ pc[r] \in {"present", "marking"} =>
        /\ Whole(a) \/ Deleting(a) \/ state[a] = "deleted"
        /\ \A q \in Request : target[q] = a => pc[q] \notin {"writing", "short"}

\* A ready asset has its binary until it is deleted, and nobody to write another.
ReadyOK(a) == state[a] = "ready" => ~Uploading(a) /\ (Whole(a) \/ Deleting(a))

AssetOK(a) ==
    a \notin suspect =>
        PartialOK(a) /\ DeletedOK(a) /\ UnlinkedOK(a) /\ PresentOK(a) /\ ReadyOK(a)

AssetsOK == \A a \in Asset : AssetOK(a)

IInv ==
    /\ TypeOK
    /\ PhaseOK
    /\ FileOK
    /\ AssetsOK

-----------------------------------------------------------------------------
\* What request r does at another asset does not disturb asset a.
LEMMA Elsewhere ==
    ASSUME IInv, NEW r \in Request, NEW a \in Asset, a # target[r],
           NEW phase, Goto(r, phase), op' = op, target' = target,
           state'[a] = state[a], file'[a] = file[a], a \notin suspect' => a \notin suspect,
           file[a] # NoFile => content'[file[a]] = content[file[a]],
           \A q \in Request \ {r} : fd'[q] = fd[q]
    PROVE  AssetOK(a)'
  <1>1. \A q \in Request : target[q] = a => pc'[q] = pc[q] /\ fd'[q] = fd[q]
    BY DEF Goto, IInv, TypeOK
  <1>2. /\ Uploading(a)' <=> Uploading(a)
        /\ Deleting(a)' <=> Deleting(a)
        /\ Whole(a)' <=> Whole(a)
    BY <1>1 DEF Uploading, Deleting, InFlight, Whole
  <1>3. AssetOK(a)
    BY DEF IInv, AssetsOK
  <1> QED
    BY <1>1, <1>2, <1>3
       DEF AssetOK, PartialOK, DeletedOK, UnlinkedOK, PresentOK, ReadyOK, AtFile

\* A new intent and the end of one have nothing to do with binaries.
LEMMA IntentIInv == ASSUME IInv, NEW a \in Asset, CreateIntent(a) \/ Expire(a) PROVE IInv'
  <1> USE DEF IInv, TypeOK, CreateIntent, Expire
  <1>1. TypeOK'
    OBVIOUS
  <1>2. PhaseOK' /\ FileOK'
    BY DEF PhaseOK, FileOK
  <1>3. ASSUME NEW b \in Asset PROVE AssetOK(b)'
    <2>1. AssetOK(b)
      BY DEF AssetsOK
    <2>2. /\ Uploading(b)' <=> Uploading(b)
          /\ Deleting(b)' <=> Deleting(b)
          /\ Whole(b)' <=> Whole(b)
      BY DEF Uploading, Deleting, InFlight, Whole
    <2>3. state'[b] \in {"ready", "deleted"} <=> state[b] \in {"ready", "deleted"}
      OBVIOUS
    <2>4. state[b] \in {"ready", "deleted"} => state'[b] = state[b]
      OBVIOUS
    <2> QED
      BY <2>1, <2>2, <2>3, <2>4
         DEF AssetOK, PartialOK, DeletedOK, UnlinkedOK, PresentOK, ReadyOK, AtFile
  <1> QED
    BY <1>1, <1>2, <1>3 DEF AssetsOK

\* An upload begins on an asset that is neither ready nor deleted.
LEMMA CheckUploadIInv == ASSUME IInv, NEW r \in Request, CheckUpload(r) PROVE IInv'
  <1> DEFINE a == target[r]
  <1> USE MediaAssumption DEF IInv, TypeOK, CheckUpload, Goto
  <1>1. TypeOK'
    BY DEF PhaseOK
  <1>2. PhaseOK' /\ FileOK'
    BY DEF PhaseOK, FileOK
  <1>3. AssetOK(a)'
    <2>1. a \in Asset /\ AssetOK(a)
      BY DEF AssetsOK
    <2> QED
      BY <2>1 DEF PhaseOK, FileOK, AssetOK, PartialOK, DeletedOK, UnlinkedOK, PresentOK,
         ReadyOK, AtFile, Whole, Uploading, Completing, Deleting, InFlight
  <1>4. ASSUME NEW b \in Asset, b # a PROVE AssetOK(b)'
    BY <1>4, Elsewhere DEF PhaseOK, FileOK
  <1> QED
    BY <1>1, <1>2, <1>3, <1>4 DEF AssetsOK

\* A file is opened under no completion and no deletion, or the asset is suspect.
LEMMA OpenFileIInv == ASSUME IInv, NEW r \in Request, OpenFile(r) PROVE IInv'
  <1> DEFINE a == target[r]
             inode == IF file[a] = NoFile THEN r ELSE file[a]
  <1> USE MediaAssumption DEF IInv, TypeOK
  <1>1. /\ a \in Asset /\ inode \in Request /\ target[inode] = a
        /\ op[r] = "upload" /\ pc[r] = "checked" /\ pc' = [pc EXCEPT ![r] = "writing"]
        /\ file' = [file EXCEPT ![a] = inode]
        /\ content' = [content EXCEPT ![inode] = "partial"]
        /\ fd' = [fd EXCEPT ![r] = inode]
        /\ suspect' = IF Completing(a) \/ Deleting(a) THEN suspect \union {a} ELSE suspect
        /\ UNCHANGED <<state, expired, op, target, uploaded, faults>>
    BY DEF OpenFile, Goto, SuspectIf, PhaseOK, FileOK
  <1> HIDE DEF inode
  <1>2. TypeOK' /\ PhaseOK' /\ FileOK'
    BY <1>1 DEF PhaseOK, FileOK
  <1>3. AssetOK(a)'
    <2> SUFFICES ASSUME a \notin suspect' PROVE AssetOK(a)'
      BY <1>1 DEF AssetOK
    <2>1. /\ a \notin suspect /\ ~Completing(a) /\ ~Deleting(a)
          /\ AssetOK(a)
      BY <1>1 DEF AssetsOK
    <2>2. Uploading(a)
      BY <1>1 DEF Uploading, InFlight
    <2>3. state[a] \notin {"ready", "deleted"}
      BY <2>1, <2>2 DEF AssetOK, ReadyOK, DeletedOK
    <2>4. PartialOK(a)'
      BY <1>1 DEF PartialOK, AtFile
    <2>5. DeletedOK(a)' /\ ReadyOK(a)'
      BY <1>1, <2>3 DEF DeletedOK, ReadyOK
    <2>6. UnlinkedOK(a)' /\ PresentOK(a)'
      BY <1>1, <2>1 DEF UnlinkedOK, PresentOK, Completing, Deleting, InFlight
    <2> QED
      BY <1>1, <2>4, <2>5, <2>6 DEF AssetOK
  <1>4. ASSUME NEW b \in Asset, b # a PROVE AssetOK(b)'
    BY <1>1, <1>4, Elsewhere DEF Goto, FileOK
  <1> QED
    BY <1>1, <1>2, <1>3, <1>4 DEF AssetsOK

\* A file that is written to its end is whole.
LEMMA CopyAllIInv == ASSUME IInv, NEW r \in Request, CopyAll(r) PROVE IInv'
  <1> DEFINE a == target[r]
  <1> USE MediaAssumption DEF IInv, TypeOK, CopyAll, Goto
  <1>1. TypeOK'
    BY DEF PhaseOK
  <1>2. PhaseOK' /\ FileOK'
    BY DEF PhaseOK, FileOK
  <1>3. AssetOK(a)'
    <2>1. a \in Asset /\ AssetOK(a)
      BY DEF AssetsOK
    <2> QED
      BY <2>1 DEF PhaseOK, FileOK, AssetOK, PartialOK, DeletedOK, UnlinkedOK, PresentOK,
         ReadyOK, AtFile, Whole, Uploading, Completing, Deleting, InFlight
  <1>4. ASSUME NEW b \in Asset, b # a PROVE AssetOK(b)'
    BY <1>4, Elsewhere DEF PhaseOK, FileOK
  <1> QED
    BY <1>1, <1>2, <1>3, <1>4 DEF AssetsOK

\* A file that ends early is about to be removed.
LEMMA CopyShortIInv == ASSUME IInv, NEW r \in Request, CopyShort(r) PROVE IInv'
  <1> DEFINE a == target[r]
  <1> USE MediaAssumption DEF IInv, TypeOK, CopyShort, Goto
  <1>1. TypeOK'
    BY DEF PhaseOK
  <1>2. PhaseOK' /\ FileOK'
    BY DEF PhaseOK, FileOK
  <1>3. AssetOK(a)'
    <2>1. a \in Asset /\ AssetOK(a)
      BY DEF AssetsOK
    <2> QED
      BY <2>1 DEF PhaseOK, FileOK, AssetOK, PartialOK, DeletedOK, UnlinkedOK, PresentOK,
         ReadyOK, AtFile, Whole, Uploading, Completing, Deleting, InFlight
  <1>4. ASSUME NEW b \in Asset, b # a PROVE AssetOK(b)'
    BY <1>4, Elsewhere DEF PhaseOK, FileOK
  <1> QED
    BY <1>1, <1>2, <1>3, <1>4 DEF AssetsOK

\* No completion and no deletion depends on a file while an upload is at it.
LEMMA RemoveShortIInv == ASSUME IInv, NEW r \in Request, RemoveShort(r) PROVE IInv'
  <1> DEFINE a == target[r]
  <1> USE MediaAssumption DEF IInv, TypeOK, RemoveShort, Goto
  <1>1. TypeOK'
    BY DEF PhaseOK
  <1>2. PhaseOK' /\ FileOK'
    BY DEF PhaseOK, FileOK
  <1>3. AssetOK(a)'
    <2>1. a \in Asset /\ AssetOK(a)
      BY DEF AssetsOK
    <2> QED
      BY <2>1 DEF PhaseOK, FileOK, AssetOK, PartialOK, DeletedOK, UnlinkedOK, PresentOK,
         ReadyOK, AtFile, Whole, Uploading, Completing, Deleting, InFlight
  <1>4. ASSUME NEW b \in Asset, b # a PROVE AssetOK(b)'
    BY <1>4, Elsewhere DEF PhaseOK, FileOK
  <1> QED
    BY <1>1, <1>2, <1>3, <1>4 DEF AssetsOK

\* A failed copy leaves a suspect asset.
LEMMA CopyFailsIInv == ASSUME IInv, NEW r \in Request, CopyFails(r) PROVE IInv'
  <1> DEFINE a == target[r]
  <1> USE MediaAssumption DEF IInv, TypeOK, CopyFails, Goto
  <1>1. TypeOK'
    BY DEF PhaseOK
  <1>2. PhaseOK' /\ FileOK'
    BY DEF PhaseOK, FileOK
  <1>3. AssetOK(a)'
    <2>1. a \in Asset /\ AssetOK(a)
      BY DEF AssetsOK
    <2> QED
      BY <2>1 DEF PhaseOK, FileOK, AssetOK, PartialOK, DeletedOK, UnlinkedOK, PresentOK,
         ReadyOK, AtFile, Whole, Uploading, Completing, Deleting, InFlight
  <1>4. ASSUME NEW b \in Asset, b # a PROVE AssetOK(b)'
    BY <1>4, Elsewhere DEF PhaseOK, FileOK
  <1> QED
    BY <1>1, <1>2, <1>3, <1>4 DEF AssetsOK

\* Only assets that are not deleted are found.
LEMMA FindAssetIInv == ASSUME IInv, NEW r \in Request, FindAsset(r) PROVE IInv'
  <1> DEFINE a == target[r]
  <1> USE MediaAssumption DEF IInv, TypeOK, FindAsset, Goto, Deletable
  <1>1. TypeOK'
    BY DEF PhaseOK
  <1>2. PhaseOK' /\ FileOK'
    BY DEF PhaseOK, FileOK
  <1>3. AssetOK(a)'
    <2>1. a \in Asset /\ AssetOK(a)
      BY DEF AssetsOK
    <2> QED
      BY <2>1 DEF PhaseOK, FileOK, AssetOK, PartialOK, DeletedOK, UnlinkedOK, PresentOK,
         ReadyOK, AtFile, Whole, Uploading, Completing, Deleting, InFlight
  <1>4. ASSUME NEW b \in Asset, b # a PROVE AssetOK(b)'
    BY <1>4, Elsewhere DEF PhaseOK, FileOK
  <1> QED
    BY <1>1, <1>2, <1>3, <1>4 DEF AssetsOK

\* A binary that nobody writes is whole.
LEMMA CheckBinaryIInv == ASSUME IInv, NEW r \in Request, CheckBinary(r) PROVE IInv'
  <1> DEFINE a == target[r]
  <1> USE MediaAssumption DEF IInv, TypeOK, CheckBinary, Goto, SuspectIf
  <1>1. TypeOK'
    BY DEF PhaseOK
  <1>2. PhaseOK' /\ FileOK'
    BY DEF PhaseOK, FileOK
  <1>3. AssetOK(a)'
    <2>1. a \in Asset /\ AssetOK(a)
      BY DEF AssetsOK
    <2> QED
      BY <2>1 DEF PhaseOK, FileOK, AssetOK, PartialOK, DeletedOK, UnlinkedOK, PresentOK,
         ReadyOK, AtFile, Whole, Uploading, Completing, Deleting, InFlight
  <1>4. ASSUME NEW b \in Asset, b # a PROVE AssetOK(b)'
    BY <1>4, Elsewhere DEF PhaseOK, FileOK
  <1> QED
    BY <1>1, <1>2, <1>3, <1>4 DEF AssetsOK

\* An asset that is read again has the state it is found in.
LEMMA ReadAgainIInv == ASSUME IInv, NEW r \in Request, ReadAgain(r) PROVE IInv'
  <1> DEFINE a == target[r]
  <1> USE MediaAssumption DEF IInv, TypeOK, ReadAgain, Goto, Deletable
  <1>1. TypeOK'
    BY DEF PhaseOK
  <1>2. PhaseOK' /\ FileOK'
    BY DEF PhaseOK, FileOK
  <1>3. AssetOK(a)'
    <2>1. a \in Asset /\ AssetOK(a)
      BY DEF AssetsOK
    <2> QED
      BY <2>1 DEF PhaseOK, FileOK, AssetOK, PartialOK, DeletedOK, UnlinkedOK, PresentOK,
         ReadyOK, AtFile, Whole, Uploading, Completing, Deleting, InFlight
  <1>4. ASSUME NEW b \in Asset, b # a PROVE AssetOK(b)'
    BY <1>4, Elsewhere DEF PhaseOK, FileOK
  <1> QED
    BY <1>1, <1>2, <1>3, <1>4 DEF AssetsOK

\* A deletion is refused only when another has marked the row.
LEMMA RefuseMarkIInv == ASSUME IInv, NEW r \in Request, RefuseMark(r) PROVE IInv'
  <1> DEFINE a == target[r]
  <1> USE MediaAssumption DEF IInv, TypeOK, RefuseMark, Goto, Deletable
  <1>1. TypeOK'
    BY DEF PhaseOK
  <1>2. PhaseOK' /\ FileOK'
    BY DEF PhaseOK, FileOK
  <1>3. AssetOK(a)'
    <2>1. a \in Asset /\ AssetOK(a)
      BY DEF AssetsOK
    <2> QED
      BY <2>1 DEF PhaseOK, FileOK, AssetOK, PartialOK, DeletedOK, UnlinkedOK, PresentOK,
         ReadyOK, AtFile, Whole, Uploading, Completing, Deleting, InFlight
  <1>4. ASSUME NEW b \in Asset, b # a PROVE AssetOK(b)'
    BY <1>4, Elsewhere DEF PhaseOK, FileOK
  <1> QED
    BY <1>1, <1>2, <1>3, <1>4 DEF AssetsOK

\* What is marked ready has a binary, or the asset is suspect.
LEMMA MarkReadyIInv == ASSUME IInv, NEW r \in Request, MarkReady(r) PROVE IInv'
  <1> DEFINE a == target[r]
  <1> USE MediaAssumption DEF IInv, TypeOK, MarkReady, Goto, SuspectIf
  <1>1. TypeOK'
    BY DEF PhaseOK
  <1>2. PhaseOK' /\ FileOK'
    BY DEF PhaseOK, FileOK
  <1>3. AssetOK(a)'
    <2>1. a \in Asset /\ AssetOK(a)
      BY DEF AssetsOK
    <2> QED
      BY <2>1 DEF PhaseOK, FileOK, AssetOK, PartialOK, DeletedOK, UnlinkedOK, PresentOK,
         ReadyOK, AtFile, Whole, Uploading, Completing, Deleting, InFlight
  <1>4. ASSUME NEW b \in Asset, b # a PROVE AssetOK(b)'
    BY <1>4, Elsewhere DEF PhaseOK, FileOK
  <1> QED
    BY <1>1, <1>2, <1>3, <1>4 DEF AssetsOK

\* A removed binary is missed only by a deletion under way.
LEMMA RemoveBinaryIInv == ASSUME IInv, NEW r \in Request, RemoveBinary(r) PROVE IInv'
  <1> DEFINE a == target[r]
  <1> USE MediaAssumption DEF IInv, TypeOK, RemoveBinary, Goto
  <1>1. TypeOK'
    BY DEF PhaseOK
  <1>2. PhaseOK' /\ FileOK'
    BY DEF PhaseOK, FileOK
  <1>3. AssetOK(a)'
    <2>1. a \in Asset /\ AssetOK(a)
      BY DEF AssetsOK
    <2> QED
      BY <2>1 DEF PhaseOK, FileOK, AssetOK, PartialOK, DeletedOK, UnlinkedOK, PresentOK,
         ReadyOK, AtFile, Whole, Uploading, Completing, Deleting, InFlight
  <1>4. ASSUME NEW b \in Asset, b # a PROVE AssetOK(b)'
    BY <1>4, Elsewhere DEF PhaseOK, FileOK
  <1> QED
    BY <1>1, <1>2, <1>3, <1>4 DEF AssetsOK

\* What is marked deleted has no binary, or the asset is suspect.
LEMMA MarkDeletedIInv == ASSUME IInv, NEW r \in Request, MarkDeleted(r) PROVE IInv'
  <1> DEFINE a == target[r]
  <1> USE MediaAssumption DEF IInv, TypeOK, MarkDeleted, Goto, SuspectIf
  <1>1. TypeOK'
    BY DEF PhaseOK
  <1>2. PhaseOK' /\ FileOK'
    BY DEF PhaseOK, FileOK
  <1>3. AssetOK(a)'
    <2>1. a \in Asset /\ AssetOK(a)
      BY DEF AssetsOK
    <2> QED
      BY <2>1 DEF PhaseOK, FileOK, AssetOK, PartialOK, DeletedOK, UnlinkedOK, PresentOK,
         ReadyOK, AtFile, Whole, Uploading, Completing, Deleting, InFlight
  <1>4. ASSUME NEW b \in Asset, b # a PROVE AssetOK(b)'
    BY <1>4, Elsewhere DEF PhaseOK, FileOK
  <1> QED
    BY <1>1, <1>2, <1>3, <1>4 DEF AssetsOK

\* A crash leaves a suspect asset.
LEMMA CrashIInv == ASSUME IInv, NEW r \in Request, Crash(r) PROVE IInv'
  <1> DEFINE a == target[r]
  <1> USE MediaAssumption DEF IInv, TypeOK, Crash, Goto
  <1>1. TypeOK'
    BY DEF PhaseOK
  <1>2. PhaseOK' /\ FileOK'
    BY DEF PhaseOK, FileOK
  <1>3. AssetOK(a)'
    <2>1. a \in Asset /\ AssetOK(a)
      BY DEF AssetsOK
    <2> QED
      BY <2>1 DEF PhaseOK, FileOK, AssetOK, PartialOK, DeletedOK, UnlinkedOK, PresentOK,
         ReadyOK, AtFile, Whole, Uploading, Completing, Deleting, InFlight
  <1>4. ASSUME NEW b \in Asset, b # a PROVE AssetOK(b)'
    BY <1>4, Elsewhere DEF PhaseOK, FileOK
  <1> QED
    BY <1>1, <1>2, <1>3, <1>4 DEF AssetsOK

\* Assets, files and requests keep the invariant.
THEOREM Inductive == Spec => []IInv
  <1>1. Init => IInv
    BY MediaAssumption
       DEF Init, IInv, TypeOK, PhaseOK, FileOK, AssetsOK, AssetOK, PartialOK, DeletedOK, UnlinkedOK,
           PresentOK, ReadyOK, Uploading, InFlight
  <1>2. IInv /\ [Next]_vars => IInv'
    <2> SUFFICES ASSUME IInv, [Next]_vars PROVE IInv'
      OBVIOUS
    <2>1. ASSUME NEW r \in Request, Serve(r) PROVE IInv'
      BY <2>1, CheckUploadIInv, OpenFileIInv, CopyAllIInv, CopyShortIInv, RemoveShortIInv,
         CopyFailsIInv, FindAssetIInv, CheckBinaryIInv, ReadAgainIInv, RefuseMarkIInv,
         MarkReadyIInv, RemoveBinaryIInv, MarkDeletedIInv, CrashIInv DEF Serve
    <2>2. ASSUME NEW a \in Asset, CreateIntent(a) \/ Expire(a) PROVE IInv'
      BY <2>2, IntentIInv
    <2>3. CASE UNCHANGED vars
      BY <2>3 DEF vars, IInv, TypeOK, PhaseOK, FileOK, AssetsOK, AssetOK, PartialOK, DeletedOK,
         UnlinkedOK, PresentOK, ReadyOK, AtFile, Whole, Uploading, Deleting, InFlight
    <2> QED
      BY <2>1, <2>2, <2>3 DEF Next
  <1> QED
    BY <1>1, <1>2, PTL DEF Spec

\* The state is one of the ENUM column.
THEOREM Typing == Spec => []TypeOK
  <1>1. IInv => TypeOK
    BY DEF IInv
  <1> QED
    BY <1>1, Inductive, PTL

\* A ready asset has the whole of its binary, unless its requests overlapped or failed.
THEOREM ReadyBinary == Spec => []ReadyHasBinary
  <1>1. IInv => ReadyHasBinary
    BY DEF IInv, AssetsOK, AssetOK, ReadyOK, Whole, ReadyHasBinary
  <1> QED
    BY <1>1, Inductive, PTL

\* The binary of a deleted asset is gone, unless its requests overlapped or failed.
THEOREM DeletedBinary == Spec => []DeletedHasNoBinary
  <1>1. IInv => DeletedHasNoBinary
    BY DEF IInv, AssetsOK, AssetOK, DeletedOK, DeletedHasNoBinary
  <1> QED
    BY <1>1, Inductive, PTL

\* A deletion is final, whatever completion was under way.
THEOREM DeletionIsFinal == Spec => DeletedForGood
  <1>1. ASSUME IInv, [Next]_vars, NEW a \in Asset, state[a] = "deleted"
        PROVE  state'[a] = "deleted"
    <2> USE DEF IInv, TypeOK
    <2>1. ASSUME NEW r \in Request, MarkReady(r) \/ MarkDeleted(r) PROVE state'[a] = "deleted"
      BY <1>1, <2>1 DEF MarkReady, MarkDeleted
    <2>2. ASSUME NEW b \in Asset, CreateIntent(b) PROVE state'[a] = "deleted"
      BY <1>1, <2>2 DEF CreateIntent
    <2>3. CASE UNCHANGED state
      BY <1>1, <2>3
    <2> QED
      BY <1>1, <2>1, <2>2, <2>3
         DEF Next, Serve, CheckUpload, OpenFile, CopyAll, CopyShort, RemoveShort, CopyFails,
             FindAsset, CheckBinary, ReadAgain, RefuseMark, RemoveBinary, Crash, Expire, vars
  <1>2. IInv /\ [Next]_vars =>
           [\A a \in Asset : state[a] = "deleted" => state'[a] = "deleted"]_vars
    BY <1>1
  <1> QED
    BY <1>2, Inductive, PTL DEF Spec, DeletedForGood
=============================================================================
