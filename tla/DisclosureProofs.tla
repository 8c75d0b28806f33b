-------------------------- MODULE DisclosureProofs --------------------------
(***************************************************************************)
(* Theorems about Disclosure for any records, users, requests, keys, days  *)
(* and faults.                                                             *)
(*                                                                         *)
(* The rows: what a request has read is a row like those of the table, and *)
(* while nobody writes the row it is that row.  The keys: a reservation    *)
(* has one owner, and how far the owner is tells what was done under the   *)
(* key: nothing was written or answered before it is past its UPDATE, and  *)
(* one answer was given once it is over.                                   *)
(***************************************************************************)
EXTENDS Disclosure, FiniteSetTheorems, TLAPS

\* A row is found before it is written, read again and answered with.
RowsOK ==
    \A r \in Request :
        /\ pc[r] \in {"read", "written", "completing"} => rec[target[r]] \in RecordRow
        /\ pc[r] \in {"read", "completing"} => seen[r] \in RecordRow
        /\ pc[r] = "read" => seen[r] # NoRow
        /\ pc[r] = "read" /\ r \notin stale => rec[target[r]] = seen[r]

Dated(row) == row # NoRow /\ row.status # "Draft" => row.published # 0

\* No row with a status but without a date, in the table or in a request's hands.
DatesOK ==
    /\ \A d \in Record : Dated(rec[d])
    /\ \A r \in Request :
          /\ Dated(seen[r])
          /\ pc[r] = "read" /\ op[r] = "confirm" => seen[r].status = "Published"

\* The phases of a request in which a key that it has is its own.
Holding == {"reserved", "read", "written", "completing", "failed"}

Held(k)      == entry[k].status = "in_progress"
Completed(k) == entry[k].status = "completed"

\* A request that has not given its key back is the owner of the row.
HoldsItsKey(r) == pc[r] \in Holding /\ HasKey(r) => Store!InProgressOf(r, SlotOf(r))

\* A row is under the key of its owner, who is over when it is completed.
IsOwners(r, k) ==
    Store!Taken(k) /\ entry[k].owner = r =>
        /\ HasKey(r) /\ k = SlotOf(r) /\ entry[k].hash = HashOf(r)
        /\ Held(k) => pc[r] \in Holding \union {"over"}
        /\ Completed(k) => pc[r] = "over"

KeysOK ==
    /\ \A r \in Request : HasKey(r) => op[r] \in Keyed
    /\ \A r \in Request : HoldsItsKey(r)
    /\ \A r \in Request, k \in Slot : IsOwners(r, k)

\* Whether the owner of a key may have written its record by now.
Applied(k) ==
    /\ Store!Taken(k)
    /\ Completed(k) \/ pc[entry[k].owner] \in {"written", "completing", "over"}

\* Each write under a key but one was followed by an error.
CountsOK ==
    \A k \in Slot : applied[k] <= faults + (IF Applied(k) THEN 1 ELSE 0)

\* Nobody is answered before the owner of the key, and afterwards everybody as he is.
AnsweredAsOwner(k) ==
    /\ ~Store!Taken(k) => replies[k] = {}
    /\ Held(k) /\ pc[entry[k].owner] # "over" => replies[k] = {}
    /\ \A x, y \in replies[k] : x = y
    /\ Completed(k) => replies[k] = {<<entry[k].hash, entry[k].reply>>}

RepliesOK == \A k \in Slot : AnsweredAsOwner(k)

\* An owner leaves a key in progress behind only with a fault.
LeftByFault(k) == Held(k) /\ pc[entry[k].owner] = "over" => faults > 0

FaultsOK == \A k \in Slot : LeftByFault(k)

IInv ==
    /\ TypeOK
    /\ RowsOK
    /\ DatesOK
    /\ KeysOK
    /\ CountsOK
    /\ RepliesOK
    /\ FaultsOK
-----------------------------------------------------------------------------
(* The operators.                                                          *)

\* A row of the key table is one of three kinds, told apart by its status.
LEMMA EntryKinds ==
    ASSUME TypeOK, NEW k \in Slot
    PROVE  \/ entry[k] = Store!Free /\ ~Store!Taken(k)
           \/ entry[k] \in Store!InProgressRow /\ Held(k)
           \/ entry[k] \in Store!CompletedRow /\ Completed(k)
  BY DEF TypeOK, Store!StoreTypeOK, Store!Free, Store!InProgressRow, Store!CompletedRow,
         Store!Taken, Held, Completed

\* Whatever an operation makes of a row is a row, with the status of the operation.
LEMMA ResultRows ==
    ASSUME TypeOK, NEW r \in Request, NEW row \in RecordRow, NEW new \in Result(r, row)
    PROVE  /\ new \in RecordRow
           /\ op[r] = "edit" => new.status = row.status /\ new.published = row.published
           /\ op[r] = "submit" => new.status = "Published" /\ new.published = today
           /\ op[r] = "confirm" => new.status = "Completed" /\ new.published = row.published
           /\ op[r] = "reject" => new.status = "Draft"
  <1> USE DEF RecordRow, Status
  <1>0. op[r] \in {"submit", "confirm", "edit", "reject"} /\ today \in Day /\ user[r] \in User
    BY DEF TypeOK, Operation, Keyed
  <1>1. CASE op[r] = "edit"
    <2>1. Result(r, row) = {[row EXCEPT !.planned = p, !.by = user[r]] : p \in Plan}
      BY <1>1 DEF Result, Edited
    <2>2. PICK p \in Plan : new = [row EXCEPT !.planned = p, !.by = user[r]]
      BY <2>1
    <2> QED
      BY <1>0, <1>1, <2>2
  <1>2. CASE op[r] = "submit"
    <2>1. new = [row EXCEPT !.status = "Published", !.published = today, !.by = user[r]]
      BY <1>2 DEF Result
    <2> QED
      BY <1>0, <1>2, <2>1
  <1>3. CASE op[r] = "confirm"
    <2>1. new = [row EXCEPT !.status = "Completed", !.by = user[r]]
      BY <1>3 DEF Result
    <2> QED
      BY <1>0, <1>3, <2>1
  <1>4. CASE op[r] = "reject"
    <2>1. new = [row EXCEPT !.status = "Draft", !.by = user[r]]
      BY <1>4 DEF Result, Rejected
    <2> QED
      BY <1>0, <1>4, <2>1
  <1> QED
    BY <1>0, <1>1, <1>2, <1>3, <1>4

-----------------------------------------------------------------------------
(* Initially.                                                              *)

\* No record, no key in use and no request: the invariant holds at first.
LEMMA InitIInv == Init => IInv
  <1> SUFFICES ASSUME Init PROVE IInv
    OBVIOUS
  <1> USE DisclosureAssumption DEF Init, Store!StoreInit, Store!Free
  <1>1. TypeOK
    BY DEF TypeOK, Day, Phases, Store!StoreTypeOK
  <1>2. RowsOK /\ DatesOK
    BY DEF RowsOK, DatesOK, Dated
  <1>3. KeysOK
    BY DEF KeysOK, HoldsItsKey, IsOwners, Store!Taken, HasKey, Holding
  <1>4. CountsOK /\ RepliesOK /\ FaultsOK
    BY DEF CountsOK, RepliesOK, AnsweredAsOwner, FaultsOK, LeftByFault, Applied, Held,
       Completed, Store!Taken
  <1> QED
    BY <1>1, <1>2, <1>3, <1>4 DEF IInv
-----------------------------------------------------------------------------
(* Each step keeps the invariant.                                          *)

\* The tables and the requests keep their types: what is stored as an answer is the row
\* that was read back.
LEMMA TypeStep == IInv /\ Next => TypeOK'
  <1> SUFFICES ASSUME IInv, Next PROVE TypeOK'
    OBVIOUS
  <1> USE DisclosureAssumption DEF IInv, request, Goto, Phases
  <1>k. ASSUME NEW r \in Request
        PROVE  /\ HasKey(r) => SlotOf(r) \in Slot /\ HashOf(r) \in Hash
               /\ SlotOf(r) \in Slot => HasKey(r)
    BY <1>k DEF TypeOK, KeysOK, HashOf, SlotOf, HasKey, Hash, Slot
  <1>1. ASSUME NEW r \in Request, Reserve(r) PROVE TypeOK'
    <2>1. Store!StoreTypeOK'
      <3>1. CASE HasKey(r)
        BY <1>1, <1>k, <3>1 DEF Reserve, TypeOK, Store!Reserve, Store!StoreTypeOK,
           Store!InProgressRow
      <3>2. CASE ~HasKey(r)
        BY <1>1, <3>2 DEF Reserve, TypeOK, Store!StoreTypeOK
      <3> QED
        BY <3>1, <3>2
    <2> QED
      BY <1>1, <2>1 DEF Reserve, TypeOK
  <1>2. ASSUME NEW r \in Request, Duplicate(r) PROVE TypeOK'
    BY <1>2 DEF Duplicate, TypeOK, Store!StoreTypeOK
  <1>3. ASSUME NEW r \in Request, LoadDuplicate(r) PROVE TypeOK'
    <2>1. CASE Store!Replays(SlotOf(r), HashOf(r)) /\ SlotOf(r) \in Slot
      <3>1. entry[SlotOf(r)].reply \in RecordRow
        BY <2>1, EntryKinds DEF Store!Replays, Store!CompletedRow, Store!InProgressRow,
           Store!Free, Held, Completed
      <3>2. replies' \in [Slot -> SUBSET (Hash \X RecordRow)]
        BY <1>3, <1>k, <2>1, <3>1 DEF LoadDuplicate, TypeOK
      <3> QED
        BY <1>3, <3>2 DEF LoadDuplicate, TypeOK, Store!StoreTypeOK
    <2>2. CASE ~(Store!Replays(SlotOf(r), HashOf(r)) /\ SlotOf(r) \in Slot)
      <3>1. replies' \in [Slot -> SUBSET (Hash \X RecordRow)]
        BY <1>3, <2>2 DEF LoadDuplicate, TypeOK
      <3> QED
        BY <1>3, <3>1 DEF LoadDuplicate, TypeOK, Store!StoreTypeOK
    <2> QED
      BY <2>1, <2>2
  <1>4. ASSUME NEW r \in Request, Read(r) PROVE TypeOK'
    BY <1>4 DEF Read, TypeOK, Store!StoreTypeOK
  <1>5. ASSUME NEW r \in Request, Refuse(r) \/ WriteNothing(r) PROVE TypeOK'
    BY <1>5 DEF Refuse, WriteNothing, TypeOK, Store!StoreTypeOK
  <1>6. ASSUME NEW r \in Request, Write(r) PROVE TypeOK'
    <2>1. PICK row \in Result(r, seen[r]) : Put(target[r], row)
      BY <1>6 DEF Write
    <2>2. row \in RecordRow
      BY <1>6, <2>1, ResultRows DEF Write, RowsOK
    <2>3. rec' \in [Record -> RecordRow \union {NoRow}] /\ stale' \in SUBSET Request
      BY <2>1, <2>2 DEF Put, TypeOK
    <2>4. applied' \in [Slot -> Nat]
      BY <1>6, <1>k DEF Write, TypeOK
    <2> QED
      BY <1>6, <2>3, <2>4 DEF Write, TypeOK, Store!StoreTypeOK
  <1>7. ASSUME NEW r \in Request, ReadBack(r) PROVE TypeOK'
    BY <1>7 DEF ReadBack, TypeOK, Store!StoreTypeOK
  <1>8. ASSUME NEW r \in Request, Complete(r) PROVE TypeOK'
    <2>1. seen[r] \in RecordRow
      BY <1>8 DEF Complete, RowsOK
    <2>2. Store!StoreTypeOK'
      BY <1>8, <2>1, EntryKinds DEF Complete, TypeOK, Store!Complete, Store!StoreTypeOK,
         Store!InProgressRow, Store!CompletedRow, Store!InProgressOf, Store!Free, Held, Completed
    <2>3. replies' \in [Slot -> SUBSET (Hash \X RecordRow)]
      BY <1>8, <1>k, <2>1 DEF Complete, Answered, TypeOK
    <2> QED
      BY <1>8, <2>2, <2>3 DEF Complete, TypeOK
  <1>9. ASSUME NEW r \in Request, CompleteFails(r) PROVE TypeOK'
    <2>1. seen[r] \in RecordRow
      BY <1>9 DEF CompleteFails, RowsOK
    <2>2. replies' \in [Slot -> SUBSET (Hash \X RecordRow)]
      BY <1>9, <1>k, <2>1 DEF CompleteFails, Answered, TypeOK
    <2> QED
      BY <1>9, <2>2 DEF CompleteFails, TypeOK, Store!StoreTypeOK
  <1>10. ASSUME NEW r \in Request, AbandonKey(r) PROVE TypeOK'
    <2>1. Store!StoreTypeOK'
      BY <1>10 DEF AbandonKey, TypeOK, Store!Abandon, Store!StoreTypeOK
    <2> QED
      BY <1>10, <2>1 DEF AbandonKey, TypeOK
  <1>11. ASSUME NEW r \in Request, Fail(r) \/ Disconnect(r) PROVE TypeOK'
    BY <1>11 DEF Fail, Disconnect, TypeOK, Store!StoreTypeOK
  <1>12. ASSUME NEW d \in Record, NEW u \in User, CreateRecord(d, u) PROVE TypeOK'
    <2>1. PICK p \in Plan :
             Put(d, [planned |-> p, published |-> 0, status |-> "Draft", by |-> u])
      BY <1>12 DEF CreateRecord
    <2>2. rec' \in [Record -> RecordRow \union {NoRow}] /\ stale' \in SUBSET Request
      BY <2>1 DEF Put, TypeOK, RecordRow, Status, Day
    <2> QED
      BY <1>12, <2>2 DEF CreateRecord, TypeOK, Store!StoreTypeOK
  <1>13. ASSUME Midnight PROVE TypeOK'
    BY <1>13 DEF Midnight, TypeOK, Day, Store!StoreTypeOK
  <1> QED
    BY <1>1, <1>2, <1>3, <1>4, <1>5, <1>6, <1>7, <1>8, <1>9, <1>10, <1>11, <1>12, <1>13
       DEF Next, Serve
\* Only Put writes rows, and it tells whoever had read the row; a row is read before
\* it is written.
LEMMA RowsStep == IInv /\ Next => RowsOK'
  <1> SUFFICES ASSUME IInv, Next PROVE RowsOK'
    OBVIOUS
  <1> USE DEF IInv, RowsOK, TypeOK, request, Goto
  <1>1. ASSUME NEW r \in Request, Write(r) PROVE RowsOK'
    <2>1. PICK row \in Result(r, seen[r]) : Put(target[r], row)
      BY <1>1 DEF Write
    <2>2. row \in RecordRow
      BY <1>1, <2>1, ResultRows DEF Write
    <2> QED
      BY <1>1, <2>1, <2>2 DEF Write, Put
  <1>2. ASSUME NEW d \in Record, NEW u \in User, CreateRecord(d, u) PROVE RowsOK'
    <2>1. PICK p \in Plan :
             Put(d, [planned |-> p, published |-> 0, status |-> "Draft", by |-> u])
      BY <1>2 DEF CreateRecord
    <2>2. rec'[d] \in RecordRow
      BY <2>1, DisclosureAssumption DEF Put, RecordRow, Status, Day
    <2> QED
      BY <1>2, <2>1, <2>2 DEF CreateRecord, Put
  <1>3. ASSUME NEW r \in Request, Read(r) PROVE RowsOK'
    BY <1>3 DEF Read
  <1>4. ASSUME NEW r \in Request, ReadBack(r) PROVE RowsOK'
    BY <1>4 DEF ReadBack
  <1>5. ASSUME NEW r \in Request,
               \/ Reserve(r) \/ Duplicate(r) \/ LoadDuplicate(r) \/ Refuse(r) \/ WriteNothing(r)
               \/ Complete(r) \/ CompleteFails(r) \/ AbandonKey(r) \/ Fail(r) \/ Disconnect(r)
        PROVE  RowsOK'
    BY <1>5 DEF Reserve, Duplicate, LoadDuplicate, Refuse, WriteNothing, Complete,
       CompleteFails, AbandonKey, Fail, Disconnect
  <1>6. ASSUME Midnight PROVE RowsOK'
    BY <1>6 DEF Midnight
  <1> QED
    BY <1>1, <1>2, <1>3, <1>4, <1>5, <1>6 DEF Next, Serve

\* A row that is published takes its date with it, and only one that has been found
\* published is completed.
LEMMA DatesStep == IInv /\ Next => DatesOK'
  <1> SUFFICES ASSUME IInv, Next PROVE DatesOK'
    OBVIOUS
  <1> USE DEF IInv, TypeOK, DatesOK, request, Goto
  <1>1. ASSUME NEW r \in Request, Write(r) PROVE DatesOK'
    <2>1. PICK row \in Result(r, seen[r]) : Put(target[r], row)
      BY <1>1 DEF Write
    <2>2. Dated(row)
      BY <1>1, <2>1, ResultRows DEF Write, RowsOK, Dated, Operation, Keyed, Day
    <2> QED
      BY <1>1, <2>1, <2>2 DEF Write, Put, Dated
  <1>2. ASSUME NEW d \in Record, NEW u \in User, CreateRecord(d, u) PROVE DatesOK'
    <2>1. PICK p \in Plan :
             Put(d, [planned |-> p, published |-> 0, status |-> "Draft", by |-> u])
      BY <1>2 DEF CreateRecord
    <2> QED
      BY <1>2, <2>1 DEF CreateRecord, Put, Dated
  <1>3. ASSUME NEW r \in Request, Read(r) PROVE DatesOK'
    BY <1>3 DEF Read, Permits, Dated
  <1>4. ASSUME NEW r \in Request, ReadBack(r) PROVE DatesOK'
    BY <1>4 DEF ReadBack, Dated
  <1>5. ASSUME NEW r \in Request,
               \/ Reserve(r) \/ Duplicate(r) \/ LoadDuplicate(r) \/ Refuse(r) \/ WriteNothing(r)
               \/ Complete(r) \/ CompleteFails(r) \/ AbandonKey(r) \/ Fail(r) \/ Disconnect(r)
        PROVE  DatesOK'
    BY <1>5 DEF Reserve, Duplicate, LoadDuplicate, Refuse, WriteNothing, Complete,
       CompleteFails, AbandonKey, Fail, Disconnect, Dated
  <1>6. ASSUME Midnight PROVE DatesOK'
    BY <1>6 DEF Midnight, Dated
  <1> QED
    BY <1>1, <1>2, <1>3, <1>4, <1>5, <1>6 DEF Next, Serve
\* A step of r that takes it from one phase to another, and of the requests no other.
Moves(r, from, to) ==
    /\ pc[r] \in from /\ pc'[r] = to /\ \A q \in Request \ {r} : pc'[q] = pc[q]
    /\ op' = op /\ target' = target /\ user' = user /\ key' = key

\* What a step makes of the key table depends on the phase of its request.
LEMMA KeyMoves ==
    ASSUME IInv, NEW r \in Request, Serve(r) \/ CompleteFails(r) \/ Fail(r) \/ Disconnect(r)
    PROVE  \/ HasKey(r) /\ Reserve(r) /\ Moves(r, {"new"}, "reserved")
           \/ Complete(r) /\ Moves(r, {"completing"}, "over")
           \/ AbandonKey(r) /\ Moves(r, {"failed"}, "over")
           \/ /\ entry' = entry
              /\ \/ ~HasKey(r) /\ Moves(r, {"new"}, "reserved")
                 \/ \E to \in Holding \union {"over"} : Moves(r, Holding, to)
                 \/ \E to \in {"duplicate", "over"} : Moves(r, {"new", "duplicate"}, to)
  <1> USE DEF IInv, TypeOK, request, Goto, Phases, Holding, Moves
  <1>1. CASE Reserve(r)
    BY <1>1 DEF Reserve
  <1>2. CASE Complete(r)
    BY <1>2 DEF Complete
  <1>3. CASE AbandonKey(r)
    BY <1>3 DEF AbandonKey
  <1>4. CASE Duplicate(r) \/ LoadDuplicate(r)
    BY <1>4 DEF Duplicate, LoadDuplicate
  <1>5. CASE Read(r) \/ Refuse(r) \/ Write(r) \/ WriteNothing(r) \/ ReadBack(r)
    BY <1>5 DEF Read, Refuse, Write, WriteNothing, ReadBack
  <1>6. CASE CompleteFails(r) \/ Fail(r) \/ Disconnect(r)
    BY <1>6 DEF CompleteFails, Fail, Disconnect
  <1> QED
    BY <1>1, <1>2, <1>3, <1>4, <1>5, <1>6 DEF Serve

\* An INSERT makes r the owner of a free key; Complete and Abandon look for the row of r,
\* so that nobody completes or frees the key of another.
LEMMA KeysStepOf ==
    ASSUME IInv, NEW r \in Request, Serve(r) \/ CompleteFails(r) \/ Fail(r) \/ Disconnect(r),
           NEW q \in Request
    PROVE  /\ op' = op /\ key' = key
           /\ HoldsItsKey(q)'
           /\ \A k \in Slot : IsOwners(q, k)'
  <1>0. /\ HoldsItsKey(q) /\ \A k \in Slot : IsOwners(q, k) /\ IsOwners(r, k)
        /\ \A p \in Request : HasKey(p) => SlotOf(p) \in Slot
        /\ entry = [k \in Slot |-> entry[k]]
    BY DEF IInv, KeysOK, TypeOK, HasKey, SlotOf, Slot, Store!StoreTypeOK
  <1>1. CASE HasKey(r) /\ Reserve(r) /\ Moves(r, {"new"}, "reserved")
    <2> USE DEF Moves, Holding, HasKey, SlotOf, HashOf, Held, Completed, Store!Taken,
                Store!InProgressOf
    <2>1. SlotOf(r) \in Slot /\ ~Store!Taken(SlotOf(r))
      BY <1>0, <1>1 DEF Reserve, Store!Reserve
    <2>2. entry'[SlotOf(r)] = [status |-> "in_progress", owner |-> r, hash |-> HashOf(r)]
      BY <1>0, <1>1, <2>1 DEF Reserve, Store!Reserve
    <2>3. \A k \in Slot \ {SlotOf(r)} : entry'[k] = entry[k]
      BY <1>0, <1>1 DEF Reserve, Store!Reserve
    <2>4. HoldsItsKey(q)'
      BY <1>0, <1>1, <2>1, <2>2, <2>3 DEF HoldsItsKey
    <2>5. ASSUME NEW k \in Slot PROVE IsOwners(q, k)'
      <3>1. CASE k = SlotOf(r)
        BY <1>1, <2>2, <3>1 DEF IsOwners
      <3>2. CASE k # SlotOf(r)
        <4>1. entry'[k] = entry[k] /\ IsOwners(q, k)
          BY <1>0, <2>3, <3>2
        <4> QED
          BY <1>1, <3>2, <4>1 DEF IsOwners
      <3> QED
        BY <3>1, <3>2
    <2> QED
      BY <1>1, <2>4, <2>5
  <1>2. CASE Complete(r) /\ Moves(r, {"completing"}, "over")
    <2> USE DEF Moves, Holding, HasKey, SlotOf, HashOf, Held, Completed, Store!Taken,
                Store!InProgressOf
    <2>1. ASSUME NEW k \in Slot
          PROVE  IF Store!InProgressOf(r, k)
                 THEN entry'[k] = [status |-> "completed", owner |-> r, hash |-> entry[k].hash,
                                   reply |-> seen[r]]
                 ELSE entry'[k] = entry[k]
      BY <1>2, <2>1 DEF Complete, Store!Complete
    <2>2. HoldsItsKey(q)'
      BY <1>0, <1>2, <2>1 DEF HoldsItsKey
    <2>3. ASSUME NEW k \in Slot PROVE IsOwners(q, k)'
      <3>0. IsOwners(q, k) /\ IsOwners(r, k)
        BY <1>0
      <3>1. CASE Store!InProgressOf(r, k)
        <4>1. entry'[k] = [status |-> "completed", owner |-> r, hash |-> entry[k].hash,
                           reply |-> seen[r]]
          BY <2>1, <3>1
        <4> QED
          BY <1>2, <3>0, <3>1, <4>1 DEF IsOwners
      <3>2. CASE ~Store!InProgressOf(r, k)
        <4>1. entry'[k] = entry[k]
          BY <2>1, <3>2
        <4> QED
          BY <1>2, <3>0, <3>2, <4>1 DEF IsOwners
      <3> QED
        BY <3>1, <3>2
    <2> QED
      BY <1>2, <2>2, <2>3
  <1>3. CASE AbandonKey(r) /\ Moves(r, {"failed"}, "over")
    <2> USE DEF Moves, Holding, HasKey, SlotOf, HashOf, Held, Completed, Store!Taken,
                Store!InProgressOf
    <2>1. ASSUME NEW k \in Slot
          PROVE  IF Store!Taken(k) /\ entry[k].owner = r
                 THEN entry'[k].status = "free" ELSE entry'[k] = entry[k]
      BY <1>3, <2>1 DEF AbandonKey, Store!Abandon, Store!Free
    <2>2. HoldsItsKey(q)'
      BY <1>0, <1>3, <2>1 DEF HoldsItsKey
    <2>3. ASSUME NEW k \in Slot PROVE IsOwners(q, k)'
      <3>0. IsOwners(q, k)
        BY <1>0
      <3> QED
        BY <1>3, <2>1, <3>0 DEF IsOwners
    <2> QED
      BY <1>3, <2>2, <2>3
  <1>4. CASE entry' = entry /\ ~HasKey(r) /\ Moves(r, {"new"}, "reserved")
    BY <1>0, <1>4 DEF Moves, HoldsItsKey, IsOwners, HasKey, SlotOf, HashOf, Held, Completed,
       Store!Taken, Store!InProgressOf
  <1>5. CASE entry' = entry /\ \E to \in Holding \union {"over"} : Moves(r, Holding, to)
    BY <1>0, <1>5 DEF Moves, HoldsItsKey, IsOwners, Holding, HasKey, SlotOf, HashOf, Held,
       Completed, Store!Taken, Store!InProgressOf
  <1>6. CASE entry' = entry /\ \E to \in {"duplicate", "over"} : Moves(r, {"new", "duplicate"}, to)
    BY <1>0, <1>6 DEF Moves, HoldsItsKey, IsOwners, Holding, HasKey, SlotOf, HashOf, Held,
       Completed, Store!Taken, Store!InProgressOf
  <1> QED
    BY <1>1, <1>2, <1>3, <1>4, <1>5, <1>6, KeyMoves

\* ... and what is neither a request's leaves the keys alone.
LEMMA KeysStep == IInv /\ Next => KeysOK'
  <1> SUFFICES ASSUME IInv, Next PROVE KeysOK'
    OBVIOUS
  <1>1. ASSUME NEW r \in Request, Serve(r) \/ CompleteFails(r) \/ Fail(r) \/ Disconnect(r)
        PROVE  KeysOK'
    <2>1. op' = op /\ key' = key
      BY <1>1, KeysStepOf
    <2>2. \A q \in Request : (HasKey(q) => op[q] \in Keyed)'
      BY <2>1 DEF IInv, KeysOK, HasKey
    <2>3. \A q \in Request : HoldsItsKey(q)' /\ \A k \in Slot : IsOwners(q, k)'
      BY <1>1, KeysStepOf
    <2> QED
      BY <2>2, <2>3 DEF KeysOK
  <1>2. ASSUME UNCHANGED <<entry, pc, op, target, user, key>> PROVE KeysOK'
    BY <1>2 DEF IInv, KeysOK, HoldsItsKey, IsOwners, HasKey, SlotOf, HashOf, Held, Completed,
       Store!Taken, Store!InProgressOf
  <1> QED
    BY <1>1, <1>2 DEF Next, CreateRecord, Midnight, request

\* The first write under a key is the owner's, who was not past it before; another owner
\* comes only after an error.
LEMMA CountsStepOf ==
    ASSUME IInv, NEW r \in Request, Serve(r) \/ CompleteFails(r) \/ Fail(r) \/ Disconnect(r),
           NEW k \in Slot
    PROVE  applied'[k] <= faults' + (IF Applied(k)' THEN 1 ELSE 0)
  <1> USE DEF Held, Completed, Store!Taken, request, Goto
  <1>0. /\ applied[k] \in Nat /\ faults \in Nat /\ pc \in [Request -> Phases]
        /\ applied[k] <= faults + (IF Applied(k) THEN 1 ELSE 0)
        /\ IsOwners(r, k) /\ HoldsItsKey(r)
        /\ Store!Taken(k) => entry[k].owner \in Request
    BY EntryKinds DEF IInv, TypeOK, CountsOK, KeysOK, Store!InProgressRow, Store!CompletedRow
  <1>1. CASE Write(r)
    <2>1. CASE HasKey(r) /\ k = SlotOf(r)
      <3>1. Store!InProgressOf(r, k) /\ pc[r] = "read" /\ pc'[r] = "written"
        BY <1>0, <1>1, <2>1 DEF Write, HoldsItsKey, Holding
      <3>2. ~Applied(k) /\ Applied(k)'
        BY <1>1, <3>1 DEF Write, Applied, Store!InProgressOf
      <3>3. applied'[k] = applied[k] + 1 /\ faults' = faults
        BY <1>1, <2>1 DEF Write, IInv, TypeOK
      <3> QED
        BY <1>0, <3>2, <3>3
    <2>2. CASE ~(HasKey(r) /\ k = SlotOf(r))
      <3>1. applied'[k] = applied[k] /\ faults' = faults
        BY <1>1, <2>2 DEF Write, IInv, TypeOK
      <3>2. Applied(k)' = Applied(k)
        BY <1>0, <1>1, <2>2 DEF Write, Applied, IsOwners
      <3> QED
        BY <1>0, <3>1, <3>2
    <2> QED
      BY <2>1, <2>2
  <1>2. CASE Fail(r) \/ Disconnect(r) \/ CompleteFails(r)
    BY <1>0, <1>2 DEF Fail, Disconnect, CompleteFails
  <1>3. CASE ~(Write(r) \/ Fail(r) \/ Disconnect(r) \/ CompleteFails(r))
    <2>1. applied' = applied /\ faults' = faults
      BY <1>3 DEF Serve, Reserve, Duplicate, LoadDuplicate, Read, Refuse, Write, WriteNothing,
         ReadBack, Complete, AbandonKey
    <2>2. Applied(k) => Applied(k)'
      <3>1. CASE Reserve(r)
        <4>1. Applied(k) => entry'[k] = entry[k]
          BY <3>1 DEF Reserve, Store!Reserve, Applied, IInv, TypeOK, Store!StoreTypeOK
        <4>2. Applied(k) => entry[k].owner # r
          BY <1>0, <3>1 DEF Reserve, Applied, IsOwners, Holding
        <4> QED
          BY <1>0, <3>1, <4>1, <4>2 DEF Reserve, Applied
      <3>2. CASE Complete(r)
        <4>1. \/ entry'[k] = entry[k] /\ ~Store!InProgressOf(r, k)
              \/ entry'[k].status = "completed"
          BY <3>2 DEF Complete, Store!Complete
        <4> QED
          BY <1>0, <3>2, <4>1 DEF Complete, Applied, IsOwners, Store!InProgressOf
      <3>3. CASE AbandonKey(r)
        <4>1. Applied(k) => entry[k].owner # r
          BY <1>0, <3>3 DEF AbandonKey, Applied, IsOwners
        <4>2. Applied(k) => entry'[k] = entry[k]
          BY <3>3, <4>1 DEF AbandonKey, Store!Abandon
        <4> QED
          BY <3>3, <4>1, <4>2 DEF AbandonKey, Applied
      <3>4. CASE Duplicate(r) \/ LoadDuplicate(r) \/ Read(r) \/ Refuse(r) \/ WriteNothing(r)
                 \/ ReadBack(r)
        <4>1. Applied(k) /\ entry[k].owner = r => Completed(k) \/ pc'[r] = "completing"
          BY <1>0, <3>4 DEF Duplicate, LoadDuplicate, Read, Refuse, WriteNothing, ReadBack,
             Applied, IsOwners, Holding
        <4>2. entry' = entry /\ \A q \in Request \ {r} : pc'[q] = pc[q]
          BY <1>0, <3>4 DEF Duplicate, LoadDuplicate, Read, Refuse, WriteNothing, ReadBack
        <4> QED
          BY <1>0, <4>1, <4>2 DEF Applied
      <3> QED
        BY <1>3, <3>1, <3>2, <3>3, <3>4 DEF Serve
    <2> QED
      BY <1>0, <2>1, <2>2
  <1> QED
    BY <1>1, <1>2, <1>3

\* ... and what is no request's changes no count.
LEMMA CountsStep == IInv /\ Next => CountsOK'
  <1> SUFFICES ASSUME IInv, Next, NEW k \in Slot
               PROVE  applied'[k] <= faults' + (IF Applied(k)' THEN 1 ELSE 0)
    BY DEF CountsOK
  <1>1. CASE UNCHANGED <<entry, pc, applied, faults>>
    BY <1>1 DEF IInv, CountsOK, Applied, Completed, Store!Taken
  <1> QED
    BY <1>1, CountsStepOf DEF Next, CreateRecord, Midnight

\* A key is left behind in progress with an error only, and it is answered once: by its
\* owner, and to others with the answer of the owner that is stored.
LEMMA AnswersStepOf ==
    ASSUME IInv, NEW r \in Request, Serve(r) \/ CompleteFails(r) \/ Fail(r) \/ Disconnect(r),
           NEW k \in Slot
    PROVE  AnsweredAsOwner(k)' /\ LeftByFault(k)'
  <1> USE DEF Held, Completed, Store!Taken, request, Goto, AnsweredAsOwner, LeftByFault
  <1>0. /\ faults \in Nat /\ pc \in [Request -> Phases]
        /\ AnsweredAsOwner(k) /\ LeftByFault(k) /\ IsOwners(r, k) /\ HoldsItsKey(r)
        /\ Store!Taken(k) => entry[k].owner \in Request
        /\ Held(k) \/ Completed(k) \/ ~Store!Taken(k)
        /\ HasKey(r) => SlotOf(r) \in Slot
    BY EntryKinds DEF IInv, TypeOK, RepliesOK, FaultsOK, KeysOK, Store!InProgressRow,
       Store!CompletedRow, HasKey, SlotOf, Slot
  <1>1. ASSUME entry'[k] = entry[k], replies'[k] = replies[k],
               \A q \in Request \ {r} : pc'[q] = pc[q],
               Store!Taken(k) /\ entry[k].owner = r => pc'[r] # "over" \/ faults' > 0,
               pc[r] # "over", faults' \in Nat, faults' >= faults
        PROVE  AnsweredAsOwner(k)' /\ LeftByFault(k)'
    BY <1>0, <1>1
  <1>2. CASE Reserve(r)
    <2>1. CASE HasKey(r) /\ k = SlotOf(r)
      <3>1. replies'[k] = {} /\ pc'[r] = "reserved"
        BY <1>0, <1>2, <2>1 DEF Reserve, Store!Reserve
      <3>2. entry'[k] = [status |-> "in_progress", owner |-> r, hash |-> HashOf(r)]
        BY <1>2, <2>1 DEF Reserve, Store!Reserve, IInv, TypeOK, Store!StoreTypeOK
      <3> QED
        BY <3>1, <3>2
    <2>2. CASE ~(HasKey(r) /\ k = SlotOf(r))
      <3>1. entry'[k] = entry[k]
        BY <1>2, <2>2 DEF Reserve, Store!Reserve, IInv, TypeOK, Store!StoreTypeOK
      <3> QED
        BY <1>0, <1>1, <1>2, <3>1 DEF Reserve
    <2> QED
      BY <2>1, <2>2
  <1>3. CASE LoadDuplicate(r)
    <2>1. replies'[k] = replies[k]
      <3>1. CASE Store!Replays(SlotOf(r), HashOf(r)) /\ k = SlotOf(r)
        <4>1. replies'[k] = replies[k] \union {<<HashOf(r), entry[k].reply>>}
          BY <1>3, <3>1 DEF LoadDuplicate, IInv, TypeOK
        <4> QED
          BY <1>0, <3>1, <4>1 DEF Store!Replays
      <3>2. CASE ~(Store!Replays(SlotOf(r), HashOf(r)) /\ k = SlotOf(r))
        BY <1>3, <3>2 DEF LoadDuplicate, IInv, TypeOK
      <3> QED
        BY <3>1, <3>2
    <2> QED
      BY <1>0, <1>1, <1>3, <2>1 DEF LoadDuplicate, IsOwners, Holding
  <1>4. CASE Complete(r)
    <2>1. CASE HasKey(r) /\ k = SlotOf(r)
      <3>1. Store!InProgressOf(r, k) /\ entry[k].hash = HashOf(r) /\ replies[k] = {}
        BY <1>0, <1>4, <2>1 DEF Complete, HoldsItsKey, Holding, IsOwners, Store!InProgressOf
      <3>2. entry'[k] = [status |-> "completed", owner |-> r, hash |-> entry[k].hash,
                         reply |-> seen[r]]
        BY <1>4, <3>1 DEF Complete, Store!Complete
      <3>3. replies'[k] = {<<HashOf(r), seen[r]>>}
        BY <1>4, <2>1, <3>1 DEF Complete, Answered, IInv, TypeOK
      <3> QED
        BY <3>1, <3>2, <3>3
    <2>2. CASE ~(HasKey(r) /\ k = SlotOf(r))
      <3>1. ~(Store!Taken(k) /\ entry[k].owner = r)
        BY <1>0, <2>2 DEF IsOwners
      <3>2. entry'[k] = entry[k]
        BY <1>4, <3>1 DEF Complete, Store!Complete, Store!InProgressOf
      <3>3. replies'[k] = replies[k]
        BY <1>4, <2>2 DEF Complete, Answered, IInv, TypeOK
      <3> QED
        BY <1>0, <1>1, <1>4, <3>1, <3>2, <3>3 DEF Complete
    <2> QED
      BY <2>1, <2>2
  <1>5. CASE CompleteFails(r)
    <2>1. entry'[k] = entry[k] /\ faults' > 0 /\ faults' \in Nat
      BY <1>0, <1>5 DEF CompleteFails
    <2>2. CASE k = SlotOf(r)
      <3>1. Store!InProgressOf(r, k) /\ replies[k] = {}
        BY <1>0, <1>5, <2>2 DEF CompleteFails, HoldsItsKey, Holding, Store!InProgressOf
      <3>2. replies'[k] = {<<HashOf(r), seen[r]>>} /\ pc'[r] = "over"
        BY <1>0, <1>5, <2>2, <3>1 DEF CompleteFails, Answered, IInv, TypeOK
      <3> QED
        BY <2>1, <3>1, <3>2 DEF Store!InProgressOf
    <2>3. CASE k # SlotOf(r)
      <3>1. replies'[k] = replies[k]
        BY <1>5, <2>3 DEF CompleteFails, Answered, IInv, TypeOK
      <3> QED
        BY <1>0, <1>1, <1>5, <2>1, <3>1 DEF CompleteFails
    <2> QED
      BY <2>2, <2>3
  <1>6. CASE AbandonKey(r)
    <2>1. CASE Store!Taken(k) /\ entry[k].owner = r
      <3>1. entry'[k].status = "free"
        BY <1>6, <2>1 DEF AbandonKey, Store!Abandon, Store!Free
      <3>2. replies'[k] = {}
        BY <1>0, <1>6, <2>1 DEF AbandonKey, IsOwners
      <3> QED
        BY <3>1, <3>2
    <2>2. CASE ~(Store!Taken(k) /\ entry[k].owner = r)
      <3>1. entry'[k] = entry[k]
        BY <1>6, <2>2 DEF AbandonKey, Store!Abandon
      <3> QED
        BY <1>0, <1>1, <1>6, <2>2, <3>1 DEF AbandonKey
    <2> QED
      BY <2>1, <2>2
  <1>7. CASE Fail(r) \/ Disconnect(r)
    BY <1>0, <1>1, <1>7 DEF Fail, Disconnect
  <1>8. CASE Duplicate(r) \/ Read(r) \/ Refuse(r) \/ Write(r) \/ WriteNothing(r) \/ ReadBack(r)
    BY <1>0, <1>1, <1>8 DEF Duplicate, Read, Refuse, Write, WriteNothing, ReadBack
  <1> QED
    BY <1>2, <1>3, <1>4, <1>5, <1>6, <1>7, <1>8 DEF Serve

\* ... and what is no request's answers nobody.
LEMMA AnswersStep == IInv /\ Next => RepliesOK' /\ FaultsOK'
  <1> SUFFICES ASSUME IInv, Next, NEW k \in Slot
               PROVE  AnsweredAsOwner(k)' /\ LeftByFault(k)'
    BY DEF RepliesOK, FaultsOK
  <1>1. CASE UNCHANGED <<entry, pc, replies, faults>>
    BY <1>1 DEF IInv, RepliesOK, FaultsOK, AnsweredAsOwner, LeftByFault, Held, Completed,
       Store!Taken
  <1> QED
    BY <1>1, AnswersStepOf DEF Next, CreateRecord, Midnight

-----------------------------------------------------------------------------
(* The theorems.                                                           *)

\* The inductive invariant of the records and the key protocol.
THEOREM Inductive == Spec => []IInv
  <1>1. IInv /\ [Next]_vars => IInv'
    <2> SUFFICES ASSUME IInv, [Next]_vars PROVE IInv'
      OBVIOUS
    <2>1. CASE Next
      BY <2>1, TypeStep, RowsStep, DatesStep, KeysStep, CountsStep, AnswersStep DEF IInv
    <2>2. CASE UNCHANGED vars
      <3> USE <2>2 DEF vars, request, IInv
      <3>1. TypeOK'
        BY DEF TypeOK, Store!StoreTypeOK
      <3>2. RowsOK' /\ DatesOK'
        BY DEF RowsOK, DatesOK, Dated
      <3>3. KeysOK'
        BY DEF KeysOK, HoldsItsKey, IsOwners, HasKey, SlotOf, HashOf, Held, Completed,
           Store!Taken, Store!InProgressOf
      <3>4. CountsOK' /\ RepliesOK' /\ FaultsOK'
        BY DEF CountsOK, RepliesOK, AnsweredAsOwner, FaultsOK, LeftByFault, Applied, Held,
           Completed, Store!Taken
      <3> QED
        BY <3>1, <3>2, <3>3, <3>4
    <2> QED
      BY <2>1, <2>2
  <1> QED
    BY InitIInv, <1>1, PTL DEF Spec

\* The tables and the requests have their types in every reachable state.
THEOREM Typing == Spec => []TypeOK
  BY Inductive, PTL DEF IInv

\* A record is published or completed with its date, however whole rows overwrite one
\* another.
THEOREM Dates == Spec => []PublishedIsDated
  <1>1. IInv => PublishedIsDated
    BY DEF IInv, DatesOK, Dated, PublishedIsDated
  <1> QED
    BY <1>1, Inductive, PTL

\* All that succeed with one Idempotency-Key are one request with one answer.
THEOREM Replies == Spec => []OneReplyPerKey
  <1>1. ASSUME IInv, NEW k \in Slot PROVE Cardinality(replies[k]) <= 1
    <2>1. CASE replies[k] = {}
      BY <2>1, FS_EmptySet
    <2>2. CASE replies[k] # {}
      <3>1. PICK x : x \in replies[k]
        BY <2>2
      <3>2. replies[k] = {x}
        BY <1>1, <3>1 DEF IInv, RepliesOK, AnsweredAsOwner
      <3>3. Cardinality(replies[k]) = 1
        BY <3>2, FS_Singleton
      <3> QED
        BY <3>3
    <2> QED
      BY <2>1, <2>2
  <1>2. IInv => OneReplyPerKey
    BY <1>1 DEF OneReplyPerKey
  <1> QED
    BY <1>2, Inductive, PTL

\* A record is written once for a key, and once more for each error.
THEOREM Writes == Spec => []AppliedOncePerKey
  <1>1. IInv => AppliedOncePerKey
    BY DEF IInv, TypeOK, CountsOK, AppliedOncePerKey
  <1> QED
    BY <1>1, Inductive, PTL

\* Without errors a key in progress has a handler that runs: 409 means try again.
THEOREM Reservations == Spec => []KeyHeldWhileServed
  <1>1. ASSUME IInv, faults = 0, NEW k \in Slot, Held(k)
        PROVE  pc[entry[k].owner] \notin {"new", "over"}
    <2>1. entry[k].owner \in Request
      BY <1>1, EntryKinds DEF IInv, Held, Completed, Store!Taken, Store!InProgressRow
    <2>2. pc[entry[k].owner] \in Holding \union {"over"}
      BY <1>1, <2>1 DEF IInv, KeysOK, IsOwners, Held, Store!Taken
    <2>3. pc[entry[k].owner] # "over"
      BY <1>1 DEF IInv, FaultsOK, LeftByFault
    <2> QED
      BY <2>2, <2>3 DEF Holding
  <1>2. IInv => KeyHeldWhileServed
    BY <1>1 DEF KeyHeldWhileServed, Held
  <1> QED
    BY <1>2, Inductive, PTL

\* A submission, a confirmation, a rejection or an edit that nobody overtook changes the
\* status as it says.
THEOREM Transitions == Spec => UnracedTransitions
  <1> DEFINE Unraced(r) ==
               pc[r] = "read" /\ pc'[r] = "written" /\ r \notin stale =>
                  LET from == rec[target[r]].status
                      to   == rec'[target[r]].status
                  IN  \/ op[r] = "submit" /\ to = "Published"
                      \/ op[r] = "confirm" /\ from = "Published" /\ to = "Completed"
                      \/ op[r] = "reject" /\ to = "Draft"
                      \/ op[r] = "edit" /\ to = from
  <1>1. ASSUME IInv, [Next]_vars, NEW r \in Request PROVE Unraced(r)
    <2> SUFFICES ASSUME pc[r] = "read", pc'[r] = "written", r \notin stale
                 PROVE  LET from == rec[target[r]].status
                            to   == rec'[target[r]].status
                        IN  \/ op[r] = "submit" /\ to = "Published"
                            \/ op[r] = "confirm" /\ from = "Published" /\ to = "Completed"
                            \/ op[r] = "reject" /\ to = "Draft"
                            \/ op[r] = "edit" /\ to = from
      OBVIOUS
    <2>1. Write(r)
      <3>1. Next /\ pc \in [Request -> Phases]
        BY <1>1 DEF vars, IInv, TypeOK
      <3>2. PICK q \in Request : Serve(q) \/ CompleteFails(q) \/ Fail(q) \/ Disconnect(q)
        BY <3>1 DEF Next, CreateRecord, Midnight
      <3>3. ~Write(q) => pc'[q] # "written" /\ \A p \in Request \ {q} : pc'[p] = pc[p]
        BY <3>1, <3>2 DEF Serve, Goto, Reserve, Duplicate, LoadDuplicate, Read, Refuse,
           WriteNothing, ReadBack, Complete, CompleteFails, AbandonKey, Fail, Disconnect
      <3>4. Write(q) => \A p \in Request \ {q} : pc'[p] = pc[p]
        BY <3>1 DEF Write, Goto
      <3> QED
        BY <3>3, <3>4
    <2>2. rec[target[r]] = seen[r] /\ seen[r] \in RecordRow
      BY <1>1 DEF IInv, RowsOK
    <2>3. PICK row \in Result(r, seen[r]) : Put(target[r], row)
      BY <2>1 DEF Write
    <2>4. rec'[target[r]] = row
      BY <1>1, <2>3 DEF Put, IInv, TypeOK
    <2>5. op[r] \in {"submit", "confirm", "edit", "reject"}
      BY <1>1 DEF IInv, TypeOK, Operation, Keyed
    <2>6. op[r] = "confirm" => seen[r].status = "Published"
      BY <1>1 DEF IInv, DatesOK
    <2> QED
      BY <1>1, <2>2, <2>3, <2>4, <2>5, <2>6, ResultRows DEF IInv
  <1>2. IInv /\ [Next]_vars => \A r \in Request : Unraced(r)
    BY <1>1
  <1> QED
    BY <1>2, Inductive, PTL DEF Spec, UnracedTransitions
=============================================================================
