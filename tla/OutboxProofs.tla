---------------------------- MODULE OutboxProofs ----------------------------
(* Proofs about the delivery outbox, for any set of records and operators. *)
EXTENDS Outbox, TLAPS

(***************************************************************************)
(* Moving an operator keeps its record well-typed.                         *)
(***************************************************************************)
LEMMA OpGotoType ==
  ASSUME op \in [Operators -> OpType], NEW o \in Operators, NEW where \in OpPlaces,
         OpGoto(o, where)
  PROVE  op' \in [Operators -> OpType]
<1>1. [op[o] EXCEPT !.at = where] \in OpType
  BY DEF OpType
<1>2. QED
  BY <1>1 DEF OpGoto

LEMMA OpDoneType ==
  ASSUME op \in [Operators -> OpType], NEW o \in Operators, OpDone(o)
  PROVE  op' \in [Operators -> OpType]
<1>1. Idle \in OpType
  BY DEF OpType, Idle, OpPlaces
<1>2. QED
  BY <1>1 DEF OpDone

(***************************************************************************)
(* Every variable keeps its type, whatever turns, operators, crashes and   *)
(* scans do.                                                               *)
(***************************************************************************)
LEMMA TypeStep == IInv /\ [Next]_vars => TypeOK'
<1>1. SUFFICES ASSUME IInv, [Next]_vars PROVE TypeOK'
  OBVIOUS
<1>0. TypeOK /\ \A id \in Records : TurnInv(id)
  BY <1>1 DEF IInv
<1> USE <1>0 DEF TypeOK, Statuses, Outcomes, TurnPlaces
<1>2. ASSUME NEW id \in Records, Deliverer(id) PROVE TypeOK'
  <2> USE DEF Goto, Report, Acquire, Release, Write, Aftermath
  <2>1. CASE BeginLock(id) BY <2>1 DEF BeginLock
  <2>2. CASE BeginWrite(id) BY <2>2 DEF BeginWrite
  <2>3. CASE BeginRefused(id) BY <2>3 DEF BeginRefused
  <2>4. CASE PublishSpawned(id) BY <2>4 DEF PublishSpawned
  <2>5. CASE PublishNotSpawned(id) BY <2>5 DEF PublishNotSpawned
  <2>6. CASE PublishAcknowledged(id) BY <2>6 DEF PublishAcknowledged
  <2>7. CASE PublishUnresolved(id) BY <2>7 DEF PublishUnresolved
  <2>8. CASE UpdateLock(id) BY <2>8 DEF UpdateLock
  <2>9. CASE UpdateWrite(id) BY <2>9 DEF UpdateWrite, TurnInv
  <2>10. CASE UpdateRefused(id) BY <2>10 DEF UpdateRefused
  <2>11. CASE MemoryRetry(id) BY <2>11 DEF MemoryRetry
  <2>12. CASE MemoryRetried(id) BY <2>12 DEF MemoryRetried
  <2>13. CASE TurnCrash(id) BY <2>13 DEF TurnCrash
  <2>14. CASE OrphanActs(id) BY <2>14 DEF OrphanActs
  <2>15. QED
    BY <1>2, <2>1, <2>2, <2>3, <2>4, <2>5, <2>6, <2>7, <2>8, <2>9, <2>10, <2>11,
       <2>12, <2>13, <2>14 DEF Deliverer
<1>3. ASSUME NEW o \in Operators, Operator(o) PROVE TypeOK'
  <2> USE OpGotoType, OpDoneType DEF Acquire, Release, Write, Aftermath, OpPlaces
  <2>1. ASSUME NEW id \in Records, RetryLock(o, id) PROVE TypeOK'
    <3>1. [at |-> "retry", id |-> id, seen |-> disk[id]] \in OpType
      BY DEF OpType
    <3>2. QED BY <2>1, <3>1 DEF RetryLock
  <2>2. ASSUME NEW id \in Records, ArchiveCreate(o, id) PROVE TypeOK'
    <3>1. [at |-> "copying", id |-> id, seen |-> "sent"] \in OpType
      BY DEF OpType
    <3>2. QED BY <2>2, <3>1 DEF ArchiveCreate
  <2>3. CASE RetryBlocked(o) BY <2>3 DEF RetryBlocked
  <2>4. CASE RetryClaim(o)
    <3>1. op' \in [Operators -> OpType]
      BY <2>4 DEF RetryClaim
    <3>2. QED BY <2>4, <3>1 DEF RetryClaim
  <2>5. ASSUME NEW result \in Outcomes, RetryFinal(o, result) PROVE TypeOK'
    <3>1. op' \in [Operators -> OpType]
      BY <2>5 DEF RetryFinal
    <3>2. effects' \in [Records -> Nat] /\ orphans' \in [Records -> Nat]
      BY <2>5 DEF RetryFinal
    <3>3. QED BY <2>5, <3>1, <3>2 DEF RetryFinal
  <2>6. CASE ArchiveVerify(o) BY <2>6 DEF ArchiveVerify
  <2>7. CASE ArchiveCopyFails(o) BY <2>7 DEF ArchiveCopyFails
  <2>8. CASE ArchiveUnlink(o) BY <2>8 DEF ArchiveUnlink
  <2>9. CASE OpCrash(o)
    <3>1. op' \in [Operators -> OpType]
      BY <2>9 DEF OpCrash
    <3>2. orphans' \in [Records -> Nat]
      BY <2>9 DEF OpCrash
    <3>3. QED BY <2>9, <3>1, <3>2 DEF OpCrash
  <2>10. QED
    BY <1>3, <2>1, <2>2, <2>3, <2>4, <2>5, <2>6, <2>7, <2>8, <2>9 DEF Operator
<1>4. CASE Scanner
  <2> USE DEF ScanType
  <2>1. CASE ScanOpen BY <2>1 DEF ScanOpen
  <2>2. ASSUME NEW id \in Records, ScanVisit(id) PROVE TypeOK'
    BY <2>2 DEF ScanVisit
  <2>3. CASE ScanThrows BY <2>3 DEF ScanThrows, ScanIdle
  <2>4. CASE ScanEnd BY <2>4 DEF ScanEnd, ScanIdle
  <2>5. QED BY <1>4, <2>1, <2>2, <2>3, <2>4 DEF Scanner
<1>5. CASE UNCHANGED vars
  BY <1>5 DEF vars
<1>6. QED
  BY <1>1, <1>2, <1>3, <1>4, <1>5 DEF Next

(***************************************************************************)
(* A step that leaves a record alone keeps what is known of it.            *)
(***************************************************************************)
LEMMA RecordFrame ==
  ASSUME NEW j \in Records, TurnInv(j), RecordInv(j),
         disk'[j] = disk[j], archived'[j] = archived[j], lock'[j] = lock[j],
         turn'[j] = turn[j], outcome'[j] = outcome[j], reported'[j] = reported[j],
         orphans'[j] = orphans[j], effects'[j] = effects[j]
  PROVE  (TurnInv(j) /\ RecordInv(j))'
  BY DEF TurnInv, RecordInv, Quiet, Settled, InMemoryOnly

(***************************************************************************)
(* A step of a delivering turn (or of a publisher child nobody waits for)  *)
(* keeps what is known of every record: the turn acts on its own record,   *)
(* under the record lock or in a place where no operator may work on it.   *)
(***************************************************************************)
LEMMA DelivererStep ==
  ASSUME IInv, NEW id \in Records, Deliverer(id)
  PROVE  (\A j \in Records : TurnInv(j) /\ RecordInv(j))'
<1> SUFFICES ASSUME NEW j \in Records PROVE (TurnInv(j) /\ RecordInv(j))'
  OBVIOUS
<1>0. /\ TypeOK
      /\ TurnInv(id) /\ RecordInv(id) /\ TurnInv(j) /\ RecordInv(j)
  BY DEF IInv
<1> USE <1>0 DEF TypeOK, Statuses, Outcomes, TurnPlaces, TurnInv, RecordInv,
                 Quiet, Settled, InMemoryOnly, Goto, Report, Acquire, Release, Write, Aftermath
<1>1. CASE BeginLock(id) BY <1>1 DEF BeginLock
<1>2. CASE BeginWrite(id) BY <1>2 DEF BeginWrite
<1>3. CASE BeginRefused(id) BY <1>3 DEF BeginRefused
<1>4. CASE PublishSpawned(id) BY <1>4 DEF PublishSpawned
<1>5. CASE PublishNotSpawned(id) BY <1>5 DEF PublishNotSpawned
<1>6. CASE PublishAcknowledged(id) BY <1>6 DEF PublishAcknowledged
<1>7. CASE PublishUnresolved(id) BY <1>7 DEF PublishUnresolved
<1>8. CASE UpdateLock(id) BY <1>8 DEF UpdateLock
<1>9. CASE UpdateWrite(id)
  <2>1. CASE j # id
    <3>1. /\ disk'[j] = disk[j] /\ archived'[j] = archived[j] /\ lock'[j] = lock[j]
          /\ turn'[j] = turn[j] /\ outcome'[j] = outcome[j]
          /\ reported'[j] = reported[j] /\ orphans'[j] = orphans[j]
          /\ effects'[j] = effects[j]
      BY <1>9, <2>1 DEF UpdateWrite
    <3>2. QED BY <3>1, RecordFrame
  <2>2. CASE j = id
    <3>1. PICK ok \in BOOLEAN :
            /\ Write(id, outcome[id], ok)
            /\ Report(id, IF ok THEN outcome[id] ELSE "uncertain")
      BY <1>9 DEF UpdateWrite, Permitted
    <3>2. TurnInv(j)' BY <1>9, <2>2, <3>1 DEF UpdateWrite
    <3>3. RecordInv(j)' BY <1>9, <2>2, <3>1 DEF UpdateWrite
    <3>4. QED BY <3>2, <3>3
  <2>3. QED BY <2>1, <2>2
<1>10. CASE UpdateRefused(id) BY <1>10 DEF UpdateRefused
<1>11. CASE MemoryRetry(id) BY <1>11 DEF MemoryRetry
<1>12. CASE MemoryRetried(id) BY <1>12 DEF MemoryRetried
<1>13. CASE TurnCrash(id)
  <2>1. CASE j # id
    <3>1. /\ disk'[j] = disk[j] /\ archived'[j] = archived[j] /\ lock'[j] = lock[j]
          /\ turn'[j] = turn[j] /\ outcome'[j] = outcome[j]
          /\ reported'[j] = reported[j] /\ orphans'[j] = orphans[j]
          /\ effects'[j] = effects[j]
      BY <1>13, <2>1 DEF TurnCrash
    <3>2. QED BY <3>1, RecordFrame
  <2>2. CASE j = id /\ turn[id] \in {"publishing", "republishing"}
    BY <1>13, <2>2 DEF TurnCrash
  <2>3. CASE j = id /\ turn[id] \notin {"publishing", "republishing"}
    BY <1>13, <2>3 DEF TurnCrash
  <2>4. QED BY <2>1, <2>2, <2>3
<1>14. CASE OrphanActs(id) BY <1>14 DEF OrphanActs
<1>15. QED
  BY <1>1, <1>2, <1>3, <1>4, <1>5, <1>6, <1>7, <1>8, <1>9, <1>10, <1>11, <1>12, <1>13, <1>14
  DEF Deliverer

(***************************************************************************)
(* A step of a delivering turn does not disturb the record an operator     *)
(* holds locked.                                                           *)
(***************************************************************************)
LEMMA DelivererKeepsOp ==
  ASSUME IInv, NEW id \in Records, Deliverer(id)
  PROVE  (\A o \in Operators : OpInv(o))'
<1> SUFFICES ASSUME NEW o \in Operators PROVE OpInv(o)'
  OBVIOUS
<1>0. /\ TypeOK /\ TurnInv(id) /\ RecordInv(id) /\ OpInv(o)
      /\ op[o].id \in Records => RecordInv(op[o].id) /\ TurnInv(op[o].id)
  BY DEF IInv
<1> USE <1>0, HoldersAssumption
    DEF TypeOK, OpType, OpPlaces, Statuses, Outcomes, TurnPlaces, OpInv, TurnInv,
        RecordInv, Quiet, Settled, Goto, Report, Acquire, Release, Write, Aftermath
<1>1. CASE BeginLock(id) BY <1>1 DEF BeginLock
<1>2. CASE BeginWrite(id) BY <1>2 DEF BeginWrite
<1>3. CASE BeginRefused(id) BY <1>3 DEF BeginRefused
<1>4. CASE PublishSpawned(id) BY <1>4 DEF PublishSpawned
<1>5. CASE PublishNotSpawned(id) BY <1>5 DEF PublishNotSpawned
<1>6. CASE PublishAcknowledged(id) BY <1>6 DEF PublishAcknowledged
<1>7. CASE PublishUnresolved(id) BY <1>7 DEF PublishUnresolved
<1>8. CASE UpdateLock(id) BY <1>8 DEF UpdateLock
<1>9. CASE UpdateWrite(id) BY <1>9 DEF UpdateWrite, Permitted
<1>10. CASE UpdateRefused(id) BY <1>10 DEF UpdateRefused
<1>11. CASE MemoryRetry(id) BY <1>11 DEF MemoryRetry
<1>12. CASE MemoryRetried(id) BY <1>12 DEF MemoryRetried
<1>13. CASE TurnCrash(id) BY <1>13 DEF TurnCrash
<1>14. CASE OrphanActs(id) BY <1>14 DEF OrphanActs
<1>15. QED
  BY <1>1, <1>2, <1>3, <1>4, <1>5, <1>6, <1>7, <1>8, <1>9, <1>10, <1>11, <1>12, <1>13, <1>14
  DEF Deliverer

(***************************************************************************)
(* A step of an operator keeps what is known of every record: it changes   *)
(* only the record whose lock it holds, and a retry only one that offers   *)
(* itself for retry.                                                       *)
(***************************************************************************)
LEMMA OperatorStep ==
  ASSUME IInv, NEW o \in Operators, Operator(o)
  PROVE  (\A j \in Records : TurnInv(j) /\ RecordInv(j))'
<1> SUFFICES ASSUME NEW j \in Records PROVE (TurnInv(j) /\ RecordInv(j))'
  OBVIOUS
<1>0. /\ TypeOK /\ OpInv(o) /\ TurnInv(j) /\ RecordInv(j)
      /\ op[o].id \in Records => TurnInv(op[o].id) /\ RecordInv(op[o].id)
  BY DEF IInv
<1> USE <1>0, HoldersAssumption
    DEF TypeOK, OpType, OpPlaces, Statuses, Outcomes, TurnPlaces, OpInv, TurnInv,
        RecordInv, Quiet, Settled, InMemoryOnly, Acquire, Release, Write, Aftermath
<1>1. ASSUME NEW id \in Records, RetryLock(o, id) PROVE (TurnInv(j) /\ RecordInv(j))'
  BY <1>1 DEF RetryLock
<1>2. ASSUME NEW id \in Records, ArchiveCreate(o, id)
      PROVE  (TurnInv(j) /\ RecordInv(j))'
  BY <1>2 DEF ArchiveCreate
<1>3. CASE RetryBlocked(o) BY <1>3 DEF RetryBlocked
<1>4. CASE RetryClaim(o) BY <1>4 DEF RetryClaim
<1>5. ASSUME NEW result \in Outcomes, RetryFinal(o, result)
      PROVE  (TurnInv(j) /\ RecordInv(j))'
  BY <1>5 DEF RetryFinal, Permitted
<1>6. CASE ArchiveVerify(o) BY <1>6 DEF ArchiveVerify
<1>7. CASE ArchiveCopyFails(o) BY <1>7 DEF ArchiveCopyFails
<1>8. CASE ArchiveUnlink(o)
  <2>1. CASE j # op[o].id
    <3>1. /\ disk'[j] = disk[j] /\ archived'[j] = archived[j] /\ lock'[j] = lock[j]
          /\ turn'[j] = turn[j] /\ outcome'[j] = outcome[j]
          /\ reported'[j] = reported[j] /\ orphans'[j] = orphans[j]
          /\ effects'[j] = effects[j]
      BY <1>8, <2>1 DEF ArchiveUnlink
    <3>2. QED BY <3>1, RecordFrame
  <2>2. CASE j = op[o].id BY <1>8, <2>2 DEF ArchiveUnlink
  <2>3. QED BY <2>1, <2>2
<1>9. CASE OpCrash(o) BY <1>9 DEF OpCrash
<1>10. QED
  BY <1>1, <1>2, <1>3, <1>4, <1>5, <1>6, <1>7, <1>8, <1>9 DEF Operator

(***************************************************************************)
(* An operator does not disturb the record another operator holds locked,  *)
(* and knows what it needs of its own.                                     *)
(***************************************************************************)
LEMMA OperatorKeepsOp ==
  ASSUME IInv, NEW o \in Operators, Operator(o)
  PROVE  (\A p \in Operators : OpInv(p))'
<1> SUFFICES ASSUME NEW p \in Operators PROVE OpInv(p)'
  OBVIOUS
<1>0. /\ TypeOK /\ OpInv(o) /\ OpInv(p)
      /\ \A j \in Records : RecordInv(j)
  BY DEF IInv
<1> USE <1>0, HoldersAssumption
    DEF TypeOK, OpType, OpPlaces, Statuses, Outcomes, OpInv, OpGoto, OpDone, Idle,
        RecordInv, Quiet, Settled, Acquire, Release, Write, Aftermath
<1>1. ASSUME NEW id \in Records, RetryLock(o, id) PROVE OpInv(p)'
  BY <1>1 DEF RetryLock
<1>2. ASSUME NEW id \in Records, ArchiveCreate(o, id) PROVE OpInv(p)'
  BY <1>2 DEF ArchiveCreate
<1>3. CASE RetryBlocked(o) BY <1>3 DEF RetryBlocked
<1>4. CASE RetryClaim(o) BY <1>4 DEF RetryClaim
<1>5. ASSUME NEW result \in Outcomes, RetryFinal(o, result) PROVE OpInv(p)'
  <2>1. CASE p = o BY <1>5, <2>1 DEF RetryFinal
  <2>2. CASE p # o
    <3>1. op[p].at = "idle" \/ op[p].id # op[o].id
      BY <1>5, <2>2 DEF RetryFinal
    <3>2. op'[p] = op[p]
      BY <1>5, <2>2 DEF RetryFinal
    <3>0. /\ op[o].id \in Records /\ archived' = archived
          /\ disk' = disk \/ disk' = [disk EXCEPT ![op[o].id] = result]
          /\ lock' = [lock EXCEPT ![op[o].id] = "free"]
          /\ effects' = effects \/ effects' = [effects EXCEPT ![op[o].id] = @ + 1]
          /\ orphans' = orphans \/ orphans' = [orphans EXCEPT ![op[o].id] = @ + 1]
      BY <1>5 DEF RetryFinal
    <3>3. ASSUME op[p].at # "idle"
          PROVE  /\ op[p].id \in Records
                 /\ disk'[op[p].id] = disk[op[p].id]
                 /\ archived'[op[p].id] = archived[op[p].id]
                 /\ lock'[op[p].id] = lock[op[p].id]
                 /\ effects'[op[p].id] = effects[op[p].id]
                 /\ orphans'[op[p].id] = orphans[op[p].id]
      BY <3>1, <3>0, <3>3
    <3>4. QED BY <3>2, <3>3
  <2>3. QED BY <2>1, <2>2
<1>6. CASE ArchiveVerify(o) BY <1>6 DEF ArchiveVerify
<1>7. CASE ArchiveCopyFails(o) BY <1>7 DEF ArchiveCopyFails
<1>8. CASE ArchiveUnlink(o) BY <1>8 DEF ArchiveUnlink
<1>9. CASE OpCrash(o) BY <1>9 DEF OpCrash
<1>10. QED
  BY <1>1, <1>2, <1>3, <1>4, <1>5, <1>6, <1>7, <1>8, <1>9 DEF Operator

(***************************************************************************)
(* How a record on disk can change: a turn only starts or settles its own  *)
(* response, an operator only retries or, once archived, removes it.       *)
(***************************************************************************)
LEMMA DiskStep ==
  ASSUME IInv, [Next]_vars, NEW j \in Records
  PROVE  /\ archived[j] = "sent" => archived'[j] = "sent"
         /\ \/ disk'[j] = disk[j]
            \/ disk[j] # "sent" /\ disk'[j] # "absent"
            \/ disk'[j] = "absent" /\ archived[j] = "sent"
<1>0. TypeOK /\ (\A id \in Records : TurnInv(id) /\ RecordInv(id))
      /\ \A o \in Operators : OpInv(o)
  BY DEF IInv
<1>1. ASSUME NEW id \in Records, Deliverer(id)
      PROVE  /\ archived' = archived
             /\ disk'[j] = disk[j] \/ (disk[j] # "sent" /\ disk'[j] # "absent")
  <2> USE <1>0 DEF TypeOK, TurnInv, Write
  <2>1. CASE BeginWrite(id) BY <2>1 DEF BeginWrite
  <2>2. CASE UpdateWrite(id) BY <2>2 DEF UpdateWrite, Outcomes
  <2>3. QED
    BY <1>1, <2>1, <2>2
    DEF Deliverer, BeginLock, BeginRefused, PublishSpawned, PublishNotSpawned,
        PublishAcknowledged, PublishUnresolved, UpdateLock, UpdateRefused,
        MemoryRetry, MemoryRetried, TurnCrash, OrphanActs
<1>2. ASSUME NEW o \in Operators, Operator(o)
      PROVE  /\ archived[j] = "sent" => archived'[j] = "sent"
             /\ \/ disk'[j] = disk[j]
                \/ disk[j] # "sent" /\ disk'[j] # "absent"
                \/ disk'[j] = "absent" /\ archived[j] = "sent"
  <2> USE <1>0 DEF TypeOK, OpInv, Write, Outcomes
  <2>1. ASSUME NEW id \in Records, RetryLock(o, id) \/ ArchiveCreate(o, id)
        PROVE  archived[j] = "sent" => archived'[j] = "sent" /\ disk' = disk
    BY <2>1 DEF RetryLock, ArchiveCreate
  <2>2. CASE RetryClaim(o) BY <2>2 DEF RetryClaim
  <2>3. ASSUME NEW result \in Outcomes, RetryFinal(o, result)
        PROVE  /\ archived' = archived
               /\ disk'[j] = disk[j] \/ (disk[j] = "uncertain" /\ disk'[j] # "absent")
    <3>1. /\ archived' = archived
          /\ op[o].id \in Records /\ disk[op[o].id] = "uncertain"
          /\ disk' = disk \/ disk' = [disk EXCEPT ![op[o].id] = result]
      BY <2>3 DEF RetryFinal
    <3>2. QED BY <3>1
  <2>4. CASE RetryBlocked(o) \/ OpCrash(o) BY <2>4 DEF RetryBlocked, OpCrash
  <2>5. CASE ArchiveVerify(o) \/ ArchiveCopyFails(o)
    BY <2>5 DEF ArchiveVerify, ArchiveCopyFails
  <2>6. CASE ArchiveUnlink(o) BY <2>6 DEF ArchiveUnlink
  <2>7. QED
    BY <1>2, <2>1, <2>2, <2>3, <2>4, <2>5, <2>6 DEF Operator, RetryLock, ArchiveCreate
<1>3. CASE Scanner \/ UNCHANGED vars
  BY <1>3 DEF Scanner, ScanOpen, ScanVisit, ScanThrows, ScanEnd, vars
<1>4. QED BY <1>1, <1>2, <1>3 DEF Next

(***************************************************************************)
(* The unlocked scan: what it has read as sent stays sent or archived, and *)
(* a record it listed can vanish only into the archive.                    *)
(***************************************************************************)
LEMMA SettledStays ==
  ASSUME IInv, [Next]_vars, NEW j \in Records
  PROVE  /\ Settled(j) => Settled(j)'
         /\ disk[j] # "absent" \/ archived[j] = "sent" =>
              (disk[j] # "absent" \/ archived[j] = "sent")'
BY DiskStep DEF Settled

LEMMA ScanStep ==
  ASSUME IInv, [Next]_vars
  PROVE  ScanInv'
<1>0. TypeOK /\ ScanInv
  BY DEF IInv
<1> USE <1>0 DEF TypeOK, ScanType, ScanInv
<1>1. CASE scan' = scan
  BY <1>1, SettledStays
<1>2. CASE ScanOpen BY <1>2 DEF ScanOpen
<1>3. ASSUME NEW id \in Records, ScanVisit(id) PROVE ScanInv'
  BY <1>3 DEF ScanVisit, Settled
<1>4. CASE ScanThrows BY <1>4 DEF ScanThrows, ScanIdle
<1>5. CASE ScanEnd BY <1>5 DEF ScanEnd, ScanIdle, Settled
<1>6. ASSUME NEW id \in Records, Deliverer(id) PROVE scan' = scan
  BY <1>6 DEF Deliverer, BeginLock, BeginWrite, BeginRefused, PublishSpawned,
     PublishNotSpawned, PublishAcknowledged, PublishUnresolved, UpdateLock, UpdateWrite,
     UpdateRefused, MemoryRetry, MemoryRetried, TurnCrash, OrphanActs
<1>7. ASSUME NEW o \in Operators, Operator(o) PROVE scan' = scan
  BY <1>7 DEF Operator, RetryLock, ArchiveCreate, RetryBlocked, RetryClaim, RetryFinal,
     ArchiveVerify, ArchiveCopyFails, ArchiveUnlink, OpCrash
<1>8. QED BY <1>1, <1>2, <1>3, <1>4, <1>5, <1>6, <1>7 DEF Next, Scanner, vars

(***************************************************************************)
(* The inductive invariant.                                                *)
(***************************************************************************)
THEOREM Inductive == Spec => []IInv
<1>1. Init => IInv
  <2> SUFFICES ASSUME Init PROVE IInv
    OBVIOUS
  <2>1. TypeOK
    BY DEF Init, TypeOK, OpType, OpPlaces, ScanType, Statuses, Outcomes, TurnPlaces,
           Idle, ScanIdle
  <2>2. QED
    BY <2>1 DEF Init, IInv, TurnInv, RecordInv, OpInv, ScanInv, Quiet, Settled, Idle,
                ScanIdle
<1>2. IInv /\ [Next]_vars => IInv'
  <2> SUFFICES ASSUME IInv, [Next]_vars PROVE IInv'
    OBVIOUS
  <2>1. CASE Scanner \/ UNCHANGED vars
    <3>1. UNCHANGED <<disk, archived, lock, turn, outcome, reported, op, orphans, effects>>
      BY <2>1 DEF Scanner, ScanOpen, ScanVisit, ScanThrows, ScanEnd, vars
    <3>2. (\A j \in Records : TurnInv(j) /\ RecordInv(j))'
      BY <3>1, RecordFrame DEF IInv
    <3>3. (\A o \in Operators : OpInv(o))'
      BY <3>1 DEF IInv, OpInv, Quiet
    <3>4. QED BY <3>2, <3>3, TypeStep, ScanStep DEF IInv
  <2>2. ASSUME NEW id \in Records, Deliverer(id) PROVE IInv'
    BY <2>2, TypeStep, ScanStep, DelivererStep, DelivererKeepsOp DEF IInv
  <2>3. ASSUME NEW o \in Operators, Operator(o) PROVE IInv'
    BY <2>3, TypeStep, ScanStep, OperatorStep, OperatorKeepsOp DEF IInv
  <2>4. QED BY <2>1, <2>2, <2>3 DEF Next
<1>3. QED BY <1>1, <1>2, PTL DEF Spec

(***************************************************************************)
(* Type correctness of every behaviour.                                    *)
(***************************************************************************)
THEOREM TypeCorrect == Spec => []TypeOK
<1>1. IInv => TypeOK BY DEF IInv
<1>2. QED BY <1>1, Inductive, PTL

(***************************************************************************)
(* A record offered for retry (failed-before-start) names a response that  *)
(* no publisher has delivered, or still can: retrying it is safe.          *)
(***************************************************************************)
THEOREM RetryIsSafe == Spec => []RetryableIsUnsent
<1>1. IInv => RetryableIsUnsent
  <2> SUFFICES ASSUME IInv, NEW id \in Records, disk[id] = "failed-before-start"
               PROVE  effects[id] = 0 /\ orphans[id] = 0 /\ ~Publishing(id)
    BY DEF RetryableIsUnsent
  <2>1. QED BY DEF IInv, TypeOK, RecordInv, Quiet, Publishing, OpInv
<1>2. QED BY <1>1, Inductive, PTL

(***************************************************************************)
(* The relay accepts a response at most once, whatever crashes.            *)
(***************************************************************************)
THEOREM DeliveredAtMostOnce == Spec => []AtMostOnce
<1>1. IInv => AtMostOnce
  <2> SUFFICES ASSUME IInv, NEW id \in Records
               PROVE  /\ effects[id] + orphans[id] <= 1
                      /\ Publishing(id) => effects[id] + orphans[id] = 0
    BY DEF AtMostOnce
  <2>1. Publishing(id) => Quiet(id)
    BY DEF IInv, TurnInv, OpInv, Publishing
  <2>2. QED BY <2>1 DEF IInv, RecordInv, Quiet
<1>2. QED BY <1>1, Inductive, PTL

(***************************************************************************)
(* A response that did or can still reach the relay shows in the durable   *)
(* record as started, unless begin() had failed.                           *)
(***************************************************************************)
THEOREM EffectsAreOnRecord == Spec => []EffectIsOnRecord
<1>1. IInv => EffectIsOnRecord
  <2> SUFFICES ASSUME IInv, NEW id \in Records,
                      effects[id] + orphans[id] > 0 \/ Publishing(id)
               PROVE  \/ disk[id] \in {"inflight", "uncertain", "sent"}
                      \/ archived[id] = "sent" \/ InMemoryOnly(id)
    BY DEF EffectIsOnRecord
  <2>1. TypeOK /\ TurnInv(id) /\ RecordInv(id) /\ \A o \in Operators : OpInv(o)
    BY DEF IInv
  <2>2. CASE Publishing(id)
    BY <2>1, <2>2 DEF TurnInv, OpInv, Publishing
  <2>3. CASE effects[id] + orphans[id] > 0
    BY <2>1, <2>3 DEF TypeOK, Statuses, Outcomes, RecordInv, Quiet
  <2>4. QED BY <2>2, <2>3
<1>2. QED BY <1>1, Inductive, PTL

(***************************************************************************)
(* sent is the truth: on disk, in the archive and in the client's answer.  *)
(***************************************************************************)
THEOREM SentIsTruth == Spec => []SentIsTrue
<1>1. IInv => SentIsTrue
  BY DEF IInv, RecordInv, Settled, SentIsTrue
<1>2. QED BY <1>1, Inductive, PTL

(***************************************************************************)
(* A clean scan of the outbox stays true of everything it listed.          *)
(***************************************************************************)
THEOREM CleanScanIsStable == Spec => []ScanIsStable
<1>1. IInv => ScanIsStable
  BY DEF IInv, ScanInv, Settled, ScanIsStable
<1>2. QED BY <1>1, Inductive, PTL

(***************************************************************************)
(* A sent record is final: it is never rewritten, and leaves the outbox    *)
(* only for a verified copy in the archive.                                *)
(***************************************************************************)
THEOREM SentStaysSent == Spec => SentIsFinal
<1>1. IInv /\ [Next]_vars =>
        [\A id \in Records : disk[id] = "sent" =>
           disk'[id] = "sent" \/ (disk'[id] = "absent" /\ archived[id] = "sent")]_vars
  BY DiskStep
<1>2. QED BY <1>1, Inductive, PTL DEF Spec, SentIsFinal

-----------------------------------------------------------------------------
(***************************************************************************)
(* Refinement: the moves of the delivery ledger.                           *)
(***************************************************************************)
Move(from, to) ==
  \/ /\ from = [running |-> 0, delivered |-> 0]
     /\ to = [running |-> 1, delivered |-> 0]
  \/ /\ from.running > 0
     /\ \/ to = [running |-> from.running - 1, delivered |-> from.delivered]
        \/ to = [running |-> from.running - 1, delivered |-> from.delivered + 1]

\* No operator is publishing a response that has done or could do anything else.
RetryingIsFirst(id) ==
  \A o \in Operators : op[o].at = "retrying" /\ op[o].id = id =>
    disk[id] = "uncertain" /\ Quiet(id)

LEMMA OneMove ==
  ASSUME NEW id \in Records,
         \A j \in Records \ {id} : LedgerState(j)' = LedgerState(j),
         LedgerState(id)' = LedgerState(id) \/ Move(LedgerState(id), LedgerState(id)')
  PROVE  [Ledger!LedgerNext]_([j \in Records |-> LedgerState(j)])
<1> DEFINE L == [j \in Records |-> LedgerState(j)]
<1>1. CASE LedgerState(id)' = LedgerState(id)
  <2>1. L' = L BY <1>1
  <2>2. QED BY <2>1
<1>2. CASE Move(LedgerState(id), LedgerState(id)')
  <2>1. L' = [L EXCEPT ![id] = LedgerState(id)']
    OBVIOUS
  <2>2. L[id] = LedgerState(id)
    OBVIOUS
  <2> HIDE DEF L
  <2>3. Ledger!Start(id) \/ Ledger!Vanish(id) \/ Ledger!Deliver(id)
    BY <1>2, <2>1, <2>2
    DEF Move, Ledger!Start, Ledger!Vanish, Ledger!Deliver, Ledger!Untouched, L
  <2>4. QED BY <2>3 DEF Ledger!LedgerNext
<1>3. QED BY <1>1, <1>2

(***************************************************************************)
(* What the ledger sees of a record depends on three things only.          *)
(***************************************************************************)
LEMMA LedgerFrame ==
  ASSUME NEW j \in Records, effects'[j] = effects[j], orphans'[j] = orphans[j],
         Publishing(j)' <=> Publishing(j)
  PROVE  LedgerState(j)' = LedgerState(j)
  BY DEF LedgerState

(***************************************************************************)
(* What the ledger sees of a step of a turn on record id.                  *)
(***************************************************************************)
LEMMA DelivererMoves ==
  ASSUME IInv, NEW id \in Records, Deliverer(id)
  PROVE  /\ \A j \in Records \ {id} : LedgerState(j)' = LedgerState(j)
         /\ LedgerState(id)' = LedgerState(id) \/ Move(LedgerState(id), LedgerState(id)')
<1>0. TypeOK /\ TurnInv(id) /\ RecordInv(id) /\ RetryingIsFirst(id)
  BY DEF IInv, RetryingIsFirst, OpInv
<1> USE <1>0 DEF TypeOK
<1>1. op' = op
  BY DEF Deliverer, BeginLock, BeginWrite, BeginRefused, PublishSpawned,
     PublishNotSpawned, PublishAcknowledged, PublishUnresolved, UpdateLock, UpdateWrite,
     UpdateRefused, MemoryRetry, MemoryRetried, TurnCrash, OrphanActs
<1>2. \A j \in Records \ {id} :
        turn'[j] = turn[j] /\ effects'[j] = effects[j] /\ orphans'[j] = orphans[j]
  BY DEF Deliverer, BeginLock, BeginWrite, BeginRefused, PublishSpawned,
     PublishNotSpawned, PublishAcknowledged, PublishUnresolved, UpdateLock, UpdateWrite,
     UpdateRefused, MemoryRetry, MemoryRetried, TurnCrash, OrphanActs, Goto, Aftermath
<1>3. \A j \in Records \ {id} : LedgerState(j)' = LedgerState(j)
  BY <1>1, <1>2 DEF LedgerState, Publishing
<1>4. CASE effects' = effects /\ orphans' = orphans /\ (Publishing(id)' <=> Publishing(id))
  BY <1>3, <1>4, LedgerFrame
<1>5. ASSUME \/ BeginLock(id) \/ BeginWrite(id) \/ BeginRefused(id)
             \/ PublishNotSpawned(id) \/ UpdateLock(id) \/ UpdateWrite(id)
             \/ UpdateRefused(id)
      PROVE  effects' = effects /\ orphans' = orphans /\ (Publishing(id)' <=> Publishing(id))
  BY <1>1, <1>5
  DEF BeginLock, BeginWrite, BeginRefused, PublishNotSpawned, UpdateLock, UpdateWrite,
      UpdateRefused, Publishing, Goto
<1>6. CASE PublishSpawned(id) \/ MemoryRetry(id)
  BY <1>1, <1>3, <1>6
  DEF PublishSpawned, MemoryRetry, Goto, Publishing, LedgerState, Move, TurnInv, Quiet
<1>7. CASE PublishAcknowledged(id) \/ PublishUnresolved(id) \/ MemoryRetried(id)
  <2>1. Quiet(id) /\ Publishing(id) /\ ~Publishing(id)'
    BY <1>1, <1>7
    DEF PublishAcknowledged, PublishUnresolved, MemoryRetried, Goto, Publishing,
        TurnInv, RetryingIsFirst, Statuses, Outcomes
  <2>2. PICK result \in Outcomes : Aftermath(id, result)
    BY <1>7 DEF PublishAcknowledged, PublishUnresolved, MemoryRetried, Outcomes
  <2>3. QED BY <1>3, <2>1, <2>2 DEF Aftermath, Quiet, LedgerState, Move
<1>8. CASE TurnCrash(id)
  <2>1. CASE turn[id] \in {"publishing", "republishing"}
    <3>1. disk[id] # "uncertain" /\ Publishing(id)
      BY <2>1 DEF TurnInv, Publishing
    <3>2. turn'[id] = "done" /\ effects' = effects
          /\ orphans'[id] = orphans[id] + 1
      BY <1>8, <2>1 DEF TurnCrash, Goto
    <3>3. ~Publishing(id)'
      BY <1>1, <3>1, <3>2 DEF Publishing, RetryingIsFirst
    <3>4. LedgerState(id)' = LedgerState(id)
      BY <3>1, <3>2, <3>3 DEF LedgerState
    <3>5. QED BY <1>3, <3>4
  <2>2. CASE turn[id] \notin {"publishing", "republishing"}
    BY <1>1, <1>4, <1>8, <2>2 DEF TurnCrash, Publishing, Goto
  <2>3. QED BY <2>1, <2>2
<1>9. CASE OrphanActs(id)
  <2>1. Publishing(id)' <=> Publishing(id)
    BY <1>1, <1>9 DEF OrphanActs, Publishing
  <2>2. ~Publishing(id)
    BY <1>9 DEF OrphanActs, Publishing, RetryingIsFirst, TurnInv, Quiet
  <2>3. effects[id] = 0 /\ orphans[id] = 1
    BY <1>9 DEF OrphanActs, RecordInv
  <2>4. QED BY <1>3, <1>9, <2>1, <2>2, <2>3 DEF OrphanActs, LedgerState, Move
<1>10. QED BY <1>4, <1>5, <1>6, <1>7, <1>8, <1>9 DEF Deliverer

(***************************************************************************)
(* What the ledger sees of a step of an operator.                          *)
(***************************************************************************)
LEMMA OperatorMoves ==
  ASSUME IInv, NEW o \in Operators, Operator(o)
  PROVE  \/ \A j \in Records : LedgerState(j)' = LedgerState(j)
         \/ \E id \in Records :
              /\ \A j \in Records \ {id} : LedgerState(j)' = LedgerState(j)
              /\ \/ LedgerState(id)' = LedgerState(id)
                 \/ Move(LedgerState(id), LedgerState(id)')
<1>0. /\ TypeOK /\ \A p \in Operators : OpInv(p)
      /\ \A j \in Records : TurnInv(j) /\ RecordInv(j)
  BY DEF IInv
<1> USE <1>0 DEF TypeOK, OpType
<1>1. turn' = turn
  BY DEF Operator, RetryLock, ArchiveCreate, RetryBlocked, RetryClaim, RetryFinal,
     ArchiveVerify, ArchiveCopyFails, ArchiveUnlink, OpCrash
<1>2. CASE effects' = effects /\ orphans' = orphans /\ op[o].at # "retrying"
           /\ op'[o].at # "retrying" /\ \A p \in Operators \ {o} : op'[p] = op[p]
  BY <1>1, <1>2 DEF LedgerState, Publishing
<1>3. CASE \/ \E id \in Records : RetryLock(o, id) \/ ArchiveCreate(o, id)
           \/ RetryBlocked(o) \/ ArchiveVerify(o) \/ ArchiveCopyFails(o)
           \/ ArchiveUnlink(o) \/ (OpCrash(o) /\ op[o].at # "retrying")
  <2>1. /\ effects' = effects /\ orphans' = orphans /\ op[o].at # "retrying"
        /\ op'[o].at # "retrying" /\ \A p \in Operators \ {o} : op'[p] = op[p]
    BY <1>3 DEF RetryLock, ArchiveCreate, RetryBlocked, ArchiveVerify, ArchiveCopyFails,
                ArchiveUnlink, OpCrash, OpGoto, OpDone, Idle
  <2>2. QED BY <1>2, <2>1
<1>4. CASE RetryClaim(o)
  <2>0. PICK id \in Records : id = op[o].id
    BY <1>4 DEF RetryClaim, OpInv
  <2> USE <2>0
  <2>1. /\ disk[id] = "failed-before-start" /\ op[o].at # "retrying"
        /\ effects' = effects /\ orphans' = orphans
        /\ op' = [op EXCEPT ![o].at = "retrying"] \/ op' = [op EXCEPT ![o] = Idle]
    BY <1>4 DEF RetryClaim, OpInv, OpGoto, OpDone
  <2>2. ~Publishing(id) /\ Quiet(id)
    BY <2>1 DEF Publishing, OpInv, RecordInv
  <2>3. \A j \in Records \ {id} : Publishing(j)' <=> Publishing(j)
    <3>1. ASSUME NEW j \in Records \ {id}, NEW p \in Operators
          PROVE  (op'[p].at = "retrying" /\ op'[p].id = j) <=>
                 (op[p].at = "retrying" /\ op[p].id = j)
      BY <2>1 DEF Idle
    <3>2. QED BY <1>1, <3>1 DEF Publishing
  <2>4. \A j \in Records \ {id} : LedgerState(j)' = LedgerState(j)
    BY <2>1, <2>3 DEF LedgerState
  <2>5. LedgerState(id)' = LedgerState(id) \/ Move(LedgerState(id), LedgerState(id)')
    BY <2>1, <2>2 DEF LedgerState, Move, Quiet
  <2>6. QED BY <2>1, <2>4, <2>5
<1>5. ASSUME op[o].at = "retrying", op' = [op EXCEPT ![o] = Idle],
             NEW result \in Outcomes, Aftermath(op[o].id, result)
      PROVE  \E id \in Records :
               /\ \A j \in Records \ {id} : LedgerState(j)' = LedgerState(j)
               /\ \/ LedgerState(id)' = LedgerState(id)
                  \/ Move(LedgerState(id), LedgerState(id)')
  <2>0. PICK id \in Records : id = op[o].id
    BY <1>5 DEF OpInv
  <2> USE <2>0
  <2>1. Quiet(id) /\ turn[id] = "done" /\ Publishing(id)
    BY <1>5 DEF OpInv, RecordInv, Publishing
  <2>2. \A j \in Records \ {id} :
          /\ effects'[j] = effects[j] /\ orphans'[j] = orphans[j]
          /\ Publishing(j)' <=> Publishing(j)
    BY <1>1, <1>5, <2>1 DEF Publishing, Idle, Aftermath
  <2>3. ~Publishing(id)'
    <3>1. ASSUME NEW p \in Operators
          PROVE  ~(op'[p].at = "retrying" /\ op'[p].id = id)
      BY <1>5 DEF Idle, OpInv
    <3>2. QED BY <1>1, <2>1, <3>1 DEF Publishing
  <2>4. \A j \in Records \ {id} : LedgerState(j)' = LedgerState(j)
    BY <2>2 DEF LedgerState
  <2>5. LedgerState(id)' = LedgerState(id) \/ Move(LedgerState(id), LedgerState(id)')
    BY <1>5, <2>1, <2>3 DEF LedgerState, Move, Quiet, Aftermath
  <2>6. QED BY <2>1, <2>4, <2>5
<1>6. ASSUME NEW result \in Outcomes, RetryFinal(o, result)
      PROVE  \E id \in Records :
               /\ \A j \in Records \ {id} : LedgerState(j)' = LedgerState(j)
               /\ \/ LedgerState(id)' = LedgerState(id)
                  \/ Move(LedgerState(id), LedgerState(id)')
  BY <1>5, <1>6 DEF RetryFinal, OpDone
<1>7. CASE OpCrash(o) /\ op[o].at = "retrying"
  <2>1. Aftermath(op[o].id, "uncertain") /\ op' = [op EXCEPT ![o] = Idle]
    BY <1>7 DEF OpCrash, Aftermath, OpDone
  <2>2. QED BY <1>5, <1>7, <2>1 DEF Outcomes
<1>8. CASE \E result \in Outcomes : RetryFinal(o, result)
  BY <1>6, <1>8
<1>9. QED BY <1>3, <1>4, <1>7, <1>8 DEF Operator

(***************************************************************************)
(* The outbox implements the delivery ledger: a publisher of a response is *)
(* started only while no earlier one can still deliver it and none has.    *)
(***************************************************************************)
THEOREM OutboxImplementsLedger == Spec => ImplementsLedger
<1>1. Init => Ledger!LedgerInit
  BY DEF Init, Ledger!LedgerInit, Ledger!Untouched, LedgerState, Publishing, Idle
<1>2. IInv /\ [Next]_vars => [Ledger!LedgerNext]_([id \in Records |-> LedgerState(id)])
  <2> SUFFICES ASSUME IInv, [Next]_vars
               PROVE  [Ledger!LedgerNext]_([id \in Records |-> LedgerState(id)])
    OBVIOUS
  <2>1. ASSUME NEW id \in Records, Deliverer(id)
        PROVE  [Ledger!LedgerNext]_([j \in Records |-> LedgerState(j)])
    BY <2>1, DelivererMoves, OneMove
  <2>2. ASSUME \A j \in Records : LedgerState(j)' = LedgerState(j)
        PROVE  [Ledger!LedgerNext]_([j \in Records |-> LedgerState(j)])
    BY <2>2
  <2>3. ASSUME NEW o \in Operators, Operator(o)
        PROVE  [Ledger!LedgerNext]_([j \in Records |-> LedgerState(j)])
    BY <2>2, <2>3, OperatorMoves, OneMove
  <2>4. CASE Scanner \/ UNCHANGED vars
    BY <2>2, <2>4 DEF Scanner, ScanOpen, ScanVisit, ScanThrows, ScanEnd, vars,
                      LedgerState, Publishing
  <2>5. QED BY <2>1, <2>3, <2>4 DEF Next
<1>3. QED BY <1>1, <1>2, Inductive, PTL DEF Spec, ImplementsLedger, Ledger!LedgerSpec
=============================================================================
