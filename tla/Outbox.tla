------------------------------- MODULE Outbox -------------------------------
(***************************************************************************)
(* The durable delivery outbox (src/src/delivery/outbox.js) and everyone   *)
(* who touches a record of it: the adapter turn that delivers the response *)
(* (acp-server.js), operators running agy-buzz-recover (retry,             *)
(* archive-sent), and the unsettled-delivery scan that gates session       *)
(* reconciliation.  Publishing runs in a child process (buzz-publisher.js) *)
(* that can outlive whoever started it.                                    *)
(*                                                                         *)
(* Every record write is temp + rename + chmod: it can fail with the old   *)
(* record in place, or fail after the rename with the new one in place.    *)
(* Record locks are operating-system locks: they die with their holder.    *)
(***************************************************************************)
EXTENDS Integers

CONSTANTS
  Records,      \* recovery ids; each belongs to one turn of one adapter
  Operators     \* processes that run agy-buzz-recover

ASSUME HoldersAssumption == "adapter" \notin Operators /\ "free" \notin Operators

VARIABLES
  disk,         \* disk[id]: status of <id>.json in the outbox, or "absent"
  archived,     \* archived[id]: <id>.json in the archive: "absent", "partial", "sent"
  lock,         \* lock[id]: holder of <id>.lock
  turn,         \* turn[id]: where the delivering turn is
  outcome,      \* outcome[id]: what publish() told the delivering turn
  reported,     \* reported[id]: publication status the ACP client was given
  op,           \* op[o]: what operator o is doing, to which record
  orphans,      \* orphans[id]: publisher children nobody waits for, not yet acted
  effects,      \* effects[id]: times the relay accepted the response
  scan          \* the hasUnsettledDelivery scan

vars == <<disk, archived, lock, turn, outcome, reported, op, orphans, effects, scan>>

Outcomes == {"failed-before-start", "uncertain", "sent"}
Statuses == Outcomes \cup {"inflight"}

(***************************************************************************)
(* DeliveryOutbox._nextRecord: which status may follow which.              *)
(***************************************************************************)
Permitted(from, to, retryFinal) ==
  \/ from = "inflight"
  \/ from = "failed-before-start" /\ to # "inflight"
  \/ from = "uncertain" /\ (to = "uncertain" \/ (retryFinal /\ to # "inflight"))
  \/ from = "sent" /\ to = "sent"

(***************************************************************************)
(* _writeAtomic: the three ways a write can end.  ok tells the caller.     *)
(***************************************************************************)
Write(id, status, ok) ==
  \/ ok /\ disk' = [disk EXCEPT ![id] = status]
  \/ ~ok /\ disk' = [disk EXCEPT ![id] = status]      \* rename done, chmod failed
  \/ ~ok /\ UNCHANGED disk                            \* failed before the rename

Acquire(id, who) ==
  /\ lock[id] = "free"
  /\ lock' = [lock EXCEPT ![id] = who]

Release(id) == lock' = [lock EXCEPT ![id] = "free"]

(***************************************************************************)
(* publish(): what has become of the child when a result is returned.  One *)
(* whose result is uncertain is signalled at most, never awaited: it may   *)
(* have acted, may never act, or may still act.                            *)
(***************************************************************************)
Aftermath(id, result) ==
  \/ /\ result # "failed-before-start"
     /\ effects' = [effects EXCEPT ![id] = @ + 1]
     /\ UNCHANGED orphans
  \/ /\ result = "uncertain"
     /\ orphans' = [orphans EXCEPT ![id] = @ + 1]
     /\ UNCHANGED effects
  \/ /\ result # "sent"
     /\ UNCHANGED <<effects, orphans>>

-----------------------------------------------------------------------------
(***************************************************************************)
(* The delivering turn: begin, publish, update (acp-server.js).            *)
(***************************************************************************)
Goto(id, where) == turn' = [turn EXCEPT ![id] = where]

Report(id, status) == reported' = [reported EXCEPT ![id] = status]

\* begin(): take the record lock; the id is fresh, so no record exists.
BeginLock(id) ==
  /\ turn[id] = "idle"
  /\ disk[id] = "absent"
  /\ Acquire(id, "adapter")
  /\ Goto(id, "beginning")
  /\ UNCHANGED <<disk, archived, outcome, reported, op, orphans, effects, scan>>

\* Mutant: a response whose inflight record was refused is published anyway.
BeginWriteBestEffort(id) ==
  /\ turn[id] = "beginning"
  /\ \E ok \in BOOLEAN : Write(id, "inflight", ok)
  /\ Goto(id, "begun")
  /\ Release(id)
  /\ UNCHANGED <<archived, outcome, reported, op, orphans, effects, scan>>

\* begin(): write the inflight record.  On any error the turn ends without
\* publishing and keeps a copy in process memory for retryDelivery.
BeginWrite(id) ==
  /\ turn[id] = "beginning"
  /\ \E ok \in BOOLEAN :
       /\ Write(id, "inflight", ok)
       /\ Goto(id, IF ok THEN "begun" ELSE "memory")
       /\ IF ok THEN UNCHANGED reported ELSE Report(id, "failed-before-start")
  /\ Release(id)
  /\ UNCHANGED <<archived, outcome, op, orphans, effects, scan>>

\* The lock or the bound store is refused: begin() fails before any write.
BeginRefused(id) ==
  /\ turn[id] = "idle"
  /\ Goto(id, "memory")
  /\ Report(id, "failed-before-start")
  /\ UNCHANGED <<disk, archived, lock, outcome, op, orphans, effects, scan>>

\* publish(): the child is spawned.
PublishSpawned(id) ==
  /\ turn[id] = "begun"
  /\ Goto(id, "publishing")
  /\ UNCHANGED <<disk, archived, lock, outcome, reported, op, orphans, effects, scan>>

\* publish() answers with no child running: spawn failed, or the turn was
\* already aborted, which it calls uncertain.
PublishNotSpawned(id) ==
  /\ turn[id] = "begun"
  /\ \E result \in {"failed-before-start", "uncertain"} :
       outcome' = [outcome EXCEPT ![id] = result]
  /\ Goto(id, "returned")
  /\ UNCHANGED <<disk, archived, lock, reported, op, orphans, effects, scan>>

\* publish(): a valid acknowledgement of the event.
PublishAcknowledged(id) ==
  /\ turn[id] = "publishing"
  /\ Aftermath(id, "sent")
  /\ outcome' = [outcome EXCEPT ![id] = "sent"]
  /\ Goto(id, "returned")
  /\ UNCHANGED <<disk, archived, lock, reported, op, scan>>

\* Mutant: giving up on a started child is reported as never started.
PublishUnresolvedAsFailed(id) ==
  /\ turn[id] = "publishing"
  /\ Aftermath(id, "uncertain")
  /\ outcome' = [outcome EXCEPT ![id] = "failed-before-start"]
  /\ Goto(id, "returned")
  /\ UNCHANGED <<disk, archived, lock, reported, op, scan>>

\* publish() gives up on a started child: abort, timeout, overflow, broken
\* stdin, bad exit or bad acknowledgement.
PublishUnresolved(id) ==
  /\ turn[id] = "publishing"
  /\ Aftermath(id, "uncertain")
  /\ outcome' = [outcome EXCEPT ![id] = "uncertain"]
  /\ Goto(id, "returned")
  /\ UNCHANGED <<disk, archived, lock, reported, op, scan>>

\* update(): take the lock and read the record.
UpdateLock(id) ==
  /\ turn[id] = "returned"
  /\ Acquire(id, "adapter")
  /\ Goto(id, "updating")
  /\ UNCHANGED <<disk, archived, outcome, reported, op, orphans, effects, scan>>

\* Mutant: the client is told the publisher's status even if the write failed.
UpdateWriteUnconfirmed(id) ==
  /\ turn[id] = "updating"
  /\ Permitted(disk[id], outcome[id], FALSE)
  /\ \E ok \in BOOLEAN : Write(id, outcome[id], ok)
  /\ Report(id, outcome[id])
  /\ Goto(id, "done")
  /\ Release(id)
  /\ UNCHANGED <<archived, outcome, op, orphans, effects, scan>>

\* update(): the transition is validated and written; the client is told
\* the publisher's status only if that status was persisted.
UpdateWrite(id) ==
  /\ turn[id] = "updating"
  /\ \/ /\ Permitted(disk[id], outcome[id], FALSE)
        /\ \E ok \in BOOLEAN :
             /\ Write(id, outcome[id], ok)
             /\ Report(id, IF ok THEN outcome[id] ELSE "uncertain")
     \/ /\ ~Permitted(disk[id], outcome[id], FALSE)
        /\ Report(id, "uncertain")
        /\ UNCHANGED disk
  /\ Goto(id, "done")
  /\ Release(id)
  /\ UNCHANGED <<archived, outcome, op, orphans, effects, scan>>

\* update() cannot take the lock (an operator holds it) or the store.
UpdateRefused(id) ==
  /\ turn[id] = "returned"
  /\ Goto(id, "done")
  /\ Report(id, "uncertain")
  /\ UNCHANGED <<disk, archived, lock, outcome, op, orphans, effects, scan>>

(***************************************************************************)
(* retryDelivery: the in-memory recovery of a response whose begin failed. *)
(***************************************************************************)
MemoryRetry(id) ==
  /\ turn[id] = "memory"
  /\ Goto(id, "republishing")
  /\ UNCHANGED <<disk, archived, lock, outcome, reported, op, orphans, effects, scan>>

MemoryRetried(id) ==
  /\ turn[id] = "republishing"
  /\ \E result \in Outcomes :
       /\ Aftermath(id, result)
       /\ Goto(id, IF result = "failed-before-start" THEN "memory" ELSE "done")
  /\ UNCHANGED <<disk, archived, lock, outcome, reported, op, scan>>

(***************************************************************************)
(* The adapter process dies: locks are freed, a running publisher child is *)
(* orphaned, memory is gone.                                               *)
(***************************************************************************)
TurnCrash(id) ==
  /\ turn[id] \notin {"idle", "done"}
  /\ Goto(id, "done")
  /\ IF lock[id] = "adapter" THEN Release(id) ELSE UNCHANGED lock
  /\ IF turn[id] \in {"publishing", "republishing"}
       THEN orphans' = [orphans EXCEPT ![id] = @ + 1]
       ELSE UNCHANGED orphans
  /\ UNCHANGED <<disk, archived, outcome, reported, op, effects, scan>>

\* Mutant: an orphan acts twice.
OrphanActsTwice(id) ==
  /\ effects[id] > 0 \/ orphans[id] > 0
  /\ orphans' = [orphans EXCEPT ![id] = @ - 1]
  /\ effects' = [effects EXCEPT ![id] = @ + 1]
  /\ UNCHANGED <<disk, archived, lock, turn, outcome, reported, op, scan>>

\* An orphaned publisher child reaches the relay, or dies first.
OrphanActs(id) ==
  /\ orphans[id] > 0
  /\ orphans' = [orphans EXCEPT ![id] = @ - 1]
  /\ \/ effects' = [effects EXCEPT ![id] = @ + 1]
     \/ UNCHANGED effects
  /\ UNCHANGED <<disk, archived, lock, turn, outcome, reported, op, scan>>

-----------------------------------------------------------------------------
(***************************************************************************)
(* agy-buzz-recover retry <id>: DeliveryOutbox.retry.                      *)
(***************************************************************************)
Idle == [at |-> "idle", id |-> "none", seen |-> "absent"]

OpGoto(o, where) == op' = [op EXCEPT ![o].at = where]

OpDone(o) == op' = [op EXCEPT ![o] = Idle]

\* The lock is taken and the record read; a busy lock blocks the retry.
RetryLock(o, id) ==
  /\ op[o].at = "idle"
  /\ Acquire(id, o)
  /\ op' = [op EXCEPT ![o] = [at |-> "retry", id |-> id, seen |-> disk[id]]]
  /\ UNCHANGED <<disk, archived, turn, outcome, reported, orphans, effects, scan>>

\* Anything but failed-before-start is blocked.
RetryBlocked(o) ==
  /\ op[o].at = "retry"
  /\ op[o].seen # "failed-before-start"
  /\ OpDone(o)
  /\ Release(op[o].id)
  /\ UNCHANGED <<disk, archived, turn, outcome, reported, orphans, effects, scan>>

\* Mutant: an uncertain record may be retried too.
RetryClaimAny(o) ==
  /\ op[o].at = "retry"
  /\ op[o].seen \in {"failed-before-start", "uncertain"}
  /\ disk' = [disk EXCEPT ![op[o].id] = "uncertain"]
  /\ OpGoto(o, "retrying")
  /\ UNCHANGED <<archived, lock, turn, outcome, reported, orphans, effects, scan>>

\* Mutant: publication starts without the durable claim.
RetryClaimInMemory(o) ==
  /\ op[o].at = "retry"
  /\ op[o].seen = "failed-before-start"
  /\ OpGoto(o, "retrying")
  /\ UNCHANGED <<disk, archived, lock, turn, outcome, reported, orphans, effects, scan>>

\* The claim: uncertain is made durable before anything is started.
RetryClaim(o) ==
  /\ op[o].at = "retry"
  /\ op[o].seen = "failed-before-start"
  /\ \E ok \in BOOLEAN :
       /\ Write(op[o].id, "uncertain", ok)
       /\ IF ok THEN OpGoto(o, "retrying") /\ UNCHANGED lock
                ELSE OpDone(o) /\ Release(op[o].id)
  /\ UNCHANGED <<archived, turn, outcome, reported, orphans, effects, scan>>

\* publish() and the final write; if it fails the durable claim stays.
RetryFinal(o, result) ==
  LET id == op[o].id IN
  /\ op[o].at = "retrying"
  /\ Aftermath(id, result)
  /\ \E ok \in BOOLEAN :
       IF Permitted(disk[id], result, TRUE)
         THEN Write(id, result, ok) ELSE UNCHANGED disk
  /\ OpDone(o)
  /\ Release(id)
  /\ UNCHANGED <<archived, turn, outcome, reported, scan>>

-----------------------------------------------------------------------------
(***************************************************************************)
(* agy-buzz-recover archive-sent --apply: _archiveSentRecord.              *)
(***************************************************************************)
\* Lock, re-read, require sent and an absent destination, create it.
ArchiveCreate(o, id) ==
  /\ op[o].at = "idle"
  /\ disk[id] = "sent"
  /\ archived[id] = "absent"
  /\ Acquire(id, o)
  /\ archived' = [archived EXCEPT ![id] = "partial"]
  /\ op' = [op EXCEPT ![o] = [at |-> "copying", id |-> id, seen |-> "sent"]]
  /\ UNCHANGED <<disk, turn, outcome, reported, orphans, effects, scan>>

\* The copy is written, synced, read back and compared.
ArchiveVerify(o) ==
  /\ op[o].at = "copying"
  /\ archived' = [archived EXCEPT ![op[o].id] = "sent"]
  /\ OpGoto(o, "verified")
  /\ UNCHANGED <<disk, lock, turn, outcome, reported, orphans, effects, scan>>

\* An unverified copy is removed, if it can be.
ArchiveCopyFails(o) ==
  /\ op[o].at = "copying"
  /\ \/ archived' = [archived EXCEPT ![op[o].id] = "absent"]
     \/ UNCHANGED archived
  /\ OpDone(o)
  /\ Release(op[o].id)
  /\ UNCHANGED <<disk, turn, outcome, reported, orphans, effects, scan>>

\* Mutant: the source goes before its copy is verified.
ArchiveUnlinkUnverified(o) ==
  /\ op[o].at = "copying"
  /\ disk' = [disk EXCEPT ![op[o].id] = "absent"]
  /\ OpDone(o)
  /\ Release(op[o].id)
  /\ UNCHANGED <<archived, turn, outcome, reported, orphans, effects, scan>>

\* The source is read again, and removed only if it is unchanged.
ArchiveUnlink(o) ==
  /\ op[o].at = "verified"
  /\ \/ disk[op[o].id] = "sent" /\ disk' = [disk EXCEPT ![op[o].id] = "absent"]
     \/ UNCHANGED disk                        \* source changed, or unlink failed
  /\ OpDone(o)
  /\ Release(op[o].id)
  /\ UNCHANGED <<archived, turn, outcome, reported, orphans, effects, scan>>

\* The recovery process dies at any point; its publisher may live on.
OpCrash(o) ==
  /\ op[o].at # "idle"
  /\ OpDone(o)
  /\ Release(op[o].id)
  /\ IF op[o].at = "retrying"
       THEN orphans' = [orphans EXCEPT ![op[o].id] = @ + 1]
       ELSE UNCHANGED orphans
  /\ UNCHANGED <<disk, archived, turn, outcome, reported, effects, scan>>

-----------------------------------------------------------------------------
(***************************************************************************)
(* hasUnsettledDelivery: an unlocked directory scan, one record at a time. *)
(* listed is what the directory held when it was opened; records appearing *)
(* later may be visited too.                                               *)
(***************************************************************************)
ScanIdle == [at |-> "idle", listed |-> {}, visited |-> {}, unsettled |-> FALSE]

ScanOpen ==
  /\ scan.at \in {"idle", "clear"}
  /\ scan' = [at |-> "scanning", listed |-> {id \in Records : disk[id] # "absent"},
              visited |-> {}, unsettled |-> FALSE]
  /\ UNCHANGED <<disk, archived, lock, turn, outcome, reported, op, orphans, effects>>

\* Mutant: a response that was never sent does not count as unsettled.
ScanVisitLenient(id) ==
  /\ scan.at = "scanning"
  /\ id \notin scan.visited
  /\ disk[id] # "absent"
  /\ scan' = [scan EXCEPT !.visited = @ \cup {id},
                          !.unsettled = @ \/ disk[id] \in {"inflight", "uncertain"}]
  /\ UNCHANGED <<disk, archived, lock, turn, outcome, reported, op, orphans, effects>>

ScanVisit(id) ==
  /\ scan.at = "scanning"
  /\ id \notin scan.visited
  /\ disk[id] # "absent"
  /\ scan' = [scan EXCEPT !.visited = @ \cup {id},
                          !.unsettled = @ \/ disk[id] # "sent"]
  /\ UNCHANGED <<disk, archived, lock, turn, outcome, reported, op, orphans, effects>>

\* A listed record vanished before it was read: the scan throws, and the
\* caller refuses.
ScanThrows ==
  /\ scan.at = "scanning"
  /\ \E id \in scan.listed \ scan.visited : disk[id] = "absent"
  /\ scan' = ScanIdle
  /\ UNCHANGED <<disk, archived, lock, turn, outcome, reported, op, orphans, effects>>

\* The end of the directory: every record that was there throughout has been
\* visited; a removed entry need not have been returned at all.
ScanEnd ==
  /\ scan.at = "scanning"
  /\ \A id \in scan.listed \ scan.visited : disk[id] = "absent"
  /\ scan' = IF scan.unsettled THEN ScanIdle ELSE [scan EXCEPT !.at = "clear"]
  /\ UNCHANGED <<disk, archived, lock, turn, outcome, reported, op, orphans, effects>>

-----------------------------------------------------------------------------
Init ==
  /\ disk = [id \in Records |-> "absent"]
  /\ archived = [id \in Records |-> "absent"]
  /\ lock = [id \in Records |-> "free"]
  /\ turn = [id \in Records |-> "idle"]
  /\ outcome = [id \in Records |-> "none"]
  /\ reported = [id \in Records |-> "none"]
  /\ op = [o \in Operators |-> Idle]
  /\ orphans = [id \in Records |-> 0]
  /\ effects = [id \in Records |-> 0]
  /\ scan = ScanIdle

Deliverer(id) ==
  \/ BeginLock(id) \/ BeginWrite(id) \/ BeginRefused(id)
  \/ PublishSpawned(id) \/ PublishNotSpawned(id)
  \/ PublishAcknowledged(id) \/ PublishUnresolved(id)
  \/ UpdateLock(id) \/ UpdateWrite(id) \/ UpdateRefused(id)
  \/ MemoryRetry(id) \/ MemoryRetried(id)
  \/ TurnCrash(id) \/ OrphanActs(id)

Operator(o) ==
  \/ \E id \in Records : RetryLock(o, id) \/ ArchiveCreate(o, id)
  \/ RetryBlocked(o) \/ RetryClaim(o)
  \/ \E result \in Outcomes : RetryFinal(o, result)
  \/ ArchiveVerify(o) \/ ArchiveCopyFails(o) \/ ArchiveUnlink(o)
  \/ OpCrash(o)

Scanner == ScanOpen \/ ScanThrows \/ ScanEnd \/ \E id \in Records : ScanVisit(id)

Next ==
  \/ \E id \in Records : Deliverer(id)
  \/ \E o \in Operators : Operator(o)
  \/ Scanner

Spec == Init /\ [][Next]_vars

-----------------------------------------------------------------------------
TurnPlaces == {"idle", "beginning", "begun", "publishing", "returned", "updating",
               "memory", "republishing", "done"}

OpPlaces == {"idle", "retry", "retrying", "copying", "verified"}

OpType == [at: OpPlaces, id: Records \cup {"none"}, seen: Statuses \cup {"absent"}]

ScanType == [at: {"idle", "scanning", "clear"}, listed: SUBSET Records,
             visited: SUBSET Records, unsettled: BOOLEAN]

TypeOK ==
  /\ disk \in [Records -> Statuses \cup {"absent"}]
  /\ archived \in [Records -> {"absent", "partial", "sent"}]
  /\ lock \in [Records -> Operators \cup {"adapter", "free"}]
  /\ turn \in [Records -> TurnPlaces]
  /\ outcome \in [Records -> Outcomes \cup {"none"}]
  /\ reported \in [Records -> Outcomes \cup {"none"}]
  /\ op \in [Operators -> OpType]
  /\ orphans \in [Records -> Nat]
  /\ effects \in [Records -> Nat]
  /\ scan \in ScanType

\* A publisher child for id that somebody waits for is running.
Publishing(id) ==
  \/ turn[id] \in {"publishing", "republishing"}
  \/ \E o \in Operators : op[o].at = "retrying" /\ op[o].id = id

\* begin() failed, so the response lives in the adapter's memory only.
InMemoryOnly(id) == reported[id] = "failed-before-start" /\ outcome[id] = "none"

(***************************************************************************)
(* A record that offers itself for retry names a response no publisher was *)
(* ever started for without proof that it did nothing: the failed-before-  *)
(* start status is a promise to the operator (README, "Delivery states").  *)
(***************************************************************************)
RetryableIsUnsent ==
  \A id \in Records : disk[id] = "failed-before-start" =>
    effects[id] = 0 /\ orphans[id] = 0 /\ ~Publishing(id)

(***************************************************************************)
(* However turns, operators, orphans and crashes interleave, a response    *)
(* reaches the relay at most once, counting the publishers still able to   *)
(* deliver it (retry's claim-before-publish, outbox.js:835-895).           *)
(***************************************************************************)
AtMostOnce ==
  \A id \in Records :
    /\ effects[id] + orphans[id] <= 1
    /\ Publishing(id) => effects[id] + orphans[id] = 0

(***************************************************************************)
(* An effect is never missing from the durable record: unless begin()      *)
(* itself failed, a response that did or still can reach the relay is on   *)
(* disk as inflight, uncertain or sent, or is archived.  This is what lets *)
(* reconciliation trust an empty scan.                                     *)
(***************************************************************************)
EffectIsOnRecord ==
  \A id \in Records :
    effects[id] + orphans[id] > 0 \/ Publishing(id) =>
      \/ disk[id] \in {"inflight", "uncertain", "sent"}
      \/ archived[id] = "sent"
      \/ InMemoryOnly(id)

(***************************************************************************)
(* sent, wherever it is written or reported, means the relay accepted the  *)
(* response, and a sent the client was told of is durable (the update is   *)
(* persisted before the client is answered, acp-server.js:756-767).        *)
(***************************************************************************)
SentIsTrue ==
  \A id \in Records :
    /\ disk[id] = "sent" \/ archived[id] = "sent" => effects[id] = 1
    /\ reported[id] = "sent" => disk[id] = "sent" \/ archived[id] = "sent"

(***************************************************************************)
(* A clean unsettled-delivery scan stays true: every record the directory  *)
(* held when the scan began is sent, or archived as sent, although the     *)
(* scan takes no lock while records change under it (outbox.js:621-660).   *)
(***************************************************************************)
ScanIsStable ==
  scan.at = "clear" => \A id \in scan.listed : disk[id] = "sent" \/ archived[id] = "sent"

(***************************************************************************)
(* A sent record is final: it never changes status, and leaves the outbox  *)
(* only once a verified copy is in the archive (outbox.js:744-811).        *)
(***************************************************************************)
SentIsFinal ==
  [][\A id \in Records : disk[id] = "sent" =>
       disk'[id] = "sent" \/ (disk'[id] = "absent" /\ archived[id] = "sent")]_vars

(***************************************************************************)
(* The outbox implements the delivery ledger.                              *)
(***************************************************************************)
LedgerState(id) ==
  [running |-> orphans[id] + (IF Publishing(id) THEN 1 ELSE 0),
   delivered |-> effects[id]]

Ledger == INSTANCE DeliveryLedger WITH ledger <- [id \in Records |-> LedgerState(id)]

(***************************************************************************)
(* Every run of the outbox is a run of the ledger: a publisher is started  *)
(* only while no other publisher of the same response can still deliver it *)
(* and none has.                                                           *)
(***************************************************************************)
ImplementsLedger == Ledger!LedgerSpec

-----------------------------------------------------------------------------
(***************************************************************************)
(* The inductive invariant behind the theorems of OutboxProofs.            *)
(***************************************************************************)
Quiet(id) == effects[id] = 0 /\ orphans[id] = 0

Settled(id) == disk[id] = "sent" \/ archived[id] = "sent"

\* What is known of a record from where its turn is.
TurnInv(id) ==
  /\ turn[id] = "idle" => Quiet(id) /\ disk[id] = "absent" /\ reported[id] = "none"
  /\ turn[id] = "beginning" => Quiet(id) /\ disk[id] = "absent" /\ reported[id] = "none"
  /\ turn[id] \in {"begun", "publishing"} =>
       Quiet(id) /\ disk[id] = "inflight" /\ reported[id] = "none"
  /\ turn[id] \in {"returned", "updating"} =>
       /\ disk[id] = "inflight" /\ reported[id] = "none"
       /\ outcome[id] = "failed-before-start" => Quiet(id)
       /\ outcome[id] = "sent" => effects[id] = 1
       /\ outcome[id] # "none"
  /\ turn[id] \in {"memory", "republishing"} =>
       Quiet(id) /\ disk[id] \in {"absent", "inflight"} /\ InMemoryOnly(id)
  /\ turn[id] \in {"idle", "beginning", "begun", "publishing"} => outcome[id] = "none"
  /\ turn[id] \in {"beginning", "updating"} => lock[id] = "adapter"

\* What is known of a record from its durable status.
RecordInv(id) ==
  /\ effects[id] + orphans[id] <= 1
  /\ disk[id] \in {"failed-before-start", "uncertain", "sent"} => turn[id] = "done"
  /\ disk[id] = "failed-before-start" => Quiet(id)
  /\ Settled(id) => effects[id] = 1
  /\ archived[id] # "absent" => Settled(id) /\ turn[id] = "done"
  /\ reported[id] = "sent" => Settled(id)
  /\ disk[id] = "absent" => Quiet(id) \/ archived[id] = "sent" \/ InMemoryOnly(id)

\* What is known of the record an operator works on.
OpInv(o) ==
  /\ op[o].at # "idle" => op[o].id \in Records /\ lock[op[o].id] = o
  /\ op[o].at = "retry" => op[o].seen = disk[op[o].id]
  /\ op[o].at = "retrying" => disk[op[o].id] = "uncertain" /\ Quiet(op[o].id)
  /\ op[o].at \in {"copying", "verified"} => disk[op[o].id] = "sent"
  /\ op[o].at = "copying" => archived[op[o].id] = "partial"
  /\ op[o].at = "verified" => archived[op[o].id] = "sent"

ScanInv ==
  /\ scan.at # "idle" =>
       \A id \in scan.listed : disk[id] # "absent" \/ archived[id] = "sent"
  /\ scan.at # "idle" /\ ~scan.unsettled => \A id \in scan.visited : Settled(id)
  /\ scan.at = "clear" =>
       ~scan.unsettled /\ \A id \in scan.listed : Settled(id)

IInv ==
  /\ TypeOK
  /\ \A id \in Records : TurnInv(id) /\ RecordInv(id)
  /\ \A o \in Operators : OpInv(o)
  /\ ScanInv
=============================================================================
