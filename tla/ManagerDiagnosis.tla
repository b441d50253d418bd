--------------------------- MODULE ManagerDiagnosis ---------------------------
(***************************************************************************)
(* agy-buzz-manage diagnose (diagnoseManager in src/manage.js) beside the  *)
(* managers and editors of Manager.  It takes no lock and writes nothing:  *)
(* it reads one file after the other and then judges what it read, and     *)
(* anything may happen between two reads.                                  *)
(*                                                                         *)
(* A single read is one instant here.  The code also notices a file that   *)
(* changes under a read; it then counts as a conflict, as torn bytes do.   *)
(***************************************************************************)
EXTENDS Manager

VARIABLE look     \* the diagnosis, and what happened while it read

dvars == <<vars, look>>

Steps == {"idle", "claims", "journal", "marker", "harness", "claim", "backup"}

NotLooked ==
  [at |-> "idle", claims |-> {}, journal |-> NoJournal, marker |-> FALSE,
   harness |-> NoFile, claim |-> NoFile, backup |-> NoFile, receipt |-> FALSE,
   quiet |-> TRUE, together |-> {}]

ASSUME ReadAssumption == NoFile \notin [inode : Inodes, bytes : Bytes]

\* What a read of a name returns: its bytes and its identity, or NoFile.
Read(inode) == IF inode = NoFile THEN NoFile ELSE [inode |-> inode, bytes |-> data[inode]]

Found(file, bytes) == file # NoFile /\ file.bytes = bytes

(***************************************************************************)
(* The verdict of diagnoseManager on what it has read.                     *)
(***************************************************************************)
BackupOf(j) == IF op[j.op].kind = "install" THEN j.op ELSE op[j.op].of

BackupBytes(j) == IF op[j.op].kind = "install" THEN op[j.op].from ELSE op[j.op].to

\* Mutant: every claim but the journal's own is a conflict
NotHistorical(l, c) == FALSE

\* The claim of the install that a rollback undoes is the backup's other name.
Historical(l, c) ==
  /\ op[l.journal.op].kind = "rollback"
  /\ Found(l.backup, op[l.journal.op].to)
  /\ c.file.inode = l.backup.inode /\ c.file.bytes = op[l.journal.op].to

Conflict(l) ==
  LET j == l.journal
      expected == IF j.phase = "claiming" THEN op[j.op].from ELSE op[j.op].to
  IN \/ l.harness # NoFile /\ ~Found(l.harness, expected)
     \/ l.claim # NoFile /\ ~Found(l.claim, op[j.op].from)
     \/ \E c \in l.claims : ~(j.claimed /\ c.op = j.op) /\ ~Historical(l, c)

\* Mutant: the files that must be in place are not compared again
VerdictUnread(l) ==
  LET j == l.journal IN
  IF j.phase = "none"
  THEN IF l.marker \/ l.claims # {} THEN "indeterminate" ELSE "insufficient-evidence"
  ELSE IF j.phase = "complete" /\ l.claim # NoFile /\ l.backup # NoFile /\ l.receipt /\ ~l.marker
       THEN "consistent"
  ELSE "indeterminate"

Verdict(l) ==
  LET j == l.journal IN
  IF j.phase = "none"
  THEN IF l.marker \/ l.claims # {} THEN "indeterminate" ELSE "insufficient-evidence"
  ELSE IF Conflict(l) THEN "indeterminate"
  ELSE IF /\ l.harness = NoFile /\ Found(l.claim, op[j.op].from)
          /\ j.phase \in {"claiming", "claimed", "publishing"}
       THEN "interrupted"
  ELSE IF l.marker THEN "indeterminate"
  ELSE IF /\ j.phase = "complete" /\ Found(l.harness, op[j.op].to)
          /\ Found(l.claim, op[j.op].from)
          /\ Found(l.backup, BackupBytes(j)) /\ l.receipt
       THEN "consistent"
  ELSE IF j.phase = "failed" THEN "indeterminate"
  ELSE "insufficient-evidence"

-----------------------------------------------------------------------------
(***************************************************************************)
(* History: the operations whose journal was complete while the harness    *)
(* had their bytes and their backup the bytes to go back to, all at one    *)
(* instant of the diagnosis; and whether it ran undisturbed.               *)
(***************************************************************************)
AllInPlace ==
  {o \in Ops : /\ journal.op = o /\ journal.phase = "complete"
               /\ Holds(harness, op[o].to) /\ Holds(backup[BackupOf(journal)], BackupBytes(journal))}

Reads(from, to, result) ==
  /\ look.at = from
  /\ look' = [result EXCEPT !.at = to, !.together = @ \cup AllInPlace]
  /\ UNCHANGED vars

ReadClaims ==
  Reads("idle", "claims",
        [look EXCEPT !.claims = {[op |-> o, file |-> Read(claim[o])] :
                                   o \in {p \in Ops : claim[p] # NoFile}}])

ReadJournal == Reads("claims", "journal", [look EXCEPT !.journal = journal])

ReadMarker == Reads("journal", "marker", [look EXCEPT !.marker = marker # NoFile])

ReadHarness == Reads("marker", "harness", [look EXCEPT !.harness = Read(harness)])

ReadClaim ==
  Reads("harness", "claim",
        [look EXCEPT !.claim = IF look.journal.claimed THEN Read(claim[look.journal.op])
                                                       ELSE NoFile])

ReadBackup ==
  Reads("claim", "backup",
        IF look.journal.phase = "none" THEN look
        ELSE LET b == BackupOf(look.journal)
             IN [look EXCEPT !.backup = Read(backup[b]), !.receipt = b \in receipt])

DInit == Init /\ look = NotLooked

DNext ==
  \/ /\ \/ \E o \in Ops : Manage(o)
        \/ Edit
        \/ OperatorRecovers /\ look.at \in {"idle", "backup"}
     /\ look' = IF look.at \in {"idle", "backup"} THEN NotLooked
                ELSE [look EXCEPT !.quiet = FALSE, !.together = @ \cup AllInPlace']
  \/ ReadClaims \/ ReadJournal \/ ReadMarker
  \/ ReadHarness \/ ReadClaim \/ ReadBackup

DSpec == DInit /\ [][DNext]_dvars

-----------------------------------------------------------------------------
(***************************************************************************)
(* "consistent" is never stitched together from instants that did not go   *)
(* together: at one instant of the diagnosis that operation's journal was  *)
(* complete, the harness had its bytes and the backup those to go back to. *)
(* (Not that no manager was at work: one that took the marker before the   *)
(* journal was read may have failed and gone before the marker is.)        *)
(***************************************************************************)
ConsistentWasTrue ==
  look.at = "backup" /\ Verdict(look) = "consistent"
    => look.journal.op \in look.together

(***************************************************************************)
(* Alone, a diagnosis tells the truth of what it finds.  A missing         *)
(* harness is never passed over; an interrupted claim is the file that has *)
(* the last bytes; and the success of the only operation that touched the  *)
(* harness is recognised.                                                  *)
(***************************************************************************)
AloneTellsTheTruth ==
  look.at = "backup" /\ look.quiet =>
    LET v == Verdict(look) j == look.journal IN
    /\ harness = NoFile => v \in {"interrupted", "indeterminate"}
    /\ v = "interrupted" => harness = NoFile /\ Holds(claim[j.op], latest)
    /\ /\ j.phase = "complete" /\ ~look.marker
       /\ Holds(harness, op[j.op].to)
       /\ \A o \in Ops : claim[o] # NoFile => o \in {j.op, BackupOf(j)}
       => v = "consistent"
=============================================================================
