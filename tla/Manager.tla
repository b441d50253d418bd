------------------------------- MODULE Manager -------------------------------
(***************************************************************************)
(* The package manager (src/manage.js): agy-buzz-manage processes, each    *)
(* one install or one rollback of the same harness configuration, beside   *)
(* editors that know nothing of the manager.                               *)
(*                                                                         *)
(* A file name maps to an inode and an inode to its bytes, because the     *)
(* manager publishes with link(), which never replaces a name, and takes   *)
(* the harness away with rename(), which keeps the inode: a claim and a    *)
(* backup are one file with two names.  Bytes are the part of the          *)
(* configuration others edit and the entry point the manager sets.         *)
(*                                                                         *)
(* An action is the code between two effects others can see.  The phases   *)
(* of install and rollback that claim and publish have one name here:      *)
(* "claiming" is claiming-harness and claiming-current-harness, and so on. *)
(***************************************************************************)
EXTENDS Integers, FiniteSets

CONSTANTS
  Ops,        \* the manager processes that may be started
  Versions,   \* the package versions an archive may hold
  MaxEdits,   \* edits of the harness by others
  NoFile      \* a name with no file behind it, a holder that is nobody

Original == 0        \* the inode of the first harness
Edits    == 1..MaxEdits
Inodes   == {Original} \cup Edits \cup Ops

ASSUME EditsAssumption  == MaxEdits \in Nat
ASSUME NamesAssumption  == /\ NoFile \notin Inodes
                           /\ Ops \cap ({Original} \cup Edits) = {}
ASSUME OldAssumption    == "old" \notin Versions

Entries == Versions \cup {"old"}
Bytes   == [cfg : -1..MaxEdits, entry : Entries]
Torn    == [cfg |-> -1, entry |-> "old"]     \* truncated, not yet written

VARIABLES
  harness,    \* the inode at the harness path, or NoFile
  claim,      \* the inode at each operation's claim path
  backup,     \* the inode at each install's backup path
  receipt,    \* the installs whose receipt is linked
  data,       \* the bytes of each inode
  versions,   \* the version directories published under the runtime root
  marker,     \* the operation whose <harness>.agy-lock exists
  journal,    \* <harness>.agy-journal.json
  op,         \* the manager processes
  editor,     \* the inode an editor has truncated and not yet written
  edits,      \* edits begun
  latest      \* history: the bytes last put at the harness path

vars == <<harness, claim, backup, receipt, data, versions, marker, journal,
          op, editor, edits, latest>>

Phases == {"none", "planned", "preparing", "staged", "claiming", "claimed",
           "publishing", "published", "complete", "failed"}

NoJournal == [op |-> NoFile, phase |-> "none", claimed |-> FALSE]

(***************************************************************************)
(* A process.  from and to are the bytes its plan read and those it wants; *)
(* of is the install a rollback undoes.                                    *)
(***************************************************************************)
NotStarted == [at |-> "idle", kind |-> "install", version |-> "old", of |-> NoFile,
               from |-> Torn, to |-> Torn]

Places == {"idle", "plan", "locked", "started", "prepared", "versioned", "staged",
           "claiming", "claimed", "checked", "publishing", "backed", "receipted",
           "linked", "published", "restoring", "failing", "ending", "releasing",
           "applied", "refused", "dead"}

Running(o) == op[o].at \notin {"idle", "applied", "refused", "dead"}
Applied(o) == op[o].at \in {"ending", "applied"}

Files   == <<harness, claim, backup, receipt, data, versions>>
Outside == <<editor, edits, latest>>

Goes(o, at) == op' = [op EXCEPT ![o].at = at]

\* advanceManagerJournal: written to a temporary file and renamed over the old one
Advance(o, phase, claimed) ==
  journal' = [op |-> o, phase |-> phase, claimed |-> claimed]

Holds(inode, bytes) == inode # NoFile /\ data[inode] = bytes

Init ==
  /\ harness = Original
  /\ claim = [o \in Ops |-> NoFile]
  /\ backup = [o \in Ops |-> NoFile]
  /\ receipt = {}
  /\ data = [i \in Inodes |-> IF i = Original THEN [cfg |-> 0, entry |-> "old"] ELSE Torn]
  /\ versions = {}
  /\ marker = NoFile
  /\ journal = NoJournal
  /\ op = [o \in Ops |-> NotStarted]
  /\ editor = NoFile
  /\ edits = 0
  /\ latest = [cfg |-> 0, entry |-> "old"]

-----------------------------------------------------------------------------
(***************************************************************************)
(* Planning, without the marker.                                           *)
(***************************************************************************)
PlanInstall(o, v) ==
  /\ op[o].at = "idle"
  /\ harness # NoFile /\ data[harness] # Torn
  /\ op' = [op EXCEPT ![o] =
              [at |-> "plan", kind |-> "install", version |-> v, of |-> NoFile,
               from |-> data[harness], to |-> [data[harness] EXCEPT !.entry = v]]]
  /\ UNCHANGED <<Files, marker, journal, Outside>>

\* What planRollback demands of the backup, its receipt and the harness.
CanRollBack(b) ==
  /\ b \in receipt
  /\ Holds(backup[b], op[b].from)
  /\ Holds(harness, op[b].to)
  /\ op[b].from.entry # op[b].to.entry
  /\ {op[b].from.entry, op[b].to.entry} \subseteq versions \cup {"old"}

PlanRollback(o, b) ==
  /\ op[o].at = "idle"
  /\ CanRollBack(b)
  /\ op' = [op EXCEPT ![o] =
              [at |-> "plan", kind |-> "rollback", version |-> "old", of |-> b,
               from |-> op[b].to, to |-> op[b].from]]
  /\ UNCHANGED <<Files, marker, journal, Outside>>

(***************************************************************************)
(* The marker is a file: the end of its holder does not remove it.         *)
(***************************************************************************)
TakeMarker(o) ==
  /\ op[o].at = "plan"
  /\ IF marker = NoFile
     THEN marker' = o /\ Goes(o, "locked")
     ELSE UNCHANGED marker /\ Goes(o, "refused")
  /\ UNCHANGED <<Files, journal, Outside>>

StartJournal(o) ==
  /\ op[o].at = "locked"
  /\ IF journal.phase \in {"none", "complete"}
     THEN Advance(o, "planned", FALSE) /\ Goes(o, "started")
     ELSE UNCHANGED journal /\ Goes(o, "releasing")
  /\ UNCHANGED <<Files, marker, Outside>>

-----------------------------------------------------------------------------
(***************************************************************************)
(* Install: the version is extracted beside its destination and renamed.   *)
(***************************************************************************)
PrepareVersion(o) ==
  /\ op[o].at = "started" /\ op[o].kind = "install"
  /\ IF Holds(harness, op[o].from) /\ op[o].version \notin versions
     THEN Advance(o, "preparing", FALSE) /\ Goes(o, "prepared")
     ELSE UNCHANGED journal /\ Goes(o, "failing")
  /\ UNCHANGED <<Files, marker, Outside>>

PublishVersion(o) ==
  /\ op[o].at = "prepared"
  /\ IF op[o].version \in versions
     THEN UNCHANGED versions /\ Goes(o, "failing")
     ELSE versions' = versions \cup {op[o].version} /\ Goes(o, "versioned")
  /\ UNCHANGED <<harness, claim, backup, receipt, data, marker, journal, Outside>>

\* Stages the wanted bytes in a directory of its own: install after a second look
\* at the harness, rollback after planning again under the marker.
StageHarness(o) ==
  /\ \/ op[o].at = "versioned"
     \/ op[o].at = "started" /\ op[o].kind = "rollback"
  /\ IF IF op[o].kind = "install" THEN Holds(harness, op[o].from) ELSE CanRollBack(op[o].of)
     THEN /\ data' = [data EXCEPT ![o] = op[o].to]
          /\ Advance(o, "staged", FALSE)
          /\ Goes(o, "staged")
     ELSE UNCHANGED <<data, journal>> /\ Goes(o, "failing")
  /\ UNCHANGED <<harness, claim, backup, receipt, versions, marker, Outside>>

-----------------------------------------------------------------------------
(***************************************************************************)
(* The claim: recorded before the harness is moved, checked after.         *)
(***************************************************************************)
\* Mutant: the journal does not name the claim it announces
AnnounceClaimUnnamed(o) ==
  /\ op[o].at = "staged"
  /\ Advance(o, "claiming", FALSE)
  /\ Goes(o, "claiming")
  /\ UNCHANGED <<Files, marker, Outside>>

AnnounceClaim(o) ==
  /\ op[o].at = "staged"
  /\ Advance(o, "claiming", TRUE)
  /\ Goes(o, "claiming")
  /\ UNCHANGED <<Files, marker, Outside>>

ClaimHarness(o) ==
  /\ op[o].at = "claiming"
  /\ harness # NoFile
  /\ claim' = [claim EXCEPT ![o] = harness]
  /\ harness' = NoFile
  /\ Goes(o, "claimed")
  /\ UNCHANGED <<backup, receipt, data, versions, marker, journal, Outside>>

\* Mutant: the claimed bytes are not compared with the plan
CheckClaimUnread(o) ==
  /\ op[o].at = "claimed"
  /\ Advance(o, "claimed", TRUE)
  /\ Goes(o, "checked")
  /\ UNCHANGED <<Files, marker, Outside>>

CheckClaim(o) ==
  /\ op[o].at = "claimed"
  /\ IF Holds(claim[o], op[o].from)
     THEN Advance(o, "claimed", TRUE) /\ Goes(o, "checked")
     ELSE UNCHANGED journal /\ Goes(o, "restoring")
  /\ UNCHANGED <<Files, marker, Outside>>

\* Mutant: install publishes without a backup, as rollback does
AnnouncePublishBare(o) ==
  /\ op[o].at = "checked"
  /\ Advance(o, "publishing", TRUE)
  /\ Goes(o, "receipted")
  /\ UNCHANGED <<Files, marker, Outside>>

AnnouncePublish(o) ==
  /\ op[o].at = "checked"
  /\ Advance(o, "publishing", TRUE)
  /\ Goes(o, IF op[o].kind = "install" THEN "publishing" ELSE "receipted")
  /\ UNCHANGED <<Files, marker, Outside>>

LinkBackup(o) ==
  /\ op[o].at = "publishing"
  /\ backup' = [backup EXCEPT ![o] = claim[o]]
  /\ Goes(o, "backed")
  /\ UNCHANGED <<harness, claim, receipt, data, versions, marker, journal, Outside>>

LinkReceipt(o) ==
  /\ op[o].at = "backed"
  /\ receipt' = receipt \cup {o}
  /\ Goes(o, "receipted")
  /\ UNCHANGED <<harness, claim, backup, data, versions, marker, journal, Outside>>

\* link() fails when the name is taken
LinkHarness(o) ==
  /\ op[o].at = "receipted"
  /\ IF harness = NoFile
     THEN harness' = o /\ latest' = op[o].to /\ Goes(o, "linked")
     ELSE UNCHANGED <<harness, latest>> /\ Goes(o, "restoring")
  /\ UNCHANGED <<claim, backup, receipt, data, versions, marker, journal, editor, edits>>

RecordPublished(o) ==
  /\ op[o].at = "linked"
  /\ Advance(o, "published", TRUE)
  /\ Goes(o, "published")
  /\ UNCHANGED <<Files, marker, Outside>>

Complete(o) ==
  /\ op[o].at = "published"
  /\ Advance(o, "complete", TRUE)
  /\ Goes(o, "ending")
  /\ UNCHANGED <<Files, marker, Outside>>

-----------------------------------------------------------------------------
(***************************************************************************)
(* Failure: any effect may throw.  The claim goes back where the code      *)
(* tries that (restoreClaimIfAbsent), if the name is free and this second  *)
(* link works too; the journal, once started, records the failure if it    *)
(* can.                                                                    *)
(***************************************************************************)
Throws(o) ==
  /\ \/ op[o].at = "locked" /\ Goes(o, "releasing")
     \/ op[o].at \in {"publishing", "backed", "receipted"} /\ Goes(o, "restoring")
     \/ /\ op[o].at \in {"started", "prepared", "versioned", "staged", "claiming",
                          "claimed", "checked", "linked", "published"}
        /\ Goes(o, "failing")
  /\ UNCHANGED <<Files, marker, journal, Outside>>

RestoreClaim(o) ==
  /\ op[o].at = "restoring"
  /\ harness' \in IF harness = NoFile THEN {claim[o], NoFile} ELSE {harness}
  /\ Goes(o, "failing")
  /\ UNCHANGED <<claim, backup, receipt, data, versions, marker, journal, Outside>>

\* Mutant: the failure is recorded under a name the journal does not know
MarkFailureUnknown(o) ==
  /\ op[o].at = "failing"
  /\ Advance(o, "refused", journal.claimed)
  /\ Goes(o, "releasing")
  /\ UNCHANGED <<Files, marker, Outside>>

MarkFailure(o) ==
  /\ op[o].at = "failing"
  /\ \/ Advance(o, "failed", journal.claimed)
     \/ UNCHANGED journal
  /\ Goes(o, "releasing")
  /\ UNCHANGED <<Files, marker, Outside>>

Release(o) ==
  /\ op[o].at \in {"ending", "releasing"}
  /\ marker' = NoFile
  /\ Goes(o, IF op[o].at = "ending" THEN "applied" ELSE "refused")
  /\ UNCHANGED <<Files, journal, Outside>>

Crash(o) ==
  /\ Running(o)
  /\ Goes(o, "dead")
  /\ UNCHANGED <<Files, marker, journal, Outside>>

-----------------------------------------------------------------------------
(***************************************************************************)
(* The others.  An editor replaces the file (or creates it where it finds  *)
(* none), or truncates it and then writes what it has open.  An operator   *)
(* with the harness to himself sets the evidence of a failure aside, as    *)
(* docs/MANAGER_RECOVERY.md asks, and puts a claimed harness back.         *)
(***************************************************************************)
Edited(n) == [cfg |-> n, entry |-> IF harness = NoFile THEN "old" ELSE data[harness].entry]

EditByReplacing ==
  /\ edits < MaxEdits /\ editor = NoFile
  /\ edits' = edits + 1
  /\ data' = [data EXCEPT ![edits + 1] = Edited(edits + 1)]
  /\ harness' = edits + 1
  /\ latest' = Edited(edits + 1)
  /\ UNCHANGED <<claim, backup, receipt, versions, marker, journal, op, editor>>

TruncateToEdit ==
  /\ edits < MaxEdits /\ editor = NoFile /\ harness # NoFile
  /\ edits' = edits + 1
  /\ editor' = harness
  /\ data' = [data EXCEPT ![harness] = Torn]
  /\ latest' = Torn
  /\ UNCHANGED <<harness, claim, backup, receipt, versions, marker, journal, op>>

WriteEdit ==
  /\ editor # NoFile
  /\ data' = [data EXCEPT ![editor] = [cfg |-> edits, entry |-> "old"]]
  /\ latest' = [cfg |-> edits, entry |-> "old"]
  /\ editor' = NoFile
  /\ UNCHANGED <<harness, claim, backup, receipt, versions, marker, journal, op, edits>>

OperatorRecovers ==
  /\ \A o \in Ops : ~Running(o)
  /\ editor = NoFile
  /\ journal.phase \notin {"none", "complete"} \/ marker # NoFile
  /\ marker' = NoFile
  /\ journal' = IF journal.phase = "complete" THEN journal ELSE NoJournal
  /\ harness' = IF harness = NoFile /\ journal.claimed THEN claim[journal.op] ELSE harness
  /\ UNCHANGED <<claim, backup, receipt, data, versions, op, Outside>>

Manage(o) ==
  \/ \E v \in Versions : PlanInstall(o, v)
  \/ \E b \in Ops : PlanRollback(o, b)
  \/ TakeMarker(o) \/ StartJournal(o)
  \/ PrepareVersion(o) \/ PublishVersion(o) \/ StageHarness(o)
  \/ AnnounceClaim(o) \/ ClaimHarness(o) \/ CheckClaim(o)
  \/ AnnouncePublish(o) \/ LinkBackup(o) \/ LinkReceipt(o) \/ LinkHarness(o)
  \/ RecordPublished(o) \/ Complete(o)
  \/ Throws(o) \/ RestoreClaim(o) \/ MarkFailure(o) \/ Release(o) \/ Crash(o)

Edit == EditByReplacing \/ TruncateToEdit \/ WriteEdit

Next == (\E o \in Ops : Manage(o)) \/ Edit \/ OperatorRecovers

Spec == Init /\ [][Next]_vars

-----------------------------------------------------------------------------
FileOrNone == Inodes \cup {NoFile}

TypeOK ==
  /\ harness \in FileOrNone
  /\ claim \in [Ops -> FileOrNone]
  /\ backup \in [Ops -> FileOrNone]
  /\ receipt \subseteq Ops
  /\ data \in [Inodes -> Bytes]
  /\ versions \subseteq Versions
  /\ marker \in Ops \cup {NoFile}
  /\ journal \in [op : Ops \cup {NoFile}, phase : Phases, claimed : BOOLEAN]
  /\ op \in [Ops -> [at : Places, kind : {"install", "rollback"}, version : Entries,
                      of : Ops \cup {NoFile}, from : Bytes, to : Bytes]]
  /\ editor \in FileOrNone
  /\ edits \in 0..MaxEdits
  /\ latest \in Bytes

(***************************************************************************)
(* The bytes last put at the harness path are never lost, and never        *)
(* replaced by what nobody put there: they are at that path, or, while it  *)
(* is missing, in the claim the journal names, whatever failed or died and *)
(* whatever an editor did in between.                                      *)
(***************************************************************************)
NothingLost ==
  IF harness # NoFile THEN Holds(harness, latest)
  ELSE journal.claimed /\ Holds(claim[journal.op], latest)

(***************************************************************************)
(* An install that reported success can be taken back: the version it      *)
(* starts is on disk, and its backup still has the exact bytes it replaced *)
(* under its receipt, whatever other operations and edits came after.      *)
(***************************************************************************)
Reversible ==
  \A o \in Ops : Applied(o) /\ op[o].kind = "install" =>
    /\ o \in receipt /\ Holds(backup[o], op[o].from)
    /\ op[o].version \in versions

(***************************************************************************)
(* No lost update: an operation publishes over exactly the bytes it was    *)
(* planned from, so an edit made since then is never undone.               *)
(***************************************************************************)
PublishesOverItsPlan ==
  [][\A o \in Ops : harness' = o /\ harness # o /\ op[o].at = "receipted"
        => latest = op[o].from]_vars
=============================================================================
