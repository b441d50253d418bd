---------------------------- MODULE ManagerProofs ----------------------------
(* Proofs about the package manager, for any processes, versions and edits. *)
EXTENDS Manager, TLAPS

(***************************************************************************)
(* The inductive invariant.  Its parts, for one operation:                 *)
(*   MarkerInv   one that is at work holds the marker, so it works alone;  *)
(*   JournalInv  once it has started, the journal is its own;              *)
(*   PlanInv     it was not planned from, or for, a truncated harness;     *)
(*   StageInv    its inode is in nobody's hands until it is published;     *)
(*   CheckInv    while the harness is missing, what it checked is still    *)
(*               in its claim, and no editor has that file open;           *)
(* and for the harness:                                                    *)
(*   HarnessInv  NothingLost, and the journal is not taken for complete    *)
(*               while the harness is missing;                             *)
(*   EditorInv   an editor writes to the file others read.                 *)
(***************************************************************************)
Started  == {"started", "prepared", "versioned", "staged", "claiming", "claimed", "checked",
             "publishing", "backed", "receipted", "linked", "published", "restoring", "failing"}
Critical == Started \cup {"locked", "ending", "releasing"}
Unstaged == {"idle", "plan", "locked", "started", "prepared", "versioned"}
Staged   == {"staged", "claiming", "claimed", "checked", "publishing", "backed", "receipted"}
Checked  == {"checked", "publishing", "backed", "receipted"}
Claimed  == Checked \cup {"claiming", "claimed", "linked", "published", "restoring"}

MarkerInv(o) == op[o].at \in Critical => marker = o

JournalInv(o) ==
  op[o].at \in Started =>
    /\ journal.op = o /\ journal.phase \notin {"none", "complete"}
    /\ op[o].at \in Claimed => journal.claimed
    /\ op[o].at \in {"linked", "published"} => harness # NoFile

PlanInv(o) ==
  IF op[o].at = "idle" THEN op[o] = NotStarted
  ELSE /\ op[o].from # Torn /\ op[o].to # Torn
       /\ op[o].kind = "install" => op[o].version \in Versions
       /\ op[o].at = "prepared" => op[o].kind = "install"

StageInv(o) ==
  /\ op[o].at \in Unstaged \cup Staged =>
       harness # o /\ editor # o /\ \A p \in Ops : claim[p] # o
  /\ op[o].at \in Staged => data[o] = op[o].to

CheckInv(o) ==
  op[o].at \in Checked /\ harness = NoFile => Holds(claim[o], op[o].from) /\ editor # claim[o]

HarnessInv ==
  IF harness # NoFile THEN Holds(harness, latest)
  ELSE /\ journal.op \in Ops /\ journal.claimed /\ journal.phase \notin {"none", "complete"}
       /\ Holds(claim[journal.op], latest)

EditorInv ==
  editor # NoFile =>
    /\ data[editor] = Torn
    /\ editor = IF harness # NoFile THEN harness ELSE claim[journal.op]

OpInv(o) ==
  MarkerInv(o) /\ JournalInv(o) /\ PlanInv(o) /\ StageInv(o) /\ CheckInv(o)

IInv == TypeOK /\ HarnessInv /\ EditorInv /\ \A o \in Ops : OpInv(o)

-----------------------------------------------------------------------------
(***************************************************************************)
(* The constants keep inodes, processes and names apart.                   *)
(***************************************************************************)
LEMMA Names ==
  /\ NoFile \notin Inodes /\ NoFile \notin Ops
  /\ Ops \subseteq Inodes /\ Original \in Inodes /\ Edits \subseteq Inodes
  /\ Original \notin Ops /\ \A n \in Edits : n \notin Ops
  /\ NotStarted.from = Torn /\ NotStarted.to = Torn /\ NotStarted.at = "idle"
  /\ Torn \in Bytes
  BY NamesAssumption, EditsAssumption, OldAssumption
     DEF Inodes, Edits, Original, NotStarted, Torn, Bytes, Entries

OpType == [at : Places, kind : {"install", "rollback"}, version : Entries,
           of : Ops \cup {NoFile}, from : Bytes, to : Bytes]

JournalType == [op : Ops \cup {NoFile}, phase : Phases, claimed : BOOLEAN]

LEMMA GoesType ==
  ASSUME op \in [Ops -> OpType], NEW o \in Ops, NEW at \in Places, Goes(o, at)
  PROVE  op' \in [Ops -> OpType]
<1>1. [op[o] EXCEPT !.at = at] \in OpType
  BY DEF OpType
<1>2. QED
  BY <1>1 DEF Goes

LEMMA AdvanceType ==
  ASSUME NEW o \in Ops, NEW phase \in Phases, NEW claimed \in BOOLEAN,
         Advance(o, phase, claimed)
  PROVE  journal' \in JournalType
  BY DEF JournalType, Advance

(***************************************************************************)
(* Every variable keeps its type.                                          *)
(***************************************************************************)
LEMMA TypeStep == IInv /\ [Next]_vars => TypeOK'
<1>1. SUFFICES ASSUME IInv, [Next]_vars PROVE TypeOK'
  OBVIOUS
<1>0. TypeOK /\ HarnessInv /\ \A o \in Ops : PlanInv(o)
  BY <1>1 DEF IInv, OpInv
<1>t. op \in [Ops -> OpType] /\ journal \in JournalType
  BY <1>0 DEF TypeOK, OpType, JournalType
<1>2. ASSUME NEW o \in Ops, Manage(o) PROVE TypeOK'
  <2> USE Names, <1>0, <1>t, GoesType, AdvanceType DEF FileOrNone, Places, Files, Outside, Phases
  <2>1. ASSUME NEW v \in Versions, PlanInstall(o, v) PROVE TypeOK'
    BY <2>1 DEF PlanInstall, TypeOK, Bytes, Entries
  <2>2. ASSUME NEW b \in Ops, PlanRollback(o, b) PROVE TypeOK'
    BY <2>2 DEF PlanRollback, TypeOK, Bytes, Entries
  <2>3. CASE TakeMarker(o) BY <2>3 DEF TakeMarker, TypeOK, OpType, JournalType
  <2>4. CASE StartJournal(o) BY <2>4 DEF StartJournal, TypeOK, OpType, JournalType
  <2>5. CASE PrepareVersion(o) BY <2>5 DEF PrepareVersion, TypeOK, OpType, JournalType
  <2>6. CASE PublishVersion(o) BY <2>6 DEF PublishVersion, TypeOK, OpType, JournalType, PlanInv
  <2>7. CASE StageHarness(o) BY <2>7 DEF StageHarness, TypeOK, OpType, JournalType
  <2>8. CASE AnnounceClaim(o) BY <2>8 DEF AnnounceClaim, TypeOK, OpType, JournalType
  <2>9. CASE ClaimHarness(o) BY <2>9 DEF ClaimHarness, TypeOK, OpType, JournalType
  <2>10. CASE CheckClaim(o) BY <2>10 DEF CheckClaim, TypeOK, OpType, JournalType
  <2>11. CASE AnnouncePublish(o) BY <2>11 DEF AnnouncePublish, TypeOK, OpType, JournalType
  <2>12. CASE LinkBackup(o) BY <2>12 DEF LinkBackup, TypeOK, OpType, JournalType
  <2>13. CASE LinkReceipt(o) BY <2>13 DEF LinkReceipt, TypeOK, OpType, JournalType
  <2>14. CASE LinkHarness(o) BY <2>14 DEF LinkHarness, TypeOK, OpType, JournalType
  <2>15. CASE RecordPublished(o) BY <2>15 DEF RecordPublished, TypeOK, OpType, JournalType
  <2>16. CASE Complete(o) BY <2>16 DEF Complete, TypeOK, OpType, JournalType
  <2>17. CASE Throws(o) BY <2>17 DEF Throws, TypeOK, OpType, JournalType
  <2>18. CASE RestoreClaim(o) BY <2>18 DEF RestoreClaim, TypeOK, OpType, JournalType
  <2>19. CASE MarkFailure(o) BY <2>19 DEF MarkFailure, TypeOK, OpType, JournalType
  <2>20. CASE Release(o) BY <2>20 DEF Release, TypeOK, OpType, JournalType
  <2>21. CASE Crash(o) BY <2>21 DEF Crash, TypeOK, OpType, JournalType
  <2>22. QED
    BY <1>2, <2>1, <2>2, <2>3, <2>4, <2>5, <2>6, <2>7, <2>8, <2>9, <2>10, <2>11, <2>12,
       <2>13, <2>14, <2>15, <2>16, <2>17, <2>18, <2>19, <2>20, <2>21 DEF Manage
<1>3. CASE Edit
  <2>1. CASE EditByReplacing
    <3>1. edits + 1 \in 1..MaxEdits /\ edits + 1 \in Inodes
      BY <1>0, <2>1, EditsAssumption DEF EditByReplacing, TypeOK, Edits, Inodes
    <3>2. Edited(edits + 1).entry \in Entries
      BY <1>0, EditsAssumption DEF Edited, TypeOK, Bytes, Entries, FileOrNone
    <3>3. Edited(edits + 1) \in Bytes
      BY <3>1, <3>2, EditsAssumption DEF Edited, Bytes
    <3>4. QED BY <1>0, <2>1, <3>1, <3>3, EditsAssumption DEF EditByReplacing, TypeOK, FileOrNone
  <2>2. CASE TruncateToEdit BY <1>0, Names, <2>2, EditsAssumption DEF TruncateToEdit, TypeOK, FileOrNone
  <2>3. CASE WriteEdit BY <1>0, Names, <2>3, EditsAssumption DEF WriteEdit, TypeOK, Bytes, Entries, FileOrNone
  <2>4. QED BY <1>3, <2>1, <2>2, <2>3 DEF Edit
<1>4. CASE OperatorRecovers
  BY <1>0, <1>4, Names
     DEF OperatorRecovers, TypeOK, HarnessInv, NoJournal, Phases, FileOrNone, Outside
<1>5. CASE UNCHANGED vars
  BY <1>0, <1>5 DEF vars, TypeOK
<1>6. QED
  BY <1>1, <1>2, <1>3, <1>4, <1>5 DEF Next

(***************************************************************************)
(* An operation at work is alone: only it holds the marker.                *)
(***************************************************************************)
LEMMA Alone ==
  ASSUME IInv, NEW o \in Ops, op[o].at \in Critical, NEW q \in Ops, q # o
  PROVE  op[q].at \notin Critical
  BY DEF IInv, OpInv, MarkerInv

(***************************************************************************)
(* What it does to the files, the marker and the journal leaves what is    *)
(* known of the others as it was.                                          *)
(***************************************************************************)
LEMMA Others ==
  ASSUME IInv, NEW o \in Ops, op[o].at \in Critical, NEW q \in Ops, q # o,
         op'[q] = op[q], editor' = editor,
         harness' \in {harness, o, NoFile, claim[o]},
         \A p \in Ops : claim'[p] \in {claim[p], harness}
  PROVE  OpInv(q)'
<1>1. op[q].at \notin Critical
  BY Alone
<1>2. op[q].at \notin Started /\ op[q].at \notin Staged /\ op[q].at \notin Checked
  BY <1>1 DEF Critical, Started, Staged, Checked
<1>3. PlanInv(q) /\ StageInv(q)
  BY DEF IInv, OpInv
<1>4. MarkerInv(q)' /\ JournalInv(q)' /\ PlanInv(q)' /\ CheckInv(q)'
  BY <1>1, <1>2, <1>3 DEF MarkerInv, JournalInv, PlanInv, CheckInv
<1>5. StageInv(q)'
  BY <1>2, <1>3, Names DEF StageInv
<1>6. QED
  BY <1>4, <1>5 DEF OpInv

LEMMA Idler ==
  ASSUME IInv, NEW q \in Ops, op'[q] = op[q], UNCHANGED <<Files, marker, journal, Outside>>
  PROVE  OpInv(q)'
  BY DEF IInv, OpInv, MarkerInv, JournalInv, PlanInv, StageInv, CheckInv, Holds, Files,
         Outside

(***************************************************************************)
(* Every step of an operation keeps the invariant.                         *)
(***************************************************************************)
LEMMA ManageStep ==
  ASSUME IInv, TypeOK', NEW o \in Ops, Manage(o)
  PROVE  IInv'
<1>0. TypeOK /\ HarnessInv /\ EditorInv /\ \A q \in Ops : OpInv(q)
  BY DEF IInv
<1>n. NoFile \notin Ops /\ op \in [Ops -> OpType] /\ DOMAIN op = Ops
  BY <1>0, Names DEF TypeOK, OpType
<1> USE <1>0, <1>n, Names
    DEF Goes, Files, Outside, Holds, JournalInv, StageInv, CheckInv,
        Started, Critical, Claimed, Unstaged, Staged, Checked
<1>1. CASE StartJournal(o)
  <2>1. op[o].at \in Critical
    BY <1>1 DEF StartJournal
  <2>2. \A q \in Ops : q # o => OpInv(q)'
    BY <1>1, <2>1, Others DEF StartJournal, Advance, TypeOK
  <2>3. HarnessInv'
    BY <1>1 DEF StartJournal, Advance, HarnessInv, OpInv, TypeOK
  <2>4. EditorInv'
    BY <1>1 DEF StartJournal, Advance, HarnessInv, EditorInv, OpInv, TypeOK
  <2>5. OpInv(o)'
    BY <1>1 DEF StartJournal, Advance, HarnessInv, EditorInv, OpInv, MarkerInv, PlanInv, TypeOK
  <2>6. QED BY <2>2, <2>3, <2>4, <2>5 DEF IInv
<1>2. CASE PrepareVersion(o)
  <2>1. op[o].at \in Critical
    BY <1>2 DEF PrepareVersion
  <2>2. \A q \in Ops : q # o => OpInv(q)'
    BY <1>2, <2>1, Others DEF PrepareVersion, Advance, TypeOK
  <2>3. HarnessInv'
    BY <1>2 DEF PrepareVersion, Advance, HarnessInv, OpInv, TypeOK
  <2>4. EditorInv'
    BY <1>2 DEF PrepareVersion, Advance, HarnessInv, EditorInv, OpInv, TypeOK
  <2>5. OpInv(o)'
    <3>1. (MarkerInv(o) /\ JournalInv(o) /\ PlanInv(o))'
      BY <1>2 DEF PrepareVersion, Advance, HarnessInv, EditorInv, OpInv, MarkerInv, PlanInv, TypeOK
    <3>2. (StageInv(o) /\ CheckInv(o))'
      BY <1>2 DEF PrepareVersion, Advance, HarnessInv, EditorInv, OpInv, MarkerInv, PlanInv, TypeOK
    <3>3. QED BY <3>1, <3>2 DEF OpInv
  <2>6. QED BY <2>2, <2>3, <2>4, <2>5 DEF IInv
<1>3. CASE PublishVersion(o)
  <2>1. op[o].at \in Critical
    BY <1>3 DEF PublishVersion
  <2>2. \A q \in Ops : q # o => OpInv(q)'
    BY <1>3, <2>1, Others DEF PublishVersion, Advance, TypeOK
  <2>3. HarnessInv'
    BY <1>3 DEF PublishVersion, Advance, HarnessInv, OpInv, TypeOK
  <2>4. EditorInv'
    BY <1>3 DEF PublishVersion, Advance, HarnessInv, EditorInv, OpInv, TypeOK
  <2>5. OpInv(o)'
    BY <1>3 DEF PublishVersion, Advance, HarnessInv, EditorInv, OpInv, MarkerInv, PlanInv, TypeOK
  <2>6. QED BY <2>2, <2>3, <2>4, <2>5 DEF IInv
<1>4. CASE StageHarness(o)
  <2>1. op[o].at \in Critical
    BY <1>4 DEF StageHarness
  <2>2. \/ UNCHANGED <<data, journal>>
        \/ harness # NoFile /\ harness # o /\ editor # o /\ data' = [data EXCEPT ![o] = op[o].to]
    BY <1>4 DEF StageHarness, CanRollBack, OpInv
  <2>3. UNCHANGED <<harness, claim, editor, latest>>
    BY <1>4 DEF StageHarness
  <2>4. \A q \in Ops : q # o => OpInv(q)'
    BY <1>4, <2>1, Others DEF StageHarness, Advance, TypeOK
  <2>5. HarnessInv'
    <3>1. CASE UNCHANGED <<data, journal>>
      BY <2>3, <3>1 DEF HarnessInv
    <3>2. CASE harness # NoFile /\ harness # o /\ data' = [data EXCEPT ![o] = op[o].to]
      BY <2>3, <3>2 DEF HarnessInv, TypeOK, FileOrNone
    <3>3. QED BY <2>2, <3>1, <3>2
  <2>6. EditorInv'
    <3>1. CASE UNCHANGED <<data, journal>>
      BY <2>3, <3>1 DEF EditorInv
    <3>2. CASE harness # NoFile /\ editor # o /\ data' = [data EXCEPT ![o] = op[o].to]
      BY <2>3, <3>2 DEF EditorInv, TypeOK, FileOrNone
    <3>3. QED BY <2>2, <3>1, <3>2
  <2>7. OpInv(o)'
    BY <1>4 DEF StageHarness, Advance, HarnessInv, EditorInv, OpInv, MarkerInv, PlanInv, TypeOK
  <2>8. QED BY <2>4, <2>5, <2>6, <2>7 DEF IInv
<1>5. CASE AnnounceClaim(o)
  <2>1. op[o].at \in Critical
    BY <1>5 DEF AnnounceClaim
  <2>2. \A q \in Ops : q # o => OpInv(q)'
    BY <1>5, <2>1, Others DEF AnnounceClaim, Advance, TypeOK
  <2>3. HarnessInv'
    BY <1>5 DEF AnnounceClaim, Advance, HarnessInv, OpInv, TypeOK
  <2>4. EditorInv'
    BY <1>5 DEF AnnounceClaim, Advance, HarnessInv, EditorInv, OpInv, TypeOK
  <2>5. OpInv(o)'
    BY <1>5 DEF AnnounceClaim, Advance, HarnessInv, EditorInv, OpInv, MarkerInv, PlanInv, TypeOK
  <2>6. QED BY <2>2, <2>3, <2>4, <2>5 DEF IInv
<1>6. CASE ClaimHarness(o)
  <2>1. op[o].at \in Critical
    BY <1>6 DEF ClaimHarness
  <2>2. \A q \in Ops : q # o => OpInv(q)'
    BY <1>6, <2>1, Others DEF ClaimHarness, Advance, TypeOK
  <2>3. HarnessInv'
    BY <1>6 DEF ClaimHarness, Advance, HarnessInv, OpInv, TypeOK
  <2>4. EditorInv'
    BY <1>6 DEF ClaimHarness, Advance, HarnessInv, EditorInv, OpInv, TypeOK
  <2>5. OpInv(o)'
    BY <1>6 DEF ClaimHarness, Advance, HarnessInv, EditorInv, OpInv, MarkerInv, PlanInv, TypeOK
  <2>6. QED BY <2>2, <2>3, <2>4, <2>5 DEF IInv
<1>7. CASE CheckClaim(o)
  <2>1. op[o].at \in Critical
    BY <1>7 DEF CheckClaim
  <2>2. ASSUME Holds(claim[o], op[o].from) PROVE OpInv(o)'
    <3>1. Advance(o, "claimed", TRUE) /\ Goes(o, "checked")
      BY <1>7, <2>2 DEF CheckClaim
    <3>2. op[o].at = "claimed" /\ UNCHANGED <<Files, marker, Outside>>
      BY <1>7 DEF CheckClaim
    <3>3. op[o].from # Torn /\ editor # claim[o]
      BY <2>2, <3>2 DEF OpInv, PlanInv, EditorInv
    <3>4. MarkerInv(o)' /\ PlanInv(o)' /\ StageInv(o)' /\ CheckInv(o)'
      BY <2>2, <3>1, <3>2, <3>3 DEF OpInv, MarkerInv, PlanInv
    <3>5. JournalInv(o)'
      BY <3>1, <3>2 DEF Advance
    <3>6. QED
      BY <3>4, <3>5 DEF OpInv
  <2>3. ASSUME ~Holds(claim[o], op[o].from) PROVE OpInv(o)'
    <3>1. UNCHANGED journal /\ Goes(o, "restoring")
      BY <1>7, <2>3 DEF CheckClaim
    <3>2. QED
      BY <1>7, <3>1 DEF CheckClaim, OpInv, MarkerInv, PlanInv, TypeOK
  <2>4. \A q \in Ops : q # o => OpInv(q)'
    BY <1>7, <2>1, Others DEF CheckClaim, Advance, TypeOK
  <2>5. HarnessInv'
    BY <1>7 DEF CheckClaim, Advance, HarnessInv, OpInv, TypeOK
  <2>6. EditorInv'
    BY <1>7 DEF CheckClaim, Advance, HarnessInv, EditorInv, OpInv, TypeOK
  <2>7. OpInv(o)'
    BY <2>2, <2>3
  <2>8. QED BY <2>4, <2>5, <2>6, <2>7 DEF IInv
<1>8. CASE AnnouncePublish(o)
  <2>1. op[o].at \in Critical
    BY <1>8 DEF AnnouncePublish
  <2>2. \A q \in Ops : q # o => OpInv(q)'
    BY <1>8, <2>1, Others DEF AnnouncePublish, Advance, TypeOK
  <2>3. HarnessInv'
    BY <1>8 DEF AnnouncePublish, Advance, HarnessInv, OpInv, TypeOK
  <2>4. EditorInv'
    BY <1>8 DEF AnnouncePublish, Advance, HarnessInv, EditorInv, OpInv, TypeOK
  <2>5. OpInv(o)'
    BY <1>8 DEF AnnouncePublish, Advance, HarnessInv, EditorInv, OpInv, MarkerInv, PlanInv, TypeOK
  <2>6. QED BY <2>2, <2>3, <2>4, <2>5 DEF IInv
<1>9. CASE LinkBackup(o)
  <2>1. op[o].at \in Critical
    BY <1>9 DEF LinkBackup
  <2>2. \A q \in Ops : q # o => OpInv(q)'
    BY <1>9, <2>1, Others DEF LinkBackup, Advance, TypeOK
  <2>3. HarnessInv'
    BY <1>9 DEF LinkBackup, Advance, HarnessInv, OpInv, TypeOK
  <2>4. EditorInv'
    BY <1>9 DEF LinkBackup, Advance, HarnessInv, EditorInv, OpInv, TypeOK
  <2>5. OpInv(o)'
    BY <1>9 DEF LinkBackup, Advance, HarnessInv, EditorInv, OpInv, MarkerInv, PlanInv, TypeOK
  <2>6. QED BY <2>2, <2>3, <2>4, <2>5 DEF IInv
<1>10. CASE LinkReceipt(o)
  <2>1. op[o].at \in Critical
    BY <1>10 DEF LinkReceipt
  <2>2. \A q \in Ops : q # o => OpInv(q)'
    BY <1>10, <2>1, Others DEF LinkReceipt, Advance, TypeOK
  <2>3. HarnessInv'
    BY <1>10 DEF LinkReceipt, Advance, HarnessInv, OpInv, TypeOK
  <2>4. EditorInv'
    BY <1>10 DEF LinkReceipt, Advance, HarnessInv, EditorInv, OpInv, TypeOK
  <2>5. OpInv(o)'
    BY <1>10 DEF LinkReceipt, Advance, HarnessInv, EditorInv, OpInv, MarkerInv, PlanInv, TypeOK
  <2>6. QED BY <2>2, <2>3, <2>4, <2>5 DEF IInv
<1>11. CASE LinkHarness(o)
  <2>1. op[o].at \in Critical
    BY <1>11 DEF LinkHarness
  <2>2. \A q \in Ops : q # o => OpInv(q)'
    BY <1>11, <2>1, Others DEF LinkHarness, Advance, TypeOK
  <2>3. HarnessInv'
    BY <1>11 DEF LinkHarness, Advance, HarnessInv, OpInv, TypeOK
  <2>4. EditorInv'
    BY <1>11 DEF LinkHarness, Advance, HarnessInv, EditorInv, OpInv, TypeOK
  <2>5. OpInv(o)'
    BY <1>11 DEF LinkHarness, Advance, HarnessInv, EditorInv, OpInv, MarkerInv, PlanInv, TypeOK
  <2>6. QED BY <2>2, <2>3, <2>4, <2>5 DEF IInv
<1>12. CASE RecordPublished(o)
  <2>1. op[o].at \in Critical
    BY <1>12 DEF RecordPublished
  <2>2. \A q \in Ops : q # o => OpInv(q)'
    BY <1>12, <2>1, Others DEF RecordPublished, Advance, TypeOK
  <2>3. HarnessInv'
    BY <1>12 DEF RecordPublished, Advance, HarnessInv, OpInv, TypeOK
  <2>4. EditorInv'
    BY <1>12 DEF RecordPublished, Advance, HarnessInv, EditorInv, OpInv, TypeOK
  <2>5. OpInv(o)'
    BY <1>12 DEF RecordPublished, Advance, HarnessInv, EditorInv, OpInv, MarkerInv, PlanInv, TypeOK
  <2>6. QED BY <2>2, <2>3, <2>4, <2>5 DEF IInv
<1>13. CASE Complete(o)
  <2>1. op[o].at \in Critical
    BY <1>13 DEF Complete
  <2>2. \A q \in Ops : q # o => OpInv(q)'
    BY <1>13, <2>1, Others DEF Complete, Advance, TypeOK
  <2>3. HarnessInv'
    BY <1>13 DEF Complete, Advance, HarnessInv, OpInv, TypeOK
  <2>4. EditorInv'
    BY <1>13 DEF Complete, Advance, HarnessInv, EditorInv, OpInv, TypeOK
  <2>5. OpInv(o)'
    BY <1>13 DEF Complete, Advance, HarnessInv, EditorInv, OpInv, MarkerInv, PlanInv, TypeOK
  <2>6. QED BY <2>2, <2>3, <2>4, <2>5 DEF IInv
<1>14. CASE Throws(o)
  <2>1. op[o].at \in Critical
    BY <1>14 DEF Throws
  <2>2. \A q \in Ops : q # o => OpInv(q)'
    BY <1>14, <2>1, Others DEF Throws, Advance, TypeOK
  <2>3. HarnessInv'
    BY <1>14 DEF Throws, Advance, HarnessInv, OpInv, TypeOK
  <2>4. EditorInv'
    BY <1>14 DEF Throws, Advance, HarnessInv, EditorInv, OpInv, TypeOK
  <2>5. OpInv(o)'
    BY <1>14 DEF Throws, Advance, HarnessInv, EditorInv, OpInv, MarkerInv, PlanInv, TypeOK
  <2>6. QED BY <2>2, <2>3, <2>4, <2>5 DEF IInv
<1>15. CASE RestoreClaim(o)
  <2>1. op[o].at \in Critical
    BY <1>15 DEF RestoreClaim
  <2>2. \A q \in Ops : q # o => OpInv(q)'
    BY <1>15, <2>1, Others DEF RestoreClaim, Advance, TypeOK
  <2>3. HarnessInv'
    BY <1>15 DEF RestoreClaim, Advance, HarnessInv, OpInv, TypeOK
  <2>4. EditorInv'
    BY <1>15 DEF RestoreClaim, Advance, HarnessInv, EditorInv, OpInv, TypeOK
  <2>5. OpInv(o)'
    BY <1>15 DEF RestoreClaim, Advance, HarnessInv, EditorInv, OpInv, MarkerInv, PlanInv, TypeOK
  <2>6. QED BY <2>2, <2>3, <2>4, <2>5 DEF IInv
<1>16. CASE MarkFailure(o)
  <2>1. op[o].at \in Critical
    BY <1>16 DEF MarkFailure
  <2>2. \A q \in Ops : q # o => OpInv(q)'
    BY <1>16, <2>1, Others DEF MarkFailure, Advance, TypeOK
  <2>3. HarnessInv'
    BY <1>16 DEF MarkFailure, Advance, HarnessInv, OpInv, TypeOK
  <2>4. EditorInv'
    BY <1>16 DEF MarkFailure, Advance, HarnessInv, EditorInv, OpInv, TypeOK
  <2>5. OpInv(o)'
    BY <1>16 DEF MarkFailure, Advance, HarnessInv, EditorInv, OpInv, MarkerInv, PlanInv, TypeOK
  <2>6. QED BY <2>2, <2>3, <2>4, <2>5 DEF IInv
<1>17. CASE Release(o)
  <2>1. op[o].at \in Critical
    BY <1>17 DEF Release
  <2>2. \A q \in Ops : q # o => OpInv(q)'
    BY <1>17, <2>1, Others DEF Release, Advance, TypeOK
  <2>3. HarnessInv'
    BY <1>17 DEF Release, Advance, HarnessInv, OpInv, TypeOK
  <2>4. EditorInv'
    BY <1>17 DEF Release, Advance, HarnessInv, EditorInv, OpInv, TypeOK
  <2>5. OpInv(o)'
    BY <1>17 DEF Release, Advance, HarnessInv, EditorInv, OpInv, MarkerInv, PlanInv, TypeOK
  <2>6. QED BY <2>2, <2>3, <2>4, <2>5 DEF IInv
<1>18. ASSUME NEW v \in Versions, PlanInstall(o, v) PROVE IInv'
  <2>1. \A q \in Ops : q # o => OpInv(q)'
    BY <1>18, Idler DEF PlanInstall
  <2>2. HarnessInv' /\ EditorInv'
    BY <1>18 DEF PlanInstall, HarnessInv, EditorInv
  <2>3. [data[harness] EXCEPT !.entry = v] # Torn
    BY <1>18, OldAssumption DEF PlanInstall, TypeOK, Torn, Bytes, FileOrNone
  <2>4. OpInv(o)'
    BY <1>18, <2>3 DEF PlanInstall, OpInv, MarkerInv, PlanInv
  <2>5. QED BY <2>1, <2>2, <2>4 DEF IInv
<1>19. ASSUME NEW b \in Ops, PlanRollback(o, b) PROVE IInv'
  <2>1. \A q \in Ops : q # o => OpInv(q)'
    BY <1>19, Idler DEF PlanRollback
  <2>2. HarnessInv' /\ EditorInv'
    BY <1>19 DEF PlanRollback, HarnessInv, EditorInv
  <2>3. op[b].from # Torn /\ op[b].to # Torn
    BY <1>19 DEF PlanRollback, CanRollBack, OpInv, PlanInv
  <2>4. OpInv(o)'
    BY <1>19, <2>3 DEF PlanRollback, OpInv, MarkerInv, PlanInv
  <2>5. QED BY <2>1, <2>2, <2>4 DEF IInv
<1>20. CASE TakeMarker(o)
  <2>1. \A q \in Ops : q # o => OpInv(q)'
    BY <1>20 DEF TakeMarker, OpInv, MarkerInv, PlanInv
  <2>2. HarnessInv' /\ EditorInv'
    BY <1>20 DEF TakeMarker, HarnessInv, EditorInv
  <2>3. op[o].at = "plan" /\ op'[o] = [op[o] EXCEPT !.at = op'[o].at]
    BY <1>20 DEF TakeMarker
  <2>4. (op'[o].at = "locked" /\ marker' = o) \/ op'[o].at = "refused"
    BY <1>20 DEF TakeMarker, OpType
  <2>5. MarkerInv(o)' /\ JournalInv(o)' /\ PlanInv(o)'
    BY <1>20, <2>3, <2>4 DEF TakeMarker, OpInv, MarkerInv, PlanInv, OpType
  <2>6. StageInv(o)' /\ CheckInv(o)'
    BY <1>20, <2>3, <2>4 DEF TakeMarker, OpInv
  <2>7. QED BY <2>1, <2>2, <2>5, <2>6 DEF IInv, OpInv
<1>21. CASE Crash(o)
  <2>1. \A q \in Ops : q # o => OpInv(q)'
    BY <1>21, Idler DEF Crash
  <2>2. HarnessInv' /\ EditorInv'
    BY <1>21 DEF Crash, HarnessInv, EditorInv
  <2>3. OpInv(o)'
    BY <1>21 DEF Crash, Running, OpInv, MarkerInv, PlanInv
  <2>4. QED BY <2>1, <2>2, <2>3 DEF IInv
<1>22. QED
  BY <1>1, <1>2, <1>3, <1>4, <1>5, <1>6, <1>7, <1>8, <1>9, <1>10, <1>11,
     <1>12, <1>13, <1>14, <1>15, <1>16, <1>17, <1>18, <1>19, <1>20, <1>21 DEF Manage

(***************************************************************************)
(* Editors, and an operator with the harness to himself, keep it too.      *)
(***************************************************************************)
LEMMA OutsideStep ==
  ASSUME IInv, TypeOK', Edit \/ OperatorRecovers
  PROVE  IInv'
<1>0. TypeOK /\ HarnessInv /\ EditorInv /\ \A q \in Ops : OpInv(q)
  BY DEF IInv
<1> USE <1>0, Names DEF OpInv, MarkerInv, JournalInv, PlanInv, StageInv, CheckInv, Holds
<1>1. CASE EditByReplacing
  <2>1. edits + 1 \in Edits /\ edits + 1 \in Inodes /\ edits + 1 # NoFile /\ edits + 1 \notin Ops
    BY <1>1, EditsAssumption DEF EditByReplacing, TypeOK, Edits
  <2>2. HarnessInv' /\ EditorInv'
    BY <1>1, <2>1 DEF EditByReplacing, HarnessInv, EditorInv, TypeOK
  <2>3. ASSUME NEW q \in Ops PROVE OpInv(q)'
    BY <1>1, <2>1 DEF EditByReplacing, TypeOK
  <2>4. QED BY <2>2, <2>3 DEF IInv
<1>2. CASE TruncateToEdit
  <2>1. HarnessInv' /\ EditorInv'
    BY <1>2 DEF TruncateToEdit, HarnessInv, EditorInv, TypeOK, FileOrNone
  <2>2. ASSUME NEW q \in Ops PROVE OpInv(q)'
    BY <1>2 DEF TruncateToEdit, TypeOK, FileOrNone
  <2>3. QED BY <2>1, <2>2 DEF IInv
<1>3. CASE WriteEdit
  <2>1. HarnessInv' /\ EditorInv'
    BY <1>3 DEF WriteEdit, HarnessInv, EditorInv, TypeOK, FileOrNone
  <2>2. ASSUME NEW q \in Ops PROVE OpInv(q)'
    BY <1>3 DEF WriteEdit, TypeOK, FileOrNone
  <2>3. QED BY <2>1, <2>2 DEF IInv
<1>4. CASE OperatorRecovers
  <2>1. HarnessInv' /\ EditorInv'
    BY <1>4 DEF OperatorRecovers, HarnessInv, EditorInv, Outside
  <2>2. ASSUME NEW q \in Ops PROVE OpInv(q)'
    <3>1. op[q].at \notin Critical
      BY <1>4 DEF OperatorRecovers, Running, Critical, Started
    <3>2. QED
      BY <1>4, <3>1
         DEF OperatorRecovers, Outside, Critical, Started, Staged, Unstaged, Checked,
             HarnessInv
  <2>3. QED BY <2>1, <2>2 DEF IInv
<1>5. QED BY <1>1, <1>2, <1>3, <1>4 DEF Edit

(***************************************************************************)
(* IInv is an invariant of the package manager.                            *)
(***************************************************************************)
LEMMA InitInv == Init => IInv
<1>1. SUFFICES ASSUME Init PROVE IInv
  OBVIOUS
<1>2. TypeOK
  BY <1>1, Names, EditsAssumption
     DEF Init, TypeOK, FileOrNone, NotStarted, NoJournal, Places, Phases, Bytes, Entries,
         Torn, Inodes, Original
<1>3. HarnessInv /\ EditorInv
  BY <1>1, Names DEF Init, HarnessInv, EditorInv, Holds
<1>4. ASSUME NEW o \in Ops PROVE OpInv(o)
  BY <1>1, Names
     DEF Init, OpInv, MarkerInv, JournalInv, PlanInv, StageInv, CheckInv, Started, Critical,
         Staged, Unstaged, Checked
<1>5. QED BY <1>2, <1>3, <1>4 DEF IInv

LEMMA NextInv == IInv /\ [Next]_vars => IInv'
<1>1. SUFFICES ASSUME IInv, [Next]_vars PROVE IInv'
  OBVIOUS
<1>2. TypeOK'
  BY <1>1, TypeStep
<1>3. CASE UNCHANGED vars
  BY <1>1, <1>3
     DEF vars, IInv, TypeOK, HarnessInv, EditorInv, OpInv, MarkerInv, JournalInv, PlanInv,
         StageInv, CheckInv, Holds
<1>4. QED
  BY <1>1, <1>2, <1>3, ManageStep, OutsideStep DEF Next

THEOREM Inductive == Spec => []IInv
<1>1. QED
  BY InitInv, NextInv, PTL DEF Spec

(***************************************************************************)
(* Every variable keeps its type, whatever managers, editors and the       *)
(* operator do.                                                            *)
(***************************************************************************)
THEOREM TypeCorrect == Spec => []TypeOK
<1>1. IInv => TypeOK
  BY DEF IInv
<1>2. QED
  BY <1>1, Inductive, PTL

(***************************************************************************)
(* The harness is never lost and never replaced unseen (applyInstall and   *)
(* applyRollback in src/manage.js), with any number of managers and edits. *)
(***************************************************************************)
THEOREM HarnessIsKept == Spec => []NothingLost
<1>1. IInv => NothingLost
  BY DEF IInv, HarnessInv, NothingLost
<1>2. QED
  BY <1>1, Inductive, PTL

(***************************************************************************)
(* An operation's own inode comes to the harness path only by its own      *)
(* link(), and only while the path is free.                                *)
(***************************************************************************)
LEMMA PublishStep ==
  ASSUME IInv, Next, NEW o \in Ops, harness' = o, harness # o, op[o].at = "receipted"
  PROVE  harness = NoFile
<1>1. TypeOK /\ HarnessInv /\ \A p \in Ops : claim[p] # o
  BY DEF IInv, OpInv, StageInv, Staged
<1>2. ASSUME NEW p \in Ops, Manage(p) PROVE harness = NoFile
  <2>1. CASE LinkHarness(p) BY <2>1 DEF LinkHarness
  <2>2. CASE ClaimHarness(p) BY <2>2, Names DEF ClaimHarness
  <2>3. CASE RestoreClaim(p) BY <1>1, <2>3, Names DEF RestoreClaim
  <2>4. CASE UNCHANGED harness BY <2>4
  <2>5. QED
    BY <1>2, <2>1, <2>2, <2>3, <2>4
       DEF Manage, PlanInstall, PlanRollback, TakeMarker, StartJournal, PrepareVersion,
           PublishVersion, StageHarness, AnnounceClaim, CheckClaim, AnnouncePublish,
           LinkBackup, LinkReceipt, RecordPublished, Complete, Throws, MarkFailure,
           Release, Crash, Files
<1>3. CASE Edit
  BY <1>1, <1>3, Names, EditsAssumption
     DEF Edit, EditByReplacing, TruncateToEdit, WriteEdit, TypeOK, Edits
<1>4. CASE OperatorRecovers
  BY <1>1, <1>4 DEF OperatorRecovers
<1>5. QED
  BY <1>2, <1>3, <1>4 DEF Next

(***************************************************************************)
(* No operation undoes an edit made since it was planned.                  *)
(***************************************************************************)
THEOREM NoLostUpdate == Spec => PublishesOverItsPlan
<1> DEFINE Over == \A o \in Ops : harness' = o /\ harness # o /\ op[o].at = "receipted"
                                  => latest = op[o].from
<1>1. IInv /\ [Next]_vars => [Over]_vars
  <2>1. SUFFICES ASSUME IInv, Next, NEW o \in Ops,
                        harness' = o, harness # o, op[o].at = "receipted"
                 PROVE  latest = op[o].from
    OBVIOUS
  <2>2. harness = NoFile
    BY <2>1, PublishStep
  <2>3. QED
    BY <2>1, <2>2 DEF IInv, HarnessInv, OpInv, JournalInv, CheckInv, Holds, Started, Checked
<1>2. QED
  BY <1>1, Inductive, PTL DEF Spec, PublishesOverItsPlan

-----------------------------------------------------------------------------
(***************************************************************************)
(* What the backup of an install keeps is the inode the install claimed.   *)
(* It keeps its bytes because nobody who writes can reach that inode any   *)
(* more, and because nothing brings it back to the harness path:           *)
(*   FreshInv      the inode of an edit not yet made is nowhere;           *)
(*   UnclaimedInv  an operation that has not moved the harness claims      *)
(*                 nothing;                                                *)
(*   SettledInv    after its link() an operation's claim is off the        *)
(*                 harness path and out of the editor's hands, and no      *)
(*                 claim that could be restored is of the same inode;      *)
(*   BackupInv     backup, receipt and version stay where they were put.   *)
(***************************************************************************)
Unclaimed == Unstaged \cup {"staged", "claiming"}
Settled   == {"linked", "published", "ending", "applied"}
Backed    == {"backed", "receipted"} \cup Settled
Versioned == {"versioned"} \cup Staged \cup Settled

FreshInv ==
  \A e \in Edits : e > edits => harness # e /\ editor # e /\ \A p \in Ops : claim[p] # e

UnclaimedInv(o) == op[o].at \in Unclaimed => claim[o] = NoFile

SettledInv(o) ==
  op[o].at \in Settled =>
    /\ Holds(claim[o], op[o].from) /\ claim[o] \notin {harness, editor}
    /\ op[o].at \in {"ending", "applied"} /\ journal.op = o => journal.phase = "complete"
    /\ \A p \in Ops \ {o} : claim[p] = claim[o] => journal.op # p /\ op[p].at \notin Started

BackupInv(o) ==
  op[o].kind = "install" =>
    /\ op[o].at \in Versioned => op[o].version \in versions
    /\ op[o].at \in Backed => backup[o] = claim[o]
    /\ op[o].at \in Settled \cup {"receipted"} => o \in receipt

KInv == FreshInv /\ \A o \in Ops : UnclaimedInv(o) /\ SettledInv(o) /\ BackupInv(o)

-----------------------------------------------------------------------------
(***************************************************************************)
(* What a working operation does to the files cannot reach what another    *)
(* one has settled: it writes its own inode, and moves the harness or puts *)
(* back a claim that is not of the settled inode.                          *)
(***************************************************************************)
Elsewhere(q) ==
  /\ \/ harness' \in {harness, NoFile}
     \/ harness' = q /\ op[q].at \in Staged
     \/ harness' = claim[q] /\ op[q].at \in Started
  /\ \A p \in Ops : claim'[p] = claim[p] \/ (p = q /\ claim'[p] = harness)
  /\ \A i \in Inodes : data'[i] = data[i] \/ (i = q /\ op[q].at \in Unstaged)
  /\ journal' = journal \/ (journal'.op = q /\ op[q].at \in Started \cup {"locked"})
  /\ editor' = editor
  /\ op' = [op EXCEPT ![q] = op'[q]]
  /\ op'[q].at \in Started => op[q].at \in Started \cup {"locked"}

LEMMA SettledElsewhere ==
  ASSUME IInv, KInv, NEW q \in Ops, Elsewhere(q), NEW o \in Ops, o # q
  PROVE  SettledInv(o)'
<1> USE DEF Elsewhere
<1>n. op'[o] = op[o] /\ \A p \in Ops : op'[p].at \in Started =>
         op[p].at \in Started \/ (p = q /\ op[p].at = "locked")
  BY DEF IInv, TypeOK
<1>0. TypeOK /\ StageInv(q) /\ UnclaimedInv(q) /\ SettledInv(o)
  BY DEF IInv, KInv, OpInv
<1>1. SUFFICES ASSUME op[o].at \in Settled PROVE SettledInv(o)'
  BY <1>n DEF SettledInv
<1>2. claim[o] \in Inodes /\ data[claim[o]] = op[o].from /\ claim[o] \notin {harness, editor}
  BY <1>0, <1>1 DEF SettledInv, Holds, TypeOK, FileOrNone
<1>3. claim'[o] = claim[o]
  BY DEF IInv
<1>4. op[q].at \in Started \cup {"locked"} => claim[q] # claim[o]
  BY <1>0, <1>1, <1>2, Names DEF SettledInv, UnclaimedInv, Unclaimed, Unstaged
<1>5. claim[o] # q \/ op[q].at \notin Unstaged \cup Staged
  BY <1>0 DEF StageInv
<1>6. Holds(claim[o], op[o].from)'
  BY <1>2, <1>3, <1>5, <1>n, Names DEF Holds
<1>7. (claim[o] \notin {harness, editor})'
  BY <1>2, <1>3, <1>4, <1>5, Names
<1>8. ASSUME op[o].at \in {"ending", "applied"}, journal'.op = o
      PROVE  journal'.phase = "complete"
  BY <1>0, <1>1, <1>n, <1>8 DEF SettledInv
<1>9. ASSUME NEW p \in Ops \ {o}, claim'[p] = claim[o]
      PROVE  journal'.op # p /\ op'[p].at \notin Started
  <2>1. claim[p] = claim[o]
    BY <1>2, <1>9
  <2>2. journal.op # p /\ op[p].at \notin Started
    BY <1>0, <1>1, <2>1 DEF SettledInv
  <2>3. p = q => op[p].at # "locked"
    BY <1>4, <2>1
  <2>4. journal'.op # p
    BY <1>4, <2>1, <2>2
  <2>5. QED BY <1>n, <2>2, <2>3, <2>4
<1>10. QED
  BY <1>n, <1>3, <1>6, <1>7, <1>8, <1>9 DEF SettledInv

(***************************************************************************)
(* An operation's step keeps KInv.                                         *)
(***************************************************************************)
LEMMA ManageKeeps ==
  ASSUME IInv, TypeOK', KInv, NEW q \in Ops, Manage(q)
  PROVE  KInv'
<1>0. /\ TypeOK /\ HarnessInv /\ \A o \in Ops : OpInv(o)
      /\ FreshInv /\ \A o \in Ops : UnclaimedInv(o) /\ SettledInv(o) /\ BackupInv(o)
  BY DEF IInv, KInv
<1>n. op \in [Ops -> OpType] /\ DOMAIN op = Ops
  BY <1>0 DEF TypeOK, OpType
<1>u. \A o \in Ops : op[o].at \in Unstaged => harness # o /\ editor # o /\ \A p \in Ops : claim[p] # o
  BY <1>0 DEF OpInv, StageInv
<1> USE <1>0, <1>n, Names
    DEF Goes, Files, Outside, Started, Staged, Unstaged, Settled, Unclaimed, Backed, Versioned
<1>1. CASE StartJournal(q)
  <2>1. FreshInv'
    BY <1>1 DEF StartJournal, FreshInv, Edits, TypeOK
  <2>2. Elsewhere(q)
    BY <1>1 DEF StartJournal, Advance, Elsewhere, OpInv, StageInv, TypeOK
  <2>3. \A o \in Ops \ {q} : SettledInv(o)'
    BY <2>2, SettledElsewhere
  <2>4. \A o \in Ops \ {q} : UnclaimedInv(o)' /\ BackupInv(o)'
    BY <1>1 DEF StartJournal, Advance, UnclaimedInv, BackupInv, TypeOK
  <2>5. UnclaimedInv(q)' /\ BackupInv(q)'
    BY <1>1 DEF StartJournal, Advance, UnclaimedInv, BackupInv, TypeOK
  <2>6. SettledInv(q)'
    BY <1>1 DEF StartJournal, Advance, SettledInv, Holds, OpInv, JournalInv, StageInv, CheckInv, TypeOK
  <2>7. QED BY <2>1, <2>3, <2>4, <2>5, <2>6 DEF KInv
<1>2. CASE PrepareVersion(q)
  <2>1. FreshInv'
    BY <1>2 DEF PrepareVersion, FreshInv, Edits, TypeOK
  <2>2. Elsewhere(q)
    BY <1>2 DEF PrepareVersion, Advance, Elsewhere, OpInv, StageInv, TypeOK
  <2>3. \A o \in Ops \ {q} : SettledInv(o)'
    BY <2>2, SettledElsewhere
  <2>4. \A o \in Ops \ {q} : UnclaimedInv(o)' /\ BackupInv(o)'
    BY <1>2 DEF PrepareVersion, Advance, UnclaimedInv, BackupInv, TypeOK
  <2>5. UnclaimedInv(q)' /\ BackupInv(q)'
    BY <1>2 DEF PrepareVersion, Advance, UnclaimedInv, BackupInv, TypeOK
  <2>6. SettledInv(q)'
    BY <1>2 DEF PrepareVersion, Advance, SettledInv, Holds, OpInv, JournalInv, StageInv, CheckInv, TypeOK
  <2>7. QED BY <2>1, <2>3, <2>4, <2>5, <2>6 DEF KInv
<1>3. CASE PublishVersion(q)
  <2>1. FreshInv'
    BY <1>3 DEF PublishVersion, FreshInv, Edits, TypeOK
  <2>2. Elsewhere(q)
    BY <1>3 DEF PublishVersion, Elsewhere, OpInv, StageInv, TypeOK
  <2>3. \A o \in Ops \ {q} : SettledInv(o)'
    BY <2>2, SettledElsewhere
  <2>4. \A o \in Ops \ {q} : UnclaimedInv(o)' /\ BackupInv(o)'
    BY <1>3 DEF PublishVersion, UnclaimedInv, BackupInv, TypeOK
  <2>5. UnclaimedInv(q)' /\ BackupInv(q)'
    BY <1>3 DEF PublishVersion, UnclaimedInv, BackupInv, TypeOK
  <2>6. SettledInv(q)'
    BY <1>3 DEF PublishVersion, SettledInv, Holds, OpInv, JournalInv, StageInv, CheckInv, TypeOK
  <2>7. QED BY <2>1, <2>3, <2>4, <2>5, <2>6 DEF KInv
<1>4. CASE StageHarness(q)
  <2>1. FreshInv'
    BY <1>4 DEF StageHarness, FreshInv, Edits, TypeOK
  <2>2. Elsewhere(q)
    BY <1>4 DEF StageHarness, Advance, Elsewhere, OpInv, StageInv, TypeOK
  <2>3. \A o \in Ops \ {q} : SettledInv(o)'
    BY <2>2, SettledElsewhere
  <2>4. \A o \in Ops \ {q} : UnclaimedInv(o)' /\ BackupInv(o)'
    BY <1>4 DEF StageHarness, Advance, UnclaimedInv, BackupInv, TypeOK
  <2>5. UnclaimedInv(q)' /\ BackupInv(q)'
    BY <1>4 DEF StageHarness, Advance, UnclaimedInv, BackupInv, TypeOK
  <2>6. SettledInv(q)'
    BY <1>4 DEF StageHarness, Advance, SettledInv, Holds, OpInv, JournalInv, StageInv, CheckInv, TypeOK
  <2>7. QED BY <2>1, <2>3, <2>4, <2>5, <2>6 DEF KInv
<1>5. CASE AnnounceClaim(q)
  <2>1. FreshInv'
    BY <1>5 DEF AnnounceClaim, FreshInv, Edits, TypeOK
  <2>2. Elsewhere(q)
    BY <1>5 DEF AnnounceClaim, Advance, Elsewhere, OpInv, StageInv, TypeOK
  <2>3. \A o \in Ops \ {q} : SettledInv(o)'
    BY <2>2, SettledElsewhere
  <2>4. \A o \in Ops \ {q} : UnclaimedInv(o)' /\ BackupInv(o)'
    BY <1>5 DEF AnnounceClaim, Advance, UnclaimedInv, BackupInv, TypeOK
  <2>5. UnclaimedInv(q)' /\ BackupInv(q)'
    BY <1>5 DEF AnnounceClaim, Advance, UnclaimedInv, BackupInv, TypeOK
  <2>6. SettledInv(q)'
    BY <1>5 DEF AnnounceClaim, Advance, SettledInv, Holds, OpInv, JournalInv, StageInv, CheckInv, TypeOK
  <2>7. QED BY <2>1, <2>3, <2>4, <2>5, <2>6 DEF KInv
<1>6. CASE ClaimHarness(q)
  <2>1. FreshInv'
    BY <1>6 DEF ClaimHarness, FreshInv, Edits, TypeOK
  <2>2. Elsewhere(q)
    BY <1>6 DEF ClaimHarness, Elsewhere, OpInv, StageInv, TypeOK
  <2>3. \A o \in Ops \ {q} : SettledInv(o)'
    BY <2>2, SettledElsewhere
  <2>4. \A o \in Ops \ {q} : UnclaimedInv(o)' /\ BackupInv(o)'
    BY <1>6 DEF ClaimHarness, UnclaimedInv, BackupInv, TypeOK
  <2>5. UnclaimedInv(q)' /\ BackupInv(q)'
    BY <1>6 DEF ClaimHarness, UnclaimedInv, BackupInv, TypeOK
  <2>6. SettledInv(q)'
    BY <1>6 DEF ClaimHarness, SettledInv, Holds, OpInv, JournalInv, StageInv, CheckInv, TypeOK
  <2>7. QED BY <2>1, <2>3, <2>4, <2>5, <2>6 DEF KInv
<1>7. CASE CheckClaim(q)
  <2>1. FreshInv'
    BY <1>7 DEF CheckClaim, FreshInv, Edits, TypeOK
  <2>2. Elsewhere(q)
    BY <1>7 DEF CheckClaim, Advance, Elsewhere, OpInv, StageInv, TypeOK
  <2>3. \A o \in Ops \ {q} : SettledInv(o)'
    BY <2>2, SettledElsewhere
  <2>4. \A o \in Ops \ {q} : UnclaimedInv(o)' /\ BackupInv(o)'
    BY <1>7 DEF CheckClaim, Advance, UnclaimedInv, BackupInv, TypeOK
  <2>5. UnclaimedInv(q)' /\ BackupInv(q)'
    BY <1>7 DEF CheckClaim, Advance, UnclaimedInv, BackupInv, TypeOK
  <2>6. SettledInv(q)'
    BY <1>7 DEF CheckClaim, Advance, SettledInv, Holds, OpInv, JournalInv, StageInv, CheckInv, TypeOK
  <2>7. QED BY <2>1, <2>3, <2>4, <2>5, <2>6 DEF KInv
<1>8. CASE AnnouncePublish(q)
  <2>1. FreshInv'
    BY <1>8 DEF AnnouncePublish, FreshInv, Edits, TypeOK
  <2>2. Elsewhere(q)
    BY <1>8 DEF AnnouncePublish, Advance, Elsewhere, OpInv, StageInv, TypeOK
  <2>3. \A o \in Ops \ {q} : SettledInv(o)'
    BY <2>2, SettledElsewhere
  <2>4. \A o \in Ops \ {q} : UnclaimedInv(o)' /\ BackupInv(o)'
    BY <1>8 DEF AnnouncePublish, Advance, UnclaimedInv, BackupInv, TypeOK
  <2>5. UnclaimedInv(q)' /\ BackupInv(q)'
    BY <1>8 DEF AnnouncePublish, Advance, UnclaimedInv, BackupInv, TypeOK
  <2>6. SettledInv(q)'
    BY <1>8 DEF AnnouncePublish, Advance, SettledInv, Holds, OpInv, JournalInv, StageInv, CheckInv, TypeOK
  <2>7. QED BY <2>1, <2>3, <2>4, <2>5, <2>6 DEF KInv
<1>9. CASE LinkBackup(q)
  <2>1. FreshInv'
    BY <1>9 DEF LinkBackup, FreshInv, Edits, TypeOK
  <2>2. Elsewhere(q)
    BY <1>9 DEF LinkBackup, Elsewhere, OpInv, StageInv, TypeOK
  <2>3. \A o \in Ops \ {q} : SettledInv(o)'
    BY <2>2, SettledElsewhere
  <2>4. \A o \in Ops \ {q} : UnclaimedInv(o)' /\ BackupInv(o)'
    BY <1>9 DEF LinkBackup, UnclaimedInv, BackupInv, TypeOK
  <2>5. UnclaimedInv(q)' /\ BackupInv(q)'
    BY <1>9 DEF LinkBackup, UnclaimedInv, BackupInv, TypeOK
  <2>6. SettledInv(q)'
    BY <1>9 DEF LinkBackup, SettledInv, Holds, OpInv, JournalInv, StageInv, CheckInv, TypeOK
  <2>7. QED BY <2>1, <2>3, <2>4, <2>5, <2>6 DEF KInv
<1>10. CASE LinkReceipt(q)
  <2>1. FreshInv'
    BY <1>10 DEF LinkReceipt, FreshInv, Edits, TypeOK
  <2>2. Elsewhere(q)
    BY <1>10 DEF LinkReceipt, Elsewhere, OpInv, StageInv, TypeOK
  <2>3. \A o \in Ops \ {q} : SettledInv(o)'
    BY <2>2, SettledElsewhere
  <2>4. \A o \in Ops \ {q} : UnclaimedInv(o)' /\ BackupInv(o)'
    BY <1>10 DEF LinkReceipt, UnclaimedInv, BackupInv, TypeOK
  <2>5. UnclaimedInv(q)' /\ BackupInv(q)'
    BY <1>10 DEF LinkReceipt, UnclaimedInv, BackupInv, TypeOK
  <2>6. SettledInv(q)'
    BY <1>10 DEF LinkReceipt, SettledInv, Holds, OpInv, JournalInv, StageInv, CheckInv, TypeOK
  <2>7. QED BY <2>1, <2>3, <2>4, <2>5, <2>6 DEF KInv
<1>11. CASE LinkHarness(q)
  <2>1. FreshInv'
    BY <1>11 DEF LinkHarness, FreshInv, Edits, TypeOK
  <2>2. Elsewhere(q)
    BY <1>11 DEF LinkHarness, Elsewhere, OpInv, StageInv, TypeOK
  <2>3. \A o \in Ops \ {q} : SettledInv(o)'
    BY <2>2, SettledElsewhere
  <2>4. \A o \in Ops \ {q} : UnclaimedInv(o)' /\ BackupInv(o)'
    BY <1>11 DEF LinkHarness, UnclaimedInv, BackupInv, TypeOK
  <2>5. UnclaimedInv(q)' /\ BackupInv(q)'
    BY <1>11 DEF LinkHarness, UnclaimedInv, BackupInv, TypeOK
  <2>6. SettledInv(q)'
    <3>1. op[q].at = "receipted" /\ op[q].at \in Critical /\ journal.op = q
      BY <1>11 DEF LinkHarness, OpInv, JournalInv, Critical
    <3>2. CASE harness = NoFile
      <4>1. Holds(claim[q], op[q].from) /\ editor # claim[q] /\ claim[q] # q
        BY <3>1, <3>2 DEF OpInv, CheckInv, StageInv, Checked
      <4>2. harness' = q /\ op' = [op EXCEPT ![q].at = "linked"]
        BY <1>11, <3>2 DEF LinkHarness
      <4>3. UNCHANGED <<claim, data, journal, editor>>
        BY <1>11 DEF LinkHarness
      <4>4. \A p \in Ops \ {q} : op'[p].at \notin Started
        BY <3>1, <4>2, Alone DEF Critical
      <4>5. Holds(claim[q], op[q].from)' /\ claim'[q] \notin {harness', editor'}
        BY <4>1, <4>2, <4>3 DEF Holds, TypeOK
      <4>6. QED
        BY <3>1, <4>2, <4>3, <4>4, <4>5 DEF SettledInv
    <3>3. CASE harness # NoFile
      <4>1. op' = [op EXCEPT ![q].at = "restoring"]
        BY <1>11, <3>3 DEF LinkHarness
      <4>2. QED BY <4>1 DEF SettledInv
    <3>4. QED BY <3>2, <3>3
  <2>7. QED BY <2>1, <2>3, <2>4, <2>5, <2>6 DEF KInv
<1>12. CASE RecordPublished(q)
  <2>1. FreshInv'
    BY <1>12 DEF RecordPublished, FreshInv, Edits, TypeOK
  <2>2. Elsewhere(q)
    BY <1>12 DEF RecordPublished, Advance, Elsewhere, OpInv, StageInv, TypeOK
  <2>3. \A o \in Ops \ {q} : SettledInv(o)'
    BY <2>2, SettledElsewhere
  <2>4. \A o \in Ops \ {q} : UnclaimedInv(o)' /\ BackupInv(o)'
    BY <1>12 DEF RecordPublished, Advance, UnclaimedInv, BackupInv, TypeOK
  <2>5. UnclaimedInv(q)' /\ BackupInv(q)'
    BY <1>12 DEF RecordPublished, Advance, UnclaimedInv, BackupInv, TypeOK
  <2>6. SettledInv(q)'
    BY <1>12 DEF RecordPublished, Advance, SettledInv, Holds, OpInv, JournalInv, StageInv, CheckInv, TypeOK
  <2>7. QED BY <2>1, <2>3, <2>4, <2>5, <2>6 DEF KInv
<1>13. CASE Complete(q)
  <2>1. FreshInv'
    BY <1>13 DEF Complete, FreshInv, Edits, TypeOK
  <2>2. Elsewhere(q)
    BY <1>13 DEF Complete, Advance, Elsewhere, OpInv, StageInv, TypeOK
  <2>3. \A o \in Ops \ {q} : SettledInv(o)'
    BY <2>2, SettledElsewhere
  <2>4. \A o \in Ops \ {q} : UnclaimedInv(o)' /\ BackupInv(o)'
    BY <1>13 DEF Complete, Advance, UnclaimedInv, BackupInv, TypeOK
  <2>5. UnclaimedInv(q)' /\ BackupInv(q)'
    BY <1>13 DEF Complete, Advance, UnclaimedInv, BackupInv, TypeOK
  <2>6. SettledInv(q)'
    BY <1>13 DEF Complete, Advance, SettledInv, Holds, OpInv, JournalInv, StageInv, CheckInv, TypeOK
  <2>7. QED BY <2>1, <2>3, <2>4, <2>5, <2>6 DEF KInv
<1>14. CASE Throws(q)
  <2>1. FreshInv'
    BY <1>14 DEF Throws, FreshInv, Edits, TypeOK
  <2>2. Elsewhere(q)
    BY <1>14 DEF Throws, Elsewhere, OpInv, StageInv, TypeOK
  <2>3. \A o \in Ops \ {q} : SettledInv(o)'
    BY <2>2, SettledElsewhere
  <2>4. \A o \in Ops \ {q} : UnclaimedInv(o)' /\ BackupInv(o)'
    BY <1>14 DEF Throws, UnclaimedInv, BackupInv, TypeOK
  <2>5. UnclaimedInv(q)' /\ BackupInv(q)'
    BY <1>14 DEF Throws, UnclaimedInv, BackupInv, TypeOK
  <2>6. SettledInv(q)'
    BY <1>14 DEF Throws, SettledInv, Holds, OpInv, JournalInv, StageInv, CheckInv, TypeOK
  <2>7. QED BY <2>1, <2>3, <2>4, <2>5, <2>6 DEF KInv
<1>15. CASE RestoreClaim(q)
  <2>1. FreshInv'
    BY <1>15 DEF RestoreClaim, FreshInv, Edits, TypeOK
  <2>2. Elsewhere(q)
    BY <1>15 DEF RestoreClaim, Elsewhere, OpInv, StageInv, TypeOK
  <2>3. \A o \in Ops \ {q} : SettledInv(o)'
    BY <2>2, SettledElsewhere
  <2>4. \A o \in Ops \ {q} : UnclaimedInv(o)' /\ BackupInv(o)'
    BY <1>15 DEF RestoreClaim, UnclaimedInv, BackupInv, TypeOK
  <2>5. UnclaimedInv(q)' /\ BackupInv(q)'
    BY <1>15 DEF RestoreClaim, UnclaimedInv, BackupInv, TypeOK
  <2>6. SettledInv(q)'
    BY <1>15 DEF RestoreClaim, SettledInv, Holds, OpInv, JournalInv, StageInv, CheckInv, TypeOK
  <2>7. QED BY <2>1, <2>3, <2>4, <2>5, <2>6 DEF KInv
<1>16. CASE MarkFailure(q)
  <2>1. FreshInv'
    BY <1>16 DEF MarkFailure, FreshInv, Edits, TypeOK
  <2>2. Elsewhere(q)
    BY <1>16 DEF MarkFailure, Advance, Elsewhere, OpInv, StageInv, TypeOK
  <2>3. \A o \in Ops \ {q} : SettledInv(o)'
    BY <2>2, SettledElsewhere
  <2>4. \A o \in Ops \ {q} : UnclaimedInv(o)' /\ BackupInv(o)'
    BY <1>16 DEF MarkFailure, Advance, UnclaimedInv, BackupInv, TypeOK
  <2>5. UnclaimedInv(q)' /\ BackupInv(q)'
    BY <1>16 DEF MarkFailure, Advance, UnclaimedInv, BackupInv, TypeOK
  <2>6. SettledInv(q)'
    BY <1>16 DEF MarkFailure, Advance, SettledInv, Holds, OpInv, JournalInv, StageInv, CheckInv, TypeOK
  <2>7. QED BY <2>1, <2>3, <2>4, <2>5, <2>6 DEF KInv
<1>17. CASE Release(q)
  <2>1. FreshInv'
    BY <1>17 DEF Release, FreshInv, Edits, TypeOK
  <2>2. Elsewhere(q)
    BY <1>17 DEF Release, Elsewhere, OpInv, StageInv, TypeOK
  <2>3. \A o \in Ops \ {q} : SettledInv(o)'
    BY <2>2, SettledElsewhere
  <2>4. \A o \in Ops \ {q} : UnclaimedInv(o)' /\ BackupInv(o)'
    BY <1>17 DEF Release, UnclaimedInv, BackupInv, TypeOK
  <2>5. UnclaimedInv(q)' /\ BackupInv(q)'
    BY <1>17 DEF Release, UnclaimedInv, BackupInv, TypeOK
  <2>6. SettledInv(q)'
    BY <1>17 DEF Release, SettledInv, Holds, OpInv, JournalInv, StageInv, CheckInv, TypeOK
  <2>7. QED BY <2>1, <2>3, <2>4, <2>5, <2>6 DEF KInv
<1>18. ASSUME NEW v \in Versions, PlanInstall(q, v) PROVE KInv'
  <2>1. FreshInv'
    BY <1>18 DEF PlanInstall, FreshInv, Edits, TypeOK
  <2>2. Elsewhere(q)
    BY <1>18 DEF PlanInstall, Elsewhere, OpInv, StageInv, TypeOK
  <2>3. \A o \in Ops \ {q} : SettledInv(o)'
    BY <2>2, SettledElsewhere
  <2>4. \A o \in Ops \ {q} : UnclaimedInv(o)' /\ BackupInv(o)'
    BY <1>18 DEF PlanInstall, UnclaimedInv, BackupInv, TypeOK
  <2>5. UnclaimedInv(q)' /\ BackupInv(q)'
    BY <1>18 DEF PlanInstall, UnclaimedInv, BackupInv, TypeOK
  <2>6. SettledInv(q)'
    BY <1>18 DEF PlanInstall, SettledInv, Holds, OpInv, JournalInv, StageInv, CheckInv, TypeOK
  <2>7. QED BY <2>1, <2>3, <2>4, <2>5, <2>6 DEF KInv
<1>19. ASSUME NEW b \in Ops, PlanRollback(q, b) PROVE KInv'
  <2>1. FreshInv'
    BY <1>19 DEF PlanRollback, FreshInv, Edits, TypeOK
  <2>2. Elsewhere(q)
    BY <1>19 DEF PlanRollback, Elsewhere, OpInv, StageInv, TypeOK
  <2>3. \A o \in Ops \ {q} : SettledInv(o)'
    BY <2>2, SettledElsewhere
  <2>4. \A o \in Ops \ {q} : UnclaimedInv(o)' /\ BackupInv(o)'
    BY <1>19 DEF PlanRollback, UnclaimedInv, BackupInv, TypeOK
  <2>5. UnclaimedInv(q)' /\ BackupInv(q)'
    BY <1>19 DEF PlanRollback, UnclaimedInv, BackupInv, TypeOK
  <2>6. SettledInv(q)'
    BY <1>19 DEF PlanRollback, SettledInv, Holds, OpInv, JournalInv, StageInv, CheckInv, TypeOK
  <2>7. QED BY <2>1, <2>3, <2>4, <2>5, <2>6 DEF KInv
<1>20. CASE TakeMarker(q)
  <2>1. FreshInv'
    BY <1>20 DEF TakeMarker, FreshInv, Edits, TypeOK
  <2>2. Elsewhere(q)
    BY <1>20 DEF TakeMarker, Elsewhere, OpInv, StageInv, TypeOK
  <2>3. \A o \in Ops \ {q} : SettledInv(o)'
    BY <2>2, SettledElsewhere
  <2>4. \A o \in Ops \ {q} : UnclaimedInv(o)' /\ BackupInv(o)'
    BY <1>20 DEF TakeMarker, UnclaimedInv, BackupInv, TypeOK
  <2>5. UnclaimedInv(q)' /\ BackupInv(q)'
    BY <1>20 DEF TakeMarker, UnclaimedInv, BackupInv, TypeOK
  <2>6. SettledInv(q)'
    BY <1>20 DEF TakeMarker, SettledInv, Holds, OpInv, JournalInv, StageInv, CheckInv, TypeOK
  <2>7. QED BY <2>1, <2>3, <2>4, <2>5, <2>6 DEF KInv
<1>21. CASE Crash(q)
  <2>1. FreshInv'
    BY <1>21 DEF Crash, FreshInv, Edits, TypeOK
  <2>2. Elsewhere(q)
    BY <1>21 DEF Crash, Elsewhere, OpInv, StageInv, TypeOK
  <2>3. \A o \in Ops \ {q} : SettledInv(o)'
    BY <2>2, SettledElsewhere
  <2>4. \A o \in Ops \ {q} : UnclaimedInv(o)' /\ BackupInv(o)'
    BY <1>21 DEF Crash, UnclaimedInv, BackupInv, TypeOK
  <2>5. UnclaimedInv(q)' /\ BackupInv(q)'
    BY <1>21 DEF Crash, UnclaimedInv, BackupInv, TypeOK
  <2>6. SettledInv(q)'
    BY <1>21 DEF Crash, SettledInv, Holds, OpInv, JournalInv, StageInv, CheckInv, TypeOK
  <2>7. QED BY <2>1, <2>3, <2>4, <2>5, <2>6 DEF KInv
<1>22. QED
  BY <1>1, <1>2, <1>3, <1>4, <1>5, <1>6, <1>7, <1>8, <1>9, <1>10, <1>11,
     <1>12, <1>13, <1>14, <1>15, <1>16, <1>17, <1>18, <1>19, <1>20, <1>21 DEF Manage

(***************************************************************************)
(* So does what editors and the operator do.                               *)
(***************************************************************************)
LEMMA OutsideKeeps ==
  ASSUME IInv, TypeOK', KInv, Edit \/ OperatorRecovers
  PROVE  KInv'
<1>0. /\ TypeOK /\ HarnessInv /\ \A o \in Ops : OpInv(o)
      /\ FreshInv /\ \A o \in Ops : UnclaimedInv(o) /\ SettledInv(o) /\ BackupInv(o)
  BY DEF IInv, KInv
<1> USE <1>0, Names DEF TypeOK, FileOrNone, FreshInv, UnclaimedInv, SettledInv, BackupInv, Holds
<1>1. CASE EditByReplacing
  <2>1. edits + 1 \in Edits /\ edits + 1 > edits /\ edits' = edits + 1
    BY <1>1, EditsAssumption DEF EditByReplacing, Edits
  <2>2. FreshInv'
    BY <1>1, <2>1 DEF EditByReplacing, Edits
  <2>3. ASSUME NEW o \in Ops PROVE UnclaimedInv(o)' /\ SettledInv(o)' /\ BackupInv(o)'
    BY <1>1, <2>1 DEF EditByReplacing
  <2>4. QED BY <2>2, <2>3 DEF KInv
<1>2. CASE TruncateToEdit
  <2>1. FreshInv'
    BY <1>2 DEF TruncateToEdit, Edits
  <2>2. ASSUME NEW o \in Ops PROVE UnclaimedInv(o)' /\ SettledInv(o)' /\ BackupInv(o)'
    BY <1>2 DEF TruncateToEdit
  <2>3. QED BY <2>1, <2>2 DEF KInv
<1>3. CASE WriteEdit
  <2>1. FreshInv'
    BY <1>3 DEF WriteEdit, Edits
  <2>2. ASSUME NEW o \in Ops PROVE UnclaimedInv(o)' /\ SettledInv(o)' /\ BackupInv(o)'
    BY <1>3 DEF WriteEdit
  <2>3. QED BY <2>1, <2>2 DEF KInv
<1>4. CASE OperatorRecovers
  <2>1. \/ harness' = harness
        \/ /\ harness = NoFile /\ journal.op \in Ops /\ journal.phase # "complete"
           /\ harness' = claim[journal.op]
    BY <1>4 DEF OperatorRecovers, HarnessInv
  <2>2. journal' = journal \/ journal'.op = NoFile
    BY <1>4 DEF OperatorRecovers, NoJournal
  <2>3. UNCHANGED <<claim, backup, receipt, data, versions, op, editor, edits>>
    BY <1>4 DEF OperatorRecovers, Outside
  <2>4. FreshInv'
    BY <2>1, <2>3
  <2>5. ASSUME NEW o \in Ops, op[o].at \in Settled PROVE claim[o] # harness'
    <3>1. op[o].at = "applied"
      BY <1>4, <2>5 DEF OperatorRecovers, Running, Settled
    <3>2. QED BY <2>1, <2>5, <3>1
  <2>6. ASSUME NEW o \in Ops PROVE UnclaimedInv(o)' /\ SettledInv(o)' /\ BackupInv(o)'
    BY <2>2, <2>3, <2>5
  <2>7. QED BY <2>4, <2>6 DEF KInv
<1>5. QED BY <1>1, <1>2, <1>3, <1>4 DEF Edit

LEMMA InitKeeps == Init => KInv
<1>1. SUFFICES ASSUME Init PROVE KInv
  OBVIOUS
<1>2. QED
  BY <1>1, Names, EditsAssumption
     DEF Init, KInv, FreshInv, UnclaimedInv, SettledInv, BackupInv, NotStarted, Edits,
         Original, Settled, Backed, Versioned, Staged

LEMMA NextKeeps == IInv /\ KInv /\ [Next]_vars => KInv'
<1>1. SUFFICES ASSUME IInv, KInv, [Next]_vars PROVE KInv'
  OBVIOUS
<1>2. TypeOK'
  BY <1>1, TypeStep
<1>3. CASE UNCHANGED vars
  BY <1>1, <1>3 DEF vars, KInv, FreshInv, UnclaimedInv, SettledInv, BackupInv, Holds
<1>4. QED
  BY <1>1, <1>2, <1>3, ManageKeeps, OutsideKeeps DEF Next

(***************************************************************************)
(* An install that reported success stays reversible, with any number of   *)
(* managers and edits after it (applyInstall, planRollback).               *)
(***************************************************************************)
THEOREM InstallIsReversible == Spec => []Reversible
<1>1. KInv => Reversible
  BY DEF KInv, SettledInv, BackupInv, Reversible, Applied, Settled, Backed, Versioned, Holds
<1>2. QED
  BY <1>1, NextKeeps, InitKeeps, Inductive, PTL DEF Spec
=============================================================================
