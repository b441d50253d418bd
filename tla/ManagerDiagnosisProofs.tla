------------------------ MODULE ManagerDiagnosisProofs ------------------------
(***************************************************************************)
(* The diagnosis beside any managers, editors and operators: what it says  *)
(* was true, proved.                                                       *)
(***************************************************************************)
EXTENDS ManagerDiagnosis, ManagerProofs

(***************************************************************************)
(* Edits are numbered, and no operation changes the number in the bytes it *)
(* read.  So while edits is still the number in an operation's plan,       *)
(* nobody has touched the harness since the plan was made, and the         *)
(* operation finds every file as it left it:                               *)
(*   CountInv    the harness has the number of the last edit, or is torn;  *)
(*   PlannedInv  a plan has a number that was current when it was made;    *)
(*   NamesInv    a backup is the claim's inode and is linked once, before  *)
(*               its receipt;                                              *)
(*   KeptInv     what an operation checked, it can still find;             *)
(*   DoneInv     and so can whoever reads its complete journal;            *)
(*   PhaseInv    what the journal's phase says of the harness.             *)
(***************************************************************************)
Unbacked == Unclaimed \cup {"claimed", "checked", "publishing"}

\* The install whose backup an operation relies on, and the bytes of that backup.
BackupFor(o) == IF op[o].kind = "install" THEN o ELSE op[o].of
BytesFor(o)  == IF op[o].kind = "install" THEN op[o].from ELSE op[o].to

Untouched(o) == edits = op[o].to.cfg

CountInv == latest = Torn \/ latest.cfg = edits

PlannedInv(o) ==
  op[o].at # "idle" =>
    /\ op[o].from.cfg = op[o].to.cfg /\ op[o].to.cfg <= edits
    /\ editor # NoFile => ~Untouched(o)
    /\ op[o].kind = "rollback" =>
         op[o].of \in receipt /\ op[o].to = op[op[o].of].from /\ op[o].from = op[op[o].of].to

NamesInv(o) ==
  /\ backup[o] \in {NoFile, claim[o]}
  /\ op[o].at \in Unbacked => backup[o] = NoFile
  /\ o \in receipt => op[o].at \notin Unbacked \cup {"backed"}
  /\ op[o].at \in {"publishing", "backed"} => op[o].kind = "install"

KeptInv(o) ==
  Untouched(o) =>
    /\ op[o].at \in Checked \cup {"linked", "published"} => Holds(claim[o], op[o].from)
    /\ op[o].at \in Staged \cup {"linked", "published"} /\ op[o].kind = "rollback"
         => Holds(backup[op[o].of], op[o].to)
    /\ op[o].at \in {"linked", "published"} => harness = o /\ data[o] = op[o].to

InPlace(o) ==
  /\ harness = o /\ data[o] = op[o].to
  /\ Holds(claim[o], op[o].from)
  /\ Holds(backup[BackupFor(o)], BytesFor(o))

DoneInv ==
  journal.phase = "complete" =>
    /\ journal.op \in Ops /\ journal.claimed
    /\ op[journal.op].at \notin Unstaged \cup Staged
    /\ BackupFor(journal.op) \in receipt
    /\ Untouched(journal.op) => InPlace(journal.op)

PhaseInv ==
  /\ journal.phase # "none" => journal.op \in Ops /\ op[journal.op].at # "idle"
  /\ journal.claimed => journal.phase \notin {"none", "planned", "preparing", "staged"}
  /\ journal.phase = "published" => harness # NoFile
  /\ \A o \in Ops : op[o].at = "claiming" => journal.phase = "claiming"

UInv ==
  /\ CountInv /\ DoneInv /\ PhaseInv
  /\ \A o \in Ops : PlannedInv(o) /\ NamesInv(o) /\ KeptInv(o)

(***************************************************************************)
(* What the diagnosis has read.  A complete journal was read while its     *)
(* operation had everything in place, unless the harness was touched       *)
(* before; bytes of a harness that was touched are not those of the plan.  *)
(* Undisturbed, it has read the present state.  A journal it has read      *)
(* names an operation that was planned.                                    *)
(***************************************************************************)
ReadJournalBy == {"journal", "marker", "harness", "claim", "backup"}
ReadHarnessBy == {"harness", "claim", "backup"}

TogetherInv ==
  look.at \in ReadJournalBy /\ look.journal.phase = "complete" =>
    LET o == look.journal.op
    IN /\ Untouched(o) => o \in look.together
       /\ look.at \in ReadHarnessBy /\ Found(look.harness, op[o].to) => o \in look.together

QuietInv ==
  look.quiet =>
    /\ look.at # "idle" =>
         look.claims = {[op |-> o, file |-> Read(claim[o])] : o \in {p \in Ops : claim[p] # NoFile}}
    /\ look.at \in ReadJournalBy => look.journal = journal
    /\ look.at \in ReadJournalBy \ {"journal"} => look.marker = (marker # NoFile)
    /\ look.at \in ReadHarnessBy => look.harness = Read(harness)
    /\ look.at \in {"claim", "backup"} =>
         look.claim = IF journal.claimed THEN Read(claim[journal.op]) ELSE NoFile
    /\ look.at = "backup" /\ journal.phase # "none" =>
         look.backup = Read(backup[BackupOf(journal)]) /\ look.receipt = (BackupOf(journal) \in receipt)

ReadFile == {NoFile} \cup [inode : Inodes, bytes : Bytes]

LookType ==
  [at : Steps, claims : SUBSET [op : Ops, file : ReadFile], journal : JournalType,
   marker : BOOLEAN, harness : ReadFile, claim : ReadFile, backup : ReadFile,
   receipt : BOOLEAN, quiet : BOOLEAN, together : SUBSET Ops]

NamedInv ==
  /\ look.journal.phase # "none" => look.journal.op \in Ops /\ op[look.journal.op].at # "idle"
  /\ look.journal.claimed => look.journal.phase # "none"

LookInv == look \in LookType /\ NamedInv /\ TogetherInv /\ QuietInv

-----------------------------------------------------------------------------
(***************************************************************************)
(* What any step of an operation leaves alone: the plans of all, the files *)
(* of the others, and, unless it is at work under the marker, the harness. *)
(***************************************************************************)
Frame(q) ==
  /\ UNCHANGED <<editor, edits>>
  /\ op' = [op EXCEPT ![q] = op'[q]]
  /\ op[q].at # "idle" => op'[q] = [op[q] EXCEPT !.at = op'[q].at]
  /\ op'[q].at # "idle"
  /\ \A p \in Ops \ {q} : claim'[p] = claim[p] /\ backup'[p] = backup[p]
  /\ receipt \subseteq receipt' /\ receipt' \subseteq receipt \cup {q}
  /\ op[q].at = "backed" \/ receipt' = receipt
  /\ op[q].at = "publishing" \/ backup' = backup
  /\ \A i \in Inodes : data'[i] = data[i] \/ (i = q /\ op[q].at \in Unstaged)
  /\ op[q].at \in Started \/ UNCHANGED <<Files, latest>>

LEMMA Frames ==
  ASSUME TypeOK, NEW q \in Ops, Manage(q)
  PROVE  Frame(q)
<1>n. op \in [Ops -> OpType] /\ DOMAIN op = Ops
  BY DEF TypeOK, OpType
<1> USE <1>n DEF TypeOK, OpType, Frame, Files, Outside, Goes, Advance, Holds, Started, Unstaged
<1>1. ASSUME NEW v \in Versions, PlanInstall(q, v) PROVE Frame(q)
  BY <1>1 DEF PlanInstall
<1>2. ASSUME NEW b \in Ops, PlanRollback(q, b) PROVE Frame(q)
  BY <1>2 DEF PlanRollback
<1>3. CASE TakeMarker(q) BY <1>3 DEF TakeMarker
<1>4. CASE StartJournal(q) BY <1>4 DEF StartJournal
<1>5. CASE PrepareVersion(q) BY <1>5 DEF PrepareVersion
<1>6. CASE PublishVersion(q) BY <1>6 DEF PublishVersion
<1>7. CASE StageHarness(q) BY <1>7 DEF StageHarness, CanRollBack
<1>8. CASE AnnounceClaim(q) BY <1>8 DEF AnnounceClaim
<1>9. CASE ClaimHarness(q) BY <1>9 DEF ClaimHarness
<1>10. CASE CheckClaim(q) BY <1>10 DEF CheckClaim
<1>11. CASE AnnouncePublish(q) BY <1>11 DEF AnnouncePublish
<1>12. CASE LinkBackup(q) BY <1>12 DEF LinkBackup
<1>13. CASE LinkReceipt(q) BY <1>13 DEF LinkReceipt
<1>14. CASE LinkHarness(q) BY <1>14 DEF LinkHarness
<1>15. CASE RecordPublished(q) BY <1>15 DEF RecordPublished
<1>16. CASE Complete(q) BY <1>16 DEF Complete
<1>17. CASE Throws(q) BY <1>17 DEF Throws
<1>18. CASE RestoreClaim(q) BY <1>18 DEF RestoreClaim
<1>19. CASE MarkFailure(q) BY <1>19 DEF MarkFailure
<1>20. CASE Release(q) BY <1>20 DEF Release
<1>21. CASE Crash(q) BY <1>21 DEF Crash, Running
<1>22. QED
  BY <1>1, <1>2, <1>3, <1>4, <1>5, <1>6, <1>7, <1>8, <1>9, <1>10, <1>11, <1>12, <1>13,
     <1>14, <1>15, <1>16, <1>17, <1>18, <1>19, <1>20, <1>21 DEF Manage

(***************************************************************************)
(* A plan, once made, stays as it was.                                     *)
(***************************************************************************)
LEMMA PlansStay ==
  ASSUME IInv, UInv, NEW q \in Ops, Frame(q), NEW o \in Ops, op[o].at # "idle"
  PROVE  PlannedInv(o)' /\ op'[o] = [op[o] EXCEPT !.at = op'[o].at]
<1>0. TypeOK /\ PlannedInv(o) /\ \A p \in Ops : NamesInv(p)
  BY DEF IInv, UInv
<1>1. \A p \in Ops : op[p] \in OpType
  BY <1>0 DEF TypeOK, OpType
<1>2. \A p \in Ops : op[p].at # "idle" => op'[p] = [op[p] EXCEPT !.at = op'[p].at]
  BY <1>0, <1>1 DEF Frame, TypeOK, OpType
<1>3. \A p \in Ops : op[p].at # "idle" =>
        op'[p].from = op[p].from /\ op'[p].to = op[p].to
        /\ op'[p].kind = op[p].kind /\ op'[p].of = op[p].of
  <2>1. SUFFICES ASSUME NEW p \in Ops, op[p].at # "idle"
                 PROVE  /\ op'[p].from = op[p].from /\ op'[p].to = op[p].to
                        /\ op'[p].kind = op[p].kind /\ op'[p].of = op[p].of
    OBVIOUS
  <2>2. op[p] \in OpType /\ op'[p] = [op[p] EXCEPT !.at = op'[p].at]
    BY <1>1, <1>2, <2>1
  <2>3. QED BY <2>2 DEF OpType
<1>4. \A p \in receipt : p \in Ops /\ op[p].at # "idle"
  BY <1>0 DEF NamesInv, Unbacked, Unclaimed, Unstaged, TypeOK
<1>5. PlannedInv(o)'
  BY <1>0, <1>3, <1>4 DEF PlannedInv, Frame, Untouched
<1>6. QED BY <1>2, <1>5

(***************************************************************************)
(* So what the others planned, named and checked is as it was.             *)
(***************************************************************************)
LEMMA Bystander ==
  ASSUME IInv, UInv, NEW q \in Ops, Frame(q), NEW o \in Ops \ {q}
  PROVE  PlannedInv(o)' /\ NamesInv(o)' /\ KeptInv(o)'
<1>0. /\ TypeOK /\ StageInv(q) /\ PlannedInv(o) /\ NamesInv(o) /\ KeptInv(o)
      /\ \A p \in Ops : NamesInv(p)
  BY DEF IInv, UInv, OpInv
<1>1. op'[o] = op[o] /\ op[o] \in OpType
  BY <1>0 DEF Frame, TypeOK, OpType
<1>2. \A p \in Ops : op[p].at # "idle" =>
        op'[p].from = op[p].from /\ op'[p].to = op[p].to /\ op'[p].kind = op[p].kind
  BY <1>0 DEF Frame, TypeOK, OpType
<1>3. \A p \in receipt : op[p].at # "idle" /\ op[p].at # "publishing"
  BY <1>0 DEF NamesInv, Unbacked, Unclaimed, Unstaged, TypeOK
<1>4. PlannedInv(o)'
  BY <1>0, <1>1, <1>2, <1>3 DEF PlannedInv, Frame, Untouched, TypeOK
<1>5. NamesInv(o)'
  BY <1>0, <1>1 DEF NamesInv, Frame
<1>6. \A p \in Ops : claim[p] # NoFile => claim[p] \in Inodes /\ data'[claim[p]] = data[claim[p]]
  BY <1>0 DEF Frame, StageInv, TypeOK, FileOrNone
<1>7. \A p \in receipt : backup'[p] = backup[p]
  BY <1>0, <1>3 DEF Frame, TypeOK
<1>8. KeptInv(o)'
  <2>1. SUFFICES ASSUME Untouched(o)' PROVE KeptInv(o)'
    BY DEF KeptInv
  <2>2. Untouched(o)
    BY <1>1, <2>1 DEF Untouched, Frame
  <2>3. op[o].at \in Checked \cup {"linked", "published"} => Holds(claim[o], op[o].from)'
    BY <1>0, <1>1, <1>6, <2>2 DEF KeptInv, Holds, Frame
  <2>4. ASSUME op[o].at \in Staged \cup {"linked", "published"}, op[o].kind = "rollback"
        PROVE  Holds(backup[op[o].of], op[o].to)'
    <3>1. op[o].of \in receipt /\ op[o].of \in Ops
      BY <1>0, <2>4 DEF PlannedInv, TypeOK, Staged
    <3>2. Holds(backup[op[o].of], op[o].to)
      BY <1>0, <2>2, <2>4 DEF KeptInv
    <3>3. backup[op[o].of] = claim[op[o].of]
      BY <1>0, <3>1, <3>2 DEF NamesInv, Holds
    <3>4. QED BY <1>1, <1>6, <1>7, <3>1, <3>2, <3>3 DEF Holds
  <2>5. ASSUME op[o].at \in {"linked", "published"}
        PROVE  (harness = o /\ data[o] = op[o].to)'
    <3>1. harness = o /\ data[o] = op[o].to
      BY <1>0, <2>2, <2>5 DEF KeptInv
    <3>2. op[q].at \notin Started
      BY <2>5, Alone DEF Critical, Started
    <3>3. QED BY <1>1, <3>1, <3>2 DEF Frame, Files
  <2>6. QED BY <1>1, <2>3, <2>4, <2>5 DEF KeptInv
<1>9. QED BY <1>4, <1>5, <1>8

(***************************************************************************)
(* An operation's own step keeps what is known of it.                      *)
(***************************************************************************)
LEMMA OwnStep ==
  ASSUME IInv, TypeOK', KInv, UInv, NEW q \in Ops, Manage(q)
  PROVE  PlannedInv(q)' /\ NamesInv(q)' /\ KeptInv(q)'
<1>0. /\ TypeOK /\ HarnessInv /\ EditorInv /\ CountInv /\ Frame(q)
      /\ \A o \in Ops : OpInv(o)
      /\ \A o \in Ops : PlannedInv(o) /\ NamesInv(o) /\ KeptInv(o)
      /\ BackupInv(q)
  BY Frames DEF IInv, KInv, UInv
<1>n. op \in [Ops -> OpType] /\ DOMAIN op = Ops
  BY <1>0 DEF TypeOK, OpType
<1>p. op[q].at # "idle" => PlannedInv(q)' /\ op'[q] = [op[q] EXCEPT !.at = op'[q].at]
  BY <1>0, PlansStay
<1>r. op[q].at # "idle" =>
        /\ op'[q].kind = op[q].kind /\ op'[q].of = op[q].of
        /\ op'[q].from = op[q].from /\ op'[q].to = op[q].to
  BY <1>n, <1>p DEF OpType
<1>k. \A p \in Ops : op[p].kind \in {"install", "rollback"}
  BY <1>n DEF OpType
<1> USE <1>0, <1>n, <1>k, Names
    DEF Goes, Files, Outside, Holds, NamesInv, KeptInv, Untouched, Unbacked, Unclaimed, Unstaged,
        Staged, Checked
<1>1. ASSUME NEW v \in Versions, PlanInstall(q, v) PROVE PlannedInv(q)' /\ NamesInv(q)' /\ KeptInv(q)'
  <2>1. op'[q].at = "plan" /\ op'[q].kind = "install" /\ op'[q].from = data[harness]
        /\ op'[q].to = [data[harness] EXCEPT !.entry = v]
    BY <1>1 DEF PlanInstall
  <2>2. data[harness] = latest /\ latest # Torn /\ data[harness] \in Bytes /\ editor = NoFile
    BY <1>1 DEF PlanInstall, HarnessInv, EditorInv, TypeOK, FileOrNone
  <2>3. op'[q].to.cfg = data[harness].cfg
    BY <2>1, <2>2 DEF Bytes
  <2>4. PlannedInv(q)'
    BY <1>1, <2>1, <2>2, <2>3 DEF PlanInstall, PlannedInv, CountInv, TypeOK
  <2>5. QED BY <1>1, <2>1, <2>4 DEF PlanInstall
<1>2. ASSUME NEW b \in Ops, PlanRollback(q, b) PROVE PlannedInv(q)' /\ NamesInv(q)' /\ KeptInv(q)'
  <2>1. op'[q].at = "plan" /\ op'[q].kind = "rollback" /\ op'[q].of = b
        /\ op'[q].from = op[b].to /\ op'[q].to = op[b].from
    BY <1>2 DEF PlanRollback
  <2>2. b \in receipt /\ data[harness] = op[b].to /\ harness # NoFile
    BY <1>2 DEF PlanRollback, CanRollBack
  <2>3. op[b].at # "idle" /\ b # q
    BY <1>2, <2>2 DEF PlanRollback
  <2>4. op[b].to # Torn /\ PlannedInv(b) /\ op'[b] = op[b]
    BY <1>2, <2>3 DEF PlanRollback, OpInv, PlanInv
  <2>5. latest = op[b].to /\ editor = NoFile
    BY <2>2, <2>4 DEF HarnessInv, EditorInv
  <2>6. PlannedInv(q)'
    BY <1>2, <2>1, <2>2, <2>3, <2>4, <2>5 DEF PlanRollback, PlannedInv, CountInv, TypeOK
  <2>7. QED BY <1>2, <2>1, <2>6 DEF PlanRollback
<1>3. CASE StartJournal(q)
  <2>1. op[q].at # "idle"
    BY <1>3 DEF StartJournal
  <2>2. NamesInv(q)'
    BY <1>3 DEF StartJournal, Advance, OpInv, StageInv, TypeOK
  <2>3. KeptInv(q)'
    BY <1>3 DEF StartJournal, Advance, OpInv, StageInv, PlannedInv, BackupInv, Backed, Settled, CanRollBack, TypeOK
  <2>4. QED BY <1>p, <2>1, <2>2, <2>3
<1>4. CASE PrepareVersion(q)
  <2>1. op[q].at # "idle"
    BY <1>4 DEF PrepareVersion
  <2>2. NamesInv(q)'
    BY <1>4 DEF PrepareVersion, Advance, OpInv, StageInv, TypeOK
  <2>3. KeptInv(q)'
    BY <1>4 DEF PrepareVersion, Advance, OpInv, StageInv, PlannedInv, BackupInv, Backed, Settled, CanRollBack, TypeOK
  <2>4. QED BY <1>p, <2>1, <2>2, <2>3
<1>5. CASE PublishVersion(q)
  <2>1. op[q].at # "idle"
    BY <1>5 DEF PublishVersion
  <2>2. NamesInv(q)'
    BY <1>5 DEF PublishVersion, Advance, OpInv, StageInv, TypeOK
  <2>3. KeptInv(q)'
    BY <1>5 DEF PublishVersion, Advance, OpInv, StageInv, PlannedInv, BackupInv, Backed, Settled, CanRollBack, TypeOK
  <2>4. QED BY <1>p, <2>1, <2>2, <2>3
<1>6. CASE StageHarness(q)
  <2>1. op[q].at # "idle"
    BY <1>6 DEF StageHarness
  <2>2. NamesInv(q)'
    BY <1>6 DEF StageHarness, Advance, OpInv, StageInv, TypeOK
  <2>3. KeptInv(q)'
    <3> DEFINE ready == IF op[q].kind = "install" THEN Holds(harness, op[q].from)
                                                   ELSE CanRollBack(op[q].of)
    <3>1. \/ ~ready /\ Goes(q, "failing")
          \/ ready /\ data' = [data EXCEPT ![q] = op[q].to] /\ Goes(q, "staged")
      BY <1>6, Zenon DEF StageHarness
    <3>2. UNCHANGED <<backup, edits>>
      BY <1>6 DEF StageHarness
    <3>3. CASE op'[q].at = "failing"
      BY <3>3
    <3>4. CASE op'[q].at = "staged" /\ op[q].kind = "install"
      BY <1>r, <2>1, <3>4
    <3>5. CASE op'[q].at = "staged" /\ op[q].kind = "rollback"
      <4>1. CanRollBack(op[q].of) /\ data' = [data EXCEPT ![q] = op[q].to]
        <5>1. ~Goes(q, "failing") BY <3>5 DEF OpType
        <5>2. QED BY <3>1, <3>5, <5>1
      <4>2. op[q].of \in Ops /\ op[q].to = op[op[q].of].from
        BY <2>1, <3>5 DEF PlannedInv, TypeOK
      <4>3. Holds(backup[op[q].of], op[q].to)
        BY <4>1, <4>2 DEF CanRollBack
      <4>4. backup[op[q].of] \in Inodes /\ backup[op[q].of] # q
        BY <1>6, <4>2, <4>3 DEF StageHarness, OpInv, StageInv, TypeOK, FileOrNone
      <4>5. Holds(backup[op[q].of], op[q].to)'
        BY <1>r, <2>1, <3>2, <4>1, <4>3, <4>4 DEF TypeOK
      <4>6. QED BY <1>r, <2>1, <3>5, <4>5
    <3>6. op'[q].at \in {"failing", "staged"}
      BY <3>1 DEF OpType
    <3>7. QED BY <1>k, <3>3, <3>4, <3>5, <3>6
  <2>4. QED BY <1>p, <2>1, <2>2, <2>3
<1>7. CASE AnnounceClaim(q)
  <2>1. op[q].at # "idle"
    BY <1>7 DEF AnnounceClaim
  <2>2. NamesInv(q)'
    BY <1>7 DEF AnnounceClaim, Advance, OpInv, StageInv, TypeOK
  <2>3. KeptInv(q)'
    BY <1>7 DEF AnnounceClaim, Advance, OpInv, StageInv, PlannedInv, BackupInv, Backed, Settled, CanRollBack, TypeOK
  <2>4. QED BY <1>p, <2>1, <2>2, <2>3
<1>8. CASE ClaimHarness(q)
  <2>1. op[q].at # "idle"
    BY <1>8 DEF ClaimHarness
  <2>2. NamesInv(q)'
    BY <1>8 DEF ClaimHarness, Advance, OpInv, StageInv, TypeOK
  <2>3. KeptInv(q)'
    BY <1>8 DEF ClaimHarness, Advance, OpInv, StageInv, PlannedInv, BackupInv, Backed, Settled, CanRollBack, TypeOK
  <2>4. QED BY <1>p, <2>1, <2>2, <2>3
<1>9. CASE CheckClaim(q)
  <2>1. op[q].at # "idle"
    BY <1>9 DEF CheckClaim
  <2>2. NamesInv(q)'
    BY <1>9 DEF CheckClaim, Advance, OpInv, StageInv, TypeOK
  <2>3. KeptInv(q)'
    <3>1. /\ UNCHANGED <<claim, backup, data, edits>> /\ op[q].at = "claimed"
          /\ op'[q].at \in {"checked", "restoring"}
          /\ op'[q].at = "checked" => Holds(claim[q], op[q].from)
      BY <1>9 DEF CheckClaim, Advance, OpType
    <3>2. QED BY <1>r, <3>1
  <2>4. QED BY <1>p, <2>1, <2>2, <2>3
<1>10. CASE AnnouncePublish(q)
  <2>1. op[q].at # "idle"
    BY <1>10 DEF AnnouncePublish
  <2>2. NamesInv(q)'
    BY <1>10 DEF AnnouncePublish, Advance, OpInv, StageInv, TypeOK
  <2>3. KeptInv(q)'
    BY <1>10 DEF AnnouncePublish, Advance, OpInv, StageInv, PlannedInv, BackupInv, Backed, Settled, CanRollBack, TypeOK
  <2>4. QED BY <1>p, <2>1, <2>2, <2>3
<1>11. CASE LinkBackup(q)
  <2>1. op[q].at # "idle"
    BY <1>11 DEF LinkBackup
  <2>2. NamesInv(q)'
    BY <1>11 DEF LinkBackup, Advance, OpInv, StageInv, TypeOK
  <2>3. KeptInv(q)'
    BY <1>11 DEF LinkBackup, Advance, OpInv, StageInv, PlannedInv, BackupInv, Backed, Settled, CanRollBack, TypeOK
  <2>4. QED BY <1>p, <2>1, <2>2, <2>3
<1>12. CASE LinkReceipt(q)
  <2>1. op[q].at # "idle"
    BY <1>12 DEF LinkReceipt
  <2>2. NamesInv(q)'
    BY <1>12 DEF LinkReceipt, Advance, OpInv, StageInv, TypeOK
  <2>3. KeptInv(q)'
    BY <1>12 DEF LinkReceipt, Advance, OpInv, StageInv, PlannedInv, BackupInv, Backed, Settled, CanRollBack, TypeOK
  <2>4. QED BY <1>p, <2>1, <2>2, <2>3
<1>13. CASE LinkHarness(q)
  <2>1. op[q].at # "idle"
    BY <1>13 DEF LinkHarness
  <2>2. NamesInv(q)'
    BY <1>13 DEF LinkHarness, Advance, OpInv, StageInv, TypeOK
  <2>3. KeptInv(q)'
    BY <1>13 DEF LinkHarness, Advance, OpInv, StageInv, PlannedInv, BackupInv, Backed, Settled, CanRollBack, TypeOK
  <2>4. QED BY <1>p, <2>1, <2>2, <2>3
<1>14. CASE RecordPublished(q)
  <2>1. op[q].at # "idle"
    BY <1>14 DEF RecordPublished
  <2>2. NamesInv(q)'
    BY <1>14 DEF RecordPublished, Advance, OpInv, StageInv, TypeOK
  <2>3. KeptInv(q)'
    BY <1>14 DEF RecordPublished, Advance, OpInv, StageInv, PlannedInv, BackupInv, Backed, Settled, CanRollBack, TypeOK
  <2>4. QED BY <1>p, <2>1, <2>2, <2>3
<1>15. CASE Complete(q)
  <2>1. op[q].at # "idle"
    BY <1>15 DEF Complete
  <2>2. NamesInv(q)'
    BY <1>15 DEF Complete, Advance, OpInv, StageInv, TypeOK
  <2>3. KeptInv(q)'
    BY <1>15 DEF Complete, Advance, OpInv, StageInv, PlannedInv, BackupInv, Backed, Settled, CanRollBack, TypeOK
  <2>4. QED BY <1>p, <2>1, <2>2, <2>3
<1>16. CASE Throws(q)
  <2>1. op[q].at # "idle"
    BY <1>16 DEF Throws
  <2>2. NamesInv(q)'
    BY <1>16 DEF Throws, Advance, OpInv, StageInv, TypeOK
  <2>3. KeptInv(q)'
    BY <1>16 DEF Throws, Advance, OpInv, StageInv, PlannedInv, BackupInv, Backed, Settled, CanRollBack, TypeOK
  <2>4. QED BY <1>p, <2>1, <2>2, <2>3
<1>17. CASE RestoreClaim(q)
  <2>1. op[q].at # "idle"
    BY <1>17 DEF RestoreClaim
  <2>2. NamesInv(q)'
    BY <1>17 DEF RestoreClaim, Advance, OpInv, StageInv, TypeOK
  <2>3. KeptInv(q)'
    BY <1>17 DEF RestoreClaim, Advance, OpInv, StageInv, PlannedInv, BackupInv, Backed, Settled, CanRollBack, TypeOK
  <2>4. QED BY <1>p, <2>1, <2>2, <2>3
<1>18. CASE MarkFailure(q)
  <2>1. op[q].at # "idle"
    BY <1>18 DEF MarkFailure
  <2>2. NamesInv(q)'
    BY <1>18 DEF MarkFailure, Advance, OpInv, StageInv, TypeOK
  <2>3. KeptInv(q)'
    BY <1>18 DEF MarkFailure, Advance, OpInv, StageInv, PlannedInv, BackupInv, Backed, Settled, CanRollBack, TypeOK
  <2>4. QED BY <1>p, <2>1, <2>2, <2>3
<1>19. CASE Release(q)
  <2>1. op[q].at # "idle"
    BY <1>19 DEF Release
  <2>2. NamesInv(q)'
    BY <1>19 DEF Release, Advance, OpInv, StageInv, TypeOK
  <2>3. KeptInv(q)'
    BY <1>19 DEF Release, Advance, OpInv, StageInv, PlannedInv, BackupInv, Backed, Settled, CanRollBack, TypeOK
  <2>4. QED BY <1>p, <2>1, <2>2, <2>3
<1>20. CASE Crash(q)
  <2>1. op[q].at # "idle"
    BY <1>20 DEF Crash, Running
  <2>2. NamesInv(q)'
    BY <1>20 DEF Crash, Running, Advance, OpInv, StageInv, TypeOK
  <2>3. KeptInv(q)'
    BY <1>20 DEF Crash, Running, Advance, OpInv, StageInv, PlannedInv, BackupInv, Backed, Settled, CanRollBack, TypeOK
  <2>4. QED BY <1>p, <2>1, <2>2, <2>3
<1>21. CASE TakeMarker(q)
  <2>1. op[q].at # "idle"
    BY <1>21 DEF TakeMarker
  <2>2. NamesInv(q)'
    BY <1>21 DEF TakeMarker, Advance, OpInv, StageInv, TypeOK
  <2>3. KeptInv(q)'
    BY <1>21 DEF TakeMarker, Advance, OpInv, StageInv, PlannedInv, BackupInv, Backed, Settled, CanRollBack, TypeOK
  <2>4. QED BY <1>p, <2>1, <2>2, <2>3
<1>22. QED
  BY <1>1, <1>2, <1>3, <1>4, <1>5, <1>6, <1>7, <1>8, <1>9, <1>10, <1>11, <1>12, <1>13, <1>14, <1>15, <1>16, <1>17, <1>18, <1>19, <1>20, <1>21 DEF Manage

(***************************************************************************)
(* What a step of an operation does to the journal, the harness and the    *)
(* history.                                                                *)
(***************************************************************************)
JournalFrame(q) ==
  /\ op'[q].at # "idle"
  /\ \/ journal' = journal
     \/ /\ op[q].at \in Critical /\ journal'.op = q
        /\ \/ journal'.phase \in {"planned", "preparing", "staged"} /\ ~journal'.claimed
           \/ journal'.phase \in {"claiming", "claimed", "publishing", "failed"}
           \/ journal'.phase = "published" /\ op[q].at = "linked" /\ UNCHANGED harness
           \/ /\ journal'.phase = "complete" /\ journal'.claimed /\ journal'.op = q
              /\ op[q].at = "published" /\ op'[q].at = "ending" /\ UNCHANGED Files
  /\ \/ harness' # NoFile
     \/ harness = NoFile /\ (journal' = journal \/ journal'.phase # "published")
     \/ op[q].at = "claiming" /\ journal' = journal
  /\ op'[q].at = "claiming" => journal'.phase = "claiming" /\ op[q].at = "staged"
  /\ \/ latest' = latest
     \/ op[q].at = "receipted" /\ harness = NoFile /\ latest' = op[q].to
  /\ op[q].at \notin Unstaged \cup Started =>
       op'[q].at \notin Unstaged \cup Staged /\ journal' = journal

LEMMA JournalFrames ==
  ASSUME TypeOK, \A o \in Ops : JournalInv(o), NEW q \in Ops, Manage(q)
  PROVE  JournalFrame(q)
<1>n. op \in [Ops -> OpType] /\ DOMAIN op = Ops
  BY DEF TypeOK, OpType
<1> USE <1>n
    DEF JournalFrame, OpType, JournalInv, Files, Outside, Goes, Advance, Critical, Started, Unstaged, Staged
<1>1. ASSUME NEW v \in Versions, PlanInstall(q, v) PROVE JournalFrame(q)
  BY <1>1 DEF PlanInstall
<1>2. ASSUME NEW b \in Ops, PlanRollback(q, b) PROVE JournalFrame(q)
  BY <1>2 DEF PlanRollback
<1>3. CASE TakeMarker(q) BY <1>3 DEF TakeMarker
<1>4. CASE StartJournal(q) BY <1>4 DEF StartJournal
<1>5. CASE PrepareVersion(q) BY <1>5 DEF PrepareVersion, Holds
<1>6. CASE PublishVersion(q) BY <1>6 DEF PublishVersion
<1>7. CASE StageHarness(q) BY <1>7 DEF StageHarness, CanRollBack, Holds
<1>8. CASE AnnounceClaim(q) BY <1>8 DEF AnnounceClaim
<1>9. CASE ClaimHarness(q) BY <1>9 DEF ClaimHarness
<1>10. CASE CheckClaim(q) BY <1>10 DEF CheckClaim, Holds
<1>11. CASE AnnouncePublish(q) BY <1>11 DEF AnnouncePublish
<1>12. CASE LinkBackup(q) BY <1>12 DEF LinkBackup
<1>13. CASE LinkReceipt(q) BY <1>13 DEF LinkReceipt
<1>14. CASE LinkHarness(q) BY <1>14 DEF LinkHarness
<1>15. CASE RecordPublished(q) BY <1>15 DEF RecordPublished
<1>16. CASE Complete(q) BY <1>16 DEF Complete
<1>17. CASE Throws(q) BY <1>17 DEF Throws
<1>18. CASE RestoreClaim(q) BY <1>18 DEF RestoreClaim
<1>19. CASE MarkFailure(q) BY <1>19 DEF MarkFailure
<1>20. CASE Release(q) BY <1>20 DEF Release
<1>21. CASE Crash(q) BY <1>21 DEF Crash, Running
<1>22. QED
  BY <1>1, <1>2, <1>3, <1>4, <1>5, <1>6, <1>7, <1>8, <1>9, <1>10, <1>11,
     <1>12, <1>13, <1>14, <1>15, <1>16, <1>17, <1>18, <1>19, <1>20, <1>21 DEF Manage

(***************************************************************************)
(* So UInv is kept by every step of an operation.                          *)
(***************************************************************************)
LEMMA ManageUndisturbed ==
  ASSUME IInv, TypeOK', KInv, UInv, NEW q \in Ops, Manage(q)
  PROVE  UInv'
<1>0. /\ TypeOK /\ HarnessInv /\ CountInv /\ DoneInv /\ PhaseInv
      /\ \A o \in Ops : MarkerInv(o) /\ JournalInv(o) /\ PlanInv(o) /\ CheckInv(o)
      /\ PlannedInv(q) /\ KeptInv(q) /\ BackupInv(q)
  BY DEF IInv, OpInv, KInv, UInv
<1>1. Frame(q) /\ JournalFrame(q)
  BY <1>0, Frames, JournalFrames
<1>2. \A o \in Ops : PlannedInv(o)' /\ NamesInv(o)' /\ KeptInv(o)'
  BY <1>1, OwnStep, Bystander
<1>3. CountInv'
  <2>1. CASE latest' = latest
    BY <1>0, <1>1, <2>1 DEF CountInv, Frame
  <2>2. CASE op[q].at = "receipted" /\ harness = NoFile /\ latest' = op[q].to
    <3>1. journal.op = q /\ Holds(claim[q], op[q].from) /\ op[q].from # Torn
      BY <1>0, <2>2, Names DEF JournalInv, CheckInv, PlanInv, Started, Checked
    <3>2. latest = op[q].from
      BY <1>0, <2>2, <3>1 DEF HarnessInv, Holds
    <3>3. QED BY <1>0, <1>1, <2>2, <3>1, <3>2 DEF CountInv, PlannedInv, Frame
  <2>3. QED BY <1>1, <2>1, <2>2 DEF JournalFrame
<1>4. PhaseInv'
  <2>0. ASSUME journal'.phase # "none" PROVE journal'.op \in Ops /\ op'[journal'.op].at # "idle"
    BY <1>0, <1>1, <2>0 DEF JournalFrame, Frame, PhaseInv, TypeOK
  <2>1. journal'.claimed => journal'.phase \notin {"none", "planned", "preparing", "staged"}
    BY <1>0, <1>1 DEF JournalFrame, PhaseInv
  <2>2. journal'.phase = "published" => harness' # NoFile
    BY <1>0, <1>1, Names DEF JournalFrame, PhaseInv, JournalInv, Started
  <2>3. ASSUME NEW o \in Ops, op'[o].at = "claiming" PROVE journal'.phase = "claiming"
    <3>1. CASE o = q BY <1>1, <2>3, <3>1 DEF JournalFrame
    <3>2. CASE o # q
      <4>1. op[o].at = "claiming"
        BY <1>0, <1>1, <2>3, <3>2 DEF Frame, TypeOK
      <4>2. op[q].at \notin Critical
        BY <3>2, <4>1, Alone DEF Critical, Started
      <4>3. QED BY <1>0, <1>1, <4>1, <4>2 DEF JournalFrame, PhaseInv
    <3>3. QED BY <3>1, <3>2
  <2>4. QED BY <2>0, <2>1, <2>2, <2>3 DEF PhaseInv
<1>5. DoneInv'
  <2>1. SUFFICES ASSUME journal'.phase = "complete" PROVE DoneInv'
    BY DEF DoneInv
  <2>2. CASE journal' # journal
    <3>1. /\ journal'.claimed /\ journal'.op = q /\ op[q].at = "published"
          /\ op'[q].at = "ending" /\ UNCHANGED Files
      BY <1>1, <2>1, <2>2 DEF JournalFrame
    <3>2. op'[q] = [op[q] EXCEPT !.at = "ending"] /\ op[q] \in OpType
      BY <1>0, <1>1, <3>1 DEF Frame, TypeOK, OpType
    <3>3. /\ op'[q].from = op[q].from /\ op'[q].to = op[q].to
          /\ op'[q].kind = op[q].kind /\ op'[q].of = op[q].of
          /\ op[q].kind \in {"install", "rollback"}
      BY <3>2 DEF OpType
    <3>4. BackupFor(q) \in receipt /\ (op[q].kind = "install" => backup[q] = claim[q])
      BY <1>0, <3>1, <3>3 DEF BackupFor, BackupInv, PlannedInv, Settled, Backed
    <3>5. Untouched(q) => InPlace(q)
      BY <1>0, <3>1, <3>3, <3>4 DEF KeptInv, InPlace, BackupFor, BytesFor
    <3>6. QED
      BY <1>1, <3>1, <3>3, <3>4, <3>5
         DEF DoneInv, InPlace, BackupFor, BytesFor, Holds, Untouched, Files, Frame, Unstaged, Staged
  <2>3. CASE journal' = journal
    <3>0. PICK o \in Ops : o = journal.op
      BY <1>0, <2>1, <2>3 DEF DoneInv
    <3>1. /\ journal.claimed /\ op[o].at \notin Unstaged \cup Staged
          /\ BackupFor(o) \in receipt /\ (Untouched(o) => InPlace(o))
      BY <1>0, <2>1, <2>3, <3>0 DEF DoneInv
    <3>2. op[q].at \notin Started
      BY <1>0, <2>1, <2>3 DEF JournalInv
    <3>3. UNCHANGED Files /\ edits' = edits
      BY <1>1, <3>2 DEF Frame
    <3>4. op'[o] = [op[o] EXCEPT !.at = op'[o].at] /\ op[o] \in OpType
      BY <1>0, <1>1, <3>1, PlansStay DEF TypeOK, OpType, Unstaged
    <3>5. /\ op'[o].from = op[o].from /\ op'[o].to = op[o].to
          /\ op'[o].kind = op[o].kind /\ op'[o].of = op[o].of
      BY <3>4 DEF OpType
    <3>6. op'[o].at \notin Unstaged \cup Staged
      BY <1>0, <1>1, <3>1, <3>2 DEF Frame, JournalFrame, TypeOK
    <3>7. BackupFor(o)' = BackupFor(o) /\ BytesFor(o)' = BytesFor(o) /\ Untouched(o)' = Untouched(o)
      BY <3>3, <3>5 DEF BackupFor, BytesFor, Untouched
    <3>8. InPlace(o)' <=> InPlace(o)
      BY <3>3, <3>5, <3>7 DEF InPlace, Holds, Files
    <3>9. QED BY <2>3, <3>0, <3>1, <3>3, <3>6, <3>7, <3>8 DEF DoneInv, Files
  <2>4. QED BY <2>2, <2>3
<1>6. QED BY <1>2, <1>3, <1>4, <1>5 DEF UInv

(***************************************************************************)
(* Editors and the operator keep UInv: an edit changes the number, and the *)
(* operator only puts back a claim or sets a journal aside.                *)
(***************************************************************************)
LEMMA OutsideUndisturbed ==
  ASSUME IInv, KInv, UInv, Edit \/ OperatorRecovers
  PROVE  UInv'
<1>0. /\ TypeOK /\ HarnessInv /\ EditorInv /\ CountInv /\ DoneInv /\ PhaseInv
      /\ \A o \in Ops : PlanInv(o) /\ StageInv(o)
      /\ \A o \in Ops : PlannedInv(o) /\ NamesInv(o) /\ KeptInv(o)
  BY DEF IInv, OpInv, UInv
<1>t. edits \in Int /\ \A o \in Ops : op[o].to.cfg \in Int /\ (op[o].at = "idle" => op[o] = NotStarted)
  BY <1>0, EditsAssumption DEF TypeOK, Bytes, PlanInv
<1>1. ASSUME edits' = edits + 1, UNCHANGED <<claim, backup, receipt, versions, marker, journal, op>>,
             editor # NoFile => editor' = editor,
             harness' # NoFile, CountInv'
      PROVE  UInv'
  <2>1. ASSUME NEW o \in Ops PROVE PlannedInv(o)' /\ (op[o].at # "idle" => ~Untouched(o)')
    BY <1>0, <1>t, <1>1 DEF PlannedInv, Untouched
  <2>2. ASSUME NEW o \in Ops PROVE NamesInv(o)' /\ KeptInv(o)'
    BY <1>0, <1>1, <2>1 DEF NamesInv, KeptInv, Checked, Staged
  <2>3. DoneInv' /\ PhaseInv'
    BY <1>0, <1>1, <2>1 DEF DoneInv, PhaseInv, BackupFor, Unstaged
  <2>4. QED BY <1>1, <2>1, <2>2, <2>3 DEF UInv
<1>2. CASE EditByReplacing
  <2>1. CountInv'
    BY <1>2 DEF EditByReplacing, CountInv, Edited
  <2>2. QED BY <1>1, <1>2, <1>0, <2>1, Names, EditsAssumption DEF EditByReplacing, TypeOK, Edits, Inodes
<1>3. CASE TruncateToEdit
  <2>1. CountInv'
    BY <1>3 DEF TruncateToEdit, CountInv
  <2>2. QED BY <1>1, <1>3, <2>1 DEF TruncateToEdit
<1>4. CASE WriteEdit
  <2>1. \A o \in Ops : op[o].at # "idle" => ~Untouched(o)
    BY <1>0, <1>4 DEF WriteEdit, PlannedInv
  <2>2. UNCHANGED <<harness, claim, backup, receipt, versions, marker, journal, op, edits>> /\ editor' = NoFile
    BY <1>4 DEF WriteEdit
  <2>3. CountInv'
    BY <1>4 DEF WriteEdit, CountInv
  <2>4. ASSUME NEW o \in Ops PROVE PlannedInv(o)' /\ NamesInv(o)' /\ KeptInv(o)'
    BY <1>0, <2>1, <2>2 DEF PlannedInv, NamesInv, KeptInv, Untouched, Checked, Staged
  <2>5. DoneInv' /\ PhaseInv'
    BY <1>0, <2>1, <2>2 DEF DoneInv, PhaseInv, BackupFor, Untouched, Unstaged
  <2>6. QED BY <2>3, <2>4, <2>5 DEF UInv
<1>5. CASE OperatorRecovers
  <2>1. /\ UNCHANGED <<claim, backup, receipt, data, versions, op, editor, edits, latest>>
        /\ harness # NoFile => harness' = harness
        /\ journal' = NoJournal \/ (journal.phase = "complete" /\ journal' = journal)
        /\ \A o \in Ops : op[o].at \notin {"linked", "published", "claiming"}
    BY <1>5 DEF OperatorRecovers, Outside, Running
  <2>2. ASSUME NEW o \in Ops PROVE PlannedInv(o)' /\ NamesInv(o)' /\ KeptInv(o)'
    BY <1>0, <2>1 DEF PlannedInv, NamesInv, KeptInv, Untouched, Holds
  <2>3. CountInv' /\ PhaseInv'
    BY <1>0, <2>1 DEF CountInv, PhaseInv, NoJournal
  <2>4. journal.phase = "complete" => harness # NoFile
    BY <1>0 DEF HarnessInv
  <2>5. DoneInv'
    BY <1>0, <2>1, <2>4, Names
       DEF DoneInv, BackupFor, BytesFor, Untouched, InPlace, Holds, NoJournal
  <2>6. QED BY <2>2, <2>3, <2>5 DEF UInv
<1>6. QED BY <1>2, <1>3, <1>4, <1>5 DEF Edit

LEMMA InitUndisturbed == Init => UInv
<1>1. SUFFICES ASSUME Init PROVE UInv
  OBVIOUS
<1>2. CountInv /\ DoneInv /\ PhaseInv
  BY <1>1, Names DEF Init, CountInv, DoneInv, PhaseInv, NoJournal
<1>3. ASSUME NEW o \in Ops PROVE PlannedInv(o) /\ NamesInv(o) /\ KeptInv(o)
  BY <1>1, <1>3, Names DEF Init, PlannedInv, NamesInv, KeptInv, Checked, Staged
<1>4. QED BY <1>2, <1>3 DEF UInv

(***************************************************************************)
(* The invariants of the package manager and UInv, together, for any of    *)
(* its behaviours.                                                         *)
(***************************************************************************)
MInv == IInv /\ KInv /\ UInv

LEMMA ManagerInit == Init => MInv
  BY InitInv, InitKeeps, InitUndisturbed DEF MInv

LEMMA ManagerStep == MInv /\ [Next]_vars => MInv'
<1>1. SUFFICES ASSUME MInv, [Next]_vars PROVE MInv'
  OBVIOUS
<1>2. IInv' /\ TypeOK'
  BY <1>1, NextInv DEF MInv, IInv
<1>3. KInv'
  BY <1>1, NextKeeps DEF MInv
<1>4. UInv'
  <2>1. CASE UNCHANGED vars
    <3>1. UInv /\ UNCHANGED <<harness, claim, backup, receipt, data, journal, op, editor, edits, latest>>
      BY <1>1, <2>1 DEF vars, MInv
    <3>2. CountInv' /\ DoneInv' /\ PhaseInv'
      BY <3>1
         DEF UInv, CountInv, DoneInv, PhaseInv, BackupFor, BytesFor, Untouched, InPlace, Holds
    <3>3. ASSUME NEW o \in Ops PROVE PlannedInv(o)' /\ NamesInv(o)' /\ KeptInv(o)'
      BY <3>1 DEF UInv, PlannedInv, NamesInv, KeptInv, Untouched, Holds
    <3>4. QED BY <3>2, <3>3 DEF UInv
  <2>2. QED BY <1>1, <1>2, <2>1, ManageUndisturbed, OutsideUndisturbed DEF MInv, Next
<1>5. QED BY <1>2, <1>3, <1>4 DEF MInv

-----------------------------------------------------------------------------
(***************************************************************************)
(* The diagnosis.                                                          *)
(***************************************************************************)
LEMMA Planned ==
  ASSUME MInv, [Next]_vars, NEW o \in Ops, op[o].at # "idle"
  PROVE  /\ op'[o].at # "idle"
         /\ op'[o].from = op[o].from /\ op'[o].to = op[o].to
         /\ op'[o].kind = op[o].kind /\ op'[o].of = op[o].of
         /\ Untouched(o)' => Untouched(o)
<1>0. /\ IInv /\ UInv /\ TypeOK /\ op[o] \in OpType /\ op[o].to.cfg <= edits
      /\ edits \in Int /\ op[o].to.cfg \in Int
  BY EditsAssumption DEF MInv, IInv, UInv, PlannedInv, TypeOK, OpType, Bytes
<1>1. ASSUME NEW q \in Ops, Manage(q)
      PROVE  op'[o].at # "idle" /\ op'[o] = [op[o] EXCEPT !.at = op'[o].at] /\ edits' = edits
  <2>1. Frame(q)
    BY <1>0, <1>1, Frames
  <2>2. op'[o] = [op[o] EXCEPT !.at = op'[o].at]
    BY <1>0, <2>1, PlansStay
  <2>3. QED BY <1>0, <2>1, <2>2 DEF Frame, TypeOK
<1>2. ASSUME Edit \/ OperatorRecovers \/ UNCHANGED vars
      PROVE  op' = op /\ edits' \in {edits, edits + 1}
  BY <1>2
     DEF Edit, EditByReplacing, TruncateToEdit, WriteEdit, OperatorRecovers, Outside, vars
<1>3. CASE \E q \in Ops : Manage(q)
  BY <1>0, <1>1, <1>3 DEF OpType, Untouched
<1>4. CASE Edit \/ OperatorRecovers \/ UNCHANGED vars
  BY <1>0, <1>2, <1>4 DEF Untouched
<1>5. QED BY <1>3, <1>4 DEF Next

LEMMA ReadsType ==
  ASSUME TypeOK, NEW inode \in FileOrNone
  PROVE  Read(inode) \in ReadFile /\ (Read(inode) = NoFile <=> inode = NoFile)
<1>1. CASE inode = NoFile BY <1>1 DEF Read, ReadFile
<1>2. CASE inode # NoFile
  <2>1. Read(inode) = [inode |-> inode, bytes |-> data[inode]] /\ inode \in Inodes
    BY <1>2 DEF Read, FileOrNone
  <2>2. Read(inode) \in [inode : Inodes, bytes : Bytes]
    BY <2>1 DEF TypeOK
  <2>3. QED BY <1>2, <2>2, ReadAssumption DEF ReadFile
<1>3. QED BY <1>1, <1>2

(***************************************************************************)
(* A step of the diagnosis: the files and the journal it looks at have a   *)
(* type, and what it adds to what it has read is what is there.            *)
(***************************************************************************)
LEMMA JournalNames ==
  ASSUME MInv, NEW j \in JournalType, j.phase # "none" => j.op \in Ops /\ op[j.op].at # "idle",
         j.phase # "none"
  PROVE  BackupOf(j) = BackupFor(j.op) /\ BackupBytes(j) = BytesFor(j.op) /\ BackupOf(j) \in Ops
<1>1. TypeOK /\ PlannedInv(j.op)
  BY DEF MInv, IInv, UInv
<1>2. op[j.op].kind \in {"install", "rollback"}
  BY <1>1 DEF TypeOK
<1>3. QED BY <1>1, <1>2 DEF BackupOf, BackupFor, BackupBytes, BytesFor, PlannedInv, TypeOK

LEMMA Look ==
  ASSUME look \in LookType, NEW from \in Steps, NEW to \in Steps, NEW result \in LookType,
         Reads(from, to, result), result.together = look.together
  PROVE  /\ UNCHANGED vars /\ look.at = from /\ look' \in LookType
         /\ look'.at = to /\ look'.claims = result.claims /\ look'.journal = result.journal
         /\ look'.marker = result.marker /\ look'.harness = result.harness
         /\ look'.claim = result.claim /\ look'.backup = result.backup
         /\ look'.receipt = result.receipt /\ look'.quiet = result.quiet
         /\ look'.together = look.together \cup AllInPlace
<1>1. AllInPlace \subseteq Ops
  BY DEF AllInPlace
<1>2. look' = [result EXCEPT !.at = to, !.together = result.together \cup AllInPlace]
  BY DEF Reads
<1>3. result.together \cup AllInPlace \in SUBSET Ops
  BY <1>1 DEF LookType
<1> HIDE DEF AllInPlace
<1>4. QED BY <1>2, <1>3 DEF Reads, LookType

(***************************************************************************)
(* Every read of the diagnosis keeps LookInv.                              *)
(***************************************************************************)
LEMMA ReadKeeps ==
  ASSUME MInv, LookInv,
         ReadClaims \/ ReadJournal \/ ReadMarker \/ ReadHarness \/ ReadClaim \/ ReadBackup
  PROVE  LookInv'
<1>0. /\ TypeOK /\ HarnessInv /\ CountInv /\ DoneInv /\ PhaseInv
      /\ \A o \in Ops : PlannedInv(o) /\ PlanInv(o)
      /\ look \in LookType /\ NamedInv /\ TogetherInv /\ QuietInv
  BY DEF MInv, IInv, UInv, OpInv, LookInv
<1>1. /\ claim \in [Ops -> FileOrNone] /\ backup \in [Ops -> FileOrNone] /\ harness \in FileOrNone
      /\ journal \in JournalType /\ receipt \subseteq Ops
  BY <1>0 DEF TypeOK, JournalType
<1>2. \A inode \in FileOrNone : Read(inode) \in ReadFile
  BY <1>0, ReadsType
<1> USE DEF Steps, ReadJournalBy, ReadHarnessBy
<1>3. CASE ReadClaims
  <2> DEFINE found == {[op |-> o, file |-> Read(claim[o])] : o \in {p \in Ops : claim[p] # NoFile}}
             result == [look EXCEPT !.claims = found]
  <2>1. found \in SUBSET [op : Ops, file : ReadFile]
    BY <1>1, <1>2
  <2> HIDE DEF found
  <2>2. result \in LookType /\ result.together = look.together
    BY <1>0, <2>1 DEF LookType
  <2>3. Reads("idle", "claims", result)
    BY <1>3 DEF ReadClaims, found
  <2>r. /\ result.claims = found /\ result.journal = look.journal
        /\ result.marker = look.marker /\ result.harness = look.harness
        /\ result.claim = look.claim /\ result.quiet = look.quiet
    BY <1>0 DEF LookType
  <2>4. /\ UNCHANGED vars /\ look' \in LookType /\ look'.at = "claims" /\ look'.claims = found
        /\ look'.journal = result.journal
    <3> HIDE DEF result
    <3>1. QED BY <1>0, <2>2, <2>3, <2>r, Look
  <2>5. NamedInv' /\ TogetherInv'
    BY <1>0, <2>4 DEF NamedInv, TogetherInv, LookType, vars
  <2>6. QuietInv'
    BY <2>4 DEF QuietInv, found, Read, vars
  <2>7. QED BY <2>4, <2>5, <2>6 DEF LookInv
<1>4. CASE ReadJournal
  <2> DEFINE result == [look EXCEPT !.journal = journal]
  <2>2. result \in LookType /\ result.together = look.together
    BY <1>0, <1>1 DEF LookType
  <2>3. Reads("claims", "journal", result)
    BY <1>4 DEF ReadJournal
  <2>r. /\ result.claims = look.claims /\ result.journal = journal
        /\ result.marker = look.marker /\ result.harness = look.harness
        /\ result.claim = look.claim /\ result.quiet = look.quiet
    BY <1>0 DEF LookType
  <2>4. /\ UNCHANGED vars /\ look.at = "claims" /\ look' \in LookType /\ look'.at = "journal"
        /\ look'.claims = look.claims /\ look'.journal = journal
        /\ look'.quiet = look.quiet /\ look'.together = look.together \cup AllInPlace
    <3> HIDE DEF result
    <3>1. QED BY <1>0, <2>2, <2>3, <2>r, Look
  <2>5. NamedInv'
    BY <1>0, <2>4 DEF NamedInv, PhaseInv, vars
  <2>6. TogetherInv'
    <3>1. SUFFICES ASSUME journal.phase = "complete", Untouched(journal.op)
                   PROVE  journal.op \in AllInPlace
      BY <2>4 DEF TogetherInv, Untouched, vars
    <3>2. journal.op \in Ops /\ InPlace(journal.op)
      BY <1>0, <3>1 DEF DoneInv
    <3>3. BackupOf(journal) = BackupFor(journal.op) /\ BackupBytes(journal) = BytesFor(journal.op)
      BY <1>0, <1>1, <3>1, JournalNames DEF PhaseInv
    <3>4. QED BY <3>1, <3>2, <3>3, Names DEF AllInPlace, InPlace, Holds
  <2>7. QuietInv'
    BY <1>0, <2>4 DEF QuietInv, Read, vars
  <2>8. QED BY <2>4, <2>5, <2>6, <2>7 DEF LookInv
<1>5. CASE ReadMarker
  <2> DEFINE result == [look EXCEPT !.marker = marker # NoFile]
  <2>2. result \in LookType /\ result.together = look.together
    BY <1>0 DEF LookType
  <2>3. Reads("journal", "marker", result)
    BY <1>5 DEF ReadMarker
  <2>r. /\ result.claims = look.claims /\ result.journal = look.journal
        /\ result.marker = (marker # NoFile) /\ result.harness = look.harness
        /\ result.claim = look.claim /\ result.quiet = look.quiet
    BY <1>0 DEF LookType
  <2>4. /\ UNCHANGED vars /\ look.at = "journal" /\ look' \in LookType /\ look'.at = "marker"
        /\ look'.claims = look.claims /\ look'.journal = look.journal
        /\ look'.marker = (marker # NoFile)
        /\ look'.quiet = look.quiet /\ look'.together = look.together \cup AllInPlace
    <3> HIDE DEF result
    <3>1. QED BY <1>0, <2>2, <2>3, <2>r, Look
  <2>5. NamedInv' /\ TogetherInv'
    BY <1>0, <2>4 DEF NamedInv, TogetherInv, Untouched, vars
  <2>6. QuietInv'
    BY <1>0, <2>4 DEF QuietInv, Read, vars
  <2>7. QED BY <2>4, <2>5, <2>6 DEF LookInv
<1>6. CASE ReadHarness
  <2> DEFINE result == [look EXCEPT !.harness = Read(harness)]
  <2>2. result \in LookType /\ result.together = look.together
    BY <1>0, <1>1, <1>2 DEF LookType
  <2>3. Reads("marker", "harness", result)
    BY <1>6 DEF ReadHarness
  <2>r. /\ result.claims = look.claims /\ result.journal = look.journal
        /\ result.marker = look.marker /\ result.harness = Read(harness)
        /\ result.claim = look.claim /\ result.quiet = look.quiet
    BY <1>0 DEF LookType
  <2>4. /\ UNCHANGED vars /\ look.at = "marker" /\ look' \in LookType /\ look'.at = "harness"
        /\ look'.claims = look.claims /\ look'.journal = look.journal
        /\ look'.marker = look.marker /\ look'.harness = Read(harness)
        /\ look'.quiet = look.quiet /\ look'.together = look.together \cup AllInPlace
    <3> HIDE DEF result
    <3>1. QED BY <1>0, <2>2, <2>3, <2>r, Look
  <2>5. NamedInv'
    BY <1>0, <2>4 DEF NamedInv, vars
  <2>6. TogetherInv'
    <3> DEFINE o == look.journal.op
    <3>1. ASSUME look.journal.phase = "complete", Found(Read(harness), op[o].to) PROVE Untouched(o)
      <4>1. o \in Ops /\ op[o].to # Torn
        BY <1>0, <3>1 DEF NamedInv, PlanInv
      <4>2. harness # NoFile /\ data[harness] = op[o].to
        BY <3>1 DEF Found, Read
      <4>3. QED BY <1>0, <4>1, <4>2 DEF HarnessInv, Holds, CountInv, Untouched
    <3>2. look.journal.phase = "complete" /\ Untouched(o) => o \in look.together
      BY <1>0, <2>4 DEF TogetherInv
    <3>3. look.journal.phase = "complete" /\ Found(Read(harness), op[o].to) => o \in look.together
      BY <3>1, <3>2
    <3>4. QED BY <2>4, <3>2, <3>3 DEF TogetherInv, Untouched, vars
  <2>7. QuietInv'
    BY <1>0, <2>4 DEF QuietInv, Read, vars
  <2>8. QED BY <2>4, <2>5, <2>6, <2>7 DEF LookInv
<1>7. CASE ReadClaim
  <2> DEFINE result == [look EXCEPT !.claim = IF look.journal.claimed THEN Read(claim[look.journal.op])
                                                              ELSE NoFile]
  <2>1. (IF look.journal.claimed THEN Read(claim[look.journal.op]) ELSE NoFile) \in ReadFile
    BY <1>0, <1>1, <1>2 DEF NamedInv, ReadFile
  <2>2. result \in LookType /\ result.together = look.together
    BY <1>0, <2>1 DEF LookType
  <2>3. Reads("harness", "claim", result)
    BY <1>7 DEF ReadClaim
  <2>r. /\ result.claims = look.claims /\ result.journal = look.journal
        /\ result.marker = look.marker /\ result.harness = look.harness
        /\ result.claim = (IF look.journal.claimed THEN Read(claim[look.journal.op]) ELSE NoFile) /\ result.quiet = look.quiet
    BY <1>0 DEF LookType
  <2>4. /\ UNCHANGED vars /\ look.at = "harness" /\ look' \in LookType /\ look'.at = "claim"
        /\ look'.claims = look.claims /\ look'.journal = look.journal
        /\ look'.marker = look.marker /\ look'.harness = look.harness
        /\ look'.claim = (IF look.journal.claimed THEN Read(claim[look.journal.op]) ELSE NoFile)
        /\ look'.quiet = look.quiet /\ look'.together = look.together \cup AllInPlace
    <3> HIDE DEF result
    <3>1. QED BY <1>0, <2>2, <2>3, <2>r, Look
  <2>5. NamedInv' /\ TogetherInv'
    BY <1>0, <2>4 DEF NamedInv, TogetherInv, Untouched, Found, vars
  <2>6. QuietInv'
    BY <1>0, <2>4 DEF QuietInv, Read, vars
  <2>7. QED BY <2>4, <2>5, <2>6 DEF LookInv
<1>8. CASE ReadBackup
  <2> DEFINE b == BackupOf(look.journal)
             result == IF look.journal.phase = "none" THEN look
                       ELSE [look EXCEPT !.backup = Read(backup[b]), !.receipt = b \in receipt]
  <2>1. look.journal.phase # "none" => b \in Ops
    BY <1>0, JournalNames DEF NamedInv, LookType
  <2>2. result \in LookType /\ result.together = look.together
    <3>1. CASE look.journal.phase = "none" BY <1>0, <3>1
    <3>2. CASE look.journal.phase # "none"
      <4>1. Read(backup[b]) \in ReadFile
        BY <1>1, <1>2, <2>1, <3>2
      <4> HIDE DEF b
      <4> DEFINE l == [look EXCEPT !.backup = Read(backup[b])]
      <4>2. l \in LookType
        BY <1>0, <4>1 DEF LookType
      <4>3. result = [l EXCEPT !.receipt = b \in receipt]
        BY <1>0, <3>2 DEF LookType
      <4> HIDE DEF l
      <4>4. [l EXCEPT !.receipt = b \in receipt] \in LookType
        <5>1. \A found \in BOOLEAN : [l EXCEPT !.receipt = found] \in LookType
          BY <4>2 DEF LookType
        <5>2. (b \in receipt) \in BOOLEAN
          OBVIOUS
        <5>3. QED BY <5>1, <5>2, Zenon
      <4>5. result.together = look.together
        BY <1>0, <3>2 DEF LookType
      <4>6. QED BY <4>3, <4>4, <4>5
    <3>3. QED BY <3>1, <3>2
  <2>3. Reads("claim", "backup", result)
    BY <1>8 DEF ReadBackup
  <2>r. /\ result.claims = look.claims /\ result.journal = look.journal
        /\ result.marker = look.marker /\ result.harness = look.harness
        /\ result.claim = look.claim /\ result.quiet = look.quiet
        /\ look.journal.phase # "none" =>
             result.backup = Read(backup[b]) /\ result.receipt = (b \in receipt)
    BY <1>0 DEF LookType
  <2>4. /\ UNCHANGED vars /\ look.at = "claim" /\ look' \in LookType /\ look'.at = "backup"
        /\ look'.claims = look.claims /\ look'.journal = look.journal
        /\ look'.marker = look.marker /\ look'.harness = look.harness /\ look'.claim = look.claim
        /\ look.journal.phase # "none" =>
             look'.backup = Read(backup[b]) /\ look'.receipt = (b \in receipt)
        /\ look'.quiet = look.quiet /\ look'.together = look.together \cup AllInPlace
    <3> HIDE DEF result
    <3>1. QED BY <1>0, <2>2, <2>3, <2>r, Look
  <2>5. NamedInv' /\ TogetherInv'
    BY <1>0, <2>4 DEF NamedInv, TogetherInv, Untouched, Found, vars
  <2>6. QuietInv'
    <3>1. SUFFICES ASSUME look.quiet PROVE QuietInv'
      BY <2>4 DEF QuietInv
    <3>2. look.journal = journal /\ b = BackupOf(journal)
      BY <1>0, <2>4, <3>1 DEF QuietInv
    <3>3. BackupOf(journal)' = b /\ Read(backup[b])' = Read(backup[b])
      BY <2>4, <3>2 DEF BackupOf, Read, vars
    <3> HIDE DEF b
    <3>4. QED BY <1>0, <2>4, <3>1, <3>2, <3>3 DEF QuietInv, Read, vars
  <2>7. QED BY <2>4, <2>5, <2>6 DEF LookInv
<1>9. QED BY <1>3, <1>4, <1>5, <1>6, <1>7, <1>8

(***************************************************************************)
(* A step of anybody else disturbs a diagnosis under way, and lets what it *)
(* knows of the past stand.                                                *)
(***************************************************************************)
LEMMA NotLookedType ==
  NotLooked \in LookType /\ NotLooked.at = "idle" /\ NotLooked.journal = NoJournal
  BY DEF NotLooked, LookType, Steps, ReadFile, JournalType, NoJournal, Phases

LEMMA DisturbedKeeps ==
  ASSUME MInv, LookInv, Next,
         look' = IF look.at \in {"idle", "backup"} THEN NotLooked
                 ELSE [look EXCEPT !.quiet = FALSE, !.together = @ \cup AllInPlace']
  PROVE  LookInv'
<1>1. CASE look.at \in {"idle", "backup"}
  <2>1. look' = NotLooked
    BY <1>1
  <2>2. look' \in LookType /\ look'.at = "idle" /\ look'.journal = NoJournal
    BY <2>1, NotLookedType
  <2>3. QED
    BY <2>2 DEF NoJournal, LookInv, NamedInv, TogetherInv, QuietInv, ReadJournalBy, ReadHarnessBy
<1>2. CASE look.at \notin {"idle", "backup"}
  <2>1. look \in LookType /\ NamedInv /\ TogetherInv
    BY DEF LookInv
  <2>2. AllInPlace' \subseteq Ops
    BY DEF AllInPlace
  <2>3. look' = [look EXCEPT !.quiet = FALSE, !.together = look.together \cup AllInPlace']
    BY <1>2
  <2> HIDE DEF AllInPlace
  <2>4. look' \in LookType
    BY <2>1, <2>2, <2>3 DEF LookType
  <2>5. /\ look'.at = look.at /\ look'.journal = look.journal /\ look'.harness = look.harness
        /\ ~look'.quiet /\ look.together \subseteq look'.together
    BY <2>1, <2>3 DEF LookType
  <2>6. NamedInv'
    BY <2>1, <2>5, Planned DEF NamedInv
  <2>7. TogetherInv'
    <3>1. SUFFICES ASSUME look.at \in ReadJournalBy, look.journal.phase = "complete"
                   PROVE  TogetherInv'
      BY <2>5 DEF TogetherInv
    <3>2. PICK o \in Ops : o = look.journal.op /\ op[o].at # "idle"
      BY <2>1, <3>1 DEF NamedInv
    <3>3. op'[o].to = op[o].to /\ (Untouched(o)' => Untouched(o))
      BY <3>2, Planned
    <3>4. /\ Untouched(o) => o \in look.together
          /\ look.at \in ReadHarnessBy /\ Found(look.harness, op[o].to) => o \in look.together
      BY <2>1, <3>1, <3>2 DEF TogetherInv
    <3>5. QED BY <2>5, <3>2, <3>3, <3>4 DEF TogetherInv, Found
  <2>8. QuietInv'
    BY <2>5 DEF QuietInv
  <2>9. QED BY <2>4, <2>6, <2>7, <2>8 DEF LookInv
<1>3. QED BY <1>1, <1>2

-----------------------------------------------------------------------------
(***************************************************************************)
(* The diagnosis takes no lock and changes nothing (diagnoseManager in     *)
(* manage.js): beside it the managers do what they do alone.               *)
(***************************************************************************)
THEOREM DiagnosisOnlyReads == DSpec => Spec
<1>1. DInit => Init
  BY DEF DInit
<1>2. [DNext]_dvars => [Next]_vars
  BY DEF DNext, dvars, Next, ReadClaims, ReadJournal, ReadMarker, ReadHarness, ReadClaim,
         ReadBackup, Reads
<1>3. QED BY <1>1, <1>2, PTL DEF DSpec, Spec

(***************************************************************************)
(* The inductive invariant of managers, editors, the operator and a        *)
(* diagnosis between them.                                                 *)
(***************************************************************************)
THEOREM DiagnosisInvariance == DSpec => [](MInv /\ LookInv)
<1>1. DInit => MInv /\ LookInv
  BY ManagerInit, NotLookedType
     DEF DInit, NoJournal, LookInv, NamedInv, TogetherInv, QuietInv, ReadJournalBy, ReadHarnessBy
<1>2. MInv /\ LookInv /\ [DNext]_dvars => (MInv /\ LookInv)'
  <2>1. SUFFICES ASSUME MInv, LookInv, [DNext]_dvars PROVE MInv' /\ LookInv'
    OBVIOUS
  <2>2. CASE \/ ReadClaims \/ ReadJournal \/ ReadMarker
             \/ ReadHarness \/ ReadClaim \/ ReadBackup
    <3>1. UNCHANGED vars
      BY <2>2 DEF ReadClaims, ReadJournal, ReadMarker, ReadHarness, ReadClaim, ReadBackup, Reads
    <3>2. QED BY <2>1, <2>2, <3>1, ManagerStep, ReadKeeps
  <2>3. CASE UNCHANGED dvars
    <3>1. UNCHANGED vars /\ look' = look
      BY <2>3 DEF dvars
    <3>2. NamedInv' /\ TogetherInv' /\ QuietInv'
      BY <2>1, <3>1
         DEF LookInv, NamedInv, TogetherInv, QuietInv, Untouched, Found, Read, BackupOf, vars
    <3>3. QED BY <2>1, <3>1, <3>2, ManagerStep DEF LookInv
  <2>4. CASE /\ Next
             /\ look' = IF look.at \in {"idle", "backup"} THEN NotLooked
                        ELSE [look EXCEPT !.quiet = FALSE, !.together = @ \cup AllInPlace']
    BY <2>1, <2>4, ManagerStep, DisturbedKeeps
  <2>5. QED BY <2>1, <2>2, <2>3, <2>4, Zenon DEF DNext, Next
<1>3. QED BY <1>1, <1>2, PTL DEF DSpec

(***************************************************************************)
(* "consistent" was true at one instant of the diagnosis, whatever         *)
(* managers and editors did between its reads: the journal is read before  *)
(* the harness, and a harness with the plan's bytes was not touched in     *)
(* between (diagnoseManager in manage.js).                                 *)
(***************************************************************************)
THEOREM ConsistentIsTrue == DSpec => []ConsistentWasTrue
<1>1. LookInv => ConsistentWasTrue
  <2>1. Verdict(look) = "consistent" =>
          look.journal.phase = "complete" /\ Found(look.harness, op[look.journal.op].to)
    BY DEF Verdict
  <2>2. QED BY <2>1 DEF LookInv, TogetherInv, ConsistentWasTrue, ReadJournalBy, ReadHarnessBy
<1>2. QED BY <1>1, DiagnosisInvariance, PTL

(***************************************************************************)
(* Undisturbed, a diagnosis tells the truth of what it finds: a missing    *)
(* harness is seen, an interrupted claim has the last bytes, and a lone    *)
(* success is recognised (diagnoseManager in manage.js).                   *)
(***************************************************************************)
THEOREM UndisturbedIsTrue == DSpec => []AloneTellsTheTruth
<1>1. MInv /\ LookInv => AloneTellsTheTruth
  <2>1. SUFFICES ASSUME MInv, LookInv, look.at = "backup", look.quiet
                 PROVE  AloneTellsTheTruth
    BY DEF AloneTellsTheTruth
  <2> DEFINE v == Verdict(look)
             j == look.journal
  <2>2. /\ TypeOK /\ HarnessInv /\ DoneInv /\ PhaseInv /\ CountInv
        /\ \A o \in Ops : NamesInv(o) /\ PlannedInv(o) /\ PlanInv(o)
    BY <2>1 DEF MInv, IInv, OpInv, UInv
  <2>3. /\ j = journal /\ look.marker = (marker # NoFile) /\ look.harness = Read(harness)
        /\ look.claims = {[op |-> o, file |-> Read(claim[o])] : o \in {p \in Ops : claim[p] # NoFile}}
        /\ look.claim = IF journal.claimed THEN Read(claim[journal.op]) ELSE NoFile
        /\ journal.phase # "none" =>
             look.backup = Read(backup[BackupOf(journal)]) /\ look.receipt = (BackupOf(journal) \in receipt)
    BY <2>1 DEF LookInv, QuietInv, ReadJournalBy, ReadHarnessBy
  <2>4. \A inode \in FileOrNone : Read(inode) = NoFile <=> inode = NoFile
    BY <2>2, ReadsType
  <2>5. harness \in FileOrNone /\ claim \in [Ops -> FileOrNone] /\ backup \in [Ops -> FileOrNone]
    BY <2>2 DEF TypeOK
  <2>6. \A inode, bytes : inode # NoFile => (Found(Read(inode), bytes) <=> data[inode] = bytes /\ Read(inode) # NoFile)
    BY DEF Found, Read
  <2>7. ASSUME harness = NoFile PROVE v \in {"interrupted", "indeterminate"}
    <3>1. /\ journal.op \in Ops /\ journal.claimed /\ claim[journal.op] # NoFile
          /\ journal.phase \in {"claiming", "claimed", "publishing", "failed"}
      BY <2>2, <2>7 DEF HarnessInv, Holds, PhaseInv, TypeOK, Phases
    <3>2. look.harness = NoFile /\ look.claim # NoFile
      BY <2>3, <2>4, <2>5, <2>7, <3>1
    <3>3. ~Conflict(look) => Found(look.claim, op[j.op].from)
      BY <3>2 DEF Conflict
    <3>4. QED BY <2>3, <3>1, <3>2, <3>3 DEF Verdict
  <2>8. ASSUME v = "interrupted" PROVE harness = NoFile /\ Holds(claim[j.op], latest)
    <3>1. look.harness = NoFile
      BY <2>8 DEF Verdict
    <3>2. harness = NoFile
      BY <2>3, <2>4, <2>5, <3>1
    <3>3. QED BY <2>2, <2>3, <3>2 DEF HarnessInv
  <2>9. ASSUME j.phase = "complete", ~look.marker, Holds(harness, op[j.op].to),
               \A o \in Ops : claim[o] # NoFile => o \in {j.op, BackupOf(j)}
        PROVE  v = "consistent"
    <3>1. PICK o \in Ops : /\ o = j.op /\ journal.claimed /\ op[o].at # "idle"
                           /\ BackupFor(o) \in receipt /\ (Untouched(o) => InPlace(o))
      BY <2>2, <2>3, <2>9 DEF DoneInv, Unstaged
    <3>2. Untouched(o)
      <4>1. latest = op[o].to /\ op[o].to # Torn
        BY <2>2, <2>9, <3>1 DEF HarnessInv, Holds, PlanInv
      <4>2. QED BY <2>2, <4>1 DEF CountInv, Untouched
    <3> DEFINE b == BackupFor(o)
    <3>3. InPlace(o)
      BY <3>1, <3>2
    <3>4. /\ BackupOf(j) = b /\ BackupBytes(j) = BytesFor(o) /\ b \in Ops
      BY <2>1, <2>2, <2>3, <2>9, <3>1, JournalNames DEF TypeOK, JournalType
    <3> HIDE DEF b
    <3>5. /\ Found(look.harness, op[o].to) /\ look.harness # NoFile
      BY <2>3, <2>4, <2>5, <2>6, <2>9, <3>1 DEF Holds
    <3>6. /\ Found(look.claim, op[o].from) /\ look.claim # NoFile
      BY <2>3, <2>4, <2>5, <2>6, <3>1, <3>3 DEF InPlace, Holds
    <3>7. /\ Found(look.backup, BytesFor(o)) /\ look.backup = Read(backup[b]) /\ look.receipt
          /\ backup[b] = claim[b]
      <4>1. Holds(backup[b], BytesFor(o))
        BY <3>3 DEF InPlace, b
      <4>2. look.backup = Read(backup[b]) /\ look.receipt
        BY <2>3, <2>9, <3>1, <3>4 DEF b
      <4>3. QED BY <2>2, <2>4, <2>5, <2>6, <3>4, <4>1, <4>2 DEF Holds, NamesInv
    <3>8. ~Conflict(look)
      <4>1. ASSUME NEW c \in look.claims PROVE (j.claimed /\ c.op = j.op) \/ Historical(look, c)
        <5>1. PICK p \in Ops : claim[p] # NoFile /\ c = [op |-> p, file |-> Read(claim[p])]
          BY <2>3
        <5>2. CASE p = o BY <2>3, <3>1, <5>1, <5>2
        <5>3. CASE p # o
          <6>1. p = b
            BY <2>9, <3>1, <3>4, <5>1, <5>3
          <6>2. op[o].kind = "rollback"
            BY <2>2, <5>3, <6>1 DEF BackupFor, TypeOK, b
          <6>3. c.file = look.backup
            BY <3>7, <5>1, <6>1
          <6>4. QED BY <3>1, <3>7, <6>2, <6>3 DEF Historical, Found, BytesFor
        <5>4. QED BY <5>2, <5>3
      <4>2. QED BY <2>9, <3>1, <3>5, <3>6, <4>1 DEF Conflict
    <3>9. QED BY <2>9, <3>1, <3>4, <3>5, <3>6, <3>7, <3>8 DEF Verdict
  <2>10. QED BY <2>7, <2>8, <2>9 DEF AloneTellsTheTruth
<1>2. QED BY <1>1, DiagnosisInvariance, PTL
=============================================================================
