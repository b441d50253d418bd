---------------------------- MODULE StateMigration ----------------------------
(***************************************************************************)
(* Migration of a legacy session store (src/session-state-migration.js,    *)
(* run by bin/agy-buzz-state.js) into the directory of StateStore, beside  *)
(* old adapters that may still write the source, new ones that already     *)
(* claim the destination, other migrations, and crashes.                   *)
(*                                                                         *)
(* A legacy file name is the hash of the channel id as it was spelled, so  *)
(* one channel may have several: Keys, and Canon their channel.  A scan is *)
(* one instant: the values it reads cannot change between the two scans it *)
(* must agree with, and a file that appears during it is one that appears  *)
(* after it.                                                               *)
(***************************************************************************)
EXTENDS StateStore

CONSTANTS
  Keys,       \* channel ids as old adapters spelled them
  Canon,      \* the channel of each
  Writers     \* old adapters, External: of an earlier release

ASSUME CanonAssumption   == Canon \in [Keys -> Channels]
ASSUME WritersAssumption == Writers \cap Migrators = {} /\ None \notin Writers \cup Keys

VARIABLES
  source,     \* the legacy records: a stamp per key, 0 for none
  lockFiles,  \* the legacy lock files
  keyLock,    \* the holder of each legacy channel lock
  writer,     \* the key each old adapter has claimed
  migrator,   \* the migrations
  stage       \* their staging directories

legacyVars == <<source, lockFiles, keyLock, writer>>
vars == <<storeVars, legacyVars, migrator, stage>>

Places == {"idle", "locking", "confirm", "destination", "absent", "stage", "copy", "mark",
           "write", "recheck", "check", "publish", "published", "failing", "ended", "dead"}

NotBegun == [at |-> "idle", tmp |-> None, scan |-> [k \in Keys |-> 0], held |-> {}]

Scanned(m) == {k \in Keys : migrator[m].scan[k] # 0}

Init ==
  /\ StoreInit
  /\ stamp = 1
  /\ \E known \in SUBSET Keys :
       /\ source = [k \in Keys |-> IF k \in known THEN 1 ELSE 0]
       /\ lockFiles = known
  /\ keyLock = [k \in Keys |-> None]
  /\ writer = [w \in Writers |-> None]
  /\ migrator = [m \in Migrators |-> NotBegun]
  /\ stage = [m \in Migrators |-> Absent]

-----------------------------------------------------------------------------
(***************************************************************************)
(* External: an old adapter claims a channel under its own spelling, by a  *)
(* native lock, and writes its record.                                     *)
(***************************************************************************)
LegacyClaim(w) ==
  /\ writer[w] = None
  /\ \E k \in Keys :
       /\ keyLock[k] = None
       /\ keyLock' = [keyLock EXCEPT ![k] = w]
       /\ lockFiles' = lockFiles \cup {k}
       /\ writer' = [writer EXCEPT ![w] = k]
  /\ UNCHANGED <<storeVars, source, migrator, stage>>

LegacyWrite(w) ==
  /\ writer[w] # None /\ stamp < MaxStamp
  /\ stamp' = stamp + 1
  /\ source' = [source EXCEPT ![writer[w]] = stamp + 1]
  /\ UNCHANGED <<store, initLock, chanLock, adapter, lockFiles, keyLock, writer,
                 migrator, stage>>

LegacyEnds(w) ==
  /\ writer[w] # None
  /\ keyLock' = [keyLock EXCEPT ![writer[w]] = None]
  /\ writer' = [writer EXCEPT ![w] = None]
  /\ UNCHANGED <<storeVars, source, lockFiles, migrator, stage>>

-----------------------------------------------------------------------------
(***************************************************************************)
(* migrateLegacySessionState, one await after the other.                   *)
(***************************************************************************)
Moves(m, at) == migrator' = [migrator EXCEPT ![m].at = at]

\* scanLegacyStore accepts the source: records, each with its lock, no two of one channel
Acceptable ==
  LET known == {k \in Keys : source[k] # 0} IN
  /\ known # {} /\ lockFiles = known
  /\ \A j, k \in known : Canon[j] = Canon[k] => j = k

Unchanged(m) == source = migrator[m].scan /\ Acceptable

Begin(m) ==
  /\ migrator[m].at = "idle"
  /\ IF ~store.present /\ Acceptable
     THEN \E t \in Tmps :
            migrator' = [migrator EXCEPT ![m] = [at |-> "locking", tmp |-> t,
                                                 scan |-> source, held |-> {}]]
     ELSE Moves(m, "ended")
  /\ UNCHANGED <<storeVars, legacyVars, stage>>

\* Mutant: a lock an old adapter holds is passed over
LockSourceOrPassOver(m) ==
  /\ migrator[m].at = "locking"
  /\ IF Scanned(m) = migrator[m].held
     THEN Moves(m, "confirm") /\ UNCHANGED keyLock
     ELSE \E k \in Scanned(m) \ migrator[m].held :
            /\ keyLock' = [keyLock EXCEPT ![k] = IF @ = None THEN m ELSE @]
            /\ migrator' = [migrator EXCEPT ![m].held = @ \cup {k}]
  /\ UNCHANGED <<storeVars, source, lockFiles, writer, stage>>

\* acquireSourceLocks: in the order of the hashes, which is left open here
LockSource(m) ==
  /\ migrator[m].at = "locking"
  /\ IF Scanned(m) = migrator[m].held
     THEN Moves(m, "confirm") /\ UNCHANGED keyLock
     ELSE \E k \in Scanned(m) \ migrator[m].held :
            IF keyLock[k] = None
            THEN /\ keyLock' = [keyLock EXCEPT ![k] = m]
                 /\ migrator' = [migrator EXCEPT ![m].held = @ \cup {k}]
            ELSE Moves(m, "failing") /\ UNCHANGED keyLock
  /\ UNCHANGED <<storeVars, source, lockFiles, writer, stage>>

\* The three scans after the first: confirmed, dry-run and before publication
Rescans(m, from, to) ==
  /\ migrator[m].at = from
  /\ Moves(m, IF Unchanged(m) THEN to ELSE "failing")
  /\ UNCHANGED <<storeVars, legacyVars, stage>>

Confirm(m) == Rescans(m, "confirm", "destination")

Recheck(m) == Rescans(m, "recheck", "check")

DryRun(m) == Rescans(m, "stage", "failing")

LockDestination(m) ==
  LET t == migrator[m].tmp IN
  /\ migrator[m].at = "destination"
  /\ IF initLock[t] = None
     THEN initLock' = [initLock EXCEPT ![t] = m] /\ Moves(m, "absent")
     ELSE UNCHANGED initLock /\ Moves(m, "failing")
  /\ UNCHANGED <<store, chanLock, adapter, stamp, legacyVars, stage>>

\* The destination must be absent before the stage is built and before it is published
CheckDestination(m) ==
  /\ \/ migrator[m].at = "absent" /\ Moves(m, IF store.present THEN "failing" ELSE "stage")
     \/ migrator[m].at = "check" /\ Moves(m, IF store.present THEN "failing" ELSE "publish")
  /\ UNCHANGED <<storeVars, legacyVars, stage>>

-----------------------------------------------------------------------------
(***************************************************************************)
(* buildStage: the records one by one, the marker last, then verifyStage.  *)
(***************************************************************************)
Stages(m, dir, at) ==
  /\ stage' = [stage EXCEPT ![m] = dir]
  /\ Moves(m, at)
  /\ UNCHANGED <<storeVars, legacyVars>>

\* Mutant: the marker is written first
MakeStageMarked(m) ==
  /\ migrator[m].at = "stage"
  /\ \E o \in Owners :
       Stages(m, [Absent EXCEPT !.present = TRUE, !.from = m, !.marker = o], "copy")

MakeStage(m) ==
  /\ migrator[m].at = "stage"
  /\ Stages(m, [Absent EXCEPT !.present = TRUE, !.from = m], "copy")

CopyRecord(m) ==
  /\ migrator[m].at = "copy"
  /\ LET left == {k \in Scanned(m) : stage[m].recs[Canon[k]] = 0} IN
     IF left = {} THEN Stages(m, stage[m], "mark")
     ELSE \E k \in left :
            Stages(m, [stage[m] EXCEPT !.recs[Canon[k]] = migrator[m].scan[k]], "copy")

CreateStageMarker(m) ==
  /\ migrator[m].at = "mark"
  /\ Stages(m, [stage[m] EXCEPT !.marker = "torn"], "write")

\* Mutant: the binding is not checked, and the store is marked for nobody
WriteStageMarkerOfNobody(m) ==
  /\ migrator[m].at = "write"
  /\ \E o \in Owners \cup {None} : Stages(m, [stage[m] EXCEPT !.marker = o], "recheck")

WriteStageMarker(m) ==
  /\ migrator[m].at = "write"
  /\ \E o \in Owners : Stages(m, [stage[m] EXCEPT !.marker = o], "recheck")

\* Mutant: whatever is at the destination is removed first
PublishOver(m) ==
  /\ migrator[m].at = "publish"
  /\ store' = stage[m]
  /\ stage' = [stage EXCEPT ![m] = Absent]
  /\ Moves(m, "published")
  /\ UNCHANGED <<initLock, chanLock, adapter, stamp, legacyVars>>

\* rename(stage, destination): replaces an empty directory, fails on any other
Publish(m) ==
  /\ migrator[m].at = "publish"
  /\ IF EmptyDir(store)
     THEN store' = stage[m] /\ stage' = [stage EXCEPT ![m] = Absent] /\ Moves(m, "published")
     ELSE UNCHANGED <<store, stage>> /\ Moves(m, "failing")
  /\ UNCHANGED <<initLock, chanLock, adapter, stamp, legacyVars>>

FreedBy(m, lock, names) == [n \in names |-> IF lock[n] = m THEN None ELSE lock[n]]

LetsGo(m, at) ==
  /\ migrator' = [migrator EXCEPT ![m].at = at, ![m].tmp = None, ![m].held = {}]
  /\ initLock' = FreedBy(m, initLock, Tmps)
  /\ keyLock' = FreedBy(m, keyLock, Keys)
  /\ UNCHANGED <<store, chanLock, adapter, stamp, source, lockFiles, writer, stage>>

\* The finally clause: the destination's lock, then the source's
ReleaseAll(m) == migrator[m].at \in {"published", "failing"} /\ LetsGo(m, "ended")

\* Any await may throw, or the process ends; the stage stays where it is
Throws(m) ==
  /\ migrator[m].at \notin {"idle", "published", "failing", "ended", "dead"}
  /\ Moves(m, "failing")
  /\ UNCHANGED <<storeVars, legacyVars, stage>>

Dies(m) == migrator[m].at \notin {"idle", "ended", "dead"} /\ LetsGo(m, "dead")

\* External: somebody moves what a migration left behind to the configured path.
\* (An empty stage is no more than an empty directory, which MakeDirectory makes.)
AdoptStage(m) ==
  /\ migrator[m].at \in {"ended", "dead"}
  /\ ~EmptyDir(stage[m]) /\ ~store.present
  /\ store' = stage[m]
  /\ stage' = [stage EXCEPT ![m] = Absent]
  /\ UNCHANGED <<initLock, chanLock, adapter, stamp, legacyVars, migrator>>

Migrate(m) ==
  \/ Begin(m) \/ LockSource(m) \/ Confirm(m) \/ LockDestination(m) \/ CheckDestination(m)
  \/ DryRun(m) \/ MakeStage(m) \/ CopyRecord(m) \/ CreateStageMarker(m)
  \/ WriteStageMarker(m) \/ Recheck(m) \/ Publish(m) \/ ReleaseAll(m)
  \/ Throws(m) \/ Dies(m) \/ AdoptStage(m)

Legacy(w) == LegacyClaim(w) \/ LegacyWrite(w) \/ LegacyEnds(w)

Next ==
  \/ \E a \in Adapters : Claim(a) /\ UNCHANGED <<legacyVars, migrator, stage>>
  \/ \E m \in Migrators : Migrate(m)
  \/ \E w \in Writers : Legacy(w)

Spec == Init /\ [][Next]_vars

-----------------------------------------------------------------------------
TypeOK ==
  /\ StoreTypeOK
  /\ source \in [Keys -> Stamps]
  /\ lockFiles \subseteq Keys
  /\ keyLock \in [Keys -> Writers \cup Migrators \cup {None}]
  /\ writer \in [Writers -> Keys \cup {None}]
  /\ migrator \in [Migrators -> [at : Places, tmp : Tmps \cup {None},
                                 scan : [Keys -> Stamps], held : SUBSET Keys]]
  /\ stage \in [Migrators -> Dirs]

(***************************************************************************)
(* What is published is the source at that instant: each channel the       *)
(* migration knows has its current record, no two were folded into one and *)
(* none was added, although old adapters may be running.  (A channel an    *)
(* old adapter claims after the last scan is not known to it: the          *)
(* documentation has them stopped first.)                                  *)
(***************************************************************************)
PublishesTheSource ==
  [][\A m \in Migrators :
       migrator[m].at = "publish" /\ migrator'[m].at = "published" =>
         \A c \in Channels :
           LET known == {k \in Scanned(m) : Canon[k] = c}
           IN IF known = {} THEN store'.recs[c] = 0
              ELSE \A k \in known : store'.recs[c] = source[k]]_vars

(***************************************************************************)
(* No adapter works on a partial copy: a store that came from a migration, *)
(* published or moved there by hand from what a crash left behind, has     *)
(* every record of its scan before its marker lets an adapter in.          *)
(***************************************************************************)
OwnedStoreIsWhole ==
  \A a \in Adapters : adapter[a].at = "owns" /\ store.from # None =>
    \A k \in Scanned(store.from) : store.recs[Canon[k]] # 0

(***************************************************************************)
(* A destination with anything in it is never replaced, its binding never  *)
(* changes, and only the owner of a channel writes its record, even if the *)
(* processes share no initialization lock.                                 *)
(***************************************************************************)
NeverReplaced ==
  [][ /\ ~EmptyDir(store) => store'.from = store.from
      /\ store.marker \in Owners => store'.marker = store.marker
      /\ ~EmptyDir(store) =>
           \A c \in Channels : store'.recs[c] = store.recs[c] \/ chanLock[c] # None ]_vars
=============================================================================
