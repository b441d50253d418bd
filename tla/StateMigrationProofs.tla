------------------------- MODULE StateMigrationProofs -------------------------
(* Proofs about the session store and its migration, for any processes. *)
EXTENDS StateMigration, TLAPS

(***************************************************************************)
(* The inductive invariant:                                                *)
(*   StoreInv    the store, whatever it was built by, is empty until it is *)
(*               made, and complete once it is marked;                     *)
(*   AdapterInv  an adapter past the marker is bound by it, and only one   *)
(*               can be writing it;                                        *)
(*   LockInv     a migration past its locks has the source to itself;      *)
(*   StageInv    a stage is marked only when it is complete, and from then *)
(*               on is what was scanned;                                   *)
(*   WriterInv   an old adapter writes under its lock.                     *)
(***************************************************************************)
Claiming  == {"init", "mkdir", "validate", "list", "mark", "write", "lock", "owns"}
Made      == {"validate", "list", "mark", "write", "lock", "owns"}
Marked    == {"recheck", "check", "publish"}
Copied    == {"mark", "write"} \cup Marked
Confirmed == {"destination", "absent", "stage", "copy"} \cup Copied
Locked    == {"confirm"} \cup Confirmed
Working   == {"locking"} \cup Locked

Whole(d, m) == \A k \in Scanned(m) : d.recs[Canon[k]] # 0

StoreInv ==
  /\ ~store.present => EmptyDir(store)
  /\ store.from # None =>
       /\ ~EmptyDir(store) /\ migrator[store.from].at # "idle"
       /\ store.marker # "none" => Whole(store, store.from)

AdapterInv(a) ==
  /\ adapter[a].at \in Claiming => /\ adapter[a].owner \in Owners /\ adapter[a].tmp \in Tmps
                                   /\ adapter[a].channel \in Channels
  /\ adapter[a].at \in Made => store.present
  /\ adapter[a].at = "mark" /\ store.marker = "none" => store.from = None
  /\ adapter[a].at = "write" =>
       store.marker = "torn" /\ \A b \in Adapters \ {a} : adapter[b].at # "write"
  /\ adapter[a].at \in {"lock", "owns"} => store.marker = adapter[a].owner
  /\ adapter[a].at = "owns" => chanLock[adapter[a].channel] = a

LockInv(m) ==
  /\ migrator[m].at \in Working =>
       /\ \A j, k \in Scanned(m) : Canon[j] = Canon[k] => j = k
       /\ migrator[m].held \subseteq Scanned(m)
       /\ \A k \in migrator[m].held : keyLock[k] = m
  /\ migrator[m].at \in Locked => migrator[m].held = Scanned(m)
  /\ migrator[m].at \in Confirmed => \A k \in Scanned(m) : source[k] = migrator[m].scan[k]

StageInv(m) ==
  /\ migrator[m].at = "idle" => stage[m] = Absent
  /\ ~EmptyDir(stage[m]) => stage[m].present /\ stage[m].from = m
  /\ stage[m].marker # "none" => Whole(stage[m], m)
  /\ migrator[m].at \in Copied \cup {"copy"} =>
       /\ stage[m].present /\ stage[m].from = m
       /\ \A c \in Channels :
            \/ stage[m].recs[c] = 0
            \/ \E k \in Scanned(m) : Canon[k] = c /\ stage[m].recs[c] = migrator[m].scan[k]
  /\ migrator[m].at \in Copied => Whole(stage[m], m)
  /\ migrator[m].at \in Marked => stage[m].marker \in Owners

WriterInv(w) == writer[w] # None => keyLock[writer[w]] = w

SInv ==
  /\ TypeOK /\ StoreInv
  /\ \A a \in Adapters : AdapterInv(a)
  /\ \A m \in Migrators : LockInv(m) /\ StageInv(m)
  /\ \A w \in Writers : WriterInv(w)

-----------------------------------------------------------------------------
LEMMA Names ==
  /\ None \notin Adapters \cup Migrators \cup Owners \cup Writers \cup Keys
  /\ Writers \cap Migrators = {} /\ "none" \notin Owners /\ "torn" \notin Owners
  /\ Stamps \subseteq Nat /\ 0 \in Stamps /\ Canon \in [Keys -> Channels]
  /\ Absent \in Dirs /\ EmptyDir(Absent) /\ ~Absent.present /\ Absent.marker = "none"
  /\ Absent.from = None
  BY NoneAssumption, ProcsAssumption, OwnersAssumption, CanonAssumption, WritersAssumption,
     StampAssumption
     DEF Procs, Stamps, Absent, Dirs, Markers, EmptyDir

AdapterType == [at : Claiming \cup {"idle", "refused", "ended"}, owner : Owners \cup {None},
                tmp : Tmps \cup {None}, channel : Channels \cup {None},
                why : {"none", "busy", "mismatch", "legacy", "exists"}]

MigratorType == [at : Places, tmp : Tmps \cup {None}, scan : [Keys -> Stamps],
                 held : SUBSET Keys]

LEMMA GoesType ==
  ASSUME adapter \in [Adapters -> AdapterType], NEW a \in Adapters,
         NEW at \in Claiming \cup {"idle", "refused", "ended"}, Goes(a, at)
  PROVE  adapter' \in [Adapters -> AdapterType]
<1>1. [adapter[a] EXCEPT !.at = at] \in AdapterType
  BY DEF AdapterType
<1>2. QED BY <1>1 DEF Goes

LEMMA RefusesType ==
  ASSUME adapter \in [Adapters -> AdapterType], NEW a \in Adapters,
         NEW why \in {"none", "busy", "mismatch", "legacy", "exists"}, Refuses(a, why)
  PROVE  adapter' \in [Adapters -> AdapterType]
<1>1. [Idle EXCEPT !.at = "refused", !.why = why] \in AdapterType
  BY DEF AdapterType, Idle
<1>2. QED BY <1>1 DEF Refuses

LEMMA MovesType ==
  ASSUME migrator \in [Migrators -> MigratorType], NEW m \in Migrators, NEW at \in Places,
         Moves(m, at)
  PROVE  migrator' \in [Migrators -> MigratorType]
<1>1. [migrator[m] EXCEPT !.at = at] \in MigratorType
  BY DEF MigratorType
<1>2. QED BY <1>1 DEF Moves

LEMMA LetsGoType ==
  ASSUME migrator \in [Migrators -> MigratorType], NEW m \in Migrators, NEW at \in Places,
         LetsGo(m, at)
  PROVE  migrator' \in [Migrators -> MigratorType]
<1>1. [migrator[m] EXCEPT !.at = at, !.tmp = None, !.held = {}] \in MigratorType
  BY DEF MigratorType
<1>2. migrator' = [migrator EXCEPT ![m] =
                     [migrator[m] EXCEPT !.at = at, !.tmp = None, !.held = {}]]
  BY DEF LetsGo
<1>3. QED BY <1>1, <1>2

LEMMA ClaimantType ==
  ASSUME NEW r \in AdapterType, NEW o \in Owners, NEW t \in Tmps, NEW c \in Channels
  PROVE  [r EXCEPT !.at = "init", !.owner = o, !.tmp = t, !.channel = c] \in AdapterType
  BY DEF AdapterType, Claiming

LEMMA HolderType ==
  ASSUME NEW r \in MigratorType, NEW k \in Keys
  PROVE  [r EXCEPT !.held = r.held \cup {k}] \in MigratorType
<1>1. r.held \cup {k} \in SUBSET Keys
  BY DEF MigratorType
<1>2. QED BY <1>1 DEF MigratorType

(***************************************************************************)
(* A directory stays one whatever is written into it.                      *)
(***************************************************************************)
LEMMA DirWrites ==
  ASSUME NEW d \in Dirs
  PROVE  /\ \A x \in Markers : [d EXCEPT !.marker = x] \in Dirs
         /\ \A c \in Channels, n \in Stamps : [d EXCEPT !.recs[c] = n] \in Dirs
<1>1. \A c \in Channels, n \in Stamps : [d.recs EXCEPT ![c] = n] \in [Channels -> Stamps]
  BY DEF Dirs
<1>2. QED BY <1>1 DEF Dirs

(***************************************************************************)
(* Every variable keeps its type.                                          *)
(***************************************************************************)
LEMMA ClaimType ==
  ASSUME TypeOK, NEW a \in Adapters, AdapterInv(a), Claim(a), UNCHANGED <<legacyVars, migrator, stage>>
  PROVE  TypeOK'
<1>0. adapter \in [Adapters -> AdapterType]
  BY DEF TypeOK, StoreTypeOK, AdapterType, Claiming
<1>1. SUFFICES StoreTypeOK'
  BY DEF TypeOK, legacyVars
<1>2. StoreTypeOK
  BY DEF TypeOK
<1>3. SUFFICES adapter' \in [Adapters -> AdapterType] /\ store' \in Dirs
                /\ initLock' \in [Tmps -> Procs \cup {None}]
                /\ chanLock' \in [Channels -> Adapters \cup {None}] /\ stamp' \in Stamps
  BY DEF StoreTypeOK, AdapterType, Claiming
<1>4. a \in Procs
  BY DEF Procs
<1> USE <1>0, <1>2, <1>4, Names
    DEF StoreTypeOK, AdapterInv, Dirs, Markers
<1>10. CASE StartClaim(a)
  <2>1. adapter' \in [Adapters -> AdapterType]
    <3>1. PICK o \in Owners, t \in Tmps, c \in Channels :
            adapter' = [adapter EXCEPT ![a] = [adapter[a] EXCEPT !.at = "init", !.owner = o,
                                                        !.tmp = t, !.channel = c]]
      BY <1>10 DEF StartClaim
    <3>2. [adapter[a] EXCEPT !.at = "init", !.owner = o, !.tmp = t, !.channel = c] \in AdapterType
      BY ClaimantType
    <3>3. QED BY <3>1, <3>2
  <2>2. store' \in Dirs /\ stamp' \in Stamps
    BY <1>10 DEF StartClaim, Claiming
  <2>3. initLock' \in [Tmps -> Procs \cup {None}] /\ chanLock' \in [Channels -> Adapters \cup {None}]
    BY <1>10 DEF StartClaim, GivesBack
  <2>4. QED BY <2>1, <2>2, <2>3
<1>11. CASE TakeInitLock(a)
  <2>1. adapter' \in [Adapters -> AdapterType]
    BY <1>11, GoesType, RefusesType DEF TakeInitLock, Claiming
  <2>2. store' \in Dirs /\ stamp' \in Stamps
    BY <1>11 DEF TakeInitLock, Claiming
  <2>3. initLock' \in [Tmps -> Procs \cup {None}] /\ chanLock' \in [Channels -> Adapters \cup {None}]
    BY <1>11 DEF TakeInitLock, GivesBack
  <2>4. QED BY <2>1, <2>2, <2>3
<1>12. CASE MakeDirectory(a)
  <2>1. adapter' \in [Adapters -> AdapterType]
    BY <1>12, GoesType, RefusesType DEF MakeDirectory, Claiming
  <2>2. store' \in Dirs /\ stamp' \in Stamps
    BY <1>12 DEF MakeDirectory, Claiming
  <2>3. initLock' \in [Tmps -> Procs \cup {None}] /\ chanLock' \in [Channels -> Adapters \cup {None}]
    BY <1>12 DEF MakeDirectory, GivesBack
  <2>4. QED BY <2>1, <2>2, <2>3
<1>13. CASE ValidateMarker(a)
  <2>1. adapter' \in [Adapters -> AdapterType]
    BY <1>13, GoesType, RefusesType DEF ValidateMarker, Claiming
  <2>2. store' \in Dirs /\ stamp' \in Stamps
    BY <1>13 DEF ValidateMarker, Claiming
  <2>3. initLock' \in [Tmps -> Procs \cup {None}] /\ chanLock' \in [Channels -> Adapters \cup {None}]
    BY <1>13 DEF ValidateMarker, GivesBack
  <2>4. QED BY <2>1, <2>2, <2>3
<1>14. CASE ListEntries(a)
  <2>1. adapter' \in [Adapters -> AdapterType]
    BY <1>14, GoesType, RefusesType DEF ListEntries, Claiming
  <2>2. store' \in Dirs /\ stamp' \in Stamps
    BY <1>14 DEF ListEntries, Claiming
  <2>3. initLock' \in [Tmps -> Procs \cup {None}] /\ chanLock' \in [Channels -> Adapters \cup {None}]
    BY <1>14 DEF ListEntries, GivesBack
  <2>4. QED BY <2>1, <2>2, <2>3
<1>15. CASE CreateMarker(a)
  <2>1. adapter' \in [Adapters -> AdapterType]
    BY <1>15, GoesType, RefusesType DEF CreateMarker, Claiming
  <2>2. store' \in Dirs /\ stamp' \in Stamps
    BY <1>15 DEF CreateMarker, Claiming
  <2>3. initLock' \in [Tmps -> Procs \cup {None}] /\ chanLock' \in [Channels -> Adapters \cup {None}]
    BY <1>15 DEF CreateMarker, GivesBack
  <2>4. QED BY <2>1, <2>2, <2>3
<1>16. CASE WriteMarker(a)
  <2>1. adapter' \in [Adapters -> AdapterType]
    BY <1>16, GoesType, RefusesType DEF WriteMarker, Claiming
  <2>2. store' \in Dirs /\ stamp' \in Stamps
    BY <1>16 DEF WriteMarker, Claiming
  <2>3. initLock' \in [Tmps -> Procs \cup {None}] /\ chanLock' \in [Channels -> Adapters \cup {None}]
    BY <1>16 DEF WriteMarker, GivesBack
  <2>4. QED BY <2>1, <2>2, <2>3
<1>17. CASE TakeChannelLock(a)
  <2>1. adapter' \in [Adapters -> AdapterType]
    BY <1>17, GoesType, RefusesType DEF TakeChannelLock, Claiming
  <2>2. store' \in Dirs /\ stamp' \in Stamps
    BY <1>17 DEF TakeChannelLock, Claiming
  <2>3. initLock' \in [Tmps -> Procs \cup {None}] /\ chanLock' \in [Channels -> Adapters \cup {None}]
    BY <1>17 DEF TakeChannelLock, GivesBack
  <2>4. QED BY <2>1, <2>2, <2>3
<1>18. CASE SaveRecord(a)
  <2>1. adapter' \in [Adapters -> AdapterType]
    BY <1>18, GoesType, RefusesType DEF SaveRecord, Claiming
  <2>2. store' \in Dirs /\ stamp' \in Stamps
    <3>1. stamp + 1 \in Stamps
      BY <1>18, StampAssumption DEF SaveRecord, Stamps
    <3>2. store' = [store EXCEPT !.recs[adapter[a].channel] = stamp + 1] /\ stamp' = stamp + 1
          /\ adapter[a].channel \in Channels
      BY <1>18 DEF SaveRecord, Claiming
    <3>3. QED BY <3>1, <3>2, DirWrites
  <2>3. initLock' \in [Tmps -> Procs \cup {None}] /\ chanLock' \in [Channels -> Adapters \cup {None}]
    BY <1>18 DEF SaveRecord, GivesBack
  <2>4. QED BY <2>1, <2>2, <2>3
<1>19. CASE Ends(a)
  <2>1. adapter' \in [Adapters -> AdapterType]
    BY <1>19, GoesType, RefusesType DEF Ends, Claiming, AdapterType, Idle
  <2>2. store' \in Dirs /\ stamp' \in Stamps
    BY <1>19 DEF Ends, Claiming
  <2>3. initLock' \in [Tmps -> Procs \cup {None}] /\ chanLock' \in [Channels -> Adapters \cup {None}]
    BY <1>19 DEF Ends, GivesBack
  <2>4. QED BY <2>1, <2>2, <2>3
<1>20. QED
  BY <1>10, <1>11, <1>12, <1>13, <1>14, <1>15, <1>16, <1>17, <1>18, <1>19 DEF Claim

LEMMA MigrateType ==
  ASSUME TypeOK, NEW m \in Migrators, Migrate(m)
  PROVE  TypeOK'
<1>0. migrator \in [Migrators -> MigratorType]
  BY DEF TypeOK, MigratorType
<1>1. SUFFICES StoreTypeOK' /\ migrator' \in [Migrators -> MigratorType]
               /\ stage' \in [Migrators -> Dirs] /\ source' \in [Keys -> Stamps]
               /\ lockFiles' \subseteq Keys /\ writer' \in [Writers -> Keys \cup {None}]
               /\ keyLock' \in [Keys -> Writers \cup Migrators \cup {None}]
  BY DEF TypeOK, MigratorType
<1>2. m \in Procs
  BY DEF Procs
<1> USE <1>0, <1>2, Names
    DEF TypeOK, StoreTypeOK, storeVars, legacyVars, Places
<1>10. CASE Begin(m)
  <2>1. migrator' \in [Migrators -> MigratorType]
    BY <1>10, MovesType DEF Begin, MigratorType
  <2>2. stage' \in [Migrators -> Dirs]
    BY <1>10 DEF Begin, Dirs, Markers
  <2>3. StoreTypeOK'
    BY <1>10 DEF Begin
  <2>4. /\ source' \in [Keys -> Stamps] /\ lockFiles' \subseteq Keys
        /\ writer' \in [Writers -> Keys \cup {None}]
        /\ keyLock' \in [Keys -> Writers \cup Migrators \cup {None}]
    BY <1>10 DEF Begin
  <2>5. QED BY <2>1, <2>2, <2>3, <2>4
<1>11. CASE LockSource(m)
  <2>1. migrator' \in [Migrators -> MigratorType]
    <3>2. ASSUME NEW k \in Keys,
                 migrator' = [migrator EXCEPT ![m].held = migrator[m].held \cup {k}]
          PROVE  migrator' \in [Migrators -> MigratorType]
      BY <3>2, HolderType
    <3>3. QED BY <1>11, <3>2, MovesType DEF LockSource, Scanned
  <2>2. stage' \in [Migrators -> Dirs]
    BY <1>11 DEF LockSource, Scanned, Dirs, Markers
  <2>3. StoreTypeOK'
    BY <1>11 DEF LockSource, Scanned
  <2>4. /\ source' \in [Keys -> Stamps] /\ lockFiles' \subseteq Keys
        /\ writer' \in [Writers -> Keys \cup {None}]
        /\ keyLock' \in [Keys -> Writers \cup Migrators \cup {None}]
    <3>1. \/ UNCHANGED keyLock
          \/ \E k \in Keys : keyLock' = [keyLock EXCEPT ![k] = m]
      BY <1>11 DEF LockSource, Scanned
    <3>2. QED BY <1>11, <3>1 DEF LockSource
  <2>5. QED BY <2>1, <2>2, <2>3, <2>4
<1>12. CASE Confirm(m)
  <2>1. migrator' \in [Migrators -> MigratorType]
    BY <1>12, MovesType DEF Confirm, Rescans
  <2>2. stage' \in [Migrators -> Dirs]
    BY <1>12 DEF Confirm, Rescans, Dirs, Markers
  <2>3. StoreTypeOK'
    BY <1>12 DEF Confirm, Rescans
  <2>4. /\ source' \in [Keys -> Stamps] /\ lockFiles' \subseteq Keys
        /\ writer' \in [Writers -> Keys \cup {None}]
        /\ keyLock' \in [Keys -> Writers \cup Migrators \cup {None}]
    BY <1>12 DEF Confirm, Rescans
  <2>5. QED BY <2>1, <2>2, <2>3, <2>4
<1>13. CASE LockDestination(m)
  <2>1. migrator' \in [Migrators -> MigratorType]
    BY <1>13, MovesType DEF LockDestination
  <2>2. stage' \in [Migrators -> Dirs]
    BY <1>13 DEF LockDestination, Dirs, Markers
  <2>3. StoreTypeOK'
    BY <1>13 DEF LockDestination
  <2>4. /\ source' \in [Keys -> Stamps] /\ lockFiles' \subseteq Keys
        /\ writer' \in [Writers -> Keys \cup {None}]
        /\ keyLock' \in [Keys -> Writers \cup Migrators \cup {None}]
    BY <1>13 DEF LockDestination
  <2>5. QED BY <2>1, <2>2, <2>3, <2>4
<1>14. CASE CheckDestination(m)
  <2>1. migrator' \in [Migrators -> MigratorType]
    BY <1>14, MovesType DEF CheckDestination
  <2>2. stage' \in [Migrators -> Dirs]
    BY <1>14 DEF CheckDestination, Dirs, Markers
  <2>3. StoreTypeOK'
    BY <1>14 DEF CheckDestination
  <2>4. /\ source' \in [Keys -> Stamps] /\ lockFiles' \subseteq Keys
        /\ writer' \in [Writers -> Keys \cup {None}]
        /\ keyLock' \in [Keys -> Writers \cup Migrators \cup {None}]
    BY <1>14 DEF CheckDestination
  <2>5. QED BY <2>1, <2>2, <2>3, <2>4
<1>15. CASE DryRun(m)
  <2>1. migrator' \in [Migrators -> MigratorType]
    BY <1>15, MovesType DEF DryRun, Rescans
  <2>2. stage' \in [Migrators -> Dirs]
    BY <1>15 DEF DryRun, Rescans, Dirs, Markers
  <2>3. StoreTypeOK'
    BY <1>15 DEF DryRun, Rescans
  <2>4. /\ source' \in [Keys -> Stamps] /\ lockFiles' \subseteq Keys
        /\ writer' \in [Writers -> Keys \cup {None}]
        /\ keyLock' \in [Keys -> Writers \cup Migrators \cup {None}]
    BY <1>15 DEF DryRun, Rescans
  <2>5. QED BY <2>1, <2>2, <2>3, <2>4
<1>16. CASE MakeStage(m)
  <2>1. migrator' \in [Migrators -> MigratorType]
    BY <1>16, MovesType DEF MakeStage, Stages
  <2>2. stage' \in [Migrators -> Dirs]
    BY <1>16 DEF MakeStage, Stages, Dirs, Markers
  <2>3. StoreTypeOK'
    BY <1>16 DEF MakeStage, Stages
  <2>4. /\ source' \in [Keys -> Stamps] /\ lockFiles' \subseteq Keys
        /\ writer' \in [Writers -> Keys \cup {None}]
        /\ keyLock' \in [Keys -> Writers \cup Migrators \cup {None}]
    BY <1>16 DEF MakeStage, Stages
  <2>5. QED BY <2>1, <2>2, <2>3, <2>4
<1>17. CASE CopyRecord(m)
  <2>1. migrator' \in [Migrators -> MigratorType]
    BY <1>17, MovesType DEF CopyRecord, Stages, Scanned
  <2>2. stage' \in [Migrators -> Dirs]
    <3>1. \A k \in Keys : Canon[k] \in Channels /\ migrator[m].scan[k] \in Stamps
      BY DEF MigratorType
    <3>2. \A k \in Keys : [stage[m] EXCEPT !.recs[Canon[k]] = migrator[m].scan[k]] \in Dirs
      BY <3>1, DirWrites
    <3> DEFINE left == {k \in Scanned(m) : stage[m].recs[Canon[k]] = 0}
    <3>3. CASE left = {}
      <4>1. stage' = [stage EXCEPT ![m] = stage[m]]
        BY <1>17, <3>3 DEF CopyRecord, Stages
      <4>2. QED BY <4>1
    <3>4. CASE left # {}
      <4>1. PICK k \in left : stage' = [stage EXCEPT ![m] =
                                 [stage[m] EXCEPT !.recs[Canon[k]] = migrator[m].scan[k]]]
        BY <1>17, <3>4 DEF CopyRecord, Stages
      <4>2. k \in Keys
        BY DEF Scanned
      <4>3. QED BY <3>2, <4>1, <4>2
    <3>5. QED BY <3>3, <3>4
  <2>3. StoreTypeOK'
    BY <1>17 DEF CopyRecord, Stages, Scanned
  <2>4. /\ source' \in [Keys -> Stamps] /\ lockFiles' \subseteq Keys
        /\ writer' \in [Writers -> Keys \cup {None}]
        /\ keyLock' \in [Keys -> Writers \cup Migrators \cup {None}]
    BY <1>17 DEF CopyRecord, Stages, Scanned
  <2>5. QED BY <2>1, <2>2, <2>3, <2>4
<1>18. CASE CreateStageMarker(m)
  <2>1. migrator' \in [Migrators -> MigratorType]
    BY <1>18, MovesType DEF CreateStageMarker, Stages
  <2>2. stage' \in [Migrators -> Dirs]
    BY <1>18, DirWrites DEF CreateStageMarker, Stages, Markers, MigratorType
  <2>3. StoreTypeOK'
    BY <1>18 DEF CreateStageMarker, Stages
  <2>4. /\ source' \in [Keys -> Stamps] /\ lockFiles' \subseteq Keys
        /\ writer' \in [Writers -> Keys \cup {None}]
        /\ keyLock' \in [Keys -> Writers \cup Migrators \cup {None}]
    BY <1>18 DEF CreateStageMarker, Stages
  <2>5. QED BY <2>1, <2>2, <2>3, <2>4
<1>19. CASE WriteStageMarker(m)
  <2>1. migrator' \in [Migrators -> MigratorType]
    BY <1>19, MovesType DEF WriteStageMarker, Stages
  <2>2. stage' \in [Migrators -> Dirs]
    BY <1>19, DirWrites DEF WriteStageMarker, Stages, Markers, MigratorType
  <2>3. StoreTypeOK'
    BY <1>19 DEF WriteStageMarker, Stages
  <2>4. /\ source' \in [Keys -> Stamps] /\ lockFiles' \subseteq Keys
        /\ writer' \in [Writers -> Keys \cup {None}]
        /\ keyLock' \in [Keys -> Writers \cup Migrators \cup {None}]
    BY <1>19 DEF WriteStageMarker, Stages
  <2>5. QED BY <2>1, <2>2, <2>3, <2>4
<1>20. CASE Recheck(m)
  <2>1. migrator' \in [Migrators -> MigratorType]
    BY <1>20, MovesType DEF Recheck, Rescans
  <2>2. stage' \in [Migrators -> Dirs]
    BY <1>20 DEF Recheck, Rescans, Dirs, Markers
  <2>3. StoreTypeOK'
    BY <1>20 DEF Recheck, Rescans
  <2>4. /\ source' \in [Keys -> Stamps] /\ lockFiles' \subseteq Keys
        /\ writer' \in [Writers -> Keys \cup {None}]
        /\ keyLock' \in [Keys -> Writers \cup Migrators \cup {None}]
    BY <1>20 DEF Recheck, Rescans
  <2>5. QED BY <2>1, <2>2, <2>3, <2>4
<1>21. CASE Publish(m)
  <2>1. migrator' \in [Migrators -> MigratorType]
    BY <1>21, MovesType DEF Publish
  <2>2. stage' \in [Migrators -> Dirs]
    BY <1>21 DEF Publish, Dirs, Markers
  <2>3. StoreTypeOK'
    BY <1>21 DEF Publish
  <2>4. /\ source' \in [Keys -> Stamps] /\ lockFiles' \subseteq Keys
        /\ writer' \in [Writers -> Keys \cup {None}]
        /\ keyLock' \in [Keys -> Writers \cup Migrators \cup {None}]
    BY <1>21 DEF Publish
  <2>5. QED BY <2>1, <2>2, <2>3, <2>4
<1>22. CASE ReleaseAll(m)
  <2>1. migrator' \in [Migrators -> MigratorType]
    BY <1>22, LetsGoType DEF ReleaseAll
  <2>2. stage' \in [Migrators -> Dirs]
    BY <1>22 DEF ReleaseAll, LetsGo, FreedBy, Dirs, Markers
  <2>3. StoreTypeOK'
    BY <1>22 DEF ReleaseAll, LetsGo, FreedBy
  <2>4. /\ source' \in [Keys -> Stamps] /\ lockFiles' \subseteq Keys
        /\ writer' \in [Writers -> Keys \cup {None}]
        /\ keyLock' \in [Keys -> Writers \cup Migrators \cup {None}]
    BY <1>22 DEF ReleaseAll, LetsGo, FreedBy
  <2>5. QED BY <2>1, <2>2, <2>3, <2>4
<1>23. CASE Throws(m)
  <2>1. migrator' \in [Migrators -> MigratorType]
    BY <1>23, MovesType DEF Throws
  <2>2. stage' \in [Migrators -> Dirs]
    BY <1>23 DEF Throws, Dirs, Markers
  <2>3. StoreTypeOK'
    BY <1>23 DEF Throws
  <2>4. /\ source' \in [Keys -> Stamps] /\ lockFiles' \subseteq Keys
        /\ writer' \in [Writers -> Keys \cup {None}]
        /\ keyLock' \in [Keys -> Writers \cup Migrators \cup {None}]
    BY <1>23 DEF Throws
  <2>5. QED BY <2>1, <2>2, <2>3, <2>4
<1>24. CASE Dies(m)
  <2>1. migrator' \in [Migrators -> MigratorType]
    BY <1>24, LetsGoType DEF Dies
  <2>2. stage' \in [Migrators -> Dirs]
    BY <1>24 DEF Dies, LetsGo, FreedBy, Dirs, Markers
  <2>3. StoreTypeOK'
    BY <1>24 DEF Dies, LetsGo, FreedBy
  <2>4. /\ source' \in [Keys -> Stamps] /\ lockFiles' \subseteq Keys
        /\ writer' \in [Writers -> Keys \cup {None}]
        /\ keyLock' \in [Keys -> Writers \cup Migrators \cup {None}]
    BY <1>24 DEF Dies, LetsGo, FreedBy
  <2>5. QED BY <2>1, <2>2, <2>3, <2>4
<1>25. CASE AdoptStage(m)
  <2>1. migrator' \in [Migrators -> MigratorType]
    BY <1>25, MovesType DEF AdoptStage
  <2>2. stage' \in [Migrators -> Dirs]
    BY <1>25 DEF AdoptStage, Dirs, Markers
  <2>3. StoreTypeOK'
    BY <1>25 DEF AdoptStage
  <2>4. /\ source' \in [Keys -> Stamps] /\ lockFiles' \subseteq Keys
        /\ writer' \in [Writers -> Keys \cup {None}]
        /\ keyLock' \in [Keys -> Writers \cup Migrators \cup {None}]
    BY <1>25 DEF AdoptStage
  <2>5. QED BY <2>1, <2>2, <2>3, <2>4
<1>30. QED
  BY <1>10, <1>11, <1>12, <1>13, <1>14, <1>15, <1>16, <1>17, <1>18, <1>19,
     <1>20, <1>21, <1>22, <1>23, <1>24, <1>25 DEF Migrate

LEMMA LegacyType ==
  ASSUME TypeOK, NEW w \in Writers, Legacy(w)
  PROVE  TypeOK'
<1>1. stamp < MaxStamp => stamp + 1 \in Stamps
  BY StampAssumption DEF TypeOK, StoreTypeOK, Stamps
<1> USE DEF TypeOK, StoreTypeOK, storeVars
<1>2. CASE LegacyClaim(w) BY <1>2 DEF LegacyClaim
<1>3. CASE LegacyWrite(w) BY <1>1, <1>3 DEF LegacyWrite
<1>4. CASE LegacyEnds(w) BY <1>4 DEF LegacyEnds
<1>5. QED BY <1>2, <1>3, <1>4 DEF Legacy

-----------------------------------------------------------------------------
(***************************************************************************)
(* All that a claim does to what is shared: the store only fills up, its   *)
(* marker goes from nothing to torn to an owner's, and nobody else's lock  *)
(* is taken away.                                                          *)
(***************************************************************************)
Effect(a) ==
  /\ adapter' = [adapter EXCEPT ![a] = adapter'[a]]
  /\ store' = store \/ store'.present
  /\ store'.from = store.from /\ store.locks \subseteq store'.locks
  /\ \A c \in Channels : store'.recs[c] = store.recs[c] \/ store'.recs[c] # 0
  /\ \/ store'.marker = store.marker
     \/ store.marker = "none" /\ store'.marker = "torn" /\ adapter[a].at = "mark"
     \/ store.marker = "torn" /\ store'.marker \in Owners
          /\ adapter[a].at = "write" /\ adapter'[a].at # "write"
  /\ adapter'[a].at = "write" => store.marker = "none"
  /\ \A c \in Channels : chanLock'[c] = chanLock[c] \/ chanLock[c] \in {None, a}

LEMMA EffectOnStore ==
  ASSUME SInv, TypeOK', NEW a \in Adapters, Effect(a), UNCHANGED migrator
  PROVE  StoreInv'
<1>0. TypeOK /\ StoreInv /\ AdapterInv(a)
  BY DEF SInv
<1>1. \A m \in Migrators : Scanned(m)' = Scanned(m)
  BY DEF Scanned
<1>2. store.from # None => store.from \in Migrators
  BY <1>0 DEF TypeOK, StoreTypeOK, Dirs
<1>3. ~EmptyDir(store) => ~EmptyDir(store')
  BY <1>0, Names DEF Effect, EmptyDir
<1>4. Scanned(store.from) \subseteq Keys
  BY DEF Scanned
<1>5. store.from # None /\ Whole(store, store.from) => Whole(store', store.from)
  BY <1>4, Names DEF Effect, Whole
<1>6. store'.from # None => Whole(store', store.from) = Whole(store, store.from)'
  BY <1>1, <1>2 DEF Effect, Whole
<1>7. store'.marker # "none" /\ store'.from # None => store.marker # "none"
  BY <1>0 DEF Effect, AdapterInv
<1>8. ~store'.present => EmptyDir(store')
  BY <1>0 DEF Effect, StoreInv
<1>9. (~store.present => EmptyDir(store))' /\ (store.from # None => ~EmptyDir(store))'
  BY <1>0, <1>3, <1>8 DEF Effect, StoreInv, EmptyDir
<1>10. QED
  BY <1>0, <1>5, <1>6, <1>7, <1>9 DEF Effect, StoreInv

LEMMA EffectOnOthers ==
  ASSUME SInv, NEW a \in Adapters, Effect(a), NEW b \in Adapters, b # a
  PROVE  AdapterInv(b)'
<1>1. TypeOK /\ AdapterInv(a) /\ AdapterInv(b) /\ adapter'[b] = adapter[b]
  BY DEF SInv, TypeOK, StoreTypeOK, Effect
<1>2. \A c \in Adapters : c # a => adapter'[c] = adapter[c]
  BY DEF SInv, TypeOK, StoreTypeOK, Effect
<1>3. QED
  BY <1>1, <1>2, Names DEF AdapterInv, Effect, Claiming, Made

LEMMA GoesEffect ==
  ASSUME adapter \in [Adapters -> AdapterType], NEW a \in Adapters, NEW at, Goes(a, at)
  PROVE  /\ adapter' = [adapter EXCEPT ![a] = adapter'[a]] /\ adapter'[a].at = at
         /\ adapter'[a].owner = adapter[a].owner /\ adapter'[a].tmp = adapter[a].tmp
         /\ adapter'[a].channel = adapter[a].channel
  BY DEF Goes, AdapterType

LEMMA RefusesEffect ==
  ASSUME adapter \in [Adapters -> AdapterType], NEW a \in Adapters, NEW why, Refuses(a, why)
  PROVE  adapter' = [adapter EXCEPT ![a] = adapter'[a]] /\ adapter'[a].at = "refused"
  BY DEF Refuses, Idle

(***************************************************************************)
(* A claim keeps the invariant.                                            *)
(***************************************************************************)
LEMMA ClaimStep ==
  ASSUME SInv, TypeOK', NEW a \in Adapters, Claim(a), UNCHANGED <<legacyVars, migrator, stage>>
  PROVE  SInv'
<1>0. TypeOK /\ StoreInv /\ \A b \in Adapters : AdapterInv(b)
  BY DEF SInv
<1>1. /\ \A m \in Migrators : LockInv(m)' /\ StageInv(m)'
      /\ \A w \in Writers : WriterInv(w)'
  BY DEF SInv, LockInv, StageInv, WriterInv, legacyVars, Whole, Scanned, EmptyDir
<1>2. SUFFICES Effect(a) /\ AdapterInv(a)'
  BY <1>1, EffectOnStore, EffectOnOthers DEF SInv
<1>3. adapter \in [Adapters -> AdapterType] /\ store \in Dirs
  BY <1>0 DEF TypeOK, StoreTypeOK, AdapterType, Claiming
<1> USE <1>0, <1>3, Names, GoesEffect, RefusesEffect DEF Claiming, Made
<1>10. CASE StartClaim(a)
  <2>1. Effect(a)
    BY <1>10 DEF StartClaim, Effect, AdapterInv, Dirs, TypeOK, StoreTypeOK, Idle
  <2>2. AdapterInv(a)'
    BY <1>10 DEF StartClaim, AdapterInv, StoreInv, EmptyDir, Dirs, TypeOK, StoreTypeOK, Idle
  <2>3. QED BY <2>1, <2>2
<1>11. CASE TakeInitLock(a)
  <2>1. Effect(a)
    BY <1>11 DEF TakeInitLock, Effect, AdapterInv, Dirs, TypeOK, StoreTypeOK
  <2>2. AdapterInv(a)'
    BY <1>11 DEF TakeInitLock, AdapterInv, StoreInv, EmptyDir, Dirs, TypeOK, StoreTypeOK
  <2>3. QED BY <2>1, <2>2
<1>12. CASE MakeDirectory(a)
  <2>1. Effect(a)
    BY <1>12 DEF MakeDirectory, Effect, AdapterInv, Dirs, TypeOK, StoreTypeOK
  <2>2. AdapterInv(a)'
    BY <1>12 DEF MakeDirectory, AdapterInv, StoreInv, EmptyDir, Dirs, TypeOK, StoreTypeOK
  <2>3. QED BY <2>1, <2>2
<1>13. CASE ValidateMarker(a)
  <2>1. Effect(a)
    BY <1>13 DEF ValidateMarker, Effect, AdapterInv, Dirs, TypeOK, StoreTypeOK
  <2>2. AdapterInv(a)'
    BY <1>13 DEF ValidateMarker, AdapterInv, StoreInv, EmptyDir, Dirs, TypeOK, StoreTypeOK
  <2>3. QED BY <2>1, <2>2
<1>14. CASE ListEntries(a)
  <2>1. Effect(a)
    BY <1>14 DEF ListEntries, Effect, AdapterInv, Dirs, TypeOK, StoreTypeOK
  <2>2. AdapterInv(a)'
    BY <1>14 DEF ListEntries, AdapterInv, StoreInv, EmptyDir, Dirs, TypeOK, StoreTypeOK
  <2>3. QED BY <2>1, <2>2
<1>15. CASE CreateMarker(a)
  <2>1. Effect(a)
    <3>1. CASE store.marker = "none"
      <4>1. store' = [store EXCEPT !.marker = "torn"] /\ Goes(a, "write")
        BY <1>15, <3>1 DEF CreateMarker
      <4>2. adapter[a].at = "mark" /\ UNCHANGED chanLock /\ store.present
        BY <1>15 DEF CreateMarker, AdapterInv
      <4>3. QED BY <3>1, <4>1, <4>2 DEF Effect, Dirs
    <3>2. CASE store.marker # "none"
      <4>1. store' = store /\ Refuses(a, "exists") /\ UNCHANGED chanLock
        BY <1>15, <3>2 DEF CreateMarker
      <4>2. QED BY <4>1 DEF Effect
    <3>3. QED BY <3>1, <3>2
  <2>2. AdapterInv(a)'
    BY <1>15 DEF CreateMarker, AdapterInv, StoreInv, EmptyDir, Dirs, TypeOK, StoreTypeOK
  <2>3. QED BY <2>1, <2>2
<1>16. CASE WriteMarker(a)
  <2>1. Effect(a)
    BY <1>16 DEF WriteMarker, Effect, AdapterInv, Dirs, TypeOK, StoreTypeOK
  <2>2. AdapterInv(a)'
    BY <1>16 DEF WriteMarker, AdapterInv, StoreInv, EmptyDir, Dirs, TypeOK, StoreTypeOK
  <2>3. QED BY <2>1, <2>2
<1>17. CASE TakeChannelLock(a)
  <2>1. Effect(a)
    BY <1>17 DEF TakeChannelLock, Effect, AdapterInv, Dirs, TypeOK, StoreTypeOK
  <2>2. AdapterInv(a)'
    BY <1>17 DEF TakeChannelLock, AdapterInv, StoreInv, EmptyDir, Dirs, TypeOK, StoreTypeOK
  <2>3. QED BY <2>1, <2>2
<1>18. CASE SaveRecord(a)
  <2>1. Effect(a)
    BY <1>18 DEF SaveRecord, Effect, AdapterInv, Dirs, TypeOK, StoreTypeOK
  <2>2. AdapterInv(a)'
    BY <1>18 DEF SaveRecord, AdapterInv, StoreInv, EmptyDir, Dirs, TypeOK, StoreTypeOK
  <2>3. QED BY <2>1, <2>2
<1>19. CASE Ends(a)
  <2>1. Effect(a)
    BY <1>19 DEF Ends, Effect, AdapterInv, Dirs, TypeOK, StoreTypeOK, Idle
  <2>2. AdapterInv(a)'
    BY <1>19 DEF Ends, AdapterInv, StoreInv, EmptyDir, Dirs, TypeOK, StoreTypeOK, Idle
  <2>3. QED BY <2>1, <2>2
<1>20. QED
  BY <1>10, <1>11, <1>12, <1>13, <1>14, <1>15, <1>16, <1>17, <1>18, <1>19 DEF Claim

(***************************************************************************)
(* A migration's step leaves the others as they were: it takes only locks  *)
(* that are free and gives back only its own.                              *)
(***************************************************************************)
Aside(m) ==
  /\ migrator' = [migrator EXCEPT ![m] = migrator'[m]]
  /\ stage' = [stage EXCEPT ![m] = stage'[m]]
  /\ source' = source /\ writer' = writer
  /\ \A k \in Keys : keyLock'[k] = keyLock[k] \/ keyLock[k] \in {None, m}

LEMMA OthersAside ==
  ASSUME SInv, NEW m \in Migrators, Aside(m)
  PROVE  /\ \A n \in Migrators \ {m} : LockInv(n)' /\ StageInv(n)'
         /\ \A w \in Writers : WriterInv(w)'
<1>0. TypeOK /\ \A n \in Migrators : LockInv(n) /\ StageInv(n)
  BY DEF SInv
<1>1. ASSUME NEW n \in Migrators \ {m} PROVE LockInv(n)' /\ StageInv(n)'
  <2>1. migrator'[n] = migrator[n] /\ stage'[n] = stage[n] /\ Scanned(n)' = Scanned(n)
    BY <1>0 DEF Aside, TypeOK, Scanned
  <2>2. \A k \in Keys : keyLock[k] = n => keyLock'[k] = n
    BY Names DEF Aside
  <2>3. Scanned(n) \subseteq Keys
    BY DEF Scanned
  <2>4. LockInv(n)'
    BY <1>0, <2>1, <2>2, <2>3 DEF LockInv, Aside
  <2>5. StageInv(n)'
    BY <1>0, <2>1 DEF StageInv, Whole
  <2>6. QED BY <2>4, <2>5
<1>2. ASSUME NEW w \in Writers PROVE WriterInv(w)'
  BY <1>0, Names DEF Aside, WriterInv, SInv, TypeOK
<1>3. QED BY <1>1, <1>2

(***************************************************************************)
(* One that does not publish leaves the store and its adapters too.        *)
(***************************************************************************)
LEMMA StoreAside ==
  ASSUME SInv, NEW m \in Migrators, Aside(m), UNCHANGED <<store, chanLock, adapter>>,
         migrator'[m].at # "idle",
         migrator'[m].scan = migrator[m].scan \/ migrator[m].at = "idle"
  PROVE  StoreInv' /\ \A a \in Adapters : AdapterInv(a)'
<1>0. TypeOK /\ StoreInv /\ \A a \in Adapters : AdapterInv(a)
  BY DEF SInv
<1>1. store.from # None => store.from \in Migrators
  BY <1>0 DEF TypeOK, StoreTypeOK, Dirs
<1>2. store.from # None =>
        UNCHANGED Scanned(store.from) /\ migrator'[store.from].at # "idle"
  <2>1. \A n \in Migrators : Scanned(n)' = Scanned(n) \/ n = m
    BY <1>0 DEF Aside, Scanned, TypeOK
  <2>2. migrator[m].at # "idle" => Scanned(m)' = Scanned(m)
    BY DEF Scanned
  <2>3. \A n \in Migrators : n = m \/ migrator'[n] = migrator[n]
    BY <1>0 DEF Aside, TypeOK
  <2>4. QED BY <1>0, <1>1, <2>1, <2>2, <2>3 DEF StoreInv
<1>3. StoreInv'
  BY <1>0, <1>2 DEF StoreInv, Whole, EmptyDir
<1>4. QED
  BY <1>0, <1>3 DEF AdapterInv

(***************************************************************************)
(* A migration keeps the invariant.                                        *)
(***************************************************************************)
LEMMA MovesEffect ==
  ASSUME migrator \in [Migrators -> MigratorType], NEW m \in Migrators, NEW at, Moves(m, at)
  PROVE  /\ migrator' = [migrator EXCEPT ![m] = migrator'[m]] /\ migrator'[m].at = at
         /\ migrator'[m].scan = migrator[m].scan /\ migrator'[m].held = migrator[m].held
  BY DEF Moves, MigratorType

LEMMA LetsGoEffect ==
  ASSUME SInv, NEW m \in Migrators, NEW at, LetsGo(m, at)
  PROVE  /\ Aside(m) /\ UNCHANGED <<store, chanLock, adapter, stage>>
         /\ migrator'[m].at = at /\ migrator'[m].scan = migrator[m].scan
<1>1. migrator \in [Migrators -> MigratorType] /\ TypeOK
  BY DEF SInv, TypeOK, MigratorType
<1>2. /\ migrator' = [migrator EXCEPT ![m] = migrator'[m]]
      /\ migrator'[m].at = at /\ migrator'[m].scan = migrator[m].scan
  BY <1>1 DEF LetsGo, MigratorType
<1>3. \A k \in Keys : keyLock'[k] = keyLock[k] \/ keyLock[k] = m
  BY DEF LetsGo, FreedBy
<1>4. UNCHANGED <<store, chanLock, adapter, stage, source, writer>>
  BY DEF LetsGo
<1>5. QED
  BY <1>1, <1>2, <1>3, <1>4 DEF Aside, TypeOK

LEMMA MigrateStep ==
  ASSUME SInv, TypeOK', NEW m \in Migrators, Migrate(m)
  PROVE  SInv'
<1>0. /\ TypeOK /\ StoreInv /\ LockInv(m) /\ StageInv(m)
      /\ \A a \in Adapters : AdapterInv(a)
  BY DEF SInv
<1>1. migrator \in [Migrators -> MigratorType] /\ stage[m] \in Dirs
  BY <1>0 DEF TypeOK, MigratorType
<1>2. \A k \in Scanned(m) : k \in Keys /\ Canon[k] \in Channels
  BY Names DEF Scanned
<1>3. ASSUME Aside(m), UNCHANGED <<store, chanLock, adapter>>, migrator'[m].at # "idle",
             migrator'[m].scan = migrator[m].scan \/ migrator[m].at = "idle",
             LockInv(m)', StageInv(m)'
      PROVE  SInv'
  BY <1>3, OthersAside, StoreAside DEF SInv
<1> USE <1>0, <1>1, Names, MovesEffect
    DEF storeVars, legacyVars, Working, Locked, Confirmed, Copied, Marked
<1>10. CASE LockSource(m)
  <2>1. /\ Aside(m) /\ UNCHANGED <<store, chanLock, adapter>>
        /\ migrator'[m].at # "idle" /\ migrator'[m].scan = migrator[m].scan
    BY <1>10 DEF LockSource, Aside, TypeOK
  <2>2. LockInv(m)'
    <3>1. CASE migrator'[m].at = "failing"
      BY <3>1 DEF LockInv
    <3>2. CASE Scanned(m) = migrator[m].held
      BY <1>10, <2>1, <3>2 DEF LockSource, LockInv, Scanned
    <3>3. CASE Scanned(m) # migrator[m].held /\ migrator'[m].at # "failing"
      <4>1. PICK k \in Scanned(m) :
              /\ keyLock' = [keyLock EXCEPT ![k] = m]
              /\ migrator' = [migrator EXCEPT ![m].held = migrator[m].held \cup {k}]
        BY <1>10, <3>3 DEF LockSource
      <4>2. /\ migrator'[m].at = "locking" /\ migrator'[m].held = migrator[m].held \cup {k}
            /\ Scanned(m)' = Scanned(m) /\ k \in Keys
        BY <1>2, <1>10, <2>1, <4>1 DEF LockSource, Scanned, MigratorType
      <4>3. QED BY <1>2, <4>1, <4>2 DEF LockInv, TypeOK
    <3>4. QED BY <3>1, <3>2, <3>3
  <2>3. StageInv(m)'
    <3>1. migrator'[m].at \in {"locking", "confirm", "failing"} /\ stage' = stage
      BY <1>10 DEF LockSource, MigratorType
    <3>2. QED BY <2>1, <3>1 DEF StageInv, Whole, Scanned
  <2>4. QED BY <1>3, <2>1, <2>2, <2>3
<1>11. CASE Confirm(m)
  <2>1. /\ Aside(m) /\ UNCHANGED <<store, chanLock, adapter>>
        /\ migrator'[m].at # "idle" /\ migrator'[m].scan = migrator[m].scan
    BY <1>11 DEF Confirm, Rescans, Unchanged, Aside, TypeOK
  <2>2. LockInv(m)'
    BY <1>2, <1>11, <2>1 DEF Confirm, Rescans, Unchanged, LockInv, Scanned
  <2>3. StageInv(m)'
    BY <1>2, <1>11, <2>1 DEF Confirm, Rescans, Unchanged, StageInv, Whole, Scanned, EmptyDir, Dirs
  <2>4. QED BY <1>3, <2>1, <2>2, <2>3
<1>12. CASE LockDestination(m)
  <2>1. /\ Aside(m) /\ UNCHANGED <<store, chanLock, adapter>>
        /\ migrator'[m].at # "idle" /\ migrator'[m].scan = migrator[m].scan
    BY <1>12 DEF LockDestination, Aside, TypeOK
  <2>2. LockInv(m)'
    BY <1>2, <1>12, <2>1 DEF LockDestination, LockInv, Scanned
  <2>3. StageInv(m)'
    BY <1>2, <1>12, <2>1 DEF LockDestination, StageInv, Whole, Scanned, EmptyDir, Dirs
  <2>4. QED BY <1>3, <2>1, <2>2, <2>3
<1>13. CASE CheckDestination(m)
  <2>1. /\ Aside(m) /\ UNCHANGED <<store, chanLock, adapter>>
        /\ migrator'[m].at # "idle" /\ migrator'[m].scan = migrator[m].scan
    BY <1>13 DEF CheckDestination, Aside, TypeOK
  <2>2. LockInv(m)'
    BY <1>2, <1>13, <2>1 DEF CheckDestination, LockInv, Scanned
  <2>3. StageInv(m)'
    BY <1>2, <1>13, <2>1 DEF CheckDestination, StageInv, Whole, Scanned, EmptyDir, Dirs
  <2>4. QED BY <1>3, <2>1, <2>2, <2>3
<1>14. CASE DryRun(m)
  <2>1. /\ Aside(m) /\ UNCHANGED <<store, chanLock, adapter>>
        /\ migrator'[m].at # "idle" /\ migrator'[m].scan = migrator[m].scan
    BY <1>14 DEF DryRun, Rescans, Aside, TypeOK
  <2>2. LockInv(m)'
    BY <1>2, <1>14, <2>1 DEF DryRun, Rescans, LockInv, Scanned
  <2>3. StageInv(m)'
    BY <1>2, <1>14, <2>1 DEF DryRun, Rescans, StageInv, Whole, Scanned, EmptyDir, Dirs
  <2>4. QED BY <1>3, <2>1, <2>2, <2>3
<1>15. CASE MakeStage(m)
  <2>1. /\ Aside(m) /\ UNCHANGED <<store, chanLock, adapter>>
        /\ migrator'[m].at # "idle" /\ migrator'[m].scan = migrator[m].scan
    BY <1>15 DEF MakeStage, Stages, Aside, TypeOK
  <2>2. LockInv(m)'
    BY <1>2, <1>15, <2>1 DEF MakeStage, Stages, LockInv, Scanned
  <2>3. StageInv(m)'
    <3>1. /\ stage'[m] = [Absent EXCEPT !.present = TRUE, !.from = m]
          /\ migrator'[m].at = "copy"
      BY <1>15 DEF MakeStage, Stages, TypeOK
    <3>2. QED BY <3>1 DEF StageInv, Absent, EmptyDir
  <2>4. QED BY <1>3, <2>1, <2>2, <2>3
<1>16. CASE CopyRecord(m)
  <2>1. /\ Aside(m) /\ UNCHANGED <<store, chanLock, adapter>>
        /\ migrator'[m].at # "idle" /\ migrator'[m].scan = migrator[m].scan
    BY <1>16 DEF CopyRecord, Stages, Aside, TypeOK
  <2>2. LockInv(m)'
    BY <1>2, <1>16, <2>1 DEF CopyRecord, Stages, LockInv, Scanned
  <2>3. StageInv(m)'
    <3> DEFINE left == {k \in Scanned(m) : stage[m].recs[Canon[k]] = 0}
    <3>1. CASE left = {}
      <4>1. stage'[m] = stage[m] /\ migrator'[m].at = "mark" /\ migrator[m].at = "copy"
        BY <1>16, <3>1 DEF CopyRecord, Stages, TypeOK
      <4>2. QED BY <2>1, <3>1, <4>1 DEF StageInv, Whole, Scanned
    <3>2. CASE left # {}
      <4>1. PICK k \in left : /\ stage' = [stage EXCEPT ![m] =
                                  [stage[m] EXCEPT !.recs[Canon[k]] = migrator[m].scan[k]]]
                             /\ Moves(m, "copy")
        BY <1>16, <3>2 DEF CopyRecord, Stages
      <4>2. k \in Scanned(m) /\ migrator[m].scan[k] # 0 /\ migrator[m].at = "copy"
        BY <1>16 DEF CopyRecord, Scanned
      <4>3. /\ stage'[m].present = stage[m].present /\ stage'[m].from = stage[m].from
            /\ stage'[m].marker = stage[m].marker
            /\ \A c \in Channels : stage'[m].recs[c] =
                 IF c = Canon[k] THEN migrator[m].scan[k] ELSE stage[m].recs[c]
        BY <1>2, <4>1, <4>2 DEF Dirs, TypeOK
      <4>4. QED BY <1>2, <2>1, <4>1, <4>2, <4>3 DEF StageInv, Whole, Scanned
    <3>3. QED BY <3>1, <3>2
  <2>4. QED BY <1>3, <2>1, <2>2, <2>3
<1>17. CASE CreateStageMarker(m)
  <2>1. /\ Aside(m) /\ UNCHANGED <<store, chanLock, adapter>>
        /\ migrator'[m].at # "idle" /\ migrator'[m].scan = migrator[m].scan
    BY <1>17 DEF CreateStageMarker, Stages, Aside, TypeOK
  <2>2. LockInv(m)'
    BY <1>2, <1>17, <2>1 DEF CreateStageMarker, Stages, LockInv, Scanned
  <2>3. StageInv(m)'
    BY <1>2, <1>17, <2>1 DEF CreateStageMarker, Stages, StageInv, Whole, Scanned, EmptyDir, Dirs
  <2>4. QED BY <1>3, <2>1, <2>2, <2>3
<1>18. CASE WriteStageMarker(m)
  <2>1. /\ Aside(m) /\ UNCHANGED <<store, chanLock, adapter>>
        /\ migrator'[m].at # "idle" /\ migrator'[m].scan = migrator[m].scan
    BY <1>18 DEF WriteStageMarker, Stages, Aside, TypeOK
  <2>2. LockInv(m)'
    BY <1>2, <1>18, <2>1 DEF WriteStageMarker, Stages, LockInv, Scanned
  <2>3. StageInv(m)'
    <3>1. PICK o \in Owners : stage'[m] = [stage[m] EXCEPT !.marker = o]
      BY <1>18 DEF WriteStageMarker, Stages, TypeOK
    <3>2. migrator'[m].at = "recheck" /\ migrator[m].at = "write"
      BY <1>18 DEF WriteStageMarker, Stages
    <3>3. QED BY <2>1, <3>1, <3>2 DEF StageInv, Whole, Scanned, Dirs
  <2>4. QED BY <1>3, <2>1, <2>2, <2>3
<1>19. CASE Recheck(m)
  <2>1. /\ Aside(m) /\ UNCHANGED <<store, chanLock, adapter>>
        /\ migrator'[m].at # "idle" /\ migrator'[m].scan = migrator[m].scan
    BY <1>19 DEF Recheck, Rescans, Aside, TypeOK
  <2>2. LockInv(m)'
    BY <1>2, <1>19, <2>1 DEF Recheck, Rescans, LockInv, Scanned
  <2>3. StageInv(m)'
    BY <1>2, <1>19, <2>1 DEF Recheck, Rescans, StageInv, Whole, Scanned, EmptyDir, Dirs
  <2>4. QED BY <1>3, <2>1, <2>2, <2>3
<1>20. CASE Throws(m)
  <2>1. /\ Aside(m) /\ UNCHANGED <<store, chanLock, adapter>>
        /\ migrator'[m].at # "idle" /\ migrator'[m].scan = migrator[m].scan
    BY <1>20 DEF Throws, Aside, TypeOK
  <2>2. LockInv(m)'
    BY <1>2, <1>20, <2>1 DEF Throws, LockInv, Scanned
  <2>3. StageInv(m)'
    BY <1>2, <1>20, <2>1 DEF Throws, StageInv, Whole, Scanned, EmptyDir, Dirs
  <2>4. QED BY <1>3, <2>1, <2>2, <2>3
<1>21. CASE Begin(m)
  <2>1. /\ Aside(m) /\ UNCHANGED <<store, chanLock, adapter, stage>>
        /\ migrator[m].at = "idle" /\ migrator'[m].at \in {"locking", "ended"}
    BY <1>21 DEF Begin, Aside, TypeOK
  <2>2. LockInv(m)'
    BY <1>2, <1>21, <2>1 DEF Begin, Acceptable, LockInv, Scanned
  <2>3. StageInv(m)'
    BY <2>1 DEF StageInv, Absent, EmptyDir
  <2>4. QED BY <1>3, <2>1, <2>2, <2>3
<1>22. CASE ReleaseAll(m)
  <2>1. /\ Aside(m) /\ UNCHANGED <<store, chanLock, adapter, stage>>
        /\ migrator'[m].at \in {"ended", "dead"} /\ migrator'[m].scan = migrator[m].scan
    BY <1>22, LetsGoEffect DEF ReleaseAll
  <2>2. LockInv(m)' /\ StageInv(m)'
    BY <2>1 DEF LockInv, StageInv, Whole, Scanned
  <2>3. QED BY <1>3, <2>1, <2>2
<1>23. CASE Dies(m)
  <2>1. /\ Aside(m) /\ UNCHANGED <<store, chanLock, adapter, stage>>
        /\ migrator'[m].at \in {"ended", "dead"} /\ migrator'[m].scan = migrator[m].scan
    BY <1>23, LetsGoEffect DEF Dies
  <2>2. LockInv(m)' /\ StageInv(m)'
    BY <2>1 DEF LockInv, StageInv, Whole, Scanned
  <2>3. QED BY <1>3, <2>1, <2>2
<1>24. CASE Publish(m)
  <2>1. /\ Aside(m) /\ UNCHANGED <<chanLock, adapter>>
        /\ migrator'[m].at \in {"published", "failing"} /\ migrator'[m].scan = migrator[m].scan
    BY <1>24 DEF Publish, Aside, TypeOK
  <2>2. LockInv(m)'
    BY <2>1 DEF LockInv
  <2>3. StageInv(m)'
    <3>1. stage'[m] \in {stage[m], Absent}
      BY <1>24 DEF Publish, TypeOK
    <3>2. QED BY <2>1, <3>1 DEF StageInv, Whole, Scanned
  <2>4. CASE ~EmptyDir(store)
    BY <1>3, <1>24, <2>1, <2>2, <2>3, <2>4 DEF Publish
  <2>5. CASE EmptyDir(store)
    <3>1. store' = stage[m] /\ store'.marker \in Owners /\ store'.from = m /\ store'.present
      BY <1>24, <2>5 DEF Publish, StageInv
    <3>2. StoreInv'
      BY <2>1, <3>1 DEF StoreInv, EmptyDir, StageInv, Whole, Scanned
    <3>3. \A a \in Adapters : AdapterInv(a)'
      BY <2>1, <2>5, <3>1 DEF AdapterInv, EmptyDir, Claiming
    <3>4. QED BY <2>1, <2>2, <2>3, <3>2, <3>3, OthersAside DEF SInv
  <2>6. QED BY <2>4, <2>5
<1>25. CASE AdoptStage(m)
  <2>1. /\ Aside(m) /\ UNCHANGED <<chanLock, adapter, migrator>>
        /\ migrator[m].at \in {"ended", "dead"}
    BY <1>25 DEF AdoptStage, Aside, TypeOK
  <2>2. LockInv(m)'
    BY <2>1 DEF LockInv
  <2>3. StageInv(m)'
    BY <1>25, <2>1 DEF AdoptStage, StageInv, Whole, Scanned, Absent
  <2>4. store' = stage[m] /\ ~EmptyDir(store') /\ store'.present /\ store'.from = m /\ ~store.present
    BY <1>25 DEF AdoptStage, StageInv
  <2>5. StoreInv'
    BY <2>1, <2>4 DEF StoreInv, EmptyDir, StageInv, Whole, Scanned
  <2>6. \A a \in Adapters : AdapterInv(a)'
    BY <2>1, <2>4 DEF AdapterInv, Claiming, Made
  <2>7. QED BY <2>1, <2>2, <2>3, <2>5, <2>6, OthersAside DEF SInv
<1>26. QED
  BY <1>10, <1>11, <1>12, <1>13, <1>14, <1>15, <1>16, <1>17, <1>18, <1>19,
     <1>20, <1>21, <1>22, <1>23, <1>24, <1>25 DEF Migrate

(***************************************************************************)
(* So does an old adapter, because a migration past its locks holds every  *)
(* key it knows.                                                           *)
(***************************************************************************)
LEMMA LegacyStep ==
  ASSUME SInv, TypeOK', NEW w \in Writers, Legacy(w)
  PROVE  SInv'
<1>0. /\ TypeOK /\ \A m \in Migrators : LockInv(m) /\ StageInv(m)
      /\ \A v \in Writers : WriterInv(v)
  BY DEF SInv
<1>1. /\ UNCHANGED <<store, initLock, chanLock, adapter, migrator, stage>>
      /\ \A k \in Keys : \/ source'[k] = source[k]
                         \/ writer[w] = k
  BY <1>0, Names DEF Legacy, LegacyClaim, LegacyWrite, LegacyEnds, storeVars, TypeOK
<1>2. \A k \in Keys : keyLock'[k] = keyLock[k] \/ keyLock[k] \in {None, w}
  BY <1>0, Names DEF Legacy, LegacyClaim, LegacyWrite, LegacyEnds, storeVars, TypeOK, WriterInv
<1>3. /\ StoreInv' /\ \A a \in Adapters : AdapterInv(a)'
      /\ \A m \in Migrators : StageInv(m)'
  BY <1>1 DEF SInv, StoreInv, AdapterInv, StageInv, Whole, Scanned, EmptyDir
<1>4. ASSUME NEW m \in Migrators PROVE LockInv(m)'
  <2>1. \A k \in Keys : keyLock[k] = m => keyLock'[k] = m /\ source'[k] = source[k]
    BY <1>0, <1>1, <1>2, Names DEF WriterInv
  <2>2. Scanned(m)' = Scanned(m) /\ Scanned(m) \subseteq Keys
    BY <1>1 DEF Scanned
  <2>3. QED
    BY <1>0, <1>1, <2>1, <2>2 DEF LockInv, Locked, Confirmed, Copied, Marked, Working
<1>5. ASSUME NEW v \in Writers PROVE WriterInv(v)'
  BY <1>0, Names
     DEF Legacy, LegacyClaim, LegacyWrite, LegacyEnds, storeVars, TypeOK, WriterInv
<1>6. QED
  BY <1>3, <1>4, <1>5 DEF SInv

LEMMA InitInv == Init => SInv
<1>1. SUFFICES ASSUME Init PROVE SInv
  OBVIOUS
<1>2. TypeOK
  <2>1. store \in Dirs /\ adapter \in [Adapters -> AdapterType]
    BY <1>1, Names DEF Init, StoreInit, AdapterType, Idle
  <2>2. initLock \in [Tmps -> Procs \cup {None}] /\ chanLock \in [Channels -> Adapters \cup {None}]
    BY <1>1 DEF Init, StoreInit
  <2>3. StoreTypeOK
    BY <1>1, <2>1, <2>2, StampAssumption
       DEF Init, StoreInit, StoreTypeOK, AdapterType, Claiming, Stamps
  <2>4. NotBegun \in MigratorType
    BY Names DEF NotBegun, MigratorType, Places
  <2>5. migrator \in [Migrators -> MigratorType] /\ stage \in [Migrators -> Dirs]
    BY <1>1, <2>4, Names DEF Init
  <2>6. /\ source \in [Keys -> Stamps] /\ lockFiles \subseteq Keys
        /\ keyLock \in [Keys -> Writers \cup Migrators \cup {None}]
        /\ writer \in [Writers -> Keys \cup {None}]
    <3>1. PICK known \in SUBSET Keys :
            source = [k \in Keys |-> IF k \in known THEN 1 ELSE 0] /\ lockFiles = known
      BY <1>1 DEF Init
    <3>2. QED BY <1>1, <3>1, StampAssumption DEF Init, Stamps
  <2>7. QED BY <2>3, <2>5, <2>6 DEF TypeOK, MigratorType
<1>3. StoreInv /\ \A a \in Adapters : AdapterInv(a)
  BY <1>1, Names DEF Init, StoreInit, StoreInv, AdapterInv, Idle, Claiming, Made
<1>4. ASSUME NEW m \in Migrators PROVE LockInv(m) /\ StageInv(m)
  BY <1>1, Names
     DEF Init, LockInv, StageInv, NotBegun, Working, Locked, Confirmed, Copied, Marked
<1>5. \A w \in Writers : WriterInv(w)
  BY <1>1 DEF Init, WriterInv
<1>6. QED BY <1>2, <1>3, <1>4, <1>5 DEF SInv

LEMMA NextInv == SInv /\ [Next]_vars => SInv'
<1>1. SUFFICES ASSUME SInv, [Next]_vars PROVE SInv'
  OBVIOUS
<1>2. TypeOK /\ \A a \in Adapters : AdapterInv(a)
  BY <1>1 DEF SInv
<1>3. ASSUME NEW a \in Adapters, Claim(a) /\ UNCHANGED <<legacyVars, migrator, stage>>
      PROVE  SInv'
  BY <1>1, <1>2, <1>3, ClaimType, ClaimStep
<1>4. ASSUME NEW m \in Migrators, Migrate(m) PROVE SInv'
  BY <1>1, <1>2, <1>4, MigrateType, MigrateStep
<1>5. ASSUME NEW w \in Writers, Legacy(w) PROVE SInv'
  BY <1>1, <1>2, <1>5, LegacyType, LegacyStep
<1>6. CASE UNCHANGED vars
  BY <1>1, <1>6
     DEF vars, storeVars, legacyVars, SInv, TypeOK, StoreTypeOK, StoreInv, AdapterInv, LockInv,
         StageInv, WriterInv, Whole, Scanned, EmptyDir
<1>7. QED
  BY <1>1, <1>3, <1>4, <1>5, <1>6 DEF Next

-----------------------------------------------------------------------------
THEOREM Inductive == Spec => []SInv
<1>1. QED
  BY InitInv, NextInv, PTL DEF Spec

(***************************************************************************)
(* Every variable keeps its type, for any adapters and migrations.         *)
(***************************************************************************)
THEOREM TypeCorrect == Spec => []TypeOK
<1>1. SInv => TypeOK
  BY DEF SInv
<1>2. QED
  BY <1>1, Inductive, PTL

(***************************************************************************)
(* An adapter that owns a channel is bound by the marker of its store      *)
(* (initializeSessionStateStore), shared initialization lock or not.       *)
(***************************************************************************)
THEOREM OwnersAreBound == Spec => []BoundToItsOwner
<1>1. SInv => BoundToItsOwner
  BY DEF SInv, AdapterInv, BoundToItsOwner
<1>2. QED
  BY <1>1, Inductive, PTL

(***************************************************************************)
(* No adapter works on a partial copy, wherever a migration stopped        *)
(* (buildStage writes the marker last).                                    *)
(***************************************************************************)
THEOREM StoresAreWhole == Spec => []OwnedStoreIsWhole
<1>1. SInv => OwnedStoreIsWhole
  BY Names DEF SInv, StoreInv, AdapterInv, OwnedStoreIsWhole, Whole, Claiming
<1>2. QED
  BY <1>1, Inductive, PTL

(***************************************************************************)
(* A migration comes to have published only by its rename.                 *)
(***************************************************************************)
LEMMA OnlyPublish ==
  ASSUME SInv, Next, NEW m \in Migrators,
         migrator[m].at = "publish", migrator'[m].at = "published"
  PROVE  store' = stage[m]
<1>1. migrator \in [Migrators -> MigratorType]
  BY DEF SInv, TypeOK, MigratorType
<1>2. PICK n \in Migrators : Migrate(n)
  BY DEF Next, Legacy, LegacyClaim, LegacyWrite, LegacyEnds
<1> USE <1>1, MovesEffect, LetsGoEffect
<1>3. CASE Publish(n)
  BY <1>3 DEF Publish
<1>4. CASE Begin(n) BY <1>4 DEF Begin
<1>5. CASE LockSource(n) BY <1>5 DEF LockSource
<1>6. CASE ReleaseAll(n) \/ Dies(n) BY <1>6 DEF ReleaseAll, Dies, Aside
<1>7. CASE Confirm(n) \/ Recheck(n) \/ DryRun(n)
  BY <1>7 DEF Confirm, Recheck, DryRun, Rescans
<1>8. CASE LockDestination(n) \/ CheckDestination(n) \/ Throws(n) \/ AdoptStage(n)
  BY <1>8 DEF LockDestination, CheckDestination, Throws, AdoptStage
<1>9. CASE MakeStage(n) \/ CopyRecord(n) \/ CreateStageMarker(n) \/ WriteStageMarker(n)
  BY <1>9 DEF MakeStage, CopyRecord, CreateStageMarker, WriteStageMarker, Stages
<1>10. QED BY <1>2, <1>3, <1>4, <1>5, <1>6, <1>7, <1>8, <1>9 DEF Migrate

(***************************************************************************)
(* What is published is the source as it is at that instant, although old  *)
(* adapters may be running (acquireSourceLocks, and the scan before the    *)
(* rename).                                                                *)
(***************************************************************************)
THEOREM SourceIsPublished == Spec => PublishesTheSource
<1> DEFINE Same(m) ==
      migrator[m].at = "publish" /\ migrator'[m].at = "published" =>
        \A c \in Channels :
          LET known == {k \in Scanned(m) : Canon[k] = c}
          IN IF known = {} THEN store'.recs[c] = 0
             ELSE \A k \in known : store'.recs[c] = source[k]
<1>1. SInv /\ [Next]_vars => [\A m \in Migrators : Same(m)]_vars
  <2>1. SUFFICES ASSUME SInv, Next, NEW m \in Migrators, NEW c \in Channels,
                        migrator[m].at = "publish", migrator'[m].at = "published"
                 PROVE  LET known == {k \in Scanned(m) : Canon[k] = c}
                        IN IF known = {} THEN store'.recs[c] = 0
                           ELSE \A k \in known : store'.recs[c] = source[k]
    OBVIOUS
  <2>2. StageInv(m) /\ LockInv(m)
    BY <2>1 DEF SInv
  <2>3. store' = stage[m]
    BY <2>1, OnlyPublish
  <2>4. \/ store'.recs[c] = 0
        \/ \E k \in Scanned(m) : Canon[k] = c /\ store'.recs[c] = migrator[m].scan[k]
    BY <2>1, <2>2, <2>3 DEF StageInv, Copied, Marked
  <2>5. \A k \in Scanned(m) : store'.recs[Canon[k]] # 0
    BY <2>1, <2>2, <2>3 DEF StageInv, Copied, Marked, Whole
  <2>6. /\ \A j, k \in Scanned(m) : Canon[j] = Canon[k] => j = k
        /\ \A k \in Scanned(m) : source[k] = migrator[m].scan[k]
    BY <2>1, <2>2 DEF LockInv, Working, Locked, Confirmed, Copied, Marked
  <2>7. QED BY <2>4, <2>5, <2>6
<1>2. QED
  BY <1>1, Inductive, PTL DEF Spec, PublishesTheSource

(***************************************************************************)
(* No destination is replaced, and no binding changes, by any process.     *)
(***************************************************************************)
THEOREM NothingIsReplaced == Spec => NeverReplaced
<1> DEFINE Kept == /\ ~EmptyDir(store) => store'.from = store.from
                   /\ store.marker \in Owners => store'.marker = store.marker
                   /\ ~EmptyDir(store) =>
                        \A c \in Channels : store'.recs[c] = store.recs[c] \/ chanLock[c] # None
<1>1. ASSUME SInv, Next PROVE Kept \/ UNCHANGED vars
  <2>0. TypeOK /\ StoreInv /\ \A a \in Adapters : AdapterInv(a)
    BY <1>1 DEF SInv
  <2>1. CASE UNCHANGED store
    BY <2>1
  <2>2. ASSUME NEW a \in Adapters, Claim(a) PROVE Kept
    <3>1. store'.from = store.from
      BY <2>0, <2>2
         DEF Claim, StartClaim, TakeInitLock, MakeDirectory, ValidateMarker, ListEntries,
             CreateMarker, WriteMarker, TakeChannelLock, SaveRecord, Ends, TypeOK, StoreTypeOK, Dirs
    <3>2. store.marker \in Owners => store'.marker = store.marker
      BY <2>0, <2>2, Names
         DEF Claim, StartClaim, TakeInitLock, MakeDirectory, ValidateMarker, ListEntries,
             CreateMarker, WriteMarker, TakeChannelLock, SaveRecord, Ends, TypeOK, StoreTypeOK, Dirs,
             AdapterInv
    <3>3. \A c \in Channels : store'.recs[c] = store.recs[c] \/ chanLock[c] # None
      <4>1. CASE SaveRecord(a)
        BY <2>0, <4>1, Names DEF SaveRecord, TypeOK, StoreTypeOK, Dirs, AdapterInv, Claiming
      <4>2. CASE ~SaveRecord(a)
        BY <2>0, <2>2, <4>2
           DEF Claim, StartClaim, TakeInitLock, MakeDirectory, ValidateMarker, ListEntries,
               CreateMarker, WriteMarker, TakeChannelLock, Ends, TypeOK, StoreTypeOK, Dirs
      <4>3. QED BY <4>1, <4>2
    <3>4. QED BY <3>1, <3>2, <3>3
  <2>3. ASSUME NEW m \in Migrators, Migrate(m) PROVE Kept
    <3>1. CASE Publish(m)
      BY <3>1, Names DEF Publish, EmptyDir
    <3>2. CASE AdoptStage(m)
      BY <2>0, <3>2, Names DEF AdoptStage, StoreInv, EmptyDir
    <3>3. CASE ~Publish(m) /\ ~AdoptStage(m)
      <4>1. UNCHANGED store
        BY <2>3, <3>3
           DEF Migrate, Begin, LockSource, Confirm, LockDestination, CheckDestination, DryRun,
               MakeStage, CopyRecord, CreateStageMarker, WriteStageMarker, Recheck, Rescans,
               Stages, ReleaseAll, LetsGo, Throws, Dies, storeVars
      <4>2. QED BY <4>1
    <3>4. QED BY <3>1, <3>2, <3>3
  <2>4. ASSUME NEW w \in Writers, Legacy(w) PROVE Kept
    BY <2>4 DEF Legacy, LegacyClaim, LegacyWrite, LegacyEnds, storeVars
  <2>5. QED BY <1>1, <2>2, <2>3, <2>4 DEF Next
<1>2. SInv /\ [Next]_vars => [Kept]_vars
  BY <1>1
<1>3. QED
  BY <1>2, Inductive, PTL DEF Spec, NeverReplaced
=============================================================================
