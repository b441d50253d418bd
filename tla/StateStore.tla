------------------------------ MODULE StateStore ------------------------------
(***************************************************************************)
(* The directory of durable session state (src/session-state-store.js) and *)
(* the adapters that claim channels in it (SessionState.ensureOwnership in *)
(* src/session-state.js): the store is created and marked once, bound to   *)
(* one owner and relay, and every later claim checks that binding.         *)
(*                                                                         *)
(* The initialization lock is a native lock in the temporary directory of  *)
(* the process, so processes that do not share one do not exclude each     *)
(* other.  A native lock dies with its holder; everything in a directory   *)
(* stays.  What an adapter does with a channel it owns is ChannelTurn's    *)
(* subject; here it is one write of the channel's record.                  *)
(***************************************************************************)
EXTENDS Integers, FiniteSets

CONSTANTS
  Adapters,   \* claims: an adapter process and the channel it claims
  Migrators,  \* runs of agy-buzz-state, see StateMigration
  Channels,   \* canonical channel ids
  Owners,     \* an owner and relay, as a marker binds them
  Tmps,       \* temporary directories
  MaxStamp,   \* bound on writes of records
  None

Procs  == Adapters \cup Migrators
Stamps == 0..MaxStamp      \* a record by the write that made it, 0 for none

ASSUME StampAssumption == MaxStamp \in Nat \ {0}
ASSUME NoneAssumption  == None \notin Procs \cup Owners
ASSUME ProcsAssumption == Adapters \cap Migrators = {}
ASSUME OwnersAssumption == Owners \cap {"none", "torn"} = {}

VARIABLES
  store,      \* the directory at the configured path
  initLock,   \* the holder of its initialization lock, per temporary directory
  chanLock,   \* the holder of each channel's native lock in it
  adapter,    \* the adapters
  stamp       \* writes of records so far

storeVars == <<store, initLock, chanLock, adapter, stamp>>

(***************************************************************************)
(* A directory.  Its marker is a file of its own: created, then written.   *)
(* from is history: the migration that built it, or None.                  *)
(***************************************************************************)
Markers == {"none", "torn"} \cup Owners

Absent == [present |-> FALSE, marker |-> "none", recs |-> [c \in Channels |-> 0],
           locks |-> {}, from |-> None]

Dirs == [present : BOOLEAN, marker : Markers, recs : [Channels -> Stamps],
         locks : SUBSET Channels, from : Migrators \cup {None}]

EmptyDir(d) == d.marker = "none" /\ d.locks = {} /\ \A c \in Channels : d.recs[c] = 0

Idle == [at |-> "idle", owner |-> None, tmp |-> None, channel |-> None, why |-> "none"]

StoreInit ==
  /\ store = Absent
  /\ initLock = [t \in Tmps |-> None]
  /\ chanLock = [c \in Channels |-> None]
  /\ adapter = [a \in Adapters |-> Idle]

-----------------------------------------------------------------------------
(***************************************************************************)
(* ensureOwnership.  Locks are tried, never waited for; every way out      *)
(* gives the initialization lock back.                                     *)
(***************************************************************************)
Goes(a, at) == adapter' = [adapter EXCEPT ![a].at = at]

Refuses(a, why) ==
  adapter' = [adapter EXCEPT ![a] = [Idle EXCEPT !.at = "refused", !.why = why]]

GivesBack(a) == initLock' = [initLock EXCEPT ![adapter[a].tmp] = None]

StartClaim(a) ==
  /\ adapter[a].at = "idle"
  /\ \E o \in Owners, t \in Tmps, c \in Channels :
       adapter' = [adapter EXCEPT ![a] = [@ EXCEPT !.at = "init", !.owner = o,
                                                   !.tmp = t, !.channel = c]]
  /\ UNCHANGED <<store, initLock, chanLock, stamp>>

TakeInitLock(a) ==
  LET t == adapter[a].tmp IN
  /\ adapter[a].at = "init"
  /\ IF initLock[t] = None
     THEN initLock' = [initLock EXCEPT ![t] = a] /\ Goes(a, "mkdir")
     ELSE UNCHANGED initLock /\ Refuses(a, "busy")
  /\ UNCHANGED <<store, chanLock, stamp>>

MakeDirectory(a) ==
  /\ adapter[a].at = "mkdir"
  /\ store' = [store EXCEPT !.present = TRUE]
  /\ Goes(a, "validate")
  /\ UNCHANGED <<initLock, chanLock, stamp>>

\* Mutant: a marker is enough, whoever it names
ValidateMarkerOfAnyone(a) ==
  /\ adapter[a].at = "validate"
  /\ IF store.marker = "none" THEN Goes(a, "list") /\ UNCHANGED initLock
     ELSE GivesBack(a) /\ Goes(a, "lock")
  /\ UNCHANGED <<store, chanLock, stamp>>

ValidateMarker(a) ==
  /\ adapter[a].at = "validate"
  /\ \/ /\ store.marker = "none"
        /\ Goes(a, "list")
        /\ UNCHANGED initLock
     \/ /\ store.marker = adapter[a].owner
        /\ GivesBack(a) /\ Goes(a, "lock")
     \/ /\ store.marker \notin {"none", adapter[a].owner}
        /\ GivesBack(a) /\ Refuses(a, "mismatch")
  /\ UNCHANGED <<store, chanLock, stamp>>

ListEntries(a) ==
  /\ adapter[a].at = "list"
  /\ IF EmptyDir(store)
     THEN Goes(a, "mark") /\ UNCHANGED initLock
     ELSE GivesBack(a) /\ Refuses(a, "legacy")
  /\ UNCHANGED <<store, chanLock, stamp>>

\* O_EXCL: a marker that has appeared since is not overwritten
CreateMarker(a) ==
  /\ adapter[a].at = "mark"
  /\ IF store.marker = "none"
     THEN /\ store' = [store EXCEPT !.marker = "torn"]
          /\ Goes(a, "write")
          /\ UNCHANGED initLock
     ELSE GivesBack(a) /\ Refuses(a, "exists") /\ UNCHANGED store
  /\ UNCHANGED <<chanLock, stamp>>

WriteMarker(a) ==
  /\ adapter[a].at = "write"
  /\ store' = [store EXCEPT !.marker = adapter[a].owner]
  /\ GivesBack(a)
  /\ Goes(a, "lock")
  /\ UNCHANGED <<chanLock, stamp>>

TakeChannelLock(a) ==
  LET c == adapter[a].channel IN
  /\ adapter[a].at = "lock"
  /\ IF chanLock[c] = None
     THEN chanLock' = [chanLock EXCEPT ![c] = a] /\ Goes(a, "owns")
     ELSE UNCHANGED chanLock /\ Refuses(a, "busy")
  /\ store' = [store EXCEPT !.locks = @ \cup {c}]
  /\ UNCHANGED <<initLock, stamp>>

SaveRecord(a) ==
  /\ adapter[a].at = "owns" /\ stamp < MaxStamp
  /\ stamp' = stamp + 1
  /\ store' = [store EXCEPT !.recs[adapter[a].channel] = stamp + 1]
  /\ UNCHANGED <<initLock, chanLock, adapter>>

\* The end of the process, in order or not: what it holds is free.
Ends(a) ==
  /\ adapter[a].at \notin {"idle", "refused", "ended"}
  /\ adapter' = [adapter EXCEPT ![a] = [Idle EXCEPT !.at = "ended"]]
  /\ initLock' = [t \in Tmps |-> IF initLock[t] = a THEN None ELSE initLock[t]]
  /\ chanLock' = [c \in Channels |-> IF chanLock[c] = a THEN None ELSE chanLock[c]]
  /\ UNCHANGED <<store, stamp>>

Claim(a) ==
  \/ StartClaim(a) \/ TakeInitLock(a) \/ MakeDirectory(a) \/ ValidateMarker(a)
  \/ ListEntries(a) \/ CreateMarker(a) \/ WriteMarker(a) \/ TakeChannelLock(a)
  \/ SaveRecord(a) \/ Ends(a)

-----------------------------------------------------------------------------
StoreTypeOK ==
  /\ store \in Dirs
  /\ initLock \in [Tmps -> Procs \cup {None}]
  /\ chanLock \in [Channels -> Adapters \cup {None}]
  /\ adapter \in [Adapters ->
       [at : {"idle", "init", "mkdir", "validate", "list", "mark", "write", "lock",
              "owns", "refused", "ended"},
        owner : Owners \cup {None}, tmp : Tmps \cup {None}, channel : Channels \cup {None},
        why : {"none", "busy", "mismatch", "legacy", "exists"}]]
  /\ stamp \in Stamps

(***************************************************************************)
(* An adapter that owns a channel works in a store that is bound to its    *)
(* own owner and relay, whoever initialized it and whatever died meanwhile.*)
(***************************************************************************)
BoundToItsOwner ==
  \A a \in Adapters : adapter[a].at = "owns" => store.marker = adapter[a].owner
=============================================================================
