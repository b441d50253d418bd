-------------------------- MODULE ChannelTurnProofs --------------------------
(***************************************************************************)
(* Proofs about the turns of one channel, for any adapters, sessions and   *)
(* conversations.                                                          *)
(***************************************************************************)
EXTENDS ChannelTurn, FiniteSetTheorems, TLAPS

-----------------------------------------------------------------------------
(***************************************************************************)
(* Names and types.                                                        *)
(***************************************************************************)
\* The names that stand for nobody are names of nobody.
LEMMA Names ==
  /\ "free" \notin Adapters /\ "none" \notin Sessions /\ "none" \notin Conversations
  /\ "earlier" \notin Sessions
  /\ \A s \in Sessions : AdapterOf[s] \in Adapters /\ s # "none" /\ AdapterOf[s] # "free"
  BY NamesAssumption, AdapterOfAssumption

LEMMA NewTypes == NewEntry \in EntryType /\ NoTurn \in TurnType /\ NoTurn.pc = "idle"
<1>1. NewEntry \in EntryType BY DEF NewEntry, EntryType
<1>2. NoTurn \in TurnType /\ NoTurn.pc = "idle" BY DEF NoTurn, TurnType, Places
<1>3. QED BY <1>1, <1>2

LEMMA PlaceType ==
  ASSUME NEW t \in TurnType, NEW pc \in Places
  PROVE  [t EXCEPT !.pc = pc] \in TurnType
  BY DEF TurnType

LEMMA GotoType ==
  ASSUME TypeOK, NEW s \in Sessions, NEW pc \in Places, Goto(s, pc)
  PROVE  turn' \in [Sessions -> TurnType]
<1>1. turn \in [Sessions -> TurnType] BY DEF TypeOK
<1>2. [turn[s] EXCEPT !.pc = pc] \in TurnType BY <1>1, PlaceType
<1>3. QED BY <1>1, <1>2 DEF Goto

\* The parts of the state that the end of a turn or of a preflight sets.
HandlerTypes ==
  /\ turn' \in [Sessions -> TurnType]
  /\ entry' \in [Sessions -> EntryType]
  /\ liveBlock' \in [Adapters -> BOOLEAN]
  /\ pin' \in [Adapters -> Sessions \cup {"none"}]

LEMMA EndTurnType ==
  ASSUME TypeOK, NEW s \in Sessions, NEW t \in TurnType, NEW e \in EntryType,
         NEW safe \in BOOLEAN, NEW live \in BOOLEAN, EndTurn(s, t, e, safe, live)
  PROVE  HandlerTypes /\ UNCHANGED <<owns, pin, closing>>
<1>1. turn' \in [Sessions -> TurnType]
  BY NewTypes DEF TypeOK, EndTurn
<1>2. liveBlock' \in [Adapters -> BOOLEAN]
  BY Names DEF TypeOK, EndTurn, SettleLiveBlock, BusyElsewhere
<1>3. [e EXCEPT !.needsReplacement = @ \/ ~safe,
                 !.explicitCancelSettled = @ \/ (/\ ~safe /\ t.aborted
                                                 /\ t.explicitCancelRequested
                                                 /\ ~liveBlock'[AdapterOf[s]])] \in EntryType
  <2>1. (e.needsReplacement \/ ~safe) \in BOOLEAN
    OBVIOUS
  <2>2. (e.explicitCancelSettled \/ (/\ ~safe /\ t.aborted
                                     /\ t.explicitCancelRequested
                                     /\ ~liveBlock'[AdapterOf[s]])) \in BOOLEAN
    OBVIOUS
  <2>3. QED BY <2>1, <2>2 DEF EntryType
<1>4. entry' \in [Sessions -> EntryType]
  BY <1>3 DEF EndTurn, TypeOK
<1>5. UNCHANGED <<owns, pin, closing>>
  BY Zenon DEF EndTurn
<1>6. pin' \in [Adapters -> Sessions \cup {"none"}]
  BY <1>5 DEF TypeOK
<1>7. QED BY <1>1, <1>2, <1>4, <1>5, <1>6 DEF HandlerTypes

LEMMA FailTurnType ==
  ASSUME TypeOK, NEW s \in Sessions, FailTurn(s)
  PROVE  HandlerTypes /\ UNCHANGED <<owns, pin, closing>>
<1>1. turn[s] \in TurnType /\ entry[s] \in EntryType /\ liveBlock[AdapterOf[s]] \in BOOLEAN
  BY Names DEF TypeOK
<1>2. QED BY <1>1, EndTurnType DEF FailTurn

LEMMA UnwindType ==
  ASSUME TypeOK, NEW s \in Sessions, NEW t \in TurnType, NEW e \in EntryType,
         NEW live \in BOOLEAN, Unwind(s, t, e, live)
  PROVE  /\ turn' \in [Sessions -> TurnType]
         /\ liveBlock' \in [Adapters -> BOOLEAN]
         /\ pin' \in [Adapters -> Sessions \cup {"none"}]
<1>1. turn' \in [Sessions -> TurnType]
  BY NewTypes DEF TypeOK, Unwind
<1>2. liveBlock' \in [Adapters -> BOOLEAN]
  BY Names DEF TypeOK, Unwind, SettleLiveBlock, BusyElsewhere
<1>3. t.transferFrom \in Sessions \cup {"none"}
  BY DEF TurnType
<1>4. pin' \in [Adapters -> Sessions \cup {"none"}]
  BY <1>3, Names DEF TypeOK, Unwind
<1>5. QED BY <1>1, <1>2, <1>4

LEMMA RefuseType ==
  ASSUME TypeOK, NEW s \in Sessions, NEW t \in TurnType,
         NEW entries \in [Sessions -> EntryType], NEW live \in BOOLEAN,
         Refuse(s, t, entries, live)
  PROVE  HandlerTypes
<1>1. entry' = entries BY DEF Refuse
<1>2. CASE Unwind(s, t, entries[s], live)
  BY <1>1, <1>2, UnwindType DEF HandlerTypes
<1>3. CASE /\ turn' = [turn EXCEPT ![s] = [t EXCEPT !.pc = "releasing"]]
           /\ liveBlock' = [liveBlock EXCEPT ![AdapterOf[s]] = live]
           /\ UNCHANGED pin
  <2>1. [t EXCEPT !.pc = "releasing"] \in TurnType
    BY PlaceType DEF Places
  <2>2. QED BY <1>1, <1>3, <2>1, Names DEF TypeOK, HandlerTypes
<1>4. QED BY <1>2, <1>3 DEF Refuse

LEMMA RefusalType ==
  ASSUME TypeOK, NEW s \in Sessions, Refuse(s, turn[s], entry, liveBlock[AdapterOf[s]])
  PROVE  HandlerTypes
<1>1. turn[s] \in TurnType /\ entry \in [Sessions -> EntryType]
      /\ liveBlock[AdapterOf[s]] \in BOOLEAN
  BY Names DEF TypeOK
<1>2. QED BY <1>1, RefuseType

LEMMA JustRefuseType ==
  ASSUME TypeOK, NEW s \in Sessions, JustRefuse(s)
  PROVE  TypeOK'
<1>1. HandlerTypes BY RefusalType DEF JustRefuse
<1>2. QED BY <1>1 DEF JustRefuse, TypeOK, HandlerTypes, durable, providers

LEMMA PinnedType ==
  ASSUME TypeOK, NEW s \in Sessions, NEW t \in TurnType, Pinned(s, t)
  PROVE  TypeOK'
<1> DEFINE pc == IF entry[s].needsReplacement THEN "recoverScan" ELSE "load"
<1>1. [t EXCEPT !.pc = pc] \in TurnType
  BY PlaceType DEF Places
<1>2. turn' \in [Sessions -> TurnType]
  BY <1>1 DEF Pinned, TypeOK
<1>3. pin' \in [Adapters -> Sessions \cup {"none"}]
  BY Names DEF Pinned, TypeOK
<1>4. QED BY <1>2, <1>3 DEF Pinned, TypeOK, durable, providers

LEMMA RetireType ==
  ASSUME TypeOK, NEW s \in Sessions, NEW x \in Sessions, NEW pc \in Places, Retire(s, x, pc)
  PROVE  TypeOK'
<1>1. CASE JustRefuse(s) BY <1>1, JustRefuseType
<1>2. CASE ~JustRefuse(s)
  <2>1. Goto(s, pc) /\ prov' = [prov EXCEPT ![x] = IF @ = "live" THEN "dying" ELSE @]
        /\ UNCHANGED <<durable, lock, owns, pin, liveBlock, closing, entry, conv, orphans>>
    BY <1>2 DEF Retire
  <2>2. turn' \in [Sessions -> TurnType] BY <2>1, GotoType
  <2>3. QED BY <2>1, <2>2 DEF TypeOK, durable
<1>3. QED BY <1>1, <1>2

LEMMA EnsureOwnershipType ==
  ASSUME TypeOK, NEW a \in Adapters, EnsureOwnership(a)
  PROVE  owns' \in [Adapters -> BOOLEAN] /\ lock' \in Adapters \cup {"free"}
  BY DEF TypeOK, EnsureOwnership

-----------------------------------------------------------------------------
(***************************************************************************)
(* Admission: the three ways it goes, and what each of them leaves.        *)
(***************************************************************************)
\* The entries once the former owner has lost the channel
Stale(s) ==
  [x \in Sessions |->
     IF x = turn[s].transferFrom
       THEN [entry[x] EXCEPT !.safeToTransfer = FALSE,
                             !.channelTransferInvalidated = TRUE,
                             !.explicitCancelSettled = FALSE]
       ELSE entry[x]]

Committed(s) == [turn[s] EXCEPT !.transferCommitted = turn[s].transferFrom # "none"]

\* A transfer that finds neither a ready record nor its own cleared one
AdmitNothingToTake(s) ==
  /\ turn[s].transferFrom # "none"
  /\ UNCHANGED <<prov, conv>>
  /\ Refuse(s, turn[s], entry, liveBlock[AdapterOf[s]])

\* A session whose provider object shutdown has closed
AdmitClosed(s) ==
  /\ closing[AdapterOf[s]] /\ ~entry[s].needsReplacement /\ ~entry[s].bound
  /\ UNCHANGED <<prov, conv>>
  /\ Refuse(s, Committed(s), [Stale(s) EXCEPT ![s].blockCreatedByThisParent = FALSE],
            liveBlock[AdapterOf[s]])

AdmitBound(s) ==
  LET e == entry[s]
      saved == rec.status = "ready"
      rebind == e.needsReplacement \/ ~e.bound
  IN
  /\ entry' = [Stale(s) EXCEPT ![s] =
                    [@ EXCEPT !.blockCreatedByThisParent = FALSE,
                              !.cachedConversationBound =
                                 \/ rebind /\ saved
                                 \/ ~e.needsReplacement /\ e.cachedConversationBound,
                              !.needsReplacement = FALSE,
                              !.bound = TRUE]]
  /\ turn' = [turn EXCEPT ![s] = [Committed(s) EXCEPT !.pc = "invalidate"]]
  /\ prov' = [prov EXCEPT ![s] = IF e.needsReplacement THEN "none" ELSE @]
  /\ conv' = [conv EXCEPT ![s] = BoundConversation(s)]
  /\ UNCHANGED <<pin, liveBlock>>

LEMMA AdmitCases ==
  ASSUME NEW s \in Sessions, Admit(s)
  PROVE  /\ UNCHANGED <<durable, closing, orphans>>
         /\ \/ AdmitNothingToTake(s)
            \/ AdmitClosed(s)
            \/ AdmitBound(s) /\ (turn[s].transferFrom # "none" =>
                 rec.status = "ready" \/ Committed(s).clearedCheckpoint)
  BY Zenon DEF Admit, AdmitNothingToTake, AdmitClosed, AdmitBound, Stale, Committed

LEMMA StaleType ==
  ASSUME TypeOK, NEW s \in Sessions
  PROVE  Stale(s) \in [Sessions -> EntryType] /\ Committed(s) \in TurnType
<1>1. entry \in [Sessions -> EntryType] /\ turn[s] \in TurnType
  BY DEF TypeOK
<1>2. Stale(s) \in [Sessions -> EntryType]
  BY <1>1 DEF Stale, EntryType
<1>3. Committed(s) \in TurnType
  BY <1>1 DEF Committed, TurnType
<1>4. QED BY <1>2, <1>3

LEMMA EntryTypes ==
  ASSUME NEW e \in EntryType, NEW b \in BOOLEAN
  PROVE  /\ [e EXCEPT !.blockCreatedByThisParent = b] \in EntryType
         /\ [e EXCEPT !.blockCreatedByThisParent = FALSE, !.cachedConversationBound = b,
                      !.needsReplacement = FALSE, !.bound = TRUE] \in EntryType
<1>1. [e EXCEPT !.blockCreatedByThisParent = b] \in EntryType BY DEF EntryType
<1>2. [e EXCEPT !.blockCreatedByThisParent = FALSE, !.cachedConversationBound = b,
                !.needsReplacement = FALSE, !.bound = TRUE] \in EntryType BY DEF EntryType
<1>3. QED BY <1>1, <1>2

LEMMA AdmitType ==
  ASSUME TypeOK, NEW s \in Sessions, Admit(s),
         lock' \in Adapters \cup {"free"}, owns' \in [Adapters -> BOOLEAN]
  PROVE  TypeOK'
<1>1. UNCHANGED <<durable, closing, orphans>>
  BY AdmitCases
<1>2. CASE AdmitNothingToTake(s)
  <2>1. HandlerTypes BY <1>2, RefusalType DEF AdmitNothingToTake
  <2>2. QED BY <1>1, <1>2, <2>1 DEF AdmitNothingToTake, TypeOK, HandlerTypes, durable
<1>3. CASE AdmitClosed(s)
  <2> DEFINE entries == [Stale(s) EXCEPT ![s].blockCreatedByThisParent = FALSE]
  <2>1. entries \in [Sessions -> EntryType]
    <3>1. Stale(s)[s] \in EntryType BY StaleType
    <3>2. [Stale(s)[s] EXCEPT !.blockCreatedByThisParent = FALSE] \in EntryType
      BY <3>1, EntryTypes
    <3>3. QED BY <3>2, StaleType
  <2>2. Refuse(s, Committed(s), entries, liveBlock[AdapterOf[s]])
        /\ UNCHANGED <<prov, conv>>
    BY <1>3 DEF AdmitClosed
  <2>3. liveBlock[AdapterOf[s]] \in BOOLEAN
    BY Names DEF TypeOK
  <2> HIDE DEF entries
  <2>4. HandlerTypes BY <2>1, <2>2, <2>3, StaleType, RefuseType
  <2>5. QED BY <1>1, <2>2, <2>4 DEF TypeOK, HandlerTypes, durable
<1>4. CASE AdmitBound(s)
  <2>1. [Committed(s) EXCEPT !.pc = "invalidate"] \in TurnType
    BY StaleType, PlaceType DEF Places
  <2>2. turn' \in [Sessions -> TurnType]
    BY <1>4, <2>1 DEF AdmitBound, TypeOK
  <2>3. entry' \in [Sessions -> EntryType]
    <3> DEFINE e == entry[s]
               b == \/ (e.needsReplacement \/ ~e.bound) /\ rec.status = "ready"
                    \/ ~e.needsReplacement /\ e.cachedConversationBound
               new == [Stale(s)[s] EXCEPT !.blockCreatedByThisParent = FALSE,
                                          !.cachedConversationBound = b,
                                          !.needsReplacement = FALSE,
                                          !.bound = TRUE]
    <3>1. Stale(s)[s] \in EntryType BY StaleType
    <3>2. b \in BOOLEAN OBVIOUS
    <3>3. new \in EntryType BY <3>1, <3>2, EntryTypes
    <3>4. entry' = [Stale(s) EXCEPT ![s] = new]
      BY <1>4 DEF AdmitBound
    <3> HIDE DEF new
    <3>5. QED BY <3>3, <3>4, StaleType
  <2>4. prov' \in [Sessions -> {"none", "live", "dying", "closed"}]
    BY <1>4 DEF AdmitBound, TypeOK
  <2>5. conv' \in [Sessions -> Conversations \cup {"none"}]
    <3>1. BoundConversation(s) \in Conversations \cup {"none"}
      BY DEF TypeOK, BoundConversation
    <3>2. QED BY <1>4, <3>1 DEF AdmitBound, TypeOK
  <2>6. QED BY <1>1, <1>4, <2>2, <2>3, <2>4, <2>5 DEF AdmitBound, TypeOK, durable
<1>5. QED BY <1>2, <1>3, <1>4, AdmitCases

LEMMA RestartType ==
  ASSUME TypeOK, NEW a \in Adapters, Restart(a), rec' = rec, outbox' = outbox, orphans' \in Nat
  PROVE  TypeOK'
<1>1. /\ turn' \in [Sessions -> TurnType] /\ entry' \in [Sessions -> EntryType]
      /\ prov' \in [Sessions -> {"none", "live", "dying", "closed"}]
      /\ conv' \in [Sessions -> Conversations \cup {"none"}]
  BY NewTypes DEF TypeOK, Restart
<1>2. /\ lock' \in Adapters \cup {"free"} /\ owns' \in [Adapters -> BOOLEAN]
      /\ pin' \in [Adapters -> Sessions \cup {"none"}]
      /\ liveBlock' \in [Adapters -> BOOLEAN] /\ closing' \in [Adapters -> BOOLEAN]
  BY DEF TypeOK, Restart
<1>3. QED BY <1>1, <1>2 DEF TypeOK

-----------------------------------------------------------------------------
(***************************************************************************)
(* Type correctness, one step per action.  A crash counts the providers it *)
(* leaves: in an inductive state an adapter runs at most the one of the    *)
(* session it has pinned.                                                  *)
(***************************************************************************)
PinnedOnly == \A s \in Sessions : Running(s) => pin[AdapterOf[s]] = s

LEMMA RunningOfAdapter ==
  ASSUME PinnedOnly, NEW a \in Adapters
  PROVE  LET left == {s \in Sessions : AdapterOf[s] = a /\ Running(s)} IN
         /\ Cardinality(left) \in {0, 1}
         /\ Cardinality(left) = 0 => left = {}
<1> DEFINE left == {s \in Sessions : AdapterOf[s] = a /\ Running(s)}
<1>1. CASE left = {}
  BY <1>1, FS_EmptySet
<1>2. CASE left # {}
  <2>1. left = {pin[a]}
    BY <1>2 DEF PinnedOnly
  <2>2. Cardinality(left) = 1
    <3> HIDE DEF left
    <3>1. QED BY <2>1, FS_Singleton
  <2>3. QED BY <1>2, <2>2
<1>3. QED BY <1>1, <1>2

LEMMA WriteType ==
  ASSUME TypeOK, NEW new, NEW ok, WriteRecord(new, ok),
         new \in [status: {"absent", "blocked", "ready"},
                  conversationId: Conversations \cup {"none"}]
  PROVE  rec' \in [status: {"absent", "blocked", "ready"},
                   conversationId: Conversations \cup {"none"}]
  BY DEF TypeOK, WriteRecord

LEMMA RecordTypes ==
  ASSUME TypeOK, NEW status \in {"absent", "blocked", "ready"},
         NEW c \in Conversations \cup {"none"}
  PROVE  LET Record == [status: {"absent", "blocked", "ready"},
                        conversationId: Conversations \cup {"none"}] IN
         /\ [rec EXCEPT !.status = status] \in Record
         /\ [rec EXCEPT !.conversationId = c] \in Record
         /\ [status |-> status, conversationId |-> c] \in Record
<1> DEFINE Record == [status: {"absent", "blocked", "ready"},
                      conversationId: Conversations \cup {"none"}]
<1>1. rec \in Record BY DEF TypeOK
<1>2. [rec EXCEPT !.status = status] \in Record BY <1>1
<1>3. [rec EXCEPT !.conversationId = c] \in Record BY <1>1
<1>4. [status |-> status, conversationId |-> c] \in Record OBVIOUS
<1>5. QED BY <1>2, <1>3, <1>4

LEMMA PreflightType ==
  ASSUME TypeOK, NEW s \in Sessions,
         \/ Identity(s) \/ DeliveryScan(s) \/ CancelLoad(s) \/ CancelScan(s) \/ CancelRetire(s)
         \/ RecoverScan(s) \/ RecoverRetire(s) \/ Load(s) \/ Reconcile(s) \/ Reload(s)
         \/ Invalidate(s) \/ ReleaseLease(s)
  PROVE  TypeOK'
<1>1. /\ turn[s] \in TurnType /\ turn \in [Sessions -> TurnType]
      /\ AdapterOf[s] \in Adapters /\ pin[AdapterOf[s]] \in Sessions \cup {"none"}
      /\ turn[s].existing \in Sessions \cup {"none"}
      /\ entry[s] \in EntryType /\ entry \in [Sessions -> EntryType]
      /\ liveBlock[AdapterOf[s]] \in BOOLEAN
  BY Names DEF TypeOK, TurnType
<1>2. CASE JustRefuse(s)
  BY <1>2, JustRefuseType
<1>3. CASE ~JustRefuse(s) /\ Identity(s)
  <2>1. CASE Pinned(s, turn[s]) BY <1>1, <2>1, PinnedType
  <2>2. CASE ~Pinned(s, turn[s])
    <3>1. PICK pc \in {"cancelLoad", "deliveryScan"} :
            /\ turn' = [turn EXCEPT ![s].existing = pin[AdapterOf[s]], ![s].pc = pc]
            /\ UNCHANGED <<durable, lock, owns, pin, liveBlock, closing, entry, providers>>
      BY <1>3, <2>2 DEF Identity
    <3>2. [turn[s] EXCEPT !.existing = pin[AdapterOf[s]], !.pc = pc] \in TurnType
      BY <1>1, Names DEF TurnType, Places, TypeOK
    <3>3. turn' = [turn EXCEPT ![s] = [turn[s] EXCEPT !.existing = pin[AdapterOf[s]], !.pc = pc]]
      BY <3>1
    <3>4. turn' \in [Sessions -> TurnType]
      BY <1>1, <3>2, <3>3
    <3>5. QED BY <3>1, <3>4 DEF TypeOK, durable, providers
  <2>3. QED BY <2>1, <2>2
<1>4. CASE ~JustRefuse(s) /\ DeliveryScan(s)
  <2>1. [turn[s] EXCEPT !.transferFrom = turn[s].existing] \in TurnType
    BY <1>1 DEF TurnType
  <2>2. QED BY <1>4, <2>1, PinnedType DEF DeliveryScan
<1>5. CASE ~JustRefuse(s) /\ CancelLoad(s)
  <2>1. owns' \in [Adapters -> BOOLEAN] /\ lock' \in Adapters \cup {"free"}
    BY <1>1, <1>5, EnsureOwnershipType DEF CancelLoad
  <2>2. CASE Refuse(s, turn[s], entry, liveBlock[AdapterOf[s]])
             /\ UNCHANGED <<durable, closing, providers>>
    BY <2>1, <2>2, RefusalType DEF TypeOK, HandlerTypes, durable, providers
  <2>3. CASE Goto(s, "cancelScan")
             /\ UNCHANGED <<durable, pin, liveBlock, closing, entry, providers>>
    <3>1. turn' \in [Sessions -> TurnType] BY <2>3, GotoType DEF Places
    <3>2. QED BY <2>1, <2>3, <3>1 DEF TypeOK, durable, providers
  <2>4. QED BY <1>5, <2>2, <2>3 DEF CancelLoad
<1>6. CASE ~JustRefuse(s) /\ CancelScan(s)
  <2>1. Retire(s, turn[s].existing, "cancelRetire") BY <1>6 DEF CancelScan
  <2>2. CASE turn[s].existing \in Sessions
    BY <2>1, <2>2, RetireType DEF Places
  <2>3. CASE turn[s].existing = "none"
    <3>1. Goto(s, "cancelRetire") /\ prov' = prov
          /\ UNCHANGED <<durable, lock, owns, pin, liveBlock, closing, entry, conv, orphans>>
      BY <1>6, <2>1, <2>3, Names DEF Retire, TypeOK
    <3>2. turn' \in [Sessions -> TurnType] BY <3>1, GotoType DEF Places
    <3>3. QED BY <3>1, <3>2 DEF TypeOK, durable
  <2>4. QED BY <1>1, <2>2, <2>3
<1>7. CASE ~JustRefuse(s) /\ CancelRetire(s)
  <2>1. [turn[s] EXCEPT !.transferFrom = turn[s].existing, !.explicitCancelTransfer = TRUE,
                        !.directProviderRetired = TRUE] \in TurnType
    BY <1>1 DEF TurnType
  <2>2. QED BY <1>7, <2>1, PinnedType DEF CancelRetire
<1>8. CASE ~JustRefuse(s) /\ RecoverScan(s)
  BY <1>8, RetireType DEF RecoverScan, Places
<1>9. CASE ~JustRefuse(s) /\ RecoverRetire(s)
  <2>1. turn' \in [Sessions -> TurnType]
    <3>1. [turn[s] EXCEPT !.directProviderRetired = TRUE, !.pc = "load"] \in TurnType
      BY <1>1 DEF TurnType, Places
    <3>2. turn' = [turn EXCEPT ![s] =
                     [turn[s] EXCEPT !.directProviderRetired = TRUE, !.pc = "load"]]
      BY <1>1, <1>9 DEF RecoverRetire
    <3>3. QED BY <1>1, <3>1, <3>2
  <2>2. QED BY <1>9, <2>1 DEF RecoverRetire, TypeOK, durable, providers
<1>10. CASE ~JustRefuse(s) /\ Load(s)
  <2>1. owns' \in [Adapters -> BOOLEAN] /\ lock' \in Adapters \cup {"free"}
    BY <1>1, <1>10, EnsureOwnershipType DEF Load
  <2>2. CASE Refuse(s, turn[s], entry, liveBlock[AdapterOf[s]])
             /\ UNCHANGED <<durable, closing, providers>>
    BY <2>1, <2>2, RefusalType DEF TypeOK, HandlerTypes, durable, providers
  <2>3. CASE /\ turn' = [turn EXCEPT ![s].directProviderRetired = TRUE, ![s].pc = "reconcile"]
             /\ UNCHANGED <<durable, pin, liveBlock, closing, entry, providers>>
    <3>1. turn' \in [Sessions -> TurnType] BY <1>1, <2>3 DEF TurnType, Places
    <3>2. QED BY <2>1, <2>3, <3>1 DEF TypeOK, durable, providers
  <2>4. CASE Admit(s) BY <2>1, <2>4, AdmitType
  <2>5. QED BY <1>10, <2>2, <2>3, <2>4 DEF Load
<1>11. CASE Reconcile(s)
  <2>1. rec' \in [status: {"absent", "blocked", "ready"},
                  conversationId: Conversations \cup {"none"}]
    BY <1>11, RecordTypes DEF Reconcile, WriteRecord, TypeOK
  <2>2. CASE Refuse(s, turn[s], entry, liveBlock[AdapterOf[s]])
             /\ UNCHANGED <<outbox, lock, owns, closing, providers>>
    BY <2>1, <2>2, RefusalType DEF TypeOK, HandlerTypes, providers
  <2>3. CASE /\ turn' = [turn EXCEPT ![s].clearedCheckpoint = @ \/ rec.conversationId = "none",
                                     ![s].pc = "reload"]
             /\ UNCHANGED <<outbox, lock, owns, pin, liveBlock, closing, entry, providers>>
    <3> DEFINE t == [turn[s] EXCEPT !.clearedCheckpoint = @ \/ rec.conversationId = "none",
                                    !.pc = "reload"]
    <3>1. t \in TurnType
      <4>1. PICK c \in BOOLEAN : c = (turn[s].clearedCheckpoint \/ rec.conversationId = "none")
        OBVIOUS
      <4>2. [turn[s] EXCEPT !.clearedCheckpoint = c, !.pc = "reload"] \in TurnType
        BY <1>1 DEF TurnType, Places
      <4>3. QED BY <4>1, <4>2
    <3>2. turn' = [turn EXCEPT ![s] = t] BY <2>3
    <3> HIDE DEF t
    <3>3. turn' \in [Sessions -> TurnType] BY <1>1, <3>1, <3>2
    <3>4. QED BY <2>1, <2>3, <3>3 DEF TypeOK, providers
  <2>4. QED BY <1>11, <2>2, <2>3 DEF Reconcile
<1>12. CASE ~JustRefuse(s) /\ Reload(s)
  BY <1>12, AdmitType DEF Reload, TypeOK
<1>13. CASE Invalidate(s)
  <2>1. rec' \in [status: {"absent", "blocked", "ready"},
                  conversationId: Conversations \cup {"none"}]
    <3>1. \E ok \in BOOLEAN : WriteRecord([rec EXCEPT !.status = "blocked"], ok)
      BY <1>13, Zenon DEF Invalidate
    <3>2. [rec EXCEPT !.status = "blocked"] \in
            [status: {"absent", "blocked", "ready"}, conversationId: Conversations \cup {"none"}]
      BY RecordTypes
    <3>3. QED BY <3>1, <3>2, WriteType
  <2> DEFINE e == [entry[s] EXCEPT !.blockCreatedByThisParent = TRUE]
             entries == [entry EXCEPT ![s] = e]
  <2>2. e \in EntryType BY <1>1, EntryTypes
  <2>3. entries \in [Sessions -> EntryType] BY <1>1, <2>2
  <2>4. UNCHANGED <<outbox, lock, owns, closing, conv, orphans>>
    BY <1>13 DEF Invalidate
  <2>5. CASE Refuse(s, turn[s], entry, liveBlock[AdapterOf[s]]) /\ UNCHANGED prov
    BY <2>1, <2>4, <2>5, RefusalType DEF TypeOK, HandlerTypes
  <2>6. CASE Refuse(s, turn[s], entries, TRUE) /\ UNCHANGED prov
    <3>1. HandlerTypes
      <4> HIDE DEF entries
      <4>1. QED BY <1>1, <2>3, <2>6, RefuseType
    <3>2. QED BY <2>1, <2>4, <2>6, <3>1 DEF TypeOK, HandlerTypes
  <2>7. CASE /\ entry' = [entry EXCEPT ![s] = [e EXCEPT !.providerEverStarted = TRUE]]
             /\ liveBlock' = [liveBlock EXCEPT ![AdapterOf[s]] = TRUE]
             /\ prov' = [prov EXCEPT ![s] = "live"] \/ UNCHANGED prov
             /\ Goto(s, "provider")
             /\ UNCHANGED pin
    <3>1. turn' \in [Sessions -> TurnType] BY <2>7, GotoType DEF Places
    <3>2. [e EXCEPT !.providerEverStarted = TRUE] \in EntryType BY <2>2 DEF EntryType
    <3> HIDE DEF e
    <3>3. entry' \in [Sessions -> EntryType] BY <1>1, <2>7, <3>2
    <3>4. prov' \in [Sessions -> {"none", "live", "dying", "closed"}]
          /\ liveBlock' \in [Adapters -> BOOLEAN]
      BY <2>7 DEF TypeOK
    <3>5. QED BY <2>1, <2>4, <2>7, <3>1, <3>3, <3>4 DEF TypeOK
  <2>8. QED BY <1>13, <2>5, <2>6, <2>7, Zenon DEF Invalidate
<1>14. CASE ReleaseLease(s)
  <2>1. entry' \in [Sessions -> EntryType]
    <3>1. [entry[s] EXCEPT !.bound = FALSE] \in EntryType
          /\ [entry[s] EXCEPT !.stateError = TRUE] \in EntryType
      BY <1>1 DEF EntryType
    <3>2. \/ entry' = [entry EXCEPT ![s] = [entry[s] EXCEPT !.bound = FALSE]]
          \/ entry' = [entry EXCEPT ![s] = [entry[s] EXCEPT !.stateError = TRUE]]
      BY <1>14 DEF ReleaseLease
    <3>3. QED BY <1>1, <3>1, <3>2
  <2>2. /\ turn' \in [Sessions -> TurnType]
        /\ liveBlock' \in [Adapters -> BOOLEAN]
        /\ pin' \in [Adapters -> Sessions \cup {"none"}]
    <3>1. Unwind(s, turn[s], entry'[s], liveBlock[AdapterOf[s]]) /\ entry'[s] \in EntryType
      BY <1>14, <2>1 DEF ReleaseLease
    <3>2. QED BY <1>1, <3>1, UnwindType
  <2>3. lock' \in Adapters \cup {"free"} /\ owns' \in [Adapters -> BOOLEAN]
    BY <1>14 DEF ReleaseLease, TypeOK
  <2>4. QED BY <1>14, <2>1, <2>2, <2>3 DEF ReleaseLease, TypeOK, durable, providers
<1>15. QED
  BY <1>2, <1>3, <1>4, <1>5, <1>6, <1>7, <1>8, <1>9, <1>10, <1>11, <1>12, <1>13, <1>14

LEMMA FailedTypes ==
  ASSUME TypeOK, NEW s \in Sessions, FailTurn(s), UNCHANGED lock,
         rec' \in [status: {"absent", "blocked", "ready"},
                   conversationId: Conversations \cup {"none"}],
         outbox' \in [Sessions \cup {"earlier"} -> Deliveries],
         prov' \in [Sessions -> {"none", "live", "dying", "closed"}],
         UNCHANGED <<conv, orphans>>
  PROVE  TypeOK'
<1>1. HandlerTypes /\ UNCHANGED <<owns, pin, closing>> BY FailTurnType
<1>2. QED BY <1>1 DEF TypeOK, HandlerTypes

LEMMA WorkType ==
  ASSUME TypeOK, NEW s \in Sessions,
         \/ ProviderAnswers(s) \/ ProviderFails(s) \/ Retirement(s) \/ StageCheckpoint(s)
         \/ BeginDelivery(s) \/ Publish(s) \/ UpdateDelivery(s) \/ SaveReady(s)
  PROVE  TypeOK'
<1> DEFINE Record == [status: {"absent", "blocked", "ready"},
                      conversationId: Conversations \cup {"none"}]
<1>1. /\ turn[s] \in TurnType /\ turn \in [Sessions -> TurnType]
      /\ AdapterOf[s] \in Adapters /\ liveBlock[AdapterOf[s]] \in BOOLEAN
      /\ entry[s] \in EntryType /\ conv[s] \in Conversations \cup {"none"}
      /\ turn[s].publication \in {"none", "sent", "failed-before-start", "uncertain"}
      /\ rec \in Record /\ outbox \in [Sessions \cup {"earlier"} -> Deliveries]
      /\ prov \in [Sessions -> {"none", "live", "dying", "closed"}]
  BY Names DEF TypeOK, TurnType
<1>2. CASE ProviderAnswers(s)
  <2>1. turn' \in [Sessions -> TurnType] BY <1>2, GotoType DEF ProviderAnswers, Places
  <2>2. conv' \in [Sessions -> Conversations \cup {"none"}]
    BY <1>1, <1>2 DEF ProviderAnswers, TypeOK, Fresh
  <2>3. prov' \in [Sessions -> {"none", "live", "dying", "closed"}]
    BY <1>1, <1>2 DEF ProviderAnswers
  <2>4. QED BY <1>2, <2>1, <2>2, <2>3 DEF ProviderAnswers, TypeOK, durable
<1>3. CASE ProviderFails(s)
  <2>1. prov' \in [Sessions -> {"none", "live", "dying", "closed"}]
    BY <1>1, <1>3 DEF ProviderFails
  <2>2. QED BY <1>1, <1>3, <2>1, FailedTypes DEF ProviderFails, durable
<1>4. CASE Retirement(s)
  <2>1. CASE Goto(s, "staging")
             /\ UNCHANGED <<durable, lock, owns, pin, liveBlock, closing, entry, providers>>
    <3>1. turn' \in [Sessions -> TurnType] BY <2>1, GotoType DEF Places
    <3>2. QED BY <2>1, <3>1 DEF TypeOK, durable, providers
  <2>2. CASE FailTurn(s) /\ UNCHANGED <<durable, lock, providers>>
    BY <1>1, <2>2, FailedTypes DEF durable, providers
  <2>3. QED BY <1>4, <2>1, <2>2 DEF Retirement
<1>5. CASE StageCheckpoint(s)
  <2>1. rec' \in Record
    <3>1. rec' = rec \/ \E ok \in BOOLEAN : WriteRecord([rec EXCEPT !.conversationId = conv[s]], ok)
      BY <1>5, Zenon DEF StageCheckpoint
    <3>2. [rec EXCEPT !.conversationId = conv[s]] \in Record BY <1>1
    <3>3. QED BY <1>1, <3>1, <3>2 DEF WriteRecord
  <2>2. CASE Goto(s, "beginning") /\ UNCHANGED <<owns, pin, liveBlock, closing, entry>>
    <3>1. turn' \in [Sessions -> TurnType] BY <2>2, GotoType DEF Places
    <3>2. QED BY <1>5, <2>1, <2>2, <3>1 DEF StageCheckpoint, TypeOK, providers
  <2>3. CASE FailTurn(s)
    BY <1>1, <1>5, <2>1, <2>3, FailedTypes DEF StageCheckpoint, providers
  <2>4. QED BY <1>5, <2>2, <2>3 DEF StageCheckpoint
<1>6. CASE BeginDelivery(s)
  <2>1. outbox' \in [Sessions \cup {"earlier"} -> Deliveries]
    BY <1>1, <1>6 DEF BeginDelivery, Deliveries
  <2>2. CASE Goto(s, "publishing") /\ UNCHANGED <<owns, pin, liveBlock, closing, entry>>
    <3>1. turn' \in [Sessions -> TurnType] BY <2>2, GotoType DEF Places
    <3>2. QED BY <1>6, <2>1, <2>2, <3>1 DEF BeginDelivery, TypeOK, providers
  <2>3. CASE FailTurn(s)
    BY <1>1, <1>6, <2>1, <2>3, FailedTypes DEF BeginDelivery, providers
  <2>4. QED BY <1>6, <2>2, <2>3 DEF BeginDelivery
<1>7. CASE Publish(s)
  <2>1. PICK status \in {"sent", "failed-before-start", "uncertain"} :
          turn' = [turn EXCEPT ![s].publication = status, ![s].pc = "updating"]
    BY <1>7 DEF Publish
  <2>2. [turn[s] EXCEPT !.publication = status, !.pc = "updating"] \in TurnType
    BY <1>1 DEF TurnType, Places
  <2>3. turn' \in [Sessions -> TurnType]
    <3>1. turn' = [turn EXCEPT ![s] =
                     [turn[s] EXCEPT !.publication = status, !.pc = "updating"]]
      BY <1>1, <2>1
    <3>2. QED BY <1>1, <2>2, <3>1
  <2>4. QED BY <1>7, <2>3 DEF Publish, TypeOK, durable, providers
<1>8. CASE UpdateDelivery(s)
  <2>1. outbox' \in [Sessions \cup {"earlier"} -> Deliveries]
    BY <1>1, <1>8 DEF UpdateDelivery, Deliveries
  <2>2. CASE Goto(s, "saving") /\ UNCHANGED <<owns, pin, liveBlock, closing, entry>>
    <3>1. turn' \in [Sessions -> TurnType] BY <2>2, GotoType DEF Places
    <3>2. QED BY <1>8, <2>1, <2>2, <3>1 DEF UpdateDelivery, TypeOK, providers
  <2>3. CASE FailTurn(s)
    BY <1>1, <1>8, <2>1, <2>3, FailedTypes DEF UpdateDelivery, providers
  <2>4. QED BY <1>8, <2>2, <2>3 DEF UpdateDelivery
<1>9. CASE SaveReady(s)
  <2>1. rec' \in Record
    <3>1. \E ok \in BOOLEAN : WriteRecord([status |-> "ready", conversationId |-> conv[s]], ok)
      BY <1>9, Zenon DEF SaveReady
    <3>2. [status |-> "ready", conversationId |-> conv[s]] \in Record BY <1>1
    <3>3. QED BY <1>1, <3>1, <3>2 DEF WriteRecord
  <2> DEFINE e == [entry[s] EXCEPT !.blockCreatedByThisParent = FALSE, !.safeToTransfer = TRUE]
  <2>2. e \in EntryType BY <1>1 DEF EntryType
  <2>3. CASE EndTurn(s, turn[s], e, TRUE, FALSE)
    <3>1. HandlerTypes /\ UNCHANGED <<owns, pin, closing>>
      <4> HIDE DEF e
      <4>1. QED BY <1>1, <2>2, <2>3, EndTurnType
    <3>2. QED BY <1>9, <2>1, <3>1 DEF SaveReady, TypeOK, HandlerTypes, providers
  <2>4. CASE FailTurn(s)
    BY <1>1, <1>9, <2>1, <2>4, FailedTypes DEF SaveReady, providers
  <2>5. QED BY <1>9, <2>3, <2>4, Zenon DEF SaveReady
<1>10. QED BY <1>2, <1>3, <1>4, <1>5, <1>6, <1>7, <1>8, <1>9

LEMMA EnvironmentType ==
  ASSUME TypeOK, PinnedOnly, Environment
  PROVE  TypeOK'
<1>1. ASSUME NEW s \in Sessions, Prompt(s) PROVE TypeOK'
  <2> DEFINE a == AdapterOf[s]
             e == [entry[s] EXCEPT !.explicitCancelSettled = FALSE]
             t == [NoTurn EXCEPT !.pc = "identity", !.ownershipPreviouslyHeld = owns[a]]
             entries == [entry EXCEPT ![s] = e]
  <2>1. /\ a \in Adapters /\ owns[a] \in BOOLEAN /\ liveBlock[a] \in BOOLEAN
        /\ entry \in [Sessions -> EntryType] /\ turn \in [Sessions -> TurnType]
    BY Names DEF TypeOK
  <2>2. e \in EntryType BY <2>1 DEF EntryType
  <2>3. entries \in [Sessions -> EntryType] BY <2>1, <2>2
  <2>4. t \in TurnType BY <2>1 DEF NoTurn, TurnType, Places
  <2>5. UNCHANGED <<durable, lock, owns, closing, providers>> BY <1>1, Zenon DEF Prompt
  <2>6. HandlerTypes
    <3>1. CASE Refuse(s, t, entries, liveBlock[a])
      <4> HIDE DEF t, entries, a
      <4>1. QED BY <2>1, <2>3, <2>4, <3>1, RefuseType
    <3>2. CASE turn' = [turn EXCEPT ![s] = t] /\ entry' = entries /\ UNCHANGED <<pin, liveBlock>>
      <4> HIDE DEF t, entries, a
      <4>1. QED BY <2>1, <2>3, <2>4, <3>2 DEF HandlerTypes, TypeOK
    <3>3. QED BY <1>1, <3>1, <3>2, Zenon DEF Prompt
  <2>7. QED BY <2>5, <2>6 DEF TypeOK, HandlerTypes, durable, providers
<1>2. ASSUME NEW s \in Sessions, Cancel(s) PROVE TypeOK'
  <2> DEFINE t == [turn[s] EXCEPT !.aborted = TRUE, !.explicitCancelRequested = TRUE]
  <2>1. /\ turn[s] \in TurnType /\ entry[s] \in EntryType /\ liveBlock[AdapterOf[s]] \in BOOLEAN
        /\ turn \in [Sessions -> TurnType]
    BY Names DEF TypeOK
  <2>2. t \in TurnType BY <2>1 DEF TurnType
  <2>3. CASE EndTurn(s, t, entry[s], FALSE, liveBlock[AdapterOf[s]])
             /\ prov' = [prov EXCEPT ![s] = IF @ = "live" THEN "dying" ELSE @]
    <3>1. HandlerTypes /\ UNCHANGED <<owns, pin, closing>>
      <4> HIDE DEF t
      <4>1. QED BY <2>1, <2>2, <2>3, EndTurnType
    <3>2. QED BY <1>2, <2>3, <3>1 DEF Cancel, TypeOK, HandlerTypes, durable
  <2>4. CASE turn' = [turn EXCEPT ![s] = t]
             /\ UNCHANGED <<owns, pin, liveBlock, closing, entry, prov>>
    <3>1. turn' \in [Sessions -> TurnType] BY <2>1, <2>2, <2>4
    <3>2. QED BY <1>2, <2>4, <3>1 DEF Cancel, TypeOK, durable
  <2>5. QED BY <1>2, <2>3, <2>4, Zenon DEF Cancel
<1>3. ASSUME NEW s \in Sessions, ProviderExits(s) PROVE TypeOK'
  BY <1>3 DEF ProviderExits, TypeOK, durable, memory
<1>4. ASSUME NEW d \in DOMAIN outbox, OperatorRetries(d) PROVE TypeOK'
  BY <1>4 DEF OperatorRetries, TypeOK, memory, providers, Deliveries
<1>5. ASSUME NEW a \in Adapters, CloseBegin(a) PROVE TypeOK'
  <2>1. entry' \in [Sessions -> EntryType]
    <3>1. ASSUME NEW s \in Sessions
          PROVE  [entry[s] EXCEPT !.needsReplacement = TRUE] \in EntryType
      <4>1. entry[s] \in EntryType BY DEF TypeOK
      <4>2. QED BY <4>1 DEF EntryType
    <3>2. QED BY <1>5, <3>1 DEF CloseBegin, TypeOK
  <2>2. turn' \in [Sessions -> TurnType]
    <3>1. ASSUME NEW s \in Sessions
          PROVE  [turn[s] EXCEPT !.aborted = TRUE] \in TurnType
      <4>1. turn[s] \in TurnType BY DEF TypeOK
      <4>2. QED BY <4>1 DEF TurnType
    <3>2. QED BY <1>5, <3>1, NewTypes DEF CloseBegin, TypeOK
  <2>3. prov' \in [Sessions -> {"none", "live", "dying", "closed"}]
    BY <1>5 DEF CloseBegin, TypeOK
  <2>4. closing' \in [Adapters -> BOOLEAN] /\ liveBlock' \in [Adapters -> BOOLEAN]
    BY <1>5 DEF CloseBegin, TypeOK
  <2>5. QED BY <1>5, <2>1, <2>2, <2>3, <2>4 DEF CloseBegin, TypeOK, durable
<1>6. ASSUME NEW a \in Adapters, CloseDone(a) PROVE TypeOK'
  <2>1. orphans' \in Nat BY <1>6 DEF CloseDone, TypeOK
  <2>2. QED BY <1>6, <2>1, RestartType DEF CloseDone, durable
<1>7. ASSUME NEW a \in Adapters, Crash(a) PROVE TypeOK'
  <2>1. orphans' \in Nat
    BY <1>7, RunningOfAdapter DEF Crash, TypeOK
  <2>2. QED BY <1>7, <2>1, RestartType DEF Crash, durable
<1>8. ASSUME OrphanExits PROVE TypeOK'
  BY <1>8 DEF OrphanExits, TypeOK, durable, memory
<1>9. QED
  BY <1>1, <1>2, <1>3, <1>4, <1>5, <1>6, <1>7, <1>8 DEF Environment

LEMMA TypeStep ==
  ASSUME TypeOK, PinnedOnly, [Next]_vars
  PROVE  TypeOK'
<1>1. CASE Environment BY <1>1, EnvironmentType
<1>2. ASSUME NEW s \in Sessions, Handler(s) PROVE TypeOK'
  BY <1>2, PreflightType, WorkType DEF Handler
<1>3. CASE UNCHANGED vars
  BY <1>3 DEF TypeOK, vars, durable, memory, providers
<1>4. QED BY <1>1, <1>2, <1>3 DEF Next

-----------------------------------------------------------------------------
(***************************************************************************)
(* The inductive invariant.  Everything an adapter does to the record, to  *)
(* the lock and to the provider processes is done by the one turn it is    *)
(* running, so each part speaks of one adapter or of one session of it.    *)
(***************************************************************************)
Preflight == {"identity", "deliveryScan", "cancelLoad", "cancelScan", "cancelRetire"}

\* Deciding whether the channel of another session may be taken over
Taking == Preflight \ {"identity"}

\* The provider has been asked to work in this turn
Work ==
  {"provider", "retiring", "staging", "beginning", "publishing", "updating", "saving"}

\* The conversation has been written to the blocked record
Staged == {"beginning", "publishing", "updating", "saving"}

\* The channel is pinned to the session
Pinning ==
  {"recoverScan", "recoverRetire", "load", "reconcile", "reload", "invalidate", "releasing"}
  \cup Work

\* The adapter has the lease
Holding ==
  {"cancelScan", "cancelRetire", "reconcile", "reload", "invalidate", "releasing"} \cup Work

\* The sessions of the same adapter
Mates(s) == {t \in Sessions : AdapterOf[t] = AdapterOf[s]}

Started(s) == entry[s].providerEverStarted

\* The session wrote the block, and no provider of it was ever started.
Flagged(s) == entry[s].blockCreatedByThisParent /\ ~Started(s)

\* The adapter of the session has the lease, and the lock behind it.
Owner(s) == lock = AdapterOf[s] /\ owns[AdapterOf[s]]

RecordForm ==
  /\ rec.status = "absent" => rec.conversationId = "none"
  /\ rec.status = "ready" => rec.conversationId # "none"

LeaseInv(a) ==
  /\ lock = a => owns[a]
  /\ owns[a] => lock = a \/ \E s \in Sessions : AdapterOf[s] = a /\ entry[s].stateError
  /\ pin[a] # "none" => AdapterOf[pin[a]] = a
  /\ liveBlock[a] => \E s \in Sessions : AdapterOf[s] = a /\ Active(s)

AloneInv(s) == \A t \in Mates(s) : Active(s) /\ Active(t) => s = t

\* A lease that could not be given back freezes its adapter.
PinInv(s) ==
  /\ turn[s].pc \in Pinning \/ Running(s) \/ Flagged(s) => pin[AdapterOf[s]] = s
  /\ entry[s].stateError =>
       /\ pin[AdapterOf[s]] = s
       /\ ~Active(s)
       /\ \A t \in Mates(s) : ~Started(t)

\* A session that must recover keeps the channel, or is being taken over.
NeedsInv(s) ==
  entry[s].needsReplacement /\ ~entry[s].channelTransferInvalidated =>
    \/ pin[AdapterOf[s]] = s
    \/ \E t \in Mates(s) \ {s} :
         /\ Active(t) /\ pin[AdapterOf[s]] = t
         /\ turn[t].transferFrom = s /\ ~turn[t].transferCommitted

EntryInv(s) ==
  /\ prov[s] # "none" \/ entry[s].needsReplacement \/ entry[s].safeToTransfer => Started(s)
  /\ Started(s) => Owner(s)
  /\ Running(s) => /\ entry[s].blockCreatedByThisParent
                   /\ entry[s].needsReplacement \/ turn[s].pc \in {"provider", "retiring"}
  /\ entry[s].channelTransferInvalidated => ~Active(s) /\ ~Running(s)

\* A turn that found no lease when it began has an adapter that has used none.
LeaseTurnInv(s) ==
  /\ turn[s].pc \in Holding => Owner(s)
  /\ Active(s) /\ ~turn[s].ownershipPreviouslyHeld =>
       /\ \A t \in Mates(s) : t # s => ~Started(t)
       /\ turn[s].pc = "identity" => ~owns[AdapterOf[s]]
  /\ turn[s].pc = "releasing" =>
       /\ ~Started(s) /\ ~turn[s].ownershipPreviouslyHeld
       /\ turn[s].transferFrom = "none"

TransferInv(s) ==
  /\ turn[s].pc \in Taking =>
       /\ turn[s].existing \in Mates(s) \ {s} /\ Started(turn[s].existing)
       /\ pin[AdapterOf[s]] \in {turn[s].existing, "none"}
       /\ IF turn[s].pc = "deliveryScan"
            THEN entry[turn[s].existing].safeToTransfer /\ ~Running(turn[s].existing)
            ELSE entry[turn[s].existing].needsReplacement
  /\ Active(s) /\ turn[s].transferFrom # "none" =>
       /\ turn[s].transferFrom \in Mates(s) \ {s} /\ Started(turn[s].transferFrom)
       /\ ~entry[s].needsReplacement
       /\ turn[s].pc \in {"load", "reconcile", "reload"} =>
            ~Running(s) /\ ~Flagged(s) /\ ~turn[s].transferCommitted
  /\ turn[s].pc \in Preflight => turn[s].transferFrom = "none" /\ ~turn[s].transferCommitted
  /\ turn[s].pc \in Work \cup {"invalidate"} =>
       (turn[s].transferCommitted <=> turn[s].transferFrom # "none")

WorkInv(s) ==
  /\ turn[s].pc \in {"recoverScan", "recoverRetire"} =>
       entry[s].needsReplacement /\ turn[s].transferFrom = "none"
  /\ turn[s].pc = "invalidate" => ~Running(s)
  /\ turn[s].pc \in Work => Started(s) /\ entry[s].blockCreatedByThisParent
  /\ turn[s].pc \in Work \cup {"invalidate"} => entry[s].bound /\ ~entry[s].needsReplacement

RecordInv(s) ==
  /\ turn[s].pc \in {"reload", "invalidate"} => rec.status # "blocked"
  /\ turn[s].pc \in {"reconcile"} \cup Work => rec.status = "blocked"
  /\ turn[s].pc \in {"staging"} \cup Staged => prov[s] = "closed"
  /\ turn[s].pc \in Staged => rec.conversationId = conv[s]
  /\ turn[s].pc \in Work \ {"provider"} => conv[s] # "none"

TurnInv(s) == LeaseTurnInv(s) /\ TransferInv(s) /\ WorkInv(s) /\ RecordInv(s)

SessionInv(s) == AloneInv(s) /\ PinInv(s) /\ NeedsInv(s) /\ EntryInv(s) /\ TurnInv(s)

IInv ==
  /\ TypeOK /\ RecordForm
  /\ \A a \in Adapters : LeaseInv(a)
  /\ \A s \in Sessions : SessionInv(s)

LEMMA IInvInit == Init => IInv
<1> SUFFICES ASSUME Init PROVE IInv
  OBVIOUS
<1>1. TypeOK
  BY NewTypes, BoundsAssumption DEF Init, TypeOK, Deliveries
<1>2. RecordForm
  BY Names DEF Init, RecordForm
<1>3. ASSUME NEW a \in Adapters PROVE LeaseInv(a)
  BY Names DEF Init, LeaseInv
<1>4. ASSUME NEW s \in Sessions PROVE SessionInv(s)
  <2>1. /\ turn[s].pc = "idle" /\ prov[s] = "none" /\ entry[s] = NewEntry
    BY NewTypes DEF Init
  <2>2. AloneInv(s) BY <2>1 DEF AloneInv, Active
  <2>3. PinInv(s) /\ NeedsInv(s) /\ EntryInv(s)
    BY <2>1 DEF PinInv, NeedsInv, EntryInv, Pinning, Work, Running, Flagged, Started, NewEntry
  <2>4. TurnInv(s)
    BY <2>1 DEF TurnInv, LeaseTurnInv, TransferInv, WorkInv, RecordInv, Holding, Taking,
                Preflight, Work, Staged, Active
  <2>5. QED BY <2>2, <2>3, <2>4 DEF SessionInv
<1>5. QED BY <1>1, <1>2, <1>3, <1>4 DEF IInv

-----------------------------------------------------------------------------
(***************************************************************************)
(* A step of one adapter, seen from the others and from its own idle       *)
(* sessions.                                                               *)
(***************************************************************************)
Same(t) ==
  turn'[t] = turn[t] /\ entry'[t] = entry[t] /\ prov'[t] = prov[t] /\ conv'[t] = conv[t]

LocalTo(a) ==
  /\ \A t \in Sessions : AdapterOf[t] # a => Same(t)
  /\ \A b \in Adapters \ {a} :
       owns'[b] = owns[b] /\ pin'[b] = pin[b] /\ liveBlock'[b] = liveBlock[b]
  /\ lock' = lock \/ {lock, lock'} \subseteq {a, "free"}
  /\ rec' = rec \/ lock = a

\* What other adapters know of the channel survives a step of adapter a.
LEMMA Elsewhere ==
  ASSUME IInv, NEW a \in Adapters, LocalTo(a)
  PROVE  /\ \A b \in Adapters \ {a} : LeaseInv(b)'
         /\ \A t \in Sessions : AdapterOf[t] # a => SessionInv(t)'
<1>1. ASSUME NEW b \in Adapters \ {a} PROVE LeaseInv(b)'
  <2>1. LeaseInv(b) BY DEF IInv
  <2>2. b # "free" BY Names
  <2>3. (lock = b <=> lock' = b) BY <2>2 DEF LocalTo
  <2>4. owns'[b] = owns[b] /\ pin'[b] = pin[b] /\ liveBlock'[b] = liveBlock[b]
    BY DEF LocalTo
  <2>5. \A t \in Sessions : AdapterOf[t] = b => turn'[t] = turn[t] /\ entry'[t] = entry[t]
    BY DEF LocalTo, Same
  <2>6. QED BY <2>1, <2>3, <2>4, <2>5 DEF LeaseInv, Active
<1>2. ASSUME NEW t \in Sessions, AdapterOf[t] # a PROVE SessionInv(t)'
  <2> DEFINE b == AdapterOf[t]
  <2>1. SessionInv(t) BY DEF IInv
  <2>2. b \in Adapters /\ b # a /\ b # "free" BY <1>2, Names
  <2>3. (lock = b <=> lock' = b) /\ owns'[b] = owns[b] /\ pin'[b] = pin[b]
    BY <2>2 DEF LocalTo
  <2>4. \A u \in Mates(t) : Same(u) BY <1>2 DEF LocalTo, Mates
  <2>5. Same(t) BY <1>2 DEF LocalTo
  <2>6. rec' = rec \/ lock # b BY <2>2 DEF LocalTo
  <2>7. AloneInv(t)'
    BY <2>1, <2>4, <2>5 DEF SessionInv, AloneInv, Active, Same, Mates
  <2>8. PinInv(t)'
    BY <2>1, <2>3, <2>4, <2>5 DEF SessionInv, PinInv, Same, Mates, Running, Flagged, Started, Active
  <2>9. EntryInv(t)'
    BY <2>1, <2>3, <2>5 DEF SessionInv, EntryInv, Same, Running, Started, Active, Owner
  <2>10. LeaseTurnInv(t)'
    BY <2>1, <2>3, <2>4, <2>5
       DEF SessionInv, TurnInv, LeaseTurnInv, Same, Mates, Started, Active, Owner
  <2>11. TransferInv(t)'
    BY <2>1, <2>3, <2>4, <2>5
       DEF SessionInv, TurnInv, TransferInv, Same, Mates, Started, Active, Running, Flagged
  <2>12. WorkInv(t)'
    BY <2>1, <2>5 DEF SessionInv, TurnInv, WorkInv, Same, Started, Running
  <2>13. RecordInv(t)'
    <3>1. turn[t].pc \in Holding => lock = b
      BY <2>1 DEF SessionInv, TurnInv, LeaseTurnInv, Owner
    <3>2. QED
      BY <2>1, <2>5, <2>6, <3>1
         DEF SessionInv, TurnInv, RecordInv, Same, Holding, Work, Staged
  <2>14. NeedsInv(t)'
    BY <2>1, <2>3, <2>4, <2>5 DEF SessionInv, NeedsInv, Same, Mates, Active
  <2>15. QED BY <2>7, <2>8, <2>9, <2>10, <2>11, <2>12, <2>13, <2>14 DEF SessionInv, TurnInv
<1>3. QED BY <1>1, <1>2

\* What may happen to an idle session: its child is told to stop, or it loses
\* the channel to the session whose turn it is.
Kept(t) ==
  /\ turn'[t] = turn[t]
  /\ prov'[t] = "none" <=> prov[t] = "none"
  /\ Running(t)' <=> Running(t)
  /\ entry'[t].needsReplacement = entry[t].needsReplacement
  /\ entry'[t].providerEverStarted = entry[t].providerEverStarted
  /\ entry'[t].blockCreatedByThisParent = entry[t].blockCreatedByThisParent
  /\ entry'[t].stateError = entry[t].stateError
  /\ entry'[t].safeToTransfer => entry[t].safeToTransfer
  /\ entry[t].channelTransferInvalidated => entry'[t].channelTransferInvalidated
  /\ entry'[t].channelTransferInvalidated =>
       entry[t].channelTransferInvalidated \/ ~Running(t)

LEMMA SameIsKept ==
  ASSUME NEW t \in Sessions, Same(t)
  PROVE  Kept(t)
  BY DEF Same, Kept, Running

\* An idle session, while another session of its adapter takes a step
LEMMA IdleMate ==
  ASSUME IInv, NEW s \in Sessions, NEW t \in Mates(s) \ {s}, Kept(t), ~Active(t),
         Owner(s) => Owner(s)' \/ ~Started(t),
         \/ pin'[AdapterOf[s]] = pin[AdapterOf[s]]
         \/ pin[AdapterOf[s]] # t
         \/ ~Running(t) /\ Started(t),
         \A u \in Mates(s) : Started(u)' => Started(u) \/ pin[AdapterOf[s]] = s,
         NeedsInv(t)'
  PROVE  SessionInv(t)'
<1> DEFINE a == AdapterOf[s]
<1>1. SessionInv(t) /\ AdapterOf[t] = a /\ t \in Sessions /\ s # t
  BY DEF IInv, Mates
<1>2. turn'[t].pc = "idle" BY DEF Kept, Active
<1>3. AloneInv(t)' BY <1>2 DEF AloneInv, Active
<1>4. TurnInv(t)'
  BY <1>2 DEF TurnInv, LeaseTurnInv, TransferInv, WorkInv, RecordInv, Holding, Taking,
              Preflight, Work, Staged, Active
<1>5. PinInv(t)'
  BY <1>1, <1>2
     DEF SessionInv, PinInv, Pinning, Work, Kept, Flagged, Started, Active, Mates
<1>6. EntryInv(t)'
  BY <1>1 DEF SessionInv, EntryInv, Kept, Started, Active, Owner
<1>7. QED BY <1>3, <1>4, <1>5, <1>6 DEF SessionInv

LEMMA OneSession ==
  ASSUME IInv, TypeOK', RecordForm', NEW s \in Sessions, LocalTo(AdapterOf[s]),
         \A t \in Mates(s) \ {s} : Kept(t) /\ ~Active(t),
         Owner(s) => Owner(s)' \/ \A t \in Mates(s) \ {s} : ~Started(t),
         \/ pin'[AdapterOf[s]] = pin[AdapterOf[s]]
         \/ \A t \in Mates(s) \ {s} : pin[AdapterOf[s]] = t => ~Running(t) /\ Started(t),
         Started(s)' => Started(s) \/ pin[AdapterOf[s]] = s,
         LeaseInv(AdapterOf[s])', PinInv(s)', EntryInv(s)', TurnInv(s)',
         \A t \in Mates(s) : NeedsInv(t)'
  PROVE  IInv'
<1> DEFINE a == AdapterOf[s]
<1>1. a \in Adapters BY Names
<1>2. \A b \in Adapters : LeaseInv(b)' BY <1>1, Elsewhere
<1>3. AloneInv(s)'
  BY DEF AloneInv, Mates, Kept, Active
<1>4. SessionInv(s)' BY <1>3 DEF SessionInv, Mates
<1>5. ASSUME NEW t \in Mates(s) \ {s} PROVE SessionInv(t)'
  <2>1. \A u \in Mates(s) : Started(u)' => Started(u) \/ pin[a] = s
    BY DEF Kept, Started
  <2>2. QED BY <2>1, IdleMate
<1>6. ASSUME NEW t \in Sessions PROVE SessionInv(t)'
  BY <1>1, <1>4, <1>5, Elsewhere DEF Mates
<1>7. QED BY <1>2, <1>6 DEF IInv

-----------------------------------------------------------------------------
(***************************************************************************)
(* The end of a turn and the end of a preflight.                           *)
(***************************************************************************)
LEMMA MatesIdle ==
  ASSUME IInv, NEW s \in Sessions, Active(s)
  PROVE  /\ \A t \in Mates(s) \ {s} : ~Active(t)
         /\ ~BusyElsewhere(s)
         /\ ~entry[s].stateError /\ ~entry[s].channelTransferInvalidated
  BY DEF IInv, SessionInv, AloneInv, PinInv, EntryInv, Mates, BusyElsewhere

SameEntries(s) == \A t \in Sessions \ {s} : entry'[t] = entry[t]

SameTurns(s) == \A t \in Sessions \ {s} : turn'[t] = turn[t]

\* The turn has ended and has left e, but for the need to recover.
Ended(s, e) ==
  LET a == AdapterOf[s] IN
  /\ turn'[s].pc = "idle" /\ SameTurns(s) /\ SameEntries(s)
  /\ ~liveBlock'[a]
  /\ \A b \in Adapters \ {a} : liveBlock'[b] = liveBlock[b]
  /\ UNCHANGED <<owns, pin>>
  /\ entry'[s].bound = e.bound
  /\ entry'[s].providerEverStarted = e.providerEverStarted
  /\ entry'[s].blockCreatedByThisParent = e.blockCreatedByThisParent
  /\ entry'[s].safeToTransfer = e.safeToTransfer
  /\ entry'[s].channelTransferInvalidated = e.channelTransferInvalidated
  /\ entry'[s].stateError = e.stateError

LEMMA EndTurnEffect ==
  ASSUME IInv, NEW s \in Sessions, Active(s), NEW t \in TurnType, NEW e \in EntryType,
         NEW safe \in BOOLEAN, NEW live \in BOOLEAN, EndTurn(s, t, e, safe, live)
  PROVE  Ended(s, e) /\ (entry'[s].needsReplacement <=> e.needsReplacement \/ ~safe)
<1>1. turn \in [Sessions -> TurnType] /\ entry \in [Sessions -> EntryType]
  BY DEF IInv, TypeOK
<1>2. turn'[s].pc = "idle" /\ SameTurns(s)
  BY <1>1, NewTypes DEF EndTurn, SameTurns
<1>3. /\ ~liveBlock'[AdapterOf[s]]
      /\ \A b \in Adapters \ {AdapterOf[s]} : liveBlock'[b] = liveBlock[b]
  <2>1. liveBlock \in [Adapters -> BOOLEAN] BY DEF IInv, TypeOK
  <2>2. QED BY <2>1, MatesIdle, Names DEF EndTurn, SettleLiveBlock
<1>4. UNCHANGED <<owns, pin, closing>>
  BY Zenon DEF EndTurn
<1>5. PICK n, c \in BOOLEAN :
        /\ n = (e.needsReplacement \/ ~safe)
        /\ entry' = [entry EXCEPT ![s] =
             [e EXCEPT !.needsReplacement = n, !.explicitCancelSettled = c]]
  <2> DEFINE n == e.needsReplacement \/ ~safe
             c == e.explicitCancelSettled \/ (/\ ~safe /\ t.aborted
                                              /\ t.explicitCancelRequested
                                              /\ ~liveBlock'[AdapterOf[s]])
  <2>1. e.needsReplacement \in BOOLEAN /\ e.explicitCancelSettled \in BOOLEAN
    BY DEF EntryType
  <2>2. n \in BOOLEAN /\ c \in BOOLEAN BY <2>1
  <2>3. entry' = [entry EXCEPT ![s] =
             [e EXCEPT !.needsReplacement = n, !.explicitCancelSettled = c]]
    BY Zenon DEF EndTurn
  <2>4. QED BY <2>2, <2>3, Zenon
<1>6. SameEntries(s)
  BY <1>1, <1>5 DEF SameEntries
<1>7. entry'[s] = [e EXCEPT !.needsReplacement = n, !.explicitCancelSettled = c]
  BY <1>1, <1>5
<1>8. /\ entry'[s].bound = e.bound
      /\ entry'[s].needsReplacement = n
      /\ entry'[s].providerEverStarted = e.providerEverStarted
      /\ entry'[s].blockCreatedByThisParent = e.blockCreatedByThisParent
      /\ entry'[s].safeToTransfer = e.safeToTransfer
      /\ entry'[s].channelTransferInvalidated = e.channelTransferInvalidated
      /\ entry'[s].stateError = e.stateError
  BY <1>7 DEF EntryType
<1>9. entry'[s].needsReplacement <=> e.needsReplacement \/ ~safe
  BY <1>5, <1>8 DEF EntryType
<1>10. Ended(s, e) BY <1>2, <1>3, <1>4, <1>6, <1>8, Zenon DEF Ended
<1>11. QED BY <1>9, <1>10

\* The turn of a session ends after its provider was asked to work.
LEMMA EndedKeeps ==
  ASSUME IInv, TypeOK', RecordForm', NEW s \in Sessions, turn[s].pc \in Work,
         Ended(s, entry[s]), entry'[s].needsReplacement,
         lock' = lock, conv' = conv,
         \A x \in Sessions : AdapterOf[x] # AdapterOf[s] => prov'[x] = prov[x],
         \A x \in Mates(s) \ {s} : (prov'[x] = "none" <=> prov[x] = "none")
                                   /\ (Running(x)' <=> Running(x))
  PROVE  IInv'
<1> DEFINE a == AdapterOf[s]
           e == entry[s]
<1>1. Active(s) BY DEF Active, Work
<1>3. /\ turn'[s].pc = "idle" /\ SameTurns(s) /\ SameEntries(s)
      /\ ~liveBlock'[a]
      /\ \A b \in Adapters \ {a} : liveBlock'[b] = liveBlock[b]
      /\ UNCHANGED <<owns, pin>>
      /\ entry'[s].needsReplacement
      /\ entry'[s].providerEverStarted = e.providerEverStarted
      /\ entry'[s].blockCreatedByThisParent = e.blockCreatedByThisParent
      /\ entry'[s].safeToTransfer = e.safeToTransfer
      /\ entry'[s].channelTransferInvalidated = e.channelTransferInvalidated
      /\ entry'[s].stateError = e.stateError
  BY DEF Ended
<1>4. SessionInv(s) /\ LeaseInv(a) BY Names DEF IInv
<1>5. Owner(s) /\ pin[a] = s /\ Started(s) /\ entry[s].blockCreatedByThisParent
  BY <1>4 DEF SessionInv, PinInv, Pinning, TurnInv, LeaseTurnInv, Holding, WorkInv
<1>6. \A x \in Mates(s) \ {s} : Kept(x) /\ entry'[x] = entry[x]
  BY <1>3 DEF SameTurns, SameEntries, Kept, Mates
<1>7. LocalTo(a)
  <2>3. \A x \in Sessions : AdapterOf[x] # a => Same(x)
    BY <1>3 DEF Same, SameTurns, SameEntries
  <2>4. QED BY <1>3, <1>5, <2>3 DEF LocalTo, Owner
<1>8. LeaseInv(a)'
  BY <1>3, <1>4, <1>5 DEF LeaseInv, Owner
<1>9. PinInv(s)'
  BY <1>1, <1>3, <1>5, MatesIdle DEF PinInv, Pinning, Work
<1>10. EntryInv(s)'
  BY <1>1, <1>3, <1>5, MatesIdle DEF EntryInv, Owner, Started
<1>11. TurnInv(s)'
  BY <1>3 DEF TurnInv, LeaseTurnInv, TransferInv, WorkInv, RecordInv, Holding, Taking,
              Preflight, Work, Staged, Active
<1>12. \A x \in Mates(s) \ {s} : Kept(x) /\ ~Active(x)
  BY <1>1, <1>6, MatesIdle
<1>13. Owner(s)' BY <1>3, <1>5 DEF Owner
<1>14. ASSUME NEW x \in Mates(s) PROVE NeedsInv(x)'
  <2>1. CASE x = s BY <1>3, <1>5, <2>1 DEF NeedsInv
  <2>2. CASE x # s
    <3>1. ~(turn[s].transferFrom = x /\ ~turn[s].transferCommitted)
      BY <1>4, Names DEF SessionInv, TurnInv, TransferInv, Mates
    <3>2. entry'[x] = entry[x] BY <1>3, <2>2 DEF SameEntries, Mates
    <3>3. NeedsInv(x) BY DEF IInv, SessionInv, Mates
    <3>4. QED BY <1>3, <1>5, <3>1, <3>2, <3>3 DEF NeedsInv, Mates
  <2>3. QED BY <2>1, <2>2
<1>15. QED
  BY <1>3, <1>5, <1>7, <1>8, <1>9, <1>10, <1>11, <1>12, <1>13, <1>14, OneSession

\* A turn that fails after its provider was asked to work
LEMMA FailKeeps ==
  ASSUME IInv, TypeOK', RecordForm', NEW s \in Sessions, turn[s].pc \in Work,
         NEW t \in TurnType, NEW live \in BOOLEAN, NEW e \in EntryType, e = entry[s],
         NEW safe \in BOOLEAN, ~safe, EndTurn(s, t, e, safe, live),
         lock' = lock, conv' = conv, \A x \in Sessions \ {s} : prov'[x] = prov[x]
  PROVE  IInv'
<1>1. Active(s) BY DEF Active, Work
<1>2. Ended(s, e) /\ (entry'[s].needsReplacement <=> e.needsReplacement \/ ~safe)
  BY <1>1, EndTurnEffect
<1>3. Ended(s, entry[s]) /\ entry'[s].needsReplacement BY <1>2
<1>4. \A x \in Mates(s) \ {s} : (prov'[x] = "none" <=> prov[x] = "none")
                                /\ (Running(x)' <=> Running(x))
  BY DEF Mates, Running
<1>5. QED BY <1>3, <1>4, EndedKeeps

\* The turn ends with the channel pinned as before, to nobody, or back to the
\* session it was to be taken from.
Unwound(s, t, e) ==
  LET a == AdapterOf[s] IN
  /\ turn'[s].pc = "idle"
  /\ \/ /\ pin'[a] = pin[a]
        /\ ~(pin[a] = s /\ t.transferFrom # "none" /\ ~t.transferCommitted)
     \/ /\ pin[a] = s /\ pin'[a] = "none"
        /\ ~e.needsReplacement /\ ~e.stateError /\ ~e.blockCreatedByThisParent
        /\ t.transferFrom = "none"
     \/ /\ pin[a] = s /\ pin'[a] = t.transferFrom
        /\ t.transferFrom # "none" /\ ~t.transferCommitted

\* The turn goes on to release a lease it acquired and has not used.
GoesReleasing(s, t, e) ==
  /\ turn'[s].pc = "releasing"
  /\ turn'[s].ownershipPreviouslyHeld = t.ownershipPreviouslyHeld
  /\ turn'[s].transferFrom = t.transferFrom
  /\ ~t.ownershipPreviouslyHeld /\ owns'[AdapterOf[s]]
  /\ ~e.providerEverStarted /\ ~e.needsReplacement
  /\ pin'[AdapterOf[s]] = pin[AdapterOf[s]]

SameElsewhere(s) ==
  \A b \in Adapters \ {AdapterOf[s]} : pin'[b] = pin[b] /\ liveBlock'[b] = liveBlock[b]

LEMMA UnwindEffect ==
  ASSUME TypeOK, NEW s \in Sessions, NEW t \in TurnType, NEW e \in EntryType,
         NEW live \in BOOLEAN, Unwind(s, t, e, live), ~BusyElsewhere(s)
  PROVE  /\ SameTurns(s) /\ SameElsewhere(s)
         /\ ~liveBlock'[AdapterOf[s]]
         /\ Unwound(s, t, e)
<1>1. /\ turn \in [Sessions -> TurnType] /\ liveBlock \in [Adapters -> BOOLEAN]
      /\ pin \in [Adapters -> Sessions \cup {"none"}] /\ AdapterOf[s] \in Adapters
  BY Names DEF TypeOK
<1>2. SameTurns(s) /\ turn'[s].pc = "idle"
  BY <1>1, NewTypes DEF Unwind, SameTurns
<1>3. ~liveBlock'[AdapterOf[s]]
      /\ \A b \in Adapters \ {AdapterOf[s]} : liveBlock'[b] = liveBlock[b]
  BY <1>1 DEF Unwind, SettleLiveBlock
<1>4. \A b \in Adapters \ {AdapterOf[s]} : pin'[b] = pin[b]
  BY <1>1 DEF Unwind
<1>5. Unwound(s, t, e)
  BY <1>1, <1>2 DEF Unwind, Unwound
<1>6. QED BY <1>2, <1>3, <1>4, <1>5 DEF SameElsewhere

LEMMA RefuseEffect ==
  ASSUME TypeOK, NEW s \in Sessions, NEW t \in TurnType,
         NEW entries \in [Sessions -> EntryType], NEW live \in BOOLEAN,
         Refuse(s, t, entries, live), ~BusyElsewhere(s)
  PROVE  /\ entry' = entries /\ SameTurns(s) /\ SameElsewhere(s)
         /\ \/ GoesReleasing(s, t, entries[s])
            \/ ~liveBlock'[AdapterOf[s]] /\ Unwound(s, t, entries[s])
<1>1. entry' = entries BY DEF Refuse
<1>2. CASE Unwind(s, t, entries[s], live)
  BY <1>1, <1>2, UnwindEffect
<1>3. CASE /\ ~t.ownershipPreviouslyHeld /\ ~entries[s].providerEverStarted
           /\ ~entries[s].needsReplacement /\ owns'[AdapterOf[s]]
           /\ turn' = [turn EXCEPT ![s] = [t EXCEPT !.pc = "releasing"]]
           /\ liveBlock' = [liveBlock EXCEPT ![AdapterOf[s]] = live]
           /\ UNCHANGED pin
  <2>1. turn \in [Sessions -> TurnType] /\ liveBlock \in [Adapters -> BOOLEAN]
        /\ AdapterOf[s] \in Adapters
    BY Names DEF TypeOK
  <2>2. SameTurns(s) /\ turn'[s] = [t EXCEPT !.pc = "releasing"]
    BY <1>3, <2>1 DEF SameTurns
  <2>3. /\ turn'[s].pc = "releasing"
        /\ turn'[s].ownershipPreviouslyHeld = t.ownershipPreviouslyHeld
        /\ turn'[s].transferFrom = t.transferFrom
    BY <2>2 DEF TurnType
  <2>4. SameElsewhere(s) BY <1>3, <2>1 DEF SameElsewhere
  <2>5. QED BY <1>1, <1>3, <2>2, <2>3, <2>4 DEF GoesReleasing
<1>4. QED BY <1>2, <1>3 DEF Refuse

\* What a refusal may do to the entry of its own session
RefusedEntry(s, e) ==
  /\ e.bound = entry[s].bound
  /\ e.needsReplacement = entry[s].needsReplacement
  /\ e.providerEverStarted = entry[s].providerEverStarted
  /\ e.safeToTransfer = entry[s].safeToTransfer
  /\ e.channelTransferInvalidated = entry[s].channelTransferInvalidated
  /\ e.stateError = entry[s].stateError
  /\ \/ e.blockCreatedByThisParent = entry[s].blockCreatedByThisParent
     \/ turn[s].pc = "invalidate"
     \/ ~e.blockCreatedByThisParent /\ ~Running(s)

LEMMA RefuseKeeps ==
  ASSUME IInv, TypeOK', RecordForm', NEW s \in Sessions,
         Active(s), turn[s].pc \notin Work \cup {"releasing"},
         NEW t \in TurnType, NEW entries \in [Sessions -> EntryType], NEW live \in BOOLEAN,
         \/ t = turn[s]
         \/ /\ t = Committed(s)
            /\ turn[s].transferFrom # "none" =>
                 entries[turn[s].transferFrom].channelTransferInvalidated,
         Refuse(s, t, entries, live),
         RefusedEntry(s, entries[s]),
         \A x \in Mates(s) \ {s} : Kept(x),
         \A x \in Sessions : AdapterOf[x] # AdapterOf[s] => entries[x] = entry[x],
         prov' = prov, conv' = conv,
         rec' = rec \/ lock = AdapterOf[s],
         \/ UNCHANGED <<owns, lock>>
         \/ EnsureOwnership(AdapterOf[s]) /\ turn[s].pc # "identity"
  PROVE  IInv'
<1> DEFINE a == AdapterOf[s]
           e == entries[s]
<1>1. /\ TypeOK /\ SessionInv(s) /\ LeaseInv(a) /\ a \in Adapters /\ a # "free"
      /\ turn[s] \in TurnType
  BY Names DEF IInv, TypeOK
<1>2. ~BusyElsewhere(s) /\ (\A x \in Mates(s) \ {s} : ~Active(x))
      /\ ~entry[s].stateError /\ ~entry[s].channelTransferInvalidated
  BY MatesIdle
<1>3. /\ entry' = entries /\ SameTurns(s) /\ SameElsewhere(s)
      /\ \/ GoesReleasing(s, t, e)
         \/ ~liveBlock'[a] /\ Unwound(s, t, e)
  BY <1>1, <1>2, RefuseEffect
<1>4. /\ t.ownershipPreviouslyHeld = turn[s].ownershipPreviouslyHeld
      /\ t.transferFrom = turn[s].transferFrom
      /\ t.transferCommitted =>
           turn[s].transferCommitted \/ turn[s].transferFrom # "none"
      /\ ~t.transferCommitted => ~turn[s].transferCommitted \/ turn[s].transferFrom = "none"
  BY <1>1 DEF Committed, TurnType
<1>5. /\ Owner(s) => Owner(s)'
      /\ \A b \in Adapters \ {a} : owns'[b] = owns[b]
      /\ lock' = lock \/ {lock, lock'} \subseteq {a, "free"}
      /\ lock' = a => owns'[a]
      /\ owns'[a] => lock' = a \/ \E x \in Mates(s) \ {s} : entry[x].stateError
      /\ turn[s].pc = "identity" => owns'[a] = owns[a]
  BY <1>1, <1>2 DEF EnsureOwnership, Owner, LeaseInv, TypeOK, Mates
<1>6. LocalTo(a)
  <2>1. \A x \in Sessions : AdapterOf[x] # a => Same(x)
    BY <1>3 DEF Same, SameTurns
  <2>2. QED BY <1>3, <1>5, <2>1 DEF LocalTo, SameElsewhere
<1>7. \A x \in Mates(s) \ {s} : Kept(x) /\ ~Active(x)
  BY <1>2
<1>8. Owner(s) => Owner(s)' \/ \A x \in Mates(s) \ {s} : ~Started(x)
  BY <1>5
<1>9. Started(s)' => Started(s)
  BY <1>3 DEF Started, RefusedEntry
\* Who loses or gives back the channel needs no recovery, or has it back.
<1>12. ASSUME NEW x \in Mates(s) PROVE NeedsInv(x)'
  <2>1. /\ NeedsInv(x) /\ x \in Sessions /\ AdapterOf[x] = a
        /\ s # "none" /\ x # "none"
    BY Names DEF IInv, SessionInv, Mates
  <2>2. /\ entry'[x].needsReplacement = entry[x].needsReplacement
        /\ entry[x].channelTransferInvalidated => entry'[x].channelTransferInvalidated
    BY <1>3 DEF RefusedEntry, Kept, Mates
  <2> SUFFICES ASSUME entry[x].needsReplacement, ~entry'[x].channelTransferInvalidated
               PROVE  pin'[a] = x \/ /\ x # s /\ turn'[s].pc # "idle" /\ pin'[a] = s
                                     /\ turn'[s].transferFrom = x
                                     /\ ~turn'[s].transferCommitted
    BY <2>1, <2>2 DEF NeedsInv, Mates, Active
  <2>3. \/ pin[a] = x
        \/ x # s /\ pin[a] = s /\ turn[s].transferFrom = x /\ ~turn[s].transferCommitted
    BY <1>2, <2>1, <2>2 DEF NeedsInv, Mates
  <2>4. CASE GoesReleasing(s, t, e)
    <3>1. ~Started(s) /\ \A y \in Mates(s) \ {s} : ~Started(y)
      BY <1>1, <1>4, <2>4
         DEF GoesReleasing, SessionInv, TurnInv, LeaseTurnInv, RefusedEntry, Started
    <3>2. Started(x)
      BY <2>1 DEF IInv, SessionInv, EntryInv
    <3>3. QED BY <3>1, <3>2
  <2>5. CASE Unwound(s, t, e)
    <3>1. CASE pin[a] = x
      <4>1. x = s => t.transferFrom = "none"
        BY <1>1, <1>2, <1>4, <2>2 DEF SessionInv, TurnInv, TransferInv
      <4>2. x = s => e.needsReplacement BY DEF RefusedEntry
      <4>3. QED BY <2>5, <3>1, <4>1, <4>2 DEF Unwound
    <3>2. CASE pin[a] = s /\ x # s /\ turn[s].transferFrom = x /\ ~turn[s].transferCommitted
      <4>1. ~t.transferCommitted BY <1>3, <2>1, <3>2
      <4>2. QED BY <1>4, <2>1, <2>5, <3>2, <4>1 DEF Unwound
    <3>3. QED BY <2>3, <3>1, <3>2
  <2>6. QED BY <1>3, <2>4, <2>5
<1>10. CASE GoesReleasing(s, t, e)
  <2>1. \A x \in Mates(s) \ {s} : ~Started(x)
    BY <1>1, <1>4, <1>10 DEF GoesReleasing, SessionInv, TurnInv, LeaseTurnInv
  <2>2. ~Started(s) /\ ~entry[s].needsReplacement
    BY <1>10 DEF GoesReleasing, RefusedEntry, Started
  <2>3. turn[s].transferFrom = "none"
    BY <1>1, <2>1 DEF SessionInv, TurnInv, TransferInv
  <2>4. turn[s].pc \in {"load", "reconcile", "reload", "invalidate"}
    <3>1. turn[s].pc # "identity"
      BY <1>1, <1>4, <1>5, <1>10 DEF GoesReleasing, SessionInv, TurnInv, LeaseTurnInv
    <3>2. turn[s].pc \notin Taking
      BY <1>1, <2>1 DEF SessionInv, TurnInv, TransferInv
    <3>3. turn[s].pc \notin {"recoverScan", "recoverRetire"}
      BY <1>1, <2>2 DEF SessionInv, TurnInv, WorkInv
    <3>4. QED
      BY <1>1, <3>1, <3>2, <3>3 DEF TurnType, Places, Taking, Preflight, Work, Active
  <2>5. pin[a] = s /\ pin'[a] = s
    BY <1>1, <1>10, <2>4 DEF GoesReleasing, SessionInv, PinInv, Pinning
  <2>6. Owner(s)'
    <3>1. \A x \in Mates(s) \ {s} : ~entry[x].stateError
      BY <2>5 DEF IInv, SessionInv, PinInv, Mates
    <3>2. QED BY <1>5, <1>10, <3>1 DEF GoesReleasing, Owner
  <2>7. LeaseInv(a)'
    BY <1>10, <2>5, <2>6 DEF LeaseInv, Owner, GoesReleasing, Active
  <2>8. PinInv(s)'
    BY <1>2, <1>3, <2>5 DEF PinInv, RefusedEntry
  <2>9. EntryInv(s)'
    BY <1>1, <1>2, <1>3, <2>2, <2>6
       DEF EntryInv, RefusedEntry, Started, Running, SessionInv
  <2>10. TurnInv(s)'
    <3>1. \A x \in Mates(s) \ {s} : ~Started(x)' BY <2>1 DEF Kept, Started
    <3>2. LeaseTurnInv(s)'
      BY <1>3, <1>4, <1>10, <2>2, <2>3, <2>6, <3>1
         DEF LeaseTurnInv, GoesReleasing, Started, RefusedEntry, Mates
    <3>3. QED
      BY <1>4, <1>10, <2>3, <3>2
         DEF TurnInv, TransferInv, WorkInv, RecordInv, GoesReleasing, Taking, Preflight, Work,
             Staged
  <2>11. QED
    BY <1>6, <1>7, <1>8, <1>9, <1>12, <2>5, <2>7, <2>8, <2>9, <2>10, OneSession
<1>11. CASE ~liveBlock'[a] /\ Unwound(s, t, e)
  <2>1. pin'[a] = pin[a] \/ pin[a] = s
    BY <1>11 DEF Unwound
  <2>2. LeaseInv(a)'
    <3>1. pin'[a] # "none" => AdapterOf[pin'[a]] = a
      BY <1>1, <1>4, <1>11 DEF Unwound, LeaseInv, SessionInv, TurnInv, TransferInv, Mates
    <3>2. owns'[a] => lock' = a \/ \E x \in Mates(s) \ {s} : entry'[x].stateError
      BY <1>5 DEF Kept
    <3>3. QED BY <1>5, <1>11, <3>1, <3>2 DEF LeaseInv, Mates
  <2>3. Running(s) \/ Flagged(s)' => pin'[a] = s
    <3>1. Running(s) \/ Flagged(s)' => pin[a] = s
      BY <1>1, <1>3 DEF SessionInv, PinInv, Pinning, RefusedEntry, Flagged, Started
    <3>2. CASE pin'[a] = "none" /\ ~e.blockCreatedByThisParent /\ ~e.needsReplacement
      <4>1. ~Running(s)
        BY <1>1, <3>2 DEF SessionInv, EntryInv, RefusedEntry, TurnInv, WorkInv, Work
      <4>2. QED BY <1>3, <3>2, <4>1 DEF Flagged
    <3>3. CASE t.transferFrom # "none" /\ ~t.transferCommitted
      <4>1. turn[s].pc \in {"load", "reconcile", "reload"}
        BY <1>1, <1>4, <3>3
           DEF SessionInv, TurnInv, TransferInv, WorkInv, TurnType, Places, Preflight, Work, Active
      <4>2. ~Running(s) /\ ~Flagged(s)
        BY <1>1, <1>4, <3>3, <4>1 DEF SessionInv, TurnInv, TransferInv, Active
      <4>3. QED BY <1>3, <4>1, <4>2 DEF Flagged, RefusedEntry, Started
    <3>4. QED BY <1>11, <3>1, <3>2, <3>3 DEF Unwound
  <2>4. PinInv(s)'
    BY <1>2, <1>3, <1>11, <2>3
       DEF PinInv, Unwound, Pinning, Work, Running, RefusedEntry
  <2>5. EntryInv(s)'
    <3>1. Running(s) => entry[s].needsReplacement /\ e.blockCreatedByThisParent
      BY <1>1 DEF SessionInv, EntryInv, TurnInv, WorkInv, RefusedEntry, Work
    <3>2. QED
      BY <1>1, <1>2, <1>3, <1>5, <3>1
         DEF SessionInv, EntryInv, RefusedEntry, Started, Running
  <2>6. TurnInv(s)'
    BY <1>11 DEF Unwound, TurnInv, LeaseTurnInv, TransferInv, WorkInv, RecordInv, Holding,
                 Taking, Preflight, Work, Staged, Active
  <2>7. QED
    BY <1>6, <1>7, <1>8, <1>9, <1>12, <2>1, <2>2, <2>4, <2>5, <2>6, OneSession
<1>13. QED BY <1>3, <1>10, <1>11

-----------------------------------------------------------------------------
(***************************************************************************)
(* A turn that goes on.                                                    *)
(***************************************************************************)
\* The fields of a turn that an await does not touch
Moves(s, pc) ==
  /\ turn'[s].pc = pc
  /\ turn'[s].ownershipPreviouslyHeld = turn[s].ownershipPreviouslyHeld
  /\ turn'[s].existing = turn[s].existing
  /\ turn'[s].transferFrom = turn[s].transferFrom
  /\ turn'[s].transferCommitted = turn[s].transferCommitted
  /\ SameTurns(s)

LEMMA GotoMoves ==
  ASSUME TypeOK, NEW s \in Sessions, NEW pc \in Places, Goto(s, pc)
  PROVE  Moves(s, pc) /\ turn'[s].directProviderRetired = turn[s].directProviderRetired
                      /\ turn'[s].publication = turn[s].publication
<1>1. turn \in [Sessions -> TurnType] BY DEF TypeOK
<1>2. turn'[s] = [turn[s] EXCEPT !.pc = pc] /\ SameTurns(s)
  BY <1>1 DEF Goto, SameTurns
<1>3. turn[s] \in TurnType BY <1>1
<1>4. QED BY <1>2, <1>3 DEF Moves, TurnType

LEMMA Advance ==
  ASSUME IInv, TypeOK', RecordForm', NEW s \in Sessions, Active(s), SameTurns(s),
         turn'[s].pc # "idle", turn'[s].transferFrom = turn[s].transferFrom,
         turn'[s].transferCommitted = turn[s].transferCommitted,
         UNCHANGED <<lock, owns, pin, liveBlock, entry>>,
         \A x \in Sessions \ {s} : conv'[x] = conv[x],
         \A x \in Sessions : AdapterOf[x] # AdapterOf[s] => prov'[x] = prov[x],
         \A x \in Mates(s) \ {s} : (prov'[x] = "none" <=> prov[x] = "none")
                                   /\ (Running(x)' <=> Running(x)),
         rec' = rec \/ lock = AdapterOf[s],
         PinInv(s)', EntryInv(s)', TurnInv(s)'
  PROVE  IInv'
<1> DEFINE a == AdapterOf[s]
<1>1. LocalTo(a) BY DEF LocalTo, Same, SameTurns
<1>2. \A x \in Mates(s) \ {s} : Kept(x) /\ ~Active(x)
  BY MatesIdle DEF Kept, SameTurns, Mates
<1>3. LeaseInv(a)'
  <2>1. LeaseInv(a) BY Names DEF IInv
  <2>2. QED BY <2>1 DEF LeaseInv, Active
<1>4. Owner(s) => Owner(s)' BY DEF Owner
<1>5. Started(s)' => Started(s) BY DEF Started
<1>6. ASSUME NEW x \in Mates(s) PROVE NeedsInv(x)'
  <2>1. NeedsInv(x) BY DEF IInv, SessionInv, Mates
  <2>2. QED BY <2>1 DEF NeedsInv, Active, SameTurns, Mates
<1>7. QED BY <1>1, <1>2, <1>3, <1>4, <1>5, <1>6, OneSession

LEMMA Context ==
  ASSUME IInv, NEW s \in Sessions
  PROVE  /\ TypeOK /\ RecordForm /\ LeaseInv(AdapterOf[s])
         /\ AloneInv(s) /\ PinInv(s) /\ NeedsInv(s) /\ EntryInv(s)
         /\ LeaseTurnInv(s) /\ TransferInv(s) /\ WorkInv(s) /\ RecordInv(s)
         /\ turn[s] \in TurnType /\ AdapterOf[s] \in Adapters
  BY Names DEF IInv, SessionInv, TurnInv, TypeOK

LEMMA JustRefuseKeeps ==
  ASSUME IInv, TypeOK', NEW s \in Sessions, Active(s),
         turn[s].pc \notin Work \cup {"releasing"}, JustRefuse(s)
  PROVE  IInv'
<1>1. /\ turn[s] \in TurnType /\ entry \in [Sessions -> EntryType]
      /\ liveBlock[AdapterOf[s]] \in BOOLEAN
  BY Names DEF IInv, TypeOK
<1>2. RecordForm' BY DEF JustRefuse, durable, IInv, RecordForm
<1>3. entry' = entry BY DEF JustRefuse, Refuse
<1>4. \A x \in Mates(s) \ {s} : Kept(x)
  <2>1. SameTurns(s) BY <1>1, MatesIdle, RefuseEffect DEF JustRefuse, IInv
  <2>2. QED BY <1>3, <2>1 DEF JustRefuse, providers, Kept, SameTurns, Mates, Running
<1>5. RefusedEntry(s, entry[s]) BY DEF RefusedEntry
<1>6. QED
  BY <1>1, <1>2, <1>4, <1>5, RefuseKeeps DEF JustRefuse, durable, providers

\* The refusals after the lease has been asked for
LEMMA LeaseRefuseKeeps ==
  ASSUME IInv, TypeOK', NEW s \in Sessions, Active(s),
         turn[s].pc \notin Work \cup {"releasing", "identity"},
         EnsureOwnership(AdapterOf[s]), UNCHANGED <<durable, closing, providers>>,
         Refuse(s, turn[s], entry, liveBlock[AdapterOf[s]])
  PROVE  IInv'
<1>1. /\ turn[s] \in TurnType /\ entry \in [Sessions -> EntryType]
      /\ liveBlock[AdapterOf[s]] \in BOOLEAN
  BY Names DEF IInv, TypeOK
<1>2. RecordForm' BY DEF durable, IInv, RecordForm
<1>3. entry' = entry BY DEF Refuse
<1>4. \A x \in Mates(s) \ {s} : Kept(x)
  <2>1. SameTurns(s) BY <1>1, MatesIdle, RefuseEffect DEF IInv
  <2>2. QED BY <1>3, <2>1 DEF providers, Kept, SameTurns, Mates, Running
<1>5. RefusedEntry(s, entry[s]) BY DEF RefusedEntry
<1>6. QED
  BY <1>1, <1>2, <1>4, <1>5, RefuseKeeps DEF durable, providers

\* Taking the lease moves nothing that another turn relies on.
LEMMA Acquired ==
  ASSUME IInv, NEW s \in Sessions, EnsureOwnership(AdapterOf[s]),
         pin[AdapterOf[s]] = s \/ \E x \in Mates(s) : Started(x),
         Active(s)
  PROVE  /\ Owner(s)' /\ lock' = AdapterOf[s] /\ owns'[AdapterOf[s]]
         /\ \A b \in Adapters \ {AdapterOf[s]} : owns'[b] = owns[b]
         /\ {lock, lock'} \subseteq {AdapterOf[s], "free"}
<1> DEFINE a == AdapterOf[s]
<1>1. \A x \in Mates(s) : ~entry[x].stateError
  BY MatesIdle DEF IInv, SessionInv, PinInv, Mates
<1>2. owns[a] => lock = a
  BY <1>1, Context DEF LeaseInv, Mates
<1>3. QED BY <1>2, Context DEF EnsureOwnership, Owner, TypeOK

-----------------------------------------------------------------------------
(***************************************************************************)
(* Deciding whose channel it is, and taking it over.                       *)
(***************************************************************************)
\* The channel is pinned to s, which goes on to recover or to load.
LEMMA PinnedKeeps ==
  ASSUME IInv, TypeOK', NEW s \in Sessions, turn[s].pc \in Preflight,
         NEW t \in TurnType, Pinned(s, t),
         t.ownershipPreviouslyHeld = turn[s].ownershipPreviouslyHeld,
         ~t.transferCommitted,
         \/ t.transferFrom = "none" /\ pin[AdapterOf[s]] \in {"none", s}
         \/ /\ t.transferFrom = turn[s].existing /\ turn[s].pc \in Taking
            /\ ~Running(turn[s].existing)
  PROVE  IInv'
<1> DEFINE a == AdapterOf[s]
           x == turn[s].existing
           from == t.transferFrom
<1>1. /\ TypeOK /\ RecordForm /\ LeaseInv(a) /\ PinInv(s) /\ NeedsInv(s) /\ EntryInv(s)
      /\ LeaseTurnInv(s) /\ TransferInv(s) /\ a \in Adapters
  BY Context
<1>2. Active(s) BY DEF Active, Preflight
<1>3. /\ \A y \in Mates(s) \ {s} : ~Active(y)
      /\ ~entry[s].stateError /\ ~entry[s].channelTransferInvalidated
  BY <1>2, MatesIdle
<1>4. /\ SameTurns(s)
      /\ turn'[s].pc = IF entry[s].needsReplacement THEN "recoverScan" ELSE "load"
      /\ turn'[s].ownershipPreviouslyHeld = turn[s].ownershipPreviouslyHeld
      /\ turn'[s].transferFrom = from /\ ~turn'[s].transferCommitted
  <2> DEFINE pc == IF entry[s].needsReplacement THEN "recoverScan" ELSE "load"
  <2>1. turn'[s] = [t EXCEPT !.pc = pc] /\ SameTurns(s)
    BY <1>1 DEF Pinned, TypeOK, SameTurns
  <2> HIDE DEF pc
  <2>2. QED BY <2>1 DEF TurnType, pc
<1>5. /\ pin'[a] = s /\ \A b \in Adapters \ {a} : pin'[b] = pin[b]
      /\ UNCHANGED <<durable, lock, owns, liveBlock, closing, entry, providers>>
  BY <1>1 DEF Pinned, TypeOK
<1>6. LocalTo(a)
  BY <1>4, <1>5 DEF LocalTo, Same, SameTurns, durable, providers
<1>7. \/ from = "none" /\ pin[a] \in {"none", s}
      \/ /\ from # "none" /\ from = x /\ x \in Mates(s) \ {s} /\ Started(x) /\ ~Running(x)
         /\ pin[a] \in {x, "none"}
  BY <1>1, Names DEF TransferInv, Mates
<1>8. \A y \in Mates(s) \ {s} : Kept(y) /\ ~Active(y)
  BY <1>3, <1>4, <1>5 DEF Kept, SameTurns, Mates, Running, providers
<1>9. \A y \in Mates(s) \ {s} : pin[a] = y => ~Running(y) /\ Started(y)
  BY <1>7, Names DEF Mates
<1>10. from # "none" => ~entry[s].needsReplacement /\ ~Running(s) /\ ~Flagged(s)
  BY <1>1, <1>3, <1>7, Names DEF NeedsInv, PinInv, Mates
<1>11. LeaseInv(a)'
  BY <1>1, <1>4, <1>5 DEF LeaseInv, Active
<1>12. PinInv(s)'
  BY <1>3, <1>5 DEF PinInv
<1>13. EntryInv(s)'
  BY <1>1, <1>3, <1>5 DEF EntryInv, Started, Owner, Running, providers, Preflight
<1>14. TurnInv(s)'
  <2>1. LeaseTurnInv(s)'
    BY <1>1, <1>2, <1>4, <1>5 DEF LeaseTurnInv, Holding, Work, Started, Active, Mates
  <2>2. TransferInv(s)'
    BY <1>4, <1>5, <1>7, <1>10, Names
       DEF TransferInv, Preflight, Taking, Work, Started, Running, Flagged, Mates, providers
  <2>3. WorkInv(s)' /\ RecordInv(s)'
    BY <1>4, <1>5, <1>10 DEF WorkInv, RecordInv, Work, Staged
  <2>4. QED BY <2>1, <2>2, <2>3 DEF TurnInv
<1>15. ASSUME NEW y \in Mates(s) PROVE NeedsInv(y)'
  <2>1. CASE y = s BY <1>5, <2>1 DEF NeedsInv
  <2>2. CASE y # s /\ entry[y].needsReplacement /\ ~entry[y].channelTransferInvalidated
    <3>1. NeedsInv(y) BY DEF IInv, SessionInv, Mates
    <3>2. turn[s].transferFrom = "none" BY <1>1 DEF TransferInv
    <3>3. pin[a] = y
      BY <1>3, <2>2, <3>1, <3>2, Names DEF NeedsInv, Mates
    <3>4. from = y
      BY <1>7, <2>2, <3>3, Names DEF Mates
    <3>5. QED BY <1>4, <1>5, <3>4, <2>2 DEF NeedsInv, Mates, Active
  <2>3. CASE ~(entry[y].needsReplacement /\ ~entry[y].channelTransferInvalidated)
    BY <1>5, <2>3 DEF NeedsInv
  <2>4. QED BY <2>1, <2>2, <2>3
<1>16. RecordForm' /\ (Owner(s) => Owner(s)') /\ (Started(s)' => Started(s))
  BY <1>1, <1>5 DEF RecordForm, durable, Owner, Started
<1>17. QED
  BY <1>6, <1>8, <1>9, <1>11, <1>12, <1>13, <1>14, <1>15, <1>16, OneSession

\* A turn that only its place, and what concerns a transfer, changes
LEMMA IdentityKeeps ==
  ASSUME IInv, TypeOK', NEW s \in Sessions, Identity(s)
  PROVE  IInv'
<1> DEFINE a == AdapterOf[s]
           x == pin[a]
<1>1. /\ TypeOK /\ RecordForm /\ LeaseInv(a) /\ PinInv(s) /\ NeedsInv(s) /\ EntryInv(s)
      /\ LeaseTurnInv(s) /\ TransferInv(s) /\ a \in Adapters /\ turn[s] \in TurnType
  BY Context
<1>2. turn[s].pc = "identity" /\ Active(s) BY DEF Identity, At, Active
<1>3. CASE JustRefuse(s)
  BY <1>2, <1>3, JustRefuseKeeps DEF Work
<1>4. CASE x \in {"none", s} /\ Pinned(s, turn[s])
  <2>1. turn[s].transferFrom = "none"
        /\ ~turn[s].transferCommitted
    BY <1>1, <1>2 DEF TransferInv, Preflight
  <2>2. QED BY <1>1, <1>2, <1>4, <2>1, PinnedKeeps DEF Preflight
<1>5. CASE ~JustRefuse(s) /\ ~(x \in {"none", s} /\ Pinned(s, turn[s]))
  <2>1. /\ x \notin {"none", s} /\ ~entry[x].stateError /\ ~Active(x)
        /\ \/ entry[x].explicitCancelSettled /\ entry[x].needsReplacement
           \/ entry[x].safeToTransfer /\ ~entry[x].needsReplacement
        /\ turn' = [turn EXCEPT ![s].existing = x,
              ![s].pc = IF entry[x].explicitCancelSettled /\ entry[x].needsReplacement
                          THEN "cancelLoad" ELSE "deliveryScan"]
        /\ UNCHANGED <<durable, lock, owns, pin, liveBlock, closing, entry, providers>>
    BY <1>5, Zenon DEF Identity
  <2> DEFINE pc == IF entry[x].explicitCancelSettled /\ entry[x].needsReplacement
                     THEN "cancelLoad" ELSE "deliveryScan"
  <2>2. turn'[s] = [turn[s] EXCEPT !.existing = x, !.pc = pc] /\ SameTurns(s)
    BY <1>1, <2>1 DEF SameTurns, TypeOK
  <2>3. /\ pc = "cancelLoad" => entry[x].needsReplacement
        /\ pc = "deliveryScan" => entry[x].safeToTransfer /\ ~entry[x].needsReplacement
        /\ pc \in {"cancelLoad", "deliveryScan"}
    BY <2>1
  <2> HIDE DEF pc
  <2>4. /\ turn'[s].pc = pc /\ turn'[s].existing = x
        /\ turn'[s].ownershipPreviouslyHeld = turn[s].ownershipPreviouslyHeld
        /\ turn'[s].transferFrom = turn[s].transferFrom
        /\ turn'[s].transferCommitted = turn[s].transferCommitted
    BY <1>1, <2>2 DEF TurnType
  <2>5. x \in Mates(s) \ {s} /\ x \in Sessions
    BY <1>1, <2>1 DEF LeaseInv, Mates, TypeOK
  <2>6. EntryInv(x) BY <2>5 DEF IInv, SessionInv
  <2>7. Started(x) /\ (pc = "deliveryScan" => ~Running(x))
    BY <2>1, <2>3, <2>6 DEF EntryInv, Active
  <2>8. PinInv(s)'
    BY <1>1, <1>2, <2>1, <2>3, <2>4
       DEF PinInv, Pinning, Work, Running, Flagged, Started, Active, providers, Mates
  <2>9. EntryInv(s)'
    BY <1>1, <1>2, <2>1, <2>4 DEF EntryInv, Running, Started, Active, Owner, providers
  <2>10. LeaseTurnInv(s)'
    BY <1>1, <1>2, <2>1, <2>3, <2>4
       DEF LeaseTurnInv, Holding, Work, Started, Active, Owner, Mates
  <2>11. TransferInv(s)'
    BY <1>1, <1>2, <2>1, <2>3, <2>4, <2>5, <2>7
       DEF TransferInv, Taking, Preflight, Work, Started, Running, Mates, providers
  <2>12. WorkInv(s)' /\ RecordInv(s)'
    BY <2>3, <2>4 DEF WorkInv, RecordInv, Work, Staged
  <2>13. RecordForm' BY <1>1, <2>1 DEF RecordForm, durable
  <2>14. QED
    BY <1>2, <2>1, <2>2, <2>3, <2>4, <2>8, <2>9, <2>10, <2>11, <2>12, <2>13, Advance
       DEF TurnInv, providers, durable, Running
<1>6. QED BY <1>3, <1>4, <1>5

\* A turn that takes the lease, or has it, and goes on
LEMMA AdvanceLease ==
  ASSUME IInv, TypeOK', NEW s \in Sessions, Active(s), NEW pc \in Places, Moves(s, pc),
         pc \in {"cancelScan", "reconcile"},
         EnsureOwnership(AdapterOf[s]),
         pin[AdapterOf[s]] = s \/ \E x \in Mates(s) : Started(x),
         UNCHANGED <<durable, pin, liveBlock, entry, providers>>,
         pc \in Pinning => pin[AdapterOf[s]] = s,
         turn[s].pc \notin {"provider", "retiring"},
         TransferInv(s)', RecordInv(s)'
  PROVE  IInv'
<1> DEFINE a == AdapterOf[s]
<1>1. /\ TypeOK /\ RecordForm /\ LeaseInv(a) /\ PinInv(s) /\ NeedsInv(s) /\ EntryInv(s)
      /\ LeaseTurnInv(s) /\ a \in Adapters
  BY Context
<1>2. /\ Owner(s)' /\ lock' = a /\ owns'[a]
      /\ \A b \in Adapters \ {a} : owns'[b] = owns[b]
      /\ {lock, lock'} \subseteq {a, "free"}
  BY Acquired
<1>3. LocalTo(a)
  BY <1>2 DEF LocalTo, Same, SameTurns, Moves, durable, providers
<1>4. \A x \in Mates(s) \ {s} : Kept(x) /\ ~Active(x)
  BY MatesIdle DEF Kept, SameTurns, Moves, Mates, Running, providers
<1>5. LeaseInv(a)'
  BY <1>1, <1>2 DEF LeaseInv, Moves, Active
<1>6. PinInv(s)'
  BY <1>1 DEF PinInv, Moves, Running, Flagged, Started, Active, providers
<1>7. EntryInv(s)'
  BY <1>1, <1>2 DEF EntryInv, Moves, Started, Running, Active, providers
<1>8. LeaseTurnInv(s)'
  BY <1>1, <1>2 DEF LeaseTurnInv, Moves, Started, Active, Mates
<1>9. WorkInv(s)' BY DEF WorkInv, Moves, Work
<1>10. ASSUME NEW x \in Mates(s) PROVE NeedsInv(x)'
  <2>1. NeedsInv(x) BY DEF IInv, SessionInv, Mates
  <2>2. QED BY <2>1 DEF NeedsInv, Active, SameTurns, Moves, Mates
<1>11. RecordForm' /\ (Started(s)' => Started(s))
  BY <1>1 DEF RecordForm, durable, Started
<1>12. QED
  BY <1>2, <1>3, <1>4, <1>5, <1>6, <1>7, <1>8, <1>9, <1>10, <1>11, OneSession DEF TurnInv

LEMMA DeliveryScanKeeps ==
  ASSUME IInv, TypeOK', NEW s \in Sessions, DeliveryScan(s)
  PROVE  IInv'
<1>1. TransferInv(s) /\ turn[s] \in TurnType BY Context
<1>2. turn[s].pc = "deliveryScan" /\ Active(s) BY DEF DeliveryScan, At, Active
<1>3. CASE JustRefuse(s)
  BY <1>2, <1>3, JustRefuseKeeps DEF Work
<1>4. CASE Pinned(s, [turn[s] EXCEPT !.transferFrom = turn[s].existing])
  <2> DEFINE t == [turn[s] EXCEPT !.transferFrom = turn[s].existing]
  <2>1. /\ t \in TurnType /\ t.ownershipPreviouslyHeld = turn[s].ownershipPreviouslyHeld
        /\ t.transferCommitted = turn[s].transferCommitted
        /\ t.transferFrom = turn[s].existing
    BY <1>1 DEF TurnType
  <2>2. Pinned(s, t) BY <1>4
  <2> HIDE DEF t
  <2>3. ~Running(turn[s].existing) /\ ~turn[s].transferCommitted
    BY <1>1, <1>2 DEF TransferInv, Taking, Preflight
  <2>4. QED BY <1>2, <2>1, <2>2, <2>3, PinnedKeeps DEF Preflight, Taking
<1>5. QED BY <1>3, <1>4 DEF DeliveryScan

LEMMA CancelLoadKeeps ==
  ASSUME IInv, TypeOK', NEW s \in Sessions, CancelLoad(s)
  PROVE  IInv'
<1>1. TransferInv(s) /\ TypeOK BY Context
<1>2. turn[s].pc = "cancelLoad" /\ Active(s) BY DEF CancelLoad, At, Active
<1>3. CASE JustRefuse(s)
  BY <1>2, <1>3, JustRefuseKeeps DEF Work
<1>4. CASE /\ EnsureOwnership(AdapterOf[s]) /\ UNCHANGED <<durable, closing, providers>>
           /\ Refuse(s, turn[s], entry, liveBlock[AdapterOf[s]])
  BY <1>2, <1>4, LeaseRefuseKeeps DEF Work
<1>5. CASE /\ EnsureOwnership(AdapterOf[s]) /\ Goto(s, "cancelScan")
           /\ UNCHANGED <<durable, pin, liveBlock, closing, entry, providers>>
  <2>1. "cancelScan" \in Places BY DEF Places
  <2>2. Moves(s, "cancelScan") BY <1>1, <1>5, <2>1, GotoMoves
  <2>3. turn[s].existing \in Mates(s) /\ Started(turn[s].existing)
    BY <1>1, <1>2 DEF TransferInv, Taking, Preflight
  <2>4. TransferInv(s)'
    BY <1>1, <1>2, <1>5, <2>2
       DEF TransferInv, Moves, Taking, Preflight, Work, Active, Started, Mates
  <2>5. RecordInv(s)' BY <2>2 DEF RecordInv, Moves, Work, Staged
  <2>6. QED
    BY <1>2, <1>5, <2>1, <2>2, <2>3, <2>4, <2>5, AdvanceLease DEF Pinning, Work
<1>6. QED BY <1>3, <1>4, <1>5 DEF CancelLoad

\* A child told to stop is still there.
LEMMA RetireKeeps ==
  ASSUME IInv, TypeOK', NEW s \in Sessions, NEW x \in Mates(s),
         \/ turn[s].pc = "cancelScan" /\ x = turn[s].existing /\ Retire(s, x, "cancelRetire")
         \/ turn[s].pc = "recoverScan" /\ x = s /\ Retire(s, x, "recoverRetire")
  PROVE  IInv'
<1>1. /\ TypeOK /\ RecordForm /\ LeaseInv(AdapterOf[s]) /\ PinInv(s) /\ EntryInv(s)
      /\ LeaseTurnInv(s) /\ TransferInv(s) /\ WorkInv(s)
  BY Context
<1>2. Active(s) BY DEF Active
<1>3. CASE JustRefuse(s) BY <1>2, <1>3, JustRefuseKeeps DEF Work
<1>4. CASE ~JustRefuse(s)
  <2>1. PICK pc \in {"cancelRetire", "recoverRetire"} :
          /\ Goto(s, pc)
          /\ turn[s].pc = "cancelScan" => pc = "cancelRetire"
          /\ turn[s].pc = "recoverScan" => pc = "recoverRetire"
          /\ prov' = [prov EXCEPT ![x] = IF @ = "live" THEN "dying" ELSE @]
          /\ UNCHANGED <<durable, lock, owns, pin, liveBlock, closing, entry, conv, orphans>>
    BY <1>4 DEF Retire
  <2>2. Moves(s, pc) BY <1>1, <2>1, GotoMoves DEF Places
  <2>3. \A y \in Sessions : /\ prov'[y] = "none" <=> prov[y] = "none"
                            /\ Running(y)' <=> Running(y)
                            /\ y # x => prov'[y] = prov[y]
    BY <1>1, <2>1 DEF TypeOK, Running
  <2>4. PinInv(s)'
    BY <1>1, <2>1, <2>2, <2>3 DEF PinInv, Moves, Pinning, Work, Flagged, Started, Active
  <2>5. EntryInv(s)'
    BY <1>1, <1>2, <2>1, <2>2, <2>3 DEF EntryInv, Moves, Started, Owner, Active
  <2>6. LeaseTurnInv(s)'
    BY <1>1, <1>2, <2>1, <2>2 DEF LeaseTurnInv, Moves, Holding, Work, Started, Owner, Mates, Active
  <2>7. TransferInv(s)'
    BY <1>1, <1>2, <2>1, <2>2 DEF TransferInv, Moves, Taking, Preflight, Work, Started, Mates, Active
  <2>8. WorkInv(s)' /\ RecordInv(s)'
    BY <1>1, <2>1, <2>2 DEF WorkInv, RecordInv, Moves, Work, Staged
  <2>9. RecordForm' BY <1>1, <2>1 DEF RecordForm, durable
  <2>10. QED
    BY <1>2, <2>1, <2>2, <2>3, <2>4, <2>5, <2>6, <2>7, <2>8, <2>9, Advance
       DEF TurnInv, Moves, durable, Mates
<1>5. QED BY <1>3, <1>4

LEMMA CancelScanKeeps ==
  ASSUME IInv, TypeOK', NEW s \in Sessions, CancelScan(s)
  PROVE  IInv'
<1>1. turn[s].pc = "cancelScan" /\ Active(s) BY DEF CancelScan, At, Active
<1>2. CASE JustRefuse(s) BY <1>1, <1>2, JustRefuseKeeps DEF Work
<1>3. CASE Retire(s, turn[s].existing, "cancelRetire")
  <2>1. turn[s].existing \in Mates(s)
    BY <1>1, Context DEF TransferInv, Taking, Preflight
  <2>2. QED BY <1>1, <1>3, <2>1, RetireKeeps
<1>4. QED BY <1>2, <1>3 DEF CancelScan

LEMMA CancelRetireKeeps ==
  ASSUME IInv, TypeOK', NEW s \in Sessions, CancelRetire(s)
  PROVE  IInv'
<1>1. TransferInv(s) /\ turn[s] \in TurnType BY Context
<1>2. turn[s].pc = "cancelRetire" /\ Active(s) BY DEF CancelRetire, At, Active
<1>3. CASE JustRefuse(s)
  BY <1>2, <1>3, JustRefuseKeeps DEF Work
<1>4. CASE ~JustRefuse(s)
  <2> DEFINE t == [turn[s] EXCEPT !.transferFrom = turn[s].existing,
                                  !.explicitCancelTransfer = TRUE,
                                  !.directProviderRetired = TRUE]
  <2>1. /\ t \in TurnType /\ t.ownershipPreviouslyHeld = turn[s].ownershipPreviouslyHeld
        /\ t.transferCommitted = turn[s].transferCommitted
        /\ t.transferFrom = turn[s].existing
    BY <1>1 DEF TurnType
  <2>2. Pinned(s, t) /\ prov[turn[s].existing] = "closed" BY <1>4 DEF CancelRetire
  <2> HIDE DEF t
  <2>3. ~Running(turn[s].existing) /\ ~turn[s].transferCommitted
    BY <1>1, <1>2, <2>2 DEF TransferInv, Taking, Preflight, Running
  <2>4. QED BY <1>2, <2>1, <2>2, <2>3, PinnedKeeps DEF Preflight, Taking
<1>5. QED BY <1>3, <1>4

LEMMA RecoverScanKeeps ==
  ASSUME IInv, TypeOK', NEW s \in Sessions, RecoverScan(s)
  PROVE  IInv'
<1>1. turn[s].pc = "recoverScan" /\ Active(s) BY DEF RecoverScan, At, Active
<1>2. CASE JustRefuse(s) BY <1>1, <1>2, JustRefuseKeeps DEF Work
<1>3. CASE Retire(s, s, "recoverRetire")
  <2>1. s \in Mates(s) BY DEF Mates
  <2>2. QED BY <1>1, <1>3, <2>1, RetireKeeps
<1>4. QED BY <1>2, <1>3 DEF RecoverScan

LEMMA RecoverRetireKeeps ==
  ASSUME IInv, TypeOK', NEW s \in Sessions, RecoverRetire(s)
  PROVE  IInv'
<1>1. /\ TypeOK /\ RecordForm /\ PinInv(s) /\ EntryInv(s) /\ LeaseTurnInv(s)
      /\ TransferInv(s) /\ WorkInv(s) /\ turn[s] \in TurnType
  BY Context
<1>2. turn[s].pc = "recoverRetire" /\ Active(s) BY DEF RecoverRetire, At, Active
<1>3. CASE JustRefuse(s) BY <1>2, <1>3, JustRefuseKeeps DEF Work
<1>4. CASE ~JustRefuse(s)
  <2>1. /\ prov[s] = "closed"
        /\ turn' = [turn EXCEPT ![s].directProviderRetired = TRUE, ![s].pc = "load"]
        /\ UNCHANGED <<durable, lock, owns, pin, liveBlock, closing, entry, providers>>
    BY <1>4 DEF RecoverRetire
  <2>2. turn'[s] = [turn[s] EXCEPT !.directProviderRetired = TRUE, !.pc = "load"] /\ SameTurns(s)
    BY <1>1, <2>1 DEF TypeOK, SameTurns
  <2>3. Moves(s, "load") BY <1>1, <2>2 DEF Moves, TurnType
  <2>4. PinInv(s)'
    BY <1>1, <1>2, <2>1, <2>3
       DEF PinInv, Moves, Pinning, Work, Running, Flagged, Started, Active, providers
  <2>5. EntryInv(s)'
    BY <1>1, <1>2, <2>1, <2>3 DEF EntryInv, Moves, Running, Started, Owner, Active, providers
  <2>6. LeaseTurnInv(s)'
    BY <1>1, <1>2, <2>1, <2>3 DEF LeaseTurnInv, Moves, Holding, Work, Started, Owner, Mates, Active
  <2>7. TransferInv(s)'
    BY <1>1, <1>2, <2>1, <2>3, Names
       DEF TransferInv, WorkInv, Moves, Taking, Preflight, Work, Active
  <2>8. WorkInv(s)' /\ RecordInv(s)'
    BY <2>3 DEF WorkInv, RecordInv, Moves, Work, Staged
  <2>9. RecordForm' BY <1>1, <2>1 DEF RecordForm, durable
  <2>10. QED
    BY <1>2, <2>1, <2>3, <2>4, <2>5, <2>6, <2>7, <2>8, <2>9, Advance
       DEF TurnInv, Moves, durable, providers, Running
<1>5. QED BY <1>3, <1>4

-----------------------------------------------------------------------------
(***************************************************************************)
(* Loading, reconciling, admission, the block and the unused lease.        *)
(***************************************************************************)
\* What a transfer takes from the former owner
LEMMA StaleEffect ==
  ASSUME TypeOK, NEW s \in Sessions, NEW x \in Sessions
  PROVE  /\ Stale(s)[x].needsReplacement = entry[x].needsReplacement
         /\ Stale(s)[x].providerEverStarted = entry[x].providerEverStarted
         /\ Stale(s)[x].blockCreatedByThisParent = entry[x].blockCreatedByThisParent
         /\ Stale(s)[x].stateError = entry[x].stateError
         /\ Stale(s)[x].safeToTransfer => entry[x].safeToTransfer
         /\ entry[x].channelTransferInvalidated => Stale(s)[x].channelTransferInvalidated
         /\ x = turn[s].transferFrom => Stale(s)[x].channelTransferInvalidated
         /\ x # turn[s].transferFrom => Stale(s)[x] = entry[x]
<1>1. entry[x] \in EntryType BY DEF TypeOK
<1>2. CASE x = turn[s].transferFrom
  <2>1. Stale(s)[x] = [entry[x] EXCEPT !.safeToTransfer = FALSE,
                                       !.channelTransferInvalidated = TRUE,
                                       !.explicitCancelSettled = FALSE]
    BY <1>2 DEF Stale
  <2>2. QED BY <1>1, <1>2, <2>1 DEF EntryType
<1>3. CASE x # turn[s].transferFrom
  <2>1. Stale(s)[x] = entry[x] BY <1>3 DEF Stale
  <2>2. QED BY <1>3, <2>1
<1>4. QED BY <1>2, <1>3

LEMMA AdmitKeeps ==
  ASSUME IInv, TypeOK', NEW s \in Sessions, turn[s].pc \in {"load", "reload"},
         Admit(s), rec.status # "blocked",
         \/ EnsureOwnership(AdapterOf[s])
         \/ turn[s].pc = "reload" /\ UNCHANGED <<lock, owns>>
  PROVE  IInv'
<1> DEFINE a == AdapterOf[s]
           from == turn[s].transferFrom
<1>1. /\ TypeOK /\ RecordForm /\ LeaseInv(a) /\ PinInv(s) /\ NeedsInv(s) /\ EntryInv(s)
      /\ LeaseTurnInv(s) /\ TransferInv(s) /\ WorkInv(s) /\ turn[s] \in TurnType /\ a \in Adapters
  BY Context
<1>2. Active(s) /\ pin[a] = s BY <1>1 DEF Active, PinInv, Pinning
<1>3. /\ \A y \in Mates(s) \ {s} : ~Active(y)
      /\ ~entry[s].stateError /\ ~entry[s].channelTransferInvalidated
  BY <1>2, MatesIdle
<1>4. UNCHANGED <<durable, closing, orphans>> BY AdmitCases
<1>5. RecordForm' /\ rec' = rec BY <1>1, <1>4 DEF RecordForm, durable
<1>6. from # s /\ (from # "none" => from \in Mates(s) \ {s})
  BY <1>1, <1>2, Names DEF TransferInv
<1>7. UNCHANGED <<owns, lock>> \/ (EnsureOwnership(a) /\ turn[s].pc # "identity")
  OBVIOUS
<1>8. \A y \in Mates(s) \ {s} : ~Running(y)
  BY <1>2 DEF IInv, SessionInv, PinInv, Mates
<1>9. CASE AdmitNothingToTake(s)
  <2>1. /\ entry \in [Sessions -> EntryType] /\ liveBlock[a] \in BOOLEAN
    BY <1>1 DEF TypeOK
  <2>2. Refuse(s, turn[s], entry, liveBlock[a]) /\ UNCHANGED <<prov, conv>>
    BY <1>9 DEF AdmitNothingToTake
  <2>3. entry' = entry /\ SameTurns(s)
    BY <1>1, <1>2, <2>1, <2>2, MatesIdle, RefuseEffect
  <2>4. \A y \in Mates(s) \ {s} : Kept(y)
    BY <2>2, <2>3 DEF Kept, SameTurns, Mates, Running
  <2>5. RefusedEntry(s, entry[s]) BY DEF RefusedEntry
  <2>6. QED
    BY <1>1, <1>2, <1>5, <1>7, <2>1, <2>2, <2>4, <2>5, RefuseKeeps DEF Work
<1>10. CASE AdmitClosed(s)
  <2> DEFINE entries == [Stale(s) EXCEPT ![s].blockCreatedByThisParent = FALSE]
             t == Committed(s)
  <2>1. /\ entries \in [Sessions -> EntryType] /\ t \in TurnType /\ liveBlock[a] \in BOOLEAN
    <3>1. Stale(s)[s] \in EntryType BY StaleType, <1>1
    <3>2. [Stale(s)[s] EXCEPT !.blockCreatedByThisParent = FALSE] \in EntryType
      BY <3>1, EntryTypes
    <3>3. QED BY <1>1, <3>2, StaleType DEF TypeOK
  <2>2. /\ Refuse(s, t, entries, liveBlock[a]) /\ UNCHANGED <<prov, conv>>
        /\ ~entry[s].needsReplacement
    BY <1>10, Zenon DEF AdmitClosed
  <2>3. entries[s] = [entry[s] EXCEPT !.blockCreatedByThisParent = FALSE]
    <3>1. Stale(s)[s] = entry[s] BY <1>1, <1>6, StaleEffect
    <3>2. QED BY <1>1, <3>1, StaleType
  <2>4. \A y \in Sessions \ {s} : entries[y] = Stale(s)[y]
    BY <1>1, StaleType
  <2> HIDE DEF entries, t
  <2>5. entry' = entries /\ SameTurns(s)
    BY <1>1, <1>2, <2>1, <2>2, MatesIdle, RefuseEffect
  <2>6. \A y \in Mates(s) \ {s} : Kept(y)
    BY <1>1, <1>8, <2>2, <2>4, <2>5, StaleEffect DEF Kept, SameTurns, Mates, Running
  <2>7. RefusedEntry(s, entries[s])
    <3>1. ~Running(s) BY <1>1, <2>2 DEF EntryInv
    <3>2. entry[s] \in EntryType BY <1>1 DEF TypeOK
    <3>3. QED BY <2>3, <3>1, <3>2 DEF RefusedEntry, EntryType
  <2>8. \A y \in Sessions : AdapterOf[y] # a => entries[y] = entry[y]
    <3> SUFFICES ASSUME NEW y \in Sessions, AdapterOf[y] # a PROVE entries[y] = entry[y]
      OBVIOUS
    <3>1. y # from /\ y # s BY <1>6, Names DEF Mates
    <3>2. QED BY <1>1, <2>4, <3>1, StaleEffect
  <2>9. from # "none" => entries[from].channelTransferInvalidated
    BY <1>1, <1>6, <2>4, StaleEffect DEF Mates
  <2>10. t = Committed(s) BY DEF t
  <2>11. QED
    BY <1>1, <1>2, <1>5, <1>7, <2>1, <2>2, <2>6, <2>7, <2>8, <2>9, <2>10, RefuseKeeps DEF Work
<1>11. CASE AdmitBound(s)
  <2>1. /\ UNCHANGED <<pin, liveBlock>>
        /\ entry[s].needsReplacement => prov'[s] = "none"
        /\ ~entry[s].needsReplacement => prov'[s] = prov[s]
        /\ \A y \in Sessions \ {s} : prov'[y] = prov[y] /\ conv'[y] = conv[y]
    BY <1>1, <1>11 DEF AdmitBound, TypeOK
  <2>2. /\ turn'[s] = [Committed(s) EXCEPT !.pc = "invalidate"] /\ SameTurns(s)
    BY <1>1, <1>11 DEF AdmitBound, SameTurns, TypeOK
  <2>3. /\ turn'[s].pc = "invalidate"
        /\ turn'[s].ownershipPreviouslyHeld = turn[s].ownershipPreviouslyHeld
        /\ turn'[s].transferFrom = from
        /\ turn'[s].transferCommitted <=> from # "none"
    BY <1>1, <2>2 DEF Committed, TurnType
  <2>4. \A y \in Sessions \ {s} : entry'[y] = Stale(s)[y]
    BY <1>1, <1>11, StaleType DEF AdmitBound
  <2>5. /\ entry'[s].bound /\ ~entry'[s].needsReplacement
        /\ ~entry'[s].blockCreatedByThisParent
        /\ entry'[s].providerEverStarted = entry[s].providerEverStarted
        /\ entry'[s].safeToTransfer = entry[s].safeToTransfer
        /\ ~entry'[s].channelTransferInvalidated /\ ~entry'[s].stateError
    <3>1. PICK b : entry'[s] = [entry[s] EXCEPT !.blockCreatedByThisParent = FALSE,
                                                !.cachedConversationBound = b,
                                                !.needsReplacement = FALSE,
                                                !.bound = TRUE]
      <4>1. Stale(s)[s] = entry[s] BY <1>1, <1>6, StaleEffect
      <4>2. QED BY <1>1, <1>11, <4>1, StaleType DEF AdmitBound
    <3>2. entry[s] \in EntryType BY <1>1 DEF TypeOK
    <3>3. QED BY <1>3, <3>1, <3>2 DEF EntryType
  <2>6. /\ Owner(s)' /\ (lock' = lock \/ {lock, lock'} \subseteq {a, "free"})
        /\ \A b \in Adapters \ {a} : owns'[b] = owns[b]
    BY <1>1, <1>2, Acquired DEF LeaseTurnInv, Holding, Owner
  <2>7. ~Running(s)' BY <1>1, <2>1 DEF Running, EntryInv
  <2>8. \A y \in Mates(s) \ {s} : Kept(y) /\ ~Active(y)
    BY <1>1, <1>3, <1>8, <2>1, <2>2, <2>4, StaleEffect DEF Kept, SameTurns, Mates, Running
  <2>9. LocalTo(a)
    <3>1. \A y \in Sessions : AdapterOf[y] # a => Same(y)
      <4> SUFFICES ASSUME NEW y \in Sessions, AdapterOf[y] # a PROVE Same(y)
        OBVIOUS
      <4>1. y # from /\ y # s BY <1>6, Names DEF Mates
      <4>2. entry'[y] = entry[y] BY <1>1, <2>4, <4>1, StaleEffect
      <4>3. QED BY <2>1, <2>2, <4>1, <4>2 DEF Same, SameTurns
    <3>2. QED BY <1>5, <2>1, <2>6, <3>1 DEF LocalTo
  <2>10. LeaseInv(a)'
    BY <1>1, <2>1, <2>3, <2>6 DEF LeaseInv, Owner, Active
  <2>11. PinInv(s)'
    BY <1>2, <2>1, <2>5 DEF PinInv
  <2>12. EntryInv(s)'
    BY <1>1, <2>1, <2>5, <2>6, <2>7 DEF EntryInv, Started
  <2>13. LeaseTurnInv(s)'
    BY <1>1, <1>2, <2>3, <2>6, <2>8 DEF LeaseTurnInv, Active, Started, Kept
  <2>14. TransferInv(s)'
    BY <1>1, <1>2, <2>3, <2>5, <2>8 DEF TransferInv, Active, Started, Kept, Taking, Preflight
  <2>15. WorkInv(s)' /\ RecordInv(s)'
    BY <1>5, <2>3, <2>5, <2>7 DEF WorkInv, RecordInv, Work, Staged
  <2>16. ASSUME NEW y \in Mates(s) PROVE NeedsInv(y)'
    <3>1. CASE y = s BY <2>5, <3>1 DEF NeedsInv
    <3>2. CASE y # s
      <4>1. NeedsInv(y) /\ y \in Sessions BY DEF IInv, SessionInv, Mates
      <4>2. entry[y].needsReplacement /\ ~entry[y].channelTransferInvalidated => y = from
        BY <1>2, <1>3, <3>2, <4>1 DEF NeedsInv, Mates
      <4>3. QED BY <1>1, <2>4, <3>2, <4>1, <4>2, StaleEffect DEF NeedsInv
    <3>3. QED BY <3>1, <3>2
  <2>17. Started(s)' => Started(s) BY <2>5 DEF Started
  <2>18. QED
    BY <1>5, <2>1, <2>6, <2>8, <2>9, <2>10, <2>11, <2>12, <2>13, <2>14, <2>15, <2>16, <2>17,
       OneSession DEF TurnInv
<1>12. QED BY <1>9, <1>10, <1>11, AdmitCases

LEMMA LoadKeeps ==
  ASSUME IInv, TypeOK', NEW s \in Sessions, Load(s)
  PROVE  IInv'
<1>1. /\ TransferInv(s) /\ PinInv(s) /\ TypeOK /\ turn[s] \in TurnType BY Context
<1>2. turn[s].pc = "load" /\ Active(s) /\ pin[AdapterOf[s]] = s
  BY <1>1 DEF Load, At, Active, PinInv, Pinning
<1>3. CASE JustRefuse(s)
  BY <1>2, <1>3, JustRefuseKeeps DEF Work
<1>4. CASE /\ EnsureOwnership(AdapterOf[s]) /\ UNCHANGED <<durable, closing, providers>>
           /\ Refuse(s, turn[s], entry, liveBlock[AdapterOf[s]])
  BY <1>2, <1>4, LeaseRefuseKeeps DEF Work
<1>5. CASE /\ EnsureOwnership(AdapterOf[s]) /\ rec.status = "blocked"
           /\ turn' = [turn EXCEPT ![s].directProviderRetired = TRUE, ![s].pc = "reconcile"]
           /\ UNCHANGED <<durable, pin, liveBlock, closing, entry, providers>>
  <2>1. turn'[s] = [turn[s] EXCEPT !.directProviderRetired = TRUE, !.pc = "reconcile"]
        /\ SameTurns(s)
    BY <1>1, <1>5 DEF TypeOK, SameTurns
  <2>2. Moves(s, "reconcile") BY <1>1, <2>1 DEF Moves, TurnType
  <2>3. TransferInv(s)'
    BY <1>1, <1>2, <1>5, <2>2
       DEF TransferInv, Moves, Taking, Preflight, Work, Active, Started, Mates, Running,
           Flagged, providers
  <2>4. RecordInv(s)'
    BY <1>5, <2>2 DEF RecordInv, Moves, Work, Staged, durable
  <2>5. "reconcile" \in Places BY DEF Places
  <2>6. QED
    BY <1>2, <1>5, <2>2, <2>3, <2>4, <2>5, AdvanceLease
<1>6. CASE EnsureOwnership(AdapterOf[s]) /\ rec.status # "blocked" /\ Admit(s)
  BY <1>2, <1>6, AdmitKeeps
<1>7. QED BY <1>3, <1>4, <1>5, <1>6, Zenon DEF Load

LEMMA ReloadKeeps ==
  ASSUME IInv, TypeOK', NEW s \in Sessions, Reload(s)
  PROVE  IInv'
<1>1. turn[s].pc = "reload" /\ Active(s) BY DEF Reload, At, Active
<1>2. CASE JustRefuse(s) BY <1>1, <1>2, JustRefuseKeeps DEF Work
<1>3. CASE rec.status # "blocked" /\ UNCHANGED <<lock, owns>> /\ Admit(s)
  BY <1>1, <1>3, AdmitKeeps
<1>4. QED BY <1>2, <1>3, Zenon DEF Reload

LEMMA ReconcileKeeps ==
  ASSUME IInv, TypeOK', NEW s \in Sessions, Reconcile(s)
  PROVE  IInv'
<1>1. /\ TypeOK /\ RecordForm /\ PinInv(s) /\ EntryInv(s) /\ LeaseTurnInv(s)
      /\ TransferInv(s) /\ turn[s] \in TurnType
  BY Context
<1>2. turn[s].pc = "reconcile" /\ Active(s) /\ Owner(s)
  BY <1>1 DEF Reconcile, At, Active, LeaseTurnInv, Holding
<1>3. rec \in [status: {"absent", "blocked", "ready"},
               conversationId: Conversations \cup {"none"}]
  BY <1>1 DEF TypeOK
<1>4. CASE /\ WriteRecord(IF rec.conversationId = "none" THEN [rec EXCEPT !.status = "absent"]
                          ELSE [rec EXCEPT !.status = "ready"], TRUE)
           /\ turn' = [turn EXCEPT
                         ![s].clearedCheckpoint = @ \/ rec.conversationId = "none",
                         ![s].pc = "reload"]
           /\ UNCHANGED <<outbox, lock, owns, pin, liveBlock, closing, entry, providers>>
  <2>1. rec' = IF rec.conversationId = "none" THEN [rec EXCEPT !.status = "absent"]
               ELSE [rec EXCEPT !.status = "ready"]
    BY <1>4 DEF WriteRecord
  <2>2. RecordForm' /\ rec'.status # "blocked"
    BY <1>3, <2>1 DEF RecordForm
  <2>3. /\ turn'[s] = [turn[s] EXCEPT
                         !.clearedCheckpoint = turn[s].clearedCheckpoint \/ rec.conversationId = "none",
                         !.pc = "reload"]
        /\ SameTurns(s)
    BY <1>1, <1>4 DEF TypeOK, SameTurns
  <2>4. Moves(s, "reload") BY <1>1, <2>3 DEF Moves, TurnType
  <2>5. PinInv(s)'
    BY <1>1, <1>2, <1>4, <2>4
       DEF PinInv, Moves, Pinning, Work, Running, Flagged, Started, Active, providers
  <2>6. EntryInv(s)'
    BY <1>1, <1>2, <1>4, <2>4 DEF EntryInv, Moves, Running, Started, Owner, Active, providers
  <2>7. LeaseTurnInv(s)'
    BY <1>1, <1>2, <1>4, <2>4 DEF LeaseTurnInv, Moves, Started, Owner, Mates, Active
  <2>8. TransferInv(s)'
    BY <1>1, <1>2, <1>4, <2>4
       DEF TransferInv, Moves, Taking, Preflight, Work, Active, Started, Mates, Running,
           Flagged, providers
  <2>9. WorkInv(s)' /\ RecordInv(s)'
    BY <2>2, <2>4 DEF WorkInv, RecordInv, Moves, Work, Staged
  <2>10. QED
    BY <1>2, <1>4, <2>2, <2>4, <2>5, <2>6, <2>7, <2>8, <2>9, Advance
       DEF TurnInv, Moves, providers, Running, Owner
<1>5. CASE /\ IF rec.conversationId = "none" THEN "write" \in Faults /\ UNCHANGED rec
              ELSE WriteRecord([rec EXCEPT !.status = "ready"], FALSE)
           /\ UNCHANGED <<outbox, lock, owns, closing, providers>>
           /\ Refuse(s, turn[s], entry, liveBlock[AdapterOf[s]])
  <2>1. rec' = rec \/ (rec.conversationId # "none" /\ rec' = [rec EXCEPT !.status = "ready"])
    BY <1>5 DEF WriteRecord
  <2>2. RecordForm' BY <1>1, <1>3, <2>1 DEF RecordForm
  <2>3. /\ entry \in [Sessions -> EntryType] /\ liveBlock[AdapterOf[s]] \in BOOLEAN
    BY <1>1, Names DEF TypeOK
  <2>4. entry' = entry /\ SameTurns(s)
    BY <1>1, <1>2, <1>5, <2>3, MatesIdle, RefuseEffect
  <2>5. \A y \in Mates(s) \ {s} : Kept(y)
    BY <1>5, <2>4 DEF Kept, SameTurns, Mates, Running, providers
  <2>6. RefusedEntry(s, entry[s]) BY DEF RefusedEntry
  <2>7. QED
    BY <1>1, <1>2, <1>5, <2>2, <2>3, <2>5, <2>6, RefuseKeeps DEF Work, providers, Owner
<1>6. QED BY <1>4, <1>5, Zenon DEF Reconcile

LEMMA InvalidateKeeps ==
  ASSUME IInv, TypeOK', NEW s \in Sessions, Invalidate(s)
  PROVE  IInv'
<1> DEFINE a == AdapterOf[s]
           e == [entry[s] EXCEPT !.blockCreatedByThisParent = TRUE]
           entries == [entry EXCEPT ![s] = e]
<1>1. /\ TypeOK /\ RecordForm /\ LeaseInv(a) /\ PinInv(s) /\ EntryInv(s) /\ LeaseTurnInv(s)
      /\ TransferInv(s) /\ WorkInv(s) /\ turn[s] \in TurnType /\ a \in Adapters
  BY Context
<1>2. turn[s].pc = "invalidate" /\ Active(s) /\ Owner(s) /\ pin[a] = s
  BY <1>1 DEF Invalidate, At, Active, LeaseTurnInv, Holding, PinInv, Pinning
<1>3. /\ \A y \in Mates(s) \ {s} : ~Active(y)
      /\ ~entry[s].stateError /\ ~entry[s].channelTransferInvalidated
  BY <1>2, MatesIdle
<1>4. /\ entry \in [Sessions -> EntryType] /\ liveBlock[a] \in BOOLEAN
      /\ entry[s] \in EntryType
      /\ rec \in [status: {"absent", "blocked", "ready"},
                  conversationId: Conversations \cup {"none"}]
  BY <1>1 DEF TypeOK
<1>5. UNCHANGED <<outbox, lock, owns, closing, conv, orphans>>
  BY DEF Invalidate
<1>6. rec' = rec \/ rec' = [rec EXCEPT !.status = "blocked"]
  BY Zenon DEF Invalidate, WriteRecord
<1>7. RecordForm'
  BY <1>1, <1>4, <1>6 DEF RecordForm
<1>8. CASE UNCHANGED prov /\ Refuse(s, turn[s], entry, liveBlock[a])
  <2>1. entry' = entry /\ SameTurns(s)
    BY <1>1, <1>2, <1>4, <1>8, MatesIdle, RefuseEffect
  <2>2. \A y \in Mates(s) \ {s} : Kept(y)
    BY <1>8, <2>1 DEF Kept, SameTurns, Mates, Running
  <2>3. RefusedEntry(s, entry[s]) BY DEF RefusedEntry
  <2>4. QED
    BY <1>1, <1>2, <1>4, <1>5, <1>7, <1>8, <2>2, <2>3, RefuseKeeps DEF Work, Owner
<1>9. CASE UNCHANGED prov /\ Refuse(s, turn[s], entries, TRUE)
  <2>1. e \in EntryType BY <1>4, EntryTypes
  <2>2. /\ entries \in [Sessions -> EntryType] /\ entries[s] = e
        /\ \A y \in Sessions \ {s} : entries[y] = entry[y]
    BY <1>4, <2>1
  <2>3. RefusedEntry(s, entries[s])
    BY <1>2, <1>4, <2>2 DEF RefusedEntry, EntryType
  <2> HIDE DEF entries
  <2>4. entry' = entries /\ SameTurns(s)
    BY <1>1, <1>2, <1>9, <2>2, MatesIdle, RefuseEffect
  <2>5. \A y \in Mates(s) \ {s} : Kept(y)
    BY <1>9, <2>2, <2>4 DEF Kept, SameTurns, Mates, Running
  <2>6. \A y \in Sessions : AdapterOf[y] # a => entries[y] = entry[y] BY <2>2
  <2>7. QED
    BY <1>1, <1>2, <1>5, <1>7, <1>9, <2>2, <2>3, <2>5, <2>6, RefuseKeeps DEF Work, Owner
<1>10. CASE /\ WriteRecord([rec EXCEPT !.status = "blocked"], TRUE)
            /\ entry' = [entry EXCEPT ![s] = [e EXCEPT !.providerEverStarted = TRUE]]
            /\ liveBlock' = [liveBlock EXCEPT ![a] = TRUE]
            /\ prov' = [prov EXCEPT ![s] = "live"] \/ UNCHANGED prov
            /\ Goto(s, "provider")
            /\ UNCHANGED pin
  <2>1. rec'.status = "blocked"
    BY <1>4, <1>10 DEF WriteRecord
  <2>2. Moves(s, "provider") BY <1>1, <1>10, GotoMoves DEF Places
  <2>3. /\ entry'[s] = [entry[s] EXCEPT !.blockCreatedByThisParent = TRUE,
                                        !.providerEverStarted = TRUE]
        /\ SameEntries(s)
    BY <1>4, <1>10 DEF SameEntries, EntryType
  <2>4. /\ entry'[s].bound = entry[s].bound
        /\ entry'[s].needsReplacement = entry[s].needsReplacement
        /\ entry'[s].providerEverStarted /\ entry'[s].blockCreatedByThisParent
        /\ entry'[s].safeToTransfer = entry[s].safeToTransfer
        /\ ~entry'[s].channelTransferInvalidated /\ ~entry'[s].stateError
    BY <1>3, <1>4, <2>3 DEF EntryType
  <2>5. \A y \in Sessions \ {s} : Same(y)
    BY <1>1, <1>5, <1>10, <2>2, <2>3 DEF Same, Moves, SameTurns, SameEntries, TypeOK
  <2>6. \A y \in Mates(s) \ {s} : Kept(y) /\ ~Active(y)
    BY <1>3, <2>5, SameIsKept DEF Mates
  <2>7. liveBlock'[a] /\ \A b \in Adapters \ {a} : liveBlock'[b] = liveBlock[b]
    BY <1>1, <1>10 DEF TypeOK
  <2>8. LocalTo(a)
    BY <1>2, <1>5, <1>10, <2>5, <2>7 DEF LocalTo, Owner
  <2>9. LeaseInv(a)'
    BY <1>1, <1>2, <1>5, <1>10, <2>2 DEF LeaseInv, Moves, Active, Owner
  <2>10. PinInv(s)' BY <1>2, <1>10, <2>4 DEF PinInv
  <2>11. EntryInv(s)'
    BY <1>2, <1>5, <2>2, <2>4 DEF EntryInv, Moves, Started, Owner
  <2>12. LeaseTurnInv(s)'
    BY <1>1, <1>2, <1>5, <2>2, <2>6 DEF LeaseTurnInv, Moves, Started, Owner, Active, Kept
  <2>13. TransferInv(s)'
    BY <1>1, <1>2, <2>2, <2>4, <2>6
       DEF TransferInv, Moves, Taking, Preflight, Started, Active, Kept
  <2>14. WorkInv(s)'
    BY <1>1, <1>2, <2>2, <2>4 DEF WorkInv, Moves, Started
  <2>15. RecordInv(s)'
    BY <2>1, <2>2 DEF RecordInv, Moves, Work, Staged
  <2>16. ASSUME NEW y \in Mates(s) PROVE NeedsInv(y)'
    <3>1. NeedsInv(y) BY DEF IInv, SessionInv, Mates
    <3>2. entry'[y].needsReplacement = entry[y].needsReplacement
          /\ (entry[y].channelTransferInvalidated => entry'[y].channelTransferInvalidated)
      BY <1>3, <2>4, <2>6 DEF Kept, Mates
    <3>3. QED BY <1>10, <2>2, <3>1, <3>2 DEF NeedsInv, Active, SameTurns, Moves, Mates
  <2>17. Owner(s)' BY <1>2, <1>5 DEF Owner
  <2>18. QED
    BY <1>2, <1>7, <1>10, <2>6, <2>8, <2>9, <2>10, <2>11, <2>12, <2>13, <2>14, <2>15, <2>16,
       <2>17, OneSession DEF TurnInv
<1>11. QED BY <1>8, <1>9, <1>10, Zenon DEF Invalidate

LEMMA ReleaseLeaseKeeps ==
  ASSUME IInv, TypeOK', NEW s \in Sessions, ReleaseLease(s)
  PROVE  IInv'
<1> DEFINE a == AdapterOf[s]
<1>1. /\ TypeOK /\ RecordForm /\ LeaseInv(a) /\ PinInv(s) /\ EntryInv(s) /\ LeaseTurnInv(s)
      /\ turn[s] \in TurnType /\ a \in Adapters /\ a # "free"
  BY Context, Names
<1>2. /\ turn[s].pc = "releasing" /\ Active(s) /\ Owner(s) /\ pin[a] = s
      /\ \A x \in Mates(s) : ~Started(x)
      /\ turn[s].transferFrom = "none"
  BY <1>1 DEF ReleaseLease, At, Active, LeaseTurnInv, Holding, PinInv, Pinning
<1>3. /\ \A y \in Mates(s) \ {s} : ~Active(y)
      /\ ~entry[s].stateError /\ ~entry[s].channelTransferInvalidated /\ ~BusyElsewhere(s)
  BY <1>2, MatesIdle
<1>4. /\ entry[s] \in EntryType /\ entry'[s] \in EntryType /\ liveBlock[a] \in BOOLEAN
  BY <1>1 DEF TypeOK
<1>5. /\ Unwind(s, turn[s], entry'[s], liveBlock[a])
      /\ UNCHANGED <<durable, closing, providers>>
  BY DEF ReleaseLease
<1>6. /\ SameTurns(s) /\ SameElsewhere(s) /\ ~liveBlock'[a] /\ Unwound(s, turn[s], entry'[s])
  BY <1>1, <1>3, <1>4, <1>5, UnwindEffect
<1>7. /\ SameEntries(s)
      /\ \A b \in Adapters \ {a} : owns'[b] = owns[b]
      /\ lock' \in {a, "free"}
      /\ entry'[s].needsReplacement = entry[s].needsReplacement
      /\ entry'[s].providerEverStarted = entry[s].providerEverStarted
      /\ entry'[s].blockCreatedByThisParent = entry[s].blockCreatedByThisParent
      /\ entry'[s].safeToTransfer = entry[s].safeToTransfer
      /\ ~entry'[s].channelTransferInvalidated
      /\ \/ lock' = "free" /\ ~owns'[a] /\ ~entry'[s].stateError
         \/ owns'[a] /\ entry'[s].stateError
  <2>1. CASE /\ lock' = IF lock = a THEN "free" ELSE lock
             /\ owns' = [owns EXCEPT ![a] = FALSE]
             /\ entry' = [entry EXCEPT ![s].bound = FALSE]
    <3>1. entry'[s] = [entry[s] EXCEPT !.bound = FALSE] /\ SameEntries(s)
      BY <1>1, <2>1 DEF TypeOK, SameEntries
    <3>2. (\A b \in Adapters \ {a} : owns'[b] = owns[b]) /\ ~owns'[a]
      <4>1. owns \in [Adapters -> BOOLEAN] BY <1>1 DEF TypeOK
      <4>2. QED BY <1>1, <2>1, <4>1
    <3>3. lock' = "free"
      BY <1>2, <2>1 DEF Owner
    <3>4. QED BY <1>3, <1>4, <3>1, <3>2, <3>3 DEF EntryType
  <2>2. CASE /\ lock' \in {lock, "free"} /\ UNCHANGED owns
             /\ entry' = [entry EXCEPT ![s].stateError = TRUE]
    <3>1. entry'[s] = [entry[s] EXCEPT !.stateError = TRUE] /\ SameEntries(s)
      BY <1>1, <2>2 DEF TypeOK, SameEntries
    <3>2. QED BY <1>2, <1>3, <1>4, <2>2, <3>1 DEF EntryType, Owner
  <2>3. QED BY <2>1, <2>2 DEF ReleaseLease
<1>8. \A y \in Sessions \ {s} : Same(y)
  BY <1>5, <1>6, <1>7 DEF Same, SameTurns, SameEntries, providers
<1>9. LocalTo(a)
  BY <1>2, <1>6, <1>7, <1>8 DEF LocalTo, SameElsewhere, Owner
<1>10. \A y \in Mates(s) \ {s} : Kept(y) /\ ~Active(y)
  BY <1>3, <1>8, SameIsKept DEF Mates
<1>11. pin'[a] = s \/ (pin'[a] = "none" /\ ~entry'[s].blockCreatedByThisParent
                                        /\ ~entry'[s].stateError)
  BY <1>2, <1>6 DEF Unwound
<1>12. LeaseInv(a)'
  BY <1>1, <1>2, <1>6, <1>7, <1>11 DEF LeaseInv
<1>13. prov[s] = "none" /\ prov'[s] = "none" /\ ~entry[s].needsReplacement
  BY <1>1, <1>2, <1>5 DEF EntryInv, Mates, providers
<1>14. PinInv(s)'
  <2>1. \A x \in Mates(s) : ~Started(x)'
    BY <1>2, <1>7, <1>10 DEF Kept, Started
  <2>2. turn'[s].pc = "idle" BY <1>6 DEF Unwound
  <2>3. QED
    BY <1>7, <1>11, <1>13, <2>1, <2>2
       DEF PinInv, Pinning, Work, Running, Flagged, Active, Mates
<1>15. EntryInv(s)'
  BY <1>1, <1>2, <1>7, <1>13 DEF EntryInv, Started, Running, Mates
<1>16. TurnInv(s)'
  BY <1>6 DEF Unwound, TurnInv, LeaseTurnInv, TransferInv, WorkInv, RecordInv, Holding,
              Taking, Preflight, Work, Staged, Active
<1>17. ASSUME NEW y \in Mates(s) PROVE NeedsInv(y)'
  <2>1. ~entry[y].needsReplacement
    BY <1>2 DEF IInv, SessionInv, EntryInv, Mates
  <2>2. ~entry'[y].needsReplacement
    BY <1>7, <1>10, <2>1 DEF Kept
  <2>3. QED BY <2>2 DEF NeedsInv
<1>18. RecordForm' /\ (Started(s)' => Started(s))
  BY <1>1, <1>5, <1>7 DEF RecordForm, durable, Started
<1>19. \A y \in Mates(s) \ {s} : ~Started(y) BY <1>2
<1>20. \A y \in Mates(s) \ {s} : pin[a] = y => ~Running(y) /\ Started(y)
  BY <1>2
<1>21. QED
  BY <1>9, <1>10, <1>12, <1>14, <1>15, <1>16, <1>17, <1>18, <1>19, <1>20, OneSession

-----------------------------------------------------------------------------
(***************************************************************************)
(* The turn proper.                                                        *)
(***************************************************************************)
LEMMA FailTurnKeeps ==
  ASSUME IInv, TypeOK', RecordForm', NEW s \in Sessions, turn[s].pc \in Work, FailTurn(s),
         lock' = lock, conv' = conv, \A x \in Sessions \ {s} : prov'[x] = prov[x]
  PROVE  IInv'
<1>1. /\ turn[s] \in TurnType /\ entry[s] \in EntryType
      /\ liveBlock[AdapterOf[s]] \in BOOLEAN
  BY Names DEF IInv, TypeOK
<1>2. PICK safe \in BOOLEAN : ~safe /\ safe = FALSE
  OBVIOUS
<1>3. EndTurn(s, turn[s], entry[s], safe, liveBlock[AdapterOf[s]])
  BY <1>2, Zenon DEF FailTurn
<1>4. QED BY <1>1, <1>2, <1>3, FailKeeps

LEMMA WorkGoesOn ==
  ASSUME IInv, TypeOK', RecordForm', NEW s \in Sessions, turn[s].pc \in Work,
         NEW pc \in Work, Moves(s, pc),
         UNCHANGED <<lock, owns, pin, liveBlock, entry>>,
         \A x \in Sessions \ {s} : conv'[x] = conv[x] /\ prov'[x] = prov[x],
         Running(s)' => Running(s) /\ pc \in {"provider", "retiring"},
         RecordInv(s)'
  PROVE  IInv'
<1>1. /\ PinInv(s) /\ EntryInv(s) /\ LeaseTurnInv(s) /\ TransferInv(s) /\ WorkInv(s)
  BY Context
<1>2. Active(s) /\ Owner(s) /\ pin[AdapterOf[s]] = s /\ Started(s)
  BY <1>1 DEF Active, Work, LeaseTurnInv, Holding, PinInv, Pinning, WorkInv
<1>3. turn'[s].pc = pc /\ pc # "idle" BY DEF Moves, Work
<1>4. ~entry[s].stateError /\ ~entry[s].channelTransferInvalidated BY <1>2, MatesIdle
<1>5. PinInv(s)' BY <1>2, <1>4 DEF PinInv
<1>6. EntryInv(s)'
  BY <1>1, <1>2, <1>3, <1>4 DEF EntryInv, Started, Owner
<1>7. LeaseTurnInv(s)'
  BY <1>1, <1>2, <1>3 DEF LeaseTurnInv, Moves, Started, Owner, Active, Mates, Work
<1>8. TransferInv(s)'
  BY <1>1, <1>2, <1>3
     DEF TransferInv, Moves, Taking, Preflight, Work, Active, Started, Mates
<1>9. WorkInv(s)'
  BY <1>1, <1>3 DEF WorkInv, Started, Work
<1>10. SameTurns(s) /\ turn'[s].transferFrom = turn[s].transferFrom
       /\ turn'[s].transferCommitted = turn[s].transferCommitted
  BY DEF Moves
<1>11. \A x \in Mates(s) \ {s} : (prov'[x] = "none" <=> prov[x] = "none")
                                 /\ (Running(x)' <=> Running(x))
  BY DEF Running, Mates
<1>12. QED
  BY <1>2, <1>3, <1>5, <1>6, <1>7, <1>8, <1>9, <1>10, <1>11, Advance DEF TurnInv, Owner

LEMMA ProviderAnswersKeeps ==
  ASSUME IInv, TypeOK', NEW s \in Sessions, ProviderAnswers(s)
  PROVE  IInv'
<1>1. TypeOK /\ RecordForm /\ RecordInv(s) BY Context
<1>2. /\ turn[s].pc = "provider" /\ prov[s] = "live"
      /\ Goto(s, "retiring")
      /\ prov' = [prov EXCEPT ![s] = "dying"]
      /\ UNCHANGED <<durable, lock, owns, pin, liveBlock, closing, entry, orphans>>
  BY DEF ProviderAnswers, At
<1>3. PICK c \in Conversations : conv' = [conv EXCEPT ![s] = c]
  <2>1. conv[s] = "none" \/ conv[s] \in Conversations BY <1>1 DEF TypeOK
  <2>2. (IF conv[s] = "none" THEN Fresh ELSE {conv[s]}) \subseteq Conversations
    BY <2>1 DEF Fresh
  <2>3. QED BY <2>2, Zenon DEF ProviderAnswers
<1>4. /\ conv'[s] # "none"
      /\ \A x \in Sessions \ {s} : conv'[x] = conv[x] /\ prov'[x] = prov[x]
  BY <1>1, <1>2, <1>3, Names DEF TypeOK
<1>5. Moves(s, "retiring") BY <1>1, <1>2, GotoMoves DEF Places
<1>6. RecordInv(s)'
  BY <1>1, <1>2, <1>4, <1>5 DEF RecordInv, Moves, Work, Staged, durable
<1>7. Running(s) /\ RecordForm' BY <1>1, <1>2 DEF Running, RecordForm, durable
<1>8. turn[s].pc \in Work /\ "retiring" \in Work BY <1>2 DEF Work
<1>9. UNCHANGED <<lock, owns, pin, liveBlock, entry>> BY <1>2
<1>10. QED BY <1>4, <1>5, <1>6, <1>7, <1>8, <1>9, WorkGoesOn

LEMMA ProviderFailsKeeps ==
  ASSUME IInv, TypeOK', NEW s \in Sessions, ProviderFails(s)
  PROVE  IInv'
<1>1. TypeOK /\ RecordForm BY Context
<1>2. turn[s].pc \in Work BY DEF ProviderFails, At, Work
<1>3. \A x \in Sessions \ {s} : prov'[x] = prov[x]
  BY <1>1 DEF ProviderFails, TypeOK
<1>4. RecordForm' BY <1>1 DEF ProviderFails, RecordForm, durable
<1>5. QED BY <1>2, <1>3, <1>4, FailTurnKeeps DEF ProviderFails

LEMMA RetirementKeeps ==
  ASSUME IInv, TypeOK', NEW s \in Sessions, Retirement(s)
  PROVE  IInv'
<1>1. TypeOK /\ RecordForm /\ RecordInv(s) BY Context
<1>2. turn[s].pc = "retiring" /\ UNCHANGED <<durable, lock, providers>>
  BY DEF Retirement, At
<1>3. RecordForm' /\ \A x \in Sessions \ {s} : conv'[x] = conv[x] /\ prov'[x] = prov[x]
  BY <1>1, <1>2 DEF RecordForm, durable, providers
<1>4. turn[s].pc \in Work /\ "staging" \in Work BY <1>2 DEF Work
<1>5. CASE prov[s] = "closed" /\ ~turn[s].aborted
  <2>1. Goto(s, "staging") /\ UNCHANGED <<owns, pin, liveBlock, closing, entry>>
    BY <1>5 DEF Retirement
  <2>2. Moves(s, "staging") BY <1>1, <2>1, GotoMoves DEF Places
  <2>3. RecordInv(s)'
    BY <1>1, <1>2, <1>5, <2>2 DEF RecordInv, Moves, Work, Staged, durable, providers
  <2>4. ~Running(s)' BY <1>2, <1>5 DEF Running, providers
  <2>5. QED BY <1>2, <1>3, <1>4, <2>1, <2>2, <2>3, <2>4, WorkGoesOn
<1>6. CASE ~(prov[s] = "closed" /\ ~turn[s].aborted)
  <2>1. FailTurn(s) BY <1>6 DEF Retirement
  <2>2. QED BY <1>2, <1>3, <1>4, <2>1, FailTurnKeeps DEF providers
<1>7. QED BY <1>5, <1>6

LEMMA StageCheckpointKeeps ==
  ASSUME IInv, TypeOK', NEW s \in Sessions, StageCheckpoint(s)
  PROVE  IInv'
<1> DEFINE staged == [rec EXCEPT !.conversationId = conv[s]]
<1>1. TypeOK /\ RecordForm /\ RecordInv(s) BY Context
<1>2. turn[s].pc = "staging" /\ UNCHANGED <<outbox, lock, providers>>
  BY DEF StageCheckpoint, At
<1>3. \A x \in Sessions \ {s} : conv'[x] = conv[x] /\ prov'[x] = prov[x]
  BY <1>2 DEF providers
<1>4. turn[s].pc \in Work /\ "beginning" \in Work BY <1>2 DEF Work
<1>5. rec.status = "blocked" /\ conv[s] # "none" /\ prov[s] = "closed"
  BY <1>1, <1>2 DEF RecordInv, Work, Staged
<1>6. rec' = rec \/ rec' = staged
  BY Zenon DEF StageCheckpoint, WriteRecord
<1>7. staged.status = "blocked" /\ staged.conversationId = conv[s]
  BY <1>1, <1>5 DEF TypeOK
<1>8. RecordForm' BY <1>1, <1>5, <1>6, <1>7 DEF RecordForm
<1>9. CASE /\ rec' = staged
           /\ Goto(s, "beginning") /\ UNCHANGED <<owns, pin, liveBlock, closing, entry>>
  <2>1. Moves(s, "beginning") BY <1>1, <1>9, GotoMoves DEF Places
  <2>2. RecordInv(s)'
    BY <1>2, <1>5, <1>7, <1>9, <2>1 DEF RecordInv, Moves, Work, Staged, providers
  <2>3. ~Running(s)' BY <1>2, <1>5 DEF Running, providers
  <2>4. QED BY <1>2, <1>3, <1>4, <1>8, <1>9, <2>1, <2>2, <2>3, WorkGoesOn
<1>10. CASE FailTurn(s)
  BY <1>2, <1>3, <1>4, <1>8, <1>10, FailTurnKeeps DEF providers
<1>11. QED BY <1>9, <1>10, Zenon DEF StageCheckpoint, WriteRecord

LEMMA BeginDeliveryKeeps ==
  ASSUME IInv, TypeOK', NEW s \in Sessions, BeginDelivery(s)
  PROVE  IInv'
<1>1. TypeOK /\ RecordForm /\ RecordInv(s) BY Context
<1>2. turn[s].pc = "beginning" /\ UNCHANGED <<rec, lock, providers>>
  BY DEF BeginDelivery, At
<1>3. RecordForm' /\ \A x \in Sessions \ {s} : conv'[x] = conv[x] /\ prov'[x] = prov[x]
  BY <1>1, <1>2 DEF RecordForm, providers
<1>4. turn[s].pc \in Work /\ "publishing" \in Work BY <1>2 DEF Work
<1>5. prov[s] = "closed" BY <1>1, <1>2 DEF RecordInv, Staged
<1>6. CASE Goto(s, "publishing") /\ UNCHANGED <<owns, pin, liveBlock, closing, entry>>
  <2>1. Moves(s, "publishing") BY <1>1, <1>6, GotoMoves DEF Places
  <2>2. RecordInv(s)'
    BY <1>1, <1>2, <2>1 DEF RecordInv, Moves, Work, Staged, providers
  <2>3. ~Running(s)' BY <1>2, <1>5 DEF Running, providers
  <2>4. QED BY <1>2, <1>3, <1>4, <1>6, <2>1, <2>2, <2>3, WorkGoesOn
<1>7. CASE FailTurn(s)
  BY <1>2, <1>3, <1>4, <1>7, FailTurnKeeps DEF providers
<1>8. QED BY <1>6, <1>7, Zenon DEF BeginDelivery

LEMMA PublishKeeps ==
  ASSUME IInv, TypeOK', NEW s \in Sessions, Publish(s)
  PROVE  IInv'
<1>1. TypeOK /\ RecordForm /\ RecordInv(s) /\ turn[s] \in TurnType BY Context
<1>2. turn[s].pc = "publishing"
      /\ UNCHANGED <<durable, lock, owns, pin, liveBlock, closing, entry, providers>>
  BY DEF Publish, At
<1>3. PICK status : turn' = [turn EXCEPT ![s].publication = status, ![s].pc = "updating"]
  BY DEF Publish
<1>4. turn'[s] = [turn[s] EXCEPT !.publication = status, !.pc = "updating"] /\ SameTurns(s)
  BY <1>1, <1>3 DEF TypeOK, SameTurns
<1>5. Moves(s, "updating") BY <1>1, <1>4 DEF Moves, TurnType
<1>6. RecordForm' /\ \A x \in Sessions \ {s} : conv'[x] = conv[x] /\ prov'[x] = prov[x]
  BY <1>1, <1>2 DEF RecordForm, durable, providers
<1>7. turn[s].pc \in Work /\ "updating" \in Work BY <1>2 DEF Work
<1>8. RecordInv(s)'
  BY <1>1, <1>2, <1>5 DEF RecordInv, Moves, Work, Staged, durable, providers
<1>9. ~Running(s)' BY <1>1, <1>2 DEF Running, providers, RecordInv, Staged
<1>10. QED BY <1>2, <1>5, <1>6, <1>7, <1>8, <1>9, WorkGoesOn

LEMMA UpdateDeliveryKeeps ==
  ASSUME IInv, TypeOK', NEW s \in Sessions, UpdateDelivery(s)
  PROVE  IInv'
<1>1. TypeOK /\ RecordForm /\ RecordInv(s) BY Context
<1>2. turn[s].pc = "updating" /\ UNCHANGED <<rec, lock, providers>>
  BY DEF UpdateDelivery, At
<1>3. RecordForm' /\ \A x \in Sessions \ {s} : conv'[x] = conv[x] /\ prov'[x] = prov[x]
  BY <1>1, <1>2 DEF RecordForm, providers
<1>4. turn[s].pc \in Work /\ "saving" \in Work BY <1>2 DEF Work
<1>5. prov[s] = "closed" BY <1>1, <1>2 DEF RecordInv, Staged
<1>6. CASE Goto(s, "saving") /\ UNCHANGED <<owns, pin, liveBlock, closing, entry>>
  <2>1. Moves(s, "saving") BY <1>1, <1>6, GotoMoves DEF Places
  <2>2. RecordInv(s)'
    BY <1>1, <1>2, <2>1 DEF RecordInv, Moves, Work, Staged, providers
  <2>3. ~Running(s)' BY <1>2, <1>5 DEF Running, providers
  <2>4. QED BY <1>2, <1>3, <1>4, <1>6, <2>1, <2>2, <2>3, WorkGoesOn
<1>7. CASE FailTurn(s)
  BY <1>2, <1>3, <1>4, <1>7, FailTurnKeeps DEF providers
<1>8. QED BY <1>6, <1>7, Zenon DEF UpdateDelivery

LEMMA SaveReadyKeeps ==
  ASSUME IInv, TypeOK', NEW s \in Sessions, SaveReady(s)
  PROVE  IInv'
<1> DEFINE a == AdapterOf[s]
           ready == [status |-> "ready", conversationId |-> conv[s]]
           e == [entry[s] EXCEPT !.blockCreatedByThisParent = FALSE, !.safeToTransfer = TRUE]
<1>1. /\ TypeOK /\ RecordForm /\ RecordInv(s) /\ LeaseInv(a) /\ PinInv(s) /\ EntryInv(s)
      /\ LeaseTurnInv(s) /\ TransferInv(s) /\ WorkInv(s) /\ turn[s] \in TurnType
      /\ a \in Adapters
  BY Context
<1>2. turn[s].pc = "saving" /\ UNCHANGED <<outbox, lock, providers>>
  BY DEF SaveReady, At
<1>3. \A x \in Sessions \ {s} : conv'[x] = conv[x] /\ prov'[x] = prov[x]
  BY <1>2 DEF providers
<1>4. turn[s].pc \in Work BY <1>2 DEF Work
<1>5. prov[s] = "closed" /\ conv[s] # "none"
  BY <1>1, <1>2 DEF RecordInv, Staged, Work
<1>6. rec' = rec \/ rec' = ready
  BY Zenon DEF SaveReady, WriteRecord
<1>7. RecordForm' BY <1>1, <1>5, <1>6 DEF RecordForm
<1>8. CASE FailTurn(s)
  BY <1>2, <1>3, <1>4, <1>7, <1>8, FailTurnKeeps DEF providers
<1>9. CASE EndTurn(s, turn[s], e, TRUE, FALSE)
  <2>1. Active(s) /\ Owner(s) /\ pin[a] = s /\ Started(s) /\ ~entry[s].needsReplacement
    BY <1>1, <1>2 DEF Active, Work, LeaseTurnInv, Holding, PinInv, Pinning, WorkInv
  <2>2. /\ \A y \in Mates(s) \ {s} : ~Active(y)
        /\ ~entry[s].stateError /\ ~entry[s].channelTransferInvalidated
    BY <2>1, MatesIdle
  <2>3. entry[s] \in EntryType BY <1>1 DEF TypeOK
  <2>4. e \in EntryType /\ e.needsReplacement = entry[s].needsReplacement
        /\ e.providerEverStarted = entry[s].providerEverStarted
        /\ e.channelTransferInvalidated = entry[s].channelTransferInvalidated
        /\ e.stateError = entry[s].stateError
    BY <2>3 DEF EntryType
  <2> HIDE DEF e
  <2>5. PICK safe \in BOOLEAN, live \in BOOLEAN : safe /\ EndTurn(s, turn[s], e, safe, live)
    BY <1>9, Zenon
  <2>6. /\ turn'[s].pc = "idle" /\ SameTurns(s) /\ SameEntries(s)
        /\ ~liveBlock'[a]
        /\ \A b \in Adapters \ {a} : liveBlock'[b] = liveBlock[b]
        /\ UNCHANGED <<owns, pin>>
        /\ entry'[s].needsReplacement <=> e.needsReplacement
        /\ entry'[s].providerEverStarted = e.providerEverStarted
        /\ entry'[s].channelTransferInvalidated = e.channelTransferInvalidated
        /\ entry'[s].stateError = e.stateError
    <3>1. Ended(s, e) /\ (entry'[s].needsReplacement <=> e.needsReplacement \/ ~safe)
      BY <1>1, <2>1, <2>4, <2>5, EndTurnEffect
    <3>2. QED BY <2>5, <3>1 DEF Ended
  <2>7. \A y \in Sessions \ {s} : Same(y)
    BY <1>3, <2>6 DEF Same, SameTurns, SameEntries
  <2>8. LocalTo(a)
    BY <1>2, <2>1, <2>6, <2>7 DEF LocalTo, Owner
  <2>9. \A y \in Mates(s) \ {s} : Kept(y) /\ ~Active(y)
    BY <2>2, <2>7, SameIsKept DEF Mates
  <2>10. Owner(s)' BY <1>2, <2>1, <2>6 DEF Owner
  <2>11. LeaseInv(a)' BY <1>1, <2>6, <2>10 DEF LeaseInv, Owner
  <2>12. PinInv(s)'
    BY <2>1, <2>2, <2>4, <2>6 DEF PinInv
  <2>13. ~Running(s)' BY <1>2, <1>5 DEF Running, providers
  <2>14. EntryInv(s)'
    BY <2>1, <2>2, <2>4, <2>6, <2>10, <2>13 DEF EntryInv, Started
  <2>15. TurnInv(s)'
    BY <2>6 DEF TurnInv, LeaseTurnInv, TransferInv, WorkInv, RecordInv, Holding, Taking,
                Preflight, Work, Staged, Active
  <2>16. ASSUME NEW x \in Mates(s) PROVE NeedsInv(x)'
    <3>1. CASE x = s BY <2>1, <2>4, <2>6, <3>1 DEF NeedsInv
    <3>2. CASE x # s
      <4>1. ~(turn[s].transferFrom = x /\ ~turn[s].transferCommitted)
        BY <1>1, <1>4, Names DEF TransferInv, Mates
      <4>2. entry'[x] = entry[x] BY <2>6, <3>2 DEF SameEntries, Mates
      <4>3. NeedsInv(x) BY DEF IInv, SessionInv, Mates
      <4>4. QED BY <2>1, <2>2, <2>6, <4>1, <4>2, <4>3 DEF NeedsInv, Mates
    <3>3. QED BY <3>1, <3>2
  <2>17. QED
    BY <1>7, <2>1, <2>6, <2>8, <2>9, <2>10, <2>11, <2>12, <2>14, <2>15, <2>16, OneSession
<1>10. QED BY <1>8, <1>9, Zenon DEF SaveReady

-----------------------------------------------------------------------------
(***************************************************************************)
(* The world around a turn.                                                *)
(***************************************************************************)
\* A step that changes no session in what the invariant says of it, but for
\* children that are told to stop or exit
Quiet(x) ==
  /\ turn'[x].pc = turn[x].pc
  /\ Active(x) =>
       /\ turn'[x].ownershipPreviouslyHeld = turn[x].ownershipPreviouslyHeld
       /\ turn'[x].existing = turn[x].existing
       /\ turn'[x].transferFrom = turn[x].transferFrom
       /\ turn'[x].transferCommitted = turn[x].transferCommitted
  /\ entry'[x].bound = entry[x].bound
  /\ entry'[x].needsReplacement = entry[x].needsReplacement
  /\ entry'[x].providerEverStarted = entry[x].providerEverStarted
  /\ entry'[x].blockCreatedByThisParent = entry[x].blockCreatedByThisParent
  /\ entry'[x].safeToTransfer = entry[x].safeToTransfer
  /\ entry'[x].channelTransferInvalidated = entry[x].channelTransferInvalidated
  /\ entry'[x].stateError = entry[x].stateError
  /\ prov'[x] = prov[x] \/ (Running(x) /\ prov'[x] \in {"dying", "closed"})
  /\ conv'[x] = conv[x]

\* The session the channel is pinned to has nothing to lose by it.
Unneeded(x) ==
  /\ ~Active(x) /\ ~Running(x) /\ ~entry[x].needsReplacement
  /\ ~entry[x].blockCreatedByThisParent /\ ~entry[x].stateError

LEMMA QuietKeeps ==
  ASSUME IInv, TypeOK', UNCHANGED <<rec, lock, owns>>,
         \A x \in Sessions : Quiet(x),
         \A a \in Adapters : liveBlock'[a] => liveBlock[a],
         \A a \in Adapters : \/ pin'[a] = pin[a]
                             \/ pin'[a] = "none" /\ pin[a] \in Sessions /\ Unneeded(pin[a])
  PROVE  IInv'
<1>1. RecordForm' BY DEF IInv, RecordForm
<1>2. \A x \in Sessions : /\ Running(x)' => Running(x)
                          /\ Active(x)' <=> Active(x)
                          /\ Started(x)' <=> Started(x)
                          /\ Flagged(x)' <=> Flagged(x)
                          /\ Owner(x)' <=> Owner(x)
                          /\ prov[x] = "none" => prov'[x] = "none"
                          /\ prov[x] = "closed" => prov'[x] = "closed"
  BY DEF Quiet, Running, Active, Started, Flagged, Owner
<1>3. ASSUME NEW a \in Adapters PROVE LeaseInv(a)'
  <2>1. LeaseInv(a) BY DEF IInv
  <2>2. \A s \in Sessions : entry'[s].stateError = entry[s].stateError BY DEF Quiet
  <2>3. QED BY <1>2, <2>1, <2>2 DEF LeaseInv
<1>4. ASSUME NEW s \in Sessions PROVE SessionInv(s)'
  <2> DEFINE a == AdapterOf[s]
  <2>1. /\ AloneInv(s) /\ PinInv(s) /\ NeedsInv(s) /\ EntryInv(s)
        /\ LeaseTurnInv(s) /\ TransferInv(s) /\ WorkInv(s) /\ RecordInv(s)
        /\ a \in Adapters /\ s # "none"
    BY Context, Names
  <2>2. Mates(s) \subseteq Sessions BY DEF Mates
  <2>3. AloneInv(s)' BY <1>2, <2>1, <2>2 DEF AloneInv, Mates
  <2>4. pin'[a] = pin[a] \/ (pin'[a] = "none" /\ pin[a] \in Sessions /\ Unneeded(pin[a]))
    BY <2>1
  <2>5. PinInv(s)'
    <3>1. turn[s].pc \in Pinning \/ Running(s) \/ Flagged(s) => pin'[a] = s
      BY <2>1, <2>4 DEF PinInv, Unneeded, Flagged, Active, Pinning, Work
    <3>2. entry[s].stateError => pin'[a] = s
      BY <2>1, <2>4 DEF PinInv, Unneeded
    <3>3. turn'[s].pc = turn[s].pc /\ entry'[s].stateError = entry[s].stateError
      BY DEF Quiet
    <3>4. QED BY <1>2, <2>1, <2>2, <3>1, <3>2, <3>3 DEF PinInv, Mates
  <2>6. NeedsInv(s)'
    <3>1. CASE pin[a] = s
      BY <2>4, <3>1 DEF NeedsInv, Unneeded, Quiet
    <3>2. ASSUME NEW t \in Mates(s) \ {s}, Active(t), pin[a] = t, turn[t].transferFrom = s,
                 ~turn[t].transferCommitted
          PROVE  NeedsInv(s)'
      <4>1. t \in Sessions /\ pin'[a] = t BY <2>2, <2>4, <3>2 DEF Unneeded
      <4>2. Active(t)' /\ turn'[t].transferFrom = s /\ ~turn'[t].transferCommitted
        BY <1>2, <3>2, <4>1 DEF Quiet
      <4>3. QED BY <3>2, <4>1, <4>2 DEF NeedsInv, Mates
    <3>3. CASE ~(entry[s].needsReplacement /\ ~entry[s].channelTransferInvalidated)
      BY <3>3 DEF NeedsInv, Quiet
    <3>4. QED BY <2>1, <3>1, <3>2, <3>3 DEF NeedsInv
  <2>7. EntryInv(s)'
    BY <1>2, <2>1 DEF EntryInv, Quiet
  <2>8. LeaseTurnInv(s)'
    BY <1>2, <2>1, <2>2 DEF LeaseTurnInv, Quiet, Mates, Active, Holding, Work
  <2>9. TransferInv(s)'
    <3>1. CASE ~Active(s)
      BY <1>2, <3>1 DEF TransferInv, Taking, Preflight, Work, Active
    <3>2. CASE Active(s)
      <4>1. /\ turn'[s].pc = turn[s].pc /\ turn'[s].existing = turn[s].existing
            /\ turn'[s].transferFrom = turn[s].transferFrom
            /\ turn'[s].transferCommitted = turn[s].transferCommitted
            /\ entry'[s].needsReplacement = entry[s].needsReplacement
        BY <3>2 DEF Quiet
      <4>2. turn'[s].pc \in Taking =>
              /\ turn'[s].existing \in Mates(s) \ {s}
              /\ entry'[turn'[s].existing].providerEverStarted
              /\ pin'[a] \in {turn'[s].existing, "none"}
              /\ IF turn'[s].pc = "deliveryScan"
                   THEN /\ entry'[turn'[s].existing].safeToTransfer
                        /\ prov'[turn'[s].existing] \notin {"live", "dying"}
                   ELSE entry'[turn'[s].existing].needsReplacement
        <5> SUFFICES ASSUME turn[s].pc \in Taking, NEW x, x = turn[s].existing
                     PROVE  /\ x \in Mates(s) \ {s}
                            /\ entry'[x].providerEverStarted
                            /\ pin'[a] \in {x, "none"}
                            /\ IF turn[s].pc = "deliveryScan"
                                 THEN /\ entry'[x].safeToTransfer
                                      /\ prov'[x] \notin {"live", "dying"}
                                 ELSE entry'[x].needsReplacement
          BY <4>1
        <5>1. /\ x \in Mates(s) \ {s} /\ Started(x) /\ pin[a] \in {x, "none"}
              /\ IF turn[s].pc = "deliveryScan"
                   THEN entry[x].safeToTransfer /\ ~Running(x)
                   ELSE entry[x].needsReplacement
          BY <2>1 DEF TransferInv
        <5>2. x \in Sessions /\ Quiet(x) BY <2>2, <5>1
        <5>3. QED BY <2>4, <5>1, <5>2 DEF Quiet, Started, Running
      <4>3. turn'[s].transferFrom # "none" =>
              /\ turn'[s].transferFrom \in Mates(s) \ {s}
              /\ entry'[turn'[s].transferFrom].providerEverStarted
              /\ ~entry'[s].needsReplacement
              /\ turn'[s].pc \in {"load", "reconcile", "reload"} =>
                   ~Running(s)' /\ ~Flagged(s)' /\ ~turn'[s].transferCommitted
        <5> SUFFICES ASSUME NEW x, x = turn[s].transferFrom, x # "none"
                     PROVE  /\ x \in Mates(s) \ {s}
                            /\ entry'[x].providerEverStarted
                            /\ ~entry[s].needsReplacement
                            /\ turn[s].pc \in {"load", "reconcile", "reload"} =>
                                 ~Running(s)' /\ ~Flagged(s)' /\ ~turn[s].transferCommitted
          BY <4>1
        <5>1. /\ x \in Mates(s) \ {s} /\ Started(x) /\ ~entry[s].needsReplacement
              /\ turn[s].pc \in {"load", "reconcile", "reload"} =>
                   ~Running(s) /\ ~Flagged(s) /\ ~turn[s].transferCommitted
          BY <2>1, <3>2 DEF TransferInv
        <5>2. x \in Sessions /\ Quiet(x) BY <2>2, <5>1
        <5>3. QED BY <1>2, <5>1, <5>2 DEF Quiet, Started
      <4>4. turn'[s].pc \in Preflight =>
              turn'[s].transferFrom = "none" /\ ~turn'[s].transferCommitted
        BY <2>1, <4>1 DEF TransferInv
      <4>5. turn'[s].pc \in Work \cup {"invalidate"} =>
              (turn'[s].transferCommitted <=> turn'[s].transferFrom # "none")
        BY <2>1, <4>1 DEF TransferInv
      <4>6. QED BY <4>2, <4>3, <4>4, <4>5 DEF TransferInv, Mates, Started, Running
    <3>3. QED BY <3>1, <3>2
  <2>10. WorkInv(s)'
    <3>1. CASE ~Active(s)
      BY <1>2, <3>1 DEF WorkInv, Work, Active
    <3>2. CASE Active(s)
      BY <1>2, <2>1, <3>2 DEF WorkInv, Quiet
    <3>3. QED BY <3>1, <3>2
  <2>11. RecordInv(s)'
    BY <1>2, <2>1 DEF RecordInv, Quiet
  <2>12. QED
    BY <2>3, <2>5, <2>6, <2>7, <2>8, <2>9, <2>10, <2>11 DEF SessionInv, TurnInv
<1>5. QED BY <1>1, <1>3, <1>4 DEF IInv

\* Nothing but the outbox, the closing flags and the orphans changes.
LEMMA IdleKeeps ==
  ASSUME IInv, TypeOK',
         UNCHANGED <<rec, lock, owns, pin, liveBlock, entry, turn, prov, conv>>
  PROVE  IInv'
<1>1. ASSUME NEW x \in Sessions PROVE Quiet(x)
  <2>1. turn'[x] = turn[x] /\ entry'[x] = entry[x] /\ prov'[x] = prov[x] /\ conv'[x] = conv[x]
    OBVIOUS
  <2>2. QED BY <2>1, Zenon DEF Quiet
<1>2. QED BY <1>1, QuietKeeps

LEMMA PromptKeeps ==
  ASSUME IInv, TypeOK', NEW s \in Sessions, Prompt(s)
  PROVE  IInv'
<1> DEFINE a == AdapterOf[s]
           e == [entry[s] EXCEPT !.explicitCancelSettled = FALSE]
           t == [NoTurn EXCEPT !.pc = "identity", !.ownershipPreviouslyHeld = owns[a]]
           entries == [entry EXCEPT ![s] = e]
<1>1. /\ TypeOK /\ RecordForm /\ LeaseInv(a) /\ PinInv(s) /\ EntryInv(s)
      /\ a \in Adapters /\ s # "none"
  BY Context, Names
<1>2. /\ ~Active(s) /\ ~entry[s].stateError /\ ~entry[s].channelTransferInvalidated
      /\ UNCHANGED <<durable, lock, owns, closing, providers>>
      /\ IF BusyElsewhere(s)
           THEN Refuse(s, t, entries, liveBlock[a])
           ELSE /\ turn' = [turn EXCEPT ![s] = t]
                /\ entry' = entries
                /\ UNCHANGED <<pin, liveBlock>>
  BY Zenon DEF Prompt
<1>3. entry[s] \in EntryType /\ entry \in [Sessions -> EntryType] /\ owns[a] \in BOOLEAN
      /\ turn \in [Sessions -> TurnType] /\ liveBlock \in [Adapters -> BOOLEAN]
      /\ pin \in [Adapters -> Sessions \cup {"none"}]
  BY <1>1 DEF TypeOK
<1>4. /\ e \in EntryType
      /\ e.bound = entry[s].bound
      /\ e.needsReplacement = entry[s].needsReplacement
      /\ e.providerEverStarted = entry[s].providerEverStarted
      /\ e.blockCreatedByThisParent = entry[s].blockCreatedByThisParent
      /\ e.safeToTransfer = entry[s].safeToTransfer
      /\ e.channelTransferInvalidated = entry[s].channelTransferInvalidated
      /\ e.stateError = entry[s].stateError
  BY <1>3 DEF EntryType
<1>5. /\ t.pc = "identity" /\ t.transferFrom = "none" /\ ~t.transferCommitted
      /\ t.ownershipPreviouslyHeld = owns[a]
  BY DEF NoTurn
<1>6. /\ entries[s] = e /\ \A y \in Sessions \ {s} : entries[y] = entry[y]
      /\ entries \in [Sessions -> EntryType]
  BY <1>3, <1>4
<1> HIDE DEF e, t, entries
<1>7. CASE BusyElsewhere(s)
  <2>1. entry' = entries /\ Unwind(s, t, e, liveBlock[a])
    BY <1>2, <1>5, <1>6, <1>7 DEF Refuse
  <2>2. turn'[s].pc = "idle" /\ SameTurns(s)
    BY <1>3, <2>1, NewTypes DEF Unwind, SameTurns
  <2>3. \A b \in Adapters : liveBlock'[b] => liveBlock[b]
    BY <1>1, <1>3, <2>1 DEF Unwind, SettleLiveBlock
  <2>4. \A b \in Adapters \ {a} : pin'[b] = pin[b]
    BY <1>3, <2>1 DEF Unwind
  <2>5. \/ pin'[a] = pin[a]
        \/ /\ pin'[a] = "none" /\ pin[a] = s /\ ~e.needsReplacement /\ ~e.stateError
           /\ ~e.blockCreatedByThisParent
    BY <1>1, <1>3, <1>5, <2>1 DEF Unwind
  <2>6. \A x \in Sessions : Quiet(x)
    <3>1. Quiet(s)
      BY <1>2, <1>4, <1>6, <2>1, <2>2 DEF Quiet, Active, providers
    <3>2. \A x \in Sessions \ {s} : Quiet(x)
      BY <1>2, <1>6, <2>1, <2>2 DEF Quiet, SameTurns, providers
    <3>3. QED BY <3>1, <3>2
  <2>7. pin'[a] = pin[a] \/ (pin'[a] = "none" /\ pin[a] = s /\ Unneeded(s))
    BY <1>1, <1>2, <1>4, <2>5 DEF Unneeded, EntryInv
  <2>8. QED BY <1>2, <2>3, <2>4, <2>6, <2>7, QuietKeeps DEF durable
<1>8. CASE ~BusyElsewhere(s)
  <2>1. /\ turn'[s] = t /\ SameTurns(s) /\ entry' = entries /\ UNCHANGED <<pin, liveBlock>>
    BY <1>2, <1>3, <1>8 DEF SameTurns
  <2>2. \A y \in Sessions \ {s} : Same(y)
    BY <1>2, <1>6, <2>1 DEF Same, SameTurns, providers
  <2>3. \A y \in Mates(s) \ {s} : Kept(y) /\ ~Active(y)
    BY <1>8, <2>2, SameIsKept DEF Mates, BusyElsewhere
  <2>4. LocalTo(a) BY <1>2, <2>1, <2>2 DEF LocalTo, durable
  <2>5. LeaseInv(a)'
    <3>1. \A y \in Sessions : entry'[y].stateError = entry[y].stateError
      BY <1>4, <1>6, <2>1
    <3>2. Active(s)' BY <1>5, <2>1 DEF Active
    <3>3. QED BY <1>1, <1>2, <2>1, <3>1, <3>2 DEF LeaseInv
  <2>6. PinInv(s)'
    BY <1>1, <1>2, <1>4, <1>5, <1>6, <2>1
       DEF PinInv, Pinning, Work, Running, Flagged, Started, providers
  <2>7. EntryInv(s)'
    BY <1>1, <1>2, <1>4, <1>5, <1>6, <2>1
       DEF EntryInv, Running, Started, Owner, Active, providers
  <2>8. LeaseTurnInv(s)'
    <3>1. ~owns[a] => \A y \in Mates(s) : y # s => ~Started(y)'
      <4>1. \A y \in Mates(s) : Started(y) => owns[a]
        BY DEF IInv, SessionInv, EntryInv, Owner, Mates
      <4>2. QED BY <2>3, <4>1 DEF Kept, Started
    <3>2. QED
      BY <1>2, <1>5, <2>1, <3>1 DEF LeaseTurnInv, Holding, Work, Active, Mates
  <2>9. TransferInv(s)' /\ WorkInv(s)' /\ RecordInv(s)'
    BY <1>5, <2>1 DEF TransferInv, WorkInv, RecordInv, Taking, Preflight, Work, Staged
  <2>10. ASSUME NEW x \in Mates(s) PROVE NeedsInv(x)'
    <3>1. NeedsInv(x) BY DEF IInv, SessionInv, Mates
    <3>2. /\ entry'[x].needsReplacement = entry[x].needsReplacement
          /\ entry'[x].channelTransferInvalidated = entry[x].channelTransferInvalidated
      BY <1>4, <1>6, <2>1 DEF Mates
    <3>3. QED BY <1>2, <2>1, <2>3, <3>1, <3>2 DEF NeedsInv, Mates
  <2>11. (Owner(s) => Owner(s)') /\ (Started(s)' => Started(s)) /\ RecordForm'
    BY <1>1, <1>2, <1>4, <1>6, <2>1 DEF Owner, Started, RecordForm, durable
  <2>12. QED
    BY <2>1, <2>3, <2>4, <2>5, <2>6, <2>7, <2>8, <2>9, <2>10, <2>11, OneSession DEF TurnInv
<1>9. QED BY <1>7, <1>8

LEMMA CancelKeeps ==
  ASSUME IInv, TypeOK', NEW s \in Sessions, Cancel(s)
  PROVE  IInv'
<1> DEFINE t == [turn[s] EXCEPT !.aborted = TRUE, !.explicitCancelRequested = TRUE]
<1>1. TypeOK /\ RecordForm /\ turn[s] \in TurnType BY Context
<1>2. UNCHANGED <<durable, lock, conv, orphans>> BY DEF Cancel
<1>3. /\ t \in TurnType /\ t.pc = turn[s].pc
      /\ t.ownershipPreviouslyHeld = turn[s].ownershipPreviouslyHeld
      /\ t.existing = turn[s].existing /\ t.transferFrom = turn[s].transferFrom
      /\ t.transferCommitted = turn[s].transferCommitted
  BY <1>1 DEF TurnType
<1> HIDE DEF t
<1>4. CASE At(s, "provider") /\ EndTurn(s, t, entry[s], FALSE, liveBlock[AdapterOf[s]])
           /\ prov' = [prov EXCEPT ![s] = IF @ = "live" THEN "dying" ELSE @]
  <2>1. PICK safe \in BOOLEAN :
          ~safe /\ EndTurn(s, t, entry[s], safe, liveBlock[AdapterOf[s]])
    BY <1>4, Zenon
  <2>2. entry[s] \in EntryType /\ liveBlock[AdapterOf[s]] \in BOOLEAN
    BY <1>1, Names DEF TypeOK
  <2>3. turn[s].pc \in Work BY <1>4 DEF At, Work
  <2>4. \A x \in Sessions \ {s} : prov'[x] = prov[x] BY <1>1, <1>4 DEF TypeOK
  <2>5. RecordForm' BY <1>1, <1>2 DEF RecordForm, durable
  <2>6. QED BY <1>2, <1>3, <2>1, <2>2, <2>3, <2>4, <2>5, FailKeeps
<1>5. CASE turn' = [turn EXCEPT ![s] = t]
           /\ UNCHANGED <<owns, pin, liveBlock, closing, entry, prov>>
  <2>1. turn'[s] = t /\ SameTurns(s) BY <1>1, <1>5 DEF TypeOK, SameTurns
  <2>2. \A x \in Sessions : Quiet(x)
    BY <1>2, <1>3, <1>5, <2>1 DEF Quiet, SameTurns
  <2>3. QED BY <1>2, <1>5, <2>2, QuietKeeps DEF durable
<1>6. QED BY <1>4, <1>5, Zenon DEF Cancel, t

LEMMA ProviderExitsKeeps ==
  ASSUME IInv, TypeOK', NEW s \in Sessions, ProviderExits(s)
  PROVE  IInv'
<1>1. TypeOK BY Context
<1>2. \A x \in Sessions : Quiet(x)
  BY <1>1 DEF ProviderExits, Quiet, TypeOK, memory
<1>3. QED BY <1>2, QuietKeeps DEF ProviderExits, durable, memory

LEMMA CloseBeginKeeps ==
  ASSUME IInv, TypeOK', NEW a \in Adapters, CloseBegin(a)
  PROVE  IInv'
<1> DEFINE mine == {s \in Sessions : AdapterOf[s] = a}
           ended == {s \in mine : At(s, "provider")}
<1>1. TypeOK /\ RecordForm BY DEF IInv
<1>2. /\ prov' = [s \in Sessions |->
           IF s \in mine /\ prov[s] = "live" THEN "dying" ELSE prov[s]]
      /\ entry' = [s \in Sessions |->
           IF s \in ended THEN [entry[s] EXCEPT !.needsReplacement = TRUE] ELSE entry[s]]
      /\ turn' = [s \in Sessions |->
           IF s \in ended THEN NoTurn
           ELSE IF s \in mine /\ Active(s) THEN [turn[s] EXCEPT !.aborted = TRUE]
           ELSE turn[s]]
      /\ liveBlock' = [liveBlock EXCEPT ![a] = @ /\ ended = {}]
      /\ UNCHANGED <<durable, lock, owns, pin, conv, orphans>>
  BY DEF CloseBegin
<1>3. \A x \in Sessions : turn[x] \in TurnType /\ entry[x] \in EntryType
  BY <1>1 DEF TypeOK
<1>4. \A x \in Sessions : /\ prov'[x] = prov[x] \/ (Running(x) /\ prov'[x] \in {"dying", "closed"})
                          /\ prov'[x] = "none" <=> prov[x] = "none"
                          /\ Running(x)' <=> Running(x)
                          /\ AdapterOf[x] # a => prov'[x] = prov[x]
  BY <1>2 DEF Running
<1>5. CASE ended = {}
  <2>1. \A b \in Adapters : liveBlock'[b] => liveBlock[b]
    BY <1>1, <1>2 DEF TypeOK
  <2>2. ASSUME NEW x \in Sessions PROVE Quiet(x)
    <3>1. entry'[x] = entry[x] /\ conv'[x] = conv[x] BY <1>2, <1>5
    <3>2. turn'[x] = turn[x] \/ turn'[x] = [turn[x] EXCEPT !.aborted = TRUE]
      BY <1>2, <1>5
    <3>3. /\ turn'[x].pc = turn[x].pc
          /\ turn'[x].ownershipPreviouslyHeld = turn[x].ownershipPreviouslyHeld
          /\ turn'[x].existing = turn[x].existing
          /\ turn'[x].transferFrom = turn[x].transferFrom
          /\ turn'[x].transferCommitted = turn[x].transferCommitted
      BY <1>3, <3>2 DEF TurnType
    <3>4. QED BY <1>4, <3>1, <3>3 DEF Quiet
  <2>3. QED BY <1>2, <2>1, <2>2, QuietKeeps DEF durable
<1>6. ASSUME NEW s \in ended PROVE IInv'
  <2>1. s \in Sessions /\ AdapterOf[s] = a /\ turn[s].pc = "provider" /\ Active(s)
    BY DEF At, Active
  <2>2. \A x \in Mates(s) \ {s} : ~Active(x) BY <2>1, MatesIdle
  <2>3. \A x \in Sessions \ {s} : x \notin ended /\ ~(x \in mine /\ Active(x))
    BY <2>1, <2>2 DEF Mates, At, Active
  <2>4. turn'[s].pc = "idle" /\ SameTurns(s) /\ SameEntries(s)
    BY <1>2, <2>1, <2>3, NewTypes DEF SameTurns, SameEntries
  <2>5. entry'[s] = [entry[s] EXCEPT !.needsReplacement = TRUE]
    BY <1>2, <2>1
  <2>6. /\ entry'[s].needsReplacement
        /\ entry'[s].bound = entry[s].bound
        /\ entry'[s].providerEverStarted = entry[s].providerEverStarted
        /\ entry'[s].blockCreatedByThisParent = entry[s].blockCreatedByThisParent
        /\ entry'[s].safeToTransfer = entry[s].safeToTransfer
        /\ entry'[s].channelTransferInvalidated = entry[s].channelTransferInvalidated
        /\ entry'[s].stateError = entry[s].stateError
    BY <1>3, <2>1, <2>5 DEF EntryType
  <2>7. ~liveBlock'[a] /\ \A b \in Adapters \ {a} : liveBlock'[b] = liveBlock[b]
    <3>1. liveBlock \in [Adapters -> BOOLEAN] BY <1>1 DEF TypeOK
    <3>2. ended # {} OBVIOUS
    <3> HIDE DEF ended
    <3>3. liveBlock'[a] = (liveBlock[a] /\ ended = {}) BY <1>2, <3>1
    <3>4. \A b \in Adapters \ {a} : liveBlock'[b] = liveBlock[b] BY <1>2, <3>1
    <3>5. QED BY <3>2, <3>3, <3>4
  <2>8. Ended(s, entry[s])
    BY <1>2, <2>1, <2>4, <2>6, <2>7 DEF Ended
  <2>9. RecordForm' BY <1>1, <1>2 DEF RecordForm, durable
  <2>10. turn[s].pc \in Work BY <2>1 DEF Work
  <2>11. \A x \in Mates(s) \ {s} : (prov'[x] = "none" <=> prov[x] = "none")
                                   /\ (Running(x)' <=> Running(x))
    BY <1>4 DEF Mates
  <2>12. QED BY <1>2, <1>4, <2>1, <2>6, <2>8, <2>9, <2>10, <2>11, EndedKeeps
<1>7. QED BY <1>5, <1>6

LEMMA RestartKeeps ==
  ASSUME IInv, TypeOK', NEW a \in Adapters, Restart(a), UNCHANGED durable
  PROVE  IInv'
<1>1. TypeOK /\ RecordForm /\ a # "free" BY Names DEF IInv
<1>2. /\ ~owns'[a] /\ pin'[a] = "none" /\ ~liveBlock'[a] /\ lock' # a
      /\ \A b \in Adapters \ {a} :
           owns'[b] = owns[b] /\ pin'[b] = pin[b] /\ liveBlock'[b] = liveBlock[b]
      /\ lock' = lock \/ {lock, lock'} \subseteq {a, "free"}
  BY <1>1 DEF Restart, TypeOK
<1>3. \A t \in Sessions : AdapterOf[t] # a => Same(t)
  BY DEF Restart, Same
<1>4. \A t \in Sessions : AdapterOf[t] = a =>
        turn'[t] = NoTurn /\ entry'[t] = NewEntry /\ prov'[t] = "none"
  BY DEF Restart
<1>5. LocalTo(a) BY <1>2, <1>3 DEF LocalTo, durable
<1>6. RecordForm' BY <1>1 DEF RecordForm, durable
<1>7. LeaseInv(a)' BY <1>2 DEF LeaseInv
<1>8. ASSUME NEW t \in Sessions, AdapterOf[t] = a PROVE SessionInv(t)'
  <2>1. turn'[t].pc = "idle" /\ entry'[t] = NewEntry /\ prov'[t] = "none"
    BY <1>4, <1>8, NewTypes
  <2>2. AloneInv(t)' BY <2>1 DEF AloneInv, Active
  <2>3. PinInv(t)' /\ NeedsInv(t)' /\ EntryInv(t)'
    BY <2>1 DEF PinInv, NeedsInv, EntryInv, Pinning, Work, Running, Flagged, Started, NewEntry
  <2>4. TurnInv(t)'
    BY <2>1 DEF TurnInv, LeaseTurnInv, TransferInv, WorkInv, RecordInv, Holding, Taking,
                Preflight, Work, Staged, Active
  <2>5. QED BY <2>2, <2>3, <2>4 DEF SessionInv
<1>9. QED BY <1>5, <1>6, <1>7, <1>8, Elsewhere DEF IInv

-----------------------------------------------------------------------------
(***************************************************************************)
(* The invariant is inductive.                                             *)
(***************************************************************************)
LEMMA IInvStep ==
  ASSUME IInv, [Next]_vars
  PROVE  IInv'
<1>1. TypeOK'
  <2>1. PinnedOnly BY DEF IInv, SessionInv, PinInv, PinnedOnly
  <2>2. QED BY <2>1, TypeStep DEF IInv
<1>2. ASSUME NEW s \in Sessions, Handler(s) PROVE IInv'
  <2>1. CASE Identity(s) BY <1>1, <2>1, IdentityKeeps
  <2>2. CASE DeliveryScan(s) BY <1>1, <2>2, DeliveryScanKeeps
  <2>3. CASE CancelLoad(s) BY <1>1, <2>3, CancelLoadKeeps
  <2>4. CASE CancelScan(s) BY <1>1, <2>4, CancelScanKeeps
  <2>5. CASE CancelRetire(s) BY <1>1, <2>5, CancelRetireKeeps
  <2>6. CASE RecoverScan(s) BY <1>1, <2>6, RecoverScanKeeps
  <2>7. CASE RecoverRetire(s) BY <1>1, <2>7, RecoverRetireKeeps
  <2>8. CASE Load(s) BY <1>1, <2>8, LoadKeeps
  <2>9. CASE Reconcile(s) BY <1>1, <2>9, ReconcileKeeps
  <2>10. CASE Reload(s) BY <1>1, <2>10, ReloadKeeps
  <2>11. CASE Invalidate(s) BY <1>1, <2>11, InvalidateKeeps
  <2>12. CASE ReleaseLease(s) BY <1>1, <2>12, ReleaseLeaseKeeps
  <2>13. CASE ProviderAnswers(s) BY <1>1, <2>13, ProviderAnswersKeeps
  <2>14. CASE ProviderFails(s) BY <1>1, <2>14, ProviderFailsKeeps
  <2>15. CASE Retirement(s) BY <1>1, <2>15, RetirementKeeps
  <2>16. CASE StageCheckpoint(s) BY <1>1, <2>16, StageCheckpointKeeps
  <2>17. CASE BeginDelivery(s) BY <1>1, <2>17, BeginDeliveryKeeps
  <2>18. CASE Publish(s) BY <1>1, <2>18, PublishKeeps
  <2>19. CASE UpdateDelivery(s) BY <1>1, <2>19, UpdateDeliveryKeeps
  <2>20. CASE SaveReady(s) BY <1>1, <2>20, SaveReadyKeeps
  <2>21. QED
    BY <1>2, <2>1, <2>2, <2>3, <2>4, <2>5, <2>6, <2>7, <2>8, <2>9, <2>10, <2>11, <2>12,
       <2>13, <2>14, <2>15, <2>16, <2>17, <2>18, <2>19, <2>20 DEF Handler
<1>3. CASE Environment
  <2>1. ASSUME NEW s \in Sessions, Prompt(s) PROVE IInv' BY <1>1, <2>1, PromptKeeps
  <2>2. ASSUME NEW s \in Sessions, Cancel(s) PROVE IInv' BY <1>1, <2>2, CancelKeeps
  <2>3. ASSUME NEW s \in Sessions, ProviderExits(s) PROVE IInv'
    BY <1>1, <2>3, ProviderExitsKeeps
  <2>4. ASSUME NEW d \in DOMAIN outbox, OperatorRetries(d) PROVE IInv'
    <3>1. UNCHANGED <<rec, lock, owns, pin, liveBlock, entry, turn, prov, conv>>
      BY <2>4 DEF OperatorRetries, memory, providers
    <3>2. QED BY <1>1, <3>1, IdleKeeps
  <2>5. ASSUME NEW a \in Adapters, CloseBegin(a) PROVE IInv' BY <1>1, <2>5, CloseBeginKeeps
  <2>6. ASSUME NEW a \in Adapters, CloseDone(a) PROVE IInv'
    BY <1>1, <2>6, RestartKeeps DEF CloseDone
  <2>7. ASSUME NEW a \in Adapters, Crash(a) PROVE IInv'
    BY <1>1, <2>7, RestartKeeps DEF Crash
  <2>8. CASE OrphanExits
    <3>1. UNCHANGED <<rec, lock, owns, pin, liveBlock, entry, turn, prov, conv>>
      BY <2>8 DEF OrphanExits, durable, memory
    <3>2. QED BY <1>1, <3>1, IdleKeeps
  <2>9. QED
    BY <1>3, <2>1, <2>2, <2>3, <2>4, <2>5, <2>6, <2>7, <2>8 DEF Environment
<1>4. CASE UNCHANGED vars
  <2>1. UNCHANGED <<rec, lock, owns, pin, liveBlock, entry, turn, prov, conv>>
    BY <1>4 DEF vars, durable, memory, providers
  <2>2. QED BY <1>1, <2>1, IdleKeeps
<1>5. QED BY <1>2, <1>3, <1>4 DEF Next

(***************************************************************************)
(* Invariance: whatever the adapters, sessions, conversations and faults,  *)
(* each turn of a channel keeps the lease, the pin, the record and the     *)
(* provider of its session in step (acp-server.js:474-824).                *)
(***************************************************************************)
THEOREM Invariance == Spec => []IInv
<1>1. Init => IInv BY IInvInit
<1>2. IInv /\ [Next]_vars => IInv' BY IInvStep
<1>3. QED BY <1>1, <1>2, PTL DEF Spec

(***************************************************************************)
(* Type correctness of the channel's record, outbox, lock, adapters,       *)
(* sessions and providers.                                                 *)
(***************************************************************************)
THEOREM TypeCorrect == Spec => []TypeOK
<1>1. IInv => TypeOK BY DEF IInv
<1>2. QED BY <1>1, Invariance, PTL

(***************************************************************************)
(* An answer is published only after its provider is gone, its             *)
(* conversation is in the blocked record and the lock is held, under every *)
(* file-system fault, cancellation and crash (acp-server.js:718-733).      *)
(***************************************************************************)
THEOREM PublicationFollowsCheckpoint == Spec => []PublishesAfterCheckpoint
<1>1. IInv => PublishesAfterCheckpoint
  <2> SUFFICES ASSUME IInv, NEW s \in Sessions, turn[s].pc \in Staged
               PROVE  /\ prov[s] = "closed"
                      /\ rec = [status |-> "blocked", conversationId |-> conv[s]]
                      /\ lock = AdapterOf[s]
    BY DEF PublishesAfterCheckpoint, Staged
  <2>1. RecordInv(s) /\ LeaseTurnInv(s) /\ TypeOK BY Context
  <2>2. prov[s] = "closed" /\ rec.status = "blocked" /\ rec.conversationId = conv[s]
    BY <2>1 DEF RecordInv, Work, Staged
  <2>3. lock = AdapterOf[s]
    BY <2>1 DEF LeaseTurnInv, Holding, Work, Staged, Owner
  <2>4. QED BY <2>1, <2>2, <2>3 DEF TypeOK
<1>2. QED BY <1>1, Invariance, PTL

(***************************************************************************)
(* The liveness guard of a channel is set only while a turn of that        *)
(* adapter is running, so that it can refuse no later prompt               *)
(* (acp-server.js:140-144).                                                *)
(***************************************************************************)
THEOREM GuardEndsWithTurn == Spec => []LiveBlockIsLive
<1>1. IInv => LiveBlockIsLive BY DEF IInv, LeaseInv, LiveBlockIsLive
<1>2. QED BY <1>1, Invariance, PTL

(***************************************************************************)
(* A session whose channel was transferred away has no running turn and no *)
(* running provider, ever again (acp-server.js:604-612).                   *)
(***************************************************************************)
THEOREM TransferredSessionIsInert == Spec => []StaleSessionIsInert
<1>1. IInv => StaleSessionIsInert BY DEF IInv, SessionInv, EntryInv, StaleSessionIsInert
<1>2. QED BY <1>1, Invariance, PTL

-----------------------------------------------------------------------------
(***************************************************************************)
(* Who may change the record, and who gives up the lock.                   *)
(***************************************************************************)
\* Nothing before reconciliation and nothing in the environment writes the record.
LEMMA RecordWriters ==
  ASSUME [Next]_vars, rec' # rec
  PROVE  \E s \in Sessions : Reconcile(s) \/ Invalidate(s) \/ StageCheckpoint(s) \/ SaveReady(s)
<1>1. ASSUME NEW s \in Sessions, Handler(s),
             ~(Reconcile(s) \/ Invalidate(s) \/ StageCheckpoint(s) \/ SaveReady(s))
      PROVE  FALSE
  <2>1. \A x, pc : Retire(s, x, pc) => rec' = rec
    BY DEF Retire, JustRefuse, durable
  <2>2. Admit(s) => rec' = rec BY DEF Admit, durable
  <2>3. (\/ Identity(s) \/ DeliveryScan(s) \/ CancelLoad(s) \/ CancelScan(s) \/ CancelRetire(s)
         \/ RecoverScan(s) \/ RecoverRetire(s) \/ Load(s) \/ Reload(s)) => rec' = rec
    BY <2>1, <2>2
       DEF Identity, DeliveryScan, CancelLoad, CancelScan, CancelRetire, RecoverScan,
           RecoverRetire, Load, Reload, JustRefuse, Pinned, durable
  <2>4. (\/ ReleaseLease(s) \/ ProviderAnswers(s) \/ ProviderFails(s) \/ Retirement(s)
         \/ BeginDelivery(s) \/ Publish(s) \/ UpdateDelivery(s)) => rec' = rec
    BY DEF ReleaseLease, ProviderAnswers, ProviderFails, Retirement, BeginDelivery, Publish,
           UpdateDelivery, durable
  <2>5. QED BY <1>1, <2>3, <2>4 DEF Handler
<1>2. Environment => rec' = rec
  BY DEF Environment, Prompt, Cancel, ProviderExits, OperatorRetries, CloseBegin, CloseDone,
         Crash, OrphanExits, durable
<1>3. UNCHANGED vars => rec' = rec BY DEF vars, durable
<1>4. QED BY <1>1, <1>2, <1>3 DEF Next

(***************************************************************************)
(* Every change of the durable record is made by a turn whose adapter      *)
(* holds the operating-system lock at that moment, whatever faults left    *)
(* ownedChannels stale (session-state.js, reconcile, invalidate,           *)
(* stageCheckpoint and save).                                              *)
(***************************************************************************)
THEOREM RecordChangesOnlyUnderLock == Spec => RecordChangesUnderLock
<1>1. ASSUME IInv, [Next]_vars, rec' # rec
      PROVE  \E s \in Sessions : Active(s) /\ lock = AdapterOf[s]
  <2>1. PICK s \in Sessions :
          Reconcile(s) \/ Invalidate(s) \/ StageCheckpoint(s) \/ SaveReady(s)
    BY <1>1, RecordWriters
  <2>2. turn[s].pc \in Holding
    BY <2>1 DEF Reconcile, Invalidate, StageCheckpoint, SaveReady, At, Holding, Work
  <2>3. LeaseTurnInv(s) BY <1>1, Context
  <2>4. lock = AdapterOf[s] BY <2>2, <2>3 DEF LeaseTurnInv, Owner
  <2>5. Active(s) BY <2>2 DEF Active, Holding, Work
  <2>6. QED BY <2>4, <2>5
<1>2. IInv /\ [Next]_vars
        => [rec' # rec => \E s \in Sessions : Active(s) /\ lock = AdapterOf[s]]_vars
  BY <1>1
<1>3. QED BY <1>2, Invariance, PTL DEF Spec, RecordChangesUnderLock

\* The lock is taken when it is free; it is given up by a release or by the
\* end of the process.
LEMMA LockSteps ==
  ASSUME [Next]_vars, lock # "free", lock' # lock
  PROVE  \/ \E s \in Sessions : ReleaseLease(s)
         \/ \E a \in Adapters : CloseDone(a) \/ Crash(a)
<1>1. ASSUME NEW s \in Sessions, Handler(s), ~ReleaseLease(s) PROVE FALSE
  <2>1. \A x, pc : Retire(s, x, pc) => lock' = lock
    BY DEF Retire, JustRefuse
  <2>2. EnsureOwnership(AdapterOf[s]) => lock' = lock BY DEF EnsureOwnership
  <2>3. (\/ Identity(s) \/ DeliveryScan(s) \/ CancelLoad(s) \/ CancelScan(s) \/ CancelRetire(s)
         \/ RecoverScan(s) \/ RecoverRetire(s) \/ Load(s) \/ Reload(s)) => lock' = lock
    BY <2>1, <2>2
       DEF Identity, DeliveryScan, CancelLoad, CancelScan, CancelRetire, RecoverScan,
           RecoverRetire, Load, Reload, JustRefuse, Pinned
  <2>4. (\/ Reconcile(s) \/ Invalidate(s) \/ ProviderAnswers(s) \/ ProviderFails(s)
         \/ Retirement(s) \/ StageCheckpoint(s) \/ BeginDelivery(s) \/ Publish(s)
         \/ UpdateDelivery(s) \/ SaveReady(s)) => lock' = lock
    BY DEF Reconcile, Invalidate, ProviderAnswers, ProviderFails, Retirement, StageCheckpoint,
           BeginDelivery, Publish, UpdateDelivery, SaveReady
  <2>5. QED BY <1>1, <2>3, <2>4 DEF Handler
<1>2. Environment => lock' = lock \/ \E a \in Adapters : CloseDone(a) \/ Crash(a)
  BY DEF Environment, Prompt, Cancel, ProviderExits, OperatorRetries, CloseBegin, OrphanExits
<1>3. UNCHANGED vars => lock' = lock BY DEF vars
<1>4. QED BY <1>1, <1>2, <1>3 DEF Next

(***************************************************************************)
(* An adapter gives up the lock with no provider of its own running, or    *)
(* dies and leaves an orphan: neither the release of an unused lease nor   *)
(* close() frees a lock under a live child (acp-server.js:760-776 and the  *)
(* shutdown path).                                                         *)
(***************************************************************************)
THEOREM LockOutlivesProviders == Spec => ReleasesAfterExit
<1>1. ASSUME IInv, [Next]_vars, NEW a \in Adapters, lock = a, lock' # a
      PROVE  orphans' > orphans \/ \A s \in Sessions : AdapterOf[s] = a => ~Running(s)
  <2>1. \/ \E s \in Sessions : ReleaseLease(s)
        \/ \E b \in Adapters : CloseDone(b) \/ Crash(b)
    BY <1>1, LockSteps, Names
  <2>2. ASSUME NEW s \in Sessions, ReleaseLease(s)
        PROVE  \A t \in Sessions : AdapterOf[t] = a => ~Running(t)
    <3>1. LeaseTurnInv(s) /\ turn[s].pc = "releasing"
      BY <1>1, <2>2, Context DEF ReleaseLease, At
    <3>2. AdapterOf[s] = a /\ \A t \in Mates(s) : ~Started(t)
      BY <1>1, <3>1 DEF LeaseTurnInv, Holding, Owner, Active, Mates
    <3>3. \A t \in Sessions : ~Started(t) => prov[t] = "none"
      BY <1>1 DEF IInv, SessionInv, EntryInv
    <3>4. QED BY <3>2, <3>3 DEF Mates, Running
  <2>3. ASSUME NEW b \in Adapters, CloseDone(b) PROVE b = a
    BY <1>1, <2>3 DEF CloseDone, Restart
  <2>4. ASSUME NEW b \in Adapters, Crash(b)
        PROVE  orphans' > orphans \/ \A s \in Sessions : AdapterOf[s] = a => ~Running(s)
    <3> DEFINE left == {s \in Sessions : AdapterOf[s] = b /\ Running(s)}
    <3>1. b = a BY <1>1, <2>4 DEF Crash, Restart
    <3>2. orphans' = orphans + Cardinality(left) BY <2>4 DEF Crash
    <3>3. PinnedOnly BY <1>1 DEF IInv, SessionInv, PinInv, PinnedOnly
    <3>4. Cardinality(left) \in {0, 1} /\ (Cardinality(left) = 0 => left = {})
      BY <3>3, RunningOfAdapter
    <3>5. orphans \in Nat BY <1>1 DEF IInv, TypeOK
    <3> HIDE DEF left
    <3>6. orphans' > orphans \/ left = {} BY <3>2, <3>4, <3>5
    <3>7. QED BY <3>1, <3>6 DEF left
  <2>5. QED BY <2>1, <2>2, <2>3, <2>4 DEF CloseDone
<1>2. IInv /\ [Next]_vars
        => [\A a \in Adapters : lock = a /\ lock' # a =>
              orphans' > orphans \/ \A s \in Sessions : AdapterOf[s] = a => ~Running(s)]_vars
  BY <1>1
<1>3. QED BY <1>2, Invariance, PTL DEF Spec, ReleasesAfterExit
=============================================================================
