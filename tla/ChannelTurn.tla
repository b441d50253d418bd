---------------------------- MODULE ChannelTurn ----------------------------
(***************************************************************************)
(* One Buzz channel, as the adapters that serve it see it: session/prompt, *)
(* session/cancel and shutdown (src/src/acp-server.js) over the durable    *)
(* ready/blocked record and the channel lock (session-state.js), the       *)
(* provider process of each ACP session (agy-session.js) and the delivery  *)
(* outbox, of which module Outbox has the detail.                          *)
(*                                                                         *)
(* Every await of the handler ends one action and begins another, so the   *)
(* turns of different sessions, cancellation, provider exits, shutdown and *)
(* process death interleave exactly where the event loop lets them.  Any   *)
(* number of adapter processes may serve the channel.  Durable state and   *)
(* the outbox are enabled, steering is not.                                *)
(***************************************************************************)
EXTENDS Integers, FiniteSets

CONSTANTS
  Adapters,       \* adapter processes; one that dies is replaced by a new one
  Sessions,       \* ACP sessions; after a restart a name is a new session
  AdapterOf,      \* the adapter each session lives in
  Conversations,  \* provider conversation ids
  Faults,         \* file-system faults considered: "write" refuses a record write
                  \* or removal, "reread" a read right after reconciliation
  EarlierStatus,  \* delivery the outbox may hold from before this channel state
  MaxOrphans      \* bound on providers that outlive their adapter at one time

ASSUME AdapterOfAssumption == AdapterOf \in [Sessions -> Adapters]
ASSUME NamesAssumption ==
  /\ "free" \notin Adapters
  /\ "none" \notin Sessions \cup Conversations
  /\ "earlier" \notin Sessions
ASSUME BoundsAssumption ==
  /\ Faults \subseteq {"write", "reread"}
  /\ MaxOrphans \in Nat
  /\ EarlierStatus \in {"none", "inflight", "failed-before-start", "uncertain"}

VARIABLES
  rec,        \* the channel's durable record: absent, blocked or ready, and its conversation
  outbox,     \* unsettled delivery of each session's turn, and an earlier one
  lock,       \* operating-system holder of the channel lock
  owns,       \* owns[a]: the channel is in ownedChannels of adapter a
  pin,        \* pin[a]: channelSessions of adapter a
  liveBlock,  \* liveBlock[a]: the channel is in channelsWithLiveBlock
  closing,    \* closing[a]: shutdown has begun
  entry,      \* entry[s]: the flags of the session's pool entry
  turn,       \* turn[s]: the running session/prompt handler and its locals
  prov,       \* prov[s]: last child of the session's provider object
  conv,       \* conv[s]: conversation id the provider object holds
  orphans     \* providers still running whose adapter is gone

durable == <<rec, outbox>>
memory == <<owns, pin, liveBlock, closing, entry, turn>>
providers == <<prov, conv, orphans>>
vars == <<durable, lock, memory, providers>>

NewEntry ==
  [bound |-> FALSE, cachedConversationBound |-> FALSE, needsReplacement |-> FALSE,
   providerEverStarted |-> FALSE, blockCreatedByThisParent |-> FALSE,
   safeToTransfer |-> FALSE, channelTransferInvalidated |-> FALSE,
   explicitCancelSettled |-> FALSE, stateError |-> FALSE]

NoTurn ==
  [pc |-> "idle", aborted |-> FALSE, explicitCancelRequested |-> FALSE,
   ownershipPreviouslyHeld |-> FALSE, existing |-> "none", transferFrom |-> "none",
   transferCommitted |-> FALSE, explicitCancelTransfer |-> FALSE,
   clearedCheckpoint |-> FALSE, directProviderRetired |-> FALSE, publication |-> "none"]

Running(s) == prov[s] \in {"live", "dying"}

Active(s) == turn[s].pc # "idle"

At(s, pc) == turn[s].pc = pc

\* Mutant: the channel is never seen busy.
BusyElsewhereIgnored(s) == FALSE

\* channelBusyElsewhere
BusyElsewhere(s) ==
  \E t \in Sessions \ {s} : AdapterOf[t] = AdapterOf[s] /\ Active(t)

Unsettled == \E d \in DOMAIN outbox : outbox[d] # "none"

\* Mutant: the outbox is not asked.
RefusesLiveTurnsOnly(s) == liveBlock[AdapterOf[s]] \/ BusyElsewhere(s)

\* reconciliationRefusal; an unreadable outbox refuses as well.
RefusesReconciliation(s) ==
  liveBlock[AdapterOf[s]] \/ BusyElsewhere(s) \/ Unsettled

Goto(s, pc) == turn' = [turn EXCEPT ![s].pc = pc]

\* A record write ends with the new record in place, or fails before or
\* after the rename that puts it there.
WriteRecord(new, ok) ==
  \/ ok /\ rec' = new
  \/ "write" \in Faults /\ ~ok /\ (rec' = new \/ rec' = rec)

-----------------------------------------------------------------------------
(***************************************************************************)
(* ensureOwnership, and the two ways a turn can end.                       *)
(***************************************************************************)
\* Mutant: a busy lock is taken for owned.
EnsureOwnershipIgnoresBusy(a) ==
  /\ owns' = [owns EXCEPT ![a] = TRUE]
  /\ lock' = IF lock = "free" THEN a ELSE lock

EnsureOwnership(a) ==
  \/ owns[a] /\ UNCHANGED <<owns, lock>>
  \/ /\ ~owns[a] /\ lock = "free"
     /\ owns' = [owns EXCEPT ![a] = TRUE]
     /\ lock' = a

\* Mutant: the guard is kept whenever the turn had set it.
SettleLiveBlockNever(s, live) ==
  liveBlock' = [liveBlock EXCEPT ![AdapterOf[s]] = live]

\* settleLiveBlock, from the value the guard has by then
SettleLiveBlock(s, live) ==
  liveBlock' = [liveBlock EXCEPT ![AdapterOf[s]] = live /\ BusyElsewhere(s)]

\* The tail of the preflight's catch block: the reservation ends and the
\* pin goes back, goes away, or stays.
Unwind(s, t, e, live) ==
  LET a == AdapterOf[s] IN
  /\ turn' = [turn EXCEPT ![s] = NoTurn]
  /\ SettleLiveBlock(s, live)
  /\ pin' = [pin EXCEPT ![a] =
       IF t.transferFrom # "none" /\ ~t.transferCommitted /\ @ = s THEN t.transferFrom
       ELSE IF /\ ~t.transferCommitted /\ ~e.needsReplacement /\ ~e.stateError
               /\ ~e.blockCreatedByThisParent /\ @ = s THEN "none"
       ELSE @]

\* The preflight throws.  A lease it acquired and never used is released
\* first, while the reservation is still held.
Refuse(s, t, entries, live) ==
  LET a == AdapterOf[s]
      e == entries[s]
  IN
  /\ entry' = entries
  /\ IF /\ ~t.ownershipPreviouslyHeld /\ ~e.cachedConversationBound
        /\ ~e.providerEverStarted /\ ~e.needsReplacement /\ owns'[a]
     THEN /\ turn' = [turn EXCEPT ![s] = [t EXCEPT !.pc = "releasing"]]
          /\ liveBlock' = [liveBlock EXCEPT ![a] = live]
          /\ UNCHANGED pin
     ELSE Unwind(s, t, e, live)

\* A refusal that changes nothing but the turn itself
JustRefuse(s) ==
  /\ UNCHANGED <<durable, lock, owns, closing, providers>>
  /\ Refuse(s, turn[s], entry, liveBlock[AdapterOf[s]])

\* The finally block of the turn.
EndTurn(s, t, e, turnSafe, live) ==
  /\ SettleLiveBlock(s, live)
  /\ entry' = [entry EXCEPT ![s] =
       [e EXCEPT !.needsReplacement = @ \/ ~turnSafe,
                 !.explicitCancelSettled = @ \/ (/\ ~turnSafe /\ t.aborted
                                                 /\ t.explicitCancelRequested
                                                 /\ ~liveBlock'[AdapterOf[s]])]]
  /\ turn' = [turn EXCEPT ![s] = NoTurn]
  /\ UNCHANGED <<owns, pin, closing>>

FailTurn(s) == EndTurn(s, turn[s], entry[s], FALSE, liveBlock[AdapterOf[s]])

-----------------------------------------------------------------------------
(***************************************************************************)
(* session/prompt: the synchronous guards and the reservation.             *)
(***************************************************************************)
Prompt(s) ==
  LET a == AdapterOf[s]
      e == [entry[s] EXCEPT !.explicitCancelSettled = FALSE]
      t == [NoTurn EXCEPT !.pc = "identity", !.ownershipPreviouslyHeld = owns[a]]
      entries == [entry EXCEPT ![s] = e]
  IN
  /\ ~closing[a] /\ ~Active(s)
  /\ ~entry[s].stateError /\ ~entry[s].channelTransferInvalidated
  /\ UNCHANGED <<durable, lock, owns, closing, providers>>
  /\ IF BusyElsewhere(s)
       THEN Refuse(s, t, entries, liveBlock[a])
       ELSE /\ turn' = [turn EXCEPT ![s] = t]
            /\ entry' = entries
            /\ UNCHANGED <<pin, liveBlock>>

\* With the channel pinned to s, a session that needs a new provider object
\* recovers first; any other loads the record.
Pinned(s, t) ==
  /\ pin' = [pin EXCEPT ![AdapterOf[s]] = s]
  /\ turn' = [turn EXCEPT ![s] =
       [t EXCEPT !.pc = IF entry[s].needsReplacement THEN "recoverScan" ELSE "load"]]
  /\ UNCHANGED <<durable, lock, owns, liveBlock, closing, entry, providers>>

\* verifyIdentity and scope, then the decision whose channel it is.
Identity(s) ==
  LET a == AdapterOf[s]
      other == pin[a]
      recovery == entry[other].explicitCancelSettled /\ entry[other].needsReplacement
      safe == entry[other].safeToTransfer /\ ~entry[other].needsReplacement
      transferable == /\ ~entry[other].channelTransferInvalidated
                      /\ ~entry[other].stateError /\ ~Active(other)
                      /\ ~liveBlock[a] /\ (safe \/ recovery)
  IN
  /\ At(s, "identity")
  /\ \/ JustRefuse(s)                        \* the identity is unavailable or wrong
     \/ other \in {"none", s} /\ Pinned(s, turn[s])
     \/ other \notin {"none", s} /\ ~transferable /\ JustRefuse(s)
     \/ /\ other \notin {"none", s} /\ transferable
        /\ turn' = [turn EXCEPT ![s].existing = other,
                                ![s].pc = IF recovery THEN "cancelLoad" ELSE "deliveryScan"]
        /\ UNCHANGED <<durable, lock, owns, pin, liveBlock, closing, entry, providers>>

-----------------------------------------------------------------------------
(***************************************************************************)
(* Taking the channel over: after a checkpoint, or after an explicit       *)
(* cancellation of its owner.                                              *)
(***************************************************************************)
DeliveryScan(s) ==
  /\ At(s, "deliveryScan")
  /\ \/ JustRefuse(s)                        \* unsettled, or unreadable
     \/ ~Unsettled /\ Pinned(s, [turn[s] EXCEPT !.transferFrom = turn[s].existing])

\* The cancelled owner's record must be the blocked one of this scope.
CancelLoad(s) ==
  LET a == AdapterOf[s] IN
  /\ At(s, "cancelLoad")
  /\ \/ ~owns[a] /\ JustRefuse(s)
     \/ /\ EnsureOwnership(a)                \* not blocked, or unreadable
        /\ UNCHANGED <<durable, closing, providers>>
        /\ Refuse(s, turn[s], entry, liveBlock[a])
     \/ /\ EnsureOwnership(a)
        /\ rec.status = "blocked"
        /\ Goto(s, "cancelScan")
        /\ UNCHANGED <<durable, pin, liveBlock, closing, entry, providers>>

\* retireForRecovery asks the child to stop; one that never existed cannot
\* be confirmed.
Retire(s, t, pc) ==
  IF prov[t] = "none" THEN JustRefuse(s)
  ELSE /\ prov' = [prov EXCEPT ![t] = IF @ = "live" THEN "dying" ELSE @]
       /\ Goto(s, pc)
       /\ UNCHANGED <<durable, lock, owns, pin, liveBlock, closing, entry, conv, orphans>>

CancelScan(s) ==
  /\ At(s, "cancelScan")
  /\ \/ JustRefuse(s)
     \/ ~RefusesReconciliation(s) /\ Retire(s, turn[s].existing, "cancelRetire")

CancelRetire(s) ==
  LET old == turn[s].existing IN
  /\ At(s, "cancelRetire")
  /\ \/ Running(old) /\ JustRefuse(s)        \* no close within the bound
     \/ /\ prov[old] = "closed"
        /\ Pinned(s, [turn[s] EXCEPT !.transferFrom = old,
                                     !.explicitCancelTransfer = TRUE,
                                     !.directProviderRetired = TRUE])

(***************************************************************************)
(* Recovering the session's own failed turn.                               *)
(***************************************************************************)
RecoverScan(s) ==
  /\ At(s, "recoverScan")
  /\ \/ JustRefuse(s)
     \/ ~RefusesReconciliation(s) /\ Retire(s, s, "recoverRetire")

RecoverRetire(s) ==
  /\ At(s, "recoverRetire")
  /\ \/ Running(s) /\ JustRefuse(s)
     \/ /\ prov[s] = "closed"
        /\ turn' = [turn EXCEPT ![s].directProviderRetired = TRUE, ![s].pc = "load"]
        /\ UNCHANGED <<durable, lock, owns, pin, liveBlock, closing, entry, providers>>

-----------------------------------------------------------------------------
(***************************************************************************)
(* Loading, reconciling and binding the durable record.                    *)
(***************************************************************************)
\* Mutant: a replacement object inherits the bound flag of the failed one.
BoundConversationOnce(s) ==
  IF ~entry[s].bound /\ rec.status = "ready" THEN rec.conversationId
  ELSE IF entry[s].needsReplacement THEN "none" ELSE conv[s]

\* The conversation the provider object holds after replacement and binding
BoundConversation(s) ==
  IF (entry[s].needsReplacement \/ ~entry[s].bound) /\ rec.status = "ready"
    THEN rec.conversationId
  ELSE IF entry[s].needsReplacement THEN "none" ELSE conv[s]

\* What follows a record that is absent or ready, up to the await of
\* invalidate: commit a transfer, replace a failed provider object, bind.
Admit(s) ==
  LET a == AdapterOf[s]
      from == turn[s].transferFrom
      saved == rec.status = "ready"
      e == entry[s]
      t == [turn[s] EXCEPT !.transferCommitted = from # "none"]
      rebind == e.needsReplacement \/ ~e.bound
      stale == [x \in Sessions |->
                  IF x = from
                    THEN [entry[x] EXCEPT !.safeToTransfer = FALSE,
                                          !.channelTransferInvalidated = TRUE,
                                          !.explicitCancelSettled = FALSE]
                    ELSE entry[x]]
      entries == [stale EXCEPT ![s] =
                    [@ EXCEPT !.blockCreatedByThisParent = FALSE,
                              !.cachedConversationBound =
                                 \/ rebind /\ saved
                                 \/ ~e.needsReplacement /\ e.cachedConversationBound,
                              !.needsReplacement = FALSE,
                              !.bound = TRUE]]
  IN
  /\ UNCHANGED <<durable, closing, orphans>>
  /\ IF from # "none" /\ ~saved /\ ~(t.explicitCancelTransfer /\ t.clearedCheckpoint)
       THEN UNCHANGED <<prov, conv>> /\ Refuse(s, turn[s], entry, liveBlock[a])
     ELSE IF closing[a] /\ ~e.needsReplacement /\ ~e.bound /\ saved
       \* a closed provider object refuses setTrustedConversation
       THEN /\ UNCHANGED <<prov, conv>>
            /\ Refuse(s, t, [stale EXCEPT ![s].blockCreatedByThisParent = FALSE], liveBlock[a])
     ELSE /\ entry' = entries
          /\ turn' = [turn EXCEPT ![s] = [t EXCEPT !.pc = "invalidate"]]
          /\ prov' = [prov EXCEPT ![s] = IF e.needsReplacement THEN "none" ELSE @]
          /\ conv' = [conv EXCEPT ![s] = BoundConversation(s)]
          /\ UNCHANGED <<pin, liveBlock>>

\* Mutant: a session that started no provider itself takes any block for its own.
NoStartProofOfAnyBlock(s) ==
  ~entry[s].providerEverStarted /\ turn[s].transferFrom = "none" /\ pin[AdapterOf[s]] = s

\* The block was written by this process for this session, which never
\* started a provider.
NoStartProof(s) ==
  /\ entry[s].blockCreatedByThisParent /\ ~entry[s].providerEverStarted
  /\ turn[s].transferFrom = "none" /\ pin[AdapterOf[s]] = s

Load(s) ==
  LET a == AdapterOf[s] IN
  /\ At(s, "load")
  /\ \/ ~owns[a] /\ JustRefuse(s)            \* the lock is held elsewhere
     \/ /\ EnsureOwnership(a)                \* unreadable, or blocked without proof
        /\ UNCHANGED <<durable, closing, providers>>
        /\ Refuse(s, turn[s], entry, liveBlock[a])
     \/ /\ EnsureOwnership(a)
        /\ rec.status = "blocked"
        /\ turn[s].directProviderRetired \/ NoStartProof(s)
        /\ turn' = [turn EXCEPT ![s].directProviderRetired = TRUE, ![s].pc = "reconcile"]
        /\ UNCHANGED <<durable, pin, liveBlock, closing, entry, providers>>
     \/ EnsureOwnership(a) /\ rec.status # "blocked" /\ Admit(s)

\* SessionState.reconcile: restore readiness, or remove an empty association.
Reconcile(s) ==
  LET empty == rec.conversationId = "none" IN
  /\ At(s, "reconcile")
  /\ \/ /\ WriteRecord(IF empty THEN [rec EXCEPT !.status = "absent"]
                       ELSE [rec EXCEPT !.status = "ready"], TRUE)
        /\ turn' = [turn EXCEPT ![s].clearedCheckpoint = @ \/ empty, ![s].pc = "reload"]
        /\ UNCHANGED <<outbox, lock, owns, pin, liveBlock, closing, entry, providers>>
     \/ /\ IF empty THEN "write" \in Faults /\ UNCHANGED rec
                    ELSE WriteRecord([rec EXCEPT !.status = "ready"], FALSE)
        /\ UNCHANGED <<outbox, lock, owns, closing, providers>>
        /\ Refuse(s, turn[s], entry, liveBlock[AdapterOf[s]])

Reload(s) ==
  /\ At(s, "reload")
  /\ \/ "reread" \in Faults /\ JustRefuse(s)
     \/ rec.status # "blocked" /\ UNCHANGED <<lock, owns>> /\ Admit(s)

\* Mutant: blocking a ready record drops its conversation.
InvalidateForgets(s) ==
  LET a == AdapterOf[s] IN
  /\ At(s, "invalidate") /\ ~turn[s].aborted
  /\ rec' = [status |-> "blocked", conversationId |-> "none"]
  /\ entry' = [entry EXCEPT ![s].blockCreatedByThisParent = TRUE,
                            ![s].providerEverStarted = TRUE]
  /\ liveBlock' = [liveBlock EXCEPT ![a] = TRUE]
  /\ prov' = [prov EXCEPT ![s] = "live"]
  /\ Goto(s, "provider")
  /\ UNCHANGED <<outbox, lock, owns, pin, closing, conv, orphans>>

\* SessionState.invalidate, and everything up to the provider's start.
Invalidate(s) ==
  LET a == AdapterOf[s]
      blocked == [rec EXCEPT !.status = "blocked"]
      e == [entry[s] EXCEPT !.blockCreatedByThisParent = TRUE]
  IN
  /\ At(s, "invalidate")
  /\ UNCHANGED <<outbox, lock, owns, closing, conv, orphans>>
  /\ \/ /\ WriteRecord(blocked, FALSE)
        /\ UNCHANGED prov
        /\ Refuse(s, turn[s], entry, liveBlock[a])
     \/ /\ WriteRecord(blocked, TRUE)        \* cancelled, or no publisher
        /\ UNCHANGED prov
        /\ Refuse(s, turn[s], [entry EXCEPT ![s] = e], TRUE)
     \/ /\ WriteRecord(blocked, TRUE)
        /\ ~turn[s].aborted
        /\ entry' = [entry EXCEPT ![s] = [e EXCEPT !.providerEverStarted = TRUE]]
        /\ liveBlock' = [liveBlock EXCEPT ![a] = TRUE]
        /\ \/ prov' = [prov EXCEPT ![s] = "live"]
           \/ UNCHANGED prov                 \* the spawn throws
        /\ Goto(s, "provider")
        /\ UNCHANGED pin

\* releaseOwnership of the unused lease; a release that fails may or may not
\* have freed the lock, and marks the session.
ReleaseLease(s) ==
  LET a == AdapterOf[s] IN
  /\ At(s, "releasing")
  /\ \/ /\ lock' = IF lock = a THEN "free" ELSE lock
        /\ owns' = [owns EXCEPT ![a] = FALSE]
        /\ entry' = [entry EXCEPT ![s].bound = FALSE]
     \/ /\ lock' \in {lock, "free"}
        /\ UNCHANGED owns
        /\ entry' = [entry EXCEPT ![s].stateError = TRUE]
  /\ Unwind(s, turn[s], entry'[s], liveBlock[a])
  /\ UNCHANGED <<durable, closing, providers>>

-----------------------------------------------------------------------------
(***************************************************************************)
(* The turn proper: provider, retirement, staging, publication, readiness. *)
(***************************************************************************)
\* A fresh provider names a conversation no one here knows.
Fresh == Conversations \ ({rec.conversationId} \cup {conv[s] : s \in Sessions})

\* A usable answer with a confirmed conversation: the provider is told to
\* stop before anything is published.
ProviderAnswers(s) ==
  /\ At(s, "provider") /\ prov[s] = "live"
  /\ \E c \in IF conv[s] = "none" THEN Fresh ELSE {conv[s]} :
       conv' = [conv EXCEPT ![s] = c]
  /\ prov' = [prov EXCEPT ![s] = "dying"]
  /\ Goto(s, "retiring")
  /\ UNCHANGED <<durable, lock, owns, pin, liveBlock, closing, entry, orphans>>

\* The turn fails while the provider stays up (an empty answer, no confirmed
\* conversation), is told to stop, or has exited.
ProviderFails(s) ==
  /\ At(s, "provider")
  /\ IF prov[s] = "live"
       THEN \E left \in {"live", "dying", "closed"} : prov' = [prov EXCEPT ![s] = left]
       ELSE UNCHANGED prov
  /\ FailTurn(s)
  /\ UNCHANGED <<durable, lock, conv, orphans>>

\* Mutant: a kill request is taken for an exit.
RetirementUnconfirmed(s) ==
  /\ At(s, "retiring") /\ ~turn[s].aborted
  /\ Goto(s, "staging")
  /\ UNCHANGED <<durable, lock, owns, pin, liveBlock, closing, entry, providers>>

\* Mutant: the wait for the provider's exit has no bound.
RetirementUnbounded(s) ==
  /\ At(s, "retiring") /\ prov[s] = "closed"
  /\ UNCHANGED <<durable, lock, providers>>
  /\ IF ~turn[s].aborted
       THEN Goto(s, "staging") /\ UNCHANGED <<owns, pin, liveBlock, closing, entry>>
       ELSE FailTurn(s)

\* retireForCheckpoint: exit is confirmed, or not within the bound.
Retirement(s) ==
  /\ At(s, "retiring")
  /\ UNCHANGED <<durable, lock, providers>>
  /\ IF prov[s] = "closed" /\ ~turn[s].aborted
       THEN Goto(s, "staging") /\ UNCHANGED <<owns, pin, liveBlock, closing, entry>>
       ELSE FailTurn(s)

\* Mutant: the answer is published although staging failed.
StageCheckpointBestEffort(s) ==
  /\ At(s, "staging")
  /\ \E ok \in BOOLEAN :
       WriteRecord([rec EXCEPT !.conversationId = conv[s]], ok)
  /\ Goto(s, "beginning")
  /\ UNCHANGED <<outbox, lock, owns, pin, liveBlock, closing, entry, providers>>

\* stageCheckpoint: the conversation goes into the record, still blocked.
StageCheckpoint(s) ==
  LET staged == [rec EXCEPT !.conversationId = conv[s]] IN
  /\ At(s, "staging")
  /\ UNCHANGED <<outbox, lock, providers>>
  /\ \/ /\ rec.status = "blocked" /\ WriteRecord(staged, TRUE)
        /\ Goto(s, "beginning")
        /\ UNCHANGED <<owns, pin, liveBlock, closing, entry>>
     \/ (IF rec.status = "blocked" THEN WriteRecord(staged, FALSE) ELSE UNCHANGED rec)
        /\ FailTurn(s)

\* outbox.begin: without a durable record nothing is published.
BeginDelivery(s) ==
  /\ At(s, "beginning")
  /\ UNCHANGED <<rec, lock, providers>>
  /\ \/ /\ outbox' = [outbox EXCEPT ![s] = "inflight"]
        /\ Goto(s, "publishing")
        /\ UNCHANGED <<owns, pin, liveBlock, closing, entry>>
     \/ /\ "write" \in Faults
        /\ UNCHANGED outbox \/ outbox' = [outbox EXCEPT ![s] = "inflight"]
        /\ FailTurn(s)

\* publish(): an aborted turn is answered uncertain at once.
Publish(s) ==
  /\ At(s, "publishing")
  /\ \E status \in IF turn[s].aborted THEN {"uncertain"}
                   ELSE {"sent", "failed-before-start", "uncertain"} :
       turn' = [turn EXCEPT ![s].publication = status, ![s].pc = "updating"]
  /\ UNCHANGED <<durable, lock, owns, pin, liveBlock, closing, entry, providers>>

\* Mutant: an acknowledged record is kept among the unsettled ones.
UpdateDeliveryUnsettled(s) ==
  /\ At(s, "updating")
  /\ outbox' = [outbox EXCEPT ![s] = turn[s].publication]
  /\ Goto(s, "saving")
  /\ UNCHANGED <<rec, lock, owns, pin, liveBlock, closing, entry, providers>>

\* outbox.update: only a persisted sent goes on to readiness.
UpdateDelivery(s) ==
  LET status == turn[s].publication
      settled == [outbox EXCEPT ![s] = IF status = "sent" THEN "none" ELSE status]
  IN
  /\ At(s, "updating")
  /\ UNCHANGED <<rec, lock, providers>>
  /\ \/ /\ outbox' = settled
        /\ IF status = "sent" /\ ~turn[s].aborted
             THEN Goto(s, "saving") /\ UNCHANGED <<owns, pin, liveBlock, closing, entry>>
             ELSE FailTurn(s)
     \/ /\ "write" \in Faults
        /\ UNCHANGED outbox \/ outbox' = settled
        /\ FailTurn(s)

\* SessionState.save: ready, and the token that lets another session take over.
SaveReady(s) ==
  LET ready == [status |-> "ready", conversationId |-> conv[s]] IN
  /\ At(s, "saving")
  /\ UNCHANGED <<outbox, lock, providers>>
  /\ \/ /\ WriteRecord(ready, TRUE)
        /\ EndTurn(s, turn[s], [entry[s] EXCEPT !.blockCreatedByThisParent = FALSE,
                                                !.safeToTransfer = TRUE], TRUE, FALSE)
     \/ /\ WriteRecord(ready, FALSE)
        /\ FailTurn(s)

-----------------------------------------------------------------------------
(***************************************************************************)
(* The world around a turn.                                                *)
(***************************************************************************)
\* session/cancel: a pending provider prompt is rejected, and the turn ends,
\* before its child has exited; any other await goes on.
Cancel(s) ==
  LET t == [turn[s] EXCEPT !.aborted = TRUE, !.explicitCancelRequested = TRUE] IN
  /\ Active(s) /\ ~closing[AdapterOf[s]] /\ t # turn[s]
  /\ UNCHANGED <<durable, lock, conv, orphans>>
  /\ IF At(s, "provider")
       THEN /\ prov' = [prov EXCEPT ![s] = IF @ = "live" THEN "dying" ELSE @]
            /\ EndTurn(s, t, entry[s], FALSE, liveBlock[AdapterOf[s]])
       ELSE /\ turn' = [turn EXCEPT ![s] = t]
            /\ UNCHANGED <<owns, pin, liveBlock, closing, entry, prov>>

\* A child told to stop exits, or an idle one does.
ProviderExits(s) ==
  /\ Running(s) /\ ~(At(s, "provider") /\ prov[s] = "live")
  /\ prov' = [prov EXCEPT ![s] = "closed"]
  /\ UNCHANGED <<durable, lock, memory, conv, orphans>>

OrphanExits ==
  /\ orphans > 0
  /\ orphans' = orphans - 1
  /\ UNCHANGED <<durable, lock, memory, prov, conv>>

\* agy-buzz-recover retry on a failed-before-start record of this channel.
OperatorRetries(d) ==
  /\ outbox[d] = "failed-before-start"
  /\ \E status \in {"none", "uncertain"} : outbox' = [outbox EXCEPT ![d] = status]
  /\ UNCHANGED <<rec, lock, memory, providers>>

\* close(): every turn is aborted and every provider object closed.
CloseBegin(a) ==
  LET mine == {s \in Sessions : AdapterOf[s] = a}
      ended == {s \in mine : At(s, "provider")}
  IN
  /\ ~closing[a]
  /\ closing' = [closing EXCEPT ![a] = TRUE]
  /\ prov' = [s \in Sessions |->
       IF s \in mine /\ prov[s] = "live" THEN "dying" ELSE prov[s]]
  /\ entry' = [s \in Sessions |->
       IF s \in ended THEN [entry[s] EXCEPT !.needsReplacement = TRUE] ELSE entry[s]]
  /\ turn' = [s \in Sessions |->
       IF s \in ended THEN NoTurn
       ELSE IF s \in mine /\ Active(s) THEN [turn[s] EXCEPT !.aborted = TRUE]
       ELSE turn[s]]
  /\ liveBlock' = [liveBlock EXCEPT ![a] = @ /\ ended = {}]
  /\ UNCHANGED <<durable, lock, owns, pin, conv, orphans>>

\* A new process takes the place of adapter a: nothing is left in memory and
\* the operating system has freed the lock.
Restart(a) ==
  LET mine == {s \in Sessions : AdapterOf[s] = a} IN
  /\ lock' = IF lock = a THEN "free" ELSE lock
  /\ owns' = [owns EXCEPT ![a] = FALSE]
  /\ pin' = [pin EXCEPT ![a] = "none"]
  /\ liveBlock' = [liveBlock EXCEPT ![a] = FALSE]
  /\ closing' = [closing EXCEPT ![a] = FALSE]
  /\ entry' = [s \in Sessions |-> IF s \in mine THEN NewEntry ELSE entry[s]]
  /\ turn' = [s \in Sessions |-> IF s \in mine THEN NoTurn ELSE turn[s]]
  /\ prov' = [s \in Sessions |-> IF s \in mine THEN "none" ELSE prov[s]]
  /\ conv' = [s \in Sessions |-> IF s \in mine THEN "none" ELSE conv[s]]

\* Mutant: leases go once every child has been told to stop.
CloseDoneUnconfirmed(a) ==
  /\ closing[a]
  /\ \A s \in Sessions : AdapterOf[s] = a => ~Active(s)
  /\ Restart(a)
  /\ UNCHANGED <<durable, orphans>>

\* close() releases the leases once every handler has settled and every
\* provider's exit is confirmed.
CloseDone(a) ==
  /\ closing[a]
  /\ \A s \in Sessions : AdapterOf[s] = a => ~Active(s) /\ ~Running(s)
  /\ Restart(a)
  /\ UNCHANGED <<durable, orphans>>

\* The process dies; providers it had running may not.
Crash(a) ==
  LET left == Cardinality({s \in Sessions : AdapterOf[s] = a /\ Running(s)}) IN
  /\ orphans + left <= MaxOrphans
  /\ orphans' = orphans + left
  /\ Restart(a)
  /\ UNCHANGED durable

-----------------------------------------------------------------------------
Init ==
  /\ \E earlier \in {"none", EarlierStatus} :
       /\ \/ rec = [status |-> "absent", conversationId |-> "none"]
          \/ earlier = "none" /\ \E c \in Conversations :
               rec = [status |-> "ready", conversationId |-> c]
       /\ outbox = [d \in Sessions \cup {"earlier"} |->
                      IF d = "earlier" THEN earlier ELSE "none"]
  /\ lock = "free"
  /\ owns = [a \in Adapters |-> FALSE]
  /\ pin = [a \in Adapters |-> "none"]
  /\ liveBlock = [a \in Adapters |-> FALSE]
  /\ closing = [a \in Adapters |-> FALSE]
  /\ entry = [s \in Sessions |-> NewEntry]
  /\ turn = [s \in Sessions |-> NoTurn]
  /\ prov = [s \in Sessions |-> "none"]
  /\ conv = [s \in Sessions |-> "none"]
  /\ orphans = 0

\* What the handler of a turn does when the await it is in completes.
Handler(s) ==
  \/ Identity(s) \/ DeliveryScan(s) \/ CancelLoad(s) \/ CancelScan(s) \/ CancelRetire(s)
  \/ RecoverScan(s) \/ RecoverRetire(s) \/ Load(s) \/ Reconcile(s) \/ Reload(s)
  \/ Invalidate(s) \/ ReleaseLease(s)
  \/ ProviderAnswers(s) \/ ProviderFails(s) \/ Retirement(s) \/ StageCheckpoint(s)
  \/ BeginDelivery(s) \/ Publish(s) \/ UpdateDelivery(s) \/ SaveReady(s)

Environment ==
  \/ \E s \in Sessions : Prompt(s) \/ Cancel(s) \/ ProviderExits(s)
  \/ \E d \in DOMAIN outbox : OperatorRetries(d)
  \/ \E a \in Adapters : CloseBegin(a) \/ CloseDone(a) \/ Crash(a)
  \/ OrphanExits

Next == Environment \/ \E s \in Sessions : Handler(s)

Spec == Init /\ [][Next]_vars

\* The event loop serves every await, each of which completes or reaches its
\* bound; a provider ends the prompt it was given, at the latest when its
\* print timeout expires.  Nothing makes a provider told to stop exit.
FairSpec == Spec /\ \A s \in Sessions : WF_vars(Handler(s))

-----------------------------------------------------------------------------
Places ==
  {"idle", "identity", "cancelLoad", "cancelScan", "cancelRetire", "deliveryScan",
   "recoverScan", "recoverRetire", "load", "reconcile", "reload", "invalidate",
   "releasing", "provider", "retiring", "staging", "beginning", "publishing",
   "updating", "saving"}

Deliveries == {"none", "inflight", "failed-before-start", "uncertain"}

EntryType ==
  [bound: BOOLEAN, cachedConversationBound: BOOLEAN, needsReplacement: BOOLEAN,
   providerEverStarted: BOOLEAN, blockCreatedByThisParent: BOOLEAN,
   safeToTransfer: BOOLEAN, channelTransferInvalidated: BOOLEAN,
   explicitCancelSettled: BOOLEAN, stateError: BOOLEAN]

TurnType ==
  [pc: Places, aborted: BOOLEAN, explicitCancelRequested: BOOLEAN,
   ownershipPreviouslyHeld: BOOLEAN, existing: Sessions \cup {"none"},
   transferFrom: Sessions \cup {"none"}, transferCommitted: BOOLEAN,
   explicitCancelTransfer: BOOLEAN, clearedCheckpoint: BOOLEAN,
   directProviderRetired: BOOLEAN,
   publication: {"none", "sent", "failed-before-start", "uncertain"}]

TypeOK ==
  /\ rec \in [status: {"absent", "blocked", "ready"},
              conversationId: Conversations \cup {"none"}]
  /\ outbox \in [Sessions \cup {"earlier"} -> Deliveries]
  /\ lock \in Adapters \cup {"free"}
  /\ owns \in [Adapters -> BOOLEAN]
  /\ pin \in [Adapters -> Sessions \cup {"none"}]
  /\ liveBlock \in [Adapters -> BOOLEAN]
  /\ closing \in [Adapters -> BOOLEAN]
  /\ entry \in [Sessions -> EntryType]
  /\ turn \in [Sessions -> TurnType]
  /\ prov \in [Sessions -> {"none", "live", "dying", "closed"}]
  /\ conv \in [Sessions -> Conversations \cup {"none"}]
  /\ orphans \in Nat

(***************************************************************************)
(* The channel never has two provider processes at work, not even one left *)
(* behind by a dead adapter and one started by its successor.              *)
(***************************************************************************)
OneProvider == Cardinality({s \in Sessions : Running(s)}) + orphans <= 1

(***************************************************************************)
(* While any provider may still be running, whoever started it, the record *)
(* says blocked: a ready or absent record is never read next to a live     *)
(* provider (docs/OFFICIAL_BUZZ_RECOVERY.md:16, checkpoint ordering).      *)
(***************************************************************************)
WorkIsBlocked ==
  orphans > 0 \/ (\E s \in Sessions : Running(s)) => rec.status = "blocked"

(***************************************************************************)
(* A record that is ready or absent leaves no delivery of this channel's   *)
(* turns unsettled: an undelivered or uncertain answer keeps it blocked    *)
(* over cancellation, recovery, transfer, crash and restart.               *)
(***************************************************************************)
UnblockedIsSettled ==
  rec.status # "blocked" => \A s \in Sessions : outbox[s] = "none"

(***************************************************************************)
(* From the moment an answer is prepared for publication its provider is   *)
(* retired, its conversation is in the blocked record, and the adapter     *)
(* holds the lock (acp-server.js:718-733).                                 *)
(***************************************************************************)
PublishesAfterCheckpoint ==
  \A s \in Sessions : turn[s].pc \in {"beginning", "publishing", "updating", "saving"} =>
    /\ prov[s] = "closed"
    /\ rec = [status |-> "blocked", conversationId |-> conv[s]]
    /\ lock = AdapterOf[s]

(***************************************************************************)
(* The in-process liveness guard never outlives the turn that set it; if   *)
(* it did, every later prompt of the channel would be refused              *)
(* (acp-server.js:140-144).                                                *)
(***************************************************************************)
LiveBlockIsLive ==
  \A a \in Adapters : liveBlock[a] => \E s \in Sessions : AdapterOf[s] = a /\ Active(s)

(***************************************************************************)
(* A session whose channel was transferred away is inert for good: no turn *)
(* of it is running, not even one that had begun before the transfer.      *)
(***************************************************************************)
StaleSessionIsInert ==
  \A s \in Sessions : entry[s].channelTransferInvalidated => ~Active(s) /\ ~Running(s)

(***************************************************************************)
(* A provider that works on a channel with a durable conversation resumes  *)
(* exactly that conversation (docs/OFFICIAL_BUZZ_RECOVERY.md:136: a claim  *)
(* binds "its exact conversation ID").                                     *)
(***************************************************************************)
ResumesSavedConversation ==
  \A s \in Sessions : At(s, "provider") /\ rec.conversationId # "none" =>
    conv[s] = rec.conversationId

(***************************************************************************)
(* The former owner of a channel is stale once another session's provider  *)
(* works on it (docs/OFFICIAL_BUZZ_RECOVERY.md:136: it "is permanently     *)
(* invalid for that channel").                                             *)
(***************************************************************************)
FormerOwnerIsStale ==
  \A s, t \in Sessions :
    /\ s # t /\ AdapterOf[s] = AdapterOf[t]
    /\ entry[s].safeToTransfer /\ At(t, "provider")
    => entry[s].channelTransferInvalidated

(***************************************************************************)
(* The durable record changes only at the hand of a turn whose adapter     *)
(* really holds the operating-system lock, even after a release that could *)
(* not be confirmed left ownedChannels stale.                              *)
(***************************************************************************)
RecordChangesUnderLock ==
  [][rec' # rec => \E s \in Sessions : Active(s) /\ lock = AdapterOf[s]]_vars

(***************************************************************************)
(* A lease is given up only once the adapter's providers have exited; what *)
(* a crash leaves behind is counted as an orphan (docs/RECOVERY_DESIGN.md, *)
(* "releasing a lock requires the old child to have exited").              *)
(***************************************************************************)
ReleasesAfterExit ==
  [][\A a \in Adapters : lock = a /\ lock' # a =>
       orphans' > orphans \/ \A s \in Sessions : AdapterOf[s] = a => ~Running(s)]_vars

(***************************************************************************)
(* Once the record names a conversation, no failure, transfer, crash or    *)
(* restart makes it forget that conversation or name another.              *)
(***************************************************************************)
KeepsConversation ==
  [][rec.conversationId # "none" => rec'.conversationId = rec.conversationId]_vars

(***************************************************************************)
(* A record blocked by an adapter that died leaving a provider behind is   *)
(* unknown to every other adapter, which leaves it blocked                 *)
(* (docs/COMPATIBILITY.md:83).                                             *)
(***************************************************************************)
DeadParentsBlockStays ==
  [][rec.status = "blocked" /\ orphans > 0 => rec'.status = "blocked"]_vars

(***************************************************************************)
(* Every accepted prompt is answered: no turn waits for ever for a lock, a *)
(* scan, a provider that does not exit, or another turn.                   *)
(***************************************************************************)
TurnsEnd == \A s \in Sessions : Active(s) ~> ~Active(s)
=============================================================================
