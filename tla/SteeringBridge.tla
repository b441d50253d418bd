--------------------------- MODULE SteeringBridge ---------------------------
(***************************************************************************)
(* The steering bridge: the private directory through which the adapter    *)
(* hands corrections of a running turn to the provider's PostInvocation    *)
(* hook.  It holds state.json (status, guard, active steer and queue), one *)
(* request file and one acknowledgement file per steer, and a native lock  *)
(* that every mutation takes (src/steering.js).                            *)
(*                                                                         *)
(* The critical sections that write more than one file are split at each   *)
(* durable write, so that the unlocked snapshot, a failing write or the    *)
(* death of the hook process can come between two of them.  Text, tokens,  *)
(* permissions and schema checks are abstracted: the conversation, owner   *)
(* and workspace always match, and a check that fails is a refusal.        *)
(***************************************************************************)
EXTENDS Naturals, Sequences, FiniteSets

CONSTANTS
  MaxSteers,    \* corrections the user may ask for
  Hooks,        \* hook processes that may run at the same time
  QueueLimit    \* MAX_PENDING_STEERS

ASSUME MaxSteersAssumption == MaxSteers \in Nat \ {0}
ASSUME QueueLimitAssumption == QueueLimit \in Nat \ {0}

\* Steers are numbered in the order in which the user asks for them; 0 is none.
Steers == 1..MaxSteers

VARIABLES
  bridge,   \* what is on disk
  lock,     \* holder of .steering.lock
  hooks     \* [Hooks -> where the process is, and the steer it carries]

EntryStatuses == {"queued", "awaiting", "injected", "blocked"}
BridgeStatuses == {"ready", "queued", "claimed", "injected", "blocked"}
HookPlaces == {"idle", "running", "claiming", "claimed", "answering"}

EmptyBridge ==
  [status |-> "ready", guard |-> FALSE, active |-> 0, queue |-> <<>>,
   request |-> [s \in Steers |-> "absent"], ack |-> {}]

Waiting(queue) == {i \in DOMAIN queue : queue[i].status \in {"queued", "awaiting"}}

HasStatus(queue, status) == \E i \in DOMAIN queue : queue[i].status = status

Mark(queue, s, status) ==
  [i \in DOMAIN queue |->
     IF queue[i].steer = s THEN [queue[i] EXCEPT !.status = status] ELSE queue[i]]

EntryOf(queue, s) == queue[CHOOSE i \in DOMAIN queue : queue[i].steer = s]

\* A hook that takes the newest entry
LastQueued(queue) ==
  LET last == CHOOSE i \in DOMAIN queue :
                /\ queue[i].status = "queued"
                /\ \A j \in (i + 1)..Len(queue) : queue[j].status # "queued"
  IN queue[last].steer

FirstQueued(queue) ==
  LET first == CHOOSE i \in DOMAIN queue :
                 /\ queue[i].status = "queued"
                 /\ \A j \in 1..(i - 1) : queue[j].status # "queued"
  IN queue[first].steer

\* The request files are marked too, but no reader looks past a blocked state.
BlockState(b) ==
  [b EXCEPT !.status = "blocked", !.guard = TRUE, !.active = 0,
            !.queue = [i \in DOMAIN b.queue |-> [b.queue[i] EXCEPT !.status = "blocked"]]]

-----------------------------------------------------------------------------
(***************************************************************************)
(* SteeringCoordinator.enqueue: the guard and the queue entry are durable  *)
(* before the request can be read.                                         *)
(***************************************************************************)
\* An enqueue that forgets the sentinel
CanEnqueueBlocked(b) == Cardinality(Waiting(b.queue)) < QueueLimit

CanEnqueue(b) == b.status # "blocked" /\ Cardinality(Waiting(b.queue)) < QueueLimit

Enqueued(b, s, floor) ==
  [b EXCEPT !.status = IF b.active # 0 THEN "claimed" ELSE "queued",
            !.guard = TRUE,
            !.queue = Append(@, [steer |-> s, floor |-> floor, status |-> "queued"])]

RequestWritten(b, s) == [b EXCEPT !.request[s] = "queued"]

(***************************************************************************)
(* SteeringCoordinator.observeUserInput: a user_input of the provider      *)
(* confirms the claimed steer only if every file says it was handed over   *)
(* and the step is past the claim's watermark.                             *)
(***************************************************************************)
Claimed(b) == b.status # "blocked" /\ b.active # 0

Confirms(b, step) ==
  LET entry == EntryOf(b.queue, b.active)
  IN  /\ entry.status = "awaiting"
      /\ b.request[entry.steer] = "awaiting"
      /\ step > entry.floor
      /\ entry.steer \in b.ack

RequestInjected(b) == [b EXCEPT !.request[b.active] = "injected"]

\* A confirmation that opens the guard although other corrections wait
ConfirmedUnguards(b) ==
  LET queue == Mark(b.queue, b.active, "injected")
  IN  [b EXCEPT !.status = IF Waiting(queue) # {} THEN "queued" ELSE "injected",
                !.guard = FALSE, !.active = 0, !.queue = queue]

Confirmed(b) ==
  LET queue == Mark(b.queue, b.active, "injected")
      waiting == Waiting(queue) # {}
  IN  [b EXCEPT !.status = IF waiting THEN "queued" ELSE "injected",
                !.guard = waiting, !.active = 0, !.queue = queue]

-----------------------------------------------------------------------------
(***************************************************************************)
(* claimPendingSteer, run by the hook process of the provider.             *)
(***************************************************************************)
HookGoto(h, at, s) == hooks' = [hooks EXCEPT ![h] = [at |-> at, steer |-> s]]

HookIdle == [at |-> "idle", steer |-> 0]

\* A hook that does not look for an earlier claim
NothingQueued(b) == b.status = "blocked" \/ ~HasStatus(b.queue, "queued")

NothingToClaim(b) ==
  \/ b.status = "blocked"
  \/ ~b.guard /\ b.queue = <<>>
  \/ b.active # 0 \/ HasStatus(b.queue, "awaiting")
  \/ ~HasStatus(b.queue, "queued")

\* The hook prints {}: there is nothing it may hand over.
HookFindsNothing(h) ==
  /\ hooks[h].at = "running" /\ lock = "free"
  /\ NothingToClaim(bridge)
  /\ HookGoto(h, "idle", 0)
  /\ UNCHANGED <<bridge, lock>>

\* The request or the acknowledgement of the first queued steer is not as expected.
HookBlocks(h) ==
  /\ hooks[h].at = "running" /\ lock = "free"
  /\ ~NothingToClaim(bridge)
  /\ LET s == FirstQueued(bridge.queue)
     IN bridge.request[s] # "queued" \/ s \in bridge.ack
  /\ bridge' = BlockState(bridge)
  /\ HookGoto(h, "idle", 0)
  /\ UNCHANGED lock

HookClaims(h) ==
  /\ hooks[h].at = "running" /\ lock = "free"
  /\ ~NothingToClaim(bridge)
  /\ LET s == FirstQueued(bridge.queue)
     IN /\ bridge.request[s] = "queued" /\ s \notin bridge.ack
        /\ bridge' = [bridge EXCEPT !.status = "claimed", !.guard = TRUE, !.active = s,
                                    !.queue = Mark(@, s, "awaiting")]
        /\ HookGoto(h, "claiming", s)
  /\ lock' = "hook"

HookMarksRequest(h) ==
  /\ hooks[h].at = "claiming"
  /\ bridge' = [bridge EXCEPT !.request[hooks[h].steer] = "awaiting"]
  /\ HookGoto(h, "claimed", hooks[h].steer)
  /\ UNCHANGED lock

HookAcknowledges(h) ==
  /\ hooks[h].at = "claimed"
  /\ bridge' = [bridge EXCEPT !.ack = @ \cup {hooks[h].steer}]
  /\ HookGoto(h, "answering", hooks[h].steer)
  /\ lock' = "free"

\* The process dies, a write or the lock fails (runSteeringHook prints {}), or
\* nobody reads what it prints.  The system releases a lock it held.
HookDies(h) ==
  /\ hooks[h].at # "idle"
  /\ HookGoto(h, "idle", 0)
  /\ lock' = IF hooks[h].at \in {"claiming", "claimed"} THEN "free" ELSE lock
  /\ UNCHANGED bridge

HookStep(h) ==
  \/ HookFindsNothing(h) \/ HookBlocks(h) \/ HookClaims(h)
  \/ HookMarksRequest(h) \/ HookAcknowledges(h)

BridgeTypeOK ==
  /\ bridge \in [status : BridgeStatuses, guard : BOOLEAN, active : Steers \cup {0},
                 queue : Seq([steer : Steers, floor : Nat, status : EntryStatuses]),
                 request : [Steers -> {"absent", "queued", "awaiting", "injected"}],
                 ack : SUBSET Steers]
  /\ lock \in {"free", "adapter", "hook"}
  /\ hooks \in [Hooks -> [at : HookPlaces, steer : Steers \cup {0}]]
=============================================================================
