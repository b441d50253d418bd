---------------------------- MODULE SteeredTurn -----------------------------
(***************************************************************************)
(* The turns of one AgySession with steering enabled, over the steering    *)
(* bridge (src/agy-session.js over src/steering.js).  The user asks for    *)
(* corrections while a turn runs; the session queues them on the bridge,   *)
(* watches for the hook's claim, confirms each by the provider's           *)
(* user_input, splits the answer into segments, and fails closed when it   *)
(* cannot tell what happened.                                              *)
(*                                                                         *)
(* A callback of the session is one action; what it waits for (a lock, a   *)
(* write, a settled promise) is a place in turn.  Frames of the provider's *)
(* stdout are received one at a time, possibly in two pieces.  The first   *)
(* turn opens the conversation; later ones continue it.                    *)
(*                                                                         *)
(* External: the provider echoes each input it takes as one user_input     *)
(* with a growing step index, runs the hook after a model invocation, and  *)
(* no other injector exists (AGY_STEER_INJECTOR_EXCLUSIVE).                *)
(***************************************************************************)
EXTENDS SteeringBridge, SequencesExt

CONSTANTS
  MaxTurns,        \* prompts of the session
  DeferredLimit    \* maxDeferredEvents

ASSUME MaxTurnsAssumption == MaxTurns \in Nat \ {0}
ASSUME DeferredLimitAssumption == DeferredLimit \in Nat

VARIABLES
  turn,       \* the session and its pending prompt
  provider    \* the provider process and its stdout

vars == <<bridge, lock, hooks, turn, provider>>

\* after: which correction an input is, or a text was written after; 0 for a prompt
Frame(kind, step, after) == [kind |-> kind, step |-> step, after |-> after]

NoObservation == [at |-> "none", step |-> 0, steer |-> 0]

(***************************************************************************)
(* The pending prompt.  op[s] is the enqueue operation of a steer; ids the *)
(* queued steers without a confirmation; segment the texts since the last  *)
(* confirmed correction, each marked with the inputs the provider had      *)
(* heard when it wrote it; failing how far failSteeringPending has come.   *)
(***************************************************************************)
FreshTurn(number, binding, watermark, verdict) ==
  [number |-> number, result |-> "none", answer |-> <<>>, child |-> TRUE,
   binding |-> binding, watermark |-> watermark, verdict |-> verdict,
   op |-> [s \in Steers |-> "none"], floor |-> [s \in Steers |-> 0],
   asked |-> 0, injected |-> 0, ids |-> {}, polled |-> {}, timed |-> {},
   initialSeen |-> FALSE, input |-> 0, observation |-> NoObservation,
   deferred |-> <<>>, segment |-> <<>>, final |-> "none",
   failure |-> "none", failing |-> "no"]

Pending(t) == t.result = "none"
InFlight(t) == {s \in Steers : t.op[s] # "none"}
Observing(t) == t.observation.at # "none"

Unsettled(t) ==
  InFlight(t) # {} \/ t.ids # {} \/ Observing(t) \/ t.asked > t.injected

RejectWaiters(t) ==
  [t EXCEPT !.verdict = [s \in Steers |->
                           IF t.verdict[s] = "open" THEN "rejected" ELSE t.verdict[s]],
            !.ids = {}, !.polled = {}, !.timed = {}]

\* failSteeringPending up to its first await.  Pollers and timers do nothing from here on.
FailSteering(t, why) ==
  IF t.failure # "none" THEN t
  ELSE [t EXCEPT !.failure = why, !.failing = "block", !.polled = {}, !.timed = {}]

\* failResume: the child is dropped and stopped
FailResume(t, why) ==
  [t EXCEPT !.child = FALSE,
            !.result = IF Pending(t) THEN "failed" ELSE @,
            !.failure = IF @ = "none" THEN why ELSE @]

FailProviderEvent(t, why) ==
  IF Pending(t) /\ Unsettled(t) THEN FailSteering(t, why) ELSE FailResume(t, why)

MaybeFinish(t) ==
  IF \/ ~Pending(t) \/ t.failure # "none" \/ t.final = "none"
     \/ InFlight(t) # {} \/ Observing(t)
  THEN t
  ELSE IF t.ids # {} \/ t.asked > t.injected THEN FailSteering(t, "uncertain")
  ELSE IF t.final = "error" THEN [t EXCEPT !.result = "failed"]
  ELSE IF t.injected > 0 /\ t.segment = <<>> THEN FailSteering(t, "uncertain")
  ELSE [t EXCEPT !.result = "ok", !.answer = t.segment]

\* A budget checked after the frame is held
DeferOneMore(t, frame) ==
  IF Len(t.deferred) > DeferredLimit THEN FailProviderEvent(t, "uncertain")
  ELSE [t EXCEPT !.deferred = Append(@, frame)]

Defer(t, frame) ==
  IF Len(t.deferred) >= DeferredLimit THEN FailProviderEvent(t, "uncertain")
  ELSE [t EXCEPT !.deferred = Append(@, frame)]

HandleInput(t, step) ==
  IF t.input # 0 THEN FailSteering(t, "uncertain")
  ELSE IF InFlight(t) # {} THEN [t EXCEPT !.input = step]
  ELSE IF Observing(t) \/ t.ids = {} THEN FailSteering(t, "uncertain")
  ELSE [t EXCEPT !.observation = [at |-> "asked", step |-> step, steer |-> 0]]

\* processProviderLine for a frame that reaches the switch on its event
Interpret(t, frame) ==
  CASE frame.kind = "input" /\ ~t.initialSeen -> [t EXCEPT !.initialSeen = TRUE]
    [] frame.kind = "input" /\ t.initialSeen  -> HandleInput(t, frame.step)
    [] frame.kind = "init" ->
         IF t.binding = "unbound" THEN [t EXCEPT !.binding = "binding"] ELSE t
    [] frame.kind = "text" -> [t EXCEPT !.segment = Append(@, frame.after)]
    [] frame.kind \in {"success", "error"} -> MaybeFinish([t EXCEPT !.final = frame.kind])

Process(t, frame) ==
  IF frame.kind # "init" /\ t.binding # "bound"
  THEN IF Unsettled(t) /\ frame.kind \in {"success", "error"}
       THEN FailSteering(t, "uncertain")
       ELSE Defer(t, frame)
  ELSE LET seen == [t EXCEPT !.watermark = IF frame.step > @ THEN frame.step ELSE @]
       IN IF frame.kind # "input" /\ (seen.input # 0 \/ Observing(seen))
          THEN Defer(seen, frame)
          ELSE Interpret(seen, frame)

(***************************************************************************)
(* Held frames go through the line decoder of the live stream again, so a  *)
(* frame of which only a part has arrived (cut) runs into the first one.   *)
(***************************************************************************)
Again(u, frame, cut) ==
  IF ~Pending(u) \/ u.failure # "none" THEN u
  ELSE IF cut THEN FailProviderEvent(u, "stream")
  ELSE Process(u, frame)

Replay(t, cut) ==
  LET after[i \in 0..Len(t.deferred)] ==
        IF i = 0 THEN [t EXCEPT !.deferred = <<>>]
        ELSE Again(after[i - 1], t.deferred[i], cut)
  IN after[Len(t.deferred)]

\* Whether the pipe has cut the next frame
Cuts == IF provider.stdout # <<>> /\ turn.child THEN BOOLEAN ELSE {FALSE}

-----------------------------------------------------------------------------
(***************************************************************************)
(* Asking and queueing.                                                    *)
(***************************************************************************)
Session == UNCHANGED <<bridge, lock, hooks, provider>>

Steer(s) ==
  /\ Pending(turn) /\ turn.failing \in {"no", "block"} /\ turn.child
  /\ turn.verdict[s] = "unasked" /\ \A r \in 1..(s - 1) : turn.verdict[r] # "unasked"
  /\ turn' = [turn EXCEPT !.verdict[s] = "open", !.op[s] = "waiting",
                          !.floor[s] = turn.watermark, !.asked = @ + 1]
  /\ Session

\* The operation waits for the binding, then for the bridge lock.
EnqueueState(s) ==
  /\ turn.op[s] = "waiting" /\ turn.binding = "bound"
  /\ lock = "free" /\ CanEnqueue(bridge)
  /\ bridge' = Enqueued(bridge, s, turn.floor[s])
  /\ lock' = "adapter"
  /\ turn' = [turn EXCEPT !.op[s] = "writing"]
  /\ UNCHANGED <<hooks, provider>>

EnqueueRequest(s) ==
  /\ turn.op[s] = "writing"
  /\ bridge' = RequestWritten(bridge, s)
  /\ lock' = "free"
  /\ turn' = [turn EXCEPT !.op[s] = "written"]
  /\ UNCHANGED <<hooks, provider>>

\* Binding failed, bridge blocked, queue full, lock busy for too long, or a write failed.
EnqueueFails(s) ==
  /\ \/ turn.op[s] = "writing"
     \/ turn.op[s] = "waiting" /\ turn.binding \in {"bound", "failed"}
  /\ turn' = [turn EXCEPT !.op[s] = "failed"]
  /\ lock' = IF turn.op[s] = "writing" THEN "free" ELSE lock
  /\ UNCHANGED <<bridge, hooks, provider>>

EnqueueSettles(s) ==
  /\ turn.op[s] \in {"written", "failed"}
  /\ LET t == [turn EXCEPT !.op[s] = "none"]
     IN turn' = IF turn.op[s] = "failed" THEN FailSteering(t, "uncertain")
                ELSE IF ~Pending(t) \/ t.failure # "none" THEN t
                ELSE MaybeFinish([t EXCEPT !.ids = @ \cup {s}, !.polled = @ \cup {s}])
  /\ Session

(***************************************************************************)
(* Watching the claim.                                                     *)
(***************************************************************************)
Watching(s) == s \in turn.polled /\ Pending(turn) /\ turn.failure = "none"

PollSeesClaim(s) ==
  /\ Watching(s) /\ s \in turn.ids /\ bridge.status # "blocked"
  /\ bridge.active = s \/ EntryOf(bridge.queue, s).status = "awaiting"
  /\ turn' = [turn EXCEPT !.polled = @ \ {s},
                          !.timed = @ \cup {s}]
  /\ Session

PollSeesInjected(s) ==
  /\ Watching(s) /\ bridge.status # "blocked"
  /\ s \notin turn.ids \/ EntryOf(bridge.queue, s).status = "injected"
  /\ turn' = [turn EXCEPT !.polled = @ \ {s}]
  /\ Session

\* The bridge is blocked, or three snapshots failed.
PollFails(s) ==
  /\ Watching(s) /\ s \in turn.ids
  /\ turn' = FailSteering([turn EXCEPT !.polled = @ \ {s}], "uncertain")
  /\ Session

ClaimTimesOut(s) ==
  /\ s \in turn.timed /\ Pending(turn) /\ turn.failure = "none"
  /\ turn' = FailSteering(turn, "uncertain")
  /\ Session

(***************************************************************************)
(* The provider's stdout.                                                  *)
(***************************************************************************)
Receive ==
  /\ Pending(turn) /\ turn.child /\ provider.stdout # <<>>
  /\ turn' = Process(turn, Head(provider.stdout))
  /\ provider' = [provider EXCEPT !.stdout = Tail(@)]
  /\ UNCHANGED <<bridge, lock, hooks>>

\* Promise.allSettled of the operations an input had to wait for
RehandleInput ==
  /\ turn.input # 0 /\ InFlight(turn) = {}
  /\ LET t == [turn EXCEPT !.input = 0]
     IN turn' = IF Pending(t) /\ t.failure = "none" THEN HandleInput(t, turn.input) ELSE t
  /\ Session

(***************************************************************************)
(* Binding the conversation of the first turn.                             *)
(***************************************************************************)
Bind ==
  /\ turn.binding = "binding" /\ lock = "free"
  /\ bridge.status # "blocked" /\ ~bridge.guard /\ bridge.queue = <<>>
  /\ LET t == [turn EXCEPT !.binding = "bound"]
     IN \E cut \in Cuts :
          turn' = IF Pending(t) THEN MaybeFinish(Replay(t, cut)) ELSE t
  /\ Session

\* The bridge is not clean, which blocks it; or its lock stays busy, or a write fails,
\* that of the block included.
BindFails ==
  /\ turn.binding = "binding"
  /\ \/ lock = "free" /\ (bridge.guard \/ bridge.queue # <<>>) /\ bridge' = BlockState(bridge)
     \/ UNCHANGED bridge
  /\ turn' = FailProviderEvent([turn EXCEPT !.binding = "failed"], "uncertain")
  /\ UNCHANGED <<lock, hooks, provider>>

(***************************************************************************)
(* Observing the provider's user_input.                                    *)
(***************************************************************************)
ObserveRequest ==
  /\ turn.observation.at = "asked" /\ lock = "free"
  /\ Claimed(bridge) /\ Confirms(bridge, turn.observation.step)
  /\ turn' = [turn EXCEPT !.observation.at = "writing", !.observation.steer = bridge.active]
  /\ bridge' = RequestInjected(bridge)
  /\ lock' = "adapter"
  /\ UNCHANGED <<hooks, provider>>

ObserveState ==
  /\ turn.observation.at = "writing"
  /\ bridge' = Confirmed(bridge)
  /\ lock' = "free"
  /\ turn' = [turn EXCEPT !.observation.at = "confirmed"]
  /\ UNCHANGED <<hooks, provider>>

\* Files that do not agree with a claim block the bridge; without a claim, with a busy
\* lock or a failing write, that of the block included, it stays as it is.
ObserveFails ==
  /\ turn.observation.at \in {"asked", "writing"}
  /\ turn' = [turn EXCEPT !.observation.at = "failed"]
  /\ \/ /\ turn.observation.at = "asked" /\ lock = "free"
        /\ Claimed(bridge) /\ ~Confirms(bridge, turn.observation.step)
        /\ bridge' = BlockState(bridge)
     \/ UNCHANGED bridge
  /\ lock' = IF turn.observation.at = "writing" THEN "free" ELSE lock
  /\ UNCHANGED <<hooks, provider>>

\* A confirmation that goes on with the segment it finds
AcknowledgedInSegment(t, s) ==
  [t EXCEPT !.verdict[s] = "injected", !.ids = @ \ {s}, !.timed = @ \ {s}, !.injected = @ + 1]

Acknowledged(t, s) ==
  [t EXCEPT !.verdict[s] = "injected", !.ids = @ \ {s}, !.timed = @ \ {s}, !.injected = @ + 1,
            !.segment = <<>>]

ObservationSettles ==
  /\ turn.observation.at \in {"confirmed", "failed"}
  /\ LET s == turn.observation.steer
         t == [turn EXCEPT !.observation = NoObservation]
     IN \E cut \in Cuts :
          turn' = IF turn.observation.at = "failed" THEN FailSteering(t, "uncertain")
                  ELSE IF ~Pending(t) \/ t.failure # "none" THEN t
                  ELSE IF s \notin t.ids THEN FailSteering(t, "uncertain")
                  ELSE MaybeFinish(Replay(Acknowledged(t, s), cut))
  /\ Session

(***************************************************************************)
(* Failing closed: block the bridge, stop the provider, end the turn.      *)
(***************************************************************************)
\* block() does not wait: the lock may be busy, or the write may fail.
BlockSettles ==
  /\ turn.failing = "block"
  /\ \/ lock = "free" /\ bridge' = BlockState(bridge)
     \/ UNCHANGED bridge
  /\ turn' = [turn EXCEPT !.failing = "stop",
                          !.binding = IF @ = "bound" THEN @ ELSE "failed"]
  /\ UNCHANGED <<lock, hooks, provider>>

\* A failure that forgets who waits
FailureSettlesSilently ==
  /\ turn.failing = "stop"
  /\ turn' = [turn EXCEPT !.failing = "done", !.child = FALSE,
                          !.result = IF Pending(turn) THEN "failed" ELSE @]
  /\ Session

\* The provider closed, or its retirement timed out.
FailureSettles ==
  /\ turn.failing = "stop"
  /\ turn' = LET t == RejectWaiters([turn EXCEPT !.failing = "done", !.child = FALSE])
             IN IF Pending(t) THEN [t EXCEPT !.result = "failed"] ELSE t
  /\ Session

Cancel ==
  /\ Pending(turn)
  /\ turn' = RejectWaiters([turn EXCEPT !.result = "cancelled", !.child = FALSE])
  /\ Session

\* An error of the child process or of its stdin
ChildFails ==
  /\ turn.child /\ Pending(turn) /\ turn.failure = "none"
  /\ turn' = IF Unsettled(turn) THEN FailSteering(turn, "uncertain") ELSE FailResume(turn, "uncertain")
  /\ Session

ChildCloses ==
  /\ turn.child /\ ~provider.alive /\ provider.stdout = <<>>
  /\ LET t == [turn EXCEPT !.child = FALSE]
     IN turn' = IF t.failure # "none" \/ ~Pending(t) THEN t
                ELSE IF Unsettled(t) THEN FailSteering(t, "uncertain")
                ELSE FailResume(t, "uncertain")
  /\ Session

\* The next prompt of a session whose last turn succeeded
NextPrompt ==
  /\ turn.result = "ok" /\ turn.failing = "no" /\ turn.number < MaxTurns
  /\ turn' = FreshTurn(turn.number + 1, turn.binding, turn.watermark, turn.verdict)
  /\ provider' = [provider EXCEPT !.alive = TRUE, !.at = "prompted", !.stdout = <<>>]
  /\ UNCHANGED <<bridge, lock, hooks>>

-----------------------------------------------------------------------------
(***************************************************************************)
(* The provider (external).                                                *)
(***************************************************************************)
ProviderOnly == UNCHANGED <<bridge, lock, hooks, turn>>

Emit(frames, at) ==
  [provider EXCEPT !.at = at, !.stdout = @ \o frames, !.step = @ + 1]

ProviderOpens ==
  /\ provider.alive /\ provider.at = "started"
  /\ LET init == Frame("init", 0, 0)
         input == Frame("input", provider.step, 0)
     IN \E frames \in {<<init, input>>, <<input, init>>} :
          provider' = Emit(frames, "generating")
  /\ ProviderOnly

ProviderTakesPrompt ==
  /\ provider.alive /\ provider.at = "prompted"
  /\ provider' = Emit(<<Frame("input", provider.step, 0)>>, "generating")
  /\ ProviderOnly

ProviderWrites ==
  /\ provider.alive /\ provider.at = "generating"
  /\ provider' = Emit(<<Frame("text", provider.step, Len(provider.heard))>>, "invoked")
  /\ ProviderOnly

ProviderRunsHook(h) ==
  /\ provider.alive /\ provider.at = "invoked" /\ hooks[h].at = "idle"
  /\ HookGoto(h, "running", 0)
  /\ UNCHANGED <<bridge, lock, turn, provider>>

ProviderInjects(h) ==
  /\ provider.alive /\ provider.at \in {"invoked", "generating"}
  /\ hooks[h].at = "answering"
  /\ HookGoto(h, "idle", 0)
  /\ provider' = [Emit(<<Frame("input", provider.step, Len(provider.heard) + 1)>>, "generating")
                    EXCEPT !.heard = Append(@, hooks[h].steer)]
  /\ UNCHANGED <<bridge, lock, turn>>

ProviderEnds ==
  /\ provider.alive /\ provider.at = "invoked"
  /\ \A h \in Hooks : hooks[h].at = "idle"
  /\ \E kind \in {"success", "error"} : provider' = Emit(<<Frame(kind, 0, 0)>>, "ended")
  /\ ProviderOnly

ProviderExits ==
  /\ provider.alive
  /\ provider' = [provider EXCEPT !.alive = FALSE]
  /\ ProviderOnly

-----------------------------------------------------------------------------
Init ==
  /\ bridge = EmptyBridge /\ lock = "free"
  /\ hooks = [h \in Hooks |-> HookIdle]
  /\ turn = FreshTurn(1, "unbound", 0, [s \in Steers |-> "unasked"])
  /\ provider = [alive |-> TRUE, at |-> "started", step |-> 1, heard |-> <<>>,
                 stdout |-> <<>>]

SteerWork(s) ==
  \/ EnqueueState(s) \/ EnqueueRequest(s) \/ EnqueueFails(s) \/ EnqueueSettles(s)
  \/ PollSeesClaim(s) \/ PollSeesInjected(s) \/ PollFails(s) \/ ClaimTimesOut(s)

SessionWork ==
  \/ Receive \/ RehandleInput \/ Bind \/ BindFails
  \/ ObserveRequest \/ ObserveState \/ ObserveFails \/ ObservationSettles
  \/ BlockSettles \/ FailureSettles \/ ChildCloses

HookWork(h) == HookStep(h) /\ UNCHANGED <<turn, provider>>

HookDeath(h) == HookDies(h) /\ UNCHANGED <<turn, provider>>

ProviderWork(h) ==
  ProviderRunsHook(h) \/ ProviderInjects(h)

Next ==
  \/ \E s \in Steers : Steer(s) \/ SteerWork(s)
  \/ SessionWork \/ Cancel \/ ChildFails \/ NextPrompt
  \/ \E h \in Hooks : HookWork(h) \/ HookDeath(h) \/ ProviderWork(h)
  \/ ProviderOpens \/ ProviderTakesPrompt \/ ProviderWrites \/ ProviderEnds \/ ProviderExits

Spec == Init /\ [][Next]_vars

(***************************************************************************)
(* Callbacks of the session and hook processes are scheduled; the provider *)
(* may hang, but its print timeout ends the process.                       *)
(***************************************************************************)
FairSpec ==
  /\ Spec
  /\ WF_vars(SessionWork)
  /\ \A s \in Steers : WF_vars(SteerWork(s))
  /\ \A h \in Hooks : WF_vars(HookWork(h))
  /\ WF_vars(ProviderExits)

-----------------------------------------------------------------------------
Verdicts == {"unasked", "open", "injected", "rejected"}

(***************************************************************************)
(* Types: what a session, the provider and the bridge may hold.            *)
(***************************************************************************)
TypeOK ==
  /\ BridgeTypeOK
  /\ turn.number \in 1..MaxTurns
  /\ turn.result \in {"none", "ok", "failed", "cancelled"}
  /\ turn.binding \in {"unbound", "binding", "bound", "failed"}
  /\ turn.verdict \in [Steers -> Verdicts]
  /\ turn.op \in [Steers -> {"none", "waiting", "writing", "written", "failed"}]
  /\ turn.ids \cup turn.polled \cup turn.timed \subseteq Steers
  /\ turn.observation \in [at : {"none", "asked", "writing", "confirmed", "failed"},
                           step : Nat, steer : Steers \cup {0}]
  /\ turn.failing \in {"no", "block", "stop", "done"}
  /\ Len(turn.deferred) <= DeferredLimit
  /\ turn.injected <= turn.asked
  /\ provider.heard \in Seq(Steers)

(***************************************************************************)
(* A turn that succeeds has had every correction the user asked for        *)
(* confirmed: none is still in an operation, on the bridge or refused.     *)
(***************************************************************************)
SuccessIsConfirmed ==
  turn.result = "ok" => \A s \in Steers : turn.verdict[s] \in {"unasked", "injected"}

(***************************************************************************)
(* The answer of a turn that succeeds is what the provider wrote after it  *)
(* heard the last correction, all of it and nothing earlier; and all that  *)
(* the user asked for are confirmed.                                       *)
(***************************************************************************)
AnswerFollowsCorrections ==
  /\ turn.result = "ok" => turn.answer = <<Len(provider.heard)>>
  /\ SuccessIsConfirmed

(***************************************************************************)
(* At every instant, so also where the adapter dies, a correction that is  *)
(* on the bridge and not durably confirmed leaves the bridge guarded: the  *)
(* next session of the owner will not build on it.                         *)
(***************************************************************************)
UnconfirmedIsGuarded ==
  \A i \in DOMAIN bridge.queue : bridge.queue[i].status # "injected" => bridge.guard

(***************************************************************************)
(* Whichever hook processes run, die or are late, the provider hears the   *)
(* corrections in the order of the queue and skips none: it never hears    *)
(* one whose predecessor may still come.                                   *)
(***************************************************************************)
HeardInQueueOrder ==
  IsPrefix(provider.heard, [i \in DOMAIN bridge.queue |-> bridge.queue[i].steer])

(***************************************************************************)
(* The sentinel is final: once a bridge is blocked no late hook, operation *)
(* or confirmation of an earlier claim makes it usable again.              *)
(***************************************************************************)
BlockedIsFinal == [][bridge.status = "blocked" => bridge'.status = "blocked"]_vars

(***************************************************************************)
(* Every correction the user asks for is answered, whatever the provider,  *)
(* the hook, the lock and the disk do.                                     *)
(***************************************************************************)
SteersSettle ==
  \A s \in Steers : turn.verdict[s] = "open" ~> turn.verdict[s] \in {"injected", "rejected"}

(***************************************************************************)
(* Refinement: what is promised about each correction.                     *)
(***************************************************************************)
Heard(s) == Cardinality({i \in DOMAIN provider.heard : provider.heard[i] = s})

Corrections == INSTANCE CorrectionLedger WITH
  correction <- [s \in Steers |-> [heard |-> Heard(s), verdict |-> turn.verdict[s]]]

(***************************************************************************)
(* The conversation hears each correction at most once, and only one it    *)
(* has heard is reported as injected; a report is never taken back.        *)
(***************************************************************************)
ImplementsCorrections == Corrections!CorrectionSpec
=============================================================================
