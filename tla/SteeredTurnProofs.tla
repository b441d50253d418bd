------------------------- MODULE SteeredTurnProofs --------------------------
(***************************************************************************)
(* Proofs about the turns of a steered session over its bridge, for any    *)
(* corrections, hook processes, turns and limits.                          *)
(***************************************************************************)
EXTENDS SteeredTurn, FiniteSetTheorems, SequenceTheorems, WellFoundedInduction, TLAPS

-----------------------------------------------------------------------------
(***************************************************************************)
(* Types.                                                                  *)
(***************************************************************************)
OpPlaces == {"none", "waiting", "writing", "written", "failed"}

ObservationType ==
  [at : {"none", "asked", "writing", "confirmed", "failed"}, step : Nat, steer : Steers \cup {0}]

FrameType == [kind : {"init", "input", "text", "success", "error"}, step : Nat, after : Nat]

Failures == {"none", "uncertain", "stream"}

TurnType ==
  [number : 1..MaxTurns, result : {"none", "ok", "failed", "cancelled"}, answer : Seq(Nat),
   child : BOOLEAN, binding : {"unbound", "binding", "bound", "failed"}, watermark : Nat,
   verdict : [Steers -> Verdicts], op : [Steers -> OpPlaces], floor : [Steers -> Nat],
   asked : Nat, injected : Nat, ids : SUBSET Steers, polled : SUBSET Steers,
   timed : SUBSET Steers, initialSeen : BOOLEAN, input : Nat, observation : ObservationType,
   deferred : Seq(FrameType), segment : Seq(Nat), final : {"none", "success", "error"},
   failure : Failures, failing : {"no", "block", "stop", "done"}]

EntryType == [steer : Steers, floor : Nat, status : EntryStatuses]

BridgeType ==
  [status : BridgeStatuses, guard : BOOLEAN, active : Steers \cup {0}, queue : Seq(EntryType),
   request : [Steers -> {"absent", "queued", "awaiting", "injected"}], ack : SUBSET Steers]

ProviderType ==
  [alive : BOOLEAN, at : {"started", "prompted", "generating", "invoked", "ended"},
   step : Nat, heard : Seq(Steers), stdout : Seq(FrameType)]

Types ==
  /\ turn \in TurnType /\ provider \in ProviderType
  /\ bridge \in BridgeType /\ lock \in {"free", "adapter", "hook"}
  /\ hooks \in [Hooks -> [at : HookPlaces, steer : Steers \cup {0}]]

LEMMA SteerNumbers == Steers \subseteq Nat /\ 0 \notin Steers /\ IsFiniteSet(Steers)
<1>1. Steers \subseteq Nat /\ 0 \notin Steers
  BY MaxSteersAssumption DEF Steers
<1>2. IsFiniteSet(1..MaxSteers)
  BY MaxSteersAssumption, FS_Interval
<1>3. QED BY <1>1, <1>2 DEF Steers

LEMMA NoObservationType == NoObservation \in ObservationType /\ NoObservation.at = "none"
  BY DEF NoObservation, ObservationType

-----------------------------------------------------------------------------
(***************************************************************************)
(* Replaying the held frames is a loop over them.  What is shown of a turn *)
(* before the loop and kept by each round holds after it.                  *)
(***************************************************************************)
LEMMA Least ==
  ASSUME NEW S \in SUBSET Nat, S # {}
  PROVE  \E m \in S : \A k \in S : m <= k
<1>1. IsWellFoundedOn(OpToRel(<, Nat), Nat)
  BY NatLessThanWellFounded
<1>2. PICK m \in S : \A k \in S : <<k, m>> \notin OpToRel(<, Nat)
  BY <1>1, WFMin, Zenon
<1>3. \A k \in S : ~(k < m)
  BY <1>2 DEF OpToRel
<1>4. QED BY <1>3

\* f[i] is the turn after i of n rounds.
Rounds(f, t, cut, n) ==
  f = [i \in 0..n |-> IF i = 0 THEN [t EXCEPT !.deferred = <<>>]
                      ELSE Again(f[i - 1], t.deferred[i], cut)]

LEMMA RoundsExist ==
  ASSUME NEW t, NEW cut, NEW n \in Nat
  PROVE  \E f : Rounds(f, t, cut, n)
<1> DEFINE Bad == {m \in Nat : ~\E f : Rounds(f, t, cut, m)}
<1>1. SUFFICES ASSUME Bad # {} PROVE FALSE
  OBVIOUS
<1>2. PICK m \in Bad : \A k \in Bad : m <= k
  BY <1>1, Least
<1>3. m # 0
  <2> DEFINE g == [i \in 0..0 |-> [t EXCEPT !.deferred = <<>>]]
  <2>1. Rounds(g, t, cut, 0)
    BY DEF Rounds
  <2>2. QED BY <2>1
<1>4. PICK f : Rounds(f, t, cut, m - 1)
  <2>1. m - 1 \in Nat /\ m - 1 \notin Bad
    BY <1>2, <1>3
  <2>2. QED BY <2>1
<1> DEFINE g == [i \in 0..m |-> IF i < m THEN f[i] ELSE Again(f[m - 1], t.deferred[m], cut)]
<1>5. \A i \in 0..m : g[i] = IF i = 0 THEN [t EXCEPT !.deferred = <<>>]
                             ELSE Again(g[i - 1], t.deferred[i], cut)
  BY <1>3, <1>4, SMTT(30) DEF Rounds
<1>6. Rounds(g, t, cut, m)
  BY <1>5 DEF Rounds
<1>7. QED BY <1>6

LEMMA ReplayLoop ==
  ASSUME NEW t \in TurnType, NEW cut \in BOOLEAN, NEW S,
         [t EXCEPT !.deferred = <<>>] \in S[0],
         \A i \in 1..Len(t.deferred) : \A u \in S[i - 1] : Again(u, t.deferred[i], cut) \in S[i]
  PROVE  Replay(t, cut) \in S[Len(t.deferred)]
<1>1. Len(t.deferred) \in Nat
  BY DEF TurnType
<1>2. PICK F : Rounds(F, t, cut, Len(t.deferred)) /\ Replay(t, cut) = F[Len(t.deferred)]
  <2> DEFINE Is(f) == f = [i \in 0..Len(t.deferred) |->
                             IF i = 0 THEN [t EXCEPT !.deferred = <<>>]
                             ELSE Again(f[i - 1], t.deferred[i], cut)]
             F == CHOOSE f : Is(f)
  <2>1. \E f : Is(f)
    <3>1. PICK f : Rounds(f, t, cut, Len(t.deferred))
      BY <1>1, RoundsExist, Zenon
    <3>2. Is(f)
      BY <3>1, Zenon DEF Rounds
    <3>3. QED BY <3>2, Zenon
  <2>2. Is(F)
    BY <2>1
  <2>3. Replay(t, cut) = F[Len(t.deferred)]
    BY DEF Replay
  <2>4. QED BY <2>2, <2>3 DEF Rounds
<1>3. F[0] = [t EXCEPT !.deferred = <<>>]
  BY <1>1, <1>2 DEF Rounds
<1>4. \A i \in 1..Len(t.deferred) : F[i] = Again(F[i - 1], t.deferred[i], cut)
  <2>1. TAKE i \in 1..Len(t.deferred)
  <2>2. i \in 0..Len(t.deferred) /\ i # 0
    BY <1>1
  <2>3. QED BY <1>2, <2>2, Zenon DEF Rounds
<1> DEFINE Bad == {i \in 0..Len(t.deferred) : F[i] \notin S[i]}
<1>5. Bad = {}
  <2>1. SUFFICES ASSUME Bad # {} PROVE FALSE
    OBVIOUS
  <2>2. Bad \in SUBSET Nat
    BY <1>1
  <2>3. PICK m \in Bad : \A k \in Bad : m <= k
    BY <2>1, <2>2, Least, Zenon
  <2>4. m # 0
    BY <1>3
  <2>5. m \in 1..Len(t.deferred) /\ m - 1 \in 0..Len(t.deferred) /\ ~(m <= m - 1)
    BY <1>1, <2>3, <2>4
  <2>6. F[m - 1] \in S[m - 1]
    BY <2>3, <2>5, Zenon
  <2>7. F[m] \in S[m]
    BY <1>4, <2>5, <2>6, Zenon
  <2>8. QED BY <2>7
<1>6. F[Len(t.deferred)] \in S[Len(t.deferred)]
  BY <1>1, <1>5
<1>7. QED BY <1>2, <1>6

-----------------------------------------------------------------------------
(***************************************************************************)
(* What the operators of the turn leave alone, whatever they decide.       *)
(***************************************************************************)
Ends(t) == t.result = "ok" => InFlight(t) = {} /\ ~Observing(t)

Keeps(t, u) ==
  /\ u \in TurnType
  /\ u.verdict = t.verdict /\ u.op = t.op /\ u.ids = t.ids
  /\ u.asked = t.asked /\ u.injected = t.injected
  /\ u.binding = "bound" <=> t.binding = "bound"
  /\ u.result = "none" => t.result = "none"
  /\ Ends(t) => Ends(u)

SameStream(t, u) == u.input = t.input /\ u.observation = t.observation

Still(t, u) ==
  Keeps(t, u) /\ SameStream(t, u) /\ u.deferred = t.deferred /\ u.initialSeen = t.initialSeen

LEMMA StillItself == ASSUME NEW t \in TurnType PROVE Still(t, t)
  BY DEF Still, Keeps, SameStream

LEMMA StillSteps ==
  ASSUME NEW t, NEW u, NEW v, Still(t, u), Still(u, v)
  PROVE  Still(t, v)
  BY DEF Still, Keeps, SameStream

\* A change of a turn that is not about its corrections or its inputs
Elsewhere(t, u) ==
  /\ u.verdict = t.verdict /\ u.op = t.op /\ u.ids = t.ids
  /\ u.asked = t.asked /\ u.injected = t.injected
  /\ u.input = t.input /\ u.observation = t.observation
  /\ u.deferred = t.deferred /\ u.initialSeen = t.initialSeen

LEMMA ElsewhereStill ==
  ASSUME NEW t, NEW u \in TurnType, Elsewhere(t, u),
         u.binding = "bound" <=> t.binding = "bound",
         \/ u.result = t.result \/ u.result = "failed"
         \/ (u.result = "ok" /\ InFlight(t) = {} /\ ~Observing(t))
  PROVE  Still(t, u)
<1>1. InFlight(u) = InFlight(t) /\ Observing(u) = Observing(t)
  BY DEF Elsewhere, InFlight, Observing
<1>2. Ends(t) => Ends(u)
  BY <1>1, Zenon DEF Ends
<1>3. QED BY <1>2 DEF Still, Keeps, SameStream, Elsewhere

LEMMA FailSteeringStill ==
  ASSUME NEW t \in TurnType, NEW why \in Failures
  PROVE  Still(t, FailSteering(t, why))
<1>1. CASE FailSteering(t, why) = t
  BY <1>1, StillItself
<1>2. CASE FailSteering(t, why) =
             [t EXCEPT !.failure = why, !.failing = "block", !.polled = {}, !.timed = {}]
  <2> DEFINE u == [t EXCEPT !.failure = why, !.failing = "block", !.polled = {}, !.timed = {}]
  <2>1. u \in TurnType /\ Elsewhere(t, u) /\ u.binding = t.binding /\ u.result = t.result
    BY ZenonT(30) DEF TurnType, Elsewhere, Failures
  <2> HIDE DEF u
  <2>2. Still(t, u)
    BY <2>1, ElsewhereStill
  <2>3. QED BY <1>2, <2>2 DEF u
<1>3. QED BY <1>1, <1>2 DEF FailSteering

LEMMA FailResumeStill ==
  ASSUME NEW t \in TurnType, NEW why \in Failures
  PROVE  Still(t, FailResume(t, why))
<1>1. CASE Pending(t)
  <2>1. FailResume(t, why) = [t EXCEPT !.child = FALSE, !.result = "failed",
                                !.failure = IF t.failure = "none" THEN why ELSE t.failure]
    BY <1>1 DEF FailResume, TurnType
  <2> DEFINE u == [t EXCEPT !.child = FALSE, !.result = "failed",
                            !.failure = IF t.failure = "none" THEN why ELSE t.failure]
  <2>2. u \in TurnType /\ Elsewhere(t, u) /\ u.binding = t.binding /\ u.result = "failed"
    BY ZenonT(30) DEF TurnType, Elsewhere, Failures
  <2> HIDE DEF u
  <2>3. Still(t, u)
    BY <2>2, ElsewhereStill
  <2>4. QED BY <2>1, <2>3 DEF u
<1>2. CASE ~Pending(t)
  <2>1. FailResume(t, why) = [t EXCEPT !.child = FALSE,
                                !.failure = IF t.failure = "none" THEN why ELSE t.failure]
    BY <1>2 DEF FailResume, TurnType
  <2> DEFINE u == [t EXCEPT !.child = FALSE,
                            !.failure = IF t.failure = "none" THEN why ELSE t.failure]
  <2>2. u \in TurnType /\ Elsewhere(t, u) /\ u.binding = t.binding /\ u.result = t.result
    BY ZenonT(30) DEF TurnType, Elsewhere, Failures
  <2> HIDE DEF u
  <2>3. Still(t, u)
    BY <2>2, ElsewhereStill
  <2>4. QED BY <2>1, <2>3 DEF u
<1>3. QED BY <1>1, <1>2

LEMMA FailProviderEventStill ==
  ASSUME NEW t \in TurnType, NEW why \in Failures
  PROVE  Still(t, FailProviderEvent(t, why))
  BY FailSteeringStill, FailResumeStill DEF FailProviderEvent

LEMMA MaybeFinishStill ==
  ASSUME NEW t \in TurnType
  PROVE  Still(t, MaybeFinish(t))
<1> DEFINE Waits == \/ ~Pending(t) \/ t.failure # "none" \/ t.final = "none"
                    \/ InFlight(t) # {} \/ Observing(t)
<1>1. CASE MaybeFinish(t) = t
  BY <1>1, StillItself
<1>2. CASE MaybeFinish(t) = FailSteering(t, "uncertain")
  BY <1>2, FailSteeringStill DEF Failures
<1>3. CASE MaybeFinish(t) = [t EXCEPT !.result = "failed"]
  <2> DEFINE u == [t EXCEPT !.result = "failed"]
  <2>1. u \in TurnType /\ Elsewhere(t, u) /\ u.binding = t.binding /\ u.result = "failed"
    BY DEF TurnType, Elsewhere
  <2> HIDE DEF u
  <2>2. Still(t, u)
    BY <2>1, ElsewhereStill
  <2>3. QED BY <1>3, <2>2 DEF u
<1>4. CASE ~Waits /\ MaybeFinish(t) = [t EXCEPT !.result = "ok", !.answer = t.segment]
  <2> DEFINE u == [t EXCEPT !.result = "ok", !.answer = t.segment]
  <2>1. u \in TurnType /\ Elsewhere(t, u) /\ u.binding = t.binding /\ u.result = "ok"
    BY DEF TurnType, Elsewhere
  <2> HIDE DEF u
  <2>2. InFlight(t) = {} /\ ~Observing(t)
    BY <1>4
  <2>3. Still(t, u)
    BY <2>1, <2>2, ElsewhereStill
  <2>4. QED BY <1>4, <2>3 DEF u
<1>5. QED BY <1>1, <1>2, <1>3, <1>4 DEF MaybeFinish

(***************************************************************************)
(* A frame is held, or is the input of the prompt, or the input of a       *)
(* correction, or changes nothing of the above.                            *)
(***************************************************************************)
Held(t, u, frame) ==
  /\ Keeps(t, u) /\ SameStream(t, u) /\ u.initialSeen = t.initialSeen
  /\ u.deferred = Append(t.deferred, frame) /\ Len(t.deferred) < DeferredLimit
  /\ frame.kind = "input" => t.binding # "bound"

Opened(t, u, frame) ==
  /\ Keeps(t, u) /\ SameStream(t, u) /\ u.deferred = t.deferred
  /\ frame.kind = "input" /\ ~t.initialSeen /\ u.initialSeen /\ t.binding = "bound"

Handled(t, u) ==
  /\ Keeps(t, u) /\ u.deferred = t.deferred /\ u.initialSeen = t.initialSeen
  /\ t.input = 0
  /\ \/ u.observation = t.observation
     \/ u.input = 0 /\ u.observation.at = "asked" /\ ~Observing(t)

LEMMA DeferEffect ==
  ASSUME NEW t \in TurnType, NEW frame \in FrameType,
         frame.kind = "input" => t.binding # "bound"
  PROVE  Still(t, Defer(t, frame)) \/ Held(t, Defer(t, frame), frame)
<1>1. CASE Len(t.deferred) >= DeferredLimit
  BY <1>1, FailProviderEventStill DEF Defer, Failures
<1>2. CASE ~(Len(t.deferred) >= DeferredLimit)
  <2>1. Defer(t, frame) = [t EXCEPT !.deferred = Append(t.deferred, frame)]
    BY <1>2 DEF Defer, TurnType
  <2>2. t.deferred \in Seq(FrameType) /\ Len(t.deferred) \in Nat
    BY DEF TurnType
  <2>3. Append(t.deferred, frame) \in Seq(FrameType) /\ Len(t.deferred) < DeferredLimit
    BY <1>2, <2>2, DeferredLimitAssumption
  <2> DEFINE u == [t EXCEPT !.deferred = Append(t.deferred, frame)]
  <2>4. /\ u \in TurnType /\ u.initialSeen = t.initialSeen /\ u.binding = t.binding
        /\ u.result = t.result /\ u.verdict = t.verdict /\ u.op = t.op /\ u.ids = t.ids
        /\ u.asked = t.asked /\ u.injected = t.injected
        /\ u.input = t.input /\ u.observation = t.observation
        /\ u.deferred = Append(t.deferred, frame)
    BY <2>3 DEF TurnType
  <2> HIDE DEF u
  <2>5. Held(t, u, frame)
    BY <2>3, <2>4 DEF Held, Keeps, SameStream, Ends, InFlight, Observing
  <2>6. QED BY <2>1, <2>5 DEF u
<1>3. QED BY <1>1, <1>2

LEMMA HandleInputEffect ==
  ASSUME NEW t \in TurnType, NEW step \in Nat, Pending(t)
  PROVE  Still(t, HandleInput(t, step)) \/ Handled(t, HandleInput(t, step))
<1>1. CASE HandleInput(t, step) = FailSteering(t, "uncertain")
  BY <1>1, FailSteeringStill DEF Failures
<1>2. CASE t.input = 0 /\ HandleInput(t, step) = [t EXCEPT !.input = step]
  <2> DEFINE u == [t EXCEPT !.input = step]
  <2>1. /\ u \in TurnType /\ u.initialSeen = t.initialSeen /\ u.binding = t.binding
        /\ u.result = t.result /\ u.verdict = t.verdict /\ u.op = t.op /\ u.ids = t.ids
        /\ u.asked = t.asked /\ u.injected = t.injected
        /\ u.observation = t.observation /\ u.deferred = t.deferred
    BY DEF TurnType
  <2> HIDE DEF u
  <2>2. Handled(t, u)
    BY <1>2, <2>1 DEF Handled, Keeps, Ends, Pending
  <2>3. QED BY <1>2, <2>2 DEF u
<1>3. CASE /\ t.input = 0 /\ ~Observing(t)
           /\ HandleInput(t, step) =
                [t EXCEPT !.observation = [at |-> "asked", step |-> step, steer |-> 0]]
  <2>1. [at |-> "asked", step |-> step, steer |-> 0] \in ObservationType
    BY DEF ObservationType
  <2> DEFINE u == [t EXCEPT !.observation = [at |-> "asked", step |-> step, steer |-> 0]]
  <2>2. /\ u \in TurnType /\ u.initialSeen = t.initialSeen /\ u.binding = t.binding
        /\ u.result = t.result /\ u.verdict = t.verdict /\ u.op = t.op /\ u.ids = t.ids
        /\ u.asked = t.asked /\ u.injected = t.injected
        /\ u.input = t.input /\ u.deferred = t.deferred /\ u.observation.at = "asked"
    BY <2>1 DEF TurnType
  <2> HIDE DEF u
  <2>3. Handled(t, u)
    BY <1>3, <2>2 DEF Handled, Keeps, Ends, Pending
  <2>4. QED BY <1>3, <2>3 DEF u
<1>4. QED BY <1>1, <1>2, <1>3 DEF HandleInput

Taken(t, u, frame) ==
  \/ Still(t, u) \/ Held(t, u, frame) \/ Opened(t, u, frame)
  \/ frame.kind = "input" /\ t.initialSeen /\ t.binding = "bound" /\ Handled(t, u)

LEMMA TakenAfterStill ==
  ASSUME NEW t, NEW s, NEW u, NEW frame, Still(t, s), Taken(s, u, frame)
  PROVE  Taken(t, u, frame)
<1>1. Observing(s) = Observing(t)
  BY DEF Still, SameStream, Observing
<1>2. QED BY <1>1, StillSteps DEF Taken, Still, Held, Opened, Handled, Keeps, SameStream

LEMMA InterpretEffect ==
  ASSUME NEW t \in TurnType, NEW frame \in FrameType, Pending(t),
         frame.kind = "input" => t.binding = "bound"
  PROVE  Taken(t, Interpret(t, frame), frame)
<1>1. CASE frame.kind = "input" /\ ~t.initialSeen
  <2>1. Interpret(t, frame) = [t EXCEPT !.initialSeen = TRUE]
    BY <1>1 DEF Interpret
  <2> DEFINE u == [t EXCEPT !.initialSeen = TRUE]
  <2>2. /\ u \in TurnType /\ u.initialSeen /\ u.binding = t.binding /\ u.result = t.result
        /\ u.verdict = t.verdict /\ u.op = t.op /\ u.ids = t.ids
        /\ u.asked = t.asked /\ u.injected = t.injected
        /\ u.input = t.input /\ u.observation = t.observation /\ u.deferred = t.deferred
    BY DEF TurnType
  <2> HIDE DEF u
  <2>3. Opened(t, u, frame)
    BY <1>1, <2>2 DEF Opened, Keeps, SameStream, Ends, InFlight, Observing
  <2>4. QED BY <2>1, <2>3 DEF Taken, u
<1>2. CASE frame.kind = "input" /\ t.initialSeen
  <2>1. Interpret(t, frame) = HandleInput(t, frame.step)
    BY <1>2 DEF Interpret
  <2>2. frame.step \in Nat
    BY DEF FrameType
  <2>3. QED BY <1>2, <2>1, <2>2, HandleInputEffect DEF Taken
<1>3. CASE frame.kind = "init"
  <2>1. Interpret(t, frame) = IF t.binding = "unbound" THEN [t EXCEPT !.binding = "binding"] ELSE t
    BY <1>3 DEF Interpret
  <2>2. CASE t.binding = "unbound"
    <3> DEFINE u == [t EXCEPT !.binding = "binding"]
    <3>1. u \in TurnType /\ Elsewhere(t, u) /\ u.binding # "bound" /\ u.result = t.result
      BY DEF TurnType, Elsewhere
    <3> HIDE DEF u
    <3>2. Still(t, u)
      <4>1. t.binding # "bound"
        BY <2>2
      <4>2. QED BY <3>1, <4>1, ElsewhereStill
    <3>3. QED BY <2>1, <2>2, <3>2 DEF Taken, u
  <2>3. CASE t.binding # "unbound"
    BY <2>1, <2>3, StillItself DEF Taken
  <2>4. QED BY <2>2, <2>3
<1>4. CASE frame.kind = "text"
  <2>1. Interpret(t, frame) = [t EXCEPT !.segment = Append(t.segment, frame.after)]
    BY <1>4 DEF Interpret, TurnType
  <2>2. Append(t.segment, frame.after) \in Seq(Nat)
    BY DEF TurnType, FrameType
  <2> DEFINE u == [t EXCEPT !.segment = Append(t.segment, frame.after)]
  <2>3. u \in TurnType /\ Elsewhere(t, u) /\ u.binding = t.binding /\ u.result = t.result
    BY <2>2 DEF TurnType, Elsewhere
  <2> HIDE DEF u
  <2>4. Still(t, u)
    BY <2>3, ElsewhereStill
  <2>5. QED BY <2>1, <2>4 DEF Taken, u
<1>5. CASE frame.kind \in {"success", "error"}
  <2>1. Interpret(t, frame) = MaybeFinish([t EXCEPT !.final = frame.kind])
    BY <1>5 DEF Interpret
  <2> DEFINE u == [t EXCEPT !.final = frame.kind]
  <2>2. u \in TurnType /\ Elsewhere(t, u) /\ u.binding = t.binding /\ u.result = t.result
    BY <1>5 DEF TurnType, Elsewhere
  <2> HIDE DEF u
  <2>3. Still(t, u) /\ Still(u, MaybeFinish(u))
    BY <2>2, ElsewhereStill, MaybeFinishStill
  <2>4. Still(t, MaybeFinish(u))
    BY <2>3, StillSteps
  <2>5. QED BY <2>1, <2>4 DEF Taken, u
<1>6. QED BY <1>1, <1>2, <1>3, <1>4, <1>5 DEF FrameType

LEMMA ProcessEffect ==
  ASSUME NEW t \in TurnType, NEW frame \in FrameType, Pending(t)
  PROVE  Taken(t, Process(t, frame), frame)
<1>1. CASE frame.kind # "init" /\ t.binding # "bound"
  <2>1. CASE Process(t, frame) = FailSteering(t, "uncertain")
    BY <2>1, FailSteeringStill DEF Taken, Failures
  <2>2. CASE Process(t, frame) = Defer(t, frame)
    BY <1>1, <2>2, DeferEffect DEF Taken
  <2>3. QED BY <1>1, <2>1, <2>2 DEF Process
<1>2. CASE ~(frame.kind # "init" /\ t.binding # "bound")
  <2> DEFINE mark == IF frame.step > t.watermark THEN frame.step ELSE t.watermark
             seen == [t EXCEPT !.watermark = mark]
  <2>1. mark \in Nat
    BY DEF TurnType, FrameType
  <2>2. /\ seen \in TurnType /\ Elsewhere(t, seen)
        /\ seen.binding = t.binding /\ seen.result = t.result
    BY <2>1 DEF TurnType, Elsewhere
  <2>3. seen = [t EXCEPT !.watermark = IF frame.step > @ THEN frame.step ELSE @]
    BY DEF TurnType
  <2> HIDE DEF seen
  <2>4. Still(t, seen) /\ Pending(seen)
    BY <2>2, ElsewhereStill DEF Pending
  <2>5. CASE Process(t, frame) = Defer(seen, frame) /\ frame.kind # "input"
    <3>1. Taken(seen, Defer(seen, frame), frame)
      BY <2>2, <2>5, DeferEffect DEF Taken
    <3>2. QED BY <2>4, <2>5, <3>1, TakenAfterStill
  <2>6. CASE Process(t, frame) = Interpret(seen, frame)
    <3>1. Taken(seen, Interpret(seen, frame), frame)
      BY <1>2, <2>2, <2>4, InterpretEffect
    <3>2. QED BY <2>4, <2>6, <3>1, TakenAfterStill
  <2>7. QED BY <1>2, <2>3, <2>5, <2>6 DEF Process
<1>3. QED BY <1>1, <1>2

LEMMA HeldFrames ==
  ASSUME NEW t \in TurnType
  PROVE  t.deferred \in Seq(FrameType) /\ Len(t.deferred) \in Nat
<1>1. t.deferred \in Seq(FrameType)
  BY DEF TurnType
<1>2. QED BY <1>1

LEMMA AgainEffect ==
  ASSUME NEW u \in TurnType, NEW frame \in FrameType, NEW cut \in BOOLEAN
  PROVE  Taken(u, Again(u, frame, cut), frame)
<1>1. CASE Again(u, frame, cut) = u
  BY <1>1, StillItself DEF Taken
<1>2. CASE Again(u, frame, cut) = FailProviderEvent(u, "stream")
  BY <1>2, FailProviderEventStill DEF Taken, Failures
<1>3. CASE Pending(u) /\ Again(u, frame, cut) = Process(u, frame)
  BY <1>3, ProcessEffect
<1>4. QED BY <1>1, <1>2, <1>3 DEF Again

(***************************************************************************)
(* A bound turn whose held frames hold at most the input of its prompt     *)
(* comes out of a replay with its corrections untouched and no input held. *)
(***************************************************************************)
HeldInput(t) == \E i \in 1..Len(t.deferred) : t.deferred[i].kind = "input"

OnlyPromptHeld(t) ==
  \A i \in 1..Len(t.deferred) : t.deferred[i].kind = "input" =>
    /\ ~t.initialSeen
    /\ \A j \in 1..Len(t.deferred) : t.deferred[j].kind = "input" => i = j

Replayed(t, u) ==
  /\ Keeps(t, u) /\ SameStream(t, u)
  /\ Len(u.deferred) <= Len(t.deferred) /\ ~HeldInput(u)
  /\ u.initialSeen => t.initialSeen \/ HeldInput(t)

LEMMA KeepsSteps ==
  ASSUME NEW t, NEW u, NEW v, Keeps(t, u) /\ SameStream(t, u), Keeps(u, v) /\ SameStream(u, v)
  PROVE  Keeps(t, v) /\ SameStream(t, v)
  BY DEF Keeps, SameStream

\* After i rounds
Reached(t, u, i) ==
  /\ u \in TurnType /\ Keeps(t, u) /\ SameStream(t, u)
  /\ Len(u.deferred) <= i /\ ~HeldInput(u)
  /\ u.initialSeen => t.initialSeen \/ \E j \in 1..i : t.deferred[j].kind = "input"

LEMMA RoundEffect ==
  ASSUME NEW t \in TurnType, NEW cut \in BOOLEAN, t.binding = "bound", OnlyPromptHeld(t),
         NEW i \in 1..Len(t.deferred), NEW u, Reached(t, u, i - 1)
  PROVE  Reached(t, Again(u, t.deferred[i], cut), i)
<1>1. PICK frame \in FrameType : frame = t.deferred[i]
  BY DEF TurnType
<1>2. PICK v : v = Again(u, frame, cut)
  OBVIOUS
<1>3. /\ u \in TurnType /\ Keeps(t, u) /\ SameStream(t, u)
      /\ Len(u.deferred) <= i - 1 /\ ~HeldInput(u) /\ u.binding = "bound"
  BY DEF Reached, Keeps
<1>4. /\ Len(t.deferred) \in Nat /\ Len(u.deferred) \in Nat /\ i \in Nat /\ i - 1 \in Nat
      /\ u.deferred \in Seq(FrameType)
  BY <1>3, HeldFrames
<1>5. Taken(u, v, frame)
  BY <1>2, <1>3, AgainEffect
<1>6. ~(frame.kind = "input" /\ u.initialSeen)
  <2>1. SUFFICES ASSUME frame.kind = "input", u.initialSeen PROVE FALSE
    OBVIOUS
  <2>2. ~t.initialSeen
    BY <1>1, <2>1 DEF OnlyPromptHeld
  <2>3. PICK j \in 1..(i - 1) : t.deferred[j].kind = "input"
    BY <2>1, <2>2 DEF Reached
  <2>4. j \in 1..Len(t.deferred)
    BY <1>4
  <2>5. j = i
    BY <1>1, <2>1, <2>3, <2>4 DEF OnlyPromptHeld
  <2>6. QED BY <1>4, <2>5
<1>7. Keeps(u, v) /\ SameStream(u, v)
  BY <1>5, <1>6 DEF Taken, Still, Held, Opened
<1>8. v \in TurnType /\ Keeps(t, v) /\ SameStream(t, v)
  BY <1>3, <1>7, KeepsSteps DEF Keeps
<1>9. Len(v.deferred) <= i /\ ~HeldInput(v)
  <2>1. CASE v.deferred = u.deferred
    BY <1>3, <1>4, <2>1 DEF HeldInput
  <2>2. CASE Held(u, v, frame)
    <3>1. v.deferred = Append(u.deferred, frame) /\ frame.kind # "input"
      BY <1>3, <2>2 DEF Held
    <3>2. /\ Len(v.deferred) = Len(u.deferred) + 1
          /\ \A k \in 1..Len(v.deferred) :
               v.deferred[k] = IF k <= Len(u.deferred) THEN u.deferred[k] ELSE frame
      BY <1>4, <3>1
    <3>3. QED BY <1>3, <1>4, <3>1, <3>2 DEF HeldInput
  <2>3. QED BY <1>5, <1>6, <2>1, <2>2 DEF Taken, Still, Opened
<1>10. v.initialSeen => t.initialSeen \/ \E j \in 1..i : t.deferred[j].kind = "input"
  <2>1. CASE v.initialSeen = u.initialSeen
    BY <1>4, <2>1 DEF Reached
  <2>2. CASE frame.kind = "input"
    BY <1>1, <1>4, <2>2
  <2>3. QED BY <1>5, <1>6, <2>1, <2>2 DEF Taken, Still, Held, Opened
<1>11. QED BY <1>1, <1>2, <1>8, <1>9, <1>10 DEF Reached

LEMMA ReplayEffect ==
  ASSUME NEW t \in TurnType, NEW cut \in BOOLEAN, t.binding = "bound", OnlyPromptHeld(t)
  PROVE  Replayed(t, Replay(t, cut))
<1>1. Len(t.deferred) \in Nat
  BY HeldFrames
<1>2. PICK S : S = [i \in 0..Len(t.deferred) |-> {u \in TurnType : Reached(t, u, i)}]
  OBVIOUS
<1>3. [t EXCEPT !.deferred = <<>>] \in S[0]
  <2>0. PICK none \in Seq(FrameType) : none = <<>>
    BY EmptySeq
  <2> DEFINE u == [t EXCEPT !.deferred = none]
  <2>1. /\ u \in TurnType /\ u.deferred = none /\ u.initialSeen = t.initialSeen
        /\ u.binding = t.binding /\ u.result = t.result
        /\ u.verdict = t.verdict /\ u.op = t.op /\ u.ids = t.ids
        /\ u.asked = t.asked /\ u.injected = t.injected
        /\ u.input = t.input /\ u.observation = t.observation
    BY DEF TurnType
  <2> HIDE DEF u
  <2>2. Keeps(t, u) /\ SameStream(t, u)
    BY <2>1 DEF Keeps, SameStream, Ends, InFlight, Observing
  <2>3. Len(u.deferred) <= 0 /\ ~HeldInput(u)
    BY <2>0, <2>1 DEF HeldInput
  <2>4. Reached(t, u, 0)
    BY <2>1, <2>2, <2>3 DEF Reached
  <2>5. u \in S[0]
    BY <1>1, <1>2, <2>1, <2>4
  <2>6. QED BY <2>0, <2>5 DEF u
<1>4. ASSUME NEW i \in 1..Len(t.deferred), NEW u \in S[i - 1]
      PROVE  Again(u, t.deferred[i], cut) \in S[i]
  <2>1. i \in 0..Len(t.deferred) /\ i - 1 \in 0..Len(t.deferred)
    BY <1>1
  <2>2. Reached(t, u, i - 1)
    BY <1>2, <2>1
  <2>3. Reached(t, Again(u, t.deferred[i], cut), i)
    BY <2>2, RoundEffect
  <2>4. Again(u, t.deferred[i], cut) \in TurnType
    BY <2>3 DEF Reached
  <2>5. QED BY <1>2, <2>1, <2>3, <2>4
<1>5. Replay(t, cut) \in S[Len(t.deferred)]
  BY <1>3, <1>4, ReplayLoop
<1>6. Reached(t, Replay(t, cut), Len(t.deferred))
  BY <1>1, <1>2, <1>5
<1>7. QED BY <1>6 DEF Reached, Replayed, HeldInput

-----------------------------------------------------------------------------
(***************************************************************************)
(* The inductive invariant.  First the account a turn keeps of its         *)
(* corrections.                                                            *)
(***************************************************************************)
TurnInv(t) ==
  /\ \A s \in Steers :
       /\ t.op[s] # "none" => t.verdict[s] # "unasked"
       /\ t.op[s] # "none" /\ Pending(t) => t.verdict[s] = "open"
       /\ s \in t.ids => t.verdict[s] = "open" /\ t.op[s] = "none"
  /\ t.injected + Cardinality(t.ids \cup InFlight(t)) <= t.asked
  /\ Len(t.deferred) <= DeferredLimit
  /\ Ends(t)

Blocked == bridge.status = "blocked"
Hears == Len(provider.heard)
HeardSteer(s) == \E i \in 1..Len(provider.heard) : provider.heard[i] = s
Carrying(h) == hooks[h].at \in {"claiming", "claimed", "answering"}

\* One writer at a time
LockInv ==
  /\ \A s \in Steers : turn.op[s] = "writing" =>
       /\ lock = "adapter" /\ turn.observation.at # "writing"
       /\ \A r \in Steers : turn.op[r] = "writing" => r = s
  /\ turn.observation.at = "writing" => lock = "adapter"
  /\ \A h \in Hooks : hooks[h].at \in {"claiming", "claimed"} => lock = "hook"

\* A correction is queued once, and only after it was asked for.
QueueInv ==
  /\ bridge.queue # <<>> => turn.binding = "bound"
  /\ \A i, j \in 1..Len(bridge.queue) : bridge.queue[i].steer = bridge.queue[j].steer => i = j
  /\ \A i \in 1..Len(bridge.queue) :
       /\ turn.verdict[bridge.queue[i].steer] # "unasked"
       /\ turn.op[bridge.queue[i].steer] # "waiting"
  /\ Blocked => bridge.guard

\* On a bridge that is not blocked a status says how far its correction has come.
EntryInv(i) ==
  /\ bridge.queue[i].status # "blocked"
  /\ bridge.queue[i].status # "injected" => bridge.guard
  /\ bridge.queue[i].status = "awaiting" <=> bridge.queue[i].steer = bridge.active
  /\ bridge.queue[i].status = "injected" => i <= Hears
  /\ bridge.queue[i].status = "queued" => i > Hears
  /\ bridge.queue[i].status = "awaiting" => i = Hears \/ i = Hears + 1

OrderInv ==
  /\ Hears <= Len(bridge.queue)
  /\ \A i \in 1..Hears : provider.heard[i] = bridge.queue[i].steer
  /\ ~Blocked => \A i \in 1..Len(bridge.queue) : EntryInv(i)
  /\ ~Blocked /\ bridge.active # 0 =>
       \E i \in 1..Len(bridge.queue) : bridge.queue[i].steer = bridge.active

\* At most one hook carries a correction: the next one to be heard.
HookInv ==
  \A h \in Hooks : Carrying(h) =>
    /\ Hears < Len(bridge.queue) /\ bridge.queue[Hears + 1].steer = hooks[h].steer
    /\ ~Blocked => bridge.active = hooks[h].steer
    /\ \A g \in Hooks : Carrying(g) => g = h

\* The echo of a correction, and the input of a prompt
Echoes(frame) == frame.kind = "input" /\ frame.after > 0
Prompts(frame) == frame.kind = "input" /\ frame.after = 0

EchoComes == \E i \in 1..Len(provider.stdout) : Echoes(provider.stdout[i])
Awaits(t) == t.observation.at \in {"asked", "writing"}
Outstanding == EchoComes \/ turn.input # 0 \/ Awaits(turn)

\* At most one echo is on its way through the session, that of the active correction.
InputInv ==
  /\ \A i, j \in 1..Len(provider.stdout) :
       Echoes(provider.stdout[i]) /\ Echoes(provider.stdout[j]) => i = j
  /\ EchoComes => turn.input = 0 /\ ~Awaits(turn)
  /\ turn.input # 0 => ~Awaits(turn)
  /\ Outstanding =>
       /\ Hears > 0 /\ \A h \in Hooks : ~Carrying(h)
       /\ Blocked \/ bridge.active = provider.heard[Hears]
  /\ turn.observation.at = "writing" => ~Blocked /\ bridge.active = turn.observation.steer
  /\ turn.observation.at \in {"writing", "confirmed"} => HeardSteer(turn.observation.steer)

\* The prompt's own input is the first input of a turn.
PromptInv ==
  /\ provider.at \in {"started", "prompted"} =>
       turn.deferred = <<>> /\ provider.stdout = <<>> /\ ~turn.initialSeen
  /\ OnlyPromptHeld(turn)
  /\ HeldInput(turn) =>
       /\ Pending(turn) => turn.binding # "bound"
       /\ \A j \in 1..Len(provider.stdout) : ~Prompts(provider.stdout[j])
  /\ \A i \in 1..Len(provider.stdout) : Prompts(provider.stdout[i]) =>
       /\ ~turn.initialSeen
       /\ \A j \in 1..Len(provider.stdout) : provider.stdout[j].kind = "input" => i <= j

VerdictInv == \A s \in Steers : turn.verdict[s] = "injected" => HeardSteer(s)

BridgeInv == QueueInv /\ OrderInv /\ HookInv
StreamInv == InputInv /\ PromptInv /\ VerdictInv
IInv == Types /\ TurnInv(turn) /\ LockInv /\ BridgeInv /\ StreamInv

-----------------------------------------------------------------------------
(***************************************************************************)
(* The account through the operators of a turn.                            *)
(***************************************************************************)
LEMMA KeepsTurn ==
  ASSUME NEW t \in TurnType, NEW u, TurnInv(t), Keeps(t, u), Len(u.deferred) <= DeferredLimit
  PROVE  TurnInv(u)
<1>1. InFlight(u) = InFlight(t)
  BY DEF Keeps, InFlight
<1>2. Ends(u)
  BY DEF TurnInv, Keeps
<1>3. QED BY <1>1, <1>2 DEF TurnInv, Keeps, Pending

LEMMA Members ==
  ASSUME NEW t \in TurnType
  PROVE  /\ IsFiniteSet(t.ids \cup InFlight(t)) /\ Cardinality(t.ids \cup InFlight(t)) \in Nat
<1>1. t.ids \cup InFlight(t) \subseteq Steers
  BY DEF TurnType, InFlight
<1>2. IsFiniteSet(t.ids \cup InFlight(t))
  BY <1>1, SteerNumbers, FS_Subset
<1>3. QED BY <1>2, FS_CardinalityType

LEMMA FewerMembers ==
  ASSUME NEW t \in TurnType, NEW u, u.ids \cup InFlight(u) \subseteq t.ids \cup InFlight(t)
  PROVE  /\ Cardinality(u.ids \cup InFlight(u)) \in Nat
         /\ Cardinality(u.ids \cup InFlight(u)) <= Cardinality(t.ids \cup InFlight(t))
<1>1. IsFiniteSet(t.ids \cup InFlight(t)) /\ IsFiniteSet(u.ids \cup InFlight(u))
  BY Members, FS_Subset
<1>2. QED BY <1>1, FS_Subset, FS_CardinalityType

LEMMA OneMoreMember ==
  ASSUME NEW t \in TurnType, NEW u, NEW s,
         u.ids \cup InFlight(u) \subseteq (t.ids \cup InFlight(t)) \cup {s}
  PROVE  Cardinality(u.ids \cup InFlight(u)) <= Cardinality(t.ids \cup InFlight(t)) + 1
<1>1. PICK M : M = t.ids \cup InFlight(t)
  OBVIOUS
<1>2. PICK L : L = u.ids \cup InFlight(u)
  OBVIOUS
<1>3. IsFiniteSet(M) /\ Cardinality(M) \in Nat
  BY <1>1, Members
<1>4. IsFiniteSet(M \cup {s}) /\ Cardinality(M \cup {s}) \in {Cardinality(M), Cardinality(M) + 1}
  BY <1>3, FS_AddElement
<1>5. L \subseteq M \cup {s}
  BY <1>1, <1>2
<1>6. Cardinality(L) <= Cardinality(M \cup {s}) /\ Cardinality(L) \in Nat
  BY <1>4, <1>5, FS_Subset, FS_CardinalityType
<1>7. Cardinality(L) <= Cardinality(M) + 1
  BY <1>3, <1>4, <1>6
<1>8. QED BY <1>1, <1>2, <1>7

-----------------------------------------------------------------------------
(***************************************************************************)
(* What a step may do to the bridge, short of moving a correction on.      *)
(***************************************************************************)
LEMMA QueueType ==
  ASSUME NEW b \in BridgeType
  PROVE  /\ b.queue \in Seq(EntryType) /\ Len(b.queue) \in Nat
         /\ \A i \in 1..Len(b.queue) : b.queue[i] \in EntryType /\ b.queue[i].steer \in Steers
<1>1. b.queue \in Seq(EntryType)
  BY DEF BridgeType
<1>2. Len(b.queue) \in Nat /\ \A i \in 1..Len(b.queue) : b.queue[i] \in EntryType
  BY <1>1
<1>3. QED BY <1>1, <1>2 DEF EntryType

\* q is p with the correction s at another status.
Marked(p, q, s, status) ==
  /\ q \in Seq(EntryType) /\ Len(q) = Len(p)
  /\ \A i \in 1..Len(p) :
       /\ q[i].steer = p[i].steer
       /\ q[i].status = IF p[i].steer = s THEN status ELSE p[i].status

LEMMA MarkType ==
  ASSUME NEW b \in BridgeType, NEW s, NEW status \in EntryStatuses
  PROVE  Marked(b.queue, Mark(b.queue, s, status), s, status)
<1>0. PICK queue : queue = Mark(b.queue, s, status)
  OBVIOUS
<1>1. /\ b.queue \in Seq(EntryType) /\ Len(b.queue) \in Nat
      /\ \A i \in 1..Len(b.queue) : b.queue[i] \in EntryType
  BY QueueType
<1>2. DOMAIN b.queue = 1..Len(b.queue)
  BY <1>1
<1>3. queue = [i \in 1..Len(b.queue) |->
                 IF b.queue[i].steer = s THEN [b.queue[i] EXCEPT !.status = status]
                 ELSE b.queue[i]]
  BY <1>0, <1>2, Zenon DEF Mark
<1>4. \A i \in 1..Len(b.queue) :
        /\ queue[i] \in EntryType /\ queue[i].steer = b.queue[i].steer
        /\ queue[i].status = IF b.queue[i].steer = s THEN status ELSE b.queue[i].status
  BY <1>1, <1>3 DEF EntryType
<1>5. queue \in Seq(EntryType) /\ Len(queue) = Len(b.queue)
  <2>1. queue \in [1..Len(b.queue) -> EntryType]
    BY <1>3, <1>4
  <2>2. queue \in Seq(EntryType)
    BY <1>1, <2>1, SeqDef
  <2>3. QED BY <1>1, <2>1, <2>2, LenProperties
<1>6. QED BY <1>0, <1>4, <1>5 DEF Marked

LEMMA BlockStateType ==
  ASSUME NEW b \in BridgeType
  PROVE  /\ BlockState(b) \in BridgeType
         /\ BlockState(b).status = "blocked" /\ BlockState(b).guard
         /\ Len(BlockState(b).queue) = Len(b.queue)
         /\ \A i \in 1..Len(b.queue) : BlockState(b).queue[i].steer = b.queue[i].steer
<1> DEFINE queue == [i \in 1..Len(b.queue) |-> [b.queue[i] EXCEPT !.status = "blocked"]]
<1>1. /\ b.queue \in Seq(EntryType) /\ Len(b.queue) \in Nat
      /\ \A i \in 1..Len(b.queue) : b.queue[i] \in EntryType
  BY QueueType
<1>2. \A i \in 1..Len(b.queue) : /\ [b.queue[i] EXCEPT !.status = "blocked"] \in EntryType
                                 /\ [b.queue[i] EXCEPT !.status = "blocked"].steer = b.queue[i].steer
  BY <1>1 DEF EntryType, EntryStatuses
<1>3. /\ queue \in Seq(EntryType) /\ Len(queue) = Len(b.queue)
      /\ \A i \in 1..Len(b.queue) : queue[i].steer = b.queue[i].steer
  BY <1>1, <1>2
<1>4. BlockState(b) = [b EXCEPT !.status = "blocked", !.guard = TRUE, !.active = 0, !.queue = queue]
  <2>1. DOMAIN b.queue = 1..Len(b.queue)
    BY <1>1
  <2>2. QED BY <2>1, Zenon DEF BlockState
<1> HIDE DEF queue
<1>5. BlockState(b) \in BridgeType
  BY <1>3, <1>4 DEF BridgeType, BridgeStatuses
<1>6. /\ BlockState(b).status = "blocked" /\ BlockState(b).guard = TRUE
      /\ BlockState(b).queue = queue
  BY <1>4 DEF BridgeType
<1>7. QED BY <1>3, <1>5, <1>6

\* b is written again as c, or the bridge is blocked.
SameBridge(b, c) ==
  c.status = b.status /\ c.guard = b.guard /\ c.active = b.active /\ c.queue = b.queue

(***************************************************************************)
(* The steps that move no correction on.  The turn forgets, gives up,      *)
(* waits or replays what it holds; the bridge stays or is blocked; hooks   *)
(* drop what they carry.                                                   *)
(***************************************************************************)
CalmTurn(t, u) ==
  /\ \A s \in Steers :
       /\ t.verdict[s] # "unasked" => u.verdict[s] # "unasked"
       /\ u.verdict[s] = "injected" => t.verdict[s] = "injected" \/ HeardSteer(s)
       /\ u.op[s] = "writing" => t.op[s] = "writing"
       /\ u.op[s] = "waiting" => t.op[s] = "waiting" \/ t.verdict[s] = "unasked"
  /\ t.binding = "bound" => u.binding = "bound"
  /\ Pending(u) => Pending(t)

CalmInput(t, u) ==
  \/ /\ u.observation = t.observation \/ u.observation.at \in {"none", "failed"}
     /\ u.input # 0 => t.input # 0
  \/ u.observation.at = "asked" /\ ~Observing(t) /\ t.input # 0 /\ u.input = 0

CalmHeld(t, u) ==
  \/ /\ u.deferred = t.deferred /\ u.initialSeen = t.initialSeen
     /\ Pending(u) /\ u.binding = "bound" => t.binding = "bound"
  \/ /\ Len(u.deferred) <= Len(t.deferred) /\ ~HeldInput(u)
     /\ u.initialSeen => t.initialSeen \/ HeldInput(t)

CalmBridge ==
  \/ SameBridge(bridge, bridge')
  \/ bridge' = BlockState(bridge) /\ turn'.observation.at # "writing"

CalmHooks ==
  \A h \in Hooks : hooks'[h].at \in {"claiming", "claimed", "answering"} =>
    Carrying(h) /\ hooks'[h].steer = hooks[h].steer

LEMMA QueueStep ==
  ASSUME IInv, CalmTurn(turn, turn'), CalmBridge, CalmHooks, provider'.heard = provider.heard
  PROVE  BridgeInv'
<1>1. Types
  BY DEF IInv
<1>2. QueueInv /\ OrderInv /\ HookInv
  BY DEF IInv, BridgeInv
<1>3. /\ Len(bridge.queue) \in Nat /\ \A i \in 1..Len(bridge.queue) : bridge.queue[i].steer \in Steers
      /\ bridge.queue = <<>> <=> Len(bridge.queue) = 0
  <2>1. bridge.queue \in Seq(EntryType)
    BY <1>1, QueueType DEF Types
  <2>2. QED BY <1>1, <2>1, QueueType, EmptySeq DEF Types
<1>4. /\ Len(bridge'.queue) = Len(bridge.queue)
      /\ bridge'.queue = <<>> => bridge.queue = <<>>
      /\ bridge.queue = <<>> => bridge'.queue = <<>>
      /\ \A i \in 1..Len(bridge.queue) : bridge'.queue[i].steer = bridge.queue[i].steer
      /\ SameBridge(bridge, bridge')
         \/ (bridge'.status = "blocked" /\ bridge'.guard /\ turn'.observation.at # "writing")
  <2>1. CASE SameBridge(bridge, bridge')
    BY <2>1 DEF SameBridge
  <2>2. CASE bridge' = BlockState(bridge) /\ turn'.observation.at # "writing"
    <3>1. /\ bridge' \in BridgeType /\ bridge'.status = "blocked" /\ bridge'.guard
          /\ Len(bridge'.queue) = Len(bridge.queue)
          /\ \A i \in 1..Len(bridge.queue) : bridge'.queue[i].steer = bridge.queue[i].steer
      BY <1>1, <2>2, BlockStateType DEF Types
    <3>2. bridge'.queue = <<>> <=> bridge.queue = <<>>
      <4>1. bridge'.queue \in Seq(EntryType)
        BY <3>1 DEF BridgeType
      <4>2. bridge'.queue = <<>> <=> Len(bridge'.queue) = 0
        BY <4>1, EmptySeq
      <4>3. QED BY <1>3, <3>1, <4>2
    <3>3. QED BY <2>2, <3>1, <3>2
  <2>3. QED BY <2>1, <2>2 DEF CalmBridge
<1>5. QueueInv'
  <2>1. bridge'.queue # <<>> => turn'.binding = "bound"
    BY <1>2, <1>4 DEF QueueInv, CalmTurn
  <2>2. \A i, j \in 1..Len(bridge'.queue) :
          bridge'.queue[i].steer = bridge'.queue[j].steer => i = j
    BY <1>2, <1>3, <1>4 DEF QueueInv
  <2>3. \A i \in 1..Len(bridge'.queue) :
          /\ turn'.verdict[bridge'.queue[i].steer] # "unasked"
          /\ turn'.op[bridge'.queue[i].steer] # "waiting"
    BY <1>2, <1>3, <1>4 DEF QueueInv, CalmTurn
  <2>4. bridge'.status = "blocked" => bridge'.guard
    BY <1>2, <1>4 DEF QueueInv, SameBridge, Blocked
  <2>5. QED BY <2>1, <2>2, <2>3, <2>4 DEF QueueInv, Blocked
<1>6. Hears' = Hears /\ Hears \in Nat
  BY <1>1 DEF Hears, Types, ProviderType
<1>7. OrderInv'
  <2>1. Hears' <= Len(bridge'.queue)
    BY <1>2, <1>4, <1>6 DEF OrderInv
  <2>2. \A i \in 1..Hears' : provider'.heard[i] = bridge'.queue[i].steer
    BY <1>2, <1>3, <1>4, <1>6 DEF OrderInv
  <2>3. bridge'.status # "blocked" =>
          /\ SameBridge(bridge, bridge') /\ ~Blocked
          /\ \A i \in 1..Len(bridge'.queue) : EntryInv(i)'
    BY <1>2, <1>4, <1>6 DEF OrderInv, SameBridge, Blocked, EntryInv
  <2>4. bridge'.status # "blocked" /\ bridge'.active # 0 =>
          \E i \in 1..Len(bridge'.queue) : bridge'.queue[i].steer = bridge'.active
    BY <1>2, <2>3 DEF OrderInv, SameBridge
  <2>5. QED BY <2>1, <2>2, <2>3, <2>4 DEF OrderInv, Blocked
<1>8. \A h \in Hooks : Carrying(h)' => Carrying(h) /\ hooks'[h].steer = hooks[h].steer
  BY DEF CalmHooks, Carrying
<1>9. HookInv'
  <2>1. SUFFICES ASSUME NEW h \in Hooks, Carrying(h)'
                 PROVE  /\ Hears' < Len(bridge'.queue)
                        /\ bridge'.queue[Hears' + 1].steer = hooks'[h].steer
                        /\ bridge'.status # "blocked" => bridge'.active = hooks'[h].steer
                        /\ \A g \in Hooks : Carrying(g)' => g = h
    BY DEF HookInv, Blocked
  <2>2. /\ Hears < Len(bridge.queue) /\ bridge.queue[Hears + 1].steer = hooks[h].steer
        /\ ~Blocked => bridge.active = hooks[h].steer
        /\ \A g \in Hooks : Carrying(g) => g = h
        /\ hooks'[h].steer = hooks[h].steer
    BY <1>2, <1>8, <2>1 DEF HookInv
  <2>3. Hears + 1 \in 1..Len(bridge.queue)
    BY <1>3, <1>6, <2>2
  <2>4. QED BY <1>4, <1>6, <1>8, <2>2, <2>3 DEF SameBridge, Blocked
<1>10. QED BY <1>5, <1>7, <1>9 DEF BridgeInv

LEMMA PromptStep ==
  ASSUME IInv, turn' \in TurnType, CalmTurn(turn, turn'), CalmHeld(turn, turn'),
         provider' = provider
  PROVE  PromptInv' /\ VerdictInv'
<1>1. PromptInv /\ VerdictInv
  BY DEF IInv, StreamInv
<1>2. PromptInv'
  <2>1. HeldInput(turn') => HeldInput(turn)
    BY DEF CalmHeld, HeldInput
  <2>2. turn.deferred = <<>> => turn'.deferred = <<>>
    <3>1. turn'.deferred \in Seq(FrameType) /\ Len(turn'.deferred) \in Nat
      BY HeldFrames
    <3>2. QED BY <3>1, EmptySeq DEF CalmHeld
  <2>3. turn'.initialSeen => turn.initialSeen \/ HeldInput(turn)
    BY DEF CalmHeld
  <2>4. turn.deferred = <<>> => ~HeldInput(turn)
    BY DEF HeldInput
  <2>5. OnlyPromptHeld(turn')
    BY <1>1 DEF PromptInv, OnlyPromptHeld, CalmHeld, HeldInput
  <2>6. HeldInput(turn') => (Pending(turn') => turn'.binding # "bound")
    <3>1. SUFFICES ASSUME HeldInput(turn'), Pending(turn'), turn'.binding = "bound" PROVE FALSE
      OBVIOUS
    <3>2. Pending(turn) /\ turn.binding = "bound"
      BY <3>1 DEF CalmTurn, CalmHeld
    <3>3. QED BY <1>1, <2>1, <3>1, <3>2 DEF PromptInv
  <2>7. QED BY <1>1, <2>1, <2>2, <2>3, <2>4, <2>5, <2>6 DEF PromptInv
<1>3. VerdictInv'
  BY <1>1 DEF VerdictInv, CalmTurn, HeardSteer
<1>4. QED BY <1>2, <1>3

LEMMA CalmStep ==
  ASSUME IInv, turn' \in TurnType, CalmTurn(turn, turn'), CalmInput(turn, turn'),
         CalmHeld(turn, turn'), CalmBridge, CalmHooks, provider' = provider
  PROVE  BridgeInv' /\ StreamInv'
<1>1. Types /\ InputInv
  BY DEF IInv, StreamInv
<1>2. BridgeInv' /\ PromptInv' /\ VerdictInv'
  BY QueueStep, PromptStep
<1>3. Hears' = Hears /\ EchoComes' = EchoComes
  BY DEF Hears, EchoComes
<1>4. \A h \in Hooks : Carrying(h)' => Carrying(h)
  BY DEF CalmHooks, Carrying
<1>5. SameBridge(bridge, bridge') \/ (bridge'.status = "blocked" /\ turn'.observation.at # "writing")
  BY <1>1, BlockStateType DEF CalmBridge, Types
<1>6. InputInv'
  <2>1. \A i, j \in 1..Len(provider'.stdout) :
          Echoes(provider'.stdout[i]) /\ Echoes(provider'.stdout[j]) => i = j
    BY <1>1 DEF InputInv
  <2>2. /\ EchoComes => turn'.input = 0 /\ ~Awaits(turn')
        /\ turn'.input # 0 => ~Awaits(turn')
        /\ (EchoComes \/ turn'.input # 0 \/ Awaits(turn')) => Outstanding
    BY <1>1 DEF InputInv, CalmInput, Awaits, Outstanding, Observing
  <2>3. Outstanding => /\ Hears > 0 /\ \A h \in Hooks : ~(Carrying(h)')
                       /\ bridge'.status = "blocked" \/ bridge'.active = provider.heard[Hears]
    BY <1>1, <1>4, <1>5 DEF InputInv, SameBridge, Blocked
  <2>4. turn'.observation.at = "writing" =>
          bridge'.status # "blocked" /\ bridge'.active = turn'.observation.steer
    BY <1>1, <1>5 DEF InputInv, CalmInput, SameBridge, Blocked
  <2>5. turn'.observation.at \in {"writing", "confirmed"} => HeardSteer(turn.observation.steer)'
    BY <1>1 DEF InputInv, CalmInput, HeardSteer
  <2>6. (EchoComes \/ turn'.input # 0 \/ Awaits(turn')) = Outstanding'
    BY <1>3 DEF Outstanding
  <2>7. QED BY <1>3, <2>1, <2>2, <2>3, <2>4, <2>5, <2>6 DEF InputInv, Blocked
<1>7. QED BY <1>2, <1>6 DEF StreamInv

-----------------------------------------------------------------------------
(***************************************************************************)
(* The steps of the session.                                               *)
(***************************************************************************)
Calm(t, u) == CalmTurn(t, u) /\ CalmInput(t, u) /\ CalmHeld(t, u)

LEMMA CalmThenStill ==
  ASSUME NEW t, NEW u, Calm(turn, t), Still(t, u)
  PROVE  Calm(turn, u)
<1>1. CalmTurn(turn, u)
  BY DEF Calm, CalmTurn, Still, Keeps, Pending
<1>2. CalmInput(turn, u)
  BY DEF Calm, CalmInput, Still, SameStream
<1>3. CalmHeld(turn, u)
  BY DEF Calm, CalmHeld, Still, Keeps, Pending, HeldInput
<1>4. QED BY <1>1, <1>2, <1>3 DEF Calm

LEMMA LockStep ==
  ASSUME IInv, Calm(turn, turn'), UNCHANGED <<lock, hooks>>
  PROVE  LockInv'
<1>1. LockInv
  BY DEF IInv
<1>2. turn'.observation.at = "writing" => turn.observation.at = "writing"
  BY DEF Calm, CalmInput
<1>3. \A s \in Steers : turn'.op[s] = "writing" => turn.op[s] = "writing"
  BY DEF Calm, CalmTurn
<1>4. QED BY <1>1, <1>2, <1>3 DEF LockInv

\* A step of the turn alone: a calm change, and then what the turn makes of it
LEMMA SessionStep ==
  ASSUME IInv, Session, NEW t \in TurnType, TurnInv(t), Calm(turn, t), Still(t, turn')
  PROVE  IInv' /\ turn'.verdict = t.verdict
<1>1. turn' \in TurnType /\ Calm(turn, turn')
  BY CalmThenStill DEF Still, Keeps
<1>2. TurnInv(turn')
  BY KeepsTurn DEF Still, TurnInv
<1>3. LockInv'
  BY <1>1, LockStep DEF Session
<1>4. Types'
  BY <1>1 DEF IInv, Types, Session
<1>5. BridgeInv' /\ StreamInv'
  <2>1. CalmBridge /\ CalmHooks /\ provider' = provider
    BY DEF Session, CalmBridge, SameBridge, CalmHooks, Carrying
  <2>2. QED BY <1>1, <2>1, CalmStep DEF Calm
<1>6. turn'.verdict = t.verdict
  BY DEF Still, Keeps
<1>7. QED BY <1>2, <1>3, <1>4, <1>5, <1>6 DEF IInv

\* A change of the turn that is not about its corrections or its inputs
LEMMA ElsewhereCalm ==
  ASSUME IInv, NEW t \in TurnType, Elsewhere(turn, t),
         t.binding = "bound" <=> turn.binding = "bound", t.result = turn.result
  PROVE  TurnInv(t) /\ Calm(turn, t)
<1>1. turn \in TurnType /\ TurnInv(turn)
  BY DEF IInv, Types
<1>2. Still(turn, t)
  BY <1>1, ElsewhereStill
<1>3. TurnInv(t)
  BY <1>1, <1>2, KeepsTurn DEF Still, TurnInv
<1>4. Calm(turn, turn)
  BY DEF Calm, CalmTurn, CalmInput, CalmHeld
<1>5. QED BY <1>2, <1>3, <1>4, CalmThenStill

LEMMA TurnIsCalm ==
  ASSUME IInv
  PROVE  turn \in TurnType /\ TurnInv(turn) /\ Calm(turn, turn)
  BY DEF IInv, Types, Calm, CalmTurn, CalmInput, CalmHeld

LEMMA SteerStep ==
  ASSUME IInv, NEW s \in Steers, Steer(s)
  PROVE  IInv'
<1>1. turn \in TurnType /\ TurnInv(turn)
  BY TurnIsCalm
<1>2. /\ turn.verdict \in [Steers -> Verdicts] /\ turn.op \in [Steers -> OpPlaces]
      /\ turn.floor \in [Steers -> Nat] /\ turn.watermark \in Nat /\ turn.asked \in Nat
  BY <1>1 DEF TurnType
<1>3. PICK verdict \in [Steers -> Verdicts], op \in [Steers -> OpPlaces], floor \in [Steers -> Nat] :
        /\ verdict = [turn.verdict EXCEPT ![s] = "open"] /\ op = [turn.op EXCEPT ![s] = "waiting"]
        /\ floor = [turn.floor EXCEPT ![s] = turn.watermark]
  BY <1>2 DEF Verdicts, OpPlaces
<1>4. /\ Pending(turn) /\ turn.verdict[s] = "unasked" /\ Session
      /\ turn' = [turn EXCEPT !.verdict = verdict, !.op = op, !.floor = floor,
                              !.asked = turn.asked + 1]
  BY <1>1, <1>3 DEF Steer, TurnType
<1>5. turn.asked + 1 \in Nat
  BY <1>2
<1>6. /\ turn' \in TurnType /\ turn'.verdict = verdict /\ turn'.op = op
      /\ turn'.asked = turn.asked + 1 /\ turn'.injected = turn.injected
      /\ turn'.ids = turn.ids /\ turn'.deferred = turn.deferred
      /\ turn'.initialSeen = turn.initialSeen /\ turn'.input = turn.input
      /\ turn'.observation = turn.observation /\ turn'.result = turn.result
      /\ turn'.binding = turn.binding
  BY <1>1, <1>4, <1>5 DEF TurnType
<1>7. \A r \in Steers : /\ turn'.verdict[r] = IF r = s THEN "open" ELSE turn.verdict[r]
                        /\ turn'.op[r] = IF r = s THEN "waiting" ELSE turn.op[r]
  BY <1>2, <1>3, <1>6
<1>8. TurnInv(turn')
  <2>1. turn'.ids \cup InFlight(turn') = (turn.ids \cup InFlight(turn)) \cup {s}
    BY <1>6, <1>7 DEF InFlight
  <2>2. Cardinality(turn'.ids \cup InFlight(turn')) <= Cardinality(turn.ids \cup InFlight(turn)) + 1
    BY <1>1, <2>1, OneMoreMember
  <2>3. Cardinality(turn.ids \cup InFlight(turn)) \in Nat /\ Cardinality(turn'.ids \cup InFlight(turn')) \in Nat
    BY <1>1, <1>6, Members
  <2>4. turn.injected \in Nat /\ turn.asked \in Nat
    BY <1>1 DEF TurnType
  <2>5. turn'.injected + Cardinality(turn'.ids \cup InFlight(turn')) <= turn'.asked
    BY <1>1, <1>6, <2>2, <2>3, <2>4 DEF TurnInv
  <2>6. \A r \in Steers :
          /\ turn'.op[r] # "none" => turn'.verdict[r] # "unasked"
          /\ turn'.op[r] # "none" /\ Pending(turn') => turn'.verdict[r] = "open"
          /\ r \in turn'.ids => turn'.verdict[r] = "open" /\ turn'.op[r] = "none"
    BY <1>1, <1>4, <1>6, <1>7 DEF TurnInv, Pending
  <2>7. Len(turn'.deferred) <= DeferredLimit /\ Ends(turn')
    BY <1>1, <1>4, <1>6 DEF TurnInv, Ends, Pending
  <2>8. QED BY <2>5, <2>6, <2>7 DEF TurnInv
<1>9. Calm(turn, turn')
  BY <1>4, <1>6, <1>7 DEF Calm, CalmTurn, CalmInput, CalmHeld, Pending
<1>10. QED BY <1>4, <1>6, <1>8, <1>9, StillItself, SessionStep

\* An operation that settled
LEMMA SettledOp ==
  ASSUME IInv, NEW s \in Steers, turn.op[s] # "none", NEW u \in TurnType,
         u.op = [turn.op EXCEPT ![s] = "none"], u.verdict = turn.verdict,
         u.ids = turn.ids \/ (u.ids = turn.ids \cup {s} /\ Pending(turn)),
         u.asked = turn.asked, u.injected = turn.injected,
         u.input = turn.input, u.observation = turn.observation,
         u.deferred = turn.deferred, u.initialSeen = turn.initialSeen,
         u.binding = turn.binding, u.result = turn.result
  PROVE  TurnInv(u) /\ Calm(turn, u)
<1>1. turn \in TurnType /\ TurnInv(turn)
  BY TurnIsCalm
<1>2. \A r \in Steers : u.op[r] = IF r = s THEN "none" ELSE turn.op[r]
  BY <1>1 DEF TurnType
<1>3. u.ids \cup InFlight(u) \subseteq turn.ids \cup InFlight(turn)
  BY <1>1, <1>2 DEF InFlight
<1>4. turn.injected + Cardinality(u.ids \cup InFlight(u)) <= turn.asked
  <2>1. /\ turn.injected \in Nat /\ turn.asked \in Nat
        /\ Cardinality(turn.ids \cup InFlight(turn)) \in Nat
    BY <1>1, Members DEF TurnType
  <2>2. /\ Cardinality(u.ids \cup InFlight(u)) <= Cardinality(turn.ids \cup InFlight(turn))
        /\ Cardinality(u.ids \cup InFlight(u)) \in Nat
    BY <1>1, <1>3, FewerMembers
  <2>3. QED BY <1>1, <2>1, <2>2 DEF TurnInv
<1>5. Ends(u)
  BY <1>1, <1>2 DEF TurnInv, Ends, InFlight, Observing
<1>6. \A r \in Steers :
        /\ u.op[r] # "none" => u.verdict[r] # "unasked"
        /\ u.op[r] # "none" /\ Pending(u) => u.verdict[r] = "open"
        /\ r \in u.ids => u.verdict[r] = "open" /\ u.op[r] = "none"
  BY <1>1, <1>2 DEF TurnInv, Pending
<1>7. TurnInv(u)
  BY <1>1, <1>4, <1>5, <1>6 DEF TurnInv
<1>8. Calm(turn, u)
  BY <1>2 DEF Calm, CalmTurn, CalmInput, CalmHeld, Pending
<1>9. QED BY <1>7, <1>8

LEMMA EnqueueSettlesStep ==
  ASSUME IInv, NEW s \in Steers, EnqueueSettles(s)
  PROVE  IInv' /\ turn'.verdict = turn.verdict
<1>1. turn \in TurnType /\ Session /\ turn.op[s] # "none"
  BY TurnIsCalm DEF EnqueueSettles
<1>2. PICK op \in [Steers -> OpPlaces] : op = [turn.op EXCEPT ![s] = "none"]
  BY <1>1 DEF TurnType, OpPlaces
<1>3. PICK t : t = [turn EXCEPT !.op = op]
  OBVIOUS
<1>4. t = [turn EXCEPT !.op[s] = "none"]
  BY <1>1, <1>2, <1>3 DEF TurnType
<1>5. /\ t \in TurnType /\ t.op = op /\ t.verdict = turn.verdict /\ t.ids = turn.ids
      /\ t.asked = turn.asked /\ t.injected = turn.injected
      /\ t.input = turn.input /\ t.observation = turn.observation
      /\ t.deferred = turn.deferred /\ t.initialSeen = turn.initialSeen
      /\ t.binding = turn.binding /\ t.result = turn.result /\ t.failure = turn.failure
      /\ t.polled \in SUBSET Steers /\ t.ids \in SUBSET Steers
  BY <1>1, <1>2, <1>3 DEF TurnType
<1>6. TurnInv(t) /\ Calm(turn, t)
  BY <1>1, <1>2, <1>5, SettledOp
<1>7. CASE turn' = FailSteering(t, "uncertain")
  <2>1. Still(t, turn')
    BY <1>5, <1>7, FailSteeringStill DEF Failures
  <2>2. QED BY <1>1, <1>5, <1>6, <2>1, SessionStep
<1>8. CASE turn' = t
  BY <1>1, <1>5, <1>6, <1>8, StillItself, SessionStep
<1>9. CASE /\ Pending(t)
           /\ turn' = MaybeFinish([t EXCEPT !.ids = t.ids \cup {s}, !.polled = t.polled \cup {s}])
  <2>1. t.ids \cup {s} \in SUBSET Steers /\ t.polled \cup {s} \in SUBSET Steers
    BY <1>5
  <2>2. PICK u : u = [t EXCEPT !.ids = t.ids \cup {s}, !.polled = t.polled \cup {s}]
    OBVIOUS
  <2>3. /\ u \in TurnType /\ u.op = op /\ u.verdict = t.verdict /\ u.ids = t.ids \cup {s}
        /\ u.asked = t.asked /\ u.injected = t.injected
        /\ u.input = t.input /\ u.observation = t.observation
        /\ u.deferred = t.deferred /\ u.initialSeen = t.initialSeen
        /\ u.binding = t.binding /\ u.result = t.result
    BY <1>5, <2>1, <2>2 DEF TurnType
  <2>4. TurnInv(u) /\ Calm(turn, u)
    BY <1>1, <1>2, <1>5, <1>9, <2>3, SettledOp DEF Pending
  <2>5. Still(u, turn')
    BY <1>9, <2>2, <2>3, MaybeFinishStill
  <2>6. QED BY <1>1, <1>5, <2>3, <2>4, <2>5, SessionStep
<1>10. turn' = IF turn.op[s] = "failed" THEN FailSteering(t, "uncertain")
               ELSE IF ~Pending(t) \/ t.failure # "none" THEN t
               ELSE MaybeFinish([t EXCEPT !.ids = t.ids \cup {s}, !.polled = t.polled \cup {s}])
  BY <1>4, <1>5 DEF EnqueueSettles, TurnType
<1>11. QED BY <1>7, <1>8, <1>9, <1>10

LEMMA WatchSteps ==
  ASSUME IInv, NEW s \in Steers,
         PollSeesClaim(s) \/ PollSeesInjected(s) \/ PollFails(s) \/ ClaimTimesOut(s)
  PROVE  IInv' /\ turn'.verdict = turn.verdict
<1>1. turn \in TurnType /\ TurnInv(turn) /\ Calm(turn, turn)
  BY TurnIsCalm
<1>2. turn.polled \in SUBSET Steers /\ turn.timed \in SUBSET Steers
  BY <1>1 DEF TurnType
<1>3. PICK polled \in SUBSET Steers, timed \in SUBSET Steers :
        polled = turn.polled \ {s} /\ timed = turn.timed \cup {s}
  BY <1>2
<1>4. CASE PollSeesClaim(s)
  <2>1. turn' = [turn EXCEPT !.polled = polled, !.timed = timed] /\ Session
    BY <1>1, <1>3, <1>4 DEF PollSeesClaim, TurnType
  <2>2. /\ turn' \in TurnType /\ Elsewhere(turn, turn')
        /\ turn'.binding = turn.binding /\ turn'.result = turn.result
    BY <1>1, <2>1 DEF TurnType, Elsewhere
  <2>3. TurnInv(turn') /\ Calm(turn, turn')
    BY <2>2, ElsewhereCalm
  <2>4. QED BY <2>1, <2>2, <2>3, StillItself, SessionStep DEF Elsewhere
<1>5. PICK t : t = [turn EXCEPT !.polled = polled]
  OBVIOUS
<1>6. /\ t \in TurnType /\ Elsewhere(turn, t) /\ t.binding = turn.binding /\ t.result = turn.result
      /\ t = [turn EXCEPT !.polled = @ \ {s}]
  BY <1>1, <1>3, <1>5 DEF TurnType, Elsewhere
<1>7. TurnInv(t) /\ Calm(turn, t)
  BY <1>6, ElsewhereCalm
<1>8. CASE PollSeesInjected(s)
  <2>1. turn' = t /\ Session
    BY <1>6, <1>8 DEF PollSeesInjected
  <2>2. QED BY <1>6, <1>7, <2>1, StillItself, SessionStep DEF Elsewhere
<1>9. CASE PollFails(s)
  <2>1. turn' = FailSteering(t, "uncertain") /\ Session
    BY <1>6, <1>9 DEF PollFails
  <2>2. Still(t, turn')
    BY <1>6, <2>1, FailSteeringStill DEF Failures
  <2>3. QED BY <1>6, <1>7, <2>1, <2>2, SessionStep DEF Elsewhere
<1>10. CASE ClaimTimesOut(s)
  <2>1. turn' = FailSteering(turn, "uncertain") /\ Session
    BY <1>10 DEF ClaimTimesOut
  <2>2. Still(turn, turn')
    BY <1>1, <2>1, FailSteeringStill DEF Failures
  <2>3. QED BY <1>1, <2>1, <2>2, SessionStep DEF Elsewhere
<1>11. QED BY <1>4, <1>8, <1>9, <1>10

LEMMA ChildSteps ==
  ASSUME IInv, ChildFails \/ ChildCloses
  PROVE  IInv' /\ turn'.verdict = turn.verdict
<1>1. turn \in TurnType /\ TurnInv(turn) /\ Calm(turn, turn)
  BY TurnIsCalm
<1>2. CASE ChildFails
  <2>1. Session /\ (turn' = FailSteering(turn, "uncertain") \/ turn' = FailResume(turn, "uncertain"))
    BY <1>2 DEF ChildFails
  <2>2. Still(turn, turn')
    BY <1>1, <2>1, FailSteeringStill, FailResumeStill DEF Failures
  <2>3. QED BY <1>1, <2>1, <2>2, SessionStep DEF Elsewhere
<1>3. CASE ChildCloses
  <2>1. PICK t : t = [turn EXCEPT !.child = FALSE]
    OBVIOUS
  <2>2. /\ t \in TurnType /\ Elsewhere(turn, t)
        /\ t.binding = turn.binding /\ t.result = turn.result
    BY <1>1, <2>1 DEF TurnType, Elsewhere
  <2>3. TurnInv(t) /\ Calm(turn, t)
    BY <2>2, ElsewhereCalm
  <2>4. /\ Session
        /\ turn' = t \/ turn' = FailSteering(t, "uncertain") \/ turn' = FailResume(t, "uncertain")
    BY <1>3, <2>1 DEF ChildCloses
  <2>5. Still(t, turn')
    BY <2>2, <2>4, StillItself, FailSteeringStill, FailResumeStill DEF Failures
  <2>6. QED BY <2>2, <2>3, <2>4, <2>5, SessionStep DEF Elsewhere
<1>4. QED BY <1>2, <1>3

LEMMA RehandleInputStep ==
  ASSUME IInv, RehandleInput
  PROVE  IInv' /\ turn'.verdict = turn.verdict
<1>1. turn \in TurnType /\ TurnInv(turn) /\ turn.input # 0 /\ Session /\ turn.input \in Nat
  BY TurnIsCalm DEF RehandleInput, TurnType
<1>2. PICK t : t = [turn EXCEPT !.input = 0]
  OBVIOUS
<1>3. /\ t \in TurnType /\ t.op = turn.op /\ t.verdict = turn.verdict /\ t.ids = turn.ids
      /\ t.asked = turn.asked /\ t.injected = turn.injected
      /\ t.input = 0 /\ t.observation = turn.observation
      /\ t.deferred = turn.deferred /\ t.initialSeen = turn.initialSeen
      /\ t.binding = turn.binding /\ t.result = turn.result
  BY <1>1, <1>2 DEF TurnType
<1>4. Keeps(turn, t)
  BY <1>3 DEF Keeps, Ends, InFlight, Observing
<1>5. TurnInv(t)
  BY <1>1, <1>3, <1>4, KeepsTurn DEF TurnInv
<1>6. Calm(turn, t)
  BY <1>3 DEF Calm, CalmTurn, CalmInput, CalmHeld, Pending
<1>7. CASE turn' = t
  BY <1>1, <1>3, <1>5, <1>6, <1>7, StillItself, SessionStep
<1>8. CASE Pending(t) /\ turn' = HandleInput(t, turn.input)
  <2>1. CASE Still(t, turn')
    BY <1>1, <1>3, <1>5, <1>6, <2>1, SessionStep
  <2>2. CASE Handled(t, turn')
    <3>1. turn' \in TurnType /\ Keeps(t, turn') /\ Len(turn'.deferred) = Len(t.deferred)
      BY <2>2 DEF Handled, Keeps
    <3>2. TurnInv(turn')
      BY <1>3, <1>5, <3>1, KeepsTurn DEF TurnInv
    <3>3. CalmTurn(turn, turn')
      BY <1>3, <3>1 DEF CalmTurn, Keeps, Pending
    <3>4. CalmInput(turn, turn')
      BY <1>1, <1>3, <2>2 DEF CalmInput, Handled, Observing
    <3>5. CalmHeld(turn, turn')
      BY <1>3, <2>2, <3>1 DEF CalmHeld, Handled, Keeps
    <3>6. turn'.verdict = turn.verdict
      BY <1>3, <3>1 DEF Keeps
    <3>7. QED BY <1>1, <3>1, <3>2, <3>3, <3>4, <3>5, <3>6, StillItself, SessionStep DEF Calm
  <2>3. QED BY <1>1, <1>3, <1>8, <2>1, <2>2, HandleInputEffect
<1>9. QED BY <1>2, <1>7, <1>8 DEF RehandleInput

\* A bound turn replays what it holds, and perhaps ends.
LEMMA ReplayStep ==
  ASSUME IInv, Session, NEW cut \in BOOLEAN, NEW t \in TurnType, TurnInv(t),
         CalmTurn(turn, t), CalmInput(turn, t), t.binding = "bound",
         t.deferred = turn.deferred, t.initialSeen = turn.initialSeen,
         turn' = MaybeFinish(Replay(t, cut))
  PROVE  IInv' /\ turn'.verdict = t.verdict
<1>1. OnlyPromptHeld(t)
  BY DEF IInv, StreamInv, PromptInv, OnlyPromptHeld
<1>2. PICK u : u = Replay(t, cut)
  OBVIOUS
<1>3. Replayed(t, u)
  BY <1>1, <1>2, ReplayEffect
<1>4. /\ u \in TurnType /\ Keeps(t, u) /\ SameStream(t, u)
      /\ Len(u.deferred) <= Len(t.deferred)
  BY <1>3 DEF Replayed, Keeps
<1>5. TurnInv(u)
  <2>1. Len(u.deferred) \in Nat /\ Len(t.deferred) \in Nat
    BY <1>4, HeldFrames
  <2>2. Len(u.deferred) <= DeferredLimit
    BY <1>4, <2>1, DeferredLimitAssumption DEF TurnInv
  <2>3. QED BY <1>4, <2>2, KeepsTurn
<1>6. Calm(turn, u)
  <2>1. CalmTurn(turn, u)
    BY <1>4 DEF CalmTurn, Keeps, Pending
  <2>2. CalmInput(turn, u)
    BY <1>4 DEF CalmInput, SameStream
  <2>3. CalmHeld(turn, u)
    BY <1>3 DEF CalmHeld, Replayed, HeldInput
  <2>4. QED BY <2>1, <2>2, <2>3 DEF Calm
<1>7. Still(u, turn')
  BY <1>2, <1>4, MaybeFinishStill
<1>8. u.verdict = t.verdict
  BY <1>4 DEF Keeps
<1>9. QED BY <1>4, <1>5, <1>6, <1>7, <1>8, SessionStep

LEMMA BindStep ==
  ASSUME IInv, Bind
  PROVE  IInv' /\ turn'.verdict = turn.verdict
<1>1. turn \in TurnType /\ TurnInv(turn) /\ Session /\ turn.binding = "binding"
  BY TurnIsCalm DEF Bind
<1>2. PICK t : t = [turn EXCEPT !.binding = "bound"]
  OBVIOUS
<1>3. /\ t \in TurnType /\ t.op = turn.op /\ t.verdict = turn.verdict /\ t.ids = turn.ids
      /\ t.asked = turn.asked /\ t.injected = turn.injected
      /\ t.input = turn.input /\ t.observation = turn.observation
      /\ t.deferred = turn.deferred /\ t.initialSeen = turn.initialSeen
      /\ t.binding = "bound" /\ t.result = turn.result
  BY <1>1, <1>2 DEF TurnType
<1>4. TurnInv(t)
  <2>1. InFlight(t) = InFlight(turn) /\ Ends(t)
    BY <1>1, <1>3 DEF InFlight, TurnInv, Ends, Observing
  <2>2. QED BY <1>1, <1>3, <2>1 DEF TurnInv, Pending
<1>5. CalmTurn(turn, t) /\ CalmInput(turn, t)
  BY <1>3 DEF CalmTurn, CalmInput, Pending
<1>6. PICK cut \in Cuts : turn' = IF Pending(t) THEN MaybeFinish(Replay(t, cut)) ELSE t
  BY <1>2 DEF Bind
<1>7. cut \in BOOLEAN
  BY <1>6 DEF Cuts
<1>8. CASE Pending(t)
  BY <1>1, <1>3, <1>4, <1>5, <1>6, <1>7, <1>8, ReplayStep
<1>9. CASE ~Pending(t)
  <2>1. Calm(turn, t)
    BY <1>3, <1>5, <1>9 DEF Calm, CalmHeld
  <2>2. QED BY <1>1, <1>3, <1>4, <1>6, <1>9, <2>1, StillItself, SessionStep
<1>10. QED BY <1>8, <1>9

\* A correction was heard on a bridge to which the conversation is bound.
LEMMA HeardIsBound ==
  ASSUME IInv, NEW s, HeardSteer(s)
  PROVE  turn.binding = "bound"
<1>1. Hears # 0 /\ Hears \in Nat
  BY DEF HeardSteer, Hears, IInv, Types, ProviderType
<1>2. Len(bridge.queue) \in Nat /\ Hears <= Len(bridge.queue)
  BY QueueType DEF IInv, Types, BridgeInv, OrderInv
<1>3. bridge.queue # <<>>
  BY <1>1, <1>2
<1>4. QED BY <1>3 DEF IInv, BridgeInv, QueueInv

LEMMA ObservationSettlesStep ==
  ASSUME IInv, ObservationSettles
  PROVE  /\ IInv'
         /\ \/ turn'.verdict = turn.verdict
            \/ \E s \in Steers :
                 /\ turn.verdict[s] = "open" /\ HeardSteer(s)
                 /\ \A r \in Steers :
                      turn'.verdict[r] = IF r = s THEN "injected" ELSE turn.verdict[r]
<1>1. turn \in TurnType /\ TurnInv(turn) /\ Session /\ turn.observation.at \in {"confirmed", "failed"}
  BY TurnIsCalm DEF ObservationSettles
<1>2. PICK t : t = [turn EXCEPT !.observation = NoObservation]
  OBVIOUS
<1>3. /\ t \in TurnType /\ t.op = turn.op /\ t.verdict = turn.verdict /\ t.ids = turn.ids
      /\ t.asked = turn.asked /\ t.injected = turn.injected
      /\ t.input = turn.input /\ t.observation.at = "none"
      /\ t.deferred = turn.deferred /\ t.initialSeen = turn.initialSeen
      /\ t.binding = turn.binding /\ t.result = turn.result
  BY <1>1, <1>2, NoObservationType DEF TurnType
<1>4. TurnInv(t)
  <2>1. Keeps(turn, t)
    BY <1>3 DEF Keeps, Ends, InFlight, Observing
  <2>2. QED BY <1>1, <1>3, <2>1, KeepsTurn DEF TurnInv
<1>5. CalmTurn(turn, t) /\ CalmInput(turn, t) /\ Calm(turn, t)
  BY <1>3 DEF Calm, CalmTurn, CalmInput, CalmHeld, Pending
<1>6. PICK s : s = turn.observation.steer
  OBVIOUS
<1>7. PICK cut \in Cuts :
        turn' = IF turn.observation.at = "failed" THEN FailSteering(t, "uncertain")
                ELSE IF ~Pending(t) \/ t.failure # "none" THEN t
                ELSE IF s \notin t.ids THEN FailSteering(t, "uncertain")
                ELSE MaybeFinish(Replay(
                       [t EXCEPT !.verdict[s] = "injected", !.ids = @ \ {s},
                                 !.timed = @ \ {s}, !.injected = @ + 1, !.segment = <<>>],
                       cut))
  BY <1>2, <1>6 DEF ObservationSettles, Acknowledged
<1>8. CASE turn' = t \/ turn' = FailSteering(t, "uncertain")
  <2>1. Still(t, turn')
    BY <1>3, <1>8, StillItself, FailSteeringStill DEF Failures
  <2>2. QED BY <1>1, <1>3, <1>4, <1>5, <2>1, SessionStep
<1>9. CASE turn.observation.at = "confirmed" /\ Pending(t) /\ s \in t.ids
  <2>1. /\ t.verdict \in [Steers -> Verdicts] /\ t.ids \in SUBSET Steers
        /\ t.timed \in SUBSET Steers /\ t.injected \in Nat /\ t.asked \in Nat /\ s \in Steers
    BY <1>3, <1>9 DEF TurnType
  <2>2. PICK verdict \in [Steers -> Verdicts], ids \in SUBSET Steers, timed \in SUBSET Steers,
             none \in Seq(Nat) :
          /\ verdict = [t.verdict EXCEPT ![s] = "injected"]
          /\ ids = t.ids \ {s} /\ timed = t.timed \ {s} /\ none = <<>>
    <3>1. [t.verdict EXCEPT ![s] = "injected"] \in [Steers -> Verdicts]
      BY <2>1 DEF Verdicts
    <3>2. <<>> \in Seq(Nat)
      BY EmptySeq
    <3>3. QED BY <2>1, <3>1, <3>2
  <2>3. t.injected + 1 \in Nat
    BY <2>1
  <2>4. PICK v : v = [t EXCEPT !.verdict = verdict, !.ids = ids, !.timed = timed,
                               !.injected = t.injected + 1, !.segment = none]
    OBVIOUS
  <2>5. v = [t EXCEPT !.verdict[s] = "injected", !.ids = @ \ {s},
                      !.timed = @ \ {s}, !.injected = @ + 1, !.segment = <<>>]
    BY <1>3, <2>2, <2>4 DEF TurnType
  <2>6. /\ v \in TurnType /\ v.op = turn.op /\ v.verdict = verdict /\ v.ids = ids
        /\ v.asked = t.asked /\ v.injected = t.injected + 1
        /\ v.input = turn.input /\ v.observation.at = "none"
        /\ v.deferred = turn.deferred /\ v.initialSeen = turn.initialSeen
        /\ v.binding = turn.binding /\ v.result = turn.result
    BY <1>3, <2>3, <2>4 DEF TurnType
  <2>7. \A r \in Steers : v.verdict[r] = IF r = s THEN "injected" ELSE turn.verdict[r]
    BY <1>3, <2>1, <2>2, <2>6
  <2>8. turn.op[s] = "none" /\ turn.verdict[s] = "open"
    BY <1>3, <1>4, <1>9, <2>1 DEF TurnInv
  <2>9. HeardSteer(s)
    BY <1>6, <1>9 DEF IInv, StreamInv, InputInv
  <2>10. TurnInv(v)
    <3>1. PICK M : M = t.ids \cup InFlight(t)
      OBVIOUS
    <3>2. IsFiniteSet(M) /\ Cardinality(M) \in Nat /\ s \in M
      BY <1>3, <1>9, <3>1, Members
    <3>3. v.ids \cup InFlight(v) = M \ {s}
      BY <1>3, <2>2, <2>6, <2>8, <3>1 DEF InFlight
    <3>4. Cardinality(M \ {s}) = Cardinality(M) - 1
      BY <3>2, FS_RemoveElement
    <3>5. t.injected + Cardinality(M) <= t.asked
      BY <1>4, <3>1 DEF TurnInv
    <3>6. v.injected + Cardinality(v.ids \cup InFlight(v)) <= v.asked
      <4>1. (t.injected + 1) + (Cardinality(M) - 1) <= t.asked
        BY <2>1, <3>2, <3>5
      <4>2. v.injected + Cardinality(M \ {s}) <= v.asked
        BY <2>6, <3>4, <4>1
      <4>3. QED BY <3>3, <4>2
    <3>7. Ends(v) /\ Len(v.deferred) <= DeferredLimit
      BY <1>3, <1>4, <1>9, <2>6 DEF TurnInv, Ends, Pending
    <3>8. \A r \in Steers :
            /\ v.op[r] # "none" => v.verdict[r] # "unasked"
            /\ v.op[r] # "none" /\ Pending(v) => v.verdict[r] = "open"
            /\ r \in v.ids => v.verdict[r] = "open" /\ v.op[r] = "none"
      BY <1>3, <1>4, <2>2, <2>6, <2>7, <2>8 DEF TurnInv, Pending
    <3>9. QED BY <3>6, <3>7, <3>8 DEF TurnInv
  <2>11. CalmTurn(turn, v) /\ CalmInput(turn, v)
    BY <2>6, <2>7, <2>9 DEF CalmTurn, CalmInput, Pending
  <2>12. turn.binding = "bound"
    BY <2>9, HeardIsBound
  <2>13. CASE turn' = MaybeFinish(Replay(v, cut))
    <3>1. cut \in BOOLEAN
      BY <1>7 DEF Cuts
    <3>2. IInv' /\ turn'.verdict = v.verdict
      BY <1>1, <2>6, <2>10, <2>11, <2>12, <2>13, <3>1, ReplayStep
    <3>3. QED BY <2>1, <2>7, <2>8, <2>9, <3>2
  <2>14. QED BY <1>7, <1>8, <1>9, <2>5, <2>13
<1>10. QED BY <1>1, <1>7, <1>8, <1>9

\* Corrections that are given up
LEMMA RejectedAll ==
  ASSUME IInv, NEW u \in TurnType,
         \A s \in Steers : u.verdict[s] = IF turn.verdict[s] = "open" THEN "rejected" ELSE turn.verdict[s],
         u.op = turn.op, u.ids = {}, u.asked = turn.asked, u.injected = turn.injected,
         u.input = turn.input, u.observation = turn.observation,
         u.deferred = turn.deferred, u.initialSeen = turn.initialSeen,
         u.binding = turn.binding, ~Pending(u), u.result = "ok" => turn.result = "ok"
  PROVE  TurnInv(u) /\ Calm(turn, u)
<1>1. turn \in TurnType /\ TurnInv(turn)
  BY TurnIsCalm
<1>2. InFlight(u) = InFlight(turn) /\ u.ids \cup InFlight(u) \subseteq turn.ids \cup InFlight(turn)
  BY DEF InFlight
<1>3. turn.injected + Cardinality(u.ids \cup InFlight(u)) <= turn.asked
  <2>1. /\ turn.injected \in Nat /\ turn.asked \in Nat
        /\ Cardinality(turn.ids \cup InFlight(turn)) \in Nat
    BY <1>1, Members DEF TurnType
  <2>2. /\ Cardinality(u.ids \cup InFlight(u)) <= Cardinality(turn.ids \cup InFlight(turn))
        /\ Cardinality(u.ids \cup InFlight(u)) \in Nat
    BY <1>1, <1>2, FewerMembers
  <2>3. QED BY <1>1, <2>1, <2>2 DEF TurnInv
<1>4. Ends(u)
  BY <1>1, <1>2 DEF TurnInv, Ends, Observing
<1>5. TurnInv(u)
  BY <1>1, <1>3, <1>4 DEF TurnInv
<1>6. Calm(turn, u)
  BY DEF Calm, CalmTurn, CalmInput, CalmHeld
<1>7. QED BY <1>5, <1>6

LEMMA GiveUpSteps ==
  ASSUME IInv, Cancel \/ FailureSettles
  PROVE  /\ IInv'
         /\ \A s \in Steers : turn'.verdict[s] =
              IF turn.verdict[s] = "open" THEN "rejected" ELSE turn.verdict[s]
<1>1. turn \in TurnType
  BY TurnIsCalm
<1>2. turn.verdict \in [Steers -> Verdicts]
  BY <1>1 DEF TurnType
<1>3. PICK verdict \in [Steers -> Verdicts] :
        verdict = [s \in Steers |-> IF turn.verdict[s] = "open" THEN "rejected" ELSE turn.verdict[s]]
  BY <1>2 DEF Verdicts
<1>4. \A s \in Steers : verdict[s] = IF turn.verdict[s] = "open" THEN "rejected" ELSE turn.verdict[s]
  BY <1>3
<1>5. CASE Cancel
  <2>1. /\ Session
        /\ turn' = [turn EXCEPT !.result = "cancelled", !.child = FALSE, !.verdict = verdict,
                                !.ids = {}, !.polled = {}, !.timed = {}]
    BY <1>1, <1>3, <1>5 DEF Cancel, RejectWaiters, TurnType
  <2>2. /\ turn' \in TurnType /\ turn'.verdict = verdict /\ turn'.op = turn.op /\ turn'.ids = {}
        /\ turn'.asked = turn.asked /\ turn'.injected = turn.injected
        /\ turn'.input = turn.input /\ turn'.observation = turn.observation
        /\ turn'.deferred = turn.deferred /\ turn'.initialSeen = turn.initialSeen
        /\ turn'.binding = turn.binding /\ turn'.result = "cancelled"
    BY <1>1, <2>1 DEF TurnType
  <2>3. TurnInv(turn') /\ Calm(turn, turn')
    BY <1>4, <2>2, RejectedAll DEF Pending
  <2>4. QED BY <1>4, <2>1, <2>2, <2>3, StillItself, SessionStep
<1>6. CASE FailureSettles
  <2>1. PICK result \in {"ok", "failed", "cancelled"} :
          result = IF Pending(turn) THEN "failed" ELSE turn.result
    BY <1>1 DEF TurnType, Pending
  <2>2. Session
    BY <1>6 DEF FailureSettles
  <2>3. turn' = [turn EXCEPT !.failing = "done", !.child = FALSE, !.verdict = verdict,
                             !.ids = {}, !.polled = {}, !.timed = {}, !.result = result]
    <3>1. PICK t : t = [turn EXCEPT !.failing = "done", !.child = FALSE, !.verdict = verdict,
                                    !.ids = {}, !.polled = {}, !.timed = {}]
      OBVIOUS
    <3>2. t = RejectWaiters([turn EXCEPT !.failing = "done", !.child = FALSE])
      BY <1>1, <1>3, <3>1 DEF RejectWaiters, TurnType
    <3>3. turn' = IF Pending(t) THEN [t EXCEPT !.result = "failed"] ELSE t
      BY <1>6, <3>2 DEF FailureSettles
    <3>4. t.result = turn.result
      BY <1>1, <3>1 DEF TurnType
    <3>5. CASE Pending(turn)
      BY <1>1, <2>1, <3>1, <3>3, <3>4, <3>5 DEF TurnType, Pending
    <3>6. CASE ~Pending(turn)
      BY <1>1, <2>1, <3>1, <3>3, <3>4, <3>6 DEF TurnType, Pending
    <3>7. QED BY <3>5, <3>6
  <2>4. /\ turn' \in TurnType /\ turn'.verdict = verdict /\ turn'.op = turn.op /\ turn'.ids = {}
        /\ turn'.asked = turn.asked /\ turn'.injected = turn.injected
        /\ turn'.input = turn.input /\ turn'.observation = turn.observation
        /\ turn'.deferred = turn.deferred /\ turn'.initialSeen = turn.initialSeen
        /\ turn'.binding = turn.binding /\ turn'.result = result
    BY <1>1, <2>3, ZenonT(30) DEF TurnType
  <2>5. TurnInv(turn') /\ Calm(turn, turn')
    BY <1>4, <2>1, <2>4, RejectedAll DEF Pending
  <2>6. QED BY <1>4, <2>2, <2>4, <2>5, StillItself, SessionStep
<1>7. QED BY <1>5, <1>6

-----------------------------------------------------------------------------
(***************************************************************************)
(* The steps of the session that touch the bridge or its lock.             *)
(***************************************************************************)
LEMMA RestStep ==
  ASSUME IInv, turn' \in TurnType, TurnInv(turn'), Calm(turn, turn'),
         CalmBridge, bridge' \in BridgeType, lock' \in {"free", "adapter", "hook"},
         CalmHooks, hooks' \in [Hooks -> [at : HookPlaces, steer : Steers \cup {0}]],
         provider' = provider, LockInv'
  PROVE  IInv'
<1>1. BridgeInv' /\ StreamInv'
  BY CalmStep DEF Calm
<1>2. Types'
  BY DEF IInv, Types
<1>3. QED BY <1>1, <1>2 DEF IInv

LEMMA BlockSteps ==
  ASSUME IInv, BlockSettles \/ BindFails
  PROVE  IInv' /\ turn'.verdict = turn.verdict
<1>1. turn \in TurnType /\ bridge \in BridgeType
  BY TurnIsCalm DEF IInv, Types
<1>2. /\ UNCHANGED <<lock, hooks, provider>>
      /\ bridge' = bridge \/ (lock = "free" /\ bridge' = BlockState(bridge))
  BY DEF BlockSettles, BindFails
<1>3. /\ turn' \in TurnType /\ TurnInv(turn') /\ Calm(turn, turn')
      /\ turn'.verdict = turn.verdict
  <2>1. CASE BlockSettles
    <3>1. PICK binding \in {"bound", "failed"} :
            binding = IF turn.binding = "bound" THEN turn.binding ELSE "failed"
      OBVIOUS
    <3>2. turn' = [turn EXCEPT !.failing = "stop", !.binding = binding]
      BY <1>1, <2>1, <3>1 DEF BlockSettles, TurnType
    <3>3. /\ turn' \in TurnType /\ Elsewhere(turn, turn')
          /\ turn'.binding = binding /\ turn'.result = turn.result
      BY <1>1, <3>2 DEF TurnType, Elsewhere
    <3>4. QED BY <3>1, <3>3, ElsewhereCalm DEF Elsewhere
  <2>2. CASE BindFails
    <3>1. PICK t : t = [turn EXCEPT !.binding = "failed"]
      OBVIOUS
    <3>2. /\ t \in TurnType /\ Elsewhere(turn, t)
          /\ t.binding = "failed" /\ t.result = turn.result /\ turn.binding = "binding"
      BY <1>1, <2>2, <3>1 DEF BindFails, TurnType, Elsewhere
    <3>3. TurnInv(t) /\ Calm(turn, t)
      BY <3>2, ElsewhereCalm
    <3>4. Still(t, turn')
      BY <2>2, <3>1, <3>2, FailProviderEventStill DEF BindFails, Failures
    <3>5. turn' \in TurnType /\ TurnInv(turn')
      BY <3>2, <3>3, <3>4, KeepsTurn DEF Still, Keeps, TurnInv
    <3>6. Calm(turn, turn')
      BY <3>3, <3>4, CalmThenStill
    <3>7. QED BY <3>2, <3>4, <3>5, <3>6 DEF Elsewhere, Still, Keeps
  <2>3. QED BY <2>1, <2>2
<1>4. LockInv'
  BY <1>2, <1>3, LockStep
<1>5. CalmBridge /\ bridge' \in BridgeType
  <2>1. CASE bridge' = bridge
    BY <1>1, <2>1 DEF CalmBridge, SameBridge
  <2>2. CASE lock = "free" /\ bridge' = BlockState(bridge)
    <3>1. bridge' \in BridgeType
      BY <1>1, <2>2, BlockStateType
    <3>2. turn'.observation.at # "writing"
      BY <1>2, <1>4, <2>2 DEF LockInv
    <3>3. QED BY <2>2, <3>1, <3>2 DEF CalmBridge
  <2>3. QED BY <1>2, <2>1, <2>2
<1>6. CalmHooks /\ hooks' \in [Hooks -> [at : HookPlaces, steer : Steers \cup {0}]]
      /\ lock' \in {"free", "adapter", "hook"}
  BY <1>2 DEF CalmHooks, Carrying, IInv, Types
<1>7. QED BY <1>2, <1>3, <1>4, <1>5, <1>6, RestStep

\* An operation that goes on
LEMMA OpMoves ==
  ASSUME IInv, NEW s \in Steers, turn.op[s] # "none",
         NEW place \in {"writing", "written", "failed"}, turn' = [turn EXCEPT !.op[s] = place]
  PROVE  /\ turn' \in TurnType /\ TurnInv(turn')
         /\ \A r \in Steers : turn'.op[r] = IF r = s THEN place ELSE turn.op[r]
         /\ turn'.verdict = turn.verdict /\ turn'.binding = turn.binding
         /\ turn'.observation = turn.observation /\ turn'.input = turn.input
         /\ turn'.deferred = turn.deferred /\ turn'.initialSeen = turn.initialSeen
         /\ turn'.result = turn.result
         /\ place # "writing" => Calm(turn, turn')
<1>1. turn \in TurnType /\ TurnInv(turn)
  BY TurnIsCalm
<1>2. PICK op \in [Steers -> OpPlaces] : op = [turn.op EXCEPT ![s] = place]
  BY <1>1 DEF TurnType, OpPlaces
<1>3. turn' = [turn EXCEPT !.op = op]
  BY <1>1, <1>2 DEF TurnType
<1>4. /\ turn' \in TurnType /\ turn'.op = op /\ turn'.verdict = turn.verdict
      /\ turn'.ids = turn.ids /\ turn'.asked = turn.asked /\ turn'.injected = turn.injected
      /\ turn'.binding = turn.binding /\ turn'.observation = turn.observation
      /\ turn'.input = turn.input /\ turn'.deferred = turn.deferred
      /\ turn'.initialSeen = turn.initialSeen /\ turn'.result = turn.result
  BY <1>1, <1>3, ZenonT(30) DEF TurnType
<1>5. \A r \in Steers : turn'.op[r] = IF r = s THEN place ELSE turn.op[r]
  BY <1>1, <1>2, <1>4 DEF TurnType
<1>6. InFlight(turn') = InFlight(turn)
  BY <1>5 DEF InFlight
<1>7. TurnInv(turn')
  BY <1>1, <1>4, <1>5, <1>6, ZenonT(30) DEF TurnInv, Ends, Pending, Observing
<1>8. place # "writing" => Calm(turn, turn')
  BY <1>4, <1>5 DEF Calm, CalmTurn, CalmInput, CalmHeld, Pending
<1>9. QED BY <1>4, <1>5, <1>7, <1>8

LEMMA EnqueueFailsStep ==
  ASSUME IInv, NEW s \in Steers, EnqueueFails(s)
  PROVE  IInv'
<1>1. /\ turn.op[s] \in {"waiting", "writing"} /\ UNCHANGED <<bridge, hooks, provider>>
      /\ turn' = [turn EXCEPT !.op[s] = "failed"]
      /\ lock' = IF turn.op[s] = "writing" THEN "free" ELSE lock
  BY DEF EnqueueFails
<1>2. /\ turn' \in TurnType /\ TurnInv(turn') /\ Calm(turn, turn')
      /\ \A r \in Steers : turn'.op[r] = IF r = s THEN "failed" ELSE turn.op[r]
      /\ turn'.observation = turn.observation
  BY <1>1, OpMoves
<1>3. LockInv'
  BY <1>1, <1>2 DEF IInv, LockInv
<1>4. CalmBridge /\ CalmHooks
  BY <1>1 DEF CalmBridge, SameBridge, CalmHooks, Carrying
<1>5. /\ bridge' \in BridgeType /\ lock' \in {"free", "adapter", "hook"}
      /\ hooks' \in [Hooks -> [at : HookPlaces, steer : Steers \cup {0}]]
  BY <1>1 DEF IInv, Types
<1>6. QED BY <1>1, <1>2, <1>3, <1>4, <1>5, RestStep

LEMMA EnqueueRequestStep ==
  ASSUME IInv, NEW s \in Steers, EnqueueRequest(s)
  PROVE  IInv'
<1>1. /\ turn.op[s] = "writing" /\ UNCHANGED <<hooks, provider>>
      /\ turn' = [turn EXCEPT !.op[s] = "written"] /\ lock' = "free"
      /\ bridge' = [bridge EXCEPT !.request[s] = "queued"]
  BY DEF EnqueueRequest, RequestWritten
<1>2. /\ turn' \in TurnType /\ TurnInv(turn') /\ Calm(turn, turn')
      /\ \A r \in Steers : turn'.op[r] = IF r = s THEN "written" ELSE turn.op[r]
      /\ turn'.observation = turn.observation
  BY <1>1, OpMoves
<1>3. LockInv'
  BY <1>1, <1>2 DEF IInv, LockInv
<1>4. bridge' \in BridgeType /\ SameBridge(bridge, bridge')
  BY <1>1 DEF IInv, Types, BridgeType, SameBridge
<1>5. CalmBridge /\ CalmHooks
  BY <1>1, <1>4 DEF CalmBridge, CalmHooks, Carrying
<1>6. /\ lock' \in {"free", "adapter", "hook"}
      /\ hooks' \in [Hooks -> [at : HookPlaces, steer : Steers \cup {0}]]
  BY <1>1 DEF IInv, Types
<1>7. QED BY <1>1, <1>2, <1>3, <1>4, <1>5, <1>6, RestStep

\* A change of the observation
LEMMA ObservationMoves ==
  ASSUME IInv, Observing(turn), NEW o \in ObservationType, o.at # "none",
         turn' = [turn EXCEPT !.observation = o]
  PROVE  /\ turn' \in TurnType /\ TurnInv(turn') /\ turn'.observation = o
         /\ CalmTurn(turn, turn') /\ CalmHeld(turn, turn')
         /\ turn'.verdict = turn.verdict /\ turn'.op = turn.op /\ turn'.binding = turn.binding
         /\ turn'.input = turn.input /\ turn'.deferred = turn.deferred
         /\ turn'.initialSeen = turn.initialSeen /\ turn'.result = turn.result
<1>1. turn \in TurnType /\ TurnInv(turn)
  BY TurnIsCalm
<1>2. /\ turn' \in TurnType /\ turn'.op = turn.op /\ turn'.verdict = turn.verdict
      /\ turn'.ids = turn.ids /\ turn'.asked = turn.asked /\ turn'.injected = turn.injected
      /\ turn'.binding = turn.binding /\ turn'.observation = o
      /\ turn'.input = turn.input /\ turn'.deferred = turn.deferred
      /\ turn'.initialSeen = turn.initialSeen /\ turn'.result = turn.result
  BY <1>1 DEF TurnType
<1>3. Keeps(turn, turn')
  BY <1>2 DEF Keeps, Ends, InFlight, Observing
<1>4. TurnInv(turn')
  <2>1. Len(turn'.deferred) <= DeferredLimit
    BY <1>1, <1>2 DEF TurnInv
  <2>2. QED BY <1>1, <1>3, <2>1, KeepsTurn
<1>5. CalmTurn(turn, turn') /\ CalmHeld(turn, turn')
  BY <1>2 DEF CalmTurn, CalmHeld, Pending
<1>6. QED BY <1>2, <1>4, <1>5

LEMMA ObserveFailsStep ==
  ASSUME IInv, ObserveFails
  PROVE  IInv'
<1>1. /\ turn \in TurnType /\ bridge \in BridgeType
      /\ turn.observation.at \in {"asked", "writing"} /\ UNCHANGED <<hooks, provider>>
      /\ bridge' = bridge \/ bridge' = BlockState(bridge)
      /\ lock' = IF turn.observation.at = "writing" THEN "free" ELSE lock
  BY DEF ObserveFails, IInv, Types
<1>2. PICK o \in ObservationType : o = [turn.observation EXCEPT !.at = "failed"] /\ o.at = "failed"
  <2>1. turn.observation \in ObservationType
    BY <1>1 DEF TurnType
  <2>2. [turn.observation EXCEPT !.at = "failed"] \in ObservationType
    BY <2>1 DEF ObservationType
  <2>3. [turn.observation EXCEPT !.at = "failed"].at = "failed"
    BY <2>1 DEF ObservationType
  <2>4. QED BY <2>2, <2>3
<1>3. turn' = [turn EXCEPT !.observation = o]
  BY <1>1, <1>2 DEF ObserveFails, TurnType
<1>4. /\ turn' \in TurnType /\ TurnInv(turn') /\ turn'.observation = o
      /\ CalmTurn(turn, turn') /\ CalmHeld(turn, turn') /\ turn'.op = turn.op
      /\ turn'.input = turn.input
  BY <1>1, <1>2, <1>3, ObservationMoves DEF Observing
<1>5. Calm(turn, turn')
  BY <1>2, <1>4 DEF Calm, CalmInput
<1>6. LockInv'
  BY <1>1, <1>2, <1>4 DEF IInv, LockInv
<1>7. CalmBridge /\ CalmHooks /\ bridge' \in BridgeType
  BY <1>1, <1>2, <1>4, BlockStateType DEF CalmBridge, SameBridge, CalmHooks, Carrying
<1>8. /\ lock' \in {"free", "adapter", "hook"}
      /\ hooks' \in [Hooks -> [at : HookPlaces, steer : Steers \cup {0}]]
  BY <1>1 DEF IInv, Types
<1>9. QED BY <1>1, <1>4, <1>5, <1>6, <1>7, <1>8, RestStep

(***************************************************************************)
(* The steps of the session that move a correction on.                     *)
(***************************************************************************)
LEMMA EnqueueStateStep ==
  ASSUME IInv, NEW s \in Steers, EnqueueState(s)
  PROVE  IInv'
<1>1. Types /\ TurnInv(turn) /\ LockInv /\ QueueInv /\ OrderInv /\ HookInv /\ InputInv /\ PromptInv /\ VerdictInv
  BY DEF IInv, BridgeInv, StreamInv
<1>2. /\ turn.op[s] = "waiting" /\ turn.binding = "bound" /\ lock = "free" /\ ~Blocked
      /\ lock' = "adapter" /\ turn' = [turn EXCEPT !.op[s] = "writing"]
      /\ bridge' = Enqueued(bridge, s, turn.floor[s]) /\ UNCHANGED <<hooks, provider>>
  BY DEF EnqueueState, CanEnqueue, Blocked
<1>3. /\ turn' \in TurnType /\ TurnInv(turn')
      /\ \A r \in Steers : turn'.op[r] = IF r = s THEN "writing" ELSE turn.op[r]
      /\ turn'.verdict = turn.verdict /\ turn'.binding = turn.binding
      /\ turn'.observation = turn.observation /\ turn'.input = turn.input
      /\ turn'.deferred = turn.deferred /\ turn'.initialSeen = turn.initialSeen
      /\ turn'.result = turn.result
  BY <1>2, OpMoves
<1>4. PICK e \in EntryType : e = [steer |-> s, floor |-> turn.floor[s], status |-> "queued"]
  BY <1>1 DEF Types, TurnType, EntryType, EntryStatuses
<1>5. /\ bridge \in BridgeType /\ bridge.queue \in Seq(EntryType) /\ Len(bridge.queue) \in Nat
      /\ \A i \in 1..Len(bridge.queue) : bridge.queue[i].steer \in Steers
  BY <1>1, QueueType DEF Types
<1>6. PICK queue \in Seq(EntryType) : queue = Append(bridge.queue, e)
  <2>1. Append(bridge.queue, e) \in Seq(EntryType)
    BY <1>5, AppendProperties
  <2>2. QED BY <2>1
<1>7. /\ Len(queue) = Len(bridge.queue) + 1
      /\ \A i \in 1..Len(bridge.queue) : queue[i] = bridge.queue[i]
      /\ queue[Len(bridge.queue) + 1] = e
  BY <1>4, <1>5, <1>6
<1>8. PICK status \in {"claimed", "queued"} :
        bridge' = [bridge EXCEPT !.status = status, !.guard = TRUE, !.queue = queue]
  BY <1>2, <1>4, <1>5, <1>6 DEF Enqueued, BridgeType
<1>9. /\ bridge' \in BridgeType /\ bridge'.status # "blocked" /\ bridge'.guard = TRUE
      /\ bridge'.active = bridge.active /\ bridge'.queue = queue
  BY <1>5, <1>8 DEF BridgeType, BridgeStatuses
<1>10. e.steer = s /\ e.status = "queued"
  BY <1>4
<1>11. \A i \in 1..Len(bridge.queue) : bridge.queue[i].steer # s
  BY <1>1, <1>2 DEF QueueInv
<1>12. Types'
  BY <1>1, <1>2, <1>3, <1>9 DEF Types
<1>13. LockInv'
  BY <1>1, <1>2, <1>3 DEF LockInv
<1>14. QueueInv'
  <2>1. \A i, j \in 1..Len(queue) : queue[i].steer = queue[j].steer => i = j
    BY <1>1, <1>5, <1>7, <1>10, <1>11, SMTT(30) DEF QueueInv
  <2>2. \A i \in 1..Len(queue) :
          turn'.verdict[queue[i].steer] # "unasked" /\ turn'.op[queue[i].steer] # "waiting"
    BY <1>1, <1>2, <1>3, <1>5, <1>7, <1>10 DEF QueueInv, TurnInv
  <2>3. QED BY <1>2, <1>3, <1>9, <2>1, <2>2 DEF QueueInv, Blocked
<1>15. Hears' = Hears /\ Hears \in Nat /\ Hears <= Len(bridge.queue)
  BY <1>1, <1>2 DEF Hears, Types, ProviderType, OrderInv
<1>16. OrderInv'
  <2>1. Hears' <= Len(bridge'.queue)
    BY <1>5, <1>7, <1>9, <1>15
  <2>2. \A i \in 1..Hears' : provider'.heard[i] = bridge'.queue[i].steer
    BY <1>1, <1>2, <1>5, <1>7, <1>9, <1>15 DEF OrderInv
  <2>3. bridge.active # 0 =>
          \E i \in 1..Len(bridge.queue) : bridge.queue[i].steer = bridge.active
    BY <1>1, <1>2 DEF OrderInv
  <2>4. bridge.active # s
    BY <1>11, <2>3, SteerNumbers
  <2>5. ASSUME NEW i \in 1..Len(bridge'.queue)
        PROVE  EntryInv(i)'
    <3>1. CASE i \in 1..Len(bridge.queue)
      <4>1. EntryInv(i)
        BY <1>1, <1>2, <3>1 DEF OrderInv
      <4>2. QED BY <1>7, <1>9, <1>15, <3>1, <4>1 DEF EntryInv
    <3>2. CASE i = Len(bridge.queue) + 1
      BY <1>5, <1>7, <1>9, <1>10, <1>15, <2>4, <3>2 DEF EntryInv
    <3>3. QED BY <1>5, <1>7, <1>9, <3>1, <3>2
  <2>6. bridge'.active # 0 =>
          \E i \in 1..Len(bridge'.queue) : bridge'.queue[i].steer = bridge'.active
    BY <1>5, <1>7, <1>9, <2>3
  <2>7. QED BY <2>1, <2>2, <2>5, <2>6 DEF OrderInv
<1>17. HookInv'
  <2>1. SUFFICES ASSUME NEW h \in Hooks, Carrying(h)
                 PROVE  /\ Hears' < Len(bridge'.queue)
                        /\ bridge'.queue[Hears' + 1].steer = hooks[h].steer
                        /\ bridge'.active = hooks[h].steer
                        /\ \A g \in Hooks : Carrying(g) => g = h
    BY <1>2 DEF HookInv, Carrying
  <2>2. /\ Hears < Len(bridge.queue) /\ bridge.queue[Hears + 1].steer = hooks[h].steer
        /\ bridge.active = hooks[h].steer
        /\ \A g \in Hooks : Carrying(g) => g = h
    BY <1>1, <1>2, <2>1 DEF HookInv
  <2>3. Hears + 1 \in 1..Len(bridge.queue)
    BY <1>5, <1>15, <2>2
  <2>4. QED BY <1>5, <1>7, <1>9, <1>15, <2>2, <2>3
<1>18. InputInv'
  <2>1. EchoComes' = EchoComes /\ Outstanding' = Outstanding /\ Awaits(turn') = Awaits(turn)
    BY <1>2, <1>3 DEF EchoComes, Outstanding, Awaits
  <2>2. \A h \in Hooks : Carrying(h)' = Carrying(h)
    BY <1>2 DEF Carrying
  <2>3. QED BY <1>1, <1>2, <1>3, <1>9, <1>15, <2>1, <2>2 DEF InputInv, Blocked, HeardSteer
<1>19. PromptInv' /\ VerdictInv'
  BY <1>1, <1>2, <1>3 DEF PromptInv, VerdictInv, HeardSteer, OnlyPromptHeld, HeldInput, Pending
<1>20. QED BY <1>3, <1>12, <1>13, <1>14, <1>16, <1>17, <1>18, <1>19 DEF IInv, BridgeInv, StreamInv

LEMMA ObserveRequestStep ==
  ASSUME IInv, ObserveRequest
  PROVE  IInv'
<1>1. Types /\ LockInv /\ HookInv /\ InputInv /\ BridgeInv
  BY DEF IInv, StreamInv, BridgeInv
<1>2. /\ turn.observation.at = "asked" /\ lock = "free" /\ lock' = "adapter"
      /\ bridge.status # "blocked" /\ bridge.active # 0
      /\ bridge' = RequestInjected(bridge) /\ UNCHANGED <<hooks, provider>>
  BY DEF ObserveRequest, Claimed
<1>3. turn \in TurnType /\ bridge \in BridgeType /\ bridge.active \in Steers
  BY <1>1, <1>2 DEF Types, BridgeType
<1>4. bridge' \in BridgeType /\ SameBridge(bridge, bridge')
  BY <1>2, <1>3 DEF RequestInjected, SameBridge, BridgeType
<1>5. PICK o \in ObservationType : o.at = "writing" /\ o.steer = bridge.active
        /\ o = [turn.observation EXCEPT !.at = "writing", !.steer = bridge.active]
  <2>1. turn.observation \in ObservationType
    BY <1>3 DEF TurnType
  <2>2. PICK o : o = [turn.observation EXCEPT !.at = "writing", !.steer = bridge.active]
    OBVIOUS
  <2>3. o \in ObservationType /\ o.at = "writing" /\ o.steer = bridge.active
    BY <1>3, <2>1, <2>2 DEF ObservationType
  <2>4. QED BY <2>2, <2>3
<1>6. turn' = [turn EXCEPT !.observation = o]
  BY <1>3, <1>5 DEF ObserveRequest, TurnType
<1>7. /\ turn' \in TurnType /\ TurnInv(turn') /\ turn'.observation = o
      /\ CalmTurn(turn, turn') /\ CalmHeld(turn, turn')
      /\ turn'.op = turn.op /\ turn'.input = turn.input
  BY <1>2, <1>5, <1>6, ObservationMoves DEF Observing
<1>8. CalmBridge /\ CalmHooks
  BY <1>2, <1>4 DEF CalmBridge, CalmHooks, Carrying
<1>9. BridgeInv' /\ PromptInv' /\ VerdictInv'
  BY <1>2, <1>7, <1>8, QueueStep, PromptStep
<1>10. LockInv'
  BY <1>1, <1>2, <1>5, <1>7 DEF LockInv
<1>11. InputInv'
  <2>1. Outstanding /\ turn.input = 0 /\ ~EchoComes
    BY <1>1, <1>2 DEF InputInv, Outstanding, Awaits
  <2>2. /\ Hears > 0 /\ \A h \in Hooks : ~Carrying(h)
        /\ bridge.active = provider.heard[Hears]
    BY <1>1, <1>2, <2>1 DEF InputInv, Blocked
  <2>3. HeardSteer(bridge.active)
    <3>1. Hears \in 1..Len(provider.heard)
      BY <1>1, <2>2 DEF Hears, Types, ProviderType
    <3>2. QED BY <2>2, <3>1 DEF HeardSteer
  <2>4. /\ ~(EchoComes') /\ turn'.input = 0 /\ Hears' = Hears
        /\ \A h \in Hooks : ~(Carrying(h)')
    BY <1>2, <1>7, <2>1, <2>2 DEF EchoComes, Hears, Carrying
  <2>5. HeardSteer(turn.observation.steer)'
    BY <1>2, <1>5, <1>7, <2>3 DEF HeardSteer
  <2>6. \A i, j \in 1..Len(provider'.stdout) :
          Echoes(provider'.stdout[i]) /\ Echoes(provider'.stdout[j]) => i = j
    BY <1>1, <1>2 DEF InputInv
  <2>7. QED BY <1>2, <1>4, <1>5, <1>7, <2>2, <2>4, <2>5, <2>6 DEF InputInv, SameBridge, Blocked
<1>12. Types'
  BY <1>1, <1>2, <1>4, <1>7 DEF Types
<1>13. QED BY <1>7, <1>9, <1>10, <1>11, <1>12 DEF IInv, StreamInv

LEMMA ObserveStateStep ==
  ASSUME IInv, ObserveState
  PROVE  IInv'
<1>1. Types /\ LockInv /\ QueueInv /\ OrderInv /\ HookInv /\ InputInv
  BY DEF IInv, StreamInv, BridgeInv
<1>2. /\ turn.observation.at = "writing" /\ lock' = "free"
      /\ bridge' = Confirmed(bridge) /\ UNCHANGED <<hooks, provider>>
  BY DEF ObserveState
<1>3. /\ turn \in TurnType /\ bridge \in BridgeType /\ bridge.queue \in Seq(EntryType)
      /\ Len(bridge.queue) \in Nat
      /\ \A i \in 1..Len(bridge.queue) : bridge.queue[i] \in EntryType /\ bridge.queue[i].steer \in Steers
  BY <1>1, QueueType DEF Types
<1>4. PICK o \in ObservationType :
        /\ o.at = "confirmed" /\ o.steer = turn.observation.steer
        /\ o = [turn.observation EXCEPT !.at = "confirmed"]
  <2>1. turn.observation \in ObservationType
    BY <1>3 DEF TurnType
  <2>2. PICK o : o = [turn.observation EXCEPT !.at = "confirmed"]
    OBVIOUS
  <2>3. o \in ObservationType /\ o.at = "confirmed" /\ o.steer = turn.observation.steer
    BY <2>1, <2>2 DEF ObservationType
  <2>4. QED BY <2>2, <2>3
<1>5. turn' = [turn EXCEPT !.observation = o]
  BY <1>3, <1>4 DEF ObserveState, TurnType
<1>6. /\ turn' \in TurnType /\ TurnInv(turn') /\ turn'.observation = o
      /\ CalmTurn(turn, turn') /\ CalmHeld(turn, turn')
      /\ turn'.op = turn.op /\ turn'.input = turn.input /\ turn'.verdict = turn.verdict
      /\ turn'.binding = turn.binding
  BY <1>2, <1>4, <1>5, ObservationMoves DEF Observing
<1>7. /\ ~Blocked /\ Hears > 0 /\ (\A h \in Hooks : ~Carrying(h))
      /\ bridge.active = provider.heard[Hears] /\ turn.input = 0 /\ ~EchoComes
      /\ HeardSteer(turn.observation.steer)
  BY <1>1, <1>2 DEF InputInv, Outstanding, Awaits
<1>8. Hears \in Nat /\ Hears' = Hears /\ Hears <= Len(bridge.queue)
  BY <1>1, <1>2 DEF Hears, Types, ProviderType, OrderInv
<1>9. PICK queue \in Seq(EntryType) :
        /\ queue = Mark(bridge.queue, bridge.active, "injected")
        /\ Len(queue) = Len(bridge.queue)
        /\ \A i \in 1..Len(bridge.queue) :
             /\ queue[i].steer = bridge.queue[i].steer
             /\ queue[i].status = IF bridge.queue[i].steer = bridge.active THEN "injected"
                                  ELSE bridge.queue[i].status
  <2>1. "injected" \in EntryStatuses /\ bridge \in BridgeType
    BY <1>3 DEF EntryStatuses
  <2>2. PICK queue : queue = Mark(bridge.queue, bridge.active, "injected")
    OBVIOUS
  <2>3. Marked(bridge.queue, queue, bridge.active, "injected")
    BY <2>1, <2>2, MarkType
  <2>4. QED BY <2>2, <2>3 DEF Marked
<1>10. PICK waits \in BOOLEAN : waits = (Waiting(queue) # {})
  OBVIOUS
<1>11. PICK status \in {"queued", "injected"} :
         bridge' = [bridge EXCEPT !.status = status, !.guard = waits, !.active = 0, !.queue = queue]
  BY <1>2, <1>3, <1>9, <1>10 DEF Confirmed
<1>12. /\ bridge' \in BridgeType /\ bridge'.status # "blocked" /\ bridge'.guard = waits
       /\ bridge'.active = 0 /\ bridge'.queue = queue
  BY <1>3, <1>11 DEF BridgeType, BridgeStatuses
<1>13. Types'
  BY <1>1, <1>2, <1>6, <1>12 DEF Types
<1>14. LockInv'
  BY <1>1, <1>2, <1>4, <1>6 DEF LockInv
<1>15. QueueInv'
  <2>1. queue # <<>> => bridge.queue # <<>>
    BY <1>3, <1>9, EmptySeq
  <2>2. QED BY <1>1, <1>3, <1>6, <1>9, <1>12, <2>1 DEF QueueInv, Blocked
<1>16. OrderInv'
  <2>1. Hears' <= Len(bridge'.queue)
        /\ \A i \in 1..Hears' : provider'.heard[i] = bridge'.queue[i].steer
    BY <1>1, <1>2, <1>3, <1>8, <1>9, <1>12 DEF OrderInv
  <2>2. ASSUME NEW i \in 1..Len(bridge'.queue)
        PROVE  EntryInv(i)'
    <3>1. i \in 1..Len(bridge.queue) /\ EntryInv(i)
      BY <1>1, <1>7, <1>9, <1>12 DEF OrderInv
    <3>2. queue[i].status # "injected" => waits
      <4>1. SUFFICES ASSUME queue[i].status # "injected" PROVE Waiting(queue) # {}
        BY <1>10
      <4>2. queue[i].status \in {"queued", "awaiting"}
        BY <1>3, <1>9, <3>1, <4>1 DEF EntryInv, EntryType, EntryStatuses
      <4>3. i \in DOMAIN queue
        BY <1>9, <3>1
      <4>4. QED BY <4>2, <4>3 DEF Waiting
    <3>3. queue[i].status = "injected" => i <= Hears
      <4>1. SUFFICES ASSUME bridge.queue[i].steer = bridge.active PROVE i <= Hears
        BY <1>9, <3>1 DEF EntryInv
      <4>2. bridge.queue[i].steer = bridge.queue[Hears].steer /\ Hears \in 1..Len(bridge.queue)
        BY <1>1, <1>7, <1>8, <4>1 DEF OrderInv
      <4>3. i = Hears
        BY <1>1, <3>1, <4>2 DEF QueueInv
      <4>4. QED BY <1>8, <4>3
    <3>4. queue[i].steer # 0 /\ queue[i].status # "awaiting" /\ queue[i].status # "blocked"
      BY <1>3, <1>9, <3>1, SteerNumbers DEF EntryInv
    <3>5. queue[i].status = "queued" => i > Hears
      BY <1>9, <3>1 DEF EntryInv
    <3>6. QED BY <1>8, <1>12, <3>2, <3>3, <3>4, <3>5 DEF EntryInv
  <2>3. QED BY <1>12, <2>1, <2>2 DEF OrderInv
<1>17. (\A h \in Hooks : ~(Carrying(h)')) /\ HookInv'
  BY <1>2, <1>7 DEF HookInv, Carrying
<1>18. InputInv'
  <2>1. ~(EchoComes') /\ turn'.input = 0 /\ ~Awaits(turn')
    BY <1>2, <1>4, <1>6, <1>7 DEF EchoComes, Awaits
  <2>2. HeardSteer(turn.observation.steer)'
    BY <1>2, <1>4, <1>6, <1>7 DEF HeardSteer
  <2>3. \A i, j \in 1..Len(provider'.stdout) :
          Echoes(provider'.stdout[i]) /\ Echoes(provider'.stdout[j]) => i = j
    BY <1>1, <1>2 DEF InputInv
  <2>4. QED BY <1>4, <1>6, <2>1, <2>2, <2>3 DEF InputInv, Outstanding
<1>19. PromptInv' /\ VerdictInv'
  BY <1>2, <1>6, PromptStep
<1>20. QED BY <1>6, <1>13, <1>14, <1>15, <1>16, <1>17, <1>18, <1>19 DEF IInv, BridgeInv, StreamInv

-----------------------------------------------------------------------------
(***************************************************************************)
(* The steps of the hook processes.                                        *)
(***************************************************************************)
HookType == [at : HookPlaces, steer : Steers \cup {0}]

LEMMA HookRest ==
  ASSUME IInv, UNCHANGED <<turn, provider>>, CalmBridge, bridge' \in BridgeType,
         lock' \in {"free", "adapter", "hook"}, CalmHooks,
         hooks' \in [Hooks -> HookType], LockInv'
  PROVE  IInv'
<1>1. turn' \in TurnType /\ TurnInv(turn') /\ Calm(turn, turn')
  BY TurnIsCalm
<1>2. QED BY <1>1, RestStep DEF HookType

\* One hook goes to a place.
LEMMA HookGoes ==
  ASSUME IInv, NEW h \in Hooks, NEW at \in HookPlaces, NEW s \in Steers \cup {0}, HookGoto(h, at, s)
  PROVE  /\ hooks' \in [Hooks -> HookType]
         /\ hooks'[h].at = at /\ hooks'[h].steer = s
         /\ \A g \in Hooks : g # h => hooks'[g] = hooks[g]
<1>1. hooks \in [Hooks -> HookType]
  BY DEF IInv, Types, HookType
<1>2. [at |-> at, steer |-> s] \in HookType
  BY DEF HookType
<1>3. hooks' = [hooks EXCEPT ![h] = [at |-> at, steer |-> s]]
  BY DEF HookGoto
<1>4. QED BY <1>1, <1>2, <1>3

LEMMA HookCarries ==
  ASSUME IInv, NEW h \in Hooks, Carrying(h)
  PROVE  /\ hooks[h].steer \in Steers
         /\ \A g \in Hooks : Carrying(g) => g = h
<1>1. /\ Hears < Len(bridge.queue) /\ bridge.queue[Hears + 1].steer = hooks[h].steer
      /\ \A g \in Hooks : Carrying(g) => g = h
  BY DEF IInv, BridgeInv, HookInv
<1>2. Hears \in Nat /\ Len(bridge.queue) \in Nat
      /\ \A i \in 1..Len(bridge.queue) : bridge.queue[i].steer \in Steers
  BY QueueType DEF Hears, IInv, Types, ProviderType
<1>3. QED BY <1>1, <1>2

\* A hook that is not handing anything over, or goes on with it, or drops it
LEMMA HookQuietSteps ==
  ASSUME IInv, NEW h \in Hooks, UNCHANGED <<turn, provider>>,
         \/ HookFindsNothing(h) \/ HookBlocks(h) \/ HookMarksRequest(h)
         \/ HookAcknowledges(h) \/ HookDies(h)
         \/ ProviderRunsHook(h)
  PROVE  IInv'
<1>1. /\ bridge \in BridgeType /\ lock \in {"free", "adapter", "hook"} /\ LockInv
      /\ hooks \in [Hooks -> HookType]
  BY DEF IInv, Types, HookType
<1>2. CASE HookFindsNothing(h) \/ HookBlocks(h)
  <2>1. /\ HookGoto(h, "idle", 0) /\ lock = "free" /\ lock' = lock
        /\ bridge' = bridge \/ bridge' = BlockState(bridge)
    BY <1>2 DEF HookFindsNothing, HookBlocks
  <2>2. /\ hooks' \in [Hooks -> HookType] /\ hooks'[h].at = "idle"
        /\ \A g \in Hooks : g # h => hooks'[g] = hooks[g]
    BY <2>1, HookGoes DEF HookPlaces
  <2>3. turn'.observation.at # "writing"
    BY <1>1, <2>1 DEF LockInv
  <2>4. CalmBridge /\ bridge' \in BridgeType
    BY <1>1, <2>1, <2>3, BlockStateType DEF CalmBridge, SameBridge
  <2>5. CalmHooks
    BY <2>2 DEF CalmHooks, Carrying
  <2>6. LockInv'
    BY <1>1, <2>1, <2>2 DEF LockInv
  <2>7. QED BY <1>1, <2>1, <2>2, <2>4, <2>5, <2>6, HookRest
<1>3. CASE HookMarksRequest(h)
  <2>1. /\ hooks[h].at = "claiming" /\ HookGoto(h, "claimed", hooks[h].steer) /\ lock' = lock
        /\ bridge' = [bridge EXCEPT !.request[hooks[h].steer] = "awaiting"]
    BY <1>3 DEF HookMarksRequest
  <2>2. hooks[h].steer \in Steers
    BY <2>1, HookCarries DEF Carrying
  <2>3. /\ hooks' \in [Hooks -> HookType]
        /\ hooks'[h].at = "claimed" /\ hooks'[h].steer = hooks[h].steer
        /\ \A g \in Hooks : g # h => hooks'[g] = hooks[g]
    BY <2>1, <2>2, HookGoes DEF HookPlaces
  <2>4. bridge' \in BridgeType /\ SameBridge(bridge, bridge')
    BY <1>1, <2>1, <2>2 DEF BridgeType, SameBridge
  <2>5. CalmHooks
    BY <2>1, <2>3 DEF CalmHooks, Carrying
  <2>6. LockInv'
    BY <1>1, <2>1, <2>3 DEF LockInv
  <2>7. QED BY <1>1, <2>1, <2>3, <2>4, <2>5, <2>6, HookRest DEF CalmBridge
<1>4. CASE HookAcknowledges(h)
  <2>1. /\ hooks[h].at = "claimed" /\ HookGoto(h, "answering", hooks[h].steer) /\ lock' = "free"
        /\ bridge' = [bridge EXCEPT !.ack = bridge.ack \cup {hooks[h].steer}]
    BY <1>1, <1>4 DEF HookAcknowledges, BridgeType
  <2>2. /\ hooks[h].steer \in Steers /\ lock = "hook"
        /\ \A g \in Hooks : Carrying(g) => g = h
    BY <1>1, <2>1, HookCarries DEF Carrying, LockInv
  <2>3. /\ hooks' \in [Hooks -> HookType]
        /\ hooks'[h].at = "answering" /\ hooks'[h].steer = hooks[h].steer
        /\ \A g \in Hooks : g # h => hooks'[g] = hooks[g]
    BY <2>1, <2>2, HookGoes DEF HookPlaces
  <2>4. bridge' \in BridgeType /\ SameBridge(bridge, bridge')
    <3>1. PICK ack \in SUBSET Steers : ack = bridge.ack \cup {hooks[h].steer}
      BY <1>1, <2>2 DEF BridgeType
    <3>2. QED BY <1>1, <2>1, <3>1 DEF BridgeType, SameBridge
  <2>5. CalmHooks
    BY <2>1, <2>3 DEF CalmHooks, Carrying
  <2>6. LockInv'
    BY <1>1, <2>1, <2>2, <2>3 DEF LockInv, Carrying
  <2>7. QED BY <1>1, <2>1, <2>3, <2>4, <2>5, <2>6, HookRest DEF CalmBridge
<1>5. CASE HookDies(h)
  <2>1. /\ HookGoto(h, "idle", 0) /\ bridge' = bridge
        /\ lock' = IF hooks[h].at \in {"claiming", "claimed"} THEN "free" ELSE lock
    BY <1>5 DEF HookDies
  <2>2. /\ hooks' \in [Hooks -> HookType] /\ hooks'[h].at = "idle"
        /\ \A g \in Hooks : g # h => hooks'[g] = hooks[g]
    BY <2>1, HookGoes DEF HookPlaces
  <2>3. CalmHooks
    BY <2>2 DEF CalmHooks, Carrying
  <2>4. LockInv'
    <3>1. CASE hooks[h].at \in {"claiming", "claimed"}
      <4>1. lock = "hook" /\ \A g \in Hooks : Carrying(g) => g = h
        BY <1>1, <3>1, HookCarries DEF LockInv, Carrying
      <4>2. QED BY <1>1, <2>1, <2>2, <4>1 DEF LockInv, Carrying
    <3>2. CASE ~(hooks[h].at \in {"claiming", "claimed"})
      BY <1>1, <2>1, <2>2, <3>2 DEF LockInv
    <3>3. QED BY <3>1, <3>2
  <2>5. CalmBridge /\ bridge' \in BridgeType /\ lock' \in {"free", "adapter", "hook"}
    BY <1>1, <2>1 DEF CalmBridge, SameBridge
  <2>6. QED BY <2>2, <2>3, <2>4, <2>5, HookRest
<1>6. CASE ProviderRunsHook(h)
  <2>1. HookGoto(h, "running", 0) /\ bridge' = bridge /\ lock' = lock
    BY <1>6 DEF ProviderRunsHook
  <2>2. /\ hooks' \in [Hooks -> HookType] /\ hooks'[h].at = "running"
        /\ \A g \in Hooks : g # h => hooks'[g] = hooks[g]
    BY <2>1, HookGoes DEF HookPlaces
  <2>3. CalmHooks /\ CalmBridge
    BY <2>1, <2>2 DEF CalmHooks, Carrying, CalmBridge, SameBridge
  <2>4. LockInv'
    BY <1>1, <2>1, <2>2 DEF LockInv
  <2>5. QED BY <1>1, <2>1, <2>2, <2>3, <2>4, HookRest
<1>7. QED BY <1>2, <1>3, <1>4, <1>5, <1>6

\* The first queued correction of a bridge without a claim is the next to be heard.
LEMMA FirstIsNext ==
  ASSUME IInv, ~NothingToClaim(bridge)
  PROVE  /\ ~Blocked /\ bridge.active = 0
         /\ Hears + 1 \in 1..Len(bridge.queue)
         /\ FirstQueued(bridge.queue) = bridge.queue[Hears + 1].steer
         /\ \A i \in 1..Len(bridge.queue) :
              bridge.queue[i].status = IF i <= Hears THEN "injected" ELSE "queued"
<1>1. /\ ~Blocked /\ bridge.active = 0 /\ ~HasStatus(bridge.queue, "awaiting")
      /\ HasStatus(bridge.queue, "queued")
  BY DEF NothingToClaim, Blocked
<1>2. /\ Len(bridge.queue) \in Nat /\ Hears \in Nat /\ bridge.queue \in Seq(EntryType)
      /\ \A i \in 1..Len(bridge.queue) : bridge.queue[i] \in EntryType
  BY QueueType DEF Hears, IInv, Types, ProviderType
<1>3. DOMAIN bridge.queue = 1..Len(bridge.queue)
  BY <1>2
<1>4. \A i \in 1..Len(bridge.queue) : EntryInv(i)
  BY <1>1 DEF IInv, BridgeInv, OrderInv
<1>5. \A i \in 1..Len(bridge.queue) :
        bridge.queue[i].status = IF i <= Hears THEN "injected" ELSE "queued"
  <2>1. TAKE i \in 1..Len(bridge.queue)
  <2>2. bridge.queue[i].status \in EntryStatuses /\ bridge.queue[i].status # "awaiting"
    BY <1>1, <1>2, <1>3 DEF EntryType, HasStatus
  <2>3. QED BY <1>2, <1>4, <2>2 DEF EntryInv, EntryStatuses
<1>6. Hears + 1 \in 1..Len(bridge.queue)
  <2>1. PICK i \in 1..Len(bridge.queue) : bridge.queue[i].status = "queued"
    BY <1>1, <1>3 DEF HasStatus
  <2>2. QED BY <1>2, <1>5, <2>1
<1>7. FirstQueued(bridge.queue) = bridge.queue[Hears + 1].steer
  <2> DEFINE First(i) == /\ bridge.queue[i].status = "queued"
                         /\ \A j \in 1..(i - 1) : bridge.queue[j].status # "queued"
  <2>1. First(Hears + 1)
    BY <1>2, <1>5, <1>6
  <2>2. \A i \in 1..Len(bridge.queue) : First(i) => i = Hears + 1
    BY <1>2, <1>5, <1>6
  <2>3. (CHOOSE i \in 1..Len(bridge.queue) : First(i)) = Hears + 1
    BY <1>6, <2>1, <2>2
  <2>4. QED BY <1>3, <2>3 DEF FirstQueued
<1>8. QED BY <1>1, <1>5, <1>6, <1>7

LEMMA HookClaimsStep ==
  ASSUME IInv, NEW h \in Hooks, HookClaims(h), UNCHANGED <<turn, provider>>
  PROVE  IInv'
<1>1. Types /\ TurnInv(turn) /\ LockInv /\ QueueInv /\ OrderInv /\ HookInv /\ InputInv /\ PromptInv /\ VerdictInv
  BY DEF IInv, BridgeInv, StreamInv
<1>2. /\ hooks[h].at = "running" /\ lock = "free" /\ lock' = "hook" /\ ~NothingToClaim(bridge)
      /\ ~Blocked /\ bridge.active = 0 /\ Hears + 1 \in 1..Len(bridge.queue)
      /\ \A i \in 1..Len(bridge.queue) :
           bridge.queue[i].status = IF i <= Hears THEN "injected" ELSE "queued"
  BY FirstIsNext DEF HookClaims
<1>3. PICK s : s = bridge.queue[Hears + 1].steer
  OBVIOUS
<1>4. /\ HookGoto(h, "claiming", s)
      /\ bridge' = [bridge EXCEPT !.status = "claimed", !.guard = TRUE, !.active = s,
                                  !.queue = Mark(bridge.queue, s, "awaiting")]
  <2>1. s = FirstQueued(bridge.queue)
    BY <1>2, <1>3, FirstIsNext
  <2>2. bridge' = [bridge EXCEPT !.status = "claimed", !.guard = TRUE, !.active = s,
                                 !.queue = Mark(@, s, "awaiting")]
    BY <2>1 DEF HookClaims
  <2>3. QED BY <1>1, <2>1, <2>2 DEF HookClaims, Types, BridgeType
<1>5. /\ bridge \in BridgeType /\ Len(bridge.queue) \in Nat /\ Hears \in Nat
      /\ bridge.queue \in Seq(EntryType)
      /\ \A i \in 1..Len(bridge.queue) : bridge.queue[i].steer \in Steers
      /\ s \in Steers /\ s # 0
  BY <1>1, <1>2, <1>3, QueueType, SteerNumbers DEF Hears, Types, ProviderType
<1>6. PICK queue \in Seq(EntryType) :
        /\ queue = Mark(bridge.queue, s, "awaiting")
        /\ Len(queue) = Len(bridge.queue)
        /\ \A i \in 1..Len(bridge.queue) :
             /\ queue[i].steer = bridge.queue[i].steer
             /\ queue[i].status = IF bridge.queue[i].steer = s THEN "awaiting"
                                  ELSE bridge.queue[i].status
  <2>1. "awaiting" \in EntryStatuses /\ bridge \in BridgeType
    BY <1>5 DEF EntryStatuses
  <2>2. PICK queue : queue = Mark(bridge.queue, s, "awaiting")
    OBVIOUS
  <2>3. Marked(bridge.queue, queue, s, "awaiting")
    BY <2>1, <2>2, MarkType
  <2>4. QED BY <2>2, <2>3 DEF Marked
<1>7. /\ bridge' \in BridgeType /\ bridge'.status = "claimed" /\ bridge'.guard = TRUE
      /\ bridge'.active = s /\ bridge'.queue = queue
  BY <1>4, <1>5, <1>6 DEF BridgeType, BridgeStatuses
<1>8. /\ hooks' \in [Hooks -> HookType]
      /\ hooks'[h].at = "claiming" /\ hooks'[h].steer = s
      /\ \A g \in Hooks : g # h => hooks'[g] = hooks[g]
  BY <1>4, <1>5, HookGoes DEF HookPlaces
<1>9. \A g \in Hooks : ~Carrying(g)
  <2>1. SUFFICES ASSUME NEW g \in Hooks, Carrying(g) PROVE FALSE
    OBVIOUS
  <2>2. hooks[g].steer \in Steers /\ bridge.active = hooks[g].steer
    BY <1>1, <1>2, <2>1, HookCarries DEF HookInv
  <2>3. QED BY <1>2, <2>2, SteerNumbers
<1>10. ~Outstanding
  <2>1. SUFFICES ASSUME Outstanding PROVE FALSE
    OBVIOUS
  <2>2. Hears > 0 /\ bridge.active = provider.heard[Hears]
    BY <1>1, <1>2, <2>1 DEF InputInv
  <2>3. provider.heard[Hears] \in Steers
    BY <1>1, <1>5, <2>2 DEF Hears, Types, ProviderType
  <2>4. QED BY <1>2, <2>2, <2>3, SteerNumbers
<1>11. Types'
  BY <1>1, <1>2, <1>7, <1>8 DEF Types, HookType
<1>12. LockInv'
  BY <1>1, <1>2, <1>8 DEF LockInv
<1>13. QueueInv'
  <2>1. queue # <<>> => bridge.queue # <<>>
    BY <1>5, <1>6, EmptySeq
  <2>2. QED BY <1>1, <1>5, <1>6, <1>7, <2>1 DEF QueueInv, Blocked
<1>14. OrderInv'
  <2>1. /\ Hears' = Hears /\ Hears' <= Len(bridge'.queue)
        /\ \A i \in 1..Hears' : provider'.heard[i] = bridge'.queue[i].steer
    BY <1>1, <1>5, <1>6, <1>7 DEF OrderInv, Hears
  <2>2. ASSUME NEW i \in 1..Len(bridge'.queue)
        PROVE  EntryInv(i)'
    <3>1. i \in 1..Len(bridge.queue)
      BY <1>6, <1>7
    <3>2. bridge.queue[i].steer = s => i = Hears + 1
      BY <1>1, <1>2, <1>3, <3>1 DEF QueueInv
    <3>3. bridge.queue[i].steer = s <=> i = Hears + 1
      BY <1>3, <3>2
    <3>4. QED BY <1>2, <1>5, <1>6, <1>7, <2>1, <3>1, <3>3 DEF EntryInv
  <2>3. \E i \in 1..Len(bridge'.queue) : bridge'.queue[i].steer = bridge'.active
    BY <1>2, <1>3, <1>6, <1>7
  <2>4. QED BY <2>1, <2>2, <2>3 DEF OrderInv
<1>15. \A g \in Hooks : Carrying(g)' => g = h
  BY <1>8, <1>9 DEF Carrying
<1>16. HookInv'
  <2>1. /\ Hears' = Hears /\ Hears' < Len(bridge'.queue)
        /\ bridge'.queue[Hears' + 1].steer = hooks'[h].steer
        /\ bridge'.active = hooks'[h].steer
    <3>1. Hears' = Hears
      BY <1>5 DEF Hears
    <3>2. Hears < Len(bridge'.queue) /\ bridge'.queue[Hears + 1].steer = s
      BY <1>2, <1>3, <1>5, <1>6, <1>7
    <3> QED BY <1>7, <1>8, <3>1, <3>2
  <2>2. QED BY <1>15, <2>1 DEF HookInv
<1>17. InputInv'
  <2>1. ~(Outstanding') /\ ~(EchoComes') /\ turn'.input = 0 /\ ~Awaits(turn')
    BY <1>10 DEF Outstanding, EchoComes, Awaits
  <2>2. turn'.observation.at # "writing"
    BY <2>1 DEF Awaits
  <2>3. QED BY <1>1, <2>1, <2>2 DEF InputInv, HeardSteer
<1>18. PromptInv' /\ VerdictInv'
  <2>1. turn' \in TurnType /\ Calm(turn, turn')
    BY TurnIsCalm
  <2>2. QED BY <2>1, PromptStep DEF Calm
<1>19. TurnInv(turn')
  BY <1>1
<1>20. QED BY <1>11, <1>12, <1>13, <1>14, <1>16, <1>17, <1>18, <1>19 DEF IInv, BridgeInv, StreamInv

-----------------------------------------------------------------------------
(***************************************************************************)
(* The steps of the provider, and the frames it writes.                    *)
(***************************************************************************)
LEMMA ProviderInjectsStep ==
  ASSUME IInv, NEW h \in Hooks, ProviderInjects(h)
  PROVE  IInv'
<1>1. Types /\ TurnInv(turn) /\ LockInv /\ QueueInv /\ OrderInv /\ HookInv /\ InputInv /\ PromptInv /\ VerdictInv
  BY DEF IInv, BridgeInv, StreamInv
<1>2. PICK frame : frame = Frame("input", provider.step, Len(provider.heard) + 1)
  OBVIOUS
<1>3. /\ provider \in ProviderType /\ provider.step \in Nat /\ provider.heard \in Seq(Steers)
      /\ Len(provider.heard) \in Nat
      /\ provider.stdout \in Seq(FrameType) /\ Len(provider.stdout) \in Nat
  BY <1>1 DEF Types, ProviderType
<1>4. /\ frame \in FrameType /\ frame.kind = "input" /\ frame.after > 0
  BY <1>2, <1>3 DEF Frame, FrameType
<1>5. Carrying(h) /\ UNCHANGED <<bridge, lock, turn>> /\ HookGoto(h, "idle", 0)
  BY DEF ProviderInjects, Carrying
<1>6. PICK s : s = hooks[h].steer
  OBVIOUS
<1>7. /\ s \in Steers /\ \A g \in Hooks : Carrying(g) => g = h
  BY <1>5, <1>6, HookCarries
<1>8. /\ Hears < Len(bridge.queue) /\ bridge.queue[Hears + 1].steer = s
      /\ ~Blocked => bridge.active = s
  BY <1>1, <1>5, <1>6 DEF HookInv
<1>9. PICK heard \in Seq(Steers), stdout \in Seq(FrameType) :
        /\ heard = Append(provider.heard, s) /\ stdout = provider.stdout \o <<frame>>
        /\ Len(heard) = Hears + 1 /\ heard[Hears + 1] = s
        /\ \A i \in 1..Hears : heard[i] = provider.heard[i]
        /\ Len(stdout) = Len(provider.stdout) + 1 /\ stdout[Len(stdout)] = frame
        /\ \A i \in 1..Len(provider.stdout) : stdout[i] = provider.stdout[i]
  <2>1. PICK heard : heard = Append(provider.heard, s)
    OBVIOUS
  <2>2. /\ heard \in Seq(Steers) /\ Len(heard) = Hears + 1 /\ heard[Hears + 1] = s
        /\ \A i \in 1..Hears : heard[i] = provider.heard[i]
    BY <1>3, <1>7, <2>1, AppendProperties DEF Hears
  <2>3. PICK stdout : stdout = Append(provider.stdout, frame)
    OBVIOUS
  <2>4. /\ stdout \in Seq(FrameType)
        /\ Len(stdout) = Len(provider.stdout) + 1 /\ stdout[Len(stdout)] = frame
        /\ \A i \in 1..Len(provider.stdout) : stdout[i] = provider.stdout[i]
    BY <1>3, <1>4, <2>3, AppendProperties
  <2>5. stdout = provider.stdout \o <<frame>>
    BY <1>3, <1>4, <2>3, AppendIsConcat
  <2>6. QED BY <2>1, <2>2, <2>4, <2>5
<1>10. provider' = [provider EXCEPT !.at = "generating", !.stdout = stdout,
                                    !.step = provider.step + 1, !.heard = heard]
  BY <1>2, <1>3, <1>6, <1>9 DEF ProviderInjects, Emit, ProviderType
<1>11. /\ provider' \in ProviderType /\ provider'.heard = heard /\ provider'.stdout = stdout
       /\ provider'.at = "generating"
  <2>1. provider.step + 1 \in Nat
    BY <1>3
  <2>2. QED BY <1>3, <1>9, <1>10, <2>1 DEF ProviderType
<1>12. /\ hooks' \in [Hooks -> HookType] /\ hooks'[h].at = "idle"
       /\ \A g \in Hooks : g # h => hooks'[g] = hooks[g]
  BY <1>5, HookGoes DEF HookPlaces
<1>13. \A g \in Hooks : ~(Carrying(g)')
  BY <1>7, <1>12 DEF Carrying
<1>14. Hears' = Hears + 1 /\ Hears \in Nat
  BY <1>3, <1>9, <1>11 DEF Hears
<1>15. Types'
  BY <1>1, <1>5, <1>11, <1>12 DEF Types, HookType
<1>16. LockInv'
  BY <1>1, <1>5, <1>12 DEF LockInv
<1>17. QueueInv'
  BY <1>1, <1>5 DEF QueueInv, Blocked
<1>18. /\ Len(bridge.queue) \in Nat /\ bridge.queue \in Seq(EntryType)
       /\ \A i \in 1..Len(bridge.queue) : bridge.queue[i] \in EntryType
  BY <1>1, QueueType DEF Types
<1>19. OrderInv'
  <2>1. Hears' <= Len(bridge'.queue)
    BY <1>5, <1>8, <1>14, <1>18
  <2>2. \A i \in 1..Hears' : provider'.heard[i] = bridge'.queue[i].steer
    BY <1>1, <1>5, <1>8, <1>9, <1>11, <1>14 DEF OrderInv
  <2>3. ASSUME ~Blocked, NEW i \in 1..Len(bridge.queue)
        PROVE  EntryInv(i)'
    <3>1. EntryInv(i)
      BY <1>1, <2>3 DEF OrderInv
    <3>2. bridge.queue[i].status = "awaiting" <=> i = Hears + 1
      <4>1. Hears + 1 \in 1..Len(bridge.queue)
        BY <1>8, <1>14, <1>18
      <4>2. bridge.queue[i].steer = bridge.active <=> i = Hears + 1
        BY <1>1, <1>8, <2>3, <4>1 DEF QueueInv
      <4>3. QED BY <3>1, <4>2 DEF EntryInv
    <3>3. QED BY <1>5, <1>14, <3>1, <3>2 DEF EntryInv
  <2>4. bridge'.status # "blocked" /\ bridge'.active # 0 =>
          \E i \in 1..Len(bridge'.queue) : bridge'.queue[i].steer = bridge'.active
    BY <1>1, <1>5 DEF OrderInv, Blocked
  <2>5. QED BY <1>5, <2>1, <2>2, <2>3, <2>4 DEF OrderInv, Blocked
<1>20. HookInv'
  BY <1>13 DEF HookInv
<1>21. InputInv'
  <2>1. ~Outstanding
    BY <1>1, <1>5 DEF InputInv
  <2>2. turn'.input = 0 /\ ~Awaits(turn') /\ turn'.observation.at # "writing"
    BY <1>5, <2>1 DEF Outstanding, Awaits
  <2>3. \A i \in 1..Len(stdout) : Echoes(stdout[i]) => i = Len(stdout)
    BY <1>3, <1>9, <2>1 DEF Outstanding, EchoComes
  <2>4. \A i, j \in 1..Len(provider'.stdout) :
          Echoes(provider'.stdout[i]) /\ Echoes(provider'.stdout[j]) => i = j
    BY <1>11, <2>3
  <2>5. Hears' > 0 /\ (Blocked' \/ bridge'.active = provider'.heard[Hears'])
    BY <1>5, <1>8, <1>9, <1>11, <1>14 DEF Blocked
  <2>6. turn'.observation.at = "confirmed" => HeardSteer(turn.observation.steer)'
    <3>1. SUFFICES ASSUME turn.observation.at = "confirmed"
                   PROVE  \E i \in 1..Len(heard) : heard[i] = turn.observation.steer
      BY <1>5, <1>11 DEF HeardSteer
    <3>2. PICK i \in 1..Hears : provider.heard[i] = turn.observation.steer
      BY <1>1, <3>1 DEF InputInv, HeardSteer, Hears
    <3>3. QED BY <1>9, <1>14, <3>2
  <2>7. QED BY <1>13, <2>2, <2>4, <2>5, <2>6 DEF InputInv
<1>22. PromptInv'
  <2>1. \A i \in 1..Len(stdout) : Prompts(stdout[i]) =>
          i \in 1..Len(provider.stdout) /\ Prompts(provider.stdout[i])
    BY <1>3, <1>4, <1>9 DEF Prompts
  <2>2. \A i \in 1..Len(stdout) : Prompts(stdout[i]) =>
          /\ ~turn.initialSeen
          /\ \A j \in 1..Len(stdout) : stdout[j].kind = "input" => i <= j
    BY <1>1, <1>3, <1>9, <2>1 DEF PromptInv
  <2>3. QED BY <1>1, <1>5, <1>11, <2>1, <2>2 DEF PromptInv
<1>23. VerdictInv'
  <2>1. \A s2 \in Steers : HeardSteer(s2) => HeardSteer(s2)'
    BY <1>9, <1>11, <1>14 DEF HeardSteer, Hears
  <2>2. QED BY <1>1, <1>5, <2>1 DEF VerdictInv
<1>24. TurnInv(turn')
  BY <1>1, <1>5
<1>25. QED BY <1>15, <1>16, <1>17, <1>19, <1>20, <1>21, <1>22, <1>23, <1>24 DEF IInv, BridgeInv, StreamInv

LEMMA TakesFrame ==
  ASSUME IInv, provider.stdout # <<>>, provider' = [provider EXCEPT !.stdout = Tail(@)]
  PROVE  /\ provider' \in ProviderType /\ provider'.heard = provider.heard
         /\ provider'.at = provider.at
         /\ Head(provider.stdout) = provider.stdout[1] /\ provider.stdout[1] \in FrameType
         /\ Len(provider.stdout) \in Nat /\ 1 \in 1..Len(provider.stdout)
         /\ Len(provider'.stdout) \in Nat
         /\ \A i \in 1..Len(provider'.stdout) :
              /\ i + 1 \in 1..Len(provider.stdout) /\ i + 1 # 1
              /\ provider'.stdout[i] = provider.stdout[i + 1]
<1>1. provider \in ProviderType /\ provider.stdout \in Seq(FrameType) /\ Len(provider.stdout) \in Nat
  BY DEF IInv, Types, ProviderType
<1>2. Len(provider.stdout) # 0
  BY <1>1, EmptySeq
<1>3. PICK rest \in Seq(FrameType) :
        /\ rest = Tail(provider.stdout) /\ Len(rest) = Len(provider.stdout) - 1
        /\ \A i \in 1..Len(rest) : rest[i] = provider.stdout[i + 1]
  BY <1>1, <1>2, HeadTailProperties, ZenonT(30)
<1>4. provider' = [provider EXCEPT !.stdout = rest]
  BY <1>1, <1>3 DEF ProviderType
<1>5. /\ provider' \in ProviderType /\ provider'.heard = provider.heard
      /\ provider'.at = provider.at /\ provider'.stdout = rest
  BY <1>1, <1>3, <1>4 DEF ProviderType
<1>6. 1 \in 1..Len(provider.stdout) /\ provider.stdout[1] \in FrameType
      /\ Head(provider.stdout) = provider.stdout[1]
  BY <1>1, <1>2
<1>7. \A i \in 1..Len(rest) : i + 1 \in 1..Len(provider.stdout) /\ i + 1 # 1
  BY <1>1, <1>2, <1>3
<1>8. QED BY <1>1, <1>2, <1>3, <1>5, <1>6, <1>7

LEMMA ReceiveStep ==
  ASSUME IInv, Receive
  PROVE  IInv' /\ turn'.verdict = turn.verdict
<1>1. Types /\ TurnInv(turn) /\ LockInv /\ InputInv /\ PromptInv /\ VerdictInv
  BY DEF IInv, StreamInv
<1>2. PICK frame : frame = Head(provider.stdout)
  OBVIOUS
<1>3. /\ Pending(turn) /\ provider.stdout # <<>> /\ UNCHANGED <<bridge, lock, hooks>>
      /\ turn' = Process(turn, frame) /\ provider' = [provider EXCEPT !.stdout = Tail(@)]
  BY <1>2 DEF Receive
<1>4. /\ provider' \in ProviderType /\ provider'.heard = provider.heard
      /\ provider'.at = provider.at
      /\ frame = provider.stdout[1] /\ frame \in FrameType
      /\ Len(provider.stdout) \in Nat /\ 1 \in 1..Len(provider.stdout)
      /\ \A i \in 1..Len(provider'.stdout) :
           /\ i + 1 \in 1..Len(provider.stdout) /\ i + 1 # 1
           /\ provider'.stdout[i] = provider.stdout[i + 1]
  BY <1>2, <1>3, TakesFrame
<1>5. turn \in TurnType /\ Taken(turn, turn', frame)
  BY <1>1, <1>3, <1>4, ProcessEffect DEF Types
<1>6. Keeps(turn, turn') /\ turn' \in TurnType
  BY <1>5 DEF Taken, Still, Held, Opened, Handled, Keeps
<1>7. /\ turn.deferred \in Seq(FrameType) /\ Len(turn.deferred) \in Nat
      /\ Held(turn, turn', frame) =>
           /\ Len(turn'.deferred) = Len(turn.deferred) + 1
           /\ \A k \in 1..Len(turn'.deferred) :
                turn'.deferred[k] = IF k <= Len(turn.deferred) THEN turn.deferred[k] ELSE frame
  <2>1. turn.deferred \in Seq(FrameType) /\ Len(turn.deferred) \in Nat
    BY <1>5, HeldFrames
  <2>2. ASSUME Held(turn, turn', frame)
        PROVE  /\ Len(turn'.deferred) = Len(turn.deferred) + 1
               /\ \A k \in 1..Len(turn'.deferred) :
                    turn'.deferred[k] = IF k <= Len(turn.deferred) THEN turn.deferred[k] ELSE frame
    <3>1. turn'.deferred = Append(turn.deferred, frame)
      BY <2>2 DEF Held
    <3>2. QED BY <1>4, <2>1, <3>1
  <2>3. QED BY <2>1, <2>2
<1>8. TurnInv(turn')
  <2>1. Len(turn'.deferred) <= DeferredLimit
    BY <1>1, <1>5, <1>7, DeferredLimitAssumption
       DEF TurnInv, Taken, Still, Held, Opened, Handled
  <2>2. QED BY <1>1, <1>5, <1>6, <2>1, KeepsTurn
<1>9. BridgeInv'
  <2>1. CalmTurn(turn, turn')
    BY <1>6 DEF CalmTurn, Keeps, Pending
  <2>2. CalmBridge /\ CalmHooks
    BY <1>3 DEF CalmBridge, SameBridge, CalmHooks, Carrying
  <2>3. QED BY <1>4, <2>1, <2>2, QueueStep
<1>10. LockInv'
  <2>1. turn'.observation.at = "writing" => turn.observation.at = "writing"
    BY <1>5 DEF Taken, Still, Held, Opened, Handled, SameStream
  <2>2. QED BY <1>1, <1>3, <1>6, <2>1 DEF LockInv, Keeps
\* An input that is not the prompt's own is an echo, and the only one.
<1>11. Handled(turn, turn') /\ frame.kind = "input" /\ turn.initialSeen => Echoes(frame)
  <2>1. SUFFICES ASSUME frame.kind = "input", turn.initialSeen PROVE Echoes(frame)
    OBVIOUS
  <2>2. ~Prompts(frame)
    BY <1>1, <1>4, <2>1 DEF PromptInv
  <2>3. QED BY <1>4, <2>1, <2>2 DEF Prompts, Echoes, FrameType
<1>12. Echoes(frame) => EchoComes /\ ~(EchoComes')
  <2>1. SUFFICES ASSUME Echoes(frame) PROVE EchoComes /\ ~(EchoComes')
    OBVIOUS
  <2>2. EchoComes
    BY <1>4, <2>1 DEF EchoComes
  <2>3. \A i \in 1..Len(provider'.stdout) : ~Echoes(provider'.stdout[i])
    BY <1>1, <1>4, <2>1 DEF InputInv
  <2>4. QED BY <2>2, <2>3 DEF EchoComes
<1>13. (EchoComes' => EchoComes) /\ Hears' = Hears /\ (\A h \in Hooks : Carrying(h)' = Carrying(h))
  BY <1>3, <1>4 DEF EchoComes, Hears, Carrying
<1>14. \A i, j \in 1..Len(provider'.stdout) :
         Echoes(provider'.stdout[i]) /\ Echoes(provider'.stdout[j]) => i = j
  <2>1. TAKE i, j \in 1..Len(provider'.stdout)
  <2>2. HAVE Echoes(provider'.stdout[i]) /\ Echoes(provider'.stdout[j])
  <2>3. Echoes(provider.stdout[i + 1]) /\ Echoes(provider.stdout[j + 1])
    BY <1>4, <2>2
  <2>4. i + 1 = j + 1
    BY <1>1, <1>4, <2>3 DEF InputInv
  <2>5. QED BY <2>4
<1>15. InputInv'
  <2>1. CASE turn'.input = turn.input /\ turn'.observation = turn.observation
    <3>1. (Outstanding' => Outstanding) /\ Awaits(turn') = Awaits(turn)
      BY <1>13, <2>1 DEF Outstanding, Awaits
    <3>2. QED BY <1>1, <1>3, <1>4, <1>13, <1>14, <2>1, <3>1 DEF InputInv, Blocked, HeardSteer
  <2>2. CASE Handled(turn, turn') /\ frame.kind = "input" /\ turn.initialSeen
    <3>1. Outstanding /\ ~(EchoComes') /\ turn.input = 0 /\ ~Awaits(turn)
      BY <1>1, <1>11, <1>12, <2>2 DEF InputInv, Outstanding
    <3>2. /\ Hears > 0 /\ \A h \in Hooks : ~Carrying(h)
          /\ Blocked \/ bridge.active = provider.heard[Hears]
      BY <1>1, <3>1 DEF InputInv
    <3>3. turn'.input # 0 => ~Awaits(turn')
      BY <2>2, <3>1 DEF Handled, Awaits
    <3>4. turn'.observation.at # "writing"
      BY <2>2, <3>1 DEF Handled, Awaits
    <3>5. turn'.observation.at = "confirmed" => HeardSteer(turn.observation.steer)'
      BY <1>1, <1>4, <2>2 DEF Handled, InputInv, HeardSteer
    <3>6. QED BY <1>3, <1>4, <1>13, <1>14, <2>2, <3>1, <3>2, <3>3, <3>4, <3>5
             DEF InputInv, Blocked, Handled, HeardSteer
  <2>3. QED BY <1>5, <2>1, <2>2 DEF Taken, Still, Held, Opened, SameStream
\* Frames behind the first: no prompt's input follows another input.
<1>16. \A i \in 1..Len(provider'.stdout) : Prompts(provider'.stdout[i]) =>
         /\ ~turn.initialSeen /\ frame.kind # "input" /\ ~HeldInput(turn)
         /\ \A j \in 1..Len(provider'.stdout) : provider'.stdout[j].kind = "input" => i <= j
  <2>1. TAKE i \in 1..Len(provider'.stdout)
  <2>2. HAVE Prompts(provider'.stdout[i])
  <2>3. Prompts(provider.stdout[i + 1]) /\ i + 1 \in 1..Len(provider.stdout)
    BY <1>4, <2>2
  <2>4. /\ ~turn.initialSeen /\ ~HeldInput(turn)
        /\ \A j \in 1..Len(provider.stdout) : provider.stdout[j].kind = "input" => i + 1 <= j
    BY <1>1, <2>3 DEF PromptInv
  <2>5. frame.kind # "input"
    BY <1>4, <2>4
  <2>6. \A j \in 1..Len(provider'.stdout) : provider'.stdout[j].kind = "input" => i <= j
    <3>1. TAKE j \in 1..Len(provider'.stdout)
    <3>2. HAVE provider'.stdout[j].kind = "input"
    <3>3. i + 1 <= j + 1
      BY <1>4, <2>4, <3>2
    <3>4. QED BY <3>3
  <2>7. QED BY <2>4, <2>5, <2>6
\* An input that is held is the prompt's own, the first one.
<1>17. Held(turn, turn', frame) /\ frame.kind = "input" => ~turn.initialSeen /\ ~HeldInput(turn)
  <2>1. SUFFICES ASSUME Held(turn, turn', frame), frame.kind = "input"
                 PROVE  ~turn.initialSeen /\ ~HeldInput(turn)
    OBVIOUS
  <2>2. turn.binding # "bound"
    BY <2>1 DEF Held
  <2>3. ~Echoes(frame)
    <3>1. SUFFICES ASSUME Echoes(frame) PROVE FALSE
      OBVIOUS
    <3>2. Hears > 0
      BY <1>1, <1>12, <3>1 DEF InputInv, Outstanding
    <3>3. provider.heard[Hears] = provider.heard[Hears] /\ Hears \in 1..Len(provider.heard)
      BY <1>1, <3>2 DEF Hears, Types, ProviderType
    <3>4. HeardSteer(provider.heard[Hears])
      BY <3>3 DEF HeardSteer
    <3>5. QED BY <2>2, <3>4, HeardIsBound
  <2>4. Prompts(frame)
    BY <1>4, <2>1, <2>3 DEF Prompts, Echoes, FrameType
  <2>5. QED BY <1>1, <1>4, <2>4 DEF PromptInv
<1>18. Opened(turn, turn', frame) => ~HeldInput(turn)
  BY <1>1, <1>3 DEF Opened, PromptInv
<1>19. PromptInv'
  <2>1. provider'.at \notin {"started", "prompted"}
    BY <1>1, <1>3, <1>4 DEF PromptInv
  <2>2. OnlyPromptHeld(turn')
    <3>1. CASE turn'.deferred = turn.deferred /\ turn'.initialSeen = turn.initialSeen
      BY <1>1, <3>1 DEF PromptInv, OnlyPromptHeld
    <3>2. CASE Opened(turn, turn', frame)
      BY <1>18, <3>2 DEF Opened, OnlyPromptHeld, HeldInput
    <3>3. CASE Held(turn, turn', frame)
      <4>1. CASE frame.kind = "input"
        BY <1>7, <1>17, <3>3, <4>1 DEF Held, OnlyPromptHeld, HeldInput
      <4>2. CASE frame.kind # "input"
        BY <1>1, <1>7, <3>3, <4>2 DEF PromptInv, Held, OnlyPromptHeld
      <4>3. QED BY <4>1, <4>2
    <3>4. QED BY <1>5, <3>1, <3>2, <3>3 DEF Taken, Still, Handled
  <2>3. HeldInput(turn') =>
          \/ HeldInput(turn) /\ ~Opened(turn, turn', frame)
          \/ Held(turn, turn', frame) /\ frame.kind = "input"
    <3>1. CASE turn'.deferred = turn.deferred
      BY <1>18, <3>1 DEF HeldInput
    <3>2. CASE Held(turn, turn', frame)
      <4>1. ~Opened(turn, turn', frame) \/ ~HeldInput(turn)
        BY <1>18
      <4>2. SUFFICES ASSUME HeldInput(turn'), frame.kind # "input" PROVE HeldInput(turn)
        BY <3>2, <4>1
      <4>3. QED BY <1>7, <3>2, <4>2 DEF HeldInput
    <3>3. QED BY <1>5, <3>1, <3>2 DEF Taken, Still, Handled, Opened
  <2>4. HeldInput(turn') =>
          /\ Pending(turn') => turn'.binding # "bound"
          /\ \A j \in 1..Len(provider'.stdout) : ~Prompts(provider'.stdout[j])
    <3>1. CASE HeldInput(turn)
      BY <1>1, <1>3, <1>6, <1>16, <3>1 DEF PromptInv, Keeps
    <3>2. CASE Held(turn, turn', frame) /\ frame.kind = "input"
      BY <1>6, <1>16, <3>2 DEF Held, Keeps
    <3>3. QED BY <2>3, <3>1, <3>2
  <2>5. (frame.kind # "input") => turn'.initialSeen = turn.initialSeen
    BY <1>5 DEF Taken, Still, Held, Opened, Handled
  <2>6. QED BY <1>16, <2>1, <2>2, <2>4, <2>5 DEF PromptInv
<1>20. VerdictInv'
  BY <1>1, <1>4, <1>6 DEF VerdictInv, Keeps, HeardSteer
<1>21. Types'
  BY <1>1, <1>3, <1>4, <1>6 DEF Types
<1>22. turn'.verdict = turn.verdict
  BY <1>6 DEF Keeps
<1>23. QED BY <1>22, <1>8, <1>9, <1>10, <1>15, <1>19, <1>20, <1>21 DEF IInv, StreamInv

\* A session prompts again after a turn that ended well, with nothing in flight.
LEMMA NextPromptStep ==
  ASSUME IInv, NextPrompt
  PROVE  IInv'
<1>1. Types /\ TurnInv(turn) /\ LockInv /\ InputInv /\ VerdictInv
  BY DEF IInv, StreamInv
<1>2. /\ turn.result = "ok" /\ turn.number < MaxTurns /\ UNCHANGED <<bridge, lock, hooks>>
      /\ turn' = FreshTurn(turn.number + 1, turn.binding, turn.watermark, turn.verdict)
      /\ provider' = [provider EXCEPT !.alive = TRUE, !.at = "prompted", !.stdout = <<>>]
  BY DEF NextPrompt
<1>3. /\ turn \in TurnType /\ provider \in ProviderType
      /\ InFlight(turn) = {} /\ ~Observing(turn)
  BY <1>1, <1>2 DEF Types, TurnInv, Ends
<1>4. PICK none \in Seq(Nat), held \in Seq(FrameType), op \in [Steers -> OpPlaces],
           floor \in [Steers -> Nat] :
        /\ none = <<>> /\ held = <<>>
        /\ op = [s \in Steers |-> "none"] /\ floor = [s \in Steers |-> 0]
  <2>1. <<>> \in Seq(Nat) /\ <<>> \in Seq(FrameType)
    BY EmptySeq
  <2>2. [s \in Steers |-> "none"] \in [Steers -> OpPlaces] /\ [s \in Steers |-> 0] \in [Steers -> Nat]
    BY DEF OpPlaces
  <2>3. QED BY <2>1, <2>2
<1>5. turn.number + 1 \in 1..MaxTurns
  BY <1>2, <1>3, MaxTurnsAssumption DEF TurnType
<1>6. turn' =
        [number |-> turn.number + 1, result |-> "none", answer |-> none, child |-> TRUE,
         binding |-> turn.binding, watermark |-> turn.watermark, verdict |-> turn.verdict,
         op |-> op, floor |-> floor,
         asked |-> 0, injected |-> 0, ids |-> {}, polled |-> {}, timed |-> {},
         initialSeen |-> FALSE, input |-> 0, observation |-> NoObservation,
         deferred |-> held, segment |-> none, final |-> "none",
         failure |-> "none", failing |-> "no"]
  BY <1>2, <1>4 DEF FreshTurn
<1>7. /\ turn' \in TurnType /\ turn'.op = op /\ turn'.ids = {} /\ turn'.deferred = held
      /\ turn'.verdict = turn.verdict /\ turn'.binding = turn.binding
      /\ turn'.asked = 0 /\ turn'.injected = 0 /\ turn'.initialSeen = FALSE /\ turn'.input = 0
      /\ turn'.observation = NoObservation /\ turn'.result = "none"
  BY <1>3, <1>4, <1>5, <1>6, NoObservationType DEF TurnType, Failures
<1>8. /\ provider' \in ProviderType /\ provider'.heard = provider.heard
      /\ provider'.at = "prompted" /\ provider'.stdout = held
  BY <1>2, <1>3, <1>4 DEF ProviderType
<1>9. /\ \A s \in Steers : turn'.op[s] = "none" /\ turn.op[s] = "none"
      /\ turn'.observation.at = "none" /\ Len(held) = 0
  BY <1>3, <1>4, <1>7, NoObservationType DEF InFlight
<1>10. TurnInv(turn')
  <2>1. turn'.ids \cup InFlight(turn') = {}
    BY <1>7, <1>9 DEF InFlight
  <2>2. Cardinality(turn'.ids \cup InFlight(turn')) = 0
    BY <2>1, FS_EmptySet
  <2>3. turn'.injected + Cardinality(turn'.ids \cup InFlight(turn')) <= turn'.asked
    BY <1>7, <2>2
  <2>4. QED BY <1>7, <1>9, <2>3, DeferredLimitAssumption DEF TurnInv, Ends
<1>11. BridgeInv'
  <2>1. QueueInv /\ OrderInv /\ HookInv
    BY DEF IInv, BridgeInv
  <2>2. \A i \in 1..Len(bridge.queue) : bridge.queue[i].steer \in Steers
    BY <1>1, QueueType DEF Types
  <2>3. QueueInv'
    BY <1>2, <1>7, <1>9, <2>1, <2>2 DEF QueueInv, Blocked
  <2>4. OrderInv' /\ HookInv'
    BY <1>2, <1>8, <2>1 DEF OrderInv, HookInv, Hears, Blocked, EntryInv, Carrying
  <2>5. QED BY <2>3, <2>4 DEF BridgeInv
<1>12. LockInv'
  BY <1>1, <1>2, <1>9 DEF LockInv
<1>13. InputInv'
  <2>1. ~(EchoComes') /\ ~Awaits(turn') /\ ~(Outstanding')
    BY <1>7, <1>8, <1>9 DEF EchoComes, Awaits, Outstanding
  <2>2. QED BY <1>7, <1>8, <1>9, <2>1 DEF InputInv
<1>14. PromptInv'
  <2>1. ~HeldInput(turn')
    BY <1>7, <1>9 DEF HeldInput
  <2>2. QED BY <1>4, <1>7, <1>8, <1>9, <2>1 DEF PromptInv, OnlyPromptHeld
<1>15. VerdictInv'
  BY <1>1, <1>7, <1>8 DEF VerdictInv, HeardSteer
<1>16. Types'
  BY <1>1, <1>2, <1>7, <1>8 DEF Types
<1>17. QED BY <1>10, <1>11, <1>12, <1>13, <1>14, <1>15, <1>16 DEF IInv, StreamInv

(***************************************************************************)
(* What the provider writes of its own: no echo, and the input of its      *)
(* prompt only where nothing was read before.                              *)
(***************************************************************************)
LEMMA ProviderSpeaks ==
  ASSUME IInv, ProviderOnly, provider' \in ProviderType, provider'.heard = provider.heard,
         provider'.at \notin {"started", "prompted"},
         NEW old \in Nat, old = Len(provider.stdout), old <= Len(provider'.stdout),
         \A i \in 1..old : provider'.stdout[i] = provider.stdout[i],
         \A i \in 1..Len(provider'.stdout) : i > old =>
           /\ ~Echoes(provider'.stdout[i])
           /\ provider'.stdout[i].kind = "input" =>
                /\ provider.at \in {"started", "prompted"}
                /\ \A j \in 1..Len(provider'.stdout) :
                     provider'.stdout[j].kind = "input" => i = j
  PROVE  IInv'
<1>1. Types /\ TurnInv(turn) /\ LockInv /\ InputInv /\ PromptInv /\ VerdictInv
  BY DEF IInv, StreamInv
<1>2. UNCHANGED <<bridge, lock, hooks, turn>>
  BY DEF ProviderOnly
<1>3. Types'
  BY <1>1, <1>2 DEF Types
<1>4. LockInv' /\ VerdictInv'
  BY <1>1, <1>2 DEF LockInv, VerdictInv, HeardSteer
<1>5. BridgeInv'
  <2>1. CalmTurn(turn, turn') /\ CalmBridge /\ CalmHooks
    BY <1>2 DEF CalmTurn, CalmBridge, SameBridge, CalmHooks, Carrying
  <2>2. QED BY <2>1, QueueStep
<1>6. /\ Len(provider'.stdout) \in Nat
      /\ \A i \in 1..Len(provider'.stdout) : i <= old => i \in 1..old
  BY DEF ProviderType
<1>7. \A i \in 1..Len(provider'.stdout) : Echoes(provider'.stdout[i]) =>
        i \in 1..Len(provider.stdout) /\ Echoes(provider.stdout[i])
  BY <1>6
<1>8. InputInv'
  <2>1. (EchoComes' => EchoComes) /\ Hears' = Hears
    BY <1>7 DEF EchoComes, Hears
  <2>2. (Outstanding' => Outstanding) /\ (\A h \in Hooks : Carrying(h)' = Carrying(h))
    BY <1>2, <2>1 DEF Outstanding, Awaits, Carrying
  <2>3. \A i, j \in 1..Len(provider'.stdout) :
          Echoes(provider'.stdout[i]) /\ Echoes(provider'.stdout[j]) => i = j
    BY <1>1, <1>7 DEF InputInv
  <2>4. QED BY <1>1, <1>2, <2>1, <2>2, <2>3 DEF InputInv, Blocked, HeardSteer
<1>9. PromptInv'
  <2>1. HeldInput(turn') => HeldInput(turn) /\ provider.at \notin {"started", "prompted"}
    BY <1>1, <1>2 DEF PromptInv, HeldInput
  <2>2. ASSUME NEW i \in 1..Len(provider'.stdout), Prompts(provider'.stdout[i])
        PROVE  /\ ~turn.initialSeen /\ ~HeldInput(turn)
               /\ \A j \in 1..Len(provider'.stdout) :
                    provider'.stdout[j].kind = "input" => i <= j
    <3>1. CASE i > old
      <4>1. provider.at \in {"started", "prompted"}
            /\ \A j \in 1..Len(provider'.stdout) : provider'.stdout[j].kind = "input" => i = j
        BY <2>2, <3>1 DEF Prompts
      <4>2. QED BY <1>1, <1>2, <2>1, <4>1 DEF PromptInv
    <3>2. CASE i <= old
      <4>1. Prompts(provider.stdout[i]) /\ i \in 1..Len(provider.stdout)
        BY <1>6, <2>2, <3>2
      <4>2. /\ ~turn.initialSeen /\ ~HeldInput(turn)
            /\ \A j \in 1..Len(provider.stdout) : provider.stdout[j].kind = "input" => i <= j
        BY <1>1, <4>1 DEF PromptInv
      <4>3. \A j \in 1..Len(provider'.stdout) : provider'.stdout[j].kind = "input" => i <= j
        BY <1>6, <3>2, <4>2
      <4>4. QED BY <4>2, <4>3
    <3>3. QED BY <3>1, <3>2
  <2>3. QED BY <1>1, <1>2, <2>1, <2>2 DEF PromptInv, OnlyPromptHeld
<1>10. QED BY <1>1, <1>2, <1>3, <1>4, <1>5, <1>8, <1>9 DEF IInv, StreamInv

LEMMA EmitFrames ==
  ASSUME IInv, NEW at \in {"generating", "invoked", "ended"}, NEW frames \in Seq(FrameType),
         NEW n \in Nat, Len(frames) = n, provider' = Emit(frames, at)
  PROVE  /\ provider' \in ProviderType /\ provider'.heard = provider.heard
         /\ provider'.at = at /\ Len(provider.stdout) \in Nat
         /\ Len(provider'.stdout) = Len(provider.stdout) + n
         /\ \A i \in 1..Len(provider.stdout) : provider'.stdout[i] = provider.stdout[i]
         /\ \A i \in 1..Len(provider'.stdout) : i > Len(provider.stdout) =>
              /\ i - Len(provider.stdout) \in 1..n
              /\ provider'.stdout[i] = frames[i - Len(provider.stdout)]
<1>1. /\ provider \in ProviderType /\ provider.stdout \in Seq(FrameType)
      /\ Len(provider.stdout) \in Nat /\ provider.step + 1 \in Nat
  BY DEF IInv, Types, ProviderType
<1>2. PICK stdout \in Seq(FrameType) :
        /\ stdout = provider.stdout \o frames /\ Len(stdout) = Len(provider.stdout) + n
        /\ \A i \in 1..Len(stdout) :
             stdout[i] = IF i <= Len(provider.stdout) THEN provider.stdout[i]
                         ELSE frames[i - Len(provider.stdout)]
  <2>1. PICK stdout : stdout = provider.stdout \o frames
    OBVIOUS
  <2>2. stdout \in Seq(FrameType) /\ Len(stdout) = Len(provider.stdout) + n
    BY <1>1, <2>1, ConcatProperties
  <2>3. \A i \in 1..Len(stdout) :
          stdout[i] = IF i <= Len(provider.stdout) THEN provider.stdout[i]
                      ELSE frames[i - Len(provider.stdout)]
    BY <1>1, <2>1, ConcatProperties
  <2>4. QED BY <2>1, <2>2, <2>3
<1>3. provider' = [provider EXCEPT !.at = at, !.stdout = stdout, !.step = provider.step + 1]
  BY <1>1, <1>2 DEF Emit, ProviderType
<1>4. /\ provider' \in ProviderType /\ provider'.heard = provider.heard
      /\ provider'.at = at /\ provider'.stdout = stdout
  BY <1>1, <1>2, <1>3 DEF ProviderType
<1>5. \A i \in 1..Len(stdout) : i > Len(provider.stdout) => i - Len(provider.stdout) \in 1..n
  BY <1>1, <1>2
<1>6. QED BY <1>1, <1>2, <1>4, <1>5

LEMMA ProviderSpeaksSteps ==
  ASSUME IInv, \/ ProviderOpens \/ ProviderTakesPrompt \/ ProviderWrites
               \/ ProviderEnds \/ ProviderExits
  PROVE  IInv'
<1>1. provider \in ProviderType /\ provider.step \in Nat /\ Len(provider.heard) \in Nat
      /\ PromptInv
  BY DEF IInv, Types, StreamInv, ProviderType
<1>2. CASE ProviderOpens
  <2>1. PICK init \in FrameType, input \in FrameType, frames \in Seq(FrameType) :
          /\ init.kind = "init" /\ input.kind = "input" /\ input.after = 0
          /\ frames \in {<<init, input>>, <<input, init>>} /\ Len(frames) = 2
          /\ provider' = Emit(frames, "generating")
    <3>1. PICK init : init = Frame("init", 0, 0)
      OBVIOUS
    <3>2. PICK input : input = Frame("input", provider.step, 0)
      OBVIOUS
    <3>3. init \in FrameType /\ input \in FrameType
          /\ init.kind = "init" /\ input.kind = "input" /\ input.after = 0
      BY <1>1, <3>1, <3>2 DEF Frame, FrameType
    <3>4. PICK frames \in {<<init, input>>, <<input, init>>} : provider' = Emit(frames, "generating")
      BY <1>2, <3>1, <3>2 DEF ProviderOpens
    <3>5. frames \in Seq(FrameType) /\ Len(frames) = 2
      <4>1. <<init, input>> \in Seq(FrameType) /\ <<input, init>> \in Seq(FrameType)
        BY <3>3
      <4>2. Len(<<init, input>>) = 2 /\ Len(<<input, init>>) = 2
        OBVIOUS
      <4>3. QED BY <3>4, <4>1, <4>2
    <3>6. QED BY <3>3, <3>4, <3>5
  <2>2. provider.at = "started" /\ ProviderOnly
    BY <1>2 DEF ProviderOpens
  <2>3. provider.stdout = <<>> /\ Len(provider.stdout) = 0
    BY <1>1, <2>2 DEF PromptInv
  <2>4. /\ provider' \in ProviderType /\ provider'.heard = provider.heard
        /\ provider'.at = "generating" /\ Len(provider'.stdout) = 2
        /\ \A i \in 1..Len(provider'.stdout) : provider'.stdout[i] = frames[i]
    BY <2>1, <2>3, EmitFrames
  <2>5. \A i \in 1..2 : ~Echoes(frames[i])
    BY <2>1 DEF Echoes
  <2>6. \A i, j \in 1..2 : frames[i].kind = "input" /\ frames[j].kind = "input" => i = j
    BY <2>1
  <2>7. QED BY <2>2, <2>3, <2>4, <2>5, <2>6, ProviderSpeaks
<1>3. CASE ProviderTakesPrompt
  <2>1. PICK input \in FrameType : /\ input.kind = "input" /\ input.after = 0
                                   /\ provider' = Emit(<<input>>, "generating")
    <3>1. Frame("input", provider.step, 0) \in FrameType
          /\ Frame("input", provider.step, 0).kind = "input"
          /\ Frame("input", provider.step, 0).after = 0
      BY <1>1 DEF Frame, FrameType
    <3>2. QED BY <1>3, <3>1 DEF ProviderTakesPrompt
  <2>2. provider.at = "prompted" /\ ProviderOnly
    BY <1>3 DEF ProviderTakesPrompt
  <2>3. provider.stdout = <<>> /\ Len(provider.stdout) = 0
    BY <1>1, <2>2 DEF PromptInv
  <2>4. PICK frames \in Seq(FrameType) :
        /\ frames = <<input>> /\ Len(frames) = 1 /\ frames[1] = input
        /\ provider' = Emit(frames, "generating")
    <3>1. PICK frames : frames = <<input>>
      OBVIOUS
    <3>2. frames \in Seq(FrameType) /\ Len(frames) = 1 /\ frames[1] = input
      BY <2>1, <3>1
    <3>3. provider' = Emit(frames, "generating")
      BY <2>1, <3>1
    <3>4. QED BY <3>1, <3>2, <3>3
  <2>5. /\ provider' \in ProviderType /\ provider'.heard = provider.heard
        /\ provider'.at = "generating" /\ Len(provider'.stdout) = 1
        /\ \A i \in 1..Len(provider'.stdout) : provider'.stdout[i] = frames[i]
    <3>1. PICK at \in {"generating", "invoked", "ended"} : at = "generating"
      OBVIOUS
    <3>2. provider' = Emit(frames, at)
      BY <2>4, <3>1
    <3>3. /\ provider' \in ProviderType /\ provider'.heard = provider.heard /\ provider'.at = at
          /\ Len(provider'.stdout) = Len(provider.stdout) + 1
          /\ \A i \in 1..Len(provider.stdout) : provider'.stdout[i] = provider.stdout[i]
          /\ \A i \in 1..Len(provider'.stdout) : i > Len(provider.stdout) =>
               /\ i - Len(provider.stdout) \in 1..1
               /\ provider'.stdout[i] = frames[i - Len(provider.stdout)]
      <4>1. 1 \in Nat
        OBVIOUS
      <4>2. QED BY <2>4, <3>2, <4>1, EmitFrames
    <3>4. QED BY <2>3, <3>1, <3>3
  <2>6. \A i \in 1..1 : i = 1
    OBVIOUS
  <2>7. \A i \in 1..Len(provider'.stdout) : i = 1 /\ ~Echoes(provider'.stdout[i])
    BY <2>1, <2>4, <2>5, <2>6 DEF Echoes
  <2>8. QED BY <2>2, <2>3, <2>5, <2>7, ProviderSpeaks
<1>4. CASE ProviderWrites \/ ProviderEnds
  <2>1. PICK frame \in FrameType, at \in {"invoked", "ended"} :
          frame.kind # "input" /\ provider' = Emit(<<frame>>, at)
    <3>1. CASE ProviderWrites
      <4>1. PICK frame : frame = Frame("text", provider.step, Len(provider.heard))
        OBVIOUS
      <4>2. frame \in FrameType /\ frame.kind # "input"
        BY <1>1, <4>1 DEF Frame, FrameType
      <4>3. QED BY <3>1, <4>1, <4>2 DEF ProviderWrites
    <3>2. CASE ProviderEnds
      <4>1. PICK kind \in {"success", "error"} : provider' = Emit(<<Frame(kind, 0, 0)>>, "ended")
        BY <3>2 DEF ProviderEnds
      <4>2. PICK frame : frame = Frame(kind, 0, 0)
        OBVIOUS
      <4>3. frame \in FrameType /\ frame.kind # "input"
        BY <4>2 DEF Frame, FrameType
      <4>4. QED BY <4>1, <4>2, <4>3
    <3>3. QED BY <1>4, <3>1, <3>2
  <2>2. ProviderOnly
    BY <1>4 DEF ProviderWrites, ProviderEnds
  <2>3. PICK frames \in Seq(FrameType) :
        /\ frames = <<frame>> /\ Len(frames) = 1 /\ frames[1] = frame
        /\ provider' = Emit(frames, at)
    <3>1. PICK frames : frames = <<frame>>
      OBVIOUS
    <3>2. frames \in Seq(FrameType) /\ Len(frames) = 1 /\ frames[1] = frame
      BY <2>1, <3>1
    <3>3. provider' = Emit(frames, at)
      BY <2>1, <3>1
    <3>4. QED BY <3>1, <3>2, <3>3
  <2>4. PICK old \in Nat : old = Len(provider.stdout)
    BY <1>1 DEF ProviderType
  <2>5. /\ provider' \in ProviderType /\ provider'.heard = provider.heard
        /\ provider'.at \notin {"started", "prompted"}
        /\ Len(provider'.stdout) = old + 1
        /\ \A i \in 1..old : provider'.stdout[i] = provider.stdout[i]
        /\ \A i \in 1..Len(provider'.stdout) : i > old => provider'.stdout[i] = frame
    <3>1. /\ provider' \in ProviderType /\ provider'.heard = provider.heard /\ provider'.at = at
          /\ Len(provider'.stdout) = Len(provider.stdout) + 1
          /\ \A i \in 1..Len(provider.stdout) : provider'.stdout[i] = provider.stdout[i]
          /\ \A i \in 1..Len(provider'.stdout) : i > Len(provider.stdout) =>
               /\ i - Len(provider.stdout) \in 1..1
               /\ provider'.stdout[i] = frames[i - Len(provider.stdout)]
      <4>1. at \in {"generating", "invoked", "ended"} /\ 1 \in Nat
        BY <2>1
      <4>2. QED BY <2>3, <4>1, EmitFrames
    <3>2. \A k \in 1..1 : frames[k] = frame
      BY <2>3
    <3>3. QED BY <2>1, <2>4, <3>1, <3>2
  <2>6. ~Echoes(frame) /\ old <= Len(provider'.stdout)
    BY <2>1, <2>5 DEF Echoes
  <2>7. QED BY <2>1, <2>2, <2>4, <2>5, <2>6, ProviderSpeaks
<1>5. CASE ProviderExits
  <2>1. /\ ProviderOnly /\ provider' \in ProviderType /\ provider'.heard = provider.heard
        /\ provider'.at = provider.at /\ provider'.stdout = provider.stdout
    BY <1>1, <1>5 DEF ProviderExits, ProviderType
  <2>2. IInv'
    <3>1. Types' /\ TurnInv(turn')
      BY <2>1 DEF ProviderOnly, IInv, Types
    <3>2. LockInv' /\ BridgeInv'
      BY <2>1 DEF ProviderOnly, IInv, LockInv, BridgeInv, QueueInv, OrderInv, HookInv, Hears,
                  Blocked, Carrying, EntryInv
    <3>3. InputInv'
      BY <2>1 DEF ProviderOnly, IInv, StreamInv, InputInv, Outstanding, EchoComes, Awaits,
                  Hears, Blocked, Carrying, HeardSteer
    <3>4. PromptInv' /\ VerdictInv'
      BY <2>1 DEF ProviderOnly, IInv, StreamInv, PromptInv, VerdictInv, OnlyPromptHeld,
                  HeldInput, HeardSteer, Pending
    <3>5. QED BY <3>1, <3>2, <3>3, <3>4 DEF IInv, StreamInv
  <2>3. QED BY <2>2
<1>6. QED BY <1>2, <1>3, <1>4, <1>5

-----------------------------------------------------------------------------
(***************************************************************************)
(* The invariant is inductive.                                             *)
(***************************************************************************)
LEMMA InitIInv ==
  ASSUME Init
  PROVE  IInv
<1>1. PICK none \in Seq(Nat), held \in Seq(FrameType), heard \in Seq(Steers),
           queue \in Seq(EntryType) :
        /\ none = <<>> /\ held = <<>> /\ heard = <<>> /\ queue = <<>>
        /\ Len(held) = 0 /\ Len(heard) = 0 /\ Len(queue) = 0
  <2>1. <<>> \in Seq(Nat) /\ <<>> \in Seq(FrameType) /\ <<>> \in Seq(Steers) /\ <<>> \in Seq(EntryType)
    BY EmptySeq
  <2>2. Len(<<>>) = 0
    OBVIOUS
  <2>3. QED BY <2>1, <2>2
<1>2. PICK op \in [Steers -> OpPlaces], floor \in [Steers -> Nat], verdict \in [Steers -> Verdicts] :
        /\ op = [s \in Steers |-> "none"] /\ floor = [s \in Steers |-> 0]
        /\ verdict = [s \in Steers |-> "unasked"]
  <2>1. /\ [s \in Steers |-> "none"] \in [Steers -> OpPlaces]
        /\ [s \in Steers |-> 0] \in [Steers -> Nat]
        /\ [s \in Steers |-> "unasked"] \in [Steers -> Verdicts]
    BY DEF OpPlaces, Verdicts
  <2>2. QED BY <2>1
<1>3. turn =
        [number |-> 1, result |-> "none", answer |-> none, child |-> TRUE,
         binding |-> "unbound", watermark |-> 0, verdict |-> verdict,
         op |-> op, floor |-> floor,
         asked |-> 0, injected |-> 0, ids |-> {}, polled |-> {}, timed |-> {},
         initialSeen |-> FALSE, input |-> 0, observation |-> NoObservation,
         deferred |-> held, segment |-> none, final |-> "none",
         failure |-> "none", failing |-> "no"]
  BY <1>1, <1>2 DEF Init, FreshTurn
<1>4. 1 \in 1..MaxTurns
  BY MaxTurnsAssumption
<1>5. /\ turn \in TurnType /\ turn.op = op /\ turn.ids = {} /\ turn.deferred = held
      /\ turn.verdict = verdict /\ turn.asked = 0 /\ turn.injected = 0
      /\ turn.initialSeen = FALSE /\ turn.input = 0
      /\ turn.observation = NoObservation /\ turn.result = "none"
  BY <1>1, <1>2, <1>3, <1>4, NoObservationType DEF TurnType, Failures
<1>6. provider = [alive |-> TRUE, at |-> "started", step |-> 1, heard |-> heard, stdout |-> held]
  BY <1>1 DEF Init
<1>7. provider \in ProviderType /\ provider.heard = heard /\ provider.stdout = held
  BY <1>1, <1>6 DEF ProviderType
<1>8. bridge \in BridgeType /\ bridge.queue = queue /\ bridge.status # "blocked" /\ bridge.active = 0
  <2>1. PICK request \in [Steers -> {"absent", "queued", "awaiting", "injected"}] :
          request = [s \in Steers |-> "absent"]
    <3>1. [s \in Steers |-> "absent"] \in [Steers -> {"absent", "queued", "awaiting", "injected"}]
      OBVIOUS
    <3>2. QED BY <3>1
  <2>2. bridge = EmptyBridge
    BY DEF Init
  <2>3. QED BY <1>1, <2>1, <2>2 DEF EmptyBridge, BridgeType, BridgeStatuses
<1>9. /\ lock = "free" /\ hooks \in [Hooks -> [at : HookPlaces, steer : Steers \cup {0}]]
      /\ \A h \in Hooks : hooks[h].at = "idle"
  BY DEF Init, HookIdle, HookPlaces
<1>10. /\ \A s \in Steers : turn.op[s] = "none" /\ turn.verdict[s] = "unasked"
       /\ turn.observation.at = "none"
  BY <1>2, <1>5, NoObservationType
<1>11. \A h \in Hooks : ~Carrying(h)
  BY <1>9 DEF Carrying
<1>12. TurnInv(turn)
  <2>1. turn.ids \cup InFlight(turn) = {}
    BY <1>5, <1>10 DEF InFlight
  <2>2. Cardinality(turn.ids \cup InFlight(turn)) = 0
    BY <2>1, FS_EmptySet
  <2>3. turn.injected + Cardinality(turn.ids \cup InFlight(turn)) <= turn.asked
    BY <1>5, <2>2
  <2>4. QED BY <1>1, <1>5, <1>10, <2>3, DeferredLimitAssumption DEF TurnInv, Ends
<1>13. LockInv
  BY <1>9, <1>10 DEF LockInv
<1>14. QueueInv /\ OrderInv /\ HookInv
  BY <1>1, <1>7, <1>8, <1>11 DEF QueueInv, OrderInv, HookInv, Hears, Blocked
<1>15. InputInv
  <2>1. ~EchoComes /\ ~Awaits(turn) /\ ~Outstanding
    BY <1>1, <1>5, <1>7, <1>10 DEF EchoComes, Awaits, Outstanding
  <2>2. QED BY <1>1, <1>5, <1>7, <1>10, <2>1 DEF InputInv
<1>16. PromptInv
  <2>1. ~HeldInput(turn)
    BY <1>1, <1>5 DEF HeldInput
  <2>2. QED BY <1>1, <1>5, <1>7, <2>1 DEF PromptInv, OnlyPromptHeld
<1>17. VerdictInv
  BY <1>10 DEF VerdictInv
<1>18. Types
  BY <1>5, <1>7, <1>8, <1>9 DEF Types
<1>19. QED BY <1>12, <1>13, <1>14, <1>15, <1>16, <1>17, <1>18 DEF IInv, BridgeInv, StreamInv

LEMMA NextIInv ==
  ASSUME IInv, [Next]_vars
  PROVE  IInv'
<1>1. CASE UNCHANGED vars
  <2>1. UNCHANGED <<bridge, lock, hooks, turn, provider>>
    BY <1>1 DEF vars
  <2>2. Types' /\ TurnInv(turn')
    BY <2>1 DEF IInv, Types
  <2>3. LockInv' /\ BridgeInv'
    BY <2>1 DEF IInv, LockInv, BridgeInv, QueueInv, OrderInv, HookInv, Hears, Blocked,
                Carrying, EntryInv
  <2>4. StreamInv'
    BY <2>1 DEF IInv, StreamInv, InputInv, Outstanding, EchoComes, Awaits, Hears, Blocked,
                Carrying, HeardSteer, PromptInv, VerdictInv, OnlyPromptHeld, HeldInput, Pending
  <2>5. QED BY <2>2, <2>3, <2>4 DEF IInv
<1>2. CASE \E s \in Steers : Steer(s) \/ SteerWork(s)
  <2>1. PICK s \in Steers : Steer(s) \/ SteerWork(s)
    BY <1>2
  <2>2. QED BY <2>1, SteerStep, EnqueueStateStep, EnqueueRequestStep, EnqueueFailsStep,
               EnqueueSettlesStep, WatchSteps DEF SteerWork
<1>3. CASE SessionWork
  BY <1>3, ReceiveStep, RehandleInputStep, BindStep, BlockSteps, ObserveRequestStep,
     ObserveStateStep, ObserveFailsStep, ObservationSettlesStep, GiveUpSteps, ChildSteps
     DEF SessionWork
<1>4. CASE Cancel \/ ChildFails \/ NextPrompt
  BY <1>4, GiveUpSteps, ChildSteps, NextPromptStep
<1>5. CASE \E h \in Hooks : HookWork(h) \/ HookDeath(h) \/ ProviderWork(h)
  <2>1. PICK h \in Hooks : HookWork(h) \/ HookDeath(h) \/ ProviderWork(h)
    BY <1>5
  <2>2. CASE HookWork(h) \/ HookDeath(h)
    BY <2>2, HookQuietSteps, HookClaimsStep DEF HookWork, HookDeath, HookStep
  <2>3. CASE ProviderWork(h)
    <3>1. CASE ProviderRunsHook(h)
      <4>1. UNCHANGED <<turn, provider>>
        BY <3>1 DEF ProviderRunsHook
      <4>2. QED BY <3>1, <4>1, HookQuietSteps
    <3>2. QED BY <2>3, <3>1, ProviderInjectsStep DEF ProviderWork
  <2>4. QED BY <2>1, <2>2, <2>3
<1>6. CASE ProviderOpens \/ ProviderTakesPrompt \/ ProviderWrites \/ ProviderEnds \/ ProviderExits
  BY <1>6, ProviderSpeaksSteps
<1>7. QED BY <1>1, <1>2, <1>3, <1>4, <1>5, <1>6 DEF Next

\* Every state of a steered session satisfies the invariant.
THEOREM Invariant == Spec => []IInv
<1>1. Init => IInv
  BY InitIInv
<1>2. IInv /\ [Next]_vars => IInv'
  BY NextIInv
<1>3. QED BY <1>1, <1>2, PTL DEF Spec

(***************************************************************************)
(* The session, the provider and the bridge hold what their types say: the *)
(* held frames stay within their limit, and no turn has more corrections   *)
(* confirmed than it was asked for.                                        *)
(***************************************************************************)
THEOREM TypeCorrect == Spec => []TypeOK
<1>1. IInv => TypeOK
  <2>1. SUFFICES ASSUME IInv PROVE TypeOK
    OBVIOUS
  <2>2. Types /\ TurnInv(turn) /\ turn \in TurnType
    BY <2>1 DEF IInv, Types
  <2>3. turn.injected <= turn.asked
    <3>1. PICK n \in Nat : n = Cardinality(turn.ids \cup InFlight(turn))
      BY <2>2, Members
    <3>2. turn.injected + n <= turn.asked
      BY <2>2, <3>1 DEF TurnInv
    <3>3. turn.injected \in Nat /\ turn.asked \in Nat
      BY <2>2 DEF TurnType
    <3>4. QED BY <3>2, <3>3
  <2>4. BridgeTypeOK
    BY <2>2 DEF Types, BridgeType, EntryType, BridgeTypeOK
  <2>5. QED BY <2>2, <2>3, <2>4
           DEF TypeOK, Types, TurnType, TurnInv, ProviderType, OpPlaces, ObservationType
<1>2. QED BY <1>1, Invariant, PTL

(***************************************************************************)
(* At every instant, so also where the adapter dies, a correction that is  *)
(* on the bridge and not durably confirmed leaves the bridge guarded.      *)
(***************************************************************************)
THEOREM UnconfirmedGuarded == Spec => []UnconfirmedIsGuarded
<1>1. IInv => UnconfirmedIsGuarded
  <2>1. SUFFICES ASSUME IInv, NEW i \in DOMAIN bridge.queue, bridge.queue[i].status # "injected"
                 PROVE  bridge.guard
    BY DEF UnconfirmedIsGuarded
  <2>2. QueueInv /\ OrderInv /\ i \in 1..Len(bridge.queue)
    BY <2>1, QueueType DEF IInv, BridgeInv, Types
  <2>3. QED BY <2>1, <2>2 DEF QueueInv, OrderInv, EntryInv
<1>2. QED BY <1>1, Invariant, PTL

(***************************************************************************)
(* Whichever hook processes run, die or are late, the provider hears the   *)
(* corrections in the order of the queue and skips none.                   *)
(***************************************************************************)
THEOREM HeardInOrder == Spec => []HeardInQueueOrder
<1>1. IInv => HeardInQueueOrder
  <2>1. SUFFICES ASSUME IInv PROVE HeardInQueueOrder
    OBVIOUS
  <2>2. /\ provider.heard \in Seq(Steers) /\ Len(provider.heard) \in Nat
        /\ bridge.queue \in Seq(EntryType) /\ Len(bridge.queue) \in Nat
        /\ \A i \in 1..Len(bridge.queue) : bridge.queue[i].steer \in Steers
        /\ Len(provider.heard) <= Len(bridge.queue)
        /\ \A i \in 1..Len(provider.heard) : provider.heard[i] = bridge.queue[i].steer
    BY <2>1, QueueType DEF IInv, Types, ProviderType, BridgeInv, OrderInv, Hears
  <2>3. PICK asked : asked = [i \in DOMAIN bridge.queue |-> bridge.queue[i].steer]
    OBVIOUS
  <2>4. /\ asked \in Seq(Steers) /\ Len(asked) = Len(bridge.queue)
        /\ \A i \in 1..Len(asked) : asked[i] = bridge.queue[i].steer
    <3>1. DOMAIN bridge.queue = 1..Len(bridge.queue)
      BY <2>2
    <3>2. asked \in [1..Len(bridge.queue) -> Steers]
      BY <2>2, <2>3, <3>1
    <3>3. asked \in Seq(Steers)
      BY <2>2, <3>2, SeqDef
    <3>4. QED BY <2>2, <2>3, <3>1, <3>2, <3>3, LenProperties
  <2>5. PICK n \in Nat : n = Len(provider.heard)
    BY <2>2
  <2>6. PICK s, t : s = SubSeq(provider.heard, 1, n) /\ t = SubSeq(asked, 1, n)
    OBVIOUS
  <2>7. /\ \A i \in 1..n : provider.heard[i] \in Steers
        /\ \A i \in 1..n : asked[i] \in Steers
        /\ \A i \in 1..n : provider.heard[i] = asked[i]
    <3>1. \A i \in 1..n : provider.heard[i] \in Steers
      BY <2>2, <2>5
    <3>2. \A i \in 1..n : i \in 1..Len(asked)
      BY <2>2, <2>4, <2>5
    <3>3. \A i \in 1..n : asked[i] = bridge.queue[i].steer
      BY <2>4, <3>2
    <3>4. \A i \in 1..n : provider.heard[i] = bridge.queue[i].steer
      BY <2>2, <2>5
    <3>5. QED BY <3>1, <3>3, <3>4
  <2>8. s \in Seq(Steers) /\ Len(s) = n /\ \A i \in 1..n : s[i] = provider.heard[i]
    BY <2>2, <2>5, <2>6, <2>7, SubSeqProperties
  <2>9. t \in Seq(Steers) /\ Len(t) = n /\ \A i \in 1..n : t[i] = asked[i]
    BY <2>2, <2>4, <2>5, <2>6, <2>7, SubSeqProperties
  <2>10. s = t
    BY <2>7, <2>8, <2>9, SeqEqual
  <2>11. QED BY <2>2, <2>3, <2>4, <2>5, <2>6, <2>10 DEF HeardInQueueOrder, IsPrefix
<1>2. QED BY <1>1, Invariant, PTL

(***************************************************************************)
(* The sentinel is final: no late hook, operation or confirmation makes a  *)
(* blocked bridge usable again.                                            *)
(***************************************************************************)
THEOREM BlockingIsFinal == Spec => BlockedIsFinal
<1>1. IInv /\ [Next]_vars => [bridge.status = "blocked" => bridge'.status = "blocked"]_vars
  <2>1. SUFFICES ASSUME IInv, Next, bridge.status = "blocked" PROVE bridge'.status = "blocked"
    BY DEF vars
  <2>2. bridge \in BridgeType /\ turn.observation.at # "writing"
    BY <2>1 DEF IInv, Types, StreamInv, InputInv, Blocked
  <2>3. BlockState(bridge).status = "blocked"
    BY <2>2, BlockStateType
  <2>4. CASE \E s \in Steers : Steer(s) \/ SteerWork(s)
    <3>1. PICK s \in Steers : Steer(s) \/ SteerWork(s)
      BY <2>4
    <3>2. bridge' = bridge \/ EnqueueState(s) \/ bridge' = RequestWritten(bridge, s)
      BY <3>1 DEF Steer, SteerWork, EnqueueRequest, EnqueueFails, EnqueueSettles,
                  PollSeesClaim, PollSeesInjected, PollFails, ClaimTimesOut, Session
    <3>3. ~EnqueueState(s)
      BY <2>1 DEF EnqueueState, CanEnqueue
    <3>4. RequestWritten(bridge, s).status = bridge.status
      BY <2>2 DEF RequestWritten, BridgeType
    <3>5. QED BY <2>1, <3>2, <3>3, <3>4
  <2>5. CASE SessionWork \/ Cancel \/ ChildFails \/ NextPrompt
    <3>1. \/ bridge' = bridge \/ bridge' = BlockState(bridge) \/ ObserveRequest
          \/ turn.observation.at = "writing"
      BY <2>5 DEF SessionWork, Receive, RehandleInput, Bind, BindFails, ObserveState,
                  ObserveFails, ObservationSettles, BlockSettles, FailureSettles, ChildCloses,
                  Cancel, ChildFails, NextPrompt, Session
    <3>2. ~ObserveRequest
      BY <2>1 DEF ObserveRequest, Claimed
    <3>3. QED BY <2>1, <2>2, <2>3, <3>1, <3>2
  <2>6. CASE \E h \in Hooks : HookWork(h) \/ HookDeath(h) \/ ProviderWork(h)
    <3>1. PICK h \in Hooks : HookWork(h) \/ HookDeath(h) \/ ProviderWork(h)
      BY <2>6
    <3>2. CASE HookMarksRequest(h)
      BY <2>1, <2>2, <3>2 DEF HookMarksRequest, BridgeType
    <3>3. CASE HookAcknowledges(h)
      BY <2>1, <2>2, <3>3 DEF HookAcknowledges, BridgeType
    <3>4. ~HookClaims(h)
      BY <2>1 DEF HookClaims, NothingToClaim
    <3>5. CASE bridge' = bridge \/ bridge' = BlockState(bridge)
      BY <2>1, <2>3, <3>5
    <3>6. QED BY <3>1, <3>2, <3>3, <3>4, <3>5
             DEF HookWork, HookDeath, ProviderWork, HookStep, HookFindsNothing, HookBlocks,
                 HookDies, ProviderRunsHook, ProviderInjects
  <2>7. CASE ProviderOpens \/ ProviderTakesPrompt \/ ProviderWrites \/ ProviderEnds \/ ProviderExits
    BY <2>1, <2>7 DEF ProviderOpens, ProviderTakesPrompt, ProviderWrites, ProviderEnds,
                      ProviderExits, ProviderOnly
  <2>8. QED BY <2>1, <2>4, <2>5, <2>6, <2>7 DEF Next
<1>2. QED BY <1>1, Invariant, PTL DEF Spec, BlockedIsFinal

-----------------------------------------------------------------------------
(***************************************************************************)
(* What is promised about a correction.                                    *)
(***************************************************************************)
LEMMA Counted ==
  ASSUME NEW heard \in Seq(Steers), NEW s,
         \A i, j \in 1..Len(heard) : heard[i] = heard[j] => i = j
  PROVE  Cardinality({i \in DOMAIN heard : heard[i] = s}) =
           IF \E i \in 1..Len(heard) : heard[i] = s THEN 1 ELSE 0
<1>1. DOMAIN heard = 1..Len(heard)
  OBVIOUS
<1>2. CASE \E i \in 1..Len(heard) : heard[i] = s
  <2>1. PICK i \in 1..Len(heard) : heard[i] = s
    BY <1>2
  <2>2. {j \in DOMAIN heard : heard[j] = s} = {i}
    BY <1>1, <2>1
  <2>3. Cardinality({i}) = 1
    BY FS_Singleton
  <2>4. QED BY <1>2, <2>2, <2>3
<1>3. CASE ~\E i \in 1..Len(heard) : heard[i] = s
  <2>1. {j \in DOMAIN heard : heard[j] = s} = {}
    BY <1>1, <1>3
  <2>2. QED BY <1>3, <2>1, FS_EmptySet
<1>4. QED BY <1>2, <1>3

\* The conversation hears a correction at most once.
HeardsOnce ==
  /\ turn.verdict \in [Steers -> Verdicts]
  /\ \A s \in Steers : Heard(s) = IF HeardSteer(s) THEN 1 ELSE 0

LEMMA HeardOnce == IInv => HeardsOnce
<1>1. SUFFICES ASSUME IInv, NEW s \in Steers
               PROVE  /\ turn.verdict \in [Steers -> Verdicts]
                      /\ Heard(s) = IF HeardSteer(s) THEN 1 ELSE 0
  BY DEF IInv, Types, TurnType, HeardsOnce
<1>2. /\ turn.verdict \in [Steers -> Verdicts] /\ provider.heard \in Seq(Steers)
      /\ Len(provider.heard) \in Nat /\ Len(bridge.queue) \in Nat
      /\ Len(provider.heard) <= Len(bridge.queue)
      /\ \A i \in 1..Len(provider.heard) : provider.heard[i] = bridge.queue[i].steer
      /\ \A i, j \in 1..Len(bridge.queue) : bridge.queue[i].steer = bridge.queue[j].steer => i = j
  <2>1. Types /\ OrderInv /\ QueueInv
    BY <1>1 DEF IInv, BridgeInv
  <2>2. turn.verdict \in [Steers -> Verdicts]
    BY <2>1 DEF Types, TurnType
  <2>3. provider.heard \in Seq(Steers)
    BY <2>1 DEF Types, ProviderType
  <2>4. Len(provider.heard) \in Nat
    BY <2>3, LenProperties
  <2>5. Len(bridge.queue) \in Nat
    BY <2>1, QueueType DEF Types
  <2>6. /\ Len(provider.heard) <= Len(bridge.queue)
        /\ \A i \in 1..Len(provider.heard) : provider.heard[i] = bridge.queue[i].steer
    BY <2>1 DEF OrderInv, Hears
  <2>7. \A i, j \in 1..Len(bridge.queue) : bridge.queue[i].steer = bridge.queue[j].steer => i = j
    BY <2>1 DEF QueueInv
  <2> QED BY <2>2, <2>3, <2>4, <2>5, <2>6, <2>7
<1>3. \A i, j \in 1..Len(provider.heard) : provider.heard[i] = provider.heard[j] => i = j
  BY <1>2
<1>4. QED BY <1>2, <1>3, Counted DEF Heard, HeardSteer

\* The steps that neither hand a correction to the conversation nor answer one
LEMMA LedgerRests ==
  ASSUME IInv, Next, ~\E s \in Steers : Steer(s), ~ObservationSettles, ~Cancel, ~FailureSettles,
         ~\E h \in Hooks : ProviderInjects(h)
  PROVE  turn'.verdict = turn.verdict /\ provider'.heard = provider.heard
<1>1. turn \in TurnType /\ provider \in ProviderType
  BY DEF IInv, Types
<1>2. CASE \E s \in Steers : Steer(s) \/ SteerWork(s)
  <2>1. PICK s \in Steers : SteerWork(s)
    BY <1>2
  <2>2. provider' = provider
    BY <2>1 DEF SteerWork, EnqueueState, EnqueueRequest, EnqueueFails, EnqueueSettles,
                PollSeesClaim, PollSeesInjected, PollFails, ClaimTimesOut, Session
  <2>3. turn'.verdict = turn.verdict
    <3>1. CASE EnqueueState(s) \/ EnqueueRequest(s) \/ EnqueueFails(s)
      BY <1>1, <3>1 DEF EnqueueState, EnqueueRequest, EnqueueFails, TurnType
    <3>2. QED BY <2>1, <3>1, EnqueueSettlesStep, WatchSteps DEF SteerWork
  <2>4. QED BY <2>2, <2>3
<1>3. CASE SessionWork \/ ChildFails
  <2>1. CASE ObserveRequest \/ ObserveState \/ ObserveFails
    BY <1>1, <2>1 DEF ObserveRequest, ObserveState, ObserveFails, TurnType
  <2>2. CASE Receive
    <3>1. provider' = [provider EXCEPT !.stdout = Tail(@)]
      BY <2>2 DEF Receive
    <3>2. QED BY <1>1, <2>2, <3>1, ReceiveStep DEF ProviderType
  <2>3. CASE RehandleInput \/ Bind \/ BindFails \/ BlockSettles \/ ChildCloses \/ ChildFails
    <3>1. provider' = provider
      BY <2>3 DEF RehandleInput, Bind, BindFails, BlockSettles, ChildCloses, ChildFails, Session
    <3>2. QED BY <2>3, <3>1, RehandleInputStep, BindStep, BlockSteps, ChildSteps
  <2>4. QED BY <1>3, <2>1, <2>2, <2>3 DEF SessionWork
<1>4. CASE NextPrompt
  BY <1>1, <1>4 DEF NextPrompt, FreshTurn, ProviderType
<1>5. CASE \E h \in Hooks : HookWork(h) \/ HookDeath(h) \/ ProviderWork(h)
  BY <1>5 DEF HookWork, HookDeath, ProviderWork, ProviderRunsHook
<1>6. CASE ProviderOpens \/ ProviderTakesPrompt \/ ProviderWrites \/ ProviderEnds \/ ProviderExits
  BY <1>1, <1>6 DEF ProviderOpens, ProviderTakesPrompt, ProviderWrites, ProviderEnds,
                    ProviderExits, ProviderOnly, Emit, ProviderType
<1>7. QED BY <1>2, <1>3, <1>4, <1>5, <1>6 DEF Next

Ledger == [s \in Steers |-> [heard |-> Heard(s), verdict |-> turn.verdict[s]]]

LEMMA LedgerStep ==
  ASSUME IInv, IInv', [Next]_vars
  PROVE  [Corrections!CorrectionNext]_Ledger
<1>1. /\ turn.verdict \in [Steers -> Verdicts]
      /\ \A s \in Steers : Heard(s) = IF HeardSteer(s) THEN 1 ELSE 0
  BY HeardOnce DEF HeardsOnce
<1>2. /\ turn'.verdict \in [Steers -> Verdicts]
      /\ \A s \in Steers : Heard(s)' = IF HeardSteer(s)' THEN 1 ELSE 0
  <2>1. IInv' => HeardsOnce'
    BY HeardOnce, PTL
  <2>2. QED BY <2>1 DEF HeardsOnce
<1>3. PICK a, b : a = Ledger /\ b = Ledger'
  OBVIOUS
<1>4. /\ a = [s \in Steers |-> [heard |-> Heard(s), verdict |-> turn.verdict[s]]]
      /\ b = [s \in Steers |-> [heard |-> Heard(s)', verdict |-> turn'.verdict[s]]]
  BY <1>3 DEF Ledger
<1>5. CASE turn'.verdict = turn.verdict /\ provider'.heard = provider.heard
  <2>1. \A s \in Steers : Heard(s)' = Heard(s)
    BY <1>5 DEF Heard
  <2>2. Ledger' = Ledger
    BY <1>5, <2>1 DEF Ledger
  <2>3. QED BY <2>2
<1>6. CASE \E s \in Steers : Steer(s)
  <2>1. PICK s \in Steers : Steer(s)
    BY <1>6
  <2>2. /\ turn \in TurnType /\ provider' = provider /\ turn.verdict[s] = "unasked"
        /\ turn'.verdict = [turn.verdict EXCEPT ![s] = "open"]
    <3>1. PICK verdict \in [Steers -> Verdicts] : verdict = [turn.verdict EXCEPT ![s] = "open"]
      BY <1>1 DEF Verdicts
    <3>2. turn \in TurnType /\ provider' = provider /\ turn.verdict[s] = "unasked"
      BY <2>1 DEF Steer, Session, IInv, Types
    <3>3. turn' = [turn EXCEPT !.verdict = verdict, !.op[s] = "waiting",
                               !.floor[s] = turn.watermark, !.asked = @ + 1]
      BY <2>1, <3>1, <3>2 DEF Steer, TurnType
    <3>4. turn'.verdict = verdict
      BY <3>2, <3>3 DEF TurnType
    <3>5. QED BY <3>1, <3>2, <3>4
  <2>3. Heard(s) = 0
    <3>1. ~HeardSteer(s)
      <4>1. SUFFICES ASSUME NEW i \in 1..Len(provider.heard), provider.heard[i] = s PROVE FALSE
        BY DEF HeardSteer
      <4>2. Len(provider.heard) \in Nat /\ Len(bridge.queue) \in Nat
        BY QueueType DEF IInv, Types, ProviderType
      <4>3. i \in 1..Len(bridge.queue) /\ bridge.queue[i].steer = s
        BY <4>1, <4>2 DEF IInv, BridgeInv, OrderInv, Hears
      <4>4. QED BY <2>2, <4>3 DEF IInv, BridgeInv, QueueInv
    <3>2. QED BY <1>1, <3>1
  <2>4. \A r \in Steers : Heard(r)' = Heard(r)
    BY <2>2 DEF Heard
  <2>5. b = [a EXCEPT ![s].verdict = "open"] /\ a[s] = [heard |-> 0, verdict |-> "unasked"]
    BY <1>1, <1>4, <2>2, <2>3, <2>4
  <2>6. Corrections!Ask(s)
    BY <1>3, <2>5 DEF Corrections!Ask, Ledger
  <2>7. QED BY <2>6 DEF Corrections!CorrectionNext
<1>7. CASE \E h \in Hooks : ProviderInjects(h)
  <2>1. PICK h \in Hooks : ProviderInjects(h)
    BY <1>7
  <2>2. Carrying(h) /\ turn' = turn /\ provider.heard \in Seq(Steers) /\ Len(provider.heard) \in Nat
    BY <2>1 DEF ProviderInjects, Carrying, IInv, Types, ProviderType
  <2>3. PICK s \in Steers : s = hooks[h].steer
    BY <2>2, HookCarries
  <2>4. provider'.heard = Append(provider.heard, s)
    BY <2>1, <2>3 DEF ProviderInjects, Emit, IInv, Types, ProviderType
  <2>5. /\ bridge.queue[Hears + 1].steer = s /\ Hears + 1 \in 1..Len(bridge.queue)
        /\ Hears = Len(provider.heard) /\ Len(bridge.queue) \in Nat
    <3>1. Hears < Len(bridge.queue) /\ bridge.queue[Hears + 1].steer = s
      BY <2>2, <2>3 DEF IInv, BridgeInv, HookInv
    <3>2. Len(bridge.queue) \in Nat
      BY QueueType DEF IInv, Types
    <3>3. QED BY <2>2, <3>1, <3>2 DEF Hears
  <2>6. ~HeardSteer(s)
    <3>1. SUFFICES ASSUME NEW i \in 1..Len(provider.heard), provider.heard[i] = s PROVE FALSE
      BY DEF HeardSteer
    <3>2. i \in 1..Len(bridge.queue) /\ bridge.queue[i].steer = s /\ i # Hears + 1
      BY <2>2, <2>5, <3>1 DEF IInv, BridgeInv, OrderInv
    <3>3. QED BY <2>5, <3>2 DEF IInv, BridgeInv, QueueInv
  <2>7. \A r \in Steers : HeardSteer(r)' <=> HeardSteer(r) \/ r = s
    <3>1. PICK heard : heard = Append(provider.heard, s)
      OBVIOUS
    <3>2. /\ Len(heard) = Len(provider.heard) + 1 /\ heard[Len(provider.heard) + 1] = s
          /\ \A i \in 1..Len(provider.heard) : heard[i] = provider.heard[i]
      BY <2>2, <3>1, AppendProperties
    <3>3. \A r \in Steers : (\E i \in 1..Len(heard) : heard[i] = r)
                              <=> (\E i \in 1..Len(provider.heard) : provider.heard[i] = r) \/ r = s
      BY <2>2, <3>2
    <3>4. QED BY <2>4, <3>1, <3>3 DEF HeardSteer
  <2>8. turn.verdict[s] \in {"open", "rejected"}
    <3>1. turn.verdict[s] # "unasked"
      BY <2>5 DEF IInv, BridgeInv, QueueInv
    <3>2. turn.verdict[s] # "injected"
      BY <2>6 DEF IInv, StreamInv, VerdictInv
    <3>3. QED BY <1>1, <3>1, <3>2 DEF Verdicts
  <2>9. \A r \in Steers : Heard(r)' = IF r = s THEN 1 ELSE Heard(r)
    BY <1>1, <1>2, <2>7
  <2>10. Heard(s) = 0
    BY <1>1, <2>6
  <2>11. /\ b = [a EXCEPT ![s].heard = 1]
         /\ a[s].verdict \in {"open", "rejected"} /\ a[s].heard = 0
    BY <1>4, <2>2, <2>8, <2>9, <2>10
  <2>12. Corrections!Hear(s)
    BY <1>3, <2>11 DEF Corrections!Hear, Ledger
  <2>13. QED BY <2>12 DEF Corrections!CorrectionNext
<1>8. CASE ObservationSettles
  <2>1. provider' = provider
    BY <1>8 DEF ObservationSettles, Session
  <2>2. CASE turn'.verdict = turn.verdict
    BY <1>5, <2>1, <2>2
  <2>3. CASE \E s \in Steers :
               /\ turn.verdict[s] = "open" /\ HeardSteer(s)
               /\ \A r \in Steers :
                    turn'.verdict[r] = IF r = s THEN "injected" ELSE turn.verdict[r]
    <3>1. PICK s \in Steers :
            /\ turn.verdict[s] = "open" /\ HeardSteer(s)
            /\ \A r \in Steers : turn'.verdict[r] = IF r = s THEN "injected" ELSE turn.verdict[r]
      BY <2>3
    <3>2. Heard(s) = 1 /\ \A r \in Steers : Heard(r)' = Heard(r)
      BY <1>1, <2>1, <3>1 DEF Heard
    <3>3. b = [a EXCEPT ![s].verdict = "injected"] /\ a[s] = [heard |-> 1, verdict |-> "open"]
      BY <1>4, <3>1, <3>2
    <3>4. Corrections!Confirm(s)
      BY <1>3, <3>3 DEF Corrections!Confirm, Ledger
    <3>5. QED BY <3>4 DEF Corrections!CorrectionNext
  <2>4. QED BY <1>8, <2>2, <2>3, ObservationSettlesStep
<1>9. CASE Cancel \/ FailureSettles
  <2>1. provider' = provider
    BY <1>9 DEF Cancel, FailureSettles, Session
  <2>2. \A s \in Steers : /\ turn'.verdict[s] = IF turn.verdict[s] = "open" THEN "rejected"
                                                ELSE turn.verdict[s]
                          /\ Heard(s)' = Heard(s)
    BY <1>9, <2>1, GiveUpSteps DEF Heard
  <2>3. b = [s \in Steers |->
               IF a[s].verdict = "open" THEN [a[s] EXCEPT !.verdict = "rejected"] ELSE a[s]]
    BY <1>4, <2>2
  <2>4. Corrections!GiveUp
    BY <1>3, <2>3 DEF Corrections!GiveUp, Ledger
  <2>5. QED BY <2>4 DEF Corrections!CorrectionNext
<1>10. CASE UNCHANGED vars
  BY <1>5, <1>10 DEF vars
<1>11. QED BY <1>5, <1>6, <1>7, <1>8, <1>9, <1>10, LedgerRests

(***************************************************************************)
(* The steered session keeps the ledger's promise about each correction:   *)
(* the conversation hears it at most once, the user is told that it was    *)
(* injected only where it was heard, and what he was told stands.          *)
(***************************************************************************)
THEOREM SteeringImplementsCorrections == Spec => ImplementsCorrections
<1>1. Init => Corrections!CorrectionInit
  <2>1. SUFFICES ASSUME Init PROVE Corrections!CorrectionInit
    OBVIOUS
  <2>2. IInv /\ Len(provider.heard) = 0
    BY <2>1, InitIInv DEF Init
  <2>3. \A s \in Steers : Heard(s) = 0 /\ turn.verdict[s] = "unasked"
    <3>1. \A s \in Steers : ~HeardSteer(s)
      BY <2>2 DEF HeardSteer
    <3>2. QED BY <2>1, <2>2, <3>1, HeardOnce DEF HeardsOnce, Init, FreshTurn
  <2>4. QED BY <2>3 DEF Corrections!CorrectionInit
<1>2. IInv /\ IInv' /\ [Next]_vars => [Corrections!CorrectionNext]_Ledger
  BY LedgerStep
<1>3. QED BY <1>1, <1>2, Invariant, PTL
         DEF Spec, ImplementsCorrections, Corrections!CorrectionSpec, Ledger

-----------------------------------------------------------------------------
(***************************************************************************)
(* The account of success.  While a prompt waits and nothing has failed,   *)
(* every correction without an answer is in an operation or among the      *)
(* queued ones, so that a result that waits for both leaves none open.     *)
(***************************************************************************)
OpenInv(t) ==
  /\ Pending(t) /\ t.failure = "none" =>
       \A s \in Steers :
         /\ t.verdict[s] # "rejected"
         /\ t.verdict[s] = "open" => s \in t.ids \/ t.op[s] # "none"
  /\ t.result = "ok" => \A s \in Steers : t.verdict[s] \in {"unasked", "injected"}

\* Nobody's answer changes, and success waits for all of them.
Waits(t) == Pending(t) /\ t.failure = "none"
Follows(t, u) ==
  /\ u.verdict = t.verdict /\ u.op = t.op /\ u.ids = t.ids
  /\ Waits(u) => Waits(t)
  /\ u.result = "ok" => t.result = "ok" \/ (Waits(t) /\ InFlight(t) = {} /\ t.ids = {})

LEMMA FollowsItself == \A t : Follows(t, t)
BY DEF Follows

LEMMA FollowsSteps ==
  ASSUME NEW t, NEW u, NEW v, Follows(t, u), Follows(u, v)
  PROVE  Follows(t, v)
<1>1. InFlight(u) = InFlight(t)
  BY DEF Follows, InFlight
<1> QED BY <1>1 DEF Follows

LEMMA OpenFollows ==
  ASSUME NEW t \in TurnType, NEW u, OpenInv(t), Follows(t, u)
  PROVE  OpenInv(u)
<1>1. ASSUME u.result = "ok", NEW s \in Steers
      PROVE  u.verdict[s] \in {"unasked", "injected"}
  <2>1. CASE t.result = "ok"
    BY <2>1 DEF OpenInv, Follows
  <2>2. CASE Waits(t) /\ InFlight(t) = {} /\ t.ids = {}
    <3>1. t.op[s] = "none" /\ s \notin t.ids
      BY <2>2 DEF InFlight
    <3>2. t.verdict[s] # "rejected" /\ t.verdict[s] # "open"
      BY <2>2, <3>1 DEF OpenInv, Waits
    <3>3. t.verdict[s] \in Verdicts
      BY DEF TurnType
    <3> QED BY <3>2, <3>3 DEF Follows, Verdicts
  <2> QED BY <1>1, <2>1, <2>2 DEF Follows
<1>2. ASSUME Waits(u), NEW s \in Steers
      PROVE  u.verdict[s] # "rejected" /\ (u.verdict[s] = "open" => s \in u.ids \/ u.op[s] # "none")
  BY <1>2 DEF OpenInv, Follows, Waits
<1> QED BY <1>1, <1>2 DEF OpenInv, Waits

\* A turn that is over or has failed, with the answers it had
LEMMA OpenOver ==
  ASSUME NEW t, NEW u, OpenInv(t), ~Waits(u), u.verdict = t.verdict, u.result = "ok" => t.result = "ok"
  PROVE  OpenInv(u)
BY DEF OpenInv, Waits

Apart(t, u) ==
  u.verdict = t.verdict /\ u.op = t.op /\ u.ids = t.ids /\ u.result = t.result /\ u.failure = t.failure

LEMMA ApartFollows ==
  ASSUME NEW t, NEW u, Apart(t, u)
  PROVE  Follows(t, u)
BY DEF Apart, Follows, Waits, Pending

\* The operators of the turn follow this account.
LEMMA FailSteeringFollows ==
  ASSUME NEW t \in TurnType, NEW why \in Failures
  PROVE  /\ Follows(t, FailSteering(t, why))
         /\ FailSteering(t, why).verdict = t.verdict /\ FailSteering(t, why).result = t.result
         /\ why # "none" => FailSteering(t, why).failure # "none"
<1>1. CASE t.failure # "none"
  BY <1>1, FollowsItself DEF FailSteering
<1>2. CASE t.failure = "none"
  <2>1. PICK u : u = [t EXCEPT !.failure = why, !.failing = "block", !.polled = {}, !.timed = {}]
    OBVIOUS
  <2>2. /\ u.verdict = t.verdict /\ u.op = t.op /\ u.ids = t.ids /\ u.result = t.result
        /\ u.failure = why
    BY <2>1 DEF TurnType
  <2>3. Follows(t, u)
    BY <1>2, <2>2 DEF Follows, Waits, Pending
  <2> QED BY <1>2, <2>1, <2>2, <2>3 DEF FailSteering
<1> QED BY <1>1, <1>2

LEMMA FailResumeFollows ==
  ASSUME NEW t \in TurnType, NEW why \in Failures
  PROVE  Follows(t, FailResume(t, why))
<1>1. PICK result : result = IF Pending(t) THEN "failed" ELSE t.result
  OBVIOUS
<1>2. PICK failure : failure = IF t.failure = "none" THEN why ELSE t.failure
  OBVIOUS
<1>3. PICK u : u = [t EXCEPT !.child = FALSE, !.result = result, !.failure = failure]
  OBVIOUS
<1>4. FailResume(t, why) = u
  BY <1>1, <1>2, <1>3 DEF FailResume, TurnType
<1>5. u.verdict = t.verdict /\ u.op = t.op /\ u.ids = t.ids /\ u.result = result /\ u.failure = failure
  BY <1>3 DEF TurnType
<1>6. ~Pending(u)
  BY <1>1, <1>5 DEF Pending
<1>7. u.result = "ok" => t.result = "ok"
  BY <1>1, <1>5
<1> QED BY <1>4, <1>5, <1>6, <1>7 DEF Follows, Waits

LEMMA FailProviderEventFollows ==
  ASSUME NEW t \in TurnType, NEW why \in Failures
  PROVE  Follows(t, FailProviderEvent(t, why))
BY FailSteeringFollows, FailResumeFollows DEF FailProviderEvent

LEMMA MaybeFinishFollows ==
  ASSUME NEW t \in TurnType
  PROVE  Follows(t, MaybeFinish(t))
<1>1. CASE MaybeFinish(t) = t
  BY <1>1, FollowsItself
<1>2. CASE MaybeFinish(t) = FailSteering(t, "uncertain")
  BY <1>2, FailSteeringFollows DEF Failures
<1>3. CASE Pending(t) /\ t.failure = "none" /\ MaybeFinish(t) = [t EXCEPT !.result = "failed"]
  <2>1. PICK u : u = [t EXCEPT !.result = "failed"]
    OBVIOUS
  <2>2. u.verdict = t.verdict /\ u.op = t.op /\ u.ids = t.ids /\ u.result = "failed"
    BY <2>1 DEF TurnType
  <2>3. Follows(t, u)
    BY <2>2 DEF Follows, Waits, Pending
  <2> QED BY <1>3, <2>1, <2>3
<1>4. CASE /\ Pending(t) /\ t.failure = "none" /\ InFlight(t) = {} /\ t.ids = {}
           /\ MaybeFinish(t) = [t EXCEPT !.result = "ok", !.answer = t.segment]
  <2>1. PICK u : u = [t EXCEPT !.result = "ok", !.answer = t.segment]
    OBVIOUS
  <2>2. u.verdict = t.verdict /\ u.op = t.op /\ u.ids = t.ids /\ u.result = "ok"
    BY <2>1 DEF TurnType
  <2>3. Follows(t, u)
    BY <1>4, <2>2 DEF Follows, Waits, Pending
  <2> QED BY <1>4, <2>1, <2>3
<1> QED BY <1>1, <1>2, <1>3, <1>4 DEF MaybeFinish

LEMMA DeferFollows ==
  ASSUME NEW t \in TurnType, NEW frame
  PROVE  Follows(t, Defer(t, frame))
<1>1. CASE Len(t.deferred) >= DeferredLimit
  BY <1>1, FailProviderEventFollows DEF Defer, Failures
<1>2. CASE ~(Len(t.deferred) >= DeferredLimit)
  <2>1. PICK u : u = [t EXCEPT !.deferred = Append(t.deferred, frame)]
    OBVIOUS
  <2>2. Defer(t, frame) = u
    BY <1>2, <2>1 DEF Defer, TurnType
  <2>3. Apart(t, u)
    BY <2>1 DEF Apart, TurnType
  <2> QED BY <2>2, <2>3, ApartFollows
<1> QED BY <1>1, <1>2

LEMMA HandleInputFollows ==
  ASSUME NEW t \in TurnType, NEW step
  PROVE  Follows(t, HandleInput(t, step))
<1>1. CASE HandleInput(t, step) = FailSteering(t, "uncertain")
  BY <1>1, FailSteeringFollows DEF Failures
<1>2. CASE HandleInput(t, step) = [t EXCEPT !.input = step]
  <2>1. PICK u : u = [t EXCEPT !.input = step]
    OBVIOUS
  <2>2. Apart(t, u)
    BY <2>1 DEF Apart, TurnType
  <2> QED BY <1>2, <2>1, <2>2, ApartFollows
<1>3. CASE HandleInput(t, step) =
             [t EXCEPT !.observation = [at |-> "asked", step |-> step, steer |-> 0]]
  <2>1. PICK u : u = [t EXCEPT !.observation = [at |-> "asked", step |-> step, steer |-> 0]]
    OBVIOUS
  <2>2. Apart(t, u)
    BY <2>1 DEF Apart, TurnType
  <2> QED BY <1>3, <2>1, <2>2, ApartFollows
<1> QED BY <1>1, <1>2, <1>3 DEF HandleInput

LEMMA InterpretFollows ==
  ASSUME NEW t \in TurnType, NEW frame \in FrameType
  PROVE  Follows(t, Interpret(t, frame))
<1>1. CASE frame.kind = "input" /\ ~t.initialSeen
  <2>1. PICK u : u = [t EXCEPT !.initialSeen = TRUE]
    OBVIOUS
  <2>2. Interpret(t, frame) = u
    BY <1>1, <2>1 DEF Interpret
  <2>3. Apart(t, u)
    BY <2>1 DEF Apart, TurnType
  <2> QED BY <2>2, <2>3, ApartFollows
<1>2. CASE frame.kind = "input" /\ t.initialSeen
  <2>1. Interpret(t, frame) = HandleInput(t, frame.step)
    BY <1>2 DEF Interpret
  <2> QED BY <2>1, HandleInputFollows
<1>3. CASE frame.kind = "init"
  <2>1. Interpret(t, frame) = IF t.binding = "unbound" THEN [t EXCEPT !.binding = "binding"] ELSE t
    BY <1>3 DEF Interpret
  <2>2. PICK u : u = [t EXCEPT !.binding = "binding"]
    OBVIOUS
  <2>3. Apart(t, u)
    BY <2>2 DEF Apart, TurnType
  <2> QED BY <2>1, <2>2, <2>3, ApartFollows, FollowsItself
<1>4. CASE frame.kind = "text"
  <2>1. PICK u : u = [t EXCEPT !.segment = Append(t.segment, frame.after)]
    OBVIOUS
  <2>2. Interpret(t, frame) = u
    BY <1>4, <2>1 DEF Interpret, TurnType
  <2>3. Apart(t, u)
    BY <2>1 DEF Apart, TurnType
  <2> QED BY <2>2, <2>3, ApartFollows
<1>5. CASE frame.kind \in {"success", "error"}
  <2>1. PICK u : u = [t EXCEPT !.final = frame.kind]
    OBVIOUS
  <2>2. Interpret(t, frame) = MaybeFinish(u)
    BY <1>5, <2>1 DEF Interpret
  <2>3. u \in TurnType /\ Apart(t, u)
    BY <1>5, <2>1 DEF Apart, TurnType
  <2> QED BY <2>2, <2>3, ApartFollows, MaybeFinishFollows, FollowsSteps
<1> QED BY <1>1, <1>2, <1>3, <1>4, <1>5 DEF FrameType

LEMMA ProcessFollows ==
  ASSUME NEW t \in TurnType, NEW frame \in FrameType
  PROVE  Follows(t, Process(t, frame))
<1>1. CASE frame.kind # "init" /\ t.binding # "bound"
  <2>1. CASE Process(t, frame) = FailSteering(t, "uncertain")
    BY <2>1, FailSteeringFollows DEF Failures
  <2>2. CASE Process(t, frame) = Defer(t, frame)
    BY <2>2, DeferFollows
  <2> QED BY <1>1, <2>1, <2>2 DEF Process
<1>2. CASE ~(frame.kind # "init" /\ t.binding # "bound")
  <2>1. PICK mark \in Nat : mark = IF frame.step > t.watermark THEN frame.step ELSE t.watermark
    BY DEF TurnType, FrameType
  <2>2. PICK seen : seen = [t EXCEPT !.watermark = mark]
    OBVIOUS
  <2>3. seen \in TurnType /\ Apart(t, seen)
    BY <2>1, <2>2 DEF TurnType, Apart
  <2>4. seen = [t EXCEPT !.watermark = IF frame.step > @ THEN frame.step ELSE @]
    BY <2>1, <2>2 DEF TurnType
  <2>5. Process(t, frame) \in {Defer(seen, frame), Interpret(seen, frame)}
    BY <1>2, <2>4 DEF Process
  <2>6. Follows(seen, Process(t, frame))
    BY <2>3, <2>5, DeferFollows, InterpretFollows
  <2> QED BY <2>3, <2>6, ApartFollows, FollowsSteps
<1> QED BY <1>1, <1>2

LEMMA AgainFollows ==
  ASSUME NEW u \in TurnType, NEW frame \in FrameType, NEW cut \in BOOLEAN
  PROVE  /\ Again(u, frame, cut) \in TurnType
         /\ Follows(u, Again(u, frame, cut))
<1>1. Taken(u, Again(u, frame, cut), frame)
  BY AgainEffect
<1>2. Again(u, frame, cut) \in TurnType
  BY <1>1 DEF Taken, Still, Held, Opened, Handled, Keeps
<1>3. Again(u, frame, cut) \in {u, FailProviderEvent(u, "stream"), Process(u, frame)}
  BY DEF Again
<1>4. Follows(u, Again(u, frame, cut))
  <2>1. "stream" \in Failures
    BY DEF Failures
  <2>2. Follows(u, FailProviderEvent(u, "stream"))
    BY <2>1, FailProviderEventFollows
  <2> QED BY <1>3, <2>2, ProcessFollows, FollowsItself
<1> QED BY <1>2, <1>4

LEMMA ReplayFollows ==
  ASSUME NEW t \in TurnType, NEW cut \in BOOLEAN
  PROVE  Replay(t, cut) \in TurnType /\ Follows(t, Replay(t, cut))
<1>1. Len(t.deferred) \in Nat /\ t.deferred \in Seq(FrameType)
  BY HeldFrames
<1>2. PICK S : S = [i \in 0..Len(t.deferred) |-> {u \in TurnType : Follows(t, u)}]
  OBVIOUS
<1>3. [t EXCEPT !.deferred = <<>>] \in S[0]
  <2>1. PICK none \in Seq(FrameType) : none = <<>>
    BY EmptySeq
  <2>2. PICK u : u = [t EXCEPT !.deferred = none]
    OBVIOUS
  <2>3. u \in TurnType /\ Apart(t, u)
    BY <2>1, <2>2 DEF TurnType, Apart
  <2>4. u \in S[0]
    BY <1>1, <1>2, <2>3, ApartFollows
  <2> QED BY <2>1, <2>2, <2>4
<1>4. ASSUME NEW i \in 1..Len(t.deferred), NEW u \in S[i - 1]
      PROVE  Again(u, t.deferred[i], cut) \in S[i]
  <2>1. i \in 0..Len(t.deferred) /\ i - 1 \in 0..Len(t.deferred)
    BY <1>1
  <2>2. u \in TurnType /\ Follows(t, u)
    BY <1>2, <2>1
  <2>3. PICK frame \in FrameType : frame = t.deferred[i]
    BY <1>1
  <2>4. PICK v : v = Again(u, frame, cut)
    OBVIOUS
  <2>5. v \in TurnType /\ Follows(t, v)
    BY <2>2, <2>4, AgainFollows, FollowsSteps
  <2> QED BY <1>2, <2>1, <2>3, <2>4, <2>5
<1>5. Replay(t, cut) \in S[Len(t.deferred)]
  BY <1>3, <1>4, ReplayLoop
<1> QED BY <1>1, <1>2, <1>5

-----------------------------------------------------------------------------
(***************************************************************************)
(* The account of success is kept by every step.                           *)
(***************************************************************************)
LEMMA OpenApart ==
  ASSUME NEW t \in TurnType, NEW u, OpenInv(t), Apart(t, u)
  PROVE  OpenInv(u)
BY OpenFollows, ApartFollows

\* An operation that goes on
LEMMA OpenMoves ==
  ASSUME NEW t, NEW u, OpenInv(t), u.verdict = t.verdict, u.ids = t.ids,
         u.result = t.result, u.failure = t.failure,
         \A s \in Steers : t.op[s] # "none" => u.op[s] # "none"
  PROVE  OpenInv(u)
BY DEF OpenInv, Pending

LEMMA OpenSteer ==
  ASSUME turn \in TurnType, OpenInv(turn), NEW s \in Steers, Steer(s)
  PROVE  OpenInv(turn')
<1>1. /\ turn' = [turn EXCEPT !.verdict[s] = "open", !.op[s] = "waiting",
                              !.floor[s] = turn.watermark, !.asked = turn.asked + 1]
      /\ Pending(turn)
  BY DEF Steer, TurnType
<1>2. /\ turn'.result = turn.result /\ turn'.failure = turn.failure /\ turn'.ids = turn.ids
      /\ turn'.verdict = [turn.verdict EXCEPT ![s] = "open"]
      /\ turn'.op = [turn.op EXCEPT ![s] = "waiting"]
  BY <1>1 DEF TurnType
<1>3. /\ turn'.verdict[s] = "open" /\ turn'.op[s] = "waiting"
      /\ \A r \in Steers : r # s => turn'.verdict[r] = turn.verdict[r] /\ turn'.op[r] = turn.op[r]
  BY <1>2 DEF TurnType
<1> QED BY <1>1, <1>2, <1>3 DEF OpenInv, Pending

LEMMA OpenEnqueues ==
  ASSUME turn \in TurnType, OpenInv(turn), NEW s \in Steers,
         EnqueueState(s) \/ EnqueueRequest(s) \/ EnqueueFails(s)
  PROVE  OpenInv(turn')
<1>1. PICK place \in {"writing", "written", "failed"} : turn' = [turn EXCEPT !.op[s] = place]
  BY DEF EnqueueState, EnqueueRequest, EnqueueFails
<1>2. /\ turn'.result = turn.result /\ turn'.failure = turn.failure /\ turn'.ids = turn.ids
      /\ turn'.verdict = turn.verdict /\ turn'.op = [turn.op EXCEPT ![s] = place]
  BY <1>1 DEF TurnType
<1>3. \A r \in Steers : turn.op[r] # "none" => turn'.op[r] # "none"
  BY <1>1, <1>2 DEF TurnType
<1> QED BY <1>2, <1>3, OpenMoves

\* Two ways to rewrite a turn leave it well typed.
LEMMA AwaitedTurn ==
  ASSUME NEW t \in TurnType, NEW ids \in SUBSET Steers, NEW polled \in SUBSET Steers
  PROVE  [t EXCEPT !.ids = ids, !.polled = polled] \in TurnType
BY DEF TurnType

LEMMA AcknowledgedTurn ==
  ASSUME NEW t \in TurnType, NEW verdict \in [Steers -> Verdicts], NEW ids \in SUBSET Steers,
         NEW timed \in SUBSET Steers, NEW injected \in Nat, NEW segment \in Seq(Nat)
  PROVE  [t EXCEPT !.verdict = verdict, !.ids = ids, !.timed = timed, !.injected = injected,
                   !.segment = segment] \in TurnType
BY DEF TurnType

LEMMA OpenEnqueueSettles ==
  ASSUME turn \in TurnType, OpenInv(turn), NEW s \in Steers, EnqueueSettles(s)
  PROVE  OpenInv(turn')
<1>1. PICK t : t = [turn EXCEPT !.op[s] = "none"]
  OBVIOUS
<1>2. /\ t \in TurnType /\ t.result = turn.result /\ t.failure = turn.failure /\ t.ids = turn.ids
      /\ t.verdict = turn.verdict /\ t.op = [turn.op EXCEPT ![s] = "none"] /\ t.polled = turn.polled
  BY <1>1 DEF TurnType, OpPlaces
<1>3. PICK q : q = [t EXCEPT !.ids = t.ids \cup {s}, !.polled = t.polled \cup {s}]
  OBVIOUS
<1>4. turn' = IF turn.op[s] = "failed" THEN FailSteering(t, "uncertain")
              ELSE IF ~Pending(t) \/ t.failure # "none" THEN t
              ELSE MaybeFinish(q)
  <2>1. q = [t EXCEPT !.ids = @ \cup {s}, !.polled = @ \cup {s}]
    BY <1>2, <1>3 DEF TurnType
  <2> QED BY <1>1, <2>1 DEF EnqueueSettles
<1>5. CASE turn' = FailSteering(t, "uncertain")
  <2>1. turn'.verdict = turn.verdict /\ turn'.result = turn.result /\ turn'.failure # "none"
    BY <1>2, <1>5, FailSteeringFollows DEF Failures
  <2> QED BY <2>1, OpenOver DEF Waits
<1>6. CASE ~(Pending(t) /\ t.failure = "none") /\ turn' = t
  <2>1. ~Waits(t)
    BY <1>6 DEF Waits
  <2> QED BY <1>2, <1>6, <2>1, OpenOver
<1>7. CASE turn' = MaybeFinish(q)
  <2>1. /\ q \in TurnType /\ q.ids = turn.ids \cup {s} /\ q.op = t.op /\ q.verdict = turn.verdict
        /\ q.result = turn.result /\ q.failure = turn.failure
    <3>1. PICK ids \in SUBSET Steers, polled \in SUBSET Steers :
            ids = t.ids \cup {s} /\ polled = t.polled \cup {s}
      <4>1. t.ids \in SUBSET Steers /\ t.polled \in SUBSET Steers
        BY <1>2 DEF TurnType
      <4> QED BY <4>1
    <3>2. q = [t EXCEPT !.ids = ids, !.polled = polled]
      BY <1>3, <3>1
    <3>3. q \in TurnType
      BY <1>2, <3>1, <3>2, AwaitedTurn
    <3>4. q.ids = ids /\ q.op = t.op /\ q.verdict = t.verdict /\ q.result = t.result /\ q.failure = t.failure
      BY <1>2, <3>2 DEF TurnType
    <3> QED BY <1>2, <3>1, <3>3, <3>4
  <2>2. \A r \in Steers : r # s => q.op[r] = turn.op[r]
    BY <1>2, <2>1 DEF TurnType
  <2>3. OpenInv(q)
    BY <2>1, <2>2 DEF OpenInv, Pending
  <2> QED BY <1>7, <2>1, <2>3, MaybeFinishFollows, OpenFollows
<1> QED BY <1>4, <1>5, <1>6, <1>7

LEMMA OpenPolls ==
  ASSUME turn \in TurnType, OpenInv(turn), NEW s \in Steers,
         PollSeesClaim(s) \/ PollSeesInjected(s) \/ PollFails(s) \/ ClaimTimesOut(s)
  PROVE  OpenInv(turn')
<1>1. CASE PollSeesClaim(s)
  <2>1. turn' = [turn EXCEPT !.polled = turn.polled \ {s}, !.timed = turn.timed \cup {s}]
    BY <1>1 DEF PollSeesClaim, TurnType
  <2>2. Apart(turn, turn')
    BY <2>1 DEF Apart, TurnType
  <2> QED BY <2>2, OpenApart
<1>2. PICK t : t = [turn EXCEPT !.polled = turn.polled \ {s}]
  OBVIOUS
<1>3. t \in TurnType /\ Apart(turn, t)
  BY <1>2 DEF Apart, TurnType
<1>4. CASE PollSeesInjected(s)
  <2>1. turn' = t
    BY <1>2, <1>4 DEF PollSeesInjected, TurnType
  <2> QED BY <1>3, <2>1, OpenApart
<1>5. CASE PollFails(s)
  <2>1. turn' = FailSteering(t, "uncertain")
    BY <1>2, <1>5 DEF PollFails, TurnType
  <2>2. OpenInv(t) /\ Follows(t, turn')
    BY <1>3, <2>1, OpenApart, FailSteeringFollows DEF Failures
  <2> QED BY <1>3, <2>2, OpenFollows
<1>6. CASE ClaimTimesOut(s)
  <2>1. turn' = FailSteering(turn, "uncertain")
    BY <1>6 DEF ClaimTimesOut
  <2>2. Follows(turn, turn')
    BY <2>1, FailSteeringFollows DEF Failures
  <2> QED BY <2>2, OpenFollows
<1> QED BY <1>1, <1>4, <1>5, <1>6

LEMMA OpenInputs ==
  ASSUME turn \in TurnType, provider \in ProviderType, OpenInv(turn), Receive \/ RehandleInput
  PROVE  OpenInv(turn')
<1>1. CASE Receive
  <2>1. turn' = Process(turn, Head(provider.stdout)) /\ provider.stdout # <<>>
    BY <1>1 DEF Receive
  <2>2. Head(provider.stdout) \in FrameType
    <3>1. provider.stdout \in Seq(FrameType)
      BY DEF ProviderType
    <3> QED BY <2>1, <3>1, HeadTailProperties
  <2>3. Follows(turn, turn')
    BY <2>1, <2>2, ProcessFollows
  <2> QED BY <2>3, OpenFollows
<1>2. CASE RehandleInput
  <2>1. PICK t : t = [turn EXCEPT !.input = 0]
    OBVIOUS
  <2>2. t \in TurnType /\ Apart(turn, t)
    BY <2>1 DEF TurnType, Apart
  <2>3. turn' \in {t, HandleInput(t, turn.input)}
    BY <1>2, <2>1 DEF RehandleInput
  <2>4. OpenInv(t) /\ Follows(t, turn')
    BY <2>2, <2>3, OpenApart, FollowsItself, HandleInputFollows
  <2> QED BY <2>2, <2>4, OpenFollows
<1> QED BY <1>1, <1>2

LEMMA OpenBinds ==
  ASSUME turn \in TurnType, OpenInv(turn), Bind \/ BindFails
  PROVE  OpenInv(turn')
<1>1. CASE Bind
  <2>1. PICK t : t = [turn EXCEPT !.binding = "bound"]
    OBVIOUS
  <2>2. t \in TurnType /\ Apart(turn, t)
    BY <2>1 DEF TurnType, Apart
  <2>3. PICK cut \in Cuts : turn' = IF Pending(t) THEN MaybeFinish(Replay(t, cut)) ELSE t
    BY <1>1, <2>1 DEF Bind
  <2>4. cut \in BOOLEAN
    BY DEF Cuts
  <2>5. Replay(t, cut) \in TurnType /\ Follows(t, Replay(t, cut))
    BY <2>2, <2>4, ReplayFollows
  <2>6. Follows(t, MaybeFinish(Replay(t, cut)))
    BY <2>5, MaybeFinishFollows, FollowsSteps
  <2>7. OpenInv(t) /\ Follows(t, turn')
    BY <2>2, <2>3, <2>6, OpenApart, FollowsItself
  <2> QED BY <2>2, <2>7, OpenFollows
<1>2. CASE BindFails
  <2>1. PICK t : t = [turn EXCEPT !.binding = "failed"]
    OBVIOUS
  <2>2. t \in TurnType /\ Apart(turn, t)
    BY <2>1 DEF TurnType, Apart
  <2>3. turn' = FailProviderEvent(t, "uncertain")
    BY <1>2, <2>1 DEF BindFails
  <2>4. OpenInv(t) /\ Follows(t, turn')
    BY <2>2, <2>3, OpenApart, FailProviderEventFollows DEF Failures
  <2> QED BY <2>2, <2>4, OpenFollows
<1> QED BY <1>1, <1>2

LEMMA OpenObserves ==
  ASSUME turn \in TurnType, OpenInv(turn),
         ObserveRequest \/ ObserveState \/ ObserveFails \/ BlockSettles
  PROVE  OpenInv(turn')
<1>1. CASE ObserveRequest
  <2>1. turn' = [turn EXCEPT !.observation.at = "writing", !.observation.steer = bridge.active]
    BY <1>1 DEF ObserveRequest
  <2>2. Apart(turn, turn')
    BY <2>1 DEF Apart, TurnType
  <2> QED BY <2>2, OpenApart
<1>2. CASE ObserveState
  <2>1. turn' = [turn EXCEPT !.observation.at = "confirmed"]
    BY <1>2 DEF ObserveState
  <2>2. Apart(turn, turn')
    BY <2>1 DEF Apart, TurnType
  <2> QED BY <2>2, OpenApart
<1>3. CASE ObserveFails
  <2>1. turn' = [turn EXCEPT !.observation.at = "failed"]
    BY <1>3 DEF ObserveFails
  <2>2. Apart(turn, turn')
    BY <2>1 DEF Apart, TurnType
  <2> QED BY <2>2, OpenApart
<1>4. CASE BlockSettles
  <2>1. PICK binding : turn' = [turn EXCEPT !.failing = "stop", !.binding = binding]
    BY <1>4 DEF BlockSettles, TurnType
  <2>2. Apart(turn, turn')
    BY <2>1 DEF Apart, TurnType
  <2> QED BY <2>2, OpenApart
<1> QED BY <1>1, <1>2, <1>3, <1>4

LEMMA OpenObservationSettles ==
  ASSUME turn \in TurnType, OpenInv(turn), ObservationSettles
  PROVE  OpenInv(turn')
<1>1. PICK t : t = [turn EXCEPT !.observation = NoObservation]
  OBVIOUS
<1>2. t \in TurnType /\ Apart(turn, t)
  BY <1>1, NoObservationType DEF TurnType, Apart
<1>3. OpenInv(t)
  BY <1>2, OpenApart
<1>4. PICK s : s = turn.observation.steer
  OBVIOUS
<1>5. PICK cut \in Cuts :
        turn' = IF turn.observation.at = "failed" THEN FailSteering(t, "uncertain")
                ELSE IF ~Pending(t) \/ t.failure # "none" THEN t
                ELSE IF s \notin t.ids THEN FailSteering(t, "uncertain")
                ELSE MaybeFinish(Replay(Acknowledged(t, s), cut))
  BY <1>1, <1>4 DEF ObservationSettles
<1>6. CASE turn' = t \/ turn' = FailSteering(t, "uncertain")
  <2>1. Follows(t, turn')
    BY <1>2, <1>6, FollowsItself, FailSteeringFollows DEF Failures
  <2> QED BY <1>2, <1>3, <2>1, OpenFollows
<1>7. CASE Pending(t) /\ s \in t.ids /\ turn' = MaybeFinish(Replay(Acknowledged(t, s), cut))
  <2>1. s \in Steers
    BY <1>2, <1>7 DEF TurnType
  <2>2. PICK u : u = [t EXCEPT !.verdict[s] = "injected", !.ids = t.ids \ {s}, !.timed = t.timed \ {s},
                              !.injected = t.injected + 1, !.segment = <<>>]
    OBVIOUS
  <2>3. u = Acknowledged(t, s)
    BY <1>2, <2>2 DEF Acknowledged, TurnType
  <2>4. /\ u.verdict = [t.verdict EXCEPT ![s] = "injected"] /\ u.ids = t.ids \ {s} /\ u.op = t.op
        /\ u.result = t.result /\ u.failure = t.failure
    BY <1>2, <2>2 DEF TurnType
  <2>5. u \in TurnType
    <3>0. t.ids \in SUBSET Steers /\ t.timed \in SUBSET Steers /\ t.injected \in Nat
      BY <1>2 DEF TurnType
    <3>1. <<>> \in Seq(Nat) /\ "injected" \in Verdicts
      BY EmptySeq DEF Verdicts
    <3>2. PICK verdict \in [Steers -> Verdicts] : verdict = [t.verdict EXCEPT ![s] = "injected"]
      <4>1. t.verdict \in [Steers -> Verdicts]
        BY <1>2 DEF TurnType
      <4> QED BY <2>1, <3>1, <4>1
    <3>3. PICK ids \in SUBSET Steers : ids = t.ids \ {s}
      BY <3>0
    <3>4. PICK timed \in SUBSET Steers : timed = t.timed \ {s}
      BY <3>0
    <3>5. PICK injected \in Nat : injected = t.injected + 1
      BY <3>0
    <3>6. PICK segment \in Seq(Nat) : segment = <<>>
      BY <3>1
    <3>7. u = [t EXCEPT !.verdict = verdict, !.ids = ids, !.timed = timed, !.injected = injected,
                        !.segment = segment]
      BY <2>2, <3>2, <3>3, <3>4, <3>5, <3>6
    <3> QED BY <1>2, <3>2, <3>3, <3>4, <3>5, <3>6, <3>7, AcknowledgedTurn
  <2>6. /\ u.verdict[s] = "injected"
        /\ \A r \in Steers : r # s => u.verdict[r] = t.verdict[r]
    BY <1>2, <2>1, <2>4 DEF TurnType
  <2>7. OpenInv(u)
    BY <1>3, <1>7, <2>4, <2>6 DEF OpenInv, Pending
  <2>8. cut \in BOOLEAN
    BY DEF Cuts
  <2>9. Replay(u, cut) \in TurnType /\ Follows(u, Replay(u, cut))
    BY <2>5, <2>8, ReplayFollows
  <2>10. Follows(u, MaybeFinish(Replay(u, cut)))
    BY <2>9, MaybeFinishFollows, FollowsSteps
  <2> QED BY <1>7, <2>3, <2>5, <2>7, <2>10, OpenFollows
<1> QED BY <1>5, <1>6, <1>7

\* Nobody waits any more: only open corrections are refused.
LEMMA OpenRejects ==
  ASSUME NEW t \in TurnType, NEW u, t.result = "ok" => \A s \in Steers : t.verdict[s] \in {"unasked", "injected"},
         u.verdict = [s \in Steers |-> IF t.verdict[s] = "open" THEN "rejected" ELSE t.verdict[s]],
         u.result = "ok" => t.result = "ok", ~Pending(u)
  PROVE  OpenInv(u)
BY DEF OpenInv

LEMMA OpenGivesUp ==
  ASSUME turn \in TurnType, OpenInv(turn), FailureSettles \/ Cancel
  PROVE  OpenInv(turn')
<1>0. PICK verdict :
        verdict = [s \in Steers |-> IF turn.verdict[s] = "open" THEN "rejected" ELSE turn.verdict[s]]
  OBVIOUS
<1>1. turn.result = "ok" => \A s \in Steers : turn.verdict[s] \in {"unasked", "injected"}
  BY DEF OpenInv
<1>2. CASE FailureSettles
  <2>1. PICK t : t = [turn EXCEPT !.failing = "done", !.child = FALSE]
    OBVIOUS
  <2>2. t \in TurnType /\ t.verdict = turn.verdict /\ t.result = turn.result
    BY <2>1 DEF TurnType
  <2>3. PICK u : u = RejectWaiters(t)
    OBVIOUS
  <2>4. u = [t EXCEPT !.verdict = verdict, !.ids = {}, !.polled = {}, !.timed = {}]
    BY <1>0, <2>2, <2>3 DEF RejectWaiters
  <2>5. u.verdict = verdict /\ u.result = turn.result
    BY <2>2, <2>4 DEF TurnType
  <2>6. turn' = IF Pending(u) THEN [u EXCEPT !.result = "failed"] ELSE u
    BY <1>2, <2>1, <2>3 DEF FailureSettles
  <2>7. PICK v : v = [u EXCEPT !.result = "failed"]
    OBVIOUS
  <2>8. v.verdict = verdict /\ v.result = "failed"
    BY <2>2, <2>4, <2>7 DEF TurnType
  <2>9. turn'.verdict = verdict /\ ~Pending(turn') /\ (turn'.result = "ok" => turn.result = "ok")
    BY <2>5, <2>6, <2>7, <2>8 DEF Pending
  <2> QED BY <1>0, <1>1, <2>9, OpenRejects
<1>3. CASE Cancel
  <2>1. PICK t : t = [turn EXCEPT !.result = "cancelled", !.child = FALSE]
    OBVIOUS
  <2>2. t \in TurnType /\ t.verdict = turn.verdict /\ t.result = "cancelled"
    BY <2>1 DEF TurnType
  <2>3. turn' = [t EXCEPT !.verdict = verdict, !.ids = {}, !.polled = {}, !.timed = {}]
    BY <1>0, <1>3, <2>1, <2>2 DEF Cancel, RejectWaiters
  <2>4. turn'.verdict = verdict /\ turn'.result = "cancelled"
    BY <2>2, <2>3 DEF TurnType
  <2> QED BY <1>0, <1>1, <2>4, OpenRejects DEF Pending
<1> QED BY <1>2, <1>3

LEMMA OpenChild ==
  ASSUME turn \in TurnType, OpenInv(turn), ChildFails \/ ChildCloses
  PROVE  OpenInv(turn')
<1>1. CASE ChildFails
  <2>1. turn' \in {FailSteering(turn, "uncertain"), FailResume(turn, "uncertain")}
    BY <1>1 DEF ChildFails
  <2>2. Follows(turn, turn')
    BY <2>1, FailSteeringFollows, FailResumeFollows DEF Failures
  <2> QED BY <2>2, OpenFollows
<1>2. CASE ChildCloses
  <2>1. PICK t : t = [turn EXCEPT !.child = FALSE]
    OBVIOUS
  <2>2. t \in TurnType /\ Apart(turn, t)
    BY <2>1 DEF TurnType, Apart
  <2>3. turn' \in {t, FailSteering(t, "uncertain"), FailResume(t, "uncertain")}
    BY <1>2, <2>1 DEF ChildCloses
  <2>4. OpenInv(t) /\ Follows(t, turn')
    BY <2>2, <2>3, OpenApart, FollowsItself, FailSteeringFollows, FailResumeFollows DEF Failures
  <2> QED BY <2>2, <2>4, OpenFollows
<1> QED BY <1>1, <1>2

LEMMA OpenNextPrompt ==
  ASSUME turn \in TurnType, OpenInv(turn), NextPrompt
  PROVE  OpenInv(turn')
<1>1. /\ turn.result = "ok"
      /\ turn' = FreshTurn(turn.number + 1, turn.binding, turn.watermark, turn.verdict)
  BY DEF NextPrompt
<1>2. turn'.verdict = turn.verdict /\ turn'.result = "none"
  BY <1>1 DEF FreshTurn
<1>3. \A s \in Steers : turn.verdict[s] \in {"unasked", "injected"}
  BY <1>1 DEF OpenInv
<1> QED BY <1>2, <1>3 DEF OpenInv

LEMMA InitOpen == Init => OpenInv(turn)
<1> SUFFICES ASSUME Init PROVE OpenInv(turn)
  OBVIOUS
<1>1. turn.result = "none" /\ turn.verdict = [s \in Steers |-> "unasked"]
  BY DEF Init, FreshTurn
<1> QED BY <1>1 DEF OpenInv

LEMMA NextOpen ==
  ASSUME Types, OpenInv(turn), [Next]_vars
  PROVE  OpenInv(turn')
<1>0. turn \in TurnType /\ provider \in ProviderType
  BY DEF Types
<1>1. CASE turn' = turn
  BY <1>1
<1>2. CASE \E s \in Steers : Steer(s) \/ SteerWork(s)
  <2>1. PICK s \in Steers : Steer(s) \/ SteerWork(s)
    BY <1>2
  <2> QED BY <1>0, <2>1, OpenSteer, OpenEnqueues, OpenEnqueueSettles, OpenPolls DEF SteerWork
<1>3. CASE SessionWork
  BY <1>0, <1>3, OpenInputs, OpenBinds, OpenObserves, OpenObservationSettles, OpenGivesUp, OpenChild
     DEF SessionWork
<1>4. CASE Cancel \/ ChildFails \/ NextPrompt
  BY <1>0, <1>4, OpenGivesUp, OpenChild, OpenNextPrompt
<1>5. CASE \E h \in Hooks : HookWork(h) \/ HookDeath(h) \/ ProviderWork(h)
  <2>1. turn' = turn
    BY <1>5 DEF HookWork, HookDeath, ProviderWork, ProviderRunsHook, ProviderInjects
  <2> QED BY <1>1, <2>1
<1>6. CASE ProviderOpens \/ ProviderTakesPrompt \/ ProviderWrites \/ ProviderEnds \/ ProviderExits
  <2>1. turn' = turn
    BY <1>6 DEF ProviderOpens, ProviderTakesPrompt, ProviderWrites, ProviderEnds, ProviderExits,
                ProviderOnly
  <2> QED BY <1>1, <2>1
<1> QED BY <1>1, <1>2, <1>3, <1>4, <1>5, <1>6 DEF Next, vars

(***************************************************************************)
(* A turn that succeeds has had every correction the user asked for        *)
(* confirmed, whatever the provider, the hook, the lock and the disk do.   *)
(***************************************************************************)
THEOREM SuccessConfirmed == Spec => []SuccessIsConfirmed
<1>1. IInv => Types
  BY DEF IInv
<1>2. Init => OpenInv(turn)
  BY InitOpen
<1>3. Types /\ OpenInv(turn) /\ [Next]_vars => OpenInv(turn)'
  BY NextOpen
<1>4. OpenInv(turn) => SuccessIsConfirmed
  BY DEF OpenInv, SuccessIsConfirmed
<1> QED BY <1>1, <1>2, <1>3, <1>4, Invariant, PTL DEF Spec
====
