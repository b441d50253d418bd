------------------------ MODULE ChannelProviderProofs ------------------------
(***************************************************************************)
(* What the turns of a channel guarantee together: one provider at a time, *)
(* behind a blocked record and a settled outbox, and one conversation.     *)
(***************************************************************************)
EXTENDS ChannelTurnProofs

-----------------------------------------------------------------------------
(***************************************************************************)
(* A reconciliation restores readiness on a proof gathered awaits earlier. *)
(* The proof is sound as long as nothing else can change the channel       *)
(* meanwhile: the reads and writes of the record succeed, or one adapter   *)
(* alone serves the channel.  A run of channel_stale_proof shows what      *)
(* happens otherwise.                                                      *)
(***************************************************************************)
Reliable == Faults = {} \/ \A a, b \in Adapters : a = b

\* The turn may restore readiness.
Proved(s) == At(s, "reconcile") \/ (At(s, "load") /\ turn[s].directProviderRetired)

\* The turn waits for a child it has asked to stop, to restore readiness after.
Retiring(s) == turn[s].pc \in {"cancelRetire", "recoverRetire"}

\* Nothing of the turn's answer is unsettled.
Unsent == {"provider", "retiring", "staging", "beginning", "saving"}

\* No work on the channel is under way, nor any other claim to its block.
Clear(s) ==
  /\ orphans = 0
  /\ \A t \in Sessions : ~Running(t) /\ outbox[t] = "none" /\ (Flagged(t) => t = s)

BlockInv ==
  /\ orphans \in {0, 1}
  /\ orphans > 0 \/ (\E s \in Sessions : Running(s)) => rec.status = "blocked"
  /\ rec.status # "blocked" => \A s \in Sessions : outbox[s] = "none"

ProofInv(s) ==
  /\ Started(s) => orphans = 0 /\ \A t \in Sessions : Flagged(t) => AdapterOf[t] = AdapterOf[s]
  /\ Flagged(s) => Clear(s) /\ (Faults = {} => rec.status = "blocked" \/ At(s, "reload"))
  /\ Proved(s) => Clear(s) /\ Owner(s)
  /\ Retiring(s) => \A t \in Sessions : outbox[t] = "none"
  /\ turn[s].pc \in Work => \A t \in Sessions : outbox[t] # "none" => t = s
  /\ turn[s].pc \in Unsent => outbox[s] = "none"
  /\ turn[s].pc \in Preflight => ~turn[s].directProviderRetired

GInv == BlockInv /\ \A s \in Sessions : ProofInv(s)

LEMMA GInvInit == Init => GInv
<1> SUFFICES ASSUME Init PROVE GInv
  OBVIOUS
<1>1. \A s \in Sessions : /\ turn[s].pc = "idle" /\ prov[s] = "none" /\ ~Started(s)
                          /\ ~Flagged(s) /\ outbox[s] = "none"
  BY NewTypes, Names DEF Init, NewEntry, Started, Flagged
<1>2. orphans = 0 BY DEF Init
<1>3. BlockInv BY <1>1, <1>2 DEF BlockInv, Running
<1>4. ASSUME NEW s \in Sessions PROVE ProofInv(s)
  BY <1>1 DEF ProofInv, Proved, Retiring, Work, Unsent, Preflight, At
<1>5. QED BY <1>3, <1>4 DEF GInv

-----------------------------------------------------------------------------
(***************************************************************************)
(* Steps that start nothing.                                               *)
(***************************************************************************)
\* What running work and claims may become in a step that starts neither
Calmer(x) ==
  /\ Running(x)' => Running(x)
  /\ Started(x)' => Started(x)
  /\ Flagged(x)' => Flagged(x)

\* What the turn of x must have by the end of such a step
Backed(x) ==
  /\ Proved(x)' => Clear(x) /\ Owner(x)'
  /\ Retiring(x)' => \A t \in Sessions : outbox[t] = "none"
  /\ turn'[x].pc \in Work => turn[x].pc \in Work
  /\ turn'[x].pc \in Unsent => outbox[x] = "none"
  /\ turn'[x].pc \in Preflight => ~turn'[x].directProviderRetired
  /\ Faults = {} /\ Flagged(x)' => rec.status = "blocked" \/ At(x, "reload")'

LEMMA CalmStep ==
  ASSUME TypeOK, TypeOK', GInv, orphans' <= orphans, rec'.status = rec.status,
         \A x \in Sessions : Calmer(x) /\ Backed(x) /\ (outbox'[x] # "none" => outbox[x] # "none")
  PROVE  GInv'
<1>1. orphans \in Nat /\ orphans' \in Nat BY DEF TypeOK
<1>2. BlockInv'
  <2>1. orphans' \in {0, 1} BY <1>1 DEF GInv, BlockInv
  <2>2. orphans' > 0 => orphans > 0 BY <1>1
  <2>3. QED BY <2>1, <2>2 DEF GInv, BlockInv, Calmer
<1>3. \A x \in Sessions : Clear(x) => Clear(x)'
  BY <1>1 DEF Clear, Calmer
<1>4. ASSUME NEW x \in Sessions PROVE ProofInv(x)'
  <2>1. ProofInv(x) /\ Calmer(x) /\ Backed(x) /\ (outbox'[x] # "none" => outbox[x] # "none")
    BY DEF GInv
  <2>2. Started(x)' => orphans' = 0 /\ \A t \in Sessions : Flagged(t)' => AdapterOf[t] = AdapterOf[x]
    BY <1>1, <2>1 DEF ProofInv, Calmer
  <2>3. Flagged(x)' => Clear(x)' /\ (Faults = {} => rec'.status = "blocked" \/ At(x, "reload")')
    BY <1>3, <2>1 DEF ProofInv, Calmer, Backed
  <2>4. Proved(x)' => Clear(x)' /\ Owner(x)'
    BY <1>3, <2>1 DEF Backed
  <2>5. Retiring(x)' => \A t \in Sessions : outbox'[t] = "none"
    BY <2>1 DEF Backed
  <2>6. turn'[x].pc \in Work => \A t \in Sessions : outbox'[t] # "none" => t = x
    BY <2>1 DEF ProofInv, Backed
  <2>7. /\ turn'[x].pc \in Unsent => outbox'[x] = "none"
        /\ turn'[x].pc \in Preflight => ~turn'[x].directProviderRetired
    BY <2>1 DEF Backed
  <2>8. QED BY <2>2, <2>3, <2>4, <2>5, <2>6, <2>7 DEF ProofInv
<1>5. QED BY <1>2, <1>4 DEF GInv

\* The lease of another adapter is out of reach.
LeaseKept(a) ==
  /\ lock' = lock \/ {lock, lock'} \subseteq {a, "free"}
  /\ \A b \in Adapters \ {a} : owns'[b] = owns[b]

LEMMA OthersBacked ==
  ASSUME IInv, GInv, NEW s \in Sessions, Active(s), SameTurns(s), LeaseKept(AdapterOf[s]),
         NEW x \in Sessions \ {s}, Calmer(x)
  PROVE  Backed(x)
<1>1. turn'[x] = turn[x] /\ ProofInv(x) BY DEF SameTurns, GInv
<1>2. Proved(x) => Owner(x)'
  <2>1. SUFFICES ASSUME Proved(x) PROVE Owner(x)'
    OBVIOUS
  <2>2. Clear(x) /\ Owner(x) BY <1>1, <2>1 DEF ProofInv
  <2>3. AdapterOf[x] # AdapterOf[s]
    <3>1. Active(x) BY <2>1 DEF Proved, At, Active
    <3>2. QED BY <3>1, MatesIdle DEF Mates
  <2>4. QED BY <2>2, <2>3, Names DEF LeaseKept, Owner
<1>3. QED BY <1>1, <1>2 DEF Backed, ProofInv, Proved, Retiring, At, Calmer

\* A step of one turn that starts nothing
LEMMA CalmTurn ==
  ASSUME IInv, TypeOK', GInv, NEW s \in Sessions, Active(s), SameTurns(s),
         LeaseKept(AdapterOf[s]), UNCHANGED <<outbox, orphans>>, rec'.status = rec.status,
         \A x \in Sessions : Calmer(x),
         Backed(s)
  PROVE  GInv'
<1>1. \A x \in Sessions : Backed(x) BY OthersBacked
<1>2. orphans' <= orphans BY DEF IInv, TypeOK
<1>3. QED BY <1>1, <1>2, CalmStep DEF IInv

\* Taking the lease concerns no other adapter.
LEMMA EnsureKeepsLease ==
  ASSUME TypeOK, NEW a \in Adapters, EnsureOwnership(a) \/ UNCHANGED <<lock, owns>>
  PROVE  LeaseKept(a)
  BY DEF EnsureOwnership, LeaseKept, TypeOK

LEMMA RefuseCalm ==
  ASSUME IInv, TypeOK', GInv, NEW s \in Sessions, Active(s),
         NEW t \in TurnType, NEW entries \in [Sessions -> EntryType], NEW live \in BOOLEAN,
         Refuse(s, t, entries, live),
         UNCHANGED <<outbox, orphans, prov>>, rec'.status = rec.status,
         EnsureOwnership(AdapterOf[s]) \/ UNCHANGED <<lock, owns>>,
         \A x \in Sessions :
           /\ entries[x].providerEverStarted = entry[x].providerEverStarted
           /\ entries[x].blockCreatedByThisParent => entry[x].blockCreatedByThisParent,
         Faults = {} /\ entries[s].blockCreatedByThisParent /\ Flagged(s)
           => rec.status = "blocked"
  PROVE  GInv'
<1>1. TypeOK /\ AdapterOf[s] \in Adapters /\ LeaseKept(AdapterOf[s])
  BY Names, EnsureKeepsLease DEF IInv
<1>2. entry' = entries /\ SameTurns(s) /\ turn'[s].pc \in {"idle", "releasing"}
  BY <1>1, MatesIdle, RefuseEffect DEF GoesReleasing, Unwound
<1>3. \A x \in Sessions : Calmer(x)
  BY <1>2 DEF Calmer, Running, Started, Flagged
<1>4. Backed(s)
  BY <1>2 DEF Backed, Proved, Retiring, At, Work, Unsent, Preflight, Flagged, Started
<1>5. QED BY <1>1, <1>2, <1>3, <1>4, CalmTurn

LEMMA JustRefuseCalm ==
  ASSUME IInv, TypeOK', GInv, NEW s \in Sessions, Active(s),
         Faults = {} => ~At(s, "reload"),
         JustRefuse(s)
  PROVE  GInv'
<1>1. /\ turn[s] \in TurnType /\ entry \in [Sessions -> EntryType]
      /\ liveBlock[AdapterOf[s]] \in BOOLEAN
  BY Names DEF IInv, TypeOK
<1>2. Faults = {} /\ Flagged(s) => rec.status = "blocked"
  BY DEF GInv, ProofInv
<1>3. /\ UNCHANGED <<outbox, orphans, prov>> /\ rec' = rec /\ UNCHANGED <<lock, owns>>
      /\ Refuse(s, turn[s], entry, liveBlock[AdapterOf[s]])
  BY DEF JustRefuse, durable, providers
<1>4. QED BY <1>1, <1>2, <1>3, RefuseCalm

LEMMA LeaseRefuseCalm ==
  ASSUME IInv, TypeOK', GInv, NEW s \in Sessions, Active(s), ~At(s, "reload"),
         EnsureOwnership(AdapterOf[s]), UNCHANGED <<durable, closing, providers>>,
         Refuse(s, turn[s], entry, liveBlock[AdapterOf[s]])
  PROVE  GInv'
<1>1. /\ turn[s] \in TurnType /\ entry \in [Sessions -> EntryType]
      /\ liveBlock[AdapterOf[s]] \in BOOLEAN
  BY Names DEF IInv, TypeOK
<1>2. Faults = {} /\ Flagged(s) => rec.status = "blocked"
  BY DEF GInv, ProofInv
<1>3. UNCHANGED <<outbox, orphans, prov>> /\ rec' = rec
  BY DEF durable, providers
<1>4. QED BY <1>1, <1>2, <1>3, RefuseCalm

\* A turn that goes on within its preflight or its work
LEMMA GoOnCalm ==
  ASSUME IInv, TypeOK', GInv, NEW s \in Sessions, Active(s), SameTurns(s),
         UNCHANGED <<outbox, orphans>>, rec'.status = rec.status, entry' = entry,
         EnsureOwnership(AdapterOf[s]) \/ UNCHANGED <<lock, owns>>,
         \A x \in Sessions : Running(x)' => Running(x),
         At(s, "reload") => At(s, "reload")',
         Proved(s)' => Clear(s) /\ Owner(s)',
         Retiring(s)' => \A t \in Sessions : outbox[t] = "none",
         turn'[s].pc \in Work => turn[s].pc \in Work,
         turn'[s].pc \in Unsent => outbox[s] = "none",
         turn'[s].pc \in Preflight => ~turn'[s].directProviderRetired
  PROVE  GInv'
<1>1. TypeOK /\ AdapterOf[s] \in Adapters /\ LeaseKept(AdapterOf[s])
  BY Names, EnsureKeepsLease DEF IInv
<1>2. \A x \in Sessions : Calmer(x)
  BY DEF Calmer, Started, Flagged
<1>3. Backed(s)
  BY DEF Backed, GInv, ProofInv, Flagged, Started
<1>4. QED BY <1>1, <1>2, <1>3, CalmTurn

LEMMA PinnedCalm ==
  ASSUME IInv, TypeOK', GInv, NEW s \in Sessions, turn[s].pc \in Preflight,
         NEW t \in TurnType, Pinned(s, t),
         t.directProviderRetired => Clear(s) /\ Owner(s)
  PROVE  GInv'
<1> DEFINE pc == IF entry[s].needsReplacement THEN "recoverScan" ELSE "load"
<1>1. TypeOK /\ Active(s) BY DEF IInv, Active, Preflight
<1>2. turn'[s] = [t EXCEPT !.pc = pc] /\ SameTurns(s)
  BY <1>1 DEF Pinned, TypeOK, SameTurns
<1>3. turn'[s].pc \in {"recoverScan", "load"}
      /\ (turn'[s].directProviderRetired => t.directProviderRetired)
  BY <1>2 DEF TurnType
<1>4. UNCHANGED <<outbox, orphans, rec, lock, owns, entry, prov>>
  BY DEF Pinned, durable, providers
<1>5. /\ Proved(s)' => Clear(s) /\ Owner(s)'
      /\ ~Retiring(s)' /\ turn'[s].pc \notin Work \cup Unsent \cup Preflight
  BY <1>3, <1>4 DEF Proved, At, Owner, Retiring, Work, Unsent, Preflight
<1>6. \A x \in Sessions : Running(x)' => Running(x) BY <1>4 DEF Running
<1>7. ~At(s, "reload") BY DEF At, Preflight
<1>8. QED BY <1>1, <1>2, <1>4, <1>5, <1>6, <1>7, GoOnCalm

-----------------------------------------------------------------------------
(***************************************************************************)
(* A turn that has the lease is the only one to act on the channel.        *)
(***************************************************************************)
LEMMA Sole ==
  ASSUME IInv, GInv, NEW s \in Sessions, Active(s), Owner(s), NEW x \in Sessions \ {s}
  PROVE  /\ ~Proved(x) /\ ~Retiring(x) /\ turn[x].pc \notin Work
         /\ Started(x) => x \in Mates(s) \ {s}
         /\ Running(x) => x \in Mates(s) \ {s} /\ Started(x) /\ pin[AdapterOf[s]] = x
<1>1. /\ LeaseTurnInv(x) /\ WorkInv(x) /\ EntryInv(x) /\ PinInv(x) /\ ProofInv(x)
  BY Context DEF GInv
<1>2. Owner(x) => x \in Mates(s) \ {s} /\ ~Active(x)
  BY MatesIdle DEF Owner, Mates
<1>3. ~Proved(x)
  BY <1>1, <1>2 DEF ProofInv, Proved, At, Active
<1>4. ~Retiring(x)
  BY <1>1, <1>2 DEF Retiring, LeaseTurnInv, Holding, WorkInv, EntryInv, Active
<1>5. turn[x].pc \notin Work
  BY <1>1, <1>2 DEF LeaseTurnInv, Holding, Work, Active
<1>6. (Started(x) => x \in Mates(s) \ {s}) /\ (Running(x) => Started(x))
  BY <1>1, <1>2 DEF EntryInv, Running
<1>7. Running(x) => pin[AdapterOf[s]] = x
  BY <1>1, <1>6 DEF PinInv, Mates
<1>8. QED BY <1>3, <1>4, <1>5, <1>6, <1>7

\* Once the last provider of the channel has exited, and nothing is unsettled
LEMMA ClearNow ==
  ASSUME IInv, GInv, NEW s \in Sessions, Active(s), Owner(s),
         NEW x \in Mates(s), Started(x), ~Running(x), ~Flagged(s) \/ x = s, ~Running(s),
         pin[AdapterOf[s]] \in {x, s, "none"},
         \A t \in Sessions : outbox[t] = "none"
  PROVE  Clear(s)
<1>1. x \in Sessions /\ AdapterOf[x] = AdapterOf[s] BY DEF Mates
<1>2. orphans = 0 /\ \A t \in Sessions : Flagged(t) => AdapterOf[t] = AdapterOf[s]
  BY <1>1 DEF GInv, ProofInv
<1>3. ASSUME NEW t \in Sessions PROVE ~Running(t) /\ (Flagged(t) => t = s)
  <2>1. Running(t) => t = s \/ pin[AdapterOf[s]] = t BY Sole
  <2>2. Flagged(t) => pin[AdapterOf[s]] = t
    BY <1>2, Context DEF PinInv
  <2>3. t # "none" BY Names
  <2>4. QED BY <2>1, <2>2, <2>3 DEF Flagged
<1>4. QED BY <1>2, <1>3 DEF Clear

LEMMA SettledMeans ==
  ASSUME TypeOK, NEW s \in Sessions, ~RefusesReconciliation(s)
  PROVE  \A t \in Sessions : outbox[t] = "none"
  BY DEF TypeOK, RefusesReconciliation, Unsettled

-----------------------------------------------------------------------------
(***************************************************************************)
(* Deciding, retiring, loading.                                            *)
(***************************************************************************)
LEMMA IdentityCalm ==
  ASSUME IInv, TypeOK', GInv, NEW s \in Sessions, Identity(s)
  PROVE  GInv'
<1>1. TypeOK /\ turn[s] \in TurnType /\ ProofInv(s) BY Context DEF GInv
<1>2. turn[s].pc = "identity" /\ Active(s) BY DEF Identity, At, Active
<1>3. ~turn[s].directProviderRetired BY <1>1, <1>2 DEF ProofInv, Preflight
<1>4. CASE JustRefuse(s)
  BY <1>2, <1>4, JustRefuseCalm DEF At
<1>5. CASE Pinned(s, turn[s])
  BY <1>1, <1>2, <1>3, <1>5, PinnedCalm DEF Preflight
<1>6. ASSUME NEW pc \in {"cancelLoad", "deliveryScan"}, NEW x,
             turn' = [turn EXCEPT ![s].existing = x, ![s].pc = pc],
             UNCHANGED <<durable, lock, owns, pin, liveBlock, closing, entry, providers>>
      PROVE  GInv'
  <2>1. turn'[s] = [turn[s] EXCEPT !.existing = x, !.pc = pc] /\ SameTurns(s)
    BY <1>1, <1>6 DEF TypeOK, SameTurns
  <2>2. turn'[s].pc = pc /\ ~turn'[s].directProviderRetired
    BY <1>1, <1>3, <2>1 DEF TurnType
  <2>3. /\ ~Proved(s)' /\ ~Retiring(s)' /\ turn'[s].pc \notin Work \cup Unsent
        /\ ~At(s, "reload")
    BY <1>2, <2>2 DEF Proved, Retiring, At, Work, Unsent
  <2>4. /\ UNCHANGED <<outbox, orphans>> /\ rec' = rec
        /\ \A y \in Sessions : Running(y)' => Running(y)
    BY <1>6 DEF durable, providers, Running
  <2>5. QED BY <1>2, <1>6, <2>1, <2>2, <2>3, <2>4, GoOnCalm
<1>7. QED BY <1>4, <1>5, <1>6, Zenon DEF Identity

LEMMA DeliveryScanCalm ==
  ASSUME IInv, TypeOK', GInv, NEW s \in Sessions, DeliveryScan(s)
  PROVE  GInv'
<1>1. turn[s] \in TurnType /\ ProofInv(s) BY Context DEF GInv
<1>2. turn[s].pc = "deliveryScan" /\ Active(s) BY DEF DeliveryScan, At, Active
<1>3. CASE JustRefuse(s)
  BY <1>2, <1>3, JustRefuseCalm DEF At
<1>4. CASE Pinned(s, [turn[s] EXCEPT !.transferFrom = turn[s].existing])
  <2> DEFINE t == [turn[s] EXCEPT !.transferFrom = turn[s].existing]
  <2>1. t \in TurnType /\ t.directProviderRetired = turn[s].directProviderRetired
    BY <1>1 DEF TurnType
  <2>2. Pinned(s, t) BY <1>4
  <2> HIDE DEF t
  <2>3. ~turn[s].directProviderRetired BY <1>1, <1>2 DEF ProofInv, Preflight
  <2>4. QED BY <1>2, <2>1, <2>2, <2>3, PinnedCalm DEF Preflight
<1>5. QED BY <1>3, <1>4 DEF DeliveryScan

LEMMA CancelLoadCalm ==
  ASSUME IInv, TypeOK', GInv, NEW s \in Sessions, CancelLoad(s)
  PROVE  GInv'
<1>1. TypeOK /\ turn[s] \in TurnType /\ ProofInv(s) BY Context DEF GInv
<1>2. turn[s].pc = "cancelLoad" /\ Active(s) /\ ~At(s, "reload")
  BY DEF CancelLoad, At, Active
<1>3. CASE JustRefuse(s)
  BY <1>2, <1>3, JustRefuseCalm
<1>4. CASE /\ EnsureOwnership(AdapterOf[s]) /\ UNCHANGED <<durable, closing, providers>>
           /\ Refuse(s, turn[s], entry, liveBlock[AdapterOf[s]])
  BY <1>2, <1>4, LeaseRefuseCalm
<1>5. CASE /\ EnsureOwnership(AdapterOf[s]) /\ Goto(s, "cancelScan")
           /\ UNCHANGED <<durable, pin, liveBlock, closing, entry, providers>>
  <2>1. Moves(s, "cancelScan") /\ turn'[s].directProviderRetired = turn[s].directProviderRetired
    BY <1>1, <1>5, GotoMoves DEF Places
  <2>2. /\ SameTurns(s) /\ ~turn'[s].directProviderRetired
        /\ ~Proved(s)' /\ ~Retiring(s)' /\ turn'[s].pc \notin Work \cup Unsent
    BY <1>1, <1>2, <2>1 DEF ProofInv, Preflight, Moves, Proved, Retiring, At, Work, Unsent
  <2>3. /\ UNCHANGED <<outbox, orphans>> /\ rec' = rec
        /\ \A y \in Sessions : Running(y)' => Running(y)
    BY <1>5 DEF durable, providers, Running
  <2>4. QED BY <1>2, <1>5, <2>2, <2>3, GoOnCalm
<1>6. QED BY <1>3, <1>4, <1>5, Zenon DEF CancelLoad

\* A child is asked to stop, with nothing unsettled on the channel.
LEMMA RetireCalm ==
  ASSUME IInv, TypeOK', GInv, NEW s \in Sessions,
         turn[s].pc \in {"cancelScan", "recoverScan"},
         NEW x \in Sessions, NEW pc \in {"cancelRetire", "recoverRetire"}, Retire(s, x, pc),
         turn[s].pc = "recoverScan" => pc = "recoverRetire",
         ~RefusesReconciliation(s)
  PROVE  GInv'
<1>1. TypeOK /\ turn[s] \in TurnType /\ ProofInv(s) BY Context DEF GInv
<1>2. Active(s) /\ ~At(s, "reload") BY DEF At, Active
<1>3. CASE JustRefuse(s)
  BY <1>2, <1>3, JustRefuseCalm
<1>4. CASE /\ prov' = [prov EXCEPT ![x] = IF @ = "live" THEN "dying" ELSE @]
           /\ Goto(s, pc)
           /\ UNCHANGED <<durable, lock, owns, pin, liveBlock, closing, entry, conv, orphans>>
  <2>1. Moves(s, pc) /\ turn'[s].directProviderRetired = turn[s].directProviderRetired
    BY <1>1, <1>4, GotoMoves DEF Places
  <2>2. /\ SameTurns(s) /\ (turn'[s].pc \in Preflight => ~turn'[s].directProviderRetired)
        /\ ~Proved(s)' /\ turn'[s].pc \notin Work \cup Unsent
    BY <1>1, <2>1 DEF ProofInv, Preflight, Moves, Proved, At, Work, Unsent
  <2>3. /\ UNCHANGED <<outbox, orphans>> /\ rec' = rec
        /\ \A y \in Sessions : Running(y)' => Running(y)
    BY <1>1, <1>4 DEF durable, Running, TypeOK
  <2>4. \A t \in Sessions : outbox[t] = "none" BY <1>1, SettledMeans
  <2>5. QED BY <1>2, <1>4, <2>2, <2>3, <2>4, GoOnCalm
<1>5. QED BY <1>3, <1>4, Zenon DEF Retire

LEMMA CancelScanCalm ==
  ASSUME IInv, TypeOK', GInv, NEW s \in Sessions, CancelScan(s)
  PROVE  GInv'
<1>1. TransferInv(s) BY Context
<1>2. turn[s].pc = "cancelScan" /\ Active(s) /\ ~At(s, "reload")
  BY DEF CancelScan, At, Active
<1>3. turn[s].existing \in Sessions BY <1>1, <1>2 DEF TransferInv, Taking, Preflight, Mates
<1>4. QED BY <1>2, <1>3, JustRefuseCalm, RetireCalm DEF CancelScan

LEMMA CancelRetireCalm ==
  ASSUME IInv, TypeOK', GInv, NEW s \in Sessions, CancelRetire(s)
  PROVE  GInv'
<1> DEFINE old == turn[s].existing
           t == [turn[s] EXCEPT !.transferFrom = old, !.explicitCancelTransfer = TRUE,
                                !.directProviderRetired = TRUE]
<1>1. /\ TypeOK /\ turn[s] \in TurnType /\ ProofInv(s) /\ TransferInv(s) /\ LeaseTurnInv(s)
      /\ PinInv(s) /\ EntryInv(s)
  BY Context DEF GInv
<1>2. turn[s].pc = "cancelRetire" /\ Active(s) /\ ~At(s, "reload")
  BY DEF CancelRetire, At, Active
<1>3. CASE JustRefuse(s)
  BY <1>2, <1>3, JustRefuseCalm
<1>4. CASE prov[old] = "closed" /\ Pinned(s, t)
  <2>1. t \in TurnType BY <1>1 DEF TurnType
  <2>2. Pinned(s, t) BY <1>4
  <2> HIDE DEF t
  <2>3. /\ old \in Mates(s) \ {s} /\ Started(old) /\ pin[AdapterOf[s]] \in {old, "none"}
        /\ ~Running(old)
    BY <1>1, <1>2, <1>4 DEF TransferInv, Taking, Preflight, Running
  <2>4. pin[AdapterOf[s]] # s BY <2>3, Names DEF Mates
  <2>5. ~Running(s) /\ ~Flagged(s) BY <1>1, <2>4 DEF PinInv
  <2>6. Owner(s) BY <1>1, <1>2 DEF LeaseTurnInv, Holding
  <2>7. \A x \in Sessions : outbox[x] = "none" BY <1>1, <1>2 DEF ProofInv, Retiring
  <2>8. Clear(s) BY <1>2, <2>3, <2>5, <2>6, <2>7, ClearNow
  <2>9. QED BY <1>2, <2>1, <2>2, <2>6, <2>8, PinnedCalm DEF Preflight
<1>5. QED BY <1>3, <1>4, Zenon DEF CancelRetire

LEMMA RecoverScanCalm ==
  ASSUME IInv, TypeOK', GInv, NEW s \in Sessions, RecoverScan(s)
  PROVE  GInv'
<1>1. turn[s].pc = "recoverScan" /\ Active(s) /\ ~At(s, "reload")
  BY DEF RecoverScan, At, Active
<1>2. QED BY <1>1, JustRefuseCalm, RetireCalm DEF RecoverScan

LEMMA RecoverRetireCalm ==
  ASSUME IInv, TypeOK', GInv, NEW s \in Sessions, RecoverRetire(s)
  PROVE  GInv'
<1>1. TypeOK /\ turn[s] \in TurnType /\ ProofInv(s) /\ EntryInv(s) /\ PinInv(s)
  BY Context DEF GInv
<1>2. turn[s].pc = "recoverRetire" /\ Active(s) /\ ~At(s, "reload")
  BY DEF RecoverRetire, At, Active
<1>3. CASE JustRefuse(s)
  BY <1>2, <1>3, JustRefuseCalm
<1>4. CASE /\ prov[s] = "closed"
           /\ turn' = [turn EXCEPT ![s].directProviderRetired = TRUE, ![s].pc = "load"]
           /\ UNCHANGED <<durable, lock, owns, pin, liveBlock, closing, entry, providers>>
  <2>1. turn'[s] = [turn[s] EXCEPT !.directProviderRetired = TRUE, !.pc = "load"]
        /\ SameTurns(s)
    BY <1>1, <1>4 DEF TypeOK, SameTurns
  <2>2. turn'[s].pc = "load" BY <1>1, <2>1 DEF TurnType
  <2>3. Started(s) /\ Owner(s) /\ ~Running(s) /\ pin[AdapterOf[s]] = s
    BY <1>1, <1>2, <1>4 DEF EntryInv, Running, PinInv, Pinning
  <2>4. \A x \in Sessions : outbox[x] = "none" BY <1>1, <1>2 DEF ProofInv, Retiring
  <2>5. Clear(s) BY <1>2, <2>3, <2>4, ClearNow DEF Mates
  <2>6. /\ UNCHANGED <<outbox, orphans>> /\ rec' = rec /\ Owner(s)'
        /\ \A y \in Sessions : Running(y)' => Running(y)
    BY <1>4, <2>3 DEF durable, providers, Running, Owner
  <2>7. ~Retiring(s)' /\ turn'[s].pc \notin Work \cup Unsent \cup Preflight
    BY <2>2 DEF Retiring, Work, Unsent, Preflight
  <2>8. QED BY <1>2, <1>4, <2>1, <2>5, <2>6, <2>7, GoOnCalm
<1>5. QED BY <1>3, <1>4, Zenon DEF RecoverRetire

LEMMA AdmitCalm ==
  ASSUME IInv, TypeOK', GInv, NEW s \in Sessions, turn[s].pc \in {"load", "reload"},
         Admit(s), rec.status # "blocked",
         \/ EnsureOwnership(AdapterOf[s])
         \/ UNCHANGED <<lock, owns>>
  PROVE  GInv'
<1> DEFINE a == AdapterOf[s]
           from == turn[s].transferFrom
<1>1. /\ TypeOK /\ TransferInv(s) /\ PinInv(s) /\ EntryInv(s) /\ ProofInv(s)
      /\ turn[s] \in TurnType /\ a \in Adapters
  BY Context DEF GInv
<1>2. Active(s) BY DEF Active
<1>3. from # s /\ (from # "none" => from \in Sessions)
  BY <1>1, <1>2, Names DEF TransferInv, Mates
<1>4. UNCHANGED <<outbox, orphans>> /\ rec' = rec BY AdmitCases DEF durable
<1>5. CASE AdmitNothingToTake(s)
  <2>1. /\ entry \in [Sessions -> EntryType] /\ liveBlock[a] \in BOOLEAN
    BY <1>1 DEF TypeOK
  <2>2. Refuse(s, turn[s], entry, liveBlock[a]) /\ UNCHANGED prov
    BY <1>5 DEF AdmitNothingToTake
  <2>3. ~Flagged(s) BY <1>1, <1>2, <1>5 DEF AdmitNothingToTake, TransferInv
  <2>4. QED BY <1>1, <1>2, <1>4, <2>1, <2>2, <2>3, RefuseCalm
<1>6. CASE AdmitClosed(s)
  <2> DEFINE entries == [Stale(s) EXCEPT ![s].blockCreatedByThisParent = FALSE]
             t == Committed(s)
  <2>1. /\ entries \in [Sessions -> EntryType] /\ t \in TurnType /\ liveBlock[a] \in BOOLEAN
    <3>1. Stale(s)[s] \in EntryType BY StaleType, <1>1
    <3>2. [Stale(s)[s] EXCEPT !.blockCreatedByThisParent = FALSE] \in EntryType
      BY <3>1, EntryTypes
    <3>3. QED BY <1>1, <3>2, StaleType DEF TypeOK
  <2>2. Refuse(s, t, entries, liveBlock[a]) /\ UNCHANGED prov
    BY <1>6, Zenon DEF AdmitClosed
  <2>3. entries[s] = [entry[s] EXCEPT !.blockCreatedByThisParent = FALSE]
    <3>1. Stale(s)[s] = entry[s] BY <1>1, <1>3, StaleEffect
    <3>2. QED BY <1>1, <3>1, StaleType
  <2>4. \A y \in Sessions \ {s} : entries[y] = Stale(s)[y]
    BY <1>1, StaleType
  <2>5. /\ entries[s].providerEverStarted = entry[s].providerEverStarted
        /\ ~entries[s].blockCreatedByThisParent
    BY <1>1, <2>3 DEF TypeOK, EntryType
  <2> HIDE DEF entries, t
  <2>6. \A y \in Sessions :
          /\ entries[y].providerEverStarted = entry[y].providerEverStarted
          /\ entries[y].blockCreatedByThisParent => entry[y].blockCreatedByThisParent
    BY <1>1, <2>4, <2>5, StaleEffect
  <2>7. QED BY <1>1, <1>2, <1>4, <2>1, <2>2, <2>5, <2>6, RefuseCalm
<1>7. CASE AdmitBound(s)
  <2>1. turn'[s] = [Committed(s) EXCEPT !.pc = "invalidate"] /\ SameTurns(s)
    BY <1>1, <1>7 DEF AdmitBound, SameTurns, TypeOK
  <2>2. turn'[s].pc = "invalidate"
    BY <1>1, <2>1 DEF Committed, TurnType
  <2>3. \A y \in Sessions \ {s} : entry'[y] = Stale(s)[y] /\ prov'[y] = prov[y]
    BY <1>1, <1>7, StaleType DEF AdmitBound, TypeOK
  <2>4. /\ ~entry'[s].blockCreatedByThisParent
        /\ entry'[s].providerEverStarted = entry[s].providerEverStarted
        /\ Running(s)' => Running(s)
    <3>1. PICK b : entry'[s] = [entry[s] EXCEPT !.blockCreatedByThisParent = FALSE,
                                                !.cachedConversationBound = b,
                                                !.needsReplacement = FALSE,
                                                !.bound = TRUE]
      <4>1. Stale(s)[s] = entry[s] BY <1>1, <1>3, StaleEffect
      <4>2. QED BY <1>1, <1>7, <4>1, StaleType DEF AdmitBound
    <3>2. entry[s] \in EntryType BY <1>1 DEF TypeOK
    <3>3. Running(s)' => Running(s) BY <1>1, <1>7 DEF AdmitBound, Running, TypeOK
    <3>4. QED BY <3>1, <3>2, <3>3 DEF EntryType
  <2>5. \A y \in Sessions : Calmer(y)
    <3>1. Calmer(s) BY <2>4 DEF Calmer, Started, Flagged
    <3>2. \A y \in Sessions \ {s} : Calmer(y)
      BY <1>1, <2>3, StaleEffect DEF Calmer, Started, Flagged, Running
    <3>3. QED BY <3>1, <3>2
  <2>6. Backed(s)
    BY <2>2, <2>4 DEF Backed, Proved, Retiring, At, Work, Unsent, Preflight, Flagged
  <2>7. LeaseKept(a) BY <1>1, EnsureKeepsLease
  <2>8. QED BY <1>2, <1>4, <2>1, <2>5, <2>6, <2>7, CalmTurn
<1>8. QED BY <1>5, <1>6, <1>7, AdmitCases

LEMMA LoadCalm ==
  ASSUME IInv, IInv', GInv, NEW s \in Sessions, Load(s)
  PROVE  GInv'
<1>1. TypeOK /\ turn[s] \in TurnType /\ ProofInv(s) BY Context DEF GInv
<1>2. turn[s].pc = "load" /\ Active(s) /\ ~At(s, "reload") BY DEF Load, At, Active
<1>3. TypeOK' BY DEF IInv
<1>4. CASE JustRefuse(s)
  BY <1>2, <1>3, <1>4, JustRefuseCalm
<1>5. CASE /\ EnsureOwnership(AdapterOf[s]) /\ UNCHANGED <<durable, closing, providers>>
           /\ Refuse(s, turn[s], entry, liveBlock[AdapterOf[s]])
  BY <1>2, <1>3, <1>5, LeaseRefuseCalm
<1>6. CASE /\ EnsureOwnership(AdapterOf[s])
           /\ turn[s].directProviderRetired \/ NoStartProof(s)
           /\ turn' = [turn EXCEPT ![s].directProviderRetired = TRUE, ![s].pc = "reconcile"]
           /\ UNCHANGED <<durable, pin, liveBlock, closing, entry, providers>>
  <2>1. turn'[s] = [turn[s] EXCEPT !.directProviderRetired = TRUE, !.pc = "reconcile"]
        /\ SameTurns(s)
    BY <1>1, <1>6 DEF TypeOK, SameTurns
  <2>2. turn'[s].pc = "reconcile" BY <1>1, <2>1 DEF TurnType
  <2>3. Clear(s)
    BY <1>1, <1>2, <1>6 DEF ProofInv, Proved, At, NoStartProof, Flagged, Started
  <2>4. Owner(s)'
    <3>1. LeaseTurnInv(s)' BY DEF IInv, SessionInv, TurnInv
    <3>2. QED BY <2>2, <3>1 DEF LeaseTurnInv, Holding
  <2>5. ~Retiring(s)' /\ turn'[s].pc \notin Work \cup Unsent \cup Preflight
    BY <2>2 DEF Retiring, Work, Unsent, Preflight
  <2>6. /\ UNCHANGED <<outbox, orphans>> /\ rec' = rec
        /\ \A y \in Sessions : Running(y)' => Running(y)
    BY <1>6 DEF durable, providers, Running
  <2>7. QED BY <1>2, <1>3, <1>6, <2>1, <2>3, <2>4, <2>5, <2>6, GoOnCalm
<1>7. CASE EnsureOwnership(AdapterOf[s]) /\ rec.status # "blocked" /\ Admit(s)
  BY <1>2, <1>3, <1>7, AdmitCalm
<1>8. QED BY <1>4, <1>5, <1>6, <1>7, Zenon DEF Load

LEMMA ReloadCalm ==
  ASSUME IInv, TypeOK', GInv, NEW s \in Sessions, Reload(s)
  PROVE  GInv'
<1>1. turn[s].pc = "reload" /\ Active(s) BY DEF Reload, At, Active
<1>2. CASE "reread" \in Faults /\ JustRefuse(s)
  BY <1>1, <1>2, JustRefuseCalm
<1>3. CASE rec.status # "blocked" /\ UNCHANGED <<lock, owns>> /\ Admit(s)
  BY <1>1, <1>3, AdmitCalm
<1>4. QED BY <1>2, <1>3, Zenon DEF Reload

-----------------------------------------------------------------------------
(***************************************************************************)
(* Releasing, working and failing.                                         *)
(***************************************************************************)
LEMMA ReleaseLeaseCalm ==
  ASSUME IInv, TypeOK', GInv, NEW s \in Sessions, ReleaseLease(s)
  PROVE  GInv'
<1> DEFINE a == AdapterOf[s]
<1>1. /\ TypeOK /\ turn[s] \in TurnType /\ LeaseTurnInv(s) /\ ProofInv(s) /\ a \in Adapters
  BY Context DEF GInv
<1>2. /\ turn[s].pc = "releasing" /\ Active(s) /\ Owner(s)
      /\ UNCHANGED <<outbox, orphans, prov>> /\ rec' = rec
  BY <1>1 DEF ReleaseLease, At, Active, LeaseTurnInv, Holding, durable, providers
<1>3. SameTurns(s) /\ turn'[s].pc = "idle"
  BY <1>1, NewTypes DEF ReleaseLease, Unwind, TypeOK, SameTurns
<1>4. LeaseKept(a)
  BY <1>1, <1>2 DEF ReleaseLease, LeaseKept, Owner, TypeOK
<1>5. \A x \in Sessions :
        /\ entry'[x].providerEverStarted = entry[x].providerEverStarted
        /\ entry'[x].blockCreatedByThisParent = entry[x].blockCreatedByThisParent
  <2>1. entry[s] \in EntryType /\ entry \in [Sessions -> EntryType] BY <1>1 DEF TypeOK
  <2>2. CASE entry' = [entry EXCEPT ![s].bound = FALSE]
    <3>1. entry'[s] = [entry[s] EXCEPT !.bound = FALSE] /\ SameEntries(s)
      BY <2>1, <2>2 DEF SameEntries
    <3>2. QED BY <2>1, <3>1 DEF EntryType, SameEntries
  <2>3. CASE entry' = [entry EXCEPT ![s].stateError = TRUE]
    <3>1. entry'[s] = [entry[s] EXCEPT !.stateError = TRUE] /\ SameEntries(s)
      BY <2>1, <2>3 DEF SameEntries
    <3>2. QED BY <2>1, <3>1 DEF EntryType, SameEntries
  <2>4. QED BY <2>2, <2>3, Zenon DEF ReleaseLease
<1>6. \A x \in Sessions : Calmer(x)
  BY <1>2, <1>5 DEF Calmer, Running, Started, Flagged
<1>7. Backed(s)
  BY <1>1, <1>2, <1>3, <1>6
     DEF Backed, Calmer, ProofInv, Proved, Retiring, At, Work, Unsent, Preflight
<1>8. QED BY <1>2, <1>3, <1>4, <1>6, <1>7, CalmTurn

LEMMA EndedCalm ==
  ASSUME IInv, TypeOK', GInv, NEW s \in Sessions, turn[s].pc \in Work, Ended(s, entry[s]),
         UNCHANGED <<outbox, lock, orphans>>, rec'.status = rec.status,
         \A x \in Sessions : Running(x)' => Running(x)
  PROVE  GInv'
<1>1. WorkInv(s) BY Context
<1>2. Active(s) /\ SameTurns(s) /\ turn'[s].pc = "idle" /\ Started(s) /\ owns' = owns
  BY <1>1 DEF Active, Work, Ended, WorkInv
<1>3. \A x \in Sessions : Calmer(x)
  BY DEF Calmer, Started, Flagged, Ended, SameEntries
<1>4. Backed(s)
  BY <1>2, <1>3
     DEF Backed, Proved, Retiring, At, Work, Unsent, Preflight, Calmer, Flagged
<1>5. LeaseKept(AdapterOf[s]) BY <1>2 DEF LeaseKept
<1>6. QED BY <1>2, <1>3, <1>4, <1>5, CalmTurn

LEMMA FailEnds ==
  ASSUME IInv, NEW s \in Sessions, Active(s), FailTurn(s)
  PROVE  Ended(s, entry[s]) /\ entry'[s].needsReplacement
<1>1. /\ turn[s] \in TurnType /\ entry[s] \in EntryType
      /\ liveBlock[AdapterOf[s]] \in BOOLEAN
  BY Names DEF IInv, TypeOK
<1>2. PICK safe \in BOOLEAN : safe = FALSE
  OBVIOUS
<1>3. EndTurn(s, turn[s], entry[s], safe, liveBlock[AdapterOf[s]])
  BY <1>2, Zenon DEF FailTurn
<1>4. QED BY <1>1, <1>2, <1>3, EndTurnEffect

\* The turn fails, and nothing but its own provider may have changed.
LEMMA FailedCalm ==
  ASSUME IInv, TypeOK', GInv, NEW s \in Sessions, turn[s].pc \in Work, FailTurn(s),
         UNCHANGED <<outbox, lock, orphans>>, rec'.status = rec.status,
         \A x \in Sessions : Running(x)' => Running(x)
  PROVE  GInv'
<1>1. Active(s) BY DEF Active, Work
<1>2. Ended(s, entry[s]) BY <1>1, FailEnds
<1>3. QED BY <1>2, EndedCalm

LEMMA WorkCalm ==
  ASSUME IInv, TypeOK', GInv, NEW s \in Sessions,
         NEW pc \in Work \ {"provider"}, turn[s].pc \in Work,
         Moves(s, pc), pc \in Unsent => turn[s].pc \in Unsent,
         UNCHANGED <<outbox, orphans, lock, owns, entry>>, rec'.status = rec.status,
         \A x \in Sessions : Running(x)' => Running(x)
  PROVE  GInv'
<1>1. Active(s) /\ ~At(s, "reload") /\ ProofInv(s) BY DEF Active, Work, At, GInv
<1>2. turn'[s].pc = pc /\ SameTurns(s) BY DEF Moves
<1>3. ~Proved(s)' /\ ~Retiring(s)' /\ turn'[s].pc \notin Preflight
  BY <1>2 DEF Proved, Retiring, At, Preflight, Work
<1>4. turn'[s].pc \in Unsent => outbox[s] = "none"
  BY <1>1, <1>2 DEF ProofInv
<1>5. QED BY <1>1, <1>2, <1>3, <1>4, GoOnCalm

LEMMA ProviderAnswersCalm ==
  ASSUME IInv, TypeOK', GInv, NEW s \in Sessions, ProviderAnswers(s)
  PROVE  GInv'
<1>1. TypeOK BY Context
<1>2. /\ turn[s].pc = "provider" /\ prov[s] = "live" /\ Goto(s, "retiring")
      /\ prov' = [prov EXCEPT ![s] = "dying"]
      /\ UNCHANGED <<outbox, orphans, lock, owns, entry>> /\ rec' = rec
  BY DEF ProviderAnswers, At, durable
<1>3. Moves(s, "retiring") BY <1>1, <1>2, GotoMoves DEF Places
<1>4. \A x \in Sessions : Running(x)' => Running(x) BY <1>1, <1>2 DEF Running, TypeOK
<1>5. QED BY <1>2, <1>3, <1>4, WorkCalm DEF Work, Unsent

LEMMA ProviderFailsCalm ==
  ASSUME IInv, TypeOK', GInv, NEW s \in Sessions, ProviderFails(s)
  PROVE  GInv'
<1>1. TypeOK BY Context
<1>2. turn[s].pc \in Work /\ FailTurn(s) /\ UNCHANGED <<outbox, lock, orphans>> /\ rec' = rec
  BY DEF ProviderFails, At, Work, durable
<1>3. \A x \in Sessions : Running(x)' => Running(x)
  BY <1>1 DEF ProviderFails, Running, TypeOK
<1>4. QED BY <1>2, <1>3, FailedCalm

LEMMA RetirementCalm ==
  ASSUME IInv, TypeOK', GInv, NEW s \in Sessions, Retirement(s)
  PROVE  GInv'
<1>1. TypeOK BY Context
<1>2. /\ turn[s].pc = "retiring" /\ UNCHANGED <<outbox, orphans, lock>> /\ rec' = rec
      /\ \A x \in Sessions : Running(x)' => Running(x)
  BY DEF Retirement, At, durable, providers, Running
<1>3. CASE Goto(s, "staging") /\ UNCHANGED <<owns, pin, liveBlock, closing, entry>>
  <2>1. Moves(s, "staging") BY <1>1, <1>3, GotoMoves DEF Places
  <2>2. QED BY <1>2, <1>3, <2>1, WorkCalm DEF Work, Unsent
<1>4. CASE FailTurn(s)
  BY <1>2, <1>4, FailedCalm DEF Work
<1>5. QED BY <1>3, <1>4, Zenon DEF Retirement

LEMMA StageCheckpointCalm ==
  ASSUME IInv, TypeOK', GInv, NEW s \in Sessions, StageCheckpoint(s)
  PROVE  GInv'
<1>1. TypeOK BY Context
<1>2. /\ turn[s].pc = "staging" /\ UNCHANGED <<outbox, orphans, lock>>
      /\ \A x \in Sessions : Running(x)' => Running(x)
  BY DEF StageCheckpoint, At, providers, Running
<1>3. rec'.status = rec.status
  <2>1. rec' = rec \/ rec' = [rec EXCEPT !.conversationId = conv[s]]
    BY Zenon DEF StageCheckpoint, WriteRecord
  <2>2. QED BY <1>1, <2>1 DEF TypeOK
<1>4. CASE Goto(s, "beginning") /\ UNCHANGED <<owns, pin, liveBlock, closing, entry>>
  <2>1. Moves(s, "beginning") BY <1>1, <1>4, GotoMoves DEF Places
  <2>2. QED BY <1>2, <1>3, <1>4, <2>1, WorkCalm DEF Work, Unsent
<1>5. CASE FailTurn(s)
  BY <1>2, <1>3, <1>5, FailedCalm DEF Work
<1>6. QED BY <1>4, <1>5, Zenon DEF StageCheckpoint

LEMMA PublishCalm ==
  ASSUME IInv, TypeOK', GInv, NEW s \in Sessions, Publish(s)
  PROVE  GInv'
<1>1. TypeOK /\ turn[s] \in TurnType BY Context
<1>2. /\ turn[s].pc = "publishing" /\ UNCHANGED <<outbox, orphans, lock, owns, entry>>
      /\ rec' = rec /\ \A x \in Sessions : Running(x)' => Running(x)
  BY DEF Publish, At, durable, providers, Running
<1>3. PICK status : turn' = [turn EXCEPT ![s].publication = status, ![s].pc = "updating"]
  BY DEF Publish
<1>4. turn'[s] = [turn[s] EXCEPT !.publication = status, !.pc = "updating"] /\ SameTurns(s)
  BY <1>1, <1>3 DEF TypeOK, SameTurns
<1>5. Moves(s, "updating") BY <1>1, <1>4 DEF Moves, TurnType
<1>6. QED BY <1>2, <1>5, WorkCalm DEF Work, Unsent

-----------------------------------------------------------------------------
(***************************************************************************)
(* The world around a turn.                                                *)
(***************************************************************************)
\* The turn of x ends, begins or stays where it is.
Settles(x) ==
  /\ \/ turn'[x].pc = "idle"
     \/ turn'[x].pc = "identity" /\ ~turn'[x].directProviderRetired
     \/ /\ turn'[x].pc = turn[x].pc
        /\ turn'[x].directProviderRetired = turn[x].directProviderRetired
        /\ Owner(x) => Owner(x)'
  /\ At(x, "reload") => At(x, "reload")' \/ ~Flagged(x)'

LEMMA QuietCalm ==
  ASSUME IInv, TypeOK', GInv, rec' = rec, orphans' <= orphans,
         \A x \in Sessions : Calmer(x) /\ Settles(x) /\ (outbox'[x] # "none" => outbox[x] # "none")
  PROVE  GInv'
<1>1. ASSUME NEW x \in Sessions PROVE Backed(x)
  <2>1. ProofInv(x) /\ Calmer(x) /\ Settles(x) BY DEF GInv
  <2>2. CASE turn'[x].pc = "idle"
    BY <2>1, <2>2
       DEF Backed, ProofInv, Calmer, Settles, Proved, Retiring, At, Work, Unsent, Preflight
  <2>3. CASE turn'[x].pc = "identity" /\ ~turn'[x].directProviderRetired
    BY <2>1, <2>3
       DEF Backed, ProofInv, Calmer, Settles, Proved, Retiring, At, Work, Unsent
  <2>4. CASE /\ turn'[x].pc = turn[x].pc
             /\ turn'[x].directProviderRetired = turn[x].directProviderRetired
             /\ Owner(x) => Owner(x)'
    BY <2>1, <2>4 DEF Backed, ProofInv, Calmer, Settles, Proved, Retiring, At
  <2>5. QED BY <2>1, <2>2, <2>3, <2>4 DEF Settles
<1>2. QED BY <1>1, CalmStep DEF IInv

LEMMA PromptCalm ==
  ASSUME IInv, TypeOK', GInv, NEW s \in Sessions, Prompt(s)
  PROVE  GInv'
<1> DEFINE a == AdapterOf[s]
           e == [entry[s] EXCEPT !.explicitCancelSettled = FALSE]
           t == [NoTurn EXCEPT !.pc = "identity", !.ownershipPreviouslyHeld = owns[a]]
           entries == [entry EXCEPT ![s] = e]
<1>1. TypeOK BY Context
<1>2. ~Active(s) /\ UNCHANGED <<durable, lock, owns, closing, providers>>
      /\ entry' = entries
  BY Zenon DEF Prompt, Refuse
<1>3. entry[s] \in EntryType /\ entry \in [Sessions -> EntryType]
      /\ turn \in [Sessions -> TurnType]
  BY <1>1 DEF TypeOK
<1>4. /\ e.providerEverStarted = entry[s].providerEverStarted
      /\ e.blockCreatedByThisParent = entry[s].blockCreatedByThisParent
  BY <1>3 DEF EntryType
<1>5. entries[s] = e /\ \A y \in Sessions \ {s} : entries[y] = entry[y]
  BY <1>3
<1>6. t.pc = "identity" /\ ~t.directProviderRetired BY DEF NoTurn
<1>7. NoTurn.pc = "idle" BY NewTypes
<1>8. t.ownershipPreviouslyHeld = owns[a] BY DEF NoTurn
<1> HIDE DEF e, t
<1>9. turn' = [turn EXCEPT ![s] = NoTurn] \/ turn' = [turn EXCEPT ![s] = t]
  <2>1. Refuse(s, t, entries, liveBlock[a]) \/ turn' = [turn EXCEPT ![s] = t]
    BY Zenon DEF Prompt, t, e
  <2>2. owns'[a] => t.ownershipPreviouslyHeld BY <1>2, <1>8
  <2>3. Refuse(s, t, entries, liveBlock[a]) => turn' = [turn EXCEPT ![s] = NoTurn]
    BY <2>2 DEF Refuse, Unwind
  <2>4. QED BY <2>1, <2>3
<1> HIDE DEF entries
<1>10. SameTurns(s) /\ (turn'[s] = NoTurn \/ turn'[s] = t)
  BY <1>3, <1>9 DEF SameTurns
<1>11. ASSUME NEW x \in Sessions PROVE Calmer(x) /\ Settles(x) /\ outbox'[x] = outbox[x]
  <2>1. Calmer(x)
    BY <1>2, <1>4, <1>5 DEF Calmer, Running, Started, Flagged, providers
  <2>2. Owner(x) => Owner(x)' BY <1>2 DEF Owner
  <2>3. Settles(x)
    BY <1>2, <1>6, <1>7, <1>10, <2>2 DEF Settles, SameTurns, At, Active
  <2>4. QED BY <1>2, <2>1, <2>3 DEF durable
<1>12. rec' = rec /\ orphans' <= orphans BY <1>1, <1>2 DEF durable, providers, TypeOK
<1>13. QED BY <1>11, <1>12, QuietCalm

LEMMA CancelCalm ==
  ASSUME IInv, TypeOK', GInv, NEW s \in Sessions, Cancel(s)
  PROVE  GInv'
<1> DEFINE t == [turn[s] EXCEPT !.aborted = TRUE, !.explicitCancelRequested = TRUE]
<1>1. TypeOK /\ turn[s] \in TurnType BY Context
<1>2. Active(s) /\ UNCHANGED <<rec, outbox, lock, conv, orphans>> BY DEF Cancel, durable
<1>3. /\ t \in TurnType /\ t.pc = turn[s].pc
      /\ t.directProviderRetired = turn[s].directProviderRetired
  BY <1>1 DEF TurnType
<1>4. CASE At(s, "provider") /\ EndTurn(s, t, entry[s], FALSE, liveBlock[AdapterOf[s]])
           /\ prov' = [prov EXCEPT ![s] = IF @ = "live" THEN "dying" ELSE @]
  <2>1. PICK safe \in BOOLEAN : EndTurn(s, t, entry[s], safe, liveBlock[AdapterOf[s]])
    BY <1>4, Zenon
  <2>2. entry[s] \in EntryType /\ liveBlock[AdapterOf[s]] \in BOOLEAN
    BY <1>1, Names DEF TypeOK
  <2> HIDE DEF t
  <2>3. Ended(s, entry[s]) BY <1>2, <1>3, <2>1, <2>2, EndTurnEffect
  <2>4. \A x \in Sessions : Running(x)' => Running(x) BY <1>1, <1>4 DEF Running, TypeOK
  <2>5. QED BY <1>2, <1>4, <2>3, <2>4, EndedCalm DEF At, Work
<1>5. CASE turn' = [turn EXCEPT ![s] = t]
           /\ UNCHANGED <<owns, pin, liveBlock, closing, entry, prov>>
  <2> HIDE DEF t
  <2>1. turn'[s] = t /\ SameTurns(s) BY <1>1, <1>5 DEF TypeOK, SameTurns
  <2>2. \A x \in Sessions : Calmer(x) /\ Settles(x)
    BY <1>2, <1>3, <1>5, <2>1
       DEF Calmer, Settles, SameTurns, Running, Started, Flagged, Owner, At
  <2>3. orphans' <= orphans BY <1>1, <1>2 DEF TypeOK
  <2>4. QED BY <1>2, <2>2, <2>3, QuietCalm
<1>6. QED BY <1>4, <1>5, Zenon DEF Cancel, t

LEMMA CloseBeginCalm ==
  ASSUME IInv, TypeOK', GInv, NEW a \in Adapters, CloseBegin(a)
  PROVE  GInv'
<1>1. TypeOK BY DEF IInv
<1>2. UNCHANGED <<rec, outbox, lock, owns, orphans>> BY DEF CloseBegin, durable
<1>3. ASSUME NEW x \in Sessions PROVE Calmer(x) /\ Settles(x)
  <2>1. turn[x] \in TurnType /\ entry[x] \in EntryType BY <1>1 DEF TypeOK
  <2>2. Running(x)' => Running(x) BY DEF CloseBegin, Running
  <2>3. entry'[x] = entry[x] \/ entry'[x] = [entry[x] EXCEPT !.needsReplacement = TRUE]
    BY DEF CloseBegin
  <2>4. Calmer(x) BY <2>1, <2>2, <2>3 DEF Calmer, Started, Flagged, EntryType
  <2>5. \/ turn'[x] = NoTurn /\ At(x, "provider")
        \/ turn'[x] = turn[x] \/ turn'[x] = [turn[x] EXCEPT !.aborted = TRUE]
    BY DEF CloseBegin
  <2>6. Settles(x)
    BY <1>2, <2>1, <2>5, NewTypes DEF Settles, Owner, At, TurnType
  <2>7. QED BY <2>4, <2>6
<1>4. orphans' <= orphans BY <1>1, <1>2 DEF TypeOK
<1>5. QED BY <1>2, <1>3, <1>4, QuietCalm

\* A new process knows nothing of the channel; the others are as they were.
LEMMA RestartEffect ==
  ASSUME TypeOK, NEW a \in Adapters, Restart(a), NEW x \in Sessions
  PROVE  /\ AdapterOf[x] = a => /\ turn'[x].pc = "idle" /\ ~Running(x)'
                                /\ ~Started(x)' /\ ~Flagged(x)'
         /\ AdapterOf[x] # a => /\ turn'[x] = turn[x] /\ (Running(x)' <=> Running(x))
                                /\ (Started(x)' <=> Started(x)) /\ (Flagged(x)' <=> Flagged(x))
                                /\ (Owner(x) => Owner(x)')
<1>1. CASE AdapterOf[x] = a
  <2>1. turn'[x] = NoTurn /\ entry'[x] = NewEntry /\ prov'[x] = "none"
    BY <1>1 DEF Restart
  <2>2. QED BY <1>1, <2>1, NewTypes DEF Running, Started, Flagged, NewEntry
<1>2. CASE AdapterOf[x] # a
  <2>1. turn'[x] = turn[x] /\ entry'[x] = entry[x] /\ prov'[x] = prov[x]
    BY <1>2 DEF Restart
  <2>2. Owner(x) => Owner(x)' BY <1>2, Names DEF Restart, Owner, TypeOK
  <2>3. QED BY <1>2, <2>1, <2>2 DEF Running, Started, Flagged
<1>3. QED BY <1>1, <1>2

LEMMA RestartCalm ==
  ASSUME IInv, TypeOK', GInv, NEW a \in Adapters, Restart(a), UNCHANGED durable,
         orphans' = orphans
  PROVE  GInv'
<1>1. TypeOK BY DEF IInv
<1>2. \A x \in Sessions : Calmer(x) /\ Settles(x)
  BY <1>1, RestartEffect DEF Calmer, Settles, At
<1>3. UNCHANGED <<rec, outbox>> /\ orphans' <= orphans BY <1>1 DEF durable, TypeOK
<1>4. QED BY <1>2, <1>3, QuietCalm

\* A process that dies leaves at most the one provider of the channel.
LEMMA CrashCalm ==
  ASSUME IInv, TypeOK', GInv, NEW a \in Adapters, Crash(a)
  PROVE  GInv'
<1> DEFINE left == {s \in Sessions : AdapterOf[s] = a /\ Running(s)}
<1>1. TypeOK /\ orphans \in Nat /\ orphans' \in Nat BY DEF IInv, TypeOK
<1>2. Restart(a) /\ UNCHANGED durable /\ orphans' = orphans + Cardinality(left)
  BY DEF Crash
<1>3. PinnedOnly BY DEF IInv, SessionInv, PinInv, PinnedOnly
<1>4. Cardinality(left) \in {0, 1} /\ (Cardinality(left) = 0 => left = {})
  BY <1>3, RunningOfAdapter
<1>5. CASE Cardinality(left) = 0
  <2> HIDE DEF left
  <2>1. orphans' = orphans BY <1>1, <1>2, <1>5
  <2>2. QED BY <1>2, <2>1, RestartCalm
<1>6. CASE Cardinality(left) = 1
  <2>1. left # {} BY <1>6, FS_EmptySet
  <2>2. PICK s \in Sessions : AdapterOf[s] = a /\ Running(s) BY <2>1
  <2>3. EntryInv(s) /\ ProofInv(s) BY Context DEF GInv
  <2>4. Started(s) /\ lock = a /\ orphans = 0
    BY <2>2, <2>3 DEF EntryInv, Running, Owner, ProofInv
  <2> HIDE DEF left
  <2>5. orphans' = 1 BY <1>2, <1>6, <2>4
  <2>6. rec.status = "blocked" BY <2>2 DEF GInv, BlockInv
  <2>7. rec' = rec /\ outbox' = outbox BY <1>2 DEF durable
  <2>8. BlockInv' BY <2>5, <2>6, <2>7 DEF BlockInv
  <2>9. ASSUME NEW x \in Sessions PROVE ProofInv(x)'
    <3>1. EntryInv(x) /\ ProofInv(x) BY Context DEF GInv
    <3>2. ~Clear(x) BY <2>2 DEF Clear
    <3>3. CASE AdapterOf[x] = a
      <4>1. turn'[x].pc = "idle" /\ ~Started(x)' /\ ~Flagged(x)'
        BY <1>1, <1>2, <3>3, RestartEffect
      <4>2. QED BY <4>1 DEF ProofInv, Proved, Retiring, At, Work, Unsent, Preflight
    <3>4. CASE AdapterOf[x] # a
      <4>1. turn'[x] = turn[x] /\ (Started(x)' <=> Started(x)) /\ (Flagged(x)' <=> Flagged(x))
        BY <1>1, <1>2, <3>4, RestartEffect
      <4>2. ~Started(x) BY <2>4, <3>1, <3>4 DEF EntryInv, Owner
      <4>3. ~Flagged(x) /\ ~Proved(x) BY <3>1, <3>2 DEF ProofInv
      <4>4. ~Proved(x)' /\ (Retiring(x)' <=> Retiring(x)) BY <4>1, <4>3 DEF Proved, Retiring, At
      <4>5. QED BY <2>7, <3>1, <4>1, <4>2, <4>3, <4>4 DEF ProofInv
    <3>5. QED BY <3>3, <3>4
  <2>10. QED BY <2>8, <2>9 DEF GInv
<1>7. QED BY <1>4, <1>5, <1>6

\* Steps that leave every turn, session and lease alone
LEMMA IdleCalm ==
  ASSUME IInv, TypeOK', GInv, UNCHANGED <<rec, lock, owns, entry, turn>>, orphans' <= orphans,
         \A x \in Sessions : /\ Running(x)' => Running(x)
                             /\ outbox'[x] # "none" => outbox[x] # "none"
  PROVE  GInv'
<1>1. \A x \in Sessions : Calmer(x) /\ Settles(x)
  BY DEF Calmer, Settles, Started, Flagged, Owner, At
<1>2. QED BY <1>1, QuietCalm

-----------------------------------------------------------------------------
(***************************************************************************)
(* Steps that change the record's status, start a provider or settle an    *)
(* answer.                                                                 *)
(***************************************************************************)
LEMMA ReconcileSafe ==
  ASSUME IInv, TypeOK', GInv, NEW s \in Sessions, Reconcile(s)
  PROVE  GInv'
<1>1. TypeOK /\ turn[s] \in TurnType /\ ProofInv(s) BY Context DEF GInv
<1>2. turn[s].pc = "reconcile" /\ Active(s) BY DEF Reconcile, At, Active
<1>3. Clear(s) BY <1>1, <1>2 DEF ProofInv, Proved, At
<1>4. /\ UNCHANGED <<outbox, lock, owns, prov, orphans, entry>> /\ SameTurns(s)
      /\ \/ turn'[s].pc = "reload"
         \/ turn'[s].pc \in {"idle", "releasing"} /\ Faults # {}
  <2>1. CASE /\ turn' = [turn EXCEPT
                           ![s].clearedCheckpoint = @ \/ rec.conversationId = "none",
                           ![s].pc = "reload"]
             /\ UNCHANGED <<outbox, lock, owns, pin, liveBlock, closing, entry, providers>>
    <3>1. /\ turn'[s] = [turn[s] EXCEPT
                           !.clearedCheckpoint = turn[s].clearedCheckpoint \/ rec.conversationId = "none",
                           !.pc = "reload"]
          /\ SameTurns(s)
      BY <1>1, <2>1 DEF TypeOK, SameTurns
    <3>2. turn'[s].pc = "reload" BY <1>1, <3>1 DEF TurnType
    <3>3. QED BY <2>1, <3>1, <3>2 DEF providers
  <2>2. CASE /\ IF rec.conversationId = "none" THEN "write" \in Faults /\ UNCHANGED rec
                ELSE WriteRecord([rec EXCEPT !.status = "ready"], FALSE)
             /\ UNCHANGED <<outbox, lock, owns, closing, providers>>
             /\ Refuse(s, turn[s], entry, liveBlock[AdapterOf[s]])
    <3>1. /\ entry \in [Sessions -> EntryType] /\ liveBlock[AdapterOf[s]] \in BOOLEAN
      BY <1>1, Names DEF TypeOK
    <3>2. entry' = entry /\ SameTurns(s) /\ turn'[s].pc \in {"idle", "releasing"}
      BY <1>1, <1>2, <2>2, <3>1, MatesIdle, RefuseEffect DEF GoesReleasing, Unwound
    <3>3. Faults # {} BY <2>2 DEF WriteRecord
    <3>4. QED BY <2>2, <3>2, <3>3 DEF providers
  <2>3. QED BY <2>1, <2>2, Zenon DEF Reconcile
<1>5. BlockInv'
  BY <1>3, <1>4 DEF Clear, GInv, BlockInv, Running
<1>6. \A x \in Sessions : /\ Clear(x) <=> Clear(x)'
                          /\ Started(x) <=> Started(x)'
                          /\ Flagged(x) <=> Flagged(x)'
                          /\ Owner(x) <=> Owner(x)'
  BY <1>4 DEF Clear, Running, Started, Flagged, Owner
<1>7. ProofInv(s)'
  BY <1>1, <1>4, <1>6
     DEF ProofInv, Proved, Retiring, At, Work, Unsent, Preflight
<1>8. ASSUME NEW x \in Sessions \ {s} PROVE ProofInv(x)'
  <2>1. ProofInv(x) /\ turn'[x] = turn[x] BY <1>4 DEF GInv, SameTurns
  <2>2. ~Flagged(x) BY <1>3 DEF Clear
  <2>3. QED BY <1>4, <1>6, <2>1, <2>2 DEF ProofInv, Proved, Retiring, At
<1>9. QED BY <1>5, <1>7, <1>8 DEF GInv

LEMMA InvalidateSafe ==
  ASSUME Reliable, IInv, TypeOK', GInv, NEW s \in Sessions, Invalidate(s)
  PROVE  GInv'
<1> DEFINE a == AdapterOf[s]
           e == [entry[s] EXCEPT !.blockCreatedByThisParent = TRUE]
           entries == [entry EXCEPT ![s] = e]
<1>1. /\ TypeOK /\ LeaseTurnInv(s) /\ PinInv(s) /\ RecordInv(s) /\ ProofInv(s)
      /\ turn[s] \in TurnType /\ a \in Adapters
  BY Context DEF GInv
<1>2. turn[s].pc = "invalidate" /\ Active(s) /\ Owner(s) /\ pin[a] = s
  BY <1>1 DEF Invalidate, At, Active, LeaseTurnInv, Holding, PinInv, Pinning
<1>3. rec.status # "blocked" BY <1>1, <1>2 DEF RecordInv
<1>4. /\ orphans = 0 /\ \A x \in Sessions : ~Running(x) /\ outbox[x] = "none"
  BY <1>1, <1>3 DEF GInv, BlockInv, TypeOK
<1>5. ASSUME NEW x \in Sessions \ {s} PROVE ~Flagged(x)
  <2>1. SUFFICES ASSUME Flagged(x) PROVE FALSE
    OBVIOUS
  <2>2. ProofInv(x) /\ PinInv(x) /\ LeaseTurnInv(x) /\ AdapterOf[x] \in Adapters
    BY Context DEF GInv
  <2>3. AdapterOf[x] # a BY <1>2, <2>1, <2>2 DEF PinInv
  <2>4. Faults = {} BY <1>1, <2>2, <2>3 DEF Reliable
  <2>5. At(x, "reload") BY <1>3, <2>1, <2>2, <2>4 DEF ProofInv
  <2>6. QED BY <1>2, <2>2, <2>3, <2>5 DEF At, LeaseTurnInv, Holding, Owner
<1>6. \A x \in Sessions \ {s} : /\ ProofInv(x) /\ ~Proved(x) /\ ~Retiring(x)
                                /\ turn[x].pc \notin Work
                                /\ Started(x) => AdapterOf[x] = a
  BY <1>2, Sole DEF GInv, Mates
<1>7. UNCHANGED <<outbox, lock, owns, orphans>> BY DEF Invalidate
<1>8. /\ entry \in [Sessions -> EntryType] /\ liveBlock[a] \in BOOLEAN
      /\ entry[s] \in EntryType
      /\ rec \in [status: {"absent", "blocked", "ready"},
                  conversationId: Conversations \cup {"none"}]
  BY <1>1 DEF TypeOK
<1>9. ASSUME SameTurns(s), SameEntries(s), NEW x \in Sessions \ {s} PROVE ProofInv(x)'
  <2>1. /\ turn'[x] = turn[x] /\ (Started(x)' <=> Started(x))
        /\ \A t \in Sessions \ {s} : ~Flagged(t)'
    BY <1>5, <1>9 DEF SameTurns, SameEntries, Started, Flagged
  <2>2. ~Proved(x)' /\ ~Retiring(x)' /\ ProofInv(x) /\ turn'[x].pc \notin Work
    BY <1>6, <2>1 DEF Proved, Retiring, At
  <2>3. Started(x)' => orphans' = 0 /\ \A t \in Sessions : Flagged(t)' => AdapterOf[t] = AdapterOf[x]
    BY <1>4, <1>6, <1>7, <2>1
  <2>4. turn'[x].pc \notin Unsent BY <2>2 DEF Work, Unsent
  <2>5. QED BY <2>1, <2>2, <2>3, <2>4 DEF ProofInv
<1>10. CASE WriteRecord([rec EXCEPT !.status = "blocked"], FALSE) /\ UNCHANGED prov
            /\ Refuse(s, turn[s], entry, liveBlock[a])
  <2>1. /\ entry' = entry /\ SameTurns(s) /\ SameEntries(s)
        /\ turn'[s].pc \in {"idle", "releasing"}
    BY <1>1, <1>2, <1>8, <1>10, MatesIdle, RefuseEffect DEF GoesReleasing, Unwound, SameEntries
  <2>2. Faults # {} BY <1>10 DEF WriteRecord
  <2>3. BlockInv' BY <1>4, <1>7, <1>10 DEF BlockInv, Running
  <2>4. ProofInv(s)'
    BY <1>1, <1>4, <1>5, <1>7, <1>10, <2>1, <2>2
       DEF ProofInv, Proved, Retiring, At, Work, Unsent, Preflight, Started, Flagged, Clear,
           Running
  <2>5. QED BY <1>9, <2>1, <2>3, <2>4 DEF GInv
<1>11. rec' = [rec EXCEPT !.status = "blocked"] => rec'.status = "blocked"
  BY <1>8
<1>12. CASE WriteRecord([rec EXCEPT !.status = "blocked"], TRUE) /\ UNCHANGED prov
            /\ Refuse(s, turn[s], entries, TRUE)
  <2>1. e \in EntryType BY <1>8, EntryTypes
  <2>2. /\ entries \in [Sessions -> EntryType] /\ entries[s] = e
        /\ \A y \in Sessions \ {s} : entries[y] = entry[y]
    BY <1>8, <2>1
  <2>3. e.providerEverStarted = entry[s].providerEverStarted BY <1>8 DEF EntryType
  <2> HIDE DEF entries, e
  <2>4. /\ entry' = entries /\ SameTurns(s) /\ SameEntries(s)
        /\ turn'[s].pc \in {"idle", "releasing"}
    <3>1. ~BusyElsewhere(s) BY <1>2, MatesIdle
    <3>2. PICK live \in BOOLEAN : Refuse(s, turn[s], entries, live)
      BY <1>12
    <3>3. /\ entry' = entries /\ SameTurns(s)
          /\ GoesReleasing(s, turn[s], entries[s]) \/ Unwound(s, turn[s], entries[s])
      BY <1>1, <2>2, <3>1, <3>2, RefuseEffect
    <3>4. turn'[s].pc \in {"idle", "releasing"} BY <3>3 DEF GoesReleasing, Unwound
    <3>5. QED BY <2>2, <3>3, <3>4 DEF SameEntries
  <2>5. rec'.status = "blocked" BY <1>11, <1>12 DEF WriteRecord
  <2>6. BlockInv' BY <1>4, <1>7, <2>5 DEF BlockInv
  <2>7. Started(s)' <=> Started(s) BY <2>2, <2>3, <2>4 DEF Started
  <2>8. \A t \in Sessions : Flagged(t)' => t = s
    BY <1>5, <2>4 DEF Flagged, Started, SameEntries
  <2>9. Clear(s)' BY <1>4, <1>7, <1>12, <2>8 DEF Clear, Running
  <2>10. ProofInv(s)'
    BY <1>4, <1>7, <2>4, <2>5, <2>8, <2>9
       DEF ProofInv, Proved, Retiring, At, Work, Unsent, Preflight
  <2>11. QED BY <1>9, <2>4, <2>6, <2>10 DEF GInv
<1>13. CASE /\ WriteRecord([rec EXCEPT !.status = "blocked"], TRUE)
            /\ entry' = [entry EXCEPT ![s] = [e EXCEPT !.providerEverStarted = TRUE]]
            /\ Goto(s, "provider")
  <2>1. rec'.status = "blocked" BY <1>11, <1>13 DEF WriteRecord
  <2>2. SameTurns(s) /\ turn'[s].pc = "provider"
    BY <1>1, <1>13, GotoMoves DEF Places, Moves
  <2>3. SameEntries(s) /\ Started(s)'
    BY <1>8, <1>13 DEF SameEntries, EntryType, Started
  <2>4. BlockInv' BY <1>4, <1>7, <2>1 DEF BlockInv
  <2>5. \A t \in Sessions : ~Flagged(t)'
    BY <1>5, <2>3 DEF Flagged, Started, SameEntries
  <2>6. ProofInv(s)'
    BY <1>4, <1>7, <2>2, <2>5
       DEF ProofInv, Proved, Retiring, At, Work, Unsent, Preflight
  <2>7. QED BY <1>9, <2>2, <2>3, <2>4, <2>6 DEF GInv
<1>14. QED BY <1>10, <1>12, <1>13, Zenon DEF Invalidate

\* While a turn works on the channel, nothing else does.
LEMMA WorkAlone ==
  ASSUME IInv, GInv, NEW s \in Sessions, turn[s].pc \in Work
  PROVE  /\ orphans = 0 /\ rec.status = "blocked" /\ Started(s) /\ Owner(s)
         /\ \A x \in Sessions : ~Flagged(x) /\ (Running(x) => x = s)
         /\ \A x \in Sessions \ {s} : /\ ~Proved(x) /\ ~Retiring(x)
                                       /\ turn[x].pc \notin Work /\ outbox[x] = "none"
<1>1. /\ LeaseTurnInv(s) /\ WorkInv(s) /\ RecordInv(s) /\ PinInv(s) /\ ProofInv(s)
  BY Context DEF GInv
<1>2. /\ Active(s) /\ Owner(s) /\ pin[AdapterOf[s]] = s /\ Started(s)
      /\ rec.status = "blocked"
  BY <1>1 DEF Active, Work, LeaseTurnInv, Holding, PinInv, Pinning, WorkInv, RecordInv
<1>3. /\ orphans = 0 /\ \A x \in Sessions : Flagged(x) => AdapterOf[x] = AdapterOf[s]
  BY <1>1, <1>2 DEF ProofInv
<1>4. ASSUME NEW x \in Sessions, Flagged(x) PROVE FALSE
  <2>1. pin[AdapterOf[x]] = x BY <1>4, Context DEF PinInv
  <2>2. QED BY <1>2, <1>3, <1>4, <2>1 DEF Flagged
<1>5. \A x \in Sessions \ {s} : /\ ~Proved(x) /\ ~Retiring(x) /\ turn[x].pc \notin Work
                                /\ Running(x) => pin[AdapterOf[s]] = x
  BY <1>2, Sole
<1>6. \A x \in Sessions \ {s} : outbox[x] = "none" BY <1>1 DEF ProofInv
<1>7. QED BY <1>2, <1>3, <1>4, <1>5, <1>6

\* A step of that turn after which it still works, or has ended
LEMMA AnswerStep ==
  ASSUME IInv, GInv, NEW s \in Sessions, turn[s].pc \in Work, SameTurns(s),
         UNCHANGED <<orphans, lock, owns>>,
         \A x \in Sessions : /\ entry'[x].providerEverStarted = entry[x].providerEverStarted
                             /\ entry'[x].blockCreatedByThisParent => entry[x].blockCreatedByThisParent,
         \A x \in Sessions \ {s} : outbox'[x] = outbox[x],
         turn'[s].pc \in {"idle", "publishing", "saving"},
         turn'[s].pc = "saving" => outbox'[s] = "none",
         BlockInv'
  PROVE  GInv'
<1>1. /\ orphans = 0
      /\ \A x \in Sessions : ~Flagged(x)
      /\ \A x \in Sessions \ {s} : /\ ~Proved(x) /\ ~Retiring(x)
                                    /\ turn[x].pc \notin Work /\ outbox[x] = "none"
  BY WorkAlone
<1>2. \A x \in Sessions : ~Flagged(x)' BY <1>1 DEF Flagged, Started
<1>3. ProofInv(s)'
  BY <1>1, <1>2 DEF ProofInv, Proved, Retiring, At, Work, Unsent, Preflight
<1>4. ASSUME NEW x \in Sessions \ {s} PROVE ProofInv(x)'
  <2>1. turn'[x] = turn[x] /\ ProofInv(x) BY DEF SameTurns, GInv
  <2>2. QED
    BY <1>1, <1>2, <2>1 DEF ProofInv, Proved, Retiring, At
<1>5. QED BY <1>3, <1>4 DEF GInv

LEMMA BeginDeliverySafe ==
  ASSUME IInv, TypeOK', GInv, NEW s \in Sessions, BeginDelivery(s)
  PROVE  GInv'
<1>1. TypeOK BY Context
<1>2. turn[s].pc \in Work /\ Active(s) /\ UNCHANGED <<rec, lock, prov, orphans>>
  BY DEF BeginDelivery, At, Work, Active, providers
<1>3. \A x \in Sessions \ {s} : outbox'[x] = outbox[x]
  BY <1>1, Names DEF BeginDelivery, TypeOK
<1>4. BlockInv'
  BY <1>2, WorkAlone DEF BlockInv, Running
<1>5. CASE Goto(s, "publishing") /\ UNCHANGED <<owns, pin, liveBlock, closing, entry>>
  <2>1. SameTurns(s) /\ turn'[s].pc = "publishing"
    BY <1>1, <1>5, GotoMoves DEF Places, Moves
  <2>2. QED BY <1>2, <1>3, <1>4, <1>5, <2>1, AnswerStep
<1>6. CASE FailTurn(s)
  <2>1. Ended(s, entry[s]) BY <1>2, <1>6, FailEnds
  <2>2. QED BY <1>2, <1>3, <1>4, <2>1, AnswerStep DEF Ended, SameEntries
<1>7. QED BY <1>5, <1>6, Zenon DEF BeginDelivery

LEMMA UpdateDeliverySafe ==
  ASSUME IInv, TypeOK', GInv, NEW s \in Sessions, UpdateDelivery(s)
  PROVE  GInv'
<1>1. TypeOK BY Context
<1>2. turn[s].pc \in Work /\ Active(s) /\ UNCHANGED <<rec, lock, prov, orphans>>
  BY DEF UpdateDelivery, At, Work, Active, providers
<1>3. \A x \in Sessions \ {s} : outbox'[x] = outbox[x]
  BY <1>1, Names DEF UpdateDelivery, TypeOK
<1>4. BlockInv'
  BY <1>2, WorkAlone DEF BlockInv, Running
<1>5. CASE /\ outbox' = [outbox EXCEPT ![s] = "none"]
           /\ Goto(s, "saving") /\ UNCHANGED <<owns, pin, liveBlock, closing, entry>>
  <2>1. SameTurns(s) /\ turn'[s].pc = "saving"
    BY <1>1, <1>5, GotoMoves DEF Places, Moves
  <2>2. outbox'[s] = "none" BY <1>1, <1>5 DEF TypeOK
  <2>3. QED BY <1>2, <1>3, <1>4, <1>5, <2>1, <2>2, AnswerStep
<1>6. CASE FailTurn(s)
  <2>1. Ended(s, entry[s]) BY <1>2, <1>6, FailEnds
  <2>2. QED BY <1>2, <1>3, <1>4, <2>1, AnswerStep DEF Ended, SameEntries
<1>7. QED BY <1>5, <1>6, Zenon DEF UpdateDelivery

LEMMA SaveReadySafe ==
  ASSUME IInv, TypeOK', GInv, NEW s \in Sessions, SaveReady(s)
  PROVE  GInv'
<1> DEFINE e == [entry[s] EXCEPT !.blockCreatedByThisParent = FALSE, !.safeToTransfer = TRUE]
<1>1. TypeOK /\ turn[s] \in TurnType /\ RecordInv(s) /\ ProofInv(s) BY Context DEF GInv
<1>2. turn[s].pc = "saving" /\ turn[s].pc \in Work /\ Active(s)
      /\ UNCHANGED <<outbox, lock, prov, orphans>>
  BY DEF SaveReady, At, Work, Active, providers
<1>3. ~Running(s) /\ outbox[s] = "none"
  BY <1>1, <1>2 DEF RecordInv, Staged, Running, ProofInv, Unsent
<1>4. BlockInv'
  <2>1. orphans = 0 /\ \A x \in Sessions : ~Running(x) /\ outbox[x] = "none"
    BY <1>2, <1>3, WorkAlone
  <2>2. QED BY <1>2, <2>1 DEF BlockInv, Running
<1>5. CASE FailTurn(s)
  <2>1. Ended(s, entry[s]) BY <1>2, <1>5, FailEnds
  <2>2. QED BY <1>2, <1>4, <2>1, AnswerStep DEF Ended, SameEntries
<1>6. CASE EndTurn(s, turn[s], e, TRUE, FALSE)
  <2>1. entry[s] \in EntryType BY <1>1 DEF TypeOK
  <2>2. e \in EntryType /\ e.providerEverStarted = entry[s].providerEverStarted
        /\ ~e.blockCreatedByThisParent
    BY <2>1 DEF EntryType
  <2> HIDE DEF e
  <2>3. PICK safe \in BOOLEAN, live \in BOOLEAN : EndTurn(s, turn[s], e, safe, live)
    BY <1>6, Zenon
  <2>4. Ended(s, e) BY <1>1, <1>2, <2>2, <2>3, EndTurnEffect
  <2>5. \A x \in Sessions :
          /\ entry'[x].providerEverStarted = entry[x].providerEverStarted
          /\ entry'[x].blockCreatedByThisParent => entry[x].blockCreatedByThisParent
    BY <2>2, <2>4 DEF Ended, SameEntries
  <2>6. SameTurns(s) /\ turn'[s].pc = "idle" /\ owns' = owns BY <2>4 DEF Ended
  <2>7. QED BY <1>2, <1>4, <2>5, <2>6, AnswerStep
<1>7. QED BY <1>5, <1>6, Zenon DEF SaveReady

-----------------------------------------------------------------------------
(***************************************************************************)
(* The invariant is inductive for a channel that is reliable.              *)
(***************************************************************************)
LEMMA GInvStep ==
  ASSUME Reliable, IInv, IInv', GInv, [Next]_vars
  PROVE  GInv'
<1>1. TypeOK /\ TypeOK' BY DEF IInv
<1>2. ASSUME NEW s \in Sessions, Handler(s) PROVE GInv'
  <2>1. CASE Identity(s) BY <1>1, <2>1, IdentityCalm
  <2>2. CASE DeliveryScan(s) BY <1>1, <2>2, DeliveryScanCalm
  <2>3. CASE CancelLoad(s) BY <1>1, <2>3, CancelLoadCalm
  <2>4. CASE CancelScan(s) BY <1>1, <2>4, CancelScanCalm
  <2>5. CASE CancelRetire(s) BY <1>1, <2>5, CancelRetireCalm
  <2>6. CASE RecoverScan(s) BY <1>1, <2>6, RecoverScanCalm
  <2>7. CASE RecoverRetire(s) BY <1>1, <2>7, RecoverRetireCalm
  <2>8. CASE Load(s) BY <2>8, LoadCalm
  <2>9. CASE Reconcile(s) BY <1>1, <2>9, ReconcileSafe
  <2>10. CASE Reload(s) BY <1>1, <2>10, ReloadCalm
  <2>11. CASE Invalidate(s) BY <1>1, <2>11, InvalidateSafe
  <2>12. CASE ReleaseLease(s) BY <1>1, <2>12, ReleaseLeaseCalm
  <2>13. CASE ProviderAnswers(s) BY <1>1, <2>13, ProviderAnswersCalm
  <2>14. CASE ProviderFails(s) BY <1>1, <2>14, ProviderFailsCalm
  <2>15. CASE Retirement(s) BY <1>1, <2>15, RetirementCalm
  <2>16. CASE StageCheckpoint(s) BY <1>1, <2>16, StageCheckpointCalm
  <2>17. CASE BeginDelivery(s) BY <1>1, <2>17, BeginDeliverySafe
  <2>18. CASE Publish(s) BY <1>1, <2>18, PublishCalm
  <2>19. CASE UpdateDelivery(s) BY <1>1, <2>19, UpdateDeliverySafe
  <2>20. CASE SaveReady(s) BY <1>1, <2>20, SaveReadySafe
  <2>21. QED
    BY <1>2, <2>1, <2>2, <2>3, <2>4, <2>5, <2>6, <2>7, <2>8, <2>9, <2>10, <2>11, <2>12,
       <2>13, <2>14, <2>15, <2>16, <2>17, <2>18, <2>19, <2>20 DEF Handler
<1>3. orphans \in Nat /\ DOMAIN outbox = Sessions \cup {"earlier"} BY <1>1 DEF TypeOK
<1>4. CASE Environment
  <2>1. ASSUME NEW s \in Sessions, Prompt(s) PROVE GInv' BY <1>1, <2>1, PromptCalm
  <2>2. ASSUME NEW s \in Sessions, Cancel(s) PROVE GInv' BY <1>1, <2>2, CancelCalm
  <2>3. ASSUME NEW s \in Sessions, ProviderExits(s) PROVE GInv'
    <3>1. UNCHANGED <<rec, lock, owns, entry, turn, outbox, orphans>>
      BY <2>3 DEF ProviderExits, durable, memory
    <3>2. \A x \in Sessions : Running(x)' => Running(x)
      BY <1>1, <2>3 DEF ProviderExits, Running, TypeOK
    <3>3. QED BY <1>1, <1>3, <3>1, <3>2, IdleCalm
  <2>4. ASSUME NEW d \in DOMAIN outbox, OperatorRetries(d) PROVE GInv'
    <3>1. UNCHANGED <<rec, lock, owns, entry, turn, prov, orphans>>
      BY <2>4 DEF OperatorRetries, memory, providers
    <3>2. \A x \in Sessions : Running(x)' => Running(x) BY <3>1 DEF Running
    <3>3. \A x \in Sessions : outbox'[x] # "none" => outbox[x] # "none"
      BY <1>1, <2>4 DEF OperatorRetries, TypeOK
    <3>4. QED BY <1>1, <1>3, <3>1, <3>2, <3>3, IdleCalm
  <2>5. ASSUME NEW a \in Adapters, CloseBegin(a) PROVE GInv' BY <1>1, <2>5, CloseBeginCalm
  <2>6. ASSUME NEW a \in Adapters, CloseDone(a) PROVE GInv'
    BY <1>1, <2>6, RestartCalm DEF CloseDone
  <2>7. ASSUME NEW a \in Adapters, Crash(a) PROVE GInv' BY <1>1, <2>7, CrashCalm
  <2>8. CASE OrphanExits
    <3>1. UNCHANGED <<rec, lock, owns, entry, turn, prov, outbox>> /\ orphans' <= orphans
      BY <1>3, <2>8 DEF OrphanExits, durable, memory
    <3>2. \A x \in Sessions : Running(x)' => Running(x) BY <3>1 DEF Running
    <3>3. QED BY <1>1, <3>1, <3>2, IdleCalm
  <2>9. QED
    BY <1>4, <2>1, <2>2, <2>3, <2>4, <2>5, <2>6, <2>7, <2>8 DEF Environment
<1>5. CASE UNCHANGED vars
  <2>1. UNCHANGED <<rec, lock, owns, entry, turn, prov, outbox, orphans>>
    BY <1>5 DEF vars, durable, memory, providers
  <2>2. \A x \in Sessions : Running(x)' => Running(x) BY <2>1 DEF Running
  <2>3. QED BY <1>1, <1>3, <2>1, <2>2, IdleCalm
<1>6. QED BY <1>2, <1>4, <1>5 DEF Next

LEMMA ChannelInvariance ==
  ASSUME Reliable PROVE Spec => [](IInv /\ GInv)
<1>1. Init => IInv /\ GInv BY IInvInit, GInvInit
<1>2. IInv /\ GInv /\ [Next]_vars => IInv' /\ GInv' BY IInvStep, GInvStep
<1>3. QED BY <1>1, <1>2, PTL DEF Spec

(***************************************************************************)
(* Whoever started a provider that may still run, a live adapter or one    *)
(* that died, the record says blocked: the block is written before the     *)
(* spawn and lifted only after a confirmed exit (acp-server.js,            *)
(* handlePrompt: invalidate before run, reconcile after retirement).       *)
(***************************************************************************)
THEOREM WorkStaysBlocked == ASSUME Reliable PROVE Spec => []WorkIsBlocked
<1>1. GInv => WorkIsBlocked BY DEF GInv, BlockInv, WorkIsBlocked
<1>2. QED BY <1>1, ChannelInvariance, PTL

(***************************************************************************)
(* No reconciliation, transfer or save makes the record ready or absent    *)
(* while the delivery of an answer of this channel is unsettled            *)
(* (acp-server.js, reconciliationRefusal and the order of outbox.update    *)
(* and save).                                                              *)
(***************************************************************************)
THEOREM ReadyMeansSettled == ASSUME Reliable PROVE Spec => []UnblockedIsSettled
<1>1. GInv => UnblockedIsSettled BY DEF GInv, BlockInv, UnblockedIsSettled
<1>2. QED BY <1>1, ChannelInvariance, PTL

(***************************************************************************)
(* However many adapters and sessions serve the channel, at most one       *)
(* provider works on it, an orphan of a dead adapter included.             *)
(***************************************************************************)
THEOREM AtMostOneProvider == ASSUME Reliable PROVE Spec => []OneProvider
<1>1. ASSUME IInv, GInv PROVE OneProvider
  <2> DEFINE R == {s \in Sessions : Running(s)}
  <2>1. orphans \in {0, 1} BY <1>1 DEF GInv, BlockInv
  <2>2. ASSUME NEW s \in Sessions, Running(s)
        PROVE  orphans = 0 /\ lock = AdapterOf[s] /\ pin[AdapterOf[s]] = s
    <3>1. EntryInv(s) /\ PinInv(s) /\ ProofInv(s) BY <1>1, Context DEF GInv
    <3>2. QED BY <2>2, <3>1 DEF EntryInv, PinInv, ProofInv, Running, Owner
  <2>3. CASE R = {}
    <3>1. Cardinality(R) = 0 BY <2>3, FS_EmptySet
    <3>2. QED BY <2>1, <3>1 DEF OneProvider
  <2>4. CASE R # {}
    <3>1. PICK s \in Sessions : Running(s) BY <2>4
    <3>2. R = {s} /\ orphans = 0 BY <2>2, <3>1
    <3> HIDE DEF R
    <3>3. Cardinality(R) = 1 BY <3>2, FS_Singleton
    <3>4. Cardinality({x \in Sessions : Running(x)}) = 1 BY <3>3 DEF R
    <3>5. QED BY <3>2, <3>4 DEF OneProvider
  <2>5. QED BY <2>3, <2>4
<1>2. IInv /\ GInv => OneProvider BY <1>1
<1>3. QED BY <1>2, ChannelInvariance, PTL

(***************************************************************************)
(* A record blocked by an adapter that died is left blocked by every other *)
(* adapter for as long as the provider it left behind runs                 *)
(* (docs/COMPATIBILITY.md:83; session-state.js, reconcile and save).       *)
(***************************************************************************)
THEOREM OrphansBlockStays == ASSUME Reliable PROVE Spec => DeadParentsBlockStays
<1>1. ASSUME IInv, GInv, [Next]_vars, rec.status = "blocked", orphans > 0
      PROVE  rec'.status = "blocked"
  <2>1. SUFFICES ASSUME rec' # rec PROVE rec'.status = "blocked"
    BY <1>1
  <2>2. PICK s \in Sessions :
          Reconcile(s) \/ Invalidate(s) \/ StageCheckpoint(s) \/ SaveReady(s)
    BY <1>1, <2>1, RecordWriters
  <2>3. RecordInv(s) /\ ProofInv(s) /\ TypeOK BY <1>1, Context DEF GInv
  <2>4. orphans # 0 BY <1>1, <2>3 DEF TypeOK
  <2>5. ~Reconcile(s)
    <3>1. At(s, "reconcile") => orphans = 0 BY <2>3 DEF ProofInv, Proved, Clear
    <3>2. QED BY <2>4, <3>1 DEF Reconcile
  <2>6. ~Invalidate(s)
    BY <1>1, <2>3 DEF RecordInv, Invalidate, At
  <2>7. ~SaveReady(s)
    <3>1. turn[s].pc \in Work => orphans = 0 BY <1>1, WorkAlone
    <3>2. SaveReady(s) => turn[s].pc \in Work BY DEF SaveReady, At, Work
    <3>3. QED BY <2>4, <3>1, <3>2
  <2>8. rec' = [rec EXCEPT !.conversationId = conv[s]]
    BY <2>1, <2>2, <2>5, <2>6, <2>7, Zenon DEF StageCheckpoint, WriteRecord
  <2>9. QED BY <1>1, <2>3, <2>8 DEF TypeOK
<1>2. IInv /\ GInv /\ [Next]_vars
        => [rec.status = "blocked" /\ orphans > 0 => rec'.status = "blocked"]_vars
  BY <1>1
<1>3. QED BY <1>2, ChannelInvariance, PTL DEF Spec, DeadParentsBlockStays

-----------------------------------------------------------------------------
(***************************************************************************)
(* One conversation, as long as the record's writes and removals succeed.  *)
(* A run of channel_lost_binding shows what a failed one can do.           *)
(***************************************************************************)
\* The session's provider object is bound to a conversation, or to none yet,
\* and may be asked to work.
Fit(s) ==
  /\ entry[s].bound /\ ~entry[s].needsReplacement
  /\ ~entry[s].stateError /\ ~entry[s].channelTransferInvalidated

\* The session that alone may name a conversation while the record has none
Founder(s) ==
  /\ Owner(s) /\ pin[AdapterOf[s]] = s
  /\ entry[s].blockCreatedByThisParent \/ At(s, "invalidate")
  /\ Active(s) => turn[s].transferFrom = "none" \/ turn[s].transferCommitted

ConvInv(s) ==
  /\ entry[s].safeToTransfer => rec.conversationId # "none"
  /\ Fit(s) => IF rec.conversationId = "none" THEN Founder(s) ELSE conv[s] = rec.conversationId

CInv == \A s \in Sessions : ConvInv(s)

LEMMA CInvInit == Init => CInv
  BY DEF Init, NewEntry, CInv, ConvInv, Fit

\* Another session, while s takes a step
Onlooker(x) ==
  /\ conv'[x] = conv[x]
  /\ Fit(x)' => Fit(x)
  /\ entry'[x].blockCreatedByThisParent = entry[x].blockCreatedByThisParent
  /\ entry'[x].safeToTransfer => entry[x].safeToTransfer

LEMMA SameIsOnlooker ==
  ASSUME NEW x \in Sessions, entry'[x] = entry[x], conv'[x] = conv[x]
  PROVE  Onlooker(x)
  BY DEF Onlooker, Fit

LEMMA ConvStep ==
  ASSUME IInv, CInv, NEW s \in Sessions, rec'.conversationId = rec.conversationId,
         LeaseKept(AdapterOf[s]), SameTurns(s), \A x \in Sessions \ {s} : Onlooker(x),
         \A b \in Adapters \ {AdapterOf[s]} : pin'[b] = pin[b],
         \A x \in Mates(s) \ {s} :
           rec.conversationId = "none" /\ Fit(x) /\ Owner(x) /\ pin[AdapterOf[s]] = x
             => Owner(x)' /\ pin'[AdapterOf[s]] = x,
         ConvInv(s)'
  PROVE  CInv'
<1>1. ASSUME NEW x \in Sessions \ {s} PROVE ConvInv(x)'
  <2>1. ConvInv(x) /\ Onlooker(x) /\ turn'[x] = turn[x] BY DEF CInv, SameTurns
  <2>2. ASSUME rec.conversationId = "none", Fit(x) PROVE Founder(x)'
    <3>1. Founder(x) BY <2>1, <2>2 DEF ConvInv
    <3>2. CASE x \in Mates(s)
      <4>1. AdapterOf[x] = AdapterOf[s] BY <3>2 DEF Mates
      <4>2. Owner(x)' /\ pin'[AdapterOf[x]] = x
        BY <2>2, <3>1, <3>2, <4>1 DEF Founder
      <4>3. QED BY <2>1, <3>1, <4>2 DEF Founder, Onlooker, At, Active
    <3>3. CASE x \notin Mates(s)
      <4>1. AdapterOf[x] # AdapterOf[s] /\ AdapterOf[x] \in Adapters BY <3>3, Names DEF Mates
      <4>2. Owner(x)' /\ pin'[AdapterOf[x]] = x
        BY <3>1, <4>1, Names DEF Founder, Owner, LeaseKept
      <4>3. QED BY <2>1, <3>1, <4>2 DEF Founder, Onlooker, At, Active
    <3>4. QED BY <3>2, <3>3
  <2>3. QED BY <2>1, <2>2 DEF ConvInv, Onlooker
<1>2. QED BY <1>1 DEF CInv

\* A turn that ends after its provider was asked to work must recover.
LEMMA EndedConv ==
  ASSUME IInv, CInv, NEW s \in Sessions, Ended(s, entry[s]), entry'[s].needsReplacement,
         UNCHANGED <<lock, conv>>, rec'.conversationId = rec.conversationId
  PROVE  CInv'
<1>1. \A x \in Sessions \ {s} : Onlooker(x)
  BY SameIsOnlooker DEF Ended, SameEntries
<1>2. ConvInv(s)' BY DEF CInv, ConvInv, Fit, Ended
<1>3. UNCHANGED <<owns, pin>> /\ SameTurns(s) BY DEF Ended
<1>4. LeaseKept(AdapterOf[s]) BY <1>3 DEF LeaseKept
<1>5. \A x \in Sessions : Owner(x) => Owner(x)' BY <1>3 DEF Owner
<1>6. \A x \in Mates(s) : x \in Sessions BY DEF Mates
<1>7. QED BY <1>1, <1>2, <1>3, <1>4, <1>5, <1>6, ConvStep

LEMMA FailedConv ==
  ASSUME IInv, CInv, NEW s \in Sessions, turn[s].pc \in Work, FailTurn(s),
         UNCHANGED <<lock, conv>>, rec'.conversationId = rec.conversationId
  PROVE  CInv'
<1>1. Active(s) BY DEF Active, Work
<1>2. QED BY <1>1, FailEnds, EndedConv

\* A preflight that ends, having left the other sessions what they had
LEMMA RefuseConv ==
  ASSUME IInv, CInv, NEW s \in Sessions, Active(s),
         NEW t \in TurnType, NEW entries \in [Sessions -> EntryType], NEW live \in BOOLEAN,
         Refuse(s, t, entries, live),
         UNCHANGED conv, rec'.conversationId = rec.conversationId,
         EnsureOwnership(AdapterOf[s]) \/ UNCHANGED <<lock, owns>>,
         \A x \in Sessions \ {s} : Onlooker(x),
         entries[s].safeToTransfer => entry[s].safeToTransfer,
         Fit(s)' => /\ Fit(s) /\ t = turn[s]
                    /\ \/ entries[s].blockCreatedByThisParent
                       \/ ~entry[s].blockCreatedByThisParent /\ ~At(s, "invalidate")
  PROVE  CInv'
<1> DEFINE a == AdapterOf[s]
<1>1. TypeOK /\ a \in Adapters /\ LeaseKept(a) /\ ~BusyElsewhere(s)
  BY Names, MatesIdle, EnsureKeepsLease DEF IInv
<1>2. /\ entry' = entries /\ SameTurns(s) /\ SameElsewhere(s)
      /\ GoesReleasing(s, t, entries[s]) \/ Unwound(s, t, entries[s])
  BY <1>1, RefuseEffect
<1>3. \A x \in Sessions : Owner(x) => Owner(x)'
  <2>1. ASSUME NEW x \in Sessions, Owner(x) PROVE Owner(x)'
    <3>1. AdapterOf[x] \in Adapters BY Names
    <3>2. CASE UNCHANGED <<lock, owns>> BY <2>1, <3>2 DEF Owner
    <3>3. CASE EnsureOwnership(a)
      BY <1>1, <2>1, <3>1, <3>3, Names DEF Owner, EnsureOwnership, TypeOK
    <3>4. QED BY <3>2, <3>3
  <2>2. QED BY <2>1
<1>4. \A x \in Mates(s) \ {s} : x \in Sessions /\ (pin[a] = x => pin'[a] = x)
  BY <1>2 DEF GoesReleasing, Unwound, Mates
<1>5. ASSUME Fit(s)', rec.conversationId = "none" PROVE Founder(s)'
  <2>1. Fit(s) /\ t = turn[s] BY <1>5
  <2>2. Founder(s) BY <1>5, <2>1 DEF CInv, ConvInv
  <2>3. entries[s].blockCreatedByThisParent BY <1>5, <2>2 DEF Founder
  <2>4. t.transferFrom = "none" \/ t.transferCommitted BY <2>1, <2>2 DEF Founder
  <2>5. pin'[a] = s
    BY <1>2, <2>2, <2>3, <2>4 DEF GoesReleasing, Unwound, Founder
  <2>6. Active(s)' => turn'[s].transferFrom = "none"
    <3>1. CASE Unwound(s, t, entries[s]) BY <3>1 DEF Unwound, Active
    <3>2. CASE GoesReleasing(s, t, entries[s])
      <4>1. /\ ~turn[s].ownershipPreviouslyHeld /\ turn'[s].transferFrom = turn[s].transferFrom
        BY <2>1, <3>2 DEF GoesReleasing
      <4>2. turn[s].transferFrom = "none"
        BY <4>1, Context DEF LeaseTurnInv, TransferInv
      <4>3. QED BY <4>1, <4>2
    <3>3. QED BY <1>2, <3>1, <3>2
  <2>7. QED BY <1>2, <1>3, <2>2, <2>3, <2>5, <2>6 DEF Founder
<1>6. ConvInv(s)'
  <2>1. ConvInv(s) BY DEF CInv
  <2>2. entry'[s].safeToTransfer => rec'.conversationId # "none"
    BY <1>2, <2>1 DEF ConvInv
  <2>3. Fit(s)' => Fit(s) OBVIOUS
  <2>4. QED BY <1>5, <2>1, <2>2, <2>3 DEF ConvInv
<1>7. QED BY <1>1, <1>2, <1>3, <1>4, <1>6, ConvStep DEF SameElsewhere

LEMMA KeptRefuseConv ==
  ASSUME IInv, CInv, NEW s \in Sessions, Active(s), ~At(s, "invalidate"),
         Refuse(s, turn[s], entry, liveBlock[AdapterOf[s]]),
         UNCHANGED conv, rec'.conversationId = rec.conversationId,
         EnsureOwnership(AdapterOf[s]) \/ UNCHANGED <<lock, owns>>
  PROVE  CInv'
<1>1. /\ turn[s] \in TurnType /\ entry \in [Sessions -> EntryType]
      /\ liveBlock[AdapterOf[s]] \in BOOLEAN
  BY Names DEF IInv, TypeOK
<1>2. entry' = entry BY DEF Refuse
<1>3. \A x \in Sessions \ {s} : Onlooker(x) BY <1>2, SameIsOnlooker
<1>4. Fit(s)' => Fit(s) BY <1>2 DEF Fit
<1>5. entry[s].blockCreatedByThisParent \in BOOLEAN BY <1>1 DEF EntryType
<1>6. QED BY <1>1, <1>3, <1>4, <1>5, RefuseConv

LEMMA JustRefuseConv ==
  ASSUME IInv, CInv, NEW s \in Sessions, Active(s), ~At(s, "invalidate"), JustRefuse(s)
  PROVE  CInv'
  BY KeptRefuseConv DEF JustRefuse, durable, providers

\* A turn that goes on, with the channel still its session's
LEMMA GoOnConv ==
  ASSUME IInv, CInv, NEW s \in Sessions, Active(s), SameTurns(s), UNCHANGED <<pin, conv>>,
         rec'.conversationId = rec.conversationId,
         EnsureOwnership(AdapterOf[s]) \/ UNCHANGED <<lock, owns>>,
         \A x \in Sessions \ {s} : Onlooker(x),
         entry'[s].safeToTransfer => entry[s].safeToTransfer,
         Fit(s)' => Fit(s),
         entry[s].blockCreatedByThisParent \/ At(s, "invalidate") =>
           entry'[s].blockCreatedByThisParent \/ At(s, "invalidate")',
         turn'[s].transferFrom = turn[s].transferFrom,
         turn'[s].transferCommitted = turn[s].transferCommitted
  PROVE  CInv'
<1> DEFINE a == AdapterOf[s]
<1>1. TypeOK /\ a \in Adapters /\ LeaseKept(a) BY Names, EnsureKeepsLease DEF IInv
<1>2. \A x \in Sessions : Owner(x) => Owner(x)'
  <2>1. ASSUME NEW x \in Sessions, Owner(x) PROVE Owner(x)'
    <3>1. AdapterOf[x] \in Adapters BY Names
    <3>2. CASE UNCHANGED <<lock, owns>> BY <2>1, <3>2 DEF Owner
    <3>3. CASE EnsureOwnership(a)
      BY <1>1, <2>1, <3>1, <3>3, Names DEF Owner, EnsureOwnership, TypeOK
    <3>4. QED BY <3>2, <3>3
  <2>2. QED BY <2>1
<1>3. ConvInv(s)'
  BY <1>2 DEF CInv, ConvInv, Founder
<1>4. \A x \in Mates(s) : x \in Sessions BY DEF Mates
<1>5. QED BY <1>1, <1>2, <1>3, <1>4, ConvStep

-----------------------------------------------------------------------------
(***************************************************************************)
(* Each step keeps the conversation.                                       *)
(***************************************************************************)
LEMMA PinnedConv ==
  ASSUME IInv, CInv, NEW s \in Sessions, Active(s), ~At(s, "invalidate"),
         NEW t \in TurnType, Pinned(s, t),
         \/ pin[AdapterOf[s]] = "none"
         \/ pin[AdapterOf[s]] = s /\ t.transferFrom = turn[s].transferFrom
                                  /\ t.transferCommitted = turn[s].transferCommitted
         \/ pin[AdapterOf[s]] \in Mates(s) \ {s}
              /\ (rec.conversationId # "none" \/ ~Fit(pin[AdapterOf[s]]))
  PROVE  CInv'
<1> DEFINE a == AdapterOf[s]
           pc == IF entry[s].needsReplacement THEN "recoverScan" ELSE "load"
<1>1. TypeOK /\ a \in Adapters /\ ConvInv(s) BY Names DEF IInv, CInv
<1>2. turn'[s] = [t EXCEPT !.pc = pc] /\ SameTurns(s)
  BY <1>1 DEF Pinned, TypeOK, SameTurns
<1>3. /\ turn'[s].transferFrom = t.transferFrom
      /\ turn'[s].transferCommitted = t.transferCommitted
  BY <1>2 DEF TurnType
<1>4. /\ UNCHANGED <<rec, lock, owns, entry, conv>> /\ pin'[a] = s
      /\ \A b \in Adapters \ {a} : pin'[b] = pin[b]
  BY <1>1 DEF Pinned, durable, providers, TypeOK
<1>5. (\A x \in Sessions \ {s} : Onlooker(x)) /\ LeaseKept(a)
  BY <1>4, SameIsOnlooker DEF LeaseKept
<1>6. \A x \in Mates(s) \ {s} : /\ x # "none" /\ (Owner(x) => Owner(x)')
                                /\ pin[a] = x => rec.conversationId # "none" \/ ~Fit(x)
  BY <1>4, Names DEF Mates, Owner
<1>7. ConvInv(s)'
  <2>1. ASSUME Fit(s), rec.conversationId = "none" PROVE Founder(s)'
    <3>1. Founder(s) BY <1>1, <2>1 DEF ConvInv
    <3>2. pin[a] = s BY <3>1 DEF Founder
    <3>3. /\ t.transferFrom = turn[s].transferFrom
          /\ t.transferCommitted = turn[s].transferCommitted
      BY <3>2, Names
    <3>4. QED BY <1>3, <1>4, <3>1, <3>2, <3>3 DEF Founder, Owner
  <2>2. QED BY <1>1, <1>4, <2>1 DEF ConvInv, Fit
<1>8. QED BY <1>4, <1>2, <1>5, <1>6, <1>7, ConvStep

LEMMA IdentityConv ==
  ASSUME IInv, CInv, NEW s \in Sessions, Identity(s)
  PROVE  CInv'
<1>1. TypeOK /\ turn[s] \in TurnType BY Context
<1>2. Active(s) /\ ~At(s, "invalidate") BY DEF Identity, At, Active
<1>3. CASE JustRefuse(s) BY <1>2, <1>3, JustRefuseConv
<1>4. CASE pin[AdapterOf[s]] \in {"none", s} /\ Pinned(s, turn[s])
  BY <1>1, <1>2, <1>4, PinnedConv
<1>5. ASSUME NEW pc, NEW x,
             turn' = [turn EXCEPT ![s].existing = x, ![s].pc = pc],
             UNCHANGED <<durable, lock, owns, pin, liveBlock, closing, entry, providers>>
      PROVE  CInv'
  <2>1. turn'[s] = [turn[s] EXCEPT !.existing = x, !.pc = pc] /\ SameTurns(s)
    BY <1>1, <1>5 DEF TypeOK, SameTurns
  <2>2. /\ turn'[s].transferFrom = turn[s].transferFrom
        /\ turn'[s].transferCommitted = turn[s].transferCommitted
    BY <1>1, <2>1 DEF TurnType
  <2>3. UNCHANGED <<rec, conv>> /\ \A y \in Sessions : Onlooker(y)
    BY <1>5, SameIsOnlooker DEF durable, providers
  <2>4. QED BY <1>2, <1>5, <2>1, <2>2, <2>3, GoOnConv DEF Onlooker
<1>6. QED BY <1>3, <1>4, <1>5, Zenon DEF Identity

LEMMA DeliveryScanConv ==
  ASSUME IInv, CInv, NEW s \in Sessions, DeliveryScan(s)
  PROVE  CInv'
<1> DEFINE old == turn[s].existing
           t == [turn[s] EXCEPT !.transferFrom = old]
<1>1. turn[s] \in TurnType /\ TransferInv(s) BY Context
<1>2. turn[s].pc = "deliveryScan" /\ Active(s) /\ ~At(s, "invalidate")
  BY DEF DeliveryScan, At, Active
<1>3. CASE JustRefuse(s) BY <1>2, <1>3, JustRefuseConv
<1>4. CASE Pinned(s, t)
  <2>1. old \in Mates(s) \ {s} /\ entry[old].safeToTransfer /\ pin[AdapterOf[s]] \in {old, "none"}
    BY <1>1, <1>2 DEF TransferInv, Taking, Preflight
  <2>2. rec.conversationId # "none" BY <2>1 DEF CInv, ConvInv, Mates
  <2>3. t \in TurnType BY <1>1, <2>1 DEF TurnType, Mates
  <2> HIDE DEF t
  <2>4. QED BY <1>2, <1>4, <2>1, <2>2, <2>3, PinnedConv
<1>5. QED BY <1>3, <1>4 DEF DeliveryScan

LEMMA CancelLoadConv ==
  ASSUME IInv, CInv, NEW s \in Sessions, CancelLoad(s)
  PROVE  CInv'
<1>1. TypeOK BY Context
<1>2. Active(s) /\ ~At(s, "invalidate") BY DEF CancelLoad, At, Active
<1>3. CASE JustRefuse(s) BY <1>2, <1>3, JustRefuseConv
<1>4. CASE /\ EnsureOwnership(AdapterOf[s]) /\ UNCHANGED <<durable, closing, providers>>
           /\ Refuse(s, turn[s], entry, liveBlock[AdapterOf[s]])
  BY <1>2, <1>4, KeptRefuseConv DEF durable, providers
<1>5. CASE /\ EnsureOwnership(AdapterOf[s]) /\ Goto(s, "cancelScan")
           /\ UNCHANGED <<durable, pin, liveBlock, closing, entry, providers>>
  <2>1. Moves(s, "cancelScan") BY <1>1, <1>5, GotoMoves DEF Places
  <2>2. UNCHANGED <<rec, conv>> /\ \A y \in Sessions : Onlooker(y)
    BY <1>5, SameIsOnlooker DEF durable, providers
  <2>3. QED BY <1>2, <1>5, <2>1, <2>2, GoOnConv DEF Moves, Onlooker
<1>6. QED BY <1>3, <1>4, <1>5, Zenon DEF CancelLoad

\* A turn that goes on and leaves entries and leases alone
LEMMA MovesConv ==
  ASSUME IInv, CInv, NEW s \in Sessions, Active(s), ~At(s, "invalidate"), NEW pc, Moves(s, pc),
         UNCHANGED <<pin, conv, lock, owns, entry>>, rec'.conversationId = rec.conversationId
  PROVE  CInv'
<1>1. \A y \in Sessions : Onlooker(y) BY SameIsOnlooker
<1>2. QED BY <1>1, GoOnConv DEF Moves, Onlooker

LEMMA RetireConv ==
  ASSUME IInv, CInv, NEW s \in Sessions, turn[s].pc \in {"cancelScan", "recoverScan"},
         NEW x, NEW pc \in Places, Retire(s, x, pc)
  PROVE  CInv'
<1>1. TypeOK BY Context
<1>2. Active(s) /\ ~At(s, "invalidate") BY DEF At, Active
<1>3. CASE JustRefuse(s) BY <1>2, <1>3, JustRefuseConv
<1>4. CASE /\ Goto(s, pc)
           /\ UNCHANGED <<durable, lock, owns, pin, liveBlock, closing, entry, conv, orphans>>
  <2>1. Moves(s, pc) BY <1>1, <1>4, GotoMoves
  <2>2. QED BY <1>2, <1>4, <2>1, MovesConv DEF durable
<1>5. QED BY <1>3, <1>4, Zenon DEF Retire

LEMMA CancelScanConv ==
  ASSUME IInv, CInv, NEW s \in Sessions, CancelScan(s)
  PROVE  CInv'
<1>1. Active(s) /\ ~At(s, "invalidate") /\ turn[s].pc = "cancelScan"
  BY DEF CancelScan, At, Active
<1>2. CASE JustRefuse(s) BY <1>1, <1>2, JustRefuseConv
<1>3. CASE Retire(s, turn[s].existing, "cancelRetire") BY <1>1, <1>3, RetireConv DEF Places
<1>4. QED BY <1>2, <1>3, Zenon DEF CancelScan

LEMMA CancelRetireConv ==
  ASSUME IInv, CInv, NEW s \in Sessions, CancelRetire(s)
  PROVE  CInv'
<1> DEFINE old == turn[s].existing
           t == [turn[s] EXCEPT !.transferFrom = old, !.explicitCancelTransfer = TRUE,
                                !.directProviderRetired = TRUE]
<1>1. turn[s] \in TurnType /\ TransferInv(s) BY Context
<1>2. turn[s].pc = "cancelRetire" /\ Active(s) /\ ~At(s, "invalidate")
  BY DEF CancelRetire, At, Active
<1>3. CASE JustRefuse(s) BY <1>2, <1>3, JustRefuseConv
<1>4. CASE Pinned(s, t)
  <2>1. /\ old \in Mates(s) \ {s} /\ entry[old].needsReplacement
        /\ pin[AdapterOf[s]] \in {old, "none"}
    BY <1>1, <1>2 DEF TransferInv, Taking, Preflight
  <2>2. ~Fit(old) BY <2>1 DEF Fit
  <2>3. t \in TurnType BY <1>1, <2>1 DEF TurnType, Mates
  <2> HIDE DEF t
  <2>4. QED BY <1>2, <1>4, <2>1, <2>2, <2>3, PinnedConv
<1>5. QED BY <1>3, <1>4, Zenon DEF CancelRetire

LEMMA RecoverScanConv ==
  ASSUME IInv, CInv, NEW s \in Sessions, RecoverScan(s)
  PROVE  CInv'
<1>1. Active(s) /\ ~At(s, "invalidate") /\ turn[s].pc = "recoverScan"
  BY DEF RecoverScan, At, Active
<1>2. CASE JustRefuse(s) BY <1>1, <1>2, JustRefuseConv
<1>3. CASE Retire(s, s, "recoverRetire") BY <1>1, <1>3, RetireConv DEF Places
<1>4. QED BY <1>2, <1>3, Zenon DEF RecoverScan

LEMMA RecoverRetireConv ==
  ASSUME IInv, CInv, NEW s \in Sessions, RecoverRetire(s)
  PROVE  CInv'
<1>1. TypeOK /\ turn[s] \in TurnType BY Context
<1>2. Active(s) /\ ~At(s, "invalidate") BY DEF RecoverRetire, At, Active
<1>3. CASE JustRefuse(s) BY <1>2, <1>3, JustRefuseConv
<1>4. CASE /\ turn' = [turn EXCEPT ![s].directProviderRetired = TRUE, ![s].pc = "load"]
           /\ UNCHANGED <<durable, lock, owns, pin, liveBlock, closing, entry, providers>>
  <2>1. turn'[s] = [turn[s] EXCEPT !.directProviderRetired = TRUE, !.pc = "load"]
        /\ SameTurns(s)
    BY <1>1, <1>4 DEF TypeOK, SameTurns
  <2>2. Moves(s, "load") BY <1>1, <2>1 DEF TurnType, Moves
  <2>3. QED BY <1>2, <1>4, <2>2, MovesConv DEF durable, providers
<1>5. QED BY <1>3, <1>4, Zenon DEF RecoverRetire

\* A former owner has lost its claim.
LEMMA StaleOnlooker ==
  ASSUME TypeOK, NEW s \in Sessions, NEW x \in Sessions,
         entry'[x] = Stale(s)[x], conv'[x] = conv[x]
  PROVE  Onlooker(x)
<1>1. CASE x = turn[s].transferFrom
  BY <1>1, StaleEffect DEF Onlooker, Fit
<1>2. CASE x # turn[s].transferFrom
  BY <1>2, StaleEffect DEF Onlooker, Fit
<1>3. QED BY <1>1, <1>2

LEMMA AdmitConv ==
  ASSUME IInv, IInv', CInv, NEW s \in Sessions, turn[s].pc \in {"load", "reload"},
         Admit(s), rec.status # "blocked",
         \/ EnsureOwnership(AdapterOf[s])
         \/ UNCHANGED <<lock, owns>>
  PROVE  CInv'
<1> DEFINE a == AdapterOf[s]
           from == turn[s].transferFrom
<1>1. /\ TypeOK /\ RecordForm /\ TransferInv(s) /\ PinInv(s) /\ turn[s] \in TurnType
      /\ a \in Adapters /\ entry[s] \in EntryType
  BY Context DEF TypeOK
<1>2. Active(s) /\ ~At(s, "invalidate") BY DEF Active, At
<1>3. from # s BY <1>1, <1>2, Names DEF TransferInv, Mates
<1>4. rec' = rec BY AdmitCases DEF durable
<1>5. CASE AdmitNothingToTake(s)
  BY <1>2, <1>4, <1>5, KeptRefuseConv DEF AdmitNothingToTake
<1>6. Stale(s)[s] = entry[s] BY <1>1, <1>3, StaleEffect
<1>7. CASE AdmitClosed(s)
  <2> DEFINE e == [Stale(s)[s] EXCEPT !.blockCreatedByThisParent = FALSE]
             entries == [Stale(s) EXCEPT ![s].blockCreatedByThisParent = FALSE]
             t == Committed(s)
  <2>1. e \in EntryType /\ e.bound = entry[s].bound /\ e.safeToTransfer = entry[s].safeToTransfer
    BY <1>1, <1>6 DEF EntryType
  <2>2. /\ entries \in [Sessions -> EntryType] /\ t \in TurnType /\ liveBlock[a] \in BOOLEAN
        /\ entries[s] = e /\ \A x \in Sessions \ {s} : entries[x] = Stale(s)[x]
    BY <1>1, <2>1, StaleType DEF TypeOK
  <2>3. Refuse(s, t, entries, liveBlock[a]) /\ UNCHANGED conv
    BY <1>7, Zenon DEF AdmitClosed
  <2>4. ~entry[s].bound BY <1>7 DEF AdmitClosed
  <2> HIDE DEF entries, t, e
  <2>5. entry' = entries BY <2>3 DEF Refuse
  <2>6. \A x \in Sessions \ {s} : Onlooker(x) BY <1>1, <2>2, <2>3, <2>5, StaleOnlooker
  <2>7. ~Fit(s)' BY <2>1, <2>2, <2>4, <2>5 DEF Fit
  <2>8. entries[s].safeToTransfer => entry[s].safeToTransfer BY <2>1, <2>2
  <2>9. QED BY <1>2, <1>4, <2>2, <2>3, <2>6, <2>7, <2>8, RefuseConv
<1>8. CASE AdmitBound(s)
  <2>1. turn'[s] = [Committed(s) EXCEPT !.pc = "invalidate"] /\ SameTurns(s)
    BY <1>1, <1>8 DEF AdmitBound, SameTurns, TypeOK
  <2>2. turn'[s].pc = "invalidate" BY <1>1, <2>1 DEF Committed, TurnType
  <2>3. UNCHANGED pin /\ \A x \in Sessions \ {s} : entry'[x] = Stale(s)[x] /\ conv'[x] = conv[x]
    BY <1>1, <1>8, StaleType DEF AdmitBound, TypeOK
  <2>4. \A x \in Sessions \ {s} : Onlooker(x) BY <1>1, <2>3, StaleOnlooker
  <2>5. conv'[s] = BoundConversation(s) BY <1>1, <1>8 DEF AdmitBound, TypeOK
  <2>6. entry'[s].safeToTransfer = entry[s].safeToTransfer
    <3>1. PICK b : entry'[s] = [entry[s] EXCEPT !.blockCreatedByThisParent = FALSE,
                                                !.cachedConversationBound = b,
                                                !.needsReplacement = FALSE,
                                                !.bound = TRUE]
      BY <1>1, <1>6, <1>8, StaleType DEF AdmitBound
    <3>2. QED BY <1>1, <3>1 DEF EntryType
  <2>7. pin[a] = s BY <1>1 DEF PinInv, Pinning
  <2>8. Owner(s)' /\ TransferInv(s)'
    BY <2>2, Context DEF IInv, SessionInv, TurnInv, LeaseTurnInv, Holding
  <2>9. rec.conversationId = "none" => Founder(s)'
    BY <2>2, <2>3, <2>7, <2>8 DEF Founder, At, TransferInv
  <2>10. rec.conversationId # "none" => conv'[s] = rec.conversationId
    <3>1. SUFFICES ASSUME rec.conversationId # "none" PROVE conv'[s] = rec.conversationId
      OBVIOUS
    <3>2. rec.status = "ready" BY <1>1, <3>1 DEF RecordForm, TypeOK
    <3>3. CASE entry[s].needsReplacement \/ ~entry[s].bound
      BY <2>5, <3>2, <3>3 DEF BoundConversation
    <3>4. CASE ~entry[s].needsReplacement /\ entry[s].bound
      <4>1. Fit(s) BY <1>2, <3>4, MatesIdle DEF Fit
      <4>2. conv[s] = rec.conversationId BY <3>1, <4>1 DEF CInv, ConvInv
      <4>3. QED BY <2>5, <3>4, <4>2 DEF BoundConversation
    <3>5. QED BY <3>3, <3>4
  <2>11. ConvInv(s)'
    <3>1. entry'[s].safeToTransfer => rec'.conversationId # "none"
      BY <1>4, <2>6 DEF CInv, ConvInv
    <3>2. QED BY <1>4, <2>9, <2>10, <3>1 DEF ConvInv
  <2>12. LeaseKept(a) BY <1>1, EnsureKeepsLease
  <2>13. \A x \in Mates(s) : pin[a] = x => x = s BY <2>7
  <2>14. QED BY <1>4, <2>1, <2>3, <2>4, <2>11, <2>12, <2>13, ConvStep
<1>9. QED BY <1>5, <1>7, <1>8, AdmitCases

LEMMA LoadConv ==
  ASSUME IInv, IInv', CInv, NEW s \in Sessions, Load(s)
  PROVE  CInv'
<1>1. TypeOK /\ turn[s] \in TurnType BY Context
<1>2. turn[s].pc = "load" /\ Active(s) /\ ~At(s, "invalidate") BY DEF Load, At, Active
<1>3. CASE JustRefuse(s) BY <1>2, <1>3, JustRefuseConv
<1>4. CASE /\ EnsureOwnership(AdapterOf[s]) /\ UNCHANGED <<durable, closing, providers>>
           /\ Refuse(s, turn[s], entry, liveBlock[AdapterOf[s]])
  BY <1>2, <1>4, KeptRefuseConv DEF durable, providers
<1>5. CASE /\ EnsureOwnership(AdapterOf[s])
           /\ turn' = [turn EXCEPT ![s].directProviderRetired = TRUE, ![s].pc = "reconcile"]
           /\ UNCHANGED <<durable, pin, liveBlock, closing, entry, providers>>
  <2>1. turn'[s] = [turn[s] EXCEPT !.directProviderRetired = TRUE, !.pc = "reconcile"]
        /\ SameTurns(s)
    BY <1>1, <1>5 DEF TypeOK, SameTurns
  <2>2. /\ turn'[s].transferFrom = turn[s].transferFrom
        /\ turn'[s].transferCommitted = turn[s].transferCommitted
    BY <1>1, <2>1 DEF TurnType
  <2>3. UNCHANGED <<rec, conv>> /\ \A y \in Sessions : Onlooker(y)
    BY <1>5, SameIsOnlooker DEF durable, providers
  <2>4. QED BY <1>2, <1>5, <2>1, <2>2, <2>3, GoOnConv DEF Onlooker
<1>6. CASE EnsureOwnership(AdapterOf[s]) /\ rec.status # "blocked" /\ Admit(s)
  BY <1>2, <1>6, AdmitConv
<1>7. QED BY <1>3, <1>4, <1>5, <1>6, Zenon DEF Load

LEMMA ReloadConv ==
  ASSUME IInv, IInv', CInv, NEW s \in Sessions, Reload(s)
  PROVE  CInv'
<1>1. turn[s].pc = "reload" /\ Active(s) /\ ~At(s, "invalidate") BY DEF Reload, At, Active
<1>2. CASE JustRefuse(s) BY <1>1, <1>2, JustRefuseConv
<1>3. CASE rec.status # "blocked" /\ UNCHANGED <<lock, owns>> /\ Admit(s)
  BY <1>1, <1>3, AdmitConv
<1>4. QED BY <1>2, <1>3, Zenon DEF Reload

LEMMA ReconcileConv ==
  ASSUME "write" \notin Faults, IInv, CInv, NEW s \in Sessions, Reconcile(s)
  PROVE  CInv'
<1>1. TypeOK /\ turn[s] \in TurnType BY Context
<1>2. Active(s) /\ ~At(s, "invalidate") BY DEF Reconcile, At, Active
<1>3. \E new \in {[rec EXCEPT !.status = "absent"], [rec EXCEPT !.status = "ready"]} :
        WriteRecord(new, TRUE)
  BY DEF Reconcile, WriteRecord
<1>4. rec'.conversationId = rec.conversationId
  BY <1>1, <1>3 DEF WriteRecord, TypeOK
<1>5. /\ turn' = [turn EXCEPT ![s].clearedCheckpoint = @ \/ rec.conversationId = "none",
                              ![s].pc = "reload"]
      /\ UNCHANGED <<outbox, lock, owns, pin, liveBlock, closing, entry, providers>>
  BY Zenon DEF Reconcile, WriteRecord
<1>6. turn'[s] = [turn[s] EXCEPT
        !.clearedCheckpoint = turn[s].clearedCheckpoint \/ rec.conversationId = "none",
        !.pc = "reload"] /\ SameTurns(s)
  BY <1>1, <1>5 DEF TypeOK, SameTurns
<1>7. Moves(s, "reload") BY <1>1, <1>6 DEF TurnType, Moves
<1>8. QED BY <1>2, <1>4, <1>5, <1>7, MovesConv DEF providers

LEMMA InvalidateConv ==
  ASSUME "write" \notin Faults, IInv, CInv, NEW s \in Sessions, Invalidate(s)
  PROVE  CInv'
<1> DEFINE a == AdapterOf[s]
           e == [entry[s] EXCEPT !.blockCreatedByThisParent = TRUE]
           entries == [entry EXCEPT ![s] = e]
<1>1. /\ TypeOK /\ turn[s] \in TurnType /\ a \in Adapters /\ entry[s] \in EntryType
      /\ entry \in [Sessions -> EntryType] /\ liveBlock[a] \in BOOLEAN
  BY Context DEF TypeOK
<1>2. Active(s) BY DEF Invalidate, At, Active
<1>3. UNCHANGED <<lock, owns, conv>> BY DEF Invalidate
<1>4. ~WriteRecord([rec EXCEPT !.status = "blocked"], FALSE) BY DEF WriteRecord
<1>5. rec'.conversationId = rec.conversationId
  <2>1. WriteRecord([rec EXCEPT !.status = "blocked"], TRUE) BY <1>4, Zenon DEF Invalidate
  <2>2. QED BY <1>1, <2>1 DEF WriteRecord, TypeOK
<1>6. /\ e.bound = entry[s].bound /\ e.needsReplacement = entry[s].needsReplacement
      /\ e.stateError = entry[s].stateError /\ e.safeToTransfer = entry[s].safeToTransfer
      /\ e.channelTransferInvalidated = entry[s].channelTransferInvalidated
      /\ e.blockCreatedByThisParent
  BY <1>1 DEF EntryType
<1>7. CASE Refuse(s, turn[s], entries, TRUE)
  <2>1. e \in EntryType BY <1>1, EntryTypes
  <2>2. /\ entries \in [Sessions -> EntryType] /\ entries[s] = e
        /\ \A y \in Sessions \ {s} : entries[y] = entry[y]
    BY <1>1, <2>1
  <2> HIDE DEF e, entries
  <2>3. entry' = entries BY <1>7 DEF Refuse
  <2>4. \A x \in Sessions \ {s} : Onlooker(x) BY <1>3, <2>2, <2>3, SameIsOnlooker
  <2>5. Fit(s)' => Fit(s) BY <1>6, <2>2, <2>3 DEF Fit
  <2>6. PICK live \in BOOLEAN : Refuse(s, turn[s], entries, live) BY <1>7
  <2>7. QED BY <1>1, <1>2, <1>3, <1>5, <1>6, <2>2, <2>4, <2>5, <2>6, RefuseConv
<1>8. CASE /\ entry' = [entry EXCEPT ![s] = [e EXCEPT !.providerEverStarted = TRUE]]
           /\ Goto(s, "provider") /\ UNCHANGED pin
  <2>1. Moves(s, "provider") BY <1>1, <1>8, GotoMoves DEF Places
  <2>2. entry'[s] = [e EXCEPT !.providerEverStarted = TRUE]
        /\ \A x \in Sessions \ {s} : entry'[x] = entry[x]
    BY <1>1, <1>8
  <2>3. /\ entry'[s].blockCreatedByThisParent /\ (Fit(s)' => Fit(s))
        /\ entry'[s].safeToTransfer = entry[s].safeToTransfer
    BY <1>1, <2>2 DEF EntryType, Fit
  <2>4. \A x \in Sessions \ {s} : Onlooker(x) BY <1>3, <2>2, SameIsOnlooker
  <2>5. QED BY <1>2, <1>3, <1>5, <1>8, <2>1, <2>3, <2>4, GoOnConv DEF Moves
<1>9. QED BY <1>4, <1>7, <1>8, Zenon DEF Invalidate

\* A session that gives its lease back must be bound anew, or is frozen.
LEMMA ReleaseLeaseConv ==
  ASSUME IInv, CInv, NEW s \in Sessions, ReleaseLease(s)
  PROVE  CInv'
<1> DEFINE a == AdapterOf[s]
<1>1. /\ TypeOK /\ turn[s] \in TurnType /\ LeaseTurnInv(s) /\ PinInv(s) /\ a \in Adapters
      /\ entry \in [Sessions -> EntryType] /\ entry[s] \in EntryType
  BY Context DEF TypeOK
<1>2. turn[s].pc = "releasing" /\ Owner(s) /\ pin[a] = s /\ UNCHANGED <<rec, conv>>
  BY <1>1 DEF ReleaseLease, At, LeaseTurnInv, Holding, PinInv, Pinning, durable, providers
<1>3. SameTurns(s) /\ \A b \in Adapters \ {a} : pin'[b] = pin[b]
  BY <1>1 DEF ReleaseLease, Unwind, TypeOK, SameTurns
<1>4. LeaseKept(a) BY <1>1, <1>2 DEF ReleaseLease, LeaseKept, Owner, TypeOK
<1>5. ~Fit(s)' /\ SameEntries(s) /\ entry'[s].safeToTransfer = entry[s].safeToTransfer
  <2>1. CASE entry' = [entry EXCEPT ![s].bound = FALSE]
    <3>1. entry'[s] = [entry[s] EXCEPT !.bound = FALSE] /\ SameEntries(s)
      BY <1>1, <2>1 DEF SameEntries
    <3>2. QED BY <1>1, <3>1 DEF EntryType, Fit
  <2>2. CASE entry' = [entry EXCEPT ![s].stateError = TRUE]
    <3>1. entry'[s] = [entry[s] EXCEPT !.stateError = TRUE] /\ SameEntries(s)
      BY <1>1, <2>2 DEF SameEntries
    <3>2. QED BY <1>1, <3>1 DEF EntryType, Fit
  <2>3. QED BY <2>1, <2>2, Zenon DEF ReleaseLease
<1>6. \A x \in Sessions \ {s} : Onlooker(x) BY <1>2, <1>5, SameIsOnlooker DEF SameEntries
<1>7. ConvInv(s)' BY <1>2, <1>5 DEF CInv, ConvInv
<1>8. QED BY <1>2, <1>3, <1>4, <1>6, <1>7, ConvStep

LEMMA ProviderAnswersConv ==
  ASSUME IInv, CInv, NEW s \in Sessions, ProviderAnswers(s)
  PROVE  CInv'
<1>1. TypeOK /\ WorkInv(s) /\ turn[s] \in TurnType BY Context
<1>2. turn[s].pc = "provider" /\ Active(s) BY DEF ProviderAnswers, At, Active
<1>3. /\ UNCHANGED <<rec, lock, owns, pin, entry>>
      /\ Moves(s, "retiring")
  BY <1>1, GotoMoves DEF ProviderAnswers, durable, Places
<1>4. \A x \in Sessions \ {s} : Onlooker(x)
  <2>1. \A x \in Sessions \ {s} : conv'[x] = conv[x] BY <1>1 DEF ProviderAnswers, TypeOK
  <2>2. QED BY <1>3, <2>1, SameIsOnlooker
<1>5. ConvInv(s)'
  <2>1. Fit(s) BY <1>1, <1>2, MatesIdle DEF Fit, WorkInv, Work
  <2>2. ConvInv(s) BY DEF CInv
  <2>3. entry[s].blockCreatedByThisParent BY <1>1, <1>2 DEF WorkInv, Work
  <2>4. CASE rec.conversationId = "none"
    <3>1. Founder(s)' BY <1>2, <1>3, <2>1, <2>2, <2>3, <2>4
                         DEF ConvInv, Founder, Owner, Moves, Active
    <3>2. QED BY <1>3, <2>2, <2>4, <3>1 DEF ConvInv
  <2>5. CASE rec.conversationId # "none"
    <3>1. conv[s] = rec.conversationId BY <2>1, <2>2, <2>5 DEF ConvInv
    <3>2. conv'[s] = conv[s] BY <1>1, <2>5, <3>1 DEF ProviderAnswers, TypeOK
    <3>3. QED BY <1>3, <2>5, <3>1, <3>2 DEF ConvInv
  <2>6. QED BY <2>4, <2>5
<1>6. LeaseKept(AdapterOf[s]) /\ \A x \in Sessions : Owner(x) => Owner(x)'
  BY <1>3 DEF LeaseKept, Owner
<1>7. \A x \in Mates(s) : x \in Sessions BY DEF Mates
<1>8. QED BY <1>3, <1>4, <1>5, <1>6, <1>7, ConvStep DEF Moves

LEMMA StageCheckpointConv ==
  ASSUME "write" \notin Faults, IInv, CInv, NEW s \in Sessions, StageCheckpoint(s)
  PROVE  CInv'
<1>1. /\ TypeOK /\ WorkInv(s) /\ RecordInv(s) /\ LeaseTurnInv(s) /\ PinInv(s)
      /\ turn[s] \in TurnType
  BY Context
<1>2. turn[s].pc = "staging" /\ Active(s) BY DEF StageCheckpoint, At, Active
<1>3. /\ rec' = [rec EXCEPT !.conversationId = conv[s]]
      /\ Goto(s, "beginning") /\ UNCHANGED <<lock, owns, pin, entry, conv>>
  <2>1. rec.status = "blocked" BY <1>1, <1>2 DEF RecordInv, Work
  <2>2. ~WriteRecord([rec EXCEPT !.conversationId = conv[s]], FALSE) BY DEF WriteRecord
  <2>3. QED BY <2>1, <2>2, Zenon DEF StageCheckpoint, WriteRecord, providers
<1>4. rec'.conversationId = conv[s] BY <1>1, <1>3 DEF TypeOK
<1>5. Moves(s, "beginning") BY <1>1, <1>3, GotoMoves DEF Places
<1>6. Fit(s) BY <1>1, <1>2, MatesIdle DEF Fit, WorkInv, Work
<1>7. CASE rec.conversationId # "none"
  <2>1. conv[s] = rec.conversationId BY <1>6, <1>7 DEF CInv, ConvInv
  <2>2. rec'.conversationId = rec.conversationId BY <1>4, <2>1
  <2>3. QED BY <1>2, <1>3, <1>5, <2>2, MovesConv DEF At
<1>8. CASE rec.conversationId = "none"
  <2>1. conv[s] # "none" BY <1>1, <1>2 DEF RecordInv, Work
  <2>2. Owner(s) /\ pin[AdapterOf[s]] = s
    BY <1>1, <1>2 DEF LeaseTurnInv, Holding, PinInv, Pinning, Work
  <2>3. ASSUME NEW x \in Sessions PROVE ConvInv(x)'
    <3>1. Fit(x) => Founder(x) BY <1>8 DEF CInv, ConvInv
    <3>2. Founder(x) => x = s BY <2>2 DEF Founder, Owner
    <3>3. Fit(x)' => x = s BY <1>3, <3>1, <3>2 DEF Fit
    <3>4. QED BY <1>3, <1>4, <2>1, <3>3 DEF ConvInv
  <2>4. QED BY <2>3 DEF CInv
<1>9. QED BY <1>7, <1>8

\* Retirement, delivery and publication leave conversations alone.
LEMMA DeliveryConv ==
  ASSUME IInv, CInv, NEW s \in Sessions,
         \/ ProviderFails(s) \/ Retirement(s) \/ BeginDelivery(s) \/ Publish(s)
         \/ UpdateDelivery(s)
  PROVE  CInv'
<1>1. TypeOK /\ turn[s] \in TurnType BY Context
<1>2. /\ turn[s].pc \in Work /\ Active(s) /\ ~At(s, "invalidate")
      /\ UNCHANGED <<rec, lock, conv>>
  BY DEF ProviderFails, Retirement, BeginDelivery, Publish, UpdateDelivery, At, Work, Active,
         durable, providers
<1>3. CASE FailTurn(s) BY <1>2, <1>3, FailedConv
<1>4. ASSUME NEW pc \in Places, Goto(s, pc), UNCHANGED <<owns, pin, liveBlock, closing, entry>>
      PROVE  CInv'
  <2>1. Moves(s, pc) BY <1>1, <1>4, GotoMoves
  <2>2. QED BY <1>2, <1>4, <2>1, MovesConv
<1>5. CASE Publish(s)
  <2>1. PICK status : turn' = [turn EXCEPT ![s].publication = status, ![s].pc = "updating"]
    BY <1>5 DEF Publish
  <2>2. turn'[s] = [turn[s] EXCEPT !.publication = status, !.pc = "updating"] /\ SameTurns(s)
    BY <1>1, <2>1 DEF TypeOK, SameTurns
  <2>3. Moves(s, "updating") BY <1>1, <2>2 DEF Moves, TurnType
  <2>4. UNCHANGED <<owns, pin, entry>> BY <1>5 DEF Publish
  <2>5. QED BY <1>2, <2>3, <2>4, MovesConv
<1>6. CASE ProviderFails(s) BY <1>3, <1>6, Zenon DEF ProviderFails
<1>7. CASE Retirement(s) BY <1>3, <1>4, <1>7 DEF Retirement, Places
<1>8. CASE BeginDelivery(s) BY <1>3, <1>4, <1>8 DEF BeginDelivery, Places
<1>9. CASE UpdateDelivery(s) BY <1>3, <1>4, <1>9 DEF UpdateDelivery, Places
<1>10. QED BY <1>5, <1>6, <1>7, <1>8, <1>9

LEMMA SaveReadyConv ==
  ASSUME "write" \notin Faults, IInv, CInv, NEW s \in Sessions, SaveReady(s)
  PROVE  CInv'
<1> DEFINE e == [entry[s] EXCEPT !.blockCreatedByThisParent = FALSE, !.safeToTransfer = TRUE]
           ready == [status |-> "ready", conversationId |-> conv[s]]
<1>1. /\ TypeOK /\ RecordInv(s) /\ turn[s] \in TurnType /\ entry[s] \in EntryType
  BY Context DEF TypeOK
<1>2. turn[s].pc = "saving" /\ Active(s) /\ UNCHANGED <<lock, conv>>
  BY DEF SaveReady, At, Active, providers
<1>3. rec.conversationId = conv[s] /\ conv[s] # "none"
  BY <1>1, <1>2 DEF RecordInv, Staged, Work
<1>4. rec' = ready /\ EndTurn(s, turn[s], e, TRUE, FALSE)
  BY Zenon DEF SaveReady, WriteRecord
<1>5. rec'.conversationId = rec.conversationId BY <1>3, <1>4
<1>6. e \in EntryType BY <1>1 DEF EntryType
<1> HIDE DEF e
<1>7. PICK safe \in BOOLEAN, live \in BOOLEAN : EndTurn(s, turn[s], e, safe, live)
  BY <1>4
<1>8. Ended(s, e) BY <1>1, <1>2, <1>6, <1>7, EndTurnEffect
<1>9. \A x \in Sessions \ {s} : Onlooker(x)
  BY <1>2, <1>8, SameIsOnlooker DEF Ended, SameEntries
<1>10. ConvInv(s)' BY <1>2, <1>3, <1>5 DEF ConvInv
<1>11. UNCHANGED <<owns, pin>> /\ SameTurns(s) BY <1>8 DEF Ended
<1>12. LeaseKept(AdapterOf[s]) /\ \A x \in Sessions : Owner(x) => Owner(x)'
  BY <1>2, <1>11 DEF LeaseKept, Owner
<1>13. \A x \in Mates(s) : x \in Sessions BY DEF Mates
<1>14. QED BY <1>5, <1>9, <1>10, <1>11, <1>12, <1>13, ConvStep

\* Steps of the world around the turns, which write no record
LEMMA QuietConv ==
  ASSUME CInv, rec' = rec,
         \A x \in Sessions : /\ entry'[x].safeToTransfer => entry[x].safeToTransfer
                             /\ Fit(x)' => /\ Fit(x) /\ conv'[x] = conv[x]
                                           /\ Founder(x) => Founder(x)'
  PROVE  CInv'
  BY DEF CInv, ConvInv

LEMMA StillConv ==
  ASSUME CInv, UNCHANGED <<rec, lock, owns, pin, entry, conv, turn>>
  PROVE  CInv'
<1>1. \A x \in Sessions : (Fit(x)' <=> Fit(x)) /\ (Founder(x)' <=> Founder(x))
  BY DEF Fit, Founder, Owner, At, Active
<1>2. QED BY <1>1, QuietConv

LEMMA PromptConv ==
  ASSUME IInv, CInv, NEW s \in Sessions, Prompt(s)
  PROVE  CInv'
<1> DEFINE a == AdapterOf[s]
           e == [entry[s] EXCEPT !.explicitCancelSettled = FALSE]
           t == [NoTurn EXCEPT !.pc = "identity", !.ownershipPreviouslyHeld = owns[a]]
           entries == [entry EXCEPT ![s] = e]
<1>1. /\ TypeOK /\ entry[s] \in EntryType /\ entry \in [Sessions -> EntryType]
      /\ turn \in [Sessions -> TurnType] /\ a \in Adapters
  BY Names DEF IInv, TypeOK
<1>2. ~Active(s) /\ entry' = entries /\ UNCHANGED <<rec, lock, owns, conv>>
  BY Zenon DEF Prompt, Refuse, durable, providers
<1>3. /\ e.bound = entry[s].bound /\ e.needsReplacement = entry[s].needsReplacement
      /\ e.stateError = entry[s].stateError /\ e.safeToTransfer = entry[s].safeToTransfer
      /\ e.channelTransferInvalidated = entry[s].channelTransferInvalidated
      /\ e.blockCreatedByThisParent = entry[s].blockCreatedByThisParent
  BY <1>1 DEF EntryType
<1>4. entries[s] = e /\ \A y \in Sessions \ {s} : entries[y] = entry[y]
  BY <1>1
<1>5. t.pc = "identity" /\ t.transferFrom = "none" /\ t.ownershipPreviouslyHeld = owns[a]
  BY DEF NoTurn
<1>6. NoTurn.transferFrom = "none" BY DEF NoTurn
<1> HIDE DEF e, t
<1>7. \/ turn' = [turn EXCEPT ![s] = t] /\ pin' = pin
      \/ turn' = [turn EXCEPT ![s] = NoTurn] /\ Unwind(s, t, entries[s], liveBlock[a])
  <2>1. Refuse(s, t, entries, liveBlock[a]) \/ (turn' = [turn EXCEPT ![s] = t] /\ pin' = pin)
    BY Zenon DEF Prompt, t, e
  <2>2. owns'[a] => t.ownershipPreviouslyHeld BY <1>2, <1>5
  <2>3. Refuse(s, t, entries, liveBlock[a]) => Unwind(s, t, entries[s], liveBlock[a])
    BY <2>2 DEF Refuse
  <2>4. QED BY <2>1, <2>3 DEF Unwind
<1> HIDE DEF entries
<1>8. SameTurns(s) /\ turn'[s].transferFrom = "none"
  BY <1>1, <1>5, <1>6, <1>7 DEF SameTurns
<1>9. ASSUME NEW x \in Sessions, pin[AdapterOf[x]] = x,
             x = s => entry[s].blockCreatedByThisParent
      PROVE  pin'[AdapterOf[x]] = x
  <2>1. AdapterOf[x] \in Adapters BY Names
  <2>2. CASE Unwind(s, t, entries[s], liveBlock[a])
    BY <1>1, <1>3, <1>4, <1>5, <1>9, <2>1, <2>2 DEF Unwind, TypeOK
  <2>3. QED BY <1>7, <1>9, <2>2
<1>10. ASSUME NEW x \in Sessions
       PROVE  /\ entry'[x].safeToTransfer => entry[x].safeToTransfer
              /\ Fit(x)' => Fit(x) /\ conv'[x] = conv[x] /\ (Founder(x) => Founder(x)')
  <2>1. entry'[x].blockCreatedByThisParent = entry[x].blockCreatedByThisParent
    BY <1>2, <1>3, <1>4
  <2>2. Founder(x) => Founder(x)'
    <3>1. SUFFICES ASSUME Founder(x) PROVE Founder(x)'
      OBVIOUS
    <3>2. x = s => entry[s].blockCreatedByThisParent
      BY <1>2, <3>1 DEF Founder, At, Active
    <3>3. pin'[AdapterOf[x]] = x /\ Owner(x)' BY <1>2, <1>9, <3>1, <3>2 DEF Founder, Owner
    <3>4. CASE x = s BY <1>8, <2>1, <3>2, <3>3, <3>4 DEF Founder
    <3>5. CASE x # s BY <1>8, <2>1, <3>1, <3>3, <3>5 DEF Founder, SameTurns, At, Active
    <3>6. QED BY <3>4, <3>5
  <2>3. QED BY <1>2, <1>3, <1>4, <2>2 DEF Fit
<1>11. QED BY <1>2, <1>10, QuietConv

LEMMA CancelConv ==
  ASSUME IInv, CInv, NEW s \in Sessions, Cancel(s)
  PROVE  CInv'
<1> DEFINE t == [turn[s] EXCEPT !.aborted = TRUE, !.explicitCancelRequested = TRUE]
<1>1. TypeOK /\ turn[s] \in TurnType BY Context
<1>2. Active(s) /\ UNCHANGED <<rec, lock, conv>> BY DEF Cancel, durable
<1>3. /\ t \in TurnType /\ t.pc = turn[s].pc /\ t.transferFrom = turn[s].transferFrom
      /\ t.transferCommitted = turn[s].transferCommitted
  BY <1>1 DEF TurnType
<1>4. CASE At(s, "provider") /\ EndTurn(s, t, entry[s], FALSE, liveBlock[AdapterOf[s]])
  <2>1. PICK safe \in BOOLEAN :
          safe = FALSE /\ EndTurn(s, t, entry[s], safe, liveBlock[AdapterOf[s]])
    BY <1>4, Zenon
  <2>2. entry[s] \in EntryType /\ liveBlock[AdapterOf[s]] \in BOOLEAN
    BY <1>1, Names DEF TypeOK
  <2> HIDE DEF t
  <2>3. Ended(s, entry[s]) /\ entry'[s].needsReplacement
    BY <1>2, <1>3, <2>1, <2>2, EndTurnEffect
  <2>4. QED BY <1>2, <2>3, EndedConv
<1>5. CASE turn' = [turn EXCEPT ![s] = t]
           /\ UNCHANGED <<owns, pin, liveBlock, closing, entry, prov>>
  <2> HIDE DEF t
  <2>1. turn'[s] = t /\ SameTurns(s) BY <1>1, <1>5 DEF TypeOK, SameTurns
  <2>2. \A x \in Sessions : (Fit(x)' => Fit(x)) /\ (Founder(x) => Founder(x)')
    BY <1>2, <1>3, <1>5, <2>1 DEF Fit, Founder, Owner, At, Active, SameTurns
  <2>3. QED BY <1>2, <1>5, <2>2, QuietConv
<1>6. QED BY <1>4, <1>5, Zenon DEF Cancel, t

LEMMA CloseBeginConv ==
  ASSUME IInv, CInv, NEW a \in Adapters, CloseBegin(a)
  PROVE  CInv'
<1>1. TypeOK BY DEF IInv
<1>2. UNCHANGED <<rec, lock, owns, pin, conv>> BY DEF CloseBegin, durable
<1>3. ASSUME NEW x \in Sessions
      PROVE  /\ entry'[x].safeToTransfer => entry[x].safeToTransfer
             /\ Fit(x)' => Fit(x) /\ (Founder(x) => Founder(x)')
  <2>1. turn[x] \in TurnType /\ entry[x] \in EntryType BY <1>1 DEF TypeOK
  <2>2. CASE entry'[x] = [entry[x] EXCEPT !.needsReplacement = TRUE]
    BY <2>1, <2>2 DEF EntryType, Fit
  <2>3. CASE /\ entry'[x] = entry[x]
             /\ turn'[x] = turn[x] \/ turn'[x] = [turn[x] EXCEPT !.aborted = TRUE]
    <3>1. /\ turn'[x].pc = turn[x].pc /\ turn'[x].transferFrom = turn[x].transferFrom
          /\ turn'[x].transferCommitted = turn[x].transferCommitted
      BY <2>1, <2>3 DEF TurnType
    <3>2. QED BY <1>2, <2>3, <3>1 DEF Fit, Founder, Owner, At, Active
  <2>4. QED BY <2>2, <2>3 DEF CloseBegin
<1>4. QED BY <1>2, <1>3, QuietConv

LEMMA RestartConv ==
  ASSUME IInv, CInv, NEW a \in Adapters, Restart(a), UNCHANGED durable
  PROVE  CInv'
<1>1. TypeOK BY DEF IInv
<1>2. ASSUME NEW x \in Sessions
      PROVE  /\ entry'[x].safeToTransfer => entry[x].safeToTransfer
             /\ Fit(x)' => Fit(x) /\ conv'[x] = conv[x] /\ (Founder(x) => Founder(x)')
  <2>1. CASE AdapterOf[x] = a
    <3>1. entry'[x] = NewEntry BY <2>1 DEF Restart
    <3>2. QED BY <3>1 DEF NewEntry, Fit
  <2>2. CASE AdapterOf[x] # a
    <3>1. entry'[x] = entry[x] /\ turn'[x] = turn[x] /\ conv'[x] = conv[x]
      BY <2>2 DEF Restart
    <3>2. pin'[AdapterOf[x]] = pin[AdapterOf[x]] BY <1>1, <2>2, Names DEF Restart, TypeOK
    <3>3. Owner(x) => Owner(x)' BY <1>1, <2>2, RestartEffect
    <3>4. QED BY <3>1, <3>2, <3>3 DEF Fit, Founder, At, Active
  <2>3. QED BY <2>1, <2>2
<1>3. QED BY <1>2, QuietConv DEF durable

LEMMA CInvStep ==
  ASSUME "write" \notin Faults, IInv, IInv', CInv, [Next]_vars
  PROVE  CInv'
<1>1. ASSUME NEW s \in Sessions, Handler(s) PROVE CInv'
  <2>1. CASE Identity(s) BY <2>1, IdentityConv
  <2>2. CASE DeliveryScan(s) BY <2>2, DeliveryScanConv
  <2>3. CASE CancelLoad(s) BY <2>3, CancelLoadConv
  <2>4. CASE CancelScan(s) BY <2>4, CancelScanConv
  <2>5. CASE CancelRetire(s) BY <2>5, CancelRetireConv
  <2>6. CASE RecoverScan(s) BY <2>6, RecoverScanConv
  <2>7. CASE RecoverRetire(s) BY <2>7, RecoverRetireConv
  <2>8. CASE Load(s) BY <2>8, LoadConv
  <2>9. CASE Reconcile(s) BY <2>9, ReconcileConv
  <2>10. CASE Reload(s) BY <2>10, ReloadConv
  <2>11. CASE Invalidate(s) BY <2>11, InvalidateConv
  <2>12. CASE ReleaseLease(s) BY <2>12, ReleaseLeaseConv
  <2>13. CASE ProviderAnswers(s) BY <2>13, ProviderAnswersConv
  <2>14. CASE StageCheckpoint(s) BY <2>14, StageCheckpointConv
  <2>15. CASE ProviderFails(s) \/ Retirement(s) \/ BeginDelivery(s) \/ Publish(s) \/ UpdateDelivery(s)
    BY <2>15, DeliveryConv
  <2>16. CASE SaveReady(s) BY <2>16, SaveReadyConv
  <2>17. QED
    BY <1>1, <2>1, <2>2, <2>3, <2>4, <2>5, <2>6, <2>7, <2>8, <2>9, <2>10, <2>11, <2>12,
       <2>13, <2>14, <2>15, <2>16 DEF Handler
<1>2. CASE Environment
  <2>1. ASSUME NEW s \in Sessions, Prompt(s) PROVE CInv' BY <2>1, PromptConv
  <2>2. ASSUME NEW s \in Sessions, Cancel(s) PROVE CInv' BY <2>2, CancelConv
  <2>3. ASSUME NEW s \in Sessions, ProviderExits(s) PROVE CInv'
    BY <2>3, StillConv DEF ProviderExits, durable, memory
  <2>4. ASSUME NEW d \in DOMAIN outbox, OperatorRetries(d) PROVE CInv'
    BY <2>4, StillConv DEF OperatorRetries, memory, providers
  <2>5. ASSUME NEW a \in Adapters, CloseBegin(a) PROVE CInv' BY <2>5, CloseBeginConv
  <2>6. ASSUME NEW a \in Adapters, CloseDone(a) PROVE CInv' BY <2>6, RestartConv DEF CloseDone
  <2>7. ASSUME NEW a \in Adapters, Crash(a) PROVE CInv' BY <2>7, RestartConv DEF Crash
  <2>8. CASE OrphanExits BY <2>8, StillConv DEF OrphanExits, durable, memory
  <2>9. QED
    BY <1>2, <2>1, <2>2, <2>3, <2>4, <2>5, <2>6, <2>7, <2>8 DEF Environment
<1>3. CASE UNCHANGED vars
  BY <1>3, StillConv DEF vars, durable, memory, providers
<1>4. QED BY <1>1, <1>2, <1>3 DEF Next

LEMMA ConversationInvariance ==
  ASSUME "write" \notin Faults PROVE Spec => [](IInv /\ CInv)
<1>1. Init => IInv /\ CInv BY IInvInit, CInvInit
<1>2. IInv /\ CInv /\ [Next]_vars => IInv' /\ CInv' BY IInvStep, CInvStep
<1>3. QED BY <1>1, <1>2, PTL DEF Spec

(***************************************************************************)
(* A provider asked to work on a channel whose record names a conversation *)
(* was bound to that conversation: by this session's own turns, after the  *)
(* replacement of a failed provider object, after a transfer, or from the  *)
(* record of a process that died (acp-server.js, handlePrompt: replace and *)
(* setTrustedConversation before invalidate).                              *)
(***************************************************************************)
THEOREM ResumesIt == ASSUME "write" \notin Faults PROVE Spec => []ResumesSavedConversation
<1>1. ASSUME IInv, CInv PROVE ResumesSavedConversation
  <2>1. ASSUME NEW s \in Sessions, At(s, "provider") PROVE Fit(s)
    <3>1. WorkInv(s) /\ Active(s) BY <1>1, <2>1, Context DEF At, Active
    <3>2. entry[s].bound /\ ~entry[s].needsReplacement
      BY <2>1, <3>1 DEF WorkInv, Work, At
    <3>3. QED BY <1>1, <3>1, <3>2, MatesIdle DEF Fit
  <2>2. QED BY <1>1, <2>1 DEF ResumesSavedConversation, CInv, ConvInv
<1>2. IInv /\ CInv => ResumesSavedConversation BY <1>1
<1>3. QED BY <1>2, ConversationInvariance, PTL

(***************************************************************************)
(* The conversation the record names is never forgotten or exchanged       *)
(* (session-state.js, stageCheckpoint, invalidate, reconcile and save).    *)
(***************************************************************************)
THEOREM ConversationStays == ASSUME "write" \notin Faults PROVE Spec => KeepsConversation
<1>1. ASSUME IInv, CInv, [Next]_vars, rec.conversationId # "none"
      PROVE  rec'.conversationId = rec.conversationId
  <2>1. SUFFICES ASSUME rec' # rec PROVE rec'.conversationId = rec.conversationId
    OBVIOUS
  <2>2. PICK s \in Sessions :
          Reconcile(s) \/ Invalidate(s) \/ StageCheckpoint(s) \/ SaveReady(s)
    BY <1>1, <2>1, RecordWriters
  <2>3. TypeOK /\ RecordInv(s) /\ WorkInv(s) BY <1>1, Context
  <2>4. CASE Reconcile(s) \/ Invalidate(s)
    <3>1. rec' \in {[rec EXCEPT !.status = "ready"], [rec EXCEPT !.status = "blocked"]}
      BY <1>1, <2>1, <2>4 DEF Reconcile, Invalidate, WriteRecord
    <3>2. QED BY <2>3, <3>1 DEF TypeOK
  <2>5. CASE StageCheckpoint(s)
    <3>1. turn[s].pc = "staging" /\ Active(s) BY <2>5 DEF StageCheckpoint, At, Active
    <3>2. Fit(s) BY <1>1, <2>3, <3>1, MatesIdle DEF Fit, WorkInv, Work
    <3>3. conv[s] = rec.conversationId BY <1>1, <3>2 DEF CInv, ConvInv
    <3>4. rec' = [rec EXCEPT !.conversationId = conv[s]]
      BY <2>1, <2>5, Zenon DEF StageCheckpoint, WriteRecord
    <3>5. QED BY <2>3, <3>3, <3>4 DEF TypeOK
  <2>6. CASE SaveReady(s)
    <3>1. turn[s].pc = "saving" BY <2>6 DEF SaveReady, At
    <3>2. rec.conversationId = conv[s] BY <2>3, <3>1 DEF RecordInv, Staged
    <3>3. rec' = [status |-> "ready", conversationId |-> conv[s]]
      BY <2>1, <2>6, Zenon DEF SaveReady, WriteRecord
    <3>4. QED BY <3>2, <3>3
  <2>7. QED BY <2>2, <2>4, <2>5, <2>6
<1>2. IInv /\ CInv /\ [Next]_vars
        => [rec.conversationId # "none" => rec'.conversationId = rec.conversationId]_vars
  BY <1>1 DEF vars, durable
<1>3. QED BY <1>2, ConversationInvariance, PTL DEF Spec, KeepsConversation
=============================================================================
