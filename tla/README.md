# agy-buzz-acp: verification models

TLA+ models of the adapter that lets the `agy` provider answer in Buzz channels,
the TLC runs that check them, and machine-checked proofs. Paths are relative to the
repository; `acp-server.js` and the like are under `src/`.

## 1. The system

An adapter process speaks ACP on its standard input and output. Each ACP session
has one provider child; a session that works on a Buzz channel holds a lock on the
channel's session directory, keeps a durable record of the channel's conversation,
records each answer in a durable outbox before it is published, and publishes it
with a child process. The user may correct a turn while it runs; corrections reach
the provider through a hook process and a shared directory. Operators repair what
a crash left with a recovery command, move session state of an earlier release into
a store of the present one, and install or roll back the package itself in the
harness configuration of the host.

| Component | State | Operations | Correct when |
|---|---|---|---|
| Delivery outbox, `delivery/outbox.js` | one record file per answer, record locks, archive | `begin`, `update`, `retry`, `archiveSent`, `hasUnsettledDelivery` | no answer is published twice; no effect is missing from the record; `sent` is true and final; the unlocked scan can be trusted |
| Publisher, `buzz-publisher.js` | a child process | `publish` | `failed-before-start` means nothing was delivered nor can be |
| Recovery command, `bin/agy-buzz-recover.js` | none | `retry`, `archive-sent`, `list` | concurrent operators do not deliver twice |
| ACP server, `acp-server.js` | session entries, channel pins, live-block set, active turns | `session/prompt`, `session/cancel`, `_session/steering`, `close` | one provider per channel; the record is blocked while work is under way; reconciliation only of settled channels |
| Session state, `session-state.js` | ready / blocked record, owned channels | `ensureOwnership`, `load`, `invalidate`, `stageCheckpoint`, `save`, `reconcile` | the conversation is never lost or replaced; changes only under the lock |
| Native lock, `native-lock.js` | an operating-system lock | acquire, release | dies with its holder |
| Provider session, `agy-session.js` | child, pending prompt, conversation id, segments | `prompt`, `steer`, `cancel`, `retire…`, event handlers | every prompt ends; the answer is the text after the last confirmed correction |
| Steering bridge, `steering.js`, hook | state, request and acknowledgement files, bridge lock | `bindConversation`, `enqueue`, `claimPendingSteer`, `observeUserInput`, `snapshot`, `block` | a correction is heard at most once and reported only if heard; doubt leaves the bridge guarded |
| Frame codec, `frame-codec.js` | one bounded line buffer | `push`, `finish` | results do not depend on how the pipe cuts the stream |
| Package manager, `manage.js` | journal, marker, harness configuration with claims, backups and receipts, version directories | `install`, `rollback`, `diagnose` | the configuration in force is never lost nor overwritten unseen; an install can be taken back; a diagnosis is not fooled by what happens under it |
| State store and migration, `session-state-store.js`, `session-state-migration.js` | the session directory with its marker, legacy records, a staging directory | initialise, claim a channel, migrate | nobody works in a store that is partial, someone else's or replaced under him; a migration publishes all of its source or nothing |
| Doctor, status, diagnostics | none | reports | nothing is changed |
| Context, prompt, models, setup | none | parsing, discovery | pure |

**Interactions.** The server calls the session state under the channel lock, the
provider session by promises, and the outbox under record locks; all of one
process run on one event loop, so what interleaves is the code between two awaits.
Other adapters, operators, publisher children, providers and hook processes are
separate processes that share files and locks only. Whatever runs in a child can
outlive its parent. The manager shares the harness configuration with editors that
know nothing of it, and the migration shares its source with old adapters and its
destination with new ones.

**Hard behaviours.** Late children whose result was given up (publisher timeouts,
providers that ignore a stop); crashes between the writes that belong together;
writes that fail after their rename; locks that the system frees when a process
dies while its children live; in-memory proofs ("this parent blocked the record")
used after the file changed; cancellation between any two awaits; provider events
held back and replayed; files published by `link` and `rename` while others write
them; locks that not every process shares. `PROJECT.json` lists them under `hazards`, each with its
line and the properties that watch it.

## 2. Modules

| Module | Models |
|---|---|
| `DeliveryLedger` | abstract: what is promised about one response |
| `Outbox` | records, publishers, operators, scan |
| `OutboxProofs` | proofs about `Outbox`, including that it implements `DeliveryLedger` |
| `ChannelTurn` | prompts, cancellation, shutdown and recovery of one channel over sessions and adapters |
| `ChannelTurnProofs` | proofs about its turns: lock, pin, block, order of the record |
| `ChannelProviderProofs` | proofs about what the turns guarantee together: providers, outbox, conversation |
| `CorrectionLedger` | abstract: what is promised about one correction |
| `SteeringBridge` | the bridge directory and the hook process |
| `SteeredTurn` | extends `SteeringBridge` with the session's turn, its event stream and the provider |
| `SteeredTurnProofs` | proofs about both, including that they implement `CorrectionLedger` |
| `FrameCodec`, `FrameCodecProofs` | the line decoder, and the proofs of its bound and of its exactness |
| `Manager` | install and rollback beside other managers, editors and an operator |
| `ManagerDiagnosis` | extends `Manager` with a diagnosis that reads while all that goes on |
| `ManagerProofs`, `ManagerDiagnosisProofs` | proofs about `Manager`, and about the diagnosis beside it |
| `StateStore` | the session directory, its marker and the claims of channels in it |
| `StateMigration` | extends `StateStore` with the legacy source, its writers and the migration |
| `StateMigrationProofs` | proofs about both |
| `MCOutbox`, `MCChannelTurn`, `MCSteering`, `MCFrameCodec`, `MCManager`, `MCStateMigration` | instances for TLC |

### Outbox

`disk`, `archived` and `lock` are the record file, its archived copy and its lock;
`turn`, `outcome` and `reported` are the delivering handler, what `publish()` told
it and what it told the client; `op` is an operator process; `orphans` counts
children nobody waits for that may still deliver; `effects` counts deliveries. One
action stands for each critical section or durable write of the code. A write ends
in one of three ways: done, failed before the rename, failed after it (`Write`).
The scan reads the listed records one at a time, with no lock, while they change.
A crash of the adapter or of an operator frees its locks and leaves its child as an
orphan. The contents of records, markers of the store and schema checks are
abstracted: a check that fails is a refusal.

### ChannelTurn

`rec` is the channel's durable record, `outbox` the delivery status of each turn,
`lock`/`owns` the real and the believed holder of the channel lock, `pin`,
`liveBlock`, `closing` and `entry` the server's maps and session flags under their
names in the code, `turn[s].pc` the await at which the prompt handler of `s`
stands. Each action runs from one await to the next, with the early returns and the
`catch`/`finally` blocks inside (`Unwind`, `EndTurn`). Adapters die and are
replaced by new ones; a provider that was running becomes an orphan. The faults of
the file system that a run considers are the constant `Faults`. Of the outbox only
what the channel reads is kept; `Outbox` has the detail.

### SteeringBridge and SteeredTurn

`bridge` is what is on disk (status, guard, active correction, queue, requests,
acknowledgements), `lock` its holder, `hooks` the hook processes. `turn` is the
pending prompt with the fields of `AgySession` that matter: enqueue operations
(`op`), unconfirmed steers (`ids`), pollers and timers, the observation in flight,
the deferred input and the deferred events, the text since the last confirmation
(`segment`), the result and how far the failure path has come. `provider` holds its
stdout and which corrections it has heard. Critical sections that write several
files are split at each write, because `snapshot` reads without the lock, the hook
can die and a write can fail, the one that blocks the bridge included. Frames are marked with the number of corrections the
provider had heard when it wrote them, which is all that the properties need. The loop
that hands held events to `consume` again (`Replay`) is a recursive function of how many
it has handed on (`Again`), so that it can be proved about.
External and therefore assumed: the provider echoes every input once as a
`user_input` with a growing step, opens a conversation with `init` and the first
input in either order, and no other injector exists, which is what
`AGY_STEER_INJECTOR_EXCLUSIVE` asserts.

### FrameCodec

`stream` is everything received, `chunk` what `push()` has not scanned, `decoder`
the buffer, its capacity and the overflow flag. Bytes are of four kinds: a
character, the first and second half of a two-byte character, and the newline, so
that a chunk can cut a character. `Reference` says what the lines of a stream mean
without any state.

### Manager and ManagerDiagnosis

A file name maps to an inode and an inode to its bytes (`harness`, `claim`, `backup`,
`data`), because the manager's safety rests on the difference: `link` never replaces
a name, `rename` keeps the inode, and an editor may truncate the file another name
also refers to. Bytes are a pair: what others edit, and the entry point the manager
sets. `marker` is the `.agy-lock` file, which the end of its holder does not remove,
and `journal` the phase last recorded. `op[o].at` is the place of a manager process
between two effects that others can see; the phases of install and rollback that
claim and publish have one name, since the two paths do the same there. Any effect
may throw (`Throws`, followed by `RestoreClaim` and `MarkFailure` where the code tries
them, each of which may fail as well) and a process may die anywhere (`Crash`).
Editors replace the file or truncate and then write it. `OperatorRecovers` is the
procedure of `docs/MANAGER_RECOVERY.md`: with nobody else at work, set the evidence of
a failure aside and put a claimed harness back.

`look` is a diagnosis: what it has read so far, file after file and without a lock. It
also carries history that the properties need: whether anything happened while it
read (`quiet`) and which operations had everything in place at some instant of it
(`together`). The operator does not act while a diagnosis runs; that is a restriction
of the model.

### StateStore and StateMigration

A directory is a record of its marker, the records by channel and the lock files;
`store` is the one at the configured path. The marker is created and then written, so
that a crash leaves it torn. `initLock` has a holder for each temporary directory,
because the lock lies in that of the process; `chanLock` is the native lock of a
channel. Locks are tried, never waited for. Each action of `Claim` runs from one await
of `ensureOwnership` to the next; what an adapter does with the channel it owns is
`ChannelTurn`'s subject and one write here.

Legacy records are found under the hash of the channel id as it was spelled, so one
channel can have several: `Keys`, and `Canon` their channel. `Migrate` has one action
for each await of `migrateLegacySessionState`: first scan, source locks, rescan, the
destination's lock, the absence check, the stage record by record with its marker
last, another scan, the check again and `rename`. A scan is one instant: the values it
returns are compared with those of a later scan, taken under the locks. A process may
die or fail anywhere and leave its stage, which somebody may later move to the
configured path (`AdoptStage`).

## 3. Runs

Run one with `tlc -workers 2 -config <cfg> <module>`.

| Run | Bounds | Shows |
|---|---|---|
| `outbox` | 2 records, 2 operators | all safety properties of the outbox and the refinement of `DeliveryLedger` |
| `channel_sessions` | 1 adapter, 2 sessions, write and re-read faults | recovery, cancellation and transfer between sessions keep record, provider and outbox consistent; every prompt ends |
| `channel_adapters` | 2 adapters, 3 sessions, 1 orphan, an earlier delivery that failed before it started, or none; no faults of reads and writes | across lock hand-over and crashes: one provider, one conversation, one writer |
| `steering` | 2 corrections, 1 hook process at a time, 1 deferred event | the bridge stays guarded, its block is final, order of the queue, refinement of `CorrectionLedger` |
| `steering_turns` | 1 correction, 2 hook processes, 2 turns, 2 deferred events | a turn succeeds only if its corrections are confirmed, and its answer is all the text after the last and no other; every correction is answered |
| `frames` | lines of 3 bytes, streams of 7, chunks of 4 | the decoder agrees with the reference |
| `manager` | 2 operations, 2 versions, 1 edit, 1 diagnosis | whatever fails, dies or is edited: the configuration is kept, an install can be taken back, no edit is undone, and a diagnosis under way is not fooled |
| `state_migration` | 2 adapters, 1 migration, 1 old adapter, 2 channels in 3 spellings, 2 owners, 2 temporary directories, 2 writes | nobody works in a partial, foreign or replaced store, even with no initialisation lock in common |
| `channel_former_owner`, `channel_lost_binding`, `channel_stale_proof`, `steering_order` | small | what the code does differs from what it or its documentation states (section 5) |

**Why these bounds.** Two operators suffice for every race about one record, since a
record has one lock and the claim, the publication and the final write are each a
step at which the second can come between; the second record is there for the scan,
which must be able to have seen one record and not yet the other. The channel needs
two sessions for every transfer, and three for a transfer next to another adapter.
Three conversations are more than a channel can open before a property would break.
Two corrections are the least with which the queue has an order and a confirmation
leaves something waiting. Lines of three bytes hold a whole two-byte character with
room to be too long by one, and seven bytes hold a line that is too long, its end
and the line after it. Two manager operations give every pair (two installs that
race, an install and its rollback, a failure and what comes after it), and the one
edit may fall between any two of their effects; the inductive invariants of the
proofs say that a third adds nothing. Two adapters that differ in owner or in
temporary directory are the least that can disagree about a store; one migration and
one old writer suffice to change the source or the destination under it, and with
three spellings of two channels a source can be acceptable or name a channel twice.
Bounds are the constants of the specifications; where one
is reached (`DeferredLimit`, `QueueLimit`, `MaxOrphans`) it is a limit of the code
or is named as a bound beside its declaration.

**Deadlock** is checked except in the steering, codec, manager and migration runs,
where the system rightly stops: a turn has ended and no other is asked for, a stream
has ended, every command has come to its end.

**Fairness.** `ChannelTurn!FairSpec` assumes weak fairness of each handler's own
steps: promise callbacks are run, and each wait in the handler is bounded by the
code (`retireTimeoutMs`, the publisher's timeout) and may end by giving up. It does
not assume that a provider told to stop exits, that a lock becomes free or that an
operator acts. `SteeredTurn!FairSpec` assumes the same of the session's callbacks
and of a started hook process, and that the provider process ends at last: it is
started with a print timeout (`pinnedAgyArgs`). Nothing is assumed of Buzz, of the
user or of the provider's answers.

## 4. Proofs

`OutboxProofs` proves, for any set of records and of operators, every safety
property of `Outbox` that the run `outbox` checks, and that `Outbox` implements `DeliveryLedger`. The only assumption is that the two names
"adapter" and "free" are not operators.

None of the properties is inductive. `AtMostOnce`, for example, fails in a state
where an operator is about to publish (`retrying`) a record whose orphan is still
alive; such a state is unreachable because a retry starts only from
`failed-before-start`, that status is only ever written when nothing was started,
and the operator keeps the record lock from its check to its final write.
`IInv` says so in four parts: what is known of a record from where its turn stands
(`TurnInv`), from its durable status (`RecordInv`), from the operator that holds its
lock (`OpInv`), and from the progress of the scan (`ScanInv`). The proof takes the
parts one at a time, with one step for each action, and `Inductive` joins them; each
invariant follows from `IInv` by definition, and the action property `SentIsFinal`
from `DiskStep`, which says how a step from `IInv` can change a record. For the refinement, each step is shown
to start a publisher, let one vanish or deliver, or leave the ledger as it is.

`ChannelTurnProofs` proves, for any adapters, sessions and conversations and with any
faults of the file system, type correctness and the properties of `ChannelTurn` that rest
on one adapter's own order of steps: `PublishesAfterCheckpoint`, `LiveBlockIsLive`,
`StaleSessionIsInert`, `RecordChangesUnderLock` and `ReleasesAfterExit`. It assumes that
the names for nobody are names of nobody and that a session has an adapter. The
invariant is about which sessions of an adapter may be at what:

- `LeaseInv`, `LeaseTurnInv`: what an adapter believes of the lock is true, except after
  a release it could not confirm, which leaves the session frozen; a turn at work and a
  provider once started have the lock;
- `AloneInv`, `PinInv`: one session of an adapter is in a prompt at a time, and the
  channel is pinned to the one that works, has a provider running or wrote the block;
- `NeedsInv`, `EntryInv`: what the flags of a session's entry, which outlive its turn,
  still promise about the provider and the pin;
- `TransferInv`, `WorkInv`, `RecordInv`: what each await of the handler knows of the
  transfer under way, of its own provider and of the record.

A handler's step ends in one of few ways (refused, unwound, ended, moved on), each of
which is shown once to keep the invariant (`RefuseKeeps`, `EndedKeeps`, `FailKeeps`,
`Advance`); `Elsewhere` says that the other adapters' parts are out of its reach.

`ChannelProviderProofs` proves what holds between adapters. `WorkIsBlocked`,
`UnblockedIsSettled` and `OneProvider` are proved under `Reliable`: reads and writes of
the record succeed, or one adapter serves the channel. The condition is
not one of convenience: with a re-read that fails and two adapters the proof on which a
block is lifted can be out of date, and the run `channel_stale_proof` shows the block
of a dead adapter lifted under its provider (section 5). `GInv` is the argument: whoever may
restore readiness holds the lock and knows that no provider runs and nothing is
unsettled (`Proved`, `Clear`), and this stays so from the await where it was found
until the write, because starting work takes the same lock. `OrphansBlockStays` is the
action property that the same run refutes without the condition. `ResumesSavedConversation`
and `KeepsConversation` are proved for any adapters and re-reads that fail, if record
writes succeed; `channel_lost_binding` shows that the condition is needed. There the
invariant (`CInv`) says that a session which may be asked to work (`Fit`) is bound to the
conversation of the record or, while the record has none, is the one session that may
give it one (`Founder`). Both invariants were checked by TLC before they were proved.

`FrameCodecProofs` proves type correctness of the decoder for every limit and every
stream: the buffer never grows past `MaxLineBytes`, however capacity doubles, and
never holds a newline. And it proves `FramesAreExact`: cut as it may be, the stream is
reported as a reader of the whole would report it. The reference speaks of all lines at
once and the decoder of the current part, so the invariant (`FramesInv`) says how they
meet: the decoder holds the unfinished line of what has been scanned, or has dropped it
as too long (`Tracks`), and the results so far are the reference's for it. What one step
does to the reference are three lemmas: a part extends the unfinished line and ends none
(`PartAdds`), a newline ends exactly one (`NewlineAdds`), the end of the stream reports
the rest (`EndAdds`).

`SteeredTurnProofs` proves, for any numbers of corrections, turns, hook processes, held
events and queued corrections, type correctness, `SuccessIsConfirmed`,
`UnconfirmedIsGuarded`, `HeardInQueueOrder` and `BlockedIsFinal`, and that session,
bridge, hooks and provider together implement `CorrectionLedger`. It assumes that the
numbers of corrections and of turns and the queue's limit are positive and that the
limit of held events is a natural number. None of the
properties holds for a reason inside one process. `HeardInQueueOrder`, for example, fails
in one step from a state in which two hooks each carry a claimed correction, and such a
state is excluded only by the claim's check of the file that the adapter writes when the
session has observed the echo. `IInv` follows a correction along that way:

- `TurnInv`: a correction that is in an operation or waits for its confirmation is still
  open, and what is injected and what waits together were asked for, so that the counts by
  which the session decides are never ahead of the corrections themselves;
- `LockInv`, `QueueInv`: one writer is between two writes of a critical section, and a
  correction is queued once;
- `OrderInv`, `EntryInv`: what the provider has heard is a prefix of the queue, and while the
  bridge is not blocked a status tells on which side of that prefix its entry is. Only the
  active entry can be on either side: a claim does not tell whether the hook has answered;
- `HookInv`: at most one hook carries a correction, the next one to be heard;
- `InputInv`: at most one echo is under way, in the provider's output, in the deferred input
  or under observation, it is the echo of the active correction, and while it is under way no
  hook carries another. This is why an observation, which names no correction, confirms the
  right one;
- `PromptInv`: the input of the prompt is read, held or replayed before any echo, so that no
  echo is taken for it, nor it for an echo;
- `VerdictInv`: who was told injected was heard.

From the moment the bridge is blocked these say less, on purpose: a late hook may still
answer with the correction it carries.

The operators that read an event (`Process`, `HandleInput`, `MaybeFinish`) are shown once to
keep the account of a turn (`Keeps`, `Still`), and each action is one of them after a small
change, or leaves the turn alone. The refinement shows that a step lets one correction be
heard, one be answered, or neither. `SuccessIsConfirmed` needs one more invariant
(`OpenInv`): while a prompt waits and nothing has failed, each correction without an answer
is in an operation or among the queued ones, which are what `MaybeFinish` waits for.

The prover has no induction over an operator's argument. The two places that need it,
the replay loop and the lines of a stream, use a least counterexample instead: the naturals
are well founded, so a nonempty set of them has a least member (`Least`, `LeastOf`). In this
way `RoundsExist` shows that the recursive function exists, and `ReplayLoop` that what each
round keeps holds after the last.

`ManagerProofs` proves, for any number of managers, versions and edits, type
correctness, `NothingLost` and `PublishesOverItsPlan`, from the assumptions that edits
are counted (`EditsAssumption`), that inodes of managers, of edits and of the first
file are distinct and none is the absent file (`NamesAssumption`), and that no archive
holds the version "old" (`OldAssumption`). `NothingLost` is not inductive: in a state
where two processes both believe to hold the marker, or where the inode a manager has
staged is open in an editor, one more step loses the configuration. `IInv` rules these
out: a process at work holds the marker (`MarkerInv`) and the journal is its own
(`JournalInv`); a plan is never of truncated bytes (`PlanInv`); a staged inode is in
nobody's hands (`StageInv`); while the harness is missing, what was checked is still
in the claim and no editor has it open (`CheckInv`); an editor writes to the file that
others read (`EditorInv`). The edits are why the check after the claim is needed: it is
what makes `CheckInv` true.

`Reversible` needs more (`KInv`). The backup of an install is its claim's inode, so the
invariant has to say that this inode is out of everybody's reach for good: off the
harness path, closed by editors, and not the claim of any operation that could still be
restored (`SettledInv`).

`ManagerDiagnosisProofs` proves both properties of the diagnosis, and that a diagnosis
changes nothing (`DSpec => Spec`, so all of the above holds beside it). It assumes besides
that no file that was read is the absent file (`ReadAssumption`). What makes a report
true although its reads lie apart is that edits are counted and an operation keeps the
count of its plan. As long as nobody has edited since (`Untouched`), each file is where
the operation left it, and once its journal is complete, so is everything it promised
(`UInv`). An edit in between is not missed: bytes that were edited are never again those
of the plan, so a diagnosis that reads the plan's bytes at the harness after the complete
journal knows that all was in place when it read the journal (`TogetherInv`). Without a
disturbance what it has read is the present state (`QuietInv`). TLC checked `UInv` and
`LookInv` on the bounds of the run `manager` before they were proved.

`StateMigrationProofs` proves, for any number of processes, channels, spellings and
owners, type correctness and the four properties of the run `state_migration`. It
assumes that processes of different kinds and the names used for "nobody", an absent
and a torn marker are distinct (`NoneAssumption`, `ProcsAssumption`,
`OwnersAssumption`, `WritersAssumption`), that a spelling has a channel
(`CanonAssumption`) and that a write can be made (`StampAssumption`). It does not assume
that the initialisation lock excludes anyone. That is the point of the strengthening
(`SInv`): a marker is created with `O_EXCL` and only its creator writes it, so at most
one adapter is past the creation; a stage is marked only when it is whole; and a
migration that has confirmed its scan holds the lock of every record it scanned.
Every step of a claim has a bounded effect on what is shared (`Effect`), so the parts
about the others are proved once, not for each action.

Only model-checked: liveness (`TurnsEnd`, `SteersSettle`), as the prover does not
handle fairness and ENABLED; and what `AnswerFollowsCorrections` says of the
text, besides `SuccessIsConfirmed`: it is no theorem, as with two corrections
`steering_order` refutes it (section 5), and for one the run `steering_turns` checks it. The properties of `ChannelProviderProofs` are neither proved nor, beyond the
refuted runs, checked where their conditions fail.

## 5. Where the code and its documents disagree

1. `channel_former_owner` (`acp-server.js:684`). An idle owner whose next prompt
   fails its identity check loses the channel's pin without a transfer and is never
   marked stale.
2. `channel_lost_binding` (`acp-server.js:634`). `bound` is set before the blocked
   record is written and stays set when that write fails; a later transfer to the
   session starts a new conversation over the saved one.
3. `channel_stale_proof` (`acp-server.js:569`). The proof that this parent wrote the
   block survives a re-read that fails, and can later unblock a dead adapter's
   record while its provider still runs.
4. `steering_order` (`agy-session.js:689`). A deferred input and deferred events are
   kept in two places without their relative order; text from before the second
   correction is replayed after its confirmation and published as its answer.

Observed while modelling, without a run of their own, in the adapter:

- With a no-start proof the outbox is not asked (`acp-server.js:571`), so a block is
  reconciled next to an older uncertain delivery. `README.md:124` and
  `docs/OFFICIAL_BUZZ_RECOVERY.md:20` say that it is asked. `UnblockedIsSettled` holds of
  the deliveries of modelled turns, not of one from before them.
- Held events are replayed through the live line decoder (`agy-session.js:849`), and
  run into a frame of which it already holds a part.
- A second turn cancelled in preflight after `invalidate` (`acp-server.js:657`) leaves
  the record blocked with neither a retirement proof nor a no-start proof, so only an
  operator can free the channel.
- `block()` does not wait for the bridge lock (`steering.js:777`). If the observation
  in flight holds it, a claim that timed out leaves a bridge that is not blocked; the
  turn still fails, and `COMPATIBILITY.md:124` says the bridge becomes blocked.
- Two corrections asked for at the same moment poll for the bridge lock every 20 ms
  (`steering.js:430`), so the later may be queued first. Order is documented only for
  corrections asked for one after the other; `HeardInQueueOrder` holds from the queue on.
- The ninth pending correction fails the whole turn, not only itself
  (`agy-session.js:255`).
- `reconcileSteeringBridge` renames the directory without the bridge lock; a late hook
  could write an old state into the new directory, which then fails closed.
- After `begin()` fails past its rename, the record is `inflight` while the response is
  retried from memory; the scan then refuses reconciliation, which is safe.

In the package manager:

- `diagnose` reports `interrupted` before it looks at the marker. `MANAGER_RECOVERY.md`
  says that an unresolved marker is indeterminate; `test/operations.test.js` asserts
  `interrupted` with a marker present. While managers run, `interrupted` may be said of a
  configuration that was never missing at one instant of the diagnosis.
- `consistent` does not exclude that a manager took the marker before the journal was
  read and gave it up before the marker was.
- After a second install the first one's claim makes every diagnosis indeterminate;
  only a rollback recognises an older claim, that of the install it undoes.
- When the record of `harness-claimed` or of `publishing` cannot be written, the harness
  stays absent and the claim is not restored: the restore belongs to the steps after it
  (`manage.js:561`). The journal names the claim, so nothing is lost.
- After a restored claim the harness, the claim and perhaps the backup are one inode: an
  editor that writes in place changes all of them. No install has reported success then.
- A marker that cannot be removed at the end is a marker left by a crash.

In the store and its migration:

- A crash between the creation and the writing of a marker leaves a torn one, and every
  later claim refuses the directory until an operator removes it.
- A channel that an old adapter claims for the first time after the last scan is not
  migrated; the documentation asks for old adapters to be stopped first.
- The initialisation lock lies in the temporary directory, so processes with different
  ones do not exclude each other. What keeps the store safe is `O_EXCL`, and this is
  proved without the lock.
- The lock is tried once: an adapter that claims another channel at that moment is
  refused, as if the channel were busy (`session-state.js:37`).
- `rename` over an empty destination succeeds, so a store directory that an adapter has
  just made, and not yet marked, is replaced; the adapter then finds the published
  marker and uses it or refuses.

## 6. Not modelled

Rotation and the resume handshake of the provider session, inspection and archiving of
the bridge: planned, see below. The byte budget counter of `frame-codec.js` is
represented by limits on numbers of events. Doctor, status and diagnostics only read.
Parsing of prompts and contexts, model lists and executable discovery keep no shared
state; where they can fail, the models have a refusal. Of the manager, reading and
unpacking archives, the checks of a package and of its paths and the command line are
left out: a plan is made or refused, and a version directory appears or does not.
Permissions, ACLs, symbolic links and schema validation are refusals too. The memory-
only configuration (no durable state, no outbox) has none of the state that the models
are about.

## 7. Plan

Done, each with proofs: `Outbox` with its ledger, `ChannelTurn`, the steering modules
with their ledger, `FrameCodec`, `Manager` and its diagnosis, `StateStore` and
`StateMigration`.

Next, by importance:

1. `ProviderSession`: rotation, the resume handshake and its timer, late closes, as a
   refinement target for the provider actions of `ChannelTurn`; the bridge's
   inspection and archiving with orphan hooks, composed with `ChannelTurn`'s recovery.
2. `AnswerFollowsCorrections` for one correction, with an invariant that follows the
   text of a segment through the held events; and for more, once the order of held inputs
   and events is kept.
3. Liveness of recovery: under which operator actions a blocked channel becomes usable.

Runs stay few, one for each question: a later component takes the place of a run
whose question it subsumes.
