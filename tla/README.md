# A TLA+ development for GraphForge

GraphForge is an embedded graph engine written in Rust. A project is a directory;
every commit publishes an immutable *generation* under `generations/`, and the file
`CURRENT` names the one that is in force. This directory specifies the parts of the
engine that are hard to test: the durable publication protocol with its recovery,
clean-up and readers; the checkpoint registry; the multi-file rewrite of a workspace; how
facades publish, rebase and roll back their writes; and the write coordination and
mutation health of one facade or session.

Paths below are relative to `src/crates/` unless they start with `docs/`, which is
`src/docs/`.

## 1. Inventory of the system

| Part | Source | State | Operations | What makes it hard |
| --- | --- | --- | --- | --- |
| Write coordination | `graphforge-api/src/write_modes.rs` | ticket queue, active flag, RwLock | acquire, read, drop of a permit | cancellation and panics between admission and permit, lost wake-ups |
| Mutation health | `graphforge-exec/src/mutation.rs` | epoch, recovering, failure | recover, fail, guarded stream polls | a recovery overlapping a poll |
| Project publication | `graphforge-storage/src/project_publication.rs`, `control.rs` | `CURRENT`, journals, generation directories, attempts, locks | stage, validate, publish, abort, replay | a crash between any two file operations, optimistic writers, retries |
| Project recovery | `project_recovery.rs` | the same, trash | recover on open, repair or abort journals, remove | journals that lag behind `CURRENT`, live attempts |
| Generation resolution | `project_generation.rs` | `CURRENT`, leases | resolve, pin, initialise | clean-up racing an open |
| Retention | `project_retention.rs` | generations, trash, objects | classify, batch clean-up, sweep | leases, policies, checkpoint roots |
| Checkpoints | `project_checkpoints.rs`, `registry.rs`, `restoration.rs` | registry and checksum, intent | create, delete, list, open, revert | two files committed as one, replayed operations |
| Durable rewrite | `durable_rewrite.rs`, `moves.rs` | rewrite journal, destinations, temporaries | commit, recover | roll forward after a crash at any point |
| Graph objects | `graph_object_store.rs` | content-addressed objects, publication leases | install, sweep | a sweep against a publication in flight |
| Delta journal | `graph_delta_journal.rs`, `graph_delta_compaction.rs` | delta chain | append, replay, compact | compaction racing a publication |
| Composite publication | `graphforge-api/src/composite_publish.rs` | attempts, rebase budget | publish, rebase | conflict matrix, retry budget |
| Import sessions | `graphforge-api/src/import_session.rs` | session journal | resume, commit, abandon | crash and resume |
| Query pool | `graphforge-exec/src/query_pool.rs` | admission semaphores | admit, release | resource limits |
| Cypher front end, planner, executor, columns, search, bindings | `graphforge-cypher`, `-ast`, `-ir`, `-plan`, `-rel`, `-exec`, ... | none that persists | parse, plan, execute, encode | pure and large: outside the reach of model checking |

How they interact: a facade (`graphforge-api`) serialises its own mutations and reads
with the write coordinator, then publishes through `project_publication.rs`. Every call
on a project, also an open and a listing, first takes the parent-scoped *lifecycle
lock*. Writers, recovery and clean-up exclude one another through `writer.lock`;
optimistic writers stage without it and take it, and the lifecycle lock, again for the
commit. Readers take no project lock: they hold a shared lease on the generation that
`CURRENT` named. The checkpoint registry lives beside this under its own lock, with
`writer.lock` in front of it. The correctness argument of the whole rests on two points:
the atomic replacement of `CURRENT` is the commit, and the flush of the root directory
behind it is what an acknowledgement waits for.

Inside a facade a write runs in the facade's *workspace*, a private copy of the current
generation that is changed by durable rewrites; a failed write is restored under the
fence of the mutation health, which also invalidates the lazy streams on it.

`PROJECT.json` lists the components with what is and is not modelled, and the hazards, each
at the line where it bites.

## 2. Modules and how they correspond to the code

### WriteCoordinator

`write_modes.rs`. `waiting`, `active` and `nextTicket` are the fields of `QueuedState`;
`guard`, `readGuards` and `poisoned` are the RwLock `visibility`; `health` is what the
permit asks of `MutationHealth`. One action is one critical section of the `queued`
mutex or one operation of the RwLock: `Enqueue`, `CancelQueued`, `Admit`, `TakeGuard`,
`UnhealthyPermit`, `DropPermit`, `DropGuard`, `ReadWaits`, `ReadPasses`, ...
`queuedMode`, chosen in `Init`, tells the queued mode from the direct ones. A queued writer waits
with a timeout and may look at the queue at any moment; a reader waits without one and
only wakes on `NotifyAll`. Ticket numbers end at `MaxTicket`, the scaled-down `u64::MAX`.

### CheckpointRegistry

`project_checkpoints.rs` and `registry.rs`. `dir` is the checkpoints directory (the pair,
the intent, the staged files by operation UUID), `exposed` the directories a power loss
may leave. One action is one durable effect, in the order of `commit_pair()`,
`recover_pair()` and `cleanup_intent()`; `Crash` stops a process between any two of
them. `Refused`, `Replay`, `Apply` and `Retained` are the pure decisions of a mutation.
The digest of a registry is the registry itself. `durable`, chosen in `Init`, is the
lifecycle mode. `cutShort` and `pruned` are history: which kind of clean-up of an intent a
crash interrupted, and which operations the registry forgot. Properties that make an
exception for them name it, and section 6 shows each exception to be real.

### ProjectStore, ProjectPublication, ProjectRecovery, GenerationReaders, Project

`ProjectStore` has the state that all of them share. `log` is the sequence of values
`CURRENT` has had and `flushed` the position that a power loss cannot take back;
`journal`, `gens`, `attempts` and `trash` are directories of the project; `lifecycle`,
`writer` and `txnLock` the locks. A transaction publishes the generation of its own name,
and a manifest is its parent link, which also stands for its digest: two attempts of
one transaction have the same manifest exactly when they have the same parent.

- `ProjectPublication` follows one call of a writer from admission (`BeginExclusive`,
  `BeginOptimistic`) through the pinned parent, the journal phases PREPARING, STAGED, VALIDATED and
  DURABLE, the manifest, the promotion of an optimistic attempt, `ReplaceCurrent`,
  `Acknowledge` (the flush) and PUBLISHED to `Confirm`, with each early return: busy
  locks, a corrupt parent, a refused or replayed journal, a stale parent, conflicts.
- `ProjectRecovery` is the recovery of an open and the retention clean-up, which share
  the way a generation is removed: `ProbeIdle` tries its lease and lets it go,
  `MoveToTrash` looks at reachability again and moves it, `DeleteMoved` deletes it.
- `GenerationReaders` is the lock-free pin through `CURRENT` (read, lease, read again)
  and the pin by UUID.
- `Project` composes them, with `Crash` of a process and `PowerLoss` at any step.

`receipts` and `hasty` are history. `hasty` is set when a recovery or clean-up plans
its work on a `CURRENT` that is not flushed: `acquire_recovery_lock()` flushes the root
and then tries the lock, and a publisher may commit and die in between. Properties
that only hold otherwise say so with `hasty \/`; section 6 has the run that
shows why.

### AtomicProject

The promise to the callers: one chain of commits, of which a power loss takes only a tail
that nobody was told of. `Project` implements it with `history <- log`,
`durable <- flushed`, `answered <- receipts`, `trusting <- hasty`
(`ImplementsAtomicProject`).

### MutationHealth

`mutation.rs`. `epoch`, `recovering` and `failed` are `MutationHealthState`. `recover()` is two
critical sections, `BeginRecover` and `EndRecover`, with the restoration between them;
`guard_stream()` is `Wrap`, and each poll is `Poll` (check), the inner poll, `Polled` (check
again). `facade` tells a facade, which plans and wraps a stream under its read guard and
recovers under its write permit (`Permitted`), from a session by itself, which has neither.
`crossed` and `yielded` are history: where in a stream's life a restoration began, and
what was handed out. `FacadePlansWhole` is for facades only, and needs to be: a session by itself
plans a stream before it reads the epoch (`session.rs:1669-1678`), and TLC shows a batch
of one whose plan is older than a restoration.

### DurableRewrite

`durable_rewrite.rs` and `moves.rs`: the root with its intent (preparing, then durable), the
temporaries, the installs in order with `generation.json` last, replay and clean-up by the next
holder of the lock, moves between directories, and reconciliation of an unknown outcome.
Each directory has what processes see and what a power loss may leave; I/O errors, kills
and power losses come between any two steps. The three generation counters of the code are one.

### FacadeWrites

`composite_publish.rs`, `transaction.rs`, `mutation_transaction.rs` and the publication of a
graph mutation: facades of several processes on one project, each with a workspace, a
generation in memory and a catalog. Operations are one-shot Cypher, composite property
writes, transactions with either or both, and deletes. `Compose` and `Rebase` are the optimistic
loop with its budget; `Restore` is the error path. A workspace that the code spoils is
marked with the cause, one of seven, and the safety properties except by cause what that
cause can do, so that nothing else may. The project underneath is what `AtomicProject` promises.

### Proof modules

`WriteCoordinatorProofs`, `MutationHealthProofs`, `FacadeWritesProofs` and
`CheckpointRegistryProofs` have the theorems of the module they are named after. Those of
`Project` build on one another: `ProjectProofs` (the lock argument) and `ProjectDurabilityProofs`
(receipts, the refinement and the journals of the retained window). So do those of the rewrite:
`DurableRewriteInvariant` (the inductive invariant, the replay and the faults) and
`DurableRewriteProofs` (staging, answers and the theorems). The largest takes tlapm about
twenty minutes from nothing.

## 3. Runs

| Run | What it asks | Bounds |
| --- | --- | --- |
| `coordinator` | one owner of the active flag, exclusion, FIFO start, queue equals callers, no lost wake-up, no execution after cancellation; queued writes and reads return | 3 writers, 1 reader, capacity 2, 5 tickets, queued and direct modes |
| `health_streams` | one restoration at a time, no batch across one, no facade stream with an older plan; the fence is lowered | 2 aborting threads, 2 streams, 3 recoveries, facade and session |
| `registry` | receipts survive, one receipt per operation, recovery always succeeds but after an interrupted roll-back, readers see a valid pair, no update that validation refuses | 2 processes, 6 requests that reuse UUIDs, 1 tombstone, 2 crashes, both lifecycle modes |
| `rewrite_crash` | files are those of the visible generation unless a barrier was missed, commits stay, moved files are on disk, reconciliation is truthful; every intent is settled | 2 processes, 2 batches (one with a receipt and a move), 2 rewrites, 2 faults |
| `facade_writes` | a generation is its parent and its operation, the catalog only grows, a facade is coherent and never goes back, published once, told the truth, checked conflicts; every call returns | 2 facades, 6 operations, 3 calls, 1 rebase, 2 I/O errors, 1 administrative publication |
| `project_writers` | `CURRENT` resolves, commits extend it, clean-up decisions hold | 2 processes, 2 transactions, one of them in both modes, 1 crash, 3 values of `CURRENT` |
| `project_reapply` | journals in the retained window match, a transaction is applied once in the window, refinement of `AtomicProject` | 1 process, 3 transactions, 5 values of `CURRENT`, 2 crashes |
| `project_readers` | a pinned generation stays, receipts and PUBLISHED journals are durable (`AcknowledgedSurvives`) | 1 reader, 2 processes, 1 transaction in both modes, clean-up that retains nothing, 2 crashes |
| `project_live` | both locks are always given up | 2 processes, 1 reader, 1 transaction in both modes, clean-up, no crash |
| `registry_rollback`, `project_acknowledged`, `project_twice` | statements of the documents that the code does not meet (section 6) | as small as the trace allows |

Why the bounds are enough to be interesting. Two processes suffice for every pair of
actors to interleave, and a third adds only another holder of the same locks; the queue needs
three writers for a cancellation in its middle. Two crashes allow a
crash inside the recovery from a crash; `project_writers` has one, since all it checks is proved for any number. Three values of `CURRENT` are a parent, a commit and a
commit on top of it; five let a commit leave the retained window
and be made again. One retained ancestor instead of the code's two brings the edge of the window closer;
`project_twice` uses two. Deadlock checking is on in every run but `facade_writes`,
whose calls are bounded: elsewhere idle callers can always call again.

The runs list the type invariant of the project only. Those of the coordinator, the health, the
registry, the facades and the rewrite are proved, and so are `FailureIsFinal` and `ReplayNeverRefuses`
(a replay that refuses also breaks `IntentSettles`).

Symmetry is only used for safety. Processes, readers and transactions of one kind are
only compared for equality.

Fairness. `FairSpec` of the coordinator is weak fairness of each thread's next step: the
code's waits are condition variables, timeouts and a lock, and the operating system
runs a thread that can run. `LiveSpec` of the project is weak fairness of each process'
step inside a call; nothing makes anyone begin one. No lock is assumed to be granted fairly, so a
waiting call is not claimed to get it: what is claimed is that whoever holds one
gives it up. Kills are excluded from that run (`MaxCrashes = 0`), for a killed process
drops its locks anyway. `FairSpec` of the health is weak fairness of the end of a restoration,
which is a bounded copy of files; `FairSpec` of the rewrite and of the facades is weak
fairness of the steps inside a call.

## 4. What is proved

TLAPS checks the following for every value of the constants, from the named assumptions
of the modules: `CoordinatorAssumption`, `HealthAssumption`, `StoreAssumption`,
`FacadeAssumption`, `RegistryAssumption` and `RewriteAssumption`. They say that bounds are natural
numbers, that names which stand for nothing (`None`, `Absent`) are no process, operation, file or
intent, and that requests are of the kinds the code has; a batch of a rewrite writes and moves different
files, and moves none to two names, as `moves::validate` asks. `MaxTombstones` is positive, as `MAX_TOMBSTONES` is
(4096): with none at all a delete would drain the tombstone it makes. Each inductive invariant
was first checked by TLC, on the instance of a run or a smaller one.

**WriteCoordinator**: `TypeCorrect`, `ActiveFlagOwned`, `MutationsExclusive`,
`AdmissionOrder`, `QueueIsCallers`, `WakeupsNotLost`, and the action property
`CancelledWritesNeverExecute`. The inductive invariant `IInv` adds to the types who
holds the guard at which place (`LockInv`), that `active` counts the one admitted
writer (`ActiveInv`), and that the queue is strictly increasing, bounded by
`nextTicket` and made of the waiting callers' tickets (`QueueInv`). The one fact about sequences it needs is
what the removal of a ticket from the middle leaves (`WithoutFacts`).

**MutationHealth**: `RecoveryExclusive`, `StreamsNeverTorn`, `FacadeStreamsWhole` and the
action property `FailureStays`, for any number of threads, streams and recoveries. That no
batch crossed a restoration is not inductive: `HInv` adds `Behind`, that no stream is ahead of
the epoch and that one crossed since it was wrapped is strictly behind it, which is why the
second check of a poll is enough even when the restoration has ended.

**Project**: `TypeCorrect`, `CommitsAlwaysExtend`, `AuthorityResolves`,
`CleanupDecided` and `PinsHold`, for any number of processes, readers, transactions,
policies, commits and crashes. None of the four properties is inductive: each says what is true
at the moment of a commit or a move, and not why. `IInv` adds `Local(p)`, what process p
knows at each place:

- it holds `writer.lock` from the check of the parent on (exclusive writers: from the
  pin on), and during all of a recovery or clean-up;
- while it builds, its parent is `CURRENT`'s generation; before the replacement its own
  generation is complete and carries that parent;
- what it is removing, and what is left to remove, is not reachable; when it is about to move a
  generation no reader that pinned through `CURRENT` is on it;
- its work was planned on a flushed `CURRENT`, or `hasty` is set.

The argument is the lock's: `OthersUndisturbed` shows that a step of q keeps `Local(p)` if it
leaves `CURRENT`, the generations and `writer.lock` alone (`Quiet`), and the steps
that do change these need a lock that p holds. So most actions need only show that they
are quiet and what their own process knows afterwards (`QuietStep`, `MovesOn`). Five steps
are not quiet and have lemmas of their own: `BuildStep`, `CommitStep`, `MoveStep`, `PowerLossStep` and
`GoStep` (readers).

**Durability and refinement** (`ProjectDurabilityProofs`): `AcknowledgedStays`, that receipts and
PUBLISHED journals stand for durable commits (`AcknowledgedSurvives`), and `Refinement`, that
`Project` implements `AtomicProject`. A recovery writes PUBLISHED for whatever it reaches
from `CURRENT` along the parent links, so the receipts alone are not inductive: `DInv` adds that
every parent link leads to a durable commit, and what a process knows of its own parent
(`DLocal`). That recovery reaches nothing else is a fact about the recursive function `Ancestry`, found by
induction (`AncestryFacts`, from `LeastNatural`). The refinement then takes every action to a
commit, a flush, an answer, a power loss or a stutter of `AtomicProject`.

**The retained window** (`ProjectDurabilityProofs`): `WindowRecoverable` (`RetainedJournalsMatch`) and
`AppliedOnceForAll` (`AppliedOnceInWindow`), under `OneMode`: no transaction is staged both
exclusively and optimistically. The hypothesis is needed, since the two modes are kept apart by
different locks (`StaleJournalIsAdvisory` in section 6 is what happens without it). `MInv` says which lock keeps two attempts of a
transaction apart; `WInv` that every commit of the window has a journal with
its digest, that a writer ahead of its commit is not in the window, and that one behind it is its last
entry. As `RetainedJournalsMatch` does, `AppliedOnceInWindow` excepts behaviours in
which a recovery relied on a `CURRENT` that was not flushed (`hasty`).

**FacadeWrites** (`FacadeWritesProofs`): `PublishesOnlyItself`, `ShowsOneGeneration`, `AnswersTrue`,
`OverwritesWhatItRead`, the types, and the action property `NeverGoesBack`, for any number of facades,
operations, rebases and faults. `IInv` has `Local(f)`, what a facade knows at each
place of a call: whether its workspace is the generation in its memory, that with its operation, or
torn; that its operation is not published yet; what the baseline of an optimistic publication has been compared with. Other
facades only append generations of operations of their own (`Grows`, `NotOf`), so `KeptLocal`
carries `Local` over their steps, and a facade that is behind `CURRENT` publishes nothing.
The exceptions are those of the properties, one cause at a time.

**CheckpointRegistry** (`CheckpointRegistryProofs`): `InstallsValid`, `ReadsMatchingPair`, `AlwaysRecoverable`,
`ReceiptsSurvive`, `OneReceipt`, the types, and the action property `OneOperation`, for any number of
processes, requests, rows, tombstones, kills and power losses. The properties speak of every directory a
power loss may leave, and so does `IInv`:

- `Shape`: a directory without an intent has a pair that matches; one with an intent has the
  previous pair, the next pair, or the next registry with its checksum to come, and all the
  registries in it are valid;
- `Agreed`: unless the next registry is installed and its intent still there, all those directories
  select the same registry, so that a power loss can only decide the operation under way;
- `Acknowledged`: every receipt is recorded, with its revision, in what each of them selects; this is what
  makes a replay answer with the first receipt;
- `Exclusion`, `Serving`, `Holding`, `Recovering`, `Reading`: who holds the locks, and what it
  relies on at each place.

`ApplySound` and its lemmas are about the pure decisions: what is not refused is valid after `Apply`,
records the new operation, and forgets only what `Retained` drains; `RetainedBound` shows that
draining keeps the limit, from the least of the revisions kept.

**DurableRewrite** (`DurableRewriteInvariant`, `DurableRewriteProofs`): `WholeRewrite`, `CommitsStay`,
`MovesAreSafe`, `AnswersAreTrue`, `GenerationsAreUnique`, `ReplayAccepts`, the types, and the action property
`IntentFirst` (`WriteAhead`), for any number of writers, files, directories, batches, I/O errors, kills and power
losses. A replay may pass over a rename that nobody flushed, and a power loss may then take it back
(section 6); `lost` records that it did, and the theorems speak of the behaviours in which it did not. So
`IInv` is `Shape`, which always holds, and `lost = {} => Good`. `Good` relates what processes see to `Kept`,
what a power loss leaves: the disk, or the visible name where a replay has relied on it. The root is in one of four states:

- `Resting`: no durable intent, and all files, seen and kept, are those of the selected transaction;
- `Switching`: the durable intent is visible, the disk still has the preparing one, and nothing is installed;
- `Replaying`: the durable intent is visible and kept; each entry is as before the intent if its
  temporary is there and as after it if not, in either view by itself; a source is gone only if its
  destination is kept, and `generation.json` is after the intent only if all the rest is;
- `Unlinking`: the intent is gone from view and may come back, and everything it asks for is done and kept.

Around them `Good` has what the intents and the plans of the transactions say of one another
(`Faithful`, `Lines`), what the callers were told (`ToldOK`), which numbers were visible (`ShownOK`), and how
far the call under way has come (`Progress`). Flushes, clean-ups, failures and power losses need one argument: a step
that gives every name its seen or its kept contents leaves the root in these states (`Mix`, `MixRoot`).
The steps that go from one state to another have lemmas of their own: `PublishDurableStep`, `RenamesStep`,
`RetireStep`, `UnlinkJournalStep` and `StageStep`. `OutcomeFits` is the argument for reconciliation: what it reads in the root
under the lock decides about a failed commit for good, since the replay before it has settled whatever intent there was.

Only model-checked: the liveness properties of all modules (weak fairness and ENABLED are out of
the prover's reach), among them `IntentSettles` of the rewrite, and that the exceptions the properties make are
reached (sections 3 and 6).

## 5. Hazards and the properties that cover them

`PROJECT.json` has the full list. The ones that shaped the model: the gap between the
replacement of `CURRENT` and its flush; the gap between a recovery's flush and
its lock; a lease that is probed and released before the generation is moved; an
optimistic attempt whose parent is gone at commit time; a retry that meets any of its
own leftovers; a kill inside a recovery; an admission that is cancelled, poisoned or found
unhealthy between the queue and the guard.

## 6. Where the code and its documents disagree

Three runs expect a violation; each checks one statement of a document.

| Run | The document says | The code does |
| --- | --- | --- |
| `registry_rollback` | "An interruption exposes exactly the previous or next valid registry revision." (`docs/adr/0014-workspace-checkpoints.md:182`) | `cleanup_intent()` removes the staged files before the intent; killed in between after a roll-back, every later recovery reports a corrupt registry (`registry.rs:296`) |
| `project_acknowledged` | "an acknowledged transition survives reopen" (`docs/adr/0013-project-generation-protocol.md:447`) | recovery may write PUBLISHED for a `CURRENT` that nobody flushed, and answer a retry from it after a power loss (`project_recovery.rs:602`) |
| `project_twice` | a failure after the replacement of `CURRENT` "reports `committed: true`; the generation is not rolled back" (`docs/adr/0018-acknowledged-durability-isolation.md:163`) | a commit whose journal is behind and that left the window is aborted and can be made again (`project_recovery.rs:671`) |

The modules state more, which TLC refutes when the named invariant is checked on the
instance given: a cfg of this directory, or the named constants with the others as in
`ProjectPolicy.cfg`, `WriteCoordinator.cfg`, `CheckpointRegistry.cfg` and `FacadeWrites.cfg`.

| Property | The document says | Instance |
| --- | --- | --- |
| `RecoveryNeverAmbiguous` | corrupt is the answer when "`CURRENT` is invalid or references invalid bytes" (ADR 0013:433); a recovery with the default two ancestors also gives it after a clean-up that kept none (`project_recovery.rs:741`) | `ProjectPolicy.cfg` |
| `GenerationDescribesWhole` | "generation can never describe a prefix of the intended topology" (`generation.rs:23`); an install that fails before the flush of its directory is taken for done by the replay, which does not flush it (`durable_rewrite.rs:611`), and a power loss takes the file back | `DurableRewriteTorn.cfg` |
| `PriorUnlessInstallLost` | a crash "before durable intent leaves the prior generation" (ADR 0013:229-230); the root is flushed before the lock is waited for (`durable_rewrite.rs:457`), so a replay may install from an intent that a power loss turns back | `DurableRewriteIntent.cfg` |
| `CommitIsWhole` | "Publish every staged supported participant as one generation." (`transaction.rs:427`); the optimistic loop reconciles the workspace, which takes back the Cypher of the transaction, and publishes the composite part alone (`composite_publish.rs:131`) | `FacadeMixed.cfg` |
| `SamePropertyConflicts` | "Same property or removed target" is `GF_WRITE_CONFLICT` (ADR 0015:47); a parent that changed again after the comparison is not compared (`composite_publish.rs:131`) | `FacadeSameProperty.cfg` |
| `AttemptReconciles` | "After any attempted publication, the facade workspace, runtime catalog, and generation UUID reconcile" (ADR 0015:57-59); not after each of the causes that `FacadeCoherent` excepts | as `FacadeWrites.cfg` |
| `CleanupKeepsAuthority` | after `project.after_gc_move`: "current unchanged" (ADR 0013:537); as in `project_acknowledged`, with a clean-up | 2 processes, `x1`, policy 0, 2 crashes |
| `StaleJournalIsAdvisory` | a stale journal is "advisory damage" (ADR 0013:434); one transaction tried in both modes: the attempt that lost writes over the journal of the one that committed | 2 processes, `x1` in both modes, 2 crashes |
| `ResolveNeverCorrupt` | a reader that meets a clean-up "retries from step 1" (ADR 0013:313-314); a missing lease is an error | 1 process, 1 reader, `x1`, policy 0 |
| `HeldGenerationStays` | "Cleanup must acquire the same `lease.lock` exclusively and then recheck" (ADR 0013:318); a pin by UUID between probe and move loses its generation | 1 process, 1 reader, `x1`, policy 0 |
| `AttemptsAreActive` | collection defers "while a publication attempt ... is active" (ADR 0013:451); an aborted attempt leaves its directory behind | 2 processes, `x1`, `o1` optimistic |
| `InterruptedIsRetriable` | recovery will "reconstruct safe cleanup facts" (ADR 0013:434); a directory made before the first journal blocks the retry | 1 process, `x1`, 1 crash |
| `SnapshotReadsBypassQueue` | "Snapshot reads bypass the admission queue" (ADR 0015:33, ADR 0018:121); readers wait until the queue is empty | 2 writers, 1 reader |
| `PrunedDeleteIsUnknown`, `ReplayReturnsOriginalReceipt` | ADR 0014:172 and :221; a pruned delete, sent again, deletes what was created since under the name; a recovery killed between the removal of the intent and the flush, then a power loss, takes back an operation that a retry was answered for | `Requests <- Pruning`, 1 tombstone; `OneName`, `MaxCrashes = 3` |

The seven causes in `spoiled` (`FacadeWrites`) are each reached on the instance of
`facade_writes`: *discarded* and *unchecked* are the two rows on `composite_publish.rs:131`;
*left over* is a committed mixed transaction that is retried, whose Cypher runs again before the
replay is recognised; *swallowed* a best-effort restoration that fails
(`composite_publish.rs:325`); *half way* a reconciliation that fails in the middle; *rewound* and
*catalog* a restoration to a checkpoint, or of a catalog, older than the generation in memory.

## 7. What is not modelled

Journals, directories and manifests are written and flushed in one step: the code puts a
barrier behind each, and nothing but `CURRENT` selects a generation. I/O errors are
calls that return early, where the model's `Fail` and `Crash` cover them. File system
probes, permissions and Windows namespaces are left out, and so is the creation of a project:
`Init` is a project just initialised. Payloads (participants, objects, columns) are
left out; validation may accept, refuse or conflict. The components with status
`not_modelled` are listed with their reasons; most are pure transformations of data.

The coordinator and the health are two modules: `WriteCoordinator` keeps the three values of the
health that a permit asks for, and `MutationHealth` the two locks of a facade as guards. The
ordinal writer lock of v4 rewrite receipts, the sweep of graph objects with its collection guard
and leases (`project_retention.rs:636`), checkpoint opening and revert, the delta journal, import
sessions and the query pool have state and are not modelled yet.

## 8. Plan

1. Retention roots: checkpoints and the sweep of graph objects against publication
   leases (`project_retention.rs`, `graph_object_store.rs`), on top of `ProjectStore`.
2. Opening and reverting a checkpoint on top of `GenerationReaders`.
3. `DeltaJournal` and its compaction; `ImportSession`; the query pool.
4. Theorems about the modules that these add. The safety properties of the present runs are proved,
   two of them (the retained window) for transactions of one mode only.
