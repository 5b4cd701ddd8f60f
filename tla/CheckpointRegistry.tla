--------------------------- MODULE CheckpointRegistry ---------------------------
(***************************************************************************)
(* The checkpoint registry of a project                                    *)
(* (crates/graphforge-storage/src/project_checkpoints.rs and               *)
(* project_checkpoints/registry.rs).                                       *)
(*                                                                         *)
(* The registry is two files, registry.json and its checksum, that must    *)
(* change together.  In the Durable mode every call, also one that reads,  *)
(* first waits for the project's lifecycle lock and holds it until it      *)
(* returns; in the Ephemeral mode there is no such lock.  A mutation then  *)
(* takes writer.lock and                                                   *)
(* checkpoints.lock, both exclusive; it first recovers the pair, then      *)
(* stages the next pair in private files named by the operation UUID,      *)
(* installs an intent, renames the two files and removes the intent.       *)
(*                                                                         *)
(* A step is one durable effect on the checkpoints directory.  A process   *)
(* may stop after any step (kill, or an I/O error returned to the caller); *)
(* a power loss also undoes directory operations that were not flushed,    *)
(* the last ones first: `exposed' is the set of directory states that a    *)
(* power loss may leave.  File contents are flushed before they are named. *)
(* The digest of a registry is the registry itself.                        *)
(***************************************************************************)
EXTENDS Integers, FiniteSets

CONSTANTS
    Procs,          \* processes that use the project
    Requests,       \* [op, kind, name]: create and delete requests, by operation UUID
    MaxActive,      \* MAX_ACTIVE
    MaxTombstones,  \* MAX_TOMBSTONES
    MaxRevision,    \* bound on the registry revision
    MaxCrashes,     \* bound on process crashes and power losses
    Absent          \* no such file

VARIABLES
    durable,        \* ProjectLifecycleMode: TRUE for Durable, FALSE for Ephemeral
    dir,            \* the checkpoints directory as processes see it
    exposed,        \* what a power loss may leave of it
    pc,             \* place of each process
    request,        \* the request a process serves, or Absent for a read
    next,           \* the registry a mutation is committing
    readers,        \* holders of checkpoints.lock, shared
    crashes,        \* number of crashes so far
    receipts,       \* receipts returned, as <<op, revision>> (history)
    pruned,         \* operations whose tombstones were drained (history)
    cutShort        \* the kinds of clean-up that a crash interrupted (history)

vars == <<durable, dir, exposed, pc, request, next, readers, crashes, receipts, pruned, cutShort>>
history == <<receipts, pruned, cutShort>>

Ops   == {r.op : r \in Requests}
Names == {r.name : r \in Requests}
Empty == [revision |-> 0, active |-> {}, tombstones |-> {}]

\* Registry values: rows and tombstones carry the operations and revisions that
\* created and deleted them.
Rows        == [name : Names, op : Ops, created : 1..MaxRevision]
Tombs       == [name : Names, op : Ops, created : 1..MaxRevision,
                deleteOp : Ops, deleted : 1..MaxRevision]
Registries  == [revision : 0..MaxRevision, active : SUBSET Rows, tombstones : SUBSET Tombs]
Files       == Registries \cup {Absent}
Intents     == [op : Ops, previous : Files, next : Registries]
Directories == [registry : Files, checksum : Files, intent : Intents \cup {Absent},
                registryTemp : [Ops -> Files], checksumTemp : [Ops -> Files]]

\* MAX_TOMBSTONES is positive; no file holds the value that stands for its absence.
ASSUME RegistryAssumption ==
    /\ MaxActive \in Nat /\ MaxTombstones \in Nat \ {0}
    /\ MaxRevision \in Nat /\ MaxCrashes \in Nat
    /\ \A r \in Requests : r.kind \in {"create", "delete"}
    /\ Absent \notin Requests \cup Registries \cup Intents

Init ==
    /\ durable \in BOOLEAN
    /\ dir = [registry |-> Absent, checksum |-> Absent, intent |-> Absent,
              registryTemp |-> [o \in Ops |-> Absent], checksumTemp |-> [o \in Ops |-> Absent]]
    /\ exposed = {dir}
    /\ pc = [p \in Procs |-> "idle"]
    /\ request = [p \in Procs |-> Absent]
    /\ next = [p \in Procs |-> Absent]
    /\ readers = {}
    /\ crashes = 0
    /\ receipts = {}
    /\ pruned = {}
    /\ cutShort = {}

-----------------------------------------------------------------------------
(* Reading the pair.                                                       *)

PairAbsent(d) == d.registry = Absent /\ d.checksum = Absent

\* read_registry() succeeds: both files absent, or the checksum matches.
Readable(d) == PairAbsent(d) \/ (d.registry # Absent /\ d.checksum = d.registry)
Read(d)     == IF PairAbsent(d) THEN Empty ELSE d.registry

\* read_valid_pair(): what an intent records as the previous pair.
ValidPair(d) == IF PairAbsent(d) THEN Absent ELSE d.registry

\* validate_staged_pair()
StagedPair(d) == /\ d.registryTemp[d.intent.op] = d.intent.next
                 /\ d.checksumTemp[d.intent.op] = d.intent.next

(* The decision of recover_pair() when there is an intent.                 *)
AcceptNext(d)     == Readable(d) /\ ~PairAbsent(d) /\ d.registry = d.intent.next
RetainPrevious(d) == /\ Readable(d)
                     /\ ValidPair(d) = d.intent.previous
                     /\ StagedPair(d)
CompleteNext(d)   == /\ ~Readable(d)
                     /\ d.registry = d.intent.next
                     /\ d.checksumTemp[d.intent.op] = d.intent.next
Recoverable(d)    == IF d.intent = Absent THEN Readable(d)
                     ELSE AcceptNext(d) \/ RetainPrevious(d) \/ CompleteNext(d)

\* The registry that recovery of d selects.
Effective(d) == IF d.intent # Absent /\ CompleteNext(d) THEN d.intent.next ELSE Read(d)

-----------------------------------------------------------------------------
(* Operations on the directory.                                            *)

Change(d) == dir' = d /\ exposed' = exposed \cup {d} /\ UNCHANGED durable
Flush     == exposed' = {dir} /\ UNCHANGED <<durable, dir>>
Keep      == UNCHANGED <<durable, dir, exposed>>

Move(p, place) == pc' = [pc EXCEPT ![p] = place]

\* Places where a process holds writer.lock and checkpoints.lock exclusively.
Idle    == {"idle", "reading", "rereading", "readingAgain"}
Locked(p) == pc[p] \notin Idle

\* A process leaves and drops its locks.
Leave(p) == /\ Move(p, "idle")
            /\ request' = [request EXCEPT ![p] = Absent]
            /\ next' = [next EXCEPT ![p] = Absent]
            /\ readers' = readers \ {p}

\* Mutant: an admission without its lock.
AdmittedWithoutLock(p) == pc[p] = "idle"

\* admit_project_lifecycle() returns: in the Durable mode no other call is running.
Admitted(p) == pc[p] = "idle" /\ (durable => \A q \in Procs : pc[q] = "idle")

\* acquire_mutation_locks(): both try-locks succeed; a busy lock is an error
\* that changes nothing.
LocksFree == readers = {} /\ \A p \in Procs : ~Locked(p)

Acquire(p, r) ==
    /\ Admitted(p)
    /\ LocksFree
    /\ request' = [request EXCEPT ![p] = r]
    /\ Move(p, "recover")
    /\ Keep
    /\ UNCHANGED <<next, readers, crashes, history>>

-----------------------------------------------------------------------------
(* recover_pair()                                                          *)

\* What follows recovery: a mutation decides, a read takes its shared lock.
AfterRecovery(p) == IF request[p] = Absent THEN "rereading" ELSE "decide"

RecoverNothing(p) ==
    /\ pc[p] = "recover"
    /\ dir.intent = Absent
    /\ Readable(dir)
    /\ Move(p, AfterRecovery(p))
    /\ Keep
    /\ UNCHANGED <<request, next, readers, crashes, history>>

\* registry_corrupt(): no combination of files that recovery accepts.
RecoverCorrupt(p) ==
    /\ pc[p] = "recover"
    /\ ~Recoverable(dir)
    /\ Leave(p)
    /\ Keep
    /\ UNCHANGED <<crashes, history>>

RecoverAccept(p) ==
    /\ pc[p] = "recover"
    /\ dir.intent # Absent
    /\ \/ AcceptNext(dir) /\ Move(p, "acceptNext")
       \/ ~AcceptNext(dir) /\ RetainPrevious(dir) /\ Move(p, "rollBack")
    /\ Keep
    /\ UNCHANGED <<request, next, readers, crashes, history>>

\* Mutant: restores the previous registry instead.
RecoverBackwards(p) ==
    /\ pc[p] = "recover"
    /\ dir.intent # Absent
    /\ ~AcceptNext(dir) /\ ~RetainPrevious(dir) /\ CompleteNext(dir)
    /\ Change([dir EXCEPT !.registry = dir.intent.previous, !.intent = Absent])
    /\ Move(p, "completed")
    /\ UNCHANGED <<request, next, readers, crashes, history>>

\* The registry was renamed and its checksum was not: install the checksum.
RecoverComplete(p) ==
    /\ pc[p] = "recover"
    /\ dir.intent # Absent
    /\ ~AcceptNext(dir) /\ ~RetainPrevious(dir) /\ CompleteNext(dir)
    /\ Change([dir EXCEPT !.checksum = dir.intent.next, !.checksumTemp[dir.intent.op] = Absent])
    /\ Move(p, "completed")
    /\ UNCHANGED <<request, next, readers, crashes, history>>

RecoverFlush(p) ==
    /\ pc[p] = "completed"
    /\ Flush
    /\ Move(p, "acceptNext")
    /\ UNCHANGED <<request, next, readers, crashes, history>>

\* cleanup_intent(): unlink the two staged files, then the intent, then flush.
Cleaning == {"acceptNext", "rollBack"}

UnlinkRegistryTemp(p) ==
    /\ pc[p] \in Cleaning
    /\ dir.intent # Absent
    /\ dir.registryTemp[dir.intent.op] # Absent
    /\ Change([dir EXCEPT !.registryTemp[dir.intent.op] = Absent])
    /\ UNCHANGED <<pc, request, next, readers, crashes, history>>

UnlinkChecksumTemp(p) ==
    /\ pc[p] \in Cleaning
    /\ dir.intent # Absent
    /\ dir.registryTemp[dir.intent.op] = Absent
    /\ dir.checksumTemp[dir.intent.op] # Absent
    /\ Change([dir EXCEPT !.checksumTemp[dir.intent.op] = Absent])
    /\ UNCHANGED <<pc, request, next, readers, crashes, history>>

UnlinkIntent(p) ==
    /\ pc[p] \in Cleaning
    /\ dir.intent # Absent
    /\ dir.registryTemp[dir.intent.op] = Absent
    /\ dir.checksumTemp[dir.intent.op] = Absent
    /\ Change([dir EXCEPT !.intent = Absent])
    /\ UNCHANGED <<pc, request, next, readers, crashes, history>>

FlushCleanup(p) ==
    /\ pc[p] \in Cleaning
    /\ dir.intent = Absent
    /\ Flush
    /\ Move(p, AfterRecovery(p))
    /\ UNCHANGED <<request, next, readers, crashes, history>>

-----------------------------------------------------------------------------
(* create_checkpoint and delete_checkpoint, under the locks.               *)

RowOf(reg, o)       == {row \in reg.active : row.op = o}
CreatedTomb(reg, o) == {t \in reg.tombstones : t.op = o}
DeletedTomb(reg, o) == {t \in reg.tombstones : t.deleteOp = o}
Named(reg, n)       == {row \in reg.active : row.name = n}
\* Mutant: forgets operations whose checkpoint was deleted.
KnownWhileActive(reg, o) == RowOf(reg, o) \cup DeletedTomb(reg, o) # {}
Known(reg, o)       == RowOf(reg, o) \cup CreatedTomb(reg, o) \cup DeletedTomb(reg, o) # {}

\* The receipts an operation already recorded in the registry is answered with;
\* the same UUID with another request is GF_TRANSACTION_CONFLICT.
Replay(reg, r) ==
    IF r.kind = "create"
    THEN {<<r.op, row.created>> :
             row \in {x \in RowOf(reg, r.op) \cup CreatedTomb(reg, r.op) : x.name = r.name}}
    ELSE {<<r.op, t.deleted>> : t \in {x \in DeletedTomb(reg, r.op) : x.name = r.name}}

\* Mutant: keeps one tombstone too many.
RetainedTooMany(tombs) ==
    {t \in tombs : Cardinality({u \in tombs : u.deleted > t.deleted}) <= MaxTombstones}

\* The newest MAX_TOMBSTONES tombstones.
Retained(tombs) ==
    {t \in tombs : Cardinality({u \in tombs : u.deleted > t.deleted}) < MaxTombstones}

Tombstone(row, r, rev) ==
    [name |-> row.name, op |-> row.op, created |-> row.created,
     deleteOp |-> r.op, deleted |-> rev]

\* Refused with an error: conflict, name exists, limit reached, name not found.
Refused(reg, r) ==
    \/ Known(reg, r.op)
    \/ reg.revision = MaxRevision
    \/ r.kind = "create" /\ (Named(reg, r.name) # {} \/ Cardinality(reg.active) >= MaxActive)
    \/ r.kind = "delete" /\ Named(reg, r.name) = {}

Apply(reg, r) ==
    LET rev == reg.revision + 1 IN
    IF r.kind = "create"
    THEN [reg EXCEPT !.revision = rev,
                     !.active = @ \cup {[name |-> r.name, op |-> r.op, created |-> rev]}]
    ELSE [reg EXCEPT !.revision = rev,
                     !.active = @ \ Named(reg, r.name),
                     !.tombstones = Retained(@ \cup {Tombstone(row, r, rev) : row \in Named(reg, r.name)})]

DecideAnswer(p) ==
    /\ pc[p] = "decide"
    /\ Refused(Read(dir), request[p])
    /\ receipts' = receipts \cup Replay(Read(dir), request[p])
    /\ Leave(p)
    /\ Keep
    /\ UNCHANGED <<crashes, pruned, cutShort>>

\* The operations that a registry knew by a tombstone and its successor does not.
Drained(reg, successor) ==
    {o \in Ops : \E t \in reg.tombstones \ successor.tombstones : o \in {t.op, t.deleteOp}}

DecideCommit(p) ==
    /\ pc[p] = "decide"
    /\ ~Refused(Read(dir), request[p])
    /\ next' = [next EXCEPT ![p] = Apply(Read(dir), request[p])]
    /\ pruned' = pruned \cup Drained(Read(dir), next'[p])
    /\ Move(p, "prepare")
    /\ Keep
    /\ UNCHANGED <<request, readers, crashes, receipts, cutShort>>

-----------------------------------------------------------------------------
(* commit_registry(): stage, intent, rename, rename, flush, remove intent. *)

\* prepare_temp_path() removes what an earlier attempt left.
PrepareTemps(p) ==
    /\ pc[p] = "prepare"
    /\ Change([dir EXCEPT !.registryTemp[request[p].op] = Absent,
                          !.checksumTemp[request[p].op] = Absent])
    /\ Move(p, "stageRegistry")
    /\ UNCHANGED <<request, next, readers, crashes, history>>

StageRegistry(p) ==
    /\ pc[p] = "stageRegistry"
    /\ Change([dir EXCEPT !.registryTemp[request[p].op] = next[p]])
    /\ Move(p, "stageChecksum")
    /\ UNCHANGED <<request, next, readers, crashes, history>>

StageChecksum(p) ==
    /\ pc[p] = "stageChecksum"
    /\ Change([dir EXCEPT !.checksumTemp[request[p].op] = next[p]])
    /\ Move(p, "flushStaged")
    /\ UNCHANGED <<request, next, readers, crashes, history>>

WriteIntent(p) ==
    /\ pc[p] = "intent"
    /\ Change([dir EXCEPT !.intent = [op |-> request[p].op, previous |-> ValidPair(dir),
                                      next |-> next[p]]])
    /\ Move(p, "flushIntent")
    /\ UNCHANGED <<request, next, readers, crashes, history>>

\* Mutant: renames the checksum first.
ReplaceChecksumFirst(p) ==
    /\ pc[p] = "registry"
    /\ Change([dir EXCEPT !.checksum = next[p], !.checksumTemp[request[p].op] = Absent])
    /\ Move(p, "checksum")
    /\ UNCHANGED <<request, next, readers, crashes, history>>

ReplaceRegistry(p) ==
    /\ pc[p] = "registry"
    /\ Change([dir EXCEPT !.registry = next[p], !.registryTemp[request[p].op] = Absent])
    /\ Move(p, "checksum")
    /\ UNCHANGED <<request, next, readers, crashes, history>>

ReplaceChecksum(p) ==
    /\ pc[p] = "checksum"
    /\ Change([dir EXCEPT !.checksum = next[p], !.checksumTemp[request[p].op] = Absent])
    /\ Move(p, "flushPair")
    /\ UNCHANGED <<request, next, readers, crashes, history>>

\* Mutant: no directory flush.
FlushStepSkipped(p) ==
    /\ \/ pc[p] = "flushStaged" /\ Move(p, "intent")
       \/ pc[p] = "flushIntent" /\ Move(p, "registry")
       \/ pc[p] = "flushPair" /\ Move(p, "retire")
       \/ pc[p] = "flushRetired" /\ Move(p, "answer")
    /\ Keep
    /\ UNCHANGED <<request, next, readers, crashes, history>>

\* The directory flushes between these steps.
FlushStep(p) ==
    /\ \/ pc[p] = "flushStaged" /\ Move(p, "intent")
       \/ pc[p] = "flushIntent" /\ Move(p, "registry")
       \/ pc[p] = "flushPair" /\ Move(p, "retire")
       \/ pc[p] = "flushRetired" /\ Move(p, "answer")
    /\ Flush
    /\ UNCHANGED <<request, next, readers, crashes, history>>

RetireIntent(p) ==
    /\ pc[p] = "retire"
    /\ Change([dir EXCEPT !.intent = Absent])
    /\ Move(p, "flushRetired")
    /\ UNCHANGED <<request, next, readers, crashes, history>>

Answer(p) ==
    /\ pc[p] = "answer"
    /\ receipts' = receipts \cup {<<request[p].op, next[p].revision>>}
    /\ Leave(p)
    /\ Keep
    /\ UNCHANGED <<crashes, pruned, cutShort>>

-----------------------------------------------------------------------------
(* read_registry_for_read(): under the shared lock; an intent is recovered *)
(* first under the exclusive locks, which are then dropped.                *)

SharedLockFree == \A q \in Procs : ~Locked(q)

BeginRead(p) ==
    /\ Admitted(p)
    /\ SharedLockFree
    /\ dir.intent = Absent
    /\ readers' = readers \cup {p}
    /\ Move(p, "reading")
    /\ Keep
    /\ UNCHANGED <<request, next, crashes, history>>

\* The intent is there: drop the shared lock and take the mutation locks.
RecoverForRead(p) == dir.intent # Absent /\ Acquire(p, Absent)

ReadAgain(p) ==
    /\ pc[p] = "rereading"
    /\ SharedLockFree
    /\ readers' = readers \cup {p}
    /\ Move(p, "readingAgain")
    /\ Keep
    /\ UNCHANGED <<request, next, crashes, history>>

\* The exclusive locks are held by someone else: GF_WRITER_BUSY.
ReadBusy(p) ==
    /\ pc[p] = "rereading"
    /\ ~SharedLockFree
    /\ Leave(p)
    /\ Keep
    /\ UNCHANGED <<crashes, history>>

\* read_registry() returns the registry, or fails on a pair that does not match.
EndRead(p) ==
    /\ pc[p] \in {"reading", "readingAgain"}
    /\ Leave(p)
    /\ Keep
    /\ UNCHANGED <<crashes, history>>

-----------------------------------------------------------------------------
(* Crashes.                                                                *)

\* A process stops where it is: killed, or an I/O error ends the call.
Crash(p) ==
    /\ pc[p] # "idle"
    /\ crashes < MaxCrashes
    /\ crashes' = crashes + 1
    /\ cutShort' = cutShort \cup ({pc[p]} \cap Cleaning)
    /\ Leave(p)
    /\ Keep
    /\ UNCHANGED <<receipts, pruned>>

PowerLoss ==
    /\ crashes < MaxCrashes
    /\ crashes' = crashes + 1
    /\ cutShort' = cutShort \cup ({pc[p] : p \in Procs} \cap Cleaning)
    /\ dir' \in exposed
    /\ exposed' = {dir'}
    /\ pc' = [p \in Procs |-> "idle"]
    /\ request' = [p \in Procs |-> Absent]
    /\ next' = [p \in Procs |-> Absent]
    /\ readers' = {}
    /\ UNCHANGED <<durable, receipts, pruned>>

Mutate(p) ==
    \/ RecoverNothing(p) \/ RecoverCorrupt(p) \/ RecoverAccept(p) \/ RecoverComplete(p)
    \/ RecoverFlush(p) \/ UnlinkRegistryTemp(p) \/ UnlinkChecksumTemp(p) \/ UnlinkIntent(p)
    \/ FlushCleanup(p) \/ DecideAnswer(p) \/ DecideCommit(p) \/ PrepareTemps(p) \/ StageRegistry(p)
    \/ StageChecksum(p) \/ WriteIntent(p) \/ ReplaceRegistry(p) \/ ReplaceChecksum(p)
    \/ FlushStep(p) \/ RetireIntent(p) \/ Answer(p)

Next ==
    \/ \E p \in Procs : \/ \E r \in Requests : Acquire(p, r)
                        \/ Mutate(p)
                        \/ BeginRead(p) \/ RecoverForRead(p) \/ ReadAgain(p) \/ ReadBusy(p)
                        \/ EndRead(p) \/ Crash(p)
    \/ PowerLoss

Spec == Init /\ [][Next]_vars

-----------------------------------------------------------------------------

Places == Idle \cup Cleaning \cup
    {"recover", "completed", "decide", "prepare", "stageRegistry", "stageChecksum", "flushStaged",
     "intent", "flushIntent", "registry", "checksum", "flushPair", "retire",
     "flushRetired", "answer"}

TypeOK ==
    /\ durable \in BOOLEAN
    /\ exposed \subseteq Directories
    /\ dir \in exposed
    /\ pc \in [Procs -> Places]
    /\ request \in [Procs -> Requests \cup {Absent}]
    /\ next \in [Procs -> Files]
    /\ readers \subseteq Procs
    /\ crashes \in 0..MaxCrashes
    /\ receipts \subseteq (Ops \X (1..MaxRevision))
    /\ pruned \subseteq Ops /\ cutShort \subseteq Cleaning

\* validate_registry(): limits, unique names, operations and revisions.
ValidRegistry(v) ==
    /\ Cardinality(v.active) <= MaxActive
    /\ Cardinality(v.tombstones) <= MaxTombstones
    /\ \A a, b \in v.active : (a.name = b.name \/ a.op = b.op) => a = b
    /\ \A a \in v.active : a.created <= v.revision
    /\ \A a, b \in v.tombstones : (a.op = b.op \/ a.deleteOp = b.deleteOp \/ a.deleted = b.deleted) => a = b
    /\ \A t \in v.tombstones :
          /\ t.created < t.deleted /\ t.deleted <= v.revision
          /\ \A a \in v.active : a.op # t.op /\ a.op # t.deleteOp
          /\ \A u \in v.tombstones : u.op # t.deleteOp

\* Whatever sequence of creates, deletes, replays and reuses of operation UUIDs ran
\* before, the registry a mutation is about to install passes validate_registry:
\* canonical_bytes() never refuses the program's own update.
UpdatesPassValidation ==
    \A p \in Procs : next[p] # Absent => ValidRegistry(next[p])

\* An operation whose receipt was returned is part of every registry that a crash or
\* a power loss may leave behind, unless its tombstone was pruned.  The exception is
\* recover_pair() of a completed pair, killed between the removal of the intent and
\* the flush of the directory: nothing flushes the pair again.
AcknowledgedSurvives ==
    "acceptNext" \in cutShort \/
    \A receipt \in receipts : \A d \in exposed : Recoverable(d) =>
        /\ Effective(d).revision >= receipt[2]
        /\ Known(Effective(d), receipt[1]) \/ receipt[1] \in pruned

\* A retried operation is answered with the receipt of its first execution: the
\* operation takes effect once, whether the crash came before or after its commit
\* (same exceptions as above).
OneReceiptPerOperation ==
    "acceptNext" \in cutShort \/
    \A a, b \in receipts : a[1] = b[1] /\ a[1] \notin pruned => a[2] = b[2]

\* Crashes at any point of a commit, and of the recovery of a commit, leave a pair
\* that recover_pair() accepts, except for a crash inside the removal of a
\* rolled-back intent.
RecoverableUnlessRollbackInterrupted ==
    \/ "rollBack" \in cutShort \/ \E p \in Procs : pc[p] = "rollBack"
    \/ \A d \in exposed : Recoverable(d)

\* Recovery and commits only move the registry forward by one operation: the registry
\* recovery would select changes by Apply of the request being served, or by a
\* power loss that takes back an operation whose receipt was not returned.
OneOperationAtATime ==
    [][(Recoverable(dir) /\ Recoverable(dir') /\ Effective(dir') # Effective(dir)) =>
          \/ \E p \in Procs : Effective(dir') = next[p] /\ next[p] = Apply(Effective(dir), request[p])
          \/ PowerLoss]_vars

\* A reader that found no intent under the shared lock reads a pair that matches,
\* whatever mutations, recoveries and crashes came before it.  So does one that
\* recovered an intent itself and took its shared lock again without looking for
\* another intent, if the lifecycle lock keeps mutations out of the gap.
ReadersSeeValidPair ==
    \A p \in Procs :
        pc[p] = "reading" \/ (durable /\ pc[p] = "readingAgain") => Readable(dir)

\* "An interruption exposes exactly the previous or next valid registry revision."
\* (docs/adr/0014-workspace-checkpoints.md)
InterruptionExposesPreviousOrNext == \A d \in exposed : Recoverable(d)

\* A delete whose tombstone was pruned "is treated as a delete of an unknown name
\* and returns GF_CHECKPOINT_NOT_FOUND" (same document): it deletes nothing again.
PrunedDeleteIsUnknown ==
    \A r \in Requests : r.kind = "delete" =>
        \A a, b \in receipts : a[1] = r.op /\ b[1] = r.op => a = b

\* "Repeating an operation UUID with identical canonical request bytes returns the
\* original receipt." (same document; tombstones are not pruned in the run).
ReplayReturnsOriginalReceipt ==
    \A a, b \in receipts : a[1] = b[1] => a = b

=============================================================================
