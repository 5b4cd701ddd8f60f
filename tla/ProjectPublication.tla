--------------------------- MODULE ProjectPublication ---------------------------
(***************************************************************************)
(* Staging, validating and publishing one generation                       *)
(* (crates/graphforge-storage/src/project_publication.rs).                 *)
(*                                                                         *)
(* An exclusive writer takes writer.lock without waiting and holds it to   *)
(* the end.  An optimistic writer stages in attempts/ under the lock of    *)
(* its transaction and takes writer.lock, which it waits for, only to      *)
(* commit.  Every error returns to the caller, drops the locks and leaves  *)
(* journal and directories as they are.                                    *)
(***************************************************************************)
EXTENDS ProjectStore

T(p) == job[p].txn

\* What the writing steps leave alone besides the disk.
KeepRest == UNCHANGED <<locks, job, todo, reads, receipts, hasty, crashes>>

\* The call returns an error.
Fail(p) == Leave(p) /\ UNCHANGED <<disk, reads, receipts, hasty, crashes>>

WriteJournal(t, phase, digest) ==
    journal' = [journal EXCEPT ![t] = [phase |-> phase, digest |-> digest]]

-----------------------------------------------------------------------------
(* Admission, locks and the pinned parent.                                 *)

BeginExclusive(p, t) ==
    t \in Exclusive /\ Admit(p, "syncWriter", Job(t, FALSE, None, 0))

BeginOptimistic(p, t) ==
    t \in Optimistic /\ Admit(p, "lockTxn", Job(t, TRUE, None, 0))

\* acquire_writer_lock(): flush the root directory, then try the lock.
SyncWriter(p) ==
    /\ pc[p] = "syncWriter"
    /\ FlushRoot
    /\ Move(p, "lockWriter")
    /\ KeepRest
    /\ UNCHANGED <<log, journal, gens, parentOf, attempts, trash>>

\* Mutant: does not look whether the lock is taken.
LockWriterAlways(p) ==
    /\ pc[p] = "lockWriter"
    /\ writer' = p
    /\ Move(p, "resolve")
    /\ UNCHANGED <<disk, lifecycle, txnLock, job, todo, reads, receipts, hasty, crashes>>

LockWriter(p) ==
    /\ pc[p] = "lockWriter"
    /\ writer = None
    /\ writer' = p
    /\ Move(p, "resolve")
    /\ UNCHANGED <<disk, lifecycle, txnLock, job, todo, reads, receipts, hasty, crashes>>

WriterBusy(p) == pc[p] = "lockWriter" /\ writer # None /\ Fail(p)

\* acquire_transaction_lock()
LockTxn(p) ==
    /\ pc[p] = "lockTxn"
    /\ txnLock[T(p)] = None
    /\ txnLock' = [txnLock EXCEPT ![T(p)] = p]
    /\ Move(p, "resolve")
    /\ UNCHANGED <<disk, lifecycle, writer, job, todo, reads, receipts, hasty, crashes>>

TxnBusy(p) == pc[p] = "lockTxn" /\ txnLock[T(p)] # None /\ Fail(p)

\* Mutant: the lifecycle lock is kept.
PinParentAdmitted(p) ==
    /\ pc[p] = "resolve"
    /\ Resolves(Current)
    /\ job' = [job EXCEPT ![p] = Job(T(p), job[p].optimistic, Current.gen, 0)]
    /\ Move(p, "journal")
    /\ UNCHANGED <<disk, locks, todo, reads, receipts, hasty, crashes>>

\* resolve_project_generation() pins the parent; into_identity() then gives the
\* lifecycle lock up.
PinParent(p) ==
    /\ pc[p] = "resolve"
    /\ Resolves(Current)
    /\ job' = [job EXCEPT ![p] = Job(T(p), job[p].optimistic, Current.gen, 0)]
    /\ lifecycle' = None
    /\ Move(p, "journal")
    /\ UNCHANGED <<disk, writer, txnLock, todo, reads, receipts, hasty, crashes>>

ParentCorrupt(p) ==
    pc[p] \in {"resolve", "checkParent"} /\ ~Resolves(Current) /\ Fail(p)

-----------------------------------------------------------------------------
(* prepare_publication_journal() and handle_existing_journal().            *)

\* No journal, or an aborted one whose directories recovery has removed: what is
\* left of earlier attempts is deleted and the transaction starts again.
StartAfresh(p) ==
    /\ pc[p] = "journal"
    /\ \/ journal[T(p)].phase = "none" /\ UNCHANGED attempts
       \/ /\ journal[T(p)].phase = "ABORTED"
          /\ gens[T(p)] = "absent" /\ T(p) \notin trash
          /\ attempts' = [attempts EXCEPT ![T(p)] = "absent"]
    /\ FlushRoot
    /\ Move(p, "prepare")
    /\ KeepRest
    /\ UNCHANGED <<log, journal, gens, parentOf, trash>>

PublishedIntact(t) == gens[t] = "complete" /\ parentOf[t] = journal[t].digest

\* Mutant: answers for every journal that has a digest.
ReplayWithoutPhase(p) ==
    /\ pc[p] = "journal"
    /\ journal[T(p)].digest # None
    /\ PublishedIntact(T(p))
    /\ receipts' = receipts \cup {T(p)}
    /\ FlushRoot
    /\ Leave(p)
    /\ UNCHANGED <<log, journal, gens, parentOf, attempts, trash, reads, hasty, crashes>>

\* An exact retry of a published transaction is answered from its journal.
Replay(p) ==
    /\ pc[p] = "journal"
    /\ journal[T(p)].phase = "PUBLISHED"
    /\ PublishedIntact(T(p))
    /\ receipts' = receipts \cup {T(p)}
    /\ FlushRoot
    /\ Leave(p)
    /\ UNCHANGED <<log, journal, gens, parentOf, attempts, trash, reads, hasty, crashes>>

\* Recovery has to run first, or the published generation is gone.
RefuseJournal(p) ==
    /\ pc[p] = "journal"
    /\ \/ journal[T(p)].phase \notin Terminal
       \/ journal[T(p)].phase = "ABORTED" /\ (gens[T(p)] # "absent" \/ T(p) \in trash)
       \/ journal[T(p)].phase = "PUBLISHED" /\ ~PublishedIntact(T(p))
    /\ FlushRoot
    /\ Leave(p)
    /\ UNCHANGED <<log, journal, gens, parentOf, attempts, trash, reads, receipts, hasty, crashes>>

-----------------------------------------------------------------------------
(* Staging and validation.                                                 *)

\* prepare_generation_directory()
PrepareDirectory(p) ==
    /\ pc[p] = "prepare"
    /\ IF job[p].optimistic
       THEN /\ attempts[T(p)] \in {"absent", "empty"}
            /\ attempts' = [attempts EXCEPT ![T(p)] = "partial"]
            /\ UNCHANGED gens
       ELSE /\ gens[T(p)] = "absent"
            /\ gens' = [gens EXCEPT ![T(p)] = "partial"]
            /\ UNCHANGED attempts
    /\ Move(p, "preparing")
    /\ KeepRest
    /\ UNCHANGED <<log, flushed, journal, parentOf, trash>>

DirectoryExists(p) ==
    /\ pc[p] = "prepare"
    /\ IF job[p].optimistic THEN attempts[T(p)] \notin {"absent", "empty"}
                              ELSE gens[T(p)] # "absent"
    /\ Fail(p)

\* The PREPARING and STAGED journals; the participants are written in between.
StageParticipants(p) ==
    /\ \/ pc[p] = "preparing" /\ WriteJournal(T(p), "PREPARING", None) /\ Move(p, "stage")
       \/ pc[p] = "stage" /\ WriteJournal(T(p), "STAGED", None) /\ Move(p, "validate")
    /\ KeepRest
    /\ UNCHANGED <<log, flushed, gens, parentOf, attempts, trash>>

\* validate(): the domain and composite validations accept.
Validate(p) ==
    /\ pc[p] = "validate"
    /\ WriteJournal(T(p), "VALIDATED", None)
    /\ Move(p, IF job[p].optimistic THEN "readmit" ELSE "manifest")
    /\ KeepRest
    /\ UNCHANGED <<log, flushed, gens, parentOf, attempts, trash>>

\* The composite validation of an optimistic attempt reports a conflict.
ValidateConflict(p) ==
    /\ pc[p] = "validate"
    /\ job[p].optimistic
    /\ Move(p, "abort")
    /\ KeepRest
    /\ UNCHANGED disk

\* A validation refuses: the attempt stays behind for recovery.
ValidateRefuses(p) == pc[p] = "validate" /\ Fail(p)

-----------------------------------------------------------------------------
(* The commit lock of an optimistic attempt.                               *)

\* readmit_for_publish() waits for the lifecycle lock again.
Readmit(p) ==
    /\ pc[p] = "readmit"
    /\ lifecycle = None
    /\ lifecycle' = p
    /\ Move(p, "syncCommit")
    /\ UNCHANGED <<disk, writer, txnLock, job, todo, reads, receipts, hasty, crashes>>

\* wait_for_writer_lock(): flush the root directory, then wait for the lock.
SyncCommit(p) ==
    /\ pc[p] = "syncCommit"
    /\ FlushRoot
    /\ Move(p, "waitWriter")
    /\ KeepRest
    /\ UNCHANGED <<log, journal, gens, parentOf, attempts, trash>>

WaitWriter(p) ==
    /\ pc[p] = "waitWriter"
    /\ writer = None
    /\ writer' = p
    /\ Move(p, "checkParent")
    /\ UNCHANGED <<disk, lifecycle, txnLock, job, todo, reads, receipts, hasty, crashes>>

\* Mutant: commits whatever CURRENT is.
CheckParentNever(p) ==
    /\ pc[p] = "checkParent"
    /\ Move(p, "manifest")
    /\ KeepRest
    /\ UNCHANGED disk

\* prepare_commit_lock(): CURRENT still names the pinned parent.
CheckParent(p) ==
    /\ pc[p] = "checkParent"
    /\ Resolves(Current)
    /\ IF Current.gen = job[p].parent THEN Move(p, "manifest") ELSE Move(p, "abort")
    /\ KeepRest
    /\ UNCHANGED disk

\* abort_stale_generation(): the ABORTED journal, then the attempt is deleted; its
\* parent directory attempts/<t> stays.
AbortStale(p) ==
    /\ pc[p] = "abort"
    /\ WriteJournal(T(p), "ABORTED", None)
    /\ Move(p, "removeAttempt")
    /\ KeepRest
    /\ UNCHANGED <<log, flushed, gens, parentOf, attempts, trash>>

RemoveAttempt(p) ==
    /\ pc[p] = "removeAttempt"
    /\ attempts' = [attempts EXCEPT ![T(p)] = "empty"]
    /\ Leave(p)
    /\ UNCHANGED <<log, flushed, journal, gens, parentOf, trash, reads, receipts, hasty, crashes>>

-----------------------------------------------------------------------------
(* make_generation_durable() and promote_optimistic_generation().          *)

WriteManifest(p) ==
    /\ pc[p] = "manifest"
    /\ IF job[p].optimistic
       THEN /\ attempts' = [attempts EXCEPT ![T(p)] = "complete"]
            /\ Move(p, "promote")
            /\ UNCHANGED <<gens, parentOf>>
       ELSE /\ gens' = [gens EXCEPT ![T(p)] = "complete"]
            /\ parentOf' = [parentOf EXCEPT ![T(p)] = job[p].parent]
            /\ Move(p, "durable")
            /\ UNCHANGED attempts
    /\ KeepRest
    /\ UNCHANGED <<log, flushed, journal, trash>>

Promote(p) ==
    /\ pc[p] = "promote"
    /\ gens[T(p)] = "absent"
    /\ gens' = [gens EXCEPT ![T(p)] = "complete"]
    /\ parentOf' = [parentOf EXCEPT ![T(p)] = job[p].parent]
    /\ attempts' = [attempts EXCEPT ![T(p)] = "empty"]
    /\ Move(p, "retireAttempt")
    /\ KeepRest
    /\ UNCHANGED <<log, flushed, journal, trash>>

RetireAttempt(p) ==
    /\ pc[p] = "retireAttempt"
    /\ attempts' = [attempts EXCEPT ![T(p)] = "absent"]
    /\ Move(p, "durable")
    /\ KeepRest
    /\ UNCHANGED <<log, flushed, journal, gens, parentOf, trash>>

\* The destination exists: GF_TRANSACTION_CONFLICT.
PromoteConflict(p) == pc[p] = "promote" /\ gens[T(p)] # "absent" /\ Fail(p)

\* Mutant: the journal keeps no digest.
WriteDurableWithoutDigest(p) ==
    /\ pc[p] = "durable"
    /\ WriteJournal(T(p), "DURABLE", None)
    /\ Move(p, "replace")
    /\ KeepRest
    /\ UNCHANGED <<log, flushed, gens, parentOf, attempts, trash>>

\* Mutant: the root directory is flushed for the replacement that is still to come.
WriteDurableFlushed(p) ==
    /\ pc[p] = "durable"
    /\ WriteJournal(T(p), "DURABLE", job[p].parent)
    /\ flushed' = Len(log) + 1
    /\ Move(p, "replace")
    /\ KeepRest
    /\ UNCHANGED <<log, gens, parentOf, attempts, trash>>

WriteDurable(p) ==
    /\ pc[p] = "durable"
    /\ WriteJournal(T(p), "DURABLE", job[p].parent)
    /\ Move(p, "replace")
    /\ KeepRest
    /\ UNCHANGED <<log, flushed, gens, parentOf, attempts, trash>>

-----------------------------------------------------------------------------
(* replace_current() and finish_published_generation().                    *)

\* The native replacement of CURRENT: the commit point.
ReplaceCurrent(p) ==
    /\ pc[p] = "replace"
    /\ Len(log) < MaxCommits
    /\ log' = Append(log, [gen |-> T(p), digest |-> job[p].parent])
    /\ Move(p, "acknowledge")
    /\ KeepRest
    /\ UNCHANGED <<flushed, journal, gens, parentOf, attempts, trash>>

\* Cancelled before the replacement, or the replacement failed and reconciliation
\* found the old CURRENT.
ReplaceFails(p) == pc[p] = "replace" /\ Fail(p)

\* Mutant: reports success before the root directory is flushed.
AcknowledgeLate(p) ==
    /\ pc[p] = "acknowledge"
    /\ Move(p, "published")
    /\ KeepRest
    /\ UNCHANGED disk

Acknowledge(p) ==
    /\ pc[p] = "acknowledge"
    /\ FlushRoot
    /\ Move(p, "published")
    /\ KeepRest
    /\ UNCHANGED <<log, journal, gens, parentOf, attempts, trash>>

WritePublished(p) ==
    /\ pc[p] = "published"
    /\ WriteJournal(T(p), "PUBLISHED", job[p].parent)
    /\ Move(p, "confirm")
    /\ KeepRest
    /\ UNCHANGED <<log, flushed, gens, parentOf, attempts, trash>>

\* The receipt is returned if CURRENT resolves to the published generation.
Confirm(p) ==
    /\ pc[p] = "confirm"
    /\ IF Current = [gen |-> T(p), digest |-> job[p].parent] /\ Resolves(Current)
       THEN receipts' = receipts \cup {T(p)}
       ELSE UNCHANGED receipts
    /\ Leave(p)
    /\ UNCHANGED <<disk, reads, hasty, crashes>>

Write(p) ==
    \/ SyncWriter(p) \/ LockWriter(p) \/ WriterBusy(p) \/ LockTxn(p) \/ TxnBusy(p)
    \/ PinParent(p) \/ ParentCorrupt(p) \/ StartAfresh(p) \/ Replay(p) \/ RefuseJournal(p)
    \/ PrepareDirectory(p) \/ DirectoryExists(p) \/ StageParticipants(p) \/ Validate(p)
    \/ ValidateConflict(p) \/ ValidateRefuses(p) \/ Readmit(p) \/ SyncCommit(p)
    \/ WaitWriter(p) \/ CheckParent(p) \/ AbortStale(p) \/ RemoveAttempt(p)
    \/ WriteManifest(p) \/ Promote(p) \/ RetireAttempt(p) \/ PromoteConflict(p)
    \/ WriteDurable(p) \/ ReplaceCurrent(p) \/ ReplaceFails(p) \/ Acknowledge(p)
    \/ WritePublished(p) \/ Confirm(p)
=============================================================================
