----------------------------- MODULE ProjectRecovery -----------------------------
(***************************************************************************)
(* Recovery on open and bounded clean-up                                   *)
(* (crates/graphforge-storage/src/project_recovery.rs and                  *)
(* project_retention.rs).                                                  *)
(*                                                                         *)
(* Both hold the lifecycle lock for the whole call and writer.lock for     *)
(* their work.  Recovery looks at every journal, in the order of their     *)
(* random names; clean-up at every complete generation its policy does     *)
(* not reach.  The order is any order.  Checkpoint and research roots are  *)
(* not modelled here: they only add generations to the retained ones.      *)
(***************************************************************************)
EXTENDS ProjectPublication

Recovering == {"recoverSync", "recoverLock", "recoverPlan", "recoverNext", "recoverAttempt",
               "recoverProbe", "recoverMove", "recoverDelete"}
Cleaning   == {"cleanSync", "cleanLock", "cleanPlan", "cleanNext", "cleanProbe", "cleanMove",
               "cleanDelete"}

\* aborted_journal_still_needs_cleanup()
NeedsCleanup(t) ==
    gens[t] # "absent" \/ t \in trash \/ attempts[t] \in {"partial", "complete"}

\* project_needs_recovery_pass()
NeedsRecovery ==
    \/ trash # {}
    \/ \E t \in Txns : \/ journal[t].phase \notin Terminal
                       \/ journal[t].phase = "ABORTED" /\ NeedsCleanup(t)

\* recover_project_on_open(): without work to do it only reads.
Open(p) ==
    /\ Resolves(Current)
    /\ NeedsRecovery
    /\ Admit(p, "recoverSync", Job(None, FALSE, None, RetainedAncestors))

\* run_cleanup() with a retention policy.
BeginCleanup(p, k) == Admit(p, "cleanSync", Job(None, FALSE, None, k))

-----------------------------------------------------------------------------
(* acquire_recovery_lock(): flush the root directory, then try the lock.   *)

SyncRecovery(p) ==
    /\ \/ pc[p] = "recoverSync" /\ Move(p, "recoverLock")
       \/ pc[p] = "cleanSync" /\ Move(p, "cleanLock")
    /\ FlushRoot
    /\ KeepRest
    /\ UNCHANGED <<log, journal, gens, parentOf, attempts, trash>>

LockRecovery(p) ==
    /\ \/ pc[p] = "recoverLock" /\ Move(p, "recoverPlan")
       \/ pc[p] = "cleanLock" /\ Move(p, "cleanPlan")
    /\ writer = None
    /\ writer' = p
    /\ UNCHANGED <<disk, lifecycle, txnLock, job, todo, reads, receipts, hasty, crashes>>

\* A live writer: an open is deferred, a clean-up is GF_WRITER_BUSY.
RecoveryBusy(p) == pc[p] \in {"recoverLock", "cleanLock"} /\ writer # None /\ Fail(p)

\* Recovery cannot establish what is retained: GF_PROJECT_CORRUPT.
PlanCorrupt(p) ==
    /\ pc[p] \in {"recoverPlan", "cleanPlan"}
    /\ Ambiguous(job[p].keep)
    /\ Fail(p)

PlanRecovery(p) ==
    /\ pc[p] = "recoverPlan"
    /\ ~Ambiguous(job[p].keep)
    /\ todo' = [todo EXCEPT ![p] = {t \in Txns : journal[t].phase # "none"}]
    /\ hasty' = (hasty \/ flushed < Len(log))
    /\ Move(p, "recoverNext")
    /\ UNCHANGED <<disk, locks, job, reads, receipts, crashes>>

\* classify_cleanup_candidates(): complete generations that are neither reachable nor
\* leased, and everything in the trash.  A generation without a manifest is quarantined.
Candidates(k) ==
    {g \in Gens : gens[g] = "complete" /\ g \notin Reachable(k) /\ ~Leased(g)}
        \cup (trash \ Reachable(k))

\* At most cleanup_batch of the candidates are worked on.
PlanCleanup(p) ==
    /\ pc[p] = "cleanPlan"
    /\ ~Ambiguous(job[p].keep)
    /\ \E batch \in SUBSET Candidates(job[p].keep) : todo' = [todo EXCEPT ![p] = batch]
    /\ hasty' = (hasty \/ flushed < Len(log))
    /\ Move(p, "cleanNext")
    /\ UNCHANGED <<disk, locks, job, reads, receipts, crashes>>

-----------------------------------------------------------------------------
(* recover_journals(): one journal at a time.                              *)

\* Take t from the list and work on it at `place'.  The transaction lock is held for
\* this long; nobody can ask for it, because that takes the lifecycle lock.
Take(p, t, place) ==
    /\ todo' = [todo EXCEPT ![p] = @ \ {t}]
    /\ job' = [job EXCEPT ![p] = Job(t, FALSE, None, job[p].keep)]
    /\ Move(p, place)

Done(p, t) ==
    /\ todo' = [todo EXCEPT ![p] = @ \ {t}]
    /\ UNCHANGED <<pc, job>>

\* A live optimistic attempt owns its transaction lock.
SkipLive(p, t) ==
    /\ pc[p] = "recoverNext" /\ t \in todo[p]
    /\ txnLock[t] # None
    /\ Done(p, t)
    /\ UNCHANGED <<disk, locks, reads, receipts, hasty, crashes>>

\* repair_reachable_journal(): the digest must be that of the committed manifest.
RepairJournal(p, t) ==
    /\ pc[p] = "recoverNext" /\ t \in todo[p]
    /\ txnLock[t] = None
    /\ t \in Reachable(job[p].keep)
    /\ journal[t].digest = parentOf[t]
    /\ WriteJournal(t, "PUBLISHED", journal[t].digest)
    /\ Done(p, t)
    /\ UNCHANGED <<log, flushed, gens, parentOf, attempts, trash, locks, reads,
                   receipts, hasty, crashes>>

RepairCorrupt(p, t) ==
    /\ pc[p] = "recoverNext" /\ t \in todo[p]
    /\ txnLock[t] = None
    /\ t \in Reachable(job[p].keep)
    /\ journal[t].digest # parentOf[t]
    /\ Fail(p)

\* Mutant: aborts the journals of live attempts and of retained generations too.
AbandonAny(p, t) ==
    /\ pc[p] = "recoverNext" /\ t \in todo[p]
    /\ IF journal[t].phase \in Terminal THEN UNCHANGED journal
                                        ELSE WriteJournal(t, "ABORTED", journal[t].digest)
    /\ Take(p, t, "recoverAttempt")
    /\ UNCHANGED <<log, flushed, gens, parentOf, attempts, trash, locks, reads,
                   receipts, hasty, crashes>>

\* Not retained: an unfinished journal is ABORTED, and the generation is cleaned up.
Abandon(p, t) ==
    /\ pc[p] = "recoverNext" /\ t \in todo[p]
    /\ txnLock[t] = None
    /\ t \notin Reachable(job[p].keep)
    /\ IF journal[t].phase \in Terminal THEN UNCHANGED journal
                                        ELSE WriteJournal(t, "ABORTED", journal[t].digest)
    /\ Take(p, t, "recoverAttempt")
    /\ UNCHANGED <<log, flushed, gens, parentOf, attempts, trash, locks, reads,
                   receipts, hasty, crashes>>

-----------------------------------------------------------------------------
(* cleanup_abandoned_generation() and cleanup_unreachable_generation().    *)

\* The private attempt and its parent directory, when the attempt exists.
DeleteAttempt(p) ==
    /\ pc[p] = "recoverAttempt"
    /\ attempts' = [attempts EXCEPT ![T(p)] = IF @ = "empty" THEN @ ELSE "absent"]
    /\ Move(p, "recoverProbe")
    /\ KeepRest
    /\ UNCHANGED <<log, flushed, journal, gens, parentOf, trash>>

NextPlace(p) == IF pc[p] \in Recovering THEN "recoverNext" ELSE "cleanNext"

TakeCandidate(p, g) ==
    /\ pc[p] = "cleanNext" /\ g \in todo[p]
    /\ todo' = [todo EXCEPT ![p] = @ \ {g}]
    /\ job' = [job EXCEPT ![p] = Job(g, FALSE, None, job[p].keep)]
    /\ Move(p, "cleanProbe")
    /\ UNCHANGED <<disk, locks, reads, receipts, hasty, crashes>>

AtProbe(p) == pc[p] \in {"recoverProbe", "cleanProbe"}

\* An entry of the trash is deleted; nothing else is looked at.
DeleteFromTrash(p) ==
    /\ AtProbe(p)
    /\ T(p) \in trash
    /\ IF Current.gen = T(p)
       THEN Fail(p)
       ELSE /\ trash' = trash \ {T(p)}
            /\ Move(p, NextPlace(p))
            /\ KeepRest
            /\ UNCHANGED <<log, flushed, journal, gens, parentOf, attempts>>

\* generation_lease_is_idle(): the exclusive lock is taken and given up again.
LeaseIdle(g) == ~Leased(g)

\* Nothing to delete, or a live lease: the generation is skipped.
ProbeSkips(p) ==
    /\ AtProbe(p)
    /\ T(p) \notin trash
    /\ gens[T(p)] = "absent" \/ ~LeaseIdle(T(p))
    /\ Move(p, NextPlace(p))
    /\ KeepRest
    /\ UNCHANGED disk

ProbeIdle(p) ==
    /\ AtProbe(p)
    /\ T(p) \notin trash
    /\ gens[T(p)] # "absent" /\ LeaseIdle(T(p))
    /\ Move(p, IF pc[p] = "recoverProbe" THEN "recoverMove" ELSE "cleanMove")
    /\ KeepRest
    /\ UNCHANGED disk

\* CURRENT is read again, and clean-up computes reachability again.  Under writer.lock
\* neither can have changed (CleanupDecisionHolds in Project).
StillUnreachable(p) ==
    IF pc[p] = "recoverMove" THEN Current.gen # T(p) ELSE T(p) \notin Reachable(job[p].keep)

\* Recovery reports a corrupt project, clean-up keeps the generation.
Keep(p) ==
    IF pc[p] = "recoverMove" THEN Fail(p)
    ELSE Move(p, "cleanNext") /\ KeepRest /\ UNCHANGED disk

MoveToTrash(p) ==
    /\ pc[p] \in {"recoverMove", "cleanMove"}
    /\ IF StillUnreachable(p)
       THEN /\ gens' = [gens EXCEPT ![T(p)] = "absent"]
            /\ trash' = trash \cup {T(p)}
            /\ Move(p, IF pc[p] = "recoverMove" THEN "recoverDelete" ELSE "cleanDelete")
            /\ KeepRest
            /\ UNCHANGED <<log, flushed, journal, parentOf, attempts>>
       ELSE Keep(p)

DeleteMoved(p) ==
    /\ pc[p] \in {"recoverDelete", "cleanDelete"}
    /\ trash' = trash \ {T(p)}
    /\ Move(p, NextPlace(p))
    /\ KeepRest
    /\ UNCHANGED <<log, flushed, journal, gens, parentOf, attempts>>

\* The locks are released and the report is returned.
FinishRecovery(p) ==
    /\ pc[p] \in {"recoverNext", "cleanNext"}
    /\ todo[p] = {}
    /\ Fail(p)

Recover(p) ==
    \/ SyncRecovery(p) \/ LockRecovery(p) \/ RecoveryBusy(p) \/ PlanCorrupt(p)
    \/ PlanRecovery(p) \/ PlanCleanup(p)
    \/ \E t \in Txns : \/ SkipLive(p, t) \/ RepairJournal(p, t) \/ RepairCorrupt(p, t)
                       \/ Abandon(p, t)
    \/ \E g \in Gens : TakeCandidate(p, g)
    \/ DeleteAttempt(p) \/ DeleteFromTrash(p) \/ ProbeSkips(p) \/ ProbeIdle(p)
    \/ MoveToTrash(p) \/ DeleteMoved(p) \/ FinishRecovery(p)
=============================================================================
