--------------------------------- MODULE Project ---------------------------------
(***************************************************************************)
(* A project with its writers, recoveries, clean-ups and readers.          *)
(***************************************************************************)
EXTENDS ProjectRecovery, GenerationReaders

Next ==
    \/ \E p \in Procs :
          \/ \E t \in Txns : BeginExclusive(p, t) \/ BeginOptimistic(p, t)
          \/ \E k \in Policies : BeginCleanup(p, k)
          \/ Open(p) \/ Write(p) \/ Recover(p) \/ Crash(p)
    \/ \E r \in Readers : ReadProject(r)
    \/ PowerLoss

Spec == Init /\ [][Next]_vars

\* A thread that can run runs, and no lock is granted out of fairness: a waiting call
\* need only find the lock free for good.
LiveSpec == Spec /\ \A p \in Procs : WF_vars(Write(p)) /\ WF_vars(Recover(p))

-----------------------------------------------------------------------------

Currents == [gen : Gens, digest : Gens \cup {None}]
Jobs     == [txn : Gens \cup {None}, optimistic : BOOLEAN, parent : Gens \cup {None}, keep : Nat]
Places   == {"idle", "syncWriter", "lockWriter", "lockTxn", "resolve"}
                \cup Staging \cup Recovering \cup Cleaning

TypeOK ==
    /\ log \in Seq(Currents) /\ Len(log) \in 1..MaxCommits
    /\ flushed \in 1..Len(log)
    /\ journal \in [Txns -> [phase : Phases, digest : Gens \cup {None}]]
    /\ gens \in [Gens -> {"absent", "partial", "complete"}]
    /\ parentOf \in [Gens \cup {None} -> Gens \cup {None}]
    /\ attempts \in [Txns -> {"absent", "empty", "partial", "complete"}]
    /\ trash \subseteq Gens
    /\ lifecycle \in Procs \cup {None} /\ writer \in Procs \cup {None}
    /\ txnLock \in [Txns -> Procs \cup {None}]
    /\ pc \in [Procs -> Places]
    /\ job \in [Procs -> Jobs]
    /\ todo \in [Procs -> SUBSET Gens]
    /\ rpc \in [Readers -> {"idle", "read", "leased", "pinned", "named", "held", "corrupt"}]
    /\ seen \in [Readers -> Currents \cup {Nothing}]
    /\ receipts \subseteq Txns
    /\ hasty \in BOOLEAN
    /\ crashes \in 0..MaxCrashes

\* The values CURRENT may have after a power loss now.
Exposed == {log[i] : i \in flushed..Len(log)}

\* Whatever processes were killed and wherever the power failed, CURRENT names a
\* complete generation with the digest it was published with: publication, recovery
\* and clean-up never leave the project without an authority.
CurrentAlwaysResolves == hasty \/ \A c \in Exposed : Resolves(c)

\* A commit is made on top of the value CURRENT has: no optimistic writer overwrites a
\* commit it did not see, and no exclusive writer is overtaken.
CommitsExtendCurrent ==
    \A i \in 2..Len(log) : log[i].digest = log[i - 1].gen

\* A transaction whose receipt was returned, by its publisher or by a replay, is in the
\* history that no crash can take back, and so is one whose journal, which replays
\* answer from and recovery also writes, says PUBLISHED.
AcknowledgedSurvives ==
    hasty \/ \A t \in receipts \cup {u \in Txns : journal[u].phase = "PUBLISHED"} :
                \E i \in 1..flushed : log[i].gen = t

\* The positions of the generations that the default retention keeps, for one value of
\* CURRENT at position n.
Window(n) == {i \in 1..n : n - i <= RetainedAncestors}

\* Whatever CURRENT a crash leaves, recovery can account for it and for its retained
\* ancestors: their journals carry the digest of the committed manifest, so that they
\* are repaired and never reported as corrupt or aborted.
RetainedJournalsMatch ==
    hasty \/ \A n \in flushed..Len(log) : \A i \in Window(n) : log[i].gen # Root =>
        /\ journal[log[i].gen].phase \in {"DURABLE", "PUBLISHED"}
        /\ journal[log[i].gen].digest = log[i].digest

\* What recovery or clean-up found unreachable under writer.lock is still so when it
\* moves or deletes it: no commit slips in between, and none brings a generation back
\* from the trash.
CleanupDecisionHolds ==
    \A p \in Procs :
        /\ pc[p] \in {"recoverMove", "cleanMove"} => StillUnreachable(p)
        /\ AtProbe(p) /\ T(p) \in trash => Current.gen # T(p)

\* A reader that pinned what CURRENT named keeps a complete, unchanged generation under
\* its feet until it lets go, although clean-up probes and releases the lease before it
\* moves the directory.
PinnedGenerationStays == \A r \in Readers : rpc[r] = "pinned" => Resolves(seen[r])

\* A transaction is applied at most once as long as its commit is in the retained
\* window, however often it is retried and whoever is killed.  A recovery that relied on
\* an unflushed CURRENT may have aborted journals of the window that a power loss brings
\* back.
AppliedOnceInWindow ==
    [][Len(log') > Len(log) =>
           hasty \/ \A i \in Window(Len(log)) : log[i].gen # Current'.gen]_vars

Atomic == INSTANCE AtomicProject WITH
    Commits <- Txns, First <- Root, NoParent <- None,
    history <- log, durable <- flushed, answered <- receipts, trusting <- hasty

\* Writers, retries, recovery, clean-up, kills and power losses together are a project
\* whose commits form one chain and whose answers are only given for what is durable.
ImplementsAtomicProject == Atomic!ASpec

\* Nobody keeps the lifecycle lock for ever, although an optimistic commit waits for
\* writer.lock while it holds it, and nobody keeps writer.lock for ever: an exclusive
\* writer, a recovery and an optimistic commit finish whatever the others wait for.
LocksAreReleased ==
    \A p \in Procs : (lifecycle = p ~> lifecycle # p) /\ (writer = p ~> writer # p)

-----------------------------------------------------------------------------
(* What the documents say and the code does not do.                        *)

\* "an acknowledged transition survives reopen" (docs/adr/0013-project-generation-protocol.md):
\* as AcknowledgedSurvives, also for a recovery that relied on an unflushed CURRENT.
AcknowledgedIsNeverLost == \A t \in receipts : \E i \in 1..flushed : log[i].gen = t

\* After project.after_gc_move the required authority on reopen is "current unchanged"
\* (same document): clean-up removes no generation that CURRENT may name on reopen.
CleanupKeepsAuthority == \A c \in Exposed : Resolves(c)

\* A recovery of a project whose CURRENT is valid is not GF_PROJECT_CORRUPT: the same
\* document reserves that for a CURRENT that "is invalid or references invalid bytes".
RecoveryNeverAmbiguous ==
    \A p \in Procs : pc[p] = "recoverPlan" /\ Resolves(Current) => ~Ambiguous(job[p].keep)

\* A journal that is "stale while CURRENT is valid" is "advisory damage" (same document):
\* recovery does not report the project as corrupt because a retained generation's
\* journal is behind.
StaleJournalIsAdvisory ==
    \A p \in Procs : \A t \in todo[p] \cap Txns :
        (pc[p] = "recoverNext" /\ txnLock[t] = None /\ t \in Reachable(job[p].keep)) =>
            journal[t].digest = parentOf[t]

\* "If step 4 observes a concurrent cleanup, the reader releases the handle and retries
\* from step 1" (same document): a reader is not told that the project is corrupt.
ResolveNeverCorrupt == \A r \in Readers : rpc[r] # "corrupt"

\* "Cleanup must acquire the same lease.lock exclusively and then recheck reachability
\* before moving a generation" (same document): a validated lease keeps its generation,
\* also that of resolve_verified_generation().
HeldGenerationStays == \A r \in Readers : rpc[r] \in {"pinned", "held"} => Resolves(seen[r])

\* A transaction whose commit was reached is committed ("project.after_current_replace:
\* new generation", same document): a retry does not apply it a second time.
AppliedOnce == \A i, j \in 1..Len(log) : log[i].gen = log[j].gen => i = j

\* Object collection "defers while a publication attempt or object-installation lease is
\* active" (same document): a directory in attempts/, which defers it, belongs to a live
\* attempt or to one that the next open recovers.
AttemptsAreActive ==
    \A t \in Txns : attempts[t] # "absent" => txnLock[t] # None \/ NeedsRecovery

\* A missing journal is "advisory damage" from which recovery will "reconstruct safe
\* cleanup facts" (same document): a retry of an attempt that was killed before its
\* first journal does not find its directory in the way.
InterruptedIsRetriable ==
    \A p \in Procs : pc[p] = "prepare" => gens[T(p)] = "absent"
=============================================================================
