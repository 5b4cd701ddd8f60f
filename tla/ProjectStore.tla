------------------------------ MODULE ProjectStore ------------------------------
(***************************************************************************)
(* The durable state of one GraphForge project, its locks, and what every  *)
(* component does with them                                                *)
(* (crates/graphforge-storage/src/project_generation.rs,                   *)
(* project_publication.rs, project_publication/control.rs and              *)
(* filesystem_admission.rs).                                               *)
(*                                                                         *)
(* A transaction t publishes the generation of the same name; Root is the  *)
(* generation that initialisation publishes.  A manifest is its parent     *)
(* link, and its digest is that link too: two attempts of one transaction  *)
(* have the same manifest exactly when they have the same parent.          *)
(*                                                                         *)
(* CURRENT is the last element of `log', the sequence of values the file   *)
(* has had.  The root directory is flushed up to position `flushed': a     *)
(* power loss leaves any value from there on.  Journals and directories    *)
(* are written, flushed and acknowledged in one step: the code puts a      *)
(* barrier behind each of them and nothing but CURRENT selects a           *)
(* generation.                                                             *)
(***************************************************************************)
EXTENDS Naturals, Sequences, FiniteSets

CONSTANTS
    Procs,              \* processes that write, open or clean up the project
    Readers,            \* readers that take no project lock
    Txns,               \* transactions; each may be tried many times
    Exclusive,          \* those that callers stage with stage_project_generation
    Optimistic,         \* and with stage_project_generation_optimistic (or both)
    Root,               \* the first generation
    RetainedAncestors,  \* DEFAULT_RETAINED_ANCESTORS
    Policies,           \* values of ProjectRetentionPolicy::retained_ancestors
    MaxCommits,         \* bound on the number of values of CURRENT
    MaxCrashes,         \* bound on kills and power losses
    None                \* no process, generation or digest

Gens == Txns \cup {Root}

ASSUME StoreAssumption ==
    /\ Root \notin Txns
    /\ None \notin Gens \cup Procs \cup Readers
    /\ Exclusive \cup Optimistic = Txns
    /\ RetainedAncestors \in Nat /\ Policies \subseteq Nat
    /\ MaxCommits \in Nat \ {0} /\ MaxCrashes \in Nat

VARIABLES
    log,        \* the values of CURRENT: [gen, digest]
    flushed,    \* position in log that a power loss cannot take back
    journal,    \* transactions/<t>.json: [phase, digest], phase "none" when absent
    gens,       \* generations/<g>: "absent", "partial" (no manifest), "complete"
    parentOf,   \* the parent link of a complete generation's manifest
    attempts,   \* attempts/<t>: "absent", "empty", "partial", "complete"
    trash,      \* the generations in trash/
    lifecycle,  \* holder of the parent-scoped lifecycle lock
    writer,     \* holder of writer.lock
    txnLock,    \* holders of the transaction locks
    pc,         \* place of each process
    job,        \* [txn, optimistic, parent, keep]: what a process works on
    todo,       \* what recovery or clean-up has left to look at
    rpc,        \* place of each reader
    seen,       \* [gen, digest] a reader looks for
    receipts,   \* transactions acknowledged to their caller (history)
    hasty,      \* a recovery or clean-up relied on a CURRENT not yet flushed (history)
    crashes     \* number of kills and power losses

disk  == <<log, flushed, journal, gens, parentOf, attempts, trash>>
locks == <<lifecycle, writer, txnLock>>
procs == <<pc, job, todo>>
reads == <<rpc, seen>>
vars  == <<disk, locks, procs, reads, receipts, hasty, crashes>>

Phases   == {"none", "PREPARING", "STAGED", "VALIDATED", "DURABLE", "PUBLISHED", "ABORTED"}
Terminal == {"none", "PUBLISHED", "ABORTED"}
Job(t, o, g, k) == [txn |-> t, optimistic |-> o, parent |-> g, keep |-> k]
NoJob    == Job(None, FALSE, None, 0)

Init ==
    /\ log = <<[gen |-> Root, digest |-> None]>>
    /\ flushed = 1
    /\ journal = [t \in Txns |-> [phase |-> "none", digest |-> None]]
    /\ gens = [g \in Gens |-> IF g = Root THEN "complete" ELSE "absent"]
    /\ parentOf = [g \in Gens \cup {None} |-> None]
    /\ attempts = [t \in Txns |-> "absent"]
    /\ trash = {}
    /\ lifecycle = None /\ writer = None /\ txnLock = [t \in Txns |-> None]
    /\ pc = [p \in Procs |-> "idle"]
    /\ job = [p \in Procs |-> NoJob]
    /\ todo = [p \in Procs |-> {}]
    /\ rpc = [r \in Readers |-> "idle"]
    /\ seen = [r \in Readers |-> [gen |-> None, digest |-> None]]
    /\ receipts = {}
    /\ hasty = FALSE
    /\ crashes = 0

-----------------------------------------------------------------------------
(* CURRENT and generations.                                                *)

Current == log[Len(log)]

\* resolve_verified_generation(): the generation and the manifest of that digest exist.
Resolves(c) == gens[c.gen] = "complete" /\ parentOf[c.gen] = c.digest

\* sync_directory(root)
FlushRoot == flushed' = Len(log)

\* The place of a process that has staged or is staging holds its parent's lease.
Staging == {"journal", "prepare", "preparing", "stage", "validate", "readmit", "syncCommit",
            "waitWriter", "checkParent", "abort", "removeAttempt", "manifest", "promote",
            "retireAttempt", "durable", "replace", "acknowledge", "published", "confirm"}

Leasing == {"leased", "pinned", "named", "held"}

\* try_lock_exclusive(lease.lock) fails: some snapshot holds the shared lease.
Leased(g) == \/ \E r \in Readers : rpc[r] \in Leasing /\ seen[r].gen = g
             \/ \E p \in Procs : pc[p] \in Staging /\ job[p].parent = g

-----------------------------------------------------------------------------
(* compute_reachable_generations(): CURRENT and k verified ancestors.      *)

\* c and its k ancestors along the parent links, None behind the last one.
Ancestry(c, parents, k) ==
    LET a[i \in 0..k] == IF i = 0 THEN c ELSE parents[a[i - 1]] IN a

Lineage(k) == Ancestry(Current.gen, parentOf, k)

Retained(c, parents, k) == {c} \cup ({Ancestry(c, parents, k)[i] : i \in 0..k} \ {None})

\* Mutant: the ancestors only.
ReachableAncestors(k) == Retained(Current.gen, parentOf, k) \ {Current.gen}

Reachable(k) == Retained(Current.gen, parentOf, k)

\* A retained ancestor is missing, or the ancestry has a cycle: GF_PROJECT_CORRUPT.
Ambiguous(k) ==
    \/ ~Resolves(Current)
    \/ \E i \in 1..k : /\ Lineage(k)[i] # None
                       /\ \/ gens[Lineage(k)[i]] # "complete"
                          \/ \E j \in 0..(i - 1) : Lineage(k)[j] = Lineage(k)[i]

-----------------------------------------------------------------------------
(* Locks.  A process that returns, fails or dies drops all of its locks.   *)

Move(p, place) == pc' = [pc EXCEPT ![p] = place]

Release(p) ==
    /\ lifecycle' = (IF lifecycle = p THEN None ELSE lifecycle)
    /\ writer' = (IF writer = p THEN None ELSE writer)
    /\ txnLock' = [t \in Txns |-> IF txnLock[t] = p THEN None ELSE txnLock[t]]

Leave(p) ==
    /\ Move(p, "idle")
    /\ job' = [job EXCEPT ![p] = NoJob]
    /\ todo' = [todo EXCEPT ![p] = {}]
    /\ Release(p)

\* admit_project_lifecycle(): waits for the exclusive lifecycle lock.
Admit(p, place, j) ==
    /\ pc[p] = "idle"
    /\ lifecycle = None
    /\ lifecycle' = p
    /\ job' = [job EXCEPT ![p] = j]
    /\ Move(p, place)
    /\ UNCHANGED <<disk, writer, txnLock, todo, reads, receipts, hasty, crashes>>

-----------------------------------------------------------------------------
(* Failures.                                                               *)

\* A process is killed, or an I/O error ends its call, between two steps.
Crash(p) ==
    /\ pc[p] # "idle"
    /\ crashes < MaxCrashes
    /\ crashes' = crashes + 1
    /\ Leave(p)
    /\ UNCHANGED <<disk, reads, receipts, hasty>>

\* The machine stops: CURRENT is any of the values since the last flush.
PowerLoss ==
    /\ crashes < MaxCrashes
    /\ crashes' = crashes + 1
    /\ \E n \in flushed..Len(log) : log' = SubSeq(log, 1, n) /\ flushed' = n
    /\ lifecycle' = None /\ writer' = None /\ txnLock' = [t \in Txns |-> None]
    /\ pc' = [p \in Procs |-> "idle"]
    /\ job' = [p \in Procs |-> NoJob]
    /\ todo' = [p \in Procs |-> {}]
    /\ rpc' = [r \in Readers |-> "idle"]
    /\ seen' = [r \in Readers |-> [gen |-> None, digest |-> None]]
    /\ UNCHANGED <<journal, gens, parentOf, attempts, trash, receipts, hasty>>
=============================================================================
