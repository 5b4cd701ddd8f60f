---------------------------- MODULE ProjectProofs ----------------------------
(***************************************************************************)
(* The inductive invariant of Project, why every step keeps it, and the    *)
(* theorems that follow, for every number of processes, readers,           *)
(* transactions, crashes and retained ancestors.                           *)
(*                                                                         *)
(* Everything rests on writer.lock.  Whoever builds on CURRENT, replaces   *)
(* it, or moves generations holds the lock, so that what it found out      *)
(* about CURRENT and the directories is still so at its next step.  Local  *)
(* says what one process knows at each place; a step of another process    *)
(* cannot disturb it because that process does not hold the lock.          *)
(***************************************************************************)
EXTENDS Project, TLAPS

WritePlaces == {"syncWriter", "lockWriter", "lockTxn", "resolve"} \cup Staging
Early       == {"journal", "prepare", "preparing", "stage", "validate"}
Late        == {"manifest", "promote", "retireAttempt", "durable", "replace"}
After       == {"acknowledge", "published", "confirm"}
OnlyOptimistic == {"lockTxn", "readmit", "syncCommit", "waitWriter", "checkParent"}
MovePlaces  == {"recoverMove", "cleanMove"}
Removing    == {"recoverAttempt", "recoverProbe", "recoverDelete", "cleanProbe", "cleanDelete"}
                   \cup MovePlaces
CleanWork   == {"cleanNext", "cleanProbe", "cleanMove", "cleanDelete"}
Planned     == {"recoverNext", "cleanNext"} \cup Removing

HoldsWriter(p) ==
    \/ pc[p] \in {"checkParent", "recoverPlan", "cleanPlan"} \cup Late \cup After \cup Planned
    \/ ~job[p].optimistic /\ pc[p] \in {"resolve"} \cup Early

\* A process that commits, or will without asking again, builds on CURRENT.
Builds(p) == pc[p] \in Late \/ (~job[p].optimistic /\ pc[p] \in Early)

\* What a process knows at its place.
Local(p) ==
    /\ pc[p] \in WritePlaces => T(p) \in Txns
    /\ pc[p] \in Removing => T(p) \in Gens /\ T(p) \notin Reachable(job[p].keep)
    /\ pc[p] \in OnlyOptimistic => job[p].optimistic
    /\ HoldsWriter(p) => writer = p
    /\ Builds(p) => job[p].parent = Current.gen
    /\ (~job[p].optimistic /\ pc[p] \in {"preparing", "stage", "validate", "manifest"})
           => gens[T(p)] = "partial"
    /\ pc[p] \in {"retireAttempt", "durable", "replace"}
           => gens[T(p)] = "complete" /\ parentOf[T(p)] = job[p].parent
    /\ pc[p] \in CleanWork => todo[p] \cap Reachable(job[p].keep) = {}
    /\ pc[p] \in Planned => hasty \/ flushed = Len(log)
    /\ pc[p] \in MovePlaces => \A r \in Readers : rpc[r] = "pinned" => seen[r].gen # T(p)

\* The inductive invariant.
IInv ==
    /\ TypeOK
    /\ \A p \in Procs : Local(p)
    /\ CommitsExtendCurrent
    /\ CurrentAlwaysResolves
    /\ PinnedGenerationStays
    /\ \A r \in Readers : rpc[r] # "idle" => seen[r] \in Currents

-----------------------------------------------------------------------------

USE DEF T, Move, disk, locks, procs, reads, KeepRest, Job
\* Most leaves are first-order; those that need arithmetic or sequences name SMT.
USE ZenonT(20)

\* What a step of p leaves alone of the others.
Others(p) ==
    \A q \in Procs \ {p} : pc'[q] = pc[q] /\ job'[q] = job[q] /\ todo'[q] = todo[q]

\* A step of p that changes neither CURRENT nor a generation, and writer.lock only when
\* it is free or p's.
Quiet(p) ==
    /\ log' = log /\ gens' = gens /\ parentOf' = parentOf
    /\ flushed' \in {flushed, Len(log)}
    /\ hasty => hasty'
    /\ rpc' = rpc /\ seen' = seen
    /\ Others(p)
    /\ writer' = writer \/ writer = None \/ writer = p

JournalTyped  == journal \in [Txns -> [phase : Phases, digest : Gens \cup {None}]]
AttemptsTyped == attempts \in [Txns -> {"absent", "empty", "partial", "complete"}]

\* A quiet step of p to place b without a change of locks or of what p works on.
Moves(p, b) ==
    /\ Move(p, b)
    /\ KeepRest
    /\ UNCHANGED <<log, gens, parentOf>>
    /\ flushed' \in {flushed, Len(log)}
    /\ trash' \subseteq Gens
    /\ JournalTyped' /\ AttemptsTyped'

\* What a process knows at b, it knew at a.
Knows(a, b) ==
    /\ b \in WritePlaces => a \in WritePlaces
    /\ b \in Removing => a \in Removing
    /\ b \in OnlyOptimistic => a \in OnlyOptimistic
    /\ b \in {"checkParent", "recoverPlan", "cleanPlan"} \cup Late \cup After \cup Planned
           => a \in {"checkParent", "recoverPlan", "cleanPlan"} \cup Late \cup After \cup Planned
    /\ b \in {"resolve"} \cup Early => a \in {"resolve"} \cup Early
    /\ b \in Late => a \in Late
    /\ b \in Early => a \in Early
    /\ b \in {"preparing", "stage", "validate", "manifest"}
           => a \in {"preparing", "stage", "validate", "manifest"}
    /\ b \in {"retireAttempt", "durable", "replace"} => a \in {"retireAttempt", "durable", "replace"}
    /\ b \in CleanWork => a \in CleanWork
    /\ b \in Planned => a \in Planned
    /\ b \in MovePlaces => a \in MovePlaces

\* CURRENT is always retained.
LEMMA CurrentReachable ==
    ASSUME NEW k
    PROVE  Current.gen \in Reachable(k)
BY DEF Reachable, Retained

\* What an idle process has to know is nothing.
LEMMA IdleLocal ==
    ASSUME NEW p \in Procs, pc'[p] = "idle"
    PROVE  Local(p)'
BY DEF Local, HoldsWriter, Builds, WritePlaces, Staging, Early, Late, After, MovePlaces,
       OnlyOptimistic, Removing, CleanWork, Planned

\* A quiet step keeps the invariant if p still knows what it has to.
LEMMA QuietStep ==
    ASSUME IInv, NEW p \in Procs, Quiet(p), TypeOK', Local(p)'
    PROVE  IInv'
<1>1. ASSUME NEW q \in Procs, q # p
      PROVE  Local(q)'
  <2>1. Local(q) /\ pc'[q] = pc[q] /\ job'[q] = job[q] /\ todo'[q] = todo[q]
    BY <1>1 DEF IInv, Quiet, Others
  <2>2. HoldsWriter(q)' => writer' = q
    BY <1>1, <2>1, StoreAssumption DEF Local, HoldsWriter, Quiet
  <2>3. (pc[q] \in Planned)' => hasty' \/ flushed' = Len(log')
    BY <2>1 DEF Local, Quiet
  <2> QED
    BY <2>1, <2>2, <2>3 DEF Local, Builds, Current, Reachable, Quiet
<1>2. CommitsExtendCurrent'
  BY DEF IInv, Quiet, CommitsExtendCurrent
<1>3. Exposed' \subseteq Exposed
  BY SMTT(30) DEF IInv, TypeOK, Quiet, Exposed
<1>4. CurrentAlwaysResolves'
  BY <1>3 DEF IInv, Quiet, CurrentAlwaysResolves, Resolves
<1>5. PinnedGenerationStays'
  BY DEF IInv, Quiet, PinnedGenerationStays, Resolves
<1> QED
  BY <1>1, <1>2, <1>3, <1>4, <1>5 DEF IInv, Quiet

\* In particular a step that only moves on.
LEMMA MovesStep ==
    ASSUME IInv, NEW p \in Procs, NEW b \in Places, Moves(p, b), Local(p)'
    PROVE  IInv'
<1>1. pc' \in [Procs -> Places]
  BY DEF IInv, TypeOK, Moves
<1>2. flushed' \in 1..Len(log')
  BY SMTT(30) DEF IInv, TypeOK, Moves
<1>3. TypeOK'
  BY <1>1, <1>2 DEF IInv, TypeOK, Moves, JournalTyped, AttemptsTyped
<1>4. Quiet(p)
  BY DEF IInv, TypeOK, Moves, Quiet, Others
<1> QED
  BY <1>3, <1>4, QuietStep

\* Or moves on to where nothing more need be known.
LEMMA MovesOn ==
    ASSUME IInv, NEW p \in Procs, NEW b \in Places, Moves(p, b), Knows(pc[p], b)
    PROVE  IInv'
<1>1. /\ pc'[p] = b
      /\ UNCHANGED <<log, gens, parentOf, job, todo, writer, rpc, seen, hasty>>
      /\ flushed' \in {flushed, Len(log)}
  BY DEF IInv, TypeOK, Moves
<1>2. Local(p)
  BY DEF IInv
<1>3. Local(p)'
  BY <1>1, <1>2, SMTT(30) DEF Local, Knows, HoldsWriter, Builds, Current, Reachable
<1> QED
  BY <1>3, MovesStep

\* Writing a journal keeps the type of the journals.
LEMMA JournalKept ==
    ASSUME TypeOK, NEW t, NEW phase \in Phases, NEW digest \in Gens \cup {None},
           WriteJournal(t, phase, digest)
    PROVE  JournalTyped'
BY Zenon DEF TypeOK, WriteJournal, JournalTyped

\* Who holds writer.lock may change CURRENT and the generations: nobody else relies on
\* them.
LEMMA OthersUndisturbed ==
    ASSUME IInv, NEW p \in Procs, writer = p, Others(p),
           NEW q \in Procs, q # p
    PROVE  Local(q)'
<1>1. Local(q) /\ ~HoldsWriter(q)
  BY DEF IInv, Local
<1> QED
  BY <1>1 DEF Others, Local, HoldsWriter, Builds, WritePlaces, Staging, OnlyOptimistic, Early,
              Late, After, MovePlaces, Removing, CleanWork, Planned

-----------------------------------------------------------------------------
(* Steps that several actions share: returning, and being admitted.        *)

\* Dropping all locks keeps the types.
LEMMA LeaveType ==
    ASSUME TypeOK, NEW p \in Procs, Leave(p)
    PROVE  /\ lifecycle' \in Procs \cup {None} /\ writer' \in Procs \cup {None}
           /\ txnLock' \in [Txns -> Procs \cup {None}]
           /\ pc' \in [Procs -> Places]
           /\ job' \in [Procs -> Jobs]
           /\ todo' \in [Procs -> SUBSET Gens]
           /\ pc'[p] = "idle"
           /\ Others(p)
           /\ writer' = writer \/ writer = p
BY DEF TypeOK, Leave, Release, NoJob, Jobs, Places, Others

\* A call that returns an error keeps the invariant.
LEMMA FailStep ==
    ASSUME IInv, NEW p \in Procs, Fail(p)
    PROVE  IInv'
<1>1. TypeOK'
  BY LeaveType DEF IInv, Fail, TypeOK
<1>2. Quiet(p) /\ pc'[p] = "idle"
  BY LeaveType DEF IInv, Fail, Quiet
<1> QED
  BY <1>1, <1>2, IdleLocal, QuietStep

\* Admission keeps the invariant.
LEMMA AdmitStep ==
    ASSUME IInv, NEW p \in Procs, NEW place \in Places, NEW j \in Jobs,
           Admit(p, place, j),
           place \in {"syncWriter", "lockTxn", "recoverSync", "cleanSync"},
           place \in {"syncWriter", "lockTxn"} => j.txn \in Txns,
           place = "lockTxn" => j.optimistic
    PROVE  IInv'
<1>1. TypeOK'
  BY DEF IInv, Admit, TypeOK
<1>2. Quiet(p) /\ pc'[p] = place /\ job'[p] = j
  BY DEF IInv, Admit, Quiet, Others, TypeOK
<1>3. Local(p)'
  BY <1>2 DEF Local, HoldsWriter, Builds, WritePlaces, Staging, Early, Late, After, MovePlaces,
              OnlyOptimistic, Removing, CleanWork, Planned
<1> QED
  BY <1>1, <1>2, <1>3, QuietStep

-----------------------------------------------------------------------------
(* A loss of power.                                                        *)

\* A power loss leaves a value of CURRENT that was exposed.
LEMMA PowerLossStep ==
    ASSUME IInv, PowerLoss
    PROVE  IInv'
<1>1. PICK n \in flushed..Len(log) : log' = SubSeq(log, 1, n) /\ flushed' = n
  BY DEF PowerLoss
<1>2. /\ log' \in Seq(Currents) /\ Len(log') = n /\ n \in 1..MaxCommits
      /\ \A i \in 1..n : log'[i] = log[i]
  BY <1>1, StoreAssumption, SMTT(30) DEF IInv, TypeOK
<1>3. TypeOK'
  BY <1>1, <1>2, StoreAssumption, SMTT(30) DEF IInv, TypeOK, PowerLoss, NoJob, Jobs, Places, Nothing
<1>4. \A q \in Procs : Local(q)'
  BY IdleLocal DEF PowerLoss
<1>5. CommitsExtendCurrent'
  BY <1>1, <1>2, SMTT(30) DEF IInv, TypeOK, CommitsExtendCurrent
<1>6. CurrentAlwaysResolves'
  <2>1. Exposed' \subseteq Exposed
    BY <1>1, <1>2, SMTT(30) DEF IInv, TypeOK, Exposed
  <2> QED
    BY <2>1 DEF IInv, CurrentAlwaysResolves, Resolves, PowerLoss
<1>7. PinnedGenerationStays'
  BY DEF PinnedGenerationStays, PowerLoss
<1>8. \A r \in Readers : rpc'[r] = "idle"
  BY DEF PowerLoss
<1> QED
  BY <1>3, <1>4, <1>5, <1>6, <1>7, <1>8 DEF IInv

-----------------------------------------------------------------------------
(* Readers.                                                                *)

\* A reader pins only what CURRENT names, and that is never on its way to the trash.
LEMMA GoStep ==
    ASSUME IInv, NEW r \in Readers, NEW c,
           NEW place \in {"idle", "read", "leased", "pinned", "named", "held", "corrupt"},
           Go(r, place, c),
           c \in Currents \/ (place = "idle" /\ c = Nothing),
           place = "pinned" => c = Current /\ Resolves(c)
    PROVE  IInv'
<1>1. /\ rpc' = [rpc EXCEPT ![r] = place] /\ seen' = [seen EXCEPT ![r] = c]
      /\ UNCHANGED <<log, flushed, gens, parentOf, hasty, pc, job, todo, writer>>
  BY DEF Go, KeepProject
<1>2. TypeOK'
  BY <1>1, SMTT(30) DEF IInv, TypeOK, Go, KeepProject
<1>3. ASSUME NEW q \in Procs
      PROVE  Local(q)'
  <2>1. Local(q)
    BY DEF IInv
  <2>2. ASSUME pc[q] \in MovePlaces, NEW s \in Readers, rpc'[s] = "pinned"
        PROVE  seen'[s].gen # T(q)
    <3>1. T(q) \notin Reachable(job[q].keep)
      BY <2>1, <2>2 DEF Local, Removing, MovePlaces
    <3>2. /\ s = r => rpc'[s] = place /\ seen'[s] = c
          /\ s # r => rpc'[s] = rpc[s] /\ seen'[s] = seen[s]
      BY <1>1 DEF IInv, TypeOK
    <3>3. CASE s = r
      BY <2>2, <3>1, <3>2, <3>3, CurrentReachable
    <3>4. CASE s # r
      BY <2>1, <2>2, <3>2, <3>4 DEF Local
    <3> QED
      BY <3>3, <3>4
  <2>3. Current' = Current /\ Reachable(job[q].keep)' = Reachable(job[q].keep)
    BY <1>1 DEF Current, Reachable
  <2> QED
    BY <1>1, <2>1, <2>2, <2>3 DEF Local, HoldsWriter, Builds
<1>4. CommitsExtendCurrent'
  BY <1>1 DEF IInv, CommitsExtendCurrent
<1>5. CurrentAlwaysResolves'
  <2>1. Exposed' = Exposed
    BY <1>1 DEF Exposed
  <2>2. \A e : Resolves(e)' <=> Resolves(e)
    BY <1>1 DEF Resolves
  <2> QED
    BY <1>1, <2>1, <2>2 DEF IInv, CurrentAlwaysResolves
<1>6. PinnedGenerationStays'
  BY <1>1 DEF IInv, TypeOK, PinnedGenerationStays, Resolves
<1>7. \A s \in Readers : rpc'[s] # "idle" => seen'[s] \in Currents
  BY <1>1 DEF IInv, TypeOK
<1> QED
  BY <1>2, <1>3, <1>4, <1>5, <1>6, <1>7 DEF IInv

\* Every step of a reader keeps the invariant.
LEMMA ReaderStep ==
    ASSUME IInv, NEW r \in Readers, ReadProject(r)
    PROVE  IInv'
<1>1. Current \in Currents
  BY SMTT(30) DEF IInv, TypeOK, Current
<1>2. rpc[r] # "idle" => seen[r] \in Currents
  BY DEF IInv
<1>3. CASE ReadCurrent(r)
  BY <1>1, <1>3, GoStep DEF ReadCurrent
<1>4. CASE OpenLease(r)
  BY <1>2, <1>4, GoStep DEF OpenLease
<1>5. CASE LeaseMissing(r)
  BY <1>2, <1>5, GoStep DEF LeaseMissing
<1>6. CASE ConfirmCurrent(r)
  <2>1. CASE Resolves(seen[r])
    BY <1>2, <1>6, <2>1, GoStep DEF ConfirmCurrent
  <2>2. CASE ~Resolves(seen[r])
    BY <1>2, <1>6, <2>2, GoStep DEF ConfirmCurrent
  <2> QED
    BY <2>1, <2>2
<1>8. CASE ConfirmChanged(r)
  BY <1>8, GoStep DEF ConfirmChanged
<1>9. CASE HoldByUuid(r)
  BY <1>2, <1>9, GoStep DEF HoldByUuid
<1>10. CASE MissingByUuid(r)
  BY <1>10, GoStep DEF MissingByUuid
<1>11. CASE EndSnapshot(r)
  BY <1>11, GoStep DEF EndSnapshot
<1>12. ASSUME NEW g \in Gens, OpenByUuid(r, g)
       PROVE  IInv'
  <2>1. [gen |-> g, digest |-> parentOf[g]] \in Currents
    BY DEF IInv, TypeOK, Currents
  <2> QED
    BY <1>12, <2>1, GoStep DEF OpenByUuid
<1> QED
  BY <1>3, <1>4, <1>5, <1>6, <1>8, <1>9, <1>10, <1>11, <1>12 DEF ReadProject

-----------------------------------------------------------------------------
(* The start.                                                              *)

\* The invariant holds at the start.
LEMMA InitInvariant == Init => IInv
<1> SUFFICES ASSUME Init PROVE IInv
  OBVIOUS
<1>1. log = <<[gen |-> Root, digest |-> None]>> /\ flushed = 1 /\ Len(log) = 1
  BY DEF Init
<1>2. TypeOK
  <2>1. log \in Seq(Currents) /\ Len(log) \in 1..MaxCommits /\ flushed \in 1..Len(log)
    BY <1>1, StoreAssumption, SMTT(30) DEF Currents, Gens
  <2>2. /\ journal \in [Txns -> [phase : Phases, digest : Gens \cup {None}]]
        /\ gens \in [Gens -> {"absent", "partial", "complete"}]
        /\ parentOf \in [Gens \cup {None} -> Gens \cup {None}]
        /\ attempts \in [Txns -> {"absent", "empty", "partial", "complete"}]
    BY DEF Init, Phases
  <2>3. job \in [Procs -> Jobs] /\ pc \in [Procs -> Places] /\ todo \in [Procs -> SUBSET Gens]
    BY DEF Init, NoJob, Jobs, Places
  <2>4. /\ lifecycle \in Procs \cup {None} /\ writer \in Procs \cup {None}
        /\ txnLock \in [Txns -> Procs \cup {None}]
        /\ rpc \in [Readers -> {"idle", "read", "leased", "pinned", "named", "held", "corrupt"}]
        /\ trash \subseteq Gens /\ receipts \subseteq Txns
    BY DEF Init
  <2>6. crashes \in 0..MaxCrashes
    BY StoreAssumption, SMTT(30) DEF Init
  <2>7. hasty \in BOOLEAN
    BY Zenon DEF Init
  <2>5. seen \in [Readers -> Currents \cup {Nothing}]
    BY DEF Init, Nothing
  <2> QED
    BY <2>1, <2>2, <2>3, <2>4, <2>5, <2>6, <2>7 DEF TypeOK
<1>3. \A p \in Procs : Local(p)
  BY DEF Init, Local, HoldsWriter, Builds,
           WritePlaces, Staging, OnlyOptimistic, Early, Late, After, MovePlaces, Removing,
           CleanWork, Planned
<1>4. CommitsExtendCurrent
  BY <1>1, SMTT(30) DEF CommitsExtendCurrent
<1>5. CurrentAlwaysResolves
  BY <1>1, SMTT(30) DEF Init, CurrentAlwaysResolves, Exposed, Resolves, Gens
<1> QED
  BY <1>2, <1>3, <1>4, <1>5 DEF IInv, Init, PinnedGenerationStays

-----------------------------------------------------------------------------
(* Writers.                                                                 *)

\* Every quiet step of a writer keeps the invariant.
LEMMA WriteQuiet ==
    ASSUME IInv
    PROVE  \A p \in Procs :
               (\/ SyncWriter(p) \/ LockWriter(p) \/ LockTxn(p) \/ PinParent(p)
                \/ StartAfresh(p) \/ Replay(p) \/ RefuseJournal(p) \/ StageParticipants(p)
                \/ Validate(p) \/ ValidateConflict(p) \/ Readmit(p) \/ SyncCommit(p)
                \/ WaitWriter(p) \/ CheckParent(p) \/ AbortStale(p) \/ RemoveAttempt(p)
                \/ RetireAttempt(p) \/ WriteDurable(p) \/ Acknowledge(p)
                \/ WritePublished(p) \/ Confirm(p)) => IInv'
<1>1. ASSUME NEW p \in Procs, SyncWriter(p)
      PROVE  IInv'
  <2>1. Moves(p, "lockWriter") /\ pc[p] = "syncWriter"
    BY <1>1 DEF IInv, TypeOK, SyncWriter, FlushRoot, Moves, JournalTyped, AttemptsTyped
  <2>2. "lockWriter" \in Places
    BY DEF Places, Staging
  <2>3. Knows(pc[p], "lockWriter")
    BY <2>1 DEF Knows, WritePlaces, Staging, OnlyOptimistic, Early, Late, After, MovePlaces,
                      Removing, CleanWork, Planned
  <2> QED
    BY <2>1, <2>2, <2>3, MovesOn
<1>2. ASSUME NEW p \in Procs, LockWriter(p)
      PROVE  IInv'
  <2>1. TypeOK'
    <3>1. pc' \in [Procs -> Places]
      BY <1>2 DEF IInv, TypeOK, LockWriter, Places, Staging
    <3> QED
      BY <1>2, <3>1 DEF IInv, TypeOK, LockWriter
  <2>2. Quiet(p)
    BY <1>2 DEF IInv, TypeOK, Quiet, Others, LockWriter
  <2>3. Local(p)'
    BY <1>2, SMTT(30) DEF IInv, TypeOK, Local, LockWriter, HoldsWriter, Builds, Current,
           WritePlaces, Staging, OnlyOptimistic, Early, Late, After, MovePlaces, Removing,
           CleanWork, Planned
  <2> QED
    BY <2>1, <2>2, <2>3, QuietStep
<1>3. ASSUME NEW p \in Procs, LockTxn(p)
      PROVE  IInv'
  <2>1. TypeOK'
    <3>1. pc' \in [Procs -> Places]
      BY <1>3 DEF IInv, TypeOK, LockTxn, Places, Staging
    <3>2. txnLock' \in [Txns -> Procs \cup {None}]
      BY <1>3 DEF IInv, TypeOK, LockTxn
    <3> QED
      BY <1>3, <3>1, <3>2 DEF IInv, TypeOK, LockTxn
  <2>2. Quiet(p)
    BY <1>3 DEF IInv, TypeOK, Quiet, Others, LockTxn
  <2>3. Local(p)'
    BY <1>3, SMTT(30) DEF IInv, TypeOK, Local, LockTxn, HoldsWriter, Builds, Current,
           WritePlaces, Staging, OnlyOptimistic, Early, Late, After, MovePlaces, Removing,
           CleanWork, Planned
  <2> QED
    BY <2>1, <2>2, <2>3, QuietStep
<1>4. ASSUME NEW p \in Procs, PinParent(p)
      PROVE  IInv'
  <2>1. TypeOK'
    <3>1. Current \in Currents
      BY StoreAssumption, SMTT(30) DEF IInv, TypeOK, Current
    <3>2. pc' \in [Procs -> Places]
      BY <1>4 DEF IInv, TypeOK, PinParent, Places, Staging
    <3>3. job' \in [Procs -> Jobs]
      BY <1>4, <3>1 DEF IInv, TypeOK, PinParent, Jobs, Currents
    <3> QED
      BY <1>4, <3>1, <3>2, <3>3 DEF IInv, TypeOK, PinParent
  <2>2. Quiet(p)
    BY <1>4 DEF IInv, TypeOK, Quiet, Others, PinParent
  <2>3. Local(p)'
    BY <1>4, SMTT(30) DEF IInv, TypeOK, Local, PinParent, HoldsWriter, Builds, Current,
           WritePlaces, Staging, OnlyOptimistic, Early, Late, After, MovePlaces, Removing,
           CleanWork, Planned
  <2> QED
    BY <2>1, <2>2, <2>3, QuietStep
<1>5. ASSUME NEW p \in Procs, StartAfresh(p)
      PROVE  IInv'
  <2>1. AttemptsTyped'
    BY <1>5 DEF IInv, TypeOK, StartAfresh, AttemptsTyped
  <2>2. Moves(p, "prepare") /\ pc[p] = "journal"
    BY <1>5, <2>1 DEF IInv, TypeOK, StartAfresh, FlushRoot, Moves, JournalTyped
  <2>3. "prepare" \in Places
    BY DEF Places, Staging
  <2>4. Knows(pc[p], "prepare")
    BY <2>2 DEF Knows, WritePlaces, Staging, OnlyOptimistic, Early, Late, After, MovePlaces,
                      Removing, CleanWork, Planned
  <2> QED
    BY <2>2, <2>3, <2>4, MovesOn
<1>6. ASSUME NEW p \in Procs, StageParticipants(p)
      PROVE  IInv'
  <2>1. JournalTyped'
    BY <1>6, JournalKept DEF IInv, StageParticipants, Phases
  <2>2. PICK b \in {"stage", "validate"} :
           /\ Moves(p, b)
           /\ \/ pc[p] = "preparing" /\ b = "stage"
              \/ pc[p] = "stage" /\ b = "validate"
    BY <1>6, <2>1 DEF IInv, TypeOK, StageParticipants, Moves, AttemptsTyped
  <2>3. b \in Places
    BY DEF Places, Staging
  <2>4. Knows(pc[p], b)
    BY <2>2 DEF Knows, WritePlaces, Staging, OnlyOptimistic, Early, Late, After, MovePlaces,
                      Removing, CleanWork, Planned
  <2> QED
    BY <2>2, <2>3, <2>4, MovesOn
<1>7. ASSUME NEW p \in Procs, Validate(p)
      PROVE  IInv'
  <2>1. JournalTyped'
    BY <1>7, JournalKept DEF IInv, Validate, Phases
  <2>2. PICK b \in {"manifest", "readmit"} :
           /\ Moves(p, b)
           /\ \/ pc[p] = "validate" /\ b = "readmit" /\ job[p].optimistic
              \/ pc[p] = "validate" /\ b = "manifest" /\ ~job[p].optimistic
    BY <1>7, <2>1 DEF IInv, TypeOK, Validate, Moves, AttemptsTyped
  <2>3. b \in Places
    BY DEF Places, Staging
  <2>4. Local(p)'
    BY <1>7, <2>2, SMTT(30) DEF IInv, TypeOK, Moves, Local, HoldsWriter, Builds, Current,
           WritePlaces, Staging, OnlyOptimistic, Early, Late, After, MovePlaces, Removing,
           CleanWork, Planned
  <2> QED
    BY <2>2, <2>3, <2>4, MovesStep
<1>8. ASSUME NEW p \in Procs, ValidateConflict(p)
      PROVE  IInv'
  <2>1. Moves(p, "abort") /\ pc[p] = "validate"
    BY <1>8 DEF IInv, TypeOK, ValidateConflict, Moves, JournalTyped, AttemptsTyped
  <2>2. "abort" \in Places
    BY DEF Places, Staging
  <2>3. Knows(pc[p], "abort")
    BY <2>1 DEF Knows, WritePlaces, Staging, OnlyOptimistic, Early, Late, After, MovePlaces,
                      Removing, CleanWork, Planned
  <2> QED
    BY <2>1, <2>2, <2>3, MovesOn
<1>9. ASSUME NEW p \in Procs, Readmit(p)
      PROVE  IInv'
  <2>1. TypeOK'
    <3>1. pc' \in [Procs -> Places]
      BY <1>9 DEF IInv, TypeOK, Readmit, Places, Staging
    <3> QED
      BY <1>9, <3>1 DEF IInv, TypeOK, Readmit
  <2>2. Quiet(p)
    BY <1>9 DEF IInv, TypeOK, Quiet, Others, Readmit
  <2>3. Local(p)'
    BY <1>9, SMTT(30) DEF IInv, TypeOK, Local, Readmit, HoldsWriter, Builds, Current,
           WritePlaces, Staging, OnlyOptimistic, Early, Late, After, MovePlaces, Removing,
           CleanWork, Planned
  <2> QED
    BY <2>1, <2>2, <2>3, QuietStep
<1>10. ASSUME NEW p \in Procs, SyncCommit(p)
      PROVE  IInv'
  <2>1. Moves(p, "waitWriter") /\ pc[p] = "syncCommit"
    BY <1>10 DEF IInv, TypeOK, SyncCommit, FlushRoot, Moves, JournalTyped, AttemptsTyped
  <2>2. "waitWriter" \in Places
    BY DEF Places, Staging
  <2>3. Knows(pc[p], "waitWriter")
    BY <2>1 DEF Knows, WritePlaces, Staging, OnlyOptimistic, Early, Late, After, MovePlaces,
                      Removing, CleanWork, Planned
  <2> QED
    BY <2>1, <2>2, <2>3, MovesOn
<1>11. ASSUME NEW p \in Procs, WaitWriter(p)
      PROVE  IInv'
  <2>1. TypeOK'
    <3>1. pc' \in [Procs -> Places]
      BY <1>11 DEF IInv, TypeOK, WaitWriter, Places, Staging
    <3> QED
      BY <1>11, <3>1 DEF IInv, TypeOK, WaitWriter
  <2>2. Quiet(p)
    BY <1>11 DEF IInv, TypeOK, Quiet, Others, WaitWriter
  <2>3. Local(p)'
    BY <1>11, SMTT(30) DEF IInv, TypeOK, Local, WaitWriter, HoldsWriter, Builds, Current,
           WritePlaces, Staging, OnlyOptimistic, Early, Late, After, MovePlaces, Removing,
           CleanWork, Planned
  <2> QED
    BY <2>1, <2>2, <2>3, QuietStep
<1>12. ASSUME NEW p \in Procs, CheckParent(p)
      PROVE  IInv'
  <2>1. PICK b \in {"abort", "manifest"} :
           /\ Moves(p, b)
           /\ \/ pc[p] = "checkParent" /\ b = "manifest" /\ Current.gen = job[p].parent
              \/ pc[p] = "checkParent" /\ b = "abort"
    BY <1>12 DEF IInv, TypeOK, CheckParent, Moves, JournalTyped, AttemptsTyped
  <2>2. b \in Places
    BY DEF Places, Staging
  <2>3. Local(p)'
    BY <1>12, <2>1, SMTT(30) DEF IInv, TypeOK, Moves, Local, HoldsWriter, Builds, Current,
           WritePlaces, Staging, OnlyOptimistic, Early, Late, After, MovePlaces, Removing,
           CleanWork, Planned
  <2> QED
    BY <2>1, <2>2, <2>3, MovesStep
<1>13. ASSUME NEW p \in Procs, AbortStale(p)
      PROVE  IInv'
  <2>1. JournalTyped'
    BY <1>13, JournalKept DEF IInv, AbortStale, Phases
  <2>2. Moves(p, "removeAttempt") /\ pc[p] = "abort"
    BY <1>13, <2>1 DEF IInv, TypeOK, AbortStale, Moves, AttemptsTyped
  <2>3. "removeAttempt" \in Places
    BY DEF Places, Staging
  <2>4. Knows(pc[p], "removeAttempt")
    BY <2>2 DEF Knows, WritePlaces, Staging, OnlyOptimistic, Early, Late, After, MovePlaces,
                      Removing, CleanWork, Planned
  <2> QED
    BY <2>2, <2>3, <2>4, MovesOn
<1>14. ASSUME NEW p \in Procs, RetireAttempt(p)
      PROVE  IInv'
  <2>1. AttemptsTyped'
    BY <1>14 DEF IInv, TypeOK, RetireAttempt, AttemptsTyped
  <2>2. Moves(p, "durable") /\ pc[p] = "retireAttempt"
    BY <1>14, <2>1 DEF IInv, TypeOK, RetireAttempt, Moves, JournalTyped
  <2>3. "durable" \in Places
    BY DEF Places, Staging
  <2>4. Knows(pc[p], "durable")
    BY <2>2 DEF Knows, WritePlaces, Staging, OnlyOptimistic, Early, Late, After, MovePlaces,
                      Removing, CleanWork, Planned
  <2> QED
    BY <2>2, <2>3, <2>4, MovesOn
<1>15. ASSUME NEW p \in Procs, WriteDurable(p)
      PROVE  IInv'
  <2>0. job[p].parent \in Gens \cup {None}
    BY DEF IInv, TypeOK, Jobs
  <2>1. JournalTyped'
    BY <1>15, <2>0, JournalKept DEF IInv, WriteDurable, Phases
  <2>2. Moves(p, "replace") /\ pc[p] = "durable"
    BY <1>15, <2>1 DEF IInv, TypeOK, WriteDurable, Moves, AttemptsTyped
  <2>3. "replace" \in Places
    BY DEF Places, Staging
  <2>4. Knows(pc[p], "replace")
    BY <2>2 DEF Knows, WritePlaces, Staging, OnlyOptimistic, Early, Late, After, MovePlaces,
                      Removing, CleanWork, Planned
  <2> QED
    BY <2>2, <2>3, <2>4, MovesOn
<1>16. ASSUME NEW p \in Procs, Acknowledge(p)
      PROVE  IInv'
  <2>1. Moves(p, "published") /\ pc[p] = "acknowledge"
    BY <1>16 DEF IInv, TypeOK, Acknowledge, FlushRoot, Moves, JournalTyped, AttemptsTyped
  <2>2. "published" \in Places
    BY DEF Places, Staging
  <2>3. Knows(pc[p], "published")
    BY <2>1 DEF Knows, WritePlaces, Staging, OnlyOptimistic, Early, Late, After, MovePlaces,
                      Removing, CleanWork, Planned
  <2> QED
    BY <2>1, <2>2, <2>3, MovesOn
<1>17. ASSUME NEW p \in Procs, WritePublished(p)
      PROVE  IInv'
  <2>0. job[p].parent \in Gens \cup {None}
    BY DEF IInv, TypeOK, Jobs
  <2>1. JournalTyped'
    BY <1>17, <2>0, JournalKept DEF IInv, WritePublished, Phases
  <2>2. Moves(p, "confirm") /\ pc[p] = "published"
    BY <1>17, <2>1 DEF IInv, TypeOK, WritePublished, Moves, AttemptsTyped
  <2>3. "confirm" \in Places
    BY DEF Places, Staging
  <2>4. Knows(pc[p], "confirm")
    BY <2>2 DEF Knows, WritePlaces, Staging, OnlyOptimistic, Early, Late, After, MovePlaces,
                      Removing, CleanWork, Planned
  <2> QED
    BY <2>2, <2>3, <2>4, MovesOn
<1>18. ASSUME NEW p \in Procs, Replay(p)
      PROVE  IInv'
  <2>1. receipts' \subseteq Txns
    BY <1>18 DEF IInv, TypeOK, Local, Replay, WritePlaces, Staging
  <2>2. TypeOK'
    BY <1>18, <2>1, LeaveType, SMTT(30) DEF IInv, TypeOK, Replay, FlushRoot
  <2>3. Quiet(p) /\ pc'[p] = "idle"
    BY <1>18, LeaveType DEF IInv, Quiet, Replay, FlushRoot
  <2> QED
    BY <2>2, <2>3, IdleLocal, QuietStep
<1>19. ASSUME NEW p \in Procs, RefuseJournal(p)
      PROVE  IInv'
  <2>1. TypeOK'
    BY <1>19, LeaveType, SMTT(30) DEF IInv, TypeOK, RefuseJournal, FlushRoot
  <2>2. Quiet(p) /\ pc'[p] = "idle"
    BY <1>19, LeaveType DEF IInv, Quiet, RefuseJournal, FlushRoot
  <2> QED
    BY <2>1, <2>2, IdleLocal, QuietStep
<1>20. ASSUME NEW p \in Procs, RemoveAttempt(p)
      PROVE  IInv'
  <2>0. AttemptsTyped'
    BY <1>20 DEF IInv, TypeOK, RemoveAttempt, AttemptsTyped
  <2>1. TypeOK'
    BY <1>20, <2>0, LeaveType DEF IInv, TypeOK, RemoveAttempt, AttemptsTyped
  <2>2. Quiet(p) /\ pc'[p] = "idle"
    BY <1>20, LeaveType DEF IInv, Quiet, RemoveAttempt
  <2> QED
    BY <2>1, <2>2, IdleLocal, QuietStep
<1>21. ASSUME NEW p \in Procs, Confirm(p)
      PROVE  IInv'
  <2>1. receipts' \subseteq Txns
    BY <1>21, SMTT(30) DEF IInv, TypeOK, Local, Confirm, WritePlaces, Staging
  <2>2. TypeOK'
    BY <1>21, <2>1, LeaveType DEF IInv, TypeOK, Confirm
  <2>3. Quiet(p) /\ pc'[p] = "idle"
    BY <1>21, LeaveType DEF IInv, Quiet, Confirm
  <2> QED
    BY <2>2, <2>3, IdleLocal, QuietStep
<1> QED
  BY <1>1, <1>2, <1>3, <1>4, <1>5, <1>6, <1>7, <1>8, <1>9, <1>10, <1>11, <1>12, <1>13, <1>14, <1>15, <1>16, <1>17, <1>18, <1>19, <1>20, <1>21

-----------------------------------------------------------------------------
(* Recovery and clean-up.                                                  *)

\* Every quiet step of a recovery or a clean-up keeps the invariant.
LEMMA RecoverQuiet ==
    ASSUME IInv
    PROVE  \A p \in Procs :
               (\/ SyncRecovery(p) \/ LockRecovery(p) \/ PlanRecovery(p) \/ PlanCleanup(p)
                \/ \E t \in Txns : SkipLive(p, t) \/ RepairJournal(p, t) \/ Abandon(p, t)
                \/ \E g \in Gens : TakeCandidate(p, g)
                \/ DeleteAttempt(p) \/ DeleteFromTrash(p) \/ ProbeSkips(p) \/ ProbeIdle(p)
                \/ DeleteMoved(p)) => IInv'
<1>1. ASSUME NEW p \in Procs, SyncRecovery(p)
      PROVE  IInv'
  <2>1. PICK b \in {"cleanLock", "recoverLock"} :
           /\ Moves(p, b)
           /\ \/ pc[p] = "recoverSync" /\ b = "recoverLock"
              \/ pc[p] = "cleanSync" /\ b = "cleanLock"
    BY <1>1 DEF IInv, TypeOK, SyncRecovery, FlushRoot, Moves, JournalTyped, AttemptsTyped
  <2>2. b \in Places
    BY DEF Places, Recovering, Cleaning
  <2>3. Knows(pc[p], b)
    BY <2>1 DEF Knows, WritePlaces, Staging, OnlyOptimistic, Early, Late, After, MovePlaces,
                      Removing, CleanWork, Planned
  <2> QED
    BY <2>1, <2>2, <2>3, MovesOn
<1>2. ASSUME NEW p \in Procs, LockRecovery(p)
      PROVE  IInv'
  <2>1. TypeOK'
    <3>1. pc' \in [Procs -> Places]
      BY <1>2, SMTT(30) DEF IInv, TypeOK, LockRecovery, Places, Recovering, Cleaning
    <3> QED
      BY <1>2, <3>1 DEF IInv, TypeOK, LockRecovery
  <2>2. Quiet(p)
    BY <1>2 DEF IInv, TypeOK, Quiet, Others, LockRecovery
  <2>3. Local(p)'
    BY <1>2, SMTT(30) DEF IInv, TypeOK, Local, LockRecovery, HoldsWriter, Builds, Current,
           WritePlaces, Staging, OnlyOptimistic, Early, Late, After, MovePlaces, Removing,
           CleanWork, Planned
  <2> QED
    BY <2>1, <2>2, <2>3, QuietStep
<1>3. ASSUME NEW p \in Procs, PlanRecovery(p)
      PROVE  IInv'
  <2>1. TypeOK'
    <3>1. pc' \in [Procs -> Places]
      BY <1>3 DEF IInv, TypeOK, PlanRecovery, Places, Recovering, Cleaning
    <3>2. todo' \in [Procs -> SUBSET Gens]
      BY <1>3 DEF IInv, TypeOK, PlanRecovery, Gens
    <3> QED
      BY <1>3, <3>1, <3>2 DEF IInv, TypeOK, PlanRecovery
  <2>2. Quiet(p)
    BY <1>3 DEF IInv, TypeOK, Quiet, Others, PlanRecovery
  <2>3. hasty' \/ flushed = Len(log)
    <3>1. CASE flushed < Len(log)
      BY <1>3, <3>1 DEF PlanRecovery
    <3>2. CASE ~(flushed < Len(log))
      BY <3>2, SMTT(30) DEF IInv, TypeOK
    <3> QED
      BY <3>1, <3>2
  <2>4. /\ pc'[p] = "recoverNext" /\ writer' = p
        /\ UNCHANGED <<log, flushed, job, parentOf>>
    BY <1>3 DEF IInv, TypeOK, Local, PlanRecovery, HoldsWriter
  <2>6. Local(p)'
    BY <2>3, <2>4 DEF Local, Reachable, HoldsWriter, Builds, Current,
           WritePlaces, Staging, OnlyOptimistic, Early, Late, After, MovePlaces, Removing,
           CleanWork, Planned
  <2> QED
    BY <2>1, <2>2, <2>6, QuietStep
<1>4. ASSUME NEW p \in Procs, PlanCleanup(p)
      PROVE  IInv'
  <2>1. TypeOK'
    <3>1. pc' \in [Procs -> Places]
      BY <1>4 DEF IInv, TypeOK, PlanCleanup, Places, Recovering, Cleaning
    <3>2. todo' \in [Procs -> SUBSET Gens]
      BY <1>4 DEF IInv, TypeOK, PlanCleanup, Candidates
    <3> QED
      BY <1>4, <3>1, <3>2 DEF IInv, TypeOK, PlanCleanup
  <2>2. Quiet(p)
    BY <1>4 DEF IInv, TypeOK, Quiet, Others, PlanCleanup
  <2>3. hasty' \/ flushed = Len(log)
    <3>1. CASE flushed < Len(log)
      BY <1>4, <3>1 DEF PlanCleanup
    <3>2. CASE ~(flushed < Len(log))
      BY <3>2, SMTT(30) DEF IInv, TypeOK
    <3> QED
      BY <3>1, <3>2
  <2>4. /\ pc'[p] = "cleanNext" /\ writer' = p
        /\ UNCHANGED <<log, flushed, job, parentOf>>
    BY <1>4 DEF IInv, TypeOK, Local, PlanCleanup, HoldsWriter
  <2>5. todo'[p] \cap Reachable(job[p].keep) = {}
    BY <1>4 DEF IInv, TypeOK, PlanCleanup, Candidates
  <2>6. Local(p)'
    BY <2>3, <2>4, <2>5 DEF Local, Reachable, HoldsWriter, Builds, Current,
           WritePlaces, Staging, OnlyOptimistic, Early, Late, After, MovePlaces, Removing,
           CleanWork, Planned
  <2> QED
    BY <2>1, <2>2, <2>6, QuietStep
<1>5. ASSUME NEW p \in Procs, NEW t \in Txns, SkipLive(p, t)
      PROVE  IInv'
  <2>1. TypeOK'
    <3>1. todo' \in [Procs -> SUBSET Gens]
      BY <1>5 DEF IInv, TypeOK, SkipLive, Done
    <3> QED
      BY <1>5, <3>1 DEF IInv, TypeOK, SkipLive, Done
  <2>2. Quiet(p)
    BY <1>5 DEF IInv, TypeOK, Quiet, Others, SkipLive, Done
  <2>3. Local(p)'
    BY <1>5 DEF IInv, TypeOK, Local, SkipLive, Done, Reachable, HoldsWriter, Builds, Current,
           WritePlaces, Staging, OnlyOptimistic, Early, Late, After, MovePlaces, Removing,
           CleanWork, Planned
  <2> QED
    BY <2>1, <2>2, <2>3, QuietStep
<1>6. ASSUME NEW p \in Procs, NEW t \in Txns, RepairJournal(p, t)
      PROVE  IInv'
  <2>1. TypeOK'
    <3>1. journal[t].digest \in Gens \cup {None}
      BY <1>6 DEF IInv, TypeOK
    <3>2. JournalTyped'
      BY <1>6, <3>1, JournalKept DEF IInv, RepairJournal, Phases
    <3>3. todo' \in [Procs -> SUBSET Gens]
      BY <1>6 DEF IInv, TypeOK, RepairJournal, Done
    <3> QED
      BY <1>6, <3>1, <3>2, <3>3 DEF IInv, TypeOK, RepairJournal, Done, JournalTyped
  <2>2. Quiet(p)
    BY <1>6 DEF IInv, TypeOK, Quiet, Others, RepairJournal, Done
  <2>3. Local(p)'
    BY <1>6 DEF IInv, TypeOK, Local, RepairJournal, Done, Reachable, HoldsWriter, Builds, Current,
           WritePlaces, Staging, OnlyOptimistic, Early, Late, After, MovePlaces, Removing,
           CleanWork, Planned
  <2> QED
    BY <2>1, <2>2, <2>3, QuietStep
<1>7. ASSUME NEW p \in Procs, NEW t \in Txns, Abandon(p, t)
      PROVE  IInv'
  <2>1. TypeOK'
    <3>1. journal[t].digest \in Gens \cup {None} /\ JournalTyped
      BY <1>7 DEF IInv, TypeOK, JournalTyped
    <3>2. UNCHANGED journal => JournalTyped'
      BY <3>1 DEF JournalTyped
    <3>3. JournalTyped'
      BY <1>7, <3>1, <3>2, JournalKept DEF IInv, Abandon, Phases
    <3>4. todo' \in [Procs -> SUBSET Gens]
      BY <1>7 DEF IInv, TypeOK, Abandon, Take
    <3>5. job' \in [Procs -> Jobs]
      BY <1>7 DEF IInv, TypeOK, Abandon, Take, Gens, Jobs
    <3>6. pc' \in [Procs -> Places]
      BY <1>7 DEF IInv, TypeOK, Abandon, Take, Places, Recovering, Cleaning
    <3> QED
      BY <1>7, <3>1, <3>2, <3>3, <3>4, <3>5, <3>6 DEF IInv, TypeOK, Abandon, Take, JournalTyped
  <2>2. Quiet(p)
    BY <1>7 DEF IInv, TypeOK, Quiet, Others, Abandon, Take
  <2>3. Local(p)'
    BY <1>7, SMTT(30) DEF IInv, TypeOK, Local, Abandon, Take, Gens, Reachable, HoldsWriter, Builds, Current,
           WritePlaces, Staging, OnlyOptimistic, Early, Late, After, MovePlaces, Removing,
           CleanWork, Planned
  <2> QED
    BY <2>1, <2>2, <2>3, QuietStep
<1>8. ASSUME NEW p \in Procs, NEW g \in Gens, TakeCandidate(p, g)
      PROVE  IInv'
  <2>1. TypeOK'
    <3>1. todo' \in [Procs -> SUBSET Gens]
      BY <1>8 DEF IInv, TypeOK, TakeCandidate
    <3>2. job' \in [Procs -> Jobs]
      BY <1>8 DEF IInv, TypeOK, TakeCandidate, Jobs
    <3>3. pc' \in [Procs -> Places]
      BY <1>8 DEF IInv, TypeOK, TakeCandidate, Places, Recovering, Cleaning
    <3> QED
      BY <1>8, <3>1, <3>2, <3>3 DEF IInv, TypeOK, TakeCandidate
  <2>2. Quiet(p)
    BY <1>8 DEF IInv, TypeOK, Quiet, Others, TakeCandidate
  <2>3. Local(p)'
    <3>1. /\ pc[p] = "cleanNext" /\ pc'[p] = "cleanProbe"
          /\ g \in todo[p] /\ todo'[p] \subseteq todo[p] /\ g \in Gens
          /\ job'[p].txn = g /\ job'[p].keep = job[p].keep
          /\ UNCHANGED <<log, flushed, parentOf, writer, hasty>>
      BY <1>8 DEF IInv, TypeOK, TakeCandidate
    <3>2. /\ writer = p /\ (hasty \/ flushed = Len(log))
          /\ todo[p] \cap Reachable(job[p].keep) = {}
      BY <3>1 DEF IInv, Local, HoldsWriter, CleanWork, Planned
    <3>3. Reachable(job[p].keep)' = Reachable(job[p].keep)
      BY <3>1 DEF Reachable, Current
    <3> QED
      BY <3>1, <3>2, <3>3 DEF Local, HoldsWriter, Builds, WritePlaces, Staging, OnlyOptimistic,
             Early, Late, After, MovePlaces, Removing, CleanWork, Planned
  <2> QED
    BY <2>1, <2>2, <2>3, QuietStep
<1>9. ASSUME NEW p \in Procs, DeleteAttempt(p)
      PROVE  IInv'
  <2>1. AttemptsTyped'
    BY <1>9 DEF IInv, TypeOK, DeleteAttempt, AttemptsTyped
  <2>2. Moves(p, "recoverProbe") /\ pc[p] = "recoverAttempt"
    BY <1>9, <2>1 DEF IInv, TypeOK, DeleteAttempt, Moves, JournalTyped
  <2>3. "recoverProbe" \in Places
    BY DEF Places, Recovering, Cleaning
  <2>4. Knows(pc[p], "recoverProbe")
    BY <2>2 DEF Knows, WritePlaces, Staging, OnlyOptimistic, Early, Late, After, MovePlaces,
                      Removing, CleanWork, Planned
  <2> QED
    BY <2>2, <2>3, <2>4, MovesOn
<1>10. ASSUME NEW p \in Procs, ProbeSkips(p)
      PROVE  IInv'
  <2>1. PICK b \in {"cleanNext", "recoverNext"} :
           /\ Moves(p, b)
           /\ \/ pc[p] = "recoverProbe" /\ b = "recoverNext"
              \/ pc[p] = "cleanProbe" /\ b = "cleanNext"
    BY <1>10 DEF IInv, TypeOK, ProbeSkips, AtProbe, NextPlace, Recovering, Moves, JournalTyped, AttemptsTyped
  <2>2. b \in Places
    BY DEF Places, Recovering, Cleaning
  <2>3. Knows(pc[p], b)
    BY <2>1 DEF Knows, WritePlaces, Staging, OnlyOptimistic, Early, Late, After, MovePlaces,
                      Removing, CleanWork, Planned
  <2> QED
    BY <2>1, <2>2, <2>3, MovesOn
<1>11. ASSUME NEW p \in Procs, ProbeIdle(p)
      PROVE  IInv'
  <2>1. PICK b \in {"cleanMove", "recoverMove"} :
           /\ Moves(p, b)
           /\ \/ pc[p] = "recoverProbe" /\ b = "recoverMove"
              \/ pc[p] = "cleanProbe" /\ b = "cleanMove"
    BY <1>11 DEF IInv, TypeOK, ProbeIdle, AtProbe, Moves, JournalTyped, AttemptsTyped
  <2>2. b \in Places
    BY DEF Places, Recovering, Cleaning
  <2>3. Local(p)'
    <3>1. /\ pc'[p] = b
          /\ UNCHANGED <<log, gens, parentOf, job, todo, writer, rpc, seen, hasty>>
          /\ flushed' \in {flushed, Len(log)}
      BY <2>1 DEF IInv, TypeOK, Moves
    <3>2. \A r \in Readers : rpc'[r] = "pinned" => seen'[r].gen # T(p)'
      BY <1>11, <3>1 DEF ProbeIdle, LeaseIdle, Leased, Leasing
    <3>3. Current' = Current /\ Reachable(job[p].keep)' = Reachable(job[p].keep)
      BY <3>1 DEF Current, Reachable
    <3>4. Local(p)
      BY DEF IInv
    <3> QED
      BY <2>1, <3>1, <3>2, <3>3, <3>4
      DEF Local, HoldsWriter, Builds, WritePlaces, Staging, OnlyOptimistic, Early, Late, After,
          MovePlaces, Removing, CleanWork, Planned
  <2> QED
    BY <2>1, <2>2, <2>3, MovesStep
<1>12. ASSUME NEW p \in Procs, DeleteMoved(p)
      PROVE  IInv'
  <2>1. PICK b \in {"cleanNext", "recoverNext"} :
           /\ Moves(p, b)
           /\ \/ pc[p] = "recoverDelete" /\ b = "recoverNext"
              \/ pc[p] = "cleanDelete" /\ b = "cleanNext"
    BY <1>12 DEF IInv, TypeOK, DeleteMoved, NextPlace, Recovering, Moves, JournalTyped, AttemptsTyped
  <2>2. b \in Places
    BY DEF Places, Recovering, Cleaning
  <2>3. Knows(pc[p], b)
    BY <2>1 DEF Knows, WritePlaces, Staging, OnlyOptimistic, Early, Late, After, MovePlaces,
                      Removing, CleanWork, Planned
  <2> QED
    BY <2>1, <2>2, <2>3, MovesOn
<1>13. ASSUME NEW p \in Procs, DeleteFromTrash(p)
      PROVE  IInv'
  <2>1. CASE Current.gen = T(p)
    BY <1>13, <2>1, FailStep DEF DeleteFromTrash
  <2>2. CASE Current.gen # T(p)
    <3>1. PICK b \in {"cleanNext", "recoverNext"} :
             /\ Moves(p, b)
             /\ \/ pc[p] = "recoverProbe" /\ b = "recoverNext"
                \/ pc[p] = "cleanProbe" /\ b = "cleanNext"
      BY <1>13, <2>2 DEF IInv, TypeOK, DeleteFromTrash, AtProbe, NextPlace, Recovering, Moves, JournalTyped, AttemptsTyped
    <3>2. b \in Places
      BY DEF Places, Recovering, Cleaning
    <3>3. Knows(pc[p], b)
      BY <3>1 DEF Knows, WritePlaces, Staging, OnlyOptimistic, Early, Late, After, MovePlaces,
                        Removing, CleanWork, Planned
    <3> QED
      BY <3>1, <3>2, <3>3, MovesOn
  <2> QED
    BY <2>1, <2>2
<1> QED
  BY <1>1, <1>2, <1>3, <1>4, <1>5, <1>6, <1>7, <1>8, <1>9, <1>10, <1>11, <1>12, <1>13

-----------------------------------------------------------------------------
(* The move of a generation to the trash.                                  *)

\* What goes to the trash is neither CURRENT, nor what a power loss may make it, nor
\* pinned.
LEMMA MoveStep ==
    ASSUME IInv, NEW p \in Procs, MoveToTrash(p)
    PROVE  IInv'
<1>1. /\ pc[p] \in MovePlaces /\ T(p) \in Gens /\ writer = p
      /\ T(p) \notin Reachable(job[p].keep)
      /\ hasty \/ flushed = Len(log)
      /\ \A r \in Readers : rpc[r] = "pinned" => seen[r].gen # T(p)
  BY DEF IInv, Local, MoveToTrash, MovePlaces, Removing, HoldsWriter, Planned
<1>2. Current.gen # T(p)
  BY <1>1, CurrentReachable
<1>3. StillUnreachable(p)
  BY <1>1, <1>2 DEF StillUnreachable
<1>4. /\ gens' = [gens EXCEPT ![T(p)] = "absent"]
      /\ trash' = trash \cup {T(p)}
      /\ pc' = [pc EXCEPT ![p] = IF pc[p] = "recoverMove" THEN "recoverDelete" ELSE "cleanDelete"]
      /\ KeepRest
      /\ UNCHANGED <<log, flushed, journal, parentOf, attempts>>
  BY <1>3 DEF MoveToTrash
<1>5. TypeOK'
  BY <1>1, <1>4 DEF IInv, TypeOK, Places, Recovering, Cleaning
<1>6. Others(p) /\ UNCHANGED <<hasty, rpc, seen, writer>>
  BY <1>4 DEF IInv, TypeOK, Others
<1>7. Local(p)'
  <2>1. /\ pc'[p] = IF pc[p] = "recoverMove" THEN "recoverDelete" ELSE "cleanDelete"
        /\ UNCHANGED <<log, flushed, job, todo, writer, hasty>>
    BY <1>4 DEF IInv, TypeOK
  <2>2. Current' = Current /\ Reachable(job[p].keep)' = Reachable(job[p].keep)
    BY <1>4 DEF Current, Reachable
  <2>3. Local(p)
    BY DEF IInv
  <2> QED
    BY <1>1, <2>1, <2>2, <2>3
    DEF Local, HoldsWriter, Builds, WritePlaces, Staging, OnlyOptimistic, Early, Late, After,
        MovePlaces, Removing, CleanWork, Planned
<1>8. \A q \in Procs : Local(q)'
  BY <1>1, <1>6, <1>7, OthersUndisturbed
<1>9. CommitsExtendCurrent'
  BY <1>4 DEF IInv, CommitsExtendCurrent
<1>10. CurrentAlwaysResolves'
  <2>1. CASE hasty
    BY <1>6, <2>1 DEF CurrentAlwaysResolves
  <2>2. CASE ~hasty
    <3>1. Exposed = {Current} /\ Exposed' = Exposed
      <4>1. flushed..Len(log) = {Len(log)}
        BY <1>1, <2>2, SMTT(30) DEF IInv, TypeOK
      <4> QED
        BY <1>4, <4>1 DEF Exposed, Current
    <3>2. Current \in Currents
      BY SMTT(30) DEF IInv, TypeOK, Current
    <3> QED
      BY <1>1, <1>2, <1>4, <2>2, <3>1, <3>2
      DEF IInv, TypeOK, CurrentAlwaysResolves, Resolves, Currents
  <2> QED
    BY <2>1, <2>2
<1>11. PinnedGenerationStays'
  BY <1>1, <1>4 DEF IInv, TypeOK, PinnedGenerationStays, Resolves, Currents
<1> QED
  BY <1>4, <1>5, <1>6, <1>8, <1>9, <1>10, <1>11 DEF IInv

-----------------------------------------------------------------------------
(* The build of a generation, the commit, and the theorems.                *)

\* The generation directory, the manifest and the promotion write over no complete
\* generation; the new one is what the process will name in CURRENT.
LEMMA BuildStep ==
    ASSUME IInv, NEW p \in Procs,
           PrepareDirectory(p) \/ WriteManifest(p) \/ Promote(p)
    PROVE  IInv'
<1>1. T(p) \in Txns /\ T(p) \in Gens /\ job[p] \in Jobs
  BY DEF IInv, Local, TypeOK, PrepareDirectory, WriteManifest, Promote, WritePlaces, Staging, Gens
<1>2. TypeOK'
  <2>0. /\ job[p].parent \in Gens \cup {None}
        /\ {"preparing", "promote", "durable", "retireAttempt"} \subseteq Places
    BY DEF IInv, TypeOK, Jobs, Places, Staging
  <2>1. pc' \in [Procs -> Places]
    <3>1. PICK b \in Places : Move(p, b)
      BY <2>0 DEF PrepareDirectory, WriteManifest, Promote
    <3> QED
      BY <3>1 DEF IInv, TypeOK
  <2>2. gens' \in [Gens -> {"absent", "partial", "complete"}]
    BY SMTT(30) DEF IInv, TypeOK, PrepareDirectory, WriteManifest, Promote
  <2>3. parentOf' \in [Gens \cup {None} -> Gens \cup {None}]
    BY <2>0 DEF IInv, TypeOK, PrepareDirectory, WriteManifest, Promote
  <2>4. AttemptsTyped'
    BY SMTT(30) DEF IInv, TypeOK, PrepareDirectory, WriteManifest, Promote, AttemptsTyped
  <2>5. UNCHANGED <<log, flushed, journal, trash, locks, job, todo, reads, receipts, hasty, crashes>>
    BY DEF PrepareDirectory, WriteManifest, Promote
  <2> QED
    BY <2>1, <2>2, <2>3, <2>4, <2>5 DEF IInv, TypeOK, AttemptsTyped
<1>3. Others(p) /\ UNCHANGED <<log, flushed, hasty, rpc, seen, writer>>
  <2>1. PICK b : Move(p, b)
    BY DEF PrepareDirectory, WriteManifest, Promote
  <2>2. UNCHANGED <<log, flushed, hasty, rpc, seen, writer, job, todo>>
    BY DEF PrepareDirectory, WriteManifest, Promote
  <2> QED
    BY <2>1, <2>2 DEF IInv, TypeOK, Others
<1>4. \A g \in Gens : gens[g] = "complete" => gens'[g] = "complete" /\ parentOf'[g] = parentOf[g]
  <2>1. CASE PrepareDirectory(p)
    BY <1>1, <2>1 DEF IInv, TypeOK, Local, PrepareDirectory
  <2>2. CASE WriteManifest(p)
    BY <1>1, <2>2 DEF IInv, TypeOK, Local, WriteManifest
  <2>3. CASE Promote(p)
    BY <1>1, <2>3 DEF IInv, TypeOK, Local, Promote
  <2> QED
    BY <2>1, <2>2, <2>3
<1>5. Local(p)'
  <2>1. CASE PrepareDirectory(p)
    <3>1. CASE job[p].optimistic
      BY <1>1, <2>1, <3>1 DEF IInv, TypeOK, Local, PrepareDirectory, HoldsWriter, Builds, Current,
           WritePlaces, Staging, OnlyOptimistic, Early, Late, After, MovePlaces, Removing,
           CleanWork, Planned
    <3>2. CASE ~job[p].optimistic
      <4>1. /\ pc[p] = "prepare" /\ pc'[p] = "preparing" /\ job'[p] = job[p]
            /\ gens' = [gens EXCEPT ![T(p)] = "partial"]
            /\ UNCHANGED <<log, writer>>
        BY <2>1, <3>2 DEF IInv, TypeOK, PrepareDirectory
      <4>2. T(p) \in Txns /\ writer = p /\ job[p].parent = Current.gen
        BY <3>2, <4>1 DEF IInv, Local, WritePlaces, Staging, HoldsWriter, Builds, Early
      <4>3. gens'[T(p)] = "partial"
        BY <4>1, <4>2 DEF IInv, TypeOK, Gens
      <4> QED
        BY <3>2, <4>1, <4>2, <4>3 DEF Local, HoldsWriter, Builds, Current,
               WritePlaces, Staging, OnlyOptimistic, Early, Late, After, MovePlaces, Removing,
               CleanWork, Planned
    <3> QED
      BY <3>1, <3>2
  <2>2. CASE WriteManifest(p)
    <3>1. CASE job[p].optimistic
      BY <1>1, <2>2, <3>1, SMTT(30) DEF IInv, TypeOK, Local, WriteManifest, HoldsWriter, Builds, Current,
           WritePlaces, Staging, OnlyOptimistic, Early, Late, After, MovePlaces, Removing,
           CleanWork, Planned
    <3>2. CASE ~job[p].optimistic
      BY <1>1, <2>2, <3>2, SMTT(30) DEF IInv, TypeOK, Local, WriteManifest, HoldsWriter, Builds, Current,
           WritePlaces, Staging, OnlyOptimistic, Early, Late, After, MovePlaces, Removing,
           CleanWork, Planned
    <3> QED
      BY <3>1, <3>2
  <2>3. CASE Promote(p)
    BY <1>1, <2>3, SMTT(30) DEF IInv, TypeOK, Local, Promote, HoldsWriter, Builds, Current,
           WritePlaces, Staging, OnlyOptimistic, Early, Late, After, MovePlaces, Removing,
           CleanWork, Planned
  <2> QED
    BY <2>1, <2>2, <2>3
<1>6. ASSUME NEW q \in Procs, q # p
      PROVE  Local(q)'
  <2>1. CASE writer = p
    BY <1>3, <1>6, <2>1, OthersUndisturbed
  <2>2. CASE writer # p
    <3>1. UNCHANGED <<gens, parentOf>>
      BY <2>2 DEF IInv, Local, PrepareDirectory, WriteManifest, Promote, HoldsWriter, Early, Late
    <3> QED
      BY <1>3, <1>6, <3>1, SMTT(30) DEF IInv, Others, Local, HoldsWriter, Builds, Current, Reachable
  <2> QED
    BY <2>1, <2>2
<1>7. CommitsExtendCurrent'
  BY <1>3 DEF IInv, CommitsExtendCurrent
<1>8. CurrentAlwaysResolves'
  <2>1. \A i \in flushed..Len(log) : log[i] \in Currents
    BY SMTT(30) DEF IInv, TypeOK
  <2>2. Exposed' = Exposed /\ \A c \in Exposed : c.gen \in Gens
    BY <1>3, <2>1 DEF Exposed, Currents
  <2> QED
    BY <1>3, <1>4, <2>2 DEF IInv, CurrentAlwaysResolves, Resolves
<1>9. PinnedGenerationStays'
  BY <1>3, <1>4 DEF IInv, PinnedGenerationStays, Resolves, Currents
<1> QED
  BY <1>2, <1>3, <1>5, <1>6, <1>7, <1>8, <1>9 DEF IInv

\* The commit extends CURRENT and names a complete generation.
LEMMA CommitStep ==
    ASSUME IInv, NEW p \in Procs, ReplaceCurrent(p)
    PROVE  IInv'
<1> DEFINE c == [gen |-> T(p), digest |-> job[p].parent]
<1>1. /\ T(p) \in Txns /\ writer = p /\ job[p].parent = Current.gen
      /\ gens[T(p)] = "complete" /\ parentOf[T(p)] = job[p].parent
  BY DEF IInv, Local, ReplaceCurrent, WritePlaces, Staging, HoldsWriter, Builds, Late
<1>2. c \in Currents
  BY <1>1 DEF IInv, TypeOK, Jobs, Currents, Gens
<1>3. /\ log' = Append(log, c) /\ log' \in Seq(Currents) /\ Len(log') = Len(log) + 1
      /\ log'[Len(log) + 1] = c
      /\ \A i \in 1..Len(log) : log'[i] = log[i]
  BY <1>2, SMTT(30) DEF IInv, TypeOK, ReplaceCurrent
<1>4. TypeOK'
  BY <1>3, StoreAssumption, SMTT(30) DEF IInv, TypeOK, ReplaceCurrent, Places, Staging
<1>5. Others(p) /\ UNCHANGED <<flushed, gens, parentOf, hasty, rpc, seen, writer>>
  BY DEF IInv, TypeOK, Others, ReplaceCurrent
<1>6. pc'[p] = "acknowledge"
  BY DEF IInv, TypeOK, ReplaceCurrent
<1>7. Local(p)'
  BY <1>1, <1>5, <1>6 DEF IInv, TypeOK, ReplaceCurrent, Local, HoldsWriter, Builds, Current,
           WritePlaces, Staging, OnlyOptimistic, Early, Late, After, MovePlaces, Removing,
           CleanWork, Planned
<1>8. \A q \in Procs : Local(q)'
  BY <1>1, <1>5, <1>7, OthersUndisturbed
<1>9. CommitsExtendCurrent'
  <2> SUFFICES ASSUME NEW i \in 2..(Len(log) + 1) PROVE log'[i].digest = log'[i - 1].gen
    BY <1>3 DEF CommitsExtendCurrent
  <2>1. Len(log) \in Nat /\ Len(log) > 0
    BY SMTT(30) DEF IInv, TypeOK
  <2>2. CASE i = Len(log) + 1
    BY <1>1, <1>3, <2>1, <2>2, SMTT(30) DEF Current
  <2>3. CASE i # Len(log) + 1
    BY <1>3, <2>1, <2>3, SMTT(30) DEF IInv, CommitsExtendCurrent
  <2> QED
    BY <2>2, <2>3
<1>10. CurrentAlwaysResolves'
  <2>1. Exposed' \subseteq Exposed \cup {c}
    BY <1>3, <1>5, SMTT(30) DEF IInv, TypeOK, Exposed
  <2>2. c.gen = T(p) /\ c.digest = job[p].parent
    OBVIOUS
  <2> HIDE DEF c
  <2> QED
    BY <1>1, <1>5, <2>1, <2>2 DEF IInv, CurrentAlwaysResolves, Resolves
<1>11. PinnedGenerationStays'
  BY <1>5 DEF IInv, PinnedGenerationStays, Resolves
<1> QED
  BY <1>4, <1>5, <1>8, <1>9, <1>10, <1>11 DEF IInv

\* A writer's step.
LEMMA WriteStep ==
    ASSUME IInv, NEW p \in Procs, Write(p)
    PROVE  IInv'
<1>1. CASE WriterBusy(p) \/ TxnBusy(p) \/ ParentCorrupt(p) \/ DirectoryExists(p)
           \/ ValidateRefuses(p) \/ PromoteConflict(p) \/ ReplaceFails(p)
  BY <1>1, FailStep DEF WriterBusy, TxnBusy, ParentCorrupt, DirectoryExists, ValidateRefuses,
                        PromoteConflict, ReplaceFails
<1>2. CASE PrepareDirectory(p) \/ WriteManifest(p) \/ Promote(p)
  BY <1>2, BuildStep
<1>3. CASE ReplaceCurrent(p)
  BY <1>3, CommitStep
<1> QED
  BY <1>1, <1>2, <1>3, WriteQuiet DEF Write

\* A step of recovery or clean-up.
LEMMA RecoverStep ==
    ASSUME IInv, NEW p \in Procs, Recover(p)
    PROVE  IInv'
<1>1. CASE RecoveryBusy(p) \/ PlanCorrupt(p) \/ FinishRecovery(p)
           \/ \E t \in Txns : RepairCorrupt(p, t)
  BY <1>1, FailStep DEF RecoveryBusy, PlanCorrupt, FinishRecovery, RepairCorrupt
<1>2. CASE MoveToTrash(p)
  BY <1>2, MoveStep
<1> QED
  BY <1>1, <1>2, RecoverQuiet DEF Recover

\* A call begins.
LEMMA BeginStep ==
    ASSUME IInv, NEW p \in Procs,
           \/ \E t \in Txns : BeginExclusive(p, t) \/ BeginOptimistic(p, t)
           \/ \E k \in Policies : BeginCleanup(p, k)
           \/ Open(p)
    PROVE  IInv'
<1>1. ASSUME NEW t \in Txns, BeginExclusive(p, t)
      PROVE  IInv'
  <2>1. Job(t, FALSE, None, 0) \in Jobs /\ "syncWriter" \in Places
    BY DEF Jobs, Gens, Places
  <2> QED
    BY <1>1, <2>1, AdmitStep DEF BeginExclusive
<1>2. ASSUME NEW t \in Txns, BeginOptimistic(p, t)
      PROVE  IInv'
  <2>1. Job(t, TRUE, None, 0) \in Jobs /\ "lockTxn" \in Places
    BY DEF Jobs, Gens, Places
  <2> QED
    BY <1>2, <2>1, AdmitStep DEF BeginOptimistic
<1>3. ASSUME NEW k \in Policies, BeginCleanup(p, k)
      PROVE  IInv'
  <2>1. Job(None, FALSE, None, k) \in Jobs /\ "cleanSync" \in Places
    BY StoreAssumption DEF Jobs, Places, Cleaning
  <2> QED
    BY <1>3, <2>1, AdmitStep DEF BeginCleanup
<1>4. CASE Open(p)
  <2>1. Job(None, FALSE, None, RetainedAncestors) \in Jobs /\ "recoverSync" \in Places
    BY StoreAssumption DEF Jobs, Places, Recovering
  <2> QED
    BY <1>4, <2>1, AdmitStep DEF Open
<1> QED
  BY <1>1, <1>2, <1>3, <1>4

\* A kill drops the locks of the process and nothing else.
LEMMA CrashStep ==
    ASSUME IInv, NEW p \in Procs, Crash(p)
    PROVE  IInv'
<1>1. TypeOK'
  BY LeaveType, StoreAssumption, SMTT(30) DEF IInv, Crash, TypeOK
<1>2. Quiet(p) /\ pc'[p] = "idle"
  BY LeaveType DEF IInv, Crash, Quiet
<1> QED
  BY <1>1, <1>2, IdleLocal, QuietStep

\* IInv is an invariant.
THEOREM Invariance == Spec => []IInv
<1>1. IInv /\ [Next]_vars => IInv'
  <2> SUFFICES ASSUME IInv, [Next]_vars PROVE IInv'
    OBVIOUS
  <2>1. CASE UNCHANGED vars
    <3>1. TypeOK'
      BY <2>1 DEF IInv, TypeOK, vars
    <3>2. \A p \in Procs : Local(p)'
      BY <2>1 DEF IInv, vars, Local, HoldsWriter, Builds, Current, Reachable
    <3>3. CommitsExtendCurrent' /\ CurrentAlwaysResolves' /\ PinnedGenerationStays'
      BY <2>1 DEF IInv, vars, CommitsExtendCurrent, CurrentAlwaysResolves,
                  PinnedGenerationStays, Exposed, Resolves
    <3> QED
      BY <2>1, <3>1, <3>2, <3>3 DEF IInv, vars
  <2> QED
    BY <2>1, BeginStep, WriteStep, RecoverStep, CrashStep, ReaderStep, PowerLossStep DEF Next
<1> QED
  BY InitInvariant, <1>1, PTL DEF Spec

\* The variables keep their types, whatever is killed.
THEOREM TypeCorrect == Spec => []TypeOK
<1>1. IInv => TypeOK
  BY DEF IInv
<1> QED
  BY Invariance, <1>1, PTL

\* ReplaceCurrent commits on top of the value CURRENT has, for any number of exclusive
\* and optimistic writers: prepare_commit_lock() under writer.lock is enough.
THEOREM CommitsAlwaysExtend == Spec => []CommitsExtendCurrent
<1>1. IInv => CommitsExtendCurrent
  BY DEF IInv
<1> QED
  BY Invariance, <1>1, PTL

\* As long as no recovery relied on an unflushed CURRENT, every value CURRENT may have
\* after a power loss names a complete generation with its digest.
THEOREM AuthorityResolves == Spec => []CurrentAlwaysResolves
<1>1. IInv => CurrentAlwaysResolves
  BY DEF IInv
<1> QED
  BY Invariance, <1>1, PTL

\* The second look of recovery and clean-up at CURRENT and at reachability, between the
\* probe of the lease and the move, never changes their decision.
THEOREM CleanupDecided == Spec => []CleanupDecisionHolds
<1>1. IInv => CleanupDecisionHolds
  BY CurrentReachable
  DEF IInv, Local, CleanupDecisionHolds, StillUnreachable, AtProbe, Removing, MovePlaces
<1> QED
  BY Invariance, <1>1, PTL

\* A generation pinned through CURRENT stays complete and unchanged while it is pinned,
\* for any retention policy.
THEOREM PinsHold == Spec => []PinnedGenerationStays
<1>1. IInv => PinnedGenerationStays
  BY DEF IInv
<1> QED
  BY Invariance, <1>1, PTL

=============================================================================
