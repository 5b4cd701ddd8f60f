---------------------- MODULE ProjectDurabilityProofs -----------------------
(***************************************************************************)
(* What a project has acknowledged is durable, and the project implements  *)
(* AtomicProject, for every number of processes, transactions and crashes. *)
(*                                                                         *)
(* The inductive invariant DInv stands beside that of ProjectProofs.       *)
(* Recovery also writes PUBLISHED, for every generation it reaches from    *)
(* CURRENT along the parent links; so DInv has to know that the links lead *)
(* to durable commits, and what Ancestry computes is found by induction.   *)
(*                                                                         *)
(* The second half is about the retained window: its journals match its    *)
(* commits, and no retry applies one of them again.  Two attempts of one   *)
(* transaction are kept apart by its transaction lock or by writer.lock    *)
(* (MInv), if the transaction is always staged in one mode.  The window    *)
(* then holds at most one commit of an attempt that is under way, with the *)
(* digest that the attempt writes into its journal (WInv); recovery        *)
(* abandons nothing of the window, because what it computes from a flushed *)
(* CURRENT covers all of it.                                               *)
(***************************************************************************)
EXTENDS ProjectProofs, WellFoundedInduction

-----------------------------------------------------------------------------
(* Induction over the naturals, with sets, and what Ancestry computes.     *)

\* A set of natural numbers has a least element.
LEMMA LeastNatural ==
    ASSUME NEW S \in SUBSET Nat, S # {}
    PROVE  \E n \in S : \A m \in S : n <= m
<1> DEFINE R == OpToRel(<, Nat)
<1>1. IsWellFoundedOn(R, Nat)
  BY NatLessThanWellFounded, Zenon
<1>2. \A m, n \in Nat : m < n => <<m, n>> \in R
  BY DEF OpToRel
<1> HIDE DEF R
<1>3. PICK x \in S : \A y \in S : ~ (<<y, x>> \in R)
  BY <1>1, WFMin, Zenon
<1>4. ASSUME NEW m \in S PROVE x <= m
  <2>1. ~ (m < x) /\ m \in Nat /\ x \in Nat
    BY <1>2, <1>3, Zenon
  <2> QED
    BY <2>1
<1> QED
  BY <1>4

\* Induction.
LEMMA SetInduction ==
    ASSUME NEW S \in SUBSET Nat, 0 \in S, \A n \in S : n + 1 \in S
    PROVE  S = Nat
<1> SUFFICES ASSUME Nat \ S # {} PROVE FALSE
  BY Zenon
<1>1. PICK n \in Nat \ S : \A m \in Nat \ S : n <= m
  BY LeastNatural, Zenon
<1>2. n # 0 /\ n - 1 \in Nat /\ n - 1 \in S
  BY <1>1
<1> QED
  BY <1>1, <1>2

\* The recursive function of Ancestry exists and satisfies its equation.
LEMMA AncestryFacts ==
    ASSUME NEW c, NEW parents, NEW k \in Nat
    PROVE  /\ Ancestry(c, parents, k)[0] = c
           /\ \A i \in 1..k : Ancestry(c, parents, k)[i] = parents[Ancestry(c, parents, k)[i - 1]]
<1> DEFINE Chain(f, n) == f = [i \in 0..n |-> IF i = 0 THEN c ELSE parents[f[i - 1]]]
           S == {n \in Nat : \E f : Chain(f, n)}
<1>1. 0 \in S
  <2>1. Chain([i \in 0..0 |-> c], 0)
    OBVIOUS
  <2> QED
    BY <2>1, Zenon
<1>2. ASSUME NEW n \in S PROVE n + 1 \in S
  <2>0. n \in Nat
    OBVIOUS
  <2>1. PICK f : Chain(f, n)
    OBVIOUS
  <2> DEFINE g == [i \in 0..(n + 1) |-> IF i = 0 THEN c ELSE parents[f[i - 1]]]
  <2>2. \A i \in 0..n : g[i] = f[i]
    BY <2>1
  <2>3. Chain(g, n + 1)
    <3>1. \A i \in 0..(n + 1) : i # 0 => i - 1 \in 0..n
      BY <2>0
    <3>2. \A i \in 0..(n + 1) : g[i] = IF i = 0 THEN c ELSE parents[g[i - 1]]
      BY <2>2, <3>1, Zenon
    <3> QED
      BY <3>2, Zenon
  <2> HIDE DEF g, Chain
  <2> QED
    BY <2>0, <2>3
<1>3. S = Nat
  <2> HIDE DEF S
  <2> QED
    BY <1>1, <1>2, SetInduction, Zenon DEF S
<1>4. \E f : Chain(f, k)
  BY <1>3, Zenon
<1>5. Chain(Ancestry(c, parents, k), k)
  BY <1>4, Zenon DEF Ancestry
<1> QED
  BY <1>5

-----------------------------------------------------------------------------

USE DEF T, Move, disk, locks, procs, reads, KeepRest, Job
\* Most leaves are first-order; those that need arithmetic or sequences name SMT.
USE ZenonT(20)

-----------------------------------------------------------------------------
(* What the steps do to CURRENT, to its flush and to the receipts.         *)

Begin(p) ==
    \/ \E t \in Txns : BeginExclusive(p, t) \/ BeginOptimistic(p, t)
    \/ \E k \in Policies : BeginCleanup(p, k)
    \/ Open(p)

\* Nothing but, perhaps, a flush of the root directory.
Unseen == UNCHANGED <<log, receipts, hasty>> /\ flushed' \in {flushed, Len(log)}

\* All steps of a writer but three leave CURRENT and the receipts alone.
LEMMA WriteUnseen ==
    ASSUME NEW p \in Procs, Write(p), ~ReplaceCurrent(p), ~Replay(p), ~Confirm(p)
    PROVE  Unseen
<1>1. CASE SyncWriter(p) \/ LockWriter(p) \/ WriterBusy(p) \/ LockTxn(p) \/ TxnBusy(p)
           \/ PinParent(p) \/ ParentCorrupt(p) \/ StartAfresh(p) \/ RefuseJournal(p)
  BY <1>1 DEF Unseen, SyncWriter, LockWriter, WriterBusy, LockTxn, TxnBusy, PinParent,
              ParentCorrupt, StartAfresh, RefuseJournal, Fail, FlushRoot
<1>2. CASE PrepareDirectory(p) \/ DirectoryExists(p) \/ StageParticipants(p) \/ Validate(p)
           \/ ValidateConflict(p) \/ ValidateRefuses(p) \/ Readmit(p) \/ SyncCommit(p)
           \/ WaitWriter(p) \/ CheckParent(p)
  BY <1>2 DEF Unseen, PrepareDirectory, DirectoryExists, StageParticipants, Validate,
              ValidateConflict, ValidateRefuses, Readmit, SyncCommit, WaitWriter, CheckParent,
              Fail, FlushRoot
<1>3. CASE AbortStale(p) \/ RemoveAttempt(p) \/ WriteManifest(p) \/ Promote(p)
           \/ RetireAttempt(p) \/ PromoteConflict(p) \/ WriteDurable(p) \/ ReplaceFails(p)
           \/ Acknowledge(p) \/ WritePublished(p)
  BY <1>3 DEF Unseen, AbortStale, RemoveAttempt, WriteManifest, Promote, RetireAttempt,
              PromoteConflict, WriteDurable, ReplaceFails, Acknowledge, WritePublished, Fail,
              FlushRoot
<1> QED
  BY <1>1, <1>2, <1>3 DEF Write

\* So do all steps of recovery and clean-up but the two that plan them.
LEMMA RecoverUnseen ==
    ASSUME NEW p \in Procs, Recover(p), ~PlanRecovery(p), ~PlanCleanup(p)
    PROVE  Unseen
<1>1. CASE SyncRecovery(p) \/ LockRecovery(p) \/ RecoveryBusy(p) \/ PlanCorrupt(p)
           \/ DeleteAttempt(p) \/ FinishRecovery(p)
  BY <1>1 DEF Unseen, SyncRecovery, LockRecovery, RecoveryBusy, PlanCorrupt, DeleteAttempt,
              FinishRecovery, Fail, FlushRoot
<1>2. CASE \/ \E t \in Txns : SkipLive(p, t) \/ RepairJournal(p, t) \/ RepairCorrupt(p, t)
                              \/ Abandon(p, t)
           \/ \E g \in Gens : TakeCandidate(p, g)
  BY <1>2 DEF Unseen, SkipLive, RepairJournal, RepairCorrupt, Abandon, TakeCandidate, Fail
<1>3. CASE DeleteFromTrash(p) \/ ProbeSkips(p) \/ ProbeIdle(p) \/ MoveToTrash(p) \/ DeleteMoved(p)
  BY <1>3 DEF Unseen, DeleteFromTrash, ProbeSkips, ProbeIdle, MoveToTrash, DeleteMoved, Keep, Fail
<1> QED
  BY <1>1, <1>2, <1>3 DEF Recover

\* Beginning a call, being killed and reading change none of it.
LEMMA OtherUnseen ==
    ASSUME \/ \E p \in Procs : Begin(p) \/ Crash(p)
           \/ \E r \in Readers : ReadProject(r)
    PROVE  Unseen
<1>1. CASE \E p \in Procs : Begin(p) \/ Crash(p)
  BY <1>1 DEF Unseen, Begin, BeginExclusive, BeginOptimistic, BeginCleanup, Open, Admit, Crash
<1>2. CASE \E r \in Readers : ReadProject(r)
  BY <1>2 DEF Unseen, ReadProject, ReadCurrent, OpenLease, LeaseMissing, ConfirmCurrent,
              ConfirmChanged, HoldByUuid, MissingByUuid, EndSnapshot, OpenByUuid, Go, KeepProject
<1> QED
  BY <1>1, <1>2

-----------------------------------------------------------------------------
(* What is durable.                                                        *)

InLog(g)   == \E i \in 1..Len(log) : log[i].gen = g
Durable(g) == \E i \in 1..flushed : log[i].gen = g

\* What a process knows of the history at its place.  It pinned its parent when CURRENT
\* named it, and the flush that every publication makes first has made the parent durable;
\* its own commit is durable once the root directory is flushed again.
DLocal(p) ==
    /\ pc[p] = "journal" => InLog(job[p].parent)
    /\ pc[p] \in Staging \ {"journal"} => Durable(job[p].parent)
    /\ pc[p] = "acknowledge" => InLog(T(p))
    /\ pc[p] \in {"published", "confirm"} => Durable(T(p))

\* The inductive invariant for AcknowledgedSurvives, beside IInv: every parent link, and
\* so every generation that recovery can reach from CURRENT, leads to a durable commit.
DInv ==
    /\ \A p \in Procs : DLocal(p)
    /\ \A g \in Gens \cup {None} : parentOf[g] = None \/ Durable(parentOf[g])
    /\ AcknowledgedSurvives

\* A step of p that loses nothing of the history.
Grows(p) ==
    /\ \A g : Durable(g) => Durable(g)'
    /\ \A g : InLog(g) => InLog(g)'
    /\ hasty => hasty'
    /\ Others(p)

\* Without a commit only the flush may advance.
LEMMA UnseenGrows ==
    ASSUME TypeOK, Unseen
    PROVE  /\ \A g : Durable(g) => Durable(g)'
           /\ \A g : InLog(g) => InLog(g)'
           /\ flushed' = Len(log) => \A g : InLog(g) => Durable(g)'
BY SMTT(30) DEF TypeOK, Unseen, Durable, InLog

\* What a step of p has to establish itself.
LEMMA DurableStep ==
    ASSUME IInv, DInv, NEW p \in Procs, Grows(p), DLocal(p)',
           \A g \in Gens \cup {None} : parentOf'[g] # parentOf[g] => Durable(parentOf[g])',
           \A t \in receipts' \ receipts : hasty' \/ Durable(t)',
           \A t \in Txns : /\ journal'[t].phase = "PUBLISHED"
                          /\ journal[t].phase # "PUBLISHED"
                          => hasty' \/ Durable(t)'
    PROVE  DInv'
<1>1. ASSUME NEW q \in Procs, q # p
      PROVE  DLocal(q)'
  <2>1. DLocal(q) /\ pc'[q] = pc[q] /\ job'[q] = job[q]
    BY <1>1 DEF DInv, Grows, Others
  <2> QED
    BY <2>1 DEF DLocal, Grows
<1>2. \A g \in Gens \cup {None} : parentOf'[g] = None \/ Durable(parentOf[g])'
  <2> SUFFICES ASSUME NEW g \in Gens \cup {None} PROVE parentOf'[g] = None \/ Durable(parentOf[g])'
    OBVIOUS
  <2>1. CASE parentOf'[g] = parentOf[g]
    <3>1. parentOf[g] = None \/ Durable(parentOf[g])
      BY DEF DInv
    <3> QED
      BY <2>1, <3>1 DEF Grows, Durable
  <2> QED
    BY <2>1
<1>3. AcknowledgedSurvives'
  <2> SUFFICES ASSUME ~hasty',
                      NEW t \in receipts' \cup {u \in Txns : journal'[u].phase = "PUBLISHED"}
               PROVE  Durable(t)'
    BY DEF AcknowledgedSurvives, Durable
  <2>1. ~hasty
    BY DEF Grows
  <2>2. t \in receipts \/ (t \in Txns /\ journal[t].phase = "PUBLISHED") => Durable(t)
    BY <2>1 DEF DInv, AcknowledgedSurvives, Durable
  <2> QED
    BY <2>2 DEF Grows
<1> QED
  BY <1>1, <1>2, <1>3 DEF DInv

\* The places where only the parent need be durable.
Ahead == Staging \ ({"journal"} \cup After)

\* Most steps only have to keep the parent.
Plain(p) ==
    /\ Unseen
    /\ Others(p)
    /\ parentOf' = parentOf
    /\ \A t \in Txns : journal'[t].phase = "PUBLISHED" => journal[t].phase = "PUBLISHED"
    /\ \/ pc'[p] \notin Staging
       \/ pc[p] \in Ahead /\ pc'[p] \in Ahead /\ job'[p] = job[p]

LEMMA PlainStep ==
    ASSUME IInv, DInv, NEW p \in Procs, Plain(p)
    PROVE  DInv'
<1>1. Grows(p)
  BY UnseenGrows DEF IInv, Plain, Grows, Unseen
<1>2. DLocal(p)
  BY DEF DInv
<1>3. DLocal(p)'
  BY <1>1, <1>2 DEF DLocal, Plain, Grows, Ahead, Staging, After
<1> QED
  BY <1>1, <1>3, DurableStep DEF Plain, Unseen

-----------------------------------------------------------------------------
(* Writers.                                                                *)

\* A journal that is written with another phase is not PUBLISHED.
LEMMA UnpublishedJournal ==
    ASSUME TypeOK, NEW t, NEW phase, NEW digest, phase # "PUBLISHED",
           WriteJournal(t, phase, digest)
    PROVE  \A u \in Txns : journal'[u].phase = "PUBLISHED" => journal[u].phase = "PUBLISHED"
BY DEF TypeOK, WriteJournal

\* Returning an error is plain.
LEMMA FailPlain ==
    ASSUME IInv, NEW p \in Procs, Fail(p)
    PROVE  Plain(p)
BY LeaveType DEF IInv, Fail, Plain, Unseen, Staging

\* A step that only moves on, writing no journal.
LEMMA MovePlain ==
    ASSUME IInv, NEW p \in Procs, NEW b, Move(p, b), UNCHANGED <<job, todo, journal, parentOf>>,
           Unseen, b \notin Staging \/ (pc[p] \in Ahead /\ b \in Ahead)
    PROVE  Plain(p)
BY DEF IInv, TypeOK, Plain, Others

\* The steps of a writer that write neither a manifest, CURRENT, a receipt nor a
\* PUBLISHED journal, after the parent is known to be durable.
LEMMA WritePlain ==
    ASSUME IInv, NEW p \in Procs, Write(p),
           ~(PinParent(p) \/ StartAfresh(p) \/ Replay(p) \/ WriteManifest(p) \/ Promote(p)),
           ~(ReplaceCurrent(p) \/ Acknowledge(p) \/ WritePublished(p) \/ Confirm(p))
    PROVE  Plain(p)
<1>0. Unseen
  BY WriteUnseen
<1>1. CASE WriterBusy(p) \/ TxnBusy(p) \/ ParentCorrupt(p) \/ DirectoryExists(p)
           \/ ValidateRefuses(p) \/ PromoteConflict(p) \/ ReplaceFails(p)
  BY <1>1, FailPlain DEF WriterBusy, TxnBusy, ParentCorrupt, DirectoryExists, ValidateRefuses,
                         PromoteConflict, ReplaceFails
<1>2. CASE SyncWriter(p) \/ LockWriter(p) \/ LockTxn(p) \/ Readmit(p) \/ SyncCommit(p)
           \/ WaitWriter(p)
  BY <1>0, <1>2, MovePlain DEF SyncWriter, LockWriter, LockTxn, Readmit, SyncCommit, WaitWriter,
                               Ahead, Staging, After
<1>3. CASE PrepareDirectory(p) \/ ValidateConflict(p) \/ CheckParent(p) \/ RetireAttempt(p)
  BY <1>0, <1>3, MovePlain DEF PrepareDirectory, ValidateConflict, CheckParent, RetireAttempt,
                               Ahead, Staging, After
<1>4. CASE StageParticipants(p) \/ Validate(p) \/ AbortStale(p) \/ WriteDurable(p)
  <2>1. \A u \in Txns : journal'[u].phase = "PUBLISHED" => journal[u].phase = "PUBLISHED"
    BY <1>4, UnpublishedJournal DEF IInv, StageParticipants, Validate, AbortStale, WriteDurable
  <2>2. PICK b : Move(p, b) /\ b \in Ahead
    <3>1. CASE StageParticipants(p)
      BY <3>1 DEF StageParticipants, Ahead, Staging, After
    <3>2. CASE Validate(p)
      <4>1. Move(p, "readmit") \/ Move(p, "manifest")
        BY <3>2 DEF Validate
      <4>2. "readmit" \in Ahead /\ "manifest" \in Ahead
        BY DEF Ahead, Staging, After
      <4> QED
        BY <4>1, <4>2
    <3>3. CASE AbortStale(p) \/ WriteDurable(p)
      BY <3>3 DEF AbortStale, WriteDurable, Ahead, Staging, After
    <3> QED
      BY <1>4, <3>1, <3>2, <3>3
  <2>3. pc[p] \in Ahead /\ UNCHANGED <<job, todo, parentOf>>
    BY <1>4 DEF StageParticipants, Validate, AbortStale, WriteDurable, Ahead, Staging, After
  <2> QED
    BY <1>0, <2>1, <2>2, <2>3 DEF IInv, TypeOK, Plain, Others
<1>5. CASE RefuseJournal(p) \/ RemoveAttempt(p)
  BY <1>0, <1>5, LeaveType DEF IInv, RefuseJournal, RemoveAttempt, Plain, Staging
<1> QED
  BY <1>1, <1>2, <1>3, <1>4, <1>5 DEF Write

\* The parent is pinned while CURRENT names it.
LEMMA PinDurable ==
    ASSUME IInv, DInv, NEW p \in Procs, PinParent(p)
    PROVE  DInv'
<1>1. Unseen /\ UNCHANGED <<parentOf, journal>>
  BY DEF PinParent, Unseen
<1>2. Others(p) /\ pc'[p] = "journal" /\ job'[p].parent = Current.gen
  BY DEF IInv, TypeOK, PinParent, Others
<1>3. Grows(p)
  BY <1>1, <1>2, UnseenGrows DEF IInv, Grows, Unseen
<1>4. InLog(Current.gen)
  BY SMTT(30) DEF IInv, TypeOK, InLog, Current
<1>5. DLocal(p)'
  BY <1>1, <1>2, <1>4 DEF DLocal, InLog, Unseen
<1> QED
  BY <1>1, <1>3, <1>5, DurableStep DEF Unseen

\* The flush before the first journal makes the parent durable.
LEMMA AfreshDurable ==
    ASSUME IInv, DInv, NEW p \in Procs, StartAfresh(p)
    PROVE  DInv'
<1>1. Unseen /\ flushed' = Len(log) /\ UNCHANGED <<parentOf, journal>>
  BY DEF StartAfresh, Unseen, FlushRoot
<1>2. Others(p) /\ pc'[p] = "prepare" /\ job'[p] = job[p]
  BY DEF IInv, TypeOK, StartAfresh, Others
<1>3. Grows(p)
  BY <1>1, <1>2, UnseenGrows DEF IInv, Grows, Unseen
<1>4. InLog(job[p].parent)
  BY DEF DInv, DLocal, StartAfresh
<1>5. Durable(job[p].parent)'
  BY <1>1, <1>2, <1>4, UnseenGrows DEF IInv, Durable
<1>6. DLocal(p)'
  BY <1>2, <1>5 DEF DLocal
<1> QED
  BY <1>1, <1>3, <1>6, DurableStep DEF Unseen

\* A replay answers for a journal that says PUBLISHED.
LEMMA ReplayDurable ==
    ASSUME IInv, DInv, NEW p \in Procs, Replay(p)
    PROVE  DInv'
<1>1. /\ UNCHANGED <<log, hasty, parentOf, journal>> /\ flushed' = Len(log)
      /\ receipts' = receipts \cup {T(p)}
  BY DEF Replay, FlushRoot
<1>2. Others(p) /\ pc'[p] = "idle"
  BY LeaveType DEF IInv, Replay
<1>3. \A g : InLog(g) => Durable(g)' /\ InLog(g)'
  BY <1>1 DEF InLog, Durable
<1>4. \A g : Durable(g) => InLog(g)
  BY SMTT(30) DEF IInv, TypeOK, InLog, Durable
<1>5. Grows(p)
  BY <1>1, <1>2, <1>3, <1>4 DEF Grows
<1>6. hasty \/ Durable(T(p))
  BY DEF IInv, Local, DInv, AcknowledgedSurvives, Replay, WritePlaces, Staging, Durable
<1>7. DLocal(p)'
  BY <1>2 DEF DLocal, Staging
<1> QED
  BY <1>1, <1>3, <1>4, <1>5, <1>6, <1>7, DurableStep

\* A manifest links to the durable parent.
LEMMA ManifestDurable ==
    ASSUME IInv, DInv, NEW p \in Procs, WriteManifest(p) \/ Promote(p)
    PROVE  DInv'
<1>1. Unseen /\ UNCHANGED journal /\ UNCHANGED <<job, todo>>
  BY DEF WriteManifest, Promote, Unseen
<1>2. PICK b \in Ahead : Move(p, b)
  BY DEF WriteManifest, Promote, Ahead, Staging, After
<1>3. Others(p) /\ pc'[p] \in Ahead /\ job'[p] = job[p]
  BY <1>1, <1>2 DEF IInv, TypeOK, Others
<1>4. Grows(p)
  BY <1>1, <1>3, UnseenGrows DEF IInv, Grows, Unseen
<1>5. Durable(job[p].parent)
  BY DEF DInv, DLocal, WriteManifest, Promote, Staging
<1>6. Durable(job[p].parent)'
  BY <1>3, <1>4, <1>5 DEF Grows, Durable
<1>7. DLocal(p)'
  BY <1>3, <1>6 DEF DLocal, Ahead, After
<1>8. \A g \in Gens \cup {None} : parentOf'[g] # parentOf[g] => parentOf'[g] = job[p].parent
  BY DEF IInv, TypeOK, WriteManifest, Promote
<1>9. \A g \in Gens \cup {None} : parentOf'[g] # parentOf[g] => Durable(parentOf[g])'
  BY <1>3, <1>6, <1>8 DEF Durable
<1> QED
  BY <1>1, <1>4, <1>7, <1>9, DurableStep DEF Unseen

\* The commit is in the log, to be flushed.
LEMMA CommitDurable ==
    ASSUME IInv, DInv, NEW p \in Procs, ReplaceCurrent(p)
    PROVE  DInv'
<1> DEFINE c == [gen |-> T(p), digest |-> job[p].parent]
<1>1. Len(log) \in Nat /\ flushed \in 1..Len(log) /\ log \in Seq(Currents)
  BY SMTT(30) DEF IInv, TypeOK
<1>2. /\ log' = Append(log, c) /\ Len(log') = Len(log) + 1
      /\ log'[Len(log) + 1] = c
      /\ \A i \in 1..Len(log) : log'[i] = log[i]
  BY <1>1, SMTT(30) DEF ReplaceCurrent
<1>3. UNCHANGED <<flushed, parentOf, journal, receipts, hasty, job, todo>>
  BY DEF ReplaceCurrent
<1>4. Others(p) /\ pc'[p] = "acknowledge" /\ job'[p] = job[p]
  BY DEF IInv, TypeOK, ReplaceCurrent, Others
<1>5. c.gen = T(p)
  OBVIOUS
<1> HIDE DEF c
<1>6. \A g : Durable(g) => Durable(g)'
  BY <1>1, <1>2, <1>3, SMTT(30) DEF Durable
<1>7. \A g : InLog(g) => InLog(g)'
  BY <1>1, <1>2, SMTT(30) DEF InLog
<1>8. InLog(T(p))'
  <2>1. log'[Len(log')].gen = T(p) /\ Len(log') \in 1..Len(log')
    BY <1>1, <1>2, <1>5, SMTT(30)
  <2> QED
    BY <1>4, <2>1 DEF InLog
<1>9. Durable(job[p].parent)
  BY DEF DInv, DLocal, ReplaceCurrent, Staging
<1>10. Durable(job[p].parent)'
  BY <1>1, <1>2, <1>3, <1>9, SMTT(30) DEF Durable
<1>11. DLocal(p)'
  BY <1>4, <1>8, <1>10 DEF DLocal
<1>12. Grows(p)
  BY <1>3, <1>4, <1>6, <1>7 DEF Grows
<1> QED
  BY <1>3, <1>11, <1>12, DurableStep

\* The flush of the root directory makes the commit durable.
LEMMA AcknowledgeDurable ==
    ASSUME IInv, DInv, NEW p \in Procs, Acknowledge(p)
    PROVE  DInv'
<1>1. Unseen /\ flushed' = Len(log) /\ UNCHANGED <<parentOf, journal>>
  BY DEF Acknowledge, Unseen, FlushRoot
<1>2. Others(p) /\ pc'[p] = "published" /\ job'[p] = job[p]
  BY DEF IInv, TypeOK, Acknowledge, Others
<1>3. Grows(p)
  BY <1>1, <1>2, UnseenGrows DEF IInv, Grows, Unseen
<1>4. InLog(T(p)) /\ Durable(job[p].parent)
  BY DEF DInv, DLocal, Acknowledge, Staging
<1>5. Durable(T(p))' /\ Durable(job[p].parent)'
  BY <1>1, <1>2, <1>4, SMTT(30) DEF IInv, TypeOK, Durable, InLog, Unseen
<1>6. DLocal(p)'
  BY <1>2, <1>5 DEF DLocal
<1> QED
  BY <1>1, <1>3, <1>6, DurableStep DEF Unseen

\* PUBLISHED is written for a durable commit.
LEMMA PublishedDurable ==
    ASSUME IInv, DInv, NEW p \in Procs, WritePublished(p)
    PROVE  DInv'
<1>1. Unseen /\ UNCHANGED parentOf
  BY DEF WritePublished, Unseen
<1>2. Others(p) /\ pc'[p] = "confirm" /\ job'[p] = job[p]
  BY DEF IInv, TypeOK, WritePublished, Others
<1>3. Grows(p)
  BY <1>1, <1>2, UnseenGrows DEF IInv, Grows, Unseen
<1>4. Durable(T(p)) /\ Durable(job[p].parent)
  BY DEF DInv, DLocal, WritePublished, Staging
<1>5. Durable(T(p))' /\ Durable(job[p].parent)'
  BY <1>1, <1>2, <1>3, <1>4 DEF Durable, Grows
<1>6. DLocal(p)'
  BY <1>2, <1>5 DEF DLocal
<1>7. \A t \in Txns : t # T(p) => journal'[t] = journal[t]
  BY DEF IInv, TypeOK, WritePublished, WriteJournal
<1>8. \A t \in Txns : t # T(p) \/ Durable(t)'
  BY <1>2, <1>5 DEF Durable
<1> QED
  BY <1>1, <1>3, <1>6, <1>7, <1>8, DurableStep DEF Unseen

\* The receipt is returned for a durable commit.
LEMMA ConfirmDurable ==
    ASSUME IInv, DInv, NEW p \in Procs, Confirm(p)
    PROVE  DInv'
<1>1. UNCHANGED <<log, flushed, hasty, parentOf, journal>> /\ receipts' \subseteq receipts \cup {T(p)}
  BY DEF Confirm
<1>2. Others(p) /\ pc'[p] = "idle"
  BY LeaveType DEF IInv, Confirm
<1>3. Durable(T(p))
  BY DEF DInv, DLocal, Confirm
<1>4. \A g : (Durable(g) => Durable(g)') /\ (InLog(g) => InLog(g)')
  BY <1>1 DEF InLog, Durable
<1>5. Grows(p)
  BY <1>1, <1>2, <1>4 DEF Grows
<1>6. DLocal(p)'
  BY <1>2 DEF DLocal, Staging
<1> QED
  BY <1>1, <1>3, <1>4, <1>5, <1>6, DurableStep

\* A writer's step.
LEMMA WriteDurableStep ==
    ASSUME IInv, DInv, NEW p \in Procs, Write(p)
    PROVE  DInv'
BY WritePlain, PlainStep, PinDurable, AfreshDurable, ReplayDurable, ManifestDurable,
   CommitDurable, AcknowledgeDurable, PublishedDurable, ConfirmDurable

-----------------------------------------------------------------------------
(* Recovery, clean-up and the other steps.                                 *)

\* What compute_reachable_generations() returns besides CURRENT is the target of parent
\* links.
LEMMA RetainedIsParent ==
    ASSUME IInv, NEW k \in Nat, NEW g \in Reachable(k), g # Current.gen
    PROVE  \E h \in Gens \cup {None} : parentOf[h] = g /\ g # None
<1> DEFINE a == Ancestry(Current.gen, parentOf, k)
<1>1. /\ a[0] = Current.gen
      /\ \A i \in 1..k : a[i] = parentOf[a[i - 1]]
  BY AncestryFacts, SMTT(30)
<1>2. PICK i \in 0..k : g = a[i] /\ g # None
  BY DEF Reachable, Retained
<1>3. i \in 1..k /\ parentOf[a[i - 1]] = g
  BY <1>1, <1>2, SMTT(30)
<1>4. Current.gen \in Gens
  <2>1. Current \in Currents
    BY SMTT(30) DEF IInv, TypeOK, Current
  <2> QED
    BY <2>1 DEF Currents
<1> HIDE DEF a
<1> DEFINE S == {n \in Nat : n <= k => a[n] \in Gens \cup {None}}
<1>5. \A n \in Nat : n <= k => a[n] \in Gens \cup {None}
  <2>1. 0 \in S
    BY <1>1, <1>4
  <2>2. ASSUME NEW n \in S PROVE n + 1 \in S
    <3>1. n + 1 <= k => a[n + 1] = parentOf[a[n]] /\ a[n] \in Gens \cup {None}
      BY <1>1, SMTT(30)
    <3> QED
      BY <3>1, SMTT(30) DEF IInv, TypeOK
  <2>3. S \in SUBSET Nat
    OBVIOUS
  <2> HIDE DEF S
  <2>4. S = Nat
    BY <2>1, <2>2, <2>3, SetInduction
  <2> QED
    BY <2>4 DEF S
<1> QED
  BY <1>2, <1>3, <1>5, SMTT(30)

\* Recovery repairs a journal only for what is durable: it relies on a CURRENT that is
\* flushed, unless it was hasty, and an ancestor is durable in any case.
LEMMA RepairDurable ==
    ASSUME IInv, DInv, NEW p \in Procs, NEW t \in Txns, RepairJournal(p, t)
    PROVE  DInv'
<1>1. Unseen /\ UNCHANGED <<parentOf, pc, job>>
  BY DEF RepairJournal, Done, Unseen
<1>2. Others(p) /\ pc'[p] = "recoverNext"
  BY DEF IInv, TypeOK, RepairJournal, Done, Others
<1>3. Grows(p)
  BY <1>1, <1>2, UnseenGrows DEF IInv, Grows, Unseen
<1>4. DLocal(p)'
  BY <1>2 DEF DLocal, Staging
<1>5. \A u \in Txns : u # t => journal'[u] = journal[u]
  BY DEF IInv, TypeOK, RepairJournal, WriteJournal
<1>6. hasty \/ Durable(t)
  <2>1. job[p].keep \in Nat /\ (hasty \/ flushed = Len(log))
    BY DEF IInv, TypeOK, Jobs, Local, RepairJournal, Planned
  <2>2. CASE t = Current.gen
    BY <2>1, <2>2 DEF IInv, TypeOK, Durable, Current
  <2>3. CASE t # Current.gen
    <3>1. PICK h \in Gens \cup {None} : parentOf[h] = t /\ t # None
      BY <2>1, <2>3, RetainedIsParent DEF RepairJournal
    <3> QED
      BY <3>1 DEF DInv
  <2> QED
    BY <2>2, <2>3
<1> QED
  BY <1>1, <1>3, <1>4, <1>5, <1>6, DurableStep DEF Unseen, Grows

\* All other steps of recovery and clean-up only have to leave journals unpublished.
LEMMA RecoverDurable ==
    ASSUME IInv, DInv, NEW p \in Procs, Recover(p)
    PROVE  DInv'
<1>1. CASE RecoveryBusy(p) \/ PlanCorrupt(p) \/ FinishRecovery(p)
           \/ \E t \in Txns : RepairCorrupt(p, t)
  BY <1>1, FailPlain, PlainStep DEF RecoveryBusy, PlanCorrupt, FinishRecovery, RepairCorrupt
<1>2. CASE SyncRecovery(p) \/ LockRecovery(p) \/ DeleteAttempt(p)
  <2>1. Unseen
    BY <1>2 DEF SyncRecovery, LockRecovery, DeleteAttempt, Unseen, FlushRoot
  <2>2. UNCHANGED <<job, todo, journal, parentOf>>
    BY <1>2 DEF SyncRecovery, LockRecovery, DeleteAttempt
  <2>3. PICK b : Move(p, b) /\ b \notin Staging
    BY <1>2, SMTT(30) DEF SyncRecovery, LockRecovery, DeleteAttempt, Staging
  <2>4. Plain(p)
    BY <2>1, <2>2, <2>3 DEF IInv, TypeOK, Plain, Others
  <2> QED
    BY <2>4, PlainStep
<1>3. CASE DeleteFromTrash(p) \/ ProbeSkips(p) \/ ProbeIdle(p) \/ MoveToTrash(p) \/ DeleteMoved(p)
  <2>1. CASE Fail(p)
    BY <2>1, FailPlain, PlainStep
  <2>2. CASE ~Fail(p)
    <3>1. UNCHANGED <<log, flushed, receipts, hasty, job, todo, journal, parentOf>>
      BY <1>3, <2>2 DEF DeleteFromTrash, ProbeSkips, ProbeIdle, MoveToTrash, DeleteMoved, Keep
    <3>2. PICK b : Move(p, b) /\ b \notin Staging
      BY <1>3, <2>2, SMTT(30) DEF DeleteFromTrash, ProbeSkips, ProbeIdle, MoveToTrash, DeleteMoved, Keep,
                        NextPlace, Staging
    <3>3. Plain(p)
      BY <3>1, <3>2 DEF IInv, TypeOK, Plain, Others, Unseen
    <3> QED
      BY <3>3, PlainStep
  <2> QED
    BY <2>1, <2>2
<1>4. ASSUME NEW t \in Txns, SkipLive(p, t) \/ Abandon(p, t)
      PROVE  DInv'
  <2>1. Unseen /\ UNCHANGED parentOf
    BY <1>4 DEF SkipLive, Abandon, Unseen
  <2>2. Others(p) /\ pc'[p] \notin Staging
    BY <1>4 DEF IInv, TypeOK, SkipLive, Abandon, Done, Take, Others, Staging
  <2>3. \A u \in Txns : journal'[u].phase = "PUBLISHED" => journal[u].phase = "PUBLISHED"
    BY <1>4, UnpublishedJournal DEF IInv, SkipLive, Abandon
  <2> QED
    BY <2>1, <2>2, <2>3, PlainStep DEF Plain
<1>5. ASSUME NEW g \in Gens, TakeCandidate(p, g)
      PROVE  DInv'
  <2>1. Unseen /\ UNCHANGED <<parentOf, journal>>
    BY <1>5 DEF TakeCandidate, Unseen
  <2>2. Others(p) /\ pc'[p] \notin Staging
    BY <1>5 DEF IInv, TypeOK, TakeCandidate, Others, Staging
  <2> QED
    BY <2>1, <2>2, PlainStep DEF Plain
<1>6. CASE PlanRecovery(p) \/ PlanCleanup(p)
  <2>0. hasty => hasty'
    BY <1>6 DEF PlanRecovery, PlanCleanup
  <2>1. UNCHANGED <<log, flushed, receipts, parentOf, journal>>
    BY <1>6 DEF PlanRecovery, PlanCleanup
  <2>2. Others(p) /\ pc'[p] \notin Staging
    BY <1>6 DEF IInv, TypeOK, PlanRecovery, PlanCleanup, Others, Staging
  <2>3. Grows(p)
    BY <2>0, <2>1, <2>2 DEF Grows, Durable, InLog
  <2>4. DLocal(p)'
    BY <2>2 DEF DLocal, Staging
  <2> QED
    BY <2>1, <2>3, <2>4, DurableStep
<1> QED
  BY <1>1, <1>2, <1>3, <1>4, <1>5, <1>6, RepairDurable DEF Recover

\* A loss of power takes nothing that is durable, and every process begins anew.
LEMMA PowerLossDurable ==
    ASSUME IInv, DInv, PowerLoss
    PROVE  DInv'
<1>1. PICK n \in flushed..Len(log) : log' = SubSeq(log, 1, n) /\ flushed' = n
  BY DEF PowerLoss
<1>2. \A i \in 1..flushed : log'[i] = log[i] /\ i \in 1..flushed'
  BY <1>1, SMTT(30) DEF IInv, TypeOK
<1>3. \A g : Durable(g) => Durable(g)'
  BY <1>2 DEF Durable
<1>4. \A p \in Procs : DLocal(p)'
  BY DEF PowerLoss, DLocal, Staging
<1>5. UNCHANGED <<parentOf, journal, receipts, hasty>>
  BY DEF PowerLoss
<1>6. \A g \in Gens \cup {None} : parentOf'[g] = None \/ Durable(parentOf[g])'
  <2> SUFFICES ASSUME NEW g \in Gens \cup {None} PROVE parentOf'[g] = None \/ Durable(parentOf[g])'
    OBVIOUS
  <2>1. parentOf[g] = None \/ Durable(parentOf[g])
    BY DEF DInv
  <2> QED
    BY <1>2, <1>5, <2>1 DEF Durable
<1>7. AcknowledgedSurvives'
  BY <1>2, <1>5 DEF DInv, AcknowledgedSurvives
<1> QED
  BY <1>4, <1>6, <1>7 DEF DInv

\* Nothing is acknowledged at the start.
LEMMA InitDurable == Init => DInv
<1> SUFFICES ASSUME Init PROVE DInv
  OBVIOUS
<1>1. \A p \in Procs : DLocal(p)
  BY DEF Init, DLocal, Staging
<1>2. \A g \in Gens \cup {None} : parentOf[g] = None
  BY DEF Init
<1>3. AcknowledgedSurvives
  BY DEF Init, AcknowledgedSurvives
<1> QED
  BY <1>1, <1>2, <1>3 DEF DInv

\* DInv is an invariant.
THEOREM Durability == Spec => []DInv
<1>1. IInv /\ DInv /\ [Next]_vars => DInv'
  <2> SUFFICES ASSUME IInv, DInv, [Next]_vars PROVE DInv'
    OBVIOUS
  <2>1. CASE UNCHANGED vars
    BY <2>1 DEF vars, DInv, DLocal, InLog, Durable, AcknowledgedSurvives
  <2>2. ASSUME NEW p \in Procs, Begin(p)
        PROVE  DInv'
    <3>1. Unseen /\ UNCHANGED <<parentOf, journal>>
      BY <2>2 DEF Begin, BeginExclusive, BeginOptimistic, BeginCleanup, Open, Admit, Unseen
    <3>2. Others(p) /\ pc'[p] \notin Staging
      BY <2>2, SMTT(30) DEF IInv, TypeOK, Begin, BeginExclusive, BeginOptimistic, BeginCleanup, Open, Admit,
                  Others, Staging
    <3> QED
      BY <3>1, <3>2, PlainStep DEF Plain
  <2>3. ASSUME NEW p \in Procs, Crash(p)
        PROVE  DInv'
    <3>1. Plain(p)
      BY <2>3, LeaveType DEF IInv, Crash, Plain, Unseen, Staging
    <3> QED
      BY <3>1, PlainStep
  <2>4. ASSUME NEW r \in Readers, ReadProject(r)
        PROVE  DInv'
    <3>1. UNCHANGED <<log, flushed, receipts, hasty, parentOf, journal, pc, job>>
      BY <2>4 DEF ReadProject, ReadCurrent, OpenLease, LeaseMissing, ConfirmCurrent,
                  ConfirmChanged, HoldByUuid, MissingByUuid, EndSnapshot, OpenByUuid, Go, KeepProject
    <3> QED
      BY <3>1 DEF DInv, DLocal, InLog, Durable, AcknowledgedSurvives
  <2> QED
    BY <2>1, <2>2, <2>3, <2>4, WriteDurableStep, RecoverDurable, PowerLossDurable DEF Next, Begin
<1> QED
  BY Invariance, InitDurable, <1>1, PTL DEF Spec

\* A transaction whose receipt was returned, or whose journal says PUBLISHED, is never
\* taken back by a kill or a loss of power, for any number of writers and crashes, unless
\* a recovery or clean-up relied on an unflushed CURRENT.
THEOREM AcknowledgedStays == Spec => []AcknowledgedSurvives
<1>1. DInv => AcknowledgedSurvives
  BY DEF DInv
<1> QED
  BY Durability, <1>1, PTL

-----------------------------------------------------------------------------
(* The project implements AtomicProject.                                   *)

\* Every step is a step of AtomicProject or changes nothing it talks about.
LEMMA AtomicStep ==
    ASSUME IInv, DInv, [Next]_vars
    PROVE  [Atomic!ANext]_(Atomic!state)
<1>1. ASSUME Unseen
      PROVE  [Atomic!ANext]_(Atomic!state)
  BY <1>1 DEF Unseen, Atomic!ANext, Atomic!Flush, Atomic!state
<1>2. CASE UNCHANGED vars
  BY <1>2 DEF vars, Atomic!state
<1>3. ASSUME NEW p \in Procs, ReplaceCurrent(p)
      PROVE  Atomic!ANext
  <2>1. T(p) \in Txns /\ job[p].parent = log[Len(log)].gen
    BY <1>3 DEF IInv, Local, ReplaceCurrent, WritePlaces, Staging, Builds, Late, Current
  <2>2. Atomic!Commit(T(p))
    BY <1>3, <2>1 DEF ReplaceCurrent, Atomic!Commit
  <2> QED
    BY <2>1, <2>2 DEF Atomic!ANext
<1>4. ASSUME NEW p \in Procs, Replay(p)
      PROVE  Atomic!ANext
  <2>1. T(p) \in Txns
    BY <1>4 DEF IInv, Local, Replay, WritePlaces, Staging
  <2>2. hasty \/ Durable(T(p))
    BY <1>4, <2>1 DEF DInv, AcknowledgedSurvives, Replay, Durable
  <2>3. hasty \/ \E i \in 1..Len(log) : log[i].gen = T(p)
    BY <2>2, SMTT(30) DEF IInv, TypeOK, Durable
  <2>4. Atomic!Answer(T(p))
    BY <1>4, <2>3 DEF Replay, FlushRoot, Atomic!Answer
  <2> QED
    BY <2>1, <2>4 DEF Atomic!ANext
<1>5. ASSUME NEW p \in Procs, Confirm(p)
      PROVE  [Atomic!ANext]_(Atomic!state)
  <2>1. T(p) \in Txns /\ Durable(T(p))
    BY <1>5 DEF IInv, Local, DInv, DLocal, Confirm, WritePlaces, Staging
  <2>2. CASE receipts' = receipts
    BY <1>5, <2>2 DEF Confirm, Atomic!state
  <2>3. CASE receipts' = receipts \cup {T(p)}
    <3>1. Atomic!Answer(T(p))
      BY <1>5, <2>1, <2>3 DEF Confirm, Durable, Atomic!Answer
    <3> QED
      BY <2>1, <3>1 DEF Atomic!ANext
  <2> QED
    BY <1>5, <2>2, <2>3 DEF Confirm
<1>6. ASSUME NEW p \in Procs, PlanRecovery(p) \/ PlanCleanup(p)
      PROVE  [Atomic!ANext]_(Atomic!state)
  <2>1. UNCHANGED <<log, flushed, receipts>>
    BY <1>6 DEF PlanRecovery, PlanCleanup
  <2>2. hasty' = (hasty \/ flushed < Len(log)) /\ hasty \in BOOLEAN
    BY <1>6 DEF IInv, TypeOK, PlanRecovery, PlanCleanup
  <2>3. CASE flushed < Len(log)
    <3>1. hasty' = TRUE
      BY <2>2, <2>3
    <3>2. Atomic!Trust
      BY <2>1, <2>3, <3>1 DEF Atomic!Trust
    <3> QED
      BY <3>2 DEF Atomic!ANext
  <2>4. CASE ~(flushed < Len(log))
    <3>1. hasty' = hasty
      BY <2>2, <2>4
    <3> QED
      BY <2>1, <3>1 DEF Atomic!state
  <2> QED
    BY <2>3, <2>4
<1>7. CASE PowerLoss
  <2>1. Atomic!LoseTail
    BY <1>7 DEF PowerLoss, Atomic!LoseTail
  <2> QED
    BY <2>1 DEF Atomic!ANext
<1> QED
  BY <1>1, <1>2, <1>3, <1>4, <1>5, <1>6, <1>7, WriteUnseen, RecoverUnseen, OtherUnseen
  DEF Next, Begin

\* Writers, retries, recovery, clean-up, kills and power losses together are a project
\* whose commits form one chain and whose answers are given for what is durable: the
\* refinement that a run checks on one process, for any number of everything.
THEOREM Refinement == Spec => ImplementsAtomicProject
<1>1. Init => Atomic!AInit
  BY DEF Init, Atomic!AInit
<1>2. IInv /\ DInv /\ [Next]_vars => [Atomic!ANext]_(Atomic!state)
  BY AtomicStep
<1> QED
  BY Invariance, Durability, <1>1, <1>2, PTL DEF Spec, ImplementsAtomicProject, Atomic!ASpec

-----------------------------------------------------------------------------
(* One attempt at a time.                                                  *)

\* What a process knows of its locks.  An optimistic attempt keeps the lock of its
\* transaction and an exclusive one writer.lock from before it pins its parent.
MLocal(p) ==
    /\ pc[p] \in {"syncWriter", "lockWriter"} => T(p) \in Exclusive /\ ~job[p].optimistic
    /\ pc[p] = "lockTxn" => T(p) \in Optimistic
    /\ pc[p] \in {"resolve"} \cup Staging =>
           IF job[p].optimistic THEN T(p) \in Optimistic /\ txnLock[T(p)] = p
                                ELSE T(p) \in Exclusive /\ writer = p

MInv == \A p \in Procs : MLocal(p)

\* Steps that leave the locks of the others alone.
LEMMA ModeStep ==
    ASSUME IInv, MInv, NEW p \in Procs, Others(p), MLocal(p)',
           \A q \in Procs \ {p} : writer = q => writer' = q,
           \A q \in Procs \ {p} : \A t \in Txns : txnLock[t] = q => txnLock'[t] = q
    PROVE  MInv'
<1> SUFFICES ASSUME NEW q \in Procs, q # p PROVE MLocal(q)'
  BY DEF MInv
<1>1. MLocal(q) /\ Local(q) /\ pc'[q] = pc[q] /\ job'[q] = job[q]
  BY DEF IInv, MInv, Others
<1>2. pc[q] \in {"resolve"} \cup Staging => T(q) \in Txns
  BY <1>1 DEF Local, WritePlaces
<1>3. q \in Procs \ {p}
  OBVIOUS
<1>4. /\ writer = q => writer' = q
      /\ \A t \in Txns : txnLock[t] = q => txnLock'[t] = q
  BY <1>3
<1>5. T(q) \in Txns => (txnLock[T(q)] = q => txnLock'[T(q)] = q)
  BY <1>4
<1> QED
  BY <1>1, <1>2, <1>4, <1>5 DEF MLocal

\* Whoever leaves drops locks of its own only.
LEMMA LeaveMode ==
    ASSUME IInv, MInv, NEW p \in Procs, Leave(p)
    PROVE  MInv'
<1>1. Others(p) /\ pc'[p] = "idle"
  BY LeaveType DEF IInv
<1>2. MLocal(p)'
  BY <1>1 DEF MLocal, Staging
<1>3. \A q \in Procs \ {p} : writer = q => writer' = q
  BY DEF Leave, Release
<1>4. \A q \in Procs \ {p} : \A t \in Txns : txnLock[t] = q => txnLock'[t] = q
  BY DEF Leave, Release
<1> QED
  BY <1>1, <1>2, <1>3, <1>4, ModeStep

\* A step from place to place that keeps locks and job.
LEMMA MoveMode ==
    ASSUME IInv, MInv, NEW p \in Procs, Others(p), job'[p] = job[p],
           writer' = writer, txnLock' = txnLock,
           \/ pc'[p] \in {"resolve"} \cup Staging /\ pc[p] \in {"resolve"} \cup Staging
           \/ pc'[p] = "lockWriter" /\ pc[p] = "syncWriter"
    PROVE  MInv'
<1>1. MLocal(p)
  BY DEF MInv
<1>2. MLocal(p)'
  BY <1>1 DEF MLocal, Staging
<1> QED
  BY <1>2, ModeStep

\* Writers.
LEMMA WriteMode ==
    ASSUME IInv, MInv, NEW p \in Procs, Write(p)
    PROVE  MInv'
<1>0. MLocal(p) /\ Local(p)
  BY DEF MInv, IInv
<1>1. CASE WriterBusy(p) \/ TxnBusy(p) \/ ParentCorrupt(p) \/ DirectoryExists(p)
           \/ ValidateRefuses(p) \/ PromoteConflict(p) \/ ReplaceFails(p)
           \/ Replay(p) \/ RefuseJournal(p) \/ RemoveAttempt(p) \/ Confirm(p)
  BY <1>1, LeaveMode DEF WriterBusy, TxnBusy, ParentCorrupt, DirectoryExists, ValidateRefuses,
                         PromoteConflict, ReplaceFails, Fail, Replay, RefuseJournal,
                         RemoveAttempt, Confirm
<1>2. CASE SyncWriter(p) \/ StartAfresh(p) \/ PrepareDirectory(p) \/ StageParticipants(p)
           \/ Validate(p) \/ ValidateConflict(p) \/ SyncCommit(p) \/ CheckParent(p)
           \/ AbortStale(p)
  <2>1. job' = job /\ todo' = todo /\ writer' = writer /\ txnLock' = txnLock
    BY <1>2 DEF SyncWriter, StartAfresh, PrepareDirectory, StageParticipants, Validate,
                ValidateConflict, SyncCommit, CheckParent, AbortStale
  <2>2. PICK b : /\ pc' = [pc EXCEPT ![p] = b]
                 /\ \/ b \in {"resolve"} \cup Staging /\ pc[p] \in {"resolve"} \cup Staging
                    \/ b = "lockWriter" /\ pc[p] = "syncWriter"
    BY <1>2 DEF SyncWriter, StartAfresh, PrepareDirectory, StageParticipants, Validate,
                ValidateConflict, SyncCommit, CheckParent, AbortStale, Staging
  <2>3. Others(p) /\ pc'[p] = b
    BY <2>1, <2>2 DEF IInv, TypeOK, Others
  <2> QED
    BY <2>1, <2>2, <2>3, MoveMode
<1>3. CASE WriteManifest(p) \/ Promote(p) \/ RetireAttempt(p) \/ WriteDurable(p)
           \/ ReplaceCurrent(p) \/ Acknowledge(p) \/ WritePublished(p)
  <2>1. job' = job /\ todo' = todo /\ writer' = writer /\ txnLock' = txnLock
    BY <1>3 DEF WriteManifest, Promote, RetireAttempt, WriteDurable, ReplaceCurrent, Acknowledge,
                WritePublished
  <2>2. PICK b : /\ pc' = [pc EXCEPT ![p] = b]
                 /\ b \in Staging /\ pc[p] \in Staging
    BY <1>3 DEF WriteManifest, Promote, RetireAttempt, WriteDurable, ReplaceCurrent, Acknowledge,
                WritePublished, Staging
  <2>3. Others(p) /\ pc'[p] = b
    BY <2>1, <2>2 DEF IInv, TypeOK, Others
  <2> QED
    BY <2>1, <2>2, <2>3, MoveMode
<1>4. CASE LockWriter(p) \/ WaitWriter(p)
  <2>1. Others(p) /\ pc'[p] \in {"resolve", "checkParent"} /\ job'[p] = job[p]
    BY <1>4 DEF IInv, TypeOK, LockWriter, WaitWriter, Others
  <2>2. writer = None /\ writer' = p /\ txnLock' = txnLock
    BY <1>4 DEF LockWriter, WaitWriter
  <2>3. MLocal(p)'
    BY <1>0, <1>4, <2>1, <2>2 DEF MLocal, Staging, LockWriter, WaitWriter
  <2> QED
    BY <2>1, <2>2, <2>3, ModeStep, StoreAssumption
<1>5. CASE LockTxn(p)
  <2>1. /\ Others(p) /\ pc'[p] = "resolve" /\ job'[p] = job[p] /\ writer' = writer
        /\ T(p) \in Txns /\ job[p].optimistic
    BY <1>0, <1>5 DEF IInv, TypeOK, Local, LockTxn, Others, WritePlaces, OnlyOptimistic
  <2>2. txnLock[T(p)] = None /\ txnLock'[T(p)] = p /\ \A t \in Txns : t # T(p) => txnLock'[t] = txnLock[t]
    BY <1>5, <2>1 DEF IInv, TypeOK, LockTxn
  <2>3. MLocal(p)'
    BY <1>0, <1>5, <2>1, <2>2 DEF MLocal, Staging, LockTxn
  <2> QED
    BY <2>1, <2>2, <2>3, ModeStep, StoreAssumption, SMTT(30)
<1>6. CASE PinParent(p)
  <2>1. /\ Others(p) /\ pc'[p] = "journal" /\ UNCHANGED <<writer, txnLock>>
        /\ job'[p].txn = T(p) /\ job'[p].optimistic = job[p].optimistic
    BY <1>6 DEF IInv, TypeOK, PinParent, Others
  <2>2. MLocal(p)'
    BY <1>0, <1>6, <2>1 DEF MLocal, Staging, PinParent
  <2> QED
    BY <2>1, <2>2, ModeStep
<1>7. CASE Readmit(p)
  <2>1. job' = job /\ todo' = todo /\ writer' = writer /\ txnLock' = txnLock
    BY <1>7 DEF Readmit
  <2>2. Others(p) /\ pc'[p] = "syncCommit" /\ pc[p] = "readmit"
    BY <1>7 DEF IInv, TypeOK, Readmit, Others
  <2> QED
    BY <2>1, <2>2, MoveMode DEF Staging
<1> QED
  BY <1>1, <1>2, <1>3, <1>4, <1>5, <1>6, <1>7 DEF Write

\* Recovery and clean-up.
LEMMA RecoverMode ==
    ASSUME IInv, MInv, NEW p \in Procs, Recover(p)
    PROVE  MInv'
<1>1. CASE Fail(p)
  BY <1>1, LeaveMode DEF Fail
<1>2. CASE ~Fail(p)
  <2>1. /\ pc'[p] \in Recovering \cup Cleaning
        /\ Others(p)
        /\ txnLock' = txnLock
        /\ writer' = writer \/ writer = None
    <3>1. CASE SyncRecovery(p) \/ LockRecovery(p) \/ PlanRecovery(p) \/ PlanCleanup(p)
               \/ DeleteAttempt(p)
      BY <3>1 DEF IInv, TypeOK, SyncRecovery, LockRecovery, PlanRecovery, PlanCleanup,
                  DeleteAttempt, Others, Recovering, Cleaning
    <3>2. CASE DeleteFromTrash(p) \/ ProbeSkips(p) \/ ProbeIdle(p) \/ MoveToTrash(p)
               \/ DeleteMoved(p)
      <4>1. PICK b \in Recovering \cup Cleaning : Move(p, b)
        BY <1>2, <3>2 DEF DeleteFromTrash, ProbeSkips, ProbeIdle, MoveToTrash, DeleteMoved, Keep,
                          NextPlace, Recovering, Cleaning
      <4>2. UNCHANGED <<job, todo, writer, txnLock>>
        BY <1>2, <3>2 DEF DeleteFromTrash, ProbeSkips, ProbeIdle, MoveToTrash, DeleteMoved, Keep
      <4> QED
        BY <4>1, <4>2 DEF IInv, TypeOK, Others
    <3>3. CASE \E t \in Txns : SkipLive(p, t) \/ RepairJournal(p, t)
      BY <3>3 DEF IInv, TypeOK, SkipLive, RepairJournal, Done, Others, Recovering, Cleaning
    <3>4. CASE \E t \in Txns : Abandon(p, t)
      BY <3>4 DEF IInv, TypeOK, Abandon, Take, Others, Recovering, Cleaning
    <3>5. CASE \E g \in Gens : TakeCandidate(p, g)
      BY <3>5 DEF IInv, TypeOK, TakeCandidate, Others, Recovering, Cleaning
    <3> QED
      BY <1>2, <3>1, <3>2, <3>3, <3>4, <3>5 DEF Recover, RecoveryBusy, PlanCorrupt, FinishRecovery,
                                    RepairCorrupt
  <2>2. MLocal(p)'
    BY <2>1 DEF MLocal, Staging, Recovering, Cleaning
  <2> QED
    BY <2>1, <2>2, ModeStep, StoreAssumption
<1> QED
  BY <1>1, <1>2

\* MInv is an invariant.
THEOREM AttemptsExclude == Spec => []MInv
<1>1. Init => MInv
  BY DEF Init, MInv, MLocal, Staging
<1>2. IInv /\ MInv /\ [Next]_vars => MInv'
  <2> SUFFICES ASSUME IInv, MInv, [Next]_vars PROVE MInv'
    OBVIOUS
  <2>1. CASE UNCHANGED vars
    BY <2>1 DEF vars, MInv, MLocal
  <2>2. ASSUME NEW p \in Procs, Begin(p)
        PROVE  MInv'
    <3>1. UNCHANGED <<writer, txnLock>>
      BY <2>2 DEF Begin, BeginExclusive, BeginOptimistic, BeginCleanup, Open, Admit
    <3>2. Others(p)
      BY <2>2 DEF IInv, TypeOK, Begin, BeginExclusive, BeginOptimistic, BeginCleanup, Open, Admit,
                  Others
    <3>3. MLocal(p)'
      BY <2>2, SMTT(30) DEF IInv, TypeOK, Begin, BeginExclusive, BeginOptimistic, BeginCleanup, Open, Admit,
                  MLocal, Staging
    <3> QED
      BY <3>1, <3>2, <3>3, ModeStep
  <2>3. ASSUME NEW p \in Procs, Crash(p)
        PROVE  MInv'
    BY <2>3, LeaveMode DEF Crash
  <2>4. ASSUME NEW r \in Readers, ReadProject(r)
        PROVE  MInv'
    <3>1. UNCHANGED <<pc, job, writer, txnLock>>
      BY <2>4 DEF ReadProject, ReadCurrent, OpenLease, LeaseMissing, ConfirmCurrent,
                  ConfirmChanged, HoldByUuid, MissingByUuid, EndSnapshot, OpenByUuid, Go, KeepProject
    <3> QED
      BY <3>1 DEF MInv, MLocal
  <2>5. CASE PowerLoss
    BY <2>5 DEF PowerLoss, MInv, MLocal, Staging
  <2> QED
    BY <2>1, <2>2, <2>3, <2>4, <2>5, WriteMode, RecoverMode DEF Next, Begin
<1> QED
  BY Invariance, <1>1, <1>2, PTL DEF Spec

\* Each transaction is always staged in the same mode.
OneMode == Exclusive \cap Optimistic = {}

\* Then no two attempts of one transaction are under way.
LEMMA DistinctAttempts ==
    ASSUME OneMode, MInv, NEW p \in Procs, NEW q \in Procs, p # q,
           pc[p] \in Staging, pc[q] \in Staging
    PROVE  T(p) # T(q)
BY DEF OneMode, MInv, MLocal

-----------------------------------------------------------------------------
(* The window.                                                             *)

\* The positions that the default retention keeps for some value of CURRENT a power loss
\* may leave.
Kept == {i \in 1..Len(log) : flushed <= i + RetainedAncestors}

InWindow(g) == \E i \in Kept : log[i].gen = g

Matches(entry, digest) == entry.phase \in {"DURABLE", "PUBLISHED"} /\ entry.digest = digest

\* What a process knows of the window at its place: its transaction is not in it before
\* the commit and is its last element after it.
WLocal(p) ==
    /\ pc[p] \in Recovering => job[p].keep = RetainedAncestors
    /\ pc[p] \in Ahead => hasty \/ ~InWindow(T(p))
    /\ pc[p] \in After => /\ Current = [gen |-> T(p), digest |-> job[p].parent]
                          /\ hasty \/ \A i \in Kept : log[i].gen = T(p) => i = Len(log)
    /\ pc[p] = "replace" => journal[T(p)] = [phase |-> "DURABLE", digest |-> job[p].parent]

Linked(i) ==
    /\ parentOf[log[i].gen] = log[i].digest
    /\ log[i].gen # Root => Matches(journal[log[i].gen], log[i].digest)

\* The inductive invariant for RetainedJournalsMatch, beside IInv and MInv.
WInv ==
    /\ \A p \in Procs : WLocal(p)
    /\ hasty \/ \A i \in Kept : Linked(i)

\* Kept is what the property talks about.
LEMMA KeptIsWindow ==
    ASSUME TypeOK, NEW n \in flushed..Len(log), NEW i \in Window(n)
    PROVE  i \in Kept
BY StoreAssumption, SMTT(30) DEF TypeOK, Window, Kept

LEMMA WindowImplies ==
    ASSUME TypeOK, WInv
    PROVE  RetainedJournalsMatch
BY KeptIsWindow DEF WInv, RetainedJournalsMatch, Linked, Matches

\* The generations of the window are what compute_reachable_generations() returns for
\* CURRENT, when it is flushed.
LEMMA WindowReachable ==
    ASSUME IInv, WInv, ~hasty, flushed = Len(log), NEW i \in Kept
    PROVE  log[i].gen \in Reachable(RetainedAncestors)
<1> DEFINE a == Ancestry(Current.gen, parentOf, RetainedAncestors)
           L == Len(log)
           S == {n \in Nat : n <= RetainedAncestors /\ n < L => a[n] = log[L - n].gen}
<1>0. RetainedAncestors \in Nat /\ L \in Nat /\ L > 0
  BY StoreAssumption, SMTT(30) DEF IInv, TypeOK
<1>1. /\ a[0] = Current.gen
      /\ \A k \in 1..RetainedAncestors : a[k] = parentOf[a[k - 1]]
  BY <1>0, AncestryFacts, SMTT(30)
<1> HIDE DEF a
<1>2. 0 \in S
  BY <1>0, <1>1, SMTT(30) DEF Current
<1>3. ASSUME NEW n \in S PROVE n + 1 \in S
  <2> SUFFICES ASSUME n + 1 <= RetainedAncestors, n + 1 < L
               PROVE  a[n + 1] = log[L - (n + 1)].gen
    BY SMTT(30)
  <2>1. n \in Nat /\ a[n] = log[L - n].gen /\ L - n \in Kept /\ L - n \in 2..L
    BY <1>0, SMTT(30) DEF Kept
  <2>2. a[n + 1] = parentOf[a[n]]
    BY <1>0, <1>1, <2>1, SMTT(30)
  <2>3. parentOf[log[L - n].gen] = log[L - n].digest
    BY <2>1 DEF WInv, Linked
  <2>4. log[L - n].digest = log[(L - n) - 1].gen
    BY <2>1 DEF IInv, CommitsExtendCurrent
  <2> QED
    BY <1>0, <2>1, <2>2, <2>3, <2>4, SMTT(30)
<1>4. S \in SUBSET Nat
  OBVIOUS
<1>5. S = Nat
  <2> HIDE DEF S
  <2> QED
    BY <1>2, <1>3, <1>4, SetInduction
<1>6. /\ L - i \in Nat /\ L - i <= RetainedAncestors /\ L - i < L /\ L - (L - i) = i
      /\ i \in 1..L
  BY <1>0, SMTT(30) DEF Kept
<1>7. a[L - i] = log[i].gen /\ L - i \in 0..RetainedAncestors
  BY <1>0, <1>5, <1>6, SMTT(30)
<1>8. log[i].gen # None
  <2>1. log[i] \in Currents
    BY <1>6, SMTT(30) DEF IInv, TypeOK
  <2> QED
    BY <2>1, StoreAssumption DEF Currents
<1> QED
  BY <1>7, <1>8 DEF Reachable, Retained, a

-----------------------------------------------------------------------------
(* Steps that leave CURRENT alone.                                         *)

\* CURRENT stays, its flush may advance.
Still == log' = log /\ flushed' \in {flushed, Len(log)} /\ (hasty => hasty')

LEMMA KeptShrinks ==
    ASSUME TypeOK, Still
    PROVE  Kept' \subseteq Kept /\ \A g : InWindow(g)' => InWindow(g)
BY StoreAssumption, SMTT(30) DEF TypeOK, Still, Kept, InWindow

\* What a step of p has to establish itself: it writes the journal of a transaction of
\* the window with the digest that was committed, and touches no manifest of the window.
LEMMA WindowStep ==
    ASSUME IInv, WInv, NEW p \in Procs, Others(p), Still, WLocal(p)',
           \A t \in Txns : \/ journal'[t] = journal[t]
                           \/ hasty'
                           \/ \A i \in Kept : log[i].gen = t => Matches(journal'[t], log[i].digest),
           \A g \in Gens : parentOf'[g] = parentOf[g] \/ hasty' \/ ~InWindow(g),
           \A q \in Procs \ {p} : pc[q] = "replace" => journal'[T(q)] = journal[T(q)]
    PROVE  WInv'
<1>0. Kept' \subseteq Kept /\ \A g : InWindow(g)' => InWindow(g)
  BY KeptShrinks DEF IInv
<1>1. ASSUME NEW q \in Procs, q # p
      PROVE  WLocal(q)'
  <2>1. WLocal(q) /\ pc'[q] = pc[q] /\ job'[q] = job[q]
    BY <1>1 DEF WInv, Others
  <2>2. pc[q] \in Ahead => hasty' \/ ~InWindow(T(q))'
    BY <1>0, <2>1 DEF WLocal, Still, InWindow
  <2>3. pc[q] \in After => /\ Current' = [gen |-> T(q), digest |-> job[q].parent]
                           /\ hasty' \/ \A i \in Kept' : log'[i].gen = T(q) => i = Len(log')
    BY <1>0, <2>1 DEF WLocal, Still, Current
  <2>4. pc[q] = "replace" => journal'[T(q)] = [phase |-> "DURABLE", digest |-> job[q].parent]
    BY <1>1, <2>1 DEF WLocal
  <2> QED
    BY <2>1, <2>2, <2>3, <2>4 DEF WLocal
<1>2. ASSUME ~hasty', NEW i \in Kept'
      PROVE  Linked(i)'
  <2>1. i \in Kept /\ Linked(i) /\ log'[i] = log[i]
    BY <1>0, <1>2 DEF WInv, Still
  <2>2. log[i].gen \in Gens
    <3>1. log[i] \in Currents
      BY <2>1, SMTT(30) DEF IInv, TypeOK, Kept
    <3> QED
      BY <3>1 DEF Currents
  <2>3. parentOf'[log[i].gen] = parentOf[log[i].gen]
    BY <1>2, <2>1, <2>2 DEF InWindow
  <2>4. log[i].gen # Root => Matches(journal'[log[i].gen], log[i].digest)
    BY <1>2, <2>1, <2>2 DEF Linked, Gens
  <2> QED
    BY <2>1, <2>3, <2>4 DEF Linked, Matches
<1> QED
  BY <1>1, <1>2 DEF WInv

\* Places at which p need not learn anything about the window.
Steady(p) ==
    \/ pc'[p] \notin Staging \cup Recovering
    \/ pc'[p] = "journal"
    \/ pc'[p] \in Recovering /\ pc[p] \in Recovering /\ job'[p].keep = job[p].keep
    \/ pc[p] \in Ahead /\ pc'[p] \in Ahead \ {"replace"} /\ job'[p] = job[p]
    \/ pc[p] \in After /\ pc'[p] \in After /\ job'[p] = job[p]

LEMMA SteadyLocal ==
    ASSUME IInv, WInv, NEW p \in Procs, Still, Steady(p)
    PROVE  WLocal(p)'
<1>0. Kept' \subseteq Kept /\ \A g : InWindow(g)' => InWindow(g)
  BY KeptShrinks DEF IInv
<1>1. WLocal(p)
  BY DEF WInv
<1>2. CASE pc'[p] \notin Staging \cup Recovering \/ pc'[p] = "journal"
  BY <1>2 DEF WLocal, Ahead, After, Staging, Recovering
<1>3. CASE pc'[p] \in Recovering /\ pc[p] \in Recovering /\ job'[p].keep = job[p].keep
  BY <1>1, <1>3 DEF WLocal, Ahead, After, Staging, Recovering
<1>4. CASE pc[p] \in Ahead /\ pc'[p] \in Ahead \ {"replace"} /\ job'[p] = job[p]
  <2>1. hasty' \/ ~InWindow(T(p))'
    BY <1>0, <1>1, <1>4 DEF WLocal, Still, InWindow
  <2> QED
    BY <1>4, <2>1 DEF WLocal, Ahead, After, Staging, Recovering
<1>5. CASE pc[p] \in After /\ pc'[p] \in After /\ job'[p] = job[p]
  <2>1. /\ Current' = [gen |-> T(p), digest |-> job[p].parent]
        /\ hasty' \/ \A i \in Kept' : log'[i].gen = T(p) => i = Len(log')
    BY <1>0, <1>1, <1>5 DEF WLocal, Still, Current
  <2> QED
    BY <1>5, <2>1 DEF WLocal, Ahead, After, Staging, Recovering
<1> QED
  BY <1>2, <1>3, <1>4, <1>5 DEF Steady

\* A step that writes neither a journal nor a manifest.
LEMMA SteadyStep ==
    ASSUME IInv, WInv, NEW p \in Procs, Others(p), Still, Steady(p),
           journal' = journal, parentOf' = parentOf
    PROVE  WInv'
BY SteadyLocal, WindowStep

LEMMA LeaveWindow ==
    ASSUME IInv, WInv, NEW p \in Procs, Leave(p), Still, journal' = journal, parentOf' = parentOf
    PROVE  WInv'
<1>1. Others(p) /\ pc'[p] = "idle"
  BY LeaveType DEF IInv
<1> QED
  BY <1>1, SteadyStep DEF Steady, Staging, Recovering

\* A step of an attempt before its commit may write its own journal.
LEMMA OwnJournal ==
    ASSUME OneMode, IInv, MInv, WInv, NEW p \in Procs, pc[p] \in Ahead, Others(p), Still,
           WLocal(p)', parentOf' = parentOf,
           \A t \in Txns : t # T(p) => journal'[t] = journal[t]
    PROVE  WInv'
<1>0. WLocal(p)
  BY DEF WInv
<1>1. hasty' \/ ~InWindow(T(p))
  BY <1>0 DEF WLocal, Still
<1>2. \A t \in Txns : \/ journal'[t] = journal[t]
                      \/ hasty'
                      \/ \A i \in Kept : log[i].gen = t => Matches(journal'[t], log[i].digest)
  BY <1>1 DEF InWindow
<1>3. ASSUME NEW q \in Procs \ {p}, pc[q] = "replace"
      PROVE  journal'[T(q)] = journal[T(q)]
  <2>1. T(q) # T(p) /\ T(q) \in Txns
    BY <1>3, DistinctAttempts DEF IInv, Local, WritePlaces, Staging, Ahead
  <2> QED
    BY <2>1
<1> QED
  BY <1>2, <1>3, WindowStep

-----------------------------------------------------------------------------
(* Writers.                                                                *)

\* Steps that write neither a journal nor a manifest.
LEMMA WriteSteady ==
    ASSUME IInv, WInv, NEW p \in Procs, Write(p),
           ~(StartAfresh(p) \/ StageParticipants(p) \/ Validate(p) \/ AbortStale(p)),
           ~(WriteManifest(p) \/ Promote(p) \/ WriteDurable(p) \/ ReplaceCurrent(p)),
           ~WritePublished(p)
    PROVE  WInv'
<1>1. CASE WriterBusy(p) \/ TxnBusy(p) \/ ParentCorrupt(p) \/ DirectoryExists(p)
           \/ ValidateRefuses(p) \/ PromoteConflict(p) \/ ReplaceFails(p)
           \/ Replay(p) \/ RefuseJournal(p) \/ RemoveAttempt(p) \/ Confirm(p)
  <2>1. Leave(p)
    BY <1>1 DEF WriterBusy, TxnBusy, ParentCorrupt, DirectoryExists, ValidateRefuses,
                PromoteConflict, ReplaceFails, Fail, Replay, RefuseJournal, RemoveAttempt, Confirm
  <2>2. Still /\ journal' = journal /\ parentOf' = parentOf
    <3>1. CASE WriterBusy(p) \/ TxnBusy(p) \/ ParentCorrupt(p) \/ DirectoryExists(p)
               \/ ValidateRefuses(p) \/ PromoteConflict(p) \/ ReplaceFails(p)
      <4>1. Fail(p)
        BY <3>1 DEF WriterBusy, TxnBusy, ParentCorrupt, DirectoryExists, ValidateRefuses,
                    PromoteConflict, ReplaceFails
      <4> QED
        BY <4>1 DEF Fail, Still
    <3>2. CASE Replay(p)
      BY <3>2 DEF Replay, Still, FlushRoot
    <3>3. CASE RefuseJournal(p)
      BY <3>3 DEF RefuseJournal, Still, FlushRoot
    <3>4. CASE RemoveAttempt(p)
      BY <3>4 DEF RemoveAttempt, Still
    <3>5. CASE Confirm(p)
      BY <3>5 DEF Confirm, Still
    <3> QED
      BY <1>1, <3>1, <3>2, <3>3, <3>4, <3>5
  <2> QED
    BY <2>1, <2>2, LeaveWindow
<1>2. CASE SyncWriter(p) \/ LockWriter(p) \/ LockTxn(p) \/ PinParent(p)
  <2>1. Still /\ journal' = journal /\ parentOf' = parentOf
    <3>1. CASE SyncWriter(p)
      BY <3>1 DEF SyncWriter, Still, FlushRoot
    <3>2. CASE LockWriter(p)
      BY <3>2 DEF LockWriter, Still
    <3>3. CASE LockTxn(p)
      BY <3>3 DEF LockTxn, Still
    <3>4. CASE PinParent(p)
      BY <3>4 DEF PinParent, Still
    <3> QED
      BY <1>2, <3>1, <3>2, <3>3, <3>4
  <2>2. Others(p) /\ pc'[p] \in {"lockWriter", "resolve", "journal"}
    BY <1>2 DEF IInv, TypeOK, SyncWriter, LockWriter, LockTxn, PinParent, Others
  <2> QED
    BY <2>1, <2>2, SteadyStep DEF Steady, Staging, Recovering
<1>3. CASE PrepareDirectory(p) \/ ValidateConflict(p) \/ Readmit(p) \/ SyncCommit(p)
           \/ WaitWriter(p) \/ CheckParent(p) \/ RetireAttempt(p) \/ Acknowledge(p)
  <2>1. Still /\ journal' = journal /\ parentOf' = parentOf /\ job' = job /\ todo' = todo
    <3>1. CASE PrepareDirectory(p)
      BY <3>1 DEF PrepareDirectory, Still, FlushRoot
    <3>2. CASE ValidateConflict(p)
      BY <3>2 DEF ValidateConflict, Still, FlushRoot
    <3>3. CASE Readmit(p)
      BY <3>3 DEF Readmit, Still, FlushRoot
    <3>4. CASE SyncCommit(p)
      BY <3>4 DEF SyncCommit, Still, FlushRoot
    <3>5. CASE WaitWriter(p)
      BY <3>5 DEF WaitWriter, Still, FlushRoot
    <3>6. CASE CheckParent(p)
      BY <3>6 DEF CheckParent, Still, FlushRoot
    <3>7. CASE RetireAttempt(p)
      BY <3>7 DEF RetireAttempt, Still, FlushRoot
    <3>8. CASE Acknowledge(p)
      BY <3>8 DEF Acknowledge, Still, FlushRoot
    <3> QED
      BY <1>3, <3>1, <3>2, <3>3, <3>4, <3>5, <3>6, <3>7, <3>8
  <2>2. PICK b : /\ Move(p, b)
                 /\ \/ pc[p] \in Ahead /\ b \in Ahead \ {"replace"}
                    \/ pc[p] \in After /\ b \in After
    <3>0. /\ \A a \in {"prepare", "preparing", "stage", "validate", "abort", "readmit", "syncCommit", "waitWriter",
                       "checkParent", "manifest", "retireAttempt", "durable"} : a \in Ahead \ {"replace"}
          /\ "acknowledge" \in After /\ "published" \in After
      BY SMT DEF Ahead, After, Staging
    <3>1. CASE PrepareDirectory(p)
      BY <3>0, <3>1 DEF PrepareDirectory
    <3>2. CASE ValidateConflict(p)
      BY <3>0, <3>2 DEF ValidateConflict
    <3>3. CASE Readmit(p)
      BY <3>0, <3>3 DEF Readmit
    <3>4. CASE SyncCommit(p)
      BY <3>0, <3>4 DEF SyncCommit
    <3>5. CASE WaitWriter(p)
      BY <3>0, <3>5 DEF WaitWriter
    <3>6. CASE CheckParent(p)
      BY <3>0, <3>6 DEF CheckParent
    <3>7. CASE RetireAttempt(p)
      BY <3>0, <3>7 DEF RetireAttempt
    <3>8. CASE Acknowledge(p)
      BY <3>0, <3>8 DEF Acknowledge
    <3> QED
      BY <1>3, <3>1, <3>2, <3>3, <3>4, <3>5, <3>6, <3>7, <3>8
  <2>3. Others(p) /\ pc'[p] = b /\ job'[p] = job[p]
    BY <2>1, <2>2 DEF IInv, TypeOK, Others
  <2>4. Steady(p)
    BY <2>2, <2>3 DEF Steady
  <2> QED
    BY <2>1, <2>3, <2>4, SteadyStep
<1> QED
  BY <1>1, <1>2, <1>3 DEF Write

\* The transaction that starts afresh is not in the window: its journal would say so.
LEMMA AfreshWindow ==
    ASSUME IInv, WInv, NEW p \in Procs, StartAfresh(p)
    PROVE  WInv'
<1>1. Still /\ journal' = journal /\ parentOf' = parentOf
  BY DEF StartAfresh, Still, FlushRoot
<1>2. Others(p) /\ pc'[p] = "prepare" /\ job'[p] = job[p]
  BY DEF IInv, TypeOK, StartAfresh, Others
<1>3. T(p) \in Txns /\ T(p) # Root /\ journal[T(p)].phase \in {"none", "ABORTED"}
  BY StoreAssumption DEF IInv, Local, StartAfresh, WritePlaces, Staging
<1>4. hasty \/ ~InWindow(T(p))
  BY <1>3 DEF WInv, Linked, Matches, InWindow
<1>5. hasty' \/ ~InWindow(T(p))'
  <2>1. Kept' \subseteq Kept
    BY <1>1, KeptShrinks DEF IInv
  <2> QED
    BY <1>1, <1>2, <1>4, <2>1 DEF Still, InWindow
<1>6. WLocal(p)'
  BY <1>2, <1>5 DEF WLocal, After, Recovering
<1> QED
  BY <1>1, <1>2, <1>6, WindowStep

\* Journals of an attempt before its commit.
LEMMA StageWindow ==
    ASSUME OneMode, IInv, MInv, WInv, NEW p \in Procs,
           StageParticipants(p) \/ Validate(p) \/ AbortStale(p) \/ WriteDurable(p)
    PROVE  WInv'
<1>1. Still /\ parentOf' = parentOf /\ job' = job /\ todo' = todo
  <2>1. CASE StageParticipants(p)
    BY <2>1 DEF StageParticipants, Still
  <2>2. CASE Validate(p)
    BY <2>2 DEF Validate, Still
  <2>3. CASE AbortStale(p)
    BY <2>3 DEF AbortStale, Still
  <2>4. CASE WriteDurable(p)
    BY <2>4 DEF WriteDurable, Still
  <2> QED
    BY <2>1, <2>2, <2>3, <2>4
<1>2. PICK b \in Ahead : Move(p, b) /\ pc[p] \in Ahead /\ (b = "replace" <=> WriteDurable(p))
  BY DEF StageParticipants, Validate, AbortStale, WriteDurable, Ahead, After, Staging
<1>3. Others(p) /\ pc'[p] = b /\ job'[p] = job[p]
  BY <1>1, <1>2 DEF IInv, TypeOK, Others
<1>4. \A t \in Txns : t # T(p) => journal'[t] = journal[t]
  BY DEF IInv, TypeOK, StageParticipants, Validate, AbortStale, WriteDurable, WriteJournal
<1>5. WLocal(p)'
  <2>1. CASE b # "replace"
    BY <1>1, <1>2, <1>3, <2>1, SteadyLocal DEF Steady
  <2>2. CASE b = "replace"
    <3>1. T(p) \in Txns
      BY <1>2 DEF IInv, Local, WritePlaces, Ahead
    <3>2. journal'[T(p)] = [phase |-> "DURABLE", digest |-> job[p].parent]
      BY <1>2, <2>2, <3>1 DEF IInv, TypeOK, WriteDurable, WriteJournal
    <3>3. WLocal(p) /\ Kept' \subseteq Kept
      BY <1>1, KeptShrinks DEF IInv, WInv
    <3>4. hasty' \/ ~InWindow(T(p))'
      BY <1>1, <1>2, <1>3, <3>3 DEF WLocal, Still, InWindow
    <3> QED
      BY <1>3, <2>2, <3>2, <3>4 DEF WLocal, After, Recovering
  <2> QED
    BY <2>1, <2>2
<1> QED
  BY <1>1, <1>2, <1>3, <1>4, <1>5, OwnJournal

\* A manifest is written for a transaction that is not in the window.
LEMMA ManifestWindow ==
    ASSUME IInv, WInv, NEW p \in Procs, WriteManifest(p) \/ Promote(p)
    PROVE  WInv'
<1>1. Still /\ journal' = journal /\ job' = job /\ todo' = todo
  BY SMTT(30) DEF WriteManifest, Promote, Still
<1>2. PICK b \in Ahead \ {"replace"} : Move(p, b) /\ pc[p] \in Ahead
  BY DEF WriteManifest, Promote, Ahead, After, Staging
<1>3. Others(p) /\ pc'[p] = b /\ job'[p] = job[p]
  BY <1>1, <1>2 DEF IInv, TypeOK, Others
<1>4. WLocal(p)'
  BY <1>1, <1>2, <1>3, SteadyLocal DEF Steady
<1>5. WLocal(p)
  BY DEF WInv
<1>6. hasty' \/ ~InWindow(T(p))
  BY <1>1, <1>2, <1>5 DEF WLocal, Still
<1>7. \A g \in Gens : g # T(p) => parentOf'[g] = parentOf[g]
  BY DEF IInv, TypeOK, WriteManifest, Promote
<1> QED
  BY <1>1, <1>3, <1>4, <1>6, <1>7, WindowStep

\* The commit enters the window with its journal and its manifest.
LEMMA CommitWindow ==
    ASSUME OneMode, IInv, MInv, WInv, NEW p \in Procs, ReplaceCurrent(p)
    PROVE  WInv'
<1> DEFINE c == [gen |-> T(p), digest |-> job[p].parent]
<1>1. /\ Len(log) \in Nat /\ flushed \in 1..Len(log) /\ log \in Seq(Currents)
      /\ RetainedAncestors \in Nat
  BY StoreAssumption, SMTT(30) DEF IInv, TypeOK
<1>2. /\ log' = Append(log, c) /\ Len(log') = Len(log) + 1
      /\ log'[Len(log) + 1] = c
      /\ \A i \in 1..Len(log) : log'[i] = log[i]
  BY <1>1, SMTT(30) DEF ReplaceCurrent
<1>3. UNCHANGED <<flushed, parentOf, journal, hasty, job, todo>>
  BY DEF ReplaceCurrent
<1>4. Others(p) /\ pc'[p] = "acknowledge" /\ job'[p] = job[p]
  BY DEF IInv, TypeOK, ReplaceCurrent, Others
<1>5. c.gen = T(p) /\ c.digest = job[p].parent
  OBVIOUS
<1>6. Kept' = Kept \cup {Len(log) + 1} /\ Kept \subseteq 1..Len(log)
  BY <1>1, <1>2, <1>3, SMTT(30) DEF Kept
<1>7. /\ WLocal(p) /\ Local(p) /\ pc[p] = "replace" /\ writer = p
      /\ parentOf[T(p)] = job[p].parent
      /\ journal[T(p)] = [phase |-> "DURABLE", digest |-> job[p].parent]
  BY DEF IInv, WInv, Local, WLocal, ReplaceCurrent, HoldsWriter, Late
<1>8. hasty \/ ~InWindow(T(p))
  BY <1>7 DEF WLocal, Ahead, Staging, After
<1>9. Current' = c
  BY <1>1, <1>2 DEF Current
<1>10. WLocal(p)'
  <2>1. hasty' \/ \A i \in Kept' : log'[i].gen = T(p) => i = Len(log')
    BY <1>1, <1>2, <1>3, <1>6, <1>8 DEF InWindow
  <2> QED
    BY <1>3, <1>4, <1>9, <2>1 DEF WLocal, Ahead, After, Recovering
<1> HIDE DEF c
<1>11. ASSUME NEW q \in Procs, q # p
       PROVE  WLocal(q)'
  <2>1. WLocal(q) /\ Local(q) /\ pc'[q] = pc[q] /\ job'[q] = job[q]
    BY <1>4, <1>11 DEF IInv, WInv, Others
  <2>2. pc[q] \notin After
    BY <1>7, <1>11, <2>1 DEF Local, HoldsWriter, After
  <2>3. pc[q] \in Staging => T(q) # T(p)
    BY <1>7, <1>11, DistinctAttempts DEF Staging
  <2>4. pc[q] \in Ahead => hasty' \/ ~InWindow(T(q))'
    BY <1>1, <1>2, <1>3, <1>5, <1>6, <2>1, <2>3 DEF WLocal, InWindow, Ahead
  <2> QED
    BY <1>3, <2>1, <2>2, <2>4 DEF WLocal
<1>12. ASSUME ~hasty', NEW i \in Kept'
       PROVE  Linked(i)'
  <2>1. CASE i = Len(log) + 1
    BY <1>2, <1>3, <1>5, <1>7, <2>1, SMTT(30) DEF Linked, Matches
  <2>2. CASE i # Len(log) + 1
    <3>1. i \in Kept /\ log'[i] = log[i]
      BY <1>2, <1>6, <1>12, <2>2
    <3>2. Linked(i)
      BY <1>3, <1>12, <3>1 DEF WInv
    <3> QED
      BY <1>3, <3>1, <3>2 DEF Linked, Matches
  <2> QED
    BY <2>1, <2>2
<1> QED
  BY <1>10, <1>11, <1>12 DEF WInv

\* PUBLISHED is written with the digest that was committed.
LEMMA PublishedWindow ==
    ASSUME IInv, WInv, NEW p \in Procs, WritePublished(p)
    PROVE  WInv'
<1>1. Still /\ parentOf' = parentOf
  BY DEF WritePublished, Still
<1>2. Others(p) /\ pc'[p] = "confirm" /\ pc[p] = "published" /\ job'[p] = job[p]
  BY DEF IInv, TypeOK, WritePublished, Others
<1>3. WLocal(p)'
  BY <1>1, <1>2, SteadyLocal DEF Steady, After
<1>4. WLocal(p) /\ Local(p) /\ T(p) \in Txns
  BY <1>2 DEF WInv, IInv, Local, WritePlaces, Staging
<1>5. /\ \A t \in Txns : t # T(p) => journal'[t] = journal[t]
      /\ journal'[T(p)] = [phase |-> "PUBLISHED", digest |-> job[p].parent]
  BY <1>4 DEF IInv, TypeOK, WritePublished, WriteJournal
<1>6. hasty' \/ \A i \in Kept : log[i].gen = T(p) => log[i].digest = job[p].parent
  <2>1. Current.digest = job[p].parent
    BY <1>2, <1>4, SMTT(30) DEF WLocal, After
  <2>2. hasty \/ \A i \in Kept : log[i].gen = T(p) => i = Len(log)
    BY <1>2, <1>4 DEF WLocal, After
  <2> QED
    BY <1>1, <2>1, <2>2 DEF Still, Current
<1>7. \A t \in Txns : \/ journal'[t] = journal[t]
                      \/ hasty'
                      \/ \A i \in Kept : log[i].gen = t => Matches(journal'[t], log[i].digest)
  BY <1>5, <1>6, SMTT(30) DEF Matches
<1>8. ASSUME NEW q \in Procs \ {p} PROVE pc[q] # "replace"
  BY <1>2, <1>4 DEF IInv, Local, HoldsWriter, Late, After
<1> QED
  BY <1>1, <1>2, <1>3, <1>7, <1>8, WindowStep

\* A writer's step.
LEMMA WriteWindow ==
    ASSUME OneMode, IInv, MInv, WInv, NEW p \in Procs, Write(p)
    PROVE  WInv'
BY WriteSteady, AfreshWindow, StageWindow, ManifestWindow, CommitWindow, PublishedWindow

-----------------------------------------------------------------------------
(* Recovery, clean-up and the other steps.                                 *)

\* Recovery repairs the journal of a transaction without changing its digest.
LEMMA RepairWindow ==
    ASSUME IInv, WInv, NEW p \in Procs, NEW t \in Txns, RepairJournal(p, t)
    PROVE  WInv'
<1>1. Still /\ parentOf' = parentOf
  BY DEF RepairJournal, Still
<1>2. Others(p) /\ pc'[p] = "recoverNext" /\ pc[p] = "recoverNext" /\ job'[p] = job[p]
  BY DEF IInv, TypeOK, RepairJournal, Done, Others
<1>3. WLocal(p)'
  BY <1>1, <1>2, SteadyLocal DEF Steady, Recovering
<1>4. /\ \A u \in Txns : u # t => journal'[u] = journal[u]
      /\ journal'[t] = [phase |-> "PUBLISHED", digest |-> journal[t].digest]
  BY DEF IInv, TypeOK, RepairJournal, WriteJournal
<1>5. hasty' \/ \A i \in Kept : log[i].gen = t => Matches(journal'[t], log[i].digest)
  BY <1>1, <1>4, StoreAssumption, SMTT(30) DEF WInv, Linked, Matches, Still
<1>6. \A q \in Procs \ {p} : pc[q] # "replace"
  BY <1>2 DEF IInv, Local, HoldsWriter, Late, Planned
<1> QED
  BY <1>1, <1>2, <1>3, <1>4, <1>5, <1>6, WindowStep

\* Recovery abandons only what is not in the window: the default retention, computed from
\* a flushed CURRENT, covers all of it.
LEMMA AbandonWindow ==
    ASSUME IInv, WInv, NEW p \in Procs, NEW t \in Txns, Abandon(p, t)
    PROVE  WInv'
<1>1. Still /\ parentOf' = parentOf
  BY DEF Abandon, Still
<1>2. /\ Others(p) /\ pc'[p] = "recoverAttempt" /\ pc[p] = "recoverNext"
      /\ job'[p].keep = job[p].keep
  BY DEF IInv, TypeOK, Abandon, Take, Others
<1>3. WLocal(p)'
  BY <1>1, <1>2, SteadyLocal DEF Steady, Recovering
<1>4. \A u \in Txns : u # t => journal'[u] = journal[u]
  BY DEF IInv, TypeOK, Abandon, WriteJournal
<1>5. hasty' \/ ~InWindow(t)
  <2>1. WLocal(p) /\ Local(p)
    BY DEF IInv, WInv
  <2>2. job[p].keep = RetainedAncestors /\ (hasty \/ flushed = Len(log))
    BY <1>2, <2>1 DEF WLocal, Local, Recovering, Planned
  <2>3. t \notin Reachable(RetainedAncestors)
    BY <2>2 DEF Abandon
  <2> QED
    BY <1>1, <2>2, <2>3, WindowReachable DEF InWindow, Still
<1>6. \A q \in Procs \ {p} : pc[q] # "replace"
  BY <1>2 DEF IInv, Local, HoldsWriter, Late, Planned
<1> QED
  BY <1>1, <1>2, <1>3, <1>4, <1>5, <1>6, WindowStep DEF InWindow

\* All other steps of recovery and clean-up write no journal.
LEMMA RecoverWindow ==
    ASSUME IInv, WInv, NEW p \in Procs, Recover(p)
    PROVE  WInv'
<1>1. CASE Fail(p)
  BY <1>1, LeaveWindow DEF Fail, Still
<1>2. CASE ~Fail(p) /\ \A t \in Txns : ~RepairJournal(p, t) /\ ~Abandon(p, t)
  <2>1. Still
    <3>1. CASE PlanRecovery(p) \/ PlanCleanup(p)
      <4>1. hasty => hasty'
        BY <3>1 DEF PlanRecovery, PlanCleanup
      <4> QED
        BY <3>1, <4>1 DEF PlanRecovery, PlanCleanup, Still
    <3> QED
      BY <3>1, RecoverUnseen DEF Unseen, Still
  <2>2. /\ Others(p) /\ journal' = journal /\ parentOf' = parentOf
        /\ \/ pc'[p] \in Cleaning
           \/ pc[p] \in Recovering /\ pc'[p] \in Recovering /\ job'[p] = job[p]
    <3>1. CASE SyncRecovery(p) \/ LockRecovery(p) \/ PlanRecovery(p) \/ PlanCleanup(p)
               \/ DeleteAttempt(p)
      BY <3>1 DEF IInv, TypeOK, SyncRecovery, LockRecovery, PlanRecovery, PlanCleanup,
                  DeleteAttempt, Others, Recovering, Cleaning
    <3>2. CASE DeleteFromTrash(p) \/ ProbeSkips(p) \/ ProbeIdle(p) \/ MoveToTrash(p)
               \/ DeleteMoved(p)
      <4>1. PICK b : /\ Move(p, b)
                     /\ b \in Cleaning \/ (pc[p] \in Recovering /\ b \in Recovering)
        BY <1>2, <3>2 DEF DeleteFromTrash, ProbeSkips, ProbeIdle, MoveToTrash, DeleteMoved, Keep,
                          NextPlace, Recovering, Cleaning
      <4>2. UNCHANGED <<job, todo, journal, parentOf>>
        BY <1>2, <3>2 DEF DeleteFromTrash, ProbeSkips, ProbeIdle, MoveToTrash, DeleteMoved, Keep
      <4> QED
        BY <4>1, <4>2 DEF IInv, TypeOK, Others
    <3>3. CASE \/ \E t \in Txns : SkipLive(p, t)
               \/ \E g \in Gens : TakeCandidate(p, g)
      BY <3>3 DEF IInv, TypeOK, SkipLive, TakeCandidate, Done, Others, Recovering, Cleaning
    <3> QED
      BY <1>2, <3>1, <3>2, <3>3 DEF Recover, RecoveryBusy, PlanCorrupt, FinishRecovery,
                                    RepairCorrupt
  <2>3. Steady(p)
    BY <2>2 DEF Steady, Staging, Recovering, Cleaning
  <2> QED
    BY <2>1, <2>2, <2>3, SteadyStep
<1> QED
  BY <1>1, <1>2, RepairWindow, AbandonWindow

\* A power loss leaves a window that was one of those kept.
LEMMA PowerLossWindow ==
    ASSUME IInv, WInv, PowerLoss
    PROVE  WInv'
<1>1. PICK n \in flushed..Len(log) : log' = SubSeq(log, 1, n) /\ flushed' = n
  BY DEF PowerLoss
<1>2. Len(log') = n /\ \A i \in 1..n : log'[i] = log[i]
  BY <1>1, SMTT(30) DEF IInv, TypeOK
<1>3. Kept' \subseteq Kept /\ Kept' \subseteq 1..n
  BY <1>1, <1>2, StoreAssumption, SMTT(30) DEF IInv, TypeOK, Kept
<1>4. \A q \in Procs : WLocal(q)'
  BY DEF PowerLoss, WLocal, Ahead, After, Staging, Recovering
<1>5. UNCHANGED <<parentOf, journal, hasty>>
  BY DEF PowerLoss
<1>6. ASSUME ~hasty', NEW i \in Kept'
      PROVE  Linked(i)'
  <2>1. Linked(i) /\ log'[i] = log[i]
    BY <1>2, <1>3, <1>5, <1>6 DEF WInv
  <2> QED
    BY <1>5, <2>1 DEF Linked, Matches
<1> QED
  BY <1>4, <1>6 DEF WInv

\* The window at the start is the first generation.
LEMMA InitWindow == Init => WInv
<1> SUFFICES ASSUME Init PROVE WInv
  OBVIOUS
<1>1. log = <<[gen |-> Root, digest |-> None]>> /\ Len(log) = 1
  BY DEF Init
<1>2. \A i \in Kept : i = 1
  BY <1>1, SMTT(30) DEF Kept
<1>3. \A i \in Kept : Linked(i)
  BY <1>1, <1>2, SMTT(30) DEF Linked, Init, Gens
<1> QED
  BY <1>3 DEF WInv, WLocal, Init, Ahead, After, Staging, Recovering

\* A step keeps the window.
LEMMA WindowNext ==
    ASSUME OneMode, IInv, MInv, WInv, [Next]_vars
    PROVE  WInv'
<1>1. CASE UNCHANGED vars
  BY <1>1 DEF vars, WInv, WLocal, Linked, Matches, Kept, InWindow, Current
<1>2. ASSUME NEW p \in Procs, Begin(p)
      PROVE  WInv'
  <2>1. Still /\ journal' = journal /\ parentOf' = parentOf
    BY <1>2, SMTT(30) DEF Begin, BeginExclusive, BeginOptimistic, BeginCleanup, Open, Admit, Still
  <2>2. Others(p)
    BY <1>2 DEF IInv, TypeOK, Begin, BeginExclusive, BeginOptimistic, BeginCleanup, Open, Admit,
                Others
  <2>3. /\ pc'[p] \in {"syncWriter", "lockTxn", "recoverSync", "cleanSync"}
        /\ pc'[p] = "recoverSync" => job'[p].keep = RetainedAncestors
    BY <1>2, SMTT(30) DEF IInv, TypeOK, Begin, BeginExclusive, BeginOptimistic, BeginCleanup, Open, Admit
  <2>4. WLocal(p)'
    BY <2>3 DEF WLocal, Ahead, After, Staging, Recovering
  <2> QED
    BY <2>1, <2>2, <2>4, WindowStep
<1>3. ASSUME NEW p \in Procs, Crash(p)
      PROVE  WInv'
  BY <1>3, LeaveWindow DEF Crash, Still
<1>4. ASSUME NEW r \in Readers, ReadProject(r)
      PROVE  WInv'
  <2>1. UNCHANGED <<log, flushed, hasty, parentOf, journal, pc, job>>
    BY <1>4 DEF ReadProject, ReadCurrent, OpenLease, LeaseMissing, ConfirmCurrent,
                ConfirmChanged, HoldByUuid, MissingByUuid, EndSnapshot, OpenByUuid, Go, KeepProject
  <2> QED
    BY <2>1 DEF WInv, WLocal, Linked, Matches, Kept, InWindow, Current
<1> QED
  BY <1>1, <1>2, <1>3, <1>4, WriteWindow, RecoverWindow, PowerLossWindow DEF Next, Begin

\* WInv is an invariant when every transaction is staged in one mode.
THEOREM WindowInvariance ==
    ASSUME OneMode
    PROVE  Spec => []WInv
<1>1. IInv /\ MInv /\ WInv /\ [Next]_vars => WInv'
  BY WindowNext
<1> QED
  BY Invariance, AttemptsExclude, InitWindow, <1>1, PTL DEF Spec

\* Whatever CURRENT a crash leaves, the journals of the retained generations carry the
\* committed digest: recovery repairs them and neither reports nor aborts them, if no
\* caller stages one transaction both exclusively and optimistically.
THEOREM WindowRecoverable ==
    ASSUME OneMode
    PROVE  Spec => []RetainedJournalsMatch
<1>1. IInv /\ WInv => RetainedJournalsMatch
  BY WindowImplies DEF IInv
<1> QED
  BY Invariance, WindowInvariance, <1>1, PTL

\* Under the same condition no retry applies a transaction of the retained window again.
THEOREM AppliedOnceForAll ==
    ASSUME OneMode
    PROVE  Spec => AppliedOnceInWindow
<1> DEFINE Once == Len(log') > Len(log) =>
                       hasty \/ \A i \in Window(Len(log)) : log[i].gen # Current'.gen
<1>1. ASSUME IInv, WInv, [Next]_vars
      PROVE  [Once]_vars
  <2>1. ASSUME NEW p \in Procs, ReplaceCurrent(p)
        PROVE  Once
    <3>1. log \in Seq(Currents) /\ Len(log) \in Nat /\ flushed \in 1..Len(log)
      BY <1>1, SMTT(30) DEF IInv, TypeOK
    <3>2. Current'.gen = T(p)
      BY <2>1, <3>1, SMTT(30) DEF ReplaceCurrent, Current
    <3>3. WLocal(p) /\ pc[p] \in Ahead
      BY <1>1, <2>1 DEF WInv, ReplaceCurrent, Ahead, Staging, After
    <3>4. hasty \/ ~InWindow(T(p))
      BY <3>3 DEF WLocal
    <3>5. \A i \in Window(Len(log)) : i \in Kept
      BY <1>1, <3>1, KeptIsWindow, SMTT(30) DEF IInv
    <3> QED
      BY <3>2, <3>4, <3>5 DEF InWindow
  <2>2. CASE log' = log
    BY <2>2, SMTT(30)
  <2>3. CASE PowerLoss
    <3>1. PICK n \in flushed..Len(log) : log' = SubSeq(log, 1, n)
      BY <2>3 DEF PowerLoss
    <3>2. ~(Len(log') > Len(log))
      BY <1>1, <3>1, SMTT(30) DEF IInv, TypeOK
    <3> QED
      BY <3>2
  <2>4. \A p \in Procs : ReplaceCurrent(p) \/ ~Write(p) \/ log' = log
    BY WriteUnseen DEF Unseen, Replay, Confirm
  <2>5. \A p \in Procs : Recover(p) => log' = log
    BY RecoverUnseen DEF Unseen, PlanRecovery, PlanCleanup
  <2> QED
    BY <1>1, <2>1, <2>2, <2>3, <2>4, <2>5, OtherUnseen DEF Next, Begin, Unseen, vars
<1> QED
  BY Invariance, WindowInvariance, <1>1, PTL DEF Spec, AppliedOnceInWindow
=============================================================================
