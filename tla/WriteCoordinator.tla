---------------------------- MODULE WriteCoordinator ----------------------------
(***************************************************************************)
(* The embedded write coordination of one GraphForge facade                *)
(* (crates/graphforge-api/src/write_modes.rs): a RwLock (`visibility')     *)
(* taken exclusively by mutations and shared by snapshot reads, and, in    *)
(* queued mode, a bounded FIFO of tickets in front of it, guarded by a     *)
(* mutex (`queued') and a condition variable (`changed').                  *)
(*                                                                         *)
(* A step is one critical section of the `queued' mutex or one operation   *)
(* on the RwLock.  Queued writers wait with a 50 ms timeout, so they may   *)
(* re-examine the queue at any moment; readers wait without a timeout and  *)
(* are re-examined only after `notify_all'.                                *)
(***************************************************************************)
EXTENDS Integers, Sequences

CONSTANTS
    Writers,      \* threads that call acquire()
    Readers,      \* threads that call read()
    Capacity,     \* write_queue_capacity
    MaxTicket,    \* the largest value of next_ticket (u64::MAX in the code)
    Nobody        \* no thread

ASSUME CoordinatorAssumption ==
    /\ Nobody \notin Writers
    /\ Writers \cap Readers = {}
    /\ Capacity \in Nat \ {0}
    /\ MaxTicket \in Nat

VARIABLES
    queuedMode,   \* ProjectWriteMode::QueuedWriter, else the direct modes
    pc,           \* where each thread is in its call
    ticket,       \* the ticket a writer drew
    nextTicket,   \* QueuedState::next_ticket
    waiting,      \* QueuedState::waiting
    active,       \* QueuedState::active
    guard,        \* holder of visibility.write(), or Nobody
    readGuards,   \* holders of visibility.read()
    poisoned,     \* a writer panicked while it held the write guard
    cancelled,    \* writers whose CancellationToken is set
    health        \* MutationHealth: "ok", "recovering" or "failed"

vars == <<pc, ticket, nextTicket, waiting, active, guard, readGuards,
          poisoned, cancelled, health, queuedMode>>

queue == <<ticket, nextTicket, waiting, active>>
lock  == <<guard, readGuards, poisoned>>

Threads == Writers \cup Readers

Mutating == {"writing", "aborting", "aborted"}   \* the permit is out
WriterPcs == {"idle", "queued", "admitted", "abandoned", "releasing",
              "unwinding"} \cup Mutating
ReaderPcs == {"idle", "examining", "asleep", "passed", "reading"}

Init ==
    /\ queuedMode \in BOOLEAN
    /\ pc = [t \in Threads |-> "idle"]
    /\ ticket = [w \in Writers |-> 0]
    /\ nextTicket = 0
    /\ waiting = <<>>
    /\ active = FALSE
    /\ guard = Nobody
    /\ readGuards = {}
    /\ poisoned = FALSE
    /\ cancelled = {}
    /\ health = "ok"

Move(t, place) == pc' = [pc EXCEPT ![t] = place]

\* The readers in changed.wait().
asleep == {r \in Readers : pc[r] = "asleep"}

\* changed.notify_all() together with thread t moving to place.
NotifyAll(t, place) ==
    pc' = [u \in Threads |-> IF u = t THEN place
                             ELSE IF u \in asleep THEN "examining" ELSE pc[u]]

-----------------------------------------------------------------------------
(* acquire() in the direct modes: health, then the write guard.            *)

AcquireDirect(w) ==
    /\ ~queuedMode
    /\ pc[w] = "idle"
    /\ health = "ok"
    /\ Move(w, "admitted")
    /\ UNCHANGED <<queue, lock, cancelled, health, queuedMode>>

(* acquire() in queued mode: health, cancellation, capacity, ticket space. *)

Enqueue(w) ==
    /\ queuedMode
    /\ pc[w] = "idle"
    /\ health = "ok"
    /\ w \notin cancelled
    /\ Len(waiting) < Capacity
    /\ nextTicket < MaxTicket
    /\ ticket' = [ticket EXCEPT ![w] = nextTicket]
    /\ nextTicket' = nextTicket + 1
    /\ waiting' = Append(waiting, nextTicket)
    /\ Move(w, "queued")
    /\ UNCHANGED <<active, lock, cancelled, health, queuedMode>>

\* A refused acquire() or read() returns its error and changes nothing.
Refuse(t) ==
    /\ pc[t] = "idle"
    /\ \/ health # "ok"
       \/ t \in Writers /\ queuedMode /\ (Len(waiting) >= Capacity \/ nextTicket = MaxTicket)
    /\ UNCHANGED vars

\* waiting.retain(...): tickets are unique, so it removes the one at position i.
Without(s, i) == [j \in 1..(Len(s) - 1) |-> IF j < i THEN s[j] ELSE s[j + 1]]

\* Mutant: the cancelled ticket is not removed from the queue.
CancelKeepsTicket(w) ==
    /\ pc[w] = "queued" /\ w \in cancelled
    /\ cancelled' = cancelled \ {w}
    /\ NotifyAll(w, "idle")
    /\ UNCHANGED <<queue, lock, health, queuedMode>>

\* A cancelled ticket leaves the queue wherever it stands.
CancelQueued(w) ==
    /\ pc[w] = "queued"
    /\ w \in cancelled
    /\ \E i \in DOMAIN waiting : /\ waiting[i] = ticket[w]
                                /\ waiting' = Without(waiting, i)
    /\ cancelled' = cancelled \ {w}
    /\ NotifyAll(w, "idle")
    /\ UNCHANGED <<ticket, nextTicket, active, lock, health, queuedMode>>

\* Mutant: any waiting ticket is admitted, not only the head.
AdmitAny(w) ==
    /\ pc[w] = "queued" /\ w \notin cancelled /\ ~active
    /\ \E i \in DOMAIN waiting : /\ waiting[i] = ticket[w]
                                /\ waiting' = Without(waiting, i)
    /\ active' = TRUE
    /\ Move(w, "admitted")
    /\ UNCHANGED <<ticket, nextTicket, lock, cancelled, health, queuedMode>>

\* The head of the queue is admitted when no permit is out.
Admit(w) ==
    /\ pc[w] = "queued"
    /\ w \notin cancelled
    /\ ~active
    /\ waiting # <<>> /\ Head(waiting) = ticket[w]
    /\ waiting' = Tail(waiting)
    /\ active' = TRUE
    /\ Move(w, "admitted")
    /\ UNCHANGED <<ticket, nextTicket, lock, cancelled, health, queuedMode>>

Unlocked == guard = Nobody /\ readGuards = {}

\* visibility.write() of an admitted writer, in queued mode: a poisoned lock or
\* a cancelled token leads to the block that takes the queue mutex again and
\* withdraws the admission.
AdmissionFails(w) ==
    /\ queuedMode
    /\ pc[w] = "admitted"
    /\ Unlocked
    /\ poisoned \/ w \in cancelled
    /\ Move(w, "abandoned")
    /\ UNCHANGED <<queue, lock, cancelled, health, queuedMode>>

\* Mutant: the error path forgets to reset `active'.
WithdrawLeaks(w) ==
    /\ pc[w] = "abandoned"
    /\ cancelled' = cancelled \ {w}
    /\ NotifyAll(w, "idle")
    /\ UNCHANGED <<queue, lock, health, queuedMode>>

Withdraw(w) ==
    /\ pc[w] = "abandoned"
    /\ active' = FALSE
    /\ cancelled' = cancelled \ {w}
    /\ NotifyAll(w, "idle")
    /\ UNCHANGED <<ticket, nextTicket, waiting, lock, health, queuedMode>>

\* The direct modes have no admission to withdraw.
DirectFails(w) ==
    /\ ~queuedMode
    /\ pc[w] = "admitted"
    /\ Unlocked
    /\ poisoned \/ health # "ok"
    /\ cancelled' = cancelled \ {w}
    /\ Move(w, "idle")
    /\ UNCHANGED <<queue, lock, health, queuedMode>>

\* Mutant: a shared guard is taken where the exclusive one is needed.
TakeSharedGuard(w) ==
    /\ pc[w] = "admitted" /\ guard = Nobody /\ ~poisoned /\ health = "ok"
    /\ queuedMode => w \notin cancelled
    /\ guard' = w
    /\ Move(w, "writing")
    /\ UNCHANGED <<queue, readGuards, poisoned, cancelled, health, queuedMode>>

\* Mutant: the token is not looked at again once the guard is held.
TakeGuardCancelled(w) ==
    /\ pc[w] = "admitted" /\ Unlocked /\ ~poisoned /\ health = "ok"
    /\ guard' = w
    /\ Move(w, "writing")
    /\ UNCHANGED <<queue, readGuards, poisoned, cancelled, health, queuedMode>>

TakeGuard(w) ==
    /\ pc[w] = "admitted"
    /\ Unlocked
    /\ ~poisoned
    /\ health = "ok"
    /\ queuedMode => w \notin cancelled
    /\ guard' = w
    /\ Move(w, "writing")
    /\ UNCHANGED <<queue, readGuards, poisoned, cancelled, health, queuedMode>>

\* The permit is built before the last health check, so a failed check drops
\* it: Drop for WritePermit, then the guard.
UnhealthyPermit(w) ==
    /\ queuedMode
    /\ pc[w] = "admitted"
    /\ Unlocked
    /\ ~poisoned
    /\ w \notin cancelled
    /\ health # "ok"
    /\ guard' = w
    /\ active' = FALSE
    /\ NotifyAll(w, "releasing")
    /\ UNCHANGED <<ticket, nextTicket, waiting, readGuards, poisoned, cancelled,
                   health, queuedMode>>

\* A mutation returns, unless it is still restoring the workspace, or panics.
DropTo(w) == {"unwinding"} \cup (IF pc[w] = "aborting" THEN {} ELSE {"releasing"})

\* Mutant: Drop resets `active' and notifies nobody.
DropPermitSilently(w) ==
    /\ queuedMode /\ pc[w] \in Mutating
    /\ active' = FALSE
    /\ \E place \in DropTo(w) : Move(w, place)
    /\ UNCHANGED <<ticket, nextTicket, waiting, lock, cancelled, health, queuedMode>>

\* Drop for WritePermit::Queued runs before its field _guard is dropped; a
\* panic drops the permit in the same order and poisons the lock.
DropPermit(w) ==
    /\ queuedMode
    /\ pc[w] \in Mutating
    /\ active' = FALSE
    /\ \E place \in DropTo(w) : NotifyAll(w, place)
    /\ UNCHANGED <<ticket, nextTicket, waiting, lock, cancelled, health, queuedMode>>

DropDirect(w) ==
    /\ ~queuedMode
    /\ pc[w] \in Mutating
    /\ \E place \in DropTo(w) : Move(w, place)
    /\ UNCHANGED <<queue, lock, cancelled, health, queuedMode>>

DropGuard(w) ==
    /\ pc[w] \in {"releasing", "unwinding"}
    /\ guard' = Nobody
    /\ poisoned' = (poisoned \/ pc[w] = "unwinding")
    /\ cancelled' = cancelled \ {w}
    /\ Move(w, "idle")
    /\ UNCHANGED <<queue, readGuards, health, queuedMode>>

-----------------------------------------------------------------------------
(* The mutation a permit protects: MutationHealth::recover fences the      *)
(* workspace while an aborted mutation is restored; a failed restoration   *)
(* (or MutationHealth::fail) denies the facade for good.                   *)

BeginRecovery(w) ==
    /\ pc[w] = "writing"
    /\ health = "ok"
    /\ health' = "recovering"
    /\ Move(w, "aborting")
    /\ UNCHANGED <<queue, lock, cancelled, queuedMode>>

EndRecovery(w) ==
    /\ pc[w] = "aborting"
    /\ health' \in {"ok", "failed"}
    /\ Move(w, "aborted")
    /\ UNCHANGED <<queue, lock, cancelled, queuedMode>>

\* MutationHealth::fail, by a caller that holds the permit: a publication or an
\* abort whose facade could not be brought to CURRENT.
Fail(w) ==
    /\ pc[w] \in {"writing", "aborted"}
    /\ health' = "failed"
    /\ UNCHANGED <<pc, queue, lock, cancelled, queuedMode>>

\* The caller sets its token at any time during the call.
Cancel(w) ==
    /\ pc[w] \in {"queued", "admitted"} \cup Mutating
    /\ w \notin cancelled
    /\ cancelled' = cancelled \cup {w}
    /\ UNCHANGED <<pc, queue, lock, health, queuedMode>>

-----------------------------------------------------------------------------
(* read(): health, the queue gate (queued mode), the read guard, health.   *)

BeginRead(r) ==
    /\ pc[r] = "idle"
    /\ health = "ok"
    /\ Move(r, IF queuedMode THEN "examining" ELSE "passed")
    /\ UNCHANGED <<queue, lock, cancelled, health, queuedMode>>

QueueBusy == active \/ waiting # <<>>

ReadWaits(r) ==
    /\ pc[r] = "examining"
    /\ QueueBusy
    /\ Move(r, "asleep")
    /\ UNCHANGED <<queue, lock, cancelled, health, queuedMode>>

ReadPasses(r) ==
    /\ pc[r] = "examining"
    /\ ~QueueBusy
    /\ Move(r, "passed")
    /\ UNCHANGED <<queue, lock, cancelled, health, queuedMode>>

ReadGuard(r) ==
    /\ pc[r] = "passed"
    /\ guard = Nobody
    /\ IF poisoned \/ health # "ok"
       THEN Move(r, "idle") /\ UNCHANGED readGuards
       ELSE Move(r, "reading") /\ readGuards' = readGuards \cup {r}
    /\ UNCHANGED <<queue, guard, poisoned, cancelled, health, queuedMode>>

EndRead(r) ==
    /\ pc[r] = "reading"
    /\ readGuards' = readGuards \ {r}
    /\ Move(r, "idle")
    /\ UNCHANGED <<queue, guard, poisoned, cancelled, health, queuedMode>>

-----------------------------------------------------------------------------

\* The steps a writer's thread takes by itself once it has called acquire().
WriterStep(w) ==
    \/ CancelQueued(w) \/ Admit(w) \/ AdmissionFails(w) \/ Withdraw(w)
    \/ DirectFails(w) \/ TakeGuard(w) \/ UnhealthyPermit(w)
    \/ DropPermit(w) \/ DropDirect(w) \/ DropGuard(w) \/ EndRecovery(w)

ReaderStep(r) == ReadWaits(r) \/ ReadPasses(r) \/ ReadGuard(r) \/ EndRead(r)

Next ==
    \/ \E w \in Writers : \/ AcquireDirect(w) \/ Enqueue(w) \/ Cancel(w)
                          \/ BeginRecovery(w) \/ Fail(w) \/ WriterStep(w)
    \/ \E r \in Readers : BeginRead(r) \/ ReaderStep(r)
    \/ \E t \in Threads : Refuse(t)

Spec == Init /\ [][Next]_vars

\* Threads are scheduled, a mutation ends, and a reader drops its guard.
FairSpec ==
    /\ Spec
    /\ \A w \in Writers : WF_vars(WriterStep(w))
    /\ \A r \in Readers : WF_vars(ReaderStep(r))

-----------------------------------------------------------------------------

TypeOK ==
    /\ queuedMode \in BOOLEAN
    /\ pc \in [Threads -> WriterPcs \cup ReaderPcs]
    /\ \A w \in Writers : pc[w] \in WriterPcs
    /\ \A r \in Readers : pc[r] \in ReaderPcs
    /\ ticket \in [Writers -> 0..MaxTicket]
    /\ nextTicket \in 0..MaxTicket
    /\ waiting \in Seq(0..MaxTicket)
    /\ active \in BOOLEAN
    /\ guard \in Writers \cup {Nobody}
    /\ readGuards \subseteq Readers
    /\ poisoned \in BOOLEAN
    /\ cancelled \subseteq Writers
    /\ health \in {"ok", "recovering", "failed"}

\* Writers between their admission and the reset of `active'.
Admitted == {w \in Writers : pc[w] \in {"admitted", "abandoned"} \cup Mutating}

\* `active' is set exactly while one admitted writer is under way.  Every way out
\* of acquire() after the admission (poisoned lock, cancellation, unhealthy
\* workspace, panic) resets it; a leaked flag would block the queue for good.
ActiveHasOneOwner ==
    queuedMode => /\ active <=> Admitted # {}
                  /\ \A v, w \in Admitted : v = w

\* A mutation excludes every other mutation and every snapshot read, also while
\* it restores the workspace after an abort and after `active' was reset but the
\* guard is still held.
MutationExclusive ==
    \A w \in Writers : pc[w] \in Mutating \cup {"releasing", "unwinding"} =>
        /\ guard = w
        /\ \A r \in Readers : pc[r] # "reading"

\* Queued writers start in the order in which they were admitted to the queue: no
\* ticket still waiting is older than the one of an admitted writer.
StartsInAdmissionOrder ==
    \A w \in Admitted : queuedMode =>
        \A i \in DOMAIN waiting : ticket[w] < waiting[i]

\* The tickets of the callers that wait in the queue.
QueuedTickets == {ticket[w] : w \in {v \in Writers : pc[v] = "queued"}}

\* The queue holds exactly the tickets of the callers that wait in it, so its
\* capacity counts unstarted operations and no orphaned ticket can sit at its
\* head after a cancellation.
QueueMatchesCallers ==
    /\ {waiting[i] : i \in DOMAIN waiting} = QueuedTickets
    /\ \A i, j \in DOMAIN waiting : i < j => waiting[i] < waiting[j]
    /\ Len(waiting) <= Capacity

\* No wake-up is lost: a snapshot read sleeps, without a timeout, only while the
\* queue is busy, and every step that empties it notifies.
NoLostWakeup == asleep # {} => QueueBusy

\* A write cancelled before its permit is issued never executes, although the
\* token may be set between its admission and the release of the last reader.
CancelledNeverExecutes ==
    [][\A w \in Writers :
          (queuedMode /\ w \in cancelled /\ pc[w] \notin Mutating) => pc'[w] # "writing"]_vars

\* Every queued write leaves the queue and either starts or returns an error, and
\* every snapshot read at the queue gate is served or refused once the tickets
\* are spent: neither acquire() nor read() waits for ever.
WaitsEnd ==
    /\ \A w \in Writers : pc[w] = "queued" ~> pc[w] \in {"idle", "writing"}
    /\ \A r \in Readers : pc[r] = "examining" ~> pc[r] \in {"idle", "reading"}

\* "Snapshot reads bypass the admission queue" (docs/adr/0015-embedded-write-modes.md):
\* a read waits for the write under way, never for one that has not started.
SnapshotReadsBypassQueue == asleep # {} => active

=============================================================================
