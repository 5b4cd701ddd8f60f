------------------------- MODULE WriteCoordinatorProofs -------------------------
(***************************************************************************)
(* The safety invariants of WriteCoordinator for any number of writers and *)
(* readers, any capacity and any ticket space, in every mode.              *)
(***************************************************************************)
EXTENDS WriteCoordinator, TLAPS

\* Who holds the RwLock, by the place of each thread.
LockInv ==
    /\ \A w \in Writers : guard = w <=> pc[w] \in Mutating \cup {"releasing", "unwinding"}
    /\ \A r \in Readers : r \in readGuards <=> pc[r] = "reading"
    /\ guard # Nobody => readGuards = {}

\* Who holds the active flag; the direct modes use neither flag nor queue.
ActiveInv ==
    /\ ActiveHasOneOwner
    /\ ~queuedMode => /\ ~active
                      /\ waiting = <<>>
                      /\ \A w \in Writers : pc[w] \notin {"queued", "abandoned"}
                      /\ \A r \in Readers : pc[r] \notin {"examining", "asleep"}

\* The queue is the increasing sequence of the queued callers' tickets, all
\* drawn, and a permit that is out has an older ticket than any of them.
QueueInv ==
    /\ \A w \in Writers : pc[w] = "queued" =>
          \E i \in DOMAIN waiting : waiting[i] = ticket[w]
    /\ \A i \in DOMAIN waiting :
          \E w \in Writers : pc[w] = "queued" /\ waiting[i] = ticket[w]
    /\ \A v, w \in Writers :
          pc[v] = "queued" /\ pc[w] = "queued" /\ ticket[v] = ticket[w] => v = w
    /\ \A i, j \in DOMAIN waiting : i < j => waiting[i] < waiting[j]
    /\ \A i \in DOMAIN waiting : waiting[i] < nextTicket
    /\ Len(waiting) <= Capacity
    /\ queuedMode => \A w \in Admitted : /\ ticket[w] < nextTicket
                                         /\ \A i \in DOMAIN waiting : ticket[w] < waiting[i]

IInv == TypeOK /\ LockInv /\ ActiveInv /\ QueueInv /\ NoLostWakeup

\* The time a busy machine may need.
USE SMTT(30), Z3T(30)
\* Facts about the place names used by every step.
USE DEF Threads, WriterPcs, ReaderPcs, Mutating

\* Removing position i keeps the type, the length less one and the order.
LEMMA WithoutFacts ==
    ASSUME NEW S, NEW s \in Seq(S), NEW i \in DOMAIN s
    PROVE  /\ Without(s, i) \in Seq(S)
           /\ Len(Without(s, i)) = Len(s) - 1
           /\ DOMAIN Without(s, i) = 1..(Len(s) - 1)
           /\ \A j \in 1..(Len(s) - 1) :
                 /\ Without(s, i)[j] = IF j < i THEN s[j] ELSE s[j + 1]
                 /\ Without(s, i)[j] \in S
<1>1. Len(s) \in Nat /\ DOMAIN s = 1..Len(s) /\ Len(s) - 1 \in Nat
  OBVIOUS
<1>2. \A j \in 1..(Len(s) - 1) : (IF j < i THEN s[j] ELSE s[j + 1]) \in S
  BY <1>1
<1>3. Without(s, i) \in [1..(Len(s) - 1) -> S]
  BY <1>2 DEF Without
<1>4. Without(s, i) \in Seq(S)
  BY <1>1, <1>3
<1> QED
  BY <1>1, <1>2, <1>3, <1>4 DEF Without

\* A notification by a writer moves no other writer and wakes every sleeper.
LEMMA NotifyFacts ==
    ASSUME TypeOK, NEW w \in Writers, NEW place, NotifyAll(w, place)
    PROVE  /\ pc'[w] = place
           /\ \A v \in Writers : v # w => pc'[v] = pc[v]
           /\ \A r \in Readers : /\ pc'[r] # "asleep"
                                 /\ pc'[r] = pc[r] \/ (pc[r] = "asleep" /\ pc'[r] = "examining")
           /\ asleep' = {}
<1>1. /\ pc'[w] = place
      /\ \A v \in Writers : v # w => pc'[v] = pc[v]
      /\ \A r \in Readers : /\ pc'[r] # "asleep"
                            /\ pc'[r] = pc[r] \/ (pc[r] = "asleep" /\ pc'[r] = "examining")
  BY CoordinatorAssumption DEF NotifyAll, TypeOK, asleep
<1>2. asleep' = {}
  BY <1>1 DEF asleep
<1> QED
  BY <1>1, <1>2

\* A notification leaves every thread at a place of its kind.
LEMMA NotifyType ==
    ASSUME TypeOK, NEW w \in Writers, NEW place \in WriterPcs, NotifyAll(w, place)
    PROVE  /\ pc' \in [Threads -> WriterPcs \cup ReaderPcs]
           /\ \A v \in Writers : pc'[v] \in WriterPcs
           /\ \A r \in Readers : pc'[r] \in ReaderPcs
<1>1. /\ \A v \in Writers : pc'[v] \in WriterPcs
      /\ \A r \in Readers : pc'[r] \in ReaderPcs
  BY NotifyFacts DEF TypeOK
<1>2. \A t \in Threads : pc'[t] \in WriterPcs \cup ReaderPcs
  BY <1>1
<1>3. pc' = [t \in Threads |-> pc'[t]]
  BY DEF NotifyAll
<1>4. pc' \in [Threads -> WriterPcs \cup ReaderPcs]
  BY <1>2, <1>3
<1> QED
  BY <1>1, <1>4

\* The invariant is inductive: one step per action.
LEMMA StepPreservesInvariant == IInv /\ [Next]_vars => IInv'
<1> SUFFICES ASSUME IInv, [Next]_vars PROVE IInv'
  OBVIOUS
<1>1. ASSUME NEW w \in Writers, AcquireDirect(w) PROVE IInv'
  <2>1. TypeOK'
    BY <1>1, CoordinatorAssumption DEF IInv, TypeOK, AcquireDirect, Move, queue, lock
  <2>2. LockInv'
    BY <1>1, CoordinatorAssumption DEF IInv, TypeOK, LockInv, AcquireDirect, Move, queue, lock
  <2>3. ActiveInv'
    BY <1>1, CoordinatorAssumption DEF IInv, TypeOK, LockInv, ActiveInv, ActiveHasOneOwner, Admitted, AcquireDirect, Move, queue, lock
  <2>4. QueueInv'
    BY <1>1, CoordinatorAssumption DEF IInv, TypeOK, ActiveInv, ActiveHasOneOwner, QueueInv, Admitted, AcquireDirect, Move, queue, lock
  <2>5. NoLostWakeup'
    BY <1>1, CoordinatorAssumption DEF IInv, TypeOK, NoLostWakeup, ActiveInv, ActiveHasOneOwner, Admitted, AcquireDirect, Move, asleep, queue, lock, QueueBusy
  <2> QED BY <2>1, <2>2, <2>3, <2>4, <2>5 DEF IInv
<1>2. ASSUME NEW w \in Writers, Enqueue(w) PROVE IInv'
  <2>1. TypeOK'
    BY <1>2, CoordinatorAssumption DEF IInv, TypeOK, Enqueue, Move, lock
  <2>2. LockInv'
    BY <1>2, CoordinatorAssumption DEF IInv, TypeOK, LockInv, Enqueue, Move, lock
  <2>3. ActiveInv'
    BY <1>2, CoordinatorAssumption DEF IInv, TypeOK, LockInv, ActiveInv, ActiveHasOneOwner, Admitted, Enqueue, Move, lock
  <2>4. QueueInv'
    <3>1. /\ Len(waiting') = Len(waiting) + 1
          /\ DOMAIN waiting = 1..Len(waiting) /\ Len(waiting) \in Nat
          /\ DOMAIN waiting' = 1..(Len(waiting) + 1)
          /\ \A i \in 1..Len(waiting) : waiting'[i] = waiting[i]
          /\ waiting'[Len(waiting) + 1] = nextTicket
      BY <1>2 DEF IInv, TypeOK, Enqueue
    <3>2. /\ pc' = [pc EXCEPT ![w] = "queued"] /\ ticket' = [ticket EXCEPT ![w] = nextTicket]
          /\ nextTicket' = nextTicket + 1 /\ Len(waiting) < Capacity
          /\ pc[w] = "idle" /\ active' = active
      BY <1>2 DEF Enqueue, Move
    <3>3. \A v \in Writers : pc[v] = "queued" => ticket[v] < nextTicket
      BY DEF IInv, QueueInv, TypeOK
    <3>4. Admitted' = Admitted
      BY <3>2, CoordinatorAssumption DEF Admitted, IInv, TypeOK
    <3>5. \A v \in Writers : /\ pc'[v] = IF v = w THEN "queued" ELSE pc[v]
                            /\ ticket'[v] = IF v = w THEN nextTicket ELSE ticket[v]
      BY <3>2 DEF IInv, TypeOK
    <3>6. w \notin Admitted
      BY <3>2 DEF Admitted
    <3>7. ASSUME NEW v \in Writers, pc'[v] = "queued"
          PROVE  \E i \in DOMAIN waiting' : waiting'[i] = ticket'[v]
      <4>1. CASE v = w
        BY <3>1, <3>5, <4>1
      <4>2. CASE v # w
        <5>1. PICK i \in DOMAIN waiting : waiting[i] = ticket[v]
          BY <3>5, <3>7, <4>2 DEF IInv, QueueInv
        <5> QED BY <3>1, <3>5, <4>2, <5>1
      <4> QED BY <4>1, <4>2
    <3>8. ASSUME NEW i \in DOMAIN waiting'
          PROVE  \E v \in Writers : pc'[v] = "queued" /\ waiting'[i] = ticket'[v]
      <4>1. CASE i = Len(waiting) + 1
        BY <3>1, <3>5, <4>1
      <4>2. CASE i \in DOMAIN waiting
        <5>1. PICK v \in Writers : pc[v] = "queued" /\ waiting[i] = ticket[v]
          BY <4>2 DEF IInv, QueueInv
        <5> QED BY <3>1, <3>2, <3>5, <4>2, <5>1
      <4> QED BY <3>1, <4>1, <4>2
    <3>9. \A u, v \in Writers :
             pc'[u] = "queued" /\ pc'[v] = "queued" /\ ticket'[u] = ticket'[v] => u = v
      BY <3>3, <3>5 DEF IInv, TypeOK, QueueInv
    <3>10. nextTicket \in Nat /\ \A i \in DOMAIN waiting : waiting[i] < nextTicket /\ waiting[i] \in Nat
      BY CoordinatorAssumption DEF IInv, TypeOK, QueueInv
    <3>11. /\ \A i, j \in DOMAIN waiting' : i < j => waiting'[i] < waiting'[j]
           /\ \A i \in DOMAIN waiting' : waiting'[i] < nextTicket'
      <4>1. \A i, j \in DOMAIN waiting : i < j => waiting[i] < waiting[j]
        BY DEF IInv, QueueInv
      <4>2. ASSUME NEW i \in DOMAIN waiting', NEW j \in DOMAIN waiting', i < j
            PROVE  waiting'[i] < waiting'[j]
        <5>1. i \in DOMAIN waiting /\ waiting'[i] = waiting[i]
          BY <3>1, <4>2
        <5>2. CASE j = Len(waiting) + 1
          BY <3>1, <3>10, <5>1, <5>2
        <5>3. CASE j \in DOMAIN waiting
          BY <3>1, <4>1, <4>2, <5>1, <5>3
        <5> QED BY <3>1, <5>2, <5>3
      <4>3. \A i \in DOMAIN waiting' : waiting'[i] < nextTicket'
        BY <3>1, <3>2, <3>10
      <4> QED BY <4>2, <4>3
    <3>12. Len(waiting') <= Capacity
      BY <3>1, <3>2, CoordinatorAssumption
    <3>13. queuedMode => \A v \in Admitted' : /\ ticket'[v] < nextTicket'
                                              /\ \A i \in DOMAIN waiting' : ticket'[v] < waiting'[i]
      <4> SUFFICES ASSUME queuedMode, NEW v \in Admitted
                   PROVE  /\ ticket[v] < nextTicket + 1
                          /\ \A i \in DOMAIN waiting' : ticket[v] < waiting'[i]
        BY <3>2, <3>4, <3>5, <3>6 DEF Admitted
      <4>1. ticket[v] \in Nat /\ ticket[v] < nextTicket /\ \A i \in DOMAIN waiting : ticket[v] < waiting[i]
        BY CoordinatorAssumption DEF IInv, TypeOK, QueueInv, Admitted
      <4> QED BY <3>1, <3>10, <4>1
    <3>14. queuedMode' = queuedMode
      BY <1>2 DEF Enqueue
    <3> QED
      BY <3>7, <3>8, <3>9, <3>11, <3>12, <3>13, <3>14 DEF QueueInv
  <2>5. NoLostWakeup'
    BY <1>2, CoordinatorAssumption DEF IInv, TypeOK, NoLostWakeup, ActiveInv, ActiveHasOneOwner, Admitted, Enqueue, Move, asleep, lock, QueueBusy
  <2> QED BY <2>1, <2>2, <2>3, <2>4, <2>5 DEF IInv
<1>3. ASSUME NEW w \in Writers, Cancel(w) PROVE IInv'
  <2>1. TypeOK'
    BY <1>3, CoordinatorAssumption DEF IInv, TypeOK, Cancel, queue, lock
  <2>2. LockInv'
    BY <1>3, CoordinatorAssumption DEF IInv, TypeOK, LockInv, Cancel, queue, lock
  <2>3. ActiveInv'
    BY <1>3, CoordinatorAssumption DEF IInv, TypeOK, LockInv, ActiveInv, ActiveHasOneOwner, Admitted, Cancel, queue, lock
  <2>4. QueueInv'
    BY <1>3, CoordinatorAssumption DEF IInv, TypeOK, ActiveInv, ActiveHasOneOwner, QueueInv, Admitted, Cancel, queue, lock
  <2>5. NoLostWakeup'
    BY <1>3, CoordinatorAssumption DEF IInv, TypeOK, NoLostWakeup, ActiveInv, ActiveHasOneOwner, Admitted, Cancel, asleep, queue, lock, QueueBusy
  <2> QED BY <2>1, <2>2, <2>3, <2>4, <2>5 DEF IInv
<1>4. ASSUME NEW w \in Writers, BeginRecovery(w) PROVE IInv'
  <2>1. TypeOK'
    BY <1>4, CoordinatorAssumption DEF IInv, TypeOK, BeginRecovery, Move, queue, lock
  <2>2. LockInv'
    BY <1>4, CoordinatorAssumption DEF IInv, TypeOK, LockInv, BeginRecovery, Move, queue, lock
  <2>3. ActiveInv'
    BY <1>4, CoordinatorAssumption DEF IInv, TypeOK, LockInv, ActiveInv, ActiveHasOneOwner, Admitted, BeginRecovery, Move, queue, lock
  <2>4. QueueInv'
    BY <1>4, CoordinatorAssumption DEF IInv, TypeOK, ActiveInv, ActiveHasOneOwner, QueueInv, Admitted, BeginRecovery, Move, queue, lock
  <2>5. NoLostWakeup'
    BY <1>4, CoordinatorAssumption DEF IInv, TypeOK, NoLostWakeup, ActiveInv, ActiveHasOneOwner, Admitted, BeginRecovery, Move, asleep, queue, lock, QueueBusy
  <2> QED BY <2>1, <2>2, <2>3, <2>4, <2>5 DEF IInv
<1>5. ASSUME NEW w \in Writers, CancelQueued(w) PROVE IInv'
  <2>1. TypeOK'
    <3>1. PICK i \in DOMAIN waiting : waiting[i] = ticket[w] /\ waiting' = Without(waiting, i)
      BY <1>5 DEF CancelQueued
    <3>2. waiting' \in Seq(0..MaxTicket)
      BY <3>1, WithoutFacts DEF IInv, TypeOK
    <3>3. pc' \in [Threads -> WriterPcs \cup ReaderPcs]
      BY <1>5 DEF IInv, TypeOK, CancelQueued, NotifyAll
    <3> QED
      BY <1>5, <3>2, <3>3, NotifyFacts DEF IInv, TypeOK, CancelQueued, lock
  <2>2. LockInv'
    BY <1>5, CoordinatorAssumption DEF IInv, TypeOK, LockInv, CancelQueued, NotifyAll, asleep, lock
  <2>3. ActiveInv'
    <3>1. Admitted' = Admitted
      BY <1>5, NotifyFacts DEF CancelQueued, IInv, Admitted
    <3>2. queuedMode
      BY <1>5 DEF CancelQueued, IInv, ActiveInv
    <3> QED
      BY <1>5, <3>1, <3>2 DEF CancelQueued, IInv, ActiveInv, ActiveHasOneOwner
  <2>4. QueueInv'
    <3>1. PICK i \in DOMAIN waiting : waiting[i] = ticket[w] /\ waiting' = Without(waiting, i)
      BY <1>5 DEF CancelQueued
    <3>2. /\ DOMAIN waiting = 1..Len(waiting) /\ Len(waiting) \in Nat
          /\ Len(waiting') = Len(waiting) - 1
          /\ DOMAIN waiting' = 1..(Len(waiting) - 1)
          /\ \A j \in 1..(Len(waiting) - 1) :
                waiting'[j] = IF j < i THEN waiting[j] ELSE waiting[j + 1]
      BY <3>1, WithoutFacts DEF IInv, TypeOK
    <3>3. /\ pc[w] = "queued" /\ pc'[w] = "idle" /\ ticket' = ticket
          /\ nextTicket' = nextTicket
          /\ \A v \in Writers : v # w => pc'[v] = pc[v]
      BY <1>5, NotifyFacts DEF CancelQueued, IInv
    <3>4. Admitted' = Admitted
      BY <3>3 DEF Admitted
    <3>5. ASSUME NEW v \in Writers, pc'[v] = "queued"
          PROVE  \E k \in DOMAIN waiting' : waiting'[k] = ticket'[v]
      <4>1. v # w /\ pc[v] = "queued"
        BY <3>3, <3>5
      <4>2. PICK k \in DOMAIN waiting : waiting[k] = ticket[v]
        BY <4>1 DEF IInv, QueueInv
      <4>3. k # i
        BY <3>1, <3>3, <4>1, <4>2 DEF IInv, QueueInv
      <4>4. CASE k < i
        BY <3>2, <3>3, <4>2, <4>4
      <4>5. CASE k > i
        <5>1. k - 1 \in DOMAIN waiting' /\ waiting'[k - 1] = waiting[k]
          BY <3>2, <4>5
        <5> QED BY <5>1, <3>3, <4>2
      <4> QED BY <3>2, <4>3, <4>4, <4>5
    <3>6. ASSUME NEW j \in DOMAIN waiting'
          PROVE  \E k \in DOMAIN waiting : /\ k # i /\ waiting'[j] = waiting[k]
                                          /\ k = IF j < i THEN j ELSE j + 1
      BY <3>2
    <3>7. ASSUME NEW j \in DOMAIN waiting'
          PROVE  \E v \in Writers : pc'[v] = "queued" /\ waiting'[j] = ticket'[v]
      <4>1. PICK k \in DOMAIN waiting : k # i /\ waiting'[j] = waiting[k]
        BY <3>6
      <4>2. PICK v \in Writers : pc[v] = "queued" /\ waiting[k] = ticket[v]
        BY DEF IInv, QueueInv
      <4>3. waiting[k] # waiting[i]
        BY <3>2, <4>1 DEF IInv, QueueInv, TypeOK
      <4>4. v # w
        BY <3>1, <4>2, <4>3
      <4> QED BY <3>3, <4>1, <4>2, <4>4
    <3>8. \A j, k \in DOMAIN waiting' : j < k => waiting'[j] < waiting'[k]
      <4> SUFFICES ASSUME NEW j \in DOMAIN waiting', NEW k \in DOMAIN waiting', j < k
                   PROVE  waiting'[j] < waiting'[k]
        OBVIOUS
      <4> DEFINE a == IF j < i THEN j ELSE j + 1
                 b == IF k < i THEN k ELSE k + 1
      <4>1. /\ a \in DOMAIN waiting /\ b \in DOMAIN waiting /\ a < b
            /\ waiting'[j] = waiting[a] /\ waiting'[k] = waiting[b]
        BY <3>2
      <4> QED BY <4>1 DEF IInv, QueueInv
    <3>9. \A j \in DOMAIN waiting' : waiting'[j] < nextTicket'
      BY <3>3, <3>6 DEF IInv, QueueInv
    <3>10. queuedMode => \A v \in Admitted' : /\ ticket'[v] < nextTicket'
                                              /\ \A j \in DOMAIN waiting' : ticket'[v] < waiting'[j]
      BY <3>3, <3>4, <3>6 DEF IInv, QueueInv
    <3>11. \A u, v \in Writers :
              pc'[u] = "queued" /\ pc'[v] = "queued" /\ ticket'[u] = ticket'[v] => u = v
      BY <3>3 DEF IInv, QueueInv
    <3>12. Len(waiting') <= Capacity
      BY <3>2, CoordinatorAssumption DEF IInv, QueueInv
    <3>13. queuedMode' = queuedMode
      BY <1>5 DEF CancelQueued
    <3> QED
      BY <3>5, <3>7, <3>8, <3>9, <3>10, <3>11, <3>12, <3>13 DEF QueueInv
  <2>5. NoLostWakeup'
    BY <1>5, NotifyFacts DEF IInv, NoLostWakeup, CancelQueued
  <2> QED BY <2>1, <2>2, <2>3, <2>4, <2>5 DEF IInv
<1>6. ASSUME NEW w \in Writers, Admit(w) PROVE IInv'
  <2>1. TypeOK'
    BY <1>6, CoordinatorAssumption DEF IInv, TypeOK, Admit, Move, lock
  <2>2. LockInv'
    BY <1>6, CoordinatorAssumption DEF IInv, TypeOK, LockInv, Admit, Move, lock
  <2>3. ActiveInv'
    BY <1>6, CoordinatorAssumption DEF IInv, TypeOK, LockInv, ActiveInv, ActiveHasOneOwner, Admitted, Admit, Move, lock
  <2>4. QueueInv'
    <3>1. /\ Len(waiting) \in Nat /\ DOMAIN waiting = 1..Len(waiting)
          /\ waiting # <<>> /\ 1 \in DOMAIN waiting /\ waiting[1] = ticket[w]
          /\ Len(waiting') = Len(waiting) - 1
          /\ DOMAIN waiting' = 1..(Len(waiting) - 1)
          /\ \A j \in 1..(Len(waiting) - 1) : waiting'[j] = waiting[j + 1]
      BY <1>6 DEF Admit, IInv, TypeOK
    <3>2. /\ pc' = [pc EXCEPT ![w] = "admitted"] /\ pc[w] = "queued"
          /\ ticket' = ticket /\ nextTicket' = nextTicket /\ ~active
      BY <1>6 DEF Admit, Move
    <3>3. \A v \in Writers : pc'[v] = IF v = w THEN "admitted" ELSE pc[v]
      BY <3>2 DEF IInv, TypeOK
    <3>4. queuedMode => Admitted' = {w}
      BY <3>2, <3>3 DEF IInv, ActiveInv, ActiveHasOneOwner, Admitted
    <3>5. \A j \in DOMAIN waiting' : j + 1 \in DOMAIN waiting /\ waiting'[j] = waiting[j + 1]
      BY <3>1
    <3>6. \A j \in DOMAIN waiting' : ticket[w] < waiting'[j]
      <4> SUFFICES ASSUME NEW j \in DOMAIN waiting' PROVE waiting[1] < waiting[j + 1]
        BY <3>1, <3>5
      <4>1. 1 < j + 1 /\ j + 1 \in DOMAIN waiting
        BY <3>1
      <4> QED BY <3>1, <4>1 DEF IInv, QueueInv
    <3>7. ASSUME NEW v \in Writers, pc'[v] = "queued"
          PROVE  \E k \in DOMAIN waiting' : waiting'[k] = ticket'[v]
      <4>1. v # w /\ pc[v] = "queued"
        BY <3>3, <3>7
      <4>2. PICK k \in DOMAIN waiting : waiting[k] = ticket[v]
        BY <4>1 DEF IInv, QueueInv
      <4>3. k # 1
        BY <3>1, <3>2, <4>1, <4>2 DEF IInv, QueueInv
      <4>4. k - 1 \in DOMAIN waiting' /\ waiting'[k - 1] = waiting[k]
        BY <3>1, <4>3
      <4> QED BY <3>2, <4>2, <4>4
    <3>8. ASSUME NEW j \in DOMAIN waiting'
          PROVE  \E v \in Writers : pc'[v] = "queued" /\ waiting'[j] = ticket'[v]
      <4>1. PICK v \in Writers : pc[v] = "queued" /\ waiting[j + 1] = ticket[v]
        BY <3>5 DEF IInv, QueueInv
      <4>2. v # w
        BY <3>5, <3>6, <4>1 DEF IInv, TypeOK
      <4> QED BY <3>2, <3>3, <3>5, <4>1, <4>2
    <3>9. \A j, k \in DOMAIN waiting' : j < k => waiting'[j] < waiting'[k]
      <4> SUFFICES ASSUME NEW j \in DOMAIN waiting', NEW k \in DOMAIN waiting', j < k
                   PROVE  waiting[j + 1] < waiting[k + 1]
        BY <3>5
      <4>1. j + 1 \in DOMAIN waiting /\ k + 1 \in DOMAIN waiting /\ j + 1 < k + 1
        BY <3>1
      <4> QED BY <4>1 DEF IInv, QueueInv
    <3>10. \A j \in DOMAIN waiting' : waiting'[j] < nextTicket'
      BY <3>2, <3>5 DEF IInv, QueueInv
    <3>11. ticket[w] < nextTicket
      BY <3>1 DEF IInv, QueueInv
    <3>12. \A u, v \in Writers :
              pc'[u] = "queued" /\ pc'[v] = "queued" /\ ticket'[u] = ticket'[v] => u = v
      BY <3>2, <3>3 DEF IInv, QueueInv
    <3>13. Len(waiting') <= Capacity
      BY <3>1, CoordinatorAssumption DEF IInv, QueueInv
    <3>14. queuedMode' = queuedMode
      BY <1>6 DEF Admit
    <3> QED
      BY <3>2, <3>4, <3>6, <3>7, <3>8, <3>9, <3>10, <3>11, <3>12, <3>13, <3>14 DEF QueueInv
  <2>5. NoLostWakeup'
    BY <1>6, CoordinatorAssumption DEF IInv, TypeOK, NoLostWakeup, ActiveInv, ActiveHasOneOwner, Admitted, Admit, Move, asleep, lock, QueueBusy
  <2> QED BY <2>1, <2>2, <2>3, <2>4, <2>5 DEF IInv
<1>7. ASSUME NEW w \in Writers, AdmissionFails(w) PROVE IInv'
  <2>1. TypeOK'
    BY <1>7, CoordinatorAssumption DEF IInv, TypeOK, AdmissionFails, Move, queue, lock, Unlocked
  <2>2. LockInv'
    BY <1>7, CoordinatorAssumption DEF IInv, TypeOK, LockInv, AdmissionFails, Move, queue, lock, Unlocked
  <2>3. ActiveInv'
    BY <1>7, CoordinatorAssumption DEF IInv, TypeOK, LockInv, ActiveInv, ActiveHasOneOwner, Admitted, AdmissionFails, Move, queue, lock, Unlocked
  <2>4. QueueInv'
    BY <1>7, CoordinatorAssumption DEF IInv, TypeOK, ActiveInv, ActiveHasOneOwner, QueueInv, Admitted, AdmissionFails, Move, queue, lock, Unlocked
  <2>5. NoLostWakeup'
    BY <1>7, CoordinatorAssumption DEF IInv, TypeOK, NoLostWakeup, ActiveInv, ActiveHasOneOwner, Admitted, AdmissionFails, Move, asleep, queue, lock, Unlocked, QueueBusy
  <2> QED BY <2>1, <2>2, <2>3, <2>4, <2>5 DEF IInv
<1>8. ASSUME NEW w \in Writers, Withdraw(w) PROVE IInv'
  <2>1. TypeOK'
    <3>1. NotifyAll(w, "idle") /\ "idle" \in WriterPcs
      BY <1>8 DEF Withdraw
    <3> QED BY <1>8, <3>1, NotifyType, Zenon DEF IInv, TypeOK, Withdraw, lock
  <2>2. LockInv'
    BY <1>8, CoordinatorAssumption DEF IInv, TypeOK, LockInv, Withdraw, NotifyAll, asleep, lock
  <2>3. ActiveInv'
    <3>1. Admitted' = Admitted \ {w}
      BY <1>8, NotifyFacts DEF Withdraw, IInv, Admitted, DropTo
    <3>2. queuedMode
      BY <1>8 DEF Withdraw, IInv, ActiveInv
    <3>3. w \in Admitted
      BY <1>8 DEF Withdraw, Admitted
    <3> QED
      BY <1>8, <3>1, <3>2, <3>3 DEF Withdraw, IInv, ActiveInv, ActiveHasOneOwner
  <2>4. QueueInv'
    BY <1>8, CoordinatorAssumption DEF IInv, TypeOK, ActiveInv, ActiveHasOneOwner, QueueInv, Admitted, Withdraw, NotifyAll, asleep, lock
  <2>5. NoLostWakeup'
    BY <1>8, NotifyFacts DEF IInv, NoLostWakeup, Withdraw
  <2> QED BY <2>1, <2>2, <2>3, <2>4, <2>5 DEF IInv
<1>9. ASSUME NEW w \in Writers, DirectFails(w) PROVE IInv'
  <2>1. TypeOK'
    BY <1>9, CoordinatorAssumption DEF IInv, TypeOK, DirectFails, Move, queue, lock, Unlocked
  <2>2. LockInv'
    BY <1>9, CoordinatorAssumption DEF IInv, TypeOK, LockInv, DirectFails, Move, queue, lock, Unlocked
  <2>3. ActiveInv'
    BY <1>9, CoordinatorAssumption DEF IInv, TypeOK, LockInv, ActiveInv, ActiveHasOneOwner, Admitted, DirectFails, Move, queue, lock, Unlocked
  <2>4. QueueInv'
    BY <1>9, CoordinatorAssumption DEF IInv, TypeOK, ActiveInv, ActiveHasOneOwner, QueueInv, Admitted, DirectFails, Move, queue, lock, Unlocked
  <2>5. NoLostWakeup'
    BY <1>9, CoordinatorAssumption DEF IInv, TypeOK, NoLostWakeup, ActiveInv, ActiveHasOneOwner, Admitted, DirectFails, Move, asleep, queue, lock, Unlocked, QueueBusy
  <2> QED BY <2>1, <2>2, <2>3, <2>4, <2>5 DEF IInv
<1>10. ASSUME NEW w \in Writers, TakeGuard(w) PROVE IInv'
  <2>1. TypeOK'
    BY <1>10, CoordinatorAssumption DEF IInv, TypeOK, TakeGuard, Move, queue, Unlocked
  <2>2. LockInv'
    BY <1>10, CoordinatorAssumption DEF IInv, TypeOK, LockInv, TakeGuard, Move, queue, Unlocked
  <2>3. ActiveInv'
    BY <1>10, CoordinatorAssumption DEF IInv, TypeOK, LockInv, ActiveInv, ActiveHasOneOwner, Admitted, TakeGuard, Move, queue, Unlocked
  <2>4. QueueInv'
    BY <1>10, CoordinatorAssumption DEF IInv, TypeOK, ActiveInv, ActiveHasOneOwner, QueueInv, Admitted, TakeGuard, Move, queue, Unlocked
  <2>5. NoLostWakeup'
    BY <1>10, CoordinatorAssumption DEF IInv, TypeOK, NoLostWakeup, ActiveInv, ActiveHasOneOwner, Admitted, TakeGuard, Move, asleep, queue, Unlocked, QueueBusy
  <2> QED BY <2>1, <2>2, <2>3, <2>4, <2>5 DEF IInv
<1>11. ASSUME NEW w \in Writers, UnhealthyPermit(w) PROVE IInv'
  <2>1. TypeOK'
    <3>1. NotifyAll(w, "releasing") /\ "releasing" \in WriterPcs
      BY <1>11 DEF UnhealthyPermit
    <3> QED BY <1>11, <3>1, NotifyType, Zenon DEF IInv, TypeOK, UnhealthyPermit
  <2>2. LockInv'
    BY <1>11, CoordinatorAssumption DEF IInv, TypeOK, LockInv, UnhealthyPermit, NotifyAll, asleep, Unlocked
  <2>3. ActiveInv'
    <3>1. Admitted' = Admitted \ {w}
      BY <1>11, NotifyFacts DEF UnhealthyPermit, IInv, Admitted, DropTo
    <3>2. queuedMode
      BY <1>11 DEF UnhealthyPermit, IInv, ActiveInv
    <3>3. w \in Admitted
      BY <1>11 DEF UnhealthyPermit, Admitted
    <3> QED
      BY <1>11, <3>1, <3>2, <3>3 DEF UnhealthyPermit, IInv, ActiveInv, ActiveHasOneOwner
  <2>4. QueueInv'
    BY <1>11, CoordinatorAssumption DEF IInv, TypeOK, ActiveInv, ActiveHasOneOwner, QueueInv, Admitted, UnhealthyPermit, NotifyAll, asleep, Unlocked
  <2>5. NoLostWakeup'
    BY <1>11, NotifyFacts DEF IInv, NoLostWakeup, UnhealthyPermit
  <2> QED BY <2>1, <2>2, <2>3, <2>4, <2>5 DEF IInv
<1>12. ASSUME NEW w \in Writers, DropPermit(w) PROVE IInv'
  <2>1. TypeOK'
    <3>1. PICK place \in WriterPcs : NotifyAll(w, place)
      BY <1>12 DEF DropPermit, DropTo
    <3> QED BY <1>12, <3>1, NotifyType, Zenon DEF IInv, TypeOK, DropPermit, lock
  <2>2. LockInv'
    BY <1>12, CoordinatorAssumption DEF IInv, TypeOK, LockInv, DropPermit, NotifyAll, asleep, lock, DropTo
  <2>3. ActiveInv'
    <3>1. Admitted' = Admitted \ {w}
      BY <1>12, NotifyFacts DEF DropPermit, IInv, Admitted, DropTo
    <3>2. queuedMode
      BY <1>12 DEF DropPermit, IInv, ActiveInv
    <3>3. w \in Admitted
      BY <1>12 DEF DropPermit, Admitted
    <3> QED
      BY <1>12, <3>1, <3>2, <3>3 DEF DropPermit, IInv, ActiveInv, ActiveHasOneOwner
  <2>4. QueueInv'
    BY <1>12, CoordinatorAssumption DEF IInv, TypeOK, ActiveInv, ActiveHasOneOwner, QueueInv, Admitted, DropPermit, NotifyAll, asleep, lock, DropTo
  <2>5. NoLostWakeup'
    BY <1>12, NotifyFacts DEF IInv, NoLostWakeup, DropPermit
  <2> QED BY <2>1, <2>2, <2>3, <2>4, <2>5 DEF IInv
<1>13. ASSUME NEW w \in Writers, DropDirect(w) PROVE IInv'
  <2>1. TypeOK'
    BY <1>13, CoordinatorAssumption DEF IInv, TypeOK, DropDirect, Move, queue, lock, DropTo
  <2>2. LockInv'
    BY <1>13, CoordinatorAssumption DEF IInv, TypeOK, LockInv, DropDirect, Move, queue, lock, DropTo
  <2>3. ActiveInv'
    BY <1>13, CoordinatorAssumption DEF IInv, TypeOK, LockInv, ActiveInv, ActiveHasOneOwner, Admitted, DropDirect, Move, queue, lock, DropTo
  <2>4. QueueInv'
    BY <1>13, CoordinatorAssumption DEF IInv, TypeOK, ActiveInv, ActiveHasOneOwner, QueueInv, Admitted, DropDirect, Move, queue, lock, DropTo
  <2>5. NoLostWakeup'
    BY <1>13, CoordinatorAssumption DEF IInv, TypeOK, NoLostWakeup, ActiveInv, ActiveHasOneOwner, Admitted, DropDirect, Move, asleep, queue, lock, QueueBusy, DropTo
  <2> QED BY <2>1, <2>2, <2>3, <2>4, <2>5 DEF IInv
<1>14. ASSUME NEW w \in Writers, DropGuard(w) PROVE IInv'
  <2>1. TypeOK'
    BY <1>14, CoordinatorAssumption DEF IInv, TypeOK, DropGuard, Move, queue
  <2>2. LockInv'
    BY <1>14, CoordinatorAssumption DEF IInv, TypeOK, LockInv, DropGuard, Move, queue
  <2>3. ActiveInv'
    BY <1>14, CoordinatorAssumption DEF IInv, TypeOK, LockInv, ActiveInv, ActiveHasOneOwner, Admitted, DropGuard, Move, queue
  <2>4. QueueInv'
    BY <1>14, CoordinatorAssumption DEF IInv, TypeOK, ActiveInv, ActiveHasOneOwner, QueueInv, Admitted, DropGuard, Move, queue
  <2>5. NoLostWakeup'
    BY <1>14, CoordinatorAssumption DEF IInv, TypeOK, NoLostWakeup, ActiveInv, ActiveHasOneOwner, Admitted, DropGuard, Move, asleep, queue, QueueBusy
  <2> QED BY <2>1, <2>2, <2>3, <2>4, <2>5 DEF IInv
<1>15. ASSUME NEW w \in Writers, EndRecovery(w) PROVE IInv'
  <2>1. TypeOK'
    BY <1>15, CoordinatorAssumption DEF IInv, TypeOK, EndRecovery, Move, queue, lock
  <2>2. LockInv'
    BY <1>15, CoordinatorAssumption DEF IInv, TypeOK, LockInv, EndRecovery, Move, queue, lock
  <2>3. ActiveInv'
    BY <1>15, CoordinatorAssumption DEF IInv, TypeOK, LockInv, ActiveInv, ActiveHasOneOwner, Admitted, EndRecovery, Move, queue, lock
  <2>4. QueueInv'
    BY <1>15, CoordinatorAssumption DEF IInv, TypeOK, ActiveInv, ActiveHasOneOwner, QueueInv, Admitted, EndRecovery, Move, queue, lock
  <2>5. NoLostWakeup'
    BY <1>15, CoordinatorAssumption DEF IInv, TypeOK, NoLostWakeup, ActiveInv, ActiveHasOneOwner, Admitted, EndRecovery, Move, asleep, queue, lock, QueueBusy
  <2> QED BY <2>1, <2>2, <2>3, <2>4, <2>5 DEF IInv
<1>16. ASSUME NEW r \in Readers, BeginRead(r) PROVE IInv'
  <2>1. TypeOK'
    BY <1>16, CoordinatorAssumption DEF IInv, TypeOK, BeginRead, Move, queue, lock
  <2>2. LockInv'
    BY <1>16, CoordinatorAssumption DEF IInv, TypeOK, LockInv, BeginRead, Move, queue, lock
  <2>3. ActiveInv'
    BY <1>16, CoordinatorAssumption DEF IInv, TypeOK, LockInv, ActiveInv, ActiveHasOneOwner, Admitted, BeginRead, Move, queue, lock
  <2>4. QueueInv'
    BY <1>16, CoordinatorAssumption DEF IInv, TypeOK, ActiveInv, ActiveHasOneOwner, QueueInv, Admitted, BeginRead, Move, queue, lock
  <2>5. NoLostWakeup'
    BY <1>16, CoordinatorAssumption DEF IInv, TypeOK, NoLostWakeup, ActiveInv, ActiveHasOneOwner, Admitted, BeginRead, Move, asleep, queue, lock, QueueBusy
  <2> QED BY <2>1, <2>2, <2>3, <2>4, <2>5 DEF IInv
<1>17. ASSUME NEW r \in Readers, ReadWaits(r) PROVE IInv'
  <2>1. TypeOK'
    BY <1>17, CoordinatorAssumption DEF IInv, TypeOK, ReadWaits, Move, queue, lock, QueueBusy
  <2>2. LockInv'
    BY <1>17, CoordinatorAssumption DEF IInv, TypeOK, LockInv, ReadWaits, Move, queue, lock, QueueBusy
  <2>3. ActiveInv'
    BY <1>17, CoordinatorAssumption DEF IInv, TypeOK, LockInv, ActiveInv, ActiveHasOneOwner, Admitted, ReadWaits, Move, queue, lock, QueueBusy
  <2>4. QueueInv'
    BY <1>17, CoordinatorAssumption DEF IInv, TypeOK, ActiveInv, ActiveHasOneOwner, QueueInv, Admitted, ReadWaits, Move, queue, lock, QueueBusy
  <2>5. NoLostWakeup'
    BY <1>17, CoordinatorAssumption DEF IInv, TypeOK, NoLostWakeup, ActiveInv, ActiveHasOneOwner, Admitted, ReadWaits, Move, asleep, queue, lock, QueueBusy
  <2> QED BY <2>1, <2>2, <2>3, <2>4, <2>5 DEF IInv
<1>18. ASSUME NEW r \in Readers, ReadPasses(r) PROVE IInv'
  <2>1. TypeOK'
    BY <1>18, CoordinatorAssumption DEF IInv, TypeOK, ReadPasses, Move, queue, lock, QueueBusy
  <2>2. LockInv'
    BY <1>18, CoordinatorAssumption DEF IInv, TypeOK, LockInv, ReadPasses, Move, queue, lock, QueueBusy
  <2>3. ActiveInv'
    BY <1>18, CoordinatorAssumption DEF IInv, TypeOK, LockInv, ActiveInv, ActiveHasOneOwner, Admitted, ReadPasses, Move, queue, lock, QueueBusy
  <2>4. QueueInv'
    BY <1>18, CoordinatorAssumption DEF IInv, TypeOK, ActiveInv, ActiveHasOneOwner, QueueInv, Admitted, ReadPasses, Move, queue, lock, QueueBusy
  <2>5. NoLostWakeup'
    BY <1>18, CoordinatorAssumption DEF IInv, TypeOK, NoLostWakeup, ActiveInv, ActiveHasOneOwner, Admitted, ReadPasses, Move, asleep, queue, lock, QueueBusy
  <2> QED BY <2>1, <2>2, <2>3, <2>4, <2>5 DEF IInv
<1>19. ASSUME NEW r \in Readers, ReadGuard(r) PROVE IInv'
  <2>1. TypeOK'
    BY <1>19, CoordinatorAssumption DEF IInv, TypeOK, ReadGuard, Move, queue
  <2>2. LockInv'
    BY <1>19, CoordinatorAssumption DEF IInv, TypeOK, LockInv, ReadGuard, Move, queue
  <2>3. ActiveInv'
    BY <1>19, CoordinatorAssumption DEF IInv, TypeOK, LockInv, ActiveInv, ActiveHasOneOwner, Admitted, ReadGuard, Move, queue
  <2>4. QueueInv'
    <3>1. \A w \in Writers : pc'[w] = pc[w]
      BY <1>19, CoordinatorAssumption DEF ReadGuard, Move, IInv, TypeOK
    <3>2. Admitted' = Admitted
      BY <3>1 DEF Admitted
    <3> QED
      BY <1>19, <3>1, <3>2 DEF ReadGuard, queue, IInv, QueueInv
  <2>5. NoLostWakeup'
    BY <1>19, CoordinatorAssumption DEF IInv, TypeOK, NoLostWakeup, ActiveInv, ActiveHasOneOwner, Admitted, ReadGuard, Move, asleep, queue, QueueBusy
  <2> QED BY <2>1, <2>2, <2>3, <2>4, <2>5 DEF IInv
<1>20. ASSUME NEW r \in Readers, EndRead(r) PROVE IInv'
  <2>1. TypeOK'
    BY <1>20, CoordinatorAssumption DEF IInv, TypeOK, EndRead, Move, queue
  <2>2. LockInv'
    BY <1>20, CoordinatorAssumption DEF IInv, TypeOK, LockInv, EndRead, Move, queue
  <2>3. ActiveInv'
    BY <1>20, CoordinatorAssumption DEF IInv, TypeOK, LockInv, ActiveInv, ActiveHasOneOwner, Admitted, EndRead, Move, queue
  <2>4. QueueInv'
    BY <1>20, CoordinatorAssumption DEF IInv, TypeOK, ActiveInv, ActiveHasOneOwner, QueueInv, Admitted, EndRead, Move, queue
  <2>5. NoLostWakeup'
    BY <1>20, CoordinatorAssumption DEF IInv, TypeOK, NoLostWakeup, ActiveInv, ActiveHasOneOwner, Admitted, EndRead, Move, asleep, queue, QueueBusy
  <2> QED BY <2>1, <2>2, <2>3, <2>4, <2>5 DEF IInv
<1>21. ASSUME NEW w \in Writers, Fail(w) PROVE IInv'
  <2>1. TypeOK'
    BY <1>21, CoordinatorAssumption DEF IInv, TypeOK, Fail, queue, lock
  <2>2. LockInv'
    BY <1>21, CoordinatorAssumption DEF IInv, TypeOK, LockInv, Fail, queue, lock
  <2>3. ActiveInv'
    BY <1>21, CoordinatorAssumption DEF IInv, TypeOK, LockInv, ActiveInv, ActiveHasOneOwner, Admitted, Fail, queue, lock
  <2>4. QueueInv'
    BY <1>21, CoordinatorAssumption DEF IInv, TypeOK, ActiveInv, ActiveHasOneOwner, QueueInv, Admitted, Fail, queue, lock
  <2>5. NoLostWakeup'
    BY <1>21, CoordinatorAssumption DEF IInv, TypeOK, NoLostWakeup, ActiveInv, ActiveHasOneOwner, Admitted, Fail, asleep, queue, lock, QueueBusy
  <2> QED BY <2>1, <2>2, <2>3, <2>4, <2>5 DEF IInv
<1>22. CASE UNCHANGED vars
  BY <1>22 DEF vars, IInv, TypeOK, LockInv, ActiveInv, ActiveHasOneOwner, Admitted, QueueInv, NoLostWakeup, asleep, QueueBusy
<1> QED
  BY <1>1, <1>2, <1>3, <1>4, <1>5, <1>6, <1>7, <1>8, <1>9, <1>10, <1>11, <1>12, <1>13, <1>14, <1>15, <1>16, <1>17, <1>18, <1>19, <1>20, <1>21, <1>22 DEF Next, WriterStep, ReaderStep, Refuse

LEMMA InitInvariant == Init => IInv
<1> SUFFICES ASSUME Init PROVE IInv
  OBVIOUS
<1>1. TypeOK
  <2>1. 0 \in 0..MaxTicket
    BY CoordinatorAssumption
  <2>2. ticket \in [Writers -> 0..MaxTicket] /\ nextTicket \in 0..MaxTicket
    BY <2>1 DEF Init
  <2>3. waiting \in Seq(0..MaxTicket)
    BY DEF Init
  <2>4. /\ pc \in [Threads -> WriterPcs \cup ReaderPcs]
        /\ \A w \in Writers : pc[w] \in WriterPcs
        /\ \A r \in Readers : pc[r] \in ReaderPcs
    BY DEF Init
  <2> QED BY <2>2, <2>3, <2>4, Zenon DEF Init, TypeOK
<1>2. LockInv
  BY CoordinatorAssumption DEF Init, LockInv
<1>3. Admitted = {}
  BY DEF Init, Admitted
<1>4. ActiveInv
  BY <1>3 DEF Init, ActiveInv, ActiveHasOneOwner
<1>5. DOMAIN waiting = {} /\ Len(waiting) = 0
  BY DEF Init
<1>6. QueueInv
  BY <1>3, <1>5, CoordinatorAssumption DEF Init, QueueInv
<1>7. NoLostWakeup
  BY DEF Init, NoLostWakeup, asleep
<1> QED
  BY <1>1, <1>2, <1>4, <1>6, <1>7 DEF IInv

\* Every reachable state satisfies the inductive invariant.
THEOREM InvariantHolds == Spec => []IInv
BY InitInvariant, StepPreservesInvariant, PTL DEF Spec

\* The variables keep their types; the ticket counter never passes its limit
\* (checked_add in acquire()).
THEOREM TypeCorrect == Spec => []TypeOK
<1>1. IInv => TypeOK
  BY DEF IInv
<1> QED BY <1>1, InvariantHolds, PTL

\* The active flag of the queue has exactly one owner while it is set, on every
\* exit of acquire() and of the permit's Drop.
THEOREM ActiveFlagOwned == Spec => []ActiveHasOneOwner
<1>1. IInv => ActiveHasOneOwner
  BY DEF IInv, ActiveInv
<1> QED BY <1>1, InvariantHolds, PTL

\* A mutation excludes every other mutation and every snapshot read, in every mode.
THEOREM MutationsExclusive == Spec => []MutationExclusive
<1>1. IInv => MutationExclusive
  BY CoordinatorAssumption DEF IInv, LockInv, MutationExclusive
<1> QED BY <1>1, InvariantHolds, PTL

\* Writers start in the order in which acquire() queued them.
THEOREM AdmissionOrder == Spec => []StartsInAdmissionOrder
<1>1. IInv => StartsInAdmissionOrder
  BY DEF IInv, QueueInv, StartsInAdmissionOrder
<1> QED BY <1>1, InvariantHolds, PTL

\* The queue is the sequence of the waiting callers, whatever was cancelled.
THEOREM QueueIsCallers == Spec => []QueueMatchesCallers
<1>1. IInv => QueueMatchesCallers
  <2> SUFFICES ASSUME IInv PROVE QueueMatchesCallers
    OBVIOUS
  <2>1. {waiting[i] : i \in DOMAIN waiting} \subseteq QueuedTickets
    BY DEF IInv, QueueInv, QueuedTickets
  <2>2. QueuedTickets \subseteq {waiting[i] : i \in DOMAIN waiting}
    BY DEF IInv, QueueInv, QueuedTickets
  <2> QED BY <2>1, <2>2 DEF IInv, QueueInv, QueueMatchesCallers
<1> QED BY <1>1, InvariantHolds, PTL

\* No reader sleeps on the condition variable while the queue is idle.
THEOREM WakeupsNotLost == Spec => []NoLostWakeup
<1>1. IInv => NoLostWakeup
  BY DEF IInv
<1> QED BY <1>1, InvariantHolds, PTL

\* A cancelled write is never given its permit.
THEOREM CancelledWritesNeverExecute == Spec => CancelledNeverExecutes
<1>1. IInv /\ [Next]_vars =>
        \A w \in Writers : (queuedMode /\ w \in cancelled /\ pc[w] \notin Mutating) => pc'[w] # "writing"
  <2> SUFFICES ASSUME IInv, [Next]_vars, queuedMode, NEW w \in Writers, w \in cancelled,
                      pc[w] \notin Mutating, pc'[w] = "writing"
               PROVE  FALSE
    OBVIOUS
  <2>1. \A v \in Writers : TakeGuard(v) => v # w
    BY DEF TakeGuard
  <2>2. \A t \in Threads : \A place : Move(t, place) /\ (t # w \/ place # "writing") => FALSE
    BY DEF Move, IInv, TypeOK
  <2>3. \A t \in Threads : \A place : NotifyAll(t, place) /\ (t # w \/ place # "writing") => FALSE
    BY DEF NotifyAll, IInv, TypeOK, asleep
  <2>4. pc' # pc
    BY DEF Mutating
  <2>5. \A v \in Writers : ~(AcquireDirect(v) \/ Enqueue(v) \/ Cancel(v) \/ BeginRecovery(v) \/ Fail(v))
    BY <2>2, <2>4, ZenonT(60) DEF AcquireDirect, Enqueue, Cancel, BeginRecovery, Fail
  <2>6. \A v \in Writers : ~WriterStep(v)
    BY <2>1, <2>2, <2>3, <2>4, ZenonT(60) DEF WriterStep, CancelQueued, Admit, AdmissionFails, Withdraw,
       DirectFails, TakeGuard, UnhealthyPermit, DropPermit, DropDirect, DropTo, DropGuard, EndRecovery
  <2>7. \A r \in Readers : ~(BeginRead(r) \/ ReaderStep(r))
    BY <2>2, <2>4, ZenonT(60) DEF BeginRead, ReaderStep, ReadWaits, ReadPasses, ReadGuard, EndRead
  <2>8. pc' = pc
    BY <2>5, <2>6, <2>7, ZenonT(60) DEF Next, Refuse, vars
  <2> QED BY <2>4, <2>8
<1> QED
  BY <1>1, InvariantHolds, PTL DEF Spec, CancelledNeverExecutes

=============================================================================
