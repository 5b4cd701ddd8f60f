-------------------------- MODULE MutationHealthProofs --------------------------
(***************************************************************************)
(* The safety properties of MutationHealth for any number of owners and    *)
(* streams and any largest epoch.  The invariant adds what makes the       *)
(* second check of a poll enough: no stream is ahead of the epoch, and one *)
(* that a restoration has crossed since it was wrapped is behind it.       *)
(***************************************************************************)
EXTENDS MutationHealth, TLAPS

USE SMTT(30)

\* A wrapped stream that a restoration crossed has an older epoch, a planned one
\* has not been crossed as a wrapped one, and none of a facade's in planning.
Behind ==
    \A s \in Streams :
        /\ at[s] <= epoch
        /\ stream[s] \in {"open", "reading"} /\ crossed[s] = "since" => at[s] < epoch
        /\ stream[s] = "planned" => crossed[s] # "since"
        /\ facade => crossed[s] # "planning"

HInv == TypeOK /\ FenceHasOneOwner /\ Behind /\ NoBatchAcrossRecovery /\ FacadePlansWhole

\* The initial states satisfy the invariant.
LEMMA HInit == Init => HInv
<1> SUFFICES ASSUME Init PROVE HInv
  OBVIOUS
<1>1. TypeOK
  <2>1. facade \in BOOLEAN /\ recovering \in BOOLEAN /\ failed \in BOOLEAN
    BY Zenon DEF Init
  <2>2. epoch \in 0..MaxEpoch /\ mine \in [Owners -> 0..MaxEpoch]
    BY HealthAssumption DEF Init
  <2>3. /\ pc \in [Owners -> {"idle", "restoring"}]
        /\ stream \in [Streams -> {"none", "planned", "open", "reading", "failed"}]
        /\ at \in [Streams -> {Unborn} \cup 0..MaxEpoch]
        /\ crossed \in [Streams -> {"never", "planning", "since"}]
        /\ yielded \subseteq {"never", "planning", "since"}
    BY DEF Init
  <2> QED
    BY <2>1, <2>2, <2>3, Zenon DEF TypeOK
<1>2. FenceHasOneOwner
  <2>1. \A o \in Owners : pc[o] # "restoring"
    <3>1. \A o \in Owners : pc[o] = "idle"
      BY Zenon DEF Init
    <3>2. "idle" # "restoring"
      OBVIOUS
    <3> QED
      BY <3>1, <3>2, Zenon
  <2> QED
    BY <2>1, Zenon DEF Init, FenceHasOneOwner
<1>3. Behind
  BY DEF Init, Behind, Unborn
<1>4. NoBatchAcrossRecovery /\ FacadePlansWhole
  BY Zenon DEF Init, NoBatchAcrossRecovery, FacadePlansWhole
<1> QED
  BY <1>1, <1>2, <1>3, <1>4 DEF HInv

\* Every step keeps the types.
LEMMA HType == TypeOK /\ [Next]_vars => TypeOK'
<1> SUFFICES ASSUME TypeOK, [Next]_vars PROVE TypeOK'
  OBVIOUS
<1>1. ASSUME NEW o \in Owners, BeginRecover(o) PROVE TypeOK'
  BY <1>1, HealthAssumption DEF TypeOK, BeginRecover, Fence, Cross, Unborn
<1>2. ASSUME NEW o \in Owners, EndRecover(o) PROVE TypeOK'
  <2>1. failed' \in BOOLEAN /\ recovering' \in BOOLEAN
    BY <1>2, Zenon DEF TypeOK, EndRecover
  <2>2. pc' \in [Owners -> {"idle", "restoring"}]
    BY <1>2 DEF TypeOK, EndRecover
  <2>3. UNCHANGED <<facade, epoch, mine, stream, at, crossed, yielded>>
    BY <1>2 DEF EndRecover, polls
  <2> QED
    BY <2>1, <2>2, <2>3, Zenon DEF TypeOK
<1>3. CASE Fail
  BY <1>3 DEF TypeOK, Fail, polls
<1>4. ASSUME NEW s \in Streams, Plan(s) PROVE TypeOK'
  BY <1>4 DEF TypeOK, Plan, state
<1>5. ASSUME NEW s \in Streams, Wrap(s) PROVE TypeOK'
  BY <1>5 DEF TypeOK, Wrap, state
<1>6. ASSUME NEW s \in Streams, Poll(s) PROVE TypeOK'
  BY <1>6 DEF TypeOK, Poll, state
<1>7. ASSUME NEW s \in Streams, Polled(s) PROVE TypeOK'
  <2>1. crossed[s] \in {"never", "planning", "since"}
    BY DEF TypeOK
  <2>2. yielded' \subseteq {"never", "planning", "since"}
    BY <1>7, <2>1, Zenon DEF TypeOK, Polled
  <2>3. stream' \in [Streams -> {"none", "planned", "open", "reading", "failed"}]
    BY <1>7 DEF TypeOK, Polled
  <2>4. UNCHANGED <<facade, epoch, recovering, failed, pc, mine, at, crossed>>
    BY <1>7 DEF Polled, state
  <2> QED
    BY <2>2, <2>3, <2>4, Zenon DEF TypeOK
<1>8. ASSUME NEW s \in Streams, Drop(s) PROVE TypeOK'
  BY <1>8 DEF TypeOK, Drop, state
<1>9. CASE UNCHANGED vars
  BY <1>9 DEF TypeOK, vars
<1> QED
  BY <1>1, <1>2, <1>3, <1>4, <1>5, <1>6, <1>7, <1>8, <1>9 DEF Next

\* Every step keeps the fence with its one owner.
LEMMA HFence == TypeOK /\ FenceHasOneOwner /\ [Next]_vars => FenceHasOneOwner'
<1> SUFFICES ASSUME TypeOK, FenceHasOneOwner, [Next]_vars PROVE FenceHasOneOwner'
  OBVIOUS
<1>1. ASSUME NEW o \in Owners, BeginRecover(o) PROVE FenceHasOneOwner'
  BY <1>1 DEF TypeOK, FenceHasOneOwner, BeginRecover, Check, Fence
<1>2. ASSUME NEW o \in Owners, EndRecover(o) PROVE FenceHasOneOwner'
  <2>1. mine[o] = epoch /\ \A p \in Owners : pc[p] = "restoring" => p = o
    BY <1>2, Zenon DEF FenceHasOneOwner, EndRecover
  <2>2. \A p \in Owners : pc'[p] # "restoring"
    BY <1>2, <2>1 DEF TypeOK, EndRecover
  <2>3. ~recovering'
    BY <1>2, <2>1, Zenon DEF EndRecover
  <2> QED
    BY <2>2, <2>3, Zenon DEF FenceHasOneOwner
<1>3. CASE Fail
  BY <1>3 DEF FenceHasOneOwner, Fail
<1>4. ASSUME NEW s \in Streams, Plan(s) \/ Wrap(s) \/ Poll(s) \/ Polled(s) \/ Drop(s)
      PROVE FenceHasOneOwner'
  BY <1>4 DEF FenceHasOneOwner, Plan, Wrap, Poll, Polled, Drop, state
<1>5. CASE UNCHANGED vars
  BY <1>5 DEF FenceHasOneOwner, vars
<1> QED
  BY <1>1, <1>2, <1>3, <1>4, <1>5 DEF Next

\* Every step keeps crossed streams behind the epoch.
LEMMA HBehind == TypeOK /\ Behind /\ [Next]_vars => Behind'
<1> SUFFICES ASSUME TypeOK, Behind, [Next]_vars PROVE Behind'
  OBVIOUS
<1>1. ASSUME NEW o \in Owners, BeginRecover(o) PROVE Behind'
  BY <1>1, HealthAssumption DEF TypeOK, Behind, BeginRecover, Permitted, Fence, Cross, Unborn
<1>2. ASSUME NEW o \in Owners, EndRecover(o) PROVE Behind'
  BY <1>2 DEF Behind, EndRecover, polls
<1>3. CASE Fail
  BY <1>3 DEF Behind, Fail, polls
<1>4. ASSUME NEW s \in Streams, Plan(s) PROVE Behind'
  BY <1>4 DEF TypeOK, Behind, Plan, state
<1>5. ASSUME NEW s \in Streams, Wrap(s) PROVE Behind'
  BY <1>5, HealthAssumption DEF TypeOK, Behind, Wrap, state, Unborn
<1>6. ASSUME NEW s \in Streams, Poll(s) PROVE Behind'
  BY <1>6 DEF TypeOK, Behind, Poll, state
<1>7. ASSUME NEW s \in Streams, Polled(s) PROVE Behind'
  BY <1>7 DEF TypeOK, Behind, Polled, state
<1>8. ASSUME NEW s \in Streams, Drop(s) PROVE Behind'
  BY <1>8 DEF TypeOK, Behind, Drop, state
<1>9. CASE UNCHANGED vars
  BY <1>9 DEF Behind, vars
<1> QED
  BY <1>1, <1>2, <1>3, <1>4, <1>5, <1>6, <1>7, <1>8, <1>9 DEF Next

\* Only the end of a poll hands out a batch, and only of a stream in its epoch.
LEMMA HYield ==
    TypeOK /\ Behind /\ NoBatchAcrossRecovery /\ FacadePlansWhole /\ [Next]_vars
    => NoBatchAcrossRecovery' /\ FacadePlansWhole'
<1> SUFFICES ASSUME TypeOK, Behind, NoBatchAcrossRecovery, FacadePlansWhole, [Next]_vars
             PROVE  NoBatchAcrossRecovery' /\ FacadePlansWhole'
  OBVIOUS
<1>1. ASSUME NEW s \in Streams, Polled(s)
      PROVE NoBatchAcrossRecovery' /\ FacadePlansWhole'
  <2>1. Valid(s) => crossed[s] # "since" /\ (facade => crossed[s] = "never")
    BY <1>1, HealthAssumption DEF TypeOK, Behind, Polled, Valid, Unborn
  <2>2. facade' = facade
    BY <1>1 DEF Polled, state
  <2>3. yielded' = IF Valid(s) THEN yielded \cup {crossed[s]} ELSE yielded
    BY <1>1 DEF Polled
  <2> QED
    BY <2>1, <2>2, <2>3, Zenon DEF NoBatchAcrossRecovery, FacadePlansWhole
<1>2. CASE ~ \E s \in Streams : Polled(s)
  <2>1. yielded' = yielded /\ facade' = facade
    <3>1. ASSUME NEW o \in Owners, BeginRecover(o) PROVE yielded' = yielded /\ facade' = facade
      BY <3>1, Zenon DEF BeginRecover, Fence
    <3>2. ASSUME NEW o \in Owners, EndRecover(o) PROVE yielded' = yielded /\ facade' = facade
      BY <3>2 DEF EndRecover, polls
    <3>3. ASSUME Fail PROVE yielded' = yielded /\ facade' = facade
      BY <3>3 DEF Fail, polls
    <3>4. ASSUME NEW s \in Streams, Plan(s) \/ Wrap(s) \/ Poll(s) \/ Drop(s)
          PROVE yielded' = yielded /\ facade' = facade
      BY <3>4 DEF Plan, Wrap, Poll, Drop, state
    <3>5. ASSUME UNCHANGED vars PROVE yielded' = yielded /\ facade' = facade
      BY <3>5 DEF vars
    <3> QED
      BY <1>2, <3>1, <3>2, <3>3, <3>4, <3>5, Zenon DEF Next
  <2> QED
    BY <2>1 DEF NoBatchAcrossRecovery, FacadePlansWhole
<1> QED
  BY <1>1, <1>2

\* The invariant is inductive.
LEMMA HStep == HInv /\ [Next]_vars => HInv'
  BY HType, HFence, HBehind, HYield DEF HInv

\* HInv holds in every reachable state.
THEOREM HealthInvariant == Spec => []HInv
  BY HInit, HStep, PTL DEF Spec

\* "Overlapping recovery is rejected": for any number of threads that abort, one
\* restoration runs at a time and the fence is up exactly while it does.
THEOREM RecoveryExclusive == Spec => []FenceHasOneOwner
<1>1. HInv => FenceHasOneOwner
  BY DEF HInv
<1> QED
  BY <1>1, HealthInvariant, PTL

\* guard_stream hands out no batch across a restoration, however many streams
\* and recoveries there are.
THEOREM StreamsNeverTorn == Spec => []NoBatchAcrossRecovery
<1>1. HInv => NoBatchAcrossRecovery
  BY DEF HInv
<1> QED
  BY <1>1, HealthInvariant, PTL

\* The read guard of execute_stream_with_workspace is enough: a facade's stream
\* is never read with a plan older than a restoration.
THEOREM FacadeStreamsWhole == Spec => []FacadePlansWhole
<1>1. HInv => FacadePlansWhole
  BY DEF HInv
<1> QED
  BY <1>1, HealthInvariant, PTL

\* No step, and so no late end of a restoration, clears a recorded failure.
THEOREM FailureStays == Spec => FailureIsFinal
<1>1. [Next]_vars => [failed => failed']_vars
  BY Zenon DEF Next, vars, BeginRecover, Fence, EndRecover, Fail, Plan, Wrap, Poll, Polled, Drop, state
<1> QED
  BY <1>1, PTL DEF Spec, FailureIsFinal

=============================================================================
