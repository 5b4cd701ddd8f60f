----------------------------- MODULE MutationHealth -----------------------------
(***************************************************************************)
(* MutationHealth (crates/graphforge-exec/src/mutation.rs): the owner that *)
(* the mutations, the reads and the lazy streams of one session or facade  *)
(* share.  recover() fences the workspace while an aborted mutation is     *)
(* restored, fail() denies it for good, and guard_stream() wraps a stream  *)
(* whose every poll reads workspace files without holding any lock.        *)
(*                                                                         *)
(* A step is one critical section of the mutex inside MutationHealth: a    *)
(* restoration lies between two of them, and so does the inner poll of a   *)
(* stream.  A facade plans and wraps a stream under its read guard and     *)
(* recovers under its write permit; a session used by itself has neither,  *)
(* so its threads may plan, wrap and abort at the same time.               *)
(***************************************************************************)
EXTENDS Integers

CONSTANTS
    Owners,     \* threads that abort mutations
    Streams,    \* lazy streams
    MaxEpoch    \* the largest epoch (u64::MAX in the code)

ASSUME HealthAssumption == MaxEpoch \in Nat

Unborn == -1    \* the None of a stream wrapped while the owner was unavailable

VARIABLES
    facade,                      \* the owner is a facade, not a session by itself
    epoch, recovering, failed,   \* MutationHealthState
    pc,                          \* which owners are inside restore()
    mine,                        \* the epoch of their recovery
    stream,                      \* where each stream is
    at,                          \* the epoch it was wrapped in
    crossed,                     \* history: where a restoration began in its life
    yielded                      \* history: the values of crossed with a batch out

vars == <<facade, epoch, recovering, failed, pc, mine, stream, at, crossed, yielded>>
state == <<facade, epoch, recovering, failed>>
polls == <<stream, at, crossed, yielded>>

Init ==
    /\ facade \in BOOLEAN
    /\ epoch = 0 /\ recovering = FALSE /\ failed = FALSE
    /\ pc = [o \in Owners |-> "idle"]
    /\ mine = [o \in Owners |-> 0]
    /\ stream = [s \in Streams |-> "none"]
    /\ at = [s \in Streams |-> Unborn]
    /\ crossed = [s \in Streams |-> "never"]
    /\ yielded = {}

\* MutationHealthState::check
Check == ~failed /\ ~recovering

-----------------------------------------------------------------------------
(* recover() and fail().                                                   *)

\* History: a restoration begins while s is planned, or after it was wrapped.
Cross(s) ==
    CASE stream[s] = "none"    -> crossed[s]
      [] stream[s] = "planned" -> "planning"
      [] OTHER                 -> "since"

\* The fence goes up under the mutex.
Fence(o) ==
    /\ epoch' = epoch + 1
    /\ recovering' = TRUE
    /\ pc' = [pc EXCEPT ![o] = "restoring"]
    /\ mine' = [mine EXCEPT ![o] = epoch + 1]
    /\ crossed' = [s \in Streams |-> Cross(s)]
    /\ UNCHANGED <<facade, failed, stream, at, yielded>>

\* Mutant: the read guard is released before the stream is wrapped.
GuardReleased == facade => \A p \in Owners : pc[p] = "idle"

\* A facade recovers under the write permit: nobody else recovers, and no read
\* guard covers a stream being built.
Permitted ==
    facade => /\ \A p \in Owners : pc[p] = "idle"
              /\ \A s \in Streams : stream[s] # "planned"

\* Mutant: a recovery under way does not refuse another.
BeginOverlapping(o) == pc[o] = "idle" /\ Permitted /\ ~failed /\ epoch < MaxEpoch /\ Fence(o)

\* The first critical section of recover(); refused, it returns an error and the
\* restoration does not run.
BeginRecover(o) ==
    /\ pc[o] = "idle" /\ Permitted
    /\ Check /\ epoch < MaxEpoch
    /\ Fence(o)

\* Mutant: a failed restoration returns before it lowers the fence.
EndEarly(o) ==
    /\ pc[o] = "restoring"
    /\ \/ UNCHANGED failed /\ recovering' = (recovering /\ epoch # mine[o])
       \/ failed' = TRUE /\ UNCHANGED recovering
    /\ pc' = [pc EXCEPT ![o] = "idle"]
    /\ UNCHANGED <<facade, epoch, mine, polls>>

\* The second one: the restoration succeeded, or its failure is recorded.
EndRecover(o) ==
    /\ pc[o] = "restoring"
    /\ failed' \in {failed, TRUE}
    /\ recovering' = (recovering /\ epoch # mine[o])
    /\ pc' = [pc EXCEPT ![o] = "idle"]
    /\ UNCHANGED <<facade, epoch, mine, polls>>

Fail ==
    /\ failed' = TRUE
    /\ UNCHANGED <<facade, epoch, recovering, pc, mine, polls>>

-----------------------------------------------------------------------------
(* execute_plan_stream() and guard_stream().                               *)

\* plan_physical checks the owner, then reads files; in a facade it runs under
\* the read guard, which a recovery's write permit keeps out.
Plan(s) ==
    /\ stream[s] = "none" /\ Check
    /\ facade => \A o \in Owners : pc[o] = "idle"
    /\ stream' = [stream EXCEPT ![s] = "planned"]
    /\ crossed' = [crossed EXCEPT ![s] = "never"]
    /\ UNCHANGED <<state, pc, mine, at, yielded>>

\* guard_stream reads the epoch once; a stream that could not gets none.
Wrap(s) ==
    /\ stream[s] = "planned"
    /\ at' = [at EXCEPT ![s] = IF Check THEN epoch ELSE Unborn]
    /\ stream' = [stream EXCEPT ![s] = "open"]
    /\ UNCHANGED <<state, pc, mine, crossed, yielded>>

\* Mutant: the owner is asked whether it is available, not in which epoch.
Available(s) == Check

\* check_stream_epoch
Valid(s) == Check /\ at[s] = epoch

\* The check before the inner poll: an error ends the stream.
Poll(s) ==
    /\ stream[s] = "open"
    /\ stream' = [stream EXCEPT ![s] = IF Valid(s) THEN "reading" ELSE "failed"]
    /\ UNCHANGED <<state, pc, mine, at, crossed, yielded>>

\* The check after it: what the poll read is handed out, or dropped.
Polled(s) ==
    /\ stream[s] = "reading"
    /\ stream' = [stream EXCEPT ![s] = IF Valid(s) THEN "open" ELSE "failed"]
    /\ yielded' = IF Valid(s) THEN yielded \cup {crossed[s]} ELSE yielded
    /\ UNCHANGED <<state, pc, mine, at, crossed>>

\* Planning fails, or the consumer drops the stream.
Drop(s) ==
    /\ stream[s] \in {"planned", "open", "failed"}
    /\ stream' = [stream EXCEPT ![s] = "none"]
    /\ UNCHANGED <<state, pc, mine, at, crossed, yielded>>

-----------------------------------------------------------------------------

Next ==
    \/ \E o \in Owners : BeginRecover(o) \/ EndRecover(o)
    \/ Fail
    \/ \E s \in Streams : Plan(s) \/ Wrap(s) \/ Poll(s) \/ Polled(s) \/ Drop(s)

Spec == Init /\ [][Next]_vars

\* restore() returns.
FairSpec == Spec /\ \A o \in Owners : WF_vars(EndRecover(o))

-----------------------------------------------------------------------------

\* The state has its types; recover() refuses to overflow the epoch.
TypeOK ==
    /\ facade \in BOOLEAN /\ recovering \in BOOLEAN /\ failed \in BOOLEAN
    /\ epoch \in 0..MaxEpoch
    /\ pc \in [Owners -> {"idle", "restoring"}]
    /\ mine \in [Owners -> 0..MaxEpoch]
    /\ stream \in [Streams -> {"none", "planned", "open", "reading", "failed"}]
    /\ at \in [Streams -> {Unborn} \cup 0..MaxEpoch]
    /\ crossed \in [Streams -> {"never", "planning", "since"}]
    /\ yielded \subseteq {"never", "planning", "since"}

\* "Overlapping recovery is rejected" (docs/adr/0028-shared-mutation-transaction.md:148):
\* the fence is up exactly while one restoration is under way, which is the one
\* of the current epoch and therefore lowers it.
FenceHasOneOwner ==
    /\ recovering <=> \E o \in Owners : pc[o] = "restoring"
    /\ \A o, p \in Owners : pc[o] = "restoring" /\ pc[p] = "restoring" => o = p
    /\ \A o \in Owners : pc[o] = "restoring" => mine[o] = epoch

\* guard_stream: "Recovery may have started while the inner poll read files.
\* Never expose its batch, even when restoration already ended."  No stream hands
\* out a batch once a restoration has begun after it was wrapped.
NoBatchAcrossRecovery == "since" \notin yielded

\* execute_stream_with_workspace keeps its read guard until the stream is
\* wrapped: no batch of a facade's stream is read with a plan made before a
\* restoration.  (A session by itself reads the epoch after it has planned.)
FacadePlansWhole == facade => yielded \subseteq {"never"}

\* recover(): "Success cannot clear a failure recorded by another operation on
\* the same owner", although the restoration may end after fail().
FailureIsFinal == [][failed => failed']_vars

\* The fence does not outlast its restoration, whether that succeeds or not.
FenceIsLowered == recovering ~> ~recovering

=============================================================================
