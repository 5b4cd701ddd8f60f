------------------------------ MODULE AtomicProject ------------------------------
(***************************************************************************)
(* What a project promises its callers, whatever its journals, locks and   *)
(* directories do: a history of commits, each made on top of the last one, *)
(* of which a power loss can only take an unacknowledged tail.             *)
(*                                                                         *)
(* The promise has one hole, which Project shows to be real: a recovery or *)
(* clean-up that met a commit whose publisher died before the flush takes  *)
(* it at its word (`trusting'), and from then on an answer may be given    *)
(* for a commit that was lost.                                             *)
(***************************************************************************)
EXTENDS Naturals, Sequences

CONSTANTS Commits, First, NoParent

VARIABLES
    history,    \* the commits: [gen, digest], digest naming the parent
    durable,    \* the first `durable' of them are there to stay
    answered,   \* transactions acknowledged to their caller
    trusting    \* an unflushed commit was relied upon

state == <<history, durable, answered, trusting>>

AInit ==
    /\ history = <<[gen |-> First, digest |-> NoParent]>>
    /\ durable = 1
    /\ answered = {}
    /\ trusting = FALSE

Commit(t) ==
    /\ history' = Append(history, [gen |-> t, digest |-> history[Len(history)].gen])
    /\ UNCHANGED <<durable, answered, trusting>>

Flush ==
    /\ durable' = Len(history)
    /\ UNCHANGED <<history, answered, trusting>>

\* A receipt is returned, by the publisher or for a retry, possibly with a flush.
Answer(t) ==
    /\ durable' \in {durable, Len(history)}
    /\ trusting \/ \E i \in 1..durable' : history[i].gen = t
    /\ answered' = answered \cup {t}
    /\ UNCHANGED <<history, trusting>>

Trust ==
    /\ durable < Len(history)
    /\ trusting' = TRUE
    /\ UNCHANGED <<history, durable, answered>>

LoseTail ==
    /\ durable' \in durable..Len(history)
    /\ history' = SubSeq(history, 1, durable')
    /\ UNCHANGED <<answered, trusting>>

ANext ==
    \/ \E t \in Commits : Commit(t) \/ Answer(t)
    \/ Flush \/ Trust \/ LoseTail

ASpec == AInit /\ [][ANext]_state
=============================================================================
