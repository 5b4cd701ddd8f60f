------------------------------ MODULE FacadeWrites ------------------------------
(***************************************************************************)
(* What the facades opened on one project do to it and to themselves when  *)
(* they write: composite publication with its rebase loop                  *)
(* (composite_publish.rs, composite_publish/rebase.rs), the mutation       *)
(* lifecycle of one-shot Cypher and of transactions that contain Cypher    *)
(* (mutation_transaction.rs, transaction.rs, graph_publication.rs).        *)
(*                                                                         *)
(* A facade holds a private workspace (ws), a runtime catalog (cat) and    *)
(* the UUID of the generation they belong to (mem); CURRENT is the last    *)
(* element of gens.  Its write permit serialises the calls of one facade,  *)
(* which WriteCoordinator establishes, so a facade runs one call at a time *)
(* and everything it does to itself between two reads of CURRENT is one    *)
(* step.  Switching CURRENT is one step too: Project refines that.         *)
(*                                                                         *)
(* The graph is reduced to what the calls can disturb: how often the       *)
(* Cypher of each operation was applied (rows), and who last set each      *)
(* property of one node (val), which may be deleted.  Every operation      *)
(* interns a name of its own in the runtime catalog.                       *)
(***************************************************************************)
EXTENDS Integers, Sequences

CONSTANTS
    Facades, Optimistic,   \* Optimistic: those opened with optimistic_multi_writer
    Ops,                   \* operation identities
    Request,               \* what each operation asks for, and at which facade
    Fields,                \* the properties of the node
    MaxRebases,            \* max_rebase_attempts
    MaxCalls,              \* how often operations are submitted, retries included
    MaxFaults, MaxAdmin,
    None, Gone, Torn

Kinds == {"composite", "mixed", "script", "query"}

ASSUME FacadeAssumption ==
    /\ Optimistic \subseteq Facades
    /\ Request \in [Ops -> [kind : Kinds, at : Facades, sets : SUBSET Fields, deletes : BOOLEAN]]
    /\ MaxRebases \in Nat /\ MaxCalls \in Nat /\ MaxFaults \in Nat /\ MaxAdmin \in Nat
    /\ None \notin Ops /\ Gone \notin Ops

VARIABLES
    gens,      \* the published generations; CURRENT names the last
    mem,       \* current_generation_uuid of each facade
    ws,        \* the graph in its private workspace, or Torn
    cat,       \* the names in its runtime catalog
    health,    \* MutationHealth: "ok" or "failed"
    pc, call,  \* where each facade is in its call, and the call's locals
    told,      \* what the last call for each operation returned
    calls, faults,
    spoiled    \* history: what has happened that no later step undoes

vars == <<gens, mem, ws, cat, health, pc, call, told, calls, faults, spoiled>>
self == <<mem, ws, cat>>
rest == <<calls, faults, spoiled>>

CURRENT == Len(gens)
Graph(i) == [rows |-> gens[i].rows, val |-> gens[i].val]

NoCall == [op |-> None, owner |-> 0, from |-> 0, point |-> Torn, prior |-> {}, parent |-> 0,
           baseline |-> 0, rebases |-> 0, why |-> "none"]

Empty == [rows |-> [o \in Ops |-> 0], val |-> [x \in Fields |-> None]]

Init ==
    /\ gens = <<[rows |-> Empty.rows, val |-> Empty.val, names |-> {}, admin |-> 0, by |-> None]>>
    /\ mem = [f \in Facades |-> 1]
    /\ ws = [f \in Facades |-> Empty]
    /\ cat = [f \in Facades |-> {}]
    /\ health = [f \in Facades |-> "ok"]
    /\ pc = [f \in Facades |-> "idle"]
    /\ call = [f \in Facades |-> NoCall]
    /\ told = [o \in Ops |-> "none"]
    /\ calls = 0
    /\ faults = 0
    /\ spoiled = {}

-----------------------------------------------------------------------------

Kind(f)   == Request[call[f].op].kind
Sets(f)   == Request[call[f].op].sets
Published(o) == \E i \in DOMAIN gens : gens[i].by = o

\* The graph after the Cypher, or after the composite rows, of operation o.
Ran(g, o)     == [g EXCEPT !.rows[o] = @ + 1]
Changed(g, o) == [g EXCEPT !.val = [x \in Fields |->
                    IF Request[o].deletes THEN Gone ELSE IF x \in Request[o].sets THEN o ELSE @[x]]]

Goto(f, place)     == pc' = [pc EXCEPT ![f] = place]
Return(f, outcome) ==
    /\ Goto(f, "idle")
    /\ call' = [call EXCEPT ![f] = NoCall]
    /\ told' = [told EXCEPT ![call[f].op] = outcome]

\* A composite publication that is part of a transaction hands its error to the
\* transaction, which restores; one of its own returns it.
Give(f, outcome) ==
    IF Kind(f) = "composite" THEN Return(f, outcome)
    ELSE /\ Goto(f, "restore")
         /\ call' = [call EXCEPT ![f].why = outcome]
         /\ UNCHANGED told

\* rematerialize_graph_workspace, load_runtime_catalog, install_property_generation.
Install(f, i) ==
    /\ ws'  = [ws EXCEPT ![f] = Graph(i)]
    /\ cat' = [cat EXCEPT ![f] = gens[i].names]
    /\ mem' = [mem EXCEPT ![f] = i]

\* What the first steps of these leave behind when a later one fails.
HalfInstalled(f) ==
    \/ ws' = [ws EXCEPT ![f] = Torn] /\ UNCHANGED cat
    \/ /\ ws' = [ws EXCEPT ![f] = Graph(CURRENT)]
       /\ cat' \in {cat, [cat EXCEPT ![f] = gens[CURRENT].names]}

\* An I/O error.
Fault == faults < MaxFaults /\ faults' = faults + 1
Spoil(causes) == spoiled' = spoiled \cup causes

\* reconcile_workspace_to in the middle of a transaction takes back what its
\* Cypher wrote to the workspace.
Discards(f) == IF Kind(f) = "mixed" THEN {"discarded"} ELSE {}

-----------------------------------------------------------------------------
(* Calls.                                                                  *)

Enter(f, o) ==
    /\ pc[f] = "idle" /\ health[f] = "ok"
    /\ Request[o].at = f
    /\ calls < MaxCalls /\ calls' = calls + 1

\* Mutant: a retry is not looked up among the published transactions.
ComposeAnew(f, o) ==
    /\ Request[o].kind = "composite"
    /\ Enter(f, o)
    /\ Goto(f, "resolve") /\ call' = [call EXCEPT ![f].op = o]
    /\ told' = [told EXCEPT ![o] = "none"]
    /\ UNCHANGED <<gens, self, health, faults, spoiled>>

\* publish_composite_transaction: an operation that is published returns its
\* receipt, another enters the loop.
Compose(f, o) ==
    /\ Request[o].kind = "composite"
    /\ Enter(f, o)
    /\ IF Published(o)
       THEN /\ told' = [told EXCEPT ![o] = "committed"]
            /\ UNCHANGED <<pc, call>>
       ELSE /\ Goto(f, "resolve") /\ call' = [call EXCEPT ![f].op = o]
            /\ told' = [told EXCEPT ![o] = "none"]
    /\ UNCHANGED <<gens, self, health, faults, spoiled>>

\* commit_state of a transaction with Cypher: begin_transaction pinned a
\* generation the facade held, now or earlier, and that must still be CURRENT
\* except in optimistic mode.
Commit(f, o) ==
    /\ Request[o].kind \in {"mixed", "script"}
    /\ Enter(f, o)
    /\ \E base \in 1..mem[f] :
          IF CURRENT # base /\ f \notin Optimistic
          THEN told' = [told EXCEPT ![o] = "conflict"] /\ UNCHANGED <<pc, call>>
          ELSE /\ Goto(f, "execute") /\ call' = [call EXCEPT ![f].op = o]
               /\ told' = [told EXCEPT ![o] = "none"]
    /\ UNCHANGED <<gens, self, health, faults, spoiled>>

\* execute() of one statement that writes; each has an identity of its own.
Query(f, o) ==
    /\ Request[o].kind = "query" /\ told[o] = "none"
    /\ Enter(f, o)
    /\ Goto(f, "execute") /\ call' = [call EXCEPT ![f].op = o]
    /\ UNCHANGED <<gens, self, health, told, faults, spoiled>>

\* new_with_rollback reads CURRENT and keeps the catalog and, for a transaction,
\* a checkpoint of the workspace (from is history: the generation it belongs to).
Owner(f) == [call[f] EXCEPT !.owner = CURRENT, !.prior = cat[f], !.point = ws[f], !.from = mem[f]]

\* The statements write to the workspace and the working catalog becomes the
\* facade's.
Execute(f) ==
    /\ pc[f] = "execute" /\ ws[f] # Torn
    /\ call' = [call EXCEPT ![f] = Owner(f)]
    /\ ws'  = [ws EXCEPT ![f] = Ran(@, call[f].op)]
    /\ cat' = [cat EXCEPT ![f] = @ \cup {call[f].op}]
    /\ Goto(f, IF Kind(f) = "mixed" THEN "lookup" ELSE "publish")
    /\ UNCHANGED <<gens, mem, health, told, rest>>

\* A statement that fails, as every statement does in a torn workspace.
ExecuteFails(f) ==
    /\ pc[f] = "execute"
    /\ IF ws[f] = Torn THEN UNCHANGED faults ELSE Fault
    /\ call' = [call EXCEPT ![f] = [Owner(f) EXCEPT !.why = "error"]]
    /\ Goto(f, "restore")
    /\ UNCHANGED <<gens, self, health, told, calls, spoiled>>

\* publish_composite_transaction_admitted after the statements ran: an operation
\* already published returns Ok, so nothing is restored.
Lookup(f) ==
    /\ pc[f] = "lookup"
    /\ IF Published(call[f].op)
       THEN Return(f, "committed") /\ Spoil({"left over"})
       ELSE Goto(f, "resolve") /\ UNCHANGED <<call, told, spoiled>>
    /\ UNCHANGED <<gens, self, health, calls, faults>>

-----------------------------------------------------------------------------
(* The mutation lifecycle: publication of the workspace, and restore().    *)

Generation(f, names) ==
    [rows |-> ws[f].rows, val |-> ws[f].val, names |-> names,
     admin |-> gens[CURRENT].admin, by |-> call[f].op]

\* publish_graph_mutation: CURRENT must be the generation in memory, and the
\* transaction new to the store.
Publish(f) ==
    /\ pc[f] = "publish"
    /\ CURRENT = mem[f] /\ ~Published(call[f].op)
    /\ gens' = Append(gens, Generation(f, cat[f]))
    /\ mem' = [mem EXCEPT ![f] = CURRENT + 1]
    /\ Return(f, "committed")
    /\ UNCHANGED <<ws, cat, health, rest>>

\* The publication is refused, or fails before or after CURRENT is switched.
PublishFails(f) ==
    /\ pc[f] = "publish"
    /\ \/ (CURRENT # mem[f] \/ Published(call[f].op)) /\ UNCHANGED <<gens, mem, faults>>
       \/ CURRENT = mem[f] /\ ~Published(call[f].op) /\ Fault /\ UNCHANGED <<gens, mem>>
       \/ /\ CURRENT = mem[f] /\ ~Published(call[f].op) /\ Fault
          /\ gens' = Append(gens, Generation(f, cat[f]))
          /\ mem' \in {mem, [mem EXCEPT ![f] = CURRENT + 1]}
    /\ Goto(f, "restore") /\ call' = [call EXCEPT ![f].why = "error"]
    /\ UNCHANGED <<ws, cat, health, told, calls, spoiled>>

\* Mutant: the parent is reinstalled although CURRENT may have moved on.
RestoreParent(f) ==
    /\ pc[f] = "restore"
    /\ Install(f, call[f].owner)
    /\ Return(f, call[f].why)
    /\ UNCHANGED <<gens, health, rest>>

\* Mutant: the catalog of the failed call stays.
RestoreKeepsCatalog(f) ==
    /\ pc[f] = "restore"
    /\ IF CURRENT # call[f].owner THEN Install(f, CURRENT)
       ELSE /\ ws' = [ws EXCEPT ![f] = call[f].point]
            /\ UNCHANGED <<cat, mem>>
    /\ Return(f, call[f].why)
    /\ UNCHANGED <<gens, health, rest>>

\* restore(): while CURRENT is the owner's generation a transaction gets its
\* checkpoint back, a single statement that generation; and either the catalog
\* kept at the start.  Otherwise everything comes from CURRENT.
Restore(f) ==
    /\ pc[f] = "restore"
    /\ IF CURRENT # call[f].owner
       THEN Install(f, CURRENT) /\ UNCHANGED spoiled
       ELSE /\ cat' = [cat EXCEPT ![f] = call[f].prior]
            /\ IF Kind(f) = "query"
               THEN /\ ws'  = [ws EXCEPT ![f] = Graph(CURRENT)]
                    /\ mem' = [mem EXCEPT ![f] = CURRENT]
                    /\ Spoil(IF mem[f] # CURRENT THEN {"catalog"} ELSE {})
               ELSE /\ ws'  = [ws EXCEPT ![f] = call[f].point]
                    /\ UNCHANGED mem
                    /\ Spoil(IF mem[f] # call[f].from THEN {"rewound"} ELSE {})
    /\ Return(f, call[f].why)
    /\ UNCHANGED <<gens, health, calls, faults>>

\* A failed restoration denies the facade for good.
RestoreFails(f) ==
    /\ pc[f] = "restore"
    /\ Fault
    /\ health' = [health EXCEPT ![f] = "failed"]
    /\ ws' = [ws EXCEPT ![f] = Torn]
    /\ Return(f, "error")
    /\ UNCHANGED <<gens, mem, cat, calls, spoiled>>

-----------------------------------------------------------------------------
(* The loop of a composite publication.                                    *)

\* Mutant: a stale facade goes on without reconciling its workspace.
ResolveStale(f) ==
    /\ pc[f] = "resolve"
    /\ call' = [call EXCEPT ![f].parent = CURRENT]
    /\ Goto(f, "prepare")
    /\ UNCHANGED <<gens, self, health, told, rest>>

\* The top of the loop: a facade in optimistic mode that is behind CURRENT takes
\* its workspace there, unless the administrative contract it opened has changed.
Resolve(f) ==
    /\ pc[f] = "resolve"
    /\ \/ /\ CURRENT = mem[f]
          /\ call' = [call EXCEPT ![f].parent = CURRENT]
          /\ Goto(f, "prepare")
          /\ UNCHANGED <<self, told, spoiled>>
       \/ /\ CURRENT # mem[f]
          /\ f \notin Optimistic \/ gens[CURRENT].admin # gens[1].admin
          /\ Give(f, "conflict")
          /\ UNCHANGED <<self, spoiled>>
       \/ /\ CURRENT # mem[f]
          /\ f \in Optimistic /\ gens[CURRENT].admin = gens[1].admin
          /\ Install(f, CURRENT)
          /\ Spoil(Discards(f) \cup (IF call[f].rebases > 0 THEN {"unchecked"} ELSE {}))
          /\ call' = [call EXCEPT ![f].parent = CURRENT]
          /\ Goto(f, "prepare")
          /\ UNCHANGED told
    /\ UNCHANGED <<gens, health, calls, faults>>

\* The rebase budget is consumed.
Exhausted(f) == call[f].rebases >= MaxRebases

\* reconcile_workspace_to fails half way, at the top of the loop or in a rebase:
\* the loop returns the error and leaves the workspace as it is.
ReconcileFails(f) ==
    /\ \/ pc[f] = "resolve" /\ CURRENT # mem[f] /\ gens[CURRENT].admin = gens[1].admin
       \/ pc[f] = "rebase" /\ ~Request[call[f].op].deletes /\ ~Exhausted(f)
    /\ f \in Optimistic
    /\ Fault
    /\ HalfInstalled(f)
    /\ Spoil({"half way"} \cup Discards(f))
    /\ Give(f, "error")
    /\ UNCHANGED <<gens, mem, health, calls>>

Stands(g, o) == (Request[o].deletes \/ Request[o].sets # {}) => \A x \in Fields : g.val[x] # Gone

\* authorize_pre_staging and apply_graph_mutations.  The first attempt of an
\* optimistic facade captures the baseline: the generation it reads.
Prepare(f) ==
    /\ pc[f] = "prepare"
    /\ IF ws[f] # Torn /\ Stands(ws[f], call[f].op)
       THEN /\ ws' = [ws EXCEPT ![f] = Changed(@, call[f].op)]
            /\ call' = [call EXCEPT ![f].baseline =
                            IF f \in Optimistic /\ @ = 0 THEN call[f].parent ELSE @]
            /\ Goto(f, "attempt")
            /\ UNCHANGED told
       ELSE Give(f, "error") /\ UNCHANGED ws
    /\ UNCHANGED <<gens, mem, cat, health, rest>>

\* publish_composite_attempt succeeds.
Attempt(f) ==
    /\ pc[f] = "attempt"
    /\ CURRENT = call[f].parent
    /\ gens' = Append(gens, Generation(f, cat[f] \cup {call[f].op}))
    /\ mem' = [mem EXCEPT ![f] = CURRENT + 1]
    /\ cat' = [cat EXCEPT ![f] = @ \cup {call[f].op}]
    /\ Return(f, "committed")
    /\ UNCHANGED <<ws, health, rest>>

\* It finds another CURRENT, or fails before or after it switches CURRENT.
AttemptFails(f) ==
    /\ pc[f] = "attempt"
    /\ \/ /\ CURRENT # call[f].parent
          /\ call' = [call EXCEPT ![f].why = "conflict"]
          /\ UNCHANGED <<gens, faults>>
       \/ /\ CURRENT = call[f].parent /\ Fault
          /\ gens' \in {gens, Append(gens, Generation(f, cat[f] \cup {call[f].op}))}
          /\ call' = [call EXCEPT ![f].why = "error"]
    /\ Goto(f, "abort")
    /\ UNCHANGED <<self, health, told, calls, spoiled>>

\* After the attempt: a conflict goes to the rebase, any other error out.
Aborted(f) ==
    IF call[f].why = "conflict" /\ f \in Optimistic
    THEN Goto(f, "rebase") /\ UNCHANGED <<call, told>>
    ELSE Give(f, call[f].why)

\* The error path of the attempt takes the workspace back to its parent, or to
\* the CURRENT that replaced it.
Abort(f) ==
    /\ pc[f] = "abort"
    /\ IF CURRENT = call[f].parent
       THEN /\ ws'  = [ws EXCEPT ![f] = Graph(CURRENT)]
            /\ mem' = [mem EXCEPT ![f] = CURRENT]
            /\ UNCHANGED cat
       ELSE Install(f, CURRENT)
    /\ Spoil(Discards(f))
    /\ Aborted(f)
    /\ UNCHANGED <<gens, health, calls, faults>>

\* The same path ignores an error of its own, whatever it has done by then.
AbortFails(f) ==
    /\ pc[f] = "abort"
    /\ Fault
    /\ UNCHANGED <<ws, cat>> \/ HalfInstalled(f)
    /\ CURRENT = call[f].parent => UNCHANGED cat
    /\ Spoil({"swallowed"})
    /\ Aborted(f)
    /\ UNCHANGED <<gens, mem, health, calls>>

\* Mutant: the values the operation overwrites are not compared.
CompatibleTargets(f) ==
    /\ gens[CURRENT].admin = gens[call[f].baseline].admin
    /\ Stands(Graph(CURRENT), call[f].op)

\* ensure_rebase_compatible, at the generation that is CURRENT now.
Compatible(f) ==
    /\ gens[CURRENT].admin = gens[call[f].baseline].admin
    /\ Stands(Graph(CURRENT), call[f].op)
    /\ \A x \in Sets(f) : gens[CURRENT].val[x] = gens[call[f].baseline].val[x]

\* Mutant: the attempt is repeated on the parent that lost.
RebaseSameParent(f) ==
    /\ pc[f] = "rebase"
    /\ Goto(f, "prepare")
    /\ UNCHANGED <<gens, self, health, call, told, rest>>

\* A lost race: deletes never merge, the budget is finite, and the workspace goes
\* to CURRENT before the baseline is compared with it.
Rebase(f) ==
    /\ pc[f] = "rebase"
    /\ IF Request[call[f].op].deletes THEN Give(f, "conflict") /\ UNCHANGED <<self, spoiled>>
       ELSE IF Exhausted(f) THEN Give(f, "exhausted") /\ UNCHANGED <<self, spoiled>>
       ELSE /\ Install(f, CURRENT)
            /\ Spoil(Discards(f))
            /\ IF Compatible(f)
               THEN /\ call' = [call EXCEPT ![f].rebases = @ + 1]
                    /\ Goto(f, "resolve")
                    /\ UNCHANGED told
               ELSE Give(f, "conflict")
    /\ UNCHANGED <<gens, health, calls, faults>>

\* Another process publishes a change of capabilities or of the workspace
\* configuration.
Administer ==
    /\ gens[CURRENT].admin < MaxAdmin
    /\ gens' = Append(gens, [gens[CURRENT] EXCEPT !.admin = @ + 1, !.by = None])
    /\ UNCHANGED <<self, health, pc, call, told, calls, faults, spoiled>>

-----------------------------------------------------------------------------

Step(f) ==
    \/ Execute(f) \/ ExecuteFails(f) \/ Lookup(f)
    \/ Publish(f) \/ PublishFails(f) \/ Restore(f) \/ RestoreFails(f)
    \/ Resolve(f) \/ ReconcileFails(f) \/ Prepare(f)
    \/ Attempt(f) \/ AttemptFails(f) \/ Abort(f) \/ AbortFails(f) \/ Rebase(f)

Next ==
    \/ \E f \in Facades : Step(f)
    \/ \E f \in Facades, o \in Ops : Compose(f, o) \/ Commit(f, o) \/ Query(f, o)
    \/ Administer

Spec == Init /\ [][Next]_vars

\* A call that has begun runs to its end.
FairSpec == Spec /\ \A f \in Facades : WF_vars(Step(f))

-----------------------------------------------------------------------------

TypeOK ==
    /\ \A i \in DOMAIN gens : /\ gens[i].names \subseteq Ops
                              /\ gens[i].admin \in 0..MaxAdmin
                              /\ gens[i].by \in Ops \cup {None}
    /\ mem \in [Facades -> 1..CURRENT]
    /\ \A f \in Facades : cat[f] \subseteq Ops
    /\ health \in [Facades -> {"ok", "failed"}]
    /\ pc \in [Facades -> {"idle", "execute", "lookup", "publish", "restore", "resolve",
                           "prepare", "attempt", "abort", "rebase"}]
    /\ told \in [Ops -> {"none", "committed", "conflict", "exhausted", "error"}]
    /\ spoiled \subseteq {"discarded", "left over", "rewound", "swallowed", "catalog", "unchecked", "half way"}
    /\ \A f \in Facades : call[f].rebases \in 0..MaxRebases

\* The graph that operation o makes of g.
Whole(g, o) ==
    CASE Request[o].kind = "composite" -> Changed(g, o)
      [] Request[o].kind = "mixed" -> Changed(Ran(g, o), o)
      [] OTHER -> Ran(g, o)

\* "Publish every staged supported participant as one generation"
\* (transaction.rs): what a transaction published holds all of it.
CommitIsWhole ==
    \A i \in 2..CURRENT : gens[i].by # None => Graph(i) = Whole(Graph(i - 1), gens[i].by)

\* Nothing else can go into a generation, or be missing from it, than its
\* operation, applied once to its parent: neither what an aborted call left in
\* the workspace, nor what a concurrent one published; unless one of the named
\* ways to spoil a workspace has been taken.  Nor does its catalog forget a name.
GenerationIsParentPlusOperation ==
    /\ spoiled \cap {"discarded", "left over", "swallowed"} = {} => CommitIsWhole
    /\ spoiled \cap {"catalog", "rewound"} = {} =>
        \A i \in 2..CURRENT : gens[i].names = gens[i - 1].names \cup ({gens[i].by} \ {None})

\* Between two calls a healthy facade shows exactly one published generation.
Coherent(f) == ws[f] = Graph(mem[f]) /\ cat[f] = gens[mem[f]].names

FacadeCoherent ==
    spoiled \cap {"half way", "catalog", "rewound", "swallowed", "left over"} = {} =>
        \A f \in Facades : pc[f] = "idle" /\ health[f] = "ok" => Coherent(f)

\* "After any attempted publication, the facade workspace, runtime catalog, and
\* generation UUID reconcile to durable CURRENT" (docs/adr/0015): at least to
\* one generation, all three.
AttemptReconciles ==
    \A f \in Facades : pc[f] = "idle" /\ health[f] = "ok" => Coherent(f)

\* What a call tells is true, whatever is retried: an operation said to be
\* committed is published, a composite publication that lost its race is not,
\* and none is published twice.
ToldTruthfully ==
    /\ \A i, j \in DOMAIN gens : gens[i].by = gens[j].by /\ gens[i].by # None => i = j
    /\ \A o \in Ops : /\ told[o] = "committed" => Published(o)
                      /\ told[o] \in {"conflict", "exhausted"} /\ Request[o].kind = "composite"
                           => ~Published(o)

\* An optimistic publication overwrites the value that its baseline recorded, or
\* conflicts ("Same property or removed target | GF_WRITE_CONFLICT", docs/adr/0015).
SamePropertyConflicts ==
    \A f \in Optimistic : pc[f] = "attempt" /\ CURRENT = call[f].parent =>
        \A x \in Sets(f) : gens[CURRENT].val[x] = gens[call[f].baseline].val[x]

\* The same, unless a publication came between the comparison of the baseline
\* and the next reading of CURRENT.
CheckedPropertyConflicts == "unchecked" \notin spoiled => SamePropertyConflicts

\* A facade never returns to an older generation.
FacadeMovesForward == [][\A f \in Facades : mem'[f] >= mem[f]]_vars

\* Every call returns.
CallReturns == \A f \in Facades : pc[f] # "idle" ~> pc[f] = "idle"

=============================================================================
