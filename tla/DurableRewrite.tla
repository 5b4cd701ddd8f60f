---------------------------- MODULE DurableRewrite ----------------------------
(***************************************************************************)
(* The rewrite of several files of a graph root as one transaction         *)
(* (crates/graphforge-storage/src/durable_rewrite.rs and its moves.rs).    *)
(*                                                                         *)
(* Under one file lock a commit stages a temporary beside every            *)
(* destination, publishes an intent (first "preparing", then "durable"),   *)
(* and replays it: the data entries are renamed over their destinations,   *)
(* the sources of moves are unlinked, generation.json is renamed last, and *)
(* the intent is unlinked.  Whoever takes the lock next replays what it    *)
(* finds.  A rename or unlink is visible at once and reaches the disk with *)
(* the flush of its directory, which is a step of its own.                 *)
(*                                                                         *)
(* A file is the transaction that made it and its contents; the contents   *)
(* of generation.json are the generation number.                           *)
(***************************************************************************)
EXTENDS Integers, FiniteSets

CONSTANTS
    Writers,        \* processes that rewrite the root
    Data,           \* data destinations
    Receipt,        \* the data destination that holds an auxiliary receipt
    Authority,      \* topology/generation.json
    Parent,         \* the directory of each destination and its temporaries
    Root,           \* the directory of the journal and the lock file
    Initial,        \* the data files that exist at the start
    Batches,        \* the rewrites a writer may ask for
    MaxGeneration,  \* the largest generation number (u64::MAX in the code)
    MaxTx,          \* bound: transactions staged
    MaxFaults,      \* bound: kills, power losses and I/O errors
    Journal,        \* the name of the intent in the root
    Absent, Nobody, None

Dests == Data \cup {Authority}
Dirs  == {Parent[x] : x \in Dests} \cup {Root}
Tx    == 0..MaxTx
Files == [tx : Tx, body : Nat] \cup {Absent}
Slots == [file : Files, temp : SUBSET Tx]

\* Intent, with the entries E of which those in M are moves: its state, its
\* transaction, the generation before and after it, what it installs and over
\* what, and the source of each move with the file staged from it.
Intents(E, M) == [state : {"preparing", "durable"}, tx : Tx, prior : Nat, next : Nat,
                  body : [E -> Nat], old : [E -> Files], moves : [M -> Data], source : [M -> Files]]

ASSUME RewriteAssumption ==
    /\ Authority \notin Data /\ Journal \notin Dests
    /\ Receipt \in Data
    /\ Initial \subseteq Data
    /\ Parent \in [Dests -> Dirs]
    /\ MaxGeneration \in Nat /\ MaxTx \in Nat /\ MaxFaults \in Nat
    /\ Nobody \notin Writers
    /\ (\A E \in SUBSET Dests, M \in SUBSET Data : None \notin Intents(E, M))
    /\ Absent \notin [tx : Tx, body : Nat]
    /\ \A b \in Batches :
        /\ b \in [writes : SUBSET Data, moves : [DOMAIN b.moves -> Data], bump : {0, 1}]
        /\ DOMAIN b.moves \subseteq Data \ b.writes
        /\ \A d \in DOMAIN b.moves : b.moves[d] \in Data \ (b.writes \cup DOMAIN b.moves)
        /\ \A d, e \in DOMAIN b.moves : b.moves[d] = b.moves[e] => d = e

VARIABLES
    slot,      \* what a process sees at each destination: the file, and the
               \* transactions whose temporary for it exists
    dslot,     \* what the disk holds of it
    journal,   \* the visible .graphforge-rewrite-v1.json, or None
    djournal,  \* the one on disk
    waiting,   \* the operation for which each writer waits for the lock
    lock,      \* holder of .graphforge-rewrite.lock
    call,      \* what the holder is doing
    failed,    \* the failed commit that a writer has still to reconcile
    seen,      \* the files a writer saw when it staged its moves
    plan,      \* history: contents and ancestors of each transaction
    txs,       \* history: transactions staged so far
    told,      \* history: what the caller of each transaction was told
    shown,     \* history: transactions whose generation.json was visible
    missed,    \* history: what a replay relied on although it was not flushed: the
               \* intent, or a destination that it found installed
    lost,      \* history: which of the two a power loss undid
    refused,   \* history: a replay rejected what it found
    faults

disk  == <<slot, dslot, journal, djournal>>
notes == <<plan, txs, told, shown>>
vars  == <<disk, waiting, lock, call, failed, seen, notes, missed, lost, refused, faults>>

Idle == [op |-> "none", at |-> "idle", tx |-> 0, gen |-> 0, left |-> {}, x |-> Authority]

Start(x) == IF x \in Initial THEN [tx |-> 0, body |-> 0] ELSE Absent

Init ==
    /\ slot = [x \in Dests |-> [file |-> Start(x), temp |-> {}]]
    /\ dslot = slot
    /\ journal = None /\ djournal = None
    /\ waiting = [w \in Writers |-> "none"]
    /\ lock = Nobody /\ call = Idle
    /\ failed = [w \in Writers |-> None]
    /\ seen = [w \in Writers |-> None]
    /\ plan = [t \in Tx |-> [files |-> [x \in Data |-> Start(x)], line |-> {0}, gen |-> 0, bump |-> 0]]
    /\ txs = 0
    /\ told = [t \in Tx |-> "nothing"]
    /\ shown = {0}
    /\ missed = {} /\ lost = {} /\ refused = FALSE /\ faults = 0

\* read_generation_state_raw: a missing file is generation 0.
Generation == IF slot[Authority].file = Absent THEN 0 ELSE slot[Authority].file.body

\* The transaction that installed the visible generation.json.
Selected == IF slot[Authority].file = Absent THEN 0 ELSE slot[Authority].file.tx

-----------------------------------------------------------------------------

Goto(place) == call' = [call EXCEPT !.at = place]
At(place)   == call.at = place

Return == lock' = Nobody /\ call' = Idle

\* acknowledge_directory, for the directories ds.
Flush(ds) ==
    /\ dslot' = [x \in Dests |-> IF Parent[x] \in ds THEN slot'[x] ELSE dslot[x]]
    /\ djournal' = IF Root \in ds THEN journal ELSE djournal
    /\ missed' = {x \in missed : (IF x = Journal THEN Root ELSE Parent[x]) \notin ds}

\* With the lock, the generation is read before the replay.
Entered(op) == [Idle EXCEPT !.op = op, !.at = "replay", !.gen = Generation]

\* The lock is taken if it is free, and waited for otherwise.
TakeOrWait(w, op) ==
    IF lock = Nobody
    THEN lock' = w /\ call' = Entered(op) /\ waiting' = waiting
    ELSE waiting' = [waiting EXCEPT ![w] = op] /\ UNCHANGED <<lock, call>>

\* acquire: the lock file is sealed and the root flushed before the lock is
\* waited for.
Acquire(w, op) ==
    /\ waiting[w] = "none" /\ lock # w
    /\ UNCHANGED slot
    /\ Flush({Root})
    /\ TakeOrWait(w, op)
    /\ UNCHANGED <<journal, failed, seen, notes, lost, refused, faults>>

\* lock_exclusive returns.
TakeLock(w) ==
    /\ waiting[w] # "none"
    /\ lock = Nobody
    /\ lock' = w
    /\ waiting' = [waiting EXCEPT ![w] = "none"]
    /\ call' = Entered(waiting[w])
    /\ UNCHANGED <<disk, failed, seen, notes, missed, lost, refused, faults>>

\* A commit that failed is reconciled before its writer does anything else.  A
\* recovery that waits for the lock does what a commit does that is then rejected.
StartCommit(w)    == failed[w] = None /\ Acquire(w, "commit")
StartRecover(w)   == journal # None /\ lock = Nobody /\ Acquire(w, "recover")
StartReconcile(w) == failed[w] # None /\ Acquire(w, "reconcile")

Sources == UNION {{b.moves[d] : d \in DOMAIN b.moves} : b \in Batches}

\* moves::stage: the source is copied and authenticated under the lock.
StageMove(w) ==
    /\ lock = Nobody /\ waiting[w] = "none"
    /\ journal = None
    /\ \E s \in Sources : slot[s].file # Absent
    /\ seen' = [seen EXCEPT ![w] = [s \in Sources |-> slot[s].file]]
    /\ UNCHANGED <<disk, waiting, lock, call, failed, notes, missed, lost, refused, faults>>

-----------------------------------------------------------------------------
(* recover_locked                                                          *)

Entries(i) == DOMAIN i.body
Installed(i, x) == [tx |-> i.tx, body |-> i.body[x]]

\* moves::check in replay: the source is as it was staged, or it is gone and
\* its destination is exactly the installed file.
MoveChecks(i) ==
    \A d \in DOMAIN i.moves :
        LET s == i.moves[d] IN
        IF slot[s].file = Absent THEN slot[d].file = Installed(i, d)
                                 ELSE slot[s].file = i.source[d]

Acceptable(i) ==
    /\ call.gen \in {i.prior, i.next}
    /\ i.state = "durable" => MoveChecks(i)

ReplayNothing ==
    /\ At("replay") /\ journal = None
    /\ Goto("replayed")
    /\ UNCHANGED <<disk, waiting, lock, failed, seen, notes, missed, lost, refused, faults>>

\* Mutant: the generation authority is one entry among the others.
ReplayUnordered ==
    /\ At("replay") /\ journal # None
    /\ Acceptable(journal)
    /\ call' = IF journal.state = "preparing"
               THEN [call EXCEPT !.at = "clean", !.left = Entries(journal)]
               ELSE [call EXCEPT !.at = "install", !.left = Entries(journal)]
    /\ missed' = IF journal = djournal \/ journal.state = "preparing" THEN missed ELSE missed \cup {Journal}
    /\ UNCHANGED <<disk, waiting, lock, failed, seen, notes, lost, refused, faults>>

\* Mutant: a preparing intent is rolled forward like a durable one.
ReplayAlwaysForward ==
    /\ At("replay") /\ journal # None
    /\ Acceptable(journal)
    /\ call' = [call EXCEPT !.at = "install", !.left = Entries(journal) \ {Authority}]
    /\ missed' = IF journal = djournal \/ journal.state = "preparing" THEN missed ELSE missed \cup {Journal}
    /\ UNCHANGED <<disk, waiting, lock, failed, seen, notes, lost, refused, faults>>

\* Mutant: a preparing intent is left where it is.
ReplayKeepsPreparing ==
    /\ At("replay") /\ journal # None
    /\ Acceptable(journal)
    /\ call' = IF journal.state = "preparing"
               THEN [call EXCEPT !.at = "replayed"]
               ELSE [call EXCEPT !.at = "install", !.left = Entries(journal) \ {Authority}]
    /\ missed' = IF journal = djournal \/ journal.state = "preparing" THEN missed ELSE missed \cup {Journal}
    /\ UNCHANGED <<disk, waiting, lock, failed, seen, notes, lost, refused, faults>>

ReplayBegin ==
    /\ At("replay") /\ journal # None
    /\ Acceptable(journal)
    /\ call' = IF journal.state = "preparing"
               THEN [call EXCEPT !.at = "clean", !.left = Entries(journal)]
               ELSE [call EXCEPT !.at = "install", !.left = Entries(journal) \ {Authority}]
    /\ missed' = IF journal = djournal \/ journal.state = "preparing" THEN missed ELSE missed \cup {Journal}
    /\ UNCHANGED <<disk, waiting, lock, failed, seen, notes, lost, refused, faults>>

\* cleanup_preparing_input, one entry after the other.
CleanTemporary(x) ==
    /\ At("clean") /\ call.left # {}
    /\ x = CHOOSE y \in call.left : TRUE
    /\ slot' = [slot EXCEPT ![x].temp = @ \ {journal.tx}]
    /\ call' = [call EXCEPT !.left = @ \ {x}, !.x = x,
                            !.at = IF journal.tx \in slot[x].temp THEN "cleaned" ELSE @]
    /\ UNCHANGED <<waiting, dslot, journal, djournal, lock, failed, seen, notes, missed, lost, refused, faults>>

\* install: an entry whose temporary is gone was renamed by an earlier replay.
Renames(x) ==
    /\ journal.tx \in slot[x].temp
    /\ slot[x].file = journal.old[x]
    /\ slot' = [slot EXCEPT ![x] = [file |-> Installed(journal, x), temp |-> @.temp \ {journal.tx}]]
    /\ missed' = missed

PassesOver(x) ==
    /\ journal.tx \notin slot[x].temp
    /\ slot[x].file = Installed(journal, x)
    /\ slot' = slot
    /\ missed' = IF slot[x] = dslot[x] THEN missed ELSE missed \cup {x}

\* Mutant: the source of a move is retired before its destination is flushed.
AfterInstallRetiring(x) ==
    IF x \in DOMAIN journal.moves THEN "retire"
    ELSE IF journal.tx \in slot[x].temp THEN "installed"
    ELSE IF x = Authority THEN "finish" ELSE "install"

\* Where the replay goes on once x is renamed, or was found renamed.
AfterInstall(x) ==
    IF journal.tx \in slot[x].temp THEN "installed"
    ELSE IF x \in DOMAIN journal.moves THEN "retire"
    ELSE IF x = Authority THEN "finish" ELSE "install"

\* The data entries first, then the generation authority.
NextEntries == IF call.left = {} THEN {Authority} ELSE call.left

Install(x) ==
    /\ At("install") /\ x \in NextEntries
    /\ Renames(x) \/ PassesOver(x)
    /\ call' = [call EXCEPT !.left = @ \ {x}, !.x = x, !.at = AfterInstall(x)]
    /\ shown' = IF x = Authority THEN shown \cup {journal.tx} ELSE shown
    /\ UNCHANGED <<waiting, dslot, journal, djournal, lock, failed, seen, plan, txs, told, lost, refused, faults>>

\* What a call that fails leaves to be reconciled: a commit that was to advance
\* the generation.
ToReconcile ==
    [w \in Writers |->
        IF w # lock \/ call.op = "recover" THEN failed[w]
        ELSE IF call.op = "commit" /\ failed[w] # None /\ failed[w].prior # failed[w].next THEN failed[w]
        ELSE None]

\* What the replay finds is what a transaction can have left there.
Authentic ==
    /\ At("replay") /\ journal # None => Acceptable(journal)
    /\ At("install") => \A x \in NextEntries :
        slot[x].file = IF journal.tx \in slot[x].temp THEN journal.old[x] ELSE Installed(journal, x)

ReplayRefused ==
    /\ ~Authentic
    /\ refused' = TRUE
    /\ failed' = ToReconcile
    /\ Return
    /\ UNCHANGED <<disk, waiting, seen, notes, missed, lost, faults>>

\* moves::retire; a source that is gone still has its directory flushed.
Retire ==
    /\ At("retire")
    /\ slot' = [slot EXCEPT ![journal.moves[call.x]].file = Absent]
    /\ Goto("retired")
    /\ UNCHANGED <<waiting, dslot, journal, djournal, lock, failed, seen, notes, missed, lost, refused, faults>>

\* remove_journal
UnlinkJournal ==
    /\ At("finish") \/ (At("clean") /\ call.left = {})
    /\ journal' = None
    /\ Goto("unlinked")
    /\ UNCHANGED <<waiting, slot, dslot, djournal, lock, failed, seen, notes, missed, lost, refused, faults>>

\* The directory that the next flush of the call is about, and what follows it.
FlushDir ==
    CASE call.at \in {"cleaned", "installed"} -> Parent[call.x]
      [] At("retired") -> Parent[journal.moves[call.x]]
      [] OTHER -> Root

AfterFlush ==
    CASE At("cleaned")   -> "clean"
      [] At("installed") -> IF call.x \in DOMAIN journal.moves THEN "retire"
                            ELSE IF call.x = Authority THEN "finish" ELSE "install"
      [] At("retired")   -> "install"
      [] At("unlinked")  -> "replayed"
      [] At("prepared")  -> "keep"
      [] At("switched")  -> "replay"

Flushes == {"cleaned", "installed", "retired", "unlinked", "prepared", "switched"}

FlushStep ==
    /\ call.at \in Flushes
    /\ UNCHANGED slot
    /\ Flush({FlushDir})
    /\ Goto(AfterFlush)
    /\ UNCHANGED <<waiting, journal, lock, failed, seen, notes, lost, refused, faults>>

-----------------------------------------------------------------------------
(* commit_locked, after its first replay                                   *)

\* The contents a batch leaves, given what is visible now.
After(b, t) ==
    [x \in Data |-> IF x \in b.writes THEN [tx |-> t, body |-> t]
                    ELSE IF x \in DOMAIN b.moves THEN [tx |-> t, body |-> slot[b.moves[x]].file.body]
                    ELSE IF \E d \in DOMAIN b.moves : b.moves[d] = x THEN Absent
                    ELSE slot[x].file]

\* The intent of a batch that takes the root from generation g.
IntentFrom(b, t, g) ==
    LET touched == b.writes \cup DOMAIN b.moves IN
    [state |-> "preparing", tx |-> t, prior |-> g, next |-> g + b.bump,
     body  |-> [x \in touched \cup {Authority} |-> IF x = Authority THEN g + b.bump ELSE After(b, t)[x].body],
     old   |-> [x \in touched \cup {Authority} |-> slot[x].file],
     moves |-> b.moves,
     source |-> [d \in DOMAIN b.moves |-> slot[b.moves[d]].file]]

\* Mutant: the generation is not read again after the replay.
IntentStale(b, t) == IntentFrom(b, t, call.gen)

Intent(b, t) == IntentFrom(b, t, Generation)

\* moves::check before the intent, and moves::validate: the sources are still
\* the files that were staged, and the destinations still do not exist.
MovesStand(w, b) ==
    b.moves # <<>> =>
        /\ seen[w] # None
        /\ \A d \in DOMAIN b.moves :
            /\ slot[d].file = Absent
            /\ slot[b.moves[d]].file # Absent
            /\ slot[b.moves[d]].file = seen[w][b.moves[d]]

\* The temporaries are sealed and their directories flushed, one entry after the
\* other; nobody looks at them before the intent names them.
Stage(w, b) ==
    /\ lock = w /\ At("replayed") /\ call.op = "commit" /\ call.tx = 0
    /\ txs < MaxTx
    /\ Generation + b.bump <= MaxGeneration
    /\ MovesStand(w, b)
    /\ LET t == txs + 1
           i == Intent(b, t) IN
        /\ txs' = t
        /\ plan' = [plan EXCEPT ![t] = [files |-> After(b, t), line |-> plan[Selected].line \cup {t},
                                        gen |-> i.next, bump |-> b.bump]]
        /\ slot' = [x \in Dests |-> IF x \in Entries(i) THEN [slot[x] EXCEPT !.temp = @ \cup {t}] ELSE slot[x]]
        /\ Flush({Parent[x] : x \in Entries(i)})
        /\ call' = [call EXCEPT !.at = "publish", !.tx = t, !.gen = Generation, !.x = Authority]
        /\ failed' = [failed EXCEPT ![w] = i]
    /\ seen' = [seen EXCEPT ![w] = None]
    /\ UNCHANGED <<waiting, journal, lock, told, shown, lost, refused, faults>>

\* A counter overflow, a move that no longer stands, nothing to commit, or a
\* participant that refuses.
StageRejected(w) ==
    /\ lock = w /\ At("replayed") /\ call.op = "commit" /\ call.tx = 0
    /\ seen' = [seen EXCEPT ![w] = None]
    /\ Return
    /\ UNCHANGED <<disk, waiting, failed, notes, missed, lost, refused, faults>>

\* publish_journal, first with the preparing intent.
PublishPreparing(w) ==
    /\ lock = w /\ At("publish")
    /\ journal' = failed[w]
    /\ Goto("prepared")
    /\ UNCHANGED <<waiting, slot, dslot, djournal, lock, failed, seen, notes, missed, lost, refused, faults>>

\* Mutant: the intent is published again as it was.
PublishPreparingAgain(w) ==
    /\ lock = w /\ At("keep")
    /\ journal' = failed[w]
    /\ Goto("switched")
    /\ UNCHANGED <<waiting, slot, dslot, djournal, lock, failed, seen, notes, missed, lost, refused, faults>>

\* Every temporary is kept, then the intent is published as durable.
PublishDurable(w) ==
    /\ lock = w /\ At("keep")
    /\ journal' = [failed[w] EXCEPT !.state = "durable"]
    /\ Goto("switched")
    /\ UNCHANGED <<waiting, slot, dslot, djournal, lock, failed, seen, notes, missed, lost, refused, faults>>

CommitReturns(w) ==
    /\ lock = w /\ At("replayed") /\ call.op = "commit" /\ call.tx # 0
    /\ told' = [told EXCEPT ![call.tx] = "ok"]
    /\ failed' = [failed EXCEPT ![w] = None]
    /\ Return
    /\ UNCHANGED <<disk, waiting, seen, plan, txs, shown, missed, lost, refused, faults>>

RecoverReturns(w) ==
    /\ lock = w /\ At("replayed") /\ call.op = "recover"
    /\ Return
    /\ UNCHANGED <<disk, waiting, failed, seen, notes, missed, lost, refused, faults>>

\* Mutant: the receipt is not compared.
OutcomeByGeneration(i) ==
    IF Generation = i.next THEN "committed"
    ELSE IF Generation = i.prior THEN "not committed" ELSE "ambiguous"

\* reconcile_auxiliary and reconcile_generation_transition.
Outcome(i) ==
    LET exact == slot[Receipt].file # Absent /\ slot[Receipt].file.tx = i.tx IN
    IF Receipt \in Entries(i)
    THEN IF Generation = i.next /\ exact THEN "committed"
         ELSE IF Generation = i.prior /\ ~exact THEN "not committed" ELSE "ambiguous"
    ELSE IF Generation = i.next THEN "committed"
         ELSE IF Generation = i.prior THEN "not committed" ELSE "ambiguous"

ReconcileReturns(w) ==
    /\ lock = w /\ At("replayed") /\ call.op = "reconcile"
    /\ told' = [told EXCEPT ![failed[w].tx] = Outcome(failed[w])]
    /\ failed' = [failed EXCEPT ![w] = None]
    /\ Return
    /\ UNCHANGED <<disk, waiting, seen, plan, txs, shown, missed, lost, refused, faults>>

-----------------------------------------------------------------------------
(* Faults                                                                  *)

\* Before the preparing intent and until every temporary is kept, an error drops
\* the NamedTempFiles that are still armed.
Armed == call.op = "commit" /\ call.at \in {"publish", "prepared", "keep"}

\* An I/O error returns from the call.
Fail(w) ==
    /\ lock = w
    /\ faults < MaxFaults
    /\ faults' = faults + 1
    /\ \E dropped \in SUBSET Dests :
        /\ At("keep") \/ dropped = {x \in Dests : Armed /\ call.tx \in slot[x].temp}
        /\ dropped \subseteq {x \in Dests : Armed /\ call.tx \in slot[x].temp}
        /\ slot' = [x \in Dests |-> IF x \in dropped THEN [slot[x] EXCEPT !.temp = @ \ {call.tx}] ELSE slot[x]]
    /\ failed' = ToReconcile
    /\ Return
    /\ UNCHANGED <<waiting, dslot, journal, djournal, seen, notes, missed, lost, refused>>

\* The process is killed: its lock goes, and so does its memory.  One that dies
\* without the lock leaves nothing behind.
Kill(w) ==
    /\ lock = w
    /\ faults < MaxFaults
    /\ faults' = faults + 1
    /\ Return
    /\ failed' = [failed EXCEPT ![w] = None]
    /\ seen' = [seen EXCEPT ![w] = None]
    /\ UNCHANGED <<disk, waiting, notes, missed, lost, refused>>

\* Every directory may lose what was not flushed.
PowerLoss ==
    /\ faults < MaxFaults
    /\ faults' = faults + 1
    /\ \E gone \in SUBSET Dirs :
        /\ slot' = [x \in Dests |-> IF Parent[x] \in gone THEN dslot[x] ELSE slot[x]]
        /\ journal' = IF Root \in gone THEN djournal ELSE journal
        /\ lost' = lost \cup (IF Journal \in missed /\ Root \in gone /\ journal # djournal THEN {"intent"} ELSE {})
                        \cup (IF \E x \in missed \ {Journal} : Parent[x] \in gone THEN {"install"} ELSE {})
    /\ dslot' = slot' /\ djournal' = journal'
    /\ missed' = {}
    /\ Return
    /\ waiting' = [w \in Writers |-> "none"]
    /\ failed' = [w \in Writers |-> None]
    /\ seen' = [w \in Writers |-> None]
    /\ UNCHANGED <<notes, refused>>

-----------------------------------------------------------------------------

\* The steps of the call under way.
Step ==
    \/ ReplayNothing \/ ReplayBegin \/ ReplayRefused
    \/ \E x \in Dests : CleanTemporary(x) \/ Install(x)
    \/ Retire \/ UnlinkJournal \/ FlushStep
    \/ \E w \in Writers : \/ \E b \in Batches : Stage(w, b)
                          \/ StageRejected(w) \/ PublishPreparing(w) \/ PublishDurable(w)
                          \/ CommitReturns(w) \/ RecoverReturns(w) \/ ReconcileReturns(w)

Recovers == \E w \in Writers : StartRecover(w)
Acquires == \E w \in Writers : TakeLock(w)

Next ==
    \/ Step \/ Recovers \/ Acquires \/ PowerLoss
    \/ \E w \in Writers : StartCommit(w) \/ StartReconcile(w) \/ StageMove(w) \/ Fail(w) \/ Kill(w)

Spec == Init /\ [][Next]_vars

\* The lock holder runs, and a root with a journal is opened again.
FairSpec == Spec /\ WF_vars(Step) /\ WF_vars(Acquires) /\ WF_vars(Recovers)

-----------------------------------------------------------------------------

Places == Flushes \cup {"idle", "replay", "replayed", "clean", "install", "retire", "finish",
                        "publish", "keep"}
Operations == {"commit", "recover", "reconcile"}
Calls  == [op : Operations \cup {"none"}, at : Places, tx : Tx, gen : Nat, left : SUBSET Dests, x : Dests]
Plans  == [files : [Data -> Files], line : SUBSET Tx, gen : Nat, bump : {0, 1}]
Answers == {"nothing", "ok", "committed", "not committed", "ambiguous"}

IsIntent(i) ==
    /\ i \in Intents(DOMAIN i.body, DOMAIN i.moves)
    /\ DOMAIN i.body \subseteq Dests /\ Authority \in DOMAIN i.body
    /\ DOMAIN i.moves \subseteq Data \cap DOMAIN i.body
    /\ \A d \in DOMAIN i.moves : i.moves[d] \notin DOMAIN i.body
    /\ \A d, e \in DOMAIN i.moves : i.moves[d] = i.moves[e] => d = e
    /\ i.body[Authority] = i.next /\ i.next <= MaxGeneration

TypeOK ==
    /\ slot \in [Dests -> Slots] /\ dslot \in [Dests -> Slots]
    /\ \A i \in {journal, djournal} : i = None \/ IsIntent(i)
    /\ waiting \in [Writers -> Operations \cup {"none"}]
    /\ lock \in Writers \cup {Nobody}
    /\ call \in Calls
    /\ failed = [w \in Writers |-> failed[w]] /\ \A w \in Writers : failed[w] = None \/ IsIntent(failed[w])
    /\ seen \in [Writers -> [Sources -> Files] \cup {None}]
    /\ plan \in [Tx -> Plans]
    /\ txs \in Tx
    /\ told \in [Tx -> Answers]
    /\ shown \subseteq Tx /\ missed \subseteq Dests \cup {Journal}
    /\ lost \subseteq {"intent", "install"} /\ refused \in BOOLEAN /\ faults \in 0..MaxFaults
    /\ Generation <= MaxGeneration
    /\ lock = Nobody <=> call = Idle

\* Once a root is read, generation.json never describes a prefix of a rewrite:
\* without a durable intent, every data file is the one that the transaction of
\* the visible generation.json leaves.
GenerationDescribesWhole ==
    journal = None \/ journal.state = "preparing" =>
        \A x \in Data : slot[x].file = plan[Selected].files[x]

\* A crash before the durable intent leaves the prior generation: the same, where
\* no power loss undid an install that a replay passed over.
PriorUnlessInstallLost == "install" \notin lost => GenerationDescribesWhole

\* Through kills, power losses and interrupted replays the data files are those of
\* the visible generation.json, which is the last file of a rewrite to change, as
\* long as no power loss undoes a rename that a replay found done and did not flush.
WholeUnlessBarrierMissed ==
    lost = {} /\ (journal = None \/ journal.state = "preparing" \/ journal.tx = Selected) =>
        \A x \in Data : slot[x].file = plan[Selected].files[x]

\* What commit reported as done stays done: the transaction is an ancestor of the
\* one whose generation.json is visible, after any crash and any later rewrite.
CommittedStays ==
    lost = {} => \A t \in Tx : told[t] = "ok" => t \in plan[Selected].line

\* Every state a crash can leave is one that the replay accepts: its
\* authentication of sources, temporaries and destinations never rejects what an
\* interrupted commit or replay left behind.
ReplayNeverRefuses == lost = {} => ~refused

\* A file on its way to another name is never only in memory: on disk the intact
\* source is still there, or the destination already is.
MovedFileOnDisk ==
    lost = {} /\ missed = {} /\ journal # None /\ journal.state = "durable" =>
        \A d \in DOMAIN journal.moves :
            \/ dslot[journal.moves[d]].file = journal.source[d]
            \/ dslot[d].file = Installed(journal, d)

\* What reconciliation tells the writer of a failed commit is what happened to it.
\* Without a receipt a committed answer may stand for another writer's rewrite
\* between the same two generations.
ReconcileTruthful ==
    lost = {} => \A t \in Tx :
        /\ told[t] = "not committed" =>
            /\ t \notin plan[Selected].line
            /\ \A i \in {journal, djournal} : i # None => ~(i.tx = t /\ i.state = "durable")
        /\ told[t] = "committed" =>
            \/ t \in plan[Selected].line
            \/ /\ plan[t].files[Receipt] # [tx |-> t, body |-> t]
               /\ \E u \in plan[Selected].line : plan[u].bump = 1 /\ plan[u].gen = plan[t].gen

\* A generation number that was ever visible names the rewrite of one transaction
\* only: no crash lets a second one be published under it.
GenerationNamesOne ==
    lost = {} => \A t, u \in shown :
        plan[t].bump = 1 /\ plan[u].bump = 1 /\ plan[t].gen = plan[u].gen => t = u

\* No data file changes before the durable intent that names it is on disk, and
\* none changes after the intent is gone.
WriteAhead ==
    [][\A x \in Data : slot'[x].file # slot[x].file =>
        \/ faults' # faults \/ Journal \in missed
        \/ djournal # None /\ djournal.state = "durable" /\ journal = djournal]_vars

\* An intent does not stay: whoever opens the root completes it or takes it back.
IntentSettles == journal # None ~> (journal = None \/ lost # {})

=============================================================================
