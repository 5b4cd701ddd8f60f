------------------------ MODULE DurableRewriteInvariant -----------------------
(***************************************************************************)
(* The inductive invariant of DurableRewrite, and the steps of the replay, *)
(* the flushes and the faults that keep it.  DurableRewriteProofs has the  *)
(* staging, the answers and the theorems.                                  *)
(*                                                                         *)
(* The invariant IInv has two parts.  Shape holds always: the types, where *)
(* the call under way is, and the failed commits that wait for their       *)
(* reconciliation.  Good holds as long as nothing is lost, and says in     *)
(* which of four states the root is.  Resting: no durable intent, and the  *)
(* files are those of the selected transaction.  Switching: the durable    *)
(* intent is visible and the preparing one on disk, and nothing has        *)
(* changed yet.  Replaying: the durable intent is visible and on disk, and *)
(* every entry is either as before it or as after it, each of the two      *)
(* views by its own temporary.  Unlinking: the intent is gone from view    *)
(* and still on disk, and all of it is done.                               *)
(*                                                                         *)
(* What is on disk enters through Kept, which takes the visible name where *)
(* a replay relied on it unflushed.  Any step that gives each name its     *)
(* visible or its kept contents, and touches no temporary of a durable     *)
(* intent, keeps the root in its states: a flush, a power loss, a failure  *)
(* and a cleanup are all of this kind (Mix).  The rest is one lemma per    *)
(* action.                                                                 *)
(***************************************************************************)
EXTENDS DurableRewrite, TLAPS

\* Most leaves are first-order; those that need arithmetic or records name SMT.
USE ZenonT(20)

-----------------------------------------------------------------------------
(* What the disk has to answer for.  A replay that relies on something         *)
(* unflushed puts it in missed, and a power loss that undoes it is put in       *)
(* lost; as long as nothing is lost, a name in missed is as good as flushed.   *)

Kept(x)    == IF x \in missed THEN slot[x] ELSE dslot[x]
KeptIntent == IF Journal \in missed THEN journal ELSE djournal

Durable(i) == i # None /\ i.state = "durable"
AsDurable(i) == [i EXCEPT !.state = "durable"]

\* The transaction whose generation.json an intent replaces.
SelectedOf(file) == IF file = Absent THEN 0 ELSE file.tx
From(i) == SelectedOf(i.old[Authority])

\* What transaction t leaves at destination x.
AuthorityOf(t) == IF t = 0 THEN Absent ELSE [tx |-> t, body |-> plan[t].gen]
Content(t, x)  == IF x = Authority THEN AuthorityOf(t) ELSE plan[t].files[x]

\* The lines of ancestors: a generation number appears once in a line, and every
\* number up to the last one appears.
LineOf(t) ==
    /\ plan[t].line \subseteq 0..t /\ t \in plan[t].line
    /\ \A u \in plan[t].line : plan[u].gen <= plan[t].gen
    /\ \A u, v \in plan[t].line :
        plan[u].bump = 1 /\ plan[v].bump = 1 /\ plan[u].gen = plan[v].gen => u = v
    /\ \A n \in 1..plan[t].gen : \E u \in plan[t].line : plan[u].bump = 1 /\ plan[u].gen = n
    /\ \A x \in Data : plan[t].files[x] # Absent => plan[t].files[x].tx \in plan[t].line

Lines == plan[0].gen = 0 /\ plan[0].bump = 0 /\ \A t \in 0..txs : LineOf(t)

\* An intent says how the plan of its transaction differs from the one before.
Faithful(i) ==
    /\ i.tx \in 1..txs /\ From(i) \in 0..(i.tx - 1)
    /\ i.prior = plan[From(i)].gen /\ i.next = plan[i.tx].gen
    /\ i.next = i.prior + plan[i.tx].bump
    /\ plan[i.tx].line = plan[From(i)].line \cup {i.tx}
    /\ \A x \in Entries(i) : i.old[x] = Content(From(i), x) /\ Installed(i, x) = Content(i.tx, x)
    /\ \A d \in DOMAIN i.moves :
        /\ i.source[d] # Absent /\ i.source[d] = Content(From(i), i.moves[d])
        /\ Content(i.tx, i.moves[d]) = Absent
    /\ \A x \in Dests \ Entries(i) :
        (\A d \in DOMAIN i.moves : i.moves[d] # x) => Content(i.tx, x) = Content(From(i), x)

\* An entry is done when its temporary is gone, here and on disk; a move, when
\* its source is gone too.
Done(i, x) == i.tx \notin slot[x].temp /\ i.tx \notin Kept(x).temp
Retired(i, d) == slot[i.moves[d]].file = Absent /\ Kept(i.moves[d]).file = Absent
Finished(i, x) == Done(i, x) /\ (x \in DOMAIN i.moves => Retired(i, x))
Completed(i) == \A x \in Entries(i) \ {Authority} : Finished(i, x)

EntryOK(i, x, c) == c.file = IF i.tx \in c.temp THEN Content(From(i), x) ELSE Content(i.tx, x)

InProgress(i) ==
    /\ \A x \in Entries(i) : EntryOK(i, x, slot[x]) /\ EntryOK(i, x, Kept(x))
    /\ \A x \in Dests \ Entries(i) : /\ slot[x].file \in {Content(From(i), x), Content(i.tx, x)}
                                     /\ Kept(x).file \in {Content(From(i), x), Content(i.tx, x)}
    /\ \A d \in DOMAIN i.moves :
        slot[i.moves[d]].file = Absent \/ Kept(i.moves[d]).file = Absent => Done(i, d)
    /\ i.tx \notin slot[Authority].temp \/ i.tx \notin Kept(Authority).temp => Completed(i)

Settled(t) == \A x \in Dests : slot[x].file = Content(t, x) /\ Kept(x).file = Content(t, x)

Untouched(i) ==
    /\ Settled(From(i))
    /\ \A x \in Entries(i) : i.tx \in slot[x].temp /\ i.tx \in Kept(x).temp

\* The intent that is visible, the one on disk, and the files.
Replaying == Durable(journal) /\ KeptIntent = journal /\ InProgress(journal)
Switching ==
    /\ Durable(journal) /\ KeptIntent # None /\ ~Durable(KeptIntent)
    /\ journal = AsDurable(KeptIntent) /\ Untouched(journal)
Unlinking ==
    /\ ~Durable(journal) /\ Durable(KeptIntent)
    /\ Settled(KeptIntent.tx)
    /\ \A x \in Entries(KeptIntent) : Done(KeptIntent, x)
    /\ journal # None => journal.tx # KeptIntent.tx /\ From(journal) = KeptIntent.tx
Resting ==
    /\ ~Durable(journal) /\ ~Durable(KeptIntent)
    /\ Selected \in 0..txs /\ Settled(Selected)
    /\ journal # None => From(journal) = Selected
    /\ KeptIntent # None => From(KeptIntent) = Selected

RootOK == Replaying \/ Switching \/ Unlinking \/ Resting

IntentsFaithful ==
    /\ journal # None => Faithful(journal)
    /\ KeptIntent # None => Faithful(KeptIntent)

FailedFaithful == \A w \in Writers : failed[w] # None => Faithful(failed[w])

\* An intent that a replay relied on unflushed is preparing on disk.
MissedIntent == Journal \in missed => ~Durable(djournal)

\* How far the call has come.
Installing == {"install", "installed", "retire", "retired", "finish"}
Behind == IF call.at \in {"installed", "retire", "retired"} THEN {call.x} ELSE {}

Place ==
    /\ call.at \in {"publish", "prepared", "keep", "switched"} => call.tx # 0
    /\ call.at \in {"publish", "unlinked", "replayed"} => journal = None
    /\ call.at \in {"prepared", "keep"} => journal = failed[lock]
    /\ At("keep") => KeptIntent = journal
    /\ call.at \in {"clean", "cleaned"} => journal # None /\ journal.state = "preparing"
    /\ call.at \in Installing => Durable(journal) /\ KeptIntent = journal
    /\ At("install") => call.left \subseteq Entries(journal) \ {Authority}
    /\ call.at \in {"installed", "retire", "retired"} =>
        /\ call.left \subseteq Entries(journal) \ {Authority, call.x}
        /\ call.x \in Entries(journal)
    /\ At("installed") /\ call.x = Authority => call.left = {}
    /\ call.at \in {"retire", "retired"} => call.x \in DOMAIN journal.moves
    /\ call.tx # 0 =>
        /\ call.op = "commit" /\ failed[lock] # None /\ failed[lock].tx = call.tx
        /\ call.gen = failed[lock].prior
        /\ call.at \in Installing \cup {"switched", "replay"} => journal = AsDurable(failed[lock])
        /\ call.at \notin {"clean", "cleaned"}

Progress ==
    /\ call.at \in {"publish", "prepared", "keep"} =>
        /\ Untouched(failed[lock])
        /\ At("publish") /\ KeptIntent # None => KeptIntent.tx # call.tx
    /\ call.at \in Installing \ {"finish"} =>
        \A x \in Entries(journal) \ ({Authority} \cup Behind \cup call.left) : Finished(journal, x)
    /\ At("installed") => journal.tx \notin slot[call.x].temp
    /\ call.at \in {"retire", "retired"} => Done(journal, call.x)
    /\ At("retired") => slot[journal.moves[call.x]].file = Absent
    /\ At("finish") => \A x \in Entries(journal) : Finished(journal, x)
    /\ call.tx # 0 /\ call.at \in {"unlinked", "replayed"} => Settled(call.tx)
    /\ At("replay") /\ call.tx = 0 => call.gen = Generation

\* Commits that failed and were not yet reconciled.
FailedOK ==
    \A w \in Writers : failed[w] # None =>
        /\ failed[w].state = "preparing" /\ failed[w].tx \in 1..txs
        /\ told[failed[w].tx] = "nothing"
        /\ waiting[w] # "commit"
        /\ \A v \in Writers : failed[v] # None /\ failed[v].tx = failed[w].tx => v = w
        /\ failed[w].prior # failed[w].next \/ (lock = w /\ call.op = "commit" /\ call.tx # 0)

HolderOK ==
    lock # Nobody =>
        /\ call.op = "commit" /\ call.tx = 0 => failed[lock] = None
        /\ call.op = "reconcile" => failed[lock] # None
        /\ waiting[lock] = "none"
        /\ call.at # "idle"

WaitersOK == \A w \in Writers : waiting[w] = "reconcile" => failed[w] # None

\* Whoever was told something was told about a transaction that was staged.
ToldStaged == \A t \in Tx : told[t] # "nothing" => t \in 1..txs

Bounded ==
    /\ slot[Authority].file # Absent => slot[Authority].file.body <= MaxGeneration
    /\ dslot[Authority].file # Absent => dslot[Authority].file.body <= MaxGeneration

Shape == TypeOK /\ Place /\ FailedOK /\ HolderOK /\ WaitersOK /\ ToldStaged /\ Bounded

\* What the callers were told, if s is the transaction whose generation.json is read.
ToldAt(t, s) ==
    /\ told[t] = "ok" => t \in plan[s].line
    /\ told[t] = "not committed" => t \notin plan[s].line
    /\ told[t] = "committed" =>
        \/ t \in plan[s].line
        \/ /\ plan[t].files[Receipt] # [tx |-> t, body |-> t]
           /\ \E u \in plan[s].line : plan[u].bump = 1 /\ plan[u].gen = plan[t].gen

KeptSelected == SelectedOf(Kept(Authority).file)

ToldOK ==
    \A t \in Tx :
        /\ ToldAt(t, Selected) /\ ToldAt(t, KeptSelected)
        /\ told[t] = "not committed" =>
            /\ Durable(journal) => journal.tx # t
            /\ Durable(KeptIntent) => KeptIntent.tx # t

ShownOK ==
    \A t \in shown :
        \/ t \in plan[Selected].line /\ t \in plan[KeptSelected].line
        \/ Durable(journal) /\ KeptIntent = journal /\ t = journal.tx

Core == Lines /\ IntentsFaithful /\ RootOK /\ ToldOK /\ ShownOK

Good == Core /\ FailedFaithful /\ MissedIntent /\ Progress /\ ~refused

IInv == Shape /\ (lost = {} => Good)

-----------------------------------------------------------------------------
(* Intents.                                                                *)

LEMMA IntentFacts ==
    ASSUME NEW i, IsIntent(i)
    PROVE  /\ i # None
           /\ i.tx \in Tx /\ i.state \in {"preparing", "durable"}
           /\ i.prior \in Nat /\ i.next \in Nat
           /\ Entries(i) \subseteq Dests /\ Authority \in Entries(i)
           /\ \A d \in DOMAIN i.moves : d \in Data /\ d \in Entries(i) /\ i.moves[d] \in Data /\ i.moves[d] \notin Entries(i)
           /\ \A d, e \in DOMAIN i.moves : i.moves[d] = i.moves[e] => d = e
           /\ i.body[Authority] = i.next /\ i.next <= MaxGeneration
           /\ \A x \in Entries(i) : i.body[x] \in Nat /\ i.old[x] \in Files
<1>1. PICK E, M : E = DOMAIN i.body /\ M = DOMAIN i.moves
      OBVIOUS
<1>2. /\ i \in Intents(E, M) /\ E \subseteq Dests /\ M \subseteq Data
      BY <1>1 DEF IsIntent
<1>3. i # None
  <2>1. \A D \in SUBSET Dests, N \in SUBSET Data : None \notin Intents(D, N)
        BY RewriteAssumption
  <2>2. E \in SUBSET Dests /\ M \in SUBSET Data
        BY <1>2
  <2> QED BY <1>2, <2>1, <2>2
<1>4. /\ i.tx \in Tx /\ i.state \in {"preparing", "durable"}
      /\ i.prior \in Nat /\ i.next \in Nat
      /\ i.body \in [E -> Nat] /\ i.old \in [E -> Files] /\ i.moves \in [M -> Data]
      BY <1>2, SMT DEF Intents
<1>5. /\ \A x \in E : i.body[x] \in Nat /\ i.old[x] \in Files
      /\ \A d \in M : i.moves[d] \in Data
      BY <1>4
<1> QED BY <1>1, <1>3, <1>4, <1>5 DEF IsIntent, Entries

LEMMA DurableFacts ==
    ASSUME NEW i, IsIntent(i)
    PROVE  /\ IsIntent(AsDurable(i)) /\ Durable(AsDurable(i))
           /\ AsDurable(i).tx = i.tx /\ AsDurable(i).prior = i.prior /\ AsDurable(i).next = i.next
           /\ AsDurable(i).body = i.body /\ AsDurable(i).old = i.old
           /\ AsDurable(i).moves = i.moves /\ AsDurable(i).source = i.source
<1>1. PICK E, M : E = DOMAIN i.body /\ M = DOMAIN i.moves
      OBVIOUS
<1>2. /\ i \in Intents(E, M) /\ E \subseteq Dests /\ M \subseteq Data
      BY <1>1 DEF IsIntent
<1>3. /\ AsDurable(i) \in Intents(E, M) /\ AsDurable(i).state = "durable"
      /\ AsDurable(i).tx = i.tx /\ AsDurable(i).prior = i.prior /\ AsDurable(i).next = i.next
      /\ AsDurable(i).body = i.body /\ AsDurable(i).old = i.old
      /\ AsDurable(i).moves = i.moves /\ AsDurable(i).source = i.source
      BY <1>2, SMT DEF Intents, AsDurable
<1>4. IsIntent(AsDurable(i))
      BY <1>1, <1>3 DEF IsIntent
<1> QED BY <1>3, <1>4, IntentFacts DEF Durable

LEMMA DurableSame ==
    ASSUME NEW i, IsIntent(i)
    PROVE  /\ From(AsDurable(i)) = From(i) /\ Entries(AsDurable(i)) = Entries(i)
           /\ Faithful(AsDurable(i)) <=> Faithful(i)
           /\ Untouched(AsDurable(i)) <=> Untouched(i)
<1> DEFINE j == AsDurable(i)
<1>1. /\ j.tx = i.tx /\ j.prior = i.prior /\ j.next = i.next
      /\ j.body = i.body /\ j.old = i.old /\ j.moves = i.moves /\ j.source = i.source
      BY DurableFacts
<1> HIDE DEF j
<1>2. From(j) = From(i) /\ Entries(j) = Entries(i) /\ \A x : Installed(j, x) = Installed(i, x)
      BY <1>1 DEF From, Entries, Installed
<1>3. Faithful(j) <=> Faithful(i)
      BY <1>1, <1>2, SMT DEF Faithful
<1>4. Untouched(j) <=> Untouched(i)
      BY <1>1, <1>2 DEF Untouched
<1> QED BY <1>2, <1>3, <1>4 DEF j

LEMMA FaithfulFacts ==
    ASSUME NEW i, Faithful(i), TypeOK
    PROVE  /\ i.tx \in 0..txs /\ i.tx \in Tx /\ i.tx # 0
           /\ From(i) \in 0..txs /\ From(i) \in Tx /\ From(i) # i.tx
<1>1. i.tx \in 1..txs /\ From(i) \in 0..(i.tx - 1) /\ txs \in 0..MaxTx /\ MaxTx \in Nat
      BY RewriteAssumption DEF Faithful, TypeOK, Tx
<1> DEFINE a == From(i)  b == i.tx
<1> HIDE DEF a, b
<1>2. b \in 1..txs /\ a \in 0..(b - 1)
      BY <1>1 DEF a, b
<1>3. b \in 0..txs /\ b \in 0..MaxTx /\ b # 0 /\ a \in 0..txs /\ a \in 0..MaxTx /\ a # b
      BY <1>1, <1>2, SMT
<1> QED BY <1>3 DEF a, b, Tx

-----------------------------------------------------------------------------
(* Steps that move no file forward: each destination shows afterwards what it  *)
(* showed or what the disk had of it, up to the temporary of transaction t.    *)

Like(a, b, t) == a.file = b.file /\ \A u : u # t => (u \in a.temp <=> u \in b.temp)

Mix(t) ==
    \A x \in Dests :
        /\ Like(slot'[x], slot[x], t) \/ Like(slot'[x], Kept(x), t)
        /\ Like(Kept(x)', slot[x], t) \/ Like(Kept(x)', Kept(x), t)

\* The plans made so far stand.
PlansStand == txs' \in Nat /\ txs <= txs' /\ \A u \in 0..txs : plan'[u] = plan[u]

LEMMA ContentStays ==
    ASSUME NEW u \in 0..txs, PlansStand
    PROVE  \A x : Content(u, x)' = Content(u, x)
BY DEF PlansStand, Content, AuthorityOf

LEMMA MixDone ==
    ASSUME NEW t, Mix(t), NEW i, i.tx # t, NEW x \in Dests, Done(i, x)
    PROVE  Done(i, x)'
BY DEF Mix, Like, Done

LEMMA MixFile ==
    ASSUME NEW t, Mix(t), NEW x \in Dests, NEW f, slot[x].file = f, Kept(x).file = f
    PROVE  slot'[x].file = f /\ Kept(x)'.file = f
BY DEF Mix, Like

LEMMA MixFinished ==
    ASSUME NEW t, Mix(t), NEW i, IsIntent(i), i.tx # t, NEW x \in Dests, Finished(i, x)
    PROVE  Finished(i, x)'
<1>1. Done(i, x)'
      BY MixDone DEF Finished
<1>2. ASSUME x \in DOMAIN i.moves PROVE Retired(i, x)'
  <2>1. i.moves[x] \in Dests
        BY <1>2, IntentFacts DEF Dests
  <2> QED BY <1>2, <2>1, MixFile DEF Finished, Retired
<1> QED BY <1>1, <1>2 DEF Finished

LEMMA MixSettled ==
    ASSUME NEW t, Mix(t), PlansStand, NEW u \in 0..txs, Settled(u)
    PROVE  Settled(u)'
BY MixFile, ContentStays DEF Settled

LEMMA MixUntouched ==
    ASSUME NEW t, Mix(t), PlansStand, TypeOK, NEW i, IsIntent(i), Faithful(i), i.tx # t, Untouched(i)
    PROVE  Untouched(i)'
<1>1. From(i) \in 0..txs
      BY FaithfulFacts
<1>2. Settled(From(i))'
      BY <1>1, MixSettled DEF Untouched
<1>3. ASSUME NEW x \in Entries(i) PROVE i.tx \in slot'[x].temp /\ i.tx \in Kept(x)'.temp
  <2>1. x \in Dests
        BY IntentFacts
  <2> QED BY <2>1 DEF Mix, Like, Untouched
<1> QED BY <1>2, <1>3 DEF Untouched, From

LEMMA MixInProgress ==
    ASSUME NEW t, Mix(t), PlansStand, TypeOK, NEW i, IsIntent(i), Faithful(i), i.tx # t, InProgress(i)
    PROVE  InProgress(i)'
<1>1. From(i) \in 0..txs /\ i.tx \in 0..txs
      BY FaithfulFacts
<1>2. \A x : Content(From(i), x)' = Content(From(i), x) /\ Content(i.tx, x)' = Content(i.tx, x)
      BY <1>1, ContentStays
<1>3. ASSUME NEW x \in Entries(i) PROVE EntryOK(i, x, slot[x])' /\ EntryOK(i, x, Kept(x))'
  <2>1. x \in Dests /\ EntryOK(i, x, slot[x]) /\ EntryOK(i, x, Kept(x))
        BY IntentFacts DEF InProgress
  <2>2. EntryOK(i, x, slot[x])'
        BY <1>2, <2>1 DEF EntryOK, Mix, Like
  <2>3. EntryOK(i, x, Kept(x))'
        BY <1>2, <2>1 DEF EntryOK, Mix, Like
  <2> QED BY <2>2, <2>3
<1>4. ASSUME NEW x \in Dests \ Entries(i)
      PROVE  /\ slot'[x].file \in {Content(From(i), x)', Content(i.tx, x)'}
             /\ Kept(x)'.file \in {Content(From(i), x)', Content(i.tx, x)'}
      BY <1>2 DEF InProgress, Mix, Like
<1>5. ASSUME NEW d \in DOMAIN i.moves, slot'[i.moves[d]].file = Absent \/ Kept(i.moves[d])'.file = Absent
      PROVE  Done(i, d)'
  <2>1. d \in Dests /\ i.moves[d] \in Dests
        BY IntentFacts DEF Dests
  <2>2. slot[i.moves[d]].file = Absent \/ Kept(i.moves[d]).file = Absent
        BY <1>5, <2>1 DEF Mix, Like
  <2> QED BY <2>1, <2>2, MixDone DEF InProgress
<1>6. ASSUME i.tx \notin slot'[Authority].temp \/ i.tx \notin Kept(Authority)'.temp PROVE Completed(i)'
  <2>1. i.tx \notin slot[Authority].temp \/ i.tx \notin Kept(Authority).temp
        BY <1>6 DEF Mix, Like, Dests
  <2>2. Completed(i)
        BY <2>1 DEF InProgress
  <2> QED BY <2>2, MixFinished, IntentFacts DEF Completed
<1> QED BY <1>3, <1>4, <1>5, <1>6 DEF InProgress

-----------------------------------------------------------------------------
(* What the states of the root say of the files.                           *)

LEMMA PlanFacts ==
    ASSUME TypeOK, NEW u \in Tx
    PROVE  /\ plan[u].files \in [Data -> Files] /\ plan[u].line \subseteq Tx
           /\ plan[u].gen \in Nat /\ plan[u].bump \in {0, 1}
<1>1. plan[u] \in Plans
      BY DEF TypeOK
<1> QED BY <1>1, SMT DEF Plans

LEMMA AuthorityOfSelected ==
    ASSUME TypeOK, NEW u \in Tx
    PROVE  SelectedOf(AuthorityOf(u)) = u
<1>1. CASE u = 0
      BY <1>1 DEF SelectedOf, AuthorityOf
<1>2. CASE u # 0
  <2>1. plan[u].gen \in Nat
        BY PlanFacts
  <2>2. [tx |-> u, body |-> plan[u].gen] \in [tx : Tx, body : Nat]
        BY <2>1
  <2>3. [tx |-> u, body |-> plan[u].gen] # Absent
        BY <2>2, RewriteAssumption
  <2>4. [tx |-> u, body |-> plan[u].gen].tx = u
        BY SMT
  <2> QED BY <1>2, <2>3, <2>4 DEF SelectedOf, AuthorityOf
<1> QED BY <1>1, <1>2

LEMMA SettledSelected ==
    ASSUME TypeOK, NEW u \in Tx, Settled(u)
    PROVE  Selected = u /\ KeptSelected = u
<1>1. slot[Authority].file = AuthorityOf(u) /\ Kept(Authority).file = AuthorityOf(u)
      BY DEF Settled, Content, Dests
<1> QED BY <1>1, AuthorityOfSelected DEF Selected, KeptSelected, SelectedOf

LEMMA EntrySelected ==
    ASSUME TypeOK, NEW i, Faithful(i), NEW c, EntryOK(i, Authority, c)
    PROVE  SelectedOf(c.file) = IF i.tx \in c.temp THEN From(i) ELSE i.tx
BY FaithfulFacts, AuthorityOfSelected DEF EntryOK, Content

LEMMA ProgressSelected ==
    ASSUME TypeOK, NEW i, IsIntent(i), Faithful(i), InProgress(i)
    PROVE  /\ Selected = IF i.tx \in slot[Authority].temp THEN From(i) ELSE i.tx
           /\ KeptSelected = IF i.tx \in Kept(Authority).temp THEN From(i) ELSE i.tx
<1>1. EntryOK(i, Authority, slot[Authority]) /\ EntryOK(i, Authority, Kept(Authority))
      BY IntentFacts DEF InProgress
<1>2. Selected = SelectedOf(slot[Authority].file)
      BY DEF Selected, SelectedOf
<1> QED BY <1>1, <1>2, EntrySelected DEF KeptSelected

LEMMA UntouchedInProgress ==
    ASSUME TypeOK, NEW i, IsIntent(i), Faithful(i), Untouched(i)
    PROVE  InProgress(i)
<1>1. \A x \in Dests : slot[x].file = Content(From(i), x) /\ Kept(x).file = Content(From(i), x)
      BY DEF Untouched, Settled
<1>2. \A x \in Entries(i) : i.tx \in slot[x].temp /\ i.tx \in Kept(x).temp
      BY DEF Untouched
<1>3. ASSUME NEW x \in Entries(i) PROVE EntryOK(i, x, slot[x]) /\ EntryOK(i, x, Kept(x))
      BY <1>1, <1>2, IntentFacts DEF EntryOK
<1>4. ASSUME NEW d \in DOMAIN i.moves
      PROVE  slot[i.moves[d]].file # Absent /\ Kept(i.moves[d]).file # Absent
  <2>1. i.moves[d] \in Dests
        BY IntentFacts DEF Dests
  <2>2. i.source[d] # Absent /\ i.source[d] = Content(From(i), i.moves[d])
        BY DEF Faithful
  <2> QED BY <1>1, <2>1, <2>2
<1>5. i.tx \in slot[Authority].temp /\ i.tx \in Kept(Authority).temp
      BY <1>2, IntentFacts
<1>6. \A x \in Dests \ Entries(i) : /\ slot[x].file \in {Content(From(i), x), Content(i.tx, x)}
                                     /\ Kept(x).file \in {Content(From(i), x), Content(i.tx, x)}
      BY <1>1
<1> QED BY <1>3, <1>4, <1>5, <1>6 DEF InProgress

LEMMA FinishedSettled ==
    ASSUME TypeOK, NEW i, IsIntent(i), Faithful(i), InProgress(i), \A x \in Entries(i) : Finished(i, x)
    PROVE  Settled(i.tx)
<1> SUFFICES ASSUME NEW x \in Dests
             PROVE  slot[x].file = Content(i.tx, x) /\ Kept(x).file = Content(i.tx, x)
    BY DEF Settled
<1>1. CASE x \in Entries(i)
      BY <1>1 DEF InProgress, EntryOK, Finished, Done
<1>2. CASE x \notin Entries(i)
  <2>1. CASE \A d \in DOMAIN i.moves : i.moves[d] # x
        BY <1>2, <2>1 DEF InProgress, Faithful
  <2>2. ASSUME NEW d \in DOMAIN i.moves, i.moves[d] = x
        PROVE  slot[x].file = Content(i.tx, x) /\ Kept(x).file = Content(i.tx, x)
    <3>1. d \in Entries(i)
          BY IntentFacts
    <3>2. Retired(i, d)
          BY <3>1 DEF Finished
    <3>3. Content(i.tx, x) = Absent
          BY <2>2 DEF Faithful
    <3> QED BY <2>2, <3>2, <3>3 DEF Retired
  <2> QED BY <2>1, <2>2
<1> QED BY <1>1, <1>2

LEMMA SettledInProgress ==
    ASSUME TypeOK, NEW i, IsIntent(i), Faithful(i), Settled(i.tx), \A x \in Entries(i) : Done(i, x)
    PROVE  InProgress(i) /\ \A x \in Entries(i) : Finished(i, x)
<1>1. \A x \in Dests : slot[x].file = Content(i.tx, x) /\ Kept(x).file = Content(i.tx, x)
      BY DEF Settled
<1>2. ASSUME NEW x \in Entries(i) PROVE EntryOK(i, x, slot[x]) /\ EntryOK(i, x, Kept(x))
      BY <1>1, IntentFacts DEF EntryOK, Done
<1>3. ASSUME NEW d \in DOMAIN i.moves PROVE Retired(i, d)
  <2>1. i.moves[d] \in Dests
        BY IntentFacts DEF Dests
  <2> QED BY <1>1, <2>1 DEF Faithful, Retired
<1>4. \A x \in Entries(i) : Finished(i, x)
      BY <1>3 DEF Finished
<1>5. Completed(i)
      BY <1>4 DEF Completed
<1>6. \A d \in DOMAIN i.moves : Done(i, d)
      BY IntentFacts
<1> QED BY <1>1, <1>2, <1>4, <1>5, <1>6, IntentFacts DEF InProgress

LEMMA IntentTypes ==
    ASSUME TypeOK
    PROVE  /\ journal # None => IsIntent(journal)
           /\ djournal # None => IsIntent(djournal)
           /\ KeptIntent # None => IsIntent(KeptIntent)
           /\ \A w \in Writers : failed[w] # None => IsIntent(failed[w])
BY DEF TypeOK, KeptIntent

LEMMA SelectedClosed ==
    TypeOK => \A u \in Tx : Settled(u) => Selected = u /\ KeptSelected = u
BY SettledSelected

LEMMA SelectedNext ==
    (TypeOK => \A u \in Tx : Settled(u) => Selected = u /\ KeptSelected = u)'
BY SelectedClosed, PTL

LEMMA NextSettled ==
    ASSUME TypeOK', NEW u \in Tx, Settled(u)'
    PROVE  Selected' = u /\ KeptSelected' = u
BY SelectedNext

JournalsMix ==
    \/ journal' = journal /\ KeptIntent' = KeptIntent
    \/ journal' = journal /\ KeptIntent' = journal
    \/ journal' = KeptIntent /\ KeptIntent' = KeptIntent

\* The hypotheses that the lemmas about such steps share.
Mixes(t) ==
    /\ TypeOK /\ TypeOK' /\ Mix(t) /\ PlansStand /\ JournalsMix
    /\ \A i \in {journal, KeptIntent} : Durable(i) => i.tx # t

LEMMA TxsNat ==
    ASSUME TypeOK
    PROVE  txs \in Nat
<1>1. txs \in 0..MaxTx /\ MaxTx \in Nat
      BY RewriteAssumption DEF TypeOK, Tx
<1> QED BY <1>1, SMT

LEMMA RangeFacts ==
    ASSUME TypeOK
    PROVE  0..txs \subseteq Tx
<1>1. txs \in 0..MaxTx /\ MaxTx \in Nat
      BY RewriteAssumption DEF TypeOK, Tx
<1>2. 0..txs \subseteq 0..MaxTx
      BY <1>1, SMT
<1> QED BY <1>2 DEF Tx

LEMMA RestingHead ==
    ASSUME TypeOK, IntentsFaithful, Unlinking
    PROVE  /\ KeptIntent.tx \in 0..txs /\ IsIntent(KeptIntent) /\ Faithful(KeptIntent)
           /\ Selected = KeptIntent.tx /\ KeptSelected = KeptIntent.tx
<1>1. IsIntent(KeptIntent) /\ Faithful(KeptIntent)
      BY IntentTypes DEF Unlinking, Durable, IntentsFaithful
<1> QED BY <1>1, FaithfulFacts, SettledSelected DEF Unlinking

LEMMA MixReplaying ==
    ASSUME NEW t, Mixes(t), IntentsFaithful, Replaying
    PROVE  Replaying' /\ journal' = journal /\ KeptIntent' = journal
<1>1. journal' = journal /\ KeptIntent' = journal
      BY DEF Mixes, JournalsMix, Replaying
<1>2. IsIntent(journal) /\ Faithful(journal) /\ journal.tx # t /\ InProgress(journal) /\ Durable(journal)
      BY IntentTypes DEF Mixes, Replaying, IntentsFaithful, Durable
<1>3. InProgress(journal)'
      BY <1>1, <1>2, MixInProgress DEF Mixes
<1>4. Durable(journal)'
      BY <1>1, <1>2
<1> QED BY <1>1, <1>3, <1>4 DEF Replaying

LEMMA MixResting ==
    ASSUME NEW t, Mixes(t), NEW u \in 0..txs, Settled(u),
           ~Durable(journal'), ~Durable(KeptIntent'),
           journal' # None => From(journal') = u,
           KeptIntent' # None => From(KeptIntent') = u
    PROVE  Resting'
<1>1. Settled(u)' /\ u \in Tx
      BY MixSettled, RangeFacts DEF Mixes
<1>2. Selected' = u
      BY <1>1, NextSettled DEF Mixes
<1>3. Settled(Selected)'
      BY <1>1, <1>2
<1>4. u \in 0..txs'
  <2>1. txs \in Nat /\ txs' \in Nat /\ txs <= txs'
        BY TxsNat DEF Mixes, PlansStand
  <2> QED BY <2>1, SMT
<1> QED BY <1>2, <1>3, <1>4 DEF Resting, Durable, From

LEMMA MixSwitching ==
    ASSUME NEW t, Mixes(t), IntentsFaithful, Switching
    PROVE  RootOK'
<1>1. IsIntent(journal) /\ Faithful(journal) /\ journal.tx # t /\ Untouched(journal) /\ Durable(journal)
      BY IntentTypes DEF Mixes, Switching, IntentsFaithful, Durable
<1>2. IsIntent(KeptIntent) /\ Faithful(KeptIntent) /\ ~Durable(KeptIntent) /\ journal = AsDurable(KeptIntent)
      BY IntentTypes DEF Mixes, Switching, IntentsFaithful, Durable
<1>3. CASE journal' = journal /\ KeptIntent' = KeptIntent
  <2>1. Untouched(journal)'
        BY <1>1, <1>3, MixUntouched DEF Mixes
  <2>2. Durable(journal)' /\ ~Durable(KeptIntent)' /\ KeptIntent' # None /\ journal' = AsDurable(KeptIntent)'
        BY <1>1, <1>2, <1>3, IntentFacts
  <2> QED BY <2>1, <2>2 DEF Switching, RootOK
<1>4. CASE journal' = journal /\ KeptIntent' = journal
  <2>1. InProgress(journal)
        BY <1>1, UntouchedInProgress DEF Mixes
  <2>2. InProgress(journal)'
        BY <1>1, <1>4, <2>1, MixInProgress DEF Mixes
  <2>3. Durable(journal)'
        BY <1>1, <1>4
  <2> QED BY <1>4, <2>2, <2>3 DEF Replaying, RootOK
<1>5. CASE journal' = KeptIntent /\ KeptIntent' = KeptIntent
  <2>1. From(journal) = From(KeptIntent) /\ From(KeptIntent) \in 0..txs
        BY <1>2, DurableSame, FaithfulFacts DEF Mixes
  <2>2. Settled(From(KeptIntent))
        BY <1>1, <2>1 DEF Untouched
  <2>3. Resting'
        BY <1>2, <1>5, <2>1, <2>2, MixResting
  <2> QED BY <2>3 DEF RootOK
<1> QED BY <1>3, <1>4, <1>5 DEF Mixes, JournalsMix

LEMMA MixUnlinking ==
    ASSUME NEW t, Mixes(t), IntentsFaithful, Unlinking
    PROVE  RootOK'
<1>1. /\ IsIntent(KeptIntent) /\ Faithful(KeptIntent) /\ Durable(KeptIntent) /\ ~Durable(journal)
      /\ KeptIntent.tx \in 0..txs /\ KeptIntent.tx # t
      /\ Settled(KeptIntent.tx) /\ \A x \in Entries(KeptIntent) : Done(KeptIntent, x)
      BY RestingHead DEF Mixes, Unlinking
<1>2. CASE journal' = journal /\ KeptIntent' = KeptIntent
  <2>1. Settled(KeptIntent.tx)'
        BY <1>1, <1>2, MixSettled DEF Mixes
  <2>2. ASSUME NEW x \in Entries(KeptIntent) PROVE Done(KeptIntent, x)'
    <3>1. x \in Dests
          BY <1>1, IntentFacts
    <3> QED BY <1>1, <1>2, <3>1, MixDone DEF Mixes
  <2>3. \A x \in Entries(KeptIntent)' : Done(KeptIntent, x)'
        BY <1>2, <2>2 DEF Entries
  <2>4. ~Durable(journal)' /\ Durable(KeptIntent)'
        BY <1>1, <1>2
  <2>5. journal' # None => journal'.tx # KeptIntent'.tx /\ From(journal)' = KeptIntent'.tx
        BY <1>2 DEF Unlinking
  <2> QED BY <2>1, <2>3, <2>4, <2>5 DEF Unlinking, RootOK
<1>3. CASE journal' = journal /\ KeptIntent' = journal
  <2>1. journal # None => From(journal) = KeptIntent.tx
        BY DEF Unlinking
  <2>2. Resting'
        BY <1>1, <1>3, <2>1, MixResting
  <2> QED BY <2>2 DEF RootOK
<1>4. CASE journal' = KeptIntent /\ KeptIntent' = KeptIntent
  <2>1. InProgress(KeptIntent)
        BY <1>1, SettledInProgress DEF Mixes
  <2>2. InProgress(KeptIntent)'
        BY <1>1, <1>4, <2>1, MixInProgress DEF Mixes
  <2>3. Durable(journal)' /\ InProgress(journal)'
        BY <1>1, <1>4, <2>2
  <2> QED BY <1>4, <2>3 DEF Replaying, RootOK
<1> QED BY <1>2, <1>3, <1>4 DEF Mixes, JournalsMix

LEMMA MixRoot ==
    ASSUME NEW t, Mixes(t), IntentsFaithful, RootOK
    PROVE  RootOK'
<1>1. CASE Replaying
      BY <1>1, MixReplaying DEF RootOK
<1>2. CASE Resting
  <2>1. ~Durable(journal') /\ ~Durable(KeptIntent')
        BY <1>2 DEF Resting, Mixes, JournalsMix
  <2>2. /\ journal' # None => From(journal') = Selected
        /\ KeptIntent' # None => From(KeptIntent') = Selected
        BY <1>2 DEF Resting, Mixes, JournalsMix
  <2>3. Resting'
        BY <1>2, <2>1, <2>2, MixResting DEF Resting
  <2> QED BY <2>3 DEF RootOK
<1> QED BY <1>1, <1>2, MixSwitching, MixUnlinking DEF RootOK

LEMMA Heads ==
    ASSUME TypeOK, IntentsFaithful, RootOK
    PROVE  Selected \in 0..txs /\ KeptSelected \in 0..txs
<1>1. CASE Replaying
  <2>1. IsIntent(journal) /\ Faithful(journal) /\ InProgress(journal)
        BY <1>1, IntentTypes DEF Replaying, IntentsFaithful, Durable
  <2> QED BY <2>1, FaithfulFacts, ProgressSelected
<1>2. CASE Switching
  <2>1. IsIntent(journal) /\ Faithful(journal) /\ Settled(From(journal))
        BY <1>2, IntentTypes DEF Switching, IntentsFaithful, Durable, Untouched
  <2> QED BY <2>1, FaithfulFacts, SettledSelected
<1>3. CASE Unlinking
      BY <1>3, RestingHead
<1>4. CASE Resting
      BY <1>4, SettledSelected, RangeFacts DEF Resting
<1> QED BY <1>1, <1>2, <1>3, <1>4 DEF RootOK

LEMMA MixHeads ==
    ASSUME NEW t, Mix(t)
    PROVE  Selected' \in {Selected, KeptSelected} /\ KeptSelected' \in {Selected, KeptSelected}
<1>1. /\ slot'[Authority].file \in {slot[Authority].file, Kept(Authority).file}
      /\ Kept(Authority)'.file \in {slot[Authority].file, Kept(Authority).file}
      BY DEF Mix, Like, Dests
<1>2. Selected = SelectedOf(slot[Authority].file) /\ Selected' = SelectedOf(slot'[Authority].file)
      BY DEF Selected, SelectedOf
<1>3. KeptSelected' = SelectedOf(Kept(Authority)'.file)
      BY DEF KeptSelected, SelectedOf
<1> QED BY <1>1, <1>2, <1>3 DEF KeptSelected

LEMMA FaithfulStays ==
    ASSUME TypeOK, TypeOK', PlansStand, NEW i, Faithful(i)
    PROVE  Faithful(i)'
<1>1. i.tx \in 0..txs /\ From(i) \in 0..txs
      BY FaithfulFacts
<1>2. plan'[i.tx] = plan[i.tx] /\ plan'[From(i)] = plan[From(i)]
      BY <1>1 DEF PlansStand
<1>3. \A x : Content(i.tx, x)' = Content(i.tx, x) /\ Content(From(i), x)' = Content(From(i), x)
      BY <1>1, ContentStays
<1>4. i.tx \in 1..txs'
  <2>1. txs \in Nat /\ txs' \in Nat /\ txs <= txs'
        BY TxsNat DEF PlansStand
  <2>2. i.tx \in 1..txs
        BY DEF Faithful
  <2> QED BY <2>1, <2>2, SMT
<1> DEFINE f == From(i)
<1>5. /\ i.prior = plan'[f].gen /\ i.next = plan'[i.tx].gen
      /\ i.next = i.prior + plan'[i.tx].bump
      /\ plan'[i.tx].line = plan'[f].line \cup {i.tx}
      BY <1>2 DEF Faithful
<1>6. \A x \in Entries(i) : i.old[x] = Content(f, x)' /\ Installed(i, x) = Content(i.tx, x)'
      BY <1>3 DEF Faithful
<1>7. \A d \in DOMAIN i.moves :
        /\ i.source[d] # Absent /\ i.source[d] = Content(f, i.moves[d])'
        /\ Content(i.tx, i.moves[d])' = Absent
      BY <1>3 DEF Faithful
<1>8. \A x \in Dests \ Entries(i) :
        (\A d \in DOMAIN i.moves : i.moves[d] # x) => Content(i.tx, x)' = Content(f, x)'
      BY <1>3 DEF Faithful
<1>9. f \in 0..(i.tx - 1)
      BY DEF Faithful
<1> QED BY <1>4, <1>5, <1>6, <1>7, <1>8, <1>9 DEF Faithful

LEMMA MixIntents ==
    ASSUME NEW t, Mixes(t), IntentsFaithful
    PROVE  IntentsFaithful'
<1>1. /\ journal' # None => Faithful(journal')
      /\ KeptIntent' # None => Faithful(KeptIntent')
      BY DEF IntentsFaithful, Mixes, JournalsMix
<1>2. /\ journal' # None => Faithful(journal)'
      /\ KeptIntent' # None => Faithful(KeptIntent)'
      BY <1>1, FaithfulStays DEF Mixes
<1> QED BY <1>2 DEF IntentsFaithful

LEMMA ToldAtStays ==
    ASSUME TypeOK, PlansStand, Lines, ToldStaged, told' = told,
           NEW t \in Tx, NEW s \in 0..txs, ToldAt(t, s)
    PROVE  ToldAt(t, s)'
<1>1. plan'[s] = plan[s]
      BY DEF PlansStand
<1>2. ASSUME told[t] = "committed" PROVE plan'[t] = plan[t]
  <2>1. t \in 1..txs /\ txs \in Nat
        BY <1>2, TxsNat DEF ToldStaged
  <2>2. t \in 0..txs
        BY <2>1, SMT
  <2> QED BY <2>2 DEF PlansStand
<1>3. ASSUME NEW u \in plan[s].line PROVE plan'[u] = plan[u]
  <2>1. u \in 0..s /\ s \in 0..txs /\ txs \in Nat
        BY TxsNat DEF Lines, LineOf
  <2>2. u \in 0..txs
        BY <2>1, SMT
  <2> QED BY <2>2 DEF PlansStand
<1>4. told'[t] = "ok" => t \in plan'[s].line
      BY <1>1 DEF ToldAt
<1>5. told'[t] = "not committed" => t \notin plan'[s].line
      BY <1>1 DEF ToldAt
<1>6. ASSUME told'[t] = "committed", t \notin plan'[s].line
      PROVE  /\ plan'[t].files[Receipt] # [tx |-> t, body |-> t]
             /\ \E u \in plan'[s].line : plan'[u].bump = 1 /\ plan'[u].gen = plan'[t].gen
      BY <1>1, <1>2, <1>3, <1>6 DEF ToldAt
<1> QED BY <1>4, <1>5, <1>6 DEF ToldAt

LEMMA MixTold ==
    ASSUME NEW t, Mixes(t), Lines, IntentsFaithful, RootOK, ToldStaged, ToldOK, told' = told
    PROVE  ToldOK'
<1>1. /\ Selected' \in {Selected, KeptSelected} /\ KeptSelected' \in {Selected, KeptSelected}
      /\ Selected \in 0..txs /\ KeptSelected \in 0..txs
      BY MixHeads, Heads DEF Mixes
<1> SUFFICES ASSUME NEW u \in Tx
             PROVE  /\ ToldAt(u, Selected)' /\ ToldAt(u, KeptSelected)'
                    /\ told'[u] = "not committed" =>
                        /\ Durable(journal)' => journal'.tx # u
                        /\ Durable(KeptIntent)' => KeptIntent'.tx # u
    BY DEF ToldOK
<1>2. \A s \in {Selected, KeptSelected} : ToldAt(u, s)'
      BY <1>1, ToldAtStays DEF ToldOK, Mixes
<1>3. ToldAt(u, Selected)' /\ ToldAt(u, KeptSelected)'
      BY <1>1, <1>2
<1>4. ASSUME told'[u] = "not committed"
      PROVE  /\ Durable(journal)' => journal'.tx # u
             /\ Durable(KeptIntent)' => KeptIntent'.tx # u
      BY <1>4 DEF ToldOK, Mixes, JournalsMix
<1> QED BY <1>3, <1>4

LEMMA MixShown ==
    ASSUME NEW t, Mixes(t), IntentsFaithful, RootOK, ShownOK, shown' = shown
    PROVE  ShownOK'
<1>1. /\ Selected' \in {Selected, KeptSelected} /\ KeptSelected' \in {Selected, KeptSelected}
      /\ Selected \in 0..txs /\ KeptSelected \in 0..txs
      BY MixHeads, Heads DEF Mixes
<1>2. plan'[Selected'] = plan[Selected'] /\ plan'[KeptSelected'] = plan[KeptSelected']
      BY <1>1 DEF Mixes, PlansStand
<1> SUFFICES ASSUME NEW u \in shown
             PROVE  \/ u \in plan'[Selected'].line /\ u \in plan'[KeptSelected'].line
                    \/ Durable(journal)' /\ KeptIntent' = journal' /\ u = journal'.tx
    BY DEF ShownOK
<1>3. CASE u \in plan[Selected].line /\ u \in plan[KeptSelected].line
      BY <1>1, <1>2, <1>3
<1>4. CASE Durable(journal) /\ KeptIntent = journal /\ u = journal.tx
      BY <1>4 DEF Mixes, JournalsMix
<1> QED BY <1>3, <1>4 DEF ShownOK

LEMMA LinesStay ==
    ASSUME TypeOK, Lines, PlansStand, NEW u \in 0..txs
    PROVE  LineOf(u)'
<1>1. plan'[u] = plan[u] /\ LineOf(u)
      BY DEF PlansStand, Lines
<1>2. ASSUME NEW v \in plan[u].line PROVE plan'[v] = plan[v]
  <2>1. v \in 0..u /\ u \in 0..txs /\ txs \in Nat
        BY <1>1, TxsNat DEF LineOf
  <2>2. v \in 0..txs
        BY <2>1, SMT
  <2> QED BY <2>2 DEF PlansStand
<1> QED BY <1>1, <1>2, SMT DEF LineOf

LEMMA SameLines ==
    ASSUME TypeOK, Lines, PlansStand, txs' = txs
    PROVE  Lines'
<1>1. \A u \in 0..txs : LineOf(u)'
      BY LinesStay
<1>2. 0 \in 0..txs
      BY TxsNat, SMT
<1>3. plan'[0].gen = 0 /\ plan'[0].bump = 0
      BY <1>2 DEF Lines, PlansStand
<1> QED BY <1>1, <1>3 DEF Lines

LEMMA MixCore ==
    ASSUME NEW t, Mixes(t), Core, ToldStaged, txs' = txs, told' = told, shown' = shown
    PROVE  Core'
<1>1. Lines'
      BY SameLines DEF Core, Mixes
<1> QED BY <1>1, MixIntents, MixRoot, MixTold, MixShown DEF Core

-----------------------------------------------------------------------------
(* The call record.                                                        *)

LEMMA CallFields ==
    ASSUME NEW c \in Calls
    PROVE  /\ c.op \in Operations \cup {"none"} /\ c.at \in Places /\ c.tx \in Tx
           /\ c.gen \in Nat /\ c.left \subseteq Dests /\ c.x \in Dests
BY SMT DEF Calls

LEMMA PlaceNames ==
    /\ Flushes \subseteq Places
    /\ {"idle", "replay", "replayed", "clean", "install", "retire", "finish", "publish", "keep"} \subseteq Places
    /\ {"cleaned", "installed", "retired", "unlinked", "prepared", "switched"} \subseteq Places
BY DEF Places, Flushes

LEMMA CallGoes ==
    ASSUME call \in Calls, NEW p \in Places, Goto(p)
    PROVE  /\ call' \in Calls /\ call'.at = p /\ call'.op = call.op /\ call'.tx = call.tx
           /\ call'.gen = call.gen /\ call'.left = call.left /\ call'.x = call.x
BY SMT DEF Calls, Goto

\* The updates of several fields.
EntryCall(c, l, x, p) == [c EXCEPT !.left = l, !.x = x, !.at = p]
BeginCall(c, p, l)    == [c EXCEPT !.at = p, !.left = l]
StageCall(c, t, g)    == [c EXCEPT !.at = "publish", !.tx = t, !.gen = g, !.x = Authority]

LEMMA CallEnters ==
    ASSUME call \in Calls, NEW x \in Dests, NEW p \in Places, call' = EntryCall(call, call.left \ {x}, x, p)
    PROVE  /\ call' \in Calls /\ call'.at = p /\ call'.op = call.op /\ call'.tx = call.tx
           /\ call'.gen = call.gen /\ call'.left = call.left \ {x} /\ call'.x = x
<1>1. PICK l, c : l = call.left \ {x} /\ c = call
      OBVIOUS
<1>2. l \in SUBSET Dests /\ c \in Calls
      BY <1>1, CallFields
<1> DEFINE e == [c EXCEPT !.left = l]
           f == [e EXCEPT !.x = x]
<1>3. call' = [f EXCEPT !.at = p]
      BY <1>1 DEF EntryCall
<1>4. e \in Calls /\ e.op = c.op /\ e.tx = c.tx /\ e.gen = c.gen /\ e.left = l
      BY <1>2, SMT DEF Calls
<1> HIDE DEF e
<1>5. f \in Calls /\ f.op = c.op /\ f.tx = c.tx /\ f.gen = c.gen /\ f.left = l /\ f.x = x
      BY <1>4, SMT DEF Calls
<1> HIDE DEF f
<1> DEFINE h == [f EXCEPT !.at = p]
<1>6. h \in Calls /\ h.at = p /\ h.op = c.op /\ h.tx = c.tx /\ h.gen = c.gen /\ h.left = l /\ h.x = x
      BY <1>5, SMT DEF Calls
<1>7. call' = h
      BY <1>3
<1> HIDE DEF h
<1> QED BY <1>1, <1>6, <1>7

LEMMA CallBegins ==
    ASSUME NEW c \in Calls, NEW l \in SUBSET Dests, NEW p \in Places
    PROVE  LET d == BeginCall(c, p, l) IN
           d \in Calls /\ d.at = p /\ d.op = c.op /\ d.tx = c.tx /\ d.gen = c.gen /\ d.left = l /\ d.x = c.x
<1> DEFINE e == [c EXCEPT !.at = p]
<1>1. BeginCall(c, p, l) = [e EXCEPT !.left = l]
      BY DEF BeginCall
<1>2. e \in Calls /\ e.at = p /\ e.op = c.op /\ e.tx = c.tx /\ e.gen = c.gen /\ e.x = c.x
      BY SMT DEF Calls
<1> HIDE DEF e
<1> QED BY <1>1, <1>2, SMT DEF Calls

LEMMA CallStages ==
    ASSUME call \in Calls, NEW t \in Tx, NEW g \in Nat, call' = StageCall(call, t, g)
    PROVE  call' \in Calls /\ call'.at = "publish" /\ call'.op = call.op /\ call'.tx = t /\ call'.gen = g
<1>1. PICK c : c = call
      OBVIOUS
<1> DEFINE e == [c EXCEPT !.at = "publish"]
           f == [e EXCEPT !.tx = t]
           h == [f EXCEPT !.gen = g]
<1>2. call' = [h EXCEPT !.x = Authority] /\ c \in Calls
      BY <1>1 DEF StageCall
<1>3. e \in Calls /\ e.at = "publish" /\ e.op = c.op
      BY <1>2, PlaceNames, SMT DEF Calls
<1> HIDE DEF e
<1>4. f \in Calls /\ f.at = "publish" /\ f.op = c.op /\ f.tx = t
      BY <1>3, SMT DEF Calls
<1> HIDE DEF f
<1>5. h \in Calls /\ h.at = "publish" /\ h.op = c.op /\ h.tx = t /\ h.gen = g
      BY <1>4, SMT DEF Calls
<1> HIDE DEF h
<1>6. Authority \in Dests
      BY DEF Dests
<1> DEFINE k == [h EXCEPT !.x = Authority]
<1>7. k \in Calls /\ k.at = "publish" /\ k.op = c.op /\ k.tx = t /\ k.gen = g
      BY <1>5, <1>6, SMT DEF Calls
<1>8. call' = k
      BY <1>2
<1> HIDE DEF k
<1> QED BY <1>1, <1>7, <1>8

LEMMA CallIdle ==
    /\ Idle \in Calls /\ Idle.at = "idle" /\ Idle.op = "none" /\ Idle.tx = 0 /\ Idle.left = {}
<1>1. 0 \in Tx
      BY RewriteAssumption, SMT DEF Tx
<1> QED BY <1>1, SMT DEF Calls, Idle, Places, Flushes, Dests

LEMMA CallEntered ==
    ASSUME NEW op \in Operations, Generation \in Nat
    PROVE  /\ Entered(op) \in Calls /\ Entered(op).at = "replay" /\ Entered(op).op = op
           /\ Entered(op).tx = 0 /\ Entered(op).gen = Generation /\ Entered(op) # Idle
<1> DEFINE e == [Idle EXCEPT !.op = op]
           f == [e EXCEPT !.at = "replay"]
           g == Generation
<1>1. Entered(op) = [f EXCEPT !.gen = g] /\ g \in Nat
      BY DEF Entered
<1> HIDE DEF g
<1>2. e \in Calls /\ e.op = op /\ e.tx = 0
      BY CallIdle, SMT DEF Calls
<1> HIDE DEF e
<1>3. f \in Calls /\ f.op = op /\ f.tx = 0 /\ f.at = "replay"
      BY <1>2, PlaceNames, SMT DEF Calls
<1> HIDE DEF f
<1>4. /\ Entered(op) \in Calls /\ Entered(op).at = "replay" /\ Entered(op).op = op
      /\ Entered(op).tx = 0 /\ Entered(op).gen = g
      BY <1>1, <1>3, SMT DEF Calls
<1> QED BY <1>4, CallIdle DEF g

-----------------------------------------------------------------------------
(* The type invariant in parts.                                            *)

TypeDisk ==
    /\ slot \in [Dests -> Slots] /\ dslot \in [Dests -> Slots]
    /\ journal = None \/ IsIntent(journal)
    /\ djournal = None \/ IsIntent(djournal)

TypeWriters ==
    /\ waiting \in [Writers -> Operations \cup {"none"}]
    /\ lock \in Writers \cup {Nobody}
    /\ call \in Calls
    /\ failed = [w \in Writers |-> failed[w]] /\ \A w \in Writers : failed[w] = None \/ IsIntent(failed[w])
    /\ seen \in [Writers -> [Sources -> Files] \cup {None}]
    /\ lock = Nobody <=> call = Idle

TypeNotes ==
    /\ plan \in [Tx -> Plans] /\ txs \in Tx /\ told \in [Tx -> Answers] /\ shown \subseteq Tx

TypeFaults ==
    /\ missed \subseteq Dests \cup {Journal} /\ lost \subseteq {"intent", "install"}
    /\ refused \in BOOLEAN /\ faults \in 0..MaxFaults

LEMMA TypeParts == TypeOK => TypeDisk /\ TypeWriters /\ TypeNotes /\ TypeFaults
BY DEF TypeOK, TypeDisk, TypeWriters, TypeNotes, TypeFaults

LEMMA SlotFacts ==
    ASSUME TypeDisk, NEW x \in Dests
    PROVE  /\ slot[x] \in Slots /\ dslot[x] \in Slots
           /\ slot[x].file \in Files /\ slot[x].temp \subseteq Tx
           /\ dslot[x].file \in Files /\ dslot[x].temp \subseteq Tx
<1>1. slot[x] \in Slots /\ dslot[x] \in Slots
      BY DEF TypeDisk
<1> QED BY <1>1, SMT DEF Slots

LEMMA FileFacts ==
    ASSUME NEW f \in Files, f # Absent
    PROVE  f.tx \in Tx /\ f.body \in Nat
BY SMT DEF Files

LEMMA GenerationFacts ==
    ASSUME TypeDisk
    PROVE  Generation \in Nat /\ Selected \in Tx
<1>1. slot[Authority].file \in Files
      BY SlotFacts DEF Dests
<1>2. 0 \in Tx /\ 0 \in Nat
      BY RewriteAssumption, SMT DEF Tx
<1> QED BY <1>1, <1>2, FileFacts DEF Generation, Selected

LEMMA GenerationBound ==
    ASSUME Bounded
    PROVE  Generation <= MaxGeneration
<1>1. 0 <= MaxGeneration
      BY RewriteAssumption, SMT
<1> QED BY <1>1 DEF Generation, Bounded

LEMMA PartsClosed ==
    TypeDisk /\ TypeWriters /\ TypeNotes /\ TypeFaults /\ Bounded => TypeOK
BY GenerationBound DEF TypeOK, TypeDisk, TypeWriters, TypeNotes, TypeFaults

LEMMA PartsNext ==
    (TypeDisk /\ TypeWriters /\ TypeNotes /\ TypeFaults /\ Bounded => TypeOK)'
BY PartsClosed, PTL

LEMMA NextTypes ==
    ASSUME TypeDisk', TypeWriters', TypeNotes', TypeFaults', Bounded'
    PROVE  TypeOK'
BY PartsNext

WritersOK == TypeWriters /\ FailedOK /\ HolderOK /\ WaitersOK

LEMMA NextShape ==
    ASSUME TypeDisk', WritersOK', TypeNotes', TypeFaults', Bounded', Place', ToldStaged'
    PROVE  Shape'
BY NextTypes DEF Shape, WritersOK

LEMMA ShapeParts ==
    ASSUME Shape
    PROVE  /\ TypeOK /\ TypeDisk /\ TypeWriters /\ TypeNotes /\ TypeFaults /\ WritersOK
           /\ Place /\ ToldStaged /\ Bounded
           /\ FailedOK /\ HolderOK /\ WaitersOK
BY TypeParts DEF Shape, WritersOK

-----------------------------------------------------------------------------
(* The writers, their lock and their failed commits.                       *)

\* A call is under way when it is somewhere.
LEMMA Held ==
    ASSUME TypeWriters, call.at # "idle"
    PROVE  lock # Nobody /\ lock \in Writers
BY CallIdle DEF TypeWriters

LEMMA StayWriters ==
    ASSUME WritersOK, call.at # "idle", call' \in Calls, call'.at # "idle",
           call'.op = call.op, call'.tx = call.tx,
           UNCHANGED <<lock, waiting, failed, seen, txs, told>>
    PROVE  WritersOK'
<1>1. lock # Nobody /\ call' # Idle
      BY Held, CallIdle DEF WritersOK
<1>2. TypeWriters'
      BY <1>1 DEF WritersOK, TypeWriters
<1>3. FailedOK'
      BY DEF WritersOK, FailedOK
<1>4. HolderOK'
      BY <1>1 DEF WritersOK, HolderOK
<1>5. WaitersOK'
      BY DEF WritersOK, WaitersOK
<1> QED BY <1>2, <1>3, <1>4, <1>5 DEF WritersOK

LEMMA IdlePlace ==
    ASSUME call' = Idle
    PROVE  Place'
<1>1. call'.at = "idle" /\ call'.tx = 0
      BY CallIdle
<1> QED BY <1>1 DEF Place, At, Installing

LEMMA ReplayPlace ==
    ASSUME call'.at = "replay", call'.tx = 0
    PROVE  Place'
BY DEF Place, At, Installing

LEMMA SamePlace ==
    ASSUME Place, UNCHANGED <<call, journal, failed, lock>>, KeptIntent' \in {journal, KeptIntent}
    PROVE  Place'
BY DEF Place, At, Installing

LEMMA LeaveWriters ==
    ASSUME WritersOK, Return, txs' = txs,
           failed' = [w \in Writers |-> failed'[w]],
           \A w \in Writers : failed'[w] = None \/ (failed'[w] = failed[w] /\ failed[w].prior # failed[w].next),
           waiting' \in [Writers -> Operations \cup {"none"}],
           \A w \in Writers : waiting'[w] = "none" \/ (waiting'[w] = waiting[w] /\ (w # lock => failed'[w] = failed[w])),
           \A w \in Writers : failed'[w] # None => told'[failed[w].tx] = "nothing",
           seen' \in [Writers -> [Sources -> Files] \cup {None}]
    PROVE  WritersOK' /\ Place'
<1>1. lock' = Nobody /\ call' = Idle /\ call' \in Calls
      BY CallIdle DEF Return
<1>2. TypeWriters'
      BY <1>1 DEF WritersOK, TypeWriters
<1>3. FailedOK'
  <2> SUFFICES ASSUME NEW w \in Writers, failed'[w] # None
               PROVE  /\ failed'[w].state = "preparing" /\ failed'[w].tx \in 1..txs'
                      /\ told'[failed'[w].tx] = "nothing"
                      /\ waiting'[w] # "commit"
                      /\ \A v \in Writers : failed'[v] # None /\ failed'[v].tx = failed'[w].tx => v = w
                      /\ failed'[w].prior # failed'[w].next
      BY DEF FailedOK
  <2>1. failed'[w] = failed[w] /\ failed[w] # None /\ failed[w].prior # failed[w].next
        OBVIOUS
  <2>2. waiting'[w] # "commit"
        BY <2>1 DEF WritersOK, FailedOK
  <2>3. ASSUME NEW v \in Writers, failed'[v] # None, failed'[v].tx = failed'[w].tx PROVE v = w
    <3>1. failed'[v] = failed[v]
          BY <2>3
    <3>2. failed[v] # None /\ failed[v].tx = failed[w].tx
          BY <2>1, <2>3, <3>1
    <3> QED BY <2>1, <3>2 DEF WritersOK, FailedOK
  <2> QED BY <2>1, <2>2, <2>3 DEF WritersOK, FailedOK
<1>4. HolderOK'
      BY <1>1 DEF HolderOK
<1>5. WaitersOK'
  <2> SUFFICES ASSUME NEW w \in Writers, waiting'[w] = "reconcile" PROVE failed'[w] # None
      BY DEF WaitersOK
  <2>1. waiting[w] = "reconcile" /\ (w # lock => failed'[w] = failed[w])
        OBVIOUS
  <2>2. w # lock
        BY <2>1, RewriteAssumption, SMT DEF WritersOK, HolderOK
  <2> QED BY <2>1, <2>2 DEF WritersOK, WaitersOK
<1> QED BY <1>1, <1>2, <1>3, <1>4, <1>5, IdlePlace DEF WritersOK

\* The lock is taken, or waited for.
LEMMA EnterWriters ==
    ASSUME WritersOK, Generation \in Nat, NEW w \in Writers, NEW op \in Operations,
           lock = Nobody, lock' = w, call' = Entered(op),
           waiting' \in [Writers -> Operations \cup {"none"}], waiting'[w] = "none",
           \A v \in Writers : v # w => waiting'[v] = waiting[v],
           op = "commit" => failed[w] = None, op = "reconcile" => failed[w] # None,
           UNCHANGED <<failed, seen, txs, told>>
    PROVE  WritersOK' /\ Place'
<1>1. /\ call' \in Calls /\ call'.at = "replay" /\ call'.op = op /\ call'.tx = 0 /\ call' # Idle
      BY CallEntered
<1>2. TypeWriters'
      BY <1>1, RewriteAssumption DEF WritersOK, TypeWriters
<1>3. FailedOK'
  <2>1. ASSUME NEW v \in Writers, failed[v] # None PROVE failed[v].prior # failed[v].next /\ waiting'[v] # "commit"
        BY <2>1, RewriteAssumption DEF WritersOK, FailedOK
  <2> QED BY <2>1 DEF WritersOK, FailedOK
<1>4. HolderOK'
      BY <1>1 DEF HolderOK
<1>5. WaitersOK'
      BY DEF WritersOK, WaitersOK
<1> QED BY <1>1, <1>2, <1>3, <1>4, <1>5, ReplayPlace DEF WritersOK

LEMMA QueueWriters ==
    ASSUME WritersOK, NEW w \in Writers, NEW op \in Operations, lock # w,
           waiting' = [waiting EXCEPT ![w] = op],
           op = "commit" => failed[w] = None, op = "reconcile" => failed[w] # None,
           UNCHANGED <<lock, call, failed, seen, txs, told>>
    PROVE  WritersOK'
<1>1. /\ waiting' \in [Writers -> Operations \cup {"none"}] /\ waiting'[w] = op
      /\ \A v \in Writers : v # w => waiting'[v] = waiting[v]
      BY DEF WritersOK, TypeWriters
<1>2. TypeWriters'
      BY <1>1 DEF WritersOK, TypeWriters
<1>3. FailedOK'
  <2>1. ASSUME NEW v \in Writers, failed[v] # None PROVE waiting'[v] # "commit"
        BY <1>1, <2>1 DEF WritersOK, FailedOK
  <2> QED BY <2>1 DEF WritersOK, FailedOK
<1>4. HolderOK'
  <2>1. lock # Nobody => lock \in Writers /\ waiting'[lock] = waiting[lock]
        BY <1>1 DEF WritersOK, TypeWriters
  <2> QED BY <2>1 DEF WritersOK, HolderOK
<1>5. WaitersOK'
      BY <1>1 DEF WritersOK, WaitersOK
<1> QED BY <1>2, <1>3, <1>4, <1>5 DEF WritersOK

-----------------------------------------------------------------------------
(* What the steps do to the files and the intent, as the disk keeps them.  *)

LEMMA KeptFacts ==
    ASSUME TypeDisk, NEW x \in Dests
    PROVE  Kept(x) \in Slots /\ Kept(x).file \in Files /\ Kept(x).temp \subseteq Tx
BY SlotFacts DEF Kept

LEMMA FlushEffect ==
    ASSUME TypeDisk, TypeFaults, NEW ds, Flush(ds), UNCHANGED <<slot, journal>>
    PROVE  /\ \A x \in Dests : /\ Kept(x)' \in {slot[x], Kept(x)}
                               /\ Parent[x] \in ds => Kept(x)' = slot[x]
           /\ KeptIntent' \in {journal, KeptIntent}
           /\ Root \in ds => KeptIntent' = journal
           /\ missed' \subseteq missed
           /\ \A t : Mix(t)
           /\ JournalsMix
           /\ MissedIntent => MissedIntent'
           /\ TypeDisk'
           /\ Bounded => Bounded'
<1>1. /\ dslot' = [x \in Dests |-> IF Parent[x] \in ds THEN slot'[x] ELSE dslot[x]]
      /\ djournal' = IF Root \in ds THEN journal ELSE djournal
      /\ missed' = {x \in missed : (IF x = Journal THEN Root ELSE Parent[x]) \notin ds}
      BY DEF Flush
<1>2. \A x \in Dests : x # Journal
      BY RewriteAssumption
<1>3. ASSUME NEW x \in Dests
      PROVE  Kept(x)' \in {slot[x], Kept(x)} /\ (Parent[x] \in ds => Kept(x)' = slot[x])
  <2>1. dslot'[x] = IF Parent[x] \in ds THEN slot[x] ELSE dslot[x]
        BY <1>1
  <2>2. x \in missed' <=> x \in missed /\ Parent[x] \notin ds
        BY <1>1, <1>2
  <2> QED BY <2>1, <2>2 DEF Kept
<1>4. Journal \in missed' <=> Journal \in missed /\ Root \notin ds
      BY <1>1
<1>5. KeptIntent' \in {journal, KeptIntent} /\ (Root \in ds => KeptIntent' = journal)
      BY <1>1, <1>4 DEF KeptIntent
<1>6. \A t : Mix(t)
      BY <1>3 DEF Mix, Like
<1>7. JournalsMix
      BY <1>5 DEF JournalsMix
<1>8. MissedIntent => MissedIntent'
      BY <1>1, <1>4 DEF MissedIntent
<1>9. TypeDisk'
  <2>1. \A x \in Dests : dslot'[x] \in Slots
        BY <1>1, SlotFacts
  <2>2. dslot' \in [Dests -> Slots]
        BY <1>1, <2>1
  <2> QED BY <1>1, <2>2 DEF TypeDisk
<1>10. Bounded => Bounded'
  <2>1. dslot'[Authority] \in {slot[Authority], dslot[Authority]}
        BY <1>1 DEF Dests
  <2> QED BY <2>1 DEF Bounded
<1>11. missed' \subseteq missed
      BY <1>1
<1> QED BY <1>3, <1>5, <1>6, <1>7, <1>8, <1>9, <1>10, <1>11

LEMMA QuietEffect ==
    ASSUME UNCHANGED <<disk, missed>>
    PROVE  /\ \A x : Kept(x)' = Kept(x)
           /\ KeptIntent' = KeptIntent
           /\ \A t : Mix(t)
           /\ JournalsMix
           /\ MissedIntent => MissedIntent'
           /\ TypeDisk => TypeDisk'
           /\ Bounded => Bounded'
<1>1. slot' = slot /\ dslot' = dslot /\ journal' = journal /\ djournal' = djournal /\ missed' = missed
      BY DEF disk
<1>2. (\A x : Kept(x)' = Kept(x)) /\ KeptIntent' = KeptIntent
      BY <1>1 DEF Kept, KeptIntent
<1>3. \A t : Mix(t)
      BY <1>1, <1>2 DEF Mix, Like
<1> QED BY <1>1, <1>2, <1>3 DEF JournalsMix, MissedIntent, TypeDisk, Bounded

LEMMA KeptStays ==
    ASSUME dslot' = dslot, missed' = missed, NEW x
    PROVE  /\ Kept(x)' \in {slot'[x], Kept(x)}
           /\ slot'[x] = slot[x] => Kept(x)' = Kept(x)
BY DEF Kept

-----------------------------------------------------------------------------
(* What the invariant says of the state of a call.                         *)

LEMMA ZeroTx ==
    ASSUME TypeOK, IntentsFaithful
    PROVE  \A i \in {journal, KeptIntent} : Durable(i) => i.tx # 0
<1>1. Durable(journal) => journal.tx # 0
      BY FaithfulFacts DEF IntentsFaithful, Durable
<1>2. Durable(KeptIntent) => KeptIntent.tx # 0
      BY FaithfulFacts DEF IntentsFaithful, Durable
<1> QED BY <1>1, <1>2

LEMMA SamePlans ==
    ASSUME TypeOK, UNCHANGED <<plan, txs>>
    PROVE  PlansStand
<1>1. txs \in Nat
      BY TxsNat
<1> QED BY <1>1, SMT DEF PlansStand

LEMMA MixGood ==
    ASSUME Shape, Shape', Good, Mix(0), JournalsMix, UNCHANGED <<plan, txs, told, shown>>
    PROVE  Core'
<1>1. Mixes(0)
      BY SamePlans, ZeroTx, ShapeParts DEF Mixes, Good, Core, Shape
<1> QED BY <1>1, MixCore, ShapeParts DEF Good

LEMMA FailedStay ==
    ASSUME Shape, Shape', FailedFaithful, UNCHANGED <<plan, txs>>,
           \A w \in Writers : failed'[w] \in {None, failed[w]}
    PROVE  FailedFaithful'
<1> SUFFICES ASSUME NEW w \in Writers, failed'[w] # None PROVE Faithful(failed[w])'
    BY DEF FailedFaithful
<1>1. failed'[w] = failed[w] /\ Faithful(failed[w])
      BY DEF FailedFaithful
<1> QED BY <1>1, SamePlans, FaithfulStays DEF Shape

LEMMA IdleProgress ==
    ASSUME call' = Idle
    PROVE  Progress'
<1>1. call'.at = "idle" /\ call'.tx = 0
      BY CallIdle
<1> QED BY <1>1 DEF Progress, At, Installing

LEMMA ReplayProgress ==
    ASSUME call'.at = "replay", call'.tx = 0 => call'.gen = Generation'
    PROVE  Progress'
BY DEF Progress, At, Installing

\* A durable intent that is on disk is being replayed.
LEMMA ReplayingNow ==
    ASSUME Shape, Good, Durable(journal), KeptIntent = journal
    PROVE  Replaying /\ IsIntent(journal) /\ Faithful(journal) /\ InProgress(journal)
<1>1. Replaying
      BY DEF Good, Core, RootOK, Switching, Unlinking, Resting
<1> QED BY <1>1, IntentTypes DEF Shape, Good, Core, IntentsFaithful, Durable, Replaying

LEMMA DurableInProgress ==
    ASSUME Shape, Good, Durable(journal)
    PROVE  IsIntent(journal) /\ Faithful(journal) /\ InProgress(journal)
<1>1. IsIntent(journal) /\ Faithful(journal) /\ TypeOK
      BY IntentTypes DEF Shape, Good, Core, IntentsFaithful, Durable
<1>2. Replaying \/ Switching
      BY DEF Good, Core, RootOK, Unlinking, Resting
<1> QED BY <1>1, <1>2, UntouchedInProgress DEF Replaying, Switching

\* The progress of a call stands when others flush.
LEMMA SameProgress ==
    ASSUME Shape, Progress, lost = {}, Good, Mix(0), UNCHANGED <<call, journal, failed, lock, slot, plan, txs>>,
           KeptIntent' \in {journal, KeptIntent}
    PROVE  Progress'
<1>1. PlansStand /\ TypeOK
      BY SamePlans DEF Shape
<1>2. ASSUME call.at \in {"publish", "prepared", "keep"} PROVE Untouched(failed[lock])'
  <2>1. failed[lock] # None /\ lock \in Writers
        BY <1>2, Held, ShapeParts DEF Place
  <2>2. IsIntent(failed[lock]) /\ Faithful(failed[lock])
        BY <1>1, <2>1, IntentTypes DEF Good, FailedFaithful
  <2>3. failed[lock].tx # 0
        BY <1>1, <2>2, FaithfulFacts
  <2>4. Untouched(failed[lock])
        BY <1>2 DEF Progress
  <2> QED BY <1>1, <2>2, <2>3, <2>4, MixUntouched
<1>3. ASSUME At("publish"), KeptIntent' # None PROVE KeptIntent'.tx # call.tx
  <2>1. journal = None
        BY <1>3, ShapeParts DEF Place, At
  <2>2. KeptIntent' = KeptIntent /\ KeptIntent # None
        BY <1>3, <2>1
  <2>3. call.at = "publish"
        BY <1>3 DEF At
  <2> QED BY <2>2, <2>3 DEF Progress, At
<1>4. ASSUME call.at \in Installing
      PROVE  IsIntent(journal) /\ journal.tx # 0 /\ Entries(journal) \subseteq Dests
  <2>1. Durable(journal) /\ KeptIntent = journal
        BY <1>4, ShapeParts DEF Place
  <2> QED BY <1>1, <2>1, ReplayingNow, FaithfulFacts, IntentFacts
<1>5. ASSUME call.at \in Installing, NEW x \in Entries(journal), Finished(journal, x) PROVE Finished(journal, x)'
      BY <1>4, <1>5, MixFinished
<1>6. ASSUME call.at \in {"retire", "retired"} PROVE Done(journal, call.x)'
  <2>1. call.at \in Installing
        BY <1>6 DEF Installing
  <2>2. call.x \in Dests /\ Done(journal, call.x)
        BY <1>1, <1>6, CallFields DEF TypeOK, Progress
  <2> QED BY <1>4, <2>1, <2>2, MixDone
<1>7. ASSUME call.tx # 0, call.at \in {"unlinked", "replayed"} PROVE Settled(call.tx)'
  <2>1. failed[lock] # None /\ lock \in Writers /\ failed[lock].tx = call.tx
        BY <1>7, Held, ShapeParts DEF Place
  <2>2. call.tx \in 0..txs
        BY <1>1, <2>1, FaithfulFacts DEF Good, FailedFaithful
  <2> QED BY <1>1, <1>7, <2>2, MixSettled DEF Progress
<1>8. Generation' = Generation
      BY DEF Generation
<1>9. Entries(journal)' = Entries(journal) /\ Behind' = Behind
      BY DEF Entries, Behind
<1>10. ASSUME call.at \in Installing \ {"finish"},
              NEW x \in Entries(journal) \ ({Authority} \cup Behind \cup call.left)
      PROVE  Finished(journal, x)'
      BY <1>5, <1>10 DEF Progress
<1>11. ASSUME At("finish"), NEW x \in Entries(journal) PROVE Finished(journal, x)'
  <2>1. call.at \in Installing
        BY <1>11 DEF At, Installing
  <2> QED BY <1>5, <1>11, <2>1 DEF Progress
<1> QED BY <1>2, <1>3, <1>6, <1>7, <1>8, <1>9, <1>10, <1>11 DEF Progress, At

LEMMA GenerationOf ==
    ASSUME TypeOK, Lines, NEW u \in Tx, slot[Authority].file = AuthorityOf(u)
    PROVE  Generation = plan[u].gen
<1>1. CASE u = 0
      BY <1>1 DEF Generation, AuthorityOf, Lines
<1>2. CASE u # 0
  <2>1. plan[u].gen \in Nat
        BY PlanFacts
  <2>2. [tx |-> u, body |-> plan[u].gen] \in [tx : Tx, body : Nat]
        BY <2>1
  <2>3. [tx |-> u, body |-> plan[u].gen] # Absent
        BY <2>2, RewriteAssumption
  <2>4. [tx |-> u, body |-> plan[u].gen].body = plan[u].gen
        BY SMT
  <2> QED BY <1>2, <2>3, <2>4 DEF Generation, AuthorityOf
<1> QED BY <1>1, <1>2

LEMMA SettledGeneration ==
    ASSUME TypeOK, Lines, NEW u \in Tx, Settled(u)
    PROVE  Generation = plan[u].gen
BY GenerationOf DEF Settled, Content, Dests

\* Every intent that a holder finds is about the generation it reads.
LEMMA GenerationFits ==
    ASSUME Shape, Good, journal # None
    PROVE  Generation \in {journal.prior, journal.next}
<1>1. /\ TypeOK /\ Lines /\ IsIntent(journal) /\ Faithful(journal)
      /\ From(journal) \in Tx /\ journal.tx \in Tx
      BY IntentTypes, FaithfulFacts DEF Shape, Good, Core, IntentsFaithful
<1>2. journal.prior = plan[From(journal)].gen /\ journal.next = plan[journal.tx].gen
      BY <1>1 DEF Faithful
<1>3. CASE Durable(journal)
  <2>1. EntryOK(journal, Authority, slot[Authority])
        BY <1>1, <1>3, DurableInProgress, IntentFacts DEF InProgress
  <2>2. slot[Authority].file \in {AuthorityOf(From(journal)), AuthorityOf(journal.tx)}
        BY <2>1 DEF EntryOK, Content
  <2> QED BY <1>1, <1>2, <2>2, GenerationOf
<1>4. CASE ~Durable(journal)
  <2>1. Settled(From(journal))
    <3>1. CASE Unlinking
          BY <3>1 DEF Unlinking
    <3>2. CASE Resting
          BY <3>2 DEF Resting
    <3> QED BY <1>4, <3>1, <3>2 DEF Good, Core, RootOK, Replaying, Switching
  <2> QED BY <1>1, <1>2, <2>1, SettledGeneration
<1> QED BY <1>3, <1>4

\* What the replay finds is authentic.
LEMMA AuthenticHolds ==
    ASSUME Shape, Good
    PROVE  Authentic
<1>1. ASSUME At("replay"), journal # None PROVE Acceptable(journal)
  <2>1. call.gen \in {journal.prior, journal.next}
    <3>1. CASE call.tx = 0
          BY <1>1, <3>1, GenerationFits DEF Good, Progress
    <3>2. CASE call.tx # 0
      <4>1. /\ journal = AsDurable(failed[lock]) /\ call.gen = failed[lock].prior
            /\ failed[lock] # None /\ lock \in Writers
            BY <1>1, <3>2, ShapeParts, Held DEF Place, At
      <4>2. journal.prior = failed[lock].prior
            BY <4>1, IntentTypes, DurableFacts DEF Shape
      <4> QED BY <4>1, <4>2
    <3> QED BY <3>1, <3>2
  <2>2. ASSUME journal.state = "durable" PROVE MoveChecks(journal)
    <3>1. IsIntent(journal) /\ Faithful(journal) /\ InProgress(journal)
          BY <1>1, <2>2, DurableInProgress DEF Durable
    <3> SUFFICES ASSUME NEW d \in DOMAIN journal.moves
                 PROVE  IF slot[journal.moves[d]].file = Absent THEN slot[d].file = Installed(journal, d)
                                                                ELSE slot[journal.moves[d]].file = journal.source[d]
        BY DEF MoveChecks
    <3>2. d \in Entries(journal) /\ journal.moves[d] \in Dests /\ journal.moves[d] \notin Entries(journal)
          BY <3>1, IntentFacts DEF Dests
    <3>3. ASSUME slot[journal.moves[d]].file = Absent PROVE slot[d].file = Installed(journal, d)
      <4>1. Done(journal, d)
            BY <3>1, <3>3 DEF InProgress
      <4>2. slot[d].file = Content(journal.tx, d)
            BY <3>1, <3>2, <4>1 DEF InProgress, EntryOK, Done
      <4> QED BY <3>1, <3>2, <4>2 DEF Faithful
    <3>4. ASSUME slot[journal.moves[d]].file # Absent PROVE slot[journal.moves[d]].file = journal.source[d]
      <4>1. slot[journal.moves[d]].file \in {Content(From(journal), journal.moves[d]), Content(journal.tx, journal.moves[d])}
            BY <3>1, <3>2 DEF InProgress
      <4>2. Content(journal.tx, journal.moves[d]) = Absent /\ journal.source[d] = Content(From(journal), journal.moves[d])
            BY <3>1 DEF Faithful
      <4> QED BY <3>4, <4>1, <4>2
    <3> QED BY <3>3, <3>4
  <2> QED BY <2>1, <2>2 DEF Acceptable
<1>2. ASSUME At("install"), NEW x \in NextEntries
      PROVE  slot[x].file = IF journal.tx \in slot[x].temp THEN journal.old[x] ELSE Installed(journal, x)
  <2>1. Durable(journal) /\ KeptIntent = journal /\ call.left \subseteq Entries(journal) \ {Authority}
        BY <1>2, ShapeParts DEF Place, At, Installing
  <2>2. IsIntent(journal) /\ Faithful(journal) /\ InProgress(journal)
        BY <2>1, ReplayingNow
  <2>3. x \in Entries(journal)
        BY <2>1, <2>2, IntentFacts DEF NextEntries
  <2>4. EntryOK(journal, x, slot[x])
        BY <2>2, <2>3 DEF InProgress
  <2>5. journal.old[x] = Content(From(journal), x) /\ Installed(journal, x) = Content(journal.tx, x)
        BY <2>2, <2>3 DEF Faithful
  <2> QED BY <2>4, <2>5 DEF EntryOK
<1> QED BY <1>1, <1>2 DEF Authentic

-----------------------------------------------------------------------------
(* One lemma for each action.                                              *)

\* Steps that change neither the files, nor the intent, nor the history.
Quiet == UNCHANGED <<disk, missed, plan, txs, told, shown, lost, refused>>

LEMMA QuietShape ==
    ASSUME Shape, UNCHANGED <<disk, missed, plan, txs, told, shown, lost>>, refused' \in BOOLEAN,
           WritersOK', Place', faults' \in 0..MaxFaults
    PROVE  Shape'
<1>1. TypeDisk' /\ Bounded'
      BY QuietEffect, ShapeParts
<1>2. TypeNotes' /\ TypeFaults' /\ ToldStaged'
      BY ShapeParts DEF TypeNotes, TypeFaults, ToldStaged
<1> QED BY <1>1, <1>2, NextShape

LEMMA QuietGood ==
    ASSUME IInv, Quiet, Shape', lost' = {} => Progress',
           \A w \in Writers : failed'[w] \in {None, failed[w]}
    PROVE  IInv'
<1> SUFFICES ASSUME lost' = {} PROVE Good'
    BY DEF IInv
<1>1. Shape /\ Good
      BY DEF IInv, Quiet
<1>2. Core'
      BY <1>1, QuietEffect, MixGood DEF Quiet
<1>3. FailedFaithful' /\ MissedIntent'
      BY <1>1, QuietEffect, FailedStay DEF Good, Quiet
<1>4. ~refused'
      BY <1>1 DEF Good, Quiet
<1> QED BY <1>2, <1>3, <1>4 DEF Good

LEMMA SourcesAreData == Sources \subseteq Data
<1>1. \A b \in Batches : \A d \in DOMAIN b.moves : b.moves[d] \in Data
      BY RewriteAssumption
<1> SUFFICES ASSUME NEW s \in Sources PROVE s \in Data
    OBVIOUS
<1>2. PICK b \in Batches : s \in {b.moves[d] : d \in DOMAIN b.moves}
      BY DEF Sources
<1> QED BY <1>1, <1>2

LEMMA StageMoveStep ==
    ASSUME IInv, NEW w \in Writers, StageMove(w)
    PROVE  IInv'
<1>1. Shape /\ Quiet /\ UNCHANGED <<waiting, lock, call, failed, faults>>
      BY DEF IInv, StageMove, Quiet, notes, disk
<1>2. seen' \in [Writers -> [Sources -> Files] \cup {None}]
  <2>1. \A s \in Sources : s \in Dests
        BY SourcesAreData DEF Dests
  <2>2. [s \in Sources |-> slot[s].file] \in [Sources -> Files]
        BY <1>1, <2>1, SlotFacts, ShapeParts
  <2>3. seen \in [Writers -> [Sources -> Files] \cup {None}] /\ seen' = [seen EXCEPT ![w] = [s \in Sources |-> slot[s].file]]
        BY <1>1, ShapeParts DEF TypeWriters, StageMove
  <2> QED BY <2>2, <2>3
<1>3. WritersOK'
  <2>1. TypeWriters'
        BY <1>1, <1>2, ShapeParts DEF TypeWriters
  <2> QED BY <1>1, <2>1, ShapeParts DEF WritersOK, FailedOK, HolderOK, WaitersOK, Quiet
<1>4. Place'
      BY <1>1, SamePlace, QuietEffect, ShapeParts DEF Quiet, disk
<1>5. Shape'
      BY <1>1, <1>3, <1>4, QuietShape, ShapeParts DEF TypeFaults, Quiet
<1>6. ASSUME lost' = {} PROVE Progress'
  <2>1. Good /\ Progress /\ lost = {}
        BY <1>1, <1>6 DEF IInv, Good, Quiet
  <2>2. Mix(0) /\ KeptIntent' = KeptIntent /\ UNCHANGED <<slot, journal, plan, txs>>
        BY <1>1, QuietEffect DEF Quiet, disk
  <2> QED BY <1>1, <2>1, <2>2, SameProgress
<1> QED BY <1>1, <1>5, <1>6, QuietGood

LEMMA TakeLockStep ==
    ASSUME IInv, NEW w \in Writers, TakeLock(w)
    PROVE  IInv'
<1>1. Shape /\ Quiet /\ UNCHANGED <<failed, seen, faults>>
      BY DEF IInv, TakeLock, Quiet, notes
<1>2. /\ waiting[w] # "none" /\ lock = Nobody /\ lock' = w /\ call' = Entered(waiting[w])
      /\ waiting' = [waiting EXCEPT ![w] = "none"]
      BY DEF TakeLock
<1>3. /\ waiting[w] \in Operations
      /\ waiting' \in [Writers -> Operations \cup {"none"}] /\ waiting'[w] = "none"
      /\ \A v \in Writers : v # w => waiting'[v] = waiting[v]
      BY <1>1, <1>2, ShapeParts DEF TypeWriters
<1>4. /\ waiting[w] = "commit" => failed[w] = None
      /\ waiting[w] = "reconcile" => failed[w] # None
      BY <1>1, ShapeParts DEF FailedOK, WaitersOK
<1>5. Generation \in Nat
      BY <1>1, GenerationFacts, ShapeParts
<1>6. WritersOK' /\ Place'
      BY <1>1, <1>2, <1>3, <1>4, <1>5, EnterWriters, ShapeParts DEF Quiet
<1>7. Shape'
      BY <1>1, <1>6, QuietShape, ShapeParts DEF TypeFaults, Quiet
<1>8. call'.at = "replay" /\ call'.gen = Generation /\ Generation' = Generation
      BY <1>1, <1>2, <1>3, <1>5, CallEntered DEF Generation, Quiet, disk
<1>9. Progress'
      BY <1>8, ReplayProgress
<1> QED BY <1>1, <1>7, <1>9, QuietGood

LEMMA ReplayNothingStep ==
    ASSUME IInv, ReplayNothing
    PROVE  IInv'
<1>1. /\ Shape /\ Quiet /\ UNCHANGED <<waiting, lock, failed, seen, faults>>
      /\ call.at = "replay" /\ journal = None /\ Goto("replayed")
      BY DEF IInv, ReplayNothing, Quiet, notes, At
<1>2. /\ call' \in Calls /\ call'.at = "replayed" /\ call'.op = call.op /\ call'.tx = call.tx
      /\ call'.gen = call.gen
      BY <1>1, CallGoes, PlaceNames, ShapeParts DEF TypeWriters
<1>3. WritersOK'
      BY <1>1, <1>2, StayWriters, ShapeParts DEF Quiet
<1>4. call.tx = 0
  <2>1. ASSUME call.tx # 0 PROVE FALSE
    <3>1. journal = AsDurable(failed[lock]) /\ failed[lock] # None /\ lock \in Writers
          BY <1>1, <2>1, ShapeParts, Held DEF Place
    <3> QED BY <1>1, <3>1, IntentTypes, DurableFacts, ShapeParts DEF Durable
  <2> QED BY <2>1
<1>5. Place'
      BY <1>1, <1>2, <1>4 DEF Place, At, Installing, Quiet, disk
<1>6. Shape'
      BY <1>1, <1>3, <1>5, QuietShape, ShapeParts DEF TypeFaults, Quiet
<1>7. Progress'
      BY <1>2, <1>4 DEF Progress, At, Installing
<1> QED BY <1>1, <1>6, <1>7, QuietGood

\* The failed commit that a returning call leaves.
LEMMA ToReconcileFacts ==
    ASSUME Shape, lock # Nobody, failed' = ToReconcile
    PROVE  /\ failed' = [w \in Writers |-> failed'[w]]
           /\ \A w \in Writers : failed'[w] = None \/ (failed'[w] = failed[w] /\ failed[w].prior # failed[w].next)
           /\ \A w \in Writers : w # lock => failed'[w] = failed[w]
           /\ \A w \in Writers : failed'[w] # None => told[failed[w].tx] = "nothing"
<1>1. \A w \in Writers : failed'[w] =
          IF w # lock \/ call.op = "recover" THEN failed[w]
          ELSE IF call.op = "commit" /\ failed[w] # None /\ failed[w].prior # failed[w].next THEN failed[w]
          ELSE None
      BY DEF ToReconcile
<1>2. failed' = [w \in Writers |-> failed'[w]]
      BY DEF ToReconcile
<1>3. ASSUME NEW w \in Writers
      PROVE  failed'[w] = None \/ (failed'[w] = failed[w] /\ failed[w].prior # failed[w].next)
  <2>1. CASE w # lock \/ call.op = "recover"
    <3>1. failed'[w] = failed[w]
          BY <1>1, <2>1
    <3>2. failed[w] # None => failed[w].prior # failed[w].next
          BY <2>1, ShapeParts DEF FailedOK
    <3> QED BY <3>1, <3>2
  <2>2. CASE ~(w # lock \/ call.op = "recover")
        BY <1>1, <2>2
  <2> QED BY <2>1, <2>2
<1>4. ASSUME NEW w \in Writers, failed'[w] # None PROVE told[failed[w].tx] = "nothing"
      BY <1>3, <1>4, ShapeParts DEF FailedOK
<1> QED BY <1>1, <1>2, <1>3, <1>4

LEMMA ReturnQuietly ==
    ASSUME IInv, Quiet, Return, waiting' = waiting,
           failed' = [w \in Writers |-> failed'[w]],
           \A w \in Writers : failed'[w] = None \/ (failed'[w] = failed[w] /\ failed[w].prior # failed[w].next),
           \A w \in Writers : w # lock => failed'[w] = failed[w],
           seen' \in [Writers -> [Sources -> Files] \cup {None}], faults' \in 0..MaxFaults
    PROVE  IInv'
<1>1. Shape /\ UNCHANGED <<txs, told>>
      BY DEF IInv, Quiet
<1>2. waiting' \in [Writers -> Operations \cup {"none"}]
      BY <1>1, ShapeParts DEF TypeWriters
<1>3. \A w \in Writers : failed'[w] # None => told'[failed[w].tx] = "nothing"
      BY <1>1, ShapeParts DEF FailedOK
<1>4. \A w \in Writers : waiting'[w] = "none" \/ (waiting'[w] = waiting[w] /\ (w # lock => failed'[w] = failed[w]))
      OBVIOUS
<1>5. WritersOK' /\ Place'
      BY <1>1, <1>2, <1>3, <1>4, LeaveWriters, ShapeParts
<1>6. Shape'
      BY <1>1, <1>5, QuietShape, ShapeParts DEF TypeFaults, Quiet
<1>7. Progress'
      BY IdleProgress DEF Return
<1> QED BY <1>6, <1>7, QuietGood

LEMMA FailedFunction ==
    ASSUME TypeWriters
    PROVE  failed = [w \in Writers |-> failed[w]]
BY DEF TypeWriters

\* A commit that was rejected has no intent, and a recovery leaves the failed
\* commit of its writer alone.
LEMMA StageRejectedStep ==
    ASSUME IInv, NEW w \in Writers, StageRejected(w)
    PROVE  IInv'
<1>1. /\ Shape /\ Quiet /\ Return /\ UNCHANGED <<waiting, failed, faults>> /\ lock = w
      /\ call.op = "commit" /\ call.tx = 0 /\ seen' = [seen EXCEPT ![w] = None]
      BY DEF IInv, StageRejected, Quiet, notes
<1>2. seen' \in [Writers -> [Sources -> Files] \cup {None}]
      BY <1>1, ShapeParts DEF TypeWriters
<1>3. \A v \in Writers : failed[v] = None \/ failed[v].prior # failed[v].next
      BY <1>1, ShapeParts DEF FailedOK
<1> QED BY <1>1, <1>2, <1>3, FailedFunction, ReturnQuietly, ShapeParts DEF TypeFaults

LEMMA RecoverReturnsStep ==
    ASSUME IInv, NEW w \in Writers, RecoverReturns(w)
    PROVE  IInv'
<1>1. /\ Shape /\ Quiet /\ Return /\ UNCHANGED <<waiting, failed, seen, faults>> /\ lock = w
      /\ call.op = "recover"
      BY DEF IInv, RecoverReturns, Quiet, notes
<1>2. seen' \in [Writers -> [Sources -> Files] \cup {None}]
      BY <1>1, ShapeParts DEF TypeWriters
<1>3. \A v \in Writers : failed[v] = None \/ failed[v].prior # failed[v].next
      BY <1>1, ShapeParts DEF FailedOK
<1> QED BY <1>1, <1>2, <1>3, FailedFunction, ReturnQuietly, ShapeParts DEF TypeFaults

LEMMA FaultCount ==
    ASSUME TypeFaults, faults < MaxFaults, faults' = faults + 1
    PROVE  faults' \in 0..MaxFaults
BY RewriteAssumption, SMT DEF TypeFaults

LEMMA KillStep ==
    ASSUME IInv, NEW w \in Writers, Kill(w)
    PROVE  IInv'
<1>1. /\ Shape /\ Quiet /\ Return /\ UNCHANGED waiting /\ lock = w
      /\ failed' = [failed EXCEPT ![w] = None] /\ seen' = [seen EXCEPT ![w] = None]
      BY DEF IInv, Kill, Quiet, notes
<1>2. seen' \in [Writers -> [Sources -> Files] \cup {None}] /\ faults' \in 0..MaxFaults
      BY <1>1, FaultCount, ShapeParts DEF TypeWriters, Kill
<1>3. failed = [v \in Writers |-> failed[v]]
      BY <1>1, FailedFunction, ShapeParts
<1>4. /\ failed' = [v \in Writers |-> failed'[v]]
      /\ failed'[w] = None /\ \A v \in Writers : v # w => failed'[v] = failed[v]
      BY <1>1, <1>3
<1>5. \A v \in Writers : v # w => failed[v] = None \/ failed[v].prior # failed[v].next
      BY <1>1, ShapeParts DEF FailedOK
<1> QED BY <1>1, <1>2, <1>4, <1>5, ReturnQuietly

LEMMA ReplayRefusedStep ==
    ASSUME IInv, ReplayRefused
    PROVE  IInv'
<1>1. /\ Shape /\ Return /\ failed' = ToReconcile /\ refused' = TRUE /\ ~Authentic
      /\ UNCHANGED <<disk, missed, plan, txs, told, shown, lost, waiting, seen, faults>>
      BY DEF IInv, ReplayRefused, notes
<1>2. call.at # "idle"
      BY <1>1 DEF Authentic, At
<1>3. /\ failed' = [w \in Writers |-> failed'[w]]
      /\ \A w \in Writers : failed'[w] = None \/ (failed'[w] = failed[w] /\ failed[w].prior # failed[w].next)
      /\ \A w \in Writers : w # lock => failed'[w] = failed[w]
      /\ \A w \in Writers : failed'[w] # None => told'[failed[w].tx] = "nothing"
      BY <1>1, <1>2, Held, ToReconcileFacts, ShapeParts
<1>4. /\ waiting' \in [Writers -> Operations \cup {"none"}]
      /\ seen' \in [Writers -> [Sources -> Files] \cup {None}]
      BY <1>1, ShapeParts DEF TypeWriters
<1>5. WritersOK' /\ Place'
      BY <1>1, <1>3, <1>4, LeaveWriters, ShapeParts
<1>6. Shape'
      BY <1>1, <1>5, QuietShape, ShapeParts DEF TypeFaults
<1>7. lost' # {}
      BY <1>1, AuthenticHolds DEF IInv
<1> QED BY <1>6, <1>7 DEF IInv

\* What is left to show of a step that flushes directories.
LEMMA FlushInvariant ==
    ASSUME IInv, Mix(0), JournalsMix, TypeDisk', Bounded', missed' \subseteq missed \cup {Journal},
           lost = {} /\ Good => MissedIntent', WritersOK', Place', lost = {} => Progress',
           UNCHANGED <<failed, plan, txs, told, shown, lost, refused, faults>>
    PROVE  IInv'
<1>1. Shape /\ TypeNotes' /\ TypeFaults' /\ ToldStaged'
      BY ShapeParts DEF IInv, TypeNotes, TypeFaults, ToldStaged
<1>2. Shape'
      BY <1>1, NextShape
<1> SUFFICES ASSUME lost' = {} PROVE Good'
    BY <1>2 DEF IInv
<1>3. Good
      BY DEF IInv
<1>4. Core'
      BY <1>1, <1>2, <1>3, MixGood
<1>5. FailedFaithful'
      BY <1>1, <1>2, <1>3, FailedStay DEF Good
<1> QED BY <1>3, <1>4, <1>5 DEF Good

\* acquire flushes the root for everybody.
LEMMA AcquireStep ==
    ASSUME IInv, NEW w \in Writers, NEW op \in Operations, Acquire(w, op),
           op = "commit" => failed[w] = None, op = "reconcile" => failed[w] # None
    PROVE  IInv'
<1>1. /\ Shape /\ waiting[w] = "none" /\ lock # w
      /\ Flush({Root}) /\ TakeOrWait(w, op)
      /\ UNCHANGED <<slot, journal, failed, seen, plan, txs, told, shown, lost, refused, faults>>
      BY DEF IInv, Acquire, notes
<1>2. /\ Mix(0) /\ JournalsMix /\ TypeDisk' /\ Bounded' /\ missed' \subseteq missed
      /\ KeptIntent' = journal
      /\ Good => MissedIntent'
      BY <1>1, FlushEffect, ShapeParts DEF Good
<1>3. Generation \in Nat /\ Generation' = Generation
      BY <1>1, GenerationFacts, ShapeParts DEF Generation
<1>4. CASE lock = Nobody
  <2>1. lock' = w /\ call' = Entered(op) /\ waiting' = waiting
        BY <1>1, <1>4 DEF TakeOrWait
  <2>2. waiting' \in [Writers -> Operations \cup {"none"}] /\ waiting'[w] = "none"
        BY <1>1, <2>1, ShapeParts DEF TypeWriters
  <2>3. WritersOK' /\ Place'
        BY <1>1, <1>3, <1>4, <2>1, <2>2, EnterWriters, ShapeParts
  <2>4. Progress'
        BY <1>3, <2>1, CallEntered, ReplayProgress
  <2> QED BY <1>1, <1>2, <2>3, <2>4, FlushInvariant
<1>5. CASE lock # Nobody
  <2>1. waiting' = [waiting EXCEPT ![w] = op] /\ UNCHANGED <<lock, call>>
        BY <1>1, <1>5 DEF TakeOrWait
  <2>2. WritersOK'
        BY <1>1, <2>1, QueueWriters, ShapeParts
  <2>3. Place'
        BY <1>1, <1>2, <2>1, SamePlace, ShapeParts
  <2>4. ASSUME lost = {} PROVE Progress'
    <3>1. Good /\ Progress
          BY <2>4 DEF IInv, Good
    <3> QED BY <1>1, <1>2, <2>1, <2>4, <3>1, SameProgress
  <2> QED BY <1>1, <1>2, <2>2, <2>3, <2>4, FlushInvariant
<1> QED BY <1>4, <1>5

FlushTo(d, p) ==
    /\ Flush({d}) /\ Goto(p)
    /\ UNCHANGED <<slot, waiting, journal, lock, failed, seen, plan, txs, told, shown, lost, refused, faults>>

LEMMA FlushToFacts ==
    ASSUME IInv, NEW d, NEW p \in Places, FlushTo(d, p)
    PROVE  /\ call' \in Calls /\ call'.at = p /\ call'.op = call.op /\ call'.tx = call.tx
           /\ call'.gen = call.gen /\ call'.left = call.left /\ call'.x = call.x
           /\ \A x \in Dests : Parent[x] = d => Kept(x)' = slot[x]
           /\ KeptIntent' \in {journal, KeptIntent} /\ (d = Root => KeptIntent' = journal)
           /\ Mix(0) /\ PlansStand
<1>1. Shape /\ TypeDisk /\ TypeFaults /\ TypeWriters /\ TypeOK
      BY ShapeParts DEF IInv
<1>2. /\ call' \in Calls /\ call'.at = p /\ call'.op = call.op /\ call'.tx = call.tx
      /\ call'.gen = call.gen /\ call'.left = call.left /\ call'.x = call.x
      BY <1>1, CallGoes DEF FlushTo, TypeWriters
<1>3. /\ \A x \in Dests : Parent[x] \in {d} => Kept(x)' = slot[x]
      /\ KeptIntent' \in {journal, KeptIntent} /\ (Root \in {d} => KeptIntent' = journal)
      /\ Mix(0)
      BY <1>1, FlushEffect DEF FlushTo
<1>4. PlansStand
      BY <1>1, SamePlans DEF FlushTo
<1> QED BY <1>2, <1>3, <1>4

LEMMA FlushToInvariant ==
    ASSUME IInv, NEW d, NEW p \in Places, FlushTo(d, p), call.at # "idle", p # "idle",
           Place', lost = {} => Progress'
    PROVE  IInv'
<1>1. Shape /\ TypeDisk /\ TypeFaults /\ WritersOK /\ Bounded
      BY ShapeParts DEF IInv
<1>2. WritersOK'
      BY <1>1, FlushToFacts, StayWriters DEF FlushTo
<1>3. /\ Mix(0) /\ JournalsMix /\ TypeDisk' /\ Bounded' /\ missed' \subseteq missed
      /\ Good => MissedIntent'
      BY <1>1, FlushEffect DEF FlushTo, Good
<1> QED BY <1>2, <1>3, FlushInvariant DEF FlushTo

LEMMA CleanedFlush ==
    ASSUME IInv, At("cleaned"), FlushStep
    PROVE  IInv'
<1>1. AfterFlush = "clean" /\ call.at = "cleaned"
      BY DEF AfterFlush, At
<1>2. FlushTo(FlushDir, "clean")
      BY <1>1 DEF FlushStep, FlushTo, notes
<1>3. call'.at = "clean" /\ call'.tx = call.tx /\ "clean" \in Places
      BY <1>2, FlushToFacts, PlaceNames
<1>4. Place /\ journal' = journal
      BY <1>2, ShapeParts DEF IInv, FlushTo
<1>5. Place'
      BY <1>1, <1>3, <1>4 DEF Place, At, Installing
<1>6. Progress'
      BY <1>3 DEF Progress, At, Installing
<1> QED BY <1>1, <1>2, <1>3, <1>5, <1>6, FlushToInvariant

LEMMA UnlinkedFlush ==
    ASSUME IInv, At("unlinked"), FlushStep
    PROVE  IInv'
<1>1. AfterFlush = "replayed" /\ call.at = "unlinked"
      BY DEF AfterFlush, At
<1>2. FlushTo(FlushDir, "replayed")
      BY <1>1 DEF FlushStep, FlushTo, notes
<1>3. /\ call'.at = "replayed" /\ call'.tx = call.tx /\ call'.op = call.op /\ call'.gen = call.gen
      /\ "replayed" \in Places /\ Mix(0) /\ PlansStand
      BY <1>2, FlushToFacts, PlaceNames
<1>4. Shape /\ Place /\ journal' = journal /\ lock' = lock /\ failed' = failed
      BY <1>2, ShapeParts DEF IInv, FlushTo
<1>5. Place'
      BY <1>1, <1>3, <1>4 DEF Place, At, Installing
<1>6. ASSUME lost = {} PROVE Progress'
  <2>1. Good
        BY <1>6 DEF IInv
  <2>2. ASSUME call.tx # 0 PROVE Settled(call.tx)'
    <3>1. failed[lock] # None /\ lock \in Writers /\ failed[lock].tx = call.tx
          BY <1>1, <1>4, <2>2, Held, ShapeParts DEF Place
    <3>2. call.tx \in 0..txs
          BY <1>4, <2>1, <3>1, FaithfulFacts DEF Good, FailedFaithful, Shape
    <3>3. Settled(call.tx)
          BY <1>1, <2>1, <2>2 DEF Good, Progress
    <3> QED BY <1>3, <3>2, <3>3, MixSettled
  <2>3. call'.tx # 0 => Settled(call.tx)'
        BY <1>3, <2>2
  <2> QED BY <1>3, <2>3 DEF Progress, At, Installing
<1> QED BY <1>1, <1>2, <1>3, <1>5, <1>6, FlushToInvariant

LEMMA PreparedFlush ==
    ASSUME IInv, At("prepared"), FlushStep
    PROVE  IInv'
<1>1. AfterFlush = "keep" /\ call.at = "prepared" /\ FlushDir = Root
      BY DEF AfterFlush, FlushDir, At
<1>2. FlushTo(Root, "keep")
      BY <1>1 DEF FlushStep, FlushTo, notes
<1>3. /\ call'.at = "keep" /\ call'.tx = call.tx /\ call'.op = call.op /\ call'.gen = call.gen
      /\ "keep" \in Places /\ Mix(0) /\ PlansStand /\ KeptIntent' = journal
      BY <1>2, FlushToFacts, PlaceNames
<1>4. Shape /\ Place /\ journal' = journal /\ lock' = lock /\ failed' = failed
      BY <1>2, ShapeParts DEF IInv, FlushTo
<1>5. Place'
      BY <1>1, <1>3, <1>4 DEF Place, At, Installing
<1>6. ASSUME lost = {} PROVE Progress'
  <2>1. Good /\ Untouched(failed[lock])
        BY <1>1, <1>6 DEF IInv, Good, Progress
  <2>2. failed[lock] # None /\ lock \in Writers
        BY <1>1, <1>4, Held, ShapeParts DEF Place
  <2>3. IsIntent(failed[lock]) /\ Faithful(failed[lock]) /\ TypeOK
        BY <1>4, <2>1, <2>2, IntentTypes DEF Good, FailedFaithful, Shape
  <2>4. failed[lock].tx # 0
        BY <2>3, FaithfulFacts
  <2>5. Untouched(failed[lock])'
        BY <1>3, <1>4, <2>1, <2>3, <2>4, MixUntouched
  <2> QED BY <1>3, <2>5 DEF Progress, At, Installing
<1> QED BY <1>1, <1>2, <1>3, <1>5, <1>6, FlushToInvariant

LEMMA SwitchedFlush ==
    ASSUME IInv, At("switched"), FlushStep
    PROVE  IInv'
<1>1. AfterFlush = "replay" /\ call.at = "switched"
      BY DEF AfterFlush, At
<1>2. FlushTo(FlushDir, "replay")
      BY <1>1 DEF FlushStep, FlushTo, notes
<1>3. /\ call'.at = "replay" /\ call'.tx = call.tx /\ call'.op = call.op /\ call'.gen = call.gen
      /\ "replay" \in Places
      BY <1>2, FlushToFacts, PlaceNames
<1>4. Place /\ journal' = journal /\ lock' = lock /\ failed' = failed
      BY <1>2, ShapeParts DEF IInv, FlushTo
<1>5. Place'
      BY <1>1, <1>3, <1>4 DEF Place, At, Installing
<1>6. call'.tx # 0
      BY <1>1, <1>3, <1>4 DEF Place
<1>7. Progress'
      BY <1>3, <1>6, ReplayProgress
<1> QED BY <1>1, <1>2, <1>3, <1>5, <1>7, FlushToInvariant

LEMMA InstallingFlush ==
    ASSUME IInv, lost = {}, call.at \in Installing, NEW d, NEW p \in Places, FlushTo(d, p)
    PROVE  /\ IsIntent(journal) /\ journal.tx # 0 /\ InProgress(journal)
           /\ Entries(journal) \subseteq Dests /\ Authority \in Entries(journal)
           /\ Authority \notin DOMAIN journal.moves
           /\ journal' = journal /\ Entries(journal)' = Entries(journal)
           /\ \A x \in Dests : Finished(journal, x) => Finished(journal, x)'
           /\ \A x \in Dests : Done(journal, x) => Done(journal, x)'
<1>1. Shape /\ Good /\ TypeOK /\ Durable(journal) /\ KeptIntent = journal /\ journal' = journal
      BY ShapeParts DEF IInv, Place, FlushTo
<1>2. IsIntent(journal) /\ Faithful(journal) /\ InProgress(journal)
      BY <1>1, ReplayingNow
<1>3. journal.tx # 0 /\ Entries(journal) \subseteq Dests /\ Authority \in Entries(journal)
      BY <1>1, <1>2, FaithfulFacts, IntentFacts
<1>4. Authority \notin DOMAIN journal.moves
      BY <1>2, IntentFacts, RewriteAssumption
<1>5. Mix(0)
      BY FlushToFacts
<1>6. \A x \in Dests : Done(journal, x) => Done(journal, x)'
      BY <1>1, <1>3, <1>5, MixDone
<1>7. \A x \in Dests : Finished(journal, x) => Finished(journal, x)'
      BY <1>1, <1>2, <1>3, <1>5, MixFinished
<1>8. Entries(journal)' = Entries(journal)
      BY <1>1 DEF Entries
<1> QED BY <1>1, <1>2, <1>3, <1>4, <1>6, <1>7, <1>8

LEMMA InstalledFlush ==
    ASSUME IInv, At("installed"), FlushStep
    PROVE  IInv'
<1>0. PICK x : x = call.x
      OBVIOUS
<1>1. /\ AfterFlush = IF x \in DOMAIN journal.moves THEN "retire"
                      ELSE IF x = Authority THEN "finish" ELSE "install"
      /\ call.at = "installed" /\ FlushDir = Parent[x] /\ call.at \in Installing
      BY <1>0 DEF AfterFlush, FlushDir, At, Installing
<1>2. AfterFlush \in Places /\ AfterFlush # "idle"
      BY <1>0, <1>1, PlaceNames
<1>3. FlushTo(Parent[x], AfterFlush)
      BY <1>0, <1>1 DEF FlushStep, FlushTo, notes
<1>4. /\ call'.at = AfterFlush /\ call'.tx = call.tx /\ call'.op = call.op /\ call'.gen = call.gen
      /\ call'.left = call.left /\ call'.x = x
      /\ KeptIntent' \in {journal, KeptIntent} /\ \A y \in Dests : Parent[y] = Parent[x] => Kept(y)' = slot[y]
      BY <1>0, <1>2, <1>3, FlushToFacts
<1>5. /\ Shape /\ Place /\ journal' = journal /\ lock' = lock /\ failed' = failed /\ slot' = slot
      /\ x \in Dests
      BY <1>0, <1>3, ShapeParts, CallFields DEF IInv, FlushTo, TypeWriters
<1>6. Place'
  <2>1. /\ Durable(journal) /\ KeptIntent = journal
        /\ call.left \subseteq Entries(journal) \ {Authority, x} /\ x \in Entries(journal)
        BY <1>0, <1>1, <1>5 DEF Place
  <2>2. Durable(journal)' /\ KeptIntent' = journal'
        BY <1>0, <1>4, <1>5, <2>1
  <2>3. Entries(journal)' = Entries(journal)
        BY <1>0, <1>5 DEF Entries
  <2>4. call.tx # 0 =>
          /\ call.op = "commit" /\ failed[lock] # None /\ failed[lock].tx = call.tx
          /\ call.gen = failed[lock].prior /\ journal = AsDurable(failed[lock])
        BY <1>0, <1>1, <1>5 DEF Place
  <2>5. call'.tx # 0 =>
          /\ call'.op = "commit" /\ failed'[lock'] # None /\ failed'[lock'].tx = call'.tx
          /\ call'.gen = failed'[lock'].prior /\ journal' = AsDurable(failed'[lock'])
        BY <1>0, <1>4, <1>5, <2>4
  <2>6. call'.at \in {"retire", "finish", "install"}
        BY <1>0, <1>1, <1>4
  <2>7. call'.at = "retire" => call'.x \in DOMAIN journal'.moves
        BY <1>0, <1>1, <1>4, <1>5
  <2>8. call'.left \subseteq Entries(journal)' \ {Authority, call'.x} /\ call'.x \in Entries(journal)'
        BY <1>0, <1>4, <2>1, <2>3
  <2>9. call'.left \subseteq Entries(journal)' \ {Authority}
        BY <1>0, <2>8
  <2> QED BY <1>0, <2>2, <2>5, <2>6, <2>7, <2>8, <2>9 DEF Place, At, Installing, AsDurable
<1>7. ASSUME lost = {} PROVE Progress'
  <2>1. /\ IsIntent(journal) /\ Entries(journal) \subseteq Dests /\ Authority \notin DOMAIN journal.moves
        /\ Entries(journal)' = Entries(journal)
        /\ \A y \in Dests : Finished(journal, y) => Finished(journal, y)'
        BY <1>0, <1>1, <1>2, <1>3, <1>7, InstallingFlush
  <2>2. journal.tx \notin slot[x].temp /\ Kept(x)' = slot[x]
        BY <1>0, <1>1, <1>4, <1>5, <1>7 DEF IInv, Good, Progress, At
  <2>3. Done(journal, x)'
        BY <1>0, <1>5, <2>2 DEF Done
  <2>4. ASSUME NEW y \in Entries(journal), y \notin {Authority, x} \cup call.left PROVE Finished(journal, y)'
    <3>1. Finished(journal, y)
          BY <1>0, <1>1, <1>7, <2>4 DEF IInv, Good, Progress, Behind, Installing
    <3> QED BY <1>0, <2>1, <3>1
  <2>5. x \notin DOMAIN journal.moves => Finished(journal, x)'
        BY <1>0, <1>5, <2>3 DEF Finished
  <2>6. CASE x \in DOMAIN journal.moves
    <3>1. call'.at = "retire"
          BY <1>0, <1>1, <1>4, <2>6
    <3>2. Behind' = {x}
          BY <1>0, <1>4, <3>1 DEF Behind
    <3>3. \A y \in Entries(journal)' \ ({Authority} \cup Behind' \cup call'.left) : Finished(journal, y)'
          BY <1>0, <1>4, <2>1, <2>4, <3>2
    <3>4. Done(journal, call.x)'
          BY <1>0, <1>4, <2>3
    <3> QED BY <1>0, <3>1, <3>3, <3>4 DEF Progress, At, Installing
  <2>7. CASE x \notin DOMAIN journal.moves /\ x = Authority
    <3>1. call'.at = "finish" /\ call.left = {}
          BY <1>0, <1>1, <1>4, <1>5, <2>7 DEF Place, At
    <3>2. \A y \in Entries(journal)' : Finished(journal, y)'
          BY <1>0, <2>1, <2>4, <2>5, <2>7, <3>1
    <3> QED BY <1>0, <3>1, <3>2 DEF Progress, At, Installing
  <2>8. CASE x \notin DOMAIN journal.moves /\ x # Authority
    <3>1. call'.at = "install"
          BY <1>0, <1>1, <1>4, <2>8
    <3>2. Behind' = {}
          BY <1>0, <3>1 DEF Behind
    <3>3. \A y \in Entries(journal)' \ ({Authority} \cup Behind' \cup call'.left) : Finished(journal, y)'
          BY <1>0, <1>4, <2>1, <2>4, <2>5, <2>8, <3>2
    <3> QED BY <1>0, <3>1, <3>3 DEF Progress, At, Installing
  <2> QED BY <1>0, <2>6, <2>7, <2>8
<1> QED BY <1>0, <1>1, <1>2, <1>3, <1>6, <1>7, FlushToInvariant

LEMMA RetiredFlush ==
    ASSUME IInv, At("retired"), FlushStep
    PROVE  IInv'
<1>0. PICK x, s : x = call.x /\ s = journal.moves[call.x]
      OBVIOUS
<1>1. AfterFlush = "install" /\ call.at = "retired" /\ FlushDir = Parent[s] /\ call.at \in Installing
      BY <1>0 DEF AfterFlush, FlushDir, At, Installing
<1>2. FlushTo(Parent[s], "install")
      BY <1>0, <1>1 DEF FlushStep, FlushTo, notes
<1>3. /\ call'.at = "install" /\ call'.tx = call.tx /\ call'.op = call.op /\ call'.gen = call.gen
      /\ call'.left = call.left /\ call'.x = x /\ "install" \in Places
      /\ KeptIntent' \in {journal, KeptIntent} /\ \A y \in Dests : Parent[y] = Parent[s] => Kept(y)' = slot[y]
      BY <1>0, <1>2, FlushToFacts, PlaceNames
<1>4. Shape /\ Place /\ journal' = journal /\ lock' = lock /\ failed' = failed /\ slot' = slot
      BY <1>0, <1>2, ShapeParts DEF IInv, FlushTo
<1>5. /\ Durable(journal) /\ KeptIntent = journal
      /\ call.left \subseteq Entries(journal) \ {Authority, x} /\ x \in Entries(journal)
      /\ x \in DOMAIN journal.moves
      BY <1>0, <1>1, <1>4 DEF Place
<1>6. Place'
  <2>1. Durable(journal)' /\ KeptIntent' = journal' /\ Entries(journal)' = Entries(journal)
        BY <1>0, <1>3, <1>4, <1>5 DEF Entries
  <2>2. call.tx # 0 =>
          /\ call.op = "commit" /\ failed[lock] # None /\ failed[lock].tx = call.tx
          /\ call.gen = failed[lock].prior /\ journal = AsDurable(failed[lock])
        BY <1>0, <1>1, <1>4 DEF Place
  <2>3. call'.left \subseteq Entries(journal)' \ {Authority}
        BY <1>0, <1>3, <1>5, <2>1
  <2> QED BY <1>0, <1>3, <1>4, <2>1, <2>2, <2>3 DEF Place, At, Installing, AsDurable
<1>7. ASSUME lost = {} PROVE Progress'
  <2>1. /\ IsIntent(journal) /\ Entries(journal) \subseteq Dests
        /\ Entries(journal)' = Entries(journal)
        /\ \A y \in Dests : Finished(journal, y) => Finished(journal, y)'
        /\ \A y \in Dests : Done(journal, y) => Done(journal, y)'
        BY <1>0, <1>1, <1>2, <1>3, <1>7, InstallingFlush
  <2>2. Done(journal, x) /\ slot[s].file = Absent
        BY <1>0, <1>1, <1>7 DEF IInv, Good, Progress, At
  <2>3. s \in Dests
        BY <1>0, <1>5, <2>1, IntentFacts DEF Dests
  <2>4. Retired(journal, x)'
        BY <1>0, <1>3, <1>4, <2>2, <2>3 DEF Retired
  <2>5. Finished(journal, x)'
        BY <1>0, <1>5, <2>1, <2>2, <2>4 DEF Finished
  <2>6. ASSUME NEW y \in Entries(journal), y \notin {Authority} \cup call.left PROVE Finished(journal, y)'
    <3>1. y # x => Finished(journal, y)
          BY <1>0, <1>1, <1>7, <2>6 DEF IInv, Good, Progress, Behind, Installing
    <3> QED BY <1>0, <2>1, <2>5, <3>1
  <2>7. Behind' = {}
        BY <1>0, <1>3 DEF Behind
  <2>8. \A y \in Entries(journal)' \ ({Authority} \cup Behind' \cup call'.left) : Finished(journal, y)'
        BY <1>0, <1>3, <2>1, <2>6, <2>7
  <2> QED BY <1>0, <1>3, <2>8 DEF Progress, At, Installing
<1> QED BY <1>0, <1>1, <1>2, <1>3, <1>6, <1>7, FlushToInvariant

LEMMA FlushStepStep ==
    ASSUME IInv, FlushStep
    PROVE  IInv'
<1>1. call.at \in {"cleaned", "installed", "retired", "unlinked", "prepared", "switched"}
      BY DEF FlushStep, Flushes
<1> QED BY <1>1, CleanedFlush, InstalledFlush, RetiredFlush, UnlinkedFlush, PreparedFlush, SwitchedFlush DEF At

\* What is left to show of a step that moves no file forward.
LEMMA MixInvariant ==
    ASSUME IInv, NEW t, TypeDisk', Bounded', TypeFaults', WritersOK', Place',
           UNCHANGED <<plan, txs, told, shown, refused>>,
           \A w \in Writers : failed'[w] \in {None, failed[w]},
           lost' = {} => lost = {},
           lost' = {} /\ Good =>
               /\ Mix(t) /\ JournalsMix /\ MissedIntent' /\ Progress'
               /\ \A i \in {journal, KeptIntent} : Durable(i) => i.tx # t
    PROVE  IInv'
<1>1. Shape /\ TypeNotes' /\ ToldStaged'
      BY ShapeParts DEF IInv, TypeNotes, ToldStaged
<1>2. Shape'
      BY <1>1, NextShape
<1> SUFFICES ASSUME lost' = {} PROVE Good'
    BY <1>2 DEF IInv
<1>3. Good
      BY DEF IInv
<1>4. Mixes(t)
      BY <1>1, <1>2, <1>3, SamePlans DEF Mixes, Shape
<1>5. Core'
      BY <1>1, <1>3, <1>4, MixCore, ShapeParts DEF Good
<1>6. FailedFaithful'
      BY <1>1, <1>2, <1>3, FailedStay DEF Good
<1> QED BY <1>3, <1>5, <1>6 DEF Good

LEMMA ReplayBeginStep ==
    ASSUME IInv, ReplayBegin
    PROVE  IInv'
<1>1. /\ Shape /\ Place /\ call.at = "replay" /\ journal # None
      /\ UNCHANGED <<slot, dslot, journal, djournal, waiting, lock, failed, seen, plan, txs, told, shown, lost, refused, faults>>
      BY ShapeParts DEF IInv, ReplayBegin, notes, disk, At
<1>2. /\ missed' = IF journal = djournal \/ journal.state = "preparing" THEN missed ELSE missed \cup {Journal}
      /\ call' = IF journal.state = "preparing"
                 THEN BeginCall(call, "clean", Entries(journal))
                 ELSE BeginCall(call, "install", Entries(journal) \ {Authority})
      BY DEF ReplayBegin, BeginCall
<1>3. IsIntent(journal) /\ Entries(journal) \subseteq Dests /\ call \in Calls
      BY <1>1, IntentTypes, IntentFacts, ShapeParts DEF TypeWriters
<1>4. journal.state \in {"preparing", "durable"} /\ (Durable(journal) <=> journal.state = "durable")
      BY <1>1, <1>3, IntentFacts DEF Durable
<1>5. \A x \in Dests : Kept(x)' = Kept(x)
  <2>1. \A x \in Dests : x \in missed' <=> x \in missed
        BY <1>2, RewriteAssumption
  <2> QED BY <1>1, <2>1 DEF Kept
<1>6. /\ journal.state = "preparing" => KeptIntent' = KeptIntent
      /\ journal.state = "durable" => KeptIntent' = journal
      BY <1>1, <1>2, <1>4 DEF KeptIntent
<1>7. call' \in Calls /\ call'.op = call.op /\ call'.tx = call.tx /\ call'.gen = call.gen
  <2>1. /\ Entries(journal) \in SUBSET Dests /\ Entries(journal) \ {Authority} \in SUBSET Dests
        /\ "clean" \in Places /\ "install" \in Places
        BY <1>3, PlaceNames
  <2>2. LET d == BeginCall(call, "clean", Entries(journal)) IN
        d \in Calls /\ d.op = call.op /\ d.tx = call.tx /\ d.gen = call.gen
        BY <1>3, <2>1, CallBegins, SMT
  <2>3. LET d == BeginCall(call, "install", Entries(journal) \ {Authority}) IN
        d \in Calls /\ d.op = call.op /\ d.tx = call.tx /\ d.gen = call.gen
        BY <1>3, <2>1, CallBegins, SMT
  <2> QED BY <1>2, <2>2, <2>3
<1>8. /\ journal.state = "preparing" => call'.at = "clean"
      /\ journal.state = "durable" => call'.at = "install" /\ call'.left = Entries(journal) \ {Authority}
  <2>1. /\ Entries(journal) \in SUBSET Dests /\ Entries(journal) \ {Authority} \in SUBSET Dests
        /\ "clean" \in Places /\ "install" \in Places
        BY <1>3, PlaceNames
  <2>2. BeginCall(call, "clean", Entries(journal)).at = "clean"
        BY <1>3, <2>1, CallBegins
  <2>3. PICK l : l = Entries(journal) \ {Authority}
        OBVIOUS
  <2>4. l \in SUBSET Dests /\ "install" \in Places /\ call \in Calls
        BY <1>3, <2>1, <2>3
  <2>5. BeginCall(call, "install", l).at = "install" /\ BeginCall(call, "install", l).left = l
        BY <2>4, CallBegins
  <2> QED BY <1>2, <2>2, <2>3, <2>5
<1>9. ASSUME call.tx # 0
      PROVE  /\ journal.state = "durable" /\ call.op = "commit" /\ failed[lock] # None
             /\ failed[lock].tx = call.tx /\ call.gen = failed[lock].prior /\ journal = AsDurable(failed[lock])
  <2>1. /\ journal = AsDurable(failed[lock]) /\ failed[lock] # None /\ lock \in Writers
        /\ call.op = "commit" /\ failed[lock].tx = call.tx /\ call.gen = failed[lock].prior
        BY <1>1, <1>9, ShapeParts, Held DEF Place
  <2> QED BY <1>1, <2>1, IntentTypes, DurableFacts, ShapeParts DEF Durable
<1>10. WritersOK'
      BY <1>1, <1>4, <1>7, <1>8, StayWriters, ShapeParts
<1>11. Place'
  <2>1. Entries(journal)' = Entries(journal)
        BY <1>1 DEF Entries
  <2>2. CASE journal.state = "preparing"
    <3>1. call'.at = "clean" /\ call'.tx = 0 /\ journal' # None /\ journal'.state = "preparing"
          BY <1>1, <1>7, <1>8, <1>9, <2>2
    <3> QED BY <3>1 DEF Place, At, Installing
  <2>3. CASE journal.state = "durable"
    <3>1. call'.at = "install" /\ call'.left \subseteq Entries(journal)' \ {Authority}
          BY <1>8, <2>1, <2>3
    <3>2. Durable(journal)' /\ KeptIntent' = journal'
          BY <1>1, <1>4, <1>6, <2>3
    <3>3. call'.tx # 0 =>
            /\ call'.op = "commit" /\ failed'[lock'] # None /\ failed'[lock'].tx = call'.tx
            /\ call'.gen = failed'[lock'].prior /\ journal' = AsDurable(failed'[lock'])
          BY <1>1, <1>7, <1>9
    <3> QED BY <3>1, <3>2, <3>3 DEF Place, At, Installing, AsDurable
  <2> QED BY <1>4, <2>2, <2>3
<1>12. Progress'
  <2>1. CASE journal.state = "preparing"
    <3>1. call'.at = "clean" /\ call'.tx = 0
          BY <1>1, <1>7, <1>8, <1>9, <2>1
    <3> QED BY <3>1 DEF Progress, At, Installing
  <2>2. CASE journal.state = "durable"
    <3>1. call'.at = "install" /\ call'.left = Entries(journal)' \ {Authority}
          BY <1>1, <1>8, <2>2 DEF Entries
    <3>2. \A x \in Entries(journal)' \ ({Authority} \cup Behind' \cup call'.left) : Finished(journal, x)'
          BY <3>1
    <3> QED BY <3>1, <3>2 DEF Progress, At, Installing
  <2> QED BY <1>4, <2>1, <2>2
<1>13. Mix(0) /\ JournalsMix
      BY <1>1, <1>4, <1>5, <1>6 DEF Mix, Like, JournalsMix
<1>14. ASSUME Good PROVE MissedIntent'
  <2>1. CASE Journal \in missed \/ Journal \notin missed'
        BY <1>1, <1>14, <2>1 DEF Good, MissedIntent, Durable
  <2>2. CASE Journal \notin missed /\ Journal \in missed'
    <3>1. journal # djournal /\ journal.state = "durable" /\ KeptIntent = djournal
          BY <1>2, <1>4, <2>2 DEF KeptIntent
    <3>2. Switching
          BY <1>4, <1>14, <3>1 DEF Good, Core, RootOK, Replaying, Unlinking, Resting
    <3> QED BY <1>1, <3>1, <3>2 DEF Switching, MissedIntent
  <2> QED BY <2>1, <2>2
<1>15. TypeDisk' /\ Bounded' /\ missed' \subseteq missed \cup {Journal}
      BY <1>1, <1>2, ShapeParts DEF TypeDisk, Bounded
<1> QED BY <1>1, <1>10, <1>11, <1>12, <1>13, <1>14, <1>15, FlushInvariant

\* Temporaries of transaction t are removed.
LEMMA DroppedTemps ==
    ASSUME Shape, NEW t, NEW X,
           slot' = [x \in Dests |-> IF x \in X THEN [slot[x] EXCEPT !.temp = @ \ {t}] ELSE slot[x]],
           UNCHANGED <<dslot, journal, djournal, missed>>
    PROVE  /\ Mix(t) /\ JournalsMix /\ TypeDisk' /\ Bounded' /\ (MissedIntent => MissedIntent')
           /\ KeptIntent' = KeptIntent
           /\ X = {} => Mix(0)
<1>1. ASSUME NEW x \in Dests
      PROVE  slot'[x] \in Slots /\ Like(slot'[x], slot[x], t) /\ (x \notin X => slot'[x] = slot[x])
  <2>1. slot[x] \in Slots
        BY ShapeParts, SlotFacts
  <2>2. CASE x \in X
    <3>1. slot'[x] = [slot[x] EXCEPT !.temp = slot[x].temp \ {t}]
          BY <2>2
    <3>2. PICK c : c = slot[x]
          OBVIOUS
    <3>3. LET e == [c EXCEPT !.temp = c.temp \ {t}] IN e \in Slots /\ e.file = c.file /\ e.temp = c.temp \ {t}
          BY <2>1, <3>2, SMT DEF Slots
    <3>4. slot'[x] \in Slots /\ slot'[x].file = slot[x].file /\ slot'[x].temp = slot[x].temp \ {t}
          BY <3>1, <3>2, <3>3
    <3> QED BY <2>2, <3>4 DEF Like
  <2>3. CASE x \notin X
        BY <2>1, <2>3 DEF Like
  <2> QED BY <2>2, <2>3
<1>2. Mix(t) /\ (X = {} => Mix(0))
  <2>1. \A x \in Dests : Kept(x)' \in {slot'[x], Kept(x)} /\ (slot'[x] = slot[x] => Kept(x)' = Kept(x))
        BY KeptStays
  <2>2. \A c : Like(c, c, t) /\ Like(c, c, 0)
        BY DEF Like
  <2>3. \A x \in Dests : Like(Kept(x)', slot[x], t) \/ Like(Kept(x)', Kept(x), t)
        BY <1>1, <2>1, <2>2
  <2> QED BY <1>1, <2>1, <2>2, <2>3 DEF Mix
<1>3. KeptIntent' = KeptIntent /\ JournalsMix
      BY DEF KeptIntent, JournalsMix
<1>4. TypeDisk'
  <2>1. slot' \in [Dests -> Slots]
        BY <1>1
  <2> QED BY <2>1, ShapeParts DEF TypeDisk
<1>5. Bounded'
  <2>1. slot'[Authority].file = slot[Authority].file
        BY <1>1 DEF Like, Dests
  <2> QED BY <2>1, ShapeParts DEF Bounded
<1> QED BY <1>2, <1>3, <1>4, <1>5 DEF MissedIntent

LEMMA CleanTemporaryStep ==
    ASSUME IInv, NEW x \in Dests, CleanTemporary(x)
    PROVE  IInv'
<1>1. /\ Shape /\ Place /\ call.at = "clean"
      /\ UNCHANGED <<waiting, dslot, journal, djournal, lock, failed, seen, plan, txs, told, shown, missed, lost, refused, faults>>
      BY ShapeParts DEF IInv, CleanTemporary, notes, At
<1>2. PICK t : t = journal.tx
      OBVIOUS
<1>3. slot' = [y \in Dests |-> IF y \in {x} THEN [slot[y] EXCEPT !.temp = @ \ {t}] ELSE slot[y]]
  <2>1. slot' = [slot EXCEPT ![x].temp = @ \ {t}] /\ slot \in [Dests -> Slots]
        BY <1>1, <1>2, ShapeParts DEF CleanTemporary, TypeDisk
  <2>2. slot' = [slot EXCEPT ![x] = [slot[x] EXCEPT !.temp = @ \ {t}]]
        BY <2>1
  <2> QED BY <2>1, <2>2
<1>4. /\ Mix(t) /\ JournalsMix /\ TypeDisk' /\ Bounded' /\ (MissedIntent => MissedIntent')
      BY <1>1, <1>3, DroppedTemps
<1>5. call.tx = 0 /\ journal # None /\ journal.state = "preparing" /\ call \in Calls
      BY <1>1, ShapeParts DEF Place, TypeWriters
<1>6. call' \in Calls /\ call'.op = call.op /\ call'.tx = call.tx /\ call'.at \in {"clean", "cleaned"}
  <2>1. PICK p \in {"clean", "cleaned"} : call' = EntryCall(call, call.left \ {x}, x, p)
    <3>1. call' = EntryCall(call, call.left \ {x}, x, IF journal.tx \in slot[x].temp THEN "cleaned" ELSE call.at)
          BY DEF CleanTemporary, EntryCall
    <3> QED BY <1>1, <3>1
  <2>2. p \in Places
        BY PlaceNames
  <2> QED BY <1>5, <2>1, <2>2, CallEnters
<1>7. WritersOK'
      BY <1>1, <1>6, StayWriters, ShapeParts
<1>8. Place'
      BY <1>1, <1>5, <1>6 DEF Place, At, Installing
<1>9. Progress'
      BY <1>5, <1>6 DEF Progress, At, Installing
<1>10. TypeFaults'
      BY <1>1, ShapeParts DEF TypeFaults
<1>11. ASSUME Good PROVE \A i \in {journal, KeptIntent} : Durable(i) => i.tx # t
  <2>1. ~Durable(journal)
        BY <1>5 DEF Durable
  <2>2. Durable(KeptIntent) => Unlinking
        BY <1>11, <2>1 DEF Good, Core, RootOK, Replaying, Switching, Resting
  <2>3. Durable(KeptIntent) => KeptIntent.tx # t
        BY <1>2, <1>5, <2>2 DEF Unlinking
  <2> QED BY <2>1, <2>3
<1>12. Good => MissedIntent'
      BY <1>4 DEF Good
<1> QED BY <1>1, <1>4, <1>7, <1>8, <1>9, <1>10, <1>11, <1>12, MixInvariant

\* An error before every temporary is kept drops those of the commit.
LEMMA FailStep ==
    ASSUME IInv, NEW w \in Writers, Fail(w)
    PROVE  IInv'
<1>1. /\ Shape /\ Place /\ lock = w /\ lock # Nobody /\ Return /\ failed' = ToReconcile
      /\ faults < MaxFaults /\ faults' = faults + 1
      /\ UNCHANGED <<waiting, dslot, journal, djournal, seen, plan, txs, told, shown, missed, lost, refused>>
      BY ShapeParts, RewriteAssumption DEF IInv, Fail, notes
<1>2. PICK dropped \in SUBSET Dests :
        /\ dropped \subseteq {x \in Dests : Armed /\ call.tx \in slot[x].temp}
        /\ slot' = [x \in Dests |-> IF x \in dropped THEN [slot[x] EXCEPT !.temp = @ \ {call.tx}] ELSE slot[x]]
      BY DEF Fail
<1>3. PICK t : t = call.tx
      OBVIOUS
<1>4. /\ Mix(t) /\ JournalsMix /\ TypeDisk' /\ Bounded' /\ (MissedIntent => MissedIntent')
      /\ dropped = {} => Mix(0)
      BY <1>1, <1>2, <1>3, DroppedTemps
<1>5. /\ failed' = [v \in Writers |-> failed'[v]]
      /\ \A v \in Writers : failed'[v] = None \/ (failed'[v] = failed[v] /\ failed[v].prior # failed[v].next)
      /\ \A v \in Writers : v # lock => failed'[v] = failed[v]
      /\ \A v \in Writers : failed'[v] # None => told'[failed[v].tx] = "nothing"
      BY <1>1, ToReconcileFacts
<1>6. /\ waiting' \in [Writers -> Operations \cup {"none"}]
      /\ seen' \in [Writers -> [Sources -> Files] \cup {None}]
      BY <1>1, ShapeParts DEF TypeWriters
<1>7. WritersOK' /\ Place'
      BY <1>1, <1>5, <1>6, LeaveWriters, ShapeParts
<1>8. faults' \in 0..MaxFaults
      BY <1>1, FaultCount, ShapeParts
<1>9. TypeFaults'
      BY <1>1, <1>8, ShapeParts DEF TypeFaults
<1>10. Progress'
      BY <1>1, IdleProgress DEF Return
<1>11. \A v \in Writers : failed'[v] \in {None, failed[v]}
      BY <1>5
<1>12. Good => MissedIntent'
      BY <1>4 DEF Good
<1>13. CASE Armed
  <2>1. ASSUME Good PROVE \A i \in {journal, KeptIntent} : Durable(i) => i.tx # t
    <3>1. call.at \in {"publish", "prepared", "keep"}
          BY <1>13 DEF Armed
    <3>2. failed[lock] # None /\ failed[lock].tx = t /\ failed[lock].state = "preparing"
          BY <1>1, <1>3, <3>1, ShapeParts DEF Place, FailedOK
    <3>3. ~Durable(journal)
          BY <1>1, <3>1, <3>2 DEF Place, Durable
    <3>4. Durable(KeptIntent) => Unlinking
          BY <2>1, <3>3 DEF Good, Core, RootOK, Replaying, Switching, Resting
    <3>5. CASE call.at = "publish"
      <4>1. KeptIntent # None => KeptIntent.tx # t
            BY <1>3, <2>1, <3>5 DEF Good, Progress, At
      <4>2. Durable(KeptIntent) => KeptIntent.tx # t
            BY <4>1 DEF Durable
      <4> QED BY <3>3, <4>2
    <3>6. CASE call.at = "prepared"
      <4>1. journal # None /\ journal.tx = t
            BY <1>1, <3>2, <3>6 DEF Place
      <4> QED BY <3>3, <3>4, <4>1 DEF Unlinking
    <3>7. CASE call.at = "keep"
          BY <1>1, <3>3, <3>7 DEF Place, At
    <3> QED BY <3>1, <3>5, <3>6, <3>7
  <2> QED BY <1>1, <1>4, <1>7, <1>9, <1>10, <1>11, <1>12, <2>1, MixInvariant
<1>14. CASE ~Armed
  <2>1. Mix(0)
        BY <1>2, <1>4, <1>14
  <2>2. Good => \A i \in {journal, KeptIntent} : Durable(i) => i.tx # 0
        BY <1>1, ZeroTx, ShapeParts DEF Good, Core
  <2> QED BY <1>1, <1>4, <1>7, <1>9, <1>10, <1>11, <1>12, <2>1, <2>2, MixInvariant
<1> QED BY <1>13, <1>14

\* A power loss brings back, directory by directory, what was flushed.
LEMMA PowerLossStep ==
    ASSUME IInv, PowerLoss
    PROVE  IInv'
<1>1. /\ Shape /\ Return /\ faults < MaxFaults /\ faults' = faults + 1
      /\ dslot' = slot' /\ djournal' = journal' /\ missed' = {}
      /\ waiting' = [w \in Writers |-> "none"] /\ failed' = [w \in Writers |-> None]
      /\ seen' = [w \in Writers |-> None]
      /\ UNCHANGED <<plan, txs, told, shown, refused>>
      BY DEF IInv, PowerLoss, notes
<1>2. PICK gone \in SUBSET Dirs :
        /\ slot' = [x \in Dests |-> IF Parent[x] \in gone THEN dslot[x] ELSE slot[x]]
        /\ journal' = IF Root \in gone THEN djournal ELSE journal
        /\ lost' = lost \cup (IF Journal \in missed /\ Root \in gone /\ journal # djournal THEN {"intent"} ELSE {})
                        \cup (IF \E x \in missed \ {Journal} : Parent[x] \in gone THEN {"install"} ELSE {})
      BY DEF PowerLoss
<1>3. \A x \in Dests : Kept(x)' = slot'[x] /\ slot'[x] \in {slot[x], dslot[x]}
      BY <1>1, <1>2 DEF Kept
<1>4. KeptIntent' = journal'
      BY <1>1 DEF KeptIntent
<1>5. TypeDisk'
  <2>1. \A x \in Dests : slot'[x] \in Slots
        BY <1>1, <1>3, SlotFacts, ShapeParts
  <2>2. slot' \in [Dests -> Slots]
        BY <1>2, <2>1
  <2> QED BY <1>1, <1>2, <2>2, ShapeParts DEF TypeDisk
<1>6. Bounded'
  <2>1. slot'[Authority] \in {slot[Authority], dslot[Authority]} /\ dslot'[Authority] = slot'[Authority]
        BY <1>1, <1>3 DEF Dests
  <2> QED BY <1>1, <2>1, ShapeParts DEF Bounded
<1>7. TypeFaults'
  <2>1. faults' \in 0..MaxFaults
        BY <1>1, FaultCount, ShapeParts
  <2>2. lost' \subseteq {"intent", "install"}
        BY <1>1, <1>2, ShapeParts DEF TypeFaults
  <2> QED BY <1>1, <2>1, <2>2, ShapeParts DEF TypeFaults
<1>8. WritersOK' /\ Place'
  <2>1. /\ \A w \in Writers : failed'[w] = None /\ waiting'[w] = "none"
        /\ waiting' \in [Writers -> Operations \cup {"none"}]
        /\ seen' \in [Writers -> [Sources -> Files] \cup {None}]
        /\ failed' = [w \in Writers |-> failed'[w]]
        BY <1>1
  <2> QED BY <1>1, <2>1, LeaveWriters, ShapeParts
<1>9. Progress'
      BY <1>1, IdleProgress DEF Return
<1>10. \A w \in Writers : failed'[w] \in {None, failed[w]}
      BY <1>1
<1>11. lost' = {} => lost = {}
      BY <1>2
<1>12. MissedIntent'
      BY <1>1 DEF MissedIntent
<1>13. ASSUME lost' = {} PROVE Mix(0) /\ JournalsMix
  <2>1. ~(Journal \in missed /\ Root \in gone /\ journal # djournal)
        BY <1>2, <1>13
  <2>2. ~ \E x \in missed \ {Journal} : Parent[x] \in gone
        BY <1>2, <1>13
  <2>3. ASSUME NEW x \in Dests PROVE slot'[x] \in {slot[x], Kept(x)} /\ Kept(x)' \in {slot[x], Kept(x)}
    <3>1. x # Journal
          BY RewriteAssumption
    <3>2. Parent[x] \in gone => x \notin missed
          BY <2>2, <3>1
    <3>3. slot'[x] = IF Parent[x] \in gone THEN dslot[x] ELSE slot[x]
          BY <1>2
    <3> QED BY <1>3, <3>2, <3>3 DEF Kept
  <2>4. Mix(0)
        BY <2>3 DEF Mix, Like
  <2>5. journal' \in {journal, KeptIntent}
        BY <1>2, <2>1 DEF KeptIntent
  <2> QED BY <1>4, <2>4, <2>5 DEF JournalsMix
<1>14. Good => \A i \in {journal, KeptIntent} : Durable(i) => i.tx # 0
      BY <1>1, ZeroTx, ShapeParts DEF Good, Core
<1> QED BY <1>1, <1>5, <1>6, <1>7, <1>8, <1>9, <1>10, <1>11, <1>12, <1>13, <1>14, MixInvariant

\* What is left to show of a step that changes only the visible intent.
LEMMA IntentInvariant ==
    ASSUME IInv, UNCHANGED <<slot, dslot, djournal, missed, plan, txs, told, shown, failed, lost, refused, faults>>,
           journal' = None \/ IsIntent(journal'), WritersOK', Place',
           Good => /\ RootOK' /\ Progress'
                   /\ \A i \in {journal', KeptIntent'} : i # None => Faithful(i)
                   /\ \A i \in {journal', KeptIntent'} : Durable(i) => told[i.tx] # "not committed"
                   /\ \A t \in shown : \/ t \in plan[Selected].line /\ t \in plan[KeptSelected].line
                                       \/ Durable(journal') /\ KeptIntent' = journal' /\ t = journal'.tx
    PROVE  IInv'
<1>1. Shape /\ TypeDisk' /\ Bounded' /\ TypeNotes' /\ TypeFaults' /\ ToldStaged'
      BY ShapeParts DEF IInv, TypeDisk, Bounded, TypeNotes, TypeFaults, ToldStaged
<1>2. Shape'
      BY <1>1, NextShape
<1> SUFFICES ASSUME lost' = {} PROVE Good'
    BY <1>2 DEF IInv
<1>3. Good /\ Core
      BY DEF IInv, Good
<1>4. Selected' = Selected /\ KeptSelected' = KeptSelected
      BY DEF Selected, KeptSelected, Kept
<1>5. PlansStand /\ TypeOK /\ TypeOK'
      BY <1>1, <1>2, SamePlans DEF Shape
<1>6. Lines'
      BY <1>3, <1>5, SameLines DEF Core
<1>7. IntentsFaithful'
  <2>1. /\ journal' # None => Faithful(journal')
        /\ KeptIntent' # None => Faithful(KeptIntent')
        BY <1>3
  <2>2. /\ journal' # None => Faithful(journal)'
        /\ KeptIntent' # None => Faithful(KeptIntent)'
        BY <1>5, <2>1, FaithfulStays
  <2> QED BY <2>2 DEF IntentsFaithful
<1>8. ToldOK'
  <2>1. ASSUME NEW t \in Tx PROVE ToldAt(t, Selected)' /\ ToldAt(t, KeptSelected)'
    <3>1. ToldAt(t, Selected) /\ ToldAt(t, KeptSelected)
          BY <1>3 DEF Core, ToldOK
    <3> QED BY <1>4, <3>1 DEF ToldAt
  <2>2. ASSUME NEW t \in Tx, told'[t] = "not committed"
        PROVE  (Durable(journal)' => journal'.tx # t) /\ (Durable(KeptIntent)' => KeptIntent'.tx # t)
        BY <1>3, <2>2
  <2> QED BY <2>1, <2>2 DEF ToldOK
<1>9. ShownOK'
      BY <1>3, <1>4 DEF ShownOK
<1>10. FailedFaithful'
      BY <1>1, <1>2, <1>3, FailedStay DEF Good
<1>11. MissedIntent'
      BY <1>3 DEF Good, MissedIntent
<1> QED BY <1>3, <1>6, <1>7, <1>8, <1>9, <1>10, <1>11 DEF Good, Core

\* The files and what the disk keeps of them do not depend on the intent.
LEMMA SameFiles ==
    ASSUME TypeOK, UNCHANGED <<slot, dslot, missed, plan, txs>>
    PROVE  /\ Mix(0) /\ PlansStand /\ \A x : Kept(x)' = Kept(x)
           /\ Selected' = Selected /\ KeptSelected' = KeptSelected
<1>1. \A x : Kept(x)' = Kept(x)
      BY DEF Kept
<1>2. Mix(0)
      BY <1>1 DEF Mix, Like
<1>3. Selected' = Selected /\ KeptSelected' = KeptSelected
      BY <1>1 DEF Selected, KeptSelected
<1> QED BY <1>1, <1>2, <1>3, SamePlans

LEMMA UnlinkJournalStep ==
    ASSUME IInv, UnlinkJournal
    PROVE  IInv'
<1>1. /\ Shape /\ Place /\ journal' = None /\ Goto("unlinked") /\ call.at \in {"finish", "clean"}
      /\ UNCHANGED <<waiting, slot, dslot, djournal, lock, failed, seen, plan, txs, told, shown, missed, lost, refused, faults>>
      BY ShapeParts DEF IInv, UnlinkJournal, notes, At
<1>2. /\ call' \in Calls /\ call'.at = "unlinked" /\ call'.op = call.op /\ call'.tx = call.tx
      /\ call'.gen = call.gen
      BY <1>1, CallGoes, PlaceNames, ShapeParts DEF TypeWriters
<1>3. WritersOK'
      BY <1>1, <1>2, StayWriters, ShapeParts
<1>4. Place'
      BY <1>1, <1>2 DEF Place, At, Installing
<1>5. KeptIntent' \in {None, KeptIntent}
      BY <1>1 DEF KeptIntent
<1>6. TypeOK /\ Mix(0) /\ PlansStand /\ Selected' = Selected /\ KeptSelected' = KeptSelected
      BY <1>1, SameFiles, ShapeParts
<1>7. ~Durable(journal') /\ ~Durable(journal)'
      BY <1>1 DEF Durable
<1>8. ASSUME Good
      PROVE  /\ RootOK' /\ Progress'
             /\ \A t \in shown : t \in plan[Selected].line /\ t \in plan[KeptSelected].line
  <2>1. CASE call.at = "finish"
    <3>1. Durable(journal) /\ KeptIntent = journal
          BY <1>1, <2>1 DEF Place, Installing
    <3>2. IsIntent(journal) /\ Faithful(journal) /\ InProgress(journal)
          BY <1>1, <1>8, <3>1, ReplayingNow
    <3>3. /\ journal.tx \in 0..txs /\ journal.tx \in Tx /\ journal.tx # 0
          /\ Entries(journal) \subseteq Dests
          BY <1>6, <3>2, FaithfulFacts, IntentFacts
    <3>4. \A x \in Entries(journal) : Finished(journal, x)
          BY <1>8, <2>1 DEF Good, Progress, At
    <3>5. Settled(journal.tx)
          BY <1>6, <3>2, <3>4, FinishedSettled
    <3>6. Selected = journal.tx /\ KeptSelected = journal.tx
          BY <1>6, <3>3, <3>5, SettledSelected
    <3>7. PICK u, i : i = journal /\ u = journal.tx
          OBVIOUS
    <3>8. Settled(u)' /\ u \in 0..txs'
          BY <1>1, <1>6, <3>3, <3>5, <3>7, MixSettled
    <3>9. \A x \in Entries(i) : Done(i, x)'
          BY <1>6, <3>3, <3>4, <3>7, MixDone DEF Finished
    <3>10. RootOK'
      <4>1. CASE KeptIntent' = None
        <5>1. ~Durable(KeptIntent)'
              BY <4>1 DEF Durable
        <5>2. Settled(Selected)'
              BY <1>6, <3>6, <3>7, <3>8
        <5>3. Selected' \in 0..txs'
              BY <1>6, <3>6, <3>7, <3>8
        <5> QED BY <1>1, <1>7, <4>1, <5>1, <5>2, <5>3 DEF Resting, RootOK
      <4>2. CASE KeptIntent' = KeptIntent
        <5>1. KeptIntent' = i /\ KeptIntent'.tx = u
              BY <3>1, <3>7, <4>2
        <5>2. Settled(KeptIntent.tx)' /\ Durable(KeptIntent)'
              BY <3>1, <3>8, <4>2, <5>1
        <5>3. \A x \in Entries(KeptIntent)' : Done(KeptIntent, x)'
              BY <3>9, <5>1 DEF Entries
        <5> QED BY <1>1, <1>7, <5>2, <5>3 DEF Unlinking, RootOK
      <4> QED BY <1>5, <4>1, <4>2
    <3>11. call'.tx # 0 => Settled(call.tx)'
      <4>1. ASSUME call.tx # 0 PROVE call.tx = u
        <5>1. journal = AsDurable(failed[lock]) /\ failed[lock] # None /\ failed[lock].tx = call.tx /\ lock \in Writers
              BY <1>1, <2>1, <4>1, ShapeParts, Held DEF Place, Installing
        <5> QED BY <1>6, <3>7, <5>1, IntentTypes, DurableFacts
      <4>2. call'.tx # 0 => call'.tx = u
            BY <1>2, <4>1
      <4> QED BY <3>8, <4>2
    <3>12. Progress'
          BY <1>2, <3>11 DEF Progress, At, Installing
    <3>13. journal.tx \in plan[journal.tx].line
          BY <1>8, <3>3 DEF Good, Core, Lines, LineOf
    <3>14. \A t \in shown : t \in plan[Selected].line /\ t \in plan[KeptSelected].line
          BY <1>8, <3>6, <3>13 DEF Good, Core, ShownOK
    <3> QED BY <3>10, <3>12, <3>14
  <2>2. CASE call.at = "clean"
    <3>1. ~Durable(journal) /\ call.tx = 0
          BY <1>1, <2>2 DEF Place, Durable
    <3>2. Unlinking \/ Resting
          BY <1>8, <3>1 DEF Good, Core, RootOK, Replaying, Switching
    <3>3. RootOK'
      <4>1. CASE Unlinking
        <5>1. /\ KeptIntent.tx \in 0..txs /\ IsIntent(KeptIntent) /\ Faithful(KeptIntent)
              /\ Selected = KeptIntent.tx /\ Settled(KeptIntent.tx) /\ Durable(KeptIntent)
              /\ \A x \in Entries(KeptIntent) : Done(KeptIntent, x)
              BY <1>6, <1>8, <4>1, RestingHead DEF Good, Core, Unlinking
        <5>2. PICK u, i : i = KeptIntent /\ u = KeptIntent.tx
              OBVIOUS
        <5>3. Settled(u)' /\ u \in 0..txs'
              BY <1>1, <1>6, <5>1, <5>2, MixSettled
        <5>4. \A x \in Entries(i) : Done(i, x)'
              BY <1>6, <5>1, <5>2, IntentFacts, FaithfulFacts, MixDone
        <5>5. CASE KeptIntent' = None
          <6>1. ~Durable(KeptIntent)'
                BY <5>5 DEF Durable
          <6>2. Settled(Selected)' /\ Selected' \in 0..txs'
                BY <1>6, <5>1, <5>2, <5>3
          <6> QED BY <1>1, <1>7, <5>5, <6>1, <6>2 DEF Resting, RootOK
        <5>6. CASE KeptIntent' = KeptIntent
          <6>1. KeptIntent' = i /\ KeptIntent'.tx = u /\ Durable(KeptIntent)'
                BY <5>1, <5>2, <5>6
          <6>2. Settled(KeptIntent.tx)'
                BY <5>3, <6>1
          <6>3. \A x \in Entries(KeptIntent)' : Done(KeptIntent, x)'
                BY <5>4, <6>1 DEF Entries
          <6> QED BY <1>1, <1>7, <6>1, <6>2, <6>3 DEF Unlinking, RootOK
        <5> QED BY <1>5, <5>5, <5>6
      <4>2. CASE Resting
        <5>1. PICK u : u = Selected
              OBVIOUS
        <5>2. Settled(u)' /\ u \in 0..txs' /\ Selected' = u
              BY <1>1, <1>6, <4>2, <5>1, MixSettled DEF Resting
        <5>3. Settled(Selected)' /\ Selected' \in 0..txs'
              BY <5>2
        <5>4. ~Durable(KeptIntent)'
              BY <1>5, <4>2 DEF Resting, Durable
        <5>5. KeptIntent' # None => From(KeptIntent)' = Selected'
              BY <1>5, <1>6, <4>2 DEF Resting, From, SelectedOf
        <5> QED BY <1>1, <1>7, <5>3, <5>4, <5>5 DEF Resting, RootOK
      <4> QED BY <3>2, <4>1, <4>2
    <3>4. Progress'
          BY <1>2, <3>1 DEF Progress, At, Installing
    <3>5. \A t \in shown : t \in plan[Selected].line /\ t \in plan[KeptSelected].line
          BY <1>8, <3>1 DEF Good, Core, ShownOK
    <3> QED BY <3>3, <3>4, <3>5
  <2> QED BY <1>1, <2>1, <2>2
<1>9. ASSUME Good
      PROVE  /\ \A i \in {journal', KeptIntent'} : i # None => Faithful(i)
             /\ \A i \in {journal', KeptIntent'} : Durable(i) => told[i.tx] # "not committed"
  <2>1. KeptIntent' # None => Faithful(KeptIntent')
        BY <1>5, <1>9 DEF Good, Core, IntentsFaithful
  <2>2. ASSUME Durable(KeptIntent') PROVE told[KeptIntent'.tx] # "not committed"
    <3>1. KeptIntent' = KeptIntent /\ Durable(KeptIntent)
          BY <1>5, <2>2 DEF Durable
    <3>2. KeptIntent.tx \in Tx
          BY <1>6, <3>1, IntentTypes, IntentFacts DEF Durable
    <3> QED BY <1>9, <3>1, <3>2 DEF Good, Core, ToldOK
  <2> QED BY <1>1, <1>7, <2>1, <2>2
<1> QED BY <1>1, <1>3, <1>4, <1>8, <1>9, IntentInvariant

LEMMA PublishPreparingStep ==
    ASSUME IInv, NEW w \in Writers, PublishPreparing(w)
    PROVE  IInv'
<1>1. /\ Shape /\ Place /\ lock = w /\ call.at = "publish" /\ journal' = failed[w] /\ Goto("prepared")
      /\ UNCHANGED <<waiting, slot, dslot, djournal, lock, failed, seen, plan, txs, told, shown, missed, lost, refused, faults>>
      BY ShapeParts DEF IInv, PublishPreparing, notes, At
<1>2. /\ call' \in Calls /\ call'.at = "prepared" /\ call'.op = call.op /\ call'.tx = call.tx
      /\ call'.gen = call.gen
      BY <1>1, CallGoes, PlaceNames, ShapeParts DEF TypeWriters
<1>3. WritersOK'
      BY <1>1, <1>2, StayWriters, ShapeParts
<1>4. /\ call.tx # 0 /\ journal = None /\ failed[w] # None /\ failed[w].tx = call.tx
      /\ call.op = "commit" /\ call.gen = failed[w].prior
      BY <1>1 DEF Place
<1>5. Place'
      BY <1>1, <1>2, <1>4 DEF Place, At, Installing
<1>6. IsIntent(failed[w]) /\ failed[w].state = "preparing" /\ ~Durable(failed[w])
      BY <1>1, <1>4, IntentTypes, ShapeParts DEF FailedOK, Durable
<1>7. \/ KeptIntent' = KeptIntent
      \/ KeptIntent' = failed[w] /\ KeptIntent = None
      BY <1>1, <1>4 DEF KeptIntent
<1>8. TypeOK /\ Mix(0) /\ PlansStand /\ Selected' = Selected /\ KeptSelected' = KeptSelected
      BY <1>1, SameFiles, ShapeParts
<1>9. PICK f : f = failed[w]
      OBVIOUS
<1>10. ~Durable(journal) /\ ~Durable(journal)'
      BY <1>1, <1>4, <1>6 DEF Durable
<1>11. ASSUME Good
      PROVE  /\ RootOK' /\ Progress'
             /\ \A i \in {journal', KeptIntent'} : i # None => Faithful(i)
             /\ \A i \in {journal', KeptIntent'} : Durable(i) => told[i.tx] # "not committed"
             /\ \A t \in shown : t \in plan[Selected].line /\ t \in plan[KeptSelected].line
  <2>1. Faithful(f) /\ Untouched(f)
        BY <1>1, <1>4, <1>9, <1>11 DEF Good, FailedFaithful, Progress
  <2>2. From(f) \in 0..txs /\ From(f) \in Tx /\ f.tx # 0
        BY <1>8, <2>1, FaithfulFacts
  <2>3. Settled(From(f)) /\ Selected = From(f)
        BY <1>8, <2>1, <2>2, SettledSelected DEF Untouched
  <2>4. Untouched(f)'
        BY <1>6, <1>8, <1>9, <2>1, <2>2, MixUntouched
  <2>5. Progress'
    <3>1. failed'[lock'] = f
          BY <1>1, <1>9
    <3>2. Untouched(failed[lock])'
          BY <2>4, <3>1
    <3> QED BY <1>2, <3>2 DEF Progress, At, Installing
  <2>6. PICK u : u = From(f)
        OBVIOUS
  <2>7. Settled(u)' /\ Selected' = u /\ u \in 0..txs' /\ From(journal)' = u /\ journal' = f
        BY <1>1, <1>8, <1>9, <2>2, <2>3, <2>6, MixSettled DEF From, SelectedOf
  <2>8. Unlinking \/ Resting
        BY <1>10, <1>11 DEF Good, Core, RootOK, Replaying, Switching
  <2>9. RootOK'
    <3>1. CASE Unlinking
      <4>1. /\ KeptIntent.tx \in 0..txs /\ IsIntent(KeptIntent) /\ Faithful(KeptIntent)
            /\ Selected = KeptIntent.tx /\ Durable(KeptIntent) /\ KeptIntent # None
            /\ \A x \in Entries(KeptIntent) : Done(KeptIntent, x)
            BY <1>8, <1>11, <3>1, RestingHead, IntentFacts DEF Good, Core, Unlinking
      <4>2. KeptIntent' = KeptIntent /\ KeptIntent.tx # f.tx
            BY <1>1, <1>4, <1>7, <1>9, <1>11, <4>1 DEF Good, Progress, At
      <4>3. PICK i : i = KeptIntent
            OBVIOUS
      <4>4. \A x \in Entries(i) : Done(i, x)'
            BY <1>8, <4>1, <4>3, IntentFacts, FaithfulFacts, MixDone
      <4>5. \A x \in Entries(KeptIntent)' : Done(KeptIntent, x)'
            BY <4>2, <4>3, <4>4 DEF Entries
      <4>6. KeptIntent'.tx = u /\ Durable(KeptIntent)'
            BY <2>3, <2>6, <4>1, <4>2
      <4>7. Settled(KeptIntent.tx)'
            BY <2>7, <4>6
      <4>8. journal'.tx # KeptIntent'.tx /\ From(journal)' = KeptIntent'.tx
            BY <2>7, <4>2, <4>6
      <4> QED BY <1>10, <4>5, <4>6, <4>7, <4>8 DEF Unlinking, RootOK
    <3>2. CASE Resting
      <4>1. Settled(Selected)' /\ Selected' \in 0..txs'
            BY <2>7
      <4>2. ~Durable(KeptIntent)'
            BY <1>6, <1>7, <3>2 DEF Resting, Durable
      <4>3. KeptIntent' # None => From(KeptIntent)' = Selected'
        <5>1. CASE KeptIntent' = KeptIntent
          <6>1. KeptIntent # None => From(KeptIntent) = Selected
                BY <3>2 DEF Resting
          <6>2. PICK k : k = KeptIntent
                OBVIOUS
          <6>3. From(k)' = From(k)
                BY DEF From, SelectedOf
          <6> QED BY <1>8, <5>1, <6>1, <6>2, <6>3
        <5>2. CASE KeptIntent' = failed[w]
              BY <1>1, <2>7, <5>2
        <5> QED BY <1>7, <5>1, <5>2
      <4> QED BY <1>10, <2>7, <4>1, <4>2, <4>3 DEF Resting, RootOK
    <3> QED BY <2>8, <3>1, <3>2
  <2>10. \A i \in {journal', KeptIntent'} : i # None => Faithful(i)
        BY <1>1, <1>7, <1>9, <1>11, <2>1 DEF Good, Core, IntentsFaithful
  <2>11. ASSUME Durable(KeptIntent') PROVE told[KeptIntent'.tx] # "not committed"
    <3>1. KeptIntent' = KeptIntent /\ Durable(KeptIntent)
          BY <1>6, <1>7, <2>11
    <3>2. KeptIntent.tx \in Tx
          BY <1>8, <3>1, IntentTypes, IntentFacts DEF Durable
    <3> QED BY <1>11, <3>1, <3>2 DEF Good, Core, ToldOK
  <2>12. \A i \in {journal', KeptIntent'} : Durable(i) => told[i.tx] # "not committed"
        BY <1>1, <1>6, <2>11
  <2>13. \A t \in shown : t \in plan[Selected].line /\ t \in plan[KeptSelected].line
        BY <1>10, <1>11 DEF Good, Core, ShownOK
  <2> QED BY <2>5, <2>9, <2>10, <2>12, <2>13
<1> QED BY <1>1, <1>3, <1>5, <1>6, <1>11, IntentInvariant

LEMMA PublishDurableStep ==
    ASSUME IInv, NEW w \in Writers, PublishDurable(w)
    PROVE  IInv'
<1>1. PICK f, j : f = failed[w] /\ j = AsDurable(failed[w])
      OBVIOUS
<1>2. /\ Shape /\ Place /\ lock = w /\ call.at = "keep" /\ journal' = j /\ Goto("switched")
      /\ UNCHANGED <<waiting, slot, dslot, djournal, lock, failed, seen, plan, txs, told, shown, missed, lost, refused, faults>>
      BY <1>1, ShapeParts DEF IInv, PublishDurable, notes, At, AsDurable
<1>3. /\ call' \in Calls /\ call'.at = "switched" /\ call'.op = call.op /\ call'.tx = call.tx
      /\ call'.gen = call.gen
      BY <1>2, CallGoes, PlaceNames, ShapeParts DEF TypeWriters
<1>4. WritersOK'
      BY <1>2, <1>3, StayWriters, ShapeParts
<1>5. /\ call.tx # 0 /\ journal = f /\ KeptIntent = f /\ f # None /\ f.tx = call.tx
      /\ call.op = "commit" /\ call.gen = f.prior
      BY <1>1, <1>2 DEF Place, At
<1>6. Place'
  <2>1. journal' = AsDurable(failed'[lock'])
        BY <1>1, <1>2
  <2> QED BY <1>1, <1>2, <1>3, <1>5, <2>1 DEF Place, At, Installing, AsDurable
<1>7. /\ IsIntent(f) /\ f.state = "preparing" /\ ~Durable(f) /\ told[f.tx] = "nothing"
      BY <1>1, <1>2, <1>5, IntentTypes, ShapeParts DEF FailedOK, Durable
<1>8. IsIntent(j) /\ Durable(j) /\ j.tx = f.tx /\ j = AsDurable(f)
      BY <1>1, <1>7, DurableFacts
<1>9. KeptIntent' \in {j, f}
      BY <1>2, <1>5 DEF KeptIntent
<1>10. TypeOK /\ Mix(0) /\ PlansStand
      BY <1>2, SameFiles, ShapeParts
<1>11. ASSUME Good
      PROVE  /\ RootOK' /\ Progress'
             /\ \A i \in {journal', KeptIntent'} : i # None => Faithful(i)
             /\ \A i \in {journal', KeptIntent'} : Durable(i) => told[i.tx] # "not committed"
             /\ \A t \in shown : t \in plan[Selected].line /\ t \in plan[KeptSelected].line
  <2>1. Faithful(f) /\ Untouched(f)
        BY <1>1, <1>2, <1>5, <1>11 DEF Good, FailedFaithful, Progress
  <2>2. Faithful(j) /\ Untouched(j) /\ j.tx # 0
        BY <1>7, <1>8, <1>10, <2>1, DurableSame, FaithfulFacts
  <2>3. Untouched(j)' /\ InProgress(j)'
        BY <1>8, <1>10, <2>2, MixUntouched, UntouchedInProgress, MixInProgress
  <2>4. RootOK'
    <3>1. Durable(journal)'
          BY <1>2, <1>8
    <3>2. CASE KeptIntent' = j
      <4>1. KeptIntent' = journal' /\ InProgress(journal)'
            BY <1>2, <2>3, <3>2
      <4> QED BY <3>1, <4>1 DEF Replaying, RootOK
    <3>3. CASE KeptIntent' = f
      <4>1. KeptIntent' # None /\ ~Durable(KeptIntent)' /\ Untouched(journal)' /\ journal' = AsDurable(KeptIntent')
            BY <1>2, <1>5, <1>7, <1>8, <2>3, <3>3
      <4>2. journal' = AsDurable(KeptIntent)'
            BY <4>1 DEF AsDurable
      <4> QED BY <3>1, <4>1, <4>2 DEF Switching, RootOK
    <3> QED BY <1>9, <3>2, <3>3
  <2>5. Progress'
        BY <1>3 DEF Progress, At, Installing
  <2>6. \A i \in {journal', KeptIntent'} : i # None => Faithful(i)
        BY <1>2, <1>9, <2>1, <2>2
  <2>7. \A i \in {journal', KeptIntent'} : Durable(i) => told[i.tx] # "not committed"
        BY <1>2, <1>7, <1>8, <1>9
  <2>8. \A t \in shown : t \in plan[Selected].line /\ t \in plan[KeptSelected].line
        BY <1>5, <1>7, <1>11 DEF Good, Core, ShownOK
  <2> QED BY <2>4, <2>5, <2>6, <2>7, <2>8
<1> QED BY <1>2, <1>4, <1>6, <1>8, <1>11, IntentInvariant

\* While an intent is replayed, what the callers were told and what was shown fits
\* its transaction as well as the one before it.
LEMMA ReplayedHeads ==
    ASSUME Shape, Good, Durable(journal), KeptIntent = journal
    PROVE  /\ journal.tx \in 0..txs
           /\ \A t \in Tx : ToldAt(t, journal.tx)
           /\ \A t \in plan[Selected].line : t \in plan[journal.tx].line
<1>1. TypeOK /\ IsIntent(journal) /\ Faithful(journal) /\ InProgress(journal)
      BY ReplayingNow DEF Shape
<1>2. Selected \in {From(journal), journal.tx}
      BY <1>1, ProgressSelected
<1>3. plan[journal.tx].line = plan[From(journal)].line \cup {journal.tx}
      BY <1>1 DEF Faithful
<1>4. \A t \in plan[Selected].line : t \in plan[journal.tx].line
      BY <1>2, <1>3
<1>5. ASSUME NEW t \in Tx PROVE ToldAt(t, journal.tx)
  <2>1. ToldAt(t, Selected) /\ (told[t] = "not committed" => journal.tx # t)
        BY DEF Good, Core, ToldOK
  <2>2. CASE Selected = journal.tx
        BY <2>1, <2>2
  <2>3. CASE Selected # journal.tx
    <3>1. plan[journal.tx].line = plan[Selected].line \cup {journal.tx}
          BY <1>2, <1>3, <2>3
    <3> QED BY <2>1, <3>1 DEF ToldAt
  <2> QED BY <2>2, <2>3
<1> QED BY <1>1, <1>4, <1>5, FaithfulFacts

\* What is left to show of a step that carries the replay forward.
LEMMA ReplayInvariant ==
    ASSUME IInv, call.at \in Installing,
           UNCHANGED <<journal, djournal, failed, plan, txs, told, lost, refused, faults>>,
           missed' \subseteq missed \cup Dests, Journal \in missed' <=> Journal \in missed,
           shown' \in {shown, shown \cup {journal.tx}},
           TypeDisk', Bounded', WritersOK', Place',
           Good => /\ InProgress(journal)' /\ Progress'
                   /\ Selected' \in {Selected, KeptSelected, journal.tx}
                   /\ KeptSelected' \in {Selected, KeptSelected, journal.tx}
    PROVE  IInv'
<1>1. Shape /\ Place /\ TypeOK /\ Durable(journal) /\ KeptIntent = journal
      BY ShapeParts DEF IInv, Place
<1>2. IsIntent(journal) /\ journal.tx \in Tx
      BY <1>1, IntentTypes, IntentFacts DEF Durable
<1>3. TypeNotes' /\ TypeFaults' /\ ToldStaged'
      BY <1>1, <1>2, ShapeParts DEF TypeNotes, TypeFaults, ToldStaged
<1>4. Shape'
      BY <1>3, NextShape
<1> SUFFICES ASSUME lost' = {} PROVE Good'
    BY <1>4 DEF IInv
<1>5. Good /\ Core
      BY DEF IInv, Good
<1>6. PlansStand /\ TypeOK'
      BY <1>1, <1>4, SamePlans DEF Shape
<1>7. KeptIntent' = journal' /\ Durable(journal)'
      BY <1>1 DEF KeptIntent
<1>8. Lines' /\ FailedFaithful' /\ MissedIntent'
      BY <1>1, <1>4, <1>5, <1>6, SameLines, FailedStay DEF Good, Core, MissedIntent
<1>9. Faithful(journal)'
      BY <1>1, <1>2, <1>5, <1>6, FaithfulStays, IntentFacts DEF Core, IntentsFaithful
<1>10. IntentsFaithful'
      BY <1>7, <1>9 DEF IntentsFaithful
<1>11. RootOK'
      BY <1>5, <1>7 DEF Replaying, RootOK
<1>12. /\ journal.tx \in 0..txs /\ Selected \in 0..txs /\ KeptSelected \in 0..txs
       /\ \A t \in Tx : ToldAt(t, journal.tx)
       /\ \A t \in plan[Selected].line : t \in plan[journal.tx].line
      BY <1>1, <1>5, ReplayedHeads, Heads DEF Core
<1>13. ToldOK'
  <2>1. ASSUME NEW t \in Tx PROVE ToldAt(t, Selected)' /\ ToldAt(t, KeptSelected)'
    <3>1. \A s \in {Selected, KeptSelected, journal.tx} : ToldAt(t, s) /\ s \in 0..txs
          BY <1>5, <1>12 DEF Core, ToldOK
    <3>2. \A s \in {Selected, KeptSelected, journal.tx} : ToldAt(t, s)'
          BY <1>1, <1>5, <1>6, <3>1, ToldAtStays, ShapeParts DEF Core
    <3> QED BY <1>5, <3>2
  <2>2. ASSUME NEW t \in Tx, told'[t] = "not committed"
        PROVE  (Durable(journal)' => journal'.tx # t) /\ (Durable(KeptIntent)' => KeptIntent'.tx # t)
        BY <1>1, <1>5, <1>7, <2>2 DEF Core, ToldOK
  <2> QED BY <2>1, <2>2 DEF ToldOK
<1>14. ShownOK'
  <2> SUFFICES ASSUME NEW t \in shown'
               PROVE  \/ t \in plan'[Selected'].line /\ t \in plan'[KeptSelected'].line
                      \/ Durable(journal)' /\ KeptIntent' = journal' /\ t = journal'.tx
      BY DEF ShownOK
  <2>1. CASE t = journal.tx
        BY <1>7, <2>1
  <2>2. CASE t # journal.tx
    <3>1. t \in shown
      <4>1. CASE shown' = shown
            BY <4>1
      <4>2. CASE shown' = shown \cup {journal.tx}
            BY <2>2, <4>2
      <4> QED BY <4>1, <4>2
    <3>2. t \in plan[Selected].line /\ t \in plan[KeptSelected].line
          BY <1>5, <2>2, <3>1 DEF Core, ShownOK
    <3>3. \A s \in {Selected, KeptSelected, journal.tx} : t \in plan[s].line
          BY <1>12, <3>2
    <3> QED BY <1>5, <3>3
  <2> QED BY <2>1, <2>2
<1> QED BY <1>5, <1>8, <1>10, <1>11, <1>13, <1>14 DEF Good, Core

\* A step that changes one destination.
Only(z) == \A y \in Dests : y # z => slot'[y] = slot[y] /\ Kept(y)' = Kept(y)

LEMMA OnlyFinished ==
    ASSUME NEW z, Only(z), NEW i, IsIntent(i), NEW y \in Entries(i), y # z,
           y \in DOMAIN i.moves => i.moves[y] # z, Finished(i, y)
    PROVE  Finished(i, y)'
<1>1. y \in Dests /\ (y \in DOMAIN i.moves => i.moves[y] \in Dests)
      BY IntentFacts DEF Dests
<1>2. Done(i, y)'
      BY <1>1 DEF Only, Finished, Done
<1>3. y \in DOMAIN i.moves => Retired(i, y)'
      BY <1>1 DEF Only, Finished, Retired
<1> QED BY <1>2, <1>3 DEF Finished

LEMMA RetireStep ==
    ASSUME IInv, Retire
    PROVE  IInv'
<1>1. PICK x, s, i : x = call.x /\ s = journal.moves[call.x] /\ i = journal
      OBVIOUS
<1>2. /\ Shape /\ Place /\ call.at = "retire" /\ Goto("retired") /\ call.at \in Installing
      /\ slot' = [slot EXCEPT ![s].file = Absent]
      /\ UNCHANGED <<waiting, dslot, journal, djournal, lock, failed, seen, plan, txs, told, shown, missed, lost, refused, faults>>
      BY <1>1, ShapeParts DEF IInv, Retire, notes, At, Installing
<1>3. /\ call' \in Calls /\ call'.at = "retired" /\ call'.op = call.op /\ call'.tx = call.tx
      /\ call'.gen = call.gen /\ call'.left = call.left /\ call'.x = x
      BY <1>1, <1>2, CallGoes, PlaceNames, ShapeParts DEF TypeWriters
<1>4. WritersOK'
      BY <1>2, <1>3, StayWriters, ShapeParts
<1>5. /\ Durable(i) /\ KeptIntent = i /\ call.left \subseteq Entries(i) \ {Authority, x}
      /\ x \in Entries(i) /\ x \in DOMAIN i.moves /\ s = i.moves[x]
      BY <1>1, <1>2 DEF Place
<1>6. KeptIntent' = KeptIntent
      BY <1>2 DEF KeptIntent
<1>7. Place'
      BY <1>1, <1>2, <1>3, <1>6 DEF Place, At, Installing
<1>8. /\ IsIntent(i) /\ TypeOK
      BY <1>1, <1>2, <1>5, IntentTypes, ShapeParts DEF Durable
<1>9. s \in Data /\ s \in Dests /\ s \notin Entries(i) /\ s # Authority /\ x # s
  <2>1. s \in Data /\ s \notin Entries(i)
        BY <1>5, <1>8, IntentFacts
  <2> QED BY <1>5, <2>1, RewriteAssumption DEF Dests
<1>10. /\ slot'[s] \in Slots /\ slot'[s].file = Absent
       /\ \A y \in Dests : y # s => slot'[y] = slot[y]
       /\ slot' \in [Dests -> Slots]
  <2>1. slot \in [Dests -> Slots] /\ slot[s] \in Slots
        BY <1>2, <1>9, ShapeParts, SlotFacts DEF TypeDisk
  <2>2. PICK c : c = slot[s]
        OBVIOUS
  <2>3. LET e == [c EXCEPT !.file = Absent] IN e \in Slots /\ e.file = Absent
        BY <2>1, <2>2, SMT DEF Slots, Files
  <2>4. slot' = [slot EXCEPT ![s] = [slot[s] EXCEPT !.file = Absent]]
        BY <1>2
  <2> QED BY <1>9, <2>1, <2>2, <2>3, <2>4
<1>11. Only(s) /\ Kept(s)' \in {slot'[s], Kept(s)}
      BY <1>2, <1>10, KeptStays DEF Only
<1>12. TypeDisk' /\ Bounded'
  <2>1. slot'[Authority] = slot[Authority]
        BY <1>9, <1>10 DEF Dests
  <2> QED BY <1>2, <1>10, <2>1, ShapeParts DEF TypeDisk, Bounded
<1>13. Selected' = Selected /\ KeptSelected' = KeptSelected
  <2>1. slot'[Authority] = slot[Authority] /\ Kept(Authority)' = Kept(Authority)
        BY <1>9, <1>11 DEF Dests, Only
  <2> QED BY <2>1 DEF Selected, KeptSelected
<1>14. ASSUME Good PROVE InProgress(i)' /\ Progress'
  <2>1. Faithful(i) /\ InProgress(i)
        BY <1>1, <1>2, <1>5, <1>14, ReplayingNow
  <2>2. /\ Done(i, x)
        /\ \A y \in Entries(i) \ ({Authority, x} \cup call.left) : Finished(i, y)
        BY <1>1, <1>2, <1>14 DEF Good, Progress, Behind, Installing
  <2>3. Done(i, x)'
        BY <1>5, <1>8, <1>9, <1>11, <2>2, IntentFacts DEF Only, Done
  <2>4. \A y \in Entries(i) : slot'[y] = slot[y] /\ Kept(y)' = Kept(y)
        BY <1>8, <1>9, <1>11, IntentFacts DEF Only
  <2>5. ASSUME NEW y \in Entries(i), y # x, Finished(i, y) PROVE Finished(i, y)'
    <3>1. y # s /\ (y \in DOMAIN i.moves => i.moves[y] # s)
          BY <1>5, <1>8, <1>9, <2>5, IntentFacts
    <3> QED BY <1>8, <1>11, <2>5, <3>1, OnlyFinished
  <2>6. From(i) \in 0..txs /\ i.tx \in 0..txs /\ PlansStand
        BY <1>2, <1>8, <2>1, FaithfulFacts, SamePlans
  <2>7. \A y : Content(From(i), y)' = Content(From(i), y) /\ Content(i.tx, y)' = Content(i.tx, y)
        BY <2>6, ContentStays
  <2>8. \A y \in Entries(i) : EntryOK(i, y, slot[y])' /\ EntryOK(i, y, Kept(y))'
        BY <2>1, <2>4, <2>7 DEF InProgress, EntryOK
  <2>9. ASSUME NEW y \in Dests \ Entries(i)
        PROVE  /\ slot'[y].file \in {Content(From(i), y)', Content(i.tx, y)'}
               /\ Kept(y)'.file \in {Content(From(i), y)', Content(i.tx, y)'}
    <3>1. /\ slot[y].file \in {Content(From(i), y), Content(i.tx, y)}
          /\ Kept(y).file \in {Content(From(i), y), Content(i.tx, y)}
          BY <2>1 DEF InProgress
    <3>2. CASE y = s
      <4>1. Content(i.tx, s) = Absent
            BY <1>5, <2>1 DEF Faithful
      <4> QED BY <1>10, <1>11, <2>7, <3>1, <3>2, <4>1
    <3>3. CASE y # s
          BY <1>11, <2>7, <3>1, <3>3 DEF Only
    <3> QED BY <3>2, <3>3
  <2>10. ASSUME NEW d \in DOMAIN i.moves, slot'[i.moves[d]].file = Absent \/ Kept(i.moves[d])'.file = Absent
         PROVE  Done(i, d)'
    <3>1. CASE d = x
          BY <2>3, <3>1
    <3>2. CASE d # x
      <4>1. i.moves[d] # s /\ i.moves[d] \in Dests /\ d \in Entries(i)
            BY <1>5, <1>8, <3>2, IntentFacts DEF Dests
      <4>2. slot[i.moves[d]].file = Absent \/ Kept(i.moves[d]).file = Absent
            BY <1>11, <2>10, <4>1 DEF Only
      <4>3. Done(i, d)
            BY <2>1, <4>2 DEF InProgress
      <4> QED BY <2>4, <4>1, <4>3 DEF Done
    <3> QED BY <3>1, <3>2
  <2>11. ASSUME i.tx \notin slot'[Authority].temp \/ i.tx \notin Kept(Authority)'.temp PROVE Completed(i)'
    <3>1. Completed(i)
          BY <1>8, <2>1, <2>4, <2>11, IntentFacts DEF InProgress
    <3>2. ASSUME x # Authority PROVE Finished(i, x)'
      <4>1. Kept(s).file = Absent
            BY <1>5, <3>1, <3>2 DEF Completed, Finished, Retired
      <4>2. Retired(i, x)'
            BY <1>5, <1>10, <1>11, <4>1 DEF Retired
      <4> QED BY <2>3, <4>2 DEF Finished
    <3> QED BY <2>5, <3>1, <3>2 DEF Completed
  <2>12. InProgress(i)'
        BY <2>8, <2>9, <2>10, <2>11 DEF InProgress
  <2>13. Progress'
    <3>1. journal' = i /\ Behind' = {x} /\ Entries(journal)' = Entries(i)
          BY <1>1, <1>2, <1>3 DEF Behind, Entries
    <3>2. \A y \in Entries(i) \ ({Authority, x} \cup call.left) : Finished(i, y)'
          BY <2>2, <2>5
    <3>3. \A y \in Entries(journal)' \ ({Authority} \cup Behind' \cup call'.left) : Finished(journal, y)'
          BY <1>3, <3>1, <3>2
    <3>4. Done(journal, call.x)'
          BY <1>3, <2>3, <3>1
    <3>5. slot'[journal'.moves[call'.x]].file = Absent
          BY <1>3, <1>5, <1>10, <3>1
    <3> QED BY <1>3, <3>3, <3>4, <3>5 DEF Progress, At, Installing
  <2> QED BY <2>12, <2>13
<1>15. Good => InProgress(journal)' /\ Progress'
      BY <1>1, <1>2, <1>14
<1>16. missed' \subseteq missed \cup Dests /\ (Journal \in missed' <=> Journal \in missed)
      BY <1>2
<1> QED BY <1>2, <1>4, <1>7, <1>12, <1>13, <1>15, <1>16, ReplayInvariant

LEMMA InstallFacts ==
    ASSUME IInv, NEW x \in Dests, Install(x)
    PROVE  /\ Shape /\ TypeOK /\ Place /\ call.at = "install" /\ call.at \in Installing
           /\ UNCHANGED <<waiting, dslot, journal, djournal, lock, failed, seen, plan, txs, told, lost, refused, faults>>
           /\ shown' \in {shown, shown \cup {journal.tx}}
           /\ AfterInstall(x) \in {"installed", "retire", "finish", "install"}
           /\ call' \in Calls /\ call'.at = AfterInstall(x) /\ call'.op = call.op /\ call'.tx = call.tx
           /\ call'.gen = call.gen /\ call'.left = call.left \ {x} /\ call'.x = x
           /\ WritersOK'
           /\ IsIntent(journal) /\ Durable(journal) /\ KeptIntent = journal
           /\ call.left \subseteq Entries(journal) \ {Authority} /\ x \in Entries(journal)
           /\ x = Authority <=> call.left = {}
           /\ x = Authority => x \notin DOMAIN journal.moves
<1>1. /\ Shape /\ TypeOK /\ Place /\ call.at = "install" /\ call.at \in Installing
      /\ UNCHANGED <<waiting, dslot, journal, djournal, lock, failed, seen, plan, txs, told, lost, refused, faults>>
      /\ shown' \in {shown, shown \cup {journal.tx}} /\ x \in NextEntries
      BY ShapeParts DEF IInv, Install, At, Installing
<1>2. AfterInstall(x) \in {"installed", "retire", "finish", "install"}
      BY DEF AfterInstall
<1>3. call' = EntryCall(call, call.left \ {x}, x, AfterInstall(x))
      BY DEF Install, EntryCall
<1>4. AfterInstall(x) \in Places /\ AfterInstall(x) # "idle"
      BY <1>2, PlaceNames
<1>5. /\ call' \in Calls /\ call'.at = AfterInstall(x) /\ call'.op = call.op /\ call'.tx = call.tx
      /\ call'.gen = call.gen /\ call'.left = call.left \ {x} /\ call'.x = x
  <2>1. PICK p : p = AfterInstall(x)
        OBVIOUS
  <2>2. p \in Places /\ call \in Calls /\ call' = EntryCall(call, call.left \ {x}, x, p)
        BY <1>1, <1>3, <1>4, <2>1, ShapeParts DEF TypeWriters
  <2>3. /\ call' \in Calls /\ call'.at = p /\ call'.op = call.op /\ call'.tx = call.tx
        /\ call'.gen = call.gen /\ call'.left = call.left \ {x} /\ call'.x = x
        BY <2>2, CallEnters
  <2> QED BY <2>1, <2>3
<1>6. WritersOK'
      BY <1>1, <1>4, <1>5, StayWriters, ShapeParts
<1>7. /\ Durable(journal) /\ KeptIntent = journal /\ call.left \subseteq Entries(journal) \ {Authority}
      BY <1>1 DEF Place, At
<1>8. IsIntent(journal)
      BY <1>1, <1>7, IntentTypes DEF Durable
<1>9. x \in Entries(journal) /\ (x = Authority <=> call.left = {})
      BY <1>1, <1>7, <1>8, IntentFacts DEF NextEntries
<1>10. x = Authority => x \notin DOMAIN journal.moves
      BY <1>8, IntentFacts, RewriteAssumption
<1> QED BY <1>1, <1>2, <1>5, <1>6, <1>7, <1>8, <1>9, <1>10

LEMMA InstallPlace ==
    ASSUME IInv, NEW x \in Dests, Install(x), KeptIntent' = KeptIntent
    PROVE  Place'
<1>1. journal' = journal /\ Entries(journal)' = Entries(journal) /\ lock' = lock /\ failed' = failed
      BY InstallFacts DEF Entries
<1>2. Durable(journal)' /\ KeptIntent' = journal'
      BY <1>1, InstallFacts
<1>3. call'.at \in {"installed", "retire", "finish", "install"}
      BY InstallFacts
<1>4. /\ call'.left \subseteq Entries(journal)' \ {Authority, call'.x} /\ call'.x \in Entries(journal)'
      /\ call'.left \subseteq Entries(journal)' \ {Authority}
  <2>1. /\ call'.left = call.left \ {x} /\ call'.x = x
        /\ call.left \subseteq Entries(journal) \ {Authority} /\ x \in Entries(journal)
        BY InstallFacts
  <2> QED BY <1>1, <2>1
<1>5. call'.x = Authority => call'.left = {}
      BY InstallFacts
<1>6. ASSUME call'.at = "retire" PROVE call'.x \in DOMAIN journal'.moves
  <2>1. AfterInstall(x) = "retire" /\ call'.x = x
        BY <1>6, InstallFacts
  <2> QED BY <1>1, <2>1 DEF AfterInstall
<1>7. ASSUME call'.tx # 0
      PROVE  /\ call'.op = "commit" /\ failed'[lock'] # None /\ failed'[lock'].tx = call'.tx
             /\ call'.gen = failed'[lock'].prior /\ journal' = AsDurable(failed'[lock'])
  <2>1. call.tx # 0 /\ call.at \in Installing /\ Place
        BY <1>7, InstallFacts
  <2>2. /\ call.op = "commit" /\ failed[lock] # None /\ failed[lock].tx = call.tx
        /\ call.gen = failed[lock].prior /\ journal = AsDurable(failed[lock])
        BY <2>1 DEF Place
  <2> QED BY <1>1, <2>2, InstallFacts
<1> QED BY <1>2, <1>3, <1>4, <1>5, <1>6, <1>7 DEF Place, At, Installing, AsDurable

\* An entry that was found installed.
LEMMA PassesOverStep ==
    ASSUME IInv, NEW x \in Dests, Install(x), PassesOver(x)
    PROVE  IInv'
<1>1. PICK i : i = journal
      OBVIOUS
<1>2. /\ i.tx \notin slot[x].temp /\ slot' = slot /\ dslot' = dslot /\ journal' = i
      /\ missed' = IF slot[x] = dslot[x] THEN missed ELSE missed \cup {x}
      BY <1>1, InstallFacts DEF PassesOver
<1>3. x # Journal
      BY RewriteAssumption
<1>4. missed' \subseteq missed \cup Dests /\ (Journal \in missed' <=> Journal \in missed)
      BY <1>2, <1>3
<1>5. KeptIntent' = KeptIntent
      BY <1>4, InstallFacts DEF KeptIntent
<1>6. Kept(x)' = slot[x] /\ \A y \in Dests : y # x => Kept(y)' = Kept(y)
      BY <1>2 DEF Kept
<1>7. Place'
      BY <1>5, InstallPlace
<1>8. Mix(0)
      BY <1>2, <1>6 DEF Mix, Like
<1>9. Selected' = Selected /\ KeptSelected' \in {Selected, KeptSelected}
      BY <1>2, <1>8, MixHeads DEF Selected
<1>10. TypeDisk' /\ Bounded'
      BY <1>2, InstallFacts, ShapeParts DEF TypeDisk, Bounded
<1>11. ASSUME Good PROVE InProgress(i)' /\ Progress'
  <2>1. Faithful(i) /\ InProgress(i) /\ IsIntent(i) /\ TypeOK
        BY <1>1, <1>11, ReplayingNow, InstallFacts
  <2>2. i.tx # 0 /\ PlansStand
        BY <2>1, FaithfulFacts, InstallFacts, SamePlans
  <2>3. InProgress(i)'
        BY <1>8, <2>1, <2>2, MixInProgress
  <2>4. Done(i, x)'
        BY <1>2, <1>6 DEF Done
  <2>5. ASSUME NEW y \in Entries(i), y \notin {Authority} \cup call.left PROVE Finished(i, y)'
    <3>1. call.at = "install"
          BY InstallFacts
    <3>2. Finished(i, y)
          BY <1>1, <1>11, <2>5, <3>1 DEF Good, Progress, Behind, Installing
    <3>3. y \in Dests
          BY <2>1, IntentFacts
    <3> QED BY <1>8, <2>1, <2>2, <3>2, <3>3, MixFinished
  <2>6. x \notin DOMAIN i.moves => Finished(i, x)'
        BY <2>4 DEF Finished
  <2>7. Entries(journal)' = Entries(i)
        BY <1>2 DEF Entries
  <2>8. /\ call'.left = call.left \ {x} /\ call'.x = x /\ call'.at = AfterInstall(x)
        /\ x = Authority <=> call.left = {}
        BY InstallFacts
  <2>9. CASE x \in DOMAIN i.moves
    <3>1. call'.at = "retire"
          BY <1>1, <1>2, <2>8, <2>9 DEF AfterInstall
    <3>2. Behind' = {x}
          BY <2>8, <3>1 DEF Behind
    <3>3. \A y \in Entries(journal)' \ ({Authority} \cup Behind' \cup call'.left) : Finished(journal, y)'
          BY <1>2, <2>5, <2>7, <2>8, <3>2
    <3>4. Done(journal, call.x)'
          BY <1>2, <2>4, <2>8
    <3> QED BY <2>3, <3>1, <3>3, <3>4 DEF Progress, At, Installing
  <2>10. CASE x \notin DOMAIN i.moves /\ x = Authority
    <3>1. call'.at = "finish"
          BY <1>1, <1>2, <2>8, <2>10 DEF AfterInstall
    <3>2. \A y \in Entries(journal)' : Finished(journal, y)'
          BY <1>2, <2>5, <2>6, <2>7, <2>8, <2>10
    <3> QED BY <2>3, <3>1, <3>2 DEF Progress, At, Installing
  <2>11. CASE x \notin DOMAIN i.moves /\ x # Authority
    <3>1. call'.at = "install"
          BY <1>1, <1>2, <2>8, <2>11 DEF AfterInstall
    <3>2. \A y \in Entries(journal)' \ ({Authority} \cup Behind' \cup call'.left) : Finished(journal, y)'
          BY <1>2, <2>5, <2>6, <2>7, <2>8, <2>11
    <3> QED BY <2>3, <3>1, <3>2 DEF Progress, At, Installing
  <2> QED BY <2>9, <2>10, <2>11
<1>12. Good => InProgress(journal)' /\ Progress'
      BY <1>2, <1>11
<1>13. UNCHANGED <<journal, djournal, failed, plan, txs, told, lost, refused, faults>>
      BY InstallFacts
<1> QED BY <1>4, <1>7, <1>9, <1>10, <1>12, <1>13, InstallFacts, ReplayInvariant

\* An entry that is renamed now.
LEMMA RenamesStep ==
    ASSUME IInv, NEW x \in Dests, Install(x), Renames(x)
    PROVE  IInv'
<1>1. PICK i : i = journal
      OBVIOUS
<1>2. /\ i.tx \in slot[x].temp /\ missed' = missed /\ dslot' = dslot /\ journal' = i
      /\ slot' = [slot EXCEPT ![x] = [file |-> Installed(i, x), temp |-> slot[x].temp \ {i.tx}]]
      BY <1>1, InstallFacts DEF Renames
<1>3. /\ IsIntent(i) /\ Durable(i) /\ KeptIntent = i /\ x \in Entries(i) /\ TypeOK /\ TypeDisk /\ Bounded
      /\ (x = Authority <=> call.left = {}) /\ call.left \subseteq Entries(i) \ {Authority}
      /\ call.at = "install" /\ call'.left = call.left \ {x} /\ call'.x = x
      BY <1>1, InstallFacts, ShapeParts
<1>4. call'.at = "installed"
      BY <1>1, <1>2, InstallFacts DEF AfterInstall
<1>5. Installed(i, x) \in [tx : Tx, body : Nat] /\ Installed(i, x).body = i.body[x] /\ Installed(i, x).tx = i.tx
  <2>1. i.tx \in Tx /\ i.body[x] \in Nat
        BY <1>3, IntentFacts
  <2>2. PICK t, b : t = i.tx /\ b = i.body[x]
        OBVIOUS
  <2>3. LET e == [tx |-> t, body |-> b] IN e \in [tx : Tx, body : Nat] /\ e.tx = t /\ e.body = b
        BY <2>1, <2>2, SMT
  <2> QED BY <2>2, <2>3 DEF Installed
<1>6. /\ slot'[x] \in Slots /\ slot'[x].file = Installed(i, x) /\ i.tx \notin slot'[x].temp
      /\ \A y \in Dests : y # x => slot'[y] = slot[y]
      /\ slot' \in [Dests -> Slots]
  <2>1. slot \in [Dests -> Slots] /\ slot[x].temp \subseteq Tx
        BY <1>3, SlotFacts DEF TypeDisk
  <2>2. PICK f, c : f = Installed(i, x) /\ c = slot[x].temp \ {i.tx}
        OBVIOUS
  <2>3. f \in Files /\ c \in SUBSET Tx /\ i.tx \notin c
        BY <1>5, <2>1, <2>2 DEF Files
  <2>4. LET e == [file |-> f, temp |-> c] IN e \in Slots /\ e.file = f /\ e.temp = c
        BY <2>3, SMT DEF Slots
  <2> QED BY <1>2, <2>1, <2>2, <2>3, <2>4
<1>7. Only(x) /\ Kept(x)' \in {slot'[x], Kept(x)}
      BY <1>2, <1>6, KeptStays DEF Only
<1>8. KeptIntent' = KeptIntent
      BY <1>2, InstallFacts DEF KeptIntent
<1>9. Place'
      BY <1>8, InstallPlace
<1>10. TypeDisk'
      BY <1>2, <1>3, <1>6, InstallFacts DEF TypeDisk
<1>11. Bounded'
  <2>1. CASE x = Authority
    <3>1. slot'[Authority].file.body = i.next /\ i.next <= MaxGeneration
          BY <1>3, <1>5, <1>6, <2>1, IntentFacts
    <3> QED BY <1>2, <1>3, <3>1 DEF Bounded
  <2>2. CASE x # Authority
    <3>1. slot'[Authority] = slot[Authority]
          BY <1>6, <2>2 DEF Dests
    <3> QED BY <1>2, <1>3, <3>1 DEF Bounded
  <2> QED BY <2>1, <2>2
<1>12. ASSUME Good
      PROVE  /\ InProgress(i)' /\ Progress'
             /\ Selected' \in {Selected, KeptSelected, i.tx}
             /\ KeptSelected' \in {Selected, KeptSelected, i.tx}
  <2>1. Faithful(i) /\ InProgress(i)
        BY <1>1, <1>3, <1>12, ReplayingNow, InstallFacts
  <2>2. From(i) \in 0..txs /\ i.tx \in 0..txs /\ i.tx \in Tx /\ PlansStand
        BY <1>3, <2>1, FaithfulFacts, SamePlans, InstallFacts
  <2>3. \A y : Content(From(i), y)' = Content(From(i), y) /\ Content(i.tx, y)' = Content(i.tx, y)
        BY <2>2, ContentStays
  <2>4. slot'[x].file = Content(i.tx, x)
        BY <1>3, <1>6, <2>1 DEF Faithful
  <2>5. ASSUME NEW y \in Entries(i), y # x, Finished(i, y) PROVE Finished(i, y)'
    <3>1. y \in DOMAIN i.moves => i.moves[y] # x
          BY <1>3, IntentFacts
    <3> QED BY <1>3, <1>7, <2>5, <3>1, OnlyFinished
  <2>6. \A y \in Entries(i) \ ({Authority} \cup call.left) : Finished(i, y)
        BY <1>1, <1>3, <1>12 DEF Good, Progress, Behind, Installing
  <2>7. ASSUME NEW y \in Entries(i) PROVE EntryOK(i, y, slot[y])' /\ EntryOK(i, y, Kept(y))'
    <3>1. EntryOK(i, y, slot[y]) /\ EntryOK(i, y, Kept(y)) /\ y \in Dests
          BY <1>3, <2>1, IntentFacts DEF InProgress
    <3>2. CASE y # x
      <4>1. slot'[y] = slot[y] /\ Kept(y)' = Kept(y)
            BY <1>7, <3>1, <3>2 DEF Only
      <4> QED BY <2>3, <3>1, <4>1 DEF EntryOK
    <3>3. CASE y = x
      <4>1. EntryOK(i, y, slot[y])'
            BY <1>6, <2>3, <2>4, <3>3 DEF EntryOK
      <4>2. CASE Kept(x)' = slot'[x]
            BY <3>3, <4>1, <4>2 DEF EntryOK
      <4>3. CASE Kept(x)' = Kept(x)
            BY <2>3, <3>1, <3>3, <4>1, <4>3 DEF EntryOK
      <4> QED BY <1>7, <4>2, <4>3
    <3> QED BY <3>2, <3>3
  <2>8. ASSUME NEW y \in Dests \ Entries(i)
        PROVE  /\ slot'[y].file \in {Content(From(i), y)', Content(i.tx, y)'}
               /\ Kept(y)'.file \in {Content(From(i), y)', Content(i.tx, y)'}
    <3>1. y # x
          BY <1>3
    <3> QED BY <1>7, <2>1, <2>3, <3>1 DEF InProgress, Only
  <2>9. ASSUME NEW d \in DOMAIN i.moves, slot'[i.moves[d]].file = Absent \/ Kept(i.moves[d])'.file = Absent
        PROVE  Done(i, d)'
    <3>1. i.moves[d] # x /\ i.moves[d] \in Dests /\ d \in Dests
          BY <1>3, IntentFacts DEF Dests
    <3>2. slot[i.moves[d]].file = Absent \/ Kept(i.moves[d]).file = Absent
          BY <1>7, <2>9, <3>1 DEF Only
    <3>3. Done(i, d)
          BY <2>1, <3>2 DEF InProgress
    <3>4. d # x
          BY <1>2, <3>3 DEF Done
    <3> QED BY <1>7, <3>1, <3>3, <3>4 DEF Only, Done
  <2>10. ASSUME i.tx \notin slot'[Authority].temp \/ i.tx \notin Kept(Authority)'.temp PROVE Completed(i)'
    <3>1. CASE x = Authority
      <4>1. call.left = {}
            BY <1>3, <3>1
      <4> QED BY <2>5, <2>6, <3>1, <4>1 DEF Completed
    <3>2. CASE x # Authority
      <4>1. i.tx \notin slot[Authority].temp \/ i.tx \notin Kept(Authority).temp
            BY <1>7, <2>10, <3>2 DEF Only, Dests
      <4>2. Finished(i, x)
            BY <1>3, <2>1, <3>2, <4>1 DEF InProgress, Completed
      <4> QED BY <1>2, <4>2 DEF Finished, Done
    <3> QED BY <3>1, <3>2
  <2>11. InProgress(i)'
        BY <2>7, <2>8, <2>9, <2>10 DEF InProgress
  <2>12. Progress'
    <3>1. Behind' = {x} /\ Entries(journal)' = Entries(i)
          BY <1>2, <1>3, <1>4 DEF Behind, Entries
    <3>2. \A y \in Entries(i) \ ({Authority, x} \cup call.left) : Finished(i, y)'
          BY <2>5, <2>6
    <3>3. \A y \in Entries(journal)' \ ({Authority} \cup Behind' \cup call'.left) : Finished(journal, y)'
          BY <1>2, <1>3, <3>1, <3>2
    <3>4. journal'.tx \notin slot'[call'.x].temp
          BY <1>2, <1>3, <1>6
    <3> QED BY <1>4, <3>3, <3>4 DEF Progress, At, Installing
  <2>13. Selected' \in {Selected, KeptSelected, i.tx} /\ KeptSelected' \in {Selected, KeptSelected, i.tx}
    <3>1. CASE x # Authority
          BY <1>7, <3>1 DEF Only, Dests, Selected, KeptSelected
    <3>2. CASE x = Authority
      <4>1. slot'[Authority].file = AuthorityOf(i.tx)
            BY <2>4, <3>2 DEF Content
      <4>2. SelectedOf(slot'[Authority].file) = i.tx
            BY <1>3, <2>2, <4>1, AuthorityOfSelected
      <4>3. Selected' = i.tx
            BY <4>2 DEF Selected, SelectedOf
      <4>4. KeptSelected' = SelectedOf(Kept(Authority)'.file)
            BY DEF KeptSelected, SelectedOf
      <4>5. KeptSelected' \in {i.tx, KeptSelected}
            BY <1>7, <3>2, <4>2, <4>4 DEF KeptSelected
      <4> QED BY <4>3, <4>5
    <3> QED BY <3>1, <3>2
  <2> QED BY <2>11, <2>12, <2>13
<1>13. Good => /\ InProgress(journal)' /\ Progress'
               /\ Selected' \in {Selected, KeptSelected, journal.tx}
               /\ KeptSelected' \in {Selected, KeptSelected, journal.tx}
      BY <1>1, <1>2, <1>12
<1>14. UNCHANGED <<journal, djournal, failed, plan, txs, told, lost, refused, faults>>
      BY InstallFacts
<1>15. missed' \subseteq missed \cup Dests /\ (Journal \in missed' <=> Journal \in missed)
      BY <1>2
<1> QED BY <1>9, <1>10, <1>11, <1>13, <1>14, <1>15, InstallFacts, ReplayInvariant

LEMMA InstallStep ==
    ASSUME IInv, NEW x \in Dests, Install(x)
    PROVE  IInv'
<1>1. Renames(x) \/ PassesOver(x)
      BY DEF Install
<1> QED BY <1>1, RenamesStep, PassesOverStep

===============================================================================
