------------------------- MODULE DurableRewriteProofs -------------------------
(***************************************************************************)
(* Proofs about DurableRewrite, for any writers, destinations, directories *)
(* and batches, and any bounds on transactions, faults and generations.    *)
(*                                                                         *)
(* IInv of DurableRewriteInvariant is inductive: the steps that answer a   *)
(* writer and the one that stages a transaction are here, the others       *)
(* there.  Every property then follows from IInv in one state, and         *)
(* WriteAhead from IInv and the files that an action may touch.            *)
(***************************************************************************)
EXTENDS DurableRewriteInvariant

\* Most leaves are first-order; those that need arithmetic or records name SMT.
USE ZenonT(20)

-----------------------------------------------------------------------------
(* The calls that return an answer to their writer.                           *)

\* The answer a about transaction t fits the root if s is the selected transaction.
Fits(t, a, s) ==
    /\ a = "ok" => t \in plan[s].line
    /\ a = "not committed" => t \notin plan[s].line
    /\ a = "committed" =>
        \/ t \in plan[s].line
        \/ /\ plan[t].files[Receipt] # [tx |-> t, body |-> t]
           /\ \E u \in plan[s].line : plan[u].bump = 1 /\ plan[u].gen = plan[t].gen

\* What is left to show of a call that returns with an answer.
LEMMA AnswerInvariant ==
    ASSUME IInv, NEW w \in Writers, lock = w, failed[w] # None, NEW t, t = failed[w].tx,
           NEW a \in Answers \ {"nothing"}, told' = [told EXCEPT ![t] = a],
           failed' = [failed EXCEPT ![w] = None], Return,
           UNCHANGED <<disk, waiting, seen, plan, txs, shown, missed, lost, refused, faults>>,
           Good => /\ Fits(t, a, Selected) /\ Fits(t, a, KeptSelected)
                   /\ a = "not committed" => /\ Durable(journal) => journal.tx # t
                                             /\ Durable(KeptIntent) => KeptIntent.tx # t
    PROVE  IInv'
<1>1. Shape /\ TypeOK /\ Place /\ FailedOK /\ ToldStaged /\ told \in [Tx -> Answers]
      BY ShapeParts DEF IInv, TypeNotes
<1>2. t \in 1..txs /\ t \in Tx
  <2>1. t \in 1..txs
        BY <1>1 DEF FailedOK
  <2>2. t \in Tx
        BY <1>1, IntentTypes, IntentFacts
  <2> QED BY <2>1, <2>2
<1>3. /\ told' \in [Tx -> Answers] /\ told'[t] = a
      /\ \A u \in Tx : u # t => told'[u] = told[u]
      BY <1>1, <1>2
<1>4. /\ failed' = [v \in Writers |-> failed'[v]] /\ failed'[w] = None
      /\ \A v \in Writers : v # w => failed'[v] = failed[v]
  <2>1. failed = [v \in Writers |-> failed[v]]
        BY <1>1, FailedFunction, ShapeParts
  <2> QED BY <2>1
<1>5. WritersOK' /\ Place'
  <2>1. \A v \in Writers : failed'[v] = None \/ (failed'[v] = failed[v] /\ failed[v].prior # failed[v].next)
    <3>1. \A v \in Writers : v # w => failed[v] = None \/ failed[v].prior # failed[v].next
          BY <1>1 DEF FailedOK
    <3> QED BY <1>4, <3>1
  <2>2. ASSUME NEW v \in Writers, failed'[v] # None PROVE told'[failed[v].tx] = "nothing"
    <3>1. v # w /\ failed[v] # None
          BY <1>4, <2>2
    <3>2. failed[v].tx # t /\ told[failed[v].tx] = "nothing"
          BY <1>1, <3>1 DEF FailedOK
    <3>3. failed[v].tx \in Tx
          BY <1>1, <3>1, IntentTypes, IntentFacts
    <3> QED BY <1>3, <3>2, <3>3
  <2>3. /\ waiting' \in [Writers -> Operations \cup {"none"}] /\ seen' \in [Writers -> [Sources -> Files] \cup {None}]
        /\ waiting' = waiting
        BY <1>1, ShapeParts DEF TypeWriters
  <2>4. \A v \in Writers : waiting'[v] = "none" \/ (waiting'[v] = waiting[v] /\ (v # lock => failed'[v] = failed[v]))
        BY <1>4, <2>3
  <2> QED BY <1>1, <1>4, <2>1, <2>2, <2>3, <2>4, LeaveWriters, ShapeParts
<1>6. TypeDisk' /\ Bounded' /\ Mix(0) /\ JournalsMix /\ KeptIntent' = KeptIntent /\ (MissedIntent => MissedIntent')
      BY <1>1, QuietEffect, ShapeParts
<1>7. TypeNotes' /\ TypeFaults'
      BY <1>1, <1>3, ShapeParts DEF TypeNotes, TypeFaults
<1>8. ToldStaged'
      BY <1>1, <1>2, <1>3 DEF ToldStaged
<1>9. Shape'
      BY <1>5, <1>6, <1>7, <1>8, NextShape
<1> SUFFICES ASSUME lost' = {} PROVE Good'
    BY <1>9 DEF IInv
<1>10. Good /\ Core
      BY DEF IInv, Good
<1>11. Mixes(0)
      BY <1>1, <1>6, <1>9, <1>10, SamePlans, ZeroTx DEF Mixes, Core, Shape
<1>12. Lines' /\ IntentsFaithful' /\ RootOK' /\ ShownOK'
      BY <1>10, <1>11, SameLines, MixIntents, MixRoot, MixShown DEF Core, Mixes
<1>13. Selected' = Selected /\ KeptSelected' = KeptSelected /\ journal' = journal
      BY DEF disk, Selected, KeptSelected, Kept
<1>14. ToldOK'
  <2>1. ASSUME NEW u \in Tx PROVE ToldAt(u, Selected)' /\ ToldAt(u, KeptSelected)'
    <3>1. CASE u = t
      <4>1. \A s \in {Selected, KeptSelected} : Fits(t, a, s)
            BY <1>10
      <4>2. ASSUME NEW s \in {Selected, KeptSelected} PROVE ToldAt(t, s)'
            BY <1>3, <4>1 DEF Fits, ToldAt
      <4> QED BY <1>13, <3>1, <4>2
    <3>2. CASE u # t
      <4>1. \A s \in {Selected, KeptSelected} : ToldAt(u, s)
            BY <1>10 DEF Core, ToldOK
      <4>2. ASSUME NEW s \in {Selected, KeptSelected} PROVE ToldAt(u, s)'
            BY <1>3, <3>2, <4>1 DEF ToldAt
      <4> QED BY <1>13, <4>2
    <3> QED BY <3>1, <3>2
  <2>2. ASSUME NEW u \in Tx, told'[u] = "not committed"
        PROVE  (Durable(journal) => journal.tx # u) /\ (Durable(KeptIntent) => KeptIntent.tx # u)
    <3>1. CASE u = t
          BY <1>3, <1>10, <2>2, <3>1
    <3>2. CASE u # t
          BY <1>3, <1>10, <2>2, <3>2 DEF Core, ToldOK
    <3> QED BY <3>1, <3>2
  <2>3. ASSUME NEW u \in Tx, told'[u] = "not committed"
        PROVE  (Durable(journal)' => journal'.tx # u) /\ (Durable(KeptIntent)' => KeptIntent'.tx # u)
        BY <1>6, <1>13, <2>2, <2>3
  <2> QED BY <2>1, <2>3 DEF ToldOK
<1>15. FailedFaithful'
      BY <1>1, <1>4, <1>9, <1>10, FailedStay DEF Good
<1>16. Progress'
      BY IdleProgress DEF Return
<1> QED BY <1>6, <1>10, <1>12, <1>14, <1>15, <1>16 DEF Good, Core

LEMMA CommitReturnsStep ==
    ASSUME IInv, NEW w \in Writers, CommitReturns(w)
    PROVE  IInv'
<1>1. PICK t : t = call.tx
      OBVIOUS
<1>2. /\ Shape /\ TypeOK /\ Place /\ lock = w /\ call.at = "replayed" /\ call.tx # 0
      /\ told' = [told EXCEPT ![t] = "ok"] /\ failed' = [failed EXCEPT ![w] = None] /\ Return
      /\ UNCHANGED <<disk, waiting, seen, plan, txs, shown, missed, lost, refused, faults>>
      BY <1>1, ShapeParts DEF IInv, CommitReturns, At
<1>3. failed[w] # None /\ failed[w].tx = t
      BY <1>1, <1>2 DEF Place
<1>4. "ok" \in Answers \ {"nothing"}
      BY DEF Answers
<1>5. ASSUME Good PROVE Fits(t, "ok", Selected) /\ Fits(t, "ok", KeptSelected)
  <2>1. Settled(t)
        BY <1>1, <1>2, <1>5 DEF Good, Progress
  <2>2. t \in 0..txs /\ t \in Tx
        BY <1>2, <1>3, <1>5, FaithfulFacts DEF Good, FailedFaithful
  <2>3. Selected = t /\ KeptSelected = t
        BY <1>2, <2>1, <2>2, SettledSelected
  <2>4. t \in plan[t].line
        BY <1>5, <2>2 DEF Good, Core, Lines, LineOf
  <2> QED BY <2>3, <2>4 DEF Fits
<1> QED BY <1>2, <1>3, <1>4, <1>5, AnswerInvariant

\* Between two transactions the files are those of the selected one.
LEMMA SettledRoot ==
    ASSUME Shape, Good, journal = None
    PROVE  /\ Selected \in 0..txs /\ Selected \in Tx /\ KeptSelected = Selected
           /\ Settled(Selected) /\ Generation = plan[Selected].gen /\ LineOf(Selected)
           /\ Durable(KeptIntent) => KeptIntent.tx = Selected
<1>1. TypeOK /\ Lines /\ IntentsFaithful /\ RootOK /\ 0..txs \subseteq Tx
      BY ShapeParts, RangeFacts DEF Good, Core
<1>2. ~Durable(journal)
      BY DEF Durable
<1>3. Unlinking \/ Resting
      BY <1>1, <1>2 DEF RootOK, Replaying, Switching
<1>4. CASE Unlinking
  <2>1. /\ KeptIntent.tx \in 0..txs /\ Selected = KeptIntent.tx /\ KeptSelected = KeptIntent.tx
        /\ Settled(KeptIntent.tx)
        BY <1>1, <1>4, RestingHead DEF Unlinking
  <2>2. Selected \in 0..txs /\ Selected \in Tx /\ KeptSelected = Selected /\ Settled(Selected)
        BY <1>1, <2>1
  <2>3. Generation = plan[Selected].gen
        BY <1>1, <2>2, SettledGeneration
  <2>4. LineOf(Selected)
        BY <1>1, <2>2 DEF Lines
  <2> QED BY <2>1, <2>2, <2>3, <2>4
<1>5. CASE Resting
  <2>1. Selected \in 0..txs /\ Selected \in Tx /\ Settled(Selected) /\ ~Durable(KeptIntent)
        BY <1>1, <1>5 DEF Resting
  <2>2. KeptSelected = Selected
        BY <1>1, <2>1, SettledSelected
  <2>3. Generation = plan[Selected].gen
        BY <1>1, <2>1, SettledGeneration
  <2>4. LineOf(Selected)
        BY <1>1, <2>1 DEF Lines
  <2> QED BY <2>1, <2>2, <2>3, <2>4
<1> QED BY <1>3, <1>4, <1>5

\* The generation, and the receipt where there is one, tell which of the two
\* happened to a transaction that was to advance the generation.
LEMMA OutcomeFits ==
    ASSUME Shape, Good, journal = None, NEW i, IsIntent(i), Faithful(i), i.prior # i.next
    PROVE  /\ Fits(i.tx, Outcome(i), Selected)
           /\ Outcome(i) = "not committed" => i.tx # Selected
<1>1. PICK s, t, f : s = Selected /\ t = i.tx /\ f = From(i)
      OBVIOUS
<1>2. /\ s \in 0..txs /\ s \in Tx /\ Settled(s) /\ Generation = plan[s].gen /\ LineOf(s)
      /\ TypeOK /\ Lines /\ s \in plan[s].line
      BY <1>1, SettledRoot, ShapeParts DEF Good, Core, LineOf
<1>3. t \in 0..txs /\ t \in Tx /\ f \in 0..(t - 1) /\ f \in 0..txs /\ f \in Tx
      BY <1>1, <1>2, FaithfulFacts DEF Faithful
<1>4. /\ i.prior = plan[f].gen /\ i.next = plan[t].gen /\ i.next = i.prior + plan[t].bump
      BY <1>1 DEF Faithful
<1>5. /\ plan[t].bump \in {0, 1} /\ plan[s].gen \in Nat /\ plan[t].gen \in Nat /\ i.prior \in Nat /\ i.next \in Nat
      BY <1>2, <1>3, PlanFacts, IntentFacts
<1>6. i.next = i.prior + 1 /\ plan[t].bump = 1
      BY <1>4, <1>5, SMT
<1>7. ASSUME Generation = i.prior PROVE t \notin plan[s].line
  <2>1. \A u \in plan[s].line : plan[u].gen <= plan[s].gen
        BY <1>2 DEF LineOf
  <2>2. ~(plan[t].gen <= plan[s].gen)
        BY <1>2, <1>4, <1>5, <1>6, <1>7, SMT
  <2> QED BY <2>1, <2>2
<1>8. ASSUME Generation = i.next
      PROVE  \E u \in plan[s].line : plan[u].bump = 1 /\ plan[u].gen = plan[t].gen
  <2>1. plan[t].gen \in 1..plan[s].gen
        BY <1>2, <1>4, <1>5, <1>6, <1>8, SMT
  <2> QED BY <1>2, <2>1 DEF LineOf
<1>9. ASSUME slot[Receipt].file # Absent, slot[Receipt].file.tx = t PROVE t \in plan[s].line
  <2>1. Receipt \in Data /\ Receipt \in Dests /\ Receipt # Authority
        BY RewriteAssumption DEF Dests
  <2>2. slot[Receipt].file = plan[s].files[Receipt]
        BY <1>2, <2>1 DEF Settled, Content
  <2> QED BY <1>2, <1>9, <2>1, <2>2 DEF LineOf
<1>10. ASSUME Receipt \notin Entries(i) PROVE plan[t].files[Receipt] # [tx |-> t, body |-> t]
  <2>1. Receipt \in Data /\ Receipt \in Dests /\ Receipt # Authority
        BY RewriteAssumption DEF Dests
  <2>2. Content(t, Receipt) = plan[t].files[Receipt] /\ Content(f, Receipt) = plan[f].files[Receipt]
        BY <2>1 DEF Content
  <2>3. plan[t].files[Receipt] \in {Absent, plan[f].files[Receipt]}
    <3>1. CASE \A d \in DOMAIN i.moves : i.moves[d] # Receipt
          BY <1>1, <1>10, <2>1, <2>2, <3>1 DEF Faithful
    <3>2. CASE \E d \in DOMAIN i.moves : i.moves[d] = Receipt
          BY <1>1, <2>2, <3>2 DEF Faithful
    <3> QED BY <3>1, <3>2
  <2>4. [tx |-> t, body |-> t] # Absent
    <3>1. t \in Nat
          BY <1>3, SMT DEF Tx
    <3>2. [tx |-> t, body |-> t] \in [tx : Tx, body : Nat]
          BY <1>3, <3>1, SMT
    <3> QED BY <3>2, RewriteAssumption
  <2>5. ASSUME plan[f].files[Receipt] = [tx |-> t, body |-> t] PROVE FALSE
    <3>1. plan[f].files[Receipt].tx = t
          BY <2>5, SMT
    <3>2. LineOf(f)
          BY <1>2, <1>3 DEF Lines
    <3>3. t \in plan[f].line /\ plan[f].line \subseteq 0..f
          BY <2>1, <2>4, <2>5, <3>1, <3>2 DEF LineOf
    <3>4. t \in 0..f
          BY <3>3
    <3> QED BY <1>3, <3>4, SMT DEF Tx
  <2> QED BY <2>3, <2>4, <2>5
<1>11. Outcome(i) \in {"committed", "not committed", "ambiguous"}
      BY DEF Outcome
<1>12. ASSUME Outcome(i) = "not committed" PROVE Generation = i.prior
      BY <1>12 DEF Outcome
<1>13. ASSUME Outcome(i) = "committed"
      PROVE  /\ Generation = i.next
             /\ Receipt \in Entries(i) => slot[Receipt].file # Absent /\ slot[Receipt].file.tx = t
      BY <1>1, <1>13 DEF Outcome
<1>14. CASE Outcome(i) = "not committed"
      BY <1>1, <1>2, <1>7, <1>12, <1>14 DEF Fits
<1>15. CASE Outcome(i) = "committed"
      BY <1>1, <1>8, <1>9, <1>10, <1>13, <1>15 DEF Fits
<1>16. CASE Outcome(i) = "ambiguous"
      BY <1>16 DEF Fits
<1> QED BY <1>11, <1>14, <1>15, <1>16

LEMMA ReconcileReturnsStep ==
    ASSUME IInv, NEW w \in Writers, ReconcileReturns(w)
    PROVE  IInv'
<1>1. PICK i, a : i = failed[w] /\ a = Outcome(i)
      OBVIOUS
<1>2. /\ Shape /\ TypeOK /\ Place /\ FailedOK /\ HolderOK
      /\ lock = w /\ call.at = "replayed" /\ call.op = "reconcile"
      /\ told' = [told EXCEPT ![i.tx] = a] /\ failed' = [failed EXCEPT ![w] = None] /\ Return
      /\ UNCHANGED <<disk, waiting, seen, plan, txs, shown, missed, lost, refused, faults>>
      BY <1>1, ShapeParts DEF IInv, ReconcileReturns, At
<1>3. failed[w] # None /\ IsIntent(i) /\ journal = None
  <2>1. lock # Nobody
        BY <1>2, RewriteAssumption
  <2>2. failed[w] # None
        BY <1>2, <2>1 DEF HolderOK
  <2> QED BY <1>1, <1>2, <2>2, IntentTypes DEF Place
<1>4. i.prior # i.next
      BY <1>1, <1>2, <1>3 DEF FailedOK
<1>5. a \in Answers \ {"nothing"}
      BY <1>1 DEF Answers, Outcome
<1>6. ASSUME Good
      PROVE  /\ Fits(i.tx, a, Selected) /\ Fits(i.tx, a, KeptSelected)
             /\ a = "not committed" => /\ Durable(journal) => journal.tx # i.tx
                                       /\ Durable(KeptIntent) => KeptIntent.tx # i.tx
  <2>1. Faithful(i)
        BY <1>1, <1>3, <1>6 DEF Good, FailedFaithful
  <2>2. KeptSelected = Selected /\ (Durable(KeptIntent) => KeptIntent.tx = Selected)
        BY <1>2, <1>3, <1>6, SettledRoot
  <2>3. Fits(i.tx, a, Selected) /\ (a = "not committed" => i.tx # Selected)
        BY <1>1, <1>2, <1>3, <1>4, <1>6, <2>1, OutcomeFits
  <2>4. ~Durable(journal)
        BY <1>3 DEF Durable
  <2> QED BY <2>2, <2>3, <2>4
<1>7. PICK t : t = i.tx /\ t = failed[w].tx
      BY <1>1
<1> QED BY <1>2, <1>3, <1>5, <1>6, <1>7, AnswerInvariant

-----------------------------------------------------------------------------
(* Stage                                                                   *)

Touched(b) == b.writes \cup DOMAIN b.moves

LEMMA BatchFacts ==
    ASSUME NEW b \in Batches
    PROVE  /\ b.writes \subseteq Data /\ b.bump \in {0, 1} /\ DOMAIN b.moves \subseteq Data
           /\ b.moves \in [DOMAIN b.moves -> Data] /\ Touched(b) \subseteq Data
           /\ \A d \in DOMAIN b.moves : d \notin b.writes /\ b.moves[d] \in Data /\ b.moves[d] \notin Touched(b)
           /\ \A d, e \in DOMAIN b.moves : b.moves[d] = b.moves[e] => d = e
<1>1. PICK M : M = DOMAIN b.moves
      OBVIOUS
<1>2. b \in [writes : SUBSET Data, moves : [M -> Data], bump : {0, 1}]
      BY <1>1, RewriteAssumption
<1>3. b.writes \subseteq Data /\ b.bump \in {0, 1} /\ b.moves \in [M -> Data]
      BY <1>2, SMT
<1>4. /\ DOMAIN b.moves \subseteq Data \ b.writes
      /\ \A d \in DOMAIN b.moves : b.moves[d] \in Data \ (b.writes \cup DOMAIN b.moves)
      /\ \A d, e \in DOMAIN b.moves : b.moves[d] = b.moves[e] => d = e
      BY RewriteAssumption
<1> QED BY <1>1, <1>3, <1>4 DEF Touched

\* The sources of the moves are there.
SourcesStand(b) == \A d \in DOMAIN b.moves : slot[b.moves[d]].file # Absent

LEMMA MovesHaveSources ==
    ASSUME NEW w \in Writers, NEW b \in Batches, MovesStand(w, b)
    PROVE  SourcesStand(b)
<1> SUFFICES ASSUME NEW d \in DOMAIN b.moves PROVE slot[b.moves[d]].file # Absent
    BY DEF SourcesStand
<1>1. b.moves # <<>>
  <2>1. PICK f : f = b.moves
        OBVIOUS
  <2>2. d \in DOMAIN f
        BY <2>1
  <2>3. f # <<>>
        BY <2>2, SMT
  <2> QED BY <2>1, <2>3
<1> QED BY <1>1 DEF MovesStand

\* The files a that the batch b leaves as transaction t.
Leaves(b, t, a) ==
    /\ a \in [Data -> Files]
    /\ \A x \in Touched(b) : /\ a[x].body \in Nat /\ a[x] # Absent /\ a[x].tx = t
                             /\ a[x] = [tx |-> t, body |-> a[x].body]
    /\ \A d \in DOMAIN b.moves : a[b.moves[d]] = Absent
    /\ \A x \in Data \ Touched(b) :
        (\A d \in DOMAIN b.moves : b.moves[d] # x) => a[x] = slot[x].file

LEMMA AfterFacts ==
    ASSUME TypeDisk, NEW b \in Batches, NEW t \in Tx, SourcesStand(b)
    PROVE  Leaves(b, t, After(b, t))
<1>1. PICK a : a = After(b, t)
      OBVIOUS
<1>2. t \in Nat
      BY RewriteAssumption, SMT DEF Tx
<1>3. \A n \in Nat : LET f == [tx |-> t, body |-> n] IN f \in [tx : Tx, body : Nat] /\ f.tx = t /\ f.body = n
      BY SMT
<1>4. \A n \in Nat : LET f == [tx |-> t, body |-> n] IN f # Absent /\ f \in Files /\ f.tx = t /\ f.body = n
      BY <1>3, RewriteAssumption DEF Files
<1>5. ASSUME NEW x \in Touched(b)
      PROVE  a[x].body \in Nat /\ a[x] # Absent /\ a[x].tx = t /\ a[x] = [tx |-> t, body |-> a[x].body] /\ a[x] \in Files
  <2>1. x \in Data
        BY BatchFacts
  <2>2. \E n \in Nat : a[x] = [tx |-> t, body |-> n]
    <3>1. CASE x \in b.writes
          BY <1>1, <1>2, <2>1, <3>1 DEF After
    <3>2. CASE x \notin b.writes
      <4>1. x \in DOMAIN b.moves
            BY <3>2 DEF Touched
      <4>2. a[x] = [tx |-> t, body |-> slot[b.moves[x]].file.body]
            BY <1>1, <2>1, <3>2, <4>1 DEF After
      <4>3. b.moves[x] \in Dests /\ slot[b.moves[x]].file # Absent
            BY <4>1, BatchFacts DEF SourcesStand, Dests
      <4>4. slot[b.moves[x]].file.body \in Nat
            BY <4>3, SlotFacts, FileFacts
      <4> QED BY <4>2, <4>4
    <3> QED BY <3>1, <3>2
  <2>3. PICK n \in Nat : a[x] = [tx |-> t, body |-> n]
        BY <2>2
  <2> QED BY <1>4, <2>3, SMT
<1>6. \A d \in DOMAIN b.moves : a[b.moves[d]] = Absent
      BY <1>1, BatchFacts DEF After, Touched
<1>7. ASSUME NEW x \in Data \ Touched(b), \A d \in DOMAIN b.moves : b.moves[d] # x PROVE a[x] = slot[x].file
      BY <1>1, <1>7 DEF After, Touched
<1>8. ASSUME NEW x \in Data PROVE a[x] \in Files
  <2>1. x \in Dests
        BY DEF Dests
  <2>2. CASE x \in Touched(b)
        BY <1>5, <2>2
  <2>3. CASE x \notin Touched(b) /\ \E d \in DOMAIN b.moves : b.moves[d] = x
        BY <1>6, <2>3 DEF Files
  <2>4. CASE x \notin Touched(b) /\ \A d \in DOMAIN b.moves : b.moves[d] # x
        BY <1>7, <2>1, <2>4, SlotFacts
  <2> QED BY <2>2, <2>3, <2>4
<1>9. a \in [Data -> Files]
  <2>1. a = [x \in Data |-> a[x]]
        BY <1>1 DEF After
  <2> QED BY <1>8, <2>1
<1>10. Leaves(b, t, a)
      BY <1>5, <1>6, <1>7, <1>9 DEF Leaves
<1> QED BY <1>1, <1>10

\* What a batch makes of the files that are visible is an intent.
LEMMA IntentStaged ==
    ASSUME TypeDisk, NEW b \in Batches, NEW t \in Tx, SourcesStand(b), Generation + b.bump <= MaxGeneration
    PROVE  LET i == Intent(b, t) IN
           /\ IsIntent(i) /\ i.state = "preparing" /\ i.tx = t
           /\ i.prior = Generation /\ i.next = Generation + b.bump /\ i.moves = b.moves
           /\ Entries(i) = Touched(b) \cup {Authority}
           /\ i.body[Authority] = i.next
           /\ \A x \in Touched(b) : i.body[x] = After(b, t)[x].body
           /\ \A x \in Entries(i) : i.old[x] = slot[x].file
           /\ \A d \in DOMAIN i.moves : i.source[d] = slot[i.moves[d]].file
<1>1. PICK i, g, a, E, M, n : /\ i = Intent(b, t) /\ g = Generation /\ a = After(b, t) /\ n = g + b.bump
                              /\ E = Touched(b) \cup {Authority} /\ M = DOMAIN b.moves
      OBVIOUS
<1>2. /\ b.moves \in [M -> Data] /\ M \subseteq Data /\ E \subseteq Dests /\ Authority \in E /\ M \subseteq E
      /\ b.bump \in {0, 1} /\ \A d \in M : b.moves[d] \in Data /\ b.moves[d] \notin E /\ b.moves[d] \in Dests
  <2>1. /\ b.moves \in [M -> Data] /\ M \subseteq Data /\ Touched(b) \subseteq Data /\ b.bump \in {0, 1}
        /\ \A d \in M : b.moves[d] \in Data /\ b.moves[d] \notin Touched(b)
        BY <1>1, BatchFacts
  <2>2. M \subseteq Touched(b)
        BY <1>1 DEF Touched
  <2>3. Authority \notin Data
        BY RewriteAssumption
  <2> QED BY <1>1, <2>1, <2>2, <2>3 DEF Dests
<1>3. g \in Nat /\ n \in Nat /\ n <= MaxGeneration
      BY <1>1, <1>2, GenerationFacts, SMT
<1> DEFINE body == [x \in E |-> IF x = Authority THEN n ELSE a[x].body]
           old == [x \in E |-> slot[x].file]
           source == [d \in M |-> slot[b.moves[d]].file]
<1>4. i = [state |-> "preparing", tx |-> t, prior |-> g, next |-> n,
           body |-> body, old |-> old, moves |-> b.moves, source |-> source]
      BY <1>1 DEF Intent, IntentFrom, Touched
<1>5. body \in [E -> Nat]
  <2>1. Leaves(b, t, a)
        BY <1>1, AfterFacts
  <2>2. \A x \in E : x # Authority => a[x].body \in Nat
        BY <1>1, <2>1 DEF Leaves
  <2> QED BY <1>3, <2>2
<1>6. old \in [E -> Files]
      BY <1>2, SlotFacts
<1>7. source \in [M -> Files]
      BY <1>2, SlotFacts
<1>8. /\ body[Authority] = n /\ \A x \in Touched(b) : body[x] = a[x].body
      BY <1>1, <1>2, BatchFacts, RewriteAssumption, SMT
<1>9. /\ DOMAIN body = E /\ DOMAIN source = M /\ \A x \in E : old[x] = slot[x].file
      /\ \A d \in M : source[d] = slot[b.moves[d]].file
      OBVIOUS
<1> HIDE DEF body, old, source
<1>10. /\ i \in Intents(E, M) /\ i.state = "preparing" /\ i.tx = t /\ i.prior = g /\ i.next = n
       /\ i.body = body /\ i.old = old /\ i.moves = b.moves /\ i.source = source
  <2>1. PICK m : m = b.moves
        OBVIOUS
  <2>2. m \in [M -> Data] /\ i = [state |-> "preparing", tx |-> t, prior |-> g, next |-> n,
           body |-> body, old |-> old, moves |-> m, source |-> source]
        BY <1>2, <1>4, <2>1
  <2> QED BY <1>3, <1>5, <1>6, <1>7, <2>1, <2>2, SMT DEF Intents
<1>11. IsIntent(i)
  <2>1. DOMAIN i.body = E /\ DOMAIN i.moves = M
        BY <1>1, <1>9, <1>10
  <2>2. i \in Intents(DOMAIN i.body, DOMAIN i.moves)
        BY <1>10, <2>1
  <2>3. i.body[Authority] = i.next /\ i.next <= MaxGeneration
        BY <1>3, <1>8, <1>10
  <2>4. \A d, e \in DOMAIN i.moves : i.moves[d] = i.moves[e] => d = e
        BY <1>10, BatchFacts
  <2> QED BY <1>2, <1>10, <2>1, <2>2, <2>3, <2>4 DEF IsIntent
<1> QED BY <1>1, <1>8, <1>9, <1>10, <1>11 DEF Entries

\* The temporaries of the entries E are made, and their directories flushed.
LEMMA StagedTemps ==
    ASSUME TypeDisk, Bounded, NEW t \in Tx, NEW E \in SUBSET Dests,
           slot' = [x \in Dests |-> IF x \in E THEN [slot[x] EXCEPT !.temp = @ \cup {t}] ELSE slot[x]],
           Flush({Parent[x] : x \in E}), journal' = journal
    PROVE  /\ Mix(t) /\ JournalsMix /\ TypeDisk' /\ Bounded' /\ (MissedIntent => MissedIntent')
           /\ KeptIntent' \in {journal, KeptIntent} /\ missed' \subseteq missed
           /\ \A x \in Dests : slot'[x].file = slot[x].file
           /\ \A x \in E : t \in slot'[x].temp /\ t \in Kept(x)'.temp
<1>1. PICK ds : ds = {Parent[x] : x \in E}
      OBVIOUS
<1>2. /\ dslot' = [x \in Dests |-> IF Parent[x] \in ds THEN slot'[x] ELSE dslot[x]]
      /\ djournal' = IF Root \in ds THEN journal ELSE djournal
      /\ missed' = {x \in missed : (IF x = Journal THEN Root ELSE Parent[x]) \notin ds}
      BY <1>1 DEF Flush
<1>3. \A x \in Dests : x # Journal
      BY RewriteAssumption
<1>4. ASSUME NEW x \in Dests
      PROVE  /\ slot'[x] \in Slots /\ Like(slot'[x], slot[x], t) /\ slot'[x].file = slot[x].file
             /\ x \in E => t \in slot'[x].temp
  <2>1. slot[x] \in Slots
        BY SlotFacts
  <2>2. CASE x \in E
    <3>1. slot'[x] = [slot[x] EXCEPT !.temp = slot[x].temp \cup {t}]
          BY <2>2
    <3>2. PICK c : c = slot[x]
          OBVIOUS
    <3>3. LET e == [c EXCEPT !.temp = c.temp \cup {t}] IN e \in Slots /\ e.file = c.file /\ e.temp = c.temp \cup {t}
          BY <2>1, <3>2, SMT DEF Slots
    <3>4. slot'[x] \in Slots /\ slot'[x].file = slot[x].file /\ slot'[x].temp = slot[x].temp \cup {t}
          BY <3>1, <3>2, <3>3
    <3> QED BY <2>2, <3>4 DEF Like
  <2>3. CASE x \notin E
        BY <2>1, <2>3 DEF Like
  <2> QED BY <2>2, <2>3
<1>5. ASSUME NEW x \in Dests
      PROVE  Kept(x)' \in {slot'[x], Kept(x)} /\ (x \in E => Kept(x)' = slot'[x])
  <2>1. dslot'[x] = IF Parent[x] \in ds THEN slot'[x] ELSE dslot[x]
        BY <1>2
  <2>2. x \in missed' <=> x \in missed /\ Parent[x] \notin ds
        BY <1>2, <1>3
  <2>3. x \in E => Parent[x] \in ds
        BY <1>1
  <2> QED BY <2>1, <2>2, <2>3 DEF Kept
<1>6. Journal \in missed' <=> Journal \in missed /\ Root \notin ds
      BY <1>2
<1>7. KeptIntent' \in {journal, KeptIntent} /\ JournalsMix
      BY <1>2, <1>6 DEF KeptIntent, JournalsMix
<1>8. Mix(t)
  <2>1. \A c : Like(c, c, t)
        BY DEF Like
  <2> QED BY <1>4, <1>5, <2>1 DEF Mix
<1>9. MissedIntent => MissedIntent'
      BY <1>2, <1>6 DEF MissedIntent
<1>10. TypeDisk'
  <2>1. slot' \in [Dests -> Slots]
        BY <1>4
  <2>2. \A x \in Dests : dslot'[x] \in Slots
        BY <1>2, <1>4, SlotFacts
  <2>3. dslot' \in [Dests -> Slots]
        BY <1>2, <2>2
  <2> QED BY <1>2, <2>1, <2>3 DEF TypeDisk
<1>11. Bounded'
  <2>1. Authority \in Dests
        BY DEF Dests
  <2>2. slot'[Authority].file = slot[Authority].file
        BY <1>4, <2>1
  <2>3. dslot'[Authority] \in {slot'[Authority], dslot[Authority]}
        BY <1>2, <2>1
  <2> QED BY <2>2, <2>3 DEF Bounded
<1>12. missed' \subseteq missed
      BY <1>2
<1> QED BY <1>4, <1>5, <1>7, <1>8, <1>9, <1>10, <1>11, <1>12

\* The plan of the next transaction, which takes the root on from s.
StagedPlan(b, t, s, g) ==
    [files |-> After(b, t), line |-> plan[s].line \cup {t}, gen |-> g, bump |-> b.bump]

PlanStep(b, t, s, g) ==
    /\ t = txs + 1 /\ txs < MaxTx /\ txs' = t
    /\ plan' = [plan EXCEPT ![t] = StagedPlan(b, t, s, g)]

LEMMA PlanStaged ==
    ASSUME Shape, NEW b \in Batches, SourcesStand(b),
           NEW t, NEW s \in Tx, NEW g \in Nat, PlanStep(b, t, s, g)
    PROVE  /\ t \in Tx /\ t # 0 /\ t \notin 0..txs /\ 0..txs' = (0..txs) \cup {t} /\ 0..txs = 0..(t - 1)
           /\ plan' \in [Tx -> Plans] /\ PlansStand
           /\ plan'[t].files = After(b, t) /\ plan'[t].line = plan[s].line \cup {t}
           /\ plan'[t].gen = g /\ plan'[t].bump = b.bump
<1>1. TypeOK /\ txs \in Nat /\ MaxTx \in Nat /\ 0..txs \subseteq Tx /\ plan \in [Tx -> Plans] /\ TypeDisk
      BY TxsNat, RangeFacts, ShapeParts, RewriteAssumption DEF TypeNotes
<1>2. /\ t \in Tx /\ t # 0 /\ t \notin 0..txs /\ 0..txs' = (0..txs) \cup {t} /\ 0..txs = 0..(t - 1)
      /\ txs' \in Nat /\ txs <= txs'
      BY <1>1, SMT DEF Tx, PlanStep
<1>3. PICK p, a, l, n : p = StagedPlan(b, t, s, g) /\ a = After(b, t) /\ l = plan[s].line \cup {t} /\ n = b.bump
      OBVIOUS
<1>4. a \in [Data -> Files] /\ l \in SUBSET Tx /\ n \in {0, 1}
  <2>1. Leaves(b, t, a)
        BY <1>1, <1>2, <1>3, AfterFacts
  <2> QED BY <1>1, <1>2, <1>3, <2>1, BatchFacts, PlanFacts DEF Leaves
<1>5. p = [files |-> a, line |-> l, gen |-> g, bump |-> n]
      BY <1>3 DEF StagedPlan
<1>6. p \in Plans /\ p.files = a /\ p.line = l /\ p.gen = g /\ p.bump = n
      BY <1>4, <1>5, SMT DEF Plans
<1>7. plan' \in [Tx -> Plans] /\ plan'[t] = p /\ \A u \in Tx : u # t => plan'[u] = plan[u]
      BY <1>1, <1>2, <1>3, <1>6 DEF PlanStep
<1>8. PlansStand
      BY <1>1, <1>2, <1>7 DEF PlansStand
<1> QED BY <1>2, <1>3, <1>6, <1>7, <1>8

LEMMA LineStaged ==
    ASSUME Shape, Good, journal = None, NEW b \in Batches, SourcesStand(b),
           NEW t, PlanStep(b, t, Selected, Generation + b.bump)
    PROVE  Lines'
<1>0. PICK s, g : s = Selected /\ g = Generation + b.bump /\ PlanStep(b, t, s, g)
      OBVIOUS
<1>1. /\ s \in 0..txs /\ s \in Tx /\ Settled(s) /\ Generation = plan[s].gen /\ LineOf(s)
      /\ TypeOK /\ TypeDisk /\ Lines
      BY <1>0, SettledRoot, ShapeParts DEF Good, Core
<1>2. b.bump \in {0, 1} /\ plan[s].gen \in Nat /\ g \in Nat /\ g = plan[s].gen + b.bump /\ txs \in Nat
  <2>1. b.bump \in {0, 1} /\ plan[s].gen \in Nat /\ txs \in Nat
        BY <1>1, BatchFacts, PlanFacts, TxsNat
  <2> QED BY <1>0, <1>1, <2>1, SMT
<1>3. /\ t \in Tx /\ t # 0 /\ t \notin 0..txs /\ 0..txs' = (0..txs) \cup {t}
      /\ PlansStand
      /\ plan'[t].files = After(b, t) /\ plan'[t].line = plan[s].line \cup {t}
      /\ plan'[t].gen = g /\ plan'[t].bump = b.bump
  <2>1. s \in Tx /\ g \in Nat /\ PlanStep(b, t, s, g)
        BY <1>0, <1>1, <1>2
  <2> QED BY <2>1, PlanStaged
<1>4. PICK l, a : l = plan[s].line /\ a = After(b, t)
      OBVIOUS
<1>5. l \subseteq 0..s /\ l \subseteq 0..txs /\ l \subseteq 0..t /\ t \in 0..t
  <2>1. l \subseteq 0..s
        BY <1>1, <1>4 DEF LineOf
  <2>2. 0..s \subseteq 0..txs /\ 0..s \subseteq 0..t /\ t \in 0..t
        BY <1>0, <1>1, <1>2, SMT DEF PlanStep
  <2> QED BY <2>1, <2>2
<1>6. \A u \in l : plan'[u] = plan[u] /\ u # t /\ plan[u].gen \in Nat
  <2>1. \A u \in l : u \in Tx
        BY <1>1, <1>4, PlanFacts
  <2> QED BY <1>3, <1>5, <2>1, PlanFacts, <1>1 DEF PlansStand
<1>7. ASSUME NEW u \in l PROVE plan'[u].gen <= plan[s].gen /\ plan'[u].gen <= g
  <2>1. plan[u].gen <= plan[s].gen /\ plan[u].gen \in Nat
        BY <1>1, <1>4, <1>6 DEF LineOf
  <2>2. plan[u].gen <= g
        BY <1>2, <2>1, SMT
  <2> QED BY <1>6, <2>1, <2>2
<1>8. ASSUME NEW u \in l, b.bump = 1 PROVE plan'[u].gen # g
  <2>1. plan[u].gen <= plan[s].gen /\ plan[u].gen \in Nat /\ plan'[u] = plan[u]
        BY <1>1, <1>4, <1>6 DEF LineOf
  <2>2. plan[u].gen # g
        BY <1>2, <1>8, <2>1, SMT
  <2> QED BY <2>1, <2>2
<1>9. LineOf(t)'
  <2>1. plan'[t].line \subseteq 0..t /\ t \in plan'[t].line
        BY <1>3, <1>4, <1>5
  <2>2. \A u \in plan'[t].line : plan'[u].gen <= plan'[t].gen
    <3>1. g <= g
          BY <1>2, SMT
    <3> QED BY <1>3, <1>4, <1>7, <3>1
  <2>3. \A u, v \in plan'[t].line :
            plan'[u].bump = 1 /\ plan'[v].bump = 1 /\ plan'[u].gen = plan'[v].gen => u = v
    <3>1. \A u, v \in l : plan[u].bump = 1 /\ plan[v].bump = 1 /\ plan[u].gen = plan[v].gen => u = v
          BY <1>1, <1>4 DEF LineOf
    <3>2. ASSUME NEW u \in l, NEW v \in l, plan'[u].bump = 1, plan'[v].bump = 1, plan'[u].gen = plan'[v].gen
          PROVE  u = v
          BY <1>6, <3>1, <3>2
    <3>3. ASSUME NEW u \in l, plan'[t].bump = 1, plan'[u].gen = plan'[t].gen PROVE FALSE
          BY <1>3, <1>8, <3>3
    <3>4. plan'[t].line = l \cup {t}
          BY <1>3, <1>4
    <3> QED BY <3>2, <3>3, <3>4
  <2>4. ASSUME NEW n \in 1..plan'[t].gen
        PROVE  \E u \in plan'[t].line : plan'[u].bump = 1 /\ plan'[u].gen = n
    <3>1. n \in 1..plan[s].gen \/ (b.bump = 1 /\ n = g)
          BY <1>2, <1>3, SMT
    <3>2. CASE n \in 1..plan[s].gen
      <4>1. PICK u \in l : plan[u].bump = 1 /\ plan[u].gen = n
            BY <1>1, <1>4, <3>2 DEF LineOf
      <4>2. u \in plan'[t].line /\ plan'[u] = plan[u]
            BY <1>3, <1>4, <1>6
      <4> QED BY <4>1, <4>2
    <3>3. CASE b.bump = 1 /\ n = g
          BY <1>3, <3>3
    <3> QED BY <3>1, <3>2, <3>3
  <2>5. ASSUME NEW x \in Data, plan'[t].files[x] # Absent PROVE plan'[t].files[x].tx \in plan'[t].line
    <3>1. x \in Dests /\ x # Authority
          BY RewriteAssumption DEF Dests
    <3>1a. Leaves(b, t, a) /\ plan'[t].files = a
          BY <1>1, <1>3, <1>4, AfterFacts
    <3>2. CASE x \in Touched(b)
          BY <1>3, <3>1a, <3>2 DEF Leaves
    <3>3. CASE \E d \in DOMAIN b.moves : b.moves[d] = x
          BY <2>5, <3>1a, <3>3 DEF Leaves
    <3>4. CASE x \notin Touched(b) /\ \A d \in DOMAIN b.moves : b.moves[d] # x
      <4>1. plan'[t].files[x] = slot[x].file
            BY <3>1a, <3>4 DEF Leaves
      <4>2. slot[x].file = plan[s].files[x]
            BY <1>1, <3>1 DEF Settled, Content
      <4>3. plan[s].files[x].tx \in l
            BY <1>1, <1>4, <2>5, <4>1, <4>2 DEF LineOf
      <4> QED BY <1>3, <1>4, <4>1, <4>2, <4>3
    <3> QED BY <3>2, <3>3, <3>4
  <2> QED BY <2>1, <2>2, <2>3, <2>4, <2>5 DEF LineOf
<1>10. \A u \in 0..txs : LineOf(u)'
      BY <1>1, <1>3, LinesStay
<1>11. plan'[0].gen = 0 /\ plan'[0].bump = 0
  <2>1. 0 \in 0..txs
        BY <1>2, SMT
  <2> QED BY <1>1, <1>3, <2>1 DEF Lines, PlansStand
<1> QED BY <1>3, <1>9, <1>10, <1>11 DEF Lines

LEMMA FaithfulStaged ==
    ASSUME Shape, Good, journal = None, NEW b \in Batches, SourcesStand(b),
           Generation + b.bump <= MaxGeneration, NEW t, NEW i, i = Intent(b, t),
           PlanStep(b, t, Selected, i.next)
    PROVE  Faithful(i)' /\ From(i) = Selected
<1>1. PICK s, a : s = Selected /\ a = After(b, t)
      OBVIOUS
<1>2. /\ s \in 0..txs /\ s \in Tx /\ Settled(s) /\ Generation = plan[s].gen
      /\ TypeOK /\ TypeDisk /\ Lines /\ txs \in Nat
      BY <1>1, SettledRoot, ShapeParts, TxsNat DEF Good, Core
<1>3. t \in Tx
      BY <1>2, RewriteAssumption, SMT DEF Tx, PlanStep
<1>4. /\ IsIntent(i) /\ i.tx = t /\ i.prior = Generation /\ i.next = Generation + b.bump /\ i.moves = b.moves
      /\ Entries(i) = Touched(b) \cup {Authority} /\ i.body[Authority] = i.next
      /\ \A x \in Touched(b) : i.body[x] = a[x].body
      /\ \A x \in Entries(i) : i.old[x] = slot[x].file
      /\ \A d \in DOMAIN i.moves : i.source[d] = slot[i.moves[d]].file
      BY <1>1, <1>2, <1>3, IntentStaged, SMT
<1>5. i.next \in Nat
      BY <1>4, IntentFacts
<1>6. /\ t # 0 /\ 0..txs' = (0..txs) \cup {t} /\ 0..txs = 0..(t - 1) /\ PlansStand
      /\ plan'[t].files = a /\ plan'[t].line = plan[s].line \cup {t}
      /\ plan'[t].gen = i.next /\ plan'[t].bump = b.bump
      BY <1>1, <1>2, <1>5, PlanStaged, SMT
<1>7. From(i) = s
      BY <1>1, <1>4 DEF From, SelectedOf, Selected
<1>8. From(i)' = s
      BY <1>7 DEF From, SelectedOf
<1>9. plan'[s] = plan[s]
      BY <1>2, <1>6 DEF PlansStand
<1>10. \A x \in Dests : Content(s, x)' = slot[x].file
      BY <1>2, <1>6, ContentStays DEF Settled
<1>11. \A x \in Data : Content(t, x)' = a[x]
      BY <1>6, RewriteAssumption DEF Content
<1>12. Content(t, Authority)' = [tx |-> t, body |-> i.next]
      BY <1>6 DEF Content, AuthorityOf
<1>13. /\ Touched(b) \subseteq Data /\ Entries(i) \subseteq Dests /\ Data \subseteq Dests /\ Dests = Data \cup {Authority}
       /\ \A d \in DOMAIN b.moves : b.moves[d] \in Data
      BY <1>4, IntentFacts, BatchFacts DEF Dests
<1>13a. Leaves(b, t, a)
      BY <1>1, <1>2, <1>3, AfterFacts
<1>14. \A x \in Entries(i) : i.old[x] = Content(s, x)' /\ Installed(i, x) = Content(t, x)'
  <2>1. ASSUME NEW x \in Touched(b) PROVE Installed(i, x) = Content(t, x)'
        BY <1>4, <1>11, <1>13, <1>13a DEF Installed, Leaves
  <2>2. Installed(i, Authority) = Content(t, Authority)'
        BY <1>4, <1>12 DEF Installed
  <2> QED BY <1>4, <1>10, <1>13, <2>1, <2>2
<1>15. \A d \in DOMAIN i.moves :
        /\ i.source[d] # Absent /\ i.source[d] = Content(s, i.moves[d])'
        /\ Content(t, i.moves[d])' = Absent
  <2> SUFFICES ASSUME NEW d \in DOMAIN b.moves
               PROVE  /\ i.source[d] # Absent /\ i.source[d] = Content(s, b.moves[d])'
                      /\ Content(t, b.moves[d])' = Absent
      BY <1>4
  <2>1. i.source[d] = slot[b.moves[d]].file /\ slot[b.moves[d]].file # Absent
        BY <1>4 DEF SourcesStand
  <2>2. Content(t, b.moves[d])' = Absent
        BY <1>11, <1>13, <1>13a DEF Leaves
  <2> QED BY <1>10, <1>13, <2>1, <2>2
<1>16. ASSUME NEW x \in Dests \ Entries(i), \A d \in DOMAIN i.moves : i.moves[d] # x
       PROVE  Content(t, x)' = Content(s, x)'
  <2>1. x \in Data \ Touched(b) /\ \A d \in DOMAIN b.moves : b.moves[d] # x
        BY <1>4, <1>13, <1>16
  <2>2. a[x] = slot[x].file
        BY <1>13a, <2>1 DEF Leaves
  <2> QED BY <1>10, <1>11, <1>13, <2>1, <2>2
<1>17. /\ t \in 1..txs' /\ s \in 0..(t - 1)
       /\ i.prior = plan'[s].gen /\ i.next = plan'[t].gen /\ i.next = i.prior + plan'[t].bump
       /\ plan'[t].line = plan'[s].line \cup {t}
  <2>1. t \in 1..txs' /\ s \in 0..(t - 1)
        BY <1>2, <1>6, SMT DEF PlanStep
  <2> QED BY <1>2, <1>4, <1>6, <1>9, <2>1
<1>18. Entries(i)' = Entries(i) /\ \A x : Installed(i, x)' = Installed(i, x)
      BY DEF Entries, Installed
<1>19. Faithful(i)'
  <2>1. \A x \in Entries(i)' : i.old[x] = Content(From(i), x)' /\ Installed(i, x)' = Content(i.tx, x)'
        BY <1>4, <1>8, <1>14, <1>18
  <2>2. \A d \in DOMAIN i.moves :
            /\ i.source[d] # Absent /\ i.source[d] = Content(From(i), i.moves[d])'
            /\ Content(i.tx, i.moves[d])' = Absent
        BY <1>4, <1>8, <1>15
  <2>3. \A x \in Dests \ Entries(i)' :
            (\A d \in DOMAIN i.moves : i.moves[d] # x) => Content(i.tx, x)' = Content(From(i), x)'
        BY <1>4, <1>8, <1>16, <1>18
  <2>4. /\ i.tx \in 1..txs' /\ From(i)' \in 0..(i.tx - 1)
        /\ i.prior = plan'[From(i)'].gen /\ i.next = plan'[i.tx].gen
        /\ i.next = i.prior + plan'[i.tx].bump
        /\ plan'[i.tx].line = plan'[From(i)'].line \cup {i.tx}
        BY <1>4, <1>8, <1>17
  <2> QED BY <2>1, <2>2, <2>3, <2>4 DEF Faithful
<1> QED BY <1>1, <1>7, <1>19

\* Stage, with what the invariant says about the place where it happens.
Stages(w, b, t, i) ==
    /\ Shape /\ SourcesStand(b) /\ journal = None /\ journal' = journal
    /\ lock = w /\ call.op = "commit" /\ failed[w] = None /\ waiting[w] = "none"
    /\ Generation + b.bump <= MaxGeneration
    /\ i = Intent(b, t) /\ PlanStep(b, t, Selected, i.next)
    /\ slot' = [x \in Dests |-> IF x \in Entries(i) THEN [slot[x] EXCEPT !.temp = @ \cup {t}] ELSE slot[x]]
    /\ Flush({Parent[x] : x \in Entries(i)})
    /\ call' = StageCall(call, t, Generation)
    /\ failed' = [failed EXCEPT ![w] = i] /\ seen' = [seen EXCEPT ![w] = None]
    /\ UNCHANGED <<waiting, lock, told, shown, lost, refused, faults>>

LEMMA StageFacts ==
    ASSUME IInv, NEW w \in Writers, NEW b \in Batches, Stage(w, b)
    PROVE  \E t, i : Stages(w, b, t, i)
<1>0. PICK t, i : t = txs + 1 /\ i = Intent(b, t)
      OBVIOUS
<1>1. /\ lock = w /\ call.at = "replayed" /\ call.op = "commit" /\ call.tx = 0
      /\ txs < MaxTx /\ Generation + b.bump <= MaxGeneration /\ MovesStand(w, b)
      /\ txs' = t
      /\ plan' = [plan EXCEPT ![t] = StagedPlan(b, t, Selected, i.next)]
      /\ slot' = [x \in Dests |-> IF x \in Entries(i) THEN [slot[x] EXCEPT !.temp = @ \cup {t}] ELSE slot[x]]
      /\ Flush({Parent[x] : x \in Entries(i)})
      /\ call' = StageCall(call, t, Generation)
      /\ failed' = [failed EXCEPT ![w] = i] /\ seen' = [seen EXCEPT ![w] = None]
      /\ UNCHANGED <<waiting, journal, lock, told, shown, lost, refused, faults>>
      BY <1>0 DEF Stage, At, StagedPlan, StageCall
<1>2. Shape /\ Place /\ HolderOK
      BY ShapeParts DEF IInv
<1>3. journal = None /\ failed[w] = None /\ waiting[w] = "none"
      BY <1>1, <1>2, RewriteAssumption DEF Place, HolderOK
<1>4. SourcesStand(b)
      BY <1>1, MovesHaveSources
<1>5. PlanStep(b, t, Selected, i.next)
      BY <1>0, <1>1 DEF PlanStep
<1>6. Stages(w, b, t, i)
      BY <1>0, <1>1, <1>2, <1>3, <1>4, <1>5 DEF Stages
<1> QED BY <1>6

LEMMA StageShape ==
    ASSUME NEW w \in Writers, NEW b \in Batches, NEW t, NEW i, Stages(w, b, t, i)
    PROVE  /\ Shape' /\ PlansStand /\ Mix(t) /\ JournalsMix /\ KeptIntent' \in {journal, KeptIntent}
           /\ MissedIntent => MissedIntent'
           /\ t \in Tx /\ t # 0 /\ t \notin 0..txs /\ 0..txs' = (0..txs) \cup {t}
           /\ IsIntent(i) /\ i.tx = t /\ i.next = Generation + b.bump
           /\ failed'[w] = i /\ \A v \in Writers : v # w => failed'[v] = failed[v]
           /\ call'.at = "publish" /\ call'.tx = t
           /\ \A x \in Entries(i) : t \in slot'[x].temp /\ t \in Kept(x)'.temp
<1>1. /\ Shape /\ SourcesStand(b) /\ journal = None /\ journal' = journal
      /\ lock = w /\ call.op = "commit" /\ failed[w] = None /\ waiting[w] = "none"
      /\ Generation + b.bump <= MaxGeneration
      /\ i = Intent(b, t) /\ PlanStep(b, t, Selected, i.next)
      /\ slot' = [x \in Dests |-> IF x \in Entries(i) THEN [slot[x] EXCEPT !.temp = @ \cup {t}] ELSE slot[x]]
      /\ Flush({Parent[x] : x \in Entries(i)})
      /\ call' = StageCall(call, t, Generation)
      /\ failed' = [failed EXCEPT ![w] = i] /\ seen' = [seen EXCEPT ![w] = None]
      /\ UNCHANGED <<waiting, lock, told, shown, lost, refused, faults>>
      BY DEF Stages
<1>2. /\ TypeOK /\ TypeDisk /\ TypeWriters /\ TypeNotes /\ TypeFaults /\ Bounded /\ FailedOK /\ HolderOK /\ WaitersOK /\ ToldStaged
      /\ txs \in Nat /\ Generation \in Nat /\ Selected \in Tx /\ call \in Calls
      BY <1>1, ShapeParts, TxsNat, GenerationFacts DEF TypeWriters
<1>3. t \in Tx
      BY <1>1, <1>2, RewriteAssumption, SMT DEF Tx, PlanStep
<1>4. /\ IsIntent(i) /\ i.state = "preparing" /\ i.tx = t /\ i.prior = Generation /\ i.next = Generation + b.bump
      BY <1>1, <1>2, <1>3, IntentStaged
<1>5. i.next \in Nat /\ Entries(i) \in SUBSET Dests /\ i # None
      BY <1>4, IntentFacts
<1>6. PICK s, g : s = Selected /\ g = i.next /\ PlanStep(b, t, s, g) /\ s \in Tx /\ g \in Nat
      BY <1>1, <1>2, <1>5
<1>7. /\ t # 0 /\ t \notin 0..txs /\ 0..txs' = (0..txs) \cup {t}
      /\ plan' \in [Tx -> Plans] /\ PlansStand
      BY <1>1, <1>6, PlanStaged
<1>8. txs' = t /\ 1..txs' = (1..txs) \cup {t} /\ t \notin 1..txs
      BY <1>1, <1>2, SMT DEF PlanStep
<1>9. PICK E : E = Entries(i)
      OBVIOUS
<1>10. /\ Mix(t) /\ JournalsMix /\ TypeDisk' /\ Bounded' /\ (MissedIntent => MissedIntent')
       /\ KeptIntent' \in {journal, KeptIntent} /\ missed' \subseteq missed
       /\ \A x \in E : t \in slot'[x].temp /\ t \in Kept(x)'.temp
  <2>1. /\ E \in SUBSET Dests /\ Flush({Parent[x] : x \in E})
        /\ slot' = [x \in Dests |-> IF x \in E THEN [slot[x] EXCEPT !.temp = @ \cup {t}] ELSE slot[x]]
        BY <1>1, <1>5, <1>9
  <2> QED BY <1>1, <1>2, <1>3, <2>1, StagedTemps
<1>11. /\ call' \in Calls /\ call'.at = "publish" /\ call'.op = "commit" /\ call'.tx = t /\ call'.gen = Generation
      BY <1>1, <1>2, <1>3, CallStages
<1>12. /\ failed' = [v \in Writers |-> failed'[v]] /\ failed'[w] = i
       /\ \A v \in Writers : v # w => failed'[v] = failed[v]
  <2>1. failed = [v \in Writers |-> failed[v]]
        BY <1>2, FailedFunction
  <2> QED BY <1>1, <2>1
<1>13. TypeWriters'
  <2>1. seen' \in [Writers -> [Sources -> Files] \cup {None}]
        BY <1>1, <1>2 DEF TypeWriters
  <2>2. call' # Idle /\ lock' # Nobody /\ lock' \in Writers
        BY <1>1, <1>11, CallIdle, RewriteAssumption
  <2>3. \A v \in Writers : failed'[v] = None \/ IsIntent(failed'[v])
        BY <1>2, <1>4, <1>12 DEF TypeWriters
  <2>4. waiting' \in [Writers -> Operations \cup {"none"}]
        BY <1>1, <1>2 DEF TypeWriters
  <2> QED BY <1>11, <1>12, <2>1, <2>2, <2>3, <2>4 DEF TypeWriters
<1>14. FailedOK'
  <2>1. told[t] = "nothing"
        BY <1>2, <1>3, <1>8 DEF ToldStaged
  <2>2. \A v \in Writers : v # w /\ failed[v] # None =>
            /\ failed[v].state = "preparing" /\ failed[v].tx \in 1..txs /\ told[failed[v].tx] = "nothing"
            /\ waiting[v] # "commit" /\ failed[v].prior # failed[v].next
            /\ \A u \in Writers : failed[u] # None /\ failed[u].tx = failed[v].tx => u = v
        BY <1>1, <1>2 DEF FailedOK
  <2>3. \A v \in Writers : v # w /\ failed[v] # None => failed[v].tx \in 1..txs' /\ failed[v].tx # t
        BY <1>8, <2>2
  <2>4. ASSUME NEW v \in Writers, failed'[v] # None
        PROVE  /\ failed'[v].state = "preparing" /\ failed'[v].tx \in 1..txs'
               /\ told'[failed'[v].tx] = "nothing"
               /\ waiting'[v] # "commit"
               /\ \A u \in Writers : failed'[u] # None /\ failed'[u].tx = failed'[v].tx => u = v
               /\ failed'[v].prior # failed'[v].next \/ (lock' = v /\ call'.op = "commit" /\ call'.tx # 0)
    <3>1. CASE v = w
          BY <1>1, <1>4, <1>7, <1>8, <1>11, <1>12, <2>1, <2>3, <3>1
    <3>2. CASE v # w
          BY <1>1, <1>4, <1>12, <2>2, <2>3, <2>4, <3>2, SMT
    <3> QED BY <3>1, <3>2
  <2> QED BY <2>4 DEF FailedOK
<1>15. HolderOK' /\ WaitersOK'
  <2>1. HolderOK'
        BY <1>1, <1>7, <1>11 DEF HolderOK
  <2>2. WaitersOK'
        BY <1>1, <1>2, <1>5, <1>12 DEF WaitersOK
  <2> QED BY <2>1, <2>2
<1>16. Place'
      BY <1>1, <1>4, <1>5, <1>7, <1>11, <1>12 DEF Place, At, Installing
<1>17. ToldStaged'
      BY <1>1, <1>2, <1>8 DEF ToldStaged
<1>18. TypeNotes' /\ TypeFaults'
  <2>1. TypeNotes'
        BY <1>1, <1>2, <1>3, <1>7, <1>8 DEF TypeNotes
  <2>2. TypeFaults'
        BY <1>1, <1>2, <1>10 DEF TypeFaults
  <2> QED BY <2>1, <2>2
<1>19. Shape'
  <2>1. WritersOK'
        BY <1>13, <1>14, <1>15 DEF WritersOK
  <2> QED BY <1>10, <1>16, <1>17, <1>18, <2>1, NextShape
<1> QED BY <1>3, <1>4, <1>7, <1>9, <1>10, <1>11, <1>12, <1>19

LEMMA StageStep ==
    ASSUME IInv, NEW w \in Writers, NEW b \in Batches, Stage(w, b)
    PROVE  IInv'
<1>1. PICK t, i : Stages(w, b, t, i)
      BY StageFacts
<1>2. /\ Shape /\ TypeOK /\ SourcesStand(b) /\ journal = None /\ journal' = journal /\ lock = w
      /\ Generation + b.bump <= MaxGeneration
      /\ i = Intent(b, t) /\ PlanStep(b, t, Selected, i.next)
      /\ UNCHANGED <<waiting, lock, told, shown, lost, refused, faults>>
      BY <1>1, ShapeParts DEF Stages
<1>3. /\ Shape' /\ PlansStand /\ Mix(t) /\ JournalsMix /\ KeptIntent' \in {journal, KeptIntent}
      /\ MissedIntent => MissedIntent'
      /\ t \in Tx /\ t # 0 /\ t \notin 0..txs /\ 0..txs' = (0..txs) \cup {t}
      /\ IsIntent(i) /\ i.tx = t /\ i.next = Generation + b.bump
      /\ failed'[w] = i /\ \A v \in Writers : v # w => failed'[v] = failed[v]
      /\ call'.at = "publish" /\ call'.tx = t
      /\ \A x \in Entries(i) : t \in slot'[x].temp /\ t \in Kept(x)'.temp
      BY <1>1, StageShape
<1> SUFFICES ASSUME lost' = {} PROVE Good'
    BY <1>3 DEF IInv
<1>5. Good /\ Core /\ Lines /\ IntentsFaithful /\ RootOK /\ ToldOK /\ ShownOK /\ FailedFaithful /\ MissedIntent /\ ~refused /\ ToldStaged
      BY <1>2, ShapeParts DEF IInv, Good, Core
<1>6. \A k \in {journal, KeptIntent} : k # None => k.tx # t
      BY <1>2, <1>3, <1>5, FaithfulFacts DEF IntentsFaithful
<1>7. Mixes(t)
      BY <1>2, <1>3, <1>6 DEF Mixes, Durable, Shape
<1>8. IntentsFaithful' /\ RootOK' /\ ToldOK' /\ ShownOK'
      BY <1>2, <1>5, <1>7, MixIntents, MixRoot, MixTold, MixShown
<1>9. Lines'
  <2>1. PlanStep(b, t, Selected, Generation + b.bump)
        BY <1>2, <1>3
  <2> QED BY <1>2, <1>5, <2>1, LineStaged
<1>10. Faithful(i)' /\ From(i) = Selected
      BY <1>2, <1>5, FaithfulStaged
<1>11. FailedFaithful'
  <2> SUFFICES ASSUME NEW v \in Writers, failed'[v] # None PROVE Faithful(failed[v])'
      BY DEF FailedFaithful
  <2>1. CASE v = w
        BY <1>3, <1>10, <2>1
  <2>2. CASE v # w
    <3>1. failed'[v] = failed[v] /\ Faithful(failed[v])
          BY <1>3, <1>5, <2>2 DEF FailedFaithful
    <3>2. PICK f : f = failed[v]
          OBVIOUS
    <3>3. Faithful(f)'
          BY <1>3, <3>1, <3>2, FaithfulStays, <1>2 DEF Shape
    <3> QED BY <3>1, <3>2, <3>3
  <2> QED BY <2>1, <2>2
<1>12. Untouched(i)'
  <2>1. PICK s : s = Selected
        OBVIOUS
  <2>2. s \in 0..txs /\ Settled(s)
        BY <1>2, <1>5, <2>1, SettledRoot
  <2>3. Settled(s)'
        BY <1>3, <2>2, MixSettled
  <2>4. From(i)' = s /\ Entries(i)' = Entries(i)
        BY <1>10, <2>1 DEF From, SelectedOf, Entries
  <2> QED BY <1>3, <2>3, <2>4 DEF Untouched
<1>13. Progress'
  <2>1. Untouched(failed[lock])'
        BY <1>2, <1>3, <1>12
  <2>2. KeptIntent' # None => KeptIntent'.tx # call'.tx
        BY <1>2, <1>3, <1>6
  <2> QED BY <1>3, <2>1, <2>2 DEF Progress, At, Installing
<1> QED BY <1>2, <1>3, <1>5, <1>8, <1>9, <1>11, <1>13 DEF Good, Core

-----------------------------------------------------------------------------
(* The initial states, every step, and the theorems.                       *)

LEMMA StutterStep ==
    ASSUME IInv, UNCHANGED vars
    PROVE  IInv'
<1>1. /\ UNCHANGED <<disk, missed, plan, txs, told, shown, lost, refused>>
      /\ UNCHANGED <<waiting, lock, call, failed, seen, faults, slot, journal>>
      BY DEF vars, disk, notes
<1>2. Shape
      BY DEF IInv
<1>3. Mix(0) /\ KeptIntent' = KeptIntent
      BY <1>1, QuietEffect
<1>4. WritersOK'
      BY <1>1, <1>2, ShapeParts, SMT DEF WritersOK, TypeWriters, FailedOK, HolderOK, WaitersOK
<1>5. Place'
      BY <1>1, <1>2, <1>3, SamePlace, ShapeParts
<1>6. Shape'
      BY <1>1, <1>2, <1>4, <1>5, QuietShape, ShapeParts DEF TypeFaults
<1>7. lost' = {} => Progress'
      BY <1>1, <1>2, <1>3, SameProgress DEF IInv, Good
<1> QED BY <1>1, <1>6, <1>7, QuietGood DEF Quiet

LEMMA InitFacts ==
    ASSUME Init
    PROVE  /\ slot \in [Dests -> Slots] /\ dslot = slot /\ missed = {} /\ lost = {} /\ txs = 0 /\ 0 \in Tx
           /\ slot[Authority].file = Absent /\ Selected = 0 /\ Generation = 0
           /\ \A x \in Data : slot[x].file = Start(x) /\ plan[0].files[x] = Start(x)
           /\ \A x \in Data : Start(x) # Absent => Start(x).tx = 0
           /\ plan \in [Tx -> Plans] /\ plan[0].line = {0} /\ plan[0].gen = 0 /\ plan[0].bump = 0
           /\ call = Idle /\ call \in Calls /\ call.at = "idle" /\ call.tx = 0 /\ lock = Nobody
           /\ \A w \in Writers : failed[w] = None /\ waiting[w] = "none"
           /\ \A t \in Tx : told[t] = "nothing"
<1>1. /\ slot = [x \in Dests |-> [file |-> Start(x), temp |-> {}]]
      /\ plan = [t \in Tx |-> [files |-> [x \in Data |-> Start(x)], line |-> {0}, gen |-> 0, bump |-> 0]]
      /\ dslot = slot /\ missed = {} /\ lost = {} /\ txs = 0 /\ call = Idle /\ lock = Nobody
      /\ failed = [w \in Writers |-> None] /\ waiting = [w \in Writers |-> "none"]
      /\ told = [t \in Tx |-> "nothing"]
      BY DEF Init
<1>2. 0 \in Tx
      BY RewriteAssumption, SMT DEF Tx
<1>3. \A x \in Dests : Start(x) \in Files
  <2>1. [tx |-> 0, body |-> 0] \in [tx : Tx, body : Nat]
        BY <1>2, SMT
  <2> QED BY <2>1 DEF Start, Files
<1>4. ASSUME NEW f \in Files PROVE LET c == [file |-> f, temp |-> {}] IN c \in Slots /\ c.file = f
      BY SMT DEF Slots
<1>5. slot \in [Dests -> Slots] /\ \A x \in Dests : slot[x].file = Start(x)
      BY <1>1, <1>3, <1>4
<1>6. Authority \in Dests /\ Start(Authority) = Absent /\ Data \subseteq Dests
      BY RewriteAssumption DEF Start, Dests
<1>7. slot[Authority].file = Absent /\ Selected = 0 /\ Generation = 0
      BY <1>5, <1>6 DEF Selected, Generation
<1>8. \A x \in Data : Start(x) # Absent => Start(x).tx = 0
  <2>1. [tx |-> 0, body |-> 0].tx = 0
        BY SMT
  <2> QED BY <2>1 DEF Start
<1>9. PICK a, p : a = [x \in Data |-> Start(x)] /\ p = [files |-> a, line |-> {0}, gen |-> 0, bump |-> 0]
      OBVIOUS
<1>10. a \in [Data -> Files] /\ \A x \in Data : a[x] = Start(x)
      BY <1>3, <1>6, <1>9
<1>11. p \in Plans /\ p.files = a /\ p.line = {0} /\ p.gen = 0 /\ p.bump = 0
  <2>1. p = [files |-> a, line |-> {0}, gen |-> 0, bump |-> 0]
        BY <1>9
  <2> QED BY <1>2, <1>10, <2>1, SMT DEF Plans
<1>12. plan \in [Tx -> Plans] /\ plan[0] = p
  <2>1. plan = [t \in Tx |-> p]
        BY <1>1, <1>9
  <2> QED BY <1>2, <1>11, <2>1
<1> QED BY <1>1, <1>2, <1>5, <1>6, <1>7, <1>8, <1>10, <1>11, <1>12, CallIdle

LEMMA InitIInv ==
    ASSUME Init
    PROVE  IInv
<1>1. /\ slot \in [Dests -> Slots] /\ dslot = slot /\ missed = {} /\ lost = {} /\ txs = 0 /\ 0 \in Tx
      /\ slot[Authority].file = Absent /\ Selected = 0 /\ Generation = 0
      /\ \A x \in Data : slot[x].file = Start(x) /\ plan[0].files[x] = Start(x)
      /\ \A x \in Data : Start(x) # Absent => Start(x).tx = 0
      /\ plan \in [Tx -> Plans] /\ plan[0].line = {0} /\ plan[0].gen = 0 /\ plan[0].bump = 0
      /\ call = Idle /\ call \in Calls /\ call.at = "idle" /\ call.tx = 0 /\ lock = Nobody
      /\ \A w \in Writers : failed[w] = None /\ waiting[w] = "none"
      /\ \A t \in Tx : told[t] = "nothing"
      BY InitFacts
<1>2. /\ journal = None /\ djournal = None /\ shown = {0} /\ refused = FALSE /\ faults = 0
      /\ failed = [w \in Writers |-> None] /\ waiting = [w \in Writers |-> "none"]
      /\ seen = [w \in Writers |-> None] /\ told = [t \in Tx |-> "nothing"]
      BY DEF Init
<1>3. TypeDisk
      BY <1>1, <1>2 DEF TypeDisk
<1>4. TypeWriters
  <2>1. failed = [w \in Writers |-> failed[w]]
        BY <1>2
  <2>2. waiting \in [Writers -> Operations \cup {"none"}] /\ seen \in [Writers -> [Sources -> Files] \cup {None}]
        BY <1>2
  <2> QED BY <1>1, <2>1, <2>2 DEF TypeWriters
<1>5. TypeNotes /\ TypeFaults
  <2>1. told \in [Tx -> Answers]
        BY <1>2 DEF Answers
  <2>2. 0 \in 0..MaxFaults
        BY RewriteAssumption, SMT
  <2> QED BY <1>1, <1>2, <2>1, <2>2 DEF TypeNotes, TypeFaults
<1>6. Bounded
      BY <1>1 DEF Bounded
<1>7. Place
      BY <1>1 DEF Place, At, Installing
<1>8. FailedOK /\ HolderOK /\ WaitersOK /\ ToldStaged
      BY <1>1 DEF FailedOK, HolderOK, WaitersOK, ToldStaged
<1>9. Shape
      BY <1>3, <1>4, <1>5, <1>6, <1>7, <1>8, PartsClosed DEF Shape
<1>10. /\ \A x : Kept(x) = slot[x]
       /\ KeptIntent = None /\ KeptSelected = 0 /\ ~Durable(journal) /\ ~Durable(KeptIntent)
      BY <1>1, <1>2 DEF Kept, KeptIntent, KeptSelected, SelectedOf, Durable
<1>11. 0..txs = {0} /\ 0 \in 0..txs
      BY <1>1, SMT
<1>12. Lines
  <2>1. plan[0].line \subseteq 0..0 /\ 0 <= 0 /\ 1..0 = {}
        BY <1>1, SMT
  <2>2. LineOf(0)
        BY <1>1, <2>1, SMT DEF LineOf
  <2> QED BY <1>1, <1>11, <2>2 DEF Lines
<1>13. Settled(0)
      BY <1>1, <1>10 DEF Settled, Content, AuthorityOf, Dests
<1>14. RootOK
      BY <1>1, <1>2, <1>10, <1>11, <1>13 DEF RootOK, Resting
<1>15. ToldOK
      BY <1>1 DEF ToldOK, ToldAt
<1>16. ShownOK
      BY <1>1, <1>2, <1>10 DEF ShownOK
<1>17. IntentsFaithful /\ FailedFaithful /\ MissedIntent
      BY <1>1, <1>2, <1>10 DEF IntentsFaithful, FailedFaithful, MissedIntent
<1>18. Progress
      BY <1>1 DEF Progress, At, Installing
<1> QED BY <1>2, <1>9, <1>12, <1>14, <1>15, <1>16, <1>17, <1>18 DEF IInv, Good, Core

LEMMA NextIInv ==
    ASSUME IInv, [Next]_vars
    PROVE  IInv'
<1>1. CASE UNCHANGED vars
      BY <1>1, StutterStep
<1>2. CASE Step
      BY <1>2, ReplayNothingStep, ReplayBeginStep, ReplayRefusedStep, CleanTemporaryStep, InstallStep,
         RetireStep, UnlinkJournalStep, FlushStepStep, StageStep, StageRejectedStep, PublishPreparingStep,
         PublishDurableStep, CommitReturnsStep, RecoverReturnsStep, ReconcileReturnsStep DEF Step
<1>3. ASSUME NEW w \in Writers, StartCommit(w) \/ StartRecover(w) \/ StartReconcile(w) PROVE IInv'
      BY <1>3, AcquireStep DEF StartCommit, StartRecover, StartReconcile, Operations
<1>4. CASE Recovers
      BY <1>3, <1>4 DEF Recovers
<1>5. CASE Acquires
      BY <1>5, TakeLockStep DEF Acquires
<1>6. CASE PowerLoss
      BY <1>6, PowerLossStep
<1>7. ASSUME NEW w \in Writers, StageMove(w) \/ Fail(w) \/ Kill(w) PROVE IInv'
      BY <1>7, StageMoveStep, FailStep, KillStep
<1> QED BY <1>1, <1>2, <1>3, <1>4, <1>5, <1>6, <1>7 DEF Next

\* The invariant holds at the start and every step preserves it.
THEOREM Invariant == Spec => []IInv
BY InitIInv, NextIInv, PTL DEF Spec

\* Once generation.json is renamed, every data file is the one its transaction leaves.
LEMMA CompletedFiles ==
    ASSUME TypeOK, NEW i, IsIntent(i), Faithful(i), InProgress(i), i.tx \notin slot[Authority].temp
    PROVE  \A x \in Data : slot[x].file = Content(i.tx, x)
<1>1. Completed(i)
      BY DEF InProgress
<1>2. ASSUME NEW x \in Data PROVE slot[x].file = Content(i.tx, x)
  <2>1. x \in Dests /\ x # Authority
        BY RewriteAssumption DEF Dests
  <2>2. CASE x \in Entries(i)
    <3>1. i.tx \notin slot[x].temp
          BY <1>1, <2>1, <2>2 DEF Completed, Finished, Done
    <3> QED BY <2>2, <3>1 DEF InProgress, EntryOK
  <2>3. CASE \E d \in DOMAIN i.moves : i.moves[d] = x
    <3>1. PICK d \in DOMAIN i.moves : i.moves[d] = x
          BY <2>3
    <3>2. d \in Entries(i) \ {Authority}
          BY IntentFacts, RewriteAssumption
    <3>3. slot[x].file = Absent
          BY <1>1, <3>1, <3>2 DEF Completed, Finished, Retired
    <3>4. Content(i.tx, x) = Absent
          BY <3>1 DEF Faithful
    <3> QED BY <3>3, <3>4
  <2>4. CASE x \notin Entries(i) /\ \A d \in DOMAIN i.moves : i.moves[d] # x
    <3>1. slot[x].file \in {Content(From(i), x), Content(i.tx, x)}
          BY <2>1, <2>4 DEF InProgress
    <3>2. Content(i.tx, x) = Content(From(i), x)
          BY <2>1, <2>4 DEF Faithful
    <3> QED BY <3>1, <3>2
  <2> QED BY <2>2, <2>3, <2>4
<1> QED BY <1>2

LEMMA WholeHolds ==
    ASSUME IInv
    PROVE  WholeUnlessBarrierMissed
<1> SUFFICES ASSUME lost = {}, journal = None \/ journal.state = "preparing" \/ journal.tx = Selected,
                    NEW x \in Data
             PROVE  slot[x].file = plan[Selected].files[x]
    BY DEF WholeUnlessBarrierMissed
<1>1. Shape /\ TypeOK /\ Good /\ IntentsFaithful /\ RootOK
      BY ShapeParts DEF IInv, Good, Core
<1>2. x \in Dests /\ \A t : Content(t, x) = plan[t].files[x]
      BY RewriteAssumption DEF Dests, Content
<1>3. CASE Durable(journal)
  <2>1. IsIntent(journal) /\ Faithful(journal) /\ InProgress(journal)
        BY <1>1, <1>3, DurableInProgress
  <2>2. journal.tx = Selected
        BY <1>3 DEF Durable
  <2>3. journal.tx \notin slot[Authority].temp
        BY <1>1, <2>1, <2>2, ProgressSelected, FaithfulFacts
  <2> QED BY <1>1, <1>2, <2>1, <2>2, <2>3, CompletedFiles
<1>4. CASE ~Durable(journal)
  <2>1. Unlinking \/ Resting
        BY <1>1, <1>4 DEF RootOK, Replaying, Switching
  <2>2. CASE Unlinking
    <3>1. Settled(KeptIntent.tx) /\ Selected = KeptIntent.tx
          BY <1>1, <2>2, RestingHead DEF Unlinking
    <3> QED BY <1>2, <3>1 DEF Settled
  <2>3. CASE Resting
        BY <1>2, <2>3 DEF Resting, Settled
  <2> QED BY <2>1, <2>2, <2>3
<1> QED BY <1>3, <1>4

LEMMA CommittedHolds ==
    ASSUME IInv
    PROVE  CommittedStays
BY DEF IInv, Good, Core, ToldOK, ToldAt, CommittedStays

LEMMA MovedFileHolds ==
    ASSUME IInv
    PROVE  MovedFileOnDisk
<1> SUFFICES ASSUME lost = {}, missed = {}, journal # None, journal.state = "durable",
                    NEW d \in DOMAIN journal.moves
             PROVE  \/ dslot[journal.moves[d]].file = journal.source[d]
                    \/ dslot[d].file = Installed(journal, d)
    BY DEF MovedFileOnDisk
<1>1. IsIntent(journal) /\ Faithful(journal) /\ InProgress(journal)
      BY DurableInProgress DEF IInv, Durable
<1>2. d \in Entries(journal) /\ journal.moves[d] \in Dests \ Entries(journal)
      BY <1>1, IntentFacts DEF Dests
<1>3. \A x : Kept(x) = dslot[x]
      BY DEF Kept
<1>4. /\ journal.source[d] = Content(From(journal), journal.moves[d])
      /\ Content(journal.tx, journal.moves[d]) = Absent
      /\ Installed(journal, d) = Content(journal.tx, d)
      BY <1>1, <1>2 DEF Faithful
<1>5. CASE dslot[journal.moves[d]].file = Absent
  <2>1. Done(journal, d)
        BY <1>1, <1>3, <1>5 DEF InProgress
  <2>2. EntryOK(journal, d, Kept(d))
        BY <1>1, <1>2 DEF InProgress
  <2> QED BY <1>3, <1>4, <2>1, <2>2 DEF Done, EntryOK
<1>6. CASE dslot[journal.moves[d]].file # Absent
  <2>1. Kept(journal.moves[d]).file \in {Content(From(journal), journal.moves[d]), Content(journal.tx, journal.moves[d])}
        BY <1>1, <1>2 DEF InProgress
  <2> QED BY <1>3, <1>4, <1>6, <2>1
<1> QED BY <1>5, <1>6

LEMMA ReconcileHolds ==
    ASSUME IInv
    PROVE  ReconcileTruthful
<1> SUFFICES ASSUME lost = {} PROVE ReconcileTruthful
    BY DEF ReconcileTruthful
<1>1. ToldOK /\ MissedIntent
      BY DEF IInv, Good, Core
<1>2. \A t \in Tx : ToldAt(t, Selected)
      BY <1>1 DEF ToldOK
<1>3. ASSUME NEW t \in Tx, told[t] = "not committed", NEW i \in {journal, djournal}, i # None
      PROVE  ~(i.tx = t /\ i.state = "durable")
  <2>1. \A k \in {journal, KeptIntent} : Durable(k) => k.tx # t
        BY <1>1, <1>3 DEF ToldOK
  <2>2. Durable(djournal) => djournal = KeptIntent
        BY <1>1 DEF MissedIntent, KeptIntent
  <2>3. CASE i = journal
        BY <1>3, <2>1, <2>3 DEF Durable
  <2>4. CASE i = djournal
    <3>1. Durable(djournal) => djournal.tx # t
          BY <2>1, <2>2
    <3> QED BY <1>3, <2>4, <3>1 DEF Durable
  <2> QED BY <2>3, <2>4
<1> QED BY <1>2, <1>3 DEF ReconcileTruthful, ToldAt

LEMMA GenerationHolds ==
    ASSUME IInv
    PROVE  GenerationNamesOne
<1> SUFFICES ASSUME lost = {}, NEW t \in shown, NEW u \in shown,
                    plan[t].bump = 1, plan[u].bump = 1, plan[t].gen = plan[u].gen
             PROVE  t = u
    BY DEF GenerationNamesOne
<1>1. Shape /\ TypeOK /\ Good /\ Lines /\ IntentsFaithful /\ RootOK /\ ShownOK
      BY ShapeParts DEF IInv, Good, Core
<1>2. CASE t \in plan[Selected].line /\ u \in plan[Selected].line
  <2>1. LineOf(Selected)
        BY <1>1, Heads DEF Lines
  <2> QED BY <1>2, <2>1 DEF LineOf
<1>3. CASE Durable(journal) /\ KeptIntent = journal
  <2>1. /\ journal.tx \in 0..txs
        /\ \A v \in plan[Selected].line : v \in plan[journal.tx].line
        BY <1>1, <1>3, ReplayedHeads
  <2>2. LineOf(journal.tx)
        BY <1>1, <2>1 DEF Lines
  <2>3. t \in plan[journal.tx].line /\ u \in plan[journal.tx].line
        BY <1>1, <2>1, <2>2 DEF ShownOK, LineOf
  <2> QED BY <2>2, <2>3 DEF LineOf
<1> QED BY <1>1, <1>2, <1>3 DEF ShownOK

\* Every step but the renames of a replay, its unlinks and a fault leaves the files.
LEMMA FilesStay ==
    ASSUME IInv, Next, NEW x \in Data, slot'[x].file # slot[x].file, faults' = faults
    PROVE  call.at \in Installing
<1>1. Shape /\ TypeDisk /\ Bounded /\ x \in Dests /\ faults \in Int
  <2>1. Shape /\ TypeDisk /\ Bounded /\ TypeFaults
        BY ShapeParts DEF IInv
  <2>2. faults \in Int
        BY <2>1, RewriteAssumption, SMT DEF TypeFaults
  <2> QED BY <2>1, <2>2 DEF Dests
<1>2. slot' # slot
      OBVIOUS
<1>3. ASSUME NEW y \in Dests, CleanTemporary(y) PROVE FALSE
  <2>1. slot' = [slot EXCEPT ![y].temp = @ \ {journal.tx}]
        BY <1>3 DEF CleanTemporary
  <2>2. PICK c, t : c = slot[y] /\ t = journal.tx
        OBVIOUS
  <2>3. c \in Slots /\ DOMAIN slot = Dests
        BY <1>1, <2>2, SlotFacts DEF TypeDisk
  <2>4. LET e == [c EXCEPT !.temp = c.temp \ {t}] IN e.file = c.file
        BY <2>3, SMT DEF Slots
  <2>5. slot'[y] = [c EXCEPT !.temp = c.temp \ {t}] /\ \A z \in Dests : z # y => slot'[z] = slot[z]
        BY <2>1, <2>2, <2>3
  <2>6. slot'[y].file = slot[y].file
        BY <2>2, <2>4, <2>5
  <2> QED BY <1>1, <2>5, <2>6
<1>4. ASSUME NEW y \in Dests, Install(y) PROVE call.at \in Installing
      BY <1>4 DEF Install, At, Installing
<1>5. ASSUME Retire PROVE call.at \in Installing
      BY <1>5 DEF Retire, At, Installing
<1>6. ASSUME NEW w \in Writers, NEW b \in Batches, Stage(w, b) PROVE FALSE
  <2>1. PICK t, i : Stages(w, b, t, i)
        BY <1>6, StageFacts
  <2>2. /\ SourcesStand(b) /\ journal' = journal /\ Generation + b.bump <= MaxGeneration /\ i = Intent(b, t)
        /\ PlanStep(b, t, Selected, i.next)
        /\ slot' = [y \in Dests |-> IF y \in Entries(i) THEN [slot[y] EXCEPT !.temp = @ \cup {t}] ELSE slot[y]]
        /\ Flush({Parent[y] : y \in Entries(i)})
        BY <2>1 DEF Stages
  <2>3. t \in Tx
    <3>1. txs \in Nat /\ MaxTx \in Nat
          BY <1>1, ShapeParts, TxsNat, RewriteAssumption
    <3> QED BY <2>2, <3>1, SMT DEF PlanStep, Tx
  <2>4. Entries(i) \in SUBSET Dests
        BY <1>1, <2>2, <2>3, IntentStaged, IntentFacts
  <2>5. PICK E : E = Entries(i)
        OBVIOUS
  <2>6. /\ E \in SUBSET Dests /\ Flush({Parent[y] : y \in E})
        /\ slot' = [y \in Dests |-> IF y \in E THEN [slot[y] EXCEPT !.temp = @ \cup {t}] ELSE slot[y]]
        BY <2>2, <2>4, <2>5
  <2>7. \A y \in Dests : slot'[y].file = slot[y].file
        BY <1>1, <2>2, <2>3, <2>6, StagedTemps
  <2> QED BY <1>1, <2>7
<1>7. CASE Step
  <2>1. ~ReplayNothing /\ ~ReplayBegin /\ ~ReplayRefused /\ ~UnlinkJournal /\ ~FlushStep
        BY <1>2 DEF ReplayNothing, ReplayBegin, ReplayRefused, UnlinkJournal, FlushStep, disk
  <2>2. \A w \in Writers : /\ ~StageRejected(w) /\ ~PublishPreparing(w) /\ ~PublishDurable(w)
                           /\ ~CommitReturns(w) /\ ~RecoverReturns(w) /\ ~ReconcileReturns(w)
        BY <1>2 DEF StageRejected, PublishPreparing, PublishDurable, CommitReturns, RecoverReturns, ReconcileReturns, disk
  <2> QED BY <1>3, <1>4, <1>5, <1>6, <1>7, <2>1, <2>2 DEF Step
<1>8. ~PowerLoss
      BY <1>1, SMT DEF PowerLoss
<1>9. \A w \in Writers : ~Fail(w) /\ ~Kill(w)
      BY <1>1, SMT DEF Fail, Kill
<1>10. \A w \in Writers : /\ ~StartCommit(w) /\ ~StartRecover(w) /\ ~StartReconcile(w)
                          /\ ~TakeLock(w) /\ ~StageMove(w)
      BY <1>2 DEF StartCommit, StartRecover, StartReconcile, Acquire, TakeLock, StageMove, disk
<1> QED BY <1>7, <1>8, <1>9, <1>10 DEF Next, Recovers, Acquires

LEMMA WriteAheadStep ==
    ASSUME IInv, Next, NEW x \in Data, slot'[x].file # slot[x].file
    PROVE  \/ faults' # faults \/ Journal \in missed
           \/ djournal # None /\ djournal.state = "durable" /\ journal = djournal
<1> SUFFICES ASSUME faults' = faults, Journal \notin missed
             PROVE  djournal # None /\ djournal.state = "durable" /\ journal = djournal
    OBVIOUS
<1>1. Durable(journal) /\ KeptIntent = journal
      BY FilesStay, ShapeParts DEF IInv, Place
<1> QED BY <1>1 DEF Durable, KeptIntent

\* Every variable of the rewrite stays in its type, for any number of writers,
\* destinations, batches, transactions and faults; in particular every intent that is
\* visible, on disk or kept by a writer is well-formed, so the records that
\* recover_locked reads are those that commit_locked wrote.
THEOREM Types == Spec => []TypeOK
<1>1. IInv => TypeOK
      BY DEF IInv, Shape
<1> QED BY <1>1, Invariant, PTL

\* Through kills, power losses and interrupted replays the data files are those of the
\* visible generation.json, unless a power loss undid a rename that a replay found done
\* and did not flush: the data entries are renamed and the sources unlinked, and all of
\* it flushed, before generation.json is renamed.
THEOREM WholeRewrite == Spec => []WholeUnlessBarrierMissed
BY WholeHolds, Invariant, PTL

\* What commit reported as done stays done: its transaction is an ancestor of the one
\* whose generation.json is visible.
THEOREM CommitsStay == Spec => []CommittedStays
BY CommittedHolds, Invariant, PTL

\* A file on its way to another name is on disk under one of the two: its source is
\* unlinked only after its destination was renamed and flushed.
THEOREM MovesAreSafe == Spec => []MovedFileOnDisk
BY MovedFileHolds, Invariant, PTL

\* What reconcile_generation_transition and reconcile_auxiliary tell the writer of a
\* failed commit stays true of what happened to it.
THEOREM AnswersAreTrue == Spec => []ReconcileTruthful
BY ReconcileHolds, Invariant, PTL

\* A generation number that was visible once names one transaction.
THEOREM GenerationsAreUnique == Spec => []GenerationNamesOne
BY GenerationHolds, Invariant, PTL

\* The authentication in a replay accepts every state that a crash can leave.
THEOREM ReplayAccepts == Spec => []ReplayNeverRefuses
<1>1. IInv => ReplayNeverRefuses
      BY DEF IInv, Good, ReplayNeverRefuses
<1> QED BY <1>1, Invariant, PTL

\* No data file changes before the durable intent that names it is on disk, and none
\* after the intent is gone, unless the replay relied on an intent that it did not flush.
THEOREM IntentFirst == Spec => WriteAhead
<1> DEFINE P == \A x \in Data : slot'[x].file # slot[x].file =>
                    \/ faults' # faults \/ Journal \in missed
                    \/ djournal # None /\ djournal.state = "durable" /\ journal = djournal
<1>1. IInv /\ [Next]_vars => [P]_vars
  <2>1. CASE UNCHANGED vars
        BY <2>1
  <2>2. ASSUME IInv, Next PROVE P
        BY <2>2, WriteAheadStep
  <2> QED BY <2>1, <2>2
<1> HIDE DEF P
<1>2. Spec => [][P]_vars
      BY <1>1, Invariant, PTL DEF Spec
<1> QED BY <1>2 DEF WriteAhead, P
=============================================================================
