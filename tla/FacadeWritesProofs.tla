------------------------- MODULE FacadeWritesProofs -------------------------
(***************************************************************************)
(* The safety properties of FacadeWrites for every set of facades,         *)
(* operations and properties, and every number of calls, rebases, faults   *)
(* and administrative changes.                                             *)
(*                                                                         *)
(* Local says what a facade can rely on at each place of a call.  Other    *)
(* facades only append generations, and of operations of their own; so a   *)
(* facade that finds CURRENT at the generation in its memory knows its     *)
(* workspace and its catalog relative to CURRENT, and one that does not is *)
(* Behind and publishes nothing before it has installed CURRENT.           *)
(***************************************************************************)
EXTENDS FacadeWrites, TLAPS

\* Most leaves are first-order; those that need arithmetic, sequences or records name SMT.
USE ZenonT(20)

GraphT == [rows : [Ops -> Nat], val : [Fields -> Ops \cup {None, Gone}]]
GenT   == [rows : [Ops -> Nat], val : [Fields -> Ops \cup {None, Gone}], names : SUBSET Ops,
           admin : 0..MaxAdmin, by : Ops \cup {None}]
CallT  == [op : Ops \cup {None}, owner : Nat, from : Nat, point : GraphT \cup {Torn},
           prior : SUBSET Ops, parent : Nat, baseline : Nat, rebases : 0..MaxRebases,
           why : {"none", "conflict", "exhausted", "error"}]

Loop   == {"resolve", "prepare", "attempt", "abort", "rebase"}
Owned  == {"lookup", "publish", "restore"}
Places == {"idle", "execute"} \cup Owned \cup Loop
Outcomes == {"none", "committed", "conflict", "exhausted", "error"}
Causes == {"discarded", "left over", "rewound", "swallowed", "catalog", "unchecked", "half way"}

Typed ==
    /\ gens \in Seq(GenT) /\ CURRENT >= 1
    /\ mem \in [Facades -> Nat] /\ \A f \in Facades : mem[f] \in 1..CURRENT
    /\ ws \in [Facades -> GraphT \cup {Torn}]
    /\ cat \in [Facades -> SUBSET Ops]
    /\ health \in [Facades -> {"ok", "failed"}]
    /\ pc \in [Facades -> Places]
    /\ call \in [Facades -> CallT]
    /\ told \in [Ops -> Outcomes]
    /\ spoiled \subseteq Causes

\* The call a facade is in.  While it may still publish its operation nobody has.
InCall(f) ==
    /\ pc[f] = "idle" => call[f] = NoCall
    /\ pc[f] # "idle" => /\ call[f].op \in Ops /\ Request[call[f].op].at = f
                         /\ told[call[f].op] = "none" /\ health[f] = "ok"
    /\ pc[f] \in Loop => Kind(f) \in {"composite", "mixed"}
    /\ pc[f] \in {"execute", "restore"} => Kind(f) # "composite"
    /\ pc[f] = "lookup" => Kind(f) = "mixed"
    /\ pc[f] = "publish" => Kind(f) \in {"script", "query"}
    /\ pc[f] \in {"execute", "lookup"} => call[f].rebases = 0 /\ call[f].baseline = 0
    /\ pc[f] \in {"publish", "attempt"} => ws[f] \in GraphT
    /\ pc[f] = "abort" => call[f].why \in {"conflict", "error"}
    /\ (\/ pc[f] \in {"resolve", "prepare", "attempt", "rebase"}
        \/ pc[f] = "abort" /\ call[f].why = "conflict")
           => ~Published(call[f].op)

\* Generation i has the values of the properties to be set that the baseline has.
SameVal(f, i) == \A x \in Sets(f) : gens[i].val[x] = gens[call[f].baseline].val[x]

\* What the loop of a composite publication has compared.
InLoop(f) ==
    /\ pc[f] \in Loop => call[f].baseline <= CURRENT
    /\ pc[f] \in {"prepare", "attempt", "abort"} => call[f].parent = mem[f]
    /\ pc[f] \in {"resolve", "prepare"} => (call[f].rebases = 0 <=> call[f].baseline = 0)
    /\ pc[f] \in {"attempt", "abort"} /\ f \in Optimistic => call[f].baseline # 0
    /\ pc[f] = "rebase" => f \in Optimistic /\ call[f].baseline # 0
    /\ pc[f] = "resolve" /\ call[f].rebases # 0 => SameVal(f, mem[f])
    /\ "unchecked" \notin spoiled =>
          /\ pc[f] = "prepare" /\ call[f].rebases # 0 => SameVal(f, mem[f])
          /\ pc[f] = "attempt" /\ f \in Optimistic => SameVal(f, mem[f])

Behind(f) == mem[f] < CURRENT

Unmixed  == spoiled \cap {"discarded", "left over", "swallowed"} = {}
Named    == spoiled \cap {"catalog", "rewound"} = {}
Unharmed == spoiled \cap {"half way", "catalog", "rewound", "swallowed", "left over"} = {}

\* Where the mutation lifecycle of a call is to go back to.
Owning(f) == pc[f] \in Owned \/ (pc[f] \in Loop /\ Kind(f) = "mixed")

Back(f) ==
    /\ call[f].from \in 1..call[f].owner /\ call[f].owner \in 1..CURRENT
    /\ Kind(f) # "mixed" \/ "discarded" \notin spoiled
          => mem[f] = call[f].from \/ CURRENT # call[f].owner
    /\ Unmixed => \/ call[f].point = Torn \/ call[f].from < call[f].owner
                  \/ call[f].point = Graph(call[f].from)
    /\ Named => call[f].from < call[f].owner \/ call[f].prior = gens[call[f].from].names
    /\ Unharmed => /\ call[f].point = Graph(call[f].from)
                   /\ call[f].prior = gens[call[f].from].names

Origin(f) == Owning(f) => Back(f)

\* The workspace at each place, as long as nothing mixed another call into it.
GraphAt(f) ==
    /\ pc[f] \in {"idle", "execute", "rebase"} \/ (pc[f] = "resolve" /\ Kind(f) = "composite")
          => ws[f] = Torn \/ Behind(f) \/ ws[f] = Graph(mem[f])
    /\ pc[f] \in {"lookup", "publish"} \/ (pc[f] = "resolve" /\ Kind(f) = "mixed")
          => Behind(f) \/ ws[f] = Ran(Graph(mem[f]), call[f].op)
    /\ pc[f] = "prepare" /\ Kind(f) = "composite" => ws[f] = Torn \/ ws[f] = Graph(mem[f])
    /\ pc[f] = "prepare" /\ Kind(f) = "mixed" => ws[f] = Ran(Graph(mem[f]), call[f].op)
    /\ pc[f] = "attempt" => ws[f] = Whole(Graph(mem[f]), call[f].op)

\* The catalog at each place, as long as it was not taken back too far.
NamesAt(f) ==
    /\ (\/ pc[f] \in {"idle", "execute"} /\ health[f] = "ok"
        \/ pc[f] \in Loop /\ Kind(f) = "composite")
           => Behind(f) \/ cat[f] = gens[mem[f]].names
    /\ pc[f] \in {"lookup", "publish"}
          => Behind(f) \/ cat[f] = gens[mem[f]].names \cup {call[f].op}
    /\ pc[f] \in Loop /\ Kind(f) = "mixed"
          => \/ Behind(f) \/ cat[f] = gens[mem[f]].names
             \/ cat[f] = gens[mem[f]].names \cup {call[f].op}

\* Both, as long as nothing separated them from the generation in memory.
CoherentAt(f) ==
    /\ (\/ pc[f] = "idle" /\ health[f] = "ok"
        \/ pc[f] = "execute"
        \/ pc[f] \in {"resolve", "prepare", "rebase"} /\ Kind(f) = "composite")
           => Coherent(f)
    /\ pc[f] \in {"attempt", "abort"} /\ Kind(f) = "composite" => cat[f] = gens[mem[f]].names

Local(f) ==
    /\ InCall(f) /\ InLoop(f) /\ Origin(f)
    /\ Unmixed => GraphAt(f)
    /\ Named => NamesAt(f)
    /\ Unharmed => CoherentAt(f)

\* A published operation keeps its name in the catalogs of all later generations.
OperationNamed ==
    \A i, j \in 1..CURRENT : i <= j /\ gens[i].by # None => gens[i].by \in gens[j].names

\* The inductive invariant.
IInv ==
    /\ Typed
    /\ \A f \in Facades : Local(f)
    /\ ToldTruthfully
    /\ GenerationIsParentPlusOperation
    /\ Named => OperationNamed

-----------------------------------------------------------------------------
(* The operators.                                                          *)

\* A published graph has the type of a graph.
LEMMA GraphTyped ==
    ASSUME Typed, NEW i \in 1..CURRENT
    PROVE  Graph(i) \in GraphT /\ gens[i] \in GenT
<1>1. gens[i] \in GenT
  BY SMT DEF Typed, CURRENT
<1>2. gens[i].rows \in [Ops -> Nat] /\ gens[i].val \in [Fields -> Ops \cup {None, Gone}]
  BY <1>1, SMT DEF GenT
<1> QED
  BY <1>1, <1>2, SMT DEF Graph, GraphT

\* Running the Cypher of an operation gives a graph.
LEMMA RanTyped ==
    ASSUME NEW g \in GraphT, NEW o \in Ops
    PROVE  Ran(g, o) \in GraphT
BY SMT DEF Ran, GraphT

\* So does applying its composite rows.
LEMMA ChangedTyped ==
    ASSUME NEW g \in GraphT, NEW o \in Ops
    PROVE  Changed(g, o) \in GraphT
BY SMT DEF Changed, GraphT

\* A graph is its rows and its values: what is published is the workspace.
LEMMA GraphIsFields ==
    ASSUME NEW g \in GraphT
    PROVE  [rows |-> g.rows, val |-> g.val] = g
BY SMT DEF GraphT

-----------------------------------------------------------------------------
(* What a step of one facade does to another.                              *)

Kept(g) ==
    /\ mem'[g] = mem[g] /\ ws'[g] = ws[g] /\ cat'[g] = cat[g]
    /\ health'[g] = health[g] /\ pc'[g] = pc[g] /\ call'[g] = call[g]

\* Generations are only appended, and what was spoiled stays so.
Grows ==
    /\ gens' \in Seq(GenT) /\ Len(gens') >= Len(gens)
    /\ \A i \in 1..Len(gens) : gens'[i] = gens[i]
    /\ spoiled \subseteq spoiled'

\* What is new is not of g.
NotOf(g) ==
    /\ \A i \in 1..Len(gens') : i > Len(gens) => gens'[i].by = None \/ Request[gens'[i].by].at # g
    /\ \A o \in Ops : Request[o].at = g => told'[o] = told[o]

\* The generations there were are the same afterwards.
LEMMA GrowsFacts ==
    ASSUME Typed, Grows
    PROVE  /\ CURRENT \in Nat /\ CURRENT' \in Nat /\ CURRENT' >= CURRENT
           /\ \A i \in 1..CURRENT : gens'[i] = gens[i] /\ Graph(i)' = Graph(i)
           /\ \A f \in Facades : mem[f] \in 1..CURRENT
           /\ Unmixed' => Unmixed
           /\ Named' => Named
           /\ Unharmed' => Unharmed
<1>1. CURRENT \in Nat /\ CURRENT' \in Nat /\ CURRENT' >= CURRENT
  BY SMT DEF Typed, Grows, CURRENT
<1>2. \A i \in 1..CURRENT : gens'[i] = gens[i] /\ Graph(i)' = Graph(i)
  BY DEF Grows, CURRENT, Graph
<1>3. \A f \in Facades : mem[f] \in 1..CURRENT
  BY DEF Typed
<1>4. (Unmixed' => Unmixed) /\ (Named' => Named) /\ (Unharmed' => Unharmed)
  BY DEF Grows, Unmixed, Named, Unharmed
<1> QED
  BY <1>1, <1>2, <1>3, <1>4

\* An operation of g is published afterwards only if it was.
LEMMA NotPublished ==
    ASSUME Typed, Grows, NEW g \in Facades, NotOf(g),
           NEW o \in Ops, Request[o].at = g, ~Published(o)
    PROVE  \A i \in DOMAIN gens' : gens'[i].by # o
<1> SUFFICES ASSUME NEW i \in 1..Len(gens'), gens'[i].by = o PROVE FALSE
  BY SMT DEF Grows
<1>1. o # None
  BY FacadeAssumption
<1>2. ~(i > Len(gens))
  BY <1>1 DEF NotOf
<1>3. gens \in Seq(GenT) /\ gens' \in Seq(GenT) /\ \A k \in 1..Len(gens) : gens'[k] = gens[k]
  BY DEF Typed, Grows
<1>4. i \in DOMAIN gens /\ gens[i].by = o
  BY <1>2, <1>3, SMT
<1> QED
  BY <1>4 DEF Published

\* Another facade does not disturb what g relies on.
LEMMA KeptLocal ==
    ASSUME Typed, Typed', NEW g \in Facades, Local(g), Kept(g), Grows, NotOf(g)
    PROVE  Local(g)'
<1>1. /\ CURRENT \in Nat /\ CURRENT' \in Nat /\ CURRENT' >= CURRENT /\ mem[g] \in 1..CURRENT
      /\ \A i \in 1..CURRENT : gens'[i] = gens[i] /\ Graph(i)' = Graph(i)
      /\ Unmixed' => Unmixed
      /\ Named' => Named
      /\ Unharmed' => Unharmed
  BY GrowsFacts
<1>2. gens'[mem[g]] = gens[mem[g]] /\ Graph(mem[g])' = Graph(mem'[g])
  BY <1>1 DEF Kept, Graph
<1>3. InCall(g)'
  <2>1. pc[g] # "idle" => call[g].op \in Ops /\ Request[call[g].op].at = g
    BY DEF Local, InCall
  <2>2. pc[g] # "idle" => told'[call[g].op] = told[call[g].op]
    BY <2>1 DEF NotOf
  <2>3. pc[g] # "idle" /\ ~Published(call[g].op) =>
           \A i \in DOMAIN gens' : gens'[i].by # call[g].op
    BY <2>1, NotPublished
  <2>4. Kind(g)' = Kind(g)
    BY DEF Kept, Kind
  <2> QED
    BY <2>1, <2>2, <2>3, <2>4 DEF Local, InCall, Kept, Loop, Published
<1>4. InLoop(g)'
  <2>1. pc[g] \in Loop /\ call[g].baseline # 0 => call[g].baseline \in 1..CURRENT
    <3>1. call[g].baseline \in Nat
      BY SMT DEF Typed, CallT
    <3> QED
      BY <1>1, <3>1, SMT DEF Local, InLoop
  <2>2. pc[g] \in Loop /\ call[g].baseline # 0 /\ SameVal(g, mem[g]) => SameVal(g, mem[g])'
    <3>1. call'[g] = call[g] /\ mem'[g] = mem[g]
      BY DEF Kept
    <3>2. ASSUME call[g].baseline \in 1..CURRENT
          PROVE  gens'[call[g].baseline] = gens[call[g].baseline]
      BY <1>1, <3>2
    <3> QED
      BY <1>1, <1>2, <2>1, <3>1, <3>2 DEF SameVal, Sets
  <2>3. pc[g] \in Loop => call[g].baseline <= CURRENT'
    <3>1. call[g].baseline \in Nat
      BY SMT DEF Typed, CallT
    <3> QED
      BY <1>1, <3>1, SMT DEF Local, InLoop
  <2>4. "unchecked" \notin spoiled' => "unchecked" \notin spoiled
    BY DEF Grows
  <2> QED
    BY <2>2, <2>3, <2>4 DEF Local, InLoop, Kept, Loop
<1>5. Origin(g)'
  <2> SUFFICES ASSUME Owning(g)' PROVE Back(g)'
    BY DEF Origin
  <2>1. Owning(g) /\ Kind(g)' = Kind(g)
    BY DEF Owning, Kind, Kept
  <2>2. call[g].from \in 1..call[g].owner /\ call[g].owner \in 1..CURRENT
    BY <2>1 DEF Local, Origin, Back
  <2>3. call[g].from \in 1..CURRENT /\ call[g].owner \in 1..CURRENT'
    BY <1>1, <2>2, SMT
  <2>4. /\ gens'[call[g].from] = gens[call[g].from]
        /\ Graph(call[g].from)' = Graph(call[g].from)
    BY <1>1, <2>3 DEF Graph, Kept
  <2>5. mem[g] = call[g].from \/ CURRENT # call[g].owner => mem[g] = call[g].from \/ CURRENT' # call[g].owner
    BY <1>1, <2>2, SMT
  <2>6. Back(g)
    BY <2>1 DEF Local, Origin
  <2> QED
    BY <1>1, <2>1, <2>2, <2>3, <2>4, <2>5, <2>6 DEF Back, Kept, Grows
<1>6. Behind(g) => Behind(g)'
  BY <1>1, SMT DEF Behind, Kept, CURRENT
<1>7. GraphAt(g) => GraphAt(g)'
  BY <1>2, <1>6 DEF GraphAt, Kept, Kind
<1>8. NamesAt(g) => NamesAt(g)'
  BY <1>2, <1>6 DEF NamesAt, Kept, Kind, Loop
<1>9. CoherentAt(g) => CoherentAt(g)'
  BY <1>2 DEF CoherentAt, Coherent, Kept, Kind
<1> QED
  BY <1>1, <1>3, <1>4, <1>5, <1>7, <1>8, <1>9 DEF Local

\* What a call answers is true.
Answers(f) ==
    \/ told' = told
    \/ \E o \in Ops, outcome \in Outcomes :
          /\ Request[o].at = f
          /\ told' = [told EXCEPT ![o] = outcome]
          /\ outcome = "committed" => Published(o)
          /\ outcome \in {"conflict", "exhausted"} /\ Request[o].kind = "composite" => ~Published(o)

\* A step of f that publishes nothing keeps the invariant if f can rely on what it has to.
LEMMA QuietStep ==
    ASSUME IInv, NEW f \in Facades, Typed', Local(f)', Answers(f),
           \A g \in Facades \ {f} : Kept(g), gens' = gens, spoiled \subseteq spoiled'
    PROVE  IInv'
<1>1. Grows
  BY SMT DEF IInv, Typed, Grows
<1>2. ASSUME NEW g \in Facades \ {f}
      PROVE  NotOf(g)
  <2>1. \A o \in Ops : Request[o].at = g => told'[o] = told[o]
    BY DEF IInv, Typed, Answers, Outcomes
  <2> QED
    BY <2>1, SMT DEF IInv, Typed, NotOf
<1>3. \A g \in Facades : Local(g)'
  BY <1>1, <1>2, KeptLocal DEF IInv
<1>4. \A o : Published(o)' <=> Published(o)
  BY DEF Published
<1>5. ToldTruthfully'
  <2>1. \A o \in Ops : /\ told'[o] = "committed" => Published(o)
                       /\ told'[o] \in {"conflict", "exhausted"} /\ Request[o].kind = "composite"
                              => ~Published(o)
    BY DEF IInv, Typed, ToldTruthfully, Answers
  <2> QED
    BY <1>4, <2>1 DEF IInv, ToldTruthfully, Published
<1>6. (Unmixed' => Unmixed) /\ (Named' => Named)
  BY <1>1, GrowsFacts DEF IInv
<1>7. GenerationIsParentPlusOperation'
  BY <1>6
  DEF IInv, GenerationIsParentPlusOperation, CommitIsWhole, Graph, CURRENT, Unmixed, Named
<1>8. Named' => OperationNamed'
  BY <1>6 DEF IInv, OperationNamed, CURRENT
<1> QED
  BY <1>3, <1>5, <1>7, <1>8 DEF IInv

\* A step that appends generation r keeps the invariant if r is its operation applied
\* once, and its operation is new.
LEMMA AppendStep ==
    ASSUME IInv, Typed', \A f \in Facades : Local(f)', spoiled' = spoiled,
           NEW r \in GenT, gens' = Append(gens, r),
           r.by # None => ~Published(r.by),
           Unmixed /\ r.by # None
               => [rows |-> r.rows, val |-> r.val] = Whole(Graph(CURRENT), r.by),
           Named => r.names = gens[CURRENT].names \cup ({r.by} \ {None}),
           \A o \in Ops :
               /\ told'[o] = "committed" => told[o] = "committed" \/ o = r.by
               /\ told'[o] \in {"conflict", "exhausted"} => told'[o] = told[o] /\ o # r.by
    PROVE  IInv'
<1> DEFINE n == Len(gens)
<1>1. /\ n \in Nat /\ n >= 1 /\ Len(gens') = n + 1 /\ gens'[n + 1] = r
      /\ \A i \in 1..n : gens'[i] = gens[i]
      /\ DOMAIN gens' = 1..(n + 1) /\ DOMAIN gens = 1..n /\ CURRENT = n /\ CURRENT' = n + 1
  BY SMT DEF IInv, Typed, CURRENT
<1> HIDE DEF n
<1>2. \A i \in 1..(n + 1) : i \in 1..n \/ i = n + 1
  BY <1>1, SMT
<1>3. \A i \in 2..(n + 1) : i # n + 1 => i \in 2..n /\ i \in 1..n /\ (i - 1) \in 1..n
  BY <1>1, SMT
<1>4. \A o : Published(o)' <=> Published(o) \/ o = r.by
  BY <1>1, <1>2, SMT DEF Published
<1>5. ToldTruthfully'
  <2>1. ASSUME NEW i \in 1..(n + 1), NEW j \in 1..(n + 1),
               gens'[i].by = gens'[j].by, gens'[i].by # None
        PROVE  i = j
    <3>1. CASE i \in 1..n /\ j \in 1..n
      <4>1. gens[i].by = gens[j].by /\ gens[i].by # None /\ i \in DOMAIN gens /\ j \in DOMAIN gens
        BY <1>1, <2>1, <3>1
      <4> QED
        BY <4>1 DEF IInv, ToldTruthfully
    <3>2. CASE i = n + 1 /\ j \in 1..n
      BY <1>1, <2>1, <3>2 DEF Published
    <3>3. CASE i \in 1..n /\ j = n + 1
      BY <1>1, <2>1, <3>3 DEF Published
    <3> QED
      BY <1>2, <3>1, <3>2, <3>3
  <2>2. \A o \in Ops : /\ told'[o] = "committed" => Published(o)'
                       /\ told'[o] \in {"conflict", "exhausted"} /\ Request[o].kind = "composite"
                              => ~Published(o)'
    BY <1>4 DEF IInv, ToldTruthfully
  <2> QED
    BY <1>1, <2>1, <2>2 DEF ToldTruthfully
<1>6. (Unmixed' <=> Unmixed) /\ (Named' <=> Named)
  BY DEF Unmixed, Named
<1>7. \A i \in 1..n : Graph(i)' = Graph(i)
  BY <1>1 DEF Graph
<1>8. Unmixed => CommitIsWhole'
  <2> SUFFICES ASSUME Unmixed, NEW i \in 2..(n + 1), gens'[i].by # None
               PROVE  Graph(i)' = Whole(Graph(i - 1)', gens'[i].by)
    BY <1>1 DEF CommitIsWhole
  <2>1. CASE i = n + 1
    <3>1. Graph(i)' = [rows |-> r.rows, val |-> r.val] /\ gens'[i].by = r.by
      BY <1>1, <2>1 DEF Graph
    <3>2. i - 1 = n /\ n \in 1..n
      BY <1>1, <2>1, SMT
    <3>3. Graph(i - 1)' = Graph(CURRENT)
      BY <1>1, <1>7, <3>2
    <3> QED
      BY <2>1, <3>1, <3>3
  <2>2. CASE i # n + 1
    <3>1. i \in 2..CURRENT /\ i \in 1..n /\ i - 1 \in 1..n
      BY <1>1, <1>3, <2>2
    <3>2. gens'[i] = gens[i] /\ Graph(i)' = Graph(i) /\ Graph(i - 1)' = Graph(i - 1)
      BY <1>1, <1>7, <3>1
    <3>3. CommitIsWhole
      BY DEF IInv, GenerationIsParentPlusOperation, Unmixed
    <3>4. gens[i].by # None => Graph(i) = Whole(Graph(i - 1), gens[i].by)
      BY <3>1, <3>3 DEF CommitIsWhole
    <3> QED
      BY <3>2, <3>4
  <2> QED
    BY <2>1, <2>2
<1>9. Named => \A i \in 2..(n + 1) : gens'[i].names = gens'[i - 1].names \cup ({gens'[i].by} \ {None})
  <2> SUFFICES ASSUME Named, NEW i \in 2..(n + 1)
               PROVE  gens'[i].names = gens'[i - 1].names \cup ({gens'[i].by} \ {None})
    OBVIOUS
  <2>1. CASE i = n + 1
    <3>1. i - 1 = n /\ n \in 1..n
      BY <1>1, <2>1, SMT
    <3>2. gens'[i] = r /\ gens'[i - 1] = gens[CURRENT]
      BY <1>1, <2>1, <3>1
    <3> QED
      BY <3>2
  <2>2. CASE i # n + 1
    <3>1. i \in 2..CURRENT /\ gens'[i] = gens[i] /\ gens'[i - 1] = gens[i - 1]
      BY <1>1, <1>3, <2>2
    <3> QED
      BY <3>1 DEF IInv, GenerationIsParentPlusOperation, Named
  <2> QED
    BY <2>1, <2>2
<1>10. Named => OperationNamed'
  <2> SUFFICES ASSUME Named, NEW i \in 1..(n + 1), NEW j \in 1..(n + 1), i <= j, gens'[i].by # None
               PROVE  gens'[i].by \in gens'[j].names
    BY <1>1 DEF OperationNamed
  <2>0. n \in 1..n
    BY <1>1, SMT
  <2>1. CASE i = n + 1
    <3>1. j = n + 1
      BY <1>1, <2>1, SMT
    <3> QED
      BY <1>1, <2>1, <3>1
  <2>2. CASE i \in 1..n /\ j = n + 1
    <3>1. i <= n
      BY <1>1, <2>2, SMT
    <3>2. gens[i].by \in gens[n].names
      BY <1>1, <2>0, <2>2, <3>1 DEF IInv, OperationNamed
    <3> QED
      BY <1>1, <2>2, <3>2
  <2>3. CASE i \in 1..n /\ j \in 1..n
    BY <1>1, <2>3 DEF IInv, OperationNamed
  <2> QED
    BY <1>2, <2>1, <2>2, <2>3
<1>11. GenerationIsParentPlusOperation'
  BY <1>1, <1>6, <1>8, <1>9 DEF GenerationIsParentPlusOperation, Unmixed, Named
<1> QED
  BY <1>5, <1>6, <1>10, <1>11 DEF IInv

-----------------------------------------------------------------------------
(* Calls begin.                                                            *)

\* A call that enters its first place.
LEMMA EnterStep ==
    ASSUME IInv, NEW f \in Facades, NEW o \in Ops, NEW place \in {"resolve", "execute"},
           pc[f] = "idle", health[f] = "ok", Request[o].at = f,
           Goto(f, place), call' = [call EXCEPT ![f].op = o],
           told' = [told EXCEPT ![o] = "none"],
           UNCHANGED <<gens, mem, ws, cat, health, spoiled>>,
           place = "resolve" => Request[o].kind = "composite" /\ ~Published(o),
           place = "execute" => Request[o].kind # "composite"
    PROVE  IInv'
<1>1. /\ pc'[f] = place /\ call'[f] = [NoCall EXCEPT !.op = o] /\ told'[o] = "none"
      /\ \A g \in Facades \ {f} : Kept(g)
  <2>1. call[f] = NoCall
    BY DEF IInv, Local, InCall
  <2>2. pc'[f] = place /\ told'[o] = "none"
    BY DEF IInv, Typed, Goto
  <2>3. call'[f] = [call[f] EXCEPT !.op = o]
    BY SMT DEF IInv, Typed
  <2>4. \A g \in Facades \ {f} : Kept(g)
    BY SMT DEF IInv, Typed, Goto, Kept
  <2> QED
    BY <2>1, <2>2, <2>3, <2>4
<1>2. call'[f].op = o /\ call'[f].rebases = 0 /\ call'[f].baseline = 0
  BY <1>1, SMT DEF NoCall
<1>3. Typed'
  <2>1. call'[f] \in CallT
    BY <1>1, FacadeAssumption, SMT DEF NoCall, CallT
  <2>2. call' \in [Facades -> CallT]
    BY <1>1, <2>1, SMT DEF IInv, Typed, Kept
  <2>3. pc' \in [Facades -> Places] /\ told' \in [Ops -> Outcomes]
    BY DEF IInv, Typed, Goto, Places, Loop, Outcomes
  <2> QED
    BY <2>2, <2>3 DEF IInv, Typed, CURRENT
<1>4. Kind(f)' = Request[o].kind
  BY <1>2 DEF Kind
<1>5. InCall(f)'
  BY <1>1, <1>2, <1>4 DEF InCall, Loop, Published
<1>6. InLoop(f)'
  BY <1>1, <1>2, SMT DEF IInv, Typed, InLoop, CURRENT
<1>7. Origin(f)'
  BY <1>1, <1>4 DEF Origin, Owning, Owned, Loop
<1>8. (Unmixed <=> Unmixed') /\ (Named <=> Named') /\ (Unharmed <=> Unharmed')
  BY DEF Unmixed, Named, Unharmed
<1>9. Local(f) /\ (Behind(f)' <=> Behind(f)) /\ Graph(mem[f])' = Graph(mem[f])
  BY DEF IInv, Behind, Graph, CURRENT
<1>10. Unmixed' => GraphAt(f)'
  BY <1>1, <1>4, <1>8, <1>9 DEF Local, GraphAt
<1>11. Named' => NamesAt(f)'
  BY <1>1, <1>4, <1>8, <1>9 DEF Local, NamesAt, Loop
<1>12. Unharmed' => CoherentAt(f)'
  BY <1>1, <1>4, <1>8, <1>9 DEF Local, CoherentAt, Coherent
<1>13. Answers(f)
  BY DEF Answers, Outcomes
<1> QED
  BY <1>1, <1>3, <1>5, <1>6, <1>7, <1>10, <1>11, <1>12, <1>13, QuietStep DEF Local

\* A call that only answers.
LEMMA AnswerStep ==
    ASSUME IInv, NEW f \in Facades, Answers(f),
           UNCHANGED <<gens, mem, ws, cat, health, spoiled, pc, call>>, pc[f] = "idle"
    PROVE  IInv'
<1>1. \A g \in Facades : Kept(g)
  BY DEF Kept
<1>2. Typed'
  <2>1. told' \in [Ops -> Outcomes]
    BY DEF IInv, Typed, Answers, Outcomes
  <2> QED
    BY <2>1 DEF IInv, Typed, CURRENT
<1>3. Local(f)'
  <2>1. Local(f) /\ (Behind(f)' <=> Behind(f)) /\ (Graph(mem[f])' = Graph(mem[f])) /\ Kind(f)' = Kind(f)
    BY DEF IInv, Behind, Graph, CURRENT, Kind
  <2>2. InCall(f)' /\ InLoop(f)' /\ Origin(f)'
    BY <2>1 DEF Local, InCall, InLoop, Origin, Owning, Owned, Loop
  <2> QED
    BY <2>1, <2>2 DEF Local, GraphAt, NamesAt, CoherentAt, Coherent, Unmixed, Named, Unharmed, Loop
<1> QED
  BY <1>1, <1>2, <1>3, QuietStep

\* A call begins.
LEMMA BeginStep ==
    ASSUME IInv, NEW f \in Facades, NEW o \in Ops, Compose(f, o) \/ Commit(f, o) \/ Query(f, o)
    PROVE  IInv'
<1>1. CASE Compose(f, o)
  <2>1. CASE Published(o)
    <3>1. Answers(f)
      BY <1>1, <2>1 DEF Compose, Enter, Answers, Outcomes
    <3> QED
      BY <1>1, <2>1, <3>1, AnswerStep DEF Compose, Enter, self
  <2>2. CASE ~Published(o)
    BY <1>1, <2>2, EnterStep DEF Compose, Enter, self
  <2> QED
    BY <2>1, <2>2
<1>2. CASE Commit(f, o)
  <2>0. Request[o].kind # "composite"
    BY <1>2, SMT DEF Commit
  <2>1. CASE told' = [told EXCEPT ![o] = "conflict"] /\ UNCHANGED <<pc, call>>
    <3>1. Answers(f)
      BY <1>2, <2>0, <2>1 DEF Commit, Enter, Answers, Outcomes
    <3> QED
      BY <1>2, <2>1, <3>1, AnswerStep DEF Commit, Enter, self
  <2>2. CASE /\ Goto(f, "execute") /\ call' = [call EXCEPT ![f].op = o]
             /\ told' = [told EXCEPT ![o] = "none"]
    BY <1>2, <2>0, <2>2, EnterStep DEF Commit, Enter, self
  <2> QED
    BY <1>2, <2>1, <2>2 DEF Commit
<1>3. CASE Query(f, o)
  <2>1. told' = [told EXCEPT ![o] = "none"] /\ Request[o].kind # "composite"
    BY <1>3, SMT DEF IInv, Typed, Query
  <2> QED
    BY <1>3, <2>1, EnterStep DEF Query, Enter, self
<1> QED
  BY <1>1, <1>2, <1>3

-----------------------------------------------------------------------------
(* Steps that several actions share: returning, and going to the restore.  *)

\* A reason is added to a call.
LEMMA WhyTyped ==
    ASSUME NEW c \in CallT, NEW outcome \in {"conflict", "exhausted", "error"}
    PROVE  [c EXCEPT !.why = outcome] \in CallT
BY SMT DEF CallT

\* A call that returns leaves its facade idle.
LEMMA ReturnFacts ==
    ASSUME Typed, NEW f \in Facades, NEW outcome \in Outcomes, Return(f, outcome)
    PROVE  /\ pc' \in [Facades -> Places] /\ call' \in [Facades -> CallT] /\ told' \in [Ops -> Outcomes]
           /\ pc'[f] = "idle" /\ call'[f] = NoCall
           /\ \A g \in Facades \ {f} : pc'[g] = pc[g] /\ call'[g] = call[g]
           /\ told' = [told EXCEPT ![call[f].op] = outcome]
<1>1. NoCall \in CallT
  BY FacadeAssumption, SMT DEF NoCall, CallT
<1>2. "idle" \in Places
  BY DEF Places
<1> QED
  BY <1>1, <1>2 DEF Typed, Return, Goto

\* An error goes to the caller, or to the transaction the publication is part of.
LEMMA GiveFacts ==
    ASSUME Typed, NEW f \in Facades, NEW outcome \in {"conflict", "exhausted", "error"},
           Give(f, outcome)
    PROVE  /\ pc' \in [Facades -> Places] /\ call' \in [Facades -> CallT] /\ told' \in [Ops -> Outcomes]
           /\ Kind(f) = "composite" =>
                 /\ pc'[f] = "idle" /\ call'[f] = NoCall
                 /\ told' = [told EXCEPT ![call[f].op] = outcome]
           /\ Kind(f) # "composite" =>
                 /\ pc'[f] = "restore" /\ call'[f] = [call[f] EXCEPT !.why = outcome]
                 /\ told' = told
           /\ \A g \in Facades \ {f} : pc'[g] = pc[g] /\ call'[g] = call[g]
<1>1. CASE Kind(f) = "composite"
  BY <1>1, ReturnFacts DEF Give, Outcomes
<1>2. CASE Kind(f) # "composite"
  <2>1. call' = [call EXCEPT ![f] = [call[f] EXCEPT !.why = outcome]] /\ told' = told
    BY <1>2, SMT DEF Give
  <2>2. [call[f] EXCEPT !.why = outcome] \in CallT
    BY WhyTyped DEF Typed
  <2>3. "restore" \in Places
    BY DEF Places, Owned
  <2> QED
    BY <1>2, <2>1, <2>2, <2>3 DEF Typed, Give, Goto
<1> QED
  BY <1>1, <1>2

\* What an idle facade has to rely on.
LEMMA IdleLocal ==
    ASSUME NEW f \in Facades, pc'[f] = "idle", call'[f] = NoCall,
           Unmixed' => ws'[f] = Torn \/ Behind(f)' \/ ws'[f] = Graph(mem[f])',
           health'[f] = "ok" /\ Named' => Behind(f)' \/ cat'[f] = gens'[mem'[f]].names,
           health'[f] = "ok" /\ Unharmed' => Coherent(f)'
    PROVE  Local(f)'
<1>1. InCall(f)' /\ InLoop(f)' /\ Origin(f)'
  BY DEF InCall, InLoop, Origin, Owning, Owned, Loop
<1>2. (Unmixed' => GraphAt(f)') /\ (Named' => NamesAt(f)') /\ (Unharmed' => CoherentAt(f)')
  BY DEF GraphAt, NamesAt, CoherentAt, Loop
<1> QED
  BY <1>1, <1>2 DEF Local

\* What a facade has to rely on that is to restore.
LEMMA RestoreLocal ==
    ASSUME NEW f \in Facades, pc'[f] = "restore", call'[f].op \in Ops,
           Request[call'[f].op].at = f, Request[call'[f].op].kind # "composite",
           told'[call'[f].op] = "none", health'[f] = "ok", Back(f)'
    PROVE  Local(f)'
<1>1. InCall(f)' /\ InLoop(f)' /\ Origin(f)'
  BY DEF InCall, InLoop, Origin, Loop, Kind
<1>2. (Unmixed' => GraphAt(f)') /\ (Named' => NamesAt(f)') /\ (Unharmed' => CoherentAt(f)')
  BY DEF GraphAt, NamesAt, CoherentAt, Loop
<1> QED
  BY <1>1, <1>2 DEF Local

-----------------------------------------------------------------------------
(* The mutation lifecycle.                                                 *)

\* The owner of a mutation remembers what the facade had.
LEMMA OwnerBack ==
    ASSUME IInv, NEW f \in Facades, pc[f] = "execute",
           call'[f].op = call[f].op, call'[f].owner = CURRENT, call'[f].from = mem[f],
           call'[f].point = ws[f], call'[f].prior = cat[f],
           UNCHANGED <<gens, mem, spoiled>>
    PROVE  Back(f)'
<1>1. Local(f) /\ health[f] = "ok" /\ CURRENT \in Nat /\ mem[f] \in 1..CURRENT
  BY SMT DEF IInv, Typed, Local, InCall, CURRENT
<1>2. call'[f].from \in 1..call'[f].owner /\ call'[f].owner \in 1..CURRENT'
  BY <1>1, SMT DEF CURRENT
<1>3. /\ Unmixed => ws[f] = Torn \/ mem[f] < CURRENT \/ ws[f] = Graph(mem[f])
      /\ Named => mem[f] < CURRENT \/ cat[f] = gens[mem[f]].names
      /\ Unharmed => ws[f] = Graph(mem[f]) /\ cat[f] = gens[mem[f]].names
  BY <1>1 DEF Local, GraphAt, NamesAt, CoherentAt, Coherent, Behind
<1>4. (Unmixed <=> Unmixed') /\ (Named <=> Named') /\ (Unharmed <=> Unharmed') /\ CURRENT' = CURRENT
  BY DEF Unmixed, Named, Unharmed, CURRENT
<1>5. Graph(call[f].from)' = Graph(mem[f])
  BY DEF Graph
<1> QED
  BY <1>2, <1>3, <1>4, <1>5 DEF Back

\* And is a call still.
LEMMA OwnerTyped ==
    ASSUME Typed, NEW f \in Facades
    PROVE  Owner(f) \in CallT
<1>1. CURRENT \in Nat
  BY SMT DEF Typed, CURRENT
<1>2. /\ call[f] \in CallT /\ mem[f] \in Nat /\ ws[f] \in GraphT \cup {Torn}
      /\ cat[f] \in SUBSET Ops
  BY DEF Typed
<1> DEFINE c1 == [call[f] EXCEPT !.owner = CURRENT]
           c2 == [c1 EXCEPT !.prior = cat[f]]
           c3 == [c2 EXCEPT !.point = ws[f]]
           c4 == [c3 EXCEPT !.from = mem[f]]
<1>3. c1 \in CallT
  BY <1>1, <1>2, SMT DEF CallT
<1>4. c2 \in CallT
  <2> HIDE DEF c1
  <2> QED
    BY <1>2, <1>3, SMT DEF CallT
<1>5. c3 \in CallT
  <2> HIDE DEF c2
  <2> QED
    BY <1>2, <1>4, SMT DEF CallT
<1>6. c4 \in CallT
  <2> HIDE DEF c3
  <2> QED
    BY <1>2, <1>5, SMT DEF CallT
<1> QED
  BY <1>6 DEF Owner

\* The statements run.
LEMMA ExecuteStep ==
    ASSUME IInv, NEW f \in Facades, Execute(f)
    PROVE  IInv'
<1>1. /\ call[f].op \in Ops /\ Request[call[f].op].at = f /\ told[call[f].op] = "none"
      /\ health[f] = "ok" /\ Kind(f) # "composite" /\ Local(f)
      /\ call[f].rebases = 0 /\ call[f].baseline = 0 /\ call[f] \in CallT /\ pc[f] = "execute"
  BY DEF IInv, Typed, Local, InCall, Execute
<1>2. /\ call'[f] = Owner(f) /\ ws'[f] = Ran(ws[f], call[f].op) /\ cat'[f] = cat[f] \cup {call[f].op}
      /\ pc'[f] = (IF Kind(f) = "mixed" THEN "lookup" ELSE "publish")
      /\ UNCHANGED <<gens, mem, health, told, spoiled>>
      /\ \A g \in Facades \ {f} : Kept(g)
  BY DEF IInv, Typed, Execute, Goto, Kept, rest
<1>3. /\ call'[f].op = call[f].op /\ call'[f].owner = CURRENT /\ call'[f].from = mem[f]
      /\ call'[f].point = ws[f] /\ call'[f].prior = cat[f]
      /\ call'[f].rebases = 0 /\ call'[f].baseline = 0
  BY <1>1, <1>2, SMT DEF Owner, CallT
<1>4. Back(f)'
  BY <1>1, <1>2, <1>3, OwnerBack
<1>5. Typed'
  <2>1. Owner(f) \in CallT
    BY OwnerTyped DEF IInv
  <2>2. ws[f] \in GraphT /\ Ran(ws[f], call[f].op) \in GraphT
    BY <1>1, RanTyped DEF IInv, Typed, Execute
  <2>3. cat[f] \cup {call[f].op} \in SUBSET Ops
    BY <1>1 DEF IInv, Typed
  <2>4. {"lookup", "publish"} \subseteq Places
    BY DEF Places, Owned
  <2>5. /\ call' \in [Facades -> CallT] /\ ws' \in [Facades -> GraphT \cup {Torn}]
        /\ cat' \in [Facades -> SUBSET Ops] /\ pc' \in [Facades -> Places]
    BY <2>1, <2>2, <2>3, <2>4 DEF IInv, Typed, Execute, Goto
  <2> QED
    BY <1>2, <2>5 DEF IInv, Typed, CURRENT
<1>6. Kind(f)' = Kind(f)
  BY <1>3 DEF Kind
<1>7. Kind(f) \in {"mixed", "script", "query"}
  BY <1>1, FacadeAssumption, SMT DEF Kind, Kinds
<1>8. InCall(f)'
  <2>1. ws[f] \in GraphT /\ ws'[f] \in GraphT
    BY <1>1, <1>2, RanTyped DEF IInv, Typed, Execute
  <2> QED
    BY <1>1, <1>2, <1>3, <1>6, <1>7, <2>1 DEF InCall, Loop
<1>9. InLoop(f)' /\ Origin(f)'
  BY <1>2, <1>4 DEF InLoop, Loop, Origin
<1>10. /\ (Unmixed <=> Unmixed') /\ (Named <=> Named') /\ (Behind(f) <=> Behind(f)')
       /\ Graph(mem[f])' = Graph(mem[f])
  BY <1>2 DEF Unmixed, Named, Behind, CURRENT, Graph
<1>11. Unmixed' => GraphAt(f)'
  <2>1. Unmixed => Behind(f) \/ ws[f] = Graph(mem[f])
    BY <1>1 DEF Local, GraphAt, Execute
  <2> QED
    BY <1>2, <1>3, <1>10, <2>1 DEF GraphAt
<1>12. Named' => NamesAt(f)'
  BY <1>1, <1>2, <1>3, <1>10 DEF Local, NamesAt, Loop
<1>13. CoherentAt(f)'
  BY <1>2 DEF CoherentAt
<1>14. Answers(f)
  BY <1>2 DEF Answers
<1> QED
  BY <1>2, <1>5, <1>8, <1>9, <1>11, <1>12, <1>13, <1>14, QuietStep DEF Local

\* A statement fails.
LEMMA ExecuteFailsStep ==
    ASSUME IInv, NEW f \in Facades, ExecuteFails(f)
    PROVE  IInv'
<1>1. /\ call[f].op \in Ops /\ Request[call[f].op].at = f /\ told[call[f].op] = "none"
      /\ health[f] = "ok" /\ Kind(f) # "composite" /\ call[f] \in CallT /\ pc[f] = "execute"
  BY DEF IInv, Typed, Local, InCall, ExecuteFails
<1>2. /\ call'[f] = [Owner(f) EXCEPT !.why = "error"] /\ pc'[f] = "restore"
      /\ UNCHANGED <<gens, mem, ws, cat, health, told, spoiled>>
      /\ \A g \in Facades \ {f} : Kept(g)
  BY DEF IInv, Typed, ExecuteFails, Goto, Kept, self
<1>3. /\ call'[f].op = call[f].op /\ call'[f].owner = CURRENT /\ call'[f].from = mem[f]
      /\ call'[f].point = ws[f] /\ call'[f].prior = cat[f]
  BY <1>1, <1>2, SMT DEF Owner, CallT
<1>4. Back(f)'
  BY <1>1, <1>2, <1>3, OwnerBack
<1>5. Typed'
  <2>1. [Owner(f) EXCEPT !.why = "error"] \in CallT
    BY OwnerTyped, WhyTyped DEF IInv
  <2>2. "restore" \in Places
    BY DEF Places, Owned
  <2>3. call' \in [Facades -> CallT] /\ pc' \in [Facades -> Places]
    BY <2>1, <2>2 DEF IInv, Typed, ExecuteFails, Goto
  <2> QED
    BY <1>2, <2>3 DEF IInv, Typed, CURRENT
<1>6. Local(f)'
  BY <1>1, <1>2, <1>3, <1>4, RestoreLocal DEF Kind
<1> QED
  BY <1>2, <1>5, <1>6, QuietStep DEF Answers

\* A busy facade.
LEMMA CallFacts ==
    ASSUME IInv, NEW f \in Facades, pc[f] # "idle"
    PROVE  /\ call[f].op \in Ops /\ call[f].op # None /\ Request[call[f].op].at = f
           /\ told[call[f].op] = "none" /\ health[f] = "ok" /\ Local(f) /\ call[f] \in CallT
           /\ Kind(f) \in Kinds /\ Kind(f) = Request[call[f].op].kind
           /\ CURRENT \in Nat /\ CURRENT >= 1 /\ mem[f] \in 1..CURRENT
<1>1. call[f].op \in Ops /\ Request[call[f].op].at = f /\ told[call[f].op] = "none" /\ health[f] = "ok"
  BY DEF IInv, Local, InCall
<1>2. call[f].op # None /\ Kind(f) \in Kinds /\ Kind(f) = Request[call[f].op].kind
  BY <1>1, FacadeAssumption, SMT DEF Kind
<1>3. CURRENT \in Nat /\ CURRENT >= 1 /\ mem[f] \in 1..CURRENT /\ call[f] \in CallT
  BY SMT DEF IInv, Typed, CURRENT
<1> QED
  BY <1>1, <1>2, <1>3 DEF IInv

\* The operation is looked up after its statements ran.
LEMMA LookupStep ==
    ASSUME IInv, NEW f \in Facades, Lookup(f)
    PROVE  IInv'
<1>1. /\ pc[f] = "lookup" /\ pc[f] # "idle"
      /\ UNCHANGED <<gens, mem, ws, cat, health>>
  BY DEF Lookup, self
<1>2. /\ call[f].op \in Ops /\ call[f].op # None /\ Request[call[f].op].at = f
      /\ told[call[f].op] = "none" /\ health[f] = "ok" /\ Local(f)
      /\ CURRENT \in Nat /\ mem[f] \in 1..CURRENT /\ Kind(f) = Request[call[f].op].kind
  BY <1>1, CallFacts
<1>3. CASE Published(call[f].op)
  <2>1. Return(f, "committed") /\ spoiled' = spoiled \cup {"left over"} /\ "committed" \in Outcomes
    BY <1>3 DEF Lookup, Spoil, Outcomes
  <2>2. /\ pc' \in [Facades -> Places] /\ call' \in [Facades -> CallT] /\ told' \in [Ops -> Outcomes]
        /\ pc'[f] = "idle" /\ call'[f] = NoCall
        /\ \A g \in Facades \ {f} : pc'[g] = pc[g] /\ call'[g] = call[g]
        /\ told' = [told EXCEPT ![call[f].op] = "committed"]
    BY <2>1, ReturnFacts DEF IInv
  <2>3. Typed'
    <3>1. spoiled' \subseteq Causes
      BY <2>1 DEF IInv, Typed, Causes
    <3> QED
      BY <1>1, <2>2, <3>1 DEF IInv, Typed, CURRENT
  <2>4. ~Unmixed' /\ ~Unharmed' /\ (Named' => Named)
    BY <2>1 DEF Unmixed, Unharmed, Named
  <2>5. Named' => Behind(f)' \/ cat'[f] = gens'[mem'[f]].names
    <3> SUFFICES ASSUME Named, ~Behind(f) PROVE cat[f] = gens[mem[f]].names
      BY <1>1, <2>4 DEF Behind, CURRENT
    <3>1. mem[f] = CURRENT
      BY <1>2, SMT DEF Behind
    <3>2. cat[f] = gens[mem[f]].names \cup {call[f].op}
      BY <1>1, <1>2 DEF Local, NamesAt
    <3>3. PICK i \in DOMAIN gens : gens[i].by = call[f].op
      BY <1>3 DEF Published
    <3>4. i \in 1..CURRENT /\ CURRENT \in 1..CURRENT /\ i <= CURRENT
      BY <1>2, <3>1, SMT DEF IInv, Typed, CURRENT
    <3>5. call[f].op \in gens[CURRENT].names
      BY <1>2, <3>3, <3>4 DEF IInv, OperationNamed
    <3> QED
      BY <3>1, <3>2, <3>5
  <2>6. Local(f)'
    BY <2>2, <2>4, <2>5, IdleLocal
  <2>7. Answers(f)
    BY <1>2, <1>3, <2>1, <2>2 DEF Answers
  <2>8. \A g \in Facades \ {f} : Kept(g)
    BY <1>1, <2>2 DEF Kept
  <2> QED
    BY <1>1, <2>1, <2>3, <2>6, <2>7, <2>8, QuietStep
<1>4. CASE ~Published(call[f].op)
  <2>1. Goto(f, "resolve") /\ UNCHANGED <<call, told, spoiled>>
    BY <1>4 DEF Lookup
  <2>2. /\ pc' \in [Facades -> Places] /\ pc'[f] = "resolve"
        /\ \A g \in Facades \ {f} : Kept(g)
    BY <1>1, <2>1 DEF IInv, Typed, Goto, Kept, Places, Loop
  <2>3. Typed'
    BY <1>1, <2>1, <2>2 DEF IInv, Typed, CURRENT
  <2>4. Kind(f)' = Kind(f) /\ Kind(f) = "mixed" /\ call[f].rebases = 0 /\ call[f].baseline = 0
    BY <1>1, <1>2, <2>1 DEF Kind, Local, InCall
  <2>5. InCall(f)'
    BY <1>1, <1>2, <1>4, <2>1, <2>2, <2>4 DEF InCall, Loop, Published
  <2>6. InLoop(f)'
    <3>1. 0 <= CURRENT /\ CURRENT' = CURRENT
      BY <1>1, <1>2, SMT DEF CURRENT
    <3> QED
      BY <2>1, <2>2, <2>4, <3>1 DEF InLoop
  <2>7. /\ (Unmixed <=> Unmixed') /\ (Named <=> Named') /\ (Unharmed <=> Unharmed')
        /\ (Behind(f) <=> Behind(f)') /\ CURRENT' = CURRENT
        /\ Graph(mem[f])' = Graph(mem[f]) /\ Graph(call[f].from)' = Graph(call[f].from)
    BY <1>1, <2>1 DEF Unmixed, Named, Unharmed, Behind, CURRENT, Graph
  <2>8. Origin(f)'
    <3>1. Back(f)
      BY <1>1, <1>2 DEF Local, Origin, Owning, Owned
    <3> QED
      BY <1>1, <2>1, <2>4, <2>7, <3>1 DEF Origin, Back
  <2>9. (Unmixed' => GraphAt(f)') /\ (Named' => NamesAt(f)') /\ (Unharmed' => CoherentAt(f)')
    BY <1>1, <1>2, <2>1, <2>2, <2>4, <2>7 DEF Local, GraphAt, NamesAt, CoherentAt, Loop
  <2> QED
    BY <1>1, <2>1, <2>2, <2>3, <2>5, <2>6, <2>8, <2>9, QuietStep DEF Local, Answers
<1> QED
  BY <1>3, <1>4

\* What f publishes has the type of a generation.
LEMMA GenerationTyped ==
    ASSUME IInv, NEW f \in Facades, pc[f] # "idle", ws[f] \in GraphT, NEW names \in SUBSET Ops
    PROVE  /\ Generation(f, names) \in GenT
           /\ Generation(f, names).by = call[f].op /\ Generation(f, names).names = names
           /\ [rows |-> Generation(f, names).rows, val |-> Generation(f, names).val] = ws[f]
<1>1. call[f].op \in Ops /\ CURRENT \in 1..CURRENT
  <2>1. CURRENT \in Nat /\ CURRENT >= 1 /\ call[f].op \in Ops
    BY CallFacts
  <2> QED
    BY <2>1, SMT
<1>2. gens[CURRENT].admin \in 0..MaxAdmin
  <2>1. gens[CURRENT] \in GenT
    BY <1>1, GraphTyped DEF IInv
  <2> QED
    BY <2>1, SMT DEF GenT
<1>3. ws[f].rows \in [Ops -> Nat] /\ ws[f].val \in [Fields -> Ops \cup {None, Gone}]
  BY SMT DEF GraphT
<1>4. [rows |-> ws[f].rows, val |-> ws[f].val] = ws[f]
  BY GraphIsFields
<1> QED
  BY <1>1, <1>2, <1>3, <1>4, SMT DEF Generation, GenT

\* A facade that publishes disturbs no other.
LEMMA AppendOthers ==
    ASSUME IInv, Typed', NEW f \in Facades, NEW r \in GenT, gens' = Append(gens, r),
           r.by = None \/ (r.by \in Ops /\ Request[r.by].at = f), spoiled' = spoiled,
           \A o \in Ops : Request[o].at # f => told'[o] = told[o],
           \A g \in Facades \ {f} : Kept(g)
    PROVE  \A g \in Facades \ {f} : Local(g)'
<1>1. /\ gens' \in Seq(GenT) /\ Len(gens) \in Nat /\ Len(gens') = Len(gens) + 1
      /\ gens'[Len(gens) + 1] = r /\ \A i \in 1..Len(gens) : gens'[i] = gens[i]
  <2>1. gens \in Seq(GenT)
    BY DEF IInv, Typed
  <2> QED
    BY <2>1, SMT
<1>2. Grows
  BY <1>1, SMT DEF Grows
<1>3. ASSUME NEW g \in Facades \ {f}
      PROVE  NotOf(g)
  <2>1. \A i \in 1..Len(gens') : i > Len(gens) => i = Len(gens) + 1
    BY <1>1, SMT
  <2> QED
    BY <1>1, <2>1 DEF NotOf
<1> QED
  BY <1>2, <1>3, KeptLocal DEF IInv

\* What appending does to CURRENT.
LEMMA AppendFacts ==
    ASSUME Typed, NEW r \in GenT, gens' = Append(gens, r)
    PROVE  /\ gens' \in Seq(GenT) /\ CURRENT \in Nat /\ CURRENT >= 1 /\ CURRENT' = CURRENT + 1
           /\ gens'[CURRENT + 1] = r /\ \A i \in 1..CURRENT : gens'[i] = gens[i]
           /\ CURRENT \in 1..CURRENT /\ CURRENT + 1 \in 1..CURRENT'
           /\ \A i : i = CURRENT + 1 => Graph(i)' = [rows |-> r.rows, val |-> r.val]
           /\ \A i \in 1..CURRENT : Graph(i)' = Graph(i) /\ i \in 1..CURRENT'
<1>1. gens \in Seq(GenT) /\ CURRENT >= 1
  BY DEF Typed
<1>2. /\ gens' \in Seq(GenT) /\ CURRENT \in Nat /\ CURRENT' = CURRENT + 1
      /\ gens'[CURRENT + 1] = r /\ \A i \in 1..CURRENT : gens'[i] = gens[i]
  BY <1>1, SMT DEF CURRENT
<1>3. CURRENT \in 1..CURRENT /\ CURRENT + 1 \in 1..CURRENT' /\ \A i \in 1..CURRENT : i \in 1..CURRENT'
  BY <1>1, <1>2, SMT
<1>4. /\ \A i : i = CURRENT + 1 => Graph(i)' = [rows |-> r.rows, val |-> r.val]
      /\ \A i \in 1..CURRENT : Graph(i)' = Graph(i)
  BY <1>2 DEF Graph
<1> QED
  BY <1>1, <1>2, <1>3, <1>4

\* A call that publishes and returns shows the generation it published.
LEMMA CommitStep ==
    ASSUME IInv, NEW f \in Facades, pc[f] # "idle", ws[f] \in GraphT, NEW names \in SUBSET Ops,
           ~Published(call[f].op),
           gens' = Append(gens, Generation(f, names)),
           mem' = [mem EXCEPT ![f] = CURRENT + 1],
           cat' = [cat EXCEPT ![f] = names],
           Return(f, "committed"), UNCHANGED <<ws, health, spoiled>>,
           Unmixed => ws[f] = Whole(Graph(CURRENT), call[f].op),
           Named => names = gens[CURRENT].names \cup {call[f].op}
    PROVE  IInv'
<1> DEFINE r == Generation(f, names)
           n == CURRENT + 1
<1>1. /\ r \in GenT /\ r.by = call[f].op /\ r.names = names
      /\ [rows |-> r.rows, val |-> r.val] = ws[f]
  BY GenerationTyped
<1>2. /\ call[f].op \in Ops /\ call[f].op # None /\ Request[call[f].op].at = f
  BY CallFacts
<1>3. gens' = Append(gens, r)
  OBVIOUS
<1> HIDE DEF r
<1>4. /\ gens' \in Seq(GenT) /\ CURRENT \in Nat /\ CURRENT >= 1 /\ CURRENT' = n
      /\ gens'[n] = r /\ n \in 1..CURRENT'
      /\ \A i : i = n => Graph(i)' = [rows |-> r.rows, val |-> r.val]
      /\ \A i \in 1..CURRENT : i \in 1..CURRENT'
  BY <1>1, <1>3, AppendFacts DEF IInv
<1>5. n \in Nat /\ CURRENT' >= 1
  BY <1>4, SMT
<1> HIDE DEF n
<1>6. /\ pc' \in [Facades -> Places] /\ call' \in [Facades -> CallT] /\ told' \in [Ops -> Outcomes]
      /\ pc'[f] = "idle" /\ call'[f] = NoCall
      /\ \A g \in Facades \ {f} : pc'[g] = pc[g] /\ call'[g] = call[g]
      /\ told' = [told EXCEPT ![call[f].op] = "committed"]
  BY ReturnFacts DEF IInv, Outcomes
<1>7. mem' = [mem EXCEPT ![f] = n]
  BY DEF n
<1>8. Typed'
  <2>1. mem' \in [Facades -> Nat] /\ \A g \in Facades : mem'[g] \in 1..CURRENT'
    BY <1>4, <1>5, <1>7 DEF IInv, Typed
  <2>2. cat' \in [Facades -> SUBSET Ops]
    BY DEF IInv, Typed
  <2> QED
    BY <1>4, <1>5, <1>6, <2>1, <2>2 DEF IInv, Typed
<1>9. \A g \in Facades \ {f} : Kept(g)
  BY <1>6, <1>7 DEF IInv, Typed, Kept
<1>10. \A g \in Facades \ {f} : Local(g)'
  <2>1. \A o \in Ops : Request[o].at # f => told'[o] = told[o]
    BY <1>2, <1>6 DEF IInv, Typed
  <2> QED
    BY <1>1, <1>2, <1>3, <1>8, <1>9, <2>1, AppendOthers
<1>11. Local(f)'
  <2>1. mem'[f] = n /\ cat'[f] = names /\ ws'[f] = ws[f]
    BY <1>7 DEF IInv, Typed
  <2>2. Coherent(f)'
    BY <1>1, <1>4, <2>1 DEF Coherent
  <2> QED
    BY <1>6, <2>2, IdleLocal DEF Coherent
<1>12. \A o \in Ops :
               /\ told'[o] = "committed" => told[o] = "committed" \/ o = r.by
               /\ told'[o] \in {"conflict", "exhausted"} => told'[o] = told[o] /\ o # r.by
  BY <1>1, <1>2, <1>6 DEF IInv, Typed
<1>13. {call[f].op} \ {None} = {call[f].op}
  BY <1>2
<1>14. /\ \A g \in Facades : Local(g)'
       /\ r.by # None => ~Published(r.by)
       /\ Unmixed /\ r.by # None => [rows |-> r.rows, val |-> r.val] = Whole(Graph(CURRENT), r.by)
       /\ Named => r.names = gens[CURRENT].names \cup ({r.by} \ {None})
  BY <1>1, <1>10, <1>11, <1>13
<1> QED
  BY <1>1, <1>3, <1>8, <1>12, <1>14, AppendStep

\* The workspace is published.
LEMMA PublishStep ==
    ASSUME IInv, NEW f \in Facades, Publish(f)
    PROVE  IInv'
<1>1. /\ pc[f] = "publish" /\ pc[f] # "idle" /\ CURRENT = mem[f] /\ ~Published(call[f].op)
      /\ gens' = Append(gens, Generation(f, cat[f]))
      /\ mem' = [mem EXCEPT ![f] = CURRENT + 1]
      /\ Return(f, "committed") /\ UNCHANGED <<ws, cat, health, spoiled>>
  BY DEF Publish, rest
<1>2. /\ Local(f) /\ Kind(f) = Request[call[f].op].kind /\ CURRENT \in Nat
  BY <1>1, CallFacts
<1>3. ws[f] \in GraphT /\ Kind(f) \in {"script", "query"} /\ cat[f] \in SUBSET Ops
      /\ cat' = [cat EXCEPT ![f] = cat[f]]
  <2>1. ws[f] \in GraphT /\ Kind(f) \in {"script", "query"}
    BY <1>1, <1>2 DEF Local, InCall
  <2>2. cat \in [Facades -> SUBSET Ops]
    BY DEF IInv, Typed
  <2>3. cat' = [cat EXCEPT ![f] = cat[f]]
    BY <1>1, <2>2, SMT
  <2> QED
    BY <2>1, <2>2, <2>3
<1>4. ~Behind(f)
  BY <1>1, <1>2, SMT DEF Behind
<1>5. Unmixed => ws[f] = Whole(Graph(CURRENT), call[f].op)
  <2>1. Unmixed => ws[f] = Ran(Graph(CURRENT), call[f].op)
    BY <1>1, <1>2, <1>4 DEF Local, GraphAt
  <2>2. Whole(Graph(CURRENT), call[f].op) = Ran(Graph(CURRENT), call[f].op)
    BY <1>2, <1>3, SMT DEF Whole
  <2> QED
    BY <2>1, <2>2
<1>6. Named => cat[f] = gens[CURRENT].names \cup {call[f].op}
  BY <1>1, <1>2, <1>4 DEF Local, NamesAt
<1> QED
  BY <1>1, <1>3, <1>5, <1>6, CommitStep

\* A call that publishes but is not to return.
LEMMA SilentStep ==
    ASSUME IInv, Typed', NEW f \in Facades, pc[f] # "idle", ws[f] \in GraphT,
           NEW names \in SUBSET Ops, ~Published(call[f].op),
           gens' = Append(gens, Generation(f, names)), told' = told, spoiled' = spoiled,
           Local(f)', \A g \in Facades \ {f} : Kept(g),
           Unmixed => ws[f] = Whole(Graph(CURRENT), call[f].op),
           Named => names = gens[CURRENT].names \cup {call[f].op}
    PROVE  IInv'
<1> DEFINE r == Generation(f, names)
<1>1. /\ r \in GenT /\ r.by = call[f].op /\ r.names = names
      /\ [rows |-> r.rows, val |-> r.val] = ws[f]
  BY GenerationTyped
<1>2. /\ call[f].op \in Ops /\ call[f].op # None /\ Request[call[f].op].at = f
      /\ told[call[f].op] = "none"
  BY CallFacts
<1>3. gens' = Append(gens, r)
  OBVIOUS
<1> HIDE DEF r
<1>4. \A g \in Facades : Local(g)'
  BY <1>1, <1>2, <1>3, AppendOthers
<1>5. \A o \in Ops :
               /\ told'[o] = "committed" => told[o] = "committed" \/ o = r.by
               /\ told'[o] \in {"conflict", "exhausted"} => told'[o] = told[o] /\ o # r.by
  BY <1>1, <1>2
<1>6. {call[f].op} \ {None} = {call[f].op}
  BY <1>2
<1> QED
  BY <1>1, <1>2, <1>3, <1>4, <1>5, <1>6, AppendStep

\* The publication fails.
LEMMA PublishFailsStep ==
    ASSUME IInv, NEW f \in Facades, PublishFails(f)
    PROVE  IInv'
<1>1. /\ pc[f] = "publish" /\ pc[f] # "idle"
      /\ Goto(f, "restore") /\ call' = [call EXCEPT ![f].why = "error"]
      /\ UNCHANGED <<ws, cat, health, told, spoiled>>
  BY DEF PublishFails
<1>2. /\ call[f].op \in Ops /\ call[f].op # None /\ Request[call[f].op].at = f
      /\ told[call[f].op] = "none" /\ health[f] = "ok" /\ Local(f) /\ call[f] \in CallT
      /\ Kind(f) = Request[call[f].op].kind /\ CURRENT \in Nat /\ mem[f] \in 1..CURRENT
  BY <1>1, CallFacts
<1>3. ws[f] \in GraphT /\ Kind(f) \in {"script", "query"}
  BY <1>1, <1>2 DEF Local, InCall
<1>4. Back(f)
  BY <1>1, <1>2 DEF Local, Origin, Owning, Owned
<1>5. /\ call'[f] = [call[f] EXCEPT !.why = "error"] /\ call' \in [Facades -> CallT]
      /\ pc' \in [Facades -> Places] /\ pc'[f] = "restore"
      /\ \A g \in Facades \ {f} : pc'[g] = pc[g] /\ call'[g] = call[g]
  <2>1. [call[f] EXCEPT !.why = "error"] \in CallT
    BY <1>2, WhyTyped
  <2>2. call \in [Facades -> CallT] /\ pc \in [Facades -> Places] /\ "restore" \in Places
    BY DEF IInv, Typed, Places, Owned
  <2>3. call' = [call EXCEPT ![f] = [call[f] EXCEPT !.why = "error"]]
    BY <1>1, SMT
  <2> QED
    BY <1>1, <2>1, <2>2, <2>3 DEF Goto
<1>6. /\ call'[f].op = call[f].op /\ call'[f].owner = call[f].owner /\ call'[f].from = call[f].from
      /\ call'[f].point = call[f].point /\ call'[f].prior = call[f].prior
  BY <1>2, <1>5, SMT DEF CallT
<1>7. /\ Kind(f)' = Kind(f) /\ (Unmixed <=> Unmixed') /\ (Named <=> Named') /\ (Unharmed <=> Unharmed')
  BY <1>1, <1>6 DEF Kind, Unmixed, Named, Unharmed
<1>8. Back(f)' => Local(f)'
  BY <1>1, <1>2, <1>3, <1>5, <1>6, RestoreLocal
<1>9. CASE UNCHANGED <<gens, mem>>
  <2>1. Typed'
    BY <1>1, <1>5, <1>9 DEF IInv, Typed, CURRENT
  <2>2. Back(f)'
    <3>1. CURRENT' = CURRENT /\ Graph(call[f].from)' = Graph(call[f].from)
      BY <1>6, <1>9 DEF CURRENT, Graph
    <3> QED
      BY <1>1, <1>4, <1>6, <1>7, <1>9, <3>1 DEF Back
  <2>3. \A g \in Facades \ {f} : Kept(g)
    BY <1>1, <1>5, <1>9 DEF Kept
  <2> QED
    BY <1>1, <1>8, <1>9, <2>1, <2>2, <2>3, QuietStep DEF Answers
<1>10. CASE /\ CURRENT = mem[f] /\ ~Published(call[f].op)
            /\ gens' = Append(gens, Generation(f, cat[f]))
            /\ mem' \in {mem, [mem EXCEPT ![f] = CURRENT + 1]}
  <2> DEFINE r == Generation(f, cat[f])
  <2>0. cat[f] \in SUBSET Ops
    BY DEF IInv, Typed
  <2>1. r \in GenT /\ gens' = Append(gens, r)
    BY <1>1, <1>3, <1>10, <2>0, GenerationTyped
  <2> HIDE DEF r
  <2>2. /\ gens' \in Seq(GenT) /\ CURRENT' = CURRENT + 1 /\ CURRENT + 1 \in 1..CURRENT'
        /\ \A i \in 1..CURRENT : i \in 1..CURRENT' /\ gens'[i] = gens[i] /\ Graph(i)' = Graph(i)
    BY <2>1, AppendFacts DEF IInv
  <2>3. CURRENT + 1 \in Nat /\ CURRENT' >= 1
    BY <1>2, <2>2, SMT
  <2>4. Typed'
    <3>1. mem' \in [Facades -> Nat] /\ \A g \in Facades : mem'[g] \in 1..CURRENT'
      BY <1>10, <2>2, <2>3 DEF IInv, Typed
    <3> QED
      BY <1>1, <1>5, <2>2, <2>3, <3>1 DEF IInv, Typed
  <2>5. Back(f)'
    <3>1. call[f].from \in 1..call[f].owner /\ call[f].owner \in 1..CURRENT
      BY <1>4 DEF Back
    <3>2. call[f].from \in 1..CURRENT /\ call[f].owner \in 1..CURRENT' /\ CURRENT' # call[f].owner
      BY <1>2, <2>2, <3>1, SMT
    <3>3. Graph(call[f].from)' = Graph(call[f].from) /\ gens'[call[f].from] = gens[call[f].from]
      BY <1>6, <2>2, <3>2 DEF Graph
    <3> QED
      BY <1>1, <1>4, <1>6, <1>7, <3>1, <3>2, <3>3 DEF Back
  <2>6. \A g \in Facades \ {f} : Kept(g)
    BY <1>1, <1>5, <1>10 DEF Kept, IInv, Typed
  <2>7. ~Behind(f)
    BY <1>2, <1>10, SMT DEF Behind
  <2>8. Unmixed => ws[f] = Whole(Graph(CURRENT), call[f].op)
    <3>1. Unmixed => ws[f] = Ran(Graph(CURRENT), call[f].op)
      BY <1>1, <1>2, <1>10, <2>7 DEF Local, GraphAt
    <3>2. Whole(Graph(CURRENT), call[f].op) = Ran(Graph(CURRENT), call[f].op)
      BY <1>2, <1>3, SMT DEF Whole
    <3> QED
      BY <3>1, <3>2
  <2>9. Named => cat[f] = gens[CURRENT].names \cup {call[f].op}
    BY <1>1, <1>2, <1>10, <2>7 DEF Local, NamesAt
  <2> QED
    BY <1>1, <1>3, <1>8, <1>10, <2>0, <2>4, <2>5, <2>6, <2>8, <2>9, SilentStep
<1> QED
  BY <1>9, <1>10 DEF PublishFails

\* A step of f that publishes nothing.
Moves(f) ==
    /\ gens' = gens
    /\ mem' \in [Facades -> Nat] /\ mem'[f] \in 1..CURRENT
    /\ ws' \in [Facades -> GraphT \cup {Torn}] /\ cat' \in [Facades -> SUBSET Ops]
    /\ health' \in [Facades -> {"ok", "failed"}]
    /\ pc' \in [Facades -> Places] /\ call' \in [Facades -> CallT] /\ told' \in [Ops -> Outcomes]
    /\ spoiled \subseteq spoiled' /\ spoiled' \subseteq Causes
    /\ \A g \in Facades \ {f} : Kept(g)

LEMMA MovesStep ==
    ASSUME IInv, NEW f \in Facades, Moves(f), Answers(f), Local(f)'
    PROVE  IInv'
<1>1. CURRENT' = CURRENT
  BY DEF Moves, CURRENT
<1>2. \A g \in Facades : mem'[g] \in 1..CURRENT
  BY DEF IInv, Typed, Moves, Kept
<1>3. Typed'
  BY <1>1, <1>2 DEF IInv, Typed, Moves
<1> QED
  BY <1>3, QuietStep DEF Moves

\* Installing CURRENT gives a facade that generation.
LEMMA InstallFacts ==
    ASSUME Typed, NEW f \in Facades, Install(f, CURRENT), gens' = gens
    PROVE  /\ mem' \in [Facades -> Nat] /\ mem'[f] \in 1..CURRENT /\ mem'[f] = CURRENT
           /\ ws' \in [Facades -> GraphT \cup {Torn}] /\ cat' \in [Facades -> SUBSET Ops]
           /\ \A g \in Facades \ {f} : mem'[g] = mem[g] /\ ws'[g] = ws[g] /\ cat'[g] = cat[g]
           /\ ws'[f] = Graph(CURRENT) /\ ws'[f] \in GraphT /\ Graph(CURRENT) = Graph(mem[f])'
           /\ cat'[f] = gens'[mem'[f]].names /\ Coherent(f)'
<1>1. CURRENT \in Nat /\ CURRENT \in 1..CURRENT
  BY SMT DEF Typed, CURRENT
<1>2. Graph(CURRENT) \in GraphT /\ gens[CURRENT] \in GenT
  BY <1>1, GraphTyped
<1>3. gens[CURRENT].names \in SUBSET Ops
  BY <1>2, SMT DEF GenT
<1>4. /\ mem' \in [Facades -> Nat] /\ mem'[f] = CURRENT
      /\ ws' \in [Facades -> GraphT \cup {Torn}] /\ cat' \in [Facades -> SUBSET Ops]
      /\ \A g \in Facades \ {f} : mem'[g] = mem[g] /\ ws'[g] = ws[g] /\ cat'[g] = cat[g]
      /\ ws'[f] = Graph(CURRENT) /\ cat'[f] = gens[CURRENT].names
  BY <1>1, <1>2, <1>3 DEF Typed, Install
<1>5. Graph(CURRENT) = Graph(mem[f])'
  BY <1>4 DEF Graph
<1> QED
  BY <1>1, <1>2, <1>4, <1>5 DEF Coherent

\* The restoration of a failed mutation.
LEMMA RestoreStep ==
    ASSUME IInv, NEW f \in Facades, Restore(f)
    PROVE  IInv'
<1>1. /\ pc[f] = "restore" /\ pc[f] # "idle" /\ Return(f, call[f].why) /\ UNCHANGED <<gens, health>>
  BY DEF Restore
<1>2. /\ call[f].op \in Ops /\ call[f].op # None /\ Request[call[f].op].at = f
      /\ told[call[f].op] = "none" /\ health[f] = "ok" /\ Local(f) /\ call[f] \in CallT
      /\ Kind(f) = Request[call[f].op].kind /\ CURRENT \in Nat /\ mem[f] \in 1..CURRENT
      /\ CURRENT >= 1 /\ Kind(f) \in Kinds
  BY <1>1, CallFacts
<1>3. Kind(f) # "composite" /\ Back(f)
  BY <1>1, <1>2 DEF Local, InCall, Origin, Owning, Owned
<1>4. /\ call[f].why \in {"none", "conflict", "exhausted", "error"} /\ call[f].prior \in SUBSET Ops
      /\ call[f].point \in GraphT \cup {Torn}
  BY <1>2, SMT DEF CallT
<1>5. /\ pc' \in [Facades -> Places] /\ call' \in [Facades -> CallT] /\ told' \in [Ops -> Outcomes]
      /\ pc'[f] = "idle" /\ call'[f] = NoCall
      /\ \A g \in Facades \ {f} : pc'[g] = pc[g] /\ call'[g] = call[g]
      /\ told' = [told EXCEPT ![call[f].op] = call[f].why] /\ call[f].why \in Outcomes
  BY <1>1, <1>4, ReturnFacts DEF IInv, Outcomes
<1>6. Answers(f)
  BY <1>2, <1>3, <1>4, <1>5 DEF Answers
<1>7. /\ health' \in [Facades -> {"ok", "failed"}] /\ mem \in [Facades -> Nat]
      /\ ws \in [Facades -> GraphT \cup {Torn}] /\ cat \in [Facades -> SUBSET Ops]
      /\ spoiled \subseteq Causes
  BY <1>1 DEF IInv, Typed
<1>8. CASE CURRENT # call[f].owner
  <2>1. Install(f, CURRENT) /\ spoiled' = spoiled
    BY <1>8 DEF Restore
  <2>2. Moves(f) /\ Coherent(f)'
    BY <1>1, <1>5, <1>7, <2>1, InstallFacts DEF IInv, Moves, Kept
  <2>3. Local(f)'
    BY <1>5, <2>2, IdleLocal DEF Coherent
  <2> QED
    BY <1>6, <2>2, <2>3, MovesStep
<1>9. CASE CURRENT = call[f].owner /\ Kind(f) = "query"
  <2>1. /\ cat' = [cat EXCEPT ![f] = call[f].prior]
        /\ ws'  = [ws EXCEPT ![f] = Graph(CURRENT)] /\ mem' = [mem EXCEPT ![f] = CURRENT]
        /\ spoiled' = spoiled \cup (IF mem[f] # CURRENT THEN {"catalog"} ELSE {})
    BY <1>9 DEF Restore, Spoil
  <2>2. CURRENT \in 1..CURRENT
    BY <1>2, SMT
  <2>3. Graph(CURRENT) \in GraphT
    BY <2>2, GraphTyped DEF IInv
  <2>4. spoiled \subseteq spoiled' /\ spoiled' \subseteq Causes
    BY <1>7, <2>1 DEF Causes
  <2>5. /\ cat'[f] = call[f].prior /\ ws'[f] = Graph(CURRENT) /\ mem'[f] = CURRENT
        /\ Moves(f)
    BY <1>1, <1>4, <1>5, <1>2, <1>7, <2>1, <2>2, <2>3, <2>4 DEF Moves, Kept
  <2>6. ws'[f] = Graph(mem[f])'
    BY <1>1, <2>5 DEF Graph
  <2>7. Named' => Named /\ mem[f] = CURRENT
    BY <2>1, <2>4 DEF Named
  <2>8. Unharmed' => Unharmed /\ mem[f] = CURRENT
    BY <2>1, <2>4 DEF Unharmed
  <2>9. mem[f] = CURRENT => call[f].from = CURRENT /\ ~(call[f].from < call[f].owner)
    <3>1. mem[f] = call[f].from
      BY <1>3, <1>9 DEF Back
    <3> QED
      BY <1>2, <1>9, <3>1, SMT
  <2>10. (Named' => cat'[f] = gens'[mem'[f]].names) /\ (Unharmed' => cat'[f] = gens'[mem'[f]].names)
    BY <1>1, <1>3, <2>5, <2>7, <2>8, <2>9 DEF Back
  <2>11. Local(f)'
    BY <1>5, <2>6, <2>10, IdleLocal DEF Coherent
  <2> QED
    BY <1>6, <2>5, <2>11, MovesStep
<1>10. CASE CURRENT = call[f].owner /\ Kind(f) # "query"
  <2>1. /\ cat' = [cat EXCEPT ![f] = call[f].prior]
        /\ ws'  = [ws EXCEPT ![f] = call[f].point] /\ mem' = mem
        /\ spoiled' = spoiled \cup (IF mem[f] # call[f].from THEN {"rewound"} ELSE {})
    BY <1>10 DEF Restore, Spoil
  <2>2. spoiled \subseteq spoiled' /\ spoiled' \subseteq Causes
    BY <1>7, <2>1 DEF Causes
  <2>3. cat'[f] = call[f].prior /\ ws'[f] = call[f].point /\ mem'[f] = mem[f] /\ Moves(f)
    BY <1>1, <1>2, <1>4, <1>5, <1>7, <2>1, <2>2 DEF Moves, Kept
  <2>4. Unmixed' => Unmixed /\ mem[f] = call[f].from
    BY <1>3, <1>10, <2>2 DEF Unmixed, Back
  <2>5. (Named' => Named /\ mem[f] = call[f].from) /\ (Unharmed' => Unharmed /\ mem[f] = call[f].from)
    BY <2>1, <2>2 DEF Named, Unharmed
  <2>6. CURRENT' = CURRENT /\ Graph(mem[f])' = Graph(mem[f])
    BY <1>1, <2>1 DEF CURRENT, Graph
  <2>7. Unmixed' => ws'[f] = Torn \/ Behind(f)' \/ ws'[f] = Graph(mem[f])'
    BY <1>3, <1>10, <2>1, <2>3, <2>4, <2>6 DEF Back, Behind
  <2>8. Named' => Behind(f)' \/ cat'[f] = gens'[mem'[f]].names
    BY <1>1, <1>3, <1>10, <2>1, <2>3, <2>5, <2>6 DEF Back, Behind
  <2>9. Unharmed' => Coherent(f)'
    BY <1>1, <1>3, <2>1, <2>3, <2>5, <2>6 DEF Back, Coherent
  <2>10. Local(f)'
    BY <1>5, <2>7, <2>8, <2>9, IdleLocal
  <2> QED
    BY <1>6, <2>3, <2>10, MovesStep
<1> QED
  BY <1>8, <1>9, <1>10

\* A restoration that fails.
LEMMA RestoreFailsStep ==
    ASSUME IInv, NEW f \in Facades, RestoreFails(f)
    PROVE  IInv'
<1>1. /\ pc[f] # "idle" /\ Return(f, "error") /\ UNCHANGED <<gens, mem, cat, spoiled>>
      /\ health' = [health EXCEPT ![f] = "failed"] /\ ws' = [ws EXCEPT ![f] = Torn]
  BY DEF RestoreFails
<1>2. call[f].op \in Ops /\ Request[call[f].op].at = f
  BY <1>1, CallFacts
<1>3. /\ pc' \in [Facades -> Places] /\ call' \in [Facades -> CallT] /\ told' \in [Ops -> Outcomes]
      /\ pc'[f] = "idle" /\ call'[f] = NoCall
      /\ \A g \in Facades \ {f} : pc'[g] = pc[g] /\ call'[g] = call[g]
      /\ told' = [told EXCEPT ![call[f].op] = "error"] /\ "error" \in Outcomes
  BY <1>1, ReturnFacts DEF IInv, Outcomes
<1>4. Answers(f)
  BY <1>2, <1>3 DEF Answers
<1>5. Moves(f) /\ health'[f] = "failed" /\ ws'[f] = Torn
  BY <1>1, <1>3 DEF IInv, Typed, Moves, Kept
<1>6. Local(f)'
  BY <1>3, <1>5, IdleLocal
<1> QED
  BY <1>4, <1>5, <1>6, MovesStep

-----------------------------------------------------------------------------
(* The loop of a composite publication.                                    *)

\* What a step does to the workspace, the catalog and the generation in memory.
Handles(f) ==
    /\ gens' = gens /\ health' = health
    /\ mem' \in [Facades -> Nat] /\ mem'[f] \in 1..CURRENT
    /\ ws' \in [Facades -> GraphT \cup {Torn}] /\ cat' \in [Facades -> SUBSET Ops]
    /\ \A g \in Facades \ {f} : mem'[g] = mem[g] /\ ws'[g] = ws[g] /\ cat'[g] = cat[g]
    /\ spoiled \subseteq spoiled' /\ spoiled' \subseteq Causes

\* The place to go back to stays as long as the workspace is not moved away from it
\* unnoticed.
LEMMA BackStays ==
    ASSUME NEW f \in Facades, Back(f), gens' = gens, spoiled \subseteq spoiled',
           call'[f].op = call[f].op, call'[f].owner = call[f].owner, call'[f].from = call[f].from,
           call'[f].point = call[f].point, call'[f].prior = call[f].prior,
           mem'[f] = mem[f] \/ (Kind(f) = "mixed" /\ "discarded" \in spoiled')
    PROVE  Back(f)'
<1>1. /\ Kind(f)' = Kind(f) /\ CURRENT' = CURRENT /\ Graph(call[f].from)' = Graph(call[f].from)
      /\ (Unmixed' => Unmixed) /\ (Named' => Named) /\ (Unharmed' => Unharmed)
  BY DEF Kind, CURRENT, Graph, Unmixed, Named, Unharmed
<1> QED
  BY <1>1 DEF Back

\* The loop ends with an error.
LEMMA GiveStep ==
    ASSUME IInv, NEW f \in Facades, pc[f] \in Loop,
           NEW outcome \in {"conflict", "exhausted", "error"}, Give(f, outcome), Handles(f),
           Kind(f) = "mixed" => mem'[f] = mem[f] \/ "discarded" \in spoiled',
           Kind(f) = "composite" =>
               /\ outcome # "error" => ~Published(call[f].op)
               /\ Unmixed' => ws'[f] = Torn \/ Behind(f)' \/ ws'[f] = Graph(mem[f])'
               /\ Named' => Behind(f)' \/ cat'[f] = gens'[mem'[f]].names
               /\ Unharmed' => Coherent(f)'
    PROVE  IInv'
<1>1. pc[f] # "idle"
  BY DEF Loop
<1>2. /\ call[f].op \in Ops /\ call[f].op # None /\ Request[call[f].op].at = f
      /\ told[call[f].op] = "none" /\ health[f] = "ok" /\ Local(f) /\ call[f] \in CallT
      /\ Kind(f) = Request[call[f].op].kind
  BY <1>1, CallFacts
<1>3. Kind(f) \in {"composite", "mixed"}
  BY <1>2 DEF Local, InCall
<1>4. /\ pc' \in [Facades -> Places] /\ call' \in [Facades -> CallT] /\ told' \in [Ops -> Outcomes]
      /\ Kind(f) = "composite" =>
            /\ pc'[f] = "idle" /\ call'[f] = NoCall
            /\ told' = [told EXCEPT ![call[f].op] = outcome]
      /\ Kind(f) # "composite" =>
            /\ pc'[f] = "restore" /\ call'[f] = [call[f] EXCEPT !.why = outcome]
            /\ told' = told
      /\ \A g \in Facades \ {f} : pc'[g] = pc[g] /\ call'[g] = call[g]
  BY GiveFacts DEF IInv
<1>5. Moves(f)
  BY <1>4 DEF IInv, Typed, Moves, Handles, Kept
<1>6. Answers(f)
  BY <1>2, <1>3, <1>4 DEF Answers, Outcomes
<1>7. CASE Kind(f) = "composite"
  <2>1. Local(f)'
    BY <1>4, <1>7, IdleLocal
  <2> QED
    BY <1>5, <1>6, <2>1, MovesStep
<1>8. CASE Kind(f) = "mixed"
  <2>0. call'[f] = [call[f] EXCEPT !.why = outcome] /\ pc'[f] = "restore" /\ told' = told
    BY <1>4, <1>8
  <2>1. /\ call'[f].op = call[f].op /\ call'[f].owner = call[f].owner /\ call'[f].from = call[f].from
        /\ call'[f].point = call[f].point /\ call'[f].prior = call[f].prior
    BY <1>2, <2>0, SMT DEF CallT
  <2>2. Back(f)
    BY <1>2, <1>8 DEF Local, Origin, Owning
  <2>3. Back(f)'
    BY <1>8, <2>1, <2>2, BackStays DEF Handles
  <2>4. Local(f)'
    BY <1>2, <1>8, <2>0, <2>1, <2>3, RestoreLocal DEF Handles
  <2> QED
    BY <1>5, <1>6, <2>4, MovesStep
<1> QED
  BY <1>3, <1>7, <1>8

\* The loop goes on.
LEMMA LoopLocal ==
    ASSUME IInv, NEW f \in Facades, pc[f] \in Loop, pc'[f] \in Loop,
           gens' = gens, health' = health, told' = told, spoiled \subseteq spoiled',
           call'[f].op = call[f].op, call'[f].owner = call[f].owner, call'[f].from = call[f].from,
           call'[f].point = call[f].point, call'[f].prior = call[f].prior,
           Kind(f) = "mixed" => mem'[f] = mem[f] \/ "discarded" \in spoiled',
           pc'[f] = "attempt" => ws'[f] \in GraphT,
           pc'[f] = "abort" => call'[f].why \in {"conflict", "error"},
           ~Published(call[f].op) \/ (pc'[f] = "abort" /\ call'[f].why = "error"),
           InLoop(f)', Unmixed' => GraphAt(f)', Named' => NamesAt(f)', Unharmed' => CoherentAt(f)'
    PROVE  Local(f)'
<1>1. pc[f] # "idle"
  BY DEF Loop
<1>2. /\ call[f].op \in Ops /\ Request[call[f].op].at = f
      /\ told[call[f].op] = "none" /\ health[f] = "ok" /\ Local(f)
  BY <1>1, CallFacts
<1>3. Kind(f) \in {"composite", "mixed"} /\ Kind(f)' = Kind(f)
  BY <1>2 DEF Local, InCall, Kind
<1>4. InCall(f)'
  BY <1>2, <1>3 DEF InCall, Loop, Published
<1>5. Origin(f)'
  <2> SUFFICES ASSUME Owning(f)' PROVE Back(f)'
    BY DEF Origin
  <2>1. Kind(f) = "mixed"
    BY <1>3 DEF Owning, Owned, Loop
  <2>2. Back(f)
    BY <1>2, <2>1 DEF Local, Origin, Owning
  <2> QED
    BY <2>1, <2>2, BackStays
<1> QED
  BY <1>4, <1>5 DEF Local

\* The parent of an attempt is chosen.
LEMMA ParentFacts ==
    ASSUME Typed, NEW f \in Facades, call' = [call EXCEPT ![f].parent = CURRENT], Goto(f, "prepare")
    PROVE  /\ call' \in [Facades -> CallT] /\ pc' \in [Facades -> Places]
           /\ pc'[f] = "prepare" /\ call'[f].parent = CURRENT
           /\ call'[f].op = call[f].op /\ call'[f].owner = call[f].owner /\ call'[f].from = call[f].from
           /\ call'[f].point = call[f].point /\ call'[f].prior = call[f].prior
           /\ call'[f].baseline = call[f].baseline /\ call'[f].rebases = call[f].rebases
           /\ \A g \in Facades \ {f} : pc'[g] = pc[g] /\ call'[g] = call[g]
<1>1. /\ call[f] \in CallT /\ call \in [Facades -> CallT] /\ pc \in [Facades -> Places]
      /\ "prepare" \in Places
  BY DEF Typed, Places, Loop
<1>2. CURRENT \in Nat
  BY SMT DEF Typed, CURRENT
<1>3. call' = [call EXCEPT ![f] = [call[f] EXCEPT !.parent = CURRENT]]
  BY SMT
<1>4. [call[f] EXCEPT !.parent = CURRENT] \in CallT
  BY <1>1, <1>2, SMT DEF CallT
<1>5. /\ call' \in [Facades -> CallT] /\ call'[f] = [call[f] EXCEPT !.parent = CURRENT]
      /\ pc' \in [Facades -> Places] /\ pc'[f] = "prepare"
      /\ \A g \in Facades \ {f} : pc'[g] = pc[g] /\ call'[g] = call[g]
  BY <1>1, <1>3, <1>4 DEF Goto
<1>6. /\ call'[f].parent = CURRENT
      /\ call'[f].op = call[f].op /\ call'[f].owner = call[f].owner /\ call'[f].from = call[f].from
      /\ call'[f].point = call[f].point /\ call'[f].prior = call[f].prior
      /\ call'[f].baseline = call[f].baseline /\ call'[f].rebases = call[f].rebases
  BY <1>1, <1>5, SMT DEF CallT
<1> QED
  BY <1>5, <1>6

\* The top of the loop.
LEMMA ResolveStep ==
    ASSUME IInv, NEW f \in Facades, Resolve(f)
    PROVE  IInv'
<1>1. pc[f] = "resolve" /\ pc[f] # "idle" /\ pc[f] \in Loop /\ UNCHANGED <<gens, health>>
  BY DEF Resolve, Loop
<1>2. /\ Local(f) /\ call[f] \in CallT /\ CURRENT \in Nat /\ CURRENT >= 1 /\ mem[f] \in 1..CURRENT
      /\ call[f].op \in Ops
  BY <1>1, CallFacts
<1>3. Kind(f) \in {"composite", "mixed"} /\ ~Published(call[f].op)
  BY <1>1, <1>2 DEF Local, InCall
<1>4. /\ mem \in [Facades -> Nat] /\ ws \in [Facades -> GraphT \cup {Torn}]
      /\ cat \in [Facades -> SUBSET Ops] /\ spoiled \subseteq Causes
      /\ health \in [Facades -> {"ok", "failed"}] /\ told \in [Ops -> Outcomes]
  BY DEF IInv, Typed
<1>5. call[f].baseline <= CURRENT /\ (call[f].rebases = 0 <=> call[f].baseline = 0)
  BY <1>1, <1>2 DEF Local, InLoop
<1>6. CASE /\ CURRENT = mem[f]
           /\ call' = [call EXCEPT ![f].parent = CURRENT] /\ Goto(f, "prepare")
           /\ UNCHANGED <<self, told, spoiled>>
  <2>1. /\ call' \in [Facades -> CallT] /\ pc' \in [Facades -> Places]
        /\ pc'[f] = "prepare" /\ call'[f].parent = CURRENT
        /\ call'[f].op = call[f].op /\ call'[f].owner = call[f].owner /\ call'[f].from = call[f].from
        /\ call'[f].point = call[f].point /\ call'[f].prior = call[f].prior
        /\ call'[f].baseline = call[f].baseline /\ call'[f].rebases = call[f].rebases
        /\ \A g \in Facades \ {f} : pc'[g] = pc[g] /\ call'[g] = call[g]
    BY <1>6, ParentFacts DEF IInv
  <2>2. UNCHANGED <<mem, ws, cat>>
    BY <1>6 DEF self
  <2>3. Moves(f) /\ Answers(f) /\ pc'[f] \in Loop
    BY <1>1, <1>2, <1>4, <1>6, <2>1, <2>2 DEF Moves, Kept, Answers, Loop
  <2>4. /\ CURRENT' = CURRENT /\ Graph(mem[f])' = Graph(mem[f]) /\ Kind(f)' = Kind(f)
        /\ (Unmixed' => Unmixed) /\ (Named' => Named) /\ (Unharmed' => Unharmed)
        /\ (SameVal(f, mem[f]) => SameVal(f, mem[f])') /\ (Behind(f)' <=> Behind(f))
    <3>1. SameVal(f, mem[f]) => SameVal(f, mem[f])'
      BY <1>1, <2>1, <2>2 DEF SameVal, Sets
    <3>2. CURRENT' = CURRENT /\ Graph(mem[f])' = Graph(mem[f]) /\ Kind(f)' = Kind(f) /\ (Behind(f)' <=> Behind(f))
      BY <1>1, <2>1, <2>2 DEF CURRENT, Graph, Kind, Behind
    <3> QED
      BY <1>6, <3>1, <3>2 DEF Unmixed, Named, Unharmed
  <2>5. InLoop(f)'
    BY <1>1, <1>2, <1>5, <1>6, <2>1, <2>2, <2>4 DEF Local, InLoop, Loop
  <2>6. ~Behind(f)
    BY <1>2, <1>6, SMT DEF Behind
  <2>7. Unmixed' => GraphAt(f)'
    BY <1>1, <1>2, <2>1, <2>2, <2>4, <2>6 DEF Local, GraphAt
  <2>8. (Named' => NamesAt(f)') /\ (Unharmed' => CoherentAt(f)')
    BY <1>1, <1>2, <2>1, <2>2, <2>3, <2>4, <2>6 DEF Local, NamesAt, CoherentAt, Coherent, Loop
  <2>9. Local(f)'
    BY <1>1, <1>3, <1>6, <2>1, <2>2, <2>3, <2>5, <2>7, <2>8, LoopLocal
  <2> QED
    BY <2>3, <2>9, MovesStep
<1>7. CASE Give(f, "conflict") /\ UNCHANGED <<self, spoiled>>
  <2>1. UNCHANGED <<mem, ws, cat>>
    BY <1>7 DEF self
  <2>2. Handles(f)
    BY <1>1, <1>2, <1>4, <1>7, <2>1 DEF Handles
  <2>3. /\ CURRENT' = CURRENT /\ Graph(mem[f])' = Graph(mem[f]) /\ (Behind(f)' <=> Behind(f))
        /\ (Unmixed' => Unmixed) /\ (Named' => Named) /\ (Unharmed' => Unharmed)
    BY <1>1, <1>7, <2>1 DEF CURRENT, Graph, Unmixed, Named, Unharmed, Behind
  <2>4. Kind(f) = "composite" =>
               /\ Unmixed' => ws'[f] = Torn \/ Behind(f)' \/ ws'[f] = Graph(mem[f])'
               /\ Named' => Behind(f)' \/ cat'[f] = gens'[mem'[f]].names
               /\ Unharmed' => Coherent(f)'
    BY <1>1, <1>2, <2>1, <2>3 DEF Local, GraphAt, NamesAt, CoherentAt, Coherent
  <2> QED
    BY <1>1, <1>3, <1>7, <2>1, <2>2, <2>4, GiveStep
<1>8. CASE /\ Install(f, CURRENT)
           /\ Spoil(Discards(f) \cup (IF call[f].rebases > 0 THEN {"unchecked"} ELSE {}))
           /\ call' = [call EXCEPT ![f].parent = CURRENT] /\ Goto(f, "prepare")
           /\ UNCHANGED told
  <2>1. /\ call' \in [Facades -> CallT] /\ pc' \in [Facades -> Places]
        /\ pc'[f] = "prepare" /\ call'[f].parent = CURRENT
        /\ call'[f].op = call[f].op /\ call'[f].owner = call[f].owner /\ call'[f].from = call[f].from
        /\ call'[f].point = call[f].point /\ call'[f].prior = call[f].prior
        /\ call'[f].baseline = call[f].baseline /\ call'[f].rebases = call[f].rebases
        /\ \A g \in Facades \ {f} : pc'[g] = pc[g] /\ call'[g] = call[g]
    BY <1>8, ParentFacts DEF IInv
  <2>2. /\ mem' \in [Facades -> Nat] /\ mem'[f] \in 1..CURRENT /\ mem'[f] = CURRENT
        /\ ws' \in [Facades -> GraphT \cup {Torn}] /\ cat' \in [Facades -> SUBSET Ops]
        /\ \A g \in Facades \ {f} : mem'[g] = mem[g] /\ ws'[g] = ws[g] /\ cat'[g] = cat[g]
        /\ ws'[f] = Graph(mem[f])' /\ cat'[f] = gens'[mem'[f]].names /\ Coherent(f)'
    BY <1>1, <1>8, InstallFacts DEF IInv
  <2>3. /\ spoiled \subseteq spoiled' /\ spoiled' \subseteq Causes
        /\ Kind(f) = "mixed" => "discarded" \in spoiled'
    BY <1>4, <1>8 DEF Spoil, Discards, Causes
  <2>4. call[f].rebases # 0 => "unchecked" \in spoiled'
    <3>1. call[f].rebases # 0 => call[f].rebases > 0
      BY <1>2, FacadeAssumption, SMT DEF CallT
    <3> QED
      BY <1>8, <3>1 DEF Spoil
  <2>5. Moves(f) /\ Answers(f) /\ pc'[f] \in Loop
    BY <1>1, <1>2, <1>4, <1>8, <2>1, <2>2, <2>3 DEF Moves, Kept, Answers, Loop
  <2>6. CURRENT' = CURRENT /\ Kind(f)' = Kind(f)
    BY <1>1, <2>1 DEF CURRENT, Kind
  <2>7. InLoop(f)'
    BY <1>5, <2>1, <2>2, <2>4, <2>6 DEF InLoop
  <2>8. (Unmixed' => GraphAt(f)') /\ (Named' => NamesAt(f)') /\ (Unharmed' => CoherentAt(f)')
    BY <1>3, <2>1, <2>2, <2>3, <2>6 DEF GraphAt, NamesAt, CoherentAt, Loop, Unmixed
  <2>9. Local(f)'
    BY <1>1, <1>3, <1>8, <2>1, <2>3, <2>5, <2>7, <2>8, LoopLocal
  <2> QED
    BY <2>5, <2>9, MovesStep
<1> QED
  BY <1>6, <1>7, <1>8 DEF Resolve

\* What a reconciliation that failed has installed by then.
LEMMA HalfFacts ==
    ASSUME Typed, NEW f \in Facades, HalfInstalled(f) \/ UNCHANGED <<ws, cat>>
    PROVE  /\ ws' \in [Facades -> GraphT \cup {Torn}] /\ cat' \in [Facades -> SUBSET Ops]
           /\ \A g \in Facades \ {f} : ws'[g] = ws[g] /\ cat'[g] = cat[g]
           /\ cat'[f] = cat[f] \/ cat'[f] = gens[CURRENT].names
           /\ HalfInstalled(f) => ws'[f] = Torn \/ ws'[f] = Graph(CURRENT)
<1>1. CURRENT \in 1..CURRENT
  BY SMT DEF Typed, CURRENT
<1>2. Graph(CURRENT) \in GraphT /\ gens[CURRENT] \in GenT
  BY <1>1, GraphTyped
<1>3. gens[CURRENT].names \in SUBSET Ops
  BY <1>2, SMT DEF GenT
<1>4. ws \in [Facades -> GraphT \cup {Torn}] /\ cat \in [Facades -> SUBSET Ops]
  BY DEF Typed
<1>5. CASE HalfInstalled(f)
  <2>1. ws' = [ws EXCEPT ![f] = Torn] \/ ws' = [ws EXCEPT ![f] = Graph(CURRENT)]
    BY <1>5 DEF HalfInstalled
  <2>2. cat' = cat \/ cat' = [cat EXCEPT ![f] = gens[CURRENT].names]
    BY <1>5 DEF HalfInstalled
  <2>3. /\ ws' \in [Facades -> GraphT \cup {Torn}] /\ (ws'[f] = Torn \/ ws'[f] = Graph(CURRENT))
        /\ \A g \in Facades \ {f} : ws'[g] = ws[g]
    BY <1>2, <1>4, <2>1
  <2>4. /\ cat' \in [Facades -> SUBSET Ops] /\ (cat'[f] = cat[f] \/ cat'[f] = gens[CURRENT].names)
        /\ \A g \in Facades \ {f} : cat'[g] = cat[g]
    BY <1>3, <1>4, <2>2
  <2> QED
    BY <2>3, <2>4
<1>6. CASE ~HalfInstalled(f)
  BY <1>4, <1>6
<1> QED
  BY <1>5, <1>6

\* A reconciliation that fails half way.
LEMMA ReconcileFailsStep ==
    ASSUME IInv, NEW f \in Facades, ReconcileFails(f)
    PROVE  IInv'
<1>1. /\ pc[f] \in {"resolve", "rebase"} /\ pc[f] # "idle" /\ pc[f] \in Loop
      /\ HalfInstalled(f) /\ Give(f, "error") /\ UNCHANGED <<gens, mem, health>>
      /\ spoiled' = spoiled \cup ({"half way"} \cup Discards(f))
  BY DEF ReconcileFails, Loop, Spoil
<1>2. Local(f) /\ CURRENT \in Nat /\ mem[f] \in 1..CURRENT
  BY <1>1, CallFacts
<1>3. /\ ws' \in [Facades -> GraphT \cup {Torn}] /\ cat' \in [Facades -> SUBSET Ops]
      /\ \A g \in Facades \ {f} : ws'[g] = ws[g] /\ cat'[g] = cat[g]
      /\ cat'[f] = cat[f] \/ cat'[f] = gens[CURRENT].names
      /\ ws'[f] = Torn \/ ws'[f] = Graph(CURRENT)
  BY <1>1, HalfFacts DEF IInv
<1>4. spoiled \subseteq spoiled' /\ spoiled' \subseteq Causes /\ "half way" \in spoiled'
  <2>1. spoiled \subseteq Causes /\ Discards(f) \subseteq Causes
    BY DEF IInv, Typed, Discards, Causes
  <2> QED
    BY <1>1, <2>1 DEF Causes
<1>5. Handles(f)
  BY <1>1, <1>2, <1>3, <1>4 DEF IInv, Typed, Handles
<1>6. ~Unharmed' /\ (Unmixed' => Unmixed) /\ (Named' => Named)
  BY <1>4 DEF Unharmed, Unmixed, Named
<1>7. Behind(f) \/ mem[f] = CURRENT
  BY <1>2, SMT DEF Behind
<1>8. (Behind(f)' <=> Behind(f)) /\ Graph(mem[f])' = Graph(mem[f])
  BY <1>1 DEF Behind, CURRENT, Graph
<1>9. ws'[f] = Torn \/ Behind(f)' \/ ws'[f] = Graph(mem[f])'
  BY <1>3, <1>7, <1>8
<1>10. Kind(f) = "composite" /\ Named' => Behind(f)' \/ cat'[f] = gens'[mem'[f]].names
  <2>1. Kind(f) = "composite" /\ Named' => Behind(f) \/ cat[f] = gens[mem[f]].names
    BY <1>1, <1>2, <1>6 DEF Local, NamesAt
  <2> QED
    BY <1>1, <1>3, <1>7, <1>8, <2>1
<1> QED
  BY <1>1, <1>5, <1>6, <1>9, <1>10, GiveStep

\* The rows of the transaction are applied.
LEMMA PrepareStep ==
    ASSUME IInv, NEW f \in Facades, Prepare(f)
    PROVE  IInv'
<1>1. pc[f] = "prepare" /\ pc[f] # "idle" /\ pc[f] \in Loop /\ UNCHANGED <<gens, mem, cat, health, spoiled>>
  BY DEF Prepare, Loop, rest
<1>2. /\ Local(f) /\ call[f] \in CallT /\ CURRENT \in Nat /\ CURRENT >= 1 /\ mem[f] \in 1..CURRENT
      /\ call[f].op \in Ops /\ Kind(f) = Request[call[f].op].kind
  BY <1>1, CallFacts
<1>3. Kind(f) \in {"composite", "mixed"} /\ ~Published(call[f].op)
  BY <1>1, <1>2 DEF Local, InCall
<1>4. /\ mem \in [Facades -> Nat] /\ ws \in [Facades -> GraphT \cup {Torn}]
      /\ cat \in [Facades -> SUBSET Ops] /\ spoiled \subseteq Causes
      /\ health \in [Facades -> {"ok", "failed"}] /\ told \in [Ops -> Outcomes]
      /\ call \in [Facades -> CallT] /\ pc \in [Facades -> Places]
  BY DEF IInv, Typed
<1>5. /\ call[f].baseline <= CURRENT /\ (call[f].rebases = 0 <=> call[f].baseline = 0)
      /\ call[f].parent = mem[f] /\ call[f].baseline \in Nat
  <2>1. call[f].baseline \in Nat
    BY <1>2, SMT DEF CallT
  <2> QED
    BY <1>1, <1>2, <2>1 DEF Local, InLoop
<1>6. CURRENT' = CURRENT /\ Graph(mem[f])' = Graph(mem[f]) /\ (Behind(f)' <=> Behind(f))
      /\ (Unmixed' => Unmixed) /\ (Named' => Named) /\ (Unharmed' => Unharmed)
  BY <1>1 DEF CURRENT, Graph, Unmixed, Named, Unharmed, Behind
<1>7. CASE ws[f] # Torn /\ Stands(ws[f], call[f].op)
  <2> DEFINE b == IF f \in Optimistic /\ call[f].baseline = 0 THEN call[f].parent ELSE call[f].baseline
  <2>1. /\ ws' = [ws EXCEPT ![f] = Changed(ws[f], call[f].op)]
        /\ call' = [call EXCEPT ![f] = [call[f] EXCEPT !.baseline = b]]
        /\ Goto(f, "attempt") /\ told' = told
    <3>1. /\ ws' = [ws EXCEPT ![f] = Changed(@, call[f].op)]
          /\ call' = [call EXCEPT ![f].baseline =
                            IF f \in Optimistic /\ @ = 0 THEN call[f].parent ELSE @]
          /\ Goto(f, "attempt") /\ told' = told
      BY <1>7 DEF Prepare
    <3>2. call' = [call EXCEPT ![f] = [call[f] EXCEPT !.baseline = b]]
      BY <3>1, SMT
    <3> QED
      BY <3>1, <3>2
  <2>2. b \in Nat /\ b <= CURRENT /\ (f \in Optimistic => b # 0)
    BY <1>2, <1>5, SMT
  <2>3. /\ (f \in Optimistic /\ call[f].baseline = 0 => b = mem[f])
        /\ (call[f].baseline # 0 => b = call[f].baseline)
    BY <1>5
  <2> HIDE DEF b
  <2>4. [call[f] EXCEPT !.baseline = b] \in CallT
    BY <1>2, <2>2, SMT DEF CallT
  <2>5. ws[f] \in GraphT /\ Changed(ws[f], call[f].op) \in GraphT
    BY <1>2, <1>4, <1>7, ChangedTyped
  <2>6. /\ call' \in [Facades -> CallT] /\ call'[f] = [call[f] EXCEPT !.baseline = b]
        /\ ws' \in [Facades -> GraphT \cup {Torn}] /\ ws'[f] = Changed(ws[f], call[f].op)
        /\ pc' \in [Facades -> Places] /\ pc'[f] = "attempt" /\ pc'[f] \in Loop
        /\ \A g \in Facades \ {f} : pc'[g] = pc[g] /\ call'[g] = call[g] /\ ws'[g] = ws[g]
    BY <1>4, <2>1, <2>4, <2>5 DEF Goto, Places, Loop
  <2>7. /\ call'[f].baseline = b /\ call'[f].parent = call[f].parent
        /\ call'[f].op = call[f].op /\ call'[f].owner = call[f].owner /\ call'[f].from = call[f].from
        /\ call'[f].point = call[f].point /\ call'[f].prior = call[f].prior
        /\ call'[f].rebases = call[f].rebases
    BY <1>2, <2>6, SMT DEF CallT
  <2>8. Moves(f) /\ Answers(f)
    BY <1>1, <1>2, <1>4, <2>1, <2>6 DEF Moves, Kept, Answers
  <2>9. Kind(f)' = Kind(f) /\ Sets(f)' = Sets(f)
    BY <2>7 DEF Kind, Sets
  <2>10. InLoop(f)'
    <3>1. "unchecked" \notin spoiled /\ f \in Optimistic => SameVal(f, mem[f])'
      <4> SUFFICES ASSUME "unchecked" \notin spoiled, f \in Optimistic PROVE SameVal(f, mem[f])'
        OBVIOUS
      <4>1. CASE call[f].baseline = 0
        BY <1>1, <2>3, <2>7, <4>1 DEF SameVal
      <4>2. CASE call[f].baseline # 0
        <5>1. SameVal(f, mem[f])
          BY <1>1, <1>2, <1>5, <4>2 DEF Local, InLoop
        <5> QED
          BY <1>1, <2>3, <2>7, <2>9, <4>2, <5>1 DEF SameVal
      <4> QED
        BY <4>1, <4>2
    <3> QED
      BY <1>1, <1>5, <1>6, <2>2, <2>6, <2>7, <3>1 DEF InLoop
  <2>11. Unmixed' => GraphAt(f)'
    <3> SUFFICES ASSUME Unmixed PROVE ws'[f] = Whole(Graph(mem[f]), call[f].op)
      BY <1>6, <2>6, <2>7, <2>9 DEF GraphAt, Whole
    <3>1. CASE Kind(f) = "composite"
      <4>1. ws[f] = Graph(mem[f])
        BY <1>1, <1>2, <1>7, <3>1 DEF Local, GraphAt
      <4>2. Whole(Graph(mem[f]), call[f].op) = Changed(Graph(mem[f]), call[f].op)
        BY <1>2, <3>1, SMT DEF Whole
      <4> QED
        BY <2>6, <4>1, <4>2
    <3>2. CASE Kind(f) = "mixed"
      <4>1. ws[f] = Ran(Graph(mem[f]), call[f].op)
        BY <1>1, <1>2, <3>2 DEF Local, GraphAt
      <4>2. Whole(Graph(mem[f]), call[f].op) = Changed(Ran(Graph(mem[f]), call[f].op), call[f].op)
        BY <1>2, <3>2, SMT DEF Whole
      <4> QED
        BY <2>6, <4>1, <4>2
    <3> QED
      BY <1>3, <3>1, <3>2
  <2>12. (Named' => NamesAt(f)') /\ (Unharmed' => CoherentAt(f)')
    BY <1>1, <1>2, <1>6, <2>6, <2>7, <2>9 DEF Local, NamesAt, CoherentAt, Coherent, Loop
  <2>13. Local(f)'
    BY <1>1, <1>3, <2>1, <2>5, <2>6, <2>7, <2>10, <2>11, <2>12, LoopLocal
  <2> QED
    BY <2>8, <2>13, MovesStep
<1>8. CASE ~(ws[f] # Torn /\ Stands(ws[f], call[f].op))
  <2>1. Give(f, "error") /\ ws' = ws
    BY <1>8 DEF Prepare
  <2>2. Handles(f)
    BY <1>1, <1>2, <1>4, <2>1 DEF Handles
  <2>3. Kind(f) = "composite" =>
               /\ Unmixed' => ws'[f] = Torn \/ Behind(f)' \/ ws'[f] = Graph(mem[f])'
               /\ Named' => Behind(f)' \/ cat'[f] = gens'[mem'[f]].names
               /\ Unharmed' => Coherent(f)'
    BY <1>1, <1>2, <1>6, <2>1 DEF Local, GraphAt, NamesAt, CoherentAt, Coherent
  <2> QED
    BY <1>1, <2>1, <2>2, <2>3, GiveStep
<1> QED
  BY <1>7, <1>8

\* What an attempt publishes.
LEMMA AttemptFacts ==
    ASSUME IInv, NEW f \in Facades, pc[f] = "attempt"
    PROVE  /\ pc[f] # "idle" /\ pc[f] \in Loop /\ ws[f] \in GraphT /\ ~Published(call[f].op)
           /\ call[f].parent = mem[f] /\ cat[f] \cup {call[f].op} \in SUBSET Ops
           /\ CURRENT = mem[f] =>
                 /\ Unmixed => ws[f] = Whole(Graph(CURRENT), call[f].op)
                 /\ Named => cat[f] \cup {call[f].op} = gens[CURRENT].names \cup {call[f].op}
<1>1. pc[f] # "idle" /\ pc[f] \in Loop
  BY DEF Loop
<1>2. /\ Local(f) /\ CURRENT \in Nat /\ call[f].op \in Ops
  BY <1>1, CallFacts
<1>3. /\ ws[f] \in GraphT /\ ~Published(call[f].op) /\ Kind(f) \in {"composite", "mixed"}
      /\ call[f].parent = mem[f] /\ cat[f] \cup {call[f].op} \in SUBSET Ops
  <2>1. cat[f] \in SUBSET Ops
    BY DEF IInv, Typed
  <2> QED
    BY <1>1, <1>2, <2>1 DEF Local, InCall, InLoop
<1>4. CURRENT = mem[f] => ~Behind(f)
  BY <1>2, SMT DEF Behind
<1>5. CURRENT = mem[f] /\ Unmixed => ws[f] = Whole(Graph(CURRENT), call[f].op)
  BY <1>2 DEF Local, GraphAt
<1>6. CURRENT = mem[f] /\ Named => \/ cat[f] = gens[CURRENT].names
                                   \/ cat[f] = gens[CURRENT].names \cup {call[f].op}
  BY <1>1, <1>2, <1>3, <1>4 DEF Local, NamesAt
<1>7. CURRENT = mem[f] /\ Named => cat[f] \cup {call[f].op} = gens[CURRENT].names \cup {call[f].op}
  BY <1>6
<1> QED
  BY <1>1, <1>3, <1>5, <1>7

\* An attempt succeeds.
LEMMA AttemptStep ==
    ASSUME IInv, NEW f \in Facades, Attempt(f)
    PROVE  IInv'
<1>1. /\ pc[f] = "attempt" /\ CURRENT = call[f].parent
      /\ gens' = Append(gens, Generation(f, cat[f] \cup {call[f].op}))
      /\ mem' = [mem EXCEPT ![f] = CURRENT + 1]
      /\ cat' = [cat EXCEPT ![f] = cat[f] \cup {call[f].op}]
      /\ Return(f, "committed") /\ UNCHANGED <<ws, health, spoiled>>
  BY DEF Attempt, rest
<1> QED
  BY <1>1, AttemptFacts, CommitStep

\* An attempt fails.
LEMMA AttemptFailsStep ==
    ASSUME IInv, NEW f \in Facades, AttemptFails(f)
    PROVE  IInv'
<1>1. /\ pc[f] = "attempt" /\ Goto(f, "abort")
      /\ UNCHANGED <<mem, ws, cat, health, told, spoiled>>
  BY DEF AttemptFails, self
<1>2. /\ pc[f] # "idle" /\ pc[f] \in Loop /\ ws[f] \in GraphT /\ ~Published(call[f].op)
      /\ call[f].parent = mem[f] /\ cat[f] \cup {call[f].op} \in SUBSET Ops
      /\ CURRENT = mem[f] =>
            /\ Unmixed => ws[f] = Whole(Graph(CURRENT), call[f].op)
            /\ Named => cat[f] \cup {call[f].op} = gens[CURRENT].names \cup {call[f].op}
  BY <1>1, AttemptFacts
<1>3. /\ Local(f) /\ call[f] \in CallT /\ CURRENT \in Nat /\ CURRENT >= 1 /\ mem[f] \in 1..CURRENT
      /\ call[f].op \in Ops /\ Request[call[f].op].at = f /\ told[call[f].op] = "none" /\ health[f] = "ok"
  BY <1>2, CallFacts
<1>4. Kind(f) \in {"composite", "mixed"}
  BY <1>2, <1>3 DEF Local, InCall
<1>5. PICK why \in {"conflict", "error"} :
        /\ call' = [call EXCEPT ![f].why = why]
        /\ \/ gens' = gens
           \/ /\ CURRENT = call[f].parent /\ why = "error"
              /\ gens' = Append(gens, Generation(f, cat[f] \cup {call[f].op}))
  BY DEF AttemptFails
<1>6. /\ call' \in [Facades -> CallT] /\ call'[f] = [call[f] EXCEPT !.why = why]
      /\ pc' \in [Facades -> Places] /\ pc'[f] = "abort" /\ pc'[f] \in Loop
      /\ \A g \in Facades \ {f} : Kept(g)
  <2>1. call' = [call EXCEPT ![f] = [call[f] EXCEPT !.why = why]]
    BY <1>5, SMT
  <2>2. [call[f] EXCEPT !.why = why] \in CallT
    BY <1>3, WhyTyped
  <2>3. call \in [Facades -> CallT] /\ pc \in [Facades -> Places]
    BY DEF IInv, Typed
  <2> QED
    BY <1>1, <2>1, <2>2, <2>3 DEF Goto, Places, Loop, Kept
<1>7. /\ call'[f].baseline = call[f].baseline /\ call'[f].parent = call[f].parent
      /\ call'[f].op = call[f].op /\ call'[f].owner = call[f].owner /\ call'[f].from = call[f].from
      /\ call'[f].point = call[f].point /\ call'[f].prior = call[f].prior
      /\ call'[f].why = why
  BY <1>3, <1>6, SMT DEF CallT
<1>8. /\ (Unmixed' <=> Unmixed) /\ (Named' <=> Named) /\ (Unharmed' <=> Unharmed) /\ Kind(f)' = Kind(f)
  BY <1>1, <1>7 DEF Unmixed, Named, Unharmed, Kind
<1>9. call[f].baseline <= CURRENT /\ (f \in Optimistic => call[f].baseline # 0) /\ call[f].baseline \in Nat
  <2>1. call[f].baseline \in Nat
    BY <1>3, SMT DEF CallT
  <2> QED
    BY <1>1, <1>2, <1>3, <2>1 DEF Local, InLoop
<1>10. GraphAt(f)'
  BY <1>6 DEF GraphAt
<1>11. CASE gens' = gens
  <2>1. /\ CURRENT' = CURRENT /\ (Behind(f)' <=> Behind(f))
    BY <1>1, <1>11 DEF CURRENT, Behind
  <2>2. InLoop(f)'
    BY <1>1, <1>2, <1>6, <1>7, <1>9, <2>1 DEF InLoop
  <2>3. (Named' => NamesAt(f)') /\ (Unharmed' => CoherentAt(f)')
    BY <1>1, <1>2, <1>3, <1>6, <1>7, <1>8, <1>11, <2>1 DEF Local, NamesAt, CoherentAt, Loop
  <2>4. Local(f)'
    BY <1>1, <1>2, <1>5, <1>6, <1>7, <1>10, <1>11, <2>2, <2>3, LoopLocal
  <2>5. Moves(f) /\ Answers(f)
    BY <1>1, <1>3, <1>6, <1>11 DEF IInv, Typed, Moves, Answers
  <2> QED
    BY <2>4, <2>5, MovesStep
<1>12. CASE /\ CURRENT = call[f].parent /\ why = "error"
            /\ gens' = Append(gens, Generation(f, cat[f] \cup {call[f].op}))
  <2> DEFINE r == Generation(f, cat[f] \cup {call[f].op})
  <2>1. r \in GenT /\ gens' = Append(gens, r)
    BY <1>2, <1>12, GenerationTyped
  <2> HIDE DEF r
  <2>2. /\ gens' \in Seq(GenT) /\ CURRENT' = CURRENT + 1
        /\ \A i \in 1..CURRENT : i \in 1..CURRENT' /\ gens'[i] = gens[i] /\ Graph(i)' = Graph(i)
    BY <2>1, AppendFacts DEF IInv
  <2>3. CURRENT' >= 1 /\ call[f].baseline <= CURRENT' /\ mem[f] < CURRENT'
    BY <1>3, <1>9, <2>2, SMT
  <2>4. Typed'
    BY <1>1, <1>6, <2>2, <2>3 DEF IInv, Typed
  <2>5. InLoop(f)'
    BY <1>1, <1>2, <1>6, <1>7, <1>9, <2>3 DEF InLoop
  <2>6. InCall(f)'
    BY <1>1, <1>3, <1>4, <1>6, <1>7, <1>8, <1>12 DEF InCall
  <2>7. Behind(f)' /\ gens'[mem'[f]] = gens[mem[f]]
    BY <1>1, <1>3, <2>2, <2>3 DEF Behind
  <2>8. (Named' => NamesAt(f)') /\ (Unharmed' => CoherentAt(f)')
    BY <1>1, <1>3, <1>6, <1>7, <1>8, <2>7 DEF Local, NamesAt, CoherentAt
  <2>9. Origin(f)'
    <3> SUFFICES ASSUME Owning(f)' PROVE Back(f)'
      BY DEF Origin
    <3>1. Back(f)
      BY <1>2, <1>3, <1>4, <1>6, <1>8 DEF Local, Origin, Owning, Owned
    <3>2. call[f].from \in 1..call[f].owner /\ call[f].owner \in 1..CURRENT
      BY <3>1 DEF Back
    <3>3. call[f].from \in 1..CURRENT /\ call[f].owner \in 1..CURRENT' /\ CURRENT' # call[f].owner
      BY <1>3, <2>2, <3>2, SMT
    <3>4. Graph(call[f].from)' = Graph(call[f].from) /\ gens'[call[f].from] = gens[call[f].from]
      BY <1>7, <2>2, <3>3 DEF Graph
    <3> QED
      BY <1>1, <1>7, <1>8, <3>1, <3>2, <3>3, <3>4 DEF Back
  <2>10. Local(f)'
    BY <1>10, <2>5, <2>6, <2>8, <2>9 DEF Local
  <2> QED
    BY <1>1, <1>2, <1>6, <1>12, <2>4, <2>10, SilentStep
<1> QED
  BY <1>5, <1>11, <1>12

\* After the abort the loop goes to the rebase, or ends.
LEMMA AbortedStep ==
    ASSUME IInv, NEW f \in Facades, pc[f] = "abort", Aborted(f), Handles(f),
           Kind(f) = "mixed" => mem'[f] = mem[f] \/ "discarded" \in spoiled',
           Unmixed' => ws'[f] = Torn \/ Behind(f)' \/ ws'[f] = Graph(mem[f])',
           Named' /\ Kind(f) = "composite" => Behind(f)' \/ cat'[f] = gens'[mem'[f]].names,
           Named' /\ Kind(f) = "mixed" => \/ Behind(f)' \/ cat'[f] = gens'[mem'[f]].names
                                          \/ cat'[f] = gens'[mem'[f]].names \cup {call[f].op},
           Unharmed' /\ Kind(f) = "composite" => Coherent(f)'
    PROVE  IInv'
<1>1. pc[f] # "idle" /\ pc[f] \in Loop
  BY DEF Loop
<1>2. Local(f) /\ call[f] \in CallT /\ call[f].op \in Ops
  BY <1>1, CallFacts
<1>3. /\ call[f].why \in {"conflict", "error"} /\ (call[f].why = "conflict" => ~Published(call[f].op))
      /\ Kind(f) \in {"composite", "mixed"}
  BY <1>1, <1>2 DEF Local, InCall
<1>4. CASE call[f].why = "conflict" /\ f \in Optimistic
  <2>1. Goto(f, "rebase") /\ UNCHANGED <<call, told>>
    BY <1>4 DEF Aborted
  <2>2. /\ pc' \in [Facades -> Places] /\ pc'[f] = "rebase" /\ pc'[f] \in Loop
        /\ \A g \in Facades \ {f} : pc'[g] = pc[g]
    BY <2>1 DEF IInv, Typed, Goto, Places, Loop
  <2>3. Moves(f) /\ Answers(f)
    BY <2>1, <2>2 DEF IInv, Typed, Moves, Handles, Kept, Answers
  <2>4. CURRENT' = CURRENT /\ Kind(f)' = Kind(f)
    BY <2>1 DEF Handles, CURRENT, Kind
  <2>5. InLoop(f)'
    BY <1>1, <1>2, <1>4, <2>1, <2>2, <2>4 DEF Local, InLoop
  <2>6. (Unmixed' => GraphAt(f)') /\ (Named' => NamesAt(f)') /\ (Unharmed' => CoherentAt(f)')
    BY <1>3, <2>1, <2>2, <2>4 DEF GraphAt, NamesAt, CoherentAt
  <2>7. Local(f)'
    BY <1>1, <1>3, <1>4, <2>1, <2>2, <2>5, <2>6, LoopLocal DEF Handles
  <2> QED
    BY <2>3, <2>7, MovesStep
<1>5. CASE ~(call[f].why = "conflict" /\ f \in Optimistic)
  <2>1. Give(f, call[f].why)
    BY <1>5 DEF Aborted
  <2> QED
    BY <1>1, <1>3, <2>1, GiveStep
<1> QED
  BY <1>4, <1>5

\* The abort of an attempt.
LEMMA AbortStep ==
    ASSUME IInv, NEW f \in Facades, Abort(f)
    PROVE  IInv'
<1>1. /\ pc[f] = "abort" /\ pc[f] # "idle" /\ pc[f] \in Loop /\ Aborted(f)
      /\ UNCHANGED <<gens, health>> /\ spoiled' = spoiled \cup Discards(f)
  BY DEF Abort, Loop, Spoil
<1>2. Local(f) /\ CURRENT \in Nat /\ CURRENT >= 1 /\ mem[f] \in 1..CURRENT
  BY <1>1, CallFacts
<1>3. call[f].parent = mem[f]
  BY <1>1, <1>2 DEF Local, InLoop
<1>4. /\ spoiled \subseteq spoiled' /\ spoiled' \subseteq Causes
      /\ Kind(f) = "mixed" => "discarded" \in spoiled'
  BY <1>1 DEF IInv, Typed, Discards, Causes
<1>5. (Named' => Named) /\ (Unharmed' => Unharmed)
  BY <1>4 DEF Named, Unharmed
<1>6. CASE CURRENT = call[f].parent
  <2>1. ws'  = [ws EXCEPT ![f] = Graph(CURRENT)] /\ mem' = [mem EXCEPT ![f] = CURRENT] /\ cat' = cat
    BY <1>6 DEF Abort
  <2>2. CURRENT \in 1..CURRENT
    BY <1>2, SMT
  <2>3. Graph(CURRENT) \in GraphT
    BY <2>2, GraphTyped DEF IInv
  <2>4. mem'[f] = mem[f] /\ ws'[f] = Graph(CURRENT) /\ Handles(f)
    BY <1>1, <1>2, <1>3, <1>4, <1>6, <2>1, <2>2, <2>3 DEF IInv, Typed, Handles
  <2>5. Graph(mem[f])' = Graph(CURRENT) /\ (Behind(f)' <=> Behind(f))
    BY <1>1, <1>3, <1>6, <2>4 DEF Graph, Behind, CURRENT
  <2>6. /\ Named' /\ Kind(f) = "composite" => Behind(f)' \/ cat'[f] = gens'[mem'[f]].names
        /\ Named' /\ Kind(f) = "mixed" => \/ Behind(f)' \/ cat'[f] = gens'[mem'[f]].names
                                          \/ cat'[f] = gens'[mem'[f]].names \cup {call[f].op}
    BY <1>1, <1>2, <1>5, <2>1, <2>4, <2>5 DEF Local, NamesAt
  <2>7. Unharmed' /\ Kind(f) = "composite" => Coherent(f)'
    BY <1>1, <1>2, <1>5, <2>1, <2>4, <2>5 DEF Local, CoherentAt, Coherent
  <2> QED
    BY <1>1, <2>4, <2>5, <2>6, <2>7, AbortedStep
<1>7. CASE CURRENT # call[f].parent
  <2>1. Install(f, CURRENT)
    BY <1>7 DEF Abort
  <2>2. Handles(f) /\ ws'[f] = Graph(mem[f])' /\ cat'[f] = gens'[mem'[f]].names /\ Coherent(f)'
    BY <1>1, <1>4, <2>1, InstallFacts DEF IInv, Handles
  <2> QED
    BY <1>1, <1>4, <2>2, AbortedStep
<1> QED
  BY <1>6, <1>7

\* An abort whose own error is ignored.
LEMMA AbortFailsStep ==
    ASSUME IInv, NEW f \in Facades, AbortFails(f)
    PROVE  IInv'
<1>1. /\ pc[f] = "abort" /\ pc[f] # "idle" /\ pc[f] \in Loop /\ Aborted(f)
      /\ UNCHANGED <<gens, mem, health>> /\ spoiled' = spoiled \cup {"swallowed"}
      /\ HalfInstalled(f) \/ UNCHANGED <<ws, cat>>
      /\ CURRENT = call[f].parent => UNCHANGED cat
  BY DEF AbortFails, Loop, Spoil
<1>2. Local(f) /\ CURRENT \in Nat /\ mem[f] \in 1..CURRENT
  BY <1>1, CallFacts
<1>3. call[f].parent = mem[f]
  BY <1>1, <1>2 DEF Local, InLoop
<1>4. spoiled \subseteq spoiled' /\ spoiled' \subseteq Causes
  BY <1>1 DEF IInv, Typed, Causes
<1>5. (Named' => Named) /\ ~Unharmed' /\ ~Unmixed'
  BY <1>1 DEF Named, Unharmed, Unmixed
<1>6. /\ ws' \in [Facades -> GraphT \cup {Torn}] /\ cat' \in [Facades -> SUBSET Ops]
      /\ \A g \in Facades \ {f} : ws'[g] = ws[g] /\ cat'[g] = cat[g]
      /\ cat'[f] = cat[f] \/ cat'[f] = gens[CURRENT].names
  BY <1>1, HalfFacts DEF IInv
<1>7. Handles(f)
  BY <1>1, <1>2, <1>4, <1>6 DEF IInv, Typed, Handles
<1>8. Behind(f) \/ CURRENT = call[f].parent
  BY <1>2, <1>3, SMT DEF Behind
<1>9. cat'[f] = cat[f] \/ Behind(f)'
  BY <1>1, <1>8 DEF Behind, CURRENT
<1>10. Behind(f) => Behind(f)'
  BY <1>1 DEF Behind, CURRENT
<1>11. /\ Named' /\ Kind(f) = "composite" => Behind(f)' \/ cat'[f] = gens'[mem'[f]].names
       /\ Named' /\ Kind(f) = "mixed" => \/ Behind(f)' \/ cat'[f] = gens'[mem'[f]].names
                                         \/ cat'[f] = gens'[mem'[f]].names \cup {call[f].op}
  BY <1>1, <1>2, <1>5, <1>9, <1>10 DEF Local, NamesAt
<1> QED
  BY <1>1, <1>5, <1>7, <1>11, AbortedStep

\* A rebase.
LEMMA RebaseStep ==
    ASSUME IInv, NEW f \in Facades, Rebase(f)
    PROVE  IInv'
<1>1. pc[f] = "rebase" /\ pc[f] # "idle" /\ pc[f] \in Loop /\ UNCHANGED <<gens, health>>
  BY DEF Rebase, Loop
<1>2. Local(f) /\ call[f] \in CallT /\ CURRENT \in Nat /\ mem[f] \in 1..CURRENT
  BY <1>1, CallFacts
<1>3. Kind(f) \in {"composite", "mixed"} /\ ~Published(call[f].op)
  BY <1>1, <1>2 DEF Local, InCall
<1>4. call[f].baseline <= CURRENT /\ call[f].baseline # 0
  BY <1>1, <1>2 DEF Local, InLoop
<1>5. /\ mem \in [Facades -> Nat] /\ ws \in [Facades -> GraphT \cup {Torn}]
      /\ cat \in [Facades -> SUBSET Ops] /\ spoiled \subseteq Causes
      /\ health \in [Facades -> {"ok", "failed"}] /\ told \in [Ops -> Outcomes]
      /\ call \in [Facades -> CallT] /\ pc \in [Facades -> Places]
  BY DEF IInv, Typed
<1>6. CASE \E outcome \in {"conflict", "exhausted"} :
             Give(f, outcome) /\ UNCHANGED <<mem, ws, cat, spoiled>>
  <2>1. PICK outcome \in {"conflict", "exhausted"} :
             Give(f, outcome) /\ UNCHANGED <<mem, ws, cat, spoiled>>
    BY <1>6
  <2>2. Handles(f)
    BY <1>1, <1>2, <1>5, <2>1 DEF Handles
  <2>3. /\ CURRENT' = CURRENT /\ Graph(mem[f])' = Graph(mem[f]) /\ (Behind(f)' <=> Behind(f))
        /\ (Unmixed' => Unmixed) /\ (Named' => Named) /\ (Unharmed' => Unharmed)
    BY <1>1, <2>1 DEF CURRENT, Graph, Unmixed, Named, Unharmed, Behind
  <2>4. Kind(f) = "composite" =>
               /\ Unmixed' => ws'[f] = Torn \/ Behind(f)' \/ ws'[f] = Graph(mem[f])'
               /\ Named' => Behind(f)' \/ cat'[f] = gens'[mem'[f]].names
               /\ Unharmed' => Coherent(f)'
    BY <1>1, <1>2, <2>1, <2>3 DEF Local, GraphAt, NamesAt, CoherentAt, Coherent
  <2> QED
    BY <1>1, <1>3, <2>1, <2>2, <2>4, GiveStep
<1>7. CASE ~Exhausted(f) /\ Install(f, CURRENT) /\ Spoil(Discards(f))
  <2>1. /\ mem' \in [Facades -> Nat] /\ mem'[f] \in 1..CURRENT /\ mem'[f] = CURRENT
        /\ ws' \in [Facades -> GraphT \cup {Torn}] /\ cat' \in [Facades -> SUBSET Ops]
        /\ \A g \in Facades \ {f} : mem'[g] = mem[g] /\ ws'[g] = ws[g] /\ cat'[g] = cat[g]
        /\ ws'[f] = Graph(mem[f])' /\ cat'[f] = gens'[mem'[f]].names /\ Coherent(f)'
    BY <1>1, <1>7, InstallFacts DEF IInv
  <2>2. /\ spoiled \subseteq spoiled' /\ spoiled' \subseteq Causes
        /\ Kind(f) = "mixed" => "discarded" \in spoiled'
    BY <1>5, <1>7 DEF Spoil, Discards, Causes
  <2>3. Handles(f)
    BY <1>1, <2>1, <2>2 DEF Handles
  <2>4. CASE Give(f, "conflict")
    BY <1>1, <1>3, <2>1, <2>2, <2>3, <2>4, GiveStep
  <2>5. CASE /\ Compatible(f) /\ call' = [call EXCEPT ![f].rebases = @ + 1]
             /\ Goto(f, "resolve") /\ UNCHANGED told
    <3>1. call[f].rebases + 1 \in 0..MaxRebases /\ call[f].rebases + 1 # 0
      BY <1>2, <1>7, FacadeAssumption, SMT DEF CallT, Exhausted
    <3>2. call' = [call EXCEPT ![f] = [call[f] EXCEPT !.rebases = call[f].rebases + 1]]
      BY <2>5, SMT
    <3> DEFINE k == call[f].rebases + 1
    <3> HIDE DEF k
    <3>3. [call[f] EXCEPT !.rebases = k] \in CallT
      BY <1>2, <3>1, SMT DEF CallT, k
    <3>4. /\ call' \in [Facades -> CallT] /\ call'[f] = [call[f] EXCEPT !.rebases = k]
          /\ pc' \in [Facades -> Places] /\ pc'[f] = "resolve" /\ pc'[f] \in Loop
          /\ \A g \in Facades \ {f} : pc'[g] = pc[g] /\ call'[g] = call[g]
      BY <1>5, <2>5, <3>2, <3>3 DEF Goto, Places, Loop, k
    <3>5. /\ call'[f].baseline = call[f].baseline /\ call'[f].rebases = k
          /\ call'[f].op = call[f].op /\ call'[f].owner = call[f].owner /\ call'[f].from = call[f].from
          /\ call'[f].point = call[f].point /\ call'[f].prior = call[f].prior
      BY <1>2, <3>4, SMT DEF CallT
    <3>6. Moves(f) /\ Answers(f)
      BY <1>5, <2>3, <2>5, <3>4 DEF Moves, Handles, Kept, Answers
    <3>7. CURRENT' = CURRENT /\ Kind(f)' = Kind(f) /\ Sets(f)' = Sets(f)
      BY <1>1, <3>5 DEF CURRENT, Kind, Sets
    <3>8. InLoop(f)'
      <4>1. SameVal(f, mem[f])'
        BY <1>1, <2>1, <2>5, <3>5, <3>7 DEF Compatible, SameVal
      <4> QED
        BY <1>4, <3>1, <3>4, <3>5, <3>7, <4>1 DEF InLoop, k
    <3>9. (Unmixed' => GraphAt(f)') /\ (Named' => NamesAt(f)') /\ (Unharmed' => CoherentAt(f)')
      BY <1>3, <2>1, <2>2, <3>4, <3>7 DEF GraphAt, NamesAt, CoherentAt, Loop, Unmixed
    <3>10. Local(f)'
      BY <1>1, <1>3, <2>2, <2>5, <3>4, <3>5, <3>8, <3>9, LoopLocal
    <3> QED
      BY <3>6, <3>10, MovesStep
  <2> QED
    BY <1>7, <2>4, <2>5 DEF Rebase, Give, Return, Goto
<1> QED
  BY <1>6, <1>7 DEF Rebase, self

-----------------------------------------------------------------------------

\* A change of the administrative contract.
LEMMA AdministerStep ==
    ASSUME IInv, Administer
    PROVE  IInv'
<1> DEFINE r == [gens[CURRENT] EXCEPT !.admin = gens[CURRENT].admin + 1, !.by = None]
<1>1. /\ gens' = Append(gens, r) /\ gens[CURRENT].admin < MaxAdmin
      /\ UNCHANGED <<mem, ws, cat, health, pc, call, told, spoiled>>
  <2>1. /\ gens' = Append(gens, [gens[CURRENT] EXCEPT !.admin = @ + 1, !.by = None])
        /\ gens[CURRENT].admin < MaxAdmin
        /\ UNCHANGED <<mem, ws, cat, health, pc, call, told, spoiled>>
    BY DEF Administer, self
  <2> QED
    BY <2>1
<1>2. r \in GenT /\ r.by = None /\ r.names = gens[CURRENT].names
  <2>1. CURRENT \in 1..CURRENT
    BY SMT DEF IInv, Typed, CURRENT
  <2>2. gens[CURRENT] \in GenT
    BY <2>1, GraphTyped DEF IInv
  <2> DEFINE r1 == [gens[CURRENT] EXCEPT !.admin = gens[CURRENT].admin + 1]
             r2 == [r1 EXCEPT !.by = None]
  <2>3. r1 \in GenT /\ r1.names = gens[CURRENT].names
    <3>1. gens[CURRENT].admin \in 0..MaxAdmin
      BY <2>2, SMT DEF GenT
    <3>2. gens[CURRENT].admin + 1 \in 0..MaxAdmin
      BY <1>1, <3>1, FacadeAssumption, SMT
    <3> QED
      BY <2>2, <3>2, SMT DEF GenT
  <2>4. r2 \in GenT /\ r2.by = None /\ r2.names = r1.names
    <3> HIDE DEF r1
    <3> QED
      BY <2>3, SMT DEF GenT
  <2> QED
    BY <2>3, <2>4
<1> HIDE DEF r
<1>3. /\ gens' \in Seq(GenT) /\ CURRENT \in Nat /\ CURRENT >= 1 /\ CURRENT' = CURRENT + 1
      /\ gens'[CURRENT + 1] = r /\ \A i \in 1..CURRENT : gens'[i] = gens[i] /\ i \in 1..CURRENT'
  BY <1>1, <1>2, AppendFacts DEF IInv
<1>4. Typed'
  <2>1. CURRENT' >= 1
    BY <1>3, SMT
  <2> QED
    BY <1>1, <1>3, <2>1 DEF IInv, Typed
<1>5. Grows
  BY <1>1, <1>3, SMT DEF Grows, CURRENT
<1>6. ASSUME NEW g \in Facades
      PROVE  NotOf(g) /\ Kept(g)
  <2>1. \A i \in 1..Len(gens') : i > Len(gens) => i = CURRENT + 1
    BY <1>3, SMT DEF CURRENT
  <2> QED
    BY <1>1, <1>2, <1>3, <2>1 DEF NotOf, Kept
<1>7. \A g \in Facades : Local(g)'
  BY <1>4, <1>5, <1>6, KeptLocal DEF IInv
<1>8. {r.by} \ {None} = {}
  BY <1>2
<1>9. /\ Named => r.names = gens[CURRENT].names \cup ({r.by} \ {None})
      /\ \A o \in Ops : o # r.by
  BY <1>2, <1>8, FacadeAssumption
<1> QED
  BY <1>1, <1>2, <1>4, <1>7, <1>9, AppendStep

\* The invariant holds initially.
LEMMA InitIInv == Init => IInv
<1> SUFFICES ASSUME Init PROVE IInv
  OBVIOUS
<1> DEFINE r == [rows |-> Empty.rows, val |-> Empty.val, names |-> {}, admin |-> 0, by |-> None]
<1>1. gens = <<r>> /\ mem = [f \in Facades |-> 1] /\ ws = [f \in Facades |-> Empty]
      /\ cat = [f \in Facades |-> {}] /\ health = [f \in Facades |-> "ok"]
      /\ pc = [f \in Facades |-> "idle"] /\ call = [f \in Facades |-> NoCall]
      /\ told = [o \in Ops |-> "none"] /\ spoiled = {}
  BY DEF Init
<1>2. Empty \in GraphT
  BY SMT DEF Empty, GraphT
<1>3. r \in GenT /\ r.by = None /\ r.names = {} /\ [rows |-> r.rows, val |-> r.val] = Empty
  <2>1. Empty.rows \in [Ops -> Nat] /\ Empty.val \in [Fields -> Ops \cup {None, Gone}]
    BY <1>2, SMT DEF GraphT
  <2>2. [rows |-> Empty.rows, val |-> Empty.val] = Empty
    BY <1>2, GraphIsFields
  <2> HIDE DEF Empty
  <2> QED
    BY <2>1, <2>2, FacadeAssumption, SMT DEF GenT
<1> HIDE DEF r
<1>4. gens \in Seq(GenT) /\ CURRENT = 1 /\ gens[1] = r /\ DOMAIN gens = 1..1
  BY <1>1, <1>3, SMT DEF CURRENT
<1>5. (\A i \in 1..1 : i = 1) /\ 1 \in 1..1 /\ 1 >= 1 /\ 1 \in Nat /\ ~(1 < 1) /\ 2..1 = {}
  BY SMT
<1>6. NoCall \in CallT
  BY FacadeAssumption, SMT DEF NoCall, CallT
<1>7. Typed
  BY <1>1, <1>2, <1>4, <1>5, <1>6 DEF Typed, Places, Outcomes
<1>8. ASSUME NEW f \in Facades
      PROVE  Local(f)
  <2>1. pc[f] = "idle" /\ call[f] = NoCall /\ mem[f] = 1 /\ ws[f] = Empty /\ cat[f] = {}
    BY <1>1
  <2>2. Graph(mem[f]) = Empty /\ gens[mem[f]].names = {}
    BY <1>3, <1>4, <2>1 DEF Graph
  <2>3. InCall(f) /\ InLoop(f) /\ Origin(f)
    BY <2>1 DEF InCall, InLoop, Origin, Owning, Owned, Loop
  <2>4. GraphAt(f) /\ NamesAt(f) /\ CoherentAt(f)
    BY <2>1, <2>2 DEF GraphAt, NamesAt, CoherentAt, Coherent, Loop
  <2> QED
    BY <2>3, <2>4 DEF Local
<1>9. ToldTruthfully
  BY <1>1, <1>3, <1>4, <1>5 DEF ToldTruthfully
<1>10. GenerationIsParentPlusOperation
  BY <1>4, <1>5 DEF GenerationIsParentPlusOperation, CommitIsWhole
<1>11. OperationNamed
  BY <1>3, <1>4, <1>5 DEF OperationNamed
<1> QED
  BY <1>7, <1>8, <1>9, <1>10, <1>11 DEF IInv

\* Every step keeps the invariant.
LEMMA NextIInv == IInv /\ [Next]_vars => IInv'
<1> SUFFICES ASSUME IInv, [Next]_vars PROVE IInv'
  OBVIOUS
<1>1. ASSUME NEW f \in Facades, Step(f) PROVE IInv'
  BY <1>1, ExecuteStep, ExecuteFailsStep, LookupStep, PublishStep, PublishFailsStep, RestoreStep,
     RestoreFailsStep, ResolveStep, ReconcileFailsStep, PrepareStep, AttemptStep, AttemptFailsStep,
     AbortStep, AbortFailsStep, RebaseStep DEF Step
<1>2. ASSUME NEW f \in Facades, NEW o \in Ops, Compose(f, o) \/ Commit(f, o) \/ Query(f, o)
      PROVE  IInv'
  BY <1>2, BeginStep
<1>3. CASE Administer
  BY <1>3, AdministerStep
<1>4. CASE UNCHANGED vars
  <2>1. UNCHANGED <<gens, mem, ws, cat, health, pc, call, told, spoiled>>
    BY <1>4 DEF vars
  <2>2. Typed'
    BY <2>1 DEF IInv, Typed, CURRENT
  <2>3. Grows
    BY <2>1, SMT DEF IInv, Typed, Grows
  <2>4. ASSUME NEW g \in Facades
        PROVE  NotOf(g) /\ Kept(g)
    <3>1. \A i \in 1..Len(gens') : ~(i > Len(gens))
      BY <2>1, SMT DEF IInv, Typed
    <3> QED
      BY <2>1, <3>1 DEF NotOf, Kept
  <2>5. \A g \in Facades : Local(g)'
    BY <2>2, <2>3, <2>4, KeptLocal DEF IInv
  <2>6. ToldTruthfully'
    BY <2>1 DEF IInv, ToldTruthfully, Published
  <2>7. GenerationIsParentPlusOperation'
    BY <2>1 DEF IInv, GenerationIsParentPlusOperation, CommitIsWhole, Graph, CURRENT
  <2>8. Named' => OperationNamed'
    BY <2>1 DEF IInv, Named, OperationNamed, CURRENT
  <2> QED
    BY <2>2, <2>5, <2>6, <2>7, <2>8 DEF IInv
<1> QED
  BY <1>1, <1>2, <1>3, <1>4 DEF Next

\* The inductive invariant holds: at every place of every call the facade knows its
\* workspace, its catalog and the operation it runs relative to the generation in its
\* memory, whatever the other facades publish in between.
THEOREM FacadeInvariance == Spec => []IInv
<1>1. Init => IInv
  BY InitIInv
<1>2. IInv /\ [Next]_vars => IInv'
  BY NextIInv
<1> QED
  BY <1>1, <1>2, PTL DEF Spec

\* Every variable keeps its type.
THEOREM FacadeTypes == Spec => []TypeOK
<1>1. IInv => TypeOK
  <2> SUFFICES ASSUME IInv PROVE TypeOK
    OBVIOUS
  <2>1. Typed
    BY DEF IInv
  <2>2. ASSUME NEW i \in DOMAIN gens
        PROVE  /\ gens[i].names \subseteq Ops /\ gens[i].admin \in 0..MaxAdmin
               /\ gens[i].by \in Ops \cup {None}
    <3>1. gens \in Seq(GenT)
      BY <2>1 DEF Typed
    <3>2. gens[i] \in GenT
      BY <2>2, <3>1, SMT
    <3> QED
      BY <3>2, SMT DEF GenT
  <2>3. mem \in [Facades -> 1..CURRENT]
    BY <2>1 DEF Typed
  <2>4. \A f \in Facades : cat[f] \subseteq Ops
    BY <2>1 DEF Typed
  <2>5. ASSUME NEW f \in Facades
        PROVE  call[f].rebases \in 0..MaxRebases
    <3>1. call[f] \in CallT
      BY <2>1 DEF Typed
    <3> QED
      BY <3>1, SMT DEF CallT
  <2>6. /\ health \in [Facades -> {"ok", "failed"}]
        /\ pc \in [Facades -> {"idle", "execute", "lookup", "publish", "restore", "resolve",
                               "prepare", "attempt", "abort", "rebase"}]
        /\ told \in [Ops -> {"none", "committed", "conflict", "exhausted", "error"}]
        /\ spoiled \subseteq {"discarded", "left over", "rewound", "swallowed", "catalog", "unchecked", "half way"}
    <3>1. Places = {"idle", "execute", "lookup", "publish", "restore", "resolve",
                    "prepare", "attempt", "abort", "rebase"}
      BY SMT DEF Places, Owned, Loop
    <3> QED
      BY <2>1, <3>1 DEF Typed, Outcomes, Causes
  <2> QED
    BY <2>2, <2>3, <2>4, <2>5, <2>6 DEF TypeOK
<1> QED
  BY <1>1, FacadeInvariance, PTL

\* Every generation is its parent and its operation, applied once, and its catalog is
\* that of the parent and the operation's name, for any number of facades that publish,
\* lose, rebase, fail and restore; unless one of the named ways to spoil a workspace has
\* been taken.
THEOREM PublishesOnlyItself == Spec => []GenerationIsParentPlusOperation
<1>1. IInv => GenerationIsParentPlusOperation
  BY DEF IInv
<1> QED
  BY <1>1, FacadeInvariance, PTL

\* Between two calls a healthy facade shows exactly one published generation, with the
\* same exceptions as in the property.
THEOREM ShowsOneGeneration == Spec => []FacadeCoherent
<1>1. IInv => FacadeCoherent
  BY DEF IInv, Local, CoherentAt, FacadeCoherent, Unharmed
<1> QED
  BY <1>1, FacadeInvariance, PTL

\* What calls tell is true, however often an operation is retried.
THEOREM AnswersTrue == Spec => []ToldTruthfully
<1>1. IInv => ToldTruthfully
  BY DEF IInv
<1> QED
  BY <1>1, FacadeInvariance, PTL

\* An optimistic publication that is about to replace its parent overwrites the values
\* its baseline recorded, unless a publication came between their comparison and the
\* next reading of CURRENT.
THEOREM OverwritesWhatItRead == Spec => []CheckedPropertyConflicts
<1>1. IInv => CheckedPropertyConflicts
  <2> SUFFICES ASSUME IInv, "unchecked" \notin spoiled, NEW f \in Optimistic,
                      pc[f] = "attempt", CURRENT = call[f].parent,
                      NEW x \in Sets(f)
               PROVE  gens[CURRENT].val[x] = gens[call[f].baseline].val[x]
    BY DEF CheckedPropertyConflicts, SamePropertyConflicts
  <2>1. f \in Facades
    BY FacadeAssumption
  <2>2. InLoop(f)
    BY <2>1 DEF IInv, Local
  <2>3. call[f].parent = mem[f] /\ SameVal(f, mem[f])
    BY <2>2 DEF InLoop
  <2> QED
    BY <2>3 DEF SameVal
<1> QED
  BY <1>1, FacadeInvariance, PTL

\* No step takes a facade back to an older generation.
THEOREM NeverGoesBack == Spec => FacadeMovesForward
<1>1. IInv /\ [Next]_vars => [\A f \in Facades : mem'[f] >= mem[f]]_vars
  <2> SUFFICES ASSUME IInv, Next, NEW f \in Facades PROVE mem'[f] >= mem[f]
    OBVIOUS
  <2>1. /\ CURRENT \in Nat /\ \A g \in Facades : mem[g] \in 1..CURRENT
        /\ mem \in [Facades -> Nat]
    BY SMT DEF IInv, Typed, CURRENT
  <2>2. \/ mem' = mem
        \/ \E g \in Facades : mem' = [mem EXCEPT ![g] = CURRENT] \/ mem' = [mem EXCEPT ![g] = CURRENT + 1]
    <3>1. ASSUME NEW g \in Facades, Step(g)
          PROVE  \/ mem' = mem \/ mem' = [mem EXCEPT ![g] = CURRENT]
                 \/ mem' = [mem EXCEPT ![g] = CURRENT + 1]
      BY <3>1 DEF Step, Execute, ExecuteFails, Lookup, Publish, PublishFails, Restore,
         RestoreFails, Resolve, ReconcileFails, Prepare, Attempt, AttemptFails, Abort, AbortFails,
         Rebase, Install, self
    <3>2. ASSUME NEW g \in Facades, NEW o \in Ops, Compose(g, o) \/ Commit(g, o) \/ Query(g, o)
          PROVE  mem' = mem
      BY <3>2 DEF Compose, Commit, Query, self
    <3>3. Administer => mem' = mem
      BY DEF Administer, self
    <3> QED
      BY <3>1, <3>2, <3>3 DEF Next
  <2> QED
    BY <2>1, <2>2, SMT
<1> QED
  BY <1>1, FacadeInvariance, PTL DEF Spec, FacadeMovesForward
=============================================================================
