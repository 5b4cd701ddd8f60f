------------------------ MODULE CheckpointRegistryProofs ------------------------
(***************************************************************************)
(* Proofs about the checkpoint registry: in every directory that a crash   *)
(* or a power loss may leave, recovery finds the registry before or after  *)
(* the operation under way; what was answered stays; what is installed is  *)
(* valid.                                                                  *)
(***************************************************************************)
EXTENDS CheckpointRegistry, FiniteSetTheorems, NaturalsInduction, WellFoundedInduction, TLAPS

\* Most leaves are first-order; those that need arithmetic, sequences or records name SMT.
USE ZenonT(20)

-----------------------------------------------------------------------------
(* The inductive invariant.                                                *)

\* A registry that validate_registry() accepts.
Sound(v) == /\ v \in Registries
            /\ IsFiniteSet(v.active) /\ IsFiniteSet(v.tombstones)
            /\ ValidRegistry(v)

Base(v) == IF v = Absent THEN Empty ELSE v

\* The registry records that operation o was carried out at revision rev.
Recorded(reg, o, rev) ==
    \/ \E row \in RowOf(reg, o) \cup CreatedTomb(reg, o) : row.created = rev
    \/ \E t \in DeletedTomb(reg, o) : t.deleted = rev

\* A directory without an intent holds a pair that matches.  One with an intent holds
\* the next pair, the previous one, or the next registry with the checksum to come.
Shape(d) ==
    IF d.intent = Absent THEN Readable(d) /\ Sound(Read(d))
    ELSE /\ Sound(d.intent.next) /\ Sound(Base(d.intent.previous))
         /\ d.intent.next # Base(d.intent.previous)
         /\ \/ AcceptNext(d)
            \/ Readable(d) /\ ValidPair(d) = d.intent.previous
            \/ CompleteNext(d)

Shapes == \A d \in exposed : Shape(d)

\* The locks: one mutation, or readers; with the lifecycle lock, one call.
Exclusion ==
    /\ \A p, q \in Procs : Locked(p) /\ Locked(q) => p = q
    /\ \A p \in Procs : Locked(p) => readers = {}
    /\ \A p \in Procs : p \in readers <=> pc[p] \in {"reading", "readingAgain"}
    /\ durable => \A p, q \in Procs : pc[p] # "idle" /\ pc[q] # "idle" => p = q

\* Unless the next registry is installed and its intent still there, every directory
\* that a power loss may leave selects the same registry.
Settled == dir.intent = Absent \/ Effective(dir) # dir.intent.next
Agreed == "acceptNext" \in cutShort
          \/ (\E p \in Procs : pc[p] = "acceptNext" /\ dir.intent = Absent)
          \/ (Settled => \A d \in exposed : Effective(d) = Effective(dir))

\* Every receipt is recorded in every directory that a power loss may leave.
Survives(receipt, d) ==
    /\ Effective(d).revision >= receipt[2]
    /\ Recorded(Effective(d), receipt[1], receipt[2]) \/ receipt[1] \in pruned
Acknowledged == "acceptNext" \in cutShort \/ \A receipt \in receipts, d \in exposed : Survives(receipt, d)

\* What the process that holds the locks relies on, by its place.
Before     == {"prepare", "stageRegistry", "stageChecksum", "flushStaged", "intent",
               "flushIntent", "registry"}
After      == {"flushPair", "retire", "flushRetired", "answer"}
Committing == Before \cup {"checksum"} \cup After
NoIntent   == {"decide", "prepare", "stageRegistry", "stageChecksum", "flushStaged", "intent",
               "flushRetired", "answer"}

Follows(reg, r, v) == ~Refused(reg, r) /\ v = Apply(reg, r) /\ Drained(reg, v) \subseteq pruned

Serving(p) ==
    /\ next[p] # Absent => Sound(next[p])
    /\ pc[p] \in {"decide"} \cup Committing => request[p] \in Requests
    /\ pc[p] \in Committing => /\ next[p] # Absent
                               /\ Recorded(next[p], request[p].op, next[p].revision)
    /\ pc[p] \in Before => Follows(Read(dir), request[p], next[p])

Holding(p) ==
    /\ pc[p] \in NoIntent => dir.intent = Absent
    /\ pc[p] \in {"stageChecksum", "flushStaged", "intent"} => dir.registryTemp[request[p].op] = next[p]
    /\ pc[p] \in {"flushStaged", "intent"} => dir.checksumTemp[request[p].op] = next[p]
    /\ pc[p] \in {"flushIntent", "registry"} =>
          /\ dir.intent = [op |-> request[p].op, previous |-> ValidPair(dir), next |-> next[p]]
          /\ RetainPrevious(dir)
    /\ pc[p] \in {"checksum", "flushPair", "retire"} =>
          /\ dir.intent # Absent /\ dir.intent.op = request[p].op /\ dir.intent.next = next[p]
    /\ pc[p] = "checksum" => CompleteNext(dir)
    /\ pc[p] \in After => dir.registry = next[p] /\ dir.checksum = next[p]
    /\ pc[p] = "retire" => exposed = {dir}

Recovering(p) ==
    /\ pc[p] = "completed" => dir.intent # Absent
    /\ pc[p] \in {"completed", "acceptNext"} => dir.intent = Absent \/ AcceptNext(dir)
    /\ pc[p] = "rollBack" => dir.intent = Absent \/ (Readable(dir) /\ ValidPair(dir) = dir.intent.previous)

Reading(p) ==
    pc[p] = "reading" \/ (durable /\ pc[p] \in {"rereading", "readingAgain"}) => dir.intent = Absent

Locals == \A p \in Procs : Serving(p) /\ Holding(p) /\ Recovering(p) /\ Reading(p)

IInv == /\ TypeOK /\ Exclusion /\ Shapes /\ RecoverableUnlessRollbackInterrupted
        /\ Agreed /\ Acknowledged /\ Locals

-----------------------------------------------------------------------------
(* Registries: what Apply returns.                                         *)

\* A non-empty set of naturals has a least element.
LEMMA LeastNatural ==
    ASSUME NEW S \in SUBSET Nat, S # {}
    PROVE  \E n \in S : \A m \in S : n <= m
<1> DEFINE R == OpToRel(<, Nat)
<1>1. IsWellFoundedOn(R, Nat)
  BY NatLessThanWellFounded
<1>2. \A m, n \in Nat : m < n => <<m, n>> \in R
  BY SMT DEF OpToRel
<1> HIDE DEF R
<1>3. PICK x \in S : \A y \in S : ~ (<<y, x>> \in R)
  BY <1>1, WFMin
<1>4. ASSUME NEW m \in S PROVE x <= m
  <2>1. ~ (m < x) /\ m \in Nat /\ x \in Nat
    BY <1>2, <1>3
  <2> QED
    BY <2>1, SMT
<1> QED
  BY <1>4

\* draining the oldest tombstones leaves at most MAX_TOMBSTONES of them.
LEMMA RetainedBound ==
    ASSUME NEW S \in SUBSET Tombs, IsFiniteSet(S),
           \A a, b \in S : a.deleted = b.deleted => a = b
    PROVE  IsFiniteSet(Retained(S)) /\ Cardinality(Retained(S)) <= MaxTombstones
<1> DEFINE R == Retained(S)
           Later(t) == {u \in S : u.deleted > t.deleted}
<1>1. R \subseteq S /\ \A t \in R : Cardinality(Later(t)) < MaxTombstones
  BY DEF Retained
<1>2. IsFiniteSet(R) /\ Cardinality(R) \in Nat
  BY <1>1, FS_Subset, FS_CardinalityType
<1>3. MaxTombstones \in Nat
  BY RegistryAssumption
<1> HIDE DEF R
<1>4. CASE R = {}
  <2>1. Cardinality(R) = 0
    BY <1>4, FS_EmptySet
  <2> QED
    BY <1>2, <1>3, <2>1, SMT DEF R
<1>5. CASE R # {}
  <2>1. \A t \in S : t.deleted \in Nat
    BY RegistryAssumption, SMT DEF Tombs
  <2> DEFINE D == {t.deleted : t \in R}
  <2>2. D \in SUBSET Nat /\ D # {}
    <3>1. \A t \in R : t.deleted \in Nat
      BY <1>1, <2>1
    <3>2. \E t \in R : t.deleted \in D
      BY <1>5
    <3> QED
      BY <3>1, <3>2
  <2> HIDE DEF D
  <2>3. PICK n \in D : \A m \in D : n <= m
    BY <2>2, LeastNatural
  <2>4. PICK t \in R : n = t.deleted
    BY DEF D
  <2>5. ASSUME NEW u \in R \ {t} PROVE u \in Later(t)
    <3>1. t.deleted <= u.deleted
      BY <2>3, <2>4 DEF D
    <3>2. u.deleted # t.deleted /\ u \in S /\ t \in S
      BY <1>1
    <3>3. u.deleted > t.deleted
      BY <2>1, <3>1, <3>2, SMT
    <3> QED
      BY <3>2, <3>3
  <2>6. R \ {t} \subseteq Later(t)
    BY <2>5
  <2>7. IsFiniteSet(Later(t))
    BY FS_Subset
  <2>8. Cardinality(R \ {t}) <= Cardinality(Later(t)) /\ Cardinality(Later(t)) \in Nat
    BY <2>6, <2>7, FS_Subset, FS_CardinalityType
  <2>9. Cardinality(R \ {t}) = Cardinality(R) - 1
    BY <1>2, <2>4, FS_RemoveElement
  <2>10. Cardinality(Later(t)) < MaxTombstones
    BY <1>1, <2>4
  <2> HIDE DEF Later
  <2>11. Cardinality(R) <= MaxTombstones
    BY <1>2, <1>3, <2>8, <2>9, <2>10, SMT
  <2> QED
    BY <1>2, <2>11 DEF R
<1> QED
  BY <1>4, <1>5

\* The empty registry, read when neither file exists, is valid.
LEMMA EmptySound == Sound(Empty)
<1>1. Empty \in Registries /\ Empty.active = {} /\ Empty.tombstones = {}
  BY RegistryAssumption, SMT DEF Empty, Registries
<1>2. IsFiniteSet({}) /\ Cardinality({}) = 0
  BY FS_EmptySet
<1>3. 0 <= MaxActive /\ 0 <= MaxTombstones
  BY RegistryAssumption, SMT
<1> QED
  BY <1>1, <1>2, <1>3 DEF Sound, ValidRegistry

\* No registry and no intent is the absent file.
LEMMA NotAbsent ==
    /\ \A v \in Registries : v # Absent
    /\ \A v \in Intents : v # Absent
    /\ \A v \in Requests : v # Absent
BY RegistryAssumption

\* An operation is recorded by a valid registry at one revision.
LEMMA RecordedOnce ==
    ASSUME NEW v, Sound(v), NEW o, NEW a, NEW b, Recorded(v, o, a), Recorded(v, o, b)
    PROVE  a = b
<1>1. /\ \A x, y \in v.active : x.op = y.op => x = y
      /\ \A x, y \in v.tombstones : (x.op = y.op \/ x.deleteOp = y.deleteOp) => x = y
      /\ \A t \in v.tombstones :
            /\ \A x \in v.active : x.op # t.op /\ x.op # t.deleteOp
            /\ \A u \in v.tombstones : u.op # t.deleteOp
  BY DEF Sound, ValidRegistry
<1> DEFINE Row(c) == \E row \in v.active : row.op = o /\ row.created = c
           Made(c) == \E t \in v.tombstones : t.op = o /\ t.created = c
           Gone(c) == \E t \in v.tombstones : t.deleteOp = o /\ t.deleted = c
<1>2. (Row(a) \/ Made(a) \/ Gone(a)) /\ (Row(b) \/ Made(b) \/ Gone(b))
  BY DEF Recorded, RowOf, CreatedTomb, DeletedTomb
<1>3. ~(Row(a) /\ Made(b)) /\ ~(Row(a) /\ Gone(b)) /\ ~(Made(a) /\ Gone(b))
  BY <1>1
<1>4. ~(Row(b) /\ Made(a)) /\ ~(Row(b) /\ Gone(a)) /\ ~(Made(b) /\ Gone(a))
  BY <1>1
<1>5. /\ Row(a) /\ Row(b) => a = b
      /\ Made(a) /\ Made(b) => a = b
      /\ Gone(a) /\ Gone(b) => a = b
  BY <1>1
<1> HIDE DEF Row, Made, Gone
<1> QED
  BY <1>2, <1>3, <1>4, <1>5

\* A recorded operation is known.
LEMMA RecordedKnown ==
    ASSUME NEW v, NEW o, NEW a, Recorded(v, o, a)
    PROVE  Known(v, o)
BY DEF Recorded, Known

\* What a create that is not refused installs.
LEMMA CreateFields ==
    ASSUME NEW v \in Registries, NEW r \in Requests, r.kind = "create", ~Refused(v, r)
    PROVE  LET row == [name |-> r.name, op |-> r.op, created |-> v.revision + 1] IN
           /\ Apply(v, r) \in Registries
           /\ Apply(v, r).revision = v.revision + 1
           /\ Apply(v, r).active = v.active \cup {row}
           /\ Apply(v, r).tombstones = v.tombstones
           /\ row \in Rows
<1> DEFINE row == [name |-> r.name, op |-> r.op, created |-> v.revision + 1]
<1>1. v.revision + 1 \in 1..MaxRevision /\ v.revision + 1 \in 0..MaxRevision
  BY RegistryAssumption, SMT DEF Refused, Registries
<1>2. row \in Rows
  BY <1>1, SMT DEF Rows, Names, Ops
<1> DEFINE grown == v.active \cup {row}
           e == [v EXCEPT !.revision = v.revision + 1]
<1>3. Apply(v, r) = [e EXCEPT !.active = grown]
  BY SMT DEF Apply, Registries
<1>4. grown \subseteq Rows
  BY <1>2, SMT DEF Registries
<1>5. /\ e \in Registries /\ e.revision = v.revision + 1
      /\ e.active = v.active /\ e.tombstones = v.tombstones
  BY <1>1, SMT DEF Registries
<1> HIDE DEF row, e, grown
<1>6. /\ Apply(v, r) \in Registries
      /\ Apply(v, r).revision = v.revision + 1
      /\ Apply(v, r).active = grown
      /\ Apply(v, r).tombstones = v.tombstones
  BY <1>3, <1>4, <1>5, SMT DEF Registries
<1> QED
  BY <1>2, <1>6 DEF row, grown

\* What a delete that is not refused installs.
LEMMA DeleteFields ==
    ASSUME NEW v \in Registries, NEW r \in Requests, r.kind = "delete", ~Refused(v, r)
    PROVE  LET tombs == v.tombstones \cup {Tombstone(row, r, v.revision + 1) : row \in Named(v, r.name)} IN
           /\ tombs \subseteq Tombs
           /\ Apply(v, r) \in Registries
           /\ Apply(v, r).revision = v.revision + 1
           /\ Apply(v, r).active = v.active \ Named(v, r.name)
           /\ Apply(v, r).tombstones = Retained(tombs)
<1> DEFINE tombs == v.tombstones \cup {Tombstone(row, r, v.revision + 1) : row \in Named(v, r.name)}
<1>1. v.revision + 1 \in 1..MaxRevision /\ v.revision + 1 \in 0..MaxRevision
  BY RegistryAssumption, SMT DEF Refused, Registries
<1>2. ASSUME NEW row \in Rows PROVE Tombstone(row, r, v.revision + 1) \in Tombs
  <2>1. r.op \in Ops
    BY DEF Ops
  <2>2. row.name \in Names /\ row.op \in Ops /\ row.created \in 1..MaxRevision
    BY SMT DEF Rows
  <2> QED
    BY <1>1, <2>1, <2>2, SMT DEF Tombstone, Tombs
<1>3. v.active \subseteq Rows /\ v.tombstones \subseteq Tombs
  BY SMT DEF Registries
<1>4. tombs \subseteq Tombs
  BY <1>2, <1>3 DEF Named
<1>5. Retained(tombs) \subseteq Tombs /\ v.active \ Named(v, r.name) \subseteq Rows
  BY <1>3, <1>4 DEF Retained
<1> DEFINE keep == v.active \ Named(v, r.name)
           kept == Retained(tombs)
<1>7. kept \subseteq Tombs /\ keep \subseteq Rows
  BY <1>5
<1> DEFINE e == [v EXCEPT !.revision = v.revision + 1]
           f == [e EXCEPT !.active = keep]
<1>8. Apply(v, r) = [f EXCEPT !.tombstones = kept]
  BY SMT DEF Apply, Registries
<1> HIDE DEF tombs, keep, kept
<1>10. /\ e \in Registries /\ e.revision = v.revision + 1
      /\ e.active = v.active /\ e.tombstones = v.tombstones
  BY <1>1, SMT DEF Registries
<1> HIDE DEF e
<1>11. f \in Registries /\ f.revision = v.revision + 1 /\ f.active = keep
  BY <1>7, <1>10, SMT DEF Registries
<1> HIDE DEF f
<1>9. /\ Apply(v, r) \in Registries
      /\ Apply(v, r).revision = v.revision + 1
      /\ Apply(v, r).active = keep
      /\ Apply(v, r).tombstones = kept
  BY <1>7, <1>8, <1>11, SMT DEF Registries
<1> QED
  BY <1>4, <1>9 DEF tombs, keep, kept

\* Adding a new row to a valid registry keeps it valid and keeps what it records.
LEMMA CreateSound ==
    ASSUME NEW v, Sound(v), NEW r \in Requests, r.kind = "create", ~Refused(v, r)
    PROVE  /\ Sound(Apply(v, r))
           /\ Recorded(Apply(v, r), r.op, v.revision + 1)
           /\ \A o, rev : Recorded(v, o, rev) => Recorded(Apply(v, r), o, rev)
<1> DEFINE w == Apply(v, r)
           row == [name |-> r.name, op |-> r.op, created |-> v.revision + 1]
<1>1. v \in Registries /\ IsFiniteSet(v.active) /\ IsFiniteSet(v.tombstones) /\ ValidRegistry(v)
  BY DEF Sound
<1>2. /\ w \in Registries /\ w.revision = v.revision + 1
      /\ w.active = v.active \cup {row} /\ w.tombstones = v.tombstones
  BY <1>1, CreateFields
<1>3. row.name = r.name /\ row.op = r.op /\ row.created = v.revision + 1
  OBVIOUS
<1>4. v.revision \in Nat
  BY <1>1, RegistryAssumption, SMT DEF Registries
<1>5. /\ \A a \in v.active : a.name # r.name /\ a.op # r.op
      /\ \A t \in v.tombstones : t.op # r.op /\ t.deleteOp # r.op
      /\ ~(Cardinality(v.active) >= MaxActive)
  BY DEF Refused, Known, Named, RowOf, CreatedTomb, DeletedTomb
<1> HIDE DEF w, row
<1>6. /\ IsFiniteSet(w.active) /\ IsFiniteSet(w.tombstones)
      /\ Cardinality(w.active) <= Cardinality(v.active) + 1
      /\ Cardinality(v.active) \in Nat /\ Cardinality(w.active) \in Nat
  <2>0. /\ IsFiniteSet(v.active \cup {row})
        /\ \/ Cardinality(v.active \cup {row}) = Cardinality(v.active)
           \/ Cardinality(v.active \cup {row}) = Cardinality(v.active) + 1
    BY <1>1, FS_AddElement
  <2>1. IsFiniteSet(w.active)
    BY <1>2, <2>0
  <2>2. Cardinality(v.active) \in Nat /\ Cardinality(w.active) \in Nat
    BY <1>1, <2>1, FS_CardinalityType
  <2>3. Cardinality(w.active) = Cardinality(v.active) \/ Cardinality(w.active) = Cardinality(v.active) + 1
    BY <1>2, <2>0
  <2>4. Cardinality(w.active) <= Cardinality(v.active) + 1
    BY <2>2, <2>3, SMT
  <2> QED
    BY <1>1, <1>2, <2>1, <2>2, <2>4
<1>7. Cardinality(w.active) <= MaxActive
  BY <1>5, <1>6, RegistryAssumption, SMT
<1>8. Cardinality(w.tombstones) <= MaxTombstones
  BY <1>1, <1>2 DEF ValidRegistry
<1>9. \A a, b \in w.active : (a.name = b.name \/ a.op = b.op) => a = b
  BY <1>1, <1>2, <1>3, <1>5 DEF ValidRegistry
<1>10. \A a \in w.active : a.created <= w.revision
  <2>1. \A a \in v.active : a.created \in Nat /\ a.created <= v.revision
    BY <1>1, RegistryAssumption, SMT DEF ValidRegistry, Registries, Rows
  <2>2. \A a \in v.active : a.created <= v.revision + 1
    BY <1>4, <2>1, SMT
  <2>3. row.created <= v.revision + 1
    BY <1>3, <1>4, SMT
  <2> QED
    BY <1>2, <2>2, <2>3
<1>11. \A a, b \in w.tombstones : (a.op = b.op \/ a.deleteOp = b.deleteOp \/ a.deleted = b.deleted) => a = b
  BY <1>1, <1>2 DEF ValidRegistry
<1>12. \A t \in w.tombstones : t.created < t.deleted /\ t.deleted <= w.revision
  <2>1. \A t \in v.tombstones : t.deleted \in Nat
    BY <1>1, RegistryAssumption, SMT DEF Registries, Tombs
  <2>2. \A t \in v.tombstones : t.created < t.deleted /\ t.deleted <= v.revision
    BY <1>1 DEF ValidRegistry
  <2>3. \A t \in v.tombstones : t.deleted <= v.revision + 1
    BY <1>4, <2>1, <2>2, SMT
  <2> QED
    BY <1>2, <2>2, <2>3
<1>13. \A t \in w.tombstones : /\ \A a \in w.active : a.op # t.op /\ a.op # t.deleteOp
                               /\ \A u \in w.tombstones : u.op # t.deleteOp
  BY <1>1, <1>2, <1>3, <1>5 DEF ValidRegistry
<1>14. Sound(w)
  BY <1>2, <1>6, <1>7, <1>8, <1>9, <1>10, <1>11, <1>12, <1>13 DEF Sound, ValidRegistry
<1>15. Recorded(w, r.op, v.revision + 1)
  BY <1>2, <1>3 DEF Recorded, RowOf
<1>16. ASSUME NEW o, NEW rev, Recorded(v, o, rev) PROVE Recorded(w, o, rev)
  BY <1>2, <1>16 DEF Recorded, RowOf, CreatedTomb, DeletedTomb
<1> QED
  BY <1>14, <1>15, <1>16 DEF w

\* So does replacing a row by its tombstone, but for the tombstones that are drained.
LEMMA DeleteSound ==
    ASSUME NEW v, Sound(v), NEW r \in Requests, r.kind = "delete", ~Refused(v, r)
    PROVE  /\ Sound(Apply(v, r))
           /\ Recorded(Apply(v, r), r.op, v.revision + 1)
           /\ \A o \in Ops : \A rev : Recorded(v, o, rev) =>
                 Recorded(Apply(v, r), o, rev) \/ o \in Drained(v, Apply(v, r))
<1> DEFINE w == Apply(v, r)
           new == v.revision + 1
           tombs == v.tombstones \cup {Tombstone(row, r, v.revision + 1) : row \in Named(v, r.name)}
<1>1. v \in Registries /\ IsFiniteSet(v.active) /\ IsFiniteSet(v.tombstones) /\ ValidRegistry(v)
  BY DEF Sound
<1>2. /\ tombs \subseteq Tombs /\ w \in Registries /\ w.revision = new
      /\ w.active = v.active \ Named(v, r.name) /\ w.tombstones = Retained(tombs)
  BY <1>1, DeleteFields
<1>3. PICK row \in v.active : row.name = r.name
  BY DEF Refused, Named
<1> DEFINE t0 == Tombstone(row, r, v.revision + 1)
<1>4. /\ t0.name = row.name /\ t0.op = row.op /\ t0.created = row.created
      /\ t0.deleteOp = r.op /\ t0.deleted = new
  BY SMT DEF Tombstone
<1>5. Named(v, r.name) = {row}
  BY <1>1, <1>3 DEF Named, ValidRegistry
<1>6. tombs = v.tombstones \cup {t0}
  BY <1>5
<1>7. v.revision \in Nat /\ new \in Nat
  BY <1>1, RegistryAssumption, SMT DEF Registries
<1>8. /\ \A a \in v.active : a.op # r.op
      /\ \A t \in v.tombstones : t.op # r.op /\ t.deleteOp # r.op
  BY DEF Refused, Known, RowOf, CreatedTomb, DeletedTomb
<1>9. new = v.revision + 1
  OBVIOUS
<1> HIDE DEF w, tombs, t0, new
<1>10. \A t \in v.tombstones : t.deleted \in Nat /\ t.deleted < new
  <2>1. \A t \in v.tombstones : t.deleted \in Nat
    BY <1>1, RegistryAssumption, SMT DEF Registries, Tombs
  <2>2. \A t \in v.tombstones : t.deleted <= v.revision
    BY <1>1 DEF ValidRegistry
  <2> QED
    BY <1>7, <1>9, <2>1, <2>2, SMT
<1>11. \A t \in v.tombstones : t.deleted # new
  BY <1>7, <1>10, SMT
<1>12. \A a, b \in tombs : (a.op = b.op \/ a.deleteOp = b.deleteOp \/ a.deleted = b.deleted) => a = b
  <2>1. \A a, b \in v.tombstones : (a.op = b.op \/ a.deleteOp = b.deleteOp \/ a.deleted = b.deleted) => a = b
    BY <1>1 DEF ValidRegistry
  <2>2. \A a \in v.tombstones : a.op # t0.op /\ a.deleteOp # t0.deleteOp /\ a.deleted # t0.deleted
    BY <1>1, <1>3, <1>4, <1>8, <1>11 DEF ValidRegistry
  <2> QED
    BY <1>6, <2>1, <2>2
<1>13. IsFiniteSet(tombs)
  BY <1>1, <1>6, FS_AddElement
<1>14. IsFiniteSet(w.tombstones) /\ Cardinality(w.tombstones) <= MaxTombstones
  <2>1. \A a, b \in tombs : a.deleted = b.deleted => a = b
    BY <1>12
  <2>2. IsFiniteSet(Retained(tombs)) /\ Cardinality(Retained(tombs)) <= MaxTombstones
    BY <1>2, <1>13, <2>1, RetainedBound
  <2> QED
    BY <1>2, <2>2
<1>15. w.tombstones \subseteq tombs /\ w.active \subseteq v.active /\ row \notin w.active
  BY <1>2, <1>5 DEF Retained
<1>16. IsFiniteSet(w.active) /\ Cardinality(w.active) <= MaxActive
  <2>1. /\ IsFiniteSet(w.active) /\ Cardinality(w.active) <= Cardinality(v.active)
        /\ Cardinality(v.active) \in Nat /\ Cardinality(w.active) \in Nat
    BY <1>1, <1>15, FS_Subset, FS_CardinalityType
  <2>2. Cardinality(v.active) <= MaxActive
    BY <1>1 DEF ValidRegistry
  <2> QED
    BY <2>1, <2>2, RegistryAssumption, SMT
<1>17. \A a, b \in w.active : (a.name = b.name \/ a.op = b.op) => a = b
  BY <1>1, <1>15 DEF ValidRegistry
<1>18. \A a \in v.active : a.created \in Nat /\ a.created <= v.revision
  BY <1>1, RegistryAssumption, SMT DEF ValidRegistry, Registries, Rows
<1>19. \A a \in v.active : a.created <= new /\ a.created < new
  BY <1>7, <1>9, <1>18, SMT
<1>20. \A t \in tombs : t.created < t.deleted /\ t.deleted <= new
  <2>1. t0.created < t0.deleted /\ t0.deleted <= new
    <3>1. row.created < new /\ new <= new
      BY <1>3, <1>7, <1>19, SMT
    <3> QED
      BY <1>4, <3>1
  <2>2. \A t \in v.tombstones : t.created < t.deleted
    BY <1>1 DEF ValidRegistry
  <2>3. \A t \in v.tombstones : t.deleted <= new
    BY <1>7, <1>10, SMT
  <2> QED
    BY <1>6, <2>1, <2>2, <2>3
<1>21. \A t \in tombs : /\ \A a \in w.active : a.op # t.op /\ a.op # t.deleteOp
                        /\ \A u \in tombs : u.op # t.deleteOp
  <2>1. \A a \in w.active : a.op # t0.op /\ a.op # t0.deleteOp
    BY <1>1, <1>3, <1>4, <1>8, <1>15 DEF ValidRegistry
  <2>2. \A t \in v.tombstones : t.op # t0.deleteOp /\ t0.op # t.deleteOp
    BY <1>1, <1>3, <1>4, <1>8 DEF ValidRegistry
  <2>3. t0.op # t0.deleteOp
    BY <1>3, <1>4, <1>8
  <2>4. \A t \in v.tombstones : /\ \A a \in v.active : a.op # t.op /\ a.op # t.deleteOp
                                /\ \A u \in v.tombstones : u.op # t.deleteOp
    BY <1>1 DEF ValidRegistry
  <2> QED
    BY <1>6, <1>15, <2>1, <2>2, <2>3, <2>4
<1>22. Sound(w)
  <2>1. \A a \in w.active : a.created <= w.revision
    BY <1>2, <1>15, <1>19
  <2>2. \A a, b \in w.tombstones : (a.op = b.op \/ a.deleteOp = b.deleteOp \/ a.deleted = b.deleted) => a = b
    BY <1>12, <1>15
  <2>3. \A t \in w.tombstones : t.created < t.deleted /\ t.deleted <= w.revision
    BY <1>2, <1>15, <1>20
  <2>4. \A t \in w.tombstones : /\ \A a \in w.active : a.op # t.op /\ a.op # t.deleteOp
                                /\ \A u \in w.tombstones : u.op # t.deleteOp
    BY <1>15, <1>21
  <2> QED
    BY <1>2, <1>14, <1>16, <1>17, <2>1, <2>2, <2>3, <2>4 DEF Sound, ValidRegistry
<1>23. t0 \in w.tombstones
  <2>1. \A u \in tombs : ~(u.deleted > t0.deleted)
    <3>1. ~(new > new) /\ \A u \in v.tombstones : ~(u.deleted > new)
      BY <1>7, <1>10, SMT
    <3> QED
      BY <1>4, <1>6, <3>1
  <2>2. {u \in tombs : u.deleted > t0.deleted} = {}
    BY <2>1
  <2>3. Cardinality({u \in tombs : u.deleted > t0.deleted}) = 0
    BY <2>2, FS_EmptySet
  <2>4. 0 < MaxTombstones
    BY RegistryAssumption, SMT
  <2>5. Cardinality({u \in tombs : u.deleted > t0.deleted}) < MaxTombstones
    BY <2>3, <2>4
  <2> QED
    BY <1>2, <1>6, <2>5 DEF Retained
<1>24. Recorded(w, r.op, new)
  BY <1>4, <1>23 DEF Recorded, DeletedTomb
<1>25. ASSUME NEW o \in Ops, NEW rev, Recorded(v, o, rev)
       PROVE  Recorded(w, o, rev) \/ o \in Drained(v, w)
  <2>1. CASE \E x \in RowOf(v, o) : x.created = rev
    <3>1. PICK x \in v.active : x.op = o /\ x.created = rev
      BY <2>1 DEF RowOf
    <3>2. x = row \/ x \in w.active
      BY <1>2, <1>5
    <3>3. x = row => t0 \in CreatedTomb(w, o) /\ t0.created = rev
      BY <1>4, <1>23, <3>1 DEF CreatedTomb
    <3>4. x \in w.active => x \in RowOf(w, o)
      BY <3>1 DEF RowOf
    <3> QED
      BY <3>1, <3>2, <3>3, <3>4 DEF Recorded
  <2>2. CASE \E t \in CreatedTomb(v, o) : t.created = rev
    BY <2>2 DEF CreatedTomb, Recorded, Drained
  <2>3. CASE \E t \in DeletedTomb(v, o) : t.deleted = rev
    BY <2>3 DEF DeletedTomb, Recorded, Drained
  <2> QED
    BY <1>25, <2>1, <2>2, <2>3 DEF Recorded
<1> QED
  BY <1>22, <1>24, <1>25 DEF w, new

\* Apply of a request that is not refused: the facts the commit relies on.
LEMMA ApplySound ==
    ASSUME NEW v, Sound(v), NEW r \in Requests, ~Refused(v, r)
    PROVE  /\ Sound(Apply(v, r)) /\ Apply(v, r) \in Registries
           /\ Apply(v, r).revision = v.revision + 1
           /\ Apply(v, r) # v
           /\ Recorded(Apply(v, r), r.op, Apply(v, r).revision)
           /\ \A o \in Ops : \A rev : Recorded(v, o, rev) =>
                 Recorded(Apply(v, r), o, rev) \/ o \in Drained(v, Apply(v, r))
<1>1. v \in Registries
  BY DEF Sound
<1>2. Apply(v, r).revision = v.revision + 1 /\ Apply(v, r) \in Registries
  <2>1. r.kind = "create" \/ r.kind = "delete"
    BY RegistryAssumption
  <2> QED
    BY <1>1, <2>1, CreateFields, DeleteFields
<1>3. Apply(v, r) # v
  <2>1. v.revision + 1 # v.revision
    BY <1>1, RegistryAssumption, SMT DEF Registries
  <2> QED
    BY <1>2, <2>1
<1>4. CASE r.kind = "create"
  BY <1>2, <1>3, <1>4, CreateSound
<1>5. CASE r.kind = "delete"
  BY <1>2, <1>3, <1>5, DeleteSound
<1> QED
  BY <1>4, <1>5, RegistryAssumption

-----------------------------------------------------------------------------
(* Directories: the effect of one operation on the files.                  *)

\* What a directory holds.
LEMMA DirectoryFields ==
    ASSUME NEW d \in Directories
    PROVE  /\ d.registry \in Files /\ d.checksum \in Files
           /\ d.intent \in Intents \cup {Absent}
           /\ d.registryTemp \in [Ops -> Files] /\ d.checksumTemp \in [Ops -> Files]
BY SMT DEF Directories

\* What an intent records.
LEMMA IntentFields ==
    ASSUME NEW i \in Intents
    PROVE  i.op \in Ops /\ i.previous \in Files /\ i.next \in Registries
BY SMT DEF Intents

\* A rename or removal of the intent.
LEMMA IntentSet ==
    ASSUME NEW d \in Directories, NEW i \in Intents \cup {Absent}
    PROVE  LET e == [d EXCEPT !.intent = i] IN
           /\ e \in Directories
           /\ e.registry = d.registry /\ e.checksum = d.checksum /\ e.intent = i
           /\ e.registryTemp = d.registryTemp /\ e.checksumTemp = d.checksumTemp
BY SMT DEF Directories

\* d with the registry, or the checksum, staged for operation o replaced by v.
PutRegistryTemp(d, o, v) == [d EXCEPT !.registryTemp[o] = v]
PutChecksumTemp(d, o, v) == [d EXCEPT !.checksumTemp[o] = v]

\* The staged registry of one operation is written or removed.
LEMMA RegistryTempSet ==
    ASSUME NEW d \in Directories, NEW o \in Ops, NEW v \in Files
    PROVE  LET e == PutRegistryTemp(d, o, v) IN
           /\ e \in Directories
           /\ e.registry = d.registry /\ e.checksum = d.checksum /\ e.intent = d.intent
           /\ e.registryTemp[o] = v /\ e.checksumTemp = d.checksumTemp
<1> DEFINE t == [d.registryTemp EXCEPT ![o] = v]
           e == [d EXCEPT !.registryTemp = t]
<1>1. PutRegistryTemp(d, o, v) = e
  BY SMT DEF PutRegistryTemp, Directories
<1>2. t \in [Ops -> Files] /\ t[o] = v
  BY DirectoryFields
<1> HIDE DEF t
<1>3. /\ e \in Directories
      /\ e.registry = d.registry /\ e.checksum = d.checksum /\ e.intent = d.intent
      /\ e.registryTemp = t /\ e.checksumTemp = d.checksumTemp
  BY <1>2, SMT DEF Directories
<1> QED
  BY <1>1, <1>2, <1>3

\* The staged checksum of one operation is written or removed.
LEMMA ChecksumTempSet ==
    ASSUME NEW d \in Directories, NEW o \in Ops, NEW v \in Files
    PROVE  LET e == PutChecksumTemp(d, o, v) IN
           /\ e \in Directories
           /\ e.registry = d.registry /\ e.checksum = d.checksum /\ e.intent = d.intent
           /\ e.checksumTemp[o] = v /\ e.registryTemp = d.registryTemp
<1> DEFINE t == [d.checksumTemp EXCEPT ![o] = v]
           e == [d EXCEPT !.checksumTemp = t]
<1>1. PutChecksumTemp(d, o, v) = e
  BY SMT DEF PutChecksumTemp, Directories
<1>2. t \in [Ops -> Files] /\ t[o] = v
  BY DirectoryFields
<1> HIDE DEF t
<1>3. /\ e \in Directories
      /\ e.registry = d.registry /\ e.checksum = d.checksum /\ e.intent = d.intent
      /\ e.checksumTemp = t /\ e.registryTemp = d.registryTemp
  BY <1>2, SMT DEF Directories
<1> QED
  BY <1>1, <1>2, <1>3

\* A file may be missing.
LEMMA AbsentFile == Absent \in Files
BY DEF Files

\* The registry is replaced.
LEMMA RegistrySet ==
    ASSUME NEW d \in Directories, NEW v \in Files
    PROVE  LET e == [d EXCEPT !.registry = v] IN
           /\ e \in Directories
           /\ e.registry = v /\ e.checksum = d.checksum /\ e.intent = d.intent
           /\ e.registryTemp = d.registryTemp /\ e.checksumTemp = d.checksumTemp
BY SMT DEF Directories

\* The checksum is replaced.
LEMMA ChecksumSet ==
    ASSUME NEW d \in Directories, NEW v \in Files
    PROVE  LET e == [d EXCEPT !.checksum = v] IN
           /\ e \in Directories
           /\ e.registry = d.registry /\ e.checksum = v /\ e.intent = d.intent
           /\ e.registryTemp = d.registryTemp /\ e.checksumTemp = d.checksumTemp
BY SMT DEF Directories

-----------------------------------------------------------------------------
(* What recovery selects.                                                  *)

\* Recovery selects a pair that matches, whatever the intent says.
LEMMA EffectiveReadable ==
    ASSUME NEW d, Readable(d)
    PROVE  Effective(d) = Read(d) /\ Read(d) = Base(ValidPair(d))
BY DEF Effective, CompleteNext, Read, Base, ValidPair, Readable

\* Recovery selects a valid registry.
LEMMA EffectiveSound ==
    ASSUME NEW d \in Directories, Shape(d)
    PROVE  Sound(Effective(d))
<1>1. CASE d.intent = Absent
  BY <1>1, EffectiveReadable DEF Shape
<1>2. CASE d.intent # Absent /\ AcceptNext(d)
  <2>1. Effective(d) = d.intent.next
    BY <1>2, EffectiveReadable DEF AcceptNext, Read
  <2> QED
    BY <1>2, <2>1 DEF Shape
<1>3. CASE d.intent # Absent /\ Readable(d) /\ ValidPair(d) = d.intent.previous
  <2>1. Effective(d) = Base(d.intent.previous)
    BY <1>3, EffectiveReadable
  <2> QED
    BY <1>3, <2>1 DEF Shape
<1>4. CASE d.intent # Absent /\ CompleteNext(d)
  BY <1>4 DEF Effective, Shape
<1> QED
  BY <1>1, <1>2, <1>3, <1>4 DEF Shape

-----------------------------------------------------------------------------
(* Steps of the process that holds the locks, and of the others.           *)

\* While p holds the exclusive locks nothing is demanded of the others.
LEMMA OthersOutside ==
    ASSUME TypeOK, Exclusion, NEW p \in Procs, Locked(p), NEW q \in Procs, q # p,
           Serving(q), pc'[q] = pc[q], next'[q] = next[q], durable' = durable
    PROVE  Serving(q)' /\ Holding(q)' /\ Recovering(q)' /\ Reading(q)'
<1>1. ~Locked(q) /\ readers = {} /\ (durable => pc[q] = "idle")
  BY DEF Exclusion, Locked, Idle
<1>2. pc[q] \in Idle /\ pc[q] # "reading"
  BY <1>1 DEF Exclusion, Locked
<1>3. pc[q] \notin {"decide", "checksum", "completed", "acceptNext", "rollBack"} \cup Before \cup After \cup NoIntent
  BY <1>2 DEF Idle, Before, After, NoIntent
<1>4. Serving(q)'
  BY <1>3 DEF Serving, Committing
<1>5. Holding(q)'
  BY <1>3 DEF Holding, Before, After, NoIntent
<1>6. Recovering(q)'
  BY <1>3 DEF Recovering
<1>7. Reading(q)'
  BY <1>1, <1>2 DEF Reading
<1> QED
  BY <1>4, <1>5, <1>6, <1>7

\* A process whose directory, place and request did not change.
LEMMA KeptLocal ==
    ASSUME NEW q \in Procs, dir' = dir, durable' = durable, pc'[q] = pc[q],
           request'[q] = request[q], next'[q] = next[q], pruned \subseteq pruned',
           exposed' \subseteq exposed, dir \in exposed',
           Serving(q), Holding(q), Recovering(q), Reading(q)
    PROVE  Serving(q)' /\ Holding(q)' /\ Recovering(q)' /\ Reading(q)'
<1>1. Serving(q)'
  BY DEF Serving, Follows
<1>2. Holding(q)'
  BY DEF Holding
<1>3. Recovering(q)' /\ Reading(q)'
  BY DEF Recovering, Reading
<1> QED
  BY <1>1, <1>2, <1>3

\* The holder of the locks moves to a place where it still holds them, or to the gap
\* of a reader.
LEMMA ExclusionKept ==
    ASSUME TypeOK, Exclusion, NEW p \in Procs, Locked(p), NEW m,
           m \notin {"idle", "reading", "readingAgain"}, pc' = [pc EXCEPT ![p] = m],
           readers' = readers, durable' = durable
    PROVE  Exclusion'
<1>1. pc'[p] = m /\ \A q \in Procs : q # p => pc'[q] = pc[q]
  BY DEF TypeOK
<1>2. readers = {} /\ pc[p] # "idle"
  BY DEF Exclusion, Locked, Idle
<1>3. \A q \in Procs : Locked(q)' => Locked(q)
  BY <1>1 DEF Locked
<1>4. \A q \in Procs : pc'[q] # "idle" => pc[q] # "idle"
  BY <1>1, <1>2
<1>5. \A q \in Procs : q \in readers' <=> pc'[q] \in {"reading", "readingAgain"}
  BY <1>1, <1>2 DEF Exclusion
<1> QED
  BY <1>2, <1>3, <1>4, <1>5 DEF Exclusion

\* The holder of the locks changes the directory to e.
LEMMA ChangeStep ==
    ASSUME IInv, NEW p \in Procs, Locked(p), NEW m \in Places \ Idle, pc' = [pc EXCEPT ![p] = m],
           NEW e \in Directories, Change(e), UNCHANGED <<request, next, readers, crashes, history>>,
           Shape(e),
           Recoverable(e) \/ m = "rollBack",
           pc[p] = "rollBack" => m = "rollBack",
           \A receipt \in receipts : Survives(receipt, dir) => Survives(receipt, e),
           \/ m = "acceptNext" /\ e.intent = Absent
           \/ e.intent # Absent /\ Effective(e) = e.intent.next
           \/ /\ pc[p] # "acceptNext" /\ Effective(e) = Effective(dir)
              /\ Settled \/ exposed = {dir},
           Serving(p)', Holding(p)', Recovering(p)', Reading(p)'
    PROVE  IInv'
<1>1. /\ TypeOK /\ Exclusion /\ Shapes /\ RecoverableUnlessRollbackInterrupted
      /\ Agreed /\ Acknowledged /\ Locals
  BY DEF IInv
<1>2. /\ dir' = e /\ exposed' = exposed \cup {e} /\ durable' = durable /\ request' = request
      /\ next' = next /\ readers' = readers /\ crashes' = crashes /\ receipts' = receipts
      /\ pruned' = pruned /\ cutShort' = cutShort
  BY DEF Change, history
<1>3. pc'[p] = m /\ (\A q \in Procs : q # p => pc'[q] = pc[q]) /\ pc' \in [Procs -> Places]
  BY <1>1 DEF TypeOK
<1>4. TypeOK'
  BY <1>1, <1>2, <1>3 DEF TypeOK
<1>5. Exclusion'
  BY <1>1, <1>2, ExclusionKept DEF Idle
<1>6. Shapes'
  BY <1>1, <1>2 DEF Shapes
<1>7. RecoverableUnlessRollbackInterrupted'
  <2>1. CASE "rollBack" \in cutShort
    BY <1>2, <2>1 DEF RecoverableUnlessRollbackInterrupted
  <2>2. CASE \E q \in Procs : pc[q] = "rollBack"
    <3>1. \E q \in Procs : pc'[q] = "rollBack"
      BY <1>3, <2>2
    <3> QED
      BY <3>1 DEF RecoverableUnlessRollbackInterrupted
  <2>3. CASE m = "rollBack"
    BY <1>3, <2>3 DEF RecoverableUnlessRollbackInterrupted
  <2>4. CASE Recoverable(e) /\ \A d \in exposed : Recoverable(d)
    BY <1>2, <2>4 DEF RecoverableUnlessRollbackInterrupted
  <2> QED
    BY <1>1, <2>1, <2>2, <2>3, <2>4 DEF RecoverableUnlessRollbackInterrupted
<1>8. Agreed'
  <2>1. CASE m = "acceptNext" /\ e.intent = Absent
    BY <1>2, <1>3, <2>1 DEF Agreed
  <2>2. CASE e.intent # Absent /\ Effective(e) = e.intent.next
    <3>1. ~Settled'
      BY <1>2, <2>2 DEF Settled
    <3> QED
      BY <3>1 DEF Agreed
  <2>3. CASE /\ pc[p] # "acceptNext" /\ Effective(e) = Effective(dir)
             /\ Settled \/ exposed = {dir}
    <3>1. ~ \E q \in Procs : pc[q] = "acceptNext"
      BY <1>1, <2>3 DEF Exclusion, Locked, Idle
    <3>2. "acceptNext" \in cutShort \/ \A d \in exposed : Effective(d) = Effective(dir)
      BY <1>1, <2>3, <3>1 DEF Agreed
    <3>3. "acceptNext" \in cutShort' \/ \A d \in exposed' : Effective(d) = Effective(dir')
      BY <1>2, <2>3, <3>2
    <3> QED
      BY <3>3 DEF Agreed
  <2> QED
    BY <2>1, <2>2, <2>3
<1>9. Acknowledged'
  <2>1. ASSUME "acceptNext" \notin cutShort, NEW receipt \in receipts', NEW d \in exposed'
        PROVE  Survives(receipt, d)'
    <3>1. \A x \in exposed : Survives(receipt, x)
      BY <1>1, <1>2, <2>1 DEF Acknowledged
    <3>2. Survives(receipt, e)
      BY <1>1, <1>2, <3>1 DEF TypeOK
    <3>3. Survives(receipt, d)
      BY <1>2, <3>1, <3>2
    <3> QED
      BY <1>2, <3>3 DEF Survives
  <2> QED
    BY <1>2, <2>1 DEF Acknowledged
<1>10. Locals'
  <2>1. ASSUME NEW q \in Procs, q # p
        PROVE  Serving(q)' /\ Holding(q)' /\ Recovering(q)' /\ Reading(q)'
    BY <1>1, <1>2, <1>3, <2>1, OthersOutside DEF Locals
  <2> QED
    BY <2>1 DEF Locals
<1> QED
  BY <1>4, <1>5, <1>6, <1>7, <1>8, <1>9, <1>10 DEF IInv

\* The holder of the locks moves on and leaves the directory as it is, flushed or not.
LEMMA StayStep ==
    ASSUME IInv, NEW p \in Procs, Locked(p), NEW m \in Places, m \notin {"idle", "reading", "readingAgain"},
           pc' = [pc EXCEPT ![p] = m],
           dir' = dir, exposed' \subseteq exposed, dir \in exposed', durable' = durable,
           UNCHANGED <<request, readers, crashes, receipts, cutShort>>,
           next' \in [Procs -> Files], \A q \in Procs : q # p => next'[q] = next[q],
           pruned \subseteq pruned', pruned' \subseteq Ops,
           pc[p] = "rollBack" => \A d \in exposed' : Recoverable(d),
           pc[p] = "acceptNext" => exposed' = {dir},
           Serving(p)', Holding(p)', Recovering(p)', Reading(p)'
    PROVE  IInv'
<1>1. /\ TypeOK /\ Exclusion /\ Shapes /\ RecoverableUnlessRollbackInterrupted
      /\ Agreed /\ Acknowledged /\ Locals
  BY DEF IInv
<1>2. request' = request /\ readers' = readers /\ crashes' = crashes /\ receipts' = receipts /\ cutShort' = cutShort
  OBVIOUS
<1>3. pc'[p] = m /\ (\A q \in Procs : q # p => pc'[q] = pc[q]) /\ pc' \in [Procs -> Places]
  BY <1>1 DEF TypeOK
<1>4. TypeOK'
  BY <1>1, <1>2, <1>3 DEF TypeOK
<1>5. Exclusion'
  BY <1>1, <1>2, ExclusionKept
<1>6. Shapes'
  BY <1>1, <1>2 DEF Shapes
<1>7. RecoverableUnlessRollbackInterrupted'
  <2>1. CASE "rollBack" \in cutShort
    BY <1>2, <2>1 DEF RecoverableUnlessRollbackInterrupted
  <2>2. CASE \E q \in Procs : pc[q] = "rollBack"
    <3>1. pc[p] = "rollBack"
      BY <1>1, <2>2 DEF Exclusion, Locked, Idle
    <3> QED
      BY <3>1 DEF RecoverableUnlessRollbackInterrupted
  <2>3. CASE \A d \in exposed : Recoverable(d)
    BY <2>3 DEF RecoverableUnlessRollbackInterrupted
  <2> QED
    BY <1>1, <2>1, <2>2, <2>3 DEF RecoverableUnlessRollbackInterrupted
<1>8. Agreed'
  <2>1. CASE "acceptNext" \in cutShort
    BY <1>2, <2>1 DEF Agreed
  <2>2. CASE \E q \in Procs : pc[q] = "acceptNext"
    <3>1. pc[p] = "acceptNext"
      BY <1>1, <2>2 DEF Exclusion, Locked, Idle
    <3>2. \A d \in exposed' : Effective(d) = Effective(dir')
      BY <3>1
    <3> QED
      BY <3>2 DEF Agreed
  <2>3. CASE Settled => \A d \in exposed : Effective(d) = Effective(dir)
    BY <2>3 DEF Agreed, Settled
  <2> QED
    BY <1>1, <2>1, <2>2, <2>3 DEF Agreed
<1>9. Acknowledged'
  BY <1>1, <1>2 DEF Acknowledged, Survives
<1>10. Locals'
  <2>1. ASSUME NEW q \in Procs, q # p
        PROVE  Serving(q)' /\ Holding(q)' /\ Recovering(q)' /\ Reading(q)'
    BY <1>1, <1>2, <1>3, <2>1, OthersOutside DEF Locals
  <2> QED
    BY <2>1 DEF Locals
<1> QED
  BY <1>4, <1>5, <1>6, <1>7, <1>8, <1>9, <1>10 DEF IInv

\* A call ends, with an answer, an error or a crash.
LEMMA LeaveStep ==
    ASSUME IInv, NEW p \in Procs, Leave(p), Keep,
           crashes' \in 0..MaxCrashes, receipts' \subseteq (Ops \X (1..MaxRevision)), pruned' = pruned,
           cutShort \subseteq cutShort', cutShort' \subseteq Cleaning,
           pc[p] \in Cleaning => pc[p] \in cutShort',
           Acknowledged'
    PROVE  IInv'
<1>1. /\ TypeOK /\ Exclusion /\ Shapes /\ RecoverableUnlessRollbackInterrupted
      /\ Agreed /\ Acknowledged /\ Locals
  BY DEF IInv
<1>2. dir' = dir /\ exposed' = exposed /\ durable' = durable /\ readers' = readers \ {p}
  BY DEF Keep, Leave
<1>3. /\ pc'[p] = "idle" /\ (\A q \in Procs : q # p => pc'[q] = pc[q]) /\ pc' \in [Procs -> Places]
      /\ next'[p] = Absent /\ (\A q \in Procs : q # p => next'[q] = next[q]) /\ next' \in [Procs -> Files]
      /\ (\A q \in Procs : q # p => request'[q] = request[q]) /\ request' \in [Procs -> Requests \cup {Absent}]
  <2>1. "idle" \in Places /\ Absent \in Files
    BY DEF Places, Idle, Files
  <2> QED
    BY <1>1, <2>1 DEF TypeOK, Leave, Move
<1>4. TypeOK'
  BY <1>1, <1>2, <1>3 DEF TypeOK
<1>5. Exclusion'
  <2>1. \A q \in Procs : Locked(q)' => Locked(q) /\ q # p
    BY <1>3 DEF Locked, Idle
  <2>2. \A q \in Procs : pc'[q] # "idle" => pc[q] # "idle"
    BY <1>3
  <2>3. \A q \in Procs : q \in readers' <=> pc'[q] \in {"reading", "readingAgain"}
    BY <1>1, <1>2, <1>3 DEF Exclusion
  <2>4. \A q \in Procs : Locked(q)' => readers' = {}
    BY <1>1, <1>2, <2>1 DEF Exclusion
  <2> QED
    BY <1>1, <1>2, <2>1, <2>2, <2>3, <2>4 DEF Exclusion
<1>6. Shapes'
  BY <1>1, <1>2 DEF Shapes
<1>7. RecoverableUnlessRollbackInterrupted'
  BY <1>1, <1>2, <1>3 DEF RecoverableUnlessRollbackInterrupted, Cleaning
<1>8. Agreed'
  BY <1>1, <1>2, <1>3 DEF Agreed, Settled, Cleaning
<1>9. Locals'
  <2>1. ASSUME NEW q \in Procs, q # p
        PROVE  Serving(q)' /\ Holding(q)' /\ Recovering(q)' /\ Reading(q)'
    <3>1. dir \in exposed' /\ exposed' \subseteq exposed /\ pruned \subseteq pruned'
      BY <1>1, <1>2 DEF TypeOK
    <3> QED
      BY <1>1, <1>2, <1>3, <2>1, <3>1, KeptLocal DEF Locals
  <2>2. Serving(p)' /\ Holding(p)' /\ Recovering(p)' /\ Reading(p)'
    BY <1>3 DEF Serving, Holding, Recovering, Reading, Committing, Before, After, NoIntent
  <2> QED
    BY <2>1, <2>2 DEF Locals
<1> QED
  BY <1>4, <1>5, <1>6, <1>7, <1>8, <1>9 DEF IInv

\* A call begins, or a reader goes on: nobody holds the exclusive locks.
LEMMA EnterStep ==
    ASSUME IInv, NEW p \in Procs, Keep, \A q \in Procs : ~Locked(q),
           NEW m \in {"recover", "reading", "readingAgain"}, pc' = [pc EXCEPT ![p] = m],
           NEW r \in Requests \cup {Absent}, request' = [request EXCEPT ![p] = r] \/ request' = request,
           m = "recover" => readers = {} /\ readers' = readers,
           m # "recover" => readers' = readers \cup {p},
           pc[p] = "idle" /\ durable => \A q \in Procs : pc[q] = "idle",
           m # "recover" => Reading(p)',
           UNCHANGED <<next, crashes, history>>
    PROVE  IInv'
<1>1. /\ TypeOK /\ Exclusion /\ Shapes /\ RecoverableUnlessRollbackInterrupted
      /\ Agreed /\ Acknowledged /\ Locals
  BY DEF IInv
<1>2. /\ dir' = dir /\ exposed' = exposed /\ durable' = durable /\ next' = next /\ crashes' = crashes
      /\ receipts' = receipts /\ pruned' = pruned /\ cutShort' = cutShort
  BY DEF Keep, history
<1>3. /\ pc'[p] = m /\ (\A q \in Procs : q # p => pc'[q] = pc[q]) /\ pc' \in [Procs -> Places]
      /\ (\A q \in Procs : q # p => request'[q] = request[q]) /\ request' \in [Procs -> Requests \cup {Absent}]
  <2>1. m \in Places
    BY DEF Places, Idle
  <2> QED
    BY <1>1, <2>1 DEF TypeOK
<1>4. TypeOK'
  BY <1>1, <1>2, <1>3 DEF TypeOK
<1>5. Exclusion'
  <2>1. \A q \in Procs : Locked(q)' => q = p /\ m = "recover"
    BY <1>3 DEF Locked, Idle
  <2>2. \A q \in Procs : q \in readers' <=> pc'[q] \in {"reading", "readingAgain"}
    <3>1. CASE m = "recover"
      BY <1>1, <1>3, <3>1 DEF Exclusion
    <3>2. CASE m # "recover"
      BY <1>1, <1>3, <3>2 DEF Exclusion
    <3> QED
      BY <3>1, <3>2
  <2>3. \A q \in Procs : Locked(q)' => readers' = {}
    BY <2>1
  <2>4. durable => \A q \in Procs : pc'[q] # "idle" => q = p
    <3>1. CASE pc[p] = "idle"
      BY <1>3, <3>1
    <3>2. CASE pc[p] # "idle"
      BY <1>1, <1>3, <3>2 DEF Exclusion
    <3> QED
      BY <3>1, <3>2
  <2> QED
    BY <1>2, <2>1, <2>2, <2>3, <2>4 DEF Exclusion
<1>6. Shapes'
  BY <1>1, <1>2 DEF Shapes
<1>7. \A q \in Procs : pc[q] \in Idle
  BY DEF Locked
<1>8. RecoverableUnlessRollbackInterrupted'
  BY <1>1, <1>2, <1>7 DEF RecoverableUnlessRollbackInterrupted, Idle
<1>9. Agreed'
  BY <1>1, <1>2, <1>7 DEF Agreed, Settled, Idle
<1>10. Acknowledged'
  BY <1>1, <1>2 DEF Acknowledged, Survives
<1>11. Locals'
  <2>1. ASSUME NEW q \in Procs, q # p
        PROVE  Serving(q)' /\ Holding(q)' /\ Recovering(q)' /\ Reading(q)'
    <3>1. dir \in exposed' /\ exposed' \subseteq exposed /\ pruned \subseteq pruned'
      BY <1>1, <1>2 DEF TypeOK
    <3> QED
      BY <1>1, <1>2, <1>3, <2>1, <3>1, KeptLocal DEF Locals
  <2>2. Serving(p)'
    <3>1. next'[p] # Absent => Sound(next'[p])
      BY <1>1, <1>2 DEF Locals, Serving
    <3> QED
      BY <1>3, <3>1 DEF Serving, Committing, Before, After
  <2>3. Holding(p)' /\ Recovering(p)'
    BY <1>3 DEF Holding, Recovering, Before, After, NoIntent
  <2>4. Reading(p)'
    BY <1>3 DEF Reading
  <2> QED
    BY <2>1, <2>2, <2>3, <2>4 DEF Locals
<1> QED
  BY <1>4, <1>5, <1>6, <1>8, <1>9, <1>10, <1>11 DEF IInv

-----------------------------------------------------------------------------
(* Recovery.                                                               *)

\* Two directories with the same pair are read alike.
LEMMA SameRead ==
    ASSUME NEW d, NEW e, e.registry = d.registry, e.checksum = d.checksum
    PROVE  /\ Readable(e) <=> Readable(d)
           /\ Read(e) = Read(d) /\ ValidPair(e) = ValidPair(d)
           /\ PairAbsent(e) <=> PairAbsent(d)
BY DEF Readable, Read, ValidPair, PairAbsent

\* A completed pair is the one recovery selects.
LEMMA AcceptedEffective ==
    ASSUME NEW d, AcceptNext(d)
    PROVE  Effective(d) = d.intent.next /\ Readable(d)
<1>1. Readable(d) /\ Read(d) = d.intent.next
  BY DEF AcceptNext, Read
<1> QED
  BY <1>1, EffectiveReadable

\* What the invariant says of the holder of the locks.
LEMMA HolderFacts ==
    ASSUME IInv, NEW p \in Procs
    PROVE  /\ dir \in Directories /\ dir \in exposed /\ Shape(dir)
           /\ Serving(p) /\ Holding(p) /\ Recovering(p) /\ Reading(p)
           /\ pc \in [Procs -> Places] /\ pc[p] \in Places
           /\ request[p] \in Requests \cup {Absent} /\ next[p] \in Files
           /\ next \in [Procs -> Files] /\ request \in [Procs -> Requests \cup {Absent}]
BY DEF IInv, TypeOK, Shapes, Locals

\* cleanup_intent() keeps the pair.
LEMMA CleanStep ==
    ASSUME IInv, NEW p \in Procs, pc[p] \in Cleaning, dir.intent # Absent,
           NEW e \in Directories, Change(e), e.registry = dir.registry, e.checksum = dir.checksum,
           e.intent = dir.intent \/ e.intent = Absent,
           UNCHANGED <<pc, request, next, readers, crashes, history>>
    PROVE  IInv' /\ Effective(dir') = Effective(dir)
<1>1. dir \in Directories /\ Shape(dir) /\ Serving(p) /\ Recovering(p) /\ pc \in [Procs -> Places]
  BY HolderFacts
<1>2. Locked(p) /\ pc' = [pc EXCEPT ![p] = pc[p]] /\ pc'[p] = pc[p] /\ pc[p] \in Places \ Idle
  BY <1>1 DEF Locked, Cleaning, Idle
<1>3. dir' = e /\ request' = request /\ next' = next
  BY DEF Change
<1>4. /\ Readable(e) <=> Readable(dir)
      /\ Read(e) = Read(dir) /\ ValidPair(e) = ValidPair(dir)
      /\ PairAbsent(e) <=> PairAbsent(dir)
  BY SameRead
<1>5. /\ Sound(dir.intent.next) /\ Sound(Base(dir.intent.previous))
      /\ dir.intent.next # Base(dir.intent.previous)
  BY <1>1 DEF Shape
<1>6. Serving(p)'
  <2>1. next'[p] # Absent => Sound(next'[p])
    BY <1>1, <1>3 DEF Serving
  <2> QED
    BY <1>2, <2>1 DEF Serving, Committing, Before, After, Cleaning
<1>7. Holding(p)' /\ Reading(p)'
  BY <1>2 DEF Holding, Reading, Before, After, NoIntent, Cleaning
<1>8. Readable(dir)
  BY <1>1 DEF Recovering, Cleaning, AcceptNext
<1>9. Effective(e) = Read(e) /\ Effective(dir) = Read(dir) /\ Read(dir) = Base(ValidPair(dir))
  BY <1>4, <1>8, EffectiveReadable
<1>10. \A receipt \in receipts : Survives(receipt, dir) => Survives(receipt, e)
  BY <1>4, <1>9 DEF Survives
<1>11. CASE pc[p] = "acceptNext"
  <2>1. AcceptNext(dir)
    BY <1>1, <1>11 DEF Recovering
  <2>2. Effective(dir) = dir.intent.next /\ Effective(e) = dir.intent.next
    BY <1>4, <1>9, <2>1, AcceptedEffective
  <2>3. e.intent = Absent \/ AcceptNext(e)
    BY <1>4, <2>1 DEF AcceptNext
  <2>4. Sound(Read(e))
    BY <1>5, <1>9, <2>2
  <2>5. Shape(e) /\ Recoverable(e)
    BY <1>4, <1>5, <1>8, <2>3, <2>4 DEF Shape, Recoverable
  <2>6. Recovering(p)'
    BY <1>2, <1>3, <1>11, <2>3 DEF Recovering
  <2>7. IInv'
    BY <1>2, <1>6, <1>7, <1>10, <1>11, <2>2, <2>5, <2>6, ChangeStep
  <2> QED
    BY <1>3, <1>4, <1>9, <2>7
<1>12. CASE pc[p] = "rollBack"
  <2>1. ValidPair(dir) = dir.intent.previous
    BY <1>1, <1>12 DEF Recovering
  <2>2. Effective(e) = Effective(dir) /\ Effective(dir) = Base(dir.intent.previous)
    BY <1>4, <1>9, <2>1
  <2>3. Shape(e)
    BY <1>4, <1>5, <1>8, <1>9, <2>1, <2>2 DEF Shape
  <2>4. Settled
    BY <1>5, <2>2 DEF Settled
  <2>5. Recovering(p)'
    BY <1>2, <1>3, <1>4, <1>8, <1>12, <2>1 DEF Recovering
  <2>6. IInv'
    BY <1>2, <1>6, <1>7, <1>10, <1>12, <2>2, <2>3, <2>4, <2>5, ChangeStep
  <2> QED
    BY <1>3, <1>4, <1>9, <2>6
<1> QED
  BY <1>11, <1>12 DEF Cleaning

\* cleanup_intent() unlinks the staged files, then the intent.
LEMMA UnlinkSteps ==
    ASSUME IInv, NEW p \in Procs,
           UnlinkRegistryTemp(p) \/ UnlinkChecksumTemp(p) \/ UnlinkIntent(p)
    PROVE  IInv' /\ Effective(dir') = Effective(dir)
<1>1. dir \in Directories /\ Absent \in Files
  BY HolderFacts DEF Files
<1>2. pc[p] \in Cleaning /\ dir.intent # Absent
      /\ UNCHANGED <<pc, request, next, readers, crashes, history>>
  BY DEF UnlinkRegistryTemp, UnlinkChecksumTemp, UnlinkIntent
<1>3. dir.intent.op \in Ops
  BY <1>1, <1>2, DirectoryFields, IntentFields
<1>4. CASE UnlinkRegistryTemp(p)
  <2> DEFINE e == PutRegistryTemp(dir, dir.intent.op, Absent)
  <2>1. Change(e)
    BY <1>4 DEF UnlinkRegistryTemp, PutRegistryTemp
  <2>2. e \in Directories /\ e.registry = dir.registry /\ e.checksum = dir.checksum /\ e.intent = dir.intent
    BY <1>1, <1>3, RegistryTempSet
  <2> HIDE DEF e
  <2> QED
    BY <1>2, <2>1, <2>2, CleanStep
<1>5. CASE UnlinkChecksumTemp(p)
  <2> DEFINE e == PutChecksumTemp(dir, dir.intent.op, Absent)
  <2>1. Change(e)
    BY <1>5 DEF UnlinkChecksumTemp, PutChecksumTemp
  <2>2. e \in Directories /\ e.registry = dir.registry /\ e.checksum = dir.checksum /\ e.intent = dir.intent
    BY <1>1, <1>3, ChecksumTempSet
  <2> HIDE DEF e
  <2> QED
    BY <1>2, <2>1, <2>2, CleanStep
<1>6. CASE UnlinkIntent(p)
  <2> DEFINE e == [dir EXCEPT !.intent = Absent]
  <2>1. Change(e)
    BY <1>6 DEF UnlinkIntent
  <2>2. e \in Directories /\ e.registry = dir.registry /\ e.checksum = dir.checksum /\ e.intent = Absent
    BY <1>1, IntentSet
  <2> HIDE DEF e
  <2> QED
    BY <1>2, <2>1, <2>2, CleanStep
<1> QED
  BY <1>4, <1>5, <1>6

\* recover_pair() installs the checksum that is missing.
LEMMA RecoverCompleteStep ==
    ASSUME IInv, NEW p \in Procs, RecoverComplete(p)
    PROVE  IInv' /\ Effective(dir') = Effective(dir)
<1> DEFINE i == dir.intent
           e == [dir EXCEPT !.checksum = dir.intent.next, !.checksumTemp[dir.intent.op] = Absent]
<1>1. /\ dir \in Directories /\ Shape(dir) /\ Serving(p) /\ pc \in [Procs -> Places]
  BY HolderFacts
<1>2. /\ pc[p] = "recover" /\ i # Absent /\ CompleteNext(dir) /\ Change(e)
      /\ pc' = [pc EXCEPT ![p] = "completed"]
      /\ UNCHANGED <<request, next, readers, crashes, history>>
  BY DEF RecoverComplete, Move
<1>3. dir.intent.op \in Ops /\ dir.intent.next \in Registries /\ i.next \in Files /\ i.next # Absent
  BY <1>1, <1>2, DirectoryFields, IntentFields, NotAbsent DEF Files
<1>4. e \in Directories /\ e.registry = dir.registry /\ e.checksum = i.next /\ e.intent = i
  <2> DEFINE c == [dir EXCEPT !.checksum = i.next]
             f == PutChecksumTemp(c, i.op, Absent)
  <2>1. e = f
    BY DEF PutChecksumTemp
  <2>2. c \in Directories /\ c.registry = dir.registry /\ c.checksum = i.next /\ c.intent = i
    BY <1>1, <1>3, ChecksumSet
  <2> HIDE DEF c, e
  <2>3. f \in Directories /\ f.registry = c.registry /\ f.checksum = c.checksum /\ f.intent = c.intent
    BY <1>3, <2>2, AbsentFile, ChecksumTempSet
  <2> QED
    BY <2>1, <2>2, <2>3
<1> HIDE DEF e
<1>5. Locked(p) /\ "completed" \in Places \ Idle /\ pc'[p] = "completed"
  BY <1>1, <1>2 DEF Locked, Idle, Places
<1>6. AcceptNext(e)
  BY <1>2, <1>3, <1>4 DEF AcceptNext, CompleteNext, Readable, PairAbsent
<1>7. Effective(e) = i.next /\ Effective(dir) = i.next
  BY <1>2, <1>4, <1>6, AcceptedEffective DEF Effective
<1>8. Shape(e) /\ Recoverable(e)
  BY <1>1, <1>2, <1>4, <1>6 DEF Shape, Recoverable
<1>9. \A receipt \in receipts : Survives(receipt, dir) => Survives(receipt, e)
  BY <1>7 DEF Survives
<1>10. dir' = e /\ next' = next
  BY <1>2 DEF Change
<1>11. Serving(p)'
  <2>1. next'[p] # Absent => Sound(next'[p])
    BY <1>1, <1>10 DEF Serving
  <2> QED
    BY <1>5, <2>1 DEF Serving, Committing, Before, After
<1>12. Holding(p)' /\ Reading(p)'
  BY <1>5 DEF Holding, Reading, Before, After, NoIntent
<1>13. Recovering(p)'
  BY <1>2, <1>4, <1>5, <1>6, <1>10 DEF Recovering
<1>14. IInv'
  BY <1>2, <1>4, <1>5, <1>7, <1>8, <1>9, <1>11, <1>12, <1>13, ChangeStep
<1> QED
  BY <1>7, <1>10, <1>14

-----------------------------------------------------------------------------
(* The commit.                                                             *)

\* What a commit knows of the registry it read.
LEMMA CommitFacts ==
    ASSUME IInv, NEW p \in Procs, pc[p] \in Before
    PROVE  /\ request[p] \in Requests /\ request[p].op \in Ops
           /\ Readable(dir) /\ Sound(Read(dir)) /\ Effective(dir) = Read(dir)
           /\ Read(dir) = Base(ValidPair(dir))
           /\ ~Refused(Read(dir), request[p]) /\ next[p] = Apply(Read(dir), request[p])
           /\ Drained(Read(dir), next[p]) \subseteq pruned
           /\ Sound(next[p]) /\ next[p] \in Registries /\ next[p] # Absent /\ next[p] # Read(dir)
<1>1. dir \in Directories /\ Shape(dir) /\ Serving(p) /\ Holding(p)
  BY HolderFacts
<1>2. request[p] \in Requests /\ next[p] # Absent /\ Sound(next[p]) /\ Follows(Read(dir), request[p], next[p])
  BY <1>1 DEF Serving, Committing
<1>3. Readable(dir)
  <2>1. CASE pc[p] \in NoIntent
    BY <1>1, <2>1 DEF Holding, Shape
  <2>2. CASE pc[p] \in {"flushIntent", "registry"}
    BY <1>1, <2>2 DEF Holding, RetainPrevious
  <2> QED
    BY <2>1, <2>2 DEF Before, NoIntent
<1>4. Effective(dir) = Read(dir) /\ Read(dir) = Base(ValidPair(dir))
  BY <1>3, EffectiveReadable
<1>5. Sound(Read(dir))
  BY <1>1, <1>4, EffectiveSound
<1>6. next[p] \in Registries /\ next[p] # Read(dir)
  BY <1>2, <1>5, ApplySound DEF Follows
<1> QED
  BY <1>2, <1>3, <1>4, <1>5, <1>6 DEF Follows, Ops

\* Staging writes private files only.
LEMMA StageStep ==
    ASSUME IInv, NEW p \in Procs, pc[p] \in {"prepare", "stageRegistry", "stageChecksum"},
           NEW m \in {"stageRegistry", "stageChecksum", "flushStaged"}, pc' = [pc EXCEPT ![p] = m],
           NEW e \in Directories, Change(e), e.registry = dir.registry, e.checksum = dir.checksum,
           e.intent = dir.intent, UNCHANGED <<request, next, readers, crashes, history>>,
           m \in {"stageChecksum", "flushStaged"} => e.registryTemp[request[p].op] = next[p],
           m = "flushStaged" => e.checksumTemp[request[p].op] = next[p]
    PROVE  IInv' /\ Effective(dir') = Effective(dir)
<1>1. dir \in Directories /\ Shape(dir) /\ Serving(p) /\ Holding(p) /\ pc \in [Procs -> Places]
  BY HolderFacts
<1>2. pc[p] \in Before /\ pc[p] \in NoIntent /\ m \in Before /\ m \in Committing /\ m \in Places \ Idle
      /\ Locked(p) /\ pc'[p] = m
  BY <1>1 DEF Before, NoIntent, Locked, Idle, Places, Committing
<1>3. dir' = e /\ request' = request /\ next' = next /\ pruned' = pruned
  BY DEF Change, history
<1>4. dir.intent = Absent /\ e.intent = Absent
  BY <1>1, <1>2 DEF Holding
<1>5. /\ Readable(e) <=> Readable(dir)
      /\ Read(e) = Read(dir)
  BY SameRead
<1>6. Readable(dir) /\ Sound(Read(dir)) /\ Effective(dir) = Read(dir)
  BY <1>2, CommitFacts
<1>7. Effective(e) = Read(e)
  BY <1>5, <1>6, EffectiveReadable
<1>8. Shape(e) /\ Recoverable(e) /\ Settled
  BY <1>4, <1>5, <1>6 DEF Shape, Recoverable, Settled
<1>9. Effective(e) = Effective(dir)
  BY <1>5, <1>6, <1>7
<1>10. \A receipt \in receipts : Survives(receipt, dir) => Survives(receipt, e)
  BY <1>9 DEF Survives
<1>11. Serving(p)'
  <2>1. /\ next'[p] # Absent => Sound(next'[p])
        /\ request'[p] \in Requests /\ next'[p] # Absent
        /\ Recorded(next'[p], request'[p].op, next'[p].revision)
    BY <1>1, <1>2, <1>3 DEF Serving, Committing
  <2>2. Follows(Read(dir), request[p], next[p])'
    <3>1. Follows(Read(dir), request[p], next[p])
      BY <1>1, <1>2 DEF Serving
    <3> QED
      BY <1>3, <1>5, <3>1 DEF Follows
  <2> QED
    BY <2>1, <2>2 DEF Serving
<1>12. Holding(p)'
  BY <1>2, <1>3, <1>4 DEF Holding, After
<1>13. Recovering(p)' /\ Reading(p)'
  BY <1>2 DEF Recovering, Reading
<1>14. pc[p] # "acceptNext" /\ pc[p] # "rollBack"
  OBVIOUS
<1>15. IInv'
  BY <1>2, <1>8, <1>9, <1>10, <1>11, <1>12, <1>13, <1>14, ChangeStep
<1> QED
  BY <1>3, <1>9, <1>15

\* commit_registry() removes leftovers and stages the two files.
LEMMA StageSteps ==
    ASSUME IInv, NEW p \in Procs, PrepareTemps(p) \/ StageRegistry(p) \/ StageChecksum(p)
    PROVE  IInv' /\ Effective(dir') = Effective(dir)
<1>1. dir \in Directories /\ Holding(p) /\ next[p] \in Files
  BY HolderFacts
<1>2. pc[p] \in {"prepare", "stageRegistry", "stageChecksum"}
      /\ UNCHANGED <<request, next, readers, crashes, history>>
  BY DEF PrepareTemps, StageRegistry, StageChecksum
<1>3. request[p].op \in Ops
  BY <1>2, CommitFacts DEF Before
<1>4. CASE PrepareTemps(p)
  <2> DEFINE c == PutRegistryTemp(dir, request[p].op, Absent)
             f == PutChecksumTemp(c, request[p].op, Absent)
  <2>1. Change(f) /\ pc' = [pc EXCEPT ![p] = "stageRegistry"]
    BY <1>4 DEF PrepareTemps, Move, PutRegistryTemp, PutChecksumTemp
  <2>2. c \in Directories /\ c.registry = dir.registry /\ c.checksum = dir.checksum /\ c.intent = dir.intent
    BY <1>1, <1>3, AbsentFile, RegistryTempSet
  <2> HIDE DEF c
  <2>3. f \in Directories /\ f.registry = c.registry /\ f.checksum = c.checksum /\ f.intent = c.intent
    BY <1>3, <2>2, AbsentFile, ChecksumTempSet
  <2> HIDE DEF f
  <2>4. f.registry = dir.registry /\ f.checksum = dir.checksum /\ f.intent = dir.intent
    BY <2>2, <2>3
  <2> QED
    BY <1>2, <2>1, <2>3, <2>4, StageStep
<1>5. CASE StageRegistry(p)
  <2> DEFINE f == PutRegistryTemp(dir, request[p].op, next[p])
  <2>1. Change(f) /\ pc' = [pc EXCEPT ![p] = "stageChecksum"]
    BY <1>5 DEF StageRegistry, Move, PutRegistryTemp
  <2>2. /\ f \in Directories /\ f.registry = dir.registry /\ f.checksum = dir.checksum /\ f.intent = dir.intent
        /\ f.registryTemp[request[p].op] = next[p]
    BY <1>1, <1>3, RegistryTempSet
  <2> HIDE DEF f
  <2> QED
    BY <1>2, <2>1, <2>2, StageStep
<1>6. CASE StageChecksum(p)
  <2> DEFINE f == PutChecksumTemp(dir, request[p].op, next[p])
  <2>1. Change(f) /\ pc' = [pc EXCEPT ![p] = "flushStaged"] /\ pc[p] = "stageChecksum"
    BY <1>6 DEF StageChecksum, Move, PutChecksumTemp
  <2>2. /\ f \in Directories /\ f.registry = dir.registry /\ f.checksum = dir.checksum /\ f.intent = dir.intent
        /\ f.checksumTemp[request[p].op] = next[p] /\ f.registryTemp = dir.registryTemp
    BY <1>1, <1>3, ChecksumTempSet
  <2>3. dir.registryTemp[request[p].op] = next[p]
    BY <1>1, <2>1 DEF Holding
  <2> HIDE DEF f
  <2> QED
    BY <1>2, <2>1, <2>2, <2>3, StageStep
<1> QED
  BY <1>4, <1>5, <1>6

\* The intent: from here recovery can tell the two registries apart.
LEMMA WriteIntentStep ==
    ASSUME IInv, NEW p \in Procs, WriteIntent(p)
    PROVE  IInv' /\ Effective(dir') = Effective(dir)
<1> DEFINE i == [op |-> request[p].op, previous |-> ValidPair(dir), next |-> next[p]]
           e == [dir EXCEPT !.intent = i]
<1>1. dir \in Directories /\ Shape(dir) /\ Serving(p) /\ Holding(p) /\ pc \in [Procs -> Places]
  BY HolderFacts
<1>2. /\ pc[p] = "intent" /\ Change(e) /\ pc' = [pc EXCEPT ![p] = "flushIntent"]
      /\ UNCHANGED <<request, next, readers, crashes, history>>
  BY DEF WriteIntent, Move
<1>3. /\ pc[p] \in Before /\ "flushIntent" \in Before /\ "flushIntent" \in Committing
      /\ "flushIntent" \in Places \ Idle /\ "flushIntent" \notin NoIntent /\ "flushIntent" \notin After
      /\ Locked(p) /\ pc'[p] = "flushIntent"
  BY <1>1, <1>2 DEF Before, Committing, NoIntent, After, Locked, Idle, Places
<1>4. /\ request[p].op \in Ops /\ Readable(dir) /\ Sound(Read(dir)) /\ Effective(dir) = Read(dir)
      /\ Read(dir) = Base(ValidPair(dir)) /\ Sound(next[p]) /\ next[p] \in Registries /\ next[p] # Read(dir)
  BY <1>3, CommitFacts
<1>5. ValidPair(dir) \in Files
  BY <1>1, AbsentFile, DirectoryFields DEF ValidPair
<1>6. i \in Intents /\ i.op = request[p].op /\ i.previous = ValidPair(dir) /\ i.next = next[p]
  BY <1>4, <1>5, SMT DEF Intents
<1>7. i # Absent
  BY <1>6, NotAbsent
<1>8. i = [op |-> request[p].op, previous |-> ValidPair(dir), next |-> next[p]]
  OBVIOUS
<1> HIDE DEF i
<1>9. /\ e \in Directories /\ e.registry = dir.registry /\ e.checksum = dir.checksum /\ e.intent = i
      /\ e.registryTemp = dir.registryTemp /\ e.checksumTemp = dir.checksumTemp
  BY <1>1, <1>6, IntentSet
<1> HIDE DEF e
<1>10. /\ Readable(e) <=> Readable(dir)
       /\ Read(e) = Read(dir) /\ ValidPair(e) = ValidPair(dir)
  BY <1>9, SameRead
<1>11. dir.intent = Absent /\ dir.registryTemp[i.op] = i.next /\ dir.checksumTemp[i.op] = i.next
  BY <1>1, <1>2, <1>6 DEF Holding, NoIntent
<1>12. RetainPrevious(e)
  BY <1>4, <1>6, <1>9, <1>10, <1>11 DEF RetainPrevious, StagedPair
<1>13. Effective(e) = Effective(dir)
  BY <1>4, <1>10, EffectiveReadable
<1>14. Recoverable(e) /\ Settled
  BY <1>7, <1>9, <1>11, <1>12 DEF Recoverable, Settled
<1>15. Shape(e)
  BY <1>4, <1>6, <1>7, <1>9, <1>10 DEF Shape
<1>16. \A receipt \in receipts : Survives(receipt, dir) => Survives(receipt, e)
  BY <1>13 DEF Survives
<1>17. dir' = e /\ request' = request /\ next' = next /\ pruned' = pruned
  BY <1>2 DEF Change, history
<1>18. Serving(p)'
  <2>1. /\ next'[p] # Absent => Sound(next'[p])
        /\ request'[p] \in Requests /\ next'[p] # Absent
        /\ Recorded(next'[p], request'[p].op, next'[p].revision)
    BY <1>1, <1>3, <1>17 DEF Serving, Committing
  <2>2. Follows(Read(dir), request[p], next[p])'
    <3>1. Follows(Read(dir), request[p], next[p])
      BY <1>1, <1>3 DEF Serving
    <3> QED
      BY <1>10, <1>17, <3>1 DEF Follows
  <2> QED
    BY <2>1, <2>2 DEF Serving
<1>19. Holding(p)'
  <2>1. dir'.intent = [op |-> request'[p].op, previous |-> ValidPair(dir'), next |-> next'[p]]
    BY <1>8, <1>9, <1>10, <1>17
  <2>2. RetainPrevious(dir')
    BY <1>12, <1>17
  <2> QED
    BY <1>3, <2>1, <2>2 DEF Holding
<1>20. Recovering(p)' /\ Reading(p)'
  BY <1>3 DEF Recovering, Reading
<1>21. pc[p] # "acceptNext" /\ pc[p] # "rollBack"
  BY <1>2
<1>22. IInv'
  BY <1>2, <1>3, <1>9, <1>13, <1>14, <1>15, <1>16, <1>18, <1>19, <1>20, <1>21, ChangeStep
<1> QED
  BY <1>13, <1>17, <1>22

\* What was recorded stays recorded in the registry that replaces it.
LEMMA SurvivesCommit ==
    ASSUME IInv, NEW p \in Procs, pc[p] \in Before, NEW e, Effective(e) = next[p],
           NEW receipt \in receipts, Survives(receipt, dir)
    PROVE  Survives(receipt, e)
<1>1. /\ request[p] \in Requests /\ Sound(Read(dir)) /\ Effective(dir) = Read(dir)
      /\ ~Refused(Read(dir), request[p]) /\ next[p] = Apply(Read(dir), request[p])
      /\ Drained(Read(dir), next[p]) \subseteq pruned
  BY CommitFacts
<1>2. receipt[1] \in Ops /\ receipt[2] \in 1..MaxRevision
  BY DEF IInv, TypeOK
<1>3. /\ next[p].revision = Read(dir).revision + 1
      /\ \A o \in Ops : \A rev : Recorded(Read(dir), o, rev) =>
            Recorded(next[p], o, rev) \/ o \in Drained(Read(dir), next[p])
  BY <1>1, ApplySound
<1>4. Read(dir).revision \in Nat
  <2>1. Read(dir) \in Registries
    BY <1>1 DEF Sound
  <2> QED
    BY <2>1, RegistryAssumption, SMT DEF Registries
<1>5. Read(dir).revision >= receipt[2] /\ (Recorded(Read(dir), receipt[1], receipt[2]) \/ receipt[1] \in pruned)
  BY <1>1 DEF Survives
<1>6. next[p].revision >= receipt[2]
  BY <1>2, <1>3, <1>4, <1>5, RegistryAssumption, SMT
<1>7. Recorded(next[p], receipt[1], receipt[2]) \/ receipt[1] \in pruned
  BY <1>1, <1>2, <1>3, <1>5
<1> QED
  BY <1>6, <1>7 DEF Survives

\* The rename of the registry is the step at which the operation takes effect.
LEMMA ReplaceRegistryStep ==
    ASSUME IInv, NEW p \in Procs, ReplaceRegistry(p)
    PROVE  IInv' /\ Effective(dir') = next[p]
<1> DEFINE i == dir.intent
           o == request[p].op
           c == [dir EXCEPT !.registry = next[p]]
           e == PutRegistryTemp(c, o, Absent)
<1>1. dir \in Directories /\ Shape(dir) /\ Serving(p) /\ Holding(p) /\ pc \in [Procs -> Places]
  BY HolderFacts
<1>2. /\ pc[p] = "registry" /\ Change(e) /\ pc' = [pc EXCEPT ![p] = "checksum"]
      /\ UNCHANGED <<request, next, readers, crashes, history>>
  BY DEF ReplaceRegistry, Move, PutRegistryTemp
<1>3. /\ pc[p] \in Before /\ "checksum" \in Committing /\ "checksum" \notin Before
      /\ "checksum" \in Places \ Idle /\ "checksum" \notin NoIntent /\ "checksum" \notin After
      /\ Locked(p) /\ pc'[p] = "checksum"
  BY <1>1, <1>2 DEF Before, Committing, NoIntent, After, Locked, Idle, Places
<1>4. /\ o \in Ops /\ Readable(dir) /\ next[p] \in Registries /\ next[p] # Absent /\ next[p] # Read(dir)
      /\ next[p] \in Files
  BY <1>3, CommitFacts DEF Files
<1>5. i = [op |-> o, previous |-> ValidPair(dir), next |-> next[p]] /\ RetainPrevious(dir)
  BY <1>1, <1>2 DEF Holding
<1>6. i.op = o /\ i.next = next[p]
  BY <1>5, SMT
<1>7. i # Absent
  <2>1. i \in Intents
    <3>1. ValidPair(dir) \in Files
      BY <1>1, AbsentFile, DirectoryFields DEF ValidPair
    <3> QED
      BY <1>4, <1>5, <3>1, SMT DEF Intents
  <2> QED
    BY <2>1, NotAbsent
<1>8. /\ c \in Directories /\ c.registry = next[p] /\ c.checksum = dir.checksum /\ c.intent = dir.intent
      /\ c.checksumTemp = dir.checksumTemp
  BY <1>1, <1>4, RegistrySet
<1> HIDE DEF c
<1>9. /\ e \in Directories /\ e.registry = c.registry /\ e.checksum = c.checksum /\ e.intent = c.intent
      /\ e.checksumTemp = c.checksumTemp
  BY <1>4, <1>8, AbsentFile, RegistryTempSet
<1> HIDE DEF e
<1>10. /\ e.registry = next[p] /\ e.checksum = dir.checksum /\ e.intent = i
       /\ e.checksumTemp = dir.checksumTemp
  BY <1>8, <1>9
<1> HIDE DEF i, o
<1>11. ~Readable(e)
  BY <1>4, <1>10 DEF Readable, PairAbsent, Read
<1>12. CompleteNext(e)
  BY <1>5, <1>6, <1>10, <1>11 DEF CompleteNext, RetainPrevious, StagedPair, i, o
<1>13. Effective(e) = next[p] /\ Effective(e) = e.intent.next
  BY <1>6, <1>7, <1>10, <1>12 DEF Effective
<1>14. Shape(e) /\ Recoverable(e)
  BY <1>1, <1>7, <1>10, <1>12 DEF Shape, Recoverable, i
<1>15. \A receipt \in receipts : Survives(receipt, dir) => Survives(receipt, e)
  BY <1>3, <1>13, SurvivesCommit
<1>16. dir' = e /\ request' = request /\ next' = next
  BY <1>2 DEF Change
<1>17. Serving(p)'
  <2>1. /\ next'[p] # Absent => Sound(next'[p])
        /\ request'[p] \in Requests /\ next'[p] # Absent
        /\ Recorded(next'[p], request'[p].op, next'[p].revision)
    BY <1>1, <1>3, <1>16 DEF Serving, Committing
  <2> QED
    BY <1>3, <2>1 DEF Serving
<1>18. Holding(p)'
  BY <1>3, <1>6, <1>7, <1>10, <1>12, <1>16 DEF Holding, o
<1>19. Recovering(p)' /\ Reading(p)'
  BY <1>3 DEF Recovering, Reading
<1>20. pc[p] # "rollBack"
  BY <1>2
<1>21. IInv'
  BY <1>2, <1>3, <1>7, <1>9, <1>10, <1>13, <1>14, <1>15, <1>17, <1>18, <1>19, <1>20, ChangeStep
<1> QED
  BY <1>13, <1>16, <1>21

\* commit_registry() renames the checksum: the pair matches again.
LEMMA ReplaceChecksumStep ==
    ASSUME IInv, NEW p \in Procs, ReplaceChecksum(p)
    PROVE  IInv' /\ Effective(dir') = Effective(dir)
<1> DEFINE i == dir.intent
           o == request[p].op
           c == [dir EXCEPT !.checksum = next[p]]
           e == PutChecksumTemp(c, o, Absent)
<1>1. /\ dir \in Directories /\ Shape(dir) /\ Serving(p) /\ Holding(p) /\ pc \in [Procs -> Places]
      /\ next[p] \in Files
  BY HolderFacts
<1>2. /\ pc[p] = "checksum" /\ Change(e) /\ pc' = [pc EXCEPT ![p] = "flushPair"]
      /\ UNCHANGED <<request, next, readers, crashes, history>>
  BY DEF ReplaceChecksum, Move, PutChecksumTemp
<1>3. /\ pc[p] \in Committing /\ "flushPair" \in Committing /\ "flushPair" \notin Before
      /\ "flushPair" \in Places \ Idle /\ "flushPair" \notin NoIntent
      /\ Locked(p) /\ pc'[p] = "flushPair"
  BY <1>1, <1>2 DEF Before, Committing, NoIntent, After, Locked, Idle, Places
<1>4. o \in Ops /\ next[p] # Absent
  BY <1>1, <1>3 DEF Serving, Ops
<1>5. i # Absent /\ i.op = o /\ i.next = next[p] /\ CompleteNext(dir)
  BY <1>1, <1>2 DEF Holding
<1>6. /\ c \in Directories /\ c.registry = dir.registry /\ c.checksum = next[p] /\ c.intent = dir.intent
  BY <1>1, ChecksumSet
<1> HIDE DEF c
<1>7. /\ e \in Directories /\ e.registry = c.registry /\ e.checksum = c.checksum /\ e.intent = c.intent
  BY <1>4, <1>6, AbsentFile, ChecksumTempSet
<1> HIDE DEF e
<1>8. /\ e.registry = next[p] /\ e.checksum = next[p] /\ e.intent = i
  BY <1>5, <1>6, <1>7 DEF CompleteNext
<1> HIDE DEF i, o
<1>9. AcceptNext(e)
  BY <1>4, <1>5, <1>8 DEF AcceptNext, Readable, PairAbsent
<1>10. Effective(e) = next[p] /\ Effective(e) = e.intent.next
  BY <1>5, <1>8, <1>9, AcceptedEffective
<1>11. Effective(dir) = next[p]
  BY <1>5 DEF Effective, i
<1>12. Shape(e) /\ Recoverable(e)
  BY <1>1, <1>5, <1>8, <1>9 DEF Shape, Recoverable, i
<1>13. \A receipt \in receipts : Survives(receipt, dir) => Survives(receipt, e)
  BY <1>10, <1>11 DEF Survives
<1>14. dir' = e /\ request' = request /\ next' = next
  BY <1>2 DEF Change
<1>15. Serving(p)'
  <2>1. /\ next'[p] # Absent => Sound(next'[p])
        /\ request'[p] \in Requests /\ next'[p] # Absent
        /\ Recorded(next'[p], request'[p].op, next'[p].revision)
    BY <1>1, <1>3, <1>14 DEF Serving, Committing
  <2> QED
    BY <1>3, <2>1 DEF Serving
<1>16. Holding(p)'
  BY <1>3, <1>5, <1>8, <1>14 DEF Holding, o
<1>17. Recovering(p)' /\ Reading(p)'
  BY <1>3 DEF Recovering, Reading
<1>18. pc[p] # "rollBack"
  BY <1>2
<1>19. IInv'
  BY <1>2, <1>3, <1>5, <1>7, <1>8, <1>10, <1>12, <1>13, <1>15, <1>16, <1>17, <1>18, ChangeStep
<1> QED
  BY <1>10, <1>11, <1>14, <1>19

\* The intent is removed once the pair is flushed.
LEMMA RetireIntentStep ==
    ASSUME IInv, NEW p \in Procs, RetireIntent(p)
    PROVE  IInv' /\ Effective(dir') = Effective(dir)
<1> DEFINE e == [dir EXCEPT !.intent = Absent]
<1>1. /\ dir \in Directories /\ Shape(dir) /\ Serving(p) /\ Holding(p) /\ pc \in [Procs -> Places]
  BY HolderFacts
<1>2. /\ pc[p] = "retire" /\ Change(e) /\ pc' = [pc EXCEPT ![p] = "flushRetired"]
      /\ UNCHANGED <<request, next, readers, crashes, history>>
  BY DEF RetireIntent, Move
<1>3. /\ pc[p] \in Committing /\ pc[p] \in After
      /\ "flushRetired" \in Committing /\ "flushRetired" \notin Before
      /\ "flushRetired" \in Places \ Idle
      /\ Locked(p) /\ pc'[p] = "flushRetired"
  BY <1>1, <1>2 DEF Before, Committing, After, Locked, Idle, Places
<1>4. next[p] # Absent /\ Sound(next[p]) /\ dir.registry = next[p] /\ dir.checksum = next[p] /\ exposed = {dir}
  BY <1>1, <1>2, <1>3 DEF Serving, Holding
<1>5. e \in Directories /\ e.registry = dir.registry /\ e.checksum = dir.checksum /\ e.intent = Absent
  BY <1>1, IntentSet
<1> HIDE DEF e
<1>6. Readable(dir) /\ Readable(e) /\ Read(dir) = next[p] /\ Read(e) = next[p]
  BY <1>4, <1>5 DEF Readable, Read, PairAbsent
<1>7. Effective(e) = Effective(dir)
  BY <1>6, EffectiveReadable
<1>8. Shape(e) /\ Recoverable(e)
  BY <1>4, <1>5, <1>6 DEF Shape, Recoverable
<1>9. \A receipt \in receipts : Survives(receipt, dir) => Survives(receipt, e)
  BY <1>7 DEF Survives
<1>10. dir' = e /\ request' = request /\ next' = next
  BY <1>2 DEF Change
<1>11. Serving(p)'
  <2>1. /\ next'[p] # Absent => Sound(next'[p])
        /\ request'[p] \in Requests /\ next'[p] # Absent
        /\ Recorded(next'[p], request'[p].op, next'[p].revision)
    BY <1>1, <1>3, <1>10 DEF Serving, Committing
  <2> QED
    BY <1>3, <2>1 DEF Serving
<1>12. Holding(p)'
  BY <1>3, <1>4, <1>5, <1>10 DEF Holding
<1>13. Recovering(p)' /\ Reading(p)'
  BY <1>3 DEF Recovering, Reading
<1>14. pc[p] # "rollBack" /\ pc[p] # "acceptNext"
  BY <1>2
<1>15. IInv'
  BY <1>2, <1>3, <1>4, <1>5, <1>7, <1>8, <1>9, <1>11, <1>12, <1>13, <1>14, ChangeStep
<1> QED
  BY <1>7, <1>10, <1>15

-----------------------------------------------------------------------------
(* Steps that leave the directory as it is.                                *)

\* Recovery is over: a mutation decides, a reader takes its lock again.
LEMMA RecoveredStep ==
    ASSUME IInv, NEW p \in Procs, RecoverNothing(p) \/ FlushCleanup(p)
    PROVE  IInv'
<1>1. /\ dir \in Directories /\ dir \in exposed /\ Shape(dir) /\ Serving(p) /\ pc \in [Procs -> Places]
      /\ request[p] \in Requests \cup {Absent} /\ next \in [Procs -> Files]
  BY HolderFacts
<1> DEFINE m == AfterRecovery(p)
<1>2. /\ pc[p] \in {"recover", "acceptNext", "rollBack"} /\ dir.intent = Absent
      /\ pc' = [pc EXCEPT ![p] = m] /\ dir' = dir /\ durable' = durable
      /\ exposed' = exposed \/ exposed' = {dir}
      /\ UNCHANGED <<request, next, readers, crashes, history>>
  BY DEF RecoverNothing, FlushCleanup, Move, Keep, Flush, Cleaning
<1>3. pc[p] \in Cleaning => exposed' = {dir}
  BY DEF RecoverNothing, FlushCleanup, Flush, Cleaning
<1>4. m \in {"rereading", "decide"} /\ (m = "decide" => request[p] \in Requests)
  BY <1>1 DEF AfterRecovery
<1> HIDE DEF m
<1>5. m \in Places /\ m \notin {"idle", "reading", "readingAgain"} /\ pc'[p] = m /\ Locked(p)
  BY <1>1, <1>2, <1>4 DEF Places, Idle, Locked
<1>6. m \notin Committing /\ m \notin Before /\ m \notin After
  BY <1>4 DEF Committing, Before, After
<1>7. exposed' \subseteq exposed /\ dir \in exposed' /\ pruned' = pruned /\ pruned \subseteq Ops
  BY <1>1, <1>2 DEF history, IInv, TypeOK
<1>8. pc[p] = "rollBack" => \A d \in exposed' : Recoverable(d)
  BY <1>1, <1>2, <1>3 DEF Recoverable, Shape, Cleaning
<1>9. pc[p] = "acceptNext" => exposed' = {dir}
  BY <1>3 DEF Cleaning
<1>10. Serving(p)'
  <2>1. next'[p] # Absent => Sound(next'[p])
    BY <1>1, <1>2 DEF Serving
  <2> QED
    BY <1>2, <1>4, <1>5, <1>6, <2>1 DEF Serving
<1>11. Holding(p)'
  BY <1>2, <1>4, <1>5, <1>6 DEF Holding
<1>12. Recovering(p)' /\ Reading(p)'
  BY <1>2, <1>4, <1>5 DEF Recovering, Reading
<1>13. /\ UNCHANGED <<request, readers, crashes, receipts, cutShort>>
       /\ next' \in [Procs -> Files] /\ \A q \in Procs : q # p => next'[q] = next[q]
  BY <1>1, <1>2 DEF history
<1> QED
  BY <1>2, <1>5, <1>7, <1>8, <1>9, <1>10, <1>11, <1>12, <1>13, StayStep

\* recover_pair() has decided, or completed the pair: the intent is to be removed.
LEMMA RecoveringStep ==
    ASSUME IInv, NEW p \in Procs, RecoverAccept(p) \/ RecoverFlush(p)
    PROVE  IInv'
<1>1. /\ dir \in Directories /\ dir \in exposed /\ Shape(dir) /\ Serving(p) /\ Recovering(p)
      /\ pc \in [Procs -> Places] /\ next \in [Procs -> Files]
  BY HolderFacts
<1>2. /\ pc[p] \in {"recover", "completed"} /\ dir' = dir /\ durable' = durable
      /\ exposed' = exposed \/ exposed' = {dir}
      /\ UNCHANGED <<request, next, readers, crashes, history>>
  BY DEF RecoverAccept, RecoverFlush, Keep, Flush
<1>3. PICK m \in Cleaning : /\ pc' = [pc EXCEPT ![p] = m]
                            /\ m = "acceptNext" => AcceptNext(dir)
                            /\ m = "rollBack" => Readable(dir) /\ ValidPair(dir) = dir.intent.previous
  <2>1. CASE RecoverAccept(p)
    BY <2>1 DEF RecoverAccept, Move, Cleaning, RetainPrevious
  <2>2. CASE RecoverFlush(p)
    <3>1. pc[p] = "completed" /\ pc' = [pc EXCEPT ![p] = "acceptNext"]
      BY <2>2 DEF RecoverFlush, Move
    <3>2. AcceptNext(dir)
      BY <1>1, <3>1 DEF Recovering
    <3> QED
      BY <3>1, <3>2 DEF Cleaning
  <2> QED
    BY <2>1, <2>2
<1>4. m \in {"acceptNext", "rollBack"}
  BY DEF Cleaning
<1>5. m \in Places /\ m \notin {"idle", "reading", "readingAgain"} /\ pc'[p] = m /\ Locked(p)
  BY <1>1, <1>2, <1>3, <1>4 DEF Places, Idle, Locked, Cleaning
<1>6. m \notin Committing /\ m \notin Before /\ m \notin After /\ m \notin NoIntent
  BY <1>4 DEF Committing, Before, After, NoIntent
<1>7. exposed' \subseteq exposed /\ dir \in exposed' /\ pruned' = pruned /\ pruned \subseteq Ops
  BY <1>1, <1>2 DEF history, IInv, TypeOK
<1>8. pc[p] # "rollBack" /\ pc[p] # "acceptNext"
  BY <1>2
<1>9. Serving(p)'
  <2>1. next'[p] # Absent => Sound(next'[p])
    BY <1>1, <1>2 DEF Serving
  <2> QED
    BY <1>4, <1>5, <1>6, <2>1 DEF Serving
<1>10. Holding(p)'
  BY <1>4, <1>5, <1>6 DEF Holding
<1>11. Recovering(p)' /\ Reading(p)'
  BY <1>2, <1>3, <1>4, <1>5 DEF Recovering, Reading
<1>12. /\ UNCHANGED <<request, readers, crashes, receipts, cutShort>>
       /\ next' \in [Procs -> Files] /\ \A q \in Procs : q # p => next'[q] = next[q]
  BY <1>1, <1>2 DEF history
<1> QED
  BY <1>2, <1>3, <1>5, <1>7, <1>8, <1>9, <1>10, <1>11, <1>12, StayStep

\* The registry to install is valid, and records the operation.
LEMMA DecideCommitStep ==
    ASSUME IInv, NEW p \in Procs, DecideCommit(p)
    PROVE  IInv'
<1> DEFINE reg == Read(dir)
           v == Apply(reg, request[p])
<1>1. /\ dir \in Directories /\ dir \in exposed /\ Shape(dir) /\ Serving(p) /\ Holding(p)
      /\ pc \in [Procs -> Places] /\ next \in [Procs -> Files]
  BY HolderFacts
<1>2. /\ pc[p] = "decide" /\ ~Refused(reg, request[p]) /\ next' = [next EXCEPT ![p] = v]
      /\ pruned' = pruned \cup Drained(reg, next'[p]) /\ pc' = [pc EXCEPT ![p] = "prepare"]
      /\ dir' = dir /\ exposed' = exposed /\ durable' = durable
      /\ UNCHANGED <<request, readers, crashes, receipts, cutShort>>
  BY DEF DecideCommit, Move, Keep
<1>3. request[p] \in Requests /\ dir.intent = Absent
  BY <1>1, <1>2 DEF Serving, Holding, NoIntent
<1>4. Sound(reg)
  BY <1>1, <1>3 DEF Shape
<1> HIDE DEF reg
<1>5. Sound(v) /\ v \in Registries /\ Recorded(v, request[p].op, v.revision)
  BY <1>2, <1>3, <1>4, ApplySound
<1>6. v = Apply(reg, request[p])
  OBVIOUS
<1> HIDE DEF v
<1>7. v # Absent /\ v \in Files
  BY <1>5, NotAbsent DEF Files
<1>8. next'[p] = v /\ next' \in [Procs -> Files] /\ \A q \in Procs : q # p => next'[q] = next[q]
  BY <1>1, <1>2, <1>7
<1>9. /\ "prepare" \in Places /\ "prepare" \notin {"idle", "reading", "readingAgain"} /\ pc'[p] = "prepare"
      /\ Locked(p) /\ "prepare" \notin After
  BY <1>1, <1>2 DEF Places, Idle, Locked, After
<1>10. exposed' \subseteq exposed /\ dir \in exposed' /\ pruned \subseteq pruned' /\ pruned' \subseteq Ops
  BY <1>1, <1>2 DEF IInv, TypeOK, Drained
<1>11. pc[p] # "rollBack" /\ pc[p] # "acceptNext"
  BY <1>2
<1>12. Serving(p)'
  <2>1. request'[p] = request[p]
    BY <1>2
  <2>2. Drained(reg, v) \subseteq pruned'
    BY <1>2, <1>8
  <2>3. Follows(Read(dir), request[p], next[p])'
    BY <1>2, <1>6, <1>8, <2>1, <2>2 DEF Follows, reg
  <2> QED
    BY <1>3, <1>5, <1>7, <1>8, <2>1, <2>3 DEF Serving
<1>13. Holding(p)' /\ Recovering(p)' /\ Reading(p)'
  BY <1>2, <1>3, <1>9 DEF Holding, Recovering, Reading
<1> QED
  BY <1>2, <1>8, <1>9, <1>10, <1>11, <1>12, <1>13, StayStep

\* The directory flushes of commit_registry().
LEMMA FlushStepStep ==
    ASSUME IInv, NEW p \in Procs, FlushStep(p)
    PROVE  IInv'
<1>1. /\ dir \in Directories /\ dir \in exposed /\ Serving(p) /\ Holding(p)
      /\ pc \in [Procs -> Places] /\ next \in [Procs -> Files]
  BY HolderFacts
<1>2. /\ dir' = dir /\ durable' = durable /\ exposed' = {dir}
      /\ UNCHANGED <<request, next, readers, crashes, history>>
  BY DEF FlushStep, Flush
<1>3. PICK m : /\ pc' = [pc EXCEPT ![p] = m]
               /\ \/ pc[p] = "flushStaged" /\ m = "intent"
                  \/ pc[p] = "flushIntent" /\ m = "registry"
                  \/ pc[p] = "flushPair" /\ m = "retire"
                  \/ pc[p] = "flushRetired" /\ m = "answer"
  BY DEF FlushStep, Move
<1>4. /\ m \in Places /\ m \notin {"idle", "reading", "readingAgain"} /\ pc'[p] = m /\ Locked(p)
      /\ pc[p] # "rollBack" /\ pc[p] # "acceptNext"
  BY <1>1, <1>3 DEF Places, Idle, Locked
<1>5. /\ pc[p] \in Committing /\ m \in Committing
      /\ m \in Before => pc[p] \in Before
      /\ m \in NoIntent => pc[p] \in NoIntent
      /\ m \in After => pc[p] \in After
      /\ m = "intent" => pc[p] = "flushStaged"
      /\ m = "registry" => pc[p] = "flushIntent"
      /\ m = "retire" => pc[p] = "flushPair"
      /\ m \in {"intent", "registry", "retire", "answer"}
  BY <1>3 DEF Committing, Before, NoIntent, After
<1>6. exposed' \subseteq exposed /\ dir \in exposed' /\ pruned' = pruned /\ pruned \subseteq Ops
  BY <1>1, <1>2 DEF history, IInv, TypeOK
<1>7. next' = next /\ request' = request
  BY <1>2
<1>8. Serving(p)'
  BY <1>1, <1>2, <1>4, <1>5, <1>6, <1>7 DEF Serving, Follows
<1>9. Holding(p)'
  BY <1>1, <1>2, <1>4, <1>5, <1>7 DEF Holding
<1>10. Recovering(p)' /\ Reading(p)'
  BY <1>4, <1>5 DEF Recovering, Reading
<1>11. /\ UNCHANGED <<request, readers, crashes, receipts, cutShort>>
       /\ next' \in [Procs -> Files] /\ \A q \in Procs : q # p => next'[q] = next[q]
  BY <1>1, <1>2 DEF history
<1> QED
  BY <1>2, <1>3, <1>4, <1>6, <1>8, <1>9, <1>10, <1>11, StayStep

-----------------------------------------------------------------------------
(* Answers, errors and crashes.                                            *)

\* A receipt that the registry on disk records survives: every directory that a power
\* loss may leave selects that registry.
LEMMA AnswerStep ==
    ASSUME IInv, NEW p \in Procs, Leave(p), Keep, pc[p] \in {"decide", "answer"},
           UNCHANGED <<crashes, pruned, cutShort>>, NEW new, receipts' = receipts \cup new,
           new \subseteq (Ops \X (1..MaxRevision)),
           \A receipt \in new : /\ Read(dir).revision >= receipt[2]
                                /\ Recorded(Read(dir), receipt[1], receipt[2])
    PROVE  IInv'
<1>1. TypeOK /\ Exclusion /\ Agreed /\ Acknowledged /\ dir \in Directories /\ Shape(dir) /\ Holding(p)
  BY HolderFacts DEF IInv
<1>2. dir.intent = Absent
  BY <1>1 DEF Holding, NoIntent
<1>3. Settled /\ Effective(dir) = Read(dir)
  BY <1>1, <1>2, EffectiveReadable DEF Settled, Shape
<1>4. ~ \E q \in Procs : pc[q] = "acceptNext"
  BY <1>1 DEF Exclusion, Locked, Idle
<1>5. "acceptNext" \in cutShort \/ \A d \in exposed : Effective(d) = Read(dir)
  BY <1>1, <1>3, <1>4 DEF Agreed
<1>6. exposed' = exposed /\ pruned' = pruned /\ cutShort' = cutShort /\ crashes' = crashes
  BY DEF Keep
<1>7. Acknowledged'
  <2>1. ASSUME "acceptNext" \notin cutShort, NEW receipt \in receipts', NEW d \in exposed'
        PROVE  Survives(receipt, d)'
    <3>1. CASE receipt \in receipts
      BY <1>1, <1>6, <2>1, <3>1 DEF Acknowledged, Survives
    <3>2. CASE receipt \in new
      BY <1>5, <1>6, <2>1, <3>2 DEF Survives
    <3> QED
      BY <3>1, <3>2
  <2> QED
    BY <1>6, <2>1 DEF Acknowledged
<1>8. crashes' \in 0..MaxCrashes /\ receipts' \subseteq (Ops \X (1..MaxRevision)) /\ cutShort' \subseteq Cleaning
  BY <1>1, <1>6 DEF TypeOK
<1>9. pc[p] \notin Cleaning
  BY DEF Cleaning
<1> QED
  BY <1>6, <1>7, <1>8, <1>9, LeaveStep

\* A replayed operation is answered from the registry.
LEMMA ReplayRecorded ==
    ASSUME NEW v, Sound(v), NEW r \in Requests, NEW receipt \in Replay(v, r)
    PROVE  /\ receipt \in Ops \X (1..MaxRevision)
           /\ v.revision >= receipt[2] /\ Recorded(v, receipt[1], receipt[2])
<1>1. v \in Registries /\ ValidRegistry(v)
  BY DEF Sound
<1>2. v.active \subseteq Rows /\ v.tombstones \subseteq Tombs /\ v.revision \in Nat
  BY <1>1, RegistryAssumption, SMT DEF Registries
<1>3. r.op \in Ops
  BY DEF Ops
<1>4. PICK n : /\ receipt = <<r.op, n>>
               /\ \/ \E row \in v.active : row.op = r.op /\ n = row.created
                  \/ \E t \in v.tombstones : t.op = r.op /\ n = t.created
                  \/ \E t \in v.tombstones : t.deleteOp = r.op /\ n = t.deleted
  <2>1. CASE r.kind = "create"
    BY <2>1 DEF Replay, RowOf, CreatedTomb
  <2>2. CASE r.kind # "create"
    BY <2>2 DEF Replay, DeletedTomb
  <2> QED
    BY <2>1, <2>2
<1>5. \A row \in v.active : row.created \in 1..MaxRevision /\ row.created <= v.revision
  <2>1. \A row \in v.active : row.created \in 1..MaxRevision
    BY <1>2, SMT DEF Rows
  <2> QED
    BY <1>1, <2>1 DEF ValidRegistry
<1>6. \A t \in v.tombstones : /\ t.created \in 1..MaxRevision /\ t.deleted \in 1..MaxRevision
                              /\ t.created <= v.revision /\ t.deleted <= v.revision
  <2>1. \A t \in v.tombstones : t.created \in 1..MaxRevision /\ t.deleted \in 1..MaxRevision
    BY <1>2, SMT DEF Tombs
  <2>2. \A t \in v.tombstones : t.created < t.deleted /\ t.deleted <= v.revision
    BY <1>1 DEF ValidRegistry
  <2>3. \A t \in v.tombstones : t.created <= v.revision
    BY <1>2, <2>1, <2>2, RegistryAssumption, SMT
  <2> QED
    BY <2>1, <2>2, <2>3
<1>7. n \in 1..MaxRevision /\ n <= v.revision
  BY <1>4, <1>5, <1>6
<1>8. v.revision >= n
  BY <1>2, <1>7, RegistryAssumption, SMT
<1>9. Recorded(v, r.op, n)
  BY <1>4 DEF Recorded, RowOf, CreatedTomb, DeletedTomb
<1>10. receipt[1] = r.op /\ receipt[2] = n
  BY <1>4
<1>11. receipt \in Ops \X (1..MaxRevision)
  BY <1>3, <1>4, <1>7
<1> QED
  BY <1>8, <1>9, <1>10, <1>11

\* A call returns a receipt: of a replay, or of its own commit.
LEMMA AnswerSteps ==
    ASSUME IInv, NEW p \in Procs, DecideAnswer(p) \/ Answer(p)
    PROVE  IInv'
<1>1. dir \in Directories /\ Shape(dir) /\ Serving(p) /\ Holding(p)
  BY HolderFacts
<1>2. Leave(p) /\ Keep /\ UNCHANGED <<crashes, pruned, cutShort>> /\ pc[p] \in {"decide", "answer"}
  BY DEF DecideAnswer, Answer
<1>3. request[p] \in Requests /\ dir.intent = Absent
  BY <1>1, <1>2 DEF Serving, Holding, NoIntent, Committing, After
<1>4. Sound(Read(dir))
  BY <1>1, <1>3 DEF Shape
<1>5. CASE DecideAnswer(p)
  <2> DEFINE new == Replay(Read(dir), request[p])
  <2>1. receipts' = receipts \cup new
    BY <1>5 DEF DecideAnswer
  <2>2. \A receipt \in new : /\ receipt \in Ops \X (1..MaxRevision)
                             /\ Read(dir).revision >= receipt[2]
                             /\ Recorded(Read(dir), receipt[1], receipt[2])
    BY <1>3, <1>4, ReplayRecorded
  <2> HIDE DEF new
  <2> QED
    BY <1>2, <2>1, <2>2, AnswerStep
<1>6. CASE Answer(p)
  <2>1. pc[p] = "answer" /\ receipts' = receipts \cup {<<request[p].op, next[p].revision>>}
    BY <1>6 DEF Answer
  <2>2. next[p] # Absent /\ Recorded(next[p], request[p].op, next[p].revision) /\ dir.registry = next[p]
    BY <1>1, <2>1 DEF Serving, Holding, Committing, After
  <2>3. Read(dir) = next[p]
    BY <2>2 DEF Read, PairAbsent
  <2> DEFINE n == next[p].revision
             o == request[p].op
  <2>4. next[p] \in Registries
    BY <1>4, <2>3 DEF Sound
  <2>5. n \in 1..MaxRevision /\ n >= n
    <3>1. /\ next[p].active \subseteq Rows /\ next[p].tombstones \subseteq Tombs
      BY <2>4, SMT DEF Registries
    <3>2. (\A row \in Rows : row.created \in 1..MaxRevision)
          /\ \A t \in Tombs : t.created \in 1..MaxRevision /\ t.deleted \in 1..MaxRevision
      BY SMT DEF Rows, Tombs
    <3>3. n \in 1..MaxRevision
      BY <2>2, <3>1, <3>2 DEF Recorded, RowOf, CreatedTomb, DeletedTomb
    <3> QED
      BY <3>3, RegistryAssumption, SMT
  <2>6. o \in Ops
    BY <1>3 DEF Ops
  <2>7. Recorded(Read(dir), o, n) /\ Read(dir).revision = n
    BY <2>2, <2>3
  <2> DEFINE new == {<<o, n>>}
  <2>8. receipts' = receipts \cup new
    BY <2>1
  <2> HIDE DEF n, o
  <2>9. \A receipt \in new : /\ receipt \in Ops \X (1..MaxRevision)
                             /\ Read(dir).revision >= receipt[2]
                             /\ Recorded(Read(dir), receipt[1], receipt[2])
    <3>1. <<o, n>> \in Ops \X (1..MaxRevision) /\ <<o, n>>[1] = o /\ <<o, n>>[2] = n
      BY <2>5, <2>6
    <3>2. Read(dir).revision >= n
      BY <2>5, <2>7
    <3> QED
      BY <2>7, <3>1, <3>2
  <2> HIDE DEF new
  <2> QED
    BY <1>2, <2>8, <2>9, AnswerStep
<1> QED
  BY <1>5, <1>6

\* Errors and crashes.
LEMMA EndSteps ==
    ASSUME IInv, NEW p \in Procs, RecoverCorrupt(p) \/ ReadBusy(p) \/ EndRead(p) \/ Crash(p)
    PROVE  IInv'
<1>1. TypeOK /\ Acknowledged
  BY DEF IInv
<1>2. Leave(p) /\ Keep /\ receipts' = receipts /\ pruned' = pruned
  BY DEF RecoverCorrupt, ReadBusy, EndRead, Crash, history
<1>3. /\ cutShort \subseteq cutShort' /\ cutShort' \subseteq Cleaning
      /\ pc[p] \in Cleaning => pc[p] \in cutShort'
  <2>1. CASE Crash(p)
    BY <1>1, <2>1 DEF Crash, TypeOK
  <2>2. CASE RecoverCorrupt(p) \/ ReadBusy(p) \/ EndRead(p)
    <3>1. cutShort' = cutShort /\ pc[p] \in {"recover", "rereading", "reading", "readingAgain"}
      BY <2>2 DEF RecoverCorrupt, ReadBusy, EndRead, history
    <3> QED
      BY <1>1, <3>1 DEF TypeOK, Cleaning
  <2> QED
    BY <2>1, <2>2
<1>4. crashes' \in 0..MaxCrashes
  <2>1. CASE Crash(p)
    BY <1>1, <2>1, RegistryAssumption, SMT DEF Crash, TypeOK
  <2>2. CASE RecoverCorrupt(p) \/ ReadBusy(p) \/ EndRead(p)
    BY <1>1, <2>2 DEF RecoverCorrupt, ReadBusy, EndRead, TypeOK
  <2> QED
    BY <2>1, <2>2
<1>5. Acknowledged'
  <2>1. exposed' = exposed
    BY <1>2 DEF Keep
  <2> QED
    BY <1>1, <1>2, <1>3, <2>1 DEF Acknowledged, Survives
<1>6. receipts' \subseteq (Ops \X (1..MaxRevision))
  BY <1>1, <1>2 DEF TypeOK
<1> QED
  BY <1>2, <1>3, <1>4, <1>5, <1>6, LeaveStep

-----------------------------------------------------------------------------
(* Calls that begin, power losses, and the initial state.                  *)

\* A mutation, or a reader that found an intent, takes the exclusive locks.
LEMMA AcquireStep ==
    ASSUME IInv, NEW p \in Procs, NEW r \in Requests \cup {Absent}, Acquire(p, r)
    PROVE  IInv'
<1>1. /\ Keep /\ pc' = [pc EXCEPT ![p] = "recover"] /\ request' = [request EXCEPT ![p] = r]
      /\ readers = {} /\ readers' = readers /\ \A q \in Procs : ~Locked(q)
      /\ durable => \A q \in Procs : pc[q] = "idle"
      /\ UNCHANGED <<next, crashes, history>>
  BY DEF Acquire, Admitted, LocksFree, Move
<1> QED
  BY <1>1, EnterStep

\* A reader begins, or reads again after a recovery.
LEMMA ReadSteps ==
    ASSUME IInv, NEW p \in Procs, BeginRead(p) \/ ReadAgain(p)
    PROVE  IInv'
<1>1. Reading(p) /\ pc \in [Procs -> Places]
  BY HolderFacts
<1>2. /\ Keep /\ readers' = readers \cup {p} /\ request' = request
      /\ \A q \in Procs : ~Locked(q)
      /\ UNCHANGED <<next, crashes, history>>
      /\ pc[p] = "idle" /\ durable => \A q \in Procs : pc[q] = "idle"
  BY DEF BeginRead, ReadAgain, SharedLockFree, Admitted
<1>3. PICK m \in {"reading", "readingAgain"} :
         /\ pc' = [pc EXCEPT ![p] = m]
         /\ m = "reading" => dir.intent = Absent
         /\ m = "readingAgain" => pc[p] = "rereading"
  BY DEF BeginRead, ReadAgain, Move
<1>4. Reading(p)'
  <2>1. pc'[p] = m /\ dir' = dir /\ durable' = durable
    BY <1>1, <1>2, <1>3 DEF Keep
  <2> QED
    BY <1>1, <1>3, <2>1 DEF Reading
<1>5. m \in {"recover", "reading", "readingAgain"} /\ m # "recover"
  BY <1>3
<1>6. Absent \in Requests \cup {Absent}
  OBVIOUS
<1> QED
  BY <1>2, <1>3, <1>4, <1>5, <1>6, EnterStep

\* A power loss leaves any of the directories exposed since the last flush.
LEMMA PowerLossStep ==
    ASSUME IInv, PowerLoss
    PROVE  IInv'
<1>1. TypeOK /\ Shapes /\ RecoverableUnlessRollbackInterrupted /\ Acknowledged
  BY DEF IInv
<1>2. /\ dir' \in exposed /\ exposed' = {dir'} /\ pc' = [p \in Procs |-> "idle"]
      /\ request' = [p \in Procs |-> Absent] /\ next' = [p \in Procs |-> Absent] /\ readers' = {}
      /\ durable' = durable /\ receipts' = receipts /\ pruned' = pruned
      /\ cutShort' = cutShort \cup ({pc[p] : p \in Procs} \cap Cleaning)
  BY DEF PowerLoss
<1>3. TypeOK'
  <2>1. crashes' \in 0..MaxCrashes
    BY <1>1, RegistryAssumption, SMT DEF PowerLoss, TypeOK
  <2>2. exposed' \subseteq Directories /\ dir' \in exposed' /\ cutShort' \subseteq Cleaning
    BY <1>1, <1>2 DEF TypeOK
  <2>3. pc' \in [Procs -> Places] /\ next' \in [Procs -> Files] /\ request' \in [Procs -> Requests \cup {Absent}]
    BY <1>2, AbsentFile DEF Places, Idle
  <2> QED
    BY <1>1, <1>2, <2>1, <2>2, <2>3 DEF TypeOK
<1>4. \A p \in Procs : pc'[p] = "idle" /\ next'[p] = Absent
  BY <1>2
<1>5. Exclusion'
  BY <1>2, <1>4 DEF Exclusion, Locked, Idle
<1>6. Shapes'
  BY <1>1, <1>2 DEF Shapes
<1>7. RecoverableUnlessRollbackInterrupted'
  BY <1>1, <1>2 DEF RecoverableUnlessRollbackInterrupted, Cleaning
<1>8. Agreed'
  BY <1>2 DEF Agreed
<1>9. Acknowledged'
  BY <1>1, <1>2 DEF Acknowledged, Survives
<1>10. Locals'
  BY <1>4 DEF Locals, Serving, Holding, Recovering, Reading, Committing, Before, After, NoIntent
<1> QED
  BY <1>3, <1>5, <1>6, <1>7, <1>8, <1>9, <1>10 DEF IInv

\* The empty directory, nobody at work.
LEMMA InitIInv == Init => IInv
<1> SUFFICES ASSUME Init PROVE IInv
  OBVIOUS
<1>1. /\ dir \in Directories /\ dir.registry = Absent /\ dir.checksum = Absent /\ dir.intent = Absent
  <2> DEFINE none == [o \in Ops |-> Absent]
  <2>1. none \in [Ops -> Files]
    BY AbsentFile
  <2>2. dir = [registry |-> Absent, checksum |-> Absent, intent |-> Absent,
               registryTemp |-> none, checksumTemp |-> none]
    BY DEF Init
  <2> HIDE DEF none
  <2> QED
    BY <2>1, <2>2, AbsentFile, SMT DEF Directories
<1>2. /\ exposed = {dir} /\ pc = [p \in Procs |-> "idle"] /\ request = [p \in Procs |-> Absent]
      /\ next = [p \in Procs |-> Absent] /\ readers = {} /\ receipts = {} /\ pruned = {} /\ cutShort = {}
      /\ crashes = 0 /\ durable \in BOOLEAN
  BY DEF Init
<1>3. TypeOK
  <2>1. 0 \in 0..MaxCrashes
    BY RegistryAssumption, SMT
  <2>2. pc \in [Procs -> Places] /\ next \in [Procs -> Files] /\ request \in [Procs -> Requests \cup {Absent}]
    BY <1>2, AbsentFile DEF Places, Idle
  <2> QED
    BY <1>1, <1>2, <2>1, <2>2 DEF TypeOK
<1>4. \A p \in Procs : pc[p] = "idle" /\ next[p] = Absent
  BY <1>2
<1>5. Exclusion
  BY <1>2, <1>4 DEF Exclusion, Locked, Idle
<1>6. Readable(dir) /\ Read(dir) = Empty
  BY <1>1 DEF Readable, Read, PairAbsent
<1>7. Shapes /\ RecoverableUnlessRollbackInterrupted
  BY <1>1, <1>2, <1>6, EmptySound DEF Shapes, Shape, RecoverableUnlessRollbackInterrupted, Recoverable
<1>8. Agreed /\ Acknowledged
  BY <1>2 DEF Agreed, Acknowledged
<1>9. Locals
  BY <1>4 DEF Locals, Serving, Holding, Recovering, Reading, Committing, Before, After, NoIntent
<1> QED
  BY <1>3, <1>5, <1>7, <1>8, <1>9 DEF IInv

-----------------------------------------------------------------------------
(* Every step.                                                             *)

\* A step preserves the invariant; what recovery would select changes at the rename of
\* the registry and at a power loss only.
LEMMA NextIInv ==
    ASSUME IInv, [Next]_vars
    PROVE  /\ IInv'
           /\ \/ Effective(dir') = Effective(dir)
              \/ PowerLoss
              \/ \E p \in Procs : ReplaceRegistry(p)
<1>1. CASE UNCHANGED vars
  <2>1. /\ durable' = durable /\ dir' = dir /\ exposed' = exposed /\ pc' = pc /\ request' = request
        /\ next' = next /\ readers' = readers /\ crashes' = crashes /\ receipts' = receipts
        /\ pruned' = pruned /\ cutShort' = cutShort
    BY <1>1 DEF vars
  <2>2. TypeOK' /\ Exclusion' /\ Shapes'
    BY <2>1 DEF IInv, TypeOK, Exclusion, Locked, Shapes
  <2>3. RecoverableUnlessRollbackInterrupted' /\ Agreed' /\ Acknowledged'
    BY <2>1 DEF IInv, RecoverableUnlessRollbackInterrupted, Agreed, Settled, Acknowledged, Survives
  <2>4. Locals'
    <3>1. dir \in exposed' /\ exposed' \subseteq exposed /\ pruned \subseteq pruned'
      BY <2>1 DEF IInv, TypeOK
    <3> QED
      BY <2>1, <3>1, KeptLocal DEF IInv, Locals
  <2> QED
    BY <2>1, <2>2, <2>3, <2>4 DEF IInv
<1>2. CASE PowerLoss
  BY <1>2, PowerLossStep
<1>3. ASSUME NEW p \in Procs, UnlinkRegistryTemp(p) \/ UnlinkChecksumTemp(p) \/ UnlinkIntent(p)
                              \/ RecoverComplete(p)
      PROVE  IInv' /\ Effective(dir') = Effective(dir)
  BY <1>3, UnlinkSteps, RecoverCompleteStep
<1>4. ASSUME NEW p \in Procs, PrepareTemps(p) \/ StageRegistry(p) \/ StageChecksum(p) \/ WriteIntent(p)
                              \/ ReplaceChecksum(p) \/ RetireIntent(p)
      PROVE  IInv' /\ Effective(dir') = Effective(dir)
  BY <1>4, StageSteps, WriteIntentStep, ReplaceChecksumStep, RetireIntentStep
<1>5. ASSUME NEW p \in Procs, ReplaceRegistry(p)
      PROVE  IInv'
  BY <1>5, ReplaceRegistryStep
<1>6. ASSUME NEW p \in Procs, RecoverNothing(p) \/ RecoverAccept(p) \/ RecoverFlush(p) \/ FlushCleanup(p)
                              \/ DecideCommit(p) \/ FlushStep(p)
      PROVE  IInv' /\ dir' = dir
  <2>1. dir' = dir
    BY <1>6 DEF RecoverNothing, RecoverAccept, RecoverFlush, FlushCleanup, DecideCommit, FlushStep, Keep, Flush
  <2> QED
    BY <1>6, <2>1, RecoveredStep, RecoveringStep, DecideCommitStep, FlushStepStep
<1>7. ASSUME NEW p \in Procs, RecoverCorrupt(p) \/ DecideAnswer(p) \/ Answer(p) \/ ReadBusy(p) \/ EndRead(p)
                              \/ Crash(p)
      PROVE  IInv' /\ dir' = dir
  <2>1. dir' = dir
    BY <1>7 DEF RecoverCorrupt, DecideAnswer, Answer, ReadBusy, EndRead, Crash, Keep
  <2> QED
    BY <1>7, <2>1, AnswerSteps, EndSteps
<1>8. ASSUME NEW p \in Procs, (\E r \in Requests : Acquire(p, r)) \/ RecoverForRead(p) \/ BeginRead(p)
                              \/ ReadAgain(p)
      PROVE  IInv' /\ dir' = dir
  <2>1. dir' = dir
    BY <1>8 DEF RecoverForRead, Acquire, BeginRead, ReadAgain, Keep
  <2>2. CASE BeginRead(p) \/ ReadAgain(p)
    BY <2>1, <2>2, ReadSteps
  <2>3. CASE (\E r \in Requests : Acquire(p, r)) \/ RecoverForRead(p)
    <3>1. \E r \in Requests \cup {Absent} : Acquire(p, r)
      BY <2>3 DEF RecoverForRead
    <3> QED
      BY <2>1, <3>1, AcquireStep
  <2> QED
    BY <1>8, <2>2, <2>3
<1> QED
  BY <1>1, <1>2, <1>3, <1>4, <1>5, <1>6, <1>7, <1>8 DEF Next, Mutate

-----------------------------------------------------------------------------
(* The theorems.                                                           *)

\* The invariant holds in every state, whatever crashes and power losses there are.
THEOREM RegistryInvariance == Spec => []IInv
<1>1. Init => IInv
  BY InitIInv
<1>2. IInv /\ [Next]_vars => IInv'
  BY NextIInv
<1> QED
  BY <1>1, <1>2, PTL DEF Spec

\* The variables keep their types, whatever processes, requests and limits there are.
THEOREM RegistryTypes == Spec => []TypeOK
<1>1. IInv => TypeOK
  BY DEF IInv
<1> QED
  BY <1>1, RegistryInvariance, PTL

\* validate_registry() accepts every registry a mutation installs, for every limit of
\* rows and tombstones: canonical_bytes() never refuses the program's own update.
THEOREM InstallsValid == Spec => []UpdatesPassValidation
<1>1. IInv => UpdatesPassValidation
  BY DEF IInv, Locals, Serving, Sound, UpdatesPassValidation
<1> QED
  BY <1>1, RegistryInvariance, PTL

\* A reader that found no intent, or that recovered under the lifecycle lock, reads two
\* files that match.
THEOREM ReadsMatchingPair == Spec => []ReadersSeeValidPair
<1>1. IInv => ReadersSeeValidPair
  <2> SUFFICES ASSUME IInv, NEW p \in Procs, pc[p] = "reading" \/ (durable /\ pc[p] = "readingAgain")
               PROVE  Readable(dir)
    BY DEF ReadersSeeValidPair
  <2>1. Reading(p) /\ Shape(dir)
    BY HolderFacts
  <2> QED
    BY <2>1 DEF Reading, Shape
<1> QED
  BY <1>1, RegistryInvariance, PTL

\* recover_pair() accepts every directory that a crash or a power loss may leave, but for
\* a crash inside the removal of a rolled-back intent.
THEOREM AlwaysRecoverable == Spec => []RecoverableUnlessRollbackInterrupted
<1>1. IInv => RecoverableUnlessRollbackInterrupted
  BY DEF IInv
<1> QED
  BY <1>1, RegistryInvariance, PTL

\* An operation whose receipt was returned is part of whatever recovery selects after any
\* number of crashes and power losses, unless its tombstone was pruned or a clean-up of a
\* completed pair was cut short.
THEOREM ReceiptsSurvive == Spec => []AcknowledgedSurvives
<1>1. IInv => AcknowledgedSurvives
  BY RecordedKnown DEF IInv, Acknowledged, Survives, AcknowledgedSurvives
<1> QED
  BY <1>1, RegistryInvariance, PTL

\* A retried operation is answered with the receipt of its first execution.
THEOREM OneReceipt == Spec => []OneReceiptPerOperation
<1>1. IInv => OneReceiptPerOperation
  <2> SUFFICES ASSUME IInv, "acceptNext" \notin cutShort, NEW a \in receipts, NEW b \in receipts,
                      a[1] = b[1], a[1] \notin pruned
               PROVE  a[2] = b[2]
    BY DEF OneReceiptPerOperation
  <2>1. dir \in exposed /\ Sound(Effective(dir))
    BY EffectiveSound DEF IInv, TypeOK, Shapes
  <2>2. Recorded(Effective(dir), a[1], a[2]) /\ Recorded(Effective(dir), a[1], b[2])
    BY <2>1 DEF IInv, Acknowledged, Survives
  <2> QED
    BY <2>1, <2>2, RecordedOnce
<1> QED
  BY <1>1, RegistryInvariance, PTL

\* Commits and recoveries move the registry that recovery selects by one Apply of the
\* request being served; nothing else moves it but a power loss.
THEOREM OneOperation == Spec => OneOperationAtATime
<1> DEFINE A == (Recoverable(dir) /\ Recoverable(dir') /\ Effective(dir') # Effective(dir)) =>
                   \/ \E p \in Procs : Effective(dir') = next[p] /\ next[p] = Apply(Effective(dir), request[p])
                   \/ PowerLoss
<1>1. IInv /\ [Next]_vars => [A]_vars
  <2> SUFFICES ASSUME IInv, [Next]_vars, Effective(dir') # Effective(dir), ~PowerLoss
               PROVE  \E p \in Procs : Effective(dir') = next[p] /\ next[p] = Apply(Effective(dir), request[p])
    OBVIOUS
  <2>1. PICK p \in Procs : ReplaceRegistry(p)
    BY NextIInv
  <2>2. Effective(dir') = next[p]
    BY <2>1, ReplaceRegistryStep
  <2>3. pc[p] \in Before
    BY <2>1 DEF ReplaceRegistry, Before
  <2>4. next[p] = Apply(Effective(dir), request[p])
    BY <2>3, CommitFacts
  <2> QED
    BY <2>2, <2>4
<1>2. Spec => [][A]_vars
  BY <1>1, RegistryInvariance, PTL DEF Spec
<1> QED
  BY <1>2 DEF OneOperationAtATime
=============================================================================
