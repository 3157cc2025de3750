---------------------------- MODULE EngineProofs -----------------------------
(***************************************************************************)
(* Proofs about the storage engines of dalgo2memory, for every set of ids, *)
(* keys, columns, payloads and update lists and any sequence of calls.     *)
(*                                                                         *)
(* First the columnar engine.  Its inductive invariant IInv adds to the    *)
(* invariants of the runs only that a broken engine is empty.  The proof   *)
(* has one lemma per kind of call; the hard one is the compacting delete,  *)
(* which rests on the lemmas about rank: the order-preserving bijection    *)
(* from the surviving slots to 1..n.                                       *)
(*                                                                         *)
(* Then the two engines side by side.  They keep a record differently: the *)
(* columnar one as a row, with a zero cell for an absent column, the       *)
(* serialized one as the fields that were written.  They answer alike      *)
(* because an update, applied to data that give one row, gives data that   *)
(* give one row (UpdatesAlike), because data that give one row decode      *)
(* together, and because the serialized engine takes what decodes and, in  *)
(* a map collection, what is Loose (TakenExactly).  The records of which   *)
(* only one engine took a write are "apart"; the invariant is about each   *)
(* of the others.  Induction over a list of updates is by least elements.  *)
(***************************************************************************)
EXTENDS EngineParity, TLAPS, FiniteSetTheorems, SequenceTheorems, WellFoundedInduction

\* A function on 1..n is a sequence of length n (the slices of columnar.go are
\* built as such functions).
LEMMA FcnIsSeq ==
  ASSUME NEW T, NEW n \in Nat, NEW f \in [1..n -> T]
  PROVE  /\ f \in Seq(T)
         /\ Len(f) = n
         /\ DOMAIN f = 1..n
  BY SeqDef, LenProperties

\* Writing a slot of a slice, or the first slot after its end (setSlotKey and
\* writeSlot), changes that slot only and grows the slice by at most one.
LEMMA SetAtType ==
  ASSUME NEW T, NEW seq \in Seq(T), NEW slot \in 1..(Len(seq) + 1), NEW v \in T, NEW nil
  PROVE  /\ SetAt(seq, slot, v, nil) \in Seq(T)
         /\ Len(SetAt(seq, slot, v, nil)) = IF slot = Len(seq) + 1 THEN slot ELSE Len(seq)
         /\ SetAt(seq, slot, v, nil)[slot] = v
         /\ \A s \in DOMAIN seq : s # slot => SetAt(seq, slot, v, nil)[s] = seq[s]
<1> DEFINE n == IF slot > Len(seq) THEN slot ELSE Len(seq)
           f == SetAt(seq, slot, v, nil)
<1>1. n \in Nat /\ n = (IF slot = Len(seq) + 1 THEN slot ELSE Len(seq))
  BY LenProperties
<1>2. f \in [1..n -> T]
  BY LenProperties, ElementOfSeq DEF SetAt
<1>3. f \in Seq(T) /\ Len(f) = n
  BY <1>1, <1>2, FcnIsSeq
<1>4. f[slot] = v /\ \A s \in DOMAIN seq : s # slot => f[s] = seq[s]
  BY LenProperties DEF SetAt
<1> QED BY <1>1, <1>3, <1>4

\* The position that compaction gives a surviving slot lies within the new slices.
LEMMA RankType ==
  ASSUME NEW L, IsFiniteSet(L), L \subseteq Nat
  PROVE  \A s \in L : rank(s, L) \in 1..Cardinality(L)
<1> SUFFICES ASSUME NEW s \in L PROVE rank(s, L) \in 1..Cardinality(L)
  OBVIOUS
<1> DEFINE R == {t \in L : t <= s}
<1>1. R \subseteq L /\ s \in R
  OBVIOUS
<1>2. IsFiniteSet(R) /\ Cardinality(R) <= Cardinality(L)
  BY <1>1, FS_Subset
<1>3. Cardinality(R) \in Nat /\ Cardinality(L) \in Nat
  BY <1>2, FS_CardinalityType
<1>4. Cardinality(R) # 0
  BY <1>1, <1>2, FS_EmptySet
<1> QED BY <1>2, <1>3, <1>4 DEF rank

\* Compaction keeps the order of the surviving slots, so it never gives two of
\* them the same position.
LEMMA RankMonotone ==
  ASSUME NEW L, IsFiniteSet(L), L \subseteq Nat
  PROVE  \A s, t \in L : s < t => rank(s, L) < rank(t, L)
<1> SUFFICES ASSUME NEW s \in L, NEW t \in L, s < t PROVE rank(s, L) < rank(t, L)
  OBVIOUS
<1>0. s \in Nat /\ t \in Nat /\ \A u \in L : u \in Nat
  OBVIOUS
<1> DEFINE R == {u \in L : u <= s}
           Q == {u \in L : u <= t}
<1>1. R \subseteq Q /\ t \in Q /\ t \notin R /\ Q \subseteq L
  <2>1. (\A u \in L : u <= s => u <= t) /\ t <= t /\ ~(t <= s)
    BY <1>0
  <2> QED BY <2>1
<1>2. IsFiniteSet(Q)
  BY <1>1, FS_Subset
<1>3. IsFiniteSet(R) /\ Cardinality(R) <= Cardinality(Q) /\ (Cardinality(R) = Cardinality(Q) => R = Q)
  BY <1>1, <1>2, FS_Subset
<1>4. Cardinality(R) \in Nat /\ Cardinality(Q) \in Nat
  BY <1>2, <1>3, FS_CardinalityType
<1> QED BY <1>1, <1>3, <1>4 DEF rank

\* Every position of the compacted slices is filled by exactly one surviving slot.
LEMMA SlotAtRankInverse ==
  ASSUME NEW L, IsFiniteSet(L), L \subseteq Nat
  PROVE  /\ \A r \in 1..Cardinality(L) :
               slotAtRank(r, L) \in L /\ rank(slotAtRank(r, L), L) = r
         /\ \A s \in L : slotAtRank(rank(s, L), L) = s
<1> DEFINE n == Cardinality(L)
           f == [s \in L |-> rank(s, L)]
<1>1. n \in Nat
  BY FS_CardinalityType
<1>2. \A s \in L : rank(s, L) \in 1..n
  BY RankType
<1>3. \A s, t \in L : rank(s, L) = rank(t, L) => s = t
  <2> SUFFICES ASSUME NEW s \in L, NEW t \in L, s # t
               PROVE  rank(s, L) # rank(t, L)
    OBVIOUS
  <2>1. s < t \/ t < s
    BY s \in Nat, t \in Nat
  <2>2. rank(s, L) \in Nat /\ rank(t, L) \in Nat
    BY <1>2, <1>1
  <2>3. /\ s < t => rank(s, L) < rank(t, L)
        /\ t < s => rank(t, L) < rank(s, L)
    BY RankMonotone
  <2> QED BY <2>1, <2>2, <2>3
<1>4. f \in Injection(L, 1..n)
  BY <1>2, <1>3 DEF Injection, IsInjective
<1>5. IsFiniteSet(1..n) /\ Cardinality(1..n) = n
  <2>1. IsFiniteSet(1..n) /\ Cardinality(1..n) = IF 1 > n THEN 0 ELSE n - 1 + 1
    BY <1>1, FS_Interval
  <2> QED BY <2>1, <1>1
<1>6. f \in Surjection(L, 1..n)
  BY <1>4, <1>5, FS_Injection
<1>7. \A r \in 1..n : \E s \in L : rank(s, L) = r
  BY <1>6 DEF Surjection
<1> QED BY <1>2, <1>3, <1>7 DEF slotAtRank

\* A compacted slice is a sequence with one element per surviving slot, taken
\* from that slot.
LEMMA CompactedSeq ==
  ASSUME NEW T, NEW seq \in Seq(T), NEW L, L \subseteq DOMAIN seq, IsFiniteSet(L)
  PROVE  /\ compacted(seq, L) \in Seq(T)
         /\ Len(compacted(seq, L)) = Cardinality(L)
         /\ \A r \in 1..Cardinality(L) : compacted(seq, L)[r] = seq[slotAtRank(r, L)]
<1>1. DOMAIN seq = 1..Len(seq) /\ Len(seq) \in Nat /\ \A s \in DOMAIN seq : seq[s] \in T
  BY LenProperties, ElementOfSeq
<1>2. L \subseteq Nat
  BY <1>1
<1>3. Cardinality(L) \in Nat
  BY FS_CardinalityType
<1>4. \A r \in 1..Cardinality(L) : slotAtRank(r, L) \in DOMAIN seq
  BY <1>2, SlotAtRankInverse
<1>5. compacted(seq, L) \in [1..Cardinality(L) -> T]
  BY <1>1, <1>4 DEF compacted
<1> QED BY <1>3, <1>5, FcnIsSeq DEF compacted

\* Popping the free list (allocSlot) removes exactly its last slot.
LEMMA PoppedFreeList ==
  ASSUME NEW T, NEW s \in Seq(T), s # <<>>, IsInjective(s)
  PROVE  LET f == SubSeq(s, 1, Len(s) - 1) IN
         /\ f \in Seq(T)
         /\ Len(f) = Len(s) - 1
         /\ IsInjective(f)
         /\ Range(f) = Range(s) \ {s[Len(s)]}
         /\ Len(s) \in DOMAIN s
<1> DEFINE f == SubSeq(s, 1, Len(s) - 1)
           n == Len(s)
<1>1. n \in Nat \ {0} /\ DOMAIN s = 1..n /\ \A i \in 1..n : s[i] \in T
  BY LenProperties, ElementOfSeq, EmptySeq
<1>2. /\ f \in Seq(T)
      /\ Len(f) = IF 1 <= n - 1 THEN (n - 1) - 1 + 1 ELSE 0
      /\ \A i \in 1..((n - 1) - 1 + 1) : f[i] = s[1 + i - 1]
  <2>1. n - 1 \in Int /\ 1 \in Int /\ \A i \in 1..(n - 1) : s[i] \in T
    BY <1>1
  <2> QED BY <2>1, SubSeqProperties
<1>3. Len(f) = n - 1 /\ \A i \in 1..(n - 1) : f[i] = s[i]
  BY <1>1, <1>2
<1>4. DOMAIN f = 1..(n - 1)
  BY <1>2, <1>3, LenProperties
<1>5. IsInjective(f)
  BY <1>1, <1>3, <1>4 DEF IsInjective
<1>6. Range(f) = Range(s) \ {s[n]}
  <2>1. \A i \in DOMAIN s : i \in DOMAIN f \/ i = n
    BY <1>1, <1>4
  <2>2. \A i \in DOMAIN f : i \in DOMAIN s /\ i # n /\ f[i] = s[i]
    BY <1>1, <1>3, <1>4
  <2>3. \A i \in DOMAIN f : f[i] # s[n]
    BY <1>1, <2>2 DEF IsInjective
  <2> QED BY <2>1, <2>2, <2>3 DEF Range
<1> QED BY <1>1, <1>2, <1>3, <1>5, <1>6

\* Pushing a slot on the free list (freeSlot) adds exactly that slot.
LEMMA PushedFreeList ==
  ASSUME NEW T, NEW s \in Seq(T), NEW e \in T, e \notin Range(s), IsInjective(s)
  PROVE  /\ Append(s, e) \in Seq(T)
         /\ Len(Append(s, e)) = Len(s) + 1
         /\ IsInjective(Append(s, e))
         /\ Range(Append(s, e)) = Range(s) \cup {e}
<1> DEFINE f == Append(s, e)
           n == Len(s)
<1>1. n \in Nat /\ DOMAIN s = 1..n
  BY LenProperties
<1>2. f \in Seq(T) /\ Len(f) = n + 1 /\ f[n + 1] = e /\ \A i \in 1..n : f[i] = s[i]
  BY AppendProperties
<1>3. DOMAIN f = 1..(n + 1)
  BY <1>2, LenProperties
<1>4. \A i \in DOMAIN f : i \in DOMAIN s \/ i = n + 1
  BY <1>1, <1>3
<1>5. IsInjective(f)
  BY <1>1, <1>2, <1>3, <1>4 DEF IsInjective, Range
<1>6. Range(f) = Range(s) \cup {e}
  BY <1>1, <1>2, <1>3, <1>4 DEF Range
<1> QED BY <1>2, <1>5, <1>6

-----------------------------------------------------------------------------
\* What a read call may answer with.
RowSet == [id : Ids, key : Keys, row : Row]
\* What a call may answer with.
Results == [out : Outcomes, rows : SUBSET RowSet]

\* An engine whose factory failed (initErr) has never stored anything, since every
\* writing call returns the error first.
BrokenIsEmpty == mode = "broken" => DOMAIN idToSlot = {}

\* The inductive invariant: the slices are typed and aligned, ids and live slots
\* are inverse to each other, the free list is the set of dead slots, compaction
\* has kept up, and the index agrees with the cells of the live slots.
IInv ==
    /\ TypeOK
    /\ SlicesAligned
    /\ SlotsAgree
    /\ FreeListExact
    /\ DeadBounded
    /\ IndexMatchesCells
    /\ BrokenIsEmpty

\* Domains and element types of the parallel slices, from the type invariant and
\* their alignment.
LEMMA SlotFacts ==
  ASSUME TypeOK, SlicesAligned
  PROVE  /\ Len(live) \in Nat
         /\ DOMAIN live = 1..Len(live)
         /\ DOMAIN slotToID = 1..Len(live)
         /\ DOMAIN slotToKey = 1..Len(live)
         /\ DOMAIN values = 1..Len(live)
         /\ mode = "map" => DOMAIN leftover = 1..Len(live)
         /\ \A s \in 1..Len(live) :
               /\ live[s] \in BOOLEAN
               /\ slotToID[s] \in Ids \cup {NoID}
               /\ slotToKey[s] \in Keys \cup {NoKey}
               /\ values[s] \in [Columns -> Values]
               /\ mode = "map" => leftover[s] \in Leftovers
         /\ IsFiniteSet(LiveSlots)
<1>1. /\ live \in Seq(BOOLEAN) /\ slotToID \in Seq(Ids \cup {NoID})
      /\ slotToKey \in Seq(Keys \cup {NoKey})
      /\ values \in Seq([Columns -> Values]) /\ leftover \in Seq(Leftovers)
  BY DEF TypeOK
<1>2. /\ Len(live) \in Nat
      /\ DOMAIN live = 1..Len(live)
      /\ DOMAIN slotToID = 1..Len(live)
      /\ DOMAIN slotToKey = 1..Len(live)
      /\ DOMAIN values = 1..Len(live)
      /\ mode = "map" => DOMAIN leftover = 1..Len(live)
  BY <1>1, LenProperties DEF SlicesAligned
<1>3. \A s \in 1..Len(live) :
         /\ live[s] \in BOOLEAN
         /\ slotToID[s] \in Ids \cup {NoID}
         /\ slotToKey[s] \in Keys \cup {NoKey}
         /\ values[s] \in [Columns -> Values]
         /\ mode = "map" => leftover[s] \in Leftovers
  BY <1>1, ElementOfSeq DEF SlicesAligned
<1>4. IsFiniteSet(1..Len(live))
  BY <1>2, FS_Interval
<1>5. LiveSlots \subseteq 1..Len(live)
  BY <1>2 DEF LiveSlots, Slots
<1>6. IsFiniteSet(LiveSlots)
  BY <1>4, <1>5, FS_Subset
<1> QED BY <1>2, <1>3, <1>6

\* The row reassembled from a live slot (rowData) is well typed.
LEMMA RowAtType ==
  ASSUME TypeOK, SlicesAligned, NEW s \in LiveSlots
  PROVE  rowAt(s) \in Row
<1>1. s \in 1..Len(live)
  BY SlotFacts DEF LiveSlots, Slots
<1>2. values[s] \in [Columns -> Values] /\ (mode = "map" => leftover[s] \in Leftovers)
  BY <1>1, SlotFacts
<1>3. NoFields \in Leftovers
  BY DEF NoFields, Leftovers, PartialFcn
<1> QED BY <1>2, <1>3 DEF rowAt, leftoverAt, Row

\* Data that prepareWrite accepts decodes into well-typed cells and leftover.
LEMMA DecodedRow ==
  ASSUME NEW m, NEW p, Decodable(m, p)
  PROVE  /\ cellsOf(p) \in [Columns -> Values]
         /\ leftoverOf(p) \in Leftovers
<1>1. cellsOf(p) \in [Columns -> Values]
  BY DataAssumption DEF cellsOf, Decodable
<1>2. DOMAIN p \ Columns \in SUBSET Undeclared
  BY DEF Decodable, Fields
<1>3. leftoverOf(p) \in [DOMAIN p \ Columns -> Values]
  BY DEF leftoverOf, Restrict, Decodable
<1> QED BY <1>1, <1>2, <1>3 DEF Leftovers, PartialFcn

\* A call that only reports an outcome preserves the invariant.
LEMMA ReportPreserves ==
  ASSUME IInv, UNCHANGED slotVars, result' \in Results
  PROVE  IInv'
<1> USE DEF slotVars
<1>1. TypeOK'
  BY DEF IInv, TypeOK, Results, RowSet
<1>2. SlicesAligned'
  BY DEF IInv, SlicesAligned
<1>3. SlotsAgree'
  BY DEF IInv, SlotsAgree, LiveSlots, Slots
<1>4. FreeListExact'
  BY DEF IInv, FreeListExact, LiveSlots, Slots
<1>5. DeadBounded'
  BY DEF IInv, DeadBounded
<1>6. IndexMatchesCells'
  BY DEF IInv, IndexMatchesCells, LiveSlots, Slots
<1>7. BrokenIsEmpty'
  BY DEF IInv, BrokenIsEmpty
<1> QED BY <1>1, <1>2, <1>3, <1>4, <1>5, <1>6, <1>7 DEF IInv

\* An outcome without rows is a result.
LEMMA OutcomeType ==
  ASSUME NEW o \in Outcomes
  PROVE  Outcome(o) \in Results
  BY DEF Outcome, Results

\* buildRows over stored ids gives a well-typed result.
LEMMA BuildRowsType ==
  ASSUME TypeOK, SlicesAligned, SlotsAgree, NEW S, S \subseteq DOMAIN idToSlot
  PROVE  RowsOutcome(buildRows(S)) \in Results
<1>1. SUFFICES ASSUME NEW id \in S
               PROVE  Entry(id, slotToKey[idToSlot[id]], rowAt(idToSlot[id])) \in RowSet
  BY DEF RowsOutcome, buildRows, Results, Outcomes
<1>2. id \in Ids /\ idToSlot[id] \in LiveSlots
  BY DEF TypeOK, SlotsAgree
<1>3. slotToKey[idToSlot[id]] \in Keys
  BY <1>2 DEF SlotsAgree
<1>4. rowAt(idToSlot[id]) \in Row
  BY <1>2, RowAtType
<1> QED BY <1>2, <1>3, <1>4 DEF Entry, RowSet

\* The liveness test of stored() is redundant: a mapped id has a live slot.
LEMMA StoredIsMapped ==
  ASSUME SlotsAgree, TypeOK, NEW id
  PROVE  stored(id) <=> id \in DOMAIN idToSlot
  BY DEF stored, SlotsAgree, LiveSlots

-----------------------------------------------------------------------------
\* Length of a slice of n slots after slot is written.
grown(n, slot) == IF slot = n + 1 THEN slot ELSE n

\* What writeSlot does to cells, leftover and index: the written slot shows the
\* data, every other slot is as before.
LEMMA WriteSlotFacts ==
  ASSUME TypeOK, SlicesAligned, NEW data, Decodable(mode, data),
         NEW slot \in 1..(Len(live) + 1), writeSlot(slot, data)
  PROVE  /\ values' \in Seq([Columns -> Values])
         /\ Len(values') = grown(Len(live), slot)
         /\ values'[slot] = cellsOf(data)
         /\ \A s \in 1..Len(live) : s # slot => values'[s] = values[s]
         /\ leftover' \in Seq(Leftovers)
         /\ Len(leftover') = IF mode = "map" THEN grown(Len(live), slot) ELSE 0
         /\ index' \subseteq [col : External, slot : Nat \ {0}, value : Values]
         /\ \A s \in Nat \ {0}, c \in External, v \in Values :
               IndexEntry(c, s, v) \in index' <=>
                  IF s = slot THEN cellsOf(data)[c] = v ELSE IndexEntry(c, s, v) \in index
<1>1. cellsOf(data) \in [Columns -> Values] /\ leftoverOf(data) \in Leftovers
  BY DecodedRow
<1>2. Len(live) \in Nat /\ Len(values) = Len(live) /\ DOMAIN values = 1..Len(live)
  BY SlotFacts DEF SlicesAligned
<1>3. /\ values' \in Seq([Columns -> Values])
      /\ Len(values') = grown(Len(live), slot)
      /\ values'[slot] = cellsOf(data)
      /\ \A s \in 1..Len(live) : s # slot => values'[s] = values[s]
  <2>1. values \in Seq([Columns -> Values]) /\ slot \in 1..(Len(values) + 1)
    BY <1>2 DEF TypeOK
  <2>2. values' = SetAt(values, slot, cellsOf(data), ZeroCells)
    BY DEF writeSlot
  <2>3. /\ values' \in Seq([Columns -> Values])
        /\ Len(values') = IF slot = Len(values) + 1 THEN slot ELSE Len(values)
        /\ values'[slot] = cellsOf(data)
        /\ \A s \in DOMAIN values : s # slot => values'[s] = values[s]
    <3> DEFINE T == [Columns -> Values]
               f == SetAt(values, slot, cellsOf(data), ZeroCells)
    <3>1. values \in Seq(T) /\ cellsOf(data) \in T
      BY <1>1, <2>1
    <3>2. /\ f \in Seq(T)
          /\ Len(f) = IF slot = Len(values) + 1 THEN slot ELSE Len(values)
          /\ f[slot] = cellsOf(data)
          /\ \A s \in DOMAIN values : s # slot => f[s] = values[s]
      <4> HIDE DEF T
      <4> QED BY <2>1, <3>1, SetAtType
    <3> QED BY <2>2, <3>2
  <2> QED BY <1>2, <2>3 DEF grown
<1>4. /\ leftover' \in Seq(Leftovers)
      /\ Len(leftover') = IF mode = "map" THEN grown(Len(live), slot) ELSE 0
  <2>1. CASE mode = "map"
    <3>1. leftover \in Seq(Leftovers) /\ Len(leftover) = Len(live)
      BY <2>1 DEF TypeOK, SlicesAligned
    <3>2. leftover' = SetAt(leftover, slot, leftoverOf(data), NoFields)
      BY <2>1 DEF writeSlot
    <3> QED BY <1>1, <3>1, <3>2, <2>1, SetAtType DEF grown
  <2>2. CASE mode # "map"
    BY <2>2 DEF TypeOK, SlicesAligned, writeSlot
  <2> QED BY <2>1, <2>2
<1>5. slot \in Nat \ {0}
  BY <1>2
<1>6. External \subseteq Columns
  BY ColumnarAssumption
<1>7. index' = {e \in index : e.slot # slot}
                  \cup {IndexEntry(c, slot, cellsOf(data)[c]) : c \in External}
  BY DEF writeSlot, SetValue, ClearValue
<1>8. index' \subseteq [col : External, slot : Nat \ {0}, value : Values]
  BY <1>1, <1>5, <1>6, <1>7 DEF IndexEntry, TypeOK
<1>9. ASSUME NEW s \in Nat \ {0}, NEW c \in External, NEW v \in Values
      PROVE  IndexEntry(c, s, v) \in index' <=>
                IF s = slot THEN cellsOf(data)[c] = v ELSE IndexEntry(c, s, v) \in index
  BY <1>7 DEF IndexEntry
<1> QED BY <1>3, <1>4, <1>8, <1>9

\* What allocSlot does: the slot it reserves is live and belongs to id afterwards,
\* was no other id's slot before, and left the free list if it was on it.
LEMMA AllocSlotFacts ==
  ASSUME IInv, NEW id \in Ids, NEW slot \in 1..(Len(live) + 1), allocSlot(id, slot)
  PROVE  /\ live' \in Seq(BOOLEAN)
         /\ Len(live') = grown(Len(live), slot)
         /\ LiveSlots' = LiveSlots \cup {slot}
         /\ slotToID' \in Seq(Ids \cup {NoID})
         /\ Len(slotToID') = grown(Len(live), slot)
         /\ slotToID'[slot] = id
         /\ \A s \in 1..Len(live) : s # slot => slotToID'[s] = slotToID[s]
         /\ DOMAIN idToSlot' = DOMAIN idToSlot \cup {id}
         /\ idToSlot'[id] = slot
         /\ \A i \in DOMAIN idToSlot : i # id => idToSlot'[i] = idToSlot[i] /\ idToSlot[i] # slot
         /\ idToSlot' \in [DOMAIN idToSlot' -> Nat \ {0}]
         /\ freeList' \in Seq(Nat \ {0})
         /\ deadCount' \in Nat
         /\ FreeListExact'
         /\ DeadBounded'
<1> USE DEF IInv
<1> DEFINE n == Len(live)
<1>1. /\ n \in Nat /\ DOMAIN live = 1..n /\ Slots = 1..n
      /\ LiveSlots \subseteq 1..n
      /\ Len(slotToID) = n /\ slotToID \in Seq(Ids \cup {NoID})
      /\ live \in Seq(BOOLEAN)
      /\ freeList \in Seq(Nat \ {0}) /\ deadCount \in Nat
      /\ idToSlot \in [DOMAIN idToSlot -> Nat \ {0}]
      /\ slot \in Nat \ {0}
  BY SlotFacts DEF TypeOK, SlicesAligned, LiveSlots, Slots
<1>2. stored(id) <=> id \in DOMAIN idToSlot
  BY StoredIsMapped
<1>3. CASE reuseOwnSlot(id, slot)
  <2>1. id \in DOMAIN idToSlot /\ slot = idToSlot[id] /\ slot \in LiveSlots
    BY <1>2, <1>3 DEF reuseOwnSlot, SlotsAgree
  <2>2. UNCHANGED <<idToSlot, slotToID, live, freeList, deadCount>>
    BY <1>3 DEF reuseOwnSlot
  <2>3. grown(n, slot) = n
    BY <1>1, <2>1 DEF grown
  <2>4. LiveSlots' = LiveSlots \cup {slot} /\ Slots' = Slots
    BY <2>1, <2>2 DEF LiveSlots, Slots
  <2>5. FreeListExact' /\ DeadBounded'
    BY <2>2 DEF FreeListExact, DeadBounded, LiveSlots, Slots
  <2>6. slotToID[slot] = id /\ \A i \in DOMAIN idToSlot : i # id => idToSlot[i] # slot
    BY <2>1 DEF SlotsAgree
  <2> QED BY <1>1, <2>1, <2>2, <2>3, <2>4, <2>5, <2>6
<1>4. CASE popFreeSlot(id, slot)
  <2>1. id \notin DOMAIN idToSlot /\ freeList # <<>> /\ slot = freeList[Len(freeList)]
    BY <1>2, <1>4 DEF popFreeSlot
  <2>2. /\ freeList' \in Seq(Nat \ {0})
        /\ Len(freeList') = Len(freeList) - 1
        /\ IsInjective(freeList')
        /\ Range(freeList') = Range(freeList) \ {slot}
        /\ Len(freeList) \in DOMAIN freeList
    BY <1>1, <1>4, <2>1, PoppedFreeList DEF popFreeSlot, FreeListExact
  <2>3. slot \in Slots /\ slot \notin LiveSlots
    BY <2>1, <2>2 DEF FreeListExact, Range
  <2>4. grown(n, slot) = n /\ slot \in 1..n
    BY <1>1, <2>3 DEF grown
  <2>5. /\ live' \in Seq(BOOLEAN) /\ Len(live') = n
        /\ \A j \in 1..n : live'[j] = IF j = slot THEN TRUE ELSE live[j]
    BY <1>1, <1>4, <2>4, ExceptSeq DEF popFreeSlot
  <2>6. DOMAIN live' = 1..n
    BY <2>5, LenProperties
  <2>7. LiveSlots' = LiveSlots \cup {slot} /\ Slots' = Slots
    BY <1>1, <2>4, <2>5, <2>6 DEF LiveSlots, Slots
  <2>8. /\ slotToID' \in Seq(Ids \cup {NoID}) /\ Len(slotToID') = n
        /\ \A j \in 1..n : slotToID'[j] = IF j = slot THEN id ELSE slotToID[j]
    BY <1>1, <1>4, <2>4, ExceptSeq DEF popFreeSlot
  <2>9. /\ idToSlot' = Put(idToSlot, id, slot)
        /\ deadCount' = deadCount - 1
    BY <1>4 DEF popFreeSlot
  <2>10. /\ DOMAIN idToSlot' = DOMAIN idToSlot \cup {id}
         /\ idToSlot'[id] = slot
         /\ \A i \in DOMAIN idToSlot : i # id => idToSlot'[i] = idToSlot[i]
         /\ idToSlot' = [i \in DOMAIN idToSlot' |-> idToSlot'[i]]
    BY <2>9 DEF Put
  <2>11. \A i \in DOMAIN idToSlot : idToSlot[i] # slot
    BY <2>3 DEF SlotsAgree
  <2>12. idToSlot' \in [DOMAIN idToSlot' -> Nat \ {0}]
    BY <1>1, <2>10
  <2>13. Len(freeList) \in Nat /\ Len(freeList) = deadCount /\ deadCount # 0
    BY <1>1, <2>1, EmptySeq, LenProperties DEF FreeListExact
  <2>14. FreeListExact' /\ deadCount' \in Nat
    <3>1. Range(freeList)= Slots \ LiveSlots
      BY DEF FreeListExact
    <3>2. Range(freeList') = Slots' \ LiveSlots'
      BY <3>1, <2>2, <2>7
    <3> QED BY <3>2, <2>2, <2>9, <2>13 DEF FreeListExact
  <2>15. DeadBounded'
    <3>1. live # <<>>
      BY <1>1, <2>4
    <3>2. 2 * deadCount < n
      BY <3>1 DEF DeadBounded
    <3> QED BY <3>2, <1>1, <2>5, <2>9, <2>13 DEF DeadBounded
  <2> QED BY <2>2, <2>4, <2>5, <2>7, <2>8, <2>10, <2>11, <2>12, <2>14, <2>15
<1>5. CASE appendSlot(id, slot)
  <2>1. id \notin DOMAIN idToSlot /\ freeList = <<>> /\ slot = n + 1
    BY <1>2, <1>5 DEF appendSlot
  <2>2. grown(n, slot) = n + 1
    BY <2>1 DEF grown
  <2>3. /\ live' \in Seq(BOOLEAN) /\ Len(live') = n + 1
        /\ live'[n + 1] = TRUE
        /\ \A j \in 1..n : live'[j] = live[j]
    BY <1>1, <1>5, AppendProperties DEF appendSlot
  <2>4. DOMAIN live' = 1..(n + 1)
    BY <2>3, LenProperties
  <2>5. 1..(n + 1) = 1..n \cup {n + 1} /\ n + 1 \notin 1..n
    BY <1>1
  <2>6. LiveSlots' = LiveSlots \cup {slot} /\ Slots' = Slots \cup {slot}
    BY <1>1, <2>1, <2>3, <2>4, <2>5 DEF LiveSlots, Slots
  <2>7. /\ slotToID' \in Seq(Ids \cup {NoID}) /\ Len(slotToID') = n + 1
        /\ slotToID'[n + 1] = id
        /\ \A j \in 1..n : slotToID'[j] = slotToID[j]
    BY <1>1, <1>5, AppendProperties DEF appendSlot
  <2>8. idToSlot' = Put(idToSlot, id, slot) /\ UNCHANGED <<freeList, deadCount>>
    BY <1>5 DEF appendSlot
  <2>9. /\ DOMAIN idToSlot' = DOMAIN idToSlot \cup {id}
        /\ idToSlot'[id] = slot
        /\ \A i \in DOMAIN idToSlot : i # id => idToSlot'[i] = idToSlot[i]
        /\ idToSlot' = [i \in DOMAIN idToSlot' |-> idToSlot'[i]]
    BY <2>8 DEF Put
  <2>10. \A i \in DOMAIN idToSlot : idToSlot[i] # slot
    BY <1>1, <2>1, <2>5 DEF SlotsAgree
  <2>11. idToSlot' \in [DOMAIN idToSlot' -> Nat \ {0}]
    BY <1>1, <2>9
  <2>12. FreeListExact'
    <3>1. Slots' \ LiveSlots' = Slots \ LiveSlots
      BY <1>1, <2>1, <2>5, <2>6
    <3> QED BY <3>1, <2>8 DEF FreeListExact
  <2>13. DeadBounded'
    <3>1. deadCount = 0
      BY <2>1, EmptySeq DEF FreeListExact
    <3> QED BY <1>1, <3>1, <2>3, <2>8 DEF DeadBounded
  <2> QED BY <1>1, <2>1, <2>2, <2>3, <2>6, <2>7, <2>8, <2>9, <2>10, <2>11, <2>12, <2>13
<1> QED BY <1>3, <1>4, <1>5 DEF allocSlot

\* Insert and Set of an accepted record preserve the invariant, whether the slot
\* is the record's own, a reused one or a new one.
LEMMA StoreRowPreserves ==
  ASSUME IInv, NEW key \in Keys, NEW data, NEW overwrite, storeRow(key, data, overwrite)
  PROVE  IInv'
<1> DEFINE id == keyID[key]
           n == Len(live)
<1>1. id \in Ids
  BY ColumnarAssumption
<1>2. TypeOK /\ SlicesAligned /\ SlotsAgree /\ IndexMatchesCells
  BY DEF IInv
<1>3. mode' = mode /\ mode # "broken" /\ Decodable(mode, data) /\ result' = Outcome("ok")
  BY DEF storeRow
<1>4. PICK slot \in 1..(n + 1) :
         /\ allocSlot(id, slot)
         /\ slotToKey' = SetAt(slotToKey, slot, key, NoKey)
         /\ writeSlot(slot, data)
  BY DEF storeRow
<1>5. n \in Nat /\ slot \in Nat \ {0} /\ LiveSlots \subseteq 1..n
  BY <1>2, SlotFacts DEF LiveSlots, Slots
<1>6. /\ live' \in Seq(BOOLEAN)
      /\ Len(live') = grown(n, slot)
      /\ LiveSlots' = LiveSlots \cup {slot}
      /\ slotToID' \in Seq(Ids \cup {NoID})
      /\ Len(slotToID') = grown(n, slot)
      /\ slotToID'[slot] = id
      /\ \A s \in 1..n : s # slot => slotToID'[s] = slotToID[s]
      /\ DOMAIN idToSlot' = DOMAIN idToSlot \cup {id}
      /\ idToSlot'[id] = slot
      /\ \A i \in DOMAIN idToSlot : i # id => idToSlot'[i] = idToSlot[i] /\ idToSlot[i] # slot
      /\ idToSlot' \in [DOMAIN idToSlot' -> Nat \ {0}]
      /\ freeList' \in Seq(Nat \ {0})
      /\ deadCount' \in Nat
      /\ FreeListExact'
      /\ DeadBounded'
  BY <1>1, <1>4, AllocSlotFacts
<1>7. /\ values' \in Seq([Columns -> Values])
      /\ Len(values') = grown(n, slot)
      /\ values'[slot] = cellsOf(data)
      /\ \A s \in 1..n : s # slot => values'[s] = values[s]
      /\ leftover' \in Seq(Leftovers)
      /\ Len(leftover') = IF mode = "map" THEN grown(n, slot) ELSE 0
      /\ index' \subseteq [col : External, slot : Nat \ {0}, value : Values]
      /\ \A s \in Nat \ {0}, c \in External, v \in Values :
            IndexEntry(c, s, v) \in index' <=>
               IF s = slot THEN cellsOf(data)[c] = v ELSE IndexEntry(c, s, v) \in index
  BY <1>2, <1>3, <1>4, WriteSlotFacts
<1>8. /\ slotToKey' \in Seq(Keys \cup {NoKey})
      /\ Len(slotToKey') = grown(n, slot)
      /\ slotToKey'[slot] = key
      /\ \A s \in 1..n : s # slot => slotToKey'[s] = slotToKey[s]
  <2>1. slotToKey \in Seq(Keys \cup {NoKey}) /\ Len(slotToKey) = n /\ DOMAIN slotToKey = 1..n
    BY <1>2, SlotFacts DEF TypeOK, SlicesAligned
  <2>2. slot \in 1..(Len(slotToKey) + 1) /\ key \in Keys \cup {NoKey}
    BY <2>1
  <2>3. /\ slotToKey' \in Seq(Keys \cup {NoKey})
        /\ Len(slotToKey') = IF slot = Len(slotToKey) + 1 THEN slot ELSE Len(slotToKey)
        /\ slotToKey'[slot] = key
        /\ \A s \in DOMAIN slotToKey : s # slot => slotToKey'[s] = slotToKey[s]
    <3> DEFINE f == SetAt(slotToKey, slot, key, NoKey)
    <3>1. /\ f \in Seq(Keys \cup {NoKey})
          /\ Len(f) = IF slot = Len(slotToKey) + 1 THEN slot ELSE Len(slotToKey)
          /\ f[slot] = key
          /\ \A s \in DOMAIN slotToKey : s # slot => f[s] = slotToKey[s]
      BY <2>1, <2>2, SetAtType
    <3> QED BY <1>4, <3>1
  <2> QED BY <2>1, <2>3 DEF grown
<1>9. TypeOK'
  <2>1. result' \in Results
    BY <1>3, OutcomeType DEF Outcomes
  <2>2. DOMAIN idToSlot' \subseteq Ids
    BY <1>1, <1>2, <1>6 DEF TypeOK
  <2> QED BY <1>2, <1>3, <1>6, <1>7, <1>8, <2>1, <2>2 DEF TypeOK, Results, RowSet
<1>10. SlicesAligned'
  BY <1>3, <1>6, <1>7, <1>8 DEF SlicesAligned
<1>11. SlotsAgree'
  <2>1. ASSUME NEW i \in DOMAIN idToSlot'
        PROVE  idToSlot'[i] \in LiveSlots' /\ slotToID'[idToSlot'[i]] = i
    <3>1. CASE i = id
      BY <3>1, <1>6
    <3>2. CASE i # id
      <4>1. i \in DOMAIN idToSlot /\ idToSlot'[i] = idToSlot[i] /\ idToSlot[i] # slot
        BY <3>2, <1>6
      <4>2. idToSlot[i] \in LiveSlots /\ slotToID[idToSlot[i]] = i
        BY <4>1, <1>2 DEF SlotsAgree
      <4> QED BY <4>1, <4>2, <1>5, <1>6
    <3> QED BY <3>1, <3>2
  <2>2. ASSUME NEW s \in LiveSlots'
        PROVE  /\ slotToID'[s] \in DOMAIN idToSlot'
               /\ idToSlot'[slotToID'[s]] = s
               /\ slotToKey'[s] \in Keys
               /\ keyID[slotToKey'[s]] = slotToID'[s]
    <3>1. CASE s = slot
      BY <3>1, <1>6, <1>8
    <3>2. CASE s # slot
      <4>1. s \in LiveSlots /\ s \in 1..n
        BY <3>2, <1>5, <1>6
      <4>2. /\ slotToID[s] \in DOMAIN idToSlot
            /\ idToSlot[slotToID[s]] = s
            /\ slotToKey[s] \in Keys
            /\ keyID[slotToKey[s]] = slotToID[s]
        BY <4>1, <1>2 DEF SlotsAgree
      <4>3. slotToID'[s] = slotToID[s] /\ slotToKey'[s] = slotToKey[s]
        BY <3>2, <4>1, <1>6, <1>8
      <4>4. slotToID[s] # id
        <5>1. SUFFICES ASSUME slotToID[s] = id PROVE FALSE
          OBVIOUS
        <5>2. id \in DOMAIN idToSlot /\ idToSlot[id] = s /\ stored(id)
          BY <5>1, <4>2, <4>1, <1>2, StoredIsMapped
        <5>3. reuseOwnSlot(id, slot)
          BY <1>4, <5>2 DEF allocSlot, popFreeSlot, appendSlot
        <5> QED BY <5>2, <5>3, <3>2 DEF reuseOwnSlot
      <4> QED BY <4>2, <4>3, <4>4, <1>6
    <3> QED BY <3>1, <3>2
  <2> QED BY <2>1, <2>2 DEF SlotsAgree
<1>12. IndexMatchesCells'
  <2> SUFFICES ASSUME NEW s \in LiveSlots', NEW c \in External, NEW v \in Values
               PROVE  IndexEntry(c, s, v) \in index' <=> values'[s][c] = v
    BY DEF IndexMatchesCells
  <2>1. s \in Nat \ {0}
    BY <1>5, <1>6
  <2>2. CASE s = slot
    BY <2>1, <2>2, <1>7
  <2>3. CASE s # slot
    <3>1. s \in LiveSlots /\ s \in 1..n
      BY <2>3, <1>5, <1>6
    <3>2. IndexEntry(c, s, v) \in index <=> values[s][c] = v
      BY <3>1, <1>2 DEF IndexMatchesCells
    <3> QED BY <2>1, <2>3, <3>1, <3>2, <1>7
  <2> QED BY <2>2, <2>3
<1>13. BrokenIsEmpty'
  BY <1>3 DEF BrokenIsEmpty
<1> QED BY <1>6, <1>9, <1>10, <1>11, <1>12, <1>13 DEF IInv

\* Update preserves the invariant.
LEMMA UpdatePreserves ==
  ASSUME IInv, NEW id \in Ids, NEW updates, update(id, updates)
  PROVE  IInv'
<1> DEFINE n == Len(live)
           next == applyUpdatesToMap(rowData(rowAt(idToSlot[id])), updates)
           slot == idToSlot[id]
<1>1. CASE UNCHANGED slotVars /\ result' \in {Outcome("notFound"), Outcome("invalid")}
  <2>1. result' \in Results
    BY <1>1, OutcomeType DEF Outcomes
  <2> QED BY <1>1, <2>1, ReportPreserves
<1>2. CASE /\ stored(id) /\ Decodable(mode, next)
           /\ writeSlot(slot, next)
           /\ result' = Outcome("ok")
           /\ UNCHANGED <<mode, idToSlot, slotToID, slotToKey, live, freeList, deadCount>>
  <2>1. TypeOK /\ SlicesAligned /\ SlotsAgree /\ IndexMatchesCells
    BY DEF IInv
  <2>2. n \in Nat /\ LiveSlots \subseteq 1..n /\ slot \in LiveSlots
    BY <1>2, <2>1, SlotFacts, StoredIsMapped DEF LiveSlots, Slots, SlotsAgree
  <2>3. slot \in 1..(n + 1) /\ grown(n, slot) = n
    <3> HIDE DEF n, slot
    <3>1. slot \in 1..n
      BY <2>2
    <3> QED BY <2>2, <3>1 DEF grown
  <2>4. /\ values' \in Seq([Columns -> Values])
        /\ Len(values') = n
        /\ values'[slot] = cellsOf(next)
        /\ \A s \in 1..n : s # slot => values'[s] = values[s]
        /\ leftover' \in Seq(Leftovers)
        /\ Len(leftover') = IF mode = "map" THEN n ELSE 0
        /\ index' \subseteq [col : External, slot : Nat \ {0}, value : Values]
        /\ \A s \in Nat \ {0}, c \in External, v \in Values :
              IndexEntry(c, s, v) \in index' <=>
                 IF s = slot THEN cellsOf(next)[c] = v ELSE IndexEntry(c, s, v) \in index
    BY <1>2, <2>1, <2>3, WriteSlotFacts
  <2>5. TypeOK'
    <3>1. result' \in Results
      BY <1>2, OutcomeType DEF Outcomes
    <3> QED BY <1>2, <2>1, <2>4, <3>1 DEF TypeOK, Results, RowSet
  <2>6. SlicesAligned'
    BY <1>2, <2>1, <2>4 DEF SlicesAligned
  <2>7. SlotsAgree'
    BY <1>2, <2>1 DEF SlotsAgree, LiveSlots, Slots
  <2>8. FreeListExact' /\ DeadBounded' /\ BrokenIsEmpty'
    BY <1>2 DEF IInv, FreeListExact, DeadBounded, BrokenIsEmpty, LiveSlots, Slots
  <2>9. IndexMatchesCells'
    <3> SUFFICES ASSUME NEW s \in LiveSlots, NEW c \in External, NEW v \in Values
                 PROVE  IndexEntry(c, s, v) \in index' <=> values'[s][c] = v
      BY <1>2 DEF IndexMatchesCells, LiveSlots, Slots
    <3>1. s \in Nat \ {0} /\ s \in 1..n
      BY <2>2
    <3>2. IndexEntry(c, s, v) \in index <=> values[s][c] = v
      BY <2>1 DEF IndexMatchesCells
    <3> QED BY <3>1, <3>2, <2>4
  <2> QED BY <2>5, <2>6, <2>7, <2>8, <2>9 DEF IInv
<1> QED BY <1>1, <1>2 DEF update, Reports

\* A delete that leaves a tombstone preserves the invariant.
LEMMA DeleteTombstonePreserves ==
  ASSUME IInv, NEW id \in Ids, deleteTombstone(id)
  PROVE  IInv'
<1> DEFINE n == Len(live)
           slot == idToSlot[id]
<1>1. TypeOK /\ SlicesAligned /\ SlotsAgree /\ FreeListExact /\ IndexMatchesCells
  BY DEF IInv
<1>2. /\ mode' = mode /\ mode # "broken" /\ result' = Outcome("ok")
      /\ stored(id) /\ ~mustCompact /\ freeSlot(slot)
      /\ idToSlot' = Drop(idToSlot, id)
  BY DEF deleteTombstone
<1>3. n \in Nat /\ Slots = 1..n /\ LiveSlots \subseteq 1..n
  BY <1>1, SlotFacts DEF LiveSlots, Slots
<1>4. id \in DOMAIN idToSlot /\ slot \in LiveSlots /\ slotToID[slot] = id
  BY <1>1, <1>2, StoredIsMapped DEF SlotsAgree
<1> HIDE DEF slot
<1>5. slot \in 1..n /\ slot \in Nat \ {0}
  BY <1>3, <1>4
<1>6. /\ live' \in Seq(BOOLEAN) /\ Len(live') = n
      /\ \A j \in 1..n : live'[j] = IF j = slot THEN FALSE ELSE live[j]
  <2>1. live \in Seq(BOOLEAN) /\ live' = [live EXCEPT ![slot] = FALSE]
    BY <1>1, <1>2 DEF TypeOK, freeSlot
  <2>2. /\ live' \in Seq(BOOLEAN) /\ Len(live') = n
    BY <1>5, <2>1, FALSE \in BOOLEAN, ExceptSeq
  <2>3. DOMAIN live = 1..n
    BY <2>1, LenProperties
  <2> QED BY <2>1, <2>2, <2>3
<1>7. Slots' = Slots /\ LiveSlots' = LiveSlots \ {slot}
  <2>1. DOMAIN live' = 1..n
    BY <1>6, LenProperties
  <2> QED BY <1>3, <1>5, <1>6, <2>1 DEF LiveSlots, Slots
<1>8. /\ slotToID' \in Seq(Ids \cup {NoID}) /\ Len(slotToID') = n
      /\ \A j \in 1..n : j # slot => slotToID'[j] = slotToID[j]
  <2>1. /\ slotToID \in Seq(Ids \cup {NoID}) /\ Len(slotToID) = n
        /\ slotToID' = [slotToID EXCEPT ![slot] = NoID]
    BY <1>1, <1>2 DEF TypeOK, SlicesAligned, freeSlot
  <2> QED BY <1>5, <2>1, ExceptSeq
<1>9. /\ slotToKey' \in Seq(Keys \cup {NoKey}) /\ Len(slotToKey') = n
      /\ \A j \in 1..n : j # slot => slotToKey'[j] = slotToKey[j]
  <2>1. /\ slotToKey \in Seq(Keys \cup {NoKey}) /\ Len(slotToKey) = n
        /\ slotToKey' = [slotToKey EXCEPT ![slot] = NoKey]
    BY <1>1, <1>2 DEF TypeOK, SlicesAligned, freeSlot
  <2> QED BY <1>5, <2>1, ExceptSeq
<1>10. /\ values' \in Seq([Columns -> Values]) /\ Len(values') = n
       /\ \A j \in 1..n : j # slot => values'[j] = values[j]
  <2> DEFINE T == [Columns -> Values]
  <2>1. /\ values \in Seq(T) /\ Len(values) = n
        /\ values' = [values EXCEPT ![slot] = ZeroCells]
    BY <1>1, <1>2 DEF TypeOK, SlicesAligned, freeSlot
  <2>2. ZeroCells \in T
    BY DataAssumption DEF ZeroCells
  <2> HIDE DEF T
  <2>3. /\ values' \in Seq(T) /\ Len(values') = n
        /\ \A j \in 1..n : j # slot => values'[j] = values[j]
    BY <1>5, <2>1, <2>2, ExceptSeq
  <2> QED BY <2>3 DEF T
<1>11. leftover' \in Seq(Leftovers) /\ Len(leftover') = IF mode = "map" THEN n ELSE 0
  <2>0. NoFields \in Leftovers
    BY DEF NoFields, Leftovers, PartialFcn
  <2>1. leftover \in Seq(Leftovers) /\ NoFields \in Leftovers
    BY <1>1, <2>0 DEF TypeOK
  <2>2. CASE mode = "map"
    <3>1. Len(leftover) = n /\ leftover' = [leftover EXCEPT ![slot] = NoFields]
      BY <1>1, <1>2, <2>2 DEF SlicesAligned, freeSlot
    <3> QED BY <1>5, <2>1, <2>2, <3>1, ExceptSeq
  <2>3. CASE mode # "map"
    BY <1>1, <1>2, <2>1, <2>3 DEF SlicesAligned, freeSlot
  <2> QED BY <2>2, <2>3
<1>12. /\ DOMAIN idToSlot' = DOMAIN idToSlot \ {id}
       /\ \A i \in DOMAIN idToSlot' : idToSlot'[i] = idToSlot[i]
       /\ idToSlot' \in [DOMAIN idToSlot' -> Nat \ {0}]
  BY <1>1, <1>2 DEF TypeOK, Drop, Restrict
<1>13. slot \notin Range(freeList)
  BY <1>1, <1>4 DEF FreeListExact
<1>14. /\ freeList' \in Seq(Nat \ {0})
       /\ Len(freeList') = Len(freeList) + 1
       /\ IsInjective(freeList')
       /\ Range(freeList') = Range(freeList) \cup {slot}
  <2>1. freeList \in Seq(Nat \ {0}) /\ IsInjective(freeList) /\ freeList' = Append(freeList, slot)
    BY <1>1, <1>2 DEF TypeOK, FreeListExact, freeSlot
  <2> QED BY <1>5, <1>13, <2>1, PushedFreeList
<1>15. index' = {e \in index : e.slot # slot} /\ deadCount' = deadCount + 1 /\ deadCount \in Nat
  BY <1>1, <1>2 DEF freeSlot, ClearValue, TypeOK
<1>16. TypeOK'
  <2>1. result' \in Results
    BY <1>2, OutcomeType DEF Outcomes
  <2>2. DOMAIN idToSlot' \subseteq Ids /\ deadCount' \in Nat /\ mode' \in {"struct", "map", "broken"}
    BY <1>1, <1>2, <1>12, <1>15 DEF TypeOK
  <2>3. index' \subseteq [col : External, slot : Nat \ {0}, value : Values]
    BY <1>1, <1>15 DEF TypeOK
  <2> QED BY <1>6, <1>8, <1>9, <1>10, <1>11, <1>12, <1>14, <2>1, <2>2, <2>3
          DEF TypeOK, Results, RowSet
<1>17. SlicesAligned'
  BY <1>2, <1>6, <1>8, <1>9, <1>10, <1>11 DEF SlicesAligned
<1>18. SlotsAgree'
  <2>1. ASSUME NEW i \in DOMAIN idToSlot'
        PROVE  idToSlot'[i] \in LiveSlots' /\ slotToID'[idToSlot'[i]] = i
    <3>1. i \in DOMAIN idToSlot /\ i # id /\ idToSlot'[i] = idToSlot[i]
      BY <1>12
    <3>2. idToSlot[i] \in LiveSlots /\ slotToID[idToSlot[i]] = i
      BY <1>1, <3>1 DEF SlotsAgree
    <3>3. idToSlot[i] # slot
      BY <1>4, <3>1, <3>2
    <3> QED BY <1>3, <1>7, <1>8, <3>1, <3>2, <3>3
  <2>2. ASSUME NEW s \in LiveSlots'
        PROVE  /\ slotToID'[s] \in DOMAIN idToSlot'
               /\ idToSlot'[slotToID'[s]] = s
               /\ slotToKey'[s] \in Keys
               /\ keyID[slotToKey'[s]] = slotToID'[s]
    <3>1. s \in LiveSlots /\ s # slot /\ s \in 1..n
      BY <1>3, <1>7
    <3>2. slotToID'[s] = slotToID[s] /\ slotToKey'[s] = slotToKey[s]
      BY <1>8, <1>9, <3>1
    <3>3. /\ slotToID[s] \in DOMAIN idToSlot
          /\ idToSlot[slotToID[s]] = s
          /\ slotToKey[s] \in Keys
          /\ keyID[slotToKey[s]] = slotToID[s]
      BY <1>1, <3>1 DEF SlotsAgree
    <3>4. slotToID[s] # id
      BY <3>1, <3>3 DEF slot
    <3> QED BY <1>12, <3>2, <3>3, <3>4
  <2> QED BY <2>1, <2>2 DEF SlotsAgree
<1>19. FreeListExact'
  <2>1. Range(freeList') = Slots' \ LiveSlots'
    BY <1>1, <1>3, <1>5, <1>7, <1>14 DEF FreeListExact
  <2> QED BY <1>1, <1>14, <1>15, <2>1 DEF FreeListExact
<1>20. DeadBounded'
  BY <1>2, <1>3, <1>6, <1>15 DEF DeadBounded, mustCompact
<1>21. IndexMatchesCells'
  <2> SUFFICES ASSUME NEW s \in LiveSlots', NEW c \in External, NEW v \in Values
               PROVE  IndexEntry(c, s, v) \in index' <=> values'[s][c] = v
    BY DEF IndexMatchesCells
  <2>1. s \in LiveSlots /\ s # slot /\ s \in 1..n
    BY <1>3, <1>7
  <2>2. IndexEntry(c, s, v) \in index <=> values[s][c] = v
    BY <1>1, <2>1 DEF IndexMatchesCells
  <2>3. IndexEntry(c, s, v) \in index' <=> IndexEntry(c, s, v) \in index
    BY <1>15, <2>1 DEF IndexEntry
  <2> QED BY <1>10, <2>1, <2>2, <2>3
<1>22. BrokenIsEmpty'
  BY <1>2 DEF BrokenIsEmpty
<1> QED BY <1>16, <1>17, <1>18, <1>19, <1>20, <1>21, <1>22 DEF IInv

\* A delete that compacts preserves the invariant although it renumbers every slot,
\* empties the free list and only partly rebuilds the index.
LEMMA DeleteCompactPreserves ==
  ASSUME IInv, NEW id \in Ids, deleteCompact(id)
  PROVE  IInv'
<1> DEFINE L == LiveSlots \ {idToSlot[id]}
           n == Cardinality(L)
           idx == ClearValue(index, idToSlot[id])
<1>1. TypeOK /\ SlicesAligned /\ SlotsAgree
  BY DEF IInv
<1>2. /\ mode' = mode /\ mode # "broken" /\ result' = Outcome("ok")
      /\ compact(L, idx)
  BY DEF deleteCompact
<1>3. /\ L \subseteq 1..Len(live) /\ L \subseteq Nat /\ L \subseteq LiveSlots
      /\ IsFiniteSet(L)
  <2>1. LiveSlots \subseteq 1..Len(live) /\ IsFiniteSet(LiveSlots) /\ Len(live) \in Nat
    BY <1>1, SlotFacts DEF LiveSlots, Slots
  <2>2. L \subseteq LiveSlots
    OBVIOUS
  <2>3. IsFiniteSet(L)
    BY <2>1, <2>2, FS_Subset
  <2> HIDE DEF L
  <2> QED BY <2>1, <2>2, <2>3
<1>4. n \in Nat
  BY <1>3, FS_CardinalityType
<1> HIDE DEF L, n, idx
<1>5. /\ \A r \in 1..n : slotAtRank(r, L) \in L /\ rank(slotAtRank(r, L), L) = r
      /\ \A s \in L : slotAtRank(rank(s, L), L) = s
      /\ \A s \in L : rank(s, L) \in 1..n
  BY <1>3, SlotAtRankInverse, RankType DEF n
<1>6. /\ live' \in Seq(BOOLEAN) /\ Len(live') = n
      /\ Slots' = 1..n /\ LiveSlots' = 1..n
  <2>1. live' = [r \in 1..n |-> TRUE]
    BY <1>2 DEF compact, n
  <2>2. live' \in [1..n -> BOOLEAN]
    BY <2>1
  <2>3. live' \in Seq(BOOLEAN) /\ Len(live') = n /\ DOMAIN live' = 1..n
    BY <1>4, <2>2, FcnIsSeq
  <2> QED BY <2>1, <2>3 DEF Slots, LiveSlots
<1>7. /\ slotToID' \in Seq(Ids \cup {NoID}) /\ Len(slotToID') = n
      /\ \A r \in 1..n : slotToID'[r] = slotToID[slotAtRank(r, L)]
  <2>1. slotToID \in Seq(Ids \cup {NoID}) /\ L \subseteq DOMAIN slotToID
    BY <1>1, <1>3, SlotFacts DEF TypeOK
  <2>2. slotToID' = compacted(slotToID, L)
    BY <1>2 DEF compact
  <2> QED BY <1>3, <2>1, <2>2, CompactedSeq DEF n
<1>8. /\ slotToKey' \in Seq(Keys \cup {NoKey}) /\ Len(slotToKey') = n
      /\ \A r \in 1..n : slotToKey'[r] = slotToKey[slotAtRank(r, L)]
  <2>1. slotToKey \in Seq(Keys \cup {NoKey}) /\ L \subseteq DOMAIN slotToKey
    BY <1>1, <1>3, SlotFacts DEF TypeOK
  <2>2. slotToKey' = compacted(slotToKey, L)
    BY <1>2 DEF compact
  <2> QED BY <1>3, <2>1, <2>2, CompactedSeq DEF n
<1>9. values' \in Seq([Columns -> Values]) /\ Len(values') = n
  <2> DEFINE T == [Columns -> Values]
  <2>1. values \in Seq(T) /\ L \subseteq DOMAIN values
    BY <1>1, <1>3, SlotFacts DEF TypeOK
  <2>2. values' = compacted(values, L)
    BY <1>2 DEF compact
  <2> HIDE DEF T
  <2>3. values' \in Seq(T) /\ Len(values') = n
    BY <1>3, <2>1, <2>2, CompactedSeq DEF n
  <2> QED BY <2>3 DEF T
<1>10. leftover' \in Seq(Leftovers) /\ Len(leftover') = IF mode = "map" THEN n ELSE 0
  <2>1. CASE mode = "map"
    <3>1. leftover \in Seq(Leftovers) /\ L \subseteq DOMAIN leftover
      BY <1>1, <1>3, <2>1, SlotFacts DEF TypeOK
    <3>2. leftover' = compacted(leftover, L)
      BY <1>2, <2>1 DEF compact
    <3> QED BY <1>3, <2>1, <3>1, <3>2, CompactedSeq DEF n
  <2>2. CASE mode # "map"
    BY <1>2, <2>2, EmptySeq DEF compact
  <2> QED BY <2>1, <2>2
<1>11. /\ DOMAIN idToSlot' = {slotToID[s] : s \in L}
       /\ idToSlot' = [i \in DOMAIN idToSlot' |-> idToSlot'[i]]
       /\ \A s \in L : idToSlot'[slotToID[s]] = rank(s, L)
  <2>1. idToSlot' = [i \in {slotToID[s] : s \in L} |-> rank(idToSlot[i], L)]
    BY <1>2 DEF compact
  <2>2. \A s \in L : idToSlot[slotToID[s]] = s
    BY <1>1, <1>3 DEF SlotsAgree
  <2> QED BY <2>1, <2>2
<1>12. freeList' = <<>> /\ deadCount' = 0 /\ index' = rebuildStrategies(idx, values')
  BY <1>2 DEF compact
<1>13. DOMAIN values' = 1..n /\ \A r \in 1..n : values'[r] \in [Columns -> Values]
  BY <1>9, LenProperties, ElementOfSeq
<1>14. index' = {e \in idx : e.slot > n} \cup
                {IndexEntry(c, s, values'[s][c]) : c \in External, s \in 1..n}
  BY <1>9, <1>12, <1>13 DEF rebuildStrategies
<1>15. TypeOK'
  <2>1. result' \in Results
    BY <1>2, OutcomeType DEF Outcomes
  <2>2. idx \subseteq [col : External, slot : Nat \ {0}, value : Values]
    BY <1>1 DEF idx, ClearValue, TypeOK
  <2>3. External \subseteq Columns /\ \A s \in 1..n : s \in Nat \ {0}
    BY <1>4, ColumnarAssumption
  <2>4. index' \subseteq [col : External, slot : Nat \ {0}, value : Values]
    BY <1>13, <1>14, <2>2, <2>3 DEF IndexEntry
  <2>5. \A s \in L : slotToID[s] \in Ids
    BY <1>1, <1>3 DEF SlotsAgree, TypeOK
  <2>6. DOMAIN idToSlot' \subseteq Ids
    BY <1>11, <2>5
  <2>7. idToSlot' \in [DOMAIN idToSlot' -> Nat \ {0}]
    BY <1>5, <1>11, <2>3
  <2>8. freeList' \in Seq(Nat \ {0}) /\ deadCount' \in Nat
    BY <1>12, EmptySeq
  <2>9. mode' \in {"struct", "map", "broken"}
    BY <1>1, <1>2 DEF TypeOK
  <2> QED BY <1>6, <1>7, <1>8, <1>9, <1>10, <2>1, <2>4, <2>6, <2>7, <2>8, <2>9
          DEF TypeOK, Results, RowSet
<1>16. SlicesAligned'
  BY <1>2, <1>6, <1>7, <1>8, <1>9, <1>10 DEF SlicesAligned
<1>17. SlotsAgree'
  <2>1. ASSUME NEW i \in DOMAIN idToSlot'
        PROVE  idToSlot'[i] \in LiveSlots' /\ slotToID'[idToSlot'[i]] = i
    <3>1. PICK s \in L : i = slotToID[s]
      BY <1>11
    <3> QED BY <1>5, <1>6, <1>7, <1>11, <3>1
  <2>2. ASSUME NEW r \in LiveSlots'
        PROVE  /\ slotToID'[r] \in DOMAIN idToSlot'
               /\ idToSlot'[slotToID'[r]] = r
               /\ slotToKey'[r] \in Keys
               /\ keyID[slotToKey'[r]] = slotToID'[r]
    <3> DEFINE s == slotAtRank(r, L)
    <3>1. s \in L /\ rank(s, L) = r /\ slotToID'[r] = slotToID[s] /\ slotToKey'[r] = slotToKey[s]
      BY <1>5, <1>6, <1>7, <1>8
    <3> HIDE DEF s
    <3>2. slotToKey[s] \in Keys /\ keyID[slotToKey[s]] = slotToID[s]
      BY <1>1, <1>3, <3>1 DEF SlotsAgree
    <3> QED BY <1>11, <3>1, <3>2
  <2> QED BY <2>1, <2>2 DEF SlotsAgree
<1>18. FreeListExact'
  <2>1. Range(<<>>) = {} /\ IsInjective(<<>>) /\ Len(<<>>) = 0
    BY EmptySeq DEF Range, IsInjective
  <2> QED BY <1>6, <1>12, <2>1 DEF FreeListExact
<1>19. DeadBounded'
  <2>1. CASE n = 0
    BY <1>6, <2>1, EmptySeq DEF DeadBounded
  <2>2. CASE n # 0
    BY <1>4, <1>6, <1>12, <2>2 DEF DeadBounded
  <2> QED BY <2>1, <2>2
<1>20. IndexMatchesCells'
  <2> SUFFICES ASSUME NEW r \in 1..n, NEW c \in External, NEW v \in Values
               PROVE  IndexEntry(c, r, v) \in index' <=> values'[r][c] = v
    BY <1>6 DEF IndexMatchesCells
  <2>1. ~(r > n)
    BY <1>4
  <2>2. ASSUME values'[r][c] = v
        PROVE  IndexEntry(c, r, v) \in index'
    BY <1>14, <2>2
  <2>3. ASSUME IndexEntry(c, r, v) \in index'
        PROVE  values'[r][c] = v
    <3>1. IndexEntry(c, r, v) \notin {e \in idx : e.slot > n}
      BY <2>1 DEF IndexEntry
    <3>2. PICK d \in External, s \in 1..n : IndexEntry(c, r, v) = IndexEntry(d, s, values'[s][d])
      BY <1>14, <2>3, <3>1
    <3>3. c = d /\ r = s /\ v = values'[s][d]
      BY <3>2 DEF IndexEntry
    <3> QED BY <3>3
  <2> QED BY <2>2, <2>3
<1>21. BrokenIsEmpty'
  BY <1>2 DEF BrokenIsEmpty
<1> QED BY <1>15, <1>16, <1>17, <1>18, <1>19, <1>20, <1>21 DEF IInv

\* Reads and refused writes preserve the invariant.
LEMMA ReadsPreserve ==
  ASSUME IInv, Refuse \/ rows
                 \/ (\E id \in Ids : exists(id) \/ deleteAbsent(id))
                 \/ (\E key \in Keys : load(key))
                 \/ (\E key \in Keys, overwrite \in BOOLEAN : storeDuplicate(key, overwrite))
                 \/ (\E key \in Keys, data \in Payloads, overwrite \in BOOLEAN :
                       storeInvalid(key, data, overwrite))
                 \/ (\E col \in Columns, value \in Values, sameType \in SameType :
                       selectRows(col, value, sameType))
  PROVE  IInv'
<1>1. TypeOK /\ SlicesAligned /\ SlotsAgree
  BY DEF IInv
<1>2. \A o \in Outcomes : Outcome(o) \in Results
  BY OutcomeType
<1>3. CASE Refuse
  BY <1>2, <1>3, ReportPreserves DEF Refuse, Reports, Outcomes
<1>4. CASE rows
  BY <1>1, <1>4, BuildRowsType, ReportPreserves DEF rows, Reports
<1>5. CASE \E id \in Ids : exists(id) \/ deleteAbsent(id)
  <2>1. UNCHANGED slotVars /\ \E o \in Outcomes : result' = Outcome(o)
    BY <1>5 DEF exists, deleteAbsent, Reports, Outcomes
  <2> QED BY <1>2, <2>1, ReportPreserves
<1>6. CASE \E key \in Keys : load(key)
  <2>1. PICK key \in Keys : load(key)
    BY <1>6
  <2> DEFINE id == keyID[key]
  <2>2. id \in Ids
    BY ColumnarAssumption
  <2>3. CASE stored(id)
    <3>1. idToSlot[id] \in LiveSlots
      BY <1>1, <2>3, StoredIsMapped DEF SlotsAgree
    <3>2. rowAt(idToSlot[id]) \in Row
      BY <1>1, <3>1, RowAtType
    <3>3. Entry(id, key, rowAt(idToSlot[id])) \in RowSet
      BY <2>2, <3>2 DEF Entry, RowSet
    <3>4. UNCHANGED slotVars /\ result' = RowsOutcome({Entry(id, key, rowAt(idToSlot[id]))})
      BY <2>1, <2>3 DEF load, Reports
    <3>5. result' \in Results
      BY <3>3, <3>4 DEF RowsOutcome, Results, Outcomes
    <3> QED BY <3>4, <3>5, ReportPreserves
  <2>4. CASE ~stored(id)
    BY <1>2, <2>1, <2>4, ReportPreserves DEF load, Reports, Outcomes
  <2> QED BY <2>3, <2>4
<1>7. CASE \E key \in Keys, overwrite \in BOOLEAN : storeDuplicate(key, overwrite)
  BY <1>2, <1>7, ReportPreserves DEF storeDuplicate, Reports, Outcomes
<1>8. CASE \E key \in Keys, data \in Payloads, overwrite \in BOOLEAN :
             storeInvalid(key, data, overwrite)
  BY <1>2, <1>8, ReportPreserves DEF storeInvalid, Reports, Outcomes
<1>9. CASE \E col \in Columns, value \in Values, sameType \in SameType :
             selectRows(col, value, sameType)
  <2>1. PICK col \in Columns, value \in Values, sameType \in SameType :
           selectRows(col, value, sameType)
    BY <1>9
  <2>2. scannedIds(col, value) \subseteq DOMAIN idToSlot
    BY DEF scannedIds
  <2>3. PICK S \in SUBSET DOMAIN idToSlot : Reports(RowsOutcome(buildRows(S)))
    BY <2>1, <2>2 DEF selectRows
  <2> QED BY <1>1, <2>3, BuildRowsType, ReportPreserves DEF Reports
<1> QED BY <1>3, <1>4, <1>5, <1>6, <1>7, <1>8, <1>9

\* A new engine satisfies the invariant.
LEMMA InitIInv ==
  Init => IInv
<1> SUFFICES ASSUME Init PROVE IInv
  OBVIOUS
<1>1. LiveSlots = {} /\ Slots = {}
  BY DEF Init, LiveSlots, Slots
<1>2. Len(<<>>) = 0 /\ Range(<<>>) = {} /\ IsInjective(<<>>)
  BY EmptySeq DEF Range, IsInjective
<1>3. TypeOK
  <2>1. result \in Results
    BY OutcomeType DEF Init, Outcomes
  <2>2. /\ slotToID \in Seq(Ids \cup {NoID}) /\ slotToKey \in Seq(Keys \cup {NoKey})
        /\ live \in Seq(BOOLEAN) /\ freeList \in Seq(Nat \ {0})
        /\ values \in Seq([Columns -> Values]) /\ leftover \in Seq(Leftovers)
    BY EmptySeq DEF Init
  <2> QED BY <2>1, <2>2 DEF Init, TypeOK, Results, RowSet
<1>4. SlicesAligned
  BY <1>2 DEF Init, SlicesAligned
<1>5. SlotsAgree
  BY <1>1 DEF Init, SlotsAgree
<1>6. FreeListExact
  BY <1>1, <1>2 DEF Init, FreeListExact
<1>7. DeadBounded
  BY DEF Init, DeadBounded
<1>8. IndexMatchesCells
  BY <1>1 DEF IndexMatchesCells
<1>9. BrokenIsEmpty
  BY DEF Init, BrokenIsEmpty
<1> QED BY <1>3, <1>4, <1>5, <1>6, <1>7, <1>8, <1>9 DEF IInv

\* Every call of the engine preserves the invariant.
LEMMA NextIInv ==
  IInv /\ [Next]_vars => IInv'
<1> SUFFICES ASSUME IInv, [Next]_vars PROVE IInv'
  OBVIOUS
<1>1. CASE UNCHANGED vars
  <2>1. UNCHANGED slotVars /\ result' = result
    BY <1>1 DEF vars, slotVars
  <2>2. result' \in Results
    BY <2>1 DEF IInv, TypeOK, Results, RowSet
  <2> QED BY <2>1, <2>2, ReportPreserves
<1>2. CASE \E id \in Ids : deleteTombstone(id)
  BY <1>2, DeleteTombstonePreserves
<1>3. CASE \E id \in Ids : deleteCompact(id)
  BY <1>3, DeleteCompactPreserves
<1>4. CASE \E id \in Ids, updates \in UpdateLists : update(id, updates)
  BY <1>4, UpdatePreserves
<1>5. CASE \E key \in Keys, data \in Payloads, overwrite \in BOOLEAN :
             storeRow(key, data, overwrite)
  BY <1>5, StoreRowPreserves
<1>6. CASE Refuse \/ rows
             \/ (\E id \in Ids : exists(id) \/ deleteAbsent(id))
             \/ (\E key \in Keys : load(key))
             \/ (\E key \in Keys, overwrite \in BOOLEAN : storeDuplicate(key, overwrite))
             \/ (\E key \in Keys, data \in Payloads, overwrite \in BOOLEAN :
                   storeInvalid(key, data, overwrite))
             \/ (\E col \in Columns, value \in Values, sameType \in SameType :
                   selectRows(col, value, sameType))
  BY <1>6, ReadsPreserve
<1> QED BY <1>1, <1>2, <1>3, <1>4, <1>5, <1>6 DEF Next

\* The inductive invariant holds in every reachable state of the columnar engine,
\* for every set of ids, keys, columns and values.
THEOREM Invariance == Spec => []IInv
  BY InitIInv, NextIInv, PTL DEF Spec

\* The engine's state is always well typed: no call panics on a slot out of range
\* or leaves a negative deadCount.
THEOREM TypeCorrect == Spec => []TypeOK
<1>1. IInv => TypeOK
  BY DEF IInv
<1> QED BY <1>1, Invariance, PTL

\* Parallel slices never go out of step, and idToSlot and slotToID stay inverse
\* across overwrites, slot reuse and compaction (columnar.go).
THEOREM SlotsAlwaysAgree == Spec => [](SlicesAligned /\ SlotsAgree)
<1>1. IInv => SlicesAligned /\ SlotsAgree
  BY DEF IInv
<1> QED BY <1>1, Invariance, PTL

\* allocSlot never hands out a slot in use: the free list is always exactly the
\* dead slots, and maybeCompact keeps them below half.
THEOREM FreeListAlwaysExact == Spec => [](FreeListExact /\ DeadBounded)
<1>1. IInv => FreeListExact /\ DeadBounded
  BY DEF IInv
<1> QED BY <1>1, Invariance, PTL

\* The external strategies always agree with the cells of the live slots: SetValue
\* and ClearValue are called often enough.
THEOREM IndexAlwaysMatches == Spec => []IndexMatchesCells
<1>1. IInv => IndexMatchesCells
  BY DEF IInv
<1> QED BY <1>1, Invariance, PTL

\* Under the invariant, a strategy asked with a constant of the column's Go type
\* misses no row that a full scan finds.
LEMMA CandidatesFound ==
  ASSUME IInv, NEW c \in External \cup Scanned, NEW v \in Values
  PROVE  candidateIds(c, v, TRUE) \cap scannedIds(c, v) = scannedIds(c, v)
<1> SUFFICES ASSUME NEW id \in scannedIds(c, v)
             PROVE  id \in candidateIds(c, v, TRUE)
  OBVIOUS
<1> DEFINE s == idToSlot[id]
<1>1. id \in DOMAIN idToSlot /\ values[s][c] = v
  BY DEF scannedIds
<1>2. s \in LiveSlots /\ slotToID[s] = id
  BY <1>1 DEF IInv, SlotsAgree
<1> HIDE DEF s
<1>3. s \in EqualSlots(c, v, TRUE)
  <2>1. CASE c \in External
    <3>1. IndexEntry(c, s, v) \in index
      BY <1>1, <1>2, <2>1 DEF IInv, IndexMatchesCells
    <3>2. IndexEntry(c, s, v).col = c /\ IndexEntry(c, s, v).slot = s
            /\ IndexEntry(c, s, v).value = v
      BY DEF IndexEntry
    <3> QED BY <2>1, <3>1, <3>2 DEF EqualSlots
  <2>2. CASE c \notin External
    BY <1>1, <1>2, <2>2 DEF EqualSlots
  <2> QED BY <2>1, <2>2
<1> QED BY <1>2, <1>3 DEF candidateIds

\* When every query constant has its column's type, the accelerated query is the scan.
LEMMA CandidatesCoverScan ==
  ASSUME IInv, SameType = {TRUE}
  PROVE  CandidatesMatchScan
  BY CandidatesFound DEF CandidatesMatchScan

\* An accelerated equality query (candidateRows, then matchesWhere) selects exactly
\* what a full scan selects, provided that the constant has the column's Go type;
\* without it the strategy finds nothing while the scan may.
THEOREM AcceleratedEqualsScan ==
  ASSUME SameType = {TRUE}
  PROVE  Spec => []CandidatesMatchScan
<1>1. IInv => CandidatesMatchScan
  BY CandidatesCoverScan
<1> QED BY <1>1, Invariance, PTL

\* Compaction moves no slot up.
LEMMA RankBelow ==
  ASSUME NEW L, IsFiniteSet(L), L \subseteq Nat \ {0}, NEW s \in L
  PROVE  rank(s, L) <= s
<1> DEFINE R == {t \in L : t <= s}
<1>1. s \in Nat /\ \A t \in L : t \in Nat /\ t >= 1
  OBVIOUS
<1>2. R \subseteq 1..s
  <2>1. \A t \in L : t <= s => t \in 1..s
    BY <1>1
  <2> QED BY <2>1
<1>3. IsFiniteSet(1..s) /\ Cardinality(1..s) = s
  <2>1. IsFiniteSet(1..s) /\ Cardinality(1..s) = IF 1 > s THEN 0 ELSE s - 1 + 1
    BY <1>1, FS_Interval
  <2> QED BY <1>1, <2>1
<1>4. Cardinality(R) <= Cardinality(1..s)
  BY <1>2, <1>3, FS_Subset
<1> QED BY <1>3, <1>4 DEF rank

\* A step that moves no record satisfies SlotMovesOnlyDown.
LEMMA UnmovedIsStable ==
  ASSUME TypeOK, \A a \in DOMAIN idToSlot \cap DOMAIN idToSlot' : idToSlot'[a] = idToSlot[a]
  PROVE  SlotMovesOnlyDown
<1>1. \A a \in DOMAIN idToSlot : idToSlot[a] \in Nat
  BY DEF TypeOK
<1> QED BY <1>1 DEF SlotMovesOnlyDown

\* A compacting delete moves records down, in order, and shortens the slices.
LEMMA CompactMovesDown ==
  ASSUME IInv, NEW id \in Ids, deleteCompact(id)
  PROVE  SlotMovesOnlyDown
<1> DEFINE slot == idToSlot[id]
           L == LiveSlots \ {slot}
           n == Len(live)
<1>1. TypeOK /\ SlicesAligned /\ SlotsAgree
  BY DEF IInv
<1>2. stored(id) /\ compact(L, ClearValue(index, slot))
  BY DEF deleteCompact
<1>3. n \in Nat /\ LiveSlots \subseteq 1..n /\ IsFiniteSet(LiveSlots) /\ slot \in LiveSlots
  BY <1>1, <1>2, SlotFacts, StoredIsMapped DEF LiveSlots, Slots, SlotsAgree
<1>4. L \subseteq LiveSlots /\ slot \notin L
  OBVIOUS
<1> HIDE DEF L, slot, n
<1>5. L \subseteq 1..n /\ L \subseteq Nat \ {0} /\ slot \in 1..n
  BY <1>3, <1>4
<1>6. IsFiniteSet(L)
  BY <1>3, <1>4, FS_Subset
<1>7. Len(live') < n
  <2>1. IsFiniteSet(1..n) /\ Cardinality(1..n) = IF 1 > n THEN 0 ELSE n - 1 + 1
    BY <1>3, FS_Interval
  <2>2. Cardinality(1..n) = n
    BY <1>3, <2>1
  <2>3. Cardinality(L) <= n /\ (n = Cardinality(L) => 1..n = L)
    <3> DEFINE I == 1..n
    <3>1. IsFiniteSet(I) /\ Cardinality(I) = n /\ L \subseteq I
      BY <1>5, <2>1, <2>2
    <3> HIDE DEF I
    <3>2. Cardinality(L) <= Cardinality(I) /\ (Cardinality(I) = Cardinality(L) => I = L)
      BY <3>1, FS_Subset
    <3> QED BY <3>1, <3>2 DEF I
  <2>4. Cardinality(L) \in Nat /\ Cardinality(L) # n
    BY <1>4, <1>5, <1>6, <2>3, FS_CardinalityType
  <2>5. live' \in [1..Cardinality(L) -> BOOLEAN]
    BY <1>2 DEF compact
  <2>6. Len(live') = Cardinality(L)
    BY <2>4, <2>5, FcnIsSeq
  <2> QED BY <1>3, <2>3, <2>4, <2>6
<1>8. ASSUME NEW a \in DOMAIN idToSlot \cap DOMAIN idToSlot'
      PROVE  idToSlot[a] \in L /\ idToSlot'[a] = rank(idToSlot[a], L)
  <2>1. idToSlot' = [i \in {slotToID[s] : s \in L} |-> rank(idToSlot[i], L)]
    BY <1>2 DEF compact
  <2>2. PICK s \in L : a = slotToID[s]
    BY <2>1
  <2>3. idToSlot[a] = s
    BY <1>1, <1>4, <2>2 DEF SlotsAgree
  <2> QED BY <2>1, <2>3
<1>9. \A s \in L : rank(s, L) <= s
  BY <1>5, <1>6, RankBelow
<1>10. \A s, t \in L : s < t => rank(s, L) < rank(t, L)
  BY <1>5, <1>6, RankMonotone
<1> QED BY <1>7, <1>8, <1>9, <1>10 DEF SlotMovesOnlyDown, n

\* A record keeps its slot except that compaction moves it down in order: what was
\* read of a slot number stays valid until a compacting delete (columnar.go).
THEOREM RecordsKeepTheirSlots == Spec => SlotsStable
<1>1. ASSUME IInv, [Next]_vars
      PROVE  SlotMovesOnlyDown \/ UNCHANGED vars
  <2>1. TypeOK
    BY <1>1 DEF IInv
  <2>2. CASE UNCHANGED idToSlot
    BY <2>1, <2>2, UnmovedIsStable
  <2>3. CASE \E id \in Ids : deleteTombstone(id)
    BY <2>1, <2>3, UnmovedIsStable DEF deleteTombstone, Drop, Restrict
  <2>4. CASE \E id \in Ids : deleteCompact(id)
    BY <1>1, <2>4, CompactMovesDown
  <2>5. CASE \E key \in Keys, data \in Payloads, overwrite \in BOOLEAN :
               storeRow(key, data, overwrite)
    <3>1. PICK key \in Keys, slot \in 1..(Len(live) + 1) : allocSlot(keyID[key], slot)
      BY <2>5 DEF storeRow
    <3>2. CASE popFreeSlot(keyID[key], slot) \/ appendSlot(keyID[key], slot)
      <4>1. ~stored(keyID[key]) /\ idToSlot' = Put(idToSlot, keyID[key], slot)
        BY <3>2 DEF popFreeSlot, appendSlot
      <4>2. keyID[key] \notin DOMAIN idToSlot
        BY <1>1, <4>1, StoredIsMapped DEF IInv
      <4> QED BY <2>1, <4>1, <4>2, UnmovedIsStable DEF Put
    <3>3. CASE reuseOwnSlot(keyID[key], slot)
      BY <2>2, <3>3 DEF reuseOwnSlot
    <3> QED BY <3>1, <3>2, <3>3 DEF allocSlot
  <2> QED BY <1>1, <2>2, <2>3, <2>4, <2>5
          DEF Next, vars, slotVars, Refuse, rows, exists, deleteAbsent, load, update,
              storeDuplicate, storeInvalid, selectRows, Reports
<1> QED BY <1>1, Invariance, PTL DEF Spec, SlotsStable
-----------------------------------------------------------------------------
(***************************************************************************)
(* The refinement: seen through idToSlot, the slices are the map of the    *)
(* storageEngine contract.  Every lemma below says of one call what it     *)
(* does to that map.                                                       *)
(***************************************************************************)
\* The row that slices vs and ls show at slot s in mode m.
RowIn(m, vs, ls, s) == [cells |-> vs[s], left |-> IF m = "map" THEN ls[s] ELSE NoFields]

\* The map that the slices stand for, in this and in the next state.
LEMMA MapSeen ==
  /\ storedRecords = [i \in DOMAIN idToSlot |-> RowIn(mode, values, leftover, idToSlot[i])]
  /\ storedRecords' = [i \in DOMAIN idToSlot' |-> RowIn(mode', values', leftover', idToSlot'[i])]
  /\ storedKeys = [i \in DOMAIN idToSlot |-> slotToKey[idToSlot[i]]]
  /\ storedKeys' = [i \in DOMAIN idToSlot' |-> slotToKey'[idToSlot'[i]]]
  /\ \A s : rowAt(s) = RowIn(mode, values, leftover, s)
  BY DEF storedRecords, storedKeys, rowAt, leftoverAt, RowIn

\* A call that leaves the slices alone leaves the map alone.
LEMMA ReportSeen ==
  ASSUME UNCHANGED slotVars
  PROVE  UNCHANGED <<mode, storedRecords, storedKeys>>
  BY MapSeen DEF slotVars

\* What writeSlot shows at the slot it writes, and elsewhere.
LEMMA WriteSlotSeen ==
  ASSUME TypeOK, SlicesAligned, NEW data, Decodable(mode, data),
         mode' = mode, mode # "broken", NEW slot \in 1..(Len(live) + 1), writeSlot(slot, data)
  PROVE  /\ RowIn(mode', values', leftover', slot) = rowOf(data)
         /\ \A s \in 1..Len(live) : s # slot =>
               RowIn(mode', values', leftover', s) = RowIn(mode, values, leftover, s)
<1>1. /\ values'[slot] = cellsOf(data)
      /\ \A s \in 1..Len(live) : s # slot => values'[s] = values[s]
  BY WriteSlotFacts
<1>2. CASE mode = "map"
  <2>1. leftoverOf(data) \in Leftovers
    BY DecodedRow
  <2>2. /\ leftover \in Seq(Leftovers) /\ Len(leftover) = Len(live)
        /\ DOMAIN leftover = 1..Len(live)
    BY <1>2, SlotFacts DEF TypeOK, SlicesAligned
  <2>3. leftover' = SetAt(leftover, slot, leftoverOf(data), NoFields)
    BY <1>2 DEF writeSlot
  <2>4. slot \in 1..(Len(leftover) + 1)
    BY <2>2
  <2> DEFINE f == SetAt(leftover, slot, leftoverOf(data), NoFields)
  <2>5. f[slot] = leftoverOf(data) /\ \A s \in DOMAIN leftover : s # slot => f[s] = leftover[s]
    BY <2>1, <2>2, <2>4, SetAtType
  <2> HIDE DEF f
  <2>6. leftover' = f
    BY <2>3 DEF f
  <2> QED BY <1>1, <1>2, <2>2, <2>5, <2>6 DEF RowIn, rowOf
<1>3. CASE mode # "map"
  <2>1. DOMAIN data \ Columns = {}
    BY <1>3 DEF Decodable, TypeOK
  <2>2. leftoverOf(data) = NoFields
    BY <2>1 DEF leftoverOf, Restrict, NoFields
  <2> QED BY <1>1, <1>3, <2>2 DEF RowIn, rowOf
<1> QED BY <1>2, <1>3

\* Insert and Set: the map holds the written row and key under the key's id, and
\* the rest as before, whichever slot was reserved.
LEMMA StoreSeen ==
  ASSUME IInv, NEW key \in Keys, NEW data, NEW overwrite, storeRow(key, data, overwrite)
  PROVE  /\ storedRecords' = Put(storedRecords, keyID[key], rowOf(data))
         /\ storedKeys' = Put(storedKeys, keyID[key], key)
<1> DEFINE id == keyID[key]
           n == Len(live)
<1>1. id \in Ids /\ TypeOK /\ SlicesAligned /\ SlotsAgree
  BY ColumnarAssumption DEF IInv
<1>2. mode' = mode /\ mode # "broken" /\ Decodable(mode, data)
  BY DEF storeRow
<1>3. PICK slot \in 1..(n + 1) :
         /\ allocSlot(id, slot)
         /\ slotToKey' = SetAt(slotToKey, slot, key, NoKey)
         /\ writeSlot(slot, data)
  BY DEF storeRow
<1>4. /\ DOMAIN idToSlot' = DOMAIN idToSlot \cup {id}
      /\ idToSlot'[id] = slot
      /\ \A i \in DOMAIN idToSlot : i # id => idToSlot'[i] = idToSlot[i] /\ idToSlot[i] # slot
  BY <1>1, <1>3, AllocSlotFacts
<1>5. /\ RowIn(mode', values', leftover', slot) = rowOf(data)
      /\ \A s \in 1..n : s # slot =>
            RowIn(mode', values', leftover', s) = RowIn(mode, values, leftover, s)
  BY <1>1, <1>2, <1>3, WriteSlotSeen
<1>6. slotToKey'[slot] = key /\ \A s \in 1..n : s # slot => slotToKey'[s] = slotToKey[s]
  <2>1. slotToKey \in Seq(Keys \cup {NoKey}) /\ Len(slotToKey) = n /\ DOMAIN slotToKey = 1..n
    BY <1>1, SlotFacts DEF TypeOK, SlicesAligned
  <2>2. slot \in 1..(Len(slotToKey) + 1) /\ key \in Keys \cup {NoKey}
    BY <2>1
  <2> DEFINE f == SetAt(slotToKey, slot, key, NoKey)
  <2>3. f[slot] = key /\ \A s \in DOMAIN slotToKey : s # slot => f[s] = slotToKey[s]
    BY <2>1, <2>2, SetAtType
  <2> HIDE DEF f
  <2>4. slotToKey' = f
    BY <1>3 DEF f
  <2> QED BY <2>1, <2>3, <2>4
<1>7. \A i \in DOMAIN idToSlot : idToSlot[i] \in 1..n
  BY <1>1, SlotFacts DEF SlotsAgree, LiveSlots, Slots
<1> HIDE DEF id, n
<1>8. storedRecords' = Put(storedRecords, id, rowOf(data))
  <2>1. ASSUME NEW i \in DOMAIN idToSlot'
        PROVE  RowIn(mode', values', leftover', idToSlot'[i]) =
                  IF i = id THEN rowOf(data) ELSE storedRecords[i]
    <3>1. CASE i = id
      BY <3>1, <1>4, <1>5
    <3>2. CASE i # id
      <4>1. i \in DOMAIN idToSlot /\ idToSlot'[i] = idToSlot[i] /\ idToSlot[i] # slot
        BY <3>2, <1>4
      <4>2. storedRecords[i] = RowIn(mode, values, leftover, idToSlot[i])
        BY <4>1, MapSeen
      <4> QED BY <3>2, <4>1, <4>2, <1>5, <1>7
    <3> QED BY <3>1, <3>2
  <2>2. DOMAIN storedRecords = DOMAIN idToSlot
    BY MapSeen
  <2> QED BY <1>4, <2>1, <2>2, MapSeen DEF Put
<1>9. storedKeys' = Put(storedKeys, id, key)
  <2>1. ASSUME NEW i \in DOMAIN idToSlot'
        PROVE  slotToKey'[idToSlot'[i]] = IF i = id THEN key ELSE storedKeys[i]
    BY <1>4, <1>6, <1>7, MapSeen
  <2>2. DOMAIN storedKeys = DOMAIN idToSlot
    BY MapSeen
  <2> QED BY <1>4, <2>1, <2>2, MapSeen DEF Put
<1> QED BY <1>8, <1>9 DEF id

\* Update that is accepted: the map holds the updated row under the same key.
LEMMA UpdateSeen ==
  ASSUME IInv, NEW id \in DOMAIN idToSlot, NEW data, Decodable(mode, data), mode # "broken",
         writeSlot(idToSlot[id], data),
         UNCHANGED <<mode, idToSlot, slotToID, slotToKey, live, freeList, deadCount>>
  PROVE  storedRecords' = Put(storedRecords, id, rowOf(data)) /\ storedKeys' = storedKeys
<1> DEFINE n == Len(live)
           slot == idToSlot[id]
<1>1. TypeOK /\ SlicesAligned /\ SlotsAgree
  BY DEF IInv
<1>2. \A i \in DOMAIN idToSlot : idToSlot[i] \in 1..n /\ (i # id => idToSlot[i] # slot)
  BY <1>1, SlotFacts DEF SlotsAgree, LiveSlots, Slots
<1>3. n \in Nat /\ slot \in 1..(n + 1)
  <2>1. n \in Nat /\ slot \in 1..n
    BY <1>1, <1>2, SlotFacts
  <2> HIDE DEF n, slot
  <2> QED BY <2>1
<1>4. /\ RowIn(mode', values', leftover', slot) = rowOf(data)
      /\ \A s \in 1..n : s # slot =>
            RowIn(mode', values', leftover', s) = RowIn(mode, values, leftover, s)
  BY <1>1, <1>3, WriteSlotSeen
<1> HIDE DEF n
<1>5. DOMAIN storedRecords = DOMAIN idToSlot /\ DOMAIN idToSlot = DOMAIN idToSlot \cup {id}
  BY MapSeen
<1>6. \A i \in DOMAIN idToSlot :
         RowIn(mode', values', leftover', idToSlot[i]) = IF i = id THEN rowOf(data) ELSE storedRecords[i]
  BY <1>2, <1>4, MapSeen
<1>7. storedRecords' = Put(storedRecords, id, rowOf(data))
  BY <1>5, <1>6, MapSeen DEF Put
<1> QED BY <1>7, MapSeen

\* delete with a tombstone: the slots of the other records are not touched.
LEMMA TombstoneSeen ==
  ASSUME IInv, NEW id \in Ids, deleteTombstone(id)
  PROVE  storedRecords' = Drop(storedRecords, id) /\ storedKeys' = Drop(storedKeys, id)
<1> DEFINE n == Len(live)
           slot == idToSlot[id]
<1>1. TypeOK /\ SlicesAligned /\ SlotsAgree
  BY DEF IInv
<1>2. id \in DOMAIN idToSlot /\ mode' = mode /\ idToSlot' = Drop(idToSlot, id) /\ freeSlot(slot)
  BY <1>1, StoredIsMapped DEF deleteTombstone
<1>3. \A i \in DOMAIN idToSlot : idToSlot[i] \in 1..n /\ (i # id => idToSlot[i] # slot)
  BY <1>1, <1>2, SlotFacts DEF SlotsAgree, LiveSlots, Slots
<1> HIDE DEF slot
<1>4. \A s \in 1..n : s # slot =>
         /\ slotToKey'[s] = slotToKey[s]
         /\ RowIn(mode', values', leftover', s) = RowIn(mode, values, leftover, s)
  <2> SUFFICES ASSUME NEW s \in 1..n, s # slot
               PROVE  /\ slotToKey'[s] = slotToKey[s]
                      /\ RowIn(mode', values', leftover', s) = RowIn(mode, values, leftover, s)
    OBVIOUS
  <2>1. /\ slotToKey' = [slotToKey EXCEPT ![slot] = NoKey]
        /\ values' = [values EXCEPT ![slot] = ZeroCells]
        /\ mode = "map" => leftover' = [leftover EXCEPT ![slot] = NoFields]
    BY <1>2 DEF freeSlot
  <2>2. /\ DOMAIN slotToKey = 1..n /\ DOMAIN values = 1..n
        /\ mode = "map" => DOMAIN leftover = 1..n
    BY <1>1, SlotFacts
  <2> HIDE DEF n
  <2>3. slotToKey'[s] = slotToKey[s] /\ values'[s] = values[s] /\ (mode = "map" => leftover'[s] = leftover[s])
    BY <2>1, <2>2
  <2> QED BY <1>2, <2>3 DEF RowIn
<1> HIDE DEF n
<1>5. /\ DOMAIN idToSlot' = DOMAIN idToSlot \ {id}
      /\ \A i \in DOMAIN idToSlot' : idToSlot'[i] = idToSlot[i]
  BY <1>2 DEF Drop, Restrict
<1>6. \A i \in DOMAIN idToSlot' :
         /\ RowIn(mode', values', leftover', idToSlot'[i]) = storedRecords[i]
         /\ slotToKey'[idToSlot'[i]] = storedKeys[i]
  <2> SUFFICES ASSUME NEW i \in DOMAIN idToSlot'
               PROVE  /\ RowIn(mode', values', leftover', idToSlot'[i]) = storedRecords[i]
                      /\ slotToKey'[idToSlot'[i]] = storedKeys[i]
    OBVIOUS
  <2>1. /\ i \in DOMAIN idToSlot /\ idToSlot'[i] = idToSlot[i]
        /\ idToSlot[i] \in 1..n /\ idToSlot[i] # slot
    BY <1>3, <1>5
  <2> QED BY <1>4, <2>1, MapSeen
<1>7. DOMAIN storedRecords = DOMAIN idToSlot /\ DOMAIN storedKeys = DOMAIN idToSlot
  BY MapSeen
<1>8. storedRecords' = Drop(storedRecords, id)
  BY <1>5, <1>6, <1>7, MapSeen DEF Drop, Restrict
<1>9. storedKeys' = Drop(storedKeys, id)
  BY <1>5, <1>6, <1>7, MapSeen DEF Drop, Restrict
<1> QED BY <1>8, <1>9

\* delete that compacts: every slot is renumbered, and yet the map has lost the
\* deleted record only.
LEMMA CompactSeen ==
  ASSUME IInv, NEW id \in Ids, deleteCompact(id)
  PROVE  storedRecords' = Drop(storedRecords, id) /\ storedKeys' = Drop(storedKeys, id)
<1> DEFINE slot == idToSlot[id]
           L == LiveSlots \ {slot}
           n == Cardinality(L)
<1>1. TypeOK /\ SlicesAligned /\ SlotsAgree
  BY DEF IInv
<1>2. id \in DOMAIN idToSlot /\ mode' = mode /\ compact(L, ClearValue(index, slot))
  BY <1>1, StoredIsMapped DEF deleteCompact
<1>3. /\ LiveSlots \subseteq 1..Len(live) /\ IsFiniteSet(LiveSlots) /\ Len(live) \in Nat
      /\ L \subseteq LiveSlots /\ slot \in LiveSlots /\ slotToID[slot] = id
  BY <1>1, <1>2, SlotFacts DEF LiveSlots, Slots, SlotsAgree
<1>4. L \subseteq 1..Len(live) /\ L \subseteq Nat /\ IsFiniteSet(L)
  <2>1. IsFiniteSet(L)
    BY <1>3, FS_Subset
  <2> HIDE DEF L, slot
  <2> QED BY <1>3, <2>1
<1>5. DOMAIN idToSlot \ {id} = {slotToID[s] : s \in L}
  <2>1. ASSUME NEW i \in DOMAIN idToSlot, i # id
        PROVE  idToSlot[i] \in L /\ slotToID[idToSlot[i]] = i
    BY <1>1, <1>3, <2>1 DEF SlotsAgree
  <2>2. ASSUME NEW s \in L PROVE slotToID[s] \in DOMAIN idToSlot \ {id}
    BY <1>1, <1>3 DEF SlotsAgree
  <2> QED BY <2>1, <2>2
<1>6. \A i \in DOMAIN idToSlot : i # id => idToSlot[i] \in L
  BY <1>1, <1>3 DEF SlotsAgree
<1>7. /\ slotToKey \in Seq(Keys \cup {NoKey}) /\ DOMAIN slotToKey = 1..Len(live)
      /\ values \in Seq([Columns -> Values]) /\ DOMAIN values = 1..Len(live)
      /\ leftover \in Seq(Leftovers) /\ (mode = "map" => DOMAIN leftover = 1..Len(live))
  BY <1>1, SlotFacts DEF TypeOK
<1> HIDE DEF L, n, slot
<1>8. \A s \in L : rank(s, L) \in 1..n /\ slotAtRank(rank(s, L), L) = s
  BY <1>4, RankType, SlotAtRankInverse DEF n
<1>9. \A s \in L : slotToKey'[rank(s, L)] = slotToKey[s]
  <2>1. slotToKey' = compacted(slotToKey, L)
    BY <1>2 DEF compact
  <2> QED BY <1>8, <2>1 DEF compacted, n
<1>10. \A s \in L : values'[rank(s, L)] = values[s]
  <2>1. values' = compacted(values, L)
    BY <1>2 DEF compact
  <2> QED BY <1>8, <2>1 DEF compacted, n
<1>11. mode = "map" => \A s \in L : leftover'[rank(s, L)] = leftover[s]
  <2>1. mode = "map" => leftover' = compacted(leftover, L)
    BY <1>2 DEF compact
  <2> QED BY <1>8, <2>1 DEF compacted, n
<1>12. /\ DOMAIN idToSlot' = DOMAIN idToSlot \ {id}
       /\ \A i \in DOMAIN idToSlot' : idToSlot'[i] = rank(idToSlot[i], L)
  <2>1. idToSlot' = [i \in {slotToID[s] : s \in L} |-> rank(idToSlot[i], L)]
    BY <1>2 DEF compact
  <2> QED BY <1>5, <2>1
<1>13. ASSUME NEW i \in DOMAIN idToSlot'
       PROVE  /\ RowIn(mode', values', leftover', idToSlot'[i]) = storedRecords[i]
              /\ slotToKey'[idToSlot'[i]] = storedKeys[i]
  <2>1. i \in DOMAIN idToSlot /\ idToSlot[i] \in L /\ idToSlot'[i] = rank(idToSlot[i], L)
    BY <1>6, <1>12
  <2>2. /\ storedRecords[i] = RowIn(mode, values, leftover, idToSlot[i])
        /\ storedKeys[i] = slotToKey[idToSlot[i]]
    BY <2>1, MapSeen
  <2> QED BY <1>2, <1>9, <1>10, <1>11, <2>1, <2>2 DEF RowIn
<1>14. DOMAIN storedRecords = DOMAIN idToSlot /\ DOMAIN storedKeys = DOMAIN idToSlot
  BY MapSeen
<1>15. storedRecords' = Drop(storedRecords, id)
  BY <1>12, <1>13, <1>14, MapSeen DEF Drop, Restrict
<1>16. storedKeys' = Drop(storedKeys, id)
  BY <1>12, <1>13, <1>14, MapSeen DEF Drop, Restrict
<1> QED BY <1>15, <1>16

\* delete of an id that is not stored.
LEMMA AbsentSeen ==
  ASSUME IInv, NEW id \in Ids, deleteAbsent(id)
  PROVE  storedRecords' = Drop(storedRecords, id) /\ storedKeys' = Drop(storedKeys, id)
<1>1. id \notin DOMAIN idToSlot
  BY StoredIsMapped DEF IInv, deleteAbsent, BrokenIsEmpty
<1>2. storedRecords' = storedRecords /\ storedKeys' = storedKeys
  BY ReportSeen DEF deleteAbsent, Reports
<1>3. /\ DOMAIN storedRecords \ {id} = DOMAIN storedRecords
      /\ DOMAIN storedKeys \ {id} = DOMAIN storedKeys
      /\ storedRecords = [i \in DOMAIN storedRecords |-> storedRecords[i]]
      /\ storedKeys = [i \in DOMAIN storedKeys |-> storedKeys[i]]
  BY <1>1, MapSeen
<1> QED BY <1>2, <1>3 DEF Drop, Restrict

-----------------------------------------------------------------------------
\* The contract and the engine compute with the same operators on rows and maps.
LEMMA SameOperators ==
  /\ \A f, x, y : Contract!Put(f, x, y) = Put(f, x, y)
  /\ \A f, x : Contract!Drop(f, x) = Drop(f, x)
  /\ \A p : Contract!rowOf(p) = rowOf(p)
  /\ \A m, p : Contract!Decodable(m, p) <=> Decodable(m, p)
  /\ \A u : Contract!namesUnknownField(u) <=> namesUnknownField(u)
  /\ \A r : Contract!rowData(r) = rowData(r)
  /\ \A d, u : Contract!applyUpdatesToMap(d, u) = applyUpdatesToMap(d, u)
  /\ \A o : Contract!Outcome(o) = Outcome(o)
  /\ \A S : Contract!RowsOutcome(S) = RowsOutcome(S)
  /\ \A i, k, r : Contract!Entry(i, k, r) = Entry(i, k, r)
<1>1. \A f, x, y : Contract!Put(f, x, y) = Put(f, x, y)
  BY Zenon DEF Contract!Put, Put
<1>2. \A f, x : Contract!Drop(f, x) = Drop(f, x)
  BY Zenon DEF Contract!Drop, Drop, Contract!Restrict, Restrict
<1>3. \A p : Contract!rowOf(p) = rowOf(p)
  BY Zenon DEF Contract!rowOf, rowOf, Contract!cellsOf, cellsOf, Contract!leftoverOf, leftoverOf,
         Contract!Restrict, Restrict
<1>4. \A m, p : Contract!Decodable(m, p) <=> Decodable(m, p)
  BY Zenon DEF Contract!Decodable, Decodable, Contract!Fields, Fields
<1>5. \A u : Contract!namesUnknownField(u) <=> namesUnknownField(u)
  BY Zenon DEF Contract!namesUnknownField, namesUnknownField
<1>6. \A r : Contract!rowData(r) = rowData(r)
  BY Zenon DEF Contract!rowData, rowData
<1>7. \A d, u : Contract!applyUpdatesToMap(d, u) = applyUpdatesToMap(d, u)
  BY Zenon DEF Contract!applyUpdatesToMap, applyUpdatesToMap, Contract!applyPathUpdate,
               applyPathUpdate, Contract!Restrict, Restrict
<1>8. /\ \A o : Contract!Outcome(o) = Outcome(o)
      /\ \A S : Contract!RowsOutcome(S) = RowsOutcome(S)
      /\ \A i, k, r : Contract!Entry(i, k, r) = Entry(i, k, r)
  BY Zenon DEF Contract!Outcome, Outcome, Contract!RowsOutcome, RowsOutcome, Contract!Entry, Entry
<1> QED BY <1>1, <1>2, <1>3, <1>4, <1>5, <1>6, <1>7, <1>8

\* A delete is the contract's delete of the same id.
LEMMA DeleteRefines ==
  ASSUME IInv, NEW id \in Ids,
         deleteAbsent(id) \/ deleteTombstone(id) \/ deleteCompact(id)
  PROVE  Contract!delete(id)
<1>1. storedRecords' = Drop(storedRecords, id) /\ storedKeys' = Drop(storedKeys, id)
  BY AbsentSeen, TombstoneSeen, CompactSeen
<1>2. result' = Outcome("ok") /\ mode' = mode
  BY DEF deleteAbsent, deleteTombstone, deleteCompact, Reports, slotVars
<1> QED BY <1>1, <1>2, SameOperators, Zenon DEF Contract!delete

\* An update, accepted or not, is the contract's update with the same list.
LEMMA UpdateRefines ==
  ASSUME IInv, NEW id \in Ids, NEW updates, update(id, updates)
  PROVE  Contract!update(id, updates)
<1> DEFINE next == applyUpdatesToMap(rowData(rowAt(idToSlot[id])), updates)
           cnext == Contract!applyUpdatesToMap(Contract!rowData(storedRecords[id]), updates)
<1>1. /\ stored(id) <=> id \in DOMAIN idToSlot
      /\ DOMAIN storedRecords = DOMAIN idToSlot
  BY StoredIsMapped, MapSeen DEF IInv
<1>2. id \in DOMAIN idToSlot => storedRecords[id] = rowAt(idToSlot[id])
  BY DEF storedRecords
<1>3. id \in DOMAIN idToSlot => cnext = next
  BY <1>2, SameOperators, Zenon
<1>4. mode # "broken"
  BY DEF update
<1>5. CASE ~stored(id) /\ Reports(Outcome("notFound"))
  <2>1. /\ UNCHANGED <<mode, storedRecords, storedKeys>>
        /\ result' = Contract!Outcome("notFound") /\ id \notin DOMAIN storedRecords
    BY <1>1, <1>5, ReportSeen, SameOperators DEF Reports
  <2> QED BY <1>4, <2>1 DEF Contract!update, Contract!Reports
<1>6. CASE /\ stored(id)
           /\ (mode = "struct" /\ namesUnknownField(updates)) \/ ~Decodable(mode, next)
           /\ Reports(Outcome("invalid"))
  <2>1. /\ UNCHANGED <<mode, storedRecords, storedKeys>>
        /\ result' = Contract!Outcome("invalid") /\ id \in DOMAIN storedRecords
    BY <1>1, <1>6, ReportSeen, SameOperators DEF Reports
  <2> HIDE DEF next, cnext
  <2>2. ~Contract!Decodable(mode, cnext) \/ (mode = "struct" /\ Contract!namesUnknownField(updates))
    BY <1>1, <1>3, <1>6, SameOperators, Zenon
  <2> QED BY <1>4, <2>1, <2>2 DEF Contract!update, Contract!Reports, cnext
<1>7. CASE /\ stored(id) /\ Decodable(mode, next)
           /\ writeSlot(idToSlot[id], next)
           /\ result' = Outcome("ok")
           /\ UNCHANGED <<mode, idToSlot, slotToID, slotToKey, live, freeList, deadCount>>
  <2> HIDE DEF next, cnext
  <2>1. storedRecords' = Put(storedRecords, id, rowOf(next)) /\ storedKeys' = storedKeys
    BY <1>1, <1>4, <1>7, UpdateSeen
  <2>2. storedRecords' = Contract!Put(storedRecords, id, Contract!rowOf(cnext))
    BY <1>1, <1>3, <1>7, <2>1, SameOperators, Zenon
  <2>3. Contract!Decodable(mode, cnext) /\ result' = Contract!Outcome("ok")
    BY <1>1, <1>3, <1>7, SameOperators, Zenon
  <2> QED BY <1>1, <1>4, <1>7, <2>1, <2>2, <2>3 DEF Contract!update, cnext
<1> QED BY <1>5, <1>6, <1>7 DEF update

\* A write that is stored is the contract's store of the same record.
LEMMA StoreRefines ==
  ASSUME IInv, NEW key \in Keys, NEW data, NEW overwrite, storeRow(key, data, overwrite)
  PROVE  Contract!store(key, data, overwrite)
<1>1. /\ storedRecords' = Put(storedRecords, keyID[key], rowOf(data))
      /\ storedKeys' = Put(storedKeys, keyID[key], key)
  BY StoreSeen
<1>2. /\ mode # "broken" /\ Decodable(mode, data) /\ mode' = mode /\ result' = Outcome("ok")
      /\ overwrite \/ ~stored(keyID[key])
  BY DEF storeRow
<1>3. overwrite \/ keyID[key] \notin DOMAIN storedRecords
  BY <1>2, StoredIsMapped, MapSeen DEF IInv
<1>4. /\ storedRecords' = Contract!Put(storedRecords, keyID[key], Contract!rowOf(data))
      /\ storedKeys' = Contract!Put(storedKeys, keyID[key], key)
      /\ Contract!Decodable(mode, data) /\ result' = Contract!Outcome("ok")
  BY <1>1, <1>2, SameOperators, Zenon
<1> QED BY <1>2, <1>3, <1>4 DEF Contract!store

\* A call that only reports is a contract's call that only reports.
LEMMA ReportRefines ==
  ASSUME NEW r, Reports(r)
  PROVE  Contract!Reports(r)
<1>1. result' = r /\ UNCHANGED <<mode, storedRecords, storedKeys>>
  BY ReportSeen DEF Reports
<1> QED BY <1>1 DEF Contract!Reports

\* rows and the rows of a selection are the entries of the map.
LEMMA BuildRowsSeen ==
  ASSUME NEW S, S \subseteq DOMAIN idToSlot
  PROVE  buildRows(S) = {Contract!Entry(i, storedKeys[i], storedRecords[i]) : i \in S}
<1>1. \A i \in S : /\ storedKeys[i] = slotToKey[idToSlot[i]]
                    /\ storedRecords[i] = rowAt(idToSlot[i])
  BY DEF storedKeys, storedRecords
<1>2. \A i \in S : Entry(i, slotToKey[idToSlot[i]], rowAt(idToSlot[i])) =
                      Contract!Entry(i, storedKeys[i], storedRecords[i])
  BY <1>1, SameOperators, Zenon
<1> QED BY <1>2 DEF buildRows

\* Every other call answers as the contract's call and changes nothing.
LEMMA ReadsRefine ==
  ASSUME IInv
  PROVE  /\ Refuse => Contract!Refuse
         /\ rows => Contract!rows
         /\ \A id \in Ids : exists(id) => Contract!exists(id)
         /\ \A key \in Keys : load(key) => Contract!load(key)
         /\ \A key \in Keys : \A data, overwrite :
               /\ storeDuplicate(key, overwrite) => Contract!store(key, data, overwrite)
               /\ storeInvalid(key, data, overwrite) => Contract!store(key, data, overwrite)
         /\ SameType = {TRUE} =>
               \A col \in Columns, value \in Values, sameType \in SameType :
                  selectRows(col, value, sameType) => Contract!selectRows(col, value)
<1>0. /\ \A id : stored(id) <=> id \in DOMAIN storedRecords
      /\ DOMAIN storedRecords = DOMAIN idToSlot /\ DOMAIN storedKeys = DOMAIN idToSlot
      /\ \A i \in DOMAIN idToSlot : storedRecords[i] = rowAt(idToSlot[i])
  BY StoredIsMapped DEF IInv, storedRecords, storedKeys
<1>1. ASSUME Refuse PROVE Contract!Refuse
  <2>1. mode = "broken" /\ Reports(Contract!Outcome("initErr"))
    BY <1>1, SameOperators, Zenon DEF Refuse
  <2> QED BY <2>1, ReportRefines DEF Contract!Refuse
<1>2. ASSUME rows PROVE Contract!rows
  <2>1. mode # "broken" /\ Reports(RowsOutcome(buildRows(DOMAIN idToSlot)))
    BY <1>2 DEF rows
  <2> DEFINE S == {Contract!Entry(i, storedKeys[i], storedRecords[i]) : i \in DOMAIN storedRecords}
  <2>2. buildRows(DOMAIN idToSlot) = S
    BY <1>0, BuildRowsSeen
  <2> HIDE DEF S
  <2>3. Reports(Contract!RowsOutcome(S))
    BY <2>1, <2>2, SameOperators
  <2>4. Contract!Reports(Contract!RowsOutcome(S))
    BY <2>3, ReportRefines
  <2> QED BY <2>1, <2>4 DEF Contract!rows, S
<1>3. ASSUME NEW id \in Ids, exists(id) PROVE Contract!exists(id)
  <2> DEFINE o == IF id \in DOMAIN storedRecords THEN "true" ELSE "false"
  <2>1. mode # "broken" /\ stored(id) <=> id \in DOMAIN storedRecords
    BY <1>0 DEF IInv, BrokenIsEmpty
  <2>2. Reports(Outcome(o))
    BY <1>3, <2>1 DEF exists
  <2> HIDE DEF o
  <2>3. Reports(Contract!Outcome(o))
    BY <2>2, SameOperators, Zenon
  <2>4. Contract!Reports(Contract!Outcome(o))
    BY <2>3, ReportRefines
  <2> QED BY <2>4 DEF Contract!exists, o
<1>4. ASSUME NEW key \in Keys, load(key) PROVE Contract!load(key)
  <2> DEFINE id == keyID[key]
             r == IF id \in DOMAIN storedRecords
                  THEN Contract!RowsOutcome({Contract!Entry(id, key, storedRecords[id])})
                  ELSE Contract!Outcome("notFound")
  <2>1. mode # "broken" /\ Reports(IF stored(id) THEN RowsOutcome({Entry(id, key, rowAt(idToSlot[id]))})
                                   ELSE Outcome("notFound"))
    BY <1>4 DEF load
  <2>2. CASE stored(id)
    <3>1. storedRecords[id] = rowAt(idToSlot[id]) /\ id \in DOMAIN storedRecords
      BY <1>0, <2>2
    <3>2. RowsOutcome({Entry(id, key, rowAt(idToSlot[id]))}) = r
      BY <3>1, SameOperators
    <3>3. Reports(r)
      BY <2>1, <2>2, <3>2
    <3> HIDE DEF r, id
    <3>4. Contract!Reports(r)
      BY <3>3, ReportRefines
    <3> QED BY <2>1, <3>4 DEF Contract!load, r, id
  <2>3. CASE ~stored(id)
    <3>1. Outcome("notFound") = r
      BY <1>0, <2>3, SameOperators
    <3>2. Reports(r)
      BY <2>1, <2>3, <3>1
    <3> HIDE DEF r, id
    <3>3. Contract!Reports(r)
      BY <3>2, ReportRefines
    <3> QED BY <2>1, <3>3 DEF Contract!load, r, id
  <2> QED BY <2>2, <2>3
<1>5. ASSUME NEW key \in Keys, NEW data, NEW overwrite, storeDuplicate(key, overwrite)
      PROVE  Contract!store(key, data, overwrite)
  <2>1. /\ mode # "broken" /\ ~overwrite /\ keyID[key] \in DOMAIN storedRecords
        /\ Reports(Contract!Outcome("duplicate"))
    BY <1>0, <1>5, SameOperators DEF storeDuplicate
  <2>2. Contract!Reports(Contract!Outcome("duplicate"))
    BY <2>1, ReportRefines
  <2> QED BY <2>1, <2>2 DEF Contract!store
<1>6. ASSUME NEW key \in Keys, NEW data, NEW overwrite, storeInvalid(key, data, overwrite)
      PROVE  Contract!store(key, data, overwrite)
  <2>1. /\ mode # "broken"
        /\ overwrite \/ keyID[key] \notin DOMAIN storedRecords
        /\ ~Contract!Decodable(mode, data)
        /\ Reports(Contract!Outcome("invalid"))
    BY <1>0, <1>6, SameOperators, Zenon DEF storeInvalid
  <2>2. Contract!Reports(Contract!Outcome("invalid"))
    BY <2>1, ReportRefines
  <2> QED BY <2>1, <2>2 DEF Contract!store
<1>7. ASSUME SameType = {TRUE}, NEW col \in Columns, NEW value \in Values,
             NEW sameType \in SameType, selectRows(col, value, sameType)
      PROVE  Contract!selectRows(col, value)
  <2> DEFINE found == {j \in DOMAIN storedRecords : storedRecords[j].cells[col] = value}
             S == {Contract!Entry(i, storedKeys[i], storedRecords[i]) : i \in found}
  <2>1. found = scannedIds(col, value)
    BY <1>0 DEF scannedIds, rowAt
  <2>2. CandidatesMatchScan
    BY <1>7, CandidatesCoverScan
  <2>3. mode # "broken" /\ Reports(RowsOutcome(buildRows(scannedIds(col, value))))
    BY <1>7, <2>2 DEF selectRows, CandidatesMatchScan
  <2>4. scannedIds(col, value) \subseteq DOMAIN idToSlot
    BY DEF scannedIds
  <2> HIDE DEF found
  <2>5. buildRows(found) = S
    BY <2>1, <2>4, BuildRowsSeen
  <2> HIDE DEF S
  <2>6. Reports(Contract!RowsOutcome(S))
    BY <2>1, <2>3, <2>5, SameOperators
  <2>7. Contract!Reports(Contract!RowsOutcome(S))
    BY <2>6, ReportRefines
  <2> QED BY <2>3, <2>7 DEF Contract!selectRows, S, found
<1> QED BY <1>1, <1>2, <1>3, <1>4, <1>5, <1>6, <1>7

\* The columnar engine implements the storageEngine interface: every call changes
\* the map that the slices stand for, and answers, as the contract says of that
\* call, across slot reuse and compaction, when query constants have the columns'
\* Go types.
THEOREM EngineImplementsContract ==
  ASSUME SameType = {TRUE}
  PROVE  Spec => ImplementsContract
<1>1. Init => Contract!Init
  <2> SUFFICES ASSUME Init PROVE Contract!Init
    OBVIOUS
  <2>1. DOMAIN idToSlot = {} /\ result = Contract!Outcome("none") /\ mode \in {"struct", "map", "broken"}
    BY SameOperators DEF Init
  <2>2. storedRecords = [i \in {} |-> [cells |-> Contract!ZeroCells, left |-> Contract!NoFields]]
    BY <2>1 DEF storedRecords
  <2>3. storedKeys = [i \in {} |-> i]
    BY <2>1 DEF storedKeys
  <2> QED BY <2>1, <2>2, <2>3 DEF Contract!Init, Contract!Modes
<1>2. ASSUME IInv, Next PROVE Contract!Next
  <2>1. CASE Refuse \/ rows
    BY <1>2, <2>1, ReadsRefine DEF Contract!Next
  <2>2. ASSUME NEW id \in Ids,
               exists(id) \/ deleteAbsent(id) \/ deleteTombstone(id) \/ deleteCompact(id)
        PROVE  Contract!Next
    <3>1. Contract!exists(id) \/ Contract!delete(id)
      BY <1>2, <2>2, ReadsRefine, DeleteRefines
    <3> QED BY <3>1 DEF Contract!Next
  <2>3. ASSUME NEW id \in Ids, NEW updates \in UpdateLists, update(id, updates)
        PROVE  Contract!Next
    <3>1. Contract!update(id, updates)
      BY <1>2, <2>3, UpdateRefines
    <3> QED BY <3>1 DEF Contract!Next
  <2>4. ASSUME NEW key \in Keys, load(key) PROVE Contract!Next
    <3>1. Contract!load(key)
      BY <1>2, <2>4, ReadsRefine
    <3> QED BY <3>1 DEF Contract!Next
  <2>5. ASSUME NEW key \in Keys, NEW data \in Payloads, NEW overwrite \in BOOLEAN,
               \/ storeDuplicate(key, overwrite)
               \/ storeInvalid(key, data, overwrite)
               \/ storeRow(key, data, overwrite)
        PROVE  Contract!Next
    <3>1. Contract!store(key, data, overwrite)
      BY <1>2, <2>5, ReadsRefine, StoreRefines
    <3> QED BY <3>1 DEF Contract!Next
  <2>6. ASSUME NEW col \in Columns, NEW value \in Values, NEW sameType \in SameType,
               selectRows(col, value, sameType)
        PROVE  Contract!Next
    <3>1. Contract!selectRows(col, value)
      BY <1>2, <2>6, ReadsRefine
    <3> QED BY <3>1 DEF Contract!Next
  <2> QED BY <1>2, <2>1, <2>2, <2>3, <2>4, <2>5, <2>6 DEF Next
<1>3. ASSUME UNCHANGED vars PROVE UNCHANGED Contract!engineVars
  <2>1. result' = result /\ UNCHANGED <<mode, storedRecords, storedKeys>>
    BY <1>3, ReportSeen DEF vars
  <2> QED BY <2>1 DEF Contract!engineVars
<1>4. IInv /\ [Next]_vars => [Contract!Next]_(Contract!engineVars)
  BY <1>2, <1>3
<1>5. IInv => WritesMatch
  BY DeleteRefines, UpdateRefines, StoreRefines DEF WritesMatch
<1> QED BY <1>1, <1>4, <1>5, Invariance, PTL DEF Spec, ImplementsContract, Contract!Spec

-----------------------------------------------------------------------------

\* Data that give one row: the same cells, absent columns being zero, and the same
\* other fields.
Cell(x, c) == IF c \in DOMAIN x THEN x[c] ELSE Zero
Alike(x, y) ==
    /\ \A c \in Columns : Cell(x, c) = Cell(y, c)
    /\ DOMAIN x \ Columns = DOMAIN y \ Columns
    /\ \A f \in DOMAIN x \ Columns : x[f] = y[f]

-----------------------------------------------------------------------------
\* A set of naturals that is not empty has a least element.
LEMMA LeastElement ==
  ASSUME NEW S \in SUBSET Nat, S # {}
  PROVE  \E x \in S : \A y \in S : x <= y
<1> DEFINE below == {ss \in Nat \X Nat : ss[1] < ss[2]}
<1>0. IsWellFoundedOn(below, Nat)
  BY NatLessThanWellFounded, Zenon DEF OpToRel
<1>1. PICK x \in S : \A y \in S : ~(<<y, x>> \in below)
  <2> HIDE DEF below
  <2> QED BY <1>0, WFMin
<1>2. ASSUME NEW y \in S PROVE x <= y
  <2>1. x \in Nat /\ y \in Nat /\ <<y, x>> \notin below
    BY <1>1
  <2>2. ~(y < x)
    BY <2>1
  <2> QED BY <2>1, <2>2
<1> QED BY <1>2

\* Data give one row exactly when they are alike.
LEMMA RowsAlike ==
  ASSUME NEW x, NEW y
  PROVE  rowOf(x) = rowOf(y) <=> Alike(x, y)
<1>1. cellsOf(x) = [c \in Columns |-> Cell(x, c)] /\ cellsOf(y) = [c \in Columns |-> Cell(y, c)]
  BY DEF cellsOf, Cell
<1>2. cellsOf(x) = cellsOf(y) <=> \A c \in Columns : Cell(x, c) = Cell(y, c)
  BY <1>1
<1> DEFINE dx == DOMAIN x \ Columns
           dy == DOMAIN y \ Columns
<1>3. leftoverOf(x) = [f \in dx |-> x[f]] /\ leftoverOf(y) = [f \in dy |-> y[f]]
  BY DEF leftoverOf, Restrict
<1>4. leftoverOf(x) = leftoverOf(y) <=> dx = dy /\ \A f \in dx : x[f] = y[f]
  <2> HIDE DEF dx, dy
  <2>1. DOMAIN leftoverOf(x) = dx /\ DOMAIN leftoverOf(y) = dy
    BY <1>3
  <2>2. (\A f \in dx : leftoverOf(x)[f] = x[f]) /\ (\A f \in dy : leftoverOf(y)[f] = y[f])
    BY <1>3
  <2>3. ASSUME leftoverOf(x) = leftoverOf(y) PROVE dx = dy /\ \A f \in dx : x[f] = y[f]
    BY <2>1, <2>2, <2>3
  <2>4. ASSUME dx = dy, \A f \in dx : x[f] = y[f] PROVE leftoverOf(x) = leftoverOf(y)
    BY <1>3, <2>4
  <2> QED BY <2>3, <2>4
<1>5. rowOf(x) = rowOf(y) <=> cellsOf(x) = cellsOf(y) /\ leftoverOf(x) = leftoverOf(y)
  <2>1. /\ rowOf(x).cells = cellsOf(x) /\ rowOf(x).left = leftoverOf(x)
        /\ rowOf(y).cells = cellsOf(y) /\ rowOf(y).left = leftoverOf(y)
    BY DEF rowOf
  <2> QED BY <2>1 DEF rowOf
<1> QED BY <1>2, <1>4, <1>5 DEF Alike

\* Data that are alike are accepted or refused together.
LEMMA AcceptedAlike ==
  ASSUME NEW m, NEW x, NEW y, Alike(x, y)
  PROVE  Decodable(m, x) <=> Decodable(m, y)
<1>0. Zero \in Values
  BY DataAssumption
<1>1. ASSUME NEW a, NEW b, Alike(a, b), \A f \in DOMAIN a : a[f] \in Values
      PROVE  \A f \in DOMAIN b : b[f] \in Values
  <2> SUFFICES ASSUME NEW f \in DOMAIN b PROVE b[f] \in Values
    OBVIOUS
  <2>1. CASE f \in Columns
    BY <1>0, <1>1, <2>1 DEF Alike, Cell
  <2>2. CASE f \notin Columns
    BY <1>1, <2>2 DEF Alike
  <2> QED BY <2>1, <2>2
<1>2. Alike(y, x)
  BY DEF Alike
<1>3. \A D : Columns \subseteq D => (DOMAIN x \subseteq D <=> DOMAIN y \subseteq D)
  BY DEF Alike
<1>4. Columns \subseteq IF m = "struct" THEN Columns ELSE Fields
  BY DEF Fields
<1> QED BY <1>1, <1>2, <1>3, <1>4 DEF Decodable

\* One update keeps data alike.
LEMMA UpdateAlike ==
  ASSUME NEW x, NEW y, Alike(x, y), NEW u
  PROVE  Alike(applyPathUpdate(x, u), applyPathUpdate(y, u))
<1> DEFINE x2 == applyPathUpdate(x, u)
           y2 == applyPathUpdate(y, u)
<1>1. CASE u.value = DeleteField
  <2>1. /\ x2 = [f \in DOMAIN x \ {u.field} |-> x[f]]
        /\ y2 = [f \in DOMAIN y \ {u.field} |-> y[f]]
    BY <1>1 DEF applyPathUpdate, Restrict
  <2> HIDE DEF x2, y2
  <2> QED BY <2>1 DEF Alike, Cell, x2, y2
<1>2. CASE u.value # DeleteField
  <2>1. /\ x2 = [f \in DOMAIN x \cup {u.field} |-> IF f = u.field THEN u.value ELSE x[f]]
        /\ y2 = [f \in DOMAIN y \cup {u.field} |-> IF f = u.field THEN u.value ELSE y[f]]
    BY <1>2 DEF applyPathUpdate
  <2> HIDE DEF x2, y2
  <2>2. ASSUME NEW c \in Columns PROVE Cell(x2, c) = Cell(y2, c)
    BY <2>1 DEF Alike, Cell
  <2>3. DOMAIN x2 \ Columns = DOMAIN y2 \ Columns
    BY <2>1 DEF Alike
  <2>4. ASSUME NEW f \in DOMAIN x2 \ Columns PROVE x2[f] = y2[f]
    BY <2>1, <2>3 DEF Alike
  <2> QED BY <2>2, <2>3, <2>4 DEF Alike, x2, y2
<1> QED BY <1>1, <1>2

\* The recursion of applyUpdatesToMap over the first k updates.
AppliedTo(data, updates, k, g) ==
    g = [j \in 0..k |-> IF j = 0 THEN data ELSE applyPathUpdate(g[j - 1], updates[j])]

\* The recursion has a value for every number of updates.
LEMMA AppliedExists ==
  ASSUME NEW data, NEW updates, NEW n \in Nat
  PROVE  \E g : AppliedTo(data, updates, n, g)
<1> DEFINE Bad == {k \in 0..n : ~\E g : AppliedTo(data, updates, k, g)}
<1>1. SUFFICES ASSUME Bad # {} PROVE FALSE
  BY <1>1
<1>2. PICK k \in Bad : \A j \in Bad : k <= j
  <2>1. Bad \in SUBSET Nat
    OBVIOUS
  <2> HIDE DEF Bad
  <2> QED BY <1>1, <2>1, LeastElement
<1>3. k \in 0..n /\ ~\E g : AppliedTo(data, updates, k, g)
  BY <1>2
<1>4. k # 0
  <2>1. AppliedTo(data, updates, 0, [j \in 0..0 |-> data])
    BY DEF AppliedTo
  <2> QED BY <1>3, <2>1
<1>5. k - 1 \in 0..n /\ ~(k <= k - 1)
  BY <1>3, <1>4
<1>6. PICK g : AppliedTo(data, updates, k - 1, g)
  BY <1>2, <1>5
<1> HIDE DEF Bad
<1> DEFINE last == applyPathUpdate(g[k - 1], updates[k])
           h == [j \in 0..k |-> IF j = k THEN last ELSE g[j]]
<1> HIDE DEF last
<1>7. \A j \in 0..(k - 1) : h[j] = g[j]
  BY <1>3, <1>4
<1>8. \A j \in 0..(k - 1) : g[j] = IF j = 0 THEN data ELSE applyPathUpdate(g[j - 1], updates[j])
  BY <1>6 DEF AppliedTo
<1>9. ASSUME NEW j \in 0..k
      PROVE  h[j] = IF j = 0 THEN data ELSE applyPathUpdate(h[j - 1], updates[j])
  <2>1. CASE j = k
    <3>1. h[k] = last
      <4>1. k \in 0..k
        BY <1>3
      <4> QED BY <4>1
    <3>2. h[k - 1] = g[k - 1]
      BY <1>7, <1>3, <1>4
    <3> HIDE DEF h
    <3> QED BY <2>1, <3>1, <3>2, <1>4 DEF last
  <2>2. CASE j # k
    <3>1. j \in 0..(k - 1) /\ (j # 0 => j - 1 \in 0..(k - 1))
      BY <2>2, <1>3
    <3>2. h[j] = g[j] /\ (j # 0 => h[j - 1] = g[j - 1])
      BY <1>7, <3>1
    <3> HIDE DEF h
    <3> QED BY <1>8, <3>1, <3>2
  <2> QED BY <2>1, <2>2
<1>10. AppliedTo(data, updates, k, h)
  <2>1. h = [j \in 0..k |-> h[j]]
    OBVIOUS
  <2> HIDE DEF h
  <2> QED BY <2>1, <1>9 DEF AppliedTo
<1> QED BY <1>3, <1>10

\* applyUpdatesToMap, update by update.
LEMMA UpdatesApplied ==
  ASSUME NEW data, NEW updates, Len(updates) \in Nat
  PROVE  \E g : /\ applyUpdatesToMap(data, updates) = g[Len(updates)] /\ g[0] = data
                /\ \A j \in 1..Len(updates) : g[j] = applyPathUpdate(g[j - 1], updates[j])
<1> DEFINE n == Len(updates)
           g == CHOOSE g : AppliedTo(data, updates, n, g)
<1>1. applyUpdatesToMap(data, updates) = g[n]
  BY DEF applyUpdatesToMap, AppliedTo
<1> HIDE DEF n
<1>2. n \in Nat
  BY DEF n
<1>3. AppliedTo(data, updates, n, g)
  BY <1>2, AppliedExists
<1> HIDE DEF g
<1>4. g[0] = data /\ \A j \in 1..n : g[j] = applyPathUpdate(g[j - 1], updates[j])
  BY <1>2, <1>3 DEF AppliedTo
<1> QED BY <1>1, <1>4 DEF n

\* A list of updates keeps data alike.
LEMMA UpdatesAlike ==
  ASSUME NEW x, NEW y, Alike(x, y), NEW updates, Len(updates) \in Nat
  PROVE  Alike(applyUpdatesToMap(x, updates), applyUpdatesToMap(y, updates))
<1> DEFINE n == Len(updates)
<1>1. PICK g : /\ applyUpdatesToMap(x, updates) = g[n] /\ g[0] = x
               /\ \A j \in 1..n : g[j] = applyPathUpdate(g[j - 1], updates[j])
  BY UpdatesApplied
<1>2. PICK h : /\ applyUpdatesToMap(y, updates) = h[n] /\ h[0] = y
               /\ \A j \in 1..n : h[j] = applyPathUpdate(h[j - 1], updates[j])
  BY UpdatesApplied
<1> DEFINE Bad == {j \in 0..n : ~Alike(g[j], h[j])}
<1>3. n \in Nat
  OBVIOUS
<1> HIDE DEF n
<1>4. SUFFICES ASSUME Bad # {} PROVE FALSE
  BY <1>1, <1>2, <1>3, <1>4 DEF n
<1>5. PICK k \in Bad : \A j \in Bad : k <= j
  <2>1. Bad \in SUBSET Nat
    BY <1>3
  <2> HIDE DEF Bad
  <2> QED BY <1>4, <2>1, LeastElement
<1>6. k \in 0..n /\ ~Alike(g[k], h[k])
  BY <1>5
<1>7. k # 0
  BY <1>1, <1>2, <1>6
<1>8. k \in 1..n /\ k - 1 \in 0..n /\ ~(k <= k - 1)
  BY <1>3, <1>6, <1>7
<1>9. Alike(g[k - 1], h[k - 1])
  BY <1>5, <1>8
<1>10. g[k] = applyPathUpdate(g[k - 1], updates[k]) /\ h[k] = applyPathUpdate(h[k - 1], updates[k])
  BY <1>1, <1>2, <1>8
<1> QED BY <1>6, <1>9, <1>10, UpdateAlike

\* The map view of a row gives that row.
LEMMA RowDataRow ==
  ASSUME NEW r \in Row
  PROVE  rowOf(rowData(r)) = r
<1> DEFINE p == rowData(r)
<1>1. /\ r.cells \in [Columns -> Values] /\ r.left \in Leftovers
      /\ r = [cells |-> r.cells, left |-> r.left]
  BY DEF Row
<1>2. PICK D \in SUBSET Undeclared : r.left \in [D -> Values]
  BY <1>1 DEF Leftovers, PartialFcn
<1>3. DOMAIN r.left = D /\ D \cap Columns = {}
  BY <1>2, DataAssumption
<1>4. p = [f \in Columns \cup D |-> IF f \in Columns THEN r.cells[f] ELSE r.left[f]]
  BY <1>3 DEF rowData
<1> HIDE DEF p
<1>5. DOMAIN p = Columns \cup D /\ DOMAIN p \ Columns = D
  BY <1>3, <1>4
<1>6. cellsOf(p) = r.cells
  <2>1. \A c \in Columns : c \in DOMAIN p /\ p[c] = r.cells[c]
    BY <1>4, <1>5
  <2>2. cellsOf(p) = [c \in Columns |-> r.cells[c]]
    BY <2>1 DEF cellsOf
  <2> QED BY <1>1, <2>2
<1>7. leftoverOf(p) = r.left
  <2>1. \A f \in D : p[f] = r.left[f]
    BY <1>3, <1>4
  <2>2. leftoverOf(p) = [f \in D |-> r.left[f]]
    BY <1>5, <2>1 DEF leftoverOf, Restrict
  <2> QED BY <1>2, <2>2
<1> QED BY <1>1, <1>6, <1>7 DEF rowOf, p

\* What callers write: known fields, and values json.Marshal may reject or that may
\* not be of their column's type.
Written(p) ==
    /\ DOMAIN p \subseteq Fields
    /\ \A f \in DOMAIN p : p[f] \in Values \cup {Unencodable, Mistyped}

\* One update makes written data of written data.
LEMMA UpdateWritten ==
  ASSUME NEW p, Written(p), NEW u \in Update
  PROVE  Written(applyPathUpdate(p, u))
<1>0. u.field \in Fields /\ u.value \in Values \cup {Unencodable, Mistyped, DeleteField}
  BY DEF Update
<1>1. CASE u.value = DeleteField
  <2>1. applyPathUpdate(p, u) = [f \in DOMAIN p \ {u.field} |-> p[f]]
    BY <1>1 DEF applyPathUpdate, Restrict
  <2> QED BY <2>1 DEF Written
<1>2. CASE u.value # DeleteField
  <2>1. applyPathUpdate(p, u) =
          [f \in DOMAIN p \cup {u.field} |-> IF f = u.field THEN u.value ELSE p[f]]
    BY <1>2 DEF applyPathUpdate
  <2> QED BY <1>0, <1>2, <2>1 DEF Written
<1> QED BY <1>1, <1>2

\* A list of updates makes written data of written data.
LEMMA UpdatesWritten ==
  ASSUME NEW p, Written(p), NEW updates \in UpdateLists
  PROVE  Written(applyUpdatesToMap(p, updates))
<1> DEFINE n == Len(updates)
<1>0. n \in Nat /\ \A j \in 1..n : updates[j] \in Update
  BY ColumnarAssumption
<1>1. PICK g : /\ applyUpdatesToMap(p, updates) = g[n] /\ g[0] = p
               /\ \A j \in 1..n : g[j] = applyPathUpdate(g[j - 1], updates[j])
  BY <1>0, UpdatesApplied
<1> DEFINE Bad == {j \in 0..n : ~Written(g[j])}
<1> HIDE DEF n
<1>2. SUFFICES ASSUME Bad # {} PROVE FALSE
  BY <1>0, <1>1, <1>2
<1>3. PICK k \in Bad : \A j \in Bad : k <= j
  <2>1. Bad \in SUBSET Nat
    BY <1>0
  <2> HIDE DEF Bad
  <2> QED BY <1>2, <2>1, LeastElement
<1>4. k \in 0..n /\ ~Written(g[k])
  BY <1>3
<1>5. k # 0
  BY <1>1, <1>4
<1>6. k \in 1..n /\ k - 1 \in 0..n /\ ~(k <= k - 1)
  BY <1>0, <1>4, <1>5
<1>7. Written(g[k - 1])
  BY <1>3, <1>6
<1>8. g[k] = applyPathUpdate(g[k - 1], updates[k]) /\ updates[k] \in Update
  BY <1>0, <1>1, <1>6
<1> QED BY <1>4, <1>7, <1>8, UpdateWritten

\* What the serialized engine takes (accepts), and what reading it gives (view).
Taken(p) == IF mode = "struct" THEN Decodable(mode, p)
                               ELSE \A f \in DOMAIN p : p[f] # Unencodable
Seen(p) == IF mode = "struct" THEN rowOf(p)
           ELSE [cells |-> Restrict(p, DOMAIN p \cap Columns), left |-> leftoverOf(p)]

\* The serialized engine takes what decodes and what is loose, and no data is both.
LEMMA TakenExactly ==
  ASSUME mode \in {"struct", "map"}, NEW p, Written(p)
  PROVE  /\ Taken(p) <=> Decodable(mode, p) \/ Loose(p)
         /\ ~(Decodable(mode, p) /\ Loose(p))
<1>0. Unencodable \notin Values /\ Mistyped \notin Values
  BY DataAssumption
<1>1. ~(Decodable(mode, p) /\ Loose(p))
  BY <1>0 DEF Decodable, Loose
<1>2. CASE mode = "struct"
  BY <1>2 DEF Taken, Loose
<1>3. CASE mode = "map"
  <2>1. Taken(p) <=> \A f \in DOMAIN p : p[f] # Unencodable
    BY <1>3 DEF Taken
  <2>2. Decodable(mode, p) <=> \A f \in DOMAIN p : p[f] \in Values
    BY <1>3 DEF Decodable, Written
  <2> QED BY <1>0, <1>3, <2>1, <2>2 DEF Loose, Written
<1> QED BY <1>1, <1>2, <1>3

\* A read from the bytes, with every column filled in, is the row they stand for.
LEMMA FilledIn ==
  ASSUME NEW i, NEW k, NEW p
  PROVE  filled(Entry(i, k, Seen(p))) = Entry(i, k, rowOf(p))
<1>1. Seen(p).left = leftoverOf(p) /\ rowOf(p).left = leftoverOf(p) /\ rowOf(p).cells = cellsOf(p)
  BY DEF Seen, rowOf
<1>2. cellsOf(Seen(p).cells) = cellsOf(p)
  <2> DEFINE q == Seen(p).cells
  <2>1. CASE mode = "struct"
    <3>1. q = [c \in Columns |-> Cell(p, c)]
      BY <2>1 DEF Seen, rowOf, cellsOf, Cell
    <3> HIDE DEF q
    <3>2. \A c \in Columns : Cell(q, c) = Cell(p, c)
      BY <3>1 DEF Cell
    <3> QED BY <3>2 DEF cellsOf, Cell, q
  <2>2. CASE mode # "struct"
    <3>1. q = [c \in DOMAIN p \cap Columns |-> p[c]]
      BY <2>2 DEF Seen, Restrict
    <3> HIDE DEF q
    <3>2. \A c \in Columns : Cell(q, c) = Cell(p, c)
      BY <3>1 DEF Cell
    <3> QED BY <3>2 DEF cellsOf, Cell, q
  <2> QED BY <2>1, <2>2
<1>3. filled(Entry(i, k, Seen(p))) =
        [id |-> i, key |-> k, row |-> [cells |-> cellsOf(Seen(p).cells), left |-> Seen(p).left]]
  BY DEF filled, Entry
<1> QED BY <1>1, <1>2, <1>3 DEF Entry, rowOf

-----------------------------------------------------------------------------
\* The rows that the stored bytes stand for.
typed == [i \in DOMAIN records |-> rowOf(records[i])]

\* The two engines keep one record under id, or both none.
OneAt(id) ==
    /\ id \in DOMAIN storedRecords <=> id \in DOMAIN records
    /\ id \in DOMAIN records =>
          /\ storedRecords[id] = rowOf(records[id])
          /\ storedKeys[id] = keys[id]
          /\ Decodable(mode, records[id])

\* The two collections keep one map, but for the records that are apart.
OneMap ==
    /\ mode \in {"struct", "map"}
    /\ DOMAIN keys = DOMAIN records
    /\ apart \subseteq DOMAIN records
    /\ \A id : id \notin apart => OneAt(id)

\* The inductive invariant: the columnar engine's own, that the two are one map, and
\* what is claimed of the answers and of the selections.
PInv == IInv /\ OneMap /\ SameOutcome /\ SelectionsDifferByAbsent

\* What the serialized engine of a struct collection keeps: data that decode, with
\* a key for each.
BytesDecode ==
    /\ mode = "struct"
    /\ DOMAIN keys = DOMAIN records
    /\ \A id \in DOMAIN records : Decodable(mode, records[id])

\* The serialized engine, and the contract as it sees it, compute with the same
\* operators on rows and maps as the columnar engine.
LEMMA SerializedOperators ==
  /\ \A f, x, y : Serialized!Put(f, x, y) = Put(f, x, y)
  /\ \A f, x : Serialized!Drop(f, x) = Drop(f, x)
  /\ \A p : Serialized!rowOf(p) = rowOf(p)
  /\ \A m, p : Serialized!Decodable(m, p) <=> Decodable(m, p)
  /\ \A d, u : Serialized!applyUpdatesToMap(d, u) = applyUpdatesToMap(d, u)
  /\ \A o : Serialized!Outcome(o) = Outcome(o)
  /\ \A S : Serialized!RowsOutcome(S) = RowsOutcome(S)
  /\ \A i, k, r : Serialized!Entry(i, k, r) = Entry(i, k, r)
  /\ \A p : Serialized!accepts(p) <=> Taken(p)
  /\ \A p : Serialized!view(p) = Seen(p)
<1>1. \A f, x, y : Serialized!Put(f, x, y) = Put(f, x, y)
  BY Zenon DEF Serialized!Put, Put
<1>2. \A f, x : Serialized!Drop(f, x) = Drop(f, x)
  BY Zenon DEF Serialized!Drop, Drop, Serialized!Restrict, Restrict
<1>3. \A p : Serialized!rowOf(p) = rowOf(p)
  BY Zenon DEF Serialized!rowOf, rowOf, Serialized!cellsOf, cellsOf, Serialized!leftoverOf,
               leftoverOf, Serialized!Restrict, Restrict
<1>4. \A m, p : Serialized!Decodable(m, p) <=> Decodable(m, p)
  BY Zenon DEF Serialized!Decodable, Decodable, Serialized!Fields, Fields
<1>5. \A d, u : Serialized!applyUpdatesToMap(d, u) = applyUpdatesToMap(d, u)
  BY Zenon DEF Serialized!applyUpdatesToMap, applyUpdatesToMap, Serialized!applyPathUpdate,
               applyPathUpdate, Serialized!Restrict, Restrict
<1>6. /\ \A o : Serialized!Outcome(o) = Outcome(o)
      /\ \A S : Serialized!RowsOutcome(S) = RowsOutcome(S)
      /\ \A i, k, r : Serialized!Entry(i, k, r) = Entry(i, k, r)
  BY Zenon DEF Serialized!Outcome, Outcome, Serialized!RowsOutcome, RowsOutcome,
               Serialized!Entry, Entry
<1>7. \A p : Serialized!accepts(p) <=> Taken(p)
  BY <1>4, Zenon DEF Serialized!accepts, Taken
<1>8. \A p : Serialized!view(p) = Seen(p)
  BY <1>3, Zenon DEF Serialized!view, Seen, Serialized!leftoverOf, leftoverOf,
                     Serialized!Restrict, Restrict
<1> QED BY <1>1, <1>2, <1>3, <1>4, <1>5, <1>6, <1>7, <1>8

\* typed is the map that the serialized engine shows to the contract.
LEMMA TypedSeen ==
  Serialized!typedRecords = typed /\ Serialized!typedRecords' = typed'
<1>1. \A p : Serialized!rowOf(p) = rowOf(p)
  BY SerializedOperators
<1> QED BY <1>1 DEF Serialized!typedRecords, typed

\* A write and a delete of the bytes, seen as rows.
LEMMA TypedChange ==
  ASSUME NEW id, NEW data
  PROVE  /\ records' = Put(records, id, data) => typed' = Put(typed, id, rowOf(data))
         /\ records' = Drop(records, id) => typed' = Drop(typed, id)
<1>1. ASSUME records' = Put(records, id, data) PROVE typed' = Put(typed, id, rowOf(data))
  <2>1. typed' = [i \in DOMAIN records' |-> rowOf(records'[i])]
    BY DEF typed
  <2>2. /\ DOMAIN records' = DOMAIN records \cup {id}
        /\ \A i \in DOMAIN records' : records'[i] = IF i = id THEN data ELSE records[i]
    BY <1>1 DEF Put
  <2>3. DOMAIN typed = DOMAIN records /\ \A i \in DOMAIN records : typed[i] = rowOf(records[i])
    BY DEF typed
  <2>4. \A i \in DOMAIN records \cup {id} :
            rowOf(records'[i]) = IF i = id THEN rowOf(data) ELSE typed[i]
    BY <2>2, <2>3
  <2> QED BY <2>1, <2>2, <2>3, <2>4 DEF Put
<1>2. ASSUME records' = Drop(records, id) PROVE typed' = Drop(typed, id)
  <2>1. typed' = [i \in DOMAIN records' |-> rowOf(records'[i])]
    BY DEF typed
  <2>2. /\ DOMAIN records' = DOMAIN records \ {id}
        /\ \A i \in DOMAIN records' : records'[i] = records[i]
    BY <1>2 DEF Drop, Restrict
  <2>3. DOMAIN typed = DOMAIN records /\ \A i \in DOMAIN records : typed[i] = rowOf(records[i])
    BY DEF typed
  <2>4. \A i \in DOMAIN records \ {id} : rowOf(records'[i]) = typed[i]
    BY <2>2, <2>3
  <2> QED BY <2>1, <2>2, <2>3, <2>4 DEF Drop, Restrict
<1> QED BY <1>1, <1>2

\* The serialized engine reports an outcome and changes nothing.
Told(r) == answer' = r /\ UNCHANGED <<mode, records, keys>>

\* The serialized engine's calls, in those terms.
LEMMA SerializedCalls ==
  /\ \A id : Serialized!exists(id) <=> Told(Outcome(IF id \in DOMAIN records THEN "true" ELSE "false"))
  /\ \A key : Serialized!load(key) <=>
        Told(IF keyID[key] \in DOMAIN records
             THEN RowsOutcome({Entry(keyID[key], key, Seen(records[keyID[key]]))})
             ELSE Outcome("notFound"))
  /\ Serialized!rows <=>
        Told(RowsOutcome({Entry(i, keys[i], Seen(records[i])) : i \in DOMAIN records}))
  /\ \A id : Serialized!delete(id) <=>
        /\ records' = Drop(records, id) /\ keys' = Drop(keys, id)
        /\ answer' = Outcome("ok") /\ mode' = mode
  /\ \A key, data, overwrite : Serialized!store(key, data, overwrite) <=>
        LET taken == ~overwrite /\ keyID[key] \in DOMAIN records IN
        \/ taken /\ Told(Outcome("duplicate"))
        \/ ~taken /\ ~Taken(data) /\ Told(Outcome("invalid"))
        \/ /\ ~taken /\ Taken(data)
           /\ records' = Put(records, keyID[key], data) /\ keys' = Put(keys, keyID[key], key)
           /\ answer' = Outcome("ok") /\ mode' = mode
  /\ \A id, updates : Serialized!update(id, updates) <=>
        LET next == applyUpdatesToMap(records[id], updates) IN
        \/ id \notin DOMAIN records /\ Told(Outcome("notFound"))
        \/ id \in DOMAIN records /\ ~Taken(next) /\ Told(Outcome("invalid"))
        \/ /\ id \in DOMAIN records /\ Taken(next)
           /\ records' = Put(records, id, next)
           /\ answer' = Outcome("ok") /\ UNCHANGED <<mode, keys>>
<1>0. \A r : Serialized!Reports(r) <=> Told(r)
  BY Zenon DEF Serialized!Reports, Told
<1>1. ASSUME NEW id
      PROVE  Serialized!exists(id) <=> Told(Outcome(IF id \in DOMAIN records THEN "true" ELSE "false"))
  BY <1>0, SerializedOperators, Zenon DEF Serialized!exists
<1>2. ASSUME NEW key
      PROVE  Serialized!load(key) <=>
               Told(IF keyID[key] \in DOMAIN records
                    THEN RowsOutcome({Entry(keyID[key], key, Seen(records[keyID[key]]))})
                    ELSE Outcome("notFound"))
  <2>1. /\ Serialized!RowsOutcome({Serialized!Entry(keyID[key], key, Serialized!view(records[keyID[key]]))})
             = RowsOutcome({Entry(keyID[key], key, Seen(records[keyID[key]]))})
        /\ Serialized!Outcome("notFound") = Outcome("notFound")
    BY SerializedOperators
  <2> QED BY <1>0, <2>1 DEF Serialized!load
<1>3. Serialized!rows <=>
        Told(RowsOutcome({Entry(i, keys[i], Seen(records[i])) : i \in DOMAIN records}))
  <2>1. {Serialized!Entry(i, keys[i], Serialized!view(records[i])) : i \in DOMAIN records}
           = {Entry(i, keys[i], Seen(records[i])) : i \in DOMAIN records}
    BY SerializedOperators
  <2> QED BY <1>0, <2>1, SerializedOperators DEF Serialized!rows
<1>4. ASSUME NEW id
      PROVE  Serialized!delete(id) <=>
                /\ records' = Drop(records, id) /\ keys' = Drop(keys, id)
                /\ answer' = Outcome("ok") /\ mode' = mode
  BY SerializedOperators DEF Serialized!delete
<1>5. ASSUME NEW key, NEW data, NEW overwrite
      PROVE  Serialized!store(key, data, overwrite) <=>
        LET taken == ~overwrite /\ keyID[key] \in DOMAIN records IN
        \/ taken /\ Told(Outcome("duplicate"))
        \/ ~taken /\ ~Taken(data) /\ Told(Outcome("invalid"))
        \/ /\ ~taken /\ Taken(data)
           /\ records' = Put(records, keyID[key], data) /\ keys' = Put(keys, keyID[key], key)
           /\ answer' = Outcome("ok") /\ mode' = mode
  BY <1>0, SerializedOperators DEF Serialized!store
<1>6. ASSUME NEW id, NEW updates
      PROVE  Serialized!update(id, updates) <=>
        LET next == applyUpdatesToMap(records[id], updates) IN
        \/ id \notin DOMAIN records /\ Told(Outcome("notFound"))
        \/ id \in DOMAIN records /\ ~Taken(next) /\ Told(Outcome("invalid"))
        \/ /\ id \in DOMAIN records /\ Taken(next)
           /\ records' = Put(records, id, next)
           /\ answer' = Outcome("ok") /\ UNCHANGED <<mode, keys>>
  BY <1>0, SerializedOperators DEF Serialized!update
<1> QED BY <1>1, <1>2, <1>3, <1>4, <1>5, <1>6

\* No call changes what kind of collection it is.
LEMMA ModeKept ==
  ASSUME [Serialized!Next]_(Serialized!vars)
  PROVE  mode' = mode
<1>1. ASSUME NEW r, Told(r) PROVE mode' = mode
  BY <1>1 DEF Told
<1>2. ASSUME Serialized!rows \/ (\E id : Serialized!exists(id)) \/ (\E key : Serialized!load(key))
      PROVE  mode' = mode
  <2>1. \E r : Told(r)
    BY <1>2, SerializedCalls
  <2> QED BY <1>1, <2>1
<1>3. ASSUME NEW id, NEW updates, Serialized!delete(id) \/ Serialized!update(id, updates)
      PROVE  mode' = mode
  BY <1>1, <1>3, SerializedCalls
<1>4. ASSUME NEW key, NEW data, NEW overwrite, Serialized!store(key, data, overwrite)
      PROVE  mode' = mode
  BY <1>1, <1>4, SerializedCalls
<1>5. ASSUME UNCHANGED Serialized!vars PROVE mode' = mode
  BY <1>5 DEF Serialized!vars
<1> QED BY <1>2, <1>3, <1>4, <1>5 DEF Serialized!Next

\* The serialized engine of a struct collection only ever keeps data that decode,
\* each with a key.
LEMMA BytesPreserved ==
  ASSUME BytesDecode, [Serialized!Next]_(Serialized!vars)
  PROVE  BytesDecode'
<1>0. mode = "struct" /\ \A p : Taken(p) <=> Decodable(mode, p)
  BY DEF BytesDecode, Taken
<1>1. ASSUME UNCHANGED <<mode, records, keys>> PROVE BytesDecode'
  BY <1>1 DEF BytesDecode
<1>2. ASSUME NEW r, Told(r) PROVE BytesDecode'
  BY <1>1, <1>2 DEF Told
<1>3. ASSUME NEW id, Serialized!delete(id) PROVE BytesDecode'
  <2>1. records' = Drop(records, id) /\ keys' = Drop(keys, id) /\ mode' = mode
    BY <1>3, SerializedCalls
  <2> QED BY <2>1 DEF BytesDecode, Drop, Restrict
<1>4. ASSUME NEW id, NEW key, NEW data, records' = Put(records, id, data), keys' = Put(keys, id, key),
             mode' = mode, Decodable(mode, data)
      PROVE  BytesDecode'
  BY <1>4 DEF BytesDecode, Put
<1>5. ASSUME NEW key, NEW data, NEW overwrite, Serialized!store(key, data, overwrite)
      PROVE  BytesDecode'
  <2>1. \/ \E r : Told(r)
        \/ /\ records' = Put(records, keyID[key], data) /\ keys' = Put(keys, keyID[key], key)
           /\ mode' = mode /\ Decodable(mode, data)
    BY <1>0, <1>5, SerializedCalls
  <2> QED BY <1>2, <1>4, <2>1
<1>6. ASSUME NEW id, NEW updates, Serialized!update(id, updates) PROVE BytesDecode'
  <2> DEFINE next == applyUpdatesToMap(records[id], updates)
  <2>1. \/ \E r : Told(r)
        \/ /\ id \in DOMAIN records /\ records' = Put(records, id, next) /\ keys' = keys
           /\ mode' = mode /\ Decodable(mode, next)
    BY <1>0, <1>6, SerializedCalls
  <2> HIDE DEF next
  <2>2. CASE /\ id \in DOMAIN records /\ records' = Put(records, id, next) /\ keys' = keys
             /\ mode' = mode /\ Decodable(mode, next)
    BY <2>2 DEF BytesDecode, Put
  <2> QED BY <1>2, <2>1, <2>2
<1>7. ASSUME Serialized!rows \/ (\E id : Serialized!exists(id)) \/ (\E key : Serialized!load(key))
      PROVE  BytesDecode'
  <2>1. \E r : Told(r)
    BY <1>7, SerializedCalls
  <2> QED BY <1>2, <2>1
<1>8. ASSUME UNCHANGED Serialized!vars PROVE UNCHANGED <<mode, records, keys>>
  BY <1>8 DEF Serialized!vars
<1> QED BY <1>1, <1>3, <1>5, <1>6, <1>7, <1>8 DEF Serialized!Next

\* Bytes of which the columnar engine keeps the row, and that row's map view, take
\* a list of updates alike: both results are accepted or refused, and give one row.
LEMMA UpdatedAlike ==
  ASSUME NEW id, Decodable(mode, records[id]), NEW updates \in UpdateLists
  PROVE  LET bytes == applyUpdatesToMap(records[id], updates)
             next == applyUpdatesToMap(rowData(rowOf(records[id])), updates)
         IN  /\ rowOf(bytes) = rowOf(next)
             /\ Decodable(mode, bytes) <=> Decodable(mode, next)
<1> DEFINE r == rowOf(records[id])
<1>1. r \in Row
  BY DecodedRow DEF rowOf, Row
<1>2. rowOf(rowData(r)) = rowOf(records[id])
  BY <1>1, RowDataRow
<1>3. Alike(records[id], rowData(r))
  BY <1>2, RowsAlike
<1>4. Len(updates) \in Nat
  BY ColumnarAssumption
<1> HIDE DEF r
<1>5. Alike(applyUpdatesToMap(records[id], updates), applyUpdatesToMap(rowData(r), updates))
  BY <1>3, <1>4, UpdatesAlike
<1> QED BY <1>5, RowsAlike, AcceptedAlike DEF r

-----------------------------------------------------------------------------
\* g is f but for what it has at x.
Off(f, g, x) ==
    \A i : i # x => /\ i \in DOMAIN g <=> i \in DOMAIN f
                    /\ i \in DOMAIN f => g[i] = f[i]

\* What a write or a delete leaves alone.
LEMMA OffChange ==
  ASSUME NEW f, NEW x, NEW y
  PROVE  Off(f, f, x) /\ Off(f, Put(f, x, y), x) /\ Off(f, Drop(f, x), x)
<1>1. Off(f, f, x)
  BY DEF Off
<1>2. Off(f, Put(f, x, y), x)
  BY DEF Off, Put
<1>3. Off(f, Drop(f, x), x)
  BY DEF Off, Drop, Restrict
<1> QED BY <1>1, <1>2, <1>3

\* A call about one id leaves what the engines keep of the others.
LEMMA OthersStay ==
  ASSUME NEW x, NEW i, i # x, OneAt(i), mode' = mode,
         Off(storedRecords, storedRecords', x), Off(storedKeys, storedKeys', x),
         Off(records, records', x), Off(keys, keys', x),
         DOMAIN keys = DOMAIN records, DOMAIN storedKeys = DOMAIN storedRecords
  PROVE  OneAt(i)'
<1>1. /\ i \in DOMAIN storedRecords' <=> i \in DOMAIN storedRecords
      /\ i \in DOMAIN records' <=> i \in DOMAIN records
  BY DEF Off
<1>2. ASSUME i \in DOMAIN records
      PROVE  /\ storedRecords'[i] = storedRecords[i] /\ storedKeys'[i] = storedKeys[i]
             /\ records'[i] = records[i] /\ keys'[i] = keys[i]
  <2>1. i \in DOMAIN storedRecords /\ i \in DOMAIN storedKeys /\ i \in DOMAIN keys
    BY <1>2 DEF OneAt
  <2> QED BY <1>2, <2>1 DEF Off
<1> QED BY <1>1, <1>2 DEF OneAt

\* A call about one id keeps the map when it leaves that id apart or at one record.
LEMMA OneMapKept ==
  ASSUME OneMap, NEW x, mode' = mode,
         Off(storedRecords, storedRecords', x), Off(storedKeys, storedKeys', x),
         Off(records, records', x), Off(keys, keys', x),
         DOMAIN keys' = DOMAIN records',
         x \in apart' \/ OneAt(x)',
         x \in apart' => x \in DOMAIN records',
         \A i : i # x => (i \in apart' <=> i \in apart)
  PROVE  OneMap'
<1>0. DOMAIN storedKeys = DOMAIN storedRecords
  BY MapSeen
<1>1. ASSUME NEW i, i \notin apart' PROVE OneAt(i)'
  <2>1. CASE i = x
    BY <1>1, <2>1
  <2>2. CASE i # x
    <3>1. OneAt(i)
      BY <1>1, <2>2 DEF OneMap
    <3> QED BY <1>0, <2>2, <3>1, OthersStay DEF OneMap
  <2> QED BY <2>1, <2>2
<1>2. ASSUME NEW i \in apart' PROVE i \in DOMAIN records'
  <2>1. CASE i = x
    BY <1>2, <2>1
  <2>2. CASE i # x
    BY <1>2, <2>2 DEF OneMap, Off
  <2> QED BY <2>1, <2>2
<1> QED BY <1>1, <1>2 DEF OneMap

\* A call that leaves both collections alone keeps the map.
LEMMA NothingStored ==
  ASSUME OneMap, UNCHANGED slotVars, UNCHANGED <<records, keys, apart>>
  PROVE  OneMap'
<1>1. UNCHANGED <<mode, storedRecords, storedKeys>>
  BY ReportSeen
<1> QED BY <1>1 DEF OneMap, OneAt

\* An id that is not apart is stored by both engines, with one row and key, or by
\* neither.
LEMMA SameRecord ==
  ASSUME IInv, OneMap, NEW id, id \notin apart
  PROVE  /\ stored(id) <=> id \in DOMAIN records
         /\ id \in DOMAIN idToSlot <=> id \in DOMAIN records
         /\ id \in DOMAIN records => /\ rowAt(idToSlot[id]) = rowOf(records[id])
                                     /\ slotToKey[idToSlot[id]] = keys[id]
                                     /\ Decodable(mode, records[id])
<1>1. OneAt(id) /\ DOMAIN storedRecords = DOMAIN idToSlot
  BY DEF OneMap, storedRecords
<1>2. stored(id) <=> id \in DOMAIN idToSlot
  BY StoredIsMapped DEF IInv
<1>3. ASSUME id \in DOMAIN records
      PROVE  /\ rowAt(idToSlot[id]) = storedRecords[id]
             /\ slotToKey[idToSlot[id]] = storedKeys[id]
  BY <1>1, <1>3 DEF OneAt, storedRecords, storedKeys
<1> QED BY <1>1, <1>2, <1>3 DEF OneAt

\* Outcomes without rows are the same when their words are, or the id is apart.
LEMMA OutcomesAlike ==
  ASSUME NEW o, NEW p, result' = Outcome(o), answer' = Outcome(p), o = p \/ asked' \in apart'
  PROVE  SameOutcome'
<1>1. result'.out = o /\ answer'.out = p /\ result'.rows = {} /\ answer'.rows = {}
  BY DEF Outcome
<1> QED BY <1>1 DEF SameOutcome, Agreed

\* The entries of a set of ids, as the columnar engine hands them back.
EntriesOf(S) == {Entry(i, keys[i], rowOf(records[i])) : i \in S}

\* The reads answer alike about every record that is not apart.
LEMMA ReadsAlike ==
  ASSUME IInv, OneMap
  PROVE  /\ bothRows => SameOutcome'
         /\ \A id : bothExist(id) => SameOutcome'
         /\ \A key : bothLoad(key) => SameOutcome'
<1>1. ASSUME bothRows PROVE SameOutcome'
  <2> DEFINE S == {Entry(i, keys[i], Seen(records[i])) : i \in DOMAIN records}
             R == buildRows(DOMAIN idToSlot)
             A == DOMAIN records \ apart
  <2>1. result' = RowsOutcome(R) /\ answer' = RowsOutcome(S) /\ apart' = apart
    BY <1>1, SerializedCalls DEF bothRows, rows, Reports, Told
  <2>2. result'.out = answer'.out /\ result'.rows = R /\ answer'.rows = S
    BY <2>1 DEF RowsOutcome
  <2>3. R = {Entry(i, slotToKey[idToSlot[i]], rowAt(idToSlot[i])) : i \in DOMAIN idToSlot}
    BY DEF buildRows
  <2>4. \A i, k, r : Entry(i, k, r).id = i
    BY DEF Entry
  <2>5. \A i : i \notin apart => /\ i \in DOMAIN idToSlot <=> i \in DOMAIN records
                                 /\ i \in DOMAIN records =>
                                       /\ rowAt(idToSlot[i]) = rowOf(records[i])
                                       /\ slotToKey[idToSlot[i]] = keys[i]
    BY SameRecord
  <2>6. {e \in R : e.id \notin apart} = EntriesOf(A)
    <3>1. ASSUME NEW e \in R, e.id \notin apart PROVE e \in EntriesOf(A)
      <4>1. PICK i \in DOMAIN idToSlot : e = Entry(i, slotToKey[idToSlot[i]], rowAt(idToSlot[i]))
        BY <2>3, <3>1
      <4>2. i \in A /\ e = Entry(i, keys[i], rowOf(records[i]))
        BY <2>4, <2>5, <3>1, <4>1
      <4> QED BY <4>2 DEF EntriesOf
    <3>2. ASSUME NEW e \in EntriesOf(A) PROVE e \in R /\ e.id \notin apart
      <4>1. PICK i \in A : e = Entry(i, keys[i], rowOf(records[i]))
        BY <3>2 DEF EntriesOf
      <4>2. i \in DOMAIN idToSlot /\ e = Entry(i, slotToKey[idToSlot[i]], rowAt(idToSlot[i]))
        BY <2>5, <4>1
      <4> QED BY <2>3, <2>4, <4>1, <4>2
    <3> QED BY <3>1, <3>2
  <2>7. {filled(e) : e \in {x \in S : x.id \notin apart}} = EntriesOf(A)
    <3>0. \A i : filled(Entry(i, keys[i], Seen(records[i]))) = Entry(i, keys[i], rowOf(records[i]))
      BY FilledIn
    <3>1. ASSUME NEW e \in S, e.id \notin apart PROVE filled(e) \in EntriesOf(A)
      <4>1. PICK i \in DOMAIN records : e = Entry(i, keys[i], Seen(records[i]))
        BY <3>1
      <4>2. i \in A /\ filled(e) = Entry(i, keys[i], rowOf(records[i]))
        BY <2>4, <3>0, <3>1, <4>1
      <4> QED BY <4>2 DEF EntriesOf
    <3>2. ASSUME NEW y \in EntriesOf(A) PROVE \E e \in S : e.id \notin apart /\ y = filled(e)
      <4>1. PICK i \in A : y = Entry(i, keys[i], rowOf(records[i]))
        BY <3>2 DEF EntriesOf
      <4> DEFINE e == Entry(i, keys[i], Seen(records[i]))
      <4>2. e \in S /\ e.id \notin apart /\ y = filled(e)
        BY <2>4, <3>0, <4>1
      <4> QED BY <4>2
    <3> HIDE DEF S
    <3> QED BY <3>1, <3>2
  <2> HIDE DEF R, S, A
  <2> QED BY <2>1, <2>2, <2>6, <2>7 DEF SameOutcome, Agreed
<1>2. ASSUME NEW id, bothExist(id) PROVE SameOutcome'
  <2> DEFINE o == IF mode # "broken" /\ stored(id) THEN "true" ELSE "false"
             p == IF id \in DOMAIN records THEN "true" ELSE "false"
  <2>1. result' = Outcome(o) /\ answer' = Outcome(p) /\ asked' = id /\ apart' = apart
    BY <1>2, SerializedCalls DEF bothExist, exists, Reports, Told
  <2>2. o = p \/ id \in apart
    BY SameRecord DEF OneMap
  <2> HIDE DEF o, p
  <2> QED BY <2>1, <2>2, OutcomesAlike
<1>3. ASSUME NEW key, bothLoad(key) PROVE SameOutcome'
  <2> DEFINE id == keyID[key]
             x == Entry(id, key, rowAt(idToSlot[id]))
             y == Entry(id, key, Seen(records[id]))
  <2>1. /\ result' = IF stored(id) THEN RowsOutcome({x}) ELSE Outcome("notFound")
        /\ answer' = IF id \in DOMAIN records THEN RowsOutcome({y}) ELSE Outcome("notFound")
        /\ asked' = id /\ apart' = apart
    BY <1>3, SerializedCalls DEF bothLoad, load, Reports, Told
  <2>2. x.id = id /\ y.id = id
    BY DEF Entry
  <2>3. CASE id \in apart
    <3> HIDE DEF x, y
    <3>1. result'.rows \subseteq {x} /\ answer'.rows \subseteq {y}
      BY <2>1 DEF RowsOutcome, Outcome
    <3> QED BY <2>1, <2>2, <2>3, <3>1 DEF SameOutcome, Agreed
  <2>4. CASE id \notin apart /\ id \notin DOMAIN records
    <3>1. ~stored(id)
      BY <2>4, SameRecord
    <3>2. result' = Outcome("notFound") /\ answer' = Outcome("notFound")
      BY <2>1, <2>4, <3>1
    <3> QED BY <3>2, OutcomesAlike
  <2>5. CASE id \notin apart /\ id \in DOMAIN records
    <3>1. stored(id) /\ rowAt(idToSlot[id]) = rowOf(records[id])
      BY <2>5, SameRecord
    <3>2. x = filled(y)
      BY <3>1, FilledIn
    <3> HIDE DEF x, y
    <3>3. /\ result'.out = "rows" /\ answer'.out = "rows"
          /\ result'.rows = {x} /\ answer'.rows = {y}
      BY <2>1, <2>5, <3>1 DEF RowsOutcome
    <3> QED BY <2>1, <2>2, <2>5, <3>2, <3>3 DEF SameOutcome, Agreed
  <2> QED BY <2>3, <2>4, <2>5
<1> QED BY <1>1, <1>2, <1>3

\* The reads leave the map alone.
LEMMA ReadsKeep ==
  ASSUME OneMap
  PROVE  /\ bothRows => OneMap'
         /\ \A id : bothExist(id) => OneMap'
         /\ \A key : bothLoad(key) => OneMap'
<1>1. ASSUME NEW r, NEW s, Reports(r), Told(s), apart' = apart PROVE OneMap'
  BY <1>1, NothingStored DEF Reports, Told
<1>2. ASSUME bothRows PROVE \E r, s : Reports(r) /\ Told(s) /\ apart' = apart
  BY <1>2, SerializedCalls DEF bothRows, rows
<1>3. ASSUME NEW id, bothExist(id) PROVE \E r, s : Reports(r) /\ Told(s) /\ apart' = apart
  BY <1>3, SerializedCalls DEF bothExist, exists
<1>4. ASSUME NEW key, bothLoad(key) PROVE \E r, s : Reports(r) /\ Told(s) /\ apart' = apart
  BY <1>4, SerializedCalls DEF bothLoad, load
<1> QED BY <1>1, <1>2, <1>3, <1>4

\* The deletes remove one record from both maps, whether the slot is tombstoned or
\* the slices are compacted.
LEMMA DeletesAlike ==
  ASSUME IInv, OneMap, NEW id \in Ids, bothDelete(id)
  PROVE  OneMap' /\ SameOutcome'
<1>1. storedRecords' = Drop(storedRecords, id) /\ storedKeys' = Drop(storedKeys, id)
  BY AbsentSeen, TombstoneSeen, CompactSeen DEF bothDelete
<1>2. result' = Outcome("ok") /\ apart' = apart \ {id}
  BY DEF bothDelete, deleteAbsent, deleteTombstone, deleteCompact, Reports
<1>3. /\ records' = Drop(records, id) /\ keys' = Drop(keys, id)
      /\ answer' = Outcome("ok") /\ mode' = mode
  BY SerializedCalls DEF bothDelete
<1>4. /\ Off(storedRecords, storedRecords', id) /\ Off(storedKeys, storedKeys', id)
      /\ Off(records, records', id) /\ Off(keys, keys', id)
  BY <1>1, <1>3, OffChange
<1>5. DOMAIN keys' = DOMAIN records' /\ id \notin DOMAIN records' /\ id \notin DOMAIN storedRecords'
  BY <1>1, <1>3 DEF Drop, Restrict, OneMap
<1>6. OneAt(id)'
  BY <1>5 DEF OneAt
<1>7. OneMap'
  BY <1>2, <1>3, <1>4, <1>5, <1>6, OneMapKept
<1> QED BY <1>2, <1>3, <1>7, OutcomesAlike

\* What both took is one record.
LEMMA OnePut ==
  ASSUME NEW id, NEW data, NEW p, rowOf(p) = rowOf(data), mode' = mode, Decodable(mode, p),
         storedRecords' = Put(storedRecords, id, rowOf(data)), records' = Put(records, id, p),
         storedKeys'[id] = keys'[id]
  PROVE  OneAt(id)'
<1>1. /\ id \in DOMAIN storedRecords' /\ storedRecords'[id] = rowOf(data)
      /\ id \in DOMAIN records' /\ records'[id] = p
  BY DEF Put
<1> QED BY <1>1 DEF OneAt

\* The stores take the same data and put the same row, or leave the id apart.
LEMMA StoresAlike ==
  ASSUME IInv, OneMap, NEW key \in Keys, NEW data \in Payloads, NEW overwrite \in BOOLEAN,
         bothStore(key, data, overwrite)
  PROVE  OneMap' /\ SameOutcome'
<1> DEFINE id == keyID[key]
           free == overwrite \/ id \notin DOMAIN records
           loose == free /\ Loose(data)
           taken == free /\ Decodable(mode, data)
<1>0. mode \in {"struct", "map"} /\ DOMAIN keys = DOMAIN records /\ apart \subseteq DOMAIN records
  BY DEF OneMap
<1>1. Written(data)
  BY ColumnarAssumption DEF Payload, PartialFcn, Written
<1>2. /\ Taken(data) <=> Decodable(mode, data) \/ Loose(data)
      /\ ~(Decodable(mode, data) /\ Loose(data))
  BY <1>0, <1>1, TakenExactly
<1>3. /\ asked' = id
      /\ apart' = CASE loose -> apart \cup {id} [] taken -> apart \ {id} [] OTHER -> apart
  BY DEF bothStore
<1>4. /\ loose => apart' = apart \cup {id}
      /\ taken => apart' = apart \ {id}
      /\ ~loose /\ ~taken => apart' = apart
  BY <1>2, <1>3
<1>5. id \notin apart => (stored(id) <=> id \in DOMAIN records)
  BY SameRecord
<1>6. \/ storeDuplicate(key, overwrite)
      \/ storeInvalid(key, data, overwrite)
      \/ storeRow(key, data, overwrite)
  BY DEF bothStore
<1>7. /\ ~free => Told(Outcome("duplicate"))
      /\ free /\ ~Taken(data) => Told(Outcome("invalid"))
      /\ free /\ Taken(data) =>
            /\ records' = Put(records, id, data) /\ keys' = Put(keys, id, key)
            /\ answer' = Outcome("ok") /\ mode' = mode
  BY SerializedCalls DEF bothStore
<1>8. PICK o : result' = Outcome(o)
  BY <1>6 DEF storeDuplicate, storeInvalid, storeRow, Reports
<1>9. PICK p : answer' = Outcome(p)
  BY <1>7 DEF Told
<1>10. mode' = mode /\ Off(storedRecords, storedRecords', id) /\ Off(storedKeys, storedKeys', id)
  <2>1. CASE storeDuplicate(key, overwrite) \/ storeInvalid(key, data, overwrite)
    <3>1. UNCHANGED <<mode, storedRecords, storedKeys>>
      BY <2>1, ReportSeen DEF storeDuplicate, storeInvalid, Reports
    <3> QED BY <3>1, OffChange
  <2>2. CASE storeRow(key, data, overwrite)
    <3>1. storedRecords' = Put(storedRecords, id, rowOf(data)) /\ storedKeys' = Put(storedKeys, id, key)
      BY <2>2, StoreSeen
    <3>2. mode' = mode
      BY <2>2 DEF storeRow
    <3> QED BY <3>1, <3>2, OffChange
  <2> QED BY <1>6, <2>1, <2>2
<1>11. Off(records, records', id) /\ Off(keys, keys', id) /\ DOMAIN keys' = DOMAIN records'
  <2>1. CASE free /\ Taken(data)
    <3>1. records' = Put(records, id, data) /\ keys' = Put(keys, id, key)
      BY <1>7, <2>1
    <3>2. DOMAIN keys' = DOMAIN records'
      BY <1>0, <3>1 DEF Put
    <3> QED BY <3>1, <3>2, OffChange
  <2>2. CASE ~(free /\ Taken(data))
    <3>1. records' = records /\ keys' = keys
      BY <1>7, <2>2 DEF Told
    <3> QED BY <1>0, <3>1, OffChange
  <2> QED BY <2>1, <2>2
<1>12. \A i : i # id => (i \in apart' <=> i \in apart)
  BY <1>4
<1>13. id \in apart' => id \in DOMAIN records'
  <2>1. CASE loose
    <3>1. records' = Put(records, id, data)
      BY <1>2, <1>7, <2>1
    <3> QED BY <3>1 DEF Put
  <2>2. CASE ~loose
    <3> SUFFICES ASSUME id \in apart' PROVE id \in DOMAIN records'
      OBVIOUS
    <3>1. ~taken /\ id \in apart
      BY <1>4, <2>2
    <3>2. ~(free /\ Taken(data))
      BY <1>2, <2>2, <3>1
    <3>3. records' = records
      BY <1>7, <3>2 DEF Told
    <3> QED BY <1>0, <3>1, <3>3
  <2> QED BY <2>1, <2>2
<1>14. id \in apart' \/ (OneAt(id)' /\ o = p)
  <2> SUFFICES ASSUME id \notin apart' PROVE OneAt(id)' /\ o = p
    OBVIOUS
  <2>0. ~loose /\ (~taken => id \notin apart)
    BY <1>4
  <2>1. CASE taken
    <3>1. ~overwrite => ~stored(id)
      BY <1>0, <1>5, <2>1
    <3>2. storeRow(key, data, overwrite)
      BY <1>6, <2>1, <3>1 DEF storeDuplicate, storeInvalid
    <3>3. storedRecords' = Put(storedRecords, id, rowOf(data)) /\ storedKeys' = Put(storedKeys, id, key)
      BY <3>2, StoreSeen
    <3>4. /\ records' = Put(records, id, data) /\ keys' = Put(keys, id, key)
          /\ answer' = Outcome("ok") /\ mode' = mode
      BY <1>2, <1>7, <2>1
    <3>5. storedKeys'[id] = keys'[id]
      BY <3>3, <3>4 DEF Put
    <3>6. result' = Outcome("ok")
      BY <3>2 DEF storeRow
    <3>7. OneAt(id)'
      BY <2>1, <3>3, <3>4, <3>5, OnePut
    <3>8. o = p
      BY <1>8, <1>9, <3>4, <3>6 DEF Outcome
    <3> QED BY <3>7, <3>8
  <2>2. CASE ~taken
    <3>1. id \notin apart /\ OneAt(id) /\ (stored(id) <=> id \in DOMAIN records)
      BY <1>5, <2>0, <2>2 DEF OneMap
    <3>2. ~(free /\ Taken(data))
      BY <1>2, <2>0, <2>2
    <3>3. records' = records /\ keys' = keys
      BY <1>7, <3>2 DEF Told
    <3>4. /\ ~free => storeDuplicate(key, overwrite)
          /\ free => storeInvalid(key, data, overwrite)
      BY <1>6, <2>2, <3>1 DEF storeDuplicate, storeInvalid, storeRow
    <3>5. UNCHANGED <<mode, storedRecords, storedKeys>>
      BY <3>4, ReportSeen DEF storeDuplicate, storeInvalid, Reports
    <3>6. OneAt(id)'
      BY <3>1, <3>3, <3>5 DEF OneAt
    <3>7. result' = answer'
      BY <1>7, <3>2, <3>4 DEF storeDuplicate, storeInvalid, Reports, Told
    <3>8. o = p
      BY <1>8, <1>9, <3>7 DEF Outcome
    <3> QED BY <3>6, <3>8
  <2> QED BY <2>1, <2>2
<1> HIDE DEF id
<1>15. OneMap'
  BY <1>10, <1>11, <1>12, <1>13, <1>14, OneMapKept
<1>16. SameOutcome'
  BY <1>3, <1>8, <1>9, <1>14, OutcomesAlike
<1> QED BY <1>15, <1>16

\* The updates take the same lists and put the same row, although one starts from
\* the bytes and the other from the cells, or leave the id apart.
LEMMA UpdatesMadeAlike ==
  ASSUME IInv, OneMap, NEW id \in Ids, NEW updates \in UpdateLists, bothUpdate(id, updates)
  PROVE  OneMap' /\ SameOutcome'
<1> DEFINE bytes == applyUpdatesToMap(records[id], updates)
           next == applyUpdatesToMap(rowData(rowAt(idToSlot[id])), updates)
           named == mode = "struct" /\ namesUnknownField(updates)
           only == Loose(bytes) \/ (named /\ Decodable(mode, bytes))
           part == id \in DOMAIN records /\ only
<1>0. mode \in {"struct", "map"} /\ DOMAIN keys = DOMAIN records /\ apart \subseteq DOMAIN records
  BY DEF OneMap
<1>1. asked' = id /\ apart' = IF part THEN apart \cup {id} ELSE apart
  BY DEF bothUpdate
<1>2. /\ ~stored(id) => Reports(Outcome("notFound"))
      /\ stored(id) /\ (named \/ ~Decodable(mode, next)) => Reports(Outcome("invalid"))
      /\ stored(id) /\ ~(named \/ ~Decodable(mode, next)) =>
            /\ Decodable(mode, next) /\ writeSlot(idToSlot[id], next) /\ result' = Outcome("ok")
            /\ UNCHANGED <<mode, idToSlot, slotToID, slotToKey, live, freeList, deadCount>>
  BY DEF bothUpdate, update
<1>3. /\ id \notin DOMAIN records => Told(Outcome("notFound"))
      /\ id \in DOMAIN records /\ ~Taken(bytes) => Told(Outcome("invalid"))
      /\ id \in DOMAIN records /\ Taken(bytes) =>
            /\ records' = Put(records, id, bytes)
            /\ answer' = Outcome("ok") /\ UNCHANGED <<mode, keys>>
  BY SerializedCalls DEF bothUpdate
<1>4. stored(id) <=> id \in DOMAIN idToSlot
  BY StoredIsMapped DEF IInv
<1>5. ASSUME id \notin apart
      PROVE  /\ stored(id) <=> id \in DOMAIN records
             /\ id \in DOMAIN records =>
                   /\ rowOf(bytes) = rowOf(next)
                   /\ Decodable(mode, bytes) <=> Decodable(mode, next)
                   /\ Taken(bytes) <=> Decodable(mode, bytes) \/ Loose(bytes)
                   /\ ~(Decodable(mode, bytes) /\ Loose(bytes))
  <2>1. stored(id) <=> id \in DOMAIN records
    BY <1>5, SameRecord
  <2>2. ASSUME id \in DOMAIN records
        PROVE  rowAt(idToSlot[id]) = rowOf(records[id]) /\ Decodable(mode, records[id])
    BY <1>5, <2>2, SameRecord
  <2>3. ASSUME id \in DOMAIN records
        PROVE  rowOf(bytes) = rowOf(next) /\ (Decodable(mode, bytes) <=> Decodable(mode, next))
    BY <2>2, <2>3, UpdatedAlike
  <2>4. ASSUME id \in DOMAIN records PROVE Written(bytes)
    <3>1. Written(records[id])
      BY <1>0, <2>2, <2>4 DEF Written, Decodable, Fields
    <3> QED BY <3>1, UpdatesWritten
  <2> HIDE DEF bytes, next
  <2> QED BY <1>0, <2>1, <2>3, <2>4, TakenExactly
<1> HIDE DEF bytes, next
<1>6. PICK o : result' = Outcome(o)
  BY <1>2 DEF Reports
<1>7. PICK p : answer' = Outcome(p)
  BY <1>3 DEF Told
<1>8. mode' = mode /\ Off(storedRecords, storedRecords', id) /\ Off(storedKeys, storedKeys', id)
  <2>1. CASE stored(id) /\ ~(named \/ ~Decodable(mode, next))
    <3>1. storedRecords' = Put(storedRecords, id, rowOf(next)) /\ storedKeys' = storedKeys
      BY <1>0, <1>2, <1>4, <2>1, UpdateSeen
    <3> QED BY <1>2, <2>1, <3>1, OffChange
  <2>2. CASE ~(stored(id) /\ ~(named \/ ~Decodable(mode, next)))
    <3>1. UNCHANGED slotVars
      BY <1>2, <2>2 DEF Reports
    <3>2. UNCHANGED <<mode, storedRecords, storedKeys>>
      BY <3>1, ReportSeen
    <3> QED BY <3>2, OffChange
  <2> QED BY <2>1, <2>2
<1>9. Off(records, records', id) /\ Off(keys, keys', id) /\ DOMAIN keys' = DOMAIN records'
  <2>1. CASE id \in DOMAIN records /\ Taken(bytes)
    <3>1. records' = Put(records, id, bytes) /\ keys' = keys
      BY <1>3, <2>1
    <3>2. DOMAIN keys' = DOMAIN records'
      BY <1>0, <2>1, <3>1 DEF Put
    <3> QED BY <3>1, <3>2, OffChange
  <2>2. CASE ~(id \in DOMAIN records /\ Taken(bytes))
    <3>1. records' = records /\ keys' = keys
      BY <1>3, <2>2 DEF Told
    <3> QED BY <1>0, <3>1, OffChange
  <2> QED BY <2>1, <2>2
<1>10. \A i : i # id => (i \in apart' <=> i \in apart)
  BY <1>1
<1>11. id \in apart' => id \in DOMAIN records'
  <2>1. id \in apart' => id \in DOMAIN records
    BY <1>0, <1>1
  <2>2. DOMAIN records \subseteq DOMAIN records'
    BY <1>3 DEF Told, Put
  <2> QED BY <2>1, <2>2
<1>12. id \in apart' \/ (OneAt(id)' /\ o = p)
  <2> SUFFICES ASSUME id \notin apart' PROVE OneAt(id)' /\ o = p
    OBVIOUS
  <2>0. id \notin apart /\ ~part /\ OneAt(id) /\ (stored(id) <=> id \in DOMAIN records)
    BY <1>1, <1>5 DEF OneMap
  <2>1. CASE id \in DOMAIN records /\ Decodable(mode, next)
    <3>0. Taken(bytes) /\ Decodable(mode, bytes) /\ ~named /\ rowOf(bytes) = rowOf(next)
      BY <1>5, <2>0, <2>1
    <3>1. storedRecords' = Put(storedRecords, id, rowOf(next)) /\ storedKeys' = storedKeys
      BY <1>0, <1>2, <1>4, <2>0, <2>1, <3>0, UpdateSeen
    <3>2. records' = Put(records, id, bytes) /\ keys' = keys /\ mode' = mode /\ answer' = Outcome("ok")
      BY <1>3, <2>1, <3>0
    <3>3. storedKeys'[id] = keys'[id]
      BY <2>0, <2>1, <3>1, <3>2 DEF OneAt
    <3>4. OneAt(id)'
      BY <3>0, <3>1, <3>2, <3>3, OnePut
    <3>5. result' = Outcome("ok")
      BY <1>2, <2>0, <2>1, <3>0
    <3>6. o = p
      BY <1>6, <1>7, <3>2, <3>5 DEF Outcome
    <3> QED BY <3>4, <3>6
  <2>2. CASE ~(id \in DOMAIN records /\ Decodable(mode, next))
    <3>0. id \in DOMAIN records => ~Taken(bytes) /\ ~Decodable(mode, next)
      BY <1>5, <2>0, <2>2
    <3>1. \/ Reports(Outcome("notFound")) /\ Told(Outcome("notFound"))
          \/ Reports(Outcome("invalid")) /\ Told(Outcome("invalid"))
      BY <1>2, <1>3, <2>0, <3>0
    <3>2. UNCHANGED slotVars /\ records' = records /\ keys' = keys /\ result' = answer'
      BY <3>1 DEF Reports, Told
    <3>3. UNCHANGED <<mode, storedRecords, storedKeys>>
      BY <3>2, ReportSeen
    <3>4. OneAt(id)'
      BY <2>0, <3>2, <3>3 DEF OneAt
    <3>5. o = p
      BY <1>6, <1>7, <3>2 DEF Outcome
    <3> QED BY <3>4, <3>5
  <2> QED BY <2>1, <2>2
<1>13. OneMap'
  BY <1>8, <1>9, <1>10, <1>11, <1>12, OneMapKept
<1>14. SameOutcome'
  BY <1>1, <1>6, <1>7, <1>12, OutcomesAlike
<1> QED BY <1>13, <1>14

\* A query for a value finds the records with that cell on one engine and with that
\* field on the other: an absent field makes the difference, and only for zero.
LEMMA SelectsAlike ==
  ASSUME IInv, OneMap, NEW col \in External \cup Scanned, NEW value \in Values,
         bothSelect(col, value)
  PROVE  SelectionsDifferByAbsent'
<1> DEFINE found == Serialized!matchingIds(col, value)
           absent == {id \in DOMAIN records : value = Zero /\ col \notin DOMAIN records[id]}
           scanned == scannedIds(col, value)
<1>1. col \in Columns
  BY ColumnarAssumption
<1>2. candidateIds(col, value, TRUE) \cap scanned = scanned
  BY CandidatesFound
<1>3. ASSUME NEW id, id \notin apart
      PROVE  id \in DOMAIN idToSlot <=> id \in DOMAIN records
  BY <1>3, SameRecord
<1>4. ASSUME NEW id \in DOMAIN records, id \notin apart
      PROVE  values[idToSlot[id]][col] = Cell(records[id], col)
  <2>1. rowAt(idToSlot[id]) = rowOf(records[id])
    BY <1>4, SameRecord
  <2>2. rowAt(idToSlot[id]).cells = values[idToSlot[id]] /\ rowOf(records[id]).cells = cellsOf(records[id])
    BY DEF rowAt, rowOf
  <2>3. cellsOf(records[id])[col] = Cell(records[id], col)
    BY <1>1 DEF cellsOf, Cell
  <2> QED BY <2>1, <2>2, <2>3
<1>5. scanned \ apart = {id \in DOMAIN records \ apart : Cell(records[id], col) = value}
  BY <1>3, <1>4 DEF scannedIds
<1>6. found = {id \in DOMAIN records : col \in DOMAIN records[id] /\ records[id][col] = value}
  BY DEF Serialized!matchingIds
<1>7. scanned \ apart = (found \cup absent) \ apart
  BY <1>5, <1>6 DEF Cell
<1> HIDE DEF found, absent, scanned
<1>8. query' = [columnar |-> scanned, serialized |-> found, absent |-> absent] /\ apart' = apart
  BY <1>2 DEF bothSelect, found, absent, scanned
<1> QED BY <1>7, <1>8 DEF SelectionsDifferByAbsent

-----------------------------------------------------------------------------
\* Each lockstep call is a call of either engine.
LEMMA BothCall ==
  ASSUME ParityNext
  PROVE  [Next]_vars /\ [Serialized!Next]_(Serialized!vars)
<1>1. CASE bothRows
  BY <1>1 DEF bothRows, Next, Serialized!Next
<1>2. ASSUME NEW id \in Ids, bothExist(id) PROVE Next /\ Serialized!Next
  BY <1>2 DEF bothExist, Next, Serialized!Next
<1>3. ASSUME NEW id \in Ids, bothDelete(id) PROVE Next /\ Serialized!Next
  BY <1>3 DEF bothDelete, Next, Serialized!Next
<1>4. ASSUME NEW id \in Ids, NEW updates \in UpdateLists, bothUpdate(id, updates)
      PROVE  Next /\ Serialized!Next
  BY <1>4 DEF bothUpdate, Next, Serialized!Next
<1>5. ASSUME NEW key \in Keys, bothLoad(key) PROVE Next /\ Serialized!Next
  BY <1>5 DEF bothLoad, Next, Serialized!Next
<1>6. ASSUME NEW key \in Keys, NEW data \in Payloads, NEW overwrite \in BOOLEAN,
             bothStore(key, data, overwrite)
      PROVE  Next /\ Serialized!Next
  BY <1>6 DEF bothStore, Next, Serialized!Next
<1>7. ASSUME NEW col, NEW value, bothSelect(col, value)
      PROVE  UNCHANGED vars /\ UNCHANGED Serialized!vars
  BY <1>7 DEF bothSelect, vars, slotVars, Serialized!vars
<1> QED BY <1>1, <1>2, <1>3, <1>4, <1>5, <1>6, <1>7 DEF ParityNext

\* Two empty collections are one map.
LEMMA InitPInv ==
  ParityInit => PInv
<1> SUFFICES ASSUME ParityInit PROVE PInv
  OBVIOUS
<1>1. IInv
  BY InitIInv DEF ParityInit
<1>2. /\ DOMAIN records = {} /\ DOMAIN keys = {} /\ DOMAIN idToSlot = {} /\ apart = {}
      /\ answer = Outcome("none") /\ result = Outcome("none") /\ mode \in {"struct", "map"}
  BY SerializedOperators DEF ParityInit, Init, Serialized!Init
<1>3. DOMAIN storedRecords = {}
  BY <1>2 DEF storedRecords
<1>4. OneMap
  BY <1>2, <1>3 DEF OneMap, OneAt
<1>5. SameOutcome
  <2>1. result.rows = {} /\ answer.rows = {} /\ result.out = answer.out
    BY <1>2 DEF Outcome
  <2> QED BY <2>1 DEF SameOutcome, Agreed
<1>6. SelectionsDifferByAbsent
  BY DEF SelectionsDifferByAbsent, ParityInit, NoQuery
<1> QED BY <1>1, <1>4, <1>5, <1>6 DEF PInv

\* Every lockstep call keeps the two collections one map.
LEMMA NextPInv ==
  ASSUME PInv, [ParityNext]_parityVars
  PROVE  PInv'
<1>0. IInv /\ OneMap /\ SameOutcome /\ SelectionsDifferByAbsent
  BY DEF PInv
<1>1. [Next]_vars
  <2>1. CASE ParityNext
    BY <2>1, BothCall
  <2>2. CASE UNCHANGED parityVars
    BY <2>2 DEF parityVars
  <2> QED BY <2>1, <2>2
<1>2. IInv'
  BY <1>0, <1>1, NextIInv
<1>3. ASSUME UNCHANGED vars, UNCHANGED <<records, keys, answer, asked, apart>>
      PROVE  OneMap' /\ SameOutcome'
  <2>1. OneMap'
    BY <1>0, <1>3, NothingStored DEF vars
  <2>2. SameOutcome'
    BY <1>0, <1>3 DEF SameOutcome, Agreed, vars
  <2> QED BY <2>1, <2>2
<1>4. CASE UNCHANGED parityVars
  <2>1. UNCHANGED vars /\ UNCHANGED <<records, keys, answer, asked, apart>> /\ query' = query
    BY <1>4 DEF parityVars
  <2>2. SelectionsDifferByAbsent'
    BY <1>0, <2>1 DEF SelectionsDifferByAbsent
  <2> QED BY <1>2, <1>3, <2>1, <2>2 DEF PInv
<1>5. CASE \E col \in External \cup Scanned, value \in Values : bothSelect(col, value)
  <2>1. PICK col \in External \cup Scanned, value \in Values : bothSelect(col, value)
    BY <1>5
  <2>2. UNCHANGED vars /\ UNCHANGED <<records, keys, answer, asked, apart>>
    BY <2>1 DEF bothSelect
  <2>3. SelectionsDifferByAbsent'
    BY <1>0, <2>1, SelectsAlike
  <2> QED BY <1>2, <1>3, <2>2, <2>3 DEF PInv
<1>7. ASSUME OneMap', SameOutcome', query' = NoQuery PROVE PInv'
  <2>1. SelectionsDifferByAbsent'
    BY <1>7 DEF SelectionsDifferByAbsent, NoQuery
  <2> QED BY <1>2, <1>7, <2>1 DEF PInv
<1>8. CASE query' = NoQuery /\ bothRows
  BY <1>0, <1>7, <1>8, ReadsAlike, ReadsKeep
<1>9. ASSUME NEW id \in Ids, query' = NoQuery, bothExist(id) PROVE PInv'
  BY <1>0, <1>7, <1>9, ReadsAlike, ReadsKeep
<1>10. ASSUME NEW id \in Ids, query' = NoQuery, bothDelete(id) PROVE PInv'
  BY <1>0, <1>7, <1>10, DeletesAlike
<1>11. ASSUME NEW id \in Ids, NEW updates \in UpdateLists, query' = NoQuery, bothUpdate(id, updates)
       PROVE  PInv'
  BY <1>0, <1>7, <1>11, UpdatesMadeAlike
<1>12. ASSUME NEW key \in Keys, query' = NoQuery, bothLoad(key) PROVE PInv'
  BY <1>0, <1>7, <1>12, ReadsAlike, ReadsKeep
<1>13. ASSUME NEW key \in Keys, NEW data \in Payloads, NEW overwrite \in BOOLEAN,
              query' = NoQuery, bothStore(key, data, overwrite)
       PROVE  PInv'
  BY <1>0, <1>7, <1>13, StoresAlike
<1> QED BY <1>4, <1>5, <1>8, <1>9, <1>10, <1>11, <1>12, <1>13 DEF ParityNext

\* The columnar and the serialized engine, given the same calls, answer every call
\* about a record both took alike and hand back the same keys and rows, a column
\* that was not written being zero on one and absent from a map on the other.  The
\* records that are apart are the ones of which the serialized engine took a write
\* the columnar one refuses: a value not of its column's type in a map collection,
\* or updates that name an unknown field and remove it in a struct collection.
THEOREM EnginesAnswerAlike == ParitySpec => []SameOutcome
<1>1. PInv /\ [ParityNext]_parityVars => PInv'
  BY NextPInv
<1>2. PInv => SameOutcome
  BY DEF PInv
<1> QED BY <1>1, <1>2, InitPInv, PTL DEF ParitySpec

\* Their answers to an equality query, but for those records, always differ by the
\* records that lack the field, and only when the query asks for the zero value.
THEOREM SelectionsAlwaysDifferByAbsent == ParitySpec => []SelectionsDifferByAbsent
<1>1. PInv /\ [ParityNext]_parityVars => PInv'
  BY NextPInv
<1>2. PInv => SelectionsDifferByAbsent
  BY DEF PInv
<1> QED BY <1>1, <1>2, InitPInv, PTL DEF ParitySpec

-----------------------------------------------------------------------------
\* The contract, as the serialized engine sees it, computes with the same operators.
LEMMA ContractOperators ==
  /\ \A f, x, y : Serialized!Contract!Put(f, x, y) = Put(f, x, y)
  /\ \A f, x : Serialized!Contract!Drop(f, x) = Drop(f, x)
  /\ \A p : Serialized!Contract!rowOf(p) = rowOf(p)
  /\ \A m, p : Serialized!Contract!Decodable(m, p) <=> Decodable(m, p)
  /\ \A r : Serialized!Contract!rowData(r) = rowData(r)
  /\ \A d, u : Serialized!Contract!applyUpdatesToMap(d, u) = applyUpdatesToMap(d, u)
  /\ \A o : Serialized!Contract!Outcome(o) = Outcome(o)
  /\ \A S : Serialized!Contract!RowsOutcome(S) = RowsOutcome(S)
  /\ \A i, k, r : Serialized!Contract!Entry(i, k, r) = Entry(i, k, r)
<1>1. \A f, x, y : Serialized!Contract!Put(f, x, y) = Put(f, x, y)
  BY Zenon DEF Serialized!Contract!Put, Put
<1>2. \A f, x : Serialized!Contract!Drop(f, x) = Drop(f, x)
  BY Zenon DEF Serialized!Contract!Drop, Drop, Serialized!Contract!Restrict, Restrict
<1>3. \A p : Serialized!Contract!rowOf(p) = rowOf(p)
  BY Zenon DEF Serialized!Contract!rowOf, rowOf, Serialized!Contract!cellsOf, cellsOf,
               Serialized!Contract!leftoverOf, leftoverOf, Serialized!Contract!Restrict, Restrict
<1>4. \A m, p : Serialized!Contract!Decodable(m, p) <=> Decodable(m, p)
  BY Zenon DEF Serialized!Contract!Decodable, Decodable, Serialized!Contract!Fields, Fields
<1>5. \A r : Serialized!Contract!rowData(r) = rowData(r)
  BY Zenon DEF Serialized!Contract!rowData, rowData
<1>6. \A d, u : Serialized!Contract!applyUpdatesToMap(d, u) = applyUpdatesToMap(d, u)
  BY Zenon DEF Serialized!Contract!applyUpdatesToMap, applyUpdatesToMap,
               Serialized!Contract!applyPathUpdate, applyPathUpdate,
               Serialized!Contract!Restrict, Restrict
<1>7. /\ \A o : Serialized!Contract!Outcome(o) = Outcome(o)
      /\ \A S : Serialized!Contract!RowsOutcome(S) = RowsOutcome(S)
      /\ \A i, k, r : Serialized!Contract!Entry(i, k, r) = Entry(i, k, r)
  BY Zenon DEF Serialized!Contract!Outcome, Outcome, Serialized!Contract!RowsOutcome, RowsOutcome,
               Serialized!Contract!Entry, Entry
<1> QED BY <1>1, <1>2, <1>3, <1>4, <1>5, <1>6, <1>7

\* A call that only reports is a contract's call that only reports.
LEMMA ToldRefines ==
  ASSUME NEW r, Told(r)
  PROVE  Serialized!Contract!Reports(r)
<1>1. typed' = typed
  BY DEF Told, typed
<1>2. Serialized!typedRecords' = Serialized!typedRecords
  BY <1>1, TypedSeen
<1> QED BY <1>2 DEF Told, Serialized!Contract!Reports

\* The serialized engine's reads answer as the contract's.
LEMMA SerializedReadsRefine ==
  ASSUME mode = "struct"
  PROVE  /\ Serialized!rows => Serialized!Contract!rows
         /\ \A id : Serialized!exists(id) => Serialized!Contract!exists(id)
         /\ \A key : Serialized!load(key) => Serialized!Contract!load(key)
<1>0. /\ DOMAIN Serialized!typedRecords = DOMAIN records
      /\ \A i \in DOMAIN records : Serialized!typedRecords[i] = rowOf(records[i])
  BY TypedSeen DEF typed
<1>s. \A p : Seen(p) = rowOf(p)
  BY DEF Seen
<1>1. ASSUME Serialized!rows PROVE Serialized!Contract!rows
  <2> DEFINE S == {Serialized!Contract!Entry(i, keys[i], Serialized!typedRecords[i]) :
                      i \in DOMAIN Serialized!typedRecords}
  <2>1. {Entry(i, keys[i], rowOf(records[i])) : i \in DOMAIN records} = S
    BY <1>0, ContractOperators
  <2> HIDE DEF S
  <2>2. Told(Serialized!Contract!RowsOutcome(S))
    BY <1>s, <1>1, <2>1, SerializedCalls, ContractOperators
  <2>3. Serialized!Contract!Reports(Serialized!Contract!RowsOutcome(S))
    BY <2>2, ToldRefines
  <2> QED BY <2>3 DEF Serialized!Contract!rows, S
<1>2. ASSUME NEW id, Serialized!exists(id) PROVE Serialized!Contract!exists(id)
  <2> DEFINE o == IF id \in DOMAIN Serialized!typedRecords THEN "true" ELSE "false"
  <2>1. Told(Outcome(o))
    BY <1>0, <1>2, SerializedCalls
  <2> HIDE DEF o
  <2>2. Told(Serialized!Contract!Outcome(o))
    BY <2>1, ContractOperators, Zenon
  <2>3. Serialized!Contract!Reports(Serialized!Contract!Outcome(o))
    BY <2>2, ToldRefines
  <2> QED BY <2>3 DEF Serialized!Contract!exists, o
<1>3. ASSUME NEW key, Serialized!load(key) PROVE Serialized!Contract!load(key)
  <2> DEFINE id == keyID[key]
             r == IF id \in DOMAIN Serialized!typedRecords
                  THEN Serialized!Contract!RowsOutcome(
                          {Serialized!Contract!Entry(id, key, Serialized!typedRecords[id])})
                  ELSE Serialized!Contract!Outcome("notFound")
             s == IF id \in DOMAIN records THEN RowsOutcome({Entry(id, key, rowOf(records[id]))})
                  ELSE Outcome("notFound")
  <2>1. Told(s)
    BY <1>s, <1>3, SerializedCalls
  <2>2. r = s
    BY <1>0, ContractOperators
  <2> HIDE DEF r, s
  <2>3. Serialized!Contract!Reports(r)
    BY <2>1, <2>2, ToldRefines
  <2> QED BY <2>3 DEF Serialized!Contract!load, r
<1> QED BY <1>1, <1>2, <1>3

\* The serialized engine's delete is the contract's delete of the same id.
LEMMA SerializedDeleteRefines ==
  ASSUME NEW id, Serialized!delete(id)
  PROVE  Serialized!Contract!delete(id)
<1>1. /\ records' = Drop(records, id) /\ keys' = Drop(keys, id)
      /\ answer' = Outcome("ok") /\ mode' = mode
  BY SerializedCalls
<1>2. Serialized!typedRecords' = Drop(Serialized!typedRecords, id)
  BY <1>1, TypedChange, TypedSeen
<1>3. /\ Serialized!typedRecords' = Serialized!Contract!Drop(Serialized!typedRecords, id)
      /\ keys' = Serialized!Contract!Drop(keys, id) /\ answer' = Serialized!Contract!Outcome("ok")
  BY <1>1, <1>2, ContractOperators
<1> QED BY <1>1, <1>3 DEF Serialized!Contract!delete

\* Its store, accepted or not, is the contract's store of the same record.
LEMMA SerializedStoreRefines ==
  ASSUME mode = "struct", NEW key, NEW data, NEW overwrite, Serialized!store(key, data, overwrite)
  PROVE  Serialized!Contract!store(key, data, overwrite)
<1> DEFINE id == keyID[key]
<1>0. DOMAIN Serialized!typedRecords = DOMAIN records
  BY TypedSeen DEF typed
<1>1. CASE ~overwrite /\ id \in DOMAIN records /\ Told(Outcome("duplicate"))
  <2>1. Serialized!Contract!Reports(Serialized!Contract!Outcome("duplicate"))
    BY <1>1, ToldRefines, ContractOperators
  <2> QED BY <1>0, <1>1, <2>1 DEF Serialized!Contract!store
<1>2. CASE /\ ~(~overwrite /\ id \in DOMAIN records)
           /\ ~Decodable(mode, data) /\ Told(Outcome("invalid"))
  <2>1. /\ Serialized!Contract!Reports(Serialized!Contract!Outcome("invalid"))
        /\ ~Serialized!Contract!Decodable(mode, data)
    BY <1>2, ToldRefines, ContractOperators
  <2> QED BY <1>0, <1>2, <2>1 DEF Serialized!Contract!store
<1>3. CASE /\ ~(~overwrite /\ id \in DOMAIN records) /\ Decodable(mode, data)
           /\ records' = Put(records, id, data) /\ keys' = Put(keys, id, key)
           /\ answer' = Outcome("ok") /\ mode' = mode
  <2>1. Serialized!typedRecords' = Put(Serialized!typedRecords, id, rowOf(data))
    BY <1>3, TypedChange, TypedSeen
  <2>2. /\ Serialized!typedRecords' =
              Serialized!Contract!Put(Serialized!typedRecords, id, Serialized!Contract!rowOf(data))
        /\ keys' = Serialized!Contract!Put(keys, id, key)
        /\ answer' = Serialized!Contract!Outcome("ok")
        /\ Serialized!Contract!Decodable(mode, data)
    BY <1>3, <2>1, ContractOperators
  <2> QED BY <1>0, <1>3, <2>2 DEF Serialized!Contract!store
<1>4. Taken(data) <=> Decodable(mode, data)
  BY DEF Taken
<1> QED BY <1>1, <1>2, <1>3, <1>4, SerializedCalls

\* Its update of the bytes is the contract's update of the row they stand for.
LEMMA SerializedUpdateRefines ==
  ASSUME BytesDecode, NEW id, NEW updates \in UpdateLists, Serialized!update(id, updates)
  PROVE  Serialized!Contract!update(id, updates)
<1> DEFINE bytes == applyUpdatesToMap(records[id], updates)
           next == Serialized!Contract!applyUpdatesToMap(
                      Serialized!Contract!rowData(Serialized!typedRecords[id]), updates)
<1>0. DOMAIN Serialized!typedRecords = DOMAIN records /\ mode # "broken"
  BY TypedSeen DEF typed, BytesDecode
<1>1. ASSUME id \in DOMAIN records
      PROVE  /\ Serialized!Contract!rowOf(next) = rowOf(bytes)
             /\ Serialized!Contract!Decodable(mode, next) <=> Decodable(mode, bytes)
  <2>1. Serialized!typedRecords[id] = rowOf(records[id])
    BY <1>1, TypedSeen DEF typed
  <2>2. next = applyUpdatesToMap(rowData(rowOf(records[id])), updates)
    BY <2>1, ContractOperators
  <2>3. rowOf(next) = rowOf(bytes) /\ (Decodable(mode, bytes) <=> Decodable(mode, next))
    BY <1>1, <2>2, UpdatedAlike DEF BytesDecode
  <2> HIDE DEF next, bytes
  <2> QED BY <2>3, ContractOperators
<1>2. CASE id \notin DOMAIN records /\ Told(Outcome("notFound"))
  <2>1. Serialized!Contract!Reports(Serialized!Contract!Outcome("notFound"))
    BY <1>2, ToldRefines, ContractOperators
  <2> QED BY <1>0, <1>2, <2>1 DEF Serialized!Contract!update
<1>3. CASE id \in DOMAIN records /\ ~Decodable(mode, bytes) /\ Told(Outcome("invalid"))
  <2>1. /\ Serialized!Contract!Reports(Serialized!Contract!Outcome("invalid"))
        /\ ~Serialized!Contract!Decodable(mode, next)
    BY <1>1, <1>3, ToldRefines, ContractOperators
  <2> QED BY <1>0, <1>3, <2>1 DEF Serialized!Contract!update
<1>4. CASE /\ id \in DOMAIN records /\ Decodable(mode, bytes)
           /\ records' = Put(records, id, bytes)
           /\ answer' = Outcome("ok") /\ UNCHANGED <<mode, keys>>
  <2>1. Serialized!typedRecords' = Put(Serialized!typedRecords, id, rowOf(bytes))
    BY <1>4, TypedChange, TypedSeen
  <2>2. /\ Serialized!typedRecords' =
              Serialized!Contract!Put(Serialized!typedRecords, id, Serialized!Contract!rowOf(next))
        /\ answer' = Serialized!Contract!Outcome("ok")
        /\ Serialized!Contract!Decodable(mode, next)
    <3> HIDE DEF next, bytes
    <3> QED BY <1>1, <1>4, <2>1, ContractOperators
  <2> QED BY <1>0, <1>4, <2>2 DEF Serialized!Contract!update
<1>5. Taken(bytes) <=> Decodable(mode, bytes)
  BY DEF Taken, BytesDecode
<1> HIDE DEF bytes, next
<1> QED BY <1>2, <1>3, <1>4, <1>5, SerializedCalls DEF bytes

\* The serialized engine of a struct collection implements the storageEngine
\* interface, with its payloads read into the registered type: every call changes
\* the map of rows, and answers, as the contract says of that call.  No assumption
\* is made of the update lists.
THEOREM SerializedEngineImplements == ParitySpec => SerializedImplements
<1> DEFINE TypedBytes == mode = "struct" => BytesDecode
<1>1. ParityInit => TypedBytes /\ Serialized!Contract!Init
  <2> SUFFICES ASSUME ParityInit PROVE TypedBytes /\ Serialized!Contract!Init
    OBVIOUS
  <2>1. TypedBytes /\ mode \in {"struct", "map"}
    BY InitPInv DEF PInv, OneMap, BytesDecode, ParityInit, Serialized!Init
  <2>2. DOMAIN records = {} /\ keys = [i \in {} |-> i] /\ answer = Serialized!Contract!Outcome("none")
    BY SerializedOperators, ContractOperators DEF ParityInit, Serialized!Init
  <2>3. Serialized!typedRecords = [i \in {} |-> [cells |-> Serialized!Contract!ZeroCells,
                                               left |-> Serialized!Contract!NoFields]]
    BY <2>2, TypedSeen DEF typed
  <2> QED BY <2>1, <2>2, <2>3 DEF Serialized!Contract!Init, Serialized!Contract!Modes
<1>2. [ParityNext]_parityVars => [Serialized!Next]_(Serialized!vars)
  <2>1. UNCHANGED parityVars => UNCHANGED Serialized!vars
    BY DEF parityVars, Serialized!vars, vars, slotVars
  <2> QED BY <2>1, BothCall
<1>3. TypedBytes /\ [Serialized!Next]_(Serialized!vars) => TypedBytes'
  <2> SUFFICES ASSUME TypedBytes, [Serialized!Next]_(Serialized!vars), mode' = "struct"
               PROVE  BytesDecode'
    OBVIOUS
  <2>1. mode' = mode
    BY ModeKept
  <2> QED BY <2>1, BytesPreserved
<1>4. BytesDecode /\ [Serialized!Next]_(Serialized!vars)
        => [Serialized!Contract!Next]_(Serialized!Contract!engineVars)
  <2> SUFFICES ASSUME BytesDecode, [Serialized!Next]_(Serialized!vars)
               PROVE  [Serialized!Contract!Next]_(Serialized!Contract!engineVars)
    OBVIOUS
  <2>0. mode = "struct"
    BY DEF BytesDecode
  <2>1. CASE UNCHANGED Serialized!vars
    <3>1. typed' = typed /\ mode' = mode /\ keys' = keys /\ answer' = answer
      BY <2>1 DEF Serialized!vars, typed
    <3>2. Serialized!typedRecords' = Serialized!typedRecords
      BY <3>1, TypedSeen
    <3> QED BY <3>1, <3>2 DEF Serialized!Contract!engineVars
  <2>2. CASE Serialized!rows
    BY <2>0, <2>2, SerializedReadsRefine DEF Serialized!Contract!Next
  <2>3. ASSUME NEW id \in Ids, Serialized!exists(id) \/ Serialized!delete(id)
        PROVE  Serialized!Contract!Next
    <3>1. Serialized!Contract!exists(id) \/ Serialized!Contract!delete(id)
      BY <2>0, <2>3, SerializedReadsRefine, SerializedDeleteRefines
    <3> QED BY <3>1 DEF Serialized!Contract!Next
  <2>4. ASSUME NEW id \in Ids, NEW updates \in UpdateLists, Serialized!update(id, updates)
        PROVE  Serialized!Contract!Next
    <3>1. Serialized!Contract!update(id, updates)
      BY <2>4, SerializedUpdateRefines
    <3> QED BY <3>1 DEF Serialized!Contract!Next
  <2>5. ASSUME NEW key \in Keys, Serialized!load(key) PROVE Serialized!Contract!Next
    <3>1. Serialized!Contract!load(key)
      BY <2>0, <2>5, SerializedReadsRefine
    <3> QED BY <3>1 DEF Serialized!Contract!Next
  <2>6. ASSUME NEW key \in Keys, NEW data \in Payloads, NEW overwrite \in BOOLEAN,
               Serialized!store(key, data, overwrite)
        PROVE  Serialized!Contract!Next
    <3>1. Serialized!Contract!store(key, data, overwrite)
      BY <2>0, <2>6, SerializedStoreRefines
    <3> QED BY <3>1 DEF Serialized!Contract!Next
  <2> QED BY <2>1, <2>2, <2>3, <2>4, <2>5, <2>6 DEF Serialized!Next
<1>5. BytesDecode => Serialized!WritesMatch
  <2> SUFFICES ASSUME BytesDecode PROVE Serialized!WritesMatch
    OBVIOUS
  <2>1. mode = "struct"
    BY DEF BytesDecode
  <2> QED BY <2>1, SerializedDeleteRefines, SerializedUpdateRefines, SerializedStoreRefines
          DEF Serialized!WritesMatch
<1>6. TypedBytes /\ [ParityNext]_parityVars
        => TypedBytes' /\ [mode = "struct" => Serialized!ContractStep]_(Serialized!vars)
  BY <1>2, <1>3, <1>4, <1>5 DEF Serialized!ContractStep
<1> HIDE DEF TypedBytes
<1> QED BY <1>1, <1>6, PTL DEF ParitySpec, SerializedImplements, Serialized!ImplementsContract
=============================================================================
