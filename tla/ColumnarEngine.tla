--------------------------- MODULE ColumnarEngine ---------------------------
(***************************************************************************)
(* The columnar engine of dalgo2memory (columnar.go, strategy.go): one     *)
(* slice per column over slots shared by all columns, a tombstone and a    *)
(* free list for deletes, compaction once half of the slots are dead, and  *)
(* an optional external index per column (ColumnStrategy) that the engine  *)
(* keeps in step with its slices and asks for the slots of an equality     *)
(* predicate.                                                              *)
(*                                                                         *)
(* Slices are sequences, so the code's slot s is s + 1 here.  The slices   *)
(* of the columns are one sequence of rows of cells ("values").            *)
(***************************************************************************)
EXTENDS RecordData

CONSTANTS
    Ids, Keys, keyID, Payloads, UpdateLists,   \* as in StorageEngine
    External,    \* columns backed by an external ColumnStrategy
    Scanned,     \* other columns whose default strategy answers by scanning
    SameType,    \* whether a query constant has the column's Go type
    NoID,        \* "", the id of a dead slot
    NoKey        \* nil, the key of a dead slot

ASSUME ColumnarAssumption ==
    /\ keyID \in [Keys -> Ids]
    /\ Payloads \subseteq Payload
    /\ UpdateLists \subseteq Seq(Update)
    /\ External \subseteq Columns
    /\ Scanned \subseteq Columns \ External
    /\ SameType \subseteq BOOLEAN
    /\ NoID \notin Ids
    /\ NoKey \notin Keys

VARIABLES
    mode,        \* "struct", "map" (mapBacked) or "broken" (initErr is set)
    idToSlot,    \* slot of each stored id
    slotToID,    \* id at each slot, NoID when dead
    slotToKey,   \* full key at each slot, NoKey when dead
    live,        \* whether a slot holds a record
    freeList,    \* dead slots available for reuse, the last one first
    deadCount,   \* number of dead slots
    values,      \* column cells of each slot
    leftover,    \* undeclared fields of each slot; empty in a struct collection
    index,       \* contents of the external strategies
    result       \* outcome of the latest call

slotVars == <<mode, idToSlot, slotToID, slotToKey, live, freeList, deadCount,
              values, leftover, index>>
vars == <<slotVars, result>>

IndexEntry(col, slot, value) == [col |-> col, slot |-> slot, value |-> value]

Entry(id, key, row) == [id |-> id, key |-> key, row |-> row]
Outcome(out) == [out |-> out, rows |-> {}]
RowsOutcome(S) == [out |-> "rows", rows |-> S]
Outcomes == {"none", "ok", "duplicate", "invalid", "notFound", "initErr",
             "true", "false", "rows"}

\* Types of the whole state.
TypeOK ==
    /\ mode \in {"struct", "map", "broken"}
    /\ DOMAIN idToSlot \subseteq Ids
    /\ idToSlot \in [DOMAIN idToSlot -> Nat \ {0}]
    /\ slotToID \in Seq(Ids \cup {NoID})
    /\ slotToKey \in Seq(Keys \cup {NoKey})
    /\ live \in Seq(BOOLEAN)
    /\ freeList \in Seq(Nat \ {0})
    /\ deadCount \in Nat
    /\ values \in Seq([Columns -> Values])
    /\ leftover \in Seq(Leftovers)
    /\ index \subseteq [col : External, slot : Nat \ {0}, value : Values]
    /\ result \in [out  : Outcomes,
                   rows : SUBSET [id : Ids, key : Keys, row : Row]]

\* newColumnarEngineFactory: a struct type gives one column per field, a map
\* type one per declared column, and anything else an engine that refuses.
Init ==
    /\ mode \in {"struct", "map", "broken"}
    /\ idToSlot = [id \in {} |-> 1]
    /\ slotToID = <<>>
    /\ slotToKey = <<>>
    /\ live = <<>>
    /\ freeList = <<>>
    /\ deadCount = 0
    /\ values = <<>>
    /\ leftover = <<>>
    /\ index = {}
    /\ result = Outcome("none")

-----------------------------------------------------------------------------
Slots == DOMAIN live
LiveSlots == {s \in Slots : live[s]}

\* The id is mapped to a live slot.
stored(id) == id \in DOMAIN idToSlot /\ live[idToSlot[id]]

\* The row reassembled from a slot.
leftoverAt(slot) == IF mode = "map" THEN leftover[slot] ELSE NoFields
rowAt(slot) == [cells |-> values[slot], left |-> leftoverAt(slot)]

\* A slice with v at slot, grown by nil elements where it does not reach it.
SetAt(seq, slot, v, nil) ==
    [s \in 1..(IF slot > Len(seq) THEN slot ELSE Len(seq)) |->
        IF s = slot THEN v ELSE IF s <= Len(seq) THEN seq[s] ELSE nil]

\* The write side of the external strategies, SetValue and ClearValue.
ClearValue(idx, slot) == {e \in idx : e.slot # slot}
SetValue(idx, slot, cells) ==
    ClearValue(idx, slot) \cup {IndexEntry(c, slot, cells[c]) : c \in External}

-----------------------------------------------------------------------------
Reports(r) ==
    /\ result' = r
    /\ UNCHANGED slotVars

\* Every call but exists and delete while initErr is set.
Refuse ==
    /\ mode = "broken"
    /\ Reports(Outcome("initErr"))

exists(id) ==
    Reports(Outcome(IF mode # "broken" /\ stored(id) THEN "true" ELSE "false"))

load(key) ==
    LET id == keyID[key] IN
    /\ mode # "broken"
    /\ Reports(IF stored(id)
               THEN RowsOutcome({Entry(id, key, rowAt(idToSlot[id]))})
               ELSE Outcome("notFound"))

\* Plausible bug: data without undeclared fields leaves the slot's old leftover.
writeSlotStale(slot, data) ==
    /\ values' = SetAt(values, slot, cellsOf(data), ZeroCells)
    /\ leftover' = IF mode = "map" /\ (leftoverOf(data) # NoFields \/ slot > Len(leftover))
                   THEN SetAt(leftover, slot, leftoverOf(data), NoFields)
                   ELSE leftover
    /\ index' = SetValue(index, slot, cellsOf(data))

\* The cells and the leftover of a row written at a slot, and the strategies
\* told of the new cells.
writeSlot(slot, data) ==
    /\ values' = SetAt(values, slot, cellsOf(data), ZeroCells)
    /\ leftover' = IF mode = "map"
                   THEN SetAt(leftover, slot, leftoverOf(data), NoFields)
                   ELSE leftover
    /\ index' = SetValue(index, slot, cellsOf(data))

\* Reserve a slot for id: its own, else the latest freed one, else a new one.
reuseOwnSlot(id, slot) ==
    /\ stored(id)
    /\ slot = idToSlot[id]
    /\ UNCHANGED <<idToSlot, slotToID, live, freeList, deadCount>>

popFreeSlot(id, slot) ==
    /\ ~stored(id)
    /\ freeList # <<>>
    /\ slot = freeList[Len(freeList)]
    /\ freeList' = SubSeq(freeList, 1, Len(freeList) - 1)
    /\ deadCount' = deadCount - 1
    /\ live' = [live EXCEPT ![slot] = TRUE]
    /\ slotToID' = [slotToID EXCEPT ![slot] = id]
    /\ idToSlot' = Put(idToSlot, id, slot)

appendSlot(id, slot) ==
    /\ ~stored(id)
    /\ freeList = <<>>
    /\ slot = Len(live) + 1
    /\ live' = Append(live, TRUE)
    /\ slotToID' = Append(slotToID, id)
    /\ idToSlot' = Put(idToSlot, id, slot)
    /\ UNCHANGED <<freeList, deadCount>>

allocSlot(id, slot) ==
    \/ reuseOwnSlot(id, slot)
    \/ popFreeSlot(id, slot)
    \/ appendSlot(id, slot)

\* Insert (overwrite = FALSE) and Set (overwrite = TRUE).  The data is decoded
\* before a slot is reserved, so a refused write leaves nothing behind.
storeDuplicate(key, overwrite) ==
    /\ mode # "broken"
    /\ ~overwrite
    /\ stored(keyID[key])
    /\ Reports(Outcome("duplicate"))

storeInvalid(key, data, overwrite) ==
    /\ mode # "broken"
    /\ overwrite \/ ~stored(keyID[key])
    /\ ~Decodable(mode, data)
    /\ Reports(Outcome("invalid"))

storeRow(key, data, overwrite) ==
    /\ mode # "broken"
    /\ overwrite \/ ~stored(keyID[key])
    /\ Decodable(mode, data)
    /\ \E slot \in 1..(Len(live) + 1) :
          /\ allocSlot(keyID[key], slot)
          /\ slotToKey' = SetAt(slotToKey, slot, key, NoKey)
          /\ writeSlot(slot, data)
    /\ result' = Outcome("ok")
    /\ mode' = mode

\* A list of updates goes through the row's map view.  On a struct collection
\* an unknown field addressed by name is refused before anything is applied.
update(id, updates) ==
    LET next == applyUpdatesToMap(rowData(rowAt(idToSlot[id])), updates)
        refused == (mode = "struct" /\ namesUnknownField(updates))
                      \/ ~Decodable(mode, next)
    IN
    /\ mode # "broken"
    /\ \/ /\ ~stored(id)
          /\ Reports(Outcome("notFound"))
       \/ /\ stored(id) /\ refused
          /\ Reports(Outcome("invalid"))
       \/ /\ stored(id) /\ ~refused
          /\ writeSlot(idToSlot[id], next)
          /\ result' = Outcome("ok")
          /\ UNCHANGED <<mode, idToSlot, slotToID, slotToKey, live, freeList, deadCount>>

-----------------------------------------------------------------------------
\* delete of an id that is not stored.
deleteAbsent(id) ==
    /\ mode = "broken" \/ ~stored(id)
    /\ Reports(Outcome("ok"))

\* maybeCompact: after the delete half of the slots are dead.
mustCompact == 2 * (deadCount + 1) >= Len(live)

\* Tombstone a slot.
freeSlot(slot) ==
    /\ values' = [values EXCEPT ![slot] = ZeroCells]
    /\ index' = ClearValue(index, slot)
    /\ leftover' = IF mode = "map" THEN [leftover EXCEPT ![slot] = NoFields]
                                   ELSE leftover
    /\ live' = [live EXCEPT ![slot] = FALSE]
    /\ slotToID' = [slotToID EXCEPT ![slot] = NoID]
    /\ slotToKey' = [slotToKey EXCEPT ![slot] = NoKey]
    /\ freeList' = Append(freeList, slot)
    /\ deadCount' = deadCount + 1

deleteTombstone(id) ==
    /\ mode # "broken"
    /\ stored(id)
    /\ ~mustCompact
    /\ freeSlot(idToSlot[id])
    /\ idToSlot' = Drop(idToSlot, id)
    /\ result' = Outcome("ok")
    /\ mode' = mode

\* Plausible bug: compaction walks the slots from the end.
rankFromEnd(s, L) == Cardinality({t \in L : t >= s})

\* Position of slot s among the slots of L, and the slot at a position.
rank(s, L) == Cardinality({t \in L : t <= s})
slotAtRank(r, L) == CHOOSE s \in L : rank(s, L) = r

\* A slice with the slots of L only, in ascending order.
compacted(seq, L) == [r \in 1..Cardinality(L) |-> seq[slotAtRank(r, L)]]

\* SetValue for every compacted slot; what the index holds beyond them stays.
rebuildStrategies(idx, rowsOfCells) ==
    {e \in idx : e.slot > Len(rowsOfCells)} \cup
    {IndexEntry(c, s, rowsOfCells[s][c]) : c \in External, s \in DOMAIN rowsOfCells}

\* Plausible bugs: compaction forgets one of its slices or the free list.
compactAllBut(L, idx, forgotten) ==
    /\ values' = compacted(values, L)
    /\ leftover' = IF mode = "map" THEN compacted(leftover, L) ELSE <<>>
    /\ slotToID' = compacted(slotToID, L)
    /\ slotToKey' = IF forgotten = "keys" THEN SubSeq(slotToKey, 1, Cardinality(L))
                                          ELSE compacted(slotToKey, L)
    /\ live' = [r \in 1..Cardinality(L) |-> TRUE]
    /\ idToSlot' = [id \in {slotToID[s] : s \in L} |-> rank(idToSlot[id], L)]
    /\ freeList' = IF forgotten = "freeList" THEN freeList ELSE <<>>
    /\ deadCount' = 0
    /\ index' = rebuildStrategies(idx, compacted(values, L))
compactForgetsKeys(L, idx) == compactAllBut(L, idx, "keys")
compactForgetsFreeList(L, idx) == compactAllBut(L, idx, "freeList")

\* Rebuild every slice with the slots of L, the ones that stay live.
compact(L, idx) ==
    /\ values' = compacted(values, L)
    /\ leftover' = IF mode = "map" THEN compacted(leftover, L) ELSE <<>>
    /\ slotToID' = compacted(slotToID, L)
    /\ slotToKey' = compacted(slotToKey, L)
    /\ live' = [r \in 1..Cardinality(L) |-> TRUE]
    /\ idToSlot' = [id \in {slotToID[s] : s \in L} |-> rank(idToSlot[id], L)]
    /\ freeList' = <<>>
    /\ deadCount' = 0
    /\ index' = rebuildStrategies(idx, compacted(values, L))

deleteCompact(id) ==
    LET slot == idToSlot[id] IN
    /\ mode # "broken"
    /\ stored(id)
    /\ mustCompact
    /\ compact(LiveSlots \ {slot}, ClearValue(index, slot))
    /\ result' = Outcome("ok")
    /\ mode' = mode

-----------------------------------------------------------------------------
\* buildRows for a set of ids.
buildRows(S) == {Entry(id, slotToKey[idToSlot[id]], rowAt(idToSlot[id])) : id \in S}

rows ==
    /\ mode # "broken"
    /\ Reports(RowsOutcome(buildRows(DOMAIN idToSlot)))

\* The slots whose column equals a constant under Go's ==, which no value of
\* another Go type satisfies.
EqualSlots(col, value, sameType) ==
    IF col \in External
    THEN {e.slot : e \in {x \in index : x.col = col /\ sameType /\ x.value = value}}
    ELSE {s \in LiveSlots : sameType /\ values[s][col] = value}

\* Plausible bug: the last slot is left out of the candidates.
candidateIdsOffByOne(col, value, sameType) ==
    {slotToID[s] : s \in {t \in EqualSlots(col, value, sameType) \cap LiveSlots :
                            t < Len(live)}}

candidateIds(col, value, sameType) ==
    {slotToID[s] : s \in EqualSlots(col, value, sameType) \cap LiveSlots}

\* A full scan filtered by matchesWhere, which compares normalized values.
scannedIds(col, value) ==
    {id \in DOMAIN idToSlot : values[idToSlot[id]][col] = value}

\* A column = constant query: the candidates of the column's strategy, or all
\* rows when it has no opinion, filtered by matchesWhere.
selectRows(col, value, sameType) ==
    /\ mode # "broken"
    /\ Reports(RowsOutcome(buildRows(
          IF col \in External \cup Scanned
          THEN candidateIds(col, value, sameType) \cap scannedIds(col, value)
          ELSE scannedIds(col, value))))

-----------------------------------------------------------------------------
Next ==
    \/ Refuse
    \/ rows
    \/ \E id \in Ids :
          \/ exists(id)
          \/ deleteAbsent(id)
          \/ deleteTombstone(id)
          \/ deleteCompact(id)
          \/ \E updates \in UpdateLists : update(id, updates)
    \/ \E key \in Keys :
          \/ load(key)
          \/ \E data \in Payloads, overwrite \in BOOLEAN :
                \/ storeDuplicate(key, overwrite)
                \/ storeInvalid(key, data, overwrite)
                \/ storeRow(key, data, overwrite)
    \/ \E col \in Columns, value \in Values, sameType \in SameType :
          selectRows(col, value, sameType)

Spec == Init /\ [][Next]_vars

-----------------------------------------------------------------------------
(***************************************************************************)
(* Properties                                                              *)
(***************************************************************************)

\* The parallel slices always have one element per slot: no operation of
\* columnar.go grows or shrinks one slice without the others.
SlicesAligned ==
    /\ Len(slotToID) = Len(live)
    /\ Len(slotToKey) = Len(live)
    /\ Len(values) = Len(live)
    /\ Len(leftover) = IF mode = "map" THEN Len(live) ELSE 0

\* idToSlot and slotToID stay inverse to each other across slot reuse and
\* compaction: every stored id has a live slot of its own that carries this id
\* and a key of this id, and no other slot is live.
SlotsAgree ==
    /\ \A id \in DOMAIN idToSlot :
          /\ idToSlot[id] \in LiveSlots
          /\ slotToID[idToSlot[id]] = id
    /\ \A s \in LiveSlots :
          /\ slotToID[s] \in DOMAIN idToSlot
          /\ idToSlot[slotToID[s]] = s
          /\ slotToKey[s] \in Keys
          /\ keyID[slotToKey[s]] = slotToID[s]

\* The free list holds every dead slot once and no live slot, so allocSlot
\* never hands out a slot that is in use, and deadCount counts it exactly.
FreeListExact ==
    /\ IsInjective(freeList)
    /\ Range(freeList) = Slots \ LiveSlots
    /\ deadCount = Len(freeList)

\* compactionThreshold bounds the waste: after every call fewer than half of
\* the slots are dead.
DeadBounded == live = <<>> \/ 2 * deadCount < Len(live)

\* The external index agrees with the column slices at every slot, after
\* overwrites, updates, slot reuse and compaction (SetValue and ClearValue are
\* called often enough): what it holds at a live slot is the cell.
IndexMatchesCells ==
    \A s \in LiveSlots, c \in External, v \in Values :
        IndexEntry(c, s, v) \in index <=> values[s][c] = v

\* "so the result is identical to a full scan regardless of the strategy"
\* (candidateRows): whatever the strategy returns, stale slots included, the
\* accelerated query selects the ids that a full scan selects.
CandidatesMatchScan ==
    \A c \in External \cup Scanned, v \in Values, t \in SameType :
        candidateIds(c, v, t) \cap scannedIds(c, v) = scannedIds(c, v)

\* A record keeps its slot until it is deleted or the engine compacts, and
\* compaction moves records down without reordering them.
SlotMovesOnlyDown ==
    \A a, b \in DOMAIN idToSlot \cap DOMAIN idToSlot' :
        /\ idToSlot'[a] <= idToSlot[a]
        /\ idToSlot'[a] # idToSlot[a] => Len(live') < Len(live)
        /\ idToSlot[a] < idToSlot[b] => idToSlot'[a] < idToSlot'[b]
SlotsStable == [][SlotMovesOnlyDown]_vars

\* The engine implements the storageEngine contract: seen through idToSlot its
\* slices are a map from ids to rows, and every call changes that map and
\* answers as the contract says.  A write that succeeds, across slot reuse and
\* compaction, does what the contract says of this very call.
storedRecords == [id \in DOMAIN idToSlot |-> rowAt(idToSlot[id])]
storedKeys == [id \in DOMAIN idToSlot |-> slotToKey[idToSlot[id]]]
Contract == INSTANCE StorageEngine WITH records <- storedRecords, keys <- storedKeys

WritesMatch ==
    result'.out = "ok" =>
        /\ \A id \in Ids :
              /\ deleteAbsent(id) \/ deleteTombstone(id) \/ deleteCompact(id) =>
                    Contract!delete(id)
              /\ \A updates \in UpdateLists : update(id, updates) => Contract!update(id, updates)
        /\ \A key \in Keys, data \in Payloads, overwrite \in BOOLEAN :
              storeRow(key, data, overwrite) => Contract!store(key, data, overwrite)

ImplementsContract == Contract!Spec /\ [][WritesMatch]_vars
=============================================================================
