--------------------------- MODULE TypedCollection ---------------------------
(***************************************************************************)
(* dal.Collection[K, T] (dal/collection.go): handles that turn typed IDs   *)
(* into keys and delegate to a session.  The session is dalgo2memory's     *)
(* (database.go), over one collection whose records lie at the root or     *)
(* under a parent key; its storage and its transactions have modules of    *)
(* their own, and here are a function from keys to values, and a           *)
(* transaction that may be open.                                           *)
(*                                                                         *)
(* A handle has a parent and the key option it was configured with: none,  *)
(* one that fails, or one that sets a parent (record.WithParentKey).       *)
(***************************************************************************)
EXTENDS Integers, Sequences, FiniteSets, SequencesExt

CONSTANTS
    IDs, Values,
    Root,         \* no parent
    Parents,      \* keys that records can be nested under
    Incomplete,   \* those of them that have no ID
    NoOption, FailingOption,
    NoTx,         \* no transaction
    InitialDBs,   \* the records there may be to start with
    MaxSteps      \* calls explored

Key(parent, id) == [parent |-> parent, id |-> id]
Keys == {Key(parent, id) : parent \in (Parents \ Incomplete) \cup {Root}, id \in IDs}

ASSUME CollectionAssumption ==
    /\ Root \notin Parents /\ Incomplete \subseteq Parents
    /\ {NoOption, FailingOption} \cap Parents = {} /\ NoOption # FailingOption
    /\ \A rows \in InitialDBs : DOMAIN rows \subseteq Keys /\ rows = [k \in DOMAIN rows |-> rows[k]]
    /\ MaxSteps \in Nat

VARIABLES
    db,           \* the records, by key
    handle,       \* the handle in use
    tx,           \* the open transaction: its snapshot and whether it has written
    noReadsAfterWrites, rollsBack,   \* the database's options
    last,         \* the last call: handle, keys it reported written, outcome
    steps

cvars == <<db, handle, tx, noReadsAfterWrites, rollsBack, last, steps>>
config == <<noReadsAfterWrites, rollsBack>>

Put(rows, k, v) == [x \in DOMAIN rows \cup {k} |-> IF x = k THEN v ELSE rows[x]]
Without(rows, k) == [x \in DOMAIN rows \ {k} |-> rows[x]]

-----------------------------------------------------------------------------
\* Where a typed ID goes: the configured options come after the handle's parent.
parentOf(h) == IF h.option \in Parents THEN h.option ELSE h.parent

\* guardParent passes no key that has an ancestor without an ID.
guardParent(k) == IF k.parent \in Incomplete THEN {} ELSE {k}

\* Plausible bug: the parent of the collection is left out of the key.
idToKeyAtRoot(h, id) ==
    IF h.option = FailingOption THEN {}
    ELSE guardParent(Key(IF h.option \in Parents THEN h.option ELSE Root, id))

\* No key when an option fails or the guard refuses it.
idToKey(h, id) ==
    IF h.option = FailingOption THEN {} ELSE guardParent(Key(parentOf(h), id))

\* From(c.ref): all records of the collection for a root handle, else those whose
\* immediate parent is the handle's (isChildOf).
Scope(h) == {k \in DOMAIN db : h.parent # Root => k.parent = h.parent}

\* A query is not guarded, so that comparing a nested record's parent with an
\* incomplete one panics (Key.String).
queryPanics(h) == h.parent \in Incomplete /\ \E k \in DOMAIN db : k.parent # Root

\* allowRead
mayRead == tx = NoTx \/ ~noReadsAfterWrites \/ ~tx.wrote
markWrite == tx' = IF tx = NoTx THEN NoTx ELSE [tx EXCEPT !.wrote = TRUE]

\* Records written one after the other, up to the first whose key is not there
\* (or, for inserts, is there already); what was written stays.
WriteInOrder(rows, items, there) ==
    LET done[n \in 0..Len(items)] ==
            IF n = 0 THEN [rows |-> rows, ok |-> TRUE, n |-> 0]
            ELSE IF done[n - 1].ok /\ (items[n].key \in DOMAIN done[n - 1].rows <=> there)
            THEN [rows |-> Put(done[n - 1].rows, items[n].key, items[n].value), ok |-> TRUE, n |-> n]
            ELSE [done[n - 1] EXCEPT !.ok = FALSE]
    IN  done[Len(items)]

\* InsertMulti
InsertInOrder(rows, items) == WriteInOrder(rows, items, FALSE)

-----------------------------------------------------------------------------
NoCall == [h |-> [parent |-> Root, option |-> NoOption], written |-> {}, outcome |-> "none"]
Returns(outcome, written) == last' = [h |-> handle, written |-> written, outcome |-> outcome]
Call == steps < MaxSteps /\ steps' = steps + 1

CInit ==
    /\ db \in InitialDBs
    /\ handle \in {[parent |-> Root, option |-> o] :
                     o \in {NoOption, FailingOption} \cup (Parents \ Incomplete)}
    /\ tx = NoTx
    /\ noReadsAfterWrites \in BOOLEAN
    /\ rollsBack \in BOOLEAN
    /\ last = NoCall
    /\ steps = 0

\* In makes a handle from the collection's name alone; the key options are gone
\* (spec/features/typed-collection/README.md:90 asks for them to be carried over).
In(parent) ==
    /\ Call
    /\ handle' = [parent |-> parent, option |-> NoOption]
    /\ Returns("ok", {})
    /\ UNCHANGED <<db, tx, config>>

\* GetRecord, on which GetData, Get, GetRecordWithID and GetRecordWithDataAndID
\* rest, and Exists, which answers false instead of not found.
GetRecord(id) ==
    /\ Call
    /\ Returns(CASE idToKey(handle, id) = {} -> "bad key"
                 [] idToKey(handle, id) # {} /\ ~mayRead -> "read after write"
                 [] OTHER -> IF idToKey(handle, id) \subseteq DOMAIN db THEN "ok" ELSE "not found", {})
    /\ UNCHANGED <<db, handle, tx, config>>

Exists(id) ==
    /\ Call
    /\ Returns(CASE idToKey(handle, id) = {} -> "bad key"
                 [] idToKey(handle, id) # {} /\ ~mayRead -> "read after write"
                 [] OTHER -> IF idToKey(handle, id) \subseteq DOMAIN db THEN "true" ELSE "false", {})
    /\ UNCHANGED <<db, handle, tx, config>>

\* All, Count and First run one query.
All ==
    /\ Call
    /\ Returns(CASE ~mayRead -> "read after write"
                 [] mayRead /\ queryPanics(handle) -> "panic"
                 [] OTHER -> IF Scope(handle) = {} THEN "empty" ELSE "ok", {})
    /\ UNCHANGED <<db, handle, tx, config>>

\* A write terminal has one key, or none when no key could be made; a terminal
\* that was given an ID reports the key it wrote.
NoKey == Returns("bad key", {}) /\ UNCHANGED <<db, tx>>

insertAt(ks, v, reported) ==
    /\ Call
    /\ \/ ks = {} /\ NoKey
       \/ \E k \in ks :
             \/ k \in DOMAIN db /\ Returns("exists", {}) /\ UNCHANGED <<db, tx>>
             \/ k \notin DOMAIN db /\ db' = Put(db, k, v) /\ markWrite /\ Returns("ok", reported)
    /\ UNCHANGED <<handle, config>>

setAt(ks, v, reported) ==
    /\ Call
    /\ \/ ks = {} /\ NoKey
       \/ \E k \in ks : db' = Put(db, k, v) /\ markWrite /\ Returns("ok", reported)
    /\ UNCHANGED <<handle, config>>

\* Preconditions are ignored by the session.
updateAt(ks, v, reported) ==
    /\ Call
    /\ \/ ks = {} /\ NoKey
       \/ \E k \in ks :
             \/ k \notin DOMAIN db /\ Returns("not found", {}) /\ UNCHANGED <<db, tx>>
             \/ k \in DOMAIN db /\ db' = Put(db, k, v) /\ markWrite /\ Returns("ok", reported)
    /\ UNCHANGED <<handle, config>>

deleteAt(ks) ==
    /\ Call
    /\ \/ ks = {} /\ NoKey
       \/ \E k \in ks : db' = Without(db, k) /\ markWrite /\ Returns("ok", {})
    /\ UNCHANGED <<handle, config>>

\* The terminals by typed ID (Set, Update and Delete are the same).
InsertWithID(id, v) == insertAt(idToKey(handle, id), v, idToKey(handle, id))
SetByID(id, v) == setAt(idToKey(handle, id), v, idToKey(handle, id))
UpdateByID(id, v) == updateAt(idToKey(handle, id), v, idToKey(handle, id))
DeleteByID(id) == deleteAt(idToKey(handle, id))

\* The terminals by a record or a key that the caller has built: it may lie
\* anywhere, whatever the handle's parent and options.
CallerKeys == {Key(parent, id) : parent \in Parents \cup {Root}, id \in IDs}
InsertRecord(k, v) == insertAt(guardParent(k), v, {})
SetRecord(k, v) == setAt(guardParent(k), v, {})
UpdateByKey(k, v) == updateAt(guardParent(k), v, {})
DeleteByKey(k) == deleteAt(guardParent(k))

\* Insert generates an ID under the handle's parent, whatever the key options.
Insert(v) ==
    /\ Call
    /\ \/ handle.parent \in Incomplete /\ Returns("bad key", {}) /\ UNCHANGED <<db, tx>>
       \/ /\ handle.parent \notin Incomplete
          /\ \E id \in IDs :
                /\ Key(handle.parent, id) \notin DOMAIN db
                /\ db' = Put(db, Key(handle.parent, id), v)
                /\ Returns("ok", {Key(handle.parent, id)})
          /\ markWrite
    /\ UNCHANGED <<handle, config>>

\* InsertMany makes every key before it writes the first record.
InsertMany(items) ==
    /\ Call
    /\ LET keyed == [n \in DOMAIN items |-> idToKey(handle, items[n].id)] IN
       \/ /\ \E n \in DOMAIN items : keyed[n] = {}
          /\ Returns("bad key", {})
          /\ UNCHANGED <<db, tx>>
       \/ /\ \A n \in DOMAIN items : keyed[n] # {}
          /\ LET records == [n \in DOMAIN items |->
                               [key |-> CHOOSE k \in keyed[n] : TRUE, value |-> items[n].value]]
                 done == InsertInOrder(db, records)
             IN  /\ db' = done.rows
                 /\ IF done.ok THEN Returns("ok", UNION Range(keyed)) ELSE Returns("exists", {})
                 /\ IF done.n > 0 THEN markWrite ELSE UNCHANGED tx
    /\ UNCHANGED <<handle, config>>

Item(id, v) == [id |-> id, value |-> v]
Terminal ==
    \/ \E parent \in Parents : In(parent)
    \/ \E id \in IDs : GetRecord(id) \/ Exists(id) \/ DeleteByID(id)
    \/ All
    \/ \E v \in Values : Insert(v)
    \/ \E id \in IDs, v \in Values : InsertWithID(id, v) \/ SetByID(id, v) \/ UpdateByID(id, v)
    \/ \E k \in CallerKeys :
          DeleteByKey(k) \/ \E v \in Values : InsertRecord(k, v) \/ SetRecord(k, v) \/ UpdateByKey(k, v)
    \/ \E a, b \in IDs, v \in Values : InsertMany(<<Item(a, v), Item(b, v)>>)

-----------------------------------------------------------------------------
\* The options of a handle put its records nowhere but in its own scope.
Agrees(h) == h.option \in Parents => h.parent \in {Root, h.option}

\* Collection: what a handle reports as written, by typed ID, by a generated ID or
\* in a batch, is among what the same handle lists, and what it wrote by typed ID is
\* where the handle looks for that ID.  This is of handles whose key options do not
\* set another parent than the one they are scoped under: with such an option a
\* scoped handle would write where it does not list.  What keeps In from making one
\* is that it drops the options, where spec/features/typed-collection/README.md:90
\* has it "carrying over the configured key options"; the property holds either way.
WrittenIsListed ==
    (last.outcome = "ok" /\ Agrees(last.h)) =>
        \A k \in last.written :
            /\ k \in Scope(last.h)
            /\ last.h.option = NoOption => {k} = idToKey(last.h, k.id)
=============================================================================
