------------------------------ MODULE Branching ------------------------------
(***************************************************************************)
(* Checkpoints and branches of a dalgo2memory database (branching.go):     *)
(* Capture copies every engine of a database while it holds the database's *)
(* locks, Branch copies a checkpoint into a database of its own, Release   *)
(* drops the checkpoint.  Any database can be captured, branches included, *)
(* and several captures run at once.                                       *)
(*                                                                         *)
(* Go objects that could be shared by mistake are explicit: engines live   *)
(* in a heap and databases and checkpoints refer to them, and a stored     *)
(* record refers to a key object, whose id its owner can change: a         *)
(* generated insert writes the id of its record's key, which the engine    *)
(* kept when the record was stored before.                                 *)
(***************************************************************************)
EXTENDS Integers, Sequences, FiniteSets, Functions

CONSTANTS
    Procs,           \* goroutines that capture
    NoProc,
    Collections,
    Ids, Values,
    MaxWrites,       \* bound on the writes
    MaxDatabases,    \* bound on the databases, the first one included
    MaxCheckpoints   \* bound on the checkpoints

ASSUME BranchingAssumption ==
    /\ NoProc \notin Procs
    /\ MaxWrites \in Nat
    /\ MaxDatabases \in Nat \ {0}
    /\ MaxCheckpoints \in Nat

VARIABLES
    schema,        \* engine that the schema chooses for a collection
    heap,          \* every engine object: id -> value and key object
    dbs,           \* every database: collection -> engine object
    mu,            \* holder of mu and enginesMu of every database
    touchedKeys,   \* key objects whose id has been changed since
    checkpoints,   \* snapshot (collection -> engine object), released, and the
                   \* history variable frozen: what was captured
    capture,       \* the running Capture of each goroutine
    closed,        \* branches that have been closed
    writes         \* number of writes so far

vars == <<schema, heap, dbs, mu, touchedKeys, checkpoints, capture, closed, writes>>

-----------------------------------------------------------------------------
None == [x \in {} |-> NoProc]
NoCapture == [pc |-> "idle", db |-> 0, snapshot |-> None]

\* A key object is named by the write that brought it or by the engine object
\* that its clone was made for.
CallersKey(n, i) == [write |-> n, engine |-> 0, id |-> i]
ClonedKey(e, i) == [write |-> 0, engine |-> e, id |-> i]

\* What users of a set of engines see: values, and whether the keys that
\* queries return still name their records.
Shown(m) ==
    [c \in Collections |->
        IF c \notin DOMAIN m THEN None
        ELSE [i \in DOMAIN heap[m[c]] |->
                [value  |-> heap[m[c]][i].value,
                 intact |-> heap[m[c]][i].key \notin touchedKeys]]]

Init ==
    /\ schema \in [Collections -> {"serialized", "columnar"}]
    /\ heap = <<>>
    /\ dbs = <<None>>
    /\ mu = <<NoProc>>
    /\ touchedKeys = {}
    /\ checkpoints = <<>>
    /\ capture = [p \in Procs |-> NoCapture]
    /\ closed = {}
    /\ writes = 0

\* A clone keeps whatever id its original showed.
Touched(m) == {i \in DOMAIN m : m[i].key \in touchedKeys}

\* Plausible bug: the snapshot keeps the source's key objects.
ClonedSharingKeys(m, e) == m

\* newEngine and snapshotSerializedEngine: a copy of the bytes and of the keys
\* of engine contents m, as the contents of engine object e.
Cloned(m, e) == [i \in DOMAIN m |-> [value |-> m[i].value, key |-> ClonedKey(e, i)]]

-----------------------------------------------------------------------------
\* The engine of a collection, or a new one for its first access.
Engine(d, c) == IF c \in DOMAIN dbs[d] THEN dbs[d][c] ELSE Len(heap) + 1

Register(d, c) ==
    dbs' = [dbs EXCEPT ![d] = [x \in DOMAIN @ \cup {c} |-> IF x = c THEN Engine(d, c) ELSE @[x]]]

SetContents(d, c, m) ==
    /\ Register(d, c)
    /\ heap' = IF c \in DOMAIN dbs[d] THEN [heap EXCEPT ![dbs[d][c]] = m]
                                      ELSE Append(heap, m)

\* Data operations of a database take mu, so none runs during a Capture of it.
Set(d, c, i, v) ==
    LET old == IF c \in DOMAIN dbs[d] THEN heap[dbs[d][c]] ELSE None IN
    /\ mu[d] = NoProc
    /\ writes < MaxWrites
    /\ writes' = writes + 1
    /\ SetContents(d, c, [x \in DOMAIN old \cup {i} |->
                            IF x = i THEN [value |-> v, key |-> CallersKey(writes', i)]
                                     ELSE old[x]])
    /\ UNCHANGED <<schema, mu, touchedKeys, checkpoints, capture, closed>>

Delete(d, c, i) ==
    LET old == IF c \in DOMAIN dbs[d] THEN heap[dbs[d][c]] ELSE None IN
    /\ mu[d] = NoProc
    /\ writes < MaxWrites
    /\ writes' = writes + 1
    /\ SetContents(d, c, Restrict(old, DOMAIN old \ {i}))
    /\ UNCHANGED <<schema, mu, touchedKeys, checkpoints, capture, closed>>

\* A failed generated insert of a record that is stored already.
ChangeKey(d, c, i) ==
    /\ mu[d] = NoProc
    /\ c \in DOMAIN dbs[d]
    /\ i \in DOMAIN heap[dbs[d][c]]
    /\ heap[dbs[d][c]][i].key \notin touchedKeys
    /\ writes < MaxWrites
    /\ writes' = writes + 1
    /\ touchedKeys' = touchedKeys \cup {heap[dbs[d][c]][i].key}
    /\ UNCHANGED <<schema, heap, dbs, mu, checkpoints, capture, closed>>

-----------------------------------------------------------------------------
SetCapture(p, label, d, s) ==
    capture' = [capture EXCEPT ![p] = [pc |-> label, db |-> d, snapshot |-> s]]

\* Capture with a live context.
CaptureStart(p, d) ==
    /\ capture[p].pc = "idle"
    /\ Len(checkpoints) < MaxCheckpoints
    /\ SetCapture(p, "lock", d, None)
    /\ UNCHANGED <<schema, heap, dbs, mu, touchedKeys, checkpoints, closed, writes>>

\* Plausible bug: the database's lock is not taken.
CaptureUnlocked(p) ==
    /\ capture[p].pc = "lock"
    /\ SetCapture(p, "validate", capture[p].db, None)
    /\ UNCHANGED <<schema, heap, dbs, mu, touchedKeys, checkpoints, closed, writes>>

CaptureLock(p) ==
    LET d == capture[p].db IN
    /\ capture[p].pc = "lock"
    /\ mu[d] = NoProc
    /\ mu' = [mu EXCEPT ![d] = p]
    /\ SetCapture(p, "validate", d, None)
    /\ UNCHANGED <<schema, heap, dbs, touchedKeys, checkpoints, closed, writes>>

\* validateSerializedConfiguration: an engine in use, or one that the schema
\* would create, is not the serialized one.
Unsupported(d) ==
    \/ \E c \in DOMAIN dbs[d] : schema[c] # "serialized"
    \/ \E c \in Collections : schema[c] # "serialized"

\* The context has been cancelled meanwhile or the configuration is refused:
\* the deferred unlocks run and there is no checkpoint.
CaptureRefused(p) ==
    LET d == capture[p].db IN
    /\ capture[p].pc = "validate"
    /\ mu' = [mu EXCEPT ![d] = NoProc]
    /\ capture' = [capture EXCEPT ![p] = NoCapture]
    /\ UNCHANGED <<schema, heap, dbs, touchedKeys, checkpoints, closed, writes>>

CaptureValidated(p) ==
    /\ capture[p].pc = "validate"
    /\ ~Unsupported(capture[p].db)
    /\ SetCapture(p, "copy", capture[p].db, None)
    /\ UNCHANGED <<schema, heap, dbs, mu, touchedKeys, checkpoints, closed, writes>>

\* snapshotDatabase copies one engine after the other, in map order.
CaptureEngine(p, c) ==
    LET d == capture[p].db
        m == heap[dbs[d][c]]
        e == Len(heap) + 1
    IN
    /\ capture[p].pc = "copy"
    /\ c \in DOMAIN dbs[d] \ DOMAIN capture[p].snapshot
    /\ heap' = Append(heap, Cloned(m, e))
    /\ touchedKeys' = touchedKeys \cup {ClonedKey(e, i) : i \in Touched(m)}
    /\ SetCapture(p, "copy", d, [x \in DOMAIN capture[p].snapshot \cup {c} |->
                                   IF x = c THEN e ELSE capture[p].snapshot[x]])
    /\ UNCHANGED <<schema, dbs, mu, checkpoints, closed, writes>>

\* The checkpoint is published and the locks are released.
CapturePublish(p) ==
    LET d == capture[p].db IN
    /\ capture[p].pc = "copy"
    /\ DOMAIN capture[p].snapshot = DOMAIN dbs[d]
    /\ Len(checkpoints) < MaxCheckpoints
    /\ checkpoints' = Append(checkpoints, [snapshot |-> capture[p].snapshot,
                                           released |-> FALSE, frozen |-> Shown(dbs[d])])
    /\ mu' = [mu EXCEPT ![d] = NoProc]
    /\ capture' = [capture EXCEPT ![p] = NoCapture]
    /\ UNCHANGED <<schema, heap, dbs, touchedKeys, closed, writes>>

-----------------------------------------------------------------------------
\* Plausible bug: the branch works on the checkpoint's own engines.
NewDatabaseShared(s) ==
    /\ dbs' = Append(dbs, s)
    /\ UNCHANGED <<heap, touchedKeys>>

\* newDatabase: one new engine per captured one.
NewDatabase(s) ==
    LET position == CHOOSE f \in [DOMAIN s -> 1..Cardinality(DOMAIN s)] : IsInjective(f)
        at(n) == CHOOSE c \in DOMAIN s : position[c] = n
        object(c) == Len(heap) + position[c]
    IN
    /\ dbs' = Append(dbs, [c \in DOMAIN s |-> object(c)])
    /\ heap' = heap \o [n \in 1..Cardinality(DOMAIN s) |->
                          Cloned(heap[s[at(n)]], Len(heap) + n)]
    /\ touchedKeys' = touchedKeys \cup
          UNION {{ClonedKey(object(c), i) : i \in Touched(heap[s[c]])} : c \in DOMAIN s}

\* Plausible bug: only the released flag of a new checkpoint is looked at.
CanBranchAlways(k) == TRUE

\* Branch of a released checkpoint returns ErrReleased and changes nothing.
CanBranch(k) == ~checkpoints[k].released

Branch(k) ==
    /\ Len(dbs) < MaxDatabases
    /\ CanBranch(k)
    /\ NewDatabase(checkpoints[k].snapshot)
    /\ mu' = Append(mu, NoProc)
    /\ UNCHANGED <<schema, checkpoints, capture, closed, writes>>

\* Release forgets the snapshot, any number of times.
Release(k) ==
    /\ ~checkpoints[k].released
    /\ checkpoints' = [checkpoints EXCEPT ![k].released = TRUE, ![k].snapshot = None]
    /\ UNCHANGED <<schema, heap, dbs, mu, touchedKeys, capture, closed, writes>>

\* Close only marks the branch: its database stays usable.
Close(d) ==
    /\ d \in 2..Len(dbs)
    /\ closed' = closed \cup {d}
    /\ UNCHANGED <<schema, heap, dbs, mu, touchedKeys, checkpoints, capture, writes>>

-----------------------------------------------------------------------------
Next ==
    \/ \E d \in DOMAIN dbs, c \in Collections, i \in Ids :
          \/ \E v \in Values : Set(d, c, i, v)
          \/ Delete(d, c, i)
          \/ ChangeKey(d, c, i)
    \/ \E p \in Procs :
          \/ \E d \in DOMAIN dbs : CaptureStart(p, d)
          \/ CaptureLock(p)
          \/ CaptureRefused(p)
          \/ CaptureValidated(p)
          \/ \E c \in Collections : CaptureEngine(p, c)
          \/ CapturePublish(p)
    \/ \E k \in DOMAIN checkpoints : Branch(k) \/ Release(k)
    \/ \E d \in DOMAIN dbs : Close(d)

Spec == Init /\ [][Next]_vars

-----------------------------------------------------------------------------
(***************************************************************************)
(* Properties                                                              *)
(***************************************************************************)

Refs == DOMAIN heap
KeyObjects == [write : 0..writes, engine : 0..Len(heap), id : Ids]
Partial(S, T) == UNION {[D -> T] : D \in SUBSET S}
Stored == Partial(Ids, [value : Values, key : KeyObjects])
Displayed == [Collections -> Partial(Ids, [value : Values, intact : BOOLEAN])]

\* Types of the whole state; every reference leads to an engine object.
TypeOK ==
    /\ schema \in [Collections -> {"serialized", "columnar"}]
    /\ heap \in Seq(Stored)
    /\ dbs \in Seq(Partial(Collections, Refs))
    /\ mu \in Seq(Procs \cup {NoProc}) /\ Len(mu) = Len(dbs)
    /\ touchedKeys \subseteq KeyObjects
    /\ checkpoints \in Seq([snapshot : Partial(Collections, Refs), released : BOOLEAN,
                            frozen : Displayed])
    /\ capture \in [Procs -> [pc : {"idle", "lock", "validate", "copy"}, db : Nat,
                              snapshot : Partial(Collections, Refs)]]
    /\ closed \subseteq DOMAIN dbs
    /\ writes \in 0..MaxWrites

\* A checkpoint shows what its source showed at one moment, however the copy
\* of its collections interleaves with writers, and goes on showing it
\* whatever happens to the source, to branches and to the callers' keys.
CheckpointFrozen ==
    \A k \in DOMAIN checkpoints :
        ~checkpoints[k].released => Shown(checkpoints[k].snapshot) = checkpoints[k].frozen

\* "source/sibling isolation" (branchingtest): a step changes what at most one
\* database shows, so writing to a branch never reaches its source, its
\* siblings or a branch made from it.
DatabasesIsolated ==
    \A d, e \in DOMAIN dbs :
        d # e => Shown(dbs[d])' = Shown(dbs[d]) \/ Shown(dbs[e])' = Shown(dbs[e])
Isolation == [][DatabasesIsolated]_vars

\* A new branch shows what its checkpoint captured, not what the source or a
\* sibling has become, and none is made from a released checkpoint.
NewBranchIsCheckpoint ==
    Len(dbs') > Len(dbs) =>
        \E k \in DOMAIN checkpoints :
            /\ ~checkpoints[k].released
            /\ Shown(dbs[Len(dbs)])' = checkpoints[k].frozen
BranchFaithful == [][NewBranchIsCheckpoint]_vars

=============================================================================
