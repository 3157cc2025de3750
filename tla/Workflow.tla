------------------------------ MODULE Workflow -------------------------------
(***************************************************************************)
(* A program that works through dal: typed collections, transactions and   *)
(* the queue of changes that ApplyChanges writes (dal/changes.go).         *)
(* record.Changes, the queue itself, is external.                          *)
(*                                                                         *)
(* A record object has an identity of its own: two objects may have equal  *)
(* keys.  A database that rolls back is external; dalgo2memory does not.   *)
(***************************************************************************)
EXTENDS TypedCollection

CONSTANTS
    Objects,      \* record objects
    KeyOf(_), DataOf(_),
    MaxQueued     \* queued operations of each kind

ASSUME WorkflowAssumption ==
    /\ \A o \in Objects : KeyOf(o) \in Keys
    /\ MaxQueued \in Nat

VARIABLES
    queue,        \* record.Changes: inserts (objects), updates and deletes
    attempted     \* how the last ApplyChanges went

wvars == <<cvars, queue, attempted>>
aside == <<queue, attempted>>

EmptyQueue == [inserts |-> <<>>, updates |-> <<>>, deletes |-> <<>>]
NoAttempt == [stage |-> "none", excluded |-> {}]

\* A call that is not a collection's.
OwnCall == Call /\ last' = NoCall

-----------------------------------------------------------------------------
BeginTx ==
    /\ OwnCall
    /\ tx = NoTx
    /\ tx' = [before |-> db, wrote |-> FALSE]
    /\ UNCHANGED <<db, handle, config, aside>>

\* The worker returns; only a database that rolls back undoes anything.
EndTx(failed) ==
    /\ OwnCall
    /\ tx # NoTx
    /\ db' = IF failed /\ rollsBack THEN tx.before ELSE db
    /\ tx' = NoTx
    /\ UNCHANGED <<handle, config, aside>>

-----------------------------------------------------------------------------
\* The queue (external): what record.Changes lets a program queue.
QueueInsert(o) ==
    /\ OwnCall
    /\ Len(queue.inserts) < MaxQueued
    /\ queue' = [queue EXCEPT !.inserts = Append(@, o)]
    /\ UNCHANGED <<db, handle, tx, config, attempted>>
QueueUpdate(k, v) ==
    /\ OwnCall
    /\ Len(queue.updates) < MaxQueued
    /\ queue' = [queue EXCEPT !.updates = Append(@, [key |-> k, value |-> v])]
    /\ UNCHANGED <<db, handle, tx, config, attempted>>
QueueDelete(k) ==
    /\ OwnCall
    /\ Len(queue.deletes) < MaxQueued
    /\ queue' = [queue EXCEPT !.deletes = Append(@, k)]
    /\ UNCHANGED <<db, handle, tx, config, attempted>>

\* Keys to exclude are compared as pointers, so only their own record is left out.
excludeRecords(objects, excluded) ==
    LET kept[n \in 0..Len(objects)] ==
            IF n = 0 THEN <<>>
            ELSE IF objects[n] \in excluded THEN kept[n - 1] ELSE Append(kept[n - 1], objects[n])
    IN  kept[Len(objects)]

\* The records of InsertMulti.
toInsert(q, excluded) ==
    LET kept == excludeRecords(q.inserts, excluded)
    IN  [n \in DOMAIN kept |-> [key |-> KeyOf(kept[n]), value |-> DataOf(kept[n])]]

UpdateInOrder(rows, updates) == WriteInOrder(rows, updates, TRUE)

\* Plausible bug: deletes go first.
appliedDeletesFirst(rows, q, excluded) ==
    LET rest == [k \in DOMAIN rows \ Range(q.deletes) |-> rows[k]]
        inserted == InsertInOrder(rest, toInsert(q, excluded))
        updated == UpdateInOrder(inserted.rows, q.updates)
    IN  IF ~inserted.ok THEN [stage |-> "insert", rows |-> inserted.rows, n |-> inserted.n]
        ELSE IF ~updated.ok THEN [stage |-> "update", rows |-> updated.rows, n |-> inserted.n + updated.n]
        ELSE [stage |-> "done", rows |-> updated.rows, n |-> 1]

\* Plausible bug: a failed update takes the inserts back, but not the other updates.
appliedHalfUndone(rows, q, excluded) ==
    LET inserted == InsertInOrder(rows, toInsert(q, excluded))
        updated == UpdateInOrder(inserted.rows, q.updates)
        deleted == [k \in DOMAIN updated.rows \ Range(q.deletes) |-> updated.rows[k]]
    IN  IF ~inserted.ok THEN [stage |-> "insert", rows |-> inserted.rows, n |-> inserted.n]
        ELSE IF ~updated.ok THEN [stage |-> "update", rows |-> [k \in DOMAIN rows |-> updated.rows[k]],
                                n |-> updated.n]
        ELSE [stage |-> "done", rows |-> deleted, n |-> inserted.n + updated.n + Len(q.deletes)]

\* What ApplyChanges does to the records, where it stops and how much it wrote.
applied(rows, q, excluded) ==
    LET inserted == InsertInOrder(rows, toInsert(q, excluded))
        updated == UpdateInOrder(inserted.rows, q.updates)
        deleted == [k \in DOMAIN updated.rows \ Range(q.deletes) |-> updated.rows[k]]
    IN  IF ~inserted.ok THEN [stage |-> "insert", rows |-> inserted.rows, n |-> inserted.n]
        ELSE IF ~updated.ok THEN [stage |-> "update", rows |-> updated.rows, n |-> inserted.n + updated.n]
        ELSE [stage |-> "done", rows |-> deleted, n |-> inserted.n + updated.n + Len(q.deletes)]

\* The queue is reset only when every operation has succeeded; nothing is undone.
ApplyChanges(excluded) ==
    /\ OwnCall
    /\ tx # NoTx
    /\ queue # EmptyQueue
    /\ LET result == applied(db, queue, excluded) IN
       /\ db' = result.rows
       /\ queue' = IF result.stage = "done" THEN EmptyQueue ELSE queue
       /\ attempted' = [stage |-> result.stage, excluded |-> excluded]
       /\ IF result.n > 0 THEN markWrite ELSE UNCHANGED tx
    /\ UNCHANGED <<handle, config>>

-----------------------------------------------------------------------------
WInit ==
    /\ CInit
    /\ queue = EmptyQueue
    /\ attempted = NoAttempt

WNext ==
    \/ Terminal /\ UNCHANGED aside
    \/ BeginTx
    \/ \E failed \in BOOLEAN : EndTx(failed)
    \/ \E o \in Objects : QueueInsert(o)
    \/ \E k \in Keys : QueueDelete(k) \/ \E v \in Values : QueueUpdate(k, v)
    \/ \E excluded \in SUBSET Range(queue.inserts) : ApplyChanges(excluded)

WSpec == WInit /\ [][WNext]_wvars

-----------------------------------------------------------------------------
\* ApplyChanges, stated key by key: when the queue is cleared a key that was to be
\* deleted is gone, one that was to be updated has its last update, one that was to
\* be inserted and not excluded was free and has its record, and no other key is
\* touched.
LastUpdate(k) == LET ns == {n \in DOMAIN queue.updates : queue.updates[n].key = k}
                 IN  queue.updates[CHOOSE n \in ns : \A m \in ns : m <= n].value
AppliedExactly ==
    [][(queue # EmptyQueue /\ queue' = EmptyQueue) =>
         LET inserted == {o \in Range(queue.inserts) : o \notin attempted'.excluded} IN
         /\ \A o \in inserted : KeyOf(o) \notin DOMAIN db
         /\ \A k \in Keys :
               \/ k \in Range(queue.deletes) /\ k \notin DOMAIN db'
               \/ /\ k \notin Range(queue.deletes)
                  /\ \E u \in Range(queue.updates) : u.key = k
                  /\ k \in DOMAIN db' /\ db'[k] = LastUpdate(k)
               \/ /\ k \notin Range(queue.deletes) /\ \A u \in Range(queue.updates) : u.key # k
                  /\ IF \E o \in inserted : KeyOf(o) = k
                     THEN k \in DOMAIN db' /\ \E o \in inserted : KeyOf(o) = k /\ db'[k] = DataOf(o)
                     ELSE /\ k \in DOMAIN db <=> k \in DOMAIN db'
                          /\ k \in DOMAIN db => db[k] = db'[k]]_wvars

\* ApplyChanges does not undo.  When it stops after it has changed something, with
\* inserts in its queue, applying the same queue to what it left finds its own
\* first record and stops there.
Retryable == applied(db, queue, attempted.excluded).stage # "insert"
RetryNeedsRollback ==
    [][(queue # EmptyQueue /\ queue' = queue /\ attempted' # attempted /\ db' # db
         /\ excludeRecords(queue.inserts, attempted'.excluded) # <<>>) => ~Retryable']_wvars
=============================================================================
