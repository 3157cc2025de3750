------------------------------ MODULE MemoryDB ------------------------------
(***************************************************************************)
(* The concurrent face of dalgo2memory (database.go, schema.go): calls of  *)
(* many goroutines on one database.  A call takes db.mu, shared or         *)
(* exclusive, runs session operations, and releases it.  A transaction     *)
(* holds db.mu while a worker callback makes session calls of its choice.  *)
(* Every session operation finds its collection's engine through a map     *)
(* that is filled lazily under a second mutex, enginesMu, also by readers. *)
(*                                                                         *)
(* The engines behind the seam are maps from ids to values, which is what  *)
(* module StorageEngine promises of them.  sync.RWMutex is external: a     *)
(* writer first announces itself, which blocks new readers, then waits for *)
(* the readers inside; its Unlock admits every blocked reader.             *)
(***************************************************************************)
EXTENDS Integers, Sequences, FiniteSets, Functions

CONSTANTS
    Procs,         \* goroutines
    Collections,   \* collection names
    Defined,       \* those the schema defines, or all without a strict schema
    Ids, Values,
    Invalid,       \* data that no engine accepts
    NoProc,        \* no goroutine
    SessionCalls,  \* the session calls that goroutines and workers make
    TxModes,       \* the transactions they run: "R" read-only, "W" read-write
    NestedCalls,   \* db-level calls that workers make inside a transaction
    MaxCalls       \* bound on the calls of one worker

Outcomes == {"ok", "found", "notFound", "duplicate", "invalid",
             "undefined", "readAfterWrite"}
Reads == {"get", "exists"}
Op == [op : Reads \cup {"set", "insert", "update", "delete"},
       coll : Collections, id : Ids, value : Values \cup {Invalid}]
Call == [mode : {"R", "W"}, ops : Seq(Op), goesOn : SUBSET Outcomes]

ASSUME DBAssumption ==
    /\ NoProc \notin Procs
    /\ Defined \subseteq Collections
    /\ Invalid \notin Values
    /\ SessionCalls \subseteq Call
    /\ \A c \in SessionCalls :
          /\ c.ops # <<>>
          /\ c.mode = "R" => \A n \in DOMAIN c.ops : c.ops[n].op \in Reads
    /\ NestedCalls \subseteq SessionCalls
    /\ TxModes \subseteq {"R", "W"}
    /\ MaxCalls \in Nat

VARIABLES
    noReadsAfterWrites,   \* WithNoReadsAfterWritesInTransaction was given
    announced,     \* goroutine inside mu.Lock .. mu.Unlock, waiting or holding
    readers,       \* shared holds on mu: pairs of goroutine and call depth
    blocked,       \* goroutines that mu.RLock has put to sleep
    enginesMu,     \* holder of enginesMu
    collections,   \* db.collections: the engine of each collection seen so far
    engines,       \* contents of every engine ever created
    pc,            \* what each goroutine does
    call,          \* the db-level call it is about to enter
    stack,         \* its calls that hold mu, innermost last
    todo,          \* operations left of its current session call
    goesOn,        \* outcomes that do not end this session call
    eng,           \* engine its operation has resolved
    out            \* outcome of its latest operation

lockVars == <<announced, readers, blocked>>
dbVars == <<collections, engines>>
opVars == <<todo, goesOn, eng, out>>
vars == <<noReadsAfterWrites, lockVars, enginesMu, dbVars, pc, call, stack, opVars>>

-----------------------------------------------------------------------------
\* Session calls.
One(mode, op, c, i, v) ==
    [mode |-> mode, ops |-> <<[op |-> op, coll |-> c, id |-> i, value |-> v]>>,
     goesOn |-> {"ok", "found"}]
Many(mode, op, c, ids, v, tolerated) ==
    [mode |-> mode,
     ops |-> [n \in DOMAIN ids |-> [op |-> op, coll |-> c, id |-> ids[n], value |-> v]],
     goesOn |-> {"ok", "found"} \cup tolerated]

Exists(c, i) == One("R", "exists", c, i, Invalid)
Get(c, i) == One("R", "get", c, i, Invalid)
Set(c, i, v) == One("W", "set", c, i, v)
Insert(c, i, v) == One("W", "insert", c, i, v)
Update(c, i, v) == One("W", "update", c, i, v)
Delete(c, i) == One("W", "delete", c, i, Invalid)

\* A multi-record call stops at the first error, except that GetMulti goes on
\* past records that are not found and DeleteMulti past everything.
GetMulti(c, ids) == Many("R", "get", c, ids, Invalid, {"notFound"})
SetMulti(c, ids, v) == Many("W", "set", c, ids, v, {})
InsertMulti(c, ids, v) == Many("W", "insert", c, ids, v, {})
UpdateMulti(c, ids, v) == Many("W", "update", c, ids, v, {})
DeleteMulti(c, ids) == Many("W", "delete", c, ids, Invalid, Outcomes)

-----------------------------------------------------------------------------
\* What an engine does for one operation on its contents m.
Empty == [i \in {} |-> Invalid]

OpOutcome(m, o) ==
    CASE o.op \in Reads  -> IF o.id \in DOMAIN m THEN "found" ELSE "notFound"
      [] o.op = "delete" -> "ok"
      [] o.op = "update" /\ o.id \notin DOMAIN m -> "notFound"
      [] o.op = "insert" /\ o.id \in DOMAIN m -> "duplicate"
      [] OTHER -> IF o.value = Invalid THEN "invalid" ELSE "ok"

OpEffect(m, o) ==
    IF OpOutcome(m, o) # "ok" THEN m
    ELSE IF o.op = "delete" THEN Restrict(m, DOMAIN m \ {o.id})
    ELSE [i \in DOMAIN m \cup {o.id} |-> IF i = o.id THEN o.value ELSE m[i]]

\* The database as its users see it: a collection without an engine is empty.
Contents ==
    [c \in Collections |->
        IF c \in DOMAIN collections THEN engines[collections[c]] ELSE Empty]

-----------------------------------------------------------------------------
\* A call that holds mu.  The last three fields are history variables: the
\* database when the call got the lock, that database with the call's own
\* operations applied to it, and whether the worker returned an error.
Frame(c) ==
    [mode |-> c.mode, tx |-> c.tx, calls |-> 0, hasWritten |-> FALSE,
     begin |-> Contents, view |-> Contents, failed |-> FALSE]

Top(p) == stack[p][Len(stack[p])]
Hold(p) == <<p, Len(stack[p])>>
NextHold(p) == <<p, Len(stack[p]) + 1>>

\* Plausible bug: a db-level write takes the read lock.
DbCallShared(c) == [mode |-> "R", tx |-> FALSE, ops |-> c.ops, goesOn |-> c.goesOn]

DbCall(c) == [mode |-> c.mode, tx |-> FALSE, ops |-> c.ops, goesOn |-> c.goesOn]
DbTx(mode) == [mode |-> mode, tx |-> TRUE, ops |-> <<>>, goesOn |-> {}]
DbCalls == {DbCall(c) : c \in SessionCalls} \cup {DbTx(m) : m \in TxModes}

NoCall == [mode |-> "R", tx |-> FALSE, ops |-> <<>>, goesOn |-> {}]
NoOut == [res |-> "none", op |-> "none", coll |-> "none", id |-> "none", value |-> "none"]

Init ==
    /\ noReadsAfterWrites \in BOOLEAN
    /\ announced = NoProc
    /\ readers = {}
    /\ blocked = {}
    /\ enginesMu = NoProc
    /\ collections = [c \in {} |-> 1]
    /\ engines = <<>>
    /\ pc = [p \in Procs |-> "idle"]
    /\ call = [p \in Procs |-> NoCall]
    /\ stack = [p \in Procs |-> <<>>]
    /\ todo = [p \in Procs |-> <<>>]
    /\ goesOn = [p \in Procs |-> {}]
    /\ eng = [p \in Procs |-> 0]
    /\ out = [p \in Procs |-> NoOut]

Goto(p, label) == pc' = [pc EXCEPT ![p] = label]

-----------------------------------------------------------------------------

\* A goroutine makes a db-level call, which starts by locking mu.
Invoke(p, c) ==
    /\ call' = [call EXCEPT ![p] = c]
    /\ Goto(p, IF c.mode = "R" THEN "rlock" ELSE "lock")
    /\ UNCHANGED <<noReadsAfterWrites, lockVars, enginesMu, dbVars, opVars>>

Begin(p) ==
    /\ pc[p] = "idle"
    /\ \E c \in DbCalls : Invoke(p, c)
    /\ UNCHANGED stack

\* sync.RWMutex
RLock(p) ==
    /\ pc[p] = "rlock"
    /\ announced = NoProc
    /\ readers' = readers \cup {NextHold(p)}
    /\ Goto(p, "enter")
    /\ UNCHANGED <<noReadsAfterWrites, announced, blocked, enginesMu, dbVars, call, stack, opVars>>

RLockBlock(p) ==
    /\ pc[p] = "rlock"
    /\ announced # NoProc
    /\ blocked' = blocked \cup {p}
    /\ Goto(p, "asleep")
    /\ UNCHANGED <<noReadsAfterWrites, announced, readers, enginesMu, dbVars, call, stack, opVars>>

LockAnnounce(p) ==
    /\ pc[p] = "lock"
    /\ announced = NoProc
    /\ announced' = p
    /\ Goto(p, "drain")
    /\ UNCHANGED <<noReadsAfterWrites, readers, blocked, enginesMu, dbVars, call, stack, opVars>>

LockAcquire(p) ==
    /\ pc[p] = "drain"
    /\ readers = {}
    /\ Goto(p, "enter")
    /\ UNCHANGED <<noReadsAfterWrites, lockVars, enginesMu, dbVars, call, stack, opVars>>

\* The call owns mu; it runs its operations or its worker.
Enter(p) ==
    /\ pc[p] = "enter"
    /\ stack' = [stack EXCEPT ![p] = Append(stack[p], Frame(call[p]))]
    /\ todo' = [todo EXCEPT ![p] = call[p].ops]
    /\ goesOn' = [goesOn EXCEPT ![p] = call[p].goesOn]
    /\ call' = [call EXCEPT ![p] = NoCall]
    /\ Goto(p, IF call[p].tx THEN "worker" ELSE "op")
    /\ UNCHANGED <<noReadsAfterWrites, lockVars, enginesMu, dbVars, eng, out>>

\* The deferred unlock, when the call returns.
AfterRelease(p) == IF Len(stack[p]) = 1 THEN "idle" ELSE "worker"
PopFrame(p) ==
    /\ stack' = [stack EXCEPT ![p] = SubSeq(stack[p], 1, Len(stack[p]) - 1)]
    /\ out' = [out EXCEPT ![p] = NoOut]

RUnlock(p) ==
    /\ pc[p] = "release"
    /\ Top(p).mode = "R"
    /\ readers' = readers \ {Hold(p)}
    /\ PopFrame(p)
    /\ Goto(p, AfterRelease(p))
    /\ UNCHANGED <<noReadsAfterWrites, announced, blocked, enginesMu, dbVars, call, todo, goesOn, eng>>

Unlock(p) ==
    /\ pc[p] = "release"
    /\ Top(p).mode = "W"
    /\ announced' = NoProc
    /\ readers' = readers \cup {NextHold(q) : q \in blocked}
    /\ blocked' = {}
    /\ PopFrame(p)
    /\ pc' = [q \in Procs |-> IF q \in blocked THEN "enter"
                              ELSE IF q = p THEN AfterRelease(p) ELSE pc[q]]
    /\ UNCHANGED <<noReadsAfterWrites, enginesMu, dbVars, call, todo, goesOn, eng>>

-----------------------------------------------------------------------------
\* The worker of a transaction makes a session call, returns, or calls the
\* database itself from inside the transaction.
SetTop(p, f) == stack' = [stack EXCEPT ![p] = [@ EXCEPT ![Len(stack[p])] = f]]

WorkerCall(p) ==
    /\ pc[p] = "worker"
    /\ Top(p).calls < MaxCalls
    /\ \E c \in SessionCalls :
          /\ Top(p).mode = "R" => c.mode = "R"
          /\ todo' = [todo EXCEPT ![p] = c.ops]
          /\ goesOn' = [goesOn EXCEPT ![p] = c.goesOn]
    /\ SetTop(p, [Top(p) EXCEPT !.calls = @ + 1])
    /\ Goto(p, "op")
    /\ UNCHANGED <<noReadsAfterWrites, lockVars, enginesMu, dbVars, call, eng, out>>

WorkerReturn(p) ==
    /\ pc[p] = "worker"
    /\ \E err \in BOOLEAN : SetTop(p, [Top(p) EXCEPT !.failed = err])
    /\ Goto(p, "release")
    /\ UNCHANGED <<noReadsAfterWrites, lockVars, enginesMu, dbVars, call, opVars>>

WorkerNests(p) ==
    /\ pc[p] = "worker"
    /\ Len(stack[p]) = 1
    /\ Top(p).calls < MaxCalls
    /\ \E c \in NestedCalls : Invoke(p, DbCall(c))
    /\ SetTop(p, [Top(p) EXCEPT !.calls = @ + 1])

-----------------------------------------------------------------------------
\* Plausible bug: the loop of a multi-record call does not advance past a
\* record that is not found.
FinishStuck(p, res, value) ==
    LET more == res \in goesOn[p] /\ Len(todo[p]) > 1
        again == res = "notFound"
    IN
    /\ out' = out
    /\ todo' = [todo EXCEPT ![p] = IF again THEN @ ELSE IF more THEN Tail(@) ELSE <<>>]
    /\ goesOn' = [goesOn EXCEPT ![p] = IF more \/ again THEN @ ELSE {}]
    /\ eng' = [eng EXCEPT ![p] = 0]
    /\ Goto(p, IF more \/ again THEN "op" ELSE IF Top(p).tx THEN "worker" ELSE "release")

\* An operation ends with outcome res: the session call goes on to its next
\* operation or returns to the worker or to the db-level call.
Finish(p, res, value) ==
    LET o == Head(todo[p])
        more == res \in goesOn[p] /\ Len(todo[p]) > 1
    IN
    /\ out' = [out EXCEPT ![p] = [res |-> res, op |-> o.op, coll |-> o.coll,
                                  id |-> o.id, value |-> value]]
    /\ todo' = [todo EXCEPT ![p] = IF more THEN Tail(@) ELSE <<>>]
    /\ goesOn' = [goesOn EXCEPT ![p] = IF more THEN @ ELSE {}]
    /\ eng' = [eng EXCEPT ![p] = 0]
    /\ Goto(p, IF more THEN "op" ELSE IF Top(p).tx THEN "worker" ELSE "release")

\* Plausible bug: Get does not ask allowRead.
readRefusedExistsOnly(p) ==
    /\ Head(todo[p]).op = "exists"
    /\ Top(p).tx /\ Top(p).mode = "W"
    /\ noReadsAfterWrites /\ Top(p).hasWritten

\* allowRead: only a read-write transaction has a transactionState.
readRefused(p) ==
    /\ Head(todo[p]).op \in Reads
    /\ Top(p).tx /\ Top(p).mode = "W"
    /\ noReadsAfterWrites /\ Top(p).hasWritten

\* guardCollection, which Exists and Delete do not call.
collectionRefused(p) ==
    /\ Head(todo[p]).op \notin {"exists", "delete"}
    /\ Head(todo[p]).coll \notin Defined

Refuse(p) ==
    /\ pc[p] = "op"
    /\ \/ readRefused(p) /\ Finish(p, "readAfterWrite", "none")
       \/ ~readRefused(p) /\ collectionRefused(p) /\ Finish(p, "undefined", "none")
    /\ UNCHANGED <<noReadsAfterWrites, lockVars, enginesMu, dbVars, call, stack>>

\* Plausible bug: the lookup does not take enginesMu.
LockEnginesUnguarded(p) ==
    /\ pc[p] = "op"
    /\ ~readRefused(p) /\ ~collectionRefused(p)
    /\ enginesMu' = p
    /\ Goto(p, "resolve")
    /\ UNCHANGED <<noReadsAfterWrites, lockVars, dbVars, call, stack, opVars>>

\* db.engine: look the engine up under enginesMu, or create and register it.
LockEngines(p) ==
    /\ pc[p] = "op"
    /\ ~readRefused(p) /\ ~collectionRefused(p)
    /\ enginesMu = NoProc
    /\ enginesMu' = p
    /\ Goto(p, "resolve")
    /\ UNCHANGED <<noReadsAfterWrites, lockVars, dbVars, call, stack, opVars>>

ResolveEngine(p) ==
    LET c == Head(todo[p]).coll IN
    /\ pc[p] = "resolve"
    /\ \/ /\ c \in DOMAIN collections
          /\ eng' = [eng EXCEPT ![p] = collections[c]]
          /\ enginesMu' = NoProc
          /\ Goto(p, "apply")
       \/ /\ c \notin DOMAIN collections
          /\ Goto(p, "create")
          /\ UNCHANGED <<enginesMu, eng>>
    /\ UNCHANGED <<noReadsAfterWrites, lockVars, dbVars, call, stack, todo, goesOn, out>>

CreateEngine(p) ==
    LET c == Head(todo[p]).coll IN
    /\ pc[p] = "create"
    /\ engines' = Append(engines, Empty)
    /\ collections' = [d \in DOMAIN collections \cup {c} |->
                         IF d = c THEN Len(engines) + 1 ELSE collections[d]]
    /\ eng' = [eng EXCEPT ![p] = Len(engines) + 1]
    /\ enginesMu' = NoProc
    /\ Goto(p, "apply")
    /\ UNCHANGED <<noReadsAfterWrites, lockVars, call, stack, todo, goesOn, out>>

\* The engine call, and markWrite after a write that succeeded.
markWrite(o, res) == o.op \notin Reads /\ res = "ok"

Apply(p) ==
    LET o == Head(todo[p])
        m == engines[eng[p]]
        res == OpOutcome(m, o)
        read == o.op = "get" /\ res = "found"
    IN
    /\ pc[p] = "apply"
    /\ engines' = [engines EXCEPT ![eng[p]] = OpEffect(m, o)]
    /\ SetTop(p, [Top(p) EXCEPT
                    !.hasWritten = @ \/ (Top(p).tx /\ Top(p).mode = "W" /\ markWrite(o, res)),
                    !.view[o.coll] = OpEffect(@, o)])
    /\ Finish(p, res, IF read THEN m[o.id] ELSE "none")
    /\ UNCHANGED <<noReadsAfterWrites, lockVars, enginesMu, collections, call>>

-----------------------------------------------------------------------------
\* Steps inside a call, which a goroutine does not stop taking; Begin is the
\* application's choice.
Work(p) ==
    \/ RLock(p) \/ RLockBlock(p) \/ LockAcquire(p) \/ Enter(p)
    \/ RUnlock(p) \/ Unlock(p)
    \/ WorkerCall(p) \/ WorkerReturn(p) \/ WorkerNests(p)
    \/ Refuse(p) \/ ResolveEngine(p) \/ CreateEngine(p) \/ Apply(p)

\* Steps that compete for a sync.Mutex: the one writers take first inside
\* mu.Lock, and enginesMu.
Compete(p) == LockAnnounce(p) \/ LockEngines(p)

Next == \E p \in Procs : Begin(p) \/ Work(p) \/ Compete(p)

Spec == Init /\ [][Next]_vars

\* The Go scheduler runs every runnable goroutine, sync.Mutex hands itself to
\* a goroutine that has waited too long (starvation mode), and workers return.
Fairness ==
    \A p \in Procs :
        /\ WF_vars(Work(p))
        /\ SF_vars(LockAnnounce(p))
        /\ SF_vars(LockEngines(p))

FairSpec == Spec /\ Fairness

-----------------------------------------------------------------------------
(***************************************************************************)
(* Properties                                                              *)
(***************************************************************************)

Labels == {"idle", "rlock", "asleep", "lock", "drain", "enter", "worker",
           "op", "resolve", "create", "apply", "release"}
EngineContents == UNION {[D -> Values] : D \in SUBSET Ids}
Database == [Collections -> EngineContents]
Frames == [mode : {"R", "W"}, tx : BOOLEAN, calls : 0..MaxCalls,
           hasWritten : BOOLEAN, begin : Database, view : Database, failed : BOOLEAN]
DbCallType == [mode : {"R", "W"}, tx : BOOLEAN, ops : Seq(Op), goesOn : SUBSET Outcomes]

\* Types of the whole state.
TypeOK ==
    /\ noReadsAfterWrites \in BOOLEAN
    /\ announced \in Procs \cup {NoProc}
    /\ readers \subseteq Procs \X Nat
    /\ blocked \subseteq Procs
    /\ enginesMu \in Procs \cup {NoProc}
    /\ DOMAIN collections \subseteq Collections
    /\ collections \in [DOMAIN collections -> Nat]
    /\ engines \in Seq(EngineContents)
    /\ pc \in [Procs -> Labels]
    /\ call \in [Procs -> DbCallType]
    /\ stack \in [Procs -> Seq(Frames)]
    /\ todo \in [Procs -> Seq(Op)]
    /\ goesOn \in [Procs -> SUBSET Outcomes]
    /\ eng \in [Procs -> Nat]

\* Serializability: every call that holds mu sees the database as it was when
\* the call got the lock, changed by its own operations only.  So reads in a
\* transaction are repeatable, no call sees half of another one, and no update
\* is lost.
RunsAlone ==
    \A p \in Procs : \A d \in DOMAIN stack[p] : stack[p][d].view = Contents

\* Lazy creation under enginesMu: however many readers meet a new collection
\* at once, it gets one engine, and every operation works on the registered
\* engine and never on one that was created and dropped.
OneEnginePerCollection ==
    /\ Range(collections) = DOMAIN engines
    /\ IsInjective(collections)
    /\ \A p \in Procs : pc[p] = "apply" =>
          /\ Head(todo[p]).coll \in DOMAIN collections
          /\ eng[p] = collections[Head(todo[p]).coll]

\* WithNoReadsAfterWritesInTransaction: a read that succeeds in a read-write
\* transaction returns what was stored before the transaction began.
ReadsPrecedeWrites ==
    \A p \in Procs :
        ( /\ noReadsAfterWrites
          /\ pc[p] = "worker" /\ Top(p).mode = "W" /\ Top(p).calls > 0
          /\ out[p].op = "get" /\ out[p].res = "found" )
        => /\ out[p].id \in DOMAIN Top(p).begin[out[p].coll]
           /\ out[p].value = Top(p).begin[out[p].coll][out[p].id]

\* Every call on the database returns: no call waits for mu or enginesMu for
\* ever, provided workers return and use the session they are given.
CallsReturn == \A p \in Procs : pc[p] # "idle" ~> pc[p] = "idle"
=============================================================================
