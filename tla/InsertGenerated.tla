--------------------------- MODULE InsertGenerated ---------------------------
(***************************************************************************)
(* Inserting a record under a generated id: Collection.Insert over         *)
(* session.Insert over InsertWithIdGenerator (dal/collection.go,           *)
(* dal/tx_inserter.go, dalgo2memory/database.go).                          *)
(*                                                                         *)
(* A key is a mutable object that the caller's record and, once stored,    *)
(* the engine share.  The generator writes the key's id; the loop asks     *)
(* whether the id is taken, retries up to a bound and stores the record.   *)
(* Several goroutines insert and delete.  In dalgo2memory the whole loop   *)
(* runs under the exclusive db.mu; InsertWithIdGenerator itself does not   *)
(* ask this of an adapter, whose exists and insert callbacks may then meet *)
(* another writer in between.                                              *)
(***************************************************************************)
EXTENDS Integers, FiniteSets, Functions

CONSTANTS
    Procs,         \* goroutines
    NoProc,
    Records,       \* record objects, each with its own key object
    NoRecord,
    Ids,           \* ids that callers and generators choose
    NilID,         \* no id: an incomplete key
    MaxAttempts,   \* insertWithGeneratorMaxAttempts
    Adapters,      \* the kinds of adapter to consider
    MaxCalls       \* bound on the calls of one goroutine

ASSUME InsertAssumption ==
    /\ NoProc \notin Procs
    /\ NoRecord \notin Records
    /\ NilID \notin Ids
    /\ MaxAttempts \in Nat \ {0}
    /\ Adapters \subseteq [honors : BOOLEAN, exclusive : BOOLEAN, checkFails : BOOLEAN]
    /\ MaxCalls \in Nat

VARIABLES
    adapter,    \* whether the adapter honors InsertOption, holds its write lock
                \* during the whole insert, and may fail to check existence
    keyID,      \* the id in every record's key object
    used,       \* records that callers have created
    stored,     \* id -> key object kept by the engine, and the call that stored
    holder,     \* goroutine that holds the adapter's write lock
    pc, kind, rec, attempt, result,   \* of the call of each goroutine
    calls       \* number of calls each goroutine has made

callVars == <<pc, kind, rec, attempt, result, calls>>
vars == <<adapter, keyID, used, stored, holder, callVars>>

\* "typed" is Collection.Insert, "generated" a session.Insert with a generator
\* (or WithAdapterGeneratedID), "plain" one without.
Kinds == {"typed", "generated", "plain"}
Failures == {"generatorError", "exhausted", "existsError"}
Results == {"none", "ok", "invalidKey", "duplicate", "refused", "notHonored"} \cup Failures
Labels == {"idle", "lock", "generate", "check", "save", "return"}

Entries == [key : Records, by : Procs \X Nat]

\* Types of the whole state.
TypeOK ==
    /\ adapter \in Adapters
    /\ keyID \in [Records -> Ids \cup {NilID}]
    /\ used \subseteq Records
    /\ DOMAIN stored \subseteq Ids \cup {NilID}
    /\ stored \in [DOMAIN stored -> Entries]
    /\ holder \in Procs \cup {NoProc}
    /\ pc \in [Procs -> Labels]
    /\ kind \in [Procs -> Kinds]
    /\ rec \in [Procs -> Records \cup {NoRecord}]
    /\ attempt \in [Procs -> 0..MaxAttempts]
    /\ result \in [Procs -> Results]
    /\ calls \in [Procs -> 0..MaxCalls]

Init ==
    /\ adapter \in Adapters
    /\ keyID = [r \in Records |-> NilID]
    /\ used = {}
    /\ stored = [i \in {} |-> NoRecord]
    /\ holder = NoProc
    /\ pc = [p \in Procs |-> "idle"]
    /\ kind = [p \in Procs |-> "plain"]
    /\ rec = [p \in Procs |-> NoRecord]
    /\ attempt = [p \in Procs |-> 0]
    /\ result = [p \in Procs |-> "none"]
    /\ calls = [p \in Procs |-> 0]

Goto(p, label) == pc' = [pc EXCEPT ![p] = label]

\* The call ends with an outcome; its deferred unlock is still to come.
Return(p, outcome) ==
    /\ Goto(p, "return")
    /\ result' = [result EXCEPT ![p] = outcome]

SetKeyID(p, i) == keyID' = [keyID EXCEPT ![rec[p]] = i]

-----------------------------------------------------------------------------
\* A caller inserts a new record, with an incomplete key when its id is to be
\* generated, or hands a record it still has to another generated insert.
Start(p, k, r, i) ==
    /\ pc[p] = "idle"
    /\ calls[p] < MaxCalls
    /\ calls' = [calls EXCEPT ![p] = @ + 1]
    /\ kind' = [kind EXCEPT ![p] = k]
    /\ rec' = [rec EXCEPT ![p] = r]
    /\ attempt' = [attempt EXCEPT ![p] = 0]
    /\ result' = [result EXCEPT ![p] = "none"]
    /\ used' = used \cup {r}
    /\ keyID' = [keyID EXCEPT ![r] = i]
    /\ Goto(p, "lock")
    /\ UNCHANGED <<adapter, stored, holder>>

InsertNew(p) ==
    \E r \in Records \ used :
        \/ \E k \in {"typed", "generated"} : Start(p, k, r, NilID)
        \/ \E i \in Ids : Start(p, "plain", r, i)

InsertAgain(p) ==
    \E r \in used :
        /\ \A q \in Procs : pc[q] # "idle" => rec[q] # r
        /\ Start(p, "generated", r, keyID[r])

\* session.Insert begins: with a generator, and an adapter that honors it, the
\* id is generated before the storage key is computed.
Lock(p) ==
    /\ pc[p] = "lock"
    /\ adapter.exclusive => holder = NoProc
    /\ holder' = IF adapter.exclusive THEN p ELSE holder
    /\ Goto(p, IF kind[p] # "plain" /\ adapter.honors THEN "generate" ELSE "save")
    /\ UNCHANGED <<adapter, keyID, used, stored, kind, rec, attempt, result, calls>>

\* Plausible bug: the loop never counts an attempt.
NextAttemptFree(p) == UNCHANGED attempt

NextAttempt(p) == attempt' = [attempt EXCEPT ![p] = @ + 1]

Generate(p) ==
    /\ pc[p] = "generate"
    /\ attempt[p] < MaxAttempts
    /\ NextAttempt(p)
    /\ \/ \E i \in Ids : SetKeyID(p, i) /\ Goto(p, "check") /\ UNCHANGED result
       \/ SetKeyID(p, NilID) /\ Return(p, "generatorError")
    /\ UNCHANGED <<adapter, used, stored, holder, kind, rec, calls>>

\* Plausible bug: the last colliding id is left in the key.
ExhaustKeepsID(p) ==
    /\ pc[p] = "generate"
    /\ attempt[p] = MaxAttempts
    /\ Return(p, "exhausted")
    /\ UNCHANGED <<adapter, keyID, used, stored, holder, kind, rec, attempt, calls>>

Exhaust(p) ==
    /\ pc[p] = "generate"
    /\ attempt[p] = MaxAttempts
    /\ SetKeyID(p, NilID)
    /\ Return(p, "exhausted")
    /\ UNCHANGED <<adapter, used, stored, holder, kind, rec, attempt, calls>>

\* ValidateWithKey, then exists: taken, free, or an error of its own.
Check(p) ==
    LET taken == keyID[rec[p]] \in DOMAIN stored IN
    /\ pc[p] = "check"
    /\ \/ Return(p, "invalidKey") /\ UNCHANGED keyID
       \/ taken /\ Goto(p, "generate") /\ UNCHANGED <<keyID, result>>
       \/ ~taken /\ Goto(p, "save") /\ UNCHANGED <<keyID, result>>
       \/ adapter.checkFails /\ SetKeyID(p, NilID) /\ Return(p, "existsError")
    /\ UNCHANGED <<adapter, used, stored, holder, kind, rec, attempt, calls>>

\* Plausible bug: no guard after a successful insert.
CompletedUnguarded(p) == "ok"

\* Collection.Insert reports an adapter that left the key incomplete.
Completed(p) ==
    IF kind[p] = "typed" /\ keyID[rec[p]] = NilID THEN "notHonored" ELSE "ok"

\* Plausible bug: the generated path stores with overwrite.
StoreRefusesPlainOnly(p) == kind[p] = "plain" /\ keyID[rec[p]] \in DOMAIN stored

StoreRefuses(p) == keyID[rec[p]] \in DOMAIN stored

\* save: an id in use and data the engine refuses leave the store unchanged;
\* otherwise the engine keeps the record's own key object.
Save(p) ==
    LET i == keyID[rec[p]] IN
    /\ pc[p] = "save"
    /\ \/ StoreRefuses(p) /\ Return(p, "duplicate") /\ UNCHANGED stored
       \/ ~StoreRefuses(p) /\ Return(p, "refused") /\ UNCHANGED stored
       \/ /\ ~StoreRefuses(p)
          /\ stored' = [j \in DOMAIN stored \cup {i} |->
                          IF j = i THEN [key |-> rec[p], by |-> <<p, calls[p]>>]
                                   ELSE stored[j]]
          /\ Return(p, Completed(p))
    /\ UNCHANGED <<adapter, keyID, used, holder, kind, rec, attempt, calls>>

Unlock(p) ==
    /\ pc[p] = "return"
    /\ holder' = IF adapter.exclusive THEN NoProc ELSE holder
    /\ Goto(p, "idle")
    /\ UNCHANGED <<adapter, keyID, used, stored, kind, rec, attempt, result, calls>>

\* Another call deletes a record, under the same lock.
Delete(i) ==
    /\ adapter.exclusive => holder = NoProc
    /\ i \in DOMAIN stored
    /\ stored' = Restrict(stored, DOMAIN stored \ {i})
    /\ UNCHANGED <<adapter, keyID, used, holder, callVars>>

-----------------------------------------------------------------------------
Work(p) == Generate(p) \/ Exhaust(p) \/ Check(p) \/ Save(p) \/ Unlock(p)

Next ==
    \/ \E p \in Procs : InsertNew(p) \/ InsertAgain(p) \/ Lock(p) \/ Work(p)
    \/ \E i \in Ids \cup {NilID} : Delete(i)

Spec == Init /\ [][Next]_vars

\* Goroutines keep running, and sync.RWMutex starves no writer.
Fairness == \A p \in Procs : WF_vars(Work(p)) /\ SF_vars(Lock(p))
FairSpec == Spec /\ Fairness

-----------------------------------------------------------------------------
(***************************************************************************)
(* Properties                                                              *)
(***************************************************************************)

\* An insert never replaces a stored record, generated ids included, even when
\* another writer took the id after the exists callback had said it was free.
StoredUnchanged ==
    \A i \in DOMAIN stored \cap DOMAIN stored' : stored'[i] = stored[i]
NeverOverwrites == [][StoredUnchanged]_vars

\* Under that lock, a generated insert that reports success has stored the
\* record, in this call, under the complete id that its key now shows.
SuccessIsStored ==
    \A p \in Procs :
        /\ adapter.exclusive
        /\ pc[p] = "return" /\ result[p] = "ok"
        /\ adapter.honors \/ kind[p] = "typed"
        =>
            /\ keyID[rec[p]] \in Ids
            /\ keyID[rec[p]] \in DOMAIN stored
            /\ stored[keyID[rec[p]]] = [key |-> rec[p], by |-> <<p, calls[p]>>]

\* "not a partial write" (collection-generated-insert, REQ
\* generation-before-storage): when the generator fails or gives up, or the
\* existence check fails, this call has stored nothing, under any id, and the
\* record's key is incomplete again.
FailureLeavesNothing ==
    \A p \in Procs :
        (pc[p] = "return" /\ result[p] \in Failures) =>
            /\ keyID[rec[p]] = NilID
            /\ \A i \in DOMAIN stored : stored[i].by # <<p, calls[p]>>

\* Every insert returns, however often the generated ids collide.
InsertReturns == \A p \in Procs : pc[p] # "idle" ~> pc[p] = "idle"
=============================================================================
