-------------------------- MODULE CollectionProofs ---------------------------
(***************************************************************************)
(* Proofs about writing through a collection.                              *)
(*                                                                         *)
(* Generated inserts, for any number of goroutines, records, ids, attempts *)
(* and calls and for every kind of adapter.  What an insert answers says   *)
(* something about the store only because no other call touches the key    *)
(* object it works on (OneCallPerRecord) and, with an exclusive adapter,   *)
(* because nobody else is between lock and unlock (LockHeld).  Entries     *)
(* carry the call that stored them; that such a call has ended well        *)
(* (EntriesByEnded) is what makes a failed call one that has stored        *)
(* nothing.                                                                *)
(*                                                                         *)
(* Typed collections and queued changes, for any ids, parents, values and  *)
(* record objects, queues of any length and any number of calls.  A handle *)
(* lists what it reports written because one that is scoped to a parent    *)
(* has no key option (WInv).  What ApplyChanges has done is read off the   *)
(* writes it makes one after the other (WriteFacts).                       *)
(***************************************************************************)
EXTENDS InsertGenerated, Workflow, TLAPS, SequenceTheorems, WellFoundedInduction


Active(p) == pc[p] # "idle"
Ended(p) == pc[p] \in {"return", "idle"} /\ result[p] \in {"ok", "notHonored"}

\* A running call has a record of its own, which its caller has created.
OneCallPerRecord ==
    /\ \A p \in Procs : Active(p) => rec[p] \in used
    /\ \A p, q \in Procs : Active(p) /\ Active(q) /\ p # q => rec[p] # rec[q]

\* An exclusive adapter's lock is held by exactly the call past it.
LockHeld ==
    adapter.exclusive =>
        \A p \in Procs : (pc[p] \in {"generate", "check", "save", "return"}) <=> (holder = p)

\* Entries are stored by calls that have been made; those of a latest call by
\* one that has ended with success.
EntriesByEnded ==
    \A i \in DOMAIN stored : \A p \in Procs :
        stored[i].by[1] = p =>
            /\ stored[i].by[2] <= calls[p]
            /\ stored[i].by[2] = calls[p] => Ended(p)

\* The id of the key when a call is about to check or to save it.
KeyComplete ==
    \A p \in Procs :
        /\ pc[p] = "lock" /\ kind[p] = "plain" => keyID[rec[p]] \in Ids
        /\ pc[p] = "check" => keyID[rec[p]] \in Ids
        /\ pc[p] = "save" => keyID[rec[p]] \in Ids \/ (~adapter.honors /\ kind[p] # "plain")

IInv ==
    /\ TypeOK
    /\ OneCallPerRecord
    /\ LockHeld
    /\ EntriesByEnded
    /\ KeyComplete
    /\ SuccessIsStored
    /\ FailureLeavesNothing

-----------------------------------------------------------------------------
\* What an adapter declares are booleans.
LEMMA AdapterType ==
  ASSUME TypeOK
  PROVE  /\ adapter.exclusive \in BOOLEAN
         /\ adapter.honors \in BOOLEAN
         /\ adapter.checkFails \in BOOLEAN
  BY InsertAssumption DEF TypeOK

\* Nothing is stored and no call runs at first.
LEMMA InitIInv ==
  ASSUME Init
  PROVE  IInv
<1>1. TypeOK
  BY InsertAssumption DEF Init, TypeOK, Kinds, Results, Labels, Entries
<1>2. OneCallPerRecord /\ KeyComplete
  BY DEF Init, OneCallPerRecord, KeyComplete, Active
<1>3. LockHeld
  BY InsertAssumption DEF Init, LockHeld
<1>4. EntriesByEnded /\ SuccessIsStored /\ FailureLeavesNothing
  BY DEF Init, EntriesByEnded, SuccessIsStored, FailureLeavesNothing
<1> QED BY <1>1, <1>2, <1>3, <1>4 DEF IInv

\* A caller starts a call with a record no other call is working on.
LEMMA StartPreserves ==
  ASSUME IInv, NEW p \in Procs, NEW k \in Kinds, NEW r \in Records,
         NEW i \in Ids \cup {NilID}, Start(p, k, r, i),
         k = "plain" => i \in Ids,
         \A q \in Procs : Active(q) => rec[q] # r
  PROVE  IInv'
<1> USE DEF IInv, Start, Goto
<1>1. TypeOK'
  BY InsertAssumption DEF TypeOK, Labels, Results
<1>2. OneCallPerRecord'
  BY DEF TypeOK, OneCallPerRecord, Active
<1>3. LockHeld'
  BY DEF TypeOK, LockHeld
<1>4. EntriesByEnded'
  BY DEF TypeOK, EntriesByEnded, Ended, Entries
<1>5. KeyComplete'
  BY DEF TypeOK, KeyComplete, Active
<1>6. SuccessIsStored'
  BY DEF TypeOK, SuccessIsStored, Active
<1>7. FailureLeavesNothing'
  BY DEF TypeOK, FailureLeavesNothing, Active, Failures
<1> QED BY <1>1, <1>2, <1>3, <1>4, <1>5, <1>6, <1>7

\* session.Insert takes the adapter's lock, if it has one for the whole insert.
LEMMA LockPreserves ==
  ASSUME IInv, NEW p \in Procs, Lock(p)
  PROVE  IInv'
<1> USE DEF IInv, Lock, Goto
<1>0. adapter.exclusive \in BOOLEAN /\ adapter.honors \in BOOLEAN /\ adapter.checkFails \in BOOLEAN
  BY AdapterType
<1>1. TypeOK'
  BY <1>0, InsertAssumption DEF TypeOK, Labels, Results, Failures, Entries
<1>2. OneCallPerRecord'
  BY <1>0 DEF TypeOK, OneCallPerRecord, Active
<1>3. LockHeld'
  BY <1>0, InsertAssumption DEF TypeOK, LockHeld
<1>4. EntriesByEnded'
  BY <1>0 DEF TypeOK, EntriesByEnded, Ended, Entries
<1>5. KeyComplete'
  BY <1>0 DEF TypeOK, OneCallPerRecord, KeyComplete, Active
<1>6. SuccessIsStored'
  BY <1>0 DEF TypeOK, OneCallPerRecord, LockHeld, KeyComplete, SuccessIsStored, Active
<1>7. FailureLeavesNothing'
  BY <1>0 DEF TypeOK, OneCallPerRecord, EntriesByEnded, FailureLeavesNothing, Active, Ended, Failures
<1> QED BY <1>1, <1>2, <1>3, <1>4, <1>5, <1>6, <1>7

\* The generator changes the id of its own record's key only.
LEMMA GeneratePreserves ==
  ASSUME IInv, NEW p \in Procs, Generate(p)
  PROVE  IInv'
<1> USE DEF IInv, Generate, NextAttempt, SetKeyID, Return, Goto
<1>0. adapter.exclusive \in BOOLEAN /\ adapter.honors \in BOOLEAN /\ adapter.checkFails \in BOOLEAN
  BY AdapterType
<1>1. TypeOK'
  BY <1>0, InsertAssumption DEF TypeOK, Labels, Results, Failures, Entries
<1>2. OneCallPerRecord'
  BY <1>0 DEF TypeOK, OneCallPerRecord, Active
<1>3. LockHeld'
  BY <1>0 DEF TypeOK, LockHeld
<1>4. EntriesByEnded'
  BY <1>0 DEF TypeOK, EntriesByEnded, Ended, Entries
<1>5. KeyComplete'
  BY <1>0 DEF TypeOK, OneCallPerRecord, KeyComplete, Active
<1>6. SuccessIsStored'
  BY <1>0 DEF TypeOK, OneCallPerRecord, LockHeld, KeyComplete, SuccessIsStored, Active
<1>7. FailureLeavesNothing'
  BY <1>0 DEF TypeOK, OneCallPerRecord, EntriesByEnded, FailureLeavesNothing, Active, Ended, Failures
<1> QED BY <1>1, <1>2, <1>3, <1>4, <1>5, <1>6, <1>7

\* Giving up leaves the key incomplete and the store alone.
LEMMA ExhaustPreserves ==
  ASSUME IInv, NEW p \in Procs, Exhaust(p)
  PROVE  IInv'
<1> USE DEF IInv, Exhaust, SetKeyID, Return, Goto
<1>0. adapter.exclusive \in BOOLEAN /\ adapter.honors \in BOOLEAN /\ adapter.checkFails \in BOOLEAN
  BY AdapterType
<1>1. TypeOK'
  BY <1>0, InsertAssumption DEF TypeOK, Labels, Results, Failures, Entries
<1>2. OneCallPerRecord'
  BY <1>0 DEF TypeOK, OneCallPerRecord, Active
<1>3. LockHeld'
  BY <1>0 DEF TypeOK, LockHeld
<1>4. EntriesByEnded'
  BY <1>0 DEF TypeOK, EntriesByEnded, Ended, Entries
<1>5. KeyComplete'
  BY <1>0 DEF TypeOK, OneCallPerRecord, KeyComplete, Active
<1>6. SuccessIsStored'
  BY <1>0 DEF TypeOK, OneCallPerRecord, LockHeld, KeyComplete, SuccessIsStored, Active
<1>7. FailureLeavesNothing'
  BY <1>0 DEF TypeOK, OneCallPerRecord, EntriesByEnded, FailureLeavesNothing, Active, Ended, Failures
<1> QED BY <1>1, <1>2, <1>3, <1>4, <1>5, <1>6, <1>7

\* The existence check saves nothing; only an id that is free goes on to be saved.
LEMMA CheckPreserves ==
  ASSUME IInv, NEW p \in Procs, Check(p)
  PROVE  IInv'
<1> USE DEF IInv, Check, SetKeyID, Return, Goto
<1>0. adapter.exclusive \in BOOLEAN /\ adapter.honors \in BOOLEAN /\ adapter.checkFails \in BOOLEAN
  BY AdapterType
<1>1. TypeOK'
  <2>1. pc' \in [Procs -> Labels]
    BY DEF TypeOK, Labels
  <2>2. keyID' \in [Records -> Ids \cup {NilID}]
    BY InsertAssumption DEF TypeOK
  <2>3. result' \in [Procs -> Results]
    BY DEF TypeOK, Results, Failures
  <2> QED BY <2>1, <2>2, <2>3 DEF TypeOK
<1>2. OneCallPerRecord'
  BY <1>0 DEF TypeOK, OneCallPerRecord, Active
<1>3. LockHeld'
  BY <1>0 DEF TypeOK, LockHeld
<1>4. EntriesByEnded'
  BY <1>0 DEF TypeOK, EntriesByEnded, Ended, Entries
<1>5. KeyComplete'
  BY <1>0 DEF TypeOK, OneCallPerRecord, KeyComplete, Active
<1>6. SuccessIsStored'
  BY <1>0 DEF TypeOK, OneCallPerRecord, LockHeld, KeyComplete, SuccessIsStored, Active
<1>7. FailureLeavesNothing'
  BY <1>0 DEF TypeOK, OneCallPerRecord, EntriesByEnded, FailureLeavesNothing, Active, Ended, Failures
<1> QED BY <1>1, <1>2, <1>3, <1>4, <1>5, <1>6, <1>7

\* Saving stores this call's entry under a free id, or nothing.
LEMMA SavePreserves ==
  ASSUME IInv, NEW p \in Procs, Save(p)
  PROVE  IInv'
<1> USE DEF IInv, Save, StoreRefuses, Completed, Return, Goto
<1>0. adapter.exclusive \in BOOLEAN /\ adapter.honors \in BOOLEAN /\ adapter.checkFails \in BOOLEAN
  BY AdapterType
<1>1. TypeOK'
  <2> DEFINE i == keyID[rec[p]]
             entry == [key |-> rec[p], by |-> <<p, calls[p]>>]
  <2>1. rec[p] \in Records /\ i \in Ids \cup {NilID} /\ calls[p] \in Nat
    BY InsertAssumption DEF TypeOK, OneCallPerRecord, Active
  <2>2. entry \in Entries
    BY <2>1 DEF Entries
  <2>3. /\ DOMAIN stored' \subseteq Ids \cup {NilID}
        /\ stored' \in [DOMAIN stored' -> Entries]
    BY <2>1, <2>2 DEF TypeOK
  <2> QED BY <2>3 DEF TypeOK, Labels, Results, Failures
<1>2. OneCallPerRecord'
  BY <1>0 DEF TypeOK, OneCallPerRecord, Active
<1>3. LockHeld'
  BY <1>0 DEF TypeOK, LockHeld
<1>4. EntriesByEnded'
  BY <1>0 DEF TypeOK, EntriesByEnded, Ended, Entries
<1>5. KeyComplete'
  BY <1>0 DEF TypeOK, OneCallPerRecord, KeyComplete, Active
<1>6. SuccessIsStored'
  BY <1>0 DEF TypeOK, OneCallPerRecord, LockHeld, KeyComplete, SuccessIsStored, Active
<1>7. FailureLeavesNothing'
  BY <1>0 DEF TypeOK, OneCallPerRecord, EntriesByEnded, FailureLeavesNothing, Active, Ended, Failures
<1> QED BY <1>1, <1>2, <1>3, <1>4, <1>5, <1>6, <1>7

\* The call returns and releases the lock.
LEMMA UnlockPreserves ==
  ASSUME IInv, NEW p \in Procs, Unlock(p)
  PROVE  IInv'
<1> USE DEF IInv, Unlock, Goto
<1>0. adapter.exclusive \in BOOLEAN /\ adapter.honors \in BOOLEAN /\ adapter.checkFails \in BOOLEAN
  BY AdapterType
<1>1. TypeOK'
  BY <1>0, InsertAssumption DEF TypeOK, Labels, Results, Failures, Entries
<1>2. OneCallPerRecord'
  BY <1>0 DEF TypeOK, OneCallPerRecord, Active
<1>3. LockHeld'
  BY <1>0, InsertAssumption DEF TypeOK, LockHeld
<1>4. EntriesByEnded'
  BY <1>0 DEF TypeOK, EntriesByEnded, Ended, Entries
<1>5. KeyComplete'
  BY <1>0 DEF TypeOK, OneCallPerRecord, KeyComplete, Active
<1>6. SuccessIsStored'
  BY <1>0 DEF TypeOK, OneCallPerRecord, LockHeld, KeyComplete, SuccessIsStored, Active
<1>7. FailureLeavesNothing'
  BY <1>0 DEF TypeOK, OneCallPerRecord, EntriesByEnded, FailureLeavesNothing, Active, Ended, Failures
<1> QED BY <1>1, <1>2, <1>3, <1>4, <1>5, <1>6, <1>7

\* Another call's delete, which an exclusive adapter keeps out of a running insert.
LEMMA DeletePreserves ==
  ASSUME IInv, NEW i \in Ids \cup {NilID}, Delete(i)
  PROVE  IInv'
<1> USE DEF IInv, Delete, callVars, Restrict
<1>1. DOMAIN stored' = DOMAIN stored \ {i} /\ \A j \in DOMAIN stored' : stored'[j] = stored[j]
  OBVIOUS
<1>2. TypeOK'
  BY DEF TypeOK
<1>3. OneCallPerRecord' /\ LockHeld' /\ KeyComplete'
  BY DEF OneCallPerRecord, LockHeld, KeyComplete, Active
<1>4. EntriesByEnded'
  BY <1>1 DEF EntriesByEnded, Ended
<1>5. SuccessIsStored'
  BY <1>1, AdapterType, InsertAssumption DEF TypeOK, LockHeld, SuccessIsStored
<1>6. FailureLeavesNothing'
  BY <1>1 DEF FailureLeavesNothing
<1> QED BY <1>2, <1>3, <1>4, <1>5, <1>6

\* Every step of every goroutine keeps the invariant.
LEMMA NextIInv ==
  ASSUME IInv, [Next]_vars
  PROVE  IInv'
<1>1. CASE UNCHANGED vars
  BY <1>1 DEF IInv, vars, callVars, TypeOK, OneCallPerRecord, LockHeld, EntriesByEnded,
              KeyComplete, SuccessIsStored, FailureLeavesNothing, Active, Ended
<1>2. ASSUME NEW p \in Procs, InsertNew(p)
      PROVE  IInv'
  <2>1. PICK r \in Records \ used :
           \/ \E k \in {"typed", "generated"} : Start(p, k, r, NilID)
           \/ \E i \in Ids : Start(p, "plain", r, i)
    BY <1>2 DEF InsertNew
  <2>2. \A q \in Procs : Active(q) => rec[q] # r
    BY <2>1 DEF IInv, OneCallPerRecord
  <2>3. CASE \E k \in {"typed", "generated"} : Start(p, k, r, NilID)
    BY <2>2, <2>3, StartPreserves DEF Kinds
  <2>4. CASE \E i \in Ids : Start(p, "plain", r, i)
    BY <2>2, <2>4, StartPreserves DEF Kinds
  <2> QED BY <2>1, <2>3, <2>4
<1>3. ASSUME NEW p \in Procs, InsertAgain(p)
      PROVE  IInv'
  <2>1. PICK r \in used : /\ \A q \in Procs : pc[q] # "idle" => rec[q] # r
                          /\ Start(p, "generated", r, keyID[r])
    BY <1>3 DEF InsertAgain
  <2>2. r \in Records /\ keyID[r] \in Ids \cup {NilID}
    BY DEF IInv, TypeOK
  <2> QED BY <2>1, <2>2, StartPreserves DEF Kinds, Active
<1>4. ASSUME NEW p \in Procs, Lock(p) \/ Work(p)
      PROVE  IInv'
  BY <1>4, LockPreserves, GeneratePreserves, ExhaustPreserves, CheckPreserves,
     SavePreserves, UnlockPreserves DEF Work
<1>5. ASSUME NEW i \in Ids \cup {NilID}, Delete(i)
      PROVE  IInv'
  BY <1>5, DeletePreserves
<1> QED BY <1>1, <1>2, <1>3, <1>4, <1>5 DEF Next

\* The inductive invariant holds in every reachable state.
THEOREM Invariance == Spec => []IInv
<1>1. Init => IInv
  BY InitIInv
<1>2. IInv /\ [Next]_vars => IInv'
  BY NextIInv
<1> QED BY <1>1, <1>2, PTL DEF Spec

\* Generated inserts keep their state well typed; in particular the attempts of
\* InsertWithIdGenerator never exceed insertWithGeneratorMaxAttempts.
THEOREM TypeCorrect == Spec => []TypeOK
<1>1. IInv => TypeOK
  BY DEF IInv
<1> QED BY <1>1, Invariance, PTL

\* A generated insert that reports success, under an adapter that holds its lock
\* for the whole of session.Insert, has stored its record in this very call,
\* under the complete id that its key shows.
THEOREM SuccessAlwaysStored == Spec => []SuccessIsStored
<1>1. IInv => SuccessIsStored
  BY DEF IInv
<1> QED BY <1>1, Invariance, PTL

\* Generator errors, exhausted attempts and failed existence checks of
\* InsertWithIdGenerator leave no entry and an incomplete key, for every adapter.
THEOREM FailureNeverStores == Spec => []FailureLeavesNothing
<1>1. IInv => FailureLeavesNothing
  BY DEF IInv
<1> QED BY <1>1, Invariance, PTL

\* No step of any insert changes an entry that stays in the store: an id taken
\* between the exists callback and the insert callback is refused.
THEOREM InsertsNeverOverwrite == Spec => NeverOverwrites
<1>1. IInv /\ [Next]_vars => [StoredUnchanged]_vars
  <2> SUFFICES ASSUME IInv, Next PROVE StoredUnchanged
    OBVIOUS
  <2>1. ASSUME NEW p \in Procs, InsertNew(p) \/ InsertAgain(p) \/ Lock(p)
        PROVE  StoredUnchanged
    BY <2>1 DEF InsertNew, InsertAgain, Start, Lock, StoredUnchanged
  <2>2. ASSUME NEW p \in Procs, Generate(p) \/ Exhaust(p) \/ Check(p) \/ Unlock(p)
        PROVE  StoredUnchanged
    BY <2>2 DEF Generate, Exhaust, Check, Unlock, StoredUnchanged
  <2>3. ASSUME NEW p \in Procs, Save(p)
        PROVE  StoredUnchanged
    BY <2>3 DEF Save, StoreRefuses, StoredUnchanged
  <2>4. ASSUME NEW i \in Ids \cup {NilID}, Delete(i)
        PROVE  StoredUnchanged
    BY <2>4 DEF Delete, Restrict, StoredUnchanged
  <2> QED BY <2>1, <2>2, <2>3, <2>4 DEF Next, Work
<1> QED BY <1>1, Invariance, PTL DEF Spec, NeverOverwrites

-----------------------------------------------------------------------------
\* A set of naturals that is not empty has a least element.
LEMMA LeastElement ==
  ASSUME NEW S \in SUBSET Nat, S # {}
  PROVE  \E x \in S : \A y \in S : x <= y
<1> DEFINE below == {ss \in Nat \X Nat : ss[1] < ss[2]}
<1>1. IsWellFoundedOn(below, Nat)
  BY NatLessThanWellFounded, Zenon DEF OpToRel
<1>2. PICK x \in S : \A y \in S : ~(<<y, x>> \in below)
  <2> HIDE DEF below
  <2> QED BY <1>1, WFMin
<1>3. ASSUME NEW y \in S PROVE x <= y
  <2>1. x \in Nat /\ y \in Nat /\ <<y, x>> \notin below
    BY <1>2
  <2>2. ~(y < x)
    BY <2>1
  <2> QED BY <2>1, <2>2
<1> QED BY <1>3

\* g is a recursion over 1..n that starts with base and steps by F.
Recurs(T, base, n, F, g) ==
    /\ g \in [0..n -> T] /\ g[0] = base
    /\ \A j \in 1..n : g[j] = F[<<g[j - 1], j>>]

\* A recursion whose step is a function has a value for every n.
LEMMA Recursion ==
  ASSUME NEW T, NEW base \in T, NEW n \in Nat, NEW F \in [T \X (1..n) -> T]
  PROVE  \E g : Recurs(T, base, n, F, g)
<1> DEFINE Defined(k, g) == /\ g \in [0..k -> T] /\ g[0] = base
                            /\ \A j \in 1..k : g[j] = F[<<g[j - 1], j>>]
           Bad == {k \in 0..n : ~\E g : Defined(k, g)}
<1>1. SUFFICES ASSUME Bad # {} PROVE FALSE
  <2>1. n \in 0..n
    OBVIOUS
  <2>2. \E g : Defined(n, g)
    BY <1>1, <2>1
  <2> QED BY <2>2 DEF Recurs
<1>2. PICK k \in Bad : \A j \in Bad : k <= j
  <2>1. Bad \in SUBSET Nat
    OBVIOUS
  <2> HIDE DEF Bad
  <2> QED BY <1>1, <2>1, LeastElement
<1>3. k \in 0..n /\ ~\E g : Defined(k, g)
  BY <1>2
<1>4. k # 0
  <2>1. Defined(0, [j \in 0..0 |-> base])
    OBVIOUS
  <2> QED BY <1>3, <2>1
<1>5. k \in 1..n /\ k - 1 \in 0..n /\ ~(k <= k - 1)
  BY <1>3, <1>4
<1>6. k - 1 \notin Bad
  BY <1>2, <1>5
<1>7. PICK g : Defined(k - 1, g)
  BY <1>5, <1>6
<1> HIDE DEF Bad
<1> DEFINE next == F[<<g[k - 1], k>>]
           h == [j \in 0..k |-> IF j = k THEN next ELSE g[j]]
<1>8. next \in T
  <2>1. k - 1 \in 0..(k - 1)
    BY <1>5
  <2>2. g[k - 1] \in T
    BY <1>7, <2>1
  <2> QED BY <2>2, <1>5
<1> HIDE DEF next
<1>9. h \in [0..k -> T]
  <2>1. ASSUME NEW j \in 0..k, j # k PROVE g[j] \in T
    <3>1. j \in 0..(k - 1)
      BY <2>1, <1>5
    <3> QED BY <3>1, <1>7
  <2> QED BY <1>8, <2>1
<1>10. h[0] = base
  BY <1>4, <1>5, <1>7
<1>11. ASSUME NEW j \in 1..k PROVE h[j] = F[<<h[j - 1], j>>]
  <2>1. j - 1 \in 0..(k - 1) /\ j - 1 # k /\ j - 1 \in 0..k /\ j \in 0..k
    BY <1>5
  <2>2. h[j - 1] = g[j - 1]
    BY <2>1
  <2>3. CASE j = k
    BY <2>1, <2>2, <2>3 DEF next
  <2>4. CASE j # k
    <3>1. j \in 1..(k - 1)
      BY <2>4, <1>5
    <3>2. h[j] = g[j]
      BY <2>1, <2>4
    <3> QED BY <2>2, <3>1, <3>2, <1>7
  <2> QED BY <2>3, <2>4
<1>12. Defined(k, h)
  <2> HIDE DEF h
  <2> QED BY <1>9, <1>10, <1>11
<1> QED BY <1>3, <1>12

-----------------------------------------------------------------------------
Contents == Values \cup {DataOf(o) : o \in Objects} \cup UNION {Range(rows) : rows \in InitialDBs}
Tables(K, V) == UNION {[D -> V] : D \in SUBSET K}
Items(K, V) == [key : K, value : V]
Progress(K, V) == [rows : Tables(K, V), ok : BOOLEAN, n : Nat]

\* One write after done.
Written(done, item, n, there) ==
    IF done.ok /\ (item.key \in DOMAIN done.rows <=> there)
    THEN [rows |-> Put(done.rows, item.key, item.value), ok |-> TRUE, n |-> n]
    ELSE [done EXCEPT !.ok = FALSE]

\* A record that is put is there, and the others are as they were.
LEMMA PutFacts ==
  ASSUME NEW K, NEW V, NEW rows \in Tables(K, V), NEW k \in K, NEW v \in V
  PROVE  /\ Put(rows, k, v) \in Tables(K, V)
         /\ DOMAIN Put(rows, k, v) = DOMAIN rows \cup {k}
         /\ Put(rows, k, v)[k] = v
         /\ \A x \in DOMAIN rows \ {k} : Put(rows, k, v)[x] = rows[x]
<1>1. PICK D \in SUBSET K : rows \in [D -> V]
  BY DEF Tables
<1>2. DOMAIN rows = D
  BY <1>1
<1>3. Put(rows, k, v) \in [D \cup {k} -> V] /\ D \cup {k} \in SUBSET K
  BY <1>1, <1>2 DEF Put
<1>4. Put(rows, k, v) \in Tables(K, V)
  BY <1>3 DEF Tables
<1> QED BY <1>2, <1>4 DEF Put

\* A write makes progress of the same type.
LEMMA WrittenType ==
  ASSUME NEW K, NEW V, NEW done \in Progress(K, V), NEW item \in Items(K, V), NEW n \in Nat,
         NEW there \in BOOLEAN
  PROVE  Written(done, item, n, there) \in Progress(K, V)
<1>1. done.rows \in Tables(K, V) /\ item.key \in K /\ item.value \in V
  BY DEF Progress, Items
<1>2. Put(done.rows, item.key, item.value) \in Tables(K, V)
  BY <1>1, PutFacts
<1>3. [done EXCEPT !.ok = FALSE] \in Progress(K, V)
  BY DEF Progress
<1>4. [rows |-> Put(done.rows, item.key, item.value), ok |-> TRUE, n |-> n] \in Progress(K, V)
  BY <1>2 DEF Progress
<1> QED BY <1>3, <1>4 DEF Written

\* The progress of writing items, item by item.
Writings(K, V, rows, items, there, g) ==
    /\ g \in [0..Len(items) -> Progress(K, V)]
    /\ g[0] = [rows |-> rows, ok |-> TRUE, n |-> 0]
    /\ \A j \in 1..Len(items) : g[j] = Written(g[j - 1], items[j], j, there)

\* The recursion of WriteInOrder, as the table after each item.
LEMMA WriteSteps ==
  ASSUME NEW K, NEW V, NEW rows \in Tables(K, V), NEW items \in Seq(Items(K, V)),
         NEW there \in BOOLEAN
  PROVE  \E g : /\ Writings(K, V, rows, items, there, g)
                /\ WriteInOrder(rows, items, there) = g[Len(items)]
<1> DEFINE T == Progress(K, V)
           n == Len(items)
           base == [rows |-> rows, ok |-> TRUE, n |-> 0]
           F == [p \in T \X (1..n) |-> Written(p[1], items[p[2]], p[2], there)]
           Is(f) == f = [m \in 0..n |->
                           IF m = 0 THEN [rows |-> rows, ok |-> TRUE, n |-> 0]
                           ELSE IF f[m - 1].ok /\ (items[m].key \in DOMAIN f[m - 1].rows <=> there)
                           THEN [rows |-> Put(f[m - 1].rows, items[m].key, items[m].value), ok |-> TRUE, n |-> m]
                           ELSE [f[m - 1] EXCEPT !.ok = FALSE]]
           done == CHOOSE f : Is(f)
<1>1. n \in Nat /\ base \in T
  BY DEF Progress
<1>2. F \in [T \X (1..n) -> T]
  <2>1. ASSUME NEW p \in T \X (1..n) PROVE Written(p[1], items[p[2]], p[2], there) \in T
    <3>1. p[1] \in T /\ p[2] \in 1..n /\ p[2] \in Nat
      BY <1>1
    <3>2. items[p[2]] \in Items(K, V)
      BY <3>1
    <3> QED BY <3>1, <3>2, WrittenType
  <2> QED BY <2>1
<1>3. PICK g : Recurs(T, base, n, F, g)
  <2> HIDE DEF T, n, base, F
  <2> QED BY <1>1, <1>2, Recursion
<1>4. /\ g \in [0..n -> T] /\ g[0] = base
      /\ \A j \in 1..n : g[j] = Written(g[j - 1], items[j], j, there)
  <2>1. g \in [0..n -> T] /\ g[0] = base
    BY <1>3 DEF Recurs
  <2>2. ASSUME NEW j \in 1..n PROVE g[j] = Written(g[j - 1], items[j], j, there)
    <3>1. j - 1 \in 0..n
      BY <1>1
    <3>2. <<g[j - 1], j>> \in T \X (1..n)
      BY <2>1, <3>1
    <3>3. g[j] = F[<<g[j - 1], j>>]
      BY <1>3 DEF Recurs
    <3> QED BY <3>2, <3>3
  <2> QED BY <2>1, <2>2
<1>5. Is(g)
  <2>1. ASSUME NEW m \in 0..n
        PROVE  g[m] = IF m = 0 THEN [rows |-> rows, ok |-> TRUE, n |-> 0]
                      ELSE IF g[m - 1].ok /\ (items[m].key \in DOMAIN g[m - 1].rows <=> there)
                      THEN [rows |-> Put(g[m - 1].rows, items[m].key, items[m].value), ok |-> TRUE, n |-> m]
                      ELSE [g[m - 1] EXCEPT !.ok = FALSE]
    <3>1. CASE m = 0
      BY <3>1, <1>4
    <3>2. CASE m # 0
      <4>1. m \in 1..n
        BY <3>2, <1>1
      <4>2. g[m] = Written(g[m - 1], items[m], m, there)
        BY <4>1, <1>4
      <4> QED BY <3>2, <4>2 DEF Written
    <3> QED BY <3>1, <3>2
  <2> QED BY <2>1, <1>4
<1>6. Is(done)
  BY <1>5, Zenon
<1>7. WriteInOrder(rows, items, there) = done[n]
  BY Zenon DEF WriteInOrder
<1>8. Writings(K, V, rows, items, there, done)
  <2> DEFINE Bad == {m \in 0..n : done[m] # g[m]}
  <2>1. Bad = {}
    <3>1. SUFFICES ASSUME Bad # {} PROVE FALSE
      BY <3>1
    <3>2. PICK m \in Bad : \A l \in Bad : m <= l
      <4>1. Bad \in SUBSET Nat
        OBVIOUS
      <4> HIDE DEF Bad
      <4> QED BY <3>1, <4>1, LeastElement
    <3>3. m \in 0..n /\ done[m] # g[m]
      BY <3>2
    <3>4. done[m] = IF m = 0 THEN [rows |-> rows, ok |-> TRUE, n |-> 0]
                    ELSE IF done[m - 1].ok /\ (items[m].key \in DOMAIN done[m - 1].rows <=> there)
                    THEN [rows |-> Put(done[m - 1].rows, items[m].key, items[m].value), ok |-> TRUE, n |-> m]
                    ELSE [done[m - 1] EXCEPT !.ok = FALSE]
      BY <1>6, <3>3
    <3>5. m # 0
      BY <3>3, <3>4, <1>4
    <3>6. m \in 1..n /\ m - 1 \in 0..n /\ ~(m <= m - 1)
      BY <3>3, <3>5, <1>1
    <3>7. done[m - 1] = g[m - 1]
      BY <3>2, <3>6
    <3>8. g[m] = Written(g[m - 1], items[m], m, there)
      BY <3>6, <1>4
    <3> HIDE DEF done
    <3> QED BY <3>3, <3>4, <3>5, <3>7, <3>8 DEF Written
  <2>2. \A m \in 0..n : done[m] = g[m]
    BY <2>1
  <2>3. DOMAIN done = 0..n /\ done = [m \in 0..n |-> done[m]]
    BY <1>6
  <2>4. done = g
    <3> HIDE DEF done
    <3> QED BY <2>2, <2>3, <1>4
  <2> HIDE DEF done
  <2> QED BY <2>4, <1>4 DEF Writings
<1> HIDE DEF done
<1> QED BY <1>7, <1>8

\* What is known of the first j writes, r being how they went: they only add
\* records; when all of them went through, every key has what was written last
\* under it; and when they changed anything the first of them went through.
AfterFirst(rows, items, there, j, r) ==
    /\ DOMAIN rows \subseteq DOMAIN r.rows
    /\ r.rows # rows => j > 0 /\ items[1].key \in DOMAIN r.rows
    /\ r.ok =>
         /\ DOMAIN r.rows = DOMAIN rows \cup {items[m].key : m \in 1..j}
         /\ \A m \in 1..j : (\A l \in (m + 1)..j : items[l].key # items[m].key)
                              => r.rows[items[m].key] = items[m].value
         /\ \A k \in DOMAIN rows : (\A m \in 1..j : items[m].key # k) => r.rows[k] = rows[k]
         /\ ~there => \A m \in 1..j : items[m].key \notin DOMAIN rows

\* What a writing returns: the table after the items before the first refusal.
LEMMA WriteFacts ==
  ASSUME NEW K, NEW V, NEW rows \in Tables(K, V), NEW items \in Seq(Items(K, V)),
         NEW there \in BOOLEAN
  PROVE  /\ WriteInOrder(rows, items, there) \in Progress(K, V)
         /\ AfterFirst(rows, items, there, Len(items), WriteInOrder(rows, items, there))
<1>1. PICK g : /\ Writings(K, V, rows, items, there, g)
               /\ WriteInOrder(rows, items, there) = g[Len(items)]
  BY WriteSteps
<1> DEFINE n == Len(items)
<1>2. n \in Nat /\ n \in 0..n
  OBVIOUS
<1>3. /\ g \in [0..n -> Progress(K, V)]
      /\ g[0] = [rows |-> rows, ok |-> TRUE, n |-> 0]
      /\ \A j \in 1..n : g[j] = Written(g[j - 1], items[j], j, there)
  BY <1>1 DEF Writings
<1>4. \A j \in 1..n : items[j].key \in K /\ items[j].value \in V
  <2>1. \A j \in 1..n : items[j] \in Items(K, V)
    OBVIOUS
  <2> QED BY <2>1 DEF Items
<1> DEFINE Good(j) == AfterFirst(rows, items, there, j, g[j])
           Bad == {j \in 0..n : ~Good(j)}
<1>5. Good(0)
  <2>1. g[0].rows = rows /\ 1..0 = {}
    BY <1>3
  <2>2. {items[m].key : m \in 1..0} = {}
    BY <2>1
  <2> QED BY <2>1, <2>2 DEF AfterFirst
<1>6. ASSUME NEW j \in 1..n, Good(j - 1) PROVE Good(j)
  <2> DEFINE was == g[j - 1]
             k == items[j].key
             v == items[j].value
  <2>1. j - 1 \in 0..n /\ j \in Nat /\ n \in Nat
    BY <1>2
  <2>2. was \in Progress(K, V) /\ g[j] = Written(was, items[j], j, there)
    BY <2>1, <1>3
  <2>3. was.rows \in Tables(K, V) /\ k \in K /\ v \in V /\ was.ok \in BOOLEAN
    BY <2>2, <1>4 DEF Progress
  <2>4. AfterFirst(rows, items, there, j - 1, was)
    BY <1>6
  <2> HIDE DEF was, n
  <2>5. CASE was.ok /\ (k \in DOMAIN was.rows <=> there)
    <3> DEFINE p == Put(was.rows, k, v)
    <3>1. g[j].rows = p /\ g[j].ok = TRUE
      BY <2>2, <2>5 DEF Written
    <3>2. /\ DOMAIN p = DOMAIN was.rows \cup {k} /\ p[k] = v
          /\ \A x \in DOMAIN was.rows \ {k} : p[x] = was.rows[x]
      BY DEF Put
    <3> HIDE DEF p
    <3>3. /\ DOMAIN was.rows = DOMAIN rows \cup {items[m].key : m \in 1..(j - 1)}
          /\ \A m \in 1..(j - 1) : (\A l \in (m + 1)..(j - 1) : items[l].key # items[m].key)
                              => was.rows[items[m].key] = items[m].value
          /\ \A x \in DOMAIN rows : (\A m \in 1..(j - 1) : items[m].key # x) => was.rows[x] = rows[x]
          /\ ~there => \A m \in 1..(j - 1) : items[m].key \notin DOMAIN rows
      BY <2>4, <2>5 DEF AfterFirst
    <3>4. \A m \in 1..j : m = j \/ m \in 1..(j - 1)
      BY <2>1
    <3>4a. j \in 1..j /\ \A m \in 1..(j - 1) : m \in 1..j /\ j \in (m + 1)..j
                                              /\ \A l \in (m + 1)..(j - 1) : l \in (m + 1)..j
      BY <2>1
    <3>5. DOMAIN p = DOMAIN rows \cup {items[m].key : m \in 1..j}
      <4>1. {items[m].key : m \in 1..j} = {items[m].key : m \in 1..(j - 1)} \cup {k}
        BY <3>4, <3>4a
      <4> QED BY <3>2, <3>3, <4>1
    <3>6. ASSUME NEW m \in 1..j, \A l \in (m + 1)..j : items[l].key # items[m].key
          PROVE  p[items[m].key] = items[m].value
      <4>1. CASE m = j
        BY <4>1, <3>2
      <4>2. CASE m \in 1..(j - 1)
        <5>1. items[m].key # k
          BY <3>6, <3>4a, <4>2
        <5>2. was.rows[items[m].key] = items[m].value
          BY <3>3, <3>4a, <3>6, <4>2
        <5>3. items[m].key \in DOMAIN was.rows
          BY <3>3, <4>2
        <5> QED BY <5>1, <5>2, <5>3, <3>2
      <4> QED BY <4>1, <4>2, <3>4
    <3>7. ASSUME NEW x \in DOMAIN rows, \A m \in 1..j : items[m].key # x
          PROVE  p[x] = rows[x]
      <4>1. was.rows[x] = rows[x] /\ x # k
        BY <3>3, <3>4a, <3>7
      <4> QED BY <4>1, <3>2, <3>3
    <3>8. ASSUME ~there, NEW m \in 1..j PROVE items[m].key \notin DOMAIN rows
      <4>1. k \notin DOMAIN rows
        BY <3>8, <2>5, <3>3
      <4> QED BY <4>1, <3>8, <3>3, <3>4
    <3>9. j > 0 /\ items[1].key \in DOMAIN p
      <4>1. j > 0 /\ 1 \in 1..j
        BY <2>1
      <4> QED BY <4>1, <3>5
    <3>10. DOMAIN rows \subseteq DOMAIN p
      BY <3>5
    <3> QED BY <3>1, <3>5, <3>6, <3>7, <3>8, <3>9, <3>10 DEF AfterFirst
  <2>6. CASE ~(was.ok /\ (k \in DOMAIN was.rows <=> there))
    <3>1. g[j] = [was EXCEPT !.ok = FALSE]
      BY <2>2, <2>6 DEF Written
    <3>2. g[j].rows = was.rows /\ g[j].ok = FALSE
      BY <2>2, <3>1 DEF Progress
    <3>3. j > 0
      BY <2>1
    <3> QED BY <2>4, <3>2, <3>3 DEF AfterFirst
  <2> QED BY <2>5, <2>6
<1> HIDE DEF Good
<1>7. Bad = {}
  <2>1. SUFFICES ASSUME Bad # {} PROVE FALSE
    BY <2>1
  <2>2. PICK j \in Bad : \A l \in Bad : j <= l
    <3>1. Bad \in SUBSET Nat
      OBVIOUS
    <3> HIDE DEF Bad
    <3> QED BY <2>1, <3>1, LeastElement
  <2>3. j \in 1..n /\ j - 1 \in 0..n /\ ~(j <= j - 1) /\ ~Good(j)
    BY <2>2, <1>2, <1>5
  <2>4. Good(j - 1)
    BY <2>2, <2>3
  <2> QED BY <1>6, <2>3, <2>4
<1>8. Good(n)
  BY <1>2, <1>7
<1> QED BY <1>1, <1>2, <1>3, <1>8 DEF Good

\* The records that are left when some are excluded.
LEMMA ExcludedFacts ==
  ASSUME NEW S, NEW objects \in Seq(S), NEW excluded
  PROVE  /\ excludeRecords(objects, excluded) \in Seq(S)
         /\ Range(excludeRecords(objects, excluded)) = {o \in Range(objects) : o \notin excluded}
<1> DEFINE n == Len(objects)
           Left(t, o) == IF o \in excluded THEN t ELSE Append(t, o)
           F == [p \in Seq(S) \X (1..n) |-> Left(p[1], objects[p[2]])]
           Is(f) == f = [m \in 0..n |->
                           IF m = 0 THEN <<>>
                           ELSE IF objects[m] \in excluded THEN f[m - 1] ELSE Append(f[m - 1], objects[m])]
           kept == CHOOSE f : Is(f)
<1>1. n \in Nat /\ <<>> \in Seq(S) /\ DOMAIN objects = 1..n /\ \A m \in 1..n : objects[m] \in S
  OBVIOUS
<1>2. F \in [Seq(S) \X (1..n) -> Seq(S)]
  <2>1. ASSUME NEW p \in Seq(S) \X (1..n) PROVE Left(p[1], objects[p[2]]) \in Seq(S)
    <3>1. p[1] \in Seq(S) /\ objects[p[2]] \in S
      BY <1>1
    <3> QED BY <3>1
  <2> QED BY <2>1
<1>3. PICK g : Recurs(Seq(S), <<>>, n, F, g)
  <2> HIDE DEF n, F
  <2> QED BY <1>1, <1>2, Recursion
<1>4. /\ g \in [0..n -> Seq(S)] /\ g[0] = <<>>
      /\ \A j \in 1..n : g[j] = Left(g[j - 1], objects[j])
  <2>1. g \in [0..n -> Seq(S)] /\ g[0] = <<>>
    BY <1>3 DEF Recurs
  <2>2. ASSUME NEW j \in 1..n PROVE g[j] = Left(g[j - 1], objects[j])
    <3>1. j - 1 \in 0..n
      BY <1>1
    <3>2. <<g[j - 1], j>> \in Seq(S) \X (1..n)
      BY <2>1, <3>1
    <3>3. g[j] = F[<<g[j - 1], j>>]
      BY <1>3 DEF Recurs
    <3> HIDE DEF Left
    <3> QED BY <3>2, <3>3
  <2> QED BY <2>1, <2>2
<1>5. Is(g)
  <2>1. ASSUME NEW m \in 0..n
        PROVE  g[m] = IF m = 0 THEN <<>>
                      ELSE IF objects[m] \in excluded THEN g[m - 1] ELSE Append(g[m - 1], objects[m])
    <3>1. CASE m = 0
      BY <3>1, <1>4
    <3>2. CASE m # 0
      <4>1. m \in 1..n
        BY <3>2, <1>1
      <4> QED BY <3>2, <4>1, <1>4
    <3> QED BY <3>1, <3>2
  <2> QED BY <2>1, <1>4
<1>6. Is(kept)
  BY <1>5, Zenon
<1>7. excludeRecords(objects, excluded) = kept[n]
  BY Zenon DEF excludeRecords
<1> DEFINE Has(m) == /\ kept[m] \in Seq(S)
                     /\ Range(kept[m]) = {objects[i] : i \in {j \in 1..m : objects[j] \notin excluded}}
           Bad == {m \in 0..n : ~Has(m)}
<1>8. kept[0] = <<>> /\ \A m \in 1..n : kept[m] = Left(kept[m - 1], objects[m])
  <2>1. kept[0] = <<>>
    <3>1. 0 \in 0..n
      BY <1>1
    <3>2. kept[0] = IF 0 = 0 THEN <<>>
                    ELSE IF objects[0] \in excluded THEN kept[0 - 1] ELSE Append(kept[0 - 1], objects[0])
      BY <1>6, <3>1
    <3> HIDE DEF kept
    <3> QED BY <3>2
  <2>2. ASSUME NEW m \in 1..n PROVE kept[m] = Left(kept[m - 1], objects[m])
    <3>1. m \in 0..n /\ m # 0
      BY <1>1
    <3>2. kept[m] = IF m = 0 THEN <<>>
                    ELSE IF objects[m] \in excluded THEN kept[m - 1] ELSE Append(kept[m - 1], objects[m])
      BY <1>6, <3>1
    <3> HIDE DEF kept
    <3> QED BY <3>1, <3>2
  <2> QED BY <2>1, <2>2
<1> HIDE DEF kept
<1>9. Has(0)
  <2>1. Range(<<>>) = {}
    BY DEF Range
  <2> QED BY <1>8, <2>1
<1>10. ASSUME NEW m \in 1..n, Has(m - 1) PROVE Has(m)
  <2>1. m \in Nat /\ m \in 1..m /\ (\A i \in 1..(m - 1) : i \in 1..m)
        /\ \A i \in 1..m : i = m \/ i \in 1..(m - 1)
    BY <1>1
  <2>2. kept[m] = Left(kept[m - 1], objects[m]) /\ objects[m] \in S /\ kept[m - 1] \in Seq(S)
    BY <1>1, <1>8, <1>10
  <2>3. CASE objects[m] \in excluded
    <3>1. kept[m] = kept[m - 1]
      BY <2>2, <2>3
    <3>2. {i \in 1..m : objects[i] \notin excluded} = {i \in 1..(m - 1) : objects[i] \notin excluded}
      BY <2>1, <2>3
    <3> QED BY <3>1, <3>2, <1>10
  <2>4. CASE objects[m] \notin excluded
    <3>1. kept[m] = Append(kept[m - 1], objects[m])
      BY <2>2, <2>4
    <3>2. kept[m] \in Seq(S)
      BY <2>2, <3>1
    <3>3. Range(kept[m]) = Range(kept[m - 1]) \cup {objects[m]}
      <4> DEFINE t == kept[m - 1]
                 x == objects[m]
      <4>1. /\ Len(t) \in Nat /\ DOMAIN t = 1..Len(t) /\ DOMAIN Append(t, x) = 1..(Len(t) + 1)
            /\ Append(t, x)[Len(t) + 1] = x /\ \A i \in 1..Len(t) : Append(t, x)[i] = t[i]
        BY <2>2
      <4> HIDE DEF t, x
      <4>2. /\ Len(t) + 1 \in 1..(Len(t) + 1) /\ \A i \in 1..Len(t) : i \in 1..(Len(t) + 1)
            /\ \A i \in 1..(Len(t) + 1) : i = Len(t) + 1 \/ i \in 1..Len(t)
        BY <4>1
      <4>3. Range(Append(t, x)) = Range(t) \cup {x}
        BY <4>1, <4>2 DEF Range
      <4> QED BY <4>3, <3>1 DEF t, x
    <3>4. {i \in 1..m : objects[i] \notin excluded} = {i \in 1..(m - 1) : objects[i] \notin excluded} \cup {m}
      BY <2>1, <2>4
    <3> QED BY <3>2, <3>3, <3>4, <1>10
  <2> QED BY <2>3, <2>4
<1>11. Bad = {}
  <2>1. SUFFICES ASSUME Bad # {} PROVE FALSE
    BY <2>1
  <2> HIDE DEF Has
  <2>2. PICK j \in Bad : \A l \in Bad : j <= l
    <3>1. Bad \in SUBSET Nat
      OBVIOUS
    <3> HIDE DEF Bad
    <3> QED BY <2>1, <3>1, LeastElement
  <2>3. j \in 1..n /\ j - 1 \in 0..n /\ ~(j <= j - 1) /\ ~Has(j)
    BY <2>2, <1>1, <1>9
  <2>4. Has(j - 1)
    BY <2>2, <2>3
  <2> QED BY <1>10, <2>3, <2>4
<1>12. Has(n)
  BY <1>1, <1>11
<1>13. {objects[i] : i \in {j \in 1..n : objects[j] \notin excluded}} = {o \in Range(objects) : o \notin excluded}
  BY <1>1 DEF Range
<1> QED BY <1>7, <1>12, <1>13

-----------------------------------------------------------------------------
Handles == [parent : Parents \cup {Root}, option : {NoOption, FailingOption} \cup (Parents \ Incomplete)]
Snapshots == [before : Tables(Keys, Contents), wrote : BOOLEAN]
Queues == [inserts : Seq(Objects), updates : Seq(Items(Keys, Values)), deletes : Seq(Keys)]

\* Handles, tables and queues are what their types say, and what the last call
\* reported written is listed.
WInv ==
    /\ db \in Tables(Keys, Contents)
    /\ handle \in Handles
    /\ tx # NoTx => tx \in Snapshots
    /\ queue \in Queues
    /\ WrittenIsListed

\* k is where h looks for its records.
Fits(h, k) ==
    Agrees(h) => /\ h.parent # Root => k.parent = h.parent
                 /\ h.option = NoOption => {k} = idToKey(h, k.id)

\* A key that guardParent lets pass is a key of the collection.
LEMMA GuardedKey ==
  ASSUME NEW parent \in Parents \cup {Root}, NEW id \in IDs, NEW k \in guardParent(Key(parent, id))
  PROVE  k \in Keys /\ k = Key(parent, id) /\ guardParent(Key(parent, id)) = {k}
<1>1. Key(parent, id).parent = parent
  BY DEF Key
<1>2. parent \notin Incomplete /\ guardParent(Key(parent, id)) = {Key(parent, id)}
  BY <1>1 DEF guardParent
<1> QED BY <1>2 DEF Keys

\* The key of a typed ID is a key of the collection that its handle finds.
LEMMA TypedKeyFits ==
  ASSUME WInv, NEW id \in IDs, NEW k \in idToKey(handle, id)
  PROVE  k \in Keys /\ Fits(handle, k) /\ idToKey(handle, id) = {k}
<1>1. /\ handle.parent \in Parents \cup {Root}
      /\ handle.option \in {NoOption, FailingOption} \cup (Parents \ Incomplete)
  BY DEF WInv, Handles
<1>2. handle.option # FailingOption /\ idToKey(handle, id) = guardParent(Key(parentOf(handle), id))
  BY DEF idToKey
<1>3. parentOf(handle) \in Parents \cup {Root}
  BY <1>1 DEF parentOf
<1>4. k \in Keys /\ k = Key(parentOf(handle), id) /\ idToKey(handle, id) = {k}
  BY <1>2, <1>3, GuardedKey
<1>5. k.id = id /\ k.parent = parentOf(handle)
  BY <1>4 DEF Key
<1>6. Agrees(handle) /\ handle.parent # Root => parentOf(handle) = handle.parent
  BY <1>1 DEF parentOf, Agrees
<1> QED BY <1>4, <1>5, <1>6 DEF Fits

\* So is that of a generated ID.
LEMMA GeneratedKeyFits ==
  ASSUME WInv, NEW id \in IDs, handle.parent \notin Incomplete
  PROVE  Key(handle.parent, id) \in Keys /\ Fits(handle, Key(handle.parent, id))
<1>1. handle.parent \in (Parents \ Incomplete) \cup {Root}
  BY DEF WInv, Handles
<1>2. Key(handle.parent, id) \in Keys
  BY <1>1 DEF Keys
<1>3. Key(handle.parent, id).id = id /\ Key(handle.parent, id).parent = handle.parent
  BY DEF Key
<1>4. handle.option = NoOption => idToKey(handle, id) = {Key(handle.parent, id)}
  BY <1>3, CollectionAssumption DEF idToKey, parentOf, guardParent
<1> QED BY <1>2, <1>3, <1>4 DEF Fits

\* A call reports written what is there and what its handle finds.
LEMMA ReportIsListed ==
  ASSUME NEW written, NEW outcome, Returns(outcome, written),
         \A k \in written : k \in DOMAIN db' /\ Fits(handle, k)
  PROVE  WrittenIsListed'
<1>1. last'.h = handle /\ last'.written = written
  BY DEF Returns
<1>2. ASSUME NEW k \in written
      PROVE  Agrees(last'.h) => /\ k \in Scope(last.h)'
                                /\ last'.h.option = NoOption => {k} = idToKey(last'.h, k.id)
  BY <1>1 DEF Fits, Scope
<1> QED BY <1>1, <1>2 DEF WrittenIsListed

\* Nothing was reported written by a call that is not a collection's.
LEMMA OwnCallIsListed ==
  ASSUME OwnCall
  PROVE  WrittenIsListed'
BY DEF OwnCall, NoCall, WrittenIsListed

\* What markWrite and deletes make is of the same type.
LEMMA TxTyped ==
  ASSUME WInv, markWrite \/ UNCHANGED tx
  PROVE  tx' # NoTx => tx' \in Snapshots
BY DEF WInv, markWrite, Snapshots

\* A table without some of its keys is a table.
LEMMA RemovedTyped ==
  ASSUME NEW K, NEW V, NEW rows \in Tables(K, V), NEW S
  PROVE  [x \in DOMAIN rows \ S |-> rows[x]] \in Tables(K, V)
<1>1. PICK D \in SUBSET K : rows \in [D -> V]
  BY DEF Tables
<1>2. DOMAIN rows = D
  BY <1>1
<1>3. [x \in DOMAIN rows \ S |-> rows[x]] \in [D \ S -> V] /\ D \ S \in SUBSET K
  BY <1>1, <1>2
<1> QED BY <1>3 DEF Tables

\* The inductive invariant holds before the first call.
LEMMA WInvInit ==
  ASSUME WInit
  PROVE  WInv
<1>1. db \in Tables(Keys, Contents)
  <2>1. db \in InitialDBs
    BY DEF WInit, CInit
  <2>2. DOMAIN db \in SUBSET Keys /\ db = [k \in DOMAIN db |-> db[k]]
    BY <2>1, CollectionAssumption
  <2>3. \A k \in DOMAIN db : db[k] \in Contents
    BY <2>1 DEF Contents, Range
  <2>4. db \in [DOMAIN db -> Contents]
    BY <2>2, <2>3
  <2> QED BY <2>2, <2>4 DEF Tables
<1>2. handle \in Handles
  BY DEF WInit, CInit, Handles
<1>3. tx = NoTx
  BY DEF WInit, CInit
<1>4. queue \in Queues
  BY DEF WInit, EmptyQueue, Queues
<1>5. WrittenIsListed
  BY DEF WInit, CInit, NoCall, WrittenIsListed
<1> QED BY <1>1, <1>2, <1>3, <1>4, <1>5 DEF WInv

\* The keys an InsertMany makes, and what it writes under them.
Keyed(items) == [n \in DOMAIN items |-> idToKey(handle, items[n].id)]
RecordsFor(items) ==
    [n \in DOMAIN items |-> [key |-> CHOOSE k \in Keyed(items)[n] : TRUE, value |-> items[n].value]]

\* An InsertMany that goes through has written all its records where the handle
\* finds them.
LEMMA InsertManyKeeps ==
  ASSUME WInv, NEW items \in Seq([id : IDs, value : Values]), InsertMany(items)
  PROVE  db' \in Tables(Keys, Contents) /\ (markWrite \/ UNCHANGED tx) /\ WrittenIsListed'
<1> DEFINE keyed == Keyed(items)
           records == RecordsFor(items)
           done == InsertInOrder(db, records)
<1>1. DOMAIN items = 1..Len(items) /\ Len(items) \in Nat
      /\ \A n \in DOMAIN items : items[n].id \in IDs /\ items[n].value \in Values
  <2>1. DOMAIN items = 1..Len(items) /\ Len(items) \in Nat
    OBVIOUS
  <2> DEFINE S == [id : IDs, value : Values]
  <2>2. items \in Seq(S)
    OBVIOUS
  <2>3. \A n \in DOMAIN items : items[n] \in S
    <3> HIDE DEF S
    <3> QED BY <2>2
  <2> QED BY <2>1, <2>3
<1>2. CASE (\E n \in DOMAIN items : keyed[n] = {}) /\ Returns("bad key", {}) /\ UNCHANGED <<db, tx>>
  <2>1. WrittenIsListed'
    BY <1>2, ReportIsListed
  <2> QED BY <1>2, <2>1 DEF WInv
<1>3. CASE /\ \A n \in DOMAIN items : keyed[n] # {}
           /\ db' = done.rows
           /\ IF done.ok THEN Returns("ok", UNION Range(keyed)) ELSE Returns("exists", {})
           /\ IF done.n > 0 THEN markWrite ELSE UNCHANGED tx
  <2>1. ASSUME NEW n \in DOMAIN items
        PROVE  /\ records[n].key \in Keys /\ keyed[n] = {records[n].key} /\ Fits(handle, records[n].key)
               /\ records[n] = [key |-> records[n].key, value |-> items[n].value]
    <3>1. keyed[n] = idToKey(handle, items[n].id) /\ keyed[n] # {} /\ items[n].id \in IDs
      BY <1>1, <1>3 DEF Keyed
    <3>2. records[n] = [key |-> CHOOSE k \in keyed[n] : TRUE, value |-> items[n].value]
      BY DEF RecordsFor
    <3>3. records[n].key \in keyed[n]
      <4> HIDE DEF keyed
      <4> QED BY <3>1, <3>2
    <3> HIDE DEF keyed, records
    <3> QED BY <3>1, <3>2, <3>3, TypedKeyFits
  <2>2. records \in Seq(Items(Keys, Contents)) /\ Len(records) = Len(items)
    <3>1. \A n \in DOMAIN items : items[n].value \in Contents
      BY <1>1 DEF Contents
    <3>2. ASSUME NEW n \in 1..Len(items) PROVE records[n] \in Items(Keys, Contents)
      <4>1. n \in DOMAIN items /\ items[n].value \in Contents
        BY <1>1, <3>1
      <4>2. records[n].key \in Keys /\ records[n] = [key |-> records[n].key, value |-> items[n].value]
        BY <2>1, <4>1
      <4> HIDE DEF records
      <4> QED BY <4>1, <4>2 DEF Items
    <3>3. records = [n \in 1..Len(items) |-> records[n]]
      BY <1>1 DEF RecordsFor
    <3> HIDE DEF records
    <3>4. records \in [1..Len(items) -> Items(Keys, Contents)]
      BY <3>2, <3>3
    <3> QED BY <3>4, <1>1
  <2> HIDE DEF records
  <2>3. done \in Progress(Keys, Contents) /\ AfterFirst(db, records, FALSE, Len(records), done)
    BY <2>2, WriteFacts DEF WInv, InsertInOrder
  <2>4. done.rows \in Tables(Keys, Contents)
    BY <2>3 DEF Progress
  <2>5. ASSUME done.ok, NEW k \in UNION Range(keyed) PROVE k \in DOMAIN db' /\ Fits(handle, k)
    <3>1. PICK n \in DOMAIN items : k \in keyed[n]
      BY DEF Keyed, Range
    <3>2. k = records[n].key /\ Fits(handle, k)
      BY <2>1, <3>1
    <3>3. n \in 1..Len(records)
      BY <2>2, <1>1
    <3>4. k \in DOMAIN done.rows
      BY <2>3, <2>5, <3>2, <3>3 DEF AfterFirst
    <3> QED BY <1>3, <3>2, <3>4
  <2> HIDE DEF done, keyed
  <2>6. WrittenIsListed'
    <3>1. CASE done.ok
      BY <1>3, <2>5, <3>1, ReportIsListed
    <3>2. CASE ~done.ok
      BY <1>3, <3>2, ReportIsListed
    <3> QED BY <3>1, <3>2
  <2> QED BY <1>3, <2>4, <2>6
<1> QED BY <1>2, <1>3 DEF InsertMany, Keyed, RecordsFor

\* A record of the queue as ApplyChanges inserts it.
LEMMA ToInsertFacts ==
  ASSUME WInv, NEW excluded
  PROVE  /\ toInsert(queue, excluded) \in Seq(Items(Keys, Contents))
         /\ Len(toInsert(queue, excluded)) = Len(excludeRecords(queue.inserts, excluded))
         /\ \A n \in 1..Len(toInsert(queue, excluded)) :
              \E o \in Range(queue.inserts) : /\ o \notin excluded
                                              /\ toInsert(queue, excluded)[n].key = KeyOf(o)
                                              /\ toInsert(queue, excluded)[n].value = DataOf(o)
         /\ \A o \in Range(queue.inserts) : o \notin excluded =>
              \E n \in 1..Len(toInsert(queue, excluded)) : toInsert(queue, excluded)[n].key = KeyOf(o)
<1> DEFINE kept == excludeRecords(queue.inserts, excluded)
           items == toInsert(queue, excluded)
<1>1. kept \in Seq(Objects) /\ Range(kept) = {o \in Range(queue.inserts) : o \notin excluded}
  <2>1. queue.inserts \in Seq(Objects)
    BY DEF WInv, Queues
  <2> QED BY <2>1, ExcludedFacts
<1>2. items = [n \in DOMAIN kept |-> [key |-> KeyOf(kept[n]), value |-> DataOf(kept[n])]]
  BY DEF toInsert
<1> HIDE DEF kept, items
<1>3. Len(kept) \in Nat /\ DOMAIN kept = 1..Len(kept) /\ \A n \in 1..Len(kept) : kept[n] \in Objects
  BY <1>1
<1>4. \A n \in 1..Len(kept) : [key |-> KeyOf(kept[n]), value |-> DataOf(kept[n])] \in Items(Keys, Contents)
  BY <1>3, WorkflowAssumption DEF Items, Contents
<1>5. items \in [1..Len(kept) -> Items(Keys, Contents)]
  BY <1>2, <1>3, <1>4
<1>6. items \in Seq(Items(Keys, Contents)) /\ Len(items) = Len(kept)
  BY <1>3, <1>5
<1>7. \A n \in 1..Len(kept) : kept[n] \in Range(kept) /\ items[n].key = KeyOf(kept[n]) /\ items[n].value = DataOf(kept[n])
  BY <1>2, <1>3 DEF Range
<1>8. \A o \in Range(kept) : \E n \in 1..Len(kept) : kept[n] = o
  BY <1>3 DEF Range
<1>9. \A n \in 1..Len(items) : \E o \in Range(queue.inserts) :
          o \notin excluded /\ items[n].key = KeyOf(o) /\ items[n].value = DataOf(o)
  BY <1>1, <1>6, <1>7
<1>10. \A o \in Range(queue.inserts) : o \notin excluded => \E n \in 1..Len(items) : items[n].key = KeyOf(o)
  BY <1>1, <1>6, <1>7, <1>8
<1> QED BY <1>6, <1>9, <1>10 DEF items, kept

\* The inserts and the updates of a queue, and what they leave of the records.
Inserting(excluded) == WriteInOrder(db, toInsert(queue, excluded), FALSE)
Updating(excluded) == WriteInOrder(Inserting(excluded).rows, queue.updates, TRUE)

\* What the inserts and the updates of a queue leave behind.
LEMMA ApplyFacts ==
  ASSUME WInv, NEW excluded
  PROVE  /\ Inserting(excluded) \in Progress(Keys, Contents)
         /\ AfterFirst(db, toInsert(queue, excluded), FALSE, Len(toInsert(queue, excluded)), Inserting(excluded))
         /\ Updating(excluded) \in Progress(Keys, Contents)
         /\ AfterFirst(Inserting(excluded).rows, queue.updates, TRUE, Len(queue.updates), Updating(excluded))
<1>1. toInsert(queue, excluded) \in Seq(Items(Keys, Contents)) /\ db \in Tables(Keys, Contents)
  BY ToInsertFacts DEF WInv
<1>2. /\ Inserting(excluded) \in Progress(Keys, Contents)
      /\ AfterFirst(db, toInsert(queue, excluded), FALSE, Len(toInsert(queue, excluded)), Inserting(excluded))
  BY <1>1, WriteFacts DEF Inserting
<1>3. queue.updates \in Seq(Items(Keys, Contents)) /\ Inserting(excluded).rows \in Tables(Keys, Contents)
  <2>1. queue.updates \in Seq(Items(Keys, Values))
    BY DEF WInv, Queues
  <2>2. Items(Keys, Values) \subseteq Items(Keys, Contents)
    BY DEF Items, Contents
  <2> QED BY <1>2, <2>1, <2>2 DEF Progress
<1>4. /\ Updating(excluded) \in Progress(Keys, Contents)
      /\ AfterFirst(Inserting(excluded).rows, queue.updates, TRUE, Len(queue.updates), Updating(excluded))
  BY <1>3, WriteFacts DEF Updating
<1> QED BY <1>2, <1>4

\* ApplyChanges in its three outcomes: stopped at an insert, at an update, or done.
LEMMA AppliedCases ==
  ASSUME NEW excluded
  PROVE  applied(db, queue, excluded) =
           IF ~Inserting(excluded).ok
           THEN [stage |-> "insert", rows |-> Inserting(excluded).rows, n |-> Inserting(excluded).n]
           ELSE IF ~Updating(excluded).ok
           THEN [stage |-> "update", rows |-> Updating(excluded).rows, n |-> Inserting(excluded).n + Updating(excluded).n]
           ELSE [stage |-> "done",
                 rows |-> [k \in DOMAIN Updating(excluded).rows \ Range(queue.deletes) |-> Updating(excluded).rows[k]],
                 n |-> Inserting(excluded).n + Updating(excluded).n + Len(queue.deletes)]
BY DEF applied, InsertInOrder, UpdateInOrder, Inserting, Updating

\* ApplyChanges keeps the records' type.
LEMMA AppliedTyped ==
  ASSUME WInv, NEW excluded
  PROVE  applied(db, queue, excluded).rows \in Tables(Keys, Contents)
<1> DEFINE i == Inserting(excluded)
           u == Updating(excluded)
           deleted == [k \in DOMAIN u.rows \ Range(queue.deletes) |-> u.rows[k]]
<1>1. i.rows \in Tables(Keys, Contents) /\ u.rows \in Tables(Keys, Contents)
  BY ApplyFacts DEF Progress
<1>2. deleted \in Tables(Keys, Contents)
  <2> HIDE DEF u
  <2> QED BY <1>1, RemovedTyped
<1>3. applied(db, queue, excluded).rows = IF ~i.ok THEN i.rows ELSE IF ~u.ok THEN u.rows ELSE deleted
  <2>1. applied(db, queue, excluded) =
           IF ~i.ok THEN [stage |-> "insert", rows |-> i.rows, n |-> i.n]
           ELSE IF ~u.ok THEN [stage |-> "update", rows |-> u.rows, n |-> i.n + u.n]
           ELSE [stage |-> "done", rows |-> deleted, n |-> i.n + u.n + Len(queue.deletes)]
    BY AppliedCases, Zenon
  <2> HIDE DEF i, u, deleted
  <2> QED BY <2>1
<1> HIDE DEF i, u, deleted
<1> QED BY <1>1, <1>2, <1>3

-----------------------------------------------------------------------------
\* Every terminal of a collection keeps the invariant.
LEMMA TerminalKeeps ==
  ASSUME WInv, Terminal, UNCHANGED aside
  PROVE  WInv'
<1>1. queue' \in Queues
  BY DEF WInv, aside
<1>2. SUFFICES /\ db' \in Tables(Keys, Contents) /\ (markWrite \/ UNCHANGED tx) /\ WrittenIsListed'
               /\ handle' \in Handles
  BY <1>1, <1>2, TxTyped DEF WInv
<1>3. ASSUME NEW parent \in Parents, In(parent)
      PROVE  /\ UNCHANGED <<db, tx>> /\ WrittenIsListed'
             /\ handle' \in Handles
  <2>1. WrittenIsListed'
    BY <1>3, ReportIsListed DEF In
  <2> QED BY <1>3, <2>1 DEF In, Handles
<1>4. ASSUME NEW id \in IDs, GetRecord(id) \/ Exists(id)
      PROVE  UNCHANGED <<db, tx, handle>> /\ WrittenIsListed'
  <2>1. PICK outcome : Returns(outcome, {})
    BY <1>4, Zenon DEF GetRecord, Exists
  <2>2. WrittenIsListed'
    BY <2>1, ReportIsListed
  <2> QED BY <1>4, <2>2 DEF GetRecord, Exists
<1>5. ASSUME NEW ks, deleteAt(ks)
      PROVE  /\ db' \in Tables(Keys, Contents) /\ (markWrite \/ UNCHANGED tx)
             /\ UNCHANGED handle /\ WrittenIsListed'
  <2>1. PICK outcome : Returns(outcome, {})
    BY <1>5, Zenon DEF deleteAt, NoKey
  <2>2. WrittenIsListed'
    BY <2>1, ReportIsListed
  <2>3. \A k : Without(db, k) \in Tables(Keys, Contents)
    BY RemovedTyped DEF WInv, Without
  <2>4. db \in Tables(Keys, Contents)
    BY DEF WInv
  <2> QED BY <1>5, <2>2, <2>3, <2>4 DEF deleteAt, NoKey
<1>6. ASSUME All PROVE UNCHANGED <<db, tx, handle>> /\ WrittenIsListed'
  <2>1. PICK outcome : Returns(outcome, {})
    BY <1>6, Zenon DEF All
  <2>2. WrittenIsListed'
    BY <2>1, ReportIsListed
  <2> QED BY <1>6, <2>2 DEF All
<1>7. ASSUME NEW k \in Keys, NEW v \in Values
      PROVE  Put(db, k, v) \in Tables(Keys, Contents) /\ k \in DOMAIN Put(db, k, v)
  <2>1. v \in Contents /\ db \in Tables(Keys, Contents)
    BY DEF WInv, Contents
  <2>2. Put(db, k, v) \in Tables(Keys, Contents)
    BY <2>1, PutFacts
  <2> QED BY <2>2 DEF Put
<1>8. ASSUME NEW v \in Values, Insert(v)
      PROVE  /\ db' \in Tables(Keys, Contents) /\ (markWrite \/ UNCHANGED tx)
             /\ UNCHANGED handle /\ WrittenIsListed'
  <2>1. CASE Returns("bad key", {}) /\ UNCHANGED <<db, tx>>
    <3>1. PICK outcome : Returns(outcome, {})
      BY <2>1
    <3>2. WrittenIsListed'
      BY <3>1, ReportIsListed
    <3> QED BY <1>8, <2>1, <3>2 DEF Insert, WInv
  <2>2. CASE /\ handle.parent \notin Incomplete /\ markWrite
             /\ \E id \in IDs : /\ db' = Put(db, Key(handle.parent, id), v)
                                /\ Returns("ok", {Key(handle.parent, id)})
    <3>1. PICK id \in IDs : /\ db' = Put(db, Key(handle.parent, id), v)
                            /\ Returns("ok", {Key(handle.parent, id)})
      BY <2>2
    <3> DEFINE k == Key(handle.parent, id)
    <3>2. k \in Keys /\ Fits(handle, k)
      BY <2>2, GeneratedKeyFits
    <3> HIDE DEF k
    <3>3. db' = Put(db, k, v) /\ Returns("ok", {k})
      BY <3>1 DEF k
    <3>4. db' \in Tables(Keys, Contents) /\ k \in DOMAIN db'
      BY <1>7, <3>2, <3>3
    <3>5. WrittenIsListed'
      BY <3>2, <3>3, <3>4, ReportIsListed
    <3> QED BY <1>8, <2>2, <3>4, <3>5 DEF Insert
  <2> QED BY <1>8, <2>1, <2>2 DEF Insert
<1>9. ASSUME NEW ks, NEW v \in Values, NEW reported, \A k \in ks : k \in Keys,
             \A k \in reported : Fits(handle, k) /\ \A x \in ks : x = k,
             insertAt(ks, v, reported) \/ setAt(ks, v, reported) \/ updateAt(ks, v, reported)
      PROVE  /\ db' \in Tables(Keys, Contents) /\ (markWrite \/ UNCHANGED tx)
             /\ UNCHANGED handle /\ WrittenIsListed'
  <2>1. UNCHANGED handle
    BY <1>9 DEF insertAt, setAt, updateAt
  <2>2. CASE UNCHANGED <<db, tx>> /\ \E outcome : Returns(outcome, {})
    <3>1. PICK outcome : Returns(outcome, {})
      BY <2>2
    <3>2. WrittenIsListed'
      BY <3>1, ReportIsListed
    <3> QED BY <2>1, <2>2, <3>2 DEF WInv
  <2>3. CASE \E k \in ks : db' = Put(db, k, v) /\ markWrite /\ Returns("ok", reported)
    <3>1. PICK k \in ks : db' = Put(db, k, v) /\ markWrite /\ Returns("ok", reported)
      BY <2>3
    <3>2. k \in Keys
      BY <1>9
    <3>3. db' \in Tables(Keys, Contents) /\ k \in DOMAIN db'
      BY <1>7, <3>1, <3>2
    <3>4. \A x \in reported : x \in DOMAIN db' /\ Fits(handle, x)
      BY <1>9, <3>3
    <3>5. WrittenIsListed'
      BY <3>1, <3>4, ReportIsListed
    <3> QED BY <2>1, <3>1, <3>3, <3>5
  <2>4. CASE insertAt(ks, v, reported)
    BY <2>2, <2>3, <2>4, Zenon DEF insertAt, NoKey
  <2>5. CASE setAt(ks, v, reported)
    BY <2>2, <2>3, <2>5, Zenon DEF setAt, NoKey
  <2>6. CASE updateAt(ks, v, reported)
    BY <2>2, <2>3, <2>6, Zenon DEF updateAt, NoKey
  <2> QED BY <1>9, <2>4, <2>5, <2>6
<1>12. ASSUME NEW id \in IDs, NEW v \in Values, InsertWithID(id, v) \/ SetByID(id, v) \/ UpdateByID(id, v)
       PROVE  /\ db' \in Tables(Keys, Contents) /\ (markWrite \/ UNCHANGED tx)
              /\ UNCHANGED handle /\ WrittenIsListed'
  <2> DEFINE ks == idToKey(handle, id)
  <2>1. \A k \in ks : k \in Keys /\ Fits(handle, k) /\ \A x \in ks : x = k
    BY TypedKeyFits
  <2>2. insertAt(ks, v, ks) \/ setAt(ks, v, ks) \/ updateAt(ks, v, ks)
    BY <1>12 DEF InsertWithID, SetByID, UpdateByID
  <2> HIDE DEF ks
  <2> QED BY <1>9, <2>1, <2>2
<1>13. ASSUME NEW k \in CallerKeys, NEW v \in Values, InsertRecord(k, v) \/ SetRecord(k, v) \/ UpdateByKey(k, v)
       PROVE  /\ db' \in Tables(Keys, Contents) /\ (markWrite \/ UNCHANGED tx)
              /\ UNCHANGED handle /\ WrittenIsListed'
  <2> DEFINE ks == guardParent(k)
  <2>1. \A x \in ks : x \in Keys
    <3>1. PICK parent \in Parents \cup {Root}, id \in IDs : k = Key(parent, id)
      BY DEF CallerKeys
    <3> QED BY <3>1, GuardedKey
  <2>2. insertAt(ks, v, {}) \/ setAt(ks, v, {}) \/ updateAt(ks, v, {})
    BY <1>13 DEF InsertRecord, SetRecord, UpdateByKey
  <2> HIDE DEF ks
  <2> QED BY <1>9, <2>1, <2>2
<1>10. ASSUME NEW a \in IDs, NEW b \in IDs, NEW v \in Values, InsertMany(<<Item(a, v), Item(b, v)>>)
       PROVE  /\ db' \in Tables(Keys, Contents) /\ (markWrite \/ UNCHANGED tx)
              /\ UNCHANGED handle /\ WrittenIsListed'
  <2>1. <<Item(a, v), Item(b, v)>> \in Seq([id : IDs, value : Values])
    BY DEF Item
  <2>2. UNCHANGED handle
    BY <1>10 DEF InsertMany
  <2> QED BY <1>10, <2>1, <2>2, InsertManyKeeps
<1>11. /\ handle \in Handles
       /\ db \in Tables(Keys, Contents)
  BY DEF WInv
<1> QED
  <2>1. CASE \E parent \in Parents : In(parent)
    BY <2>1, <1>3, <1>11
  <2>2. CASE \E id \in IDs : GetRecord(id) \/ Exists(id) \/ DeleteByID(id)
    BY <2>2, <1>4, <1>5, <1>11 DEF DeleteByID
  <2>3. CASE All
    BY <2>3, <1>6, <1>11
  <2>4. CASE \E v \in Values : Insert(v)
    BY <2>4, <1>8, <1>11
  <2>5. CASE \E id \in IDs, v \in Values : InsertWithID(id, v) \/ SetByID(id, v) \/ UpdateByID(id, v)
    BY <2>5, <1>12, <1>11
  <2>6. CASE \E a, b \in IDs, v \in Values : InsertMany(<<Item(a, v), Item(b, v)>>)
    BY <2>6, <1>10, <1>11
  <2>7. CASE \E k \in CallerKeys : \E v \in Values : InsertRecord(k, v) \/ SetRecord(k, v) \/ UpdateByKey(k, v)
    BY <2>7, <1>13, <1>11
  <2>8. CASE \E k \in CallerKeys : DeleteByKey(k)
    BY <2>8, <1>5, <1>11 DEF DeleteByKey
  <2> QED BY <2>1, <2>2, <2>3, <2>4, <2>5, <2>6, <2>7, <2>8 DEF Terminal

\* Every step keeps the invariant.
LEMMA WInvStep == WInv /\ [WNext]_wvars => WInv'
<1> SUFFICES ASSUME WInv, [WNext]_wvars PROVE WInv'
  OBVIOUS
<1>1. /\ handle \in Handles
      /\ db \in Tables(Keys, Contents) /\ (tx # NoTx => tx \in Snapshots) /\ WrittenIsListed
  BY DEF WInv
<1>2. /\ queue \in Queues /\ queue = [inserts |-> queue.inserts, updates |-> queue.updates, deletes |-> queue.deletes]
      /\ queue.inserts \in Seq(Objects) /\ queue.updates \in Seq(Items(Keys, Values)) /\ queue.deletes \in Seq(Keys)
  BY DEF WInv, Queues
<1>3. CASE Terminal /\ UNCHANGED aside
  BY <1>3, TerminalKeeps
<1>4. CASE BeginTx
  <2>1. WrittenIsListed'
    BY <1>4, OwnCallIsListed DEF BeginTx
  <2>2. tx' \in Snapshots
    BY <1>1, <1>4 DEF BeginTx, Snapshots
  <2>3. UNCHANGED <<db, handle, queue>>
    BY <1>4 DEF BeginTx, aside
  <2> QED BY <1>1, <1>2, <2>1, <2>2, <2>3 DEF WInv
<1>5. ASSUME NEW failed \in BOOLEAN, EndTx(failed) PROVE WInv'
  <2>1. WrittenIsListed'
    BY <1>5, OwnCallIsListed DEF EndTx
  <2>2. db' \in Tables(Keys, Contents)
    BY <1>1, <1>5 DEF EndTx, Snapshots
  <2>3. UNCHANGED <<handle, queue>> /\ tx' = NoTx
    BY <1>5 DEF EndTx, aside
  <2> QED BY <1>1, <1>2, <2>1, <2>2, <2>3 DEF WInv
<1>6. ASSUME NEW o \in Objects, QueueInsert(o) PROVE WInv'
  <2>1. WrittenIsListed'
    BY <1>6, OwnCallIsListed DEF QueueInsert
  <2>2. queue' \in Queues
    <3>1. Append(queue.inserts, o) \in Seq(Objects)
      BY <1>2
    <3> QED BY <1>2, <1>6, <3>1 DEF QueueInsert, Queues
  <2>3. UNCHANGED <<db, handle, tx>>
    BY <1>6 DEF QueueInsert
  <2> QED BY <1>1, <2>1, <2>2, <2>3 DEF WInv
<1>7. ASSUME NEW k \in Keys, QueueDelete(k) PROVE WInv'
  <2>1. WrittenIsListed'
    BY <1>7, OwnCallIsListed DEF QueueDelete
  <2>2. queue' \in Queues
    <3>1. Append(queue.deletes, k) \in Seq(Keys)
      BY <1>2
    <3> QED BY <1>2, <1>7, <3>1 DEF QueueDelete, Queues
  <2>3. UNCHANGED <<db, handle, tx>>
    BY <1>7 DEF QueueDelete
  <2> QED BY <1>1, <2>1, <2>2, <2>3 DEF WInv
<1>8. ASSUME NEW k \in Keys, NEW v \in Values, QueueUpdate(k, v) PROVE WInv'
  <2>1. WrittenIsListed'
    BY <1>8, OwnCallIsListed DEF QueueUpdate
  <2>2. queue' \in Queues
    <3>1. [key |-> k, value |-> v] \in Items(Keys, Values)
      BY DEF Items
    <3>2. Append(queue.updates, [key |-> k, value |-> v]) \in Seq(Items(Keys, Values))
      BY <1>2, <3>1
    <3> QED BY <1>2, <1>8, <3>2 DEF QueueUpdate, Queues
  <2>3. UNCHANGED <<db, handle, tx>>
    BY <1>8 DEF QueueUpdate
  <2> QED BY <1>1, <2>1, <2>2, <2>3 DEF WInv
<1>9. ASSUME NEW excluded, ApplyChanges(excluded) PROVE WInv'
  <2>1. WrittenIsListed'
    BY <1>9, OwnCallIsListed DEF ApplyChanges
  <2>2. db' \in Tables(Keys, Contents)
    BY <1>9, AppliedTyped DEF ApplyChanges
  <2>3. queue' \in Queues
    <3>1. EmptyQueue \in Queues
      BY DEF EmptyQueue, Queues
    <3> QED BY <1>2, <1>9, <3>1 DEF ApplyChanges
  <2>4. markWrite \/ UNCHANGED tx
    BY <1>9 DEF ApplyChanges
  <2>5. tx' # NoTx => tx' \in Snapshots
    BY <2>4, TxTyped
  <2>6. UNCHANGED handle
    BY <1>9 DEF ApplyChanges
  <2> QED BY <1>1, <2>1, <2>2, <2>3, <2>5, <2>6 DEF WInv
<1>10. CASE UNCHANGED wvars
  BY <1>10 DEF WInv, wvars, cvars, WrittenIsListed, Scope
<1> QED BY <1>3, <1>4, <1>5, <1>6, <1>7, <1>8, <1>9, <1>10 DEF WNext

-----------------------------------------------------------------------------
\* Of the steps only ApplyChanges clears a queue, and only ApplyChanges makes an
\* attempt.
LEMMA OnlyApply ==
  ASSUME WInv, [WNext]_wvars, (queue # EmptyQueue /\ queue' = EmptyQueue) \/ attempted' # attempted
  PROVE  \E excluded \in SUBSET Range(queue.inserts) : ApplyChanges(excluded)
<1>1. /\ queue = [inserts |-> queue.inserts, updates |-> queue.updates, deletes |-> queue.deletes]
      /\ queue.inserts \in Seq(Objects) /\ queue.updates \in Seq(Items(Keys, Values)) /\ queue.deletes \in Seq(Keys)
  BY DEF WInv, Queues
<1>2. CASE (Terminal /\ UNCHANGED aside) \/ BeginTx \/ (\E failed \in BOOLEAN : EndTx(failed)) \/ UNCHANGED wvars
  BY <1>2 DEF aside, BeginTx, EndTx, wvars
<1>3. ASSUME NEW o \in Objects, QueueInsert(o) PROVE FALSE
  <2>1. queue'.inserts = Append(queue.inserts, o) /\ attempted' = attempted
    BY <1>1, <1>3 DEF QueueInsert
  <2>2. queue'.inserts # <<>>
    <3> DEFINE s == queue.inserts
    <3>1. Len(Append(s, o)) = Len(s) + 1 /\ Len(s) \in Nat
      BY <1>1
    <3> HIDE DEF s
    <3>2. Append(s, o) # <<>>
      BY <3>1
    <3> QED BY <2>1, <3>2 DEF s
  <2> QED BY <2>1, <2>2 DEF EmptyQueue
<1>4. ASSUME NEW k \in Keys, QueueDelete(k) PROVE FALSE
  <2>1. queue'.deletes = Append(queue.deletes, k) /\ attempted' = attempted
    BY <1>1, <1>4 DEF QueueDelete
  <2>2. queue'.deletes # <<>>
    BY <1>1, <2>1
  <2> QED BY <2>1, <2>2 DEF EmptyQueue
<1>5. ASSUME NEW k \in Keys, NEW v \in Values, QueueUpdate(k, v) PROVE FALSE
  <2>1. queue'.updates = Append(queue.updates, [key |-> k, value |-> v]) /\ attempted' = attempted
    BY <1>1, <1>5 DEF QueueUpdate
  <2>2. [key |-> k, value |-> v] \in Items(Keys, Values)
    BY DEF Items
  <2>3. queue'.updates # <<>>
    <3> DEFINE w == [key |-> k, value |-> v]
               S == Items(Keys, Values)
    <3>1. queue.updates \in Seq(S) /\ w \in S /\ queue'.updates = Append(queue.updates, w)
      BY <1>1, <2>1, <2>2
    <3> HIDE DEF w, S
    <3> QED BY <3>1
  <2> QED BY <2>1, <2>3 DEF EmptyQueue
<1> QED BY <1>2, <1>3, <1>4, <1>5 DEF WNext

\* The value the last of some writes under a key has left.
IsLast(items, n, m, r) ==
    /\ items[m].key = items[n].key
    /\ \A l \in 1..Len(items) : items[l].key = items[n].key => l <= m
    /\ items[n].key \in DOMAIN r.rows
    /\ r.rows[items[n].key] = items[m].value

\* The last item under a key is the one whose value stays.
LEMMA LastWrite ==
  ASSUME NEW K, NEW V, NEW rows, NEW items \in Seq(Items(K, V)), NEW there \in BOOLEAN,
         NEW r \in Progress(K, V), r.ok, AfterFirst(rows, items, there, Len(items), r),
         NEW n \in 1..Len(items)
  PROVE  \E m \in 1..Len(items) : IsLast(items, n, m, r)
<1> DEFINE Later == {Len(items) - m : m \in {m \in 1..Len(items) : items[m].key = items[n].key}}
<1>1. Len(items) \in Nat
  OBVIOUS
<1>2. Later \in SUBSET Nat /\ Later # {}
  BY <1>1
<1>3. PICK d \in Later : \A e \in Later : d <= e
  <2> HIDE DEF Later
  <2> QED BY <1>2, LeastElement
<1>4. PICK m \in 1..Len(items) : items[m].key = items[n].key /\ d = Len(items) - m
  BY <1>3
<1>5. ASSUME NEW l \in 1..Len(items), items[l].key = items[n].key PROVE l <= m
  <2>1. Len(items) - l \in Later
    BY <1>5
  <2>2. Len(items) - m <= Len(items) - l
    <3> HIDE DEF Later
    <3> QED BY <1>3, <1>4, <2>1
  <2> HIDE DEF Later
  <2> QED BY <1>1, <2>2
<1>6. ASSUME NEW l \in (m + 1)..Len(items) PROVE items[l].key # items[m].key
  <2>1. l \in 1..Len(items) /\ ~(l <= m)
    BY <1>1
  <2> HIDE DEF Later
  <2> QED BY <1>4, <1>5, <2>1
<1> HIDE DEF Later
<1>7. r.rows[items[m].key] = items[m].value /\ items[m].key \in DOMAIN r.rows
  BY <1>6 DEF AfterFirst
<1>8. IsLast(items, n, m, r)
  BY <1>4, <1>5, <1>7 DEF IsLast
<1> QED BY <1>8

\* What an ApplyChanges that clears the queue has done.
LEMMA ClearedExactly ==
  ASSUME WInv, NEW excluded \in SUBSET Range(queue.inserts), ApplyChanges(excluded), queue' = EmptyQueue,
         NEW inserted, inserted = {o \in Range(queue.inserts) : o \notin excluded}
  PROVE  /\ \A o \in inserted : KeyOf(o) \notin DOMAIN db
         /\ \A k \in Keys :
               \/ k \in Range(queue.deletes) /\ k \notin DOMAIN db'
               \/ /\ k \notin Range(queue.deletes)
                  /\ \E u \in Range(queue.updates) : u.key = k
                  /\ k \in DOMAIN db' /\ db'[k] = LastUpdate(k)
               \/ /\ k \notin Range(queue.deletes) /\ \A u \in Range(queue.updates) : u.key # k
                  /\ IF \E o \in inserted : KeyOf(o) = k
                     THEN k \in DOMAIN db' /\ \E o \in inserted : KeyOf(o) = k /\ db'[k] = DataOf(o)
                     ELSE /\ k \in DOMAIN db <=> k \in DOMAIN db'
                          /\ k \in DOMAIN db => db[k] = db'[k]
<1> DEFINE i == Inserting(excluded)
           u == Updating(excluded)
           items == toInsert(queue, excluded)
           ups == queue.updates
<1>1. applied(db, queue, excluded).stage = "done"
  BY DEF ApplyChanges
<1>2. i.ok /\ u.ok /\ db' = [k \in DOMAIN u.rows \ Range(queue.deletes) |-> u.rows[k]]
  <2>1. db' = applied(db, queue, excluded).rows
    BY DEF ApplyChanges
  <2> HIDE DEF i, u
  <2>2. applied(db, queue, excluded) =
           IF ~i.ok THEN [stage |-> "insert", rows |-> i.rows, n |-> i.n]
           ELSE IF ~u.ok THEN [stage |-> "update", rows |-> u.rows, n |-> i.n + u.n]
           ELSE [stage |-> "done", rows |-> [k \in DOMAIN u.rows \ Range(queue.deletes) |-> u.rows[k]],
                 n |-> i.n + u.n + Len(queue.deletes)]
    BY AppliedCases, Zenon DEF i, u
  <2> QED BY <1>1, <2>1, <2>2
<1>3. /\ i \in Progress(Keys, Contents) /\ AfterFirst(db, items, FALSE, Len(items), i)
      /\ u \in Progress(Keys, Contents) /\ AfterFirst(i.rows, ups, TRUE, Len(ups), u)
  BY ApplyFacts
<1>4. /\ items \in Seq(Items(Keys, Contents))
      /\ \A n \in 1..Len(items) : \E o \in inserted : items[n].key = KeyOf(o) /\ items[n].value = DataOf(o)
      /\ \A o \in inserted : \E n \in 1..Len(items) : items[n].key = KeyOf(o)
  <2>1. /\ items \in Seq(Items(Keys, Contents))
        /\ \A n \in 1..Len(items) : \E o \in Range(queue.inserts) :
              /\ o \notin excluded /\ items[n].key = KeyOf(o) /\ items[n].value = DataOf(o)
        /\ \A o \in Range(queue.inserts) : o \notin excluded => \E n \in 1..Len(items) : items[n].key = KeyOf(o)
    BY ToInsertFacts
  <2>2. \A o : o \in inserted <=> o \in Range(queue.inserts) /\ o \notin excluded
    OBVIOUS
  <2> HIDE DEF items
  <2> QED BY <2>1, <2>2
<1>5. /\ ups \in Seq(Items(Keys, Values)) /\ DOMAIN ups = 1..Len(ups) /\ Len(ups) \in Nat
      /\ Range(ups) = {ups[n] : n \in 1..Len(ups)}
      /\ ups \in Seq(Items(Keys, Contents))
  <2>1. ups \in Seq(Items(Keys, Values))
    BY DEF WInv, Queues
  <2>2. Items(Keys, Values) \subseteq Items(Keys, Contents)
    BY DEF Items, Contents
  <2> HIDE DEF ups
  <2>3. DOMAIN ups = 1..Len(ups) /\ Len(ups) \in Nat
    BY <2>1
  <2> QED BY <2>1, <2>2, <2>3 DEF Range
<1>6. \A k \in Keys : LastUpdate(k) =
        ups[CHOOSE n \in {l \in DOMAIN ups : ups[l].key = k} :
              \A m \in {l \in DOMAIN ups : ups[l].key = k} : m <= n].value
  BY DEF LastUpdate
<1> HIDE DEF i, u, items, ups
<1>7. ASSUME NEW o \in inserted PROVE KeyOf(o) \notin DOMAIN db
  <2>1. PICK n \in 1..Len(items) : items[n].key = KeyOf(o)
    BY <1>4
  <2> QED BY <1>2, <1>3, <2>1 DEF AfterFirst
<1>8. ASSUME NEW k \in Keys, k \notin Range(queue.deletes),
             NEW w \in Range(ups), w.key = k
      PROVE  k \in DOMAIN db' /\ db'[k] = LastUpdate(k)
  <2>1. PICK n \in 1..Len(ups) : ups[n].key = k
    BY <1>5, <1>8
  <2>a. PICK m \in 1..Len(ups) : IsLast(ups, n, m, u)
    BY <1>2, <1>3, <1>5, LastWrite
  <2>2. /\ ups[m].key = ups[n].key
        /\ \A l \in 1..Len(ups) : ups[l].key = ups[n].key => l <= m
        /\ ups[n].key \in DOMAIN u.rows
        /\ u.rows[ups[n].key] = ups[m].value
    BY <2>a DEF IsLast
  <2> DEFINE ns == {l \in DOMAIN ups : ups[l].key = k}
             top == CHOOSE l \in ns : \A j \in ns : j <= l
  <2>3. m \in ns /\ \A j \in ns : j <= m
    BY <1>5, <2>1, <2>2
  <2>4. ns \in SUBSET Nat
    BY <1>5
  <2>5. top \in ns /\ \A j \in ns : j <= top
    <3> HIDE DEF ns
    <3> QED BY <2>3
  <2>6. top = m
    <3> HIDE DEF ns, top
    <3> QED BY <2>3, <2>4, <2>5
  <2>7. LastUpdate(k) = ups[top].value
    BY <1>6
  <2> HIDE DEF top
  <2> QED BY <1>2, <1>8, <2>1, <2>2, <2>6, <2>7
<1>9. ASSUME NEW k \in Keys, k \notin Range(queue.deletes), \A w \in Range(ups) : w.key # k
      PROVE  /\ k \in DOMAIN db' <=> k \in DOMAIN i.rows
             /\ k \in DOMAIN i.rows => db'[k] = i.rows[k]
  <2>1. \A n \in 1..Len(ups) : ups[n].key # k
    BY <1>5, <1>9
  <2>2. DOMAIN u.rows = DOMAIN i.rows \cup {ups[n].key : n \in 1..Len(ups)}
    BY <1>2, <1>3 DEF AfterFirst
  <2>3. k \in DOMAIN i.rows => u.rows[k] = i.rows[k]
    BY <1>2, <1>3, <2>1 DEF AfterFirst
  <2> QED BY <1>2, <1>9, <2>1, <2>2, <2>3
<1>10. ASSUME NEW k \in Keys, NEW o \in inserted, KeyOf(o) = k
       PROVE  k \in DOMAIN i.rows /\ \E p \in inserted : KeyOf(p) = k /\ i.rows[k] = DataOf(p)
  <2>1. PICK n \in 1..Len(items) : items[n].key = k
    BY <1>4, <1>10
  <2>a. PICK m \in 1..Len(items) : IsLast(items, n, m, i)
    BY <1>2, <1>3, <1>4, LastWrite
  <2>2. /\ items[m].key = items[n].key /\ items[n].key \in DOMAIN i.rows
        /\ i.rows[items[n].key] = items[m].value
    BY <2>a DEF IsLast
  <2>3. PICK p \in inserted : items[m].key = KeyOf(p) /\ items[m].value = DataOf(p)
    BY <1>4
  <2> QED BY <2>1, <2>2, <2>3
<1>11. ASSUME NEW k \in Keys, ~\E o \in inserted : KeyOf(o) = k
       PROVE  /\ k \in DOMAIN i.rows <=> k \in DOMAIN db
              /\ k \in DOMAIN db => i.rows[k] = db[k]
  <2>1. \A n \in 1..Len(items) : items[n].key # k
    BY <1>4, <1>11
  <2>2. DOMAIN i.rows = DOMAIN db \cup {items[n].key : n \in 1..Len(items)}
    BY <1>2, <1>3 DEF AfterFirst
  <2>3. k \in DOMAIN db => i.rows[k] = db[k]
    BY <1>2, <1>3, <2>1 DEF AfterFirst
  <2> QED BY <2>1, <2>2, <2>3
<1>12. ASSUME NEW k \in Keys
       PROVE   \/ k \in Range(queue.deletes) /\ k \notin DOMAIN db'
               \/ /\ k \notin Range(queue.deletes)
                  /\ \E w \in Range(ups) : w.key = k
                  /\ k \in DOMAIN db' /\ db'[k] = LastUpdate(k)
               \/ /\ k \notin Range(queue.deletes) /\ \A w \in Range(ups) : w.key # k
                  /\ IF \E o \in inserted : KeyOf(o) = k
                     THEN k \in DOMAIN db' /\ \E o \in inserted : KeyOf(o) = k /\ db'[k] = DataOf(o)
                     ELSE /\ k \in DOMAIN db <=> k \in DOMAIN db'
                          /\ k \in DOMAIN db => db[k] = db'[k]
  <2>1. CASE k \in Range(queue.deletes)
    BY <1>2, <2>1
  <2>2. CASE k \notin Range(queue.deletes) /\ \E w \in Range(ups) : w.key = k
    BY <1>8, <2>2
  <2>3. CASE k \notin Range(queue.deletes) /\ \A w \in Range(ups) : w.key # k
    <3>1. CASE \E o \in inserted : KeyOf(o) = k
      BY <1>9, <1>10, <2>3, <3>1
    <3>2. CASE ~\E o \in inserted : KeyOf(o) = k
      BY <1>9, <1>11, <2>3, <3>2
    <3> QED BY <2>3, <3>1, <3>2
  <2> QED BY <2>1, <2>2, <2>3
<1> QED BY <1>7, <1>12 DEF ups

\* An ApplyChanges that has stopped, and changed anything, cannot insert again.
LEMMA StoppedBlocks ==
  ASSUME WInv, NEW excluded, ApplyChanges(excluded), queue # EmptyQueue, queue' = queue, db' # db,
         excludeRecords(queue.inserts, excluded) # <<>>, WInv'
  PROVE  ~Retryable'
<1> DEFINE i == Inserting(excluded)
           u == Updating(excluded)
           items == toInsert(queue, excluded)
<1>1. applied(db, queue, excluded).stage # "done" /\ db' = applied(db, queue, excluded).rows
      /\ attempted'.excluded = excluded
  BY DEF ApplyChanges
<1>2. \/ ~i.ok /\ db' = i.rows
      \/ i.ok /\ db' = u.rows
  <2> HIDE DEF i, u
  <2>2. applied(db, queue, excluded) =
           IF ~i.ok THEN [stage |-> "insert", rows |-> i.rows, n |-> i.n]
           ELSE IF ~u.ok THEN [stage |-> "update", rows |-> u.rows, n |-> i.n + u.n]
           ELSE [stage |-> "done", rows |-> [k \in DOMAIN u.rows \ Range(queue.deletes) |-> u.rows[k]],
                 n |-> i.n + u.n + Len(queue.deletes)]
    BY AppliedCases, Zenon DEF i, u
  <2> QED BY <1>1, <2>2
<1>3. /\ AfterFirst(db, items, FALSE, Len(items), i)
      /\ AfterFirst(i.rows, queue.updates, TRUE, Len(queue.updates), u)
  BY ApplyFacts
<1>4. items \in Seq(Items(Keys, Contents)) /\ Len(items) > 0
  <2>1. items \in Seq(Items(Keys, Contents)) /\ Len(items) = Len(excludeRecords(queue.inserts, excluded))
    BY ToInsertFacts
  <2>2. excludeRecords(queue.inserts, excluded) \in Seq(Objects)
    BY ExcludedFacts DEF WInv, Queues
  <2> HIDE DEF items
  <2>3. Len(excludeRecords(queue.inserts, excluded)) > 0
    BY <2>2
  <2> QED BY <2>1, <2>3
<1> HIDE DEF i, u, items
<1>5. 1 \in 1..Len(items)
  BY <1>4
<1>6. items[1].key \in DOMAIN db'
  <2>1. CASE ~i.ok /\ db' = i.rows
    BY <1>3, <2>1 DEF AfterFirst
  <2>2. CASE i.ok /\ db' = u.rows
    <3>1. items[1].key \in DOMAIN i.rows
      BY <1>3, <1>5, <2>2 DEF AfterFirst
    <3> QED BY <1>3, <2>2, <3>1 DEF AfterFirst
  <2> QED BY <1>2, <2>1, <2>2
<1> DEFINE again == WriteInOrder(db', items, FALSE)
<1>7. ~again.ok
  <2>1. db' \in Tables(Keys, Contents)
    BY DEF WInv
  <2>2. AfterFirst(db', items, FALSE, Len(items), again)
    BY <1>4, <2>1, WriteFacts
  <2> HIDE DEF again
  <2> QED BY <1>5, <1>6, <2>2 DEF AfterFirst
<1>8. applied(db', queue, excluded).stage = "insert"
  <2>1. InsertInOrder(db', toInsert(queue, excluded)) = again
    BY DEF InsertInOrder, items
  <2> HIDE DEF again
  <2> QED BY <1>7, <2>1 DEF applied
<1>9. Retryable' = (applied(db', queue', attempted'.excluded).stage # "insert")
  BY DEF Retryable
<1> QED BY <1>1, <1>8, <1>9

-----------------------------------------------------------------------------
\* The inductive invariant of collections and queued changes.
THEOREM CollectionInvariant == WSpec => []WInv
<1>1. WInit => WInv
  BY WInvInit
<1>2. WInv /\ [WNext]_wvars => WInv'
  BY WInvStep
<1> QED BY <1>1, <1>2, PTL DEF WSpec

\* Collection: what a handle reports as written is among what it lists, and where
\* it looks for that ID.
THEOREM HandlesListWrites == WSpec => []WrittenIsListed
<1>1. WInv => WrittenIsListed
  BY DEF WInv
<1> QED BY <1>1, CollectionInvariant, PTL

\* ApplyChanges clears the queue only when every queued operation is done: keys
\* to delete are gone, others have their last update, or the record that was to
\* be inserted under a key that was free, and no other key is touched.
THEOREM ClearedIsApplied == WSpec => AppliedExactly
<1>1. WInv /\ [WNext]_wvars =>
        [(queue # EmptyQueue /\ queue' = EmptyQueue) =>
         LET inserted == {o \in Range(queue.inserts) : o \notin attempted'.excluded} IN
         /\ \A o \in inserted : KeyOf(o) \notin DOMAIN db
         /\ \A k \in Keys :
               \/ k \in Range(queue.deletes) /\ k \notin DOMAIN db'
               \/ /\ k \notin Range(queue.deletes)
                  /\ \E u \in Range(queue.updates) : u.key = k
                  /\ k \in DOMAIN db' /\ db'[k] = LastUpdate(k)
               \/ /\ k \notin Range(queue.deletes) /\ \A u \in Range(queue.updates) : u.key # k
                  /\ IF \E o \in inserted : KeyOf(o) = k
                     THEN k \in DOMAIN db' /\ \E o \in inserted : KeyOf(o) = k /\ db'[k] = DataOf(o)
                     ELSE /\ k \in DOMAIN db <=> k \in DOMAIN db'
                          /\ k \in DOMAIN db => db[k] = db'[k]]_wvars
  <2> SUFFICES ASSUME WInv, [WNext]_wvars, queue # EmptyQueue, queue' = EmptyQueue
               PROVE LET inserted == {o \in Range(queue.inserts) : o \notin attempted'.excluded} IN
         /\ \A o \in inserted : KeyOf(o) \notin DOMAIN db
         /\ \A k \in Keys :
               \/ k \in Range(queue.deletes) /\ k \notin DOMAIN db'
               \/ /\ k \notin Range(queue.deletes)
                  /\ \E u \in Range(queue.updates) : u.key = k
                  /\ k \in DOMAIN db' /\ db'[k] = LastUpdate(k)
               \/ /\ k \notin Range(queue.deletes) /\ \A u \in Range(queue.updates) : u.key # k
                  /\ IF \E o \in inserted : KeyOf(o) = k
                     THEN k \in DOMAIN db' /\ \E o \in inserted : KeyOf(o) = k /\ db'[k] = DataOf(o)
                     ELSE /\ k \in DOMAIN db <=> k \in DOMAIN db'
                          /\ k \in DOMAIN db => db[k] = db'[k]
    OBVIOUS
  <2>1. PICK excluded \in SUBSET Range(queue.inserts) : ApplyChanges(excluded)
    BY OnlyApply
  <2>2. attempted'.excluded = excluded
    BY <2>1 DEF ApplyChanges
  <2> DEFINE inserted == {o \in Range(queue.inserts) : o \notin excluded}
  <2>3. inserted = {o \in Range(queue.inserts) : o \notin attempted'.excluded}
    BY <2>2
  <2>4. inserted = {o \in Range(queue.inserts) : o \notin excluded}
    OBVIOUS
  <2> HIDE DEF inserted
  <2>5. /\ \A o \in inserted : KeyOf(o) \notin DOMAIN db
        /\ \A k \in Keys :
               \/ k \in Range(queue.deletes) /\ k \notin DOMAIN db'
               \/ /\ k \notin Range(queue.deletes)
                  /\ \E u \in Range(queue.updates) : u.key = k
                  /\ k \in DOMAIN db' /\ db'[k] = LastUpdate(k)
               \/ /\ k \notin Range(queue.deletes) /\ \A u \in Range(queue.updates) : u.key # k
                  /\ IF \E o \in inserted : KeyOf(o) = k
                     THEN k \in DOMAIN db' /\ \E o \in inserted : KeyOf(o) = k /\ db'[k] = DataOf(o)
                     ELSE /\ k \in DOMAIN db <=> k \in DOMAIN db'
                          /\ k \in DOMAIN db => db[k] = db'[k]
    BY <2>1, <2>4, ClearedExactly
  <2> QED BY <2>3, <2>5, Zenon
<1> QED BY <1>1, CollectionInvariant, PTL DEF WSpec, AppliedExactly

\* A queue that ApplyChanges has worked on in part, its inserts or some of them
\* included, cannot be applied again before a rollback.
THEOREM PartialNeedsRollback == WSpec => RetryNeedsRollback
<1>1. WInv /\ WInv' /\ [WNext]_wvars =>
        [(queue # EmptyQueue /\ queue' = queue /\ attempted' # attempted /\ db' # db
            /\ excludeRecords(queue.inserts, attempted'.excluded) # <<>>) => ~Retryable']_wvars
  <2> SUFFICES ASSUME WInv, WInv', [WNext]_wvars, queue # EmptyQueue, queue' = queue,
                      attempted' # attempted, db' # db,
                      excludeRecords(queue.inserts, attempted'.excluded) # <<>>
               PROVE  ~Retryable'
    OBVIOUS
  <2>1. PICK excluded \in SUBSET Range(queue.inserts) : ApplyChanges(excluded)
    BY OnlyApply
  <2>2. attempted'.excluded = excluded
    BY <2>1 DEF ApplyChanges
  <2> QED BY <2>1, <2>2, StoppedBlocks
<1> QED BY <1>1, CollectionInvariant, PTL DEF WSpec, RetryNeedsRollback
=============================================================================
