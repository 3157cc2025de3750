--------------------------- MODULE MemoryDBProofs ---------------------------
(***************************************************************************)
(* Proofs about concurrent calls on a dalgo2memory database, for any       *)
(* number of goroutines, collections, ids and values and any calls.        *)
(*                                                                         *)
(* Serializability rests on the read-write lock: whoever runs under a      *)
(* shared hold has an entry in readers (Holds), whoever writes has         *)
(* announced itself and met no reader (LockInv), and only writers change   *)
(* contents (Control).  That one collection has one engine rests on        *)
(* enginesMu (EnginesInv).  The rule against reads after writes rests on   *)
(* a transaction's view being still the one it began with (ReadsInv).      *)
(***************************************************************************)
EXTENDS MemoryDB, TLAPS, SequenceTheorems

Running == {"op", "resolve", "create", "apply"}
Waiting == {"rlock", "asleep", "lock", "drain", "enter"}
ReadsOnly(ops) == \A n \in DOMAIN ops : ops[n].op \in Reads

\* Shared holds, those of a call that is about to enter included, are in readers.
Holds(p) ==
    /\ \A d \in DOMAIN stack[p] : stack[p][d].mode = "R" => <<p, d>> \in readers
    /\ pc[p] = "enter" /\ call[p].mode = "R" => NextHold(p) \in readers

\* A call that has the exclusive lock, about to enter or running.
Writing(p) ==
    \/ pc[p] = "enter" /\ call[p].mode = "W"
    \/ \E d \in DOMAIN stack[p] : stack[p][d].mode = "W"

LockInvOf(p) ==
    /\ Holds(p)
    /\ pc[p] = "drain" \/ Writing(p) => announced = p
    /\ Writing(p) => readers = {}
    /\ pc[p] = "drain" => \A d \in DOMAIN stack[p] : stack[p][d].mode = "R"
    /\ pc[p] = "enter" /\ call[p].mode = "W" => stack[p] = <<>>
    /\ \A d \in DOMAIN stack[p] : stack[p][d].mode = "W" => Len(stack[p]) = 1
    /\ p \in blocked => pc[p] = "asleep"

\* Where a goroutine is, what it is about to call and what it has on its stack.
ControlOf(p) ==
    /\ pc[p] \in Running \cup {"worker", "release"} => stack[p] # <<>>
    /\ pc[p] = "idle" => stack[p] = <<>>
    /\ pc[p] = "worker" => Top(p).tx
    /\ pc[p] \in {"rlock", "asleep"} => call[p].mode = "R"
    /\ pc[p] \in {"lock", "drain"} => call[p].mode = "W"
    /\ pc[p] \in Waiting =>
          /\ call[p].mode = "R" => ReadsOnly(call[p].ops)
          /\ ~call[p].tx => call[p].ops # <<>>
          /\ call[p].tx => stack[p] = <<>>
          /\ stack[p] # <<>> => Len(stack[p]) = 1 /\ Top(p).tx
    /\ pc[p] \in Running =>
          /\ todo[p] # <<>>
          /\ Top(p).mode = "R" => ReadsOnly(todo[p])
    /\ Len(stack[p]) <= 2
    /\ Len(stack[p]) = 2 => stack[p][1].tx /\ ~stack[p][2].tx

\* Only the holder of enginesMu looks engines up and creates them.
EnginesInvOf(p) ==
    /\ pc[p] \in {"resolve", "create"} => enginesMu = p
    /\ pc[p] = "create" => Head(todo[p]).coll \notin DOMAIN collections

\* A read-write transaction that has written nothing still has the view it began
\* with; a read it has made and was allowed to make came from that view.
ReadsInvOf(p) ==
    /\ \A d \in DOMAIN stack[p] :
          stack[p][d].tx /\ stack[p][d].mode = "W" /\ ~stack[p][d].hasWritten
             => stack[p][d].view = stack[p][d].begin
    /\ pc[p] \in {"resolve", "create", "apply"} => ~readRefused(p)
    /\ stack[p] = <<>> => out[p].op # "get"
    /\ ( /\ stack[p] # <<>> /\ Top(p).tx /\ Top(p).mode = "W"
         /\ noReadsAfterWrites /\ out[p].op = "get" /\ out[p].res = "found" )
       => /\ out[p].id \in DOMAIN Top(p).begin[out[p].coll]
          /\ out[p].value = Top(p).begin[out[p].coll][out[p].id]

LockInv == \A p \in Procs : LockInvOf(p)
Control == \A p \in Procs : ControlOf(p)
EnginesInv == OneEnginePerCollection /\ \A p \in Procs : EnginesInvOf(p)
ReadsInv == DOMAIN out = Procs /\ \A p \in Procs : ReadsInvOf(p)

IInv ==
    /\ TypeOK
    /\ LockInv
    /\ Control
    /\ EnginesInv
    /\ RunsAlone
    /\ ReadsInv

-----------------------------------------------------------------------------
(***************************************************************************)
(* The call stack, and what an engine does for one operation.              *)
(***************************************************************************)

\* Depths of the stack, which stay below three.
LEMMA Depth ==
  /\ \A n \in Nat : n + 1 = 2 => n = 1
  /\ \A n \in Nat : n # 0 /\ n # 1 /\ n <= 2 => n = 2
  OBVIOUS

\* What is left of a list of more than one operation.
LEMMA Rest ==
  \A n, m \in Nat : n > 1 /\ m = n - 1 => m # 0 /\ \A i \in 1..m : i + 1 \in 1..n
  OBVIOUS

\* Replacing the innermost frame leaves the others, and other stacks, alone.
LEMMA SetTopFacts ==
  ASSUME stack \in [Procs -> Seq(Frames)], NEW p \in Procs, stack[p] # <<>>,
         NEW f \in Frames, SetTop(p, f)
  PROVE  /\ stack' \in [Procs -> Seq(Frames)]
         /\ \A q \in Procs : q # p => stack'[q] = stack[q]
         /\ Len(stack'[p]) = Len(stack[p])
         /\ DOMAIN stack'[p] = DOMAIN stack[p]
         /\ stack'[p] # <<>>
         /\ Top(p)' = f
         /\ \A d \in DOMAIN stack[p] :
               stack'[p][d] = IF d = Len(stack[p]) THEN f ELSE stack[p][d]
<1>1. stack[p] \in Seq(Frames) /\ Len(stack[p]) \in DOMAIN stack[p]
  OBVIOUS
<1>2. stack'[p] = [stack[p] EXCEPT ![Len(stack[p])] = f] /\ \A q \in Procs : q # p => stack'[q] = stack[q]
  BY DEF SetTop
<1>3. stack'[p] \in Seq(Frames) /\ Len(stack'[p]) = Len(stack[p]) /\ DOMAIN stack'[p] = DOMAIN stack[p]
  BY <1>1, <1>2
<1>4. \A d \in DOMAIN stack[p] : stack'[p][d] = IF d = Len(stack[p]) THEN f ELSE stack[p][d]
  BY <1>1, <1>2
<1>5. stack' \in [Procs -> Seq(Frames)]
  BY <1>2, <1>3 DEF SetTop
<1> QED BY <1>1, <1>2, <1>3, <1>4, <1>5 DEF Top

\* Entering a call puts a frame on top.
LEMMA PushFacts ==
  ASSUME stack \in [Procs -> Seq(Frames)], NEW p \in Procs, NEW f \in Frames,
         stack' = [stack EXCEPT ![p] = Append(stack[p], f)]
  PROVE  /\ stack' \in [Procs -> Seq(Frames)]
         /\ \A q \in Procs : q # p => stack'[q] = stack[q]
         /\ Len(stack'[p]) = Len(stack[p]) + 1
         /\ DOMAIN stack'[p] = DOMAIN stack[p] \cup {Len(stack[p]) + 1}
         /\ stack'[p] # <<>>
         /\ Top(p)' = f
         /\ stack'[p][Len(stack[p]) + 1] = f
         /\ \A d \in DOMAIN stack[p] : stack'[p][d] = stack[p][d]
<1>1. stack[p] \in Seq(Frames) /\ Len(stack[p]) \in Nat /\ DOMAIN stack[p] = 1..Len(stack[p])
  OBVIOUS
<1>2. stack'[p] = Append(stack[p], f) /\ \A q \in Procs : q # p => stack'[q] = stack[q]
  OBVIOUS
<1>3. /\ stack'[p] \in Seq(Frames) /\ Len(stack'[p]) = Len(stack[p]) + 1
      /\ \A d \in DOMAIN stack[p] : stack'[p][d] = stack[p][d]
      /\ stack'[p][Len(stack[p]) + 1] = f
  BY <1>1, <1>2
<1>4. DOMAIN stack'[p] = 1..(Len(stack[p]) + 1)
  BY <1>3
<1>5. 1..(Len(stack[p]) + 1) = 1..Len(stack[p]) \cup {Len(stack[p]) + 1}
  BY <1>1
<1> QED BY <1>1, <1>2, <1>3, <1>4, <1>5 DEF Top

\* Returning takes the innermost frame off.
LEMMA PopFacts ==
  ASSUME stack \in [Procs -> Seq(Frames)], NEW p \in Procs, stack[p] # <<>>,
         stack' = [stack EXCEPT ![p] = SubSeq(stack[p], 1, Len(stack[p]) - 1)]
  PROVE  /\ stack' \in [Procs -> Seq(Frames)]
         /\ \A q \in Procs : q # p => stack'[q] = stack[q]
         /\ Len(stack[p]) \in Nat \ {0}
         /\ Len(stack'[p]) = Len(stack[p]) - 1
         /\ Len(stack[p]) \notin DOMAIN stack'[p]
         /\ DOMAIN stack'[p] \subseteq DOMAIN stack[p]
         /\ \A d \in DOMAIN stack'[p] : stack'[p][d] = stack[p][d]
         /\ stack'[p] = <<>> <=> Len(stack[p]) = 1
<1>1. stack[p] \in Seq(Frames) /\ Len(stack[p]) \in Nat \ {0} /\ DOMAIN stack[p] = 1..Len(stack[p])
  OBVIOUS
<1>2. stack'[p] = SubSeq(stack[p], 1, Len(stack[p]) - 1) /\ \A q \in Procs : q # p => stack'[q] = stack[q]
  OBVIOUS
<1>3. /\ stack'[p] \in Seq(Frames) /\ Len(stack'[p]) = Len(stack[p]) - 1
      /\ \A d \in 1..(Len(stack[p]) - 1) : stack'[p][d] = stack[p][d]
  BY <1>1, <1>2, SubSeqProperties
<1>4. DOMAIN stack'[p] = 1..(Len(stack[p]) - 1)
  BY <1>3
<1>5. stack'[p] = <<>> <=> Len(stack[p]) = 1
  <2>1. Len(stack'[p]) = 0 <=> Len(stack[p]) = 1
    BY <1>1, <1>3
  <2>2. Len(<<>>) = 0 /\ \A s \in Seq(Frames) : s # <<>> => Len(s) # 0
    OBVIOUS
  <2> QED BY <2>1, <2>2, <1>3
<1> QED BY <1>1, <1>2, <1>3, <1>4, <1>5

\* Reads and operations that fail change nothing; the others give contents of
\* the right type.
LEMMA OpEffectFacts ==
  ASSUME NEW m \in EngineContents, NEW o \in Op
  PROVE  /\ OpEffect(m, o) \in EngineContents
         /\ o.op \in Reads => OpEffect(m, o) = m /\ OpOutcome(m, o) \in {"found", "notFound"}
         /\ OpOutcome(m, o) # "ok" => OpEffect(m, o) = m
         /\ OpOutcome(m, o) \in Outcomes
         /\ OpOutcome(m, o) = "found" => o.id \in DOMAIN m
<1>1. PICK D \in SUBSET Ids : m \in [D -> Values]
  BY DEF EngineContents
<1>2. OpOutcome(m, o) \in Outcomes
  BY DEF OpOutcome, Outcomes
<1>3. o.op \in Reads => OpOutcome(m, o) \in {"found", "notFound"}
  BY DEF OpOutcome, Reads
<1>4. OpOutcome(m, o) # "ok" => OpEffect(m, o) = m
  BY DEF OpEffect
<1>5. OpOutcome(m, o) = "found" => o.id \in DOMAIN m
  BY DEF OpOutcome
<1>6. OpEffect(m, o) \in EngineContents
  <2>1. CASE OpOutcome(m, o) # "ok"
    BY <1>4, <2>1
  <2>2. CASE OpOutcome(m, o) = "ok" /\ o.op = "delete"
    <3>1. OpEffect(m, o) \in [D \ {o.id} -> Values]
      BY <1>1, <2>2 DEF OpEffect, Restrict
    <3> QED BY <3>1 DEF EngineContents
  <2>3. CASE OpOutcome(m, o) = "ok" /\ o.op # "delete"
    <3>1. o.id \in Ids /\ o.value \in Values \cup {Invalid}
      BY DEF Op
    <3>2. o.value \in Values
      BY <2>3, <3>1 DEF OpOutcome, Reads
    <3>3. OpEffect(m, o) \in [D \cup {o.id} -> Values]
      BY <1>1, <2>3, <3>2 DEF OpEffect
    <3>4. D \cup {o.id} \in SUBSET Ids
      BY <3>1
    <3> QED BY <3>3, <3>4 DEF EngineContents
  <2> QED BY <2>1, <2>2, <2>3
<1> QED BY <1>2, <1>3, <1>4, <1>5, <1>6

\* The contents of every collection are well typed.
LEMMA ContentsType ==
  ASSUME TypeOK, OneEnginePerCollection
  PROVE  Contents \in Database
<1>1. \A c \in DOMAIN collections : collections[c] \in DOMAIN engines
  BY DEF OneEnginePerCollection, Range
<1>2. \A e \in DOMAIN engines : engines[e] \in EngineContents
  BY DEF TypeOK
<1>3. Empty \in EngineContents
  <2>1. Empty \in [{} -> Values]
    BY DEF Empty
  <2> QED BY <2>1 DEF EngineContents
<1> QED BY <1>1, <1>2, <1>3 DEF Contents, Database

\* What a db-level call brings: a read lock only for reads, and something to do.
GoodCall(c) ==
    /\ c \in DbCallType
    /\ c.mode = "R" => ReadsOnly(c.ops)
    /\ ~c.tx => c.ops # <<>>

\* Calls on the database are well formed: something to do, and only reads when shared.
LEMMA DbCallsGood ==
  /\ \A c \in DbCalls : GoodCall(c)
  /\ \A s \in NestedCalls : GoodCall(DbCall(s)) /\ ~DbCall(s).tx
<1>1. \A s \in SessionCalls : GoodCall(DbCall(s)) /\ ~DbCall(s).tx
  <2> TAKE s \in SessionCalls
  <2>1. s \in Call /\ s.ops # <<>> /\ (s.mode = "R" => ReadsOnly(s.ops))
    BY DBAssumption DEF ReadsOnly
  <2> QED BY <2>1 DEF GoodCall, DbCall, DbCallType, Call
<1>2. \A m \in TxModes : GoodCall(DbTx(m))
  BY DBAssumption DEF GoodCall, DbTx, DbCallType, ReadsOnly
<1> QED BY <1>1, <1>2, DBAssumption DEF DbCalls

\* Contents are what the engines and their registration say.
LEMMA ContentsUnchanged ==
  ASSUME UNCHANGED dbVars
  PROVE  Contents' = Contents
  BY DEF Contents, dbVars

\* An unlocked database without engines.
LEMMA InitIInv ==
  ASSUME Init
  PROVE  IInv
<1>1. TypeOK
  BY DBAssumption DEF Init, TypeOK, Labels, DbCallType, NoCall
<1>2. LockInv
  BY DBAssumption DEF Init, LockInv, LockInvOf, Holds, Writing
<1>3. Control
  BY DEF Init, Control, ControlOf, Running, Waiting
<1>4. EnginesInv
  BY DEF Init, EnginesInv, EnginesInvOf, OneEnginePerCollection, IsInjective, Range
<1>5. RunsAlone
  BY DEF Init, RunsAlone
<1>6. ReadsInv
  BY DEF Init, ReadsInv, ReadsInvOf, NoOut
<1> QED BY <1>1, <1>2, <1>3, <1>4, <1>5, <1>6 DEF IInv

\* A goroutine makes a db-level call.
LEMMA BeginPreserves ==
  ASSUME IInv, NEW p \in Procs, Begin(p)
  PROVE  IInv'
<1> USE DEF IInv, Begin, Invoke, lockVars, dbVars, opVars, Goto
<1>1. TypeOK'
  BY DbCallsGood DEF TypeOK, Labels, GoodCall, DbCallType
<1>2. LockInv'
  <2> SUFFICES ASSUME NEW q \in Procs PROVE LockInvOf(q)'
    BY DEF LockInv
  <2>1. LockInvOf(q) /\ LockInvOf(p) /\ stack[p] = <<>>
    BY DEF LockInv, Control, ControlOf
  <2> QED BY <2>1 DEF TypeOK, LockInvOf, Holds, Writing, NextHold
<1>3. Control'
  BY DbCallsGood DEF TypeOK, Control, ControlOf, Running, Waiting, Top, GoodCall, DbCallType
<1>4. EnginesInv'
  BY DEF TypeOK, EnginesInv, EnginesInvOf, OneEnginePerCollection
<1>5. RunsAlone'
  BY ContentsUnchanged DEF RunsAlone
<1>6. ReadsInv'
  BY DEF TypeOK, ReadsInv, ReadsInvOf, readRefused, Top
<1> QED BY <1>1, <1>2, <1>3, <1>4, <1>5, <1>6

\* Nobody has announced a write: the shared hold is registered.
LEMMA RLockPreserves ==
  ASSUME IInv, NEW p \in Procs, RLock(p)
  PROVE  IInv'
<1> USE DEF IInv, RLock, lockVars, dbVars, opVars, Goto
<1>1. TypeOK'
  BY DEF TypeOK, Labels, NextHold
<1>2. LockInv'
  <2> SUFFICES ASSUME NEW q \in Procs PROVE LockInvOf(q)'
    BY DEF LockInv
  <2>1. LockInvOf(q) /\ LockInvOf(p) /\ ControlOf(p)
    BY DEF LockInv, Control
  <2>2. ~Writing(q)
    BY <2>1, DBAssumption DEF LockInvOf
  <2> QED BY <2>1, <2>2 DEF TypeOK, LockInvOf, Holds, Writing, NextHold, ControlOf
<1>3. Control'
  BY DEF TypeOK, Control, ControlOf, Running, Waiting, Top
<1>4. EnginesInv'
  BY DEF TypeOK, EnginesInv, EnginesInvOf, OneEnginePerCollection
<1>5. RunsAlone'
  BY ContentsUnchanged DEF RunsAlone
<1>6. ReadsInv'
  BY DEF TypeOK, ReadsInv, ReadsInvOf, readRefused, Top
<1> QED BY <1>1, <1>2, <1>3, <1>4, <1>5, <1>6

\* A writer has announced itself: the reader goes to sleep.
LEMMA RLockBlockPreserves ==
  ASSUME IInv, NEW p \in Procs, RLockBlock(p)
  PROVE  IInv'
<1> USE DEF IInv, RLockBlock, lockVars, dbVars, opVars, Goto
<1>1. TypeOK'
  BY DEF TypeOK, Labels
<1>2. LockInv'
  <2> SUFFICES ASSUME NEW q \in Procs PROVE LockInvOf(q)'
    BY DEF LockInv
  <2>1. LockInvOf(q)
    BY DEF LockInv
  <2>2. /\ stack' = stack /\ call' = call /\ readers' = readers /\ announced' = announced
        /\ blocked' = blocked \cup {p} /\ pc'[q] = (IF q = p THEN "asleep" ELSE pc[q])
    BY DEF TypeOK
  <2> HIDE DEF IInv, RLockBlock
  <2> QED BY <2>1, <2>2 DEF LockInvOf, Holds, Writing, NextHold
<1>3. Control'
  BY DEF TypeOK, Control, ControlOf, Running, Waiting, Top
<1>4. EnginesInv'
  BY DEF TypeOK, EnginesInv, EnginesInvOf, OneEnginePerCollection
<1>5. RunsAlone'
  BY ContentsUnchanged DEF RunsAlone
<1>6. ReadsInv'
  BY DEF TypeOK, ReadsInv, ReadsInvOf, readRefused, Top
<1> QED BY <1>1, <1>2, <1>3, <1>4, <1>5, <1>6

\* A writer announces itself; nobody is writing then.
LEMMA LockAnnouncePreserves ==
  ASSUME IInv, NEW p \in Procs, LockAnnounce(p)
  PROVE  IInv'
<1> USE DEF IInv, LockAnnounce, lockVars, dbVars, opVars, Goto
<1>1. TypeOK'
  BY DEF TypeOK, Labels
<1>2. LockInv'
  <2> SUFFICES ASSUME NEW q \in Procs PROVE LockInvOf(q)'
    BY DEF LockInv
  <2>1. LockInvOf(q) /\ LockInvOf(p)
    BY DEF LockInv
  <2>2. ~Writing(q) /\ pc[q] # "drain"
    BY <2>1, DBAssumption DEF LockInvOf
  <2>3. \A d \in DOMAIN stack[q] : stack[q][d].mode = "R"
    <3>1. \A d \in DOMAIN stack[q] : stack[q][d] \in Frames
      BY DEF TypeOK
    <3> QED BY <2>2, <3>1 DEF Writing, Frames
  <2> QED BY <2>1, <2>2, <2>3 DEF TypeOK, LockInvOf, Holds, Writing, NextHold
<1>3. Control'
  BY DEF TypeOK, Control, ControlOf, Running, Waiting, Top
<1>4. EnginesInv'
  BY DEF TypeOK, EnginesInv, EnginesInvOf, OneEnginePerCollection
<1>5. RunsAlone'
  BY ContentsUnchanged DEF RunsAlone
<1>6. ReadsInv'
  BY DEF TypeOK, ReadsInv, ReadsInvOf, readRefused, Top
<1> QED BY <1>1, <1>2, <1>3, <1>4, <1>5, <1>6

\* The last reader has left: the writer gets the lock.
LEMMA LockAcquirePreserves ==
  ASSUME IInv, NEW p \in Procs, LockAcquire(p)
  PROVE  IInv'
<1> USE DEF IInv, LockAcquire, lockVars, dbVars, opVars, Goto
<1>1. TypeOK'
  BY DEF TypeOK, Labels
<1>2. LockInv'
  BY DEF TypeOK, LockInv, LockInvOf, Holds, Writing, NextHold, Hold, Control, ControlOf, Frames
<1>3. Control'
  BY DEF TypeOK, Control, ControlOf, Running, Waiting, Top
<1>4. EnginesInv'
  BY DEF TypeOK, EnginesInv, EnginesInvOf, OneEnginePerCollection
<1>5. RunsAlone'
  BY ContentsUnchanged DEF RunsAlone
<1>6. ReadsInv'
  BY DEF TypeOK, ReadsInv, ReadsInvOf, readRefused, Top
<1> QED BY <1>1, <1>2, <1>3, <1>4, <1>5, <1>6

\* The call owns the lock and starts, with the database as it is as its view.
LEMMA EnterPreserves ==
  ASSUME IInv, NEW p \in Procs, Enter(p)
  PROVE  IInv'
<1> DEFINE f == Frame(call[p])
<1> USE DEF IInv, lockVars, dbVars
<1>1. /\ pc[p] = "enter" /\ LockInvOf(p) /\ ControlOf(p)
      /\ call[p] \in DbCallType /\ Contents' = Contents
  BY ContentsUnchanged DEF Enter, LockInv, Control, TypeOK
<1>2. f \in Frames /\ f.mode = call[p].mode /\ f.tx = call[p].tx /\ f.view = Contents /\ f.begin = Contents
  <2>1. Contents \in Database
    BY ContentsType DEF EnginesInv
  <2> QED BY <1>1, <2>1, DBAssumption DEF Frame, Frames, DbCallType
<1>3. /\ stack' \in [Procs -> Seq(Frames)]
      /\ \A q \in Procs : q # p => stack'[q] = stack[q]
      /\ Len(stack'[p]) = Len(stack[p]) + 1
      /\ DOMAIN stack'[p] = DOMAIN stack[p] \cup {Len(stack[p]) + 1}
      /\ stack'[p] # <<>>
      /\ Top(p)' = f
      /\ stack'[p][Len(stack[p]) + 1] = f
      /\ \A d \in DOMAIN stack[p] : stack'[p][d] = stack[p][d]
  BY <1>2, PushFacts DEF Enter, TypeOK
<1>4. Len(stack[p]) \in Nat /\ DOMAIN stack[p] = 1..Len(stack[p]) /\ (stack[p] = <<>> <=> Len(stack[p]) = 0)
  BY DEF TypeOK
<1>5. TypeOK'
  <2>1. pc' \in [Procs -> Labels]
    BY DEF Enter, Goto, TypeOK, Labels
  <2>2. NoCall \in DbCallType
    BY DEF NoCall, DbCallType
  <2>3. call' \in [Procs -> DbCallType]
    BY <2>2 DEF Enter, TypeOK
  <2>4. todo' \in [Procs -> Seq(Op)] /\ goesOn' \in [Procs -> SUBSET Outcomes]
    BY <1>1 DEF Enter, TypeOK, DbCallType
  <2> QED BY <1>3, <2>1, <2>3, <2>4 DEF Enter, TypeOK
<1>6. LockInv'
  <2> SUFFICES ASSUME NEW q \in Procs PROVE LockInvOf(q)'
    BY DEF LockInv
  <2>1. CASE q # p
    <3>1. /\ pc'[q] = pc[q] /\ stack'[q] = stack[q] /\ call'[q] = call[q]
          /\ readers' = readers /\ announced' = announced /\ blocked' = blocked
      BY <1>3, <2>1 DEF Enter, Goto, TypeOK
    <3>2. LockInvOf(q)
      BY DEF LockInv
    <3> HIDE DEF IInv
    <3> QED BY <3>1, <3>2 DEF LockInvOf, Holds, Writing, NextHold
  <2>2. CASE q = p
    <3>1. Writing(p)' => Writing(p)
      BY <1>1, <1>2, <1>3 DEF Enter, Goto, TypeOK, Writing
    <3>2. Holds(p)'
      <4>1. pc'[p] # "enter" /\ readers' = readers
        BY DEF Enter, Goto, TypeOK
      <4>2. \A d \in DOMAIN stack[p] : stack'[p][d].mode = "R" => <<p, d>> \in readers
        BY <1>1, <1>3 DEF LockInvOf, Holds
      <4>3. f.mode = "R" => <<p, Len(stack[p]) + 1>> \in readers
        BY <1>1, <1>2 DEF LockInvOf, Holds, NextHold
      <4> QED BY <1>3, <4>1, <4>2, <4>3 DEF Holds
    <3>3. \A d \in DOMAIN stack'[p] : stack'[p][d].mode = "W" => Len(stack'[p]) = 1
      <4> SUFFICES ASSUME NEW d \in DOMAIN stack'[p], stack'[p][d].mode = "W"
                   PROVE  Len(stack[p]) = 0
        BY <1>3
      <4>1. readers = {}
        BY <1>1, <1>2, <1>3 DEF LockInvOf, Writing
      <4>2. call[p].mode = "W"
        BY <1>1, <4>1 DEF LockInvOf, Holds, DbCallType
      <4> QED BY <1>1, <4>2 DEF LockInvOf
    <3> QED BY <1>1, <2>2, <3>1, <3>2, <3>3 DEF Enter, Goto, TypeOK, LockInvOf
  <2> QED BY <2>1, <2>2
<1>7. Control'
  <2> SUFFICES ASSUME NEW q \in Procs PROVE ControlOf(q)'
    BY DEF Control
  <2>1. CASE q # p
    BY <1>3, <2>1 DEF Enter, Goto, TypeOK, Control, ControlOf, Top
  <2>2. CASE q = p
    <3>1. pc'[p] \in {"worker", "op"} /\ (pc'[p] = "worker" <=> call[p].tx) /\ todo'[p] = call[p].ops
      BY <1>1 DEF Enter, Goto, TypeOK, DbCallType
    <3>2. Len(stack'[p]) <= 2
      BY <1>1, <1>3, <1>4 DEF ControlOf, Waiting
    <3>3. Len(stack'[p]) = 2 => stack'[p][1].tx /\ ~stack'[p][2].tx
      <4> HAVE Len(stack'[p]) = 2
      <4>0. Len(stack[p]) = 1
        <5>1. Len(stack'[p]) = Len(stack[p]) + 1
          BY <1>3
        <5>2. Len(stack[p]) \in Nat
          BY <1>4
        <5> QED BY <5>1, <5>2, Depth, Zenon
      <4>1. stack'[p][1] = stack[p][1] /\ stack'[p][2] = f
        BY <1>3, <1>4, <4>0
      <4>2. stack[p][1].tx /\ ~call[p].tx
        BY <1>1, <1>4, <4>0 DEF ControlOf, Waiting, Top
      <4> QED BY <4>1, <4>2, <1>2
    <3> QED BY <1>1, <1>2, <1>3, <2>2, <3>1, <3>2, <3>3 DEF ControlOf, Waiting, Running
  <2> QED BY <2>1, <2>2
<1>8. EnginesInv'
  BY DEF Enter, Goto, TypeOK, EnginesInv, EnginesInvOf, OneEnginePerCollection
<1>9. RunsAlone'
  BY <1>1, <1>2, <1>3 DEF RunsAlone
<1>10. ReadsInv'
  <2> SUFFICES ASSUME NEW q \in Procs PROVE ReadsInvOf(q)'
    BY DEF ReadsInv, Enter
  <2>1. CASE q # p
    BY <1>3, <2>1 DEF Enter, Goto, TypeOK, ReadsInv, ReadsInvOf, readRefused, Top
  <2>2. CASE q = p
    <3>1. ReadsInvOf(p) /\ out' = out
      BY DEF ReadsInv, Enter
    <3>2. call[p].tx => out[p].op # "get"
      BY <1>1, <3>1 DEF ControlOf, Waiting, ReadsInvOf
    <3>3. pc'[p] \notin {"resolve", "create", "apply"}
      BY DEF Enter, Goto, TypeOK
    <3> QED BY <1>2, <1>3, <2>2, <3>1, <3>2, <3>3 DEF ReadsInvOf
  <2> QED BY <2>1, <2>2
<1> QED BY <1>5, <1>6, <1>7, <1>8, <1>9, <1>10

\* A reader returns and gives up its hold.
LEMMA RUnlockPreserves ==
  ASSUME IInv, NEW p \in Procs, RUnlock(p)
  PROVE  IInv'
<1> USE DEF IInv, dbVars
<1>1. /\ pc[p] = "release" /\ LockInvOf(p) /\ ControlOf(p) /\ stack[p] # <<>>
      /\ Contents' = Contents /\ Top(p).mode = "R"
  BY ContentsUnchanged DEF RUnlock, LockInv, Control, ControlOf
<1>2. /\ stack' \in [Procs -> Seq(Frames)]
      /\ \A q \in Procs : q # p => stack'[q] = stack[q]
      /\ Len(stack[p]) \in Nat \ {0}
      /\ Len(stack'[p]) = Len(stack[p]) - 1
      /\ Len(stack[p]) \notin DOMAIN stack'[p]
      /\ DOMAIN stack'[p] \subseteq DOMAIN stack[p]
      /\ \A d \in DOMAIN stack'[p] : stack'[p][d] = stack[p][d]
      /\ stack'[p] = <<>> <=> Len(stack[p]) = 1
  BY <1>1, PopFacts DEF RUnlock, PopFrame, TypeOK
<1>3. pc' = [pc EXCEPT ![p] = AfterRelease(p)] /\ pc'[p] \in {"idle", "worker"}
      /\ (pc'[p] = "idle" <=> Len(stack[p]) = 1)
  BY DEF RUnlock, Goto, AfterRelease, TypeOK
<1>4. TypeOK'
  BY <1>2, <1>3 DEF RUnlock, PopFrame, TypeOK, Labels
<1>5. LockInv'
  <2> SUFFICES ASSUME NEW q \in Procs PROVE LockInvOf(q)'
    BY DEF LockInv
  <2>0. LockInvOf(q) /\ ~Writing(p)' /\ readers' \subseteq readers
        /\ announced' = announced /\ blocked' = blocked /\ call' = call
    <3>1. LockInvOf(q)
      BY DEF LockInv
    <3>2. readers' \subseteq readers /\ announced' = announced /\ blocked' = blocked /\ call' = call
      BY DEF RUnlock
    <3>3. \A d \in DOMAIN stack[p] : stack[p][d].mode # "W"
      <4>1. Len(stack[p]) = 1 => DOMAIN stack[p] = {1}
        BY DEF TypeOK
      <4> HIDE DEF IInv
      <4> QED BY <1>1, <4>1 DEF LockInvOf, Top
    <3>4. ~Writing(p)'
      <4> HIDE DEF IInv
      <4> QED BY <1>2, <1>3, <3>3 DEF Writing
    <3> QED BY <3>1, <3>2, <3>4
  <2>1. CASE q # p
    BY <1>2, <1>3, <2>0, <2>1 DEF RUnlock, TypeOK, LockInvOf, Holds, Writing, NextHold, Hold
  <2>2. CASE q = p
    BY <1>1, <1>2, <1>3, <2>0, <2>2 DEF RUnlock, TypeOK, LockInvOf, Holds, Writing, Hold
  <2> QED BY <2>1, <2>2
<1>6. Control'
  <2> SUFFICES ASSUME NEW q \in Procs PROVE ControlOf(q)'
    BY DEF Control
  <2>1. CASE q # p
    <3>1. pc'[q] = pc[q] /\ stack'[q] = stack[q] /\ call'[q] = call[q] /\ todo'[q] = todo[q]
      BY <1>2, <1>3, <2>1 DEF RUnlock, TypeOK
    <3>2. ControlOf(q)
      BY DEF Control
    <3> HIDE DEF IInv
    <3> QED BY <3>1, <3>2 DEF ControlOf, Top
  <2>2. CASE q = p
    <3>1. CASE Len(stack[p]) = 1
      BY <1>1, <1>2, <1>3, <2>2, <3>1 DEF ControlOf, Waiting, Running
    <3>2. CASE Len(stack[p]) # 1
      <4>0. Len(stack[p]) <= 2 /\ (Len(stack[p]) = 2 => stack[p][1].tx)
        BY <1>1 DEF ControlOf
      <4>1. Len(stack[p]) = 2 /\ Len(stack'[p]) = 1
        <5>1. Len(stack'[p]) = Len(stack[p]) - 1
          BY <1>2
        <5>2. Len(stack[p]) \in Nat /\ Len(stack[p]) # 0
          BY <1>2
        <5>3. Len(stack[p]) = 2
          BY <3>2, <4>0, <5>2, Depth, Zenon
        <5> QED BY <5>1, <5>3
      <4>2. 1 \in DOMAIN stack'[p]
        BY <4>1, <1>2
      <4>3. stack'[p][1] = stack[p][1] /\ Top(p)'.tx
        BY <4>0, <4>1, <4>2, <1>2 DEF Top
      <4>4. pc'[p] = "worker" /\ stack'[p] # <<>> /\ Len(stack'[p]) # 2 /\ Len(stack'[p]) <= 2
        BY <1>2, <1>3, <3>2, <4>1
      <4> QED BY <2>2, <4>3, <4>4 DEF ControlOf, Waiting, Running
    <3> QED BY <3>1, <3>2
  <2> QED BY <2>1, <2>2
<1>7. EnginesInv'
  BY <1>3 DEF RUnlock, TypeOK, EnginesInv, EnginesInvOf, OneEnginePerCollection
<1>8. RunsAlone'
  BY <1>1, <1>2 DEF RunsAlone
<1>9. ReadsInv'
  <2>0. /\ DOMAIN out' = Procs /\ out'[p].op # "get" /\ (\A q \in Procs : q # p => out'[q] = out[q])
        /\ todo' = todo /\ noReadsAfterWrites' = noReadsAfterWrites
    BY DEF RUnlock, PopFrame, NoOut, ReadsInv
  <2> SUFFICES ASSUME NEW q \in Procs PROVE ReadsInvOf(q)'
    BY <2>0 DEF ReadsInv
  <2>1. CASE q # p
    <3>1. pc'[q] = pc[q] /\ stack'[q] = stack[q] /\ out'[q] = out[q] /\ todo'[q] = todo[q]
      BY <1>2, <1>3, <2>0, <2>1 DEF TypeOK
    <3>2. ReadsInvOf(q)
      BY DEF ReadsInv
    <3> HIDE DEF IInv
    <3> QED BY <2>0, <3>1, <3>2 DEF ReadsInvOf, readRefused, Top
  <2>2. CASE q = p
    BY <1>2, <1>3, <2>0, <2>2 DEF TypeOK, ReadsInv, ReadsInvOf
  <2> QED BY <2>1, <2>2
<1> QED BY <1>4, <1>5, <1>6, <1>7, <1>8, <1>9

\* The writer returns: nobody else was inside, and every sleeping reader gets its
\* hold at once.
LEMMA UnlockPreserves ==
  ASSUME IInv, NEW p \in Procs, Unlock(p)
  PROVE  IInv'
<1> USE DEF IInv, dbVars
<1>1. /\ pc[p] = "release" /\ LockInvOf(p) /\ ControlOf(p) /\ stack[p] # <<>>
      /\ Contents' = Contents /\ Top(p).mode = "W"
  BY ContentsUnchanged DEF Unlock, LockInv, Control, ControlOf
<1>2. /\ stack' \in [Procs -> Seq(Frames)]
      /\ \A q \in Procs : q # p => stack'[q] = stack[q]
      /\ Len(stack[p]) \in DOMAIN stack[p]
      /\ stack'[p] = <<>> <=> Len(stack[p]) = 1
  <2>1. stack \in [Procs -> Seq(Frames)] /\ stack[p] # <<>>
    BY <1>1 DEF TypeOK
  <2>2. stack' = [stack EXCEPT ![p] = SubSeq(stack[p], 1, Len(stack[p]) - 1)]
    BY DEF Unlock, PopFrame
  <2>3. Len(stack[p]) \in DOMAIN stack[p]
    BY <2>1
  <2> QED BY <2>1, <2>2, <2>3, PopFacts
<1>3. Writing(p) /\ Len(stack[p]) = 1 /\ announced = p /\ readers = {} /\ stack'[p] = <<>>
  BY <1>1, <1>2 DEF LockInvOf, Writing, Top
<1>4. /\ pc' \in [Procs -> Labels] /\ pc'[p] = "idle"
      /\ \A q \in Procs : q # p => pc'[q] = IF q \in blocked THEN "enter" ELSE pc[q]
      /\ \A q \in blocked : pc[q] = "asleep"
  <2>1. p \notin blocked /\ AfterRelease(p) = "idle" /\ \A q \in blocked : pc[q] = "asleep"
    BY <1>1, <1>3 DEF LockInv, LockInvOf, AfterRelease, TypeOK
  <2> QED BY <2>1 DEF Unlock, TypeOK, Labels
<1>5. \A q \in Procs : q # p => ~Writing(q) /\ pc[q] # "drain"
  BY <1>3 DEF LockInv, LockInvOf
<1>6. /\ readers' = {NextHold(q) : q \in blocked} /\ announced' = NoProc /\ blocked' = {}
      /\ call' = call /\ todo' = todo /\ noReadsAfterWrites' = noReadsAfterWrites
  BY <1>3 DEF Unlock
<1>7. TypeOK'
  <2>1. readers' \subseteq Procs \X Nat
    BY <1>6 DEF TypeOK, NextHold
  <2> QED BY <1>2, <1>4, <1>6, <2>1 DEF Unlock, TypeOK
<1>8. LockInv'
  <2> SUFFICES ASSUME NEW q \in Procs PROVE LockInvOf(q)'
    BY DEF LockInv
  <2>1. CASE q = p
    BY <1>3, <1>4, <1>6, <2>1 DEF LockInvOf, Holds, Writing
  <2>2. CASE q # p
    <3>1. LockInvOf(q) /\ ControlOf(q) /\ stack'[q] = stack[q] /\ ~Writing(q) /\ pc[q] # "drain"
      BY <1>2, <1>5, <2>2 DEF LockInv, Control
    <3>2. q \in blocked => pc'[q] = "enter" /\ call[q].mode = "R" /\ NextHold(q)' \in readers'
      BY <1>4, <1>6, <2>2, <3>1 DEF ControlOf, NextHold
    <3>3. q \notin blocked => pc'[q] = pc[q]
      BY <1>4, <2>2
    <3>4. \A d \in DOMAIN stack[q] : stack[q][d].mode = "R" => FALSE
      BY <1>3, <3>1 DEF LockInvOf, Holds
    <3>5. ~(pc[q] = "enter" /\ call[q].mode = "R")
      BY <1>3, <3>1 DEF LockInvOf, Holds
    <3>6. Holds(q)' /\ ~Writing(q)' /\ pc'[q] # "drain"
      <4>1. ~Writing(q)'
        BY <1>6, <3>1, <3>2, <3>3 DEF Writing
      <4>2. pc'[q] # "drain"
        BY <3>1, <3>2, <3>3
      <4>3. pc'[q] = "enter" /\ call'[q].mode = "R" => NextHold(q)' \in readers'
        BY <1>6, <3>2, <3>3, <3>5
      <4> QED BY <3>1, <3>4, <4>1, <4>2, <4>3 DEF Holds
    <3> QED BY <1>6, <3>1, <3>6 DEF LockInvOf, Writing
  <2> QED BY <2>1, <2>2
<1>9. Control'
  <2> SUFFICES ASSUME NEW q \in Procs PROVE ControlOf(q)'
    BY DEF Control
  <2>1. CASE q = p
    BY <1>3, <1>4, <2>1 DEF ControlOf, Waiting, Running
  <2>2. CASE q # p
    BY <1>2, <1>4, <1>6, <2>2 DEF Control, ControlOf, Waiting, Running, Top
  <2> QED BY <2>1, <2>2
<1>10. EnginesInv'
  <2>1. UNCHANGED <<enginesMu, collections, engines, eng, todo>>
    BY DEF Unlock
  <2> QED BY <1>4, <2>1 DEF EnginesInv, EnginesInvOf, OneEnginePerCollection
<1>11. RunsAlone'
  BY <1>1, <1>2, <1>3 DEF RunsAlone
<1>12. ReadsInv'
  <2>0. DOMAIN out' = Procs /\ out'[p].op # "get" /\ (\A q \in Procs : q # p => out'[q] = out[q])
    BY DEF Unlock, PopFrame, NoOut, ReadsInv
  <2> SUFFICES ASSUME NEW q \in Procs PROVE ReadsInvOf(q)'
    BY <2>0 DEF ReadsInv
  <2>1. CASE q # p
    BY <1>2, <1>4, <1>6, <2>0, <2>1 DEF ReadsInv, ReadsInvOf, readRefused, Top
  <2>2. CASE q = p
    BY <1>3, <1>4, <2>0, <2>2 DEF ReadsInvOf
  <2> QED BY <2>1, <2>2
<1> QED BY <1>7, <1>8, <1>9, <1>10, <1>11, <1>12

-----------------------------------------------------------------------------
\* Steps of a worker and of its operations change the innermost frame of one
\* goroutine, and neither its mode nor the lock.
SameTop(p, f) ==
    /\ f \in Frames
    /\ f.mode = Top(p).mode /\ f.tx = Top(p).tx /\ f.begin = Top(p).begin

\* Steps of a running call that leave the lock and the modes of its stack alone keep
\* what the lock guarantees.
LEMMA LockInvKept ==
  ASSUME IInv, NEW p \in Procs, stack[p] # <<>>, UNCHANGED <<announced, readers, blocked>>,
         NEW f, SameTop(p, f), SetTop(p, f) \/ UNCHANGED stack,
         pc[p] \notin Waiting, pc' \in [Procs -> Labels], pc'[p] \notin Waiting \ {"rlock", "lock"},
         \A q \in Procs : q # p => pc'[q] = pc[q] /\ call'[q] = call[q]
  PROVE  LockInv'
<1> SUFFICES ASSUME NEW q \in Procs PROVE LockInvOf(q)'
  BY DEF LockInv
<1>1. LockInvOf(q)
  BY DEF IInv, LockInv
<1>2. /\ DOMAIN stack'[q] = DOMAIN stack[q] /\ Len(stack'[q]) = Len(stack[q])
      /\ \A d \in DOMAIN stack[q] : stack'[q][d].mode = stack[q][d].mode
      /\ stack[q] = <<>> => stack'[q] = <<>>
  <2>1. CASE UNCHANGED stack
    BY <2>1
  <2>2. CASE SetTop(p, f) /\ q # p
    BY <2>2, SetTopFacts DEF IInv, TypeOK, SameTop
  <2>3. CASE SetTop(p, f) /\ q = p
    BY <2>3, SetTopFacts DEF IInv, TypeOK, SameTop, Top
  <2> QED BY <2>1, <2>2, <2>3
<1>3. CASE q # p
  BY <1>1, <1>2, <1>3 DEF LockInvOf, Holds, Writing, NextHold
<1>4. CASE q = p
  BY <1>1, <1>2, <1>4 DEF LockInvOf, Holds, Writing, NextHold, Waiting
<1> QED BY <1>3, <1>4

\* A step that changes neither the database nor what its own call has seen keeps
\* every call running alone.
LEMMA ViewsKept ==
  ASSUME IInv, NEW p \in Procs, stack[p] # <<>>, UNCHANGED dbVars,
         UNCHANGED <<noReadsAfterWrites, out>>, NEW f, SameTop(p, f),
         f.view = Top(p).view, f.hasWritten = Top(p).hasWritten, SetTop(p, f),
         pc' \in [Procs -> Labels], pc'[p] \notin {"resolve", "create", "apply"},
         \A q \in Procs : q # p => pc'[q] = pc[q] /\ todo'[q] = todo[q]
  PROVE  RunsAlone' /\ ReadsInv'
<1>1. /\ \A q \in Procs : q # p => stack'[q] = stack[q]
      /\ DOMAIN stack'[p] = DOMAIN stack[p]
      /\ stack'[p] # <<>>
      /\ Top(p)' = f
      /\ \A d \in DOMAIN stack[p] :
            stack'[p][d] = IF d = Len(stack[p]) THEN f ELSE stack[p][d]
  BY SetTopFacts DEF IInv, TypeOK, SameTop
<1>2. \A d \in DOMAIN stack[p] :
         /\ stack'[p][d].mode = stack[p][d].mode
         /\ stack'[p][d].tx = stack[p][d].tx
         /\ stack'[p][d].view = stack[p][d].view
         /\ stack'[p][d].begin = stack[p][d].begin
         /\ stack'[p][d].hasWritten = stack[p][d].hasWritten
  BY <1>1 DEF SameTop, Top
<1>3. RunsAlone'
  BY <1>1, <1>2, ContentsUnchanged DEF IInv, RunsAlone
<1>4. ReadsInv'
  <2> SUFFICES ASSUME NEW q \in Procs PROVE ReadsInvOf(q)'
    BY DEF IInv, ReadsInv
  <2>1. ReadsInvOf(q)
    BY DEF IInv, ReadsInv
  <2>2. CASE q # p
    BY <1>1, <2>1, <2>2 DEF ReadsInvOf, readRefused, Top
  <2>3. CASE q = p
    BY <1>1, <1>2, <2>1, <2>3 DEF ReadsInvOf, SameTop
  <2> QED BY <2>2, <2>3
<1> QED BY <1>3, <1>4

\* Changing a field of the innermost frame that the worker keeps for itself.
LEMMA CountedTop ==
  ASSUME IInv, NEW p \in Procs, stack[p] # <<>>
  PROVE  /\ Top(p) \in Frames
         /\ Top(p).calls < MaxCalls => SameTop(p, [Top(p) EXCEPT !.calls = @ + 1])
         /\ \A err \in BOOLEAN : SameTop(p, [Top(p) EXCEPT !.failed = err])
<1>1. Top(p) \in Frames
  BY DEF IInv, TypeOK, Top
<1>2. Top(p).calls < MaxCalls => [Top(p) EXCEPT !.calls = @ + 1] \in Frames
  BY <1>1, DBAssumption DEF Frames
<1>3. \A err \in BOOLEAN : [Top(p) EXCEPT !.failed = err] \in Frames
  BY <1>1 DEF Frames
<1> QED BY <1>1, <1>2, <1>3 DEF SameTop, Frames

\* The worker makes a session call, reads only in a read-only transaction.
LEMMA WorkerCallPreserves ==
  ASSUME IInv, NEW p \in Procs, WorkerCall(p)
  PROVE  IInv'
<1> DEFINE f == [Top(p) EXCEPT !.calls = @ + 1]
<1> USE DEF IInv, lockVars, dbVars
<1>1. /\ pc[p] = "worker" /\ ControlOf(p) /\ stack[p] # <<>> /\ Top(p).tx
      /\ SetTop(p, f) /\ Top(p).calls < MaxCalls
  BY DEF WorkerCall, Control, ControlOf
<1>2. SameTop(p, f) /\ Top(p) \in Frames /\ f.view = Top(p).view /\ f.hasWritten = Top(p).hasWritten
  BY <1>1, CountedTop DEF Frames
<1>3. /\ stack' \in [Procs -> Seq(Frames)]
      /\ \A q \in Procs : q # p => stack'[q] = stack[q]
      /\ Len(stack'[p]) = Len(stack[p])
      /\ DOMAIN stack'[p] = DOMAIN stack[p]
      /\ stack'[p] # <<>>
      /\ Top(p)' = f
      /\ \A d \in DOMAIN stack[p] :
            stack'[p][d] = IF d = Len(stack[p]) THEN f ELSE stack[p][d]
  BY <1>1, <1>2, SetTopFacts DEF TypeOK, SameTop
<1>4. pc' \in [Procs -> Labels] /\ pc'[p] = "op" /\ \A q \in Procs : q # p => pc'[q] = pc[q]
  BY DEF WorkerCall, Goto, TypeOK, Labels
<1>5. PICK c \in SessionCalls :
         /\ Top(p).mode = "R" => c.mode = "R"
         /\ todo' = [todo EXCEPT ![p] = c.ops]
         /\ goesOn' = [goesOn EXCEPT ![p] = c.goesOn]
  BY DEF WorkerCall
<1>6. c \in Call /\ c.ops # <<>> /\ (c.mode = "R" => ReadsOnly(c.ops))
  BY DBAssumption DEF ReadsOnly
<1>7. TypeOK'
  BY <1>3, <1>4, <1>5, <1>6 DEF WorkerCall, TypeOK, Call
<1>8. LockInv'
  BY <1>1, <1>2, <1>4, LockInvKept DEF WorkerCall, Waiting
<1>9. Control'
  <2> SUFFICES ASSUME NEW q \in Procs PROVE ControlOf(q)'
    BY DEF Control
  <2>1. CASE q # p
    <3>1. ControlOf(q) /\ call' = call /\ todo'[q] = todo[q] /\ stack'[q] = stack[q] /\ pc'[q] = pc[q]
      BY <1>3, <1>4, <1>5, <2>1 DEF WorkerCall, TypeOK, Control
    <3> QED BY <3>1 DEF ControlOf, Top
  <2>2. CASE q = p
    <3>1. todo'[p] = c.ops
      BY <1>5 DEF TypeOK
    <3>2. Len(stack'[p]) = 2 => stack'[p][1].tx /\ ~stack'[p][2].tx
      <4>1. Len(stack'[p]) # 2
        BY <1>1, <1>3 DEF ControlOf, Top
      <4> QED BY <4>1
    <3>3. todo'[p] # <<>> /\ (Top(p)'.mode = "R" => ReadsOnly(todo'[p]))
      BY <1>2, <1>3, <1>5, <1>6, <3>1 DEF SameTop
    <3>4. Len(stack'[p]) <= 2
      BY <1>1, <1>3 DEF ControlOf
    <3> QED BY <1>3, <1>4, <2>2, <3>2, <3>3, <3>4 DEF ControlOf, Running, Waiting
  <2> QED BY <2>1, <2>2
<1>10. EnginesInv'
  BY <1>4, <1>5 DEF WorkerCall, TypeOK, EnginesInv, EnginesInvOf, OneEnginePerCollection
<1>11. RunsAlone' /\ ReadsInv'
  <2>1. UNCHANGED dbVars /\ UNCHANGED <<noReadsAfterWrites, out>>
    BY DEF WorkerCall
  <2>2. \A q \in Procs : q # p => pc'[q] = pc[q] /\ todo'[q] = todo[q]
    BY <1>4, <1>5 DEF TypeOK
  <2> HIDE DEF f, IInv
  <2> QED BY <1>1, <1>2, <1>4, <2>1, <2>2, ViewsKept
<1> QED BY <1>7, <1>8, <1>9, <1>10, <1>11

\* The worker returns, with an error or without.
LEMMA WorkerReturnPreserves ==
  ASSUME IInv, NEW p \in Procs, WorkerReturn(p)
  PROVE  IInv'
<1> USE DEF IInv, lockVars, dbVars, opVars
<1>0. PICK err \in BOOLEAN : SetTop(p, [Top(p) EXCEPT !.failed = err])
  BY DEF WorkerReturn
<1> DEFINE f == [Top(p) EXCEPT !.failed = err]
<1>1. pc[p] = "worker" /\ ControlOf(p) /\ stack[p] # <<>> /\ Top(p).tx
  BY DEF WorkerReturn, Control, ControlOf
<1>2. SameTop(p, f) /\ Top(p) \in Frames /\ f.view = Top(p).view /\ f.hasWritten = Top(p).hasWritten
  BY <1>1, CountedTop DEF Frames
<1>3. /\ stack' \in [Procs -> Seq(Frames)]
      /\ \A q \in Procs : q # p => stack'[q] = stack[q]
      /\ Len(stack'[p]) = Len(stack[p])
      /\ stack'[p] # <<>>
  BY <1>0, <1>1, <1>2, SetTopFacts DEF TypeOK, SameTop
<1>4. pc' \in [Procs -> Labels] /\ pc'[p] = "release" /\ \A q \in Procs : q # p => pc'[q] = pc[q]
  BY DEF WorkerReturn, Goto, TypeOK, Labels
<1>5. TypeOK'
  BY <1>3, <1>4 DEF WorkerReturn, TypeOK
<1>6. LockInv'
  BY <1>0, <1>1, <1>2, <1>4, LockInvKept DEF WorkerReturn, Waiting
<1>7. Control'
  <2> SUFFICES ASSUME NEW q \in Procs PROVE ControlOf(q)'
    BY DEF Control
  <2>1. CASE q # p
    BY <1>3, <1>4, <2>1 DEF WorkerReturn, Control, ControlOf, Top
  <2>2. CASE q = p
    <3>1. Len(stack'[p]) = 2 => stack'[p][1].tx /\ ~stack'[p][2].tx
      <4>1. Len(stack'[p]) # 2
        BY <1>1, <1>3 DEF ControlOf, Top
      <4> QED BY <4>1
    <3> QED BY <1>1, <1>3, <1>4, <2>2, <3>1 DEF ControlOf, Running, Waiting
  <2> QED BY <2>1, <2>2
<1>8. EnginesInv'
  BY <1>4 DEF WorkerReturn, TypeOK, EnginesInv, EnginesInvOf, OneEnginePerCollection
<1>9. RunsAlone' /\ ReadsInv'
  BY <1>0, <1>1, <1>2, <1>4, ViewsKept DEF WorkerReturn
<1> QED BY <1>5, <1>6, <1>7, <1>8, <1>9

\* The worker calls the database itself, from inside its transaction.
LEMMA WorkerNestsPreserves ==
  ASSUME IInv, NEW p \in Procs, WorkerNests(p)
  PROVE  IInv'
<1> DEFINE f == [Top(p) EXCEPT !.calls = @ + 1]
<1> USE DEF IInv, lockVars, dbVars, opVars
<1>0. PICK s \in NestedCalls : Invoke(p, DbCall(s))
  BY DEF WorkerNests
<1> DEFINE c == DbCall(s)
<1>1. /\ pc[p] = "worker" /\ ControlOf(p) /\ stack[p] # <<>> /\ Top(p).tx
      /\ SetTop(p, f) /\ Top(p).calls < MaxCalls /\ Len(stack[p]) = 1
  BY DEF WorkerNests, Control, ControlOf
<1>2. SameTop(p, f) /\ Top(p) \in Frames /\ f.view = Top(p).view /\ f.hasWritten = Top(p).hasWritten
  BY <1>1, CountedTop DEF Frames
<1>3. /\ stack' \in [Procs -> Seq(Frames)]
      /\ \A q \in Procs : q # p => stack'[q] = stack[q]
      /\ Len(stack'[p]) = Len(stack[p])
      /\ stack'[p] # <<>>
      /\ Top(p)' = f
  BY <1>1, <1>2, SetTopFacts DEF TypeOK, SameTop
<1>4. GoodCall(c) /\ ~c.tx
  BY DbCallsGood
<1>5. /\ pc' \in [Procs -> Labels] /\ \A q \in Procs : q # p => pc'[q] = pc[q] /\ call'[q] = call[q]
      /\ pc'[p] = (IF c.mode = "R" THEN "rlock" ELSE "lock") /\ call'[p] = c
      /\ call' \in [Procs -> DbCallType]
      /\ UNCHANGED <<noReadsAfterWrites, lockVars, enginesMu, dbVars, opVars>>
  BY <1>0, <1>4 DEF Invoke, Goto, TypeOK, Labels, GoodCall
<1>6. TypeOK'
  BY <1>3, <1>5 DEF TypeOK
<1>7. LockInv'
  BY <1>1, <1>2, <1>5, LockInvKept DEF Waiting
<1>8. Control'
  <2> SUFFICES ASSUME NEW q \in Procs PROVE ControlOf(q)'
    BY DEF Control
  <2>1. CASE q # p
    <3>1. ControlOf(q) /\ call'[q] = call[q] /\ todo'[q] = todo[q] /\ stack'[q] = stack[q] /\ pc'[q] = pc[q]
      BY <1>3, <1>5, <2>1 DEF Control
    <3> QED BY <3>1 DEF ControlOf, Top
  <2>2. CASE q = p
    <3>1. Len(stack'[p]) = 1 /\ Len(stack'[p]) # 2 /\ Len(stack'[p]) <= 2 /\ Top(p)'.tx
      BY <1>1, <1>2, <1>3 DEF SameTop
    <3>2. c.mode \in {"R", "W"}
      BY <1>4 DEF GoodCall, DbCallType
    <3> QED BY <1>3, <1>4, <1>5, <2>2, <3>1, <3>2 DEF ControlOf, Running, Waiting, GoodCall
  <2> QED BY <2>1, <2>2
<1>9. EnginesInv'
  BY <1>5 DEF TypeOK, EnginesInv, EnginesInvOf, OneEnginePerCollection
<1>10. RunsAlone' /\ ReadsInv'
  BY <1>1, <1>2, <1>5, ViewsKept
<1> QED BY <1>6, <1>7, <1>8, <1>9, <1>10

-----------------------------------------------------------------------------
(***************************************************************************)
(* Session operations.                                                     *)
(***************************************************************************)

\* An operation of a running session call is well typed.
LEMMA HeadType ==
  ASSUME IInv, NEW p \in Procs, pc[p] \in Running
  PROVE  /\ Head(todo[p]) \in Op
         /\ ControlOf(p) /\ stack[p] # <<>> /\ Top(p) \in Frames
         /\ Top(p).mode = "R" => Head(todo[p]).op \in Reads
<1>1. ControlOf(p) /\ todo[p] \in Seq(Op) /\ todo[p] # <<>> /\ stack[p] # <<>> /\ stack[p] \in Seq(Frames)
  BY DEF IInv, TypeOK, Control, ControlOf, Running
<1>2. Head(todo[p]) = todo[p][1] /\ 1 \in DOMAIN todo[p] /\ Top(p) \in Frames
  BY <1>1 DEF Top
<1> QED BY <1>1, <1>2 DEF ControlOf, ReadsOnly

\* An operation ends: the session call goes on, or returns to whoever made it.
LEMMA FinishFacts ==
  ASSUME IInv, NEW p \in Procs, pc[p] \in Running, NEW res \in Outcomes, NEW value,
         Finish(p, res, value)
  PROVE  /\ pc' \in [Procs -> Labels]
         /\ pc'[p] \in {"op", "worker", "release"}
         /\ pc'[p] = "worker" => Top(p).tx
         /\ todo' \in [Procs -> Seq(Op)]
         /\ pc'[p] = "op" => todo'[p] # <<>> /\ (ReadsOnly(todo[p]) => ReadsOnly(todo'[p]))
         /\ goesOn' \in [Procs -> SUBSET Outcomes]
         /\ eng' \in [Procs -> Nat]
         /\ DOMAIN out' = Procs
         /\ out'[p] = [res |-> res, op |-> Head(todo[p]).op, coll |-> Head(todo[p]).coll,
                       id |-> Head(todo[p]).id, value |-> value]
         /\ \A q \in Procs : q # p => /\ pc'[q] = pc[q] /\ todo'[q] = todo[q]
                                      /\ eng'[q] = eng[q] /\ out'[q] = out[q]
<1> DEFINE more == res \in goesOn[p] /\ Len(todo[p]) > 1
<1>1. todo[p] \in Seq(Op) /\ todo[p] # <<>>
  BY HeadType DEF IInv, TypeOK, Control, ControlOf
<1>2. more => Tail(todo[p]) \in Seq(Op) /\ Tail(todo[p]) # <<>>
              /\ \A n \in DOMAIN Tail(todo[p]) : n + 1 \in DOMAIN todo[p] /\ Tail(todo[p])[n] = todo[p][n + 1]
  <2> HAVE more
  <2> DEFINE t == Tail(todo[p])
  <2>1. /\ t \in Seq(Op) /\ Len(t) = Len(todo[p]) - 1
        /\ \A n \in 1..Len(t) : t[n] = todo[p][n + 1]
    BY <1>1, HeadTailProperties
  <2>2. Len(todo[p]) \in Nat /\ Len(todo[p]) > 1 /\ DOMAIN todo[p] = 1..Len(todo[p]) /\ DOMAIN t = 1..Len(t)
    BY <1>1, <2>1
  <2>3. Len(t) # 0 /\ \A n \in 1..Len(t) : n + 1 \in 1..Len(todo[p])
    <3>1. Len(t) \in Nat
      BY <2>1
    <3> QED BY <2>1, <2>2, <3>1, Rest, Zenon
  <2>4. t # <<>>
    <3> HIDE DEF t
    <3> QED BY <2>1, <2>3, EmptySeq
  <2> QED BY <2>1, <2>2, <2>3, <2>4
<1>3. /\ pc' = [pc EXCEPT ![p] = IF more THEN "op" ELSE IF Top(p).tx THEN "worker" ELSE "release"]
      /\ todo' = [todo EXCEPT ![p] = IF more THEN Tail(@) ELSE <<>>]
      /\ goesOn' = [goesOn EXCEPT ![p] = IF more THEN @ ELSE {}]
      /\ eng' = [eng EXCEPT ![p] = 0]
      /\ out' = [out EXCEPT ![p] = [res |-> res, op |-> Head(todo[p]).op, coll |-> Head(todo[p]).coll,
                                    id |-> Head(todo[p]).id, value |-> value]]
  BY DEF Finish, Goto
<1>4. /\ pc' \in [Procs -> Labels] /\ pc'[p] \in {"op", "worker", "release"}
      /\ pc'[p] = "worker" => Top(p).tx
      /\ pc'[p] = "op" => more
  BY <1>3 DEF IInv, TypeOK, Labels
<1>5. todo' \in [Procs -> Seq(Op)]
  BY <1>2, <1>3 DEF IInv, TypeOK
<1>6. pc'[p] = "op" => todo'[p] # <<>> /\ (ReadsOnly(todo[p]) => ReadsOnly(todo'[p]))
  BY <1>2, <1>3, <1>4 DEF IInv, TypeOK, ReadsOnly
<1>7. goesOn' \in [Procs -> SUBSET Outcomes] /\ eng' \in [Procs -> Nat]
  BY <1>3 DEF IInv, TypeOK
<1>8. /\ DOMAIN out' = Procs
      /\ out'[p] = [res |-> res, op |-> Head(todo[p]).op, coll |-> Head(todo[p]).coll,
                    id |-> Head(todo[p]).id, value |-> value]
      /\ \A q \in Procs : q # p => out'[q] = out[q]
  BY <1>3 DEF IInv, ReadsInv
<1>9. \A q \in Procs : q # p => pc'[q] = pc[q] /\ todo'[q] = todo[q] /\ eng'[q] = eng[q]
  BY <1>3 DEF IInv, TypeOK
<1> QED BY <1>4, <1>5, <1>6, <1>7, <1>8, <1>9

\* What an operation leaves of the control state when it ends.
LEMMA FinishControl ==
  ASSUME IInv, NEW p \in Procs, pc[p] \in Running, NEW res \in Outcomes, NEW value,
         Finish(p, res, value), UNCHANGED call,
         NEW f, SameTop(p, f), SetTop(p, f) \/ (UNCHANGED stack /\ f = Top(p))
  PROVE  Control'
<1> SUFFICES ASSUME NEW q \in Procs PROVE ControlOf(q)'
  BY DEF Control
<1>1. ControlOf(q) /\ ControlOf(p) /\ stack[p] # <<>>
  BY HeadType DEF IInv, Control
<1>2. /\ stack'[p] # <<>> /\ Top(p)' = f /\ Len(stack'[p]) = Len(stack[p])
      /\ (q # p => stack'[q] = stack[q])
      /\ \A d \in DOMAIN stack[p] : stack'[p][d] = IF d = Len(stack[p]) THEN f ELSE stack[p][d]
  <2>1. CASE SetTop(p, f)
    BY <1>1, <2>1, SetTopFacts DEF IInv, TypeOK, SameTop
  <2>2. CASE UNCHANGED stack /\ f = Top(p)
    BY <1>1, <2>2 DEF Top
  <2> QED BY <2>1, <2>2
<1>3. CASE q # p
  <2>1. call'[q] = call[q] /\ todo'[q] = todo[q] /\ stack'[q] = stack[q] /\ pc'[q] = pc[q]
    BY <1>2, <1>3, FinishFacts
  <2> QED BY <1>1, <2>1 DEF ControlOf, Top
<1>4. CASE q = p
  <2>1. /\ pc'[p] \in {"op", "worker", "release"} /\ (pc'[p] = "worker" => Top(p)'.tx)
        /\ pc'[p] = "op" => todo'[p] # <<>> /\ (Top(p)'.mode = "R" => ReadsOnly(todo'[p]))
    <3>1. Top(p).mode = "R" => ReadsOnly(todo[p])
      BY <1>1 DEF ControlOf
    <3> QED BY <1>2, <3>1, FinishFacts DEF SameTop
  <2>2. Len(stack'[p]) <= 2
    BY <1>1, <1>2 DEF ControlOf
  <2>3. Len(stack'[p]) = 2 => stack'[p][1].tx /\ ~stack'[p][2].tx
    <3> HAVE Len(stack'[p]) = 2
    <3>1. Len(stack[p]) = 2 /\ 1 \in DOMAIN stack[p] /\ 2 \in DOMAIN stack[p]
      BY <1>2 DEF IInv, TypeOK
    <3>2. stack'[p][1] = stack[p][1] /\ stack'[p][2] = f /\ Top(p) = stack[p][2]
      BY <1>2, <3>1 DEF Top
    <3>3. stack[p][1].tx /\ ~stack[p][2].tx
      BY <1>1, <3>1 DEF ControlOf
    <3> QED BY <3>2, <3>3 DEF SameTop
  <2> QED BY <1>2, <1>4, <2>1, <2>2, <2>3 DEF ControlOf, Running, Waiting
<1> QED BY <1>3, <1>4

\* A step of a running operation that neither ends it nor touches a frame.
LEMMA OperationKept ==
  ASSUME IInv, NEW p \in Procs, pc[p] \in Running, ~readRefused(p),
         UNCHANGED <<noReadsAfterWrites, announced, readers, blocked, call, stack, todo, out>>,
         pc' \in [Procs -> Labels], pc'[p] \in {"resolve", "create", "apply"},
         \A q \in Procs : q # p => pc'[q] = pc[q],
         Contents' = Contents
  PROVE  LockInv' /\ Control' /\ RunsAlone' /\ ReadsInv'
<1>1. ControlOf(p) /\ stack[p] # <<>> /\ Top(p) \in Frames
  BY HeadType
<1>2. LockInv'
  <2>1. SameTop(p, Top(p))
    BY <1>1 DEF SameTop
  <2> QED BY <1>1, <2>1, LockInvKept DEF Running, Waiting
<1>3. Control'
  <2> SUFFICES ASSUME NEW q \in Procs PROVE ControlOf(q)'
    BY DEF Control
  <2>1. ControlOf(q)
    BY DEF IInv, Control
  <2>2. CASE q # p
    BY <2>1, <2>2 DEF ControlOf, Top
  <2>3. CASE q = p
    BY <1>1, <2>3 DEF ControlOf, Top, Running, Waiting
  <2> QED BY <2>2, <2>3
<1>4. RunsAlone'
  BY DEF IInv, RunsAlone
<1>5. ReadsInv'
  <2> SUFFICES ASSUME NEW q \in Procs PROVE ReadsInvOf(q)'
    BY DEF IInv, ReadsInv
  <2>1. ReadsInvOf(q)
    BY DEF IInv, ReadsInv
  <2>2. CASE q # p
    BY <2>1, <2>2 DEF ReadsInvOf, readRefused, Top
  <2>3. CASE q = p
    BY <2>1, <2>3 DEF ReadsInvOf, readRefused, Top
  <2> QED BY <2>2, <2>3
<1> QED BY <1>2, <1>3, <1>4, <1>5

\* allowRead or guardCollection refuses the operation.
LEMMA RefusePreserves ==
  ASSUME IInv, NEW p \in Procs, Refuse(p)
  PROVE  IInv'
<1> USE DEF lockVars, dbVars
<1>1. pc[p] \in Running /\ UNCHANGED <<noReadsAfterWrites, lockVars, enginesMu, dbVars, call, stack>>
  BY DEF Refuse, Running
<1>2. PICK res \in {"readAfterWrite", "undefined"} : Finish(p, res, "none")
  BY DEF Refuse
<1>3. res \in Outcomes
  BY DEF Outcomes
<1>4. ControlOf(p) /\ stack[p] # <<>> /\ Top(p) \in Frames
  BY <1>1, HeadType
<1>5. SameTop(p, Top(p))
  BY <1>4 DEF SameTop
<1>6. /\ pc' \in [Procs -> Labels] /\ pc'[p] \in {"op", "worker", "release"}
      /\ todo' \in [Procs -> Seq(Op)] /\ goesOn' \in [Procs -> SUBSET Outcomes] /\ eng' \in [Procs -> Nat]
      /\ DOMAIN out' = Procs /\ out'[p].res # "found"
      /\ \A q \in Procs : q # p => /\ pc'[q] = pc[q] /\ todo'[q] = todo[q]
                                   /\ eng'[q] = eng[q] /\ out'[q] = out[q]
  <2>1. Finish(p, res, "none") /\ pc[p] \in Running /\ res \in Outcomes
    BY <1>1, <1>2, <1>3
  <2>2. /\ pc' \in [Procs -> Labels] /\ pc'[p] \in {"op", "worker", "release"}
        /\ todo' \in [Procs -> Seq(Op)] /\ goesOn' \in [Procs -> SUBSET Outcomes] /\ eng' \in [Procs -> Nat]
        /\ DOMAIN out' = Procs
        /\ \A q \in Procs : q # p => /\ pc'[q] = pc[q] /\ todo'[q] = todo[q]
                                     /\ eng'[q] = eng[q] /\ out'[q] = out[q]
    BY <2>1, FinishFacts, Zenon
  <2>3. out'[p] = [res |-> res, op |-> Head(todo[p]).op, coll |-> Head(todo[p]).coll,
                   id |-> Head(todo[p]).id, value |-> "none"]
    <3>1. DOMAIN out = Procs
      BY DEF IInv, ReadsInv
    <3>2. out' = [out EXCEPT ![p] = [res |-> res, op |-> Head(todo[p]).op, coll |-> Head(todo[p]).coll,
                                     id |-> Head(todo[p]).id, value |-> "none"]]
      BY <2>1 DEF Finish
    <3> QED BY <3>1, <3>2
  <2>4. out'[p].res # "found"
    BY <1>2, <2>3
  <2> QED BY <2>2, <2>4
<1>7. TypeOK'
  BY <1>1, <1>6 DEF IInv, TypeOK
<1>8. LockInv'
  BY <1>1, <1>4, <1>5, <1>6, LockInvKept DEF Running, Waiting
<1>9. Control'
  BY <1>1, <1>2, <1>3, <1>5, FinishControl
<1>10. EnginesInv'
  <2>1. \A q \in Procs : pc'[q] \in {"resolve", "create", "apply"} => q # p
    BY <1>6
  <2>2. OneEnginePerCollection'
    <3>1. collections' = collections /\ engines' = engines
      BY <1>1
    <3>2. Range(collections') = DOMAIN engines' /\ IsInjective(collections')
      BY <3>1 DEF IInv, EnginesInv, OneEnginePerCollection
    <3>3. \A q \in Procs : pc'[q] = "apply" =>
             /\ Head(todo'[q]).coll \in DOMAIN collections'
             /\ eng'[q] = collections'[Head(todo'[q]).coll]
      <4> SUFFICES ASSUME NEW q \in Procs, pc'[q] = "apply"
                   PROVE  /\ Head(todo'[q]).coll \in DOMAIN collections'
                          /\ eng'[q] = collections'[Head(todo'[q]).coll]
        OBVIOUS
      <4>1. pc[q] = "apply" /\ todo'[q] = todo[q] /\ eng'[q] = eng[q]
        BY <1>6, <2>1
      <4>2. Head(todo[q]).coll \in DOMAIN collections /\ eng[q] = collections[Head(todo[q]).coll]
        BY <4>1 DEF IInv, EnginesInv, OneEnginePerCollection
      <4> QED BY <3>1, <4>1, <4>2
    <3> QED BY <3>2, <3>3 DEF OneEnginePerCollection
  <2>3. \A q \in Procs : EnginesInvOf(q)'
    BY <1>1, <1>6, <2>1 DEF IInv, EnginesInv, EnginesInvOf
  <2> QED BY <2>2, <2>3 DEF EnginesInv
<1>11. RunsAlone'
  BY <1>1, ContentsUnchanged DEF IInv, RunsAlone
<1>12. ReadsInv'
  <2> SUFFICES ASSUME NEW q \in Procs PROVE ReadsInvOf(q)'
    BY <1>6 DEF ReadsInv
  <2>1. ReadsInvOf(q)
    BY DEF IInv, ReadsInv
  <2>2. CASE q # p
    BY <1>1, <1>6, <2>1, <2>2 DEF ReadsInvOf, readRefused, Top
  <2>3. CASE q = p
    BY <1>1, <1>4, <1>6, <2>1, <2>3 DEF ReadsInvOf
  <2> QED BY <2>2, <2>3
<1> QED BY <1>7, <1>8, <1>9, <1>10, <1>11, <1>12 DEF IInv

\* The operation may run: it takes enginesMu.
LEMMA LockEnginesPreserves ==
  ASSUME IInv, NEW p \in Procs, LockEngines(p)
  PROVE  IInv'
<1> USE DEF LockEngines, lockVars, dbVars, opVars, Goto
<1>1. pc[p] \in Running /\ pc' \in [Procs -> Labels] /\ pc'[p] = "resolve"
      /\ \A q \in Procs : q # p => pc'[q] = pc[q]
  BY DEF IInv, TypeOK, Labels, Running
<1>2. TypeOK'
  BY <1>1 DEF IInv, TypeOK
<1>3. LockInv' /\ Control' /\ RunsAlone' /\ ReadsInv'
  BY <1>1, ContentsUnchanged, OperationKept
<1>4. EnginesInv'
  BY <1>1, DBAssumption DEF IInv, EnginesInv, EnginesInvOf, OneEnginePerCollection
<1> QED BY <1>2, <1>3, <1>4 DEF IInv

\* The collection has an engine, or the operation will create one.
LEMMA ResolveEnginePreserves ==
  ASSUME IInv, NEW p \in Procs, ResolveEngine(p)
  PROVE  IInv'
<1> DEFINE c == Head(todo[p]).coll
<1> USE DEF lockVars, dbVars, Goto
<1>1. /\ pc[p] = "resolve" /\ pc[p] \in Running /\ pc' \in [Procs -> Labels]
      /\ pc'[p] \in {"create", "apply"}
      /\ \A q \in Procs : q # p => pc'[q] = pc[q]
  BY DEF ResolveEngine, IInv, TypeOK, Labels, Running
<1>2. ~readRefused(p) /\ enginesMu = p
  BY <1>1 DEF IInv, ReadsInv, ReadsInvOf, EnginesInv, EnginesInvOf
<1>3. /\ UNCHANGED <<noReadsAfterWrites, announced, readers, blocked, collections, engines,
                     call, stack, todo, goesOn, out>>
      /\ \/ /\ c \in DOMAIN collections /\ eng' = [eng EXCEPT ![p] = collections[c]]
            /\ enginesMu' = NoProc /\ pc'[p] = "apply"
         \/ /\ c \notin DOMAIN collections /\ pc'[p] = "create"
            /\ UNCHANGED <<enginesMu, eng>>
  BY DEF ResolveEngine, IInv, TypeOK
<1>4. TypeOK'
  BY <1>1, <1>3 DEF IInv, TypeOK
<1>5. LockInv' /\ Control' /\ RunsAlone' /\ ReadsInv'
  BY <1>1, <1>2, <1>3, ContentsUnchanged, OperationKept
<1>6. EnginesInv'
  <2>1. \A q \in Procs : q # p => pc'[q] \notin {"resolve", "create"} /\ eng'[q] = eng[q]
    BY <1>1, <1>2, <1>3 DEF IInv, TypeOK, EnginesInv, EnginesInvOf
  <2>2. (pc'[p] = "apply" => c \in DOMAIN collections /\ eng'[p] = collections[c])
        /\ (pc'[p] = "create" => c \notin DOMAIN collections /\ enginesMu' = p)
    BY <1>2, <1>3 DEF IInv, TypeOK
  <2>3. \A q \in Procs : EnginesInvOf(q)'
    BY <1>1, <1>3, <2>1, <2>2 DEF EnginesInvOf
  <2>4. OneEnginePerCollection'
    BY <1>1, <1>3, <2>1, <2>2 DEF IInv, EnginesInv, OneEnginePerCollection
  <2> QED BY <2>3, <2>4 DEF EnginesInv
<1> QED BY <1>4, <1>5, <1>6 DEF IInv

\* The operation creates and registers the engine of a new collection, which
\* is empty, as the collection was.
LEMMA CreateEnginePreserves ==
  ASSUME IInv, NEW p \in Procs, CreateEngine(p)
  PROVE  IInv'
<1> DEFINE c == Head(todo[p]).coll
           n == Len(engines) + 1
<1> USE DEF lockVars, Goto
<1>1. /\ pc[p] = "create" /\ pc[p] \in Running /\ pc' \in [Procs -> Labels] /\ pc'[p] = "apply"
      /\ \A q \in Procs : q # p => pc'[q] = pc[q]
  BY DEF CreateEngine, IInv, TypeOK, Labels, Running
<1>2. ~readRefused(p) /\ enginesMu = p /\ c \notin DOMAIN collections /\ c \in Collections
  <2>1. c \in Collections
    BY <1>1, HeadType DEF Op
  <2> QED BY <1>1, <2>1 DEF IInv, ReadsInv, ReadsInvOf, EnginesInv, EnginesInvOf
<1>3. /\ UNCHANGED <<noReadsAfterWrites, announced, readers, blocked, call, stack, todo, goesOn, out>>
      /\ engines' = Append(engines, Empty)
      /\ collections' = [d \in DOMAIN collections \cup {c} |-> IF d = c THEN n ELSE collections[d]]
      /\ eng' = [eng EXCEPT ![p] = n] /\ enginesMu' = NoProc
  BY DEF CreateEngine
<1>4. /\ engines \in Seq(EngineContents) /\ Len(engines) \in Nat /\ n \in Nat
      /\ DOMAIN engines = 1..Len(engines) /\ n \notin DOMAIN engines
      /\ collections \in [DOMAIN collections -> Nat] /\ DOMAIN collections \subseteq Collections
  BY DEF IInv, TypeOK
<1>5. Empty \in EngineContents
  <2>1. Empty \in [{} -> Values]
    BY DEF Empty
  <2> QED BY <2>1 DEF EngineContents
<1>6. /\ engines' \in Seq(EngineContents) /\ DOMAIN engines' = DOMAIN engines \cup {n}
      /\ engines'[n] = Empty /\ \A e \in DOMAIN engines : engines'[e] = engines[e]
  <2>1. /\ engines' \in Seq(EngineContents) /\ Len(engines') = n
        /\ engines'[n] = Empty /\ \A e \in DOMAIN engines : engines'[e] = engines[e]
    BY <1>3, <1>4, <1>5
  <2>2. DOMAIN engines' = 1..n /\ 1..n = 1..Len(engines) \cup {n}
    BY <1>4, <2>1
  <2> QED BY <1>4, <2>1, <2>2
<1>7. /\ DOMAIN collections' = DOMAIN collections \cup {c} /\ collections'[c] = n
      /\ \A d \in DOMAIN collections : collections'[d] = collections[d]
      /\ collections' \in [DOMAIN collections' -> Nat]
  BY <1>2, <1>3, <1>4
<1>8. \A d \in DOMAIN collections : collections[d] \in DOMAIN engines
  BY DEF IInv, EnginesInv, OneEnginePerCollection, Range
<1>9. TypeOK'
  <2>1. eng' \in [Procs -> Nat]
    BY <1>3, <1>4 DEF IInv, TypeOK
  <2> QED BY <1>1, <1>2, <1>3, <1>4, <1>6, <1>7, <2>1 DEF IInv, TypeOK
<1>10. Contents' = Contents
  <2>1. ASSUME NEW d \in Collections
        PROVE  (IF d \in DOMAIN collections' THEN engines'[collections'[d]] ELSE Empty)
                  = (IF d \in DOMAIN collections THEN engines[collections[d]] ELSE Empty)
    BY <1>2, <1>6, <1>7, <1>8
  <2> QED BY <2>1 DEF Contents
<1>11. LockInv' /\ Control' /\ RunsAlone' /\ ReadsInv'
  BY <1>1, <1>2, <1>3, <1>10, OperationKept
<1>12. EnginesInv'
  <2>1. Range(collections') = DOMAIN engines'
    <3>1. Range(collections) = DOMAIN engines
      BY DEF IInv, EnginesInv, OneEnginePerCollection
    <3> QED BY <1>2, <1>6, <1>7, <3>1 DEF Range
  <2>2. IsInjective(collections')
    <3>1. \A a, b \in DOMAIN collections : collections[a] = collections[b] => a = b
      BY DEF IInv, EnginesInv, OneEnginePerCollection, IsInjective
    <3> QED BY <1>4, <1>7, <1>8, <3>1 DEF IsInjective
  <2>3. \A q \in Procs : q # p => pc'[q] \notin {"resolve", "create"} /\ eng'[q] = eng[q]
    BY <1>1, <1>2, <1>3 DEF IInv, TypeOK, EnginesInv, EnginesInvOf
  <2>4. \A q \in Procs : pc'[q] = "apply" =>
           /\ Head(todo'[q]).coll \in DOMAIN collections'
           /\ eng'[q] = collections'[Head(todo'[q]).coll]
    <3> SUFFICES ASSUME NEW q \in Procs, pc'[q] = "apply"
                 PROVE  /\ Head(todo'[q]).coll \in DOMAIN collections'
                        /\ eng'[q] = collections'[Head(todo'[q]).coll]
      OBVIOUS
    <3>1. CASE q = p
      <4>1. eng'[p] = n /\ todo' = todo
        BY <1>3 DEF IInv, TypeOK
      <4> QED BY <1>7, <3>1, <4>1
    <3>2. CASE q # p
      BY <1>1, <1>3, <1>7, <2>3, <3>2 DEF IInv, EnginesInv, OneEnginePerCollection
    <3> QED BY <3>1, <3>2
  <2>5. \A q \in Procs : EnginesInvOf(q)'
    BY <1>1, <2>3 DEF EnginesInvOf
  <2> QED BY <2>1, <2>2, <2>4, <2>5 DEF EnginesInv, OneEnginePerCollection
<1> QED BY <1>9, <1>11, <1>12 DEF IInv

\* While a writer runs, nobody else is inside the lock.
LEMMA WriterAlone ==
  ASSUME IInv, NEW p \in Procs, stack[p] # <<>>, Top(p).mode = "W"
  PROVE  Len(stack[p]) = 1 /\ \A q \in Procs : q # p => DOMAIN stack[q] = {}
<1>1. stack[p] \in Seq(Frames) /\ Len(stack[p]) \in DOMAIN stack[p] /\ stack[p][Len(stack[p])].mode = "W"
  BY DEF IInv, TypeOK, Top
<1>2. Len(stack[p]) = 1 /\ announced = p /\ readers = {}
  BY <1>1 DEF IInv, LockInv, LockInvOf, Writing
<1>3. ASSUME NEW q \in Procs, q # p, NEW d \in DOMAIN stack[q] PROVE FALSE
  <2>1. stack[q] \in Seq(Frames) /\ LockInvOf(q)
    BY DEF IInv, TypeOK, LockInv
  <2>2. stack[q][d] \in Frames
    BY <2>1
  <2>3. stack[q][d].mode \in {"R", "W"}
    BY <2>2 DEF Frames
  <2>4. stack[q][d].mode # "R"
    BY <1>2, <2>1 DEF LockInvOf, Holds
  <2>5. stack[q][d].mode # "W"
    BY <1>2, <1>3, <2>1 DEF LockInvOf, Writing
  <2> QED BY <2>3, <2>4, <2>5
<1> QED BY <1>2, <1>3

\* The engine of an operation is the registered one of its collection, and the
\* innermost frame sees what that engine holds.
LEMMA AppliedEngine ==
  ASSUME IInv, NEW p \in Procs, pc[p] = "apply"
  PROVE  /\ Head(todo[p]).coll \in DOMAIN collections /\ Head(todo[p]).coll \in Collections
         /\ eng[p] = collections[Head(todo[p]).coll]
         /\ eng[p] \in DOMAIN engines
         /\ engines[eng[p]] \in EngineContents
         /\ Top(p).view = Contents /\ Contents \in Database
         /\ Contents[Head(todo[p]).coll] = engines[eng[p]]
<1> DEFINE o == Head(todo[p])
<1>1. pc[p] \in Running
  BY DEF Running
<1>2. o \in Op /\ stack[p] # <<>> /\ stack[p] \in Seq(Frames)
  BY <1>1, HeadType DEF IInv, TypeOK
<1>3. o.coll \in DOMAIN collections /\ o.coll \in Collections /\ eng[p] = collections[o.coll]
  BY <1>2 DEF IInv, EnginesInv, OneEnginePerCollection, Op
<1>4. eng[p] \in DOMAIN engines
  BY <1>3 DEF IInv, EnginesInv, OneEnginePerCollection, Range
<1>5. engines[eng[p]] \in EngineContents
  BY <1>4 DEF IInv, TypeOK
<1>6. Top(p).view = Contents
  <2>1. Len(stack[p]) \in DOMAIN stack[p]
    BY <1>2
  <2> QED BY <2>1 DEF IInv, RunsAlone, Top
<1>7. Contents \in Database
  BY ContentsType DEF IInv, EnginesInv
<1>8. Contents[o.coll] = engines[eng[p]]
  BY <1>3 DEF Contents
<1> QED BY <1>3, <1>4, <1>5, <1>6, <1>7, <1>8

\* The engine call: only a writer changes contents, and its view follows.
LEMMA ApplyPreserves ==
  ASSUME IInv, NEW p \in Procs, Apply(p)
  PROVE  IInv'
<1> DEFINE o == Head(todo[p])
           m == engines[eng[p]]
           res == OpOutcome(m, o)
           value == IF o.op = "get" /\ res = "found" THEN m[o.id] ELSE "none"
           e == OpEffect(m, o)
           hw == Top(p).hasWritten \/ (Top(p).tx /\ Top(p).mode = "W" /\ markWrite(o, res))
           f == [Top(p) EXCEPT !.hasWritten = @ \/ (Top(p).tx /\ Top(p).mode = "W" /\ markWrite(o, res)),
                               !.view[o.coll] = OpEffect(@, o)]
<1> USE DEF lockVars
<1>1. /\ pc[p] = "apply" /\ pc[p] \in Running
      /\ engines' = [engines EXCEPT ![eng[p]] = e]
      /\ SetTop(p, f) /\ Finish(p, res, value)
      /\ UNCHANGED <<noReadsAfterWrites, announced, readers, blocked, enginesMu, collections, call>>
  BY DEF Apply, Running
<1>2. /\ o \in Op /\ ControlOf(p) /\ stack[p] # <<>> /\ Top(p) \in Frames
      /\ (Top(p).mode = "R" => o.op \in Reads)
  BY <1>1, HeadType
<1>3. /\ o.coll \in DOMAIN collections /\ o.coll \in Collections
      /\ eng[p] = collections[o.coll] /\ eng[p] \in DOMAIN engines /\ m \in EngineContents
      /\ Top(p).view = Contents /\ Contents \in Database /\ Contents[o.coll] = m
  BY <1>1, AppliedEngine
<1>4. /\ e \in EngineContents /\ res \in Outcomes
      /\ (o.op \in Reads => e = m /\ res \in {"found", "notFound"})
      /\ (res # "ok" => e = m) /\ (res = "found" => o.id \in DOMAIN m)
  BY <1>2, <1>3, OpEffectFacts
<1>5. /\ f \in Frames /\ f.mode = Top(p).mode /\ f.tx = Top(p).tx /\ f.begin = Top(p).begin
      /\ f.hasWritten = hw /\ f.view = [Contents EXCEPT ![o.coll] = e]
  <2>1. f = [Top(p) EXCEPT !.hasWritten = hw, !.view = [Contents EXCEPT ![o.coll] = e]]
    BY <1>2, <1>3 DEF Frames
  <2>2. hw \in BOOLEAN
    BY <1>2 DEF Frames, markWrite
  <2>3. [Contents EXCEPT ![o.coll] = e] \in Database
    BY <1>3, <1>4 DEF Database
  <2> HIDE DEF hw, e, f
  <2> QED BY <1>2, <2>1, <2>2, <2>3 DEF Frames
<1>6. SameTop(p, f)
  BY <1>5 DEF SameTop
<1> HIDE DEF f, res, value
<1>7. /\ stack' \in [Procs -> Seq(Frames)]
      /\ \A q \in Procs : q # p => stack'[q] = stack[q]
      /\ Len(stack'[p]) = Len(stack[p]) /\ DOMAIN stack'[p] = DOMAIN stack[p]
      /\ stack'[p] # <<>> /\ Top(p)' = f
      /\ \A d \in DOMAIN stack[p] :
            stack'[p][d] = IF d = Len(stack[p]) THEN f ELSE stack[p][d]
  BY <1>1, <1>2, <1>5, SetTopFacts DEF IInv, TypeOK
<1>8. /\ pc' \in [Procs -> Labels] /\ pc'[p] \in {"op", "worker", "release"}
      /\ todo' \in [Procs -> Seq(Op)] /\ goesOn' \in [Procs -> SUBSET Outcomes] /\ eng' \in [Procs -> Nat]
      /\ DOMAIN out' = Procs
      /\ out'[p] = [res |-> res, op |-> o.op, coll |-> o.coll, id |-> o.id, value |-> value]
      /\ \A q \in Procs : q # p => /\ pc'[q] = pc[q] /\ todo'[q] = todo[q]
                                   /\ eng'[q] = eng[q] /\ out'[q] = out[q]
  BY <1>1, <1>4, FinishFacts, Zenon
<1>9. engines' \in Seq(EngineContents) /\ DOMAIN engines' = DOMAIN engines
  BY <1>1, <1>3, <1>4 DEF IInv, TypeOK
<1>10. TypeOK'
  BY <1>1, <1>7, <1>8, <1>9 DEF IInv, TypeOK
<1>11. LockInv'
  BY <1>1, <1>2, <1>6, <1>8, LockInvKept DEF Running, Waiting
<1>12. Control'
  BY <1>1, <1>4, <1>6, FinishControl
<1>13. EnginesInv'
  <2>1. \A q \in Procs : pc'[q] \in {"resolve", "create", "apply"} => q # p
    BY <1>8
  <2>2. Range(collections') = DOMAIN engines' /\ IsInjective(collections')
    BY <1>1, <1>9 DEF IInv, EnginesInv, OneEnginePerCollection
  <2>3. \A q \in Procs : pc'[q] = "apply" =>
           /\ Head(todo'[q]).coll \in DOMAIN collections'
           /\ eng'[q] = collections'[Head(todo'[q]).coll]
    <3> SUFFICES ASSUME NEW q \in Procs, pc'[q] = "apply"
                 PROVE  /\ Head(todo'[q]).coll \in DOMAIN collections'
                        /\ eng'[q] = collections'[Head(todo'[q]).coll]
      OBVIOUS
    <3>1. pc[q] = "apply" /\ todo'[q] = todo[q] /\ eng'[q] = eng[q]
      BY <1>8, <2>1
    <3>2. Head(todo[q]).coll \in DOMAIN collections /\ eng[q] = collections[Head(todo[q]).coll]
      BY <3>1 DEF IInv, EnginesInv, OneEnginePerCollection
    <3>3. collections' = collections
      BY <1>1
    <3> QED BY <3>1, <3>2, <3>3
  <2>4. \A q \in Procs : EnginesInvOf(q)'
    BY <1>1, <1>8, <2>1 DEF IInv, EnginesInv, EnginesInvOf
  <2> QED BY <2>2, <2>3, <2>4 DEF EnginesInv, OneEnginePerCollection
<1>14. Contents' = [Contents EXCEPT ![o.coll] = e]
  <2>1. ASSUME NEW c \in Collections
        PROVE  (IF c \in DOMAIN collections THEN engines'[collections[c]] ELSE Empty)
                  = IF c = o.coll THEN e ELSE IF c \in DOMAIN collections THEN engines[collections[c]] ELSE Empty
    <3>1. \A a, b \in DOMAIN collections : collections[a] = collections[b] => a = b
      BY DEF IInv, EnginesInv, OneEnginePerCollection, IsInjective
    <3>2. \A a \in DOMAIN collections : collections[a] \in DOMAIN engines
      BY DEF IInv, EnginesInv, OneEnginePerCollection, Range
    <3>3. engines'[eng[p]] = e /\ \A i \in DOMAIN engines : i # eng[p] => engines'[i] = engines[i]
      BY <1>1, <1>3
    <3> HIDE DEF e
    <3> QED BY <1>3, <3>1, <3>2, <3>3
  <2> HIDE DEF e
  <2> QED BY <1>1, <2>1 DEF Contents
<1>15. e = m => Contents' = Contents /\ f.view = Contents
  <2> HIDE DEF e, m
  <2>1. e = m => [Contents EXCEPT ![o.coll] = e] = Contents
    BY <1>3 DEF Database
  <2> QED BY <1>5, <1>14, <2>1
<1>16. RunsAlone'
  <2> SUFFICES ASSUME NEW q \in Procs, NEW d \in DOMAIN stack'[q] PROVE stack'[q][d].view = Contents'
    BY DEF RunsAlone
  <2>1. CASE q = p /\ d = Len(stack[p])
    BY <1>5, <1>7, <1>14, <2>1
  <2>2. CASE ~(q = p /\ d = Len(stack[p])) /\ Top(p).mode = "W"
    <3>1. Len(stack[p]) = 1 /\ \A r \in Procs : r # p => DOMAIN stack[r] = {}
      BY <1>2, <2>2, WriterAlone
    <3>2. q = p
      BY <1>7, <3>1
    <3>3. d = Len(stack[p])
      BY <1>7, <3>1, <3>2 DEF IInv, TypeOK
    <3> QED BY <2>2, <3>2, <3>3
  <2>3. CASE ~(q = p /\ d = Len(stack[p])) /\ Top(p).mode = "R"
    <3>1. Contents' = Contents
      BY <1>2, <1>4, <1>15, <2>3
    <3>2. stack'[q][d] = stack[q][d] /\ d \in DOMAIN stack[q]
      BY <1>7, <2>3
    <3> QED BY <3>1, <3>2 DEF IInv, RunsAlone
  <2> QED BY <1>2, <2>1, <2>2, <2>3 DEF Frames
<1>17. ReadsInv'
  <2> SUFFICES ASSUME NEW q \in Procs PROVE ReadsInvOf(q)'
    BY <1>8 DEF ReadsInv
  <2>1. ReadsInvOf(q) /\ ReadsInvOf(p)
    BY DEF IInv, ReadsInv
  <2>2. CASE q # p
    <3>1. stack'[q] = stack[q] /\ pc'[q] = pc[q] /\ todo'[q] = todo[q] /\ out'[q] = out[q]
      BY <1>7, <1>8, <2>2
    <3> QED BY <1>1, <2>1, <3>1 DEF ReadsInvOf, readRefused, Top
  <2>3. CASE q = p
    <3>1. Top(p).tx /\ Top(p).mode = "W" /\ ~Top(p).hasWritten => Top(p).view = Top(p).begin
      <4>1. Len(stack[p]) \in DOMAIN stack[p]
        BY <1>2 DEF IInv, TypeOK
      <4> QED BY <2>1, <4>1 DEF ReadsInvOf, Top
    <3>2. ASSUME f.tx, f.mode = "W", ~f.hasWritten PROVE f.view = f.begin
      <4>1. Top(p).tx /\ Top(p).mode = "W" /\ ~Top(p).hasWritten /\ ~markWrite(o, res)
        BY <1>5, <3>2
      <4>2. e = m
        BY <1>4, <4>1 DEF markWrite
      <4> QED BY <1>3, <1>5, <1>15, <3>1, <4>1, <4>2
    <3>3. \A d \in DOMAIN stack'[p] :
             stack'[p][d].tx /\ stack'[p][d].mode = "W" /\ ~stack'[p][d].hasWritten
               => stack'[p][d].view = stack'[p][d].begin
      BY <1>7, <2>1, <3>2 DEF ReadsInvOf
    <3>4. ASSUME f.tx, f.mode = "W", noReadsAfterWrites, o.op = "get", res = "found"
          PROVE  o.id \in DOMAIN f.begin[o.coll] /\ value = f.begin[o.coll][o.id]
      <4>1. ~readRefused(p) /\ o.op \in Reads
        BY <1>1, <2>1, <3>4 DEF ReadsInvOf, Reads
      <4>2. Top(p).tx /\ Top(p).mode = "W" /\ ~Top(p).hasWritten
        BY <1>5, <3>4, <4>1 DEF readRefused
      <4>3. f.begin[o.coll] = m
        BY <1>3, <1>5, <3>1, <4>2
      <4> QED BY <1>4, <3>4, <4>3 DEF value
    <3>5. /\ out'[p].res = res /\ out'[p].op = o.op /\ out'[p].coll = o.coll
          /\ out'[p].id = o.id /\ out'[p].value = value
      BY <1>8
    <3> QED BY <1>1, <1>7, <1>8, <2>3, <3>3, <3>4, <3>5 DEF ReadsInvOf
  <2> QED BY <2>2, <2>3
<1> QED BY <1>10, <1>11, <1>12, <1>13, <1>16, <1>17 DEF IInv

\* Every step of every goroutine preserves the invariant.
LEMMA NextIInv ==
  ASSUME IInv, [Next]_vars
  PROVE  IInv'
<1>1. CASE Next
  <2>1. PICK p \in Procs : Begin(p) \/ Work(p) \/ Compete(p)
    BY <1>1 DEF Next
  <2>2. CASE Begin(p)
    BY <2>2, BeginPreserves
  <2>3. CASE RLock(p) \/ RLockBlock(p) \/ LockAnnounce(p) \/ LockAcquire(p)
    BY <2>3, RLockPreserves, RLockBlockPreserves, LockAnnouncePreserves, LockAcquirePreserves
  <2>4. CASE Enter(p) \/ RUnlock(p) \/ Unlock(p)
    BY <2>4, EnterPreserves, RUnlockPreserves, UnlockPreserves
  <2>5. CASE WorkerCall(p) \/ WorkerReturn(p) \/ WorkerNests(p)
    BY <2>5, WorkerCallPreserves, WorkerReturnPreserves, WorkerNestsPreserves
  <2>6. CASE Refuse(p) \/ LockEngines(p) \/ ResolveEngine(p) \/ CreateEngine(p) \/ Apply(p)
    BY <2>6, RefusePreserves, LockEnginesPreserves, ResolveEnginePreserves, CreateEnginePreserves,
       ApplyPreserves
  <2> QED BY <2>1, <2>2, <2>3, <2>4, <2>5, <2>6 DEF Work, Compete
<1>2. CASE UNCHANGED vars
  <2> USE <1>2 DEF vars, lockVars, dbVars, opVars, IInv
  <2>1. TypeOK'
    BY DEF TypeOK
  <2>2. LockInv'
    BY DEF LockInv, LockInvOf, Holds, Writing, NextHold
  <2>3. Control'
    BY DEF Control, ControlOf, Top
  <2>4. EnginesInv'
    BY DEF EnginesInv, EnginesInvOf, OneEnginePerCollection
  <2>5. RunsAlone'
    BY ContentsUnchanged DEF RunsAlone
  <2>6. ReadsInv'
    BY DEF ReadsInv, ReadsInvOf, readRefused, Top
  <2> QED BY <2>1, <2>2, <2>3, <2>4, <2>5, <2>6
<1> QED BY <1>1, <1>2

-----------------------------------------------------------------------------
(***************************************************************************)
(* Theorems                                                                *)
(***************************************************************************)

\* The invariant of the lock, of the calls that hold it and of the engines
\* holds in every state of the database.
THEOREM Invariance == Spec => []IInv
  BY InitIInv, NextIInv, PTL DEF Spec

\* The state of the database, of db.mu and of every goroutine stays well typed.
THEOREM TypeCorrect == Spec => []TypeOK
<1>1. IInv => TypeOK
  BY DEF IInv
<1> QED BY <1>1, Invariance, PTL

\* Serializability: whatever goroutines call and however their steps interleave,
\* a call between Lock and Unlock (RLock and RUnlock) of db.mu sees the database
\* it found, changed by its own operations only.
THEOREM Serializable == Spec => []RunsAlone
<1>1. IInv => RunsAlone
  BY DEF IInv
<1> QED BY <1>1, Invariance, PTL

\* Lazy creation of engines, by readers too, never gives a collection two
\* engines, and no operation works on an engine that is not registered.
THEOREM OneEngine == Spec => []OneEnginePerCollection
<1>1. IInv => OneEnginePerCollection
  BY DEF IInv, EnginesInv
<1> QED BY <1>1, Invariance, PTL

\* With WithNoReadsAfterWritesInTransaction, what a read-write transaction reads
\* is what was stored before it began.
THEOREM ReadsBeforeWrites == Spec => []ReadsPrecedeWrites
<1>1. ASSUME IInv PROVE ReadsPrecedeWrites
  <2> SUFFICES ASSUME NEW p \in Procs, noReadsAfterWrites, pc[p] = "worker", Top(p).mode = "W",
                      out[p].op = "get", out[p].res = "found"
               PROVE  /\ out[p].id \in DOMAIN Top(p).begin[out[p].coll]
                      /\ out[p].value = Top(p).begin[out[p].coll][out[p].id]
    BY DEF ReadsPrecedeWrites
  <2>1. ControlOf(p) /\ ReadsInvOf(p)
    BY <1>1 DEF IInv, Control, ReadsInv
  <2>2. stack[p] # <<>> /\ Top(p).tx
    BY <2>1 DEF ControlOf
  <2> QED BY <2>1, <2>2 DEF ReadsInvOf
<1>2. IInv => ReadsPrecedeWrites
  BY <1>1
<1> QED BY <1>2, Invariance, PTL
=============================================================================
