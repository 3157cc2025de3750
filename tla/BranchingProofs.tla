--------------------------- MODULE BranchingProofs ---------------------------
(***************************************************************************)
(* Proofs about checkpoints and branches, for any number of goroutines,    *)
(* databases, collections, ids, values and writes.                         *)
(*                                                                         *)
(* Isolation is a matter of what Go objects are shared.  An engine object  *)
(* of a database belongs to one collection of that database and to no      *)
(* snapshot (EnginesApart); a key object belongs to one engine object      *)
(* (KeysApart).  So a write reaches one engine and the change of a key     *)
(* shows in one engine.  A capture that is under way has copied engines    *)
(* exactly, because it holds the locks of its source (CopiesOf).           *)
(***************************************************************************)
EXTENDS Branching, TLAPS, SequenceTheorems, FiniteSetTheorems

\* What users see of engine object e in heap h when the keys in t were touched.
SeenIn(h, t, e) ==
    [i \in DOMAIN h[e] |-> [value |-> h[e][i].value, intact |-> h[e][i].key \notin t]]
ShownIn(h, t, m) ==
    [c \in Collections |-> IF c \notin DOMAIN m THEN None ELSE SeenIn(h, t, m[c])]

EnginesApart ==
    /\ \A d1, d2 \in DOMAIN dbs : \A c1 \in DOMAIN dbs[d1], c2 \in DOMAIN dbs[d2] :
          dbs[d1][c1] = dbs[d2][c2] => d1 = d2 /\ c1 = c2
    /\ \A d \in DOMAIN dbs, k \in DOMAIN checkpoints :
          \A c \in DOMAIN dbs[d], x \in DOMAIN checkpoints[k].snapshot :
             dbs[d][c] # checkpoints[k].snapshot[x]
    /\ \A d \in DOMAIN dbs, p \in Procs :
          \A c \in DOMAIN dbs[d], x \in DOMAIN capture[p].snapshot :
             dbs[d][c] # capture[p].snapshot[x]

KeysApart ==
    \A e \in Refs : \A i \in DOMAIN heap[e] :
        /\ heap[e][i].key.engine \in {0, e}
        /\ \A f \in Refs : \A j \in DOMAIN heap[f] :
              heap[e][i].key = heap[f][j].key => e = f

CopiesOf(p) ==
    LET d == capture[p].db
        s == capture[p].snapshot
    IN
    /\ capture[p].pc # "idle" => d \in DOMAIN dbs
    /\ capture[p].pc \in {"validate", "copy"} => mu[d] = p
    /\ capture[p].pc = "copy" =>
          /\ DOMAIN s \subseteq DOMAIN dbs[d]
          /\ \A c \in DOMAIN s :
                SeenIn(heap, touchedKeys, s[c]) = SeenIn(heap, touchedKeys, dbs[d][c])

Copies == \A p \in Procs : CopiesOf(p)

\* Databases and checkpoints have finitely many collections.
FiniteMaps ==
    /\ \A d \in DOMAIN dbs : IsFiniteSet(DOMAIN dbs[d])
    /\ \A k \in DOMAIN checkpoints : IsFiniteSet(DOMAIN checkpoints[k].snapshot)

IInv ==
    /\ TypeOK
    /\ EnginesApart
    /\ KeysApart
    /\ Copies
    /\ FiniteMaps
    /\ CheckpointFrozen

-----------------------------------------------------------------------------
(***************************************************************************)
(* What is shown, and what may change without showing.                     *)
(***************************************************************************)

\* The definition of the model, in terms of the heap and the touched keys.
LEMMA ShownIs ==
  /\ \A m : Shown(m) = ShownIn(heap, touchedKeys, m)
  /\ \A m : Shown(m)' = ShownIn(heap', touchedKeys', m)
  BY DEF Shown, ShownIn, SeenIn

\* What a database shows, in terms of heap and touched keys.
LEMMA ShownDb ==
  /\ \A d : Shown(dbs[d]) = ShownIn(heap, touchedKeys, dbs[d])
  /\ \A d : Shown(dbs[d])' = ShownIn(heap', touchedKeys', dbs'[d])
  BY DEF Shown, ShownIn, SeenIn

\* Sets of engines show alike when their engines do.
LEMMA ShownAlike ==
  ASSUME NEW h, NEW t, NEW m, NEW h2, NEW t2, NEW m2, DOMAIN m = DOMAIN m2,
         \A c \in DOMAIN m : SeenIn(h, t, m[c]) = SeenIn(h2, t2, m2[c])
  PROVE  ShownIn(h, t, m) = ShownIn(h2, t2, m2)
  BY DEF ShownIn

\* An engine shows what it showed unless it or one of its keys is changed.
LEMMA SeenKept ==
  ASSUME NEW h, NEW t, NEW h2, NEW t2, NEW e, h[e] = h2[e],
         \A i \in DOMAIN h[e] : h[e][i].key \in t <=> h[e][i].key \in t2
  PROVE  SeenIn(h, t, e) = SeenIn(h2, t2, e)
  BY DEF SeenIn

\* A clone shows what its original shows, the keys that were changed included.
LEMMA SeenCloned ==
  ASSUME NEW h, NEW t, NEW e, NEW h2, NEW t2, NEW f, h2[f] = Cloned(h[e], f),
         \A i \in DOMAIN h[e] : h[e][i].key \in t <=> ClonedKey(f, i) \in t2
  PROVE  SeenIn(h2, t2, f) = SeenIn(h, t, e)
<1>1. DOMAIN h2[f] = DOMAIN h[e]
  BY DEF Cloned
<1>2. \A i \in DOMAIN h[e] : h2[f][i].value = h[e][i].value /\ h2[f][i].key = ClonedKey(f, i)
  BY DEF Cloned
<1> QED BY <1>1, <1>2 DEF SeenIn

\* Functions on a subset of S.
LEMMA PartialFacts ==
  ASSUME NEW S, NEW T
  PROVE  /\ \A m \in Partial(S, T) : /\ m \in [DOMAIN m -> T] /\ DOMAIN m \subseteq S
                                     /\ \A x \in DOMAIN m : m[x] \in T
         /\ \A D \in SUBSET S : \A m \in [D -> T] : m \in Partial(S, T)
         /\ \A U : T \subseteq U => Partial(S, T) \subseteq Partial(S, U)
         /\ None \in Partial(S, T)
<1>1. \A m \in Partial(S, T) : \E D \in SUBSET S : m \in [D -> T]
  BY DEF Partial
<1>2. \A U : \A D \in SUBSET S : \A m \in [D -> U] : m \in Partial(S, U)
  BY DEF Partial
<1>3. \A U : T \subseteq U => Partial(S, T) \subseteq Partial(S, U)
  <2> SUFFICES ASSUME NEW U, T \subseteq U, NEW m \in Partial(S, T) PROVE m \in Partial(S, U)
    OBVIOUS
  <2>1. PICK D \in SUBSET S : m \in [D -> T]
    BY <1>1
  <2>2. m \in [D -> U]
    BY <2>1
  <2> QED BY <1>2, <2>2
<1>4. None \in Partial(S, T)
  <2>1. None \in [{} -> T]
    BY DEF None
  <2> QED BY <1>2, <2>1
<1> QED BY <1>1, <1>2, <1>3, <1>4

\* Objects and keys are never taken away: what was typed stays typed.
LEMMA TypesGrow ==
  ASSUME TypeOK, heap' \in Seq(Stored'), Len(heap) <= Len(heap'), writes' \in Nat, writes <= writes'
  PROVE  /\ Refs \subseteq Refs' /\ KeyObjects \subseteq KeyObjects'
         /\ Partial(Collections, Refs) \subseteq Partial(Collections, Refs')
         /\ dbs \in Seq(Partial(Collections, Refs'))
         /\ checkpoints \in Seq([snapshot : Partial(Collections, Refs'), released : BOOLEAN,
                                 frozen : Displayed])
         /\ capture \in [Procs -> [pc : {"idle", "lock", "validate", "copy"}, db : Nat,
                                   snapshot : Partial(Collections, Refs')]]
         /\ touchedKeys \subseteq KeyObjects'
<1>1. heap \in Seq(Stored) /\ Len(heap) \in Nat /\ Len(heap') \in Nat /\ writes \in Nat
      /\ DOMAIN heap = 1..Len(heap) /\ DOMAIN heap' = 1..Len(heap')
  BY BranchingAssumption DEF TypeOK
<1>2. Refs \subseteq Refs' /\ KeyObjects \subseteq KeyObjects'
  BY <1>1 DEF Refs, KeyObjects
<1>3. Partial(Collections, Refs) \subseteq Partial(Collections, Refs')
  BY <1>2, PartialFacts
<1>4. /\ dbs \in Seq(Partial(Collections, Refs))
      /\ checkpoints \in Seq([snapshot : Partial(Collections, Refs), released : BOOLEAN, frozen : Displayed])
      /\ capture \in [Procs -> [pc : {"idle", "lock", "validate", "copy"}, db : Nat,
                                snapshot : Partial(Collections, Refs)]]
      /\ touchedKeys \subseteq KeyObjects
  BY DEF TypeOK
<1> DEFINE P == Partial(Collections, Refs)
           Q == Partial(Collections, Refs')
<1> HIDE DEF P, Q
<1>5. \A S, T : S \subseteq T => Seq(S) \subseteq Seq(T)
  BY SeqMonotonic
<1>6. P \subseteq Q => [snapshot : P, released : BOOLEAN, frozen : Displayed]
                          \subseteq [snapshot : Q, released : BOOLEAN, frozen : Displayed]
  OBVIOUS
<1>7. P \subseteq Q => [Procs -> [pc : {"idle", "lock", "validate", "copy"}, db : Nat, snapshot : P]]
                          \subseteq [Procs -> [pc : {"idle", "lock", "validate", "copy"}, db : Nat, snapshot : Q]]
  OBVIOUS
<1> QED BY <1>2, <1>3, <1>4, <1>5, <1>6, <1>7 DEF P, Q

\* A longer heap and more writes only add key objects and entries that can be stored.
LEMMA StoredGrows ==
  ASSUME Len(heap) \in Nat, Len(heap') \in Nat, Len(heap) <= Len(heap'),
         writes \in Nat, writes' \in Nat, writes <= writes'
  PROVE  KeyObjects \subseteq KeyObjects' /\ Stored \subseteq Stored'
<1> DEFINE A == [value : Values, key : KeyObjects]
           B == [value : Values, key : KeyObjects']
<1>1. KeyObjects \subseteq KeyObjects'
  BY DEF KeyObjects
<1>2. A \subseteq B
  BY <1>1
<1> HIDE DEF A, B
<1>3. Partial(Ids, A) \subseteq Partial(Ids, B)
  BY <1>2, PartialFacts
<1> QED BY <1>1, <1>3 DEF Stored, A, B

\* What an engine object holds.
LEMMA StoredFacts ==
  /\ \A m \in Stored : /\ DOMAIN m \subseteq Ids /\ m \in [DOMAIN m -> [value : Values, key : KeyObjects]]
                       /\ \A i \in DOMAIN m : m[i].value \in Values /\ m[i].key \in KeyObjects
  /\ TypeOK => \A e \in Refs : heap[e] \in Stored
<1>1. ASSUME NEW m \in Stored
      PROVE  /\ DOMAIN m \subseteq Ids /\ m \in [DOMAIN m -> [value : Values, key : KeyObjects]]
             /\ \A i \in DOMAIN m : m[i].value \in Values /\ m[i].key \in KeyObjects
  <2> DEFINE T == [value : Values, key : KeyObjects]
  <2>1. m \in Partial(Ids, T)
    BY DEF Stored
  <2> HIDE DEF T
  <2>2. DOMAIN m \subseteq Ids /\ m \in [DOMAIN m -> T] /\ \A i \in DOMAIN m : m[i] \in T
    BY <2>1, PartialFacts
  <2> QED BY <2>2 DEF T
<1>2. TypeOK => \A e \in Refs : heap[e] \in Stored
  BY DEF TypeOK, Refs
<1> QED BY <1>1, <1>2

-----------------------------------------------------------------------------
(***************************************************************************)
(* Writes.                                                                 *)
(***************************************************************************)

\* The step writes object w, which collection c of database d has or gets, or
\* touches one of its keys.
Writes(d, c, w) ==
    /\ DOMAIN dbs' = DOMAIN dbs
    /\ \A x \in DOMAIN dbs : x # d => dbs'[x] = dbs[x]
    /\ DOMAIN dbs'[d] = DOMAIN dbs[d] \cup {c} /\ dbs'[d][c] = w
    /\ \A x \in DOMAIN dbs[d] : x # c => dbs'[d][x] = dbs[d][x]
    /\ IF c \in DOMAIN dbs[d] THEN w = dbs[d][c] ELSE w \notin Refs
    /\ \A e \in Refs : e # w => SeenIn(heap', touchedKeys', e) = SeenIn(heap, touchedKeys, e)
    /\ UNCHANGED <<mu, checkpoints, capture>>

\* References of databases, checkpoints and captures lead into the heap.
LEMMA References ==
  ASSUME TypeOK
  PROVE  /\ \A d \in DOMAIN dbs : /\ DOMAIN dbs[d] \subseteq Collections
                                  /\ \A c \in DOMAIN dbs[d] : dbs[d][c] \in Refs
         /\ \A k \in DOMAIN checkpoints :
               \A c \in DOMAIN checkpoints[k].snapshot : checkpoints[k].snapshot[c] \in Refs
         /\ \A p \in Procs :
               \A c \in DOMAIN capture[p].snapshot : capture[p].snapshot[c] \in Refs
<1>1. \A d \in DOMAIN dbs : dbs[d] \in Partial(Collections, Refs)
  BY DEF TypeOK
<1>2. \A k \in DOMAIN checkpoints : checkpoints[k].snapshot \in Partial(Collections, Refs)
  <2> DEFINE R == [snapshot : Partial(Collections, Refs), released : BOOLEAN, frozen : Displayed]
  <2>1. checkpoints \in Seq(R)
    BY DEF TypeOK
  <2> HIDE DEF R
  <2>2. \A k \in DOMAIN checkpoints : checkpoints[k] \in R
    BY <2>1
  <2> QED BY <2>2 DEF R
<1>3. \A p \in Procs : capture[p].snapshot \in Partial(Collections, Refs)
  BY DEF TypeOK
<1> QED BY <1>1, <1>2, <1>3, PartialFacts

\* A write shows in one database only: no capture of it is under way, and nobody
\* else refers to the object.
LEMMA WriteIsLocal ==
  ASSUME IInv, NEW d \in DOMAIN dbs, NEW c \in Collections, mu[d] = NoProc, NEW w, Writes(d, c, w)
  PROVE  /\ EnginesApart' /\ Copies' /\ FiniteMaps' /\ CheckpointFrozen'
         /\ \A x \in DOMAIN dbs : x # d => Shown(dbs[x])' = Shown(dbs[x])
<1>1. \A x \in DOMAIN dbs : \A y \in DOMAIN dbs[x] : dbs[x][y] = w => x = d /\ y = c
  BY References DEF IInv, Writes, EnginesApart
<1>2. \A k \in DOMAIN checkpoints : \A y \in DOMAIN checkpoints[k].snapshot :
         checkpoints[k].snapshot[y] # w
  BY References DEF IInv, Writes, EnginesApart
<1>3. \A p \in Procs : \A y \in DOMAIN capture[p].snapshot : capture[p].snapshot[y] # w
  BY References DEF IInv, Writes, EnginesApart
<1>4. EnginesApart'
  <2>1. \A d1, d2 \in DOMAIN dbs' : \A c1 \in DOMAIN dbs'[d1], c2 \in DOMAIN dbs'[d2] :
           dbs'[d1][c1] = dbs'[d2][c2] => d1 = d2 /\ c1 = c2
    <3> SUFFICES ASSUME NEW d1 \in DOMAIN dbs', NEW d2 \in DOMAIN dbs',
                        NEW c1 \in DOMAIN dbs'[d1], NEW c2 \in DOMAIN dbs'[d2],
                        dbs'[d1][c1] = dbs'[d2][c2]
                 PROVE  d1 = d2 /\ c1 = c2
      OBVIOUS
    <3>1. (d1 = d /\ c1 = c) \/ (c1 \in DOMAIN dbs[d1] /\ dbs'[d1][c1] = dbs[d1][c1])
      BY DEF Writes
    <3>2. (d2 = d /\ c2 = c) \/ (c2 \in DOMAIN dbs[d2] /\ dbs'[d2][c2] = dbs[d2][c2])
      BY DEF Writes
    <3> QED BY <1>1, <3>1, <3>2 DEF Writes, IInv, EnginesApart
  <2>2. \A x \in DOMAIN dbs', k \in DOMAIN checkpoints' :
           \A y \in DOMAIN dbs'[x], z \in DOMAIN checkpoints'[k].snapshot :
              dbs'[x][y] # checkpoints'[k].snapshot[z]
    BY <1>2 DEF Writes, IInv, EnginesApart
  <2>3. \A x \in DOMAIN dbs', p \in Procs :
           \A y \in DOMAIN dbs'[x], z \in DOMAIN capture'[p].snapshot :
              dbs'[x][y] # capture'[p].snapshot[z]
    BY <1>3 DEF Writes, IInv, EnginesApart
  <2> QED BY <2>1, <2>2, <2>3 DEF EnginesApart
<1>5. Copies'
  <2> SUFFICES ASSUME NEW p \in Procs PROVE CopiesOf(p)'
    BY DEF Copies
  <2>1. CopiesOf(p)
    BY DEF IInv, Copies
  <2>2. capture' = capture /\ mu' = mu /\ DOMAIN dbs' = DOMAIN dbs
    BY DEF Writes
  <2>3. capture[p].pc = "copy" => capture[p].db \in DOMAIN dbs /\ capture[p].db # d
    BY <2>1, BranchingAssumption DEF CopiesOf
  <2>4. capture[p].pc = "copy" =>
           /\ dbs'[capture[p].db] = dbs[capture[p].db]
           /\ \A y \in DOMAIN capture[p].snapshot :
                 /\ SeenIn(heap', touchedKeys', capture[p].snapshot[y])
                      = SeenIn(heap, touchedKeys, capture[p].snapshot[y])
                 /\ y \in DOMAIN dbs[capture[p].db] =>
                      SeenIn(heap', touchedKeys', dbs[capture[p].db][y])
                        = SeenIn(heap, touchedKeys, dbs[capture[p].db][y])
    BY <1>1, <1>3, <2>3, References DEF Writes, IInv
  <2> QED BY <2>1, <2>2, <2>4 DEF CopiesOf
<1>6. FiniteMaps'
  BY FS_AddElement DEF IInv, FiniteMaps, Writes
<1>7. CheckpointFrozen'
  <2> SUFFICES ASSUME NEW k \in DOMAIN checkpoints, ~checkpoints[k].released
               PROVE  Shown(checkpoints[k].snapshot)' = checkpoints[k].frozen
    BY DEF CheckpointFrozen, Writes
  <2> DEFINE s == checkpoints[k].snapshot
  <2>1. \A y \in DOMAIN s : SeenIn(heap', touchedKeys', s[y]) = SeenIn(heap, touchedKeys, s[y])
    BY <1>2, References DEF Writes, IInv
  <2>2. ShownIn(heap', touchedKeys', s) = ShownIn(heap, touchedKeys, s)
    BY <2>1, ShownAlike
  <2>3. ShownIn(heap, touchedKeys, s) = checkpoints[k].frozen
    BY ShownIs DEF IInv, CheckpointFrozen
  <2>4. checkpoints'[k].snapshot = s
    BY DEF Writes
  <2> QED BY <2>2, <2>3, <2>4, ShownIs DEF Shown, ShownIn, SeenIn
<1>8. ASSUME NEW x \in DOMAIN dbs, x # d PROVE Shown(dbs[x])' = Shown(dbs[x])
  <2>1. dbs'[x] = dbs[x]
    BY <1>8 DEF Writes
  <2>2. \A y \in DOMAIN dbs[x] :
           SeenIn(heap', touchedKeys', dbs[x][y]) = SeenIn(heap, touchedKeys, dbs[x][y])
    BY <1>1, <1>8, References DEF Writes, IInv
  <2>3. ShownIn(heap', touchedKeys', dbs'[x]) = ShownIn(heap, touchedKeys, dbs[x])
    BY <2>1, <2>2, ShownAlike
  <2> QED BY <2>3, ShownDb
<1> QED BY <1>4, <1>5, <1>6, <1>7, <1>8

\* The object that a write of collection c of database d goes to.
LEMMA SetContentsFacts ==
  ASSUME TypeOK, NEW d \in DOMAIN dbs, NEW c \in Collections, NEW m, SetContents(d, c, m)
  PROVE  /\ Engine(d, c) \in Nat \ {0} /\ Len(heap) \in Nat /\ Len(heap') \in Nat
         /\ Len(heap) <= Len(heap') /\ Engine(d, c) <= Len(heap')
         /\ Refs' = Refs \cup {Engine(d, c)} /\ heap'[Engine(d, c)] = m
         /\ \A e \in Refs : e # Engine(d, c) => heap'[e] = heap[e]
         /\ \A T : m \in T /\ (\A e \in Refs : heap[e] \in T) => heap' \in Seq(T)
         /\ IF c \in DOMAIN dbs[d] THEN Engine(d, c) = dbs[d][c] ELSE Engine(d, c) \notin Refs
<1> DEFINE w == Engine(d, c)
<1>1. heap \in Seq(Stored) /\ Len(heap) \in Nat /\ Refs = 1..Len(heap)
  BY DEF TypeOK, Refs
<1>2. CASE c \in DOMAIN dbs[d]
  <2>1. w = dbs[d][c] /\ w \in Refs /\ heap' = [heap EXCEPT ![w] = m]
    BY <1>2, References DEF SetContents, Engine
  <2>2. DOMAIN heap' = 1..Len(heap) /\ heap'[w] = m /\ \A e \in Refs : e # w => heap'[e] = heap[e]
    BY <1>1, <2>1
  <2>3. \A T : m \in T /\ (\A e \in Refs : heap[e] \in T) => heap' \in Seq(T)
    <3> TAKE T
    <3> HAVE m \in T /\ \A e \in Refs : heap[e] \in T
    <3>1. heap' \in [1..Len(heap) -> T]
      BY <1>1, <2>1, <2>2
    <3> QED BY <1>1, <3>1, SeqDef
  <2>4. Len(heap') = Len(heap)
    BY <1>1, <2>1
  <2> QED BY <1>1, <1>2, <2>1, <2>2, <2>3, <2>4 DEF Refs
<1>3. CASE c \notin DOMAIN dbs[d]
  <2>1. w = Len(heap) + 1 /\ heap' = Append(heap, m)
    BY <1>3 DEF SetContents, Engine
  <2>2. \A T : m \in T /\ (\A e \in Refs : heap[e] \in T) => heap' \in Seq(T)
    <3> TAKE T
    <3> HAVE m \in T /\ \A e \in Refs : heap[e] \in T
    <3>1. heap \in Seq(T)
      <4>1. heap \in [1..Len(heap) -> T]
        BY <1>1
      <4> QED BY <1>1, <4>1, SeqDef
    <3> QED BY <2>1, <3>1
  <2>3. heap \in Seq(Stored \cup {m}) /\ m \in Stored \cup {m}
    BY <1>1, SeqMonotonic
  <2>4. /\ heap' \in Seq(Stored \cup {m}) /\ Len(heap') = w /\ heap'[w] = m
        /\ \A e \in 1..Len(heap) : heap'[e] = heap[e]
    BY <2>1, <2>3, AppendProperties
  <2>5. DOMAIN heap' = 1..w /\ 1..w = 1..Len(heap) \cup {w} /\ w \notin 1..Len(heap) /\ w \in Nat \ {0}
        /\ Len(heap) <= w
    BY <1>1, <2>1, <2>4
  <2> HIDE DEF w
  <2> QED BY <1>1, <1>3, <2>2, <2>4, <2>5 DEF w, Refs
<1> QED BY <1>2, <1>3

\* A write of contents m, whose keys occur in no other object.
LEMMA WritePreserves ==
  ASSUME IInv, NEW d \in DOMAIN dbs, NEW c \in Collections, mu[d] = NoProc,
         NEW m \in Stored', SetContents(d, c, m), writes < MaxWrites, writes' = writes + 1,
         UNCHANGED <<schema, mu, touchedKeys, checkpoints, capture, closed>>,
         \A i \in DOMAIN m :
            /\ m[i].key.engine \in {0, Engine(d, c)}
            /\ \A f \in Refs : \A j \in DOMAIN heap[f] : m[i].key = heap[f][j].key => f = Engine(d, c)
  PROVE  IInv' /\ \A x \in DOMAIN dbs : x # d => Shown(dbs[x])' = Shown(dbs[x])
<1> DEFINE w == Engine(d, c)
<1>0. TypeOK /\ writes \in Nat /\ writes' \in 0..MaxWrites /\ writes <= writes'
  BY BranchingAssumption DEF IInv, TypeOK
<1>1. /\ w \in Nat \ {0} /\ Len(heap) \in Nat /\ Len(heap') \in Nat
      /\ Len(heap) <= Len(heap') /\ w <= Len(heap')
      /\ Refs' = Refs \cup {w} /\ heap'[w] = m
      /\ \A e \in Refs : e # w => heap'[e] = heap[e]
      /\ \A T : m \in T /\ (\A e \in Refs : heap[e] \in T) => heap' \in Seq(T)
      /\ IF c \in DOMAIN dbs[d] THEN w = dbs[d][c] ELSE w \notin Refs
  BY <1>0, SetContentsFacts, Zenon
<1> HIDE DEF w
<1>2. Stored \subseteq Stored'
  BY <1>0, <1>1, StoredGrows
<1>3. heap' \in Seq(Stored')
  <2>1. \A e \in Refs : heap[e] \in Stored
    BY <1>0 DEF TypeOK, Refs
  <2> QED BY <1>1, <1>2, <2>1
<1>4. /\ DOMAIN dbs' = DOMAIN dbs /\ Len(dbs') = Len(dbs)
      /\ \A x \in DOMAIN dbs : x # d => dbs'[x] = dbs[x]
      /\ dbs'[d] = [x \in DOMAIN dbs[d] \cup {c} |-> IF x = c THEN w ELSE dbs[d][x]]
  BY <1>0 DEF TypeOK, SetContents, Register, w
<1>5. /\ DOMAIN dbs'[d] = DOMAIN dbs[d] \cup {c} /\ dbs'[d][c] = w
      /\ \A x \in DOMAIN dbs[d] : x # c => dbs'[d][x] = dbs[d][x]
  BY <1>4
<1>6. /\ dbs \in Seq(Partial(Collections, Refs'))
      /\ checkpoints \in Seq([snapshot : Partial(Collections, Refs'), released : BOOLEAN,
                              frozen : Displayed])
      /\ capture \in [Procs -> [pc : {"idle", "lock", "validate", "copy"}, db : Nat,
                                snapshot : Partial(Collections, Refs')]]
      /\ touchedKeys \subseteq KeyObjects'
  <2>1. Len(heap) <= Len(heap') /\ writes' \in Nat /\ writes <= writes'
    BY <1>0, <1>1
  <2> QED BY <1>0, <1>3, <2>1, TypesGrow, Zenon
<1>7. dbs' \in Seq(Partial(Collections, Refs'))
  <2>1. dbs[d] \in Partial(Collections, Refs')
    BY <1>6
  <2>2. DOMAIN dbs[d] \subseteq Collections /\ \A x \in DOMAIN dbs[d] : dbs[d][x] \in Refs'
    BY <2>1, PartialFacts
  <2>3. dbs'[d] \in [DOMAIN dbs[d] \cup {c} -> Refs']
    BY <1>1, <1>4, <2>2
  <2>4. dbs'[d] \in Partial(Collections, Refs')
    <3>1. DOMAIN dbs[d] \cup {c} \in SUBSET Collections
      BY <2>2
    <3> QED BY <2>3, <3>1, PartialFacts, Zenon
  <2> DEFINE Q == Partial(Collections, Refs')
  <2> HIDE DEF Q
  <2>5. dbs \in Seq(Q) /\ dbs'[d] \in Q /\ dbs' = [dbs EXCEPT ![d] = dbs'[d]]
    BY <1>4, <1>6, <2>4 DEF Q, SetContents, Register
  <2>6. dbs' \in Seq(Q)
    BY <2>5
  <2> QED BY <2>6 DEF Q
<1>8. TypeOK'
  BY <1>0, <1>3, <1>4, <1>6, <1>7 DEF TypeOK
<1>9. Writes(d, c, w)
  <2>1. \A e \in Refs : e # w => SeenIn(heap', touchedKeys', e) = SeenIn(heap, touchedKeys, e)
    BY <1>1, SeenKept
  <2> QED BY <1>1, <1>4, <1>5, <2>1 DEF Writes
<1>10. KeysApart'
  <2> SUFFICES ASSUME NEW e \in Refs', NEW i \in DOMAIN heap'[e]
               PROVE  /\ heap'[e][i].key.engine \in {0, e}
                      /\ \A f \in Refs' : \A j \in DOMAIN heap'[f] :
                            heap'[e][i].key = heap'[f][j].key => e = f
    BY DEF KeysApart
  <2>1. CASE e = w
    BY <1>1, <2>1 DEF w
  <2>2. CASE e # w
    <3>1. e \in Refs /\ heap'[e] = heap[e]
      BY <1>1, <2>2
    <3>2. heap[e][i].key.engine \in {0, e} /\
          \A f \in Refs : \A j \in DOMAIN heap[f] : heap[e][i].key = heap[f][j].key => e = f
      BY <3>1 DEF IInv, KeysApart
    <3>3. \A j \in DOMAIN m : heap[e][i].key # m[j].key
      BY <2>2, <3>1 DEF w
    <3> QED BY <1>1, <3>1, <3>2, <3>3
  <2> QED BY <2>1, <2>2
<1>11. /\ EnginesApart' /\ Copies' /\ FiniteMaps' /\ CheckpointFrozen'
       /\ \A x \in DOMAIN dbs : x # d => Shown(dbs[x])' = Shown(dbs[x])
  BY <1>9, WriteIsLocal
<1> QED BY <1>8, <1>10, <1>11 DEF IInv

\* What collection c of database d holds before a write.
LEMMA OldContents ==
  ASSUME IInv, NEW d \in DOMAIN dbs, NEW c \in Collections,
         NEW old, old = IF c \in DOMAIN dbs[d] THEN heap[dbs[d][c]] ELSE None
  PROVE  /\ old \in Stored
         /\ \A i \in DOMAIN old :
               /\ old[i].key.engine \in {0, Engine(d, c)}
               /\ \A f \in Refs : \A j \in DOMAIN heap[f] :
                     old[i].key = heap[f][j].key => f = Engine(d, c)
<1>1. CASE c \in DOMAIN dbs[d]
  <2>1. dbs[d][c] \in Refs /\ Engine(d, c) = dbs[d][c] /\ old = heap[dbs[d][c]]
    BY <1>1, References DEF IInv, Engine
  <2> QED BY <2>1, StoredFacts DEF IInv, KeysApart
<1>2. CASE c \notin DOMAIN dbs[d]
  <2>1. old = None /\ DOMAIN old = {}
    BY <1>2 DEF None
  <2> QED BY <2>1, PartialFacts DEF Stored
<1> QED BY <1>1, <1>2

\* A record is stored under a key object that no engine has.
LEMMA SetPreserves ==
  ASSUME IInv, NEW d \in DOMAIN dbs, NEW c \in Collections, NEW i \in Ids, NEW v \in Values,
         Set(d, c, i, v)
  PROVE  IInv' /\ \A x \in DOMAIN dbs : x # d => Shown(dbs[x])' = Shown(dbs[x])
<1> DEFINE old == IF c \in DOMAIN dbs[d] THEN heap[dbs[d][c]] ELSE None
           r == [value |-> v, key |-> CallersKey(writes', i)]
           m == [x \in DOMAIN old \cup {i} |-> IF x = i THEN r ELSE old[x]]
<1>1. /\ mu[d] = NoProc /\ writes < MaxWrites /\ writes' = writes + 1 /\ SetContents(d, c, m)
      /\ UNCHANGED <<schema, mu, touchedKeys, checkpoints, capture, closed>>
  BY DEF Set
<1>2. /\ old \in Stored
      /\ \A x \in DOMAIN old :
            /\ old[x].key.engine \in {0, Engine(d, c)}
            /\ \A f \in Refs : \A j \in DOMAIN heap[f] :
                  old[x].key = heap[f][j].key => f = Engine(d, c)
  BY OldContents
<1>3. TypeOK /\ writes \in Nat /\ writes' \in Nat /\ writes <= writes'
  BY <1>1, BranchingAssumption DEF IInv, TypeOK
<1>4. Len(heap) \in Nat /\ Len(heap') \in Nat /\ Len(heap) <= Len(heap')
  BY <1>1, <1>3, SetContentsFacts, Zenon
<1>5. KeyObjects \subseteq KeyObjects' /\ old \in Stored'
  BY <1>2, <1>3, <1>4, StoredGrows
<1> HIDE DEF old
<1>6. /\ DOMAIN old \subseteq Ids /\ old \in [DOMAIN old -> [value : Values, key : KeyObjects]]
  BY <1>2, StoredFacts
<1>7. r \in [value : Values, key : KeyObjects'] /\ r.key = CallersKey(writes', i)
  BY <1>1, <1>3, <1>4 DEF CallersKey, KeyObjects
<1>8. m \in Stored'
  <2> DEFINE T == [value : Values, key : KeyObjects']
  <2>1. \A x \in DOMAIN old : old[x] \in T
    BY <1>5, <1>6
  <2>2. r \in T
    BY <1>7
  <2> HIDE DEF T, r
  <2>3. m \in [DOMAIN old \cup {i} -> T] /\ DOMAIN old \cup {i} \in SUBSET Ids
    BY <1>6, <2>1, <2>2
  <2> HIDE DEF m
  <2>4. m \in Partial(Ids, T)
    BY <2>3, PartialFacts
  <2> QED BY <2>4 DEF T, Stored
<1>9. \A x \in DOMAIN m :
         /\ m[x].key.engine \in {0, Engine(d, c)}
         /\ \A f \in Refs : \A j \in DOMAIN heap[f] : m[x].key = heap[f][j].key => f = Engine(d, c)
  <2> SUFFICES ASSUME NEW x \in DOMAIN m
               PROVE  /\ m[x].key.engine \in {0, Engine(d, c)}
                      /\ \A f \in Refs : \A j \in DOMAIN heap[f] :
                            m[x].key = heap[f][j].key => f = Engine(d, c)
    OBVIOUS
  <2>1. CASE x # i
    <3>1. x \in DOMAIN old /\ m[x] = old[x]
      BY <2>1
    <3> QED BY <1>2, <3>1
  <2>2. CASE x = i
    <3>1. m[x].key = CallersKey(writes', i)
      BY <2>2
    <3>2. m[x].key.engine = 0 /\ m[x].key.write = writes'
      BY <3>1 DEF CallersKey
    <3>3. \A f \in Refs : \A j \in DOMAIN heap[f] : heap[f][j].key \in KeyObjects
      BY <1>3, StoredFacts
    <3>4. \A f \in Refs : \A j \in DOMAIN heap[f] : heap[f][j].key.write # writes'
      BY <1>1, <1>3, <3>3 DEF KeyObjects
    <3> QED BY <3>2, <3>4
  <2> QED BY <2>1, <2>2
<1> HIDE DEF m
<1> QED BY <1>1, <1>8, <1>9, WritePreserves, Zenon

\* A record is dropped.
LEMMA DeletePreserves ==
  ASSUME IInv, NEW d \in DOMAIN dbs, NEW c \in Collections, NEW i \in Ids, Delete(d, c, i)
  PROVE  IInv' /\ \A x \in DOMAIN dbs : x # d => Shown(dbs[x])' = Shown(dbs[x])
<1> DEFINE old == IF c \in DOMAIN dbs[d] THEN heap[dbs[d][c]] ELSE None
           m == Restrict(old, DOMAIN old \ {i})
<1>1. /\ mu[d] = NoProc /\ writes < MaxWrites /\ writes' = writes + 1 /\ SetContents(d, c, m)
      /\ UNCHANGED <<schema, mu, touchedKeys, checkpoints, capture, closed>>
  BY DEF Delete
<1>2. /\ old \in Stored
      /\ \A x \in DOMAIN old :
            /\ old[x].key.engine \in {0, Engine(d, c)}
            /\ \A f \in Refs : \A j \in DOMAIN heap[f] :
                  old[x].key = heap[f][j].key => f = Engine(d, c)
  BY OldContents
<1>3. TypeOK /\ writes \in Nat /\ writes' \in Nat /\ writes <= writes'
  BY <1>1, BranchingAssumption DEF IInv, TypeOK
<1>4. Len(heap) \in Nat /\ Len(heap') \in Nat /\ Len(heap) <= Len(heap')
  BY <1>1, <1>3, SetContentsFacts, Zenon
<1> HIDE DEF old
<1>5. DOMAIN m = DOMAIN old \ {i} /\ \A x \in DOMAIN m : x \in DOMAIN old /\ m[x] = old[x]
  BY DEF Restrict
<1>6. m \in Stored
  <2> DEFINE T == [value : Values, key : KeyObjects]
  <2>1. DOMAIN old \subseteq Ids /\ old \in [DOMAIN old -> T]
    BY <1>2, StoredFacts
  <2> HIDE DEF T
  <2>2. m \in [DOMAIN old \ {i} -> T] /\ DOMAIN old \ {i} \in SUBSET Ids
    BY <2>1 DEF Restrict
  <2> HIDE DEF m
  <2>3. m \in Partial(Ids, T)
    BY <2>2, PartialFacts
  <2> QED BY <2>3 DEF T, Stored
<1>7. m \in Stored'
  BY <1>3, <1>4, <1>6, StoredGrows
<1>8. \A x \in DOMAIN m :
         /\ m[x].key.engine \in {0, Engine(d, c)}
         /\ \A f \in Refs : \A j \in DOMAIN heap[f] : m[x].key = heap[f][j].key => f = Engine(d, c)
  BY <1>2, <1>5
<1> HIDE DEF m
<1> QED BY <1>1, <1>7, <1>8, WritePreserves, Zenon

\* The id of a stored record's key is changed: only its engine shows it.
LEMMA ChangeKeyPreserves ==
  ASSUME IInv, NEW d \in DOMAIN dbs, NEW c \in Collections, NEW i \in Ids, ChangeKey(d, c, i)
  PROVE  IInv' /\ \A x \in DOMAIN dbs : x # d => Shown(dbs[x])' = Shown(dbs[x])
<1> DEFINE w == dbs[d][c]
           key == heap[w][i].key
<1>1. /\ mu[d] = NoProc /\ c \in DOMAIN dbs[d] /\ i \in DOMAIN heap[w]
      /\ writes < MaxWrites /\ writes' = writes + 1 /\ touchedKeys' = touchedKeys \cup {key}
      /\ UNCHANGED <<schema, heap, dbs, mu, checkpoints, capture, closed>>
  BY DEF ChangeKey
<1>2. TypeOK /\ writes \in Nat /\ writes' \in 0..MaxWrites /\ writes <= writes' /\ w \in Refs
  BY <1>1, References, BranchingAssumption DEF IInv, TypeOK
<1>3. key \in KeyObjects
  BY <1>1, <1>2, StoredFacts
<1>4. KeyObjects \subseteq KeyObjects' /\ Stored \subseteq Stored'
  <2>1. Len(heap) \in Nat /\ Len(heap') = Len(heap)
    BY <1>1, <1>2 DEF TypeOK
  <2> QED BY <1>2, <2>1, StoredGrows
<1>5. TypeOK'
  <2>1. heap' \in Seq(Stored')
    BY <1>1, <1>2, <1>4, SeqMonotonic DEF TypeOK
  <2>2. Refs' = Refs /\ touchedKeys' \subseteq KeyObjects'
    BY <1>1, <1>2, <1>3, <1>4 DEF Refs, TypeOK
  <2> QED BY <1>1, <1>2, <2>1, <2>2 DEF TypeOK
<1>6. KeysApart'
  BY <1>1 DEF IInv, KeysApart, Refs
<1>7. Writes(d, c, w)
  <2>1. ASSUME NEW e \in Refs, e # w
        PROVE  SeenIn(heap', touchedKeys', e) = SeenIn(heap, touchedKeys, e)
    <3>1. \A j \in DOMAIN heap[e] : heap[e][j].key # key
      BY <1>1, <1>2, <2>1 DEF IInv, KeysApart
    <3> QED BY <1>1, <3>1, SeenKept
  <2> QED BY <1>1, <2>1 DEF Writes
<1>8. /\ EnginesApart' /\ Copies' /\ FiniteMaps' /\ CheckpointFrozen'
      /\ \A x \in DOMAIN dbs : x # d => Shown(dbs[x])' = Shown(dbs[x])
  BY <1>1, <1>7, WriteIsLocal
<1> QED BY <1>5, <1>6, <1>8 DEF IInv

-----------------------------------------------------------------------------
(***************************************************************************)
(* Clones.                                                                 *)
(***************************************************************************)

\* The step adds engine objects, each a clone of the object src gives for it.
Clones(src) ==
    /\ Len(heap') \in Nat /\ Len(heap) <= Len(heap') /\ heap' = [n \in 1..Len(heap') |-> heap'[n]]
    /\ src \in [(Len(heap) + 1)..Len(heap') -> Refs]
    /\ \A e \in Refs : heap'[e] = heap[e]
    /\ \A n \in DOMAIN src : heap'[n] = Cloned(heap[src[n]], n)
    /\ touchedKeys \subseteq touchedKeys'
    /\ \A key \in touchedKeys' \ touchedKeys :
          \E n \in DOMAIN src : \E i \in Touched(heap[src[n]]) : key = ClonedKey(n, i)
    /\ \A n \in DOMAIN src : \A i \in Touched(heap[src[n]]) : ClonedKey(n, i) \in touchedKeys'
    /\ UNCHANGED writes

\* Clones share nothing with what was there, and show what their originals show.
LEMMA ClonesFacts ==
  ASSUME TypeOK, KeysApart, NEW src, Clones(src)
  PROVE  /\ heap' \in Seq(Stored') /\ Refs \subseteq Refs' /\ DOMAIN src \subseteq Refs'
         /\ \A n \in DOMAIN src : n \notin Refs
         /\ touchedKeys' \subseteq KeyObjects' /\ KeysApart'
         /\ \A e \in Refs : SeenIn(heap', touchedKeys', e) = SeenIn(heap, touchedKeys, e)
         /\ \A n \in DOMAIN src :
               SeenIn(heap', touchedKeys', n) = SeenIn(heap, touchedKeys, src[n])
<1>1. /\ heap \in Seq(Stored) /\ Len(heap) \in Nat /\ Refs = 1..Len(heap) /\ writes \in Nat
      /\ \A e \in Refs : heap[e] \in Stored
  BY BranchingAssumption DEF TypeOK, Refs
<1>2. /\ DOMAIN src = (Len(heap) + 1)..Len(heap') /\ \A n \in DOMAIN src : src[n] \in Refs
      /\ Refs' = 1..Len(heap')
      /\ \A e \in Refs' : e \in Refs \/ e \in DOMAIN src
      /\ \A n \in DOMAIN src : n \in Nat /\ n > Len(heap) /\ n \notin Refs /\ n \in Refs'
      /\ Refs \subseteq Refs'
  BY <1>1 DEF Clones, Refs
<1>3. KeyObjects \subseteq KeyObjects' /\ Stored \subseteq Stored'
  BY <1>1, StoredGrows DEF Clones
<1>4. \A e \in Refs : \A i \in DOMAIN heap[e] : i \in Ids /\ heap[e][i].value \in Values /\ heap[e][i].key \in KeyObjects
  BY <1>1, StoredFacts
<1>5. \A n \in DOMAIN src :
         /\ DOMAIN heap'[n] = DOMAIN heap[src[n]]
         /\ \A i \in DOMAIN heap'[n] : heap'[n][i] = [value |-> heap[src[n]][i].value, key |-> ClonedKey(n, i)]
  BY DEF Clones, Cloned
<1>6. \A n \in DOMAIN src, i \in Ids : ClonedKey(n, i) \in KeyObjects' /\ ClonedKey(n, i) \notin KeyObjects
  BY <1>1, <1>2 DEF ClonedKey, KeyObjects, Clones
<1>7. \A n \in DOMAIN src : heap'[n] \in Stored'
  <2> SUFFICES ASSUME NEW n \in DOMAIN src PROVE heap'[n] \in Stored'
    OBVIOUS
  <2> DEFINE T == [value : Values, key : KeyObjects']
             m == heap'[n]
             D == DOMAIN heap[src[n]]
  <2>1. \A i \in D : [value |-> heap[src[n]][i].value, key |-> ClonedKey(n, i)] \in T
    BY <1>2, <1>4, <1>6
  <2>2. m = [i \in D |-> [value |-> heap[src[n]][i].value, key |-> ClonedKey(n, i)]]
    BY DEF Clones, Cloned
  <2>3. D \in SUBSET Ids
    BY <1>2, <1>4
  <2> HIDE DEF T, D
  <2>4. m \in [D -> T]
    BY <2>1, <2>2
  <2> HIDE DEF m
  <2>5. m \in Partial(Ids, T)
    BY <2>3, <2>4, PartialFacts
  <2> QED BY <2>5 DEF T, m, Stored
<1>8. heap' \in Seq(Stored')
  <2>1. \A e \in 1..Len(heap') : heap'[e] \in Stored'
    BY <1>1, <1>2, <1>3, <1>7 DEF Clones
  <2> DEFINE T == Stored'
             n == Len(heap')
  <2>2. n \in Nat /\ heap' = [e \in 1..n |-> heap'[e]] /\ \A e \in 1..n : heap'[e] \in T
    BY <2>1 DEF Clones
  <2> HIDE DEF T, n
  <2>3. heap' \in [1..n -> T]
    BY <2>2
  <2>4. heap' \in Seq(T)
    BY <2>2, <2>3, SeqDef
  <2> QED BY <2>4 DEF T
<1>9. touchedKeys' \subseteq KeyObjects'
  <2>1. touchedKeys \subseteq KeyObjects
    BY DEF TypeOK
  <2>2. \A key \in touchedKeys' \ touchedKeys : key \in KeyObjects'
    BY <1>2, <1>4, <1>6 DEF Clones, Touched
  <2> QED BY <1>3, <2>1, <2>2
<1>10. \A key \in touchedKeys' : key \in KeyObjects => key \in touchedKeys
  BY <1>2, <1>4, <1>6 DEF Clones, Touched
<1>11. ASSUME NEW e \in Refs
       PROVE  SeenIn(heap', touchedKeys', e) = SeenIn(heap, touchedKeys, e)
  <2>1. heap'[e] = heap[e] /\ touchedKeys \subseteq touchedKeys'
    BY DEF Clones
  <2>2. \A i \in DOMAIN heap[e] : heap[e][i].key \in touchedKeys <=> heap[e][i].key \in touchedKeys'
    BY <1>4, <1>10, <2>1
  <2> QED BY <2>1, <2>2, SeenKept
<1>12. ASSUME NEW n \in DOMAIN src
       PROVE  SeenIn(heap', touchedKeys', n) = SeenIn(heap, touchedKeys, src[n])
  <2>1. src[n] \in Refs /\ heap'[n] = Cloned(heap[src[n]], n)
    BY <1>2 DEF Clones
  <2>2. ASSUME NEW i \in DOMAIN heap[src[n]]
        PROVE  heap[src[n]][i].key \in touchedKeys <=> ClonedKey(n, i) \in touchedKeys'
    <3>1. heap[src[n]][i].key \in touchedKeys => ClonedKey(n, i) \in touchedKeys'
      BY <2>2 DEF Clones, Touched
    <3>2. ASSUME ClonedKey(n, i) \in touchedKeys' PROVE heap[src[n]][i].key \in touchedKeys
      <4>1. i \in Ids /\ ClonedKey(n, i) \notin KeyObjects
        BY <1>4, <1>6, <2>1
      <4>2. ClonedKey(n, i) \notin touchedKeys
        BY <4>1 DEF TypeOK
      <4>3. PICK o \in DOMAIN src : \E j \in Touched(heap[src[o]]) : ClonedKey(n, i) = ClonedKey(o, j)
        BY <3>2, <4>2 DEF Clones
      <4>4. PICK j \in Touched(heap[src[o]]) : ClonedKey(n, i) = ClonedKey(o, j)
        BY <4>3
      <4>5. n = o /\ i = j
        BY <4>4 DEF ClonedKey
      <4> QED BY <4>4, <4>5 DEF Touched
    <3> QED BY <3>1, <3>2
  <2> QED BY <2>1, <2>2, SeenCloned
<1>13. KeysApart'
  <2> SUFFICES ASSUME NEW e \in Refs', NEW i \in DOMAIN heap'[e]
               PROVE  /\ heap'[e][i].key.engine \in {0, e}
                      /\ \A f \in Refs' : \A j \in DOMAIN heap'[f] :
                            heap'[e][i].key = heap'[f][j].key => e = f
    BY DEF KeysApart
  <2>1. \A n \in DOMAIN src : \A j \in DOMAIN heap'[n] :
           /\ heap'[n][j].key = ClonedKey(n, j) /\ heap'[n][j].key.engine = n
           /\ heap'[n][j].key \notin KeyObjects
    <3> SUFFICES ASSUME NEW n \in DOMAIN src, NEW j \in DOMAIN heap'[n]
                 PROVE  /\ heap'[n][j].key = ClonedKey(n, j) /\ heap'[n][j].key.engine = n
                        /\ heap'[n][j].key \notin KeyObjects
      OBVIOUS
    <3>1. heap'[n][j].key = ClonedKey(n, j) /\ j \in DOMAIN heap[src[n]] /\ src[n] \in Refs
      <4>1. heap'[n][j] = [value |-> heap[src[n]][j].value, key |-> ClonedKey(n, j)]
        BY <1>5, Zenon
      <4>2. heap'[n][j].key = ClonedKey(n, j)
        BY <4>1
      <4> QED BY <1>2, <1>5, <4>2
    <3>2. ClonedKey(n, j).engine = n
      BY DEF ClonedKey
    <3>3. ClonedKey(n, j) \notin KeyObjects
      BY <1>4, <1>6, <3>1
    <3> QED BY <3>1, <3>2, <3>3
  <2>2. \A f \in Refs : heap'[f] = heap[f] /\ \A j \in DOMAIN heap[f] : heap[f][j].key \in KeyObjects
    BY <1>4 DEF Clones
  <2>3. CASE e \in Refs
    BY <1>2, <2>1, <2>2, <2>3 DEF KeysApart
  <2>4. CASE e \in DOMAIN src
    BY <1>2, <2>1, <2>2, <2>4
  <2> QED BY <1>2, <2>3, <2>4
<1> QED BY <1>2, <1>8, <1>9, <1>11, <1>12, <1>13

\* Nothing that databases and checkpoints show changes when objects are added.
LEMMA ShownKept ==
  ASSUME IInv, \A e \in Refs : SeenIn(heap', touchedKeys', e) = SeenIn(heap, touchedKeys, e)
  PROVE  /\ \A d \in DOMAIN dbs : dbs'[d] = dbs[d] => Shown(dbs[d])' = Shown(dbs[d])
         /\ \A k \in DOMAIN checkpoints : ~checkpoints[k].released =>
               ShownIn(heap', touchedKeys', checkpoints[k].snapshot) = checkpoints[k].frozen
<1>1. ASSUME NEW d \in DOMAIN dbs, dbs'[d] = dbs[d] PROVE Shown(dbs[d])' = Shown(dbs[d])
  <2>1. \A c \in DOMAIN dbs[d] :
           SeenIn(heap', touchedKeys', dbs[d][c]) = SeenIn(heap, touchedKeys, dbs[d][c])
    BY References DEF IInv
  <2>2. ShownIn(heap', touchedKeys', dbs'[d]) = ShownIn(heap, touchedKeys, dbs[d])
    BY <1>1, <2>1, ShownAlike
  <2> QED BY <2>2, ShownDb
<1>2. ASSUME NEW k \in DOMAIN checkpoints, ~checkpoints[k].released
      PROVE  ShownIn(heap', touchedKeys', checkpoints[k].snapshot) = checkpoints[k].frozen
  <2> DEFINE s == checkpoints[k].snapshot
  <2>1. \A y \in DOMAIN s : SeenIn(heap', touchedKeys', s[y]) = SeenIn(heap, touchedKeys, s[y])
    BY References DEF IInv
  <2>2. ShownIn(heap', touchedKeys', s) = ShownIn(heap, touchedKeys, s)
    BY <2>1, ShownAlike
  <2>3. ShownIn(heap, touchedKeys, s) = checkpoints[k].frozen
    BY <1>2, ShownIs DEF IInv, CheckpointFrozen
  <2> QED BY <2>2, <2>3
<1> QED BY <1>1, <1>2

\* A checkpoint is frozen when its snapshot still shows what it took.
LEMMA FrozenIs ==
  /\ CheckpointFrozen' <=>
        \A k \in DOMAIN checkpoints' : ~checkpoints'[k].released =>
           ShownIn(heap', touchedKeys', checkpoints'[k].snapshot) = checkpoints'[k].frozen
  /\ CheckpointFrozen <=>
        \A k \in DOMAIN checkpoints : ~checkpoints[k].released =>
           ShownIn(heap, touchedKeys, checkpoints[k].snapshot) = checkpoints[k].frozen
  BY DEF CheckpointFrozen, Shown, ShownIn, SeenIn

\* snapshotDatabase copies one engine of the database whose locks it holds.
LEMMA CaptureEnginePreserves ==
  ASSUME IInv, NEW p \in Procs, NEW c \in Collections, CaptureEngine(p, c)
  PROVE  IInv' /\ \A x \in DOMAIN dbs : Shown(dbs[x])' = Shown(dbs[x])
<1> DEFINE d == capture[p].db
           s == capture[p].snapshot
           m == heap[dbs[d][c]]
           e == Len(heap) + 1
           src == [n \in e..e |-> dbs[d][c]]
           t == [x \in DOMAIN s \cup {c} |-> IF x = c THEN e ELSE s[x]]
<1>1. /\ capture[p].pc = "copy" /\ c \in DOMAIN dbs[d] /\ c \notin DOMAIN s
      /\ heap' = Append(heap, Cloned(m, e))
      /\ touchedKeys' = touchedKeys \cup {ClonedKey(e, i) : i \in Touched(m)}
      /\ capture' = [capture EXCEPT ![p] = [pc |-> "copy", db |-> d, snapshot |-> t]]
      /\ UNCHANGED <<schema, dbs, mu, checkpoints, closed, writes>>
  BY DEF CaptureEngine, SetCapture
<1>2. /\ TypeOK /\ CopiesOf(p) /\ d \in DOMAIN dbs /\ mu[d] = p /\ DOMAIN s \subseteq DOMAIN dbs[d]
      /\ dbs[d][c] \in Refs /\ DOMAIN dbs[d] \subseteq Collections
      /\ \A x \in DOMAIN s : s[x] \in Refs
  BY <1>1, References DEF IInv, Copies, CopiesOf
<1>3. Len(heap) \in Nat /\ Refs = 1..Len(heap) /\ heap \in Seq(Stored)
  BY <1>2 DEF TypeOK, Refs
<1>4. /\ Len(heap') = e /\ heap'[e] = Cloned(m, e) /\ heap' = [n \in 1..Len(heap') |-> heap'[n]]
      /\ \A n \in Refs : heap'[n] = heap[n]
  <2> DEFINE T == Stored \cup {Cloned(m, e)}
  <2>1. heap \in Seq(T) /\ Cloned(m, e) \in T
    BY <1>3, SeqMonotonic
  <2> HIDE DEF T, e, m
  <2>2. /\ heap' \in Seq(T) /\ Len(heap') = Len(heap) + 1
        /\ heap'[Len(heap) + 1] = Cloned(m, e) /\ \A n \in 1..Len(heap) : heap'[n] = heap[n]
    BY <1>1, <2>1, AppendProperties
  <2> QED BY <1>3, <2>2 DEF e
<1>5. Clones(src) /\ DOMAIN src = {e} /\ src[e] = dbs[d][c]
  <2>1. e \in Nat /\ e..e = {e}
    BY <1>3
  <2>2. DOMAIN src = {e} /\ src[e] = dbs[d][c] /\ src \in [(Len(heap) + 1)..Len(heap') -> Refs]
    BY <1>2, <1>4, <2>1
  <2>3. Len(heap') \in Nat /\ Len(heap) <= Len(heap')
    BY <1>3, <1>4
  <2>4. \A n \in DOMAIN src : n = e /\ heap[src[n]] = m
    BY <2>2
  <2> HIDE DEF src, e, m
  <2>5. \A n \in DOMAIN src : heap'[n] = Cloned(heap[src[n]], n)
    BY <1>4, <2>4
  <2>6. \A key \in touchedKeys' \ touchedKeys :
           \E n \in DOMAIN src : \E i \in Touched(heap[src[n]]) : key = ClonedKey(n, i)
    BY <1>1, <2>2, <2>4
  <2>7. \A n \in DOMAIN src : \A i \in Touched(heap[src[n]]) : ClonedKey(n, i) \in touchedKeys'
    BY <1>1, <2>4
  <2>8. touchedKeys \subseteq touchedKeys' /\ UNCHANGED writes
    BY <1>1
  <2> QED BY <1>4, <2>2, <2>3, <2>5, <2>6, <2>7, <2>8 DEF Clones
<1>6. /\ heap' \in Seq(Stored') /\ Refs \subseteq Refs' /\ e \in Refs' /\ e \notin Refs
      /\ touchedKeys' \subseteq KeyObjects' /\ KeysApart'
      /\ \A n \in Refs : SeenIn(heap', touchedKeys', n) = SeenIn(heap, touchedKeys, n)
      /\ SeenIn(heap', touchedKeys', e) = SeenIn(heap, touchedKeys, dbs[d][c])
  <2> HIDE DEF src, e
  <2>1. TypeOK /\ KeysApart
    BY DEF IInv
  <2> QED BY <1>5, <2>1, ClonesFacts
<1>7. /\ dbs \in Seq(Partial(Collections, Refs'))
      /\ checkpoints \in Seq([snapshot : Partial(Collections, Refs'), released : BOOLEAN,
                              frozen : Displayed])
      /\ capture \in [Procs -> [pc : {"idle", "lock", "validate", "copy"}, db : Nat,
                                snapshot : Partial(Collections, Refs')]]
  <2>1. Len(heap) <= Len(heap') /\ writes' \in Nat /\ writes <= writes'
    BY <1>1, <1>2, <1>3, <1>4, BranchingAssumption DEF TypeOK
  <2> QED BY <1>2, <1>6, <2>1, TypesGrow, Zenon
<1> HIDE DEF e
<1>8. t \in Partial(Collections, Refs') /\ DOMAIN t = DOMAIN s \cup {c} /\ t[c] = e
      /\ \A x \in DOMAIN s : t[x] = s[x]
  <2>1. t \in [DOMAIN s \cup {c} -> Refs'] /\ DOMAIN s \cup {c} \in SUBSET Collections
    BY <1>2, <1>6
  <2>2. t \in Partial(Collections, Refs')
    <3> HIDE DEF t
    <3> QED BY <2>1, PartialFacts
  <2> QED BY <1>1, <2>2
<1> HIDE DEF t
<1>9. /\ capture'[p] = [pc |-> "copy", db |-> d, snapshot |-> t]
      /\ \A q \in Procs : q # p => capture'[q] = capture[q]
      /\ capture' \in [Procs -> [pc : {"idle", "lock", "validate", "copy"}, db : Nat,
                                 snapshot : Partial(Collections, Refs')]]
  <2> DEFINE Q == Partial(Collections, Refs')
  <2>1. t \in Q /\ d \in Nat /\
        capture \in [Procs -> [pc : {"idle", "lock", "validate", "copy"}, db : Nat, snapshot : Q]]
    BY <1>2, <1>7, <1>8 DEF TypeOK
  <2> HIDE DEF Q
  <2>2. capture' \in [Procs -> [pc : {"idle", "lock", "validate", "copy"}, db : Nat, snapshot : Q]]
    BY <1>1, <2>1
  <2> QED BY <1>1, <2>1, <2>2 DEF Q
<1>10. TypeOK'
  BY <1>1, <1>2, <1>6, <1>7, <1>9 DEF TypeOK
<1>11. EnginesApart'
  <2>1. \A x \in DOMAIN dbs, q \in Procs :
           \A y \in DOMAIN dbs[x], z \in DOMAIN capture'[q].snapshot : dbs[x][y] # capture'[q].snapshot[z]
    <3> SUFFICES ASSUME NEW x \in DOMAIN dbs, NEW q \in Procs,
                        NEW y \in DOMAIN dbs[x], NEW z \in DOMAIN capture'[q].snapshot
                 PROVE  dbs[x][y] # capture'[q].snapshot[z]
      OBVIOUS
    <3>1. CASE q = p
      <4>1. capture'[q].snapshot = t /\ dbs[x][y] \in Refs
        BY <1>2, <1>9, <3>1, References
      <4> QED BY <1>6, <1>8, <4>1 DEF IInv, EnginesApart
    <3>2. CASE q # p
      BY <1>9, <3>2 DEF IInv, EnginesApart
    <3> QED BY <3>1, <3>2
  <2> QED BY <1>1, <2>1 DEF IInv, EnginesApart
<1>12. Copies'
  <2> SUFFICES ASSUME NEW q \in Procs PROVE CopiesOf(q)'
    BY DEF Copies
  <2>1. CASE q = p
    <3>1. \A x \in DOMAIN s : SeenIn(heap, touchedKeys, s[x]) = SeenIn(heap, touchedKeys, dbs[d][x])
      BY <1>1, <1>2 DEF CopiesOf
    <3>2. \A x \in DOMAIN s : dbs[d][x] \in Refs
      BY <1>2, References
    <3>3. \A x \in DOMAIN t :
             SeenIn(heap', touchedKeys', t[x]) = SeenIn(heap', touchedKeys', dbs[d][x])
      BY <1>2, <1>6, <1>8, <3>1, <3>2
    <3>4. capture'[q].db = d /\ capture'[q].snapshot = t
      BY <1>9, <2>1
    <3> QED BY <1>1, <1>2, <1>8, <2>1, <3>3, <3>4 DEF CopiesOf
  <2>2. CASE q # p
    <3>1. CopiesOf(q) /\ capture'[q] = capture[q]
      BY <1>9, <2>2 DEF IInv, Copies
    <3>2. capture[q].pc = "copy" =>
             \A y \in DOMAIN capture[q].snapshot :
                 /\ SeenIn(heap', touchedKeys', capture[q].snapshot[y])
                      = SeenIn(heap, touchedKeys, capture[q].snapshot[y])
                 /\ SeenIn(heap', touchedKeys', dbs[capture[q].db][y])
                      = SeenIn(heap, touchedKeys, dbs[capture[q].db][y])
      BY <1>2, <1>6, <3>1, References DEF CopiesOf
    <3> QED BY <1>1, <3>1, <3>2 DEF CopiesOf
  <2> QED BY <2>1, <2>2
<1>13. FiniteMaps'
  BY <1>1 DEF IInv, FiniteMaps
<1>14. CheckpointFrozen'
  BY <1>1, <1>6, ShownKept, FrozenIs
<1>15. \A x \in DOMAIN dbs : Shown(dbs[x])' = Shown(dbs[x])
  BY <1>1, <1>6, ShownKept
<1> QED BY <1>6, <1>10, <1>11, <1>12, <1>13, <1>14, <1>15 DEF IInv

-----------------------------------------------------------------------------
(***************************************************************************)
(* The other steps of a capture change no object.                          *)
(***************************************************************************)

\* A step of the capture of goroutine p that leaves objects and databases alone.
LEMMA CaptureStepPreserves ==
  ASSUME IInv, NEW p \in Procs, UNCHANGED <<schema, heap, dbs, touchedKeys, closed, writes>>,
         NEW r, capture' = [capture EXCEPT ![p] = r],
         r.pc \in {"idle", "lock", "validate", "copy"},
         r \in [pc : {"idle", "lock", "validate", "copy"}, db : Nat, snapshot : {None}],
         r.pc # "idle" => r.db \in DOMAIN dbs,
         r.pc \in {"validate", "copy"} => mu'[r.db] = p,
         mu' \in Seq(Procs \cup {NoProc}), Len(mu') = Len(mu),
         \A q \in Procs : q # p /\ capture[q].pc \in {"validate", "copy"} =>
            mu'[capture[q].db] = mu[capture[q].db]
  PROVE  /\ UNCHANGED checkpoints => IInv'
         /\ EnginesApart /\ TypeOK
         /\ Copies' /\ KeysApart' /\ capture'[p] = r
         /\ \A q \in Procs : q # p => capture'[q] = capture[q]
         /\ capture' \in [Procs -> [pc : {"idle", "lock", "validate", "copy"}, db : Nat,
                                    snapshot : Partial(Collections, Refs)]]
<1>1. TypeOK /\ EnginesApart /\ KeysApart /\ Copies
  BY DEF IInv
<1>2. /\ capture'[p] = r /\ \A q \in Procs : q # p => capture'[q] = capture[q]
      /\ capture' \in [Procs -> [pc : {"idle", "lock", "validate", "copy"}, db : Nat,
                                 snapshot : Partial(Collections, Refs)]]
  <2> DEFINE Q == Partial(Collections, Refs)
  <2>1. None \in Q /\
        capture \in [Procs -> [pc : {"idle", "lock", "validate", "copy"}, db : Nat, snapshot : Q]]
    BY <1>1, PartialFacts DEF TypeOK
  <2> HIDE DEF Q
  <2>2. capture' \in [Procs -> [pc : {"idle", "lock", "validate", "copy"}, db : Nat, snapshot : Q]]
    BY <2>1
  <2> QED BY <2>1, <2>2 DEF Q
<1>3. KeysApart'
  BY <1>1 DEF KeysApart, Refs
<1>4. r.snapshot = None /\ DOMAIN None = {}
  BY DEF None
<1>5. Copies'
  <2> SUFFICES ASSUME NEW q \in Procs PROVE CopiesOf(q)'
    BY DEF Copies
  <2>1. CASE q = p
    BY <1>2, <1>4, <2>1 DEF CopiesOf
  <2>2. CASE q # p
    BY <1>1, <1>2, <2>2 DEF Copies, CopiesOf
  <2> QED BY <2>1, <2>2
<1>6. ASSUME UNCHANGED checkpoints PROVE IInv'
  <2>1. Refs' = Refs /\ KeyObjects' = KeyObjects /\ Stored' = Stored
    BY DEF Refs, KeyObjects, Stored
  <2>2. TypeOK'
    BY <1>1, <1>2, <1>6, <2>1 DEF TypeOK
  <2>3. EnginesApart'
    <3>1. \A q \in Procs : DOMAIN capture'[q].snapshot = {} \/ capture'[q] = capture[q]
      BY <1>2, <1>4
    <3> QED BY <1>1, <1>6, <3>1 DEF EnginesApart
  <2>4. FiniteMaps'
    BY <1>6 DEF IInv, FiniteMaps
  <2>5. CheckpointFrozen'
    BY <1>6, FrozenIs DEF IInv
  <2> QED BY <1>3, <1>5, <2>2, <2>3, <2>4, <2>5 DEF IInv
<1> QED BY <1>1, <1>2, <1>3, <1>5, <1>6

\* A goroutine asks for a capture.
LEMMA CaptureStartPreserves ==
  ASSUME IInv, NEW p \in Procs, NEW d \in DOMAIN dbs, CaptureStart(p, d)
  PROVE  IInv'
<1> DEFINE r == [pc |-> "lock", db |-> d, snapshot |-> None]
<1>1. d \in Nat /\ mu \in Seq(Procs \cup {NoProc})
  BY DEF IInv, TypeOK
<1> QED BY <1>1, CaptureStepPreserves DEF CaptureStart, SetCapture

\* Capture takes the locks of its source.
LEMMA CaptureLockPreserves ==
  ASSUME IInv, NEW p \in Procs, CaptureLock(p)
  PROVE  IInv'
<1> DEFINE d == capture[p].db
           r == [pc |-> "validate", db |-> d, snapshot |-> None]
<1>1. /\ capture[p].pc = "lock" /\ mu[d] = NoProc /\ mu' = [mu EXCEPT ![d] = p]
      /\ capture' = [capture EXCEPT ![p] = r]
      /\ UNCHANGED <<schema, heap, dbs, touchedKeys, checkpoints, closed, writes>>
  BY DEF CaptureLock, SetCapture
<1>2. /\ d \in DOMAIN dbs /\ d \in Nat /\ mu \in Seq(Procs \cup {NoProc}) /\ DOMAIN mu = DOMAIN dbs
  BY <1>1 DEF IInv, TypeOK, Copies, CopiesOf
<1>3. /\ mu' \in Seq(Procs \cup {NoProc}) /\ Len(mu') = Len(mu) /\ mu'[d] = p
      /\ \A x \in DOMAIN dbs : x # d => mu'[x] = mu[x]
  BY <1>1, <1>2
<1>4. \A q \in Procs : q # p /\ capture[q].pc \in {"validate", "copy"} =>
         mu'[capture[q].db] = mu[capture[q].db]
  BY <1>1, <1>2, <1>3, BranchingAssumption DEF IInv, Copies, CopiesOf
<1>5. r \in [pc : {"idle", "lock", "validate", "copy"}, db : Nat, snapshot : {None}]
  BY <1>2
<1>6. r.pc = "validate" /\ r.db = d
  OBVIOUS
<1> HIDE DEF r
<1> QED BY <1>1, <1>2, <1>3, <1>4, <1>5, <1>6, CaptureStepPreserves

\* The locks of the source are given back.
LEMMA LocksReleased ==
  ASSUME IInv, NEW p \in Procs, capture[p].pc \in {"validate", "copy"},
         mu' = [mu EXCEPT ![capture[p].db] = NoProc]
  PROVE  /\ mu' \in Seq(Procs \cup {NoProc}) /\ Len(mu') = Len(mu) /\ capture[p].db \in DOMAIN dbs
         /\ \A q \in Procs : q # p /\ capture[q].pc \in {"validate", "copy"} =>
               mu'[capture[q].db] = mu[capture[q].db]
<1> DEFINE d == capture[p].db
<1>1. d \in DOMAIN dbs /\ mu[d] = p /\ mu \in Seq(Procs \cup {NoProc}) /\ DOMAIN mu = DOMAIN dbs
  BY DEF IInv, TypeOK, Copies, CopiesOf
<1>2. /\ mu' \in Seq(Procs \cup {NoProc}) /\ Len(mu') = Len(mu)
      /\ \A x \in DOMAIN dbs : x # d => mu'[x] = mu[x]
  BY <1>1
<1>3. \A q \in Procs : q # p /\ capture[q].pc \in {"validate", "copy"} =>
         mu'[capture[q].db] = mu[capture[q].db]
  BY <1>1, <1>2 DEF IInv, Copies, CopiesOf
<1> QED BY <1>1, <1>2, <1>3

\* Capture gives up on a collection it cannot copy.
LEMMA CaptureRefusedPreserves ==
  ASSUME IInv, NEW p \in Procs, CaptureRefused(p)
  PROVE  IInv'
<1>1. /\ capture[p].pc = "validate" /\ mu' = [mu EXCEPT ![capture[p].db] = NoProc]
      /\ capture' = [capture EXCEPT ![p] = NoCapture]
      /\ UNCHANGED <<schema, heap, dbs, touchedKeys, checkpoints, closed, writes>>
  BY DEF CaptureRefused
<1>2. /\ mu' \in Seq(Procs \cup {NoProc}) /\ Len(mu') = Len(mu)
      /\ \A q \in Procs : q # p /\ capture[q].pc \in {"validate", "copy"} =>
            mu'[capture[q].db] = mu[capture[q].db]
  BY <1>1, LocksReleased
<1>3. /\ NoCapture \in [pc : {"idle", "lock", "validate", "copy"}, db : Nat, snapshot : {None}]
      /\ NoCapture.pc = "idle"
  BY DEF NoCapture
<1> QED BY <1>1, <1>2, <1>3, CaptureStepPreserves

\* Capture has found every collection copyable.
LEMMA CaptureValidatedPreserves ==
  ASSUME IInv, NEW p \in Procs, CaptureValidated(p)
  PROVE  IInv'
<1> DEFINE d == capture[p].db
           r == [pc |-> "copy", db |-> d, snapshot |-> None]
<1>1. /\ capture[p].pc = "validate" /\ capture' = [capture EXCEPT ![p] = r]
      /\ UNCHANGED <<schema, heap, dbs, mu, touchedKeys, checkpoints, closed, writes>>
  BY DEF CaptureValidated, SetCapture
<1>2. d \in DOMAIN dbs /\ d \in Nat /\ mu \in Seq(Procs \cup {NoProc}) /\ mu[d] = p
  BY <1>1 DEF IInv, TypeOK, Copies, CopiesOf
<1>3. r \in [pc : {"idle", "lock", "validate", "copy"}, db : Nat, snapshot : {None}]
      /\ r.pc = "copy" /\ r.db = d
  BY <1>2
<1> HIDE DEF r
<1> QED BY <1>1, <1>2, <1>3, CaptureStepPreserves

\* What a database shows is well typed.
LEMMA ShownType ==
  ASSUME TypeOK, NEW d \in DOMAIN dbs
  PROVE  Shown(dbs[d]) \in Displayed
<1> DEFINE R == [value : Values, intact : BOOLEAN]
           T == Partial(Ids, R)
<1>1. ASSUME NEW c \in DOMAIN dbs[d] PROVE SeenIn(heap, touchedKeys, dbs[d][c]) \in T
  <2> DEFINE m == heap[dbs[d][c]]
             v == SeenIn(heap, touchedKeys, dbs[d][c])
  <2>1. m \in Stored
    BY References, StoredFacts
  <2>2. DOMAIN m \in SUBSET Ids /\ \A i \in DOMAIN m : m[i].value \in Values
    BY <2>1, StoredFacts
  <2>3. v \in [DOMAIN m -> R]
    BY <2>2 DEF SeenIn
  <2> HIDE DEF v, m, R
  <2>4. v \in T
    BY <2>2, <2>3, PartialFacts
  <2> QED BY <2>4 DEF v
<1>2. None \in T
  <2> HIDE DEF R
  <2> QED BY PartialFacts
<1> HIDE DEF T
<1>3. ShownIn(heap, touchedKeys, dbs[d]) \in [Collections -> T]
  BY <1>1, <1>2 DEF ShownIn
<1> QED BY <1>3, ShownIs DEF Displayed, T

\* The snapshot is complete: the checkpoint is published, the locks released.
LEMMA CapturePublishPreserves ==
  ASSUME IInv, NEW p \in Procs, CapturePublish(p)
  PROVE  IInv'
<1> DEFINE d == capture[p].db
           s == capture[p].snapshot
           k == [snapshot |-> s, released |-> FALSE, frozen |-> Shown(dbs[d])]
           n == Len(checkpoints) + 1
           P == Partial(Collections, Refs)
           R == [snapshot : P, released : BOOLEAN, frozen : Displayed]
<1>1. /\ capture[p].pc = "copy" /\ DOMAIN s = DOMAIN dbs[d]
      /\ checkpoints' = Append(checkpoints, k)
      /\ mu' = [mu EXCEPT ![d] = NoProc] /\ capture' = [capture EXCEPT ![p] = NoCapture]
      /\ UNCHANGED <<schema, heap, dbs, touchedKeys, closed, writes>>
  BY DEF CapturePublish
<1>2. /\ mu' \in Seq(Procs \cup {NoProc}) /\ Len(mu') = Len(mu) /\ d \in DOMAIN dbs
      /\ \A q \in Procs : q # p /\ capture[q].pc \in {"validate", "copy"} =>
            mu'[capture[q].db] = mu[capture[q].db]
  BY <1>1, LocksReleased
<1>3. /\ NoCapture \in [pc : {"idle", "lock", "validate", "copy"}, db : Nat, snapshot : {None}]
      /\ NoCapture.pc = "idle" /\ NoCapture.snapshot = None /\ DOMAIN None = {}
  BY DEF NoCapture, None
<1>4. /\ EnginesApart /\ TypeOK /\ Copies' /\ KeysApart' /\ capture'[p] = NoCapture
      /\ \A q \in Procs : q # p => capture'[q] = capture[q]
      /\ capture' \in [Procs -> [pc : {"idle", "lock", "validate", "copy"}, db : Nat, snapshot : P]]
  BY <1>1, <1>2, <1>3, CaptureStepPreserves
<1>5. k \in R /\ k.snapshot = s /\ k.frozen = Shown(dbs[d])
  <2>1. s \in P
    BY <1>4 DEF TypeOK
  <2>2. Shown(dbs[d]) \in Displayed
    BY <1>2, <1>4, ShownType
  <2> HIDE DEF P
  <2> QED BY <2>1, <2>2
<1>6. /\ checkpoints' \in Seq(R) /\ DOMAIN checkpoints' = DOMAIN checkpoints \cup {n}
      /\ checkpoints'[n] = k /\ \A x \in DOMAIN checkpoints : checkpoints'[x] = checkpoints[x]
  <2>1. checkpoints \in Seq(R)
    BY <1>4 DEF TypeOK
  <2> HIDE DEF R, k
  <2>2. /\ checkpoints' \in Seq(R) /\ Len(checkpoints') = n /\ checkpoints'[n] = k
        /\ \A x \in 1..Len(checkpoints) : checkpoints'[x] = checkpoints[x]
    BY <1>1, <1>5, <2>1, AppendProperties
  <2>3. /\ Len(checkpoints) \in Nat /\ DOMAIN checkpoints = 1..Len(checkpoints)
        /\ DOMAIN checkpoints' = 1..n /\ 1..n = 1..Len(checkpoints) \cup {n}
    BY <2>1, <2>2
  <2> QED BY <2>2, <2>3
<1> HIDE DEF n, k
<1>7. TypeOK'
  <2>1. Refs' = Refs /\ KeyObjects' = KeyObjects /\ Stored' = Stored
    BY <1>1 DEF Refs, KeyObjects, Stored
  <2> QED BY <1>1, <1>2, <1>4, <1>6, <2>1 DEF TypeOK
<1>8. EnginesApart'
  <2>1. \A q \in Procs : DOMAIN capture'[q].snapshot = {} \/ capture'[q] = capture[q]
    BY <1>3, <1>4
  <2>2. \A x \in DOMAIN dbs, j \in DOMAIN checkpoints' :
           \A y \in DOMAIN dbs[x], z \in DOMAIN checkpoints'[j].snapshot :
              dbs[x][y] # checkpoints'[j].snapshot[z]
    BY <1>4, <1>5, <1>6 DEF EnginesApart
  <2> QED BY <1>1, <1>4, <2>1, <2>2 DEF EnginesApart
<1>9. FiniteMaps'
  <2>1. IsFiniteSet(DOMAIN s)
    BY <1>1, <1>2 DEF IInv, FiniteMaps
  <2> QED BY <1>1, <1>5, <1>6, <2>1 DEF IInv, FiniteMaps
<1>10. CheckpointFrozen'
  <2>1. \A c \in DOMAIN s : SeenIn(heap, touchedKeys, s[c]) = SeenIn(heap, touchedKeys, dbs[d][c])
    BY <1>1 DEF IInv, Copies, CopiesOf
  <2>2. ShownIn(heap, touchedKeys, s) = ShownIn(heap, touchedKeys, dbs[d])
    BY <1>1, <2>1, ShownAlike
  <2>3. ShownIn(heap, touchedKeys, s) = k.frozen
    BY <1>5, <2>2, ShownDb
  <2>4. \A x \in DOMAIN checkpoints : ~checkpoints[x].released =>
           ShownIn(heap, touchedKeys, checkpoints[x].snapshot) = checkpoints[x].frozen
    BY FrozenIs DEF IInv
  <2> QED BY <1>1, <1>5, <1>6, <2>3, <2>4, FrozenIs
<1> QED BY <1>4, <1>7, <1>8, <1>9, <1>10 DEF IInv

\* Release forgets the snapshot.
LEMMA ReleasePreserves ==
  ASSUME IInv, NEW k \in DOMAIN checkpoints, Release(k)
  PROVE  IInv'
<1> DEFINE P == Partial(Collections, Refs)
           R == [snapshot : P, released : BOOLEAN, frozen : Displayed]
<1>1. UNCHANGED <<schema, heap, dbs, mu, touchedKeys, capture, closed, writes>>
  BY DEF Release
<1>2. checkpoints \in Seq(R) /\ None \in P /\ DOMAIN None = {}
  BY PartialFacts DEF IInv, TypeOK, None
<1>3. /\ checkpoints' \in Seq(R) /\ DOMAIN checkpoints' = DOMAIN checkpoints
      /\ checkpoints'[k].released = TRUE /\ checkpoints'[k].snapshot = None
      /\ \A x \in DOMAIN checkpoints : x # k => checkpoints'[x] = checkpoints[x]
  <2> DEFINE r == [checkpoints[k] EXCEPT !.released = TRUE, !.snapshot = None]
  <2>0. checkpoints' = [checkpoints EXCEPT ![k] = r]
    BY <1>2 DEF Release
  <2> HIDE DEF R
  <2>1. checkpoints[k] \in R
    BY <1>2
  <2> USE DEF R
  <2> HIDE DEF P
  <2>2. r \in R /\ r.released = TRUE /\ r.snapshot = None
    BY <1>2, <2>1
  <2> HIDE DEF R, r
  <2> QED BY <1>2, <2>0, <2>2
<1>4. TypeOK'
  <2>1. Refs' = Refs /\ KeyObjects' = KeyObjects /\ Stored' = Stored
    BY <1>1 DEF Refs, KeyObjects, Stored
  <2> QED BY <1>1, <1>3, <2>1 DEF IInv, TypeOK
<1>5. EnginesApart'
  BY <1>1, <1>2, <1>3 DEF IInv, EnginesApart
<1>6. KeysApart' /\ Copies'
  BY <1>1 DEF IInv, KeysApart, Refs, Copies, CopiesOf
<1>7. FiniteMaps'
  <2>1. \A x \in DOMAIN checkpoints' : x # k => IsFiniteSet(DOMAIN checkpoints'[x].snapshot)
    BY <1>3 DEF IInv, FiniteMaps
  <2>2. IsFiniteSet(DOMAIN checkpoints'[k].snapshot)
    BY <1>2, <1>3, FS_EmptySet
  <2> QED BY <1>1, <2>1, <2>2 DEF IInv, FiniteMaps
<1>8. CheckpointFrozen'
  <2>1. \A x \in DOMAIN checkpoints : ~checkpoints[x].released =>
           ShownIn(heap, touchedKeys, checkpoints[x].snapshot) = checkpoints[x].frozen
    BY FrozenIs DEF IInv
  <2> QED BY <1>1, <1>3, <2>1, FrozenIs
<1> QED BY <1>4, <1>5, <1>6, <1>7, <1>8 DEF IInv

\* A step that changes nothing but the closed mark of a branch, or nothing.
LEMMA ClosePreserves ==
  ASSUME IInv, UNCHANGED <<schema, heap, dbs, mu, touchedKeys, checkpoints, capture, writes>>,
         closed' \subseteq DOMAIN dbs
  PROVE  IInv'
<1>1. TypeOK'
  <2>1. Refs' = Refs /\ KeyObjects' = KeyObjects /\ Stored' = Stored
    BY DEF Refs, KeyObjects, Stored
  <2> QED BY <2>1 DEF IInv, TypeOK
<1>2. EnginesApart' /\ KeysApart' /\ Copies' /\ FiniteMaps'
  BY DEF IInv, EnginesApart, KeysApart, Refs, Copies, CopiesOf, FiniteMaps
<1>3. CheckpointFrozen'
  BY FrozenIs DEF IInv
<1> QED BY <1>1, <1>2, <1>3 DEF IInv

-----------------------------------------------------------------------------
(***************************************************************************)
(* Branches.                                                               *)
(***************************************************************************)

\* Finitely many collections can be numbered for their new engines.
LEMMA PositionExists ==
  ASSUME NEW S, IsFiniteSet(S)
  PROVE  Cardinality(S) \in Nat /\ \E f \in [S -> 1..Cardinality(S)] : IsInjective(f)
<1> DEFINE N == Cardinality(S)
<1>1. N \in Nat /\ ExistsBijection(1..N, S)
  BY FS_CardinalityType
<1>2. PICK g : g \in Bijection(1..N, S)
  BY <1>1 DEF ExistsBijection
<1>3. /\ g \in [1..N -> S] /\ (\A a, b \in 1..N : g[a] = g[b] => a = b)
      /\ \A c \in S : \E a \in 1..N : g[a] = c
  BY <1>2 DEF Bijection, Injection, Surjection, IsInjective
<1> DEFINE f == [c \in S |-> CHOOSE a \in 1..N : g[a] = c]
<1>4. \A c \in S : f[c] \in 1..N /\ g[f[c]] = c
  BY <1>3
<1>5. f \in [S -> 1..N]
  BY <1>4
<1> HIDE DEF f
<1>6. IsInjective(f)
  BY <1>4, <1>5 DEF IsInjective
<1> QED BY <1>1, <1>5, <1>6

\* Such a numbering leaves no number out.
LEMMA PositionFacts ==
  ASSUME NEW S, IsFiniteSet(S), NEW position \in [S -> 1..Cardinality(S)], IsInjective(position)
  PROVE  /\ \A a, b \in S : position[a] = position[b] => a = b
         /\ \A n \in 1..Cardinality(S) : \E c \in S : position[c] = n
<1> DEFINE N == Cardinality(S)
<1>1. N \in Nat
  BY FS_CardinalityType
<1>2. position \in Injection(S, 1..N)
  BY DEF Injection
<1>3. IsFiniteSet(1..N) /\ Cardinality(1..N) = N
  BY <1>1, FS_Interval
<1>4. position \in Surjection(S, 1..N)
  BY <1>2, <1>3, FS_Injection
<1> QED BY <1>4 DEF Surjection, IsInjective

\* newDatabase: objects of its own, each a clone of the snapshot's.
LEMMA NewDatabaseFacts ==
  ASSUME TypeOK, NEW s \in Partial(Collections, Refs), IsFiniteSet(DOMAIN s), NewDatabase(s),
         UNCHANGED writes
  PROVE  \E src, new :
            /\ Clones(src) /\ dbs' = Append(dbs, new)
            /\ new \in [DOMAIN s -> DOMAIN src]
            /\ \A a, b \in DOMAIN s : new[a] = new[b] => a = b
            /\ \A c \in DOMAIN s : src[new[c]] = s[c]
<1> DEFINE S == DOMAIN s
           N == Cardinality(S)
           L == Len(heap)
           position == CHOOSE f \in [S -> 1..N] : IsInjective(f)
           at(n) == CHOOSE c \in S : position[c] = n
           clones == [n \in 1..N |-> Cloned(heap[s[at(n)]], L + n)]
           new == [c \in S |-> L + position[c]]
           src == [n \in (L + 1)..(L + N) |-> s[at(n - L)]]
<1>1. /\ dbs' = Append(dbs, new) /\ heap' = heap \o clones
      /\ touchedKeys' = touchedKeys \cup
            UNION {{ClonedKey(L + position[c], i) : i \in Touched(heap[s[c]])} : c \in S}
  BY DEF NewDatabase
<1>2. /\ N \in Nat /\ position \in [S -> 1..N]
      /\ \A a, b \in S : position[a] = position[b] => a = b
      /\ \A n \in 1..N : \E c \in S : position[c] = n
  <2>1. N \in Nat /\ \E f \in [S -> 1..N] : IsInjective(f)
    BY PositionExists
  <2>2. position \in [S -> 1..N] /\ IsInjective(position)
    BY <2>1
  <2> HIDE DEF position, S
  <2>3. IsFiniteSet(S)
    BY DEF S
  <2> QED BY <2>1, <2>2, <2>3, PositionFacts
<1>3. L \in Nat /\ heap \in Seq(Stored) /\ Refs = 1..L
  BY DEF TypeOK, Refs
<1>4. \A c \in S : s[c] \in Refs
  BY PartialFacts
<1> HIDE DEF position, N, L, S
<1>5. /\ \A n \in 1..N : at(n) \in S /\ position[at(n)] = n
      /\ \A c \in S : at(position[c]) = c
  BY <1>2
<1> HIDE DEF at
<1>6. /\ Len(heap') = L + N /\ heap' = [n \in 1..Len(heap') |-> heap'[n]]
      /\ \A e \in Refs : heap'[e] = heap[e]
      /\ \A n \in 1..N : heap'[L + n] = clones[n]
  <2> DEFINE T == Stored \cup {clones[n] : n \in 1..N}
  <2>1. heap \in Seq(T)
    BY <1>3, SeqMonotonic
  <2>2. clones \in [1..N -> T]
    OBVIOUS
  <2> HIDE DEF T, clones
  <2>3. clones \in Seq(T) /\ Len(clones) = N
    <3>1. clones \in Seq(T)
      BY <1>2, <2>2, SeqDef
    <3>2. DOMAIN clones = 1..N /\ Len(clones) \in Nat /\ DOMAIN clones = 1..Len(clones)
      BY <2>2, <3>1
    <3>3. \A a, b \in Nat : 1..a = 1..b => a = b
      <4> SUFFICES ASSUME NEW a \in Nat, NEW b \in Nat, 1..a = 1..b PROVE a = b
        OBVIOUS
      <4>1. a \in 1..a \/ a = 0
        OBVIOUS
      <4>2. b \in 1..b \/ b = 0
        OBVIOUS
      <4> QED BY <4>1, <4>2
    <3> QED BY <1>2, <3>1, <3>2, <3>3
  <2>4. /\ heap' \in Seq(T) /\ Len(heap') = L + N
        /\ \A i \in 1..(L + N) : heap'[i] = IF i <= L THEN heap[i] ELSE clones[i - L]
    BY <1>1, <2>1, <2>3, ConcatProperties DEF L
  <2>5. \A n \in 1..N : L + n \in 1..(L + N) /\ ~(L + n <= L) /\ (L + n) - L = n
    BY <1>2, <1>3
  <2>6. \A e \in 1..L : e \in 1..(L + N) /\ e <= L
    BY <1>2, <1>3
  <2> QED BY <1>3, <2>4, <2>5, <2>6
<1>7. /\ DOMAIN src = (L + 1)..(L + N) /\ src \in [(L + 1)..Len(heap') -> Refs]
      /\ \A n \in DOMAIN src : n - L \in 1..N /\ L + (n - L) = n
      /\ \A n \in DOMAIN src : src[n] = s[at(n - L)] /\ at(n - L) \in S /\ position[at(n - L)] = n - L
  <2>1. \A n \in (L + 1)..(L + N) : n - L \in 1..N /\ L + (n - L) = n
    BY <1>2, <1>3
  <2>2. \A n \in (L + 1)..(L + N) : at(n - L) \in S /\ position[at(n - L)] = n - L
    BY <1>5, <2>1
  <2> QED BY <1>4, <1>6, <2>1, <2>2
<1>8. /\ new \in [S -> DOMAIN src] /\ \A a, b \in S : new[a] = new[b] => a = b
      /\ \A c \in S : new[c] = L + position[c] /\ src[new[c]] = s[c]
  <2>1. \A c \in S : position[c] \in 1..N
    BY <1>2
  <2>2. \A i \in 1..N : L + i \in (L + 1)..(L + N) /\ (L + i) - L = i
    BY <1>2, <1>3
  <2>3. \A i, j \in 1..N : L + i = L + j => i = j
    BY <1>2, <1>3
  <2>4. new \in [S -> DOMAIN src] /\ \A c \in S : new[c] = L + position[c]
    BY <1>7, <2>1, <2>2
  <2>5. \A c \in S : src[new[c]] = s[at(position[c])]
    BY <2>1, <2>2, <2>4
  <2> QED BY <1>2, <1>5, <2>1, <2>3, <2>4, <2>5
<1> HIDE DEF src, new
<1>9. \A n \in DOMAIN src : heap'[n] = Cloned(heap[src[n]], n)
  <2> SUFFICES ASSUME NEW n \in DOMAIN src PROVE heap'[n] = Cloned(heap[src[n]], n)
    OBVIOUS
  <2>1. n - L \in 1..N /\ L + (n - L) = n /\ src[n] = s[at(n - L)]
    BY <1>7
  <2>2. heap'[L + (n - L)] = clones[n - L]
    BY <1>6, <2>1
  <2>3. clones[n - L] = Cloned(heap[s[at(n - L)]], L + (n - L))
    BY <2>1
  <2> QED BY <2>1, <2>2, <2>3
<1>10. \A key \in touchedKeys' \ touchedKeys :
          \E n \in DOMAIN src : \E i \in Touched(heap[src[n]]) : key = ClonedKey(n, i)
  <2> SUFFICES ASSUME NEW key \in touchedKeys', key \notin touchedKeys
               PROVE  \E n \in DOMAIN src : \E i \in Touched(heap[src[n]]) : key = ClonedKey(n, i)
    OBVIOUS
  <2>1. PICK c \in S : \E i \in Touched(heap[s[c]]) : key = ClonedKey(L + position[c], i)
    BY <1>1
  <2>2. new[c] \in DOMAIN src /\ src[new[c]] = s[c] /\ new[c] = L + position[c]
    BY <1>8
  <2> QED BY <2>1, <2>2
<1>11. \A n \in DOMAIN src : \A i \in Touched(heap[src[n]]) : ClonedKey(n, i) \in touchedKeys'
  <2> SUFFICES ASSUME NEW n \in DOMAIN src, NEW i \in Touched(heap[src[n]])
               PROVE  ClonedKey(n, i) \in touchedKeys'
    OBVIOUS
  <2> DEFINE c == at(n - L)
  <2>1. c \in S /\ src[n] = s[c] /\ n = L + position[c]
    BY <1>7
  <2> HIDE DEF c
  <2>2. i \in Touched(heap[s[c]]) /\ ClonedKey(n, i) = ClonedKey(L + position[c], i)
    BY <2>1
  <2> QED BY <1>1, <2>1, <2>2
<1>12. Clones(src)
  <2>1. Len(heap') \in Nat /\ Len(heap) <= Len(heap') /\ touchedKeys \subseteq touchedKeys'
    BY <1>1, <1>2, <1>3, <1>6 DEF L
  <2> QED BY <1>6, <1>7, <1>9, <1>10, <1>11, <2>1 DEF Clones, L
<1> QED BY <1>1, <1>8, <1>12 DEF S

\* Branch gives the new database clones of the checkpoint's engines; it shows
\* what the checkpoint froze, and nothing else shows a change.
LEMMA BranchPreserves ==
  ASSUME IInv, NEW k \in DOMAIN checkpoints, Branch(k)
  PROVE  /\ IInv' /\ Len(dbs') = Len(dbs) + 1
         /\ \A x \in DOMAIN dbs : dbs'[x] = dbs[x] /\ Shown(dbs[x])' = Shown(dbs[x])
         /\ ~checkpoints[k].released
         /\ ShownIn(heap', touchedKeys', dbs'[Len(dbs')]) = checkpoints[k].frozen
<1> DEFINE s == checkpoints[k].snapshot
           n == Len(dbs) + 1
           Q == Partial(Collections, Refs')
<1>1. /\ ~checkpoints[k].released /\ NewDatabase(s) /\ mu' = Append(mu, NoProc)
      /\ UNCHANGED <<schema, checkpoints, capture, closed, writes>>
  BY DEF Branch, CanBranch
<1>2. TypeOK /\ KeysApart
  BY DEF IInv
<1>3. s \in Partial(Collections, Refs) /\ IsFiniteSet(DOMAIN s)
  <2> DEFINE R == [snapshot : Partial(Collections, Refs), released : BOOLEAN, frozen : Displayed]
  <2>1. checkpoints \in Seq(R)
    BY <1>2 DEF TypeOK
  <2> HIDE DEF R
  <2>2. checkpoints[k] \in R
    BY <2>1
  <2>3. s \in Partial(Collections, Refs)
    BY <2>2 DEF R
  <2> QED BY <2>3 DEF IInv, FiniteMaps
<1>4. PICK src, new :
         /\ Clones(src) /\ dbs' = Append(dbs, new)
         /\ new \in [DOMAIN s -> DOMAIN src]
         /\ \A a, b \in DOMAIN s : new[a] = new[b] => a = b
         /\ \A c \in DOMAIN s : src[new[c]] = s[c]
  BY <1>1, <1>2, <1>3, NewDatabaseFacts
<1>5. /\ heap' \in Seq(Stored') /\ Refs \subseteq Refs' /\ DOMAIN src \subseteq Refs'
      /\ \A x \in DOMAIN src : x \notin Refs
      /\ touchedKeys' \subseteq KeyObjects' /\ KeysApart'
      /\ \A e \in Refs : SeenIn(heap', touchedKeys', e) = SeenIn(heap, touchedKeys, e)
      /\ \A x \in DOMAIN src : SeenIn(heap', touchedKeys', x) = SeenIn(heap, touchedKeys, src[x])
  BY <1>2, <1>4, ClonesFacts
<1>6. /\ dbs \in Seq(Q)
      /\ checkpoints \in Seq([snapshot : Q, released : BOOLEAN, frozen : Displayed])
      /\ capture \in [Procs -> [pc : {"idle", "lock", "validate", "copy"}, db : Nat, snapshot : Q]]
  <2>1. Len(heap) <= Len(heap') /\ writes' \in Nat /\ writes <= writes'
    BY <1>1, <1>2, <1>4, BranchingAssumption DEF TypeOK, Clones
  <2> QED BY <1>2, <1>5, <2>1, TypesGrow, Zenon
<1>7. new \in Q /\ DOMAIN new = DOMAIN s /\ \A c \in DOMAIN s : new[c] \notin Refs
  <2>1. new \in [DOMAIN s -> Refs'] /\ DOMAIN s \in SUBSET Collections
    BY <1>3, <1>4, <1>5, PartialFacts
  <2> QED BY <1>4, <1>5, <2>1, PartialFacts
<1> HIDE DEF Q
<1>8. /\ dbs' \in Seq(Q) /\ Len(dbs') = n /\ DOMAIN dbs' = DOMAIN dbs \cup {n} /\ n \notin DOMAIN dbs
      /\ dbs'[n] = new /\ \A x \in DOMAIN dbs : dbs'[x] = dbs[x]
  <2>1. /\ dbs' \in Seq(Q) /\ Len(dbs') = n /\ dbs'[n] = new
        /\ \A x \in 1..Len(dbs) : dbs'[x] = dbs[x]
    BY <1>4, <1>6, <1>7, AppendProperties
  <2>2. /\ Len(dbs) \in Nat /\ DOMAIN dbs = 1..Len(dbs) /\ DOMAIN dbs' = 1..n
        /\ 1..n = 1..Len(dbs) \cup {n} /\ n \notin 1..Len(dbs)
    BY <1>6, <2>1
  <2> QED BY <2>1, <2>2
<1>9. /\ mu' \in Seq(Procs \cup {NoProc}) /\ Len(mu') = Len(dbs')
      /\ \A x \in DOMAIN dbs : mu'[x] = mu[x]
  <2> DEFINE M == Procs \cup {NoProc}
  <2>1. mu \in Seq(M) /\ NoProc \in M /\ Len(mu) = Len(dbs) /\ DOMAIN dbs = 1..Len(mu)
    BY <1>2 DEF TypeOK
  <2> HIDE DEF M
  <2>2. /\ mu' \in Seq(M) /\ Len(mu') = Len(mu) + 1
        /\ \A x \in 1..Len(mu) : mu'[x] = mu[x]
    BY <1>1, <2>1, AppendProperties
  <2> QED BY <1>8, <2>1, <2>2 DEF M
<1> HIDE DEF n
<1>10. TypeOK'
  BY <1>1, <1>2, <1>5, <1>6, <1>8, <1>9 DEF TypeOK, Q
<1>11. EnginesApart'
  <2>1. \A x \in DOMAIN dbs' : \/ x \in DOMAIN dbs /\ dbs'[x] = dbs[x]
                                  /\ \A y \in DOMAIN dbs'[x] : dbs'[x][y] \in Refs
                               \/ x = n /\ dbs'[x] = new
                                  /\ \A y \in DOMAIN dbs'[x] : dbs'[x][y] \notin Refs
    BY <1>2, <1>7, <1>8, References
  <2>2. \A d1, d2 \in DOMAIN dbs' : \A c1 \in DOMAIN dbs'[d1], c2 \in DOMAIN dbs'[d2] :
           dbs'[d1][c1] = dbs'[d2][c2] => d1 = d2 /\ c1 = c2
    <3> SUFFICES ASSUME NEW d1 \in DOMAIN dbs', NEW d2 \in DOMAIN dbs',
                        NEW c1 \in DOMAIN dbs'[d1], NEW c2 \in DOMAIN dbs'[d2],
                        dbs'[d1][c1] = dbs'[d2][c2]
                 PROVE  d1 = d2 /\ c1 = c2
      OBVIOUS
    <3>1. CASE d1 \in DOMAIN dbs /\ d2 \in DOMAIN dbs
      BY <1>8, <3>1 DEF IInv, EnginesApart
    <3>2. CASE d1 = n /\ d2 = n
      BY <1>4, <1>7, <1>8, <3>2
    <3>3. CASE (d1 = n /\ d2 \in DOMAIN dbs) \/ (d1 \in DOMAIN dbs /\ d2 = n)
      BY <1>8, <2>1, <3>3
    <3> QED BY <1>8, <3>1, <3>2, <3>3
  <2>3. \A x \in DOMAIN dbs', j \in DOMAIN checkpoints :
           \A y \in DOMAIN dbs'[x], z \in DOMAIN checkpoints[j].snapshot :
              dbs'[x][y] # checkpoints[j].snapshot[z]
    BY <1>2, <2>1, References DEF IInv, EnginesApart
  <2>4. \A x \in DOMAIN dbs', p \in Procs :
           \A y \in DOMAIN dbs'[x], z \in DOMAIN capture[p].snapshot :
              dbs'[x][y] # capture[p].snapshot[z]
    BY <1>2, <2>1, References DEF IInv, EnginesApart
  <2> QED BY <1>1, <2>2, <2>3, <2>4 DEF EnginesApart
<1>12. Copies'
  <2> SUFFICES ASSUME NEW p \in Procs PROVE CopiesOf(p)'
    BY DEF Copies
  <2>1. CopiesOf(p) /\ capture' = capture
    BY <1>1 DEF IInv, Copies
  <2>2. capture[p].pc = "copy" =>
           \A y \in DOMAIN capture[p].snapshot :
               /\ SeenIn(heap', touchedKeys', capture[p].snapshot[y])
                    = SeenIn(heap, touchedKeys, capture[p].snapshot[y])
               /\ SeenIn(heap', touchedKeys', dbs[capture[p].db][y])
                    = SeenIn(heap, touchedKeys, dbs[capture[p].db][y])
    BY <1>2, <1>5, <2>1, References DEF CopiesOf
  <2>3. capture[p].pc # "idle" =>
           /\ capture[p].db \in DOMAIN dbs' /\ dbs'[capture[p].db] = dbs[capture[p].db]
           /\ mu'[capture[p].db] = mu[capture[p].db]
    BY <1>8, <1>9, <2>1 DEF CopiesOf
  <2> QED BY <2>1, <2>2, <2>3 DEF CopiesOf
<1>13. FiniteMaps'
  BY <1>1, <1>3, <1>7, <1>8 DEF IInv, FiniteMaps
<1>14. CheckpointFrozen' /\ \A x \in DOMAIN dbs : Shown(dbs[x])' = Shown(dbs[x])
  BY <1>1, <1>5, <1>8, ShownKept, FrozenIs
<1>15. ShownIn(heap', touchedKeys', new) = checkpoints[k].frozen
  <2>1. \A c \in DOMAIN new : SeenIn(heap', touchedKeys', new[c]) = SeenIn(heap, touchedKeys, s[c])
    BY <1>4, <1>5, <1>7
  <2>2. ShownIn(heap', touchedKeys', new) = ShownIn(heap, touchedKeys, s)
    BY <1>7, <2>1, ShownAlike
  <2>3. ShownIn(heap, touchedKeys, s) = checkpoints[k].frozen
    BY <1>1, FrozenIs DEF IInv
  <2> QED BY <2>2, <2>3
<1> QED BY <1>1, <1>5, <1>8, <1>10, <1>11, <1>12, <1>13, <1>14, <1>15 DEF IInv, n

-----------------------------------------------------------------------------
(***************************************************************************)
(* Theorems                                                                *)
(***************************************************************************)

\* One empty database.
LEMMA InitIInv ==
  ASSUME Init
  PROVE  IInv
<1> DEFINE P == Partial(Collections, Refs)
<1>1. None \in P /\ DOMAIN None = {}
  BY PartialFacts DEF None
<1>2. NoCapture.pc = "idle" /\ NoCapture.snapshot = None /\ NoCapture.db = 0
  BY DEF NoCapture
<1>3. DOMAIN dbs = {1} /\ dbs[1] = None /\ DOMAIN heap = {} /\ DOMAIN checkpoints = {}
      /\ \A p \in Procs : capture[p] = NoCapture
  BY DEF Init
<1>4. TypeOK
  <2>1. capture \in [Procs -> [pc : {"idle", "lock", "validate", "copy"}, db : Nat, snapshot : P]]
    <3> HIDE DEF P
    <3> QED BY <1>1 DEF Init, NoCapture
  <2>2. dbs \in Seq(P) /\ Len(dbs) = 1
    <3> HIDE DEF P
    <3> QED BY <1>1 DEF Init
  <2>3. mu \in Seq(Procs \cup {NoProc}) /\ Len(mu) = 1
    BY DEF Init
  <2>4. heap \in Seq(Stored) /\ touchedKeys \subseteq KeyObjects /\ closed \subseteq DOMAIN dbs
        /\ writes \in 0..MaxWrites /\ schema \in [Collections -> {"serialized", "columnar"}]
        /\ checkpoints \in Seq([snapshot : P, released : BOOLEAN, frozen : Displayed])
    BY BranchingAssumption DEF Init
  <2> QED BY <2>1, <2>2, <2>3, <2>4 DEF TypeOK
<1>5. EnginesApart /\ KeysApart /\ CheckpointFrozen
  BY <1>1, <1>2, <1>3 DEF EnginesApart, KeysApart, Refs, CheckpointFrozen
<1>6. Copies
  BY <1>2, <1>3 DEF Copies, CopiesOf
<1>7. FiniteMaps
  BY <1>1, <1>3, FS_EmptySet DEF FiniteMaps
<1> QED BY <1>4, <1>5, <1>6, <1>7 DEF IInv

\* A write: one database may show a change, and none is added.
LEMMA WriteFacts ==
  ASSUME IInv, NEW d \in DOMAIN dbs, NEW c \in Collections, NEW i \in Ids,
         (\E v \in Values : Set(d, c, i, v)) \/ Delete(d, c, i) \/ ChangeKey(d, c, i)
  PROVE  IInv' /\ DatabasesIsolated /\ Len(dbs') = Len(dbs)
<1>1. IInv' /\ \A x \in DOMAIN dbs : x # d => Shown(dbs[x])' = Shown(dbs[x])
  BY SetPreserves, DeletePreserves, ChangeKeyPreserves
<1>2. Len(dbs') = Len(dbs)
  <2>1. (\E r : dbs' = [dbs EXCEPT ![d] = r]) \/ dbs' = dbs
    BY Zenon DEF Set, Delete, ChangeKey, SetContents, Register
  <2>2. dbs \in Seq(Partial(Collections, Refs))
    BY DEF IInv, TypeOK
  <2> QED BY <2>1, <2>2
<1> QED BY <1>1, <1>2 DEF DatabasesIsolated

\* Nothing is shown otherwise when objects, databases and keys are unchanged.
LEMMA QuietFacts ==
  ASSUME UNCHANGED <<heap, dbs, touchedKeys>>
  PROVE  DatabasesIsolated /\ Len(dbs') = Len(dbs)
  BY DEF DatabasesIsolated, Shown

\* Every step preserves the invariant, shows in one database at most, and a
\* database that it adds shows what a live checkpoint froze.
LEMMA StepFacts ==
  ASSUME IInv, Next
  PROVE  IInv' /\ DatabasesIsolated /\ NewBranchIsCheckpoint
<1>0. Len(dbs) \in Nat
  BY DEF IInv, TypeOK
<1>1. ASSUME Len(dbs') = Len(dbs) PROVE NewBranchIsCheckpoint
  BY <1>0, <1>1 DEF NewBranchIsCheckpoint
<1>2. CASE \E d \in DOMAIN dbs, c \in Collections, i \in Ids :
              (\E v \in Values : Set(d, c, i, v)) \/ Delete(d, c, i) \/ ChangeKey(d, c, i)
  BY <1>1, <1>2, WriteFacts
<1>3. ASSUME NEW p \in Procs,
             \/ \E d \in DOMAIN dbs : CaptureStart(p, d)
             \/ CaptureLock(p) \/ CaptureRefused(p) \/ CaptureValidated(p) \/ CapturePublish(p)
      PROVE  IInv' /\ DatabasesIsolated /\ NewBranchIsCheckpoint
  <2>1. IInv'
    BY <1>3, CaptureStartPreserves, CaptureLockPreserves, CaptureRefusedPreserves,
       CaptureValidatedPreserves, CapturePublishPreserves
  <2>2. UNCHANGED <<heap, dbs, touchedKeys>>
    BY <1>3 DEF CaptureStart, CaptureLock, CaptureRefused, CaptureValidated, CapturePublish
  <2> QED BY <1>1, <2>1, <2>2, QuietFacts
<1>4. ASSUME NEW p \in Procs, NEW c \in Collections, CaptureEngine(p, c)
      PROVE  IInv' /\ DatabasesIsolated /\ NewBranchIsCheckpoint
  <2>1. IInv' /\ \A x \in DOMAIN dbs : Shown(dbs[x])' = Shown(dbs[x])
    BY <1>4, CaptureEnginePreserves
  <2>2. Len(dbs') = Len(dbs)
    BY <1>4 DEF CaptureEngine
  <2> QED BY <1>1, <2>1, <2>2 DEF DatabasesIsolated
<1>5. ASSUME NEW k \in DOMAIN checkpoints, Branch(k)
      PROVE  IInv' /\ DatabasesIsolated /\ NewBranchIsCheckpoint
  <2>1. /\ IInv' /\ Len(dbs') = Len(dbs) + 1
        /\ \A x \in DOMAIN dbs : Shown(dbs[x])' = Shown(dbs[x])
        /\ ~checkpoints[k].released
        /\ ShownIn(heap', touchedKeys', dbs'[Len(dbs')]) = checkpoints[k].frozen
    BY <1>5, BranchPreserves
  <2>2. Shown(dbs[Len(dbs)])' = ShownIn(heap', touchedKeys', dbs'[Len(dbs')])
    BY DEF Shown, ShownIn, SeenIn
  <2>3. NewBranchIsCheckpoint
    BY <2>1, <2>2 DEF NewBranchIsCheckpoint
  <2> QED BY <2>1, <2>3 DEF DatabasesIsolated
<1>6. ASSUME NEW k \in DOMAIN checkpoints, Release(k)
      PROVE  IInv' /\ DatabasesIsolated /\ NewBranchIsCheckpoint
  BY <1>1, <1>6, ReleasePreserves, QuietFacts DEF Release
<1>7. ASSUME NEW d \in DOMAIN dbs, Close(d)
      PROVE  IInv' /\ DatabasesIsolated /\ NewBranchIsCheckpoint
  <2>1. closed' \subseteq DOMAIN dbs
    BY <1>7 DEF Close, IInv, TypeOK
  <2> QED BY <1>1, <1>7, <2>1, ClosePreserves, QuietFacts DEF Close
<1> QED BY <1>2, <1>3, <1>4, <1>5, <1>6, <1>7 DEF Next

\* Every step keeps the invariant.
LEMMA NextIInv ==
  ASSUME IInv, [Next]_vars
  PROVE  IInv'
<1>1. CASE UNCHANGED vars
  <2>1. closed' \subseteq DOMAIN dbs
    BY <1>1 DEF vars, IInv, TypeOK
  <2> QED BY <1>1, <2>1, ClosePreserves DEF vars
<1> QED BY <1>1, StepFacts

\* What Go objects databases, checkpoints and running captures share, and what
\* they show, is as the invariant says in every state.
THEOREM Invariance == Spec => []IInv
  BY InitIInv, NextIInv, PTL DEF Spec

\* Databases, checkpoints, captures and key objects stay well typed, and every
\* reference leads to an engine object.
THEOREM TypeCorrect == Spec => []TypeOK
<1>1. IInv => TypeOK
  BY DEF IInv
<1> QED BY <1>1, Invariance, PTL

\* A checkpoint shows what its source showed when Capture held the locks, for as
\* long as it is not released, whatever writers, generated inserts, other
\* captures and branches do.
THEOREM CheckpointsStayFrozen == Spec => []CheckpointFrozen
<1>1. IInv => CheckpointFrozen
  BY DEF IInv
<1> QED BY <1>1, Invariance, PTL

\* Source, siblings and branches of branches are isolated: no step shows in two
\* databases.
THEOREM BranchesIsolated == Spec => Isolation
<1>1. IInv /\ [Next]_vars => [DatabasesIsolated]_vars
  BY StepFacts
<1> QED BY <1>1, Invariance, PTL DEF Spec, Isolation

\* Branch makes a database that shows what a checkpoint froze, and only from a
\* checkpoint that is not released.
THEOREM BranchesFaithful == Spec => BranchFaithful
<1>1. IInv /\ [Next]_vars => [NewBranchIsCheckpoint]_vars
  BY StepFacts
<1> QED BY <1>1, Invariance, PTL DEF Spec, BranchFaithful
=============================================================================
