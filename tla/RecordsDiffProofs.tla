-------------------------- MODULE RecordsDiffProofs --------------------------
(***************************************************************************)
(* Proofs about recordops.Diff, for any number of candidates, streams of   *)
(* any length that end, fail, repeat an ID or go back anywhere, any data   *)
(* and any options.                                                        *)
(*                                                                         *)
(* The argument is the one of a merge.  There is always an ID f such that  *)
(* every cursor stands before f: what it has passed is smaller, and what   *)
(* it is at, if it has not ended, is not.  Everything below f that has to  *)
(* be reported has been, and nothing else.  While the cursors are advanced *)
(* past an ID d, those that had their turn stand before d + 1 and the      *)
(* others before d.  A stream that fails breaks at the ID it leaves.       *)
(***************************************************************************)
EXTENDS RecordsDiff, TLAPS, SequenceTheorems, FiniteSetTheorems, WellFoundedInduction

Datas ==
    UNION {UNION {{s.items[n].data : n \in DOMAIN s.items} : s \in Range(streams)} : streams \in Inputs}
CursorType ==
    [stream : {"idle", "running", "over"}, pos : Nat, live : BOOLEAN, id : Nat,
     data : SUBSET Datas, prev : Nat, closes : Nat]

\* A cursor at a record of the valid part of its stream, and one at its end.
AtRecord(c, s) ==
    /\ c.live /\ c.stream = "running" /\ c.closes = 0
    /\ c.pos \in 1..ValidLen(s)
    /\ c.id = s.items[c.pos].id /\ c.prev = c.id
    /\ c.data = {s.items[c.pos].data}
AtEnd(c, s) ==
    /\ ~c.live /\ c.stream = "over" /\ c.closes = 1
    /\ c.pos = ValidLen(s) /\ ValidLen(s) = Len(s.items)

\* What the cursor has passed is smaller than f; what it is at is not.
StandsBefore(c, s, f) ==
    /\ s.kind = "reader"
    /\ \/ AtRecord(c, s) /\ c.id >= f /\ \A n \in 1..(c.pos - 1) : s.items[n].id < f
       \/ AtEnd(c, s) /\ \A n \in 1..ValidLen(s) : s.items[n].id < f

\* The difference that has to be reported at an ID.
Expected(id) ==
    LET candidates == [i \in 1..(Len(input) - 1) |->
                         classify(DataOf(input[1], id), DataOf(input[i + 1], id), cfg)]
    IN  [id |-> id, candidates |-> candidates,
         baseline |-> {baselineFields(data, candidates, cfg) : data \in DataOf(input[1], id)}]

OutSound ==
    \A n \in DOMAIN out :
        /\ out[n].id \in Reported
        /\ out[n] = Expected(out[n].id)
        /\ \A m \in 1..(n - 1) : out[m].id < out[n].id
        /\ \A id \in Reported : id < out[n].id => \E m \in 1..(n - 1) : out[m].id = id

\* All that is below f has been reported, and no comparison below f fails.
OutBelow(f) ==
    /\ \A n \in DOMAIN out : out[n].id < f
    /\ \A id \in Reported : id < f => \E n \in DOMAIN out : out[n].id = id
    /\ \A id \in Incomparable : id >= f

-----------------------------------------------------------------------------
\* A set of naturals that is not empty has a least element.
LEMMA LeastElement ==
    ASSUME NEW S \in SUBSET Nat, S # {}
    PROVE  \E x \in S : \A y \in S : x <= y
<1> DEFINE below == {ss \in Nat \X Nat : ss[1] < ss[2]}
<1>0. IsWellFoundedOn(below, Nat)
  BY NatLessThanWellFounded, Zenon DEF OpToRel
<1>1. PICK x \in S : \A y \in S : ~(<<y, x>> \in below)
  <2> HIDE DEF below
  <2> QED
    BY <1>0, WFMin
<1>2. ASSUME NEW y \in S PROVE x <= y
  <2>1. x \in Nat /\ y \in Nat /\ <<y, x>> \notin below
    BY <1>1
  <2>2. ~(y < x)
    BY <2>1
  <2> QED
    BY <2>1, <2>2
<1> QED
  BY <1>2

\* A set of naturals that is not empty and has a bound has a greatest element.
LEMMA GreatestElement ==
    ASSUME NEW B \in Nat, NEW S \in SUBSET (0..B), S # {}
    PROVE  \E x \in S : \A y \in S : y <= x
<1> DEFINE N == {B - x : x \in S}
<1>1. N \in SUBSET Nat /\ N # {}
  <2>1. PICK x \in S : TRUE
    OBVIOUS
  <2>2. B - x \in N
    OBVIOUS
  <2>3. \A y \in S : B - y \in Nat
    OBVIOUS
  <2> QED
    BY <2>2, <2>3
<1>2. PICK y \in N : \A z \in N : y <= z
  <2> HIDE DEF N
  <2> QED
    BY <1>1, LeastElement
<1>3. PICK x \in S : y = B - x
  BY <1>2
<1>4. ASSUME NEW z \in S PROVE z <= x
  <2>1. B - z \in N
    OBVIOUS
  <2>2. y <= B - z
    BY <1>2, <2>1
  <2>3. x \in Nat /\ z \in Nat
    OBVIOUS
  <2> QED
    BY <1>3, <2>2, <2>3
<1> QED
  BY <1>4

\* The items of a stream.
LEMMA StreamItems ==
    ASSUME NEW s, IsStream(s)
    PROVE  /\ Len(s.items) \in Nat /\ DOMAIN s.items = 1..Len(s.items)
           /\ \A n \in 1..Len(s.items) :
                 /\ s.items[n].ok \in BOOLEAN /\ s.items[n].id \in Nat
                 /\ s.items[n].ok => s.items[n].id > 0
<1>1. Len(s.items) \in Nat /\ DOMAIN s.items = 1..Len(s.items)
  BY DEF IsStream
<1>2. \A n \in DOMAIN s.items : s.items[n] \in Range(s.items)
  BY DEF Range
<1> QED
  BY <1>1, <1>2 DEF IsStream

\* The valid part of a stream is a longest one.
LEMMA ValidPart ==
    ASSUME NEW s, IsStream(s)
    PROVE  /\ ValidLen(s) \in 0..Len(s.items)
           /\ \A n \in 1..ValidLen(s) :
                 s.items[n].ok /\ (n > 1 => s.items[n - 1].id < s.items[n].id)
           /\ \A m \in 0..Len(s.items) :
                 (\A n \in 1..m : s.items[n].ok /\ (n > 1 => s.items[n - 1].id < s.items[n].id))
                 => m <= ValidLen(s)
<1> DEFINE Good(n) == s.items[n].ok /\ (n > 1 => s.items[n - 1].id < s.items[n].id)
           valid == {m \in 0..Len(s.items) : \A n \in 1..m : Good(n)}
<1>1. Len(s.items) \in Nat
  BY StreamItems
<1>2. 0 \in valid
  BY <1>1
<1>3. \E x \in valid : \A y \in valid : y <= x
  <2>1. valid \in SUBSET (0..Len(s.items)) /\ valid # {}
    BY <1>2
  <2> HIDE DEF valid
  <2> QED
    BY <1>1, <2>1, GreatestElement
<1>4. ValidLen(s) = CHOOSE x \in valid : \A y \in valid : y <= x
  BY DEF ValidLen
<1>5. ValidLen(s) \in valid /\ \A y \in valid : y <= ValidLen(s)
  <2> HIDE DEF valid
  <2> QED
    BY <1>3, <1>4
<1> QED
  BY <1>5

\* IDs increase over the valid part, not only from one record to the next.
LEMMA ValidIncreasing ==
    ASSUME NEW s, IsStream(s), NEW m \in 1..ValidLen(s), NEW n \in 1..ValidLen(s), m < n
    PROVE  s.items[m].id < s.items[n].id
<1> DEFINE V == ValidLen(s)
           Bad == {x \in (m + 1)..V : ~(s.items[m].id < s.items[x].id)}
<1>1. V \in Nat /\ V <= Len(s.items) /\ \A x \in 1..V : s.items[x].id \in Nat
  BY ValidPart, StreamItems
<1>2. \A x \in 2..V : s.items[x - 1].id < s.items[x].id
  BY <1>1, ValidPart
<1>3. Bad = {}
  <2> SUFFICES ASSUME Bad # {} PROVE FALSE
    OBVIOUS
  <2>1. Bad \in SUBSET Nat
    BY <1>1
  <2>2. PICK x \in Bad : \A y \in Bad : x <= y
    <3> HIDE DEF Bad
    <3> QED
      BY <2>1, LeastElement
  <2>3. x \in (m + 1)..V /\ ~(s.items[m].id < s.items[x].id)
    BY <2>2
  <2>4. x - 1 \in 1..V /\ x \in 2..V /\ s.items[x - 1].id < s.items[x].id
    BY <1>1, <1>2, <2>3
  <2>5. CASE x - 1 = m
    BY <2>3, <2>4, <2>5
  <2>6. CASE x - 1 # m
    <3>1. x - 1 \in (m + 1)..V
      BY <1>1, <2>3, <2>6
    <3>2. x - 1 \notin Bad
      BY <2>2, <2>3
    <3>3. s.items[m].id < s.items[x - 1].id
      BY <3>1, <3>2
    <3> DEFINE a == s.items[m].id
               b == s.items[x - 1].id
               c == s.items[x].id
    <3>4. a \in Nat /\ b \in Nat /\ c \in Nat
      BY <1>1, <2>4
    <3>5. a < b /\ b < c /\ ~(a < c)
      BY <2>3, <2>4, <3>3
    <3> HIDE DEF a, b, c
    <3> QED BY <3>4, <3>5
  <2> QED
    BY <2>5, <2>6
<1> QED
  BY <1>1, <1>3

\* One call of advance on the stream's p-th record, or before its first one: the
\* next record, the end, or an error where the valid part of the stream ends.
LEMMA AdvanceOne ==
    ASSUME NEW s, IsStream(s), s.kind = "reader",
           \A n \in DOMAIN s.items : s.items[n].data \in Datas,
           NEW c \in CursorType, c.live, c.closes = 0, c.stream # "over",
           c.pos \in 0..ValidLen(s),
           c.prev = IF c.pos = 0 THEN 0 ELSE s.items[c.pos].id
    PROVE  /\ advance(c, s).cursor \in CursorType
           /\ \/ /\ advance(c, s).err = "none"
                 /\ c.pos + 1 <= ValidLen(s)
                 /\ AtRecord(advance(c, s).cursor, s)
                 /\ advance(c, s).cursor.pos = c.pos + 1
              \/ /\ advance(c, s).err = "none"
                 /\ c.pos = ValidLen(s)
                 /\ AtEnd(advance(c, s).cursor, s)
              \/ /\ advance(c, s).err \in {"upstream", "ErrDuplicateID", "ErrUnsortedInput"}
                 /\ c.pos = ValidLen(s) /\ ValidLen(s) < Len(s.items)
                 /\ advance(c, s).cursor.stream = "running"
                 /\ advance(c, s).cursor.closes = 0
<1> DEFINE V == ValidLen(s)
           p == c.pos
           item == s.items[p + 1]
           running == [c EXCEPT !.stream = "running", !.pos = @ + 1]
<1>1. /\ Len(s.items) \in Nat /\ DOMAIN s.items = 1..Len(s.items)
      /\ V \in 0..Len(s.items) /\ p \in Nat /\ p <= V
      /\ \A n \in 1..Len(s.items) :
            /\ s.items[n].ok \in BOOLEAN /\ s.items[n].id \in Nat
            /\ s.items[n].ok => s.items[n].id > 0
  BY StreamItems, ValidPart
<1>2. /\ running \in CursorType /\ running.stream = "running" /\ running.pos = p + 1
      /\ running.live = c.live /\ running.closes = 0
  <2> DEFINE q == p + 1
  <2>1. q \in Nat
    BY <1>1
  <2>2. running = [c EXCEPT !.stream = "running", !.pos = q]
    OBVIOUS
  <2> HIDE DEF q, running
  <2>3. running \in CursorType
    BY <2>1, <2>2 DEF CursorType
  <2>4. running.stream = "running" /\ running.pos = q /\ running.live = c.live /\ running.closes = 0
    BY <2>2 DEF CursorType
  <2> QED
    BY <2>3, <2>4 DEF q
<1> HIDE DEF running
<1>3. CASE p = Len(s.items)
  <2>1. advance(c, s) = [cursor |-> [Over(c) EXCEPT !.live = FALSE], err |-> "none"]
    BY <1>3 DEF advance
  <2>2. Over(c) = [c EXCEPT !.stream = "over", !.closes = 1]
    BY DEF Over
  <2> DEFINE over == [Over(c) EXCEPT !.live = FALSE]
  <2>3. over \in CursorType
    <3> DEFINE one == 1
    <3>0. Over(c) = [c EXCEPT !.stream = "over", !.closes = one] /\ one \in Nat
      BY <2>2
    <3> HIDE DEF one
    <3>1. Over(c) \in CursorType
      BY <3>0 DEF CursorType
    <3> QED
      BY <3>1 DEF CursorType
  <2>5. over.live = FALSE /\ over.stream = "over" /\ over.closes = 1 /\ over.pos = c.pos
    BY <2>2 DEF CursorType
  <2> HIDE DEF over
  <2>6. AtEnd(over, s)
    BY <1>1, <1>3, <2>5 DEF AtEnd
  <2>7. advance(c, s).cursor = over /\ advance(c, s).err = "none"
    BY <2>1 DEF over
  <2>4. c.pos = ValidLen(s)
    BY <1>1, <1>3
  <2> QED
    BY <2>3, <2>4, <2>6, <2>7
<1>4. CASE p < Len(s.items) /\ ~item.ok
  <2>1. advance(c, s) = Failed([running EXCEPT !.live = FALSE], "upstream")
    BY <1>1, <1>4 DEF advance, running
  <2>2. V = p
    <3>1. ~(p + 1 <= V)
      BY <1>1, <1>4, ValidPart
    <3> QED
      BY <1>1, <3>1
  <2>3. /\ [running EXCEPT !.live = FALSE] \in CursorType
        /\ [running EXCEPT !.live = FALSE].stream = "running"
        /\ [running EXCEPT !.live = FALSE].closes = 0
    BY <1>2 DEF CursorType
  <2> DEFINE failed == [running EXCEPT !.live = FALSE]
  <2>4. advance(c, s).cursor = failed /\ advance(c, s).err = "upstream"
    BY <2>1 DEF Failed
  <2> HIDE DEF failed
  <2> QED
    BY <1>4, <2>2, <2>3, <2>4 DEF failed
<1>5. CASE p < Len(s.items) /\ item.ok /\ c.prev >= item.id
  <2>1. advance(c, s) = Failed(running, IF c.prev = item.id THEN "ErrDuplicateID" ELSE "ErrUnsortedInput")
    BY <1>1, <1>5 DEF advance, running
  <2>2. p + 1 \in 1..Len(s.items)
    BY <1>1, <1>5
  <2>3. p > 0
    BY <1>1, <1>5, <2>2
  <2>4. V = p
    <3>1. ASSUME p + 1 <= V PROVE FALSE
      <4>1. s.items[(p + 1) - 1].id < s.items[p + 1].id
        BY <1>1, <2>3, <3>1, ValidPart
      <4>2. (p + 1) - 1 = p /\ p \in 1..Len(s.items)
        BY <1>1, <2>3, <1>5
      <4> QED
        <5>1. c.prev = s.items[p].id
          BY <2>3
        <5>2. s.items[p].id \in Nat /\ item.id \in Nat
          BY <1>1, <2>2, <4>2
        <5> QED
          BY <1>5, <4>1, <4>2, <5>1, <5>2
    <3> QED
      BY <1>1, <3>1
  <2>5. advance(c, s).cursor = running /\ advance(c, s).err \in {"ErrDuplicateID", "ErrUnsortedInput"}
    BY <2>1 DEF Failed
  <2> QED
    BY <1>2, <1>5, <2>4, <2>5
<1>6. CASE p < Len(s.items) /\ item.ok /\ ~(c.prev >= item.id)
  <2> DEFINE next == [running EXCEPT !.prev = item.id, !.id = item.id, !.data = {item.data}]
  <2>1. advance(c, s) = [cursor |-> next, err |-> "none"]
    BY <1>1, <1>6 DEF advance, running
  <2>2. p + 1 \in 1..Len(s.items) /\ item.id \in Nat /\ item.data \in Datas
    BY <1>1, <1>6
  <2>3. p + 1 <= V
    <3>1. ASSUME NEW n \in 1..(p + 1)
          PROVE  s.items[n].ok /\ (n > 1 => s.items[n - 1].id < s.items[n].id)
      <4>1. CASE n \in 1..p
        BY <1>1, <4>1, ValidPart
      <4>2. CASE n = p + 1
        <5>1. n > 1 => n - 1 = p /\ p # 0
          BY <1>1, <4>2
        <5>2. n > 1 => s.items[n - 1].id < item.id
          <6>1. c.prev \in Nat
            BY DEF CursorType
          <6> QED
            BY <1>6, <2>2, <5>1, <6>1
        <5> QED
          BY <1>6, <4>2, <5>2
      <4> QED
        BY <1>1, <4>1, <4>2
    <3>2. p + 1 \in 0..Len(s.items)
      BY <2>2
    <3> QED
      BY <3>1, <3>2, ValidPart
  <2>4. /\ next \in CursorType
        /\ next.live /\ next.stream = "running" /\ next.closes = 0 /\ next.pos = p + 1
        /\ next.id = item.id /\ next.prev = item.id /\ next.data = {item.data}
    <3> DEFINE id == item.id
               data == {item.data}
    <3>1. next = [running EXCEPT !.prev = id, !.id = id, !.data = data]
      OBVIOUS
    <3>2. id \in Nat /\ data \in SUBSET Datas
      BY <2>2
    <3> HIDE DEF id, data, next
    <3>3. next \in CursorType
      BY <1>2, <3>1, <3>2 DEF CursorType
    <3>4. /\ next.live = running.live /\ next.stream = running.stream /\ next.closes = running.closes
          /\ next.pos = running.pos /\ next.id = id /\ next.prev = id /\ next.data = data
      BY <1>2, <3>1 DEF CursorType
    <3> QED
      BY <1>2, <3>3, <3>4 DEF id, data
  <2> HIDE DEF next
  <2>5. AtRecord(next, s)
    BY <1>1, <2>2, <2>3, <2>4 DEF AtRecord
  <2> QED
    BY <2>1, <2>3, <2>4, <2>5
<1> QED
  BY <1>1, <1>3, <1>4, <1>5, <1>6

-----------------------------------------------------------------------------
(***************************************************************************)
(* What it means for one cursor to stand before an ID.                     *)
(***************************************************************************)

\* Records of the valid part have IDs.
LEMMA ValidIDs ==
    ASSUME NEW s, IsStream(s)
    PROVE  /\ ValidLen(s) \in Nat /\ ValidLen(s) <= Len(s.items) /\ Len(s.items) \in Nat
           /\ \A n \in 1..ValidLen(s) : s.items[n].id \in Nat
BY ValidPart, StreamItems

\* A record at or above the ID is not behind the cursor.
LEMMA RecordAhead ==
    ASSUME NEW s, IsStream(s), NEW c, NEW f \in Nat, StandsBefore(c, s, f),
           NEW n \in 1..ValidLen(s), s.items[n].id >= f
    PROVE  AtRecord(c, s) /\ c.id <= s.items[n].id
<1>1. ValidLen(s) \in Nat /\ \A m \in 1..ValidLen(s) : s.items[m].id \in Nat
  BY ValidIDs
<1>2. ~AtEnd(c, s) \/ ~\A m \in 1..ValidLen(s) : s.items[m].id < f
  BY <1>1
<1>3. AtRecord(c, s) /\ c.id >= f /\ \A m \in 1..(c.pos - 1) : s.items[m].id < f
  BY <1>2 DEF StandsBefore
<1>4. c.pos \in 1..ValidLen(s) /\ c.id = s.items[c.pos].id
  BY <1>3 DEF AtRecord
<1>5. ~(n < c.pos)
  <2> SUFFICES ASSUME n < c.pos PROVE FALSE
    OBVIOUS
  <2>1. n \in 1..(c.pos - 1)
    BY <1>1, <1>4
  <2> QED
    BY <1>1, <1>3, <2>1
<1>6. CASE n = c.pos
  BY <1>1, <1>3, <1>4, <1>6
<1>7. CASE c.pos < n
  <2>1. s.items[c.pos].id < s.items[n].id
    BY <1>4, <1>7, ValidIncreasing
  <2> QED
    BY <1>1, <1>3, <1>4, <2>1
<1> QED
  BY <1>1, <1>4, <1>5, <1>6, <1>7

\* What the cursor shows at the ID is what the whole stream has there.
LEMMA ShowsData ==
    ASSUME NEW s, IsStream(s), NEW c, NEW f \in Nat, StandsBefore(c, s, f)
    PROVE  DataOf(s, f) = IF c.live /\ c.id = f THEN c.data ELSE {}
<1> DEFINE here == {m \in 1..ValidLen(s) : s.items[m].id = f}
<1>1. ValidLen(s) \in Nat /\ \A m \in 1..ValidLen(s) : s.items[m].id \in Nat
  BY ValidIDs
<1>2. DataOf(s, f) = {s.items[n].data : n \in here}
  BY DEF DataOf
<1>3. CASE c.live /\ c.id = f
  <2>1. AtRecord(c, s)
    BY <1>3 DEF StandsBefore, AtEnd
  <2>2. c.pos \in here /\ c.data = {s.items[c.pos].data}
    BY <1>3, <2>1 DEF AtRecord
  <2>3. ASSUME NEW n \in here PROVE n = c.pos
    <3>1. n \in 1..ValidLen(s) /\ c.pos \in 1..ValidLen(s) /\ s.items[n].id = s.items[c.pos].id
      BY <2>2, <2>3
    <3>2. ~(n < c.pos)
      BY <1>1, <3>1, ValidIncreasing
    <3>3. ~(c.pos < n)
      BY <1>1, <3>1, ValidIncreasing
    <3> QED
      BY <1>1, <3>1, <3>2, <3>3
  <2>4. here = {c.pos}
    BY <2>2, <2>3
  <2> HIDE DEF here
  <2> QED
    BY <1>2, <1>3, <2>2, <2>4
<1>4. CASE ~(c.live /\ c.id = f)
  <2>1. ASSUME NEW n \in here PROVE FALSE
    <3>1. n \in 1..ValidLen(s) /\ s.items[n].id = f /\ s.items[n].id >= f
      BY <2>1
    <3>2. AtRecord(c, s) /\ c.id <= f
      BY <3>1, RecordAhead
    <3>3. c.live /\ c.id >= f /\ c.id \in Nat
      BY <1>1, <3>2 DEF AtRecord, StandsBefore, AtEnd
    <3> QED
      BY <1>4, <3>2, <3>3
  <2> QED
    BY <1>2, <1>4, <2>1
<1> QED
  BY <1>3, <1>4

\* A stream that is going to break does so at the ID or later.
LEMMA BreakAhead ==
    ASSUME NEW s, IsStream(s), NEW c, NEW f \in Nat, StandsBefore(c, s, f),
           s.kind = "nil" \/ ValidLen(s) < Len(s.items)
    PROVE  BreaksAt(s) >= f
<1>1. ValidLen(s) \in Nat /\ Len(s.items) \in Nat /\ \A m \in 1..ValidLen(s) : s.items[m].id \in Nat
  BY ValidIDs
<1>2. AtRecord(c, s) /\ c.id >= f
  BY <1>1 DEF StandsBefore, AtEnd
<1>3. c.pos \in 1..ValidLen(s) /\ c.id = s.items[c.pos].id
  BY <1>2 DEF AtRecord
<1>4. BreaksAt(s) = s.items[ValidLen(s)].id /\ ValidLen(s) \in 1..ValidLen(s)
  BY <1>1, <1>3 DEF BreaksAt
<1>5. CASE c.pos = ValidLen(s)
  BY <1>2, <1>3, <1>4, <1>5
<1>6. CASE c.pos < ValidLen(s)
  <2>1. s.items[c.pos].id < s.items[ValidLen(s)].id
    BY <1>3, <1>4, <1>6, ValidIncreasing
  <2> QED
    BY <1>1, <1>2, <1>3, <1>4, <2>1
<1> QED
  BY <1>1, <1>3, <1>5, <1>6

\* A cursor that is not at the ID stands before the next one.
LEMMA SkipBefore ==
    ASSUME NEW s, IsStream(s), NEW c \in CursorType, NEW d \in Nat, StandsBefore(c, s, d),
           ~(c.live /\ c.id = d)
    PROVE  StandsBefore(c, s, d + 1)
<1>1. ValidLen(s) \in Nat /\ \A m \in 1..ValidLen(s) : s.items[m].id \in Nat
  BY ValidIDs
<1>2. CASE AtEnd(c, s) /\ \A n \in 1..ValidLen(s) : s.items[n].id < d
  BY <1>1, <1>2 DEF StandsBefore
<1>3. CASE AtRecord(c, s) /\ c.id >= d /\ \A n \in 1..(c.pos - 1) : s.items[n].id < d
  <2>1. c.live /\ c.id \in Nat /\ c.pos \in 1..ValidLen(s)
    BY <1>3 DEF AtRecord, CursorType
  <2>2. c.id >= d + 1
    BY <1>3, <2>1
  <2>3. \A n \in 1..(c.pos - 1) : s.items[n].id < d + 1
    BY <1>1, <1>3, <2>1
  <2> QED
    BY <1>3, <2>2, <2>3 DEF StandsBefore
<1> QED
  BY <1>2, <1>3 DEF StandsBefore

\* A cursor at the ID that is advanced stands before the next one, or its stream
\* breaks at the ID.
LEMMA AdvanceBefore ==
    ASSUME NEW s, IsStream(s), \A n \in DOMAIN s.items : s.items[n].data \in Datas,
           NEW c \in CursorType, NEW d \in Nat, StandsBefore(c, s, d), c.live, c.id = d
    PROVE  /\ advance(c, s).cursor \in CursorType
           /\ advance(c, s).err = "none" => StandsBefore(advance(c, s).cursor, s, d + 1)
           /\ advance(c, s).err # "none" =>
                 /\ ValidLen(s) < Len(s.items) /\ BreaksAt(s) = d
                 /\ advance(c, s).cursor.stream = "running"
                 /\ advance(c, s).cursor.closes = 0
<1> DEFINE r == advance(c, s)
           V == ValidLen(s)
<1>1. V \in Nat /\ Len(s.items) \in Nat /\ \A m \in 1..V : s.items[m].id \in Nat
  BY ValidIDs
<1>2. AtRecord(c, s) /\ s.kind = "reader" /\ \A n \in 1..(c.pos - 1) : s.items[n].id < d
  BY DEF StandsBefore, AtEnd
<1>3. /\ c.pos \in 1..V /\ c.id = s.items[c.pos].id /\ c.prev = c.id
      /\ c.closes = 0 /\ c.stream = "running"
  BY <1>2 DEF AtRecord
<1>4. /\ c.pos \in 0..V /\ c.prev = IF c.pos = 0 THEN 0 ELSE s.items[c.pos].id
  BY <1>1, <1>3
<1>5. /\ r.cursor \in CursorType
      /\ \/ r.err = "none" /\ c.pos + 1 <= V /\ AtRecord(r.cursor, s) /\ r.cursor.pos = c.pos + 1
         \/ r.err = "none" /\ c.pos = V /\ AtEnd(r.cursor, s)
         \/ /\ r.err \in {"upstream", "ErrDuplicateID", "ErrUnsortedInput"}
            /\ c.pos = V /\ V < Len(s.items)
            /\ r.cursor.stream = "running" /\ r.cursor.closes = 0
  BY <1>2, <1>3, <1>4, AdvanceOne
<1> HIDE DEF r
<1>6. \A n \in 1..c.pos : s.items[n].id < d + 1
  <2> SUFFICES ASSUME NEW n \in 1..c.pos PROVE s.items[n].id < d + 1
    OBVIOUS
  <2>1. CASE n = c.pos
    BY <1>3, <2>1
  <2>2. CASE n # c.pos
    <3>1. n \in 1..(c.pos - 1) /\ n \in 1..V
      BY <1>1, <1>3, <2>2
    <3> QED
      BY <1>1, <1>2, <3>1
  <2> QED
    BY <2>1, <2>2
<1>7. CASE r.err = "none" /\ c.pos + 1 <= V /\ AtRecord(r.cursor, s) /\ r.cursor.pos = c.pos + 1
  <2>1. r.cursor.id = s.items[c.pos + 1].id /\ c.pos + 1 \in 1..V
    BY <1>1, <1>3, <1>7 DEF AtRecord
  <2>2. s.items[c.pos].id < s.items[c.pos + 1].id
    BY <1>1, <1>3, <2>1, ValidIncreasing
  <2>3. r.cursor.id >= d + 1
    BY <1>1, <1>3, <2>1, <2>2
  <2>4. 1..(r.cursor.pos - 1) = 1..c.pos
    BY <1>1, <1>3, <1>7
  <2> QED
    BY <1>2, <1>5, <1>6, <1>7, <2>3, <2>4 DEF StandsBefore, r
<1>8. CASE r.err = "none" /\ c.pos = V /\ AtEnd(r.cursor, s)
  BY <1>2, <1>5, <1>6, <1>8 DEF StandsBefore, r
<1>9. CASE /\ r.err \in {"upstream", "ErrDuplicateID", "ErrUnsortedInput"}
           /\ c.pos = V /\ V < Len(s.items)
           /\ r.cursor.stream = "running" /\ r.cursor.closes = 0
  <2>1. BreaksAt(s) = d
    BY <1>1, <1>3, <1>9 DEF BreaksAt
  <2> QED
    BY <1>5, <1>9, <2>1 DEF r
<1> QED
  BY <1>5, <1>7, <1>8, <1>9

\* The first record of a stream that is opened.
LEMMA PrimeBefore ==
    ASSUME NEW s, IsStream(s), \A n \in DOMAIN s.items : s.items[n].data \in Datas
    PROVE  LET r == advance(newCursor, s) IN
           /\ r.cursor \in CursorType
           /\ r.err = "none" => StandsBefore(r.cursor, s, 0)
           /\ r.err # "none" =>
                 /\ s.kind = "nil" \/ ValidLen(s) < Len(s.items)
                 /\ BreaksAt(s) = 0
                 /\ \/ s.kind = "reader" /\ r.cursor.stream = "running" /\ r.cursor.closes = 0
                    \/ /\ s.kind = "nil" /\ r.cursor.stream = "over"
                       /\ r.cursor.closes = 0 /\ r.cursor.pos = 0
<1> DEFINE r == advance(newCursor, s)
           V == ValidLen(s)
<1>1. V \in Nat /\ Len(s.items) \in Nat /\ V <= Len(s.items)
  BY ValidIDs
<1>2. /\ newCursor \in CursorType /\ newCursor.live /\ newCursor.closes = 0 /\ newCursor.pos = 0
      /\ newCursor.stream = "idle" /\ newCursor.prev = 0
  BY DEF newCursor, CursorType
<1>3. CASE s.kind = "reader"
  <2>1. newCursor.pos \in 0..V
    BY <1>1, <1>2
  <2>2. /\ r.cursor \in CursorType
        /\ \/ r.err = "none" /\ 0 + 1 <= V /\ AtRecord(r.cursor, s) /\ r.cursor.pos = 0 + 1
           \/ r.err = "none" /\ 0 = V /\ AtEnd(r.cursor, s)
           \/ /\ r.err \in {"upstream", "ErrDuplicateID", "ErrUnsortedInput"}
              /\ 0 = V /\ V < Len(s.items)
              /\ r.cursor.stream = "running" /\ r.cursor.closes = 0
    BY <1>2, <1>3, <2>1, AdvanceOne
  <2> HIDE DEF r
  <2>3. CASE r.err = "none" /\ 0 + 1 <= V /\ AtRecord(r.cursor, s) /\ r.cursor.pos = 0 + 1
    <3>1. r.cursor.id >= 0 /\ 1..(r.cursor.pos - 1) = {}
      BY <2>2, <2>3 DEF CursorType
    <3> QED
      BY <1>3, <2>2, <2>3, <3>1 DEF StandsBefore, r
  <2>4. CASE r.err = "none" /\ 0 = V /\ AtEnd(r.cursor, s)
    <3>1. 1..V = {}
      BY <2>4
    <3> QED
      BY <1>3, <2>2, <2>4, <3>1 DEF StandsBefore, r
  <2>5. CASE /\ r.err \in {"upstream", "ErrDuplicateID", "ErrUnsortedInput"}
             /\ 0 = V /\ V < Len(s.items)
             /\ r.cursor.stream = "running" /\ r.cursor.closes = 0
    BY <1>3, <2>2, <2>5 DEF BreaksAt, r
  <2> QED
    BY <2>2, <2>3, <2>4, <2>5
<1>4. CASE s.kind = "nil"
  <2>1. r = Failed([newCursor EXCEPT !.stream = "over"], "panic")
    BY <1>4 DEF advance
  <2>2. r.err = "panic" /\ r.cursor = [newCursor EXCEPT !.stream = "over"]
    BY <2>1 DEF Failed
  <2>3. r.cursor \in CursorType /\ r.cursor.stream = "over" /\ r.cursor.closes = 0 /\ r.cursor.pos = 0
    BY <1>2, <2>2 DEF CursorType
  <2>4. V = 0
    BY <1>1, <1>4 DEF IsStream
  <2> QED
    BY <1>4, <2>2, <2>3, <2>4 DEF BreaksAt
<1> QED
  BY <1>3, <1>4 DEF IsStream

-----------------------------------------------------------------------------
(***************************************************************************)
(* The inductive invariant, by the place where DiffFunc is.                *)
(***************************************************************************)
Opened == cursors \in [DOMAIN input -> CursorType]
Quiet == err = "none" /\ broke = FALSE
AllBefore(f) == \A i \in DOMAIN input : StandsBefore(cursors[i], input[i], f)

\* The consumer has got everything, or an error where something breaks.
Ending ==
    ~broke => /\ \A id \in Reported : \E n \in DOMAIN out : out[n].id = id
              /\ (err = "none") <=> (BrokenAt \cup Incomparable = {})

\* A stream that was never asked: an earlier one failed at once.
NeverAsked(i) == i > 1 /\ err \in {"upstream", "panic"} /\ out = <<>>

Stoppable(i) ==
    LET c == cursors[i] IN
    \/ c.stream = "idle" /\ c.pos = 0 /\ c.closes = 0 /\ NeverAsked(i) /\ cursors[1].stream # "idle"
    \/ input[i].kind = "reader" /\ c.stream = "running" /\ c.closes = 0
    \/ input[i].kind = "reader" /\ c.stream = "over" /\ c.closes = 1
    \/ input[i].kind = "nil" /\ c.stream = "over" /\ c.closes = 0 /\ c.pos = 0

Stopped(i) ==
    \/ cursors[i].closes = 1
    \/ /\ cursors[i].closes = 0 /\ cursors[i].pos = 0
       /\ \/ input[i].kind = "nil"
          \/ NeverAsked(i) /\ (cursors[1].closes = 1 \/ input[1].kind = "nil")

BeginInv == pc = "begin" => Quiet /\ out = <<>> /\ k = 1
PrimeInv ==
    pc = "prime" =>
        /\ cfg.less /\ Opened /\ Quiet /\ out = <<>> /\ k \in DOMAIN input
        /\ \A i \in 1..(k - 1) : StandsBefore(cursors[i], input[i], 0)
        /\ \A i \in k..Len(input) : cursors[i] = newCursor
MergeInv ==
    pc = "merge" =>
        /\ cfg.less /\ Opened /\ Quiet
        /\ \E f \in Nat : AllBefore(f) /\ OutBelow(f)
DiffInv ==
    /\ diff.id \in KnownIDs \ Incomparable
    /\ diff = Expected(diff.id)
    /\ OutBelow(diff.id)
AdvanceInv ==
    pc = "advance" =>
        /\ cfg.less /\ Opened /\ Quiet /\ k \in DOMAIN input /\ DiffInv
        /\ \A i \in 1..(k - 1) : StandsBefore(cursors[i], input[i], diff.id + 1)
        /\ \A i \in k..Len(input) : StandsBefore(cursors[i], input[i], diff.id)
YieldInv ==
    pc = "yield" => cfg.less /\ Opened /\ Quiet /\ DiffInv /\ AllBefore(diff.id + 1)
StopInv == pc = "stop" => cfg.less /\ Opened /\ Ending /\ \A i \in DOMAIN input : Stoppable(i)
DoneInv ==
    (pc = "done" /\ cfg.less) =>
        DOMAIN cursors = DOMAIN input /\ Ending /\ \A i \in DOMAIN input : Stopped(i)

TypeOK ==
    /\ input \in Inputs /\ cfg \in Options
    /\ pc \in {"begin", "prime", "merge", "advance", "yield", "stop", "done"}
    /\ out \in Seq({Expected(id) : id \in Nat})

IInv ==
    /\ TypeOK /\ OutSound
    /\ BeginInv /\ PrimeInv /\ MergeInv /\ AdvanceInv /\ YieldInv /\ StopInv /\ DoneInv

-----------------------------------------------------------------------------
\* The streams of an input.
LEMMA InputStreams ==
    ASSUME input \in Inputs
    PROVE  /\ Len(input) \in Nat /\ Len(input) > 0 /\ DOMAIN input = 1..Len(input)
           /\ \A i \in DOMAIN input :
                 /\ IsStream(input[i]) /\ input[i] \in Range(input)
                 /\ \A n \in DOMAIN input[i].items : input[i].items[n].data \in Datas
<1>1. input \in Seq(Range(input)) /\ input # <<>> /\ \A s \in Range(input) : IsStream(s)
  BY DiffAssumption
<1>2. \A i \in DOMAIN input : input[i] \in Range(input)
  BY DEF Range
<1>3. ASSUME NEW i \in DOMAIN input, NEW n \in DOMAIN input[i].items
      PROVE  input[i].items[n].data \in Datas
  <2>1. input[i].items[n].data \in {input[i].items[m].data : m \in DOMAIN input[i].items}
    OBVIOUS
  <2> QED
    BY <1>2, <2>1 DEF Datas
<1>4. Len(input) \in Nat /\ DOMAIN input = 1..Len(input)
  BY <1>1
<1>5. Len(input) > 0
  BY <1>1, <1>4, EmptySeq
<1> QED
  BY <1>1, <1>2, <1>3, <1>4, <1>5

\* The IDs of an input are those of the valid parts of its streams.
LEMMA Known ==
    ASSUME input \in Inputs, NEW id
    PROVE  /\ id \in KnownIDs <=>
                 \E i \in DOMAIN input : \E n \in 1..ValidLen(input[i]) : input[i].items[n].id = id
           /\ id \in KnownIDs => id \in Nat
<1>1. id \in KnownIDs <=>
        \E s \in Range(input) : \E n \in 1..ValidLen(s) : s.items[n].id = id
  BY DEF KnownIDs
<1>2. Range(input) = {input[i] : i \in DOMAIN input}
  BY DEF Range
<1>3. id \in KnownIDs <=>
        \E i \in DOMAIN input : \E n \in 1..ValidLen(input[i]) : input[i].items[n].id = id
  BY <1>1, <1>2
<1> QED
  BY <1>3, InputStreams, ValidIDs

\* IDs are known when they are reported or cannot be compared.
LEMMA SomeKnown ==
    /\ Reported \in SUBSET KnownIDs
    /\ Incomparable \in SUBSET KnownIDs
BY DEF Reported, Incomparable

\* With all cursors before f, every known ID that is not below f is at or above
\* some live cursor.
LEMMA KnownAhead ==
    ASSUME input \in Inputs, Opened, NEW f \in Nat, AllBefore(f), NEW id \in KnownIDs, id >= f
    PROVE  \E other \in liveIDs : other <= id
<1>0. PICK i \in DOMAIN input : \E n \in 1..ValidLen(input[i]) : input[i].items[n].id = id
  BY Known
<1>1. PICK n \in 1..ValidLen(input[i]) : input[i].items[n].id = id
  BY <1>0
<1>2. AtRecord(cursors[i], input[i]) /\ cursors[i].id <= id
  BY <1>1, InputStreams, RecordAhead DEF AllBefore
<1>3. cursors[i].live /\ i \in DOMAIN cursors
  BY <1>2 DEF AtRecord, Opened
<1>4. cursors[i].id \in liveIDs
  BY <1>3 DEF liveIDs
<1> QED
  BY <1>2, <1>4

\* With all cursors before f, nothing breaks below f.
LEMMA BrokenAhead ==
    ASSUME input \in Inputs, NEW f \in Nat, AllBefore(f), NEW at \in BrokenAt
    PROVE  at >= f
<1>1. PICK s \in Range(input) : at = BreaksAt(s) /\ (s.kind = "nil" \/ ValidLen(s) < Len(s.items))
  BY DEF BrokenAt
<1>2. PICK i \in DOMAIN input : s = input[i]
  BY DEF Range
<1> QED
  BY <1>1, <1>2, InputStreams, BreakAhead DEF AllBefore

\* A stream that breaks.
LEMMA BreaksThere ==
    ASSUME input \in Inputs, NEW i \in DOMAIN input,
           input[i].kind = "nil" \/ ValidLen(input[i]) < Len(input[i].items)
    PROVE  BreaksAt(input[i]) \in BrokenAt
BY InputStreams DEF BrokenAt

\* Only reported IDs are reported: they are known and below every break.
LEMMA ReportedBelow ==
    ASSUME NEW id \in Reported, NEW at \in BrokenAt \cup Incomparable
    PROVE  id < at
BY DEF Reported

-----------------------------------------------------------------------------
\* What is said of the streams and options does not change.
LEMMA Fixed ==
    ASSUME UNCHANGED <<input, cfg>>
    PROVE  /\ KnownIDs' = KnownIDs /\ Reported' = Reported
           /\ BrokenAt' = BrokenAt /\ Incomparable' = Incomparable
           /\ \A id : Expected(id)' = Expected(id)
<1>1. KnownIDs' = KnownIDs
  BY DEF KnownIDs
<1>2. BrokenAt' = BrokenAt
  BY DEF BrokenAt
<1>3. Incomparable' = Incomparable
  BY <1>1 DEF Incomparable
<1>4. \A i, id : StatusOf(i, id)' = StatusOf(i, id)
  BY DEF StatusOf, Differs, Lookup, Plain
<1>5. Reported' = Reported
  BY <1>1, <1>2, <1>3, <1>4 DEF Reported
<1>6. \A id : Expected(id)' = Expected(id)
  BY DEF Expected
<1> QED
  BY <1>1, <1>2, <1>3, <1>5, <1>6

\* Steps that yield nothing keep what has been yielded right.
LEMMA OutKept ==
    ASSUME TypeOK, OutSound, UNCHANGED <<input, cfg, out>>,
           pc' \in {"begin", "prime", "merge", "advance", "yield", "stop", "done"}
    PROVE  TypeOK' /\ OutSound'
<1>1. {Expected(id)' : id \in Nat} = {Expected(id) : id \in Nat}
  BY Fixed
<1>2. TypeOK'
  BY <1>1 DEF TypeOK
<1>3. OutSound'
  BY Fixed DEF OutSound
<1> QED
  BY <1>2, <1>3

\* It is enough to look at the place that has been reached.
LEMMA OnePlace ==
    ASSUME TypeOK', OutSound',
           \/ pc' = "prime" /\ PrimeInv'
           \/ pc' = "merge" /\ MergeInv'
           \/ pc' = "advance" /\ AdvanceInv'
           \/ pc' = "yield" /\ YieldInv'
           \/ pc' = "stop" /\ StopInv'
           \/ pc' = "done" /\ DoneInv'
    PROVE  IInv'
<1>1. pc' # "begin"
  OBVIOUS
<1>2. BeginInv'
  BY <1>1 DEF BeginInv
<1>3. pc' # "prime" => PrimeInv'
  BY DEF PrimeInv
<1>4. pc' # "merge" => MergeInv'
  BY DEF MergeInv
<1>5. pc' # "advance" => AdvanceInv'
  BY DEF AdvanceInv
<1>6. pc' # "yield" => YieldInv'
  BY DEF YieldInv
<1>7. pc' # "stop" => StopInv'
  BY DEF StopInv
<1>8. pc' # "done" => DoneInv'
  BY DEF DoneInv
<1> QED
  BY <1>2, <1>3, <1>4, <1>5, <1>6, <1>7, <1>8 DEF IInv

\* Begin: streams are opened only with an order.
LEMMA BeginKeeps ==
    ASSUME IInv, Begin
    PROVE  IInv'
<1>1. /\ UNCHANGED <<input, cfg, k, diff, out, broke>> /\ pc = "begin"
      /\ Quiet /\ out = <<>> /\ k = 1 /\ TypeOK /\ OutSound
  BY DEF Begin, IInv, BeginInv
<1>2. TypeOK' /\ OutSound'
  BY <1>1, OutKept DEF Begin
<1>3. cfg.less \in BOOLEAN /\ input \in Inputs
  BY <1>1, DiffAssumption DEF TypeOK
<1>4. CASE cfg.less
  <2>1. pc' = "prime" /\ cursors' = [i \in DOMAIN input |-> newCursor] /\ err' = err
    BY <1>4 DEF Begin
  <2>2. newCursor \in CursorType
    BY DEF newCursor, CursorType
  <2>3. Opened'
    BY <1>1, <2>1, <2>2 DEF Opened
  <2>4. 1 \in DOMAIN input /\ DOMAIN input = 1..Len(input) /\ 1..(1 - 1) = {}
    BY <1>3, InputStreams
  <2>5. \A i \in 1..Len(input) : cursors'[i] = newCursor
    BY <2>1, <2>4
  <2>6. PrimeInv'
    BY <1>1, <1>4, <2>1, <2>3, <2>4, <2>5 DEF PrimeInv, Quiet
  <2> QED
    BY <1>2, <2>1, <2>6, OnePlace
<1>5. CASE ~cfg.less
  <2>1. pc' = "done" /\ cfg' = cfg
    BY <1>5 DEF Begin
  <2>2. DoneInv'
    BY <1>5, <2>1 DEF DoneInv
  <2> QED
    BY <1>2, <2>1, <2>2, OnePlace
<1> QED
  BY <1>3, <1>4, <1>5

\* A break at 0 leaves nothing to report.
LEMMA NothingReported ==
    ASSUME input \in Inputs, 0 \in BrokenAt
    PROVE  Reported = {}
<1> SUFFICES ASSUME NEW id \in Reported PROVE FALSE
  OBVIOUS
<1>1. id \in Nat /\ id < 0
  BY SomeKnown, Known, ReportedBelow
<1> QED
  BY <1>1

\* Opening the streams one by one.
LEMMA PrimeKeeps ==
    ASSUME IInv, Prime
    PROVE  IInv'
<1>1. /\ UNCHANGED <<input, cfg, diff, out, broke>> /\ pc = "prime"
      /\ cfg.less /\ Opened /\ Quiet /\ out = <<>> /\ k \in DOMAIN input
      /\ \A i \in 1..(k - 1) : StandsBefore(cursors[i], input[i], 0)
      /\ \A i \in k..Len(input) : cursors[i] = newCursor
      /\ TypeOK /\ OutSound
  BY DEF Prime, IInv, PrimeInv
<1>2. input \in Inputs /\ DOMAIN input = 1..Len(input) /\ Len(input) \in Nat
  BY <1>1, InputStreams DEF TypeOK
<1>3. IsStream(input[k]) /\ \A n \in DOMAIN input[k].items : input[k].items[n].data \in Datas
  BY <1>1, <1>2, InputStreams
<1>4. Len(cursors) = Len(input) /\ cursors[k] = newCursor /\ k \in 1..Len(input)
  BY <1>1, <1>2 DEF Opened
<1>5. PICK error \in {"none", "upstream", "panic"} :
        /\ AdvanceCursor(k, error)
        /\ err' = error
        /\ pc' = IF error # "none" THEN "stop" ELSE IF k = Len(cursors) THEN "merge" ELSE "prime"
        /\ k' = IF k = Len(cursors) THEN 1 ELSE k + 1
  BY DEF Prime
<1> DEFINE r == advance(newCursor, input[k])
<1>6. cursors' = [cursors EXCEPT ![k] = r.cursor] /\ error = r.err
  BY <1>4, <1>5 DEF AdvanceCursor
<1>7. /\ r.cursor \in CursorType
      /\ r.err = "none" => StandsBefore(r.cursor, input[k], 0)
      /\ r.err # "none" =>
            /\ input[k].kind = "nil" \/ ValidLen(input[k]) < Len(input[k].items)
            /\ BreaksAt(input[k]) = 0
            /\ \/ input[k].kind = "reader" /\ r.cursor.stream = "running" /\ r.cursor.closes = 0
               \/ /\ input[k].kind = "nil" /\ r.cursor.stream = "over"
                  /\ r.cursor.closes = 0 /\ r.cursor.pos = 0
  BY <1>3, PrimeBefore
<1> HIDE DEF r
<1>8. Opened' /\ cursors'[k] = r.cursor /\ \A i \in 1..Len(input) : i # k => cursors'[i] = cursors[i]
  BY <1>1, <1>2, <1>6, <1>7 DEF Opened
<1>9. TypeOK' /\ OutSound'
  BY <1>1, <1>5, OutKept
<1>10. error = "none" => \A i \in 1..k : StandsBefore(cursors'[i], input[i], 0)
  BY <1>1, <1>2, <1>4, <1>6, <1>7, <1>8
<1>11. CASE error = "none" /\ k # Len(input)
  <2>0. pc' = "prime" /\ k' = k + 1
    BY <1>4, <1>5, <1>11
  <2>1. pc' = "prime" /\ k' = k + 1 /\ k' \in DOMAIN input /\ k' - 1 = k
    <3> DEFINE N == Len(input)
    <3>1. N \in Nat /\ k \in 1..N /\ k # N /\ DOMAIN input = 1..N
      BY <1>2, <1>4, <1>11
    <3> HIDE DEF N
    <3>2. k + 1 \in 1..N /\ (k + 1) - 1 = k
      BY <3>1
    <3> QED
      BY <2>0, <3>1, <3>2
  <2>2. \A i \in (k + 1)..Len(input) : cursors'[i] = newCursor
    BY <1>1, <1>2, <1>4, <1>8
  <2>3. PrimeInv'
    BY <1>1, <1>5, <1>8, <1>10, <1>11, <2>1, <2>2 DEF PrimeInv, Quiet
  <2> QED
    BY <1>9, <2>1, <2>3, OnePlace
<1>12. CASE error = "none" /\ k = Len(input)
  <2>1. pc' = "merge"
    BY <1>4, <1>5, <1>12
  <2>2. AllBefore(0)'
    BY <1>1, <1>2, <1>10, <1>12 DEF AllBefore
  <2>3. OutBelow(0)'
    <3>1. Reported' \subseteq Nat /\ Incomparable' \subseteq Nat /\ out' = <<>>
      BY <1>1, <1>2, Fixed, SomeKnown, Known
    <3>2. \A id \in Nat : ~(id < 0) /\ id >= 0
      OBVIOUS
    <3> QED
      BY <3>1, <3>2 DEF OutBelow
  <2>4. MergeInv'
    BY <1>1, <1>5, <1>8, <1>12, <2>1, <2>2, <2>3 DEF MergeInv, Quiet
  <2> QED
    BY <1>9, <2>1, <2>4, OnePlace
<1>13. CASE error # "none"
  <2>1. pc' = "stop" /\ err' # "none" /\ err' \in {"upstream", "panic"} /\ out' = <<>> /\ broke' = FALSE
    BY <1>1, <1>5, <1>13 DEF Quiet
  <2>2. 0 \in BrokenAt
    BY <1>1, <1>2, <1>6, <1>7, <1>13, BreaksThere
  <2>3. Ending'
    BY <1>1, <1>2, <2>1, <2>2, Fixed, NothingReported DEF Ending
  <2>4. ASSUME NEW i \in DOMAIN input PROVE Stoppable(i)'
    <3>1. CASE i = k
      BY <1>1, <1>6, <1>7, <1>8, <1>13, <3>1 DEF Stoppable
    <3>2. CASE i < k
      <4>1. i \in 1..(k - 1) /\ cursors'[i] = cursors[i] /\ StandsBefore(cursors[i], input[i], 0)
        BY <1>1, <1>2, <1>4, <1>8, <3>2
      <4> QED
        BY <1>1, <4>1 DEF StandsBefore, AtRecord, AtEnd, Stoppable
    <3>3. CASE i > k
      <4>1. cursors'[i] = newCursor
        BY <1>1, <1>2, <1>4, <1>8, <3>3
      <4>2. newCursor.stream = "idle" /\ newCursor.pos = 0 /\ newCursor.closes = 0
        BY DEF newCursor
      <4>3. i > 1
        BY <1>2, <1>4, <3>3
      <4>4. cursors'[1].stream # "idle"
        <5>1. CASE k = 1
          BY <1>6, <1>7, <1>8, <1>13, <5>1
        <5>2. CASE k # 1
          <6>1. 1 \in 1..(k - 1) /\ cursors'[1] = cursors[1]
            BY <1>4, <1>8, <5>2
          <6> QED
            BY <1>1, <6>1 DEF StandsBefore, AtRecord, AtEnd
        <5> QED
          BY <5>1, <5>2
      <4> QED
        BY <2>1, <4>1, <4>2, <4>3, <4>4 DEF Stoppable, NeverAsked
    <3> QED
      BY <1>2, <1>4, <3>1, <3>2, <3>3
  <2>5. StopInv'
    BY <1>1, <1>8, <2>3, <2>4 DEF StopInv
  <2> QED
    BY <1>9, <2>1, <2>5, OnePlace
<1> QED
  BY <1>5, <1>11, <1>12, <1>13

-----------------------------------------------------------------------------
\* The smallest ID of the live cursors, as a frontier.
LEMMA Smallest ==
    ASSUME input \in Inputs, Opened, liveIDs # {},
           NEW f \in Nat, AllBefore(f), OutBelow(f), OutSound
    PROVE  /\ smallestID \in KnownIDs /\ smallestID \in Nat
           /\ AllBefore(smallestID) /\ OutBelow(smallestID)
<1> DEFINE d == smallestID
<1>1. liveIDs \in SUBSET Nat
  BY DEF liveIDs, Opened, CursorType
<1>2. d \in liveIDs /\ \A other \in liveIDs : d <= other
  <2>1. \E id \in liveIDs : \A other \in liveIDs : id <= other
    BY <1>1, LeastElement
  <2> QED
    BY <2>1 DEF smallestID
<1> HIDE DEF d
<1>3. PICK i \in DOMAIN input : cursors[i].live /\ cursors[i].id = d
  BY <1>2 DEF liveIDs, Opened
<1>4. AtRecord(cursors[i], input[i]) /\ d >= f /\ d \in Nat
  BY <1>1, <1>2, <1>3 DEF AllBefore, StandsBefore, AtEnd
<1>5. d \in KnownIDs
  BY <1>3, <1>4, Known DEF AtRecord
<1>6. ASSUME NEW j \in DOMAIN input PROVE StandsBefore(cursors[j], input[j], d)
  <2> DEFINE c == cursors[j]
             s == input[j]
  <2>1. /\ StandsBefore(c, s, f) /\ IsStream(s)
        /\ ValidLen(s) \in Nat /\ \A n \in 1..ValidLen(s) : s.items[n].id \in Nat
    BY InputStreams, ValidIDs DEF AllBefore
  <2>2. c.live => d <= c.id
    BY <1>2 DEF liveIDs, Opened
  <2> HIDE DEF c, s
  <2>3. CASE AtRecord(c, s) /\ c.id >= f /\ \A n \in 1..(c.pos - 1) : s.items[n].id < f
    <3>1. c.id >= d
      BY <1>4, <2>1, <2>2, <2>3 DEF AtRecord
    <3>2. \A n \in 1..(c.pos - 1) : n \in 1..ValidLen(s)
      BY <2>1, <2>3 DEF AtRecord
    <3>3. \A n \in 1..(c.pos - 1) : s.items[n].id < d
      BY <1>4, <2>1, <2>3, <3>2
    <3> QED
      BY <2>1, <2>3, <3>1, <3>3 DEF StandsBefore, c, s
  <2>4. CASE AtEnd(c, s) /\ \A n \in 1..ValidLen(s) : s.items[n].id < f
    <3>1. \A n \in 1..ValidLen(s) : s.items[n].id < d
      BY <1>4, <2>1, <2>4
    <3> QED
      BY <2>1, <2>4, <3>1 DEF StandsBefore, c, s
  <2> QED
    BY <2>1, <2>3, <2>4 DEF StandsBefore
<1>7. ASSUME NEW id \in KnownIDs PROVE id < f \/ id >= d
  <2>1. CASE id >= f
    <3>1. PICK other \in liveIDs : other <= id
      BY <2>1, KnownAhead
    <3> QED
      BY <1>1, <1>2, <1>4, <3>1, Known
  <2> QED
    BY <2>1, Known
<1>8. OutBelow(d)
  <2>1. \A n \in DOMAIN out : out[n].id < f
    BY DEF OutBelow
  <2>2. ASSUME NEW id \in Reported, id < d PROVE \E n \in DOMAIN out : out[n].id = id
    <3>1. id < f
      BY <1>4, <1>7, <2>2, SomeKnown, Known
    <3> QED
      BY <3>1 DEF OutBelow
  <2>3. ASSUME NEW id \in Incomparable PROVE id >= d
    <3>1. id \in KnownIDs /\ id >= f /\ id \in Nat
      BY SomeKnown, Known DEF OutBelow
    <3> QED
      BY <1>4, <1>7, <3>1
  <2>4. ASSUME NEW n \in DOMAIN out, out[n].id \in Nat PROVE out[n].id < d
    BY <1>4, <2>1, <2>4
  <2>5. \A n \in DOMAIN out : out[n].id \in Nat
    BY SomeKnown, Known DEF OutSound
  <2> QED
    BY <2>2, <2>3, <2>4, <2>5 DEF OutBelow
<1> QED
  BY <1>4, <1>5, <1>6, <1>8 DEF AllBefore, d

\* What the merge assembles at the smallest ID is what has to be reported there.
LEMMA Assembled ==
    ASSUME input \in Inputs, Opened, NEW d \in KnownIDs, AllBefore(d)
    PROVE  /\ assemblyFails(d) <=> d \in Incomparable
           /\ assembleIDDiff(d) = Expected(d)
<1>1. DOMAIN input = 1..Len(input) /\ Len(input) \in Nat /\ Len(input) > 0 /\ d \in Nat
  BY InputStreams, Known
<1>2. \A i \in 1..Len(input) : dataAt(i, d) = DataOf(input[i], d)
  BY <1>1, InputStreams, ShowsData DEF AllBefore, dataAt
<1>3. Len(cursors) = Len(input)
  BY <1>1 DEF Opened
<1>4. assemblyFails(d) <=> d \in Incomparable
  BY <1>1, <1>2, <1>3 DEF assemblyFails, Incomparable
<1>5. assembleIDDiff(d) = Expected(d)
  <2> DEFINE have == [i \in 1..(Len(cursors) - 1) |->
                        classify(dataAt(1, d), dataAt(i + 1, d), cfg)]
             want == [i \in 1..(Len(input) - 1) |->
                        classify(DataOf(input[1], d), DataOf(input[i + 1], d), cfg)]
  <2>1. have = want /\ dataAt(1, d) = DataOf(input[1], d)
    BY <1>1, <1>2, <1>3
  <2>2. assembleIDDiff(d) =
          [id |-> d, candidates |-> have,
           baseline |-> {baselineFields(data, have, cfg) : data \in dataAt(1, d)}]
    BY DEF assembleIDDiff
  <2>3. Expected(d) =
          [id |-> d, candidates |-> want,
           baseline |-> {baselineFields(data, want, cfg) : data \in DataOf(input[1], d)}]
    BY DEF Expected
  <2> HIDE DEF have, want
  <2> QED
    BY <2>1, <2>2, <2>3
<1> QED
  BY <1>4, <1>5

\* Streams that have all been asked can be stopped.
LEMMA AskedStoppable ==
    ASSUME NEW i \in DOMAIN input, NEW f, StandsBefore(cursors[i], input[i], f)
    PROVE  Stoppable(i)
BY DEF StandsBefore, AtRecord, AtEnd, Stoppable

\* Something breaks at d, below which everything has been reported.
LEMMA BreakEnds ==
    ASSUME NEW f \in Nat, OutBelow(f), f \in BrokenAt \cup Incomparable
    PROVE  \A id \in Reported : \E n \in DOMAIN out : out[n].id = id
BY ReportedBelow DEF OutBelow

\* Merge: the end, a comparison that fails, or a difference to be yielded.
LEMMA MergeKeeps ==
    ASSUME IInv, Merge
    PROVE  IInv'
<1>1. /\ UNCHANGED <<input, cfg, cursors, out, broke>> /\ pc = "merge" /\ k' = 1
      /\ cfg.less /\ Opened /\ Quiet /\ TypeOK /\ OutSound
  BY DEF Merge, IInv, MergeInv
<1>2. PICK f \in Nat : AllBefore(f) /\ OutBelow(f)
  BY <1>1 DEF IInv, MergeInv
<1>3. input \in Inputs /\ DOMAIN input = 1..Len(input) /\ Len(input) \in Nat /\ Len(input) > 0
  BY <1>1, InputStreams DEF TypeOK
<1>4. pc' \in {"stop", "advance"} /\ TypeOK' /\ OutSound'
  BY <1>1, OutKept DEF Merge
<1>5. Opened'
  BY <1>1 DEF Opened
<1>6. ASSUME NEW i \in DOMAIN input, pc' = "stop" PROVE Stoppable(i)'
  <2>1. StandsBefore(cursors'[i], input'[i], f) /\ i \in DOMAIN input'
    BY <1>1, <1>2 DEF AllBefore
  <2> QED
    BY <2>1 DEF StandsBefore, AtRecord, AtEnd, Stoppable
<1>7. CASE liveIDs = {} /\ pc' = "stop" /\ UNCHANGED <<diff, err>>
  <2>1. \A id \in KnownIDs : id < f
    BY <1>1, <1>2, <1>3, <1>7, KnownAhead, Known
  <2>2. Incomparable = {}
    <3>1. \A id \in Incomparable : id \in Nat /\ id < f /\ id >= f
      BY <1>2, <1>3, <2>1, SomeKnown, Known DEF OutBelow
    <3> QED
      BY <3>1
  <2>3. BrokenAt = {}
    <3> SUFFICES ASSUME NEW s \in Range(input), s.kind = "nil" \/ ValidLen(s) < Len(s.items)
                 PROVE  FALSE
      BY DEF BrokenAt
    <3>1. PICK i \in DOMAIN input : s = input[i]
      BY DEF Range
    <3>2. StandsBefore(cursors[i], s, f) /\ IsStream(s)
      BY <1>2, <1>3, <3>1, InputStreams DEF AllBefore
    <3>3. AtRecord(cursors[i], s)
      BY <3>2, ValidIDs DEF StandsBefore, AtEnd
    <3>4. cursors[i].id \in liveIDs
      BY <1>1, <3>1, <3>3 DEF AtRecord, liveIDs, Opened
    <3> QED
      BY <1>7, <3>4
  <2>4. \A id \in Reported : \E n \in DOMAIN out : out[n].id = id
    BY <1>2, <2>1, SomeKnown DEF OutBelow
  <2>5. Ending'
    BY <1>1, <1>7, <2>2, <2>3, <2>4, Fixed DEF Ending, Quiet
  <2>6. StopInv'
    BY <1>1, <1>5, <1>6, <1>7, <2>5 DEF StopInv
  <2> QED
    BY <1>4, <1>7, <2>6, OnePlace
<1> DEFINE d == smallestID
<1>8. CASE liveIDs # {}
  <2>1. d \in KnownIDs /\ d \in Nat /\ AllBefore(d) /\ OutBelow(d)
    BY <1>1, <1>2, <1>3, <1>8, Smallest
  <2> HIDE DEF d
  <2>2. (assemblyFails(d) <=> d \in Incomparable) /\ assembleIDDiff(d) = Expected(d)
    BY <1>1, <1>3, <2>1, Assembled
  <2>3. CASE assemblyFails(d) /\ pc' = "stop" /\ err' = "ErrIncomparableField" /\ UNCHANGED diff
    <3>1. d \in Incomparable
      BY <2>2, <2>3
    <3>2. \A id \in Reported : \E n \in DOMAIN out : out[n].id = id
      BY <2>1, <3>1, BreakEnds
    <3>3. Ending'
      BY <1>1, <2>3, <3>1, <3>2, Fixed DEF Ending
    <3>4. StopInv'
      BY <1>1, <1>5, <1>6, <2>3, <3>3 DEF StopInv
    <3> QED
      BY <1>4, <2>3, <3>4, OnePlace
  <2>4. CASE ~assemblyFails(d) /\ diff' = assembleIDDiff(d) /\ pc' = "advance" /\ UNCHANGED err
    <3>1. diff' = Expected(d) /\ Expected(d).id = d
      BY <2>2, <2>4 DEF Expected
    <3>2. diff'.id = d
      BY <3>1
    <3>3. DiffInv'
      <4>1. (diff.id \in KnownIDs \ Incomparable)'
        BY <1>1, <2>1, <2>2, <2>4, <3>2, Fixed
      <4>2. (diff = Expected(diff.id))'
        BY <1>1, <3>1, <3>2, Fixed
      <4>3. OutBelow(diff.id)'
        BY <1>1, <2>1, <3>2, Fixed DEF OutBelow
      <4> QED
        BY <4>1, <4>2, <4>3 DEF DiffInv
    <3>4. 1 \in DOMAIN input /\ 1..(1 - 1) = {}
      BY <1>3
    <3>5. \A i \in 1..Len(input) : StandsBefore(cursors[i], input[i], d)
      BY <1>3, <2>1 DEF AllBefore
    <3>6. AdvanceInv'
      BY <1>1, <1>5, <2>4, <3>2, <3>3, <3>4, <3>5 DEF AdvanceInv, Quiet
    <3> QED
      BY <1>4, <2>4, <3>6, OnePlace
  <2> QED
    BY <1>8, <2>3, <2>4 DEF Merge, d
<1> QED
  BY <1>7, <1>8 DEF Merge

-----------------------------------------------------------------------------
\* The cursor whose turn it is has passed the ID; the next one has its turn, or the
\* difference is yielded.
LEMMA TurnPasses ==
    ASSUME IInv, pc = "advance", UNCHANGED <<input, cfg, diff, out, broke>>,
           Opened', err' = "none",
           pc' = IF k = Len(cursors) THEN "yield" ELSE "advance",
           k' = IF k = Len(cursors) THEN 1 ELSE k + 1,
           StandsBefore(cursors'[k], input[k], diff.id + 1),
           \A i \in DOMAIN input : i # k => cursors'[i] = cursors[i]
    PROVE  IInv'
<1> DEFINE N == Len(input)
           d == diff.id
<1>1. /\ cfg.less /\ Opened /\ Quiet /\ k \in DOMAIN input /\ DiffInv /\ TypeOK /\ OutSound
      /\ \A i \in 1..(k - 1) : StandsBefore(cursors[i], input[i], d + 1)
      /\ \A i \in k..N : StandsBefore(cursors[i], input[i], d)
  BY DEF IInv, AdvanceInv
<1>2. N \in Nat /\ DOMAIN input = 1..N /\ Len(cursors) = N
  BY <1>1, InputStreams DEF TypeOK, Opened
<1> HIDE DEF N, d
<1>3. \A i \in 1..k : StandsBefore(cursors'[i], input[i], d + 1)
  BY <1>1, <1>2 DEF d
<1>4. \A i \in (k + 1)..N : StandsBefore(cursors'[i], input[i], d)
  BY <1>1, <1>2
<1>5. TypeOK' /\ OutSound'
  BY <1>1, OutKept
<1>6. DiffInv' /\ Quiet'
  <2>1. OutBelow(d)'
    BY <1>1, Fixed DEF DiffInv, OutBelow, d
  <2>2. OutBelow(diff.id)'
    BY <2>1 DEF d
  <2> QED
    BY <1>1, <2>2, Fixed DEF DiffInv, Quiet
<1>7. CASE k = N
  <2>1. pc' = "yield"
    BY <1>2, <1>7
  <2>2. AllBefore(diff.id + 1)'
    BY <1>2, <1>3, <1>7 DEF AllBefore, d
  <2>3. YieldInv'
    BY <1>1, <1>6, <2>2 DEF YieldInv
  <2> QED
    BY <1>5, <2>1, <2>3, OnePlace
<1>8. CASE k # N
  <2>1. pc' = "advance" /\ k' = k + 1
    BY <1>2, <1>8
  <2>2. k + 1 \in 1..N /\ (k + 1) - 1 = k
    BY <1>1, <1>2, <1>8
  <2>3. /\ k' \in DOMAIN input'
        /\ \A i \in 1..(k' - 1) : StandsBefore(cursors'[i], input'[i], diff'.id + 1)
        /\ \A i \in k'..Len(input') : StandsBefore(cursors'[i], input'[i], diff'.id)
    BY <1>2, <1>3, <1>4, <2>1, <2>2 DEF d, N
  <2>4. AdvanceInv'
    BY <1>1, <1>6, <2>3 DEF AdvanceInv
  <2> QED
    BY <1>5, <2>1, <2>4, OnePlace
<1> QED
  BY <1>7, <1>8

\* Advance: every cursor at the ID moves on, or the stream of one breaks there.
LEMMA AdvanceKeeps ==
    ASSUME IInv, Advance
    PROVE  IInv'
<1> DEFINE N == Len(input)
           d == diff.id
<1>1. /\ UNCHANGED <<input, cfg, diff, out, broke>> /\ pc = "advance"
      /\ cfg.less /\ Opened /\ Quiet /\ k \in DOMAIN input /\ DiffInv /\ TypeOK /\ OutSound
      /\ \A i \in 1..(k - 1) : StandsBefore(cursors[i], input[i], d + 1)
      /\ \A i \in k..N : StandsBefore(cursors[i], input[i], d)
  BY DEF Advance, IInv, AdvanceInv
<1>2. input \in Inputs /\ N \in Nat /\ DOMAIN input = 1..N /\ Len(cursors) = N
  BY <1>1, InputStreams DEF TypeOK, Opened
<1>3. /\ IsStream(input[k]) /\ \A n \in DOMAIN input[k].items : input[k].items[n].data \in Datas
      /\ cursors[k] \in CursorType
  BY <1>1, <1>2, InputStreams DEF Opened
<1>4. d \in Nat
  BY <1>1, <1>2, Known DEF DiffInv
<1> HIDE DEF N
<1>5. StandsBefore(cursors[k], input[k], d)
  BY <1>1, <1>2
<1>6. k' = IF k = Len(cursors) THEN 1 ELSE k + 1
  BY DEF Advance
<1>7. CASE /\ ~(cursors[k].live /\ cursors[k].id = d)
           /\ pc' = IF k = Len(cursors) THEN "yield" ELSE "advance"
           /\ UNCHANGED <<cursors, err>>
  <2>1. StandsBefore(cursors[k], input[k], d + 1)
    BY <1>3, <1>4, <1>5, <1>7, SkipBefore
  <2>2. Opened' /\ err' = "none" /\ StandsBefore(cursors'[k], input[k], d + 1)
    BY <1>1, <1>7, <2>1 DEF Opened, Quiet
  <2> QED
    BY <1>1, <1>6, <1>7, <2>2, TurnPasses
<1>8. ASSUME cursors[k].live, cursors[k].id = d,
             NEW error \in {"none", "upstream", "ErrDuplicateID", "ErrUnsortedInput"},
             AdvanceCursor(k, error), err' = error,
             pc' = IF error # "none" THEN "stop" ELSE IF k = Len(cursors) THEN "yield" ELSE "advance"
      PROVE  IInv'
  <2> DEFINE r == advance(cursors[k], input[k])
  <2>1. cursors' = [cursors EXCEPT ![k] = r.cursor] /\ error = r.err
    BY <1>8 DEF AdvanceCursor
  <2>2. /\ r.cursor \in CursorType
        /\ r.err = "none" => StandsBefore(r.cursor, input[k], d + 1)
        /\ r.err # "none" =>
              /\ ValidLen(input[k]) < Len(input[k].items) /\ BreaksAt(input[k]) = d
              /\ r.cursor.stream = "running" /\ r.cursor.closes = 0
    BY <1>3, <1>4, <1>5, <1>8, AdvanceBefore
  <2> HIDE DEF r
  <2>3. Opened' /\ cursors'[k] = r.cursor /\ \A i \in DOMAIN input : i # k => cursors'[i] = cursors[i]
    BY <1>1, <2>1, <2>2 DEF Opened
  <2>4. CASE error = "none"
    BY <1>1, <1>6, <1>8, <2>1, <2>2, <2>3, <2>4, TurnPasses
  <2>5. CASE error # "none"
    <3>1. pc' = "stop" /\ err' # "none" /\ TypeOK' /\ OutSound'
      BY <1>1, <1>8, <2>5, OutKept
    <3>2. d \in BrokenAt
      BY <1>1, <1>2, <2>1, <2>2, <2>5, BreaksThere
    <3>3. \A id \in Reported : \E n \in DOMAIN out : out[n].id = id
      BY <1>1, <1>4, <3>2, BreakEnds DEF DiffInv
    <3>4. Ending'
      BY <1>1, <3>1, <3>2, <3>3, Fixed DEF Ending
    <3>5. ASSUME NEW i \in DOMAIN input PROVE Stoppable(i)'
      <4>1. CASE i = k
        <5>1. input[i].kind = "reader"
          BY <1>5, <4>1 DEF StandsBefore
        <5> QED
          BY <1>1, <2>1, <2>2, <2>3, <2>5, <4>1, <5>1 DEF Stoppable
      <4>2. CASE i # k
        <5>1. PICK f : StandsBefore(cursors[i], input[i], f)
          BY <1>1, <1>2, <4>2
        <5>2. StandsBefore(cursors'[i], input'[i], f)
          BY <1>1, <2>3, <4>2, <5>1
        <5> QED
          BY <5>2 DEF StandsBefore, AtRecord, AtEnd, Stoppable
      <4> QED
        BY <4>1, <4>2
    <3>6. StopInv'
      BY <1>1, <2>3, <3>4, <3>5 DEF StopInv
    <3> QED
      BY <3>1, <3>6, OnePlace
  <2> QED
    BY <2>4, <2>5
<1> QED
  BY <1>7, <1>8 DEF Advance

\* Stop: every stream that runs is closed.
LEMMA StopKeeps ==
    ASSUME IInv, Stop
    PROVE  IInv'
<1>1. /\ UNCHANGED <<input, cfg, k, diff, out, err, broke>> /\ pc = "stop" /\ pc' = "done"
      /\ cursors' = [i \in DOMAIN cursors |-> stop(cursors[i])]
      /\ cfg.less /\ Opened /\ Ending /\ \A i \in DOMAIN input : Stoppable(i)
      /\ TypeOK /\ OutSound
  BY DEF Stop, IInv, StopInv
<1>2. TypeOK' /\ OutSound'
  BY <1>1, OutKept
<1>3. Ending'
  BY <1>1, Fixed DEF Ending
<1>4. DOMAIN cursors' = DOMAIN input
  BY <1>1 DEF Opened
<1>5. ASSUME NEW i \in DOMAIN input
      PROVE  /\ cursors[i].stream = "running" => cursors'[i].closes = cursors[i].closes + 1
             /\ cursors[i].stream # "running" => cursors'[i].closes = cursors[i].closes
             /\ cursors'[i].pos = cursors[i].pos
  <2>1. cursors'[i] = stop(cursors[i]) /\ cursors[i] \in CursorType
    BY <1>1 DEF Opened
  <2> QED
    BY <2>1 DEF stop, Over, CursorType
<1>6. 1 \in DOMAIN input
  BY <1>1, InputStreams DEF TypeOK
<1>7. ASSUME NEW i \in DOMAIN input PROVE Stopped(i)'
  <2>1. CASE cursors[i].stream = "idle" /\ cursors[i].pos = 0 /\ cursors[i].closes = 0
             /\ NeverAsked(i) /\ cursors[1].stream # "idle"
    <3>1. Stoppable(1)
      BY <1>1, <1>6
    <3>2. cursors'[1].closes = 1 \/ input[1].kind = "nil"
      BY <1>5, <1>6, <2>1, <3>1 DEF Stoppable
    <3> QED
      BY <1>1, <1>5, <2>1, <3>2 DEF Stopped, NeverAsked
  <2>2. CASE input[i].kind = "reader" /\ cursors[i].stream = "running" /\ cursors[i].closes = 0
    BY <1>5, <2>2 DEF Stopped
  <2>3. CASE input[i].kind = "reader" /\ cursors[i].stream = "over" /\ cursors[i].closes = 1
    BY <1>5, <2>3 DEF Stopped
  <2>4. CASE input[i].kind = "nil" /\ cursors[i].stream = "over" /\ cursors[i].closes = 0
             /\ cursors[i].pos = 0
    BY <1>1, <1>5, <2>4 DEF Stopped
  <2>5. Stoppable(i)
    BY <1>1
  <2> QED
    BY <2>1, <2>2, <2>3, <2>4, <2>5 DEF Stoppable
<1>8. DoneInv'
  BY <1>1, <1>3, <1>4, <1>7 DEF DoneInv
<1> QED
  BY <1>1, <1>2, <1>8, OnePlace

-----------------------------------------------------------------------------
(***************************************************************************)
(* The comparison of two records, and what is yielded.                     *)
(***************************************************************************)

MapDeltas(b, c) == compareMap(b.fields, c.fields, cfg.ignoreFields, cfg.absentEqualsNil)
Here(deltas, name) == {f \in deltas : f.name = name}
Names(b, c) == (DOMAIN b.fields \cup DOMAIN c.fields) \ cfg.ignoreFields

\* The deltas of one field, by where it is.
LEMMA FieldDeltas ==
    ASSUME NEW b, NEW c, cfg.absentEqualsNil \in BOOLEAN, NEW name \in Names(b, c)
    PROVE  /\ name \in DOMAIN b.fields /\ name \in DOMAIN c.fields =>
                 Here(MapDeltas(b, c), name) =
                    IF b.fields[name] = c.fields[name] THEN {} ELSE {Value(name, c.fields[name])}
           /\ name \notin DOMAIN c.fields =>
                 Here(MapDeltas(b, c), name) =
                    IF cfg.absentEqualsNil /\ b.fields[name] = NilValue THEN {} ELSE {AbsentField(name)}
           /\ name \notin DOMAIN b.fields =>
                 Here(MapDeltas(b, c), name) =
                    IF cfg.absentEqualsNil /\ c.fields[name] = NilValue THEN {}
                    ELSE {Value(name, c.fields[name])}
<1> DEFINE names == (DOMAIN b.fields \cup DOMAIN c.fields) \ cfg.ignoreFields
           both == DOMAIN b.fields \cap DOMAIN c.fields
           A == {Value(n, c.fields[n]) : n \in {m \in names \cap both : b.fields[m] # c.fields[m]}}
           B == {AbsentField(n) : n \in {m \in names \ DOMAIN c.fields :
                                           ~(cfg.absentEqualsNil /\ b.fields[m] = NilValue)}}
           C == {Value(n, c.fields[n]) : n \in {m \in names \ DOMAIN b.fields :
                                           ~(cfg.absentEqualsNil /\ c.fields[m] = NilValue)}}
           deltas == MapDeltas(b, c)
           here == Here(deltas, name)
<1>0. name \in names
  BY DEF Names
<1>1. deltas = A \cup B \cup C
  BY DEF compareMap, MapDeltas
<1>2. \A n, v : Value(n, v).name = n /\ AbsentField(n).name = n
  BY DEF Value, AbsentField
<1> HIDE DEF deltas
<1>3. {f \in A : f.name = name} = IF name \in both /\ b.fields[name] # c.fields[name]
                                  THEN {Value(name, c.fields[name])} ELSE {}
  BY <1>0, <1>2
<1>4. {f \in B : f.name = name} = IF /\ name \notin DOMAIN c.fields
                                     /\ ~(cfg.absentEqualsNil /\ b.fields[name] = NilValue)
                                  THEN {AbsentField(name)} ELSE {}
  BY <1>0, <1>2
<1>5. {f \in C : f.name = name} = IF /\ name \notin DOMAIN b.fields
                                     /\ ~(cfg.absentEqualsNil /\ c.fields[name] = NilValue)
                                  THEN {Value(name, c.fields[name])} ELSE {}
  BY <1>0, <1>2
<1>6. here = {f \in A : f.name = name} \cup {f \in B : f.name = name} \cup {f \in C : f.name = name}
  <2> HIDE DEF A, B, C
  <2> QED
    BY <1>1 DEF Here
<1> HIDE DEF A, B, C, here
<1>7. /\ name \in DOMAIN b.fields /\ name \in DOMAIN c.fields =>
            here = IF b.fields[name] = c.fields[name] THEN {} ELSE {Value(name, c.fields[name])}
      /\ name \notin DOMAIN c.fields =>
            here = IF cfg.absentEqualsNil /\ b.fields[name] = NilValue THEN {} ELSE {AbsentField(name)}
      /\ name \notin DOMAIN b.fields =>
            here = IF cfg.absentEqualsNil /\ c.fields[name] = NilValue THEN {}
                   ELSE {Value(name, c.fields[name])}
  BY <1>0, <1>3, <1>4, <1>5, <1>6
<1> QED
  BY <1>7 DEF here, deltas

\* Every delta is of a field that is compared.
LEMMA DeltaNames ==
    ASSUME NEW b, NEW c, NEW f \in MapDeltas(b, c)
    PROVE  f.name \in Names(b, c)
BY DEF MapDeltas, Names, compareMap, Value, AbsentField

\* Two maps have deltas exactly where looking a field up gives different answers.
LEMMA MapsDiffer ==
    ASSUME NEW b, NEW c, cfg.absentEqualsNil \in BOOLEAN
    PROVE  MapDeltas(b, c) # {} <=> \E name \in Names(b, c) : Lookup(b, name) # Lookup(c, name)
<1>1. ASSUME NEW name \in Names(b, c)
      PROVE  Here(MapDeltas(b, c), name) # {} <=> Lookup(b, name) # Lookup(c, name)
  <2> DEFINE here == Here(MapDeltas(b, c), name)
             inB == name \in DOMAIN b.fields
             inC == name \in DOMAIN c.fields
             bv == b.fields[name]
             cv == c.fields[name]
  <2>0. inB \/ inC
    BY DEF Names
  <2>1. /\ inB /\ inC => here = IF bv = cv THEN {} ELSE {Value(name, cv)}
        /\ ~inC => here = IF cfg.absentEqualsNil /\ bv = NilValue THEN {} ELSE {AbsentField(name)}
        /\ ~inB => here = IF cfg.absentEqualsNil /\ cv = NilValue THEN {} ELSE {Value(name, cv)}
    BY ONLY FieldDeltas, name \in Names(b, c), cfg.absentEqualsNil \in BOOLEAN, SMT
  <2>2. /\ ~inB => Lookup(b, name) = {}
        /\ inB => Lookup(b, name) = IF cfg.absentEqualsNil /\ bv = NilValue THEN {} ELSE {bv}
    BY DEF Lookup, Plain
  <2>3. /\ ~inC => Lookup(c, name) = {}
        /\ inC => Lookup(c, name) = IF cfg.absentEqualsNil /\ cv = NilValue THEN {} ELSE {cv}
    BY DEF Lookup, Plain
  <2> HIDE DEF here, inB, inC, bv, cv
  <2> QED
    BY <2>0, <2>1, <2>2, <2>3 DEF here
<1>2. \A f \in MapDeltas(b, c) : f.name \in Names(b, c) /\ f \in Here(MapDeltas(b, c), f.name)
  BY DeltaNames DEF Here
<1>3. \A name : Here(MapDeltas(b, c), name) \subseteq MapDeltas(b, c)
  BY DEF Here
<1> QED
  BY <1>1, <1>2, <1>3

\* The status that is yielded for a candidate is the one that whole streams have.
LEMMA StatusIs ==
    ASSUME cfg.absentEqualsNil \in BOOLEAN, NEW i, NEW id
    PROVE  classify(DataOf(input[1], id), DataOf(input[i], id), cfg).status = StatusOf(i, id)
<1> DEFINE base == DataOf(input[1], id)
           cand == DataOf(input[i], id)
           deltas == UNION {compareRecords(b, c, cfg) : b \in base, c \in cand}
<1>1. \A b, c : compareRecords(b, c, cfg) # {} <=> Differs(b, c)
  <2> SUFFICES ASSUME NEW b, NEW c PROVE compareRecords(b, c, cfg) # {} <=> Differs(b, c)
    OBVIOUS
  <2>1. CASE b.bucket = "map" /\ c.bucket = "map"
    <3>1. compareRecords(b, c, cfg) = MapDeltas(b, c)
      BY <2>1 DEF compareRecords, MapDeltas
    <3> QED
      BY <2>1, <3>1, MapsDiffer DEF Differs, Names
  <2>2. CASE ~(b.bucket = "map" /\ c.bucket = "map")
    BY <2>2 DEF Differs
  <2> QED
    BY <2>1, <2>2
<1>2. deltas = {} <=> ~\E b \in base, c \in cand : Differs(b, c)
  <2>1. deltas # {} <=> \E b \in base, c \in cand : compareRecords(b, c, cfg) # {}
    <3>1. ASSUME NEW b \in base, NEW c \in cand, NEW f \in compareRecords(b, c, cfg) PROVE f \in deltas
      OBVIOUS
    <3>2. ASSUME NEW f \in deltas
          PROVE  \E b \in base, c \in cand : f \in compareRecords(b, c, cfg)
      OBVIOUS
    <3> HIDE DEF deltas
    <3> QED
      BY <3>1, <3>2
  <2> HIDE DEF deltas
  <2> QED
    BY <1>1, <2>1
<1> HIDE DEF deltas, base, cand
<1>3. CASE cand = {}
  BY <1>3 DEF classify, StatusOf, base, cand
<1>4. CASE cand # {} /\ base = {}
  BY <1>4 DEF classify, StatusOf, base, cand
<1>5. CASE cand # {} /\ base # {}
  <2>1. classify(base, cand, cfg) = [status |-> IF deltas = {} THEN "Matched" ELSE "Changed", fields |-> deltas]
    BY <1>5 DEF classify, deltas
  <2>2. StatusOf(i, id) = IF \E b \in base, c \in cand : Differs(b, c) THEN "Changed" ELSE "Matched"
    BY <1>5 DEF StatusOf, base, cand
  <2> QED
    BY <1>2, <2>1, <2>2 DEF base, cand
<1> QED
  BY <1>3, <1>4, <1>5

\* A difference is yielded exactly when its ID has to be reported.
LEMMA EmitIs ==
    ASSUME input \in Inputs, cfg \in Options, NEW id
    PROVE  shouldEmit(Expected(id)) <=>
              cfg.includeMatched \/ \E i \in 2..Len(input) : StatusOf(i, id) # "Matched"
<1> DEFINE N == Len(input)
           candidates == Expected(id).candidates
<1>1. N \in Nat /\ N > 0 /\ cfg.absentEqualsNil \in BOOLEAN
  BY InputStreams, DiffAssumption
<1>2. candidates = [i \in 1..(N - 1) |-> classify(DataOf(input[1], id), DataOf(input[i + 1], id), cfg)]
  BY DEF Expected
<1> HIDE DEF N, candidates
<1>3. \A i \in 1..(N - 1) : candidates[i].status = StatusOf(i + 1, id)
  BY <1>1, <1>2, StatusIs
<1>4. (\E c \in Range(candidates) : c.status # "Matched") <=> \E i \in 1..(N - 1) : candidates[i].status # "Matched"
  BY <1>2 DEF Range
<1>5. (\E i \in 1..(N - 1) : StatusOf(i + 1, id) # "Matched") <=> \E i \in 2..N : StatusOf(i, id) # "Matched"
  <2>1. \A i \in 2..N : i - 1 \in 1..(N - 1) /\ (i - 1) + 1 = i
    BY <1>1
  <2>2. \A i \in 1..(N - 1) : i + 1 \in 2..N
    BY <1>1
  <2> QED
    BY <2>1, <2>2
<1> QED
  BY <1>3, <1>4, <1>5 DEF shouldEmit, candidates, N

\* The consumer gets the difference at the smallest ID that is not below d.
LEMMA YieldedRight ==
    ASSUME TypeOK, OutSound, NEW d \in Reported, OutBelow(d), \A id \in Incomparable : id > d,
           UNCHANGED <<input, cfg>>, out' = Append(out, Expected(d)),
           pc' \in {"merge", "stop"}
    PROVE  TypeOK' /\ OutSound' /\ OutBelow(d + 1)'
<1> DEFINE L == Len(out)
           e == Expected(d)
           S == {Expected(id) : id \in Nat}
<1>1. input \in Inputs /\ d \in Nat /\ e \in S /\ out \in Seq(S) /\ e.id = d
  BY SomeKnown, Known DEF TypeOK, Expected
<1>2. Reported \subseteq Nat /\ Incomparable \subseteq Nat
  BY <1>1, SomeKnown, Known
<1> HIDE DEF e, S
<1>3. L \in Nat /\ DOMAIN out = 1..L
  BY <1>1
<1>4. /\ out' \in Seq(S) /\ Len(out') = L + 1 /\ DOMAIN out' = 1..(L + 1)
      /\ \A n \in 1..L : out'[n] = out[n]
      /\ out'[L + 1] = e
  BY <1>1, AppendProperties DEF e
<1> HIDE DEF L
<1>5. TypeOK'
  <2>1. {Expected(id)' : id \in Nat} = {Expected(id) : id \in Nat}
    BY Fixed
  <2> QED
    BY <1>4, <2>1 DEF TypeOK, S
<1>6. ASSUME NEW n \in 1..(L + 1)
      PROVE  /\ out'[n].id \in Reported
             /\ out'[n] = Expected(out'[n].id)
             /\ \A m \in 1..(n - 1) : out'[m].id < out'[n].id
             /\ \A id \in Reported : id < out'[n].id => \E m \in 1..(n - 1) : out'[m].id = id
  <2>1. CASE n \in 1..L
    <3>1. \A m \in 1..(n - 1) : m \in 1..L /\ out'[m] = out[m]
      BY <1>3, <1>4, <2>1
    <3>2. /\ out[n].id \in Reported
          /\ out[n] = Expected(out[n].id)
          /\ \A m \in 1..(n - 1) : out[m].id < out[n].id
          /\ \A id \in Reported : id < out[n].id => \E m \in 1..(n - 1) : out[m].id = id
      BY <1>3, <2>1 DEF OutSound
    <3>3. out'[n] = out[n]
      BY <1>4, <2>1
    <3> QED
      BY <3>1, <3>2, <3>3
  <2>2. CASE n = L + 1
    <3>1. out'[n] = e /\ n - 1 = L
      BY <1>3, <1>4, <2>2
    <3>2. \A m \in 1..L : out'[m] = out[m] /\ out[m].id < d
      BY <1>3, <1>4 DEF OutBelow
    <3>3. \A id \in Reported : id < d => \E m \in 1..L : out[m].id = id
      BY <1>3 DEF OutBelow
    <3> QED
      BY <1>1, <3>1, <3>2, <3>3 DEF e
  <2> QED
    BY <1>3, <2>1, <2>2
<1>7. OutSound'
  BY <1>4, <1>6, Fixed DEF OutSound
<1>8. OutBelow(d + 1)'
  <2>1. \A n \in 1..(L + 1) : out'[n].id < d + 1
    <3> SUFFICES ASSUME NEW n \in 1..(L + 1) PROVE out'[n].id < d + 1
      OBVIOUS
    <3>1. CASE n \in 1..L
      <4>1. out'[n].id = out[n].id /\ out[n].id < d /\ out[n].id \in Nat
        BY <1>2, <1>3, <1>4, <3>1 DEF OutBelow, OutSound
      <4> QED
        BY <1>1, <4>1
    <3>2. CASE n = L + 1
      BY <1>1, <1>4, <3>2
    <3> QED
      BY <1>3, <3>1, <3>2
  <2>2. ASSUME NEW id \in Reported, id < d + 1 PROVE \E n \in 1..(L + 1) : out'[n].id = id
    <3>1. CASE id < d
      <4>1. PICK n \in 1..L : out[n].id = id
        BY <1>3, <3>1 DEF OutBelow
      <4> QED
        BY <1>3, <1>4, <4>1
    <3>2. CASE id = d
      <4>1. L + 1 \in 1..(L + 1)
        BY <1>3
      <4>2. out'[L + 1].id = id
        BY <1>1, <1>4, <3>2
      <4> QED
        BY <4>1, <4>2
    <3>3. id \in Nat
      BY <1>2
    <3>4. id < d \/ id = d
      BY <1>1, <2>2, <3>3
    <3> QED
      BY <3>1, <3>2, <3>4
  <2>3. \A id \in Incomparable : id >= d + 1
    BY <1>1, <1>2
  <2> QED
    BY <1>4, <2>1, <2>2, <2>3, Fixed DEF OutBelow
<1> QED
  BY <1>5, <1>7, <1>8

\* Yield: the difference reaches the consumer exactly if it has to.
LEMMA YieldKeeps ==
    ASSUME IInv, Yield
    PROVE  IInv'
<1>0. PICK d : d = diff.id
  OBVIOUS
<1>1. /\ UNCHANGED <<input, cfg, cursors, k, diff, err>> /\ pc = "yield"
      /\ cfg.less /\ Opened /\ Quiet /\ DiffInv /\ AllBefore(d + 1) /\ TypeOK /\ OutSound
  BY <1>0 DEF Yield, IInv, YieldInv
<1>2. input \in Inputs /\ cfg \in Options /\ d \in Nat /\ d \in KnownIDs /\ d \notin Incomparable
  BY <1>0, <1>1, Known DEF TypeOK, DiffInv
<1>3. diff = Expected(d) /\ OutBelow(d)
  BY <1>0, <1>1 DEF DiffInv
<1>4. Opened' /\ err' = "none" /\ AllBefore(d + 1)'
  BY <1>1 DEF Opened, Quiet, AllBefore
<1>5. \A id \in Incomparable : id \in Nat /\ id > d
  <2>1. \A id \in Incomparable : id \in Nat /\ id >= d /\ id # d
    BY <1>2, <1>3, SomeKnown, Known DEF OutBelow
  <2> QED
    BY <1>2, <2>1
<1>6. \A at \in BrokenAt : at >= d + 1
  BY <1>1, <1>2, BrokenAhead
<1>7. \A at \in BrokenAt : at > d
  <2>1. \A s \in Range(input) : BreaksAt(s) \in Int
    <3> SUFFICES ASSUME NEW s \in Range(input) PROVE BreaksAt(s) \in Int
      OBVIOUS
    <3>1. PICK i \in DOMAIN input : s = input[i]
      BY DEF Range
    <3>2. ValidLen(s) \in Nat /\ \A n \in 1..ValidLen(s) : s.items[n].id \in Nat
      BY <1>2, <3>1, InputStreams, ValidIDs
    <3> QED
      BY <3>2 DEF BreaksAt
  <2>2. BrokenAt \subseteq Int
    BY <2>1 DEF BrokenAt
  <2> QED
    BY <1>2, <1>6, <2>2
<1>8. d \in Reported <=> shouldEmit(diff)
  <2>1. shouldEmit(diff) <=> cfg.includeMatched \/ \E i \in 2..Len(input) : StatusOf(i, d) # "Matched"
    BY <1>2, <1>3, EmitIs
  <2>2. \A at \in BrokenAt \cup Incomparable : d < at
    BY <1>2, <1>5, <1>6, <1>7
  <2> QED
    BY <1>2, <2>1, <2>2 DEF Reported
<1>9. ASSUME pc' = "merge", OutBelow(d + 1)', TypeOK', OutSound', broke' = broke
      PROVE  IInv'
  <2>1. d + 1 \in Nat
    BY <1>2
  <2>2. MergeInv'
    BY <1>1, <1>4, <1>9, <2>1 DEF MergeInv, Quiet
  <2> QED
    BY <1>9, <2>2, OnePlace
<1>10. CASE ~shouldEmit(diff) /\ pc' = "merge" /\ UNCHANGED <<out, broke>>
  <2>1. d \notin Reported
    BY <1>8, <1>10
  <2>2. OutBelow(d + 1)
    <3>1. \A n \in DOMAIN out : out[n].id < d /\ out[n].id \in Nat
      BY <1>1, <1>2, <1>3, SomeKnown, Known DEF OutBelow, OutSound
    <3>2. ASSUME NEW id \in Reported, id < d + 1 PROVE id < d
      <4>1. id \in Nat /\ id # d
        BY <1>2, <2>1, SomeKnown, Known
      <4> QED
        BY <1>2, <3>2, <4>1
    <3>3. \A n \in DOMAIN out : out[n].id < d + 1
      BY <1>2, <3>1
    <3>4. \A id \in Incomparable : id >= d + 1
      BY <1>2, <1>5
    <3> QED
      BY <1>3, <3>2, <3>3, <3>4 DEF OutBelow
  <2>3. OutBelow(d + 1)'
    BY <1>1, <1>10, <2>2, Fixed DEF OutBelow
  <2>4. TypeOK' /\ OutSound'
    BY <1>1, <1>10, OutKept
  <2> QED
    BY <1>9, <1>10, <2>3, <2>4
<1>11. CASE shouldEmit(diff) /\ out' = Append(out, diff)
  <2>1. d \in Reported /\ out' = Append(out, Expected(d))
    BY <1>3, <1>8, <1>11
  <2>2. \/ pc' = "merge" /\ broke' = broke
        \/ pc' = "stop" /\ broke' = TRUE
    BY <1>11 DEF Yield
  <2>3. TypeOK' /\ OutSound' /\ OutBelow(d + 1)'
    BY <1>1, <1>3, <1>5, <2>1, <2>2, YieldedRight
  <2>4. CASE pc' = "merge" /\ broke' = broke
    BY <1>9, <2>3, <2>4
  <2>5. CASE pc' = "stop" /\ broke' = TRUE
    <3>1. ASSUME NEW i \in DOMAIN input' PROVE Stoppable(i)'
      <4>1. StandsBefore(cursors'[i], input'[i], d + 1)
        BY <1>1 DEF AllBefore
      <4> QED
        BY <4>1 DEF StandsBefore, AtRecord, AtEnd, Stoppable
    <3>2. StopInv'
      BY <1>1, <1>4, <2>5, <3>1 DEF StopInv, Ending
    <3> QED
      BY <2>3, <2>5, <3>2, OnePlace
  <2> QED
    BY <2>2, <2>4, <2>5
<1> QED
  BY <1>10, <1>11 DEF Yield

-----------------------------------------------------------------------------
\* Nothing has been done at first.
LEMMA InitIInv == Init => IInv
<1> SUFFICES ASSUME Init PROVE IInv
  OBVIOUS
<1>1. TypeOK /\ OutSound
  BY DEF Init, TypeOK, OutSound
<1>2. BeginInv
  BY DEF Init, BeginInv, Quiet
<1> QED
  BY <1>1, <1>2 DEF Init, IInv, PrimeInv, MergeInv, AdvanceInv, YieldInv, StopInv, DoneInv

\* Every step of DiffFunc keeps the invariant.
LEMMA NextIInv == IInv /\ [Next]_vars => IInv'
<1> SUFFICES ASSUME IInv, [Next]_vars PROVE IInv'
  OBVIOUS
<1>1. CASE UNCHANGED vars
  <2>1. UNCHANGED <<input, cfg, pc, cursors, k, diff, out, err, broke>>
    BY <1>1 DEF vars
  <2>2. TypeOK' /\ OutSound'
    BY <2>1, OutKept DEF IInv, TypeOK
  <2>3. BeginInv' /\ PrimeInv'
    BY <2>1 DEF IInv, BeginInv, PrimeInv, Quiet, Opened
  <2>4. MergeInv'
    BY <2>1, Fixed DEF IInv, MergeInv, Quiet, Opened, AllBefore, OutBelow
  <2>5. DiffInv => DiffInv'
    BY <2>1, Fixed DEF DiffInv, OutBelow
  <2>6. AdvanceInv' /\ YieldInv'
    BY <2>1, <2>5 DEF IInv, AdvanceInv, YieldInv, Quiet, Opened, AllBefore
  <2>7. Ending => Ending'
    BY <2>1, Fixed DEF Ending
  <2>8. StopInv' /\ DoneInv'
    BY <2>1, <2>7 DEF IInv, StopInv, DoneInv, Opened, Stoppable, Stopped, NeverAsked
  <2> QED
    BY <2>2, <2>3, <2>4, <2>6, <2>8 DEF IInv
<1> QED
  BY <1>1, BeginKeeps, PrimeKeeps, MergeKeeps, AdvanceKeeps, YieldKeeps, StopKeeps DEF Next

\* The merge's frontier: at every moment of every run of Diff the cursors stand
\* where the ID that has been reached says, and the consumer has got what is below.
THEOREM Invariance == Spec => []IInv
BY InitIInv, NextIInv, PTL DEF Spec

\* Diff's state is what its declarations say: every difference that has been
\* yielded is the one of its ID.
THEOREM TypeCorrect == Spec => []TypeOK
<1>1. IInv => TypeOK
  BY DEF IInv
<1> QED
  BY <1>1, Invariance, PTL

\* The IDs that have been yielded, once the consumer has got everything: one place
\* for each.
LEMMA AllOnce ==
    ASSUME TypeOK, OutSound, \A id \in Reported : \E n \in DOMAIN out : out[n].id = id
    PROVE  Len(out) = Cardinality(Reported)
<1> DEFINE L == Len(out)
           at == [n \in 1..L |-> out[n].id]
<1>1. L \in Nat /\ DOMAIN out = 1..L
  BY DEF TypeOK
<1>2. \A n \in 1..L : out[n].id \in Reported
  BY <1>1 DEF OutSound
<1>3. Reported \subseteq Nat
  BY SomeKnown, Known DEF TypeOK
<1>4. ASSUME NEW m \in 1..L, NEW n \in 1..L, m < n PROVE out[m].id # out[n].id
  <2>1. m \in 1..(n - 1)
    BY <1>1, <1>4
  <2>2. out[m].id < out[n].id /\ out[m].id \in Nat /\ out[n].id \in Nat
    BY <1>1, <1>2, <1>3, <2>1 DEF OutSound
  <2> QED
    BY <2>2
<1> HIDE DEF L
<1>5. at \in Bijection(1..L, Reported)
  <2>1. at \in [1..L -> Reported]
    BY <1>2
  <2>2. \A m, n \in 1..L : at[m] = at[n] => m = n
    <3> SUFFICES ASSUME NEW m \in 1..L, NEW n \in 1..L, at[m] = at[n] PROVE m = n
      OBVIOUS
    <3>1. ~(m < n) /\ ~(n < m)
      BY <1>4
    <3> QED
      BY <1>1, <3>1
  <2>3. \A id \in Reported : \E n \in 1..L : at[n] = id
    BY <1>1
  <2> HIDE DEF at
  <2> QED
    BY <2>1, <2>2, <2>3 DEF Bijection, Injection, IsInjective, Surjection
<1>6. ExistsBijection(1..L, Reported)
  BY <1>5 DEF ExistsBijection
<1> QED
  BY <1>1, <1>6, FS_CountingElements DEF L

\* Whatever the streams and options are, the consumer sees, in ascending order,
\* exactly the IDs that have to be reported, each with the right status for every
\* candidate; only its own break or an error of a stream or a comparison stops it
\* short, and then at the right ID.
LEMMA OutputIsExact == IInv => Exact
<1>1. ASSUME IInv PROVE Exact
  <2> DEFINE N == Len(input)
  <2>1. TypeOK /\ OutSound /\ DoneInv
    BY <1>1 DEF IInv
  <2>2. /\ input \in Inputs /\ cfg.absentEqualsNil \in BOOLEAN
        /\ N \in Nat /\ Len(out) \in Nat /\ DOMAIN out = 1..Len(out)
    BY <2>1, InputStreams, DiffAssumption DEF TypeOK
  <2>3. ASSUME NEW n \in DOMAIN out
        PROVE  /\ out[n].id \in Reported
               /\ n > 1 => out[n - 1].id < out[n].id
               /\ \A id \in Reported : id < out[n].id => \E m \in 1..(n - 1) : out[m].id = id
               /\ \A i \in 2..N : out[n].candidates[i - 1].status = StatusOf(i, out[n].id)
    <3>1. /\ out[n].id \in Reported
          /\ out[n] = Expected(out[n].id)
          /\ \A m \in 1..(n - 1) : out[m].id < out[n].id
          /\ \A id \in Reported : id < out[n].id => \E m \in 1..(n - 1) : out[m].id = id
      BY <2>1 DEF OutSound
    <3>2. n > 1 => n - 1 \in 1..(n - 1)
      BY <2>2
    <3>3. out[n].candidates = [i \in 1..(N - 1) |->
             classify(DataOf(input[1], out[n].id), DataOf(input[i + 1], out[n].id), cfg)]
      BY <3>1 DEF Expected
    <3>4. ASSUME NEW i \in 2..N
          PROVE  out[n].candidates[i - 1].status = StatusOf(i, out[n].id)
      <4>1. i - 1 \in 1..(N - 1) /\ (i - 1) + 1 = i
        BY <2>2
      <4>2. out[n].candidates[i - 1] = classify(DataOf(input[1], out[n].id), DataOf(input[i], out[n].id), cfg)
        BY <3>3, <4>1
      <4> QED
        BY <2>2, <4>2, StatusIs
    <3> QED
      BY <3>1, <3>2, <3>4
  <2>4. ASSUME pc = "done", cfg.less, ~broke
        PROVE  Len(out) = Cardinality(Reported) /\ (err = "none" <=> BrokenAt \cup Incomparable = {})
    <3>1. Ending
      BY <2>1, <2>4 DEF DoneInv
    <3> QED
      BY <2>1, <2>4, <3>1, AllOnce DEF Ending
  <2> QED
    BY <2>3, <2>4 DEF Exact
<1> QED
  BY <1>1

\* REQ diff: with a candidate and no nil stream the output is exact in every state,
\* for all streams, candidates and options.
THEOREM OutputAlwaysExact == Spec => []OutputExact
<1>1. IInv => OutputExact
  BY OutputIsExact DEF OutputExact
<1> QED
  BY <1>1, Invariance, PTL

\* A stream has at most one record for an ID.
LEMMA OneRecord ==
    ASSUME NEW s, IsStream(s), NEW id, NEW x \in DataOf(s, id), NEW y \in DataOf(s, id)
    PROVE  x = y
<1>1. ValidLen(s) \in Nat /\ \A n \in 1..ValidLen(s) : s.items[n].id \in Nat
  BY ValidIDs
<1>2. PICK m \in 1..ValidLen(s) : s.items[m].id = id /\ x = s.items[m].data
  BY DEF DataOf
<1>3. PICK n \in 1..ValidLen(s) : s.items[n].id = id /\ y = s.items[n].data
  BY DEF DataOf
<1>4. ~(m < n) /\ ~(n < m)
  BY <1>1, <1>2, <1>3, ValidIncreasing
<1>5. m = n
  BY <1>1, <1>4
<1> QED
  BY <1>2, <1>3, <1>5

\* Deltas applied to the baseline's map give the candidate's.
LEMMA AppliedIs ==
    ASSUME NEW b, NEW c, cfg.absentEqualsNil \in BOOLEAN, NEW name \in Names(b, c)
    PROVE  Applied(b, MapDeltas(b, c), name) = Lookup(c, name)
<1> DEFINE here == Here(MapDeltas(b, c), name)
           got == {f.value : f \in {g \in here : ~g.absent}}
           inB == name \in DOMAIN b.fields
           inC == name \in DOMAIN c.fields
           bv == b.fields[name]
           cv == c.fields[name]
<1>0. inB \/ inC
  BY DEF Names
<1>1. /\ inB /\ inC => here = IF bv = cv THEN {} ELSE {Value(name, cv)}
      /\ ~inC => here = IF cfg.absentEqualsNil /\ bv = NilValue THEN {} ELSE {AbsentField(name)}
      /\ ~inB => here = IF cfg.absentEqualsNil /\ cv = NilValue THEN {} ELSE {Value(name, cv)}
  BY ONLY FieldDeltas, name \in Names(b, c), cfg.absentEqualsNil \in BOOLEAN, SMT
<1>2. /\ ~inB => Lookup(b, name) = {}
      /\ inB => Lookup(b, name) = IF cfg.absentEqualsNil /\ bv = NilValue THEN {} ELSE {bv}
  BY DEF Lookup, Plain
<1>3. /\ ~inC => Lookup(c, name) = {}
      /\ inC => Lookup(c, name) = IF cfg.absentEqualsNil /\ cv = NilValue THEN {} ELSE {cv}
  BY DEF Lookup, Plain
<1>4. Applied(b, MapDeltas(b, c), name) = IF here = {} THEN Lookup(b, name) ELSE Plain(got)
  BY DEF Applied, Here
<1>5. here = {Value(name, cv)} => got = {cv}
  <2> DEFINE v == Value(name, cv)
  <2>1. v.value = cv /\ ~v.absent
    BY DEF Value
  <2> HIDE DEF here, v, cv
  <2>2. here = {v} => got = {v.value}
    BY <2>1
  <2> QED
    BY <2>1, <2>2 DEF v
<1>6. here = {AbsentField(name)} => got = {}
  <2> HIDE DEF here
  <2> QED
    BY DEF AbsentField
<1> HIDE DEF here, got, inB, inC, bv, cv
<1>7. Plain({}) = {} /\ Plain({cv}) = IF cfg.absentEqualsNil /\ cv = NilValue THEN {} ELSE {cv}
  BY DEF Plain
<1>8. CASE inB /\ inC
  BY <1>1, <1>2, <1>3, <1>4, <1>5, <1>7, <1>8
<1>9. CASE ~inC
  BY <1>0, <1>1, <1>2, <1>3, <1>4, <1>6, <1>7, <1>9
<1>10. CASE ~inB
  BY <1>0, <1>1, <1>2, <1>3, <1>4, <1>5, <1>7, <1>10
<1> QED
  BY <1>8, <1>9, <1>10

\* REQ id-diff-shape and absent-field-rendering: whatever the maps hold, the
\* baseline's snapshot with a candidate's deltas applied to it is the candidate's
\* record, apart from ignored fields.
THEOREM DeltasAlwaysRebuild == Spec => []DeltasRebuild
<1>1. ASSUME IInv PROVE DeltasRebuild
  <2> SUFFICES ASSUME NEW d \in Range(out), NEW i \in 2..Len(input),
                      NEW b \in DataOf(input[1], d.id), NEW c \in DataOf(input[i], d.id),
                      b.bucket = "map", c.bucket = "map"
               PROVE  /\ \A name \in Names(b, c) :
                            Applied(b, d.candidates[i - 1].fields, name) = Lookup(c, name)
                      /\ \A snapshot \in d.baseline, f \in d.candidates[i - 1].fields :
                            f.name \in DOMAIN b.fields => Value(f.name, b.fields[f.name]) \in snapshot
    BY DEF DeltasRebuild, Names
  <2> DEFINE N == Len(input)
             deltas == d.candidates[i - 1].fields
  <2>1. TypeOK /\ OutSound
    BY <1>1 DEF IInv
  <2>2. /\ input \in Inputs /\ cfg.absentEqualsNil \in BOOLEAN /\ N \in Nat
        /\ 1 \in DOMAIN input /\ i \in DOMAIN input /\ IsStream(input[1]) /\ IsStream(input[i])
    BY <2>1, InputStreams, DiffAssumption DEF TypeOK
  <2>3. d = Expected(d.id)
    BY <2>1 DEF OutSound, Range
  <2>4. i - 1 \in 1..(N - 1) /\ (i - 1) + 1 = i
    BY <2>2
  <2>5. /\ d.candidates = [j \in 1..(N - 1) |->
              classify(DataOf(input[1], d.id), DataOf(input[j + 1], d.id), cfg)]
        /\ d.baseline = {baselineFields(data, d.candidates, cfg) : data \in DataOf(input[1], d.id)}
    <3> DEFINE candidates == [j \in 1..(N - 1) |->
                                classify(DataOf(input[1], d.id), DataOf(input[j + 1], d.id), cfg)]
               baseline == {baselineFields(data, candidates, cfg) : data \in DataOf(input[1], d.id)}
    <3>1. d = [id |-> d.id, candidates |-> candidates, baseline |-> baseline]
      BY <2>3 DEF Expected
    <3>2. d.candidates = candidates /\ d.baseline = baseline
      <4> HIDE DEF candidates, baseline
      <4> QED
        BY <3>1
    <3> QED
      BY <3>2
  <2>6. d.candidates[i - 1] = classify(DataOf(input[1], d.id), DataOf(input[i], d.id), cfg)
    BY <2>4, <2>5
  <2>7. DataOf(input[1], d.id) = {b} /\ DataOf(input[i], d.id) = {c}
    BY <2>2, OneRecord
  <2>8. deltas = MapDeltas(b, c)
    <3>1. deltas = UNION {compareRecords(x, y, cfg) : x \in {b}, y \in {c}}
      BY <2>6, <2>7 DEF classify
    <3>2. UNION {compareRecords(x, y, cfg) : x \in {b}, y \in {c}} = compareRecords(b, c, cfg)
      OBVIOUS
    <3>3. compareRecords(b, c, cfg) = MapDeltas(b, c)
      BY DEF compareRecords, MapDeltas
    <3> QED
      BY <3>1, <3>2, <3>3
  <2> HIDE DEF deltas
  <2>9. ASSUME NEW name \in Names(b, c) PROVE Applied(b, deltas, name) = Lookup(c, name)
    BY <2>2, <2>8, AppliedIs
  <2>10. ASSUME NEW snapshot \in d.baseline, NEW f \in deltas, f.name \in DOMAIN b.fields
         PROVE  Value(f.name, b.fields[f.name]) \in snapshot
    <3>1. snapshot = baselineFields(b, d.candidates, cfg)
      BY <2>5, <2>7
    <3>2. Value(f.name, b.fields[f.name]) \in extractAllFields(b)
      BY <2>10 DEF extractAllFields
    <3>3. d.candidates[i - 1] \in Range(d.candidates)
      BY <2>4, <2>5 DEF Range
    <3>4. f.name \in {g.name : g \in UNION {r.fields : r \in Range(d.candidates)}}
      BY <3>3 DEF deltas
    <3>5. Value(f.name, b.fields[f.name]).name = f.name
      BY DEF Value
    <3> QED
      BY <3>1, <3>2, <3>4, <3>5 DEF baselineFields
  <2> QED
    BY <2>9, <2>10 DEF deltas
<1> QED
  BY <1>1, Invariance, PTL

\* ReaderToSeq: however Diff ends, every reader that was asked for a record has been
\* closed exactly once; one is left open only when an earlier stream failed at once.
THEOREM ReadersAlwaysClosed == Spec => []ReadersClosed
<1>1. ASSUME IInv PROVE ReadersClosed
  <2> SUFFICES ASSUME pc = "done", cfg.less, NEW i \in DOMAIN cursors
               PROVE  /\ cursors[i].pos > 0 => cursors[i].closes = 1
                      /\ cursors[i].closes <= 1
                      /\ (input[i].kind = "reader" /\ cursors[i].closes = 0) =>
                            /\ err \in {"upstream", "panic"} /\ out = <<>>
                            /\ \E j \in 1..(i - 1) : cursors[j].closes = 1 \/ input[j].kind = "nil"
    BY DEF ReadersClosed
  <2>1. DOMAIN cursors = DOMAIN input /\ Stopped(i)
    BY <1>1 DEF IInv, DoneInv
  <2>2. DOMAIN input = 1..Len(input) /\ Len(input) \in Nat
    BY <1>1, InputStreams DEF IInv, TypeOK
  <2>3. i > 1 => 1 \in 1..(i - 1)
    BY <2>1, <2>2
  <2> QED
    BY <2>1, <2>3 DEF Stopped, NeverAsked
<1> QED
  BY <1>1, Invariance, PTL
=============================================================================
