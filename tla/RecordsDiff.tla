----------------------------- MODULE RecordsDiff -----------------------------
(***************************************************************************)
(* recordops.Diff (recordops/diff.go, compare.go, bridge.go, options.go):  *)
(* one pass over a baseline stream and candidate streams that are sorted   *)
(* by ID, which yields one difference per ID to a consumer that may stop   *)
(* at any time.  The streams are readers behind ReaderToSeq, pulled        *)
(* through iter.Pull2, which runs a stream only once it is asked for a     *)
(* first record and gives it a chance to clean up only if it runs.         *)
(*                                                                         *)
(* Stream 1 is the baseline.  An item of a stream is a record or an error. *)
(* A record's data is a map of fields, a struct (fields by position, each  *)
(* exported or not) or another single value.  Field lists, which the code sorts by name or     *)
(* keeps in declaration order, are sets here.                              *)
(***************************************************************************)
EXTENDS Integers, Sequences, FiniteSets, SequencesExt

CONSTANTS
    Inputs,      \* sequences of streams to compare
    Options,     \* configurations that resolveOptions can make
    NilValue     \* the value that isNilLike recognises

\* IDs are numbered from 1: 0 stands for no ID.
IsStream(s) ==
    /\ s.kind \in {"reader", "nil"}
    /\ s.kind = "nil" => s.items = <<>>
    /\ s.items \in Seq(Range(s.items))
    /\ \A item \in Range(s.items) :
          item.ok \in BOOLEAN /\ item.id \in Nat /\ (item.ok => item.id > 0)

ASSUME DiffAssumption ==
    /\ \A streams \in Inputs :
          streams \in Seq(Range(streams)) /\ streams # <<>> /\ \A s \in Range(streams) : IsStream(s)
    /\ \A o \in Options :
          {o.less, o.includeMatched, o.onlyChangedFields, o.absentEqualsNil} \subseteq BOOLEAN

VARIABLES
    input,       \* the streams
    cfg,         \* the options
    pc,          \* where DiffFunc is
    cursors,     \* one streamCursor per stream
    k,           \* the cursor to be advanced next
    diff,        \* the difference that has been assembled
    out,         \* what the consumer has got
    err,         \* the error it has got at the end
    broke        \* the consumer broke out of the loop

vars == <<input, cfg, pc, cursors, k, diff, out, err, broke>>

Record(id, data) == [ok |-> TRUE, id |-> id, data |-> data]
UpstreamError == [ok |-> FALSE, id |-> 0, data |-> <<>>]
Reader(items) == [kind |-> "reader", items |-> items]
NilSeq == [kind |-> "nil", items |-> <<>>]

MapData(fields) == [bucket |-> "map", fields |-> fields]
StructData(fields) == [bucket |-> "struct", fields |-> fields]
OtherData(value) == [bucket |-> "other", fields |-> [value |-> value]]

-----------------------------------------------------------------------------
\* Comparison of two records of one ID.
Value(name, value) == [name |-> name, value |-> value, absent |-> FALSE]
AbsentField(name) == [name |-> name, value |-> <<>>, absent |-> TRUE]

\* The exported fields of the baseline's type.
comparedFields(base, ignored) == {i \in DOMAIN base : base[i].exported /\ base[i].name \notin ignored}

compareStruct(base, cand, ignored) ==
    {Value(base[i].name, cand[i].value) :
        i \in {j \in comparedFields(base, ignored) : base[j].value # cand[j].value}}

\* They are looked up by position, so a struct of another type that has too few
\* fields, or an unexported one there, makes the comparison panic.
structPanics(base, cand, ignored) ==
    \E i \in comparedFields(base, ignored) : ~(i \in DOMAIN cand /\ cand[i].exported)

\* Plausible bug: a field the candidate lacks is reported as nil.
compareMapAbsentNil(base, cand, ignored, absentEqualsNil) ==
    LET names == (DOMAIN base \cup DOMAIN cand) \ ignored
        value(fields, n) == IF n \in DOMAIN fields THEN fields[n] ELSE NilValue
    IN  {Value(n, value(cand, n)) :
           n \in {m \in names : IF m \in DOMAIN base \cap DOMAIN cand \/ absentEqualsNil
                                THEN value(base, m) # value(cand, m) ELSE TRUE}}

compareMap(base, cand, ignored, absentEqualsNil) ==
    LET names == (DOMAIN base \cup DOMAIN cand) \ ignored
        both == DOMAIN base \cap DOMAIN cand
    IN  {Value(n, cand[n]) : n \in {m \in names \cap both : base[m] # cand[m]}}
        \cup {AbsentField(n) : n \in {m \in names \ DOMAIN cand :
                                        ~(absentEqualsNil /\ base[m] = NilValue)}}
        \cup {Value(n, cand[n]) : n \in {m \in names \ DOMAIN base :
                                          ~(absentEqualsNil /\ cand[m] = NilValue)}}

compareRecords(base, cand, o) ==
    IF base.bucket # cand.bucket THEN {Value("_value", cand)}
    ELSE CASE base.bucket = "struct" -> compareStruct(base.fields, cand.fields, o.ignoreFields)
           [] base.bucket = "map" -> compareMap(base.fields, cand.fields, o.ignoreFields, o.absentEqualsNil)
           [] OTHER -> IF base = cand THEN {} ELSE {Value("_value", cand)}

incomparable(base, cand, o) ==
    /\ base.bucket = "struct" /\ cand.bucket = "struct"
    /\ structPanics(base.fields, cand.fields, o.ignoreFields)

extractAllFields(data) ==
    CASE data.bucket = "struct" -> {Value(data.fields[i].name, data.fields[i].value) :
                                   i \in comparedFields(data.fields, {})}
      [] data.bucket = "map" -> {Value(n, data.fields[n]) : n \in DOMAIN data.fields}
      [] OTHER -> {Value("_value", data)}

baselineFields(data, candidates, o) ==
    LET changed == {f.name : f \in UNION {c.fields : c \in Range(candidates)}}
    IN  {f \in extractAllFields(data) : o.onlyChangedFields => f.name \in changed}

\* base and cand are sets of at most one record's data.
classify(base, cand, o) ==
    CASE cand = {} -> [status |-> "Missing", fields |-> {}]
      [] cand # {} /\ base = {} ->
           [status |-> "Extra", fields |-> UNION {extractAllFields(c) : c \in cand}]
      [] OTHER ->
           LET deltas == UNION {compareRecords(b, c, o) : b \in base, c \in cand}
           IN  [status |-> IF deltas = {} THEN "Matched" ELSE "Changed", fields |-> deltas]

-----------------------------------------------------------------------------
\* Cursors.  A stream is idle, running (it can clean up when stopped) or over.
newCursor == [stream |-> "idle", pos |-> 0, live |-> TRUE, id |-> 0, data |-> {}, prev |-> 0, closes |-> 0]

Over(c) == [c EXCEPT !.stream = "over", !.closes = @ + (IF c.stream = "over" THEN 0 ELSE 1)]
Failed(c, error) == [cursor |-> c, err |-> error]

\* advance: the next record, the end, an error of the stream, or an ID that does
\* not follow the previous one.
advance(c, s) ==
    LET running == [c EXCEPT !.stream = "running", !.pos = @ + 1]
        item == s.items[c.pos + 1]
    IN
    CASE s.kind = "nil" -> Failed([c EXCEPT !.stream = "over"], "panic")
      [] s.kind # "nil" /\ c.pos = Len(s.items) ->
           [cursor |-> [Over(c) EXCEPT !.live = FALSE], err |-> "none"]
      [] s.kind # "nil" /\ c.pos < Len(s.items) /\ ~item.ok ->
           Failed([running EXCEPT !.live = FALSE], "upstream")
      [] s.kind # "nil" /\ c.pos < Len(s.items) /\ item.ok /\ c.prev >= item.id ->
           Failed(running, IF c.prev = item.id THEN "ErrDuplicateID" ELSE "ErrUnsortedInput")
      [] OTHER -> [cursor |-> [running EXCEPT !.prev = item.id, !.id = item.id, !.data = {item.data}],
                   err |-> "none"]

\* Plausible bug: a stream is abandoned, not stopped.
stopForgets(c) == [c EXCEPT !.stream = "over"]

\* Stopping a stream that was never run does not run it.
stop(c) == IF c.stream = "running" THEN Over(c) ELSE [c EXCEPT !.stream = "over"]

liveIDs == {cursors[i].id : i \in {j \in DOMAIN cursors : cursors[j].live}}
\* Plausible bug: the baseline drives the merge while it lasts.
smallestIDOfBaseline ==
    IF cursors[1].live THEN cursors[1].id
    ELSE CHOOSE id \in liveIDs : \A other \in liveIDs : id <= other

smallestID == CHOOSE id \in liveIDs : \A other \in liveIDs : id <= other

dataAt(i, id) == IF cursors[i].live /\ cursors[i].id = id THEN cursors[i].data ELSE {}

NoDiff == [id |-> 0, baseline |-> {}, candidates |-> <<>>]

\* The baseline snapshot is a set of at most one field list.
assembleIDDiff(id) ==
    LET candidates == [i \in 1..(Len(cursors) - 1) |->
                         classify(dataAt(1, id), dataAt(i + 1, id), cfg)]
    IN  [id |-> id, candidates |-> candidates,
         baseline |-> {baselineFields(data, candidates, cfg) : data \in dataAt(1, id)}]

assemblyFails(id) ==
    \E i \in 2..Len(cursors) : \E b \in dataAt(1, id), c \in dataAt(i, id) : incomparable(b, c, cfg)

shouldEmit(d) == cfg.includeMatched \/ \E c \in Range(d.candidates) : c.status # "Matched"

-----------------------------------------------------------------------------
Init ==
    /\ input \in Inputs
    /\ cfg \in Options
    /\ pc = "begin"
    /\ cursors = <<>>
    /\ k = 1
    /\ diff = NoDiff
    /\ out = <<>>
    /\ err = "none"
    /\ broke = FALSE

\* Without an order nothing is opened.
Begin ==
    /\ pc = "begin"
    /\ IF cfg.less THEN pc' = "prime" /\ cursors' = [i \in DOMAIN input |-> newCursor] /\ UNCHANGED err
                   ELSE pc' = "done" /\ err' = "ErrInvalidArgument" /\ UNCHANGED cursors
    /\ UNCHANGED <<input, cfg, k, diff, out, broke>>

\* One cursor is advanced; the first error ends everything.
AdvanceCursor(i, error) ==
    /\ cursors' = [cursors EXCEPT ![i] = advance(@, input[i]).cursor]
    /\ error = advance(cursors[i], input[i]).err

Prime ==
    /\ pc = "prime"
    /\ \E error \in {"none", "upstream", "panic"} :
          /\ AdvanceCursor(k, error)
          /\ err' = error
          /\ pc' = IF error # "none" THEN "stop" ELSE IF k = Len(cursors) THEN "merge" ELSE "prime"
          /\ k' = IF k = Len(cursors) THEN 1 ELSE k + 1
    /\ UNCHANGED <<input, cfg, diff, out, broke>>

Merge ==
    /\ pc = "merge"
    /\ \/ liveIDs = {} /\ pc' = "stop" /\ UNCHANGED <<diff, err>>
       \/ /\ liveIDs # {}
          /\ assemblyFails(smallestID)
          /\ pc' = "stop"
          /\ err' = "ErrIncomparableField"
          /\ UNCHANGED diff
       \/ /\ liveIDs # {}
          /\ ~assemblyFails(smallestID)
          /\ diff' = assembleIDDiff(smallestID)
          /\ pc' = "advance"
          /\ UNCHANGED err
    /\ k' = 1
    /\ UNCHANGED <<input, cfg, cursors, out, broke>>

\* Every cursor at the ID moves on before the difference is yielded, so an error
\* met there takes its place.
Advance ==
    /\ pc = "advance"
    /\ \/ /\ cursors[k].live /\ cursors[k].id = diff.id
          /\ \E error \in {"none", "upstream", "ErrDuplicateID", "ErrUnsortedInput"} :
                /\ AdvanceCursor(k, error)
                /\ err' = error
                /\ pc' = IF error # "none" THEN "stop" ELSE IF k = Len(cursors) THEN "yield" ELSE "advance"
       \/ /\ ~(cursors[k].live /\ cursors[k].id = diff.id)
          /\ pc' = IF k = Len(cursors) THEN "yield" ELSE "advance"
          /\ UNCHANGED <<cursors, err>>
    /\ k' = IF k = Len(cursors) THEN 1 ELSE k + 1
    /\ UNCHANGED <<input, cfg, diff, out, broke>>

\* The consumer gets the difference and goes on or breaks out of its loop.
Yield ==
    /\ pc = "yield"
    /\ \/ ~shouldEmit(diff) /\ pc' = "merge" /\ UNCHANGED <<out, broke>>
       \/ /\ shouldEmit(diff)
          /\ out' = Append(out, diff)
          /\ \/ pc' = "merge" /\ UNCHANGED broke
             \/ pc' = "stop" /\ broke' = TRUE
    /\ UNCHANGED <<input, cfg, cursors, k, diff, err>>

\* Plausible bug: stopping waits for streams that were never run.
StopWaits ==
    /\ pc = "stop"
    /\ \A i \in DOMAIN cursors : cursors[i].stream # "idle"
    /\ cursors' = [i \in DOMAIN cursors |-> stop(cursors[i])]
    /\ pc' = "done"
    /\ UNCHANGED <<input, cfg, k, diff, out, err, broke>>

\* The deferred stops, candidates first.
Stop ==
    /\ pc = "stop"
    /\ cursors' = [i \in DOMAIN cursors |-> stop(cursors[i])]
    /\ pc' = "done"
    /\ UNCHANGED <<input, cfg, k, diff, out, err, broke>>

Next == Begin \/ Prime \/ Merge \/ Advance \/ Yield \/ Stop

\* The code runs on as long as the consumer's loop body returns.
Spec == Init /\ [][Next]_vars /\ WF_vars(Next)

-----------------------------------------------------------------------------
(***************************************************************************)
(* What a difference is, said of whole streams.                            *)
(***************************************************************************)

\* The records before the first item that ends a stream: its error, or an ID
\* that does not follow.
ValidLen(s) ==
    LET valid == {n \in 0..Len(s.items) : \A i \in 1..n :
                     s.items[i].ok /\ (i > 1 => s.items[i - 1].id < s.items[i].id)}
    IN  CHOOSE n \in valid : \A m \in valid : m <= n
DataOf(s, id) == {s.items[n].data : n \in {m \in 1..ValidLen(s) : s.items[m].id = id}}
KnownIDs == UNION {{s.items[n].id : n \in 1..ValidLen(s)} : s \in Range(input)}

\* A field differs when looking it up gives different answers, for maps with
\* absent and nil taken as one answer if the option says so.
Plain(values) == IF cfg.absentEqualsNil THEN values \ {NilValue} ELSE values
Lookup(data, name) == Plain(IF name \in DOMAIN data.fields THEN {data.fields[name]} ELSE {})
Differs(b, c) ==
    IF b.bucket = "map" /\ c.bucket = "map"
    THEN \E name \in (DOMAIN b.fields \cup DOMAIN c.fields) \ cfg.ignoreFields :
            Lookup(b, name) # Lookup(c, name)
    ELSE compareRecords(b, c, cfg) # {}

StatusOf(i, id) ==
    LET base == DataOf(input[1], id)  cand == DataOf(input[i], id)
    IN  IF cand = {} THEN "Missing"
        ELSE IF base = {} THEN "Extra"
        ELSE IF \E b \in base, c \in cand : Differs(b, c) THEN "Changed" ELSE "Matched"

\* The ID at which a stream breaks is the last one before the break, and 0 when
\* the stream has none; a comparison breaks at its own ID, before the streams.
BreaksAt(s) == IF ValidLen(s) = 0 THEN 0 ELSE s.items[ValidLen(s)].id
BrokenAt ==
    {BreaksAt(s) : s \in {r \in Range(input) : r.kind = "nil" \/ ValidLen(r) < Len(r.items)}}
Incomparable ==
    {id \in KnownIDs : \E i \in 2..Len(input) :
        \E b \in DataOf(input[1], id), c \in DataOf(input[i], id) : incomparable(b, c, cfg)}
Reported ==
    {id \in KnownIDs :
        /\ \A at \in BrokenAt \cup Incomparable : id < at
        /\ cfg.includeMatched \/ \E i \in 2..Len(input) : StatusOf(i, id) # "Matched"}

\* The consumer sees, in ascending order, exactly the IDs of which some candidate
\* diverges (or all of them), each with the right status for every candidate; it
\* is stopped short only by its own break or by an error, which also takes the
\* place of the difference at the ID before it.
Exact ==
    /\ \A n \in DOMAIN out :
          /\ out[n].id \in Reported
          /\ n > 1 => out[n - 1].id < out[n].id
          /\ \A id \in Reported : id < out[n].id => \E m \in 1..(n - 1) : out[m].id = id
          /\ \A i \in 2..Len(input) : out[n].candidates[i - 1].status = StatusOf(i, out[n].id)
    /\ (pc = "done" /\ cfg.less /\ ~broke) =>
          /\ Len(out) = Cardinality(Reported)
          /\ (err = "none") <=> (BrokenAt \cup Incomparable = {})

\* REQ diff: the output is exact whenever there is a candidate and no stream is
\* nil.  In the two cases left out the code departs from the feature
\* (spec/features/recordops/diff/README.md): a nil stream makes Diff panic when it
\* is first asked, where line 668 says "Treated as empty stream; no error."; and
\* without candidates every ID of the baseline is reported once matched ones are
\* included, where line 669 says "Returns a stream that yields zero items".
OutputExact == Len(input) > 1 /\ (\A s \in Range(input) : s.kind # "nil") => Exact

\* REQ id-diff-shape and absent-field-rendering: the baseline's record in the
\* stream with a candidate's deltas applied to it is the candidate's record, apart
\* from ignored fields, so an absent field is never mistaken for one that holds
\* nil; and the snapshot shows the baseline's value of every field with a delta.
Applied(base, deltas, name) ==
    LET here == {f \in deltas : f.name = name}
    IN  IF here = {} THEN Lookup(base, name)
        ELSE Plain({f.value : f \in {g \in here : ~g.absent}})
DeltasRebuild ==
    \A d \in Range(out) : \A i \in 2..Len(input) :
        \A b \in DataOf(input[1], d.id), c \in DataOf(input[i], d.id) :
            (b.bucket = "map" /\ c.bucket = "map") =>
                LET deltas == d.candidates[i - 1].fields IN
                /\ \A name \in (DOMAIN b.fields \cup DOMAIN c.fields) \ cfg.ignoreFields :
                      Applied(b, deltas, name) = Lookup(c, name)
                /\ \A snapshot \in d.baseline, f \in deltas :
                      f.name \in DOMAIN b.fields => Value(f.name, b.fields[f.name]) \in snapshot

\* ReaderToSeq: when Diff is over, however it ended, every reader that was asked
\* for a record has been closed exactly once, and one that was not asked, which
\* takes an error of an earlier stream, is left open.
ReadersClosed ==
    (pc = "done" /\ cfg.less) =>
        \A i \in DOMAIN cursors :
            /\ cursors[i].pos > 0 => cursors[i].closes = 1
            /\ cursors[i].closes <= 1
            /\ (input[i].kind = "reader" /\ cursors[i].closes = 0) =>
                  err \in {"upstream", "panic"} /\ out = <<>> /\ \E j \in 1..(i - 1) : cursors[j].closes = 1
                                                                \/ input[j].kind = "nil"

\* The merge ends: every turn of the loop moves some stream.
DiffEnds == <>(pc = "done")
=============================================================================
