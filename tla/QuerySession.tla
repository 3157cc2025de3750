---------------------------- MODULE QuerySession ----------------------------
(***************************************************************************)
(* A caller writes records, runs queries against dalgo2memory and reads    *)
(* the results: record by record from the reader (reader_slice_records.go) *)
(* or all at once with an offset and a limit of its own                    *)
(* (reader_read_all.go), as records or as a recordset (recordset.go).      *)
(*                                                                         *)
(* The engines return their rows in any order: the serialized one ranges   *)
(* over a map.  They may return only the rows an equality selects, when a  *)
(* column is indexed (module ColumnarEngine).  A reader holds its records, *)
(* so calls on it do not interfere with writes; one result is looked at at *)
(* a time.                                                                 *)
(***************************************************************************)
EXTENDS QueryExec

CONSTANTS
    Collections,   \* collections written to
    Universe,      \* the [key, data] pairs that callers write, ids of any type
    MaxRows,       \* bound: records of a collection at a time
    Queries,       \* the queries that callers run
    ReadOptions,   \* [offset, limit] given to the helpers that read everything
    MaxNext        \* bound: calls of Next on one reader

isSeq(s) == s \in Seq(Range(s))
isValue(v) == v.n \in Int /\ Text(v) \in Int

\* What the types of the Go values guarantee: a key prints as a path of texts; data is a
\* map; a query has all of its parts, in lists, and names of collections; a
\* condition's parts are conditions.
ASSUME QueryAssumption ==
    /\ MaxRows \in Nat /\ MaxNext \in Nat /\ isValue(Nil)
    /\ \A c \in Collections : NameText[c] \in Int
    /\ \A row \in Universe :
          /\ row = [key |-> row.key, data |-> row.data]
          /\ row.key = Key(row.key.parent, row.key.coll, row.key.id)
          /\ row.key.coll \in Collections
          /\ row.key.parent \in Seq(Int) /\ Sprint(row.key.id) \in Seq(Int)
          /\ IsFiniteSet(DOMAIN row.data) /\ \A f \in DOMAIN row.data : isValue(row.data[f])
    /\ \A q \in Queries :
          /\ q = [structured |-> q.structured, name |-> q.name, alias |-> q.alias, parent |-> q.parent,
                  joins |-> q.joins, where |-> q.where, groupBy |-> q.groupBy, having |-> q.having,
                  orderBy |-> q.orderBy, columns |-> q.columns, into |-> q.into, limit |-> q.limit,
                  offset |-> q.offset]
          /\ q.name \in Collections /\ q.limit \in Int /\ q.offset \in Int
          /\ isSeq(q.joins) /\ isSeq(q.groupBy) /\ isSeq(q.orderBy) /\ isSeq(q.columns)
          /\ \A i \in DOMAIN q.joins : q.joins[i].name \in Collections /\ isSeq(q.joins[i].on)
          /\ q.where \in Conditions /\ q.having \in Conditions
    /\ \A c \in Conditions : isSeq(c.conditions) /\ Range(c.conditions) \subseteq Conditions
    /\ \A o \in ReadOptions :
          o = [offset |-> o.offset, limit |-> o.limit] /\ o.offset \in Int /\ o.limit \in Int

mayBeList(e) ==
    \/ e.k = "const" /\ e.v.t = "slice"
    \/ e.k = "field" /\ \E row \in Universe : at(row.data, e.name).t = "slice"

\* No == compares two lists, which panics in Go.
ASSUME NoListsCompared ==
    LET on == UNION {UNION {Range(q.joins[i].on) : i \in DOMAIN q.joins} : q \in Queries}
    IN  \A c \in Conditions \cup on :
           c.k = "comparison" /\ c.op = "==" => ~(mayBeList(c.l) /\ mayBeList(c.r))

VARIABLES
    stored,    \* collection -> storage id -> [key, data]
    written,   \* printed key -> record last written under it: what a reader of keys expects
    answer,    \* what the last query returned
    reader,    \* [records, current, open]
    got        \* what the last reading of the answer returned

vars == <<stored, written, answer, reader, got>>

NoQuery == [name |-> ""]
NoAnswer == [q |-> NoQuery, how |-> "none", err |-> "none", records |-> <<>>, unpaged |-> <<>>, pivot |-> <<>>]
NoReader == [records |-> <<>>, current |-> -1, open |-> FALSE]
NothingRead == [how |-> "none", records |-> <<>>, options |-> [offset |-> 0, limit |-> 0],
                err |-> "none", cursor |-> "unknown"]

Init ==
    /\ stored = [c \in Collections |-> [id \in {} |-> NoData]]
    /\ written = [p \in {} |-> NoData]
    /\ answer = NoAnswer
    /\ reader = NoReader
    /\ got = NothingRead

idle == answer = NoAnswer

Bind(f, x, y) == [z \in DOMAIN f \cup {x} |-> IF z = x THEN y ELSE f[z]]
Unbind(f, x) == [z \in DOMAIN f \ {x} |-> f[z]]

\* A key as it prints: its parent, its collection and the text of its id.
printed(key) == <<key.parent, key.coll, Sprint(key.id)>>

\* Set, the write of a record under its key; the engine knows it by keyID.
Set(row) ==
    /\ idle
    /\ LET c == row.key.coll IN
       /\ Cardinality(DOMAIN stored[c] \cup {keyID(row.key)}) <= MaxRows
       /\ stored' = [stored EXCEPT ![c] = Bind(@, keyID(row.key), row)]
    /\ written' = Bind(written, printed(row.key), row)
    /\ UNCHANGED <<answer, reader, got>>

Delete(key) ==
    /\ idle
    /\ printed(key) \in DOMAIN written
    /\ stored' = [stored EXCEPT ![key.coll] = Unbind(@, keyID(key))]
    /\ written' = Unbind(written, printed(key))
    /\ UNCHANGED <<answer, reader, got>>

-----------------------------------------------------------------------------
\* An index answers a single equality of a field and a constant.
indexable(where) == where.k = "comparison" /\ where.op = "==" /\ where.l.k = "field" /\ where.r.k = "const"

\* The rows an engine may return for a query, in the orders it may return them.
engineRows(c, q, indexed) ==
    LET rows == {[id |-> id, key |-> stored[c][id].key, data |-> stored[c][id].data] : id \in DOMAIN stored[c]}
    IN  SetToSeqs(IF indexed THEN {r \in rows : matchesWhere(r.data, q.where)} ELSE rows)

\* The rows of the collections of a query, in an order they may come in.
Inputs(q, indexed) ==
    LET others == IF q.joins = <<>> THEN {<<>>} ELSE engineRows(q.joins[1].name, q, FALSE)
    IN  {[c \in Collections |-> IF c = q.name THEN rows[1] ELSE rows[2]] :
            rows \in engineRows(q.name, q, indexed) \X others}

\* unpaged is what the same query without LIMIT and OFFSET returns on the same
\* rows, for comparison only.
Answered(q, how, result, unpaged, pivoted) ==
    answer' = [q |-> q, how |-> how, err |-> result.err, records |-> result.records,
               unpaged |-> unpaged.records, pivot |-> pivoted]

withoutPage(q) == [q EXCEPT !.limit = 0, !.offset = 0]

ExecuteQueryToRecordsReader(q, indexed) ==
    /\ indexed => q.joins = <<>> /\ indexable(q.where)
    /\ \E rowsOf \in Inputs(q, indexed) :
       \E result \in {ExecuteQuery(q, rowsOf)} :
          /\ Answered(q, "records", result, ExecuteQuery(withoutPage(q), rowsOf), <<>>)
          /\ reader' = [records |-> result.records, current |-> -1, open |-> result.err = "none"]
    /\ UNCHANGED <<stored, written, got>>

\* ExecuteQueryToRecordsetReader: the same records, read to the end and pivoted.
ExecuteQueryToRecordsetReader(q) ==
    /\ \E rowsOf \in Inputs(q, FALSE) : \E result \in {ExecuteQuery(q, rowsOf)} :
          Answered(q, "recordset", result, ExecuteQuery(withoutPage(q), rowsOf),
                   IF result.err = "none" THEN buildRecordset(q, result.records) ELSE <<>>)
    /\ UNCHANGED <<stored, written, reader, got>>

-----------------------------------------------------------------------------
\* Next of the records reader; reading a closed one is an error.
Next_ ==
    /\ answer.how = "records" /\ answer.err = "none" /\ reader.current < MaxNext
    /\ got.how \in {"none", "next"}
    /\ \/ /\ ~reader.open
          /\ got' = [got EXCEPT !.how = "next", !.err = "noRecords", !.cursor = "unknown"]
          /\ UNCHANGED reader
       \/ /\ reader.open
          /\ reader' = [reader EXCEPT !.current = @ + 1]
          /\ got' = IF reader.current + 1 >= Len(reader.records)
                    THEN [got EXCEPT !.how = "next", !.err = "noMore", !.cursor = "unknown"]
                    ELSE [got EXCEPT !.how = "next", !.cursor = "unknown",
                                    !.records = Append(@, reader.records[reader.current + 2])]
    /\ UNCHANGED <<stored, written, answer>>

\* Close drops the records; the position stays.
Close ==
    /\ reader.open
    /\ reader' = [reader EXCEPT !.records = <<>>, !.open = FALSE]
    /\ UNCHANGED <<stored, written, answer, got>>

\* Cursor: the position of the record last read, or why there is none.  The
\* position of a reader closed before its first Next is "not started".
Cursor ==
    /\ answer.how = "records" /\ answer.err = "none" /\ got.how \in {"none", "next"} /\ got.cursor = "unknown"
    /\ got' = [got EXCEPT !.cursor = IF reader.current >= Len(reader.records) THEN "closed"
                                    ELSE IF reader.current < 0 THEN "notStarted" ELSE "position"]
    /\ UNCHANGED <<stored, written, answer, reader>>

\* Calls of Next that reading n records with an offset and a limit makes.
calls(n, o) ==
    LET wanted == (IF o.offset > 0 THEN o.offset ELSE 0) + o.limit
    IN  IF o.limit > 0 /\ wanted <= n THEN wanted ELSE n + 1

\* Plausible bug: the records that are skipped count towards the limit.
readSkippedCount(records, o) == LET c == cut(records, o.limit) IN SubSeq(c, o.offset + 1, Len(c))

readPage(records, o) == page(records, o.offset, o.limit)

\* SelectAll behind ReadAllToRecords and SelectAllIDs: skip, read, close.  A
\* context that ends, or a Next that fails, after `done` calls stops it with what
\* it has; the error of Close is reported when there is no other.
SelectAll(o, stop, done, closeFails) ==
    /\ reader.open /\ reader.current = -1
    /\ LET stopped == stop # "none" /\ done < calls(Len(reader.records), o)
           err == IF stopped THEN stop ELSE IF closeFails THEN "closeFailed" ELSE "none"
       IN  got' = [how     |-> "all",
                   records |-> IF stopped THEN readPage(SubSeq(reader.records, 1, done), [o EXCEPT !.limit = 0])
                               ELSE readPage(reader.records, o),
                   options |-> o,
                   err     |-> err,
                   cursor  |-> "unknown"]
    /\ reader' = [reader EXCEPT !.records = <<>>, !.open = FALSE]
    /\ UNCHANGED <<stored, written, answer>>

\* ExecuteQueryAndReadAllToRecordset: the recordset is complete before it is
\* read, whatever offset and limit say; reading `limit` rows ends in
\* ErrLimitReached even when there are no more.
ReadAllToRecordset(o, stop, done) ==
    /\ answer.how = "recordset" /\ answer.err = "none"
    /\ got.how = "none"
    /\ LET n == Len(answer.records)
           wanted == (IF o.offset > 0 THEN o.offset ELSE 0) + o.limit
       IN  got' = [how |-> "recordset", records |-> <<>>, options |-> o, cursor |-> "unknown",
                   err |-> IF stop # "none" /\ done < calls(n, o) THEN stop
                           ELSE IF o.limit > 0 /\ wanted <= n THEN "limitReached" ELSE "none"]
    /\ UNCHANGED <<stored, written, answer, reader>>

\* The caller is done with the result.
Forget ==
    /\ ~idle
    /\ answer' = NoAnswer /\ reader' = NoReader /\ got' = NothingRead
    /\ UNCHANGED <<stored, written>>

Query == idle /\ \E q \in Queries, indexed \in BOOLEAN : ExecuteQueryToRecordsReader(q, indexed)
QueryRecordset == idle /\ \E q \in Queries : ExecuteQueryToRecordsetReader(q)

Next ==
    \/ \E row \in Universe : Set(row)
    \/ \E row \in Universe : Delete(row.key)
    \/ Query
    \/ QueryRecordset
    \/ Next_
    \/ Close
    \/ Cursor
    \/ \E o \in ReadOptions : \E stop \in {"none", "cancelled", "failed"} : \E done \in 0..MaxRows :
          SelectAll(o, stop, done, FALSE)
    \/ \E o \in ReadOptions : SelectAll(o, "none", 0, TRUE)
    \/ \E o \in ReadOptions : \E stop \in {"none", "cancelled"} : \E done \in 0..MaxRows :
          ReadAllToRecordset(o, stop, done)
    \/ Forget

Spec == Init /\ [][Next]_vars

-----------------------------------------------------------------------------
(***************************************************************************)
(* References: what queries mean in terms of sets of rows, without an      *)
(* order in which an engine returns them.                                  *)
(***************************************************************************)
q_ == answer.q
asked == answer.q # NoQuery /\ answer.err = "none"
plain == q_.structured /\ q_.joins = <<>>
selected ==
    {r \in Range(stored[q_.name]) :
        matchesWhere(r.data, q_.where) /\ (q_.parent # <<>> => r.key.parent = q_.parent)}

\* Values that are all numbers, or all something else, are ordered by compare.
alike(field, rows) ==
    \/ \A r \in rows : isNumber(at(r.data, field))
    \/ \A r \in rows : ~isNumber(at(r.data, field))
smaller(v, w) == IF isNumber(v) THEN v.n < w.n ELSE Text(v) < Text(w)

ahead(o, r, s) ==
    /\ o.e.k = "field"
    /\ IF o.desc THEN smaller(at(s.data, o.e.name), at(r.data, o.e.name))
                 ELSE smaller(at(r.data, o.e.name), at(s.data, o.e.name))
precedes(r, s) ==
    LET ties(n) == \A m \in 1..n : ~ahead(q_.orderBy[m], r, s) /\ ~ahead(q_.orderBy[m], s, r)
    IN  \/ \E n \in DOMAIN q_.orderBy : ties(n - 1) /\ ahead(q_.orderBy[n], r, s)
        \/ ties(Len(q_.orderBy)) /\ textLess(keyID(r.key), keyID(s.key))

\* A query of one collection answers the first LIMIT rows of the order it asks
\* for, ties in the order of the ids, in whatever order the engine returned them
\* (orderBySources, ExecuteQueryToRecordsReader), when each sort key holds values
\* that compare alike.
AnswerIsOrderedTop ==
    (/\ asked /\ plain /\ q_.groupBy = <<>>
     /\ \A n \in DOMAIN q_.orderBy : q_.orderBy[n].e.k = "field" => alike(q_.orderBy[n].e.name, selected))
    => LET rowAt(i) == CHOOSE r \in selected : r.key = answer.records[i].key
           shown == {answer.records[i].key : i \in DOMAIN answer.records}
       IN  /\ Len(answer.records) = IF q_.limit > 0 /\ q_.limit < Cardinality(selected)
                                    THEN q_.limit ELSE Cardinality(selected)
           /\ shown \subseteq {r.key : r \in selected}
           /\ \A i, j \in DOMAIN answer.records : i < j => precedes(rowAt(i), rowAt(j))
           /\ \A i \in DOMAIN answer.records : \A s \in selected :
                 s.key \notin shown => precedes(rowAt(i), s)

valueOf(e, r) == IF e.k = "const" THEN e.v ELSE at(r.data, e.name)
ofClass(e, class) ==
    LET given == {r \in class : at(r.data, e.name) # Nil}
        numbers == {r \in given : isNumber(r.data[e.name])}
        sum == MapThenSumSet(LAMBDA r : r.data[e.name].n, numbers)
        vals == {r.data[e.name] : r \in given}
    IN  IF e.k # "aggregate" THEN valueOf(e, CHOOSE r \in class : TRUE)
        ELSE IF e.name = "*" THEN Whole(Cardinality(class))
        ELSE CASE e.fn = "COUNT" -> Whole(Cardinality(given))
               [] e.fn \in {"SUM", "AVG"} /\ numbers = {} -> Nil
               [] e.fn = "SUM" /\ numbers # {} -> Value("float", sum, <<>>)
               [] e.fn = "AVG" /\ numbers # {} -> Value("float", sum \div Cardinality(numbers), <<>>)
               [] e.fn \in {"MIN", "MAX"} /\ vals = {} -> Nil
               [] e.fn = "MIN" /\ vals # {} -> CHOOSE v \in vals : \A w \in vals : ~smaller(w, v)
               [] e.fn = "MAX" /\ vals # {} -> CHOOSE v \in vals : \A w \in vals : ~smaller(v, w)

Written(coll) == {r \in Universe : r.key.coll = coll}

\* No two values of a field have one type and one printed form, as the lists
\* ["a b"] and ["a", "b"] have.
PrintedApart(coll, field) ==
    \A r, s \in Written(coll) :
        LET v == at(r.data, field) w == at(s.data, field) IN v.t = w.t /\ Text(v) = Text(w) => v = w

\* No two values of a field compare as equal, as an int and a float of one number
\* do, or true and "true".
OrderedApart(coll, field) ==
    \A r, s \in Written(coll) :
        LET v == at(r.data, field) w == at(s.data, field)
        IN  (isNumber(v) <=> isNumber(w)) /\ ~smaller(v, w) /\ ~smaller(w, v) => v = w

\* A column that is not aggregated is a grouping field.
IsGrouping(q, e) ==
    /\ e.k = "field"
    /\ \A m \in DOMAIN q.groupBy :
          q.groupBy[m].text = e.text => q.groupBy[m].k = "field" /\ q.groupBy[m].name = e.name

\* What grouping needs to agree with a reference that tells values apart: the code
\* tells grouping values apart by their type and printed form, and MIN and MAX keep
\* the first of values that compare as equal.
GroupsDistinct ==
    \A q \in Queries : q.groupBy # <<>> =>
        /\ \A n \in DOMAIN q.groupBy : q.groupBy[n].k = "field" => PrintedApart(q.name, q.groupBy[n].name)
        /\ \A n \in DOMAIN q.columns :
              /\ q.columns[n].e.k # "aggregate" => IsGrouping(q, q.columns[n].e)
              /\ (q.columns[n].e.k = "aggregate" /\ q.columns[n].e.fn \in {"MIN", "MAX"})
                 => OrderedApart(q.name, q.columns[n].e.name)

\* A grouped query answers one row for each distinct tuple of grouping values,
\* whose aggregates are those of the rows with that tuple, nulls skipped, in
\* whatever order the rows came (partition and evalAggregate of group.go).
GroupsMatchReference ==
    (/\ asked /\ plain /\ q_.groupBy # <<>> /\ q_.having = NoCond /\ q_.limit <= 0 /\ q_.offset <= 0
     /\ \A n \in DOMAIN q_.columns :
           alike(q_.columns[n].e.name, {r \in selected : at(r.data, q_.columns[n].e.name) # Nil}))
    => LET tuple(r) == [n \in DOMAIN q_.groupBy |-> valueOf(q_.groupBy[n], r)]
           classes == {{r \in selected : tuple(r) = tuple(s)} : s \in selected}
       IN  /\ Len(answer.records) = Cardinality(classes)
           /\ {answer.records[i].data : i \in DOMAIN answer.records}
              = {named(q_.columns, LAMBDA e : ofClass(e, class)) : class \in classes}

\* A join without a filter answers every base row as often as it has matches, and
\* once without one when the join is a LEFT join, base rows in the order of their
\* ids (executeJoinQuery).
JoinRowsExact ==
    (asked /\ q_.structured /\ q_.joins # <<>> /\ q_.groupBy = <<>> /\ q_.where = NoCond /\ q_.limit <= 0)
    => LET join == q_.joins[1]
           side(e, b, j) == IF e.src = sourceKey(join) THEN j.data ELSE b.data
           given(e, b, j) == CASE e.k = "const" -> {e.v}
                               [] e.k = "field" -> {side(e, b, j)[f] : f \in {e.name} \cap DOMAIN side(e, b, j)}
                               [] OTHER -> {}
           meets(c, b, j) ==
              \/ c.k = "none"
              \/ /\ c.k = "comparison" /\ c.op = "=="
                 /\ \E v \in given(c.l, b, j), w \in given(c.r, b, j) : valuesEqual(v, w)
           matches(b) == Cardinality({j \in Range(stored[join.name]) :
                                        \A n \in DOMAIN join.on : meets(join.on[n], b, j)})
           times(b) == Cardinality({i \in DOMAIN answer.records : Sprint(answer.records[i].key.id) = keyID(b.key)})
       IN  /\ \A b \in Range(stored[q_.name]) :
                 times(b) = IF matches(b) = 0 /\ join.type = "LEFT" THEN 1 ELSE matches(b)
           /\ q_.orderBy = <<>> => \A i, n \in DOMAIN answer.records :
                 i < n => ~textLess(Sprint(answer.records[n].key.id), Sprint(answer.records[i].key.id))

dataOf(records) == [i \in DOMAIN records |-> records[i].data]

\* A grouped query with LIMIT and OFFSET answers that page of what it answers
\* without them, taken after HAVING and ORDER BY (executeGroupedReader).  A query
\* that does not group answers the page of its LIMIT from the first row on: its
\* OFFSET is never looked at (ExecuteQueryToRecordsReader), where docs/queries.md
\* line 387 says of such a query "Skip first 20 results, then return next 10".
PagesAreSlices ==
    asked =>
       LET all == dataOf(answer.unpaged)
           from == IF q_.groupBy # <<>> /\ q_.offset > 0 THEN q_.offset ELSE 0
           to == IF q_.limit > 0 THEN from + q_.limit ELSE Len(all)
           inPage == {i \in DOMAIN all : from < i /\ i <= to}
       IN  /\ Len(answer.records) = Cardinality(inPage)
           /\ \A i \in DOMAIN answer.records : answer.records[i].data = all[from + i]

\* Ids that are one segment of a path, which is what an id without a slash is.
OneSegmentIDs == \A row \in Universe : Len(Sprint(row.key.id)) = 1

\* What is stored is, path by path, the record last written under a key that
\* prints as that path: no write or deletion under a key that prints otherwise, a
\* child of another parent included, replaces or removes it, and nothing else is
\* stored.  Keys that print alike, as those with the ids 1 and "1" do, share a
\* place: the later write replaces the record and the key of the earlier one
\* (keyID, fmt.Sprint of the id).
KeysSeparate ==
    /\ \A p \in DOMAIN written :
          LET k == written[p].key
          IN  printed(k) = p /\ keyID(k) \in DOMAIN stored[k.coll] /\ stored[k.coll][keyID(k)] = written[p]
    /\ \A c \in Collections : \A id \in DOMAIN stored[c] :
          printed(stored[c][id].key) \in DOMAIN written /\ written[printed(stored[c][id].key)] = stored[c][id]

\* Every cell of the pivoted result is the value of that field in its record, and
\* nil where the record has none, so that an absent number is never read as zero
\* (inferColumn and buildRecordsetReader of recordset.go).
PivotAgrees ==
    \A n \in DOMAIN answer.pivot :
        (\A m \in 1..(n - 1) : answer.pivot[m].name # answer.pivot[n].name)
        => \A i \in DOMAIN answer.records :
              answer.pivot[n].cells[i] = at(recordToMap(answer.records[i]), answer.pivot[n].name)

\* What a reading returns is the page of the answer its own offset and limit ask
\* for; when it is stopped, the beginning of that page; and record by record it
\* is the beginning of the answer, with a cursor only while a record is current
\* (SelectAll, recordsReader).
ReadingIsPage ==
    LET o == got.options
        wanted == answer.records
        from == IF o.offset > 0 THEN o.offset ELSE 0
        to == IF o.limit > 0 THEN from + o.limit ELSE Len(wanted)
        inPage == SubSeq(wanted, from + 1, IF to < Len(wanted) THEN to ELSE Len(wanted))
    IN  /\ got.how = "all" => IF got.err \in {"none", "closeFailed"} THEN got.records = inPage
                                                                  ELSE IsPrefix(got.records, inPage)
        /\ got.how = "next" => /\ IsPrefix(got.records, answer.records)
                               /\ got.cursor = "position" => Len(got.records) = reader.current + 1
=============================================================================
