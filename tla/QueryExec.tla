------------------------------ MODULE QueryExec ------------------------------
(***************************************************************************)
(* Whole queries: grouping and aggregates (group.go), the single-source    *)
(* and the join executor (database.go, join.go) and the pivot of a result  *)
(* into a recordset (recordset.go).                                        *)
(*                                                                         *)
(* A query is a record [structured, name, alias, parent, joins, where,     *)
(* groupBy, having, orderBy, columns, into, limit, offset]; a result is an *)
(* error class with the records, or "none".  A record of a result has nil  *)
(* data when only its key was asked for.                                   *)
(***************************************************************************)
EXTENDS QueryEval

CONSTANTS
    Undefined,   \* collections that a registered schema does not define
    Typed        \* collections with a record factory in the schema

Failed(err) == [err |-> err, records |-> <<>>]
Records(records) == [err |-> "none", records |-> records]
Rec(key, data) == [key |-> key, data |-> data, keyOnly |-> FALSE]
KeyOnly(key) == [key |-> key, data |-> NoData, keyOnly |-> TRUE]

-----------------------------------------------------------------------------
\* The rows of a group are partitioned by type and printed form of each value.
groupKey(groupBy, row, known) ==
    [i \in DOMAIN groupBy |->
        LET v == resolveJoinExpr(groupBy[i], row, known).v IN <<v.t, Text(v)>>]

\* Groups in the order in which their first row is seen.
placed(groups, key, row) ==
    LET same == {i \in DOMAIN groups : groups[i].key = key}
    IN  IF same = {} THEN Append(groups, [key |-> key, rows |-> <<row>>, out |-> NoData])
        ELSE [i \in DOMAIN groups |->
                IF i \in same THEN [groups[i] EXCEPT !.rows = Append(@, row)] ELSE groups[i]]

partition(groupBy, rows, known) ==
    LET groups[n \in 0..Len(rows)] ==
            IF n = 0 THEN <<>> ELSE placed(groups[n - 1], groupKey(groupBy, rows[n], known), rows[n])
    IN  groups[Len(rows)]

argument(e) == IF e.name = "*" THEN OtherExpr ELSE Field(e.src, e.name, "")

total(numbers) ==
    LET sum[n \in 0..Len(numbers)] == IF n = 0 THEN 0 ELSE sum[n - 1] + numbers[n].n
    IN  sum[Len(numbers)]

\* Plausible bug: an average over all rows of the group.
averageOfAll(numbers, rows) == total(numbers) \div Len(rows)

average(numbers, rows) == total(numbers) \div Len(numbers)

\* MIN and MAX keep the first of equal values.
extreme(better, vals) ==
    LET best[n \in 1..Len(vals)] ==
            IF n = 1 THEN vals[1]
            ELSE LET b == best[n - 1] IN IF compare(vals[n], b) = better THEN vals[n] ELSE b
    IN  best[Len(vals)]

\* An aggregate over the values that are present and not nil.  SUM and AVG
\* skip what is not a number.
aggregate(fn, vals, numbers, rows) ==
    CASE fn = "COUNT" -> Value("int", Scale * Len(vals), <<>>)
      [] fn \in {"SUM", "AVG"} /\ numbers = <<>> -> Nil
      [] fn = "SUM" /\ numbers # <<>> -> Value("float", total(numbers), <<>>)
      [] fn = "AVG" /\ numbers # <<>> -> Value("float", average(numbers, rows), <<>>)
      [] fn \notin {"COUNT", "SUM", "AVG"} /\ vals = <<>> -> Nil
      [] fn = "MIN" /\ vals # <<>> -> extreme(-1, vals)
      [] OTHER -> extreme(1, vals)

presentValues(arguments) ==
    mapped(only(arguments, {a \in Range(arguments) : a.present /\ a.v # Nil}), LAMBDA a : a.v)

aggregateOf(e, arguments, vals) ==
    [ok |-> /\ e.fn \in {"COUNT", "SUM", "AVG", "MIN", "MAX"}
            /\ \A i \in DOMAIN arguments : arguments[i].ok,
     v  |-> aggregate(e.fn, vals, only(vals, {v \in Range(vals) : isNumber(v)}), arguments)]

evalAggregate(e, rows, known) ==
    LET arguments == mapped(rows, LAMBDA row : resolveJoinExpr(argument(e), row, known))
    IN  IF e.fn = "COUNT" /\ e.name = "*"
        THEN [ok |-> TRUE, v |-> Value("int", Scale * Len(rows), <<>>)]
        ELSE aggregateOf(e, arguments, presentValues(arguments))

\* The value of an expression for a group; a SELECT alias before a row field.
resolveGroupValue(e, g, known) ==
    CASE e.k = "aggregate" -> evalAggregate(e, g.rows, known)
      [] e.k = "field" ->
            IF e.src = "" /\ e.name \in DOMAIN g.out THEN [ok |-> TRUE, v |-> g.out[e.name]]
            ELSE LET r == resolveJoinExpr(e, g.rows[1], known) IN [ok |-> r.ok, v |-> r.v]
      [] e.k = "const" -> [ok |-> TRUE, v |-> normalizeConstant(e.v)]
      [] OTHER -> [ok |-> FALSE, v |-> Nil]

matchesHaving(condition, g, known) ==
    LET holds[c \in Conditions] ==
            CASE c.k = "comparison" ->
                    LET l == resolveGroupValue(c.l, g, known)
                        r == resolveGroupValue(c.r, g, known)
                    IN  verdict(l.ok /\ r.ok, compareOp(c.op, l.v, r.v))
              [] c.k = "group" ->
                    firstNot(IF c.op = "OR" THEN "no" ELSE "yes",
                             [i \in DOMAIN c.conditions |-> holds[c.conditions[i]]])
              [] OTHER -> "error"
    IN  holds[condition]

compareGroups(o, known, g, h) ==
    (IF o.desc THEN -1 ELSE 1)
    * compare(resolveGroupValue(o.e, g, known).v, resolveGroupValue(o.e, h, known).v)
groupLess(orderBy, known, g, h) ==
    \E n \in DOMAIN orderBy :
        /\ compareGroups(orderBy[n], known, g, h) < 0
        /\ \A m \in 1..(n - 1) : compareGroups(orderBy[m], known, g, h) = 0

\* Plausible bug: LIMIT before OFFSET.
pageLimitFirst(s, offset, limit) ==
    LET c == cut(s, limit) IN IF offset > 0 THEN SubSeq(c, offset + 1, Len(c)) ELSE c

\* OFFSET then LIMIT; neither does anything unless it is positive.
page(s, offset, limit) == cut(IF offset > 0 THEN SubSeq(s, offset + 1, Len(s)) ELSE s, limit)

resolvable(columns, groups, known) ==
    \A i \in DOMAIN groups, n \in DOMAIN columns : resolveGroupValue(columns[n].e, groups[i], known).ok

\* The stages of a grouped query: validation and partition, projection, HAVING,
\* ORDER BY, OFFSET and LIMIT.  With no row at all, what only rows evaluate is not
\* looked at.
groupRecords(q, groups) ==
    Records([i \in DOMAIN groups |-> Rec(NewKeyWithID(q.name, <<i - 1>>), groups[i].out)])

orderGroups(q, groups, known) ==
    IF ~resolvable(q.orderBy, groups, known) THEN Failed("invalid")
    ELSE groupRecords(q, page(stableSort(groups, {p \in Pairs(groups) : groupLess(q.orderBy, known, p[1], p[2])}),
                              q.offset, q.limit))

filterGroups(q, groups, known) ==
    IF q.having = NoCond THEN orderGroups(q, groups, known)
    ELSE IF \E g \in Range(groups) : matchesHaving(q.having, g, known) = "error" THEN Failed("invalid")
    ELSE orderGroups(q, only(groups, {g \in Range(groups) : matchesHaving(q.having, g, known) = "yes"}), known)

projectGroup(q, g, known) == [g EXCEPT !.out = named(q.columns, LAMBDA e : resolveGroupValue(e, g, known).v)]
projectGroups(q, groups, known) ==
    IF ~resolvable(q.columns, groups, known) THEN Failed("invalid")
    ELSE filterGroups(q, mapped(groups, LAMBDA g : projectGroup(q, g, known)), known)

executeGroupedReader(q, rows, known) ==
    LET names == {q.groupBy[i].text : i \in DOMAIN q.groupBy}
    IN  IF \/ \E i \in DOMAIN q.groupBy : ~validSource(q.groupBy[i], known)
           \/ \E i \in DOMAIN q.columns :
                 q.columns[i].e.k # "aggregate" /\ q.columns[i].e.text \notin names
           \/ \E i \in DOMAIN rows, n \in DOMAIN q.groupBy : ~resolveJoinExpr(q.groupBy[n], rows[i], known).ok
        THEN Failed("invalid")
        ELSE projectGroups(q, partition(q.groupBy, rows, known), known)

-----------------------------------------------------------------------------
\* Plausible bug: no join keeps a base row without a match.
keepsNone(join) == FALSE

keepsUnmatched(join) == join.type = "LEFT"

\* The pairs of a nested-loop join, in the order of the ids, and an unmatched
\* base row alone when the join is a LEFT join.
joinSources(q, join, b, data) ==
    [s \in {"", sourceKey(q), sourceKey(join)} |-> IF s = sourceKey(join) THEN data ELSE b.data]

pair(q, join, b, data) ==
    [id |-> b.id, sources |-> joinSources(q, join, b, data),
     merged |-> [f \in DOMAIN b.data \cup DOMAIN data |-> IF f \in DOMAIN data THEN data[f] ELSE b.data[f]]]

pairs(q, join, b, matches) ==
    IF matches = <<>> /\ keepsUnmatched(join) THEN <<pair(q, join, b, NoData)>>
    ELSE mapped(matches, LAMBDA j : pair(q, join, b, j.data))

joinedRows(q, join, baseRows, joinRows, known) ==
    LET meets(b, j) == allConditionsMatch(join.on, joinSources(q, join, b, j.data), known)
    IN  [failed |-> \E b \in Range(baseRows), j \in Range(joinRows) : meets(b, j) = "error",
         rows   |-> FlattenSeq(mapped(baseRows, LAMBDA b :
                       pairs(q, join, b, only(joinRows, {j \in Range(joinRows) : meets(b, j) = "yes"}))))]

joinRecord(q, r) ==
    LET key == NewKeyWithID(q.name, r.id)
    IN  CASE q.columns # <<>>           -> Rec(key, projectRow(q.columns, r.sources))
          [] q.columns = <<>> /\ q.into -> Rec(key, r.merged)
          [] OTHER                      -> KeyOnly(key)

\* WHERE over the joined rows, then the group stages or ORDER BY and LIMIT.
joinRecords(q, rows, known) ==
    IF q.groupBy # <<>> THEN executeGroupedReader(q, mapped(rows, LAMBDA r : r.sources), known)
    ELSE Records(mapped(cut(orderBySources(rows, q.orderBy), q.limit), LAMBDA r : joinRecord(q, r)))

filterJoined(q, joined, known) ==
    LET holds(r) == matchesJoinCondition(q.where, r.sources, known)
    IN  IF joined.failed \/ \E r \in Range(joined.rows) : holds(r) = "error" THEN Failed("invalid")
        ELSE joinRecords(q, only(joined.rows, {r \in Range(joined.rows) : holds(r) = "yes"}), known)

\* A join keeps neither the parents of the base keys nor the schema guard.
executeJoinQuery(q, rowsOf) ==
    LET join == q.joins[1]
        known == {"", sourceKey(q), sourceKey(join)}
    IN  IF \/ Len(q.joins) # 1
           \/ join.type \notin {"INNER", "LEFT"}
           \/ ~validateOrderSources(q.orderBy, known)
           \/ q.groupBy = <<>> /\ ~validateColumns(q.columns, known)
        THEN Failed("invalid")
        ELSE filterJoined(q, joinedRows(q, join, sortByID(rowsOf[q.name]), sortByID(rowsOf[join.name]), known), known)

-----------------------------------------------------------------------------
singleRecord(q, r) ==
    CASE q.columns # <<>>                                   -> Rec(r.key, projectRow(q.columns, r.sources))
      [] q.columns = <<>> /\ (q.into \/ q.name \in Typed) -> Rec(r.key, r.data)
      [] OTHER                                              -> KeyOnly(r.key)

\* OFFSET is not applied to rows that are not grouped.
singleRecords(q, rows, known) ==
    IF q.groupBy # <<>> THEN executeGroupedReader(q, mapped(rows, LAMBDA r : r.sources), known)
    ELSE Records(mapped(cut(orderBySources(rows, q.orderBy), q.limit), LAMBDA r : singleRecord(q, r)))

withSources(q, r) == [id |-> r.id, key |-> r.key, data |-> r.data, sources |-> baseSources(q, r.data)]
filterRows(q, rows) ==
    mapped(only(rows, {r \in Range(rows) :
                         matchesWhere(r.data, q.where) /\ (q.parent # <<>> => isChildOf(r.key, q.parent))}),
           LAMBDA r : withSources(q, r))

\* A query without joins.  A collection without rows answers before the query is
\* looked at.
executeSingle(q, rowsOf) ==
    LET known == {"", q.name} \cup ({q.alias} \ {""})
    IN  IF q.name \in Undefined THEN Failed("undefined")
        ELSE IF rowsOf[q.name] = <<>> THEN Records(<<>>)
        ELSE IF \/ ~validateOrderSources(q.orderBy, known)
                \/ q.groupBy = <<>> /\ ~validateColumns(q.columns, known)
        THEN Failed("invalid")
        ELSE singleRecords(q, filterRows(q, rowsOf[q.name]), known)

ExecuteQuery(q, rowsOf) ==
    IF ~q.structured THEN Failed("notSupported")
    ELSE IF q.joins # <<>> THEN executeJoinQuery(q, rowsOf)
    ELSE executeSingle(q, rowsOf)

-----------------------------------------------------------------------------
(***************************************************************************)
(* The pivot of result records into a recordset: column names and, for     *)
(* each, a type and one cell per row.  A typed column is chosen when every *)
(* row has a value of that type, else an untyped one that can hold nil.    *)
(***************************************************************************)
CONSTANT IDText(_)   \* the string by which the id of a keys-only record is shown

recordToMap(rec) == IF rec.keyOnly THEN [f \in {"ID"} |-> IDText(Sprint(rec.key.id))] ELSE rec.data

\* The union of the fields stands for its sorted sequence.
recordsetColumnNames(q, rows) ==
    IF q.columns # <<>> THEN [i \in DOMAIN q.columns |-> columnOutKey(q.columns[i])]
    ELSE SetToSeq(UNION {DOMAIN rows[i] : i \in DOMAIN rows})

\* Plausible bug: an absent value does not stop a column from being typed.
inferColumnLax(name, rows) ==
    LET types == {at(rows[i], name).t : i \in DOMAIN rows} \ {"nil"}
    IN  IF Cardinality(types) = 1 THEN CHOOSE t \in types : TRUE ELSE "any"

inferColumn(name, rows) ==
    LET types == {at(rows[i], name).t : i \in DOMAIN rows}
    IN  IF types \in {{"float"}, {"string"}, {"bool"}, {"int"}} THEN CHOOSE t \in types : TRUE ELSE "any"

\* The value NewRow puts into a column of a type.
defaultOf(type) == IF type = "any" THEN Nil ELSE Value(type, 0, <<>>)

\* SetValueByName finds the first column of a name; a later one keeps defaults.
pivotCells(names, n, rows, type) ==
    LET first == \A m \in 1..(n - 1) : names[m] # names[n]
    IN  [i \in DOMAIN rows |-> IF first /\ names[n] \in DOMAIN rows[i] THEN rows[i][names[n]] ELSE defaultOf(type)]
pivotColumn(names, n, rows, type) ==
    [name |-> names[n], type |-> type, cells |-> pivotCells(names, n, rows, type)]
pivot(names, rows) ==
    [n \in DOMAIN names |-> pivotColumn(names, n, rows, inferColumn(names[n], rows))]

buildRecordset(q, records) ==
    LET rows == mapped(records, recordToMap)
    IN  pivot(recordsetColumnNames(q, rows), rows)
=============================================================================
