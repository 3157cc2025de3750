------------------------------ MODULE QueryEval ------------------------------
(***************************************************************************)
(* How dalgo2memory evaluates a structured query over the rows its storage *)
(* engines return: conditions, joins, grouping, ordering and projection    *)
(* (database.go from ExecuteQueryToRecordsReader on, join.go, group.go,    *)
(* project.go).                                                            *)
(*                                                                         *)
(* A value keeps its Go type, because == on interfaces tells an int from   *)
(* the float64 of the same number, and its place in the order of its type. *)
(* Strings are numbers in the order of the strings; numbers are in units   *)
(* of 1/Scale, so that averages are exact.  Text gives the place of the    *)
(* printed form of any value among all printed forms.                      *)
(***************************************************************************)
EXTENDS Integers, Sequences, FiniteSets, Functions, SequencesExt

CONSTANTS
    Scale,      \* units of a whole number
    Text(_),    \* place of fmt.Sprint(v) in the order of strings
    NameText,   \* collection name -> place of its text
    Conditions  \* the conditions that queries are made of, with their parts

Value(t, n, e) == [t |-> t, n |-> n, e |-> e]
Whole(n) == Value("int", Scale * n, <<>>)
Float(n) == Value("float", Scale * n, <<>>)
Str(n) == Value("string", n, <<>>)
List(e) == Value("slice", 0, e)
Nil == Value("nil", 0, <<>>)

isNumber(v) == v.t \in {"int", "float"}
sign(x, y) == IF x < y THEN -1 ELSE IF x > y THEN 1 ELSE 0

\* Two numbers compare as numbers, any other pair by its printed forms.
compare(a, b) ==
    IF isNumber(a) /\ isNumber(b) THEN sign(a.n, b.n) ELSE sign(Text(a), Text(b))

compareOp(op, l, r) ==
    CASE op = "==" -> compare(l, r) = 0
      [] op = ">"  -> compare(l, r) > 0
      [] op = ">=" -> compare(l, r) >= 0
      [] op = "<"  -> compare(l, r) < 0
      [] op = "<=" -> compare(l, r) <= 0
      [] OTHER     -> FALSE

\* JSON there and back: every number becomes a float64.
normalizeConstant(v) == IF v.t = "int" THEN [v EXCEPT !.t = "float"] ELSE v

\* Go's == of two values; of two lists it panics, and NoListsCompared of module
\* QuerySession leaves that out.
valuesEqual(a, b) == IF isNumber(a) /\ isNumber(b) THEN a.n = b.n ELSE a = b

elementEquals(a, b) ==
    IF isNumber(a) THEN isNumber(b) /\ a.n = b.n
                   ELSE "slice" \notin {a.t, b.t} /\ a = b

fieldContains(value, v) ==
    value.t = "slice" /\ \E i \in DOMAIN value.e : elementEquals(value.e[i], v)

fieldContainsAny(value, values) ==
    values.t = "slice" /\ \E i \in DOMAIN values.e : fieldContains(value, values.e[i])

\* A lookup in a Go map: nil when the field is absent.
at(data, f) == IF f \in DOMAIN data THEN data[f] ELSE Nil

-----------------------------------------------------------------------------
(***************************************************************************)
(* Expressions and conditions.  text is what String() prints; an aggregate *)
(* of a field carries the field, and the count of all rows, or one of an   *)
(* expression that no row resolves, has the name "*".  Aggregates of a     *)
(* constant, which the code evaluates, are left out.                       *)
(***************************************************************************)
Expr(k, src, name, fn, v, text) ==
    [k |-> k, src |-> src, name |-> name, fn |-> fn, v |-> v, text |-> text]
Field(src, name, text) == Expr("field", src, name, "", Nil, text)
Const(v, text) == Expr("const", "", "", "", v, text)
Array(v) == Expr("array", "", "", "", v, "array")
Aggregate(fn, src, name, text) == Expr("aggregate", src, name, fn, Nil, text)
OtherExpr == Expr("other", "", "", "", Nil, "other")

Cond(k, op, l, r, conditions) ==
    [k |-> k, op |-> op, l |-> l, r |-> r, conditions |-> conditions]
Comparison(l, op, r) == Cond("comparison", op, l, r, <<>>)
Group(op, conditions) == Cond("group", op, OtherExpr, OtherExpr, conditions)
NoCond == Cond("none", "", OtherExpr, OtherExpr, <<>>)
OtherCond == Cond("other", "", OtherExpr, OtherExpr, <<>>)

\* WHERE of a query without joins.  It reads fields of the row whatever their
\* qualifier says.  An ordering never matches an absent field; == with nil does.
matchesComparison(data, c) ==
    CASE c.l.k = "field" /\ c.r.k = "const" ->
            IF c.op = "==" THEN at(data, c.l.name) = normalizeConstant(c.r.v)
            ELSE /\ c.l.name \in DOMAIN data
                 /\ compareOp(c.op, data[c.l.name], normalizeConstant(c.r.v))
      [] c.l.k = "field" /\ c.r.k = "array" -> fieldContainsAny(at(data, c.l.name), c.r.v)
      [] c.l.k = "const" /\ c.r.k = "field" ->
            c.op = "In" /\ fieldContains(at(data, c.r.name), normalizeConstant(c.l.v))
      [] OTHER -> FALSE

matchesWhere(data, condition) ==
    LET holds[c \in Conditions] ==
            CASE c.k = "none"       -> TRUE
              [] c.k = "group"      -> c.op = "AND" /\ \A i \in DOMAIN c.conditions : holds[c.conditions[i]]
              [] c.k = "comparison" -> matchesComparison(data, c)
              [] OTHER              -> FALSE
    IN  holds[condition]

-----------------------------------------------------------------------------
(***************************************************************************)
(* Keys and ids.  A key is a parent path, a collection and an id.  An id   *)
(* is a value of some Go type; Sprint gives its text, the sequence of the  *)
(* places of the segments it has in a path, ordered lexicographically, and *)
(* the ids 1 and "1" have one text.  A parent is only ever looked at as    *)
(* printed, so it is the text of its path.                                 *)
(***************************************************************************)
ID(type, text) == [type |-> type, text |-> text]
Sprint(id) == id.text

Key(parent, coll, id) == [parent |-> parent, coll |-> coll, id |-> id]

\* A key that the engines and the queries make: its id is a string.
NewKeyWithID(coll, text) == Key(<<>>, coll, ID("string", text))

keyPath(key) == key.parent \o <<NameText[key.coll]>> \o Sprint(key.id)

\* Plausible bug: every record is known by its leaf id.
keyIDLeaf(key) == Sprint(key.id)

\* Within the engine of its collection a root record is known by the text of its
\* id, a nested one by its path.
keyID(key) == IF key.parent = <<>> THEN Sprint(key.id) ELSE keyPath(key)

isChildOf(key, parent) == key.parent # <<>> /\ key.parent = parent

textLess(s, t) ==
    \/ IsStrictPrefix(s, t)
    \/ \E n \in DOMAIN s \cap DOMAIN t :
          s[n] < t[n] /\ \A m \in 1..(n - 1) : s[m] = t[m]

\* The insertion sort by which package sort sorts short slices; stable, and
\* defined for a comparison that is no order.  The comparison is the set of the
\* pairs it holds of.
insert(sorted, x, less) ==
    InsertAt(sorted, 1 + Max({0} \cup {i \in DOMAIN sorted : <<x, sorted[i]>> \notin less}), x)

stableSort(s, less) ==
    LET sorted[n \in 0..Len(s)] == IF n = 0 THEN <<>> ELSE insert(sorted[n - 1], s[n], less)
    IN  sorted[Len(s)]

Pairs(s) == Range(s) \X Range(s)

\* The elements of s that are kept, in their order.
only(s, keep) ==
    LET kept[n \in 0..Len(s)] ==
            IF n = 0 THEN <<>> ELSE IF s[n] \in keep THEN Append(kept[n - 1], s[n]) ELSE kept[n - 1]
    IN  kept[Len(s)]

-----------------------------------------------------------------------------
(***************************************************************************)
(* Rows, and the per-source data against which qualified fields resolve.   *)
(* An evaluation ends in a verdict: "yes", "no" or "error".                *)
(***************************************************************************)
NoData == [f \in {} |-> Nil]
lookup(sources, e) ==
    IF e.src \in DOMAIN sources THEN at(sources[e.src], e.name) ELSE Nil

baseSources(from, data) == [s \in {"", from.name} \cup ({from.alias} \ {""}) |-> data]

sourceKey(source) == IF source.alias # "" THEN source.alias ELSE source.name

resolveJoinExpr(e, sources, known) ==
    CASE e.k = "field" -> [ok      |-> e.src \in known,
                           present |-> e.src \in DOMAIN sources /\ e.name \in DOMAIN sources[e.src],
                           v       |-> lookup(sources, e)]
      [] e.k = "const" -> [ok |-> TRUE, present |-> TRUE, v |-> e.v]
      [] OTHER         -> [ok |-> FALSE, present |-> FALSE, v |-> Nil]

verdict(ok, holds) == IF ~ok THEN "error" ELSE IF holds THEN "yes" ELSE "no"

\* Only equality joins and filters a join; any other condition matches nothing.
matchesJoinCondition(c, sources, known) ==
    IF c.k = "none" THEN "yes"
    ELSE IF c.k # "comparison" \/ c.op # "==" THEN "no"
    ELSE LET l == resolveJoinExpr(c.l, sources, known)
             r == resolveJoinExpr(c.r, sources, known)
         IN  verdict(l.ok /\ r.ok, l.present /\ r.present /\ valuesEqual(l.v, r.v))

\* The first verdict that is not "yes" stands.
firstNot(answer, verdicts) ==
    LET others == {i \in DOMAIN verdicts : verdicts[i] # answer}
    IN  IF others = {} THEN answer ELSE verdicts[CHOOSE i \in others : \A j \in others : i <= j]

allConditionsMatch(on, sources, known) ==
    firstNot("yes", [i \in DOMAIN on |-> matchesJoinCondition(on[i], sources, known)])

validSource(e, known) == e.k = "field" => e.src \in known \cup {""}
validateOrderSources(orderBy, known) == \A i \in DOMAIN orderBy : validSource(orderBy[i].e, known)
validateColumns(columns, known) ==
    \A i \in DOMAIN columns : columns[i].e.k = "field" /\ validSource(columns[i].e, known)

\* One key of ORDER BY; a key that is no field reference is skipped.
compareKey(o, a, b) ==
    IF o.e.k # "field" THEN 0
    ELSE (IF o.desc THEN -1 ELSE 1) * compare(lookup(a.sources, o.e), lookup(b.sources, o.e))

\* The keys in turn, up to the first that tells a from b.
keysTie(orderBy, a, b, n) == \A m \in 1..n : compareKey(orderBy[m], a, b) = 0
keysLess(orderBy, a, b) ==
    \E n \in DOMAIN orderBy : compareKey(orderBy[n], a, b) < 0 /\ keysTie(orderBy, a, b, n - 1)

\* Plausible bug: rows that tie on every key keep the order of the engine.
rowLessUntied(orderBy, a, b) == keysLess(orderBy, a, b)

\* ORDER BY: the keys, then the id.
rowLess(orderBy, a, b) ==
    \/ keysLess(orderBy, a, b)
    \/ keysTie(orderBy, a, b, Len(orderBy)) /\ textLess(a.id, b.id)

orderBySources(rows, orderBy) == stableSort(rows, {p \in Pairs(rows) : rowLess(orderBy, p[1], p[2])})

sortByID(rows) == stableSort(rows, {p \in Pairs(rows) : textLess(p[1].id, p[2].id)})

mapped(s, f(_)) == [i \in DOMAIN s |-> f(s[i])]

\* A limit that is not positive is none.
cut(s, limit) == IF limit > 0 /\ limit < Len(s) THEN SubSeq(s, 1, limit) ELSE s

columnOutKey(col) ==
    IF col.alias # "" THEN col.alias ELSE IF col.e.k = "field" THEN col.e.name ELSE col.e.text

\* Later columns replace earlier ones of the same name.
named(columns, valueOf(_)) ==
    [name \in {columnOutKey(columns[i]) : i \in DOMAIN columns} |->
        LET at_ == {i \in DOMAIN columns : columnOutKey(columns[i]) = name}
        IN  valueOf(columns[CHOOSE i \in at_ : \A j \in at_ : j <= i].e)]

projectRow(columns, sources) == named(columns, LAMBDA e : lookup(sources, e))
=============================================================================
