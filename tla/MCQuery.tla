------------------------------- MODULE MCQuery -------------------------------
(***************************************************************************)
(* Items in the root, two of them with the ids 2 and "2", and under two    *)
(* parents, with numbers, one string, an absent and a list value in their  *)
(* fields, joined to owners.  The printed forms are ordered                *)
(* "10" < "1x" < "2" < "3" < "<nil>" < "a" < "b" < "[",                    *)
(* so a number and a string can compare in either direction.               *)
(***************************************************************************)
EXTENDS QuerySession

A == Str(6)
B == Str(7)
Mixed == Str(2)

MCText(v) ==
    CASE isNumber(v) -> (CASE v.n = 10 * Scale -> 1 [] v.n = 2 * Scale -> 3 [] v.n = 3 * Scale -> 4 [] OTHER -> 0)
      [] v.t = "string" -> v.n
      [] v.t = "nil" -> 5
      [] OTHER -> 8
MCIDText(id) == Str(10 * Len(id) + id[Len(id)])
MCNameText == [c \in {"items", "owners", "hidden"} |-> 4]

Row(parent, coll, id, data) == [key |-> Key(parent, coll, ID("string", <<id>>)), data |-> data]
Data1(f, v) == [x \in {f} |-> v]
Data2(f, v, g, w) == [x \in {f, g} |-> IF x = f THEN v ELSE w]

MCUniverse ==
    {Row(<<>>, "items", 1, Data2("g", A, "v", Float(2))),
     [key |-> Key(<<>>, "items", ID("int", <<2>>)), data |-> Data1("g", B)],
     Row(<<>>, "items", 2, Data2("g", A, "v", Float(10))),
     Row(<<>>, "items", 3, Data2("g", B, "v", Mixed)),
     Row(<<1, 1>>, "items", 1, Data2("g", A, "tags", List(<<Float(2), A>>))),
     Row(<<1, 2>>, "items", 1, Data2("g", B, "v", Float(2))),
     Row(<<>>, "owners", 1, Data2("g", A, "v", Whole(10))),
     Row(<<>>, "owners", 2, Data2("h", B, "g", A))}

\* A query over items, and changes to it.
All == [structured |-> TRUE, name |-> "items", alias |-> "", parent |-> <<>>, joins |-> <<>>,
        where |-> NoCond, groupBy |-> <<>>, having |-> NoCond, orderBy |-> <<>>, columns |-> <<>>,
        into |-> TRUE, limit |-> 0, offset |-> 0]
V == Field("", "v", "v")
G == Field("", "g", "g")
Asc(e) == [e |-> e, desc |-> FALSE]
Desc(e) == [e |-> e, desc |-> TRUE]
As(alias, e) == [alias |-> alias, e |-> e]
Number(n) == Const(Whole(n), "n")

Filters ==
    {[All EXCEPT !.where = Comparison(V, op, Number(2))] : op \in {"==", "<", "<=", ">", ">=", "In"}}
    \cup {[All EXCEPT !.where = Group(op, <<Comparison(G, "==", Const(A, "a")), Comparison(V, ">", Number(2))>>)] : op \in {"AND", "OR"}}
    \cup {[All EXCEPT !.where = Comparison(V, "==", Const(Nil, "null"))],
          [All EXCEPT !.where = Comparison(Number(2), "In", Field("", "tags", "tags"))],
          [All EXCEPT !.where = Comparison(Field("", "tags", "tags"), "In", Array(List(<<B, A>>)))],
          [All EXCEPT !.where = Comparison(V, "==", G)],
          [All EXCEPT !.where = OtherCond],
          [All EXCEPT !.parent = <<1, 1>>]}

Orders ==
    {[All EXCEPT !.orderBy = <<Asc(V)>>, !.limit = 2],
     [All EXCEPT !.orderBy = <<Desc(G), Asc(OtherExpr), Asc(V)>>, !.limit = 2],
     [All EXCEPT !.orderBy = <<Asc(G)>>, !.limit = 1],
     [All EXCEPT !.limit = 1, !.into = FALSE],
     [All EXCEPT !.orderBy = <<Asc(Field("z", "v", "z.v"))>>],
     [All EXCEPT !.alias = "i", !.orderBy = <<Asc(Field("i", "v", "i.v"))>>,
                 !.columns = <<As("w", Field("items", "v", "items.v")), As("", G)>>],
     [All EXCEPT !.columns = <<As("", Aggregate("SUM", "", "v", "SUM(v)"))>>],
     [All EXCEPT !.where = Comparison(V, "==", Number(3)), !.columns = <<As("", Field("z", "v", "z.v"))>>],
     [All EXCEPT !.structured = FALSE],
     [All EXCEPT !.name = "hidden"],
     [All EXCEPT !.name = "owners"]}

Stats == <<As("", G), As("n", Aggregate("COUNT", "", "*", "COUNT(*)")), As("k", Aggregate("COUNT", "", "v", "COUNT(v)")),
           As("s", Aggregate("SUM", "", "v", "SUM(v)")), As("m", Aggregate("AVG", "", "v", "AVG(v)")),
           As("lo", Aggregate("MIN", "", "v", "MIN(v)")), As("hi", Aggregate("MAX", "", "v", "MAX(v)"))>>
Grouped == [All EXCEPT !.groupBy = <<G>>, !.columns = Stats]
Total(fn) == Aggregate(fn, "", "v", fn)

Groups ==
    {Grouped,
     [Grouped EXCEPT !.groupBy = <<V, G>>, !.columns = <<As("", G), As("", V), As("", Total("COUNT"))>>],
     [Grouped EXCEPT !.orderBy = <<Desc(G)>>, !.limit = 1, !.offset = 1],
     [Grouped EXCEPT !.orderBy = <<Desc(Total("COUNT")), Asc(G)>>, !.offset = 1],
     [Grouped EXCEPT !.having = Comparison(Field("", "n", "n"), ">=", Number(2)), !.limit = 1],
     [Grouped EXCEPT !.having = Group("OR", <<Comparison(Total("SUM"), ">", Number(10)), Comparison(G, "==", Const(A, "a"))>>)],
     [Grouped EXCEPT !.having = Group("AND", <<Comparison(Total("MIN"), "<", Number(3)), Comparison(OtherExpr, "==", G)>>)],
     [Grouped EXCEPT !.having = OtherCond],
     [Grouped EXCEPT !.orderBy = <<Asc(OtherExpr)>>],
     [Grouped EXCEPT !.columns = <<As("", Total("MEDIAN"))>>],
     [Grouped EXCEPT !.columns = <<As("", V)>>],
     [Grouped EXCEPT !.groupBy = <<Field("z", "g", "z.g")>>],
     [Grouped EXCEPT !.groupBy = <<OtherExpr>>, !.columns = <<>>]}

On(l, r) == Comparison(Field(l, "g", "l"), "==", Field(r, "g", "r"))
Join(type, on) == <<[name |-> "owners", alias |-> "o", type |-> type, on |-> on]>>
Joins ==
    {[All EXCEPT !.joins = Join(type, <<On("", "o")>>)] : type \in {"INNER", "LEFT", "FULL"}}
    \cup {[All EXCEPT !.joins = Join("LEFT", <<On("", "o"), Comparison(V, "==", Field("o", "v", "o.v"))>>), !.into = FALSE],
          [All EXCEPT !.joins = Join("LEFT", <<On("", "owners")>>)],
          [All EXCEPT !.joins = Join("LEFT", <<Comparison(G, "<", Field("o", "g", "o.g"))>>)],
          [All EXCEPT !.joins = Join("INNER", <<On("", "o")>>) \o Join("LEFT", <<>>)],
          [All EXCEPT !.joins = Join("LEFT", <<On("items", "o")>>), !.where = Comparison(Field("o", "v", "o.v"), "==", Number(10)),
                      !.orderBy = <<Desc(Field("o", "v", "o.v"))>>, !.limit = 1],
          [All EXCEPT !.joins = Join("LEFT", <<On("", "o")>>), !.orderBy = <<Desc(V)>>,
                      !.columns = <<As("", G), As("ov", Field("o", "v", "o.v"))>>],
          [Grouped EXCEPT !.joins = Join("INNER", <<On("", "o")>>)]}

Skips == {[All EXCEPT !.offset = 1]}

MCQueries == Filters \cup Orders \cup Groups \cup Joins \cup Skips
MCConditions ==
    LET whole == UNION {{q.where, q.having} : q \in MCQueries}
    IN  whole \cup UNION {Range(c.conditions) : c \in whole}
MCReadOptions == {[offset |-> o, limit |-> l] : o \in {0, 1}, l \in {0, 1, 2}} \cup {[offset |-> 4, limit |-> 1]}

\* What the theorems about keys and groups suppose of records and queries.
ASSUME MCHypotheses == OneSegmentIDs /\ GroupsDistinct
=============================================================================
