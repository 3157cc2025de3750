----------------------------- MODULE MCSecuredDB -----------------------------
(***************************************************************************)
(* Two policies over records of one collection and of a nested one.  The   *)
(* first is declared with one rule of nine or with two that overlap, at    *)
(* equal and at different depths and literal counts, in both orders, with  *)
(* trees that have to be rearranged or cannot be written to a document,    *)
(* and with trees that do not compile; the second is one of two fixed      *)
(* lists, or comes from a document.                                        *)
(***************************************************************************)
EXTENDS PolicyDocuments

CONSTANTS a, b, i1, i2, star, number, p1, p2

RootAllow == Directive(1, "allow", Read \cup Write)
DenyWrites == Scoped(Under(<<a, AnyID>>), <<Directive(2, "deny", Write)>>)
AllowOne ==
    Scoped(Under(<<>>), <<Scoped(Under(<<a, i1>>), <<Directive(3, "allow", {"get", "set", "insert"})>>)>>)
DenyOne == Scoped(Under(<<a, i1>>), <<Directive(4, "deny", {"get", "set"})>>)
Nested == Scoped(Under(<<a, AnyID>>), <<Scoped(Under(<<b>>), <<Directive(5, "allow", Read \cup Write)>>)>>)
DenyCollection == Scoped(Under(<<a>>), <<Directive(6, "deny", Read)>>)
Group == Scoped(Under(<<>>), <<Scoped(GroupScope("g"), <<Directive(7, "allow", {"query"})>>)>>)
Opaque == Scoped(OpaqueScope, <<Directive(8, "allow", {"query"})>>)
\* A scope before the directive that its document has first.
ScopeFirst ==
    Scoped(Under(<<a, AnyID>>),
        <<Scoped(Under(<<b, i1>>), <<Directive(9, "allow", Read \cup {"set"})>>),
          Directive(10, "deny", Read \cup Write)>>)
\* A collection directly below a collection compiles but is no path's prefix.
Misplaced ==
    Scoped(Under(<<a>>), <<Scoped(Under(<<b, AnyID>>), <<Directive(11, "deny", Read \cup Write)>>)>>)
LiteralStar == Scoped(Under(<<a, star>>), <<Directive(12, "allow", Read)>>)

Trees == {RootAllow, DenyWrites, AllowOne, DenyOne, Nested, DenyCollection, Group, Opaque, ScopeFirst}
\* Rules that meet one another on some request.
Overlapping == {RootAllow, DenyWrites, AllowOne, DenyOne, ScopeFirst}
\* No document, or none that can be read back.
Unwritable ==
    {<<>>, <<Directive(Unnamed, "allow", Read)>>,
     <<Scoped(Under(<<a, number>>), <<Directive(12, "allow", Read)>>)>>,
     <<RootAllow, Scoped(Under(<<a>>), <<>>)>>}
DoNotCompile ==
    {<<RootAllow, RootAllow>>,
     <<Scoped(Under(<<a>>), <<Scoped(GroupScope("g"), <<Directive(12, "allow", Read)>>)>>)>>,
     <<Scoped(GroupScope(""), <<Directive(12, "allow", Read)>>)>>,
     <<Scoped(OpaqueScope, <<Scoped(Under(<<a>>), <<>>)>>)>>,
     <<Directive(12, "audit", Read)>>,
     <<Directive(12, "allow", {})>>}

MCRuleTrees ==
    p1 :> ({<<r>> : r \in Trees} \cup {<<r, s>> : r \in Trees \ {Group, Opaque}, s \in Overlapping}
           \cup {<<LiteralStar, DenyCollection>>} \cup Unwritable \cup DoNotCompile)
    @@ p2 :> {<<Opaque, DenyOne, RootAllow, Group>>, <<Nested, AllowOne, DenyWrites, Misplaced>>}
\* The same declarations as the lists that SecuredDB makes policies of.
MCRuleLists == [p \in DOMAIN MCRuleTrees |-> {flattened(trees) : trees \in MCRuleTrees[p]}]

MCAuditTrees ==
    {<<Directive(1, "audit", Write), Scoped(Under(<<a, AnyID>>), <<Directive(2, "ignore-audit", {"set"})>>),
       Scoped(Under(<<a, i1>>), <<Directive(3, "audit", Read), Directive(4, "ignore-audit", {"get"})>>)>>,
     <<Scoped(Under(<<a, AnyID>>), <<Scoped(Under(<<b>>), <<Directive(5, "audit", Read \cup Write)>>)>>)>>,
     <<Directive(1, "deny", Write)>>}

Doc(kind, scopes) == [kind |-> kind, scopes |-> scopes, of |-> <<>>]
ReadRule(id, effect, names) == [id |-> id, effect |-> effect, operations |-> names]
Root(rules) == DocumentScope({Under(<<>>)}, rules, <<>>)
MCDocuments ==
    {Doc("AccessPolicy", <<DocumentScope({Under(<<>>)}, <<ReadRule(1, "deny", {"readwrite"})>>,
        <<DocumentScope({Under(<<Escaped(a), Star>>)}, <<ReadRule(2, "allow", {"read", "set"})>>, <<>>)>>)>>),
     Doc("AuditPolicy", <<DocumentScope({Under(<<Escaped(a), Escaped(i1)>>)},
                            <<ReadRule(1, "audit", {"mutations"})>>, <<>>)>>),
     Doc("AccessPolicy", <<Root(<<ReadRule(1, "audit", {"read"})>>)>>),
     Doc("AccessPolicy", <<Root(<<ReadRule(1, "allow", {"unknown"})>>)>>),
     Doc("AccessPolicy", <<Root(<<ReadRule(Unnamed, "allow", {"read"})>>)>>),
     Doc("AccessPolicy", <<DocumentScope({Under(<<Malformed>>)}, <<ReadRule(1, "allow", {"read"})>>, <<>>)>>),
     Doc("AccessPolicy", <<DocumentScope({Under(<<Star>>)}, <<ReadRule(1, "allow", {"read"})>>, <<>>)>>),
     Doc("AccessPolicy", <<DocumentScope({Under(<<>>), OpaqueScope}, <<ReadRule(1, "allow", {"read"})>>, <<>>)>>)}

MCRecords == {PathResource(<<a, i1>>), PathResource(<<a, NilID>>), PathResource(<<a, i2, b, i1>>)}
MCRecordLists ==
    {<<>>, <<PathResource(<<a, i2>>), PathResource(<<a, i1>>)>>,
     <<PathResource(<<a, i1>>), PathResource(<<a, i2, b, i1>>)>>}
MCQuerySources ==
    {<<PathResource(<<a>>)>>, <<PathResource(<<a>>), CollectionGroup("g")>>, <<OpaqueQuery>>}
=============================================================================
