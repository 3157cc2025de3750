---------------------------- MODULE AccessPolicy ----------------------------
(***************************************************************************)
(* Declarative access policies (access/policy.go, rule.go, resource.go,    *)
(* operation.go): rules at nested scopes are compiled into a flat list,    *)
(* and a policy decides a request by the most specific rule that matches   *)
(* each of its resources.                                                  *)
(*                                                                         *)
(* A path is a sequence that alternates collection names and record IDs.   *)
(* IDs that equalID identifies are one value here.  A declared rule is its *)
(* directive with the chain of scopes around it and the name it has or is  *)
(* given; scopes around no directive, which only a check of their nesting  *)
(* sees, are left out.  Names are numbers, in the order of the strings.    *)
(***************************************************************************)
EXTENDS Integers, Sequences, FiniteSets, Functions

CONSTANTS
    CollectionNames,
    RecordIDs,       \* IDs up to equalID
    NilID,           \* the ID of an incomplete key
    AnyID            \* the wildcard of a pattern

ASSUME PolicyAssumption ==
    /\ CollectionNames \cap (RecordIDs \cup {NilID, AnyID}) = {}
    /\ NilID \notin RecordIDs
    /\ AnyID \notin RecordIDs \cup {NilID}

Read == {"get", "exists", "query"}
Write == {"insert", "set", "update", "delete", "truncate"}
knownOperations == Read \cup Write

\* Resources: ordinary paths, collection groups and opaque queries.
PathResource(path) == [kind |-> "path", path |-> path, name |-> "none"]
CollectionGroup(name) == [kind |-> "group", path |-> <<>>, name |-> name]
OpaqueQuery == [kind |-> "opaque", path |-> <<>>, name |-> "none"]

\* Scopes that enclose a directive.
Under(pattern) == [kind |-> "path", pattern |-> pattern, name |-> "none"]
GroupScope(name) == [kind |-> "group", pattern |-> <<>>, name |-> name]
OpaqueScope == [kind |-> "opaque", pattern |-> <<>>, name |-> "none"]

\* What programs build: resources of keys and queries, chains of scopes and the
\* rules declared in them.
Kinds == {"path", "group", "opaque"}
Resources == [kind : Kinds, path : Seq(CollectionNames \cup RecordIDs \cup {NilID}), name : STRING]
Segments == CollectionNames \cup RecordIDs \cup {AnyID}
Scopes == [kind : Kinds, pattern : Seq(Segments), name : STRING]
DeclaredRules ==
    [name : Int, scopes : Seq(Scopes), operations : SUBSET STRING, effect : STRING]

\* The concatenated patterns of the first n scopes of a chain.
joined(scopes, n) ==
    LET prefix[k \in 0..n] == IF k = 0 THEN <<>> ELSE prefix[k - 1] \o scopes[k].pattern
    IN  prefix[n]

\* Path scopes nest in path scopes only; a group or opaque-query scope is at
\* the top level, where scopes without segments do not count.
wellNested(scopes) ==
    \A n \in DOMAIN scopes :
        /\ \A m \in 1..(n - 1) : scopes[m].kind = "path"
        /\ scopes[n].kind # "path" => joined(scopes, n - 1) = <<>>
        /\ scopes[n].kind = "group" => scopes[n].name # ""

innermost(scopes) == IF scopes = <<>> THEN Under(<<>>) ELSE scopes[Len(scopes)]

compileRule(rule) ==
    [kind       |-> innermost(rule.scopes).kind,
     resource   |-> innermost(rule.scopes).name,
     pattern    |-> joined(rule.scopes, Len(rule.scopes)),
     name       |-> rule.name,
     operations |-> rule.operations,
     effect     |-> rule.effect]

\* What NewPolicy and NewAuditPolicy accept, each with its own two effects.
compiles(rules, effects) ==
    /\ \A n \in DOMAIN rules :
          /\ wellNested(rules[n].scopes)
          /\ rules[n].effect \in effects
          /\ rules[n].operations # {}
          /\ rules[n].operations \subseteq knownOperations
    /\ \A m, n \in DOMAIN rules : m # n => rules[m].name # rules[n].name

accessEffects == {"allow", "deny"}
auditEffects == {"audit", "ignore-audit"}

compileRules(rules) == [n \in DOMAIN rules |-> compileRule(rules[n])]

-----------------------------------------------------------------------------
\* A pattern matches a path it is a prefix of; AnyID stands for any ID, that
\* of an incomplete key included.
patternsMatch(pattern, path) ==
    /\ Len(pattern) <= Len(path)
    /\ \A i \in DOMAIN pattern :
          IF pattern[i] = AnyID THEN path[i] \in RecordIDs \cup {NilID}
                                ELSE pattern[i] = path[i]

ruleMatchesResource(rule, resource) ==
    /\ rule.kind = resource.kind
    /\ rule.kind = "path" => patternsMatch(rule.pattern, resource.path)
    /\ rule.kind = "group" => rule.resource = resource.name

\* Positions of the rules that match.
matching(rules, operation, resource) ==
    {n \in DOMAIN rules :
        operation \in rules[n].operations /\ ruleMatchesResource(rules[n], resource)}

depth(rule) == Len(rule.pattern)
literals(rule) == Cardinality({i \in DOMAIN rule.pattern : rule.pattern[i] # AnyID})

\* Plausible bug: equally specific rules are left in declaration order.
outranksUntied(l, r) ==
    depth(l) > depth(r) \/ (depth(l) = depth(r) /\ literals(l) > literals(r))

effectIsRestrictive(effect) == effect \in {"deny", "ignore-audit"}

\* The order by which matchingRules sorts: depth, literal segments, restrictive
\* effects first, name.
outranks(l, r) ==
    \/ depth(l) > depth(r)
    \/ /\ depth(l) = depth(r)
       /\ \/ literals(l) > literals(r)
          \/ /\ literals(l) = literals(r)
             /\ \/ l.effect # r.effect /\ effectIsRestrictive(l.effect)
                \/ l.effect = r.effect /\ l.name < r.name

\* The first position after a stable sort of the positions M: nothing outranks
\* it, and it is declared before the others of which this is true.
winner(rules, M) ==
    LET unbeaten == {n \in M : \A m \in M : ~outranks(rules[m], rules[n])}
    IN  CHOOSE n \in unbeaten : \A m \in unbeaten : n <= m

decideResource(rules, operation, resource) ==
    LET M == matching(rules, operation, resource) IN
    M # {} /\ rules[winner(rules, M)].effect = "allow"

\* Plausible bug: the decision on the last resource stands for the batch.
DecideLast(rules, request) ==
    /\ request.resources # <<>>
    /\ decideResource(rules, request.operation, request.resources[Len(request.resources)])

\* A request for no resource at all is denied.
Decide(rules, request) ==
    /\ request.operation \in knownOperations
    /\ request.resources # <<>>
    /\ \A n \in DOMAIN request.resources :
          decideResource(rules, request.operation, request.resources[n])

\* Plausible bug: the last resource decides.
ClassifyLast(rules, request) ==
    LET n == Len(request.resources)
        M == matching(rules, request.operation, request.resources[n])
    IN  n > 0 /\ M # {} /\ rules[winner(rules, M)].effect = "audit"

\* AuditPolicy.Classify: the call is audited as soon as the best rule for one of
\* its resources says so.
Classify(rules, request) ==
    /\ request.operation \in knownOperations
    /\ \E n \in DOMAIN request.resources :
          LET M == matching(rules, request.operation, request.resources[n])
          IN  M # {} /\ rules[winner(rules, M)].effect = "audit"

-----------------------------------------------------------------------------
(***************************************************************************)
(* The same decision as the feature specification words it (REQ            *)
(* hierarchical-policy-precedence), without an order on the rules: some    *)
(* rule matches, and no rule among the most specific ones denies.          *)
(***************************************************************************)
moreSpecific(l, r) ==
    depth(l) > depth(r) \/ (depth(l) = depth(r) /\ literals(l) > literals(r))

SelectedByRules(rules, operation, resource, effect) ==
    LET M == {rules[n] : n \in matching(rules, operation, resource)}
        top == {r \in M : ~\E s \in M : moreSpecific(s, r)}
    IN  M # {} /\ \A r \in top : r.effect = effect

PermittedByRules(rules, operation, resource) ==
    SelectedByRules(rules, operation, resource, "allow")
=============================================================================
