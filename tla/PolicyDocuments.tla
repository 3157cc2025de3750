--------------------------- MODULE PolicyDocuments ---------------------------
(***************************************************************************)
(* Policies as trees of rules, the documents they are saved to and loaded  *)
(* from (access/document.go), audit policies (access/policy.go), and the   *)
(* secured handles of SecuredDB on top of policies that came either way.   *)
(*                                                                         *)
(* A document is the value that the YAML and JSON codecs write and read.   *)
(* A path in it is text: a literal ID is escaped, the wildcard is a bare   *)
(* star, and reading unescapes before it looks for a star.                 *)
(***************************************************************************)
EXTENDS SecuredDB, SequencesExt

CONSTANTS
    RuleTrees,       \* rules that programs declare each policy with
    AuditTrees,      \* and audit policies
    Documents,       \* documents that authors write by hand
    StarID,          \* the string ID "*"
    OtherTypeIDs,    \* IDs that are not strings
    Unnamed          \* the name of a rule without one, and of the only such
                     \* rule of a policy after compilation

ASSUME DocumentAssumption ==
    StarID \in RecordIDs \ OtherTypeIDs /\ OtherTypeIDs \subseteq RecordIDs

VARIABLES
    declared,    \* the rule trees each policy keeps next to the compiled ones
    audit,       \* the audit policy in use: its trees and compiled rules
    document     \* the last document written, and the trees it was made from

docVars == <<declared, audit, document>>
allVars == <<vars, docVars>>

NoAudit == [trees |-> <<>>, rules |-> <<>>]
NoDocument == [kind |-> "none", scopes |-> <<>>, of |-> <<>>]

-----------------------------------------------------------------------------
\* Rules as they are declared: directives, and scopes around other rules.
Directive(name, effect, operations) ==
    [kind |-> "directive", scope |-> Under(<<>>), name |-> name, effect |-> effect,
     operations |-> operations, children |-> <<>>]
Scoped(scope, children) ==
    [kind |-> "scope", scope |-> scope, name |-> Unnamed, effect |-> "none",
     operations |-> {}, children |-> children]

\* The directives below a rule, each with the scopes around it, and the scope
\* chains of the tree, those around nothing included.
RECURSIVE flatten(_, _)
flatten(rule, chain) ==
    IF rule.kind = "directive"
    THEN <<[name |-> rule.name, scopes |-> chain, effect |-> rule.effect,
            operations |-> rule.operations]>>
    ELSE FlattenSeq([n \in DOMAIN rule.children |->
                       flatten(rule.children[n], Append(chain, rule.scope))])
RECURSIVE chains(_, _)
chains(rule, chain) ==
    IF rule.kind = "directive" THEN {}
    ELSE {Append(chain, rule.scope)} \cup
         UNION {chains(child, Append(chain, rule.scope)) : child \in Range(rule.children)}

flattened(trees) == FlattenSeq([n \in DOMAIN trees |-> flatten(trees[n], <<>>)])

compilesTrees(trees, effects) ==
    /\ compiles(flattened(trees), effects)
    /\ \A tree \in Range(trees) : \A chain \in chains(tree, <<>>) : wellNested(chain)

-----------------------------------------------------------------------------
\* Writing a document.
Escaped(id) == [escaped |-> TRUE, text |-> id]
Star == [escaped |-> FALSE, text |-> StarID]
Malformed == [escaped |-> FALSE, text |-> "malformed"]

documentPath(pattern) ==
    [n \in DOMAIN pattern |-> IF pattern[n] = AnyID THEN Star ELSE Escaped(pattern[n])]

documentSelector(scope) == [scope EXCEPT !.pattern = documentPath(@)]

\* Plausible bug: what includes every read is written as the group of reads.
operationNamesForDocumentLoose(operations) ==
    IF Read \subseteq operations THEN {"read"} ELSE operations

operationNamesForDocument(operations) ==
    CASE operations = Read -> {"read"}
      [] operations = Write -> {"write"}
      [] operations = Read \cup Write -> {"readwrite"}
      [] OTHER -> operations

documentRuleFromRule(rule) ==
    [id |-> rule.name, effect |-> rule.effect,
     operations |-> operationNamesForDocument(rule.operations)]

DocumentScope(selectors, rules, scopes) ==
    [selectors |-> selectors, rules |-> rules, scopes |-> scopes]

IsDirective(rule) == rule.kind = "directive"
IsScope(rule) == rule.kind = "scope"

\* A directive at the top gets the root scope; in a scope the directives are
\* written before the nested scopes.
RECURSIVE documentScopeFromRule(_)
documentScopeFromRule(rule) ==
    IF IsDirective(rule)
    THEN DocumentScope({Under(<<>>)}, <<documentRuleFromRule(rule)>>, <<>>)
    ELSE LET directives == SelectSeq(rule.children, IsDirective)
             nested == SelectSeq(rule.children, IsScope)
         IN  DocumentScope({documentSelector(rule.scope)},
                 [n \in DOMAIN directives |-> documentRuleFromRule(directives[n])],
                 [n \in DOMAIN nested |-> documentScopeFromRule(nested[n])])

\* Every directive needs a name and every literal ID must be a string.
serializable(trees) ==
    /\ \A rule \in Range(flattened(trees)) : rule.name # Unnamed
    /\ \A tree \in Range(trees) : \A chain \in chains(tree, <<>>) :
          \A scope \in Range(chain) : Range(scope.pattern) \cap OtherTypeIDs = {}

documentFromRules(kind, trees) ==
    [kind |-> kind, of |-> trees,
     scopes |-> [n \in DOMAIN trees |-> documentScopeFromRule(trees[n])]]

-----------------------------------------------------------------------------
\* Reading one.
parseOperations(names) ==
    UNION {CASE name = "read" -> Read
             [] name \in {"write", "mutation", "mutations"} -> Write
             [] name \in {"readwrite", "read-write", "read_write"} -> Read \cup Write
             [] OTHER -> {name} : name \in names}

\* No segment is empty or badly escaped, and a star stands for IDs only.
validDocumentPath(path) ==
    /\ Malformed \notin Range(path)
    /\ \A n \in DOMAIN path : path[n].text = StarID => n % 2 = 0

parseDocumentPath(path) ==
    [n \in DOMAIN path |-> IF path[n].text = StarID THEN AnyID ELSE path[n].text]

ruleFromDocumentRule(rule) ==
    Directive(rule.id, rule.effect, parseOperations(rule.operations))

validDocumentRule(rule, effects) ==
    /\ rule.id # Unnamed
    /\ rule.effect \in effects
    /\ parseOperations(rule.operations) \in (SUBSET knownOperations) \ {{}}

RECURSIVE validDocumentScope(_, _)
validDocumentScope(scope, effects) ==
    /\ Cardinality(scope.selectors) = 1
    /\ \A selector \in scope.selectors :
          selector.kind = "path" => validDocumentPath(selector.pattern)
    /\ scope.rules # <<>> \/ scope.scopes # <<>>
    /\ \A rule \in Range(scope.rules) : validDocumentRule(rule, effects)
    /\ \A nested \in Range(scope.scopes) : validDocumentScope(nested, effects)

RECURSIVE ruleFromDocumentScope(_)
ruleFromDocumentScope(scope) ==
    LET selector == CHOOSE s \in scope.selectors : TRUE
    IN  Scoped(IF selector.kind = "path"
               THEN Under(parseDocumentPath(selector.pattern)) ELSE selector,
            [n \in DOMAIN scope.rules |-> ruleFromDocumentRule(scope.rules[n])] \o
            [n \in DOMAIN scope.scopes |-> ruleFromDocumentScope(scope.scopes[n])])

rulesFromDocument(doc) == [n \in DOMAIN doc.scopes |-> ruleFromDocumentScope(doc.scopes[n])]

\* A document of another API version, without a name, with another default or
\* that the codec refuses is of no kind here.
decodes(doc, kind, effects) ==
    /\ doc.kind = kind
    /\ doc.scopes # <<>>
    /\ \A scope \in Range(doc.scopes) : validDocumentScope(scope, effects)
    /\ compilesTrees(rulesFromDocument(doc), effects)

-----------------------------------------------------------------------------
DocInit == Init /\ declared = [p \in {} |-> <<>>] /\ audit = NoAudit /\ document = NoDocument

\* A policy keeps the rules it was given next to the compiled ones.
Declare(call, p, trees) ==
    /\ MakePolicy(call, p, flattened(trees), compilesTrees(trees, accessEffects))
    /\ declared' = IF p \in DOMAIN policies'
                   THEN [q \in DOMAIN declared \cup {p} |->
                           IF q = p THEN trees ELSE declared[q]]
                   ELSE declared
    /\ UNCHANGED audit

NewPolicyFromRules(p, trees) ==
    document = NoDocument /\ audit = NoAudit /\ Declare("NewPolicy", p, trees) /\ UNCHANGED document

\* EncodeAccessPolicy writes a document or reports ErrNotSerializable.
EncodeAccessPolicy(p) ==
    /\ last = NoCall
    /\ handle = RawDB
    /\ document = NoDocument
    /\ p \in DOMAIN policies
    /\ document' = IF serializable(declared[p])
                   THEN documentFromRules("AccessPolicy", declared[p]) ELSE document
    /\ last' = Called("encode", <<>>, "none", <<>>, serializable(declared[p]))
    /\ UNCHANGED <<policies, handle, attached, declared, audit>>

\* DecodeAccessPolicy makes a policy of a document, or none at all.
DecodeAccessPolicy(p, doc) ==
    /\ last = NoCall
    /\ handle = RawDB
    /\ audit = NoAudit \/ document # NoDocument
    /\ p \notin DOMAIN policies
    /\ document' = NoDocument
    /\ \/ /\ decodes(doc, "AccessPolicy", accessEffects)
          /\ Declare("DecodeAccessPolicy", p, rulesFromDocument(doc))
       \/ /\ ~decodes(doc, "AccessPolicy", accessEffects)
          /\ last' = Called("DecodeAccessPolicy", <<>>, "none", <<>>, FALSE)
          /\ UNCHANGED <<policies, handle, attached, declared, audit>>

NewAuditPolicy(trees) ==
    /\ last = NoCall
    /\ handle = RawDB
    /\ document = NoDocument
    /\ audit = NoAudit
    /\ DOMAIN policies = {}
    /\ audit' = IF compilesTrees(trees, auditEffects)
                THEN [trees |-> trees, rules |-> compileRules(flattened(trees))] ELSE audit
    /\ last' = Called("NewAuditPolicy", <<>>, "none", <<>>, compilesTrees(trees, auditEffects))
    /\ UNCHANGED <<policies, handle, attached, declared, document>>

EncodeAuditPolicy ==
    /\ last = NoCall
    /\ handle = RawDB
    /\ document = NoDocument
    /\ audit # NoAudit
    /\ document' = IF serializable(audit.trees)
                   THEN documentFromRules("AuditPolicy", audit.trees) ELSE document
    /\ last' = Called("encode", <<>>, "none", <<>>, serializable(audit.trees))
    /\ UNCHANGED <<policies, handle, attached, declared, audit>>

\* The policy that is decoded takes the place of the one in use.
DecodeAuditPolicy(doc) ==
    /\ last = NoCall
    /\ handle = RawDB
    /\ DOMAIN policies = {} \/ document # NoDocument
    /\ document' = NoDocument
    /\ LET trees == rulesFromDocument(doc)
           ok == decodes(doc, "AuditPolicy", auditEffects)
       IN  /\ audit' = IF ok THEN [trees |-> trees, rules |-> compileRules(flattened(trees))]
                       ELSE audit
           /\ last' = Called("DecodeAuditPolicy", <<>>, "none", <<>>, ok)
    /\ UNCHANGED <<policies, handle, attached, declared>>

\* The application asks whether to audit a call.
ClassifyCall(operation, resources) ==
    /\ last = NoCall
    /\ document = NoDocument
    /\ audit # NoAudit
    /\ last' = Called("classify", <<>>, operation, resources,
                      Classify(audit.rules, [operation |-> operation, resources |-> resources]))
    /\ UNCHANGED <<policies, handle, attached, docVars>>

\* A document is read back at once, and an audit policy shares nothing with
\* access policies and handles, so each is explored apart from the others.
DocNext ==
    \/ Return /\ UNCHANGED docVars
    \/ document = NoDocument /\ audit = NoAudit /\ HandleNext /\ UNCHANGED docVars
    \/ \E p \in Policies : \E trees \in RuleTrees[p] : NewPolicyFromRules(p, trees)
    \/ \E trees \in AuditTrees : NewAuditPolicy(trees)
    \/ \E p \in Policies : EncodeAccessPolicy(p)
    \/ EncodeAuditPolicy
    \/ \E doc \in (IF document = NoDocument THEN Documents ELSE {document}) :
          DecodeAuditPolicy(doc) \/ \E p \in Policies : DecodeAccessPolicy(p, doc)
    \/ \E operation \in {"get", "set"}, rs \in RecordLists \cup {<<OpaqueQuery>>} :
          ClassifyCall(operation, rs)

DocSpec == DocInit /\ [][DocNext]_allVars

-----------------------------------------------------------------------------
(***************************************************************************)
(* Properties                                                              *)
(***************************************************************************)

\* The rule a decision names, and its effect.
Explains(rules, operation, resource) ==
    LET M == matching(rules, operation, resource)
        best == rules[winner(rules, M)]
    IN  IF M = {} THEN <<"default">> ELSE <<best.name, best.effect>>

\* Compiled rules in which every literal star of an ID is the wildcard.
StarsAreWild(rules) ==
    [n \in DOMAIN rules |-> [rules[n] EXCEPT !.pattern =
        [i \in DOMAIN @ |-> IF @[i] = StarID THEN AnyID ELSE @[i]]]]

RECURSIVE Barren(_)
Barren(rule) ==
    /\ rule.kind = "scope"
    /\ rule.children = <<>> \/ \E child \in Range(rule.children) : Barren(child)

Reader(kind) == IF kind = "AuditPolicy" THEN "DecodeAuditPolicy" ELSE "DecodeAccessPolicy"

\* REQ portable-policy-documents, AC yaml-roundtrip: reading back the document of
\* a policy fails exactly when some scope of it had nothing to write, and
\* otherwise gives a policy that decides every request by the same rule, with one
\* exception that is exact: a literal ID "*" comes back as the wildcard.
ReadBack ==
    (document # NoDocument /\ last'.call = Reader(document.kind)) =>
        LET made == CHOOSE p \in DOMAIN policies' : p \notin DOMAIN policies
            after == IF document.kind = "AuditPolicy" THEN audit'.rules ELSE policies'[made]
            before == StarsAreWild(compileRules(flattened(document.of)))
        IN
        /\ last'.passed <=> /\ document.of # <<>>
                            /\ \A tree \in Range(document.of) : ~Barren(tree)
        /\ last'.passed =>
              \A operation \in {"get", "set", "query"}, r \in AllResources :
                  Explains(before, operation, r) = Explains(after, operation, r)
ReloadAlike == [][ReadBack]_allVars

\* REQ hierarchical-audit-selection: however the audit policy was made, a call is
\* audited exactly when, for one of its resources, some rule matches and the most
\* specific ones all select it.
AuditExact ==
    last.call = "classify" =>
        (last.passed <=> \E r \in Range(last.request.resources) :
                            SelectedByRules(audit.rules, last.request.operation, r, "audit"))
=============================================================================
