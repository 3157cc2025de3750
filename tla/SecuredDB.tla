------------------------------ MODULE SecuredDB ------------------------------
(***************************************************************************)
(* Handles that enforce access policies (access/database.go, session.go,   *)
(* context.go).  A guard carries database policies, policies captured from *)
(* contexts when a handle was bound or a transaction begun, and whether a  *)
(* context policy is required.  Every session method asks the guard before *)
(* it calls the adapter.                                                   *)
(*                                                                         *)
(* Contexts and guards are immutable values, so one handle at a time is    *)
(* enough: what an older handle can do is what could be done before the    *)
(* newer one was derived from it.  A context is the sequence of policies   *)
(* that WithPolicy has put into it.  Securing a handle that is already     *)
(* secured, which stacks guards, is left out.                              *)
(***************************************************************************)
EXTENDS AccessPolicy

CONSTANTS
    Policies,        \* names of policies
    RuleLists,       \* the rules each of them may be declared with
    Records,         \* resources of the keys that callers use
    RecordLists,     \* of their multi-record calls
    QuerySources,    \* of their queries: sources of structured ones, or opaque
    MaxContext,      \* bound on the policies in a context
    MaxPolicies      \* bound on the policies that a guard has captured

ASSUME SecuredAssumption ==
    /\ MaxContext \in Nat /\ MaxPolicies \in Nat
    /\ \A p \in Policies : RuleLists[p] \subseteq Seq(DeclaredRules)
    /\ Records \subseteq Resources
    /\ RecordLists \cup QuerySources \subseteq Seq(Resources)

VARIABLES
    policies,    \* compiled rules of the policies declared so far
    handle,      \* the guard in use and the session it protects
    attached,    \* history: policies attached on the way to this handle, by
                 \* configuration ("db") or from a context ("ctx")
    last         \* the call in progress and its answer

vars == <<policies, handle, attached, last>>

Guard(db, bound, required, session) ==
    [db |-> db, bound |-> bound, required |-> required, session |-> session]
RawDB == Guard(<<>>, <<>>, FALSE, "raw")

NoCall == [call |-> "none", ctx |-> <<>>, request |-> [operation |-> "none", resources |-> <<>>],
           passed |-> FALSE]
Called(call, ctx, operation, resources, passed) ==
    [call |-> call, ctx |-> ctx,
     request |-> [operation |-> operation, resources |-> resources], passed |-> passed]

\* Contexts that WithPolicy can build from the declared policies.
Contexts == UNION {[1..n -> DOMAIN policies] : n \in 0..MaxContext}

Init ==
    /\ policies = [p \in {} |-> <<>>]
    /\ handle = RawDB
    /\ attached = [db |-> {}, ctx |-> {}]
    /\ last = NoCall

-----------------------------------------------------------------------------
\* A policy is made of rules that compile; otherwise there is only an error.
MakePolicy(call, p, rules, ok) ==
    /\ last = NoCall
    /\ p \notin DOMAIN policies
    /\ policies' = IF ok THEN [q \in DOMAIN policies \cup {p} |->
                                 IF q = p THEN compileRules(rules) ELSE policies[q]]
                   ELSE policies
    /\ last' = Called(call, <<>>, "none", <<>>, ok)
    /\ UNCHANGED <<handle, attached>>

NewPolicy(p, rules) ==
    MakePolicy("NewPolicy", p, rules, compiles(rules, accessEffects))

\* Plausible bug: binding replaces what an earlier binding captured.
bindReplaces(g, ctx) == [g EXCEPT !.bound = IF ctx = <<>> THEN @ ELSE ctx]

bind(g, ctx) == [g EXCEPT !.bound = @ \o ctx]

contextSatisfied(g, ctx) == ~g.required \/ Len(g.bound) + Len(ctx) > 0

authorizeRequest(g, ctx, request) ==
    /\ contextSatisfied(g, ctx)
    /\ \A p \in Range(g.db \o g.bound \o ctx) : Decide(policies[p], request)

\* A raw database or session is wrapped with database policies.
SecureDB(ps, required) ==
    /\ last = NoCall
    /\ handle = RawDB
    /\ handle' = Guard(ps, <<>>, required, "db")
    /\ attached' = [attached EXCEPT !.db = Range(ps)]
    /\ last' = NoCall
    /\ UNCHANGED policies

\* SecureReadSession, SecureWriteSession and SecureReadwriteSession.
SecureSession(ps, session) ==
    /\ last = NoCall
    /\ handle = RawDB
    /\ handle' = Guard(ps, <<>>, FALSE, session)
    /\ attached' = [attached EXCEPT !.db = Range(ps)]
    /\ last' = NoCall
    /\ UNCHANGED policies

\* BindDB captures the context's policies, of a raw database too.
BindDB(ctx) ==
    /\ last = NoCall
    /\ handle.session \in {"raw", "db"}
    /\ Len(handle.bound) + Len(ctx) <= MaxPolicies
    /\ handle' = [bind(handle, ctx) EXCEPT !.session = "db"]
    /\ attached' = [attached EXCEPT !.ctx = @ \cup Range(ctx)]
    /\ last' = Called("derive", ctx, "none", <<>>, TRUE)
    /\ UNCHANGED policies

\* RunReadonlyTransaction and RunReadwriteTransaction hand the worker, at every
\* attempt, a secured transaction that has captured the context's policies.
RunTransaction(ctx, session) ==
    /\ last = NoCall
    /\ handle.session = "db"
    /\ \/ /\ ~contextSatisfied(handle, ctx)
          /\ last' = Called("begin", ctx, "none", <<>>, FALSE)
          /\ UNCHANGED <<handle, attached>>
       \/ /\ contextSatisfied(handle, ctx)
          /\ Len(handle.bound) + Len(ctx) <= MaxPolicies
          /\ handle' = [bind(handle, ctx) EXCEPT !.session = session]
          /\ attached' = [attached EXCEPT !.ctx = @ \cup Range(ctx)]
          /\ last' = Called("derive", ctx, "none", <<>>, TRUE)
    /\ UNCHANGED policies

-----------------------------------------------------------------------------
\* Every session method: the whole request is authorized, then the adapter is
\* called with all of it.
Secured(ctx, operation, resources) ==
    /\ last = NoCall
    /\ last' = Called("session", ctx, operation, resources,
                      authorizeRequest(handle, ctx,
                          [operation |-> operation, resources |-> resources]))
    /\ UNCHANGED <<policies, handle, attached>>

Reads == handle.session \in {"db", "readonly", "readwrite"}
Writes == handle.session \in {"writeonly", "readwrite"}

Exists(ctx, r) == Reads /\ Secured(ctx, "exists", <<r>>)
Get(ctx, r) == Reads /\ Secured(ctx, "get", <<r>>)
GetMulti(ctx, rs) == Reads /\ Secured(ctx, "get", rs)
ExecuteQuery(ctx, sources) == Reads /\ Secured(ctx, "query", sources)
Set(ctx, r) == Writes /\ Secured(ctx, "set", <<r>>)
SetMulti(ctx, rs) == Writes /\ Secured(ctx, "set", rs)
Insert(ctx, r) == Writes /\ Secured(ctx, "insert", <<r>>)
InsertMulti(ctx, rs) == Writes /\ Secured(ctx, "insert", rs)
Update(ctx, r) == Writes /\ Secured(ctx, "update", <<r>>)
UpdateMulti(ctx, rs) == Writes /\ Secured(ctx, "update", rs)
Delete(ctx, r) == Writes /\ Secured(ctx, "delete", <<r>>)
DeleteMulti(ctx, rs) == Writes /\ Secured(ctx, "delete", rs)

\* The caller gets its answer.
Return ==
    /\ last # NoCall
    /\ last' = NoCall
    /\ UNCHANGED <<policies, handle, attached>>

\* Everything a program does with handles, policies once made.
HandleNext ==
    \/ \E ps \in Contexts, session \in {"readonly", "writeonly", "readwrite"} :
          SecureSession(ps, session)
    \/ \E ps \in Contexts, required \in BOOLEAN : SecureDB(ps, required)
    \/ \E ctx \in Contexts :
          \/ BindDB(ctx)
          \/ \E session \in {"readonly", "readwrite"} : RunTransaction(ctx, session)
          \/ \E sources \in QuerySources : ExecuteQuery(ctx, sources)
          \/ \E r \in Records : \/ Exists(ctx, r) \/ Get(ctx, r) \/ Set(ctx, r)
                                \/ Insert(ctx, r) \/ Update(ctx, r) \/ Delete(ctx, r)
          \/ \E rs \in RecordLists : \/ GetMulti(ctx, rs) \/ SetMulti(ctx, rs)
                                     \/ InsertMulti(ctx, rs) \/ UpdateMulti(ctx, rs)
                                     \/ DeleteMulti(ctx, rs)

Next ==
    \/ Return
    \/ HandleNext
    \/ \E p \in Policies : \E rules \in RuleLists[p] : NewPolicy(p, rules)

Spec == Init /\ [][Next]_vars

-----------------------------------------------------------------------------
(***************************************************************************)
(* Properties                                                              *)
(***************************************************************************)

AllResources ==
    Records \cup UNION {Range(rs) : rs \in RecordLists \cup QuerySources}

\* Types of the whole state.
TypeOK ==
    /\ DOMAIN policies \subseteq Policies
    /\ \A p \in DOMAIN policies : \A rule \in Range(policies[p]) :
          /\ rule.kind \in {"path", "group", "opaque"}
          /\ rule.operations \in (SUBSET knownOperations) \ {{}}
          /\ rule.effect \in {"allow", "deny"}
    /\ Range(handle.db) \cup Range(handle.bound) \subseteq DOMAIN policies
    /\ Len(handle.bound) <= MaxPolicies
    /\ handle.required \in BOOLEAN
    /\ handle.session \in {"raw", "db", "readonly", "writeonly", "readwrite"}
    /\ attached.db \cup attached.ctx \subseteq DOMAIN policies
    /\ last.ctx \in Contexts
    /\ last.passed \in BOOLEAN

\* REQ hierarchical-policy-precedence: whatever the order in which rules are
\* declared and nested, sorting them and taking the first decides as depth,
\* then literal segments, then deny on a tie, and denies without a match.
\* Policies never change, so it is stated when one has been declared.
PrecedenceHolds ==
    last.call \in {"NewPolicy", "DecodeAccessPolicy"} =>
    \A p \in DOMAIN policies, operation \in Read \cup Write, r \in AllResources :
        decideResource(policies[p], operation, r) <=>
            PermittedByRules(policies[p], operation, r)

\* REQ database-and-context-composition and complete-session-enforcement: a
\* call reaches the adapter, with all of its resources, exactly when every
\* policy ever attached on the way to this handle and every policy of the
\* call's context permits every one of them, and a required context policy has
\* been given at some point.
EnforcementExact ==
    last.call = "session" =>
        LET applicable == attached.db \cup attached.ctx \cup Range(last.ctx)
            resources == Range(last.request.resources)
        IN
        last.passed <=>
            /\ handle.required => attached.ctx \cup Range(last.ctx) # {}
            /\ \A p \in applicable :
                  /\ resources # {}
                  /\ \A r \in resources :
                        PermittedByRules(policies[p], last.request.operation, r)

\* A handle that has captured a context (BindDB, a transaction) answers in any
\* later context as its parent would in the two contexts together: capture
\* neither loses a policy nor adds one, and cannot be undone.
DerivedAnswersAsParent ==
    (last'.call = "derive" /\ handle' # handle) =>
        \A ctx \in Contexts, rs \in RecordLists \cup QuerySources, operation \in {"get", "set"} :
            LET request == [operation |-> operation, resources |-> rs] IN
            authorizeRequest(handle, last'.ctx \o ctx, request) <=>
                authorizeRequest(handle', ctx, request)
CaptureIsExact == [][DerivedAnswersAsParent]_vars

=============================================================================
