--------------------------- MODULE SecuredDBProofs ---------------------------
(***************************************************************************)
(* Proofs about policies and the handles that enforce them, for any        *)
(* declared rules, any number of policies and contexts of any length.      *)
(*                                                                         *)
(* matchingRules sorts by an order that is a strict one on compiled rules, *)
(* so the rule it puts first is beaten by none; and because restrictive    *)
(* effects come first among equally specific rules, the effect of that     *)
(* rule is the one the feature specification words without an order.       *)
(* Induction is by least elements of sets of naturals.                     *)
(***************************************************************************)
EXTENDS SecuredDB, TLAPS, SequenceTheorems, FiniteSetTheorems, WellFoundedInduction

CompiledRules(effects) ==
    [kind : Kinds, resource : {scope.name : scope \in Scopes} \cup {"none"},
     pattern : Seq(Segments), name : Int,
     operations : (SUBSET knownOperations) \ {{}}, effect : effects]

\* A set of naturals that is not empty has a least element.
LEMMA LeastElement ==
    ASSUME NEW S \in SUBSET Nat, S # {}
    PROVE  \E x \in S : \A y \in S : x <= y
<1> DEFINE below == {ss \in Nat \X Nat : ss[1] < ss[2]}
<1>0. IsWellFoundedOn(below, Nat)
  BY NatLessThanWellFounded, Zenon DEF OpToRel
<1>1. PICK x \in S : \A y \in S : ~(<<y, x>> \in below)
  <2> HIDE DEF below
  <2> QED
    BY <1>0, WFMin
<1>2. ASSUME NEW y \in S PROVE x <= y
  <2>1. x \in Nat /\ y \in Nat /\ <<y, x>> \notin below
    BY <1>1
  <2>2. ~(y < x)
    BY <2>1
  <2> QED
    BY <2>1, <2>2
<1> QED
  BY <1>2

\* Among finitely many positions a strict order leaves one that none beats.
LEMMA Unbeaten ==
    ASSUME NEW N \in Nat, NEW R,
           \A i \in 1..N : <<i, i>> \notin R,
           \A i, j, k \in 1..N : <<i, j>> \in R /\ <<j, k>> \in R => <<i, k>> \in R,
           NEW M \in SUBSET (1..N), M # {}
    PROVE  \E n \in M : \A m \in M : <<m, n>> \notin R
<1> DEFINE Bad == {k \in 0..N : \E T \in SUBSET (1..k) :
                      T # {} /\ \A n \in T : \E m \in T : <<m, n>> \in R}
<1>1. SUFFICES ASSUME Bad # {} PROVE FALSE
  <2>1. Bad = {}
    BY <1>1
  <2>2. N \notin Bad
    BY <2>1
  <2> QED
    BY <2>2
<1>2. PICK k \in Bad : \A j \in Bad : k <= j
  <2>1. Bad \in SUBSET Nat
    OBVIOUS
  <2> HIDE DEF Bad
  <2> QED
    BY <1>1, <2>1, LeastElement
<1>3. PICK T \in SUBSET (1..k) : T # {} /\ \A n \in T : \E m \in T : <<m, n>> \in R
  BY <1>2
<1>4. k \in 1..N /\ T \subseteq 1..N
  <2>1. k \in 0..N
    BY <1>2
  <2>2. 1..k # {}
    BY <1>3
  <2> HIDE DEF Bad
  <2> QED
    BY <1>3, <2>1, <2>2
<1>5. k - 1 \notin Bad /\ k - 1 \in 0..N
  <2>1. k - 1 \in 0..N /\ ~(k <= k - 1)
    BY <1>4
  <2> HIDE DEF Bad
  <2> QED
    BY <1>2, <2>1
<1> HIDE DEF Bad
<1>6. \A U \in SUBSET (1..(k - 1)) : U # {} => \E n \in U : \A m \in U : <<m, n>> \notin R
  BY <1>5 DEF Bad
<1>7. k \in T
  <2>1. k \notin T => T \in SUBSET (1..(k - 1))
    BY <1>4
  <2> QED
    BY <2>1, <1>6, <1>3
<1>8. T \ {k} # {}
  BY <1>3, <1>4, <1>7
<1>9. T \ {k} \in SUBSET (1..(k - 1))
  BY <1>4
<1>10. PICK n \in T \ {k} : \A m \in T \ {k} : <<m, n>> \notin R
  BY <1>6, <1>8, <1>9
<1>11. <<k, n>> \in R
  BY <1>3, <1>10
<1>12. PICK j \in T : <<j, k>> \in R
  BY <1>3, <1>7
<1>13. j # k
  BY <1>4, <1>12
<1>14. <<j, n>> \in R
  BY <1>4, <1>10, <1>11, <1>12
<1> QED
  BY <1>10, <1>13, <1>14

-----------------------------------------------------------------------------
\* The sort keys of compiled rules.
LEMMA SortKeys ==
    ASSUME NEW effects, NEW r \in CompiledRules(effects)
    PROVE  depth(r) \in Nat /\ literals(r) \in Nat /\ r.name \in Int /\ r.effect \in effects
<1>1. r.pattern \in Seq(Segments) /\ r.name \in Int /\ r.effect \in effects
  BY DEF CompiledRules
<1>2. Len(r.pattern) \in Nat /\ DOMAIN r.pattern = 1..Len(r.pattern)
  BY <1>1, LenProperties
<1>3. IsFiniteSet(1..Len(r.pattern))
  BY <1>2, FS_Interval
<1>4. IsFiniteSet({i \in DOMAIN r.pattern : r.pattern[i] # AnyID})
  BY <1>2, <1>3, FS_Subset
<1> QED
  BY <1>1, <1>2, <1>4, FS_CardinalityType DEF depth, literals

\* outranks is a strict order on rules with two effects, one of them restrictive.
LEMMA OutranksIsStrict ==
    ASSUME NEW e, NEW d, ~effectIsRestrictive(e), effectIsRestrictive(d),
           NEW q \in CompiledRules({e, d}), NEW r \in CompiledRules({e, d}),
           NEW s \in CompiledRules({e, d})
    PROVE  /\ ~outranks(q, q)
           /\ outranks(q, r) /\ outranks(r, s) => outranks(q, s)
<1>1. /\ depth(q) \in Nat /\ literals(q) \in Nat /\ q.name \in Int /\ q.effect \in {e, d}
      /\ depth(r) \in Nat /\ literals(r) \in Nat /\ r.name \in Int /\ r.effect \in {e, d}
      /\ depth(s) \in Nat /\ literals(s) \in Nat /\ s.name \in Int /\ s.effect \in {e, d}
  BY SortKeys
<1> QED
  BY <1>1 DEF outranks

\* winner: of the positions that match, the sort puts one first that none beats.
LEMMA WinnerUnbeaten ==
    ASSUME NEW e, NEW d, ~effectIsRestrictive(e), effectIsRestrictive(d),
           NEW rules \in Seq(CompiledRules({e, d})),
           NEW M \in SUBSET DOMAIN rules, M # {}
    PROVE  /\ winner(rules, M) \in M
           /\ \A m \in M : ~outranks(rules[m], rules[winner(rules, M)])
<1> DEFINE N == Len(rules)
           R == {ij \in (1..N) \X (1..N) : outranks(rules[ij[1]], rules[ij[2]])}
           free == {n \in M : \A m \in M : ~outranks(rules[m], rules[n])}
<1>1. N \in Nat /\ DOMAIN rules = 1..N /\ \A i \in 1..N : rules[i] \in CompiledRules({e, d})
  BY LenProperties, ElementOfSeq
<1>2. \A i, j \in 1..N : <<i, j>> \in R <=> outranks(rules[i], rules[j])
  OBVIOUS
<1>3. \A i \in 1..N : <<i, i>> \notin R
  <2> SUFFICES ASSUME NEW i \in 1..N PROVE ~outranks(rules[i], rules[i])
    BY <1>2
  <2> QED
    BY <1>1, OutranksIsStrict
<1>4. \A i, j, k \in 1..N : <<i, j>> \in R /\ <<j, k>> \in R => <<i, k>> \in R
  <2> SUFFICES ASSUME NEW i \in 1..N, NEW j \in 1..N, NEW k \in 1..N,
                      outranks(rules[i], rules[j]), outranks(rules[j], rules[k])
               PROVE  outranks(rules[i], rules[k])
    BY <1>2
  <2> QED
    BY <1>1, OutranksIsStrict
<1> HIDE DEF N, R
<1>5. \E n \in M : \A m \in M : <<m, n>> \notin R
  BY <1>1, <1>3, <1>4, Unbeaten
<1>6. free # {} /\ free \in SUBSET Nat
  <2>1. free \in SUBSET Nat
    BY <1>1
  <2>2. PICK n \in M : \A m \in M : <<m, n>> \notin R
    BY <1>5
  <2>3. \A m \in M : ~outranks(rules[m], rules[n])
    BY <1>1, <1>2, <2>2
  <2> QED
    BY <2>1, <2>2, <2>3
<1>7. winner(rules, M) = CHOOSE n \in free : \A m \in free : n <= m
  BY DEF winner
<1> HIDE DEF free
<1>8. \E n \in free : \A m \in free : n <= m
  BY <1>6, LeastElement
<1>9. winner(rules, M) \in free
  BY <1>7, <1>8
<1> QED
  BY <1>9 DEF free

\* REQ hierarchical-policy-precedence, for access and audit policies: sorting
\* compiled rules and taking the first answers as the wording without an order.
THEOREM SortingSelects ==
    ASSUME NEW e, NEW d, ~effectIsRestrictive(e), effectIsRestrictive(d),
           NEW rules \in Seq(CompiledRules({e, d})), NEW operation, NEW resource
    PROVE  LET M == matching(rules, operation, resource)
           IN  (M # {} /\ rules[winner(rules, M)].effect = e) <=>
                  SelectedByRules(rules, operation, resource, e)
<1> DEFINE M == matching(rules, operation, resource)
           W == {rules[n] : n \in M}
           top == {r \in W : ~\E s \in W : moreSpecific(s, r)}
           w == winner(rules, M)
<1>1. M \in SUBSET DOMAIN rules
  BY DEF matching
<1>2. SUFFICES ASSUME M # {}
               PROVE  (rules[w].effect = e) <=> (\A r \in top : r.effect = e)
  <2>1. SelectedByRules(rules, operation, resource, e) <=> (W # {} /\ \A r \in top : r.effect = e)
    BY DEF SelectedByRules
  <2>2. W = {} <=> M = {}
    OBVIOUS
  <2> HIDE DEF W, top, M, w
  <2> QED
    BY <1>2, <2>1, <2>2 DEF M, w
<1>3. w \in M /\ \A m \in M : ~outranks(rules[m], rules[w])
  <2> HIDE DEF M
  <2> QED
    BY <1>1, <1>2, WinnerUnbeaten
<1>4. \A n \in M : rules[n] \in CompiledRules({e, d})
  BY <1>1, ElementOfSeq, LenProperties
<1> HIDE DEF M, w
<1>5. rules[w] \in W /\ \A r \in W : ~outranks(r, rules[w])
  BY <1>3
<1>6. \A r \in W : r \in CompiledRules({e, d})
  BY <1>4
<1> HIDE DEF W
<1>7. rules[w] \in top
  BY <1>5 DEF outranks, moreSpecific
<1>8. ASSUME NEW r \in top, rules[w].effect = e PROVE r.effect = e
  <2>1. r \in W /\ ~moreSpecific(rules[w], r) /\ ~moreSpecific(r, rules[w])
    BY <1>5, <1>7
  <2>2. /\ depth(r) \in Nat /\ literals(r) \in Nat /\ r.effect \in {e, d}
        /\ depth(rules[w]) \in Nat /\ literals(rules[w]) \in Nat
    BY <1>5, <1>6, <2>1, SortKeys
  <2>3. depth(r) = depth(rules[w]) /\ literals(r) = literals(rules[w])
    BY <2>1, <2>2 DEF moreSpecific
  <2>4. ~outranks(r, rules[w])
    BY <1>5, <2>1
  <2> QED
    BY <2>2, <2>3, <2>4, <1>8 DEF outranks
<1> QED
  BY <1>7, <1>8
-----------------------------------------------------------------------------
\* The recursion of joined over a chain's first k scopes.
Prefixes(scopes, k, g) ==
    g = [j \in 0..k |-> IF j = 0 THEN <<>> ELSE g[j - 1] \o scopes[j].pattern]

\* The recursion over nested scopes has a value for every number of them.
LEMMA PrefixesExist ==
    ASSUME NEW scopes, NEW n \in Nat
    PROVE  \E g : Prefixes(scopes, n, g)
<1> DEFINE Bad == {k \in 0..n : ~\E g : Prefixes(scopes, k, g)}
<1>1. SUFFICES ASSUME Bad # {} PROVE FALSE
  BY <1>1
<1>2. PICK k \in Bad : \A j \in Bad : k <= j
  <2>1. Bad \in SUBSET Nat
    OBVIOUS
  <2> HIDE DEF Bad
  <2> QED
    BY <1>1, <2>1, LeastElement
<1>3. k \in 0..n /\ ~\E g : Prefixes(scopes, k, g)
  BY <1>2
<1>4. k # 0
  <2>1. Prefixes(scopes, 0, [j \in 0..0 |-> <<>>])
    BY DEF Prefixes
  <2> QED
    BY <1>3, <2>1
<1>5. k - 1 \in 0..n /\ ~(k <= k - 1)
  BY <1>3, <1>4
<1>6. PICK g : Prefixes(scopes, k - 1, g)
  BY <1>2, <1>5
<1> HIDE DEF Bad
<1> DEFINE h == [j \in 0..k |-> IF j = k THEN g[k - 1] \o scopes[k].pattern ELSE g[j]]
<1>7. \A j \in 0..(k - 1) : h[j] = g[j]
  BY <1>3, <1>4
<1>8. \A j \in 0..(k - 1) : g[j] = IF j = 0 THEN <<>> ELSE g[j - 1] \o scopes[j].pattern
  BY <1>6 DEF Prefixes
<1>9. ASSUME NEW j \in 0..k
      PROVE  h[j] = IF j = 0 THEN <<>> ELSE h[j - 1] \o scopes[j].pattern
  <2>1. CASE j = k
    <3>1. h[k] = g[k - 1] \o scopes[k].pattern
      <4>1. k \in 0..k
        BY <1>3
      <4> QED
        BY <4>1
    <3>2. h[k - 1] = g[k - 1]
      BY <1>7, <1>3, <1>4
    <3> QED
      BY <2>1, <3>1, <3>2, <1>4
  <2>2. CASE j # k
    <3>1. j \in 0..(k - 1) /\ (j # 0 => j - 1 \in 0..(k - 1))
      BY <2>2, <1>3
    <3>2. h[j] = g[j] /\ (j # 0 => h[j - 1] = g[j - 1])
      BY <1>7, <3>1
    <3> HIDE DEF h
    <3> QED
      BY <1>8, <3>1, <3>2
  <2> QED
    BY <2>1, <2>2
<1>10. Prefixes(scopes, k, h)
  <2>1. h = [j \in 0..k |-> h[j]]
    OBVIOUS
  <2> HIDE DEF h
  <2> QED
    BY <2>1, <1>9 DEF Prefixes
<1> QED
  BY <1>3, <1>10

\* joined: the pattern of a directive in a chain of scopes is a path.
LEMMA JoinedIsPath ==
    ASSUME NEW scopes \in Seq(Scopes)
    PROVE  joined(scopes, Len(scopes)) \in Seq(Segments)
<1> DEFINE n == Len(scopes)
           g == CHOOSE g : Prefixes(scopes, n, g)
<1>1. n \in Nat /\ \A j \in 1..n : scopes[j].pattern \in Seq(Segments)
  <2>1. n \in Nat /\ \A j \in 1..n : scopes[j] \in Scopes
    BY LenProperties, ElementOfSeq
  <2> QED
    BY <2>1 DEF Scopes
<1>2. joined(scopes, n) = g[n]
  BY DEF joined, Prefixes
<1> HIDE DEF n
<1>3. Prefixes(scopes, n, g)
  BY <1>1, PrefixesExist
<1> HIDE DEF g
<1>4. g[0] = <<>> /\ \A j \in 1..n : g[j] = g[j - 1] \o scopes[j].pattern
  BY <1>1, <1>3 DEF Prefixes
<1> DEFINE Bad == {k \in 0..n : g[k] \notin Seq(Segments)}
<1>5. SUFFICES ASSUME Bad # {} PROVE FALSE
  BY <1>5, <1>2, <1>1 DEF n
<1>6. PICK k \in Bad : \A j \in Bad : k <= j
  <2>1. Bad \in SUBSET Nat
    BY <1>1
  <2> HIDE DEF Bad
  <2> QED
    BY <1>5, <2>1, LeastElement
<1>7. k \in 1..n /\ k - 1 \in 0..n /\ ~(k <= k - 1) /\ g[k] \notin Seq(Segments)
  <2>1. k \in 0..n /\ g[k] \notin Seq(Segments)
    BY <1>6
  <2>2. g[0] \in Seq(Segments)
    BY <1>4
  <2>3. k # 0
    BY <2>1, <2>2
  <2> QED
    BY <1>1, <2>1, <2>3
<1>8. g[k - 1] \in Seq(Segments)
  BY <1>6, <1>7
<1>9. scopes[k].pattern \in Seq(Segments) /\ g[k] = g[k - 1] \o scopes[k].pattern
  BY <1>1, <1>4, <1>7
<1> QED
  BY <1>7, <1>8, <1>9, ConcatProperties
-----------------------------------------------------------------------------
(***************************************************************************)
(* The inductive invariant: a guard's two lists hold exactly the policies  *)
(* attached on the way to it, and a session call was answered by the guard *)
(* and the policies that are still there.                                  *)
(***************************************************************************)
Sessions == {"raw", "db", "readonly", "writeonly", "readwrite"}
Guards(D) == [db : Seq(D), bound : Seq(D), required : BOOLEAN, session : Sessions]
ContextsOver(D) == UNION {[1..n -> D] : n \in 0..MaxContext}
CallNames == {"none", "NewPolicy", "derive", "begin", "session"}
Calls(D) ==
    [call : CallNames, ctx : ContextsOver(D),
     request : [operation : knownOperations \cup {"none"}, resources : Seq(Resources)], passed : BOOLEAN]

PoliciesCompiled ==
    /\ DOMAIN policies \subseteq Policies
    /\ \A p \in DOMAIN policies : policies[p] \in Seq(CompiledRules(accessEffects))

HandleInv ==
    /\ handle \in Guards(DOMAIN policies)
    /\ Len(handle.bound) <= MaxPolicies
    /\ attached = [db |-> Range(handle.db), ctx |-> Range(handle.bound)]

Answered ==
    last.call = "session" =>
        /\ last.request.operation \in knownOperations
        /\ last.passed = authorizeRequest(handle, last.ctx, last.request)

IInv == PoliciesCompiled /\ HandleInv /\ last \in Calls(DOMAIN policies) /\ Answered

\* A context is a sequence of policies.
LEMMA ContextIsSeq ==
    ASSUME NEW D, NEW ctx \in ContextsOver(D)
    PROVE  ctx \in Seq(D)
<1>1. PICK n \in 0..MaxContext : ctx \in [1..n -> D]
  BY DEF ContextsOver
<1>2. n \in Nat
  BY SecuredAssumption
<1> QED
  BY <1>1, <1>2, IsASeq

\* Contexts of fewer policies are contexts of more.
LEMMA ContextsGrow ==
    ASSUME NEW D, NEW E, D \subseteq E
    PROVE  /\ ContextsOver(D) \subseteq ContextsOver(E)
           /\ Guards(D) \subseteq Guards(E)
           /\ Calls(D) \subseteq Calls(E)
           /\ <<>> \in ContextsOver(D)
<1>1. ContextsOver(D) \subseteq ContextsOver(E)
  BY DEF ContextsOver
<1>2. Seq(D) \subseteq Seq(E)
  BY SeqMonotonic
<1>3. Guards(D) \subseteq Guards(E)
  BY <1>2 DEF Guards
<1>4. Calls(D) \subseteq Calls(E)
  BY <1>1 DEF Calls
<1>5. <<>> \in [1..0 -> D] /\ 0 \in 0..MaxContext
  BY SecuredAssumption
<1> QED
  BY <1>1, <1>3, <1>4, <1>5 DEF ContextsOver

\* What a call that has been answered consists of.
LEMMA CallsAre ==
    ASSUME NEW D, NEW call \in CallNames, NEW ctx \in ContextsOver(D),
           NEW operation \in knownOperations \cup {"none"},
           NEW resources \in Seq(Resources), NEW passed \in BOOLEAN
    PROVE  Called(call, ctx, operation, resources, passed) \in Calls(D)
BY DEF Called, Calls

\* A rule list that compiles becomes compiled rules.
LEMMA RulesCompile ==
    ASSUME NEW effects, NEW rules \in Seq(DeclaredRules), compiles(rules, effects)
    PROVE  compileRules(rules) \in Seq(CompiledRules(effects))
<1> DEFINE n == Len(rules)
<1>1. n \in Nat /\ DOMAIN rules = 1..n /\ \A i \in 1..n : rules[i] \in DeclaredRules
  BY LenProperties, ElementOfSeq
<1>2. ASSUME NEW i \in 1..n PROVE compileRule(rules[i]) \in CompiledRules(effects)
  <2>1. /\ rules[i].scopes \in Seq(Scopes)
        /\ rules[i].name \in Int
        /\ rules[i].operations \in (SUBSET knownOperations) \ {{}}
        /\ rules[i].effect \in effects
    BY <1>1 DEF compiles, DeclaredRules
  <2>2. joined(rules[i].scopes, Len(rules[i].scopes)) \in Seq(Segments)
    BY <2>1, JoinedIsPath
  <2>3. /\ innermost(rules[i].scopes).kind \in Kinds
        /\ innermost(rules[i].scopes).name \in {scope.name : scope \in Scopes} \cup {"none"}
    <3>1. CASE rules[i].scopes = <<>>
      BY <3>1 DEF innermost, Under, Kinds
    <3>2. CASE rules[i].scopes # <<>>
      <4>1. Len(rules[i].scopes) \in 1..Len(rules[i].scopes)
        BY <2>1, <3>2, EmptySeq, LenProperties
      <4>2. rules[i].scopes[Len(rules[i].scopes)] \in Scopes
        BY <2>1, <4>1, ElementOfSeq
      <4> QED
        BY <3>2, <4>2 DEF innermost, Scopes
    <3> QED
      BY <3>1, <3>2
  <2> QED
    BY <2>1, <2>2, <2>3 DEF compileRule, CompiledRules
<1>3. compileRules(rules) = [i \in 1..n |-> compileRule(rules[i])]
  BY <1>1 DEF compileRules
<1> HIDE DEF n
<1>4. [i \in 1..n |-> compileRule(rules[i])] \in [1..n -> CompiledRules(effects)]
  BY <1>2
<1> QED
  BY <1>1, <1>3, <1>4, IsASeq

\* No policy is declared and nothing has been asked at first.
LEMMA InitIInv == Init => IInv
<1> SUFFICES ASSUME Init PROVE IInv
  OBVIOUS
<1>1. PoliciesCompiled
  BY DEF Init, PoliciesCompiled
<1>2. \A D : <<>> \in Seq(D) /\ <<>> \in ContextsOver(D)
  BY ContextsGrow
<1>3. HandleInv
  <2>1. handle = RawDB /\ attached = [db |-> {}, ctx |-> {}]
    BY DEF Init
  <2>2. Range(<<>>) = {} /\ Len(<<>>) = 0
    BY DEF Range
  <2>3. MaxPolicies \in Nat
    BY SecuredAssumption
  <2>4. handle.db = <<>> /\ handle.bound = <<>>
    BY <2>1 DEF RawDB, Guard
  <2>5. handle \in Guards(DOMAIN policies)
    BY <1>2, <2>1 DEF RawDB, Guard, Guards, Sessions
  <2>6. Len(handle.bound) <= MaxPolicies
    BY <2>2, <2>3, <2>4
  <2>7. Range(handle.db) = {} /\ Range(handle.bound) = {}
    BY <2>2, <2>4
  <2> QED
    BY <2>1, <2>5, <2>6, <2>7 DEF HandleInv
<1>4. last \in Calls(DOMAIN policies) /\ Answered
  <2>1. last = NoCall
    BY DEF Init
  <2> QED
    BY <1>2, <2>1 DEF NoCall, Calls, CallNames, Answered
<1> QED
  BY <1>1, <1>3, <1>4 DEF IInv

\* NewPolicy: declared policies stay as they are.
LEMMA NewPolicyPreserves ==
    ASSUME IInv, NEW p \in Policies, NEW rules \in RuleLists[p], NewPolicy(p, rules)
    PROVE  IInv'
<1> DEFINE D == DOMAIN policies
           ok == compiles(rules, accessEffects)
<1>1. rules \in Seq(DeclaredRules)
  BY SecuredAssumption
<1>2. /\ p \notin D
      /\ policies' = IF ok THEN [q \in D \cup {p} |->
                                   IF q = p THEN compileRules(rules) ELSE policies[q]]
                     ELSE policies
      /\ last' = Called("NewPolicy", <<>>, "none", <<>>, ok)
      /\ handle' = handle /\ attached' = attached
  BY DEF NewPolicy, MakePolicy
<1>3. D \subseteq DOMAIN policies'
  BY <1>2
<1>4. PoliciesCompiled'
  <2>1. CASE ok
    <3>1. compileRules(rules) \in Seq(CompiledRules(accessEffects))
      BY <1>1, <2>1, RulesCompile
    <3> QED
      BY <1>2, <2>1, <3>1 DEF IInv, PoliciesCompiled
  <2>2. CASE ~ok
    BY <1>2, <2>2 DEF IInv, PoliciesCompiled
  <2> QED
    BY <2>1, <2>2
<1>5. HandleInv'
  <2>1. handle \in Guards(D) /\ Guards(D) \subseteq Guards(DOMAIN policies')
    BY <1>3, ContextsGrow DEF IInv, HandleInv
  <2> HIDE DEF D, ok
  <2> QED
    BY <1>2, <2>1 DEF IInv, HandleInv
<1>6. last' \in Calls(DOMAIN policies')
  <2>1. ok \in BOOLEAN
    BY DEF compiles
  <2>2. <<>> \in ContextsOver(DOMAIN policies') /\ <<>> \in Seq(Resources)
    BY ContextsGrow
  <2> HIDE DEF D, ok
  <2> QED
    BY <1>2, <2>1, <2>2, CallsAre DEF CallNames
<1>7. Answered'
  BY <1>2 DEF Answered, Called
<1> QED
  BY <1>4, <1>5, <1>6, <1>7 DEF IInv

\* SecureDB and the SecureSession functions put policies on a raw database.
LEMMA SecurePreserves ==
    ASSUME IInv, NEW ps \in Contexts, NEW required \in BOOLEAN, NEW session \in Sessions,
           handle = RawDB, last' = NoCall, policies' = policies,
           handle' = Guard(ps, <<>>, required, session),
           attached' = [attached EXCEPT !.db = Range(ps)]
    PROVE  IInv'
<1> DEFINE D == DOMAIN policies
<1>1. ps \in Seq(D)
  BY ContextIsSeq DEF Contexts, ContextsOver
<1>2. handle' \in Guards(D) /\ handle'.db = ps /\ handle'.bound = <<>>
  BY <1>1 DEF Guard, Guards
<1>3. attached' = [db |-> Range(ps), ctx |-> Range(<<>>)]
  BY DEF IInv, HandleInv, RawDB, Guard
<1>4. HandleInv'
  <2>1. Len(<<>>) = 0 /\ MaxPolicies \in Nat
    BY SecuredAssumption
  <2>2. Len(handle'.bound) <= MaxPolicies
    BY <1>2, <2>1
  <2>3. attached' = [db |-> Range(handle'.db), ctx |-> Range(handle'.bound)]
    BY <1>2, <1>3
  <2> QED
    BY <1>2, <2>2, <2>3 DEF HandleInv
<1>5. last' \in Calls(D) /\ Answered'
  <2>1. <<>> \in ContextsOver(D)
    BY ContextsGrow
  <2> QED
    BY <2>1 DEF NoCall, Calls, CallNames, Answered
<1> QED
  BY <1>4, <1>5 DEF IInv, PoliciesCompiled

\* BindDB and a transaction that begins capture the policies of the context.
LEMMA CapturePreserves ==
    ASSUME IInv, NEW ctx \in Contexts, NEW session \in Sessions, policies' = policies,
           Len(handle.bound) + Len(ctx) <= MaxPolicies,
           handle' = [bind(handle, ctx) EXCEPT !.session = session],
           attached' = [attached EXCEPT !.ctx = @ \cup Range(ctx)],
           last' = Called("derive", ctx, "none", <<>>, TRUE)
    PROVE  IInv'
<1> DEFINE D == DOMAIN policies
<1>1. ctx \in ContextsOver(D) /\ ctx \in Seq(D)
  BY ContextIsSeq DEF Contexts, ContextsOver
<1>2. handle \in Guards(D) /\ handle.bound \in Seq(D)
  BY DEF IInv, HandleInv, Guards
<1>3. /\ handle.bound \o ctx \in Seq(D)
      /\ Len(handle.bound \o ctx) = Len(handle.bound) + Len(ctx)
      /\ Range(handle.bound \o ctx) = Range(handle.bound) \cup Range(ctx)
  BY <1>1, <1>2, ConcatProperties, RangeConcatenation
<1>4. handle' = [handle EXCEPT !.bound = handle.bound \o ctx, !.session = session]
  BY DEF bind
<1>5. handle' \in Guards(D) /\ handle'.db = handle.db /\ handle'.bound = handle.bound \o ctx
  BY <1>2, <1>3, <1>4 DEF Guards
<1>6. HandleInv'
  <2>1. attached' = [db |-> Range(handle.db), ctx |-> Range(handle.bound) \cup Range(ctx)]
    BY DEF IInv, HandleInv
  <2> QED
    BY <1>3, <1>5, <2>1 DEF HandleInv
<1>7. last' \in Calls(D) /\ Answered'
  <2>1. <<>> \in Seq(Resources)
    OBVIOUS
  <2>2. last' \in Calls(D)
    BY <1>1, <2>1, CallsAre DEF CallNames
  <2> QED
    BY <2>2 DEF Called, Answered
<1> QED
  BY <1>6, <1>7 DEF IInv, PoliciesCompiled

\* A session method asks the guard and changes nothing else.
LEMMA SecuredPreserves ==
    ASSUME IInv, NEW ctx \in Contexts, NEW operation \in knownOperations,
           NEW resources \in Seq(Resources), Secured(ctx, operation, resources)
    PROVE  IInv'
<1> DEFINE D == DOMAIN policies
           request == [operation |-> operation, resources |-> resources]
           passed == authorizeRequest(handle, ctx, request)
<1>1. ctx \in ContextsOver(D)
  BY DEF Contexts, ContextsOver
<1>2. /\ last' = Called("session", ctx, operation, resources, passed)
      /\ policies' = policies /\ handle' = handle /\ attached' = attached
  BY DEF Secured
<1>3. passed \in BOOLEAN
  BY DEF authorizeRequest
<1>4. authorizeRequest(handle, ctx, request)' = passed
  BY <1>2 DEF authorizeRequest
<1> HIDE DEF passed
<1>5. last' \in Calls(D)
  BY <1>1, <1>2, <1>3, CallsAre DEF CallNames
<1>6. Answered'
  BY <1>2, <1>4 DEF Answered, Called, passed, authorizeRequest
<1> QED
  BY <1>2, <1>5, <1>6 DEF IInv, PoliciesCompiled, HandleInv

\* Every step of the caller keeps the invariant.
LEMMA NextIInv == IInv /\ [Next]_vars => IInv'
<1> SUFFICES ASSUME IInv, [Next]_vars PROVE IInv'
  OBVIOUS
<1> DEFINE D == DOMAIN policies
<1>1. CASE UNCHANGED vars
  BY <1>1 DEF vars, IInv, PoliciesCompiled, HandleInv, Answered, authorizeRequest
<1>2. CASE Return
  <2>1. <<>> \in ContextsOver(D)
    BY ContextsGrow
  <2>2. last' \in Calls(D) /\ Answered'
    BY <1>2, <2>1 DEF Return, NoCall, Calls, CallNames, Answered
  <2> QED
    BY <1>2, <2>2 DEF Return, IInv, PoliciesCompiled, HandleInv
<1>3. ASSUME NEW p \in Policies, NEW rules \in RuleLists[p], NewPolicy(p, rules) PROVE IInv'
  BY <1>3, NewPolicyPreserves
<1>4. ASSUME NEW ps \in Contexts, NEW session \in {"readonly", "writeonly", "readwrite"},
             SecureSession(ps, session)
      PROVE  IInv'
  BY <1>4, SecurePreserves DEF SecureSession, Sessions
<1>5. ASSUME NEW ps \in Contexts, NEW required \in BOOLEAN, SecureDB(ps, required) PROVE IInv'
  BY <1>5, SecurePreserves DEF SecureDB, Sessions
<1>6. ASSUME NEW ctx \in Contexts, BindDB(ctx) PROVE IInv'
  BY <1>6, CapturePreserves DEF BindDB, Sessions
<1>7. ASSUME NEW ctx \in Contexts, NEW session \in {"readonly", "readwrite"},
             RunTransaction(ctx, session)
      PROVE  IInv'
  <2>1. CASE contextSatisfied(handle, ctx) /\ handle' # handle
    BY <1>7, <2>1, CapturePreserves DEF RunTransaction, Sessions
  <2>2. CASE ~contextSatisfied(handle, ctx)
    <3>1. last' = Called("begin", ctx, "none", <<>>, FALSE) /\ UNCHANGED <<policies, handle, attached>>
      BY <1>7, <2>2 DEF RunTransaction
    <3>2. <<>> \in Seq(Resources) /\ ctx \in ContextsOver(D)
      BY DEF Contexts, ContextsOver
    <3>3. last' \in Calls(D)
      BY <3>1, <3>2, CallsAre DEF CallNames
    <3> QED
      BY <3>1, <3>3 DEF IInv, PoliciesCompiled, HandleInv, Answered, Called
  <2>3. CASE contextSatisfied(handle, ctx) /\ handle' = handle
    BY <1>7, <2>3, CapturePreserves DEF RunTransaction, Sessions
  <2> QED
    BY <2>1, <2>2, <2>3
<1>8. ASSUME NEW ctx \in Contexts, NEW operation \in knownOperations,
             NEW resources \in Seq(Resources), Secured(ctx, operation, resources)
      PROVE  IInv'
  BY <1>8, SecuredPreserves
<1>9. /\ \A r \in Records : <<r>> \in Seq(Resources)
      /\ \A rs \in RecordLists \cup QuerySources : rs \in Seq(Resources)
  BY SecuredAssumption
<1>10. ASSUME NEW ctx \in Contexts, NEW sources \in QuerySources, ExecuteQuery(ctx, sources)
       PROVE  IInv'
  BY <1>8, <1>9, <1>10 DEF ExecuteQuery, knownOperations, Read, Write
<1>11. ASSUME NEW ctx \in Contexts, NEW r \in Records,
              \/ Exists(ctx, r) \/ Get(ctx, r) \/ Set(ctx, r)
              \/ Insert(ctx, r) \/ Update(ctx, r) \/ Delete(ctx, r)
       PROVE  IInv'
  BY <1>8, <1>9, <1>11 DEF Exists, Get, Set, Insert, Update, Delete, knownOperations, Read, Write
<1>12. ASSUME NEW ctx \in Contexts, NEW rs \in RecordLists,
              \/ GetMulti(ctx, rs) \/ SetMulti(ctx, rs) \/ InsertMulti(ctx, rs)
              \/ UpdateMulti(ctx, rs) \/ DeleteMulti(ctx, rs)
       PROVE  IInv'
  BY <1>8, <1>9, <1>12
     DEF GetMulti, SetMulti, InsertMulti, UpdateMulti, DeleteMulti, knownOperations, Read, Write
<1> QED
  BY <1>1, <1>2, <1>3, <1>4, <1>5, <1>6, <1>7, <1>10, <1>11, <1>12 DEF Next, HandleNext

\* The inductive invariant of policies, guards and answers.
THEOREM Invariance == Spec => []IInv
<1> QED
  BY InitIInv, NextIInv, PTL DEF Spec

\* Policies are compiled rules, guards and contexts hold declared policies only.
THEOREM TypeCorrect == Spec => []TypeOK
<1>1. IInv => TypeOK
  <2> SUFFICES ASSUME IInv PROVE TypeOK
    OBVIOUS
  <2> DEFINE D == DOMAIN policies
  <2>1. ASSUME NEW p \in D, NEW rule \in Range(policies[p])
        PROVE  /\ rule.kind \in {"path", "group", "opaque"}
               /\ rule.operations \in (SUBSET knownOperations) \ {{}}
               /\ rule.effect \in {"allow", "deny"}
    <3>1. policies[p] \in Seq(CompiledRules(accessEffects))
      BY DEF IInv, PoliciesCompiled
    <3>2. rule \in CompiledRules(accessEffects)
      BY <3>1, RangeOfSeq
    <3> QED
      BY <3>2 DEF CompiledRules, Kinds, accessEffects
  <2>2. /\ handle \in Guards(D) /\ Len(handle.bound) <= MaxPolicies
        /\ attached = [db |-> Range(handle.db), ctx |-> Range(handle.bound)]
        /\ last \in Calls(D) /\ D \subseteq Policies
    BY DEF IInv, HandleInv, PoliciesCompiled
  <2>3. Range(handle.db) \subseteq D /\ Range(handle.bound) \subseteq D
    <3>1. handle.db \in Seq(D) /\ handle.bound \in Seq(D)
      BY <2>2 DEF Guards
    <3> HIDE DEF D
    <3> QED
      BY <3>1, RangeOfSeq
  <2>4. /\ handle.required \in BOOLEAN /\ handle.session \in Sessions
        /\ last.ctx \in Contexts /\ last.passed \in BOOLEAN
    BY <2>2 DEF Guards, Calls, Contexts, ContextsOver
  <2>5. attached.db \cup attached.ctx \subseteq D
    BY <2>2, <2>3
  <2> QED
    BY <2>1, <2>2, <2>3, <2>4, <2>5 DEF TypeOK, Sessions
<1> QED
  BY <1>1, Invariance, PTL

-----------------------------------------------------------------------------
\* Decide on one resource, for a compiled access policy.
LEMMA DecideIsPermitted ==
    ASSUME NEW rules \in Seq(CompiledRules(accessEffects)), NEW operation, NEW resource
    PROVE  decideResource(rules, operation, resource) <=>
              PermittedByRules(rules, operation, resource)
<1>1. rules \in Seq(CompiledRules({"allow", "deny"}))
  BY DEF accessEffects
<1>2. ~effectIsRestrictive("allow") /\ effectIsRestrictive("deny")
  BY DEF effectIsRestrictive
<1> QED
  BY <1>1, <1>2, SortingSelects DEF decideResource, PermittedByRules

\* REQ hierarchical-policy-precedence: NewPolicy's compiled rules, whatever the
\* order of their declaration and nesting, decide by depth, literal segments and
\* deny on a tie, and deny without a match.
THEOREM PrecedenceAlways == Spec => []PrecedenceHolds
<1>1. IInv => PrecedenceHolds
  <2> SUFFICES ASSUME IInv, NEW p \in DOMAIN policies, NEW operation, NEW r
               PROVE  decideResource(policies[p], operation, r) <=>
                         PermittedByRules(policies[p], operation, r)
    BY Zenon DEF PrecedenceHolds
  <2>1. policies[p] \in Seq(CompiledRules(accessEffects))
    BY DEF IInv, PoliciesCompiled
  <2> QED
    BY <2>1, DecideIsPermitted
<1> QED
  BY <1>1, Invariance, PTL

\* REQ hierarchical-audit-selection: AuditPolicy.Classify, over any declared rules
\* that NewAuditPolicy accepts, audits a call exactly when the most specific of the
\* rules that match one of its resources all say so.
THEOREM AuditSelects ==
    ASSUME NEW rules \in Seq(DeclaredRules), compiles(rules, auditEffects),
           NEW operation \in knownOperations, NEW resources \in Seq(Resources)
    PROVE  Classify(compileRules(rules), [operation |-> operation, resources |-> resources]) <=>
              \E r \in Range(resources) : SelectedByRules(compileRules(rules), operation, r, "audit")
<1> DEFINE C == compileRules(rules)
           audited(r) == LET M == matching(C, operation, r) IN M # {} /\ C[winner(C, M)].effect = "audit"
<1>1. C \in Seq(CompiledRules({"audit", "ignore-audit"}))
  BY RulesCompile DEF auditEffects
<1>2. ~effectIsRestrictive("audit") /\ effectIsRestrictive("ignore-audit")
  BY DEF effectIsRestrictive
<1> HIDE DEF C
<1>3. \A r : audited(r) <=> SelectedByRules(C, operation, r, "audit")
  BY <1>1, <1>2, SortingSelects
<1>4. Classify(C, [operation |-> operation, resources |-> resources])
      <=> \E n \in DOMAIN resources : audited(resources[n])
  BY DEF Classify
<1> HIDE DEF audited
<1>5. (\E n \in DOMAIN resources : audited(resources[n])) <=> \E r \in Range(resources) : audited(r)
  BY DEF Range
<1> QED
  BY <1>3, <1>4, <1>5 DEF C

\* Guards and contexts are sequences of declared policies.
LEMMA GuardLists ==
    ASSUME NEW D, NEW g \in Guards(D), NEW ctx \in Seq(D)
    PROVE  /\ Range(g.db \o g.bound \o ctx) = Range(g.db) \cup Range(g.bound) \cup Range(ctx)
           /\ Range(g.db \o g.bound \o ctx) \subseteq D
<1>1. g.db \in Seq(D) /\ g.bound \in Seq(D)
  BY DEF Guards
<1>2. g.db \o g.bound \in Seq(D) /\ Range(g.db \o g.bound) = Range(g.db) \cup Range(g.bound)
  BY <1>1, ConcatProperties, RangeConcatenation
<1> DEFINE both == g.db \o g.bound
<1> HIDE DEF both
<1>3. both \in Seq(D) /\ Range(both) = Range(g.db) \cup Range(g.bound)
  BY <1>2 DEF both
<1>4. both \o ctx \in Seq(D) /\ Range(both \o ctx) = Range(both) \cup Range(ctx)
  BY <1>3, ConcatProperties, RangeConcatenation
<1>5. Range(both \o ctx) \in SUBSET D
  BY <1>4, RangeOfSeq
<1> QED
  BY <1>3, <1>4, <1>5 DEF both

\* A sequence without elements is empty.
LEMMA EmptyRange ==
    ASSUME NEW S, NEW s \in Seq(S)
    PROVE  Len(s) \in Nat /\ (Range(s) = {} <=> Len(s) = 0) /\ (Range(s) = {} <=> s = <<>>)
<1>1. Len(s) \in Nat /\ DOMAIN s = 1..Len(s)
  BY LenProperties
<1>2. Range(s) = {s[i] : i \in 1..Len(s)}
  BY RangeEquality
<1>3. Range(s) = {} <=> Len(s) = 0
  <2>1. Len(s) # 0 => 1 \in 1..Len(s)
    BY <1>1
  <2>2. Len(s) = 0 => 1..Len(s) = {}
    BY <1>1
  <2> QED
    BY <1>2, <2>1, <2>2
<1>4. s = <<>> <=> Len(s) = 0
  BY EmptySeq
<1> QED
  BY <1>1, <1>3, <1>4

\* REQ database-and-context-composition and complete-session-enforcement: a session
\* call reaches the adapter exactly when every policy attached on the way to the
\* handle, and of the call's context, permits each of its resources.
THEOREM EnforcementAlways == Spec => []EnforcementExact
<1>1. IInv => EnforcementExact
  <2> SUFFICES ASSUME IInv, last.call = "session" PROVE EnforcementExact
    BY DEF EnforcementExact
  <2> DEFINE D == DOMAIN policies
             ctx == last.ctx
             op == last.request.operation
             rs == last.request.resources
             applicable == attached.db \cup attached.ctx \cup Range(ctx)
  <2>1. op \in knownOperations /\ last.passed = authorizeRequest(handle, ctx, last.request)
    BY DEF IInv, Answered
  <2>2. ctx \in Seq(D) /\ rs \in Seq(Resources) /\ handle \in Guards(D) /\ handle.bound \in Seq(D)
    BY ContextIsSeq DEF IInv, HandleInv, Calls, Guards
  <2>3. attached.db = Range(handle.db) /\ attached.ctx = Range(handle.bound)
    BY DEF IInv, HandleInv
  <2>4. Range(handle.db \o handle.bound \o ctx) = applicable /\ applicable \subseteq D
    <3> HIDE DEF D, ctx
    <3>1. /\ Range(handle.db \o handle.bound \o ctx) = Range(handle.db) \cup Range(handle.bound) \cup Range(ctx)
          /\ Range(handle.db \o handle.bound \o ctx) \subseteq D
      BY <2>2, GuardLists
    <3> QED BY <2>3, <3>1
  <2>5. contextSatisfied(handle, ctx) <=> (handle.required => attached.ctx \cup Range(ctx) # {})
    <3>1. /\ Len(handle.bound) \in Nat /\ Len(ctx) \in Nat
          /\ Range(handle.bound) = {} <=> Len(handle.bound) = 0
          /\ Range(ctx) = {} <=> Len(ctx) = 0
      <4> HIDE DEF D, ctx
      <4> QED
        BY <2>2, EmptyRange
    <3> HIDE DEF ctx
    <3>2. Len(handle.bound) + Len(ctx) > 0 <=> ~(Len(handle.bound) = 0 /\ Len(ctx) = 0)
      BY <3>1
    <3> QED
      BY <2>3, <3>1, <3>2 DEF contextSatisfied
  <2>6. ASSUME NEW p \in D
        PROVE  Decide(policies[p], last.request) <=>
                  /\ Range(rs) # {}
                  /\ \A r \in Range(rs) : PermittedByRules(policies[p], op, r)
    <3>1. policies[p] \in Seq(CompiledRules(accessEffects))
      BY DEF IInv, PoliciesCompiled
    <3>2. \A r : decideResource(policies[p], op, r) <=> PermittedByRules(policies[p], op, r)
      <4> HIDE DEF op
      <4> QED
        BY <3>1, DecideIsPermitted
    <3>3. Range(rs) = {} <=> rs = <<>>
      <4> HIDE DEF rs
      <4> QED
        BY <2>2, EmptyRange
    <3>4. Decide(policies[p], last.request) <=>
             rs # <<>> /\ \A n \in DOMAIN rs : decideResource(policies[p], op, rs[n])
      BY <2>1 DEF Decide
    <3>5. Range(rs) = {rs[n] : n \in DOMAIN rs}
      BY DEF Range
    <3> HIDE DEF rs, op
    <3> QED
      BY <3>2, <3>3, <3>4, <3>5
  <2>7. last.passed <=> /\ contextSatisfied(handle, ctx)
                        /\ \A p \in applicable : Decide(policies[p], last.request)
    BY <2>1, <2>4 DEF authorizeRequest
  <2> HIDE DEF D, applicable
  <2>8. last.passed <=> /\ handle.required => attached.ctx \cup Range(ctx) # {}
                        /\ \A p \in applicable :
                              /\ Range(rs) # {}
                              /\ \A r \in Range(rs) : PermittedByRules(policies[p], op, r)
    BY <2>4, <2>5, <2>6, <2>7
  <2> QED
    BY <2>8 DEF EnforcementExact, applicable
<1> QED
  BY <1>1, Invariance, PTL

\* BindDB and transactions: a handle that has captured a context answers in every
\* later one as its parent would in both together.
THEOREM CaptureAlwaysExact == Spec => CaptureIsExact
<1>1. IInv /\ [Next]_vars => [DerivedAnswersAsParent]_vars
  <2> SUFFICES ASSUME IInv, [Next]_vars, last'.call = "derive", handle' # handle,
                      NEW ctx \in Contexts, NEW request
               PROVE  authorizeRequest(handle, last'.ctx \o ctx, request) <=>
                         authorizeRequest(handle', ctx, request)
    BY Zenon DEF DerivedAnswersAsParent
  <2> DEFINE D == DOMAIN policies
             c == last'.ctx
  <2>1. /\ c \in Contexts /\ policies' = policies
        /\ \E session : handle' = [bind(handle, c) EXCEPT !.session = session]
    <3>1. ASSUME NEW ps, NEW session, SecureSession(ps, session) PROVE FALSE
      BY <3>1 DEF SecureSession, NoCall
    <3>2. ASSUME NEW ps, NEW required, SecureDB(ps, required) PROVE FALSE
      BY <3>2 DEF SecureDB, NoCall
    <3>3. ASSUME NEW p, NEW rules, NewPolicy(p, rules) PROVE FALSE
      BY <3>3 DEF NewPolicy, MakePolicy
    <3>4. ASSUME NEW x, NEW operation, NEW resources, Secured(x, operation, resources) PROVE FALSE
      BY <3>4 DEF Secured
    <3>5. ~Return /\ ~UNCHANGED vars
      BY DEF Return, vars
    <3>6. ASSUME NEW x \in Contexts, BindDB(x)
          PROVE  /\ c \in Contexts /\ policies' = policies
                 /\ \E session : handle' = [bind(handle, c) EXCEPT !.session = session]
      <4>1. c = x
        BY <3>6 DEF BindDB, Called
      <4> HIDE DEF c
      <4> QED
        BY <3>6, <4>1 DEF BindDB
    <3>7. ASSUME NEW x \in Contexts, NEW session, RunTransaction(x, session)
          PROVE  /\ c \in Contexts /\ policies' = policies
                 /\ \E s : handle' = [bind(handle, c) EXCEPT !.session = s]
      <4>1. c = x /\ policies' = policies /\ handle' = [bind(handle, x) EXCEPT !.session = session]
        BY <3>7 DEF RunTransaction, Called
      <4> HIDE DEF c
      <4> QED
        BY <4>1
    <3> HIDE DEF c
    <3> QED
      BY <3>1, <3>2, <3>3, <3>4, <3>5, <3>6, <3>7
         DEF Next, HandleNext, ExecuteQuery, Exists, Get, Set, Insert, Update, Delete,
             GetMulti, SetMulti, InsertMulti, UpdateMulti, DeleteMulti
  <2>2. PICK session : handle' = [bind(handle, c) EXCEPT !.session = session]
    BY <2>1
  <2>3. c \in Seq(D) /\ ctx \in Seq(D) /\ handle \in Guards(D) /\ handle.bound \in Seq(D)
    <3>1. Contexts = ContextsOver(D)
      BY DEF Contexts, ContextsOver
    <3> HIDE DEF D, c
    <3>2. handle \in Guards(D)
      BY DEF IInv, HandleInv, D
    <3> QED
      BY <2>1, <3>1, <3>2, ContextIsSeq DEF Guards
  <2>4. /\ handle'.db = handle.db /\ handle'.bound = handle.bound \o c
        /\ handle'.required = handle.required
    BY <2>2, <2>3 DEF bind, Guards
  <2> HIDE DEF D, c
  <2>5. c \o ctx \in Seq(D) /\ handle.bound \o c \in Seq(D)
    BY <2>3, ConcatProperties
  <2>6. Range(handle.db \o handle.bound \o (c \o ctx)) =
           Range(handle.db) \cup Range(handle.bound) \cup Range(c) \cup Range(ctx)
    <3>1. Range(handle.db \o handle.bound \o (c \o ctx)) =
             Range(handle.db) \cup Range(handle.bound) \cup Range(c \o ctx)
      <4> DEFINE two == c \o ctx
      <4>1. two \in Seq(D)
        BY <2>5
      <4> HIDE DEF two
      <4>2. Range(handle.db \o handle.bound \o two) =
               Range(handle.db) \cup Range(handle.bound) \cup Range(two)
        BY <2>3, <4>1, GuardLists
      <4> QED
        BY <4>2 DEF two
    <3>2. Range(c \o ctx) = Range(c) \cup Range(ctx)
      BY <2>3, RangeConcatenation
    <3> QED
      BY <3>1, <3>2
  <2>7. Range(handle'.db \o handle'.bound \o ctx) =
           Range(handle.db) \cup Range(handle.bound) \cup Range(c) \cup Range(ctx)
    <3>1. handle' \in Guards(D)
      <4>1. IInv'
        BY NextIInv
      <4> QED
        BY <4>1, <2>1 DEF IInv, HandleInv, D
    <3>2. Range(handle'.db \o handle'.bound \o ctx) =
             Range(handle'.db) \cup Range(handle'.bound) \cup Range(ctx)
      <4> DEFINE g == handle'
      <4>1. g \in Guards(D)
        BY <3>1
      <4> HIDE DEF g
      <4>2. Range(g.db \o g.bound \o ctx) = Range(g.db) \cup Range(g.bound) \cup Range(ctx)
        BY <2>3, <4>1, GuardLists
      <4> QED
        BY <4>2 DEF g
    <3>3. Range(handle.bound \o c) = Range(handle.bound) \cup Range(c)
      BY <2>3, RangeConcatenation
    <3> QED
      BY <2>4, <3>2, <3>3
  <2>8. contextSatisfied(handle, c \o ctx) <=> contextSatisfied(handle', ctx)
    <3>1. /\ Len(handle.bound) \in Nat /\ Len(c) \in Nat /\ Len(ctx) \in Nat
          /\ Len(c \o ctx) = Len(c) + Len(ctx)
          /\ Len(handle.bound \o c) = Len(handle.bound) + Len(c)
      BY <2>3, LenProperties, ConcatProperties
    <3>3. Len(handle'.bound) = Len(handle.bound) + Len(c)
      BY <2>4, <3>1, Zenon
    <3>4. Len(handle.bound) + Len(c \o ctx) = Len(handle'.bound) + Len(ctx)
      <4> DEFINE x == Len(handle.bound)
                 y == Len(c)
                 z == Len(ctx)
                 yz == Len(c \o ctx)
                 xy == Len(handle'.bound)
      <4>1. x \in Nat /\ y \in Nat /\ z \in Nat /\ yz = y + z /\ xy = x + y
        BY <3>1, <3>3
      <4> HIDE DEF x, y, z, yz, xy
      <4>2. x + yz = xy + z
        BY <4>1
      <4> QED
        BY <4>2 DEF x, y, z, yz, xy
    <3> QED
      BY <2>4, <3>4 DEF contextSatisfied
  <2> QED
    BY <2>6, <2>7, <2>8 DEF authorizeRequest, c
<1> QED
  BY <1>1, Invariance, PTL DEF Spec, CaptureIsExact
=============================================================================
