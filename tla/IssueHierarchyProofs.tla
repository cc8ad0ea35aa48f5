-------------------------- MODULE IssueHierarchyProofs ------------------------
(***************************************************************************)
(* Theorems about Catalog and IssueHierarchy for any number of issues,     *)
(* projects, processes and links.  Below(x) is what the recursive query    *)
(* means: the least set that holds x's children and the children of its    *)
(* members.  Descendants(x) is what it computes, depth by depth.  They are *)
(* the same set on a hierarchy without cycles, and that it stays without   *)
(* cycles is proved of Below, where no depth has to be counted.            *)
(***************************************************************************)
EXTENDS IssueHierarchy, LeastElements

-----------------------------------------------------------------------------
(* The catalog *)

LEMMA CatalogStepType == CatalogTypeOK /\ [CatalogStep]_catalogVars => CatalogTypeOK'
<1> SUFFICES ASSUME CatalogTypeOK, [CatalogStep]_catalogVars PROVE CatalogTypeOK'
  OBVIOUS
<1> USE DEF CatalogTypeOK
<1>1. ASSUME NEW a \in Processes, ReadWorkflow(a) PROVE CatalogTypeOK'
  BY <1>1 DEF ReadWorkflow, Registrations
<1>2. ASSUME NEW a \in Processes, InsertWorkflow(a) PROVE CatalogTypeOK'
  <2>1. PICK v \in Versions, d \in Definitions :
          workflows' = [workflows EXCEPT ![v] = Stored(@, d)]
    BY <1>2 DEF InsertWorkflow, Registrations
  <2>2. workflows' \in [Versions -> Definitions \cup {None}]
    BY <2>1 DEF Stored
  <2>3. \A w \in Versions : workflows[w] # None => workflows'[w] # None
    BY <2>1 DEF Stored
  <2> QED
    BY <1>2, <2>2, <2>3 DEF InsertWorkflow, ProjectRows
<1>3. ASSUME NEW a \in Processes, RegisterDies(a) PROVE CatalogTypeOK'
  BY <1>3 DEF RegisterDies
<1>4. ASSUME NEW p \in Projects, CreateProject(p) PROVE CatalogTypeOK'
  <2>1. PICK v \in Versions, k \in ProjectKeys :
          /\ workflows[v] # None
          /\ KeyFree(k)
          /\ projects' = [projects EXCEPT ![p] = [key |-> k, workflow |-> v]]
    BY <1>4 DEF CreateProject
  <2>2. projects' \in [Projects -> ProjectRows \cup {None}]
    BY <2>1 DEF ProjectRows
  <2>3. \A q \in Projects : projects'[q] # None =>
          \/ q # p /\ projects'[q] = projects[q]
          \/ q = p /\ projects'[q] = [key |-> k, workflow |-> v]
    BY <2>1
  <2> QED
    BY <1>4, <2>1, <2>2, <2>3 DEF CreateProject, KeyFree
<1>5. CASE UNCHANGED catalogVars
  BY <1>5 DEF catalogVars
<1> QED
  BY <1>1, <1>2, <1>3, <1>4, <1>5 DEF CatalogStep

LEMMA CatalogInitType == CatalogInit => CatalogTypeOK
BY DEF CatalogInit, CatalogTypeOK

LEMMA CatalogStepKeeps == CatalogTypeOK /\ [CatalogStep]_catalogVars => [KeepRules]_catalogVars
<1> SUFFICES ASSUME CatalogTypeOK, CatalogStep PROVE KeepRules
  OBVIOUS
<1> USE DEF CatalogTypeOK, KeepRules, RulesOf
<1>1. ASSUME NEW a \in Processes, ReadWorkflow(a) PROVE KeepRules
  BY <1>1 DEF ReadWorkflow
<1>2. ASSUME NEW a \in Processes, InsertWorkflow(a) PROVE KeepRules
  <2>1. PICK v \in Versions, d \in Definitions :
          workflows' = [workflows EXCEPT ![v] = Stored(@, d)]
    BY <1>2 DEF InsertWorkflow, Registrations
  <2>2. \A w \in Versions : workflows[w] # None => workflows'[w] = workflows[w]
    BY <2>1 DEF Stored
  <2> QED
    BY <1>2, <2>2 DEF InsertWorkflow, ProjectRows
<1>3. ASSUME NEW a \in Processes, RegisterDies(a) PROVE KeepRules
  BY <1>3 DEF RegisterDies
<1>4. ASSUME NEW p \in Projects, CreateProject(p) PROVE KeepRules
  BY <1>4 DEF CreateProject
<1> QED
  BY <1>1, <1>2, <1>3, <1>4 DEF CatalogStep

\* The hierarchy's steps on the catalog's tables are the catalog's.
LEMMA CatalogUsed == Spec => CatalogSpec
<1>1. Init => CatalogInit
  BY DEF Init
<1>2. [Next]_vars => [CatalogStep]_catalogVars
  BY DEF Next, vars, CatalogStep, CreateIssue, CreateParentLink, CreateOtherLink
<1> QED
  BY <1>1, <1>2, PTL DEF Spec, CatalogSpec

\* A project is governed by one definition from its creation on, for any
\* number of processes that register versions in two commits each: what a
\* project names is in the table, and a version in the table is never replaced.
THEOREM RulesStay == Spec => RulesStand
<1>1. CatalogSpec => RulesStand
  BY CatalogInitType, CatalogStepType, CatalogStepKeeps, PTL DEF CatalogSpec, RulesStand
<1> QED
  BY <1>1, CatalogUsed, PTL

-----------------------------------------------------------------------------
(* The recursive query *)

\* The rows of the first n depths.
Prefix(x, g, n) ==
  /\ g \in [0..n -> SUBSET Issues]
  /\ g[0] = {x}
  /\ \A k \in 1..n : g[k] = UNION {Children(y) : y \in g[k - 1]}

LEMMA PrefixExists ==
  ASSUME NEW x \in Issues, NEW n \in Nat
  PROVE  \E g : Prefix(x, g, n)
<1> DEFINE T == {m \in Nat : ~ \E g : Prefix(x, g, m)}
<1> SUFFICES ASSUME T # {} PROVE FALSE
  OBVIOUS
<1>1. PICK m \in T : \A k \in T : m <= k
  <2> HIDE DEF T
  <2>1. T \in SUBSET Nat
    BY DEF T
  <2> QED
    BY <2>1, LeastNat
<1>2. CASE m = 0
  <2>1. Prefix(x, [k \in 0..0 |-> {x}], 0)
    BY DEF Prefix
  <2> QED
    BY <1>1, <1>2, <2>1
<1>3. CASE m # 0
  <2>1. PICK g : Prefix(x, g, m - 1)
    BY <1>1, <1>3
  <2> DEFINE h == [k \in 0..m |-> IF k = m THEN UNION {Children(y) : y \in g[m - 1]} ELSE g[k]]
  <2>2. Prefix(x, h, m)
    BY <1>1, <1>3, <2>1 DEF Prefix, Children
  <2> QED
    BY <1>1, <2>2
<1> QED
  BY <1>2, <1>3

LEMMA PrefixUnique ==
  ASSUME NEW x \in Issues, NEW m \in Nat, NEW n \in Nat, NEW g, NEW h,
         Prefix(x, g, m), Prefix(x, h, n)
  PROVE  \A k \in Nat : k <= m /\ k <= n => g[k] = h[k]
<1> DEFINE T == {k \in Nat : k <= m /\ k <= n /\ g[k] # h[k]}
<1> SUFFICES ASSUME T # {} PROVE FALSE
  OBVIOUS
<1>1. PICK k \in T : \A j \in T : k <= j
  <2> HIDE DEF T
  <2>1. T \in SUBSET Nat
    BY DEF T
  <2> QED
    BY <2>1, LeastNat
<1>2. k # 0
  BY <1>1 DEF Prefix
<1>3. g[k - 1] = h[k - 1]
  BY <1>1, <1>2
<1>4. /\ g[k] = UNION {Children(y) : y \in g[k - 1]}
      /\ h[k] = UNION {Children(y) : y \in h[k - 1]}
  BY <1>1, <1>2 DEF Prefix
<1> QED
  BY <1>1, <1>3, <1>4

\* The recursion is well founded, so its rule may be used.
LEMMA GenerationRule ==
  ASSUME NEW x \in Issues
  PROVE  /\ Generation(x)[0] = {x}
         /\ \A d \in Nat :
              Generation(x)[d + 1] = UNION {Children(y) : y \in Generation(x)[d]}
<1> DEFINE P(n) == CHOOSE g : Prefix(x, g, n)
           G == [d \in Nat |-> P(d)[d]]
           F(f) == [d \in Nat |-> IF d = 0 THEN {x} ELSE UNION {Children(y) : y \in f[d - 1]}]
<1>1. \A n \in Nat : Prefix(x, P(n), n)
  BY PrefixExists
<1>2. ASSUME NEW d \in Nat PROVE G[d] = F(G)[d]
  <2>1. CASE d = 0
    BY <1>1, <2>1 DEF Prefix
  <2>2. CASE d # 0
    <3>1. d - 1 \in Nat /\ d \in 1..d
      BY <2>2
    <3>2. P(d)[d] = UNION {Children(y) : y \in P(d)[d - 1]}
      BY <1>1, <3>1 DEF Prefix
    <3>3. P(d)[d - 1] = P(d - 1)[d - 1]
      BY <1>1, <3>1, PrefixUnique
    <3> QED
      BY <2>2, <3>1, <3>2, <3>3
  <2> QED
    BY <2>1, <2>2
<1>3. G = F(G)
  BY <1>2
<1>4. Generation(x) = CHOOSE f : f = F(f)
  BY DEF Generation
<1>5. Generation(x) = F(Generation(x))
  BY <1>3, <1>4
<1> HIDE DEF F
<1>6. F(Generation(x))[0] = {x}
  BY DEF F
<1>7. \A d \in Nat : F(Generation(x))[d + 1] = UNION {Children(y) : y \in Generation(x)[d]}
  BY DEF F
<1> QED
  BY <1>5, <1>6, <1>7

-----------------------------------------------------------------------------
(* What it computes *)

Closed(x, D) == Children(x) \subseteq D /\ \A y \in D : Children(y) \subseteq D

Below(x) == {y \in Issues : \A D \in SUBSET Issues : Closed(x, D) => y \in D}

NoCycle == \A x \in Issues : x \notin Below(x)

LEMMA BelowClosed == ASSUME NEW x \in Issues PROVE Closed(x, Below(x))
BY DEF Closed, Below, Children

LEMMA BelowLeast ==
  ASSUME NEW x \in Issues, NEW D \in SUBSET Issues, Closed(x, D)
  PROVE  Below(x) \subseteq D
BY DEF Below

\* What is below a member of the family is in it.
LEMMA BelowDown ==
  ASSUME NEW x \in Issues, NEW y \in Below(x)
  PROVE  Below(y) \subseteq Below(x)
<1>1. y \in Issues /\ Below(x) \in SUBSET Issues
  BY DEF Below
<1>2. Closed(y, Below(x))
  BY BelowClosed DEF Closed
<1> QED
  BY <1>1, <1>2, BelowLeast

LEMMA GenerationType ==
  ASSUME NEW x \in Issues, NEW d \in Nat
  PROVE  Generation(x)[d] \subseteq Issues
<1>1. CASE d = 0
  BY <1>1, GenerationRule
<1>2. CASE d # 0
  <2>1. d - 1 \in Nat /\ d = (d - 1) + 1
    BY <1>2
  <2>2. Generation(x)[d] = UNION {Children(y) : y \in Generation(x)[d - 1]}
    BY <2>1, GenerationRule
  <2> QED
    BY <2>2 DEF Children
<1> QED
  BY <1>1, <1>2

\* Every depth but the first lies below the root.
LEMMA GenerationBelow ==
  ASSUME NEW x \in Issues, NEW d \in Nat \ {0}
  PROVE  Generation(x)[d] \subseteq Below(x)
<1> DEFINE T == {n \in Nat : ~(Generation(x)[n + 1] \subseteq Below(x))}
<1>1. T = {}
  <2> SUFFICES ASSUME T # {} PROVE FALSE
    OBVIOUS
  <2>1. PICK n \in T : \A k \in T : n <= k
    <3> HIDE DEF T
    <3>1. T \in SUBSET Nat
      BY DEF T
    <3> QED
      BY <3>1, LeastNat
  <2>2. Generation(x)[n + 1] = UNION {Children(y) : y \in Generation(x)[n]}
    BY <2>1, GenerationRule
  <2>3. CASE n = 0
    BY <2>1, <2>2, <2>3, GenerationRule, BelowClosed DEF Closed
  <2>4. CASE n # 0
    <3>1. n - 1 \in Nat /\ (n - 1) + 1 = n /\ n - 1 \notin T
      BY <2>1, <2>4
    <3>2. Generation(x)[n] \subseteq Below(x)
      BY <3>1
    <3> QED
      BY <2>1, <2>2, <3>2, BelowClosed DEF Closed
  <2> QED
    BY <2>3, <2>4
<1>2. d - 1 \in Nat /\ (d - 1) + 1 = d
  OBVIOUS
<1>3. d - 1 \notin T
  <2> HIDE DEF T
  <2> QED
    BY <1>1
<1> QED
  BY <1>2, <1>3

\* A path that leads to y at depth d passes d + 1 issues, all above y but y.
Path(x, y, d, P) ==
  /\ P \in SUBSET Issues
  /\ Cardinality(P) = d + 1
  /\ \A p \in P : p = y \/ y \in Below(p)

LEMMA PathExists ==
  ASSUME NEW x \in Issues, NoCycle
  PROVE  \A d \in Nat : \A y \in Generation(x)[d] : \E P : Path(x, y, d, P)
<1> DEFINE T == {d \in Nat : ~ \A y \in Generation(x)[d] : \E P : Path(x, y, d, P)}
<1> SUFFICES ASSUME T # {} PROVE FALSE
  OBVIOUS
<1>1. PICK d \in T : \A k \in T : d <= k
  <2> HIDE DEF T
  <2>1. T \in SUBSET Nat
    BY DEF T
  <2> QED
    BY <2>1, LeastNat
<1>2. CASE d = 0
  <2>1. Cardinality({x}) = 1
    BY FS_Singleton
  <2>2. Path(x, x, 0, {x})
    BY <2>1 DEF Path
  <2> QED
    BY <1>1, <1>2, <2>2, GenerationRule
<1>3. CASE d # 0
  <2>1. d - 1 \in Nat /\ d = (d - 1) + 1 /\ d - 1 \notin T
    BY <1>1, <1>3
  <2>2. PICK z \in Generation(x)[d] : ~ \E P : Path(x, z, d, P)
    BY <1>1
  <2>3. PICK y \in Generation(x)[d - 1] : z \in Children(y)
    BY <2>1, <2>2, GenerationRule
  <2>4. y \in Issues /\ z \in Issues /\ z \in Below(y)
    BY <2>1, <2>3, GenerationType, BelowClosed DEF Closed, Children
  <2>5. PICK P : Path(x, y, d - 1, P)
    BY <2>1, <2>3
  <2>6. \A p \in P : z \in Below(p)
    BY <2>4, <2>5, BelowDown DEF Path
  <2>7. z \notin P
    BY <2>4, <2>6 DEF NoCycle
  <2>8. IsFiniteSet(P) /\ Cardinality(P) = d
    BY <2>1, <2>5, IssuesAssumption, FS_Subset DEF Path
  <2>9. Cardinality(P \cup {z}) = d + 1
    BY <2>7, <2>8, FS_AddElement
  <2>10. Path(x, z, d, P \cup {z})
    BY <2>4, <2>5, <2>6, <2>9 DEF Path
  <2> QED
    BY <2>2, <2>10
<1> QED
  BY <1>2, <1>3

\* The query finds all that is below: without cycles no path is longer than
\* the number of issues.
LEMMA QueryIsRight ==
  ASSUME NoCycle, NEW x \in Issues
  PROVE  Descendants(x) = Below(x)
<1> DEFINE N == Cardinality(Issues)
           D == UNION {Generation(x)[d] : d \in 1..N}
<1>1. N \in Nat
  BY IssuesAssumption, FS_CardinalityType
<1>2. D \subseteq Below(x)
  BY <1>1, GenerationBelow
<1>3. \A d \in Nat : Generation(x)[d] # {} => d + 1 <= N
  <2> SUFFICES ASSUME NEW d \in Nat, NEW y \in Generation(x)[d] PROVE d + 1 <= N
    OBVIOUS
  <2>1. PICK P : Path(x, y, d, P)
    BY PathExists
  <2> QED
    BY <2>1, IssuesAssumption, FS_Subset DEF Path
<1>4. \A d \in Nat : \A y \in Generation(x)[d] : Children(y) \subseteq D
  <2> SUFFICES ASSUME NEW d \in Nat, NEW y \in Generation(x)[d], NEW z \in Children(y)
               PROVE  z \in D
    OBVIOUS
  <2>1. z \in Generation(x)[d + 1]
    BY GenerationRule
  <2>2. d + 1 \in 1..N
    BY <1>1, <1>3, <2>1
  <2> QED
    BY <2>1, <2>2
<1>5. D \in SUBSET Issues
  BY <1>1, GenerationType
<1>6. Closed(x, D)
  <2>1. Children(x) \subseteq D
    BY <1>4, GenerationRule
  <2>2. \A y \in D : Children(y) \subseteq D
    BY <1>1, <1>4
  <2> QED
    BY <2>1, <2>2 DEF Closed
<1>7. D = Below(x)
  BY <1>2, <1>5, <1>6, BelowLeast
<1> QED
  BY <1>7 DEF Descendants

-----------------------------------------------------------------------------
(* The links *)

Linked ==
  /\ home \in [Issues -> Projects \cup {None}]
  /\ links \subseteq [source : Issues, target : Issues, type : Types]
  /\ \A l \in links : Exists(l.source) /\ Exists(l.target)

OneParent ==
  \A l, m \in links :
    l.type = "parent_of" /\ m.type = "parent_of" /\ l.target = m.target => l = m

OneProject ==
  \A l \in links : l.type = "parent_of" => home[l.source] = home[l.target]

Forest == Linked /\ OneParent /\ OneProject /\ NoCycle

\* A parent link adds its target's family to those that hold its source.
LEMMA Joined ==
  ASSUME NEW s \in Issues, NEW t \in Issues, NEW x \in Issues,
         links' = links \cup {Link(s, t, "parent_of")}
  PROVE  Below(x)' \subseteq
           Below(x) \cup (IF s \in Below(x) \cup {x} THEN {t} \cup Below(t) ELSE {})
<1> DEFINE E == Below(x) \cup (IF s \in Below(x) \cup {x} THEN {t} \cup Below(t) ELSE {})
<1>1. \A z \in Issues : Children(z)' = Children(z) \cup (IF z = s THEN {t} ELSE {})
  BY DEF Children, Link
<1>2. E \in SUBSET Issues
  BY DEF Below
<1>3. Closed(x, Below(x)) /\ Closed(t, Below(t))
  BY BelowClosed
<1>4. Children(x)' \subseteq E
  BY <1>1, <1>3 DEF Closed
<1>5. \A y \in E : Children(y)' \subseteq E
  <2>1. ASSUME NEW y \in E PROVE Children(y) \subseteq E
    BY <1>3 DEF Closed
  <2>2. ASSUME NEW y \in E, y = s PROVE t \in E
    <3>1. CASE s \in Below(x) \cup {x}
      BY <3>1
    <3>2. CASE s \notin Below(x) \cup {x}
      BY <2>2, <3>2
    <3> QED
      BY <3>1, <3>2
  <2> QED
    BY <1>1, <1>2, <2>1, <2>2
<1>6. \A y \in Below(x)' : y \in E
  <2> HIDE DEF E
  <2> QED
    BY <1>2, <1>4, <1>5 DEF Below, Closed
<1> QED
  BY <1>6

\* A link that no test refused closes no cycle.
LEMMA JoinKeepsNoCycle ==
  ASSUME NEW s \in Issues, NEW t \in Issues, NoCycle,
         s # t, s \notin Below(t),
         links' = links \cup {Link(s, t, "parent_of")}
  PROVE  NoCycle'
<1> SUFFICES ASSUME NEW x \in Issues, x \in Below(x)' PROVE FALSE
  BY DEF NoCycle
<1>1. s \in Below(x) \cup {x} /\ x \in {t} \cup Below(t)
  BY Joined DEF NoCycle
<1>2. CASE x = t
  BY <1>1, <1>2
<1>3. CASE x \in Below(t)
  BY <1>1, <1>3, BelowDown
<1> QED
  BY <1>1, <1>2, <1>3

LEMMA SameLinks == ASSUME links' = links, NoCycle PROVE NoCycle'
BY DEF NoCycle, Below, Closed, Children

LEMMA ForestInit == Init => Forest
<1> SUFFICES ASSUME Init PROVE Forest
  OBVIOUS
<1>1. \A x \in Issues : Closed(x, {})
  BY DEF Init, Closed, Children
<1>2. NoCycle
  BY <1>1 DEF NoCycle, Below
<1> QED
  BY <1>2 DEF Init, Forest, Linked, OneParent, OneProject

LEMMA ForestNext == Forest /\ [Next]_vars => Forest'
<1> SUFFICES ASSUME Forest, [Next]_vars PROVE Forest'
  OBVIOUS
<1>0. Linked /\ OneParent /\ OneProject /\ NoCycle
  BY DEF Forest
<1>1. ASSUME NEW i \in Issues, NEW p \in Projects, CreateIssue(i, p) PROVE Forest'
  <2>1. home' = [home EXCEPT ![i] = p] /\ links' = links /\ home[i] = None
    BY <1>1 DEF CreateIssue, Exists
  <2>2. \A j \in Issues : Exists(j) => home'[j] = home[j] /\ j # i
    BY <1>0, <2>1 DEF Exists, Linked
  <2>3. Linked'
    BY <1>0, <2>1, <2>2 DEF Linked, Exists
  <2>4. OneParent' /\ OneProject'
    BY <1>0, <2>1, <2>2 DEF OneParent, OneProject, Linked
  <2> QED
    BY <1>0, <2>1, <2>3, <2>4, SameLinks DEF Forest
<1>2. ASSUME NEW s \in Issues, NEW t \in Issues, CreateParentLink(s, t) PROVE Forest'
  <2> DEFINE new == Link(s, t, "parent_of")
  <2>1. links' = links \cup {new} /\ home' = home /\ Exists(s) /\ Exists(t)
    BY <1>2 DEF CreateParentLink
  <2>2. new.source = s /\ new.target = t /\ new.type = "parent_of"
    BY DEF Link
  <2>3. Linked'
    BY <1>0, <2>1 DEF Linked, Exists, Link, Types
  <2>4. OneParent'
    <3>1. \A l \in links : l.type = "parent_of" => l.target # t
      <4> SUFFICES ASSUME NEW l \in links, l.type = "parent_of", l.target = t PROVE FALSE
        OBVIOUS
      <4>1. l = Link(l.source, t, "parent_of") /\ l.source \in Issues
        BY <1>0 DEF Linked, Link
      <4> QED
        BY <1>2, <4>1 DEF CreateParentLink, HasParent
    <3> QED
      BY <1>0, <2>1, <2>2, <3>1 DEF OneParent
  <2>5. OneProject'
    BY <1>0, <1>2, <2>1, <2>2 DEF OneProject, CreateParentLink, SameFamily
  <2>6. NoCycle'
    <3>1. s # t /\ s \notin Below(t)
      BY <1>0, <1>2, QueryIsRight DEF CreateParentLink, ClosesCycle
    <3> QED
      BY <1>0, <2>1, <3>1, JoinKeepsNoCycle
  <2> QED
    BY <2>3, <2>4, <2>5, <2>6 DEF Forest
<1>3. ASSUME NEW s \in Issues, NEW t \in Issues, NEW type \in OtherTypes,
             CreateOtherLink(s, t, type)
      PROVE  Forest'
  <2>1. /\ links' = links \cup {Link(s, t, type)} /\ home' = home
        /\ Exists(s) /\ Exists(t) /\ Link(s, t, type).type # "parent_of"
    BY <1>3, LinksAssumption DEF CreateOtherLink, Link
  <2>2. Linked'
    BY <1>0, <2>1 DEF Linked, Exists, Link, Types
  <2>3. OneParent' /\ OneProject'
    BY <1>0, <2>1 DEF OneParent, OneProject
  <2>4. \A x \in Issues : Children(x)' = Children(x)
    BY <2>1 DEF Children, Link
  <2>5. NoCycle'
    BY <1>0, <2>4 DEF NoCycle, Below, Closed
  <2> QED
    BY <2>2, <2>3, <2>5 DEF Forest
<1>4. CASE UNCHANGED <<home, links>>
  BY <1>0, <1>4, SameLinks DEF Forest, Linked, OneParent, OneProject, Exists
<1> QED
  BY <1>1, <1>2, <1>3, <1>4 DEF Next, vars

LEMMA ForestAlways == Spec => []Forest
BY ForestInit, ForestNext, PTL DEF Spec

\* No order of legal links closes a cycle, for any number of issues: the query
\* that looks below the target decides it exactly, so both recursive queries
\* end on every issue.
THEOREM HierarchyIsAcyclic == Spec => []Acyclic
<1>1. Forest => Acyclic
  BY QueryIsRight DEF Forest, NoCycle, Acyclic
<1> QED
  BY <1>1, ForestAlways, PTL

\* One path leads from an issue to each of its descendants, and it stays in the
\* issue's project.
THEOREM FamiliesStayTrees == Spec => []FamiliesAreTrees
<1>1. ASSUME Forest, NEW x \in Issues, NEW y \in Descendants(x)
      PROVE  /\ home[y] = home[x]
             /\ Cardinality({l \in links : l.type = "parent_of" /\ l.target = y
                              /\ l.source \in Descendants(x) \cup {x}}) = 1
  <2>0. Linked /\ OneParent /\ OneProject /\ y \in Below(x) /\ Descendants(x) = Below(x)
    BY <1>1, QueryIsRight DEF Forest
  <2> DEFINE Same == {z \in Issues : home[z] = home[x]}
             Reached == {z \in Issues : \E p \in Below(x) \cup {x} : z \in Children(p)}
             Up == {l \in links : l.type = "parent_of" /\ l.target = y
                                    /\ l.source \in Below(x) \cup {x}}
  <2>1. \A p, z \in Issues : z \in Children(p) => home[z] = home[p]
    BY <2>0 DEF Children, Link, OneProject
  <2>2. Closed(x, Same)
    BY <2>1 DEF Closed, Children
  <2>3. home[y] = home[x]
    BY <2>0, <2>2, BelowLeast
  <2>4. Reached \subseteq Below(x)
    BY BelowClosed DEF Closed
  <2>5. Closed(x, Reached)
    BY <2>4 DEF Closed, Children
  <2>6. PICK p \in Below(x) \cup {x} : y \in Children(p)
    BY <2>0, <2>5, BelowLeast
  <2>7. Link(p, y, "parent_of") \in Up
    BY <2>6 DEF Children, Link
  <2>8. Up = {Link(p, y, "parent_of")}
    BY <2>0, <2>7 DEF OneParent, Link
  <2>9. Cardinality(Up) = 1
    BY <2>8, FS_Singleton
  <2> QED
    BY <2>0, <2>3, <2>9
<1>2. Forest => FamiliesAreTrees
  BY <1>1 DEF FamiliesAreTrees
<1> QED
  BY <1>2, ForestAlways, PTL

-----------------------------------------------------------------------------
(* Types and events *)

TypeInv == TypeOK /\ IsFiniteSet(links)

\* A new link is one more for its target, and one more event in its stream.
LEMMA LinkCounted ==
  ASSUME NEW s \in Issues, NEW t \in Issues, NEW type \in Types, TypeInv,
         Exists(s), Exists(t), Link(s, t, type) \notin links,
         links' = links \cup {Link(s, t, type)},
         events' = Accounted(s, t), UNCHANGED <<catalogVars, home>>
  PROVE  TypeInv'
<1> DEFINE new == Link(s, t, type)
           In(i) == {l \in links : l.target = i}
           InNext(i) == {l \in links' : l.target = i}
<1>1. new \in [source : Issues, target : Issues, type : Types] /\ new.source = s /\ new.target = t
  BY DEF Link
<1>2. CatalogTypeOK' /\ home' = home /\ projects' = projects
  BY DEF TypeInv, TypeOK, CatalogTypeOK, catalogVars
<1>3. \A l \in links' : Exists(l.source)' /\ Exists(l.target)'
  BY <1>1, <1>2 DEF TypeInv, TypeOK, Exists
<1>4. IsFiniteSet(links')
  BY FS_AddElement DEF TypeInv
<1>5. events' \in [Issues -> Nat] /\ \A i \in Issues : events'[i] = Cardinality(InNext(i))
  <2>1. events \in [Issues -> Nat] /\ \A i \in Issues : events[i] = Cardinality(In(i))
    BY DEF TypeInv, TypeOK
  <2>2. \A i \in Issues : i # t => InNext(i) = In(i)
    BY <1>1
  <2>3. InNext(t) = In(t) \cup {new} /\ new \notin In(t)
    BY <1>1
  <2>4. IsFiniteSet(In(t))
    BY FS_Subset DEF TypeInv
  <2>5. Cardinality(InNext(t)) = Cardinality(In(t)) + 1
    BY <2>3, <2>4, FS_AddElement
  <2> HIDE DEF In, InNext
  <2> QED
    BY <2>1, <2>2, <2>5 DEF Accounted
<1> QED
  BY <1>1, <1>2, <1>3, <1>4, <1>5 DEF TypeInv, TypeOK, Exists

LEMMA TypeInit == Init => TypeInv
<1> SUFFICES ASSUME Init PROVE TypeInv
  OBVIOUS
<1>1. \A i \in Issues : {l \in links : l.target = i} = {}
  BY DEF Init
<1> QED
  BY <1>1, CatalogInitType, FS_EmptySet DEF Init, TypeInv, TypeOK, Exists

LEMMA TypeNext == TypeInv /\ [Next]_vars => TypeInv'
<1> SUFFICES ASSUME TypeInv, [Next]_vars PROVE TypeInv'
  OBVIOUS
<1>1. ASSUME NEW s \in Issues, NEW t \in Issues, CreateParentLink(s, t) PROVE TypeInv'
  BY <1>1, LinkCounted DEF CreateParentLink, HasParent, Types
<1>2. ASSUME NEW s \in Issues, NEW t \in Issues, NEW type \in OtherTypes,
             CreateOtherLink(s, t, type)
      PROVE  TypeInv'
  BY <1>2, LinkCounted DEF CreateOtherLink, Types
<1>3. ASSUME NEW i \in Issues, NEW p \in Projects, CreateIssue(i, p) PROVE TypeInv'
  <2>1. /\ home' = [home EXCEPT ![i] = p] /\ home[i] = None /\ projects[p] # None
        /\ UNCHANGED <<workflows, registering, projects, links, events>>
    BY <1>3 DEF CreateIssue, Exists, catalogVars
  <2>2. CatalogTypeOK'
    BY <2>1 DEF TypeInv, TypeOK, CatalogTypeOK
  <2> QED
    BY <2>1, <2>2 DEF TypeInv, TypeOK, Exists
<1>4. CASE CatalogStep /\ UNCHANGED <<home, links, events>>
  <2>1. CatalogTypeOK'
    BY <1>4, CatalogStepType DEF TypeInv, TypeOK
  <2>2. \A p \in Projects : projects[p] # None => projects'[p] # None
    BY <1>4, CatalogStepKeeps
    DEF TypeInv, TypeOK, CatalogStep, ReadWorkflow, InsertWorkflow, RegisterDies,
        CreateProject, CatalogTypeOK
  <2> QED
    BY <1>4, <2>1, <2>2 DEF TypeInv, TypeOK, Exists
<1>5. CASE UNCHANGED vars
  BY <1>5 DEF vars, catalogVars, TypeInv, TypeOK, CatalogTypeOK, Exists
<1> QED
  BY <1>1, <1>2, <1>3, <1>4, <1>5 DEF Next, CatalogStep

\* Links connect issues of projects that exist, project keys are unique, and
\* each link has its one event in its target's stream.
THEOREM TypeCorrect == Spec => []TypeOK
<1>1. TypeInv => TypeOK
  BY DEF TypeInv
<1> QED
  BY <1>1, TypeInit, TypeNext, PTL DEF Spec
=============================================================================
