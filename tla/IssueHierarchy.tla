---------------------------- MODULE IssueHierarchy ----------------------------
(***************************************************************************)
(* The links between issues: link_issues of service_desk/service.py and    *)
(* create_issue_link, issue_descendants of service_desk/repository.py.     *)
(*                                                                         *)
(* create_issue_link is one BEGIN IMMEDIATE transaction, so a link is one  *)
(* action however many processes there are.  What is hard is the shape     *)
(* that many legal calls add up to: the recursive query that looks for a   *)
(* cycle, and the one that lists descendants, are UNION ALL and end only   *)
(* on a hierarchy without cycles.  The links that are not parent_of differ *)
(* from each other in no test of the code.  Issues come into being in the  *)
(* projects of Catalog.                                                    *)
(***************************************************************************)
EXTENDS Catalog

CONSTANTS
  Issues,      \* the ids that issues get, in the order of creation
  OtherTypes,  \* the link types besides parent_of
  MaxLinks     \* bound on the links

ASSUME IssuesAssumption == Issues \subseteq Nat /\ IsFiniteSet(Issues)
ASSUME LinksAssumption == "parent_of" \notin OtherTypes /\ MaxLinks \in Nat

VARIABLES
  home,    \* issues.project_id, by issue_id
  links,   \* issue_links
  events   \* the number of issue_link_created events, by target issue

vars == <<catalogVars, home, links, events>>

Types == {"parent_of"} \cup OtherTypes
Link(s, t, type) == [source |-> s, target |-> t, type |-> type]

-----------------------------------------------------------------------------
Children(x) == {y \in Issues : Link(x, y, "parent_of") \in links}

\* The rows of the recursive query, depth by depth.  On a hierarchy without
\* cycles no depth is larger than the number of issues.
Generation(x) ==
  LET gen[d \in Nat] == IF d = 0 THEN {x} ELSE UNION {Children(y) : y \in gen[d - 1]}
  IN  gen

Descendants(x) == UNION {Generation(x)[d] : d \in 1..Cardinality(Issues)}

\* Mutation of ClosesCycle: only a direct child is looked for.
ClosesShortCycle(s, t) == s \in Children(t)

\* The cycle query: the source is already below the target.
ClosesCycle(s, t) == s \in Descendants(t)

\* Mutation of HasParent: uniqueness of the triple only.
HasThisParent(s, t) == Link(s, t, "parent_of") \in links

\* The partial unique index idx_issue_single_parent, whoever the parent is.
HasParent(s, t) == \E p \in Issues : Link(p, t, "parent_of") \in links

\* Mutation of SameFamily: the projects are not compared.
AnyFamily(s, t) == TRUE

SameFamily(s, t) == home[s] = home[t]

\* Mutation of Accounted: the event goes to the source's stream.
AccountedAtSource(s, t) == [events EXCEPT ![s] = @ + 1]

\* _audit and _outbox write to the target's stream.
Accounted(s, t) == [events EXCEPT ![t] = @ + 1]

-----------------------------------------------------------------------------
Exists(i) == home[i] # None

Init ==
  /\ CatalogInit
  /\ home = [i \in Issues |-> None]
  /\ links = {}
  /\ events = [i \in Issues |-> 0]

\* create_issue, as far as links go: a new issue in a project that exists.
CreateIssue(i, p) ==
  /\ ~Exists(i)
  /\ \A j \in Issues : j < i => Exists(j)
  /\ projects[p] # None
  /\ home' = [home EXCEPT ![i] = p]
  /\ UNCHANGED <<catalogVars, links, events>>

\* create_issue_link for parent_of: every test before the insert and every
\* constraint of the table; a refused link changes nothing.
CreateParentLink(s, t) ==
  /\ Cardinality(links) < MaxLinks
  /\ Exists(s) /\ Exists(t)
  /\ SameFamily(s, t)
  /\ s # t
  /\ ~ClosesCycle(s, t)
  /\ ~HasParent(s, t)
  /\ links' = links \cup {Link(s, t, "parent_of")}
  /\ events' = Accounted(s, t)
  /\ UNCHANGED <<catalogVars, home>>

\* create_issue_link for the other types: no cycle, parent or project test.
CreateOtherLink(s, t, type) ==
  /\ Cardinality(links) < MaxLinks
  /\ Exists(s) /\ Exists(t)
  /\ s # t
  /\ Link(s, t, type) \notin links
  /\ links' = links \cup {Link(s, t, type)}
  /\ events' = Accounted(s, t)
  /\ UNCHANGED <<catalogVars, home>>

Next ==
  \/ \E a \in Processes :
       \/ ReadWorkflow(a) /\ UNCHANGED <<home, links, events>>
       \/ InsertWorkflow(a) /\ UNCHANGED <<home, links, events>>
       \/ RegisterDies(a) /\ UNCHANGED <<home, links, events>>
  \/ \E p \in Projects :
       \/ CreateProject(p) /\ UNCHANGED <<home, links, events>>
       \/ \E i \in Issues : CreateIssue(i, p)
  \/ \E s, t \in Issues :
       CreateParentLink(s, t) \/ \E type \in OtherTypes : CreateOtherLink(s, t, type)

Spec == Init /\ [][Next]_vars

-----------------------------------------------------------------------------
(* Properties *)

\* The catalog is well typed, links connect issues that exist, and each has its
\* one event in its target's stream.
TypeOK ==
  /\ CatalogTypeOK
  /\ home \in [Issues -> Projects \cup {None}]
  /\ \A i \in Issues : Exists(i) => projects[home[i]] # None
  /\ links \subseteq [source : Issues, target : Issues, type : Types]
  /\ \A l \in links : Exists(l.source) /\ Exists(l.target)
  /\ events \in [Issues -> Nat]
  /\ \A i \in Issues : events[i] = Cardinality({l \in links : l.target = i})

\* No issue is its own ancestor, whatever the order in which subtrees were
\* built and joined: both recursive queries end on every issue.
Acyclic == \A x \in Issues : x \notin Descendants(x)

\* issue_descendants lists no issue twice, since one path leads to it, and only
\* issues of the project it was asked in (README.md:42).
FamiliesAreTrees ==
  \A x \in Issues : \A y \in Descendants(x) :
    /\ home[y] = home[x]
    /\ Cardinality({l \in links : l.type = "parent_of" /\ l.target = y
                                   /\ l.source \in Descendants(x) \cup {x}}) = 1
=============================================================================
