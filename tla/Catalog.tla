-------------------------------- MODULE Catalog -------------------------------
(***************************************************************************)
(* What stands before any issue: the registered workflow versions and the  *)
(* projects that name one (register_workflow, get_workflow and             *)
(* create_project of service_desk/repository.py).                          *)
(*                                                                         *)
(* register_workflow commits its SELECT and its INSERT separately, and the *)
(* lock around them is one per process, so between the two another process *)
(* may register the same version.  An encoded definition is a value.       *)
(***************************************************************************)
EXTENDS Naturals, FiniteSets

CONSTANTS
  Versions,      \* workflow ids with their versions
  Definitions,   \* encoded definitions
  Processes,     \* processes that bootstrap on the database
  Projects,      \* project ids
  ProjectKeys,   \* project keys
  None           \* no row

ASSUME NoneAssumption == None \notin Definitions \cup Versions \cup Projects

VARIABLES
  workflows,     \* workflows, by version
  registering,   \* what a process inserts next
  projects       \* projects, by project_id

catalogVars == <<workflows, registering, projects>>

ProjectRows == [key : ProjectKeys, workflow : Versions]
Registrations == [version : Versions, definition : Definitions]

-----------------------------------------------------------------------------
\* A version is registered with another definition: Conflict.
Differs(stored, definition) == stored # None /\ stored # definition

\* Mutation of Stored: INSERT OR REPLACE.
StoredReplace(stored, definition) == definition

\* INSERT OR IGNORE.
Stored(stored, definition) == IF stored = None THEN definition ELSE stored

\* Mutation of KeyFree: the key is not unique.
KeyFreeAlways(k) == TRUE

\* UNIQUE(project_key).
KeyFree(k) == \A q \in Projects : projects[q] # None => projects[q].key # k

CatalogInit ==
  /\ workflows = [v \in Versions |-> None]
  /\ registering = [a \in Processes |-> None]
  /\ projects = [p \in Projects |-> None]

\* register_workflow up to its SELECT, when that raises no Conflict.
ReadWorkflow(a) ==
  /\ registering[a] = None
  /\ \E v \in Versions, d \in Definitions :
       /\ ~Differs(workflows[v], d)
       /\ registering' = [registering EXCEPT ![a] = [version |-> v, definition |-> d]]
  /\ UNCHANGED <<workflows, projects>>

\* Its INSERT; the caller is told its own definition, stored or ignored.
InsertWorkflow(a) ==
  /\ registering[a] # None
  /\ workflows' = [workflows EXCEPT ![registering[a].version] =
       Stored(@, registering[a].definition)]
  /\ registering' = [registering EXCEPT ![a] = None]
  /\ UNCHANGED projects

\* The process dies between the two.
RegisterDies(a) ==
  /\ registering[a] # None
  /\ registering' = [registering EXCEPT ![a] = None]
  /\ UNCHANGED <<workflows, projects>>

\* create_project: get_workflow finds a row, which is never deleted, and the
\* INSERT violates no key.
CreateProject(p) ==
  /\ projects[p] = None
  /\ \E v \in Versions, k \in ProjectKeys :
       /\ workflows[v] # None
       /\ KeyFree(k)
       /\ projects' = [projects EXCEPT ![p] = [key |-> k, workflow |-> v]]
  /\ UNCHANGED <<workflows, registering>>

CatalogStep ==
  \/ \E a \in Processes : ReadWorkflow(a) \/ InsertWorkflow(a) \/ RegisterDies(a)
  \/ \E p \in Projects : CreateProject(p)

CatalogSpec == CatalogInit /\ [][CatalogStep]_catalogVars

-----------------------------------------------------------------------------
(* Properties *)

\* Every project names a registered version, and its key is its own.
CatalogTypeOK ==
  /\ workflows \in [Versions -> Definitions \cup {None}]
  /\ registering \in [Processes -> Registrations \cup {None}]
  /\ projects \in [Projects -> ProjectRows \cup {None}]
  /\ \A p \in Projects : projects[p] # None =>
       /\ workflows[projects[p].workflow] # None
       /\ \A q \in Projects :
            projects[q] # None /\ projects[q].key = projects[p].key => q = p

\* The rules that the issues of a project are moved by.
RulesOf(p) == workflows[projects[p].workflow]

KeepRules ==
  \A p \in Projects : projects[p] # None =>
    projects'[p] = projects[p] /\ RulesOf(p)' = RulesOf(p)

\* From its creation on a project is governed by one definition, although a
\* process may still be about to insert another one for the same version
\* ("a workflow version is immutable once registered", repository.py:261): the
\* constant Rules of IssueDesk is justified by it.
RulesStand == [][KeepRules]_catalogVars
=============================================================================
