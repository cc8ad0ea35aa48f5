------------------------------ MODULE IssueSearch -----------------------------
(***************************************************************************)
(* Searching a project page by page (search_issues and IssueCursor) while  *)
(* the service desk goes on writing: IssueDesk with readers beside it.     *)
(*                                                                         *)
(* A page is one SELECT, hence one action on the rows of that moment; the  *)
(* cursor is all that one page knows of those before it.  "now" is read    *)
(* ahead of the SELECT, so the clock of a page lies between the end of the *)
(* page before it and the SELECT.                                          *)
(*                                                                         *)
(* listed and still are history: how often the walk has listed an issue,   *)
(* and the issues that matched at its first page and that no one has       *)
(* changed since.                                                          *)
(***************************************************************************)
EXTENDS IssueDesk, SlaViews

CONSTANTS
  Searchers,   \* clients that walk through the pages of one search each
  Queries,     \* the searches they make
  Limit,       \* limit of a page
  RiskTicks    \* risk_horizon_seconds, in ticks

\* What the operators come to: = names one value, IN some, and != all the others.
\* An assignee that is NULL is among none of them.
Clauses ==
  [field : {"status"}, among : SUBSET Statuses]
  \cup [field : {"assignee"}, among : SUBSET Assignees]
  \cup [field : {"sla"}, value : SlaQueries \cup {"none"}]

\* Clauses joined by AND, or no expression at all.
AllQueries == SUBSET Clauses

Positions == [updated_at : 0..Horizon, sequence : Nat]

ASSUME SearchAssumption ==
  Queries \subseteq AllQueries /\ Limit \in 1..100 /\ RiskTicks \in Nat
ASSUME IssuesAssumption == IsFiniteSet(Issues)
ASSUME CursorAssumption == None \notin Positions

VARIABLE walk  \* the walk of each searcher

searchVars == <<vars, walk>>

Walks ==
  [pc : {"idle", "walking", "done"}, project : Projects \cup {None},
   query : AllQueries \cup {None}, cursor : Positions \cup {None}, since : 0..Horizon,
   listed : [Issues -> Nat], still : SUBSET Issues]

NoWalk == [pc |-> "idle", project |-> None, query |-> None, cursor |-> None, since |-> 0,
           listed |-> [i \in Issues |-> 0], still |-> {}]

-----------------------------------------------------------------------------
(* The query and the order it is answered in *)

Meets(clause, i, at) ==
  CASE clause.field = "status"   -> issues[i].status \in clause.among
    [] clause.field = "assignee" -> issues[i].assignee \in clause.among
    [] clause.field = "sla"      -> SlaMatches(clause.value, sla[i], at, RiskTicks)

Matches(query, i, at) == \A clause \in query : Meets(clause, i, at)

Position(i) == [updated_at |-> issues[i].updated_at, sequence |-> issues[i].sequence]

\* updated_at < ? OR (updated_at = ? AND issue_sequence < ?): a comes after b.
Behind(a, b) ==
  a.updated_at < b.updated_at \/ (a.updated_at = b.updated_at /\ a.sequence < b.sequence)

\* Mutation of Candidates: the row the cursor names is listed again.
CandidatesWithCursor(project, query, cursor, at) ==
  {i \in Issues :
     /\ issues[i].project = project
     /\ Matches(query, i, at)
     /\ cursor = None \/ Position(i) = cursor \/ Behind(Position(i), cursor)}

\* The rows of the SELECT but for its LIMIT.
Candidates(project, query, cursor, at) ==
  {i \in Issues :
     /\ issues[i].project = project
     /\ Matches(query, i, at)
     /\ cursor = None \/ Behind(Position(i), cursor)}

\* The first n of the rows, ORDER BY updated_at DESC, issue_sequence DESC.
Newest(rows, n) ==
  {i \in rows : Cardinality({j \in rows : Behind(Position(i), Position(j))}) < n}

\* Mutation of NextCursor: the position of the row that was fetched to see
\* whether there is more.
NextCursorPeeked(rows) ==
  IF Cardinality(rows) > Limit
    THEN Position(CHOOSE i \in Newest(rows, Limit + 1) : i \notin Newest(rows, Limit))
    ELSE None

\* The position of the last row of the page, if there is one more.
NextCursor(rows) ==
  IF Cardinality(rows) > Limit
    THEN Position(CHOOSE i \in Newest(rows, Limit) :
                    \A j \in Newest(rows, Limit) : j = i \/ Behind(Position(i), Position(j)))
    ELSE None

-----------------------------------------------------------------------------
SearchInit == Init /\ walk = [s \in Searchers |-> NoWalk]

\* A page of a walk that has listed as told so far; still is what it owes.
Page(s, project, query, cursor, at, listed, still) ==
  LET rows == Candidates(project, query, cursor, at)
      page == Newest(rows, Limit)
  IN  walk' = [walk EXCEPT ![s] =
        [pc |-> IF NextCursor(rows) = None THEN "done" ELSE "walking",
         project |-> project, query |-> query, cursor |-> NextCursor(rows), since |-> now,
         listed |-> [i \in Issues |-> IF i \in page THEN listed[i] + 1 ELSE listed[i]],
         still |-> still]]

\* search_issues without a cursor.
FirstPage(s) ==
  /\ walk[s].pc # "walking"
  /\ \E p \in Projects, query \in Queries, at \in 0..now :
       Page(s, p, query, None, at, NoWalk.listed, Candidates(p, query, None, at))
  /\ UNCHANGED vars

\* search_issues with the cursor of the page before.
NextPage(s) ==
  /\ walk[s].pc = "walking"
  /\ \E at \in walk[s].since..now :
       Page(s, walk[s].project, walk[s].query, walk[s].cursor, at, walk[s].listed,
            walk[s].still)
  /\ UNCHANGED vars

\* The client does not ask for the rest.
GiveUp(s) ==
  /\ walk[s].pc # "idle"
  /\ walk' = [walk EXCEPT ![s] = NoWalk]
  /\ UNCHANGED vars

\* What a step of the desk means to the walks: it changes some rows.
Watch ==
  walk' = [s \in Searchers |->
    [walk[s] EXCEPT !.still = {i \in @ : issues'[i] = issues[i]}]]

SearchNext ==
  \/ Tick /\ Watch
  \/ \E c \in Callers :
       \/ ConfigureSla(c) /\ Watch
       \/ SubmitCreate(c) /\ Watch
       \/ SubmitTransition(c) /\ Watch
       \/ SubmitAssign(c) /\ Watch
       \/ SubmitComment(c) /\ Watch
       \/ CommitCreate(c) /\ Watch
       \/ ReplayCreate(c) /\ Watch
       \/ CommitTransition(c) /\ Watch
       \/ CommitAssign(c) /\ Watch
       \/ Conflict(c) /\ Watch
       \/ CommitComment(c) /\ Watch
       \/ Drop(c) /\ Watch
  \/ \E s \in Searchers : FirstPage(s) \/ NextPage(s) \/ GiveUp(s)

SearchSpec == SearchInit /\ [][SearchNext]_searchVars

-----------------------------------------------------------------------------
(* Properties *)

\* The rows and requests of the desk are well typed, and so are the walks: a
\* walk has a cursor exactly while it has pages left.
SearchTypeOK ==
  /\ TypeOK
  /\ walk \in [Searchers -> Walks]
  /\ \A s \in Searchers : walk[s].cursor # None <=> walk[s].pc = "walking"

\* However the issues are updated between its pages, a walk lists none twice:
\* an update can move an issue only to where the walk has already been.
NoneListedTwice == \A s \in Searchers : \A i \in Issues : walk[s].listed[i] <= 1

\* Those of the queries that a row goes on matching as time passes.
Lasting(query) ==
  \A clause \in query : clause.field = "sla" => clause.value \in {"breached", "none"}

\* A walk that has come to its end has listed every issue that matched when it
\* began and that nobody has changed since, whatever was done to the others
\* and however many share a timestamp (README.md:55).
UntouchedIsListed ==
  \A s \in Searchers :
    walk[s].pc = "done" /\ Lasting(walk[s].query) =>
      \A i \in walk[s].still : walk[s].listed[i] = 1

\* The search language, the gauges and get_sla_state agree on every issue with
\* targets.  One that is worked on and was never resolved is in exactly one of
\* the sla queries, in "breached" when get_sla_state says so, and the
\* first-response gauge counts it as long as it is late and unanswered.  One
\* that went to wait for the customer, or was resolved at any time, is in none.
\* The resolution gauges count the issues of their queries.
SlaReadersAgree ==
  \A i \in Issues :
    LET row == sla[i]
        matched == {q \in SlaQueries : SlaMatches(q, row, now, RiskTicks)}
    IN  row # None =>
          /\ issues[i].status # Waiting /\ ~WasResolved(i) =>
               /\ Cardinality(matched) = 1
               /\ "breached" \in matched <=> ResolutionBreached(row, now)
               /\ FirstBreachGauge(row, now) <=>
                    row.responded_at = None /\ FirstBreached(row, now)
          /\ WentToWait(i) \/ WasResolved(i) => matched = {}
          /\ ResolutionBreachGauge(row, now) <=> "breached" \in matched
          /\ AtRiskGauge(row, now, RiskTicks) <=> "at_risk" \in matched
=============================================================================
