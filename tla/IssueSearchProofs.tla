--------------------------- MODULE IssueSearchProofs --------------------------
(***************************************************************************)
(* Theorems about the page walks of IssueSearch, for any number of issues, *)
(* handlers and searchers, any limit and any search.  The argument is the  *)
(* order of the pages: positions are totally ordered because human keys    *)
(* are distinct, so a page cuts its candidates in two at its last row; and *)
(* what happens between two pages takes a listed issue further away from   *)
(* the cursor, because updated_at never decreases.                         *)
(* The last section is about the readers of an SLA row, which agree on the *)
(* rows the desk can come to.                                              *)
(***************************************************************************)
EXTENDS IssueSearch, IssueSlaProofs

-----------------------------------------------------------------------------
(* The order of the rows *)

LEMMA BehindOrders ==
  ASSUME NEW a \in Positions, NEW b \in Positions, NEW c \in Positions
  PROVE  /\ ~Behind(a, a)
         /\ Behind(a, b) => ~Behind(b, a)
         /\ Behind(a, b) /\ Behind(b, c) => Behind(a, c)
         /\ a = b \/ Behind(a, b) \/ Behind(b, a)
<1>1. /\ a.updated_at \in Nat /\ b.updated_at \in Nat /\ c.updated_at \in Nat
      /\ a.sequence \in Nat /\ b.sequence \in Nat /\ c.sequence \in Nat
  BY BoundAssumption DEF Positions
<1>2. a.updated_at = b.updated_at /\ a.sequence = b.sequence => a = b
  BY DEF Positions
<1> QED
  BY <1>1, <1>2 DEF Behind

LEMMA PositionType ==
  ASSUME TypeInv, NEW i \in Issues PROVE Position(i) \in Positions
BY DEF Position, Positions, TypeInv, TypeOK, IssueRows

\* Rows of one project have positions of their own.
LEMMA PositionsDiffer ==
  ASSUME TypeInv, Numbered, NEW p \in Projects, NEW i \in Issues, NEW j \in Issues,
         issues[i].project = p, issues[j].project = p, Position(i) = Position(j)
  PROVE  i = j
BY NullAssumption DEF Position, Numbered

Newer(i, rows) == {j \in rows : Behind(Position(i), Position(j))}
Older(i, rows) == {j \in rows : Behind(Position(j), Position(i))}

\* A row that is newer has fewer rows newer than itself, and one that is older
\* has fewer rows older.
LEMMA FewerNewer ==
  ASSUME TypeInv, NEW rows \in SUBSET Issues, NEW i \in rows
  PROVE  /\ i \notin Newer(i, rows) /\ i \notin Older(i, rows)
         /\ \A j \in Newer(i, rows) : Newer(j, rows) \subseteq Newer(i, rows)
         /\ \A j \in Older(i, rows) : Older(j, rows) \subseteq Older(i, rows)
<1>1. \A j \in Issues : Position(j) \in Positions
  BY PositionType
<1>2. \A j, k \in Issues :
        /\ ~Behind(Position(j), Position(j))
        /\ Behind(Position(i), Position(j)) /\ Behind(Position(j), Position(k))
             => Behind(Position(i), Position(k))
        /\ Behind(Position(k), Position(j)) /\ Behind(Position(j), Position(i))
             => Behind(Position(k), Position(i))
  BY <1>1, BehindOrders
<1> QED
  BY <1>2 DEF Newer, Older

\* There is a newest row, and an oldest one.
LEMMA Extremes ==
  ASSUME TypeInv, NEW rows \in SUBSET Issues, rows # {}
  PROVE  (\E i \in rows : Newer(i, rows) = {}) /\ (\E i \in rows : Older(i, rows) = {})
<1>1. IsFiniteSet(rows)
  BY IssuesAssumption, FS_Subset
<1>2. \E i \in rows : Newer(i, rows) = {}
  <2> DEFINE F == {Newer(i, rows) : i \in rows}
  <2>1. F \in SUBSET SUBSET rows /\ F # {}
    BY DEF Newer
  <2>2. \E T \in F : \A U \in F : U \subseteq T => U = T
    <3> HIDE DEF F
    <3> QED
      BY <1>1, <2>1, SmallestSet
  <2>3. PICK i \in rows : \A j \in rows : Newer(j, rows) \subseteq Newer(i, rows)
                                           => Newer(j, rows) = Newer(i, rows)
    BY <2>2
  <2>4. \A j \in Newer(i, rows) : j \in rows
    BY DEF Newer
  <2> QED
    BY <2>3, <2>4, FewerNewer
<1>3. \E i \in rows : Older(i, rows) = {}
  <2> DEFINE F == {Older(i, rows) : i \in rows}
  <2>1. F \in SUBSET SUBSET rows /\ F # {}
    BY DEF Older
  <2>2. \E T \in F : \A U \in F : U \subseteq T => U = T
    <3> HIDE DEF F
    <3> QED
      BY <1>1, <2>1, SmallestSet
  <2>3. PICK i \in rows : \A j \in rows : Older(j, rows) \subseteq Older(i, rows)
                                           => Older(j, rows) = Older(i, rows)
    BY <2>2
  <2>4. \A j \in Older(i, rows) : j \in rows
    BY DEF Older
  <2> QED
    BY <2>3, <2>4, FewerNewer
<1> QED
  BY <1>2, <1>3

-----------------------------------------------------------------------------
(* Pages *)

\* A page is all of its rows, or it ends at the row the cursor names and the
\* rows it leaves out are behind that one.
LEMMA PageCuts ==
  ASSUME TypeInv, Numbered, NEW p \in Projects, NEW rows \in SUBSET Issues,
         \A i \in rows : issues[i].project = p
  PROVE  LET page == Newest(rows, Limit)
             cursor == NextCursor(rows)
         IN  /\ page \subseteq rows
             /\ cursor = None => page = rows
             /\ cursor # None =>
                  /\ \E i \in page : cursor = Position(i)
                  /\ \A i \in page : ~Behind(Position(i), cursor)
                  /\ \A i \in rows \ page : Behind(Position(i), cursor)
<1> DEFINE page == Newest(rows, Limit)
           cursor == NextCursor(rows)
<1>a. Limit \in Nat \ {0}
  BY SearchAssumption
<1>b. IsFiniteSet(rows)
  BY IssuesAssumption, FS_Subset
<1>c. \A i \in rows : /\ IsFiniteSet(Newer(i, rows))
                      /\ Cardinality(Newer(i, rows)) \in Nat
                      /\ Newer(i, rows) \subseteq rows
  <2>1. \A i \in rows : Newer(i, rows) \subseteq rows
    BY DEF Newer
  <2> QED
    BY <1>b, <2>1, FS_Subset, FS_CardinalityType
<1>d. page = {i \in rows : Cardinality(Newer(i, rows)) < Limit}
  BY DEF Newest, Newer
<1>e. \A i, j \in rows : i = j \/ Behind(Position(i), Position(j))
                               \/ Behind(Position(j), Position(i))
  BY PositionType, PositionsDiffer, BehindOrders
<1> HIDE DEF page
<1>1. CASE ~(Cardinality(rows) > Limit)
  <2>1. cursor = None
    BY <1>1 DEF NextCursor
  <2>2. ASSUME NEW i \in rows PROVE i \in page
    <3>1. i \notin Newer(i, rows)
      BY FewerNewer
    <3>2. Cardinality(Newer(i, rows)) < Cardinality(rows)
      <4> DEFINE N == Newer(i, rows)
      <4>1. N \subseteq rows /\ N # rows
        BY <1>c, <3>1
      <4> HIDE DEF N
      <4>2. Cardinality(N) <= Cardinality(rows) /\ (Cardinality(N) = Cardinality(rows) => N = rows)
        BY <1>b, <4>1, FS_Subset
      <4>3. Cardinality(rows) \in Nat /\ Cardinality(N) \in Nat
        BY <1>b, <4>1, FS_Subset, FS_CardinalityType
      <4> QED
        BY <4>1, <4>2, <4>3 DEF N
    <3>3. Cardinality(rows) \in Nat
      BY <1>b, FS_CardinalityType
    <3> QED
      BY <1>1, <1>a, <1>c, <1>d, <3>2, <3>3
  <2> QED
    BY <1>d, <2>1, <2>2 DEF page
<1>2. CASE Cardinality(rows) > Limit
  <2>1. rows # {}
    BY <1>2, <1>a, FS_EmptySet
  <2>2. page # {}
    <3>1. PICK i \in rows : Newer(i, rows) = {}
      BY <2>1, Extremes
    <3> QED
      BY <1>a, <1>d, <3>1, FS_EmptySet
  <2>3. PICK last \in page : Older(last, page) = {}
    BY <1>d, <2>2, Extremes
  <2>4. \A j \in page : j = last \/ Behind(Position(last), Position(j))
    BY <1>d, <1>e, <2>3 DEF Older
  <2> DEFINE Ends(i) == \A j \in page : j = i \/ Behind(Position(i), Position(j))
  <2>5. /\ (CHOOSE i \in page : Ends(i)) \in page
        /\ Ends(CHOOSE i \in page : Ends(i))
    BY <2>4
  <2> DEFINE end == CHOOSE i \in page : Ends(i)
  <2>6. cursor = Position(end)
    BY <1>2 DEF NextCursor, page
  <2> HIDE DEF cursor
  <2>7. end \in page /\ \A j \in page : j = end \/ Behind(Position(end), Position(j))
    BY <2>5
  <2> HIDE DEF end
  <2>8. \A i \in page : ~Behind(Position(i), cursor)
    BY <1>d, <2>6, <2>7, PositionType, BehindOrders
  <2>9. ASSUME NEW i \in rows, i \notin page PROVE Behind(Position(i), cursor)
    <3>1. CASE Behind(Position(end), Position(i))
      <4>1. i \in Newer(end, rows)
        BY <3>1 DEF Newer
      <4>2. Newer(i, rows) \subseteq Newer(end, rows)
        BY <1>d, <2>7, <4>1, FewerNewer
      <4>3. Cardinality(Newer(i, rows)) <= Cardinality(Newer(end, rows))
        BY <1>c, <1>d, <2>7, <4>2, FS_Subset
      <4> QED
        BY <1>a, <1>c, <1>d, <2>7, <2>9, <4>3
    <3> QED
      BY <1>d, <1>e, <2>6, <2>7, <2>9, <3>1
  <2> QED
    BY <1>d, <2>6, <2>7, <2>8, <2>9, PositionType, CursorAssumption DEF page, cursor
<1> QED
  BY <1>1, <1>2

-----------------------------------------------------------------------------
(* What a page, and what a step of the desk, does to the walks *)

LEMMA DeskStep == [SearchNext]_searchVars => [Next]_vars
BY DEF SearchNext, searchVars, Next, Submit, Commit, FirstPage, NextPage, GiveUp

LEMMA DeskUsed == SearchSpec => Spec
BY DeskStep, PTL DEF SearchSpec, SearchInit, Spec

LEMMA WalkStep ==
  ASSUME [SearchNext]_searchVars
  PROVE  \/ Watch
         \/ UNCHANGED searchVars
         \/ UNCHANGED vars /\ \E s \in Searchers : FirstPage(s) \/ NextPage(s) \/ GiveUp(s)
BY DEF SearchNext, FirstPage, NextPage, GiveUp

Turned(s, project, query, cursor, at, listed, still) ==
  LET rows == Candidates(project, query, cursor, at)
      page == Newest(rows, Limit)
  IN  /\ walk'[s].pc = (IF NextCursor(rows) = None THEN "done" ELSE "walking")
      /\ walk'[s].project = project /\ walk'[s].query = query
      /\ walk'[s].cursor = NextCursor(rows) /\ walk'[s].since = now
      /\ walk'[s].listed = [i \in Issues |-> IF i \in page THEN listed[i] + 1 ELSE listed[i]]
      /\ walk'[s].still = still
      /\ \A t \in Searchers \ {s} : walk'[t] = walk[t]

LEMMA PageTurns ==
  ASSUME walk \in [Searchers -> Walks], TypeInv, Numbered,
         NEW s \in Searchers, NEW project \in Projects, NEW query \in Queries,
         NEW cursor, NEW at, NEW listed \in [Issues -> Nat], NEW still \in SUBSET Issues,
         Page(s, project, query, cursor, at, listed, still)
  PROVE  /\ walk' \in [Searchers -> Walks]
         /\ Turned(s, project, query, cursor, at, listed, still)
<1> DEFINE rows == Candidates(project, query, cursor, at)
           page == Newest(rows, Limit)
           next_listed == [i \in Issues |-> IF i \in page THEN listed[i] + 1 ELSE listed[i]]
           pc == IF NextCursor(rows) = None THEN "done" ELSE "walking"
           row == [pc |-> pc, project |-> project, query |-> query,
                   cursor |-> NextCursor(rows), since |-> now, listed |-> next_listed,
                   still |-> still]
<1>1. walk' = [walk EXCEPT ![s] = row]
  BY DEF Page
<1>2. rows \subseteq Issues /\ \A i \in rows : issues[i].project = project
  BY DEF Candidates
<1>3. NextCursor(rows) \in Positions \cup {None}
  <2> HIDE DEF rows
  <2>1. NextCursor(rows) # None => \E i \in Issues : NextCursor(rows) = Position(i)
    BY <1>2, PageCuts
  <2> QED
    BY <2>1, PositionType
<1>4. row \in Walks
  <2>1. next_listed \in [Issues -> Nat] /\ query \in AllQueries /\ now \in 0..Horizon
    BY SearchAssumption DEF TypeInv, TypeOK
  <2>2. pc \in {"idle", "walking", "done"}
    OBVIOUS
  <2> HIDE DEF rows, page, next_listed, pc
  <2> QED
    BY <1>3, <2>1, <2>2 DEF Walks
<1>5. /\ row.pc = pc /\ row.project = project /\ row.query = query
      /\ row.cursor = NextCursor(rows) /\ row.since = now
      /\ row.listed = next_listed /\ row.still = still
  OBVIOUS
<1> HIDE DEF row
<1>6. /\ walk' \in [Searchers -> Walks] /\ walk'[s] = row
      /\ \A t \in Searchers \ {s} : walk'[t] = walk[t]
  BY <1>1, <1>4
<1> QED
  BY <1>5, <1>6 DEF Turned

LEMMA WatchKeeps ==
  ASSUME walk \in [Searchers -> Walks], Watch
  PROVE  /\ walk' \in [Searchers -> Walks]
         /\ \A s \in Searchers :
              /\ walk'[s].pc = walk[s].pc /\ walk'[s].project = walk[s].project
              /\ walk'[s].query = walk[s].query /\ walk'[s].cursor = walk[s].cursor
              /\ walk'[s].since = walk[s].since /\ walk'[s].listed = walk[s].listed
              /\ walk'[s].still = {i \in walk[s].still : issues'[i] = issues[i]}
<1> DEFINE Seen(s) == [walk[s] EXCEPT !.still = {i \in @ : issues'[i] = issues[i]}]
<1>1. walk' = [s \in Searchers |-> Seen(s)]
  BY DEF Watch
<1>2. ASSUME NEW s \in Searchers
      PROVE  /\ Seen(s) \in Walks
             /\ Seen(s).pc = walk[s].pc /\ Seen(s).project = walk[s].project
             /\ Seen(s).query = walk[s].query /\ Seen(s).cursor = walk[s].cursor
             /\ Seen(s).since = walk[s].since /\ Seen(s).listed = walk[s].listed
             /\ Seen(s).still = {i \in walk[s].still : issues'[i] = issues[i]}
  <2>1. walk[s] \in Walks
    OBVIOUS
  <2> QED
    BY <2>1 DEF Walks
<1> HIDE DEF Seen
<1> QED
  BY <1>1, <1>2

-----------------------------------------------------------------------------
(* Types *)

WalksTyped ==
  /\ walk \in [Searchers -> Walks]
  /\ \A s \in Searchers :
       /\ walk[s].cursor # None <=> walk[s].pc = "walking"
       /\ walk[s].pc = "walking" => walk[s].project \in Projects /\ walk[s].query \in Queries
       /\ walk[s].since <= now

LEMMA NoWalkType ==
  /\ NoWalk \in Walks /\ NoWalk.pc = "idle" /\ NoWalk.cursor = None /\ NoWalk.since = 0
  /\ NoWalk.listed = [i \in Issues |-> 0] /\ NoWalk.still = {}
BY BoundAssumption DEF NoWalk, Walks

LEMMA WalksTypedInit == SearchInit => WalksTyped
BY NoWalkType DEF SearchInit, Init, WalksTyped

LEMMA ClockRuns == ASSUME TypeInv, [Next]_vars PROVE now \in Nat /\ now' \in Nat /\ now' >= now
<1>1. now \in Nat
  BY BoundAssumption DEF TypeInv, TypeOK
<1>2. now' = now \/ now' = now + 1
  BY DEF Next, Submit, Commit, Tick, ConfigureSla, SubmitCreate, SubmitTransition,
         SubmitAssign, SubmitComment, CommitCreate, ReplayCreate, CommitTransition,
         CommitAssign, Conflict, CommitComment, Drop, vars
<1> QED
  BY <1>1, <1>2

LEMMA TurnedTyped ==
  ASSUME WalksTyped, TypeInv, Numbered, UNCHANGED now,
         NEW s \in Searchers, NEW project \in Projects, NEW query \in Queries,
         NEW cursor, NEW at, NEW listed \in [Issues -> Nat], NEW still \in SUBSET Issues,
         Page(s, project, query, cursor, at, listed, still)
  PROVE  WalksTyped'
<1>1. /\ walk' \in [Searchers -> Walks]
      /\ Turned(s, project, query, cursor, at, listed, still)
  BY PageTurns DEF WalksTyped
<1>2. now \in Nat
  BY BoundAssumption DEF TypeInv, TypeOK
<1> QED
  BY <1>1, <1>2 DEF WalksTyped, Turned

LEMMA FirstPageFits ==
  ASSUME TypeInv, NEW s \in Searchers, FirstPage(s)
  PROVE  \E p \in Projects, query \in Queries, at \in 0..now :
           /\ Page(s, p, query, None, at, NoWalk.listed, Candidates(p, query, None, at))
           /\ NoWalk.listed \in [Issues -> Nat]
           /\ Candidates(p, query, None, at) \in SUBSET Issues
<1>1. NoWalk.listed \in [Issues -> Nat]
  BY NoWalkType
<1>2. \A p, query, at : Candidates(p, query, None, at) \in SUBSET Issues
  BY DEF Candidates
<1> QED
  BY <1>1, <1>2 DEF FirstPage

LEMMA NextPageFits ==
  ASSUME WalksTyped, NEW s \in Searchers, NextPage(s)
  PROVE  /\ walk[s].pc = "walking" /\ walk[s].cursor # None
         /\ walk[s].project \in Projects /\ walk[s].query \in Queries
         /\ walk[s].listed \in [Issues -> Nat] /\ walk[s].still \in SUBSET Issues
         /\ \E at \in walk[s].since..now :
              Page(s, walk[s].project, walk[s].query, walk[s].cursor, at, walk[s].listed,
                   walk[s].still)
<1>1. walk[s] \in Walks
  BY DEF WalksTyped
<1> QED
  BY <1>1 DEF NextPage, WalksTyped, Walks

LEMMA WalksTypedNext ==
  TypeInv /\ Numbered /\ WalksTyped /\ [SearchNext]_searchVars => WalksTyped'
<1> SUFFICES ASSUME TypeInv, Numbered, WalksTyped, [SearchNext]_searchVars PROVE WalksTyped'
  OBVIOUS
<1>a. now \in Nat /\ now' \in Nat /\ now' >= now
  BY DeskStep, ClockRuns
<1>b. \A s \in Searchers : walk[s].since \in Nat
  BY BoundAssumption DEF WalksTyped, Walks
<1>1. CASE Watch
  BY <1>1, <1>a, <1>b, WatchKeeps DEF WalksTyped
<1>2. CASE UNCHANGED searchVars
  BY <1>2 DEF searchVars, vars, WalksTyped
<1>3. ASSUME UNCHANGED vars, NEW s \in Searchers, FirstPage(s) PROVE WalksTyped'
  BY <1>3, FirstPageFits, TurnedTyped DEF vars
<1>4. ASSUME UNCHANGED vars, NEW s \in Searchers, NextPage(s) PROVE WalksTyped'
  BY <1>4, NextPageFits, TurnedTyped DEF vars
<1>5. ASSUME UNCHANGED vars, NEW s \in Searchers, GiveUp(s) PROVE WalksTyped'
  <2>1. walk' = [walk EXCEPT ![s] = NoWalk] /\ now' = now
    BY <1>5 DEF GiveUp, vars
  <2> QED
    BY <1>a, <2>1, NoWalkType DEF WalksTyped
<1> QED
  BY <1>1, <1>2, <1>3, <1>4, <1>5, WalkStep

LEMMA DeskAlways == SearchSpec => []TypeInv /\ []Numbered
<1>1. Spec => []TypeInv
  BY TypeInit, TypeNext, PTL DEF Spec
<1> QED
  BY <1>1, DeskUsed, NumberedAlways, PTL

LEMMA WalksTypedAlways == SearchSpec => []WalksTyped
BY DeskAlways, WalksTypedInit, WalksTypedNext, PTL DEF SearchSpec

\* The desk stays well typed with readers beside it, and so do the walks: a
\* walk holds a cursor exactly while it has pages left, and every cursor is
\* a position that a row can have.
THEOREM SearchTypeCorrect == SearchSpec => []SearchTypeOK
<1>1. TypeInv /\ WalksTyped => SearchTypeOK
  BY DEF TypeInv, WalksTyped, SearchTypeOK
<1> QED
  BY <1>1, DeskAlways, WalksTypedAlways, PTL

-----------------------------------------------------------------------------
(* None twice *)

ListedBehindUs ==
  \A s \in Searchers, i \in Issues :
    /\ walk[s].listed[i] <= 1
    /\ walk[s].pc = "walking" /\ walk[s].listed[i] = 1 =>
         /\ issues[i].project = walk[s].project
         /\ ~Behind(Position(i), walk[s].cursor)

LEMMA ListedInit == SearchInit => ListedBehindUs
BY NoWalkType DEF SearchInit, ListedBehindUs

\* An issue keeps its project and its number, and is never dated back.
LEMMA RowsAge ==
  ASSUME TypeInv, Fresh, Numbered, [Next]_vars, NEW i \in Issues, issues[i].project # None
  PROVE  /\ issues'[i].project = issues[i].project
         /\ issues'[i].sequence = issues[i].sequence
         /\ issues[i].updated_at \in Nat /\ issues'[i].updated_at \in Nat
         /\ issues'[i].updated_at >= issues[i].updated_at
<1>1. issues[i].updated_at \in Nat /\ issues'[i].updated_at \in Nat
  BY TypeNext, BoundAssumption DEF TypeInv, TypeOK, IssueRows
<1>2. issues'[i].updated_at >= issues[i].updated_at
  BY <1>1, RowStep DEF Written
<1>3. Exists(i)
  BY DEF Numbered
<1> QED
  BY <1>1, <1>2, <1>3, NumberStep

LEMMA AgeingIsNotBehind ==
  ASSUME NEW a \in Positions, NEW b \in Positions, NEW cursor \in Positions,
         b.updated_at >= a.updated_at, b.sequence = a.sequence, ~Behind(a, cursor)
  PROVE  ~Behind(b, cursor)
<1>1. /\ a.updated_at \in Nat /\ b.updated_at \in Nat /\ cursor.updated_at \in Nat
      /\ a.sequence \in Nat /\ cursor.sequence \in Nat
  BY BoundAssumption DEF Positions
<1> QED
  BY <1>1 DEF Behind

\* Once a page is turned, the listed rows are no more behind the cursor.
LEMMA PageListsOnce ==
  ASSUME TypeInv, Numbered, WalksTyped, ListedBehindUs, UNCHANGED vars,
         NEW s \in Searchers, NEW project \in Projects, NEW query \in Queries,
         NEW cursor \in Positions \cup {None}, NEW at,
         NEW listed \in [Issues -> Nat], NEW still \in SUBSET Issues,
         \A i \in Issues :
           /\ listed[i] <= 1
           /\ listed[i] = 1 =>
                /\ cursor # None
                /\ issues[i].project = project /\ ~Behind(Position(i), cursor),
         Page(s, project, query, cursor, at, listed, still)
  PROVE  ListedBehindUs'
<1> DEFINE rows == Candidates(project, query, cursor, at)
           page == Newest(rows, Limit)
<1>1. Turned(s, project, query, cursor, at, listed, still)
  BY PageTurns DEF WalksTyped
<1>2. /\ rows \subseteq Issues
      /\ \A i \in rows : /\ issues[i].project = project
                         /\ cursor = None \/ Behind(Position(i), cursor)
  BY DEF Candidates
<1>3. /\ page \subseteq rows
      /\ NextCursor(rows) # None =>
           /\ \E i \in page : NextCursor(rows) = Position(i)
           /\ \A i \in page : ~Behind(Position(i), NextCursor(rows))
  <2> HIDE DEF rows
  <2> QED
    BY <1>2, PageCuts
<1>4. ASSUME NEW i \in Issues
      PROVE  /\ walk'[s].listed[i] <= 1
             /\ walk'[s].listed[i] = 1 => i \in page \/ (i \notin page /\ listed[i] = 1)
  <2>1. listed[i] \in Nat /\ listed[i] <= 1
    OBVIOUS
  <2>2. i \in page => listed[i] = 0
    BY <1>2, <1>3, <2>1
  <2>3. walk'[s].listed[i] = IF i \in page THEN listed[i] + 1 ELSE listed[i]
    BY <1>1 DEF Turned
  <2> QED
    BY <2>1, <2>2, <2>3
<1>5. ASSUME NEW i \in Issues, NextCursor(rows) # None,
             i \in page \/ (i \notin page /\ listed[i] = 1)
      PROVE  issues[i].project = project /\ ~Behind(Position(i), NextCursor(rows))
  <2>1. CASE i \in page
    BY <1>2, <1>3, <1>5, <2>1
  <2>2. CASE listed[i] = 1
    <3>1. PICK j \in page : NextCursor(rows) = Position(j)
      BY <1>3, <1>5
    <3>2. Behind(Position(j), cursor) /\ ~Behind(Position(i), cursor) /\ cursor \in Positions
      BY <1>2, <1>3, <2>2
    <3> QED
      BY <1>2, <1>3, <2>2, <3>1, <3>2, PositionType, BehindOrders
  <2> QED
    BY <1>5, <2>1, <2>2
<1>6. walk'[s].pc = "walking" =>
        /\ NextCursor(rows) # None
        /\ walk'[s].project = project /\ walk'[s].cursor = NextCursor(rows)
  BY <1>1 DEF Turned
<1>7. issues' = issues /\ \A t \in Searchers \ {s} : walk'[t] = walk[t]
  BY <1>1 DEF Turned, vars
<1>8. \A i \in Issues : Position(i)' = Position(i)
  BY <1>7 DEF Position
<1> HIDE DEF page, rows
<1> QED
  BY <1>4, <1>5, <1>6, <1>7, <1>8 DEF ListedBehindUs

LEMMA ListedNext ==
  /\ TypeInv /\ Fresh /\ Numbered /\ WalksTyped /\ ListedBehindUs /\ [SearchNext]_searchVars
  => ListedBehindUs'
<1> SUFFICES ASSUME TypeInv, Fresh, Numbered, WalksTyped, ListedBehindUs,
                    [SearchNext]_searchVars
             PROVE  ListedBehindUs'
  OBVIOUS
<1>a. \A s \in Searchers : walk[s] \in Walks
  BY DEF WalksTyped
<1>1. CASE Watch
  <2> SUFFICES ASSUME NEW s \in Searchers, NEW i \in Issues,
                      walk[s].pc = "walking", walk[s].listed[i] = 1
               PROVE  /\ issues'[i].project = walk[s].project
                      /\ ~Behind(Position(i)', walk[s].cursor)
    BY <1>1, WatchKeeps DEF ListedBehindUs, WalksTyped
  <2>1. /\ walk[s].project \in Projects /\ walk[s].cursor \in Positions
        /\ issues[i].project = walk[s].project /\ ~Behind(Position(i), walk[s].cursor)
    BY <1>a DEF WalksTyped, ListedBehindUs, Walks
  <2>2. /\ issues'[i].project = issues[i].project
        /\ issues'[i].sequence = issues[i].sequence
        /\ issues'[i].updated_at >= issues[i].updated_at
    BY <2>1, RowsAge, DeskStep, NullAssumption
  <2>3. Position(i) \in Positions /\ Position(i)' \in Positions
    <3>1. TypeInv'
      BY TypeNext, DeskStep
    <3> QED
      BY <3>1 DEF Position, Positions, TypeInv, TypeOK, IssueRows
  <2>4. /\ Position(i)'.updated_at >= Position(i).updated_at
        /\ Position(i)'.sequence = Position(i).sequence
    BY <2>2 DEF Position
  <2> QED
    BY <2>1, <2>2, <2>3, <2>4, AgeingIsNotBehind
<1>2. CASE UNCHANGED searchVars
  BY <1>2 DEF searchVars, vars, ListedBehindUs, Position
<1>3. ASSUME UNCHANGED vars, NEW s \in Searchers, FirstPage(s) PROVE ListedBehindUs'
  <2>1. PICK p \in Projects, query \in Queries, at \in 0..now :
          /\ Page(s, p, query, None, at, NoWalk.listed, Candidates(p, query, None, at))
          /\ NoWalk.listed \in [Issues -> Nat]
          /\ Candidates(p, query, None, at) \in SUBSET Issues
    BY <1>3, FirstPageFits
  <2>2. \A i \in Issues : NoWalk.listed[i] = 0
    BY NoWalkType
  <2> QED
    BY <1>3, <2>1, <2>2, PageListsOnce
<1>4. ASSUME UNCHANGED vars, NEW s \in Searchers, NextPage(s) PROVE ListedBehindUs'
  <2>1. PICK at \in walk[s].since..now :
          Page(s, walk[s].project, walk[s].query, walk[s].cursor, at, walk[s].listed,
               walk[s].still)
    BY <1>4, NextPageFits
  <2>2. /\ walk[s].pc = "walking" /\ walk[s].cursor # None
        /\ walk[s].project \in Projects /\ walk[s].query \in Queries
        /\ walk[s].listed \in [Issues -> Nat] /\ walk[s].still \in SUBSET Issues
        /\ walk[s].cursor \in Positions \cup {None}
    BY <1>a, <1>4, NextPageFits DEF Walks
  <2>3. \A i \in Issues :
          /\ walk[s].listed[i] <= 1
          /\ walk[s].listed[i] = 1 => /\ issues[i].project = walk[s].project
                                      /\ ~Behind(Position(i), walk[s].cursor)
    BY <2>2 DEF ListedBehindUs
  <2> QED
    BY <1>4, <2>1, <2>2, <2>3, PageListsOnce
<1>5. ASSUME UNCHANGED vars, NEW s \in Searchers, GiveUp(s) PROVE ListedBehindUs'
  <2>1. walk' = [walk EXCEPT ![s] = NoWalk] /\ issues' = issues
    BY <1>5 DEF GiveUp, vars
  <2> QED
    BY <2>1, NoWalkType DEF WalksTyped, ListedBehindUs, Position
<1> QED
  BY <1>1, <1>2, <1>3, <1>4, <1>5, WalkStep

LEMMA ListedAlways ==
  ASSUME Ahead = 0 PROVE SearchSpec => [](TypeInv /\ Fresh) /\ []ListedBehindUs
BY DeskAlways, DeskUsed, FreshAlways, WalksTypedAlways, ListedInit, ListedNext, PTL
DEF SearchSpec

\* A walk lists no issue twice, for any number of issues, handlers and
\* walkers: a listed issue is not behind the cursor, and an update takes it
\* further away, since it is never dated back.  It needs callers that send
\* only versions they have seen.
THEOREM ListsNoneTwice == ASSUME Ahead = 0 PROVE SearchSpec => []NoneListedTwice
<1>1. ListedBehindUs => NoneListedTwice
  BY DEF ListedBehindUs, NoneListedTwice
<1> QED
  BY <1>1, ListedAlways, PTL

-----------------------------------------------------------------------------
(* None forgotten *)

\* What a walk still has to list, it will find: the row is behind the cursor
\* and will match whenever the next page is selected.
StillToCome(s, i) ==
  /\ issues[i].project = walk[s].project
  /\ Behind(Position(i), walk[s].cursor)
  /\ \A at \in Nat : at >= walk[s].since => Matches(walk[s].query, i, at)

NoneForgotten ==
  \A s \in Searchers :
    Lasting(walk[s].query) =>
      \A i \in walk[s].still :
        /\ walk[s].pc = "done" => walk[s].listed[i] = 1
        /\ walk[s].pc = "walking" => walk[s].listed[i] = 1 \/ StillToCome(s, i)

LEMMA ForgottenInit == SearchInit => NoneForgotten
BY NoWalkType DEF SearchInit, NoneForgotten

LEMMA MatchesLast ==
  ASSUME TypeInv, NEW query \in Queries, Lasting(query), NEW i \in Issues,
         NEW at \in Nat, NEW later \in Nat, later >= at, Matches(query, i, at)
  PROVE  Matches(query, i, later)
<1> SUFFICES ASSUME NEW clause \in query PROVE Meets(clause, i, later)
  BY DEF Matches
<1>1. clause \in Clauses /\ Meets(clause, i, at)
  BY SearchAssumption DEF AllQueries, Matches
<1>2. CASE clause.field # "sla"
  BY <1>1, <1>2 DEF Clauses, Meets
<1>3. CASE clause.field = "sla"
  <2>1. /\ Meets(clause, i, at) = SlaMatches(clause.value, sla[i], at, RiskTicks)
        /\ Meets(clause, i, later) = SlaMatches(clause.value, sla[i], later, RiskTicks)
    BY <1>3 DEF Meets
  <2>2. clause.value = "none" \/ clause.value = "breached"
    BY <1>3 DEF Lasting
  <2>3. sla[i] # None => sla[i].resolution_due \in Nat
    BY DEF TypeInv, TypeOK, SlaRows
  <2>4. BreachedQuery(sla[i], at) => BreachedQuery(sla[i], later)
    BY <2>3 DEF BreachedQuery, Runs
  <2> QED
    BY <1>1, <2>1, <2>2, <2>4 DEF SlaMatches
<1> QED
  BY <1>2, <1>3

\* While its row stands, an issue keeps what the lasting sla queries look at.
LEMMA SlaStands ==
  ASSUME TypeInv, [Next]_vars, NEW i \in Issues, issues'[i] = issues[i]
  PROVE  /\ sla'[i] = None <=> sla[i] = None
         /\ sla[i] # None =>
              /\ sla'[i].resolution_due = sla[i].resolution_due
              /\ sla'[i].resolved_at = sla[i].resolved_at
              /\ sla'[i].paused_at = sla[i].paused_at
<1> DEFINE Goal ==
      /\ sla'[i] = None <=> sla[i] = None
      /\ sla[i] # None =>
           /\ sla'[i].resolution_due = sla[i].resolution_due
           /\ sla'[i].resolved_at = sla[i].resolved_at
           /\ sla'[i].paused_at = sla[i].paused_at
<1>a. /\ issues \in [Issues -> IssueRows] /\ sla \in [Issues -> SlaRows(Horizon) \cup {None}]
      /\ \A c \in Callers : request[c] \in Requests
  BY DEF TypeInv, TypeOK
<1>1. ASSUME NEW c \in Callers, CommitCreate(c) PROVE Goal
  <2>1. PICK j \in Issues :
          /\ ~Exists(j) /\ issues'[j].status = "open"
          /\ \A k \in Issues \ {j} : sla'[k] = sla[k]
    BY <1>1, <1>a DEF CommitCreate, OpenedRow
  <2> QED
    BY <2>1 DEF Exists
<1>2. ASSUME NEW c \in Callers, CommitTransition(c) PROVE Goal
  <2> DEFINE q == request[c]
  <2>1. q.issue \in Issues /\ q.rule \in Rules /\ q.at \in 0..Horizon
    BY <1>2, <1>a, RequestKinds DEF CommitTransition
  <2>2. /\ issues' = [issues EXCEPT ![q.issue] = MovedRow(issues[q.issue], q.rule, q.at)]
        /\ \A k \in Issues \ {q.issue} : sla'[k] = sla[k]
    BY <1>2, <1>a DEF CommitTransition
  <2>3. issues'[q.issue].version = issues[q.issue].version + 1
        /\ issues[q.issue].version \in Nat
    BY <1>a, <2>1, <2>2, MovedRowType DEF IssueRows
  <2> QED
    BY <2>2, <2>3
<1>3. ASSUME NEW c \in Callers, CommitComment(c) PROVE Goal
  <2> DEFINE q == request[c]
  <2>1. /\ q.issue \in Issues
        /\ sla' = [sla EXCEPT ![q.issue] =
             IF sla[q.issue] # None /\ FirstResponse(RoleOf[c], q.internal)
               THEN RespondedSla(sla[q.issue], q.at) ELSE sla[q.issue]]
    BY <1>3, <1>a, RequestKinds DEF CommitComment
  <2>2. \A at : /\ RespondedSla(sla[i], at).resolution_due = sla[i].resolution_due
                /\ RespondedSla(sla[i], at).resolved_at = sla[i].resolved_at
                /\ RespondedSla(sla[i], at).paused_at = sla[i].paused_at
    BY DEF RespondedSla
  <2>3. sla'[i] = sla[i] \/ (sla[i] # None /\ sla'[i] = RespondedSla(sla[i], q.at))
    BY <1>a, <2>1
  <2>4. q.at \in 0..Horizon
    BY <1>3, <1>a, RequestKinds DEF CommitComment
  <2>5. sla[i] # None => RespondedSla(sla[i], q.at) # None
    BY <1>a, <2>4, RespondedSlaType, SlaRowsNotNone
  <2> QED
    BY <2>2, <2>3, <2>5
<1>4. CASE UNCHANGED sla
  BY <1>4
<1> QED
  BY <1>1, <1>2, <1>3, <1>4
  DEF Next, Submit, Commit, Tick, ConfigureSla, SubmitCreate, SubmitTransition,
      SubmitAssign, SubmitComment, ReplayCreate, CommitAssign, Conflict, Drop, vars

LEMMA MatchesStand ==
  ASSUME TypeInv, [Next]_vars, NEW query \in Queries, Lasting(query), NEW i \in Issues,
         issues'[i] = issues[i], NEW at \in Nat, Matches(query, i, at)
  PROVE  Matches(query, i, at)'
<1> SUFFICES ASSUME NEW clause \in query PROVE Meets(clause, i, at)'
  BY DEF Matches
<1>1. clause \in Clauses /\ Meets(clause, i, at)
  BY SearchAssumption DEF AllQueries, Matches
<1>2. CASE clause.field # "sla"
  BY <1>1, <1>2 DEF Clauses, Meets
<1>3. CASE clause.field = "sla"
  <2>1. /\ Meets(clause, i, at) = SlaMatches(clause.value, sla[i], at, RiskTicks)
        /\ Meets(clause, i, at)' = SlaMatches(clause.value, sla'[i], at, RiskTicks)
    BY <1>3 DEF Meets
  <2>2. clause.value = "none" \/ clause.value = "breached"
    BY <1>3 DEF Lasting
  <2> QED
    BY <1>1, <2>1, <2>2, SlaStands DEF SlaMatches, BreachedQuery, Runs
<1> QED
  BY <1>2, <1>3

\* Once a page is turned, what was owed is listed, or is found by a later page.
LEMMA PageForgetsNone ==
  ASSUME TypeInv, Numbered, WalksTyped, NoneForgotten, UNCHANGED vars,
         NEW s \in Searchers, NEW project \in Projects, NEW query \in Queries,
         NEW cursor, NEW at \in Nat, at <= now,
         NEW listed \in [Issues -> Nat], NEW still \in SUBSET Issues,
         \A i \in Issues :
           /\ listed[i] <= 1
           /\ i \in Candidates(project, query, cursor, at) => listed[i] = 0,
         Lasting(query) =>
           \A i \in still : listed[i] = 1 \/ i \in Candidates(project, query, cursor, at),
         Page(s, project, query, cursor, at, listed, still)
  PROVE  NoneForgotten'
<1> DEFINE rows == Candidates(project, query, cursor, at)
           page == Newest(rows, Limit)
<1>1. Turned(s, project, query, cursor, at, listed, still)
  BY PageTurns DEF WalksTyped
<1>2. /\ rows \subseteq Issues
      /\ \A i \in rows : issues[i].project = project /\ Matches(query, i, at)
  BY DEF Candidates
<1>3. /\ page \subseteq rows
      /\ NextCursor(rows) = None => page = rows
      /\ NextCursor(rows) # None =>
           \A i \in rows \ page : Behind(Position(i), NextCursor(rows))
  <2> HIDE DEF rows
  <2> QED
    BY <1>2, PageCuts
<1>4. /\ issues' = issues /\ sla' = sla /\ now' = now
      /\ \A t \in Searchers \ {s} : walk'[t] = walk[t]
  BY <1>1 DEF Turned, vars
<1>5. now \in Nat
  BY BoundAssumption DEF TypeInv, TypeOK
<1>6. ASSUME Lasting(query), NEW i \in still
      PROVE  /\ walk'[s].pc = "done" => walk'[s].listed[i] = 1
             /\ walk'[s].pc = "walking" => walk'[s].listed[i] = 1 \/ StillToCome(s, i)'
  <2>1. i \in Issues /\ (listed[i] = 1 \/ i \in rows)
    BY <1>6
  <2>2. walk'[s].listed[i] = IF i \in page THEN listed[i] + 1 ELSE listed[i]
    BY <1>1, <2>1 DEF Turned
  <2>3. i \in page => walk'[s].listed[i] = 1
    BY <1>2, <1>3, <2>1, <2>2
  <2>4. i \notin rows => walk'[s].listed[i] = 1
    BY <1>3, <2>1, <2>2
  <2>5. ASSUME i \in rows, i \notin page, NextCursor(rows) # None PROVE StillToCome(s, i)'
    <3>1. Behind(Position(i), NextCursor(rows)) /\ issues[i].project = project
      BY <1>2, <1>3, <2>5
    <3>2. \A later \in Nat : later >= now => Matches(query, i, later)
      BY <1>2, <1>5, <1>6, <2>1, <2>5, MatchesLast
    <3>3. /\ walk'[s].project = project /\ walk'[s].query = query
          /\ walk'[s].cursor = NextCursor(rows) /\ walk'[s].since = now
      BY <1>1 DEF Turned
    <3>4. Position(i)' = Position(i) /\ issues'[i].project = issues[i].project
      BY <1>4 DEF Position
    <3>5. \A later \in Nat : Matches(walk[s].query, i, later)' = Matches(query, i, later)
      BY <1>4, <3>3 DEF Matches, Meets
    <3> HIDE DEF rows
    <3> QED
      BY <3>1, <3>2, <3>3, <3>4, <3>5 DEF StillToCome
  <2>6. walk'[s].pc = "walking" <=> NextCursor(rows) # None
    BY <1>1 DEF Turned
  <2>7. walk'[s].pc = "done" => NextCursor(rows) = None
    BY <1>1 DEF Turned
  <2> HIDE DEF rows, page
  <2> QED
    BY <1>3, <2>3, <2>4, <2>5, <2>6, <2>7
<1>7. ASSUME NEW t \in Searchers, t # s, Lasting(walk'[t].query), NEW i \in walk'[t].still
      PROVE  /\ walk'[t].pc = "done" => walk'[t].listed[i] = 1
             /\ walk'[t].pc = "walking" => walk'[t].listed[i] = 1 \/ StillToCome(t, i)'
  <2>1. walk'[t] = walk[t]
    BY <1>4, <1>7
  <2>2. StillToCome(t, i) => StillToCome(t, i)'
    BY <1>4, <2>1 DEF StillToCome, Position, Matches, Meets
  <2> QED
    BY <1>7, <2>1, <2>2 DEF NoneForgotten
<1>8. walk'[s].query = query /\ walk'[s].still = still
  BY <1>1 DEF Turned
<1> HIDE DEF page, rows
<1> QED
  BY <1>6, <1>7, <1>8 DEF NoneForgotten

LEMMA ForgottenNext ==
  /\ TypeInv /\ Numbered /\ WalksTyped /\ ListedBehindUs /\ NoneForgotten
  /\ [SearchNext]_searchVars
  => NoneForgotten'
<1> SUFFICES ASSUME TypeInv, Numbered, WalksTyped, ListedBehindUs, NoneForgotten,
                    [SearchNext]_searchVars
             PROVE  NoneForgotten'
  OBVIOUS
<1>a. \A s \in Searchers : walk[s] \in Walks
  BY DEF WalksTyped
<1>b. now \in Nat
  BY BoundAssumption DEF TypeInv, TypeOK
<1>1. CASE Watch
  <2> SUFFICES ASSUME NEW s \in Searchers, Lasting(walk[s].query),
                      NEW i \in walk[s].still, issues'[i] = issues[i],
                      walk[s].pc = "walking", StillToCome(s, i)
               PROVE  StillToCome(s, i)'
    BY <1>1, WatchKeeps DEF NoneForgotten, WalksTyped
  <2>1. i \in Issues /\ walk[s].query \in Queries
    BY <1>a DEF WalksTyped, Walks
  <2>2. /\ walk'[s].project = walk[s].project /\ walk'[s].cursor = walk[s].cursor
        /\ walk'[s].since = walk[s].since /\ walk'[s].query = walk[s].query
    BY <1>1, WatchKeeps DEF WalksTyped
  <2>3. Position(i)' = Position(i)
    BY DEF Position
  <2> DEFINE query == walk[s].query
  <2>4. \A at \in Nat : Matches(walk[s].query, i, at) => Matches(walk[s].query, i, at)'
    <3> TAKE at \in Nat
    <3>1. PICK q \in Queries : q = walk[s].query
      BY <2>1
    <3>2. Matches(q, i, at) => Matches(q, i, at)'
      BY <2>1, <3>1, DeskStep, MatchesStand
    <3>3. Matches(walk[s].query, i, at)' = Matches(q, i, at)'
      BY <2>2, <3>1 DEF Matches, Meets
    <3> QED
      BY <3>1, <3>2, <3>3
  <2> QED
    BY <2>2, <2>3, <2>4 DEF StillToCome
<1>2. CASE UNCHANGED searchVars
  BY <1>2 DEF searchVars, vars, NoneForgotten, StillToCome, Position, Matches, Meets
<1>3. ASSUME UNCHANGED vars, NEW s \in Searchers, FirstPage(s) PROVE NoneForgotten'
  <2>1. PICK p \in Projects, query \in Queries, at \in 0..now :
          /\ Page(s, p, query, None, at, NoWalk.listed, Candidates(p, query, None, at))
          /\ NoWalk.listed \in [Issues -> Nat]
          /\ Candidates(p, query, None, at) \in SUBSET Issues
    BY <1>3, FirstPageFits
  <2>2. \A i \in Issues : NoWalk.listed[i] = 0
    BY NoWalkType
  <2>3. at \in Nat /\ at <= now
    BY <1>b
  <2> QED
    BY <1>3, <2>1, <2>2, <2>3, PageForgetsNone
<1>4. ASSUME UNCHANGED vars, NEW s \in Searchers, NextPage(s) PROVE NoneForgotten'
  <2>1. PICK at \in walk[s].since..now :
          Page(s, walk[s].project, walk[s].query, walk[s].cursor, at, walk[s].listed,
               walk[s].still)
    BY <1>4, NextPageFits
  <2>2. /\ walk[s].pc = "walking" /\ walk[s].cursor # None
        /\ walk[s].project \in Projects /\ walk[s].query \in Queries
        /\ walk[s].listed \in [Issues -> Nat] /\ walk[s].still \in SUBSET Issues
        /\ walk[s].since \in 0..Horizon
    BY <1>a, <1>4, NextPageFits DEF Walks
  <2>3. at \in Nat /\ at <= now /\ at >= walk[s].since
    BY <1>b, <2>2, BoundAssumption
  <2> DEFINE rows == Candidates(walk[s].project, walk[s].query, walk[s].cursor, at)
  <2>4. \A i \in Issues : walk[s].listed[i] <= 1 /\ (i \in rows => walk[s].listed[i] = 0)
    <3> TAKE i \in Issues
    <3>1. i \in rows => Behind(Position(i), walk[s].cursor)
      BY <2>2 DEF Candidates
    <3>2. walk[s].listed[i] \in Nat /\ walk[s].listed[i] <= 1
      BY <2>2 DEF ListedBehindUs
    <3>3. walk[s].listed[i] = 1 => ~Behind(Position(i), walk[s].cursor)
      BY <2>2 DEF ListedBehindUs
    <3> QED
      BY <3>1, <3>2, <3>3
  <2>5. Lasting(walk[s].query) =>
          \A i \in walk[s].still : walk[s].listed[i] = 1 \/ i \in rows
    BY <2>2, <2>3 DEF NoneForgotten, StillToCome, Candidates
  <2> QED
    BY <1>4, <2>1, <2>2, <2>3, <2>4, <2>5, PageForgetsNone
<1>5. ASSUME UNCHANGED vars, NEW s \in Searchers, GiveUp(s) PROVE NoneForgotten'
  <2>1. walk' = [walk EXCEPT ![s] = NoWalk] /\ issues' = issues /\ sla' = sla
    BY <1>5 DEF GiveUp, vars
  <2> QED
    BY <2>1, NoWalkType DEF WalksTyped, NoneForgotten, StillToCome, Position, Matches, Meets
<1> QED
  BY <1>1, <1>2, <1>3, <1>4, <1>5, WalkStep

\* A walk that has come to its end has listed every issue that matched at its
\* beginning and that nobody has changed since, for any limit, any number of
\* issues and any number of them with one timestamp: what a page leaves out is
\* behind its last row, and a row that nobody changes stays there.
THEOREM ListsAllUntouched == ASSUME Ahead = 0 PROVE SearchSpec => []UntouchedIsListed
<1>1. NoneForgotten => UntouchedIsListed
  BY DEF NoneForgotten, UntouchedIsListed
<1> QED
  BY <1>1, DeskAlways, WalksTypedAlways, ListedAlways, ForgottenInit, ForgottenNext, PTL
  DEF SearchSpec

-----------------------------------------------------------------------------
(* The readers of an SLA row *)

\* A row that runs answers one sla query, the one its target falls in; a row
\* that does not run answers none.
LEMMA OneQuery ==
  ASSUME NEW row \in SlaRows(Horizon), NEW at \in Nat
  PROVE  Cardinality({q \in SlaQueries : SlaMatches(q, row, at, RiskTicks)})
           = IF Runs(row) THEN 1 ELSE 0
<1> DEFINE answered == {q \in SlaQueries : SlaMatches(q, row, at, RiskTicks)}
<1>a. row.resolution_due \in Nat /\ RiskTicks \in Nat
  BY SearchAssumption DEF SlaRows
<1>b. /\ "breached" \in answered <=> Runs(row) /\ row.resolution_due < at
      /\ "at_risk" \in answered <=>
           Runs(row) /\ row.resolution_due >= at /\ row.resolution_due <= at + RiskTicks
      /\ "on_track" \in answered <=> Runs(row) /\ row.resolution_due > at + RiskTicks
  BY DEF SlaMatches, SlaQueries, BreachedQuery, AtRiskQuery, OnTrackQuery
<1>c. answered \subseteq {"breached", "at_risk", "on_track"}
  BY DEF SlaQueries
<1> HIDE DEF answered
<1>1. CASE ~Runs(row)
  <2>1. answered = {}
    BY <1>1, <1>b, <1>c
  <2> QED
    BY <1>1, <2>1, FS_EmptySet DEF answered
<1>2. CASE Runs(row)
  <2>1. \E q : answered = {q}
    <3>1. CASE row.resolution_due < at
      <4>1. "breached" \in answered /\ "at_risk" \notin answered /\ "on_track" \notin answered
        BY <1>2, <1>a, <1>b, <3>1
      <4>2. answered = {"breached"}
        BY <1>c, <4>1
      <4> QED
        BY <4>2
    <3>2. CASE row.resolution_due >= at /\ row.resolution_due <= at + RiskTicks
      <4>1. "breached" \notin answered /\ "at_risk" \in answered /\ "on_track" \notin answered
        BY <1>2, <1>a, <1>b, <3>2
      <4>2. answered = {"at_risk"}
        BY <1>c, <4>1
      <4> QED
        BY <4>2
    <3>3. CASE row.resolution_due > at + RiskTicks
      <4>1. "breached" \notin answered /\ "at_risk" \notin answered /\ "on_track" \in answered
        BY <1>2, <1>a, <1>b, <3>3
      <4>2. answered = {"on_track"}
        BY <1>c, <4>1
      <4> QED
        BY <4>2
    <3>4. \/ row.resolution_due < at
          \/ row.resolution_due >= at /\ row.resolution_due <= at + RiskTicks
          \/ row.resolution_due > at + RiskTicks
      BY <1>a
    <3> QED
      BY <3>1, <3>2, <3>3, <3>4, Zenon
  <2>2. PICK q : answered = {q}
    BY <2>1
  <2>3. Cardinality(answered) = 1
    BY <2>2, FS_Singleton
  <2> QED
    BY <1>2, <2>3 DEF answered
<1> QED
  BY <1>1, <1>2

\* A row runs while its issue is worked on and was never resolved, and does not
\* run once it was resolved, or went to wait: the stamp is in the row if a
\* resolution is in the log, the pause if a wait is at its end.
LEMMA RunsOnClock ==
  ASSUME TypeInv, SlaRight, WaitsTold, StampsTold, NEW i \in Issues, sla[i] # None
  PROVE  /\ issues[i].status # Waiting /\ ~WasResolved(i) => Runs(sla[i])
         /\ WentToWait(i) \/ WasResolved(i) => ~Runs(sla[i])
<1>1. /\ sla[i].paused_at # None => issues[i].status = Waiting
      /\ WentToWait(i) => sla[i].paused_at # None
  BY DEF SlaRight, Stopped, WaitsTold
<1>2. sla[i].resolved_at # None <=> WasResolved(i)
  BY DEF StampsTold
<1> QED
  BY <1>1, <1>2 DEF Runs

\* The search language, the gauges and get_sla_state agree on every row that the
\* desk can come to, for every workflow and policy, any number of handlers and
\* whatever versions callers send: three pieces of code read it, and what they
\* have to agree on is what the desk keeps true of it.
THEOREM ReadersAgree == SearchSpec => []SlaReadersAgree
<1>1. ASSUME TypeInv, SlaRight, WaitsTold, StampsTold PROVE SlaReadersAgree
  <2> SUFFICES ASSUME NEW i \in Issues, sla[i] # None
               PROVE  LET row == sla[i]
                          matched == {q \in SlaQueries : SlaMatches(q, row, now, RiskTicks)}
                      IN  /\ issues[i].status # Waiting /\ ~WasResolved(i) =>
                               /\ Cardinality(matched) = 1
                               /\ "breached" \in matched <=> ResolutionBreached(row, now)
                               /\ FirstBreachGauge(row, now) <=>
                                    row.responded_at = None /\ FirstBreached(row, now)
                          /\ WentToWait(i) \/ WasResolved(i) => matched = {}
                          /\ ResolutionBreachGauge(row, now) <=> "breached" \in matched
                          /\ AtRiskGauge(row, now, RiskTicks) <=> "at_risk" \in matched
    BY DEF SlaReadersAgree
  <2> DEFINE row == sla[i]
             matched == {q \in SlaQueries : SlaMatches(q, row, now, RiskTicks)}
  <2>1. row \in SlaRows(Horizon) /\ now \in Nat
    BY <1>1, BoundAssumption DEF TypeInv, TypeOK
  <2>2. /\ issues[i].status # Waiting /\ ~WasResolved(i) => Runs(row)
        /\ WentToWait(i) \/ WasResolved(i) => ~Runs(row)
    BY <1>1, RunsOnClock
  <2>3. row.first_due \in Nat /\ row.resolution_due \in Nat
    BY <2>1 DEF SlaRows
  <2>4. /\ "breached" \in matched <=> BreachedQuery(row, now)
        /\ "at_risk" \in matched <=> AtRiskQuery(row, now, RiskTicks)
    BY DEF SlaQueries, SlaMatches
  <2>5. ~Runs(row) => matched = {}
    BY DEF SlaQueries, SlaMatches, BreachedQuery, AtRiskQuery, OnTrackQuery
  <2>6. Runs(row) => Cardinality(matched) = 1
    BY <2>1, OneQuery
  <2>7. Runs(row) =>
          /\ BreachedQuery(row, now) <=> ResolutionBreached(row, now)
          /\ FirstBreachGauge(row, now) <=>
               row.responded_at = None /\ FirstBreached(row, now)
    BY <2>1, <2>3
    DEF BreachedQuery, Runs, ResolutionBreached, FirstBreachGauge, FirstBreached,
        Reference, Coalesce
  <2>8. /\ ResolutionBreachGauge(row, now) <=> BreachedQuery(row, now)
        /\ AtRiskGauge(row, now, RiskTicks) <=> AtRiskQuery(row, now, RiskTicks)
    BY DEF ResolutionBreachGauge, BreachedQuery, AtRiskGauge, AtRiskQuery, Runs
  <2> HIDE DEF matched, row
  <2>9. issues[i].status # Waiting /\ ~WasResolved(i) =>
          /\ Cardinality(matched) = 1
          /\ "breached" \in matched <=> ResolutionBreached(row, now)
          /\ FirstBreachGauge(row, now) <=>
               row.responded_at = None /\ FirstBreached(row, now)
    BY <2>2, <2>4, <2>6, <2>7
  <2>10. WentToWait(i) \/ WasResolved(i) => matched = {}
    BY <2>2, <2>5
  <2>11. /\ ResolutionBreachGauge(row, now) <=> "breached" \in matched
         /\ AtRiskGauge(row, now, RiskTicks) <=> "at_risk" \in matched
    BY <2>4, <2>8
  <2> USE DEF matched, row
  <2> QED
    BY <2>9, <2>10, <2>11
<1> QED
  BY <1>1, DeskUsed, WaitsAlways, SlaRightAlways, StampsAlways, PTL
=============================================================================
