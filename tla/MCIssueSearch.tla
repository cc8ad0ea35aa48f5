---------------------------- MODULE MCIssueSearch -----------------------------
(* Values for the constants of IssueDesk and IssueSearch that a .cfg cannot write. *)
EXTENDS IssueSearch, TLC

CONSTANTS c1, c2, i1, p1

AgentAndRequester == (c1 :> "agent") @@ (c2 :> "requester")
AdminAndRequester == (c1 :> "admin") @@ (c2 :> "requester")

\* A workflow an operator may register instead of the default one: the same
\* kinds of edges with fewer states before them, so that pauses, resolutions
\* and reopenings combine within few versions, and a move from waiting to
\* waiting, which nothing forbids.
ShortRules ==
  {Rule("request_information", "open", "waiting_for_customer", AgentRoles),
   Rule("remind", "waiting_for_customer", "waiting_for_customer", AgentRoles),
   Rule("customer_replied", "waiting_for_customer", "open", PeopleRoles),
   Rule("resolve", "open", "resolved", AgentRoles),
   Rule("close", "resolved", "closed", PeopleRoles),
   Rule("reopen", "resolved", "open", PeopleRoles)}

\* One issue lives on after it was created, the others only exist.
OneLives == [i \in Issues |-> IF i = i1 THEN 2 ELSE 0]
OneLivesLonger == [i \in Issues |-> IF i = i1 THEN 4 ELSE 0]

\* Keys and payloads are interchangeable, and so are the issues that only exist.
MCSymmetry ==
  Permutations(Keys) \cup Permutations(Payloads) \cup Permutations(Issues \ {i1})

NoPolicies == {}
TwoSlaPolicies ==
  {[first_response |-> 1, resolution |-> 1], [first_response |-> 1, resolution |-> 2]}

NoQueries == {}
OpenOnly == {{[field |-> "status", among |-> {"open"}]}}
===============================================================================
