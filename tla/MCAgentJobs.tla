----------------------------- MODULE MCAgentJobs -----------------------------
(* Small instances of AgentJobs for TLC. *)
EXTENDS AgentJobs, TLC

\* Two attempts for the first job and one for the second, so that both a
\* recovered and an exhausted lease occur.
MCMaxAttempts == [j \in Jobs |-> IF j = 1 THEN 2 ELSE 1]

\* Calls are interchangeable.
MCSymmetry == Permutations(Calls)
=============================================================================
