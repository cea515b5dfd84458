---------------------------- MODULE MCResearchApi ----------------------------
(* Small instances of ResearchApi; people and threads are model values.    *)
EXTENDS ResearchApi

\* Requests in flight are interchangeable.
Symmetry == Permutations(Threads)

CONSTANT Newcomers   \* who has no account in the beginning

\* The two others may be a whole listing of two pages, and the newcomer may come
\* while somebody is between them.
DeskInit == ResearchInit /\ \A p \in Newcomers : users[p].status = "none"

DeskSpec == DeskInit /\ [][WorkerNext]_workerVars

=============================================================================
