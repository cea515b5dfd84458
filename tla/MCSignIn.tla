------------------------------ MODULE MCSignIn ------------------------------
(* Small instances of SignIn: a unit of time is Worker's leeway, a minute.  *)
EXTENDS SignIn, TLC

\* BudgetApp's clock is behind or ahead by the whole leeway.
SmallSkews == {-1, 1}

\* Requests are alike, and so are isolates.
Alike == Permutations(Threads) \cup Permutations(Isolates)

=============================================================================
