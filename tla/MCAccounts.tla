----------------------------- MODULE MCAccounts -----------------------------
(* Small instances of Accounts; members and threads are model values.      *)
EXTENDS Accounts

=============================================================================
