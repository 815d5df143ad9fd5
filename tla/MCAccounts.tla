----------------------------- MODULE MCAccounts -----------------------------
\* A small instance of Accounts for TLC.
EXTENDS Accounts, TLC

AccountsSymmetry == Permutations(Requests) \cup Permutations(Tabs)
=============================================================================
