------------------------------ MODULE MCBTree ------------------------------
(* Model-checking instance of BTree: small key sets and page budgets.      *)
EXTENDS BTree

\* Seven keys: with Max = 4 enough for three leaf splits, a root split into
\* a third level, and deletes that bring a leaf down to one entry.
MCKeys == 1 .. 7

\* Ten keys, inserted only: enough to split a leaf two levels below the root.
MCKeysDeep == 1 .. 10

\* Clients that only insert (the growth phase of database_test.go).
InsertOnlySpec == Init /\ [][\E k \in Keys : IndexInsert(k)]_vars
=============================================================================
