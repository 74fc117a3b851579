---------------------------- MODULE MCPageStore ----------------------------
(* Model-checking instance of PageStore.                                   *)
EXTENDS PageStore

\* Explore until Total reaches the page budget.
TotalBound == hdr.total <= MaxPages
=============================================================================
