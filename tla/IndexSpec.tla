----------------------------- MODULE IndexSpec -----------------------------
(***************************************************************************)
(* What an index promises its callers (src/core/indexes, IdxQuery):        *)
(* InsertEntry adds a key that is not there, DeleteEntry removes one, and  *)
(* GetEntries finds exactly the keys present.  The state is the set of     *)
(* keys GetEntries finds.                                                  *)
(***************************************************************************)
CONSTANT Keys

VARIABLE present   \* the keys a GetEntries call finds

Init == present = {}

Add(k) == k \notin present /\ present' = present \cup {k}

Remove(k) == k \in present /\ present' = present \ {k}

Next == \E k \in Keys : Add(k) \/ Remove(k)

Spec == Init /\ [][Next]_present
=============================================================================
