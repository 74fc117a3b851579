---------------------------- MODULE MCFixedSpace ----------------------------
(* The file table's InsertFile and DeleteFile over the fixed-slot FSM,     *)
(* with pages of 3 slots (56 in the code) and an FSM leaf of 3 entries     *)
(* (310 in the code).  Dirty grows by one each time a page's last          *)
(* advertised slot is taken, and only CleanAndInsert resets it, so the     *)
(* state constraint DirtyBound caps it.                                    *)
EXTENDS FixedSpace

MaxDirty == 3
DirtyBound == leaf.d <= MaxDirty

CONSTANTS h1, h2, h3, h5, jpeg, png, s1, s2, s3

\* Three files with keys of their own, so three can be stored at once, and
\* a fourth whose FTIME key (time) is the first's while its FTYPE key
\* (type, time) is free, so NewFileEntry fails after its first insert.
MCFiles ==
    { [h |-> h1, ty |-> jpeg, tm |-> s1],
      [h |-> h2, ty |-> png,  tm |-> s2],
      [h |-> h3, ty |-> jpeg, tm |-> s3],
      [h |-> h5, ty |-> png,  tm |-> s1] }

====
