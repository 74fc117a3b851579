------------------------------ MODULE MCCache ------------------------------
(* The cache of one table with two indexes, scaled down from CACHE_SIZE   *)
(* 256, CACHE_MIN 25, MAX_DELETE 200, SWEEP_INTERVAL 1000 while keeping    *)
(* CACHE_SIZE - (MAX_DELETE + 1) - 3 >= CACHE_MIN: with the three pages a *)
(* split holds latched, HandleFullCache ends its eviction burst before it  *)
(* reaches the entry just Set, as it does in the code (256 - 201 - 3 = 52).     *)
EXTENDS Cache

MCRoots == {1, 2}
MCLeaves == {3, 4}
MCFresh == {5}
MCRows == {6}

====
