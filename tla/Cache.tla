------------------------------- MODULE Cache -------------------------------
(***************************************************************************)
(* The buffer cache of one table (src/core/cache/cache.go) as the index    *)
(* and table code drives it.  The cache is the Cache struct: the map m,    *)
(* the doubly linked list newest -> oldest (entries are named by the id    *)
(* of the page they hold, as Set is only called after a missed Get), the   *)
(* used counters, total and the sweep counter.  Each resident page object  *)
(* carries a version of its contents and its isDirty flag; disk holds the  *)
(* version of the page's bytes in the file.                                *)
(*                                                                         *)
(* Every request of the table runs on the FileTable.Run goroutine, so one  *)
(* index or row request is one step; inside it the Get and Set calls are   *)
(* composed in the order the code makes them, with the pages the request   *)
(* holds latched at that moment (InUse) passed as `pinned'.  The contents  *)
(* of a page are abstracted to a version number: which index path writes a *)
(* leaf (tombstone overwrite or not) is a choice of the request.           *)
(***************************************************************************)
EXTENDS Naturals, Sequences, FiniteSets

LOCAL SX == INSTANCE SequencesExt

CONSTANTS
    Roots,          \* root page ids, one per index of the table
    Leaves,         \* leaf page ids present in the file at startup
    Fresh,          \* ids ClaimFreePage may return to NewBItem in a split
    Rows,           \* FSM and row pages, read through GetPage
    CACHE_SIZE, CACHE_MIN, MAX_DELETE, SWEEP_INTERVAL,
    MaxVer          \* bound on the number of writes to one page

Ids == Roots \cup Leaves \cup Fresh \cup Rows
NIL == 0
USED_MAX == 5

ASSUME /\ Ids \subseteq Nat \ {NIL}
       /\ CACHE_MIN < CACHE_SIZE /\ MAX_DELETE \in Nat
       /\ SWEEP_INTERVAL \in Nat \ {0} /\ MaxVer \in Nat

VARIABLES
    st,         \* the Cache struct, the resident page objects and the file
    latest,     \* latest[p]: the version the last acknowledged write made
    tombLast,   \* tombLast[p]: that write took the tombstone-overwrite path
    claimed,    \* Fresh ids NewBItem has taken
    panicked    \* the dispatcher goroutine died on a nil dereference

vars == <<st, latest, tombLast, claimed, panicked>>

-----------------------------------------------------------------------------
(* Cache internals                                                         *)

\* Variant: the write fails and its error is ignored; isDirty is cleared.
FlushLost(s, n) == IF s.dirty[n] THEN [s EXCEPT !.dirty[n] = FALSE] ELSE s

\* Flush of a dirty page before eviction (BTreeLeaf.Flush, BTreeNode.Flush,
\* Page.Flush): the bytes reach the file and isDirty is cleared.
Flush(s, n) ==
    IF s.dirty[n] THEN [s EXCEPT !.disk[n] = s.ver[n], !.dirty[n] = FALSE]
    ELSE s

\* delete(c.m, id), unlink the entry, return it to the pool, total--.
Remove(s, n) ==
    LET p == s.prv[n]
        q == s.nxt[n]
    IN  [s EXCEPT !.nxt    = IF p # NIL THEN [@ EXCEPT ![p] = q] ELSE @,
                  !.newest = IF p # NIL THEN @ ELSE q,
                  !.prv    = IF q # NIL THEN [@ EXCEPT ![q] = p] ELSE @,
                  !.oldest = IF q # NIL THEN @ ELSE p,
                  !.m      = @ \ {n},
                  !.total  = @ - 1]

\* Variant: a hit moved to the front leaves c.oldest behind.
MoveToFrontKeepOldest(s, e) ==
    LET a == s.prv[e]
        b == s.nxt[e]
        nx == [[s.nxt EXCEPT ![a] = b] EXCEPT ![e] = s.newest]
        pv == [IF b # NIL THEN [s.prv EXCEPT ![b] = a] ELSE s.prv
                  EXCEPT ![e] = NIL]
    IN  [s EXCEPT !.nxt = nx,
                  !.prv = IF s.newest # NIL THEN [pv EXCEPT ![s.newest] = e]
                          ELSE pv,
                  !.newest = e]

\* Get's splice of a hit that is not the newest entry to the head.
MoveToFront(s, e) ==
    LET a == s.prv[e]
        b == s.nxt[e]
        nx == [[s.nxt EXCEPT ![a] = b] EXCEPT ![e] = s.newest]
        pv == [IF b # NIL THEN [s.prv EXCEPT ![b] = a] ELSE s.prv
                  EXCEPT ![e] = NIL]
    IN  [s EXCEPT !.nxt = nx,
                  !.prv = IF s.newest # NIL THEN [pv EXCEPT ![s.newest] = e]
                          ELSE pv,
                  !.oldest = IF @ = e THEN a ELSE @,
                  !.newest = e]

\* Variant: used is incremented without saturating.
GetNoCap(s, e) ==
    LET s1 == [s EXCEPT !.used[e] = @ + 1,
                        !.since   = IF @ < SWEEP_INTERVAL THEN @ + 1 ELSE @]
    IN  IF s1.newest # e THEN MoveToFront(s1, e) ELSE s1

\* Cache.Get on a hit: used saturates at 5, the hit counter grows, and the
\* entry moves to the head.  The hit counter is capped at SWEEP_INTERVAL,
\* the only value Set compares it with.
Get(s, e) ==
    LET s1 == [s EXCEPT !.used[e] = IF @ < USED_MAX THEN @ + 1 ELSE @,
                        !.since   = IF @ < SWEEP_INTERVAL THEN @ + 1 ELSE @]
    IN  IF s1.newest # e THEN MoveToFront(s1, e) ELSE s1

\* RunSweep's loop from the newest entry: used-- (a uint8); at zero an
\* unpinned page is flushed if dirty and evicted, a pinned one revived.
RECURSIVE Sweep(_, _, _)
Sweep(s, n, pinned) ==
    IF n = NIL THEN s
    ELSE LET s1 == [s EXCEPT !.used[n] = (@ + 255) % 256]
         IN  IF s1.used[n] = 0 /\ n \notin pinned
             THEN Sweep(Remove(Flush(s1, n), n), s.nxt[n], pinned)
             ELSE IF s1.used[n] = 0
             THEN Sweep([s1 EXCEPT !.used[n] = 1], s.nxt[n], pinned)
             ELSE Sweep(s1, s.nxt[n], pinned)

RunSweep(s, pinned) == Sweep([s EXCEPT !.since = 0], s.newest, pinned)

\* HandleFullCache's loop from the oldest entry while total > CACHE_MIN:
\* every unpinned page is flushed if dirty, and the first MAX_DELETE + 1 of
\* them are evicted.
RECURSIVE FullLoop(_, _, _, _)
FullLoop(s, n, cnt, pinned) ==
    IF ~(s.total > CACHE_MIN /\ n # NIL) THEN s
    ELSE IF n \in pinned THEN FullLoop(s, s.prv[n], cnt, pinned)
    ELSE IF cnt <= MAX_DELETE
    THEN FullLoop(Remove(Flush(s, n), n), s.prv[n], cnt + 1, pinned)
    ELSE FullLoop(Flush(s, n), s.prv[n], cnt, pinned)

HandleFullCache(s, pinned) == FullLoop(s, s.oldest, 0, pinned)

\* Variant: HandleFullCache only when total exceeds CACHE_SIZE.
FullAfter(s) == s.total > CACHE_SIZE

\* Set's capacity test, after total++.
Full(s) == s.total >= CACHE_SIZE

\* Cache.Set of a page object not in the map, holding version v.  The entry
\* comes from entryPool, whose CACHE_SIZE entries are all out when total is
\* CACHE_SIZE: Get then waits forever (`wait').
Set(s, e, v, pinned) ==
    LET s1 == [s EXCEPT !.wait = @ \/ s.total >= CACHE_SIZE,
                        !.prv[e] = NIL, !.nxt[e] = s.newest,
                        !.used[e] = USED_MAX, !.m = @ \cup {e},
                        !.ver[e] = v, !.dirty[e] = FALSE]
        s2 == IF s.newest # NIL THEN [s1 EXCEPT !.prv[s.newest] = e] ELSE s1
        s3 == [s2 EXCEPT !.newest = e, !.total = @ + 1]
    IN  IF Full(s3) THEN HandleFullCache(s3, pinned)
        ELSE IF s3.total = 1 THEN [s3 EXCEPT !.oldest = e]
        ELSE IF s3.since >= SWEEP_INTERVAL THEN RunSweep(s3, pinned)
        ELSE s3

-----------------------------------------------------------------------------
(* The callers                                                             *)

\* LoadItem / LoadLeaf / GetPage: a hit, or the page read from the file
\* into a pool buffer and Set.
Load(s, p, pinned) ==
    IF p \in s.m THEN Get(s, p) ELSE Set(s, p, s.disk[p], pinned)

\* A write through a page object the request holds.  An object evicted
\* earlier in the request is no longer in the cache: the write is lost.
\* isDirty is set unless the write is InsertEntry's tombstone overwrite.
Write(s, p, v, tomb) ==
    IF p \in s.m
    THEN [s EXCEPT !.ver[p] = v, !.dirty[p] = IF tomb THEN @ ELSE TRUE]
    ELSE s

\* IdxQuery.GetRoot with a non-zero root id: a hit is returned; on a miss
\* the page is read and Set into a variable that shadows `root', and nil is
\* returned, which SearchKeys and GetParent dereference.
GetRoot(s, r) ==
    IF r \in s.m THEN [s |-> Get(s, r), ok |-> TRUE]
    ELSE [s |-> Set(s, r, s.disk[r], {}), ok |-> FALSE]

EmptyCache ==
    [m |-> {}, nxt |-> [p \in Ids |-> NIL], prv |-> [p \in Ids |-> NIL],
     newest |-> NIL, oldest |-> NIL, total |-> 0,
     used |-> [p \in Ids |-> 0], since |-> 0,
     ver |-> [p \in Ids |-> 0], dirty |-> [p \in Ids |-> FALSE],
     disk |-> [p \in Ids |-> 0], wait |-> FALSE]

\* NewBItem and NewRootNode: Set of the new page object, then the caller
\* writes it and marks it dirty.
RECURSIVE Create(_, _)
Create(s, seq) ==
    IF seq = <<>> THEN s
    ELSE LET e == Head(seq)
         IN  Create([Set(s, e, 1, {}) EXCEPT !.dirty[e] = TRUE], Tail(seq))

\* The table after its indexes were built in this session (NewCache, then
\* the leaves and the roots above them created by splits): every page
\* created is resident and dirty, nothing has reached the file (Start
\* reads no root ids back, so a session starts with empty indexes).
Init ==
    /\ st = Create(EmptyCache, SX!SetToSortSeq(Leaves, <) \o SX!SetToSortSeq(Roots, <))
    /\ latest = [p \in Ids |-> IF p \in Roots \cup Leaves THEN 1 ELSE 0]
    /\ tombLast = [p \in Ids |-> FALSE]
    /\ claimed = {}
    /\ panicked = FALSE

TreeLeaves == Leaves \cup claimed

\* A step that ends in a panic keeps the cache effects made before it.
Crash(g) == /\ st' = g.s /\ panicked' = TRUE
            /\ UNCHANGED <<latest, tombLast, claimed>>

\* GetEntries: GetRoot, then SearchKeys loads the leaf with the root
\* read-latched.
IndexGet(r, l) ==
    /\ ~panicked
    /\ LET g == GetRoot(st, r)
       IN  IF ~g.ok THEN Crash(g)
           ELSE /\ st' = Load(g.s, l, {r})
                /\ UNCHANGED <<latest, tombLast, claimed, panicked>>

\* InsertEntry without a split (InsertAt, CleanAndInsert or the tombstone
\* overwrite) and DeleteEntry: GetRoot, SearchKeys, then the latched leaf
\* is written.
IndexWrite(r, l, tomb) ==
    /\ ~panicked
    /\ latest[l] < MaxVer
    /\ LET g == GetRoot(st, r)
           v == latest[l] + 1
       IN  IF ~g.ok THEN Crash(g)
           ELSE /\ st' = Write(Load(g.s, l, {r}), l, v, tomb)
                /\ latest' = [latest EXCEPT ![l] = v]
                /\ tombLast' = [tombLast EXCEPT ![l] = tomb]
                /\ UNCHANGED <<claimed, panicked>>

\* InsertEntry on a full leaf under the root: SearchKeys; with the leaf
\* latched GetParent runs GetRoot again and walks to the leaf; the parent
\* is latched; NewBItem Sets the new leaf n; AddKey writes the parent,
\* the split writes both leaves; AddLinkedList loads the old right
\* sibling `sib' (if any) and links it.
IndexSplit(r, l, n, sib) ==
    /\ ~panicked
    /\ n \in Fresh \ claimed
    /\ sib # l
    /\ \A p \in {l, r, n, sib} \ {NIL} : latest[p] < MaxVer
    /\ LET g1 == GetRoot(st, r)
           g2 == GetRoot(Load(g1.s, l, {r}), r)
           s1 == Set(Load(g2.s, l, {l, r}), n, 0, {l, r})
           ws == {l, r, n, sib} \ {NIL}
           nv == [p \in Ids |-> IF p \in ws THEN latest[p] + 1 ELSE latest[p]]
           s2 == Write(Write(Write(s1, r, nv[r], FALSE), l, nv[l], FALSE),
                       n, nv[n], FALSE)
       IN  IF ~g1.ok THEN Crash(g1)
           ELSE IF ~g2.ok THEN Crash(g2)
           ELSE /\ st' = IF sib = NIL THEN s2
                          ELSE Write(Load(s2, sib, {l, r, n}), sib, nv[sib], FALSE)
                /\ latest' = nv
                /\ tombLast' = [p \in Ids |-> IF p \in ws THEN FALSE ELSE tombLast[p]]
                /\ claimed' = claimed \cup {n}
                /\ UNCHANGED panicked

\* FSM.GetPage / BaseTable.GetPage of a row or free-space page.
RowGet(p) ==
    /\ ~panicked
    /\ st' = Load(st, p, {})
    /\ UNCHANGED <<latest, tombLast, claimed, panicked>>

\* After a panic the goroutine is gone and nothing changes.
Halted == panicked /\ UNCHANGED vars

Next ==
    \/ \E r \in Roots, l \in TreeLeaves :
          \/ IndexGet(r, l)
          \/ \E tomb \in BOOLEAN : IndexWrite(r, l, tomb)
          \/ \E n \in Fresh, sib \in TreeLeaves \cup {NIL} : IndexSplit(r, l, n, sib)
    \/ \E p \in Rows : RowGet(p)
    \/ Halted

Spec == Init /\ [][Next]_vars

-----------------------------------------------------------------------------
(* Properties                                                              *)

Visible(p) == IF p \in st.m THEN st.ver[p] ELSE st.disk[p]

RECURSIVE Walk(_, _, _)
Walk(s, n, k) == IF n = NIL \/ k = 0 THEN <<>> ELSE <<n>> \o Walk(s, s.nxt[n], k - 1)

\* The list read from c.newest along next pointers (at most |Ids| + 1 long,
\* so a cycle shows as a list longer than the map).
List == Walk(st, st.newest, Cardinality(Ids) + 1)

TypeOK ==
    /\ st.m \subseteq Ids
    /\ st.nxt \in [Ids -> Ids \cup {NIL}] /\ st.prv \in [Ids -> Ids \cup {NIL}]
    /\ st.newest \in Ids \cup {NIL} /\ st.oldest \in Ids \cup {NIL}
    /\ st.total \in Nat
    /\ \A p \in st.m : st.used[p] \in 1 .. USED_MAX
    /\ st.since \in 0 .. SWEEP_INTERVAL
    /\ st.ver \in [Ids -> 0 .. MaxVer] /\ st.disk \in [Ids -> 0 .. MaxVer]
    /\ st.dirty \in [Ids -> BOOLEAN] /\ st.wait \in BOOLEAN
    /\ claimed \subseteq Fresh /\ panicked \in BOOLEAN

\* The cache's list and map agree (spec invariant 5) after any sequence of
\* Get splices, Set insertions and evictions by RunSweep and
\* HandleFullCache: the list from newest holds each mapped page once and
\* nothing else, total is its length, prev pointers mirror next pointers,
\* and oldest is its last entry.
CacheListConsistent ==
    LET L == List
    IN  /\ Len(L) = st.total
        /\ Cardinality(st.m) = st.total
        /\ {L[i] : i \in 1 .. Len(L)} = st.m
        /\ \A i \in 1 .. Len(L) : st.prv[L[i]] = IF i = 1 THEN NIL ELSE L[i - 1]
        /\ st.oldest = IF L = <<>> THEN NIL ELSE L[Len(L)]

\* A write the index code marks dirty is never lost: whether the page is
\* still resident or was evicted by a sweep or a full cache, the version a
\* reader gets is the one the last such write produced.
DirtyWritesKept ==
    \A p \in Ids : ~tombLast[p] => Visible(p) = latest[p]

\* Set never waits on an empty entry pool: HandleFullCache always brings
\* total back under CACHE_SIZE before the next Set.
NoPoolWait == ~st.wait

\* Every acknowledged write is readable, the tombstone overwrite of
\* InsertEntry included.
NoLostUpdate == \A p \in Ids : Visible(p) = latest[p]

\* GetRoot never returns nil for an index whose root id is set.
RootResolved == ~panicked

====
