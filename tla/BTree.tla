------------------------------- MODULE BTree -------------------------------
(***************************************************************************)
(* The B+tree index of src/core/indexes: leaves hold sorted fixed-size     *)
(* entries (key bytes, a trailing dirty byte, a value); deletion flips the  *)
(* dirty byte into a tombstone; internal nodes hold separator keys and      *)
(* child page ids; the root page id lives in the meta page.                 *)
(*                                                                         *)
(* All index operations run on the single FileTable dispatcher goroutine    *)
(* (src/fileT/table.go Run), so one InsertEntry or DeleteEntry is one       *)
(* atomic step.  The tree is one record `db`, and every Go function that    *)
(* changes it is an operator from a record to a record, composed in the    *)
(* order the handler calls them.                                            *)
(*                                                                         *)
(* Data abstraction: an entry is [key, dirty]; the key is a small natural   *)
(* (0 stands for zeroed bytes), the value part is dropped.  Comparison is   *)
(* bytes.Compare on key||dirty, i.e. lexicographic on (key, dirty).  A      *)
(* leaf's `body` is its live region Body[0 : (N+Dirty)*entrySize]; N and    *)
(* Dirty are the numbers of clean and dirty entries in it.                  *)
(***************************************************************************)
EXTENDS Integers, Sequences, FiniteSets

SX == INSTANCE SequencesExt
FS == INSTANCE FiniteSetsExt

CONSTANTS
    Keys,       \* the keys clients insert and delete (naturals > 0)
    LeafMax,    \* leaf.Max: entries per leaf page
    NodeMax,    \* node.Max: separator keys per internal page
    MaxPages    \* bound on the page ids ClaimFreePage hands out

ASSUME Keys \subseteq Nat \ {0} /\ LeafMax >= 2 /\ NodeMax >= 2
ASSUME MaxPages \in Nat

VARIABLES
    db,         \* [pg, root, total]: index pages, meta root id, Total
    ghost,      \* keys whose insert was acknowledged and delete was not
    panicked    \* the dispatcher goroutine died on a nil dereference

vars == <<db, ghost, panicked>>

NIL == 0
\* Slack above MaxPages for the pages one insert may claim before the
\* bound on `total` is checked.
PageIds == 1 .. (MaxPages + 4)
IS_CLEAN == 0
IS_DIRTY == 1
Entry(k, d) == [key |-> k, dirty |-> d]
Entries == [key : Keys \cup {0}, dirty : {IS_CLEAN, IS_DIRTY}]
ZeroEntry == Entry(0, IS_CLEAN)
\* q.key: the search key of a query, dirty byte clear.
QKey(k) == Entry(k, IS_CLEAN)

\* bytes.Compare(a, b) on key||dirty.
Cmp(a, b) ==
    CASE a.key < b.key -> -1
      [] a.key > b.key -> 1
      [] a.dirty < b.dirty -> -1
      [] a.dirty > b.dirty -> 1
      [] OTHER -> 0

\* leaf.N and leaf.Dirty, read off the live region.
N(b) == Cardinality({i \in 1 .. Len(b) : b[i].dirty = IS_CLEAN})
Dirty(b) == Len(b) - N(b)

FreshPage == [type |-> "none", body |-> <<>>, keys |-> <<>>,
              children |-> <<>>, next |-> NIL, prev |-> NIL,
              isDead |-> FALSE]

-----------------------------------------------------------------------------
(* Searching                                                               *)

\* The loop `for i < N && bytes.Compare(q.key, Keys[i]) > 0 { i++ }`:
\* the first separator >= k (1-based), or N+1.
ChildIdx(s, p, k) ==
    LET ks == s.pg[p].keys
        ge == {i \in 1 .. Len(ks) : k <= ks[i]}
    IN  IF ge = {} THEN Len(ks) + 1 ELSE FS!Min(ge)

RECURSIVE SearchKeys(_, _, _)
SearchKeys(s, p, k) ==
    IF s.pg[p].type = "node"
    THEN SearchKeys(s, s.pg[p].children[ChildIdx(s, p, k)], k)
    ELSE p

\* The binary search of BinSearchBody on 0-based low/high; `pos` is the
\* 0-based entry index (the code returns it times entrySize).
RECURSIVE BinSearch(_, _, _, _)
BinSearch(b, e, low, high) ==
    IF low > high THEN [pos |-> low, found |-> FALSE]
    ELSE LET mid == (low + high) \div 2
             res == Cmp(e, b[mid + 1])
         IN  CASE res < 0 -> BinSearch(b, e, low, mid - 1)
               [] res > 0 -> BinSearch(b, e, mid + 1, high)
               [] OTHER   -> [pos |-> mid, found |-> TRUE]

BinSearchBody(b, e) ==
    IF Len(b) = 0 \/ N(b) = 0
    THEN [pos |-> 0, found |-> FALSE]
    ELSE BinSearch(b, e, 0, Len(b) - 1)

\* GetParent as written: `prev` is updated after the child test, so for a
\* page two or more levels below the root it returns the grandparent.
RECURSIVE ParentLoop(_, _, _, _, _)
ParentLoop(s, curr, prev, b, k) ==
    IF s.pg[curr].type = "node"
    THEN LET c == s.pg[curr].children[ChildIdx(s, curr, k)]
         IN  IF c = b THEN prev ELSE ParentLoop(s, c, curr, b, k)
    ELSE prev

GetParent(s, b, k) ==
    IF s.root = b \/ s.pg[s.root].type # "node" THEN NIL
    ELSE ParentLoop(s, s.root, s.root, b, k)

\* FindMatchingEntries with exact = true: N = 0 or a failed binary search
\* is EntryNotFoundError, a hit returns the entry.
FindMatchingEntries(b, k) ==
    N(b) # 0 /\ BinSearchBody(b, QKey(k)).found

\* GetEntries(k) succeeds: search from the root, then match in the leaf.
GetEntries(s, k) ==
    s.root # NIL /\
    FindMatchingEntries(s.pg[SearchKeys(s, s.root, k)].body, k)

-----------------------------------------------------------------------------
(* Page allocation and the root                                            *)

\* NewBItem: ClaimFreePage hands out Total+1 (the free list is never used
\* within a session, see PageStore), and a zeroed pooled buffer becomes a
\* page of the given type with N = 0.
NewBItem(s, type) ==
    LET id == s.total + 1
    IN  [s EXCEPT !.total = id, !.pg[id] = [FreshPage EXCEPT !.type = type]]

\* GetRoot: a zero root id in the meta page makes a new root leaf.
GetRoot(s) ==
    IF s.root = NIL
    THEN [NewBItem(s, "leaf") EXCEPT !.root = s.total + 1]
    ELSE s

\* Variant: the two children in the opposite order.
NewRootNodeSwapped(s, left, right, midKey) ==
    LET id == s.total + 1
    IN  [s EXCEPT !.total = id, !.root = id,
                  !.pg[id] = [FreshPage EXCEPT !.type = "node",
                                               !.keys = <<midKey>>,
                                               !.children = <<right, left>>]]

\* NewRootNode: a node page with one key and the two children; the meta
\* page's root id now names it.
NewRootNode(s, left, right, midKey) ==
    LET id == s.total + 1
    IN  [s EXCEPT !.total = id, !.root = id,
                  !.pg[id] = [FreshPage EXCEPT !.type = "node",
                                               !.keys = <<midKey>>,
                                               !.children = <<left, right>>]]

-----------------------------------------------------------------------------
(* Leaf operations (leaf.go)                                               *)

\* InsertAt(entry, low): shift the tail right by one entry, N++.
InsertAt(b, low, e) == SX!InsertAt(b, low + 1, e)

\* Insert: binary search, and InsertAt unless the entry is present.
Insert(b, e) ==
    LET r == BinSearchBody(b, e)
    IN  IF r.found THEN b ELSE InsertAt(b, r.pos, e)

\* DeleteEntry(i): set the dirty byte, N--, Dirty++.
DeleteEntryAt(b, i) == [b EXCEPT ![i + 1].dirty = IS_DIRTY]

\* Clean: copies the clean entries among the first N+Dirty-1 into a zeroed
\* body and sets Dirty = 0 with N unchanged, so the live region is the
\* first N entries of the new body.
Clean(b) ==
    LET kept == SelectSeq(SubSeq(b, 1, Len(b) - 1),
                          LAMBDA x : x.dirty = IS_CLEAN)
    IN  SubSeq(kept \o [i \in 1 .. N(b) |-> ZeroEntry], 1, N(b))

\* Variant: compaction without the trailing Insert.
CleanAndInsertNoInsert(b, e) == SelectSeq(b, LAMBDA x : x.dirty = IS_CLEAN)

\* CleanAndInsert: compact the clean entries forward, Dirty = 0, Insert.
CleanAndInsert(b, e) ==
    Insert(SelectSeq(b, LAMBDA x : x.dirty = IS_CLEAN), e)

\* Variant: the old next leaf's Prev is not redirected.
AddLinkedListNoPrev(s, lf, nl) ==
    LET ol == s.pg[lf].next
        s1 == IF ol # NIL THEN [s EXCEPT !.pg[nl].next = ol] ELSE s
    IN  [s1 EXCEPT !.pg[nl].prev = lf, !.pg[lf].next = nl]

\* AddLinkedList: splice newLeaf in after leaf.
AddLinkedList(s, lf, nl) ==
    LET ol == s.pg[lf].next
        s1 == IF ol # NIL
              THEN [s EXCEPT !.pg[ol].prev = nl, !.pg[nl].next = ol]
              ELSE s
    IN  [s1 EXCEPT !.pg[nl].prev = lf, !.pg[lf].next = nl]

-----------------------------------------------------------------------------
(* Internal nodes (node.go)                                                *)

RECURSIVE AddKey(_, _, _, _, _), SplitAndInsert(_, _, _, _, _, _)

\* AddKey: a full node splits; otherwise the key goes before the first
\* key >= it and the child right of the key.
AddKey(s, n, key, child, k) ==
    IF Len(s.pg[n].keys) >= NodeMax
    THEN SplitAndInsert(NewBItem(s, "node"), n, s.total + 1, key, child, k)
    ELSE LET ks == s.pg[n].keys
             ge == {i \in 1 .. Len(ks) : ks[i] >= key}
             j  == IF ge = {} THEN Len(ks) + 1 ELSE FS!Min(ge)
         IN  [s EXCEPT !.pg[n].keys = SX!InsertAt(ks, j, key),
                       !.pg[n].children = SX!InsertAt(@, j + 1, child)]

\* SplitAndInsert: keys above the middle move to newNode, the middle key is
\* promoted to the parent found by GetParent(q) -- which passes node.Id, not
\* newNode.Id, to AddKey -- and the pending key goes to one half.
SplitAndInsert(s, n, nn, key, child, k) ==
    LET ks  == s.pg[n].keys
        cs  == s.pg[n].children
        cnt == Len(ks)
        mid == cnt \div 2
        promoted == ks[mid + 1]
        s1 == [s EXCEPT !.pg[nn].keys = SubSeq(ks, mid + 2, cnt),
                        !.pg[nn].children = SubSeq(cs, mid + 2, cnt + 1),
                        !.pg[n].keys = SubSeq(ks, 1, mid),
                        !.pg[n].children = SubSeq(cs, 1, mid + 1)]
        parent == GetParent(s1, n, k)
        s2 == IF parent = NIL THEN NewRootNode(s1, n, nn, promoted)
              ELSE AddKey(s1, parent, promoted, n, k)
    IN  IF key >= promoted THEN AddKey(s2, nn, key, child, k)
                           ELSE AddKey(s2, n, key, child, k)

-----------------------------------------------------------------------------
(* Splitting a leaf                                                        *)

\* SplitAndAdd on the dispatcher goroutine (the re-check after re-locking
\* the parent always sees nBefore = N): the entry at N/2 is the separator,
\* the new leaf gets entries [N/2, 2*(N/2)) and N/2 as its count, the old
\* leaf keeps N - N/2; the pending entry goes left iff q.key < midKey.
SplitAndAdd(s, lf, e, k) ==
    LET parent == GetParent(s, lf, k)
        b      == s.pg[lf].body
        half   == N(b) \div 2
        midKey == b[half + 1].key
        nl     == s.total + 1
        s1 == NewBItem(s, "leaf")
        s2 == IF parent = NIL THEN NewRootNode(s1, lf, nl, midKey)
              ELSE AddKey(s1, parent, midKey, nl, k)
        lb == SubSeq(b, 1, N(b) - half)
        nb == SubSeq(b, half + 1, 2 * half)
        s3 == IF k < midKey
              THEN [s2 EXCEPT !.pg[lf].body = Insert(lb, e), !.pg[nl].body = nb]
              ELSE [s2 EXCEPT !.pg[lf].body = lb, !.pg[nl].body = Insert(nb, e)]
    IN  AddLinkedList(s3, lf, nl)

-----------------------------------------------------------------------------
(* The two index handlers (queries.go)                                     *)

SetBody(s, p, b) == [s EXCEPT !.pg[p].body = b]

\* Variant: the capacity test as N + Dirty > Max.
IsFullPastMax(b) == Len(b) > LeafMax

\* (N + Dirty) == Max: the leaf has no free slot.
IsFull(b) == Len(b) = LeafMax

\* InsertEntry: "Entry Already Exists" on a hit; a full leaf is compacted
\* if it has tombstones, split otherwise; else a tombstone at low, or at
\* low-1 when low > 1, is overwritten, or the entry is shifted in at low.
InsertEntry(s0, k) ==
    LET s   == GetRoot(s0)
        lf  == SearchKeys(s, s.root, k)
        b   == s.pg[lf].body
        e   == QKey(k)
        r   == BinSearchBody(b, e)
        low == r.pos
    IN  CASE r.found ->
                 [st |-> s, ret |-> "exists"]
          [] IsFull(b) /\ Dirty(b) > 0 ->
                 [st |-> SetBody(s, lf, CleanAndInsert(b, e)), ret |-> "ok"]
          [] IsFull(b) ->
                 [st |-> SplitAndAdd(s, lf, e, k), ret |-> "ok"]
          [] low < Len(b) /\ b[low + 1].dirty = IS_DIRTY ->
                 [st |-> SetBody(s, lf, [b EXCEPT ![low + 1] = e]), ret |-> "ok"]
          [] low > 1 /\ b[low].dirty = IS_DIRTY ->
                 [st |-> SetBody(s, lf, [b EXCEPT ![low] = e]), ret |-> "ok"]
          [] OTHER ->
                 [st |-> SetBody(s, lf, InsertAt(b, low, e)), ret |-> "ok"]

\* DeleteEntry: a miss returns nil.  N = 1 sets IsDead and asks for the
\* parent; a root leaf has none and parent.Lock() dereferences nil; with a
\* parent the re-check `if leaf.IsDead { return nil }` always returns.  A
\* dead leaf is left alone, a leaf with Dirty > Max/2 is Clean()ed instead
\* of deleting, else the entry becomes a tombstone.
DeleteEntry(s0, k) ==
    LET s  == GetRoot(s0)
        lf == SearchKeys(s, s.root, k)
        b  == s.pg[lf].body
        r  == BinSearchBody(b, QKey(k))
        dead == [s EXCEPT !.pg[lf].isDead = TRUE]
    IN  CASE ~r.found ->
                 [st |-> s, ret |-> "ok"]
          [] N(b) = 1 /\ GetParent(s, lf, k) = NIL ->
                 [st |-> dead, ret |-> "panic"]
          [] N(b) = 1 ->
                 [st |-> dead, ret |-> "ok"]
          [] s.pg[lf].isDead ->
                 [st |-> s, ret |-> "ok"]
          [] Dirty(b) > LeafMax \div 2 ->
                 [st |-> SetBody(s, lf, Clean(b)), ret |-> "ok"]
          [] OTHER ->
                 [st |-> SetBody(s, lf, DeleteEntryAt(b, r.pos)), ret |-> "ok"]

-----------------------------------------------------------------------------
(* The specification                                                       *)

Init ==
    \* page 1 is the log page StartLogger claims before any index is used
    /\ db = [pg |-> [p \in PageIds |-> FreshPage], root |-> NIL, total |-> 1]
    /\ ghost = {}
    /\ panicked = FALSE

\* FileTable request carrying an index insert of key k.
IndexInsert(k) ==
    /\ ~panicked
    /\ LET r == InsertEntry(db, k)
       IN  /\ r.st.total <= MaxPages
           /\ db' = r.st
           /\ ghost' = IF r.ret = "ok" THEN ghost \cup {k} ELSE ghost
    /\ UNCHANGED panicked

\* FileTable request carrying an index delete of key k.
IndexDelete(k) ==
    /\ ~panicked
    /\ LET r == DeleteEntry(db, k)
       IN  /\ r.st.total <= MaxPages
           /\ db' = r.st
           /\ panicked' = (r.ret = "panic")
           /\ ghost' = IF r.ret = "ok" THEN ghost \ {k} ELSE ghost

\* GetEntries only changes state through GetRoot creating the first root.
IndexGet(k) ==
    /\ ~panicked
    /\ db.root = NIL
    /\ GetRoot(db).total <= MaxPages
    /\ db' = GetRoot(db)
    /\ UNCHANGED <<ghost, panicked>>

\* After the panic the process is gone.
Halted == panicked /\ UNCHANGED vars

Next ==
    \/ \E k \in Keys : IndexInsert(k) \/ IndexDelete(k) \/ IndexGet(k)
    \/ Halted

Spec == Init /\ [][Next]_vars

-----------------------------------------------------------------------------
(* Properties                                                              *)

\* The pages reachable from page p through child pointers (depth-capped).
RECURSIVE Below(_, _, _)
Below(s, p, d) ==
    IF s.pg[p].type = "node" /\ d > 0
    THEN {p} \cup UNION {Below(s, c, d - 1) : c \in SX!ToSet(s.pg[p].children)}
    ELSE {p}

Reach(s) == IF s.root = NIL THEN {} ELSE Below(s, s.root, 6)
LeavesOf(s) == {p \in Reach(s) : s.pg[p].type = "leaf"}
EntriesOf(s, p) == SX!ToSet(s.pg[p].body)
LiveKeys(s) == {e.key : e \in UNION {{x \in EntriesOf(s, l) : x.dirty = IS_CLEAN} : l \in LeavesOf(s)}}

TypeOK ==
    /\ db.root \in PageIds \cup {NIL}
    /\ db.total \in 0 .. (MaxPages + 4)
    /\ \A p \in PageIds :
         LET pg == db.pg[p] IN
         /\ pg.type \in {"none", "leaf", "node"}
         /\ Len(pg.body) <= LeafMax /\ SX!ToSet(pg.body) \subseteq Entries
         /\ Len(pg.keys) <= NodeMax /\ SX!ToSet(pg.keys) \subseteq Keys \cup {0}
         /\ SX!ToSet(pg.children) \subseteq PageIds
         /\ pg.next \in PageIds \cup {NIL} /\ pg.prev \in PageIds \cup {NIL}
         /\ pg.isDead \in BOOLEAN
    /\ ghost \subseteq Keys
    /\ panicked \in BOOLEAN

\* Durability of acknowledged inserts: every key whose InsertEntry
\* returned nil, and whose DeleteEntry has not since returned nil, is still
\* a clean entry of a leaf reachable from the root.  Splits (SplitAndAdd,
\* SplitAndInsert), compaction (Clean, CleanAndInsert) and tombstone reuse
\* in InsertEntry must all carry every live entry along.
AckedKeysStored == \A k \in ghost : k \in LiveKeys(db)

\* The leaf level is a doubly linked chain in key order: every reachable
\* leaf is strictly sorted, its Next leaf points back to it through Prev,
\* and no key in it exceeds a key of its Next leaf (SplitAndAdd, Insert,
\* AddLinkedList).
LeafChainOrdered ==
    \A l \in LeavesOf(db) :
        LET b == db.pg[l].body
            m == db.pg[l].next
        IN  /\ \A i, j \in 1 .. Len(b) : i < j => Cmp(b[i], b[j]) < 0
            /\ m # NIL =>
                 /\ db.pg[m].prev = l
                 /\ \A x \in EntriesOf(db, l), y \in EntriesOf(db, m) :
                        x.key <= y.key

\* Search-tree order: the separators of every reachable node ascend, and
\* every entry stored below child i lies between separators i-1 and i, the
\* interval SearchKeys routes a key into (AddKey, SplitAndInsert,
\* NewRootNode, GetParent).
KeysWithinSeparators ==
    \A n \in Reach(db) : db.pg[n].type = "node" =>
        LET ks == db.pg[n].keys
            cs == db.pg[n].children
        IN  /\ Len(cs) = Len(ks) + 1
            /\ \A i \in 1 .. Len(ks) - 1 : ks[i] < ks[i + 1]
            /\ \A i \in 1 .. Len(cs) :
                 \A l \in Below(db, cs[i], 6) :
                   \A x \in EntriesOf(db, l) :
                     /\ i > 1 => ks[i - 1] <= x.key
                     /\ i <= Len(ks) => x.key <= ks[i]

\* The keys GetEntries finds evolve as the abstract index allows: an
\* insert adds the key, a delete removes it, nothing else changes them.
FoundKeys == {k \in Keys : GetEntries(db, k)}
Abstract == INSTANCE IndexSpec WITH present <- FoundKeys
AbstractSpec == Abstract!Spec

=============================================================================
