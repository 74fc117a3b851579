----------------------------- MODULE FixedSpace -----------------------------
(***************************************************************************)
(* The fixed-slot free-space map (src/core/fsm/fixed.go) and the bitmap    *)
(* allocator of FILE_FIXED pages (src/core/pages/bitmaps.go), as the       *)
(* InsertFile and DeleteFile handlers of src/fileT/funcs.go drive them.    *)
(*                                                                         *)
(* The FSM is a B+tree whose entries are key [isFixed][size][count][dirty] *)
(* followed by a page id; only 72-byte rows are ever requested, so every   *)
(* entry written has the same isFixed/size prefix.  The model keeps the    *)
(* FSM's root leaf: its body as an array of LeafMax entry positions (the   *)
(* bytes beyond N + Dirty included), and the uint16 counters N and Dirty,  *)
(* which the code updates separately from the dirty bytes.  The model     *)
(* stops short of SplitAndAdd (a request that would split the root is not *)
(* taken), so the FSM stays one leaf.                                      *)
(*                                                                         *)
(* Requests are serialised by FileTable.Run, so each handler is one step.  *)
(* The handlers are modelled whole: the FID lookup, the WAL transaction    *)
(* each one opens, and the inserts into and deletes from the FTYPE, FTIME  *)
(* and FID indexes (fileT/index.go).  Each index is a B+tree of its own;   *)
(* with fewer rows than a leaf holds (98 FID entries) each stays one root  *)
(* leaf, and the model keeps only its live entries: a function from key to *)
(* row location.  Tombstones, compaction and splits are the BTree module's. *)
(***************************************************************************)
EXTENDS Integers, Sequences, FiniteSets, TLC

LOCAL FS == INSTANCE FiniteSetsExt

LOCAL Fn == INSTANCE Functions

CONSTANTS
    CAP,       \* GetSlotCapacity of a FILE_FIXED page (56 in the code)
    LeafMax,   \* leaf.Max of the FSM leaf (310 in the code)
    NPages,    \* page ids ClaimFreePage can hand out in the model: 1..NPages
    Files,     \* the rows callers send: [h, ty, tm] = hash, type, time
    NoHash     \* no request yet

ASSUME CAP \in 2 .. 255 /\ LeafMax \in Nat \ {0} /\ NPages \in Nat \ {0}

\* A hash names one file: callers send the same row for it.
ASSUME \A a, b \in Files : a.h = b.h => a = b

ASSUME NoHash \notin {r.h : r \in Files}

U16 == 65536
U8 == 256
IS_CLEAN == 0
IS_DIRTY == 1

Pos == 0 .. LeafMax - 1
PageIds == 1 .. NPages
Slots == 0 .. CAP - 1

\* An FSM entry.  `fx` is 1 for the prefix isFixed = 1, size = 72, and 0
\* for bytes never written (a zero entry).
Entry == [fx : {0, 1}, cnt : 0 .. U8 - 1, dirty : {IS_CLEAN, IS_DIRTY},
          loc : 0 .. NPages]
ZeroEntry == [fx |-> 0, cnt |-> 0, dirty |-> IS_CLEAN, loc |-> 0]

\* The key bytes of an entry; bytes.Compare orders keys lexicographically.
Key(e) == <<e.fx, e.cnt, e.dirty>>
Cmp(a, b) ==
    CASE a = b -> 0
      [] a[1] < b[1] \/ (a[1] = b[1] /\ a[2] < b[2])
                     \/ (a[1] = b[1] /\ a[2] = b[2] /\ a[3] < b[3]) -> -1
      [] OTHER -> 1

\* The keys GetFixedSpace and PutFixedSpace search for: count 1 and count 0.
GetKey == <<1, 1, IS_CLEAN>>
PutKey == <<1, 0, IS_CLEAN>>

VARIABLES
    leaf,     \* the FSM leaf: [body, n, d, panicked]
    claimed,  \* pages 1..claimed have been claimed for rows
    bitmap,   \* bitmap[p]: the set bits of page p's slot bitmap
    held,     \* the <<page, slot>> taken by an InsertFile and not released
    rows,     \* the number of slots taken and not released (ghost)
    failed,   \* GetFixedSpace returned "Couldn't grab free slot"
    slotRow,  \* slotRow[l]: the row in taken slot l (a released slot's
              \* bytes are never read again, so it is dropped)
    index,    \* index[i]: the live entries of index i, key -> location
    open,     \* transactions with WAL records but no commit or cancel
    asked,    \* the hash the last request named
    outErr,   \* the last handler's reply carried an error
    idxPanic  \* an index DeleteEntry dereferenced a nil parent

vars == <<leaf, claimed, bitmap, held, rows, failed, slotRow, index, open,
          asked, outErr, idxPanic>>

-----------------------------------------------------------------------------
(* The FSM leaf (indexes/general.go, leaf.go)                              *)

\* BinSearchBody's loop over entries low..high.  Reading an entry at or
\* past LeafMax slices past the end of the body and panics (`oob`).
RECURSIVE BinSearch(_, _, _, _)
BinSearch(b, k, low, high) ==
    IF low > high THEN [pos |-> low, found |-> FALSE, oob |-> FALSE]
    ELSE LET mid == (low + high) \div 2
         IN  IF mid >= LeafMax THEN [pos |-> mid, found |-> FALSE, oob |-> TRUE]
             ELSE CASE Cmp(k, Key(b[mid])) < 0 -> BinSearch(b, k, low, mid - 1)
                    [] Cmp(k, Key(b[mid])) > 0 -> BinSearch(b, k, mid + 1, high)
                    [] OTHER -> [pos |-> mid, found |-> TRUE, oob |-> FALSE]

\* BinSearchBody: N = 0 returns cursor 0; otherwise the search runs over
\* N + Dirty entries, a uint16 sum.
BinSearchBody(lf, k) ==
    IF lf.n = 0 THEN [pos |-> 0, found |-> FALSE, oob |-> FALSE]
    ELSE BinSearch(lf.body, k, 0, ((lf.n + lf.d) % U16) - 1)

\* The search, then `leaf.Body[cursor:cursor+FSM_ENTRY_SIZE]`.
Probe(lf, k) ==
    LET r == BinSearchBody(lf, k)
    IN  [r EXCEPT !.oob = @ \/ r.pos >= LeafMax]

Panic(lf) == [lf EXCEPT !.panicked = TRUE]

\* InsertAt: from cursor N + Dirty down to low, copy each entry one place
\* right (a copy past the body is cut short), write the entry at low, N++.
InsertAt(lf, e, low) ==
    LET cur == (lf.n + lf.d) % U16
    IN  IF low <= cur /\ cur >= LeafMax THEN Panic(lf)
        ELSE [lf EXCEPT
                !.body = [i \in Pos |->
                            CASE low < i /\ i <= cur + 1 -> lf.body[i - 1]
                              [] i = low /\ low <= cur  -> e
                              [] OTHER                  -> lf.body[i]],
                !.n = (@ + 1) % U16]

\* Insert: binary search on the entry's key; nothing if the key is found.
Insert(lf, e) ==
    LET r == BinSearchBody(lf, Key(e))
    IN  CASE r.oob   -> Panic(lf)
          [] r.found -> lf
          [] OTHER   -> InsertAt(lf, e, r.pos)

\* CleanAndInsert: copy the entries of 0..N+Dirty-1 whose dirty byte is
\* clean to the front, zero the rest, Dirty = 0 (N is left as it is), Insert.
CleanAndInsert(lf, e) ==
    LET total == (lf.n + lf.d) % U16
        kept  == SelectSeq([j \in 1 .. total |-> lf.body[j - 1]],
                           LAMBDA x : x.dirty # IS_DIRTY)
    IN  IF total > LeafMax THEN Panic(lf)
        ELSE Insert([lf EXCEPT
                       !.body = [i \in Pos |->
                                   IF i < Len(kept) THEN kept[i + 1] ELSE ZeroEntry],
                       !.d = 0], e)

\* A full leaf without dirty entries would be split: outside the model.
SplitNeeded(lf) == (lf.n + lf.d) % U16 >= LeafMax /\ lf.d = 0

\* The insertion both FSM operations share: `(leaf.N + leaf.Dirty) >=
\* leaf.Max` chooses CleanAndInsert (Dirty > 0) or SplitAndAdd, else Insert.
AddEntry(lf, e) ==
    IF (lf.n + lf.d) % U16 >= LeafMax THEN CleanAndInsert(lf, e) ELSE Insert(lf, e)

-----------------------------------------------------------------------------
(* Page slot bitmaps (pages/bitmaps.go)                                    *)

\* GrabFreeSlot: the lowest clear bit; NilSlot (a nil PageId) if none.
NilSlot == CAP
GrabFreeSlot(bm) == IF bm = Slots THEN NilSlot ELSE FS!Min(Slots \ bm)

\* Variant: the bit after the slot's is cleared.
ReleaseSlotOffByOne(bm, s) == bm \ {s + 1}

\* ReleaseSlot: clear the slot's bit.
ReleaseSlot(bm, s) == bm \ {s}

-----------------------------------------------------------------------------
(* The free-space map (fsm/fixed.go)                                       *)

\* GetFixedSpace, the branch for a cursor entry of another size or dirty:
\* the claimed page's entry advertises its full capacity; it overwrites a
\* dirty entry found with the exact key, and is inserted otherwise.
NewPageEntry(lf, r, p) ==
    LET ne == [fx |-> 1, cnt |-> CAP, dirty |-> IS_CLEAN, loc |-> p]
    IN  IF r.found /\ lf.body[r.pos].dirty = IS_DIRTY
        THEN [lf EXCEPT !.body[r.pos] = ne]
        ELSE AddEntry(lf, ne)

\* Variant: N is a signed counter, so N-- at 0 goes negative.
TakeSlotCountSigned(lf, i) ==
    LET c == lf.body[i].cnt
    IN  IF c = 2 THEN [lf EXCEPT !.d = @ + 1, !.n = @ - 1,
                                 !.body[i].dirty = IS_DIRTY,
                                 !.body[i].cnt = (c + U8 - 1) % U8]
        ELSE [lf EXCEPT !.body[i].cnt = (c + U8 - 1) % U8]

\* Variant: the count is decremented only while it stays above 1.
TakeSlotCountKeepLast(lf, i) ==
    LET c == lf.body[i].cnt
    IN  IF c = 2 THEN [lf EXCEPT !.d = (@ + 1) % U16, !.n = (@ + U16 - 1) % U16,
                                 !.body[i].dirty = IS_DIRTY]
        ELSE [lf EXCEPT !.body[i].cnt = (c + U8 - 1) % U8]

\* GetFixedSpace, the branch for a clean entry of the size: a count of 2
\* marks the entry dirty (Dirty++, N--, both uint16); the count drops by 1.
TakeSlotCount(lf, i) ==
    LET c == lf.body[i].cnt
    IN  IF c = 2 THEN [lf EXCEPT !.d = (@ + 1) % U16, !.n = (@ + U16 - 1) % U16,
                                 !.body[i].dirty = IS_DIRTY,
                                 !.body[i].cnt = (c + U8 - 1) % U8]
        ELSE [lf EXCEPT !.body[i].cnt = (c + U8 - 1) % U8]

\* GetFixedSpace up to GetPage: the new leaf, the page the slot is taken
\* from, and whether ClaimFreePage supplied that page.
GetFixedSpace(lf) ==
    LET r == Probe(lf, GetKey)
        e == lf.body[r.pos]
    IN  CASE r.oob -> [leaf |-> Panic(lf), pid |-> 0, claim |-> FALSE]
          [] e.fx # 1 \/ e.dirty = IS_DIRTY ->
                [leaf |-> NewPageEntry(lf, r, claimed + 1), pid |-> claimed + 1,
                 claim |-> TRUE]
          [] OTHER -> [leaf |-> TakeSlotCount(lf, r.pos), pid |-> e.loc,
                       claim |-> FALSE]

\* PutFixedSpace's FSM part: the cursor entry of the searched key (count 0)
\* is updated in place if it has the prefix and points at p, or is dirty:
\* made clean, count 0 -> 2 or count+1 (uint8), location set to p.  The
\* N and Dirty counters are left alone.  Otherwise a count-2 entry for p
\* is inserted.
PutFixedSpace(lf, p) ==
    LET r == Probe(lf, PutKey)
        e == lf.body[r.pos]
    IN  CASE r.oob -> Panic(lf)
          [] (e.fx = 1 /\ e.loc = p) \/ e.dirty = IS_DIRTY ->
                [lf EXCEPT !.body[r.pos] =
                    [e EXCEPT !.dirty = IS_CLEAN,
                              !.cnt = IF e.cnt = 0 THEN 2 ELSE (e.cnt + 1) % U8,
                              !.loc = p]]
          [] OTHER -> AddEntry(lf, [fx |-> 1, cnt |-> 2, dirty |-> IS_CLEAN,
                                    loc |-> p])

\* PutFixedSpace would reach SplitAndAdd.
PutSplits(lf, p) ==
    LET r == Probe(lf, PutKey)
        e == lf.body[r.pos]
    IN  /\ ~r.oob
        /\ ~((e.fx = 1 /\ e.loc = p) \/ e.dirty = IS_DIRTY)
        /\ SplitNeeded(lf)

-----------------------------------------------------------------------------
(* The file indexes (fileT/index.go, indexes/queries.go)                   *)

\* The row InsertFile builds and ToBytes/FromBytes carry through the slot
\* is one of Files: of its fields the indexes read the hash, the type and
\* the creation time.
Hashes == {r.h : r \in Files}
Locs == PageIds \X Slots

\* NewFileEntry inserts into the indexes in this order.
Schemas == <<"FTYPE", "FTIME", "FID">>

\* deriveEntryAndKey: the key each index takes from a row.  FTYPE keys are
\* [uid][fileType][timestamp][dirty], FTIME keys [uid][timestamp][dirty],
\* FID keys [uid][hash][dirty]; the uid is the same for every row of the
\* model and the dirty byte of a live entry is IS_CLEAN, so both are left
\* out.  The entry's value is the row's location.
KeyOf(i, r) ==
    CASE i = "FTYPE" -> <<r.ty, r.tm>>
      [] i = "FTIME" -> r.tm
      [] i = "FID"   -> r.h

\* InsertEntry on a root leaf: "Entry Already Exists" if the key is live,
\* else the entry is logged under the caller's transaction and inserted.
InsertEntry(ix, i, r, l) ==
    IF KeyOf(i, r) \in DOMAIN ix[i] THEN [ix |-> ix, err |-> TRUE]
    ELSE [ix |-> [ix EXCEPT ![i] = (KeyOf(i, r) :> l) @@ @], err |-> FALSE]

\* Variant: the FID entry is inserted before the FTYPE and FTIME entries.
NewFileEntryFidFirst(ix, r, l) ==
    LET a == InsertEntry(ix, "FID", r, l)
        b == InsertEntry(a.ix, "FTYPE", r, l)
        c == InsertEntry(b.ix, "FTIME", r, l)
    IN  IF a.err THEN a ELSE IF b.err THEN b ELSE c

\* NewFileEntry: the FTYPE, FTIME and FID inserts in turn, returning at the
\* first error with the inserts before it left in place.
NewFileEntry(ix, r, l) ==
    LET a == InsertEntry(ix, "FTYPE", r, l)
        b == InsertEntry(a.ix, "FTIME", r, l)
        c == InsertEntry(b.ix, "FID", r, l)
    IN  IF a.err THEN a ELSE IF b.err THEN b ELSE c

\* DeleteEntry on a root leaf: nothing if the key is not live; with one
\* live entry (leaf.N == 1) GetParent returns a nil parent for the root and
\* parent.Lock() panics; otherwise the entry is tombstoned.
DeleteEntry(ix, i, r) ==
    LET k == KeyOf(i, r)
    IN  CASE k \notin DOMAIN ix[i]   -> [ix |-> ix, panic |-> FALSE]
          [] DOMAIN ix[i] = {k}      -> [ix |-> ix, panic |-> TRUE]
          [] OTHER -> [ix |-> [ix EXCEPT ![i] = Fn!Restrict(@, DOMAIN @ \ {k})],
                       panic |-> FALSE]

\* Variant: the FID entry is not deleted.
DeleteFileEntryNoFid(ix, r) ==
    LET a == DeleteEntry(ix, "FTYPE", r)
    IN  IF a.panic THEN a ELSE DeleteEntry(a.ix, "FTIME", r)

\* DeleteFileEntry: the FTYPE, FTIME and FID deletes in turn.
DeleteFileEntry(ix, r) ==
    LET a == DeleteEntry(ix, "FTYPE", r)
        b == DeleteEntry(a.ix, "FTIME", r)
    IN  IF a.panic THEN a ELSE IF b.panic THEN b ELSE DeleteEntry(b.ix, "FID", r)

-----------------------------------------------------------------------------
(* The handlers (fileT/funcs.go)                                           *)

Init ==
    /\ leaf = [body |-> [i \in Pos |-> ZeroEntry], n |-> 0, d |-> 0,
               panicked |-> FALSE]
    /\ claimed = 0
    /\ bitmap = [p \in PageIds |-> {}]
    /\ held = {}
    /\ rows = 0
    /\ failed = FALSE
    /\ slotRow = << >>
    /\ index = [i \in {"FTYPE", "FTIME", "FID"} |-> << >>]
    /\ open = 0
    /\ asked = NoHash
    /\ outErr = FALSE
    /\ idxPanic = FALSE

Running == ~leaf.panicked /\ ~idxPanic

\* InsertFile of a file already in the FID index returns with a nil error
\* and changes nothing.
InsertExisting(r) ==
    /\ Running
    /\ KeyOf("FID", r) \in DOMAIN index["FID"]
    /\ asked' = r.h
    /\ outErr' = FALSE
    /\ UNCHANGED <<leaf, claimed, bitmap, held, rows, failed, slotRow, index,
                   open, idxPanic>>

\* InsertFile with NewFileEntry's error assigned to err rather than to
\* out.Error: the reply loses the error.
InsertFileErrDropped(r) ==
    /\ Running
    /\ KeyOf("FID", r) \notin DOMAIN index["FID"]
    /\ LET g == GetFixedSpace(leaf)
           s == GrabFreeSlot(bitmap[g.pid])
           l == <<g.pid, s>>
           e == NewFileEntry(index, r, l)
       IN  /\ g.claim => claimed < NPages /\ ~SplitNeeded(leaf)
           /\ leaf' = g.leaf
           /\ claimed' = IF g.claim THEN claimed + 1 ELSE claimed
           /\ open' = IF ~g.leaf.panicked /\ (s = NilSlot \/ e.err)
                      THEN open + 1 ELSE open
           /\ IF g.leaf.panicked
              THEN UNCHANGED <<bitmap, held, rows, failed, slotRow, index, outErr>>
              ELSE IF s = NilSlot
              THEN /\ failed' = TRUE
                   /\ outErr' = TRUE
                   /\ UNCHANGED <<bitmap, held, rows, slotRow, index>>
              ELSE /\ bitmap' = [bitmap EXCEPT ![g.pid] = @ \cup {s}]
                   /\ held' = held \cup {l}
                   /\ rows' = rows + 1
                   /\ slotRow' = (l :> r) @@ slotRow
                   /\ index' = e.ix
                   /\ outErr' = FALSE
                   /\ UNCHANGED failed
    /\ asked' = r.h
    /\ UNCHANGED idxPanic

\* InsertFile of a new file.  GetFixedSpace opens the transaction (NewTxn
\* records it in pendingTrxs), changes the FSM leaf, loads the page and
\* grabs a slot; a nil slot is the error "Couldn't grab free slot".  Then
\* NewTxn logs the row, the row is copied into the slot, and NewFileEntry
\* runs; on its error InsertFile returns at once, otherwise CommitTxn.
\* ClaimFreePage hands out ids 1..NPages, and a request that would split
\* the FSM root is not taken.
InsertFile(r) ==
    /\ Running
    /\ KeyOf("FID", r) \notin DOMAIN index["FID"]
    /\ LET g == GetFixedSpace(leaf)
           s == GrabFreeSlot(bitmap[g.pid])
           l == <<g.pid, s>>
           e == NewFileEntry(index, r, l)
       IN  /\ g.claim => claimed < NPages /\ ~SplitNeeded(leaf)
           /\ leaf' = g.leaf
           /\ claimed' = IF g.claim THEN claimed + 1 ELSE claimed
           /\ open' = IF ~g.leaf.panicked /\ (s = NilSlot \/ e.err)
                      THEN open + 1 ELSE open
           /\ IF g.leaf.panicked
              THEN UNCHANGED <<bitmap, held, rows, failed, slotRow, index, outErr>>
              ELSE IF s = NilSlot
              THEN /\ failed' = TRUE
                   /\ outErr' = TRUE
                   /\ UNCHANGED <<bitmap, held, rows, slotRow, index>>
              ELSE /\ bitmap' = [bitmap EXCEPT ![g.pid] = @ \cup {s}]
                   /\ held' = held \cup {l}
                   /\ rows' = rows + 1
                   /\ slotRow' = (l :> r) @@ slotRow
                   /\ index' = e.ix
                   /\ outErr' = e.err
                   /\ UNCHANGED failed
    /\ asked' = r.h
    /\ UNCHANGED idxPanic

\* DeleteFile of a file in the FID index: the row is read from the slot
\* the FID entry names and NewTxn logs its deletion.  RefCount is 1
\* (InsertFile writes 1 and nothing changes it), so PutFixedSpace updates
\* the FSM leaf and releases the slot, DeleteFileEntry removes the row's
\* index entries, and CommitTxn closes the transaction.
DeleteFile(k) ==
    /\ Running
    /\ k \in DOMAIN index["FID"]
    /\ LET l == index["FID"][k]
           r == slotRow[l]
           x == DeleteFileEntry(index, r)
           f == PutFixedSpace(leaf, l[1])
       IN  /\ ~PutSplits(leaf, l[1])
           /\ CASE f.panicked ->
                   /\ leaf' = f
                   /\ UNCHANGED <<bitmap, held, rows, slotRow, index, open, idxPanic>>
                [] x.panic ->
                   /\ idxPanic' = TRUE
                   /\ UNCHANGED <<leaf, bitmap, held, rows, slotRow, index, open>>
                [] OTHER ->
                   /\ leaf' = f
                   /\ bitmap' = [bitmap EXCEPT ![l[1]] = ReleaseSlot(@, l[2])]
                   /\ held' = held \ {l}
                   /\ rows' = rows - 1
                   /\ slotRow' = Fn!Restrict(slotRow, DOMAIN slotRow \ {l})
                   /\ index' = x.ix
                   /\ UNCHANGED <<open, idxPanic>>
    /\ asked' = k
    /\ outErr' = FALSE
    /\ UNCHANGED <<claimed, failed>>

\* DeleteFile of a hash the FID index does not hold: GetEntries returns
\* EntryNotFoundError and DeleteFile answers with it before any change.
DeleteMissing(k) ==
    /\ Running
    /\ k \notin DOMAIN index["FID"]
    /\ asked' = k
    /\ outErr' = TRUE
    /\ UNCHANGED <<leaf, claimed, bitmap, held, rows, failed, slotRow, index,
                   open, idxPanic>>

\* A panic ends the process; the model keeps the state the panicking
\* request found, with the panic recorded.
Halted == ~Running /\ UNCHANGED vars

Next ==
    \/ \E r \in Files : InsertExisting(r) \/ InsertFile(r)
    \/ \E k \in Hashes : DeleteFile(k) \/ DeleteMissing(k)
    \/ Halted

Spec == Init /\ [][Next]_vars

-----------------------------------------------------------------------------
(* Properties                                                              *)

TypeOK ==
    /\ leaf \in [body : [Pos -> Entry], n : 0 .. U16 - 1, d : 0 .. U16 - 1,
                 panicked : BOOLEAN]
    /\ claimed \in 0 .. NPages
    /\ bitmap \in [PageIds -> SUBSET Slots]
    /\ held \subseteq PageIds \X Slots
    /\ rows \in Nat
    /\ failed \in BOOLEAN
    /\ DOMAIN slotRow \subseteq Locs /\ \A l \in DOMAIN slotRow : slotRow[l] \in Files
    /\ \A i \in DOMAIN index : \A k \in DOMAIN index[i] : index[i][k] \in Locs
    /\ open \in Nat
    /\ asked \in Hashes \cup {NoHash}
    /\ outErr \in BOOLEAN
    /\ idxPanic \in BOOLEAN

\* No two stored files share a slot, and every stored file's slot is set in
\* its page's bitmap: GrabFreeSlot hands out only clear bits, and DeleteFile
\* clears exactly the slot of the file it deletes.
FilesHaveOwnSlots ==
    /\ Cardinality(held) = rows
    /\ \A h \in held : h[2] \in bitmap[h[1]]

\* GetFixedSpace never fails with "Couldn't grab free slot": an FSM entry
\* GetFixedSpace decrements never points at a page whose bitmap is full.
NoGrabFailure == ~failed

\* Every FID entry leads to a slot that is taken and holds the row of that
\* hash, and the FTYPE and FTIME indexes hold that row's keys pointing at
\* the same slot: InsertFile adds the FID entry last, and DeleteFile
\* releases the slot and deletes all three entries of the row it reads.
FileIndexesAgree ==
    \A k \in DOMAIN index["FID"] :
        LET l == index["FID"][k]
        IN  /\ l \in held
            /\ slotRow[l].h = k
            /\ \A i \in {"FTYPE", "FTIME"} :
                  /\ KeyOf(i, slotRow[l]) \in DOMAIN index[i]
                  /\ index[i][KeyOf(i, slotRow[l])] = l

\* A taken slot no FID entry reaches belongs to an InsertFile that failed
\* after GetFixedSpace, and each such slot is matched by a transaction
\* left without a commit or cancel record in the WAL: InsertFile commits
\* only once NewFileEntry has succeeded.
UnindexedSlotsHaveOpenTxn ==
    Cardinality(held \ {index["FID"][k] : k \in DOMAIN index["FID"]}) = open

\* An InsertFile that returns an error leaves the store as it found it:
\* no slot taken, no index entry added and no transaction left open (the
\* error handling design: "insert-duplicate ... return typed errors
\* without mutating state", and a mutation already logged must be
\* cancelled before returning).
FailedInsertUnchanged ==
    [][\A r \in Files :
          InsertFile(r) /\ outErr' =>
              UNCHANGED <<held, index, open>>]_vars

\* The store a caller sees: the rows the FID index reaches, by hash.
StoredFiles == [k \in DOMAIN index["FID"] |-> slotRow[index["FID"][k]]]

Abstract == INSTANCE FileStore WITH Rows <- Files, NoHash <- NoHash,
                                    files <- StoredFiles, up <- Running,
                                    last <- [h |-> asked, err |-> outErr]

\* InsertFile and DeleteFile implement the file store: every request
\* either adds the file it names with a nil error, deletes the file it
\* names, or leaves the stored files as they were; a request that
\* answers with an error changes no stored file, whatever step of
\* GetFixedSpace, NewTxn or NewFileEntry failed, and a panic stops it.
FileStoreRefined == Abstract!Spec

\* The FSM leaf is never indexed past its body.
NoLeafPanic == ~leaf.panicked

=============================================================================
