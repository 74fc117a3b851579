# TLA+ models of My-Go-DB

This directory holds TLA+ models of the Go storage engine under `src/`, the
TLC configurations that check them, and `PROJECT.json`, which records the
components, runs, mutants, source map, findings and hazards.

## The system

My-Go-DB stores files in one database file made of 4 KiB pages.

- **`database/`** opens the file. `Start` reads the 16-byte header on page 0
  (`Total`, `Next`, `Last`). `ClaimFreePage` and `NewFreePage` hand out and
  return page ids, and `AllocateNewPages` grows the file by 100 pages.
  `Close` writes the header back.
- **`core/indexes/`** is a B+tree. A leaf body is a sorted array of
  fixed-size entries, and each entry ends in an `isDirty` byte (a tombstone).
  A node holds separator keys and child ids. `InsertEntry`, `DeleteEntry` and
  `GetEntries` are the operations.
- **`core/cache/`** is a buffer cache of pinned pages with dirty flags, plus
  buffer pools.
- **`core/fsm/`** is a free-space map: B+trees over pages with free slots.
- **`core/logger/`** is a write-ahead log: transactions, log pages, recovery
  and truncation.
- **`fileT/`** is the only client. `FileTable.Run` takes every request
  (`GET_FILE`, `INSERT_FILE`, `DELETE_FILE`) from one channel and handles it
  on one goroutine. A file's 72-byte row lives in a slot of a FILE_FIXED
  page that the FSM hands out, and three B+tree indexes point at it: FTYPE
  (uid, type, time), FTIME (uid, time) and FID (uid, hash).

Because `Run` serialises every request, the index, cache, FSM and page
allocator have no concurrency among themselves. One request's whole handler
is one atomic step of the models. The goroutines that really run alongside
the dispatcher are:

- the log writer of `StartWriter`, which `NewTxn` reaches through
  `ToWriter` and waits on (logger/writer.go:8–30);
- `go l.TruncateLogs()` (logger/writer.go:86);
- the blob streaming goroutine of `GetFile` (fileT/funcs.go:69–93).

## Modules

| Module | Models | State ↔ code |
|---|---|---|
| `IndexSpec` | what an index promises: a set of present keys; insert adds an absent key, delete removes a present one | `present` |
| `BTree` | `core/indexes` as driven by the FID index of `fileT/index.go` | `db.pg[id]` is a cached page: type, leaf `body` as a sequence of `[key, dirty]` entries, node `keys` and `children`, leaf `next`/`prev`, `isDead`. `db.root` is `MetaPage` root id, and `db.total` is the header's `Total` (page ids come from `ClaimFreePage`). `ghost` is the set of keys acknowledged as inserted and not deleted, and `panicked` records a nil dereference. |
| `MCBTree` | model values for `BTree` | keys `1..7` (`1..10` for three-level trees) |
| `Cache` | `core/cache/cache.go` as the index requests and row loads of one table drive it | `st` is the `Cache` struct (map `m`, list pointers `nxt`/`prv`, `newest`, `oldest`, `total`, `used`, the hit counter `since`), the version and `isDirty` of each resident page object, the version of each page in the file, and `wait` (Set found the entry pool empty). `latest` and `tombLast` are ghosts: the version of the last acknowledged write to each page, and whether that write was the tombstone overwrite. `claimed` holds the fresh ids used by splits, and `panicked` records a nil root. |
| `MCCache` | two indexes (roots 1, 2), two leaves, one fresh page, one row page | |
| `PageStore` | `database/dbPages.go`, `database.go`, `pages.ReadNext` | `hdr` is `DBHeader`, `fileSize` is the file length in pages, `word[p]` is the 8 bytes at offset 9 of page p (the free-list link), `hdrDisk` is page 0's header bytes, `appendMode` is the `O_APPEND` descriptor of a reopened file, `owner[p]` is which kind of caller (log, index, data) holds page p, and `freed` is the order pages were freed in |
| `MCPageStore` | the state constraint `TotalBound` | |
| `FixedSpace` | the `InsertFile` and `DeleteFile` handlers (`fileT/funcs.go`, `fileT/index.go`) whole, over `core/fsm/fixed.go`, `pages/bitmaps.go` and the three file indexes | `leaf` is the FSM's root leaf: `body` is its array of `leaf.Max` entry positions, including the bytes past `N + Dirty`. Each entry is `[fx, cnt, dirty, loc]`: `fx` stands for the isFixed/size prefix, then the slot count, the dirty byte and the page id. `n` and `d` are the uint16 `N` and `Dirty`, and `panicked` records a slice past the body. `claimed` counts pages from `ClaimFreePage`, `bitmap[p]` is page p's set bits, and `held` is every slot taken and not released. `failed` records "Couldn't grab free slot". `slotRow[l]` is the row copied into slot `l` (one of `Files`: hash, type, time). `index[i]` holds the live entries of index `i` (FTYPE, FTIME, FID) as a function from key (`KeyOf`, from `deriveEntryAndKey`) to slot; each index stays one root leaf, so `InsertEntry` is "AlreadyExists or add" and `DeleteEntry` is "nothing, panic on the last live entry, or remove". `open` counts transactions with log records but no commit or cancel, `asked` is the hash the last request named, `outErr` is the last reply's error, and `idxPanic` records the nil parent of `DeleteEntry` on a root. |
| `FileStore` | what the file table promises its callers (spec, user-visible behaviour): a map from hash to row; an insert adds an absent file with a nil reply or answers an error and changes nothing, an insert of a stored file changes nothing, a delete removes a stored file, and a panic stops the store | `files`, `last` (hash of the last request and whether its reply was an error), `up` |
| `MCFixedSpace` | the state constraint `DirtyBound` and the four rows callers send | three rows with keys of their own, and one sharing only the first's FTIME key |
| `Logger` | `core/logger` (`logger.go`, `writer.go`, `trxs.go`, `TruncateLogs` of `recover.go`) as the dispatcher, the writer goroutine and the truncator goroutines | `page`, `offset` and `byteCount` are `l.Page.PageId`, `l.Offset` and `l.ByteCount`. `fbuf` is the first log page's own buffer, and `lbuf` is `l.buff`: the body of every other log page, because `NewPage` and `TruncateLogs` load pages into it. A cell is `Empty` or `<<seq, "h"/"v">>`, a header or value byte of record `seq`. `inCh` and `outCh` are `WriterIn` and `WriterOut`. `w` is the writer's `WriteTrx` locals (`aPage`, `aCursor`, bytes left), and `tr[t]` is the truncator started by record `t`. `caller` is the dispatcher inside `NewTxn`/`CancelTxn`, and `pending` is `pendingTrxs` (action counts). `placed`, `acked` and `replied` are histories. |
| `MCLogger` | the value lists of `NewTxn` calls | `<<>>` (the FSM's log calls), one value of 1 or 3 cells |

Each Go function is one operator, named after the function. On a tree it is
a function from the state record to the state record (with a return code
where the code returns one). Functions are composed in the order the code
calls them, so an action (`IndexInsert`, `IndexDelete`) is the whole handler:
`NewFileEntry` → `InsertEntry` → `SearchKeys` → `BinSearchBody` →
(`CleanAndInsert` | `SplitAndAdd` → `AddKey`/`SplitAndInsert`/`NewRootNode` →
`AddLinkedList` | `InsertAt`). Keys are abstracted to small integers, and
`bytes.Compare` on `key‖isDirty` is the lexicographic order of `Cmp`.
Variants used by mutants are defined just before the definition they replace.

Two modules are abstract specifications, written from the promises in the
spec rather than from code. `BTree` refines `IndexSpec` (the set of keys
`GetEntries` finds), and `FixedSpace` refines `FileStore` (the files a
caller can read back, by hash). Each is instantiated with `INSTANCE ...
WITH` a refinement mapping, and its `Spec` is checked as a `PROPERTY`. The
`FileStore` mapping also carries the hash of the last request and whether
the reply was an error. Without that, a reply that loses an error would
look like a harmless request on another stored file.

## Runs

| Run | Expect | Shows |
|---|---|---|
| `MCBTree.cfg` | pass | Leaves of 4 entries and nodes of 2 keys, 7 keys, any mix of insert, delete and get, up to 10 pages. Every acknowledged key stays stored, the leaf chain is ordered and doubly linked, and every entry lies between the separators above it. About 52k states. |
| `BTreeSeparator.cfg` | violation | `GetEntries` routes a key equal to a separator to the left child, where the split did not put it. The found-key set does not refine `IndexSpec`. |
| `MCCache.cfg` | pass | Any mix of index gets, writes (the tombstone path included), splits under a root, and row loads. The cache's list, map, `total` and `oldest` agree (spec invariant 5). Every write the index code marks dirty survives eviction. `Set` never waits on the entry pool. About 214k states. |
| `CacheLostUpdate.cfg` | violation | The tombstone overwrite in `InsertEntry` (queries.go:80) never sets `isDirty`, so evicting the leaf drops the insert. |
| `CacheRootEvicted.cfg` | violation | `HandleFullCache` evicts an index root that has not been used recently. `GetRoot` then reads it into a shadowed variable and returns nil (types.go:131), and the dispatcher panics. |
| `MCPageStore.cfg` | pass | Claims, log-page frees, index/data flushes and restarts. In the first session every claim is a fresh nonzero id. Across restarts every page held stays inside the file, even though `Max` is not read back and the first claim truncates the file to `GrowBy` pages. |
| `PageStoreRestartClaim.cfg` | violation | After a restart, the reused page 1 holds a flushed index page's bytes at offset 9. `Next` becomes that junk, and the next claim returns page 0. |
| `MCFixedSpace.cfg` | pass | Any order of `InsertFile` and `DeleteFile` requests over the four rows, including a row whose FTIME key collides and deletes of hashes not stored. No two rows share a slot, and every taken slot's bit is set. `GetFixedSpace` is never sent to a full page, even after the leaf's counters wrap. Every FID entry leads to a taken slot holding its row, with that row's FTYPE and FTIME entries pointing at the same slot (`FileIndexesAgree`). Every taken slot no FID entry reaches is matched by a transaction left open in the WAL (`UnindexedSlotsHaveOpenTxn`), so a leaked slot is at least visible to recovery. The handlers refine `FileStore` (`FileStoreRefined`) under the mapping `files <- [k \in DOMAIN index["FID"] |-> slotRow[index["FID"][k]]]`, `last <- [h |-> asked, err |-> outErr]`, `up <- Running`: every request adds or deletes exactly the file it names with a nil reply, or leaves the stored files as they were, and a reply with an error never comes with a stored change. About 76k states. |
| `FixedSpaceFailedInsert.cfg` | violation | A second file with the first's timestamp and another type gets "Entry Already Exists" from the FTIME index. `InsertFile` returns that error after `GetFixedSpace` took a slot and `NewTxn` opened a transaction, and it neither releases the slot nor cancels the transaction (funcs.go:185). The spec says a failed insert does not mutate state, and a logged mutation is cancelled before the error is returned. Its FTYPE entry, inserted first, is left behind as well. |
| `FixedSpacePanic.cfg` | violation | `PutFixedSpace` turns a dirty entry clean without `N++`/`Dirty--`. The next take of that entry's last slot runs `N--` on 0, so `N` becomes 65535 (fixed.go:80). A later `BinSearchBody` then slices past the leaf body, and the process panics. |
| `MCLogger.cfg` | pass | The dispatcher's `NewTxn`, `CommitTxn` and `CancelTxn` calls, the writer, the `TruncateLogs` goroutines, and `ClaimFreePage` failing inside `NewPage`. The records lie in the log in `ToWriter` order, each header before its value (`LogOrdered`). Under weak fairness of the writer and truncator goroutines, every `ToWriter` call is answered unless the process has panicked (`WriterAnswers`). About 206k states. |
| `LoggerIntact.cfg` | violation | Two records into a session, the second record's header does not fit, so `NewPage` moves to page 2, which lives in `l.buff`. The record brings `ByteCount` to the threshold, and the `TruncateLogs` it starts reloads the oldest page into `l.buff`. The acknowledged record is gone from every page buffer (logger.go:109, recover.go:91). |

Further defects are modelled but have no run of their own:
- `DeleteEntry` sets `leaf.IsDead` before re-locking and then returns nil
  at `if leaf.IsDead` (queries.go:137). Deleting the last live entry of a
  non-root leaf is therefore acknowledged and does nothing, and
  `GetEntries` still finds the key.
- A failed `ClaimFreePage` in `NewPage` leaves `l.Page = nil`
  (writer.go:41), so the next `WriteTrx` panics. `MCLogger.cfg` reaches
  this.
- `TruncateLogs` breaks on `page.Next == 0` of a never-flushed page and
  subtracts 0, so `ByteCount` never falls. Every write past the threshold
  starts another truncator, and each truncator writes back a stale
  `ByteCount`.
- `CommitTxn` never removes the `pendingTrxs` entry, although the spec
  says it clears it.
- `GetFixedSpace` can claim a third page while the second still has free
  slots. With `N = 0`, `BinSearchBody` returns cursor 0 (general.go:241),
  so entries land out of order, and `Insert` drops a new entry whose key
  equals an existing one. This wastes space rather than breaking
  correctness.
- `DeleteEntry` on the only entry of a root leaf sets `panicked`
  (queries.go:129). The first delete of the only key of a new index shows
  it. Through the file table this is `DeleteFile` of the only stored file:
  in `FixedSpace` it sets `idxPanic`, and every trace that deletes all
  files ends there.
- `GetParent` returns `prev` before updating it (bTreeItem.go:117), so a
  split two levels below the root adds its separator to the root.
  `KeysWithinSeparators` fails on `MCBTree` with `Keys <- MCKeysDeep`,
  `MaxPages = 14` and `SPECIFICATION InsertOnlySpec`, where the tree
  reaches three levels. `MCBTree.cfg` stays at two levels, so this is not
  one of the runs.
- `InsertFile` of a file already in the FID index returns a nil error
  (funcs.go:133), where the spec's round-trip laws expect `AlreadyExists`.
  `RefCount` is written as 1 and never incremented, so the `refCount > 1`
  branch of `DeleteFile` is dead.
- With an odd `LeafMax` (3 or 5, keys `1..5`), `AckedKeysStored` fails
  through `SplitAndAdd` (leaf.go:272–273).
- `Clean` stops one entry early (leaf.go:152). With 6-entry leaves (keys
  `1..6`, `LeafMax = 6`), `AckedKeysStored` fails after four deletes.

`NewFreePage` never sets the free-list head, so freed pages are never
claimed again, whereas the spec says they are reused LIFO. `PageStore`
models this, and the mutant `NewFreePageSetsHead` shows what setting the head
would do: `ClaimsFreshInSession` then fails.

`Close` never writes the header, because `binary.Write` rejects
`DBHeader`. `Restart` models this by reading header bytes that were never
updated, and `PageStoreRestartClaim.cfg` shows what follows from it.

Each property of a passing run has a mutant in `PROJECT.json`: a plausible
bug in the mapped code that TLC shows the property catches.

## Bounds

- **B+tree:**
  - `LeafMax = 4` and `NodeMax = 2` make splits happen after 5 inserts and
    a new root after about 7.
  - The tombstone paths need deletes before inserts, and seven keys allow
    both.
  - Ten keys and 14 pages reach a third level (`MCKeysDeep`, insert only);
    no run uses it, see the defects above.
  - 6-entry leaves are a separate configuration, because `Clean`'s
    arithmetic goes wrong only from five entries up.
- **Pages:**
  - `GrowBy = 3` (100 in the code) makes growth happen every few claims.
  - `Total ≤ 6` allows two growths, a free, a flush and a restart in one
    trace.

- **Cache:**
  - `CACHE_SIZE = 5`, `CACHE_MIN = 1`, `MAX_DELETE = 0` and
    `SWEEP_INTERVAL = 2` scale down the code's 256/25/200/1000.
  - The scaling keeps the relation that matters: the eviction burst of
    `HandleFullCache` ends before it reaches the entry just `Set`, even with
    the three pages a split holds latched (5 − 1 − 3 ≥ 1, where the code
    has 256 − 201 − 3 = 52).
  - Both eviction paths run. With six pages for five slots, the cache fills
    within two requests, and a sweep runs every second hit.
  - The model starts from the state after the indexes were built in the
    session: every page is resident and dirty. This is because `Start`
    reads no root ids back.

- **Fixed slots:**
  - Pages have 3 slots (56 in the code) and the FSM leaf holds 3 entries
    (310). With these, a page fills after three inserts, and the leaf
    fills with three pages.
  - `NPages = 2` pages are available to `ClaimFreePage`: six slots, so
    three stored files and leaked slots can fill a page and force a claim.
  - Four rows: three with keys of their own, so three files can be stored
    at once, and one whose FTIME key (time) is the first's and whose FTYPE
    key (type, time) is free. It reaches a refusal of `NewFileEntry` after
    an insert, so the orphan FTYPE entry. A row whose FTYPE key is taken
    is refused by the first insert, a case the same code path covers. Hashes,
    types and times are only compared for equality, so model values stand
    for them.
  - `MaxDirty = 3` caps `Dirty` in `MCFixedSpace.cfg`; it grows with every
    last-slot take and only `CleanAndInsert` resets it. The counter wrap is
    reached within five requests under that cap. `FixedSpacePanic.cfg` has
    no cap: the panic needs a fourth dirty entry, and breadth-first search
    finds it at depth 13.
  - A request that would reach `SplitAndAdd` (a full leaf with `Dirty = 0`)
    is not taken.
  - The counter wrap, `CleanAndInsert` and the panic all happen within 12
    requests.
- **Log:**
  - A page body has 4 cells (4068 bytes in the code), a record header 2
    (`TRX_SIZE` = 19) and values 0, 1 or 3. With these, a header can follow
    a record on the same page, a header can fail to fit, and a value can
    spill onto the next page.
  - `Threshold = 6` (`LogThreshold`, 40 MiB) is reached by the second or
    third record, so truncators run while the writer still writes.
    `PAGE_SIZE` (5) exceeds the body, as 4096 exceeds 4068.
  - `MaxRecs = 4` records and `MaxLsn = 4` completed `NewTxn` calls. One
    transaction id is enough, because records of different ids are written
    the same way.

## Fairness

The B+tree, cache, page store and FSM runs check safety only. The dispatcher
serves requests in whatever order clients send them, and no property there
says a request must eventually be served.

`Logger.Spec` assumes weak fairness of the writer goroutine and of each
`TruncateLogs` goroutine. Both are plain goroutines that block only on
channel operations the model represents as enabling conditions, and Go's
preemptive scheduler eventually runs every runnable goroutine. The
dispatcher gets no fairness, because clients may stop sending requests. For
the same reason, and because a panic ends the process, `MCLogger.cfg`
states `CHECK_DEADLOCK FALSE`.

## Not modelled (yet)

- **The cache's buffer and shell pools.** A page's buffer returns to the
  pool on eviction. Pinned pages are always the most recently used, so
  with the code's constants eviction never reaches a page a request still
  holds. The contents of `Cache` pages are versions, not `BTree` entries,
  so the cache and the tree are checked separately.
- **WAL recovery** (`StartupRecovery`, `ReadAction`, `GetValue`).
  Recovery runs only when the meta page holds a non-zero oldest log page,
  and only `Logger.Close` would write one; nothing calls it. `GetActions`
  and `SnapPageLike` are never called either.
- **I/O errors** other than `ClaimFreePage` failing inside `NewPage`.
- **A failed `NewTxn` inside `DeleteEntry`.** It returns at queries.go:114
  with the leaf still locked (it was locked at line 102), so the next
  request on that leaf would block the only dispatcher for good. `NewTxn`
  fails only when the logger's page claim fails; `Logger` models that
  failure, but `BTree` and `FixedSpace` take the logger's calls as
  succeeding, so this return is listed as a hazard and not reached.
- **`ByteCount` wrapping at 2^32.** TLC's integers are 32-bit signed, and
  the scaled counts stay far below the wrap.
- **Variable-size space** (`fsm/var.go`, `pages/tuples.go`): no handler
  calls `GetVarSpace` or `PutVarSpace`.
- **The FSM beyond one leaf:** in `FixedSpace`, `SplitAndAdd` is not taken.
- **`GetFile`:** it changes no state; its blob goroutine streams an OS
  file and is listed as a hazard only.
- **Failures of the file handlers that need an I/O error** (a failed
  `GetPage`, `SearchKeys` or log-page claim inside `InsertFile` and
  `DeleteFile`). Without them an index delete cannot fail short of the
  root-leaf panic, so the dangling FID entry that a failed `DeleteFile`
  would leave (funcs.go:270) is not reached.
- **Index leaves beyond one root leaf in `FixedSpace`:** the file indexes
  are abstracted to their live keys; tombstones, compaction and splits are
  checked in `BTree`.
- **`DeleteFromParent` and `RemoveLinkedList`:** unreachable, because the
  IsDead re-check returns before them.
- **The executor:** never called.
- **Blob streaming, the hex/action encoders and the positional I/O
  wrappers:** pure I/O.
