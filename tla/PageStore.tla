----------------------------- MODULE PageStore -----------------------------
(***************************************************************************)
(* Page allocation over the database file (src/database/dbPages.go,        *)
(* database.go): the in-memory header {Total, Max, Next, Last}, the file's *)
(* length in pages, and the 8-byte word at offset 9 of every page, which   *)
(* ClaimFreePage reads through pages.ReadNext to advance the free-list     *)
(* head and NewFreePage writes to link a freed page after the tail.        *)
(*                                                                         *)
(* The callers are abstracted to the kind of page they claim: log pages    *)
(* (StartLogger, Logger.NewPage; their bodies are never written to disk),  *)
(* index pages (NewBItem, NewRootNode; a flush writes keySize, entrySize,  *)
(* N and the LSN at offsets 9..17, a non-zero word) and data pages (FSM;   *)
(* a flush writes Page.Next = 0 there).  NewFreePage is called on log      *)
(* pages only (TruncateLogs, recovery undo).                               *)
(***************************************************************************)
EXTENDS Naturals, Sequences

CONSTANTS
    MaxPages,   \* bound on Total (a state constraint of the MC module)
    GrowBy      \* pages AllocateNewPages adds (100 in the code)

ASSUME MaxPages \in Nat /\ GrowBy \in Nat \ {0}

VARIABLES
    hdr,        \* the DBHeader in memory: [total, max, next, last]
    fileSize,   \* the file's length in pages
    word,       \* word[p]: the 8 bytes at p*PAGE_SIZE + NEXT_OFF on disk
    hdrDisk,    \* the 16 header bytes of page 0 on disk
    appendMode, \* the file was opened with O_APPEND (it already existed)
    owner,      \* owner[p]: the kind of page a caller holds at id p
    freed       \* ids NewFreePage returned, not claimed since (spec view)

vars == <<hdr, fileSize, word, hdrDisk, appendMode, owner, freed>>

\* Claims stop once Total passes MaxPages, so ids stay within MaxPages + 1.
FileIds == 0 .. (MaxPages + 1)
MaxFile == MaxPages + 1 + GrowBy
Kinds == {"log", "index", "data"}
NONE == "none"
\* A word that is not a page id: an index page's keySize/entrySize/N bytes.
Junk == MaxPages + 2
Words == FileIds \cup {Junk}

ZeroHeader == [total |-> 0, next |-> 0, last |-> 0]

\* pages.ReadNext: a positional read; past the end of the file it reads 0.
ReadNext(w, size, id) == IF id < size THEN w[id] ELSE 0

-----------------------------------------------------------------------------

Init ==
    \* a fresh file: os.Create, truncated to one zero page
    /\ hdr = [total |-> 0, max |-> 0, next |-> 0, last |-> 0]
    /\ fileSize = 1
    /\ word = [p \in FileIds |-> 0]
    /\ hdrDisk = ZeroHeader
    /\ appendMode = FALSE
    /\ owner = [p \in FileIds |-> NONE]
    /\ freed = <<>>

\* Variant: the file grows on every claim with an empty head.
GrowAlways(h) == h.next = 0

\* Variant: growth tested with Total > Max - 1.
GrowLate(h) == h.next = 0 /\ (h.max = 0 \/ h.total > h.max - 1)

\* AllocateNewPages: Max += 100 and ftruncate the file to Max pages, which
\* cuts it if Max is below the current length.
Grow(h) == h.next = 0 /\ (h.max = 0 \/ h.total >= h.max - 1)

\* ClaimFreePage: with an empty head the file grows when Total >= Max-1 and
\* Total+1 is returned; with a non-empty head fPId stays 0.  Either way the
\* head becomes the word at offset 9 of page fPId.
ClaimFreePage(kind) ==
    /\ LET grow  == Grow(hdr)
           max1  == IF grow THEN hdr.max + GrowBy ELSE hdr.max
           size1 == IF grow THEN max1 ELSE fileSize
           word1 == IF grow
                    THEN [p \in FileIds |-> IF p < max1 THEN word[p] ELSE 0]
                    ELSE word
           total1 == IF hdr.next = 0 THEN hdr.total + 1 ELSE hdr.total
           fPId  == IF hdr.next = 0 THEN total1 ELSE 0
       IN  /\ hdr' = [hdr EXCEPT !.total = total1, !.max = max1,
                                 !.next = ReadNext(word1, size1, fPId)]
           /\ fileSize' = size1
           /\ word' = word1
           /\ owner' = [owner EXCEPT ![fPId] = kind]
           /\ freed' = SelectSeq(freed, LAMBDA q : q # fPId)
    /\ UNCHANGED <<hdrDisk, appendMode>>

\* Variant: NewFreePage also sets the head when the list was empty.
NewFreePageSetsHead(p) ==
    /\ owner[p] = "log"
    /\ \E q \in FileIds : q > p /\ owner[q] = "log"
    /\ p # 0
    /\ word' = IF appendMode THEN word
               ELSE [word EXCEPT ![p] = 0,
                                 ![hdr.last] = IF hdr.last # 0 THEN p ELSE @]
    /\ hdr' = [hdr EXCEPT !.last = p, !.next = IF hdr.next = 0 THEN p ELSE @]
    /\ owner' = [owner EXCEPT ![p] = NONE]
    /\ freed' = Append(freed, p)
    /\ UNCHANGED <<fileSize, hdrDisk, appendMode>>

\* NewFreePage on a log page: zero it, write its id into the old tail's
\* word, make it the tail.  Page 0 is refused.  On an O_APPEND descriptor
\* both pwrites land at the end of the file, not at the page.
NewFreePage(p) ==
    /\ owner[p] = "log"
    \* TruncateLogs stops at the page whose Next is 0: the current log
    \* page, the newest one the logger claimed, is never freed
    /\ \E q \in FileIds : q > p /\ owner[q] = "log"
    /\ p # 0
    /\ word' = IF appendMode THEN word
               ELSE [word EXCEPT ![p] = 0,
                                 ![hdr.last] = IF hdr.last # 0 THEN p ELSE @]
    /\ hdr' = [hdr EXCEPT !.last = p]
    /\ owner' = [owner EXCEPT ![p] = NONE]
    /\ freed' = Append(freed, p)
    /\ UNCHANGED <<fileSize, hdrDisk, appendMode>>

\* The cache evicts or flushes a held index or data page (BTreeLeaf.Flush,
\* BTreeNode.Flush, Page.Flush).  A flush of page 0 overwrites the header.
FlushPage(p) ==
    /\ owner[p] \in {"index", "data"}
    /\ ~appendMode
    /\ word' = [word EXCEPT ![p] = IF owner[p] = "index" THEN Junk ELSE 0]
    /\ hdrDisk' = IF p = 0 THEN [total |-> Junk, next |-> Junk, last |-> Junk]
                  ELSE hdrDisk
    /\ UNCHANGED <<hdr, fileSize, appendMode, owner, freed>>

\* Close fails at binary.Write (DBHeader holds a pointer and a slice), so
\* nothing reaches page 0; the process then stops and Start runs again:
\* O_APPEND on the existing file, DBHeaderFromBytes of page 0 (Next read at
\* offset 4, Max never read), and none of the old pages is referenced any
\* more because the meta page was never written either.
Restart ==
    /\ hdr' = [total |-> hdrDisk.total, max |-> 0,
               next |-> hdrDisk.next, last |-> hdrDisk.last]
    /\ appendMode' = TRUE
    /\ owner' = [p \in FileIds |-> NONE]
    /\ UNCHANGED <<fileSize, word, hdrDisk, freed>>

SessionNext ==
    \/ \E k \in Kinds : ClaimFreePage(k)
    \/ \E p \in FileIds : NewFreePage(p) \/ FlushPage(p)

Next == SessionNext \/ Restart

Spec == Init /\ [][Next]_vars
SessionSpec == Init /\ [][SessionNext]_vars

-----------------------------------------------------------------------------
(* Properties                                                              *)

TypeOK ==
    /\ hdr \in [total : Words, max : 0 .. MaxFile, next : Words, last : Words]
    /\ fileSize \in 1 .. MaxFile
    /\ word \in [FileIds -> Words]
    /\ hdrDisk \in [total : Words, next : Words, last : Words]
    /\ appendMode \in BOOLEAN
    /\ owner \in [FileIds -> Kinds \cup {NONE}]

\* ClaimFreePage never hands out the meta page 0 or a page a caller still
\* holds: every claim is a fresh id.  This rests on the head staying 0,
\* i.e. on ReadNext of a never-used page returning 0.
ClaimsFresh ==
    [][\A k \in Kinds : ClaimFreePage(k) =>
          \E p \in FileIds \ {0} : owner[p] = NONE /\ owner'[p] = k]_vars

\* ClaimsFresh within the first session, the file created by Start and not
\* yet reopened: a freed log page, an index or data flush and file growth
\* never make ClaimFreePage return a held page or page 0.
ClaimsFreshInSession ==
    [][~appendMode => \A k \in Kinds : ClaimFreePage(k) =>
          \E p \in FileIds \ {0} : owner[p] = NONE /\ owner'[p] = k]_vars

\* Every page a caller holds lies inside the file: AllocateNewPages has
\* grown the file before Total passed Max - 1.
ClaimedWithinFile == \A p \in FileIds : owner[p] # NONE => p < fileSize

=============================================================================
