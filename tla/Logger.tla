------------------------------- MODULE Logger -------------------------------
(***************************************************************************)
(* The write-ahead log of src/core/logger as three kinds of goroutine that *)
(* share one Logger struct:                                                *)
(*   - the table dispatcher, the only caller of NewTxn, CommitTxn and      *)
(*     CancelTxn, which hands each value to the writer through ToWriter    *)
(*     and blocks on the reply;                                            *)
(*   - the writer goroutine of StartWriter, running WriteTrx one record    *)
(*     at a time;                                                          *)
(*   - the TruncateLogs goroutines WriteTrx starts once ByteCount reaches  *)
(*     LogThreshold.                                                       *)
(* A page body is a function from positions to cells; a cell is Empty or  *)
(* <<seq, kind>>: a header ("h") or value ("v") cell of record seq.  The  *)
(* first log page has its own buffer (StartLogger); every page NewPage    *)
(* loads, and the page TruncateLogs loads, is read into the one l.buff,   *)
(* so their bodies are the same memory.  Log pages are never flushed, so  *)
(* loading a log page from disk reads zeros and a next field of 0.        *)
(* Sizes are scaled down: BodyLen stands for len(Page.Body), PageSize for *)
(* pages.PAGE_SIZE, TrxSize for TRX_SIZE, Threshold for LogThreshold.     *)
(***************************************************************************)
EXTENDS Integers, Sequences, FiniteSets

CONSTANTS
    BodyLen,    \* len(l.Page.Body), in cells
    PageSize,   \* pages.PAGE_SIZE, in cells
    TrxSize,    \* TRX_SIZE: begin flag, trx id, action, commit flag
    Threshold,  \* LogThreshold
    Trxs,       \* transaction ids the callers use
    VsChoices,  \* value lists a NewTxn call may carry (lengths of values)
    MaxRecs,    \* bound on the records sent to the writer
    MaxLsn,     \* bound on completed NewTxn calls
    FirstPage,  \* the log page StartLogger claims
    IOFaults    \* whether ClaimFreePage may fail (AllocateNewPages error)

ASSUME /\ 0 < TrxSize /\ TrxSize <= BodyLen /\ BodyLen < PageSize
       /\ FirstPage \in Nat \ {0}

NilPage == 0            \* l.Page after NewPage returned nil
None    == -1           \* no pendingTrxs entry for an id
NoRec   == [seq |-> 0]  \* WriterIn empty
Empty   == <<0, "-">>   \* a zero byte
Zero    == [i \in 0..BodyLen-1 |-> Empty]

VARIABLES
    page,       \* l.Page.PageId (NilPage after a failed NewPage)
    offset,     \* l.Offset
    byteCount,  \* l.ByteCount
    nextPid,    \* id ClaimFreePage hands to the next NewPage
    fbuf,       \* the first log page's own buffer
    lbuf,       \* l.buff, the body of every other log page struct
    links,      \* Page.Next fields NewPage set: <<page, next>>
    inCh,       \* WriterIn (capacity 1)
    outCh,      \* WriterOut (capacity 1): "none", "ok" or "err"
    w,          \* writer goroutine: pc, record, aPage, aCursor, left, wrote
    tr,         \* TruncateLogs goroutines, by the record that started them
    caller,     \* dispatcher: pc, op, id, rest (values to send), acts, code
    pending,    \* l.pendingTrxs: id -> number of actions, or None
    lsn,        \* l.Lsn
    seq,        \* records sent so far (history)
    placed,     \* cells written: <<seq, page, position, kind>> (history)
    acked,      \* records whose ToWriter returned nil (history)
    replied,    \* records whose ToWriter returned (history)
    panicked    \* a goroutine panicked and the process died

vars == <<page, offset, byteCount, nextPid, fbuf, lbuf, links, inCh, outCh,
          w, tr, caller, pending, lsn, seq, placed, acked, replied, panicked>>

Seqs == 1..MaxRecs
Cell == {Empty} \cup (Seqs \X {"h", "v"})
Codes == {"pending", "commit", "cancel"}

\* The body a page struct of id p sees.
Body(p) == IF p = FirstPage THEN fbuf ELSE lbuf

\* Write cell c at positions from..from+n-1 of page p's body.
Stamp(buf, from, n, c) ==
    [i \in DOMAIN buf |-> IF i \in from..from+n-1 THEN c ELSE buf[i]]
WriteBody(p, from, n, c) ==
    IF p = FirstPage
    THEN fbuf' = Stamp(fbuf, from, n, c) /\ UNCHANGED lbuf
    ELSE lbuf' = Stamp(lbuf, from, n, c) /\ UNCHANGED fbuf
\* The caller's commit code applies to the last value of the batch.
CodeFor(rest, code) ==
    IF code # "none" /\ Len(rest) = 1 THEN code ELSE "pending"

\* ToWriter: put the record on WriterIn; the caller then blocks on WriterOut.
ToWriter(id, v, code) ==
    /\ inCh' = [seq |-> seq + 1, id |-> id, len |-> v, code |-> code]
    /\ seq' = seq + 1

\* The tail of NewTxn once every value is written: append the actions to
\* pendingTrxs[id] (creating the entry) and take the next LSN.
RecordTxn(id, acts) ==
    /\ pending' = [pending EXCEPT ![id] = IF @ = None THEN acts ELSE @ + acts]
    /\ lsn' = lsn + 1

\* NewTxn(as, vs, id, commitCode...): one ToWriter per value, in order.  A
\* call with no values (the FSM's GetFixedSpace/PutFixedSpace log entries)
\* writes nothing but still records the action as pending.
NewTxnWith(id, vs, code) ==
    /\ caller.pc = "idle" /\ ~panicked
    /\ lsn < MaxLsn /\ seq + Len(vs) <= MaxRecs
    /\ IF vs = <<>>
       THEN /\ RecordTxn(id, 1)
            /\ UNCHANGED <<caller, inCh, seq>>
       ELSE /\ ToWriter(id, Head(vs), CodeFor(vs, code))
            /\ caller' = [pc |-> "wait", op |-> "txn", id |-> id,
                          rest |-> Tail(vs), acts |-> Len(vs), code |-> code]
            /\ UNCHANGED <<pending, lsn>>
    /\ UNCHANGED <<page, offset, byteCount, nextPid, fbuf, lbuf, links, outCh,
                   w, tr, placed, acked, replied, panicked>>

NewTxn(id, vs) == NewTxnWith(id, vs, "none")

\* CommitTxn: for a known id, NewTxn with one empty NONE value stamped
\* TxnCommit.  The entry of pendingTrxs is not removed.
CommitTxn(id) == pending[id] # None /\ NewTxnWith(id, <<0>>, "commit")

\* CancelTxn: forget the id, then write a CANCEL record; its error is ignored.
CancelTxn(id) ==
    /\ caller.pc = "idle" /\ ~panicked
    /\ pending[id] # None /\ seq < MaxRecs
    /\ pending' = [pending EXCEPT ![id] = None]
    /\ ToWriter(id, 0, "cancel")
    /\ caller' = [pc |-> "wait", op |-> "cancel", id |-> id,
                  rest |-> <<>>, acts |-> 0, code |-> "cancel"]
    /\ UNCHANGED <<page, offset, byteCount, nextPid, fbuf, lbuf, links, outCh,
                   w, tr, lsn, placed, acked, replied, panicked>>

\* The dispatcher's receive on WriterOut, and the rest of the NewTxn loop
\* (or of CancelTxn) it returns into.
CallerReceive ==
    /\ caller.pc = "wait" /\ outCh # "none" /\ ~panicked
    /\ outCh' = "none"
    /\ IF caller.op = "cancel" \/ outCh = "err"
       THEN /\ caller' = [caller EXCEPT !.pc = "idle"]
            /\ UNCHANGED <<pending, lsn, inCh, seq>>
       ELSE IF caller.rest # <<>>
       THEN /\ ToWriter(caller.id, Head(caller.rest),
                        CodeFor(caller.rest, caller.code))
            /\ caller' = [caller EXCEPT !.rest = Tail(@)]
            /\ UNCHANGED <<pending, lsn>>
       ELSE /\ RecordTxn(caller.id, caller.acts)
            /\ caller' = [caller EXCEPT !.pc = "idle"]
            /\ UNCHANGED <<inCh, seq>>
    /\ UNCHANGED <<page, offset, byteCount, nextPid, fbuf, lbuf, links,
                   w, tr, placed, acked, replied, panicked>>
-----------------------------------------------------------------------------
\* Variant: a writer loop that drops the reply when WriteTrx failed.
ReplyOnlyOk(s, r) ==
    IF r = "ok" THEN outCh' = r /\ replied' = replied \cup {s}
    ELSE UNCHANGED <<outCh, replied>>

\* StartWriter: l.WriterOut <- err after each WriteTrx.
Reply(s, r) ==
    /\ outCh' = r
    /\ replied' = replied \cup {s}

\* NewPage that succeeded: the claimed page is read into l.buff (zeros: log
\* pages are never flushed), the old page's Next points to it, Offset = 0.
NewPageOk(pid) ==
    /\ nextPid' = pid + 1
    /\ links' = links \cup {<<page, pid>>}
    /\ page' = pid

\* NewPage failed in ClaimFreePage: WriteTrx returns the error, and the
\* assignment l.Page, err = l.NewPage() has set l.Page to nil.
NewPageFails(s) ==
    /\ IOFaults
    /\ page' = NilPage
    /\ Reply(s, "err")
    /\ w' = [w EXCEPT !.pc = "idle"]
    /\ UNCHANGED <<offset, byteCount, nextPid, fbuf, lbuf, links, tr,
                   placed, acked>>
\* Variant: the fit test of WriteTrx one cell too generous.
HeaderFitsOffByOne(off) == off + TrxSize <= BodyLen + 1

\* WriteTrx: the record header fits when l.Offset + TRX_SIZE <= pageSize.
HeaderFits(off) == off + TrxSize <= BodyLen

\* Variant: the header's bytes are not reserved before the value is written.
ReserveNothing(off) == off

\* WriteTrx: l.Offset += TRX_SIZE past the header written later at aCursor.
Reserve(off) == off + TrxSize

\* StartWriter takes a record and WriteTrx starts it: len(l.Page.Body) on a
\* nil l.Page panics; if the header does not fit, NewPage; then reserve the
\* header at aPage/aCursor and move Offset past it.
WriterTake ==
    /\ w.pc = "idle" /\ inCh # NoRec /\ ~panicked
    /\ inCh' = NoRec
    /\ LET r == inCh IN
       IF page = NilPage
       THEN /\ panicked' = TRUE
            /\ UNCHANGED <<page, offset, byteCount, nextPid, fbuf, lbuf, links,
                           outCh, w, tr, placed, acked, replied>>
       ELSE IF ~HeaderFits(offset)
       THEN \/ /\ NewPageOk(nextPid)
               /\ lbuf' = Zero
               /\ offset' = Reserve(0)
               /\ w' = [pc |-> "value", rec |-> r, aPage |-> nextPid,
                        aCursor |-> 0, left |-> r.len]
               /\ UNCHANGED <<byteCount, fbuf, outCh, tr, placed, acked,
                              replied, panicked>>
            \/ /\ NewPageFails(r.seq)
               /\ UNCHANGED panicked
       ELSE /\ offset' = Reserve(offset)
            /\ w' = [pc |-> "value", rec |-> r, aPage |-> page,
                     aCursor |-> offset, left |-> r.len]
            /\ UNCHANGED <<page, byteCount, nextPid, fbuf, lbuf, links, outCh,
                           tr, placed, acked, replied, panicked>>
    /\ UNCHANGED <<caller, pending, lsn, seq>>

\* One byte of the value loop: NewPage when Offset has reached the end of the
\* body, then l.Page.Body[l.Offset] = b and Offset++.
WriterValue ==
    /\ w.pc = "value" /\ w.left > 0 /\ ~panicked
    /\ LET s == w.rec.seq IN
       IF offset >= BodyLen
       THEN \/ /\ NewPageOk(nextPid)
               /\ lbuf' = Stamp(Zero, 0, 1, <<s, "v">>)
               /\ offset' = 1
               /\ placed' = placed \cup {<<s, nextPid, 0, "v">>}
               /\ w' = [w EXCEPT !.left = @ - 1]
               /\ UNCHANGED <<byteCount, fbuf, outCh, tr, acked, replied>>
            \/ NewPageFails(s)
       ELSE /\ WriteBody(page, offset, 1, <<s, "v">>)
            /\ offset' = offset + 1
            /\ placed' = placed \cup {<<s, page, offset, "v">>}
            /\ w' = [w EXCEPT !.left = @ - 1]
            /\ UNCHANGED <<page, byteCount, nextPid, links, outCh, tr, acked,
                           replied>>
    /\ UNCHANGED <<inCh, caller, pending, lsn, seq, panicked>>

\* The tail of WriteTrx: stamp begin flag, trx id, action and commit code
\* into aPage.Body at aCursor, add the bytes written to ByteCount (a uint32;
\* the scaled counts stay far below its wrap),
\* go l.TruncateLogs() once it reaches LogThreshold, and reply nil.
WriterHeader ==
    /\ w.pc = "value" /\ w.left = 0 /\ ~panicked
    /\ LET s == w.rec.seq
           bc == byteCount + w.rec.len + TrxSize
       IN /\ WriteBody(w.aPage, w.aCursor, TrxSize, <<s, "h">>)
          /\ placed' = placed \cup
                 {<<s, w.aPage, i, "h">> : i \in w.aCursor..w.aCursor+TrxSize-1}
          /\ byteCount' = bc
          /\ tr' = IF bc >= Threshold
                   THEN [tr EXCEPT ![s] = [pc |-> "check", local |-> 0]]
                   ELSE tr
          /\ Reply(s, "ok")
          /\ acked' = acked \cup {s}
    /\ w' = [w EXCEPT !.pc = "idle"]
    /\ UNCHANGED <<page, offset, nextPid, links, inCh, caller, pending, lsn,
                   seq, panicked>>
-----------------------------------------------------------------------------
\* l.oldestCursor: StartLogger reads 0 from the meta page (Close never
\* writes it back) and TruncateLogs breaks before it would advance it.
OldestCursor == 0

\* The inner loop of TruncateLogs over the zeroed page: cursor += TRX_SIZE,
\* and either cursor <= len(Body) or the length read is 0 and the loop ends.
SkipRecords(c) == c + TrxSize

\* What TruncateLogs subtracts: cursor - cursor % PAGE_SIZE.
TruncCut == LET c == SkipRecords(OldestCursor) IN c - (c % PageSize)

\* TruncateLogs, loop test: ByteCount > LogThreshold/4, then
\* LoadPage(l.oldest, l.buff) overwrites l.buff with the oldest page read
\* from disk (zeros).
TruncLoad(t) ==
    /\ tr[t].pc = "check" /\ ~panicked
    /\ IF byteCount > Threshold \div 4
       THEN /\ lbuf' = Zero
            /\ tr' = [tr EXCEPT ![t].pc = "read"]
       ELSE /\ tr' = [tr EXCEPT ![t].pc = "done"]
            /\ UNCHANGED lbuf
    /\ UNCHANGED <<page, offset, byteCount, nextPid, fbuf, links, inCh, outCh,
                   w, caller, pending, lsn, seq, placed, acked, replied,
                   panicked>>

\* l.ByteCount -= ...: the load of ByteCount, unsynchronised with the writer.
TruncRead(t) ==
    /\ tr[t].pc = "read" /\ ~panicked
    /\ tr' = [tr EXCEPT ![t] = [pc |-> "sub", local |-> byteCount]]
    /\ UNCHANGED <<page, offset, byteCount, nextPid, fbuf, lbuf, links, inCh,
                   outCh, w, caller, pending, lsn, seq, placed, acked, replied,
                   panicked>>

\* ... and its store; then page.Next == 0 (the page on disk was never
\* written) ends TruncateLogs.
TruncStore(t) ==
    /\ tr[t].pc = "sub" /\ ~panicked
    /\ byteCount' = tr[t].local - TruncCut
    /\ tr' = [tr EXCEPT ![t].pc = "done"]
    /\ UNCHANGED <<page, offset, nextPid, fbuf, lbuf, links, inCh, outCh, w,
                   caller, pending, lsn, seq, placed, acked, replied, panicked>>
-----------------------------------------------------------------------------
\* StartLogger on a fresh meta page: the first log page is claimed and read
\* into its own buffer, Offset, ByteCount and oldestCursor are 0 and oldest
\* is the first page; StartupRecovery does not run.
Init ==
    /\ page = FirstPage /\ offset = 0 /\ byteCount = 0
    /\ nextPid = FirstPage + 1
    /\ fbuf = Zero /\ lbuf = Zero /\ links = {}
    /\ inCh = NoRec /\ outCh = "none"
    /\ w = [pc |-> "idle", rec |-> NoRec, aPage |-> NilPage, aCursor |-> 0,
            left |-> 0]
    /\ tr = [t \in Seqs |-> [pc |-> "none", local |-> 0]]
    /\ caller = [pc |-> "idle", op |-> "txn", id |-> CHOOSE t \in Trxs : TRUE,
                 rest |-> <<>>, acts |-> 0, code |-> "none"]
    /\ pending = [t \in Trxs |-> None]
    /\ lsn = 0 /\ seq = 0
    /\ placed = {} /\ acked = {} /\ replied = {}
    /\ panicked = FALSE

Caller ==
    \/ \E id \in Trxs, vs \in VsChoices : NewTxn(id, vs)
    \/ \E id \in Trxs : CommitTxn(id) \/ CancelTxn(id)
    \/ CallerReceive

Writer == WriterTake \/ WriterValue \/ WriterHeader

Truncator(t) == TruncLoad(t) \/ TruncRead(t) \/ TruncStore(t)

Next == Caller \/ Writer \/ \E t \in Seqs : Truncator(t)

\* The writer and truncator goroutines are runnable whenever one of their
\* steps is enabled and the Go scheduler runs every runnable goroutine
\* eventually; the dispatcher gets no fairness (requests may stop coming).
Spec == Init /\ [][Next]_vars /\ WF_vars(Writer)
             /\ \A t \in Seqs : WF_vars(Truncator(t))
-----------------------------------------------------------------------------
Pages == {NilPage} \cup (FirstPage..FirstPage + MaxRecs + 1)
Rec == [seq : Seqs, id : Trxs, len : Nat, code : Codes]

TypeOK ==
    /\ page \in Pages /\ offset \in 0..BodyLen /\ byteCount \in Nat
    /\ fbuf \in [0..BodyLen-1 -> Cell] /\ lbuf \in [0..BodyLen-1 -> Cell]
    /\ inCh \in Rec \cup {NoRec} /\ outCh \in {"none", "ok", "err"}
    /\ w.pc \in {"idle", "value"} /\ w.aPage \in Pages
    /\ w.aCursor \in 0..BodyLen - TrxSize
    /\ \A t \in Seqs : tr[t].pc \in {"none", "check", "read", "sub", "done"}
    /\ caller.pc \in {"idle", "wait"}
    /\ pending \in [Trxs -> {None} \cup Nat]
    /\ placed \subseteq Seqs \X Pages \X (0..BodyLen-1) \X {"h", "v"}

\* The reply on WriterOut means the record is on a page buffer (spec 5):
\* every cell of a record whose ToWriter returned nil still holds that
\* record in the body of the page WriteTrx wrote it to.  Broken by NewPage
\* and TruncateLogs reading other pages into l.buff, and by a header
\* stamped through aPage after the value spilled onto a new page.
LogIntact ==
    \A c \in placed : c[1] \in acked => Body(c[2])[c[3]] = <<c[1], c[4]>>

\* The log lies in ToWriter order (spec 5, "across trxs order follows the
\* writer channel's FIFO discipline"): every cell WriteTrx wrote for a record
\* comes after every cell of earlier records, and a record's header comes
\* before its value, in page-id-then-offset order.  This depends on WriteTrx
\* reserving the header before the value, on NewPage resetting Offset, and
\* on the dispatcher waiting for each reply before the next ToWriter.
Before(c, d) == c[2] < d[2] \/ (c[2] = d[2] /\ c[3] < d[3])
LogOrdered ==
    \A c, d \in placed :
        (c[1] < d[1] \/ (c[1] = d[1] /\ c[4] = "h" /\ d[4] = "v"))
            => Before(c, d)

\* Every ToWriter call returns (with nil or an error) unless the process has
\* panicked: StartWriter replies on WriterOut after each WriteTrx, on the
\* error paths of NewPage included.
WriterAnswers == \A s \in Seqs : s <= seq ~> (s \in replied \/ panicked)
=============================================================================
