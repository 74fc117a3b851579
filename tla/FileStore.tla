----------------------------- MODULE FileStore -----------------------------
(***************************************************************************)
(* What the file table promises the callers of its dispatcher              *)
(* (src/fileT, InsertFile and DeleteFile; spec "Error handling design",    *)
(* user-visible behaviour): the store is a map from a file's hash to its   *)
(* row.  An insert either adds a file that is not there and answers        *)
(* without an error, or answers with an error and changes nothing; an      *)
(* insert of a file that is there changes nothing; a delete removes a file *)
(* that is there.  A panic stops the store for good.  `last` is the last *)
(* request's hash and whether its answer was an error.                   *)
(***************************************************************************)
EXTENDS TLC

CONSTANTS Rows,    \* the rows callers send; a row's hash is r.h
          NoHash   \* no request yet

VARIABLES files,   \* hash -> row of the files the store holds
          last,    \* the last answer: the hash asked for, and whether the
                   \* answer was an error
          up       \* the store has not panicked

vars == <<files, last, up>>

LOCAL Fn == INSTANCE Functions

Hashes == {r.h : r \in Rows}

Answer(h, e) == last' = [h |-> h, err |-> e]

Init == files = << >> /\ last = [h |-> NoHash, err |-> FALSE] /\ up = TRUE

Insert(r) ==
    /\ up /\ r.h \notin DOMAIN files
    /\ files' = (r.h :> r) @@ files
    /\ Answer(r.h, FALSE)
    /\ UNCHANGED up

\* An error answer to a request, with nothing changed.
Reject(h) ==
    /\ up
    /\ Answer(h, TRUE)
    /\ UNCHANGED <<files, up>>

\* An insert of a stored file leaves the store as it is.  The spec asks
\* for an AlreadyExists error; the code answers without one, so the
\* answer is left open here.
Present(r) ==
    /\ up /\ r.h \in DOMAIN files
    /\ \E e \in BOOLEAN : Answer(r.h, e)
    /\ UNCHANGED <<files, up>>

Delete(k) ==
    /\ up /\ k \in DOMAIN files
    /\ files' = Fn!Restrict(files, DOMAIN files \ {k})
    /\ Answer(k, FALSE)
    /\ UNCHANGED up

\* A panic ends the process during a request; what it answered is lost.
Crash ==
    /\ up /\ up' = FALSE
    /\ \E h \in Hashes, e \in BOOLEAN : Answer(h, e) \/ UNCHANGED last
    /\ UNCHANGED files

Next ==
    \/ \E r \in Rows : Insert(r) \/ Present(r)
    \/ \E h \in Hashes : Delete(h) \/ Reject(h)
    \/ Crash

Spec == Init /\ [][Next]_vars
=============================================================================
