----------------------------- MODULE UploadRetry -----------------------------
(***************************************************************************)
(* An upload that rclone drives again after an ambiguous failure.  The     *)
(* client makes one attempt at a time, but an attempt it has given up on   *)
(* may still have a handler running in the filestore: handlers of several  *)
(* attempts then work on one path.  Upload models what one attempt returns;*)
(* here an attempt is what its handler does to the directory entry and to  *)
(* the file behind it.  Every attempt carries the same bytes, as far as its*)
(* source could be read.                                                   *)
(***************************************************************************)
EXTENDS Integers

CONSTANTS Attempts,     \* bound: the client makes at most so many attempts
          Size          \* the bytes to upload, the size every attempt declares

ASSUME RetryAssumption == Attempts \in Nat \ {0} /\ Size \in Nat

Ids     == 1..Attempts
Absent  == -1
Inodes  == 0..Attempts          \* 0 is the file there was before
Bytes   == 1..Size

VARIABLES
    cur,        \* the client's latest attempt
    client,     \* idle, sending, or acked: the latest attempt returned nil
    alone,      \* no handler of an earlier attempt was at work when it started
    bodies,     \* the bytes each attempt's body carries
    h,          \* where its handler is
    off,        \* how much of the body it has written
    fd,         \* the file it has open
    entry,      \* the file at the destination path, or Absent
    data,       \* the bytes of the upload each file holds
    faulted     \* a handler failed to write

clientVars  == <<cur, client, alone, bodies>>
handlerVars == <<h, off, fd>>
diskVars    == <<entry, data, faulted>>
retryVars   == <<clientVars, handlerVars, diskVars>>

RetryTypeOK ==
    /\ cur \in 0..Attempts /\ client \in {"idle", "sending", "acked"}
    /\ alone \in BOOLEAN /\ bodies \in [Ids -> 0..Size]
    /\ h \in [Ids -> {"none", "parsed", "open", "stat", "answered", "failed"}]
    /\ off \in [Ids -> 0..Size] /\ fd \in [Ids -> Inodes]
    /\ entry \in Inodes \cup {Absent} /\ data \in [Inodes -> SUBSET Bytes]
    /\ faulted \in BOOLEAN

\* Put creates the destination, Update finds one.
RetryInit ==
    /\ cur = 0 /\ client = "idle" /\ alone = TRUE /\ bodies = [a \in Ids |-> 0]
    /\ h = [a \in Ids |-> "none"] /\ off = [a \in Ids |-> 0] /\ fd = [a \in Ids |-> 0]
    /\ entry \in {0, Absent} /\ data = [i \in Inodes |-> {}]
    /\ faulted = FALSE

-----------------------------------------------------------------------------
(* The client *)

\* No handler is at work.
Quiet == \A a \in Ids : h[a] \in {"none", "answered", "failed"}

\* The attempt's body reaches the filestore up to its closing boundary, which is
\* sent after a failed read of the source too.
Attempt ==
    /\ client = "idle" /\ cur < Attempts
    /\ cur' = cur + 1 /\ client' = "sending" /\ alone' = Quiet
    /\ \E n \in 0..Size : bodies' = [bodies EXCEPT ![cur'] = n]
    /\ h' = [h EXCEPT ![cur'] = "parsed"]
    /\ UNCHANGED <<off, fd, diskVars>>

\* Upload returns an error: the connection is lost, the source could not be read
\* or the filestore refused.  rclone will come back.
GiveUp ==
    /\ client = "sending" /\ client' = "idle"
    /\ UNCHANGED <<cur, alone, bodies, handlerVars, diskVars>>

Acked ==
    /\ client = "sending" /\ h[cur] = "answered" /\ client' = "acked"
    /\ UNCHANGED <<cur, alone, bodies, handlerVars, diskVars>>

-----------------------------------------------------------------------------
(* The handlers *)

RefuseAttempt(a) ==
    /\ h[a] = "parsed" /\ h' = [h EXCEPT ![a] = "failed"]
    /\ UNCHANGED <<clientVars, off, fd, diskVars>>

\* Mutant: the destination is opened without O_CREATE's new file being linked.
OpenUnlinked(a) ==
    /\ h[a] = "parsed" /\ h' = [h EXCEPT ![a] = "open"]
    /\ fd' = [fd EXCEPT ![a] = a]
    /\ UNCHANGED <<clientVars, off, diskVars>>

\* O_CREATE|O_TRUNC: whatever file is there is emptied, or a new one made.
OpenDest(a) ==
    /\ h[a] = "parsed" /\ h' = [h EXCEPT ![a] = "open"]
    /\ LET i == IF entry = Absent THEN a ELSE entry
       IN  /\ entry' = i
           /\ fd' = [fd EXCEPT ![a] = i]
           /\ data' = [data EXCEPT ![i] = {}]
    /\ UNCHANGED <<clientVars, off, faulted>>

\* io.Copy writes at the handler's own offset.
Copy(a) ==
    /\ h[a] = "open" /\ off[a] < bodies[a]
    /\ off' = [off EXCEPT ![a] = @ + 1]
    /\ data' = [data EXCEPT ![fd[a]] = @ \cup {off[a] + 1}]
    /\ UNCHANGED <<clientVars, h, fd, entry, faulted>>

CopyBreaks(a) ==
    /\ h[a] = "open" /\ h' = [h EXCEPT ![a] = "failed"] /\ faulted' = TRUE
    /\ UNCHANGED <<clientVars, off, fd, entry, data>>

\* Mutant: the length of the body is taken from what was declared.
CheckDeclared(a) ==
    /\ h[a] = "open" /\ h' = [h EXCEPT ![a] = "stat"]
    /\ UNCHANGED <<clientVars, off, fd, diskVars>>

\* A body of another length than declared: the path is removed, whoever's file is
\* there by now.
Check(a) ==
    /\ h[a] = "open" /\ off[a] = bodies[a]
    /\ \/ /\ off[a] = Size /\ h' = [h EXCEPT ![a] = "stat"]
          /\ UNCHANGED entry
       \/ /\ off[a] # Size /\ h' = [h EXCEPT ![a] = "failed"]
          /\ entry' = Absent
    /\ UNCHANGED <<clientVars, off, fd, data, faulted>>

\* fileMeta stats the path for the answer: 200 if something is there.
Stat(a) ==
    /\ h[a] = "stat"
    /\ h' = [h EXCEPT ![a] = IF entry = Absent THEN "failed" ELSE "answered"]
    /\ UNCHANGED <<clientVars, off, fd, diskVars>>

Serve(a) == RefuseAttempt(a) \/ OpenDest(a) \/ Copy(a) \/ CopyBreaks(a) \/ Check(a) \/ Stat(a)

RetryNext == Attempt \/ GiveUp \/ Acked \/ \E a \in Ids : Serve(a)

RetrySpec == RetryInit /\ [][RetryNext]_retryVars

-----------------------------------------------------------------------------
(* Properties *)

Whole == entry # Absent /\ data[entry] = Bytes

\* An acknowledged upload is what the path holds once all handlers have come to
\* rest, in whatever order they ran, if every attempt carried the whole body and
\* no write failed: truncating and rewriting the same file is repeatable.
WholeAttemptsConverge ==
    client = "acked" /\ Quiet /\ ~faulted /\ (\A a \in 1..cur : bodies[a] = Size) => Whole

\* An attempt that starts when all earlier handlers have come to rest is whole
\* when it is acknowledged and stays so, whatever those handlers left behind:
\* a torn file, or none.
LoneAckIsWhole ==
    client = "acked" /\ alone => Whole
=============================================================================
