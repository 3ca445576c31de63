------------------------------- MODULE Upload -------------------------------
(***************************************************************************)
(* One call of Client.Upload (internal/brokerrpc/upload.go) against the    *)
(* filestore's upload handler (test/harness/filestore/transfer.go).  Four  *)
(* parties run concurrently: the writer goroutine, which streams the source*)
(* as a multipart body into a pipe; the HTTP transport, which reads the    *)
(* pipe; the handler; and the caller, which turns the answer, the transport*)
(* error and the writer's error into one verdict.  A write to the pipe     *)
(* blocks until the transport reads it, so a write and its read are one    *)
(* step.  Content is abstracted to a number of bytes.                      *)
(***************************************************************************)
EXTENDS Integers

CONSTANTS MaxBytes,     \* bound: the length of a source
          Ceiling       \* messageCeiling: the most bytes one write carries

ASSUME UploadAssumption == MaxBytes \in Nat /\ Ceiling \in Nat \ {0}

VARIABLES
    declared,   \* the size the params field declares
    left,       \* the bytes the source still has
    broken,     \* the source ends with an error rather than EOF
    wpc, werr,  \* where the writer is, and the error it ends with
    rclosed,    \* the read end of the pipe is closed
    sent,       \* the file bytes read from the pipe and put on the connection
    bound,      \* the closing boundary is on the connection as well
    body,       \* how the transport sees the body: still open, at EOF, failed
    conn,       \* the connection stands
    bpc,        \* where the handler is
    status,     \* the status it answered with, or 0
    obj,        \* the destination: old, torn, new or gone
    cpc,        \* where the caller is
    cause,      \* what ended its wait for the answer
    result      \* what Upload returns

sourceVars == <<declared, left, broken>>
writerVars == <<wpc, werr>>
wireVars   == <<rclosed, sent, bound, body, conn>>
brokerVars == <<bpc, status, obj>>
callerVars == <<cpc, cause, result>>
vars       == <<sourceVars, writerVars, wireVars, brokerVars, callerVars>>

\* Every answer the handler can give: refusals before the destination is opened,
\* and what it says afterwards.
Refusals == {400, 403, 404, 409, 418, 429, 500}
Statuses == Refusals \cup {200, 401, 422}

TypeOK ==
    /\ declared \in 0..MaxBytes /\ left \in 0..MaxBytes /\ broken \in BOOLEAN
    /\ wpc \in {"params", "file", "boundary", "close", "done"}
    /\ werr \in {"nil", "source", "pipe"}
    /\ rclosed \in BOOLEAN /\ sent \in 0..MaxBytes /\ bound \in BOOLEAN
    /\ body \in {"open", "eof", "failed"} /\ conn \in BOOLEAN
    /\ bpc \in {"reading", "open", "done"} /\ status \in Statuses \cup {0}
    /\ obj \in {"old", "torn", "new", "gone"}
    /\ cpc \in {"build", "do", "drain", "returned"}
    /\ cause \in {"none", "build", "transport", "status", "ok", "read"}
    /\ result \in {"none", "nil", "denied", "notfound", "exists", "invalid",
                   "retry", "other", "local"}

\* The caller supplies a source that need not be as long as it declares.
Init ==
    /\ declared \in 0..MaxBytes /\ left \in 0..MaxBytes /\ broken \in BOOLEAN
    /\ wpc = "params" /\ werr = "nil"
    /\ rclosed = FALSE /\ sent = 0 /\ bound = FALSE /\ body = "open" /\ conn = TRUE
    /\ bpc = "reading" /\ status = 0 /\ obj = "old"
    /\ cpc = "build" /\ cause = "none" /\ result = "none"

-----------------------------------------------------------------------------
(* The writer goroutine *)

\* There is a request: a transport that reads the pipe, and a handler to serve it.
Arrived == cpc # "build" /\ cause # "build"

\* The pipe takes a write while it has a reader.
Flowing == ~rclosed /\ Arrived

WriteParams ==
    /\ wpc = "params" /\ Flowing /\ wpc' = "file"
    /\ UNCHANGED <<sourceVars, werr, wireVars, brokerVars, callerVars>>

\* A read of the source returns what it has, never more than the ceiling.
WriteChunk ==
    /\ wpc = "file" /\ Flowing
    /\ \E n \in 1..Ceiling : n <= left /\ left' = left - n /\ sent' = sent + n
    /\ UNCHANGED <<declared, broken, writerVars, rclosed, bound, body, conn, brokerVars, callerVars>>

SourceEnds ==
    /\ wpc = "file" /\ left = 0
    /\ wpc' = "boundary" /\ werr' = IF broken THEN "source" ELSE "nil"
    /\ UNCHANGED <<sourceVars, wireVars, brokerVars, callerVars>>

\* mw.Close writes the closing boundary, after an error of the source too.
WriteBoundary ==
    /\ wpc = "boundary" /\ Flowing
    /\ wpc' = "close" /\ bound' = TRUE
    /\ UNCHANGED <<sourceVars, werr, rclosed, sent, body, conn, brokerVars, callerVars>>

\* A write to a pipe without a reader fails; an earlier error is kept.
WriteFails ==
    /\ wpc \in {"params", "file", "boundary"} /\ rclosed
    /\ wpc = "file" => left > 0
    /\ wpc' = "close" /\ werr' = IF werr = "nil" THEN "pipe" ELSE werr
    /\ UNCHANGED <<sourceVars, wireVars, brokerVars, callerVars>>

\* CloseWithError, then the error goes to errCh.
WriterDone ==
    /\ wpc = "close" /\ wpc' = "done"
    /\ body' = IF rclosed THEN body ELSE IF werr = "nil" THEN "eof" ELSE "failed"
    /\ UNCHANGED <<sourceVars, werr, rclosed, sent, bound, conn, brokerVars, callerVars>>

Writer ==
    WriteParams \/ WriteChunk \/ SourceEnds \/ WriteBoundary \/ WriteFails \/ WriterDone

-----------------------------------------------------------------------------
(* The transport *)

\* A reset, a cancelled context, a deadline.
ConnLost ==
    /\ cpc = "do" /\ conn /\ conn' = FALSE
    /\ UNCHANGED <<sourceVars, writerVars, rclosed, sent, bound, body, brokerVars, callerVars>>

\* Once the connection is lost, or the handler has answered without reading on,
\* the transport closes the body.
CloseBody ==
    /\ ~rclosed /\ rclosed' = TRUE
    /\ Arrived /\ (~conn \/ status # 0)
    /\ UNCHANGED <<sourceVars, writerVars, sent, bound, body, conn, brokerVars, callerVars>>

-----------------------------------------------------------------------------
(* The filestore's handler *)

Answer(s) == bpc' = "done" /\ status' = s

\* The credential is looked at before the body.
Unauthorized ==
    /\ bpc = "reading" /\ Arrived /\ Answer(401)
    /\ UNCHANGED <<obj, sourceVars, writerVars, wireVars, callerVars>>

\* ParseMultipartForm meets the end of the connection before the boundary.
ParseFails ==
    /\ bpc = "reading" /\ Arrived /\ ~bound /\ (~conn \/ body = "failed") /\ Answer(400)
    /\ UNCHANGED <<obj, sourceVars, writerVars, wireVars, callerVars>>

\* Mutant: the throttle is consulted after the destination was opened.
RefuseTouched ==
    /\ bpc = "reading" /\ bound
    /\ \E s \in Refusals : Answer(s)
    /\ obj' = "torn"
    /\ UNCHANGED <<sourceVars, writerVars, wireVars, callerVars>>

\* Params, scope, ceiling, throttle, path, existing destination, mkdir, open.
Refuse ==
    /\ bpc = "reading" /\ bound
    /\ \E s \in Refusals : Answer(s)
    /\ UNCHANGED <<obj, sourceVars, writerVars, wireVars, callerVars>>

\* The body is parsed up to its boundary, and the destination truncated.
Open ==
    /\ bpc = "reading" /\ bound
    /\ bpc' = "open" /\ obj' = "torn"
    /\ UNCHANGED <<status, sourceVars, writerVars, wireVars, callerVars>>

CopyFails ==
    /\ bpc = "open" /\ Answer(500)
    /\ UNCHANGED <<obj, sourceVars, writerVars, wireVars, callerVars>>

\* Mutant: the declared size is only checked when it is not zero.
FinishIfDeclared ==
    /\ bpc = "open"
    /\ \/ /\ sent = declared \/ declared = 0
          /\ obj' = (IF sent = declared THEN "new" ELSE "torn") /\ Answer(200)
       \/ sent # declared /\ declared # 0 /\ obj' = "gone" /\ Answer(422)
    /\ UNCHANGED <<sourceVars, writerVars, wireVars, callerVars>>

\* The whole file part is written: it is kept if it is as long as declared (the
\* stat for the answer may still fail), and removed otherwise.
Finish ==
    /\ bpc = "open"
    /\ \/ sent = declared /\ obj' = "new" /\ \E s \in {200, 404, 500} : Answer(s)
       \/ sent # declared /\ obj' = "gone" /\ Answer(422)
    /\ UNCHANGED <<sourceVars, writerVars, wireVars, callerVars>>

Handler == Unauthorized \/ ParseFails \/ Refuse \/ Open \/ CopyFails \/ Finish

-----------------------------------------------------------------------------
(* The caller *)

Send ==
    /\ cpc = "build" /\ cpc' = "do"
    /\ UNCHANGED <<cause, result, sourceVars, writerVars, wireVars, brokerVars>>

\* Mutant: the read end of the pipe is left open.
BuildFailsPipeOpen ==
    /\ cpc = "build" /\ cpc' = "drain" /\ cause' = "build"
    /\ UNCHANGED <<result, sourceVars, writerVars, wireVars, brokerVars>>

\* No request comes of it, so nothing but Upload itself closes the pipe.
BuildFails ==
    /\ cpc = "build" /\ cpc' = "drain" /\ cause' = "build" /\ rclosed' = TRUE
    /\ conn' = FALSE
    /\ UNCHANGED <<result, sourceVars, writerVars, sent, bound, body, brokerVars>>

\* Do returns an error: the connection is lost or the body failed.
DoFails ==
    /\ cpc = "do" /\ (~conn \/ body = "failed")
    /\ cpc' = "drain" /\ cause' = "transport" /\ conn' = FALSE
    /\ UNCHANGED <<result, sourceVars, writerVars, rclosed, sent, bound, body, brokerVars>>

\* Do returns the answer; the body of a 2xx is read, which may fail.
Respond ==
    /\ cpc = "do" /\ conn /\ status # 0
    /\ cpc' = "drain"
    /\ IF status = 200 THEN cause' \in {"ok", "read"} ELSE cause' = "status"
    /\ UNCHANGED <<result, sourceVars, writerVars, wireVars, brokerVars>>

MapHTTPStatus(s) ==
    CASE s \in {401, 403} -> "denied"
      [] s = 404          -> "notfound"
      [] s = 409          -> "exists"
      [] s \in {400, 422} -> "invalid"
      [] s \in {429, 503} -> "retry"
      [] OTHER            -> "other"

\* The status first, then the response body, then a writer error that is not
\* the pipe's.
Verdict(c, s, e) ==
    CASE c \in {"build", "transport"}       -> "other"
      [] c = "status"                       -> MapHTTPStatus(s)
      [] c = "read"                         -> "other"
      [] c = "ok" /\ e \notin {"nil", "pipe"} -> "local"
      [] OTHER                              -> "nil"

\* Mutant: errCh is not drained.
ReturnUndrained ==
    /\ cpc = "drain" /\ cpc' = "returned"
    /\ result' = Verdict(cause, status, werr)
    /\ UNCHANGED <<cause, sourceVars, writerVars, wireVars, brokerVars>>

\* Every path receives from errCh before it returns.
Return ==
    /\ cpc = "drain" /\ wpc = "done" /\ cpc' = "returned"
    /\ result' = Verdict(cause, status, werr)
    /\ UNCHANGED <<cause, sourceVars, writerVars, wireVars, brokerVars>>

Caller == Send \/ BuildFails \/ DoFails \/ Respond \/ Return

Next == Writer \/ ConnLost \/ CloseBody \/ Handler \/ Caller

Spec == Init /\ [][Next]_vars

\* Each party that can move does: the source's reads return, the transport closes
\* the body of a request that is over, and the handler answers.
FairSpec ==
    Spec /\ WF_vars(Writer) /\ WF_vars(CloseBody) /\ WF_vars(Handler) /\ WF_vars(Caller)

-----------------------------------------------------------------------------
(* Properties *)

\* Upload returns only after the writer goroutine is done, whichever way the
\* call ends: nothing reads the source any more and no goroutine is leaked.
NoWriterLeft == cpc = "returned" => wpc = "done"

\* A nil result means that the source was read to its end without an error and
\* the destination holds exactly the declared bytes, although a writer error is
\* forgiven when it is the pipe's.
NilMeansStored == result = "nil" => obj = "new" /\ sent = declared /\ werr # "source"

\* A retryable result is given exactly when a 429 was received, even when the
\* writer failed because the handler stopped reading, and then the destination
\* is as it was before: the retry repeats nothing.
BackpressureIsFaithful ==
    cpc = "returned" =>
        /\ result = "retry" <=> cause = "status" /\ status = 429
        /\ result = "retry" => obj = "old"

\* Upload returns: a source, a connection or a handler that gives up never
\* leaves the caller waiting for the writer or the writer for a reader.
UploadReturns == <>(cpc = "returned")
=============================================================================
