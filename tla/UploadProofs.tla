---------------------------- MODULE UploadProofs ----------------------------
(***************************************************************************)
(* The safety properties of Upload for sources of any length and any       *)
(* ceiling.  The argument: the file part is complete once the boundary is  *)
(* on the wire, the handler touches the destination only after that and    *)
(* answers once, and the verdict is computed from that answer after the    *)
(* writer's last step.  The second half is about an upload made again.     *)
(***************************************************************************)
EXTENDS Upload, UploadRetry, TLAPS

\* What is sent was read from the source.
StreamInv == sent + left <= MaxBytes

\* Nothing follows the closing boundary.
WireInv == bound => wpc \in {"close", "done"}

\* The handler answers once, after the boundary unless it refuses, and its answer
\* says what became of the destination.
HandlerInv ==
    /\ bpc # "done" => status = 0
    /\ bpc = "reading" => obj = "old"
    /\ bpc = "open" => bound
    /\ status = 200 => bound /\ obj = "new" /\ sent = declared
    /\ status = 429 => obj = "old"

\* The caller's cause agrees with the answer, and the answer with its result.
CallerInv ==
    /\ cause = "status" => status \notin {0, 200}
    /\ cause \in {"ok", "read"} => status = 200
    /\ cpc = "drain" => cause # "none"
    /\ cpc # "returned" => result = "none"
    /\ cpc = "returned" =>
         cause # "none" /\ wpc = "done" /\ result = Verdict(cause, status, werr)

IInv == TypeOK /\ StreamInv /\ WireInv /\ HandlerInv /\ CallerInv

\* The invariant holds when Upload is called.
LEMMA UploadInit == Init => IInv
  <1> SUFFICES ASSUME Init PROVE IInv
    OBVIOUS
  <1>1. rclosed \in BOOLEAN /\ bound \in BOOLEAN /\ conn \in BOOLEAN /\ ~bound
    BY Zenon DEF Init
  <1>2. TypeOK
    BY <1>1, UploadAssumption DEF Init, TypeOK
  <1>3. StreamInv
    BY UploadAssumption DEF Init, StreamInv
  <1>4. WireInv /\ HandlerInv /\ CallerInv
    BY <1>1 DEF Init, WireInv, HandlerInv, CallerInv
  <1> QED BY <1>2, <1>3, <1>4 DEF IInv

\* Every result is one of the listed ones.
LEMMA VerdictType ==
    ASSUME NEW c, NEW s, NEW e
    PROVE  Verdict(c, s, e) \in {"nil", "denied", "notfound", "exists", "invalid",
                                 "retry", "other", "local"}
  BY DEF Verdict, MapHTTPStatus

\* The writer's steps keep the invariant.
LEMMA WriterPreserves == IInv /\ Writer => IInv'
  <1> SUFFICES ASSUME IInv, Writer PROVE IInv'
    OBVIOUS
  <1> USE UploadAssumption DEF sourceVars, writerVars, wireVars, brokerVars, callerVars
  <1>1. CASE WriteParams
    BY <1>1 DEF WriteParams, IInv, TypeOK, StreamInv, WireInv, HandlerInv, CallerInv
  <1>2. CASE WriteChunk
    <2> PICK n \in 1..Ceiling : n <= left /\ left' = left - n /\ sent' = sent + n
      BY <1>2 DEF WriteChunk
    <2>1. left' \in 0..MaxBytes /\ sent' + left' = sent + left /\ sent' \in Nat
      BY DEF IInv, TypeOK
    <2>2. ~bound /\ status \notin {200}
      BY <1>2 DEF WriteChunk, IInv, WireInv, HandlerInv
    <2>3. TypeOK'
      BY <1>2, <2>1 DEF WriteChunk, IInv, TypeOK, StreamInv
    <2> QED BY <1>2, <2>1, <2>2, <2>3
         DEF WriteChunk, IInv, StreamInv, WireInv, HandlerInv, CallerInv
  <1>3. CASE SourceEnds
    BY <1>3 DEF SourceEnds, IInv, TypeOK, StreamInv, WireInv, HandlerInv, CallerInv
  <1>4. CASE WriteBoundary
    BY <1>4 DEF WriteBoundary, IInv, TypeOK, StreamInv, WireInv, HandlerInv, CallerInv
  <1>5. CASE WriteFails
    BY <1>5 DEF WriteFails, IInv, TypeOK, StreamInv, WireInv, HandlerInv, CallerInv
  <1>6. CASE WriterDone
    BY <1>6 DEF WriterDone, IInv, TypeOK, StreamInv, WireInv, HandlerInv, CallerInv
  <1> QED BY <1>1, <1>2, <1>3, <1>4, <1>5, <1>6 DEF Writer

\* An answer that comes while the caller has none does not disturb it: its cause,
\* if any, is a failed call, whose result no status changes.
LEMMA AnswerKeepsCaller ==
    ASSUME IInv, bpc # "done", UNCHANGED <<wpc, werr, cpc, cause, result>>
    PROVE  CallerInv'
  <1>1. status = 0
    BY DEF IInv, HandlerInv
  <1>2. cause \in {"none", "build", "transport"}
    BY <1>1 DEF IInv, TypeOK, CallerInv
  <1>3. cpc = "returned" => result = "other" /\ wpc = "done" /\ cause \in {"build", "transport"}
    BY <1>2 DEF IInv, CallerInv, Verdict
  <1> QED BY <1>2, <1>3 DEF IInv, CallerInv, Verdict

\* So do the handler's and the transport's ...
LEMMA HandlerPreserves == IInv /\ (Handler \/ ConnLost \/ CloseBody) => IInv'
  <1> SUFFICES ASSUME IInv, Handler \/ ConnLost \/ CloseBody PROVE IInv'
    OBVIOUS
  <1> USE UploadAssumption DEF sourceVars, writerVars, wireVars, brokerVars, callerVars
  <1>1. CASE Handler
    <2>1. bpc # "done" /\ UNCHANGED <<sourceVars, writerVars, wireVars, callerVars>>
      BY <1>1 DEF Handler, Unauthorized, ParseFails, Refuse, Open, CopyFails, Finish
    <2>2. CallerInv'
      BY <2>1, AnswerKeepsCaller
    <2>3. StreamInv' /\ WireInv'
      BY <2>1 DEF IInv, StreamInv, WireInv
    <2>4. bpc' \in {"reading", "open", "done"} /\ status' \in Statuses \cup {0}
          /\ obj' \in {"old", "torn", "new", "gone"}
      BY <1>1 DEF Handler, Unauthorized, ParseFails, Refuse, Open, CopyFails, Finish,
                  Answer, Statuses, Refusals, IInv, TypeOK
    <2>5. TypeOK'
      BY <2>1, <2>4 DEF IInv, TypeOK
    <2>6. HandlerInv'
      BY <1>1 DEF Handler, Unauthorized, ParseFails, Refuse, Open, CopyFails, Finish,
                  Answer, Refusals, IInv, HandlerInv
    <2> QED BY <2>2, <2>3, <2>5, <2>6 DEF IInv
  <1>2. CASE ConnLost
    <2>1. conn' \in BOOLEAN
      BY <1>2, Zenon DEF ConnLost
    <2> QED BY <1>2, <2>1
         DEF ConnLost, IInv, TypeOK, StreamInv, WireInv, HandlerInv, CallerInv
  <1>3. CASE CloseBody
    BY <1>3 DEF CloseBody, IInv, TypeOK, StreamInv, WireInv, HandlerInv, CallerInv
  <1> QED BY <1>1, <1>2, <1>3

\* ... and the caller's.
LEMMA CallerPreserves == IInv /\ Caller => IInv'
  <1> SUFFICES ASSUME IInv, Caller PROVE IInv'
    OBVIOUS
  <1> USE UploadAssumption DEF sourceVars, writerVars, wireVars, brokerVars, callerVars
  <1>1. CASE Send
    BY <1>1 DEF Send, IInv, TypeOK, StreamInv, WireInv, HandlerInv, CallerInv
  <1>2. CASE BuildFails
    <2>1. conn' \in BOOLEAN
      BY <1>2, Zenon DEF BuildFails
    <2> QED BY <1>2, <2>1 DEF BuildFails, IInv, TypeOK, StreamInv, WireInv, HandlerInv, CallerInv
  <1>3. CASE DoFails
    <2>1. conn' \in BOOLEAN
      BY <1>3, Zenon DEF DoFails
    <2> QED BY <1>3, <2>1 DEF DoFails, IInv, TypeOK, StreamInv, WireInv, HandlerInv, CallerInv
  <1>4. CASE Respond
    BY <1>4 DEF Respond, IInv, TypeOK, StreamInv, WireInv, HandlerInv, CallerInv
  <1>5. CASE Return
    BY <1>5, VerdictType DEF Return, IInv, TypeOK, StreamInv, WireInv, HandlerInv, CallerInv
  <1> QED BY <1>1, <1>2, <1>3, <1>4, <1>5 DEF Caller

\* The invariant holds throughout the call.
THEOREM UploadInductive == Spec => []IInv
  <1>1. IInv /\ UNCHANGED vars => IInv'
    BY DEF vars, sourceVars, writerVars, wireVars, brokerVars, callerVars,
           IInv, TypeOK, StreamInv, WireInv, HandlerInv, CallerInv
  <1>2. IInv /\ [Next]_vars => IInv'
    BY <1>1, WriterPreserves, HandlerPreserves, CallerPreserves DEF Next
  <1> QED BY <1>2, UploadInit, PTL DEF Spec

\* Upload never returns before its writer goroutine is done.
THEOREM NoGoroutineLeft == Spec => []NoWriterLeft
  <1>1. IInv => NoWriterLeft
    BY DEF IInv, CallerInv, NoWriterLeft
  <1> QED BY <1>1, UploadInductive, PTL

\* A nil result means the whole source is stored, although the caller forgives the
\* writer a closed pipe.
THEOREM NilIsStored == Spec => []NilMeansStored
  <1>1. ASSUME IInv, result = "nil" PROVE obj = "new" /\ sent = declared /\ werr # "source"
    <2>1. cpc = "returned" /\ Verdict(cause, status, werr) = "nil" /\ cause # "none"
      BY <1>1 DEF IInv, TypeOK, CallerInv
    <2>2. cause = "ok" /\ werr # "source"
      BY <1>1, <2>1 DEF IInv, TypeOK, Verdict, MapHTTPStatus
    <2> QED BY <1>1, <2>2 DEF IInv, CallerInv, HandlerInv
  <1>2. IInv => NilMeansStored
    BY <1>1 DEF NilMeansStored
  <1> QED BY <1>2, UploadInductive, PTL

\* A throttled upload is reported as retryable, nothing else is, and the retry
\* starts from an untouched destination.
THEOREM BackpressureHolds == Spec => []BackpressureIsFaithful
  <1>1. ASSUME IInv, cpc = "returned"
        PROVE  result = "retry" <=> cause = "status" /\ status = 429
    <2>1. result = Verdict(cause, status, werr) /\ status # 503
      BY <1>1 DEF IInv, CallerInv, TypeOK, Statuses, Refusals
    <2> QED BY <2>1 DEF Verdict, MapHTTPStatus
  <1>2. IInv => BackpressureIsFaithful
    BY <1>1 DEF IInv, HandlerInv, BackpressureIsFaithful
  <1> QED BY <1>2, UploadInductive, PTL

-----------------------------------------------------------------------------
(***************************************************************************)
(* The upload made again: UploadRetry, for every number of attempts and    *)
(* every size.                                                             *)
(***************************************************************************)

\* A handler that does nothing more, and one that has opened the destination and not
\* failed.
Resting == {"none", "answered", "failed"}
Opened  == {"open", "stat", "answered"}

\* The client speaks of an attempt it has made, an acknowledged one was answered,
\* and no handler is ahead of the client or has written before it opened its file.
AttemptInv ==
    /\ client # "idle" => cur \in Ids
    /\ client = "acked" => h[cur] = "answered"
    /\ \A a \in Ids : a > cur => h[a] = "none"
    /\ \A a \in Ids : h[a] \in {"none", "parsed"} => off[a] = 0

\* A handler that started alone stays alone until the next attempt, so the entry is
\* the file it opened and that file holds what it has written.
LoneInv ==
    alone => \A a \in Ids :
        /\ a # cur => h[a] \in Resting
        /\ a = cur /\ h[a] = "open" =>
             entry # Absent /\ fd[a] = entry /\ data[entry] = 1..off[a]
        /\ a = cur /\ h[a] \in {"stat", "answered"} => Whole

\* Nothing has failed and nothing is short, up to now: it was so at every earlier
\* step as well.
Clean == ~faulted /\ \A a \in 1..cur : bodies[a] = Size

\* In a clean run the entry never goes away once it is there, every handler has that
\* one file open, and the last one to have truncated it finds its own bytes there:
\* the others can only have added to them.
ConvergeInv ==
    Clean =>
        /\ \A a \in Ids : h[a] \in Opened => entry # Absent /\ fd[a] = entry
        /\ \A a \in Ids : h[a] \in {"stat", "answered"} => off[a] = Size
        /\ (\E a \in Ids : h[a] \in Opened) =>
             \E a \in Ids : h[a] \in Opened /\ 1..off[a] \subseteq data[entry]

RetryInv == RetryTypeOK /\ AttemptInv /\ LoneInv /\ ConvergeInv

\* The invariant holds before the first attempt.
LEMMA RetryStarts == RetryInit => RetryInv
  <1> SUFFICES ASSUME RetryInit PROVE RetryInv
    OBVIOUS
  <1> USE RetryAssumption DEF RetryInit, Ids
  <1>1. RetryTypeOK
    <2>1. data \in [Inodes -> SUBSET Bytes] /\ entry \in Inodes \cup {Absent}
      BY DEF Inodes
    <2>2. fd \in [Ids -> Inodes]
      BY DEF Inodes
    <2>3. bodies \in [Ids -> 0..Size] /\ off \in [Ids -> 0..Size]
      OBVIOUS
    <2>4. h \in [Ids -> {"none", "parsed", "open", "stat", "answered", "failed"}]
      OBVIOUS
    <2>5. cur \in 0..Attempts /\ client = "idle" /\ alone = TRUE /\ faulted = FALSE
      OBVIOUS
    <2> QED
      BY ONLY <2>1, <2>2, <2>3, <2>4, <2>5 DEF RetryTypeOK
  <1>2. AttemptInv /\ LoneInv
    BY DEF AttemptInv, LoneInv, Resting
  <1>3. ConvergeInv
    BY DEF ConvergeInv, Opened
  <1> QED
    BY <1>1, <1>2, <1>3 DEF RetryInv

\* Every step keeps the types.
LEMMA RetryTyped == RetryTypeOK /\ [RetryNext]_(retryVars) => RetryTypeOK'
  <1> SUFFICES ASSUME RetryTypeOK, [RetryNext]_(retryVars) PROVE RetryTypeOK'
    OBVIOUS
  <1> USE RetryAssumption DEF RetryTypeOK, Ids, Inodes, Bytes, Absent,
              clientVars, handlerVars, diskVars
  <1>1. CASE UNCHANGED retryVars
    BY <1>1 DEF retryVars
  <1>2. CASE Attempt
    BY SMTT(20), <1>2 DEF Attempt, Quiet
  <1>3. CASE GiveUp \/ Acked
    BY <1>3, Zenon DEF GiveUp, Acked
  <1>4. ASSUME NEW a \in Ids, Serve(a) PROVE RetryTypeOK'
    <2>1. CASE RefuseAttempt(a)
      BY <2>1 DEF RefuseAttempt
    <2>2. CASE OpenDest(a)
      <3>1. entry' \in Inodes /\ fd' = [fd EXCEPT ![a] = entry']
            /\ data' = [data EXCEPT ![entry'] = {}]
        BY <2>2 DEF OpenDest
      <3>2. data' \in [Inodes -> SUBSET Bytes] /\ fd' \in [Ids -> Inodes]
        BY <3>1
      <3> QED
        BY <2>2, <3>1, <3>2, Zenon DEF OpenDest
    <2>3. CASE Copy(a)
      <3>1. off[a] + 1 \in Bytes /\ fd[a] \in Inodes
        BY <2>3 DEF Copy
      <3>2. data[fd[a]] \cup {off[a] + 1} \in SUBSET Bytes
        BY <3>1
      <3>3. data' \in [Inodes -> SUBSET Bytes]
        BY <2>3, <3>1, <3>2 DEF Copy
      <3>4. off' \in [Ids -> 0..Size]
        BY <2>3, <3>1 DEF Copy
      <3> QED
        BY <2>3, <3>3, <3>4, Zenon DEF Copy
    <2>4. CASE CopyBreaks(a)
      BY <2>4 DEF CopyBreaks
    <2>5. CASE Check(a)
      <3>1. h' \in [Ids -> {"none", "parsed", "open", "stat", "answered", "failed"}]
        BY <2>5, Zenon DEF Check
      <3> QED
        BY <2>5, <3>1 DEF Check
    <2>6. CASE Stat(a)
      <3>1. h' \in [Ids -> {"none", "parsed", "open", "stat", "answered", "failed"}]
        BY <2>6 DEF Stat
      <3> QED
        BY <2>6, <3>1 DEF Stat
    <2> QED
      BY <1>4, <2>1, <2>2, <2>3, <2>4, <2>5, <2>6, Zenon DEF Serve
  <1> QED
    BY <1>1, <1>2, <1>3, <1>4, Zenon DEF RetryNext

\* Every step keeps what is said of the attempts.
LEMMA RetryClient == RetryInv /\ [RetryNext]_(retryVars) => AttemptInv'
  <1> SUFFICES ASSUME RetryInv, [RetryNext]_(retryVars) PROVE AttemptInv'
    OBVIOUS
  <1> USE RetryAssumption DEF RetryInv, RetryTypeOK, AttemptInv, Ids,
              clientVars, handlerVars, diskVars
  <1>1. CASE UNCHANGED retryVars
    BY <1>1 DEF retryVars
  <1>2. CASE Attempt
    BY SMTT(20), <1>2 DEF Attempt, Quiet
  <1>3. CASE GiveUp \/ Acked
    BY <1>3 DEF GiveUp, Acked
  <1>4. ASSUME NEW a \in Ids, Serve(a) PROVE AttemptInv'
    <2>1. CASE RefuseAttempt(a)
      BY <2>1 DEF RefuseAttempt
    <2>2. CASE OpenDest(a)
      BY <2>2 DEF OpenDest
    <2>3. CASE Copy(a)
      BY <2>3 DEF Copy
    <2>4. CASE CopyBreaks(a)
      BY <2>4 DEF CopyBreaks
    <2>5. CASE Check(a)
      BY <2>5 DEF Check
    <2>6. CASE Stat(a)
      BY <2>6 DEF Stat
    <2> QED
      BY <1>4, <2>1, <2>2, <2>3, <2>4, <2>5, <2>6 DEF Serve
  <1> QED
    BY <1>1, <1>2, <1>3, <1>4 DEF RetryNext

\* Every step keeps what is said of an attempt that started alone.
LEMMA RetryLone == RetryInv /\ [RetryNext]_(retryVars) => LoneInv'
  <1> SUFFICES ASSUME RetryInv, [RetryNext]_(retryVars) PROVE LoneInv'
    OBVIOUS
  <1> USE RetryAssumption DEF RetryInv, RetryTypeOK, AttemptInv, LoneInv, Whole, Resting,
              Ids, Inodes, Bytes, Absent,
              clientVars, handlerVars, diskVars
  <1>1. CASE UNCHANGED retryVars
    BY <1>1 DEF retryVars
  <1>2. CASE Attempt
    BY <1>2, Zenon DEF Attempt, Quiet
  <1>3. CASE GiveUp \/ Acked
    BY <1>3, Zenon DEF GiveUp, Acked
  <1>4. ASSUME NEW a \in Ids, Serve(a) PROVE LoneInv'
    <2> SUFFICES ASSUME alone, a = cur PROVE LoneInv'
      BY <1>4, Zenon DEF Serve, RefuseAttempt, OpenDest, Copy, CopyBreaks,
                  Check, Stat
    <2>1. CASE RefuseAttempt(a)
      BY <2>1 DEF RefuseAttempt
    <2>2. CASE OpenDest(a)
      BY <2>2 DEF OpenDest
    <2>3. CASE Copy(a)
      <3>1. /\ entry \in Inodes /\ fd[a] = entry /\ data[entry] = 1..off[a] /\ off[a] \in Nat
            /\ h' = h /\ fd' = fd /\ entry' = entry /\ cur' = cur /\ off'[a] = off[a] + 1
        BY <2>3 DEF Copy
      <3>2. data'[entry] = data[entry] \cup {off[a] + 1}
        BY <2>3, <3>1 DEF Copy
      <3>3. data'[entry] = 1..off'[a]
        BY <3>1, <3>2
      <3> QED
        BY <2>3, <3>1, <3>3 DEF Copy
    <2>4. CASE CopyBreaks(a)
      BY <2>4 DEF CopyBreaks
    <2>5. CASE Check(a)
      BY <2>5 DEF Check
    <2>6. CASE Stat(a)
      BY <2>6 DEF Stat
    <2> QED
      BY <1>4, <2>1, <2>2, <2>3, <2>4, <2>5, <2>6 DEF Serve
  <1> QED
    BY <1>1, <1>2, <1>3, <1>4 DEF RetryNext

\* Every step keeps what is said of a clean run.
LEMMA RetryConverge == RetryInv /\ [RetryNext]_(retryVars) => ConvergeInv'
  <1> SUFFICES ASSUME RetryInv, [RetryNext]_(retryVars) PROVE ConvergeInv'
    OBVIOUS
  <1> USE RetryAssumption DEF RetryInv, RetryTypeOK, AttemptInv, ConvergeInv, Clean, Opened,
              Ids, Inodes, Bytes, Absent,
              clientVars, handlerVars, diskVars
  <1>1. CASE UNCHANGED retryVars
    BY <1>1 DEF retryVars
  <1>2. CASE Attempt
    <2> SUFFICES ASSUME Clean' PROVE ConvergeInv'
      BY DEF ConvergeInv
    <2>1. Clean
      BY <1>2 DEF Attempt
    <2>2. \A a \in Ids : h'[a] \in Opened <=> h[a] \in Opened
      BY <1>2 DEF Attempt
    <2>3. \A a \in Ids : h'[a] \in {"stat", "answered"} <=> h[a] \in {"stat", "answered"}
      BY <1>2 DEF Attempt
    <2>4. off' = off /\ fd' = fd /\ entry' = entry /\ data' = data
      BY <1>2 DEF Attempt
    <2> QED
      BY <2>1, <2>2, <2>3, <2>4
  <1>3. CASE GiveUp \/ Acked
    BY <1>3, Zenon DEF GiveUp, Acked
  <1>4. ASSUME NEW a \in Ids, Serve(a) PROVE ConvergeInv'
    <2>1. CASE RefuseAttempt(a)
      BY <2>1, Zenon DEF RefuseAttempt
    <2>2. CASE OpenDest(a)
      <3> SUFFICES ASSUME Clean PROVE ConvergeInv'
        BY <2>2 DEF OpenDest
      <3>1. entry' \in Inodes /\ fd' = [fd EXCEPT ![a] = entry'] /\ off' = off /\ off[a] = 0
            /\ h' = [h EXCEPT ![a] = "open"]
        BY <2>2 DEF OpenDest
      <3>2. \A b \in Ids : h[b] \in Opened => entry' = entry
        BY <2>2 DEF OpenDest
      <3>3. ASSUME NEW b \in Ids, h'[b] \in Opened PROVE entry' # Absent /\ fd'[b] = entry'
        <4>1. CASE b = a
          BY <3>1, <4>1
        <4>2. CASE b # a
          BY <3>1, <3>2, <3>3, <4>2
        <4> QED
          BY <4>1, <4>2
      <3>4. h'[a] \in Opened /\ 1..off'[a] \subseteq data'[entry']
        BY <3>1
      <3>5. \A b \in Ids : h'[b] \in {"stat", "answered"} => off'[b] = Size
        BY <3>1, Zenon
      <3> QED
        BY <3>3, <3>4, <3>5, Zenon
    <2>3. CASE Copy(a)
      <3> SUFFICES ASSUME Clean PROVE ConvergeInv'
        BY <2>3 DEF Copy
      <3>0. /\ entry \in Inodes /\ fd[a] = entry /\ h' = h /\ fd' = fd /\ entry' = entry
            /\ off' = [off EXCEPT ![a] = @ + 1]
        BY <2>3 DEF Copy
      <3>1. off[a] < Size /\ data'[entry] = data[entry] \cup {off[a] + 1}
        BY <2>3, <3>0 DEF Copy
      <3>2. PICK w \in Ids : h[w] \in Opened /\ 1..off[w] \subseteq data[entry]
        BY <2>3 DEF Copy
      <3>3. 1..off'[w] \subseteq data'[entry']
        BY <3>0, <3>1, <3>2
      <3>4. \A b \in Ids : h[b] \in {"stat", "answered"} => off'[b] = Size
        BY <2>3, <3>0, Zenon DEF Copy
      <3> QED
        BY <3>0, <3>2, <3>3, <3>4, Zenon
    <2>4. CASE CopyBreaks(a)
      BY <2>4 DEF CopyBreaks
    <2>5. CASE Check(a)
      <3> SUFFICES ASSUME Clean PROVE ConvergeInv'
        BY <2>5 DEF Check
      <3>1. a \in 1..cur
        BY <2>5 DEF Check
      <3>2. off[a] = Size /\ h[a] = "open" /\ h' = [h EXCEPT ![a] = "stat"]
        BY <2>5, <3>1 DEF Check
      <3>3. UNCHANGED <<off, fd, entry, data>>
        BY <2>5, <3>2 DEF Check
      <3>4. \A b \in Ids : h'[b] \in Opened <=> h[b] \in Opened
        BY <3>2
      <3> QED
        BY <3>2, <3>3, <3>4, Zenon
    <2>6. CASE Stat(a)
      BY <2>6, Zenon DEF Stat
    <2> QED
      BY <1>4, <2>1, <2>2, <2>3, <2>4, <2>5, <2>6 DEF Serve
  <1> QED
    BY <1>1, <1>2, <1>3, <1>4, Zenon DEF RetryNext

\* The invariant holds throughout, for every number of attempts and every size.
THEOREM RetryInductive == RetrySpec => []RetryInv
  <1>1. RetryInv /\ [RetryNext]_(retryVars) => RetryInv'
    BY RetryTyped, RetryClient, RetryLone, RetryConverge DEF RetryInv
  <1> QED
    BY RetryStarts, <1>1, PTL DEF RetrySpec

\* fileUpload is repeatable.  Once every handler is at rest an acknowledged upload is
\* what the path holds, in whatever order the handlers of its attempts ran, if all
\* attempts were whole and no write failed.
THEOREM AttemptsConverge == RetrySpec => []WholeAttemptsConverge
  <1>1. ASSUME RetryInv, client = "acked", Quiet, Clean PROVE Whole
    <2> USE RetryAssumption DEF Ids
    <2>1. cur \in Ids /\ h[cur] \in Opened
      BY <1>1 DEF RetryInv, AttemptInv, Opened
    <2>2. PICK w \in Ids : h[w] \in Opened /\ 1..off[w] \subseteq data[entry]
      BY <1>1, <2>1 DEF RetryInv, ConvergeInv
    <2>3. h[w] = "answered" /\ off[w] = Size
      BY <1>1, <2>2 DEF RetryInv, ConvergeInv, Quiet, Opened
    <2>4. entry # Absent /\ entry \in Inodes /\ data[entry] \subseteq Bytes
      BY <1>1, <2>1 DEF RetryInv, RetryTypeOK, ConvergeInv
    <2> QED
      BY <2>2, <2>3, <2>4, Zenon DEF Whole, Bytes
  <1>2. RetryInv => WholeAttemptsConverge
    BY <1>1 DEF WholeAttemptsConverge, Clean
  <1> QED
    BY RetryInductive, <1>2, PTL

\* An attempt that started when all earlier handlers were at rest is whole from its
\* acknowledgement on, whatever they left at the path.
THEOREM LoneAckHolds == RetrySpec => []LoneAckIsWhole
  <1>1. RetryInv => LoneAckIsWhole
    BY DEF RetryInv, AttemptInv, LoneInv, LoneAckIsWhole
  <1> QED
    BY RetryInductive, <1>1, PTL
=============================================================================
