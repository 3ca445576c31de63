------------------------------ MODULE Download ------------------------------
(***************************************************************************)
(* One read of an Object: Open turns rclone's range and seek options into a*)
(* window against the size the Object holds, DownloadRange asks the broker *)
(* for that window, the filestore clamps it to the file, and boundedBody   *)
(* hands the bytes on and fails a body that is longer than what was asked. *)
(* The size the Object holds may be stale, the file may be cut while it is *)
(* streamed, the connection may be lost, and a broker may ignore the range.*)
(* Offsets and lengths are signed integers that wrap around past MaxInt.   *)
(***************************************************************************)
EXTENDS Integers

CONSTANTS MaxInt,       \* the largest integer: 2^63 - 1 for an int64
          MaxSize,      \* bound: the longest file
          Cap           \* maxDownloadBytes

ASSUME DownloadAssumption ==
    /\ MaxInt \in Nat \ {0} /\ MaxSize \in 0..MaxInt /\ Cap \in 0..MaxInt

Ints    == (-MaxInt - 1)..MaxInt
Wrap(x) == ((x + MaxInt + 1) % (2 * (MaxInt + 1))) - MaxInt - 1
Lower(a, b) == IF a < b THEN a ELSE b

\* What rclone asks for: all of the object, from an offset, or a range whose ends are
\* inclusive and -1 where they are open.
Options ==
    [kind : {"none"}, start : {0}, end : {0}]
    \cup [kind : {"seek"}, start : 0..MaxInt, end : {0}]
    \cup {o \in [kind : {"range"}, start : -1..MaxInt, end : -1..MaxInt] :
             o.start = -1 \/ o.end = -1 \/ o.start <= o.end}

NoRange == [offset |-> -1, length |-> -1]

VARIABLES
    opt, held,      \* the option, and the size the Object holds
    total,          \* the size of the file
    pc,             \* open, wire, answered, stream, done
    rng, limit,     \* the range of the request, and boundedBody's limit
    ignored,        \* did the broker ignore the range?
    declared,       \* Content-Length of the answer, -1 if chunked
    first, body,    \* the body starts after byte first of the file and has so many left
    remaining, got, \* boundedBody's remaining, and the bytes the reader has
    fault,          \* has the connection or the broker failed, or was the file cut?
    result          \* none, eof or error

reqVars  == <<opt, held, total>>
bodyVars == <<first, body>>
vars     == <<reqVars, pc, rng, limit, ignored, declared, bodyVars, remaining, got, fault, result>>

\* The types, and: the filestore never declares fewer bytes than none, or sends more
\* than lie between the start of the window and the end of the file.
TypeOK ==
    /\ opt \in Options /\ held \in 0..MaxSize /\ total \in 0..MaxSize
    /\ pc \in {"open", "wire", "answered", "stream", "done"}
    /\ rng \in [offset : Ints, length : Ints] /\ limit \in Ints
    /\ ignored \in BOOLEAN /\ declared \in -1..MaxSize
    /\ first \in 0..MaxSize /\ body \in 0..(total - first) /\ remaining \in 0..MaxInt /\ got \in Nat
    /\ fault \in BOOLEAN /\ result \in {"none", "eof", "error"}

Init ==
    /\ opt \in Options /\ held \in 0..MaxSize /\ total \in 0..MaxSize
    /\ pc = "open" /\ rng = NoRange /\ limit = 0 /\ ignored = FALSE /\ declared = -1
    /\ first = 0 /\ body = 0 /\ remaining = 0 /\ got = 0
    /\ fault = FALSE /\ result = "none"

-----------------------------------------------------------------------------
(* Object.Open and DownloadRange *)

ToEnd(off) == IF Wrap(held - off) < 0 THEN 0 ELSE Wrap(held - off)

\* fs.RangeOption.Decode: an offset and a limit, -1 for "to the end".
Decode(o) ==
    IF o.start >= 0
    THEN <<o.start, IF o.end >= 0 THEN Wrap(o.end - o.start + 1) ELSE -1>>
    ELSE <<IF o.end >= 0 THEN Wrap(held - o.end) ELSE 0, -1>>

\* The window Open asks for.
Window ==
    IF opt.kind = "seek" THEN [offset |-> opt.start, length |-> ToEnd(opt.start)]
    ELSE LET d == Decode(opt)
         IN  [offset |-> d[1], length |-> IF d[2] = -1 THEN ToEnd(d[1]) ELSE d[2]]

Done(r) == pc' = "done" /\ result' = r

OpenFull ==
    /\ pc = "open" /\ opt.kind = "none"
    /\ pc' = "wire" /\ limit' = Cap
    /\ UNCHANGED <<reqVars, rng, ignored, declared, bodyVars, remaining, got, fault, result>>

OpenRefused ==
    /\ pc = "open" /\ opt.kind # "none"
    /\ Window.offset < 0 \/ Window.length < 0
    /\ Done("error")
    /\ UNCHANGED <<reqVars, rng, limit, ignored, declared, bodyVars, remaining, got, fault>>

\* A window of length 0 is answered without a call.
OpenEmpty ==
    /\ pc = "open" /\ opt.kind # "none"
    /\ Window.offset >= 0 /\ Window.length = 0
    /\ Done("eof")
    /\ UNCHANGED <<reqVars, rng, limit, ignored, declared, bodyVars, remaining, got, fault>>

OpenRange ==
    /\ pc = "open" /\ opt.kind # "none"
    /\ Window.offset >= 0 /\ Window.length > 0
    /\ pc' = "wire" /\ rng' = Window /\ limit' = Window.length
    /\ UNCHANGED <<reqVars, ignored, declared, bodyVars, remaining, got, fault, result>>

-----------------------------------------------------------------------------
(* The broker *)

\* The transport fails, or the broker answers with another status than 2xx.
CallFails ==
    /\ pc = "wire" /\ Done("error") /\ fault' = TRUE
    /\ UNCHANGED <<reqVars, rng, limit, ignored, declared, bodyVars, remaining, got>>

Start == Lower(rng.offset, total)
End   == Wrap(Start + rng.length)

\* handleFileDownload: the window clamped to the file, its length declared.
Serve ==
    /\ pc = "wire" /\ (rng = NoRange \/ End >= Start)
    /\ LET s == IF rng = NoRange THEN 0 ELSE Start
           n == IF rng = NoRange THEN total ELSE Lower(End, total) - Start
       IN  first' = s /\ body' = n /\ declared' = n
    /\ pc' = "answered"
    /\ UNCHANGED <<reqVars, rng, limit, ignored, remaining, got, fault, result>>

\* handleFileDownload: 400, the end of the window is not representable.
ServeOverflow ==
    /\ pc = "wire" /\ rng # NoRange /\ End < Start
    /\ Done("error")
    /\ UNCHANGED <<reqVars, rng, limit, ignored, declared, bodyVars, remaining, got, fault>>

\* A broker that does not honour the range sends the whole file, chunked or not.
ServeIgnoring ==
    /\ pc = "wire" /\ rng # NoRange
    /\ pc' = "answered" /\ ignored' = TRUE /\ body' = total /\ declared' \in {total, -1}
    /\ UNCHANGED <<reqVars, rng, limit, first, remaining, got, fault, result>>

-----------------------------------------------------------------------------
(* doDownload and boundedBody *)

\* Mutant: an answer that fills the window is taken for an over-delivery.
AcceptStrictly ==
    /\ pc = "answered"
    /\ \/ declared >= limit /\ Done("error") /\ UNCHANGED remaining
       \/ declared < limit /\ pc' = "stream" /\ remaining' = limit /\ UNCHANGED result
    /\ UNCHANGED <<reqVars, rng, limit, ignored, declared, bodyVars, got, fault>>

\* doDownload fails an answer that declares more than the limit.
Accept ==
    /\ pc = "answered"
    /\ \/ declared > limit /\ Done("error") /\ UNCHANGED remaining
       \/ declared <= limit /\ pc' = "stream" /\ remaining' = limit /\ UNCHANGED result
    /\ UNCHANGED <<reqVars, rng, limit, ignored, declared, bodyVars, got, fault>>

\* The file is cut while it is streamed, or the connection is lost: the body ends short.
Cut ==
    /\ pc = "stream" /\ body > 0
    /\ fault' = TRUE /\ \E b \in 0..(body - 1) : body' = b
    /\ UNCHANGED <<reqVars, pc, rng, limit, ignored, declared, first, remaining, got, result>>

\* Read: some of the body, never past what remains.
Read ==
    /\ pc = "stream" /\ remaining > 0 /\ body > 0
    /\ \E n \in 1..Lower(body, remaining) :
          body' = body - n /\ got' = got + n /\ remaining' = remaining - n
    /\ UNCHANGED <<reqVars, pc, rng, limit, ignored, declared, first, fault, result>>

\* Mutant: at the limit the stream is over, whatever else the body has.
ProbeSkipped ==
    /\ pc = "stream" /\ remaining <= 0 /\ Done("eof")
    /\ UNCHANGED <<reqVars, rng, limit, ignored, declared, bodyVars, remaining, got, fault>>

\* Read at the limit: one more byte is an over-delivery.
Probe ==
    /\ pc = "stream" /\ remaining <= 0 /\ body > 0 /\ Done("error")
    /\ UNCHANGED <<reqVars, rng, limit, ignored, declared, bodyVars, remaining, got, fault>>

\* The body's end: net/http reports a body that ends before its length or last chunk.
EndOfBody ==
    /\ pc = "stream" /\ body = 0
    /\ Done(IF fault THEN "error" ELSE "eof")
    /\ UNCHANGED <<reqVars, rng, limit, ignored, declared, bodyVars, remaining, got, fault>>

Open   == OpenFull \/ OpenRefused \/ OpenEmpty \/ OpenRange
Broker == CallFails \/ Serve \/ ServeOverflow \/ ServeIgnoring
Stream == Accept \/ Cut \/ Read \/ Probe \/ EndOfBody

Next == Open \/ Broker \/ Stream

Spec == Init /\ [][Next]_vars

-----------------------------------------------------------------------------
(* Properties *)

\* The bytes an option stands for, in a file of the size the Object holds.
Wanted ==
    LET In(lo, hi) == {i \in 1..total : lo < i /\ i <= hi}
    IN  CASE opt.kind = "none" -> 1..total
          [] opt.kind = "seek" -> In(opt.start, held)
          [] opt.kind = "range" ->
               IF opt.start >= 0
               THEN In(opt.start, IF opt.end >= 0 THEN opt.end + 1 ELSE held)
               ELSE In(IF opt.end >= 0 THEN held - opt.end ELSE 0, held)

Received == {i \in 1..total : first < i /\ i <= first + got}

\* A read that ends cleanly has delivered exactly the bytes asked for, from a broker
\* that ignores the range too unless the window reaches the end of the file: then the
\* head of the file has no more bytes than the window.
CleanReadIsWanted ==
    result = "eof" =>
        Received = Wanted \/ (ignored /\ rng.offset + rng.length >= total)

\* A read of an honest broker fails only over a fault, a file past the download cap,
\* or a window that starts before the file or whose end is not an integer.
HonestReadSucceeds ==
    result = "error" /\ ~fault /\ ~ignored =>
        \/ opt.kind = "none" /\ total > Cap
        \/ opt.kind = "range" /\ opt.start < 0 /\ opt.end > held
        \/ opt.kind = "range" /\ opt.end = MaxInt

=============================================================================
