----------------------------- MODULE ReadProofs -----------------------------
(***************************************************************************)
(* What reading promises, for every value of the constants: that a clean   *)
(* download delivers what was asked for and an honest broker's answer is   *)
(* not refused, for integers, files and caps of every size; that a listing *)
(* ends and lists exactly the children; and what an Object knows of its    *)
(* file while readers and Updates overlap.                                 *)
(***************************************************************************)
EXTENDS Download, Listing, ObjectHandle, Sequences, TLAPS

-----------------------------------------------------------------------------
(* Arithmetic.                                                               *)

\* An integer that fits is itself; one too large comes round once.
LEMMA WrapIs ==
  ASSUME NEW x \in Int, -MaxInt - 1 <= x, x <= 2 * MaxInt + 1
  PROVE  Wrap(x) = IF x <= MaxInt THEN x ELSE x - 2 * (MaxInt + 1)
<1>1. CASE x <= MaxInt
  BY <1>1, DownloadAssumption DEF Wrap
<1>2. CASE x > MaxInt
  BY <1>2, DownloadAssumption DEF Wrap
<1> QED BY <1>1, <1>2, DownloadAssumption

\* Less of a body leaves the sum below what it was below.
LEMMA AddLess ==
  ASSUME NEW b \in Nat, NEW c \in Nat, NEW g \in Nat, NEW s \in Nat, c < b, b + g <= s
  PROVE  c + g <= s
OBVIOUS

\* The bytes asked for are those after Lo and up to Hi.
Lo == IF opt.kind = "none" THEN 0
      ELSE IF opt.start >= 0 THEN opt.start
      ELSE IF opt.end >= 0 THEN held - opt.end ELSE 0
Hi == IF opt.kind = "none" THEN total
      ELSE IF opt.kind = "range" /\ opt.start >= 0 /\ opt.end >= 0 THEN opt.end + 1 ELSE held

\* What a caller of Open wants is one run of bytes, whichever option it gave.
LEMMA WantedIs ==
  ASSUME opt \in Options, held \in 0..MaxSize, total \in 0..MaxSize
  PROVE  Wanted = {i \in 1..total : Lo < i /\ i <= Hi}
<1> USE DownloadAssumption
<1>1. CASE opt.kind = "none"
  <2>1. Wanted = 1..total /\ Lo = 0 /\ Hi = total
    BY <1>1 DEF Wanted, Lo, Hi
  <2> QED BY <2>1
<1>2. CASE opt.kind = "seek"
  <2>1. opt.start >= 0
    BY <1>2 DEF Options
  <2> QED BY <1>2, <2>1 DEF Wanted, Lo, Hi
<1>3. CASE opt.kind = "range"
  <2>0. opt.start \in Int /\ opt.end \in Int
    BY <1>3 DEF Options
  <2>1. CASE opt.start >= 0 /\ opt.end >= 0
    BY <1>3, <2>0, <2>1 DEF Wanted, Lo, Hi
  <2>2. CASE opt.start >= 0 /\ opt.end < 0
    BY <1>3, <2>0, <2>2 DEF Wanted, Lo, Hi
  <2>3. CASE opt.start < 0 /\ opt.end >= 0
    BY <1>3, <2>0, <2>3 DEF Wanted, Lo, Hi
  <2>4. CASE opt.start < 0 /\ opt.end < 0
    BY <1>3, <2>0, <2>4 DEF Wanted, Lo, Hi
  <2> QED BY <2>0, <2>1, <2>2, <2>3, <2>4
<1> QED BY <1>1, <1>2, <1>3 DEF Options

\* What Open asks the broker for: the bytes wanted, or nothing, or a window whose
\* ends an integer does not hold.
LEMMA WindowIs ==
  ASSUME opt \in Options, opt.kind # "none", held \in 0..MaxSize
  PROVE  /\ Window.offset \in Ints /\ Window.length \in Ints
         /\ Window = [offset |-> Window.offset, length |-> Window.length]
         /\ Window.offset = Lo /\ Lo \in Int /\ Hi \in Int
         /\ Window.length = 0 => Hi <= Lo
         /\ Window.length > 0 => Lo + Window.length = Hi
         /\ Window.length < 0 => opt.kind = "range" /\ opt.end = MaxInt
         /\ Window.offset < 0 => opt.kind = "range" /\ opt.start < 0 /\ opt.end > held
         /\ Hi > MaxInt => opt.kind = "range" /\ opt.end = MaxInt
<1> USE DownloadAssumption
<1>0. ASSUME NEW off \in Int, held - MaxInt <= off, off <= MaxInt
      PROVE  ToEnd(off) = IF held < off THEN 0 ELSE held - off
  BY <1>0, WrapIs DEF ToEnd
<1>1. CASE opt.kind = "seek"
  <2>1. opt.start \in 0..MaxInt
    BY <1>1 DEF Options
  <2>2. Window = [offset |-> opt.start, length |-> IF held < opt.start THEN 0 ELSE held - opt.start]
    BY <1>0, <1>1, <2>1 DEF Window
  <2>3. Lo = opt.start /\ Hi = held
    BY <1>1, <2>1 DEF Lo, Hi
  <2> QED BY <1>1, <2>1, <2>2, <2>3 DEF Ints
<1>2. CASE opt.kind = "range"
  <2>0. /\ opt.start \in -1..MaxInt /\ opt.end \in -1..MaxInt
        /\ opt.start = -1 \/ opt.end = -1 \/ opt.start <= opt.end
    BY <1>2 DEF Options
  <2>1. CASE opt.start >= 0 /\ opt.end >= 0
    <3>1. Decode(opt) = <<opt.start, Wrap(opt.end - opt.start + 1)>>
      BY <2>0, <2>1 DEF Decode
    <3> DEFINE n == opt.end - opt.start + 1
    <3>2. Wrap(n) = IF n <= MaxInt THEN n ELSE n - 2 * (MaxInt + 1)
      BY <2>0, <2>1, WrapIs
    <3>3. Wrap(n) # -1
      BY <2>0, <2>1, <3>2
    <3>4. Window = [offset |-> opt.start, length |-> Wrap(n)]
      BY <1>2, <3>1, <3>3 DEF Window
    <3>5. Lo = opt.start /\ Hi = opt.end + 1
      BY <1>2, <2>0, <2>1 DEF Lo, Hi
    <3> QED BY <1>2, <2>0, <2>1, <3>2, <3>4, <3>5 DEF Ints
  <2>2. CASE opt.start >= 0 /\ opt.end < 0
    <3>1. Window = [offset |-> opt.start, length |-> IF held < opt.start THEN 0 ELSE held - opt.start]
      BY <1>0, <1>2, <2>0, <2>2 DEF Window, Decode
    <3>2. Lo = opt.start /\ Hi = held
      BY <1>2, <2>0, <2>2 DEF Lo, Hi
    <3> QED BY <1>2, <2>0, <2>2, <3>1, <3>2 DEF Ints
  <2>3. CASE opt.start < 0 /\ opt.end >= 0
    <3>1. Wrap(held - opt.end) = held - opt.end
      BY <2>0, <2>3, WrapIs
    <3>2. Decode(opt) = <<held - opt.end, -1>>
      BY <2>0, <2>3, <3>1 DEF Decode
    <3>3. Window = [offset |-> held - opt.end, length |-> opt.end]
      BY <1>0, <1>2, <2>0, <2>3, <3>2 DEF Window
    <3>4. Lo = held - opt.end /\ Hi = held
      BY <1>2, <2>0, <2>3 DEF Lo, Hi
    <3> QED BY <1>2, <2>0, <2>3, <3>3, <3>4 DEF Ints
  <2>4. CASE opt.start < 0 /\ opt.end < 0
    <3>1. Decode(opt) = <<0, -1>>
      BY <2>0, <2>4 DEF Decode
    <3>2. Window = [offset |-> 0, length |-> held]
      BY <1>0, <1>2, <2>0, <2>4, <3>1 DEF Window
    <3>3. Lo = 0 /\ Hi = held
      BY <1>2, <2>0, <2>4 DEF Lo, Hi
    <3> QED BY <1>2, <2>0, <2>4, <3>2, <3>3 DEF Ints
  <2> QED BY <2>0, <2>1, <2>2, <2>3, <2>4
<1> QED BY <1>1, <1>2 DEF Options

-----------------------------------------------------------------------------
(* The inductive invariant.                                                  *)

\* The types the proof needs.
Types ==
    /\ opt \in Options /\ held \in 0..MaxSize /\ total \in 0..MaxSize
    /\ pc \in {"open", "wire", "answered", "stream", "done"}
    /\ ignored \in BOOLEAN /\ fault \in BOOLEAN /\ result \in {"none", "eof", "error"}
    /\ declared \in Int /\ body \in Nat /\ got \in Nat /\ remaining \in Int

\* The request is for the whole object, or for a window with something in it.
Full     == opt.kind = "none" /\ rng = NoRange /\ limit = Cap
Windowed == opt.kind # "none" /\ rng = Window /\ limit = Window.length
              /\ Window.offset >= 0 /\ Window.length > 0

\* The part of the file the broker's body is, while the broker and the file hold.
From == IF ignored \/ opt.kind = "none" THEN 0 ELSE Lower(Lo, total)
Size == IF ignored \/ opt.kind = "none" THEN total ELSE Lower(From + limit, total) - From

\* The request is one that Open sends.
Asked == (Full /\ ~ignored) \/ Windowed

\* Why an honest broker's answer may be refused.
Excuse ==
    \/ opt.kind = "none" /\ total > Cap
    \/ opt.kind = "range" /\ opt.start < 0 /\ opt.end > held
    \/ opt.kind = "range" /\ opt.end = MaxInt

\* Where the request is: what was asked for until the broker answers, what is left of
\* its body and of the limit while Read goes on, and how the read ended.
DInv ==
    /\ Types
    /\ result # "none" <=> pc = "done"
    /\ pc = "open" => rng = NoRange
    /\ pc \in {"open", "wire"} => first = 0 /\ got = 0 /\ ~ignored
    /\ pc \in {"open", "wire", "answered"} => ~fault
    /\ pc \in {"wire", "answered", "stream"} => Asked
    /\ pc = "answered" => first = From /\ body = Size /\ got = 0 /\ (~ignored => declared = Size)
    /\ pc = "stream" =>
         /\ first = From /\ body + got <= Size /\ (~fault => body + got = Size)
         /\ remaining = limit - got /\ remaining >= 0
         /\ ~ignored => Size <= limit
    /\ result = "eof" =>
         \/ Asked /\ first = From /\ got = Size /\ got <= limit
         \/ opt.kind # "none" /\ Window.length = 0 /\ first = 0 /\ got = 0 /\ ~ignored
    /\ result = "error" /\ ~fault /\ ~ignored => Excuse

\* What limits and lengths are, for a request that is out.
LEMMA AskedIs ==
  ASSUME Types, Asked
  PROVE  /\ limit \in Nat /\ limit <= MaxInt /\ From \in 0..total /\ Size \in 0..(total - From)
         /\ Windowed =>
              /\ Lo >= 0 /\ limit > 0 /\ Lo \in Int /\ Hi \in Int /\ Hi = Lo + limit
              /\ rng.offset = Lo /\ rng.length = limit /\ rng # NoRange
              /\ Hi > MaxInt => opt.kind = "range" /\ opt.end = MaxInt
         /\ Windowed /\ ~ignored => Size <= limit
<1> USE DownloadAssumption DEF Types
<1>1. CASE Full /\ ~ignored
  <2>1. From = 0 /\ Size = total /\ limit = Cap /\ ~Windowed
    BY <1>1 DEF Full, From, Size, Windowed
  <2> QED BY <2>1
<1>2. CASE Windowed
  <2>1. /\ Lo \in Int /\ Hi \in Int /\ Lo >= 0 /\ limit > 0 /\ limit \in Ints /\ Hi = Lo + limit
        /\ Hi > MaxInt => opt.kind = "range" /\ opt.end = MaxInt
        /\ rng = Window /\ Window.offset = Lo /\ Window.length = limit
    BY <1>2, WindowIs DEF Windowed
  <2>2. From = (IF ignored THEN 0 ELSE IF Lo < total THEN Lo ELSE total)
    BY <1>2 DEF From, Windowed, Lower
  <2>3. Size = IF ignored THEN total
               ELSE (IF From + limit < total THEN From + limit ELSE total) - From
    BY <1>2 DEF Size, Windowed, Lower
  <2>4. rng # NoRange
    BY <2>1 DEF NoRange
  <2> QED BY <2>1, <2>2, <2>3, <2>4 DEF Ints
<1> QED BY <1>1, <1>2 DEF Asked

\* Read goes through whole, or one of its steps does not touch the request.
LEMMA SameRequest ==
  ASSUME UNCHANGED <<reqVars, rng, limit, ignored>>
  PROVE  /\ Lo' = Lo /\ Hi' = Hi /\ From' = From /\ Size' = Size /\ Window' = Window
         /\ Full' = Full /\ Windowed' = Windowed /\ Asked' = Asked /\ Excuse' = Excuse
<1> USE DEF reqVars
<1>1. Lo' = Lo /\ Hi' = Hi
  BY DEF Lo, Hi
<1>2. From' = From
  BY <1>1 DEF From, Lower
<1>3. Size' = Size
  BY <1>2 DEF Size, Lower
<1>4. Window' = Window
  BY DEF Window, ToEnd, Decode
<1>5. Full' = Full /\ Windowed' = Windowed /\ Excuse' = Excuse
  BY <1>4 DEF Full, Windowed, Excuse
<1> QED BY <1>1, <1>2, <1>3, <1>4, <1>5 DEF Asked

\* The invariant holds when Open is called.
LEMMA DownloadInit == Init => DInv
<1> SUFFICES ASSUME Init PROVE DInv
  OBVIOUS
<1>0. declared \in Int /\ body \in Nat /\ got \in Nat /\ remaining \in Int
  BY DEF Init
<1>1. Types
  BY <1>0, Zenon DEF Init, Types
<1>2. /\ pc = "open" /\ result = "none" /\ rng = NoRange /\ first = 0 /\ got = 0
      /\ ~ignored /\ ~fault
  BY DEF Init
<1> QED BY <1>1, <1>2 DEF DInv

\* Open refuses, answers an empty window itself, or sends the request.
LEMMA OpenHolds == ASSUME DInv, Open PROVE DInv'
<1> USE DownloadAssumption DEF Types
<1>0. /\ Types /\ pc = "open" /\ rng = NoRange /\ first = 0 /\ got = 0 /\ ~ignored /\ ~fault
      /\ UNCHANGED <<reqVars, ignored, declared, bodyVars, remaining, got, fault>>
  BY DEF DInv, Open, OpenFull, OpenRefused, OpenEmpty, OpenRange
<1>1. Types' /\ first' = 0 /\ got' = 0 /\ ~ignored' /\ ~fault'
  <2>1. pc' \in {"wire", "done"} /\ result' \in {"none", "eof", "error"}
    BY <1>0 DEF DInv, Open, OpenFull, OpenRefused, OpenEmpty, OpenRange, Done
  <2> QED BY <1>0, <2>1 DEF reqVars, bodyVars
<1>2. Window' = Window /\ Excuse' = Excuse
  BY <1>0 DEF Window, ToEnd, Decode, Excuse, reqVars
<1>3. result = "none" /\ opt' = opt
  BY <1>0 DEF DInv, reqVars
<1>4. CASE OpenFull
  <2>1. pc' = "wire" /\ result' = "none" /\ Full'
    BY <1>0, <1>3, <1>4 DEF OpenFull, Full
  <2> QED BY <1>1, <2>1 DEF DInv, Asked
<1>5. CASE OpenRefused
  <2>1. pc' = "done" /\ result' = "error" /\ Excuse
    BY <1>0, <1>5, WindowIs DEF OpenRefused, Done, Excuse
  <2> QED BY <1>1, <1>2, <2>1 DEF DInv
<1>6. CASE OpenEmpty
  <2>1. pc' = "done" /\ result' = "eof" /\ opt.kind # "none" /\ Window.length = 0
    BY <1>6 DEF OpenEmpty, Done
  <2> QED BY <1>1, <1>2, <1>3, <2>1 DEF DInv
<1>7. CASE OpenRange
  <2>1. pc' = "wire" /\ result' = "none" /\ Windowed'
    BY <1>2, <1>3, <1>7 DEF OpenRange, Windowed
  <2> QED BY <1>1, <2>1 DEF DInv, Asked
<1> QED BY <1>4, <1>5, <1>6, <1>7 DEF Open

\* The end of the window, as the filestore computes it.
LEMMA EndIs ==
  ASSUME Types, Windowed, ~ignored
  PROVE  /\ Start = From
         /\ End >= Start <=> From + limit <= MaxInt
         /\ End >= Start => End = From + limit
<1> USE DownloadAssumption DEF Types
<1>1. /\ limit \in Nat /\ limit <= MaxInt /\ From \in 0..total /\ limit > 0
      /\ rng.offset = Lo /\ rng.length = limit
  BY AskedIs DEF Asked
<1>2. Start = From
  BY <1>1 DEF Start, From, Windowed
<1>3. End = IF From + limit <= MaxInt THEN From + limit ELSE From + limit - 2 * (MaxInt + 1)
  BY <1>1, <1>2, WrapIs DEF End
<1> QED BY <1>1, <1>2, <1>3

\* What the broker may answer: a refusal, the window, the file, or a fault.
LEMMA BrokerHolds == ASSUME DInv, Broker PROVE DInv'
<1> USE DownloadAssumption DEF Types
<1>0. /\ Types /\ pc = "wire" /\ first = 0 /\ got = 0 /\ ~ignored /\ ~fault /\ Asked /\ result = "none"
      /\ UNCHANGED <<reqVars, rng, limit, remaining, got>>
  BY DEF DInv, Broker, CallFails, Serve, ServeOverflow, ServeIgnoring
<1>1. CASE CallFails
  <2>1. pc' = "done" /\ result' = "error" /\ fault' /\ Types'
    BY <1>0, <1>1 DEF CallFails, Done, reqVars, bodyVars
  <2> QED BY <2>1 DEF DInv
<1>2. CASE Serve
  <2>0. /\ pc' = "answered" /\ UNCHANGED <<reqVars, rng, limit, ignored, remaining, got, fault, result>>
        /\ rng = NoRange \/ End >= Start
        /\ first' = IF rng = NoRange THEN 0 ELSE Start
        /\ body' = IF rng = NoRange THEN total ELSE Lower(End, total) - Start
        /\ declared' = body'
    BY <1>2 DEF Serve
  <2>1. first' = From /\ body' = Size
    <3>1. CASE Full
      BY <1>0, <2>0, <3>1 DEF Full, From, Size
    <3>2. CASE Windowed
      <4>1. rng # NoRange
        BY <1>0, <3>2, AskedIs
      <4>2. Start = From /\ End = From + limit
        BY <1>0, <2>0, <3>2, <4>1, EndIs
      <4>3. Size = Lower(From + limit, total) - From
        BY <1>0, <3>2 DEF Size, Windowed
      <4> QED BY <2>0, <4>1, <4>2, <4>3
    <3> QED BY <1>0, <3>1, <3>2 DEF Asked
  <2>2. Types'
    BY <1>0, <2>0, <2>1, AskedIs DEF reqVars
  <2>3. Asked' /\ From' = From /\ Size' = Size
    BY <1>0, <2>0, SameRequest
  <2> QED BY <1>0, <2>0, <2>1, <2>2, <2>3 DEF DInv
<1>3. CASE ServeOverflow
  <2>1. pc' = "done" /\ result' = "error" /\ Types' /\ UNCHANGED <<reqVars, rng, limit, ignored>>
    BY <1>0, <1>3 DEF ServeOverflow, Done, reqVars, bodyVars
  <2>2. rng # NoRange /\ ~(End >= Start)
    <3>1. rng # NoRange /\ End < Start
      BY <1>3 DEF ServeOverflow
    <3>2. Windowed
      BY <1>0, <3>1 DEF Asked, Full
    <3>3. Start \in Int /\ End \in Int
      <4>1. limit \in Nat /\ limit <= MaxInt /\ From \in 0..total /\ limit > 0 /\ rng.length = limit
        BY <1>0, <3>2, AskedIs
      <4>2. Start = From
        BY <1>0, <3>2, EndIs
      <4>3. End = Wrap(From + limit) /\ From + limit \in Int /\ From + limit <= 2 * MaxInt + 1
              /\ -MaxInt - 1 <= From + limit
        BY <1>0, <4>1, <4>2 DEF End
      <4>4. End \in Int
        BY <4>1, <4>3, WrapIs
      <4> QED BY <4>1, <4>2, <4>4
    <3> QED BY <3>1, <3>3
  <2>3. Windowed
    BY <1>0, <2>2 DEF Asked, Full
  <2>4. From + limit > MaxInt
    BY <1>0, <2>2, <2>3, AskedIs, EndIs
  <2>5. From <= Lo
    BY <1>0, <2>3, AskedIs DEF From, Windowed, Lower
  <2>6. Excuse
    BY <1>0, <2>3, <2>4, <2>5, AskedIs DEF Excuse
  <2> QED BY <1>0, <2>1, <2>6, SameRequest DEF DInv
<1>4. CASE ServeIgnoring
  <2>0. /\ pc' = "answered" /\ ignored' /\ body' = total /\ declared' \in {total, -1} /\ rng # NoRange
        /\ UNCHANGED <<reqVars, rng, limit, first, remaining, got, fault, result>>
    BY <1>4 DEF ServeIgnoring
  <2>1. Windowed
    BY <1>0, <2>0 DEF Asked, Full
  <2>2. Windowed'
    <3>1. Window' = Window
      BY <2>0 DEF Window, ToEnd, Decode, reqVars
    <3> QED BY <2>0, <2>1, <3>1 DEF Windowed, reqVars
  <2>3. From' = 0 /\ Size' = total
    BY <2>0 DEF From, Size, reqVars
  <2>4. Types'
    BY <1>0, <2>0 DEF reqVars
  <2> QED BY <1>0, <2>0, <2>2, <2>3, <2>4 DEF DInv, Asked
<1> QED BY <1>1, <1>2, <1>3, <1>4 DEF Broker

\* boundedBody checks the length that was declared, and hands on or cuts the body.
LEMMA StreamHolds == ASSUME DInv, Stream PROVE DInv'
<1> USE DownloadAssumption DEF Types
<1>0. /\ Types /\ pc \in {"answered", "stream"} /\ Asked /\ result = "none" /\ first = From
      /\ UNCHANGED <<reqVars, rng, limit, ignored, declared, first>>
  BY DEF DInv, Stream, Accept, Cut, Read, Probe, EndOfBody, bodyVars
<1>1. Asked' /\ From' = From /\ Size' = Size /\ Excuse' = Excuse /\ first' = From'
  BY <1>0, SameRequest
<1>2. limit \in Nat /\ Size \in Nat /\ (Windowed /\ ~ignored => Size <= limit)
  BY <1>0, AskedIs
<1>3. pc = "stream" =>
        /\ body + got <= Size /\ (~fault => body + got = Size)
        /\ remaining = limit - got /\ remaining >= 0
        /\ ~ignored => Size <= limit
  BY DEF DInv
<1>4. CASE Accept
  <2>0. /\ pc = "answered" /\ body = Size /\ got = 0 /\ ~fault /\ (~ignored => declared = Size)
        /\ UNCHANGED <<body, got, fault>>
    BY <1>4 DEF Accept, DInv, bodyVars
  <2>1. CASE declared > limit /\ Done("error") /\ UNCHANGED remaining
    <3>1. pc' = "done" /\ result' = "error" /\ Types'
      BY <1>0, <2>0, <2>1 DEF Done, reqVars
    <3>2. ~ignored => Full
      BY <1>0, <1>2, <2>0, <2>1 DEF Asked
    <3>3. ~ignored => Excuse
      BY <1>0, <2>0, <2>1, <3>2 DEF Full, Size, Excuse
    <3> QED BY <1>0, <1>1, <3>1, <3>3 DEF DInv
  <2>2. CASE declared <= limit /\ pc' = "stream" /\ remaining' = limit /\ UNCHANGED result
    <3>1. Types'
      BY <1>0, <1>2, <2>0, <2>2 DEF reqVars
    <3> QED BY <1>0, <1>1, <1>2, <2>0, <2>2, <3>1 DEF DInv
  <2> QED BY <1>4, <2>1, <2>2 DEF Accept
<1>5. CASE Cut
  <2>1. pc = "stream" /\ pc' = "stream" /\ fault' /\ body' \in 0..(body - 1)
          /\ UNCHANGED <<remaining, got, result>>
    BY <1>5 DEF Cut
  <2>2. Types'
    BY <1>0, <2>1 DEF reqVars
  <2>3. body \in Nat /\ got \in Nat /\ body' \in Nat /\ body' < body
    BY <1>0, <2>1
  <2>4. body' + got' <= Size
    <3>1. body + got <= Size /\ Size \in Nat
      BY <1>2, <1>3, <2>1
    <3>2. body' + got <= Size
      BY <2>3, <3>1, AddLess
    <3> QED BY <2>1, <3>2
  <2> QED BY <1>0, <1>1, <1>3, <2>1, <2>2, <2>4 DEF DInv
<1>6. CASE Read
  <2>1. PICK n \in 1..Lower(body, remaining) :
          body' = body - n /\ got' = got + n /\ remaining' = remaining - n
    BY <1>6 DEF Read
  <2>2. pc = "stream" /\ UNCHANGED <<pc, fault, result>>
    BY <1>6 DEF Read
  <2>3. n \in Nat /\ n <= body /\ n <= remaining
    BY <1>0, <2>1 DEF Lower
  <2>4. Types'
    BY <1>0, <2>1, <2>2, <2>3 DEF reqVars
  <2>5. body' + got' = body + got /\ remaining' = limit - got' /\ remaining' >= 0
    BY <1>0, <1>2, <1>3, <2>1, <2>2, <2>3
  <2> QED BY <1>0, <1>1, <1>3, <2>2, <2>4, <2>5 DEF DInv
<1>7. CASE Probe
  <2>1. /\ pc = "stream" /\ remaining <= 0 /\ body > 0 /\ pc' = "done" /\ result' = "error"
        /\ UNCHANGED <<body, remaining, got, fault>>
    BY <1>7 DEF Probe, Done, bodyVars
  <2>2. Types'
    BY <1>0, <2>1 DEF reqVars
  <2>3. ignored
    BY <1>0, <1>2, <1>3, <2>1
  <2> QED BY <1>0, <2>1, <2>2, <2>3 DEF DInv
<1>8. CASE EndOfBody
  <2>1. /\ pc = "stream" /\ body = 0 /\ pc' = "done" /\ result' = (IF fault THEN "error" ELSE "eof")
        /\ UNCHANGED <<body, remaining, got, fault>>
    BY <1>8 DEF EndOfBody, Done, bodyVars
  <2>2. Types'
    BY <1>0, <2>1 DEF reqVars
  <2>3. ~fault => got = Size /\ got <= limit
    BY <1>0, <1>2, <1>3, <2>1
  <2> QED BY <1>0, <1>1, <2>1, <2>2, <2>3 DEF DInv
<1> QED BY <1>4, <1>5, <1>6, <1>7, <1>8 DEF Stream

\* Every step keeps the invariant.
LEMMA DownloadNext == DInv /\ [Next]_vars => DInv'
<1> SUFFICES ASSUME DInv, [Next]_vars PROVE DInv'
  OBVIOUS
<1>1. CASE UNCHANGED vars
  <2>1. UNCHANGED <<reqVars, rng, limit, ignored>>
    BY <1>1 DEF vars
  <2> QED BY <1>1, <2>1, SameRequest DEF DInv, Types, vars, reqVars, bodyVars
<1> QED BY <1>1, OpenHolds, BrokerHolds, StreamHolds DEF Next

\* The invariant holds throughout a download.
THEOREM DownloadInductive == Spec => []DInv
BY DownloadInit, DownloadNext, PTL DEF Spec

\* With nothing left of the body, or of the limit, the bytes read are those wanted.
LEMMA DeliveredBytes == DInv => CleanReadIsWanted
<1> SUFFICES ASSUME DInv, result = "eof"
             PROVE  Received = Wanted \/ (ignored /\ rng.offset + rng.length >= total)
  BY DEF CleanReadIsWanted
<1> USE DownloadAssumption DEF Types
<1>0. Types /\ total \in Nat /\ got \in Nat
  BY DEF DInv
<1>1. Wanted = {i \in 1..total : Lo < i /\ i <= Hi}
  BY <1>0, WantedIs
<1>2. CASE opt.kind # "none" /\ Window.length = 0 /\ first = 0 /\ got = 0
  <2>1. Hi <= Lo /\ Hi \in Int /\ Lo \in Int
    BY <1>0, <1>2, WindowIs
  <2>2. Wanted = {}
    BY <1>0, <1>1, <2>1
  <2>3. Received = {}
    BY <1>0, <1>2 DEF Received
  <2> QED BY <2>2, <2>3
<1>3. CASE Asked /\ first = From /\ got = Size /\ got <= limit
  <2>1. CASE Full /\ ~ignored
    <3>1. first = 0 /\ got = total /\ Lo = 0 /\ Hi = total
      BY <1>3, <2>1 DEF Full, From, Size, Lo, Hi
    <3> QED BY <1>0, <1>1, <3>1 DEF Received
  <2>2. CASE Windowed /\ ignored
    <3>1. got = total
      BY <1>3, <2>2 DEF Size
    <3> QED BY <1>0, <1>3, <2>2, <3>1, AskedIs
  <2>3. CASE Windowed /\ ~ignored
    <3>1. Lo \in Int /\ Hi \in Int /\ Lo >= 0 /\ limit > 0 /\ Hi = Lo + limit /\ limit \in Nat
      BY <1>0, <1>3, <2>3, AskedIs
    <3>2. From = IF Lo < total THEN Lo ELSE total
      BY <2>3 DEF From, Windowed, Lower
    <3>3. Size = (IF From + limit < total THEN From + limit ELSE total) - From
      BY <2>3 DEF Size, Windowed, Lower
    <3>4. \A i \in 1..total : (first < i /\ i <= first + got) <=> (Lo < i /\ i <= Hi)
      BY <1>0, <1>3, <3>1, <3>2, <3>3
    <3> QED BY <1>1, <3>4 DEF Received
  <2> QED BY <1>3, <2>1, <2>2, <2>3 DEF Asked
<1> QED BY <1>2, <1>3 DEF DInv

\* A read that ends in io.EOF has delivered exactly the bytes that were asked for, but
\* for a broker that ignored a range reaching past the end of its file (boundedBody).
THEOREM CleanReads == Spec => []CleanReadIsWanted
BY DownloadInductive, DeliveredBytes, PTL

\* When nothing fails and the broker honours the range, a read ends in io.EOF unless it
\* is over the cap or asks for a window no int64 holds.
THEOREM HonestReads == Spec => []HonestReadSucceeds
<1>1. DInv => HonestReadSucceeds
  BY DEF DInv, HonestReadSucceeds, Excuse
<1> QED BY <1>1, DownloadInductive, PTL

-----------------------------------------------------------------------------
(* Listing, for any entries, cursors and page ceiling: the guard's two pieces of *)
(* state mirror the history of the requests.                                     *)

\* The page count of the guard is the number of pages fetched, and its cursors are the
\* ones already sent and the one about to be sent.
GuardInv ==
    st = "call" =>
        /\ fetched = pages /\ fetched < MaxPages
        /\ cursor \notin asked
        /\ asked \cup {cursor} = seen \cup {NoCursor}

\* What is kept is what the filter keeps of the pages so far.
KeptInv ==
    /\ st \in {"call", "ok"} => listed = {e \in received : ImmediateChild(e)}
    /\ st \in Returns \ {"ok"} => listed = {}

\* The ceiling is blamed after the last page only.
EndInv == st = "ceiling" => fetched = MaxPages

ListInv == ListTypeOK /\ GuardInv /\ KeptInv /\ EndInv

\* immediateChildRemote keeps exactly the entries whose path is the directory's
\* path and one more segment.
LEMMA ChildIsOneBelow ==
    ASSUME NEW e \in Entries
    PROVE  ImmediateChild(e) <=>
               e.arm # "none" /\ \E i \in 1..Len(e.path) : e.path = Append(Dir, e.path[i])
  <1> DEFINE p == e.path
  <1>0. p \in Seq(STRING) /\ Dir \in Seq(STRING)
    BY ListingAssumption
  <1>1. ASSUME ImmediateChild(e)
        PROVE  \E i \in 1..Len(p) : p = Append(Dir, p[i])
    <2>1. Len(p) >= Len(Dir) /\ SubSeq(p, 1, Len(Dir)) = Dir
          /\ Len(SubSeq(p, Len(Dir) + 1, Len(p))) = 1
      BY <1>1 DEF ImmediateChild
    <2>2. Len(p) = Len(Dir) + 1
      BY <1>0, <2>1
    <2>3. \A j \in 1..Len(Dir) : Dir[j] = p[j]
      <3>1. \A j \in 1..Len(Dir) : SubSeq(p, 1, Len(Dir))[j] = p[j]
        BY <1>0, <2>2
      <3> QED BY <2>1, <3>1
    <2>4. p = Append(Dir, p[Len(p)])
      BY <1>0, <2>2, <2>3
    <2> QED BY <1>0, <2>2, <2>4
  <1>2. ASSUME e.arm # "none", NEW i \in 1..Len(p), p = Append(Dir, p[i])
        PROVE  ImmediateChild(e)
    <2>1. Len(p) = Len(Dir) + 1
      BY <1>0, <1>2
    <2>2. p # Dir /\ Len(p) >= Len(Dir)
      BY <1>0, <2>1
    <2>3. Len(SubSeq(p, Len(Dir) + 1, Len(p))) = 1
      BY <1>0, <2>1
    <2>4. SubSeq(p, 1, Len(Dir)) = Dir
      <3>1. \A j \in 1..Len(Dir) : p[j] = Dir[j]
        BY <1>0, <1>2, <2>1
      <3> QED BY <1>0, <2>1, <3>1
    <2> QED BY <1>2, <2>2, <2>3, <2>4 DEF ImmediateChild
  <1> QED BY <1>1, <1>2 DEF ImmediateChild

\* The invariant holds before the first request.
LEMMA ListingInit == ListInit => ListInv
  BY ListingAssumption DEF ListInit, ListInv, ListTypeOK, GuardInv, KeptInv, EndInv,
     Returns

\* Every page keeps it.
LEMMA ListingNext == ListInv /\ [ListNext]_(listVars) => ListInv'
  <1> SUFFICES ASSUME ListInv, [ListNext]_(listVars) PROVE ListInv'
    OBVIOUS
  <1> USE ListingAssumption
  <1>1. CASE PageFails
    BY <1>1 DEF PageFails, guardVars, historyVars, ListInv, ListTypeOK,
       GuardInv, KeptInv, EndInv, Returns
  <1>2. CASE LastPage
    <2> PICK page \in SUBSET Entries :
          Yield(page) /\ listed' = listed \cup {e \in page : ImmediateChild(e)}
      BY <1>2 DEF LastPage
    <2>1. ListTypeOK'
      BY <1>2 DEF LastPage, Yield, guardVars, ListInv, ListTypeOK,
         GuardInv, Returns
    <2>2. KeptInv'
      BY <1>2 DEF LastPage, Yield, ListInv, KeptInv, Returns
    <2>3. GuardInv' /\ EndInv'
      BY <1>2 DEF LastPage, GuardInv, EndInv
    <2> QED BY <2>1, <2>2, <2>3 DEF ListInv
  <1>3. CASE MorePages
    <2> PICK page \in SUBSET Entries, c \in Cursors :
          /\ Yield(page)
          /\ st' = Verdict(c) /\ pages' = pages + 1
          /\ IF Verdict(c) = "call"
             THEN /\ seen' = seen \cup {c} /\ cursor' = c
                  /\ listed' = listed \cup {e \in page : ImmediateChild(e)}
             ELSE /\ UNCHANGED <<seen, cursor>>
                  /\ listed' = {}
      BY <1>3 DEF MorePages
    <2>0. st = "call"
      BY <1>3 DEF MorePages
    <2>1. fetched' = pages' /\ fetched' <= MaxPages /\ pages' \in 0..MaxPages
      BY <2>0 DEF Yield, ListInv, ListTypeOK, GuardInv
    <2>2. CASE Verdict(c) = "call"
      <3>1. c \notin seen /\ c # NoCursor /\ pages + 1 < MaxPages
        BY <2>2 DEF Verdict, ListInv, ListTypeOK
      <3>2. asked' = seen \cup {NoCursor}
        BY <2>0 DEF Yield, ListInv, GuardInv
      <3>3. cursor' \notin asked' /\ asked' \cup {cursor'} = seen' \cup {NoCursor'}
        BY <2>2, <3>1, <3>2
      <3>4. GuardInv'
        BY <2>1, <3>1, <3>3 DEF GuardInv, ListInv, ListTypeOK
      <3>5. ListTypeOK'
        BY <2>0, <2>1, <2>2 DEF Yield, ListInv, ListTypeOK
      <3>6. KeptInv' /\ EndInv'
        BY <2>0, <2>2 DEF Yield, ListInv, KeptInv, EndInv, Returns
      <3> QED BY <3>4, <3>5, <3>6 DEF ListInv
    <2>3. CASE Verdict(c) # "call"
      <3>1. st' \in {"ceiling", "cycle"}
        BY <2>3 DEF Verdict
      <3>2. st' = "ceiling" => fetched' = MaxPages
        BY <2>0, <2>1 DEF Verdict, Yield, ListInv, ListTypeOK, GuardInv
      <3>3. ListTypeOK'
        BY <2>0, <2>1, <2>3, <3>1 DEF Yield, ListInv, ListTypeOK, Returns
      <3> QED BY <2>3, <3>1, <3>2, <3>3 DEF ListInv, GuardInv, KeptInv, EndInv, Returns
    <2> QED BY <2>2, <2>3
  <1>4. CASE UNCHANGED listVars
    BY <1>4 DEF listVars, guardVars, historyVars, ListInv, ListTypeOK,
       GuardInv, KeptInv, EndInv, Returns
  <1> QED BY <1>1, <1>2, <1>3, <1>4 DEF ListNext

\* The invariant holds throughout a listing.
THEOREM ListingInductive == ListSpec => []ListInv
  BY ListingInit, ListingNext, PTL DEF ListSpec

\* The page ceiling is exact, whatever the broker answers (pageGuard.admit).
THEOREM CeilingHolds == ListSpec => []CeilingIsExact
  <1>1. ListInv => CeilingIsExact
    BY ListingAssumption DEF ListInv, ListTypeOK, EndInv, CeilingIsExact
  <1> QED BY <1>1, ListingInductive, PTL

\* No cursor is sent twice, so a cycle of any length ends the listing.
THEOREM PagesOnce == ListSpec => []NoPageTwice
  <1>1. ListInv => NoPageTwice
    BY DEF ListInv, GuardInv, NoPageTwice
  <1> QED BY <1>1, ListingInductive, PTL

\* List returns the immediate children that were received, or nothing.
THEOREM ChildrenListed == ListSpec => []ListsExactlyChildren
  <1>1. ListInv => ListsExactlyChildren
    BY ChildIsOneBelow DEF ListInv, ListTypeOK, KeptInv, ListsExactlyChildren
  <1> QED BY <1>1, ListingInductive, PTL

-----------------------------------------------------------------------------
(* One Object under concurrent readers and Updates, for any number of readers, any *)
(* number of Updates and files of any length.                                      *)

\* The upload and the file.
FileInv == /\ up = "open" => obj # Absent
           /\ up = "acked" => obj = promised

\* The Object agrees with the file until an Update has touched the file.
SizeInv == up \in {"idle", "sent"} /\ ~lastErr /\ ~raced => size = obj

\* What a reader has in hand.
ReaderIs(r) ==
    /\ at[r] = "apply" /\ r \in fresh => inHand[r] = obj
    /\ at[r] = "snap" /\ op[r] = "Open" /\ r \in kept => uuid
    /\ at[r] = "download" /\ r \in fresh \cap kept /\ up \in {"idle", "sent"}
         /\ ~lastErr /\ ~raced => inHand[r] = obj
    /\ at[r] \in {"copy", "copied"} => op[r] = "Copy"
    /\ copied[r] # Absent => up = "idle" /\ copied[r] = obj

ReaderInv == \A r \in Readers : ReaderIs(r)

\* The inductive invariant of an Object.
HandleInv == HandleTypeOK /\ FileInv /\ SizeInv /\ ReaderInv

USE HandleAssumption DEF Sizes, Ops, Absent, ReaderIs, fileVars,
   updateVars, handleVars, readerVars

\* HandleInv is preserved by Update and the filestore's upload handler.
LEMMA UpdatePreserves == ASSUME HandleInv, Update PROVE HandleInv'
  <1>1. CASE UpdateStart
    <2> USE <1>1 DEF HandleInv
    <2>1. HandleTypeOK'
      BY DEF HandleTypeOK, FileInv, UpdateStart
    <2>2. FileInv'
      BY DEF HandleTypeOK, FileInv, UpdateStart
    <2>3. SizeInv'
      BY DEF HandleTypeOK, FileInv, SizeInv, ReaderInv, UpdateStart
    <2>4. ReaderInv'
      BY DEF HandleTypeOK, FileInv, SizeInv, ReaderInv, UpdateStart
    <2> QED
      BY <2>1, <2>2, <2>3, <2>4
  <1>2. CASE UploadRefused
    <2> USE <1>2 DEF HandleInv
    <2>1. HandleTypeOK'
      BY DEF HandleTypeOK, FileInv, UploadRefused
    <2>2. FileInv'
      BY DEF HandleTypeOK, FileInv, UploadRefused
    <2>3. SizeInv'
      BY DEF HandleTypeOK, FileInv, SizeInv, ReaderInv, UploadRefused
    <2>4. ReaderInv'
      BY DEF HandleTypeOK, FileInv, SizeInv, ReaderInv, UploadRefused
    <2> QED
      BY <2>1, <2>2, <2>3, <2>4
  <1>3. CASE UploadOpens
    <2> USE <1>3 DEF HandleInv
    <2>1. HandleTypeOK'
      BY DEF HandleTypeOK, FileInv, UploadOpens, Change
    <2>2. FileInv'
      BY DEF HandleTypeOK, FileInv, UploadOpens, Change
    <2>3. SizeInv'
      BY DEF HandleTypeOK, FileInv, SizeInv, ReaderInv, UploadOpens, Change
    <2>4. ReaderInv'
      BY DEF HandleTypeOK, FileInv, SizeInv, ReaderInv, UploadOpens, Change
    <2> QED
      BY <2>1, <2>2, <2>3, <2>4
  <1>4. CASE UploadCopies
    <2> USE <1>4 DEF HandleInv
    <2>1. HandleTypeOK'
      BY DEF HandleTypeOK, FileInv, UploadCopies, Change
    <2>2. FileInv'
      BY DEF HandleTypeOK, FileInv, UploadCopies, Change
    <2>3. SizeInv'
      BY DEF HandleTypeOK, FileInv, SizeInv, ReaderInv, UploadCopies, Change
    <2>4. ReaderInv'
      BY DEF HandleTypeOK, FileInv, SizeInv, ReaderInv, UploadCopies, Change
    <2> QED
      BY <2>1, <2>2, <2>3, <2>4
  <1>5. CASE UploadBreaks
    <2> USE <1>5 DEF HandleInv
    <2>1. HandleTypeOK'
      BY DEF HandleTypeOK, FileInv, UploadBreaks
    <2>2. FileInv'
      BY DEF HandleTypeOK, FileInv, UploadBreaks
    <2>3. SizeInv'
      BY DEF HandleTypeOK, FileInv, SizeInv, ReaderInv, UploadBreaks
    <2>4. ReaderInv'
      BY DEF HandleTypeOK, FileInv, SizeInv, ReaderInv, UploadBreaks
    <2> QED
      BY <2>1, <2>2, <2>3, <2>4
  <1>6. CASE UploadEnds
    <2> USE <1>6 DEF HandleInv
    <2>1. HandleTypeOK'
      BY DEF HandleTypeOK, FileInv, UploadEnds, Change
    <2>2. FileInv'
      BY DEF HandleTypeOK, FileInv, UploadEnds, Change
    <2>3. SizeInv'
      BY DEF HandleTypeOK, FileInv, SizeInv, ReaderInv, UploadEnds, Change
    <2>4. ReaderInv'
      BY DEF HandleTypeOK, FileInv, SizeInv, ReaderInv, UploadEnds, Change
    <2> QED
      BY <2>1, <2>2, <2>3, <2>4
  <1>7. CASE AckLost
    <2> USE <1>7 DEF HandleInv
    <2>1. HandleTypeOK'
      BY DEF HandleTypeOK, FileInv, AckLost
    <2>2. FileInv'
      BY DEF HandleTypeOK, FileInv, AckLost
    <2>3. SizeInv'
      BY DEF HandleTypeOK, FileInv, SizeInv, ReaderInv, AckLost
    <2>4. ReaderInv'
      BY DEF HandleTypeOK, FileInv, SizeInv, ReaderInv, AckLost
    <2> QED
      BY <2>1, <2>2, <2>3, <2>4
  <1>8. CASE UpdateFails
    <2> USE <1>8 DEF HandleInv
    <2>1. HandleTypeOK'
      BY DEF HandleTypeOK, FileInv, UpdateFails
    <2>2. FileInv'
      BY DEF HandleTypeOK, FileInv, UpdateFails
    <2>3. SizeInv'
      BY DEF HandleTypeOK, FileInv, SizeInv, ReaderInv, UpdateFails
    <2>4. ReaderInv'
      BY DEF HandleTypeOK, FileInv, SizeInv, ReaderInv, UpdateFails
    <2> QED
      BY <2>1, <2>2, <2>3, <2>4
  <1>9. CASE UpdateClears
    <2> USE <1>9 DEF HandleInv
    <2>1. HandleTypeOK'
      <3>1. (uuid \in BOOLEAN /\ raced \in BOOLEAN /\ lastErr \in BOOLEAN)'
        BY Zenon DEF UpdateClears
      <3>2. promised' \in Sizes /\ streamed' \in Sizes /\ size' \in Sizes
        BY DEF HandleTypeOK, UpdateClears
      <3>3. /\ obj' = obj /\ fresh' = fresh /\ at' = at /\ op' = op /\ inHand' = inHand
            /\ copied' = copied /\ up' = "idle" /\ kept' = {}
        BY DEF UpdateClears
      <3>4. UNCHANGED <<obj, at, op, inHand,
         copied>> /\ fresh' \subseteq Readers /\ kept' \subseteq Readers
        BY <3>3 DEF HandleTypeOK
      <3> QED
        BY <3>1, <3>2, <3>3, <3>4, Zenon DEF HandleTypeOK
    <2>2. FileInv'
      BY DEF HandleTypeOK, FileInv, UpdateClears
    <2>3. SizeInv'
      BY DEF HandleTypeOK, FileInv, SizeInv, ReaderInv, UpdateClears
    <2>4. ReaderInv'
      BY DEF HandleTypeOK, FileInv, SizeInv, ReaderInv, UpdateClears
    <2> QED
      BY <2>1, <2>2, <2>3, <2>4
  <1> QED
    BY <1>1, <1>2, <1>3, <1>4, <1>5, <1>6, <1>7, <1>8, <1>9 DEF Update, Upload

\* HandleInv is preserved by Size, ModTime, Open and Copy.
LEMMA ReadPreserves == ASSUME HandleInv, NEW r \in Readers, Method(r) PROVE HandleInv'
  <1>1. CASE Begin(r)
    <2> USE <1>1 DEF HandleInv
    <2>1. HandleTypeOK'
      BY DEF HandleTypeOK, FileInv, Begin, Unresolved
    <2>2. FileInv'
      BY DEF HandleTypeOK, FileInv, Begin, Unresolved
    <2>3. SizeInv'
      BY DEF HandleTypeOK, FileInv, SizeInv, ReaderInv, Begin, Unresolved
    <2>4. ReaderInv'
      <3>1. PICK m \in Ops :
               /\ op' = [op EXCEPT ![r] = m]
               /\ at' = [at EXCEPT ![r] = IF m = "Copy" THEN "copy"
                                           ELSE IF Unresolved(m) THEN "resolve" ELSE "snap"]
        BY DEF Begin
      <3>2. /\ m = "Open" => at'[r] = "resolve"
            /\ at'[r] = "copy" => m = "Copy"
            /\ at'[r] \in {"copy", "resolve", "snap"} /\ op'[r] = m
        BY <3>1 DEF HandleTypeOK, Unresolved
      <3>3. \A x \in Readers \ {r} : at'[x] = at[x] /\ op'[x] = op[x] /\ (x \in kept' <=> x \in kept)
        BY <3>1 DEF HandleTypeOK, Begin
      <3>4. UNCHANGED <<obj, uuid, fresh, up, lastErr, raced, inHand, copied>>
        BY DEF Begin
      <3>5. ASSUME NEW x \in Readers \ {r} PROVE ReaderIs(x)'
        BY <3>3, <3>4, <3>5 DEF ReaderInv
      <3>6. ReaderIs(r)'
        BY <3>2, <3>4 DEF ReaderInv
      <3> QED
        BY <3>5, <3>6 DEF ReaderInv
    <2> QED
      BY <2>1, <2>2, <2>3, <2>4
  <1>2. CASE ResolveCheck(r)
    <2> USE <1>2 DEF HandleInv
    <2>1. HandleTypeOK'
      BY DEF HandleTypeOK, FileInv, ResolveCheck
    <2>2. FileInv'
      BY DEF HandleTypeOK, FileInv, ResolveCheck
    <2>3. SizeInv'
      BY DEF HandleTypeOK, FileInv, SizeInv, ReaderInv, ResolveCheck
    <2>4. ReaderInv'
      BY DEF HandleTypeOK, FileInv, SizeInv, ReaderInv, ResolveCheck
    <2> QED
      BY <2>1, <2>2, <2>3, <2>4
  <1>3. CASE Fetch(r)
    <2> USE <1>3 DEF HandleInv
    <2>1. HandleTypeOK'
      BY DEF HandleTypeOK, FileInv, Fetch
    <2>2. FileInv'
      BY DEF HandleTypeOK, FileInv, Fetch
    <2>3. SizeInv'
      BY DEF HandleTypeOK, FileInv, SizeInv, ReaderInv, Fetch
    <2>4. ReaderInv'
      BY DEF HandleTypeOK, FileInv, SizeInv, ReaderInv, Fetch
    <2> QED
      BY <2>1, <2>2, <2>3, <2>4
  <1>4. CASE FetchFails(r)
    <2> USE <1>4 DEF HandleInv
    <2>1. HandleTypeOK'
      BY DEF HandleTypeOK, FileInv, FetchFails, Finish
    <2>2. FileInv'
      BY DEF HandleTypeOK, FileInv, FetchFails, Finish
    <2>3. SizeInv'
      BY DEF HandleTypeOK, FileInv, SizeInv, ReaderInv, FetchFails, Finish
    <2>4. ReaderInv'
      <3>1. /\ UNCHANGED <<obj, uuid, up, lastErr, raced>> /\ fresh' \subseteq fresh
            /\ kept' \subseteq kept
        BY DEF FetchFails, Finish
      <3>2. \A x \in Readers \ {r} : /\ at'[x] = at[x] /\ op'[x] = op[x]
                                    /\ inHand'[x] = inHand[x] /\ copied'[x] = copied[x]
        BY DEF HandleTypeOK, FetchFails, Finish
      <3>3. ASSUME NEW x \in Readers \ {r} PROVE ReaderIs(x)'
        BY <3>1, <3>2, <3>3 DEF ReaderInv
      <3>4. \/ at'[r] = "idle" /\ copied'[r] = Absent
            \/ at'[r] = "snap" /\ op'[r] # "Open" /\ copied'[r] = copied[r]
        BY DEF HandleTypeOK, FetchFails, Finish
      <3>5. ReaderIs(r)'
        BY <3>1, <3>4 DEF ReaderInv
      <3> QED
        BY <3>3, <3>5 DEF ReaderInv
    <2> QED
      BY <2>1, <2>2, <2>3, <2>4
  <1>5. CASE Apply(r)
    <2> USE <1>5 DEF HandleInv
    <2>1. HandleTypeOK'
      BY DEF HandleTypeOK, FileInv, Apply
    <2>2. FileInv'
      BY DEF HandleTypeOK, FileInv, Apply
    <2>3. SizeInv'
      BY DEF HandleTypeOK, FileInv, SizeInv, ReaderInv, Apply
    <2>4. ReaderInv'
      BY DEF HandleTypeOK, FileInv, SizeInv, ReaderInv, Apply
    <2> QED
      BY <2>1, <2>2, <2>3, <2>4
  <1>6. CASE Return(r)
    <2> USE <1>6 DEF HandleInv
    <2>1. HandleTypeOK'
      BY DEF HandleTypeOK, FileInv, Return, Finish
    <2>2. FileInv'
      BY DEF HandleTypeOK, FileInv, Return, Finish
    <2>3. SizeInv'
      BY DEF HandleTypeOK, FileInv, SizeInv, ReaderInv, Return, Finish
    <2>4. ReaderInv'
      BY DEF HandleTypeOK, FileInv, SizeInv, ReaderInv, Return, Finish
    <2> QED
      BY <2>1, <2>2, <2>3, <2>4
  <1>7. CASE OpenMisses(r)
    <2> USE <1>7 DEF HandleInv
    <2>1. HandleTypeOK'
      BY DEF HandleTypeOK, FileInv, OpenMisses, Finish
    <2>2. FileInv'
      BY DEF HandleTypeOK, FileInv, OpenMisses, Finish
    <2>3. SizeInv'
      BY DEF HandleTypeOK, FileInv, SizeInv, ReaderInv, OpenMisses, Finish
    <2>4. ReaderInv'
      BY DEF HandleTypeOK, FileInv, SizeInv, ReaderInv, OpenMisses, Finish
    <2> QED
      BY <2>1, <2>2, <2>3, <2>4
  <1>8. CASE OpenSnapshot(r)
    <2> USE <1>8 DEF HandleInv
    <2>1. HandleTypeOK'
      BY DEF HandleTypeOK, FileInv, OpenSnapshot
    <2>2. FileInv'
      BY DEF HandleTypeOK, FileInv, OpenSnapshot
    <2>3. SizeInv'
      BY DEF HandleTypeOK, FileInv, SizeInv, ReaderInv, OpenSnapshot
    <2>4. ReaderInv'
      BY DEF HandleTypeOK, FileInv, SizeInv, ReaderInv, OpenSnapshot
    <2> QED
      BY <2>1, <2>2, <2>3, <2>4
  <1>9. CASE Download(r)
    <2> USE <1>9 DEF HandleInv
    <2>1. HandleTypeOK'
      BY DEF HandleTypeOK, FileInv, Download, Finish
    <2>2. FileInv'
      BY DEF HandleTypeOK, FileInv, Download, Finish
    <2>3. SizeInv'
      BY DEF HandleTypeOK, FileInv, SizeInv, ReaderInv, Download, Finish
    <2>4. ReaderInv'
      BY DEF HandleTypeOK, FileInv, SizeInv, ReaderInv, Download, Finish
    <2> QED
      BY <2>1, <2>2, <2>3, <2>4
  <1>10. CASE CopyFile(r)
    <2> USE <1>10 DEF HandleInv
    <2>1. HandleTypeOK'
      BY DEF HandleTypeOK, FileInv, CopyFile
    <2>2. FileInv'
      BY DEF HandleTypeOK, FileInv, CopyFile
    <2>3. SizeInv'
      BY DEF HandleTypeOK, FileInv, SizeInv, ReaderInv, CopyFile
    <2>4. ReaderInv'
      BY DEF HandleTypeOK, FileInv, SizeInv, ReaderInv, CopyFile
    <2> QED
      BY <2>1, <2>2, <2>3, <2>4
  <1>11. CASE CopyFails(r)
    <2> USE <1>11 DEF HandleInv
    <2>1. HandleTypeOK'
      BY DEF HandleTypeOK, FileInv, CopyFails, Finish
    <2>2. FileInv'
      BY DEF HandleTypeOK, FileInv, CopyFails, Finish
    <2>3. SizeInv'
      BY DEF HandleTypeOK, FileInv, SizeInv, ReaderInv, CopyFails, Finish
    <2>4. ReaderInv'
      BY DEF HandleTypeOK, FileInv, SizeInv, ReaderInv, CopyFails, Finish
    <2> QED
      BY <2>1, <2>2, <2>3, <2>4
  <1>12. CASE CopyAcked(r)
    <2> USE <1>12 DEF HandleInv
    <2>1. HandleTypeOK'
      BY DEF HandleTypeOK, FileInv, CopyAcked, Unresolved
    <2>2. FileInv'
      BY DEF HandleTypeOK, FileInv, CopyAcked, Unresolved
    <2>3. SizeInv'
      BY DEF HandleTypeOK, FileInv, SizeInv, ReaderInv, CopyAcked, Unresolved
    <2>4. ReaderInv'
      BY DEF HandleTypeOK, FileInv, SizeInv, ReaderInv, CopyAcked, Unresolved
    <2> QED
      BY <2>1, <2>2, <2>3, <2>4
  <1> QED
    BY <1>1, <1>2, <1>3, <1>4, <1>5, <1>6, <1>7, <1>8, <1>9, <1>10, <1>11, <1>12
       DEF Method, Resolve, Copy

\* HandleInv is an inductive invariant of the Object.
THEOREM HandleInductive == HandleSpec => []HandleInv
  <1>1. HandleInit => HandleInv
    <2> SUFFICES ASSUME HandleInit PROVE HandleInv
      OBVIOUS
    <2>1. (uuid \in BOOLEAN /\ raced \in BOOLEAN /\ lastErr \in BOOLEAN)
      BY Zenon DEF HandleInit
    <2>2. 0 \in Sizes
      OBVIOUS
    <2>3. HandleTypeOK
      BY <2>1, <2>2, Zenon DEF HandleInit, HandleTypeOK
    <2>4. FileInv /\ SizeInv /\ ReaderInv
      BY Zenon DEF HandleInit, FileInv, SizeInv, ReaderInv
    <2> QED
      BY <2>3, <2>4 DEF HandleInv
  <1>2. HandleInv /\ [HandleNext]_(objectVars) => HandleInv'
    <2>1. HandleInv /\ UNCHANGED objectVars => HandleInv'
      <3> SUFFICES ASSUME HandleInv, UNCHANGED objectVars PROVE HandleInv'
        OBVIOUS
      <3> USE DEF objectVars, HandleInv
      <3>1. HandleTypeOK'
        BY DEF HandleTypeOK
      <3>2. FileInv' /\ SizeInv'
        BY DEF FileInv, SizeInv
      <3>3. ReaderInv'
        BY DEF ReaderInv
      <3> QED BY <3>1, <3>2, <3>3
    <2> QED
      BY <2>1, UpdatePreserves, ReadPreserves DEF HandleNext
  <1> QED
    BY <1>1, <1>2, PTL DEF HandleSpec

\* The held size is the file's between successful Updates, unless a resolve that
\* had fetched before the file changed stored its answer afterwards (resolve).
THEOREM HeldSizeSound == HandleSpec => []HeldSizeTrueUnlessRaced
  <1>1. HandleInv => HeldSizeTrueUnlessRaced
    BY DEF HandleInv, SizeInv, HeldSizeTrueUnlessRaced
  <1> QED
    BY <1>1, HandleInductive, PTL

\* Open misses the uuid only when an Update cleared it under its feet (Open).
THEOREM OpenRefusalSound == HandleSpec => []OpenRefusedOnlyByUpdate
  <1>1. HandleInv => OpenRefusedOnlyByUpdate
    BY DEF HandleInv, ReaderInv, OpenRefusedOnlyByUpdate
  <1> QED
    BY <1>1, HandleInductive, PTL

\* A read to the end of an unchanged file through a sound Object is whole (Open,
\* DownloadRange).
THEOREM ReadsWhole == HandleSpec => []ReadToEndIsWhole
  <1>1. HandleInv => ReadToEndIsWhole
    BY DEF HandleInv, HandleTypeOK, ReaderInv, ReadToEndIsWhole, Delivered
  <1> QED
    BY <1>1, HandleInductive, PTL

\* A server-side copy that no Update of its source overlaps is given its true
\* size when the source's Object is sound (transferFile, Size).
THEOREM CarriedSizeSound == HandleSpec => []CarriedSizeIsTrue
  <1>1. HandleInv => CarriedSizeIsTrue
    BY DEF HandleInv, SizeInv, ReaderInv, CarriedSizeIsTrue
  <1> QED
    BY <1>1, HandleInductive, PTL
=============================================================================
