---------------------------- MODULE ObjectHandle ----------------------------
(***************************************************************************)
(* One backend Object (backend/ocufs/object.go) and the file it stands     *)
(* for.  rclone drives the methods of an Object concurrently: any number of*)
(* readers (Size, ModTime, Open, and the server-side Copy, which ends in   *)
(* the source's Size) run against Updates, which rclone issues one at a    *)
(* time.  The steps are cut at the Object's mutex, which is never *)
(* held across a round trip, and at each change the filestore makes to the *)
(* file.  Content is abstracted to its length: equal lengths stand for     *)
(* equal metadata.                                                         *)
(***************************************************************************)
EXTENDS Integers

CONSTANTS Readers,      \* goroutines inside Size, ModTime, Open or Copy
          MaxLen        \* bound: the length of a file

ASSUME HandleAssumption == MaxLen \in Nat

Absent == -1
Sizes  == 0..MaxLen
Ops    == {"Size", "ModTime", "Open", "Copy"}

VARIABLES
    obj,        \* the file in the filestore: its length, or Absent
    up,         \* how far the Update in progress is
    promised,   \* the size it declares
    streamed,   \* the bytes its source really delivers
    uuid,       \* the Object holds a uuid
    size,       \* the size it holds
    raced,      \* metadata older than the file was stored since the last good Update
    lastErr,    \* an Update has failed since the last successful one
    at, op,     \* where each reader is, and in which method
    inHand,     \* a size it has in hand
    copied,     \* the length of the copy it makes; Absent if an Update overlaps it
    fresh,      \* the readers since whose last look the file has not changed
    kept        \* the readers since whose last look no Update cleared the Object

fileVars   == <<obj, fresh>>
updateVars == <<up, promised, streamed, lastErr>>
handleVars == <<uuid, size, raced>>
readerVars == <<at, op, inHand, copied>>
objectVars == <<fileVars, updateVars, handleVars, readerVars, kept>>

HandleTypeOK ==
    /\ obj \in Sizes \cup {Absent}
    /\ up \in {"idle", "sent", "open", "acked", "failed"}
    /\ promised \in Sizes /\ streamed \in Sizes
    /\ uuid \in BOOLEAN /\ size \in Sizes
    /\ raced \in BOOLEAN /\ lastErr \in BOOLEAN
    /\ at \in [Readers -> {"idle", "resolve", "fetch", "apply", "snap", "download",
                       "copy", "copied"}]
    /\ op \in [Readers -> Ops]
    /\ inHand \in [Readers -> Sizes] /\ copied \in [Readers -> Sizes \cup {Absent}]
    /\ fresh \subseteq Readers /\ kept \subseteq Readers

\* An Object as List or NewObject (with a uuid) or Put (without) builds it.
HandleInit ==
    /\ obj \in Sizes /\ size = obj /\ uuid \in BOOLEAN
    /\ raced = FALSE /\ lastErr = FALSE
    /\ up = "idle" /\ promised = 0 /\ streamed = 0
    /\ at = [r \in Readers |-> "idle"] /\ op = [r \in Readers |-> "Size"]
    /\ inHand = [r \in Readers |-> 0] /\ copied = [r \in Readers |-> Absent]
    /\ fresh = {} /\ kept = {}

-----------------------------------------------------------------------------
(* Update, and the filestore's upload handler *)

Change(o) == obj' = o /\ fresh' = {}

\* A source may deliver another number of bytes than it declared.
UpdateStart ==
    /\ up = "idle" /\ up' = "sent"
    /\ promised' \in Sizes /\ streamed' \in Sizes
    /\ copied' = [r \in Readers |-> Absent]
    /\ UNCHANGED <<fileVars, lastErr, handleVars, at, op, inHand, kept>>

\* Refused (credential, body, scope, throttle, path) before the file is touched.
UploadRefused ==
    /\ up = "sent" /\ up' = "failed"
    /\ UNCHANGED <<fileVars, promised, streamed, lastErr, handleVars, readerVars, kept>>

\* The destination is opened with O_TRUNC ...
UploadOpens ==
    /\ up = "sent" /\ up' = "open"
    /\ Change(0)
    /\ UNCHANGED <<promised, streamed, lastErr, handleVars, readerVars, kept>>

\* ... grows as the body is copied into it ...
UploadCopies ==
    /\ up = "open" /\ obj < streamed
    /\ Change(obj + 1)
    /\ UNCHANGED <<updateVars, handleVars, readerVars, kept>>

\* ... and stays as it is when the copy fails.
UploadBreaks ==
    /\ up = "open" /\ up' = "failed"
    /\ UNCHANGED <<fileVars, promised, streamed, lastErr, handleVars, readerVars, kept>>

\* Mutant: a short or long body is accepted.
UploadEndsUnchecked ==
    /\ up = "open" /\ obj = streamed /\ up' = "acked"
    /\ UNCHANGED <<fileVars, promised, streamed, lastErr, handleVars, readerVars, kept>>

\* The whole body is in the file: it must be as long as declared, or is removed.
UploadEnds ==
    /\ up = "open" /\ obj = streamed
    /\ \/ streamed = promised /\ up' = "acked" /\ UNCHANGED fileVars
       \/ streamed # promised /\ up' = "failed" /\ Change(Absent)
    /\ UNCHANGED <<promised, streamed, lastErr, handleVars, readerVars, kept>>

\* The acknowledgement is lost on its way back.
AckLost ==
    /\ up = "acked" /\ up' = "failed"
    /\ UNCHANGED <<fileVars, promised, streamed, lastErr, handleVars, readerVars, kept>>

\* Update returns an error and leaves the Object as it is.
UpdateFails ==
    /\ up = "failed" /\ up' = "idle" /\ lastErr' = TRUE
    /\ promised' = 0 /\ streamed' = 0
    /\ UNCHANGED <<fileVars, handleVars, readerVars, kept>>

\* Mutant: Update leaves the Object as it was.
UpdateForgets ==
    /\ up = "acked" /\ up' = "idle" /\ lastErr' = FALSE
    /\ raced' = FALSE
    /\ promised' = 0 /\ streamed' = 0
    /\ UNCHANGED <<uuid, size, kept, fileVars, readerVars>>

\* Update clears the uuid and takes the size from its source.
UpdateClears ==
    /\ up = "acked" /\ up' = "idle" /\ lastErr' = FALSE
    /\ uuid' = FALSE /\ size' = promised
    /\ kept' = {} /\ raced' = FALSE
    /\ promised' = 0 /\ streamed' = 0
    /\ UNCHANGED <<fileVars, readerVars>>

-----------------------------------------------------------------------------
(* Size, ModTime, Open and Copy *)

\* The method's own look at the Object: does it have to resolve?
Unresolved(m) ==
    CASE m \in {"Size", "Copy"} -> ~uuid /\ size = 0
      [] m = "ModTime"          -> ~uuid
      [] m = "Open"             -> TRUE

\* The method returns.
Finish(r) ==
    /\ at' = [at EXCEPT ![r] = "idle"] /\ op' = [op EXCEPT ![r] = "Size"]
    /\ inHand' = [inHand EXCEPT ![r] = 0] /\ copied' = [copied EXCEPT ![r] = Absent]
    /\ fresh' = fresh \ {r} /\ kept' = kept \ {r}

\* rclone calls one of the four methods; a Copy goes to the filestore first.
Begin(r) ==
    /\ at[r] = "idle"
    /\ \E m \in Ops :
         /\ op' = [op EXCEPT ![r] = m]
         /\ at' = [at EXCEPT ![r] = IF m = "Copy" THEN "copy"
                                     ELSE IF Unresolved(m) THEN "resolve" ELSE "snap"]
    /\ kept' = kept \cup {r}
    /\ UNCHANGED <<fileVars, updateVars, handleVars, inHand, copied>>

\* copyFile opens the source.  The copy is of the length it has now, unless an
\* Update is running or starts before the copy is done.
CopyFile(r) ==
    /\ at[r] = "copy" /\ obj # Absent
    /\ copied' = [copied EXCEPT ![r] = IF up = "idle" THEN obj ELSE Absent]
    /\ at' = [at EXCEPT ![r] = "copied"]
    /\ UNCHANGED <<fileVars, updateVars, handleVars, op, inHand, kept>>

\* The copy, or its answer, is lost.
CopyFails(r) ==
    /\ at[r] \in {"copy", "copied"}
    /\ Finish(r)
    /\ UNCHANGED <<obj, updateVars, handleVars>>

\* The copy is done; the new Object is given the Size() the source has by now.
CopyAcked(r) ==
    /\ at[r] = "copied"
    /\ at' = [at EXCEPT ![r] = IF Unresolved("Copy") THEN "resolve" ELSE "snap"]
    /\ UNCHANGED <<fileVars, updateVars, handleVars, op, inHand, copied, kept>>

\* resolve is a no-op on an Object that has a uuid by then.
ResolveCheck(r) ==
    /\ at[r] = "resolve"
    /\ at' = [at EXCEPT ![r] = IF uuid THEN "snap" ELSE "fetch"]
    /\ kept' = kept \cup {r}
    /\ UNCHANGED <<fileVars, updateVars, handleVars, op, inHand, copied>>

\* readMetadata answers with the file as it is.
Fetch(r) ==
    /\ at[r] = "fetch" /\ obj # Absent
    /\ inHand' = [inHand EXCEPT ![r] = obj] /\ fresh' = fresh \cup {r}
    /\ at' = [at EXCEPT ![r] = "apply"]
    /\ UNCHANGED <<obj, updateVars, handleVars, op, copied, kept>>

\* The file is gone, or the round trip fails or times out: Open returns the
\* error, the others make do with what the Object holds.
FetchFails(r) ==
    /\ at[r] = "fetch"
    /\ IF op[r] = "Open"
       THEN Finish(r)
       ELSE at' = [at EXCEPT ![r] = "snap"] /\ UNCHANGED <<op, inHand, copied, fresh, kept>>
    /\ UNCHANGED <<obj, updateVars, handleVars>>

\* Mutant: the size is stored but not the uuid.
ApplyNoUuid(r) ==
    /\ at[r] = "apply"
    /\ size' = inHand[r] /\ raced' = (raced \/ r \notin fresh)
    /\ kept' = kept \cup {r}
    /\ at' = [at EXCEPT ![r] = "snap"]
    /\ UNCHANGED <<fileVars, updateVars, uuid, op, inHand, copied>>

\* The metadata is stored, whatever has happened to the Object meanwhile.
Apply(r) ==
    /\ at[r] = "apply"
    /\ uuid' = TRUE /\ size' = inHand[r] /\ raced' = (raced \/ r \notin fresh)
    /\ kept' = kept \cup {r}
    /\ at' = [at EXCEPT ![r] = "snap"]
    /\ UNCHANGED <<fileVars, updateVars, op, inHand, copied>>

\* Size and ModTime return what is held, Copy puts the size in the new Object.
Return(r) ==
    /\ at[r] = "snap" /\ op[r] # "Open"
    /\ Finish(r)
    /\ UNCHANGED <<obj, updateVars, handleVars>>

\* Open needs a uuid ...
OpenMisses(r) ==
    /\ at[r] = "snap" /\ op[r] = "Open" /\ ~uuid
    /\ Finish(r)
    /\ UNCHANGED <<obj, updateVars, handleVars>>

\* ... and takes uuid and size in one critical section; the size bounds a read
\* from an offset to the end (SeekOption, open RangeOption).
OpenSnapshot(r) ==
    /\ at[r] = "snap" /\ op[r] = "Open" /\ uuid
    /\ inHand' = [inHand EXCEPT ![r] = size]
    /\ fresh' = fresh \cup {r} /\ kept' = kept \cup {r}
    /\ at' = [at EXCEPT ![r] = "download"]
    /\ UNCHANGED <<obj, updateVars, handleVars, op, copied>>

\* The bytes the filestore delivers of n asked for: a uuid names a path, so they
\* are of the file as it now is.
Delivered(n) == IF n > obj THEN obj ELSE n

\* The stream of Delivered(inHand[r]) bytes, or an error.
Download(r) ==
    /\ at[r] = "download"
    /\ Finish(r)
    /\ UNCHANGED <<obj, updateVars, handleVars>>

Upload == UploadRefused \/ UploadOpens \/ UploadCopies \/ UploadBreaks \/ UploadEnds \/ AckLost
Update == UpdateStart \/ Upload \/ UpdateFails \/ UpdateClears
Resolve(r) == ResolveCheck(r) \/ Fetch(r) \/ FetchFails(r) \/ Apply(r)
Copy(r) == CopyFile(r) \/ CopyFails(r) \/ CopyAcked(r)
Method(r) ==
    \/ Begin(r) \/ Copy(r) \/ Resolve(r) \/ Return(r)
    \/ OpenMisses(r) \/ OpenSnapshot(r) \/ Download(r)

HandleNext == Update \/ \E r \in Readers : Method(r)

HandleSpec == HandleInit /\ [][HandleNext]_objectVars

-----------------------------------------------------------------------------
(* Properties *)

\* Between Updates an Object holds the file's true size, unless the last Update
\* failed or a resolve stored metadata it had fetched before the file changed.
HeldSizeTrueUnlessRaced ==
    up = "idle" /\ ~lastErr /\ ~raced => size = obj

\* Open reports a missing uuid only if an Update cleared it after this Open had
\* resolved the Object.
OpenRefusedOnlyByUpdate ==
    \A r \in Readers : at[r] = "snap" /\ op[r] = "Open" /\ ~uuid => r \notin kept

\* A read to the end delivers the whole file if neither the file nor the Object
\* has changed since Open looked at it, and what the Object held was not stale.
ReadToEndIsWhole ==
    \A r \in Readers :
        at[r] = "download" /\ up = "idle" /\ ~lastErr /\ ~raced /\ r \in fresh \cap kept =>
            Delivered(inHand[r]) = obj

\* The size transferFile gives the Object of a server-side copy is the length of
\* that copy, unless an Update of the source ran since copyFile opened it, or what
\* the source Object held was not sound.
CarriedSizeIsTrue ==
    \A r \in Readers :
        at[r] = "snap" /\ op[r] = "Copy" /\ copied[r] # Absent /\ ~lastErr /\ ~raced =>
            size = copied[r]

(* What the code's comments say *)

\* object.go, Size: "uuid == "" && size == 0 - the only state in which the held
\* size can be false" (after successful Updates).
HeldSizeIsTrue ==
    up = "idle" /\ ~lastErr /\ ~(~uuid /\ size = 0) => size = obj

\* object.go, Update: "the upload replaces the existing object atomically".
ReplacedAtomically == [][ obj' # obj => obj' = promised ]_objectVars
=============================================================================
