-------------------------------- MODULE Boot --------------------------------
(***************************************************************************)
(* The start of the process: what stands between a configuration document  *)
(* and a live mount.  runWith loads and validates the document, finds a    *)
(* writable cache directory, takes the signals over, and hands the mounts  *)
(* to orchestrator.run, which rejects conflicting ones and then, mount by  *)
(* mount, builds the Fs, walks the destination for files a mount would     *)
(* hide, and mounts.  The guest's own processes create files meanwhile,    *)
(* and the host sends signals.  What happens once mounts are up and when   *)
(* they come down is module Orchestrator's; here a teardown is one step.   *)
(*                                                                         *)
(* A destination is the sequence its string splits into at "/", so "/a/"   *)
(* is <<"", "a", "">>.  Any other value of a document stands for the class *)
(* of strings the code treats alike.                                       *)
(***************************************************************************)
EXTENDS FilePaths, FiniteSets

CONSTANTS Documents,     \* the configuration documents the host may write
          Dirs,          \* the directories of the image, as sequences of names
          EntryCeiling   \* scaffoldWalkEntryCeiling

\* A Mount and a Config as decoded; an absent pointer field is "absent".
MountEntry ==
    [destination : Seq(STRING), authToken : STRING, filesystemID : STRING,
     memoryStoreID : STRING, readonly : {"absent", "true", "false"},
     cacheDurationS : {"absent", "-1", "0", "3600"}, dirPerms : STRING,
     filePerms : STRING, vfsCacheMaxSize : STRING, vfsCacheMode : STRING,
     vfsWriteBack : STRING]

Config ==
    [form : STRING, schemaVersion : STRING, serviceURL : STRING,
     caCertPEM : {"", "text", "pem"}, hasMounts : BOOLEAN, mounts : Seq(MountEntry)]

ASSUME BootAssumption ==
    /\ Documents \subseteq Config
    /\ Dirs \subseteq Seq(STRING) /\ <<>> \in Dirs
    /\ \A d \in Dirs : \A n \in 0..Len(d) : SubSeq(d, 1, n) \in Dirs
    /\ EntryCeiling \in Nat

CacheDirs == {"home", "tmpfs", "tmp"}

VARIABLES
    pc,             \* where runWith, run or mountAndWaitReady is
    doc,            \* the document Load read
    at,             \* the mount the start-up loop is at
    content,        \* what each image directory holds besides directories
    todo,           \* the directories the shadow walk has still to read
    seen,           \* the entries it has counted
    fresh,          \* per mount: where files appeared since its walk began
    live,           \* the mounts that are up
    serves,         \* what each mount serves
    cacheWritable,  \* can the VFS write to its cache directory?
    ignored,        \* has rclone's exit handler been told to ignore signals?
    notified,       \* do signals go to the process's own channel?
    atexit,         \* is rclone's exit handler installed?
    pending,        \* is a signal in that channel?
    readyFile       \* the ready-file: none, stale (an earlier process's), ours

loadVars   == <<doc, cacheWritable>>
signalVars == <<ignored, notified, atexit, pending>>
walkVars   == <<todo, seen>>
mountVars  == <<live, serves>>
vars == <<pc, at, content, fresh, readyFile, loadVars, signalVars, walkVars, mountVars>>

Alive == pc \notin {"left", "killed"}

-----------------------------------------------------------------------------
(* mountcfg: the rules of a document *)

\* destinationRe, ^/.+
Absolute(dest) == Head(dest) = "" /\ Len(dest) > 1 /\ dest # <<"", "">>

Octal(s)     == s \in {"0755", "0644"}
ByteSize(s)  == s \in {"1G", "10"}
CacheMode(s) == s \in {"off", "minimal", "writes", "full"}

Present(v) == v # "absent"

\* Mutant: an absent readonly is read as false.
validateMountLax(m) ==
    /\ Absolute(m.destination)
    /\ m.authToken # ""
    /\ Present(m.filesystemID) # Present(m.memoryStoreID)
    /\ m.filesystemID # "" /\ m.memoryStoreID # ""
    /\ m.cacheDurationS \notin {"absent", "-1"}
    /\ Octal(m.dirPerms) /\ Octal(m.filePerms)
    /\ ByteSize(m.vfsCacheMaxSize) /\ CacheMode(m.vfsCacheMode)

validateMount(m) ==
    /\ Absolute(m.destination)
    /\ m.authToken # ""
    /\ Present(m.filesystemID) # Present(m.memoryStoreID)
    /\ m.filesystemID # "" /\ m.memoryStoreID # ""
    /\ Present(m.readonly)
    /\ m.cacheDurationS \notin {"absent", "-1"}
    /\ Octal(m.dirPerms) /\ Octal(m.filePerms)
    /\ ByteSize(m.vfsCacheMaxSize) /\ CacheMode(m.vfsCacheMode)

\* "hostless" parses as a request URI; only the client constructor minds.
validate(d) ==
    /\ d.schemaVersion = "v1alpha"
    /\ d.serviceURL \in {"https", "hostless"}
    /\ d.caCertPEM # ""
    /\ d.hasMounts
    /\ \A i \in DOMAIN d.mounts : validateMount(d.mounts[i])

\* Load: the file is read, decoded without unknown fields, and validated.
Accepts(d) == d.form = "object" /\ validate(d)

\* The JSON schema of the contract, which has no vfs_write_back.
SchemaMount(m) ==
    /\ Absolute(m.destination)
    /\ m.authToken # ""
    /\ \/ Present(m.filesystemID) /\ m.filesystemID # "" /\ ~Present(m.memoryStoreID)
       \/ Present(m.memoryStoreID) /\ m.memoryStoreID # "" /\ ~Present(m.filesystemID)
    /\ m.readonly \in {"true", "false"}
    /\ CacheMode(m.vfsCacheMode)
    /\ m.cacheDurationS \in {"0", "3600"}
    /\ ByteSize(m.vfsCacheMaxSize)
    /\ Octal(m.dirPerms) /\ Octal(m.filePerms)
    /\ m.vfsWriteBack = ""

SchemaAccepts(d) ==
    /\ d.form = "object"
    /\ d.schemaVersion = "v1alpha"
    /\ d.serviceURL \in {"https", "hostless"}
    /\ d.caCertPEM = "pem"
    /\ d.hasMounts
    /\ \A i \in DOMAIN d.mounts : SchemaMount(d.mounts[i])

-----------------------------------------------------------------------------
(* buildSpecs and mountAndWaitReady: what is derived from a mount *)

CleanStep(names, s) ==
    CASE s \in {"", "."} -> names
      [] s = ".."        -> IF names = <<>> THEN <<>> ELSE Parent(names)
      [] OTHER           -> Append(names, s)

\* filepath.Clean of an absolute path, as the names below the root.
Clean(dest) ==
    LET cleaned[n \in 0..Len(dest)] ==
            IF n = 0 THEN <<>> ELSE CleanStep(cleaned[n - 1], dest[n])
    IN  cleaned[Len(dest)]

N == Len(doc.mounts)
Dest(i) == Clean(doc.mounts[i].destination)

\* prior + "/" is a prefix of cleaned; "/" + "/" is a prefix of nothing clean.
Nested(prior, cleaned) == prior # <<>> /\ prior # cleaned /\ IsPrefix(prior, cleaned)

\* No memory store, and no two destinations equal or nested, before any mount.
buildSpecs ==
    /\ \A i \in 1..N : ~Present(doc.mounts[i].memoryStoreID)
    /\ \A i \in 1..N, j \in 1..N : i < j =>
          /\ Dest(i) # Dest(j)
          /\ ~Nested(Dest(i), Dest(j)) /\ ~Nested(Dest(j), Dest(i))

buildOcufsConfigmap(m) ==
    ~Present(m.memoryStoreID) /\ Present(m.filesystemID) /\ m.filesystemID # ""

\* The client constructor parses the URL, and the trust anchor of its transport.
NewClient == doc.serviceURL = "https" /\ doc.caCertPEM = "pem"

NewFs(m) ==
    /\ m.filesystemID # "" /\ m.authToken # ""
    /\ NewClient

\* buildVFSOptions: a size without a unit is in bytes, an empty write-back is
\* rclone's default, and one that does not parse or is not positive is refused.
VFSOptionsParse(m) ==
    /\ CacheMode(m.vfsCacheMode) /\ ByteSize(m.vfsCacheMaxSize)
    /\ Octal(m.dirPerms) /\ Octal(m.filePerms)
    /\ m.vfsWriteBack \in {"", "1s"}

VFSOptions(m) ==
    [mode |-> m.vfsCacheMode, dirCacheTime |-> m.cacheDurationS,
     size |-> IF m.vfsCacheMaxSize = "10" THEN "10B" ELSE m.vfsCacheMaxSize,
     writeBack |-> IF m.vfsWriteBack = "" THEN "5s" ELSE m.vfsWriteBack,
     dirPerms |-> m.dirPerms, filePerms |-> m.filePerms,
     readOnly |-> m.readonly = "true"]

\* What the mount of m is meant to serve: its scope, its credential, its options.
Own(m) == [fs |-> m.filesystemID, token |-> m.authToken, options |-> VFSOptions(m)]

\* Mutant: every Fs has the same name.
FsNameConstant(m) == <<"ocufs">>

FsName(m) == <<"ocufs">> \o m.destination

\* vfs.New returns the active VFS of the same Fs name and options, if there is one.
VFSFor(i) ==
    LET m == doc.mounts[i]
        same == {j \in live : /\ FsName(doc.mounts[j]) = FsName(m)
                              /\ VFSOptions(doc.mounts[j]) = VFSOptions(m)}
    IN  IF same = {} THEN Own(m) ELSE serves[CHOOSE j \in same : TRUE]

-----------------------------------------------------------------------------
Init ==
    /\ pc = "args" /\ at = 1
    /\ doc = [form |-> "unreadable"]
    /\ content \in {c \in [Dirs -> {"nothing", "file", "broken"}] : c[<<>>] = "file"}
    /\ todo = {} /\ seen = 0
    /\ fresh = <<>> /\ serves = <<>> /\ live = {}
    /\ cacheWritable = FALSE
    /\ ignored = FALSE /\ notified = FALSE /\ atexit = FALSE /\ pending = FALSE
    /\ readyFile \in {"none", "stale"}

(* runWith *)

\* A flag error, --version, or no --config: the process is done.
NothingToRun ==
    /\ pc = "args" /\ pc' = "left"
    /\ UNCHANGED <<at, content, fresh, readyFile, loadVars, signalVars, walkVars, mountVars>>

Load ==
    /\ pc = "args"
    /\ doc' \in Documents
    /\ IF Accepts(doc')
       THEN /\ pc' = "cache"
            /\ fresh'  = [i \in DOMAIN doc'.mounts |-> {}]
            /\ serves' = [i \in DOMAIN doc'.mounts |-> Own(doc'.mounts[i])]
       ELSE pc' = "left" /\ UNCHANGED <<fresh, serves>>
    /\ UNCHANGED <<at, content, readyFile, cacheWritable, signalVars, walkVars, live>>

\* The resolved directory if it is writable, else the posture's tmpfs, else the
\* temporary directory; the process gives up if none is, or if rclone refuses
\* the redirection.
EnsureWritableCacheDir ==
    /\ pc = "cache"
    /\ \E writable \in SUBSET CacheDirs, current \in CacheDirs, redirected \in BOOLEAN :
          LET dir == IF current \in writable THEN current
                     ELSE IF "tmpfs" \in writable THEN "tmpfs" ELSE "tmp"
          IN  IF dir \in writable /\ (dir = current \/ redirected)
              THEN pc' = "ignore" /\ cacheWritable' = (dir \in writable)
              ELSE pc' = "left" /\ UNCHANGED cacheWritable
    /\ UNCHANGED <<at, content, fresh, readyFile, doc, signalVars, walkVars, mountVars>>

\* Mutant: rclone keeps its own exit handler.
IgnoreNothing ==
    /\ pc = "ignore" /\ pc' = "notify"
    /\ UNCHANGED <<at, content, fresh, readyFile, loadVars, signalVars, walkVars, mountVars>>

IgnoreSignals ==
    /\ pc = "ignore" /\ pc' = "notify"
    /\ ignored' = TRUE
    /\ UNCHANGED <<at, content, fresh, readyFile, loadVars, notified, atexit, pending,
                   walkVars, mountVars>>

Notify ==
    /\ pc = "notify" /\ pc' = "entry"
    /\ notified' = TRUE
    /\ UNCHANGED <<at, content, fresh, readyFile, loadVars, ignored, atexit, pending,
                   walkVars, mountVars>>

(* orchestrator.run *)

\* Every started mount is taken down and the ready-file retracted, if it can be.
Return ==
    /\ pc' = "left" /\ live' = {} /\ readyFile' \in {"none", readyFile}
    /\ UNCHANGED <<at, content, fresh, loadVars, signalVars, walkVars, serves>>

\* The stale file goes first, and run returns if it cannot be removed, or if
\* there is nothing to mount.
BuildSpecs ==
    /\ pc = "entry"
    /\ \/ readyFile = "stale" /\ pc' = "left" /\ UNCHANGED readyFile
       \/ pc' = (IF buildSpecs /\ N > 0 THEN "poll" ELSE "left") /\ readyFile' = "none"
    /\ UNCHANGED <<at, content, fresh, loadVars, signalVars, walkVars, mountVars>>

\* A signal is noticed before a mount, before readiness, or while serving.
TakeSignal ==
    /\ pc \in {"poll", "serving"} /\ pending
    /\ Return

\* The Fs and the options of the mount at hand are built, and its walk begins.
BuildMount ==
    /\ pc = "poll" /\ ~pending /\ at <= N
    /\ IF /\ buildOcufsConfigmap(doc.mounts[at]) /\ NewFs(doc.mounts[at])
          /\ VFSOptionsParse(doc.mounts[at])
       THEN /\ pc' = "walk" /\ todo' = {Dest(at)} /\ seen' = 0
            /\ UNCHANGED <<at, content, fresh, readyFile, loadVars, signalVars, mountVars>>
       ELSE Return

\* ReadDir fails: no such directory, or a dead mount is still attached at it or
\* above it.
Broken(d)     == \E p \in Dirs : IsPrefix(p, d) /\ content[p] = "broken"
Unreadable(d) == d \notin Dirs \/ Broken(d)

Children(d) == {c \in Dirs : c # <<>> /\ Parent(c) = d}
Entries(d)  == Cardinality(Children(d)) + (IF content[d] = "file" THEN 1 ELSE 0)

Covered(d) == \E i \in live : IsPrefix(Dest(i), d)

\* Mutant: the walk reads the destination only, not the directories in it.
WalkShallow(d) ==
    /\ pc = "walk" /\ d \in todo
    /\ IF Unreadable(d) \/ content[d] = "file"
       THEN Return
       ELSE /\ todo' = {} /\ seen' = seen
            /\ UNCHANGED <<pc, at, content, fresh, readyFile, loadVars, signalVars, mountVars>>

\* One ReadDir of the walk, which refuses what it cannot read, a file, and too
\* many entries.  No live mount is under a destination: buildSpecs saw to that.
Walk(d) ==
    /\ pc = "walk" /\ d \in todo
    /\ IF Unreadable(d) \/ content[d] = "file" \/ seen + Entries(d) > EntryCeiling
       THEN Return
       ELSE /\ todo' = (todo \ {d}) \cup Children(d)
            /\ seen' = seen + Entries(d)
            /\ UNCHANGED <<pc, at, content, fresh, readyFile, loadVars, signalVars, mountVars>>

\* The walk is over and the mount goes up; a failed one ends the run.
Mount ==
    /\ pc = "walk" /\ todo = {}
    /\ \/ Return
       \/ /\ live' = live \cup {at}
          /\ serves' = [serves EXCEPT ![at] = VFSFor(at)]
          /\ at' = at + 1 /\ pc' = "poll"
          /\ UNCHANGED <<content, fresh, readyFile, loadVars, signalVars, walkVars>>

\* Readiness is announced, or the run ends because it cannot be; then the mounts
\* are waited on, which is when rclone installs its exit handler unless it was
\* told not to.
Serve ==
    /\ pc = "poll" /\ ~pending /\ at > N
    /\ \/ Return
       \/ /\ pc' = "serving" /\ readyFile' = "ours" /\ atexit' = ~ignored
          /\ UNCHANGED <<at, content, fresh, loadVars, ignored, notified, pending, walkVars,
                         mountVars>>

-----------------------------------------------------------------------------
(* The guest and the host *)

\* A file appears in the image, outside every live mount.
CreateFile(d) ==
    /\ Alive /\ content[d] = "nothing" /\ ~Broken(d) /\ ~Covered(d)
    /\ content' = [content EXCEPT ![d] = "file"]
    /\ fresh' = IF pc = "walk" THEN [fresh EXCEPT ![at] = @ \cup {d}] ELSE fresh
    /\ UNCHANGED <<pc, at, readyFile, loadVars, signalVars, walkVars, mountVars>>

\* SIGTERM or SIGINT, to the channel if it is there; by default, and through
\* rclone's handler, it ends the process on the spot.
Signal ==
    /\ Alive
    /\ IF notified /\ ~atexit
       THEN pending' = TRUE /\ UNCHANGED pc
       ELSE pc' = "killed" /\ UNCHANGED pending
    /\ UNCHANGED <<at, content, fresh, readyFile, loadVars, ignored, notified, atexit,
                   walkVars, mountVars>>

Next ==
    \/ NothingToRun \/ Load \/ EnsureWritableCacheDir \/ IgnoreSignals \/ Notify
    \/ BuildSpecs \/ TakeSignal \/ BuildMount \/ (\E d \in todo : Walk(d))
    \/ Mount \/ Serve \/ (\E d \in Dirs : CreateFile(d)) \/ Signal

Spec == Init /\ [][Next]_vars

-----------------------------------------------------------------------------
(* Properties *)

\* A live mount hides no file that was there when its walk began: only one the
\* guest created between the walk's reads and the mount call is out of sight.
HidesOnlyNewcomers ==
    \A i \in live, d \in Dirs :
        IsPrefix(Dest(i), d) /\ content[d] # "nothing" => d \in fresh[i]

\* Every live mount serves its own scope, credential and options, and no other
\* live mount lies over it, however the destinations are written.
EachServesItsOwn ==
    \A i \in live :
        /\ serves[i] = Own(doc.mounts[i])
        /\ \A j \in live \ {i} : ~IsPrefix(Dest(j), Dest(i))

\* A signal that ends the process on the spot, past the ordered teardown, finds
\* no mount up and no ready-file of this run.
KilledHoldsNothing == pc = "killed" => live = {} /\ readyFile # "ours"

\* Nothing is mounted unless the whole document is sound: it satisfies the
\* contract's schema in all but vfs_write_back, no mount of it is of a kind the
\* process cannot serve, and the VFS has a cache directory it can write to.
LiveMeansSound ==
    live # {} =>
        /\ SchemaAccepts([doc EXCEPT !.mounts =
               [i \in DOMAIN @ |-> [@[i] EXCEPT !.vfsWriteBack = ""]]])
        /\ \A i \in 1..N : ~Present(doc.mounts[i].memoryStoreID)
        /\ cacheWritable

(* Statements of the repository that the code does not keep *)

\* parity_test.go: "a document the schema rejects but the loader accepts is a
\* contract divergence in the binary".
LoaderIsTheSchema == pc = "cache" => SchemaAccepts(doc)

\* orchestrator.go: "a stale file from a previous dead process never advertises
\* ready for this run": a run that fails before it leaves the file in place.
StaleFileIsRemoved == pc = "left" /\ Accepts(doc) => readyFile # "stale"
=============================================================================
