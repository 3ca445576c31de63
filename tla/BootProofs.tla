----------------------------- MODULE BootProofs -----------------------------
(***************************************************************************)
(* How the process starts, and how long it may take to end.  Boot, for any *)
(* documents and any image: the walk is the heart of it, for a file under  *)
(* the destination that was there when the walk began lies below a         *)
(* directory still to be read, until it is met.  TeardownClock, for any    *)
(* number of mounts and any timeouts: every wait begins and ends in time.  *)
(***************************************************************************)
EXTENDS Boot, TeardownClock, TLAPS

Pcs == {"args", "cache", "ignore", "notify", "entry", "poll", "walk", "serving",
        "left", "killed"}

Started == pc \in {"poll", "walk", "serving"}

TypeInv ==
    /\ pc \in Pcs
    /\ at \in Nat \ {0}
    /\ content \in [Dirs -> {"nothing", "file", "broken"}]
    /\ content[<<>>] = "file"
    /\ live \subseteq 1..(at - 1)

\* What the earlier steps of runWith and run have established.
LoadInv ==
    /\ pc \notin {"args", "left", "killed"} =>
         /\ doc \in Documents /\ Accepts(doc)
         /\ fresh \in [1..N -> SUBSET Dirs]
         /\ DOMAIN serves = 1..N /\ serves = [i \in 1..N |-> serves[i]]
    /\ pc \in {"ignore", "notify", "entry"} \/ Started => cacheWritable
    /\ Started => buildSpecs
    /\ pc = "walk" => at <= N /\ NewClient

SignalInv ==
    /\ pc \in {"notify", "entry"} \/ Started => ignored
    /\ pc = "entry" \/ Started => notified
    /\ ~atexit
    /\ readyFile = "ours" => pc \in {"serving", "left"}

\* Files that were there when the walk began are below what it has yet to read.
WalkInv ==
    pc = "walk" =>
        /\ Dest(at) = <<>> => <<>> \in todo
        /\ \A d \in Dirs :
             IsPrefix(Dest(at), d) /\ content[d] # "nothing" =>
                 d \in fresh[at] \/ \E p \in todo : IsPrefix(p, d)

\* The root is never mounted over: it holds files of the image.
LiveInv ==
    /\ live # {} => Started /\ NewClient
    /\ \A i \in live : i <= N /\ Dest(i) # <<>> /\ serves[i] = Own(doc.mounts[i])

IInv == TypeInv /\ LoadInv /\ SignalInv /\ WalkInv /\ LiveInv /\ HidesOnlyNewcomers

-----------------------------------------------------------------------------
\* Different destinations make different Fs names.
LEMMA NamesDiffer ==
    ASSUME NEW s \in Seq(STRING), NEW t \in Seq(STRING),
           <<"ocufs">> \o s = <<"ocufs">> \o t
    PROVE  s = t
  <1>1. Len(s) = Len(t)
    OBVIOUS
  <1>2. \A k \in 1..Len(s) : s[k] = (<<"ocufs">> \o s)[k + 1] /\ t[k] = (<<"ocufs">> \o t)[k + 1]
    BY <1>1
  <1> QED BY <1>1, <1>2

\* Below a directory, everything but itself is below one of its children.
LEMMA BelowAChild ==
    ASSUME NEW d \in Dirs, NEW e \in Dirs, IsPrefix(d, e), d # e
    PROVE  \E c \in Children(d) : IsPrefix(c, e)
  <1> DEFINE c == SubSeq(e, 1, Len(d) + 1)
  <1>0. d \in Seq(STRING) /\ e \in Seq(STRING)
    BY BootAssumption
  <1>1. Len(d) < Len(e)
    BY <1>0 DEF IsPrefix
  <1>2. c \in Dirs
    BY <1>0, <1>1, BootAssumption
  <1>3. c \in Seq(STRING) /\ Len(c) = Len(d) + 1 /\ c # <<>>
    BY <1>0, <1>1
  <1>4. Parent(c) = d
    BY <1>0, <1>1, <1>3 DEF Parent, IsPrefix
  <1>5. IsPrefix(c, e)
    BY <1>0, <1>1, <1>3 DEF IsPrefix
  <1> QED BY <1>2, <1>3, <1>4, <1>5, Zenon DEF Children

\* What is said of the document stays true while the document stays.
LEMMA SameDocument ==
    ASSUME doc' = doc
    PROVE  /\ N' = N /\ (\A i : Dest(i)' = Dest(i))
           /\ buildSpecs' = buildSpecs /\ NewClient' = NewClient
  <1>1. N' = N
    BY DEF N
  <1>2. \A i : Dest(i)' = Dest(i)
    BY DEF Dest
  <1>3. buildSpecs' = buildSpecs
    BY <1>1, <1>2 DEF buildSpecs
  <1>4. NewClient' = NewClient
    BY DEF NewClient
  <1> QED BY <1>1, <1>2, <1>3, <1>4

\* The invariant holds when the process starts.
LEMMA BootInit == Init => IInv
  <1> SUFFICES ASSUME Init PROVE IInv
    OBVIOUS
  <1> USE BootAssumption
  <1>1. TypeInv
    BY DEF Init, TypeInv, Pcs
  <1>2. LoadInv /\ SignalInv /\ WalkInv
    BY DEF Init, LoadInv, SignalInv, WalkInv, Started
  <1>3. LiveInv /\ HidesOnlyNewcomers
    BY DEF Init, LiveInv, HidesOnlyNewcomers
  <1> QED BY <1>1, <1>2, <1>3 DEF IInv

\* Whatever ends the run keeps the invariant.
LEMMA ReturnKeeps == IInv /\ Return => IInv'
  <1> SUFFICES ASSUME IInv, Return PROVE IInv'
    OBVIOUS
  <1>1. TypeInv'
    BY DEF IInv, TypeInv, Return, Pcs, signalVars, loadVars, walkVars
  <1>2. LoadInv' /\ WalkInv'
    BY DEF Return, LoadInv, WalkInv, Started
  <1>3. SignalInv'
    BY DEF IInv, SignalInv, Return, Started, signalVars
  <1>4. LiveInv' /\ HidesOnlyNewcomers'
    BY DEF Return, LiveInv, HidesOnlyNewcomers
  <1> QED BY <1>1, <1>2, <1>3, <1>4 DEF IInv

\* So do the steps of runWith, before any mount.
LEMMA LoadKeeps == IInv /\ Load => IInv'
  <1> SUFFICES ASSUME IInv, Load PROVE IInv'
    OBVIOUS
  <1> USE DEF signalVars, walkVars
  <1>1. TypeInv'
    BY DEF IInv, TypeInv, Load, Pcs
  <1>2. live = {} /\ live' = {}
    BY DEF IInv, LiveInv, Started, Load
  <1>3. LoadInv'
    <2>1. CASE ~Accepts(doc')
      BY <2>1 DEF Load, LoadInv, Started
    <2>2. CASE Accepts(doc')
      <3>1. doc' \in Documents /\ pc' = "cache"
        BY <2>2 DEF Load
      <3>2. DOMAIN doc'.mounts = 1..N'
        <4>1. doc'.mounts \in Seq(MountEntry)
          BY <3>1, BootAssumption, Zenon DEF Config
        <4> QED BY <4>1 DEF N
      <3>3. fresh' \in [1..N' -> SUBSET Dirs]
        BY <2>2, <3>2 DEF Load
      <3>4. DOMAIN serves' = 1..N' /\ serves' = [i \in 1..N' |-> serves'[i]]
        BY <2>2, <3>2 DEF Load
      <3> QED BY <2>2, <3>1, <3>3, <3>4 DEF LoadInv, Started
    <2> QED BY <2>1, <2>2
  <1>4. SignalInv'
    BY DEF IInv, SignalInv, Load, Started
  <1>5. WalkInv'
    BY DEF Load, WalkInv
  <1>6. LiveInv' /\ HidesOnlyNewcomers'
    BY <1>2 DEF LiveInv, HidesOnlyNewcomers
  <1> QED BY <1>1, <1>3, <1>4, <1>5, <1>6 DEF IInv

\* A step that leaves document, mounts, image and walk alone keeps what is said of them.
LEMMA FrameKeeps ==
    ASSUME IInv, UNCHANGED <<doc, at, content, fresh, todo, live, serves>>,
           pc' \in Pcs, pc' = "walk" => pc = "walk", live # {} => Started'
    PROVE  TypeInv' /\ WalkInv' /\ LiveInv' /\ HidesOnlyNewcomers'
  <1>0. N' = N /\ (\A i : Dest(i)' = Dest(i)) /\ NewClient' = NewClient
    BY SameDocument
  <1>1. TypeInv'
    BY DEF IInv, TypeInv
  <1>2. WalkInv'
    BY <1>0 DEF IInv, WalkInv
  <1>3. LiveInv'
    BY <1>0 DEF IInv, LiveInv, Own
  <1>4. HidesOnlyNewcomers'
    BY <1>0 DEF IInv, HidesOnlyNewcomers
  <1> QED BY <1>1, <1>2, <1>3, <1>4

\* The steps that only move the program counter, the signals or the ready-file.
LEMMA QuietKeeps ==
    ASSUME IInv,
           \/ NothingToRun \/ EnsureWritableCacheDir \/ IgnoreSignals \/ Notify
           \/ Serve \/ Signal
    PROVE  IInv'
  <1> SUFFICES ASSUME ~Return PROVE IInv'
    BY ReturnKeeps
  <1> USE DEF loadVars, signalVars, walkVars, mountVars
  <1>1. UNCHANGED <<doc, at, content, fresh, todo, live, serves>>
    BY DEF NothingToRun, EnsureWritableCacheDir, IgnoreSignals, Notify, Serve, Signal
  <1>2. (pc' \in Pcs /\ pc' # "walk") \/ pc' = pc
    BY DEF NothingToRun, EnsureWritableCacheDir, IgnoreSignals, Notify, Serve, Signal, Pcs
  <1>3. live # {} => Started'
    BY DEF IInv, LiveInv, SignalInv, Started, NothingToRun, EnsureWritableCacheDir,
           IgnoreSignals, Notify, Serve, Signal
  <1>4. TypeInv' /\ WalkInv' /\ LiveInv' /\ HidesOnlyNewcomers'
    <2>1. pc' \in Pcs /\ (pc' = "walk" => pc = "walk")
      BY <1>2 DEF IInv, TypeInv
    <2> QED BY <1>1, <1>3, <2>1, FrameKeeps
  <1>5. N' = N /\ buildSpecs' = buildSpecs /\ NewClient' = NewClient
    BY <1>1, SameDocument
  <1>6. LoadInv'
    <2>1. CASE EnsureWritableCacheDir
      <3>1. pc = "cache" /\ (pc' = "left" \/ (pc' = "ignore" /\ cacheWritable'))
        BY <2>1, Zenon DEF EnsureWritableCacheDir
      <3> QED BY <1>1, <1>5, <3>1 DEF IInv, LoadInv, Started
    <2>2. CASE NothingToRun \/ IgnoreSignals \/ Notify
      BY <2>2, <1>1, <1>5 DEF IInv, LoadInv, Started, NothingToRun, IgnoreSignals, Notify
    <2>3. CASE Serve \/ Signal
      BY <2>3, <1>1, <1>5 DEF IInv, LoadInv, Started, Serve, Signal
    <2> QED BY <2>1, <2>2, <2>3
  <1>7. SignalInv'
    <2>1. CASE NothingToRun \/ IgnoreSignals \/ Notify
      <3>1. CASE NothingToRun
        BY <3>1 DEF IInv, SignalInv, Started, NothingToRun
      <3>2. CASE IgnoreSignals
        BY <3>2 DEF IInv, SignalInv, Started, IgnoreSignals
      <3>3. CASE Notify
        BY <3>3 DEF IInv, SignalInv, Started, Notify
      <3> QED BY <2>1, <3>1, <3>2, <3>3
    <2>2. CASE Serve
      <3>1. pc = "poll" /\ pc' = "serving" /\ atexit' = ~ignored /\ UNCHANGED <<ignored, notified>>
        BY <2>2 DEF Serve
      <3>2. ignored /\ notified
        BY <3>1 DEF IInv, SignalInv, Started
      <3> QED BY <3>1, <3>2, Zenon DEF SignalInv, Started
    <2>3. CASE Signal
      BY <2>3 DEF IInv, SignalInv, Started, Signal, Alive
    <2>4. CASE EnsureWritableCacheDir
      <3>1. /\ pc = "cache" /\ pc' \in {"left", "ignore"}
            /\ UNCHANGED <<readyFile, ignored, notified, atexit>>
        BY <2>4 DEF EnsureWritableCacheDir
      <3> QED BY <3>1 DEF IInv, SignalInv, Started
    <2> QED BY <2>1, <2>2, <2>3, <2>4
  <1> QED BY <1>4, <1>6, <1>7 DEF IInv

\* The steps of run before and between the mounts.
LEMMA BuildKeeps == IInv /\ (BuildSpecs \/ TakeSignal \/ BuildMount) => IInv'
  <1> SUFFICES ASSUME IInv, BuildSpecs \/ TakeSignal \/ BuildMount, ~Return PROVE IInv'
    BY ReturnKeeps
  <1> USE DEF loadVars, signalVars, walkVars, mountVars
  <1>1. CASE BuildSpecs
    <2>1. /\ pc = "entry" /\ (pc' = "left" \/ (pc' = "poll" /\ buildSpecs))
          /\ readyFile' \in {"none", "stale"}
          /\ UNCHANGED <<at, content, fresh, loadVars, signalVars, walkVars, mountVars>>
      BY <1>1 DEF BuildSpecs
    <2>2. TypeInv' /\ WalkInv' /\ LiveInv' /\ HidesOnlyNewcomers'
      BY <2>1, FrameKeeps DEF IInv, LiveInv, Started, Pcs
    <2>3. N' = N /\ buildSpecs' = buildSpecs /\ NewClient' = NewClient
      BY <2>1, SameDocument
    <2>4. LoadInv' /\ SignalInv'
      BY <2>1, <2>3 DEF IInv, LoadInv, SignalInv, Started
    <2> QED BY <2>2, <2>4 DEF IInv
  <1>2. CASE TakeSignal
    BY <1>2 DEF TakeSignal
  <1>3. CASE BuildMount
    <2>1. /\ pc = "poll" /\ pc' = "walk" /\ at <= N /\ todo' = {Dest(at)}
          /\ NewFs(doc.mounts[at])
          /\ UNCHANGED <<at, content, fresh, readyFile, loadVars, signalVars, mountVars>>
      BY <1>3 DEF BuildMount
    <2>2. N' = N /\ (\A i : Dest(i)' = Dest(i)) /\ buildSpecs' = buildSpecs /\ NewClient' = NewClient
      BY <2>1, SameDocument
    <2>3. TypeInv' /\ LiveInv' /\ HidesOnlyNewcomers'
      BY <2>1, <2>2 DEF IInv, TypeInv, LiveInv, HidesOnlyNewcomers, Started, Pcs, Own
    <2>4. LoadInv' /\ SignalInv'
      BY <2>1, <2>2, Zenon DEF IInv, LoadInv, SignalInv, Started, NewFs
    <2>5. WalkInv'
      BY <2>1, <2>2 DEF WalkInv
    <2> QED BY <2>3, <2>4, <2>5 DEF IInv
  <1> QED BY <1>1, <1>2, <1>3

\* One ReadDir: what was below the directory is below its children now.
LEMMA WalkKeeps == ASSUME IInv, NEW d \in todo, Walk(d) PROVE IInv'
  <1> SUFFICES ASSUME ~Return PROVE IInv'
    BY ReturnKeeps
  <1> USE DEF loadVars, signalVars, mountVars
  <1>1. /\ pc = "walk" /\ ~Unreadable(d) /\ content[d] # "file"
        /\ todo' = (todo \ {d}) \cup Children(d)
        /\ UNCHANGED <<pc, at, content, fresh, readyFile, loadVars, signalVars, mountVars>>
    BY DEF Walk
  <1>2. d \in Dirs /\ content[d] = "nothing"
    <2>1. d \in Dirs /\ content[d] # "broken"
      <3>1. d \in Dirs /\ ~Broken(d)
        BY <1>1 DEF Unreadable
      <3>2. IsPrefix(d, d)
        BY <3>1, BootAssumption DEF IsPrefix
      <3> QED BY <3>1, <3>2 DEF Broken
    <2> QED BY <1>1, <2>1 DEF IInv, TypeInv
  <1>3. N' = N /\ (\A i : Dest(i)' = Dest(i)) /\ buildSpecs' = buildSpecs /\ NewClient' = NewClient
    BY <1>1, SameDocument
  <1>4. TypeInv' /\ LiveInv' /\ HidesOnlyNewcomers'
    BY <1>1, <1>3 DEF IInv, TypeInv, LiveInv, HidesOnlyNewcomers, Started, Own
  <1>5. LoadInv' /\ SignalInv'
    BY <1>1, <1>3 DEF IInv, LoadInv, SignalInv, Started
  <1>6. WalkInv'
    <2>1. Dest(at) = <<>> => <<>> \in todo'
      BY <1>1, <1>2 DEF IInv, TypeInv, WalkInv
    <2>2. ASSUME NEW e \in Dirs, IsPrefix(Dest(at), e), content[e] # "nothing", e \notin fresh[at]
          PROVE  \E p \in todo' : IsPrefix(p, e)
      <3>1. PICK p \in todo : IsPrefix(p, e)
        BY <1>1, <2>2 DEF IInv, WalkInv
      <3>2. CASE p # d
        BY <1>1, <3>1, <3>2
      <3>3. CASE p = d
        <4>1. d # e
          BY <1>2, <2>2
        <4> QED BY <1>1, <1>2, <3>1, <3>3, <4>1, BelowAChild
      <3> QED BY <3>2, <3>3
    <2> QED BY <1>1, <1>3, <2>1, <2>2 DEF WalkInv
  <1> QED BY <1>4, <1>5, <1>6 DEF IInv

\* A mount goes up: it is a VFS of its own, over nothing that was there.
LEMMA MountKeeps == IInv /\ Mount => IInv'
  <1> SUFFICES ASSUME IInv, Mount, ~Return PROVE IInv'
    BY ReturnKeeps
  <1> USE DEF loadVars, signalVars, walkVars
  <1>1. /\ pc = "walk" /\ todo = {} /\ pc' = "poll" /\ at' = at + 1
        /\ live' = live \cup {at} /\ serves' = [serves EXCEPT ![at] = VFSFor(at)]
        /\ UNCHANGED <<content, fresh, readyFile, loadVars, signalVars, walkVars>>
    BY DEF Mount
  <1>2. N' = N /\ (\A i : Dest(i)' = Dest(i)) /\ buildSpecs' = buildSpecs /\ NewClient' = NewClient
    BY <1>1, SameDocument
  <1>3. TypeInv'
    BY <1>1 DEF IInv, TypeInv, Pcs
  <1>4. at \in 1..N /\ N \in Nat /\ doc.mounts \in Seq(MountEntry) /\ DOMAIN serves = 1..N
    <2>1. doc.mounts \in Seq(MountEntry)
      BY <1>1, BootAssumption, Zenon DEF IInv, LoadInv, Config
    <2> QED BY <1>1, <2>1 DEF IInv, TypeInv, LoadInv, N
  <1>5. LoadInv' /\ SignalInv'
    BY <1>1, <1>2, Zenon DEF IInv, LoadInv, SignalInv, Started
  <1>6. WalkInv'
    BY <1>1 DEF WalkInv
  <1>7. VFSFor(at) = Own(doc.mounts[at])
    <2>1. ASSUME NEW j \in live PROVE FsName(doc.mounts[j]) # FsName(doc.mounts[at])
      <3>1. j \in 1..N /\ j < at
        BY <1>4 DEF IInv, TypeInv, LiveInv
      <3>2. Dest(j) # Dest(at)
        BY <1>1, <1>4, <3>1 DEF IInv, LoadInv, Started, buildSpecs
      <3>3. doc.mounts[j].destination # doc.mounts[at].destination
        BY <3>2 DEF Dest
      <3>4. doc.mounts[j].destination \in Seq(STRING) /\ doc.mounts[at].destination \in Seq(STRING)
        <4>1. doc.mounts[j] \in MountEntry /\ doc.mounts[at] \in MountEntry
          BY <1>4, <3>1 DEF N
        <4> QED BY <4>1 DEF MountEntry
      <3> QED BY <3>3, <3>4, NamesDiffer, Zenon DEF FsName
    <2> QED BY <2>1 DEF VFSFor
  <1>8. LiveInv'
    <2>1. Started' /\ NewClient'
      BY <1>1, <1>2 DEF IInv, LoadInv, Started
    <2>2. Dest(at) # <<>>
      BY <1>1 DEF IInv, WalkInv
    <2>3. serves'[at] = Own(doc.mounts[at]) /\ (\A i \in live : serves'[i] = Own(doc.mounts[i]))
      BY <1>1, <1>4, <1>7 DEF IInv, LoadInv, LiveInv
    <2>4. \A i \in live' : i <= N /\ Dest(i) # <<>> /\ serves'[i] = Own(doc.mounts[i])
      BY <1>1, <1>4, <2>2, <2>3 DEF IInv, LiveInv
    <2> QED BY <1>1, <1>2, <2>1, <2>4 DEF LiveInv
  <1>9. HidesOnlyNewcomers'
    BY <1>1, <1>2 DEF IInv, WalkInv, HidesOnlyNewcomers
  <1> QED BY <1>3, <1>5, <1>6, <1>8, <1>9 DEF IInv

\* A file appears: outside every live mount, and known to be new to the walk.
LEMMA CreateKeeps == ASSUME IInv, NEW d \in Dirs, CreateFile(d) PROVE IInv'
  <1> USE DEF loadVars, signalVars, walkVars, mountVars
  <1>1. /\ pc \notin {"left", "killed"} /\ content[d] = "nothing" /\ ~Covered(d)
        /\ content' = [content EXCEPT ![d] = "file"]
        /\ fresh' = IF pc = "walk" THEN [fresh EXCEPT ![at] = @ \cup {d}] ELSE fresh
        /\ UNCHANGED <<pc, at, readyFile, loadVars, signalVars, walkVars, mountVars>>
    BY DEF CreateFile, Alive
  <1>2. N' = N /\ (\A i : Dest(i)' = Dest(i)) /\ buildSpecs' = buildSpecs /\ NewClient' = NewClient
    BY <1>1, SameDocument
  <1>3. TypeInv'
    BY <1>1 DEF IInv, TypeInv
  <1>4. pc = "walk" => fresh \in [1..N -> SUBSET Dirs] /\ at \in 1..N
    BY <1>1, BootAssumption DEF IInv, TypeInv, LoadInv, N
  <1>5. LoadInv'
    BY <1>1, <1>2, <1>4, Zenon DEF IInv, LoadInv, Started
  <1>6. SignalInv'
    BY <1>1 DEF IInv, SignalInv, Started
  <1>7. WalkInv'
    BY <1>1, <1>2, <1>4 DEF IInv, TypeInv, WalkInv
  <1>8. LiveInv'
    BY <1>1, <1>2 DEF IInv, LiveInv, Started, Own
  <1>9. HidesOnlyNewcomers'
    <2> SUFFICES ASSUME NEW i \in live, NEW e \in Dirs, IsPrefix(Dest(i), e), content'[e] # "nothing"
                 PROVE  e \in fresh'[i]
      BY <1>1, <1>2 DEF HidesOnlyNewcomers
    <2>1. e # d
      BY <1>1 DEF Covered
    <2>2. e \in fresh[i]
      BY <1>1, <2>1 DEF IInv, TypeInv, HidesOnlyNewcomers
    <2>3. i # at
      BY DEF IInv, TypeInv
    <2> QED BY <1>1, <1>4, <2>2, <2>3
  <1> QED BY <1>3, <1>5, <1>6, <1>7, <1>8, <1>9 DEF IInv

-----------------------------------------------------------------------------
\* Every step keeps the invariant.
LEMMA BootNext == IInv /\ [Next]_vars => IInv'
  <1> SUFFICES ASSUME IInv, [Next]_vars PROVE IInv'
    OBVIOUS
  <1>1. CASE Load
    BY <1>1, LoadKeeps
  <1>2. CASE NothingToRun \/ EnsureWritableCacheDir \/ IgnoreSignals \/ Notify \/ Serve \/ Signal
    BY <1>2, QuietKeeps
  <1>3. CASE BuildSpecs \/ TakeSignal \/ BuildMount
    BY <1>3, BuildKeeps
  <1>4. ASSUME NEW d \in todo, Walk(d) PROVE IInv'
    BY <1>4, WalkKeeps
  <1>5. CASE Mount
    BY <1>5, MountKeeps
  <1>6. ASSUME NEW d \in Dirs, CreateFile(d) PROVE IInv'
    BY <1>6, CreateKeeps
  <1>7. CASE UNCHANGED vars
    <2>1. UNCHANGED <<pc, doc, at, content, fresh, todo, live, serves, cacheWritable,
                      ignored, notified, atexit, readyFile>>
      BY <1>7 DEF vars, loadVars, signalVars, walkVars, mountVars
    <2>2. TypeInv' /\ WalkInv' /\ LiveInv' /\ HidesOnlyNewcomers'
      BY <2>1, FrameKeeps DEF IInv, TypeInv, LiveInv, Started
    <2>3. N' = N /\ buildSpecs' = buildSpecs /\ NewClient' = NewClient
      BY <2>1, SameDocument
    <2>4. LoadInv' /\ SignalInv'
      BY <2>1, <2>3 DEF IInv, LoadInv, SignalInv, Started
    <2> QED BY <2>2, <2>4 DEF IInv
  <1> QED BY <1>1, <1>2, <1>3, <1>4, <1>5, <1>6, <1>7 DEF Next

\* The inductive invariant of the start-up: what runWith and run have checked
\* when, and what the shadow walk has still to meet.
THEOREM BootInductive == Spec => []IInv
  BY BootInit, BootNext, PTL DEF Spec

\* For every document and image, a mount that ensureMountpointShadowsNoContent
\* let pass hides no file but those created after its walk began.
THEOREM NothingHidden == Spec => []HidesOnlyNewcomers
  <1>1. IInv => HidesOnlyNewcomers
    BY DEF IInv
  <1> QED BY <1>1, BootInductive, PTL

\* For every document, vfs.New never hands a mount the VFS of another, and the
\* checks of buildSpecs, made on cleaned destinations, keep mounts apart.  The root
\* escapes the check on nesting; the shadow walk is what refuses it.
THEOREM ServesItsOwn == Spec => []EachServesItsOwn
  <1>1. IInv => EachServesItsOwn
    <2> SUFFICES ASSUME IInv, NEW i \in live, NEW j \in live \ {i}
                 PROVE  serves[i] = Own(doc.mounts[i]) /\ ~IsPrefix(Dest(j), Dest(i))
      BY DEF EachServesItsOwn, IInv, LiveInv
    <2>1. i \in 1..N /\ j \in 1..N /\ i # j /\ Dest(j) # <<>> /\ buildSpecs
      <3>1. i \in Nat \ {0} /\ j \in Nat \ {0}
        BY DEF IInv, TypeInv
      <3>2. N \in Nat
        <4>1. doc.mounts \in Seq(MountEntry)
          BY BootAssumption, Zenon DEF IInv, LoadInv, LiveInv, Started, Config
        <4> QED BY <4>1 DEF N
      <3> QED BY <3>1, <3>2 DEF IInv, LoadInv, LiveInv
    <2>2. Dest(i) # Dest(j) /\ ~Nested(Dest(j), Dest(i))
      BY <2>1 DEF buildSpecs
    <2> QED BY <2>1, <2>2 DEF IInv, LiveInv, Nested
  <1> QED BY <1>1, BootInductive, PTL

\* runWith takes the signals over before anything is mounted, and rclone's own
\* handler is never installed: no signal ends the process over a live mount.
THEOREM KillHoldsNothing == Spec => []KilledHoldsNothing
  <1>1. IInv => KilledHoldsNothing
    BY DEF IInv, LiveInv, SignalInv, Started, KilledHoldsNothing
  <1> QED BY <1>1, BootInductive, PTL

\* Load, buildSpecs and the client constructor together let no document through to
\* a mount that the contract's schema would refuse, vfs_write_back aside.
THEOREM SoundWhenLive == Spec => []LiveMeansSound
  <1>1. IInv => LiveMeansSound
    <2> SUFFICES ASSUME IInv, live # {} PROVE LiveMeansSound
      BY Zenon DEF LiveMeansSound
    <2> DEFINE plain(m) == [m EXCEPT !.vfsWriteBack = ""]
               d == [doc EXCEPT !.mounts = [i \in DOMAIN @ |-> plain(@[i])]]
    <2>1. doc \in Config /\ Accepts(doc) /\ buildSpecs /\ NewClient /\ cacheWritable
      BY BootAssumption DEF IInv, LoadInv, LiveInv, Started
    <2>2. doc.mounts \in Seq(MountEntry) /\ DOMAIN doc.mounts = 1..N
      <3>1. doc.mounts \in Seq(MountEntry)
        BY <2>1, Zenon DEF Config
      <3> QED BY <3>1 DEF N
    <2>3. \A i \in 1..N : ~Present(doc.mounts[i].memoryStoreID)
      BY <2>1 DEF buildSpecs
    <2>4. ASSUME NEW i \in 1..N PROVE SchemaMount(plain(doc.mounts[i]))
      <3>1. doc.mounts[i] \in MountEntry /\ validateMount(doc.mounts[i])
        <4>1. \A k \in DOMAIN doc.mounts : validateMount(doc.mounts[k])
          BY <2>1, Zenon DEF Accepts, validate
        <4>2. doc.mounts[i] \in MountEntry
          BY <2>2 DEF N
        <4> QED BY <2>2, <4>1, <4>2, Zenon
      <3> QED BY <3>1, Zenon DEF MountEntry, validateMount, SchemaMount, Present
    <2>5. SchemaAccepts(d)
      <3>1. /\ d.form = doc.form /\ d.schemaVersion = doc.schemaVersion
            /\ d.serviceURL = doc.serviceURL /\ d.caCertPEM = doc.caCertPEM
            /\ d.hasMounts = doc.hasMounts
            /\ d.mounts = [i \in 1..N |-> plain(doc.mounts[i])]
        BY <2>1, <2>2, Zenon DEF Config
      <3> QED BY <2>1, <2>4, <3>1, Zenon DEF Accepts, validate, NewClient, SchemaAccepts
    <2> QED BY <2>1, <2>3, <2>5, Zenon DEF LiveMeansSound
  <1> QED BY <1>1, BootInductive, PTL
-----------------------------------------------------------------------------
(* The clock of the teardown, for any number of mounts and any timeouts: a wait *)
(* begins no later than the waits before it allow, and the clock does not pass  *)
(* the deadline of a wait; the budgets are the sums.                            *)

\* The latest time at which unmountAll can begin.
ClockStart == IF steady THEN 0 ELSE ReadyTimeout + HalfDrain + Grace

\* No wait is past its deadline.
WaitInv == \A p \in All : st[p] \in {"drain", "detach"} => now <= Deadline(p)

\* What the two phases of an interrupted startup have used up.
StartupInv ==
    /\ phase = "ready" => ~steady /\ now <= ReadyTimeout /\ \A p \in All : st[p] = "up"
    /\ phase = "half" =>
         /\ ~steady /\ \A p \in Serving : st[p] = "up"
         /\ \/ st[Half] = "drain" /\ since[Half] <= ReadyTimeout
            \/ st[Half] = "detach" /\ since[Half] <= ReadyTimeout + HalfDrain

\* Every wait of the teardown begins in time, and so does its end.
TeardownInv ==
    phase \in {"teardown", "exit"} =>
        /\ now <= ClockStart + DrainTimeout + Grace
        /\ \A p \in All :
             /\ st[p] # "up"
             /\ st[p] = "drain"  => since[p] <= ClockStart
             /\ st[p] = "detach" => since[p] <= ClockStart + DrainTimeout

ClockInv == ClockTypeOK /\ WaitInv /\ StartupInv /\ TeardownInv

\* The invariant holds when the signal arrives.
LEMMA ClockStarts == ClockInit => ClockInv
  <1> SUFFICES ASSUME ClockInit PROVE ClockInv
    OBVIOUS
  <1>1. ClockTypeOK
    BY Zenon DEF ClockInit, ClockTypeOK, All
  <1>2. WaitInv
    BY ClockAssumption DEF ClockInit, WaitInv, Deadline, All
  <1>3. StartupInv
    BY ClockAssumption DEF ClockInit, StartupInv
  <1>4. TeardownInv
    BY ClockAssumption DEF ClockInit, TeardownInv, ClockStart, All
  <1> QED BY <1>1, <1>2, <1>3, <1>4 DEF ClockInv

\* Every step keeps it.
LEMMA ClockSteps == ClockInv /\ [ClockNext]_(clockVars) => ClockInv'
  <1> SUFFICES ASSUME ClockInv, [ClockNext]_(clockVars) PROVE ClockInv'
    OBVIOUS
  <1> USE ClockAssumption DEF ClockInv, ClockTypeOK, WaitInv, StartupInv, TeardownInv,
              ClockStart, Deadline, All
  <1>1. CASE Ready
    <2>1. ClockTypeOK'
      BY <1>1 DEF Ready, TeardownOf
    <2>2. WaitInv'
      BY <1>1 DEF Ready, TeardownOf
    <2>3. StartupInv'
      BY <1>1 DEF Ready, TeardownOf
    <2>4. TeardownInv'
      BY <1>1 DEF Ready, TeardownOf
    <2> QED BY <2>1, <2>2, <2>3, <2>4
  <1>2. CASE ReadyExpires
    <2>1. ClockTypeOK'
      BY <1>2 DEF ReadyExpires
    <2>2. WaitInv'
      BY <1>2 DEF ReadyExpires
    <2>3. StartupInv'
      BY <1>2 DEF ReadyExpires
    <2>4. TeardownInv'
      BY <1>2 DEF ReadyExpires
    <2> QED BY <2>1, <2>2, <2>3, <2>4
  <1>3. CASE HalfDown
    <2>1. ClockTypeOK'
      BY <1>3 DEF HalfDown, TeardownOf
    <2>2. WaitInv'
      BY <1>3 DEF HalfDown, TeardownOf
    <2>3. StartupInv'
      BY <1>3 DEF HalfDown, TeardownOf
    <2>4. TeardownInv'
      BY <1>3 DEF HalfDown, TeardownOf
    <2> QED BY <2>1, <2>2, <2>3, <2>4
  <1>4. CASE Exit
    <2>1. ClockTypeOK'
      BY <1>4 DEF Exit
    <2>2. WaitInv'
      BY <1>4 DEF Exit
    <2>3. StartupInv'
      BY <1>4 DEF Exit
    <2>4. TeardownInv'
      BY <1>4 DEF Exit
    <2> QED BY <2>1, <2>2, <2>3, <2>4
  <1>5. CASE Tick
    <2>1. ClockTypeOK'
      BY <1>5 DEF Tick, Due
    <2>2. WaitInv'
      BY <1>5 DEF Tick, Due
    <2>3. StartupInv'
      BY <1>5 DEF Tick, Due
    <2>4. TeardownInv'
      BY <1>5 DEF Tick, Due
    <2> QED BY <2>1, <2>2, <2>3, <2>4
  <1>6. ASSUME NEW p \in All, DrainEnds(p) PROVE ClockInv'
    <2>1. ClockTypeOK'
      BY <1>6 DEF DrainEnds
    <2>2. WaitInv'
      BY <1>6 DEF DrainEnds
    <2>3. StartupInv'
      BY <1>6 DEF DrainEnds
    <2>4. TeardownInv'
      BY <1>6 DEF DrainEnds
    <2> QED BY <2>1, <2>2, <2>3, <2>4
  <1>7. ASSUME NEW p \in All, Detached(p) PROVE ClockInv'
    <2>1. ClockTypeOK'
      BY <1>7 DEF Detached
    <2>2. WaitInv'
      BY <1>7 DEF Detached
    <2>3. StartupInv'
      BY <1>7 DEF Detached
    <2>4. TeardownInv'
      BY <1>7 DEF Detached
    <2> QED BY <2>1, <2>2, <2>3, <2>4
  <1>8. CASE UNCHANGED clockVars
    <2>1. ClockTypeOK'
      BY <1>8 DEF clockVars
    <2>2. WaitInv'
      BY <1>8 DEF clockVars
    <2>3. StartupInv'
      BY <1>8 DEF clockVars
    <2>4. TeardownInv'
      BY <1>8 DEF clockVars
    <2> QED BY <2>1, <2>2, <2>3, <2>4
  <1> QED BY <1>1, <1>2, <1>3, <1>4, <1>5, <1>6, <1>7, <1>8, Zenon DEF ClockNext

\* The clock invariant holds throughout.
THEOREM ClockInductive == ClockSpec => []ClockInv
  BY ClockStarts, ClockSteps, PTL DEF ClockSpec

\* From a steady state the process is gone within one drain and one detach grace,
\* for any number of mounts (unmountAll, doUnmount).
THEOREM SteadyWithinBudget == ClockSpec => []SteadyBudget
  <1>1. ClockInv => SteadyBudget
    BY ClockAssumption DEF ClockInv, StartupInv, TeardownInv, SteadyBudget,
       ClockStart, ClockTypeOK
  <1> QED BY <1>1, ClockInductive, PTL

\* A signal during startup adds a readiness wait and the teardown of the
\* half-started mount (mountAndWaitReady).
THEOREM StartupWithinBudget == ClockSpec => []StartupBudget
  <1>1. ASSUME ClockInv PROVE StartupBudget
    <2>1. CASE phase = "ready"
      BY <1>1, <2>1, ClockAssumption DEF ClockInv, StartupInv, ClockTypeOK, StartupBudget
    <2>2. CASE phase = "half"
      <3>1. \/ now <= since[Half] + HalfDrain /\ since[Half] <= ReadyTimeout
            \/ now <= since[Half] + Grace /\ since[Half] <= ReadyTimeout + HalfDrain
        BY <1>1, <2>2 DEF ClockInv, StartupInv, WaitInv, Deadline, All
      <3> QED BY <1>1, <3>1, ClockAssumption DEF ClockInv, ClockTypeOK, StartupBudget, All
    <2>3. CASE phase \in {"teardown", "exit"}
      BY <1>1, <2>3, ClockAssumption DEF ClockInv, TeardownInv, ClockTypeOK, StartupBudget, ClockStart
    <2> QED BY <1>1, <2>1, <2>2, <2>3 DEF ClockInv, ClockTypeOK
  <1> QED BY <1>1, ClockInductive, PTL
=============================================================================
