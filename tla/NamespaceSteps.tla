--------------------------- MODULE NamespaceSteps ---------------------------
(***************************************************************************)
(* What one step of a namespace handler may do, for any set of paths of at *)
(* most two names and any number of requests: to the types, to where the   *)
(* handlers are, to the tree, to the directories os.RemoveAll has open and *)
(* to half-written files.  NamespaceProofs builds on it.                   *)
(***************************************************************************)
EXTENDS Namespace, SequenceTheorems, TLAPS

\* A request that may do more than look or add a directory.
Writer(r) == req[r] # None /\ req[r].op \notin Lookups \cup {"Mkdir"}

\* The paths a request names.
Ends(r) == {req[r].src, req[r].dst} \ {None}

\* What it may read or write: those paths and what is directly below them.
Zone(r) == {p \in Paths : p \in Ends(r) \/ Parent(p) \in Ends(r)}

\* The operations whose answer a directory made by another can undo.
FromNothing == {"Remove", "Rmdir"} \cup Lookups

\* The types; the answers of a listing are only known to be functions of the request.
TypeInv ==
    /\ tree \in [Paths -> Nodes]
    /\ mode \in {"rw", "fs", "scope"}
    /\ req \in [Requests -> Inputs \cup {None}]
    /\ pc \in [Requests -> {"idle", "sent", "stat", "parents", "act", "entries",
                            "dst", "write", "meta", "rename", "infos", "done"}]
    /\ res \in [Requests -> {"none", "ok", "denied", "notfound", "isdir",
                             "error", "cant"}]
    /\ held \in [Requests -> Paths \cup {None}]
    /\ want \in [Requests -> Nodes] /\ was \in [Requests -> Nodes]
    /\ left = [r \in Requests |-> left[r]] /\ listed = [r \in Requests |-> listed[r]]

\* Where the handler of each operation can be.
Step(r) ==
    /\ pc[r] = "idle" <=> req[r] = None
    /\ res[r] # "none" => pc[r] = "done"
    /\ pc[r] = "stat" => req[r].op = "DirMove"
    /\ pc[r] = "parents" => req[r].op \in {"Mkdir", "Put"} \cup SrcDst
    /\ pc[r] = "entries" => req[r].op = "Rmdir"
    /\ pc[r] = "dst" => req[r].op = "Copy"
    /\ pc[r] = "write" => req[r].op \in {"Put", "Copy"}
    /\ pc[r] = "meta" => req[r].op = "Put"
    /\ pc[r] = "rename" => req[r].op \in {"Move", "DirMove"}
    /\ pc[r] = "infos" => req[r].op = "List"
    /\ pc[r] = "idle" => want[r] = None /\ listed[r] = {}
    /\ pc[r] \notin {"infos", "done"} => listed[r] = {}
ControlInv == \A r \in Requests : Step(r)

\* On a read-only mount only lookups get past the checks.
ReadOnlyInv ==
    mode # "rw" => \A r \in Requests :
        \/ pc[r] \in {"idle", "done"}
        \/ pc[r] = "sent" /\ mode = "scope"
        \/ req[r].op \in Lookups

\* A directory os.RemoveAll has open was named by a request that writes, though it may
\* have been renamed since.
HeldInv ==
    \A s \in Requests : held[s] # None =>
        pc[s] = "entries" /\ \E y \in Requests : Writer(y) /\ held[s] \in Ends(y)

\* A path that some writing request names, or whose directory it names.
Placed(p) == \E y \in Requests : Writer(y) /\ (p \in Ends(y) \/ Parent(p) \in Ends(y))

\* Half-written content lies only where a writer put it, and once its write has begun.
PartInv ==
    \A s \in Requests :
       /\ \A p \in Paths : tree[p] = Part(s) => pc[s] \in {"write", "meta", "done"} /\ Placed(p)
       /\ \A y \in Requests : want[y] = Part(s) => pc[s] \in {"write", "meta", "done"}

-----------------------------------------------------------------------------
\* A path is a sequence of one or two names, and its parent is one name shorter.
LEMMA PathSeq == ASSUME NEW p \in Paths
  PROVE /\ p \in Seq(STRING) /\ Len(p) \in {1, 2} /\ p # <<>>
        /\ Parent(p) \in Seq(STRING) /\ Len(Parent(p)) = Len(p) - 1
        /\ \A i \in 1..(Len(p) - 1) : Parent(p)[i] = p[i]
<1>1. p \in Seq(STRING) /\ Len(p) \in {1, 2}
  BY PathsAssumption
<1>2. /\ SubSeq(p, 1, Len(p) - 1) \in Seq(STRING) /\ Len(SubSeq(p, 1, Len(p) - 1)) = Len(p) - 1
      /\ \A i \in 1..(Len(p) - 1) : SubSeq(p, 1, Len(p) - 1)[i] = p[i]
  BY <1>1
<1>3. Len(<<>>) = 0
  OBVIOUS
<1>4. ASSUME p = <<>> PROVE FALSE
  <2>1. Len(p) = 0
    BY <1>3, <1>4, Zenon
  <2> QED BY <1>1, <2>1
<1> QED BY <1>1, <1>2, <1>4 DEF Parent

\* The parent of a path is a path of its own or the root, which is no path.
LEMMA ParentOfPath == ASSUME NEW p \in Paths
  PROVE /\ Parent(p) # p
        /\ Parent(p) \in Paths \/ Parent(p) = <<>>
        /\ <<>> \notin Paths
        /\ Parent(p) \in Paths => Parent(Parent(p)) \notin Paths
<1>1. \A q \in Paths : q # <<>>
  BY PathSeq
<1>2. Parent(p) # p
  BY PathSeq
<1>3. Parent(p) \in Paths \/ Parent(p) = <<>>
  <2>1. CASE Len(p) = 1
    <3>1. Parent(p) \in Seq(STRING) /\ Len(Parent(p)) = 0
      BY <2>1, PathSeq
    <3> QED BY <3>1, EmptySeq
  <2>2. CASE Len(p) = 2
    <3>1. Parent(p) = SubSeq(p, 1, 1)
      BY <2>2 DEF Parent
    <3> QED BY <2>2, <3>1, PathsAssumption
  <2> QED BY <2>1, <2>2, PathSeq
<1>4. Parent(p) \in Paths => Parent(Parent(p)) \notin Paths
  BY PathSeq, <1>1
<1> QED BY <1>1, <1>2, <1>3, <1>4

\* With two names at most, a prefix is the path itself or its parent.
LEMMA PrefixOfPath == ASSUME NEW p \in Paths, NEW q \in Paths
  PROVE IsPrefix(p, q) <=> p = q \/ Parent(q) = p
<1>1. SubSeq(p, 1, Len(p)) = p /\ SubSeq(q, 1, Len(q)) = q
  BY PathSeq
<1>2. ASSUME Len(p) = Len(q) PROVE IsPrefix(p, q) <=> p = q
  BY <1>1, <1>2, PathSeq DEF IsPrefix
<1>3. ASSUME Len(p) = Len(q) - 1 PROVE IsPrefix(p, q) <=> Parent(q) = p
  BY <1>1, <1>3, PathSeq DEF IsPrefix, Parent
<1>4. ASSUME Len(p) > Len(q) PROVE ~IsPrefix(p, q)
  BY <1>4, PathSeq DEF IsPrefix
<1> QED BY <1>2, <1>3, <1>4, PathSeq

\* The parent of an entry is its directory (RemoveEntry, Info).
LEMMA EntryOfPath == ASSUME NEW p \in Paths, NEW name, Append(p, name) \in Paths
  PROVE Parent(Append(p, name)) = p
<1> DEFINE c == Append(p, name)
<1>1. p \in Seq(STRING) /\ p \in Seq(STRING \cup {name}) /\ name \in STRING \cup {name}
  BY PathSeq
<1>2. Len(c) = Len(p) + 1 /\ \A i \in 1..Len(p) : c[i] = p[i]
  BY <1>1, AppendProperties
<1>3. /\ Parent(c) \in Seq(STRING) /\ Len(Parent(c)) = Len(c) - 1
      /\ \A i \in 1..(Len(c) - 1) : Parent(c)[i] = c[i]
  BY PathSeq, Zenon
<1>4. Len(Parent(c)) = Len(p) /\ \A i \in 1..Len(Parent(c)) : Parent(c)[i] = p[i]
  BY <1>1, <1>2, <1>3
<1> HIDE DEF c
<1> QED BY <1>1, <1>3, <1>4, SeqEqual DEF c

\* An entry is its directory and its name.
LEMMA NameOfEntry == ASSUME NEW p \in Paths, Parent(p) \in Paths
  PROVE Append(Parent(p), Last(p)) = p
BY PathSeq DEF Last

\* What os.Rename leaves at a path: the source at the destination, what was in the
\* source in the destination, nothing where they were, and all else as it was.
LEMMA RenamedAt == ASSUME NEW s \in Paths, NEW d \in Paths, NEW p \in Paths
  PROVE /\ p = d => Renamed(s, d)[p] = tree[s]
        /\ Parent(p) = d => \/ Renamed(s, d)[p] = None
                            \/ \E q \in Paths : Parent(q) = s /\ Renamed(s, d)[p] = tree[q]
        /\ p # d /\ Parent(p) # d =>
             Renamed(s, d)[p] = IF p = s \/ Parent(p) = s THEN None ELSE tree[p]
<1>1. CASE p = d
  <2>1. SubSeq(p, Len(d) + 1, Len(p)) = <<>>
    BY <1>1, PathSeq, SubSeqEmpty
  <2>2. s \o SubSeq(p, Len(d) + 1, Len(p)) = s
    BY <2>1, PathSeq, ConcatEmptySeq, Zenon
  <2>3. Parent(p) # d
    BY <1>1, ParentOfPath
  <2> QED BY <1>1, <2>2, <2>3, PrefixOfPath, Zenon DEF Renamed
<1>2. CASE Parent(p) = d
  <2> DEFINE q == s \o SubSeq(p, Len(d) + 1, Len(p))
  <2>1. p # d /\ IsPrefix(d, p)
    BY <1>2, ParentOfPath, PrefixOfPath
  <2>2. Renamed(s, d)[p] = IF q \in Paths THEN tree[q] ELSE None
    BY <2>1 DEF Renamed
  <2>3. q \in Paths => Parent(q) = s
    <3> SUFFICES ASSUME q \in Paths PROVE Parent(q) = s
      OBVIOUS
    <3>1. Len(p) = 2 /\ Len(d) = 1 /\ p \in Seq(STRING) /\ s \in Seq(STRING) /\ Len(s) \in {1, 2}
      BY <1>2, PathSeq
    <3>2. SubSeq(p, 2, 2) \in Seq(STRING) /\ Len(SubSeq(p, 2, 2)) = 1
      BY <3>1
    <3>3. q = s \o SubSeq(p, 2, 2)
      BY <3>1
    <3>4. Len(q) = Len(s) + 1 /\ \A i \in 1..Len(s) : q[i] = s[i]
      BY <3>1, <3>2, <3>3, ConcatProperties
    <3>5. /\ Parent(q) \in Seq(STRING) /\ Len(Parent(q)) = Len(q) - 1
          /\ \A i \in 1..(Len(q) - 1) : Parent(q)[i] = q[i]
      BY PathSeq, Zenon
    <3>6. Len(Parent(q)) = Len(s) /\ \A i \in 1..Len(Parent(q)) : Parent(q)[i] = s[i]
      BY <3>1, <3>4, <3>5
    <3> HIDE DEF q
    <3> QED BY <3>1, <3>5, <3>6, SeqEqual
  <2> HIDE DEF q
  <2> QED BY <2>1, <2>2, <2>3, <1>2
<1>3. CASE p # d /\ Parent(p) # d
  <2>1. ~IsPrefix(d, p) /\ (IsPrefix(s, p) <=> p = s \/ Parent(p) = s)
    BY <1>3, PrefixOfPath
  <2> QED BY <1>3, <2>1 DEF Renamed
<1> QED BY <1>1, <1>2, <1>3

\* What a method of the Fs returns.
Results == {"none", "ok", "denied", "notfound", "isdir", "error", "cant"}

\* The steps of a handler.
Steps == {"idle", "sent", "stat", "parents", "act", "entries",
          "dst", "write", "meta", "rename", "infos", "done"}

\* An answer ends the handler, and is a success only if the filestore said so or a Mkdir
\* met a directory (MapHTTPStatus, Mkdir).
LEMMA Replied ==
  ASSUME TypeInv, NEW r \in Requests, NEW status, Reply(r, status)
  PROVE  /\ pc' = [pc EXCEPT ![r] = "done"]
         /\ pc' \in [Requests -> Steps] /\ res' \in [Requests -> Results]
         /\ \A x \in Requests \ {r} : res'[x] = res[x]
         /\ res'[r] \notin {"none", "cant"}
         /\ res'[r] = "ok" => status = "ok" \/ (status = "conflict" /\ req[r].op = "Mkdir")
         /\ res'[r] \in {"denied", "notfound", "isdir"} => res'[r] = status
<1>1. PICK out \in Answers(req[r].op, status) : res' = [res EXCEPT ![r] = out]
  BY Zenon DEF Reply
<1>2. /\ out \in Results \ {"none", "cant"}
      /\ out = "ok" => status = "ok" \/ (status = "conflict" /\ req[r].op = "Mkdir")
      /\ out \in {"denied", "notfound", "isdir"} => out = status
  BY <1>1 DEF Answers, Mapped, Results
<1> QED BY <1>1, <1>2 DEF Reply, TypeInv, Results, Steps

\* A step that does not answer moves the handler's step and nothing the caller sees.
LEMMA Went ==
  ASSUME TypeInv, NEW r \in Requests, NEW step \in Steps, Goto(r, step)
  PROVE  /\ pc' = [pc EXCEPT ![r] = step] /\ pc' \in [Requests -> Steps] /\ res' = res
BY DEF Goto, TypeInv, Steps

\* The operands of a call.
LEMMA InputTypes ==
  ASSUME NEW q \in Inputs
  PROVE  /\ q # None /\ q.dst \in Paths /\ q.op \in OneDst \cup SrcDst
         /\ q.src # None => q.src \in Paths
         /\ q.op \in SrcDst <=> q.src # None
         /\ q.src # q.dst
BY ValuesAssumption DEF Inputs, OneDst, SrcDst, Lookups, Contents

\* The operands of a request under way.
LEMMA Called ==
  ASSUME TypeInv, ControlInv, NEW r \in Requests, pc[r] # "idle"
  PROVE  /\ req[r] \in Inputs /\ req[r] # None /\ req[r].dst \in Paths /\ req[r].op \in OneDst \cup SrcDst
         /\ req[r].src # None => req[r].src \in Paths
         /\ req[r].op \in SrcDst <=> req[r].src # None
         /\ req[r].src # req[r].dst
BY InputTypes DEF TypeInv, ControlInv, Step

\* Every step keeps the types.
LEMMA TypeHolds == TypeInv /\ ControlInv /\ [Next]_vars => TypeInv'
<1> SUFFICES ASSUME TypeInv, ControlInv, [Next]_vars PROVE TypeInv'
  OBVIOUS
<1> USE DEF TypeInv
<1>1. CASE UNCHANGED vars
  BY <1>1 DEF vars
<1>2. ASSUME NEW r \in Requests, Serve(r), UNCHANGED listed PROVE TypeInv'
  <2> USE <1>2 DEF Steps, Results
  <2>0. /\ None \in Nodes /\ Dir \in Nodes /\ r \in Nodes /\ Part(r) \in Nodes
    BY DEF Nodes, Contents, Parts
  <2>1. CASE Call(r)
    <3>1. PICK q \in Inputs :
          /\ req' = [req EXCEPT ![r] = q]
          /\ was' = [was EXCEPT ![r] = tree[q.dst]]
          /\ IF mode = "fs" /\ q.op \notin Lookups
             THEN pc' = [pc EXCEPT ![r] = "done"] /\ res' = [res EXCEPT ![r] = "denied"]
             ELSE Goto(r, "sent")
      BY <2>1, Zenon DEF Call
    <3>2. pc' \in [Requests -> Steps] /\ res' \in [Requests -> Results]
      BY <3>1 DEF Goto
    <3>3. was' \in [Requests -> Nodes] /\ req' \in [Requests -> Inputs \cup {None}]
      BY <3>1, InputTypes
    <3> QED BY <2>1, <3>2, <3>3 DEF Call
  <2>2. CASE CallForeign(r)
    <3>1. PICK q \in Inputs :
          /\ req' = [req EXCEPT ![r] = q]
          /\ was' = [was EXCEPT ![r] = tree[q.dst]]
      BY <2>2, Zenon DEF CallForeign
    <3>3. was' \in [Requests -> Nodes] /\ req' \in [Requests -> Inputs \cup {None}]
      BY <3>1, InputTypes
    <3> QED BY <2>2, <3>3 DEF CallForeign
  <2>3. CASE Arrive(r)
    <3>1. pc' \in [Requests -> Steps] /\ res' \in [Requests -> Results]
      BY <2>3, Replied, Went DEF Arrive
    <3> QED BY <2>3, <3>1 DEF Arrive
  <2>4. CASE Stat(r)
    BY <2>4, Replied, Went DEF Stat
  <2>5. CASE Parents(r)
    <3>1. pc' \in [Requests -> Steps] /\ res' \in [Requests -> Results]
      BY <2>5, Replied, Went DEF Parents
    <3>2. tree' \in [Paths -> Nodes]
      BY <2>5, <2>0 DEF Parents
    <3> QED BY <2>5, <3>1, <3>2 DEF Parents
  <2>6. CASE Mkdir(r)
    <3>1. pc' \in [Requests -> Steps] /\ res' \in [Requests -> Results]
      BY <2>6, Replied DEF Mkdir
    <3>2. tree' \in [Paths -> Nodes]
      BY <2>6, <2>0 DEF Mkdir
    <3> QED BY <2>6, <3>1, <3>2 DEF Mkdir
  <2>7. CASE RemoveFile(r)
    <3>1. pc' \in [Requests -> Steps] /\ res' \in [Requests -> Results]
      BY <2>7, Replied DEF RemoveFile
    <3>2. tree' \in [Paths -> Nodes] /\ held' \in [Requests -> Paths \cup {None}]
      BY <2>7, <2>0 DEF RemoveFile, Unlink
    <3> QED BY <2>7, <3>1, <3>2 DEF RemoveFile
  <2>8. CASE RemoveAll(r)
    <3>1. pc' \in [Requests -> Steps] /\ res' \in [Requests -> Results]
      BY <2>8, Replied, Went DEF RemoveAll
    <3>2. tree' \in [Paths -> Nodes] /\ held' \in [Requests -> Paths \cup {None}]
      BY <2>8, <2>0, Called DEF RemoveAll, Unlink
    <3>3. left' = [x \in Requests |-> left'[x]]
      BY <2>8 DEF RemoveAll
    <3> QED BY <2>8, <3>1, <3>2, <3>3 DEF RemoveAll
  <2>9. CASE RemoveEntry(r)
    <3>1. PICK name \in left[r] :
             IF held[r] # None /\ Append(held[r], name) \in Paths
             THEN Unlink(Append(held[r], name)) ELSE UNCHANGED <<tree, held>>
      BY <2>9 DEF RemoveEntry
    <3>0. tree' \in [Paths -> Nodes] /\ held' \in [Requests -> Paths \cup {None}]
      BY <3>1, <2>0, Zenon DEF Unlink
    <3>2. left' = [x \in Requests |-> left'[x]]
      BY <2>9, Zenon DEF RemoveEntry
    <3> QED BY <2>9, <3>0, <3>2 DEF RemoveEntry
  <2>10. CASE RemoveSelf(r)
    <3>1. pc' \in [Requests -> Steps] /\ res' \in [Requests -> Results]
      BY <2>10, Replied DEF RemoveSelf
    <3>2. tree' \in [Paths -> Nodes] /\ held' \in [Requests -> Paths \cup {None}]
      BY <2>10, <2>0 DEF RemoveSelf
    <3> QED BY <2>10, <3>1, <3>2 DEF RemoveSelf
  <2>11. CASE OpenSource(r)
    <3>1. pc' \in [Requests -> Steps] /\ res' \in [Requests -> Results]
      BY <2>11, Replied, Went DEF OpenSource
    <3>2. want' \in [Requests -> Nodes]
      BY <2>11, Called DEF OpenSource, SrcDst
    <3> QED BY <2>11, <3>1, <3>2 DEF OpenSource
  <2>12. CASE OpenDest(r)
    <3>1. pc' \in [Requests -> Steps] /\ res' \in [Requests -> Results]
      BY <2>12, Replied, Went DEF OpenDest
    <3>2. tree' \in [Paths -> Nodes]
      BY <2>12, <2>0 DEF OpenDest
    <3> QED BY <2>12, <3>1, <3>2 DEF OpenDest
  <2>13. CASE Write(r)
    <3>1. pc' \in [Requests -> Steps] /\ res' \in [Requests -> Results]
      BY <2>13, Replied, Went DEF Write
    <3>2. tree' \in [Paths -> Nodes]
      BY <2>13, <2>0 DEF Write
    <3> QED BY <2>13, <3>1, <3>2 DEF Write
  <2>14. CASE WriteFails(r)
    BY <2>14, Replied DEF WriteFails
  <2>15. CASE SizeMismatch(r)
    <3>1. pc' \in [Requests -> Steps] /\ res' \in [Requests -> Results]
      BY <2>15, Replied DEF SizeMismatch
    <3>2. tree' \in [Paths -> Nodes] /\ held' \in [Requests -> Paths \cup {None}]
      BY <2>15, <2>0 DEF SizeMismatch, Unlink
    <3> QED BY <2>15, <3>1, <3>2 DEF SizeMismatch
  <2>16. CASE Meta(r)
    BY <2>16, Replied DEF Meta
  <2>17. CASE Lstat(r)
    BY <2>17, Replied, Went DEF Lstat
  <2>18. CASE Rename(r)
    <3>0. pc[r] = "rename"
      BY <2>18 DEF Rename
    <3>1. pc' \in [Requests -> Steps] /\ res' \in [Requests -> Results]
      BY <2>18, Replied DEF Rename
    <3>2. req[r].src \in Paths /\ req[r].dst \in Paths
      BY <3>0, Called DEF ControlInv, Step, SrcDst
    <3>3. Renamed(req[r].src, req[r].dst) \in [Paths -> Nodes]
      BY <3>2, <2>0 DEF Renamed
    <3>4. tree' \in [Paths -> Nodes] /\ want' \in [Requests -> Nodes]
      BY <2>18, <3>2, <3>3 DEF Rename
    <3>5. held' \in [Requests -> Paths \cup {None}]
      BY <2>18, <3>2 DEF Rename
    <3> QED BY <2>18, <3>1, <3>4, <3>5 DEF Rename
  <2>19. CASE ReadMetadata(r)
    BY <2>19, Replied DEF ReadMetadata
  <2>20. CASE ReadDir(r)
    <3>1. pc' \in [Requests -> Steps] /\ res' \in [Requests -> Results]
      BY <2>20, Replied, Went DEF ReadDir
    <3>2. left' = [x \in Requests |-> left'[x]]
      BY <2>20 DEF ReadDir
    <3> QED BY <2>20, <3>1, <3>2 DEF ReadDir
  <2>21. CASE Listed(r)
    BY <2>21, Replied DEF Listed
  <2> QED
    BY Zenon, <2>1, <2>2, <2>3, <2>4, <2>5, <2>6, <2>7, <2>8, <2>9, <2>10, <2>11, <2>12, <2>13,
       <2>14, <2>15, <2>16, <2>17, <2>18, <2>19, <2>20, <2>21 DEF Serve
<1>3. ASSUME NEW r \in Requests, Info(r) PROVE TypeInv'
  <2>1. left' = [x \in Requests |-> left'[x]] /\ listed' = [x \in Requests |-> listed'[x]]
    BY <1>3, Zenon DEF Info
  <2> QED BY <1>3, <2>1 DEF Info
<1> QED BY <1>1, <1>2, <1>3 DEF Next

\* The actions that can be taken from each step of a handler.
StepAt(r) ==
    /\ pc[r] = "idle" => Call(r) \/ CallForeign(r)
    /\ pc[r] = "sent" => Arrive(r)
    /\ pc[r] = "stat" => Stat(r)
    /\ pc[r] = "parents" => Parents(r)
    /\ pc[r] = "act" =>
          \/ Mkdir(r) \/ RemoveFile(r) \/ RemoveAll(r) \/ OpenSource(r) \/ OpenDest(r)
                       \/ Lstat(r) \/ ReadMetadata(r) \/ ReadDir(r)
    /\ pc[r] = "entries" => RemoveEntry(r) \/ RemoveSelf(r)
    /\ pc[r] = "dst" => OpenDest(r)
    /\ pc[r] = "write" => Write(r) \/ WriteFails(r) \/ SizeMismatch(r)
    /\ pc[r] = "meta" => Meta(r)
    /\ pc[r] = "rename" => Rename(r)
    /\ pc[r] = "infos" => Listed(r)
    /\ pc[r] # "done"

\* A handler takes an action of the step it is at.
LEMMA StepsAt == ASSUME NEW r, Serve(r) PROVE StepAt(r)
<1>1. CASE Call(r)
  <2>1. pc[r] = "idle"
    BY <1>1 DEF Call
  <2> QED BY <1>1, <2>1 DEF StepAt
<1>2. CASE CallForeign(r)
  <2>1. pc[r] = "idle"
    BY <1>2 DEF CallForeign
  <2> QED BY <1>2, <2>1 DEF StepAt
<1>3. CASE Arrive(r)
  <2>1. pc[r] = "sent"
    BY <1>3 DEF Arrive
  <2> QED BY <1>3, <2>1 DEF StepAt
<1>4. CASE Stat(r)
  <2>1. pc[r] = "stat"
    BY <1>4 DEF Stat
  <2> QED BY <1>4, <2>1 DEF StepAt
<1>5. CASE Parents(r)
  <2>1. pc[r] = "parents"
    BY <1>5 DEF Parents
  <2> QED BY <1>5, <2>1 DEF StepAt
<1>6. CASE Mkdir(r)
  <2>1. pc[r] = "act"
    BY <1>6 DEF Mkdir
  <2> QED BY <1>6, <2>1 DEF StepAt
<1>7. CASE RemoveFile(r)
  <2>1. pc[r] = "act"
    BY <1>7 DEF RemoveFile
  <2> QED BY <1>7, <2>1 DEF StepAt
<1>8. CASE RemoveAll(r)
  <2>1. pc[r] = "act"
    BY <1>8 DEF RemoveAll
  <2> QED BY <1>8, <2>1 DEF StepAt
<1>9. CASE RemoveEntry(r)
  <2>1. pc[r] = "entries"
    BY <1>9 DEF RemoveEntry
  <2> QED BY <1>9, <2>1 DEF StepAt
<1>10. CASE RemoveSelf(r)
  <2>1. pc[r] = "entries"
    BY <1>10 DEF RemoveSelf
  <2> QED BY <1>10, <2>1 DEF StepAt
<1>11. CASE OpenSource(r)
  <2>1. pc[r] = "act"
    BY <1>11 DEF OpenSource
  <2> QED BY <1>11, <2>1 DEF StepAt
<1>12. CASE OpenDest(r)
  <2>1. pc[r] \in {"act", "dst"}
    BY <1>12 DEF OpenDest
  <2> QED BY <1>12, <2>1 DEF StepAt
<1>13. CASE Write(r)
  <2>1. pc[r] = "write"
    BY <1>13 DEF Write
  <2> QED BY <1>13, <2>1 DEF StepAt
<1>14. CASE WriteFails(r)
  <2>1. pc[r] = "write"
    BY <1>14 DEF WriteFails
  <2> QED BY <1>14, <2>1 DEF StepAt
<1>15. CASE SizeMismatch(r)
  <2>1. pc[r] = "write"
    BY <1>15 DEF SizeMismatch
  <2> QED BY <1>15, <2>1 DEF StepAt
<1>16. CASE Meta(r)
  <2>1. pc[r] = "meta"
    BY <1>16 DEF Meta
  <2> QED BY <1>16, <2>1 DEF StepAt
<1>17. CASE Lstat(r)
  <2>1. pc[r] = "act"
    BY <1>17 DEF Lstat
  <2> QED BY <1>17, <2>1 DEF StepAt
<1>18. CASE Rename(r)
  <2>1. pc[r] = "rename"
    BY <1>18 DEF Rename
  <2> QED BY <1>18, <2>1 DEF StepAt
<1>19. CASE ReadMetadata(r)
  <2>1. pc[r] = "act"
    BY <1>19 DEF ReadMetadata
  <2> QED BY <1>19, <2>1 DEF StepAt
<1>20. CASE ReadDir(r)
  <2>1. pc[r] = "act"
    BY <1>20 DEF ReadDir
  <2> QED BY <1>20, <2>1 DEF StepAt
<1>21. CASE Listed(r)
  <2>1. pc[r] = "infos"
    BY <1>21 DEF Listed
  <2> QED BY <1>21, <2>1 DEF StepAt
<1> QED
  BY <1>1, <1>2, <1>3, <1>4, <1>5, <1>6, <1>7, <1>8, <1>9, <1>10, <1>11, <1>12, <1>13,
     <1>14, <1>15, <1>16, <1>17, <1>18, <1>19, <1>20, <1>21 DEF Serve

\* After the call, the operands, the history and the mode stay.
LEMMA ServesCalled ==
  ASSUME NEW r, Serve(r), ~Call(r), ~CallForeign(r)
  PROVE  req' = req /\ was' = was /\ mode' = mode /\ pc[r] \notin {"idle", "done"}
<1>1. CASE Arrive(r)
  BY <1>1 DEF Arrive
<1>2. CASE Stat(r)
  BY <1>2 DEF Stat
<1>3. CASE Parents(r)
  BY <1>3 DEF Parents
<1>4. CASE Mkdir(r)
  BY <1>4 DEF Mkdir
<1>5. CASE RemoveFile(r)
  BY <1>5 DEF RemoveFile
<1>6. CASE RemoveAll(r)
  BY <1>6 DEF RemoveAll
<1>7. CASE RemoveEntry(r)
  BY <1>7 DEF RemoveEntry
<1>8. CASE RemoveSelf(r)
  BY <1>8 DEF RemoveSelf
<1>9. CASE OpenSource(r)
  BY <1>9 DEF OpenSource
<1>10. CASE OpenDest(r)
  BY <1>10 DEF OpenDest
<1>11. CASE Write(r)
  BY <1>11 DEF Write
<1>12. CASE WriteFails(r)
  BY <1>12 DEF WriteFails
<1>13. CASE SizeMismatch(r)
  BY <1>13 DEF SizeMismatch
<1>14. CASE Meta(r)
  BY <1>14 DEF Meta
<1>15. CASE Lstat(r)
  BY <1>15 DEF Lstat
<1>16. CASE Rename(r)
  BY <1>16 DEF Rename
<1>17. CASE ReadMetadata(r)
  BY <1>17 DEF ReadMetadata
<1>18. CASE ReadDir(r)
  BY <1>18 DEF ReadDir
<1>19. CASE Listed(r)
  BY <1>19, Zenon DEF Listed
<1> QED
  BY <1>1, <1>2, <1>3, <1>4, <1>5, <1>6, <1>7, <1>8, <1>9, <1>10, <1>11, <1>12, <1>13,
     <1>14, <1>15, <1>16, <1>17, <1>18, <1>19 DEF Serve

\* A handler leaves the state of every other request's handler and caller alone; the
\* tree and the open directories of os.RemoveAll are all they share.
LEMMA OthersWait ==
  ASSUME TypeInv, NEW s \in Requests, NEW r \in Requests \ {s}, Serve(s)
  PROVE  /\ pc'[r] = pc[r] /\ req'[r] = req[r] /\ res'[r] = res[r] /\ want'[r] = want[r]
         /\ left'[r] = left[r] /\ was'[r] = was[r] /\ mode' = mode
<1> USE DEF TypeInv
<1>a. ASSUME NEW status, Reply(s, status) PROVE pc'[r] = pc[r] /\ res'[r] = res[r]
  BY <1>a, Replied
<1>b. ASSUME NEW step, Goto(s, step) PROVE pc'[r] = pc[r] /\ res'[r] = res[r]
  BY <1>b DEF Goto
<1>1. CASE Call(s)
  BY <1>1, <1>b DEF Call
<1>2. CASE CallForeign(s)
  BY <1>2 DEF CallForeign
<1>3. CASE Arrive(s)
  BY <1>3, <1>a, <1>b DEF Arrive
<1>4. CASE Stat(s)
  BY <1>4, <1>a, <1>b DEF Stat
<1>5. CASE Parents(s)
  BY <1>5, <1>a, <1>b DEF Parents
<1>6. CASE Mkdir(s)
  BY <1>6, <1>a DEF Mkdir
<1>7. CASE RemoveFile(s)
  BY <1>7, <1>a DEF RemoveFile
<1>8. CASE RemoveAll(s)
  BY <1>8, <1>a, <1>b DEF RemoveAll
<1>9. CASE RemoveEntry(s)
  BY <1>9 DEF RemoveEntry
<1>10. CASE RemoveSelf(s)
  BY <1>10, <1>a DEF RemoveSelf
<1>11. CASE OpenSource(s)
  BY <1>11, <1>a, <1>b DEF OpenSource
<1>12. CASE OpenDest(s)
  BY <1>12, <1>a, <1>b DEF OpenDest
<1>13. CASE Write(s)
  BY <1>13, <1>a, <1>b DEF Write
<1>14. CASE WriteFails(s)
  BY <1>14, <1>a DEF WriteFails
<1>15. CASE SizeMismatch(s)
  BY <1>15, <1>a DEF SizeMismatch
<1>16. CASE Meta(s)
  BY <1>16, <1>a DEF Meta
<1>17. CASE Lstat(s)
  BY <1>17, <1>a, <1>b DEF Lstat
<1>18. CASE Rename(s)
  BY <1>18, <1>a DEF Rename
<1>19. CASE ReadMetadata(s)
  BY <1>19, <1>a DEF ReadMetadata
<1>20. CASE ReadDir(s)
  BY <1>20, <1>a, <1>b DEF ReadDir
<1>21. CASE Listed(s)
  BY <1>21, <1>a DEF Listed
<1> QED
  BY <1>1, <1>2, <1>3, <1>4, <1>5, <1>6, <1>7, <1>8, <1>9, <1>10, <1>11, <1>12, <1>13,
     <1>14, <1>15, <1>16, <1>17, <1>18, <1>19, <1>20, <1>21 DEF Serve

\* Every step keeps the control invariant.
LEMMA ControlHolds == TypeInv /\ ControlInv /\ [Next]_vars => ControlInv'
<1> SUFFICES ASSUME TypeInv, ControlInv, [Next]_vars, NEW r \in Requests PROVE Step(r)'
  BY DEF ControlInv
<1>0. Step(r)
  BY DEF ControlInv
<1>1. CASE UNCHANGED vars
  BY <1>0, <1>1 DEF vars, Step
<1>2. ASSUME NEW s \in Requests, s # r, (Serve(s) /\ UNCHANGED listed) \/ Info(s)
      PROVE  Step(r)'
  <2>1. pc'[r] = pc[r] /\ req'[r] = req[r] /\ res'[r] = res[r] /\ want'[r] = want[r] /\ listed'[r] = listed[r]
    <3>1. CASE Serve(s) /\ UNCHANGED listed
      BY <3>1, <1>2, OthersWait
    <3>2. CASE Info(s)
      BY <3>2, <1>2 DEF Info, TypeInv
    <3> QED BY <1>2, <3>1, <3>2
  <2> QED BY <1>0, <2>1 DEF Step
<1>3. ASSUME Serve(r), UNCHANGED listed PROVE Step(r)'
  <2> USE <1>3, <1>0 DEF Step
  <2>1. CASE Call(r) \/ CallForeign(r)
    <3>1. PICK q \in Inputs : req'[r] = q
      BY <2>1 DEF Call, CallForeign, TypeInv
    <3>2. req'[r] # None
      BY <3>1, InputTypes
    <3>3. pc'[r] \in {"sent", "done"} /\ (res'[r] # "none" => pc'[r] = "done")
      BY <2>1 DEF Call, CallForeign, Goto, TypeInv
    <3>4. want'[r] = want[r] /\ listed'[r] = {} /\ pc[r] = "idle"
      BY <2>1, Zenon DEF Call, CallForeign
    <3> QED BY <3>2, <3>3, <3>4
  <2>2. SUFFICES ASSUME ~Call(r), ~CallForeign(r) PROVE Step(r)'
    BY <2>1
  <2>a. req' = req /\ pc[r] # "idle" /\ req[r] # None /\ res[r] \in Results /\ pc[r] \in Steps
    <3>1. req' = req /\ pc[r] # "idle"
      BY <1>3, <2>2, ServesCalled
    <3> QED BY <3>1 DEF TypeInv, Results, Steps
  <2>b. ASSUME NEW status, Reply(r, status) PROVE Step(r)'
    <3>1. pc'[r] = "done"
      BY <2>b, Replied DEF TypeInv
    <3> QED BY <2>a, <3>1
  <2>c. ASSUME NEW step \in Steps, Goto(r, step) PROVE pc'[r] = step /\ res'[r] = res[r]
    BY <2>c, Went DEF TypeInv
  <2>3. CASE Arrive(r)
    <3> SUFFICES ASSUME Goto(r, CASE req[r].op \in SrcDst \ OverwriteExisting       -> "stat"
                       [] req[r].op \in {"Mkdir", "Put"} \cup OverwriteExisting -> "parents"
                       [] OTHER                                          -> "act") PROVE Step(r)'
      BY <2>3, <2>b DEF Arrive
    <3>1. CASE req[r].op = "DirMove"
      BY <2>a, <2>c, <3>1, <2>3 DEF Arrive, SrcDst, OverwriteExisting, Steps
    <3>2. CASE req[r].op \in {"Mkdir", "Put", "Copy", "Move"}
      BY <2>a, <2>c, <3>2, <2>3 DEF Arrive, SrcDst, OverwriteExisting, Steps
    <3>3. CASE req[r].op \notin {"Mkdir", "Put", "Copy", "Move", "DirMove"}
      BY <2>a, <2>c, <3>3, <2>3 DEF Arrive, SrcDst, OverwriteExisting, Steps
    <3> QED BY <3>1, <3>2, <3>3
  <2>4. CASE Stat(r)
    BY <2>4, <2>a, <2>b, <2>c DEF Stat, SrcDst, Steps
  <2>5. CASE Parents(r)
    BY <2>5, <2>a, <2>b, <2>c, Zenon DEF Parents, Steps
  <2>6. CASE Mkdir(r) \/ RemoveFile(r) \/ RemoveSelf(r) \/ WriteFails(r) \/ SizeMismatch(r) \/ Meta(r)
             \/ Rename(r) \/ ReadMetadata(r) \/ Listed(r)
    BY <2>6, <2>b DEF Mkdir, RemoveFile, RemoveSelf, WriteFails, SizeMismatch, Meta, Rename,
       ReadMetadata, Listed
  <2>8. CASE RemoveAll(r)
    BY <2>8, <2>a, <2>b, <2>c DEF RemoveAll, Steps
  <2>9. CASE RemoveEntry(r)
    BY <2>9, <2>a DEF RemoveEntry
  <2>11. CASE OpenSource(r)
    BY <2>11, <2>a, <2>b, <2>c, Zenon DEF OpenSource, Steps
  <2>12. CASE OpenDest(r)
    BY <2>12, <2>a, <2>b, <2>c DEF OpenDest, Steps
  <2>13. CASE Write(r)
    BY <2>13, <2>a, <2>b, <2>c, Zenon DEF Write, Steps
  <2>17. CASE Lstat(r)
    BY <2>17, <2>a, <2>b, <2>c, Zenon DEF Lstat, Steps
  <2>20. CASE ReadDir(r)
    BY <2>20, <2>a, <2>b, <2>c DEF ReadDir, Steps
  <2> HIDE DEF Step
  <2> QED
    BY ONLY <1>3, <2>2, <2>3, <2>4, <2>5, <2>6, <2>8, <2>9, <2>11, <2>12, <2>13, <2>17, <2>20
       DEF Serve
<1>4. ASSUME Info(r) PROVE Step(r)'
  BY <1>0, <1>4 DEF Info, Step, TypeInv
<1> QED BY <1>1, <1>2, <1>3, <1>4 DEF Next

\* The handler of s makes a directory at p: its destination or the parent of it.
MakesAt(s, p) ==
    /\ tree[p] = None /\ tree' = [tree EXCEPT ![p] = Dir]
    /\ \/ pc[s] = "act" /\ req[s].op = "Mkdir" /\ p = req[s].dst
       \/ pc[s] = "parents" /\ p = Parent(req[s].dst)

\* It removes what is at p: its destination, or an entry of the directory it has open.
RemovesAt(s, p) ==
    /\ tree' = [tree EXCEPT ![p] = None]
    /\ \/ pc[s] \in {"act", "write", "entries"} /\ req[s].op \in {"Remove", "Rmdir", "Put"} /\ p = req[s].dst
       \/ pc[s] = "entries" /\ held[s] \in Paths /\ Parent(p) = held[s]

\* It creates or truncates its destination.
OpensDst(s) ==
    /\ tree' = [tree EXCEPT ![req[s].dst] = Part(s)] /\ pc' = [pc EXCEPT ![s] = "write"]
    /\ (pc[s] = "act" /\ req[s].op = "Put") \/ (pc[s] = "dst" /\ req[s].op = "Copy")

\* It renames its source.
Moves(s) ==
    pc[s] = "rename" /\ tree' = Renamed(req[s].src, req[s].dst) /\ pc'[s] = "done"
      /\ want' = [want EXCEPT ![s] = tree[req[s].src]]

\* All a handler can do to the tree in one step.
TreeStep(s) ==
    \/ tree' = tree
    \/ \E p \in Paths : MakesAt(s, p) \/ RemovesAt(s, p)
    \/ OpensDst(s) \/ Write(s) \/ Moves(s)

\* Every action is one of these changes of the tree (the handlers of ops.go and
\* handleFileUpload).
LEMMA TreeSteps ==
  ASSUME TypeInv, ControlInv, NEW s \in Requests, Serve(s)
  PROVE  TreeStep(s)
<1>0. ASSUME pc[s] # "idle" PROVE req[s].dst \in Paths
  BY <1>0, Called, Zenon
<1>1. CASE Call(s)
  BY <1>1 DEF Call, TreeStep
<1>2. CASE CallForeign(s)
  BY <1>2 DEF CallForeign, TreeStep
<1>3. CASE Arrive(s)
  BY <1>3 DEF Arrive, TreeStep
<1>4. CASE Stat(s)
  BY <1>4 DEF Stat, TreeStep
<1>5. CASE Parents(s)
  <2> DEFINE p == Parent(req[s].dst)
  <2>1. pc[s] = "parents" /\ req[s].dst \in Paths
    BY <1>5, <1>0 DEF Parents
  <2>2. p # <<>> => p \in Paths
    BY <2>1, ParentOfPath
  <2>3. tree' = tree \/ (p # <<>> /\ tree[p] = None /\ tree' = [tree EXCEPT ![p] = Dir])
    BY <1>5 DEF Parents
  <2> HIDE DEF p
  <2>4. tree' = tree \/ (p \in Paths /\ tree[p] = None /\ tree' = [tree EXCEPT ![p] = Dir])
    BY <2>2, <2>3
  <2> QED BY <2>1, <2>4 DEF p, TreeStep, MakesAt
<1>6. CASE Mkdir(s)
  <2>1. pc[s] = "act" /\ req[s].op = "Mkdir" /\ req[s].dst \in Paths
    BY <1>6, <1>0 DEF Mkdir
  <2>2. tree' = tree \/ (tree[req[s].dst] = None /\ tree' = [tree EXCEPT ![req[s].dst] = Dir])
    BY <1>6 DEF Mkdir
  <2> QED BY <2>1, <2>2 DEF TreeStep, MakesAt
<1>7. CASE RemoveFile(s)
  <2>1. pc[s] = "act" /\ req[s].op = "Remove" /\ req[s].dst \in Paths
    BY <1>7, <1>0 DEF RemoveFile
  <2>2. tree' = tree \/ tree' = [tree EXCEPT ![req[s].dst] = None]
    BY <1>7 DEF RemoveFile, Unlink
  <2> QED BY <2>1, <2>2 DEF TreeStep, RemovesAt
<1>8. CASE RemoveAll(s)
  <2>1. pc[s] = "act" /\ req[s].op = "Rmdir" /\ req[s].dst \in Paths
    BY <1>8, <1>0 DEF RemoveAll
  <2>2. tree' = tree \/ tree' = [tree EXCEPT ![req[s].dst] = None]
    BY <1>8 DEF RemoveAll, Unlink
  <2> QED BY <2>1, <2>2 DEF TreeStep, RemovesAt
<1>9. CASE RemoveEntry(s)
  <2>1. PICK name \in left[s] :
           IF held[s] # None /\ Append(held[s], name) \in Paths
           THEN Unlink(Append(held[s], name)) ELSE UNCHANGED <<tree, held>>
    BY <1>9 DEF RemoveEntry
  <2> DEFINE p == Append(held[s], name)
  <2>2. pc[s] = "entries" /\ (held[s] # None => held[s] \in Paths)
    BY <1>9 DEF RemoveEntry, TypeInv
  <2>3. tree' = tree \/ (held[s] \in Paths /\ p \in Paths /\ tree' = [tree EXCEPT ![p] = None])
    BY <2>1, <2>2 DEF Unlink
  <2>4. held[s] \in Paths /\ p \in Paths => Parent(p) = held[s]
    BY EntryOfPath
  <2> HIDE DEF p
  <2> QED BY <2>2, <2>3, <2>4 DEF TreeStep, RemovesAt
<1>10. CASE RemoveSelf(s)
  <2>1. pc[s] = "entries" /\ req[s].dst \in Paths /\ req[s].op = "Rmdir"
    BY <1>10, <1>0 DEF RemoveSelf, ControlInv, Step
  <2>2. tree' = tree \/ tree' = [tree EXCEPT ![req[s].dst] = None]
    BY <1>10 DEF RemoveSelf
  <2> QED BY <2>1, <2>2 DEF TreeStep, RemovesAt
<1>11. CASE OpenSource(s)
  BY <1>11 DEF OpenSource, TreeStep
<1>12. CASE OpenDest(s)
  <2>1. pc[s] = "dst" => req[s].op = "Copy"
    BY DEF ControlInv, Step
  <2> QED BY <1>12, <2>1 DEF OpenDest, TreeStep, OpensDst, Goto
<1>13. CASE Write(s)
  BY <1>13 DEF TreeStep
<1>14. CASE WriteFails(s)
  BY <1>14 DEF WriteFails, TreeStep
<1>15. CASE SizeMismatch(s)
  <2>1. pc[s] = "write" /\ req[s].dst \in Paths /\ req[s].op = "Put"
    BY <1>15, <1>0 DEF SizeMismatch
  <2>2. tree' = tree \/ tree' = [tree EXCEPT ![req[s].dst] = None]
    BY <1>15 DEF SizeMismatch, Unlink
  <2> QED BY <2>1, <2>2 DEF TreeStep, RemovesAt
<1>16. CASE Meta(s)
  BY <1>16 DEF Meta, TreeStep
<1>17. CASE Lstat(s)
  BY <1>17 DEF Lstat, TreeStep
<1>18. CASE Rename(s)
  <2>1. pc'[s] = "done"
    BY <1>18, Replied DEF Rename, TypeInv
  <2> QED BY <1>18, <2>1 DEF Rename, TreeStep, Moves
<1>19. CASE ReadMetadata(s)
  BY <1>19 DEF ReadMetadata, TreeStep
<1>20. CASE ReadDir(s)
  BY <1>20 DEF ReadDir, TreeStep
<1>21. CASE Listed(s)
  BY <1>21 DEF Listed, TreeStep
<1> QED
  BY <1>1, <1>2, <1>3, <1>4, <1>5, <1>6, <1>7, <1>8, <1>9, <1>10, <1>11, <1>12, <1>13,
     <1>14, <1>15, <1>16, <1>17, <1>18, <1>19, <1>20, <1>21 DEF Serve

\* Nothing gets past the read-only checks (Fs.readOnly, authorize).
LEMMA ReadOnlyHolds ==
  TypeInv /\ ControlInv /\ ReadOnlyInv /\ [Next]_vars => ReadOnlyInv'
<1> DEFINE Idles(r) == \/ pc[r] \in {"idle", "done"}
                       \/ pc[r] = "sent" /\ mode = "scope"
                       \/ req[r].op \in Lookups
<1> SUFFICES ASSUME TypeInv, ControlInv, ReadOnlyInv, [Next]_vars, mode' # "rw", NEW r \in Requests
             PROVE  Idles(r)'
  BY DEF ReadOnlyInv
<1>0. mode # "rw" => Idles(r)
  BY DEF ReadOnlyInv
<1>1. CASE UNCHANGED vars
  BY <1>0, <1>1 DEF vars
<1>2. ASSUME NEW s \in Requests, Info(s) PROVE Idles(r)'
  BY <1>0, <1>2 DEF Info
<1>3. ASSUME NEW s \in Requests \ {r}, Serve(s) PROVE Idles(r)'
  BY <1>0, <1>3, OthersWait
<1>4. ASSUME Serve(r) PROVE Idles(r)'
  <2>1. CASE Call(r)
    BY <2>1 DEF Call, Goto, TypeInv
  <2>2. CASE CallForeign(r)
    BY <2>2 DEF CallForeign, TypeInv
  <2>3. SUFFICES ASSUME ~Call(r), ~CallForeign(r), req[r].op \notin Lookups
                 PROVE  pc'[r] = "done"
    BY <1>4, <2>1, <2>2, ServesCalled
  <2>4. mode' = mode /\ pc[r] \notin {"idle", "done"}
    BY <1>4, <2>3, ServesCalled
  <2>5. pc[r] = "sent" /\ mode = "scope"
    BY <1>0, <2>3, <2>4
  <2>6. req[r].op \in WriteIntentOps
    BY <2>3, <2>4, Called DEF WriteIntentOps, OneDst, SrcDst, Lookups
  <2>7. Arrive(r)
    BY <1>4, <2>5, StepsAt DEF StepAt
  <2> QED
    BY <2>5, <2>6, <2>7, Replied DEF Arrive, TypeInv
<1> QED BY <1>1, <1>2, <1>3, <1>4 DEF Next

\* What can become of the directory that x's os.RemoveAll has open in a step of s: closed,
\* kept, opened, or renamed.
HeldStep(s, x) ==
    \/ held'[x] = None
    \/ held'[x] = held[x] /\ (x = s => pc[s] = "entries" /\ pc'[s] = "entries")
    \/ x = s /\ pc[s] = "act" /\ req[s].op = "Rmdir" /\ held'[x] = req[s].dst /\ pc'[s] = "entries"
    \/ x # s /\ pc[s] = "rename" /\ held[x] = req[s].src /\ held'[x] = req[s].dst

\* Every action does one of these to an open directory.
LEMMA HeldSteps ==
  ASSUME TypeInv, ControlInv, HeldInv, NEW s \in Requests, NEW x \in Requests, Serve(s)
  PROVE  HeldStep(s, x)
<1> USE DEF TypeInv
<1>0. held[s] # None => pc[s] = "entries"
  BY DEF HeldInv
<1>1. CASE Call(s)
  BY <1>0, <1>1 DEF Call, HeldStep
<1>2. CASE CallForeign(s)
  BY <1>0, <1>2 DEF CallForeign, HeldStep
<1>3. CASE Arrive(s)
  BY <1>0, <1>3 DEF Arrive, HeldStep
<1>4. CASE Stat(s)
  BY <1>0, <1>4 DEF Stat, HeldStep
<1>5. CASE Parents(s)
  BY <1>0, <1>5 DEF Parents, HeldStep
<1>6. CASE Mkdir(s)
  BY <1>0, <1>6 DEF Mkdir, HeldStep
<1>7. CASE RemoveFile(s)
  BY <1>0, <1>7 DEF RemoveFile, Unlink, HeldStep
<1>8. CASE RemoveAll(s)
  BY <1>0, <1>8 DEF RemoveAll, Unlink, Goto, HeldStep
<1>9. CASE RemoveEntry(s)
  BY <1>0, <1>9 DEF RemoveEntry, Unlink, HeldStep
<1>10. CASE RemoveSelf(s)
  BY <1>0, <1>10 DEF RemoveSelf, HeldStep
<1>11. CASE OpenSource(s)
  BY <1>0, <1>11 DEF OpenSource, HeldStep
<1>12. CASE OpenDest(s)
  BY <1>0, <1>12 DEF OpenDest, HeldStep
<1>13. CASE Write(s)
  BY <1>0, <1>13 DEF Write, HeldStep
<1>14. CASE WriteFails(s)
  BY <1>0, <1>14 DEF WriteFails, HeldStep
<1>15. CASE SizeMismatch(s)
  BY <1>0, <1>15 DEF SizeMismatch, Unlink, HeldStep
<1>16. CASE Meta(s)
  BY <1>0, <1>16 DEF Meta, HeldStep
<1>17. CASE Lstat(s)
  BY <1>0, <1>17 DEF Lstat, HeldStep
<1>18. CASE Rename(s)
  <2>1. pc[s] = "rename" /\ held[s] = None /\ req[s].src # None
    BY <1>0, <1>18, Called DEF Rename, ControlInv, Step, SrcDst
  <2> QED BY <2>1, <1>18 DEF Rename, HeldStep
<1>19. CASE ReadMetadata(s)
  BY <1>0, <1>19 DEF ReadMetadata, HeldStep
<1>20. CASE ReadDir(s)
  BY <1>0, <1>20 DEF ReadDir, HeldStep
<1>21. CASE Listed(s)
  BY <1>0, <1>21 DEF Listed, HeldStep
<1> QED
  BY <1>1, <1>2, <1>3, <1>4, <1>5, <1>6, <1>7, <1>8, <1>9, <1>10, <1>11, <1>12, <1>13,
     <1>14, <1>15, <1>16, <1>17, <1>18, <1>19, <1>20, <1>21 DEF Serve

\* A request stays what it is once it is made.
LEMMA RequestStays ==
  ASSUME TypeInv, ControlInv, NEW s \in Requests, Serve(s), NEW r \in Requests, req[r] # None
  PROVE  req'[r] = req[r]
<1>1. CASE r # s
  BY <1>1, OthersWait
<1>2. CASE r = s
  <2>1. pc[s] # "idle"
    BY <1>2 DEF ControlInv, Step
  <2>2. ~Call(s) /\ ~CallForeign(s)
    BY <2>1 DEF Call, CallForeign
  <2> QED BY <1>2, <2>2, ServesCalled
<1> QED BY <1>1, <1>2

\* So does what it may write.
LEMMA WriterStays ==
  ASSUME TypeInv, ControlInv, NEW s \in Requests, Serve(s), NEW y \in Requests, Writer(y)
  PROVE  Writer(y)' /\ Ends(y)' = Ends(y)
BY RequestStays DEF Writer, Ends

\* Every handler keeps the invariant of open directories.
LEMMA HeldHolds ==
  ASSUME TypeInv, ControlInv, HeldInv, NEW s \in Requests, Serve(s)
  PROVE  HeldInv'
<1> SUFFICES ASSUME NEW x \in Requests, held'[x] # None
             PROVE  pc'[x] = "entries" /\ \E y \in Requests : Writer(y)' /\ held'[x] \in Ends(y)'
  BY DEF HeldInv
<1>1. CASE held'[x] = held[x] /\ (x = s => pc[s] = "entries" /\ pc'[s] = "entries")
  <2>1. PICK y \in Requests : Writer(y) /\ held[x] \in Ends(y)
    BY <1>1 DEF HeldInv
  <2>2. pc'[x] = "entries"
    BY <1>1, OthersWait DEF HeldInv
  <2> QED BY <1>1, <2>1, <2>2, WriterStays
<1>2. CASE x = s /\ pc[s] = "act" /\ req[s].op = "Rmdir" /\ held'[x] = req[s].dst /\ pc'[s] = "entries"
  <2>1. Writer(s) /\ held'[x] \in Ends(s)
    BY <1>2, Called DEF Writer, Ends, Lookups
  <2> QED BY <1>2, <2>1, WriterStays
<1>3. CASE x # s /\ pc[s] = "rename" /\ held[x] = req[s].src /\ held'[x] = req[s].dst
  <2>1. req[s].op \in {"Move", "DirMove"} /\ req[s] # None
    BY <1>3, Called DEF ControlInv, Step
  <2>2. Writer(s) /\ held'[x] \in Ends(s) /\ held[x] # None
    BY <1>3, <2>1, Called, Zenon DEF Writer, Ends, Lookups, SrcDst
  <2>3. pc'[x] = "entries"
    BY <1>3, <2>2, OthersWait DEF HeldInv
  <2> QED BY <2>2, <2>3, WriterStays
<1> QED BY <1>1, <1>2, <1>3, HeldSteps DEF HeldStep

\* Half-written content is told apart from all other nodes, and by its writer.
LEMMA PartsApart ==
  ASSUME NEW x \in Requests
  PROVE  /\ Part(x) \notin {None, Dir} /\ Part(x) \notin Paths /\ Part(x) \notin Requests
         /\ \A y \in Requests : Part(x) = Part(y) => x = y
<1>1. Part(x) \in Parts /\ Part(x) \in Contents
  BY DEF Parts, Contents
<1>2. \A y \in Requests : Part(x) = Part(y) => x = y
  BY Zenon DEF Part
<1> QED BY <1>1, <1>2, ValuesAssumption

\* A transfer takes its source from the tree, by opening it or with the rename.
LEMMA WantSteps ==
  ASSUME TypeInv, ControlInv, NEW s \in Requests, Serve(s)
  PROVE  \/ want'[s] = want[s]
         \/ pc[s] = "act" /\ req[s].op = "Copy" /\ want'[s] = tree[req[s].src] /\ tree' = tree
         \/ Moves(s)
<1> USE DEF TypeInv
<1>1. CASE Call(s)
  BY <1>1 DEF Call
<1>2. CASE CallForeign(s)
  BY <1>2 DEF CallForeign
<1>3. CASE Arrive(s)
  BY <1>3 DEF Arrive
<1>4. CASE Stat(s)
  BY <1>4 DEF Stat
<1>5. CASE Parents(s)
  BY <1>5 DEF Parents
<1>6. CASE Mkdir(s)
  BY <1>6 DEF Mkdir
<1>7. CASE RemoveFile(s)
  BY <1>7 DEF RemoveFile
<1>8. CASE RemoveAll(s)
  BY <1>8 DEF RemoveAll
<1>9. CASE RemoveEntry(s)
  BY <1>9 DEF RemoveEntry
<1>10. CASE RemoveSelf(s)
  BY <1>10 DEF RemoveSelf
<1>11. CASE OpenSource(s)
  BY <1>11 DEF OpenSource
<1>12. CASE OpenDest(s)
  BY <1>12 DEF OpenDest
<1>13. CASE Write(s)
  BY <1>13 DEF Write
<1>14. CASE WriteFails(s)
  BY <1>14 DEF WriteFails
<1>15. CASE SizeMismatch(s)
  BY <1>15 DEF SizeMismatch
<1>16. CASE Meta(s)
  BY <1>16 DEF Meta
<1>17. CASE Lstat(s)
  BY <1>17 DEF Lstat
<1>18. CASE Rename(s)
  <2>1. pc'[s] = "done"
    BY <1>18, Replied DEF Rename
  <2> QED BY <1>18, <2>1 DEF Rename, Moves
<1>19. CASE ReadMetadata(s)
  BY <1>19 DEF ReadMetadata
<1>20. CASE ReadDir(s)
  BY <1>20 DEF ReadDir
<1>21. CASE Listed(s)
  BY <1>21 DEF Listed
<1> QED
  BY <1>1, <1>2, <1>3, <1>4, <1>5, <1>6, <1>7, <1>8, <1>9, <1>10, <1>11, <1>12, <1>13,
     <1>14, <1>15, <1>16, <1>17, <1>18, <1>19, <1>20, <1>21 DEF Serve

\* The steps from which half-written content can exist.
Wrote == {"write", "meta", "done"}

\* A writer stays among those steps.
LEMMA WroteStays ==
  ASSUME TypeInv, ControlInv, NEW s \in Requests, Serve(s), NEW x \in Requests, pc[x] \in Wrote
  PROVE  pc'[x] \in Wrote
<1>1. CASE x # s
  BY <1>1, OthersWait
<1>2. CASE x = s
  <2>1. pc[s] \in {"write", "meta", "done"}
    BY <1>2 DEF Wrote
  <2>2. Write(s) \/ WriteFails(s) \/ SizeMismatch(s) \/ Meta(s)
    BY <2>1, StepsAt DEF StepAt
  <2>3. CASE Write(s)
    BY <1>2, <2>3, Replied, Went DEF Write, TypeInv, Wrote, Steps
  <2>4. CASE WriteFails(s) \/ SizeMismatch(s) \/ Meta(s)
    BY <1>2, <2>4, Replied DEF WriteFails, SizeMismatch, Meta, TypeInv, Wrote
  <2> QED BY <2>2, <2>3, <2>4
<1> QED BY <1>1, <1>2

\* The ends of a request under way are paths.
LEMMA WritersEnds ==
  ASSUME TypeInv, ControlInv, NEW s \in Requests, pc[s] # "idle"
  PROVE  /\ Ends(s) \subseteq Paths /\ req[s].dst \in Ends(s)
         /\ req[s].op \in SrcDst => req[s].src \in Ends(s)
         /\ req[s].op \in {"Put", "Copy", "Move", "DirMove", "Remove", "Rmdir"} => Writer(s)
<1>1. None \notin Paths
  BY ValuesAssumption DEF Contents
<1> QED BY <1>1, Called DEF Ends, Writer, Lookups

\* A path once placed stays placed.
LEMMA PlacedStays ==
  ASSUME TypeInv, ControlInv, NEW s \in Requests, Serve(s), NEW p, Placed(p)
  PROVE  Placed(p)'
BY WriterStays DEF Placed

\* Every handler keeps the invariant of half-written content.
LEMMA PartHolds ==
  ASSUME TypeInv, ControlInv, PartInv, NEW s \in Requests, Serve(s)
  PROVE  PartInv'
<1> USE DEF TypeInv
<1>a. \A x \in Requests : pc[x] \in Wrote => pc'[x] \in Wrote
  BY WroteStays
<1>b. \A p \in Paths, x \in Requests : tree[p] = Part(x) => pc[x] \in Wrote /\ Placed(p)
  BY DEF PartInv, Wrote
<1>c. \A y \in Requests, x \in Requests : want[y] = Part(x) => pc[x] \in Wrote
  BY DEF PartInv, Wrote
<1>d. ASSUME Moves(s) PROVE req[s].src \in Paths /\ req[s].dst \in Paths /\ req[s].dst \in Ends(s) /\ Writer(s)
  BY <1>d, WritersEnds, Called DEF Moves, ControlInv, Step, SrcDst
<1>1. ASSUME NEW p \in Paths, NEW x \in Requests, tree'[p] = Part(x)
      PROVE  pc'[x] \in Wrote /\ Placed(p)'
  <2>1. CASE tree'[p] = tree[p]
    <3>1. tree[p] = Part(x)
      BY <1>1, <2>1
    <3>2. pc[x] \in Wrote /\ Placed(p)
      BY <1>b, <3>1
    <3> QED BY <1>a, <3>2, PlacedStays
  <2>2. CASE \E q \in Paths : MakesAt(s, q) \/ RemovesAt(s, q)
    <3>1. tree'[p] \in {tree[p], None, Dir}
      BY <2>2 DEF MakesAt, RemovesAt
    <3> QED BY <1>1, <2>1, <3>1, PartsApart
  <2>3. CASE OpensDst(s)
    <3>1. pc[s] # "idle" /\ req[s].op \in {"Put", "Copy"} /\ pc'[s] = "write"
      BY <2>3 DEF OpensDst
    <3>2. Writer(s) /\ req[s].dst \in Ends(s)
      BY <3>1, WritersEnds
    <3>3. tree'[p] = tree[p] \/ (p = req[s].dst /\ tree'[p] = Part(s))
      BY <2>3 DEF OpensDst
    <3>4. ASSUME p = req[s].dst, tree'[p] = Part(s) PROVE pc'[x] \in Wrote /\ Placed(p)'
      <4>1. x = s
        BY <1>1, <3>4, PartsApart
      <4>2. Placed(p)
        BY <3>2, <3>4 DEF Placed
      <4> QED BY <3>1, <4>1, <4>2, PlacedStays DEF Wrote
    <3> QED BY <2>1, <3>3, <3>4
  <2>4. CASE Write(s)
    <3>1. tree'[p] = tree[p] \/ (tree[p] = Part(s) /\ tree'[p] \in {s, want[s]})
      BY <2>4 DEF Write
    <3>2. ASSUME tree[p] = Part(s), tree'[p] \in {s, want[s]} PROVE pc'[x] \in Wrote /\ Placed(p)'
      <4>1. want[s] = Part(x)
        BY <1>1, <3>2, PartsApart
      <4> QED BY <3>2, <4>1, <1>a, <1>b, <1>c, PlacedStays
    <3> QED BY <2>1, <3>1, <3>2
  <2>5. CASE Moves(s)
    <3>1. tree' = Renamed(req[s].src, req[s].dst)
      BY <2>5 DEF Moves
    <3>2. CASE p = req[s].dst
      <4>1. tree[req[s].src] = Part(x)
        BY <1>1, <2>5, <1>d, <3>1, <3>2, RenamedAt
      <4>2. Placed(p)
        BY <2>5, <1>d, <3>2 DEF Placed
      <4> QED BY <4>1, <4>2, <1>a, <1>b, <1>d, <2>5, PlacedStays
    <3>3. CASE Parent(p) = req[s].dst
      <4>1. \E q \in Paths : tree[q] = Part(x)
        BY <1>1, <2>5, <1>d, <3>1, <3>3, RenamedAt, PartsApart
      <4>2. Placed(p)
        BY <2>5, <1>d, <3>3 DEF Placed
      <4> QED BY <4>1, <4>2, <1>a, <1>b, PlacedStays
    <3>4. CASE p # req[s].dst /\ Parent(p) # req[s].dst
      <4>1. tree'[p] \in {None, tree[p]}
        BY <2>5, <1>d, <3>1, <3>4, RenamedAt
      <4> QED BY <1>1, <2>1, <4>1, PartsApart
    <3> QED BY <3>2, <3>3, <3>4
  <2> QED BY <2>1, <2>2, <2>3, <2>4, <2>5, TreeSteps DEF TreeStep
<1>2. ASSUME NEW y \in Requests, NEW x \in Requests, want'[y] = Part(x) PROVE pc'[x] \in Wrote
  <2>1. CASE want'[y] = want[y]
    <3>1. want[y] = Part(x)
      BY <1>2, <2>1
    <3>2. pc[x] \in Wrote
      BY <1>c, <3>1
    <3> QED BY <1>a, <3>2
  <2>2. CASE y = s /\ pc[s] = "act" /\ req[s].op = "Copy" /\ want'[s] = tree[req[s].src]
    <3>1. req[s].src \in Paths
      BY <2>2, Called DEF SrcDst
    <3> QED BY <1>2, <2>2, <3>1, <1>a, <1>b
  <2>3. CASE y = s /\ Moves(s)
    <3>1. want'[s] = tree[req[s].src]
      BY <2>3 DEF Moves
    <3> QED BY <1>2, <1>d, <2>3, <3>1, <1>a, <1>b
  <2> QED BY <2>1, <2>2, <2>3, WantSteps, OthersWait
<1> QED BY <1>1, <1>2 DEF PartInv, Wrote
=============================================================================
