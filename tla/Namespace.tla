------------------------------ MODULE Namespace ------------------------------
(* The operations of backend/ocufs on the names of one scope: Mkdir, Rmdir,  *)
(* Put, Remove, Copy, Move, DirMove, NewObject and List, each one request to *)
(* the filestore (a List of many pages is module Listing's subject), whose   *)
(* handlers run concurrently and are cut at the filesystem calls they make.  *)
(* The filesystem is external: a tree of directories and files that answers  *)
(* each call as POSIX does; os.RemoveAll and os.Rename are the sequences of  *)
(* calls the Go library makes.                                               *)
(*                                                                           *)
(* A file's content is a value: the path it was found at, the request that   *)
(* wrote it, or what the unfinished write of a request has left.  (Two       *)
(* writers of one file are UploadRetry's subject: here the last to open the  *)
(* file decides its content.)                                                *)
EXTENDS FilePaths

CONSTANTS Paths,      \* the paths requests name, parents included
          Requests,   \* the requests, each made at most once
          None, Dir   \* no node, a directory

ASSUME PathsAssumption ==
    \A p \in Paths : /\ p \in Seq(STRING) /\ Len(p) \in 1..2
                     /\ Len(p) = 2 => SubSeq(p, 1, 1) \in Paths

VARIABLES tree,   \* what is at each path
          mode,   \* "rw", or read-only: the Fs ("fs") or the scope ("scope")
          req,    \* the operation and the paths of each request
          pc,     \* how far its handler is
          res,    \* what the caller of the Fs method was told
          held,   \* the directory os.RemoveAll has open, wherever it is now
          left,   \* what os.RemoveAll or os.ReadDir read in a directory and is to come
          listed, \* the entries a List has found
          want,   \* what a transfer found at its source
          was     \* (history) what was at the destination when the call was made

vars == <<tree, mode, req, pc, res, held, left, listed, want, was>>

Lookups == {"NewObject", "List"}
OneDst == {"Mkdir", "Rmdir", "Put", "Remove"} \cup Lookups
SrcDst == {"Copy", "Move", "DirMove"}
OverwriteExisting == {"Copy", "Move"}   \* the transfers sent with that flag
Part(r) == <<r>>
Parts == {Part(r) : r \in Requests}
Contents == Paths \cup Requests \cup Parts
Nodes == {None, Dir} \cup Contents
IsFile(n) == n \notin {None, Dir}
IsDir(t, p) == p \in Paths => t[p] = Dir   \* the root is not among Paths
Children(t, p) == {q \in Paths : q # p /\ IsPrefix(p, q) /\ t[q] # None}
WellFormed(t) == \A p \in Paths : t[p] # None => IsDir(t, Parent(p))

\* A call names a destination and, for a transfer, another source.  A node is
\* never moved deeper than it was.
Inputs == [op : OneDst, src : {None}, dst : Paths]
            \cup {q \in [op : SrcDst, src : Paths, dst : Paths] :
                     q.src # q.dst /\ Len(q.src) >= Len(q.dst)}

\* The values are told apart.
ASSUME ValuesAssumption ==
    /\ None # Dir /\ {None, Dir} \cap Contents = {} /\ None \notin Inputs
    /\ Paths \cap Requests = {} /\ Parts \cap (Paths \cup Requests) = {}

\* The trees a scope may be found with: every file has a content of its own.
InitTrees == {t \in [Paths -> Nodes] :
                 WellFormed(t) /\ \A p \in Paths : t[p] \in {None, Dir, p}}

Init ==
    /\ tree \in InitTrees
    /\ mode \in {"rw", "fs", "scope"}
    /\ req = [r \in Requests |-> None]
    /\ pc = [r \in Requests |-> "idle"]
    /\ res = [r \in Requests |-> "none"]
    /\ held = [r \in Requests |-> None]
    /\ left = [r \in Requests |-> {}]
    /\ listed = [r \in Requests |-> {}]
    /\ want = [r \in Requests |-> None]
    /\ was = [r \in Requests |-> None]

-----------------------------------------------------------------------------
(* Answers.                                                                  *)

\* MapHTTPStatus, mapBrokerError, and the arms of Mkdir and NewObject: what an
\* answer of the handler becomes for the caller.
Mapped(op, status) ==
    CASE status \in {"ok", "denied", "notfound", "isdir"} -> status
      [] status = "conflict" /\ op = "Mkdir"             -> "ok"
      [] OTHER                                           -> "error"

\* What call returns: the answer may be lost, broken off or not decode.
Answers(op, status) == {Mapped(op, status), "error"}

\* The answer of r's handler.
Reply(r, status) ==
    /\ pc' = [pc EXCEPT ![r] = "done"]
    /\ \E out \in Answers(req[r].op, status) : res' = [res EXCEPT ![r] = out]

\* How a call that needs p to be there fails when it is not.
Missing(p) == IF IsDir(tree, Parent(p)) \/ tree[Parent(p)] = None
              THEN "notfound" ELSE "failed"

Goto(r, step) == pc' = [pc EXCEPT ![r] = step] /\ UNCHANGED res

-----------------------------------------------------------------------------
(* The call, and the request's way to its handler.                           *)

\* The Fs method: one that writes is refused on a read-only Fs before anything
\* is sent.
Call(r) ==
    /\ pc[r] = "idle"
    /\ \E q \in Inputs :
          /\ req' = [req EXCEPT ![r] = q]
          /\ was' = [was EXCEPT ![r] = tree[q.dst]]
          /\ IF mode = "fs" /\ q.op \notin Lookups
             THEN pc' = [pc EXCEPT ![r] = "done"] /\ res' = [res EXCEPT ![r] = "denied"]
             ELSE Goto(r, "sent")
    /\ UNCHANGED <<tree, mode, held, left, want>>

\* A transfer whose source belongs to another Fs is left to rclone.
CallForeign(r) ==
    /\ pc[r] = "idle"
    /\ \E q \in Inputs :
          /\ q.op \in SrcDst
          /\ req' = [req EXCEPT ![r] = q]
          /\ was' = [was EXCEPT ![r] = tree[q.dst]]
    /\ pc' = [pc EXCEPT ![r] = "done"]
    /\ res' = [res EXCEPT ![r] = IF mode = "fs" THEN "denied" ELSE "cant"]
    /\ UNCHANGED <<tree, mode, held, left, want>>

\* Mutant: moveDirectory is missing from the table.
WriteIntentLax == {"Put", "Copy", "Move", "Remove", "Mkdir", "Rmdir"}
WriteIntentOps == {"Put", "Copy", "Move", "Remove", "Mkdir", "DirMove", "Rmdir"}

\* route and dispatch: the throttle may refuse, a read-only scope does.
Arrive(r) ==
    /\ pc[r] = "sent"
    /\ \/ Reply(r, "throttled")
       \/ /\ mode = "scope" /\ req[r].op \in WriteIntentOps
          /\ Reply(r, "denied")
       \/ /\ ~(mode = "scope" /\ req[r].op \in WriteIntentOps)
          /\ Goto(r, CASE req[r].op \in SrcDst \ OverwriteExisting       -> "stat"
                       [] req[r].op \in {"Mkdir", "Put"} \cup OverwriteExisting -> "parents"
                       [] OTHER                                          -> "act")
    /\ UNCHANGED <<tree, mode, req, held, left, want, was>>

\* Mutant: the destination is not looked at.
StatSkipped(r) ==
    /\ pc[r] = "stat"
    /\ Goto(r, "parents")
    /\ UNCHANGED <<tree, mode, req, held, left, want, was>>

\* applySrcDstOp: the destination must not be there.
Stat(r) ==
    /\ pc[r] = "stat"
    /\ IF tree[req[r].dst] # None THEN Reply(r, "conflict") ELSE Goto(r, "parents")
    /\ UNCHANGED <<tree, mode, req, held, left, want, was>>

\* os.MkdirAll of the destination's parent.
Parents(r) ==
    LET p == Parent(req[r].dst) IN
    /\ pc[r] = "parents"
    /\ \/ IsDir(tree, p) /\ Goto(r, "act") /\ UNCHANGED tree
       \/ /\ p # <<>> /\ tree[p] = None
          /\ tree' = [tree EXCEPT ![p] = Dir]
          /\ Goto(r, "act")
       \/ /\ p # <<>> /\ IsFile(tree[p])
          /\ Reply(r, "failed")
          /\ UNCHANGED tree
    /\ UNCHANGED <<mode, req, held, left, want, was>>

-----------------------------------------------------------------------------
(* makeDirectory: the last mkdir of os.MkdirAll.                             *)

\* Mutant: a file at the path is answered 409, which Fs.Mkdir takes for success.
MkdirFileIsConflict(r) ==
    LET p == req[r].dst IN
    /\ pc[r] = "act" /\ req[r].op = "Mkdir"
    /\ IF IsDir(tree, Parent(p)) /\ tree[p] = None
       THEN tree' = [tree EXCEPT ![p] = Dir] /\ Reply(r, "ok")
       ELSE /\ UNCHANGED tree
            /\ Reply(r, IF tree[p] = Dir THEN "ok"
                        ELSE IF tree[p] = None THEN Missing(p) ELSE "conflict")
    /\ UNCHANGED <<mode, req, held, left, want, was>>

Mkdir(r) ==
    LET p == req[r].dst IN
    /\ pc[r] = "act" /\ req[r].op = "Mkdir"
    /\ IF IsDir(tree, Parent(p)) /\ tree[p] = None
       THEN tree' = [tree EXCEPT ![p] = Dir] /\ Reply(r, "ok")
       ELSE /\ UNCHANGED tree
            /\ Reply(r, IF tree[p] = Dir THEN "ok"
                        ELSE IF tree[p] = None THEN Missing(p) ELSE "failed")
    /\ UNCHANGED <<mode, req, held, left, want, was>>

-----------------------------------------------------------------------------
(* removeFile, and removeDirectory as os.RemoveAll: it tries the path        *)
(* itself, else reads the directory's names, removes each in the directory   *)
(* it holds open, and then the directory by its path.                        *)

\* The node at p goes; a directory held open that goes with it holds nothing more.
Unlink(p) ==
    /\ tree' = [tree EXCEPT ![p] = None]
    /\ held' = [x \in Requests |-> IF held[x] = p THEN None ELSE held[x]]

RemoveFile(r) ==
    LET p == req[r].dst IN
    /\ pc[r] = "act" /\ req[r].op = "Remove"
    /\ \/ /\ tree[p] # None /\ Children(tree, p) = {}
          /\ Unlink(p) /\ Reply(r, "ok")
       \/ /\ tree[p] = None
          /\ Reply(r, Missing(p)) /\ UNCHANGED <<tree, held>>
       \/ /\ Children(tree, p) # {}
          /\ Reply(r, "conflict") /\ UNCHANGED <<tree, held>>
    /\ UNCHANGED <<mode, req, left, want, was>>

RemoveAll(r) ==
    LET p == req[r].dst IN
    /\ pc[r] = "act" /\ req[r].op = "Rmdir"
    /\ \/ /\ tree[p] # None /\ Children(tree, p) = {}
          /\ Unlink(p) /\ Reply(r, "ok") /\ UNCHANGED left
       \/ /\ tree[p] = None
          /\ Reply(r, IF Missing(p) = "notfound" THEN "ok" ELSE "failed")
          /\ UNCHANGED <<tree, held, left>>
       \/ /\ Children(tree, p) # {}
          /\ held' = [held EXCEPT ![r] = p]
          /\ left' = [left EXCEPT ![r] = {Last(q) : q \in Children(tree, p)}]
          /\ Goto(r, "entries")
          /\ UNCHANGED tree
    /\ UNCHANGED <<mode, req, want, was>>

RemoveEntry(r) ==
    /\ pc[r] = "entries"
    /\ \E name \in left[r] :
          /\ left' = [left EXCEPT ![r] = @ \ {name}]
          /\ IF held[r] # None /\ Append(held[r], name) \in Paths
             THEN Unlink(Append(held[r], name)) ELSE UNCHANGED <<tree, held>>
    /\ UNCHANGED <<mode, req, pc, res, want, was>>

RemoveSelf(r) ==
    LET p == req[r].dst IN
    /\ pc[r] = "entries" /\ left[r] = {}
    /\ IF tree[p] = Dir /\ Children(tree, p) = {}
       THEN /\ tree' = [tree EXCEPT ![p] = None]
            /\ held' = [x \in Requests |-> IF x = r \/ held[x] = p THEN None ELSE held[x]]
            /\ Reply(r, "ok")
       ELSE /\ Reply(r, CASE tree[p] = Dir   -> "conflict"
                          [] IsFile(tree[p]) -> "failed"
                          [] tree[p] = None  -> IF Missing(p) = "failed"
                                                THEN "failed" ELSE "ok")
            /\ held' = [held EXCEPT ![r] = None]
            /\ UNCHANGED tree
    /\ UNCHANGED <<mode, req, left, want, was>>

-----------------------------------------------------------------------------
(* readMetadata and listDirectory.                                           *)

Kind(n) == IF n = Dir THEN "dir" ELSE "file"

\* What NewObject makes of an answer with a directory arm, or a file arm.
NewObject(n) == IF n = Dir THEN "isdir" ELSE "ok"

\* os.Stat of the path.
ReadMetadata(r) ==
    LET n == tree[req[r].dst] IN
    /\ pc[r] = "act" /\ req[r].op = "NewObject"
    /\ Reply(r, IF n = None THEN Missing(req[r].dst) ELSE NewObject(n))
    /\ UNCHANGED <<tree, mode, req, held, left, want, was>>

\* os.ReadDir: the names and what each of them is.
ReadDir(r) ==
    LET p == req[r].dst IN
    /\ pc[r] = "act" /\ req[r].op = "List"
    /\ IF tree[p] = Dir
       THEN /\ left' = [left EXCEPT ![r] = {<<Last(q), Kind(tree[q])>> : q \in Children(tree, p)}]
            /\ Goto(r, "infos")
       ELSE /\ Reply(r, IF tree[p] = None THEN Missing(p) ELSE "failed")
            /\ UNCHANGED left
    /\ UNCHANGED <<tree, mode, req, held, want, was>>

\* An entry's Info: one that is gone by now is left out.
Info(r) ==
    /\ pc[r] = "infos"
    /\ \E e \in left[r] :
          /\ left' = [left EXCEPT ![r] = @ \ {e}]
          /\ listed' = IF tree[Append(req[r].dst, e[1])] = None THEN listed
                       ELSE [listed EXCEPT ![r] = @ \cup {e}]
    /\ UNCHANGED <<tree, mode, req, pc, res, held, want, was>>

Listed(r) ==
    /\ pc[r] = "infos" /\ left[r] = {}
    /\ Reply(r, "ok")
    /\ UNCHANGED <<tree, mode, req, held, left, want, was>>

-----------------------------------------------------------------------------
(* fileUpload and copyFile.                                                  *)

\* Mutant: the destination is truncated before the source is opened.
TruncateThenOpen(r) ==
    /\ pc[r] = "act" /\ req[r].op = "Copy"
    /\ want' = [want EXCEPT ![r] = tree[req[r].src]]
    /\ IF IsFile(tree[req[r].dst])
       THEN tree' = [tree EXCEPT ![req[r].dst] = Part(r)] ELSE UNCHANGED tree
    /\ IF tree[req[r].src] = None
       THEN Reply(r, Missing(req[r].src)) ELSE Goto(r, "dst")
    /\ UNCHANGED <<mode, req, held, left, was>>

\* copyFileContents opens its source first.
OpenSource(r) ==
    /\ pc[r] = "act" /\ req[r].op = "Copy"
    /\ want' = [want EXCEPT ![r] = tree[req[r].src]]
    /\ IF tree[req[r].src] = None
       THEN Reply(r, Missing(req[r].src)) ELSE Goto(r, "dst")
    /\ UNCHANGED <<tree, mode, req, held, left, was>>

\* The destination is created or truncated.
OpenDest(r) ==
    LET p == req[r].dst IN
    /\ \/ pc[r] = "act" /\ req[r].op = "Put"
       \/ pc[r] = "dst"
    /\ IF tree[p] # Dir /\ IsDir(tree, Parent(p))
       THEN tree' = [tree EXCEPT ![p] = Part(r)] /\ Goto(r, "write")
       ELSE Reply(r, IF tree[p] = Dir THEN "failed" ELSE Missing(p)) /\ UNCHANGED tree
    /\ UNCHANGED <<mode, req, held, left, want, was>>

\* io.Copy and Close went well: the bytes are in the file that was opened,
\* wherever it is now.  A directory opens as a source but cannot be read.
Write(r) ==
    /\ pc[r] = "write"
    /\ want[r] # Dir
    /\ tree' = [p \in Paths |->
                  IF tree[p] # Part(r) THEN tree[p]
                  ELSE IF req[r].op = "Put" THEN r ELSE want[r]]
    /\ IF req[r].op = "Put" THEN Goto(r, "meta") ELSE Reply(r, "ok")
    /\ UNCHANGED <<mode, req, held, left, want, was>>

\* They did not: what was written stays.
WriteFails(r) ==
    /\ pc[r] = "write"
    /\ Reply(r, "failed")
    /\ UNCHANGED <<tree, mode, req, held, left, want, was>>

\* A body of another size than declared: whatever is at the path is removed.
SizeMismatch(r) ==
    LET p == req[r].dst IN
    /\ pc[r] = "write" /\ req[r].op = "Put"
    /\ IF tree[p] # None /\ Children(tree, p) = {}
       THEN Unlink(p) ELSE UNCHANGED <<tree, held>>
    /\ Reply(r, "failed")
    /\ UNCHANGED <<mode, req, left, want, was>>

\* The upload's answer describes the path, not the file that was written.
Meta(r) ==
    /\ pc[r] = "meta"
    /\ Reply(r, IF tree[req[r].dst] = None THEN Missing(req[r].dst) ELSE "ok")
    /\ UNCHANGED <<tree, mode, req, held, left, want, was>>

-----------------------------------------------------------------------------
(* moveFile and moveDirectory: os.Rename looks at the new name, then renames. *)

Lstat(r) ==
    /\ pc[r] = "act" /\ req[r].op \in {"Move", "DirMove"}
    /\ IF tree[req[r].dst] # Dir THEN Goto(r, "rename")
       ELSE Reply(r, IF tree[req[r].src] = None THEN Missing(req[r].src) ELSE "conflict")
    /\ UNCHANGED <<tree, mode, req, held, left, want, was>>

\* The call rename(s, d) fails with this, or goes through.
RenameStatus(s, d) ==
    CASE tree[s] = None                                     -> Missing(s)
      [] tree[s] # None /\ ~IsDir(tree, Parent(d))          -> Missing(d)
      [] tree[s] # None /\ IsDir(tree, Parent(d))           ->
            IF Children(tree, d) # {} THEN "conflict"
            ELSE IF tree[d] # None /\ (tree[s] = Dir) # (tree[d] = Dir)
            THEN "failed" ELSE "ok"

\* The node at s, with what is below it, is now at d.
Renamed(s, d) ==
    [p \in Paths |->
       IF IsPrefix(d, p)
       THEN LET q == s \o SubSeq(p, Len(d) + 1, Len(p))
            IN  IF q \in Paths THEN tree[q] ELSE None
       ELSE IF IsPrefix(s, p) THEN None ELSE tree[p]]

Rename(r) ==
    LET s == req[r].src  d == req[r].dst IN
    /\ pc[r] = "rename"
    /\ IF RenameStatus(s, d) = "ok"
       THEN /\ tree' = Renamed(s, d)
            /\ held' = [x \in Requests |-> IF held[x] = s THEN d
                                           ELSE IF held[x] = d THEN None ELSE held[x]]
            /\ want' = [want EXCEPT ![r] = tree[s]]
       ELSE UNCHANGED <<tree, held, want>>
    /\ Reply(r, RenameStatus(s, d))
    /\ UNCHANGED <<mode, req, left, was>>

-----------------------------------------------------------------------------
Serve(r) ==
    \/ Call(r) \/ CallForeign(r) \/ Arrive(r) \/ Stat(r) \/ Parents(r) \/ Mkdir(r)
    \/ RemoveFile(r) \/ RemoveAll(r) \/ RemoveEntry(r) \/ RemoveSelf(r)
    \/ OpenSource(r) \/ OpenDest(r) \/ Write(r) \/ WriteFails(r) \/ SizeMismatch(r)
    \/ Meta(r) \/ Lstat(r) \/ Rename(r) \/ ReadMetadata(r) \/ ReadDir(r) \/ Listed(r)

Next == \E r \in Requests :
           \/ Serve(r) /\ UNCHANGED listed
           \/ Info(r)

Spec == Init /\ [][Next]_vars

-----------------------------------------------------------------------------
(* Properties.                                                               *)

\* The types, and: nothing is ever left below a path that is not a directory,
\* in whatever order the handlers of ops.go and transfer.go make their calls.
TypeOK ==
    /\ tree \in [Paths -> Nodes] /\ WellFormed(tree)
    /\ mode \in {"rw", "fs", "scope"}
    /\ req \in [Requests -> Inputs \cup {None}]
    /\ pc \in [Requests -> {"idle", "sent", "stat", "parents", "act", "entries",
                            "dst", "write", "meta", "rename", "infos", "done"}]
    /\ res \in [Requests -> {"none", "ok", "denied", "notfound", "isdir",
                             "error", "cant"}]
    /\ held \in [Requests -> Paths \cup {None}]
    /\ want \in [Requests -> Nodes] /\ was \in [Requests -> Nodes]

Related(p, q) == p # None /\ q # None /\ (IsPrefix(p, q) \/ IsPrefix(q, p))

\* s writes at, above or below one of r's paths, and does more than add
\* directories there (or r is a removal or a lookup, which an addition undoes).
Contests(s, r) ==
    /\ s # r /\ req[s] # None /\ req[s].op \notin Lookups
    /\ req[s].op # "Mkdir" \/ req[r].op \in {"Remove", "Rmdir"} \cup Lookups
    /\ \E p \in {req[s].src, req[s].dst}, q \in {req[r].src, req[r].dst} : Related(p, q)

Uncontested(r) == req[r] # None /\ \A s \in Requests : ~Contests(s, r)

\* What a nil error of each method says.
Effect(r) ==
    LET q == req[r] IN
    CASE q.op = "NewObject"                    -> IsFile(tree[q.dst])
      [] q.op = "List"                         ->
            /\ tree[q.dst] = Dir
            /\ listed[r] = {<<Last(p), Kind(tree[p])>> : p \in Children(tree, q.dst)}
      [] q.op = "Mkdir"                        -> tree[q.dst] = Dir
      [] q.op = "Put"                          -> tree[q.dst] = r
      [] q.op \in {"Rmdir", "Remove"}          -> tree[q.dst] = None
      [] q.op \in {"Copy", "Move", "DirMove"}  -> tree[q.dst] = want[r] /\ want[r] # None

\* A method of the Fs that returned nil has had its effect, and the effect is
\* still there whatever the handlers of requests for other paths, and those
\* that only make directories, did before, between and after its own calls.
\* What NewObject and List answer is so as well, their errors included.
AckedHolds ==
    \A r \in Requests : Uncontested(r) =>
        /\ res[r] = "ok" => Effect(r)
        /\ res[r] = "isdir" => tree[req[r].dst] = Dir
        /\ res[r] = "notfound" /\ req[r].op \in Lookups => tree[req[r].dst] = None

\* A transfer told "not found" or refused has not touched what was at its
\* destination: copyFileContents opens the source before it truncates.
RefusedIsHarmless ==
    \A r \in Requests :
       /\ Uncontested(r) /\ req[r].op \in SrcDst
       /\ res[r] \in {"notfound", "denied", "cant"}
       /\ was[r] # None
       => tree[req[r].dst] = was[r]

\* DirMove, which sends no overwrite_existing, succeeds only onto a path where
\* nothing was, when no other request is about that path.
DirMoveOntoNothing ==
    \A r \in Requests :
       res[r] = "ok" /\ Uncontested(r) /\ req[r].op = "DirMove"
         /\ (\A s \in Requests \ {r} : req[s] = None \/ req[s].op # "Mkdir")
       => was[r] = None

\* On a read-only Fs, or against a read-only scope, no request changes the tree.
ReadOnlyIsInert == [][mode # "rw" => UNCHANGED tree]_vars

\* ops.go:373: moveDirectory "refuses to clobber an existing destination unless
\* overwrite_existing is set": its rename never meets a node at the new name.
NoClobber ==
    [][\A r \in Requests :
          (req[r] # None /\ req[r].op = "DirMove" /\ pc[r] = "rename" /\ tree' # tree
             /\ pc'[r] = "done")
          => tree[req[r].dst] = None]_vars
=============================================================================
