-------------------------- MODULE NamespaceProofs --------------------------
(***************************************************************************)
(* The promises of the namespace operations, for any number of requests.   *)
(* The argument is a frame: a request that nobody contests has a zone of   *)
(* the tree, its paths and their entries, in which no step of another      *)
(* handler changes anything but to add a directory.  That needs to know    *)
(* where others can write, and an os.RemoveAll writes below a directory it *)
(* opened, wherever that has been renamed since: no such directory, and no *)
(* half-written file of another, is ever in the zone.                      *)
(***************************************************************************)
EXTENDS NamespaceSteps

\* The one path is the other or an entry of it: with paths of at most two names, Related.
Near(p, q) == p = q \/ Parent(p) = q \/ Parent(q) = p

\* Nobody else holds a directory near r's paths, nor has half-written content among them.
Apart(r) ==
    \A s \in Requests \ {r} :
       /\ held[s] # None => \A e \in Ends(r) : ~Near(held[s], e)
       /\ \A p \in Zone(r) : tree[p] # Part(s)
       /\ want[r] # Part(s)

\* The entries of a directory as os.ReadDir reports them.
Entries(t, d) == {<<Last(p), Kind(t[p])>> : p \in Children(t, d)}

\* What r knows of the tree while its handler runs, and what it has been told.
Acks(r) ==
    LET q == req[r] IN
    /\ pc[r] = "write" => tree[q.dst] = Part(r)
    /\ pc[r] \in {"dst", "write"} /\ q.op = "Copy" => want[r] # None /\ want[r] # Part(r)
    /\ pc[r] = "meta" => tree[q.dst] = r
    /\ pc[r] = "infos" => tree[q.dst] = Dir /\ left[r] \cup listed[r] = Entries(tree, q.dst)
    /\ res[r] = "ok" => Effect(r)
    /\ res[r] = "isdir" => tree[q.dst] = Dir
    /\ res[r] = "notfound" /\ q.op \in Lookups => tree[q.dst] = None

\* The steps before a transfer changes its destination.
Untouched == {"sent", "stat", "parents", "act", "dst", "rename"}

\* A transfer that has not reached its change has left the destination alone.
Harmless(r) ==
    /\ req[r].op \in SrcDst /\ was[r] # None
    /\ pc[r] \in Untouched \/ res[r] \in {"notfound", "denied", "cant"}
    => tree[req[r].dst] = was[r]

\* Nobody else makes a directory by name.
NoMkdir(r) == \A s \in Requests \ {r} : req[s] = None \/ req[s].op # "Mkdir"

\* A DirMove that is past its stat found nothing at the destination.
Onto(r) ==
    req[r].op = "DirMove" /\ NoMkdir(r) =>
        /\ pc[r] \in {"sent", "stat"} => tree[req[r].dst] = was[r]
        /\ pc[r] \in {"parents", "act", "rename"} \/ res[r] = "ok" => was[r] = None

\* Every request that is uncontested has had the tree to itself.
AloneInv == \A r \in Requests : Uncontested(r) => Apart(r) /\ Acks(r) /\ Harmless(r) /\ Onto(r)

\* The inductive invariant.
IInv == TypeInv /\ ControlInv /\ ReadOnlyInv /\ HeldInv /\ PartInv /\ AloneInv

-----------------------------------------------------------------------------
\* Related is near, with paths of at most two names.
LEMMA NearRelated ==
  ASSUME NEW e \in Paths, NEW f \in Paths
  PROVE  Related(e, f) <=> Near(e, f)
<1>1. None \notin Paths
  BY ValuesAssumption DEF Contents
<1>2. Related(e, f) <=> IsPrefix(e, f) \/ IsPrefix(f, e)
  BY <1>1 DEF Related
<1> QED BY <1>2, PrefixOfPath DEF Near

\* The ends of a request that does not contest r are not near those of r.
LEMMA NotNear ==
  ASSUME TypeInv, ControlInv, NEW r \in Requests, Uncontested(r), NEW s \in Requests \ {r},
         req[s] # None, req[s].op \notin Lookups,
         req[s].op # "Mkdir" \/ req[r].op \in FromNothing,
         NEW e \in Ends(s), NEW f \in Ends(r)
  PROVE  ~Near(e, f)
<1>1. e \in Paths /\ f \in Paths
  BY WritersEnds DEF Uncontested, ControlInv, Step
<1>2. e \in {req[s].src, req[s].dst} /\ f \in {req[r].src, req[r].dst}
  BY DEF Ends
<1>3. ~Related(e, f)
  BY <1>2 DEF Uncontested, Contests, FromNothing
<1> QED BY <1>1, <1>3, NearRelated

\* A request that is uncontested after a step was so before it.
LEMMA UncontestedBefore ==
  ASSUME TypeInv, ControlInv, NEW s \in Requests, Serve(s), NEW r \in Requests,
         req[r] # None, Uncontested(r)'
  PROVE  Uncontested(r) /\ req'[r] = req[r] /\ Ends(r)' = Ends(r) /\ Zone(r)' = Zone(r)
<1>1. req'[r] = req[r]
  BY RequestStays
<1>2. ASSUME NEW x \in Requests, Contests(x, r) PROVE FALSE
  <2>1. req'[x] = req[x]
    BY <1>2, RequestStays DEF Contests
  <2>2. Contests(x, r)'
    BY <1>1, <1>2, <2>1 DEF Contests
  <2> QED BY <2>2 DEF Uncontested
<1> QED BY <1>1, <1>2 DEF Uncontested, Ends, Zone

\* What a step of s may do at a path of r's zone: nothing, or add a directory where r does
\* not mind.
Same(r, p, s) ==
    \/ tree'[p] = tree[p]
    \/ tree[p] = None /\ tree'[p] = Dir /\ req[s].op = "Mkdir" /\ req[r].op \notin FromNothing

\* No step of another handler changes the zone of an uncontested request, except that a
\* Mkdir adds a directory.
LEMMA Frame ==
  ASSUME TypeInv, ControlInv, NEW r \in Requests, Uncontested(r), Apart(r),
         NEW s \in Requests \ {r}, Serve(s), NEW p \in Zone(r)
  PROVE  Same(r, p, s)
<1> USE DEF TypeInv
<1>1. PICK f \in Ends(r) : p = f \/ Parent(p) = f
  BY DEF Zone
<1>2. p \in Paths /\ f \in Paths
  BY WritersEnds DEF Zone, Uncontested, ControlInv, Step
<1>3. ASSUME Writer(s), NEW e \in Ends(s) PROVE e # f /\ Parent(e) # f /\ Parent(f) # e
  BY <1>3, NotNear DEF Writer, Near
<1>4. ASSUME Writer(s), NEW e \in Ends(s) PROVE p # e /\ Parent(p) # e
  BY <1>1, <1>3, <1>4
<1>5. CASE tree'[p] = tree[p]
  BY <1>5 DEF Same
<1>6. ASSUME NEW q \in Paths, MakesAt(s, q) PROVE Same(r, p, s)
  <2>0. tree' = [tree EXCEPT ![q] = Dir] /\ tree[q] = None /\ pc[s] \in {"act", "parents"}
    BY <1>6 DEF MakesAt
  <2>1. SUFFICES ASSUME p = q PROVE Same(r, p, s)
    BY <1>5, <2>0
  <2>2. q = req[s].dst \/ Parent(req[s].dst) = q
    BY <1>6 DEF MakesAt
  <2>3. req[s].dst \in Ends(s) /\ req[s].dst \in Paths /\ req[s] # None
    BY <2>0, WritersEnds, Called
  <2>4. req[s].op # "Mkdir" => Writer(s)
    BY <1>6, WritersEnds DEF MakesAt, ControlInv, Step, SrcDst
  <2>5. Near(req[s].dst, f)
    <3>1. Parent(req[s].dst) = q => Parent(q) \notin Paths
      BY <2>3, ParentOfPath
    <3> QED BY <1>1, <1>2, <2>1, <2>2, <3>1 DEF Near
  <2>6. req[s].op = "Mkdir" /\ req[r].op \notin FromNothing
    BY <2>3, <2>4, <2>5, NotNear DEF Writer, Lookups
  <2> QED BY <2>0, <2>1, <2>6, <1>2 DEF Same
<1>7. ASSUME NEW q \in Paths, RemovesAt(s, q) PROVE Same(r, p, s)
  <2>0. tree' = [tree EXCEPT ![q] = None]
    BY <1>7 DEF RemovesAt
  <2>1. CASE pc[s] # "idle" /\ req[s].op \in {"Remove", "Rmdir", "Put"} /\ q = req[s].dst
    <3>1. Writer(s) /\ req[s].dst \in Ends(s)
      BY <2>1, WritersEnds
    <3>2. p # q
      BY <1>4, <2>1, <3>1
    <3> QED BY <1>5, <2>0, <3>2
  <2>2. CASE held[s] \in Paths /\ Parent(q) = held[s]
    <3>1. ~Near(held[s], f)
      BY <2>2, ValuesAssumption DEF Apart, Contents
    <3>2. p # q
      BY <1>1, <2>2, <3>1 DEF Near
    <3> QED BY <1>5, <2>0, <3>2
  <2> QED BY <1>7, <2>1, <2>2 DEF RemovesAt
<1>8. CASE OpensDst(s)
  <2>1. pc[s] # "idle" /\ req[s].op \in {"Put", "Copy"} /\ tree' = [tree EXCEPT ![req[s].dst] = Part(s)]
    BY <1>8 DEF OpensDst
  <2>2. p # req[s].dst
    BY <1>4, <2>1, WritersEnds
  <2> QED BY <1>5, <2>1, <2>2
<1>9. CASE Write(s)
  <2>1. tree[p] # Part(s)
    BY DEF Apart
  <2>2. tree'[p] = tree[p]
    BY <1>2, <1>9, <2>1 DEF Write
  <2> QED BY <1>5, <2>2
<1>10. CASE Moves(s)
  <2>1. pc[s] = "rename" /\ tree' = Renamed(req[s].src, req[s].dst)
    BY <1>10 DEF Moves
  <2>2. req[s].op \in {"Move", "DirMove"}
    BY <2>1 DEF ControlInv, Step
  <2>3. /\ Writer(s) /\ req[s].src \in Ends(s) /\ req[s].dst \in Ends(s)
        /\ req[s].src \in Paths /\ req[s].dst \in Paths
    BY <2>1, <2>2, WritersEnds DEF SrcDst
  <2>4. p # req[s].dst /\ Parent(p) # req[s].dst /\ p # req[s].src /\ Parent(p) # req[s].src
    BY <1>4, <2>3
  <2> QED BY <1>2, <1>5, <2>1, <2>3, <2>4, RenamedAt
<1> QED BY <1>5, <1>6, <1>7, <1>8, <1>9, <1>10, TreeSteps DEF TreeStep

\* A request that is uncontested when it is made finds nobody near.
LEMMA ApartWhenCalled ==
  ASSUME TypeInv, TypeInv', ControlInv, ControlInv', HeldInv, PartInv, NEW r \in Requests,
         Call(r) \/ CallForeign(r), Uncontested(r)'
  PROVE  Apart(r)'
<1> USE DEF TypeInv
<1>1. /\ req[r] = None /\ want[r] = None /\ UNCHANGED <<tree, held, want>>
      /\ \A y \in Requests \ {r} : req'[y] = req[y]
  BY DEF Call, CallForeign, ControlInv, Step
<1>2. req'[r] \in Inputs /\ Ends(r)' \subseteq Paths
  <2>1. req'[r] \in Inputs
    BY DEF Uncontested
  <2> QED BY <2>1, InputTypes DEF Ends
<1>3. ASSUME NEW y \in Requests, Writer(y), NEW e \in Ends(y), NEW f \in Ends(r)' PROVE ~Near(e, f)
  <2>1. y # r /\ req'[y] = req[y]
    BY <1>1, <1>3 DEF Writer
  <2>2. e \in Paths /\ f \in Paths
    BY <1>2, <1>3, InputTypes DEF Ends, Writer
  <2>3. e \in {req'[y].src, req'[y].dst} /\ f \in {req'[r].src, req'[r].dst}
    BY <2>1 DEF Ends
  <2>4. ~Contests(y, r)'
    BY <2>1 DEF Uncontested
  <2>5. ~Related(e, f)
    BY <1>3, <2>1, <2>3, <2>4 DEF Contests, Writer
  <2> QED BY <2>2, <2>5, NearRelated
<1>4. ASSUME NEW s \in Requests, held[s] # None, NEW f \in Ends(r)' PROVE ~Near(held[s], f)
  BY <1>3, <1>4 DEF HeldInv
<1>5. ASSUME NEW s \in Requests, NEW p \in Zone(r)' PROVE tree[p] # Part(s)
  <2>1. SUFFICES ASSUME tree[p] = Part(s) PROVE FALSE
    OBVIOUS
  <2>2. p \in Paths
    BY DEF Zone
  <2>3. PICK f \in Ends(r)' : p = f \/ Parent(p) = f
    BY DEF Zone
  <2>4. PICK y \in Requests : Writer(y) /\ (p \in Ends(y) \/ Parent(p) \in Ends(y))
    BY <2>1, <2>2 DEF PartInv, Placed
  <2>5. PICK e \in Ends(y) : p = e \/ Parent(p) = e
    BY <2>4
  <2>6. Near(e, f)
    BY <2>3, <2>5 DEF Near
  <2> QED BY <1>3, <2>4, <2>6
<1> QED BY <1>1, <1>4, <1>5, PartsApart, Zenon DEF Apart

\* It stays apart, whatever handler takes the next step.
LEMMA ApartHolds ==
  ASSUME TypeInv, TypeInv', ControlInv, ControlInv', HeldInv, PartInv, NEW r \in Requests,
         Uncontested(r) => Apart(r), NEW s \in Requests, Serve(s), Uncontested(r)'
  PROVE  Apart(r)'
<1> USE DEF TypeInv
<1>1. CASE req[r] = None
  <2>1. r = s
    BY <1>1, OthersWait DEF Uncontested
  <2>2. pc[r] = "idle"
    BY <1>1 DEF ControlInv, Step
  <2> QED BY <2>1, <2>2, StepsAt, ApartWhenCalled DEF StepAt
<1>2. CASE req[r] # None
  <2>0. /\ Uncontested(r) /\ Apart(r) /\ Ends(r)' = Ends(r) /\ Zone(r)' = Zone(r)
        /\ Ends(r) \subseteq Paths /\ pc[r] # "idle"
    BY <1>2, UncontestedBefore, WritersEnds DEF ControlInv, Step
  <2> SUFFICES ASSUME NEW x \in Requests \ {r}
               PROVE  /\ held'[x] # None => \A e \in Ends(r) : ~Near(held'[x], e)
                      /\ \A p \in Zone(r) : tree'[p] # Part(x)
                      /\ want'[r] # Part(x)
    BY <2>0 DEF Apart
  <2>1. ASSUME held'[x] # None, NEW e \in Ends(r) PROVE ~Near(held'[x], e)
    <3>1. CASE held'[x] = held[x]
      BY <2>0, <2>1, <3>1 DEF Apart
    <3>2. CASE x = s /\ pc[s] = "act" /\ req[s].op = "Rmdir" /\ held'[x] = req[s].dst
      <4>1. Writer(s) /\ req[s].dst \in Ends(s)
        BY <3>2, WritersEnds
      <4> QED BY <2>0, <3>2, <4>1, NotNear DEF Writer
    <3>3. CASE x # s /\ pc[s] = "rename" /\ held[x] = req[s].src /\ held'[x] = req[s].dst
      <4>1. Writer(s) /\ req[s].dst \in Ends(s) /\ req[s].src \in Ends(s)
        BY <3>3, WritersEnds DEF ControlInv, Step, SrcDst
      <4>2. s # r
        <5>1. held[x] # None
          BY <3>3, <4>1 DEF Ends
        <5> QED BY <2>0, <3>3, <4>1, <5>1 DEF Apart, Near
      <4> QED BY <2>0, <3>3, <4>1, <4>2, NotNear, Zenon DEF Writer
    <3> QED BY <2>1, <3>1, <3>2, <3>3, HeldSteps DEF HeldStep
  <2>2. ASSUME NEW p \in Zone(r) PROVE tree'[p] # Part(x)
    <3>0. p \in Paths /\ tree[p] # Part(x)
      BY <2>0 DEF Zone, Apart
    <3>1. CASE s # r
      <4>1. Same(r, p, s)
        BY <2>0, <3>1, Frame
      <4> QED BY <3>0, <4>1, PartsApart DEF Same
    <3>2. CASE s = r
      <4>1. CASE \E q \in Paths : MakesAt(s, q) \/ RemovesAt(s, q)
        <5>1. tree'[p] \in {tree[p], None, Dir}
          BY <3>0, <4>1 DEF MakesAt, RemovesAt
        <5> QED BY <3>0, <5>1, PartsApart
      <4>2. CASE OpensDst(s)
        <5>1. tree'[p] \in {tree[p], Part(r)}
          BY <3>0, <3>2, <4>2 DEF OpensDst
        <5> QED BY <3>0, <5>1, PartsApart
      <4>3. CASE Write(s)
        <5>1. tree'[p] \in {tree[p], r, want[r]}
          BY <3>0, <3>2, <4>3 DEF Write
        <5>2. want[r] # Part(x)
          BY <2>0 DEF Apart
        <5> QED BY <3>0, <5>1, <5>2, PartsApart
      <4>4. CASE Moves(s)
        <5>1. tree' = Renamed(req[r].src, req[r].dst) /\ pc[r] = "rename"
          BY <3>2, <4>4, Zenon DEF Moves
        <5>2. req[r].src \in Ends(r) /\ req[r].src \in Paths /\ req[r].dst \in Paths
          BY <2>0, <5>1, WritersEnds DEF ControlInv, Step, SrcDst
        <5>3. \A q \in Paths : q = req[r].src \/ Parent(q) = req[r].src => tree[q] # Part(x)
          BY <2>0, <5>2 DEF Apart, Zone
        <5>4. \/ tree'[p] \in {tree[p], None, tree[req[r].src]}
              \/ \E q \in Paths : Parent(q) = req[r].src /\ tree'[p] = tree[q]
          <6>1. CASE p = req[r].dst
            BY <3>0, <5>1, <5>2, <6>1, RenamedAt
          <6>2. CASE Parent(p) = req[r].dst
            BY <3>0, <5>1, <5>2, <6>2, RenamedAt
          <6>3. CASE p # req[r].dst /\ Parent(p) # req[r].dst
            BY <3>0, <5>1, <5>2, <6>3, RenamedAt
          <6> QED BY <6>1, <6>2, <6>3
        <5> QED BY <3>0, <5>2, <5>3, <5>4, PartsApart
      <4> QED BY <3>0, <4>1, <4>2, <4>3, <4>4, TreeSteps DEF TreeStep
    <3> QED BY <3>1, <3>2
  <2>3. want'[r] # Part(x)
    <3>1. want[r] # Part(x)
      BY <2>0 DEF Apart
    <3>2. CASE s # r
      BY <3>1, <3>2, OthersWait
    <3>3. ASSUME s = r, req[r].op \in SrcDst, want'[r] = tree[req[r].src] PROVE want'[r] # Part(x)
      <4>1. req[r].src \in Zone(r)
        BY <2>0, <3>3, WritersEnds DEF Zone
      <4> QED BY <2>0, <3>3, <4>1 DEF Apart
    <3>4. CASE s = r /\ Moves(r)
      BY <3>3, <3>4 DEF Moves, ControlInv, Step, SrcDst
    <3> QED BY <3>1, <3>2, <3>3, <3>4, WantSteps DEF SrcDst
  <2> QED BY <2>1, <2>2, <2>3, Zenon
<1> QED BY <1>1, <1>2

\* What os.Rename and a missing path are reported as.
LEMMA Statuses ==
  ASSUME NEW p, NEW q
  PROVE  /\ Missing(p) \in {"notfound", "failed"}
         /\ RenameStatus(p, q) \in {"notfound", "failed", "conflict", "ok"}
         /\ RenameStatus(p, q) = "ok" => tree[p] # None
<1>1. \A x : Missing(x) \in {"notfound", "failed"}
  BY DEF Missing
<1>2. RenameStatus(p, q) \in {Missing(p), Missing(q), "failed", "conflict", "ok"}
  BY DEF RenameStatus
<1>3. tree[p] = None => RenameStatus(p, q) = Missing(p)
  BY DEF RenameStatus
<1> QED BY <1>1, <1>2, <1>3

\* The children of a path.
LEMMA ChildrenOf ==
  ASSUME NEW p \in Paths
  PROVE  Children(tree, p) = {q \in Paths : Parent(q) = p /\ tree[q] # None}
<1>1. \A q \in Paths : q # p /\ IsPrefix(p, q) <=> Parent(q) = p
  BY PrefixOfPath, ParentOfPath
<1> QED BY <1>1 DEF Children

\* The entries of a directory are determined by what is in it.
LEMMA SameEntries ==
  ASSUME NEW t, NEW u, NEW d, Children(t, d) = Children(u, d), \A p \in Children(u, d) : t[p] = u[p]
  PROVE  Entries(t, d) = Entries(u, d)
<1>1. \A p \in Children(u, d) : <<Last(p), Kind(t[p])>> = <<Last(p), Kind(u[p])>>
  BY DEF Kind
<1> QED BY <1>1 DEF Entries

\* The destination and its entries lie in the zone.
LEMMA DstInZone ==
  ASSUME TypeInv, ControlInv, NEW r \in Requests, pc[r] # "idle"
  PROVE  req[r].dst \in Zone(r) /\ Children(tree, req[r].dst) \subseteq Zone(r)
BY WritersEnds, Called, ChildrenOf, Zenon DEF Zone

\* The effect of each method, case by case.
LEMMA EffectNow ==
  ASSUME NEW r
  PROVE  /\ req[r].op = "NewObject" => (Effect(r) <=> IsFile(tree[req[r].dst]))
         /\ req[r].op = "List" =>
               (Effect(r) <=> tree[req[r].dst] = Dir /\ listed[r] = Entries(tree, req[r].dst))
         /\ req[r].op = "Mkdir" => (Effect(r) <=> tree[req[r].dst] = Dir)
         /\ req[r].op = "Put" => (Effect(r) <=> tree[req[r].dst] = r)
         /\ req[r].op \in {"Rmdir", "Remove"} => (Effect(r) <=> tree[req[r].dst] = None)
         /\ req[r].op \in {"Copy", "Move", "DirMove"} =>
              (Effect(r) <=> tree[req[r].dst] = want[r] /\ want[r] # None)
<1>1. ASSUME req[r].op = "NewObject" PROVE Effect(r) <=> IsFile(tree[req[r].dst])
  BY <1>1 DEF Effect, IsFile
<1>2. ASSUME req[r].op = "List"
      PROVE Effect(r) <=> tree[req[r].dst] = Dir /\ listed[r] = Entries(tree, req[r].dst)
  BY <1>2 DEF Effect, Entries
<1>3. ASSUME req[r].op = "Mkdir" PROVE Effect(r) <=> tree[req[r].dst] = Dir
  BY <1>3 DEF Effect
<1>4. ASSUME req[r].op = "Put" PROVE Effect(r) <=> tree[req[r].dst] = r
  BY <1>4 DEF Effect
<1>5. ASSUME req[r].op = "Rmdir" PROVE Effect(r) <=> tree[req[r].dst] = None
  BY <1>5 DEF Effect
<1>6. ASSUME req[r].op = "Remove" PROVE Effect(r) <=> tree[req[r].dst] = None
  BY <1>6 DEF Effect
<1>7. ASSUME req[r].op = "Copy" PROVE Effect(r) <=> tree[req[r].dst] = want[r] /\ want[r] # None
  BY <1>7 DEF Effect
<1>8. ASSUME req[r].op = "Move" PROVE Effect(r) <=> tree[req[r].dst] = want[r] /\ want[r] # None
  BY <1>8 DEF Effect
<1>9. ASSUME req[r].op = "DirMove" PROVE Effect(r) <=> tree[req[r].dst] = want[r] /\ want[r] # None
  BY <1>9, Zenon DEF Effect
<1> QED BY <1>1, <1>2, <1>3, <1>4, <1>5, <1>6, <1>7, <1>8, <1>9

\* The same in the next state.
LEMMA EffectThen ==
  ASSUME NEW r
  PROVE  /\ req'[r].op = "NewObject" => (Effect(r)' <=> IsFile(tree'[req'[r].dst]))
         /\ req'[r].op = "List" =>
               (Effect(r)' <=> tree'[req'[r].dst] = Dir /\ listed'[r] = Entries(tree', req'[r].dst))
         /\ req'[r].op = "Mkdir" => (Effect(r)' <=> tree'[req'[r].dst] = Dir)
         /\ req'[r].op = "Put" => (Effect(r)' <=> tree'[req'[r].dst] = r)
         /\ req'[r].op \in {"Rmdir", "Remove"} => (Effect(r)' <=> tree'[req'[r].dst] = None)
         /\ req'[r].op \in {"Copy", "Move", "DirMove"} =>
              (Effect(r)' <=> tree'[req'[r].dst] = want'[r] /\ want'[r] # None)
<1>1. ASSUME req'[r].op = "NewObject" PROVE Effect(r)' <=> IsFile(tree'[req'[r].dst])
  BY <1>1 DEF Effect, IsFile
<1>2. ASSUME req'[r].op = "List" PROVE Effect(r)' <=>
      tree'[req'[r].dst] = Dir /\ listed'[r] = Entries(tree', req'[r].dst)
  BY <1>2 DEF Effect, Entries
<1>3. ASSUME req'[r].op = "Mkdir" PROVE Effect(r)' <=> tree'[req'[r].dst] = Dir
  BY <1>3 DEF Effect
<1>4. ASSUME req'[r].op = "Put" PROVE Effect(r)' <=> tree'[req'[r].dst] = r
  BY <1>4 DEF Effect
<1>5. ASSUME req'[r].op = "Rmdir" PROVE Effect(r)' <=> tree'[req'[r].dst] = None
  BY <1>5 DEF Effect
<1>6. ASSUME req'[r].op = "Remove" PROVE Effect(r)' <=> tree'[req'[r].dst] = None
  BY <1>6 DEF Effect
<1>7. ASSUME req'[r].op = "Copy"
      PROVE Effect(r)' <=> tree'[req'[r].dst] = want'[r] /\ want'[r] # None
  BY <1>7 DEF Effect
<1>8. ASSUME req'[r].op = "Move"
      PROVE Effect(r)' <=> tree'[req'[r].dst] = want'[r] /\ want'[r] # None
  BY <1>8 DEF Effect
<1>9. ASSUME req'[r].op = "DirMove"
      PROVE Effect(r)' <=> tree'[req'[r].dst] = want'[r] /\ want'[r] # None
  BY <1>9 DEF Effect
<1> QED BY <1>1, <1>2, <1>3, <1>4, <1>5, <1>6, <1>7, <1>8, <1>9

\* An effect other than a removal leaves a node at the destination.
LEMMA EffectNeeds ==
  ASSUME NEW r, req[r].op \in OneDst \cup SrcDst, Effect(r), r # None, None # Dir
  PROVE  req[r].op \in FromNothing \/ tree[req[r].dst] # None
<1>1. CASE req[r].op = "Mkdir" BY <1>1, EffectNow
<1>2. CASE req[r].op = "Put" BY <1>2, EffectNow
<1>3. CASE req[r].op \in SrcDst BY <1>3, EffectNow DEF SrcDst
<1> QED BY <1>1, <1>2, <1>3 DEF OneDst, FromNothing, Lookups

\* An effect stays as long as the destination and its entries do.
LEMMA EffectStays ==
  ASSUME NEW r, req'[r] = req[r], want'[r] = want[r], listed'[r] = listed[r],
         tree'[req[r].dst] = tree[req[r].dst], req[r].op \in OneDst \cup SrcDst, Effect(r),
         req[r].op = "List" => Entries(tree', req[r].dst) = Entries(tree, req[r].dst)
  PROVE  Effect(r)'
<1>1. CASE req[r].op = "NewObject"
  <2>1. IsFile(tree[req[r].dst])
    BY <1>1, EffectNow, Zenon
  <2>2. req'[r].op = "NewObject" /\ IsFile(tree'[req'[r].dst])
    BY <1>1, <2>1, Zenon
  <2> QED BY <2>2, EffectThen, Zenon
<1>2. CASE req[r].op = "List"
  <2>1. tree[req[r].dst] = Dir /\ listed[r] = Entries(tree, req[r].dst)
    BY <1>2, EffectNow, Zenon
  <2>2. /\ req'[r].op = "List" /\ tree'[req'[r].dst] = Dir
        /\ listed'[r] = Entries(tree', req'[r].dst)
    BY <1>2, <2>1
  <2> QED BY <2>2, EffectThen, Zenon
<1>3. CASE req[r].op = "Mkdir"
  <2>1. tree[req[r].dst] = Dir
    BY <1>3, EffectNow, Zenon
  <2>2. req'[r].op = "Mkdir" /\ tree'[req'[r].dst] = Dir
    BY <1>3, <2>1, Zenon
  <2> QED BY <2>2, EffectThen, Zenon
<1>4. CASE req[r].op = "Put"
  <2>1. tree[req[r].dst] = r
    BY <1>4, EffectNow, Zenon
  <2>2. req'[r].op = "Put" /\ tree'[req'[r].dst] = r
    BY <1>4, <2>1, Zenon
  <2> QED BY <2>2, EffectThen, Zenon
<1>5. CASE req[r].op \in {"Rmdir", "Remove"}
  <2>1. tree[req[r].dst] = None
    BY <1>5, EffectNow, Zenon
  <2>2. req'[r].op \in {"Rmdir", "Remove"} /\ tree'[req'[r].dst] = None
    BY <1>5, <2>1, Zenon
  <2> QED BY <2>2, EffectThen, Zenon
<1>6. CASE req[r].op \in {"Copy", "Move", "DirMove"}
  <2>1. tree[req[r].dst] = want[r] /\ want[r] # None
    BY <1>6, EffectNow, Zenon
  <2>2. /\ req'[r].op \in {"Copy", "Move", "DirMove"}
        /\ tree'[req'[r].dst] = want'[r] /\ want'[r] # None
    BY <1>6, <2>1, Zenon
  <2> QED BY <2>2, EffectThen, Zenon
<1> QED BY <1>1, <1>2, <1>3, <1>4, <1>5, <1>6, Zenon DEF OneDst, SrcDst, Lookups

\* What others do keeps what r has been told.
LEMMA AcksByOthers ==
  ASSUME TypeInv, ControlInv, NEW r \in Requests, Uncontested(r), Apart(r), Acks(r),
         NEW s \in Requests \ {r}, Serve(s), UNCHANGED listed
  PROVE  Acks(r)'
<1> USE DEF TypeInv
<1>0. /\ pc'[r] = pc[r] /\ req'[r] = req[r] /\ res'[r] = res[r] /\ want'[r] = want[r]
      /\ left'[r] = left[r] /\ listed'[r] = listed[r] /\ pc[r] # "idle"
  BY OthersWait DEF Uncontested, ControlInv, Step
<1>1. tree[req[r].dst] # None => tree'[req[r].dst] = tree[req[r].dst]
  BY <1>0, DstInZone, Frame DEF Same
<1>2. ASSUME req[r].op \in FromNothing
      PROVE  /\ tree'[req[r].dst] = tree[req[r].dst]
             /\ Entries(tree', req[r].dst) = Entries(tree, req[r].dst)
  <2>1. \A p \in Zone(r) : tree'[p] = tree[p]
    BY <1>2, Frame DEF Same
  <2>2. tree'[req[r].dst] = tree[req[r].dst]
    BY <1>0, <2>1, DstInZone
  <2>3. \A p \in Paths : Parent(p) = req[r].dst => tree'[p] = tree[p]
    BY <1>0, <2>1, WritersEnds DEF Zone
  <2>4. \A p \in Paths : p # req[r].dst /\ IsPrefix(req[r].dst, p) <=> Parent(p) = req[r].dst
    BY <1>0, PrefixOfPath, ParentOfPath, Called
  <2>5. Children(tree', req[r].dst) = Children(tree, req[r].dst)
    BY <2>3, <2>4 DEF Children
  <2>6. \A p \in Children(tree, req[r].dst) : tree'[p] = tree[p]
    BY <2>3, <2>4 DEF Children
  <2>8. Entries(tree', req[r].dst) = Entries(tree, req[r].dst)
    BY <2>5, <2>6, SameEntries
  <2> QED BY <2>2, <2>8
<1>3. Part(r) # None /\ r # None
  BY PartsApart, ValuesAssumption DEF Contents
<1>4. pc'[r] = "write" => tree'[req'[r].dst] = Part(r)
  BY <1>0, <1>1, <1>3 DEF Acks
<1>5. pc'[r] \in {"dst", "write"} /\ req'[r].op = "Copy" => want'[r] # None /\ want'[r] # Part(r)
  BY <1>0 DEF Acks
<1>6. pc'[r] = "meta" => tree'[req'[r].dst] = r
  BY <1>0, <1>1, <1>3 DEF Acks
<1>7. pc'[r] = "infos" =>
      tree'[req'[r].dst] = Dir /\ left'[r] \cup listed'[r] = Entries(tree', req'[r].dst)
  <2>1. pc[r] = "infos" => req[r].op \in FromNothing
    BY DEF ControlInv, Step, FromNothing, Lookups
  <2> QED BY <1>0, <1>2, <2>1 DEF Acks
<1>8. ASSUME res'[r] = "ok" PROVE Effect(r)'
  <2>0. Effect(r)
    BY <1>0, <1>8 DEF Acks
  <2>1. req[r].op \in OneDst \cup SrcDst
    BY <1>0, Called
  <2>2. req[r].op \in FromNothing \/ tree[req[r].dst] # None
    BY <1>3, <2>0, <2>1, ValuesAssumption, EffectNeeds
  <2>3. tree'[req[r].dst] = tree[req[r].dst]
    BY <1>1, <1>2, <2>2
  <2>4. req[r].op = "List" => Entries(tree', req[r].dst) = Entries(tree, req[r].dst)
    BY <1>2 DEF FromNothing, Lookups
  <2> QED BY <1>0, <2>0, <2>1, <2>3, <2>4, EffectStays
<1>9. res'[r] = "isdir" => tree'[req'[r].dst] = Dir
  BY <1>0, <1>1, ValuesAssumption DEF Acks
<1>10. res'[r] = "notfound" /\ req'[r].op \in Lookups => tree'[req'[r].dst] = None
  BY <1>0, <1>2 DEF Acks, FromNothing
<1> QED BY <1>4, <1>5, <1>6, <1>7, <1>8, <1>9, <1>10 DEF Acks

\* The answer's step and result.
LEMMA ReplyOf ==
  ASSUME TypeInv, NEW r \in Requests, NEW status, Reply(r, status)
  PROVE  /\ pc'[r] = "done"
         /\ \/ res'[r] = "error"
            \/ res'[r] = status /\ status \in {"ok", "denied", "notfound", "isdir"}
            \/ res'[r] = "ok" /\ status = "conflict" /\ req[r].op = "Mkdir"
BY Replied DEF TypeInv, Results

\* A missing path is answered with not found or an error.
LEMMA MissingReply ==
  ASSUME TypeInv, NEW r \in Requests, NEW p, Reply(r, Missing(p))
  PROVE  pc'[r] = "done" /\ res'[r] \in {"error", "notfound"}
<1>1. Missing(p) \in {"notfound", "failed"}
  BY Statuses
<1> QED BY <1>1, ReplyOf

\* The step a handler goes to.
LEMMA GotoStep ==
  ASSUME TypeInv, NEW r \in Requests, NEW step, Goto(r, step)
  PROVE  pc'[r] = step /\ res'[r] = res[r]
BY Zenon DEF Goto, TypeInv

\* A step that claims nothing has nothing to keep.
LEMMA QuietAck ==
  ASSUME NEW r, pc'[r] \notin {"dst", "write", "meta", "infos"},
         res'[r] = "ok" => Effect(r)', res'[r] # "isdir",
         res'[r] = "notfound" => req'[r].op \notin Lookups
  PROVE  Acks(r)'
BY DEF Acks

\* Nor has one that goes on without having read or written.
LEMMA GotoAck ==
  ASSUME TypeInv, NEW r \in Requests, NEW step, step \notin {"dst", "write", "meta", "infos"},
         Goto(r, step), res[r] = "none"
  PROVE  Acks(r)'
<1>1. pc'[r] = step /\ res'[r] = "none"
  BY GotoStep
<1> QED BY <1>1 DEF Acks

\* A success keeps its promise if the effect is there.
LEMMA OkAck ==
  ASSUME TypeInv, NEW r \in Requests, Reply(r, "ok"), Effect(r)'
  PROVE  Acks(r)'
<1>1. pc'[r] = "done" /\ res'[r] \in {"ok", "error"}
  BY ReplyOf
<1> QED BY <1>1 DEF Acks

\* An error promises nothing.
LEMMA ErrorAck ==
  ASSUME TypeInv, NEW r \in Requests, NEW status, Reply(r, status),
         \/ status \in {"failed", "throttled", "denied"}
         \/ status = "conflict" /\ req[r].op # "Mkdir"
  PROVE  Acks(r)'
<1>1. pc'[r] = "done" /\ res'[r] \in {"error", "denied"}
  BY ReplyOf
<1> QED BY <1>1 DEF Acks

\* Not found promises only a lookup that nothing is there.
LEMMA MissingAck ==
  ASSUME TypeInv, NEW r \in Requests, NEW p, Reply(r, Missing(p)),
         req'[r].op \in Lookups => tree'[req'[r].dst] = None
  PROVE  Acks(r)'
<1>1. pc'[r] = "done" /\ res'[r] \in {"error", "notfound"}
  BY MissingReply
<1> QED BY <1>1 DEF Acks

\* r's own handler answers a success only once the effect is there (the
\* handlers of ops.go and handleFileUpload).
LEMMA AcksOwn ==
  ASSUME TypeInv, TypeInv', ControlInv, PartInv, NEW r \in Requests, pc[r] # "idle", Acks(r),
         Serve(r), UNCHANGED listed
  PROVE  Acks(r)'
<1>0. /\ req'[r] = req[r] /\ req[r].dst \in Paths /\ res[r] = "none"
      /\ ~Call(r) /\ ~CallForeign(r)
  <2>1. ~Call(r) /\ ~CallForeign(r)
    BY Zenon DEF Call, CallForeign
  <2>2. pc[r] # "done" /\ req' = req
    BY <2>1, ServesCalled
  <2> QED BY <2>1, <2>2, Called, Zenon DEF ControlInv, Step
<1>1. CASE Arrive(r)
  <2>1. CASE Reply(r, "throttled") \/ Reply(r, "denied")
    BY <2>1, ErrorAck
  <2>2. ASSUME NEW step \in {"stat", "parents", "act"}, Goto(r, step) PROVE Acks(r)'
    BY <1>0, <2>2, GotoAck
  <2> QED BY <1>1, <2>1, <2>2 DEF Arrive
<1>2. CASE Stat(r)
  <2>0. req[r].op = "DirMove"
    BY <1>2, Zenon DEF Stat, ControlInv, Step
  <2>1. CASE Reply(r, "conflict")
    BY <2>0, <2>1, ErrorAck
  <2>2. CASE Goto(r, "parents")
    BY <1>0, <2>2, GotoAck
  <2> QED BY <1>2, <2>1, <2>2, Zenon DEF Stat
<1>3. CASE Parents(r)
  <2>1. CASE Reply(r, "failed")
    BY <2>1, ErrorAck
  <2>2. CASE Goto(r, "act")
    BY <1>0, <2>2, GotoAck
  <2> QED BY <1>3, <2>1, <2>2, Zenon DEF Parents
<1>4. CASE Mkdir(r)
  <2>0. req[r].op = "Mkdir"
    BY <1>4 DEF Mkdir
  <2>1. CASE Reply(r, "ok") /\ tree'[req[r].dst] = Dir
    <3>1. Effect(r)'
      BY <1>0, <2>0, <2>1, EffectThen, Zenon
    <3> QED BY <2>1, <3>1, OkAck
  <2>2. CASE Reply(r, Missing(req[r].dst)) \/ Reply(r, "failed")
    BY <1>0, <2>0, <2>2, MissingAck, ErrorAck DEF Lookups
  <2> QED BY <1>0, <1>4, <2>1, <2>2 DEF Mkdir, TypeInv
<1>5. CASE RemoveFile(r)
  <2>0. req[r].op = "Remove"
    BY <1>5 DEF RemoveFile
  <2>1. CASE Reply(r, "ok") /\ tree'[req[r].dst] = None
    <3>1. Effect(r)'
      BY <1>0, <2>0, <2>1, EffectThen, Zenon
    <3> QED BY <2>1, <3>1, OkAck
  <2>2. CASE Reply(r, Missing(req[r].dst)) \/ Reply(r, "conflict")
    BY <1>0, <2>0, <2>2, MissingAck, ErrorAck DEF Lookups
  <2> QED BY <1>0, <1>5, <2>1, <2>2, Zenon DEF RemoveFile, Unlink, TypeInv
<1>6. CASE RemoveAll(r)
  <2>0. req[r].op = "Rmdir"
    BY <1>6, Zenon DEF RemoveAll
  <2>1. CASE Reply(r, "ok") /\ tree'[req[r].dst] = None
    <3>1. Effect(r)'
      BY <1>0, <2>0, <2>1, EffectThen
    <3> QED BY <2>1, <3>1, OkAck
  <2>2. CASE Reply(r, "failed")
    BY <2>2, ErrorAck
  <2>3. CASE Goto(r, "entries")
    BY <1>0, <2>3, GotoAck
  <2> QED BY <1>0, <1>6, <2>1, <2>2, <2>3 DEF RemoveAll, Unlink, TypeInv
<1>7. CASE RemoveEntry(r)
  BY <1>0, <1>7, QuietAck DEF RemoveEntry
<1>8. CASE RemoveSelf(r)
  <2>0. req[r].op = "Rmdir"
    BY <1>8 DEF RemoveSelf, ControlInv, Step
  <2>1. CASE Reply(r, "ok") /\ tree'[req[r].dst] = None
    <3>1. Effect(r)'
      BY <1>0, <2>0, <2>1, EffectThen
    <3> QED BY <2>1, <3>1, OkAck
  <2>2. CASE Reply(r, "failed") \/ Reply(r, "conflict")
    BY <2>0, <2>2, ErrorAck
  <2>3. tree[req[r].dst] = Dir \/ tree[req[r].dst] = None \/ IsFile(tree[req[r].dst])
    BY DEF IsFile
  <2>4. None # Dir
    BY ValuesAssumption
  <2> QED BY <1>0, <1>8, <2>1, <2>2, <2>3, <2>4 DEF RemoveSelf, IsFile, TypeInv
<1>9. CASE OpenSource(r)
  <2>0. req[r].op = "Copy" /\ pc[r] = "act" /\ req[r].src \in Paths
    BY <1>9, Called DEF OpenSource, SrcDst
  <2>1. CASE Reply(r, Missing(req[r].src))
    BY <1>0, <2>0, <2>1, MissingAck DEF Lookups
  <2>2. CASE tree[req[r].src] # None /\ Goto(r, "dst") /\ want'[r] = tree[req[r].src]
    <3>1. pc'[r] = "dst" /\ res'[r] = "none"
      BY <1>0, <2>2, GotoStep, Zenon DEF TypeInv
    <3>2. want'[r] # None /\ want'[r] # Part(r)
      BY <2>0, <2>2 DEF PartInv
    <3> QED BY <3>1, <3>2 DEF Acks
  <2> QED BY <1>9, <2>1, <2>2, Zenon DEF OpenSource, TypeInv
<1>10. CASE OpenDest(r)
  <2>0. req[r].op \in {"Put", "Copy"} /\ want' = want
    BY <1>10, Zenon DEF OpenDest, ControlInv, Step
  <2>1. CASE Reply(r, "failed") \/ Reply(r, Missing(req[r].dst))
    BY <1>0, <2>0, <2>1, MissingAck, ErrorAck DEF Lookups
  <2>2. CASE tree' = [tree EXCEPT ![req[r].dst] = Part(r)] /\ Goto(r, "write")
    <3>1. pc'[r] = "write" /\ res'[r] = "none" /\ tree'[req'[r].dst] = Part(r)
      BY <1>0, <2>2, GotoStep, Zenon DEF TypeInv
    <3>2. req[r].op = "Copy" => pc[r] = "dst"
      BY <1>10 DEF OpenDest
    <3>3. req'[r].op = "Copy" => want'[r] # None /\ want'[r] # Part(r)
      BY <1>0, <2>0, <3>2, Zenon DEF Acks
    <3> QED BY <3>1, <3>3, Zenon DEF Acks
  <2> QED BY <1>10, <2>1, <2>2, Zenon DEF OpenDest
<1>11. CASE Write(r)
  <2>0. /\ pc[r] = "write" /\ req[r].op \in {"Put", "Copy"} /\ want' = want
        /\ tree'[req[r].dst] = IF req[r].op = "Put" THEN r ELSE want[r]
    BY <1>0, <1>11, Zenon DEF Write, Acks, ControlInv, Step
  <2>1. CASE req[r].op = "Put"
    <3>1. pc'[r] = "meta" /\ res'[r] = "none" /\ tree'[req'[r].dst] = r
      BY <1>0, <1>11, <2>0, <2>1, GotoStep, Zenon DEF Write
    <3> QED BY <3>1 DEF Acks
  <2>2. CASE req[r].op = "Copy"
    <3>1. Reply(r, "ok")
      BY <1>11, <2>2, Zenon DEF Write
    <3>2. want[r] # None
      BY <2>0, <2>2, Zenon DEF Acks
    <3>3. Effect(r)'
      BY <1>0, <2>0, <2>2, <3>2, EffectThen, Zenon
    <3> QED BY <3>1, <3>3, OkAck
  <2> QED BY <2>0, <2>1, <2>2
<1>12. CASE WriteFails(r) \/ SizeMismatch(r)
  <2>1. Reply(r, "failed")
    BY <1>12, Zenon DEF WriteFails, SizeMismatch
  <2> QED BY <2>1, ErrorAck
<1>13. CASE Meta(r)
  <2>0. pc[r] = "meta" /\ req[r].op = "Put" /\ tree' = tree /\ tree[req[r].dst] = r
    BY <1>13, Zenon DEF Meta, ControlInv, Step, Acks
  <2>1. Effect(r)'
    BY <1>0, <2>0, EffectThen, Zenon
  <2>2. Reply(r, "ok") \/ Reply(r, Missing(req[r].dst))
    BY <1>13, Zenon DEF Meta
  <2> QED BY <1>0, <2>0, <2>1, <2>2, MissingAck, OkAck DEF Lookups
<1>14. CASE Lstat(r)
  <2>0. req[r].op \in {"Move", "DirMove"}
    BY <1>14 DEF Lstat
  <2>1. CASE Reply(r, "conflict") \/ Reply(r, Missing(req[r].src))
    BY <1>0, <2>0, <2>1, MissingAck, ErrorAck DEF Lookups
  <2>2. CASE Goto(r, "rename")
    BY <1>0, <2>2, GotoAck
  <2> QED BY <1>14, <2>1, <2>2, Zenon DEF Lstat
<1>15. CASE Rename(r)
  <2> DEFINE st == RenameStatus(req[r].src, req[r].dst)
  <2>0. req[r].op \in {"Move", "DirMove"} /\ req[r].src \in Paths /\ Reply(r, st)
    BY <1>15, Called, Zenon DEF Rename, ControlInv, Step, SrcDst
  <2>1. st = "ok" => tree'[req[r].dst] = tree[req[r].src] /\ want'[r] = tree[req[r].src]
    BY <1>0, <1>15, <2>0, RenamedAt DEF Rename, TypeInv
  <2>2. st \in {"notfound", "failed", "conflict", "ok"} /\ (st = "ok" => tree[req[r].src] # None)
    BY Statuses, Zenon
  <2> HIDE DEF st
  <2>3. st = "ok" => Effect(r)'
    BY <1>0, <2>0, <2>1, <2>2, EffectThen, Zenon
  <2> QED BY <1>0, <2>0, <2>2, <2>3, ReplyOf, QuietAck DEF Lookups
<1>16. CASE ReadMetadata(r)
  <2>0. req[r].op = "NewObject" /\ tree' = tree
    BY <1>16 DEF ReadMetadata
  <2>1. CASE Reply(r, "ok") /\ IsFile(tree[req[r].dst])
    <3>1. Effect(r)'
      BY <1>0, <2>0, <2>1, EffectThen, Zenon
    <3> QED BY <2>1, <3>1, OkAck
  <2>2. CASE Reply(r, "isdir") /\ tree[req[r].dst] = Dir
    <3>1. pc'[r] = "done" /\ res'[r] \in {"isdir", "error"} /\ tree'[req'[r].dst] = Dir
      BY <1>0, <2>0, <2>2, ReplyOf
    <3> QED BY <3>1 DEF Acks
  <2>3. CASE Reply(r, Missing(req[r].dst)) /\ tree[req[r].dst] = None
    BY <1>0, <2>0, <2>3, MissingAck
  <2> QED BY <1>16, <2>1, <2>2, <2>3 DEF ReadMetadata, NewObject, IsFile
<1>17. CASE ReadDir(r)
  <2>0. req[r].op = "List" /\ tree' = tree /\ listed[r] = {}
    BY <1>17, Zenon DEF ReadDir, ControlInv, Step
  <2>1. CASE tree[req[r].dst] = Dir /\ Goto(r, "infos") /\ left'[r] = Entries(tree, req[r].dst)
    <3>1. pc'[r] = "infos" /\ res'[r] = "none"
      BY <1>0, <2>1, GotoStep, Zenon
    <3>2. left'[r] \cup listed'[r] = Entries(tree', req'[r].dst)
      BY <1>0, <2>0, <2>1, Zenon
    <3> QED BY <1>0, <2>0, <2>1, <3>1, <3>2, Zenon DEF Acks
  <2>2. CASE Reply(r, Missing(req[r].dst)) /\ tree[req[r].dst] = None
    BY <1>0, <2>0, <2>2, MissingAck
  <2>3. CASE Reply(r, "failed")
    BY <2>3, ErrorAck
  <2> QED BY <1>17, <2>1, <2>2, <2>3 DEF ReadDir, Entries, TypeInv
<1>18. CASE Listed(r)
  <2>0. /\ req[r].op = "List" /\ tree' = tree /\ Reply(r, "ok") /\ tree[req[r].dst] = Dir
        /\ listed[r] = Entries(tree, req[r].dst)
    BY <1>18, Zenon DEF Listed, ControlInv, Step, Acks
  <2>1. Effect(r)'
    BY <1>0, <2>0, EffectThen, Zenon
  <2> QED BY <2>0, <2>1, OkAck
<1> QED
  BY Zenon, <1>0, <1>1, <1>2, <1>3, <1>4, <1>5, <1>6, <1>7, <1>8, <1>9, <1>10, <1>11, <1>12, <1>13,
     <1>14, <1>15, <1>16, <1>17, <1>18 DEF Serve

\* A call that the Fs takes up.
LEMMA CallOf ==
  ASSUME NEW r, Call(r)
  PROVE  \E q \in Inputs :
            /\ req' = [req EXCEPT ![r] = q]
            /\ was' = [was EXCEPT ![r] = tree[q.dst]]
            /\ IF mode = "fs" /\ q.op \notin Lookups
               THEN pc' = [pc EXCEPT ![r] = "done"] /\ res' = [res EXCEPT ![r] = "denied"]
               ELSE Goto(r, "sent")
BY Zenon DEF Call

\* A transfer whose source belongs to another Fs.
LEMMA CallForeignOf ==
  ASSUME NEW r, CallForeign(r)
  PROVE  \E q \in Inputs : /\ req' = [req EXCEPT ![r] = q]
                          /\ was' = [was EXCEPT ![r] = tree[q.dst]]
BY Zenon DEF CallForeign

\* One entry of a listing.
LEMMA InfoOf ==
  ASSUME NEW r, Info(r)
  PROVE  \E e \in left[r] :
            /\ left' = [left EXCEPT ![r] = @ \ {e}]
            /\ listed' = IF tree[Append(req[r].dst, e[1])] = None THEN listed
                         ELSE [listed EXCEPT ![r] = @ \cup {e}]
BY Zenon DEF Info

\* A call finds its destination as it is, and is answered only if it is denied.
LEMMA WhenCalledHere ==
  ASSUME TypeInv, ControlInv, NEW r \in Requests, Call(r)
  PROVE  /\ pc'[r] \in {"sent", "done"} /\ res'[r] \in {"none", "denied"}
         /\ tree' = tree /\ was'[r] = tree[req'[r].dst]
<1>0. res[r] = "none" /\ tree' = tree
  BY Zenon DEF ControlInv, Step, Call
<1>1. PICK q \in Inputs :
        /\ req' = [req EXCEPT ![r] = q]
        /\ was' = [was EXCEPT ![r] = tree[q.dst]]
        /\ IF mode = "fs" /\ q.op \notin Lookups
           THEN pc' = [pc EXCEPT ![r] = "done"] /\ res' = [res EXCEPT ![r] = "denied"]
           ELSE Goto(r, "sent")
  BY CallOf
<1>2. was'[r] = tree[req'[r].dst]
  BY <1>1 DEF TypeInv
<1>3. CASE Goto(r, "sent")
  BY <1>0, <1>2, <1>3, GotoStep
<1>4. CASE pc' = [pc EXCEPT ![r] = "done"] /\ res' = [res EXCEPT ![r] = "denied"]
  BY <1>0, <1>2, <1>4 DEF TypeInv
<1> QED BY <1>1, <1>3, <1>4

\* A transfer whose source belongs to another Fs is declined at once.
LEMMA WhenCalledForeign ==
  ASSUME TypeInv, ControlInv, NEW r \in Requests, CallForeign(r)
  PROVE  /\ pc'[r] = "done" /\ res'[r] \in {"denied", "cant"}
         /\ tree' = tree /\ was'[r] = tree[req'[r].dst]
<1>1. PICK q \in Inputs :
        /\ req' = [req EXCEPT ![r] = q]
        /\ was' = [was EXCEPT ![r] = tree[q.dst]]
  BY CallForeignOf
<1>2. pc'[r] = "done" /\ res'[r] \in {"denied", "cant"} /\ tree' = tree
  BY DEF CallForeign, TypeInv
<1> QED BY <1>1, <1>2 DEF TypeInv

\* A request starts with its destination recorded.
LEMMA WhenCalled ==
  ASSUME TypeInv, ControlInv, NEW r \in Requests, Call(r) \/ CallForeign(r)
  PROVE  /\ pc'[r] \in {"sent", "done"} /\ res'[r] \in {"none", "denied", "cant"}
         /\ tree' = tree /\ was'[r] = tree[req'[r].dst]
BY WhenCalledHere, WhenCalledForeign

\* A transfer checks and opens its source before it touches its destination.
LEMMA HarmlessOwn ==
  ASSUME TypeInv, TypeInv', ControlInv, ControlInv', NEW r \in Requests, pc[r] # "idle",
         Harmless(r), Serve(r)
  PROVE  Harmless(r)'
<1>0. /\ req'[r] = req[r] /\ was'[r] = was[r] /\ req[r].dst \in Paths /\ pc[r] # "done"
      /\ ~Call(r) /\ ~CallForeign(r)
  <2>1. ~Call(r) /\ ~CallForeign(r)
    BY DEF Call, CallForeign
  <2> QED BY <2>1, ServesCalled, Called
<1> SUFFICES ASSUME req[r].op \in SrcDst, was[r] # None,
                    pc'[r] \in Untouched \/ res'[r] \in {"notfound", "denied", "cant"}
             PROVE  tree'[req[r].dst] = was[r]
  BY <1>0 DEF Harmless
<1>1. pc[r] = "write" => FALSE
  <2> SUFFICES ASSUME pc[r] = "write" PROVE FALSE
    OBVIOUS
  <2>1. req[r].op = "Copy"
    BY Zenon DEF ControlInv, Step, SrcDst
  <2>2. Reply(r, "ok") \/ Reply(r, "failed")
    BY <2>1, StepsAt DEF StepAt, Write, WriteFails, SizeMismatch
  <2> QED BY <2>2, ReplyOf DEF Untouched
<1>2. pc[r] \in Untouched /\ tree[req[r].dst] = was[r]
  <2>1. pc[r] \in Untouched
    BY <1>0, <1>1 DEF ControlInv, Step, SrcDst, TypeInv, Untouched
  <2> QED BY <2>1, Zenon DEF Harmless
<1> SUFFICES tree'[req[r].dst] = tree[req[r].dst]
  BY <1>2, Zenon
<1>3. CASE \E p \in Paths : MakesAt(r, p)
  <2>0. PICK p \in Paths : MakesAt(r, p)
    BY <1>3
  <2>1. tree' = [tree EXCEPT ![p] = Dir] /\ p = Parent(req[r].dst)
    BY <2>0, Zenon DEF MakesAt, SrcDst
  <2>2. p # req[r].dst
    BY <1>0, <2>1, ParentOfPath, Zenon
  <2> QED BY <1>0, <2>1, <2>2 DEF TypeInv
<1>4. CASE \E p \in Paths : RemovesAt(r, p)
  BY <1>2, <1>4 DEF RemovesAt, SrcDst, Untouched
<1>5. CASE OpensDst(r)
  <2>1. pc'[r] = "write"
    BY <1>5 DEF OpensDst, TypeInv
  <2>2. res'[r] = "none"
    BY <2>1 DEF ControlInv, Step
  <2> QED BY <2>1, <2>2 DEF Untouched
<1>6. CASE Write(r)
  BY <1>1, <1>6, Zenon DEF Write
<1>7. CASE Moves(r)
  <2> DEFINE st == RenameStatus(req[r].src, req[r].dst)
  <2>1. pc[r] = "rename"
    BY <1>7 DEF Moves
  <2>2. Rename(r)
    BY <2>1, StepsAt, Zenon DEF StepAt
  <2>3. Reply(r, st) /\ (st # "ok" => tree' = tree)
    BY <2>2, Zenon DEF Rename
  <2> HIDE DEF st
  <2>4. st # "ok"
    BY <2>3, ReplyOf, Zenon DEF Untouched
  <2> QED BY <2>3, <2>4
<1> QED BY <1>3, <1>4, <1>5, <1>6, <1>7, TreeSteps, Zenon DEF TreeStep

\* A DirMove passes its stat only where nothing is (applySrcDstOp).
LEMMA OntoOwn ==
  ASSUME TypeInv, TypeInv', ControlInv, ControlInv', NEW r \in Requests, pc[r] # "idle",
         Onto(r), Serve(r)
  PROVE  Onto(r)'
<1>0. /\ req' = req /\ was'[r] = was[r] /\ pc[r] # "done" /\ res[r] = "none"
  <2>1. ~Call(r) /\ ~CallForeign(r)
    BY DEF Call, CallForeign
  <2> QED BY <2>1, ServesCalled, Zenon DEF ControlInv, Step
<1> SUFFICES ASSUME req[r].op = "DirMove", NoMkdir(r)
             PROVE  /\ pc'[r] \in {"sent", "stat"} => tree'[req[r].dst] = was[r]
                    /\ pc'[r] \in {"parents", "act", "rename"} \/ res'[r] = "ok" => was[r] = None
  BY <1>0, Zenon DEF Onto, NoMkdir
<1>1. CASE pc[r] = "sent"
  <2>1. tree' = tree /\ tree[req[r].dst] = was[r]
    BY <1>1, StepsAt DEF StepAt, Arrive, Onto
  <2>2. \/ Reply(r, "throttled") \/ Reply(r, "denied") \/ Goto(r, "stat")
    <3>1. req[r].op \in SrcDst \ OverwriteExisting
      BY DEF SrcDst, OverwriteExisting
    <3> QED BY <1>1, <3>1, StepsAt DEF StepAt, Arrive, SrcDst, OverwriteExisting
  <2>3. \/ pc'[r] = "done" /\ res'[r] # "ok"
        \/ pc'[r] = "stat" /\ res'[r] = "none"
    <3>1. CASE Reply(r, "throttled") \/ Reply(r, "denied")
      BY <3>1, ReplyOf
    <3>2. CASE Goto(r, "stat")
      BY <1>0, <3>2, GotoStep
    <3> QED BY <2>2, <3>1, <3>2, Zenon
  <2> QED BY <2>1, <2>3
<1>2. CASE pc[r] = "stat"
  <2>1. tree[req[r].dst] = was[r]
    BY <1>2 DEF Onto
  <2>2. Reply(r, "conflict") \/ (Goto(r, "parents") /\ was[r] = None)
    BY <1>2, <2>1, StepsAt, Zenon DEF StepAt, Stat
  <2>3. \/ pc'[r] = "done" /\ res'[r] # "ok"
        \/ pc'[r] = "parents" /\ was[r] = None
    <3>1. CASE Reply(r, "conflict")
      BY <3>1, ReplyOf
    <3>2. CASE Goto(r, "parents") /\ was[r] = None
      BY <3>2, GotoStep
    <3> QED BY <2>2, <3>1, <3>2, Zenon
  <2> QED BY <2>3
<1>3. CASE pc[r] \in {"parents", "act", "rename"}
  <2>1. was[r] = None
    BY <1>3 DEF Onto
  <2>2. pc[r] = "parents" => Parents(r)
    BY StepsAt, Zenon DEF StepAt
  <2>3. pc[r] = "act" => Lstat(r)
    <3>1. ~Mkdir(r) /\ ~RemoveFile(r) /\ ~RemoveAll(r) /\ ~OpenSource(r)
      BY DEF Mkdir, RemoveFile, RemoveAll, OpenSource
    <3>2. ~ReadMetadata(r) /\ ~ReadDir(r) /\ (pc[r] = "act" => ~OpenDest(r))
      BY Zenon DEF ReadMetadata, ReadDir, OpenDest
    <3> QED BY <3>1, <3>2, StepsAt, Zenon DEF StepAt
  <2>4. pc[r] = "rename" => Rename(r)
    BY StepsAt, Zenon DEF StepAt
  <2>5. \/ Goto(r, "act") \/ Goto(r, "rename") \/ \E st : Reply(r, st)
    BY <1>3, <2>2, <2>3, <2>4 DEF Parents, Lstat, Rename
  <2>6. pc'[r] \notin {"sent", "stat"}
    BY <2>5, ReplyOf, GotoStep
  <2> QED BY <2>1, <2>6
<1> QED BY <1>0, <1>1, <1>2, <1>3 DEF ControlInv, Step, TypeInv

\* What others do leaves the destination of an uncontested transfer alone.
LEMMA HarmlessByOthers ==
  ASSUME TypeInv, ControlInv, NEW r \in Requests, Uncontested(r), Apart(r), Harmless(r),
         NEW s \in Requests \ {r}, Serve(s)
  PROVE  Harmless(r)'
<1>0. /\ pc'[r] = pc[r] /\ req'[r] = req[r] /\ res'[r] = res[r] /\ was'[r] = was[r]
      /\ pc[r] # "idle"
  BY OthersWait, Zenon DEF Uncontested, ControlInv, Step
<1>1. tree[req[r].dst] # None => tree'[req[r].dst] = tree[req[r].dst]
  BY <1>0, DstInZone, Frame, Zenon DEF Same
<1> QED BY <1>0, <1>1 DEF Harmless

\* And that of an uncontested DirMove, when nobody makes directories by name.
LEMMA OntoByOthers ==
  ASSUME TypeInv, ControlInv, NEW r \in Requests, Uncontested(r), Apart(r), Onto(r),
         NEW s \in Requests \ {r}, Serve(s)
  PROVE  Onto(r)'
<1>0. /\ pc'[r] = pc[r] /\ req'[r] = req[r] /\ res'[r] = res[r] /\ was'[r] = was[r]
      /\ pc[r] # "idle"
  BY OthersWait DEF Uncontested, ControlInv, Step
<1> SUFFICES ASSUME req[r].op = "DirMove", NoMkdir(r)' PROVE Onto(r)'
  BY <1>0, Zenon DEF Onto
<1>1. NoMkdir(r)
  BY RequestStays DEF NoMkdir
<1>2. tree'[req[r].dst] = tree[req[r].dst]
  <2>1. pc[s] = "idle" => tree' = tree
    BY StepsAt, Zenon DEF StepAt, Call, CallForeign
  <2>2. pc[s] # "idle" => req[s].op # "Mkdir"
    BY <1>1, Called, Zenon DEF NoMkdir
  <2>3. Same(r, req[r].dst, s)
    BY <1>0, DstInZone, Frame, Zenon
  <2> QED BY <2>1, <2>2, <2>3 DEF Same
<1> QED BY <1>0, <1>1, <1>2, Zenon DEF Onto

\* Every handler keeps what uncontested requests rely on.
LEMMA AloneByServe ==
  ASSUME TypeInv, TypeInv', ControlInv, ControlInv', HeldInv, PartInv, AloneInv,
         NEW s \in Requests, Serve(s), UNCHANGED listed
  PROVE  AloneInv'
<1> SUFFICES ASSUME NEW r \in Requests, Uncontested(r)'
             PROVE  Apart(r)' /\ Acks(r)' /\ Harmless(r)' /\ Onto(r)'
  BY DEF AloneInv
<1>1. Apart(r)'
  BY ApartHolds DEF AloneInv
<1>2. CASE req[r] = None
  <2>1. r = s /\ pc[r] = "idle"
    BY <1>2, OthersWait DEF Uncontested, ControlInv, Step
  <2>2. /\ pc'[r] \in {"sent", "done"} /\ res'[r] \in {"none", "denied", "cant"}
        /\ tree' = tree /\ was'[r] = tree[req'[r].dst]
    BY <2>1, StepsAt, WhenCalled, Zenon DEF StepAt
  <2>3. Acks(r)'
    BY <2>2, QuietAck, Zenon
  <2>4. Harmless(r)'
    BY <2>2 DEF Harmless
  <2>5. Onto(r)'
    BY <2>2 DEF Onto
  <2> QED BY <1>1, <2>3, <2>4, <2>5, Zenon
<1>3. CASE req[r] # None
  <2>1. Uncontested(r) /\ pc[r] # "idle"
    BY <1>3, UncontestedBefore, Zenon DEF ControlInv, Step
  <2>2. Apart(r) /\ Acks(r) /\ Harmless(r) /\ Onto(r)
    BY <2>1 DEF AloneInv
  <2>3. CASE s = r
    BY <1>1, <2>1, <2>2, <2>3, AcksOwn, HarmlessOwn, OntoOwn
  <2>4. CASE s # r
    BY <1>1, <2>1, <2>2, <2>4, AcksByOthers, HarmlessByOthers, OntoByOthers
  <2> QED BY <2>3, <2>4
<1> QED BY <1>2, <1>3

\* An entry that was read is still there when its info is asked for, in an uncontested
\* directory (List).
LEMMA InfoAcks ==
  ASSUME TypeInv, ControlInv, NEW r \in Requests, Acks(r), Info(r)
  PROVE  Acks(r)'
<1>0. /\ pc[r] = "infos" /\ pc'[r] = "infos" /\ req'[r] = req[r] /\ tree' = tree /\ res'[r] = "none"
      /\ req[r].dst \in Paths
  BY Called, Zenon DEF Info, ControlInv, Step
<1>1. tree[req[r].dst] = Dir /\ left[r] \cup listed[r] = Entries(tree, req[r].dst)
  BY <1>0, Zenon DEF Acks
<1>2. PICK e \in left[r] :
          /\ left' = [left EXCEPT ![r] = @ \ {e}]
          /\ listed' = IF tree[Append(req[r].dst, e[1])] = None THEN listed
                       ELSE [listed EXCEPT ![r] = @ \cup {e}]
  BY InfoOf
<1>3. tree[Append(req[r].dst, e[1])] # None
  <2>1. e \in Entries(tree, req[r].dst)
    BY <1>1
  <2>2. PICK p \in Children(tree, req[r].dst) : e = <<Last(p), Kind(tree[p])>>
    BY <2>1, Zenon DEF Entries
  <2>3. p \in Paths /\ Parent(p) = req[r].dst /\ tree[p] # None
    BY <1>0, ChildrenOf
  <2>4. Append(req[r].dst, Last(p)) = p
    BY <1>0, <2>3, NameOfEntry
  <2>5. Append(req[r].dst, e[1]) = p
    BY <2>2, <2>4
  <2> QED BY <2>3, <2>5
<1>4. left'[r] = left[r] \ {e} /\ listed'[r] = listed[r] \cup {e}
  BY <1>2, <1>3, Zenon DEF TypeInv
<1>5. left'[r] \cup listed'[r] = Entries(tree', req'[r].dst)
  BY <1>0, <1>1, <1>4
<1> QED BY <1>0, <1>1, <1>5, Zenon DEF Acks

\* So does every entry of a listing.
LEMMA AloneByInfo ==
  ASSUME TypeInv, ControlInv, AloneInv, NEW s \in Requests, Info(s)
  PROVE  AloneInv'
<1>0. UNCHANGED <<tree, mode, req, pc, res, held, want, was>>
  BY DEF Info
<1> SUFFICES ASSUME NEW r \in Requests, Uncontested(r)'
             PROVE  Apart(r)' /\ Acks(r)' /\ Harmless(r)' /\ Onto(r)'
  BY DEF AloneInv
<1>1. Uncontested(r)
  BY <1>0 DEF Uncontested, Contests
<1>2. Apart(r) /\ Acks(r) /\ Harmless(r) /\ Onto(r)
  BY <1>1, Zenon DEF AloneInv
<1>3. Apart(r)'
  BY <1>0, <1>2 DEF Apart, Zone, Ends
<1>4. Harmless(r)'
  BY <1>0, <1>2, Zenon DEF Harmless
<1>5. Onto(r)'
  BY <1>0, <1>2 DEF Onto, NoMkdir
<1>6. CASE r = s
  BY <1>2, <1>3, <1>4, <1>5, <1>6, InfoAcks
<1>7. CASE r # s
  <2>1. left'[r] = left[r] /\ listed'[r] = listed[r]
    BY <1>7, InfoOf DEF TypeInv
  <2>2. Effect(r) => Effect(r)'
    <3>1. req[r].op \in OneDst \cup SrcDst
      BY <1>1, Called DEF Uncontested, ControlInv, Step
    <3> QED BY <1>0, <2>1, <3>1, EffectStays, Zenon
  <2>3. Acks(r)'
    BY <1>0, <1>2, <2>1, <2>2, Zenon DEF Acks
  <2> QED BY <1>3, <1>4, <1>5, <2>3
<1> QED BY <1>6, <1>7

\* Nothing changes when no handler moves.
LEMMA StutterHolds ==
  ASSUME HeldInv, PartInv, AloneInv, UNCHANGED vars
  PROVE  HeldInv' /\ PartInv' /\ AloneInv'
<1> USE DEF vars
<1>1. HeldInv'
  BY DEF HeldInv, Writer, Ends
<1>2. PartInv'
  BY DEF PartInv, Placed, Writer, Ends
<1>3. AloneInv'
  <2> SUFFICES ASSUME NEW r \in Requests, Uncontested(r)'
               PROVE  Apart(r)' /\ Acks(r)' /\ Harmless(r)' /\ Onto(r)'
    BY DEF AloneInv
  <2>1. Uncontested(r)
    BY DEF Uncontested, Contests
  <2>2. Apart(r) /\ Acks(r) /\ Harmless(r) /\ Onto(r)
    BY <2>1, Zenon DEF AloneInv
  <2>3. Apart(r)'
    BY <2>2 DEF Apart, Zone, Ends
  <2>4. Effect(r)' <=> Effect(r)
    BY DEF Effect
  <2>5. Acks(r)'
    BY <2>2, <2>4, Zenon DEF Acks
  <2>6. Harmless(r)' /\ Onto(r)'
    BY <2>2, Zenon DEF Harmless, Onto, NoMkdir
  <2> QED BY <2>3, <2>5, <2>6
<1> QED BY <1>1, <1>2, <1>3

\* The invariant holds before any request.
LEMMA NamespaceInit == Init => IInv
<1> SUFFICES ASSUME Init PROVE IInv
  OBVIOUS
<1> USE DEF Init
<1>1. TypeInv
  BY DEF TypeInv, InitTrees, Nodes
<1>2. ControlInv
  BY DEF ControlInv, Step
<1>3. ReadOnlyInv /\ HeldInv
  BY DEF ReadOnlyInv, HeldInv
<1>4. PartInv
  <2>1. ASSUME NEW s \in Requests, NEW p \in Paths PROVE tree[p] # Part(s)
    BY PartsApart DEF InitTrees
  <2>2. ASSUME NEW s \in Requests, NEW y \in Requests PROVE want[y] # Part(s)
    BY PartsApart
  <2> QED BY <2>1, <2>2 DEF PartInv
<1>5. AloneInv
  BY DEF AloneInv, Uncontested
<1> QED BY <1>1, <1>2, <1>3, <1>4, <1>5 DEF IInv

\* Every step keeps it.
LEMMA NamespaceNext == IInv /\ [Next]_vars => IInv'
<1> SUFFICES ASSUME IInv, [Next]_vars PROVE IInv'
  OBVIOUS
<1>0. TypeInv /\ ControlInv /\ ReadOnlyInv /\ HeldInv /\ PartInv /\ AloneInv
  BY DEF IInv
<1>1. TypeInv' /\ ControlInv' /\ ReadOnlyInv'
  BY <1>0, TypeHolds, ControlHolds, ReadOnlyHolds
<1>2. CASE UNCHANGED vars
  BY <1>0, <1>1, <1>2, StutterHolds DEF IInv
<1>3. ASSUME NEW s \in Requests, Serve(s), UNCHANGED listed PROVE IInv'
  <2>1. HeldInv' /\ PartInv'
    BY <1>0, <1>3, HeldHolds, PartHolds
  <2>2. AloneInv'
    BY <1>0, <1>1, <1>3, AloneByServe
  <2> QED BY <1>1, <2>1, <2>2 DEF IInv
<1>4. ASSUME NEW s \in Requests, Info(s) PROVE IInv'
  <2>0. UNCHANGED <<tree, mode, req, pc, res, held, want, was>>
    BY <1>4 DEF Info
  <2>1. HeldInv' /\ PartInv'
    BY <1>0, <2>0, Zenon DEF HeldInv, PartInv, Placed, Writer, Ends
  <2>2. AloneInv'
    BY <1>0, <1>4, AloneByInfo
  <2> QED BY <1>1, <2>1, <2>2 DEF IInv
<1> QED BY <1>2, <1>3, <1>4 DEF Next

\* IInv is an inductive invariant of the namespace operations.
THEOREM NamespaceInductive == Spec => []IInv
BY NamespaceInit, NamespaceNext, PTL DEF Spec

\* A method of the Fs that returned nil has had its effect and still has it, for any number
\* of requests and paths, unless a request for the same paths contests it.
THEOREM AcksHold == Spec => []AckedHolds
<1>1. IInv => AckedHolds
  BY Zenon DEF IInv, AloneInv, Acks, AckedHolds
<1> QED BY <1>1, NamespaceInductive, PTL

\* An uncontested transfer that was told "not found" or refused has left what was at its
\* destination (copyFileContents opens the source before it truncates).
THEOREM RefusalsHarmless == Spec => []RefusedIsHarmless
<1>1. IInv => RefusedIsHarmless
  BY Zenon DEF IInv, AloneInv, Harmless, RefusedIsHarmless
<1> QED BY <1>1, NamespaceInductive, PTL

\* An uncontested DirMove that succeeded found nothing at its destination, when nobody else
\* made directories (applySrcDstOp).
THEOREM DirMoveFindsNothing == Spec => []DirMoveOntoNothing
<1>1. IInv => DirMoveOntoNothing
  BY DEF IInv, AloneInv, Onto, NoMkdir, DirMoveOntoNothing
<1> QED BY <1>1, NamespaceInductive, PTL

\* No step changes the tree of a read-only mount.
LEMMA InertStep == IInv /\ [Next]_vars => [mode # "rw" => UNCHANGED tree]_vars
<1> SUFFICES ASSUME IInv, Next, mode # "rw" PROVE tree' = tree
  BY DEF vars
<1>0. TypeInv /\ ControlInv /\ ReadOnlyInv
  BY DEF IInv
<1>1. ASSUME NEW s \in Requests, Info(s) PROVE tree' = tree
  BY <1>1 DEF Info
<1>2. ASSUME NEW s \in Requests, Serve(s) PROVE tree' = tree
  <2>1. pc[s] \in {"idle", "done", "sent"} \/ req[s].op \in Lookups
    BY <1>0 DEF ReadOnlyInv
  <2>2. CASE pc[s] \in {"idle", "done", "sent"}
    BY <1>2, <2>2, StepsAt DEF StepAt, Call, CallForeign, Arrive
  <2>3. CASE req[s].op \in Lookups
    <3>1. pc[s] \in {"idle", "sent", "act", "infos", "done"}
      BY <1>0, <2>3, Zenon DEF TypeInv, ControlInv, Step, Lookups, SrcDst
    <3>2. ASSUME NEW p \in Paths PROVE ~MakesAt(s, p) /\ ~RemovesAt(s, p)
      BY <2>3, <3>1, Zenon DEF MakesAt, RemovesAt, Lookups
    <3>3. ~OpensDst(s) /\ ~Write(s) /\ ~Moves(s)
      BY <2>3, <3>1 DEF OpensDst, Write, Moves, Lookups
    <3> QED BY <1>0, <1>2, <3>2, <3>3, TreeSteps DEF TreeStep
  <2> QED BY <2>1, <2>2, <2>3
<1> QED BY <1>1, <1>2 DEF Next

\* A read-only Fs or scope never sees its tree change (Fs.readOnly, authorize).
THEOREM ReadOnlyInert == Spec => ReadOnlyIsInert
BY InertStep, NamespaceInductive, PTL DEF Spec, ReadOnlyIsInert
=============================================================================
