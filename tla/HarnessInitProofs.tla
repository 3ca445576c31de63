-------------------------- MODULE HarnessInitProofs --------------------------
(***************************************************************************)
(* Proofs about HarnessInit, for any services, TTLs and number of runs.    *)
(* The marker is the last file of a run and the first leaf its first leaf: *)
(* a marker that was not overtaken by a cut issue says the files are of one*)
(* run, and of the leaves of one run the first expires first.              *)
(***************************************************************************)
EXTENDS HarnessInit, SequenceTheorems, TLAPS

\* The number of services.
L == Len(Services)

\* Where each file is in the order of writing.
LEMMA OrderIs ==
  /\ Len(Order) = 2 * L + 5 /\ L \in Nat \ {0}
  /\ Order[1] = CA
  /\ \A i \in Leaves : Order[2 * i] = Cert(i) /\ Order[2 * i + 1] = Key(i)
  /\ Order[2 * L + 2] = CPKey /\ Order[2 * L + 3] = CredKey
  /\ Order[2 * L + 4] = Tokens /\ Order[2 * L + 5] = Marker
<1> DEFINE S == {CA, CPKey, CredKey, Tokens, Marker}
                  \cup {Cert(i) : i \in Leaves} \cup {Key(i) : i \in Leaves}
           A == <<CA>>
           B == [j \in 1..(2 * L) |-> IF j % 2 = 1 THEN Cert((j + 1) \div 2) ELSE Key(j \div 2)]
           C == <<CPKey, CredKey, Tokens, Marker>>
<1>0. L \in Nat \ {0}
  BY InitAssumption DEF L
<1>1. A \in Seq(S) /\ Len(A) = 1 /\ A[1] = CA
  OBVIOUS
<1>2. C \in Seq(S) /\ Len(C) = 4 /\ C[1] = CPKey /\ C[2] = CredKey /\ C[3] = Tokens /\ C[4] = Marker
  OBVIOUS
<1>3. B \in Seq(S) /\ Len(B) = 2 * L
  <2>1. ASSUME NEW j \in 1..(2 * L) PROVE B[j] \in S
    <3>1. CASE j % 2 = 1
      <4>1. (j + 1) \div 2 \in Leaves
        BY <1>0, <3>1 DEF Leaves, L
      <4> QED BY <3>1, <4>1
    <3>2. CASE j % 2 # 1
      <4>1. j \div 2 \in Leaves
        BY <1>0, <3>2 DEF Leaves, L
      <4> QED BY <3>2, <4>1
    <3> QED BY <3>1, <3>2
  <2>2. 2 * L \in Nat
    BY <1>0
  <2>3. B = [j \in 1..(2 * L) |-> B[j]]
    OBVIOUS
  <2> HIDE DEF S, B
  <2>4. B \in [1..(2 * L) -> S]
    BY <2>1, <2>3
  <2> QED BY <2>2, <2>4
<1>4. \A i \in Leaves : /\ 2 * i - 1 \in 1..(2 * L) /\ B[2 * i - 1] = Cert(i)
                         /\ 2 * i \in 1..(2 * L) /\ B[2 * i] = Key(i)
  BY <1>0 DEF Leaves, L
<1>5. Order = A \o B \o C
  BY DEF Order, L
<1> HIDE DEF S, A, B, C
<1>6. /\ A \o B \in Seq(S) /\ Len(A \o B) = 2 * L + 1 /\ (A \o B)[1] = CA
      /\ \A j \in 1..(2 * L) : (A \o B)[j + 1] = B[j]
  <2>1. /\ A \o B \in Seq(S) /\ Len(A \o B) = Len(A) + Len(B)
        /\ \A k \in 1..(Len(A) + Len(B)) : (A \o B)[k] = IF k <= Len(A) THEN A[k] ELSE B[k - Len(A)]
    BY <1>1, <1>3, ConcatProperties, Zenon
  <2>2. \A k \in 1..(1 + 2 * L) : (A \o B)[k] = IF k <= 1 THEN A[k] ELSE B[k - 1]
    BY <1>1, <1>3, <2>1
  <2>3. ASSUME NEW j \in 1..(2 * L) PROVE (A \o B)[j + 1] = B[j]
    <3>1. j + 1 \in 1..(1 + 2 * L) /\ ~(j + 1 <= 1) /\ (j + 1) - 1 = j
      BY <1>0
    <3> QED BY <2>2, <3>1, Zenon
  <2>4. (A \o B)[1] = CA
    BY <1>0, <1>1, <2>2
  <2> QED BY <1>0, <1>1, <1>3, <2>1, <2>3, <2>4
<1>7. /\ Len(Order) = 2 * L + 5
      /\ \A j \in 1..(2 * L + 1) : Order[j] = (A \o B)[j]
      /\ \A j \in 1..4 : Order[2 * L + 1 + j] = C[j]
  <2> DEFINE D == A \o B
  <2>0. D \in Seq(S) /\ Len(D) = 2 * L + 1 /\ Order = D \o C
    BY <1>5, <1>6
  <2> HIDE DEF D
  <2>1. /\ Len(D \o C) = Len(D) + Len(C)
        /\ \A k \in 1..(Len(D) + Len(C)) : (D \o C)[k] = IF k <= Len(D) THEN D[k] ELSE C[k - Len(D)]
    BY <1>2, <2>0, ConcatProperties, Zenon
  <2>2. \A k \in 1..(2 * L + 5) : Order[k] = IF k <= 2 * L + 1 THEN D[k] ELSE C[k - (2 * L + 1)]
    BY <1>0, <1>2, <2>0, <2>1
  <2>3. \A j \in 1..(2 * L + 1) : Order[j] = D[j]
    BY <1>0, <2>2
  <2>4. \A j \in 1..4 : Order[2 * L + 1 + j] = C[j]
    BY <1>0, <2>2
  <2>5. Len(Order) = 2 * L + 5
    BY <1>0, <1>2, <2>0, <2>1
  <2> QED BY <2>3, <2>4, <2>5, Zenon DEF D
<1>8. Order[1] = CA
  BY <1>0, <1>6, <1>7
<1>9. ASSUME NEW i \in Leaves PROVE Order[2 * i] = Cert(i) /\ Order[2 * i + 1] = Key(i)
  <2>1. i \in Nat /\ i >= 1 /\ i <= L
    BY <1>0 DEF Leaves, L
  <2>2. (A \o B)[2 * i] = B[2 * i - 1] /\ (A \o B)[2 * i + 1] = B[2 * i]
    <3>1. 2 * i - 1 \in 1..(2 * L) /\ (2 * i - 1) + 1 = 2 * i /\ 2 * i \in 1..(2 * L)
      BY <1>0, <2>1
    <3>2. \A j \in 1..(2 * L) : (A \o B)[j + 1] = B[j]
      BY <1>6
    <3>3. (A \o B)[(2 * i - 1) + 1] = B[2 * i - 1] /\ (A \o B)[2 * i + 1] = B[2 * i]
      BY <3>1, <3>2, Zenon
    <3> QED BY <3>1, <3>3, Zenon
  <2>3. 2 * i \in 1..(2 * L + 1) /\ 2 * i + 1 \in 1..(2 * L + 1)
    BY <1>0, <2>1
  <2> QED BY <1>4, <1>7, <2>2, <2>3, Zenon
<1>10. /\ Order[2 * L + 2] = C[1] /\ Order[2 * L + 3] = C[2]
       /\ Order[2 * L + 4] = C[3] /\ Order[2 * L + 5] = C[4]
  BY <1>0, <1>7
<1> QED BY <1>0, <1>2, <1>7, <1>8, <1>9, <1>10

\* No two places hold the same file.
LEMMA OrderInjective ==
  ASSUME NEW i \in 1..Len(Order), NEW j \in 1..Len(Order), Order[i] = Order[j]
  PROVE  i = j
<1> DEFINE Fixed == {CA, CPKey, CredKey, Tokens, Marker}
<1>0. L \in Nat \ {0} /\ Len(Order) = 2 * L + 5
  BY OrderIs
<1>1. \A k, l \in Leaves :
        /\ Cert(k) \notin Fixed /\ Key(k) \notin Fixed /\ Cert(k) # Key(l)
        /\ Cert(k) = Cert(l) => k = l
        /\ Key(k) = Key(l) => k = l
  BY InitAssumption DEF Cert, Key, CA, CPKey, CredKey, Tokens, Marker, Leaves
<1>2. /\ CA # CPKey /\ CA # CredKey /\ CA # Tokens /\ CA # Marker /\ CPKey # CredKey
      /\ CPKey # Tokens /\ CPKey # Marker /\ CredKey # Tokens /\ CredKey # Marker /\ Tokens # Marker
  BY DEF CA, CPKey, CredKey, Tokens, Marker
<1>3. ASSUME NEW k \in 1..Len(Order)
      PROVE  \/ k \in {1, 2 * L + 2, 2 * L + 3, 2 * L + 4, 2 * L + 5}
             \/ \E l \in Leaves : k = 2 * l \/ k = 2 * l + 1
  <2>1. CASE k >= 2 /\ k <= 2 * L + 1 /\ k % 2 = 0
    <3>1. k \div 2 \in Leaves /\ k = 2 * (k \div 2)
      BY <1>0, <2>1 DEF Leaves, L
    <3> QED BY <3>1
  <2>2. CASE k >= 2 /\ k <= 2 * L + 1 /\ k % 2 # 0
    <3>1. k \div 2 \in Leaves /\ k = 2 * (k \div 2) + 1
      BY <1>0, <2>2 DEF Leaves, L
    <3> QED BY <3>1
  <2> QED BY <1>0, <2>1, <2>2
<1>4. ASSUME NEW k \in 1..Len(Order)
      PROVE  \/ k \in {1, 2 * L + 2, 2 * L + 3, 2 * L + 4, 2 * L + 5} /\ Order[k] \in Fixed
             \/ \E l \in Leaves : k = 2 * l /\ Order[k] = Cert(l)
             \/ \E l \in Leaves : k = 2 * l + 1 /\ Order[k] = Key(l)
  BY <1>3, OrderIs
<1>5. CASE Order[i] \in Fixed
  <2>1. \A k \in 1..Len(Order) :
          Order[k] \in Fixed => k \in {1, 2 * L + 2, 2 * L + 3, 2 * L + 4, 2 * L + 5}
    BY <1>1, <1>4
  <2>2. /\ i \in {1, 2 * L + 2, 2 * L + 3, 2 * L + 4, 2 * L + 5}
        /\ j \in {1, 2 * L + 2, 2 * L + 3, 2 * L + 4, 2 * L + 5}
    BY <1>5, <2>1
  <2>3. ASSUME NEW k \in {1, 2 * L + 2, 2 * L + 3, 2 * L + 4, 2 * L + 5}
        PROVE  /\ Order[k] = CA => k = 1
               /\ Order[k] = CPKey => k = 2 * L + 2
               /\ Order[k] = CredKey => k = 2 * L + 3
               /\ Order[k] = Tokens => k = 2 * L + 4
               /\ Order[k] = Marker => k = 2 * L + 5
    BY <1>2, OrderIs
  <2> QED BY <1>5, <2>2, <2>3
<1>6. ASSUME NEW k \in Leaves, i = 2 * k, Order[i] = Cert(k) PROVE i = j
  <2>1. PICK l \in Leaves : j = 2 * l /\ Order[j] = Cert(l)
    BY <1>1, <1>4, <1>6
  <2> QED BY <1>1, <1>6, <2>1
<1>7. ASSUME NEW k \in Leaves, i = 2 * k + 1, Order[i] = Key(k) PROVE i = j
  <2>1. PICK l \in Leaves : j = 2 * l + 1 /\ Order[j] = Key(l)
    BY <1>1, <1>4, <1>7
  <2> QED BY <1>1, <1>7, <2>1
<1> QED BY <1>4, <1>5, <1>6, <1>7

\* The types the proof needs.
HTypes ==
    /\ disk \in [Files -> [gen : Int, exp : Int]] /\ now \in Nat /\ gen \in 0..MaxRuns
    /\ pc \in {"off", "issue", "ok", "failed"} /\ at \in 1..Len(Order) /\ opened \in BOOLEAN
    /\ held \in Int /\ left \in BOOLEAN /\ began \in Int /\ cut \in BOOLEAN

\* What has been written of the set is of this run, up to the file at hand.
Written ==
    pc = "issue" => /\ ~left /\ gen > 0
                    /\ \A j \in 1..Len(Order) :
                          /\ j < at => disk[Order[j]].gen = gen
                          /\ j >= at => disk[Order[j]].gen < gen

\* Between runs: a marker says the set is of one run, unless an issue was cut short.
Rests ==
    /\ \A f \in Files : disk[f].gen <= gen /\ (disk[f].gen = -1 => disk[f] = Missing)
    /\ pc # "issue" => ~opened /\ at = 1
    /\ pc = "ok" => disk[Marker].gen # -1
    /\ pc # "issue" /\ ~cut /\ disk[Marker].gen # -1 =>
         disk[Marker].gen > 0 /\ \A f \in Files : disk[f].gen = disk[Marker].gen

\* Of the leaves of one run, the first expires first.
FirstExpiresFirst ==
    /\ disk[Cert(1)].gen > 0 => disk[Cert(1)].exp <= now + CertTTL
    /\ \A i \in Leaves :
          disk[Cert(1)].gen > 0 /\ disk[Cert(i)].gen = disk[Cert(1)].gen =>
              disk[Cert(1)].exp <= disk[Cert(i)].exp
    /\ opened => \A i \in Leaves :
          Order[at] = Cert(i) => held <= now + CertTTL /\ (i # 1 => disk[Cert(1)].exp <= held)

\* The inductive invariant.
HInv == HTypes /\ Written /\ Rests /\ FirstExpiresFirst /\ LeftIsValid

\* The files are the places of the order; the marker has the last one, the first leaf
\* the second, and no leaf is the tokens.
LEMMA PlaceOf ==
  /\ \A j \in 1..Len(Order) : Order[j] \in Files
  /\ \A f \in Files : \E j \in 1..Len(Order) : f = Order[j]
  /\ Len(Order) \in Nat /\ {1, 2, Len(Order)} \subseteq 1..Len(Order)
  /\ Marker = Order[Len(Order)] /\ Marker \in Files /\ Tokens \in Files
  /\ 1 \in Leaves /\ Cert(1) = Order[2] /\ Cert(1) \in Files
  /\ \A i \in Leaves : /\ i \in Nat /\ i >= 1 /\ 2 * i \in 1..Len(Order) /\ Cert(i) = Order[2 * i]
                       /\ Cert(i) \in Files /\ Cert(i) # Tokens
<1>1. \A j \in 1..Len(Order) : Order[j] \in Files
  BY DEF Files
<1>2. \A f \in Files : \E j \in 1..Len(Order) : f = Order[j]
  BY DEF Files
<1>3. /\ L \in Nat /\ L >= 1 /\ Len(Order) = 2 * L + 5
      /\ Order[2 * L + 5] = Marker /\ Order[2 * L + 4] = Tokens
  BY OrderIs
<1>4. /\ 1 \in 1..Len(Order) /\ 2 \in 1..Len(Order) /\ 2 * L + 4 \in 1..Len(Order)
      /\ 2 * L + 5 \in 1..Len(Order)
  BY <1>3
<1>5. ASSUME NEW i \in Leaves
      PROVE  /\ i \in Nat /\ i >= 1 /\ 2 * i \in 1..Len(Order) /\ Cert(i) = Order[2 * i]
             /\ Cert(i) \in Files /\ Cert(i) # Tokens
  <2>1. i \in Nat /\ i >= 1 /\ i <= L
    BY <1>3 DEF Leaves, L
  <2>2. 2 * i \in 1..Len(Order) /\ 2 * i # 2 * L + 4
    BY <1>3, <2>1
  <2>3. Cert(i) = Order[2 * i]
    BY OrderIs
  <2>4. Cert(i) # Tokens
    BY <1>3, <1>4, <2>2, <2>3, OrderInjective
  <2> QED BY <1>1, <2>1, <2>2, <2>3, <2>4
<1>6. 1 \in Leaves /\ 2 * 1 = 2
  BY <1>3 DEF Leaves, L
<1>7. Cert(1) = Order[2] /\ Cert(1) \in Files
  BY <1>5, <1>6
<1>8. Marker = Order[Len(Order)] /\ Marker \in Files /\ Tokens \in Files
  BY <1>1, <1>3, <1>4
<1> QED BY <1>1, <1>2, <1>3, <1>4, <1>5, <1>6, <1>7, <1>8

\* Two services have two leaves.
LEMMA CertInjective ==
  ASSUME NEW i \in Leaves, NEW k \in Leaves, Cert(i) = Cert(k) PROVE i = k
<1>1. /\ i \in Nat /\ 2 * i \in 1..Len(Order) /\ Cert(i) = Order[2 * i]
      /\ k \in Nat /\ 2 * k \in 1..Len(Order) /\ Cert(k) = Order[2 * k]
  BY PlaceOf, Zenon
<1>2. 2 * i = 2 * k
  BY <1>1, OrderInjective, Zenon
<1> QED BY <1>1, <1>2

\* The invariant holds of an empty volume.
LEMMA HarnessInitial == Init => HInv
<1> SUFFICES ASSUME Init PROVE HInv
  OBVIOUS
<1>1. HTypes
  <2>1. 1 \in 1..Len(Order)
    BY PlaceOf
  <2>2. Missing \in [gen : Int, exp : Int]
    BY DEF Missing
  <2>3. now \in Nat /\ gen \in 0..MaxRuns /\ held \in Int /\ began \in Int /\ at \in 1..Len(Order)
    BY <2>1, InitAssumption DEF Init
  <2>4. disk \in [Files -> [gen : Int, exp : Int]]
    BY <2>2 DEF Init
  <2> QED BY <2>3, <2>4, Zenon DEF Init, HTypes
<1>2. \A f \in Files : disk[f] = Missing
  BY DEF Init
<1>3. pc = "off" /\ ~opened /\ at = 1 /\ gen = 0
  BY DEF Init
<1>4. Written /\ LeftIsValid
  BY <1>3 DEF Written, LeftIsValid
<1>5. Rests /\ FirstExpiresFirst
  BY <1>2, <1>3, PlaceOf DEF Rests, FirstExpiresFirst, Missing
<1> QED BY <1>1, <1>4, <1>5 DEF HInv

\* What expires in time does so at any later time.
LEMMA Later ==
  ASSUME NEW a \in Nat, NEW b \in Nat, b >= a, NEW c \in Nat, NEW x \in Int, x <= a + c
  PROVE  x <= b + c
OBVIOUS

\* A run that is refused, the next one, and time touch no file.
LEMMA Waits == ASSUME HInv, Refuse \/ Again \/ Tick PROVE HInv'
<1> USE DEF HInv
<1>0. /\ UNCHANGED <<disk, gen, at, opened, held, left, began, cut>>
      /\ now' \in Nat /\ now' >= now
      /\ pc' = pc \/ (pc # "issue" /\ pc' \in {"off", "failed"})
  BY DEF Refuse, Again, Tick, HTypes
<1>1. HTypes'
  BY <1>0 DEF HTypes
<1>2. Written' /\ Rests' /\ LeftIsValid'
  BY <1>0 DEF Written, Rests, LeftIsValid
<1>3. FirstExpiresFirst'
  <2>1. \A x \in Int : x <= now + CertTTL => x <= now' + CertTTL
    <3>1. now \in Nat /\ now' \in Nat /\ now' >= now /\ CertTTL \in Nat
      BY <1>0, InitAssumption DEF HTypes
    <3> QED BY <3>1, Later, Zenon
  <2>2. disk[Cert(1)].exp \in Int /\ held \in Int
    BY PlaceOf DEF HTypes
  <2> QED BY <1>0, <2>1, <2>2 DEF FirstExpiresFirst
<1> QED BY <1>1, <1>2, <1>3

\* What expires no earlier than a valid artifact is valid.
LEMMA StillValid ==
  ASSUME NEW a \in Int, NEW b \in Int, NEW t \in Int, NEW n \in Nat, a <= b, a - t >= n
  PROVE  b - t >= n
OBVIOUS

\* A set that is left in place is of one run, so its first leaf speaks for the others
\* (needsReissue).
LEMMA LeavesValid == ASSUME HInv, LeaveInPlace PROVE HInv'
<1> USE DEF HInv
<1>0. /\ pc = "off" /\ pc' = "ok" /\ left' /\ began' = now /\ ~NeedsReissue
      /\ UNCHANGED <<disk, now, gen, at, opened, held, cut>>
  BY DEF LeaveInPlace
<1>1. HTypes'
  BY <1>0 DEF HTypes
<1>2. disk[Marker].gen # -1
  BY <1>0, PlaceOf DEF NeedsReissue, Rests
<1>3. Written' /\ Rests' /\ FirstExpiresFirst'
  BY <1>0, <1>2 DEF Written, Rests, FirstExpiresFirst
<1>4. ASSUME ~cut, RenewBefore > 0, NEW f \in {Tokens} \cup {Cert(i) : i \in Leaves}
      PROVE  disk[f].exp - now >= RenewBefore
  <2>1. ASSUME NEW g \in {Cert(1), Tokens}
        PROVE  Readable(g) /\ disk[g].exp - now >= RenewBefore /\ disk[g].exp \in Int
    <3>1. g \in Files
      BY PlaceOf
    <3>2. Readable(g) /\ ~Expiring(g)
      BY <1>0, <1>4, <2>1 DEF NeedsReissue
    <3>3. disk[g].exp \in Int /\ now \in Int /\ RenewBefore \in Int
      BY <3>1, InitAssumption DEF HTypes
    <3> QED BY <3>2, <3>3 DEF Expiring
  <2>2. CASE f = Tokens
    BY <2>1, <2>2
  <2>3. ASSUME NEW i \in Leaves, f = Cert(i) PROVE disk[f].exp - now >= RenewBefore
    <3>1. Cert(i) \in Files /\ Cert(1) \in Files
      BY PlaceOf
    <3>2. disk[Cert(i)].gen = disk[Marker].gen /\ disk[Cert(1)].gen = disk[Marker].gen
      BY <1>0, <1>2, <1>4, <3>1 DEF Rests
    <3>3. disk[Cert(1)].gen > 0
      BY <2>1 DEF Readable
    <3>4. disk[Cert(1)].exp <= disk[Cert(i)].exp
      BY <3>2, <3>3 DEF FirstExpiresFirst
    <3>5. disk[Cert(1)].exp - now >= RenewBefore
      BY <2>1
    <3>6. disk[Cert(i)].exp \in Int /\ disk[Cert(1)].exp \in Int /\ now \in Int
      BY <3>1 DEF HTypes
    <3>7. disk[Cert(i)].exp - now >= RenewBefore
      BY <3>4, <3>5, <3>6, InitAssumption, StillValid
    <3> QED BY <2>3, <3>7, Zenon
  <2> QED BY <2>2, <2>3
<1>5. LeftIsValid'
  BY <1>0, <1>4 DEF LeftIsValid
<1> QED BY <1>1, <1>3, <1>5

\* A run that issues begins with no file of its own.
LEMMA Reissues == ASSUME HInv, Reissue PROVE HInv'
<1> USE DEF HInv
<1>0. /\ pc = "off" /\ pc' = "issue" /\ ~left' /\ began' = now /\ gen' = gen + 1 /\ at' = 1
      /\ gen < MaxRuns /\ UNCHANGED <<disk, now, opened, held, cut>>
  BY DEF Reissue
<1>1. HTypes'
  <2>1. gen' \in 0..MaxRuns /\ at' \in 1..Len(Order) /\ began' \in Int
    BY <1>0, PlaceOf, InitAssumption DEF HTypes
  <2>2. left' \in BOOLEAN
    BY Zenon DEF Reissue
  <2> QED BY <1>0, <2>1, <2>2 DEF HTypes
<1>2. \A f \in Files : disk[f].gen <= gen /\ disk[f].gen \in Int /\ gen \in Nat
  BY DEF Rests, HTypes
<1>3. Written'
  BY <1>0, <1>2, PlaceOf DEF Written
<1>4. Rests'
  BY <1>0, <1>2 DEF Rests
<1>5. FirstExpiresFirst' /\ LeftIsValid'
  BY <1>0 DEF FirstExpiresFirst, LeftIsValid, Rests
<1> QED BY <1>1, <1>3, <1>4, <1>5

\* The expiry a leaf about to be written gets.
LEMMA HeldIs ==
  ASSUME HInv, Truncate, NEW i \in Leaves, Order[at] = Cert(i)
  PROVE  held' = now + CertTTL
BY PlaceOf DEF Truncate

\* A truncated file is of no run, and a leaf issued after the first expires no earlier.
LEMMA Truncates == ASSUME HInv, Truncate PROVE HInv'
<1> USE DEF HInv
<1>0. /\ pc = "issue" /\ ~opened /\ opened' = TRUE /\ disk' = [disk EXCEPT ![Order[at]] = Torn]
      /\ UNCHANGED <<now, gen, pc, at, left, began, cut>>
  BY DEF Truncate
<1>1. /\ at \in 1..Len(Order) /\ Order[at] \in Files /\ gen \in Nat /\ gen > 0
      /\ disk \in [Files -> [gen : Int, exp : Int]]
  BY <1>0, PlaceOf DEF HTypes, Written
<1>2. \A f \in Files : disk'[f] = IF f = Order[at] THEN Torn ELSE disk[f]
  BY <1>0, <1>1
<1>3. HTypes'
  <2>1. held' \in Int
    <3>1. now + WeakTokenTTL \in Int /\ now + CertTTL \in Int
      BY InitAssumption DEF HTypes, WeakTokenTTL
    <3> QED BY <3>1 DEF Truncate
  <2>2. Torn \in [gen : Int, exp : Int]
    BY DEF Torn
  <2>3. disk' \in [Files -> [gen : Int, exp : Int]]
    BY <1>0, <1>1, <2>2
  <2> QED BY <1>0, <2>1, <2>3 DEF HTypes
<1>4. Written'
  <2>1. ASSUME NEW j \in 1..Len(Order)
        PROVE  /\ j < at => disk'[Order[j]].gen = gen
               /\ j >= at => disk'[Order[j]].gen < gen
    <3>1. Order[j] \in Files /\ j \in Int /\ at \in Int
      BY <1>1, PlaceOf
    <3>2. j < at => Order[j] # Order[at]
      BY <1>1, <3>1, OrderInjective
    <3>3. Torn.gen < gen
      BY <1>1 DEF Torn
    <3> QED BY <1>0, <1>2, <3>1, <3>2, <3>3 DEF Written
  <2> QED BY <1>0, <1>1, <2>1 DEF Written
<1>5. Rests'
  <2>1. \A f \in Files : disk'[f].gen <= gen /\ (disk'[f].gen = -1 => disk'[f] = Missing)
    BY <1>1, <1>2 DEF Rests, Torn
  <2> QED BY <1>0, <2>1 DEF Rests
<1>6. FirstExpiresFirst'
  <2>1. now \in Nat /\ CertTTL \in Nat /\ \A f \in Files : disk[f].exp \in Int /\ disk[f].gen \in Int
    BY InitAssumption DEF HTypes
  <2>2. CASE Order[at] = Cert(1)
    <3>1. disk'[Cert(1)].gen = 0
      BY <1>2, <2>2, PlaceOf DEF Torn
    <3>2. held' = now + CertTTL
      BY <2>2, PlaceOf, HeldIs
    <3>3. held' <= now' + CertTTL
      BY <1>0, <2>1, <3>2
    <3>4. \A i \in Leaves : Order[at] = Cert(i) => i = 1
      BY <2>2, CertInjective, PlaceOf
    <3> QED BY <3>1, <3>3, <3>4, <1>0 DEF FirstExpiresFirst
  <2>3. CASE Order[at] # Cert(1)
    <3>1. disk'[Cert(1)] = disk[Cert(1)]
      BY <1>2, <2>3, PlaceOf
    <3>2. disk[Cert(1)].gen > 0 => disk[Cert(1)].exp <= now + CertTTL
      BY DEF FirstExpiresFirst
    <3>3. ASSUME NEW i \in Leaves, disk[Cert(1)].gen > 0, disk'[Cert(i)].gen = disk[Cert(1)].gen
          PROVE  disk[Cert(1)].exp <= disk'[Cert(i)].exp
      <4>1. Cert(i) \in Files /\ Torn.gen = 0
        BY PlaceOf DEF Torn
      <4>2. disk'[Cert(i)] = disk[Cert(i)]
        BY <1>2, <3>3, <4>1
      <4> QED BY <3>3, <4>2 DEF FirstExpiresFirst
    <3>4. ASSUME NEW i \in Leaves, Order[at] = Cert(i)
          PROVE  disk[Cert(1)].exp <= held' /\ held' <= now + CertTTL
      <4>1. held' = now + CertTTL
        BY <3>4, HeldIs
      <4>2. /\ 2 * i \in 1..Len(Order) /\ Cert(i) = Order[2 * i] /\ i \in Nat /\ i >= 1
            /\ 2 \in 1..Len(Order) /\ Cert(1) = Order[2]
        BY PlaceOf
      <4>3. at = 2 * i
        BY <1>1, <3>4, <4>2, OrderInjective
      <4>4. i # 1
        BY <2>3, <3>4
      <4>5. 2 < at
        BY <4>2, <4>3, <4>4
      <4>6. disk[Cert(1)].gen = gen
        BY <1>0, <4>2, <4>5 DEF Written
      <4> QED BY <1>1, <2>1, <3>2, <4>1, <4>6
    <3> QED BY <1>0, <3>1, <3>2, <3>3, <3>4 DEF FirstExpiresFirst
  <2> QED BY <2>2, <2>3
<1>7. LeftIsValid'
  BY <1>0 DEF LeftIsValid
<1> QED BY <1>3, <1>4, <1>5, <1>6, <1>7

\* An issue that is cut short has not written the marker.
LEMMA CutsShort == ASSUME HInv, CutShort PROVE HInv'
<1> USE DEF HInv
<1>0. /\ pc = "issue" /\ pc' = "failed" /\ opened' = FALSE /\ at' = 1
      /\ cut' = (cut \/ disk[Marker].gen \notin {-1, gen})
      /\ UNCHANGED <<disk, now, gen, held, left, began>>
  BY DEF CutShort, Missing
<1>1. HTypes'
  <2>1. at' \in 1..Len(Order)
    BY <1>0, PlaceOf
  <2>2. cut' \in BOOLEAN
    BY <1>0, Zenon DEF HTypes
  <2> QED BY <1>0, <2>1, <2>2, Zenon DEF HTypes
<1>2. disk[Marker].gen < gen
  <2>1. at \in 1..Len(Order)
    BY DEF HTypes
  <2>2. Len(Order) >= at
    BY <2>1, PlaceOf
  <2> QED BY <1>0, <2>2, PlaceOf DEF Written
<1>3. ~cut' => disk[Marker].gen = -1
  <2>1. disk[Marker].gen # gen
    <3>1. disk[Marker].gen \in Int /\ gen \in Int
      BY PlaceOf DEF HTypes
    <3> QED BY <1>2, <3>1
  <2> QED BY <1>0, <2>1, Zenon
<1>4. Rests'
  BY <1>0, <1>3 DEF Rests
<1>5. Written' /\ FirstExpiresFirst' /\ LeftIsValid'
  BY <1>0 DEF Written, FirstExpiresFirst, LeftIsValid
<1> QED BY <1>1, <1>4, <1>5

\* The last file that is written makes the set whole.
LEMMA Writes == ASSUME HInv, Write PROVE HInv'
<1> USE DEF HInv
<1>0. /\ pc = "issue" /\ opened /\ opened' = FALSE
      /\ disk' = [disk EXCEPT ![Order[at]] = [gen |-> gen, exp |-> held]]
      /\ UNCHANGED <<now, gen, held, left, began>>
  BY DEF Write
<1>1. /\ at \in 1..Len(Order) /\ Len(Order) \in Nat /\ Order[at] \in Files
      /\ gen \in Nat /\ gen > 0 /\ ~left
      /\ disk \in [Files -> [gen : Int, exp : Int]] /\ held \in Int /\ now \in Nat
  BY <1>0, PlaceOf DEF HTypes, Written
<1>2. \A f \in Files : disk'[f] = IF f = Order[at] THEN [gen |-> gen, exp |-> held] ELSE disk[f]
  BY <1>0, <1>1
<1>3. disk' \in [Files -> [gen : Int, exp : Int]]
  <2>1. [gen |-> gen, exp |-> held] \in [gen : Int, exp : Int]
    BY <1>1
  <2> QED BY <1>0, <1>1, <2>1
<1>4. ASSUME NEW j \in 1..Len(Order)
      PROVE  /\ j <= at => disk'[Order[j]].gen = gen
             /\ j > at => disk'[Order[j]].gen < gen
  <2>1. Order[j] \in Files /\ j \in Int /\ at \in Int
    BY <1>1, PlaceOf
  <2>2. CASE j = at
    BY <1>2, <2>1, <2>2
  <2>3. CASE j # at
    <3>1. Order[j] # Order[at]
      BY <1>1, <2>3, OrderInjective
    <3>2. disk'[Order[j]] = disk[Order[j]]
      BY <1>2, <2>1, <3>1
    <3> QED BY <1>0, <2>1, <2>3, <3>2 DEF Written
  <2> QED BY <2>2, <2>3
<1>5. \A f \in Files : disk'[f].gen <= gen /\ (disk'[f].gen = -1 => disk'[f] = Missing)
  BY <1>1, <1>2 DEF Rests
<1>6. FirstExpiresFirst'
  <2>0. CertTTL \in Nat /\ \A f \in Files : disk[f].exp \in Int /\ disk[f].gen \in Int
    BY InitAssumption DEF HTypes
  <2>1. CASE Order[at] = Cert(1)
    <3>1. disk'[Cert(1)].gen = gen /\ disk'[Cert(1)].exp = held
      BY <1>2, <2>1, PlaceOf
    <3>2. held <= now + CertTTL
      BY <1>0, <2>1, PlaceOf DEF FirstExpiresFirst
    <3>3. ASSUME NEW i \in Leaves, disk'[Cert(i)].gen = gen PROVE held <= disk'[Cert(i)].exp
      <4>1. /\ 2 * i \in 1..Len(Order) /\ Cert(i) = Order[2 * i] /\ i \in Nat /\ i >= 1
            /\ 2 \in 1..Len(Order) /\ Cert(1) = Order[2]
        BY PlaceOf
      <4>2. at = 2
        BY <1>1, <2>1, <4>1, OrderInjective
      <4>3. ~(2 * i > at)
        <5>1. 2 * i > at => disk'[Cert(i)].gen < gen
          BY <1>4, <4>1
        <5> QED BY <1>1, <3>3, <5>1
      <4>4. i = 1
        BY <4>1, <4>2, <4>3
      <4> QED BY <1>1, <3>1, <4>4
    <3> QED BY <1>0, <3>1, <3>2, <3>3 DEF FirstExpiresFirst
  <2>2. CASE Order[at] # Cert(1)
    <3>1. disk'[Cert(1)] = disk[Cert(1)] /\ Cert(1) \in Files /\ 1 \in Leaves
      BY <1>2, <2>2, PlaceOf
    <3>2. disk[Cert(1)].gen > 0 => disk[Cert(1)].exp <= now + CertTTL
      BY DEF FirstExpiresFirst
    <3>3. ASSUME NEW i \in Leaves, disk[Cert(1)].gen > 0, disk'[Cert(i)].gen = disk[Cert(1)].gen
          PROVE  disk[Cert(1)].exp <= disk'[Cert(i)].exp
      <4>1. Cert(i) \in Files
        BY PlaceOf
      <4>2. CASE Order[at] = Cert(i)
        <5>1. disk'[Cert(i)].exp = held
          BY <1>2, <4>1, <4>2
        <5>2. i # 1
          BY <2>2, <4>2
        <5> QED BY <1>0, <4>2, <5>1, <5>2 DEF FirstExpiresFirst
      <4>3. CASE Order[at] # Cert(i)
        <5>1. disk'[Cert(i)] = disk[Cert(i)]
          BY <1>2, <4>1, <4>3
        <5> QED BY <3>3, <5>1 DEF FirstExpiresFirst
      <4> QED BY <4>2, <4>3
    <3> QED BY <1>0, <3>1, <3>2, <3>3 DEF FirstExpiresFirst
  <2> QED BY <2>1, <2>2
<1>7. LeftIsValid'
  BY <1>0, <1>1 DEF LeftIsValid
<1>8. CASE at < Len(Order) /\ at' = at + 1 /\ UNCHANGED <<pc, cut>>
  <2>1. HTypes'
    <3>1. at' \in 1..Len(Order)
      BY <1>1, <1>8
    <3> QED BY <1>0, <1>3, <1>8, <3>1, Zenon DEF HTypes
  <2>2. Written'
    <3>1. ASSUME NEW j \in 1..Len(Order)
          PROVE  /\ j < at' => disk'[Order[j]].gen = gen
                 /\ j >= at' => disk'[Order[j]].gen < gen
      BY <1>1, <1>4, <1>8
    <3> QED BY <1>0, <1>1, <1>8, <3>1 DEF Written
  <2>3. Rests'
    BY <1>0, <1>5, <1>8 DEF Rests
  <2> QED BY <1>6, <1>7, <2>1, <2>2, <2>3
<1>9. CASE at = Len(Order) /\ at' = 1 /\ pc' = "ok" /\ cut' = FALSE
  <2>1. HTypes'
    BY <1>0, <1>1, <1>3, <1>9, PlaceOf, Zenon DEF HTypes
  <2>2. Written'
    BY <1>9 DEF Written
  <2>3. \A f \in Files : disk'[f].gen = gen
    BY <1>4, <1>9, PlaceOf
  <2>4. Marker \in Files /\ gen # -1
    BY <1>1, PlaceOf
  <2>5. Rests'
    BY <1>0, <1>1, <1>5, <1>9, <2>3, <2>4 DEF Rests
  <2> QED BY <1>6, <1>7, <2>1, <2>2, <2>5
<1> QED BY <1>8, <1>9, Zenon DEF Write

\* Stuttering keeps the invariant.
LEMMA HarnessStays == ASSUME HInv, UNCHANGED vars PROVE HInv'
<1>1. HTypes' /\ Written'
  BY DEF HInv, vars, HTypes, Written
<1>2. Rests' /\ FirstExpiresFirst' /\ LeftIsValid'
  BY DEF HInv, vars, Rests, FirstExpiresFirst, LeftIsValid
<1> QED BY <1>1, <1>2 DEF HInv

\* The invariant holds throughout, for any number of services and runs.
THEOREM HarnessInductive == Spec => []HInv
<1>1. HInv /\ [Next]_vars => HInv'
  BY Waits, LeavesValid, Reissues, Truncates, Writes, CutsShort, HarnessStays DEF Next
<1> QED BY <1>1, HarnessInitial, PTL DEF Spec

\* After a run that succeeds, the peers read the files of one run, unless an issue was cut
\* short over the marker of an earlier one (run, needsReissue).
THEOREM OneRunForPeers == Spec => []PeersGetOneRun
<1>1. HInv => PeersGetOneRun
  <2> SUFFICES ASSUME HInv, pc = "ok", ~cut PROVE Whole
    BY DEF PeersGetOneRun
  <2>1. disk[Marker].gen > 0 /\ \A f \in Files : disk[f].gen = disk[Marker].gen
    BY DEF HInv, Rests
  <2>2. disk[Marker].gen \in 1..MaxRuns
    BY <2>1, PlaceOf, InitAssumption DEF HInv, HTypes, Rests
  <2> QED BY <2>1, <2>2 DEF Whole
<1> QED BY <1>1, HarnessInductive, PTL

\* A set that is left in place is valid for RenewBefore, every leaf and every token of it,
\* although needsReissue looks at the first leaf and the tokens only.
THEOREM LeftStaysValid == Spec => []LeftIsValid
<1>1. HInv => LeftIsValid
  BY DEF HInv
<1> QED BY <1>1, HarnessInductive, PTL
=============================================================================
