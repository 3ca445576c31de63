----------------------------- MODULE HarnessInit -----------------------------
(***************************************************************************)
(* harness-init, the one-shot that every long-running peer waits for: it   *)
(* leaves the artifacts of an earlier run in place while they are valid    *)
(* and re-issues all of them otherwise.  The artifacts are separate files, *)
(* each written by an os.WriteFile that truncates before it writes, so a   *)
(* run that fails or is killed leaves files of two runs side by side.  The *)
(* shared volume outlives the process, and time passes between any two     *)
(* steps.                                                                  *)
(***************************************************************************)
EXTENDS Integers, Sequences

CONSTANTS Services,     \* serviceNames, in order
          CertTTL,      \* -cert-ttl
          TokenFloor,   \* weakTokenTTL's floor
          RenewBefore,  \* -cert-renew-before
          MaxRuns,      \* bound: how often harness-init is run
          MaxTime       \* bound: the last instant of the clock

ASSUME InitAssumption ==
    /\ Services \in Seq(STRING) /\ Len(Services) > 0
    /\ \A i, j \in 1..Len(Services) : Services[i] = Services[j] => i = j
    /\ CertTTL \in Nat \ {0} /\ TokenFloor \in Nat /\ RenewBefore \in Nat
    /\ MaxRuns \in Nat /\ MaxTime \in Nat

CA      == <<"ca">>
CPKey   == <<"control-plane.signing.key">>
CredKey == <<"exchange.credential.key">>
Tokens  == <<"weak-tokens">>
Marker  == <<"guest-config">>
Cert(i) == <<"cert", Services[i]>>
Key(i)  == <<"key", Services[i]>>

Leaves == 1..Len(Services)

\* Mutant: the signing keys are written after the tokens and the marker.
KeysLast ==
    <<CA>> \o [j \in 1..(2 * Len(Services)) |->
                 IF j % 2 = 1 THEN Cert((j + 1) \div 2) ELSE Key(j \div 2)]
           \o <<Tokens, Marker, CPKey, CredKey>>

\* The files in the order run writes them.
Order ==
    <<CA>> \o [j \in 1..(2 * Len(Services)) |->
                 IF j % 2 = 1 THEN Cert((j + 1) \div 2) ELSE Key(j \div 2)]
           \o <<CPKey, CredKey, Tokens, Marker>>

Files == {Order[j] : j \in 1..Len(Order)}

Missing == [gen |-> -1, exp |-> 0]
Torn    == [gen |-> 0,  exp |-> 0]

VARIABLES
    disk,       \* each file: absent, truncated, or the run it is of and its expiry
    now,
    gen,        \* the number of runs that have begun to issue
    pc,         \* where run() is: off, in, at a file, ok, failed
    at,         \* the file it is at
    opened,     \* has that file been truncated?
    held,       \* expiry of what this run is about to write
    left,       \* did the last run leave the set in place?
    began,      \* when the last run looked at the clock
    cut         \* has an issue been cut short over the marker of another, or in its own?

vars == <<disk, now, gen, pc, at, opened, held, left, began, cut>>

Whole == \E g \in 1..MaxRuns : \A f \in Files : disk[f].gen = g

TypeOK ==
    /\ disk \in [Files -> [gen : -1..MaxRuns, exp : 0..(2 * MaxTime + CertTTL + TokenFloor)]]
    /\ now \in 0..MaxTime /\ gen \in 0..MaxRuns
    /\ pc \in {"off", "issue", "ok", "failed"}
    /\ at \in 1..Len(Order) /\ opened \in BOOLEAN
    /\ held \in Nat /\ left \in BOOLEAN /\ began \in 0..MaxTime /\ cut \in BOOLEAN

Init ==
    /\ disk = [f \in Files |-> Missing]
    /\ now = 0 /\ gen = 0 /\ pc = "off" /\ at = 1 /\ opened = FALSE
    /\ held = 0 /\ left = FALSE /\ began = 0 /\ cut = FALSE

-----------------------------------------------------------------------------
\* weakTokenTTL
WeakTokenTTL == IF CertTTL < TokenFloor THEN TokenFloor ELSE CertTTL

Readable(f) == disk[f].gen > 0

Expiring(f) == disk[f].exp - now < RenewBefore

\* Mutant: the last leaf issued speaks for the set.
NeedsReissueLast ==
    \/ disk[Marker] = Missing
    \/ RenewBefore > 0 /\ \E f \in {Cert(Len(Services)), Tokens} : ~Readable(f) \/ Expiring(f)

\* needsReissue: no marker, or the first leaf or the tokens unreadable or expiring.
NeedsReissue ==
    \/ disk[Marker] = Missing
    \/ RenewBefore > 0 /\ \E f \in {Cert(1), Tokens} : ~Readable(f) \/ Expiring(f)

\* The directory cannot be made, or the marker not be looked at.
Refuse ==
    /\ pc = "off" /\ pc' = "failed"
    /\ UNCHANGED <<disk, now, gen, at, opened, held, left, began, cut>>

LeaveInPlace ==
    /\ pc = "off" /\ ~NeedsReissue
    /\ pc' = "ok" /\ left' = TRUE /\ began' = now
    /\ UNCHANGED <<disk, now, gen, at, opened, held, cut>>

Reissue ==
    /\ pc = "off" /\ NeedsReissue /\ gen < MaxRuns
    /\ pc' = "issue" /\ gen' = gen + 1 /\ at' = 1 /\ left' = FALSE /\ began' = now
    /\ UNCHANGED <<disk, now, opened, held, cut>>

\* os.WriteFile, first half.  The tokens are minted, and the leaf is issued, before
\* their files are opened; the marker carries the CA and the tokens of this run.
Truncate ==
    /\ pc = "issue" /\ ~opened
    /\ opened' = TRUE /\ disk' = [disk EXCEPT ![Order[at]] = Torn]
    /\ held' = (IF Order[at] = Tokens THEN now + WeakTokenTTL
                ELSE IF \E i \in Leaves : Order[at] = Cert(i) THEN now + CertTTL
                ELSE 0)
    /\ UNCHANGED <<now, gen, pc, at, left, began, cut>>

\* os.WriteFile, second half.
Write ==
    /\ pc = "issue" /\ opened
    /\ disk' = [disk EXCEPT ![Order[at]] = [gen |-> gen, exp |-> held]]
    /\ opened' = FALSE
    /\ \/ at < Len(Order) /\ at' = at + 1 /\ UNCHANGED <<pc, cut>>
       \/ at = Len(Order) /\ at' = 1 /\ pc' = "ok" /\ cut' = FALSE
    /\ UNCHANGED <<now, gen, held, left, began>>

\* A file cannot be opened, issued, minted, rendered or written, or the process is
\* killed: what has been written stays.
CutShort ==
    /\ pc = "issue"
    /\ pc' = "failed" /\ opened' = FALSE /\ at' = 1
    /\ cut' = (cut \/ disk[Marker].gen \notin {Missing.gen, gen})
    /\ UNCHANGED <<disk, now, gen, held, left, began>>

\* compose runs the service again.
Again ==
    /\ pc \in {"ok", "failed"} /\ pc' = "off"
    /\ UNCHANGED <<disk, now, gen, at, opened, held, left, began, cut>>

Tick ==
    /\ now < MaxTime /\ now' = now + 1
    /\ UNCHANGED <<disk, gen, pc, at, opened, held, left, began, cut>>

Next == Refuse \/ LeaveInPlace \/ Reissue \/ Truncate \/ Write \/ CutShort \/ Again \/ Tick

Spec == Init /\ [][Next]_vars

-----------------------------------------------------------------------------
(* Properties *)

\* The peers start from files of one run, unless an issue was cut short over the
\* marker of an earlier one or while it wrote its own: the marker is written last,
\* so an issue into an empty volume that does not get there is begun anew.
PeersGetOneRun == pc = "ok" /\ ~cut => Whole

\* A set that is left in place is valid for RenewBefore from then on, every leaf and
\* every token of it, although only the first leaf and the tokens are looked at.
LeftIsValid ==
    pc = "ok" /\ left /\ ~cut /\ RenewBefore > 0 =>
        \A f \in {Tokens} \cup {Cert(i) : i \in Leaves} : disk[f].exp - began >= RenewBefore

(* What a comment says *)

\* harness-init main.go: "every leaf is issued in the same run with the same TTL, so
\* one leaf's remaining validity speaks for the set".
LeavesOfOneRun ==
    pc = "ok" => \A i, j \in Leaves : disk[Cert(i)].gen = disk[Cert(j)].gen
=============================================================================
