---------------------------- MODULE Orchestrator ----------------------------
(***************************************************************************)
(* One run of the mount session: orchestrator.run brings the configured    *)
(* mounts up one after the other, announces readiness, waits for a signal  *)
(* or for a mount to end, and tears every mount down concurrently.  Each   *)
(* mount is a realPoint over a FUSE server and a VFS whose write-back      *)
(* queue drains to the broker in the background.  The goroutines that      *)
(* interleave are: run itself, one doUnmount per mount under teardown, one *)
(* mp.Unmount goroutine per doUnmount, one wait() per announced mount, the *)
(* write-back uploader, the guest's writers, and the host (signals, kill). *)
(***************************************************************************)
EXTENDS Naturals

CONSTANTS MaxMounts,      \* bound: the most mounts a configuration holds
          MaxDirty,       \* bound: the most unsent write-back items of a mount
          ReadyFilePath   \* is a ready-file path configured?

ASSUME ConstAssumption ==
    /\ MaxMounts \in Nat
    /\ MaxDirty \in Nat
    /\ ReadyFilePath \in BOOLEAN

Points == 1..MaxMounts

VARIABLES
    pc,         \* where run() is
    n,          \* the number of specs of this run's configuration
    next,       \* the spec the start-up loop is at; 1..(next-1) are started
    signals,    \* is a signal buffered in the one-slot channel?
    requested,  \* has a termination signal been sent to this process?
    readyFile,  \* does the ready-file exist on disk?
    armed,      \* is the deferred removal of the ready-file registered?
    announced,  \* has signalReady succeeded in this run?
    cause,      \* why the run is ending
    exitedPt,   \* the mount whose own exit ended the run, or 0
    result,     \* what run() returned
    stage,      \* how far our code has brought each mount up or down
    kernel,     \* the kernel mount: none, live (served) or dead (listed, not served)
    vfs,        \* is the write-back uploader of the mount's VFS running?
    dirty,      \* unsent write-back items
    drained,    \* how WaitForWriters ended
    late,       \* did the guest write after WaitForWriters had found nothing in use?
    det,        \* the goroutine that calls mp.Unmount
    uerr,       \* the mount's unmountErr
    waited      \* has the mount's wait() delivered its value to the select?

runVars   == <<pc, n, next, cause, exitedPt, result>>
hostVars  == <<signals, requested, readyFile, armed, announced>>
pointVars == <<stage, kernel, vfs, dirty, drained, late, det, uerr, waited>>
vars      == <<runVars, hostVars, pointVars>>

Alive == pc \notin {"exited", "killed"}

\* The points unmountAll is given: every started one, less the one that exited.
Targets == (1..(next - 1)) \ {exitedPt}

TypeOK ==
    /\ pc \in {"entry", "specs", "poll", "mount", "ready", "block",
               "teardown", "retract", "exited", "killed"}
    /\ n \in 0..MaxMounts
    /\ next \in 1..(MaxMounts + 1)
    /\ signals \in BOOLEAN /\ requested \in BOOLEAN
    /\ readyFile \in BOOLEAN /\ armed \in BOOLEAN /\ announced \in BOOLEAN
    /\ cause \in {"none", "config", "signal", "start", "ready", "exit"}
    /\ exitedPt \in 0..MaxMounts
    /\ result \in {"none", "nil", "err"}
    /\ stage \in [Points -> {"none", "building", "aborting", "polling", "up",
                             "drain", "detach", "done"}]
    /\ kernel \in [Points -> {"none", "live", "dead"}]
    /\ vfs \in [Points -> BOOLEAN]
    /\ dirty \in [Points -> 0..MaxDirty]
    /\ drained \in [Points -> {"no", "yes", "timeout"}]
    /\ late \in [Points -> BOOLEAN]
    /\ det \in [Points -> {"idle", "shutdown", "unmount", "ok", "err"}]
    /\ uerr \in [Points -> {"none", "ok", "err", "noreturn"}]
    /\ waited \in [Points -> BOOLEAN]

\* Only the ready-file outlives a process.
Init ==
    /\ readyFile \in (IF ReadyFilePath THEN BOOLEAN ELSE {FALSE})
    /\ pc = "entry" /\ n = 0 /\ next = 1
    /\ signals = FALSE /\ requested = FALSE
    /\ armed = FALSE /\ announced = FALSE
    /\ cause = "none" /\ exitedPt = 0 /\ result = "none"
    /\ stage   = [p \in Points |-> "none"]
    /\ kernel  = [p \in Points |-> "none"]
    /\ vfs     = [p \in Points |-> FALSE]
    /\ dirty   = [p \in Points |-> 0]
    /\ drained = [p \in Points |-> "no"]
    /\ late    = [p \in Points |-> FALSE]
    /\ det     = [p \in Points |-> "idle"]
    /\ uerr    = [p \in Points |-> "none"]
    /\ waited  = [p \in Points |-> FALSE]

-----------------------------------------------------------------------------
(* run(): start-up *)

\* No mount method on this platform: run returns before it touches the file.
SeamUnavailable ==
    /\ pc = "entry"
    /\ pc' = "exited" /\ result' = "err" /\ cause' = "config"
    /\ UNCHANGED <<n, next, exitedPt, hostVars, pointVars>>

\* Mutant: a stale ready-file of a dead process is left in place.
RemoveStaleKeepsFile ==
    /\ pc = "entry"
    /\ pc' = "specs" /\ armed' = ReadyFilePath
    /\ UNCHANGED <<n, next, cause, exitedPt, result, signals, requested,
                   readyFile, announced, pointVars>>

RemoveStale ==
    /\ pc = "entry"
    /\ pc' = "specs" /\ armed' = ReadyFilePath /\ readyFile' = FALSE
    /\ UNCHANGED <<n, next, cause, exitedPt, result, signals, requested,
                   announced, pointVars>>

\* The removal itself fails: run returns before the retraction is registered.
RemoveStaleFails ==
    /\ pc = "entry" /\ readyFile
    /\ pc' = "exited" /\ result' = "err" /\ cause' = "config"
    /\ UNCHANGED <<n, next, exitedPt, hostVars, pointVars>>

\* buildSpecs rejects the configuration, or run has no mount to make.
BuildSpecsRejects ==
    /\ pc = "specs"
    /\ pc' = "retract" /\ result' = "err" /\ cause' = "config"
    /\ UNCHANGED <<n, next, exitedPt, hostVars, pointVars>>

BuildSpecs ==
    /\ pc = "specs"
    /\ n' \in 0..MaxMounts
    /\ IF n' = 0 THEN pc' = "retract" /\ result' = "nil" /\ cause' = "config"
                 ELSE pc' = "poll" /\ UNCHANGED <<result, cause>>
    /\ UNCHANGED <<next, exitedPt, hostVars, pointVars>>

\* unmountAll starts one doUnmount goroutine per point; run waits for them all.
BeginTeardown(why, points) ==
    /\ pc' = "teardown"
    /\ cause' = why
    /\ stage' = [p \in Points |-> IF p \in points THEN "drain" ELSE stage[p]]

\* signalPending consumed a signal, before a mount or before readiness.
PollSignal ==
    /\ pc = "poll" /\ signals
    /\ signals' = FALSE
    /\ BeginTeardown("signal", 1..(next - 1))
    /\ UNCHANGED <<n, next, exitedPt, result, requested, readyFile, armed,
                   announced, kernel, vfs, dirty, drained, late, det, uerr, waited>>

\* Mutant: readiness is signalled one mount too early.
PollClearEarly ==
    /\ pc = "poll" /\ ~signals
    /\ IF next < n
       THEN pc' = "mount" /\ stage' = [stage EXCEPT ![next] = "building"]
       ELSE pc' = "ready" /\ UNCHANGED stage
    /\ UNCHANGED <<n, next, cause, exitedPt, result, hostVars, kernel, vfs,
                   dirty, drained, late, det, uerr, waited>>

PollClear ==
    /\ pc = "poll" /\ ~signals
    /\ IF next <= n
       THEN pc' = "mount" /\ stage' = [stage EXCEPT ![next] = "building"]
       ELSE pc' = "ready" /\ UNCHANGED stage
    /\ UNCHANGED <<n, next, cause, exitedPt, result, hostVars, kernel, vfs,
                   dirty, drained, late, det, uerr, waited>>

(* mountAndWaitReady for the spec at next *)

\* Any error before the kernel mount exists: configmap, Fs, options, the
\* shadow guard, the overlap checks or the mount call itself.
MountFails ==
    /\ pc = "mount" /\ stage[next] = "building"
    /\ BeginTeardown("start", 1..(next - 1))
    /\ UNCHANGED <<n, next, exitedPt, result, hostVars, kernel, vfs, dirty,
                   drained, late, det, uerr, waited>>

\* The kernel mount exists but WaitMount failed: directMountFn calls umount,
\* without the bound doUnmount puts on it.
WaitMountFails ==
    /\ pc = "mount" /\ stage[next] = "building"
    /\ stage' = [stage EXCEPT ![next] = "aborting"]
    /\ kernel' = [kernel EXCEPT ![next] = "dead"]
    /\ UNCHANGED <<runVars, hostVars, vfs, dirty, drained, late, det, uerr, waited>>

\* That umount returned, with or without an error: the error is dropped.
AbortReturns ==
    /\ pc = "mount" /\ stage[next] = "aborting"
    /\ \E k \in {"none", "dead"} : kernel' = [kernel EXCEPT ![next] = k]
    /\ BeginTeardown("start", 1..(next - 1))
    /\ UNCHANGED <<n, next, exitedPt, result, hostVars, vfs, dirty, drained,
                   late, det, uerr, waited>>

MountServes ==
    /\ pc = "mount" /\ stage[next] = "building"
    /\ stage'  = [stage  EXCEPT ![next] = "polling"]
    /\ kernel' = [kernel EXCEPT ![next] = "live"]
    /\ vfs'    = [vfs    EXCEPT ![next] = TRUE]
    /\ UNCHANGED <<runVars, hostVars, dirty, drained, late, det, uerr, waited>>

\* waitReady sees the mount in the mount table, or a device boundary there.
WaitReady ==
    /\ pc = "mount" /\ stage[next] = "polling" /\ kernel[next] # "none"
    /\ stage' = [stage EXCEPT ![next] = "up"]
    /\ next' = next + 1
    /\ pc' = "poll"
    /\ UNCHANGED <<n, cause, exitedPt, result, hostVars, kernel, vfs, dirty,
                   drained, late, det, uerr, waited>>

\* The readiness deadline passed: the half-started mount goes through doUnmount.
\* (The loop's other exit, a cancelled context, is unreachable: only run itself
\* cancels it, and run is inside this call.)
WaitReadyTimeout ==
    /\ pc = "mount" /\ stage[next] = "polling"
    /\ stage' = [stage EXCEPT ![next] = "drain"]
    /\ UNCHANGED <<runVars, hostVars, kernel, vfs, dirty, drained, late, det,
                   uerr, waited>>

\* Mutant: a failed start returns without unmounting what is already up.
HalfStartedDownLeaks ==
    /\ pc = "mount" /\ stage[next] = "done"
    /\ pc' = "retract" /\ cause' = "start" /\ result' = "err"
    /\ UNCHANGED <<n, next, exitedPt, hostVars, pointVars>>

\* doUnmount of the half-started mount returned; its error is dropped.
HalfStartedDown ==
    /\ pc = "mount" /\ stage[next] = "done"
    /\ BeginTeardown("start", 1..(next - 1))
    /\ UNCHANGED <<n, next, exitedPt, result, hostVars, kernel, vfs, dirty,
                   drained, late, det, uerr, waited>>

(* readiness and the final select *)

SignalReady ==
    /\ pc = "ready"
    /\ readyFile' = ReadyFilePath
    /\ announced' = TRUE
    /\ pc' = "block"
    /\ UNCHANGED <<n, next, cause, exitedPt, result, signals, requested, armed,
                   pointVars>>

\* Creating the file fails, or closing the created file does.
SignalReadyFails ==
    /\ pc = "ready" /\ ReadyFilePath
    /\ readyFile' \in {readyFile, TRUE}
    /\ BeginTeardown("ready", 1..(next - 1))
    /\ UNCHANGED <<n, next, exitedPt, result, signals, requested, armed,
                   announced, kernel, vfs, dirty, drained, late, det, uerr, waited>>

TakeSignal ==
    /\ pc = "block" /\ signals
    /\ signals' = FALSE
    /\ BeginTeardown("signal", 1..(next - 1))
    /\ UNCHANGED <<n, next, exitedPt, result, requested, readyFile, armed,
                   announced, kernel, vfs, dirty, drained, late, det, uerr, waited>>

\* The select received p's wait() value: every other point is unmounted.
PointExited(p) ==
    /\ pc = "block" /\ waited[p]
    /\ exitedPt' = p
    /\ BeginTeardown("exit", (1..(next - 1)) \ {p})
    /\ UNCHANGED <<n, next, result, hostVars, kernel, vfs, dirty, drained, late,
                   det, uerr, waited>>

\* wg.Wait returned.  A detach that did not return is not an error, and the
\* value serveFuse delivers for a point that exited is always nil.
TeardownDone ==
    /\ pc = "teardown"
    /\ \A p \in Targets : stage[p] = "done"
    /\ result' = IF cause \in {"start", "ready"} \/ \E p \in Targets : uerr[p] = "err"
                 THEN "err" ELSE "nil"
    /\ pc' = "retract"
    /\ UNCHANGED <<n, next, cause, exitedPt, hostVars, pointVars>>

\* The deferred removal; its failure is only logged.
Retract ==
    /\ pc = "retract"
    /\ readyFile' \in {FALSE, readyFile}
    /\ pc' = "exited"
    /\ UNCHANGED <<n, next, cause, exitedPt, result, signals, requested, armed,
                   announced, pointVars>>

-----------------------------------------------------------------------------
(* doUnmount(p) and the goroutine it starts *)

\* Mutant: unmount without waiting for the write-back queue.
DrainSkipped(p) ==
    /\ Alive /\ stage[p] = "drain"
    /\ drained' = [drained EXCEPT ![p] = "yes"]
    /\ stage' = [stage EXCEPT ![p] = "detach"]
    /\ det' = [det EXCEPT ![p] = "shutdown"]
    /\ UNCHANGED <<runVars, hostVars, kernel, vfs, dirty, late, uerr, waited>>

\* WaitForWriters found nothing in use.
Drained(p) ==
    /\ Alive /\ stage[p] = "drain" /\ dirty[p] = 0
    /\ drained' = [drained EXCEPT ![p] = "yes"]
    /\ stage' = [stage EXCEPT ![p] = "detach"]
    /\ det' = [det EXCEPT ![p] = "shutdown"]
    /\ UNCHANGED <<runVars, hostVars, kernel, vfs, dirty, late, uerr, waited>>

\* WaitForWriters gave up: unsent items, or a file the guest still holds open.
DrainTimesOut(p) ==
    /\ Alive /\ stage[p] = "drain"
    /\ drained' = [drained EXCEPT ![p] = "timeout"]
    /\ stage' = [stage EXCEPT ![p] = "detach"]
    /\ det' = [det EXCEPT ![p] = "shutdown"]
    /\ UNCHANGED <<runVars, hostVars, kernel, vfs, dirty, late, uerr, waited>>

\* umount: the VFS is shut down, which ends the uploader ...
ShutdownVFS(p) ==
    /\ Alive /\ det[p] = "shutdown"
    /\ vfs' = [vfs EXCEPT ![p] = FALSE]
    /\ det' = [det EXCEPT ![p] = "unmount"]
    /\ UNCHANGED <<runVars, hostVars, stage, kernel, dirty, drained, late, uerr, waited>>

\* ... then the kernel mount is detached, which may fail or never return.
DetachSucceeds(p) ==
    /\ Alive /\ det[p] = "unmount"
    /\ kernel' = [kernel EXCEPT ![p] = "none"]
    /\ det' = [det EXCEPT ![p] = "ok"]
    /\ UNCHANGED <<runVars, hostVars, stage, vfs, dirty, drained, late, uerr, waited>>

DetachFails(p) ==
    /\ Alive /\ det[p] = "unmount"
    /\ det' = [det EXCEPT ![p] = "err"]
    /\ UNCHANGED <<runVars, hostVars, stage, kernel, vfs, dirty, drained, late, uerr, waited>>

\* Mutant: doUnmount returns nil whatever mp.Unmount returned.
DetachReturnedNil(p) ==
    /\ Alive /\ stage[p] = "detach" /\ det[p] \in {"ok", "err"}
    /\ uerr' = [uerr EXCEPT ![p] = "ok"]
    /\ stage' = [stage EXCEPT ![p] = "done"]
    /\ UNCHANGED <<runVars, hostVars, kernel, vfs, dirty, drained, late, det, waited>>

DetachReturned(p) ==
    /\ Alive /\ stage[p] = "detach" /\ det[p] \in {"ok", "err"}
    /\ uerr' = [uerr EXCEPT ![p] = det[p]]
    /\ stage' = [stage EXCEPT ![p] = "done"]
    /\ UNCHANGED <<runVars, hostVars, kernel, vfs, dirty, drained, late, det, waited>>

\* Mutant: the detach is waited for without a bound.
GraceNeverExpires(p) ==
    /\ FALSE /\ stage[p] = "detach"
    /\ UNCHANGED vars

GraceExpires(p) ==
    /\ Alive /\ stage[p] = "detach"
    /\ uerr' = [uerr EXCEPT ![p] = "noreturn"]
    /\ stage' = [stage EXCEPT ![p] = "done"]
    /\ UNCHANGED <<runVars, hostVars, kernel, vfs, dirty, drained, late, det, waited>>

-----------------------------------------------------------------------------
(* wait(), the VFS, the guest and the host *)

\* The serve loop ended and the mount table does not list the mount.  Once the
\* select has returned nobody receives what wait() delivers, and it does nothing
\* else here.
WaitReturns(p) ==
    /\ pc = "block" /\ announced /\ p <= n
    /\ kernel[p] = "none" /\ ~waited[p]
    /\ waited' = [waited EXCEPT ![p] = TRUE]
    /\ UNCHANGED <<runVars, hostVars, stage, kernel, vfs, dirty, drained, late, det, uerr>>

\* The serve loop ended while the mount is still listed: rclone's own finalise
\* unmounts it first, unless the runtime does not list FUSE mounts at all.
WaitFinalises(p) ==
    /\ pc \in {"block", "teardown"} /\ announced /\ p <= n
    /\ kernel[p] = "dead" /\ ~waited[p]
    /\ waited' = [waited EXCEPT ![p] = TRUE]
    /\ \/ UNCHANGED <<kernel, vfs>>
       \/ /\ vfs' = [vfs EXCEPT ![p] = FALSE]
          /\ \E k \in {"none", "dead"} : kernel' = [kernel EXCEPT ![p] = k]
    /\ UNCHANGED <<runVars, hostVars, stage, dirty, drained, late, det, uerr>>

\* The mount ends by itself: unmounted from outside, or its connection aborted.
ServeEnds(p) ==
    /\ Alive /\ kernel[p] = "live"
    /\ \E k \in {"none", "dead"} : kernel' = [kernel EXCEPT ![p] = k]
    /\ UNCHANGED <<runVars, hostVars, stage, vfs, dirty, drained, late, det, uerr, waited>>

GuestWrite(p) ==
    /\ Alive /\ kernel[p] = "live" /\ dirty[p] < MaxDirty
    /\ dirty' = [dirty EXCEPT ![p] = dirty[p] + 1]
    /\ late' = [late EXCEPT ![p] = late[p] \/ drained[p] = "yes"]
    /\ UNCHANGED <<runVars, hostVars, stage, kernel, vfs, drained, det, uerr, waited>>

\* An upload the broker accepted; a throttled or failed one changes nothing.
Upload(p) ==
    /\ Alive /\ vfs[p] /\ dirty[p] > 0
    /\ dirty' = [dirty EXCEPT ![p] = dirty[p] - 1]
    /\ UNCHANGED <<runVars, hostVars, stage, kernel, vfs, drained, late, det, uerr, waited>>

\* SIGTERM or SIGINT: signal.Notify drops it when one is already buffered.  One
\* that arrives once a teardown has begun stays in the channel: nobody reads it.
Terminate ==
    /\ Alive /\ pc \notin {"teardown", "retract"}
    /\ signals' = TRUE /\ requested' = TRUE
    /\ UNCHANGED <<runVars, readyFile, armed, announced, pointVars>>

\* The memory of a process is gone; the ready-file is not.
Wiped ==
    /\ n' = 0 /\ next' = 1
    /\ signals' = FALSE /\ requested' = FALSE
    /\ armed' = FALSE /\ announced' = FALSE
    /\ cause' = "none" /\ exitedPt' = 0 /\ result' = "none"
    /\ stage'   = [p \in Points |-> "none"]
    /\ kernel'  = [p \in Points |-> "none"]
    /\ vfs'     = [p \in Points |-> FALSE]
    /\ dirty'   = [p \in Points |-> 0]
    /\ drained' = [p \in Points |-> "no"]
    /\ late'    = [p \in Points |-> FALSE]
    /\ det'     = [p \in Points |-> "idle"]
    /\ uerr'    = [p \in Points |-> "none"]
    /\ waited'  = [p \in Points |-> FALSE]
    /\ UNCHANGED readyFile

\* SIGKILL or a crash; the runtime reclaims the mounts with the container.
Kill == Alive /\ pc' = "killed" /\ Wiped

\* A new process in a new container.
Restart == ~Alive /\ pc' = "entry" /\ Wiped

-----------------------------------------------------------------------------
Startup  == SeamUnavailable \/ RemoveStale \/ RemoveStaleFails
            \/ BuildSpecsRejects \/ BuildSpecs \/ PollSignal \/ PollClear
MountOne == MountFails \/ WaitMountFails \/ AbortReturns \/ MountServes
            \/ WaitReady \/ WaitReadyTimeout \/ HalfStartedDown
Finish   == SignalReady \/ SignalReadyFails \/ TakeSignal
            \/ (\E p \in Points : PointExited(p)) \/ TeardownDone \/ Retract

Run == Startup \/ MountOne \/ Finish

Aborting == pc = "mount" /\ stage[next] = "aborting"

Drain(p)    == Drained(p) \/ DrainTimesOut(p)
Detacher(p) == ShutdownVFS(p) \/ DetachSucceeds(p) \/ DetachFails(p)
Detach(p)   == DetachReturned(p) \/ GraceExpires(p)
PointStep(p) == Drain(p) \/ Detacher(p) \/ Detach(p) \/ WaitReturns(p)
                \/ WaitFinalises(p) \/ ServeEnds(p) \/ GuestWrite(p) \/ Upload(p)

Next == Run \/ (\E p \in Points : PointStep(p)) \/ Terminate \/ Kill \/ Restart

Spec == Init /\ [][Next]_vars

\* What the process does of itself: run, the two timers of each doUnmount, and
\* wait().  run is stuck only in the umount after a failed WaitMount.
Progress ==
    /\ ~Aborting
    /\ Run \/ \E p \in Points : Drain(p) \/ Detach(p) \/ WaitReturns(p)

\* The scheduler runs some goroutine as long as one can run, and the timers fire.
\* Nothing is assumed of the guest, the host, the broker, or of a detach.
Fairness == WF_vars(Progress)

FairSpec == Spec /\ Fairness

-----------------------------------------------------------------------------
(* What the host sees of a run: run's view of the mounts it has to take down *)

Phase ==
    CASE pc = "entry" -> "off"
      [] pc \in {"specs", "poll", "mount", "ready"} -> "starting"
      [] pc = "block" -> "serving"
      [] pc \in {"teardown", "retract"} -> "stopping"
      [] pc = "exited" -> "left"
      [] pc = "killed" -> "killed"

Held == IF Alive THEN {p \in Targets : stage[p] # "done"} ELSE {}

Host == INSTANCE Session WITH Mounts <- Points, phase <- Phase, held <- Held,
                              file <- readyFile

\* Every run keeps the session's promises to its host (module Session), killed
\* and restarted processes included.
ImplementsSession == Host!SSpec

(* Properties *)

\* Once run has cleared the file of an earlier process, a ready-file on disk is
\* this run's own, and it was created after every configured mount was confirmed.
ReadyFileIsOurs ==
    readyFile /\ armed => next = n + 1 /\ n > 0

\* The ready-file appears at most once in a run, while every configured mount is
\* confirmed and none has been asked to unmount.
AnnouncedOnceAllUp ==
    [][ ~readyFile /\ readyFile' =>
          ~announced /\ \A p \in Points : stage[p] = (IF p <= n THEN "up" ELSE "none") ]_vars

\* When run returns, every mount it confirmed has been through doUnmount, the one
\* whose own exit ended the run excepted, and a mount whose readiness timed out
\* has too.
NoMountForgotten ==
    pc = "exited" => \A p \in Points :
        /\ p \in Targets => stage[p] = "done"
        /\ p >= next => stage[p] \in {"none", "building", "aborting", "done"}

\* A run that reports success leaves no kernel mount it made behind, unless the
\* detach did not return in its grace or the mount had ended by itself.
SuccessLeavesNoMount ==
    pc = "exited" /\ result = "nil" =>
        \A p \in Points : kernel[p] # "none" => uerr[p] = "noreturn" \/ p = exitedPt

\* Write-back items are lost at exit only where the drain timed out, the guest
\* wrote after the drain, or the mount ended by itself and was not drained.
LossIsAccounted ==
    pc = "exited" => \A p \in Points :
        dirty[p] > 0 => drained[p] = "timeout" \/ late[p] \/ p = exitedPt

\* What has to end the run: a signal, a mount that was unmounted from outside
\* while the session serves, or a teardown begun for any other cause.
MustEnd ==
    \/ requested
    \/ pc = "block" /\ \E p \in 1..n : kernel[p] = "none"
    \/ pc \in {"teardown", "retract"}

\* A termination signal ends the process, wherever run is when it arrives, and so
\* does the loss of a mount; only directMountFn's umount after a failed WaitMount,
\* which no timer bounds, can keep it.
RunEnds == (Alive /\ MustEnd) ~> (~Alive \/ Aborting)

(* Statements of the repository's comments that the code does not keep *)

\* orchestrator.go: "the ready-file exists only while every mount is actually up":
\* at the least, none of them has been unmounted by the process itself.
ReadyOnlyWhileUp ==
    readyFile /\ armed => \A p \in 1..n : stage[p] # "done"

\* orchestrator.go: "readiness must never appear after termination requested".
NoReadinessAfterRequest == [][ ~readyFile /\ readyFile' => ~requested ]_vars

\* orchestrator.go: a signal arriving mid-mount "aborts an in-flight
\* mountAndWaitReady ... rather than letting it block up to readyTimeout".
SignalAbortsMount == [][ requested /\ signals => ~WaitReadyTimeout ]_vars

\* orchestrator.go: "a point that dies spontaneously surfaces as a non-nil run
\* error".
DeathIsAnError == pc = "exited" /\ cause = "exit" => result = "err"
=============================================================================
