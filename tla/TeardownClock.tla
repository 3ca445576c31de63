---------------------------- MODULE TeardownClock ----------------------------
(***************************************************************************)
(* How long the mount process lives after SIGTERM.  Orchestrator models    *)
(* the order of the steps; this module keeps only the steps that wait, and *)
(* a clock that starts with the signal.  The runtime kills the process when*)
(* its stop grace is over, so a bound here is what saves write-back bytes. *)
(***************************************************************************)
EXTENDS Integers

CONSTANTS Serving,          \* the mounts that are up when the signal arrives
          Half,             \* the mount that is coming up then, if there is one
          ReadyTimeout,     \* waitMountReadyTimeout
          DrainTimeout,     \* writebackDrainTimeout
          HalfDrain,        \* the longest drain of a mount that never became ready
          Grace             \* unmountDetachGrace

ASSUME ClockAssumption ==
    /\ ReadyTimeout \in Nat /\ DrainTimeout \in Nat /\ Grace \in Nat
    /\ HalfDrain \in 0..DrainTimeout
    /\ Half \notin Serving

VARIABLES
    now,        \* the time since the signal
    steady,     \* the signal met a process that had announced readiness
    phase,      \* where run() is
    st,         \* where the teardown of each point is
    since       \* when the wait it is in began

clockVars == <<now, steady, phase, st, since>>

All == Serving \cup {Half}

ClockTypeOK ==
    /\ now \in Nat /\ steady \in BOOLEAN
    /\ phase \in {"ready", "half", "teardown", "exit"}
    /\ st \in [All -> {"none", "up", "drain", "detach", "down"}]
    /\ since \in [All -> Nat]

\* Either every mount is up and blockUntilTeardown has the signal, or the signal
\* arrives just after the poll that precedes one more mount.
ClockInit ==
    /\ now = 0 /\ since = [p \in All |-> 0]
    /\ \/ steady = TRUE /\ phase = "teardown"
          /\ st = [p \in All |-> IF p = Half THEN "none" ELSE "drain"]
       \/ steady = FALSE /\ phase = "ready"
          /\ st = [p \in All |-> "up"]

\* unmountAll starts doUnmount for every point in S at once.
TeardownOf(S) ==
    /\ phase' = "teardown"
    /\ st' = [p \in All |-> IF p \in S THEN "drain" ELSE "none"]
    /\ since' = [p \in All |-> now]

\* The mount became ready; the next poll sees the signal.
Ready ==
    /\ phase = "ready" /\ TeardownOf(All)
    /\ UNCHANGED <<now, steady>>

\* waitReady gives up, and the half-started mount goes through doUnmount as well.
ReadyExpires ==
    /\ phase = "ready" /\ now = ReadyTimeout
    /\ phase' = "half"
    /\ st' = [st EXCEPT ![Half] = "drain"] /\ since' = [since EXCEPT ![Half] = now]
    /\ UNCHANGED <<now, steady>>

\* Its detach returned, or its grace is over; then the others are torn down.
HalfDown ==
    /\ phase = "half" /\ st[Half] = "detach" /\ TeardownOf(Serving)
    /\ UNCHANGED <<now, steady>>

\* WaitForWriters returns: drained, or out of time.
DrainEnds(p) ==
    /\ phase \in {"half", "teardown"} /\ st[p] = "drain"
    /\ st' = [st EXCEPT ![p] = "detach"] /\ since' = [since EXCEPT ![p] = now]
    /\ UNCHANGED <<now, steady, phase>>

\* The kernel detach returned, or its grace is over.
Detached(p) ==
    /\ phase = "teardown" /\ st[p] = "detach"
    /\ st' = [st EXCEPT ![p] = "down"]
    /\ UNCHANGED <<now, steady, phase, since>>

\* wg.Wait returns and run() with it.
Exit ==
    /\ phase = "teardown" /\ \A p \in All : st[p] \in {"none", "down"}
    /\ phase' = "exit"
    /\ UNCHANGED <<now, steady, st, since>>

\* The time at which a wait has to end.
Deadline(p) ==
    since[p] + (IF st[p] = "detach" THEN Grace
                ELSE IF phase = "half" THEN HalfDrain ELSE DrainTimeout)

\* Mutant: a drain has no bound.
DueUnbounded ==
    \/ phase = "ready" /\ now >= ReadyTimeout
    \/ \E p \in All : st[p] = "detach" /\ now >= Deadline(p)
    \/ phase = "teardown" /\ \A p \in All : st[p] \in {"none", "down"}

\* Mutant: the detach of a half-started mount has no bound.
DueHalfUnbounded ==
    \/ phase = "ready" /\ now >= ReadyTimeout
    \/ phase # "half" /\ \E p \in All : st[p] \in {"drain", "detach"} /\ now >= Deadline(p)
    \/ phase = "teardown" /\ \A p \in All : st[p] \in {"none", "down"}

\* Some wait is over; everything else in run() takes no time.
Due ==
    \/ phase = "ready" /\ now >= ReadyTimeout
    \/ \E p \in All : st[p] \in {"drain", "detach"} /\ now >= Deadline(p)
    \/ phase = "teardown" /\ \A p \in All : st[p] \in {"none", "down"}

Tick ==
    /\ phase # "exit" /\ ~Due
    /\ now' = now + 1
    /\ UNCHANGED <<steady, phase, st, since>>

ClockNext ==
    \/ Ready \/ ReadyExpires \/ HalfDown \/ Exit \/ Tick
    \/ \E p \in All : DrainEnds(p) \/ Detached(p)

ClockSpec == ClockInit /\ [][ClockNext]_clockVars

-----------------------------------------------------------------------------
(* Properties *)

\* A signal in the steady state ends the process within one drain and one detach
\* grace, however many mounts there are: unmountAll's points wait side by side.
SteadyBudget == steady => now <= DrainTimeout + Grace

\* A signal during startup costs one readiness wait and the teardown of the mount
\* that did not become ready, before the others are torn down.
StartupBudget == now <= ReadyTimeout + HalfDrain + Grace + DrainTimeout + Grace

(* What a comment says *)

\* teardown_test.go: "worst-case SIGTERM-to-exit on that path is 30s + the 123s
\* teardown window = 153s".
StartupWorstCase == now <= ReadyTimeout + DrainTimeout + Grace
=============================================================================
