------------------------- MODULE OrchestratorProofs -------------------------
(***************************************************************************)
(* Proofs about Orchestrator, for every number of mounts and every bound   *)
(* on the write-back queue: its invariants and how it implements Session. *)
(***************************************************************************)
EXTENDS Orchestrator, TLAPS

\* Where run is, and how far the mounts are then.
PhaseInv ==
    /\ pc \in {"entry", "specs"} => next = 1 /\ \A p \in Points : stage[p] = "none"
    /\ pc = "entry" => ~armed
    /\ pc \in {"entry", "specs", "poll", "mount", "ready", "block"} =>
         cause = "none" /\ exitedPt = 0
    /\ pc \in {"entry", "specs", "poll", "mount", "ready"} => ~announced
    /\ pc \in {"poll", "mount", "ready", "block"} =>
         /\ n > 0 /\ next <= n + 1
         /\ \A p \in Points : p < next => stage[p] = "up"
         /\ \A p \in Points : p > next => stage[p] = "none"
    /\ pc \in {"poll", "ready", "block"} => \A p \in Points : p >= next => stage[p] = "none"
    /\ pc = "mount" => /\ next <= n
                       /\ stage[next] \in {"building", "aborting", "polling",
                                           "drain", "detach", "done"}
    /\ pc \in {"ready", "block"} => next = n + 1
    /\ announced => next = n + 1 /\ n > 0

\* How far the mounts are once run is ending.
EndInv ==
    /\ pc \in {"teardown", "retract", "exited"} => \A p \in Points :
         p >= next => /\ stage[p] \in {"none", "building", "aborting", "done"}
                      /\ stage[p] # "none" => cause = "start"
    /\ pc = "teardown" => /\ \A p \in Targets : stage[p] \in {"drain", "detach", "done"}
                          /\ cause \in {"signal", "start", "ready", "exit"}
    /\ pc \in {"retract", "exited"} => \A p \in Targets : stage[p] = "done"
    /\ pc \in {"retract", "exited"} /\ result = "nil" =>
         cause # "start" /\ \A p \in Targets : uerr[p] # "err"

\* One mount: its kernel mount, its queue and its doUnmount.
PointInv(p) ==
    /\ stage[p] = "none" => kernel[p] = "none"
    /\ stage[p] \in {"none", "building", "aborting"} => kernel[p] # "live" /\ dirty[p] = 0
    /\ stage[p] \in {"none", "building", "aborting", "polling", "up", "drain"} =>
         drained[p] = "no" /\ uerr[p] = "none" /\ det[p] = "idle"
    /\ stage[p] \in {"detach", "done"} => drained[p] # "no"
    /\ stage[p] = "done" => uerr[p] # "none"
    /\ drained[p] = "yes" /\ ~late[p] => dirty[p] = 0
    /\ det[p] = "ok" => kernel[p] = "none"
    /\ uerr[p] = "ok" => det[p] = "ok"
    /\ waited[p] => p < next

IInv == /\ TypeOK
        /\ PhaseInv
        /\ EndInv
        /\ \A p \in Points : PointInv(p)
        /\ ReadyFileIsOurs

-----------------------------------------------------------------------------
USE ConstAssumption DEF Points

\* IInv is preserved by the start-up steps of run.
LEMMA StartupPreserves ==
  ASSUME IInv, Startup
  PROVE  IInv'
<1> USE DEF IInv
<1>1. CASE SeamUnavailable
  <2> USE <1>1 DEF SeamUnavailable, runVars, hostVars, pointVars, Alive
  <2>1. TypeOK'
    BY DEF TypeOK, PhaseInv
  <2>2. PhaseInv'
    BY DEF TypeOK, PhaseInv
  <2>3. EndInv'
    BY DEF TypeOK, PhaseInv, EndInv, Targets
  <2>4. (\A q \in Points : PointInv(q))'
    BY DEF TypeOK, PhaseInv, PointInv
  <2>5. ReadyFileIsOurs'
    BY DEF TypeOK, PhaseInv, ReadyFileIsOurs
  <2>6. QED  BY <2>1, <2>2, <2>3, <2>4, <2>5
<1>2. CASE RemoveStale
  <2> USE <1>2 DEF RemoveStale, runVars, hostVars, pointVars, Alive
  <2>1. TypeOK'
    BY Zenon DEF TypeOK, PhaseInv
  <2>2. PhaseInv'
    BY DEF TypeOK, PhaseInv
  <2>3. EndInv'
    BY DEF TypeOK, PhaseInv, EndInv, Targets
  <2>4. (\A q \in Points : PointInv(q))'
    BY DEF TypeOK, PhaseInv, PointInv
  <2>5. ReadyFileIsOurs'
    BY DEF TypeOK, PhaseInv, ReadyFileIsOurs
  <2>6. QED  BY <2>1, <2>2, <2>3, <2>4, <2>5
<1>3. CASE RemoveStaleFails
  <2> USE <1>3 DEF RemoveStaleFails, runVars, hostVars, pointVars, Alive
  <2>1. TypeOK'
    BY DEF TypeOK, PhaseInv
  <2>2. PhaseInv'
    BY DEF TypeOK, PhaseInv
  <2>3. EndInv'
    BY DEF TypeOK, PhaseInv, EndInv, Targets
  <2>4. (\A q \in Points : PointInv(q))'
    BY DEF TypeOK, PhaseInv, PointInv
  <2>5. ReadyFileIsOurs'
    BY DEF TypeOK, PhaseInv, ReadyFileIsOurs
  <2>6. QED  BY <2>1, <2>2, <2>3, <2>4, <2>5
<1>4. CASE BuildSpecsRejects
  <2> USE <1>4 DEF BuildSpecsRejects, runVars, hostVars, pointVars, Alive
  <2>1. TypeOK'
    BY DEF TypeOK, PhaseInv
  <2>2. PhaseInv'
    BY DEF TypeOK, PhaseInv
  <2>3. EndInv'
    BY DEF TypeOK, PhaseInv, EndInv, Targets
  <2>4. (\A q \in Points : PointInv(q))'
    BY DEF TypeOK, PhaseInv, PointInv
  <2>5. ReadyFileIsOurs'
    BY DEF TypeOK, PhaseInv, ReadyFileIsOurs
  <2>6. QED  BY <2>1, <2>2, <2>3, <2>4, <2>5
<1>5. CASE BuildSpecs
  <2> USE <1>5 DEF BuildSpecs, runVars, hostVars, pointVars, Alive
  <2>1. TypeOK'
    BY DEF TypeOK, PhaseInv
  <2>2. PhaseInv'
    <3>1. pc = "specs" /\ next = 1 /\ announced = FALSE /\ cause = "none" /\ exitedPt = 0
      BY DEF TypeOK, PhaseInv
    <3>2. \A q \in Points : stage'[q] = "none" /\ ~(q < next')
      BY <3>1 DEF PhaseInv
    <3>3. CASE n' = 0
      BY <3>1, <3>2, <3>3 DEF PhaseInv
    <3>4. CASE n' # 0
      <4>1. \A m \in 0..MaxMounts : m # 0 => m > 0 /\ 1 <= m + 1
        OBVIOUS
      <4>2. n' > 0 /\ next' = 1 /\ next' <= n' + 1
        BY Zenon, <3>1, <3>4, <4>1
      <4>3. pc' = "poll" /\ cause' = "none" /\ exitedPt' = 0 /\ announced' = FALSE
        BY Zenon, <3>1, <3>4
      <4>4. QED  BY <3>2, <4>2, <4>3, Zenon DEF PhaseInv
    <3>5. QED  BY <3>3, <3>4
  <2>3. EndInv'
    BY DEF TypeOK, PhaseInv, EndInv, Targets
  <2>4. (\A q \in Points : PointInv(q))'
    BY DEF TypeOK, PhaseInv, PointInv
  <2>5. ReadyFileIsOurs'
    BY DEF TypeOK, PhaseInv, ReadyFileIsOurs
  <2>6. QED  BY <2>1, <2>2, <2>3, <2>4, <2>5
<1>6. CASE PollSignal
  <2> USE <1>6 DEF PollSignal, BeginTeardown, runVars, hostVars, pointVars, Alive
  <2>1. TypeOK'
    BY Zenon DEF TypeOK, PhaseInv
  <2>2. PhaseInv'
    BY DEF TypeOK, PhaseInv
  <2>3. EndInv'
    BY DEF TypeOK, PhaseInv, EndInv, Targets
  <2>4. (\A q \in Points : PointInv(q))'
    BY DEF TypeOK, PhaseInv, PointInv
  <2>5. ReadyFileIsOurs'
    BY DEF TypeOK, PhaseInv, ReadyFileIsOurs
  <2>6. QED  BY <2>1, <2>2, <2>3, <2>4, <2>5
<1>7. CASE PollClear
  <2> USE <1>7 DEF PollClear, runVars, hostVars, pointVars, Alive
  <2>1. TypeOK'
    BY DEF TypeOK, PhaseInv
  <2>2. PhaseInv'
    BY DEF TypeOK, PhaseInv
  <2>3. EndInv'
    BY DEF TypeOK, PhaseInv, EndInv, Targets
  <2>4. (\A q \in Points : PointInv(q))'
    BY DEF TypeOK, PhaseInv, PointInv
  <2>5. ReadyFileIsOurs'
    BY DEF TypeOK, PhaseInv, ReadyFileIsOurs
  <2>6. QED  BY <2>1, <2>2, <2>3, <2>4, <2>5
<1>8. QED  BY <1>1, <1>2, <1>3, <1>4, <1>5, <1>6, <1>7 DEF Startup

\* IInv is preserved by the steps of mountAndWaitReady.
LEMMA MountOnePreserves ==
  ASSUME IInv, MountOne
  PROVE  IInv'
<1> USE DEF IInv
<1>1. CASE MountFails
  <2> USE <1>1 DEF MountFails, BeginTeardown, runVars, hostVars, pointVars, Alive
  <2>1. TypeOK'
    BY DEF TypeOK, PhaseInv
  <2>2. PhaseInv'
    BY DEF TypeOK, PhaseInv
  <2>3. EndInv'
    BY DEF TypeOK, PhaseInv, EndInv, Targets
  <2>4. (\A q \in Points : PointInv(q))'
    BY DEF TypeOK, PhaseInv, PointInv
  <2>5. ReadyFileIsOurs'
    BY DEF TypeOK, PhaseInv, ReadyFileIsOurs
  <2>6. QED  BY <2>1, <2>2, <2>3, <2>4, <2>5
<1>2. CASE WaitMountFails
  <2> USE <1>2 DEF WaitMountFails, runVars, hostVars, pointVars, Alive
  <2>1. TypeOK'
    BY DEF TypeOK, PhaseInv
  <2>2. PhaseInv'
    BY DEF TypeOK, PhaseInv
  <2>3. EndInv'
    BY DEF TypeOK, PhaseInv, EndInv, Targets
  <2>4. (\A q \in Points : PointInv(q))'
    BY DEF TypeOK, PhaseInv, PointInv
  <2>5. ReadyFileIsOurs'
    BY DEF TypeOK, PhaseInv, ReadyFileIsOurs
  <2>6. QED  BY <2>1, <2>2, <2>3, <2>4, <2>5
<1>3. CASE AbortReturns
  <2> USE <1>3 DEF AbortReturns, BeginTeardown, runVars, hostVars, pointVars, Alive
  <2>1. TypeOK'
    BY DEF TypeOK, PhaseInv
  <2>2. PhaseInv'
    BY DEF TypeOK, PhaseInv
  <2>3. EndInv'
    BY DEF TypeOK, PhaseInv, EndInv, Targets
  <2>4. (\A q \in Points : PointInv(q))'
    BY DEF TypeOK, PhaseInv, PointInv
  <2>5. ReadyFileIsOurs'
    BY DEF TypeOK, PhaseInv, ReadyFileIsOurs
  <2>6. QED  BY <2>1, <2>2, <2>3, <2>4, <2>5
<1>4. CASE MountServes
  <2> USE <1>4 DEF MountServes, runVars, hostVars, pointVars, Alive
  <2>1. TypeOK'
    BY DEF TypeOK, PhaseInv
  <2>2. PhaseInv'
    BY DEF TypeOK, PhaseInv
  <2>3. EndInv'
    BY DEF TypeOK, PhaseInv, EndInv, Targets
  <2>4. (\A q \in Points : PointInv(q))'
    BY DEF TypeOK, PhaseInv, PointInv
  <2>5. ReadyFileIsOurs'
    BY DEF TypeOK, PhaseInv, ReadyFileIsOurs
  <2>6. QED  BY <2>1, <2>2, <2>3, <2>4, <2>5
<1>5. CASE WaitReady
  <2> USE <1>5 DEF WaitReady, runVars, hostVars, pointVars, Alive
  <2>1. TypeOK'
    BY DEF TypeOK, PhaseInv
  <2>2. PhaseInv'
    BY DEF TypeOK, PhaseInv
  <2>3. EndInv'
    BY DEF TypeOK, PhaseInv, EndInv, Targets
  <2>4. (\A q \in Points : PointInv(q))'
    BY DEF TypeOK, PhaseInv, PointInv
  <2>5. ReadyFileIsOurs'
    BY DEF TypeOK, PhaseInv, ReadyFileIsOurs
  <2>6. QED  BY <2>1, <2>2, <2>3, <2>4, <2>5
<1>6. CASE WaitReadyTimeout
  <2> USE <1>6 DEF WaitReadyTimeout, runVars, hostVars, pointVars, Alive
  <2>1. TypeOK'
    BY DEF TypeOK, PhaseInv
  <2>2. PhaseInv'
    BY DEF TypeOK, PhaseInv
  <2>3. EndInv'
    BY DEF TypeOK, PhaseInv, EndInv, Targets
  <2>4. (\A q \in Points : PointInv(q))'
    BY DEF TypeOK, PhaseInv, PointInv
  <2>5. ReadyFileIsOurs'
    BY DEF TypeOK, PhaseInv, ReadyFileIsOurs
  <2>6. QED  BY <2>1, <2>2, <2>3, <2>4, <2>5
<1>7. CASE HalfStartedDown
  <2> USE <1>7 DEF HalfStartedDown, BeginTeardown, runVars, hostVars, pointVars, Alive
  <2>1. TypeOK'
    BY DEF TypeOK, PhaseInv
  <2>2. PhaseInv'
    BY DEF TypeOK, PhaseInv
  <2>3. EndInv'
    BY DEF TypeOK, PhaseInv, EndInv, Targets
  <2>4. (\A q \in Points : PointInv(q))'
    BY DEF TypeOK, PhaseInv, PointInv
  <2>5. ReadyFileIsOurs'
    BY DEF TypeOK, PhaseInv, ReadyFileIsOurs
  <2>6. QED  BY <2>1, <2>2, <2>3, <2>4, <2>5
<1>8. QED  BY <1>1, <1>2, <1>3, <1>4, <1>5, <1>6, <1>7 DEF MountOne

\* IInv is preserved by readiness, the select and the end of run.
LEMMA FinishPreserves ==
  ASSUME IInv, Finish
  PROVE  IInv'
<1> USE DEF IInv
<1>1. CASE SignalReady
  <2> USE <1>1 DEF SignalReady, runVars, hostVars, pointVars, Alive
  <2>1. TypeOK'
    BY DEF TypeOK, PhaseInv
  <2>2. PhaseInv'
    BY DEF TypeOK, PhaseInv
  <2>3. EndInv'
    BY DEF TypeOK, PhaseInv, EndInv, Targets
  <2>4. (\A q \in Points : PointInv(q))'
    BY DEF TypeOK, PhaseInv, PointInv
  <2>5. ReadyFileIsOurs'
    BY DEF TypeOK, PhaseInv, ReadyFileIsOurs
  <2>6. QED  BY <2>1, <2>2, <2>3, <2>4, <2>5
<1>2. CASE SignalReadyFails
  <2> USE <1>2 DEF SignalReadyFails, BeginTeardown, runVars, hostVars, pointVars, Alive
  <2>1. TypeOK'
    BY Zenon DEF TypeOK, PhaseInv
  <2>2. PhaseInv'
    BY DEF TypeOK, PhaseInv
  <2>3. EndInv'
    BY DEF TypeOK, PhaseInv, EndInv, Targets
  <2>4. (\A q \in Points : PointInv(q))'
    BY DEF TypeOK, PhaseInv, PointInv
  <2>5. ReadyFileIsOurs'
    BY DEF TypeOK, PhaseInv, ReadyFileIsOurs
  <2>6. QED  BY <2>1, <2>2, <2>3, <2>4, <2>5
<1>3. CASE TakeSignal
  <2> USE <1>3 DEF TakeSignal, BeginTeardown, runVars, hostVars, pointVars, Alive
  <2>1. TypeOK'
    BY Zenon DEF TypeOK, PhaseInv
  <2>2. PhaseInv'
    BY DEF TypeOK, PhaseInv
  <2>3. EndInv'
    BY DEF TypeOK, PhaseInv, EndInv, Targets
  <2>4. (\A q \in Points : PointInv(q))'
    BY DEF TypeOK, PhaseInv, PointInv
  <2>5. ReadyFileIsOurs'
    BY DEF TypeOK, PhaseInv, ReadyFileIsOurs
  <2>6. QED  BY <2>1, <2>2, <2>3, <2>4, <2>5
<1>4. ASSUME NEW p \in Points, PointExited(p)
      PROVE  IInv'
  <2> USE <1>4 DEF PointExited, BeginTeardown, runVars, hostVars, pointVars, Alive
  <2>1. TypeOK'
    BY DEF TypeOK, PhaseInv
  <2>2. PhaseInv'
    BY DEF TypeOK, PhaseInv
  <2>3. EndInv'
    BY DEF TypeOK, PhaseInv, EndInv, Targets
  <2>4. (\A q \in Points : PointInv(q))'
    BY DEF TypeOK, PhaseInv, PointInv
  <2>5. ReadyFileIsOurs'
    BY DEF TypeOK, PhaseInv, ReadyFileIsOurs
  <2>6. QED  BY <2>1, <2>2, <2>3, <2>4, <2>5
<1>5. CASE TeardownDone
  <2> USE <1>5 DEF TeardownDone, runVars, hostVars, pointVars, Alive
  <2>1. TypeOK'
    BY DEF TypeOK, PhaseInv
  <2>2. PhaseInv'
    BY DEF TypeOK, PhaseInv
  <2>3. EndInv'
    BY DEF TypeOK, PhaseInv, EndInv, Targets
  <2>4. (\A q \in Points : PointInv(q))'
    BY DEF TypeOK, PhaseInv, PointInv
  <2>5. ReadyFileIsOurs'
    BY DEF TypeOK, PhaseInv, ReadyFileIsOurs
  <2>6. QED  BY <2>1, <2>2, <2>3, <2>4, <2>5
<1>6. CASE Retract
  <2> USE <1>6 DEF Retract, runVars, hostVars, pointVars, Alive
  <2>1. TypeOK'
    <3>1. readyFile' \in BOOLEAN  BY Zenon DEF TypeOK
    <3>2. QED  BY <3>1 DEF TypeOK
  <2>2. PhaseInv'
    BY DEF TypeOK, PhaseInv
  <2>3. EndInv'
    BY DEF TypeOK, PhaseInv, EndInv, Targets
  <2>4. (\A q \in Points : PointInv(q))'
    BY DEF TypeOK, PhaseInv, PointInv
  <2>5. ReadyFileIsOurs'
    BY Zenon DEF TypeOK, PhaseInv, ReadyFileIsOurs
  <2>6. QED  BY <2>1, <2>2, <2>3, <2>4, <2>5
<1>7. QED  BY <1>1, <1>2, <1>3, <1>4, <1>5, <1>6 DEF Finish

\* IInv is preserved by a signal, a kill and a restart.
LEMMA HostStepPreserves ==
  ASSUME IInv, Terminate \/ Kill \/ Restart
  PROVE  IInv'
<1> USE DEF IInv
<1>1. CASE Terminate
  <2> USE <1>1 DEF Terminate, runVars, hostVars, pointVars, Alive
  <2>1. TypeOK'
    BY DEF TypeOK, PhaseInv
  <2>2. PhaseInv'
    BY DEF TypeOK, PhaseInv
  <2>3. EndInv'
    BY DEF TypeOK, PhaseInv, EndInv, Targets
  <2>4. (\A q \in Points : PointInv(q))'
    BY DEF TypeOK, PhaseInv, PointInv
  <2>5. ReadyFileIsOurs'
    BY DEF TypeOK, PhaseInv, ReadyFileIsOurs
  <2>6. QED  BY <2>1, <2>2, <2>3, <2>4, <2>5
<1>2. CASE Kill
  <2> USE <1>2 DEF Kill, Wiped, runVars, hostVars, pointVars, Alive
  <2>1. TypeOK'
    <3>1. /\ vfs' \in [Points -> BOOLEAN] /\ late' \in [Points -> BOOLEAN]
          /\ waited' \in [Points -> BOOLEAN]
      BY Zenon
    <3>2. /\ 0 \in 0..MaxMounts /\ 0 \in 0..MaxDirty
          /\ 1 \in 1..(MaxMounts + 1)
      OBVIOUS
    <3>3. QED  BY Zenon, <3>1, <3>2 DEF TypeOK
  <2>2. PhaseInv'
    BY DEF TypeOK, PhaseInv
  <2>3. EndInv'
    BY DEF TypeOK, PhaseInv, EndInv, Targets
  <2>4. (\A q \in Points : PointInv(q))'
    BY DEF TypeOK, PhaseInv, PointInv
  <2>5. ReadyFileIsOurs'
    BY DEF TypeOK, PhaseInv, ReadyFileIsOurs
  <2>6. QED  BY <2>1, <2>2, <2>3, <2>4, <2>5
<1>3. CASE Restart
  <2> USE <1>3 DEF Restart, Wiped, runVars, hostVars, pointVars, Alive
  <2>1. TypeOK'
    <3>1. /\ vfs' \in [Points -> BOOLEAN] /\ late' \in [Points -> BOOLEAN]
          /\ waited' \in [Points -> BOOLEAN]
      BY Zenon
    <3>2. /\ 0 \in 0..MaxMounts /\ 0 \in 0..MaxDirty
          /\ 1 \in 1..(MaxMounts + 1)
      OBVIOUS
    <3>3. QED  BY Zenon, <3>1, <3>2 DEF TypeOK
  <2>2. PhaseInv'
    BY DEF TypeOK, PhaseInv
  <2>3. EndInv'
    BY DEF TypeOK, PhaseInv, EndInv, Targets
  <2>4. (\A q \in Points : PointInv(q))'
    BY DEF TypeOK, PhaseInv, PointInv
  <2>5. ReadyFileIsOurs'
    BY DEF TypeOK, PhaseInv, ReadyFileIsOurs
  <2>6. QED  BY <2>1, <2>2, <2>3, <2>4, <2>5
<1>4. QED  BY <1>1, <1>2, <1>3

\* IInv is preserved by a step of a mount's goroutines, of its writers or of its uploader.
LEMMA PointStepPreserves ==
  ASSUME IInv, NEW p \in Points, PointStep(p)
  PROVE  IInv'
<1> USE DEF IInv
<1>1. CASE Drained(p)
  <2> USE <1>1 DEF Drained, runVars, hostVars, pointVars, Alive
  <2>1. TypeOK'
    BY DEF TypeOK, PhaseInv
  <2>2. PhaseInv'
    BY DEF TypeOK, PhaseInv
  <2>3. EndInv'
    <3>1. p \in Targets => pc # "retract" /\ pc # "exited"
      BY DEF EndInv
    <3>2. p >= next => pc \notin {"teardown", "retract", "exited"}
      BY DEF EndInv
    <3>3. QED  BY <3>1, <3>2 DEF TypeOK, EndInv, Targets
  <2>4. (\A q \in Points : PointInv(q))'
    BY SMTT(40) DEF TypeOK, PhaseInv, PointInv
  <2>5. ReadyFileIsOurs'
    BY DEF TypeOK, PhaseInv, ReadyFileIsOurs
  <2>6. QED  BY <2>1, <2>2, <2>3, <2>4, <2>5
<1>2. CASE DrainTimesOut(p)
  <2> USE <1>2 DEF DrainTimesOut, runVars, hostVars, pointVars, Alive
  <2>1. TypeOK'
    BY DEF TypeOK, PhaseInv
  <2>2. PhaseInv'
    BY DEF TypeOK, PhaseInv
  <2>3. EndInv'
    <3>1. p \in Targets => pc # "retract" /\ pc # "exited"
      BY DEF EndInv
    <3>2. p >= next => pc \notin {"teardown", "retract", "exited"}
      BY DEF EndInv
    <3>3. QED  BY <3>1, <3>2 DEF TypeOK, EndInv, Targets
  <2>4. (\A q \in Points : PointInv(q))'
    BY DEF TypeOK, PhaseInv, PointInv
  <2>5. ReadyFileIsOurs'
    BY DEF TypeOK, PhaseInv, ReadyFileIsOurs
  <2>6. QED  BY <2>1, <2>2, <2>3, <2>4, <2>5
<1>3. CASE ShutdownVFS(p)
  <2> USE <1>3 DEF ShutdownVFS, runVars, hostVars, pointVars, Alive
  <2>1. TypeOK'
    BY DEF TypeOK, PhaseInv
  <2>2. PhaseInv'
    BY DEF TypeOK, PhaseInv
  <2>3. EndInv'
    BY DEF TypeOK, PhaseInv, EndInv, Targets
  <2>4. (\A q \in Points : PointInv(q))'
    BY DEF TypeOK, PhaseInv, PointInv
  <2>5. ReadyFileIsOurs'
    BY DEF TypeOK, PhaseInv, ReadyFileIsOurs
  <2>6. QED  BY <2>1, <2>2, <2>3, <2>4, <2>5
<1>4. CASE DetachSucceeds(p)
  <2> USE <1>4 DEF DetachSucceeds, runVars, hostVars, pointVars, Alive
  <2>1. TypeOK'
    BY DEF TypeOK, PhaseInv
  <2>2. PhaseInv'
    BY DEF TypeOK, PhaseInv
  <2>3. EndInv'
    BY DEF TypeOK, PhaseInv, EndInv, Targets
  <2>4. (\A q \in Points : PointInv(q))'
    BY SMTT(40) DEF TypeOK, PhaseInv, PointInv
  <2>5. ReadyFileIsOurs'
    BY DEF TypeOK, PhaseInv, ReadyFileIsOurs
  <2>6. QED  BY <2>1, <2>2, <2>3, <2>4, <2>5
<1>5. CASE DetachFails(p)
  <2> USE <1>5 DEF DetachFails, runVars, hostVars, pointVars, Alive
  <2>1. TypeOK'
    BY SMTT(40) DEF TypeOK, PhaseInv
  <2>2. PhaseInv'
    BY DEF TypeOK, PhaseInv
  <2>3. EndInv'
    BY DEF TypeOK, PhaseInv, EndInv, Targets
  <2>4. (\A q \in Points : PointInv(q))'
    BY DEF TypeOK, PhaseInv, PointInv
  <2>5. ReadyFileIsOurs'
    BY DEF TypeOK, PhaseInv, ReadyFileIsOurs
  <2>6. QED  BY <2>1, <2>2, <2>3, <2>4, <2>5
<1>6. CASE DetachReturned(p)
  <2> USE <1>6 DEF DetachReturned, runVars, hostVars, pointVars, Alive
  <2>1. TypeOK'
    BY DEF TypeOK, PhaseInv
  <2>2. PhaseInv'
    BY DEF TypeOK, PhaseInv
  <2>3. EndInv'
    BY DEF TypeOK, PhaseInv, EndInv, Targets
  <2>4. (\A q \in Points : PointInv(q))'
    BY DEF TypeOK, PhaseInv, PointInv
  <2>5. ReadyFileIsOurs'
    BY DEF TypeOK, PhaseInv, ReadyFileIsOurs
  <2>6. QED  BY <2>1, <2>2, <2>3, <2>4, <2>5
<1>7. CASE GraceExpires(p)
  <2> USE <1>7 DEF GraceExpires, runVars, hostVars, pointVars, Alive
  <2>1. TypeOK'
    BY DEF TypeOK, PhaseInv
  <2>2. PhaseInv'
    BY DEF TypeOK, PhaseInv
  <2>3. EndInv'
    BY DEF TypeOK, PhaseInv, EndInv, Targets
  <2>4. (\A q \in Points : PointInv(q))'
    BY DEF TypeOK, PhaseInv, PointInv
  <2>5. ReadyFileIsOurs'
    BY DEF TypeOK, PhaseInv, ReadyFileIsOurs
  <2>6. QED  BY <2>1, <2>2, <2>3, <2>4, <2>5
<1>8. CASE WaitReturns(p)
  <2> USE <1>8 DEF WaitReturns, runVars, hostVars, pointVars, Alive
  <2>1. TypeOK'
    BY DEF TypeOK, PhaseInv
  <2>2. PhaseInv'
    BY DEF TypeOK, PhaseInv
  <2>3. EndInv'
    BY DEF TypeOK, PhaseInv, EndInv, Targets
  <2>4. (\A q \in Points : PointInv(q))'
    <3> SUFFICES ASSUME NEW q \in Points PROVE PointInv(q)'  OBVIOUS
    <3>1. PointInv(q)  OBVIOUS
    <3>2. CASE q # p
      BY <3>1, <3>2 DEF TypeOK, PointInv
    <3>3. CASE q = p
      <4>1. p < next
        BY DEF TypeOK, PhaseInv
      <4>2. QED  BY <3>1, <3>3, <4>1 DEF TypeOK, PointInv
    <3>4. QED  BY <3>2, <3>3
  <2>5. ReadyFileIsOurs'
    BY DEF TypeOK, PhaseInv, ReadyFileIsOurs
  <2>6. QED  BY <2>1, <2>2, <2>3, <2>4, <2>5
<1>9. CASE WaitFinalises(p)
  <2> USE <1>9 DEF WaitFinalises, runVars, hostVars, pointVars, Alive
  <2>1. TypeOK'
    <3>1. vfs' \in [Points -> BOOLEAN] /\ waited' \in [Points -> BOOLEAN]
      BY Zenon DEF TypeOK
    <3>2. kernel' \in [Points -> {"none", "live", "dead"}]
      BY DEF TypeOK
    <3>3. QED  BY <3>1, <3>2 DEF TypeOK
  <2>2. PhaseInv'
    BY DEF TypeOK, PhaseInv
  <2>3. EndInv'
    BY DEF TypeOK, PhaseInv, EndInv, Targets
  <2>4. (\A q \in Points : PointInv(q))'
    <3> SUFFICES ASSUME NEW q \in Points PROVE PointInv(q)'  OBVIOUS
    <3>1. PointInv(q)  OBVIOUS
    <3>2. CASE q # p
      BY <3>1, <3>2 DEF TypeOK, PointInv
    <3>3. CASE q = p
      <4>1. p < next
        BY DEF TypeOK, PhaseInv
      <4>2. kernel'[p] \in {"none", "dead"} /\ kernel[p] = "dead"
        BY DEF TypeOK
      <4>3. QED  BY <3>1, <3>3, <4>1, <4>2 DEF TypeOK, PointInv
    <3>4. QED  BY <3>2, <3>3
  <2>5. ReadyFileIsOurs'
    BY DEF TypeOK, PhaseInv, ReadyFileIsOurs
  <2>6. QED  BY <2>1, <2>2, <2>3, <2>4, <2>5
<1>10. CASE ServeEnds(p)
  <2> USE <1>10 DEF ServeEnds, runVars, hostVars, pointVars, Alive
  <2>1. TypeOK'
    BY DEF TypeOK, PhaseInv
  <2>2. PhaseInv'
    BY DEF TypeOK, PhaseInv
  <2>3. EndInv'
    BY DEF TypeOK, PhaseInv, EndInv, Targets
  <2>4. (\A q \in Points : PointInv(q))'
    <3> SUFFICES ASSUME NEW q \in Points PROVE PointInv(q)'  OBVIOUS
    <3>1. PointInv(q)  OBVIOUS
    <3>2. CASE q # p
      BY <3>1, <3>2 DEF TypeOK, PointInv
    <3>3. CASE q = p
      <4>1. kernel'[p] \in {"none", "dead"} /\ kernel[p] = "live"
        BY DEF TypeOK
      <4>2. QED  BY <3>1, <3>3, <4>1 DEF TypeOK, PointInv
    <3>4. QED  BY <3>2, <3>3
  <2>5. ReadyFileIsOurs'
    BY DEF TypeOK, PhaseInv, ReadyFileIsOurs
  <2>6. QED  BY <2>1, <2>2, <2>3, <2>4, <2>5
<1>11. CASE GuestWrite(p)
  <2> USE <1>11 DEF GuestWrite, runVars, hostVars, pointVars, Alive
  <2>1. TypeOK'
    BY DEF TypeOK, PhaseInv
  <2>2. PhaseInv'
    BY DEF TypeOK, PhaseInv
  <2>3. EndInv'
    BY DEF TypeOK, PhaseInv, EndInv, Targets
  <2>4. (\A q \in Points : PointInv(q))'
    <3> SUFFICES ASSUME NEW q \in Points PROVE PointInv(q)'  OBVIOUS
    <3>1. PointInv(q)  OBVIOUS
    <3>2. CASE q # p
      BY <3>1, <3>2 DEF TypeOK, PointInv
    <3>3. CASE q = p
      <4>1. stage[p] \notin {"none", "building", "aborting"}
        BY DEF PointInv
      <4>2. drained[p] = "yes" => late'[p]
        BY Zenon DEF TypeOK
      <4>3. QED  BY <3>1, <3>3, <4>1, <4>2 DEF TypeOK, PointInv
    <3>4. QED  BY <3>2, <3>3
  <2>5. ReadyFileIsOurs'
    BY DEF TypeOK, PhaseInv, ReadyFileIsOurs
  <2>6. QED  BY <2>1, <2>2, <2>3, <2>4, <2>5
<1>12. CASE Upload(p)
  <2> USE <1>12 DEF Upload, runVars, hostVars, pointVars, Alive
  <2>1. TypeOK'
    BY DEF TypeOK, PhaseInv
  <2>2. PhaseInv'
    BY DEF TypeOK, PhaseInv
  <2>3. EndInv'
    BY DEF TypeOK, PhaseInv, EndInv, Targets
  <2>4. (\A q \in Points : PointInv(q))'
    <3> SUFFICES ASSUME NEW q \in Points PROVE PointInv(q)'  OBVIOUS
    <3>1. PointInv(q)  OBVIOUS
    <3>2. CASE q # p
      BY <3>1, <3>2 DEF TypeOK, PointInv
    <3>3. CASE q = p
      <4>1. dirty'[p] = dirty[p] - 1 /\ dirty[p] \in Nat /\ dirty[p] > 0
        BY DEF TypeOK
      <4>2. QED  BY <3>1, <3>3, <4>1 DEF TypeOK, PointInv
    <3>4. QED  BY <3>2, <3>3
  <2>5. ReadyFileIsOurs'
    BY DEF TypeOK, PhaseInv, ReadyFileIsOurs
  <2>6. QED  BY <2>1, <2>2, <2>3, <2>4, <2>5
<1>13. QED  BY <1>1, <1>2, <1>3, <1>4, <1>5, <1>6, <1>7, <1>8, <1>9, <1>10, <1>11, <1>12 DEF PointStep, Drain, Detacher, Detach

\* IInv is an invariant of every behaviour.
THEOREM Inductive == Spec => []IInv
<1>1. Init => IInv
  <2> SUFFICES ASSUME Init PROVE IInv  OBVIOUS
  <2> USE DEF Init
  <2>1. TypeOK
    <3>1. /\ vfs \in [Points -> BOOLEAN] /\ late \in [Points -> BOOLEAN]
          /\ waited \in [Points -> BOOLEAN] /\ readyFile \in BOOLEAN
      BY Zenon
    <3>2. /\ 0 \in 0..MaxMounts /\ 0 \in 0..MaxDirty
          /\ 1 \in 1..(MaxMounts + 1)
      OBVIOUS
    <3>3. QED  BY Zenon, <3>1, <3>2 DEF TypeOK
  <2>2. PhaseInv /\ EndInv /\ ReadyFileIsOurs
    BY DEF PhaseInv, EndInv, ReadyFileIsOurs
  <2>3. \A p \in Points : PointInv(p)
    BY DEF PointInv
  <2>4. QED  BY <2>1, <2>2, <2>3 DEF IInv
<1>2. IInv /\ [Next]_vars => IInv'
  <2> SUFFICES ASSUME IInv, [Next]_vars PROVE IInv'  OBVIOUS
  <2>1. CASE UNCHANGED vars
    <3> USE <2>1 DEF vars, runVars, hostVars, pointVars, IInv
    <3>1. TypeOK'
      BY DEF TypeOK
    <3>2. PhaseInv' /\ ReadyFileIsOurs'
      BY DEF PhaseInv, ReadyFileIsOurs
    <3>3. EndInv'
      BY DEF EndInv, Targets
    <3>4. (\A p \in Points : PointInv(p))'
      BY DEF PointInv
    <3>5. QED  BY <3>1, <3>2, <3>3, <3>4
  <2>2. CASE Next
    BY <2>2, StartupPreserves, MountOnePreserves, FinishPreserves, HostStepPreserves,
       PointStepPreserves DEF Next, Run
  <2>3. QED  BY <2>1, <2>2
<1>3. QED  BY <1>1, <1>2, PTL DEF Spec

\* Every variable keeps its type in every behaviour, for any number of mounts.
THEOREM TypeCorrect == Spec => []TypeOK
BY Inductive, PTL DEF IInv

\* orchestrator.run never leaves a ready-file of its own on disk that does not
\* stand for a full set of confirmed mounts.
THEOREM ReadyFileSound == Spec => []ReadyFileIsOurs
BY Inductive, PTL DEF IInv

\* When run has returned, doUnmount has been through every mount it confirmed.
THEOREM TeardownComplete == Spec => []NoMountForgotten
<1>1. IInv => NoMountForgotten
  BY DEF IInv, EndInv, NoMountForgotten
<1>2. QED  BY Inductive, <1>1, PTL

\* A nil result of run means that every detach that returned succeeded.
THEOREM SuccessMeansDetached == Spec => []SuccessLeavesNoMount
<1>1. IInv => SuccessLeavesNoMount
  <2> SUFFICES ASSUME IInv, pc = "exited", result = "nil", NEW p \in Points,
                      kernel[p] # "none", p # exitedPt
               PROVE  uerr[p] = "noreturn"
    BY DEF SuccessLeavesNoMount
  <2> USE DEF IInv
  <2>1. PointInv(p)  OBVIOUS
  <2>2. CASE p \in Targets
    <3>1. stage[p] = "done" /\ uerr[p] # "err"
      BY <2>2 DEF EndInv
    <3>2. uerr[p] # "none" /\ uerr[p] # "ok"
      BY <2>1, <3>1 DEF PointInv
    <3>3. QED  BY <3>1, <3>2 DEF TypeOK
  <2>3. CASE p >= next
    <3>1. stage[p] = "none"
      BY <2>3 DEF EndInv
    <3>2. QED  BY <2>1, <3>1 DEF PointInv
  <2>4. QED  BY <2>2, <2>3 DEF Targets, TypeOK
<1>2. QED  BY Inductive, <1>1, PTL

\* Write-back items are lost at exit only for one of the three named reasons.
THEOREM LossAccounted == Spec => []LossIsAccounted
<1>1. IInv => LossIsAccounted
  <2> SUFFICES ASSUME IInv, pc = "exited", NEW p \in Points, dirty[p] > 0, p # exitedPt
               PROVE  drained[p] = "timeout" \/ late[p]
    BY DEF LossIsAccounted
  <2> USE DEF IInv
  <2>1. PointInv(p)  OBVIOUS
  <2>2. dirty[p] # 0 /\ stage[p] \notin {"none", "building", "aborting"}
    BY <2>1 DEF PointInv
  <2>3. stage[p] = "done"
    <3>1. CASE p \in Targets  BY <3>1 DEF EndInv
    <3>2. CASE p >= next      BY <2>2, <3>2 DEF EndInv
    <3>3. QED  BY <3>1, <3>2 DEF Targets, TypeOK
  <2>4. drained[p] # "no"
    BY <2>1, <2>3 DEF PointInv
  <2>5. QED  BY <2>1, <2>2, <2>4 DEF PointInv, TypeOK
<1>2. QED  BY Inductive, <1>1, PTL

\* The ready-file appears at most once in a run, with every mount confirmed.
THEOREM AnnouncedOnce == Spec => AnnouncedOnceAllUp
<1> DEFINE Announces == ~readyFile /\ readyFile' =>
             ~announced /\ \A p \in Points : stage[p] = (IF p <= n THEN "up" ELSE "none")
<1>1. IInv /\ [Next]_vars => [Announces]_vars
  <2> SUFFICES ASSUME IInv, Next, ~readyFile, readyFile'
               PROVE  ~announced /\ \A p \in Points :
                        stage[p] = (IF p <= n THEN "up" ELSE "none")
    OBVIOUS
  <2>1. pc = "ready"
    <3>1. CASE Startup
      BY <3>1, Zenon DEF Startup, SeamUnavailable, RemoveStale, RemoveStaleFails,
         BuildSpecsRejects, BuildSpecs, PollSignal, PollClear, hostVars
    <3>2. CASE MountOne
      BY <3>2, Zenon DEF MountOne, MountFails, WaitMountFails, AbortReturns, MountServes,
         WaitReady, WaitReadyTimeout, HalfStartedDown, hostVars
    <3>3. CASE Finish
      BY <3>3, Zenon DEF Finish, SignalReady, SignalReadyFails, TakeSignal, PointExited,
         TeardownDone, Retract, hostVars
    <3>4. CASE \E p \in Points : PointStep(p)
      BY <3>4, Zenon DEF PointStep, Drain, Detacher, Detach, Drained, DrainTimesOut,
         ShutdownVFS, DetachSucceeds, DetachFails, DetachReturned, GraceExpires,
         WaitReturns, WaitFinalises, ServeEnds, GuestWrite, Upload, hostVars
    <3>5. CASE Terminate \/ Kill \/ Restart
      BY <3>5, Zenon DEF Terminate, Kill, Restart, Wiped
    <3>6. QED  BY <3>1, <3>2, <3>3, <3>4, <3>5 DEF Next, Run
  <2>2. /\ ~announced /\ next = n + 1
        /\ \A p \in Points : (p < next => stage[p] = "up") /\ (p >= next => stage[p] = "none")
    BY <2>1 DEF IInv, PhaseInv
  <2>3. QED  BY <2>2 DEF IInv, TypeOK
<1>2. QED  BY Inductive, <1>1, PTL DEF Spec, AnnouncedOnceAllUp

-----------------------------------------------------------------------------
(* Orchestrator implements Session: every step of the goroutines is one step of *)
(* the session its host sees, or none.                                          *)

SStep == [Host!SNext]_(Host!svars)

USE ConstAssumption DEF Points

\* A step that neither moves run to another phase nor takes a mount from
\* "not done" to "done" is invisible to the host.
LEMMA HeldSame ==
  ASSUME Alive, Alive', next' = next, exitedPt' = exitedPt,
         \A p \in Targets : stage'[p] = "done" <=> stage[p] = "done"
  PROVE  Held' = Held
BY DEF Held, Targets

\* No mount is held before the first one is confirmed.
LEMMA HeldEmpty ==
  ASSUME TypeOK, next = 1
  PROVE  Held = {}
BY DEF Held, Targets, TypeOK

\* Every mount run has confirmed is held while run is starting or serving.
LEMMA HeldUp ==
  ASSUME IInv, pc \in {"poll", "mount", "ready", "block"}
  PROVE  Held = 1..(next - 1) /\ Targets = 1..(next - 1) /\ 1..(next - 1) \subseteq Points
<1>1. next \in 1..(MaxMounts + 1) /\ exitedPt = 0
  BY DEF IInv, TypeOK, PhaseInv
<1>2. Targets = 1..(next - 1) /\ 1..(next - 1) \subseteq Points
  BY <1>1 DEF Targets
<1>3. \A p \in 1..(next - 1) : stage[p] = "up"
  BY <1>1, <1>2 DEF IInv, PhaseInv
<1>4. QED  BY <1>2, <1>3, Zenon DEF Held, Alive

\* unmountAll starts doUnmount for mounts that are up: none of them is done yet.
LEMMA TeardownStops ==
  ASSUME IInv, pc \in {"poll", "mount", "ready", "block"},
         NEW why, BeginTeardown(why, 1..(next - 1)),
         next' = next, exitedPt' = exitedPt
  PROVE  Held' = Held /\ Phase' = "stopping"
<1>1. Alive /\ Alive' /\ Phase' = "stopping"
  BY DEF Alive, Phase, BeginTeardown
<1>2. \A p \in Targets : stage[p] = "up" /\ stage'[p] = "drain"
  <2>1. Targets = 1..(next - 1) /\ 1..(next - 1) \subseteq Points
    BY HeldUp
  <2>2. \A p \in 1..(next - 1) : stage'[p] = "drain"
    BY <2>1 DEF BeginTeardown
  <2>3. \A p \in 1..(next - 1) : stage[p] = "up"
    BY <2>1 DEF IInv, TypeOK, PhaseInv
  <2>4. QED  BY <2>1, <2>2, <2>3
<1>3. QED  BY <1>1, <1>2, HeldSame

\* The start-up steps of run.
LEMMA StartupRefines ==
  ASSUME IInv, Startup
  PROVE  SStep
<1> USE DEF IInv, SStep, Host!SNext, Host!svars, hostVars, pointVars
<1>1. CASE SeamUnavailable \/ RemoveStaleFails
  <2>1. Held = {} /\ Held' = {} /\ Phase = "off" /\ Phase' = "left" /\ readyFile' = readyFile
    BY <1>1, HeldEmpty DEF SeamUnavailable, RemoveStaleFails, PhaseInv, Held, Alive, Phase
  <2>2. QED  BY <2>1 DEF Host!GiveUp
<1>2. CASE RemoveStale
  <2>1. TypeOK' /\ next = 1 /\ next' = 1
    BY <1>2, StartupPreserves DEF RemoveStale, PhaseInv
  <2>2. Held = {} /\ Held' = {}
    BY <2>1, HeldEmpty DEF Held, Targets
  <2>3. Phase = "off" /\ Phase' = "starting" /\ readyFile' = FALSE
    BY <1>2 DEF RemoveStale, Phase
  <2>4. QED  BY <2>2, <2>3 DEF Host!Clear
<1>3. CASE BuildSpecsRejects \/ BuildSpecs
  <2>1. next = 1 /\ next' = 1 /\ readyFile' = readyFile
    BY <1>3 DEF BuildSpecsRejects, BuildSpecs, PhaseInv
  <2>2. Held = {} /\ Held' = {}
    BY <2>1, HeldEmpty DEF Held, Targets
  <2>3. Phase = "starting" /\ Phase' \in {"starting", "stopping"}
    BY <1>3 DEF BuildSpecsRejects, BuildSpecs, Phase
  <2>4. QED  BY <2>1, <2>2, <2>3 DEF Host!Stop
<1>4. CASE PollSignal
  <2>1. Held' = Held /\ Phase' = "stopping"
    BY <1>4, TeardownStops DEF PollSignal
  <2>2. Phase = "starting" /\ readyFile' = readyFile
    BY <1>4 DEF PollSignal, Phase
  <2>3. QED  BY <2>1, <2>2 DEF Host!Stop
<1>5. CASE PollClear
  <2>1. Phase' = Phase /\ readyFile' = readyFile /\ Alive /\ Alive'
    BY <1>5 DEF PollClear, Phase, Alive
  <2>2. \A p \in Targets : stage'[p] = stage[p]
    <3>1. Targets \subseteq Points /\ next \notin Targets
      BY <1>5, HeldUp DEF PollClear, TypeOK
    <3>2. stage' = stage \/ stage' = [stage EXCEPT ![next] = "building"]
      BY <1>5, Zenon DEF PollClear
    <3>3. QED  BY <3>1, <3>2 DEF TypeOK
  <2>3. Held' = Held
    BY <1>5, <2>1, <2>2, HeldSame DEF PollClear
  <2>4. QED  BY <2>1, <2>3
<1>6. QED  BY <1>1, <1>2, <1>3, <1>4, <1>5 DEF Startup

\* mountAndWaitReady for one spec.
LEMMA MountOneRefines ==
  ASSUME IInv, MountOne
  PROVE  SStep
<1> USE DEF IInv, SStep, Host!SNext, Host!svars, hostVars, runVars
<1>1. CASE MountFails \/ AbortReturns \/ HalfStartedDown
  <2>1. Held' = Held /\ Phase' = "stopping"
    BY <1>1, TeardownStops DEF MountFails, AbortReturns, HalfStartedDown
  <2>2. Phase = "starting" /\ readyFile' = readyFile
    BY <1>1 DEF MountFails, AbortReturns, HalfStartedDown, Phase
  <2>3. QED  BY <2>1, <2>2 DEF Host!Stop
<1>2. CASE WaitMountFails \/ MountServes \/ WaitReadyTimeout
  <2>1. Phase' = Phase /\ readyFile' = readyFile /\ Alive /\ Alive'
    BY <1>2 DEF WaitMountFails, MountServes, WaitReadyTimeout, Phase, Alive
  <2>2. pc = "mount" /\ next' = next /\ exitedPt' = exitedPt
    BY <1>2 DEF WaitMountFails, MountServes, WaitReadyTimeout
  <2>3. \A p \in Targets : stage'[p] = stage[p]
    <3>1. Targets \subseteq Points /\ next \notin Targets
      BY <2>2, HeldUp DEF TypeOK
    <3>2. PICK s : stage' = [stage EXCEPT ![next] = s]
      BY <1>2, Zenon DEF WaitMountFails, MountServes, WaitReadyTimeout
    <3>3. QED  BY <3>1, <3>2 DEF TypeOK
  <2>4. Held' = Held
    BY <2>1, <2>2, <2>3, HeldSame
  <2>5. QED  BY <2>1, <2>4
<1>3. CASE WaitReady
  <2>1. Phase = "starting" /\ Phase' = "starting" /\ readyFile' = readyFile
    BY <1>3 DEF WaitReady, Phase
  <2>2. next \in Points /\ next' = next + 1 /\ pc = "mount" /\ pc' = "poll"
    BY <1>3 DEF WaitReady, PhaseInv, TypeOK
  <2>3. IInv'
    BY MountOnePreserves
  <2>4. Held = 1..(next - 1)
    BY <2>2, HeldUp
  <2>5. Held' = 1..next
    <3>1. exitedPt' = 0 /\ \A p \in 1..next : stage'[p] = "up"
      BY <2>2, <2>3 DEF PhaseInv, TypeOK
    <3>2. Targets' = 1..next
      BY <2>2, <3>1 DEF Targets
    <3>3. Alive'
      BY <2>2 DEF Alive
    <3>4. QED  BY <3>1, <3>2, <3>3, Zenon DEF Held
  <2>6. next \notin Held /\ Held' = Held \cup {next}
    BY <2>2, <2>4, <2>5
  <2>7. QED  BY <2>1, <2>2, <2>6 DEF Host!Acquire
<1>4. QED  BY <1>1, <1>2, <1>3 DEF MountOne

\* Readiness, the final select, and the end of run.
LEMMA FinishRefines ==
  ASSUME IInv, Finish
  PROVE  SStep
<1> USE DEF IInv, SStep, Host!SNext, Host!svars, hostVars, pointVars
<1>1. CASE SignalReady \/ SignalReadyFails
  <2>1. pc = "ready" /\ next' = next /\ exitedPt' = exitedPt /\ Phase = "starting"
    BY <1>1, Zenon DEF SignalReady, SignalReadyFails, Phase
  <2>2. Held # {}
    <3>1. n > 0 /\ next = n + 1 /\ n \in Nat
      BY <2>1 DEF PhaseInv, TypeOK
    <3>2. 1 \in 1..(next - 1)
      BY <3>1
    <3>3. QED  BY <2>1, <3>2, HeldUp, Zenon
  <2>3. CASE SignalReady
    <3>1. Phase' = "serving" /\ readyFile' \in BOOLEAN /\ Alive /\ Alive'
      BY <2>3 DEF SignalReady, Phase, Alive
    <3>2. Held' = Held
      BY <2>1, <2>3, <3>1, HeldSame DEF SignalReady
    <3>3. QED  BY <2>1, <2>2, <3>1, <3>2 DEF Host!Announce
  <2>4. CASE SignalReadyFails
    <3>1. Held' = Held /\ Phase' = "stopping" /\ readyFile' \in {readyFile, TRUE}
      BY <2>1, <2>4, TeardownStops, Zenon DEF SignalReadyFails
    <3>2. QED  BY <2>1, <2>2, <3>1, Zenon DEF Host!Stop
  <2>5. QED  BY <1>1, <2>3, <2>4
<1>2. CASE TakeSignal
  <2>1. Held' = Held /\ Phase' = "stopping"
    BY <1>2, TeardownStops DEF TakeSignal
  <2>2. Phase = "serving" /\ readyFile' = readyFile
    BY <1>2 DEF TakeSignal, Phase
  <2>3. QED  BY <2>1, <2>2 DEF Host!Stop
<1>3. ASSUME NEW p \in Points, PointExited(p)
      PROVE  SStep
  <2>1. Phase = "serving" /\ Phase' = "stopping" /\ readyFile' = readyFile /\ Alive'
    BY <1>3 DEF PointExited, BeginTeardown, Phase, Alive
  <2>2. pc = "block" /\ next' = next /\ exitedPt' = p /\ p \in 1..(next - 1)
    BY <1>3 DEF PointExited, PointInv, TypeOK
  <2>3. Held = 1..(next - 1) /\ 1..(next - 1) \subseteq Points
    BY <2>2, HeldUp
  <2>4. \A q \in (1..(next - 1)) \ {p} : stage'[q] = "drain"
    BY <1>3, <2>3 DEF PointExited, BeginTeardown
  <2>5. Held' = Held \ {p}
    BY <2>1, <2>2, <2>3, <2>4, Zenon DEF Held, Targets
  <2>6. QED  BY <2>1, <2>2, <2>3, <2>5 DEF Host!Abandon
<1>4. CASE TeardownDone
  <2>1. Phase' = Phase /\ readyFile' = readyFile /\ Alive /\ Alive'
    BY <1>4 DEF TeardownDone, Phase, Alive
  <2>2. Held' = Held
    BY <1>4, <2>1, HeldSame DEF TeardownDone
  <2>3. QED  BY <2>1, <2>2
<1>5. CASE Retract
  <2>1. Phase = "stopping" /\ Phase' = "left" /\ readyFile' \in {FALSE, readyFile}
    BY <1>5, Zenon DEF Retract, Phase
  <2>2. Held = {} /\ Held' = {}
    BY <1>5 DEF Retract, EndInv, Held, Alive
  <2>3. QED  BY <2>1, <2>2, Zenon DEF Host!Leave
<1>6. QED  BY <1>1, <1>2, <1>3, <1>4, <1>5 DEF Finish

\* The steps of one mount's goroutines: only the end of a doUnmount is visible.
LEMMA PointStepRefines ==
  ASSUME IInv, NEW p \in Points, PointStep(p)
  PROVE  SStep
<1> USE DEF IInv, SStep, Host!SNext, Host!svars, hostVars, runVars
<1>1. pc' = pc /\ next' = next /\ exitedPt' = exitedPt /\ readyFile' = readyFile /\ Phase' = Phase
  BY Zenon DEF PointStep, Drain, Detacher, Detach, Drained, DrainTimesOut, ShutdownVFS,
         DetachSucceeds, DetachFails, DetachReturned, GraceExpires, WaitReturns,
         WaitFinalises, ServeEnds, GuestWrite, Upload, Phase
<1>2. Alive /\ Alive'
  BY <1>1, Zenon DEF PointStep, Drain, Detacher, Detach, Drained, DrainTimesOut, ShutdownVFS,
         DetachSucceeds, DetachFails, DetachReturned, GraceExpires, WaitReturns,
         WaitFinalises, ServeEnds, GuestWrite, Upload, Alive
<1>3. CASE Drain(p)
  <2>1. \A q \in Targets : stage'[q] = "done" <=> stage[q] = "done"
    BY <1>3 DEF Drain, Drained, DrainTimesOut, TypeOK, Targets
  <2>2. QED  BY <1>1, <1>2, <2>1, HeldSame
<1>4. CASE Detacher(p) \/ WaitReturns(p) \/ WaitFinalises(p) \/ ServeEnds(p)
           \/ GuestWrite(p) \/ Upload(p)
  <2>1. stage' = stage
    BY <1>4, Zenon DEF Detacher, ShutdownVFS, DetachSucceeds, DetachFails, WaitReturns,
                WaitFinalises, ServeEnds, GuestWrite, Upload
  <2>2. QED  BY <1>1, <1>2, <2>1, HeldSame
<1>5. CASE Detach(p)
  <2>1. /\ stage[p] = "detach"
        /\ \A q \in Points : stage'[q] = IF q = p THEN "done" ELSE stage[q]
    BY <1>5 DEF Detach, DetachReturned, GraceExpires, TypeOK
  <2>2. Targets \subseteq Points
    BY DEF Targets, TypeOK
  <2>3. CASE p \notin Targets
    <3>1. \A q \in Targets : stage'[q] = "done" <=> stage[q] = "done"
      BY <2>1, <2>2, <2>3
    <3>2. QED  BY <1>1, <1>2, <3>1, HeldSame
  <2>4. CASE p \in Targets
    <3>1. pc = "teardown"
      <4>1. p < next
        BY <2>4 DEF Targets, TypeOK
      <4>2. pc \notin {"entry", "specs"}
        BY <2>1 DEF PhaseInv
      <4>3. pc \notin {"poll", "mount", "ready", "block"}
        BY <2>1, <4>1 DEF PhaseInv
      <4>4. pc # "retract"
        BY <2>1, <2>4, Zenon DEF EndInv
      <4>5. QED  BY <1>2, <4>2, <4>3, <4>4 DEF TypeOK, Alive
    <3>2. Phase = "stopping"
      BY <3>1 DEF Phase
    <3>3. p \in Held
      BY <1>2, <2>1, <2>4 DEF Held
    <3>4. Held' = Held \ {p}
      BY <1>1, <1>2, <2>1, <2>2, <2>4 DEF Held, Targets
    <3>5. QED  BY <1>1, <3>2, <3>3, <3>4 DEF Host!Release
  <2>5. QED  BY <2>3, <2>4
<1>6. QED  BY <1>3, <1>4, <1>5 DEF PointStep

\* Signals, kills and restarts.
LEMMA HostStepRefines ==
  ASSUME IInv, Terminate \/ Kill \/ Restart
  PROVE  SStep
<1> USE DEF IInv, SStep, Host!SNext, Host!svars, runVars, pointVars
<1>1. CASE Terminate
  <2>1. Phase' = Phase /\ readyFile' = readyFile /\ Alive /\ Alive'
    BY <1>1 DEF Terminate, Phase, Alive
  <2>2. Held' = Held
    BY <1>1, <2>1, HeldSame DEF Terminate
  <2>3. QED  BY <2>1, <2>2
<1>2. CASE Kill
  <2>1. Phase \notin {"left", "killed"} /\ Phase' = "killed" /\ Held' = {} /\ readyFile' = readyFile
    BY <1>2 DEF Kill, Wiped, Alive, Phase, Held, TypeOK
  <2>2. QED  BY <2>1 DEF Host!Perish
<1>3. CASE Restart
  <2>1. Phase \in {"left", "killed"} /\ Phase' = "off" /\ Held = {} /\ readyFile' = readyFile
    BY <1>3 DEF Restart, Wiped, Alive, Phase, Held, TypeOK
  <2>2. Held' = {}
    BY <1>3 DEF Restart, Wiped, Held, Targets
  <2>3. QED  BY <2>1, <2>2 DEF Host!Again
<1>4. QED  BY <1>1, <1>2, <1>3

\* Every behaviour of a run, kills and restarts included, is a behaviour of the
\* session the host is promised.
THEOREM Refinement == Spec => ImplementsSession
<1>1. Init => Host!SInit
  <2> SUFFICES ASSUME Init PROVE Host!SInit  OBVIOUS
  <2>1. Phase = "off"  BY DEF Init, Phase
  <2>2. Held = {}  BY DEF Init, Held, Targets
  <2>3. readyFile \in BOOLEAN  BY Zenon DEF Init
  <2>4. QED  BY <2>1, <2>2, <2>3 DEF Host!SInit
<1>2. IInv /\ [Next]_vars => [Host!SNext]_(Host!svars)
  <2> SUFFICES ASSUME IInv, [Next]_vars PROVE SStep  BY DEF SStep
  <2>1. CASE UNCHANGED vars
    <3>1. Phase' = Phase /\ Held' = Held /\ readyFile' = readyFile
      BY <2>1 DEF vars, runVars, hostVars, pointVars, Phase, Held, Alive, Targets
    <3>2. QED  BY <3>1 DEF SStep, Host!svars
  <2>2. CASE Next
    BY <2>2, StartupRefines, MountOneRefines, FinishRefines, PointStepRefines,
       HostStepRefines DEF Next, Run
  <2>3. QED  BY <2>1, <2>2
<1>3. QED  BY Inductive, <1>1, <1>2, PTL DEF Spec, ImplementsSession, Host!SSpec

=============================================================================
