----------------------- MODULE DeploymentEngineProofs -----------------------
(***************************************************************************)
(* Theorems about DeploymentEngine for every set of releases and processes *)
(* and, under TrackingIsSafe, every set of other faults and crash points.  *)
(***************************************************************************)
EXTENDS DeploymentEngine, ReleaseInstallerProofs

\* The steps at which the engine waits for the installer.
Waiting == {"install", "activated", "reverted", "prune_wait"}

\* The steps between stop() and launch(), at which it
\* supervises nothing.
Stopped == {"clear", "activate", "activated", "rollback", "reverted", "launch"}

\* How the engine's control and the installer's fit together.
Control ==
  /\ at \notin Waiting => step = "idle"
  /\ at \in {"activated", "reverted"} => step \in {"idle", "link"}
  /\ at \in {"activate", "activated"} => op \in {"apply", "rollback_to"}
  /\ at \in {"rollback", "reverted"} => op = "recover"
  /\ at \in {"state", "resume"} => op \in {"start_active", "restore"}
  /\ ~up => op = "idle" /\ handle = NoProc
  /\ at \in Stopped \cup {"state", "resume"} => handle = NoProc
  /\ at = "record" => handle \in Procs

\* The operations that start a release work on the active one.
GoalIsActive ==
  /\ op = "restart" => goal = state.active
  /\ op \in {"start_active", "restore"} /\ at # "state" => goal = state.active
  /\ at \in {"launch", "record"} => goal = state.active
  /\ at = "activated" /\ (step = "link" \/ result = "ok") => goal = state.active
  /\ at = "reverted" /\ (step = "link" \/ result = "ok") => state.active \in Releases

\* Where a live process is known: in the handle, or, from the death of an
\* agent to the end of the next start_active(), in the record alone.
Tracked ==
  \A p \in Live :
    /\ handle \in {p, NoProc}
    /\ handle = NoProc => ~up \/ (op = "start_active" /\ at \in {"state", "resume"})
    /\ at # "record" => record = [boot |-> "this", proc |-> p, rel |-> proc[p]]
    /\ proc[p] = state.active

EngineInv == InstallerInv /\ EngineTypeOK /\ Control /\ GoalIsActive
TrackInv == EngineInv /\ Tracked

-----------------------------------------------------------------------------
\* The engine changes the installer's state only by calling the installer.
LEMMA InstallerSteps ==
  ASSUME EngineInv, [EngineNext]_deviceVars
  PROVE  [InstallerNext]_installerVars
<1> USE DEF InstallerNext, Call
<1>1. CASE Command
  BY <1>1 DEF Command, Restart, Apply, RollbackTo
<1>2. CASE CallActivate
  <2>1. PICK r \in Releases : r = goal
    BY <1>2 DEF CallActivate, At, EngineInv, EngineTypeOK, GoalIsActive
  <2>2. Activate(r) \/ ActivateFails(r)
    BY <1>2, <2>1
    DEF CallActivate, Activate, ActivateFails, WriteState, PreviousAfter
  <2> QED
    BY <2>2
<1>3. CASE EngineStep /\ ~CallActivate
  BY <1>3
  DEF EngineStep, Stop, ClearRecord, Start, WriteRecord, AwaitReady, InstallReturns,
      ActivateReturns, PruneReturns, CallRollback, RollbackReturns, ReadActive,
      ResumeFails, RecordMisread, NothingToAdopt, Adopt
<1>4. CASE AgentStart \/ AgentDies \/ DeviceReboots \/ \E p \in Procs : ProcessExits(p)
  BY <1>4 DEF AgentStart, AgentDies, DeviceReboots, LoseMemory, ProcessExits
<1>5. CASE UNCHANGED deviceVars
  BY <1>5 DEF deviceVars
<1> QED
  BY <1>1, <1>2, <1>3, <1>4, <1>5 DEF EngineNext

\* No step inside an operation of the installer moves the pointers.
LEMMA StepsKeepState == InstallerStep => state' = state
  BY DEF InstallerStep, CreateStaging, CopyFiles, SweepOne, SweepDone, SetAside, Publish,
         Cleanup, Discard, RefreshLink, RemoveFiles, RemoveDirectory, PruneDone, stateVars

\* While activate() or rollback() is under way it can only refresh the link.
LEMMA LinkStep ==
  ASSUME InstallerStep, step \in {"idle", "link"}
  PROVE  RefreshLink
  BY DEF InstallerStep, CreateStaging, CopyFiles, SweepOne, SweepDone, SetAside, Publish,
         Cleanup, Discard, RemoveFiles, RemoveDirectory, PruneDone

-----------------------------------------------------------------------------
\* The engine's own part of EngineInv.
ControlInv == EngineTypeOK /\ Control /\ GoalIsActive

\* The variables an engine step assigns keep their types and fit together.
LEMMA CommandKeepsControl ==
  ASSUME EngineInv, Command
  PROVE  ControlInv'
<1> USE ReleasesAssumption, ProcsAssumption
    DEF EngineInv, ControlInv, EngineTypeOK, Control, GoalIsActive, Ops, EngineSteps,
        Waiting, Stopped, ReleaseOrNone, NoState, Ready, Begin, Finish, installerVars, dirVars, stateVars,
        callVars
<1>1. ASSUME NEW r \in Releases, Apply(r) PROVE ControlInv'
  BY <1>1 DEF Apply, Install, InstallRefused, Return
<1>2. ASSUME NEW r \in Releases, RollbackTo(r) PROVE ControlInv'
  BY <1>2 DEF RollbackTo
<1>3. CASE Restart
  BY <1>3 DEF Restart, NoActiveRead, InstallerInv, InstallerTypeOK
<1> QED
  BY <1>1, <1>2, <1>3 DEF Command

\* stop(), launch(), await_ready() and the calls of apply and recover().
LEMMA OperationKeepsControl ==
  ASSUME EngineInv,
         \/ Stop \/ ClearRecord \/ Start \/ WriteRecord \/ AwaitReady
         \/ InstallReturns \/ CallActivate \/ ActivateReturns \/ PruneReturns
         \/ CallRollback \/ RollbackReturns
  PROVE  ControlInv'
<1> USE ReleasesAssumption, ProcsAssumption
    DEF EngineInv, ControlInv, EngineTypeOK, Control, GoalIsActive, Ops, EngineSteps,
        Waiting, Stopped, ReleaseOrNone, NoState, At, Continue, Begin, Finish, Recover, Unlaunched, Succeed,
        installerVars, dirVars, stateVars, callVars
<1>1. CASE Stop
  BY <1>1 DEF Stop, AfterStop
<1>2. CASE ClearRecord
  BY <1>2 DEF ClearRecord, AfterStop, NoRecord, Records
<1>3. CASE Start
  BY <1>3 DEF Start
<1>4. CASE WriteRecord
  BY <1>4 DEF WriteRecord, AfterLaunch, Records
<1>5. CASE AwaitReady
  BY <1>5 DEF AwaitReady, Prune, PruneFails, Return
<1>6. CASE InstallReturns
  BY <1>6 DEF InstallReturns, ReadStates, NoState, InstallerInv, InstallerTypeOK
<1>7. CASE CallActivate
  BY <1>7 DEF CallActivate, Activate, ActivateFails, WriteState, Return
<1>8. CASE ActivateReturns
  BY <1>8 DEF ActivateReturns
<1>9. CASE PruneReturns
  BY <1>9 DEF PruneReturns
<1>10. CASE CallRollback
  BY <1>10 DEF CallRollback, Rollback, RollbackFails, WriteState, Installed, Return
<1>11. CASE RollbackReturns
  BY <1>11 DEF RollbackReturns, InstallerInv, InstallerTypeOK
<1> QED
  BY <1>1, <1>2, <1>3, <1>4, <1>5, <1>6, <1>7, <1>8, <1>9, <1>10, <1>11

\* start_active(), resume() and the steps of the installer.
LEMMA StartKeepsControl ==
  ASSUME EngineInv,
         \/ ReadActive \/ ResumeFails \/ RecordMisread \/ NothingToAdopt \/ Adopt
         \/ InstallerStep /\ UNCHANGED engineVars
  PROVE  ControlInv'
<1> USE ReleasesAssumption, ProcsAssumption
    DEF EngineInv, ControlInv, EngineTypeOK, Control, GoalIsActive, Ops, EngineSteps,
        Waiting, Stopped, ReleaseOrNone, NoState, At, Continue, Finish, Succeed, installerVars, dirVars,
        stateVars, callVars
<1>1. CASE ReadActive
  BY <1>1 DEF ReadActive, NoActiveRead, InstallerInv, InstallerTypeOK
<1>2. CASE ResumeFails
  BY <1>2 DEF ResumeFails
<1>3. CASE NothingToAdopt
  BY <1>3 DEF NothingToAdopt, NoRecord, Records
<1>4. CASE Adopt
  BY <1>4 DEF Adopt, Live
<1>5. CASE RecordMisread
  BY <1>5 DEF RecordMisread
<1>6. CASE InstallerStep /\ UNCHANGED engineVars
  <2>1. step # "idle"
    BY <1>6
    DEF InstallerStep, CreateStaging, CopyFiles, SweepOne, SweepDone, SetAside, Publish,
        Cleanup, Discard, RefreshLink, RemoveFiles, RemoveDirectory, PruneDone
  <2>2. at \in {"activated", "reverted"} => RefreshLink
    BY <1>6, LinkStep
  <2> QED
    BY <1>6, <2>1, <2>2, StepsKeepState DEF RefreshLink, Return, engineVars, opVars
<1> QED
  BY <1>1, <1>2, <1>3, <1>4, <1>5, <1>6

\* Starts and deaths of the agent, the device and the service.
LEMMA EnvironmentKeepsControl ==
  ASSUME EngineInv,
         AgentStart \/ AgentDies \/ DeviceReboots \/ \E p \in Procs : ProcessExits(p)
  PROVE  ControlInv'
<1> USE ReleasesAssumption, ProcsAssumption
    DEF EngineInv, ControlInv, EngineTypeOK, Control, GoalIsActive, Ops, EngineSteps,
        Waiting, Stopped, ReleaseOrNone, NoState, Begin, Finish, LoseMemory, InstallerCrash, Return,
        installerVars, dirVars, stateVars, callVars, opVars
<1>1. CASE AgentStart
  BY <1>1 DEF AgentStart
<1>2. CASE AgentDies
  BY <1>2 DEF AgentDies
<1>3. CASE DeviceReboots
  BY <1>3 DEF DeviceReboots, NoRecord, Records
<1>4. ASSUME NEW p \in Procs, ProcessExits(p) PROVE ControlInv'
  BY <1>4 DEF ProcessExits
<1> QED
  BY <1>1, <1>2, <1>3, <1>4

\* Every step of the device preserves EngineInv, whatever fails.
LEMMA EngineInvStep ==
  ASSUME EngineInv, [EngineNext]_deviceVars
  PROVE  EngineInv'
<1>1. InstallerInv'
  BY InstallerSteps, InstallerInvStep DEF EngineInv
<1>2. CASE EngineNext
  BY <1>1, <1>2, CommandKeepsControl, OperationKeepsControl, StartKeepsControl,
     EnvironmentKeepsControl
  DEF EngineNext, EngineStep, ControlInv, EngineInv
<1>3. CASE UNCHANGED deviceVars
  BY <1>1, <1>3
  DEF EngineInv, EngineTypeOK, Control, GoalIsActive, deviceVars, installerVars,
      stateVars, callVars, engineVars, opVars
<1> QED
  BY <1>2, <1>3

\* On the first start nothing is deployed and nothing runs.
LEMMA EngineInitially == EngineInit => TrackInv
<1> SUFFICES ASSUME EngineInit PROVE TrackInv
  OBVIOUS
<1> USE DEF EngineInit
<1>1. InstallerInv
  BY InstallerInitially
<1>2. EngineTypeOK
  BY DEF EngineTypeOK, Records, NoRecord, Ops, EngineSteps, ReleaseOrNone, NoState
<1>3. Control /\ GoalIsActive
  BY DEF Control, GoalIsActive, Waiting, Stopped, InstallerInit
<1>4. Tracked
  BY DEF Tracked, Live
<1> QED
  BY <1>1, <1>2, <1>3, <1>4 DEF TrackInv, EngineInv

\* Whatever fails and wherever agent and device stop, the variables of the
\* engine keep their types.
THEOREM EngineTypes == EngineSpec => []EngineTypeOK
<1>1. TrackInv => EngineInv
  BY DEF TrackInv
<1>2. EngineInv => EngineTypeOK
  BY DEF EngineInv
<1> QED
  BY <1>1, <1>2, EngineInitially, EngineInvStep, PTL DEF EngineSpec

\* Every behaviour of the engine is one of the installer, so what is proved
\* of the installer holds on the device.
THEOREM EngineUsesInstaller == EngineSpec => UsesInstaller
<1>1. EngineInit => InstallerInit /\ EngineInv
  BY EngineInitially DEF EngineInit, TrackInv
<1> QED
  BY <1>1, EngineInvStep, InstallerSteps, PTL DEF EngineSpec, UsesInstaller, InstallerSpec

-----------------------------------------------------------------------------
\* The single faults TrackingIsSafe excludes.
LEMMA SafeMeans ==
  ASSUME TrackingIsSafe
  PROVE  /\ "read_state" \notin Faults /\ "exists_state" \notin Faults
         /\ "read_record" \notin Faults /\ "exists_record" \notin Faults
         /\ "boot_identity" \notin Faults /\ "write_record" \notin Faults
         /\ "adopt" \notin Faults /\ "record" \notin CrashSteps
  BY DEF TrackingIsSafe

\* Commands change neither processes nor pointers nor the record.
LEMMA CommandKeepsTracked ==
  ASSUME TrackInv, Command
  PROVE  Tracked'
<1> USE ReleasesAssumption, ProcsAssumption
    DEF TrackInv, EngineInv, EngineTypeOK, Control, Tracked, Stopped, Live, Ready, Begin,
        Finish, installerVars, stateVars
<1>1. ASSUME NEW r \in Releases, Apply(r) PROVE Tracked'
  BY <1>1 DEF Apply, Install, InstallRefused
<1>2. ASSUME NEW r \in Releases, RollbackTo(r) PROVE Tracked'
  BY <1>2 DEF RollbackTo
<1>3. CASE Restart
  BY <1>3 DEF Restart, NoActiveRead
<1> QED
  BY <1>1, <1>2, <1>3 DEF Command

\* stop() ends the one instance there is before the pointers move, and
\* launch() records the one it starts.
LEMMA OperationKeepsTracked ==
  ASSUME TrackInv, TrackingIsSafe,
         \/ Stop \/ ClearRecord \/ Start \/ WriteRecord \/ AwaitReady
         \/ InstallReturns \/ CallActivate \/ ActivateReturns \/ PruneReturns
         \/ CallRollback \/ RollbackReturns
  PROVE  Tracked'
<1> USE ReleasesAssumption, ProcsAssumption
    DEF TrackInv, EngineInv, EngineTypeOK, Control, GoalIsActive, Tracked, Stopped, Live,
        At, Continue, Begin, Finish, Recover, Unlaunched, Succeed, installerVars, stateVars
<1>1. CASE Stop
  BY <1>1 DEF Stop, AfterStop
<1>2. CASE ClearRecord
  BY <1>2 DEF ClearRecord, AfterStop
<1>3. CASE Start
  <2>1. Live = {}
    BY <1>3 DEF Start
  <2>2. CASE at' = "record"
    <3>1. PICK p \in Procs : proc' = [proc EXCEPT ![p] = goal] /\ handle' = p
      BY <1>3, <2>2 DEF Start
    <3>2. goal \in Releases /\ goal = state.active /\ up /\ op # "idle"
      BY <1>3 DEF Start
    <3>3. proc'[p] = goal /\ \A q \in Procs : q # p => proc'[q] = NoRelease
      BY <2>1, <3>1
    <3>4. \A q \in Live' : q = p
      BY <3>3
    <3>5. state' = state /\ up' = up /\ op' = op
      BY <1>3, <2>2 DEF Start
    <3> QED
      BY <2>2, <3>1, <3>2, <3>3, <3>4, <3>5
  <2>3. CASE at' # "record"
    BY <1>3, <2>1, <2>3 DEF Start
  <2> QED
    BY <2>2, <2>3
<1>4. CASE WriteRecord
  <2>1. record' = [boot |-> "this", proc |-> handle, rel |-> goal]
    BY <1>4, SafeMeans DEF WriteRecord
  <2>2. \A p \in Live : p = handle /\ proc[p] = goal
    BY <1>4 DEF WriteRecord
  <2>3. at' \in {"ready", "idle"} /\ op' # "restore"
    BY <1>4, SafeMeans DEF WriteRecord, AfterLaunch
  <2> QED
    BY <1>4, <2>1, <2>2, <2>3 DEF WriteRecord
<1>5. CASE AwaitReady
  BY <1>5 DEF AwaitReady, Prune, PruneFails
<1>6. CASE InstallReturns
  BY <1>6 DEF InstallReturns
<1>7. CASE CallActivate
  BY <1>7 DEF CallActivate
<1>8. CASE ActivateReturns
  BY <1>8 DEF ActivateReturns
<1>9. CASE PruneReturns
  BY <1>9 DEF PruneReturns
<1>10. CASE CallRollback
  BY <1>10 DEF CallRollback
<1>11. CASE RollbackReturns
  BY <1>11 DEF RollbackReturns
<1> QED
  BY <1>1, <1>2, <1>3, <1>4, <1>5, <1>6, <1>7, <1>8, <1>9, <1>10, <1>11

\* start_active() finds the instance the record names, or there is none.
LEMMA StartKeepsTracked ==
  ASSUME TrackInv, TrackingIsSafe,
         \/ ReadActive \/ ResumeFails \/ RecordMisread \/ NothingToAdopt \/ Adopt
         \/ InstallerStep /\ UNCHANGED engineVars
  PROVE  Tracked'
<1> USE ReleasesAssumption, ProcsAssumption
    DEF TrackInv, EngineInv, EngineTypeOK, Control, GoalIsActive, Tracked, Stopped, Live,
        At, Continue, Finish, Succeed, installerVars, stateVars
<1>1. CASE ReadActive
  BY <1>1, SafeMeans DEF ReadActive, NoActiveRead
<1>2. CASE ResumeFails
  BY <1>2 DEF ResumeFails, TrackingIsSafe
<1>3. CASE NothingToAdopt
  <2>1. "adopt" \notin Faults
    BY SafeMeans
  <2>2. ASSUME NEW p \in Live PROVE FALSE
    <3>1. record = [boot |-> "this", proc |-> p, rel |-> proc[p]]
      BY <1>3, <2>2 DEF NothingToAdopt
    <3>2. record.boot = "this" /\ record.proc = p
      BY <3>1
    <3> QED
      BY <1>3, <2>1, <2>2, <3>2 DEF NothingToAdopt
  <2>3. Live = {}
    BY <2>2
  <2> QED
    BY <1>3, <2>3 DEF NothingToAdopt
<1>4. CASE Adopt
  BY <1>4 DEF Adopt
<1>5. CASE InstallerStep /\ UNCHANGED engineVars
  BY <1>5, StepsKeepState DEF engineVars, opVars
<1>6. CASE RecordMisread
  BY <1>6, SafeMeans DEF RecordMisread
<1> QED
  BY <1>1, <1>2, <1>3, <1>4, <1>5, <1>6

\* An agent that dies leaves its instance to the record; a reboot ends it.
LEMMA EnvironmentKeepsTracked ==
  ASSUME TrackInv, TrackingIsSafe,
         AgentStart \/ AgentDies \/ DeviceReboots \/ \E p \in Procs : ProcessExits(p)
  PROVE  Tracked'
<1> USE ReleasesAssumption, ProcsAssumption
    DEF TrackInv, EngineInv, EngineTypeOK, Control, Tracked, Stopped, Live, Begin, Finish,
        installerVars, stateVars, opVars
<1>1. CASE AgentStart
  BY <1>1 DEF AgentStart
<1>2. CASE AgentDies
  BY <1>2 DEF AgentDies, LoseMemory, InstallerCrash, Point, Waiting, TrackingIsSafe
<1>3. CASE DeviceReboots
  BY <1>3 DEF DeviceReboots, LoseMemory
<1>4. ASSUME NEW p \in Procs, ProcessExits(p) PROVE Tracked'
  BY <1>4 DEF ProcessExits
<1> QED
  BY <1>1, <1>2, <1>3, <1>4

\* Every step of the device keeps track of the running instance.
LEMMA TrackInvStep ==
  ASSUME TrackingIsSafe, TrackInv, [EngineNext]_deviceVars
  PROVE  TrackInv'
<1>1. EngineInv'
  BY EngineInvStep DEF TrackInv
<1>2. CASE EngineNext
  BY <1>1, <1>2, CommandKeepsTracked, OperationKeepsTracked, StartKeepsTracked,
     EnvironmentKeepsTracked
  DEF EngineNext, EngineStep, TrackInv
<1>3. CASE UNCHANGED deviceVars
  BY <1>1, <1>3
  DEF TrackInv, Tracked, Live, deviceVars, installerVars, stateVars, engineVars, opVars
<1> QED
  BY <1>2, <1>3

\* As long as the engine can read and write what it tracks its instance by,
\* at most one instance of the service runs.
THEOREM OneInstance ==
  ASSUME TrackingIsSafe
  PROVE  EngineSpec => []SingleInstance
<1>1. TrackInv /\ [EngineNext]_deviceVars => TrackInv'
  BY TrackInvStep
<1>2. TrackInv => SingleInstance
  BY ProcsAssumption DEF TrackInv, EngineInv, Control, Tracked, SingleInstance, Live
<1> QED
  BY <1>1, <1>2, EngineInitially, PTL DEF EngineSpec

\* Under the same condition every instance runs the active release.
THEOREM InstanceRunsActive ==
  ASSUME TrackingIsSafe
  PROVE  EngineSpec => []RunsActive
<1>1. TrackInv /\ [EngineNext]_deviceVars => TrackInv'
  BY TrackInvStep
<1>2. TrackInv => RunsActive
  BY DEF TrackInv, Tracked, RunsActive
<1> QED
  BY <1>1, <1>2, EngineInitially, PTL DEF EngineSpec

\* Whatever fails and wherever agent and device stop, the active pointer moves
\* only while the engine supervises nothing.
THEOREM SwitchesWithoutHandle == EngineSpec => SwitchWithoutHandle
<1>1. EngineInv /\ [EngineNext]_deviceVars
        => [state'.active # state.active => handle = NoProc]_deviceVars
  <2> SUFFICES ASSUME EngineInv, EngineNext, state' # state
               PROVE  handle = NoProc
    BY DEF deviceVars
  <2>1. CASE CallActivate \/ CallRollback
    BY <2>1 DEF CallActivate, CallRollback, At, EngineInv, Control, Stopped
  <2>2. CASE ~(CallActivate \/ CallRollback)
    BY <2>2, StepsKeepState
    DEF EngineNext, EngineStep, Command, Restart, Apply, Install, InstallRefused,
        RollbackTo, Stop, ClearRecord, Start, WriteRecord, AwaitReady, Prune, PruneFails,
        InstallReturns, ActivateReturns, PruneReturns, RollbackReturns, ReadActive,
        ResumeFails, RecordMisread, NothingToAdopt, Adopt, AgentStart, AgentDies, DeviceReboots,
        LoseMemory, InstallerCrash, ProcessExits, installerVars, stateVars
  <2> QED
    BY <2>1, <2>2
<1>2. EngineInit => EngineInv
  BY EngineInitially DEF TrackInv
<1> QED
  BY <1>1, <1>2, EngineInvStep, PTL DEF EngineSpec, SwitchWithoutHandle

-----------------------------------------------------------------------------
\* The waiting steps after launch() have the instance in the handle and on
\* record as one of the active release.
Recorded ==
  /\ at \in {"install", "prune_wait"} => op = "apply"
  /\ at \in {"ready", "prune_wait"} =>
       /\ handle \in Procs /\ goal = state.active
       /\ record = [boot |-> "this", proc |-> handle, rel |-> goal]

\* The pointers after activate(goal), which apply called with state = before.
Activated ==
  /\ state.active = goal
  /\ state.previous = IF before.active = goal THEN before.previous ELSE before.active

\* ... and after the rollback() of recover().
Reverted ==
  state.active = IF state.previous = before.active THEN before.previous ELSE before.active

\* What apply and recover() have done to the pointers.
Recovery ==
  /\ op = "apply" =>
       /\ at \in {"stop", "clear", "activate"} => state = before
       /\ at = "activated" /\ (step = "link" \/ result = "ok") => Activated
       /\ at \in {"launch", "record", "ready"} => Activated
  /\ op = "recover" =>
       /\ at \in {"stop", "clear", "rollback"} => Activated
       /\ at = "reverted" /\ (step = "link" \/ result = "ok") => Reverted
       /\ at \in {"launch", "record"} => Reverted

PointerInv == Recorded /\ (StateIsRead => Recovery)

\* The steps of an operation of the engine.
LEMMA OperationKeepsPointers ==
  ASSUME EngineInv, PointerInv,
         \/ Stop \/ ClearRecord \/ Start \/ WriteRecord \/ AwaitReady
         \/ InstallReturns \/ CallActivate \/ ActivateReturns \/ PruneReturns
         \/ CallRollback \/ RollbackReturns
  PROVE  PointerInv'
<1> USE DEF EngineInv, Control, GoalIsActive, PointerInv, Recorded, Activated, Reverted, Recovery,
            At, Continue, Begin, Finish, Recover, Unlaunched, Succeed, installerVars, stateVars
<1>1. CASE Stop
  BY <1>1 DEF Stop, AfterStop
<1>2. CASE ClearRecord
  BY <1>2 DEF ClearRecord, AfterStop
<1>3. CASE Start
  BY <1>3 DEF Start
<1>4. CASE WriteRecord
  BY <1>4 DEF WriteRecord, AfterLaunch
<1>5. CASE AwaitReady
  BY <1>5 DEF AwaitReady, Prune, PruneFails
<1>6. CASE InstallReturns
  BY <1>6 DEF InstallReturns, ReadStates, StateIsRead
<1>7. CASE CallActivate
  BY <1>7
  DEF CallActivate, Activate, ActivateFails, WriteState, PreviousAfter, ReadStates, StateIsRead,
      Return
<1>8. CASE ActivateReturns
  BY <1>8 DEF ActivateReturns
<1>9. CASE PruneReturns
  BY <1>9 DEF PruneReturns
<1>10. CASE CallRollback
  BY <1>10 DEF CallRollback, Rollback, RollbackFails, WriteState, Return
<1>11. CASE RollbackReturns
  BY <1>11 DEF RollbackReturns
<1> QED
  BY <1>1, <1>2, <1>3, <1>4, <1>5, <1>6, <1>7, <1>8, <1>9, <1>10, <1>11

\* Everything else.
LEMMA PointerInvStep ==
  ASSUME EngineInv, PointerInv, [EngineNext]_deviceVars
  PROVE  PointerInv'
<1> USE DEF EngineInv, Control, PointerInv, Recorded, Activated, Reverted, Recovery
<1>1. CASE Command
  BY <1>1 DEF Command, Restart, Apply, RollbackTo, Ready, Begin, Finish
<1>2. CASE \/ ReadActive \/ ResumeFails \/ RecordMisread \/ NothingToAdopt \/ Adopt
  BY <1>2
  DEF ReadActive, ResumeFails, RecordMisread, NothingToAdopt, Adopt, At, Continue, Finish, Succeed
<1>3. CASE InstallerStep /\ UNCHANGED engineVars
  <2>1. at \in {"activated", "reverted"} => RefreshLink
    BY <1>3, LinkStep
  <2>2. step # "idle"
    BY <1>3
    DEF InstallerStep, CreateStaging, CopyFiles, SweepOne, SweepDone, SetAside, Publish,
        Cleanup, Discard, RefreshLink, RemoveFiles, RemoveDirectory, PruneDone
  <2> QED
    BY <1>3, <2>1, <2>2, StepsKeepState DEF RefreshLink, engineVars, opVars, Waiting
<1>4. CASE AgentStart \/ AgentDies \/ DeviceReboots
  BY <1>4 DEF AgentStart, AgentDies, DeviceReboots, LoseMemory, Begin, Finish
<1>5. CASE (\E p \in Procs : ProcessExits(p)) \/ UNCHANGED deviceVars
  BY <1>5
  DEF ProcessExits, deviceVars, installerVars, stateVars, callVars, engineVars, opVars
<1> QED
  BY <1>1, <1>2, <1>3, <1>4, <1>5, OperationKeepsPointers DEF EngineNext, EngineStep

LEMMA PointerInvariant == EngineSpec => [](EngineInv /\ PointerInv)
<1>1. EngineInit => EngineInv /\ PointerInv
  BY EngineInitially DEF EngineInit, TrackInv, PointerInv, Recorded, Recovery
<1>2. EngineInv /\ PointerInv /\ [EngineNext]_deviceVars => (EngineInv /\ PointerInv)'
  BY EngineInvStep, PointerInvStep
<1> QED
  BY <1>1, <1>2, PTL DEF EngineSpec

\* Unless state.json is taken for missing, and whatever else fails, a recovery
\* starts the release that was active before the deployment, or its rollback
\* target when that release was deployed again.
THEOREM RecoverGoesBack == ASSUME StateIsRead PROVE EngineSpec => []RecoverReturns
<1>1. PointerInv => RecoverReturns
  BY DEF PointerInv, Recovery, Reverted, RecoverReturns
<1> QED
  BY <1>1, PointerInvariant, PTL

\* An operation that ends in success has its instance on record, and apply and
\* rollback_to have made their release the active one.
LEMMA SuccessRecorded ==
  ASSUME EngineInv, PointerInv, EngineNext, op # "idle", op' = "idle", reply' = "ok"
  PROVE  /\ handle' \in Procs
         /\ record' = [boot |-> "this", proc |-> handle', rel |-> state'.active]
         /\ op \in {"apply", "rollback_to"} => state'.active = goal
<1> USE DEF EngineInv, Control, GoalIsActive, At, Finish, Succeed, installerVars, stateVars
<1>1. CASE WriteRecord
  BY <1>1 DEF WriteRecord, AfterLaunch, Unlaunched, Recover, Continue
<1>2. CASE AwaitReady \/ PruneReturns
  BY <1>2
  DEF AwaitReady, PruneReturns, Unlaunched, Recover, Continue, PointerInv, Recorded
<1>3. CASE Adopt
  BY <1>3 DEF Adopt, Continue, Live, EngineTypeOK, Records
<1>4. CASE Command \/ AgentStart \/ AgentDies \/ DeviceReboots
  BY <1>4
  DEF Command, Restart, Apply, RollbackTo, Ready, AgentStart, Begin, AgentDies, DeviceReboots,
      LoseMemory
<1>5. CASE \/ Stop \/ ClearRecord \/ Start \/ InstallReturns \/ CallActivate
           \/ ActivateReturns \/ CallRollback \/ RollbackReturns
  BY <1>5
  DEF Stop, ClearRecord, Start, InstallReturns, CallActivate, ActivateReturns, CallRollback,
      RollbackReturns, Continue, Unlaunched, Recover, Begin
<1>6. CASE \/ ReadActive \/ ResumeFails \/ RecordMisread \/ NothingToAdopt
           \/ InstallerStep /\ UNCHANGED engineVars
           \/ \E p \in Procs : ProcessExits(p)
  BY <1>6
  DEF ReadActive, ResumeFails, RecordMisread, NothingToAdopt, ProcessExits, Continue, engineVars, opVars
<1> QED
  BY <1>1, <1>2, <1>3, <1>4, <1>5, <1>6 DEF EngineNext, EngineStep

\* Whatever fails, an operation that reports success leaves its instance in
\* the handle and on record as one of the active release.
THEOREM SuccessIsTracked == EngineSpec => OkIsTracked
<1>1. EngineInv /\ PointerInv /\ [EngineNext]_deviceVars =>
        [op # "idle" /\ op' = "idle" /\ reply' = "ok" =>
           /\ handle' \in Procs
           /\ record' = [boot |-> "this", proc |-> handle', rel |-> state'.active]]_deviceVars
  BY SuccessRecorded
<1> QED
  BY <1>1, PointerInvariant, PTL DEF EngineSpec, OkIsTracked

\* On the device, too, the active release and the rollback target stay
\* complete unless a swap or a removal is cut short, or state.json is taken for
\* missing.
THEOREM DeviceReferencedWhole ==
  ASSUME SwapIsSafe, RemovalIsSafe, StateIsRead
  PROVE  EngineSpec => []ReferencedWhole
  BY EngineUsesInstaller, ReferencedStayWhole, PTL DEF UsesInstaller
=============================================================================
