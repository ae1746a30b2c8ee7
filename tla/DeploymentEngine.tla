-------------------------- MODULE DeploymentEngine --------------------------
(***************************************************************************)
(* RolloutKit/Deploy/DeploymentEngine.cpp on top of ReleaseInstaller: the  *)
(* operations apply, rollback_to, restart and start_active, the service    *)
(* processes they start and stop, the handle the engine keeps in memory    *)
(* and the record of the running instance it keeps in runtime.json.        *)
(*                                                                         *)
(* The agent may die or the device reboot at any of CrashSteps; service    *)
(* processes outlive the agent but not the device, and may exit on their   *)
(* own.  On its next start the agent calls start_active() before anything  *)
(* else (YirangAgent/main.cpp), then handles one command at a time.        *)
(***************************************************************************)
EXTENDS ReleaseInstaller

CONSTANTS Procs,       \* service processes: one per start, named by pid and start token
          NoProc,
          HealthKind   \* health_.kind: "process" or "network" (tcp, http)

ASSUME ProcsAssumption == NoProc \notin Procs /\ IsFiniteSet(Procs)
ASSUME HealthAssumption == HealthKind \in {"process", "network"}

VARIABLES
  proc,     \* the release each live process runs, NoRelease for one that is not live
  handle,   \* handle_: the process the engine supervises
  record,   \* runtime.json: [boot, proc, rel]
  up,       \* the agent process is running
  op,       \* the operation in progress
  at,       \* the step it is at
  goal,     \* the release it works on
  before,   \* apply: the activation state it read before it stopped the service
  reply     \* what the last operation returned

opVars == <<op, at, goal, before, reply>>
engineVars == <<proc, handle, record, up, opVars>>
deviceVars == <<installerVars, engineVars>>

\* boot tells whose boot_identity the file holds: it is missing ("none"),
\* written since the device booted, before that, or cannot be parsed.
NoRecord == [boot |-> "none", proc |-> NoProc, rel |-> NoRelease]
Records == [boot: {"none", "this", "earlier", "torn"},
            proc: Procs \cup {NoProc}, rel: ReleaseOrNone]

Ops == {"idle", "apply", "recover", "restore", "rollback_to", "restart", "start_active"}
EngineSteps == {"idle", "install", "stop", "clear", "activate", "activated", "rollback",
                "reverted", "launch", "record", "ready", "prune_wait", "state", "resume"}

Live == {p \in Procs : proc[p] # NoRelease}

EngineTypeOK ==
  /\ proc \in [Procs -> ReleaseOrNone]
  /\ handle \in Procs \cup {NoProc}
  /\ record \in Records
  /\ up \in BOOLEAN
  /\ op \in Ops /\ at \in EngineSteps
  /\ op = "idle" <=> at = "idle"
  /\ goal \in ReleaseOrNone
  /\ op = "idle" \/ at = "state" \/ goal \in Releases
  /\ before \in [active: ReleaseOrNone, previous: ReleaseOrNone]
  /\ reply \in {"none", "ok", "failed"}

\* The agent is about to start for the first time.
EngineInit ==
  /\ InstallerInit
  /\ proc = [p \in Procs |-> NoRelease]
  /\ handle = NoProc
  /\ record = NoRecord
  /\ up = FALSE
  /\ op = "idle" /\ at = "idle"
  /\ goal = NoRelease
  /\ before = NoState
  /\ reply = "none"

\* The next operation may begin: the agent runs and nothing is in progress.
Ready == up /\ op = "idle"

\* The engine's own next step; the installer has no call open.
At(where) == at = where /\ step = "idle"

Continue(where) == at' = where /\ UNCHANGED <<op, goal, before, reply>>

Begin(operation, where, r) ==
  /\ op' = operation /\ at' = where /\ goal' = r
  /\ reply' = "none"
  /\ UNCHANGED before

Finish(outcome) ==
  /\ op' = "idle" /\ at' = "idle" /\ goal' = NoRelease
  /\ before' = NoState
  /\ reply' = outcome

-----------------------------------------------------------------------------
(* Building blocks: stop(), launch(), await_ready()                        *)

\* Which step of the operation follows a successful stop().
AfterStop ==
  CASE op \in {"apply", "rollback_to"} -> "activate"
    [] op = "recover" -> "rollback"
    [] OTHER -> "launch"

\* Faulty variant: the handle is dropped although the process did not stop.
StopForgets ==
  /\ At("stop")
  /\ handle' = NoProc
  /\ \/ handle = NoProc /\ Continue(AfterStop) /\ UNCHANGED proc
     \/ handle # NoProc /\ proc' = [proc EXCEPT ![handle] = NoRelease] /\ Continue("clear")
     \/ handle # NoProc /\ "stop" \in Faults /\ Finish("failed") /\ UNCHANGED proc
  /\ UNCHANGED <<record, up, installerVars>>

\* stop(): nothing to do without a handle, also when a record exists.
\* Otherwise the supervisor ends the process, or fails and the handle stays.
Stop ==
  /\ At("stop")
  /\ \/ handle = NoProc /\ Continue(AfterStop) /\ UNCHANGED <<proc, handle>>
     \/ /\ handle # NoProc
        /\ proc' = [proc EXCEPT ![handle] = NoRelease]
        /\ handle' = NoProc
        /\ Continue("clear")
     \/ /\ handle # NoProc /\ "stop" \in Faults
        /\ Finish("failed")
        /\ UNCHANGED <<proc, handle>>
  /\ UNCHANGED <<record, up, installerVars>>

\* clear_record() after the process has ended: an error is stop()'s error.
ClearRecord ==
  /\ At("clear")
  /\ \/ record' = NoRecord /\ Continue(AfterStop)
     \/ "clear_record" \in Faults /\ Finish("failed") /\ UNCHANGED record
  /\ UNCHANGED <<proc, handle, up, installerVars>>

\* recover(): stop what was started, then roll the pointers back.
Recover ==
  /\ op' = "recover" /\ at' = "stop"
  /\ UNCHANGED <<goal, before, reply>>

\* Faulty variant: a restart is tried again until it works.
UnlaunchedRetries == IF op = "apply" THEN Recover ELSE Continue("stop")

\* An error of launch(), or of await_ready(), in the operation at hand.
Unlaunched == IF op = "apply" THEN Recover ELSE Finish("failed")

\* launch() up to supervisor_->start(): the executable must be there.  Some
\* start fails all the same (no exec permission, a broken binary).
Start ==
  /\ At("launch")
  /\ \/ /\ slots[goal] # "none"
        /\ \E p \in Procs \ (Live \cup {handle, record.proc}) :
             /\ proc' = [proc EXCEPT ![p] = goal]
             /\ handle' = p
        /\ Continue("record")
     \/ /\ slots[goal] \notin Complete \/ "start" \in Faults
        /\ Unlaunched
        /\ UNCHANGED <<proc, handle>>
  /\ UNCHANGED <<record, up, installerVars>>

\* The service runs again.  What recover() and the start_active() of a failed
\* activation restored is still reported as apply's failure.
Succeed == Finish(IF op \in {"recover", "restore"} THEN "failed" ELSE "ok")

\* What follows a launch() that succeeded: apply and restart wait for the
\* service, the others do not.
AfterLaunch ==
  CASE op \in {"apply", "restart"} -> Continue("ready")
    [] OTHER -> Succeed

\* Faulty variant: an instance that could not be recorded counts as started.
WriteRecordLeniently ==
  /\ At("record")
  /\ record' \in {record, [boot |-> "this", proc |-> handle, rel |-> goal]}
  /\ AfterLaunch
  /\ UNCHANGED <<proc, handle, up, installerVars>>

\* The rest of launch(): boot_identity() and write_record().  When either
\* fails the process runs on and the handle stays.
WriteRecord ==
  /\ At("record")
  /\ \/ /\ record' = [boot |-> "this", proc |-> handle, rel |-> goal]
        /\ AfterLaunch
     \/ /\ {"boot_identity", "write_record"} \cap Faults # {}
        /\ Unlaunched
        /\ UNCHANGED record
  /\ UNCHANGED <<proc, handle, up, installerVars>>

\* A process probe succeeds only while the supervisor reports the process as
\* running; a network probe also when something else answers on the port.
CanSucceed == HealthKind = "process" => handle \in Live

\* await_ready(): the checker reports ready, or it or the deadline gives up.
AwaitReady ==
  /\ At("ready")
  /\ \/ /\ CanSucceed
        /\ \/ op = "restart" /\ Finish("ok") /\ UNCHANGED installerVars
           \/ op = "apply" /\ Continue("prune_wait") /\ (Prune \/ PruneFails)
     \/ Unlaunched /\ UNCHANGED installerVars
  /\ UNCHANGED <<proc, handle, record, up>>

-----------------------------------------------------------------------------
(* apply(release_id, source_directory)                                     *)

Apply(r) ==
  /\ Ready
  /\ Install(r) \/ InstallRefused
  /\ Begin("apply", "install", r)
  /\ UNCHANGED <<proc, handle, record, up>>

\* install() has returned; the state is read before the service is stopped.
InstallReturns ==
  /\ At("install")
  /\ \/ /\ result = "ok"
        /\ at' = "stop" /\ before' \in ReadStates
        /\ UNCHANGED <<op, goal, reply>>
     \/ /\ result = "failed" \/ "read_state" \in Faults
        /\ Finish("failed")
  /\ UNCHANGED <<proc, handle, record, up, installerVars>>

CallActivate ==
  /\ At("activate")
  /\ Activate(goal) \/ ActivateFails(goal)
  /\ Continue("activated")
  /\ UNCHANGED <<proc, handle, record, up>>

\* Faulty variant: the release is launched although it was not activated.
ActivateReturnsAnyway ==
  /\ At("activated")
  /\ Continue("launch")
  /\ UNCHANGED <<proc, handle, record, up, installerVars>>

\* When activate() fails, apply starts the release that is still active
\* again; rollback_to just returns.
ActivateReturns ==
  /\ At("activated")
  /\ CASE result = "ok" -> Continue("launch")
       [] result = "failed" /\ op = "apply" -> Begin("restore", "state", NoRelease)
       [] OTHER -> Finish("failed")
  /\ UNCHANGED <<proc, handle, record, up, installerVars>>

\* prune()'s outcome does not matter to apply.
PruneReturns ==
  /\ At("prune_wait")
  /\ Finish("ok")
  /\ UNCHANGED <<proc, handle, record, up, installerVars>>

\* recover(): installer_->rollback(), then launch() of the release it made
\* active.
CallRollback ==
  /\ At("rollback")
  /\ Rollback \/ RollbackFails
  /\ Continue("reverted")
  /\ UNCHANGED <<proc, handle, record, up>>

RollbackReturns ==
  /\ At("reverted")
  /\ \/ /\ result = "ok"
        /\ at' = "launch" /\ goal' = state.active
        /\ UNCHANGED <<op, before, reply>>
     \/ result = "failed" /\ Finish("failed")
  /\ UNCHANGED <<proc, handle, record, up, installerVars>>

-----------------------------------------------------------------------------
(* rollback_to(release_id), restart()                                      *)

RollbackTo(r) ==
  /\ Ready /\ step = "idle"
  /\ \/ r \in Installed /\ Begin("rollback_to", "stop", r)
     \/ /\ r \notin Installed \/ "is_directory" \in Faults
        /\ Finish("failed")
  /\ UNCHANGED <<proc, handle, record, up, installerVars>>

\* state() names no active release, also by mistake, or cannot be read.
NoActiveRead == state.active = NoRelease \/ {"read_state", "exists_state"} \cap Faults # {}

\* Faulty variant: a restart without an active release.
RestartUnchecked ==
  /\ Ready /\ step = "idle"
  /\ Begin("restart", "stop", state.active)
  /\ UNCHANGED <<proc, handle, record, up, installerVars>>

Restart ==
  /\ Ready /\ step = "idle"
  /\ \/ state.active # NoRelease /\ Begin("restart", "stop", state.active)
     \/ /\ NoActiveRead
        /\ Finish("failed")
  /\ UNCHANGED <<proc, handle, record, up, installerVars>>

-----------------------------------------------------------------------------
(* start_active() and resume()                                             *)

ReadActive ==
  /\ At("state")
  /\ \/ /\ state.active # NoRelease
        /\ at' = "resume" /\ goal' = state.active
        /\ UNCHANGED <<op, before, reply>>
     \/ /\ NoActiveRead
        /\ Finish("failed")
  /\ UNCHANGED <<proc, handle, record, up, installerVars>>

\* The record cannot be opened, or boot_identity() cannot be read: resume()
\* gives up, with the record as it was and no handle.
ResumeFails ==
  /\ At("resume")
  /\ \/ "read_record" \in Faults
     \/ "boot_identity" \in Faults /\ record.boot \in {"this", "earlier"}
  /\ Finish("failed")
  /\ UNCHANGED <<proc, handle, record, up, installerVars>>

\* record(): an error of exists() reads as "no record", and start_active()
\* launches the release with the record in place.
RecordMisread ==
  /\ At("resume")
  /\ "exists_record" \in Faults
  /\ Continue("launch")
  /\ UNCHANGED <<proc, handle, record, up, installerVars>>

\* There is no instance to take over: no record, one that cannot be parsed,
\* one of an earlier boot, or the supervisor refuses it (the process is gone,
\* or its start token cannot be confirmed).
NothingToAdopt ==
  /\ At("resume")
  /\ record.boot = "this" => record.proc \notin Live \/ "adopt" \in Faults
  /\ \/ record' = NoRecord /\ Continue("launch")
     \/ /\ record.boot # "none" /\ "clear_record" \in Faults
        /\ Finish("failed")
        /\ UNCHANGED record
  /\ UNCHANGED <<proc, handle, up, installerVars>>

\* adopt(): the recorded process is supervised again.  One of another
\* release is stopped before the active release is launched.
Adopt ==
  /\ At("resume")
  /\ record.boot = "this" /\ record.proc \in Live
  /\ handle' = record.proc
  /\ IF record.rel = goal THEN Succeed ELSE Continue("stop")
  /\ UNCHANGED <<proc, record, up, installerVars>>

-----------------------------------------------------------------------------
(* The agent, the device and the service around the engine                 *)

\* main(): start_active() runs before the consumer starts.
AgentStart ==
  /\ ~up
  /\ up' = TRUE
  /\ Begin("start_active", "state", NoRelease)
  /\ UNCHANGED <<proc, handle, record, installerVars>>

\* Where a crash would hit.
Point == IF step # "idle" THEN step ELSE at

\* What an agent that dies loses: its memory.
LoseMemory ==
  /\ up' = FALSE
  /\ handle' = NoProc
  /\ Finish("none")
  /\ InstallerCrash \/ (step = "idle" /\ UNCHANGED installerVars)

\* The agent is killed or exits; the service processes stay.
AgentDies ==
  /\ up /\ Point \in CrashSteps
  /\ LoseMemory
  /\ UNCHANGED <<proc, record>>

\* After a reboot the record belongs to an earlier boot; without an fsync it
\* may be lost to a power failure, which leaves a file that does not parse.
DeviceReboots ==
  /\ up => Point \in CrashSteps
  /\ LoseMemory
  /\ proc' = [p \in Procs |-> NoRelease]
  /\ \/ record' = [record EXCEPT !.boot = IF @ = "this" THEN "earlier" ELSE @]
     \/ /\ "tear" \in Faults /\ record.boot # "none"
        /\ record' = [NoRecord EXCEPT !.boot = "torn"]

\* A service process exits by itself.
ProcessExits(p) ==
  /\ p \in Live
  /\ proc' = [proc EXCEPT ![p] = NoRelease]
  /\ UNCHANGED <<handle, record, up, opVars, installerVars>>

\* The agent's thread inside an operation.
EngineStep ==
  \/ Stop \/ ClearRecord \/ Start \/ WriteRecord \/ AwaitReady
  \/ InstallReturns \/ CallActivate \/ ActivateReturns \/ PruneReturns
  \/ CallRollback \/ RollbackReturns
  \/ ReadActive \/ ResumeFails \/ RecordMisread \/ NothingToAdopt \/ Adopt
  \/ (InstallerStep /\ UNCHANGED engineVars)

\* A command of the agent.
Command == Restart \/ \E r \in Releases : Apply(r) \/ RollbackTo(r)

EngineNext ==
  \/ Command \/ EngineStep
  \/ AgentStart \/ AgentDies \/ DeviceReboots
  \/ \E p \in Procs : ProcessExits(p)

EngineSpec == EngineInit /\ [][EngineNext]_deviceVars

\* The agent's thread keeps running while the agent is up, and whatever runs
\* the agent (systemd, the service manager) starts it again.
FairEngineSpec == EngineSpec /\ WF_deviceVars(EngineStep) /\ WF_deviceVars(AgentStart)

-----------------------------------------------------------------------------
(* Properties                                                              *)

\* What keeps the engine from losing track of a running instance: state.json,
\* runtime.json and the boot identity can be read, neither file is taken for
\* missing by an exists() that fails, the record can be written,
\* the supervisor does not refuse a live process, and the agent does not die
\* between starting a process and recording it.
TrackingIsSafe ==
  /\ Faults \cap {"read_state", "exists_state", "read_record", "exists_record",
                  "boot_identity", "write_record", "adopt"} = {}
  /\ "record" \notin CrashSteps

\* At most one instance of the service runs: not a second one after the agent
\* restarted and found the first still running, not one beside an instance
\* that would not stop.
SingleInstance == \A p, q \in Live : p = q

\* Every instance runs the release state.json calls active: the pointer moves
\* only after the old instance has ended, a failed activation or a rollback
\* brings back the release it points to, and a start after a crash at any
\* point adopts or launches that release.
RunsActive == \A p \in Live : proc[p] = state.active

\* The active pointer moves only while the engine supervises nothing.
SwitchWithoutHandle == [][state'.active # state.active => handle = NoProc]_deviceVars

\* recover() goes back to the release that was active before apply, or, when
\* apply was given the active release itself, to the rollback target, provided
\* state.json is never taken for missing (StateIsRead).
RecoverReturns ==
  op = "recover" /\ at \in {"launch", "record"} =>
    state.active = IF state.previous = before.active THEN before.previous
                                                     ELSE before.active

\* An operation that reports success leaves the instance it started, or
\* adopted, in the handle and on record as an instance of the active release:
\* the next start of the agent will find it.
OkIsTracked ==
  [][op # "idle" /\ op' = "idle" /\ reply' = "ok" =>
       /\ handle' \in Procs
       /\ record' = [boot |-> "this", proc |-> handle', rel |-> state'.active]]_deviceVars

\* Every operation ends, with a reply or with the agent.
OperationsEnd == op # "idle" ~> op = "idle"

\* The engine uses the installer only through its operations.
UsesInstaller == InstallerSpec
=============================================================================
