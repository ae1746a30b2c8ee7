---------------------------- MODULE DeviceProofs ----------------------------
(***************************************************************************)
(* Theorems about Device: what is proved of the engine and of the command  *)
(* handler holds of the two together, and what follows from both, for any  *)
(* releases, files, messages and processes.                                *)
(***************************************************************************)
EXTENDS Device, DeploymentEngineProofs

AgentP == INSTANCE AgentServiceProofs
            WITH at <- phase, Faults <- AgentFaults, CrashSteps <- HandlerCrashSteps

\* AgentP is AgentService once more, seen through the module of its proofs.
LEMMA SameEnds ==
  /\ Agent!Done => AgentP!Done
  /\ Agent!Transient => AgentP!Transient
  /\ \A r : Agent!RemoveVersion(r) => AgentP!RemoveVersion(r)
<1>1. Agent!Done => AgentP!Done
  BY DEF Agent!Done, Agent!Report, Agent!ForgetFailure, Agent!Consume, Agent!EndHandling,
         AgentP!Done, AgentP!Report, AgentP!ForgetFailure, AgentP!Consume, AgentP!EndHandling
<1>2. Agent!Transient => AgentP!Transient
  BY DEF Agent!Transient, Agent!Report, Agent!ForgetFailure, Agent!Consume, Agent!EndHandling,
         Agent!AttemptsNow, AgentP!Transient, AgentP!Report, AgentP!ForgetFailure,
         AgentP!Consume, AgentP!EndHandling, AgentP!AttemptsNow
<1>3. \A r : Agent!RemoveVersion(r) => AgentP!RemoveVersion(r)
  BY DEF Agent!RemoveVersion, Agent!NoFiles, Agent!cacheVars,
         AgentP!RemoveVersion, AgentP!NoFiles, AgentP!cacheVars
<1> QED
  BY <1>1, <1>2, <1>3

\* ... and so are the handler's steps.
LEMMA SameNext == Agent!AgentNext => AgentP!AgentNext
<1> USE SameEnds
    DEF Agent!Release, Agent!IsCommand, Agent!EndHandling, Agent!queueVars, Agent!cacheVars,
        Agent!workVars, Agent!retryVars, Agent!NoFiles, Agent!CallsEngine, Agent!Applying,
        AgentP!Release, AgentP!IsCommand, AgentP!EndHandling, AgentP!queueVars,
        AgentP!cacheVars, AgentP!workVars, AgentP!retryVars, AgentP!NoFiles,
        AgentP!CallsEngine, AgentP!Applying
<1>1. Agent!DownloadBegins => AgentP!DownloadBegins
  BY DEF Agent!DownloadBegins, AgentP!DownloadBegins
<1>2. \A f \in Files : Agent!Fetch(f) => AgentP!Fetch(f)
  BY DEF Agent!Fetch, AgentP!Fetch, Agent!Fetched, AgentP!Fetched
<1>3. Agent!FetchFails => AgentP!FetchFails
  BY DEF Agent!FetchFails, AgentP!FetchFails
<1>4. Agent!Verify => AgentP!Verify
  BY DEF Agent!Verify, AgentP!Verify, Agent!Matches, AgentP!Matches
<1>5. Agent!DownloadEnds => AgentP!DownloadEnds
  BY DEF Agent!DownloadEnds, AgentP!DownloadEnds
<1>6. /\ Agent!CleanBegins => AgentP!CleanBegins
      /\ Agent!CleanListFails => AgentP!CleanListFails
      /\ Agent!CleanEnds => AgentP!CleanEnds
  BY DEF Agent!CleanBegins, AgentP!CleanBegins, Agent!CleanListFails, AgentP!CleanListFails,
         Agent!CleanEnds, AgentP!CleanEnds
<1>7. \A r \in Releases : Agent!CleanNext(r) => AgentP!CleanNext(r)
  BY DEF Agent!CleanNext, AgentP!CleanNext
<1>8. \A f \in Files : Agent!CleanFile(f) => AgentP!CleanFile(f)
  BY DEF Agent!CleanFile, AgentP!CleanFile
<1>9. Agent!CleanDirectory => AgentP!CleanDirectory
  BY DEF Agent!CleanDirectory, AgentP!CleanDirectory
<1>10. Agent!ApplyVersion => AgentP!ApplyVersion
  BY DEF Agent!ApplyVersion, AgentP!ApplyVersion
<1>11. Agent!RollbackVersion => AgentP!RollbackVersion
  BY DEF Agent!RollbackVersion, AgentP!RollbackVersion
<1>12. Agent!RestartService => AgentP!RestartService
  BY DEF Agent!RestartService, AgentP!RestartService
<1>13. Agent!EngineReturns => AgentP!EngineReturns
  BY DEF Agent!EngineReturns, AgentP!EngineReturns
<1>14. Agent!EngineInstalls => AgentP!EngineInstalls
  BY DEF Agent!EngineInstalls, AgentP!EngineInstalls
<1>15. \A r \in Releases : Agent!EngineRemoves(r) => AgentP!EngineRemoves(r)
  BY DEF Agent!EngineRemoves, AgentP!EngineRemoves
<1>16. Agent!Rejected => AgentP!Rejected
  BY DEF Agent!Rejected, AgentP!Rejected
<1>17. Agent!RebootDevice => AgentP!RebootDevice
  BY DEF Agent!RebootDevice, AgentP!RebootDevice
<1>18. Agent!CurrentStatus => AgentP!CurrentStatus
  BY DEF Agent!CurrentStatus, AgentP!CurrentStatus
<1>19. Agent!UpdateConfiguration => AgentP!UpdateConfiguration
  BY DEF Agent!UpdateConfiguration, AgentP!UpdateConfiguration, Agent!Edits, AgentP!Edits
<1>20. Agent!AgentDies => AgentP!AgentDies
  BY DEF Agent!AgentDies, AgentP!AgentDies, Agent!ForgetFailure, AgentP!ForgetFailure
<1>21. \A m \in Messages : Agent!Receive(m) => AgentP!Receive(m)
  BY DEF Agent!Receive, AgentP!Receive
<1>22. \A m \in Messages : Agent!Send(m) => AgentP!Send(m)
  BY DEF Agent!Send, AgentP!Send, Agent!Cardinality, AgentP!Cardinality
<1> QED
  BY <1>1, <1>2, <1>3, <1>4, <1>5, <1>6, <1>7, <1>8, <1>9, <1>10, <1>11, <1>12, <1>13, <1>14,
     <1>15, <1>16, <1>17, <1>18, <1>19, <1>20, <1>21, <1>22
  DEF Agent!CacheStep, AgentP!CacheStep, Agent!EngineWorks, AgentP!EngineWorks, Agent!AgentStep,
      AgentP!AgentStep, Agent!AgentNext, AgentP!AgentNext

-----------------------------------------------------------------------------
\* Something of release r is left under the install root.
Present(r) == slots[r] # "none" \/ retired[r] # "none"

\* The engine works for the command at hand; start_active() for none.
Wired ==
  /\ ~up => phase = "idle"
  /\ op = "start_active" => phase = "idle"
  /\ op \notin {"idle", "start_active"} => phase = "engine"
  /\ op \in {"apply", "recover", "restore"} => handling.command = "apply_version"
  /\ op = "rollback_to" => handling.command = "rollback_version"
  /\ op = "restart" => handling.command = "restart_service"
  /\ op \in {"apply", "rollback_to"} => goal = handling.release

InstallSteps == {"create", "copy", "sweep", "aside", "publish", "cleanup", "discard"}
PruneSteps == {"prune", "removing"}

\* The installer installs the release of the command, from a directory that has
\* files once the copy loop is over, and prunes what is installed.
InstallWired ==
  /\ step \in InstallSteps => at = "install" /\ rel = goal
  /\ step \in {"sweep", "aside", "publish"} => files[rel] # Agent!NoFiles
  /\ step \in PruneSteps => at = "prune_wait" /\ \A r \in doomed : slots[r] # "none"

\* There are files of the releases of which something is left.
ContentInv == \A r \in Releases : installed[r] # Agent!NoFiles <=> Present(r)

\* Until the handler has taken it, a success is that of its command.
ReplyInv ==
  phase = "engine" /\ op = "idle" /\ reply = "ok" =>
    /\ handle \in Procs
    /\ record = [boot |-> "this", proc |-> handle, rel |-> state.active]
    /\ handling.command \in {"apply_version", "rollback_version"} => state.active = handling.release

EnginePart == EngineInv /\ PointerInv
DeviceInv == EnginePart /\ AgentP!AgentInv /\ Wired /\ InstallWired /\ ContentInv /\ ReplyInv

-----------------------------------------------------------------------------
\* What is proved of the handler, with the constants it has here.
LEMMA HandlerInitially == Agent!AgentInit => AgentP!AgentInv
<1>1. Agent!AgentInit => AgentP!AgentInit
  BY DEF Agent!AgentInit, AgentP!AgentInit, Agent!NoFiles, AgentP!NoFiles
<1> QED
  BY <1>1, AgentP!AgentInitially, HandlerAssumption DEF Agent!Commands, AgentP!Commands

LEMMA HandlerStepKeeps ==
  ASSUME AgentP!AgentInv, [Agent!AgentNext]_(Agent!agentVars)
  PROVE  AgentP!AgentInv'
<1>1. [AgentP!AgentNext]_(AgentP!agentVars)
  BY SameNext
  DEF Agent!agentVars, Agent!queueVars, Agent!cacheVars, Agent!workVars, Agent!retryVars,
      AgentP!agentVars, AgentP!queueVars, AgentP!cacheVars, AgentP!workVars, AgentP!retryVars
<1> QED
  BY <1>1, AgentP!AgentInvStep, HandlerAssumption DEF Agent!Commands, AgentP!Commands

LEMMA HandlerTypes ==
  ASSUME AgentP!AgentInv
  PROVE  /\ phase # "idle" => handling.release \in Releases
         /\ files \in [Releases -> [Files -> Agent!FileStates]]
         /\ installed \in [Releases -> [Files -> Agent!InstalledStates]]
<1>1. phase # "idle" => handling.release \in Releases
  BY HandlerAssumption DEF AgentP!AgentInv, AgentP!WorkInv, AgentP!WorkTypes
<1> QED
  BY <1>1
  DEF AgentP!AgentInv, AgentP!DiskTypes, AgentP!FileStates, AgentP!InstalledStates,
      Agent!FileStates, Agent!InstalledStates

-----------------------------------------------------------------------------
\* Every step of the device is one of the engine, or leaves it alone.
LEMMA EngineOfDevice ==
  ASSUME DeviceInv, [DeviceNext]_systemVars
  PROVE  [EngineNext]_deviceVars
<1>1. CASE ApplyVersion \/ RollbackVersion \/ RestartService
  <2>1. phase = "dispatch"
    BY <1>1
    DEF ApplyVersion, RollbackVersion, RestartService, Agent!ApplyVersion,
        Agent!RollbackVersion, Agent!RestartService, Agent!IsCommand
  <2>2. Agent!Release \in Releases
    BY <2>1, HandlerTypes DEF DeviceInv, Agent!Release
  <2> QED
    BY <1>1, <2>2
    DEF ApplyVersion, RollbackVersion, RestartService, Calls, EngineNext, Command
<1>2. CASE EngineReturns \/ UpdateConfiguration \/ HandlerWorks \/ \E m \in Messages : Arrives(m)
  BY <1>2 DEF EngineReturns, UpdateConfiguration, HandlerWorks, Arrives
<1>3. CASE EngineWorks \/ Starts \/ Dies \/ ServiceExits
  BY <1>3 DEF EngineWorks, Starts, Dies, ServiceExits, EngineNext
<1>4. CASE UNCHANGED systemVars
  BY <1>4 DEF systemVars
<1> QED
  BY <1>1, <1>2, <1>3, <1>4 DEF DeviceNext, HandlerStep

-----------------------------------------------------------------------------
\* A step of the engine outside the installer leaves the directories alone.
LEMMA EngineDirs ==
  ASSUME EngineStep
  PROVE  \/ InstallerStep /\ UNCHANGED engineVars
         \/ step = "idle" /\ UNCHANGED dirVars
<1> USE DEF At, installerVars, dirVars
<1>1. CASE \/ Stop \/ ClearRecord \/ Start \/ WriteRecord \/ InstallReturns
           \/ ActivateReturns \/ PruneReturns \/ RollbackReturns
           \/ ReadActive \/ ResumeFails \/ RecordMisread \/ NothingToAdopt \/ Adopt
  BY <1>1
  DEF Stop, ClearRecord, Start, WriteRecord, InstallReturns, ActivateReturns, PruneReturns,
      RollbackReturns, ReadActive, ResumeFails, RecordMisread, NothingToAdopt, Adopt
<1>2. CASE AwaitReady \/ CallActivate \/ CallRollback
  BY <1>2
  DEF AwaitReady, Prune, PruneFails, CallActivate, Activate, ActivateFails, CallRollback,
      Rollback, RollbackFails, WriteState
<1> QED
  BY <1>1, <1>2 DEF EngineStep

\* What a step does to release r, and what it does to every other one.
Keeps(r) == Present(r)' <=> Present(r)
KeepsOthers(r) == \A q \in Releases \ {r} : Keeps(q)

\* The rename that publishes.
Publishes == step = "publish" /\ step' = "cleanup"

\* The installer puts a release in place with one step and removes one at a
\* time; every other step leaves what was there, if only set aside.
LEMMA InstallerDirs ==
  ASSUME DeviceInv, InstallerStep
  PROVE  \/ ~Publishes /\ \A r \in Releases : Keeps(r)
         \/ \E r \in Releases : r = rel /\ Publishes /\ Present(r)' /\ KeepsOthers(r)
         \/ /\ ~Publishes /\ step \in InstallSteps \cup PruneSteps
            /\ \E r \in Releases : ~Present(r)' /\ KeepsOthers(r)
<1> USE DEF DeviceInv, EnginePart, EngineInv, InstallerInv, InstallerTypeOK, Goto, Return
<1>1. ASSUME NEW r \in Releases, KeepsOthers(r), Present(r)' => Present(r),
             ~Publishes, step \in InstallSteps \cup PruneSteps
      PROVE  \/ \A q \in Releases : Keeps(q)
             \/ \E q \in Releases : ~Present(q)' /\ KeepsOthers(q)
  BY <1>1 DEF KeepsOthers, Keeps
<1>2. CASE CreateStaging \/ CopyFiles \/ SweepDone \/ Discard \/ RefreshLink \/ PruneDone
  BY <1>2
  DEF CreateStaging, CopyFiles, SweepDone, Discard, RefreshLink, PruneDone, dirVars,
      Publishes, Keeps, Present
<1>3. ASSUME NEW r \in Releases, SweepOne(r)
      PROVE  /\ step = "sweep" /\ ~Publishes
             /\ KeepsOthers(r) /\ (Present(r)' => Present(r))
  BY <1>3 DEF SweepOne, callVars, Publishes, KeepsOthers, Keeps, Present
<1>4. CASE SetAside
  <2>1. PICK r \in Releases : r = rel
    BY <1>4 DEF SetAside
  <2>2. KeepsOthers(r) /\ Keeps(r) /\ ~Publishes
    BY <1>4, <2>1 DEF SetAside, Publishes, KeepsOthers, Keeps, Present, Leftovers
  <2> QED
    BY <2>2 DEF KeepsOthers
<1>5. CASE Publish
  <2>1. PICK r \in Releases : r = rel
    BY <1>5 DEF Publish
  <2>2. step = "publish" /\ KeepsOthers(r)
    BY <1>5, <2>1 DEF Publish, KeepsOthers, Keeps, Present
  <2>3. Publishes => Present(r)'
    BY <1>5, <2>1 DEF Publish, StagedWhole, Complete, Publishes, Present
  <2>4. ~Publishes => (Present(r)' => Present(r))
    BY <1>5, <2>1 DEF Publish, Publishes, Present
  <2> QED
    BY <1>1, <2>1, <2>2, <2>3, <2>4 DEF InstallSteps
<1>6. CASE Cleanup
  <2>1. PICK r \in Releases : r = rel
    BY <1>6 DEF Cleanup
  <2>2. step = "cleanup" /\ KeepsOthers(r) /\ ~Publishes
    BY <1>6, <2>1 DEF Cleanup, KeepsOthers, Keeps, Present, Publishes
  <2>3. Present(r)' => Present(r)
    BY <1>6, <2>1 DEF Cleanup, Leftovers, Present
  <2> QED
    BY <1>1, <2>2, <2>3 DEF InstallSteps
<1>7. ASSUME NEW r \in Releases, RemoveFiles(r)
      PROVE  ~Publishes /\ \A q \in Releases : Keeps(q)
  BY <1>7 DEF RemoveFiles, Remains, InstallWired, PruneSteps, Publishes, Keeps, Present
<1>8. CASE RemoveDirectory
  <2>1. PICK r \in Releases : r = rel
    BY <1>8 DEF RemoveDirectory
  <2>2. step = "removing" /\ KeepsOthers(r) /\ ~Publishes
    BY <1>8, <2>1 DEF RemoveDirectory, KeepsOthers, Keeps, Present, Publishes
  <2>3. Present(r)' => Present(r)
    BY <1>8, <2>1 DEF RemoveDirectory, Present
  <2> QED
    BY <1>1, <2>2, <2>3 DEF PruneSteps
<1>9. "sweep" \in InstallSteps
  BY DEF InstallSteps
<1> QED
  BY <1>1, <1>2, <1>3, <1>4, <1>5, <1>6, <1>7, <1>8, <1>9 DEF InstallerStep

\* The installer writes and removes releases for apply_version alone, and what
\* it writes is the release of the command.
LEMMA WorksForApply ==
  ASSUME DeviceInv, step \in InstallSteps \cup PruneSteps
  PROVE  Agent!Applying /\ (step \in InstallSteps => rel = handling.release)
<1>1. at \in {"install", "prune_wait"} /\ (step \in InstallSteps => at = "install" /\ rel = goal)
  BY DEF DeviceInv, InstallWired, InstallSteps, PruneSteps
<1>2. op = "apply"
  BY <1>1 DEF DeviceInv, EnginePart, PointerInv, Recorded
<1> QED
  BY <1>1, <1>2 DEF DeviceInv, Wired, Agent!Applying

\* What the engine does to the files under releases/ is what AgentService.tla
\* lets it do, and they are the files of the releases that are there.
LEMMA ContentsFollow ==
  ASSUME DeviceInv, EngineWorks
  PROVE  /\ ContentInv'
         /\ \/ UNCHANGED installed \/ Agent!EngineInstalls
            \/ \E r \in Releases : Agent!EngineRemoves(r)
<1> DEFINE Stays(r) == installed'[r] = installed[r]
<1>1. /\ installed \in [Releases -> [Files -> Agent!InstalledStates]]
      /\ installed' = Contents /\ UNCHANGED handlerVars /\ EngineStep
  BY HandlerTypes DEF DeviceInv, EngineWorks
<1>2. \A r \in Releases : Gone(r) <=> ~Present(r)'
  BY DEF Gone, Present
<1>3. ASSUME NEW r \in Releases, ~(Publishes /\ r = rel)
      PROVE  installed'[r] = IF Present(r)' THEN installed[r] ELSE Agent!NoFiles
  BY <1>1, <1>2, <1>3 DEF Contents, Publishes
<1>4. ASSUME NEW r \in Releases, ~(Publishes /\ r = rel), Keeps(r)
      PROVE  Stays(r) /\ (installed'[r] # Agent!NoFiles <=> Present(r)')
  BY <1>3, <1>4 DEF DeviceInv, ContentInv, Keeps
<1>5. ContentInv' <=> \A r \in Releases : installed'[r] # Agent!NoFiles <=> Present(r)'
  BY DEF ContentInv, Present, Agent!NoFiles
<1>6. installed' = [r \in Releases |-> installed'[r]]
  BY <1>1 DEF Contents
<1>7. CASE ~Publishes /\ \A r \in Releases : Keeps(r)
  <2>1. \A r \in Releases : Stays(r) /\ (installed'[r] # Agent!NoFiles <=> Present(r)')
    BY <1>4, <1>7
  <2>2. installed' = installed
    BY <1>1, <1>6, <2>1
  <2> QED
    BY <1>5, <2>1, <2>2
<1>8. ASSUME NEW r \in Releases, r = rel, Publishes, Present(r)', KeepsOthers(r)
      PROVE  ContentInv' /\ Agent!EngineInstalls
  <2>1. files[r] # Agent!NoFiles
    BY <1>8 DEF DeviceInv, InstallWired, Publishes
  <2>2. installed'[r] = files[r]
    BY <1>1, <1>8 DEF Contents, Publishes
  <2>3. \A q \in Releases \ {r} : Stays(q) /\ (installed'[q] # Agent!NoFiles <=> Present(q)')
    BY <1>4, <1>8 DEF KeepsOthers
  <2>4. installed' = [installed EXCEPT ![r] = files[r]]
    BY <1>1, <1>6, <2>2, <2>3
  <2>5. Agent!Applying /\ r = handling.release
    BY <1>8, WorksForApply DEF Publishes, InstallSteps
  <2>6. Agent!EngineInstalls
    BY <1>1, <2>1, <2>4, <2>5
    DEF Agent!EngineInstalls, Agent!Release, handlerVars, Agent!queueVars, Agent!cacheVars,
        Agent!workVars, Agent!retryVars
  <2> QED
    BY <1>5, <1>8, <2>1, <2>2, <2>3, <2>6
<1>9. ASSUME NEW r \in Releases, ~Publishes, step \in InstallSteps \cup PruneSteps,
             ~Present(r)', KeepsOthers(r)
      PROVE  ContentInv' /\ Agent!EngineRemoves(r)
  <2>1. installed'[r] = Agent!NoFiles
    BY <1>3, <1>9
  <2>2. \A q \in Releases \ {r} : Stays(q) /\ (installed'[q] # Agent!NoFiles <=> Present(q)')
    BY <1>4, <1>9 DEF KeepsOthers
  <2>3. installed' = [installed EXCEPT ![r] = Agent!NoFiles]
    BY <1>1, <1>6, <2>1, <2>2
  <2>4. Agent!EngineRemoves(r)
    BY <1>1, <1>9, <2>3, WorksForApply
    DEF Agent!EngineRemoves, handlerVars, Agent!queueVars, Agent!cacheVars, Agent!workVars,
        Agent!retryVars
  <2> QED
    BY <1>5, <1>9, <2>1, <2>2, <2>4
<1>10. CASE step = "idle" /\ UNCHANGED dirVars
  BY <1>7, <1>10 DEF Publishes, Keeps, Present, dirVars
<1> QED
  BY <1>1, <1>7, <1>8, <1>9, <1>10, EngineDirs, InstallerDirs

\* Every step of the device is one of the handler, or leaves it alone.
LEMMA HandlerOfDevice ==
  ASSUME DeviceInv, [DeviceNext]_systemVars
  PROVE  [Agent!AgentNext]_(Agent!agentVars)
<1> USE DEF Agent!agentVars, Agent!queueVars, Agent!cacheVars, Agent!workVars, Agent!retryVars,
            handlerVars
<1>1. CASE \E m \in Messages : Arrives(m)
  BY <1>1 DEF Arrives, Agent!AgentNext
<1>2. CASE HandlerStep
  BY <1>2
  DEF HandlerStep, HandlerWorks, UpdateConfiguration, ApplyVersion, RollbackVersion,
      RestartService, EngineReturns, Agent!AgentStep, Agent!AgentNext
<1>3. CASE EngineWorks
  BY <1>3, ContentsFollow DEF EngineWorks, Agent!EngineWorks, Agent!AgentStep, Agent!AgentNext
<1>4. CASE Starts \/ Dies \/ ServiceExits
  BY <1>4 DEF Starts, Dies, ServiceExits, Agent!AgentNext
<1>5. CASE UNCHANGED systemVars
  BY <1>5 DEF systemVars
<1> QED
  BY <1>1, <1>2, <1>3, <1>4, <1>5 DEF DeviceNext

-----------------------------------------------------------------------------
\* What ties the handler to the engine.
TiesInv == Wired /\ InstallWired /\ ContentInv /\ ReplyInv

\* Between two calls the installer rests as well.
LEMMA ReadyRests == ASSUME DeviceInv, op = "idle" PROVE at = "idle" /\ step = "idle"
  BY DEF DeviceInv, EnginePart, EngineInv, EngineTypeOK, Control, Waiting

\* Edits change files, and none appears or goes.
LEMMA EditsKeepContent ==
  ASSUME AgentP!AgentInv, NEW r \in Releases, Agent!Edits(r), NEW q \in Releases
  PROVE  installed'[q] # Agent!NoFiles <=> installed[q] # Agent!NoFiles
<1>1. PICK f \in Files : /\ installed[r][f] # "none"
                         /\ installed' = [installed EXCEPT ![r][f] = "edited"]
  BY DEF Agent!Edits
<1>2. installed[r] \in [Files -> Agent!InstalledStates] /\ q \in DOMAIN installed
  BY HandlerTypes
<1>3. CASE q = r
  <2>1. installed'[r][f] = "edited"
    BY <1>1, <1>2, <1>3
  <2>2. Agent!NoFiles[f] = "none"
    BY DEF Agent!NoFiles
  <2> QED
    BY <1>1, <1>3, <2>1, <2>2
<1>4. CASE q # r
  BY <1>1, <1>2, <1>4
<1> QED
  BY <1>3, <1>4

\* While the handler works without the engine, the engine rests.
LEMMA HandlerKeepsTies ==
  ASSUME DeviceInv, HandlerWorks \/ UpdateConfiguration \/ EngineReturns
  PROVE  TiesInv'
<1> USE DEF DeviceInv
<1>1. up' /\ op' = "idle" /\ step' = "idle" /\ UNCHANGED dirVars
  BY ReadyRests
  DEF HandlerWorks, UpdateConfiguration, EngineReturns, Ready, deviceVars, engineVars, opVars,
      installerVars, callVars
<1>2. Wired' /\ InstallWired'
  BY <1>1 DEF Wired, InstallWired, InstallSteps, PruneSteps
<1>3. phase' # "engine"
  BY DEF HandlerWorks, UpdateConfiguration, EngineReturns, Agent!CacheStep, Agent!DownloadBegins,
         Agent!Fetch, Agent!FetchFails, Agent!Verify, Agent!DownloadEnds, Agent!CleanBegins,
         Agent!CleanListFails, Agent!CleanNext, Agent!CleanFile, Agent!CleanDirectory,
         Agent!CleanEnds, Agent!Receive, Agent!Rejected, Agent!RebootDevice,
         Agent!CurrentStatus, Agent!UpdateConfiguration, Agent!EngineReturns, Agent!Done,
         Agent!Transient, Agent!EndHandling, Agent!workVars
<1>4. ReplyInv'
  BY <1>3 DEF ReplyInv
<1>5. UNCHANGED installed \/ \E r \in Releases : Agent!Edits(r)
  BY DEF HandlerWorks, UpdateConfiguration, EngineReturns, Agent!CacheStep, Agent!DownloadBegins,
         Agent!Fetch, Agent!FetchFails, Agent!Verify, Agent!DownloadEnds, Agent!CleanBegins,
         Agent!CleanListFails, Agent!CleanNext, Agent!CleanFile, Agent!CleanDirectory,
         Agent!CleanEnds, Agent!Receive, Agent!Rejected, Agent!RebootDevice,
         Agent!CurrentStatus, Agent!UpdateConfiguration, Agent!EngineReturns
<1>6. \A q \in Releases : installed'[q] # Agent!NoFiles <=> installed[q] # Agent!NoFiles
  BY <1>5, EditsKeepContent
<1>7. ContentInv'
  BY <1>1, <1>6 DEF ContentInv, Present, dirVars, Agent!NoFiles
<1> QED
  BY <1>2, <1>4, <1>7 DEF TiesInv

\* A command calls the engine, or is answered without it.
LEMMA CallsKeepTies ==
  ASSUME DeviceInv, ApplyVersion \/ RollbackVersion \/ RestartService
  PROVE  TiesInv'
<1> USE DEF DeviceInv
<1>1. up /\ op = "idle" /\ step = "idle" /\ phase = "dispatch"
  BY ReadyRests
  DEF ApplyVersion, RollbackVersion, RestartService, Ready, Agent!ApplyVersion,
      Agent!RollbackVersion, Agent!RestartService, Agent!IsCommand
<1>2. UNCHANGED <<dirVars, up, installed, files>>
  BY DEF ApplyVersion, RollbackVersion, RestartService, Agent!ApplyVersion,
      Agent!RollbackVersion, Agent!RestartService, Agent!cacheVars, Calls, Apply, RollbackTo,
      Restart, Install, InstallRefused, deviceVars, engineVars, installerVars
<1>3. ContentInv'
  BY <1>2 DEF ContentInv, Present, dirVars, Agent!NoFiles
<1>4. CASE phase' # "engine"
  <2>1. phase' = "idle" /\ UNCHANGED <<op, step>>
    BY <1>4
    DEF ApplyVersion, RollbackVersion, RestartService, Agent!ApplyVersion,
        Agent!RollbackVersion, Agent!RestartService, Agent!CallsEngine, Agent!Done,
        Agent!EndHandling, Calls, deviceVars, engineVars, opVars, installerVars, callVars
  <2> QED
    BY <1>1, <1>2, <1>3, <2>1
    DEF TiesInv, Wired, InstallWired, ReplyInv, InstallSteps, PruneSteps
<1>5. CASE phase' = "engine"
  <2>1. handling' = handling
    BY <1>5
    DEF ApplyVersion, RollbackVersion, RestartService, Agent!ApplyVersion,
        Agent!RollbackVersion, Agent!RestartService, Agent!CallsEngine, Agent!Done,
        Agent!EndHandling
  <2>2. CASE ApplyVersion
    <3>1. handling.command = "apply_version" /\ Apply(handling.release)
      BY <1>5, <2>2
      DEF ApplyVersion, Agent!ApplyVersion, Agent!IsCommand, Agent!Release, Calls
    <3>2. op' = "apply" /\ at' = "install" /\ goal' = handling.release /\ up'
      BY <1>1, <1>2, <3>1 DEF Apply, Begin
    <3>3. step' = "idle" \/ (step' = "create" /\ rel' = handling.release)
      BY <3>1 DEF Apply, Install, InstallRefused, Return
    <3> QED
      BY <1>2, <1>3, <1>5, <2>1, <3>1, <3>2, <3>3
      DEF TiesInv, Wired, InstallWired, ReplyInv, InstallSteps, PruneSteps
  <2>3. CASE RollbackVersion
    <3>1. handling.command = "rollback_version" /\ RollbackTo(handling.release)
      BY <1>5, <2>3
      DEF RollbackVersion, Agent!RollbackVersion, Agent!IsCommand, Agent!Release, Calls
    <3>2. /\ up' /\ step' = "idle"
          /\ \/ op' = "rollback_to" /\ goal' = handling.release
             \/ op' = "idle" /\ reply' = "failed"
      BY <1>1, <1>2, <3>1 DEF RollbackTo, Begin, Finish, installerVars, callVars
    <3> QED
      BY <1>2, <1>3, <1>5, <2>1, <3>1, <3>2
      DEF TiesInv, Wired, InstallWired, ReplyInv, InstallSteps, PruneSteps
  <2>4. CASE RestartService
    <3>1. handling.command = "restart_service" /\ Restart
      BY <1>5, <2>4 DEF RestartService, Agent!RestartService, Agent!IsCommand, Calls
    <3>2. /\ up' /\ step' = "idle"
          /\ op' = "restart" \/ (op' = "idle" /\ reply' = "failed")
      BY <1>1, <1>2, <3>1 DEF Restart, Begin, Finish, installerVars, callVars
    <3> QED
      BY <1>2, <1>3, <1>5, <2>1, <3>1, <3>2
      DEF TiesInv, Wired, InstallWired, ReplyInv, InstallSteps, PruneSteps
  <2> QED
    BY <2>2, <2>3, <2>4
<1> QED
  BY <1>4, <1>5

\* Messages arrive, the agent starts and dies, the service exits.
LEMMA OutsideKeepsTies ==
  ASSUME DeviceInv, (\E m \in Messages : Arrives(m)) \/ Starts \/ Dies \/ ServiceExits
  PROVE  TiesInv'
<1> USE DEF DeviceInv
<1>1. UNCHANGED <<dirVars, installed>>
  BY DEF Arrives, Agent!Send, Starts, AgentStart, Dies, AgentDies, DeviceReboots, LoseMemory,
         InstallerCrash, Agent!AgentDies, ServiceExits, ProcessExits, deviceVars, installerVars
<1>2. ContentInv'
  BY <1>1 DEF ContentInv, Present, dirVars, Agent!NoFiles
<1>3. CASE (\E m \in Messages : Arrives(m)) \/ ServiceExits
  <2>1. UNCHANGED <<up, op, at, goal, reply, handle, record, state, step, rel, doomed, slots,
                    phase, handling, files>>
    BY <1>3
    DEF Arrives, Agent!Send, Agent!workVars, Agent!cacheVars, ServiceExits, ProcessExits,
        deviceVars, installerVars, dirVars, stateVars, callVars, engineVars, opVars, handlerVars
  <2> QED
    BY <1>2, <2>1 DEF TiesInv, Wired, InstallWired, ReplyInv, Agent!NoFiles
<1>4. CASE Starts
  <2>1. phase' = "idle" /\ op' = "start_active" /\ up' /\ step' = "idle"
    BY <1>4, ReadyRests
    DEF Starts, AgentStart, Begin, Wired, handlerVars, installerVars, callVars, EnginePart,
        EngineInv, Control
  <2> QED
    BY <1>2, <2>1 DEF TiesInv, Wired, InstallWired, ReplyInv, InstallSteps, PruneSteps
<1>5. CASE Dies
  <2>1. phase' = "idle" /\ op' = "idle" /\ step' = "idle"
    BY <1>5
    DEF Dies, AgentDies, DeviceReboots, LoseMemory, Finish, InstallerCrash, Return,
        Agent!AgentDies, Agent!EndHandling, installerVars, callVars
  <2> QED
    BY <1>2, <2>1 DEF TiesInv, Wired, InstallWired, ReplyInv, InstallSteps, PruneSteps
<1> QED
  BY <1>3, <1>4, <1>5

\* The steps of an operation.
LEMMA OperationKeepsWired ==
  ASSUME DeviceInv, EngineWorks
  PROVE  Wired'
<1> USE DEF DeviceInv, EnginePart, EngineInv, Control, At, Continue, Begin, Finish, Recover,
            Unlaunched, Succeed, Wired
<1>1. UNCHANGED <<phase, handling>> /\ EngineStep
  BY DEF EngineWorks, handlerVars
<1>2. CASE Stop \/ ClearRecord \/ Start \/ WriteRecord \/ AwaitReady
  BY <1>1, <1>2
  DEF Stop, AfterStop, ClearRecord, Start, WriteRecord, AfterLaunch, AwaitReady
<1>3. CASE \/ InstallReturns \/ CallActivate \/ ActivateReturns \/ PruneReturns
           \/ CallRollback \/ RollbackReturns
  BY <1>1, <1>3
  DEF InstallReturns, CallActivate, ActivateReturns, PruneReturns, CallRollback, RollbackReturns
<1>4. CASE ReadActive \/ ResumeFails \/ RecordMisread \/ NothingToAdopt \/ Adopt
  BY <1>1, <1>4 DEF ReadActive, ResumeFails, RecordMisread, NothingToAdopt, Adopt
<1>5. CASE UNCHANGED engineVars
  BY <1>1, <1>5 DEF engineVars, opVars
<1> QED
  BY <1>1, <1>2, <1>3, <1>4, <1>5 DEF EngineStep

\* ... and those of the installer.
LEMMA OperationKeepsInstall ==
  ASSUME DeviceInv, EngineWorks
  PROVE  InstallWired'
<1> USE DEF DeviceInv, EnginePart, EngineInv, InstallWired, InstallSteps, PruneSteps
<1>1. /\ UNCHANGED files /\ EngineStep
      /\ step = "copy" /\ step' = "sweep" => files[rel] # Agent!NoFiles
  BY DEF EngineWorks, handlerVars
<1>2. CASE \/ Stop \/ ClearRecord \/ Start \/ WriteRecord \/ InstallReturns
           \/ ActivateReturns \/ PruneReturns \/ RollbackReturns
           \/ ReadActive \/ ResumeFails \/ RecordMisread \/ NothingToAdopt \/ Adopt
  <2>1. step' = "idle"
    BY <1>2
    DEF Stop, ClearRecord, Start, WriteRecord, InstallReturns, ActivateReturns, PruneReturns,
        RollbackReturns, ReadActive, ResumeFails, RecordMisread, NothingToAdopt, Adopt, At,
        installerVars, callVars
  <2> QED
    BY <2>1
<1>3. CASE CallActivate \/ CallRollback
  <2>1. step' \in {"idle", "link"}
    BY <1>3
    DEF CallActivate, CallRollback, Activate, ActivateFails, Rollback, RollbackFails, WriteState,
        Return
  <2> QED
    BY <2>1
<1>4. CASE AwaitReady
  <2>1. \/ step' = "idle"
        \/ /\ step' = "prune" /\ at' = "prune_wait" /\ UNCHANGED dirVars
           /\ doomed' \subseteq Installed
    BY <1>4
    DEF AwaitReady, At, Continue, Finish, Unlaunched, Recover, Prune, PruneFails, Return,
        Candidates, Listings, installerVars, callVars
  <2> QED
    BY <2>1 DEF Installed, dirVars
<1>5. CASE InstallerStep /\ UNCHANGED engineVars
  <2>1. UNCHANGED <<at, goal>>
    BY <1>5 DEF engineVars, opVars
  <2>2. CASE CreateStaging \/ CopyFiles \/ SweepDone \/ SetAside \/ Publish \/ Cleanup \/ Discard
    BY <1>1, <2>1, <2>2
    DEF CreateStaging, CopyFiles, SweepDone, SetAside, Publish, Cleanup, Discard, Goto, Return,
        Agent!NoFiles
  <2>3. CASE (\E r \in Releases : SweepOne(r)) \/ RefreshLink \/ PruneDone
    BY <1>1, <2>1, <2>3 DEF SweepOne, RefreshLink, PruneDone, Return, callVars, Agent!NoFiles
  <2>4. ASSUME NEW r \in Releases, RemoveFiles(r) PROVE InstallWired'
    BY <2>1, <2>4 DEF RemoveFiles, Remains, InstallerInv, InstallerTypeOK
  <2>5. CASE RemoveDirectory
    BY <2>1, <2>5 DEF RemoveDirectory, Return, InstallerInv, InstallerTypeOK
  <2> QED
    BY <1>5, <2>2, <2>3, <2>4, <2>5 DEF InstallerStep
<1> QED
  BY <1>1, <1>2, <1>3, <1>4, <1>5 DEF EngineStep

\* An operation of the engine is over when it replies.
LEMMA OperationKeepsReply ==
  ASSUME DeviceInv, EngineWorks
  PROVE  ReplyInv'
<1> SUFFICES ASSUME op' = "idle", reply' = "ok", phase = "engine"
             PROVE  /\ handle' \in Procs
                    /\ record' = [boot |-> "this", proc |-> handle', rel |-> state'.active]
                    /\ handling.command \in {"apply_version", "rollback_version"}
                         => state'.active = handling.release
  BY DEF ReplyInv, EngineWorks, handlerVars
<1>1. op # "idle"
  <2>1. op = "idle" => at = "idle" /\ step = "idle"
    BY ReadyRests
  <2>2. at # "idle" \/ step # "idle"
    BY DEF EngineWorks, EngineStep, Stop, ClearRecord, Start, WriteRecord, AwaitReady,
           InstallReturns, CallActivate, ActivateReturns, PruneReturns, CallRollback,
           RollbackReturns, ReadActive, ResumeFails, RecordMisread, NothingToAdopt, Adopt, At,
           InstallerStep, CreateStaging, CopyFiles, SweepOne, SweepDone, SetAside, Publish, Cleanup, Discard,
           RefreshLink, RemoveFiles, RemoveDirectory, PruneDone
  <2> QED
    BY <2>1, <2>2
<1>2. /\ handle' \in Procs
      /\ record' = [boot |-> "this", proc |-> handle', rel |-> state'.active]
      /\ op \in {"apply", "rollback_to"} => state'.active = goal
  BY <1>1, SuccessRecorded DEF DeviceInv, EnginePart, EngineWorks, EngineNext
<1>3. op \notin {"recover", "restore"}
  BY <1>1
  DEF DeviceInv, EnginePart, EngineInv, Control, PointerInv, Recorded, EngineWorks, EngineStep,
      Stop, ClearRecord, Start, WriteRecord, AwaitReady, InstallReturns, CallActivate,
      ActivateReturns, PruneReturns, CallRollback, RollbackReturns, ReadActive, ResumeFails,
      RecordMisread, NothingToAdopt, Adopt, AfterLaunch, Unlaunched, Recover, Continue, Begin,
      Finish, Succeed, At, engineVars, opVars
<1>4. handling.command \in {"apply_version", "rollback_version"} =>
        op \in {"apply", "rollback_to"} /\ goal = handling.release
  BY <1>1, <1>3 DEF DeviceInv, EnginePart, EngineInv, EngineTypeOK, Ops, Wired
<1> QED
  BY <1>2, <1>4

LEMMA EngineKeepsTies ==
  ASSUME DeviceInv, EngineWorks
  PROVE  TiesInv'
  BY ContentsFollow, OperationKeepsWired, OperationKeepsInstall, OperationKeepsReply DEF TiesInv

\* Every step of the device preserves DeviceInv, whatever fails.
LEMMA DeviceInvStep ==
  ASSUME DeviceInv, [DeviceNext]_systemVars
  PROVE  DeviceInv'
<1>1. EnginePart'
  BY EngineOfDevice, EngineInvStep, PointerInvStep DEF DeviceInv, EnginePart
<1>2. AgentP!AgentInv'
  BY HandlerOfDevice, HandlerStepKeeps DEF DeviceInv
<1>3. TiesInv'
  <2>1. CASE DeviceNext
    BY <2>1, HandlerKeepsTies, CallsKeepTies, EngineKeepsTies, OutsideKeepsTies
    DEF DeviceNext, HandlerStep
  <2>2. CASE UNCHANGED systemVars
    BY <2>2
    DEF DeviceInv, TiesInv, Wired, InstallWired, ContentInv, ReplyInv, Present, Agent!NoFiles,
        systemVars, handlerVars, deviceVars, installerVars, dirVars, stateVars, callVars,
        engineVars, opVars
  <2> QED
    BY <2>1, <2>2
<1> QED
  BY <1>1, <1>2, <1>3 DEF DeviceInv, TiesInv

LEMMA DeviceInitially == DeviceInit => DeviceInv
<1> SUFFICES ASSUME DeviceInit PROVE DeviceInv
  OBVIOUS
<1> USE DEF DeviceInit
<1>1. EnginePart
  BY EngineInitially DEF EngineInit, EnginePart, TrackInv, PointerInv, Recorded, Recovery
<1>2. AgentP!AgentInv
  BY HandlerInitially
<1>3. Wired /\ InstallWired /\ ReplyInv
  BY DEF EngineInit, InstallerInit, Agent!AgentInit, Wired, InstallWired, ReplyInv,
         InstallSteps, PruneSteps
<1>4. ContentInv
  BY DEF EngineInit, InstallerInit, Agent!AgentInit, ContentInv, Present
<1> QED
  BY <1>1, <1>2, <1>3, <1>4 DEF DeviceInv

-----------------------------------------------------------------------------
\* Every behaviour of the device is one of the engine ...
THEOREM DeviceUsesEngine == DeviceSpec => EngineSpec
<1>1. DeviceInit => EngineInit
  BY DEF DeviceInit
<1>2. DeviceInv /\ [DeviceNext]_systemVars => [EngineNext]_deviceVars
  BY EngineOfDevice
<1>3. DeviceInv /\ [DeviceNext]_systemVars => DeviceInv'
  BY DeviceInvStep
<1> QED
  BY <1>1, <1>2, <1>3, DeviceInitially, PTL DEF DeviceSpec, EngineSpec

\* ... and one of the command handler as AgentService.tla has it: what it says
\* the engine may do to the installed files is what the engine does.
THEOREM DeviceImplementsAgent == DeviceSpec => ImplementsAgent
<1>1. DeviceInit => Agent!AgentInit
  BY DEF DeviceInit
<1>2. DeviceInv /\ [DeviceNext]_systemVars => [Agent!AgentNext]_(Agent!agentVars)
  BY HandlerOfDevice
<1>3. DeviceInv /\ [DeviceNext]_systemVars => DeviceInv'
  BY DeviceInvStep
<1> QED
  BY <1>1, <1>2, <1>3, DeviceInitially, PTL DEF DeviceSpec, ImplementsAgent, Agent!AgentSpec

-----------------------------------------------------------------------------
\* The referenced releases stay complete and the handler's cache sound.
DeviceIsSafe == SwapIsSafe /\ RemovalIsSafe /\ StateIsRead /\ AgentP!CacheIsSafe

FilesInv == DeviceInv /\ SafeInv /\ AgentP!SafeInv

LEMMA CacheSafeStep ==
  ASSUME AgentP!CacheIsSafe, DeviceInv, AgentP!SafeInv, [DeviceNext]_systemVars
  PROVE  AgentP!SafeInv'
<1>1. [Agent!AgentNext]_(Agent!agentVars)
  BY HandlerOfDevice
<1>2. [AgentP!AgentNext]_(AgentP!agentVars)
  BY <1>1, SameNext
  DEF Agent!agentVars, Agent!queueVars, Agent!cacheVars, Agent!workVars, Agent!retryVars,
      AgentP!agentVars, AgentP!queueVars, AgentP!cacheVars, AgentP!workVars, AgentP!retryVars
<1> QED
  BY <1>2, AgentP!SafeInvStep, HandlerAssumption
  DEF DeviceInv, Agent!Commands, AgentP!Commands

LEMMA FilesInvStep ==
  ASSUME DeviceIsSafe, FilesInv, [DeviceNext]_systemVars
  PROVE  FilesInv'
<1> USE DEF DeviceIsSafe, FilesInv
<1>1. DeviceInv' /\ AgentP!SafeInv'
  BY DeviceInvStep, CacheSafeStep
<1>2. EngineInv /\ [InstallerNext]_installerVars
  BY EngineOfDevice, InstallerSteps DEF DeviceInv, EnginePart
<1>3. SafeInv'
  BY <1>2, SafeInvStep DEF EngineInv, PruningIsSafe
<1> QED
  BY <1>1, <1>3

LEMMA FilesInitially == DeviceInit => FilesInv
<1> SUFFICES ASSUME DeviceInit PROVE FilesInv
  OBVIOUS
<1> USE DEF DeviceInit
<1>1. SafeInv
  BY InstallerInitially DEF EngineInit
<1>2. AgentP!AgentInit
  BY DEF Agent!AgentInit, AgentP!AgentInit, Agent!NoFiles, AgentP!NoFiles
<1>3. AgentP!SafeInv
  BY <1>2, AgentP!SafeInitially, HandlerAssumption DEF Agent!Commands, AgentP!Commands
<1> QED
  BY <1>1, <1>3, DeviceInitially DEF FilesInv

\* What the pointers of state.json name is there, and so it is verified.
LEMMA ReferencedVerified ==
  ASSUME FilesInv, NEW r \in Releases, r \in Referenced
  PROVE  Verified(r)
<1>1. Present(r)
  BY DEF FilesInv, SafeInv, ReferencedWhole, Complete, Present
<1>2. installed[r] # Agent!NoFiles
  BY <1>1 DEF FilesInv, DeviceInv, ContentInv
<1> QED
  BY <1>2
  DEF FilesInv, AgentP!SafeInv, AgentP!VerifiedBeforeInstall, AgentP!NoFiles, Agent!NoFiles,
      Verified

\* When the handler's cache is sound it stays so on the device.
THEOREM DeviceCacheVerified ==
  ASSUME AgentP!CacheIsSafe
  PROVE  DeviceSpec => []CacheVerified
<1>1. DeviceInit => DeviceInv /\ AgentP!SafeInv
  BY FilesInitially DEF FilesInv
<1>2. DeviceInv /\ AgentP!SafeInv /\ [DeviceNext]_systemVars => (DeviceInv /\ AgentP!SafeInv)'
  BY DeviceInvStep, CacheSafeStep
<1>3. DeviceInv /\ AgentP!SafeInv => CacheVerified
  BY DEF AgentP!SafeInv, AgentP!CacheSound, AgentP!Filling, AgentP!Emptying, AgentP!AllGood,
         AgentP!NoFiles, CacheVerified, Agent!CacheVerified, Agent!AllGood, Agent!NoFiles
<1> QED
  BY <1>1, <1>2, <1>3, PTL DEF DeviceSpec

\* No unverified file is ever run: whatever commands come, are delivered again
\* or fail, and wherever else the agent or the device stops, every instance of
\* the service runs a release whose files had the hashes of its manifest.
THEOREM OnlyVerifiedRuns ==
  ASSUME DeviceIsSafe, TrackingIsSafe
  PROVE  DeviceSpec => []RunsVerified
<1>1. DeviceInit => FilesInv /\ Tracked
  BY FilesInitially, EngineInitially DEF DeviceInit, TrackInv
<1>2. FilesInv /\ Tracked /\ [DeviceNext]_systemVars => (FilesInv /\ Tracked)'
  BY FilesInvStep, EngineOfDevice, TrackInvStep DEF FilesInv, DeviceInv, EnginePart, TrackInv
<1>3. FilesInv /\ Tracked => RunsVerified
  <2> SUFFICES ASSUME FilesInv, Tracked, NEW p \in Live PROVE Verified(proc[p])
    BY DEF RunsVerified
  <2>1. proc[p] = state.active /\ proc[p] \in Releases
    BY DEF Tracked, Live, FilesInv, DeviceInv, EnginePart, EngineInv, EngineTypeOK,
           ReleaseOrNone
  <2> QED
    BY <2>1, ReferencedVerified DEF Referenced
<1> QED
  BY <1>1, <1>2, <1>3, PTL DEF DeviceSpec

\* An operator who is told of a success has the release of the command active,
\* verified and on record for the next start of the agent.
THEOREM SuccessMeansActive ==
  ASSUME DeviceIsSafe
  PROVE  DeviceSpec => SuccessIsActive
<1>1. ASSUME FilesInv, EngineReturns, reply = "ok",
             handling.command \in {"apply_version", "rollback_version"}
      PROVE  /\ state.active = handling.release
             /\ Verified(state.active)
             /\ record = [boot |-> "this", proc |-> handle, rel |-> state.active]
  <2>1. phase = "engine" /\ op = "idle"
    BY <1>1 DEF EngineReturns, Ready, Agent!EngineReturns
  <2>2. /\ state.active = handling.release
        /\ record = [boot |-> "this", proc |-> handle, rel |-> state.active]
    BY <1>1, <2>1 DEF FilesInv, DeviceInv, ReplyInv
  <2>3. handling.release \in Releases
    BY <1>1, <2>1, HandlerTypes DEF FilesInv, DeviceInv
  <2> QED
    BY <1>1, <2>2, <2>3, ReferencedVerified DEF Referenced
<1>2. FilesInv /\ [DeviceNext]_systemVars =>
        [EngineReturns /\ reply = "ok"
           /\ handling.command \in {"apply_version", "rollback_version"} =>
           /\ state.active = handling.release
           /\ Verified(state.active)
           /\ record = [boot |-> "this", proc |-> handle, rel |-> state.active]]_systemVars
  BY <1>1
<1>3. FilesInv /\ [DeviceNext]_systemVars => FilesInv'
  BY FilesInvStep
<1> QED
  BY <1>2, <1>3, FilesInitially, PTL DEF DeviceSpec, SuccessIsActive
=============================================================================
