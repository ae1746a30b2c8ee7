------------------------------- MODULE Device -------------------------------
(***************************************************************************)
(* One device: the agent's command handler (AgentService.tla) driving the  *)
(* deployment engine (DeploymentEngine.tla) on one thread, as              *)
(* YirangAgent/main.cpp wires them.  A command that calls the engine is    *)
(* answered when the engine returns; start_active() comes before the first *)
(* command; the agent's death ends the handling and the engine's operation *)
(* at once, and leaves the message in the queue.                           *)
(***************************************************************************)
EXTENDS DeploymentEngine

CONSTANTS Files, Messages, None, MaxAttempts, MaxQueued,   \* as in AgentService
          AgentFaults,        \* the operations of the handler that may fail
          HandlerCrashSteps   \* the handler's steps at which the agent may die

VARIABLES queued, report, handling, phase, todo, item, present, files, failing, attempts,
          installed

Agent == INSTANCE AgentService
           WITH at <- phase, Faults <- AgentFaults, CrashSteps <- HandlerCrashSteps

\* What AgentService assumes of its constants.
ASSUME HandlerAssumption ==
  /\ Messages \subseteq [command: Agent!Commands, release: Releases] /\ None \notin Messages
  /\ Files # {} /\ None \notin Files
  /\ MaxAttempts \in Nat \ {0} /\ MaxQueued \in Nat

\* The handler's variables but for what the engine changes on disk.
handlerVars == <<queued, report, handling, phase, todo, item, present, files, failing, attempts>>
systemVars == <<deviceVars, handlerVars, installed>>

DeviceInit == EngineInit /\ Agent!AgentInit

-----------------------------------------------------------------------------
(* The handler                                                             *)

Arrives(m) == Agent!Send(m) /\ UNCHANGED deviceVars

\* A command called the engine, or was answered without it.
Calls(operation) ==
  IF phase' = "engine" THEN operation ELSE UNCHANGED deviceVars

ApplyVersion == Ready /\ Agent!ApplyVersion /\ Calls(Apply(Agent!Release))

RollbackVersion == Ready /\ Agent!RollbackVersion /\ Calls(RollbackTo(Agent!Release))

RestartService == Ready /\ Agent!RestartService /\ Calls(Restart)

\* The engine's reply is the command's outcome.
EngineReturns == Ready /\ Agent!EngineReturns /\ UNCHANGED deviceVars

\* active_release_directory(): the release state.json names, if it is there.
UpdateConfiguration ==
  /\ Ready /\ Agent!UpdateConfiguration
  /\ \A r \in Releases : installed'[r] # installed[r] => r = state.active /\ r \in Installed
  /\ UNCHANGED deviceVars

\* The commands that do without the engine.
HandlerWorks ==
  /\ Ready /\ UNCHANGED deviceVars
  /\ \/ \E m \in Messages : Agent!Receive(m)
     \/ Agent!CacheStep \/ Agent!Rejected \/ Agent!RebootDevice \/ Agent!CurrentStatus

HandlerStep ==
  \/ HandlerWorks \/ UpdateConfiguration
  \/ ApplyVersion \/ RollbackVersion \/ RestartService \/ EngineReturns

-----------------------------------------------------------------------------
(* The engine                                                              *)

\* Nothing of release r is left under the install root.
Gone(r) == slots'[r] = "none" /\ retired'[r] = "none"

\* What the files under releases/ hold after an engine step: publish_staging()
\* puts the copy of the version directory in place (of the release's own files:
\* what else a staging directory that was not cleared adds is no file of it), ...
Contents ==
  [r \in Releases |->
     IF r = rel /\ step = "publish" /\ step' = "cleanup" THEN files[r]
     ELSE IF Gone(r) THEN Agent!NoFiles ELSE installed[r]]

\* ... which the copy loop refuses when it has no files.
EngineWorks ==
  /\ EngineStep
  /\ step = "copy" /\ step' = "sweep" => files[rel] # Agent!NoFiles
  /\ installed' = Contents
  /\ UNCHANGED handlerVars

-----------------------------------------------------------------------------
(* The agent process and the device                                        *)

Starts == AgentStart /\ UNCHANGED <<handlerVars, installed>>

\* Faulty variant: the message was deleted before it was handled.
DiesConsuming ==
  /\ AgentDies \/ DeviceReboots
  /\ Agent!EndHandling /\ Agent!ForgetFailure
  /\ queued' = queued \ {handling}
  /\ UNCHANGED <<report, present, files, installed>>

\* One process: the handler and the engine die together.
Dies == (AgentDies \/ DeviceReboots) /\ Agent!AgentDies

ServiceExits == (\E p \in Procs : ProcessExits(p)) /\ UNCHANGED <<handlerVars, installed>>

DeviceNext ==
  \/ \E m \in Messages : Arrives(m)
  \/ HandlerStep \/ EngineWorks
  \/ Starts \/ Dies \/ ServiceExits

DeviceSpec == DeviceInit /\ [][DeviceNext]_systemVars

-----------------------------------------------------------------------------
(* Properties                                                              *)

\* Files that were checked against the manifest of their release, or edited
\* by update_configuration since.
Verified(r) == \A f \in Files : installed[r][f] \in {"good", "edited"}

\* Every instance of the service runs a complete release whose files were
\* verified, whatever commands came in whatever order and however often, with
\* deaths of the agent between any two steps of a command but these: while
\* download_version or clean_old_version is at work in a version directory
\* (apply_version installs what is left there: VerifiedBeforeInstall), between
\* the renames of a swap, inside a removal of prune(), and between starting a
\* process and recording it.  The failures that SwapIsSafe, RemovalIsSafe,
\* StateIsRead, TrackingIsSafe and the handler's CacheIsSafe rule out are left
\* out, too.
RunsVerified == \A p \in Live : Verified(proc[p])

\* The device's handler behaves as AgentService.tla says although the engine
\* replaces what is represented of it there: it copies from the cache only
\* during apply_version, and removes what it likes.
ImplementsAgent == Agent!AgentSpec

\* A success the operator is told of: the release of the command is the active
\* one, its files are verified, and the instance that was started is on record
\* for the next start of the agent.
SuccessIsActive ==
  [][EngineReturns /\ reply = "ok" /\ handling.command \in {"apply_version", "rollback_version"} =>
       /\ state.active = handling.release
       /\ Verified(state.active)
       /\ record = [boot |-> "this", proc |-> handle, rel |-> state.active]]_systemVars

\* Between commands a version directory holds a complete, verified release, and
\* the engine leaves it alone.
CacheVerified == Agent!CacheVerified
=============================================================================
